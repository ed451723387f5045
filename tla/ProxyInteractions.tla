-------------------------- MODULE ProxyInteractions --------------------------
(***************************************************************************)
(* The last hops of a chat: /v1/chat/completions of a node                 *)
(* (src/node/main.py) calls the proxy of its container                     *)
(* (src/node/ollama_proxy.py), which calls Ollama, writes the interaction  *)
(* to its log, pushes it to the control plane, and tells the panel of live *)
(* generations by ticks, each sent by a task of its own                    *)
(* (/metrics/tick and /metrics/live of src/control-plane/main.py).         *)
(*                                                                         *)
(* Ways of a request: "nativo" (think is false: the native route first,    *)
(* the compatible one if that fails), "compat", "flusso" (both streamed    *)
(* and compatible), "webui" (a native stream, straight from the proxy).    *)
(* A call of the proxy is a pair <<request, 1 or 2>>.                      *)
(*                                                                         *)
(* What a native conversation is made of (src/shared/ollama_native.py) is  *)
(* at the end.                                                             *)
(***************************************************************************)
EXTENDS Naturals, Sequences, FiniteSets

CONSTANTS
  Domanda,    \* requests
  Vie,        \* a subset of {"nativo", "compat", "flusso", "webui"}
  MaxTick,    \* bound: ticks of a call
  Stantio     \* _LIVE_STALE_S

VARIABLES
  passi,        \* [Domanda -> [via, n, pc, buona, andato]]
  risposta,     \* [Domanda -> what the caller was told]
  completati,   \* [Domanda -> how often the model generated for it]
  telemetria,   \* [Chiamata -> rows in interactions.jsonl]
  negate,       \* history: calls whose row the disk refused
  inviati,      \* [Chiamata -> mesh_event rows of the control plane]
  tick,         \* ticks under way: [di, fine, k]
  ultimo,       \* history: [Chiamata -> what became of the tick "done"]
  vivi          \* _LIVE_GENERATIONS: [Chiamata -> age, Assente if none]

ProxyInteractionsAssumption ==
  Vie \subseteq {"nativo", "compat", "flusso", "webui"} /\ MaxTick \in Nat /\ Stantio \in Nat

vars == <<passi, risposta, completati, telemetria, negate, inviati, tick, ultimo, vivi>>

Chiamata == Domanda \X {1, 2}
Assente == Stantio + 2
Qui(r) == <<r, passi[r].n>>
Flussi == {"flusso", "webui"}

Fuori == [via |-> "nessuna", n |-> 1, pc |-> "fuori", buona |-> FALSE, andato |-> FALSE]

Init ==
  /\ passi = [r \in Domanda |-> Fuori] /\ risposta = [r \in Domanda |-> "attesa"]
  /\ completati = [r \in Domanda |-> 0]
  /\ telemetria = [i \in Chiamata |-> 0] /\ negate = {} /\ inviati = [i \in Chiamata |-> 0]
  /\ tick = {} /\ ultimo = [i \in Chiamata |-> "no"] /\ vivi = [i \in Chiamata |-> Assente]

Va(r, nuovo) == passi' = [passi EXCEPT ![r] = nuovo]

\* the caller is told, unless it has gone
Dice(r, esito) ==
  risposta' = [risposta EXCEPT ![r] = IF @ = "attesa" THEN esito ELSE @]

Pannello == <<tick, ultimo, vivi>>
Fatti == <<telemetria, negate, inviati>>

-----------------------------------------------------------------------------
(* The node and the proxy *)

Chiama(r, via) ==
  /\ passi[r].pc = "fuori"
  /\ Va(r, [passi[r] EXCEPT !.via = via, !.pc = "modello"])
  /\ UNCHANGED <<risposta, completati, Fatti, Pannello>>

\* _maybe_tick
Pezzo(r) ==
  LET i == Qui(r)
      spediti == Cardinality({t \in tick : t.di = i}) IN
  /\ passi[r].pc = "modello" /\ passi[r].via \in Flussi
  /\ \E k \in 1..MaxTick :
       /\ spediti < k /\ \A t \in tick : t.di = i => t.k < k
       /\ tick' = tick \union {[di |-> i, fine |-> FALSE, k |-> k]}
  /\ UNCHANGED <<passi, risposta, completati, Fatti, ultimo, vivi>>

\* Ollama has generated
Genera(r) ==
  /\ passi[r].pc = "modello"
  /\ completati' = [completati EXCEPT ![r] = @ + 1]
  /\ Va(r, [passi[r] EXCEPT !.pc = "registra", !.buona = TRUE])
  /\ UNCHANGED <<risposta, Fatti, Pannello>>

\* The native call has failed, and the node has it answered by the compatible route; else
\* the caller is told.
Fallisce(r) ==
  IF passi[r].via = "nativo" /\ passi[r].n = 1 /\ ~passi[r].andato
  THEN Va(r, [passi[r] EXCEPT !.n = 2, !.pc = "modello", !.buona = FALSE]) /\ UNCHANGED risposta
  ELSE Va(r, [passi[r] EXCEPT !.pc = "fine"]) /\ Dice(r, "errore")

\* Ollama answers with an error, which is not JSON of an answer but is JSON
Rifiuta(r) ==
  /\ passi[r].pc = "modello"
  /\ IF passi[r].via = "webui" THEN Va(r, [passi[r] EXCEPT !.pc = "fine"]) /\ Dice(r, "vuota")
     ELSE Va(r, [passi[r] EXCEPT !.pc = "registra"]) /\ UNCHANGED risposta
  /\ UNCHANGED <<completati, Fatti, Pannello>>

\* it cannot be reached, or the time is over; the compatible stream is logged all the same
Cade(r) ==
  /\ passi[r].pc = "modello"
  /\ IF passi[r].via = "flusso" THEN Va(r, [passi[r] EXCEPT !.pc = "registra"]) /\ Dice(r, "errore")
     ELSE Fallisce(r)
  /\ UNCHANGED <<completati, Fatti, Pannello>>

\* Mutant of Registra: the row is written again for the answer of the second route.
RegistraDueVolte(r) ==
  /\ passi[r].pc = "registra"
  /\ telemetria' = [telemetria EXCEPT ![Qui(r)] = @ + 1]
  /\ \/ Va(r, [passi[r] EXCEPT !.pc = "spinge"])
     \/ passi[r].n = 2 /\ UNCHANGED passi
  /\ UNCHANGED <<risposta, completati, negate, inviati, Pannello>>

\* save_interaction, in _record_interaction
Registra(r) ==
  /\ passi[r].pc = "registra"
  /\ telemetria' = [telemetria EXCEPT ![Qui(r)] = @ + 1]
  /\ Va(r, [passi[r] EXCEPT !.pc = "spinge"])
  /\ UNCHANGED <<risposta, completati, negate, inviati, Pannello>>

\* The disk refuses the row: a native stream ignores it, for the others the call fails.
NonRegistra(r) ==
  /\ passi[r].pc = "registra"
  /\ negate' = negate \union {Qui(r)}
  /\ IF passi[r].via = "webui" THEN Va(r, [passi[r] EXCEPT !.pc = "fine"]) /\ Dice(r, "ok")
     ELSE IF passi[r].via = "flusso" THEN Va(r, [passi[r] EXCEPT !.pc = "fine"]) /\ Dice(r, "errore")
     ELSE Fallisce(r)
  /\ UNCHANGED <<completati, telemetria, inviati, Pannello>>

\* Mutant of Esito: what the model refused is an answer.
EsitoBuono(c) == "ok"

\* what the caller gets: the native route of the proxy does not pass the status on
Esito(c) ==
  IF c.buona THEN "ok"
  ELSE IF c.via = "compat" \/ (c.via = "nativo" /\ c.n = 2) THEN "errore"
  ELSE "vuota"

\* log_to_control_plane and store_in_hermes, which never fail the call, then the last tick
Spinge(r) ==
  LET i == Qui(r) IN
  /\ passi[r].pc = "spinge"
  /\ \/ inviati' = [inviati EXCEPT ![i] = @ + 1]
     \/ UNCHANGED inviati
  /\ tick' = tick \union {[di |-> i, fine |-> TRUE, k |-> 0]}
  /\ ultimo' = [ultimo EXCEPT ![i] = "via"]
  /\ Va(r, [passi[r] EXCEPT !.pc = "fine"]) /\ Dice(r, Esito(passi[r]))
  /\ UNCHANGED <<completati, telemetria, negate, vivi>>

-----------------------------------------------------------------------------
(* The caller *)

\* The reader of a stream leaves: the compatible one ends with its record.
Lascia(r) ==
  /\ passi[r].via \in Flussi /\ passi[r].pc = "modello"
  /\ Va(r, [passi[r] EXCEPT !.andato = TRUE,
                         !.pc = IF passi[r].via = "flusso" THEN "registra" ELSE "fine"])
  /\ Dice(r, "andato")
  /\ UNCHANGED <<completati, Fatti, Pannello>>

\* a record whose reader has left may be cancelled while it pushes
Interrompe(r) ==
  /\ passi[r].via \in Flussi /\ passi[r].pc = "spinge"
  /\ Va(r, [passi[r] EXCEPT !.pc = "fine"]) /\ Dice(r, "andato")
  /\ ultimo' = [ultimo EXCEPT ![Qui(r)] = "mai"]
  /\ UNCHANGED <<completati, Fatti, tick, vivi>>

\* the node stops waiting for the proxy, which goes on
NodoScade(r) ==
  /\ passi[r].via \in {"nativo", "compat"} /\ passi[r].pc \in {"modello", "registra", "spinge"}
  /\ ~passi[r].andato
  /\ Va(r, [passi[r] EXCEPT !.andato = TRUE]) /\ Dice(r, "errore")
  /\ UNCHANGED <<completati, Fatti, Pannello>>

-----------------------------------------------------------------------------
(* The panel *)

\* Mutant of Dopo: the last tick refreshes the entry like the others.
DopoSenzaFine(t) == 0

Dopo(t) == IF t.fine THEN Assente ELSE 0

\* /metrics/tick
Arriva(t) ==
  /\ tick' = tick \ {t}
  /\ vivi' = [vivi EXCEPT ![t.di] = Dopo(t)]
  /\ ultimo' = [ultimo EXCEPT ![t.di] =
       IF t.fine THEN "arrivato" ELSE IF @ = "arrivato" THEN "sorpassato" ELSE @]
  /\ UNCHANGED <<passi, risposta, completati, Fatti>>

Perde(t) ==
  /\ tick' = tick \ {t}
  /\ ultimo' = [ultimo EXCEPT ![t.di] = IF t.fine THEN "perso" ELSE @]
  /\ UNCHANGED <<passi, risposta, completati, Fatti, vivi>>

Passa ==
  /\ \E i \in Chiamata : vivi[i] <= Stantio
  /\ vivi' = [i \in Chiamata |-> IF vivi[i] <= Stantio THEN vivi[i] + 1 ELSE vivi[i]]
  /\ UNCHANGED <<passi, risposta, completati, Fatti, tick, ultimo>>

\* /metrics/live
Guarda ==
  /\ \E i \in Chiamata : vivi[i] = Stantio + 1
  /\ vivi' = [i \in Chiamata |-> IF vivi[i] > Stantio THEN Assente ELSE vivi[i]]
  /\ UNCHANGED <<passi, risposta, completati, Fatti, tick, ultimo>>

Next ==
  \/ \E r \in Domanda :
       \/ \E via \in Vie : Chiama(r, via)
       \/ Pezzo(r) \/ Genera(r) \/ Rifiuta(r) \/ Cade(r) \/ Registra(r) \/ NonRegistra(r)
       \/ Spinge(r) \/ Lascia(r) \/ Interrompe(r) \/ NodoScade(r)
  \/ \E t \in tick : Arriva(t) \/ Perde(t)
  \/ Passa \/ Guarda

Spec == Init /\ [][Next]_vars

-----------------------------------------------------------------------------
(* shared/ollama_native.py.  A message is [ruolo, chiama, di]: the calls of an assistant,   *)
(* <<id, name>>, or the call that a tool answers.                                            *)

\* Mutant of Nome: the first call with that identifier.
NomePrimo(nomi, id) == (CHOOSE i \in DOMAIN nomi : nomi[i].id = id /\ \A j \in DOMAIN nomi : nomi[j].id = id => i <= j)

\* the last one the map has kept
Nome(nomi, id) == (CHOOSE i \in DOMAIN nomi : nomi[i].id = id /\ \A j \in DOMAIN nomi : nomi[j].id = id => j <= i)

\* _messages_to_native: the calls met up to each message, and the name of the tool that it
\* answers for
Incontrate(conversazione) ==
  LET nomi[i \in 0..Len(conversazione)] ==
        IF i = 0 THEN <<>> ELSE nomi[i - 1] \o conversazione[i].chiama
  IN  nomi

Nativi(conversazione) ==
  [i \in DOMAIN conversazione |->
     LET nomi == Incontrate(conversazione)[i]
         m == conversazione[i]
     IN  IF m.ruolo = "tool" /\ \E k \in DOMAIN nomi : nomi[k].id = m.di
         THEN nomi[Nome(nomi, m.di)].nome ELSE "nessuno"]

\* _tool_calls_to_openai: a native call without id gets its place in the round
Chiamate(nomi) == [i \in DOMAIN nomi |-> [id |-> i, nome |-> nomi[i]]]

\* to_openai_chat and a round of the tool loop: the calls, then their answers in any order
Giro(nomi, ordine) ==
  <<[ruolo |-> "assistant", chiama |-> Chiamate(nomi), di |-> 0]>> \o
  [i \in DOMAIN ordine |-> [ruolo |-> "tool", chiama |-> <<>>, di |-> ordine[i]]]

-----------------------------------------------------------------------------
TypeOK ==
  /\ \A r \in Domanda :
       /\ passi[r].pc \in {"fuori", "modello", "registra", "spinge", "fine"}
       /\ risposta[r] \in {"attesa", "ok", "vuota", "errore", "andato"}
  /\ telemetria \in [Chiamata -> 0..1] /\ inviati \in [Chiamata -> 0..1]
  /\ \A t \in tick : t.di \in Chiamata
  /\ vivi \in [Chiamata -> 0..Assente]

\* An answer that the caller got is in the log once, and was generated; nothing is in the
\* log of the control plane that is not in the node's (_record_interaction).
RispostaInTelemetria ==
  /\ \A r \in Domanda : risposta[r] = "ok" =>
       completati[r] > 0 /\ (telemetria[Qui(r)] = 1 \/ Qui(r) \in negate)
  /\ \A i \in Chiamata : inviati[i] <= telemetria[i] /\ telemetria[i] <= 1

\* The model generates twice for one request only when the first row could not be written
\* (v1_chat_completions_proxy).
DoppioSpiegato == \A r \in Domanda : completati[r] > 1 => <<r, 1>> \in negate

\* The panel shows a call that has ended only while its last tick has not arrived, or
\* when an older one overtook it (metrics_tick).
VivoSpiegato ==
  \A r \in Domanda :
    passi[r].pc = "fine" /\ vivi[Qui(r)] # Assente => ultimo[Qui(r)] # "arrivato"

Conversazioni ==
  {Giro(a, o) \o Giro(b, <<1>>) : a \in {<<"x", "y">>, <<"y", "x">>}, b \in {<<"x">>, <<"y">>},
                                  o \in {<<1, 2>>, <<2, 1>>}}

\* Every answer of a tool carries the name of the tool that was called in its own round,
\* although the rounds number their calls alike (shared/ollama_native.py).
NomeDelTool ==
  \A c \in Conversazioni : \A i \in DOMAIN c :
    c[i].ruolo = "tool" =>
      LET giro == CHOOSE j \in DOMAIN c : /\ j < i /\ c[j].ruolo = "assistant"
                                          /\ \A k \in j + 1..i : c[k].ruolo = "tool"
      IN Nativi(c)[i] = c[giro].chiama[c[i].di].nome

\* node/main.py:1025 "Nativo non utilizzabile (proxy vecchio, 400, risposta illeggibile):
\* si ricade sul compatibile": the proxy answers 200 whatever Ollama answered, so a
\* refused call is an empty answer.
NativoRicade == \A r \in Domanda : passi[r].via = "nativo" => risposta[r] # "vuota"
=============================================================================
