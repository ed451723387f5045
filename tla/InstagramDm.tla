----------------------------- MODULE InstagramDm -----------------------------
(***************************************************************************)
(* Answering the direct messages of one contact: the webhook, the poll of  *)
(* the inbox and the reply worker of cp/instagram.py (control-plane, src/),*)
(* the persistent outbox of shared/instagram_outbox.py and the levels and  *)
(* the consent of shared/instagram_vip.py.                                 *)
(*                                                                         *)
(* Instagram keeps the conversation and is external, as is the model that  *)
(* writes the answer.  A request, the poll and the workers are threads: a  *)
(* step ends where another can run, at a lock, a file or a call.           *)
(***************************************************************************)
EXTENDS Integers, Sequences, FiniteSets

CONSTANTS
  MaxMessaggi,  \* bound: messages the contact writes
  Soglia,       \* messages that open the intimate level (LEVELS)
  MaxTentativi, \* generations of an answer
  Webhook,      \* does Instagram call the webhook, or is there only the poll?
  MaxRiavvii    \* bound: restarts of the control plane

VARIABLES
  conv,         \* the conversation: sequence of [chi, m, tipo], "lei" for the contact, "noi"
  visti,        \* _instagram_seen_messages
  posta,        \* what the poll has read and has still to dispatch
  entrata,      \* <<thread, message>>: seen, not yet in the outbox
  persona,      \* [messaggi, consenso]: the row of InstagramVipStore, saved at every change
  coda,         \* the contact's item in the outbox: [m, stato, tentativi, pronta, vecchia]
  disco,        \* ... as the file has it
  operai,       \* [Messaggi -> what its worker is doing]
  chiesto,      \* history: how much of the conversation there was when the question of
                \* consent was delivered; 0 before it is
  contati,      \* history: [Messaggi -> times this process has counted it]
  riavvii

vars == <<conv, visti, posta, entrata, persona, coda, disco, operai, chiesto, contati, riavvii>>

InstagramDmAssumption ==
  /\ {MaxMessaggi, Soglia, MaxRiavvii} \subseteq Nat
  /\ MaxTentativi \in Nat \ {0} /\ Webhook \in BOOLEAN

Messaggi == 1..MaxMessaggi
Nulla == [m |-> 0, stato |-> "nessuno", tentativi |-> 0, pronta |-> FALSE, vecchia |-> FALSE]
Scritti == {conv[i].m : i \in {j \in 1..Len(conv) : conv[j].chi = "lei"}}
Ultimo == Cardinality(Scritti)
Tipo(m) == conv[CHOOSE i \in 1..Len(conv) : conv[i].chi = "lei" /\ conv[i].m = m].tipo
Risposte(m) == Cardinality({i \in 1..Len(conv) : conv[i].chi = "noi" /\ conv[i].m = m})

\* what the poll takes: the messages after our last answer
InArrivo ==
  LET nostre == {i \in 1..Len(conv) : conv[i].chi = "noi"}
      ultima == IF nostre = {} THEN 0 ELSE CHOOSE i \in nostre : \A k \in nostre : k <= i
  IN [i \in 1..(Len(conv) - ultima) |-> conv[ultima + i].m]

Intima == persona.messaggi >= Soglia

Init ==
  /\ conv = <<>> /\ visti = {} /\ posta = <<>> /\ entrata = {}
  /\ persona = [messaggi |-> 0, consenso |-> "mai"]
  /\ coda = Nulla /\ disco = Nulla
  /\ operai = [m \in Messaggi |-> "no"] /\ chiesto = 0
  /\ contati = [m \in Messaggi |-> 0] /\ riavvii = 0

Salva(item) == coda' = item /\ disco' = item

-----------------------------------------------------------------------------
(* _dispatch_instagram_messages. *)

Scrive(t) ==
  /\ Ultimo < MaxMessaggi
  /\ conv' = Append(conv, [chi |-> "lei", m |-> Ultimo + 1, tipo |-> t])
  /\ UNCHANGED <<visti, posta, entrata, persona, coda, disco, operai, chiesto, contati, riavvii>>

\* consent_answer of a message that finds the question open; then the question is
\* opened for who has come close enough
Consenso(tipo, c, messaggi) ==
  LET dopo == IF c = "asked" /\ tipo = "si" THEN "granted" ELSE c
  IN IF messaggi >= Soglia /\ dopo = "mai" THEN "asked" ELSE dopo

Accolto(m) ==
  /\ contati' = [contati EXCEPT ![m] = IF @ < 2 THEN @ + 1 ELSE 2]
  /\ persona' = [messaggi |-> IF Intima THEN Soglia ELSE persona.messaggi + 1,
                 consenso |-> Consenso(Tipo(m), persona.consenso, persona.messaggi + 1)]

\* Mutant of Riceve: a message is remembered when its answer is queued.
RiceveSenzaSegno(filo, m) ==
  /\ m \notin visti /\ Accolto(m)
  /\ visti' = visti /\ entrata' = entrata \union {<<filo, m>>}

\* a message is seen once; levels, consent and memory change before the answer is queued
Riceve(filo, m) ==
  /\ m \notin visti /\ Accolto(m)
  /\ visti' = visti \union {m} /\ entrata' = entrata \union {<<filo, m>>}

\* a call of the webhook, in a thread of its own
Chiamata(m) ==
  /\ Webhook /\ riavvii = 0 /\ m \in Scritti /\ <<"web", m>> \notin entrata /\ Riceve("web", m)
  /\ UNCHANGED <<conv, posta, coda, disco, operai, chiesto, riavvii>>

\* the poll reads the conversation, then goes through it from the oldest
PollLegge ==
  /\ posta = <<>> /\ InArrivo # <<>> /\ posta' = InArrivo
  /\ UNCHANGED <<conv, visti, entrata, persona, coda, disco, operai, chiesto, contati, riavvii>>

PollPrende ==
  /\ posta # <<>> /\ \A e \in entrata : e[1] # "poll"
  /\ posta' = Tail(posta)
  /\ IF Head(posta) \in visti THEN UNCHANGED <<visti, entrata, persona, contati>>
     ELSE Riceve("poll", Head(posta))
  /\ UNCHANGED <<conv, coda, disco, operai, chiesto, riavvii>>

\* enqueue: the answer to a message takes the place of the one before
Accoda(filo, m) ==
  /\ <<filo, m>> \in entrata /\ entrata' = entrata \ {<<filo, m>>} /\ visti' = visti \union {m}
  /\ IF coda.m = m THEN UNCHANGED <<coda, disco>>
     ELSE Salva([m |-> m, stato |-> "queued", tentativi |-> 0, pronta |-> FALSE,
                 vecchia |-> coda.stato \in {"queued", "retry"} /\ coda.vecchia])
  /\ UNCHANGED <<conv, posta, persona, operai, chiesto, contati, riavvii>>

\* the time of an item: debounce or retry, and the longest wait of a contact that
\* goes on writing
Matura ==
  /\ coda.stato \in {"queued", "retry"} /\ ~coda.pronta
  /\ Salva([coda EXCEPT !.pronta = TRUE])
  /\ UNCHANGED <<conv, visti, posta, entrata, persona, operai, chiesto, contati, riavvii>>

Invecchia ==
  /\ coda.stato = "queued" /\ ~coda.vecchia
  /\ Salva([coda EXCEPT !.vecchia = TRUE])
  /\ UNCHANGED <<conv, visti, posta, entrata, persona, operai, chiesto, contati, riavvii>>

-----------------------------------------------------------------------------
(* _instagram_reply_loop and _instagram_auto_reply. *)

\* claim_due, and a worker of its own (bound: one at a time for a message)
Prende ==
  /\ coda.stato \in {"queued", "retry"} /\ (coda.pronta \/ (coda.stato = "queued" /\ coda.vecchia))
  /\ operai[coda.m] = "no"
  /\ Salva([coda EXCEPT !.stato = "generating"])
  /\ operai' = [operai EXCEPT ![coda.m] = "genera"]
  /\ UNCHANGED <<conv, visti, posta, entrata, persona, chiesto, contati, riavvii>>

\* fail(safe_retry): tried again, up to a number of times
GeneraFallisce(m) ==
  /\ operai[m] = "genera" /\ operai' = [operai EXCEPT ![m] = "no"]
  /\ IF coda.m # m THEN UNCHANGED <<coda, disco>>
     ELSE Salva([coda EXCEPT !.tentativi = @ + 1, !.pronta = FALSE,
            !.stato = IF coda.tentativi + 1 < MaxTentativi THEN "retry" ELSE "needs_review"])
  /\ UNCHANGED <<conv, visti, posta, entrata, persona, chiesto, contati, riavvii>>

\* Mutant of Genera: an answer is sent even when another message has come.
GeneraComunque(m) ==
  /\ operai[m] = "genera"
  /\ operai' = [operai EXCEPT ![m] = IF persona.consenso = "asked" THEN "chiede" ELSE "manda"]
  /\ IF coda.m = m THEN Salva([coda EXCEPT !.stato = "sending"]) ELSE UNCHANGED <<coda, disco>>
  /\ UNCHANGED <<conv, visti, posta, entrata, persona, chiesto, contati, riavvii>>

\* the answer is there; sending says whether it is still the one that is wanted.  With
\* consent "asked" it carries the question (cerchia_entry_context)
Genera(m) ==
  /\ operai[m] = "genera"
  /\ IF coda.m # m THEN operai' = [operai EXCEPT ![m] = "no"] /\ UNCHANGED <<coda, disco>>
     ELSE /\ operai' = [operai EXCEPT ![m] = IF persona.consenso = "asked" THEN "chiede" ELSE "manda"]
          /\ Salva([coda EXCEPT !.stato = "sending"])
  /\ UNCHANGED <<conv, visti, posta, entrata, persona, chiesto, contati, riavvii>>

\* the call to Instagram: it may arrive or not, whatever it answers
Manda(m, arriva) ==
  /\ operai[m] \in {"manda", "chiede"}
  /\ conv' = (IF arriva THEN Append(conv, [chi |-> "noi", m |-> m, tipo |-> "testo"]) ELSE conv)
  /\ chiesto' = (IF arriva /\ operai[m] = "chiede" /\ chiesto = 0 THEN Ultimo + 1 ELSE chiesto)
  /\ \E esito \in {"fallita"} \union (IF arriva THEN {"mandata"} ELSE {}) :
       operai' = [operai EXCEPT ![m] = esito]
  /\ UNCHANGED <<visti, posta, entrata, persona, coda, disco, contati, riavvii>>

\* sent, or fail: an answer whose fate is uncertain is never sent again
Conclude(m) ==
  /\ operai[m] \in {"mandata", "fallita"}
  /\ operai' = [operai EXCEPT ![m] = "no"]
  /\ IF coda.m # m THEN UNCHANGED <<coda, disco>>
     ELSE Salva([coda EXCEPT !.stato = IF operai[m] = "mandata" THEN "sent" ELSE "needs_review"])
  /\ UNCHANGED <<conv, visti, posta, entrata, persona, chiesto, contati, riavvii>>

\* Mutant of Ripresa: what was being sent is sent again.
RipresaCieca(item) ==
  IF item.stato \in {"sending", "generating"}
  THEN [item EXCEPT !.stato = "retry", !.pronta = TRUE] ELSE item

\* Mutant of Ripresa: what was being generated is left as it is.
RipresaDimentica(item) ==
  IF item.stato = "sending" THEN [item EXCEPT !.stato = "needs_review"] ELSE item

\* InstagramReplyOutbox.__init__
Ripresa(item) ==
  IF item.stato = "sending" THEN [item EXCEPT !.stato = "needs_review"]
  ELSE IF item.stato = "generating" THEN [item EXCEPT !.stato = "retry", !.pronta = TRUE]
  ELSE item

Riavvia ==
  /\ riavvii < MaxRiavvii /\ riavvii' = riavvii + 1
  /\ Salva(Ripresa(disco))
  /\ visti' = {} /\ posta' = <<>> /\ entrata' = {} /\ contati' = [m \in Messaggi |-> 0]
  /\ operai' = [m \in Messaggi |-> "no"]
  /\ UNCHANGED <<conv, persona, chiesto>>

Operaio(m) == GeneraFallisce(m) \/ Genera(m) \/ Conclude(m) \/ \E b \in BOOLEAN : Manda(m, b)

Next ==
  \/ \E t \in {"testo", "si"} : Scrive(t)
  \/ PollLegge \/ PollPrende \/ Matura \/ Invecchia \/ Prende \/ Riavvia
  \/ \E m \in Messaggi : Chiamata(m) \/ Operaio(m) \/ \E filo \in {"web", "poll"} : Accoda(filo, m)

Spec == Init /\ [][Next]_vars

\* the poll goes round, the loop and its workers run
FairSpec ==
  /\ Spec
  /\ WF_vars(PollLegge) /\ WF_vars(PollPrende) /\ WF_vars(Matura) /\ WF_vars(Prende)
  /\ \A m \in Messaggi : WF_vars(Operaio(m)) /\ \A filo \in {"web", "poll"} : WF_vars(Accoda(filo, m))

-----------------------------------------------------------------------------
(* Properties. *)

Stati == {"nessuno", "queued", "retry", "generating", "sending", "sent", "needs_review"}
TypeOK ==
  /\ visti \subseteq Messaggi /\ entrata \subseteq {"web", "poll"} \X Messaggi
  /\ Len(posta) <= MaxMessaggi /\ \A i \in 1..Len(posta) : posta[i] \in Messaggi
  /\ persona.messaggi \in 0..Soglia /\ persona.consenso \in {"mai", "asked", "granted"}
  /\ \A item \in {coda, disco} :
       /\ item.m \in 0..MaxMessaggi /\ item.stato \in Stati /\ item.tentativi \in 0..MaxTentativi
       /\ (item.m = 0 <=> item.stato = "nessuno")
  /\ operai \in [Messaggi -> {"no", "genera", "manda", "chiede", "mandata", "fallita"}]

\* "An interrupted send may already have reached Meta. Never retry blind." (the
\* outbox): a message gets one answer, through failures of every call and restarts.
UnaRisposta == \A m \in Messaggi : Risposte(m) <= 1

\* The same of a contact who has written one message, or of one process: whatever the
\* calls answer, a message is answered once, by the webhook and the poll together.
UnaRispostaSola == (Ultimo = 1 \/ riavvii = 0) => UnaRisposta

\* The webhook and the poll, which bring the same messages, count each of them once.
ContatoUnaVolta == \A m \in Messaggi : contati[m] <= 1

\* An answer leaves only while no later message waits for its own.
ParteAttuale ==
  \A m \in Messaggi : operai[m] = "genera" /\ operai'[m] \in {"manda", "chiede"} => coda.m = m
RispostaAttuale == [][ParteAttuale]_vars

\* A message that is queued is answered, replaced by a later one or left to the
\* operator, whatever is interrupted.
CodaConclusa == []<>(coda.stato \in {"nessuno", "sent", "needs_review"})

\* "Recover latest inbound DMs when Meta cannot deliver a webhook." (cp/instagram.py):
\* a message is seen in the end, if only by the poll.
MessaggioRecuperato == \A m \in Messaggi : m \in Scritti ~> m \in visti

\* The consent is asked for, then given ("Non andare oltre finche' non risponde di si'",
\* shared/instagram_intimacy.py): it is granted only by a message written after the
\* question was delivered.
ConsensoDopoDomanda ==
  persona.consenso = "granted" =>
    chiesto # 0 /\ \E m \in visti : m >= chiesto /\ Tipo(m) = "si"
=============================================================================
