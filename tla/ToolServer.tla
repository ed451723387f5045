----------------------------- MODULE ToolServer -----------------------------
(***************************************************************************)
(* The tools the control plane runs for others (src/control-plane/cp/      *)
(* tool.py): who may call which of them over /mcp (src/shared/             *)
(* mcp_auth.py), /tools/execute or the tool loop of the chat, and the      *)
(* three tools that reach outside: a note in the memory with the legacy    *)
(* backend (src/control-plane/cp/memoria.py), a command on the host        *)
(* (src/shared/shell_policy.py decides), a search on the web               *)
(* (src/shared/web_search.py keeps what is about the query).               *)
(*                                                                         *)
(* Calls are numbered as they arrive and overlap.  An allowlist "*" is the *)
(* set Nomi of every name, published or not.                               *)
(***************************************************************************)
EXTENDS Naturals, FiniteSets, Sequences

CONSTANTS
  Configurazione,  \* environments explored: [voci, elenco, singolo, acceso, locale, soglie, ospite]
  MaxVoci,         \* MEMORY_MAX_ENTRIES
  MaxChiamate,     \* bound: calls
  MaxCadute        \* bound: restarts

VARIABLES
  conf,       \* the environment, read at boot
  chiamate,   \* the calls: [via, spetta, tool, ..., pc, letto, host, riga, esito]
  memoria,    \* the file of the memory: [note, file]
  sovrapposte,\* history: two writes of the memory overlapped, or one was cut
  cadute

vars == <<conf, chiamate, memoria, sovrapposte, cadute>>

Pubblicati == {"nota", "comando", "cerca"}
Nomi == Pubblicati \union {"connettore spento", "omega_call"}
Token == {"a", "b", "corto", "altro"}
Corto(token) == token = "corto"

\* "-" is a token that is not set, or a name that is not there
Voci == [nome : {"h", "o", "mcp"}, token : Token]
ToolServerAssumption ==
  /\ MaxVoci \in Nat
  /\ \A c \in Configurazione : c.voci \in Seq(Voci) /\ c.singolo \in Token \union {"-"}

-----------------------------------------------------------------------------
(* Who calls: parse_clients, McpAuthPolicy. *)

\* Mutant of Accettate: the last of two voices of one name stays.
AccettateUltime(c) ==
  {i \in DOMAIN c.voci : ~Corto(c.voci[i].token)
     /\ ~\E j \in DOMAIN c.voci : j > i /\ c.voci[j].nome = c.voci[i].nome}

\* the voices of MCP_CLIENTS that make a client
Accettate(c) ==
  {i \in DOMAIN c.voci : ~Corto(c.voci[i].token)
     /\ ~\E j \in 1..(i - 1) : c.voci[j].nome = c.voci[i].nome /\ ~Corto(c.voci[j].token)}

\* parse_tool_allowlist: what is written of a name, or else
Concessi(c, nome, altrimenti) == IF nome \in DOMAIN c.elenco THEN c.elenco[nome] ELSE altrimenti

\* the single token of MCP_TOKEN is a client of its own, unless its name is taken
Singolo(c) ==
  c.singolo # "-" /\ ~Corto(c.singolo) /\ ~\E i \in Accettate(c) : c.voci[i].nome = "mcp"

Cliente(nome, token, tool) == [nome |-> nome, token |-> token, tool |-> tool]

\* the clients by their place: that of their voice, the single one last
Clienti(c) ==
  [i \in Accettate(c) \union (IF Singolo(c) THEN {Len(c.voci) + 1} ELSE {}) |->
     IF i \in Accettate(c)
     THEN Cliente(c.voci[i].nome, c.voci[i].token, Concessi(c, c.voci[i].nome, {}))
     ELSE Cliente("mcp", c.singolo, Concessi(c, "mcp", Nomi))]

\* what describe() says is wrong with a voice of MCP_CLIENTS
Segnalata(c, i) ==
  \/ i \notin Accettate(c)
  \/ Concessi(c, c.voci[i].nome, {}) = {}

Nessuno == Cliente("-", "-", {})
Loopback == Cliente("loopback", "-", Nomi)

\* authenticate: every client is compared, the last that matches is the caller
Riconosce(c, token) ==
  LET i == {k \in DOMAIN Clienti(c) : Clienti(c)[k].token = token} IN
  IF i = {} THEN Nessuno ELSE Clienti(c)[CHOOSE k \in i : \A h \in i : h <= k]

\* the gate of omega_mcp: the caller, or the status it is answered with
Ingresso(c, token, vicino) ==
  IF ~c.acceso THEN [stato |-> "503", chi |-> Nessuno]
  ELSE IF DOMAIN Clienti(c) = {}
  THEN IF c.locale /\ vicino THEN [stato |-> "entra", chi |-> Loopback]
       ELSE [stato |-> "503", chi |-> Nessuno]
  ELSE IF Riconosce(c, token) = Nessuno THEN [stato |-> "401", chi |-> Nessuno]
  ELSE [stato |-> "entra", chi |-> Riconosce(c, token)]

\* tools/list
Elencati(chi) == chi.tool \intersect Pubblicati

\* Mutant of Giudizio: what is unknown is said before what is not allowed.
GiudizioEsiste(chi, esterno, interno) ==
  LET nome == IF esterno = "omega_call" THEN interno ELSE esterno IN
  IF nome \notin Pubblicati THEN "ignoto" ELSE IF nome \notin chi.tool THEN "vietato"
  ELSE "esegue"

\* Mutant of Giudizio: the wrapper is allowed, what it wraps is not looked at.
GiudizioEsterno(chi, esterno, interno) ==
  IF esterno = "omega_call" /\ chi.tool # {} THEN "esegue"
  ELSE IF esterno \notin chi.tool THEN "vietato"
  ELSE IF esterno \notin Pubblicati THEN "ignoto" ELSE "esegue"

\* tools/call: the permission first, then whether the tool exists
Giudizio(chi, esterno, interno) ==
  LET nome == IF esterno = "omega_call" THEN interno ELSE esterno IN
  IF nome \notin chi.tool THEN "vietato" ELSE IF nome \notin Pubblicati THEN "ignoto"
  ELSE "esegue"

\* Whether the environment gives a tool to a token, read off MCP_CLIENTS, MCP_CLIENT_TOOLS and
\* MCP_TOKEN.
Spetta(c, token, nome, tool) ==
  \/ nome = "mcp" /\ c.singolo = token /\ tool \in Concessi(c, "mcp", Nomi)
  \/ \E i \in DOMAIN c.voci :
       /\ c.voci[i].nome = nome /\ c.voci[i].token = token /\ ~Corto(token)
       /\ tool \in Concessi(c, nome, {})
  \/ nome = "loopback" /\ c.locale /\ c.singolo \in {"-", "corto"}

\* The tools that it gives: none while the server is off.
Spettanti(c, token, nome) == {tool \in Nomi : c.acceso /\ Spetta(c, token, nome, tool)}

-----------------------------------------------------------------------------
(* A command: ShellPolicy.  Thresholds are ranks, 4 is "none". *)

Rango == [lettura |-> 1, scrittura |-> 2, distruttivo |-> 3]

\* classify: the version of a program is read, a rule that matches wins over the rest
Rischio(comando) ==
  CASE comando = "versione" -> "lettura"
    [] comando = "rimuove" -> "distruttivo"
    [] comando = "legge" -> "lettura"
    [] OTHER -> "scrittura"

\* check
Verdetto(soglie, comando, conferma) ==
  LET rango == Rango[Rischio(comando)] IN
  IF rango >= soglie.blocco THEN "bloccato"
  ELSE IF rango >= soglie.conferma /\ conferma = "no" THEN "chiede"
  ELSE "passa"

-----------------------------------------------------------------------------
(* A search: the engine, then the fallback, keeping what is about the query. *)

Parole == {"funzione", "corta", "cifra", "numero", "parola"}
\* termini_significativi
Termini(query) == query \intersect {"numero", "parola"}

\* a result is about the query in its title, in its text, or not at all
Risultato == {"titolo", "testo", "altro"}

\* Mutant of Filtra: what is about the query in its text stays with the titles' ones only.
FiltraTitolo(voci, query, conTitolo) == voci \intersect {"titolo"}

Filtra(voci, query, conTitolo) ==
  IF Termini(query) = {} THEN voci
  ELSE IF conTitolo /\ "titolo" \in voci THEN {"titolo"}
  ELSE voci \ {"altro"}

\* _tool_web_search: what is delivered, empty when there is nothing useful
Trovati(searx, ddg, query) ==
  LET primi == Filtra(searx, query, TRUE) IN
  IF primi # {} THEN primi ELSE Filtra(ddg, query, FALSE)

-----------------------------------------------------------------------------
(* The calls. *)

Comandi == {"rimuove", "altro"}
Bene == [note |-> {}, file |-> "intero"]

Init ==
  /\ conf \in Configurazione /\ chiamate = <<>> /\ memoria = Bene
  /\ sovrapposte = {} /\ cadute = 0

\* "spetta" is history: the tools that the environment gives to the caller
Entra(via, spetta, tool, comando, conferma) ==
  /\ chiamate' = Append(chiamate,
       [via |-> via, spetta |-> spetta, tool |-> tool, comando |-> comando,
        conferma |-> conferma, pc |-> "esegue", letto |-> {}, host |-> "no", riga |-> "no",
        esito |-> "-"])
  /\ UNCHANGED <<conf, memoria, sovrapposte, cadute>>

\* the arguments of a tool
Comando(tool) == IF tool = "comando" THEN Comandi ELSE {"-"}
Conferma(tool) == IF tool = "comando" THEN {"si", "no"} ELSE {"no"}

\* omega_mcp, tools/call; the answers that run nothing are those of Giudizio
ChiamaMcp ==
  /\ Len(chiamate) < MaxChiamate
  /\ \E token \in Token, vicino \in BOOLEAN :
    LET passo == Ingresso(conf, token, vicino) IN
    /\ passo.stato = "entra"
    /\ \E esterno, interno \in Nomi :
         LET nome == IF esterno = "omega_call" THEN interno ELSE esterno IN
         /\ esterno # "omega_call" => interno = esterno
         /\ Giudizio(passo.chi, esterno, interno) = "esegue"
         /\ \E comando \in Comando(nome), conferma \in Conferma(nome) :
              Entra("mcp", Spettanti(conf, token, passo.chi.nome), nome, comando, conferma)

\* tools_execute, once the administration token is accepted; a name that is not published
\* reaches the connectors, which answer for it
ChiamaDiretta ==
  /\ Len(chiamate) < MaxChiamate
  /\ \E nome \in Nomi \ {"omega_call"} :
       \E comando \in Comando(nome), conferma \in Conferma(nome) :
         Entra("diretta", Nomi, nome, comando, conferma)

Passa(k, pc) == chiamate' = [chiamate EXCEPT ![k].pc = pc]
Chiude(k, esito, riga) ==
  chiamate' = [chiamate EXCEPT ![k] =
    [chiamate[k] EXCEPT !.pc = "fine", !.esito = esito, !.riga = riga]]

\* a name without a handler: the connectors answer, and nothing is done
Ignota(k) ==
  /\ chiamate[k].pc = "esegue" /\ chiamate[k].tool \notin Pubblicati
  /\ Chiude(k, "ignoto", "no") /\ UNCHANGED <<conf, memoria, sovrapposte, cadute>>

\* _tool_web_search
Cerca(k) ==
  /\ chiamate[k].pc = "esegue" /\ chiamate[k].tool = "cerca"
  /\ \E searx, ddg \in {{}, {"altro"}, {"testo", "altro"}} :
       Chiude(k, IF Trovati(searx, ddg, {"parola"}) = {} THEN "niente" ELSE "trovato", "no")
  /\ UNCHANGED <<conf, memoria, sovrapposte, cadute>>

\* _load_memory: a file that cannot be read is an empty memory
Lette == IF memoria.file = "intero" THEN memoria.note ELSE {}

\* Mutant of Potate: the oldest notes stay.
PotateAlContrario(note) ==
  {n \in note : Cardinality({m \in note : m < n}) < MaxVoci}

\* _prune_memory, within the TTL: the newest stay
Potate(note) == {n \in note : Cardinality({m \in note : m > n}) < MaxVoci}

\* _omega_store, _memory_append: the memory is read ...
LeggeMemoria(k) ==
  /\ chiamate[k].pc = "esegue" /\ chiamate[k].tool = "nota"
  /\ chiamate' = [chiamate EXCEPT ![k] = [chiamate[k] EXCEPT !.pc = "letta", !.letto = Lette]]
  /\ UNCHANGED <<conf, memoria, sovrapposte, cadute>>

\* the calls between the reading and the end of the writing
InScrittura == {k \in DOMAIN chiamate : chiamate[k].pc \in {"letta", "aperta"}}

\* ... _save_memory opens the file, which empties it ...
ApreMemoria(k) ==
  /\ chiamate[k].pc = "letta" /\ Passa(k, "aperta")
  /\ memoria' = [note |-> {}, file |-> "rotto"]
  /\ sovrapposte' = sovrapposte \union (IF Cardinality(InScrittura) > 1 THEN 1..Len(chiamate)
                                        ELSE {})
  /\ UNCHANGED <<conf, cadute>>

\* ... and writes it: over another writer's, the longer of the two leaves its tail
ScriveMemoria(k) ==
  LET nuove == Potate(chiamate[k].letto \union {k}) IN
  /\ chiamate[k].pc = "aperta"
  /\ memoria' = [note |-> nuove,
                 file |-> IF memoria.file = "intero" /\ Cardinality(memoria.note) > Cardinality(nuove)
                          THEN "rotto" ELSE "intero"]
  /\ Chiude(k, "Stored", "si")
  /\ sovrapposte' = sovrapposte \union (IF Cardinality(InScrittura) > 1 THEN 1..Len(chiamate)
                                        ELSE {})
  /\ UNCHANGED <<conf, cadute>>

\* _tool_shell_run, _shell_gate: refused here, or asked to the host
Chiede(k) ==
  LET v == Verdetto(conf.soglie, chiamate[k].comando, chiamate[k].conferma) IN
  /\ chiamate[k].pc = "esegue" /\ chiamate[k].tool = "comando"
  /\ IF v = "passa" THEN chiamate' = [chiamate EXCEPT ![k] = [chiamate[k] EXCEPT !.pc = "host", !.host = "chiesto"]]
     ELSE Chiude(k, v, "si")
  /\ UNCHANGED <<conf, memoria, sovrapposte, cadute>>

\* the host decides again, on its own environment, and runs
Esegue(k) ==
  /\ chiamate[k].host = "chiesto"
  /\ chiamate' = [chiamate EXCEPT ![k].host =
       IF Verdetto(conf.ospite, chiamate[k].comando, chiamate[k].conferma) = "passa"
       THEN "fatto" ELSE "rifiutato"]
  /\ UNCHANGED <<conf, memoria, sovrapposte, cadute>>

\* Mutant of Risponde: a command that went well is not written down.
RispondeTace(k) ==
  /\ chiamate[k].pc = "host" /\ chiamate[k].host \in {"fatto", "rifiutato"}
  /\ Chiude(k, chiamate[k].host, IF chiamate[k].host = "fatto" THEN "no" ELSE "si")
  /\ UNCHANGED <<conf, memoria, sovrapposte, cadute>>

\* _host_action: the answer of the host, and its row
Risponde(k) ==
  /\ chiamate[k].pc = "host" /\ chiamate[k].host \in {"fatto", "rifiutato"}
  /\ Chiude(k, chiamate[k].host, "si")
  /\ UNCHANGED <<conf, memoria, sovrapposte, cadute>>

\* or none within 90 s: the host goes on with the command
NonRisponde(k) ==
  /\ chiamate[k].pc = "host"
  /\ Chiude(k, "non raggiungibile", "no")
  /\ UNCHANGED <<conf, memoria, sovrapposte, cadute>>

\* a restart of the control plane; what the host was asked stays with the host
Cade ==
  /\ cadute < MaxCadute /\ cadute' = cadute + 1
  /\ sovrapposte' = sovrapposte
       \union (IF \E k \in DOMAIN chiamate : chiamate[k].pc = "aperta"
               THEN 1..Len(chiamate) ELSE {})
  /\ chiamate' = [k \in DOMAIN chiamate |->
       IF chiamate[k].pc = "fine" THEN chiamate[k] ELSE [chiamate[k] EXCEPT !.pc = "persa"]]
  /\ UNCHANGED <<conf, memoria>>

Next ==
  \/ ChiamaMcp \/ ChiamaDiretta \/ Cade
  \/ \E k \in DOMAIN chiamate :
       \/ Ignota(k) \/ Cerca(k) \/ LeggeMemoria(k) \/ ApreMemoria(k) \/ ScriveMemoria(k)
       \/ Chiede(k) \/ Esegue(k) \/ Risponde(k) \/ NonRisponde(k)

Spec == Init /\ [][Next]_vars

-----------------------------------------------------------------------------
TypeOK ==
  /\ conf \in Configurazione /\ Len(chiamate) <= MaxChiamate
  /\ memoria.note \subseteq 1..MaxChiamate /\ Cardinality(memoria.note) <= MaxVoci
  /\ \A k \in DOMAIN chiamate :
       /\ chiamate[k].pc \in {"esegue", "letta", "aperta", "host", "fine", "persa"}
       /\ chiamate[k].host \in {"no", "chiesto", "fatto", "rifiutato"}

(* What no call changes is looked at before the first one. *)

\* Every tool run over /mcp was called by a client known by name, with its token and a list
\* that holds that tool, however it was wrapped (omega_mcp, authenticate).
EffettoDovuto == \A k \in DOMAIN chiamate : chiamate[k].tool \in chiamate[k].spetta

\* A client is listed the tools that it can call, those and no other (tools/list, tools/call).
ListaEsatta ==
  chiamate = <<>> => \A token \in Token, vicino \in BOOLEAN :
    LET chi == Ingresso(conf, token, vicino).chi IN
    Elencati(chi) = {t \in Nomi : \E e, i \in Nomi : Giudizio(chi, e, i) = "esegue"
                                     /\ t = IF e = "omega_call" THEN i ELSE e}

\* To a client with a list of its own, a tool that it may not call and one that does not
\* exist answer alike (tools/call).
StessaRisposta ==
  chiamate = <<>> => \A token \in Token :
    LET chi == Ingresso(conf, token, FALSE).chi IN
    chi.tool # Nomi =>
      \A s, t \in Nomi \ (chi.tool \union {"omega_call"}) :
        Giudizio(chi, s, s) = Giudizio(chi, t, t)

\* A voice of MCP_CLIENTS is a client that can call something, or is reported
\* (parse_clients, describe).
VoceSpiegata ==
  chiamate = <<>> => \A i \in DOMAIN conf.voci :
    Segnalata(conf, i) \/ \E k \in DOMAIN Clienti(conf) :
      Clienti(conf)[k].nome = conf.voci[i].nome /\ Clienti(conf)[k].tool # {}

\* A command that the host ran is one its own thresholds let pass, and is written in the
\* log, unless its answer was not waited for or the control plane fell (_host_action).
ComandoTracciato ==
  \A k \in DOMAIN chiamate :
    chiamate[k].host = "fatto" =>
      /\ Verdetto(conf.ospite, chiamate[k].comando, chiamate[k].conferma) = "passa"
      /\ chiamate[k].pc = "fine" => chiamate[k].riga = "si" \/ chiamate[k].esito = "non raggiungibile"

\* A note answered "Stored" is in the memory, unless newer ones fill it or two writes
\* overlapped, or one was cut by a restart (_memory_append, _save_memory).
NotaTenuta ==
  \A k \in DOMAIN chiamate :
    chiamate[k].esito = "Stored" /\ InScrittura = {} =>
      \/ k \in Lette \/ k \in sovrapposte
      \/ Cardinality({n \in DOMAIN chiamate : n > k /\ chiamate[n].tool = "nota"}) >= MaxVoci

\* Nothing that is not about the query is delivered when the query says what it is about, and
\* nothing is delivered only if neither engine had it (_tool_web_search, filtra).
SoloPertinenti ==
  chiamate = <<>> => \A searx, ddg \in SUBSET Risultato, query \in SUBSET Parole :
    Termini(query) # {} =>
      /\ "altro" \notin Trovati(searx, ddg, query)
      /\ Trovati(searx, ddg, query) = {} => searx \union ddg \subseteq {"altro"}

\* shared/mcp_auth.py:15 "un token valido identifica un CLIENT con un nome": two names with one
\* token are the last of the two, and nothing reports it.
TokenDiUno ==
  \A i, j \in Accettate(conf) : conf.voci[i].token = conf.voci[j].token => i = j

\* control-plane/cp/tool.py:733 "Il tool e' fallito: per MCP [...] un risultato con isError": every
\* handler turns its failures into text, so that a call that failed answers isError false.
FallitoSegnalato ==
  \A k \in DOMAIN chiamate :
    chiamate[k].via = "mcp" => chiamate[k].esito # "non raggiungibile"
=============================================================================
