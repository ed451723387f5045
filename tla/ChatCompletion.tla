--------------------------- MODULE ChatCompletion ---------------------------
(***************************************************************************)
(* One chat request through the control plane: /v1/chat/completions of     *)
(* cp/chat.py with its tool loop, its streaming generator and the chain of *)
(* fallbacks (the mesh's nodes, the direct backend, the federation, the    *)
(* external provider).                                                     *)
(*                                                                         *)
(* What a backend answers is external.  The budget of the request is a     *)
(* choice at each of its checks.  Requests share nothing but the table of  *)
(* tasks, where each has its own row, so one of them at a time is enough.  *)
(***************************************************************************)
EXTENDS Naturals, Sequences, FiniteSets, SequencesExt

CONSTANTS
  Nodo,     \* nodes that may be candidates
  MaxGiri   \* max_iterations of the tool loop

VARIABLES
  modo,     \* what the request asks: see Modi
  fase,     \* the stage it is at
  scelti,   \* the ranked candidates
  resto,    \* ... those still to try in this stage
  giro,     \* the tool loop: [dove, n |-> iteration, senza |-> retrying without tools]
  task,     \* [ram, db |-> status, memoria |-> entries appended]
  risposta, \* what the client has received: see Risposta
  fonti,    \* history: backends whose bytes a stream has forwarded
  proposti, \* history: backends that were offered the control plane's tools
  via       \* the client of the stream has gone

vars == <<modo, fase, scelti, resto, giro, task, risposta, fonti, proposti, via>>

ChatCompletionAssumption ==
  /\ IsFiniteSet(Nodo) /\ MaxGiri \in Nat \ {0}
  /\ Nodo \intersect {"diretto", "omniroute"} = {}

Luogo == Nodo \union {"diretto", "omniroute"}
Modi == [flusso : BOOLEAN, \* stream
         capace : BOOLEAN, \* _model_supports_tools(model)
         spenti : BOOLEAN, \* X-Hyperspace-Tools: off
         omni   : BOOLEAN, \* the external provider was chosen explicitly
         client : BOOLEAN] \* the client offers tools of its own
Risposta == {"niente", "testo", "errore", "504", "client", "nostri"}

Init ==
  /\ modo \in Modi
  /\ scelti \in {s \in UNION {[1..k -> Nodo] : k \in 0..Cardinality(Nodo)} : IsInjective(s)}
  /\ fase = "arrivo" /\ resto = <<>> /\ giro = [dove |-> "diretto", n |-> 0, senza |-> FALSE]
  /\ task = [ram |-> "niente", db |-> "niente", memoria |-> 0]
  /\ risposta = "niente" /\ fonti = {} /\ proposti = {} /\ via = FALSE

Loop(dove) == [dove |-> dove, n |-> 0, senza |-> FALSE]
ConTool == modo.capace /\ ~modo.spenti /\ ~giro.senza

\* The row says which backend is being tried; the object in memory keeps its status.
Assegnato == [task EXCEPT !.db = "assigned"]
\* A status set on the object and written in the row.
Con(stato) == [ram |-> stato, db |-> stato, memoria |-> task.memoria]

(* The route up to the task: an explicit choice of the provider skips the mesh. *)
Arriva ==
  /\ fase = "arrivo"
  /\ task' = Con("created")
  /\ resto' = IF modo.omni THEN <<>> ELSE scelti
  /\ IF ~modo.omni THEN fase' = "nodi" /\ giro' = giro
     ELSE IF modo.flusso THEN fase' = "corrente" /\ giro' = Loop("omniroute")
     ELSE fase' = "provider" /\ giro' = giro
  /\ proposti' = IF modo.omni /\ modo.flusso /\ modo.capace THEN {"omniroute"} ELSE {}
  /\ UNCHANGED <<modo, scelti, risposta, fonti, via>>

-----------------------------------------------------------------------------
(* The end of a request. *)

\* Mutant of Finale: an error is closed as a completion.
FinaleSempre(r) ==
  [Con("done") EXCEPT !.memoria = 2]

\* _finalize_task: an error is not a completion and leaves no memory.
Finale(r) ==
  IF r = "errore" THEN Con("failed")
  ELSE [Con("done") EXCEPT !.memoria = 2]

Chiude(r) ==
  /\ fase' = "chiusa" /\ risposta' = r /\ task' = Finale(r)
  /\ UNCHANGED <<resto, giro>>

\* _deadline_exceeded.
FuoriTempo ==
  /\ fase' = "chiusa" /\ risposta' = "504"
  /\ task' = Con("failed")
  /\ UNCHANGED <<resto, giro>>

\* The stage after the local ones, if the budget allows another attempt.
Oltre(stadio) ==
  \/ fase' = stadio /\ UNCHANGED <<resto, giro, task, risposta>>
  \/ FuoriTempo

Diretto ==
  /\ fase' = "loop" /\ giro' = Loop("diretto") /\ task' = Assegnato /\ UNCHANGED <<resto, risposta>>

-----------------------------------------------------------------------------
(* Where the tool loop's result leads, by the stage that ran it. *)

\* Without streaming a busy or failing node yields to the next one, and only an
\* exception of the loop leaves the mesh at once.
EsceNodo(r) ==
  CASE r \in {"occupato", "errore"} -> fase' = "nodi" /\ UNCHANGED <<resto, giro, task, risposta>>
    [] r = "eccezione" -> (Diretto \/ FuoriTempo)
    [] OTHER -> Chiude(r)

\* With streaming the answer is repackaged as the last chunk.
EsceFlusso(r) ==
  IF r \in {"occupato", "errore", "eccezione"}
  THEN fase' = "nodi" /\ UNCHANGED <<resto, giro, task, risposta>>
  ELSE fase' = "chunk" /\ task' = Assegnato /\ risposta' = r /\ UNCHANGED <<resto, giro>>

EsceDiretto(r) ==
  IF modo.flusso
  THEN IF r = "eccezione"
       THEN /\ fase' = "chiusa" /\ risposta' = "errore"
            /\ task' = Con("failed") /\ UNCHANGED <<resto, giro>>
       ELSE fase' = "chunk" /\ risposta' = r /\ UNCHANGED <<resto, giro, task>>
  ELSE IF r \in {"errore", "eccezione"} THEN Oltre("federazione") ELSE Chiude(r)

Esce(r) ==
  IF giro.dove = "diretto" THEN EsceDiretto(r)
  ELSE IF modo.flusso THEN EsceFlusso(r) ELSE EsceNodo(r)

(* One call of the loop and what it answers. *)
Offre == proposti' = IF ConTool THEN proposti \union {giro.dove} ELSE proposti

Occupato == giro.dove \in Nodo /\ Esce("occupato")
\* A network error, or a body that is an error, empty or no JSON: the first call
\* is tried again without tools, a later one gives back what the loop had.
Rete == Esce("errore")
Fallita ==
  IF ~ConTool THEN Esce("errore")
  ELSE IF giro.n = 0
       THEN giro' = [giro EXCEPT !.senza = TRUE] /\ UNCHANGED <<fase, resto, task, risposta>>
       ELSE Esce("nostri")
Testo == Esce("testo")
Malformata == ConTool /\ Esce("eccezione")
\* The model asks for tools of the control plane: they run and the loop goes on.
Nostri ==
  /\ ConTool
  /\ IF giro.n + 1 < MaxGiri
     THEN giro' = [giro EXCEPT !.n = @ + 1] /\ UNCHANGED <<fase, resto, task, risposta>>
     ELSE Esce("nostri")
\* Tools of the client, alone or among ours, go back to it.
DelClient == ConTool /\ modo.client /\ Esce("client")

ChiamaModello ==
  /\ fase = "loop" /\ Offre
  /\ (Occupato \/ Rete \/ Fallita \/ Testo \/ Malformata \/ Nostri \/ DelClient)
  /\ UNCHANGED <<modo, scelti, fonti, via>>

-----------------------------------------------------------------------------
(* The candidates, in the order of their score. *)

\* Mutant of ProvaNodo: a node that was busy is asked again.
ProvaNodoInsiste ==
  /\ fase = "nodi" /\ resto # <<>> /\ (modo.flusso => modo.capace)
  /\ fase' = "loop" /\ giro' = Loop(Head(resto)) /\ resto' = resto
  /\ task' = IF modo.flusso THEN task ELSE Assegnato
  /\ UNCHANGED <<modo, scelti, risposta, fonti, proposti, via>>

ProvaNodo ==
  /\ fase = "nodi" /\ resto # <<>> /\ (modo.flusso => modo.capace)
  /\ fase' = "loop" /\ giro' = Loop(Head(resto)) /\ resto' = Tail(resto)
  /\ task' = IF modo.flusso THEN task ELSE Assegnato
  /\ UNCHANGED <<modo, scelti, risposta, fonti, proposti, via>>

\* Nobody left: a stream tries the same candidates again, now forwarding their bytes.
NodiFiniti ==
  /\ fase = "nodi" /\ IF modo.flusso /\ ~modo.capace THEN TRUE ELSE resto = <<>>
  /\ IF modo.flusso
     THEN fase' = "flusso" /\ resto' = scelti /\ UNCHANGED <<giro, task, risposta>>
     ELSE Diretto \/ FuoriTempo
  /\ UNCHANGED <<modo, scelti, fonti, proposti, via>>

(* _stream_gen, candidate by candidate: unreachable or busy, or committed to it. *)
ProvaFlusso ==
  /\ fase = "flusso" /\ resto # <<>>
  /\ resto' = Tail(resto)
  /\ \/ UNCHANGED <<fase, giro, task, proposti>>
     \/ /\ fase' = "corrente" /\ giro' = Loop(Head(resto)) /\ task' = Assegnato
        /\ proposti' = IF modo.capace THEN proposti \union {Head(resto)} ELSE proposti
  /\ UNCHANGED <<modo, scelti, risposta, fonti, via>>

\* No node: the direct backend, natively (through the loop if the model asks for
\* a tool) or as a stream.
FlussoDiretto ==
  /\ fase = "flusso" /\ resto = <<>>
  /\ task' = Assegnato /\ giro' = Loop("diretto")
  /\ proposti' = IF modo.capace THEN proposti \union {"diretto"} ELSE proposti
  /\ \/ fase' = "corrente" /\ risposta' = risposta
     \/ fase' = "chunk" /\ risposta' = "testo"
     \/ modo.capace /\ fase' = "loop" /\ risposta' = risposta
  /\ UNCHANGED <<modo, scelti, resto, fonti, via>>

Inoltra ==
  /\ fase = "corrente"
  /\ fonti' = fonti \union {giro.dove}
  /\ UNCHANGED <<modo, fase, scelti, resto, giro, task, risposta, proposti, via>>

\* The bytes of an HTTP error of a node or of the provider are forwarded as an answer.
FineFlusso ==
  /\ fase = "corrente"
  /\ \/ risposta' = "testo"
     \/ giro.dove # "diretto" /\ risposta' = "errore"
  /\ task' = Con("done") /\ fase' = "chiusa"
  /\ UNCHANGED <<modo, scelti, resto, giro, fonti, proposti, via>>

\* Mutant of SpezzaFlusso: a broken stream goes on with the next candidate.
SpezzaFlussoRiprova ==
  /\ fase = "corrente"
  /\ fase' = IF giro.dove \in Nodo THEN "flusso" ELSE "chiusa"
  /\ task' = Con("failed") /\ risposta' = "errore"
  /\ UNCHANGED <<modo, scelti, resto, giro, fonti, proposti, via>>

SpezzaFlusso ==
  /\ fase = "corrente"
  /\ fase' = "chiusa" /\ risposta' = "errore"
  /\ task' = Con("failed")
  /\ UNCHANGED <<modo, scelti, resto, giro, fonti, proposti, via>>

\* The last chunk of a repackaged answer.
Chunk ==
  /\ fase = "chunk"
  /\ fase' = "chiusa" /\ task' = Con("done")
  /\ UNCHANGED <<modo, scelti, resto, giro, risposta, fonti, proposti, via>>

\* The client closes a stream: the generator is closed at its yield, which is no
\* Exception, and the task keeps the status it had.
Abbandona ==
  /\ fase \in {"corrente", "chunk"}
  /\ fase' = "chiusa" /\ via' = TRUE
  /\ UNCHANGED <<modo, scelti, resto, giro, task, risposta, fonti, proposti>>

-----------------------------------------------------------------------------
(* After the local stages: a sister control plane, then the external provider. *)

Federazione ==
  /\ fase = "federazione"
  /\ Chiude("testo") \/ Chiude("errore") \/ Oltre("provider")
  /\ UNCHANGED <<modo, scelti, fonti, proposti, via>>

Provider ==
  /\ fase = "provider"
  /\ \/ Chiude("testo")
     \/ Chiude("errore")
  /\ UNCHANGED <<modo, scelti, fonti, proposti, via>>

Finita == fase = "chiusa" /\ UNCHANGED vars

Next ==
  \/ Arriva \/ ProvaNodo \/ ChiamaModello \/ NodiFiniti \/ ProvaFlusso \/ FlussoDiretto
  \/ Inoltra \/ FineFlusso \/ SpezzaFlusso \/ Chunk \/ Abbandona
  \/ Federazione \/ Provider \/ Finita

Spec == Init /\ [][Next]_vars

\* Every call has a timeout, and a stream that stays open sends its last byte.
FairSpec ==
  /\ Spec
  /\ WF_vars(Arriva \/ ProvaNodo \/ ChiamaModello \/ NodiFiniti \/ ProvaFlusso
             \/ FlussoDiretto \/ Federazione \/ Provider)
  /\ WF_vars(FineFlusso \/ SpezzaFlusso \/ Chunk)

-----------------------------------------------------------------------------
(* TYPE INVARIANT. *)
TypeOK ==
  /\ modo \in Modi
  /\ fase \in {"arrivo", "nodi", "loop", "flusso", "corrente", "chunk", "federazione", "provider", "chiusa"}
  /\ {ToSet(scelti), ToSet(resto)} \subseteq SUBSET Nodo
  /\ giro \in [dove : Luogo, n : 0..(MaxGiri - 1), senza : BOOLEAN]
  /\ task \in [ram : {"niente", "created", "done", "failed"},
               db : {"niente", "created", "assigned", "done", "failed"}, memoria : {0, 2}]
  /\ risposta \in Risposta /\ fonti \subseteq Luogo /\ proposti \subseteq Luogo /\ via \in BOOLEAN

(* SAFETY.  Without streaming the outcome is one: the client has an answer *)
(* exactly when the task is done in memory and in the table, and only then *)
(* the conversation is remembered; a fallback that fails late, or a budget *)
(* that ends between two stages, never closes an error as a completion.    *)
EsitoVero ==
  (fase = "chiusa" /\ ~modo.flusso) =>
    /\ task.ram = task.db
    /\ task.db = "done" <=> risposta \notin {"errore", "504"}
    /\ task.memoria = 2 <=> task.db = "done"

(* SAFETY.  A stream carries the bytes of one backend: once the first one  *)
(* has been forwarded no other candidate is tried, however it breaks.      *)
UnaSolaFonte == \A a, b \in fonti : a = b

(* LIVENESS.  Every request ends, and its task with it, unless its client  *)
(* has closed the stream.                                                  *)
RispostaData == <>(fase = "chiusa" /\ (via \/ task.db \in {"done", "failed"}))

(* SAFETY.  A request with the tools switched off never offers the control *)
(* plane's own tools to a backend.                                         *)
StrumentiSpenti == modo.spenti => proposti = {}

(* SAFETY.  An answer that asks for tools asks only for tools of the       *)
(* client: it cannot run the control plane's.                              *)
SoloStrumentiDelClient == risposta # "nostri"

(* SAFETY.  An error is not a completion, in a stream either.              *)
ErroreNonCompletato == (fase = "chiusa" /\ risposta = "errore") => task.db # "done"
=============================================================================
