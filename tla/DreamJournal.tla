---------------------------- MODULE DreamJournal ----------------------------
(***************************************************************************)
(* The review of a node's dreams: the two files of node/dreaming.py        *)
(* (dreams.jsonl and dream_insights.jsonl), the route that reviews and     *)
(* then pushes the note to memory, and the Hermes bridge that keeps every  *)
(* revision of a note and shows the last one                               *)
(* (scripts/hermes_memory_bridge.py).                                      *)
(*                                                                         *)
(* A review runs under the journal's lock but writes two files, so a crash *)
(* of the node may fall between them.  The push is awaited after the lock: *)
(* two reviews may reach the bridge in either order, or not at all, since  *)
(* its errors are only printed.                                            *)
(***************************************************************************)
EXTENDS Naturals, Sequences, FiniteSets, SequencesExt

CONSTANTS
  Sogno,        \* dreams
  MaxRighe,     \* rows kept in dreams.jsonl
  MaxInVolo,    \* reviews whose push may be under way together
  MaxRevisioni, \* bound: reviews
  MaxCadute,    \* bound: crashes of the node
  Perdite,      \* may a push be lost?
  Ordine,       \* do the pushes about a note arrive in the order of its reviews?
  Gesti         \* statuses a lifecycle request may ask for

VARIABLES
  sogni,    \* dreams.jsonl, oldest first: Seq([di, stato])
  note,     \* dream_insights.jsonl: [Sogno -> "", "active" or "revoked"]
  aperta,   \* the review between its two writes: [n, di, verso], or Nessuna
  inVolo,   \* notes on their way: set of [n, di, stato]
  hermes,   \* revisions stored by the bridge, oldest first: Seq([n, di, stato])
  gestione, \* a lifecycle request between its read and its store, or Nessuna
  interrotte, \* history: dreams whose last review was cut between its two writes
  revisioni, cadute

vars == <<sogni, note, aperta, inVolo, hermes, gestione, interrotte, revisioni, cadute>>

Nessuna == [n |-> 0, di |-> "", verso |-> ""]

\* ACTIONS and ALLOWED_ACTIONS: from a status to the status of the action
Ammesse == {<<"hypothesis", "promoted">>, <<"hypothesis", "rejected">>, <<"hypothesis", "deferred">>,
            <<"deferred", "promoted">>, <<"deferred", "rejected">>, <<"deferred", "hypothesis">>,
            <<"promoted", "revoked">>, <<"rejected", "hypothesis">>,
            <<"revoked", "promoted">>, <<"revoked", "rejected">>, <<"revoked", "hypothesis">>}

Init ==
  /\ sogni = <<>> /\ note = [d \in Sogno |-> ""] /\ aperta = Nessuna /\ inVolo = {} /\ hermes = <<>>
  /\ gestione = Nessuna /\ interrotte = {} /\ revisioni = 0 /\ cadute = 0

Righe(d) == {i \in DOMAIN sogni : sogni[i].di = d}
StatoDi(d) == {sogni[i].stato : i \in Righe(d)}

-----------------------------------------------------------------------------
(* The node.                                                                 *)

\* journal.append: a dream is a hypothesis; the oldest rows are dropped
Sogna(d) ==
  /\ aperta = Nessuna /\ Righe(d) = {} /\ note[d] = ""
  /\ LET r == Append(sogni, [di |-> d, stato |-> "hypothesis"]) IN
     sogni' = SubSeq(r, IF Len(r) > MaxRighe THEN Len(r) - MaxRighe + 1 ELSE 1, Len(r))
  /\ UNCHANGED <<note, aperta, inVolo, hermes, gestione, interrotte, revisioni, cadute>>

\* review: the action must be allowed from the status of the dream, which is written first
Rivede(d) ==
  /\ aperta = Nessuna /\ revisioni < MaxRevisioni /\ Cardinality(inVolo) < MaxInVolo
  /\ \E i \in Righe(d), verso \in {c[2] : c \in Ammesse} :
       /\ <<sogni[i].stato, verso>> \in Ammesse
       /\ sogni' = [sogni EXCEPT ![i].stato = verso]
       /\ aperta' = [n |-> revisioni + 1, di |-> d, verso |-> verso]
  /\ revisioni' = revisioni + 1
  /\ UNCHANGED <<note, inVolo, hermes, gestione, interrotte, cadute>>

\* mutant: only an explicit revocation touches the note
NotaDopoSoloRevoca ==
  IF aperta.verso = "promoted" THEN "active" ELSE IF aperta.verso = "revoked" THEN "" ELSE note[aperta.di]

\* then its note: written active on promote, revoked by anything else if it is there;
\* the note written is pushed
NotaDopo == IF aperta.verso = "promoted" THEN "active" ELSE IF note[aperta.di] = "" THEN "" ELSE "revoked"
ScriveNota ==
  /\ aperta # Nessuna /\ aperta' = Nessuna
  /\ note' = [note EXCEPT ![aperta.di] = NotaDopo]
  /\ inVolo' = IF NotaDopo = "" THEN inVolo
               ELSE inVolo \cup {[n |-> aperta.n, di |-> aperta.di, stato |-> NotaDopo]}
  /\ interrotte' = interrotte \ {aperta.di}
  /\ UNCHANGED <<sogni, hermes, gestione, revisioni, cadute>>

\* external: the node stops; a review half written stays so, pushes under way are lost
Cade ==
  /\ cadute < MaxCadute /\ cadute' = cadute + 1 /\ (Perdite \/ inVolo = {})
  /\ aperta' = Nessuna /\ inVolo' = {}
  /\ interrotte' = interrotte \cup ({aperta.di} \ {""})
  /\ UNCHANGED <<sogni, note, hermes, gestione, revisioni>>

-----------------------------------------------------------------------------
(* The bridge.                                                               *)

\* mutant: every delivery is a revision
MemorizzataSempre(v) == Append(hermes, v)

\* store: a revision already known in its session is not stored twice
Memorizzata(v) == IF v \in ToSet(hermes) THEN hermes ELSE Append(hermes, v)

\* a push arrives; the outbox of the control-plane may send it again
Arriva(v) ==
  /\ Ordine => \A w \in inVolo : w.di = v.di /\ w.n < v.n => w \in ToSet(hermes)
  /\ Len(hermes) < 2 * MaxRevisioni
  /\ hermes' = Memorizzata(v) /\ inVolo' \in {inVolo, inVolo \ {v}}
  /\ UNCHANGED <<sogni, note, aperta, gestione, interrotte, revisioni, cadute>>
Perde(v) ==
  /\ Perdite /\ inVolo' = inVolo \ {v}
  /\ UNCHANGED <<sogni, note, aperta, hermes, gestione, interrotte, revisioni, cadute>>

\* entries: of each note the last revision stored, unless it is revoked
Ultima(d) == LET s == SelectSeq(hermes, LAMBDA v : v.di = d) IN IF s = <<>> THEN "" ELSE Last(s).stato
Visibili == {d \in Sogno : Ultima(d) \notin {"", "revoked"}}

\* lifecycle: what is visible is read, then the changed revision is stored
Gestisce ==
  /\ gestione = Nessuna /\ revisioni < MaxRevisioni
  /\ \E d \in Visibili, verso \in Gesti :
       gestione' = [Nessuna EXCEPT !.di = d, !.verso = verso]
  /\ UNCHANGED <<sogni, note, aperta, inVolo, hermes, interrotte, revisioni, cadute>>
GestisceScrive ==
  /\ gestione # Nessuna /\ gestione' = Nessuna /\ revisioni' = revisioni + 1
  /\ hermes' = Memorizzata([n |-> revisioni', di |-> gestione.di, stato |-> gestione.verso])
  /\ UNCHANGED <<sogni, note, aperta, inVolo, interrotte, cadute>>

Next ==
  \/ \E d \in Sogno : Sogna(d) \/ Rivede(d)
  \/ ScriveNota \/ Cade \/ Gestisce \/ GestisceScrive
  \/ \E v \in inVolo : Arriva(v) \/ Perde(v)

Spec == Init /\ [][Next]_vars

-----------------------------------------------------------------------------
\* Files, pushes and revisions keep their shape.
TypeOK ==
  /\ Len(sogni) <= MaxRighe /\ \A i \in DOMAIN sogni : sogni[i].stato \in {c[1] : c \in Ammesse}
  /\ note \in [Sogno -> {"", "active", "revoked"}]
  /\ \A v \in inVolo : v.di \in Sogno /\ v.stato \in {"active", "revoked"}
  /\ \A i \in DOMAIN hermes : hermes[i].di \in Sogno

\* docs/dreams.md: "promozioni e revoche vengono inviate al backend Hermes ... senza
\* rendere visibile una nota revocata": with nothing on its way, a note the node calls
\* revoked is not shown as active.
RevocataNascosta ==
  inVolo = {} /\ aperta = Nessuna => \A d \in Sogno : note[d] = "revoked" => Ultima(d) # "active"

\* An active note belongs to a dream that is promoted, or that has left the journal: a
\* crash between the two writes breaks it only until the next review of that dream.
AttivaSePromosso ==
  aperta = Nessuna => \A d \in Sogno \ interrotte : note[d] = "active" => StatoDi(d) \subseteq {"promoted"}

\* docs/dreams.md, D2: "Ogni cambio di stato e' attribuito, datato e reversibile": an
\* active note still has its dream in the journal, where it can be revoked.
AttivaRevocabile ==
  aperta = Nessuna => \A d \in Sogno : note[d] = "active" => StatoDi(d) # {}
=============================================================================
