---------------------------- MODULE JobLifecycle ----------------------------
(***************************************************************************)
(* What the image queue promises about every request, without its claims'  *)
(* times, its history and its file: a job is accepted below the ceiling,   *)
(* entrusted to a bridge, concluded once; a claim may come back to the     *)
(* queue; a job vanishes only when it is older than Ttl; nothing concluded *)
(* or vanished ever comes back.  ImageQueue implements it, restarts of the *)
(* process included, as long as its file can be written.                   *)
(***************************************************************************)
EXTENDS Integers, FiniteSets

CONSTANTS
  JobId,     \* the ids of all requests
  MaxJobs,   \* how many may wait or run at the same time
  Ttl        \* the age a job must exceed before it may vanish

VARIABLES
  fase,      \* [JobId -> Fasi]
  eta        \* [JobId -> age since the job was accepted]

lvars == <<fase, eta>>

Fasi == {"nuovo", "atteso", "preso", "riuscito", "fallito", "svanito"}

InCorso(f) == {j \in JobId : f[j] \in {"atteso", "preso"}}

Init ==
  /\ fase = [j \in JobId |-> "nuovo"]
  /\ eta = [j \in JobId |-> 0]

\* What may happen to a job on the side of any operation: its claim comes back,
\* or it vanishes because of its age.
Decade(j) ==
  \/ fase'[j] = fase[j]
  \/ fase[j] = "preso" /\ fase'[j] = "atteso"
  \/ fase[j] # "nuovo" /\ eta[j] > Ttl /\ fase'[j] = "svanito"

GliAltri(j) == \A k \in JobId \ {j} : Decade(k)

Accetta(j) ==
  /\ fase[j] = "nuovo" /\ fase'[j] = "atteso"
  /\ GliAltri(j)
  /\ Cardinality(InCorso(fase')) <= MaxJobs
  /\ UNCHANGED eta

Affida(j) ==
  /\ fase[j] \in {"atteso", "preso"} /\ fase'[j] = "preso"
  /\ GliAltri(j)
  /\ UNCHANGED eta

Chiude(j) ==
  /\ fase[j] \in {"atteso", "preso"} /\ fase'[j] \in {"riuscito", "fallito"}
  /\ \A k \in JobId \ {j} : fase'[k] = fase[k]
  /\ UNCHANGED eta

Lascia ==
  /\ \A j \in JobId : Decade(j)
  /\ UNCHANGED eta

Invecchia ==
  /\ \A j \in JobId : eta'[j] >= eta[j]
  /\ UNCHANGED fase

Next ==
  \/ \E j \in JobId : Accetta(j) \/ Affida(j) \/ Chiude(j)
  \/ Lascia
  \/ Invecchia

Spec == Init /\ [][Next]_lvars

=============================================================================
