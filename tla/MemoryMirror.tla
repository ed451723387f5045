---------------------------- MODULE MemoryMirror ----------------------------
(***************************************************************************)
(* The local mirror of the memory: MemoryMirror and _atomic in             *)
(* src/shared/memory_sync.py.  append (every write of the control plane)   *)
(* and merge (what a read of Hermes brought) load the file, add, prune and *)
(* replace the file.                                                       *)
(*                                                                         *)
(* Nothing is locked, and all threads write to the same temporary name, so *)
(* the model follows the files down to their inodes: the names of the      *)
(* directory, what each inode holds, and the inode a thread has open.  An  *)
(* entry stands for its timestamp, a larger one being newer.               *)
(***************************************************************************)
EXTENDS Integers, FiniteSets

CONSTANTS
  Voce,       \* the timestamps of the entries
  MaxVoci,    \* max_entries
  Thread,     \* the request threads of the control plane
  Inode       \* inodes; one more than the threads and the two names need

MemoryMirrorAssumption ==
  /\ Voce \subseteq Nat /\ MaxVoci \in Nat \ {0}
  /\ IsFiniteSet(Thread) /\ IsFiniteSet(Inode) /\ Cardinality(Inode) > Cardinality(Thread) + 2

Nessuno == "nessuno"

VARIABLES
  nomi,      \* [{"mirror", "tmp"} -> inode or Nessuno]: the directory
  dati,      \* [Inode -> the writings mixed in it]: {} is an empty file, {S}
             \* a file with the entries S, anything else cannot be read
  filo,      \* [Thread -> [pc, dopo, inode]]: the entries to save, the open file
  date,      \* the entries the mirror was given and told the caller it keeps
  taglio     \* entries older than this are past ttl_days

vars == <<nomi, dati, filo, date, taglio>>

Fermo == [pc |-> "libero", nuove |-> {}, dopo |-> {}, inode |-> Nessuno]

In(t, pc) == filo[t].pc = pc

\* prune: neither past the TTL nor beyond the newest MaxVoci
Prune(voci) ==
  LET fresche == {v \in voci : v >= taglio}
  IN {v \in fresche : Cardinality({w \in fresche : w > v}) < MaxVoci}

\* load: a missing, empty or broken file has no entries
Load == IF nomi["mirror"] # Nessuno /\ Cardinality(dati[nomi["mirror"]]) = 1
        THEN UNION dati[nomi["mirror"]] ELSE {}

Init ==
  /\ nomi = [n \in {"mirror", "tmp"} |-> Nessuno]
  /\ dati = [i \in Inode |-> {}]
  /\ filo = [t \in Thread |-> Fermo]
  /\ date = {}
  /\ taglio = 0

\* append loads, adds one entry and always writes
Append(t, v) ==
  /\ In(t, "libero")
  /\ filo' = [filo EXCEPT ![t] =
       [pc |-> "apre", nuove |-> {v}, dopo |-> Prune(Load \union {v}), inode |-> Nessuno]]
  /\ UNCHANGED <<nomi, dati, date, taglio>>

\* Mutant of Merge: what came from Hermes replaces what was there.
MergeSovrascrive(t, voci) ==
  /\ In(t, "libero") /\ ~(voci \subseteq Load)
  /\ filo' = [filo EXCEPT ![t] =
       [pc |-> "apre", nuove |-> voci, dopo |-> Prune(voci), inode |-> Nessuno]]
  /\ UNCHANGED <<nomi, dati, date, taglio>>

\* merge writes only when it learns something
Merge(t, voci) ==
  /\ In(t, "libero") /\ ~(voci \subseteq Load)
  /\ filo' = [filo EXCEPT ![t] =
       [pc |-> "apre", nuove |-> voci, dopo |-> Prune(Load \union voci), inode |-> Nessuno]]
  /\ UNCHANGED <<nomi, dati, date, taglio>>

\* _atomic: open(temporaneo, "wb") truncates the file of that name, or makes one
Aperti == {nomi[n] : n \in DOMAIN nomi} \union {filo[t].inode : t \in Thread}

Temporaneo ==
  IF nomi["tmp"] # Nessuno THEN nomi["tmp"] ELSE CHOOSE i \in Inode : i \notin Aperti

\* Mutant of Apre: the file itself is opened for writing.
ApreSulPosto(t) ==
  LET i == IF nomi["mirror"] # Nessuno THEN nomi["mirror"] ELSE Temporaneo IN
    /\ In(t, "apre")
    /\ nomi' = [n \in DOMAIN nomi |-> i]
    /\ dati' = [dati EXCEPT ![i] = {}]
    /\ filo' = [filo EXCEPT ![t].pc = "scrive", ![t].inode = i]
    /\ UNCHANGED <<date, taglio>>

Apre(t) ==
  /\ In(t, "apre")
  /\ nomi' = [nomi EXCEPT !["tmp"] = Temporaneo]
  /\ dati' = [dati EXCEPT ![Temporaneo] = {}]
  /\ filo' = [filo EXCEPT ![t].pc = "scrive", ![t].inode = Temporaneo]
  /\ UNCHANGED <<date, taglio>>

\* write and fsync, from the first byte: what another thread wrote there is
\* covered, or the end of it stays
Scrive(t) ==
  /\ In(t, "scrive")
  /\ \E resto \in {{}, dati[filo[t].inode]} :
       dati' = [dati EXCEPT ![filo[t].inode] = {filo[t].dopo} \union resto]
  /\ filo' = [filo EXCEPT ![t].pc = "sostituisce"]
  /\ UNCHANGED <<nomi, date, taglio>>

\* os.replace, whoever wrote the temporary file last
Sostituisce(t) ==
  /\ In(t, "sostituisce") /\ nomi["tmp"] # Nessuno
  /\ nomi' = [mirror |-> nomi["tmp"], tmp |-> Nessuno]
  /\ filo' = [filo EXCEPT ![t] = Fermo]
  /\ date' = date \union filo[t].nuove
  /\ UNCHANGED <<dati, taglio>>

\* FileNotFoundError: another thread replaced it first; OSError at any earlier
\* step as well.  The caller learns that the mirror was not written.
NonScritto(t) ==
  /\ ~In(t, "libero")
  /\ filo' = [filo EXCEPT ![t] = Fermo]
  /\ UNCHANGED <<nomi, dati, date, taglio>>

\* The control plane dies.
Cade ==
  /\ filo' = [t \in Thread |-> Fermo]
  /\ UNCHANGED <<nomi, dati, date, taglio>>

\* Mutant of Giorno: the days of the TTL are added, not subtracted.
GiornoIndietro ==
  /\ \E v \in Voce : v >= taglio
  /\ taglio' = taglio - 1
  /\ UNCHANGED <<nomi, dati, filo, date>>

\* A day passes, and one more entry is too old.
Giorno ==
  /\ \E v \in Voce : v >= taglio
  /\ taglio' = taglio + 1
  /\ UNCHANGED <<nomi, dati, filo, date>>

Next ==
  \/ \E t \in Thread, v \in Voce : Append(t, v)
  \/ \E t \in Thread, voci \in SUBSET Voce : Merge(t, voci)
  \/ \E t \in Thread : Apre(t) \/ Scrive(t) \/ Sostituisce(t) \/ NonScritto(t)
  \/ Cade
  \/ Giorno

Spec == Init /\ [][Next]_vars

-----------------------------------------------------------------------------
(* Properties. *)

TypeOK ==
  /\ nomi \in [{"mirror", "tmp"} -> Inode \union {Nessuno}]
  /\ dati \in [Inode -> SUBSET SUBSET Voce]
  /\ \A t \in Thread : filo[t].dopo \subseteq Voce /\ filo[t].inode \in Inode \union {Nessuno}
  /\ date \subseteq Voce /\ taglio \in Nat

\* "o c'e' il file vecchio, o c'e' quello nuovo, mai un mezzo" (docstring of
\* _atomic): under its own name the file is always whole, whenever a write is
\* interrupted.
MaiUnMezzo == nomi["mirror"] # Nessuno => Cardinality(dati[nomi["mirror"]]) = 1

\* "il mirror e' un'unione, non una copia che sovrascrive" (docstring of merge):
\* of all entries the mirror was ever given it shows exactly the newest that
\* the TTL and the maximum allow, in whatever order they came and whatever
\* crashes and failed writes there were.
MirrorUnione == Prune(Load) = Prune(date)

=============================================================================
