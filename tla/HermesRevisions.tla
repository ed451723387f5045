--------------------------- MODULE HermesRevisions ---------------------------
(***************************************************************************)
(* The memory Hermes holds, as revisions: the bridge                       *)
(* (scripts/hermes_memory_bridge.py) appends every revision of an entry it *)
(* has not got yet and shows the last one, unless it is revoked.           *)
(*                                                                         *)
(* One writer of the control plane pushes revisions through MemorySync     *)
(* (shared/memory_sync.py, shared/hermes_memory.py): mirror first, then    *)
(* Hermes, else the queue; a request it gave up on may still be executed   *)
(* later.  Operators quarantine, restore and revoke entries, each request  *)
(* on a thread of the bridge: it reads the entries without the lock and    *)
(* then stores a revision of what it read.  Writers racing for the queue   *)
(* are the subject of MemorySync.                                          *)
(***************************************************************************)
EXTENDS Naturals, Sequences, SequencesExt

CONSTANTS
  Voce,         \* entries, by id
  SenzaData,    \* those pushed without a timestamp
  Filo,         \* lifecycle requests the bridge serves together
  Gesti,        \* the statuses they ask for
  MaxVersioni,  \* bound: revisions of an entry that its author pushes
  MaxGesti,     \* bound: lifecycle requests
  MaxGiorni     \* bound: midnights

VARIABLES
  db,        \* messages of the bridge, oldest first: [rev, stato, sessione]
  inVolo,    \* revisions sent and not yet executed by the bridge
  scrittore, \* what the control plane waits for: a revision, the queue, or nothing
  coda,      \* the outbox, at most one revision of an entry
  mirror,    \* entries in the local mirror
  salvate,   \* revisions whose writer was told ok
  scartate,  \* those among them that the queue did not take
  filo,      \* [Filo -> the lifecycle request: what it read and has still to store]
  gesti, giorno

vars == <<db, inVolo, scrittore, coda, mirror, salvate, scartate, filo, gesti, giorno>>

\* a revision: the version its author wrote, and the lifecycle request that changed it
Rev(v, k) == [v |-> v, k |-> k, g |-> 0]
Libero == [fa |-> "niente", rev |-> [v |-> "", k |-> 0, g |-> 0]]
Fermo == [resta |-> <<>>, stato |-> "", g |-> 0, visto |-> 0]

Posti(d, v) == {i \in DOMAIN d : d[i].rev.v = v}
Ultima(d, v) == CHOOSE i \in Posti(d, v) : \A j \in Posti(d, v) : j <= i

Mostrata(d, v) == Posti(d, v) # {} /\ d[Ultima(d, v)].stato # "revoked"

\* Mutant of Correnti: the entries that were revoked too.
CorrentiTutte(d) == {v \in Voce : Posti(d, v) # {}}

\* HermesMemory.entries: the last revision of an entry hides the others
Correnti(d) == {v \in Voce : Mostrata(d, v)}

\* the session a revision belongs to: the day it tells, or today
Sessione(v) == IF v \in SenzaData THEN giorno ELSE 0

\* Mutant of Noto: only the last revision is looked at.
NotoUltimo(d, r, s) == \E i \in Posti(d, r.v) : i = Ultima(d, r.v) /\ d[i].rev = r

\* _known_revisions, of the session
Noto(d, r, s) == \E i \in DOMAIN d : d[i].rev = r /\ d[i].sessione = s

\* HermesMemory.store, under its lock
Memorizza(r, stato) ==
  LET s == Sessione(r.v) IN
  db' = IF Noto(db, r, s) THEN db ELSE Append(db, [rev |-> r, stato |-> stato, sessione |-> s])

Init ==
  /\ db = <<>> /\ inVolo = {} /\ scrittore = Libero /\ coda = {} /\ mirror = {}
  /\ salvate = {} /\ scartate = {}
  /\ filo = [t \in Filo |-> Fermo] /\ gesti = 0 /\ giorno = 1

-----------------------------------------------------------------------------
(* MemorySync.write and flush, and the bridge *)

Scritte(v) == {r.k : r \in {x \in salvate : x.v = v}}

\* memory_push: the mirror, then client.store
Scrive(v, k) ==
  /\ scrittore = Libero /\ k \notin Scritte(v) /\ (k = 1 \/ k - 1 \in Scritte(v))
  /\ mirror' = mirror \cup {v}
  /\ scrittore' = [fa |-> "store", rev |-> Rev(v, k)] /\ inVolo' = inVolo \cup {Rev(v, k)}
  /\ UNCHANGED <<db, coda, salvate, scartate, filo, gesti, giorno>>

\* the bridge executes a request; a connection that broke makes the client send it again
Arriva(r) ==
  /\ r \in inVolo
  /\ Memorizza(r, "active")
  /\ inVolo' \in {inVolo \ {r}} \cup (IF scrittore.rev = r THEN {inVolo} ELSE {})
  /\ UNCHANGED <<scrittore, coda, mirror, salvate, scartate, filo, gesti, giorno>>

Attesa == IF scrittore.fa = "store" THEN {scrittore.rev} ELSE coda
InHermes(r) == \E i \in DOMAIN db : db[i].rev = r

\* flush, unless it is too early: import_entries sends the whole queue
ChiedeImporta == /\ coda # {}
                 /\ scrittore' = [Libero EXCEPT !.fa = "importa"] /\ inVolo' = inVolo \cup coda

Risponde ==
  /\ scrittore.fa = "store" /\ InHermes(scrittore.rev)
  /\ salvate' = salvate \cup {scrittore.rev}
  /\ \/ ChiedeImporta
     \/ scrittore' = Libero /\ UNCHANGED inVolo
  /\ UNCHANGED <<db, coda, mirror, scartate, filo, gesti, giorno>>

\* POST /memory/sync, and stats
Sincronizza ==
  /\ scrittore = Libero /\ ChiedeImporta
  /\ UNCHANGED <<db, coda, mirror, salvate, scartate, filo, gesti, giorno>>

\* every entry was stored or was there: outbox.clear
Importata ==
  /\ scrittore.fa = "importa" /\ \A r \in coda : InHermes(r)
  /\ coda' = {} /\ scrittore' = Libero
  /\ UNCHANGED <<db, inVolo, mirror, salvate, scartate, filo, gesti, giorno>>

\* Mutant of Resta: a flush that had no answer empties the queue.
RestaVuota == IF scrittore.fa = "importa" THEN {} ELSE coda

Resta == coda

\* HermesMemoryError: no answer in time.  MemoryOutbox.append does not take a second
\* revision of an entry it holds
Rinuncia ==
  LET r == scrittore.rev IN
  /\ scrittore # Libero
  /\ inVolo' \in {inVolo, inVolo \ Attesa}
  /\ scrittore' = Libero
  /\ IF scrittore.fa = "importa" THEN coda' = Resta /\ UNCHANGED <<salvate, scartate>>
     ELSE /\ salvate' = salvate \cup {r}
          /\ IF \E q \in coda : q.v = r.v
             THEN scartate' = scartate \cup {r} /\ UNCHANGED coda
             ELSE coda' = Resta \cup {r} /\ UNCHANGED scartate
  /\ UNCHANGED <<db, mirror, filo, gesti, giorno>>

\* what a reading or a search is made on
Vista(degradata) == IF degradata THEN mirror ELSE Correnti(db)

\* MemorySync.read, with Hermes answering: _assorbi
Legge ==
  /\ mirror' = mirror \cup Vista(FALSE)
  /\ UNCHANGED <<db, inVolo, scrittore, coda, salvate, scartate, filo, gesti, giorno>>

-----------------------------------------------------------------------------
(* lifecycle *)

\* the entries it names that are not there are only reported missing
Inizia(t, s, stato) ==
  /\ filo[t] = Fermo /\ gesti < MaxGesti /\ s \cap Correnti(db) # {}
  /\ gesti' = gesti + 1
  /\ filo' = [filo EXCEPT ![t] =
       [resta |-> SetToSeq({db[Ultima(db, v)].rev : v \in s \cap Correnti(db)}),
        stato |-> stato, g |-> gesti', visto |-> Len(db)]]
  /\ UNCHANGED <<db, inVolo, scrittore, coda, mirror, salvate, scartate, giorno>>

Cambia(t) ==
  LET f == filo[t] IN
  /\ f.resta # <<>>
  /\ Memorizza([Head(f.resta) EXCEPT !.g = f.g], f.stato)
  /\ filo' = [filo EXCEPT ![t] = IF Len(f.resta) = 1 THEN Fermo ELSE [f EXCEPT !.resta = Tail(@)]]
  /\ UNCHANGED <<inVolo, scrittore, coda, mirror, salvate, scartate, gesti, giorno>>

Mezzanotte ==
  /\ giorno < MaxGiorni /\ giorno' = giorno + 1
  /\ UNCHANGED <<db, inVolo, scrittore, coda, mirror, salvate, scartate, filo, gesti>>

Next ==
  \/ \E v \in Voce, k \in 1..MaxVersioni : Scrive(v, k)
  \/ \E r \in inVolo : Arriva(r)
  \/ Risponde \/ Sincronizza \/ Importata \/ Rinuncia \/ Legge \/ Mezzanotte
  \/ \E t \in Filo : Cambia(t) \/ \E s \in SUBSET Voce, g \in Gesti : Inizia(t, s, g)

Spec == Init /\ [][Next]_vars

-----------------------------------------------------------------------------
Revisione == [v : Voce \cup {""}, k : 0..MaxVersioni, g : 0..MaxGesti]

TypeOK ==
  /\ \A i \in DOMAIN db : db[i].rev \in Revisione /\ db[i].stato \in Gesti \cup {"active"}
  /\ inVolo \subseteq Revisione /\ coda \subseteq Revisione /\ mirror \subseteq Voce
  /\ scrittore.rev \in Revisione /\ scartate \subseteq salvate
  /\ \A t \in Filo : filo[t].visto <= Len(db)

\* A revision that tells its day is stored once, however often it is delivered
\* (_known_revisions), and the queue holds one revision of an entry.
RevisioneUnica ==
  /\ \A i, j \in DOMAIN db : db[i].rev = db[j].rev /\ db[i].rev.v \notin SenzaData => i = j
  /\ \A q, r \in coda : q.v = r.v => q = r

\* What a writer was told is saved is in Hermes or in the queue (MemorySync.write), but for
\* a revision of an entry that was queued already, and a degraded reading shows the entry.
SalvateTutte ==
  \A r \in salvate : r.v \in Vista(TRUE) /\ (InHermes(r) \/ r \in coda \/ r \in scartate)

\* A revoked entry is shown again only by a revision its author had not delivered yet, or
\* by a lifecycle request that had read the entries before it was revoked: neither a
\* delivery repeated nor a "restore" brings it back (HermesMemory.store, lifecycle).
PassoRevocata ==
  \A v \in Voce \ SenzaData : Posti(db, v) # {} /\ ~Mostrata(db, v) /\ Mostrata(db, v)' =>
    LET n == Last(db').rev IN
    IF n.g = 0 THEN ~InHermes(n)
    ELSE \E t \in Filo : filo[t].g = n.g /\ filo[t].visto < Ultima(db, v)

\* shared/memory_sync.py:340 "questo è l'unico caso in cui una voce si perde davvero": it is
\* not, the queue drops a revision of an entry it holds.
NienteScartato == scartate = {}

\* shared/memory_sync.py:357 "Idempotente": not for an entry that tells no day.
RevisioneUnicaSempre == \A i, j \in DOMAIN db : db[i].rev = db[j].rev => i = j
=============================================================================
