------------------------- MODULE ImageQueue_proofs -------------------------
(***************************************************************************)
(* Proofs about ImageQueue, for any number of jobs, families, times and    *)
(* sizes.  They hold on a disk that may fail, unless a theorem says        *)
(* otherwise.                                                              *)
(***************************************************************************)
EXTENDS ImageQueue, FiniteSetTheorems, TLAPS

DiscoRec == [job : [JobId -> JobRec], storico : Seq(JobId)]

-----------------------------------------------------------------------------
(* What the helpers do to a record, to a queue, to a file. *)

\* Pruning one record leaves a record.
LEMMA PotatoTipo == \A r \in JobRec : Potato(r) \in JobRec /\ Rimosso(r) \in JobRec
<1> SUFFICES ASSUME NEW r \in JobRec PROVE Potato(r) \in JobRec /\ Rimosso(r) \in JobRec
  OBVIOUS
<1>1. 0 \in 0..ClaimTtl + 1
  BY ImageQueueAssumption
<1>2. [r EXCEPT !.stato = "potato", !.presa = 0] \in JobRec
  BY <1>1 DEF JobRec, Stati
<1>3. [r EXCEPT !.stato = "pending", !.presa = 0] \in JobRec
  BY <1>1 DEF JobRec, Stati
<1> QED BY <1>2, <1>3 DEF Potato, Rimosso

LEMMA PotaTipo ==
  ASSUME NEW jobs \in [JobId -> JobRec]
  PROVE  Pota(jobs) \in [JobId -> JobRec]
BY PotatoTipo DEF Pota

\* Pruning revives nothing: a record it leaves waiting or running was waiting or
\* running, and a concluded one was concluded.
LEMMA PotatoNonRianima ==
  ASSUME NEW r \in JobRec
  PROVE  /\ Attivo(Potato(r)) => Attivo(r)
         /\ Concluso(Potato(r)) => Concluso(r)
         /\ Concluso(r) => Concluso(Potato(r)) \/ Potato(r).stato = "potato"
         /\ r.stato = "potato" => Potato(r).stato = "potato"
BY DEF Potato, Rimosso, Attivo, Concluso, JobRec, Stati

\* A record that left the dictionary neither waits nor runs.
LEMMA RimossoInattivo ==
  ASSUME NEW r \in JobRec
  PROVE  Rimosso(r).stato = "potato" /\ ~Attivo(Rimosso(r)) /\ ~Concluso(Rimosso(r))
<1>1. Rimosso(r).stato = "potato"
  BY DEF Rimosso, JobRec
<1> QED BY <1>1 DEF Attivo, Concluso

\* A method moves one job to another state, and ends or starts its claim.
LEMMA CambioTipo ==
  ASSUME NEW jobs \in [JobId -> JobRec], NEW j \in JobId, NEW s \in Stati
  PROVE  /\ [jobs EXCEPT ![j].stato = s] \in [JobId -> JobRec]
         /\ [jobs EXCEPT ![j] = [@ EXCEPT !.stato = s, !.presa = 0]] \in [JobId -> JobRec]
<1>1. 0 \in 0..ClaimTtl + 1
  BY ImageQueueAssumption
<1>2. [jobs[j] EXCEPT !.stato = s] \in JobRec
  BY DEF JobRec
<1>3. [jobs[j] EXCEPT !.stato = s, !.presa = 0] \in JobRec
  BY <1>1 DEF JobRec
<1>4. [jobs EXCEPT ![j].stato = s] = [jobs EXCEPT ![j] = [jobs[j] EXCEPT !.stato = s]]
  OBVIOUS
<1>5. [jobs EXCEPT ![j] = [@ EXCEPT !.stato = s, !.presa = 0]]
        = [jobs EXCEPT ![j] = [jobs[j] EXCEPT !.stato = s, !.presa = 0]]
  OBVIOUS
<1> QED BY <1>2, <1>3, <1>4, <1>5

LEMMA CodaTipo ==
  ASSUME NEW s \in Seq(JobId), NEW n \in Nat
  PROVE  Coda(s, n) \in Seq(JobId) /\ Len(Coda(s, n)) <= n
BY DEF Coda

LEMMA CodaElementi ==
  ASSUME NEW s \in Seq(JobId), NEW n \in Nat, n < Len(s)
  PROVE  /\ Len(Coda(s, n)) = n
         /\ \A i \in 1..n : Coda(s, n)[i] = s[i + (Len(s) - n)]
<1>1. Coda(s, n) = SubSeq(s, Len(s) - n + 1, Len(s))
  BY DEF Coda
<1>2. \A i \in Len(s) - n + 1..Len(s) : s[i] \in JobId
  OBVIOUS
<1>3. Len(SubSeq(s, Len(s) - n + 1, Len(s))) = n
  OBVIOUS
<1>4. \A i \in 1..n : SubSeq(s, Len(s) - n + 1, Len(s))[i] = s[i + (Len(s) - n)]
  OBVIOUS
<1> QED BY <1>1, <1>3, <1>4

\* Time changes ages only.
LEMMA InvecchiaTipo ==
  ASSUME NEW r \in JobRec
  PROVE  Invecchia(r) \in JobRec /\ Invecchia(r).stato = r.stato
<1>1. r.eta \in 0..Ttl + 1 /\ r.presa \in 0..ClaimTtl + 1
  BY DEF JobRec
<1>2. Sale(r.eta, Ttl + 1) \in 0..Ttl + 1 /\ Sale(r.presa, ClaimTtl + 1) \in 0..ClaimTtl + 1
  BY <1>1, ImageQueueAssumption DEF Sale
<1> QED BY <1>1, <1>2 DEF Invecchia, JobRec

LEMMA InvecchiatiTipo ==
  ASSUME NEW jobs \in [JobId -> JobRec]
  PROVE  Invecchiati(jobs) \in [JobId -> JobRec]
BY InvecchiaTipo DEF Invecchiati

\* A file after a save holds the queue given to it, or what it held before.
LEMMA ScrittureTipo ==
  ASSUME TypeOK, NEW jobs \in [JobId -> JobRec], NEW st \in Seq(JobId)
  PROVE  /\ \A d \in Scritture(jobs, st) : d \in DiscoRec
         /\ \A d \in PotaEScrive(jobs, st) : d \in DiscoRec
BY PotaTipo DEF TypeOK, Scritture, PotaEScrive, Immagine, DiscoRec

-----------------------------------------------------------------------------
(* Type correctness. *)

LEMMA TypeOKInit == Init => TypeOK
BY ImageQueueAssumption DEF Init, TypeOK, Vuoto, JobRec, Stati, Immagine

LEMMA TypeOKNext == TypeOK /\ [Next]_qvars => TypeOK'
<1> SUFFICES ASSUME TypeOK, [Next]_qvars PROVE TypeOK'
  OBVIOUS
<1> USE DEF TypeOK, DiscoRec
<1>0. Pota(job) \in [JobId -> JobRec]
  BY PotaTipo
<1>1. ASSUME NEW j \in JobId, Accoda(j) PROVE TypeOK'
  <2>1. job' \in [JobId -> JobRec]
    BY <1>0, <1>1, CambioTipo DEF Accoda, Nuovo, Stati
  <2> QED BY <1>1, <2>1, ScrittureTipo DEF Accoda, Nuovo
<1>2. CASE Legge
  BY <1>0, <1>2, ScrittureTipo DEF Legge
<1>3. ASSUME NEW caps, NEW j \in JobId, Prossimo(caps, j) PROVE TypeOK'
  <2>1. job' \in [JobId -> JobRec]
    BY <1>0, <1>3, CambioTipo DEF Prossimo, Stati
  <2> QED BY <1>3, <2>1, ScrittureTipo DEF Prossimo
<1>4. ASSUME NEW j \in JobId, NEW ok \in BOOLEAN, Concludi(j, ok) PROVE TypeOK'
  <2>1. job' \in [JobId -> JobRec]
    BY <1>4, CambioTipo DEF Concludi, Stati
  <2>2. storico' \in Seq(JobId)
    <3>1. Append(storico, j) \in Seq(JobId) /\ MaxStorico \in Nat
      BY ImageQueueAssumption
    <3> QED BY <1>4, <3>1, CodaTipo DEF Concludi
  <2> QED BY <1>4, <2>1, <2>2, ScrittureTipo DEF Concludi
<1>5. ASSUME NEW j \in JobId, Rinvia(j) PROVE TypeOK'
  <2>1. job' \in [JobId -> JobRec]
    BY <1>5, CambioTipo DEF Rinvia, Stati
  <2> QED BY <1>5, <2>1, ScrittureTipo DEF Rinvia
<1>6. ASSUME NEW j \in JobId, Consegnato(j) PROVE TypeOK'
  <2>1. job' \in [JobId -> JobRec]
    BY <1>6 DEF Consegnato, JobRec
  <2> QED BY <1>6, <2>1, ScrittureTipo DEF Consegnato
<1>7. CASE Riavvia
  <2>1. job' \in [JobId -> JobRec]
    BY <1>7, PotatoTipo DEF Riavvia, Ripreso
  <2> QED BY <1>7, <2>1, ScrittureTipo DEF Riavvia
<1>8. CASE RiavviaSenzaFile
  BY <1>8, PotatoTipo DEF RiavviaSenzaFile
<1>9. CASE Tick
  BY <1>9, InvecchiatiTipo DEF Tick
<1>10. CASE UNCHANGED qvars
  BY <1>10 DEF qvars
<1> QED BY <1>1, <1>2, <1>3, <1>4, <1>5, <1>6, <1>7, <1>8, <1>9, <1>10 DEF Next, Restore

\* Every field of the queue and of its file keeps its type.
THEOREM TipoCorretto == Spec => []TypeOK
BY TypeOKInit, TypeOKNext, PTL DEF Spec

-----------------------------------------------------------------------------
(* The ceiling.  A restart brings back what the file holds, so the file must *)
(* keep the ceiling as well: that is the inductive invariant.                *)

EntroTetto(jobs) == Cardinality(AttiviDi(jobs)) <= MaxJobs

InvTetto == TypeOK /\ EntroTetto(job) /\ EntroTetto(disco.job)

\* A queue with fewer waiting or running jobs keeps the ceiling.
LEMMA TettoMonotono ==
  ASSUME NEW jobs, NEW jobs2, AttiviDi(jobs2) \subseteq AttiviDi(jobs), EntroTetto(jobs)
  PROVE  EntroTetto(jobs2)
<1>1. IsFiniteSet(AttiviDi(jobs))
  BY FS_Subset, ImageQueueAssumption DEF AttiviDi
<1>2. /\ IsFiniteSet(AttiviDi(jobs2))
      /\ Cardinality(AttiviDi(jobs2)) <= Cardinality(AttiviDi(jobs))
  BY <1>1, FS_Subset
<1>3. Cardinality(AttiviDi(jobs)) \in Nat /\ Cardinality(AttiviDi(jobs2)) \in Nat
  BY <1>1, <1>2, FS_CardinalityType
<1> QED BY <1>2, <1>3, ImageQueueAssumption DEF EntroTetto

LEMMA PotaAttivi ==
  ASSUME NEW jobs \in [JobId -> JobRec]
  PROVE  AttiviDi(Pota(jobs)) \subseteq AttiviDi(jobs)
BY PotatoNonRianima DEF AttiviDi, Pota

\* What a save may leave in the file keeps the ceiling when the queue does.
LEMMA TettoScritto ==
  ASSUME InvTetto, NEW jobs, NEW st, EntroTetto(jobs)
  PROVE  /\ \A d \in Scritture(jobs, st) : EntroTetto(d.job)
         /\ \A d \in PotaEScrive(jobs, st) : EntroTetto(d.job)
<1>1. EntroTetto(Pota(job))
  BY PotaAttivi, TettoMonotono DEF InvTetto, TypeOK
<1> QED BY <1>1 DEF InvTetto, Scritture, PotaEScrive, Immagine

LEMMA InvTettoInit == Init => InvTetto
<1> SUFFICES ASSUME Init PROVE InvTetto
  OBVIOUS
<1>1. AttiviDi(job) = {}
  BY DEF Init, AttiviDi, Attivo, Vuoto
<1>2. Cardinality({}) = 0
  BY FS_EmptySet
<1>3. EntroTetto(job)
  BY <1>1, <1>2, ImageQueueAssumption DEF EntroTetto
<1>4. disco.job = job
  BY DEF Init, Immagine
<1> QED BY <1>3, <1>4, TypeOKInit DEF InvTetto

LEMMA InvTettoNext == InvTetto /\ [Next]_qvars => InvTetto'
<1> SUFFICES ASSUME InvTetto, [Next]_qvars PROVE InvTetto'
  OBVIOUS
<1>0. /\ job \in [JobId -> JobRec] /\ disco.job \in [JobId -> JobRec]
      /\ Pota(job) \in [JobId -> JobRec] /\ EntroTetto(Pota(job)) /\ TypeOK'
  BY PotaTipo, PotaAttivi, TettoMonotono, TypeOKNext DEF InvTetto, TypeOK
<1>1. ASSUME NEW j \in JobId, Accoda(j) PROVE InvTetto'
  <2>1. AttiviDi(job') \subseteq AttiviDi(Pota(job)) \union {j}
    BY <1>0, <1>1 DEF Accoda, Nuovo, AttiviDi, Attivo
  <2>2. IsFiniteSet(AttiviDi(Pota(job)))
    BY FS_Subset, ImageQueueAssumption DEF AttiviDi
  <2>3. /\ IsFiniteSet(AttiviDi(Pota(job)) \union {j})
        /\ Cardinality(AttiviDi(Pota(job)) \union {j}) <= Cardinality(AttiviDi(Pota(job))) + 1
    <3> DEFINE A == AttiviDi(Pota(job))
    <3>1. IsFiniteSet(A) /\ Cardinality(A) \in Nat
      BY <2>2, FS_CardinalityType
    <3>2. /\ IsFiniteSet(A \union {j})
          /\ Cardinality(A \union {j})
               = IF j \in A THEN Cardinality(A) ELSE Cardinality(A) + 1
      BY <3>1, FS_AddElement
    <3> HIDE DEF A
    <3>3. IsFiniteSet(A \union {j}) /\ Cardinality(A \union {j}) <= Cardinality(A) + 1
      BY <3>1, <3>2
    <3> QED BY <3>3 DEF A
  <2>4. Cardinality(AttiviDi(job')) <= Cardinality(AttiviDi(Pota(job)) \union {j})
    BY <2>1, <2>3, FS_Subset
  <2>5. /\ Cardinality(AttiviDi(job')) \in Nat
        /\ Cardinality(AttiviDi(Pota(job))) \in Nat
        /\ Cardinality(AttiviDi(Pota(job)) \union {j}) \in Nat
    BY <2>1, <2>2, <2>3, FS_Subset, FS_CardinalityType
  <2>6. EntroTetto(job')
    BY <1>1, <2>3, <2>4, <2>5, ImageQueueAssumption DEF Accoda, Nuovo, EntroTetto
  <2> QED BY <1>0, <1>1, <2>6, TettoScritto DEF Accoda, Nuovo, InvTetto
<1>2. CASE Legge
  BY <1>0, <1>2, TettoScritto DEF Legge, InvTetto
<1>3. ASSUME NEW caps, NEW j \in JobId, Prossimo(caps, j) PROVE InvTetto'
  <2>1. AttiviDi(job') \subseteq AttiviDi(Pota(job))
    BY <1>0, <1>3 DEF Prossimo, PiuVecchi, Candidati, AttiviDi, Attivo
  <2>2. EntroTetto(job')
    BY <1>0, <2>1, TettoMonotono
  <2> QED BY <1>0, <1>3, <2>2, TettoScritto DEF Prossimo, InvTetto
<1>4. ASSUME NEW j \in JobId, NEW ok \in BOOLEAN, Concludi(j, ok) PROVE InvTetto'
  <2>1. AttiviDi(job') \subseteq AttiviDi(job)
    BY <1>0, <1>4 DEF Concludi, AttiviDi, Attivo
  <2>2. EntroTetto(job')
    BY <2>1, TettoMonotono DEF InvTetto
  <2> QED BY <1>0, <1>4, <2>2, TettoScritto DEF Concludi, InvTetto
<1>5. ASSUME NEW j \in JobId, Rinvia(j) PROVE InvTetto'
  <2>1. AttiviDi(job') \subseteq AttiviDi(job)
    BY <1>0, <1>5 DEF Rinvia, AttiviDi, Attivo
  <2>2. EntroTetto(job')
    BY <2>1, TettoMonotono DEF InvTetto
  <2> QED BY <1>0, <1>5, <2>2, TettoScritto DEF Rinvia, InvTetto
<1>6. ASSUME NEW j \in JobId, Consegnato(j) PROVE InvTetto'
  <2>1. AttiviDi(job') \subseteq AttiviDi(job)
    BY <1>0, <1>6 DEF Consegnato, AttiviDi, Attivo
  <2>2. EntroTetto(job')
    BY <2>1, TettoMonotono DEF InvTetto
  <2> QED BY <1>0, <1>6, <2>2, TettoScritto DEF Consegnato, InvTetto
<1>7. CASE Riavvia
  <2>1. AttiviDi(job') \subseteq AttiviDi(disco.job)
    <3> SUFFICES ASSUME NEW k \in JobId, Attivo(job'[k]) PROVE Attivo(disco.job[k])
      BY DEF AttiviDi
    <3>1. job'[k] = Rimosso(job[k]) \/ job'[k] = Potato(disco.job[k])
      BY <1>7 DEF Riavvia, Ripreso
    <3>2. job[k] \in JobRec /\ disco.job[k] \in JobRec
      BY <1>0
    <3> QED BY <3>1, <3>2, RimossoInattivo, PotatoNonRianima
  <2>2. EntroTetto(job')
    BY <2>1, TettoMonotono DEF InvTetto
  <2> QED BY <1>0, <1>7, <2>2, TettoScritto DEF Riavvia, InvTetto
<1>8. CASE RiavviaSenzaFile
  <2>1. AttiviDi(job') \subseteq AttiviDi(job)
    <3> SUFFICES ASSUME NEW k \in JobId, Attivo(job'[k]) PROVE Attivo(job[k])
      BY DEF AttiviDi
    <3>1. job[k] \in JobRec /\ (job'[k] = Rimosso(job[k]) \/ job'[k] = job[k])
      BY <1>0, <1>8 DEF RiavviaSenzaFile
    <3> QED BY <3>1, RimossoInattivo
  <2> QED BY <1>0, <1>8, <2>1, TettoMonotono DEF RiavviaSenzaFile, InvTetto
<1>9. CASE Tick
  <2>1. /\ AttiviDi(job') \subseteq AttiviDi(job)
        /\ AttiviDi(disco'.job) \subseteq AttiviDi(disco.job)
    BY <1>0, <1>9, InvecchiaTipo DEF Tick, TypeOK, InvTetto, Invecchiati, AttiviDi, Attivo
  <2> QED BY <1>0, <2>1, TettoMonotono DEF InvTetto
<1>10. CASE UNCHANGED qvars
  BY <1>10, <1>0 DEF qvars, InvTetto, EntroTetto, AttiviDi
<1> QED BY <1>1, <1>2, <1>3, <1>4, <1>5, <1>6, <1>7, <1>8, <1>9, <1>10 DEF Next, Restore

\* At no time do more than max_jobs jobs wait or run, whatever is lost with a
\* failed save and whatever a restart brings back.
THEOREM TettoMaiSuperato == Spec => []AttiviEntroTetto
<1>1. InvTetto => AttiviEntroTetto
  BY DEF InvTetto, EntroTetto, AttiviEntroTetto
<1> QED BY <1>1, InvTettoInit, InvTettoNext, PTL DEF Spec

-----------------------------------------------------------------------------
(* The history.  A restart brings back the history of the file together with  *)
(* the jobs of the file, so the two must fit each other there as well.        *)

InvStorico ==
  /\ TypeOK
  /\ StoricoFedeleDi(job, storico) /\ Len(storico) <= MaxStorico
  /\ StoricoFedeleDi(disco.job, disco.storico) /\ Len(disco.storico) <= MaxStorico

\* jobs2 has no conclusion that jobs has not, and forgets none but by pruning.
Conserva(jobs, jobs2) ==
  \A k \in JobId :
    /\ Concluso(jobs2[k]) => Concluso(jobs[k])
    /\ Concluso(jobs[k]) \/ jobs[k].stato = "potato"
         => Concluso(jobs2[k]) \/ jobs2[k].stato = "potato"

\* A history stays faithful to a queue that conserves its conclusions.
LEMMA StoricoConservato ==
  ASSUME NEW jobs, NEW jobs2, NEW st \in Seq(JobId),
         StoricoFedeleDi(jobs, st), Conserva(jobs, jobs2)
  PROVE  StoricoFedeleDi(jobs2, st)
<1>1. \A n \in DOMAIN st : st[n] \in JobId
  OBVIOUS
<1> QED BY <1>1 DEF StoricoFedeleDi, Conserva

\* Pruning conserves conclusions.
LEMMA PotaConserva ==
  ASSUME NEW jobs \in [JobId -> JobRec]
  PROVE  Conserva(jobs, Pota(jobs))
BY PotatoNonRianima DEF Conserva, Pota

\* So does moving to another state, after pruning, a job that is neither
\* concluded nor removed.
LEMMA CambioConserva ==
  ASSUME NEW jobs \in [JobId -> JobRec], NEW jobs2 \in [JobId -> JobRec], NEW j \in JobId,
         ~Concluso(jobs[j]), jobs[j].stato # "potato", ~Concluso(jobs2[j]),
         \A k \in JobId \ {j} : jobs2[k].stato = jobs[k].stato
  PROVE  Conserva(jobs, jobs2)
BY DEF Conserva, Concluso

LEMMA ConservaTransitivo ==
  ASSUME NEW a, NEW b, NEW c, Conserva(a, b), Conserva(b, c)
  PROVE  Conserva(a, c)
BY DEF Conserva

\* Concluding a job that the history does not hold, and recording it.
LEMMA ConclusioneRegistrata ==
  ASSUME NEW jobs, NEW jobs2, NEW st \in Seq(JobId), NEW j \in JobId,
         StoricoFedeleDi(jobs, st), Len(st) <= MaxStorico,
         ~Concluso(jobs[j]), jobs[j].stato # "potato", Concluso(jobs2[j]),
         \A k \in JobId \ {j} : jobs2[k] = jobs[k]
  PROVE  StoricoFedeleDi(jobs2, Coda(Append(st, j), MaxStorico))
<1> DEFINE s == Append(st, j)
           t == Coda(s, MaxStorico)
<1>0. MaxStorico \in Nat /\ MaxStorico >= 1
  BY ImageQueueAssumption
<1>1. /\ s \in Seq(JobId) /\ Len(s) = Len(st) + 1 /\ Len(st) \in Nat
      /\ \A n \in 1..Len(st) : s[n] = st[n]
      /\ s[Len(st) + 1] = j
  OBVIOUS
<1>2. \A n \in 1..Len(st) : st[n] \in JobId /\ st[n] # j
  BY DEF StoricoFedeleDi
<1>3. \A m, n \in 1..Len(s) : s[m] = s[n] => m = n
  <2>1. \A m, n \in 1..Len(st) : st[m] = st[n] => m = n
    BY DEF StoricoFedeleDi
  <2> QED BY <1>1, <1>2, <2>1
<1>4. \A n \in 1..Len(s) : Concluso(jobs2[s[n]]) \/ jobs2[s[n]].stato = "potato"
  <2>1. \A n \in 1..Len(st) : Concluso(jobs[st[n]]) \/ jobs[st[n]].stato = "potato"
    BY DEF StoricoFedeleDi
  <2> QED BY <1>1, <1>2, <2>1
<1>5. CASE Len(s) <= MaxStorico
  <2>1. t = s /\ DOMAIN s = 1..Len(s)
    BY <1>1, <1>5 DEF Coda
  <2>2. \A k \in JobId : Concluso(jobs2[k]) => \E n \in DOMAIN s : s[n] = k
    <3> SUFFICES ASSUME NEW k \in JobId, Concluso(jobs2[k]) PROVE \E n \in 1..Len(s) : s[n] = k
      BY <2>1
    <3>1. CASE k = j
      BY <1>1, <3>1
    <3>2. CASE k # j
      <4>1. \E n \in 1..Len(st) : st[n] = k
        BY <1>0, <1>1, <1>5, <3>2 DEF StoricoFedeleDi
      <4> QED BY <1>1, <4>1
    <3> QED BY <3>1, <3>2
  <2> QED BY <1>3, <1>4, <2>1, <2>2 DEF StoricoFedeleDi
<1>6. CASE ~(Len(s) <= MaxStorico)
  <2> DEFINE d == Len(s) - MaxStorico
  <2>1. /\ d \in Nat /\ Len(t) = MaxStorico /\ DOMAIN t = 1..MaxStorico
        /\ \A n \in 1..MaxStorico : n + d \in 1..Len(s) /\ t[n] = s[n + d]
    <3> HIDE DEF s
    <3>1. MaxStorico < Len(s) /\ Len(s) \in Nat /\ t \in Seq(JobId)
      BY <1>0, <1>1, <1>6, CodaTipo DEF t
    <3>2. Len(t) = MaxStorico /\ \A n \in 1..MaxStorico : t[n] = s[n + d]
      BY <1>0, <1>1, <3>1, CodaElementi DEF t, d
    <3> QED BY <1>0, <3>1, <3>2 DEF d
  <2> HIDE DEF s, t, d
  <2>2. \A m, n \in 1..MaxStorico : t[m] = t[n] => m = n
    BY <1>0, <1>3, <2>1
  <2>3. \A n \in 1..MaxStorico : Concluso(jobs2[t[n]]) \/ jobs2[t[n]].stato = "potato"
    <3> TAKE n \in 1..MaxStorico
    <3>1. t[n] = s[n + d] /\ n + d \in 1..Len(s)
      BY <2>1
    <3> QED BY <1>4, <3>1
  <2>4. StoricoFedeleDi(jobs2, t)
    BY <2>1, <2>2, <2>3 DEF StoricoFedeleDi
  <2> QED BY <2>4 DEF s, t
<1> QED BY <1>5, <1>6

\* What a save may leave in the file is faithful when the queue is.
LEMMA StoricoScritto ==
  ASSUME InvStorico, NEW jobs, NEW st, StoricoFedeleDi(jobs, st), Len(st) <= MaxStorico
  PROVE  \A d \in Scritture(jobs, st) \union PotaEScrive(jobs, st) :
           StoricoFedeleDi(d.job, d.storico) /\ Len(d.storico) <= MaxStorico
<1>1. StoricoFedeleDi(Pota(job), storico)
  BY PotaConserva, StoricoConservato DEF InvStorico, TypeOK
<1> QED BY <1>1 DEF InvStorico, Scritture, PotaEScrive, Immagine

LEMMA InvStoricoInit == Init => InvStorico
<1> SUFFICES ASSUME Init PROVE InvStorico
  OBVIOUS
<1>1. \A j \in JobId : ~Concluso(job[j])
  BY DEF Init, Vuoto, Concluso
<1>2. StoricoFedeleDi(job, <<>>) /\ Len(<<>>) <= MaxStorico
  BY <1>1, ImageQueueAssumption DEF StoricoFedeleDi
<1>3. storico = <<>> /\ disco.job = job /\ disco.storico = storico
  BY DEF Init, Immagine
<1> QED BY <1>2, <1>3, TypeOKInit DEF InvStorico

LEMMA InvStoricoNext == InvStorico /\ [Next]_qvars => InvStorico'
<1> SUFFICES ASSUME InvStorico, [Next]_qvars PROVE InvStorico'
  OBVIOUS
<1>0. /\ job \in [JobId -> JobRec] /\ storico \in Seq(JobId) /\ disco \in DiscoRec
      /\ StoricoFedeleDi(job, storico) /\ Len(storico) <= MaxStorico
      /\ Pota(job) \in [JobId -> JobRec] /\ Conserva(job, Pota(job)) /\ TypeOK'
  BY PotaTipo, PotaConserva, TypeOKNext DEF InvStorico, TypeOK, DiscoRec
<1>00. job' \in [JobId -> JobRec]
  BY <1>0 DEF TypeOK
<1>1. ASSUME NEW j \in JobId, Accoda(j) PROVE InvStorico'
  <2>1. /\ Pota(job)[j].stato = "mai"
        /\ job' = [Pota(job) EXCEPT ![j].stato = "pending"]
    BY <1>0, <1>1 DEF Accoda, Nuovo, Pota, Potato, Attivo, Concluso
  <2>2. job'[j].stato = "pending" /\ \A k \in JobId \ {j} : job'[k].stato = Pota(job)[k].stato
    BY <1>0, <2>1 DEF JobRec
  <2>3. Conserva(Pota(job), job')
    BY <1>0, <1>00, <2>1, <2>2, CambioConserva DEF Concluso
  <2>4. StoricoFedeleDi(job', storico)
    BY <1>0, <2>3, ConservaTransitivo, StoricoConservato
  <2> QED BY <1>0, <1>1, <2>4, StoricoScritto DEF Accoda, Nuovo, InvStorico
<1>2. CASE Legge
  <2>1. StoricoFedeleDi(job', storico)
    BY <1>0, <1>2, StoricoConservato DEF Legge
  <2> QED BY <1>0, <1>2, <2>1, StoricoScritto DEF Legge, InvStorico
<1>3. ASSUME NEW caps, NEW j \in JobId, Prossimo(caps, j) PROVE InvStorico'
  <2>1. /\ Pota(job)[j].stato = "pending"
        /\ job' = [Pota(job) EXCEPT ![j] = [@ EXCEPT !.stato = "running", !.presa = 0]]
    BY <1>3 DEF Prossimo, PiuVecchi, Candidati
  <2>2. job'[j].stato = "running" /\ \A k \in JobId \ {j} : job'[k].stato = Pota(job)[k].stato
    BY <1>0, <2>1 DEF JobRec
  <2>3. Conserva(Pota(job), job')
    BY <1>0, <1>00, <2>1, <2>2, CambioConserva DEF Concluso
  <2>4. StoricoFedeleDi(job', storico)
    BY <1>0, <2>3, ConservaTransitivo, StoricoConservato
  <2> QED BY <1>0, <1>3, <2>4, StoricoScritto DEF Prossimo, InvStorico
<1>4. ASSUME NEW j \in JobId, NEW ok \in BOOLEAN, Concludi(j, ok) PROVE InvStorico'
  <2>1. /\ ~Concluso(job[j]) /\ job[j].stato # "potato"
        /\ Concluso(job'[j]) /\ \A k \in JobId \ {j} : job'[k] = job[k]
    BY <1>0, <1>4 DEF Concludi, Attivo, Concluso, JobRec
  <2>2. StoricoFedeleDi(job', storico')
    BY <1>0, <1>4, <2>1, ConclusioneRegistrata DEF Concludi
  <2>3. Append(storico, j) \in Seq(JobId) /\ MaxStorico \in Nat
    BY <1>0, ImageQueueAssumption
  <2>4. Len(storico') <= MaxStorico
    BY <1>4, <2>3, CodaTipo DEF Concludi
  <2> QED BY <1>0, <1>4, <2>2, <2>4, StoricoScritto DEF Concludi, InvStorico
<1>5. ASSUME NEW j \in JobId, Rinvia(j) PROVE InvStorico'
  <2>1. job'[j].stato = "pending" /\ \A k \in JobId \ {j} : job'[k].stato = job[k].stato
    BY <1>0, <1>5 DEF Rinvia, JobRec
  <2>2. Conserva(job, job')
    BY <1>0, <1>00, <1>5, <2>1, CambioConserva DEF Concluso, Rinvia
  <2>3. StoricoFedeleDi(job', storico)
    BY <1>0, <2>2, StoricoConservato
  <2> QED BY <1>0, <1>5, <2>3, StoricoScritto DEF Rinvia, InvStorico
<1>6. ASSUME NEW j \in JobId, Consegnato(j) PROVE InvStorico'
  <2>1. \A k \in JobId : job'[k].stato = job[k].stato
    BY <1>0, <1>6 DEF Consegnato, JobRec
  <2>2. Conserva(job, job')
    BY <2>1 DEF Conserva, Concluso
  <2>3. StoricoFedeleDi(job', storico)
    BY <1>0, <2>2, StoricoConservato
  <2> QED BY <1>0, <1>6, <2>3, StoricoScritto DEF Consegnato, InvStorico
<1>7. CASE Riavvia
  <2>1. Conserva(disco.job, job')
    <3> SUFFICES ASSUME NEW k \in JobId
                 PROVE  /\ Concluso(job'[k]) => Concluso(disco.job[k])
                        /\ Concluso(disco.job[k]) \/ disco.job[k].stato = "potato"
                             => Concluso(job'[k]) \/ job'[k].stato = "potato"
      BY DEF Conserva
    <3>1. \/ job'[k] = Rimosso(job[k])
          \/ job'[k] = Potato(disco.job[k])
      BY <1>7 DEF Riavvia, Ripreso
    <3>2. job[k] \in JobRec /\ disco.job[k] \in JobRec
      BY <1>0 DEF DiscoRec
    <3> QED BY <3>1, <3>2, RimossoInattivo, PotatoNonRianima
  <2>2. storico' = disco.storico /\ disco.storico \in Seq(JobId)
    BY <1>0, <1>7 DEF Riavvia, DiscoRec
  <2>3. StoricoFedeleDi(job', storico') /\ Len(storico') <= MaxStorico
    BY <2>1, <2>2, StoricoConservato DEF InvStorico
  <2> QED BY <1>0, <1>7, <2>3, StoricoScritto DEF Riavvia, InvStorico
<1>8. CASE RiavviaSenzaFile
  <2>1. \A k \in JobId : ~Concluso(job'[k])
    <3> SUFFICES ASSUME NEW k \in JobId PROVE ~Concluso(job'[k])
      OBVIOUS
    <3>1. \/ job'[k] = Rimosso(job[k])
          \/ job[k].stato = "mai" /\ job'[k] = job[k]
      BY <1>8 DEF RiavviaSenzaFile
    <3> QED BY <1>0, <3>1, RimossoInattivo DEF Concluso
  <2>2. StoricoFedeleDi(job', <<>>) /\ Len(<<>>) <= MaxStorico
    BY <2>1, ImageQueueAssumption DEF StoricoFedeleDi
  <2> QED BY <1>0, <1>8, <2>2 DEF RiavviaSenzaFile, InvStorico
<1>9. CASE Tick
  <2>1. /\ \A k \in JobId : job'[k].stato = job[k].stato
        /\ \A k \in JobId : disco'.job[k].stato = disco.job[k].stato
        /\ disco'.storico = disco.storico /\ storico' = storico
    BY <1>0, <1>9, InvecchiaTipo DEF Tick, Invecchiati, DiscoRec
  <2>2. Conserva(job, job') /\ Conserva(disco.job, disco'.job)
    BY <2>1 DEF Conserva, Concluso
  <2> QED BY <1>0, <2>1, <2>2, StoricoConservato DEF InvStorico, DiscoRec
<1>10. CASE UNCHANGED qvars
  BY <1>10, <1>0 DEF qvars, InvStorico, StoricoFedeleDi
<1> QED BY <1>1, <1>2, <1>3, <1>4, <1>5, <1>6, <1>7, <1>8, <1>9, <1>10 DEF Next, Restore

\* The history holds no job twice, only concluded jobs, and all the concluded
\* ones that newer ones did not push out: also after a restart on a file that
\* some saves never reached.
THEOREM StoricoSempreFedele == Spec => []StoricoFedele
<1>1. InvStorico => StoricoFedele
  BY DEF InvStorico, StoricoFedele
<1> QED BY <1>1, InvStoricoInit, InvStoricoNext, PTL DEF Spec

-----------------------------------------------------------------------------
(* A file that can always be written: what it holds is the queue itself.      *)

InvFile == TypeOK /\ disco = Immagine(job, storico)

\* On such a disk a save leaves the queue in the file, and nothing else.
LEMMA ScrittureAffidabili ==
  ASSUME DiscoFallibile = FALSE, NEW jobs, NEW st
  PROVE  /\ Scritture(jobs, st) = {Immagine(jobs, st)}
         /\ PotaEScrive(jobs, st) = {Immagine(jobs, st)}
BY DEF Scritture, PotaEScrive

LEMMA InvFileInit == Init => InvFile
BY TypeOKInit DEF Init, InvFile

LEMMA InvFileNext ==
  ASSUME DiscoFallibile = FALSE
  PROVE  InvFile /\ [Next]_qvars => InvFile'
<1> SUFFICES ASSUME InvFile, [Next]_qvars PROVE InvFile'
  OBVIOUS
<1>0. TypeOK' /\ disco = Immagine(job, storico)
  BY TypeOKNext DEF InvFile
<1>00. /\ Scritture(job', storico') = {Immagine(job', storico')}
       /\ PotaEScrive(job', storico') = {Immagine(job', storico')}
  BY ScrittureAffidabili
<1>1. ASSUME NEW j \in JobId, Accoda(j) PROVE InvFile'
  BY <1>0, <1>1, <1>00 DEF Accoda, Nuovo, InvFile
<1>2. CASE Legge
  BY <1>0, <1>2, <1>00 DEF Legge, InvFile
<1>3. ASSUME NEW caps, NEW j \in JobId, Prossimo(caps, j) PROVE InvFile'
  BY <1>0, <1>3, <1>00 DEF Prossimo, InvFile
<1>4. ASSUME NEW j \in JobId, NEW ok \in BOOLEAN, Concludi(j, ok) PROVE InvFile'
  BY <1>0, <1>4, <1>00 DEF Concludi, InvFile
<1>5. ASSUME NEW j \in JobId, Rinvia(j) PROVE InvFile'
  BY <1>0, <1>5, <1>00 DEF Rinvia, InvFile
<1>6. ASSUME NEW j \in JobId, Consegnato(j) PROVE InvFile'
  BY <1>0, <1>6, <1>00 DEF Consegnato, InvFile
<1>7. CASE Riavvia
  BY <1>0, <1>7, <1>00 DEF Riavvia, InvFile
<1>8. CASE RiavviaSenzaFile
  BY <1>8 DEF RiavviaSenzaFile
<1>9. CASE Tick
  BY <1>0, <1>9 DEF Tick, InvFile, Immagine
<1>10. CASE UNCHANGED qvars
  BY <1>0, <1>10 DEF qvars, InvFile, Immagine
<1> QED BY <1>1, <1>2, <1>3, <1>4, <1>5, <1>6, <1>7, <1>8, <1>9, <1>10 DEF Next, Restore

\* A restart is then a pruning.
LEMMA RiavviaPota ==
  ASSUME InvFile, Riavvia
  PROVE  job' = Pota(job)
BY DEF InvFile, Riavvia, Ripreso, Immagine, Pota

\* A pruned record stays, or loses a lapsed claim, or is an old one that vanishes.
LEMMA PotatoEsiti ==
  ASSUME NEW r \in JobRec
  PROVE  /\ \/ Potato(r) = r
            \/ r.stato = "running" /\ r.presa > ClaimTtl /\ Potato(r).stato = "pending"
            \/ r.stato # "mai" /\ r.eta > Ttl /\ Potato(r).stato = "potato"
         /\ Potato(r).eta = r.eta /\ Potato(r).consegnato = r.consegnato
<1>1. CASE (Attivo(r) \/ Concluso(r)) /\ r.eta > Ttl
  <2>1. Potato(r) = [r EXCEPT !.stato = "potato", !.presa = 0]
    BY <1>1 DEF Potato, Rimosso
  <2> QED BY <1>1, <2>1 DEF Attivo, Concluso, JobRec
<1>2. CASE ~((Attivo(r) \/ Concluso(r)) /\ r.eta > Ttl)
           /\ r.stato = "running" /\ r.presa > ClaimTtl
  <2>1. Potato(r) = [r EXCEPT !.stato = "pending", !.presa = 0]
    BY <1>2 DEF Potato
  <2> QED BY <1>2, <2>1 DEF JobRec
<1>3. CASE /\ ~((Attivo(r) \/ Concluso(r)) /\ r.eta > Ttl)
           /\ ~(r.stato = "running" /\ r.presa > ClaimTtl)
  BY <1>3 DEF Potato
<1> QED BY <1>1, <1>2, <1>3

\* Every step of the queue keeps the acknowledgements of deliveries.
LEMMA ConsegnaPasso ==
  ASSUME DiscoFallibile = FALSE, InvFile, [Next]_qvars
  PROVE  \A j \in JobId : job[j].consegnato => job'[j].consegnato
<1>0. job \in [JobId -> JobRec]
  BY DEF InvFile, TypeOK
<1>00. \A k \in JobId : Pota(job)[k].consegnato = job[k].consegnato
  BY <1>0, PotatoEsiti DEF Pota
<1> SUFFICES ASSUME NEW k \in JobId, job[k].consegnato PROVE job'[k].consegnato
  OBVIOUS
<1>1. ASSUME NEW j \in JobId, Accoda(j) PROVE job'[k].consegnato
  BY <1>0, <1>00, <1>1, PotaTipo DEF Accoda, Nuovo, JobRec
<1>2. CASE Legge
  BY <1>00, <1>2 DEF Legge
<1>3. ASSUME NEW caps, NEW j \in JobId, Prossimo(caps, j) PROVE job'[k].consegnato
  BY <1>0, <1>00, <1>3, PotaTipo DEF Prossimo, JobRec
<1>4. ASSUME NEW j \in JobId, NEW ok \in BOOLEAN, Concludi(j, ok) PROVE job'[k].consegnato
  BY <1>0, <1>4 DEF Concludi, JobRec
<1>5. ASSUME NEW j \in JobId, Rinvia(j) PROVE job'[k].consegnato
  BY <1>0, <1>5 DEF Rinvia, JobRec
<1>6. ASSUME NEW j \in JobId, Consegnato(j) PROVE job'[k].consegnato
  BY <1>0, <1>6 DEF Consegnato, JobRec
<1>7. CASE Riavvia
  BY <1>00, <1>7, RiavviaPota
<1>8. CASE RiavviaSenzaFile
  BY <1>8 DEF RiavviaSenzaFile
<1>9. CASE Tick
  BY <1>0, <1>9 DEF Tick, Invecchiati, Invecchia, JobRec
<1>10. CASE UNCHANGED qvars
  BY <1>10 DEF qvars
<1> QED BY <1>1, <1>2, <1>3, <1>4, <1>5, <1>6, <1>7, <1>8, <1>9, <1>10 DEF Next, Restore

\* An acknowledged delivery is never forgotten, restarts included, as long as
\* the file can be written.
THEOREM ConsegnaMaiDimenticata ==
  ASSUME DiscoFallibile = FALSE
  PROVE  Spec => ConsegnaRicordata
<1>1. InvFile /\ [Next]_qvars => [\A j \in JobId : job[j].consegnato => job'[j].consegnato]_qvars
  BY ConsegnaPasso
<1> QED BY <1>1, InvFileInit, InvFileNext, PTL DEF Spec, ConsegnaRicordata

\* Every step leaves a live claim alone, or is the end of it that is allowed.
LEMMA ClaimPasso ==
  ASSUME DiscoFallibile = FALSE, InvFile, [Next]_qvars,
         NEW k \in JobId, job[k].stato = "running", job[k].presa <= ClaimTtl
  PROVE  \/ job'[k].stato = "running" /\ job'[k].presa >= job[k].presa
         \/ \E ok \in BOOLEAN : Concludi(k, ok)
         \/ Rinvia(k)
         \/ job'[k].stato = "potato" /\ job[k].eta > Ttl
<1> DEFINE Bene == \/ job'[k].stato = "running" /\ job'[k].presa >= job[k].presa
                   \/ \E ok \in BOOLEAN : Concludi(k, ok)
                   \/ Rinvia(k)
                   \/ job'[k].stato = "potato" /\ job[k].eta > Ttl
<1>0. /\ job \in [JobId -> JobRec] /\ Pota(job) \in [JobId -> JobRec]
      /\ job[k] \in JobRec /\ job[k].presa \in 0..ClaimTtl + 1 /\ ClaimTtl \in Nat
  BY PotaTipo, ImageQueueAssumption DEF InvFile, TypeOK, JobRec
<1>00. ~(job[k].presa > ClaimTtl)
  BY <1>0
<1>01. \/ Pota(job)[k] = job[k]
       \/ Pota(job)[k].stato = "potato" /\ job[k].eta > Ttl
  BY <1>0, <1>00, PotatoEsiti DEF Pota
<1>02. job'[k] = job[k] => Bene
  BY <1>0
<1>03. job'[k] = Pota(job)[k] => Bene
  BY <1>01, <1>02
<1> SUFFICES Bene
  OBVIOUS
<1> HIDE DEF Bene
<1>1. ASSUME NEW j \in JobId, Accoda(j) PROVE Bene
  <2>1. j # k
    BY <1>1 DEF Accoda, Nuovo
  <2> QED BY <1>0, <1>03, <1>1, <2>1 DEF Accoda, Nuovo
<1>2. CASE Legge
  BY <1>03, <1>2 DEF Legge
<1>3. ASSUME NEW caps, NEW j \in JobId, Prossimo(caps, j) PROVE Bene
  <2>1. j # k
    BY <1>01, <1>3 DEF Prossimo, PiuVecchi, Candidati
  <2> QED BY <1>0, <1>03, <1>3, <2>1 DEF Prossimo
<1>4. ASSUME NEW j \in JobId, NEW ok \in BOOLEAN, Concludi(j, ok) PROVE Bene
  <2>1. CASE j = k
    BY <1>4, <2>1 DEF Bene
  <2>2. CASE j # k
    BY <1>0, <1>02, <1>4, <2>2 DEF Concludi
  <2> QED BY <2>1, <2>2
<1>5. ASSUME NEW j \in JobId, Rinvia(j) PROVE Bene
  <2>1. CASE j = k
    BY <1>5, <2>1 DEF Bene
  <2>2. CASE j # k
    BY <1>0, <1>02, <1>5, <2>2 DEF Rinvia
  <2> QED BY <2>1, <2>2
<1>6. ASSUME NEW j \in JobId, Consegnato(j) PROVE Bene
  <2>1. j # k
    BY <1>6 DEF Consegnato
  <2> QED BY <1>0, <1>02, <1>6, <2>1 DEF Consegnato
<1>7. CASE Riavvia
  BY <1>03, <1>7, RiavviaPota
<1>8. CASE RiavviaSenzaFile
  BY <1>8 DEF RiavviaSenzaFile
<1>9. CASE Tick
  <2>1. job'[k] = Invecchia(job[k])
    BY <1>9 DEF Tick, Invecchiati
  <2>2. job'[k].stato = "running"
    BY <1>0, <2>1, InvecchiaTipo
  <2>3. job'[k].presa = Sale(job[k].presa, ClaimTtl + 1)
    BY <1>0, <2>1 DEF Invecchia, JobRec
  <2>4. job'[k].presa >= job[k].presa
    BY <1>0, <2>3 DEF Sale
  <2> QED BY <2>2, <2>4 DEF Bene
<1>10. CASE UNCHANGED qvars
  BY <1>02, <1>10 DEF qvars
<1> QED BY <1>1, <1>2, <1>3, <1>4, <1>5, <1>6, <1>7, <1>8, <1>9, <1>10 DEF Next, Restore

\* A claim that has not lapsed ends only by its bridge's report or deferral, or
\* by the age of the job: no other bridge and no restart takes it.
THEOREM ClaimRispettato ==
  ASSUME DiscoFallibile = FALSE
  PROVE  Spec => ClaimVivoResta
<1> DEFINE Passo == \A j \in JobId :
             job[j].stato = "running" /\ job[j].presa <= ClaimTtl =>
               \/ job'[j].stato = "running" /\ job'[j].presa >= job[j].presa
               \/ \E ok \in BOOLEAN : Concludi(j, ok)
               \/ Rinvia(j)
               \/ job'[j].stato = "potato" /\ job[j].eta > Ttl
<1>1. InvFile /\ [Next]_qvars => Passo
  BY ClaimPasso
<1> HIDE DEF Passo
<1>2. Spec => [][Passo]_qvars
  BY <1>1, InvFileInit, InvFileNext, PTL DEF Spec
<1> QED BY <1>2 DEF Passo, ClaimVivoResta

-----------------------------------------------------------------------------
(* The queue implements JobLifecycle. *)

LEMMA FaseEsiti ==
  ASSUME NEW r \in JobRec
  PROVE  /\ FaseDi(r) = "nuovo" <=> r.stato = "mai"
         /\ FaseDi(r) = "atteso" <=> r.stato = "pending"
         /\ FaseDi(r) = "preso" <=> r.stato = "running"
         /\ FaseDi(r) = "riuscito" <=> r.stato = "done"
         /\ FaseDi(r) = "fallito" <=> r.stato = "failed"
         /\ FaseDi(r) = "svanito" <=> r.stato = "potato"
<1>1. r.stato \in Stati
  BY DEF JobRec
<1> QED BY <1>1 DEF FaseDi, Stati

\* Pruning, seen from the abstract queue.
LEMMA PotaDecade ==
  ASSUME job \in [JobId -> JobRec], NEW k \in JobId, job'[k] = Potato(job[k])
  PROVE  Ciclo!Decade(k) /\ job'[k].eta = job[k].eta
<1>1. job[k] \in JobRec /\ job'[k] \in JobRec
  BY PotatoTipo
<1>2. \/ FaseDi(job'[k]) = FaseDi(job[k])
      \/ FaseDi(job[k]) = "preso" /\ FaseDi(job'[k]) = "atteso"
      \/ FaseDi(job[k]) # "nuovo" /\ job[k].eta > Ttl /\ FaseDi(job'[k]) = "svanito"
  BY <1>1, PotatoEsiti, FaseEsiti
<1> QED BY <1>1, <1>2, PotatoEsiti DEF Ciclo!Decade

LEMMA CicloInit == Init => Ciclo!Init
<1>1. FaseDi(Vuoto) = "nuovo"
  BY DEF FaseDi, Vuoto
<1> QED BY <1>1 DEF Init, Ciclo!Init, Vuoto

\* Each operation is a step of the abstract queue.
LEMMA CicloPasso ==
  ASSUME DiscoFallibile = FALSE, InvFile, InvTetto', [Next]_qvars
  PROVE  [Ciclo!Next]_Ciclo!lvars
<1>0. /\ job \in [JobId -> JobRec] /\ Pota(job) \in [JobId -> JobRec]
      /\ job' \in [JobId -> JobRec]
  BY PotaTipo DEF InvFile, InvTetto, TypeOK
<1>00. ASSUME job' = Pota(job) PROVE Ciclo!Lascia
  <2>1. \A k \in JobId : Ciclo!Decade(k) /\ job'[k].eta = job[k].eta
    BY <1>0, <1>00, PotaDecade DEF Pota
  <2> QED BY <2>1 DEF Ciclo!Lascia
<1>1. ASSUME NEW j \in JobId, Accoda(j) PROVE Ciclo!Accetta(j)
  <2>1. /\ job[j].stato = "mai" /\ job'[j].stato = "pending"
        /\ job'[j].eta = Pota(job)[j].eta
        /\ \A k \in JobId \ {j} : job'[k] = Potato(job[k])
    BY <1>0, <1>1 DEF Accoda, Nuovo, Pota, JobRec
  <2>2. FaseDi(job[j]) = "nuovo" /\ FaseDi(job'[j]) = "atteso"
    BY <1>0, <2>1, FaseEsiti
  <2>3. \A k \in JobId \ {j} : Ciclo!Decade(k) /\ job'[k].eta = job[k].eta
    BY <1>0, <2>1, PotaDecade
  <2>4. job'[j].eta = job[j].eta
    BY <1>0, <2>1, PotatoEsiti DEF Pota
  <2>5. AttiviDi(job') = {k \in JobId : FaseDi(job'[k]) \in {"atteso", "preso"}}
    BY <1>0, FaseEsiti DEF AttiviDi, Attivo
  <2>6. Cardinality({k \in JobId : FaseDi(job'[k]) \in {"atteso", "preso"}}) <= MaxJobs
    BY <2>5 DEF InvTetto, EntroTetto
  <2>7. Ciclo!InCorso([k \in JobId |-> FaseDi(job'[k])])
          = {k \in JobId : FaseDi(job'[k]) \in {"atteso", "preso"}}
    BY DEF Ciclo!InCorso
  <2>8. \A S : Ciclo!Cardinality(S) = Cardinality(S)
    BY DEF Cardinality, Ciclo!Cardinality
  <2>9. Ciclo!Cardinality(Ciclo!InCorso([k \in JobId |-> FaseDi(job'[k])])) <= MaxJobs
    BY <2>6, <2>7, <2>8
  <2>10. \A k \in JobId : job'[k].eta = job[k].eta
    BY <2>3, <2>4
  <2> QED BY <2>2, <2>3, <2>9, <2>10 DEF Ciclo!Accetta, Ciclo!GliAltri
<1>2. CASE Legge
  BY <1>00, <1>2 DEF Legge, Ciclo!Next
<1>3. ASSUME NEW caps, NEW j \in JobId, Prossimo(caps, j) PROVE Ciclo!Affida(j)
  <2>1. /\ Potato(job[j]).stato = "pending" /\ job'[j].stato = "running"
        /\ job'[j].eta = Pota(job)[j].eta
        /\ \A k \in JobId \ {j} : job'[k] = Potato(job[k])
    BY <1>0, <1>3 DEF Prossimo, PiuVecchi, Candidati, Pota, JobRec
  <2>2. job[j].stato \in {"pending", "running"}
    BY <1>0, <2>1, PotatoEsiti
  <2>3. FaseDi(job[j]) \in {"atteso", "preso"} /\ FaseDi(job'[j]) = "preso"
    BY <1>0, <2>1, <2>2, FaseEsiti
  <2>4. \A k \in JobId \ {j} : Ciclo!Decade(k) /\ job'[k].eta = job[k].eta
    BY <1>0, <2>1, PotaDecade
  <2>5. job'[j].eta = job[j].eta
    BY <1>0, <2>1, PotatoEsiti DEF Pota
  <2>6. \A k \in JobId : job'[k].eta = job[k].eta
    BY <2>4, <2>5
  <2> QED BY <2>3, <2>4, <2>6 DEF Ciclo!Affida, Ciclo!GliAltri
<1>4. ASSUME NEW j \in JobId, NEW ok \in BOOLEAN, Concludi(j, ok) PROVE Ciclo!Chiude(j)
  <2>1. /\ job[j].stato \in {"pending", "running"} /\ job'[j].stato \in {"done", "failed"}
        /\ job'[j].eta = job[j].eta
        /\ \A k \in JobId \ {j} : job'[k] = job[k]
    BY <1>0, <1>4 DEF Concludi, Attivo, JobRec
  <2>2. FaseDi(job[j]) \in {"atteso", "preso"} /\ FaseDi(job'[j]) \in {"riuscito", "fallito"}
    BY <1>0, <2>1, FaseEsiti
  <2>3. \A k \in JobId : job'[k].eta = job[k].eta
    BY <2>1
  <2> QED BY <2>1, <2>2, <2>3 DEF Ciclo!Chiude
<1>5. ASSUME NEW j \in JobId, Rinvia(j) PROVE Ciclo!Lascia
  <2>1. /\ job[j].stato = "running" /\ job'[j].stato = "pending" /\ job'[j].eta = job[j].eta
        /\ \A k \in JobId \ {j} : job'[k] = job[k]
    BY <1>0, <1>5 DEF Rinvia, JobRec
  <2>2. FaseDi(job[j]) = "preso" /\ FaseDi(job'[j]) = "atteso"
    BY <1>0, <2>1, FaseEsiti
  <2>3. \A k \in JobId : job'[k].eta = job[k].eta
    BY <2>1
  <2> QED BY <2>1, <2>2, <2>3 DEF Ciclo!Lascia, Ciclo!Decade
<1>6. ASSUME NEW j \in JobId, Consegnato(j) PROVE Ciclo!Lascia
  <2>1. \A k \in JobId : job'[k].stato = job[k].stato /\ job'[k].eta = job[k].eta
    BY <1>0, <1>6 DEF Consegnato, JobRec
  <2>2. \A k \in JobId : FaseDi(job'[k]) = FaseDi(job[k])
    BY <2>1 DEF FaseDi
  <2> QED BY <2>1, <2>2 DEF Ciclo!Lascia, Ciclo!Decade
<1>7. CASE Riavvia
  BY <1>00, <1>7, RiavviaPota DEF Ciclo!Next
<1>8. CASE RiavviaSenzaFile
  BY <1>8 DEF RiavviaSenzaFile
<1>9. CASE Tick
  <2>1. \A k \in JobId : job'[k] = Invecchia(job[k])
    BY <1>9 DEF Tick, Invecchiati
  <2>2. \A k \in JobId : job'[k].stato = job[k].stato
    BY <1>0, <2>1, InvecchiaTipo
  <2>3. \A k \in JobId : FaseDi(job'[k]) = FaseDi(job[k])
    BY <2>2 DEF FaseDi
  <2>4. ASSUME NEW k \in JobId PROVE job'[k].eta >= job[k].eta
    <3>1. job[k] \in JobRec /\ job[k].eta \in 0..Ttl + 1 /\ Ttl \in Nat
      BY <1>0, ImageQueueAssumption DEF JobRec
    <3>2. job'[k].eta \in {job[k].eta, Sale(job[k].eta, Ttl + 1)}
      BY <2>1, <3>1 DEF Invecchia, JobRec
    <3> QED BY <3>1, <3>2 DEF Sale
  <2>5. [k \in JobId |-> FaseDi(job'[k])] = [k \in JobId |-> FaseDi(job[k])]
    BY <2>3
  <2>6. Ciclo!Invecchia
    BY <2>4, <2>5 DEF Ciclo!Invecchia
  <2> QED BY <2>6 DEF Ciclo!Next
<1>10. CASE UNCHANGED qvars
  BY <1>10 DEF qvars, Ciclo!lvars
<1> QED BY <1>1, <1>2, <1>3, <1>4, <1>5, <1>6, <1>7, <1>8, <1>9, <1>10 DEF Next, Restore, Ciclo!Next

\* Every run of the queue on a disk that can be written is a run of JobLifecycle.
THEOREM CodaImplementaCiclo ==
  ASSUME DiscoFallibile = FALSE
  PROVE  Spec => ImplementaCiclo
<1>1. InvFile /\ InvTetto' /\ [Next]_qvars => [Ciclo!Next]_Ciclo!lvars
  BY CicloPasso
<1> QED BY <1>1, CicloInit, InvFileInit, InvFileNext, InvTettoInit, InvTettoNext, PTL
        DEF Spec, ImplementaCiclo, Ciclo!Spec

=============================================================================
