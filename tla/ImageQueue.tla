---------------------------- MODULE ImageQueue ----------------------------
(***************************************************************************)
(* The image job queue of the control plane: class ImmagineQueue in        *)
(* src/shared/image_jobs.py.  Clients pull: a bridge claims the oldest     *)
(* pending job it is able to render (prossimo), reports the outcome        *)
(* (concludi) or hands the claim back (rinvia); a channel driver confirms  *)
(* the delivery of a finished image (consegnato).  A claim is a lease: it  *)
(* lapses after ClaimTtl.  Every mutation is saved to a JSON file before   *)
(* the queue's lock is released, and the constructor reads it back.        *)
(*                                                                         *)
(* Every method body runs under self._lock, so each method is one action.  *)
(* The code stores the times of creation and of claim and compares ages;   *)
(* the model stores the ages, in memory and in the file alike, each capped *)
(* one above the bound it is compared with.                                *)
(* The family of a request is a constant function of the job id.  Ids are  *)
(* fresh uuids, so an id is enqueued at most once.                         *)
(***************************************************************************)
EXTENDS Integers, Sequences, FiniteSets

CONSTANTS
  JobId,              \* the ids of all requests that are ever made
  FamigliaDi,         \* [JobId -> family]: the model family a request declares
  MaxJobs,            \* max_jobs: bound on pending + running jobs
  Ttl,                \* ttl_s: age, since creation, after which a job is dropped
  ClaimTtl,           \* claim_ttl_s: age after which a claim lapses
  MaxStorico,         \* length of the history of concluded jobs (20 in the code)
  DiscoFallibile      \* whether opening the state file may raise OSError

ASSUME ImageQueueAssumption ==
  /\ IsFiniteSet(JobId)
  /\ MaxJobs \in Nat \ {0}
  /\ Ttl \in Nat /\ ClaimTtl \in Nat
  /\ MaxStorico \in Nat \ {0}
  /\ DiscoFallibile \in BOOLEAN

VARIABLES
  job,      \* self._job: for every id its record ("mai": never enqueued,
            \* "potato": no longer in the dictionary)
  storico,  \* self._storico: the ids of the last concluded jobs
  disco     \* the content of the state file

qvars == <<job, storico, disco>>

Stati == {"mai", "pending", "running", "done", "failed", "potato"}

\* eta: age since creation; presa: age of the claim
JobRec == [stato : Stati, eta : 0..Ttl + 1, presa : 0..ClaimTtl + 1, consegnato : BOOLEAN]

Attivo(r) == r.stato \in {"pending", "running"}

Concluso(r) == r.stato \in {"done", "failed"}

Vuoto == [stato |-> "mai", eta |-> 0, presa |-> 0, consegnato |-> FALSE]

\* A record leaves the dictionary; what is known of its delivery is kept as history.
Rimosso(r) == [r EXCEPT !.stato = "potato", !.presa = 0]

\* Mutant of Potato: an old job is deleted only once it is concluded.
PotatoSoloConclusi(r) ==
  IF Concluso(r) /\ r.eta > Ttl THEN Rimosso(r) ELSE r

\* _pota_locked on one record: an old job is deleted, a lapsed claim is freed.
Potato(r) ==
  IF (Attivo(r) \/ Concluso(r)) /\ r.eta > Ttl THEN Rimosso(r)
  ELSE IF r.stato = "running" /\ r.presa > ClaimTtl
       THEN [r EXCEPT !.stato = "pending", !.presa = 0]
       ELSE r

Pota(jobs) == [j \in JobId |-> Potato(jobs[j])]

Immagine(jobs, st) == [job |-> jobs, storico |-> st]

\* The possible contents of the file after _save_locked: an OSError leaves the
\* previous file and only warns.
Scritture(jobs, st) ==
  {Immagine(jobs, st)} \union (IF DiscoFallibile THEN {disco} ELSE {})

\* The file after a method that prunes (and saves when that changed something)
\* and then saves its own change: either write may fail.
PotaEScrive(jobs, st) ==
  Scritture(jobs, st) \union
    (IF DiscoFallibile /\ Pota(job) # job THEN {Immagine(Pota(job), storico)} ELSE {})

-----------------------------------------------------------------------------
Init ==
  /\ job = [j \in JobId |-> Vuoto]
  /\ storico = <<>>
  /\ disco = Immagine(job, storico)

AttiviDi(jobs) == {j \in JobId : Attivo(jobs[j])}

\* nuovo_job: the record of an id that was never used becomes a request that waits.
\* Sizes, weights and file names are limited or refused there: what is refused has no id.
Nuovo(r) == [r EXCEPT !.stato = "pending"]

\* Mutant of Accoda: the jobs a bridge holds do not count.
AccodaContaPending(j) ==
  /\ job[j].stato = "mai"
  /\ Cardinality({k \in JobId : Pota(job)[k].stato = "pending"}) < MaxJobs
  /\ job' = [Pota(job) EXCEPT ![j] = Nuovo(@)]
  /\ disco' \in PotaEScrive(job', storico)
  /\ UNCHANGED storico

\* accoda below the ceiling
Accoda(j) ==
  /\ job[j].stato = "mai"
  /\ Cardinality(AttiviDi(Pota(job))) < MaxJobs
  /\ job' = [Pota(job) EXCEPT ![j] = Nuovo(@)]
  /\ disco' \in PotaEScrive(job', storico)
  /\ UNCHANGED storico

\* Methods that only prune: running_ids, ha_in_coda, da_consegnare, stato, and
\* accoda and prossimo when they end with "queue full" and "nothing to do".
Legge ==
  /\ job' = Pota(job)
  /\ IF job' = job THEN disco' = disco ELSE disco' \in Scritture(job', storico)
  /\ UNCHANGED storico

\* The jobs prossimo may return to a client able to render the families caps:
\* the pending ones of those families that no older one precedes.
Candidati(jobs, caps) == {j \in JobId : jobs[j].stato = "pending" /\ FamigliaDi[j] \in caps}

PiuVecchi(jobs, caps) ==
  {j \in Candidati(jobs, caps) :
     \A k \in Candidati(jobs, caps) : jobs[j].eta >= jobs[k].eta}

\* prossimo hands out job j: the claim starts now
Prossimo(caps, j) ==
  /\ j \in PiuVecchi(Pota(job), caps)
  /\ job' = [Pota(job) EXCEPT ![j] = [@ EXCEPT !.stato = "running", !.presa = 0]]
  /\ disco' \in PotaEScrive(job', storico)
  /\ UNCHANGED storico

Coda(s, n) == IF Len(s) <= n THEN s ELSE SubSeq(s, Len(s) - n + 1, Len(s))

\* Mutant of Concludi: a second report of the same job is taken like the first.
ConcludiDoppio(j, ok) ==
  /\ Attivo(job[j]) \/ Concluso(job[j])
  /\ job' = [job EXCEPT ![j] = [@ EXCEPT !.stato = IF ok THEN "done" ELSE "failed", !.presa = 0]]
  /\ storico' = Coda(Append(storico, j), MaxStorico)
  /\ disco' \in Scritture(job', storico')

\* Mutant of Concludi: the outcome is not saved.
ConcludiSenzaSalvare(j, ok) ==
  /\ Attivo(job[j])
  /\ job' = [job EXCEPT ![j] = [@ EXCEPT !.stato = IF ok THEN "done" ELSE "failed", !.presa = 0]]
  /\ storico' = Coda(Append(storico, j), MaxStorico)
  /\ UNCHANGED disco

\* concludi on a job not yet concluded; a job whose claim lapsed (pending) is
\* closed as well.  On any other id the method changes nothing.
Concludi(j, ok) ==
  /\ Attivo(job[j])
  /\ job' = [job EXCEPT ![j] = [@ EXCEPT !.stato = IF ok THEN "done" ELSE "failed", !.presa = 0]]
  /\ storico' = Coda(Append(storico, j), MaxStorico)
  /\ disco' \in Scritture(job', storico')

\* Mutant of Rinvia: a state that is none of STATI.
RinviaSospeso(j) ==
  /\ job[j].stato = "running"
  /\ job' = [job EXCEPT ![j] = [@ EXCEPT !.stato = "deferred", !.presa = 0]]
  /\ disco' \in Scritture(job', storico)
  /\ UNCHANGED storico

\* rinvia: back to the queue, the claim is given up
Rinvia(j) ==
  /\ job[j].stato = "running"
  /\ job' = [job EXCEPT ![j] = [@ EXCEPT !.stato = "pending", !.presa = 0]]
  /\ disco' \in Scritture(job', storico)
  /\ UNCHANGED storico

\* Mutant of Consegnato: the delivery is noted in memory only.
ConsegnatoSenzaSalvare(j) ==
  /\ job[j].stato = "done"
  /\ job' = [job EXCEPT ![j].consegnato = TRUE]
  /\ UNCHANGED <<storico, disco>>

\* consegnato: the driver's acknowledgement of a delivery
Consegnato(j) ==
  /\ job[j].stato = "done"
  /\ job' = [job EXCEPT ![j].consegnato = TRUE]
  /\ disco' \in Scritture(job', storico)
  /\ UNCHANGED storico

\* Mutant of Ripreso: a restart gives every claim back to the queue.
RipresoRimanda(j) ==
  IF disco.job[j].stato = "mai" /\ job[j].stato # "mai" THEN Rimosso(job[j])
  ELSE IF disco.job[j].stato = "running" THEN [disco.job[j] EXCEPT !.stato = "pending", !.presa = 0]
  ELSE Potato(disco.job[j])

\* The process dies and __init__ runs _restore.  Jobs the file never held are
\* gone; a file that cannot be read leaves an empty queue, and is not rewritten.
Ripreso(j) ==
  IF disco.job[j].stato = "mai" /\ job[j].stato # "mai"
  THEN Rimosso(job[j]) ELSE Potato(disco.job[j])

Riavvia ==
  /\ job' = [j \in JobId |-> Ripreso(j)]
  /\ storico' = disco.storico
  /\ disco' \in Scritture(job', storico')

RiavviaSenzaFile ==
  /\ DiscoFallibile
  /\ job' = [j \in JobId |-> IF job[j].stato = "mai" THEN job[j] ELSE Rimosso(job[j])]
  /\ storico' = <<>>
  /\ UNCHANGED disco

\* A restart reads the file or, where the disk fails, starts from nothing.
Restore == \E letto \in BOOLEAN : IF letto THEN Riavvia ELSE RiavviaSenzaFile

\* One unit of time: the ages of what memory and file hold grow.
Sale(n, tetto) == IF n < tetto THEN n + 1 ELSE n

Invecchia(r) ==
  [r EXCEPT !.eta = IF Attivo(r) \/ Concluso(r) THEN Sale(@, Ttl + 1) ELSE @,
            !.presa = IF r.stato = "running" THEN Sale(@, ClaimTtl + 1) ELSE @]

Invecchiati(jobs) == [j \in JobId |-> Invecchia(jobs[j])]

Tick ==
  /\ job' = Invecchiati(job)
  /\ disco' = [disco EXCEPT !.job = Invecchiati(@)]
  /\ UNCHANGED storico

Next ==
  \/ \E j \in JobId : Accoda(j)
  \/ Legge
  \/ \E caps \in SUBSET {FamigliaDi[k] : k \in JobId}, j \in JobId : Prossimo(caps, j)
  \/ \E j \in JobId, ok \in BOOLEAN : Concludi(j, ok)
  \/ \E j \in JobId : Rinvia(j)
  \/ \E j \in JobId : Consegnato(j)
  \/ Restore
  \/ Tick

Spec == Init /\ [][Next]_qvars

\* Time passes, and some client keeps asking: every poll of a bridge or of the
\* status page prunes first.
FairSpec == Spec /\ WF_qvars(Tick) /\ WF_qvars(Legge)

-----------------------------------------------------------------------------
(* Properties. *)

\* Every field of the queue and of its file keeps its type.
TypeOK ==
  /\ job \in [JobId -> JobRec]
  /\ storico \in Seq(JobId)
  /\ disco \in [job : [JobId -> JobRec], storico : Seq(JobId)]

\* At no time do more than max_jobs jobs wait or run, whatever mixture of lapsed
\* claims, deferrals, failed saves and restarts brought them back to the queue:
\* only accoda checks the ceiling, every other method must not raise the count.
AttiviEntroTetto == Cardinality(AttiviDi(job)) <= MaxJobs

\* The history holds no job twice, only jobs that were concluded, and every
\* concluded job still in the dictionary unless newer ones pushed it out.  It is
\* what concludi's answer "already concluded" to a retrying bridge rests on.
StoricoFedeleDi(jobs, st) ==
  /\ \A m, n \in DOMAIN st : st[m] = st[n] => m = n
  /\ \A n \in DOMAIN st : Concluso(jobs[st[n]]) \/ jobs[st[n]].stato = "potato"
  /\ \A j \in JobId : Concluso(jobs[j]) =>
        (\E n \in DOMAIN st : st[n] = j) \/ Len(st) = MaxStorico

StoricoFedele == StoricoFedeleDi(job, storico)

\* An acknowledged delivery is never forgotten, so the image is not sent again.
ConsegnaRicordata ==
  [][\A j \in JobId : job[j].consegnato => job'[j].consegnato]_qvars

\* A claim that has not lapsed is not taken away from its bridge and its age is
\* not reset: only the bridge's own report or deferral, or the age of the job,
\* ends it; no restart and no other client does.
ClaimVivoResta ==
  [][\A j \in JobId :
       job[j].stato = "running" /\ job[j].presa <= ClaimTtl =>
         \/ job'[j].stato = "running" /\ job'[j].presa >= job[j].presa
         \/ \E ok \in BOOLEAN : Concludi(j, ok)
         \/ Rinvia(j)
         \/ job'[j].stato = "potato" /\ job[j].eta > Ttl]_qvars

\* "un ponte morto a meta' non deve bloccare il lavoro per sempre" (docstring of
\* the class): an accepted job is concluded or dropped in the end, so a full
\* queue accepts again, even when no bridge ever reports, saves fail and the
\* process restarts again and again.
OgniJobFinisce == \A j \in JobId : Attivo(job[j]) ~> ~Attivo(job[j])

\* The queue implements the life of a job: the abstract phases and ages are
\* functions of the records.
FaseDi(r) ==
  CASE r.stato = "mai" -> "nuovo"
    [] r.stato = "pending" -> "atteso"
    [] r.stato = "running" -> "preso"
    [] r.stato = "done" -> "riuscito"
    [] r.stato = "failed" -> "fallito"
    [] r.stato = "potato" -> "svanito"

Ciclo == INSTANCE JobLifecycle WITH
  fase <- [j \in JobId |-> FaseDi(job[j])],
  eta <- [j \in JobId |-> job[j].eta]

\* Every run of the queue on a reliable disk, with its restarts, is a run of
\* JobLifecycle: a restart looks like claims coming back and old jobs vanishing.
ImplementaCiclo == Ciclo!Spec

\* "se il job scade prima del claim, il risultato si perde"
\* (tests/test_image_jobs.py, test_il_job_sopravvive_al_suo_claim; the comment on
\* the two times in image_jobs.py): a job outlives its claim, so no job is
\* pruned while the bridge that claimed it may still report the outcome.
JobSopravviveAlClaim ==
  [][\A j \in JobId :
       job[j].stato = "running" /\ job[j].presa <= ClaimTtl =>
         job'[j].stato # "potato"]_qvars

-----------------------------------------------------------------------------
(* A value of FamigliaDi for the model checker: one request is of the default *)
(* family, the others need a checkpoint model.                                *)
DueFamiglie == [j \in JobId |-> IF j = CHOOSE k \in JobId : TRUE THEN "qwen" ELSE "sdxl"]
=============================================================================
