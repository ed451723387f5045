------------------------------ MODULE NodeSlots ------------------------------
(***************************************************************************)
(* The slots of a node: _AdaptiveLoadLimiter in src/node/main.py, used by  *)
(* the handlers of the requests, by the QoS loop and by the dream worker   *)
(* (src/node/dreaming.py).                                                 *)
(*                                                                         *)
(* Everything runs on one asyncio loop (Python 3.11, node/Dockerfile), so  *)
(* an action is the code between two points where a coroutine really       *)
(* suspends.  The asyncio lock is fair and handed over: it is the queue    *)
(* fila, whose head holds it.  wait_for runs the condition's wait in a     *)
(* task of its own, with the lock held by the request: the first test is a *)
(* step of its own, and so is what follows a test that succeeded.          *)
(*                                                                         *)
(* in_flight is compared with a float; posti is the capacity rounded up,   *)
(* which admits the same requests, and halving or adding one commutes with *)
(* the rounding.  Dreams run only on an Ollama node, where the capacity is *)
(* fixed; only an inference server adapts it.                              *)
(***************************************************************************)
EXTENDS Integers, Sequences, FiniteSets

CONSTANTS
  Richiesta,     \* foreground requests; each may come again and again
  Motori,        \* the backends a node may have: a subset of {"ollama", "vllm"}
  Seed, Minimo, Massimo,   \* LOAD_SEED_, LOAD_MIN_ and LOAD_MAX_CONCURRENCY
  Quiete,        \* idle_seconds, in units of time
  Intervallo,    \* interval between two attempts to dream, in units of time
  MaxMemoria     \* bound: how often the node's memories change

ASSUME NodeSlotsAssumption ==
  /\ IsFiniteSet(Richiesta) /\ Motori \subseteq {"ollama", "vllm"}
  /\ {Seed, Minimo, Massimo} \subseteq Nat \ {0} /\ Minimo <= Seed /\ Seed <= Massimo
  /\ Quiete \in Nat \ {0} /\ Intervallo \in Nat \ {0} /\ MaxMemoria \in Nat

Qos == "qos"
Sognatore == "sognatore"

ASSUME AttoriDistinti == Qos \notin Richiesta /\ Sognatore \notin Richiesta

VARIABLES
  motore,      \* the backend of this node
  posti,       \* capacity, rounded up
  degradato,   \* degraded
  inVolo,      \* _in_flight
  inCoda,      \* _queued
  fila,        \* who holds the lock and who waits for it, in this order
  req,         \* [Richiesta -> where the request is]
  sogno,       \* [pc, memoria]: where the dream worker is, what it dreams about
  quiete,      \* time since idle_since, up to Quiete
  tentativo,   \* time since last_attempt, up to Intervallo
  memoria,     \* the version of the node's memories
  impronta,    \* the version in the state file (fingerprint), 0 if none
  diario,      \* [version -> dreams of it in the journal, 2 for more than one]
  tagliati     \* history: the versions whose state was not saved after the journal

slotvars == <<posti, degradato, inVolo, inCoda, fila, req>>
filevars == <<impronta, diario, tagliati>>
vars == <<motore, slotvars, sogno, quiete, tentativo, memoria, filevars>>

Sequenziale == motore = "ollama"

\* after acquire() has counted the request, until it stops counting it
Accodate == {"prova", "attesa", "notificata", "rientra", "ottiene", "scade"}
Luoghi == Accodate \union {"fuori", "porta", "dentro", "rilascia"}

Versioni == 0..MaxMemoria

Ha(a) == fila # <<>> /\ Head(fila) = a

Aspetta(a) == \E n \in DOMAIN fila : fila[n] = a

Va(r, luogo) == req' = [req EXCEPT ![r] = luogo]

Init ==
  /\ motore \in Motori
  /\ posti = (IF Sequenziale THEN 1 ELSE Seed)
  /\ degradato = FALSE /\ inVolo = 0 /\ inCoda = 0 /\ fila = <<>>
  /\ req = [r \in Richiesta |-> "fuori"]
  /\ sogno = [pc |-> "fermo", memoria |-> 0]
  /\ quiete = 0 /\ tentativo = Intervallo
  /\ memoria = 0 /\ impronta = 0
  /\ diario = [v \in Versioni |-> 0] /\ tagliati = {}

-----------------------------------------------------------------------------
(* acquire, by a handler.  The last argument is the lock queue, r at its head. *)

\* from the lock to the call of wait_for
Acquisisce(r, coda) ==
  IF degradato
  THEN Va(r, "fuori") /\ fila' = Tail(coda) /\ UNCHANGED inCoda
  ELSE Va(r, "prova") /\ fila' = coda /\ inCoda' = inCoda + 1

\* the condition's test: a free slot, or wait without the lock
Verifica(r, coda) ==
  IF inVolo < posti
  THEN Va(r, "ottiene") /\ fila' = coda
  ELSE Va(r, "attesa") /\ fila' = Tail(coda)

\* Mutant of Interrotto: a dream is cancelled only for a request that must wait.
InterrottoSePieno == IF fila # <<>> /\ sogno.pc = "genera" THEN [sogno EXCEPT !.pc = "annullato"] ELSE sogno

\* interrupt: cancel a generation that is not done
Interrotto == IF sogno.pc = "genera" THEN [sogno EXCEPT !.pc = "annullato"] ELSE sogno

\* Mutant of Arriva: interrupt does not restart the idle time.
ArrivaSenzaQuiete(r) ==
  /\ req[r] = "fuori"
  /\ sogno' = Interrotto
  /\ \/ fila = <<>> /\ Acquisisce(r, <<r>>)
     \/ fila # <<>> /\ Va(r, "porta") /\ fila' = Append(fila, r) /\ UNCHANGED inCoda
  /\ UNCHANGED <<motore, posti, degradato, inVolo, quiete, tentativo, memoria, filevars>>

\* _try_acquire_slot: interrupt the dream, then acquire
Arriva(r) ==
  /\ req[r] = "fuori"
  /\ sogno' = Interrotto /\ quiete' = 0
  /\ \/ fila = <<>> /\ Acquisisce(r, <<r>>)
     \/ fila # <<>> /\ Va(r, "porta") /\ fila' = Append(fila, r) /\ UNCHANGED inCoda
  /\ UNCHANGED <<motore, posti, degradato, inVolo, tentativo, memoria, filevars>>

EntraPorta(r) ==
  /\ req[r] = "porta" /\ Ha(r)
  /\ Acquisisce(r, fila)
  /\ UNCHANGED <<motore, posti, degradato, inVolo, sogno, quiete, tentativo, memoria, filevars>>

Prova(r) ==
  /\ req[r] = "prova" /\ Ha(r)
  /\ Verifica(r, fila)
  /\ UNCHANGED <<motore, posti, degradato, inVolo, inCoda, sogno, quiete, tentativo, memoria, filevars>>

\* woken by notify_all, the wait takes the lock again and tests again
Sveglia(r) ==
  /\ req[r] = "notificata"
  /\ \/ fila = <<>> /\ Verifica(r, <<r>>)
     \/ fila # <<>> /\ Va(r, "rientra") /\ fila' = Append(fila, r)
  /\ UNCHANGED <<motore, posti, degradato, inVolo, inCoda, sogno, quiete, tentativo, memoria, filevars>>

Rientra(r) ==
  /\ req[r] = "rientra" /\ Ha(r)
  /\ Verifica(r, fila)
  /\ UNCHANGED <<motore, posti, degradato, inVolo, inCoda, sogno, quiete, tentativo, memoria, filevars>>

\* acquire returns True
Ottiene(r) ==
  /\ req[r] = "ottiene" /\ Ha(r)
  /\ inCoda' = inCoda - 1 /\ inVolo' = inVolo + 1
  /\ fila' = Tail(fila) /\ Va(r, "dentro")
  /\ UNCHANGED <<motore, posti, degradato, sogno, quiete, tentativo, memoria, filevars>>

\* the queue without a, who may stand there once
Senza(coda, a) ==
  IF \E n \in DOMAIN coda : coda[n] = a
  THEN LET k == CHOOSE n \in DOMAIN coda : coda[n] = a
       IN [n \in 1..(Len(coda) - 1) |-> IF n < k THEN coda[n] ELSE coda[n + 1]]
  ELSE coda

\* The timeout of wait_for cancels a wait that has not ended; a wait that stands
\* in the queue of the lock leaves its place there.
Scade(r) ==
  /\ req[r] \in {"attesa", "notificata", "rientra"}
  /\ Va(r, "scade")
  /\ fila' = Senza(fila, r)
  /\ UNCHANGED <<motore, posti, degradato, inVolo, inCoda, sogno, quiete, tentativo, memoria, filevars>>

\* the cancelled wait takes the lock before it ends
Annulla(r) ==
  /\ req[r] = "scade" /\ ~Aspetta(r)
  /\ fila' = Append(fila, r)
  /\ UNCHANGED <<motore, posti, degradato, inVolo, inCoda, req, sogno, quiete, tentativo, memoria, filevars>>

\* Mutant of Rinuncia: the queue's counter is not given back.
RinunciaContata(r) ==
  /\ req[r] = "scade" /\ Ha(r)
  /\ fila' = Tail(fila) /\ Va(r, "fuori")
  /\ UNCHANGED <<motore, posti, degradato, inVolo, inCoda, sogno, quiete, tentativo, memoria, filevars>>

\* Mutant of Rinuncia: the lock is kept.
RinunciaColLucchetto(r) ==
  /\ req[r] = "scade" /\ Ha(r)
  /\ inCoda' = inCoda - 1 /\ Va(r, "fuori")
  /\ UNCHANGED <<motore, posti, degradato, inVolo, fila, sogno, quiete, tentativo, memoria, filevars>>

\* acquire returns False: 503, node_busy_timeout
Rinuncia(r) ==
  /\ req[r] = "scade" /\ Ha(r)
  /\ inCoda' = inCoda - 1
  /\ fila' = Tail(fila) /\ Va(r, "fuori")
  /\ UNCHANGED <<motore, posti, degradato, inVolo, sogno, quiete, tentativo, memoria, filevars>>

-----------------------------------------------------------------------------
(* release *)

Meno(n) == IF n = 0 THEN 0 ELSE n - 1

\* Mutant of Notifica: one waiter is woken, and it may be one that gave up.
NotificaUna(luoghi) ==
  IF \E q \in Richiesta : luoghi[q] \in {"attesa", "scade"}
  THEN LET q == CHOOSE q \in Richiesta : luoghi[q] \in {"attesa", "scade"} IN
         [luoghi EXCEPT ![q] = IF @ = "attesa" THEN "notificata" ELSE @]
  ELSE luoghi

\* notify_all
Notifica(luoghi) ==
  [q \in Richiesta |-> IF luoghi[q] = "attesa" THEN "notificata" ELSE luoghi[q]]

\* the model has answered, or failed
Finisce(r) ==
  /\ req[r] = "dentro"
  /\ \/ fila = <<>> /\ inVolo' = Meno(inVolo) /\ req' = Notifica([req EXCEPT ![r] = "fuori"])
                    /\ UNCHANGED fila
     \/ fila # <<>> /\ Va(r, "rilascia") /\ fila' = Append(fila, r) /\ UNCHANGED inVolo
  /\ UNCHANGED <<motore, posti, degradato, inCoda, sogno, quiete, tentativo, memoria, filevars>>

Rilascia(r) ==
  /\ req[r] = "rilascia" /\ Ha(r)
  /\ inVolo' = Meno(inVolo)
  /\ req' = Notifica([req EXCEPT ![r] = "fuori"]) /\ fila' = Tail(fila)
  /\ UNCHANGED <<motore, posti, degradato, inCoda, sogno, quiete, tentativo, memoria, filevars>>

-----------------------------------------------------------------------------
(* apply_qos, by the QoS loop *)

\* Mutant of Applica: the capacity grows without its maximum.
ApplicaSenzaMassimo ==
  /\ degradato' \in BOOLEAN
  /\ posti' \in {posti, posti + 1}

\* Uncalibrated references and the band between healthy and degraded leave the
\* capacity alone.
Applica ==
  /\ degradato' \in BOOLEAN
  /\ \/ posti' = posti
     \/ ~Sequenziale /\ degradato' /\ posti' = (IF (posti + 1) \div 2 > Minimo THEN (posti + 1) \div 2 ELSE Minimo)
     \/ ~Sequenziale /\ ~degradato' /\ posti' = (IF posti < Massimo THEN posti + 1 ELSE Massimo)

\* Mutant of ApplicaQos: the state is set without the lock.
ApplicaQosSubito ==
  /\ ~Aspetta(Qos)
  /\ Applica /\ UNCHANGED fila
  /\ UNCHANGED <<motore, inVolo, inCoda, req, sogno, quiete, tentativo, memoria, filevars>>

ApplicaQos ==
  /\ ~Aspetta(Qos)
  /\ \/ fila = <<>> /\ Applica /\ UNCHANGED fila
     \/ fila # <<>> /\ fila' = Append(fila, Qos) /\ UNCHANGED <<posti, degradato>>
  /\ UNCHANGED <<motore, inVolo, inCoda, req, sogno, quiete, tentativo, memoria, filevars>>

ApplicaQosDopo ==
  /\ Ha(Qos)
  /\ Applica /\ fila' = Tail(fila)
  /\ UNCHANGED <<motore, inVolo, inCoda, req, sogno, quiete, tentativo, memoria, filevars>>

-----------------------------------------------------------------------------
(* DreamWorker.tick *)

Riposo == inVolo = 0 /\ inCoda = 0 /\ ~degradato

\* a tick that finds the node busy
TickOccupato ==
  /\ Sequenziale /\ sogno.pc = "fermo" /\ ~Riposo
  /\ quiete' = 0
  /\ UNCHANGED <<motore, slotvars, sogno, tentativo, memoria, filevars>>

\* The node has been idle long enough and there is something new to dream about:
\* acquire_idle, and the generation starts.  The lock is free (LucchettoLibero).
TickSogna ==
  /\ Sequenziale /\ sogno.pc = "fermo" /\ Riposo /\ fila = <<>>
  /\ quiete = Quiete /\ tentativo = Intervallo
  /\ memoria # impronta
  /\ inVolo' = inVolo + 1 /\ tentativo' = 0
  /\ sogno' = [pc |-> "genera", memoria |-> memoria]
  /\ UNCHANGED <<motore, posti, degradato, inCoda, fila, req, quiete, memoria, filevars>>

\* The generation ends, and the tick has not resumed yet: too late to cancel it.
SognoGenerato ==
  /\ sogno.pc = "genera"
  /\ sogno' = [sogno EXCEPT !.pc = "finito"]
  /\ UNCHANGED <<motore, slotvars, quiete, tentativo, memoria, filevars>>

\* finally: the slot is given back, the idle time starts again
SognoRilascia ==
  /\ \/ fila = <<>> /\ inVolo' = Meno(inVolo) /\ req' = Notifica(req) /\ quiete' = 0
                    /\ sogno' = [sogno EXCEPT !.pc = "fermo"] /\ UNCHANGED fila
     \/ fila # <<>> /\ fila' = Append(fila, Sognatore) /\ sogno' = [sogno EXCEPT !.pc = "rilascia"]
                    /\ UNCHANGED <<inVolo, req, quiete>>
  /\ UNCHANGED <<motore, posti, degradato, inCoda, tentativo, memoria>>

Annota(v) == [diario EXCEPT ![v] = IF @ = 2 THEN 2 ELSE @ + 1]

\* a reflection: first the journal, then the state file
SognoRiesce ==
  /\ sogno.pc = "finito"
  /\ diario' = Annota(sogno.memoria) /\ impronta' = sogno.memoria
  /\ UNCHANGED tagliati
  /\ SognoRilascia

\* interrupted, timed out, failed or empty
SognoFallisce ==
  /\ sogno.pc \in {"genera", "annullato", "finito"}
  /\ UNCHANGED filevars
  /\ SognoRilascia

SognoRilasciaDopo ==
  /\ sogno.pc = "rilascia" /\ Ha(Sognatore)
  /\ fila' = Tail(fila) /\ inVolo' = Meno(inVolo) /\ req' = Notifica(req)
  /\ quiete' = 0 /\ sogno' = [sogno EXCEPT !.pc = "fermo"]
  /\ UNCHANGED <<motore, posti, degradato, inCoda, tentativo, memoria, filevars>>

-----------------------------------------------------------------------------
(* The rest of the world. *)

NuovaMemoria ==
  /\ memoria < MaxMemoria
  /\ memoria' = memoria + 1
  /\ UNCHANGED <<motore, slotvars, sogno, quiete, tentativo, filevars>>

\* A unit of time is longer than what the loop does at once and than the longest
\* wait for a slot (10 s; idle_seconds is at least 30).
Tempo ==
  /\ fila = <<>> /\ \A r \in Richiesta : req[r] \in {"fuori", "dentro"}
  /\ sogno.pc \in {"fermo", "genera"}
  /\ quiete' = (IF quiete < Quiete THEN quiete + 1 ELSE Quiete)
  /\ tentativo' = (IF tentativo < Intervallo THEN tentativo + 1 ELSE Intervallo)
  /\ UNCHANGED <<motore, slotvars, sogno, memoria, filevars>>

Riparte ==
  /\ posti' = (IF Sequenziale THEN 1 ELSE Seed)
  /\ degradato' = FALSE /\ inVolo' = 0 /\ inCoda' = 0 /\ fila' = <<>>
  /\ req' = [r \in Richiesta |-> "fuori"]
  /\ sogno' = [pc |-> "fermo", memoria |-> 0] /\ quiete' = 0
  /\ UNCHANGED <<motore, tentativo, memoria>>

\* Mutant of Cade: the worker starts without its state file.
CadeSenzaStato ==
  /\ Riparte
  /\ impronta' = 0
  /\ UNCHANGED <<diario, tagliati>>

\* The node dies, perhaps between the journal and the state file; the worker
\* reads its state file when it starts again.
Cade ==
  /\ Riparte
  /\ UNCHANGED impronta
  /\ \/ UNCHANGED <<diario, tagliati>>
     \/ /\ sogno.pc = "finito"
        /\ diario' = Annota(sogno.memoria) /\ tagliati' = tagliati \union {sogno.memoria}

Passo(r) ==
  \/ EntraPorta(r) \/ Prova(r) \/ Sveglia(r) \/ Rientra(r) \/ Ottiene(r)
  \/ Annulla(r) \/ Rinuncia(r) \/ Rilascia(r)

Next ==
  \/ \E r \in Richiesta : Arriva(r) \/ Passo(r) \/ Scade(r) \/ Finisce(r)
  \/ ApplicaQos \/ ApplicaQosDopo
  \/ TickOccupato \/ TickSogna \/ SognoGenerato
  \/ SognoRiesce \/ SognoFallisce \/ SognoRilasciaDopo
  \/ NuovaMemoria \/ Tempo \/ Cade

Spec == Init /\ [][Next]_vars

\* The loop runs every coroutine that is ready, and timers fire.  Nothing is
\* assumed of the models: a request inside may never end.
FairSpec ==
  /\ Spec
  /\ \A r \in Richiesta : WF_vars(Passo(r)) /\ WF_vars(Scade(r))
  /\ WF_vars(ApplicaQosDopo) /\ WF_vars(SognoRilasciaDopo)

-----------------------------------------------------------------------------
(* Properties. *)

TypeOK ==
  /\ motore \in Motori /\ posti \in Minimo..Massimo \union {1} /\ degradato \in BOOLEAN
  /\ inVolo \in Nat /\ inCoda \in Nat
  /\ fila \in Seq(Richiesta \union {Qos, Sognatore})
  /\ req \in [Richiesta -> Luoghi]
  /\ sogno \in [pc : {"fermo", "genera", "finito", "annullato", "rilascia"}, memoria : Versioni]
  /\ quiete \in 0..Quiete /\ tentativo \in 0..Intervallo
  /\ memoria \in Versioni /\ impronta \in Versioni
  /\ diario \in [Versioni -> 0..2] /\ tagliati \subseteq Versioni

In(luoghi) == {r \in Richiesta : req[r] \in luoghi}

\* No slot and no place in the queue is lost or invented, whatever timeouts,
\* releases, interruptions and restarts meet: a slot lost on a sequential node
\* would stop it for good, a place lost in the queue would stop its dreams.
PostiContati ==
  /\ inCoda = Cardinality(In(Accodate))
  /\ inVolo = Cardinality(In({"dentro", "rilascia"}))
                + (IF sogno.pc # "fermo" THEN 1 ELSE 0)

\* "Il lavoro in primo piano ha sempre priorita'" (docs/dreams.md): while a
\* request waits for the lock or for a slot, no dream is generating: none goes on
\* and none starts.
SognoCede == In(Accodate \union {"porta"}) # {} => sogno.pc # "genera"

\* A node that counts as idle for a dream has its lock free: a request that still
\* stands there came after the idle time began.  So acquire_idle never waits, and
\* no request can come between its test and the start of the generation.
LucchettoLibero == quiete = Quiete /\ Riposo => fila = <<>>

\* Nobody is admitted beyond the capacity of that moment, although the capacity
\* may collapse between the test and the admission of a waiting request.
AmmissioneEntroPosti == inVolo' > inVolo => inVolo' <= posti

\* A request sleeps beside a free slot only after the capacity has grown
\* (apply_qos wakes nobody): no release is ever missed.
Dorme == In({"attesa"}) # {} /\ inVolo < posti

NessunRisveglioPerso == Dorme' => Dorme \/ posti' > posti

\* "deduplica gli input con un'impronta persistente" (docs/dreams.md): the same
\* memories are dreamt once, across interruptions, failures and restarts, unless
\* the node died between the journal and the state file.
SognatoUnaVolta == \A v \in Versioni : diario[v] = 2 => v \in tagliati

\* The slots of a node are counted, and its dreams respect its requests and its
\* memories (_AdaptiveLoadLimiter of node/main.py, node/dreaming.py).
NodoOrdinato == PostiContati /\ SognoCede /\ LucchettoLibero /\ SognatoUnaVolta

\* No step admits beyond the capacity or misses a release.
PassiAmmessi == [][AmmissioneEntroPosti /\ NessunRisveglioPerso]_vars

\* Every request is admitted or told that the node is busy, even when the
\* requests inside never end.
RispostaSempre ==
  \A r \in Richiesta :
    req[r] \in Accodate \union {"porta"} ~> req[r] \in {"dentro", "fuori"}

=============================================================================
