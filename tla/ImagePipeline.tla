--------------------------- MODULE ImagePipeline ---------------------------
(***************************************************************************)
(* The queue and the memory gate with everything that calls them: the      *)
(* routes of src/control-plane/cp/immagini.py (a thread per request), the  *)
(* bridges (integrations/comfyui/comfy_bridge.py, one process per host),   *)
(* the chat requests and the restart of the control plane                  *)
(* (control-plane/main.py).                                                *)
(*                                                                         *)
(* A request is cut where its thread gives a lock up: between the claim    *)
(* and the reservation, between the outcome and the gate, before the side  *)
(* effects.  A reply may be lost at every point; the bridge then polls or  *)
(* reports again.  One tick is a third of the longest render: the requests *)
(* (at most 120 s) and the preparation of the memory end within a tick, a  *)
(* render within Esecuzione ticks, the report when the control plane       *)
(* answers.                                                                *)
(***************************************************************************)
EXTENDS Integers, Sequences, FiniteSets

CONSTANTS
  JobId, FamigliaDi, MaxJobs, Ttl, ClaimTtl, MaxStorico,           \* the queue
  Chat, Lease,                                                     \* the gate
  Ponte,               \* the bridges
  Capaci,              \* [Ponte -> set of families]: what each can render
  FamiglieCheckpoint,  \* FAMIGLIE_CHECKPOINT: the families that need the gate
  Esecuzione           \* the bridge's ceiling on one render (1800 s)

ASSUME ImagePipelineAssumption ==
  /\ IsFiniteSet(JobId) /\ MaxJobs \in Nat \ {0}
  /\ Ttl \in Nat /\ ClaimTtl \in Nat /\ MaxStorico \in Nat \ {0}
  /\ IsFiniteSet(Chat) /\ Lease \in Nat \ {0}
  /\ Esecuzione \in Nat

VARIABLES
  job, storico, disco,            \* the queue and its file
  owner, resto, chat, prenota,    \* the gate
  ponte,       \* [Ponte -> [pc, lavoro]]: what a bridge is doing, on which job
  durata,      \* [Ponte -> ticks since the render began]
  richiesta,   \* [JobId -> [fase, per]]: the /image/jobs thread that claimed the job
  rapporto,    \* [JobId -> [fase, per]]: the /image/result thread that concluded it
  effetti      \* [JobId -> how often its image was put in the diary and sent]

Q == INSTANCE ImageQueue WITH DiscoFallibile <- FALSE
G == INSTANCE ImageMemoryGate

ASSUME IdDistinti == G!Nessuno \notin JobId /\ G!CodaImmagini \notin JobId

codavars == <<job, storico, disco>>
gatevars == <<owner, resto, chat, prenota>>
threadvars == <<richiesta, rapporto, effetti>>
vars == <<codavars, gatevars, ponte, durata, threadvars>>

UsaCheckpoint(j) == FamigliaDi[j] \in FamiglieCheckpoint

FasiPonte == {"libero", "chiede", "prepara", "rende", "rinvia", "rinviato", "riferisce"}
FasiRichiesta == {"no", "claim", "gate", "rifiuto", "risposta"}
FasiRapporto == {"no", "coda", "continua", "libera", "effetti"}

NessunThread == [fase |-> "no"]
Fermo == [pc |-> "libero"]

In(p, fase) == ponte[p].pc = fase
Va(p, fase) == ponte' = [ponte EXCEPT ![p].pc = fase]
Smette(p) == ponte' = [ponte EXCEPT ![p] = Fermo]

Init ==
  /\ Q!Init /\ G!Init
  /\ ponte = [p \in Ponte |-> Fermo]
  /\ durata = [p \in Ponte |-> 0]
  /\ richiesta = [j \in JobId |-> NessunThread]
  /\ rapporto = [j \in JobId |-> NessunThread]
  /\ effetti = [j \in JobId |-> 0]

-----------------------------------------------------------------------------
(* Requests that touch the queue or the gate alone. *)

\* POST /image/generate, and every reading of the queue (status, polls that
\* find nothing, deliveries)
Coda ==
  /\ Q!Legge \/ \E j \in JobId : Q!Accoda(j)
  /\ UNCHANGED <<gatevars, ponte, durata, threadvars>>

\* /v1/chat/completions, around the handler
RichiestaChat ==
  /\ \E c \in Chat : G!EnterChat(c) \/ G!ChatSveglia(c) \/ G!ChatRinuncia(c) \/ G!LeaveChat(c)
  /\ UNCHANGED <<codavars, ponte, durata, threadvars>>

-----------------------------------------------------------------------------
(* GET /image/jobs: claim, then reserve the gate, then answer. *)

Chiede(p, j) ==
  /\ In(p, "libero")
  /\ Q!Prossimo(Capaci[p], j)
  /\ ponte' = [ponte EXCEPT ![p] = [pc |-> "chiede", lavoro |-> j]]
  /\ richiesta' = [richiesta EXCEPT
       ![j] = [fase |-> IF UsaCheckpoint(j) THEN "claim" ELSE "risposta", per |-> p]]
  /\ UNCHANGED <<gatevars, durata, rapporto, effetti>>

\* Mutant of PonteNonAspetta: the bridge that gives up also defers the job.
PonteNonAspettaRinvia(p) ==
  /\ In(p, "chiede")
  /\ IF job[ponte[p].lavoro].stato = "running" THEN Q!Rinvia(ponte[p].lavoro)
                                               ELSE UNCHANGED codavars
  /\ Smette(p)
  /\ UNCHANGED <<gatevars, durata, threadvars>>

\* the bridge waits 20 s for the answer, the server up to 120 s for the gate
PonteNonAspetta(p) ==
  /\ In(p, "chiede")
  /\ Smette(p)
  /\ UNCHANGED <<codavars, gatevars, durata, threadvars>>

Passa(j, fase) == richiesta' = [richiesta EXCEPT ![j].fase = fase]

\* Mutant of Riserva: the job is answered although its reservation was refused.
RiservaComunque(j) ==
  /\ richiesta[j].fase = "claim"
  /\ \/ G!ReserveRinnova(j) /\ Passa(j, "risposta")
     \/ G!ReserveRifiuta(j) /\ Passa(j, "risposta")
     \/ G!ReservePrende(j) /\ Passa(j, IF prenota'[j] = "attesa" THEN "gate" ELSE "risposta")
  /\ UNCHANGED <<codavars, ponte, durata, rapporto, effetti>>

Riserva(j) ==
  /\ richiesta[j].fase = "claim"
  /\ \/ G!ReserveRinnova(j) /\ Passa(j, "risposta")
     \/ G!ReserveRifiuta(j) /\ Passa(j, "rifiuto")
     \/ G!ReservePrende(j) /\ Passa(j, IF prenota'[j] = "attesa" THEN "gate" ELSE "risposta")
  /\ UNCHANGED <<codavars, ponte, durata, rapporto, effetti>>

RiservaAttende(j) ==
  /\ richiesta[j].fase = "gate"
  /\ \/ G!ReserveConcessa(j) /\ Passa(j, "risposta")
     \/ G!ReserveScaduta(j) /\ Passa(j, "rifiuto")
  /\ UNCHANGED <<codavars, ponte, durata, rapporto, effetti>>

\* The bridge still holds the connection of this request.
Aspetta(j) ==
  LET p == richiesta[j].per IN ponte[p] = [pc |-> "chiede", lavoro |-> j]

\* no memory: the job goes back, 503
Rifiuta(j) ==
  /\ richiesta[j].fase = "rifiuto"
  /\ IF job[j].stato = "running" THEN Q!Rinvia(j) ELSE UNCHANGED codavars
  /\ IF Aspetta(j) THEN Smette(richiesta[j].per) ELSE UNCHANGED ponte
  /\ richiesta' = [richiesta EXCEPT ![j] = NessunThread]
  /\ UNCHANGED <<gatevars, durata, rapporto, effetti>>

\* the job reaches the bridge, or nobody
Risponde(j) ==
  /\ richiesta[j].fase = "risposta"
  /\ IF Aspetta(j) THEN Va(richiesta[j].per, "prepara") ELSE UNCHANGED ponte
  /\ richiesta' = [richiesta EXCEPT ![j] = NessunThread]
  /\ UNCHANGED <<codavars, gatevars, durata, rapporto, effetti>>

-----------------------------------------------------------------------------
(* The bridge with its job: main, prepara_memoria_mac, esegui_job. *)

Rende(p) ==
  /\ In(p, "prepara")
  /\ Va(p, "rende")
  /\ durata' = [durata EXCEPT ![p] = 0]
  /\ UNCHANGED <<codavars, gatevars, threadvars>>

\* the memory could not be freed
NonPronto(p) ==
  /\ In(p, "prepara") /\ Capaci[p] \intersect FamiglieCheckpoint # {}
  /\ Va(p, "rinvia")
  /\ UNCHANGED <<codavars, gatevars, durata, threadvars>>

\* POST /image/defer: the gate, then the queue; the request may get lost before
\* the first of the two.
RinviaGate(p) ==
  /\ In(p, "rinvia")
  /\ G!ReleaseImage(ponte[p].lavoro)
  /\ Va(p, "rinviato")
  /\ UNCHANGED <<codavars, durata, threadvars>>

RinviaCoda(p) ==
  /\ In(p, "rinviato")
  /\ IF job[ponte[p].lavoro].stato = "running" THEN Q!Rinvia(ponte[p].lavoro)
                                               ELSE UNCHANGED codavars
  /\ Smette(p)
  /\ UNCHANGED <<gatevars, durata, threadvars>>

RinvioPerso(p) ==
  /\ In(p, "rinvia")
  /\ Smette(p)
  /\ UNCHANGED <<codavars, gatevars, durata, threadvars>>

\* an image, an error, or the ceiling of the render
FineRender(p) ==
  /\ In(p, "rende")
  /\ Va(p, "riferisce")
  /\ durata' = [durata EXCEPT ![p] = 0]
  /\ UNCHANGED <<codavars, gatevars, threadvars>>

-----------------------------------------------------------------------------
(* POST /image/result, sent again until it is answered. *)

Riferisce(p, ok) ==
  /\ In(p, "riferisce")
  /\ Q!Concludi(ponte[p].lavoro, ok)
  /\ rapporto' = [rapporto EXCEPT ![ponte[p].lavoro] = [fase |-> "coda", per |-> p]]
  /\ UNCHANGED <<gatevars, ponte, durata, richiesta, effetti>>

\* Mutant of RiferisceDoppione: the side effects run for a second report as well.
RiferisceDoppioneEffetti(p) ==
  /\ In(p, "riferisce") /\ ~Q!Attivo(job[ponte[p].lavoro])
  /\ rapporto[ponte[p].lavoro] = NessunThread
  /\ G!ReleaseImage(ponte[p].lavoro)
  /\ rapporto' = [rapporto EXCEPT ![ponte[p].lavoro] = [fase |-> "effetti", per |-> p]]
  /\ UNCHANGED <<codavars, ponte, durata, richiesta, effetti>>

\* already concluded (200) or unknown (404): both answers end the report,
\* unless they get lost
RiferisceDoppione(p) ==
  /\ In(p, "riferisce") /\ ~Q!Attivo(job[ponte[p].lavoro])
  /\ G!ReleaseImage(ponte[p].lavoro)
  /\ Smette(p) \/ UNCHANGED ponte
  /\ UNCHANGED <<codavars, durata, threadvars>>

Avanza(j, fase) == rapporto' = [rapporto EXCEPT ![j].fase = fase]

InCoda(jobs) == \E k \in JobId : jobs[k].stato = "pending" /\ UsaCheckpoint(k)

\* is there another image for the Mac?
RapportoCoda(j) ==
  /\ rapporto[j].fase = "coda"
  /\ IF UsaCheckpoint(j)
     THEN Q!Legge /\ Avanza(j, IF InCoda(job') THEN "continua" ELSE "libera")
     ELSE UNCHANGED codavars /\ Avanza(j, "libera")
  /\ UNCHANGED <<gatevars, ponte, durata, richiesta, effetti>>

RapportoGate(j) ==
  /\ \/ rapporto[j].fase = "continua" /\ G!ContinueImageQueue(j)
     \/ rapporto[j].fase = "libera" /\ G!ReleaseImage(j)
  /\ Avanza(j, "effetti")
  /\ UNCHANGED <<codavars, ponte, durata, richiesta, effetti>>

\* the diary, Instagram, and the answer to the bridge, which may get lost
RapportoEffetti(j) ==
  /\ rapporto[j].fase = "effetti"
  /\ effetti' = [effetti EXCEPT ![j] = @ + 1]
  /\ rapporto' = [rapporto EXCEPT ![j] = NessunThread]
  /\ LET p == rapporto[j].per IN
       \/ UNCHANGED ponte
       \/ ponte[p] = [pc |-> "riferisce", lavoro |-> j] /\ Smette(p)
  /\ UNCHANGED <<codavars, gatevars, durata, richiesta>>

-----------------------------------------------------------------------------
(* Crashes and time. *)

\* A bridge dies, and is started again.
CadePonte(p) ==
  /\ ~In(p, "libero")
  /\ Smette(p)
  /\ durata' = [durata EXCEPT ![p] = 0]
  /\ UNCHANGED <<codavars, gatevars, threadvars>>

\* The control plane dies with its threads and connections.  It reads the queue
\* back; the restored claims of checkpoint images reserve the new gate, and the
\* first of them gets it.
Restaurati == {j \in JobId : job'[j].stato = "running" /\ UsaCheckpoint(j)}

CadeControlPlane ==
  /\ Q!Riavvia
  /\ \E o \in IF Restaurati = {} THEN {G!Nessuno} ELSE Restaurati :
       /\ G!Assegna(o)
       /\ prenota' = [j \in JobId |-> IF j = o THEN "concessa" ELSE "no"]
  /\ chat' = [c \in Chat |-> "fuori"]
  /\ richiesta' = [j \in JobId |-> NessunThread]
  /\ rapporto' = [j \in JobId |-> NessunThread]
  /\ ponte' = [p \in Ponte |->
       IF ponte[p].pc \in {"chiede", "rinvia", "rinviato"} THEN Fermo ELSE ponte[p]]
  /\ UNCHANGED <<durata, effetti>>

\* Mutant of Tick: the bridge's render has no ceiling.
TickSenzaTetto ==
  /\ Q!Tick /\ G!Tick
  /\ \A j \in JobId : richiesta[j] = NessunThread /\ rapporto[j] = NessunThread
  /\ \A p \in Ponte : ponte[p].pc \in {"libero", "rende", "riferisce"}
  /\ durata' = [p \in Ponte |-> IF In(p, "rende") THEN durata[p] + 1 ELSE durata[p]]
  /\ UNCHANGED <<ponte, threadvars>>

Tick ==
  /\ Q!Tick /\ G!Tick
  /\ \A j \in JobId : richiesta[j] = NessunThread /\ rapporto[j] = NessunThread
  /\ \A p \in Ponte :
       /\ ponte[p].pc \in {"libero", "rende", "riferisce"}
       /\ In(p, "rende") => durata[p] < Esecuzione
  /\ durata' = [p \in Ponte |-> IF In(p, "rende") THEN durata[p] + 1 ELSE durata[p]]
  /\ UNCHANGED <<ponte, threadvars>>

Next ==
  \/ Coda
  \/ RichiestaChat
  \/ \E p \in Ponte, j \in JobId : Chiede(p, j)
  \/ \E j \in JobId : Riserva(j) \/ RiservaAttende(j) \/ Rifiuta(j) \/ Risponde(j)
  \/ \E p \in Ponte : PonteNonAspetta(p) \/ Rende(p) \/ NonPronto(p) \/ FineRender(p)
  \/ \E p \in Ponte : RinviaGate(p) \/ RinviaCoda(p) \/ RinvioPerso(p)
  \/ \E p \in Ponte, ok \in BOOLEAN : Riferisce(p, ok)
  \/ \E p \in Ponte : RiferisceDoppione(p)
  \/ \E j \in JobId : RapportoCoda(j) \/ RapportoGate(j) \/ RapportoEffetti(j)
  \/ \E p \in Ponte : CadePonte(p)
  \/ CadeControlPlane
  \/ Tick

Spec == Init /\ [][Next]_vars

\* The threads of a request run on, a bridge goes on with its loop (its HTTP
\* calls have timeouts and its render a ceiling), and time passes whenever it
\* can.  Nothing is assumed of clients, chats, polls or crashes.
Server(j) ==
  \/ Riserva(j) \/ RiservaAttende(j) \/ Rifiuta(j) \/ Risponde(j)
  \/ RapportoCoda(j) \/ RapportoGate(j) \/ RapportoEffetti(j)

Lavora(p) ==
  \/ PonteNonAspetta(p) \/ Rende(p) \/ FineRender(p)
  \/ RinviaGate(p) \/ RinviaCoda(p) \/ RinvioPerso(p)

FairSpec ==
  /\ Spec
  /\ \A j \in JobId : WF_vars(Server(j))
  /\ \A p \in Ponte : WF_vars(Lavora(p))
  /\ SF_vars(Tick)

-----------------------------------------------------------------------------
(* Properties. *)

TypeOK ==
  /\ Q!TypeOK /\ G!TypeOK
  /\ \A p \in Ponte :
       /\ ponte[p].pc \in FasiPonte
       /\ ~In(p, "libero") => ponte[p].lavoro \in JobId
       /\ durata[p] \in 0..Esecuzione
  /\ \A j \in JobId :
       /\ richiesta[j].fase \in FasiRichiesta
       /\ rapporto[j].fase \in FasiRapporto
       /\ effetti[j] \in Nat

\* Two bridges never render the same job at the same time: a claim lives longer
\* than the longest render, in spite of lost replies, restarts and deferrals.
NessunDoppioRender ==
  \A p, q \in Ponte :
    In(p, "rende") /\ In(q, "rende") /\ ponte[p].lavoro = ponte[q].lavoro => p = q

\* While a bridge renders a checkpoint image no chat is inside: the chat model
\* is not loaded again into the memory ComfyUI is using.  It is what the gate is
\* for (image_memory_gate.py:11-13), and more than it gives: a reservation is a lease.
MemoriaRiservata ==
  \A p \in Ponte :
    In(p, "rende") /\ UsaCheckpoint(ponte[p].lavoro) /\ job[ponte[p].lavoro].stato = "running"
      => G!Dentro = {}

\* What it gives: no chat is inside during the first lease of a render, however the
\* bridge gave up before, claims lapse, other jobs are released or the control plane
\* restarts in between; a render may last longer than its lease.
MemoriaRiservataEntroLease ==
  \A p \in Ponte :
    In(p, "rende") /\ durata[p] < Lease
      /\ UsaCheckpoint(ponte[p].lavoro) /\ job[ponte[p].lavoro].stato = "running"
      => G!Dentro = {}

\* The image of a job reaches the diary and Instagram at most once, whatever
\* reports are sent again and whatever restarts interrupt them.
EffettiUnaVolta ==
  \A j \in JobId : effetti[j] <= 1 /\ (effetti[j] = 1 => ~Q!Attivo(job[j]))

\* A steady stream of images keeps the gate shut, each handing it on to the next
\* (RapportoGate).  Nothing else does: once no more images are asked for the gate is
\* free again and again, although bridges die with a reservation, replies get lost,
\* every restart reserves the claims again and the gate is kept for a next image
\* that nobody fetches.
GateSiLibera ==
  <>[][~\E j \in JobId : Q!Accoda(j)]_vars => []<>(G!Proprietario = G!Nessuno)

\* A job has one thread that claims it and one that concludes it.
RichiestaUnica ==
  [][\A j \in JobId :
       /\ richiesta[j].fase # "no" => richiesta'[j].fase # "claim" \/ richiesta[j] = richiesta'[j]
       /\ rapporto[j].fase # "no" => rapporto'[j].fase # "coda" \/ rapporto[j] = rapporto'[j]]_vars

-----------------------------------------------------------------------------
(* Values of the constants for the model checker: each request needs a checkpoint *)
(* model, one bridge (the Mac) renders those alone, the others (the Windows host) *)
(* every family.                                                                  *)
FamiglieCheckpointDi ==
  [j \in JobId |-> IF j = CHOOSE k \in JobId : TRUE THEN "sdxl-turbo" ELSE "sd15"]
CapaciDi == [p \in Ponte |->
  IF p = CHOOSE m \in Ponte : TRUE THEN {"sdxl-turbo", "sd15"} ELSE {"sdxl-turbo", "sd15", "qwen-image-2.1"}]
=============================================================================
