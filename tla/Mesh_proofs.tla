---------------------------- MODULE Mesh_proofs ----------------------------
(***************************************************************************)
(* Proofs about the mesh, for any number of nodes, requests, peers and     *)
(* processes: the slots of a node (NodeSlots), the federation of control   *)
(* planes (Federation), the tunnel of a host (HostTunnel); then the        *)
(* programs of a node (MCNodo): its telemetry (NodeMetrics), its proxy     *)
(* (ProxyInteractions), the runner of its sandbox (SandboxRuns), each with *)
(* its inductive invariant, and the scenes that run them.                  *)
(***************************************************************************)
EXTENDS MCNodo, FiniteSetTheorems, NaturalsInduction, TLAPS

CONSTANTS
  CP, Task, Aperti, Capaci, MaxGesti,           \* Federation
  Pid, MaxCadute                                \* HostTunnel

VARIABLES
  lista, cambio, inoltro, lavoro, chiesti, persi, gesti, \* Federation
  stato, processo, filo, mano, cadute                    \* HostTunnel

Fed == INSTANCE Federation
Tun == INSTANCE HostTunnel

-----------------------------------------------------------------------------
(* The slots of a node. *)

\* Types, without the counters: they are natural numbers because they count.
TipoPosti ==
  /\ motore \in Motori /\ degradato \in BOOLEAN
  /\ posti \in Minimo..Massimo \union {1}
  /\ motore # "ollama" => posti \in Minimo..Massimo

TipoFila == fila \in Seq(Richiesta \union {Qos, Sognatore})

TipoReq == req \in [Richiesta -> Luoghi]

TipoTempi ==
  /\ quiete \in 0..Quiete /\ tentativo \in 0..Intervallo
  /\ memoria \in Versioni /\ impronta \in Versioni

TipoSogno ==
  /\ sogno \in [pc : {"fermo", "genera", "finito", "annullato", "rilascia"}, memoria : Versioni]
  /\ diario \in [Versioni -> 0..2] /\ tagliati \subseteq Versioni

TipoBase == TipoPosti /\ TipoFila /\ TipoReq /\ TipoTempi /\ TipoSogno

\* Between the test and the admission the request holds the lock and there is a slot.
AmmissionePronta == \A r \in Richiesta : req[r] = "ottiene" => Ha(r) /\ inVolo < posti

\* A request at the door stands in the queue of the lock.
PortaInFila == \A r \in Richiesta : req[r] = "porta" => Aspetta(r)

\* Idle time passes only while nobody is in the limiter.
QuieteVuota ==
  quiete # 0 => fila = <<>> /\ \A r \in Richiesta : req[r] \in {"fuori", "dentro"}

\* A dream that may still be written is about memories newer than the state file; a
\* version in the journal is not newer, unless the state file missed it.
ImprontaFedele ==
  /\ impronta <= memoria
  /\ sogno.pc \in {"genera", "finito"} => impronta < sogno.memoria /\ sogno.memoria <= memoria
  /\ \A v \in Versioni : diario[v] # 0 => v <= impronta \/ v \in tagliati
  /\ SognatoUnaVolta

IInv ==
  /\ TipoBase /\ PostiContati
  /\ AmmissionePronta /\ PortaInFila /\ QuieteVuota
  /\ SognoCede /\ ImprontaFedele

-----------------------------------------------------------------------------
(* Helpers. *)

\* Leaving the queue keeps everybody else in it, and its head if it was another.
LEMMA SenzaLascia ==
  ASSUME NEW T, NEW s \in Seq(T), NEW a
  PROVE  /\ Senza(s, a) \in Seq(T)
         /\ \A b : b # a /\ (\E n \in DOMAIN s : s[n] = b)
                   => \E n \in DOMAIN Senza(s, a) : Senza(s, a)[n] = b
         /\ s # <<>> /\ Head(s) # a => Senza(s, a) # <<>> /\ Head(Senza(s, a)) = Head(s)
<1>1. CASE ~ \E n \in DOMAIN s : s[n] = a
  BY <1>1 DEF Senza
<1>2. CASE \E n \in DOMAIN s : s[n] = a
  <2> DEFINE k == CHOOSE n \in DOMAIN s : s[n] = a
             p == [n \in 1..(Len(s) - 1) |-> IF n < k THEN s[n] ELSE s[n + 1]]
  <2>1. k \in 1..Len(s) /\ s[k] = a
    BY <1>2
  <2>2. Senza(s, a) = p
    BY <1>2 DEF Senza
  <2> HIDE DEF k
  <2>3. p \in Seq(T) /\ Len(p) = Len(s) - 1 /\ DOMAIN p = 1..(Len(s) - 1)
    BY <2>1
  <2>4. ASSUME NEW b, b # a, NEW n \in DOMAIN s, s[n] = b
        PROVE  \E m \in DOMAIN p : p[m] = b
    <3>1. n \in 1..Len(s) /\ n # k
      BY <2>1, <2>4
    <3>2. CASE n < k
      BY <3>1, <3>2, <2>1, <2>3, <2>4
    <3>3. CASE n > k
      <4>1. n - 1 \in DOMAIN p /\ p[n - 1] = b
        BY <3>1, <3>3, <2>1, <2>3, <2>4
      <4> QED BY <4>1
    <3> QED BY <3>1, <3>2, <3>3, <2>1
  <2>5. s # <<>> /\ Head(s) # a => p # <<>> /\ Head(p) = Head(s)
    <3> SUFFICES ASSUME s # <<>>, Head(s) # a PROVE p # <<>> /\ Head(p) = Head(s)
      OBVIOUS
    <3>1. k > 1
      BY <2>1
    <3>2. 1 \in DOMAIN p /\ p[1] = s[1]
      BY <2>1, <2>3, <3>1
    <3> HIDE DEF p
    <3>3. p # <<>> /\ Head(p) = p[1]
      BY <2>3, <3>2
    <3> QED BY <3>2, <3>3
  <2> HIDE DEF p
  <2> QED BY <2>2, <2>3, <2>4, <2>5
<1> QED BY <1>1, <1>2

\* How many requests stand in given places.
Conta(f, luoghi) == Cardinality({q \in Richiesta : f[q] \in luoghi})

\* ... after a step that moves at most one of them into the places or out of them.
LEMMA UnoSiMuove ==
  ASSUME NEW f, NEW g, NEW luoghi, NEW r \in Richiesta,
         \A q \in Richiesta \ {r} : f[q] \in luoghi <=> g[q] \in luoghi
  PROVE  /\ Conta(f, luoghi) \in Nat /\ Conta(g, luoghi) \in Nat
         /\ (f[r] \in luoghi <=> g[r] \in luoghi) => Conta(g, luoghi) = Conta(f, luoghi)
         /\ f[r] \notin luoghi /\ g[r] \in luoghi => Conta(g, luoghi) = Conta(f, luoghi) + 1
         /\ f[r] \in luoghi /\ g[r] \notin luoghi => Conta(g, luoghi) = Conta(f, luoghi) - 1
<1> USE DEF Conta
<1> DEFINE prima == {q \in Richiesta : f[q] \in luoghi}
           dopo == {q \in Richiesta : g[q] \in luoghi}
<1>1. IsFiniteSet(prima) /\ IsFiniteSet(dopo)
  BY FS_Subset, NodeSlotsAssumption
<1>2. Cardinality(prima) \in Nat /\ Cardinality(dopo) \in Nat
  BY <1>1, FS_CardinalityType
<1>3. CASE f[r] \in luoghi <=> g[r] \in luoghi
  <2>1. dopo = prima
    BY <1>3
  <2> QED BY <2>1, <1>2, <1>3
<1>4. CASE f[r] \notin luoghi /\ g[r] \in luoghi
  <2>1. dopo = prima \cup {r} /\ r \notin prima
    BY <1>4
  <2> QED BY <2>1, <1>1, <1>2, <1>4, FS_AddElement
<1>5. CASE f[r] \in luoghi /\ g[r] \notin luoghi
  <2>1. dopo = prima \ {r} /\ r \in prima
    BY <1>5
  <2> QED BY <2>1, <1>1, <1>2, <1>5, FS_RemoveElement
<1> QED BY <1>3, <1>4, <1>5

\* Nobody stands in given places exactly when their number is zero.
LEMMA NessunoSeZero ==
  ASSUME NEW luoghi
  PROVE  /\ Cardinality(In(luoghi)) \in Nat
         /\ Cardinality(In(luoghi)) = 0 => \A r \in Richiesta : req[r] \notin luoghi
<1>1. IsFiniteSet(In(luoghi))
  BY FS_Subset, NodeSlotsAssumption DEF In
<1> QED BY <1>1, FS_CardinalityType, FS_EmptySet DEF In

-----------------------------------------------------------------------------
(* The invariant holds at the start and is kept by every step. *)

LEMMA Costanti ==
  /\ Seed \in Nat /\ Minimo \in Nat /\ Massimo \in Nat
  /\ 1 <= Minimo /\ Minimo <= Seed /\ Seed <= Massimo
  /\ Quiete \in Nat /\ Quiete # 0 /\ Intervallo \in Nat /\ MaxMemoria \in Nat
  /\ Qos \notin Richiesta /\ Sognatore \notin Richiesta
BY NodeSlotsAssumption, AttoriDistinti

LEMMA IInvInit == Init => IInv
<1> SUFFICES ASSUME Init PROVE IInv
  OBVIOUS
<1>1. TipoPosti
  <2>1. motore \in Motori /\ degradato \in BOOLEAN
    BY DEF Init
  <2>2. posti = IF motore = "ollama" THEN 1 ELSE Seed
    BY DEF Init, Sequenziale
  <2> QED BY <2>1, <2>2, Costanti DEF TipoPosti
<1>8. TipoTempi
  BY Costanti DEF Init, TipoTempi, Versioni
<1>2. TipoFila
  BY DEF Init, TipoFila
<1>3. TipoReq
  BY DEF Init, TipoReq, Luoghi
<1>4. TipoSogno
  <2>1. 0 \in Versioni
    BY Costanti DEF Versioni
  <2> QED BY <2>1 DEF Init, TipoSogno
<1>5. PostiContati
  <2>1. In(Accodate) = {} /\ In({"dentro", "rilascia"}) = {}
    BY DEF Init, In, Accodate
  <2>2. Cardinality({}) = 0
    BY FS_EmptySet
  <2>3. inCoda = 0 /\ inVolo = 0 /\ sogno.pc = "fermo"
    BY DEF Init
  <2> QED BY <2>1, <2>2, <2>3 DEF PostiContati
<1>6. AmmissionePronta /\ PortaInFila /\ QuieteVuota /\ SognoCede
  BY DEF Init, AmmissionePronta, PortaInFila, QuieteVuota, SognoCede
<1>7. ImprontaFedele
  BY Costanti DEF Init, ImprontaFedele, SognatoUnaVolta, Versioni
<1> QED BY <1>1, <1>2, <1>3, <1>4, <1>5, <1>6, <1>7, <1>8 DEF IInv, TipoBase

\* The capacity keeps its bounds, whatever the QoS loop decides.
LEMMA PassoPosti ==
  ASSUME TipoPosti, Next
  PROVE  TipoPosti'
<1> USE Costanti DEF TipoPosti
<1>1. CASE UNCHANGED <<motore, posti, degradato>>
  BY <1>1
<1>2. CASE Applica /\ motore' = motore
  BY <1>2 DEF Applica, Sequenziale
<1>3. CASE Cade
  <2>1. motore' = motore /\ degradato' \in BOOLEAN
    BY <1>3 DEF Cade, Riparte
  <2>2. posti' = IF motore = "ollama" THEN 1 ELSE Seed
    BY <1>3 DEF Cade, Riparte, Sequenziale
  <2> QED BY <2>1, <2>2
<1>4. ASSUME NEW r \in Richiesta, Arriva(r) \/ Passo(r) \/ Scade(r) \/ Finisce(r)
      PROVE  UNCHANGED <<motore, posti, degradato>>
  BY <1>4 DEF Arriva, Passo, EntraPorta, Prova, Sveglia, Rientra, Ottiene, Scade, Annulla,
              Rinuncia, Finisce, Rilascia
<1>5. ASSUME \/ TickOccupato \/ TickSogna \/ SognoGenerato
             \/ SognoRiesce \/ SognoFallisce \/ SognoRilasciaDopo \/ NuovaMemoria \/ Tempo
      PROVE  UNCHANGED <<motore, posti, degradato>>
  BY <1>5 DEF TickOccupato, TickSogna, SognoGenerato, SognoRiesce, SognoFallisce,
              SognoRilascia, SognoRilasciaDopo, NuovaMemoria, Tempo, slotvars
<1>6. ASSUME ApplicaQos \/ ApplicaQosDopo
      PROVE  \/ UNCHANGED <<motore, posti, degradato>>
             \/ Applica /\ motore' = motore
  BY <1>6 DEF ApplicaQos, ApplicaQosDopo
<1> QED BY <1>1, <1>2, <1>3, <1>4, <1>5, <1>6 DEF Next

\* The queue of the lock: what a step may do with it.
Accoda(a) == fila' = Append(fila, a)

Solo(a) == fila = <<>> /\ fila' = <<a>>

Lascia(a) == Ha(a) /\ fila' = Tail(fila)

Attori == Richiesta \union {Qos, Sognatore}

LEMMA PassiDellaFila ==
  ASSUME Next
  PROVE  \/ fila' = fila \/ fila' = <<>>
         \/ \E a \in Attori : Accoda(a) \/ Solo(a) \/ Lascia(a)
         \/ \E r \in Richiesta : fila' = Senza(fila, r)
<1> USE DEF Accoda, Solo, Lascia, Attori
<1>1. ASSUME NEW r \in Richiesta, Arriva(r) \/ EntraPorta(r)
      PROVE  fila' = fila \/ fila' = <<>> \/ Accoda(r) \/ Solo(r) \/ Lascia(r)
  BY <1>1 DEF Arriva, EntraPorta, Acquisisce
<1>2. ASSUME NEW r \in Richiesta, Prova(r) \/ Sveglia(r) \/ Rientra(r)
      PROVE  fila' = fila \/ fila' = <<>> \/ Accoda(r) \/ Solo(r) \/ Lascia(r)
  BY <1>2 DEF Prova, Sveglia, Rientra, Verifica
<1>3. ASSUME NEW r \in Richiesta, Ottiene(r) \/ Annulla(r) \/ Rinuncia(r) \/ Rilascia(r) \/ Finisce(r)
      PROVE  fila' = fila \/ Accoda(r) \/ Lascia(r)
  BY <1>3 DEF Ottiene, Annulla, Rinuncia, Rilascia, Finisce
<1>4. ASSUME NEW r \in Richiesta, Scade(r)
      PROVE  fila' = Senza(fila, r)
  BY <1>4 DEF Scade
<1>5. ASSUME ApplicaQos \/ ApplicaQosDopo
      PROVE  fila' = fila \/ Accoda(Qos) \/ Lascia(Qos)
  BY <1>5 DEF ApplicaQos, ApplicaQosDopo
<1>6. ASSUME SognoRiesce \/ SognoFallisce \/ SognoRilasciaDopo
      PROVE  fila' = fila \/ Accoda(Sognatore) \/ Lascia(Sognatore)
  BY <1>6 DEF SognoRiesce, SognoFallisce, SognoRilascia, SognoRilasciaDopo
<1>7. ASSUME TickOccupato \/ TickSogna \/ SognoGenerato \/ NuovaMemoria \/ Tempo \/ Cade
      PROVE  fila' = fila \/ fila' = <<>>
  BY <1>7 DEF TickOccupato, TickSogna, SognoGenerato, NuovaMemoria, Tempo, Cade, Riparte, slotvars
<1> HIDE DEF Accoda, Solo, Lascia
<1> QED BY <1>1, <1>2, <1>3, <1>4, <1>5, <1>6, <1>7 DEF Next, Passo

LEMMA PassoFila ==
  ASSUME TipoFila, Next
  PROVE  TipoFila'
<1>1. fila \in Seq(Attori)
  BY DEF TipoFila, Attori
<1>2. ASSUME NEW r \in Richiesta, fila' = Senza(fila, r)
      PROVE  fila' \in Seq(Attori)
  BY <1>1, <1>2, SenzaLascia
<1>3. ASSUME NEW a \in Attori, Accoda(a) \/ Solo(a) \/ Lascia(a)
      PROVE  fila' \in Seq(Attori)
  <2>1. CASE Accoda(a)
    BY <1>1, <2>1 DEF Accoda
  <2>2. CASE Solo(a)
    BY <2>2 DEF Solo
  <2>3. CASE Lascia(a)
    BY <1>1, <2>3 DEF Lascia, Ha
  <2> QED BY <1>3, <2>1, <2>2, <2>3
<1>4. ASSUME fila' = fila \/ fila' = <<>>
      PROVE  fila' \in Seq(Attori)
  <2>1. <<>> \in Seq(Attori)
    OBVIOUS
  <2> QED BY <1>1, <1>4, <2>1
<1>5. fila' \in Seq(Attori)
  BY <1>2, <1>3, <1>4, PassiDellaFila
<1> QED BY <1>5 DEF TipoFila, Attori

LEMMA PassoReq ==
  ASSUME TipoReq, Next
  PROVE  TipoReq'
<1> USE DEF TipoReq
<1>1. ASSUME NEW r \in Richiesta, \E luogo \in Luoghi : Va(r, luogo)
      PROVE  TipoReq'
  BY <1>1 DEF Va
<1>2. ASSUME NEW f \in [Richiesta -> Luoghi], req' = Notifica(f)
      PROVE  TipoReq'
  BY <1>2 DEF Notifica, Luoghi, Accodate
<1>3. ASSUME NEW r \in Richiesta, Arriva(r) \/ EntraPorta(r) \/ Prova(r) \/ Sveglia(r) \/ Rientra(r)
      PROVE  TipoReq'
  <2>1. \E luogo \in Luoghi : Va(r, luogo)
    BY <1>3 DEF Arriva, EntraPorta, Prova, Sveglia, Rientra, Acquisisce, Verifica, Luoghi, Accodate
  <2> QED BY <2>1, <1>1
<1>4. ASSUME NEW r \in Richiesta, Ottiene(r) \/ Annulla(r) \/ Rinuncia(r) \/ Scade(r)
      PROVE  TipoReq'
  <2>1. req' = req \/ \E luogo \in Luoghi : Va(r, luogo)
    BY <1>4 DEF Ottiene, Annulla, Rinuncia, Scade, Luoghi, Accodate
  <2> QED BY <2>1, <1>1
<1>5. ASSUME NEW r \in Richiesta, Rilascia(r) \/ Finisce(r)
      PROVE  TipoReq'
  <2>1. [req EXCEPT ![r] = "fuori"] \in [Richiesta -> Luoghi]
    BY DEF Luoghi
  <2>2. req' = Notifica([req EXCEPT ![r] = "fuori"]) \/ \E luogo \in Luoghi : Va(r, luogo)
    BY <1>5 DEF Rilascia, Finisce, Luoghi
  <2> QED BY <2>1, <2>2, <1>1, <1>2
<1>6. ASSUME SognoRiesce \/ SognoFallisce \/ SognoRilasciaDopo
      PROVE  TipoReq'
  <2>1. req' = req \/ req' = Notifica(req)
    BY <1>6 DEF SognoRiesce, SognoFallisce, SognoRilascia, SognoRilasciaDopo
  <2> QED BY <2>1, <1>2
<1>7. CASE ApplicaQos \/ ApplicaQosDopo \/ TickOccupato \/ TickSogna \/ SognoGenerato \/ NuovaMemoria
           \/ Tempo
  BY <1>7 DEF ApplicaQos, ApplicaQosDopo, TickOccupato, TickSogna, SognoGenerato, NuovaMemoria,
              Tempo, slotvars
<1>8. CASE Cade
  BY <1>8 DEF Cade, Riparte, Luoghi
<1> QED BY <1>3, <1>4, <1>5, <1>6, <1>7, <1>8 DEF Next, Passo

LEMMA PassoTempi ==
  ASSUME TipoTempi, TipoSogno, Next
  PROVE  TipoTempi'
<1> USE Costanti DEF TipoTempi, Versioni
<1>1. ASSUME NEW r \in Richiesta, Arriva(r) \/ Passo(r) \/ Scade(r) \/ Finisce(r)
      PROVE  TipoTempi'
  <2>1. quiete' \in {quiete, 0} /\ UNCHANGED <<tentativo, memoria, impronta>>
    BY <1>1 DEF Arriva, Passo, EntraPorta, Prova, Sveglia, Rientra, Ottiene, Scade, Annulla,
                Rinuncia, Finisce, Rilascia, filevars
  <2> QED BY <2>1
<1>2. CASE ApplicaQos \/ ApplicaQosDopo \/ SognoGenerato
  <2>1. UNCHANGED <<quiete, tentativo, memoria, impronta>>
    BY <1>2 DEF ApplicaQos, ApplicaQosDopo, SognoGenerato, filevars
  <2> QED BY <2>1
<1>3. CASE TickOccupato \/ TickSogna
  <2>1. quiete' \in {quiete, 0} /\ tentativo' \in {tentativo, 0} /\ UNCHANGED <<memoria, impronta>>
    BY <1>3 DEF TickOccupato, TickSogna, filevars
  <2> QED BY <2>1
<1>4. CASE SognoRiesce \/ SognoFallisce \/ SognoRilasciaDopo
  <2>1. /\ quiete' \in {quiete, 0} /\ UNCHANGED <<tentativo, memoria>>
        /\ impronta' \in {impronta, sogno.memoria}
    BY <1>4 DEF SognoRiesce, SognoFallisce, SognoRilascia, SognoRilasciaDopo, filevars
  <2>2. sogno.memoria \in 0..MaxMemoria
    BY DEF TipoSogno
  <2> QED BY <2>1, <2>2
<1>5. CASE NuovaMemoria
  BY <1>5 DEF NuovaMemoria, filevars
<1>6. CASE Tempo
  BY <1>6 DEF Tempo, filevars
<1>7. CASE Cade
  BY <1>7 DEF Cade, Riparte
<1> QED BY <1>1, <1>2, <1>3, <1>4, <1>5, <1>6, <1>7 DEF Next

LEMMA PassoSogno ==
  ASSUME TipoSogno, TipoTempi, Next
  PROVE  TipoSogno'
<1> USE DEF TipoSogno
<1> DEFINE Fasi == {"fermo", "genera", "finito", "annullato", "rilascia"}
<1>1. ASSUME sogno' = sogno \/ (\E p \in Fasi : sogno' = [sogno EXCEPT !.pc = p]), UNCHANGED filevars
      PROVE  TipoSogno'
  <2>1. sogno' \in [pc : Fasi, memoria : Versioni]
    BY <1>1
  <2> QED BY <1>1, <2>1 DEF filevars
<1>2. ASSUME NEW r \in Richiesta, Arriva(r) \/ Passo(r) \/ Scade(r) \/ Finisce(r)
      PROVE  TipoSogno'
  <2>1. (sogno' = sogno \/ \E p \in Fasi : sogno' = [sogno EXCEPT !.pc = p]) /\ UNCHANGED filevars
    BY <1>2 DEF Arriva, Interrotto, Passo, EntraPorta, Prova, Sveglia, Rientra, Ottiene, Scade,
                Annulla, Rinuncia, Finisce, Rilascia
  <2> QED BY <2>1, <1>1
<1>3. CASE ApplicaQos \/ ApplicaQosDopo \/ TickOccupato \/ SognoGenerato \/ SognoFallisce
           \/ SognoRilasciaDopo \/ NuovaMemoria \/ Tempo
  <2>1. (sogno' = sogno \/ \E p \in Fasi : sogno' = [sogno EXCEPT !.pc = p]) /\ UNCHANGED filevars
    BY <1>3 DEF ApplicaQos, ApplicaQosDopo, TickOccupato, SognoGenerato, SognoFallisce, SognoRilascia,
                SognoRilasciaDopo, NuovaMemoria, Tempo
  <2> QED BY <2>1, <1>1
<1>4. CASE TickSogna
  BY <1>4 DEF TickSogna, TipoTempi, filevars
<1>5. ASSUME NEW v \in Versioni
      PROVE  Annota(v) \in [Versioni -> 0..2]
  BY DEF Annota
<1>6. sogno.memoria \in Versioni
  OBVIOUS
<1>7. CASE SognoRiesce
  <2>1. \E p \in Fasi : sogno' = [sogno EXCEPT !.pc = p]
    BY <1>7 DEF SognoRiesce, SognoRilascia
  <2>2. diario' = Annota(sogno.memoria) /\ tagliati' = tagliati
    BY <1>7 DEF SognoRiesce
  <2>3. sogno' \in [pc : Fasi, memoria : Versioni]
    BY <2>1
  <2> QED BY <2>2, <2>3, <1>5, <1>6
<1>8. CASE Cade
  <2>1. 0 \in Versioni
    BY Costanti DEF Versioni
  <2>2. sogno' \in [pc : Fasi, memoria : Versioni]
    BY <1>8, <2>1 DEF Cade, Riparte
  <2>3. \/ diario' = diario /\ tagliati' = tagliati
        \/ diario' = Annota(sogno.memoria) /\ tagliati' = tagliati \union {sogno.memoria}
    BY <1>8 DEF Cade
  <2> QED BY <2>2, <2>3, <1>5, <1>6
<1> QED BY <1>2, <1>3, <1>4, <1>7, <1>8 DEF Next

-----------------------------------------------------------------------------
(* The counters count. *)

Accodati == Conta(req, Accodate)

Interni == Conta(req, {"dentro", "rilascia"})

Sognano == IF sogno.pc # "fermo" THEN 1 ELSE 0

\* A request moves, and perhaps the others are notified.
LEMMA ContanoUno ==
  ASSUME TipoReq, NEW r \in Richiesta, NEW luogo \in Luoghi,
         Va(r, luogo) \/ req' = Notifica([req EXCEPT ![r] = luogo])
  PROVE  /\ Accodati \in Nat /\ Interni \in Nat
         /\ Accodati' = Accodati + (IF luogo \in Accodate THEN 1 ELSE 0)
                                 - (IF req[r] \in Accodate THEN 1 ELSE 0)
         /\ Interni' = Interni + (IF luogo \in {"dentro", "rilascia"} THEN 1 ELSE 0)
                               - (IF req[r] \in {"dentro", "rilascia"} THEN 1 ELSE 0)
<1> DEFINE Dentro == {"dentro", "rilascia"}
<1>1. \A q \in Richiesta \ {r} : (req[q] \in Accodate <=> req'[q] \in Accodate)
                                 /\ (req[q] \in Dentro <=> req'[q] \in Dentro)
  BY DEF TipoReq, Va, Notifica, Accodate
<1>2. (req'[r] \in Accodate <=> luogo \in Accodate) /\ (req'[r] \in Dentro <=> luogo \in Dentro)
  BY DEF TipoReq, Va, Notifica, Accodate
<1>3. /\ Accodati \in Nat /\ Accodati' \in Nat
      /\ (req[r] \in Accodate <=> req'[r] \in Accodate) => Accodati' = Accodati
      /\ req[r] \notin Accodate /\ req'[r] \in Accodate => Accodati' = Accodati + 1
      /\ req[r] \in Accodate /\ req'[r] \notin Accodate => Accodati' = Accodati - 1
  <2>1. \A q \in Richiesta \ {r} : req[q] \in Accodate <=> req'[q] \in Accodate
    BY <1>1
  <2>2. Accodate' = Accodate
    BY DEF Accodate
  <2> QED BY <2>1, <2>2, UnoSiMuove DEF Accodati
<1>4. /\ Interni \in Nat /\ Interni' \in Nat
      /\ (req[r] \in Dentro <=> req'[r] \in Dentro) => Interni' = Interni
      /\ req[r] \notin Dentro /\ req'[r] \in Dentro => Interni' = Interni + 1
      /\ req[r] \in Dentro /\ req'[r] \notin Dentro => Interni' = Interni - 1
  <2>1. \A q \in Richiesta \ {r} : req[q] \in Dentro <=> req'[q] \in Dentro
    BY <1>1
  <2>2. Interni = Conta(req, Dentro) /\ Interni' = Conta(req', Dentro)
    BY DEF Interni
  <2>3. /\ Conta(req, Dentro) \in Nat /\ Conta(req', Dentro) \in Nat
        /\ (req[r] \in Dentro <=> req'[r] \in Dentro) => Conta(req', Dentro) = Conta(req, Dentro)
        /\ req[r] \notin Dentro /\ req'[r] \in Dentro => Conta(req', Dentro) = Conta(req, Dentro) + 1
        /\ req[r] \in Dentro /\ req'[r] \notin Dentro => Conta(req', Dentro) = Conta(req, Dentro) - 1
    <3> HIDE DEF Dentro
    <3> QED BY <2>1, UnoSiMuove, Zenon
  <2> QED BY <2>2, <2>3
<1> QED BY <1>2, <1>3, <1>4

\* Nobody moves, perhaps all are notified.
LEMMA ContanoFermi ==
  ASSUME TipoReq, req' = req \/ req' = Notifica(req)
  PROVE  Accodati' = Accodati /\ Interni' = Interni
<1>1. \A q \in Richiesta : (req[q] \in Accodate <=> req'[q] \in Accodate)
                           /\ (req[q] \in {"dentro", "rilascia"} <=> req'[q] \in {"dentro", "rilascia"})
  BY DEF TipoReq, Notifica, Accodate
<1>2. In(Accodate)' = In(Accodate) /\ In({"dentro", "rilascia"})' = In({"dentro", "rilascia"})
  <2>1. Accodate' = Accodate
    BY DEF Accodate
  <2> QED BY <1>1, <2>1 DEF In
<1> QED BY <1>2 DEF Accodati, Interni, Conta, In

LEMMA PassoConta ==
  ASSUME TipoReq, TipoSogno, PostiContati, Next
  PROVE  PostiContati'
<1>1. inCoda = Accodati /\ inVolo = Interni + Sognano
  BY DEF PostiContati, Accodati, Interni, Sognano, In, Conta
<1>2. SUFFICES inCoda' = Accodati' /\ inVolo' = Interni' + Sognano'
  BY DEF PostiContati, Accodati, Interni, Sognano, In, Conta
<1>3. Accodati \in Nat /\ Interni \in Nat
  BY NessunoSeZero DEF Accodati, Interni, Conta, In
<1>4. ASSUME NEW r \in Richiesta, NEW luogo \in Luoghi, Va(r, luogo), UNCHANGED <<inVolo, Sognano>>,
             req[r] \in {"dentro", "rilascia"} <=> luogo \in {"dentro", "rilascia"},
             inCoda' = inCoda + (IF luogo \in Accodate THEN 1 ELSE 0)
                              - (IF req[r] \in Accodate THEN 1 ELSE 0)
      PROVE  inCoda' = Accodati' /\ inVolo' = Interni' + Sognano'
  <2>1. Accodati' = Accodati + (IF luogo \in Accodate THEN 1 ELSE 0)
                             - (IF req[r] \in Accodate THEN 1 ELSE 0)
    BY <1>4, ContanoUno
  <2>2. Interni' = Interni
    <3>1. Interni' = Interni + (IF luogo \in {"dentro", "rilascia"} THEN 1 ELSE 0)
                             - (IF req[r] \in {"dentro", "rilascia"} THEN 1 ELSE 0)
      BY <1>4, ContanoUno
    <3> QED BY <1>3, <1>4, <3>1
  <2> QED BY <1>1, <1>4, <2>1, <2>2
<1>5. ASSUME NEW r \in Richiesta, Arriva(r)
      PROVE  inCoda' = Accodati' /\ inVolo' = Interni' + Sognano'
  <2>1. UNCHANGED <<inVolo, Sognano>>
    BY <1>5 DEF Arriva, Interrotto, Sognano, TipoSogno
  <2>2. \E luogo \in {"fuori", "prova", "porta"} :
          Va(r, luogo) /\ inCoda' = inCoda + (IF luogo = "prova" THEN 1 ELSE 0)
    BY <1>1, <1>3, <1>5 DEF Arriva, Acquisisce
  <2>3. req[r] = "fuori"
    BY <1>5 DEF Arriva
  <2> QED BY <1>1, <1>3, <1>4, <2>1, <2>2, <2>3 DEF Luoghi, Accodate
<1>6. ASSUME NEW r \in Richiesta, EntraPorta(r)
      PROVE  inCoda' = Accodati' /\ inVolo' = Interni' + Sognano'
  <2>1. UNCHANGED <<inVolo, Sognano>> /\ req[r] = "porta"
    BY <1>6 DEF EntraPorta, Sognano
  <2>2. \E luogo \in {"fuori", "prova"} :
          Va(r, luogo) /\ inCoda' = inCoda + (IF luogo = "prova" THEN 1 ELSE 0)
    BY <1>1, <1>3, <1>6 DEF EntraPorta, Acquisisce
  <2> QED BY <1>1, <1>3, <1>4, <2>1, <2>2 DEF Luoghi, Accodate
<1>7. ASSUME NEW r \in Richiesta, Prova(r) \/ Sveglia(r) \/ Rientra(r) \/ Scade(r)
      PROVE  inCoda' = Accodati' /\ inVolo' = Interni' + Sognano'
  <2>1. UNCHANGED <<inVolo, inCoda, Sognano>> /\ req[r] \in Accodate
    BY <1>7 DEF Prova, Sveglia, Rientra, Scade, Sognano, Accodate
  <2>2. \E luogo \in Accodate : Va(r, luogo)
    BY <1>7 DEF Prova, Sveglia, Rientra, Scade, Verifica, Accodate
  <2> QED BY <1>1, <1>3, <1>4, <2>1, <2>2 DEF Luoghi, Accodate
<1>8. ASSUME NEW r \in Richiesta, Ottiene(r)
      PROVE  inCoda' = Accodati' /\ inVolo' = Interni' + Sognano'
  <2>1. req[r] = "ottiene" /\ Va(r, "dentro") /\ inCoda' = inCoda - 1 /\ inVolo' = inVolo + 1
        /\ Sognano' = Sognano
    BY <1>8 DEF Ottiene, Sognano
  <2>2. Accodati' = Accodati - 1 /\ Interni' = Interni + 1
    <3>1. /\ Accodati' = Accodati + (IF "dentro" \in Accodate THEN 1 ELSE 0)
                                 - (IF req[r] \in Accodate THEN 1 ELSE 0)
          /\ Interni' = Interni + (IF "dentro" \in {"dentro", "rilascia"} THEN 1 ELSE 0)
                               - (IF req[r] \in {"dentro", "rilascia"} THEN 1 ELSE 0)
      <4>1. "dentro" \in Luoghi
        BY DEF Luoghi
      <4> QED BY <2>1, <4>1, ContanoUno
    <3> QED BY <1>3, <2>1, <3>1 DEF Accodate
  <2>3. Sognano \in {0, 1}
    BY DEF Sognano
  <2> QED BY <1>1, <1>3, <2>1, <2>2, <2>3
<1>9. ASSUME NEW r \in Richiesta, Annulla(r)
      PROVE  inCoda' = Accodati' /\ inVolo' = Interni' + Sognano'
  <2>1. req' = req /\ UNCHANGED <<inCoda, inVolo, Sognano>>
    BY <1>9 DEF Annulla, Sognano
  <2> QED BY <1>1, <2>1, ContanoFermi
<1>10. ASSUME NEW r \in Richiesta, Rinuncia(r)
       PROVE  inCoda' = Accodati' /\ inVolo' = Interni' + Sognano'
  <2>1. UNCHANGED <<inVolo, Sognano>> /\ req[r] = "scade" /\ Va(r, "fuori") /\ inCoda' = inCoda - 1
    BY <1>10 DEF Rinuncia, Sognano
  <2> QED BY <1>1, <1>3, <1>4, <2>1 DEF Luoghi, Accodate
<1>11. ASSUME NEW r \in Richiesta, Finisce(r) \/ Rilascia(r)
       PROVE  inCoda' = Accodati' /\ inVolo' = Interni' + Sognano'
  <2>1. UNCHANGED <<inCoda, Sognano>> /\ req[r] \in {"dentro", "rilascia"}
    BY <1>11 DEF Finisce, Rilascia, Sognano
  <2>2. \/ Va(r, "rilascia") /\ inVolo' = inVolo
        \/ req' = Notifica([req EXCEPT ![r] = "fuori"]) /\ inVolo' = Meno(inVolo)
    BY <1>11 DEF Finisce, Rilascia
  <2>3. CASE Va(r, "rilascia") /\ inVolo' = inVolo
    BY <1>1, <1>3, <1>4, <2>1, <2>3 DEF Luoghi, Accodate
  <2>4. CASE req' = Notifica([req EXCEPT ![r] = "fuori"]) /\ inVolo' = Meno(inVolo)
    <3>1. Accodati' = Accodati /\ Interni' = Interni - 1
      <4>1. /\ Accodati' = Accodati + (IF "fuori" \in Accodate THEN 1 ELSE 0)
                                   - (IF req[r] \in Accodate THEN 1 ELSE 0)
            /\ Interni' = Interni + (IF "fuori" \in {"dentro", "rilascia"} THEN 1 ELSE 0)
                                 - (IF req[r] \in {"dentro", "rilascia"} THEN 1 ELSE 0)
        <5>1. "fuori" \in Luoghi
          BY DEF Luoghi
        <5> QED BY <2>4, <5>1, ContanoUno
      <4> QED BY <1>3, <2>1, <4>1 DEF Accodate
    <3>2. Interni' \in Nat
      <4>1. IsFiniteSet(In({"dentro", "rilascia"})')
        BY FS_Subset, NodeSlotsAssumption DEF In
      <4> QED BY <4>1, FS_CardinalityType DEF Interni, Conta, In
    <3>3. Sognano \in {0, 1}
      BY DEF Sognano
    <3>4. inVolo' = inVolo - 1
      BY <1>1, <1>3, <2>4, <3>1, <3>2, <3>3 DEF Meno
    <3> QED BY <1>1, <1>3, <2>1, <3>1, <3>3, <3>4
  <2> QED BY <2>2, <2>3, <2>4
<1>12. CASE ApplicaQos \/ ApplicaQosDopo \/ TickOccupato \/ SognoGenerato \/ NuovaMemoria \/ Tempo
  <2>1. req' = req /\ UNCHANGED <<inCoda, inVolo>>
    BY <1>12 DEF ApplicaQos, ApplicaQosDopo, TickOccupato, SognoGenerato, NuovaMemoria, Tempo, slotvars
  <2>2. UNCHANGED Sognano
    BY <1>12 DEF ApplicaQos, ApplicaQosDopo, TickOccupato, SognoGenerato, NuovaMemoria, Tempo,
                 Sognano, TipoSogno
  <2> QED BY <1>1, <2>1, <2>2, ContanoFermi
<1>13. CASE TickSogna
  <2>1. req' = req /\ inCoda' = inCoda /\ inVolo' = inVolo + 1 /\ Sognano = 0 /\ Sognano' = 1
    BY <1>13 DEF TickSogna, Sognano
  <2> QED BY <1>1, <1>3, <2>1, ContanoFermi
<1>14. CASE SognoRiesce \/ SognoFallisce \/ SognoRilasciaDopo
  <2>1. inCoda' = inCoda /\ Sognano = 1
    BY <1>14 DEF SognoRiesce, SognoFallisce, SognoRilascia, SognoRilasciaDopo, Sognano
  <2>2. \/ req' = Notifica(req) /\ inVolo' = Meno(inVolo) /\ Sognano' = 0
        \/ req' = req /\ inVolo' = inVolo /\ Sognano' = 1
    BY <1>14 DEF SognoRiesce, SognoFallisce, SognoRilascia, SognoRilasciaDopo, Sognano, TipoSogno
  <2>3. Accodati' = Accodati /\ Interni' = Interni
    BY <2>2, ContanoFermi
  <2> QED BY <1>1, <1>3, <2>1, <2>2, <2>3 DEF Meno
<1>15. CASE Cade
  <2>1. inCoda' = 0 /\ inVolo' = 0 /\ Sognano' = 0
    BY <1>15 DEF Cade, Riparte, Sognano
  <2>2. In(Accodate)' = {} /\ In({"dentro", "rilascia"})' = {}
    BY <1>15 DEF Cade, Riparte, In, Accodate
  <2> QED BY <2>1, <2>2, FS_EmptySet DEF Accodati, Interni, Conta, In
<1> QED BY <1>5, <1>6, <1>7, <1>8, <1>9, <1>10, <1>11, <1>12, <1>13, <1>14, <1>15 DEF Next, Passo

-----------------------------------------------------------------------------
(* The queue of the lock. *)

\* Who arrives in the queue takes nobody's place.
LEMMA AccodaTiene ==
  ASSUME TipoFila, NEW a \in Attori, fila' = Append(fila, a)
  PROVE  /\ Aspetta(a)'
         /\ \A b : (Aspetta(b) => Aspetta(b)') /\ (Ha(b) => Ha(b)')
<1>1. fila \in Seq(Attori)
  BY DEF TipoFila, Attori
<1>2. Len(fila') = Len(fila) + 1 /\ fila'[Len(fila) + 1] = a /\ \A n \in 1..Len(fila) : fila'[n] = fila[n]
  BY <1>1
<1>3. DOMAIN fila' = 1..(Len(fila) + 1) /\ DOMAIN fila = 1..Len(fila) /\ Len(fila) \in Nat
  BY <1>1
<1>4. Aspetta(a)'
  BY <1>2, <1>3 DEF Aspetta
<1>5. ASSUME NEW b, Aspetta(b) PROVE Aspetta(b)'
  BY <1>2, <1>3, <1>5 DEF Aspetta
<1>6. ASSUME NEW b, Ha(b) PROVE Ha(b)'
  BY <1>1, <1>6 DEF Ha
<1> QED BY <1>4, <1>5, <1>6

\* Who leaves the head of the queue leaves the others in it.
LEMMA LasciaTiene ==
  ASSUME TipoFila, NEW a, NEW b, b # a, Ha(a), fila' = Tail(fila), Aspetta(b)
  PROVE  Aspetta(b)'
<1>1. fila \in Seq(Attori) /\ fila # <<>> /\ fila[1] = a
  BY DEF TipoFila, Attori, Ha
<1>2. PICK n \in DOMAIN fila : fila[n] = b
  BY DEF Aspetta
<1>3. n \in 2..Len(fila)
  BY <1>1, <1>2
<1>4. n - 1 \in DOMAIN fila' /\ fila'[n - 1] = b
  BY <1>1, <1>2, <1>3
<1> QED BY <1>4 DEF Aspetta

\* Whoever gives up waiting leaves the others in the queue, and its head there.
LEMMA ScadeTiene ==
  ASSUME TipoFila, NEW a, NEW b, b # a, fila' = Senza(fila, a)
  PROVE  (Aspetta(b) => Aspetta(b)') /\ (Ha(b) => Ha(b)')
<1>1. fila \in Seq(Attori)
  BY DEF TipoFila, Attori
<1> QED BY <1>1, SenzaLascia DEF Aspetta, Ha

\* A request that was let in by the test stays at the head of the queue, and its
\* slot stays free, until it takes it: every other step needs the lock.
LEMMA PassoAmmissione ==
  ASSUME TipoFila, TipoReq, AmmissionePronta, Next
  PROVE  AmmissionePronta'
<1> SUFFICES ASSUME NEW r \in Richiesta, req'[r] = "ottiene"
             PROVE  Ha(r)' /\ inVolo' < posti'
  BY DEF AmmissionePronta
<1>1. r \in Attori /\ Qos \in Attori /\ Sognatore \in Attori /\ r # Qos /\ r # Sognatore
  BY Costanti DEF Attori
<1>2. req[r] = "ottiene" => Ha(r) /\ inVolo < posti /\ fila # <<>>
  BY DEF AmmissionePronta, Ha
<1>3. \A a : Ha(a) /\ Ha(r) => a = r
  BY DEF Ha
<1>4. ASSUME UNCHANGED <<fila, inVolo, posti>>, req[r] = "ottiene"
      PROVE  Ha(r)' /\ inVolo' < posti'
  BY <1>2, <1>4 DEF Ha
<1>5. ASSUME NEW a \in Attori, fila' = Append(fila, a), UNCHANGED <<inVolo, posti>>, req[r] = "ottiene"
      PROVE  Ha(r)' /\ inVolo' < posti'
  BY <1>2, <1>5, AccodaTiene
<1>6. ASSUME NEW q \in Richiesta, Arriva(q)
      PROVE  Ha(r)' /\ inVolo' < posti'
  <2>1. req[r] = "ottiene"
    BY <1>6 DEF Arriva, Acquisisce, Va, TipoReq
  <2>2. fila' = Append(fila, q) /\ UNCHANGED <<inVolo, posti>> /\ q \in Attori
    BY <1>2, <1>6, <2>1 DEF Arriva, Attori
  <2> QED BY <1>5, <2>1, <2>2
<1>7. ASSUME NEW q \in Richiesta, EntraPorta(q)
      PROVE  Ha(r)' /\ inVolo' < posti'
  <2>1. req[r] = "ottiene" /\ q # r
    BY <1>7 DEF EntraPorta, Acquisisce, Va, TipoReq
  <2> QED BY <1>2, <1>3, <1>7, <2>1 DEF EntraPorta
<1>8. ASSUME NEW q \in Richiesta, Prova(q) \/ Rientra(q)
      PROVE  Ha(r)' /\ inVolo' < posti'
  <2>1. CASE q = r
    <3>1. Ha(r) /\ inVolo < posti /\ fila' = fila /\ UNCHANGED <<inVolo, posti>>
      BY <1>8, <2>1 DEF Prova, Rientra, Verifica, Va, TipoReq
    <3> QED BY <3>1 DEF Ha
  <2>2. CASE q # r
    <3>1. req[r] = "ottiene" /\ Ha(q)
      BY <1>8, <2>2 DEF Prova, Rientra, Verifica, Va, TipoReq
    <3> QED BY <1>2, <1>3, <2>2, <3>1
  <2> QED BY <2>1, <2>2
<1>9. ASSUME NEW q \in Richiesta, Sveglia(q)
      PROVE  Ha(r)' /\ inVolo' < posti'
  <2>1. CASE fila = <<>>
    <3>1. Verifica(q, <<q>>) /\ UNCHANGED <<inVolo, posti>>
      BY <1>9, <2>1 DEF Sveglia
    <3>2. q = r
      BY <1>2, <2>1, <3>1 DEF Verifica, Va, TipoReq
    <3>3. inVolo < posti /\ fila' = <<r>>
      BY <3>1, <3>2 DEF Verifica, Va, TipoReq
    <3> QED BY <3>1, <3>3 DEF Ha
  <2>2. CASE fila # <<>>
    <3>1. req[r] = "ottiene" /\ fila' = Append(fila, q) /\ UNCHANGED <<inVolo, posti>> /\ q \in Attori
      BY <1>9, <2>2 DEF Sveglia, Va, TipoReq, Attori
    <3> QED BY <1>5, <3>1
  <2> QED BY <2>1, <2>2
<1>10. ASSUME NEW q \in Richiesta, Ottiene(q) \/ Rinuncia(q) \/ Rilascia(q)
       PROVE  Ha(r)' /\ inVolo' < posti'
  <2>1. req[r] = "ottiene" /\ Ha(q) /\ q # r
    BY <1>10 DEF Ottiene, Rinuncia, Rilascia, Notifica, Va, TipoReq
  <2> QED BY <1>2, <1>3, <2>1
<1>11. ASSUME NEW q \in Richiesta, Annulla(q)
       PROVE  Ha(r)' /\ inVolo' < posti'
  <2>1. req[r] = "ottiene" /\ fila' = Append(fila, q) /\ UNCHANGED <<inVolo, posti>> /\ q \in Attori
    BY <1>11 DEF Annulla, Attori
  <2> QED BY <1>5, <2>1
<1>12. ASSUME NEW q \in Richiesta, Scade(q)
       PROVE  Ha(r)' /\ inVolo' < posti'
  <2>1. req[r] = "ottiene" /\ q # r /\ fila' = Senza(fila, q) /\ UNCHANGED <<inVolo, posti>>
    BY <1>12 DEF Scade, Va, TipoReq
  <2> QED BY <1>2, <2>1, ScadeTiene
<1>13. ASSUME NEW q \in Richiesta, Finisce(q)
       PROVE  Ha(r)' /\ inVolo' < posti'
  <2>1. req[r] = "ottiene"
    BY <1>13 DEF Finisce, Notifica, Va, TipoReq
  <2>2. fila' = Append(fila, q) /\ UNCHANGED <<inVolo, posti>> /\ q \in Attori
    BY <1>2, <1>13, <2>1 DEF Finisce, Attori
  <2> QED BY <1>5, <2>1, <2>2
<1>14. CASE ApplicaQos
  <2>1. req[r] = "ottiene" /\ fila # <<>>
    BY <1>2, <1>14 DEF ApplicaQos
  <2>2. fila' = Append(fila, Qos) /\ UNCHANGED <<inVolo, posti>>
    BY <1>14, <2>1 DEF ApplicaQos
  <2> QED BY <1>1, <1>5, <2>1, <2>2
<1>15. CASE ApplicaQosDopo
  <2>1. req[r] = "ottiene" /\ Ha(Qos)
    BY <1>15 DEF ApplicaQosDopo
  <2> QED BY <1>1, <1>2, <1>3, <2>1
<1>16. CASE TickOccupato \/ SognoGenerato \/ NuovaMemoria \/ Tempo
  <2>1. UNCHANGED <<fila, inVolo, posti, req>>
    BY <1>16 DEF TickOccupato, SognoGenerato, NuovaMemoria, Tempo, slotvars
  <2> QED BY <1>4, <2>1
<1>17. CASE TickSogna
  <2>1. req[r] = "ottiene" /\ fila = <<>>
    BY <1>17 DEF TickSogna
  <2> QED BY <1>2, <2>1
<1>18. CASE SognoRiesce \/ SognoFallisce
  <2>1. SognoRilascia
    BY <1>18 DEF SognoRiesce, SognoFallisce
  <2>2. req[r] = "ottiene"
    BY <2>1 DEF SognoRilascia, Notifica, TipoReq
  <2>3. fila' = Append(fila, Sognatore) /\ UNCHANGED <<inVolo, posti>>
    BY <1>2, <2>1, <2>2 DEF SognoRilascia
  <2> QED BY <1>1, <1>5, <2>2, <2>3
<1>19. CASE SognoRilasciaDopo
  <2>1. req[r] = "ottiene" /\ Ha(Sognatore)
    BY <1>19 DEF SognoRilasciaDopo, Notifica, TipoReq
  <2> QED BY <1>1, <1>2, <1>3, <2>1
<1>20. CASE Cade
  BY <1>20 DEF Cade, Riparte
<1> QED BY <1>6, <1>7, <1>8, <1>9, <1>10, <1>11, <1>12, <1>13, <1>14, <1>15, <1>16, <1>17, <1>18,
           <1>19, <1>20 DEF Next, Passo

\* Who stands at the door stays in the queue of the lock until it has its turn.
LEMMA PassoPorta ==
  ASSUME TipoFila, TipoReq, PortaInFila, Next
  PROVE  PortaInFila'
<1> SUFFICES ASSUME NEW r \in Richiesta, req'[r] = "porta"
             PROVE  Aspetta(r)'
  BY DEF PortaInFila
<1>1. r \in Attori /\ Qos \in Attori /\ Sognatore \in Attori /\ r # Qos /\ r # Sognatore
  BY Costanti DEF Attori
<1>2. req[r] = "porta" => Aspetta(r) /\ fila # <<>>
  BY DEF PortaInFila, Aspetta
<1>3. ASSUME fila' = fila, req[r] = "porta"
      PROVE  Aspetta(r)'
  BY <1>2, <1>3 DEF Aspetta
<1>4. ASSUME NEW a \in Attori, fila' = Append(fila, a), req[r] = "porta"
      PROVE  Aspetta(r)'
  BY <1>2, <1>4, AccodaTiene
<1>5. ASSUME NEW a, Ha(a), fila' = Tail(fila), a # r, req[r] = "porta"
      PROVE  Aspetta(r)'
  BY <1>2, <1>5, LasciaTiene
<1>6. ASSUME NEW q \in Richiesta, Arriva(q)
      PROVE  Aspetta(r)'
  <2>1. CASE fila = <<>>
    BY <1>2, <1>6, <2>1 DEF Arriva, Acquisisce, Va, TipoReq
  <2>2. CASE fila # <<>>
    <3>1. fila' = Append(fila, q) /\ q \in Attori /\ (req[r] = "porta" \/ r = q)
      BY <1>6, <2>2 DEF Arriva, Va, TipoReq, Attori
    <3> QED BY <1>2, <3>1, AccodaTiene
  <2> QED BY <2>1, <2>2
<1>7. ASSUME NEW q \in Richiesta, EntraPorta(q)
      PROVE  Aspetta(r)'
  <2>1. req[r] = "porta" /\ q # r /\ Ha(q) /\ (fila' = fila \/ fila' = Tail(fila))
    BY <1>7 DEF EntraPorta, Acquisisce, Va, TipoReq
  <2> QED BY <1>3, <1>5, <2>1
<1>8. ASSUME NEW q \in Richiesta, Prova(q) \/ Rientra(q)
      PROVE  Aspetta(r)'
  <2>1. req[r] = "porta" /\ q # r /\ Ha(q) /\ (fila' = fila \/ fila' = Tail(fila))
    BY <1>8 DEF Prova, Rientra, Verifica, Va, TipoReq
  <2> QED BY <1>3, <1>5, <2>1
<1>9. ASSUME NEW q \in Richiesta, Sveglia(q)
      PROVE  Aspetta(r)'
  <2>1. req[r] = "porta"
    BY <1>9 DEF Sveglia, Verifica, Va, TipoReq
  <2>2. fila' = Append(fila, q) /\ q \in Attori
    BY <1>2, <1>9, <2>1 DEF Sveglia, Attori
  <2> QED BY <1>4, <2>1, <2>2
<1>10. ASSUME NEW q \in Richiesta, Ottiene(q) \/ Rinuncia(q) \/ Rilascia(q)
       PROVE  Aspetta(r)'
  <2>1. req[r] = "porta" /\ Ha(q) /\ q # r /\ fila' = Tail(fila)
    BY <1>10 DEF Ottiene, Rinuncia, Rilascia, Notifica, Va, TipoReq
  <2> QED BY <1>5, <2>1
<1>11. ASSUME NEW q \in Richiesta, Annulla(q)
       PROVE  Aspetta(r)'
  <2>1. req[r] = "porta" /\ fila' = Append(fila, q) /\ q \in Attori
    BY <1>11 DEF Annulla, Attori
  <2> QED BY <1>4, <2>1
<1>12. ASSUME NEW q \in Richiesta, Scade(q)
       PROVE  Aspetta(r)'
  <2>1. req[r] = "porta" /\ q # r /\ fila' = Senza(fila, q)
    BY <1>12 DEF Scade, Va, TipoReq
  <2> QED BY <1>2, <2>1, ScadeTiene
<1>13. ASSUME NEW q \in Richiesta, Finisce(q)
       PROVE  Aspetta(r)'
  <2>1. req[r] = "porta"
    BY <1>13 DEF Finisce, Notifica, Va, TipoReq
  <2>2. fila' = Append(fila, q) /\ q \in Attori
    BY <1>2, <1>13, <2>1 DEF Finisce, Attori
  <2> QED BY <1>4, <2>1, <2>2
<1>14. CASE ApplicaQos \/ ApplicaQosDopo
  <2>1. req[r] = "porta"
    BY <1>14 DEF ApplicaQos, ApplicaQosDopo
  <2>2. fila' = fila \/ fila' = Append(fila, Qos) \/ (Ha(Qos) /\ fila' = Tail(fila))
    BY <1>14 DEF ApplicaQos, ApplicaQosDopo
  <2> QED BY <1>1, <1>3, <1>4, <1>5, <2>1, <2>2
<1>15. CASE TickOccupato \/ TickSogna \/ SognoGenerato \/ NuovaMemoria \/ Tempo
  <2>1. UNCHANGED <<fila, req>>
    BY <1>15 DEF TickOccupato, TickSogna, SognoGenerato, NuovaMemoria, Tempo, slotvars
  <2> QED BY <1>3, <2>1
<1>16. CASE SognoRiesce \/ SognoFallisce \/ SognoRilasciaDopo
  <2>1. req[r] = "porta"
    BY <1>16 DEF SognoRiesce, SognoFallisce, SognoRilascia, SognoRilasciaDopo, Notifica, TipoReq
  <2>2. fila' = Append(fila, Sognatore) \/ (Ha(Sognatore) /\ fila' = Tail(fila))
    BY <1>2, <1>16, <2>1 DEF SognoRiesce, SognoFallisce, SognoRilascia, SognoRilasciaDopo
  <2> QED BY <1>1, <1>4, <1>5, <2>1, <2>2
<1>17. CASE Cade
  BY <1>17 DEF Cade, Riparte
<1> QED BY <1>6, <1>7, <1>8, <1>9, <1>10, <1>11, <1>12, <1>13, <1>14, <1>15, <1>16, <1>17
        DEF Next, Passo

-----------------------------------------------------------------------------
(* The idle time and the dreams. *)

\* Idle time restarts with whoever enters the limiter.
LEMMA PassoQuiete ==
  ASSUME TipoReq, TipoTempi, AmmissionePronta, QuieteVuota, Next
  PROVE  QuieteVuota'
<1> SUFFICES ASSUME quiete' # 0
             PROVE  fila' = <<>> /\ \A r \in Richiesta : req'[r] \in {"fuori", "dentro"}
  BY DEF QuieteVuota
<1>1. quiete # 0 => fila = <<>> /\ \A r \in Richiesta : req[r] \in {"fuori", "dentro"}
  BY DEF QuieteVuota
<1>2. ASSUME UNCHANGED <<fila, req, quiete>>
      PROVE  fila' = <<>> /\ \A r \in Richiesta : req'[r] \in {"fuori", "dentro"}
  BY <1>1, <1>2
<1>3. ASSUME NEW r \in Richiesta, Arriva(r)
      PROVE  FALSE
  BY <1>3 DEF Arriva
<1>4. ASSUME NEW r \in Richiesta, Passo(r) \/ Scade(r)
      PROVE  FALSE
  <2>1. quiete' = quiete /\ req[r] \notin {"fuori", "dentro"}
    BY <1>4 DEF Passo, EntraPorta, Prova, Sveglia, Rientra, Ottiene, Annulla, Rinuncia, Rilascia, Scade
  <2> QED BY <1>1, <2>1
<1>5. ASSUME NEW r \in Richiesta, Finisce(r)
      PROVE  fila' = <<>> /\ \A q \in Richiesta : req'[q] \in {"fuori", "dentro"}
  <2>1. quiete' = quiete
    BY <1>5 DEF Finisce
  <2>2. fila = <<>> /\ \A q \in Richiesta : req[q] \in {"fuori", "dentro"}
    BY <1>1, <2>1
  <2>3. fila' = fila /\ req' = Notifica([req EXCEPT ![r] = "fuori"])
    BY <1>5, <2>2 DEF Finisce
  <2> QED BY <2>2, <2>3 DEF Notifica, TipoReq
<1>6. CASE ApplicaQos \/ ApplicaQosDopo
  <2>1. quiete' = quiete
    BY <1>6 DEF ApplicaQos, ApplicaQosDopo
  <2>2. fila = <<>>
    BY <1>1, <2>1
  <2>3. UNCHANGED <<fila, req>>
    BY <1>6, <2>2 DEF ApplicaQos, ApplicaQosDopo, Ha
  <2> QED BY <1>2, <2>1, <2>3
<1>7. CASE TickOccupato
  BY <1>7 DEF TickOccupato
<1>8. CASE TickSogna \/ SognoGenerato \/ NuovaMemoria
  <2>1. UNCHANGED <<fila, req, quiete>>
    BY <1>8 DEF TickSogna, SognoGenerato, NuovaMemoria, slotvars
  <2> QED BY <1>2, <2>1
<1>9. CASE SognoRiesce \/ SognoFallisce \/ SognoRilasciaDopo
  <2>1. fila # <<>> /\ quiete' = quiete
    BY <1>9 DEF SognoRiesce, SognoFallisce, SognoRilascia, SognoRilasciaDopo
  <2> QED BY <1>1, <2>1
<1>10. CASE Tempo
  <2>1. fila = <<>> /\ (\A r \in Richiesta : req[r] \in {"fuori", "dentro"}) /\ UNCHANGED <<fila, req>>
    BY <1>10 DEF Tempo, slotvars
  <2> QED BY <2>1
<1>11. CASE Cade
  BY <1>11 DEF Cade, Riparte
<1> QED BY <1>3, <1>4, <1>5, <1>6, <1>7, <1>8, <1>9, <1>10, <1>11 DEF Next

\* A request that arrives interrupts the dream, and a dream starts only on a node
\* where nobody waits: the counters say so, and the free lock.
LEMMA PassoCede ==
  ASSUME TipoReq, TipoFila, TipoSogno, PostiContati, PortaInFila, SognoCede, Next
  PROVE  SognoCede'
<1> DEFINE Attende(q) == req[q] \in Accodate \union {"porta"}
<1> SUFFICES ASSUME NEW r \in Richiesta, Attende(r)', sogno'.pc = "genera"
             PROVE  FALSE
  BY DEF SognoCede, In, Accodate
<1>1. \A q \in Richiesta : Attende(q) => sogno.pc # "genera"
  BY DEF SognoCede, In
<1>2. ASSUME UNCHANGED <<req, sogno>>
      PROVE  FALSE
  BY <1>1, <1>2 DEF Accodate
<1>3. ASSUME NEW q \in Richiesta, Arriva(q)
      PROVE  FALSE
  BY <1>3 DEF Arriva, Interrotto, TipoSogno
<1>4. ASSUME NEW q \in Richiesta, EntraPorta(q) \/ Prova(q) \/ Sveglia(q) \/ Rientra(q) \/ Scade(q)
      PROVE  FALSE
  <2>1. sogno' = sogno /\ Attende(q)
    BY <1>4 DEF EntraPorta, Prova, Sveglia, Rientra, Scade, Accodate
  <2> QED BY <1>1, <2>1
<1>5. ASSUME NEW q \in Richiesta, Ottiene(q) \/ Rinuncia(q) \/ Annulla(q)
      PROVE  FALSE
  <2>1. sogno' = sogno /\ Attende(q)
    BY <1>5 DEF Ottiene, Rinuncia, Annulla, Accodate
  <2> QED BY <1>1, <2>1
<1>6. ASSUME NEW q \in Richiesta, Rilascia(q) \/ Finisce(q)
      PROVE  FALSE
  <2>1. sogno' = sogno /\ Attende(r)
    BY <1>6 DEF Rilascia, Finisce, Notifica, Va, TipoReq, Accodate
  <2> QED BY <1>1, <2>1
<1>7. CASE ApplicaQos \/ ApplicaQosDopo \/ TickOccupato \/ NuovaMemoria \/ Tempo
  <2>1. UNCHANGED <<req, sogno>>
    BY <1>7 DEF ApplicaQos, ApplicaQosDopo, TickOccupato, NuovaMemoria, Tempo, slotvars
  <2> QED BY <1>2, <2>1
<1>8. CASE TickSogna
  <2>1. req' = req /\ inCoda = 0 /\ fila = <<>>
    BY <1>8 DEF TickSogna, Riposo
  <2>2. \A q \in Richiesta : req[q] \notin Accodate
    BY <2>1, NessunoSeZero DEF PostiContati
  <2>3. req[r] = "porta"
    BY <2>1, <2>2 DEF Accodate
  <2> QED BY <2>1, <2>3 DEF PortaInFila, Aspetta
<1>9. CASE SognoGenerato \/ SognoRiesce \/ SognoFallisce \/ SognoRilasciaDopo \/ Cade
  BY <1>9 DEF SognoGenerato, SognoRiesce, SognoFallisce, SognoRilascia, SognoRilasciaDopo, Cade,
              Riparte, TipoSogno
<1> QED BY <1>3, <1>4, <1>5, <1>6, <1>7, <1>8, <1>9 DEF Next, Passo

\* A dream is about memories newer than the last ones dreamt, or than a state file
\* that was not written.
LEMMA PassoImpronta ==
  ASSUME TipoTempi, TipoSogno, ImprontaFedele, Next
  PROVE  ImprontaFedele'
<1> USE DEF ImprontaFedele, SognatoUnaVolta
<1>1. ASSUME UNCHANGED <<memoria, impronta, diario, tagliati>>,
             sogno'.pc \in {"genera", "finito"} => sogno.pc \in {"genera", "finito"}
                                                   /\ sogno'.memoria = sogno.memoria
      PROVE  ImprontaFedele'
  BY <1>1
<1>2. ASSUME NEW r \in Richiesta, Arriva(r) \/ Passo(r) \/ Scade(r) \/ Finisce(r)
      PROVE  ImprontaFedele'
  <2>1. sogno' = sogno \/ sogno'.pc = "annullato"
    BY <1>2 DEF Arriva, Interrotto, Passo, EntraPorta, Prova, Sveglia, Rientra, Ottiene, Scade,
                Annulla, Rinuncia, Finisce, Rilascia, TipoSogno
  <2>2. UNCHANGED <<memoria, impronta, diario, tagliati>>
    BY <1>2 DEF Arriva, Passo, EntraPorta, Prova, Sveglia, Rientra, Ottiene, Scade, Annulla,
                Rinuncia, Finisce, Rilascia, filevars
  <2> QED BY <1>1, <2>1, <2>2
<1>3. CASE ApplicaQos \/ ApplicaQosDopo \/ TickOccupato \/ Tempo
  <2>1. UNCHANGED <<sogno, memoria, impronta, diario, tagliati>>
    BY <1>3 DEF ApplicaQos, ApplicaQosDopo, TickOccupato, Tempo, filevars
  <2> QED BY <1>1, <2>1
<1>4. CASE SognoGenerato \/ SognoFallisce \/ SognoRilasciaDopo
  <2>1. UNCHANGED <<memoria, impronta, diario, tagliati>>
    BY <1>4 DEF SognoGenerato, SognoFallisce, SognoRilascia, SognoRilasciaDopo, filevars
  <2>2. sogno'.pc \in {"genera", "finito"} => sogno.pc \in {"genera", "finito"}
                                              /\ sogno'.memoria = sogno.memoria
    BY <1>4 DEF SognoGenerato, SognoFallisce, SognoRilascia, SognoRilasciaDopo, TipoSogno
  <2> QED BY <1>1, <2>1, <2>2
<1>5. CASE TickSogna
  <2>1. UNCHANGED <<memoria, impronta, diario, tagliati>> /\ sogno'.memoria = memoria /\ memoria # impronta
    BY <1>5 DEF TickSogna, filevars
  <2> QED BY <2>1 DEF TipoTempi, Versioni
<1>6. CASE NuovaMemoria
  <2>1. UNCHANGED <<sogno, impronta, diario, tagliati>> /\ memoria' = memoria + 1
    BY <1>6 DEF NuovaMemoria, filevars
  <2> QED BY <2>1 DEF TipoTempi, TipoSogno, Versioni
<1>7. sogno.memoria \in Nat /\ impronta \in Nat /\ memoria \in Nat /\ Versioni \subseteq Nat
  BY Costanti DEF TipoTempi, TipoSogno, Versioni
<1>8. ASSUME sogno.pc = "finito", diario' = Annota(sogno.memoria)
      PROVE  /\ \A v \in Versioni : v # sogno.memoria => diario'[v] = diario[v]
             /\ diario'[sogno.memoria] = 2 => sogno.memoria \in tagliati
  <2>1. \A v \in Versioni : v # sogno.memoria => diario'[v] = diario[v]
    BY <1>8 DEF Annota, TipoSogno
  <2>2. diario'[sogno.memoria] = 2 => diario[sogno.memoria] # 0
    BY <1>8 DEF Annota, TipoSogno
  <2>3. sogno.memoria \in Versioni /\ impronta < sogno.memoria
    BY <1>8 DEF TipoSogno
  <2>4. diario[sogno.memoria] # 0 => sogno.memoria \in tagliati
    BY <1>7, <2>3
  <2> QED BY <2>1, <2>2, <2>4
<1>9. CASE SognoRiesce
  <2>1. /\ sogno.pc = "finito" /\ diario' = Annota(sogno.memoria)
        /\ impronta' = sogno.memoria /\ UNCHANGED <<memoria, tagliati>>
    BY <1>9 DEF SognoRiesce, SognoRilascia
  <2>2. sogno'.pc \in {"fermo", "rilascia"}
    BY <1>9 DEF SognoRiesce, SognoRilascia, TipoSogno
  <2>3. impronta < sogno.memoria /\ sogno.memoria <= memoria
    BY <2>1
  <2>4. \A v \in Versioni : diario'[v] # 0 => v <= impronta' \/ v \in tagliati'
    BY <1>7, <1>8, <2>1, <2>3
  <2>5. \A v \in Versioni : diario'[v] = 2 => v \in tagliati'
    BY <1>8, <2>1
  <2> QED BY <2>1, <2>2, <2>3, <2>4, <2>5
<1>10. CASE Cade
  <2>1. sogno'.pc = "fermo" /\ UNCHANGED <<memoria, impronta>>
    BY <1>10 DEF Cade, Riparte
  <2>2. CASE UNCHANGED <<diario, tagliati>>
    BY <2>1, <2>2
  <2>3. CASE /\ sogno.pc = "finito" /\ diario' = Annota(sogno.memoria)
             /\ tagliati' = tagliati \union {sogno.memoria}
    <3>1. \A v \in Versioni : v # sogno.memoria => diario'[v] = diario[v]
      BY <1>8, <2>3
    <3> QED BY <2>1, <2>3, <3>1
  <2> QED BY <1>10, <2>2, <2>3 DEF Cade
<1> QED BY <1>2, <1>3, <1>4, <1>5, <1>6, <1>9, <1>10 DEF Next

LEMMA IInvPasso == IInv /\ [Next]_vars => IInv'
<1> SUFFICES ASSUME IInv, [Next]_vars PROVE IInv'
  OBVIOUS
<1> USE DEF IInv, TipoBase
<1>1. CASE Next
  BY <1>1, PassoPosti, PassoFila, PassoReq, PassoTempi, PassoSogno, PassoConta, PassoAmmissione,
     PassoPorta, PassoQuiete, PassoCede, PassoImpronta
<1>2. CASE UNCHANGED vars
  <2> USE <1>2 DEF vars, slotvars, filevars
  <2>1. (TipoPosti /\ TipoFila /\ TipoReq /\ TipoTempi /\ TipoSogno)'
    BY DEF TipoPosti, TipoFila, TipoReq, TipoTempi, TipoSogno
  <2>2. PostiContati'
    BY DEF PostiContati, In, Accodate
  <2>3. (AmmissionePronta /\ PortaInFila /\ QuieteVuota)'
    BY DEF AmmissionePronta, PortaInFila, QuieteVuota, Ha, Aspetta
  <2>4. (SognoCede /\ ImprontaFedele)'
    BY DEF SognoCede, ImprontaFedele, SognatoUnaVolta, In, Accodate
  <2> QED BY <2>1, <2>2, <2>3, <2>4
<1> QED BY <1>1, <1>2

LEMMA IInvSempre == Spec => []IInv
BY IInvInit, IInvPasso, PTL DEF Spec

-----------------------------------------------------------------------------
(* The theorems. *)

\* The two counters are natural numbers because they count.
LEMMA IInvTipi == ASSUME IInv PROVE TypeOK
<1>1. inCoda \in Nat /\ inVolo \in Nat
  BY NessunoSeZero DEF IInv, PostiContati
<1> QED BY <1>1 DEF IInv, TipoBase, TipoPosti, TipoFila, TipoReq, TipoTempi, TipoSogno, TypeOK

LEMMA IInvOrdinato == ASSUME IInv PROVE NodoOrdinato
<1>1. LucchettoLibero
  BY Costanti DEF IInv, QuieteVuota, LucchettoLibero
<1> QED BY <1>1 DEF IInv, ImprontaFedele, NodoOrdinato

\* The limiter, the dreams and their files keep their types, the counters included.
THEOREM TipoCorretto == Spec => []TypeOK
<1>1. IInv => TypeOK
  BY IInvTipi
<1> QED BY <1>1, IInvSempre, PTL

\* For every number of requests and every capacity: slots and places in the queue are
\* counted, no dream generates while a request waits, a node that counts as idle has its
\* lock free, and the same memories are dreamt once unless the state file missed a dream.
THEOREM NodoSempreOrdinato == Spec => []NodoOrdinato
<1>1. IInv => NodoOrdinato
  BY IInvOrdinato
<1> QED BY <1>1, IInvSempre, PTL

\* Only an admission and the start of a dream take a slot, and both found one free.
LEMMA PassoEntroPosti ==
  ASSUME IInv, [Next]_vars
  PROVE  AmmissioneEntroPosti
<1> SUFFICES ASSUME inVolo' > inVolo PROVE inVolo' <= posti
  BY DEF AmmissioneEntroPosti
<1>1. inVolo \in Nat /\ posti \in Nat /\ 1 <= posti
  BY NessunoSeZero, Costanti DEF IInv, TipoBase, TipoPosti, PostiContati
<1>2. ASSUME NEW r \in Richiesta, Ottiene(r)
      PROVE  inVolo' <= posti
  <2>1. req[r] = "ottiene" /\ inVolo' = inVolo + 1
    BY <1>2 DEF Ottiene
  <2> QED BY <1>1, <2>1 DEF IInv, AmmissionePronta
<1>3. CASE TickSogna
  BY <1>1, <1>3 DEF TickSogna, Riposo
<1>4. inVolo' \in {inVolo, Meno(inVolo), 0} => FALSE
  BY <1>1 DEF Meno
<1>5. ASSUME NEW r \in Richiesta,
             \/ Arriva(r) \/ EntraPorta(r) \/ Prova(r) \/ Sveglia(r) \/ Rientra(r)
             \/ Scade(r) \/ Annulla(r) \/ Rinuncia(r) \/ Rilascia(r) \/ Finisce(r)
      PROVE  inVolo' \in {inVolo, Meno(inVolo)}
  BY <1>5 DEF Arriva, EntraPorta, Prova, Sveglia, Rientra, Scade, Annulla, Rinuncia, Rilascia, Finisce
<1>6. ASSUME \/ ApplicaQos \/ ApplicaQosDopo \/ TickOccupato \/ SognoGenerato \/ SognoRiesce
             \/ SognoFallisce \/ SognoRilasciaDopo \/ NuovaMemoria \/ Tempo \/ Cade
      PROVE  inVolo' \in {inVolo, Meno(inVolo), 0}
  BY <1>6 DEF ApplicaQos, ApplicaQosDopo, TickOccupato, SognoGenerato, SognoRiesce, SognoFallisce,
              SognoRilascia, SognoRilasciaDopo, NuovaMemoria, Tempo, Cade, Riparte, slotvars
<1>7. CASE UNCHANGED vars
  BY <1>4, <1>7 DEF vars, slotvars
<1> QED BY <1>2, <1>3, <1>4, <1>5, <1>6, <1>7 DEF Next, Passo

\* A request goes to sleep only when its test found no slot, and every release wakes
\* all who sleep.
LEMMA PassoRisveglio ==
  ASSUME IInv, [Next]_vars
  PROVE  NessunRisveglioPerso
<1>1. inVolo \in Nat /\ posti \in Nat /\ posti' \in Nat /\ TipoReq
  <2>1. TipoPosti'
    BY PassoPosti DEF IInv, TipoBase, vars, slotvars, TipoPosti
  <2> QED BY <2>1, NessunoSeZero, Costanti DEF IInv, TipoBase, TipoPosti, PostiContati
<1> SUFFICES ASSUME NEW r \in Richiesta, req'[r] = "attesa", inVolo' < posti', ~(posti' > posti)
             PROVE  \E q \in Richiesta : req[q] = "attesa" /\ inVolo < posti
  BY <1>1 DEF NessunRisveglioPerso, Dorme, In
<1>2. ASSUME req[r] = "attesa", inVolo' = inVolo \/ inVolo' = inVolo + 1
      PROVE  \E q \in Richiesta : req[q] = "attesa" /\ inVolo < posti
  BY <1>1, <1>2
<1>3. ASSUME NEW f \in [Richiesta -> Luoghi], req' = Notifica(f)
      PROVE  FALSE
  BY <1>3 DEF Notifica
<1>4. ASSUME NEW q \in Richiesta,
             Arriva(q) \/ EntraPorta(q) \/ Ottiene(q) \/ Scade(q) \/ Annulla(q) \/ Rinuncia(q)
      PROVE  req[r] = "attesa" /\ (inVolo' = inVolo \/ inVolo' = inVolo + 1)
  BY <1>1, <1>4 DEF Arriva, EntraPorta, Acquisisce, Ottiene, Scade, Annulla, Rinuncia, Va, TipoReq
<1>5. ASSUME NEW q \in Richiesta, Prova(q) \/ Sveglia(q) \/ Rientra(q)
      PROVE  req[r] = "attesa" /\ inVolo' = inVolo
  <2>1. UNCHANGED <<inVolo, posti>>
    BY <1>5 DEF Prova, Sveglia, Rientra
  <2>2. inVolo < posti
    BY <2>1
  <2>3. Va(q, "ottiene") \/ Va(q, "rientra")
    BY <1>5, <2>2 DEF Prova, Sveglia, Rientra, Verifica
  <2> QED BY <1>1, <2>1, <2>3 DEF Va, TipoReq
<1>6. ASSUME NEW q \in Richiesta, Rilascia(q) \/ Finisce(q)
      PROVE  \E p \in Richiesta : req[p] = "attesa" /\ inVolo < posti
  <2>1. CASE req' = Notifica([req EXCEPT ![q] = "fuori"])
    BY <1>1, <1>3, <2>1 DEF TipoReq, Luoghi
  <2>2. CASE Va(q, "rilascia") /\ inVolo' = inVolo
    BY <1>1, <1>2, <2>2 DEF Va, TipoReq
  <2> QED BY <1>6, <2>1, <2>2 DEF Rilascia, Finisce
<1>7. CASE SognoRiesce \/ SognoFallisce \/ SognoRilasciaDopo
  <2>1. req' = Notifica(req) \/ (req' = req /\ inVolo' = inVolo)
    BY <1>7 DEF SognoRiesce, SognoFallisce, SognoRilascia, SognoRilasciaDopo
  <2> QED BY <1>1, <1>2, <1>3, <2>1 DEF TipoReq
<1>8. CASE ApplicaQos \/ ApplicaQosDopo \/ TickOccupato \/ TickSogna \/ SognoGenerato \/ NuovaMemoria
           \/ Tempo \/ UNCHANGED vars
  <2>1. req' = req /\ (inVolo' = inVolo \/ inVolo' = inVolo + 1)
    BY <1>8 DEF ApplicaQos, ApplicaQosDopo, TickOccupato, TickSogna, SognoGenerato, NuovaMemoria,
                Tempo, vars, slotvars
  <2> QED BY <1>2, <2>1
<1>9. CASE Cade
  BY <1>9 DEF Cade, Riparte
<1> QED BY <1>2, <1>4, <1>5, <1>6, <1>7, <1>8, <1>9 DEF Next, Passo

\* For every number of requests and every capacity: no step admits beyond the capacity of
\* that moment, or leaves a request asleep beside a free slot, unless the capacity grew.
THEOREM PassiSempreAmmessi == Spec => PassiAmmessi
<1>1. IInv /\ [Next]_vars => [AmmissioneEntroPosti /\ NessunRisveglioPerso]_vars
  BY PassoEntroPosti, PassoRisveglio
<1> QED BY <1>1, IInvSempre, PTL DEF Spec, PassiAmmessi

-----------------------------------------------------------------------------
(* The federation. *)

Liste == [CP -> [CP -> Fed!Riga]]
Cambi == [fase : {"fermo", "letto"}, peer : CP, nuovo : {"acceso", "spento"}]
Inoltri == [fase : {"nuovo", "prova", "attende", "fatto", "fallito"}, da : CP,
            resto : SUBSET CP, verso : CP]
Stadi == {"mai", "in arrivo", "respinto", "esegue", "fatto", "fallito", "guasto"}

\* A task is at the peers its origin called, and the origin gave up on all of them but
\* the one it waits for.
UnoAllaVolta ==
  \A t \in Task :
    /\ inoltro[t].fase = "nuovo" => chiesti[t] = {}
    /\ \A p \in CP : lavoro[t][p] # "mai" => p \in chiesti[t]
    /\ \A p \in chiesti[t] :
         p \in persi[t] \/ (p = inoltro[t].verso /\ inoltro[t].fase \in {"attende", "fatto"})

InvInoltri == Fed!TypeOK /\ UnoAllaVolta

LEMMA TipiFederazione ==
  Fed!TypeOK <=>
    /\ lista \in Liste /\ cambio \in [CP -> Cambi] /\ inoltro \in [Task -> Inoltri]
    /\ lavoro \in [Task -> [CP -> Stadi]]
    /\ chiesti \in [Task -> SUBSET CP] /\ persi \in [Task -> SUBSET CP] /\ gesti \in 0..MaxGesti
BY DEF Fed!TypeOK, Liste, Cambi, Inoltri, Stadi

\* The lists with one row changed.
ConRiga(c, p, riga) == [lista EXCEPT ![c] = [lista[c] EXCEPT ![p] = riga]]

LEMMA RigaCambiata ==
  ASSUME lista \in Liste, NEW c \in CP, NEW p \in CP, NEW riga \in Fed!Riga
  PROVE  /\ ConRiga(c, p, riga) \in Liste
         /\ ConRiga(c, p, riga)[c][p] = riga
         /\ \A d, q \in CP : (d = c /\ q = p) \/ ConRiga(c, p, riga)[d][q] = lista[d][q]
<1>1. lista[c] \in [CP -> Fed!Riga]
  BY DEF Liste
<1>2. [lista[c] EXCEPT ![p] = riga] \in [CP -> Fed!Riga]
  BY <1>1
<1> QED BY <1>1, <1>2 DEF Liste, ConRiga

LEMMA RigaTipo ==
  ASSUME lista \in Liste, NEW c \in CP, NEW p \in CP
  PROVE  /\ \A v \in {"unknown", "ok", "unreachable", "no_capacity", "error"} :
              /\ [lista[c][p] EXCEPT !.visto = v] \in Fed!Riga
              /\ [lista[c][p] EXCEPT !.visto = v].c = lista[c][p].c
         /\ \A s \in {"acceso", "spento"} : [lista[c][p] EXCEPT !.c = s] \in Fed!Riga
<1>1. lista[c][p] \in Fed!Riga
  BY DEF Liste
<1> QED BY <1>1 DEF Fed!Riga

\* A row that is touched stays in the list as it was, on or off, and is not made.
LEMMA ToccaRiga ==
  ASSUME lista \in Liste, NEW c \in CP, NEW p \in CP,
         NEW s \in {"unknown", "ok", "unreachable", "no_capacity", "error"}
  PROVE  /\ Fed!Tocca(c, p, s) \in Liste
         /\ \A d, q \in CP : Fed!Tocca(c, p, s)[d][q].c = lista[d][q].c
<1>1. CASE lista[c][p].c = "assente"
  BY <1>1 DEF Fed!Tocca
<1>2. CASE lista[c][p].c # "assente"
  <2>1. Fed!Tocca(c, p, s) = [lista EXCEPT ![c][p].visto = s]
    BY <1>2 DEF Fed!Tocca
  <2>2. Fed!Tocca(c, p, s) = ConRiga(c, p, [lista[c][p] EXCEPT !.visto = s])
    BY <2>1 DEF ConRiga
  <2>3. PICK riga \in Fed!Riga : riga = [lista[c][p] EXCEPT !.visto = s] /\ riga.c = lista[c][p].c
    BY RigaTipo
  <2>4. Fed!Tocca(c, p, s) = ConRiga(c, p, riga)
    BY <2>2, <2>3
  <2>5. /\ ConRiga(c, p, riga) \in Liste /\ ConRiga(c, p, riga)[c][p] = riga
        /\ \A d, q \in CP : (d = c /\ q = p) \/ ConRiga(c, p, riga)[d][q] = lista[d][q]
    BY RigaCambiata
  <2>6. ASSUME NEW d \in CP, NEW q \in CP PROVE ConRiga(c, p, riga)[d][q].c = lista[d][q].c
    BY <2>3, <2>5
  <2> QED BY <2>4, <2>5, <2>6
<1> QED BY <1>1, <1>2

LEMMA FederazioneInit == Fed!FederationAssumption /\ Fed!Init => InvInoltri
<1> SUFFICES ASSUME Fed!FederationAssumption, Fed!Init PROVE InvInoltri
  OBVIOUS
<1>2. (CHOOSE d \in CP : TRUE) \in CP
  BY DEF Fed!FederationAssumption
<1>3. lista \in Liste
  BY DEF Fed!Init, Fed!Assente, Liste, Fed!Riga
<1>4. cambio \in [CP -> Cambi] /\ inoltro \in [Task -> Inoltri]
  BY <1>2 DEF Fed!Init, Fed!Nessuno, Fed!Fermo, Cambi, Inoltri
<1>5. /\ lavoro \in [Task -> [CP -> Stadi]]
      /\ chiesti \in [Task -> SUBSET CP] /\ persi \in [Task -> SUBSET CP] /\ gesti \in 0..MaxGesti
  BY DEF Fed!Init, Stadi, Fed!FederationAssumption
<1>6. UnoAllaVolta
  BY DEF Fed!Init, UnoAllaVolta
<1> QED BY <1>3, <1>4, <1>5, <1>6, TipiFederazione DEF InvInoltri

\* The gestures of the operator change the lists only.
LEMMA GestiFederazione ==
  ASSUME Fed!FederationAssumption, InvInoltri, NEW c \in CP,
         Fed!ScriveCambio(c) \/ \E p \in CP : Fed!Accoppia(c, p) \/ Fed!LeggeCambio(c, p) \/ Fed!Rimuove(c, p)
  PROVE  InvInoltri'
<1>a. /\ lista \in Liste /\ cambio \in [CP -> Cambi] /\ gesti \in 0..MaxGesti /\ MaxGesti \in Nat
  BY TipiFederazione DEF InvInoltri, Fed!FederationAssumption
<1>1. UNCHANGED <<inoltro, lavoro, chiesti, persi>>
  BY DEF Fed!ScriveCambio, Fed!Accoppia, Fed!LeggeCambio, Fed!Rimuove
<1>2. gesti' \in 0..MaxGesti
  BY <1>a DEF Fed!ScriveCambio, Fed!Accoppia, Fed!LeggeCambio, Fed!Rimuove, Fed!Gesto
<1>3. lista' \in Liste /\ cambio' \in [CP -> Cambi]
  <2>1. ASSUME NEW p \in CP, Fed!Accoppia(c, p) PROVE lista' \in Liste /\ cambio' \in [CP -> Cambi]
    <3>1. lista' = ConRiga(c, p, [lista[c][p] EXCEPT !.c = "acceso"])
      BY <2>1 DEF Fed!Accoppia, ConRiga
    <3>2. lista' \in Liste
      BY <1>a, <3>1, RigaTipo, RigaCambiata
    <3> QED BY <2>1, <1>a, <3>2 DEF Fed!Accoppia
  <2>2. ASSUME NEW p \in CP, Fed!LeggeCambio(c, p) PROVE lista' \in Liste /\ cambio' \in [CP -> Cambi]
    BY <2>2, <1>a DEF Fed!LeggeCambio, Cambi
  <2>3. ASSUME NEW p \in CP, Fed!Rimuove(c, p) PROVE lista' \in Liste /\ cambio' \in [CP -> Cambi]
    BY <2>3, <1>a DEF Fed!Rimuove, Liste, Fed!Riga, Fed!Assente
  <2>4. CASE Fed!ScriveCambio(c)
    <3>1. cambio[c].peer \in CP /\ cambio[c].nuovo \in {"acceso", "spento"}
      BY <1>a DEF Cambi
    <3>2. lista' \in Liste
      <4> DEFINE p == cambio[c].peer
      <4>1. lista' = lista \/ lista' = ConRiga(c, p, [lista[c][p] EXCEPT !.c = cambio[c].nuovo])
        BY <2>4 DEF Fed!ScriveCambio, ConRiga
      <4>2. PICK riga \in Fed!Riga : riga = [lista[c][p] EXCEPT !.c = cambio[c].nuovo]
        BY <1>a, <3>1, RigaTipo
      <4>3. lista' = lista \/ lista' = ConRiga(c, p, riga)
        BY <4>1, <4>2
      <4>4. p \in CP
        BY <3>1
      <4> HIDE DEF p
      <4> QED BY <1>a, <4>3, <4>4, RigaCambiata
    <3>3. Fed!Nessuno \in Cambi
      BY DEF Fed!Nessuno, Cambi
    <3> QED BY <2>4, <1>a, <3>2, <3>3 DEF Fed!ScriveCambio
  <2> QED BY <2>1, <2>2, <2>3, <2>4
<1>4. Fed!TypeOK'
  BY <1>1, <1>2, <1>3 DEF InvInoltri, Fed!TypeOK, Liste, Cambi
<1>5. UnoAllaVolta'
  BY <1>1 DEF InvInoltri, UnoAllaVolta
<1> QED BY <1>4, <1>5 DEF InvInoltri

\* A step of the origin or of a peer concerns one task.
LEMMA PassoInoltro ==
  ASSUME Fed!FederationAssumption, InvInoltri, NEW t \in Task, NEW c \in CP,
         Fed!Risposta(t) \/ Fed!Rinuncia(t) \/ Fed!Parte(t, c) \/ Fed!Chiama(t, c) \/ Fed!Riceve(t, c) \/ Fed!Esegue(t, c)
  PROVE  InvInoltri'
<1>a. /\ lista \in Liste /\ cambio \in [CP -> Cambi] /\ inoltro \in [Task -> Inoltri]
      /\ lavoro \in [Task -> [CP -> Stadi]]
      /\ chiesti \in [Task -> SUBSET CP] /\ persi \in [Task -> SUBSET CP] /\ gesti \in 0..MaxGesti
  BY TipiFederazione DEF InvInoltri
<1>b. /\ inoltro[t].fase = "nuovo" => chiesti[t] = {}
      /\ \A p \in CP : lavoro[t][p] # "mai" => p \in chiesti[t]
      /\ \A p \in chiesti[t] :
           p \in persi[t] \/ (p = inoltro[t].verso /\ inoltro[t].fase \in {"attende", "fatto"})
  BY DEF InvInoltri, UnoAllaVolta
<1>c. inoltro[t].da \in CP /\ inoltro[t].verso \in CP
  BY <1>a DEF Inoltri
<1>d. ASSUME NEW s \in Stadi, lavoro' = [lavoro EXCEPT ![t][c] = s]
      PROVE  /\ lavoro' \in [Task -> [CP -> Stadi]]
             /\ \A u \in Task \ {t} : lavoro'[u] = lavoro[u]
             /\ lavoro'[t][c] = s /\ \A p \in CP \ {c} : lavoro'[t][p] = lavoro[t][p]
  BY <1>a, <1>d
<1> DEFINE Resto ==
      /\ lista' \in Liste /\ cambio' = cambio /\ gesti' = gesti
      /\ inoltro' \in [Task -> Inoltri] /\ lavoro' \in [Task -> [CP -> Stadi]]
      /\ chiesti' \in [Task -> SUBSET CP] /\ persi' \in [Task -> SUBSET CP]
      /\ \A u \in Task \ {t} : /\ inoltro'[u] = inoltro[u] /\ lavoro'[u] = lavoro[u]
                               /\ chiesti'[u] = chiesti[u] /\ persi'[u] = persi[u]
<1> DEFINE Suo ==
      /\ inoltro'[t].fase = "nuovo" => chiesti'[t] = {}
      /\ \A p \in CP : lavoro'[t][p] # "mai" => p \in chiesti'[t]
      /\ \A p \in chiesti'[t] :
           p \in persi'[t] \/ (p = inoltro'[t].verso /\ inoltro'[t].fase \in {"attende", "fatto"})
<1>1. ASSUME Fed!Parte(t, c) PROVE Resto /\ Suo
  <2>1. [Fed!Fermo EXCEPT !.fase = "prova", !.da = c, !.resto = Fed!Accesi(c)] \in Inoltri
    BY DEF Fed!Fermo, Inoltri, Fed!Accesi
  <2>2. Resto
    BY <1>1, <1>a, <2>1 DEF Fed!Parte
  <2>3. Suo
    BY <1>1, <1>a, <1>b DEF Fed!Parte, Fed!Fermo
  <2> QED BY <2>2, <2>3
<1>2. ASSUME Fed!Chiama(t, c) PROVE Resto /\ Suo
  <2>1. [inoltro[t] EXCEPT !.fase = "attende", !.verso = c, !.resto = inoltro[t].resto \ {c}] \in Inoltri
    BY <1>a DEF Inoltri
  <2>2. inoltro' = [inoltro EXCEPT ![t] =
          [inoltro[t] EXCEPT !.fase = "attende", !.verso = c, !.resto = inoltro[t].resto \ {c}]]
    BY <1>2 DEF Fed!Chiama
  <2>3. Resto
    BY <1>2, <1>a, <2>1, <2>2 DEF Fed!Chiama, Stadi
  <2>4. inoltro'[t].verso = c /\ inoltro'[t].fase = "attende" /\ inoltro[t].fase = "prova"
    BY <1>2, <1>a, <2>2 DEF Fed!Chiama, Inoltri
  <2>5. chiesti'[t] = chiesti[t] \union {c} /\ persi'[t] = persi[t]
        /\ \A p \in CP \ {c} : lavoro'[t][p] = lavoro[t][p]
    BY <1>2, <1>a DEF Fed!Chiama
  <2>6. Suo
    BY <1>b, <2>4, <2>5
  <2> QED BY <2>3, <2>6
<1>3. ASSUME Fed!Risposta(t) PROVE Resto /\ Suo
  <2>1. /\ Fed!Tocca(inoltro[t].da, inoltro[t].verso, "ok") \in Liste
        /\ Fed!Tocca(inoltro[t].da, inoltro[t].verso, "unreachable") \in Liste
    BY <1>a, <1>c, ToccaRiga
  <2>2. lista' \in Liste
    BY <1>3, <2>1 DEF Fed!Risposta
  <2>6. /\ inoltro' \in [Task -> Inoltri] /\ persi' \in [Task -> SUBSET CP]
        /\ \A u \in Task \ {t} : inoltro'[u] = inoltro[u] /\ persi'[u] = persi[u]
    <3>1. [inoltro[t] EXCEPT !.fase = "fatto"] \in Inoltri /\ [inoltro[t] EXCEPT !.fase = "prova"] \in Inoltri
      BY <1>a DEF Inoltri
    <3>2. \/ inoltro' = [inoltro EXCEPT ![t] = [inoltro[t] EXCEPT !.fase = "fatto"]] /\ persi' = persi
          \/ /\ inoltro' = [inoltro EXCEPT ![t] = [inoltro[t] EXCEPT !.fase = "prova"]]
             /\ persi' = [persi EXCEPT ![t] = persi[t] \union {inoltro[t].verso}]
      BY <1>3 DEF Fed!Risposta
    <3>3. CASE inoltro' = [inoltro EXCEPT ![t] = [inoltro[t] EXCEPT !.fase = "fatto"]] /\ persi' = persi
      BY <1>a, <3>1, <3>3
    <3>4. CASE /\ inoltro' = [inoltro EXCEPT ![t] = [inoltro[t] EXCEPT !.fase = "prova"]]
               /\ persi' = [persi EXCEPT ![t] = persi[t] \union {inoltro[t].verso}]
      BY <1>a, <1>c, <3>1, <3>4
    <3> QED BY <3>2, <3>3, <3>4
  <2>3. Resto
    BY <1>3, <1>a, <2>2, <2>6 DEF Fed!Risposta
  <2>4. /\ inoltro[t].fase = "attende" /\ inoltro'[t].verso = inoltro[t].verso
        /\ lavoro' = lavoro /\ chiesti' = chiesti
        /\ \/ inoltro'[t].fase = "fatto" /\ persi' = persi
           \/ inoltro'[t].fase = "prova" /\ persi'[t] = persi[t] \union {inoltro[t].verso}
    BY <1>3, <1>a DEF Fed!Risposta, Inoltri
  <2>5. Suo
    BY <1>b, <2>4
  <2> QED BY <2>3, <2>5
<1>4. ASSUME Fed!Rinuncia(t) PROVE Resto /\ Suo
  <2>1. Resto
    BY <1>4, <1>a DEF Fed!Rinuncia, Inoltri
  <2>2. Suo
    BY <1>4, <1>a, <1>b DEF Fed!Rinuncia, Inoltri
  <2> QED BY <2>1, <2>2
<1>5. ASSUME Fed!Riceve(t, c) PROVE Resto /\ Suo
  <2>1. Fed!Tocca(c, inoltro[t].da, "no_capacity") \in Liste
    BY <1>a, <1>c, ToccaRiga
  <2>2. lista' \in Liste
    BY <1>5, <1>a, <2>1 DEF Fed!Riceve
  <2>3. PICK s \in {"respinto", "esegue"} : lavoro' = [lavoro EXCEPT ![t][c] = s]
    BY <1>5 DEF Fed!Riceve
  <2>5. Resto
    BY <1>5, <1>a, <2>2, <2>3, <1>d DEF Fed!Riceve, Stadi
  <2>6. lavoro[t][c] # "mai" /\ UNCHANGED <<inoltro, chiesti, persi>>
    BY <1>5 DEF Fed!Riceve
  <2>7. \A p \in CP \ {c} : lavoro'[t][p] = lavoro[t][p]
    BY <1>d, <2>3 DEF Stadi
  <2> QED BY <1>b, <2>5, <2>6, <2>7
<1>6. ASSUME Fed!Esegue(t, c) PROVE Resto /\ Suo
  <2>1. /\ Fed!Tocca(c, inoltro[t].da, "ok") \in Liste
        /\ Fed!Tocca(c, inoltro[t].da, "error") \in Liste
    BY <1>a, <1>c, ToccaRiga
  <2>2. lista' \in Liste
    BY <1>6, <1>a, <2>1 DEF Fed!Esegue
  <2>3. PICK s \in {"fatto", "fallito", "guasto"} : lavoro' = [lavoro EXCEPT ![t][c] = s]
    BY <1>6 DEF Fed!Esegue
  <2>5. Resto
    BY <1>6, <1>a, <2>2, <2>3, <1>d DEF Fed!Esegue, Stadi
  <2>6. lavoro[t][c] # "mai" /\ UNCHANGED <<inoltro, chiesti, persi>>
    BY <1>6 DEF Fed!Esegue
  <2>7. \A p \in CP \ {c} : lavoro'[t][p] = lavoro[t][p]
    BY <1>d, <2>3 DEF Stadi
  <2> QED BY <1>b, <2>5, <2>6, <2>7
<1>7. Resto /\ Suo
  BY <1>1, <1>2, <1>3, <1>4, <1>5, <1>6
<1>8. Fed!TypeOK'
  BY <1>7, <1>a DEF Fed!TypeOK, Liste, Cambi, Inoltri, Stadi
<1>9. UnoAllaVolta'
  <2> SUFFICES ASSUME NEW u \in Task
      PROVE /\ inoltro'[u].fase = "nuovo" => chiesti'[u] = {}
            /\ \A p \in CP : lavoro'[u][p] # "mai" => p \in chiesti'[u]
            /\ \A p \in chiesti'[u] :
                 p \in persi'[u] \/ (p = inoltro'[u].verso /\ inoltro'[u].fase \in {"attende", "fatto"})
    BY DEF UnoAllaVolta
  <2>1. CASE u = t
    BY <1>7, <2>1
  <2>2. CASE u # t
    BY <1>7, <2>2 DEF InvInoltri, UnoAllaVolta
  <2> QED BY <2>1, <2>2
<1> QED BY <1>8, <1>9 DEF InvInoltri

LEMMA FederazioneNext == Fed!FederationAssumption /\ InvInoltri /\ [Fed!Next]_Fed!vars => InvInoltri'
<1> SUFFICES ASSUME Fed!FederationAssumption, InvInoltri, [Fed!Next]_Fed!vars PROVE InvInoltri'
  OBVIOUS
<1>1. CASE UNCHANGED Fed!vars
  BY <1>1 DEF Fed!vars, InvInoltri, Fed!TypeOK, UnoAllaVolta
<1>2. ASSUME NEW t \in Task, Fed!Risposta(t) \/ Fed!Rinuncia(t) PROVE InvInoltri'
  <2>1. PICK c \in CP : TRUE
    BY DEF Fed!FederationAssumption
  <2> QED BY <1>2, <2>1, PassoInoltro
<1> QED BY <1>1, <1>2, PassoInoltro, GestiFederazione DEF Fed!Next

\* Lists, forwards and tasks keep their types.
THEOREM TipiDellaFederazione == Fed!FederationAssumption => (Fed!Spec => []Fed!TypeOK)
<1> SUFFICES ASSUME Fed!FederationAssumption PROVE Fed!Spec => []Fed!TypeOK
  OBVIOUS
<1>1. InvInoltri => Fed!TypeOK
  BY DEF InvInoltri
<1> QED BY <1>1, FederazioneInit, FederazioneNext, PTL DEF Fed!Spec

\* A forwarded task runs only where its origin sent it (federate_execute).
THEOREM UnSaltoSolo == Fed!FederationAssumption => (Fed!Spec => []Fed!UnSoloSalto)
<1> SUFFICES ASSUME Fed!FederationAssumption PROVE Fed!Spec => []Fed!UnSoloSalto
  OBVIOUS
<1>1. InvInoltri => Fed!UnSoloSalto
  BY DEF InvInoltri, UnoAllaVolta, Fed!UnSoloSalto, Fed!Eseguito
<1> QED BY <1>1, FederazioneInit, FederazioneNext, PTL DEF Fed!Spec

\* A task runs on a second control plane only after its origin gave up on the first
\* (_try_federated_execution).
THEOREM DoppioneConRagione == Fed!FederationAssumption => (Fed!Spec => []Fed!DoppioneSpiegato)
<1> SUFFICES ASSUME Fed!FederationAssumption PROVE Fed!Spec => []Fed!DoppioneSpiegato
  OBVIOUS
<1>1. InvInoltri => Fed!DoppioneSpiegato
  BY DEF InvInoltri, UnoAllaVolta, Fed!DoppioneSpiegato, Fed!Eseguito
<1> QED BY <1>1, FederazioneInit, FederazioneNext, PTL DEF Fed!Spec

\* A peer that was removed comes back by pairing only: neither an answer in flight nor a
\* toggle that had read its row writes it again (shared/db.py).
THEOREM RimossoPerSempre == Fed!FederationAssumption => (Fed!Spec => Fed!RimossoResta)
<1> SUFFICES ASSUME Fed!FederationAssumption PROVE Fed!Spec => Fed!RimossoResta
  OBVIOUS
<1>1. InvInoltri /\ [Fed!Next]_Fed!vars => [Fed!PassoRimosso]_Fed!vars
  <2> SUFFICES ASSUME InvInoltri, Fed!Next, NEW c \in CP, NEW p \in CP,
                      lista[c][p].c = "assente", lista'[c][p].c # "assente"
      PROVE Fed!Accoppia(c, p)
    BY DEF Fed!PassoRimosso
  <2>a. /\ lista \in Liste /\ cambio \in [CP -> Cambi] /\ inoltro \in [Task -> Inoltri]
    BY TipiFederazione DEF InvInoltri
  <2>b. \A t \in Task : inoltro[t].da \in CP /\ inoltro[t].verso \in CP
    BY <2>a DEF Inoltri
  <2>1. ASSUME NEW d \in CP, NEW q \in CP, Fed!Accoppia(d, q) PROVE d = c /\ q = p
    BY <2>1, <2>a DEF Fed!Accoppia, Liste, Fed!Riga
  <2>2. ASSUME NEW d \in CP, Fed!ScriveCambio(d) PROVE FALSE
    <3>1. cambio[d].peer \in CP
      BY <2>a DEF Cambi
    <3> QED BY <2>2, <2>a, <3>1 DEF Fed!ScriveCambio, Liste, Fed!Riga
  <2>3. ASSUME NEW d \in CP, NEW q \in CP, Fed!LeggeCambio(d, q) PROVE FALSE
    BY <2>3 DEF Fed!LeggeCambio
  <2>4. ASSUME NEW d \in CP, NEW q \in CP, Fed!Rimuove(d, q) PROVE FALSE
    BY <2>4, <2>a DEF Fed!Rimuove, Liste, Fed!Riga, Fed!Assente
  <2>5. ASSUME NEW d \in CP, NEW q \in CP,
               NEW s \in {"unknown", "ok", "unreachable", "no_capacity", "error"},
               lista' = Fed!Tocca(d, q, s)
        PROVE  FALSE
    BY <2>5, <2>a, ToccaRiga
  <2>6. ASSUME NEW t \in Task, Fed!Risposta(t) PROVE FALSE
    BY <2>5, <2>6, <2>b DEF Fed!Risposta
  <2>7. ASSUME NEW t \in Task, NEW d \in CP, Fed!Riceve(t, d) PROVE FALSE
    BY <2>5, <2>7, <2>b DEF Fed!Riceve
  <2>8. ASSUME NEW t \in Task, NEW d \in CP, Fed!Esegue(t, d) PROVE FALSE
    BY <2>5, <2>8, <2>b DEF Fed!Esegue
  <2>9. ASSUME NEW t \in Task, NEW d \in CP, Fed!Rinuncia(t) \/ Fed!Parte(t, d) \/ Fed!Chiama(t, d) PROVE FALSE
    BY <2>9 DEF Fed!Rinuncia, Fed!Parte, Fed!Chiama
  <2> QED BY <2>1, <2>2, <2>3, <2>4, <2>6, <2>7, <2>8, <2>9 DEF Fed!Next
<1> QED BY <1>1, FederazioneInit, FederazioneNext, PTL DEF Fed!Spec, Fed!RimossoResta

-----------------------------------------------------------------------------
(* The tunnel of a host. *)

\* A tunnel that runs is the one in the file, or the one just started whose number is
\* still to be written there.
TunnelAnnotato ==
  /\ mano.passo = "write" => \A p \in Pid : processo[p] = "ngrok" => p = mano.p
  /\ mano.passo # "write" => \A p \in Pid : processo[p] = "ngrok" => p = stato

InvTunnel == Tun!TypeOK /\ TunnelAnnotato

LEMMA TunnelInit == Tun!HostTunnelAssumption /\ Tun!Init => InvTunnel
<1> SUFFICES ASSUME Tun!HostTunnelAssumption, Tun!Init PROVE InvTunnel
  OBVIOUS
<1>1. Tun!TypeOK
  BY DEF Tun!Init, Tun!TypeOK, Tun!Libera, Tun!Chi, Tun!HostTunnelAssumption
<1>2. TunnelAnnotato
  BY DEF Tun!Init, Tun!Libera, TunnelAnnotato
<1> QED BY <1>1, <1>2 DEF InvTunnel

LEMMA TipiTunnel == Tun!HostTunnelAssumption /\ Tun!TypeOK /\ [Tun!Next]_Tun!vars => Tun!TypeOK'
<1> SUFFICES ASSUME Tun!HostTunnelAssumption, Tun!TypeOK, [Tun!Next]_Tun!vars PROVE Tun!TypeOK'
  OBVIOUS
<1> USE DEF Tun!TypeOK, Tun!Libera, Tun!Chi
<1>1. ASSUME NEW r \in Richiesta, NEW a \in {"start", "stop"}, Tun!Chiede(r, a) PROVE Tun!TypeOK'
  BY <1>1 DEF Tun!Chiede
<1>2. ASSUME NEW r \in Richiesta, Tun!Prende(r) PROVE Tun!TypeOK'
  BY <1>2 DEF Tun!Prende
<1>3. ASSUME NEW r \in Richiesta, Tun!Avvia(r) PROVE Tun!TypeOK'
  <2>1. CASE Tun!Nostro(stato)
    BY <1>3, <2>1 DEF Tun!Avvia, Tun!Risponde
  <2>2. CASE ~Tun!Nostro(stato)
    BY <1>3, <2>2 DEF Tun!Avvia, Tun!Lancia
  <2> QED BY <2>1, <2>2
<1>4. ASSUME NEW r \in Richiesta, Tun!Annota(r) PROVE Tun!TypeOK'
  BY <1>4 DEF Tun!Annota, Tun!Risponde
<1>5. ASSUME NEW r \in Richiesta, Tun!Ferma(r) PROVE Tun!TypeOK'
  BY <1>5 DEF Tun!Ferma, Tun!Risponde
<1>6. ASSUME NEW r \in Richiesta, Tun!Uccide(r) PROVE Tun!TypeOK'
  BY <1>6 DEF Tun!Uccide, Tun!Risponde
<1>7. ASSUME NEW p \in Pid, Tun!Muore(p) \/ Tun!Nasce(p) PROVE Tun!TypeOK'
  BY <1>7 DEF Tun!Muore, Tun!Nasce
<1>8. CASE Tun!Cade
  BY <1>8 DEF Tun!Cade, Tun!HostTunnelAssumption
<1>9. CASE UNCHANGED Tun!vars
  BY <1>9 DEF Tun!vars
<1> QED BY <1>1, <1>2, <1>3, <1>4, <1>5, <1>6, <1>7, <1>8, <1>9 DEF Tun!Next, Tun!Passo

LEMMA TunnelNext ==
  Tun!HostTunnelAssumption /\ MaxCadute = 0 /\ InvTunnel /\ [Tun!Next]_Tun!vars => InvTunnel'
<1> SUFFICES ASSUME Tun!HostTunnelAssumption, MaxCadute = 0, InvTunnel, [Tun!Next]_Tun!vars PROVE InvTunnel'
  OBVIOUS
<1>a. Tun!TypeOK /\ TunnelAnnotato /\ Tun!TypeOK'
  BY TipiTunnel DEF InvTunnel
<1>b. stato \in Pid \union {0} /\ processo \in [Pid -> Tun!Chi] /\ 0 \notin Pid
      /\ mano \in [chi : Richiesta \union {"niente"},
                   passo : {"niente", "start", "write", "stop", "kill"}, p : Pid \union {0}]
  BY <1>a DEF Tun!TypeOK, Tun!HostTunnelAssumption
<1> USE DEF TunnelAnnotato
<1>1. ASSUME NEW r \in Richiesta, NEW a \in {"start", "stop"}, Tun!Chiede(r, a) PROVE TunnelAnnotato'
  BY <1>1, <1>a DEF Tun!Chiede
<1>2. ASSUME NEW r \in Richiesta, Tun!Prende(r) PROVE TunnelAnnotato'
  <2>1. filo[r] # "write" /\ mano.passo # "write"
    BY <1>2, <1>a DEF Tun!Prende, Tun!TypeOK, Tun!Libera
  <2> QED BY <1>2, <1>a, <2>1 DEF Tun!Prende
<1>3. ASSUME NEW r \in Richiesta, Tun!Avvia(r) PROVE TunnelAnnotato'
  <2>1. mano.passo = "start"
    BY <1>3 DEF Tun!Avvia, Tun!Tiene
  <2>2. CASE Tun!Nostro(stato)
    BY <1>3, <1>a, <2>1, <2>2 DEF Tun!Avvia, Tun!Risponde, Tun!Libera
  <2>3. CASE ~Tun!Nostro(stato)
    <3>1. \A p \in Pid : processo[p] # "ngrok"
      BY <1>a, <1>b, <2>1, <2>3 DEF Tun!Nostro
    <3>2. PICK p \in Pid : /\ processo' = [processo EXCEPT ![p] = "ngrok"]
                           /\ mano' = [mano EXCEPT !.passo = "write", !.p = p]
      BY <1>3, <2>3 DEF Tun!Avvia, Tun!Lancia
    <3> QED BY <1>b, <3>1, <3>2
  <2> QED BY <2>2, <2>3
<1>4. ASSUME NEW r \in Richiesta, Tun!Annota(r) PROVE TunnelAnnotato'
  BY <1>4, <1>a DEF Tun!Annota, Tun!Tiene, Tun!Risponde, Tun!Libera
<1>5. ASSUME NEW r \in Richiesta, Tun!Ferma(r) PROVE TunnelAnnotato'
  <2>1. mano.passo = "stop"
    BY <1>5 DEF Tun!Ferma, Tun!Tiene
  <2>2. CASE Tun!Nostro(stato)
    BY <1>5, <1>a, <1>b, <2>1, <2>2 DEF Tun!Ferma
  <2>3. CASE ~Tun!Nostro(stato)
    <3>1. \A p \in Pid : processo[p] # "ngrok"
      BY <1>a, <1>b, <2>1, <2>3 DEF Tun!Nostro
    <3> QED BY <1>5, <2>3, <3>1 DEF Tun!Ferma, Tun!Risponde, Tun!Libera
  <2> QED BY <2>2, <2>3
<1>6. ASSUME NEW r \in Richiesta, Tun!Uccide(r) PROVE TunnelAnnotato'
  BY <1>6, <1>a, <1>b DEF Tun!Uccide, Tun!Tiene, Tun!Risponde, Tun!Libera
<1>7. ASSUME NEW p \in Pid, Tun!Muore(p) \/ Tun!Nasce(p) PROVE TunnelAnnotato'
  BY <1>7, <1>a, <1>b DEF Tun!Muore, Tun!Nasce
<1>8. ASSUME Tun!Cade PROVE TunnelAnnotato'
  <2>1. mano = Tun!Libera
    BY <1>8, <1>a DEF Tun!Cade, Tun!TypeOK
  <2>2. mano.passo # "write" /\ mano' = mano /\ processo' = processo /\ stato' = stato
    BY <1>8, <2>1 DEF Tun!Cade, Tun!Libera
  <2> QED BY <1>a, <2>2
<1>9. ASSUME UNCHANGED Tun!vars PROVE TunnelAnnotato'
  BY <1>9, <1>a DEF Tun!vars
<1>10. TunnelAnnotato'
  BY <1>1, <1>2, <1>3, <1>4, <1>5, <1>6, <1>7, <1>8, <1>9 DEF Tun!Next, Tun!Passo
<1> QED BY <1>a, <1>10 DEF InvTunnel

\* The file, the processes, the requests and the lock keep their types, crashes included.
THEOREM TipiDelTunnel == Tun!HostTunnelAssumption => (Tun!Spec => []Tun!TypeOK)
<1> SUFFICES ASSUME Tun!HostTunnelAssumption PROVE Tun!Spec => []Tun!TypeOK
  OBVIOUS
<1>1. Tun!Init => Tun!TypeOK
  BY TunnelInit DEF InvTunnel
<1> QED BY <1>1, TipiTunnel, PTL DEF Tun!Spec

\* While the agent is not killed in the middle of a request there is one tunnel at most,
\* whatever processes end and whoever gets their numbers (_action_ngrok_start).
THEOREM UnTunnelSolo == Tun!HostTunnelAssumption /\ MaxCadute = 0 => (Tun!Spec => []Tun!AvvioUnico)
<1> SUFFICES ASSUME Tun!HostTunnelAssumption, MaxCadute = 0 PROVE Tun!Spec => []Tun!AvvioUnico
  OBVIOUS
<1>1. InvTunnel => Tun!AvvioUnico
  BY DEF InvTunnel, TunnelAnnotato, Tun!AvvioUnico
<1> QED BY <1>1, TunnelInit, TunnelNext, PTL DEF Tun!Spec

\* ... and a tunnel that runs is the one a stop would find (_action_ngrok_stop).
THEOREM TunnelRitrovato ==
  Tun!HostTunnelAssumption /\ MaxCadute = 0 => (Tun!Spec => []Tun!TunnelFermabile)
<1> SUFFICES ASSUME Tun!HostTunnelAssumption, MaxCadute = 0 PROVE Tun!Spec => []Tun!TunnelFermabile
  OBVIOUS
<1>1. InvTunnel => Tun!TunnelFermabile
  BY DEF InvTunnel, TunnelAnnotato, Tun!TunnelFermabile
<1> QED BY <1>1, TunnelInit, TunnelNext, PTL DEF Tun!Spec

-----------------------------------------------------------------------------
(* NodeMetrics: the telemetry of a node, for any models M, engines E and readers L.        *)

MetRighe == [intera : BOOLEAN, chiusa : BOOLEAN]

MetGettoni == 0..MaxGettoni

MetLettura(M) ==
  [fase : {"ferma", "chiede", "pubblica"}, su : BOOLEAN, v : [M -> MetGettoni],
   veri : [M -> MetGettoni], insieme : BOOLEAN]

MetCampioni == [v : MetGettoni, at : 0..MaxOra, veri : MetGettoni]

MetTipi(M, E, L) ==
  /\ server \in E /\ acceso \in BOOLEAN
  /\ conta \in [M -> MetGettoni] /\ prodotti \in [M -> MetGettoni]
  /\ registro \in Seq(MetRighe) /\ \A i \in DOMAIN registro : registro[i].intera => registro[i].chiusa
  /\ raccolta \in [L -> MetLettura(M)] /\ tassi \in [M -> MetCampioni]
  /\ ora \in 1..MaxOra /\ cache.at \in 0..ora

\* The engine's counter has grown since the last sample no more than what was produced since.
MetConti(M) ==
  \A m \in M : /\ conta[m] <= prodotti[m] /\ tassi[m].veri <= prodotti[m]
               /\ conta[m] + tassi[m].veri <= prodotti[m] + tassi[m].v

\* Nor since what a collector was answered; and that is later than the last sample, unless
\* another collector was there.
MetLetture(M, L) ==
  \A l \in L : raccolta[l].fase = "pubblica" =>
    \A m \in M :
      /\ raccolta[l].veri[m] <= prodotti[m]
      /\ conta[m] + raccolta[l].veri[m] <= prodotti[m] + raccolta[l].v[m]
      /\ ~raccolta[l].insieme =>
           /\ tassi[m].veri <= raccolta[l].veri[m]
           /\ raccolta[l].v[m] + tassi[m].veri <= raccolta[l].veri[m] + tassi[m].v

\* Two collectors under way know that they overlapped.
MetInsieme(L) ==
  \A j, k \in L : j # k /\ raccolta[j].fase # "ferma" /\ raccolta[k].fase # "ferma" =>
    raccolta[j].insieme /\ raccolta[k].insieme

MetInv(M, E, L) ==
  /\ MetTipi(M, E, L) /\ MetConti(M) /\ MetLetture(M, L) /\ MetInsieme(L)
  /\ Met(M, E, L)!VuotaSpiegata /\ Met(M, E, L)!TassoNonGonfiato

MetVere ==
  /\ Finestra \in Nat /\ MaxGettoni \in Nat /\ MaxOra \in Nat \ {0} /\ ModelliNoti \in BOOLEAN

\* A collector at rest.
LEMMA MetFermo ==
  ASSUME MetVere, NEW M, NEW E, NEW L
  PROVE  /\ Met(M, E, L)!Fermo \in MetLettura(M) /\ Met(M, E, L)!Fermo.fase = "ferma"
         /\ ~Met(M, E, L)!Fermo.insieme
BY DEF MetVere, Met!Fermo, MetLettura, MetGettoni

\* The invariant of the telemetry at first.
LEMMA MetInizio ==
  ASSUME MetVere, NEW M, NEW E, NEW L, Met(M, E, L)!Init PROVE MetInv(M, E, L)
<1> USE DEF MetVere
<1>1. /\ server \in E /\ acceso = TRUE /\ conta = [m \in M |-> 0] /\ prodotti = [m \in M |-> 0]
      /\ registro = <<>> /\ raccolta = [l \in L |-> Met(M, E, L)!Fermo]
      /\ tassi = [m \in M |-> [v |-> 0, at |-> 0, veri |-> 0]]
      /\ cache = Met(M, E, L)!Vuota /\ ora = 1
  BY DEF Met!Init, Met!Mai
<1>2. /\ cache.at = 0 /\ \A m \in M : cache.tasso[m] = [dv |-> 0, dt |-> 0, veri |-> 0]
  BY <1>1 DEF Met!Vuota, Met!Ignoto
<1>3. \A l \in L : raccolta[l] \in MetLettura(M) /\ raccolta[l].fase = "ferma"
  BY <1>1, MetFermo
<1>4. MetTipi(M, E, L)
  <2>1. conta \in [M -> MetGettoni] /\ prodotti \in [M -> MetGettoni] /\ tassi \in [M -> MetCampioni]
    BY <1>1 DEF MetGettoni, MetCampioni
  <2>2. raccolta \in [L -> MetLettura(M)]
    BY <1>1, <1>3
  <2> QED BY <1>1, <1>2, <2>1, <2>2 DEF MetTipi
<1>5. MetConti(M)
  BY <1>1 DEF MetConti
<1>6. MetLetture(M, L) /\ MetInsieme(L)
  BY <1>3 DEF MetLetture, MetInsieme
<1>7. Met(M, E, L)!VuotaSpiegata /\ Met(M, E, L)!TassoNonGonfiato
  BY <1>1, <1>2 DEF Met!VuotaSpiegata, Met!TassoNonGonfiato
<1> QED BY <1>4, <1>5, <1>6, <1>7 DEF MetInv

\* The log: a row is appended, or the half row is ended.
LEMMA MetRiga ==
  ASSUME MetVere, NEW M, NEW E, NEW L, MetInv(M, E, L),
         Met(M, E, L)!Registra \/ Met(M, E, L)!RegistraMetaRiga
  PROVE  MetInv(M, E, L)'
<1>1. UNCHANGED <<server, acceso, conta, prodotti, raccolta, tassi, cache, ora>>
  BY DEF Met!Registra, Met!RegistraMetaRiga
<1>2. registro \in Seq(MetRighe) /\ \A i \in DOMAIN registro : registro[i].intera => registro[i].chiusa
  BY DEF MetInv, MetTipi
<1>3. registro' \in Seq(MetRighe) /\ \A i \in DOMAIN registro' : registro'[i].intera => registro'[i].chiusa
  <2>1. CASE \E e \in MetRighe : (e.intera => e.chiusa) /\ registro' = Append(registro, e)
    BY <1>2, <2>1
  <2>2. CASE Met(M, E, L)!Monca /\ registro' = [registro EXCEPT ![Len(registro)].chiusa = TRUE]
    <3>1. Len(registro) \in DOMAIN registro
      BY <1>2, <2>2 DEF Met!Monca
    <3>2. \A r \in MetRighe : [r EXCEPT !.chiusa = TRUE] \in MetRighe /\ [r EXCEPT !.chiusa = TRUE].chiusa
      BY DEF MetRighe
    <3>3. registro' = [registro EXCEPT ![Len(registro)] = [registro[Len(registro)] EXCEPT !.chiusa = TRUE]]
      BY <2>2
    <3>4. registro' \in Seq(MetRighe) /\ DOMAIN registro' = DOMAIN registro
      BY <1>2, <3>1, <3>2, <3>3
    <3>5. registro'[Len(registro)].chiusa
      <4>1. registro[Len(registro)] \in MetRighe
        BY <1>2, <3>1
      <4>2. registro'[Len(registro)] = [registro[Len(registro)] EXCEPT !.chiusa = TRUE]
        BY <1>2, <3>1, <3>3
      <4> QED BY <3>2, <4>1, <4>2
    <3>6. \A i \in DOMAIN registro : i # Len(registro) => registro'[i] = registro[i]
      BY <1>2, <3>3
    <3> QED BY <1>2, <3>4, <3>5, <3>6
  <2>3. CASE Met(M, E, L)!Registra
    <3>1. [intera |-> TRUE, chiusa |-> TRUE] \in MetRighe
      BY DEF MetRighe
    <3>2. \/ registro' = Append(registro, [intera |-> TRUE, chiusa |-> TRUE])
          \/ Met(M, E, L)!Monca /\ registro' = [registro EXCEPT ![Len(registro)].chiusa = TRUE]
      BY <2>3 DEF Met!Registra
    <3> QED BY <2>1, <2>2, <3>1, <3>2
  <2>4. CASE Met(M, E, L)!RegistraMetaRiga
    <3>1. registro' = Append(registro, [intera |-> FALSE, chiusa |-> FALSE])
          /\ [intera |-> FALSE, chiusa |-> FALSE] \in MetRighe
      BY <2>4 DEF Met!RegistraMetaRiga, MetRighe
    <3> QED BY <2>1, <3>1
  <2> QED BY <2>3, <2>4
<1> QED BY <1>1, <1>3 DEF MetInv, MetTipi, MetConti, MetLetture, MetInsieme, Met!VuotaSpiegata,
                          Met!TassoNonGonfiato, Met!Vuota, Met!Ignoto

\* The engine: it produces, goes down, comes back; time passes.
LEMMA MetMotore ==
  ASSUME MetVere, NEW M, NEW E, NEW L, MetInv(M, E, L),
         \/ Met(M, E, L)!Cade \/ Met(M, E, L)!Torna \/ Met(M, E, L)!Passa
         \/ \E m \in M : Met(M, E, L)!Produce(m)
  PROVE  MetInv(M, E, L)'
<1> USE DEF MetVere
<1>1. MetTipi(M, E, L) /\ MetConti(M) /\ MetLetture(M, L) /\ MetInsieme(L)
      /\ Met(M, E, L)!VuotaSpiegata /\ Met(M, E, L)!TassoNonGonfiato
  BY DEF MetInv
<1>2. UNCHANGED <<server, registro, raccolta, tassi, cache>>
  BY DEF Met!Cade, Met!Torna, Met!Passa, Met!Produce
<1>3. MetInsieme(L)' /\ Met(M, E, L)!VuotaSpiegata' /\ Met(M, E, L)!TassoNonGonfiato'
  BY <1>1, <1>2 DEF MetInsieme, Met!VuotaSpiegata, Met!TassoNonGonfiato, Met!Vuota, Met!Ignoto
<1>4. \A m \in M : conta[m] \in Nat /\ prodotti[m] \in Nat /\ tassi[m].v \in Nat /\ tassi[m].veri \in Nat
  BY <1>1 DEF MetTipi, MetGettoni, MetCampioni
<1>5. \A l \in L, m \in M : raccolta[l].v[m] \in Nat /\ raccolta[l].veri[m] \in Nat
  BY <1>1 DEF MetTipi, MetGettoni, MetLettura
<1>6. CASE Met(M, E, L)!Torna \/ Met(M, E, L)!Passa
  <2>1. UNCHANGED <<conta, prodotti>> /\ acceso' \in BOOLEAN /\ ora' \in 1..MaxOra /\ ora' >= ora
    <3>1. ora \in 1..MaxOra /\ acceso \in BOOLEAN
      BY <1>1 DEF MetTipi
    <3>2. CASE Met(M, E, L)!Torna
      BY <3>1, <3>2 DEF Met!Torna
    <3>3. CASE Met(M, E, L)!Passa
      BY <3>1, <3>3 DEF Met!Passa
    <3> QED BY <1>6, <3>2, <3>3
  <2>2. MetTipi(M, E, L)'
    BY <1>1, <1>2, <2>1 DEF MetTipi
  <2> QED BY <1>1, <1>2, <1>3, <2>1, <2>2 DEF MetInv, MetConti, MetLetture
<1>7. CASE Met(M, E, L)!Cade
  <2>1. /\ acceso' = FALSE /\ conta' = [m \in M |-> 0] /\ UNCHANGED <<prodotti, ora>>
    BY <1>7 DEF Met!Cade
  <2>2. MetTipi(M, E, L)'
    <3>1. conta' \in [M -> MetGettoni]
      BY <2>1 DEF MetGettoni
    <3> QED BY <1>1, <1>2, <2>1, <3>1 DEF MetTipi
  <2>3. MetConti(M)'
    BY <1>1, <1>2, <1>4, <2>1 DEF MetConti
  <2>4. MetLetture(M, L)'
    BY <1>1, <1>2, <1>4, <1>5, <2>1 DEF MetLetture
  <2> QED BY <1>3, <2>2, <2>3, <2>4 DEF MetInv
<1>8. CASE \E m \in M : Met(M, E, L)!Produce(m)
  <2>1. PICK p \in M : Met(M, E, L)!Produce(p)
    BY <1>8
  <2>2. /\ prodotti[p] < MaxGettoni /\ UNCHANGED <<acceso, ora>>
        /\ conta' = [conta EXCEPT ![p] = conta[p] + 1]
        /\ prodotti' = [prodotti EXCEPT ![p] = prodotti[p] + 1]
    BY <2>1 DEF Met!Produce
  <2>3. conta[p] + 1 \in MetGettoni /\ prodotti[p] + 1 \in MetGettoni
    BY <1>1, <1>4, <2>2 DEF MetConti, MetGettoni
  <2>4. MetTipi(M, E, L)'
    BY <1>1, <1>2, <2>2, <2>3 DEF MetTipi
  <2>5. \A m \in M : \/ conta'[m] = conta[m] /\ prodotti'[m] = prodotti[m]
                     \/ conta'[m] = conta[m] + 1 /\ prodotti'[m] = prodotti[m] + 1
    BY <1>1, <2>2 DEF MetTipi
  <2>6. MetConti(M)'
    BY <1>1, <1>2, <1>4, <2>5 DEF MetConti
  <2>7. MetLetture(M, L)'
    BY <1>1, <1>2, <1>4, <1>5, <2>5 DEF MetLetture
  <2> QED BY <1>3, <2>4, <2>6, <2>7 DEF MetInv
<1> QED BY <1>6, <1>7, <1>8

\* The collectors: one starts, asks, publishes.
LEMMA MetRaccolta ==
  ASSUME MetVere, NEW M, NEW E, NEW L, MetInv(M, E, L), NEW l \in L,
         Met(M, E, L)!Inizia(l) \/ Met(M, E, L)!Interroga(l) \/ Met(M, E, L)!Pubblica(l)
  PROVE  MetInv(M, E, L)'
<1> USE DEF MetVere
<1>1. MetTipi(M, E, L) /\ MetConti(M) /\ MetLetture(M, L) /\ MetInsieme(L)
      /\ Met(M, E, L)!VuotaSpiegata /\ Met(M, E, L)!TassoNonGonfiato
  BY DEF MetInv
<1>2. UNCHANGED <<server, acceso, conta, prodotti, registro, ora>>
  BY DEF Met!Inizia, Met!Interroga, Met!Pubblica
<1>3. \A k \in L : raccolta[k] \in MetLettura(M)
  BY <1>1 DEF MetTipi
<1>4. \A m \in M : conta[m] \in Nat /\ prodotti[m] \in Nat /\ tassi[m].v \in Nat /\ tassi[m].veri \in Nat
  BY <1>1 DEF MetTipi, MetGettoni, MetCampioni
<1>5. \A k \in L, m \in M : raccolta[k].v[m] \in Nat /\ raccolta[k].veri[m] \in Nat
  BY <1>3 DEF MetGettoni, MetLettura
<1>6. CASE Met(M, E, L)!Inizia(l)
  <2> DEFINE altri == {k \in L : raccolta[k].fase # "ferma"}
             nuova == [Met(M, E, L)!Fermo EXCEPT !.fase = "chiede", !.insieme = altri # {}]
             anche(k) == [raccolta[k] EXCEPT !.insieme = TRUE]
  <2>1. /\ raccolta[l].fase = "ferma" /\ UNCHANGED <<tassi, cache>>
        /\ raccolta' = [k \in L |-> IF k = l THEN nuova
                                    ELSE IF k \in altri THEN anche(k) ELSE raccolta[k]]
    BY <1>6 DEF Met!Inizia
  <2>2. nuova \in MetLettura(M) /\ nuova.fase = "chiede" /\ (nuova.insieme <=> altri # {})
    <3>1. Met(M, E, L)!Fermo \in MetLettura(M)
      BY MetFermo
    <3> HIDE DEF altri
    <3> QED BY <3>1 DEF MetLettura
  <2>3. \A k \in L : /\ anche(k) \in MetLettura(M) /\ anche(k).fase = raccolta[k].fase /\ anche(k).insieme
                     /\ anche(k).v = raccolta[k].v /\ anche(k).veri = raccolta[k].veri
    BY <1>3 DEF MetLettura
  <2>4. \A k \in L : raccolta'[k] = IF k = l THEN nuova
                                    ELSE IF k \in altri THEN anche(k) ELSE raccolta[k]
    BY <2>1
  <2> HIDE DEF nuova, anche
  <2>5. raccolta' \in [L -> MetLettura(M)]
    BY <1>3, <2>1, <2>2, <2>3
  <2>6. MetTipi(M, E, L)'
    BY <1>1, <1>2, <2>1, <2>5 DEF MetTipi
  <2>7. MetConti(M)'
    BY <1>1, <1>2, <2>1 DEF MetConti
  <2>8. MetLetture(M, L)'
    <3> SUFFICES ASSUME NEW k \in L, raccolta'[k].fase = "pubblica", NEW m \in M
                 PROVE  /\ raccolta'[k].veri[m] <= prodotti'[m]
                        /\ conta'[m] + raccolta'[k].veri[m] <= prodotti'[m] + raccolta'[k].v[m]
                        /\ ~raccolta'[k].insieme =>
                             /\ tassi'[m].veri <= raccolta'[k].veri[m]
                             /\ raccolta'[k].v[m] + tassi'[m].veri <= raccolta'[k].veri[m] + tassi'[m].v
      BY DEF MetLetture
    <3>1. k # l /\ (raccolta'[k] = anche(k) \/ raccolta'[k] = raccolta[k])
      BY <2>2, <2>4
    <3>2. /\ raccolta'[k].fase = raccolta[k].fase /\ raccolta'[k].v = raccolta[k].v
          /\ raccolta'[k].veri = raccolta[k].veri /\ (~raccolta'[k].insieme => ~raccolta[k].insieme)
      BY <2>3, <3>1
    <3> QED BY <1>1, <1>2, <2>1, <3>2 DEF MetLetture
  <2>9. MetInsieme(L)'
    <3> SUFFICES ASSUME NEW j \in L, NEW k \in L, j # k, raccolta'[j].fase # "ferma",
                        raccolta'[k].fase # "ferma"
                 PROVE  raccolta'[j].insieme
      BY DEF MetInsieme
    <3>1. CASE j = l
      <4>1. k \in altri
        BY <2>3, <2>4, <3>1
      <4> QED BY <2>2, <2>4, <3>1, <4>1
    <3>2. CASE j # l
      <4>1. j \in altri
        BY <2>3, <2>4, <3>2
      <4> QED BY <2>3, <2>4, <3>2, <4>1
    <3> QED BY <3>1, <3>2
  <2>10. Met(M, E, L)!VuotaSpiegata' /\ Met(M, E, L)!TassoNonGonfiato'
    BY <1>1, <1>2, <2>1 DEF Met!VuotaSpiegata, Met!TassoNonGonfiato, Met!Vuota, Met!Ignoto
  <2> QED BY <2>6, <2>7, <2>8, <2>9, <2>10 DEF MetInv
<1>7. CASE Met(M, E, L)!Interroga(l)
  <2> DEFINE r == [raccolta[l] EXCEPT !.fase = "pubblica", !.su = acceso, !.v = conta, !.veri = prodotti]
  <2>1. /\ raccolta[l].fase = "chiede" /\ raccolta' = [raccolta EXCEPT ![l] = r]
        /\ UNCHANGED <<tassi, cache>>
    BY <1>7 DEF Met!Interroga
  <2>2. /\ r \in MetLettura(M) /\ r.fase = "pubblica" /\ r.v = conta /\ r.veri = prodotti
        /\ r.insieme = raccolta[l].insieme
    BY <1>1, <1>3 DEF MetLettura, MetTipi
  <2> HIDE DEF r
  <2>3. MetTipi(M, E, L)'
    BY <1>1, <1>2, <2>1, <2>2 DEF MetTipi
  <2>4. \A k \in L : raccolta'[k] = IF k = l THEN r ELSE raccolta[k]
    BY <1>1, <2>1 DEF MetTipi
  <2>5. MetConti(M)'
    BY <1>1, <1>2, <2>1 DEF MetConti
  <2>6. MetLetture(M, L)'
    <3> SUFFICES ASSUME NEW k \in L, raccolta'[k].fase = "pubblica", NEW m \in M
                 PROVE  /\ raccolta'[k].veri[m] <= prodotti'[m]
                        /\ conta'[m] + raccolta'[k].veri[m] <= prodotti'[m] + raccolta'[k].v[m]
                        /\ ~raccolta'[k].insieme =>
                             /\ tassi'[m].veri <= raccolta'[k].veri[m]
                             /\ raccolta'[k].v[m] + tassi'[m].veri <= raccolta'[k].veri[m] + tassi'[m].v
      BY DEF MetLetture
    <3>1. CASE k = l
      BY <1>1, <1>2, <1>4, <2>1, <2>2, <2>4, <3>1 DEF MetConti
    <3>2. CASE k # l
      BY <1>1, <1>2, <2>1, <2>4, <3>2 DEF MetLetture
    <3> QED BY <3>1, <3>2
  <2>7. MetInsieme(L)'
    BY <1>1, <2>1, <2>2, <2>4 DEF MetInsieme
  <2>8. Met(M, E, L)!VuotaSpiegata' /\ Met(M, E, L)!TassoNonGonfiato'
    BY <1>1, <1>2, <2>1 DEF Met!VuotaSpiegata, Met!TassoNonGonfiato, Met!Vuota, Met!Ignoto
  <2> QED BY <2>3, <2>5, <2>6, <2>7, <2>8 DEF MetInv
<1>8. CASE Met(M, E, L)!Pubblica(l)
  <2> DEFINE r == raccolta[l]
             esito == Met(M, E, L)!Raccoglie(r)
             conVllm == server = "vllm" /\ esito = "dati" /\ r.su
  <2>1. /\ r.fase = "pubblica" /\ raccolta' = [raccolta EXCEPT ![l] = Met(M, E, L)!Fermo]
        /\ cache' = IF esito = "eccezione"
                    THEN [Met(M, E, L)!Vuota EXCEPT !.at = ora, !.monca = Met(M, E, L)!Illeggibile,
                                                    !.insieme = r.insieme]
                    ELSE [at |-> ora, vuota |-> FALSE, su |-> r.su, monca |-> FALSE,
                          insieme |-> r.insieme,
                          tasso |-> [m \in M |-> IF conVllm
                                                THEN Met(M, E, L)!Tasso(tassi, m, r.v[m], r.veri[m])
                                                ELSE Met(M, E, L)!Ignoto]]
        /\ tassi' = IF conVllm THEN [m \in M |-> [v |-> r.v[m], at |-> ora, veri |-> r.veri[m]]] ELSE tassi
    BY <1>8 DEF Met!Pubblica
  <2>2. \A k \in L : raccolta'[k] = IF k = l THEN Met(M, E, L)!Fermo ELSE raccolta[k]
    BY <1>1, <2>1 DEF MetTipi
  <2>3. Met(M, E, L)!Fermo \in MetLettura(M) /\ Met(M, E, L)!Fermo.fase = "ferma"
    BY MetFermo
  <2>4. raccolta' \in [L -> MetLettura(M)]
    BY <1>1, <2>1, <2>3 DEF MetTipi
  <2>5. r.v \in [M -> MetGettoni] /\ r.veri \in [M -> MetGettoni] /\ ora \in 1..MaxOra
    BY <1>1, <1>3 DEF MetLettura, MetTipi
  <2>6. \A m \in M : \/ tassi'[m] = tassi[m]
                     \/ tassi'[m].v = r.v[m] /\ tassi'[m].veri = r.veri[m]
    BY <2>1
  <2>7. tassi' \in [M -> MetCampioni]
    <3>1. \A m \in M : [v |-> r.v[m], at |-> ora, veri |-> r.veri[m]] \in MetCampioni
      BY <2>5 DEF MetCampioni
    <3> QED BY <1>1, <2>1, <3>1 DEF MetTipi
  <2>8. cache'.at = ora /\ cache'.insieme = r.insieme
    BY <2>1 DEF Met!Vuota
  <2>9. MetTipi(M, E, L)'
    BY <1>1, <1>2, <2>4, <2>5, <2>7, <2>8 DEF MetTipi
  <2>10. MetConti(M)'
    BY <1>1, <1>2, <1>4, <1>5, <2>1, <2>6 DEF MetConti, MetLetture
  <2>11. MetInsieme(L)'
    BY <1>1, <2>2, <2>3 DEF MetInsieme
  <2>12. MetLetture(M, L)'
    <3> SUFFICES ASSUME NEW k \in L, raccolta'[k].fase = "pubblica", NEW m \in M
                 PROVE  /\ raccolta'[k].veri[m] <= prodotti'[m]
                        /\ conta'[m] + raccolta'[k].veri[m] <= prodotti'[m] + raccolta'[k].v[m]
                        /\ ~raccolta'[k].insieme =>
                             /\ tassi'[m].veri <= raccolta'[k].veri[m]
                             /\ raccolta'[k].v[m] + tassi'[m].veri <= raccolta'[k].veri[m] + tassi'[m].v
      BY DEF MetLetture
    <3>1. k # l /\ raccolta'[k] = raccolta[k]
      BY <2>2, <2>3
    <3>2. raccolta[k].insieme
      BY <1>1, <2>1, <3>1 DEF MetInsieme
    <3> QED BY <1>1, <1>2, <3>1, <3>2 DEF MetLetture
  <2>13. Met(M, E, L)!TassoNonGonfiato'
    <3> SUFFICES ASSUME ~cache'.insieme, NEW m \in M
                 PROVE  cache'.tasso[m].dv <= cache'.tasso[m].veri
      BY DEF Met!TassoNonGonfiato
    <3>1. ~r.insieme
      BY <2>8
    <3>2. /\ tassi[m].veri <= r.veri[m] /\ r.v[m] + tassi[m].veri <= r.veri[m] + tassi[m].v
      BY <1>1, <2>1, <3>1 DEF MetLetture
    <3>3. cache'.tasso[m] = Met(M, E, L)!Ignoto
          \/ cache'.tasso[m] = Met(M, E, L)!Tasso(tassi, m, r.v[m], r.veri[m])
      BY <2>1 DEF Met!Vuota
    <3>4. Met(M, E, L)!Ignoto.dv = 0 /\ Met(M, E, L)!Ignoto.veri = 0
      BY DEF Met!Ignoto
    <3>5. \/ Met(M, E, L)!Tasso(tassi, m, r.v[m], r.veri[m]) = Met(M, E, L)!Ignoto
          \/ Met(M, E, L)!Tasso(tassi, m, r.v[m], r.veri[m]) =
               [dv |-> r.v[m] - tassi[m].v, dt |-> ora - tassi[m].at, veri |-> r.veri[m] - tassi[m].veri]
      BY DEF Met!Tasso, Met!Prima
    <3>6. \/ cache'.tasso[m].dv = 0 /\ cache'.tasso[m].veri = 0
          \/ cache'.tasso[m].dv = r.v[m] - tassi[m].v /\ cache'.tasso[m].veri = r.veri[m] - tassi[m].veri
      BY <3>3, <3>4, <3>5
    <3> QED BY <1>4, <1>5, <3>2, <3>6
  <2>14. Met(M, E, L)!VuotaSpiegata'
    <3>1. CASE esito = "eccezione"
      <4>1. cache'.monca = Met(M, E, L)!Illeggibile
        BY <2>1, <3>1 DEF Met!Vuota
      <4>2. \/ server = "vllm" /\ ~ModelliNoti
            \/ server # "vllm" /\ Met(M, E, L)!Illeggibile
        BY <3>1 DEF Met!Raccoglie
      <4> QED BY <1>2, <4>1, <4>2 DEF Met!VuotaSpiegata
    <3>2. CASE esito # "eccezione"
      BY <2>1, <3>2 DEF Met!VuotaSpiegata
    <3> QED BY <3>1, <3>2
  <2> QED BY <2>9, <2>10, <2>11, <2>12, <2>13, <2>14 DEF MetInv
<1> QED BY <1>6, <1>7, <1>8

\* Every step keeps it, and so does a
\* step of something else; what the run checks follows.
LEMMA MetPasso ==
  ASSUME MetVere, NEW M, NEW E, NEW L, MetInv(M, E, L), Met(M, E, L)!Next
  PROVE  MetInv(M, E, L)'
BY MetRiga, MetMotore, MetRaccolta DEF Met!Next

LEMMA MetResta ==
  ASSUME NEW M, NEW E, NEW L, MetInv(M, E, L), UNCHANGED met_vars PROVE MetInv(M, E, L)'
BY DEF MetInv, MetTipi, MetConti, MetLetture, MetInsieme, Met!VuotaSpiegata, Met!TassoNonGonfiato,
       Met!Vuota, Met!Ignoto, met_vars

LEMMA MetVero ==
  ASSUME MetVere, NEW M, NEW E, NEW L, MetInv(M, E, L)
  PROVE  Met(M, E, L)!TypeOK /\ Met(M, E, L)!VuotaSpiegata /\ Met(M, E, L)!TassoNonGonfiato
BY DEF MetInv, MetTipi, Met!TypeOK, MetGettoni, MetCampioni, Met!Campione

-----------------------------------------------------------------------------
(* The quantiles of a histogram of three buckets.                                          *)

\* The running sum of the buckets, unfolded.
LEMMA QuaSomma ==
  ASSUME NEW b \in [1..3 -> 0..3]
  PROVE  /\ Quantili!Somma(b, 1) = b[1] /\ Quantili!Somma(b, 2) = b[1] + b[2]
         /\ Quantili!Somma(b, 3) = b[1] + b[2] + b[3]
<1> DEFINE P(i, f) == f = [j \in 0..i |-> IF j = 0 THEN 0 ELSE f[j - 1] + b[j]]
           T == [j \in 0..3 |-> IF j = 0 THEN 0 ELSE IF j = 1 THEN b[1]
                                ELSE IF j = 2 THEN b[1] + b[2] ELSE b[1] + b[2] + b[3]]
           S(i) == CHOOSE f : P(i, f)
<1>1. b[1] \in Nat /\ b[2] \in Nat /\ b[3] \in Nat
  OBVIOUS
<1>2. ASSUME NEW i \in 1..3 PROVE P(i, [j \in 0..i |-> T[j]])
  <2> DEFINE f == [j \in 0..i |-> T[j]]
  <2>1. ASSUME NEW j \in 0..i PROVE f[j] = IF j = 0 THEN 0 ELSE f[j - 1] + b[j]
    <3>1. j \in {0, 1, 2, 3}
      OBVIOUS
    <3>2. CASE j = 0
      BY <3>2
    <3>3. CASE j = 1
      <4>1. f[1] = b[1] /\ f[0] = 0
        BY <3>3
      <4> QED BY <1>1, <3>3, <4>1
    <3>4. CASE j = 2
      <4>1. f[2] = b[1] + b[2] /\ f[1] = b[1]
        BY <3>4
      <4> QED BY <1>1, <3>4, <4>1
    <3>5. CASE j = 3
      <4>1. f[3] = b[1] + b[2] + b[3] /\ f[2] = b[1] + b[2]
        BY <3>5
      <4> QED BY <1>1, <3>5, <4>1
    <3> QED BY <3>1, <3>2, <3>3, <3>4, <3>5
  <2>2. f = [j \in 0..i |-> f[j]]
    OBVIOUS
  <2> HIDE DEF f
  <2>3. f = [j \in 0..i |-> IF j = 0 THEN 0 ELSE f[j - 1] + b[j]]
    BY <2>1, <2>2
  <2> QED BY <2>3 DEF f
<1>3. ASSUME NEW i \in 1..3 PROVE P(i, S(i))
  <2>1. \E f : P(i, f)
    BY <1>2
  <2> HIDE DEF P
  <2> QED BY <2>1
<1>4. ASSUME NEW i \in 1..3 PROVE Quantili!Somma(b, i) = S(i)[i]
  BY DEF Quantili!Somma
<1>5. ASSUME NEW i \in 1..3, NEW j \in 0..i
      PROVE  S(i)[j] = IF j = 0 THEN 0 ELSE S(i)[j - 1] + b[j]
  <2> DEFINE f == S(i)
  <2>1. f = [k \in 0..i |-> IF k = 0 THEN 0 ELSE f[k - 1] + b[k]]
    BY <1>3
  <2> HIDE DEF f
  <2>2. f[j] = IF j = 0 THEN 0 ELSE f[j - 1] + b[j]
    BY <2>1
  <2> QED BY <2>2 DEF f
<1> HIDE DEF S
<1>6. ASSUME NEW i \in 1..3 PROVE S(i)[0] = 0 /\ S(i)[1] = b[1]
  <2>1. S(i)[0] = 0
    BY <1>5
  <2>2. S(i)[1] = S(i)[0] + b[1]
    <3>1. 1 \in 0..i /\ 1 - 1 = 0
      OBVIOUS
    <3> QED BY <1>5, <3>1
  <2> QED BY <1>1, <2>1, <2>2
<1>7. ASSUME NEW i \in 2..3 PROVE S(i)[2] = b[1] + b[2]
  <2>1. 2 \in 0..i /\ 2 - 1 = 1 /\ i \in 1..3
    OBVIOUS
  <2>2. S(i)[2] = S(i)[1] + b[2]
    BY <1>5, <2>1
  <2> QED BY <1>6, <2>1, <2>2
<1>8. S(3)[3] = b[1] + b[2] + b[3]
  <2>1. S(3)[3] = S(3)[2] + b[3]
    <3>1. 3 \in 0..3 /\ 3 - 1 = 2 /\ 3 \in 1..3
      OBVIOUS
    <3> QED BY <1>5, <3>1
  <2> QED BY <1>7, <2>1
<1> QED BY <1>4, <1>6, <1>7, <1>8

\* The first bucket that reaches the target, and what is told of it: c counts up to a bucket.
LEMMA QuaPrimo ==
  ASSUME NEW c \in [1..3 -> Nat], NEW t \in Nat, c[1] <= c[2], c[2] <= c[3],
         NEW s, s = {i \in 1..3 : 100 * c[i] >= t}
  PROVE  /\ s = {} <=> 100 * c[3] < t
         /\ 100 * c[1] >= t => Quantili!Primo(s) = 1
         /\ 100 * c[1] < t /\ 100 * c[2] >= t => Quantili!Primo(s) = 2
         /\ 100 * c[2] < t /\ 100 * c[3] >= t => Quantili!Primo(s) = 3
<1>1. c[1] \in Nat /\ c[2] \in Nat /\ c[3] \in Nat
  OBVIOUS
<1>2. \A i \in 1..3 : i \in s <=> 100 * c[i] >= t
  OBVIOUS
<1>3. 1..3 = {1, 2, 3} /\ s \subseteq {1, 2, 3}
  OBVIOUS
<1>4. /\ 1 \in s <=> 100 * c[1] >= t
      /\ 2 \in s <=> 100 * c[2] >= t
      /\ 3 \in s <=> 100 * c[3] >= t
  BY <1>2
<1>5. s = {} <=> 100 * c[3] < t
  BY <1>1, <1>3, <1>4
<1>6. ASSUME NEW k \in s, \A j \in s : k <= j PROVE Quantili!Primo(s) = k
  <2>1. Quantili!Primo(s) \in s /\ \A j \in s : Quantili!Primo(s) <= j
    BY <1>6 DEF Quantili!Primo
  <2> QED BY <1>3, <1>6, <2>1
<1>7. 100 * c[1] >= t => Quantili!Primo(s) = 1
  BY <1>3, <1>4, <1>6
<1>8. 100 * c[1] < t /\ 100 * c[2] >= t => Quantili!Primo(s) = 2
  <2> SUFFICES ASSUME 100 * c[1] < t, 100 * c[2] >= t PROVE Quantili!Primo(s) = 2
    OBVIOUS
  <2>1. 1 \notin s /\ 2 \in s
    BY <1>1, <1>4
  <2> QED BY <1>3, <1>6, <2>1
<1>9. 100 * c[2] < t /\ 100 * c[3] >= t => Quantili!Primo(s) = 3
  <2> SUFFICES ASSUME 100 * c[2] < t, 100 * c[3] >= t PROVE Quantili!Primo(s) = 3
    OBVIOUS
  <2>1. 1 \notin s /\ 2 \notin s /\ 3 \in s
    BY <1>1, <1>4
  <2> QED BY <1>3, <1>6, <2>1
<1> QED BY <1>5, <1>7, <1>8, <1>9

QuaIsto(b, n) ==
  b \in [1..3 -> 0..3] /\ n \in 1..4 /\ b[1] <= b[2] /\ b[2] <= b[3] /\ b[3] <= n

\* What the code tells, bucket by bucket.
LEMMA QuaDetto ==
  ASSUME NEW b, NEW n, QuaIsto(b, n), NEW q \in {50, 95}
  PROVE  /\ 100 * b[1] >= q * n => Quantili!Quantile(b, n, q) = 100
         /\ 100 * b[1] < q * n /\ 100 * (b[1] + b[2]) >= q * n =>
              Quantili!Quantile(b, n, q) = 100 + (q * n - 100 * b[1]) \div b[2]
         /\ 100 * (b[1] + b[2]) < q * n /\ 100 * (b[1] + b[2] + b[3]) >= q * n =>
              Quantili!Quantile(b, n, q) = 200 + (q * n - 100 * (b[1] + b[2])) \div b[3]
         /\ 100 * (b[1] + b[2] + b[3]) < q * n => Quantili!Quantile(b, n, q) = 300
<1> DEFINE c == [i \in 1..3 |-> Quantili!Somma(b, i)]
           t == q * n
           s == {i \in DOMAIN b : Quantili!Sopra(b, n, q, i)}
<1>1. b[1] \in Nat /\ b[2] \in Nat /\ b[3] \in Nat /\ t \in Nat /\ DOMAIN b = 1..3 /\ Len(b) = 3
  <2>1. n \in 1..4 /\ (q = 50 \/ q = 95) /\ b \in [1..3 -> 0..3]
    BY DEF QuaIsto
  <2>2. t \in Nat
    BY <2>1
  <2>3. Len(b) = 3
    BY <2>1
  <2> QED BY <2>1, <2>2, <2>3
<1>2. c[1] = b[1] /\ c[2] = b[1] + b[2] /\ c[3] = b[1] + b[2] + b[3]
  BY QuaSomma DEF QuaIsto
<1>3. c \in [1..3 -> Nat] /\ c[1] <= c[2] /\ c[2] <= c[3]
  <2>1. c[1] \in Nat /\ c[2] \in Nat /\ c[3] \in Nat
    BY <1>1, <1>2
  <2>2. \A i \in 1..3 : c[i] \in Nat
    <3>1. \A i \in 1..3 : i = 1 \/ i = 2 \/ i = 3
      OBVIOUS
    <3> HIDE DEF c
    <3> QED BY <2>1, <3>1
  <2> QED BY <1>1, <1>2, <2>1, <2>2
<1>4. s = {i \in 1..3 : 100 * c[i] >= t}
  BY <1>1 DEF Quantili!Sopra
<1>5. /\ Quantili!Somma(b, 1) = b[1] /\ Quantili!Somma(b, 2) = b[1] + b[2]
  BY <1>2
<1>6. Quantili!Quantile(b, n, q) =
        IF s = {} THEN 300
        ELSE IF Quantili!Primo(s) = 1 THEN 100
        ELSE 100 * (Quantili!Primo(s) - 1)
             + (t - 100 * Quantili!Somma(b, Quantili!Primo(s) - 1)) \div b[Quantili!Primo(s)]
  BY <1>1 DEF Quantili!Quantile
<1> HIDE DEF c, t, s
<1>7. /\ s = {} <=> 100 * c[3] < t
      /\ 100 * c[1] >= t => Quantili!Primo(s) = 1
      /\ 100 * c[1] < t /\ 100 * c[2] >= t => Quantili!Primo(s) = 2
      /\ 100 * c[2] < t /\ 100 * c[3] >= t => Quantili!Primo(s) = 3
  BY <1>1, <1>3, <1>4, QuaPrimo
<1>8. 100 * b[1] >= t => Quantili!Quantile(b, n, q) = 100
  <2> SUFFICES ASSUME 100 * b[1] >= t PROVE Quantili!Quantile(b, n, q) = 100
    OBVIOUS
  <2>1. s # {} /\ Quantili!Primo(s) = 1
    BY <1>1, <1>2, <1>7
  <2> QED BY <1>6, <2>1
<1>9. 100 * b[1] < t /\ 100 * (b[1] + b[2]) >= t =>
        Quantili!Quantile(b, n, q) = 100 + (t - 100 * b[1]) \div b[2]
  <2> SUFFICES ASSUME 100 * b[1] < t, 100 * (b[1] + b[2]) >= t
               PROVE  Quantili!Quantile(b, n, q) = 100 + (t - 100 * b[1]) \div b[2]
    OBVIOUS
  <2>1. s # {} /\ Quantili!Primo(s) = 2
    BY <1>1, <1>2, <1>7
  <2>2. Quantili!Primo(s) - 1 = 1 /\ 100 * (Quantili!Primo(s) - 1) = 100
    BY <2>1
  <2> QED BY <1>5, <1>6, <2>1, <2>2
<1>10. 100 * (b[1] + b[2]) < t /\ 100 * (b[1] + b[2] + b[3]) >= t =>
         Quantili!Quantile(b, n, q) = 200 + (t - 100 * (b[1] + b[2])) \div b[3]
  <2> SUFFICES ASSUME 100 * (b[1] + b[2]) < t, 100 * (b[1] + b[2] + b[3]) >= t
               PROVE  Quantili!Quantile(b, n, q) = 200 + (t - 100 * (b[1] + b[2])) \div b[3]
    OBVIOUS
  <2>1. s # {} /\ Quantili!Primo(s) = 3
    BY <1>1, <1>2, <1>7
  <2>2. Quantili!Primo(s) - 1 = 2 /\ 100 * (Quantili!Primo(s) - 1) = 200
    BY <2>1
  <2> QED BY <1>5, <1>6, <2>1, <2>2
<1>11. 100 * (b[1] + b[2] + b[3]) < t => Quantili!Quantile(b, n, q) = 300
  BY <1>1, <1>2, <1>6, <1>7
<1> QED BY <1>8, <1>9, <1>10, <1>11 DEF t

\* What is true, bucket by bucket.
LEMMA QuaReale ==
  ASSUME NEW b, NEW n, QuaIsto(b, n), NEW q \in {50, 95}
  PROVE  /\ 100 * b[1] >= q * n => Quantili!QuantileVero(b, n, q) = 100
         /\ 100 * b[1] < q * n /\ 100 * b[2] >= q * n =>
              Quantili!QuantileVero(b, n, q) = 100 + (q * n - 100 * b[1]) \div (b[2] - b[1])
         /\ 100 * b[2] < q * n /\ 100 * b[3] >= q * n =>
              Quantili!QuantileVero(b, n, q) = 200 + (q * n - 100 * b[2]) \div (b[3] - b[2])
         /\ 100 * b[3] < q * n => Quantili!QuantileVero(b, n, q) = 300
<1> DEFINE t == q * n
           s == {i \in DOMAIN b : 100 * b[i] >= q * n}
<1>1. b[1] \in Nat /\ b[2] \in Nat /\ b[3] \in Nat /\ t \in Nat /\ DOMAIN b = 1..3 /\ Len(b) = 3
  <2>1. n \in 1..4 /\ (q = 50 \/ q = 95) /\ b \in [1..3 -> 0..3]
    BY DEF QuaIsto
  <2>2. t \in Nat
    BY <2>1
  <2>3. Len(b) = 3
    BY <2>1
  <2> QED BY <2>1, <2>2, <2>3
<1>2. b \in [1..3 -> Nat] /\ b[1] <= b[2] /\ b[2] <= b[3]
  BY DEF QuaIsto
<1>3. s = {i \in 1..3 : 100 * b[i] >= t}
  BY <1>1
<1>4. Quantili!QuantileVero(b, n, q) =
        IF s = {} THEN 300
        ELSE IF Quantili!Primo(s) = 1 THEN 100
        ELSE 100 * (Quantili!Primo(s) - 1)
             + (t - 100 * b[Quantili!Primo(s) - 1]) \div (b[Quantili!Primo(s)] - b[Quantili!Primo(s) - 1])
  BY <1>1 DEF Quantili!QuantileVero
<1> HIDE DEF t, s
<1>5. /\ s = {} <=> 100 * b[3] < t
      /\ 100 * b[1] >= t => Quantili!Primo(s) = 1
      /\ 100 * b[1] < t /\ 100 * b[2] >= t => Quantili!Primo(s) = 2
      /\ 100 * b[2] < t /\ 100 * b[3] >= t => Quantili!Primo(s) = 3
  BY <1>1, <1>2, <1>3, QuaPrimo
<1>6. 100 * b[1] >= t => Quantili!QuantileVero(b, n, q) = 100
  <2> SUFFICES ASSUME 100 * b[1] >= t PROVE Quantili!QuantileVero(b, n, q) = 100
    OBVIOUS
  <2>1. s # {} /\ Quantili!Primo(s) = 1
    BY <1>1, <1>2, <1>5
  <2> QED BY <1>4, <2>1
<1>7. 100 * b[1] < t /\ 100 * b[2] >= t =>
        Quantili!QuantileVero(b, n, q) = 100 + (t - 100 * b[1]) \div (b[2] - b[1])
  <2> SUFFICES ASSUME 100 * b[1] < t, 100 * b[2] >= t
               PROVE  Quantili!QuantileVero(b, n, q) = 100 + (t - 100 * b[1]) \div (b[2] - b[1])
    OBVIOUS
  <2>1. s # {} /\ Quantili!Primo(s) = 2
    BY <1>1, <1>2, <1>5
  <2>2. Quantili!Primo(s) - 1 = 1 /\ 100 * (Quantili!Primo(s) - 1) = 100
    BY <2>1
  <2> QED BY <1>4, <2>1, <2>2
<1>8. 100 * b[2] < t /\ 100 * b[3] >= t =>
        Quantili!QuantileVero(b, n, q) = 200 + (t - 100 * b[2]) \div (b[3] - b[2])
  <2> SUFFICES ASSUME 100 * b[2] < t, 100 * b[3] >= t
               PROVE  Quantili!QuantileVero(b, n, q) = 200 + (t - 100 * b[2]) \div (b[3] - b[2])
    OBVIOUS
  <2>1. s # {} /\ Quantili!Primo(s) = 3
    BY <1>1, <1>2, <1>5
  <2>2. Quantili!Primo(s) - 1 = 2 /\ 100 * (Quantili!Primo(s) - 1) = 200
    BY <2>1
  <2> QED BY <1>4, <2>1, <2>2
<1>9. 100 * b[3] < t => Quantili!QuantileVero(b, n, q) = 300
  BY <1>1, <1>4, <1>5
<1> QED BY <1>6, <1>7, <1>8, <1>9 DEF t

\* What a quotient is, for the divisors there are.
LEMMA QuaDiviso ==
  ASSUME NEW a \in Nat, NEW d \in 1..3
  PROVE  a \div d \in Nat /\ d * (a \div d) <= a /\ a < d * (a \div d) + d
<1>1. CASE d = 1
  BY <1>1
<1>2. CASE d = 2
  BY <1>2
<1>3. CASE d = 3
  BY <1>3
<1> QED BY <1>1, <1>2, <1>3

\* A quotient grows with the dividend and shrinks with the divisor.
LEMMA QuaCresce ==
  ASSUME NEW a \in Nat, NEW c \in Nat, a <= c, NEW d \in 1..3, NEW e \in 1..3, e <= d
  PROVE  a \div d <= c \div e
<1> DEFINE x == a \div d
           y == c \div e
<1>1. x \in Nat /\ d * x <= a
  BY QuaDiviso
<1>2. y \in Nat /\ c < e * y + e
  BY QuaDiviso
<1> HIDE DEF x, y
<1>3. CASE d = 1
  <2>1. e = 1
    BY <1>3
  <2> QED BY <1>1, <1>2, <1>3, <2>1
<1>4. CASE d = 2
  <2>1. CASE e = 1
    BY <1>1, <1>2, <1>4, <2>1
  <2>2. CASE e = 2
    BY <1>1, <1>2, <1>4, <2>2
  <2> QED BY <1>4, <2>1, <2>2
<1>5. CASE d = 3
  <2>1. CASE e = 1
    BY <1>1, <1>2, <1>5, <2>1
  <2>2. CASE e = 2
    BY <1>1, <1>2, <1>5, <2>2
  <2>3. CASE e = 3
    BY <1>1, <1>2, <1>5, <2>3
  <2> QED BY <1>5, <2>1, <2>2, <2>3
<1>6. d = 1 \/ d = 2 \/ d = 3
  OBVIOUS
<1> QED BY <1>3, <1>4, <1>5, <1>6

\* Inside its bucket.
LEMMA QuaDentro ==
  ASSUME NEW a \in Nat, NEW d \in 1..3, a <= 100 * d
  PROVE  a \div d \in 0..100
<1> DEFINE x == a \div d
<1>1. x \in Nat /\ d * x <= a
  BY QuaDiviso
<1> HIDE DEF x
<1>2. CASE d = 1
  BY <1>1, <1>2
<1>3. CASE d = 2
  BY <1>1, <1>3
<1>4. CASE d = 3
  BY <1>1, <1>4
<1>5. d = 1 \/ d = 2 \/ d = 3
  OBVIOUS
<1> QED BY <1>2, <1>3, <1>4, <1>5

\* Where what is told stands: at the end of a bucket or inside it.
LEMMA QuaPosto ==
  ASSUME NEW b, NEW n, QuaIsto(b, n), NEW q \in {50, 95}
  PROVE  LET Q == Quantili!Quantile(b, n, q) IN
         /\ Q \in 100..300
         /\ 100 * (b[1] + b[2]) >= q * n => Q <= 200
         /\ 100 * (b[1] + b[2]) < q * n => Q >= 200
<1> DEFINE t == q * n
<1>1. b[1] \in 0..3 /\ b[2] \in 0..3 /\ b[3] \in 0..3 /\ n \in 1..4
  BY DEF QuaIsto
<1>2. t \in Nat
  <2>1. q = 50 \/ q = 95
    OBVIOUS
  <2> QED BY <1>1, <2>1
<1> HIDE DEF t
<1>3. CASE 100 * b[1] >= t
  <2>1. Quantili!Quantile(b, n, q) = 100
    BY <1>3, QuaDetto DEF t
  <2> QED BY <1>1, <1>2, <1>3, <2>1 DEF t
<1>4. CASE 100 * b[1] < t /\ 100 * (b[1] + b[2]) >= t
  <2>1. Quantili!Quantile(b, n, q) = 100 + (t - 100 * b[1]) \div b[2]
    BY <1>4, QuaDetto DEF t
  <2>2. t - 100 * b[1] \in Nat /\ b[2] \in 1..3 /\ t - 100 * b[1] <= 100 * b[2]
    BY <1>1, <1>2, <1>4
  <2>3. (t - 100 * b[1]) \div b[2] \in 0..100
    BY <2>2, QuaDentro
  <2>4. Quantili!Quantile(b, n, q) \in 100..200
    BY <2>1, <2>3
  <2> QED BY <1>1, <1>2, <1>4, <2>4 DEF t
<1>5. CASE 100 * (b[1] + b[2]) < t /\ 100 * (b[1] + b[2] + b[3]) >= t
  <2>1. Quantili!Quantile(b, n, q) = 200 + (t - 100 * (b[1] + b[2])) \div b[3]
    BY <1>5, QuaDetto DEF t
  <2>2. /\ t - 100 * (b[1] + b[2]) \in Nat /\ b[3] \in 1..3
        /\ t - 100 * (b[1] + b[2]) <= 100 * b[3]
    BY <1>1, <1>2, <1>5
  <2>3. (t - 100 * (b[1] + b[2])) \div b[3] \in 0..100
    BY <2>2, QuaDentro
  <2>4. Quantili!Quantile(b, n, q) \in 200..300
    BY <2>1, <2>3
  <2> QED BY <1>1, <1>2, <1>5, <2>4 DEF t
<1>6. CASE 100 * (b[1] + b[2] + b[3]) < t
  <2>1. Quantili!Quantile(b, n, q) = 300
    BY <1>6, QuaDetto DEF t
  <2>2. 100 * (b[1] + b[2]) < t
    BY <1>1, <1>2, <1>6
  <2> QED BY <1>1, <1>2, <2>1, <2>2 DEF t
<1> QED BY <1>1, <1>2, <1>3, <1>4, <1>5, <1>6

\* The median is not above the 95th percentile.
LEMMA QuaInOrdine ==
  ASSUME NEW b, NEW n, QuaIsto(b, n)
  PROVE  Quantili!Quantile(b, n, 50) <= Quantili!Quantile(b, n, 95)
<1> DEFINE P == Quantili!Quantile(b, n, 50)
           Q == Quantili!Quantile(b, n, 95)
<1>1. b[1] \in 0..3 /\ b[2] \in 0..3 /\ b[3] \in 0..3 /\ n \in 1..4
  BY DEF QuaIsto
<1>2. /\ P \in 100..300 /\ (100 * (b[1] + b[2]) >= 50 * n => P <= 200)
      /\ Q \in 100..300 /\ (100 * (b[1] + b[2]) < 95 * n => Q >= 200)
  BY QuaPosto
<1>3. CASE 100 * b[1] >= 50 * n
  <2>1. P = 100
    BY <1>3, QuaDetto
  <2> HIDE DEF P, Q
  <2> QED BY <1>2, <2>1 DEF P, Q
<1>4. CASE 100 * b[1] < 50 * n /\ 100 * (b[1] + b[2]) >= 50 * n
  <2>1. P = 100 + (50 * n - 100 * b[1]) \div b[2]
    BY <1>4, QuaDetto
  <2>2. 100 * b[1] < 95 * n
    BY <1>1, <1>4
  <2>3. CASE 100 * (b[1] + b[2]) >= 95 * n
    <3>1. Q = 100 + (95 * n - 100 * b[1]) \div b[2]
      BY <2>2, <2>3, QuaDetto
    <3>2. /\ 50 * n - 100 * b[1] \in Nat /\ 95 * n - 100 * b[1] \in Nat /\ b[2] \in 1..3
          /\ 50 * n - 100 * b[1] <= 95 * n - 100 * b[1] /\ b[2] <= b[2]
      BY <1>1, <1>4
    <3>3. (50 * n - 100 * b[1]) \div b[2] <= (95 * n - 100 * b[1]) \div b[2]
      BY <3>2, QuaCresce
    <3>4. (50 * n - 100 * b[1]) \div b[2] \in Nat /\ (95 * n - 100 * b[1]) \div b[2] \in Nat
      BY <3>2, QuaDiviso
    <3> HIDE DEF P, Q
    <3> QED BY <2>1, <3>1, <3>3, <3>4 DEF P, Q
  <2>4. CASE 100 * (b[1] + b[2]) < 95 * n
    <3>1. P <= 200 /\ Q >= 200
      BY <1>2, <1>4, <2>4
    <3> HIDE DEF P, Q
    <3> QED BY <1>2, <3>1 DEF P, Q
  <2> QED BY <1>1, <2>3, <2>4
<1>5. CASE 100 * (b[1] + b[2]) < 50 * n /\ 100 * (b[1] + b[2] + b[3]) >= 50 * n
  <2>1. P = 200 + (50 * n - 100 * (b[1] + b[2])) \div b[3]
    BY <1>5, QuaDetto
  <2>2. 100 * (b[1] + b[2]) < 95 * n
    BY <1>1, <1>5
  <2>3. CASE 100 * (b[1] + b[2] + b[3]) >= 95 * n
    <3>1. Q = 200 + (95 * n - 100 * (b[1] + b[2])) \div b[3]
      BY <2>2, <2>3, QuaDetto
    <3>2. /\ 50 * n - 100 * (b[1] + b[2]) \in Nat /\ 95 * n - 100 * (b[1] + b[2]) \in Nat
          /\ 50 * n - 100 * (b[1] + b[2]) <= 95 * n - 100 * (b[1] + b[2])
          /\ b[3] \in 1..3 /\ b[3] <= b[3]
      BY <1>1, <1>5
    <3>3. (50 * n - 100 * (b[1] + b[2])) \div b[3] <= (95 * n - 100 * (b[1] + b[2])) \div b[3]
      BY <3>2, QuaCresce
    <3>4. /\ (50 * n - 100 * (b[1] + b[2])) \div b[3] \in Nat
          /\ (95 * n - 100 * (b[1] + b[2])) \div b[3] \in Nat
      BY <3>2, QuaDiviso
    <3> HIDE DEF P, Q
    <3> QED BY <2>1, <3>1, <3>3, <3>4 DEF P, Q
  <2>4. CASE 100 * (b[1] + b[2] + b[3]) < 95 * n
    <3>1. Q = 300
      BY <2>4, QuaDetto
    <3> HIDE DEF P, Q
    <3> QED BY <1>2, <3>1 DEF P, Q
  <2> QED BY <1>1, <2>3, <2>4
<1>6. CASE 100 * (b[1] + b[2] + b[3]) < 50 * n
  <2>1. 100 * (b[1] + b[2] + b[3]) < 95 * n
    BY <1>1, <1>6
  <2>2. Q = 300
    BY <2>1, QuaDetto
  <2> HIDE DEF P, Q
  <2> QED BY <1>2, <2>2 DEF P, Q
<1> QED BY <1>1, <1>3, <1>4, <1>5, <1>6

\* What is told is not above what is true.
LEMMA QuaNonSopra ==
  ASSUME NEW b, NEW n, QuaIsto(b, n), NEW q \in {50, 95}
  PROVE  Quantili!Quantile(b, n, q) <= Quantili!QuantileVero(b, n, q)
<1> DEFINE t == q * n
           Q == Quantili!Quantile(b, n, q)
           V == Quantili!QuantileVero(b, n, q)
<1>1. /\ b[1] \in 0..3 /\ b[2] \in 0..3 /\ b[3] \in 0..3 /\ n \in 1..4
      /\ b[1] <= b[2] /\ b[2] <= b[3]
  BY DEF QuaIsto
<1>2. t \in Nat
  <2>1. q = 50 \/ q = 95
    OBVIOUS
  <2> QED BY <1>1, <2>1
<1>3. /\ Q \in 100..300 /\ (100 * (b[1] + b[2]) >= t => Q <= 200)
  BY QuaPosto
<1> HIDE DEF t, Q, V
<1>4. CASE 100 * b[1] >= t
  <2>1. Q = 100 /\ V = 100
    BY <1>4, QuaDetto, QuaReale DEF t, Q, V
  <2>2. Q <= V
    BY <2>1
  <2> QED BY <2>2 DEF Q, V
<1>5. CASE 100 * b[1] < t /\ 100 * b[2] >= t
  <2>1. 100 * (b[1] + b[2]) >= t
    BY <1>1, <1>2, <1>5
  <2>2. Q = 100 + (t - 100 * b[1]) \div b[2]
    BY <1>5, <2>1, QuaDetto DEF t, Q
  <2>3. V = 100 + (t - 100 * b[1]) \div (b[2] - b[1])
    BY <1>5, QuaReale DEF t, V
  <2>4. /\ t - 100 * b[1] \in Nat /\ t - 100 * b[1] <= t - 100 * b[1] /\ b[2] \in 1..3
        /\ b[2] - b[1] \in 1..3 /\ b[2] - b[1] <= b[2]
    BY <1>1, <1>2, <1>5
  <2>5. (t - 100 * b[1]) \div b[2] <= (t - 100 * b[1]) \div (b[2] - b[1])
    BY <2>4, QuaCresce
  <2>6. (t - 100 * b[1]) \div b[2] \in Nat /\ (t - 100 * b[1]) \div (b[2] - b[1]) \in Nat
    BY <2>4, QuaDiviso
  <2>7. Q <= V
    BY <2>2, <2>3, <2>5, <2>6
  <2> QED BY <2>7 DEF Q, V
<1>6. CASE 100 * b[2] < t /\ 100 * b[3] >= t
  <2>1. V = 200 + (t - 100 * b[2]) \div (b[3] - b[2])
    BY <1>6, QuaReale DEF t, V
  <2>2. t - 100 * b[2] \in Nat /\ b[3] - b[2] \in 1..3
    BY <1>1, <1>2, <1>6
  <2>3. (t - 100 * b[2]) \div (b[3] - b[2]) \in Nat
    BY <2>2, QuaDiviso
  <2>4. CASE 100 * (b[1] + b[2]) >= t
    <3>1. Q <= V
      BY <1>3, <2>1, <2>3, <2>4
    <3> QED BY <3>1 DEF Q, V
  <2>5. CASE 100 * (b[1] + b[2]) < t
    <3>1. 100 * (b[1] + b[2] + b[3]) >= t
      BY <1>1, <1>2, <1>6
    <3>2. Q = 200 + (t - 100 * (b[1] + b[2])) \div b[3]
      BY <2>5, <3>1, QuaDetto DEF t, Q
    <3>3. /\ t - 100 * (b[1] + b[2]) \in Nat /\ t - 100 * (b[1] + b[2]) <= t - 100 * b[2]
          /\ b[3] \in 1..3 /\ b[3] - b[2] <= b[3]
      BY <1>1, <1>2, <1>6, <2>5
    <3>4. (t - 100 * (b[1] + b[2])) \div b[3] <= (t - 100 * b[2]) \div (b[3] - b[2])
      BY <2>2, <3>3, QuaCresce
    <3>5. (t - 100 * (b[1] + b[2])) \div b[3] \in Nat
      BY <3>3, QuaDiviso
    <3>6. Q <= V
      BY <2>1, <2>3, <3>2, <3>4, <3>5
    <3> QED BY <3>6 DEF Q, V
  <2> QED BY <1>1, <1>2, <2>4, <2>5
<1>7. CASE 100 * b[3] < t
  <2>1. V = 300
    BY <1>7, QuaReale DEF t, V
  <2>2. Q <= V
    BY <1>3, <2>1
  <2> QED BY <2>2 DEF Q, V
<1> QED BY <1>1, <1>2, <1>4, <1>5, <1>6, <1>7

\* The quantiles told are in order and never above the true ones: a fact of the functions.
LEMMA QuaOrdinati == Quantili!QuantiliOrdinati
<1> SUFFICES ASSUME NEW h \in Quantili!Istogramma
             PROVE  LET Q(q) == Quantili!Quantile(h[1], h[2], q) IN
                    /\ 0 <= Q(50) /\ Q(50) <= Q(95) /\ Q(95) <= 300
                    /\ \A q \in {50, 95} : Q(q) <= Quantili!QuantileVero(h[1], h[2], q)
  BY DEF Quantili!QuantiliOrdinati
<1>1. QuaIsto(h[1], h[2])
  BY DEF Quantili!Istogramma, QuaIsto
<1>2. /\ Quantili!Quantile(h[1], h[2], 50) \in 100..300 /\ Quantili!Quantile(h[1], h[2], 95) \in 100..300
  BY <1>1, QuaPosto
<1>3. Quantili!Quantile(h[1], h[2], 50) <= Quantili!Quantile(h[1], h[2], 95)
  BY <1>1, QuaInOrdine
<1>4. \A q \in {50, 95} : Quantili!Quantile(h[1], h[2], q) <= Quantili!QuantileVero(h[1], h[2], q)
  BY <1>1, QuaNonSopra
<1>5. 0 <= Quantili!Quantile(h[1], h[2], 50) /\ Quantili!Quantile(h[1], h[2], 95) <= 300
  BY <1>2
<1> QED BY <1>3, <1>4, <1>5

-----------------------------------------------------------------------------
(* ProxyInteractions: the last hops of a chat.                                             *)

ProPc == {"fuori", "modello", "registra", "spinge", "fine"}

ProPasso == [via : {"nessuna", "nativo", "compat", "flusso", "webui"}, n : {1, 2}, pc : ProPc,
             buona : BOOLEAN, andato : BOOLEAN]

ProTipi ==
  /\ passi \in [Domanda -> ProPasso]
  /\ risposta \in [Domanda -> {"attesa", "ok", "vuota", "errore", "andato"}]
  /\ completati \in [Domanda -> Nat]
  /\ telemetria \in [Pro!Chiamata -> 0..1] /\ inviati \in [Pro!Chiamata -> 0..1]

ProPannello ==
  /\ \A t \in tick : t.di \in Pro!Chiamata
  /\ ultimo \in [Pro!Chiamata -> {"no", "via", "arrivato", "sorpassato", "perso", "mai"}]
  /\ vivi \in [Pro!Chiamata -> 0..Pro!Assente]
  /\ \A i \in Pro!Chiamata : ultimo[i] = "arrivato" => vivi[i] = Pro!Assente

\* The rows of a request: none of a call that has not come to writing, or to pushing, it.
ProRighe(r) ==
  /\ passi[r].pc \in {"fuori", "modello", "registra"} => telemetria[<<r, passi[r].n>>] = 0
  /\ passi[r].pc = "spinge" => telemetria[<<r, passi[r].n>>] = 1
  /\ passi[r].pc # "fine" => inviati[<<r, passi[r].n>>] = 0
  /\ passi[r].n = 1 => telemetria[<<r, 2>>] = 0 /\ inviati[<<r, 2>>] = 0
  /\ \A k \in {1, 2} : inviati[<<r, k>>] <= telemetria[<<r, k>>]

\* How often the model has generated: at most once for each call, and a second call is
\* made after a generation only when its row was refused.
ProConti(r) ==
  /\ completati[r] <= (IF passi[r].n = 2 /\ <<r, 1>> \in negate THEN 1 ELSE 0)
                      + (IF passi[r].pc \in {"fuori", "modello"} THEN 0 ELSE 1)
  /\ passi[r].buona => completati[r] > 0
  /\ passi[r].via = "webui" /\ passi[r].pc = "registra" => completati[r] > 0

ProRisposta(r) ==
  risposta[r] = "ok" =>
    /\ passi[r].pc = "fine" /\ completati[r] > 0
    /\ telemetria[<<r, passi[r].n>>] = 1 \/ <<r, passi[r].n>> \in negate

ProUna(r) == ProRighe(r) /\ ProConti(r) /\ ProRisposta(r)

ProInv == ProTipi /\ ProPannello /\ \A r \in Domanda : ProUna(r)

\* The invariant at first.
LEMMA ProInizio == ASSUME Pro!Init PROVE ProInv
<1> USE IpotesiProxy DEF Pro!ProxyInteractionsAssumption
<1>1. /\ passi = [r \in Domanda |-> [via |-> "nessuna", n |-> 1, pc |-> "fuori", buona |-> FALSE,
                                     andato |-> FALSE]]
      /\ risposta = [r \in Domanda |-> "attesa"] /\ completati = [r \in Domanda |-> 0]
      /\ telemetria = [i \in Pro!Chiamata |-> 0] /\ negate = {} /\ inviati = [i \in Pro!Chiamata |-> 0]
      /\ tick = {} /\ ultimo = [i \in Pro!Chiamata |-> "no"]
      /\ vivi = [i \in Pro!Chiamata |-> Pro!Assente]
  BY DEF Pro!Init, Pro!Fuori
<1>2. Pro!Assente \in Nat
  BY DEF Pro!Assente
<1>3. ProTipi
  BY <1>1 DEF ProTipi, ProPasso, ProPc
<1>4. ProPannello
  BY <1>1, <1>2 DEF ProPannello
<1>5. ASSUME NEW r \in Domanda PROVE ProUna(r)
  <2>1. <<r, 1>> \in Pro!Chiamata /\ <<r, 2>> \in Pro!Chiamata
    BY DEF Pro!Chiamata
  <2>2. passi[r].pc = "fuori" /\ passi[r].n = 1 /\ ~passi[r].buona /\ completati[r] = 0
        /\ risposta[r] = "attesa" /\ telemetria[<<r, 1>>] = 0 /\ telemetria[<<r, 2>>] = 0
        /\ inviati[<<r, 1>>] = 0 /\ inviati[<<r, 2>>] = 0
    BY <1>1, <2>1
  <2> QED BY <2>2 DEF ProUna, ProRighe, ProConti, ProRisposta
<1> QED BY <1>3, <1>4, <1>5 DEF ProInv

\* What one request does is no matter of another.
LEMMA ProAltre ==
  ASSUME ProInv, NEW r \in Domanda, NEW p \in ProPasso, passi' = [passi EXCEPT ![r] = p],
         ProTipi', ProPannello', ProUna(r)',
         \A q \in Domanda : q # r =>
           /\ risposta'[q] = risposta[q] /\ completati'[q] = completati[q]
           /\ \A k \in {1, 2} : /\ telemetria'[<<q, k>>] = telemetria[<<q, k>>]
                                /\ inviati'[<<q, k>>] = inviati[<<q, k>>]
                                /\ <<q, k>> \in negate' <=> <<q, k>> \in negate
  PROVE  ProInv'
<1>1. ASSUME NEW q \in Domanda, q # r PROVE ProUna(q)'
  <2>1. ProUna(q) /\ passi'[q] = passi[q] /\ passi[q].n \in {1, 2}
    BY <1>1 DEF ProInv, ProTipi, ProPasso
  <2>2. \A k \in {1, 2} : /\ telemetria'[<<q, k>>] = telemetria[<<q, k>>]
                          /\ inviati'[<<q, k>>] = inviati[<<q, k>>]
                          /\ <<q, k>> \in negate' <=> <<q, k>> \in negate
    BY <1>1
  <2>3. risposta'[q] = risposta[q] /\ completati'[q] = completati[q]
    BY <1>1
  <2>4. ProRighe(q)'
    BY <2>1, <2>2 DEF ProUna, ProRighe
  <2>5. ProConti(q)'
    BY <2>1, <2>2, <2>3 DEF ProUna, ProConti
  <2>6. ProRisposta(q)'
    BY <2>1, <2>2, <2>3 DEF ProUna, ProRisposta
  <2> QED BY <2>4, <2>5, <2>6 DEF ProUna
<1> QED BY <1>1 DEF ProInv

\* A step of a request that moves it and may tell the caller something, and writes nothing.
LEMMA ProMossa ==
  ASSUME ProInv, NEW r \in Domanda, NEW p \in ProPasso, NEW e \in {"attesa", "vuota", "errore", "andato"},
         passi' = [passi EXCEPT ![r] = p],
         \/ UNCHANGED risposta
         \/ risposta' = [risposta EXCEPT ![r] = IF risposta[r] = "attesa" THEN e ELSE risposta[r]],
         UNCHANGED <<completati, telemetria, inviati>>,
         UNCHANGED negate \/ negate' = negate \union {<<r, passi[r].n>>},
         ProPannello', ProRighe(r)', ProConti(r)', passi[r].pc # "fine"
  PROVE  ProInv'
<1>1. ProTipi /\ ProUna(r)
  BY DEF ProInv
<1>2. risposta' \in [Domanda -> {"attesa", "ok", "vuota", "errore", "andato"}]
      /\ (risposta'[r] = "ok" => risposta[r] = "ok") /\ \A q \in Domanda : q # r => risposta'[q] = risposta[q]
  BY <1>1 DEF ProTipi
<1>3. ProTipi'
  BY <1>1, <1>2 DEF ProTipi
<1>4. ProRisposta(r)'
  BY <1>1, <1>2 DEF ProUna, ProRisposta
<1>5. \A q \in Domanda : q # r => \A k \in {1, 2} : <<q, k>> \in negate' <=> <<q, k>> \in negate
  OBVIOUS
<1>6. ProUna(r)'
  BY <1>4 DEF ProUna
<1>7. \A q \in Domanda : q # r =>
           /\ risposta'[q] = risposta[q] /\ completati'[q] = completati[q]
           /\ \A k \in {1, 2} : /\ telemetria'[<<q, k>>] = telemetria[<<q, k>>]
                                /\ inviati'[<<q, k>>] = inviati[<<q, k>>]
                                /\ <<q, k>> \in negate' <=> <<q, k>> \in negate
  BY <1>2, <1>5
<1> QED BY <1>3, <1>6, <1>7, ProAltre

\* What the panel changes leaves the requests as they are.
LEMMA ProPannelloSolo ==
  ASSUME ProInv, ProPannello',
         UNCHANGED <<passi, risposta, completati, telemetria, negate, inviati>>
  PROVE  ProInv'
BY DEF ProInv, ProTipi, ProUna, ProRighe, ProConti, ProRisposta

\* The ticks and the panel.
LEMMA ProPassoPannello ==
  ASSUME ProInv, \/ \E r \in Domanda : Pro!Pezzo(r)
                 \/ \E t \in tick : Pro!Arriva(t) \/ Pro!Perde(t)
                 \/ Pro!Passa \/ Pro!Guarda
  PROVE  ProInv'
<1> USE IpotesiProxy DEF Pro!ProxyInteractionsAssumption
<1>1. ProPannello /\ ProTipi /\ Pro!Assente = Stantio + 2
  BY DEF ProInv, Pro!Assente
<1>2. CASE \E r \in Domanda : Pro!Pezzo(r)
  <2>1. PICK r \in Domanda : Pro!Pezzo(r)
    BY <1>2
  <2>2. PICK k \in 1..MaxTick : tick' = tick \union {[di |-> Pro!Qui(r), fine |-> FALSE, k |-> k]}
    BY <2>1 DEF Pro!Pezzo
  <2>3. Pro!Qui(r) \in Pro!Chiamata
    BY <1>1 DEF Pro!Qui, Pro!Chiamata, ProTipi, ProPasso
  <2>4. UNCHANGED <<passi, risposta, completati, telemetria, negate, inviati, ultimo, vivi>>
    BY <2>1 DEF Pro!Pezzo, Pro!Fatti
  <2>5. ProPannello'
    BY <1>1, <2>2, <2>3, <2>4 DEF ProPannello, Pro!Assente
  <2> QED BY <2>4, <2>5, ProPannelloSolo
<1>3. CASE \E t \in tick : Pro!Arriva(t)
  <2>1. PICK t \in tick : Pro!Arriva(t)
    BY <1>3
  <2>2. /\ tick' = tick \ {t} /\ vivi' = [vivi EXCEPT ![t.di] = Pro!Dopo(t)]
        /\ ultimo' = [ultimo EXCEPT ![t.di] =
             IF t.fine THEN "arrivato" ELSE IF ultimo[t.di] = "arrivato" THEN "sorpassato" ELSE ultimo[t.di]]
        /\ UNCHANGED <<passi, risposta, completati, telemetria, negate, inviati>>
    BY <2>1 DEF Pro!Arriva, Pro!Fatti
  <2>3. t.di \in Pro!Chiamata
    BY <1>1 DEF ProPannello
  <2>4. Pro!Dopo(t) \in 0..Pro!Assente /\ (t.fine => Pro!Dopo(t) = Pro!Assente)
    BY <1>1 DEF Pro!Dopo
  <2>5. ProPannello'
    BY <1>1, <2>2, <2>3, <2>4 DEF ProPannello, Pro!Assente
  <2> QED BY <2>2, <2>5, ProPannelloSolo
<1>4. CASE \E t \in tick : Pro!Perde(t)
  <2>1. PICK t \in tick : Pro!Perde(t)
    BY <1>4
  <2>2. /\ tick' = tick \ {t} /\ vivi' = vivi
        /\ ultimo' = [ultimo EXCEPT ![t.di] = IF t.fine THEN "perso" ELSE ultimo[t.di]]
        /\ UNCHANGED <<passi, risposta, completati, telemetria, negate, inviati>>
    BY <2>1 DEF Pro!Perde, Pro!Fatti
  <2>3. t.di \in Pro!Chiamata
    BY <1>1 DEF ProPannello
  <2>4. ProPannello'
    BY <1>1, <2>2, <2>3 DEF ProPannello, Pro!Assente
  <2> QED BY <2>2, <2>4, ProPannelloSolo
<1>5. CASE Pro!Passa
  <2>1. /\ vivi' = [i \in Pro!Chiamata |-> IF vivi[i] <= Stantio THEN vivi[i] + 1 ELSE vivi[i]]
        /\ UNCHANGED <<passi, risposta, completati, telemetria, negate, inviati, tick, ultimo>>
    BY <1>5 DEF Pro!Passa, Pro!Fatti
  <2>2. \A i \in Pro!Chiamata : vivi[i] \in 0..Stantio + 2
    BY <1>1 DEF ProPannello
  <2>3. \A i \in Pro!Chiamata : vivi'[i] \in 0..Stantio + 2 /\ (vivi[i] = Stantio + 2 => vivi'[i] = Stantio + 2)
    BY <2>1, <2>2
  <2>4. vivi' \in [Pro!Chiamata -> 0..Stantio + 2]
    BY <2>1, <2>3
  <2>5. ProPannello'
    BY <1>1, <2>1, <2>3, <2>4 DEF ProPannello, Pro!Assente
  <2> QED BY <2>1, <2>5, ProPannelloSolo
<1>6. CASE Pro!Guarda
  <2>1. /\ vivi' = [i \in Pro!Chiamata |-> IF vivi[i] > Stantio THEN Pro!Assente ELSE vivi[i]]
        /\ UNCHANGED <<passi, risposta, completati, telemetria, negate, inviati, tick, ultimo>>
    BY <1>6 DEF Pro!Guarda, Pro!Fatti
  <2>2. \A i \in Pro!Chiamata : vivi[i] \in 0..Stantio + 2
    BY <1>1 DEF ProPannello
  <2>3. \A i \in Pro!Chiamata : vivi'[i] \in 0..Stantio + 2 /\ (vivi[i] = Stantio + 2 => vivi'[i] = Stantio + 2)
    BY <1>1, <2>1, <2>2
  <2>4. vivi' \in [Pro!Chiamata -> 0..Stantio + 2]
    BY <2>1, <2>3
  <2>5. ProPannello'
    BY <1>1, <2>1, <2>3, <2>4 DEF ProPannello, Pro!Assente
  <2> QED BY <2>1, <2>5, ProPannelloSolo
<1> QED BY <1>2, <1>3, <1>4, <1>5, <1>6

\* The rows and counts of a request that moves and writes nothing.
LEMMA ProFerme ==
  ASSUME ProInv, NEW r \in Domanda, NEW p \in ProPasso, passi' = [passi EXCEPT ![r] = p],
         UNCHANGED <<telemetria, inviati, completati>>,
         p.n = passi[r].n,
         p.pc \in {"modello", "registra"} => passi[r].pc \in {"fuori", "modello", "registra"},
         p.pc = "spinge" => passi[r].pc = "spinge", p.pc # "fuori",
         p.pc = "modello" => passi[r].pc \in {"fuori", "modello"},
         negate \subseteq negate', <<r, 1>> \in negate' => <<r, 1>> \in negate \/ p.n = 1,
         p.buona => passi[r].buona,
         p.via = "webui" /\ p.pc = "registra" => passi[r].via = "webui" /\ passi[r].pc = "registra"
  PROVE  ProRighe(r)' /\ ProConti(r)'
<1>1. ProTipi /\ ProRighe(r) /\ ProConti(r)
  BY DEF ProInv, ProUna
<1>2. passi'[r] = p /\ passi[r] \in ProPasso /\ completati[r] \in Nat
  BY <1>1 DEF ProTipi
<1>3. passi[r].pc \in ProPc /\ p.pc \in ProPc /\ p.n \in {1, 2}
  BY <1>2 DEF ProPasso
<1>4. ProRighe(r)'
  BY <1>1, <1>2, <1>3 DEF ProRighe, ProPc
<1>5. ProConti(r)'
  BY <1>1, <1>2, <1>3 DEF ProConti, ProPc
<1> QED BY <1>4, <1>5

\* What the requests change leaves the panel as it is.
LEMMA ProPannelloResta ==
  ASSUME ProPannello, UNCHANGED <<tick, ultimo, vivi>> PROVE ProPannello'
BY DEF ProPannello, Pro!Assente

\* What every step of a request knows of it.
LEMMA ProQui ==
  ASSUME ProInv, NEW r \in Domanda
  PROVE  /\ ProTipi /\ ProPannello /\ ProRighe(r) /\ ProConti(r) /\ ProRisposta(r)
         /\ passi[r] \in ProPasso /\ completati[r] \in Nat
         /\ Pro!Qui(r) = <<r, passi[r].n>> /\ Pro!Qui(r) \in Pro!Chiamata
         /\ <<r, 1>> \in Pro!Chiamata /\ <<r, 2>> \in Pro!Chiamata
         /\ passi[r].n \in {1, 2} /\ passi[r].pc \in ProPc
<1>1. ProTipi /\ ProPannello /\ ProRighe(r) /\ ProConti(r) /\ ProRisposta(r)
  BY DEF ProInv, ProUna
<1>2. passi[r] \in ProPasso /\ completati[r] \in Nat
  BY <1>1 DEF ProTipi
<1>3. passi[r].n \in {1, 2} /\ passi[r].pc \in ProPc
  BY <1>2 DEF ProPasso
<1> QED BY <1>1, <1>2, <1>3 DEF Pro!Qui, Pro!Chiamata

\* A call fails: the second route, or the caller is told.
LEMMA ProFallisce ==
  ASSUME ProInv, NEW r \in Domanda, Pro!Fallisce(r),
         UNCHANGED <<completati, telemetria, inviati, tick, ultimo, vivi>>,
         \/ passi[r].pc = "modello" /\ UNCHANGED negate
         \/ passi[r].pc = "registra" /\ negate' = negate \union {<<r, passi[r].n>>}
  PROVE  ProInv'
<1>1. /\ ProTipi /\ ProPannello /\ ProRighe(r) /\ ProConti(r) /\ passi[r] \in ProPasso
      /\ completati[r] \in Nat /\ passi[r].n \in {1, 2}
  BY ProQui
<1>2. ProPannello'
  BY <1>1, ProPannelloResta
<1>3. CASE passi[r].via = "nativo" /\ passi[r].n = 1 /\ ~passi[r].andato
  <2> DEFINE p == [passi[r] EXCEPT !.n = 2, !.pc = "modello", !.buona = FALSE]
  <2>1. passi' = [passi EXCEPT ![r] = p] /\ UNCHANGED risposta
    BY <1>3 DEF Pro!Fallisce, Pro!Va
  <2>2. p \in ProPasso /\ p.n = 2 /\ p.pc = "modello" /\ ~p.buona /\ p.via = "nativo"
    BY <1>1, <1>3 DEF ProPasso, ProPc
  <2> HIDE DEF p
  <2>3. passi'[r] = p
    BY <1>1, <2>1 DEF ProTipi
  <2>4. /\ telemetria[<<r, 2>>] = 0 /\ inviati[<<r, 2>>] = 0
        /\ \A k \in {1, 2} : inviati[<<r, k>>] <= telemetria[<<r, k>>]
    BY <1>1, <1>3 DEF ProRighe
  <2>5. ProRighe(r)'
    BY <2>2, <2>3, <2>4 DEF ProRighe
  <2>6. completati[r] <= IF <<r, 1>> \in negate' THEN 1 ELSE 0
    <3>1. CASE passi[r].pc = "modello" /\ UNCHANGED negate
      BY <1>1, <1>3, <3>1 DEF ProConti
    <3>2. CASE passi[r].pc = "registra" /\ negate' = negate \union {<<r, passi[r].n>>}
      BY <1>1, <1>3, <3>2 DEF ProConti
    <3> QED BY <3>1, <3>2
  <2>7. ProConti(r)'
    BY <1>1, <2>2, <2>3, <2>6 DEF ProConti
  <2> QED BY <1>2, <2>1, <2>2, <2>5, <2>7, ProMossa
<1>4. CASE ~(passi[r].via = "nativo" /\ passi[r].n = 1 /\ ~passi[r].andato)
  <2> DEFINE p == [passi[r] EXCEPT !.pc = "fine"]
  <2>1. /\ passi' = [passi EXCEPT ![r] = p]
        /\ risposta' = [risposta EXCEPT ![r] = IF risposta[r] = "attesa" THEN "errore" ELSE risposta[r]]
    BY <1>4 DEF Pro!Fallisce, Pro!Va, Pro!Dice
  <2>2. p \in ProPasso /\ p.n = passi[r].n /\ p.pc = "fine" /\ p.buona = passi[r].buona /\ p.via = passi[r].via
    BY <1>1 DEF ProPasso, ProPc
  <2> HIDE DEF p
  <2>3. negate \subseteq negate' /\ (<<r, 1>> \in negate' => <<r, 1>> \in negate \/ p.n = 1)
    BY <2>2
  <2>4. ProRighe(r)' /\ ProConti(r)'
    BY <2>1, <2>2, <2>3, ProFerme
  <2> QED BY <1>2, <2>1, <2>2, <2>4, ProMossa
<1> QED BY <1>3, <1>4

\* The steps of a request that write nothing and end no call well.
LEMMA ProPassoMosso ==
  ASSUME ProInv, NEW r \in Domanda,
         \/ \E via \in Vie : Pro!Chiama(r, via)
         \/ Pro!Rifiuta(r) \/ Pro!Cade(r) \/ Pro!Lascia(r) \/ Pro!Interrompe(r) \/ Pro!NodoScade(r)
  PROVE  ProInv'
<1> USE IpotesiProxy DEF Pro!ProxyInteractionsAssumption
<1>1. /\ ProTipi /\ ProPannello /\ ProRighe(r) /\ ProConti(r) /\ passi[r] \in ProPasso
      /\ completati[r] \in Nat /\ passi[r].n \in {1, 2}
      /\ Pro!Qui(r) = <<r, passi[r].n>> /\ Pro!Qui(r) \in Pro!Chiamata
  BY ProQui
<1>2. ASSUME NEW p \in ProPasso, NEW e \in {"attesa", "vuota", "errore", "andato"},
             passi' = [passi EXCEPT ![r] = p],
             UNCHANGED risposta \/ Pro!Dice(r, e),
             UNCHANGED <<completati, telemetria, negate, inviati>>, ProPannello',
             passi[r].pc # "fine", p.n = passi[r].n,
             p.pc \in {"modello", "registra"} => passi[r].pc \in {"fuori", "modello", "registra"},
             p.pc = "spinge" => passi[r].pc = "spinge", p.pc # "fuori",
             p.pc = "modello" => passi[r].pc \in {"fuori", "modello"},
             p.buona => passi[r].buona,
             p.via = "webui" /\ p.pc = "registra" => passi[r].via = "webui" /\ passi[r].pc = "registra"
      PROVE  ProInv'
  <2>1. ProRighe(r)' /\ ProConti(r)'
    BY <1>2, ProFerme
  <2>2. \/ UNCHANGED risposta
        \/ risposta' = [risposta EXCEPT ![r] = IF risposta[r] = "attesa" THEN e ELSE risposta[r]]
    BY <1>2 DEF Pro!Dice
  <2> QED BY <1>2, <2>1, <2>2, ProMossa
<1>3. CASE \E via \in Vie : Pro!Chiama(r, via)
  <2>1. PICK via \in Vie : Pro!Chiama(r, via)
    BY <1>3
  <2> DEFINE p == [passi[r] EXCEPT !.via = via, !.pc = "modello"]
  <2>2. /\ passi[r].pc = "fuori" /\ passi' = [passi EXCEPT ![r] = p]
        /\ UNCHANGED <<risposta, completati, telemetria, negate, inviati, tick, ultimo, vivi>>
    BY <2>1 DEF Pro!Chiama, Pro!Va, Pro!Fatti, Pro!Pannello
  <2>3. p \in ProPasso /\ p.n = passi[r].n /\ p.pc = "modello" /\ p.buona = passi[r].buona
    BY <1>1 DEF ProPasso, ProPc
  <2>4. ProPannello'
    BY <1>1, <2>2, ProPannelloResta
  <2> HIDE DEF p
  <2> QED BY <1>2, <2>2, <2>3, <2>4
<1>4. CASE Pro!Rifiuta(r)
  <2>1. /\ passi[r].pc = "modello"
        /\ UNCHANGED <<completati, telemetria, negate, inviati, tick, ultimo, vivi>>
    BY <1>4 DEF Pro!Rifiuta, Pro!Fatti, Pro!Pannello
  <2>2. ProPannello'
    BY <1>1, <2>1, ProPannelloResta
  <2>3. CASE passi[r].via = "webui"
    <3> DEFINE p == [passi[r] EXCEPT !.pc = "fine"]
    <3>1. passi' = [passi EXCEPT ![r] = p] /\ Pro!Dice(r, "vuota")
      BY <1>4, <2>3 DEF Pro!Rifiuta, Pro!Va
    <3>2. p \in ProPasso /\ p.n = passi[r].n /\ p.pc = "fine" /\ p.buona = passi[r].buona
      BY <1>1 DEF ProPasso, ProPc
    <3> HIDE DEF p
    <3> QED BY <1>2, <2>1, <2>2, <3>1, <3>2
  <2>4. CASE passi[r].via # "webui"
    <3> DEFINE p == [passi[r] EXCEPT !.pc = "registra"]
    <3>1. passi' = [passi EXCEPT ![r] = p] /\ UNCHANGED risposta
      BY <1>4, <2>4 DEF Pro!Rifiuta, Pro!Va
    <3>2. p \in ProPasso /\ p.n = passi[r].n /\ p.pc = "registra" /\ p.buona = passi[r].buona /\ p.via = passi[r].via
      BY <1>1 DEF ProPasso, ProPc
    <3> HIDE DEF p
    <3> QED BY <1>2, <2>1, <2>2, <2>4, <3>1, <3>2
  <2> QED BY <2>3, <2>4
<1>5. CASE Pro!Cade(r)
  <2>1. /\ passi[r].pc = "modello"
        /\ UNCHANGED <<completati, telemetria, negate, inviati, tick, ultimo, vivi>>
    BY <1>5 DEF Pro!Cade, Pro!Fatti, Pro!Pannello
  <2>2. CASE passi[r].via = "flusso"
    <3> DEFINE p == [passi[r] EXCEPT !.pc = "registra"]
    <3>1. passi' = [passi EXCEPT ![r] = p] /\ Pro!Dice(r, "errore")
      BY <1>5, <2>2 DEF Pro!Cade, Pro!Va
    <3>2. p \in ProPasso /\ p.n = passi[r].n /\ p.pc = "registra" /\ p.buona = passi[r].buona /\ p.via = passi[r].via
      BY <1>1 DEF ProPasso, ProPc
    <3>3. ProPannello'
      BY <1>1, <2>1, ProPannelloResta
    <3> HIDE DEF p
    <3> QED BY <1>2, <2>1, <2>2, <3>1, <3>2, <3>3
  <2>3. CASE passi[r].via # "flusso"
    <3>1. Pro!Fallisce(r)
      BY <1>5, <2>3 DEF Pro!Cade
    <3> QED BY <2>1, <3>1, ProFallisce
  <2> QED BY <2>2, <2>3
<1>6. CASE Pro!Lascia(r)
  <2> DEFINE p == [passi[r] EXCEPT !.andato = TRUE,
                                   !.pc = IF passi[r].via = "flusso" THEN "registra" ELSE "fine"]
  <2>1. /\ passi[r].pc = "modello" /\ passi' = [passi EXCEPT ![r] = p] /\ Pro!Dice(r, "andato")
        /\ UNCHANGED <<completati, telemetria, negate, inviati, tick, ultimo, vivi>>
    BY <1>6 DEF Pro!Lascia, Pro!Va, Pro!Fatti, Pro!Pannello
  <2>2. p \in ProPasso
    <3>1. (IF passi[r].via = "flusso" THEN "registra" ELSE "fine") \in ProPc
      BY DEF ProPc
    <3> QED BY <1>1, <3>1 DEF ProPasso
  <2>3. /\ p.n = passi[r].n /\ p.buona = passi[r].buona /\ p.via = passi[r].via
        /\ p.pc \in {"registra", "fine"} /\ (p.pc = "registra" => p.via # "webui")
    BY <1>1 DEF ProPasso
  <2>4. ProPannello'
    BY <1>1, <2>1, ProPannelloResta
  <2> HIDE DEF p
  <2> QED BY <1>2, <2>1, <2>2, <2>3, <2>4
<1>7. CASE Pro!Interrompe(r)
  <2> DEFINE p == [passi[r] EXCEPT !.pc = "fine"]
  <2>1. /\ passi[r].pc = "spinge" /\ passi' = [passi EXCEPT ![r] = p] /\ Pro!Dice(r, "andato")
        /\ ultimo' = [ultimo EXCEPT ![Pro!Qui(r)] = "mai"]
        /\ UNCHANGED <<completati, telemetria, negate, inviati, tick, vivi>>
    BY <1>7 DEF Pro!Interrompe, Pro!Va, Pro!Fatti
  <2>2. p \in ProPasso /\ p.n = passi[r].n /\ p.pc = "fine" /\ p.buona = passi[r].buona
    BY <1>1 DEF ProPasso, ProPc
  <2>3. ProPannello'
    BY <1>1, <2>1 DEF ProPannello, Pro!Assente
  <2> HIDE DEF p
  <2> QED BY <1>2, <2>1, <2>2, <2>3
<1>8. CASE Pro!NodoScade(r)
  <2> DEFINE p == [passi[r] EXCEPT !.andato = TRUE]
  <2>1. /\ passi[r].pc \in {"modello", "registra", "spinge"} /\ passi' = [passi EXCEPT ![r] = p]
        /\ Pro!Dice(r, "errore")
        /\ UNCHANGED <<completati, telemetria, negate, inviati, tick, ultimo, vivi>>
    BY <1>8 DEF Pro!NodoScade, Pro!Va, Pro!Fatti, Pro!Pannello
  <2>2. /\ p \in ProPasso /\ p.n = passi[r].n /\ p.pc = passi[r].pc /\ p.buona = passi[r].buona
        /\ p.via = passi[r].via
    BY <1>1 DEF ProPasso
  <2>3. ProPannello'
    BY <1>1, <2>1, ProPannelloResta
  <2> HIDE DEF p
  <2> QED BY <1>2, <2>1, <2>2, <2>3
<1> QED BY <1>3, <1>4, <1>5, <1>6, <1>7, <1>8

\* The steps that count: a generation,
LEMMA ProPassoGenera ==
  ASSUME ProInv, NEW r \in Domanda, Pro!Genera(r) PROVE ProInv'
<1>1. /\ ProTipi /\ ProPannello /\ ProRighe(r) /\ ProConti(r) /\ ProRisposta(r) /\ passi[r] \in ProPasso
      /\ completati[r] \in Nat /\ passi[r].n \in {1, 2}
  BY ProQui
<1> DEFINE p == [passi[r] EXCEPT !.pc = "registra", !.buona = TRUE]
<1>2. /\ passi[r].pc = "modello" /\ passi' = [passi EXCEPT ![r] = p]
      /\ completati' = [completati EXCEPT ![r] = completati[r] + 1]
      /\ UNCHANGED <<risposta, telemetria, negate, inviati, tick, ultimo, vivi>>
  BY DEF Pro!Genera, Pro!Va, Pro!Fatti, Pro!Pannello
<1>3. p \in ProPasso /\ p.n = passi[r].n /\ p.pc = "registra"
  BY <1>1 DEF ProPasso, ProPc
<1> HIDE DEF p
<1>4. ProTipi'
  BY <1>1, <1>2, <1>3 DEF ProTipi
<1>5. ProPannello'
  BY <1>1, <1>2, ProPannelloResta
<1>6. passi'[r] = p /\ completati'[r] = completati[r] + 1
  BY <1>1, <1>2 DEF ProTipi
<1>7. ProRighe(r)'
  BY <1>1, <1>2, <1>3, <1>6 DEF ProRighe
<1>8. ProConti(r)'
  BY <1>1, <1>2, <1>3, <1>6 DEF ProConti
<1>9. ProRisposta(r)'
  BY <1>1, <1>2 DEF ProRisposta
<1>10. \A q \in Domanda : q # r => completati'[q] = completati[q]
  BY <1>1, <1>2 DEF ProTipi
<1> QED BY <1>2, <1>3, <1>4, <1>5, <1>7, <1>8, <1>9, <1>10, ProAltre DEF ProUna

\* ... its row,
LEMMA ProPassoRegistra ==
  ASSUME ProInv, NEW r \in Domanda, Pro!Registra(r) PROVE ProInv'
<1>1. /\ ProTipi /\ ProPannello /\ ProRighe(r) /\ ProConti(r) /\ ProRisposta(r) /\ passi[r] \in ProPasso
      /\ completati[r] \in Nat /\ passi[r].n \in {1, 2}
      /\ Pro!Qui(r) = <<r, passi[r].n>> /\ Pro!Qui(r) \in Pro!Chiamata
      /\ <<r, 1>> \in Pro!Chiamata /\ <<r, 2>> \in Pro!Chiamata
  BY ProQui
<1> DEFINE p == [passi[r] EXCEPT !.pc = "spinge"]
           i == <<r, passi[r].n>>
<1>2. /\ passi[r].pc = "registra" /\ passi' = [passi EXCEPT ![r] = p]
      /\ telemetria' = [telemetria EXCEPT ![i] = telemetria[i] + 1]
      /\ UNCHANGED <<risposta, completati, negate, inviati, tick, ultimo, vivi>>
  BY <1>1 DEF Pro!Registra, Pro!Va, Pro!Pannello
<1>3. p \in ProPasso /\ p.n = passi[r].n /\ p.pc = "spinge" /\ p.buona = passi[r].buona
  BY <1>1 DEF ProPasso, ProPc
<1>4. telemetria[i] = 0 /\ inviati[i] = 0
  BY <1>1, <1>2 DEF ProRighe
<1>5. telemetria' = [telemetria EXCEPT ![i] = 1]
  BY <1>2, <1>4
<1> HIDE DEF p
<1>6. ProTipi'
  BY <1>1, <1>2, <1>3, <1>5 DEF ProTipi
<1>7. ProPannello'
  BY <1>1, <1>2, ProPannelloResta
<1>8. /\ passi'[r] = p /\ telemetria'[i] = 1
      /\ \A j \in Pro!Chiamata : j # i => telemetria'[j] = telemetria[j]
  BY <1>1, <1>2, <1>5 DEF ProTipi
<1>9. ProRighe(r)'
  <2>1. passi[r].n = 1 => telemetria'[<<r, 2>>] = 0 /\ inviati[<<r, 2>>] = 0
    <3>1. passi[r].n = 1 => <<r, 2>> # i
      OBVIOUS
    <3> QED BY <1>1, <1>8, <3>1 DEF ProRighe
  <2>2. \A k \in {1, 2} : inviati[<<r, k>>] <= telemetria'[<<r, k>>]
    <3> SUFFICES ASSUME NEW k \in {1, 2} PROVE inviati[<<r, k>>] <= telemetria'[<<r, k>>]
      OBVIOUS
    <3>1. CASE k = passi[r].n
      BY <1>4, <1>8, <3>1
    <3>2. CASE k # passi[r].n
      <4>1. <<r, k>> # i /\ <<r, k>> \in Pro!Chiamata
        BY <1>1, <3>2
      <4> QED BY <1>1, <1>8, <4>1 DEF ProRighe
    <3> QED BY <3>1, <3>2
  <2> QED BY <1>2, <1>3, <1>4, <1>8, <2>1, <2>2 DEF ProRighe
<1>10. ProConti(r)'
  BY <1>1, <1>2, <1>3, <1>8 DEF ProConti
<1>11. ProRisposta(r)'
  BY <1>1, <1>2 DEF ProRisposta
<1>12. \A q \in Domanda : q # r => \A k \in {1, 2} : telemetria'[<<q, k>>] = telemetria[<<q, k>>]
  <2> SUFFICES ASSUME NEW q \in Domanda, q # r, NEW k \in {1, 2}
               PROVE  telemetria'[<<q, k>>] = telemetria[<<q, k>>]
    OBVIOUS
  <2>1. <<q, k>> \in Pro!Chiamata /\ <<q, k>> # i
    BY DEF Pro!Chiamata
  <2> QED BY <1>8, <2>1
<1> QED BY <1>2, <1>3, <1>6, <1>7, <1>9, <1>10, <1>11, <1>12, ProAltre DEF ProUna

\* ... the refusal of its row,
LEMMA ProPassoNonRegistra ==
  ASSUME ProInv, NEW r \in Domanda, Pro!NonRegistra(r) PROVE ProInv'
<1>1. /\ ProTipi /\ ProPannello /\ ProRighe(r) /\ ProConti(r) /\ ProRisposta(r) /\ passi[r] \in ProPasso
      /\ completati[r] \in Nat /\ passi[r].n \in {1, 2}
      /\ Pro!Qui(r) = <<r, passi[r].n>>
  BY ProQui
<1>2. /\ passi[r].pc = "registra" /\ negate' = negate \union {<<r, passi[r].n>>}
      /\ UNCHANGED <<completati, telemetria, inviati, tick, ultimo, vivi>>
  BY <1>1 DEF Pro!NonRegistra, Pro!Pannello
<1>3. ProPannello'
  BY <1>1, <1>2, ProPannelloResta
<1> DEFINE p == [passi[r] EXCEPT !.pc = "fine"]
<1>4. p \in ProPasso /\ p.n = passi[r].n /\ p.pc = "fine" /\ p.buona = passi[r].buona
  BY <1>1 DEF ProPasso, ProPc
<1>5. passi[r].via \in {"webui", "flusso"} => passi' = [passi EXCEPT ![r] = p]
  BY DEF Pro!NonRegistra, Pro!Va
<1> HIDE DEF p
<1>6. passi[r].via \in {"webui", "flusso"} => ProRighe(r)' /\ ProConti(r)'
  <2>1. negate \subseteq negate' /\ (<<r, 1>> \in negate' => <<r, 1>> \in negate \/ p.n = 1)
    BY <1>2, <1>4
  <2> QED BY <1>2, <1>4, <1>5, <2>1, ProFerme
<1>7. CASE passi[r].via = "webui"
  <2>1. risposta' = [risposta EXCEPT ![r] = IF risposta[r] = "attesa" THEN "ok" ELSE risposta[r]]
    BY <1>7 DEF Pro!NonRegistra, Pro!Dice
  <2>2. ProTipi'
    <3>1. risposta' \in [Domanda -> {"attesa", "ok", "vuota", "errore", "andato"}]
      BY <1>1, <2>1 DEF ProTipi
    <3> QED BY <1>1, <1>2, <1>4, <1>5, <1>7, <3>1 DEF ProTipi
  <2>3. completati[r] > 0
    BY <1>1, <1>2, <1>7 DEF ProConti
  <2>4. passi'[r] = p
    BY <1>1, <1>5, <1>7 DEF ProTipi
  <2>5. ProRisposta(r)'
    BY <1>2, <1>4, <2>3, <2>4 DEF ProRisposta
  <2>6. \A q \in Domanda : q # r => risposta'[q] = risposta[q]
    BY <1>1, <2>1 DEF ProTipi
  <2>7. \A q \in Domanda : q # r => \A k \in {1, 2} : <<q, k>> \in negate' <=> <<q, k>> \in negate
    BY <1>2
  <2>8. ProUna(r)'
    BY <1>6, <1>7, <2>5 DEF ProUna
  <2>9. \A q \in Domanda : q # r =>
           /\ risposta'[q] = risposta[q] /\ completati'[q] = completati[q]
           /\ \A k \in {1, 2} : /\ telemetria'[<<q, k>>] = telemetria[<<q, k>>]
                                /\ inviati'[<<q, k>>] = inviati[<<q, k>>]
                                /\ <<q, k>> \in negate' <=> <<q, k>> \in negate
    BY <1>2, <2>6, <2>7
  <2> QED BY <1>3, <1>4, <1>5, <1>7, <2>2, <2>8, <2>9, ProAltre
<1>8. CASE passi[r].via = "flusso"
  <2>1. risposta' = [risposta EXCEPT ![r] = IF risposta[r] = "attesa" THEN "errore" ELSE risposta[r]]
    BY <1>8 DEF Pro!NonRegistra, Pro!Dice
  <2> QED BY <1>2, <1>3, <1>4, <1>5, <1>6, <1>8, <2>1, ProMossa
<1>9. CASE passi[r].via \notin {"webui", "flusso"}
  <2>1. Pro!Fallisce(r)
    BY <1>9 DEF Pro!NonRegistra
  <2> QED BY <1>2, <2>1, ProFallisce
<1> QED BY <1>7, <1>8, <1>9

\* ... and what is sent of it.
LEMMA ProPassoSpinge ==
  ASSUME ProInv, NEW r \in Domanda, Pro!Spinge(r) PROVE ProInv'
<1>1. /\ ProTipi /\ ProPannello /\ ProRighe(r) /\ ProConti(r) /\ ProRisposta(r) /\ passi[r] \in ProPasso
      /\ completati[r] \in Nat /\ passi[r].n \in {1, 2}
      /\ Pro!Qui(r) = <<r, passi[r].n>> /\ Pro!Qui(r) \in Pro!Chiamata
      /\ <<r, 1>> \in Pro!Chiamata /\ <<r, 2>> \in Pro!Chiamata
  BY ProQui
<1> DEFINE p == [passi[r] EXCEPT !.pc = "fine"]
           i == <<r, passi[r].n>>
           e == Pro!Esito(passi[r])
<1>2. /\ passi[r].pc = "spinge" /\ passi' = [passi EXCEPT ![r] = p]
      /\ inviati' = [inviati EXCEPT ![i] = inviati[i] + 1] \/ UNCHANGED inviati
      /\ tick' = tick \union {[di |-> i, fine |-> TRUE, k |-> 0]}
      /\ ultimo' = [ultimo EXCEPT ![i] = "via"]
      /\ risposta' = [risposta EXCEPT ![r] = IF risposta[r] = "attesa" THEN e ELSE risposta[r]]
      /\ UNCHANGED <<completati, telemetria, negate, vivi>>
  BY <1>1 DEF Pro!Spinge, Pro!Va, Pro!Dice
<1>3. p \in ProPasso /\ p.n = passi[r].n /\ p.pc = "fine" /\ p.buona = passi[r].buona
  BY <1>1 DEF ProPasso, ProPc
<1>4. e \in {"ok", "vuota", "errore"} /\ (e = "ok" => passi[r].buona)
  BY DEF Pro!Esito
<1>5. telemetria[i] = 1 /\ inviati[i] = 0
  BY <1>1, <1>2 DEF ProRighe
<1>6. inviati' = [inviati EXCEPT ![i] = 1] \/ inviati' = inviati
  BY <1>2, <1>5
<1> HIDE DEF p, e
<1>7. /\ inviati' \in [Pro!Chiamata -> 0..1] /\ inviati'[i] <= 1
      /\ \A j \in Pro!Chiamata : j # i => inviati'[j] = inviati[j]
  <2>1. inviati \in [Pro!Chiamata -> 0..1] /\ i \in Pro!Chiamata
    BY <1>1 DEF ProTipi
  <2>2. CASE inviati' = [inviati EXCEPT ![i] = 1]
    BY <2>1, <2>2
  <2>3. CASE inviati' = inviati
    BY <1>5, <2>1, <2>3
  <2> QED BY <1>6, <2>2, <2>3
<1>8. ProTipi'
  <2>1. risposta' \in [Domanda -> {"attesa", "ok", "vuota", "errore", "andato"}]
    BY <1>1, <1>2, <1>4 DEF ProTipi
  <2> QED BY <1>1, <1>2, <1>3, <1>7, <2>1 DEF ProTipi
<1>9. ProPannello'
  BY <1>1, <1>2 DEF ProPannello, Pro!Assente
<1>10. passi'[r] = p
  BY <1>1, <1>2 DEF ProTipi
<1>11. ProRighe(r)'
  <2>1. passi[r].n = 1 => telemetria[<<r, 2>>] = 0 /\ inviati'[<<r, 2>>] = 0
    <3>1. passi[r].n = 1 => <<r, 2>> # i
      OBVIOUS
    <3> QED BY <1>1, <1>7, <3>1 DEF ProRighe
  <2>2. \A k \in {1, 2} : inviati'[<<r, k>>] <= telemetria[<<r, k>>]
    <3> SUFFICES ASSUME NEW k \in {1, 2} PROVE inviati'[<<r, k>>] <= telemetria[<<r, k>>]
      OBVIOUS
    <3>1. CASE k = passi[r].n
      BY <1>5, <1>7, <3>1
    <3>2. CASE k # passi[r].n
      <4>1. <<r, k>> # i /\ <<r, k>> \in Pro!Chiamata
        BY <1>1, <3>2
      <4> QED BY <1>1, <1>7, <4>1 DEF ProRighe
    <3> QED BY <3>1, <3>2
  <2> QED BY <1>2, <1>3, <1>10, <2>1, <2>2 DEF ProRighe
<1>12. ProConti(r)'
  BY <1>1, <1>2, <1>3, <1>10 DEF ProConti
<1>13. ProRisposta(r)'
  <2> SUFFICES ASSUME risposta'[r] = "ok"
               PROVE  /\ passi'[r].pc = "fine" /\ completati'[r] > 0
                      /\ telemetria'[<<r, passi'[r].n>>] = 1 \/ <<r, passi'[r].n>> \in negate'
    BY DEF ProRisposta
  <2>1. risposta[r] = "ok" \/ e = "ok"
    BY <1>1, <1>2 DEF ProTipi
  <2>2. e = "ok"
    BY <1>1, <1>2, <2>1 DEF ProRisposta
  <2>3. completati[r] > 0
    BY <1>1, <1>4, <2>2 DEF ProConti
  <2> QED BY <1>2, <1>3, <1>5, <1>10, <2>3
<1>14. \A q \in Domanda : q # r => \A k \in {1, 2} : inviati'[<<q, k>>] = inviati[<<q, k>>]
  <2> SUFFICES ASSUME NEW q \in Domanda, q # r, NEW k \in {1, 2}
               PROVE  inviati'[<<q, k>>] = inviati[<<q, k>>]
    OBVIOUS
  <2>1. <<q, k>> \in Pro!Chiamata /\ <<q, k>> # i
    BY DEF Pro!Chiamata
  <2> QED BY <1>7, <2>1
<1>15. \A q \in Domanda : q # r => risposta'[q] = risposta[q]
  BY <1>1, <1>2 DEF ProTipi
<1> QED BY <1>2, <1>3, <1>8, <1>9, <1>11, <1>12, <1>13, <1>14, <1>15, ProAltre DEF ProUna

\* The invariant of the proxy is kept by its steps and by those of something else, and
\* implies what the run checks.
LEMMA ProPassoVero == ASSUME ProInv, Pro!Next PROVE ProInv'
<1>1. CASE \/ \E r \in Domanda : Pro!Pezzo(r)
           \/ \E t \in tick : Pro!Arriva(t) \/ Pro!Perde(t)
           \/ Pro!Passa \/ Pro!Guarda
  BY <1>1, ProPassoPannello
<1>2. CASE \E r \in Domanda :
             \/ \E via \in Vie : Pro!Chiama(r, via)
             \/ Pro!Rifiuta(r) \/ Pro!Cade(r) \/ Pro!Lascia(r) \/ Pro!Interrompe(r) \/ Pro!NodoScade(r)
  BY <1>2, ProPassoMosso
<1>3. CASE \E r \in Domanda : Pro!Genera(r) \/ Pro!Registra(r) \/ Pro!NonRegistra(r) \/ Pro!Spinge(r)
  BY <1>3, ProPassoGenera, ProPassoRegistra, ProPassoNonRegistra, ProPassoSpinge
<1> QED BY <1>1, <1>2, <1>3 DEF Pro!Next

LEMMA ProResta == ASSUME ProInv, UNCHANGED pro_vars PROVE ProInv'
<1>1. UNCHANGED <<passi, risposta, completati, telemetria, negate, inviati, tick, ultimo, vivi>>
  BY DEF pro_vars
<1> QED BY <1>1, ProPannelloResta, ProPannelloSolo DEF ProInv

LEMMA ProVero ==
  ASSUME ProInv
  PROVE  Pro!TypeOK /\ Pro!RispostaInTelemetria /\ Pro!DoppioSpiegato /\ Pro!VivoSpiegato
<1>1. ProTipi /\ ProPannello
  BY DEF ProInv
<1>2. ASSUME NEW r \in Domanda
      PROVE  /\ passi[r].pc \in ProPc /\ passi[r].n \in {1, 2} /\ completati[r] \in Nat
             /\ Pro!Qui(r) = <<r, passi[r].n>> /\ Pro!Qui(r) \in Pro!Chiamata
             /\ ProRighe(r) /\ ProConti(r) /\ ProRisposta(r)
  BY ProQui
<1>3. Pro!TypeOK
  BY <1>1, <1>2 DEF Pro!TypeOK, ProTipi, ProPannello, ProPc
<1>4. Pro!RispostaInTelemetria
  <2>1. ASSUME NEW i \in Pro!Chiamata PROVE inviati[i] <= telemetria[i] /\ telemetria[i] <= 1
    <3>1. PICK r \in Domanda, k \in {1, 2} : i = <<r, k>>
      BY DEF Pro!Chiamata
    <3>2. inviati[i] <= telemetria[i]
      BY <1>2, <3>1 DEF ProRighe
    <3> QED BY <1>1, <3>2 DEF ProTipi
  <2> QED BY <1>2, <2>1 DEF Pro!RispostaInTelemetria, ProRisposta
<1>5. Pro!DoppioSpiegato
  BY <1>2 DEF Pro!DoppioSpiegato, ProConti
<1>6. Pro!VivoSpiegato
  BY <1>1, <1>2 DEF Pro!VivoSpiegato, ProPannello
<1> QED BY <1>3, <1>4, <1>5, <1>6

-----------------------------------------------------------------------------
(* Two rounds of the tool loop, of two calls and of one.                                    *)

ProNomi == {"x", "y"}
ProChiamata == [id : Nat, nome : ProNomi]
ProChiama == Seq(ProChiamata)
ProMessaggio == [ruolo : {"assistant", "tool"}, chiama : ProChiama, di : Nat]

\* The calls of a round, numbered from one.
LEMMA ProChiamate ==
  ASSUME NEW a \in Seq(ProNomi)
  PROVE  /\ Pro!Chiamate(a) \in Seq(ProChiamata) /\ Len(Pro!Chiamate(a)) = Len(a)
         /\ DOMAIN Pro!Chiamate(a) = 1..Len(a)
         /\ \A i \in 1..Len(a) : Pro!Chiamate(a)[i] = [id |-> i, nome |-> a[i]]
<1>1. Len(a) \in Nat /\ DOMAIN a = 1..Len(a) /\ \A i \in 1..Len(a) : a[i] \in ProNomi
  OBVIOUS
<1>2. Pro!Chiamate(a) = [i \in 1..Len(a) |-> [id |-> i, nome |-> a[i]]]
  BY <1>1 DEF Pro!Chiamate
<1>3. \A i \in 1..Len(a) : [id |-> i, nome |-> a[i]] \in ProChiamata
  BY <1>1 DEF ProChiamata
<1>4. Pro!Chiamate(a) \in [1..Len(a) -> ProChiamata]
  BY <1>2, <1>3
<1>5. Pro!Chiamate(a) \in Seq(ProChiamata) /\ Len(Pro!Chiamate(a)) = Len(a)
  BY <1>1, <1>4
<1> QED BY <1>2, <1>5

\* A round: the calls, then an answer for each element of the order.
LEMMA ProGiro ==
  ASSUME NEW a \in Seq(ProNomi), NEW o \in Seq({1, 2})
  PROVE  /\ Pro!Giro(a, o) \in Seq(ProMessaggio) /\ Len(Pro!Giro(a, o)) = Len(o) + 1
         /\ Pro!Giro(a, o)[1] = [ruolo |-> "assistant", chiama |-> Pro!Chiamate(a), di |-> 0]
         /\ \A i \in 1..Len(o) :
              Pro!Giro(a, o)[i + 1] = [ruolo |-> "tool", chiama |-> <<>>, di |-> o[i]]
<1> DEFINE m == [ruolo |-> "assistant", chiama |-> Pro!Chiamate(a), di |-> 0]
           t == [i \in DOMAIN o |-> [ruolo |-> "tool", chiama |-> <<>>, di |-> o[i]]]
<1>1. m \in ProMessaggio
  <2>1. Pro!Chiamate(a) \in ProChiama
    BY ProChiamate DEF ProChiama
  <2> QED BY <2>1 DEF ProMessaggio
<1>2. Len(o) \in Nat /\ DOMAIN o = 1..Len(o) /\ \A i \in 1..Len(o) : o[i] \in {1, 2}
  OBVIOUS
<1>3. \A i \in 1..Len(o) : [ruolo |-> "tool", chiama |-> <<>>, di |-> o[i]] \in ProMessaggio
  <2>1. <<>> \in ProChiama
    BY DEF ProChiama
  <2>2. \A i \in 1..Len(o) : o[i] \in Nat
    BY <1>2
  <2> QED BY <2>1, <2>2 DEF ProMessaggio
<1>4. t \in [1..Len(o) -> ProMessaggio]
  BY <1>2, <1>3
<1>5. \A i \in 1..Len(o) : t[i] = [ruolo |-> "tool", chiama |-> <<>>, di |-> o[i]]
  BY <1>2
<1>6. Pro!Giro(a, o) = <<m>> \o t
  BY DEF Pro!Giro
<1> HIDE DEF m, t
<1>7. t \in Seq(ProMessaggio) /\ Len(t) = Len(o)
  BY <1>2, <1>4
<1>8. <<m>> \in Seq(ProMessaggio) /\ Len(<<m>>) = 1 /\ <<m>>[1] = m
  BY <1>1
<1>9. /\ <<m>> \o t \in Seq(ProMessaggio) /\ Len(<<m>> \o t) = Len(o) + 1
      /\ (<<m>> \o t)[1] = m /\ \A i \in 1..Len(o) : (<<m>> \o t)[i + 1] = t[i]
  BY <1>2, <1>7, <1>8
<1> QED BY <1>5, <1>6, <1>9 DEF m

\* Two sequences, one after the other.
LEMMA ProUnite ==
  ASSUME NEW R, NEW g \in Seq(R), NEW h \in Seq(R)
  PROVE  /\ g \o h \in Seq(R) /\ Len(g \o h) = Len(g) + Len(h)
         /\ \A i \in 1..Len(g) : (g \o h)[i] = g[i]
         /\ \A i \in 1..Len(h) : (g \o h)[Len(g) + i] = h[i]
<1>1. g \o h \in Seq(R) /\ Len(g \o h) = Len(g) + Len(h)
  OBVIOUS
<1>2. \A i \in 1..Len(g) : (g \o h)[i] = g[i]
  OBVIOUS
<1>3. \A i \in 1..Len(h) : (g \o h)[Len(g) + i] = h[i]
  OBVIOUS
<1> QED BY <1>1, <1>2, <1>3

\* What a conversation of two rounds is made of.
ProDue(c, a, b, o) ==
  /\ c \in Seq(ProMessaggio) /\ Len(c) = 5
  /\ c[1] = [ruolo |-> "assistant", chiama |-> Pro!Chiamate(a), di |-> 0]
  /\ c[2] = [ruolo |-> "tool", chiama |-> <<>>, di |-> o[1]]
  /\ c[3] = [ruolo |-> "tool", chiama |-> <<>>, di |-> o[2]]
  /\ c[4] = [ruolo |-> "assistant", chiama |-> Pro!Chiamate(b), di |-> 0]
  /\ c[5] = [ruolo |-> "tool", chiama |-> <<>>, di |-> 1]

\* Two rounds, of two calls and of one, message by message.
LEMMA ProConversazione ==
  ASSUME NEW a \in Seq(ProNomi), NEW b \in Seq(ProNomi), NEW o \in Seq({1, 2}), Len(o) = 2
  PROVE  ProDue(Pro!Giro(a, o) \o Pro!Giro(b, <<1>>), a, b, o)
<1> DEFINE g == Pro!Giro(a, o)
           h == Pro!Giro(b, <<1>>)
<1>1. /\ g \in Seq(ProMessaggio) /\ Len(g) = 3
      /\ g[1] = [ruolo |-> "assistant", chiama |-> Pro!Chiamate(a), di |-> 0]
      /\ g[2] = [ruolo |-> "tool", chiama |-> <<>>, di |-> o[1]]
      /\ g[3] = [ruolo |-> "tool", chiama |-> <<>>, di |-> o[2]]
  <2>1. 1 \in 1..Len(o) /\ 2 \in 1..Len(o) /\ 1 + 1 = 2 /\ 2 + 1 = 3 /\ Len(o) + 1 = 3
    OBVIOUS
  <2>2. \A i \in 1..Len(o) : g[i + 1] = [ruolo |-> "tool", chiama |-> <<>>, di |-> o[i]]
    BY ProGiro
  <2>3. g[1 + 1] = [ruolo |-> "tool", chiama |-> <<>>, di |-> o[1]]
    BY <2>1, <2>2
  <2>4. g[2 + 1] = [ruolo |-> "tool", chiama |-> <<>>, di |-> o[2]]
    BY <2>1, <2>2
  <2>5. /\ g \in Seq(ProMessaggio) /\ Len(g) = Len(o) + 1
        /\ g[1] = [ruolo |-> "assistant", chiama |-> Pro!Chiamate(a), di |-> 0]
    BY ProGiro
  <2> HIDE DEF g
  <2> QED BY <2>1, <2>3, <2>4, <2>5
<1>2. /\ h \in Seq(ProMessaggio) /\ Len(h) = 2
      /\ h[1] = [ruolo |-> "assistant", chiama |-> Pro!Chiamate(b), di |-> 0]
      /\ h[2] = [ruolo |-> "tool", chiama |-> <<>>, di |-> 1]
  <2> DEFINE u == <<1>>
  <2>1. u \in Seq({1, 2}) /\ Len(u) = 1 /\ u[1] = 1 /\ 1 \in 1..Len(u) /\ 1 + 1 = 2 /\ Len(u) + 1 = 2
    OBVIOUS
  <2> HIDE DEF u
  <2>2. /\ Pro!Giro(b, u) \in Seq(ProMessaggio) /\ Len(Pro!Giro(b, u)) = Len(u) + 1
        /\ Pro!Giro(b, u)[1] = [ruolo |-> "assistant", chiama |-> Pro!Chiamate(b), di |-> 0]
    BY <2>1, ProGiro
  <2>3. Pro!Giro(b, u)[1 + 1] = [ruolo |-> "tool", chiama |-> <<>>, di |-> u[1]]
    BY <2>1, ProGiro
  <2>4. /\ Pro!Giro(b, u) \in Seq(ProMessaggio) /\ Len(Pro!Giro(b, u)) = 2
        /\ Pro!Giro(b, u)[1] = [ruolo |-> "assistant", chiama |-> Pro!Chiamate(b), di |-> 0]
        /\ Pro!Giro(b, u)[2] = [ruolo |-> "tool", chiama |-> <<>>, di |-> 1]
    BY <2>1, <2>2, <2>3
  <2> QED BY <2>4 DEF u
<1> HIDE DEF g, h
<1>3. /\ g \o h \in Seq(ProMessaggio) /\ Len(g \o h) = Len(g) + Len(h)
      /\ \A i \in 1..Len(g) : (g \o h)[i] = g[i]
      /\ \A i \in 1..Len(h) : (g \o h)[Len(g) + i] = h[i]
  <2>1. g \in Seq(ProMessaggio) /\ h \in Seq(ProMessaggio)
    BY <1>1, <1>2
  <2> QED BY <2>1, ProUnite
<1>4. /\ (g \o h)[1] = g[1] /\ (g \o h)[2] = g[2] /\ (g \o h)[3] = g[3]
      /\ (g \o h)[4] = h[1] /\ (g \o h)[5] = h[2]
  <2>1. /\ 1 \in 1..Len(g) /\ 2 \in 1..Len(g) /\ 3 \in 1..Len(g) /\ 1 \in 1..Len(h) /\ 2 \in 1..Len(h)
        /\ Len(g) + 1 = 4 /\ Len(g) + 2 = 5
    BY <1>1, <1>2
  <2> DEFINE u == g \o h
  <2>2. /\ \A i \in 1..Len(g) : u[i] = g[i]
        /\ \A i \in 1..Len(h) : u[Len(g) + i] = h[i]
    BY <1>3
  <2> HIDE DEF u
  <2>3. u[1] = g[1] /\ u[2] = g[2] /\ u[3] = g[3]
    BY <2>1, <2>2
  <2>4. u[Len(g) + 1] = h[1] /\ u[Len(g) + 2] = h[2]
    BY <2>1, <2>2
  <2> QED BY <2>1, <2>3, <2>4 DEF u
<1>5. ProDue(g \o h, a, b, o)
  BY <1>1, <1>2, <1>3, <1>4 DEF ProDue
<1> QED BY <1>5 DEF g, h

\* The calls met: those of the first round up to its answers, then all of them.
LEMMA ProIncontrate ==
  ASSUME NEW a \in Seq(ProNomi), NEW b \in Seq(ProNomi), NEW o, NEW c, ProDue(c, a, b, o)
  PROVE  /\ Pro!Incontrate(c)[2] = Pro!Chiamate(a) /\ Pro!Incontrate(c)[3] = Pro!Chiamate(a)
         /\ Pro!Incontrate(c)[5] = Pro!Chiamate(a) \o Pro!Chiamate(b)
<1> DEFINE x == Pro!Chiamate(a)
           y == Pro!Chiamate(b)
           P(f) == f = [j \in 0..Len(c) |-> IF j = 0 THEN <<>> ELSE f[j - 1] \o c[j].chiama]
           T == [j \in 0..Len(c) |-> IF j = 0 THEN <<>> ELSE IF j <= 3 THEN x ELSE x \o y]
           S == CHOOSE f : P(f)
<1>1. /\ Len(c) = 5 /\ c[1].chiama = x /\ c[2].chiama = <<>> /\ c[3].chiama = <<>>
      /\ c[4].chiama = y /\ c[5].chiama = <<>>
  BY DEF ProDue
<1>2. x \in Seq(ProChiamata) /\ y \in Seq(ProChiamata)
  BY ProChiamate
<1> HIDE DEF x, y
<1>3. <<>> \o x = x /\ x \o <<>> = x /\ (x \o y) \o <<>> = x \o y
  <2>1. \A z \in Seq(ProChiamata) : <<>> \o z = z /\ z \o <<>> = z
    OBVIOUS
  <2>2. x \o y \in Seq(ProChiamata)
    BY <1>2
  <2> QED BY <1>2, <2>1, <2>2
<1>4. P(T)
  <2>1. /\ T[0] = <<>> /\ T[1] = x /\ T[2] = x /\ T[3] = x /\ T[4] = x \o y /\ T[5] = x \o y
        /\ T = [j \in 0..Len(c) |-> T[j]]
    BY <1>1
  <2> HIDE DEF T
  <2>2. ASSUME NEW j \in 0..Len(c) PROVE T[j] = IF j = 0 THEN <<>> ELSE T[j - 1] \o c[j].chiama
    <3>1. j = 0 \/ j = 1 \/ j = 2 \/ j = 3 \/ j = 4 \/ j = 5
      BY <1>1
    <3>2. 1 - 1 = 0 /\ 2 - 1 = 1 /\ 3 - 1 = 2 /\ 4 - 1 = 3 /\ 5 - 1 = 4
      OBVIOUS
    <3> QED BY <1>1, <1>3, <2>1, <3>1, <3>2
  <2> QED BY <2>1, <2>2
<1>5. P(S)
  <2>1. \E f : P(f)
    BY <1>4
  <2> HIDE DEF P
  <2> QED BY <2>1
<1>6. Pro!Incontrate(c) = S
  BY DEF Pro!Incontrate
<1>7. ASSUME NEW j \in 0..Len(c) PROVE S[j] = IF j = 0 THEN <<>> ELSE S[j - 1] \o c[j].chiama
  <2>1. S = [k \in 0..Len(c) |-> IF k = 0 THEN <<>> ELSE S[k - 1] \o c[k].chiama]
    BY <1>5
  <2> HIDE DEF S
  <2> QED BY <2>1
<1> HIDE DEF S
<1>8. S[0] = <<>>
  BY <1>1, <1>7
<1>9. S[1] = S[0] \o c[1].chiama /\ S[2] = S[1] \o c[2].chiama /\ S[3] = S[2] \o c[3].chiama
      /\ S[4] = S[3] \o c[4].chiama /\ S[5] = S[4] \o c[5].chiama
  <2>1. /\ 1 \in 0..Len(c) /\ 2 \in 0..Len(c) /\ 3 \in 0..Len(c) /\ 4 \in 0..Len(c) /\ 5 \in 0..Len(c)
        /\ 1 - 1 = 0 /\ 2 - 1 = 1 /\ 3 - 1 = 2 /\ 4 - 1 = 3 /\ 5 - 1 = 4
    BY <1>1
  <2>2. S[1] = S[0] \o c[1].chiama
    <3>1. S[1] = IF 1 = 0 THEN <<>> ELSE S[1 - 1] \o c[1].chiama
      BY <1>7, <2>1
    <3> QED BY <2>1, <3>1
  <2>3. S[2] = S[1] \o c[2].chiama
    <3>1. S[2] = IF 2 = 0 THEN <<>> ELSE S[2 - 1] \o c[2].chiama
      BY <1>7, <2>1
    <3> QED BY <2>1, <3>1
  <2>4. S[3] = S[2] \o c[3].chiama
    <3>1. S[3] = IF 3 = 0 THEN <<>> ELSE S[3 - 1] \o c[3].chiama
      BY <1>7, <2>1
    <3> QED BY <2>1, <3>1
  <2>5. S[4] = S[3] \o c[4].chiama
    <3>1. S[4] = IF 4 = 0 THEN <<>> ELSE S[4 - 1] \o c[4].chiama
      BY <1>7, <2>1
    <3> QED BY <2>1, <3>1
  <2>6. S[5] = S[4] \o c[5].chiama
    <3>1. S[5] = IF 5 = 0 THEN <<>> ELSE S[5 - 1] \o c[5].chiama
      BY <1>7, <2>1
    <3> QED BY <2>1, <3>1
  <2> QED BY <2>2, <2>3, <2>4, <2>5, <2>6
<1>10. S[1] = x /\ S[2] = x /\ S[3] = x
  BY <1>1, <1>3, <1>8, <1>9
<1>11. S[4] = x \o y
  BY <1>1, <1>9, <1>10
<1>12. S[5] = x \o y
  BY <1>1, <1>3, <1>9, <1>11
<1> QED BY <1>6, <1>10, <1>12 DEF x, y

\* An identifier that the map has once names the only call with it, and the last of two
\* otherwise.
LEMMA ProNome ==
  ASSUME NEW v \in Seq(ProChiamata), NEW k \in 1..Len(v),
         \A j \in 1..Len(v) : v[j].id = v[k].id => j <= k
  PROVE  Pro!Nome(v, v[k].id) = k /\ \E j \in DOMAIN v : v[j].id = v[k].id
<1> DEFINE n == Pro!Nome(v, v[k].id)
           id == v[k].id
<1>1. DOMAIN v = 1..Len(v) /\ Len(v) \in Nat /\ k \in DOMAIN v
  OBVIOUS
<1>2. \A j \in DOMAIN v : v[j].id = id => j <= k
  BY <1>1
<1>3. n = CHOOSE i \in DOMAIN v : v[i].id = id /\ \A j \in DOMAIN v : v[j].id = id => j <= i
  BY DEF Pro!Nome
<1> HIDE DEF n
<1>4. n \in DOMAIN v /\ v[n].id = id /\ \A j \in DOMAIN v : v[j].id = id => j <= n
  BY <1>1, <1>2, <1>3
<1>5. n <= k /\ k <= n /\ n \in Nat /\ k \in Nat
  BY <1>1, <1>2, <1>4
<1>6. n = k
  BY <1>5
<1> QED BY <1>1, <1>6 DEF n

\* The round of an answer.
ProGiroDi(c, i) ==
  CHOOSE j \in DOMAIN c : /\ j < i /\ c[j].ruolo = "assistant"
                          /\ \A k \in j + 1..i : c[k].ruolo = "tool"

\* The round of each of the three answers.
LEMMA ProDelGiro ==
  ASSUME NEW a, NEW b, NEW o, NEW c, ProDue(c, a, b, o)
  PROVE  ProGiroDi(c, 2) = 1 /\ ProGiroDi(c, 3) = 1 /\ ProGiroDi(c, 5) = 4
<1>1. /\ DOMAIN c = 1..5 /\ c[1].ruolo = "assistant" /\ c[4].ruolo = "assistant"
      /\ c[2].ruolo = "tool" /\ c[3].ruolo = "tool" /\ c[5].ruolo = "tool"
  BY DEF ProDue
<1> DEFINE D(i, j) == /\ j < i /\ c[j].ruolo = "assistant"
                      /\ \A k \in j + 1..i : c[k].ruolo = "tool"
<1>2. ASSUME NEW j \in 1..5 PROVE D(2, j) <=> j = 1
  <2>1. j = 1 \/ j = 2 \/ j = 3 \/ j = 4 \/ j = 5
    OBVIOUS
  <2>2. \A k \in 1 + 1..2 : k = 2
    OBVIOUS
  <2> QED BY <1>1, <2>1, <2>2
<1>3. ASSUME NEW j \in 1..5 PROVE D(3, j) <=> j = 1
  <2>1. j = 1 \/ j = 2 \/ j = 3 \/ j = 4 \/ j = 5
    OBVIOUS
  <2>2. \A k \in 1 + 1..3 : k = 2 \/ k = 3
    OBVIOUS
  <2> QED BY <1>1, <2>1, <2>2
<1>4. ASSUME NEW j \in 1..5 PROVE D(5, j) <=> j = 4
  <2>1. j = 1 \/ j = 2 \/ j = 3 \/ j = 4 \/ j = 5
    OBVIOUS
  <2>2. \A k \in 4 + 1..5 : k = 5
    OBVIOUS
  <2>3. 4 \in 1 + 1..5
    OBVIOUS
  <2>4. c[4].ruolo # "tool"
    BY <1>1
  <2> QED BY <1>1, <2>1, <2>2, <2>3, <2>4
<1>5. /\ ProGiroDi(c, 2) = CHOOSE j \in 1..5 : D(2, j)
      /\ ProGiroDi(c, 3) = CHOOSE j \in 1..5 : D(3, j)
      /\ ProGiroDi(c, 5) = CHOOSE j \in 1..5 : D(5, j)
  BY <1>1 DEF ProGiroDi
<1> HIDE DEF D
<1>6. ProGiroDi(c, 2) \in 1..5 /\ D(2, ProGiroDi(c, 2))
  BY <1>2, <1>5
<1>7. ProGiroDi(c, 3) \in 1..5 /\ D(3, ProGiroDi(c, 3))
  BY <1>3, <1>5
<1>8. ProGiroDi(c, 5) \in 1..5 /\ D(5, ProGiroDi(c, 5))
  BY <1>4, <1>5
<1> QED BY <1>2, <1>3, <1>4, <1>6, <1>7, <1>8

\* An element of a sequence.
LEMMA ProElemento ==
  ASSUME NEW S, NEW s \in Seq(S), NEW k \in 1..Len(s)
  PROVE  s[k] \in S
OBVIOUS

\* An answer has the name of the call it answers, although the second round numbers its call
\* like the first.
LEMMA ProNomeGiusto ==
  ASSUME NEW a \in Seq(ProNomi), Len(a) = 2, NEW b \in Seq(ProNomi), Len(b) = 1,
         NEW o \in Seq({1, 2}), Len(o) = 2, NEW c, ProDue(c, a, b, o),
         NEW i \in DOMAIN c, c[i].ruolo = "tool"
  PROVE  Pro!Nativi(c)[i] = c[ProGiroDi(c, i)].chiama[c[i].di].nome
<1> DEFINE x == Pro!Chiamate(a)
           y == Pro!Chiamate(b)
           z == x \o y
<1>1. /\ x \in Seq(ProChiamata) /\ Len(x) = 2 /\ x[1].id = 1 /\ x[2].id = 2
      /\ y \in Seq(ProChiamata) /\ Len(y) = 1 /\ y[1].id = 1
  <2>1. 1 \in 1..Len(a) /\ 2 \in 1..Len(a) /\ 1 \in 1..Len(b)
    OBVIOUS
  <2>2. x[1] = [id |-> 1, nome |-> a[1]] /\ x[2] = [id |-> 2, nome |-> a[2]]
    BY <2>1, ProChiamate
  <2>3. y[1] = [id |-> 1, nome |-> b[1]]
    BY <2>1, ProChiamate
  <2>4. x \in Seq(ProChiamata) /\ Len(x) = 2 /\ y \in Seq(ProChiamata) /\ Len(y) = 1
    BY ProChiamate
  <2> HIDE DEF x, y
  <2> QED BY <2>2, <2>3, <2>4
<1>2. /\ Pro!Incontrate(c)[2] = x /\ Pro!Incontrate(c)[3] = x /\ Pro!Incontrate(c)[5] = z
  BY ProIncontrate
<1>3. /\ DOMAIN c = 1..5 /\ c[1].ruolo = "assistant" /\ c[4].ruolo = "assistant"
      /\ c[1].chiama = x /\ c[4].chiama = y
      /\ c[2].di = o[1] /\ c[3].di = o[2] /\ c[5].di = 1
  BY DEF ProDue
<1>4. ProGiroDi(c, 2) = 1 /\ ProGiroDi(c, 3) = 1 /\ ProGiroDi(c, 5) = 4
  BY ProDelGiro
<1> HIDE DEF x, y
<1>5. /\ z \in Seq(ProChiamata) /\ Len(z) = 3 /\ z[1] = x[1] /\ z[2] = x[2] /\ z[3] = y[1]
  <2>1. /\ z \in Seq(ProChiamata) /\ Len(z) = Len(x) + Len(y)
        /\ \A k \in 1..Len(x) : z[k] = x[k]
        /\ \A k \in 1..Len(y) : z[Len(x) + k] = y[k]
    <3>1. x \in Seq(ProChiamata) /\ y \in Seq(ProChiamata)
      BY <1>1
    <3>2. /\ x \o y \in Seq(ProChiamata) /\ Len(x \o y) = Len(x) + Len(y)
          /\ \A k \in 1..Len(x) : (x \o y)[k] = x[k]
          /\ \A k \in 1..Len(y) : (x \o y)[Len(x) + k] = y[k]
      BY <3>1, ProUnite
    <3> QED BY <3>2
  <2> HIDE DEF z
  <2>2. 1 \in 1..Len(x) /\ 2 \in 1..Len(x) /\ 1 \in 1..Len(y) /\ Len(x) + 1 = 3 /\ Len(x) + Len(y) = 3
    BY <1>1
  <2> QED BY <2>1, <2>2
<1> HIDE DEF z
<1>6. Pro!Nativi(c)[i] =
        IF \E k \in DOMAIN Pro!Incontrate(c)[i] : Pro!Incontrate(c)[i][k].id = c[i].di
        THEN Pro!Incontrate(c)[i][Pro!Nome(Pro!Incontrate(c)[i], c[i].di)].nome ELSE "nessuno"
  BY DEF Pro!Nativi
<1>7. ASSUME NEW d \in {1, 2} PROVE Pro!Nome(x, d) = d /\ \E k \in DOMAIN x : x[k].id = d
  <2>1. d \in 1..Len(x) /\ x[d].id = d
    BY <1>1
  <2>2. \A j \in 1..Len(x) : x[j].id = x[d].id => j <= d
    <3>1. \A j \in 1..Len(x) : j = 1 \/ j = 2
      BY <1>1
    <3> QED BY <1>1, <2>1, <3>1
  <2>3. Pro!Nome(x, x[d].id) = d /\ \E k \in DOMAIN x : x[k].id = x[d].id
    BY <1>1, <2>1, <2>2, ProNome
  <2> QED BY <2>1, <2>3
<1>8. Pro!Nome(z, 1) = 3 /\ \E k \in DOMAIN z : z[k].id = 1
  <2>1. 3 \in 1..Len(z) /\ z[3].id = 1
    BY <1>1, <1>5
  <2>2. \A j \in 1..Len(z) : z[j].id = z[3].id => j <= 3
    BY <1>5
  <2>3. Pro!Nome(z, z[3].id) = 3 /\ \E k \in DOMAIN z : z[k].id = z[3].id
    BY <1>5, <2>1, <2>2, ProNome
  <2> QED BY <2>1, <2>3
<1>9. ASSUME NEW d \in {1, 2}, Pro!Incontrate(c)[i] = x, c[i].di = d, ProGiroDi(c, i) = 1
      PROVE  Pro!Nativi(c)[i] = c[ProGiroDi(c, i)].chiama[c[i].di].nome
  <2>1. Pro!Nativi(c)[i] = x[d].nome
    BY <1>6, <1>7, <1>9
  <2> QED BY <1>3, <1>9, <2>1
<1>10. o[1] \in {1, 2} /\ o[2] \in {1, 2}
  <2>1. 1 \in 1..Len(o) /\ 2 \in 1..Len(o)
    OBVIOUS
  <2> QED BY <2>1, ProElemento
<1>11. CASE i = 2
  <2>1. Pro!Incontrate(c)[i] = x /\ c[i].di = o[1] /\ ProGiroDi(c, i) = 1
    BY <1>2, <1>3, <1>4, <1>11
  <2> QED BY <1>9, <1>10, <2>1
<1>12. CASE i = 3
  <2>1. Pro!Incontrate(c)[i] = x /\ c[i].di = o[2] /\ ProGiroDi(c, i) = 1
    BY <1>2, <1>3, <1>4, <1>12
  <2> QED BY <1>9, <1>10, <2>1
<1>13. CASE i = 5
  <2>1. Pro!Incontrate(c)[i] = z /\ c[i].di = 1 /\ ProGiroDi(c, i) = 4
    BY <1>2, <1>3, <1>4, <1>13
  <2>2. Pro!Nativi(c)[i] = z[3].nome
    BY <1>6, <1>8, <2>1
  <2> QED BY <1>3, <1>5, <2>1, <2>2
<1>14. i = 2 \/ i = 3 \/ i = 5
  <2>1. i = 1 \/ i = 2 \/ i = 3 \/ i = 4 \/ i = 5
    BY <1>3
  <2> QED BY <1>3, <2>1
<1> QED BY <1>11, <1>12, <1>13, <1>14

\* Pairs and singletons are sequences.
LEMMA ProTuple ==
  ASSUME NEW S, NEW p \in S, NEW q \in S
  PROVE  <<p, q>> \in Seq(S) /\ Len(<<p, q>>) = 2 /\ <<p>> \in Seq(S) /\ Len(<<p>>) = 1
OBVIOUS

\* The names of the tools, for the conversations that the run looks at.
LEMMA ProNomeDelTool == Pro!NomeDelTool
<1> DEFINE A == {<<"x", "y">>, <<"y", "x">>}
           B == {<<"x">>, <<"y">>}
           O == {<<1, 2>>, <<2, 1>>}
<1>0. "x" \in ProNomi /\ "y" \in ProNomi
  BY DEF ProNomi
<1>1. \A a \in A : a \in Seq(ProNomi) /\ Len(a) = 2
  <2>1. <<"x", "y">> \in Seq(ProNomi) /\ Len(<<"x", "y">>) = 2
    BY <1>0, ProTuple
  <2>2. <<"y", "x">> \in Seq(ProNomi) /\ Len(<<"y", "x">>) = 2
    BY <1>0, ProTuple
  <2> QED BY <2>1, <2>2
<1>2. \A b \in B : b \in Seq(ProNomi) /\ Len(b) = 1
  <2>1. <<"x">> \in Seq(ProNomi) /\ Len(<<"x">>) = 1
    BY <1>0, ProTuple
  <2>2. <<"y">> \in Seq(ProNomi) /\ Len(<<"y">>) = 1
    BY <1>0, ProTuple
  <2> QED BY <2>1, <2>2
<1>3. \A o \in O : o \in Seq({1, 2}) /\ Len(o) = 2
  <2>1. <<1, 2>> \in Seq({1, 2}) /\ Len(<<1, 2>>) = 2
    OBVIOUS
  <2>2. <<2, 1>> \in Seq({1, 2}) /\ Len(<<2, 1>>) = 2
    OBVIOUS
  <2> QED BY <2>1, <2>2
<1>4. Pro!Conversazioni = {Pro!Giro(a, o) \o Pro!Giro(b, <<1>>) : a \in A, b \in B, o \in O}
  BY DEF Pro!Conversazioni
<1> HIDE DEF A, B, O
<1>5. ASSUME NEW c \in Pro!Conversazioni, NEW i \in DOMAIN c, c[i].ruolo = "tool"
      PROVE  Pro!Nativi(c)[i] = c[ProGiroDi(c, i)].chiama[c[i].di].nome
  <2>1. PICK a \in A, b \in B, o \in O : c = Pro!Giro(a, o) \o Pro!Giro(b, <<1>>)
    BY <1>4
  <2>2. a \in Seq(ProNomi) /\ Len(a) = 2 /\ b \in Seq(ProNomi) /\ Len(b) = 1
        /\ o \in Seq({1, 2}) /\ Len(o) = 2
    BY <1>1, <1>2, <1>3
  <2>3. ProDue(Pro!Giro(a, o) \o Pro!Giro(b, <<1>>), a, b, o)
    BY <2>2, ProConversazione
  <2>4. ProDue(c, a, b, o)
    BY <2>1, <2>3
  <2> QED BY <1>5, <2>2, <2>4, ProNomeGiusto
<1> QED BY <1>5 DEF Pro!NomeDelTool, ProGiroDi

-----------------------------------------------------------------------------
(* SandboxRuns: the runner of the code sandbox.                                            *)

SanVisti == San!Contenuto \union {"-"}

SanCorse ==
  [pc : {"ferma", "corre", "finita"}, strumento : Strumento \union {"run", "-"}, uscita : Nat,
   codice : {0, 1, 2, 9}, visto : SanVisti, figli : BOOLEAN,
   errore : {"no", "output limit exceeded", "command timed out"}]

SanRisultati == [completed : BOOLEAN, passed : BOOLEAN, visto : SanVisti]

SanTipi ==
  /\ repo \in [San!File -> San!Contenuto] /\ piano \in Seq(Strumento)
  /\ corsa \in SanCorse /\ esiti \in Seq(SanRisultati)

\* The command under way: its output, what its tool saw, and how it ended.
SanCorsa ==
  /\ corsa.uscita <= MaxUscita + 1 /\ (corsa.errore = "no" => corsa.uscita <= MaxUscita)
  /\ corsa.codice # 9 =>
       corsa.visto \in San!Contenuto /\ corsa.codice \in San!Codici(corsa.strumento, corsa.visto)
  /\ corsa.pc # "ferma" => corsa.strumento # "-"
  /\ corsa.pc = "finita" => ~corsa.figli /\ (corsa.errore # "no" \/ corsa.codice # 9)

\* The checks of a plan: those done, the one under way and those to come.
SanPiano ==
  Len(piano) + Len(esiti) + (IF corsa.pc # "ferma" /\ corsa.strumento # "run" THEN 1 ELSE 0)
    <= MaxControlli

SanBuono(e) == e.passed => e.completed /\ e.visto = "buono"

SanEsiti == \A i \in DOMAIN esiti : SanBuono(esiti[i])

SanInv == SanTipi /\ SanCorsa /\ SanPiano /\ SanEsiti /\ San!PassaSoloBuono

\* A set of numbers has a least one.
LEMMA SanMinimo ==
  ASSUME NEW S \in SUBSET Nat, S # {}
  PROVE  \E k \in S : \A j \in S : k <= j
<1> DEFINE R == OpToRel(<, Nat)
<1>1. IsWellFoundedOn(R, Nat)  BY NatLessThanWellFounded
<1>2. \A x, y \in Nat : x < y => <<x, y>> \in R  BY DEF OpToRel
<1> HIDE DEF R
<1>3. PICK k \in S : \A j \in S : ~(<<j, k>> \in R)  BY <1>1, WFMin
<1>4. ASSUME NEW j \in S
      PROVE  k <= j
  <2>1. j \in Nat /\ k \in Nat  OBVIOUS
  <2>2. ~(j < k)  BY <2>1, <1>2, <1>3
  <2> QED BY <2>1, <2>2
<1> QED BY <1>4

\* The cardinality of the instance is the cardinality.
LEMMA SanCardinalita == \A S : San!Cardinality(S) = Cardinality(S)
BY DEF San!Cardinality, Cardinality

\* No command.
LEMMA SanFerma ==
  /\ San!Ferma \in SanCorse /\ San!Ferma.pc = "ferma" /\ San!Ferma.uscita = 0
  /\ San!Ferma.codice = 9 /\ San!Ferma.errore = "no"
BY DEF San!Ferma, SanCorse, SanVisti

\* The invariant of the runner at first.
LEMMA SanInizio == ASSUME San!Init PROVE SanInv
<1> USE IpotesiSandbox DEF San!SandboxRunsAssumption
<1>1. /\ repo = San!Base /\ piano = <<>> /\ corsa = San!Ferma /\ esiti = <<>>
      /\ verdetto = San!Nessuno
  BY DEF San!Init
<1>2. SanTipi
  BY <1>1, SanFerma DEF SanTipi, San!Base, San!Contenuto
<1>3. SanCorsa
  BY <1>1, SanFerma DEF SanCorsa
<1>4. SanPiano
  BY <1>1, SanFerma DEF SanPiano
<1>5. SanEsiti /\ San!PassaSoloBuono
  BY <1>1 DEF SanEsiti, San!PassaSoloBuono, San!Nessuno
<1> QED BY <1>2, <1>3, <1>4, <1>5 DEF SanInv

\* A check passes only on a file with nothing to find, whatever its tool.
LEMMA SanGiudizio ==
  ASSUME SanTipi, SanCorsa, corsa.pc = "finita", corsa.strumento # "run"
  PROVE  San!Giudizio \in SanRisultati /\ SanBuono(San!Giudizio)
<1> USE IpotesiSandbox DEF San!SandboxRunsAssumption
<1>1. /\ corsa.strumento \in {"pytest", "unittest", "bandit", "ruff"} /\ corsa.visto \in SanVisti
      /\ corsa.codice \in {0, 1, 2, 9}
  BY DEF SanTipi, SanCorsa, SanCorse
<1>2. \A p, q \in BOOLEAN : /\ San!Esito(p, q) \in SanRisultati /\ San!Esito(p, q).completed = p
                            /\ San!Esito(p, q).passed = q /\ San!Esito(p, q).visto = corsa.visto
  BY <1>1 DEF San!Esito, SanRisultati
<1>3. San!Giusta => corsa.errore = "no" /\ corsa.codice = 0 /\ corsa.visto \in San!Contenuto
                    /\ 0 \in San!Codici(corsa.strumento, corsa.visto)
  BY DEF San!Giusta, SanCorsa
<1>4. San!Giusta \in BOOLEAN /\ San!Letta(corsa.visto) \in BOOLEAN
  BY DEF San!Giusta, San!Letta
<1>5. CASE corsa.strumento = "unittest"
  <2>1. San!Giudizio = San!Esito(corsa.errore = "no", San!Giusta /\ corsa.visto # "vuoto")
    BY <1>5 DEF San!Giudizio
  <2>2. San!Giusta /\ corsa.visto # "vuoto" => corsa.errore = "no" /\ corsa.visto = "buono"
    BY <1>3, <1>5 DEF San!Codici, San!Contenuto
  <2> QED BY <1>2, <1>4, <2>1, <2>2 DEF SanBuono
<1>6. CASE corsa.strumento \in {"bandit", "ruff"} /\ corsa.errore = "no"
  <2> DEFINE scandita == corsa.codice \in {0, 1}
                         /\ (corsa.strumento = "bandit" => San!Letta(corsa.visto))
  <2>1. San!Giudizio = San!Esito(scandita, scandita /\ corsa.codice = 0)
    BY <1>6 DEF San!Giudizio
  <2>2. scandita /\ corsa.codice = 0 => corsa.visto = "buono"
    BY <1>1, <1>3, <1>6 DEF San!Giusta, San!Codici, San!Contenuto, San!Letta
  <2> QED BY <1>2, <2>1, <2>2 DEF SanBuono
<1>7. CASE corsa.strumento # "unittest" /\ ~(corsa.strumento \in {"bandit", "ruff"} /\ corsa.errore = "no")
  <2>1. San!Giudizio = San!Esito(corsa.errore = "no", San!Giusta)
    BY <1>7 DEF San!Giudizio
  <2>2. San!Giusta => corsa.errore = "no" /\ corsa.visto = "buono"
    BY <1>1, <1>3, <1>7 DEF San!Codici, San!Contenuto
  <2> QED BY <1>2, <1>4, <2>1, <2>2 DEF SanBuono
<1> QED BY <1>5, <1>6, <1>7

\* A step of the command under way that leaves the plan and its results alone.
LEMMA SanCorsaResta ==
  ASSUME SanInv, SanTipi', SanCorsa', corsa'.strumento = corsa.strumento,
         corsa.pc # "ferma", corsa'.pc # "ferma", UNCHANGED <<piano, esiti, verdetto>>
  PROVE  SanInv'
BY DEF SanInv, SanPiano, SanEsiti, San!PassaSoloBuono

\* A step that writes files only.
LEMMA SanScritto ==
  ASSUME SanInv, repo' \in [San!File -> San!Contenuto],
         UNCHANGED <<piano, corsa, esiti, verdetto>>
  PROVE  SanInv'
BY DEF SanInv, SanTipi, SanCorsa, SanPiano, SanEsiti, San!PassaSoloBuono

\* Every step keeps it,
LEMMA SanPasso == ASSUME SanInv, San!Next PROVE SanInv'
<1> USE IpotesiSandbox DEF San!SandboxRunsAssumption
<1>1. SanTipi /\ SanCorsa /\ SanPiano /\ SanEsiti /\ San!PassaSoloBuono
  BY DEF SanInv
<1>2. ASSUME NEW f \in San!File, NEW c \in San!Contenuto
      PROVE  [repo EXCEPT ![f] = c] \in [San!File -> San!Contenuto]
  BY <1>1 DEF SanTipi
<1>3. {"buono", "brutto"} \subseteq San!Contenuto
  BY DEF San!Contenuto
<1>4. CASE San!Scrive \/ San!Lavora \/ San!FuoriScrive
  BY <1>2, <1>3, <1>4, SanScritto DEF San!Scrive, San!Lavora, San!FuoriScrive
<1>5. ASSUME NEW s \in Strumento \union {"run"}, San!Parte(s)
      PROVE  /\ corsa' \in SanCorse /\ corsa'.strumento = s /\ corsa'.pc = "corre" /\ SanCorsa'
  <2>1. /\ corsa' = [pc |-> "corre", strumento |-> s, uscita |-> 0, codice |-> 9, visto |-> "-",
                     figli |-> FALSE, errore |-> "no"]
    BY <1>5 DEF San!Parte, San!Ferma
  <2>2. s # "-"
    OBVIOUS
  <2> QED BY <2>1, <2>2 DEF SanCorse, SanVisti, SanCorsa
<1>6. CASE San!Comanda
  <2>1. SanTipi' /\ SanCorsa' /\ corsa'.strumento = "run" /\ UNCHANGED <<piano, esiti, verdetto>>
    BY <1>1, <1>5, <1>6 DEF San!Comanda, SanTipi
  <2> QED BY <1>1, <2>1 DEF SanInv, SanPiano, SanEsiti, San!PassaSoloBuono
<1>7. CASE San!Genera \/ San!Stampa \/ San!Scade \/ San!Esce \/ San!FiglioEsce \/ San!Finisce
  <2>1. corsa \in SanCorse /\ repo \in [San!File -> San!Contenuto]
    BY <1>1 DEF SanTipi
  <2>2. corsa' \in SanCorse /\ SanCorsa' /\ corsa'.strumento = corsa.strumento /\ corsa'.pc # "ferma"
        /\ corsa.pc # "ferma" /\ UNCHANGED <<repo, piano, esiti, verdetto>>
    <3>1. CASE San!Genera
      <4>1. corsa' = [corsa EXCEPT !.figli = TRUE] \/ corsa' = corsa
        BY <3>1 DEF San!Genera
      <4>2. corsa.pc = "corre" /\ UNCHANGED <<repo, piano, esiti, verdetto>>
        BY <3>1 DEF San!Genera
      <4>3. CASE corsa' = [corsa EXCEPT !.figli = TRUE]
        BY <1>1, <2>1, <4>2, <4>3 DEF SanCorse, SanCorsa
      <4>4. CASE corsa' = corsa
        BY <1>1, <2>1, <4>2, <4>4 DEF SanCorsa
      <4> QED BY <4>1, <4>2, <4>3, <4>4
    <3>2. CASE San!Stampa
      <4>1. /\ corsa.pc = "corre" /\ corsa.errore = "no" /\ UNCHANGED <<repo, piano, esiti, verdetto>>
            /\ corsa' = [corsa EXCEPT !.uscita = corsa.uscita + 1,
                                     !.errore = IF corsa.uscita = MaxUscita
                                                THEN "output limit exceeded" ELSE "no"]
        BY <3>2 DEF San!Stampa
      <4>2. corsa.uscita \in Nat /\ corsa.uscita <= MaxUscita
        BY <1>1, <2>1, <4>1 DEF SanCorse, SanCorsa
      <4>3. ASSUME NEW u \in Nat, NEW e \in {"no", "output limit exceeded"}
            PROVE  [corsa EXCEPT !.uscita = u, !.errore = e] \in SanCorse
        BY <2>1 DEF SanCorse
      <4> DEFINE u == corsa.uscita + 1
                 e == IF corsa.uscita = MaxUscita THEN "output limit exceeded" ELSE "no"
      <4>4. u \in Nat /\ e \in {"no", "output limit exceeded"} /\ (e = "no" => corsa.uscita # MaxUscita)
        BY <4>2
      <4>5. corsa' = [corsa EXCEPT !.uscita = u, !.errore = e]
        BY <4>1
      <4> HIDE DEF e
      <4>6. corsa' \in SanCorse
        BY <4>3, <4>4, <4>5
      <4>7. /\ corsa'.uscita = u /\ corsa'.errore = e /\ corsa'.strumento = corsa.strumento
            /\ corsa'.pc = corsa.pc /\ corsa'.codice = corsa.codice /\ corsa'.visto = corsa.visto
        BY <2>1, <4>5 DEF SanCorse
      <4>8. corsa'.uscita <= MaxUscita + 1 /\ (corsa'.errore = "no" => corsa'.uscita <= MaxUscita)
        <5>1. MaxUscita \in Nat /\ corsa.uscita \in Nat /\ corsa.uscita <= MaxUscita
          BY <4>2
        <5>2. corsa.uscita + 1 <= MaxUscita + 1
              /\ (corsa.uscita # MaxUscita => corsa.uscita + 1 <= MaxUscita)
          BY <5>1
        <5>3. corsa'.uscita = corsa.uscita + 1 /\ (corsa'.errore = "no" => corsa.uscita # MaxUscita)
          BY <4>4, <4>7
        <5> QED BY <5>2, <5>3
      <4>9. SanCorsa'
        BY <1>1, <4>1, <4>7, <4>8 DEF SanCorsa
      <4> QED BY <4>1, <4>6, <4>7, <4>9
    <3>3. CASE San!Scade
      BY <1>1, <2>1, <3>3 DEF San!Scade, SanCorse, SanCorsa
    <3>4. CASE San!Esce
      <4>1. repo[1] \in San!Contenuto
        BY <2>1 DEF San!File
      <4>2. PICK codice \in San!Codici(corsa.strumento, repo[1]) :
              corsa' = [corsa EXCEPT !.codice = codice, !.visto = repo[1]]
        BY <3>4 DEF San!Esce
      <4>3. codice \in {0, 1, 2}
        BY DEF San!Codici
      <4> QED BY <1>1, <2>1, <3>4, <4>1, <4>2, <4>3 DEF San!Esce, SanCorse, SanCorsa, SanVisti
    <3>5. CASE San!FiglioEsce
      BY <1>1, <2>1, <3>5 DEF San!FiglioEsce, SanCorse, SanCorsa
    <3>6. CASE San!Finisce
      BY <1>1, <2>1, <3>6 DEF San!Finisce, SanCorse, SanCorsa
    <3> QED BY <1>7, <3>1, <3>2, <3>3, <3>4, <3>5, <3>6
  <2>3. SanTipi'
    BY <1>1, <2>2 DEF SanTipi
  <2> QED BY <2>2, <2>3, SanCorsaResta
<1>8. CASE San!Chiede
  <2>1. PICK n \in 1..MaxControlli : piano' \in [1..n -> Strumento]
    BY <1>8 DEF San!Chiede
  <2>2. piano' \in Seq(Strumento) /\ Len(piano') = n
    BY <2>1
  <2>3. SanTipi' /\ SanCorsa' /\ SanEsiti'
    BY <1>1, <1>8, <2>2 DEF San!Chiede, SanTipi, SanCorsa, SanEsiti
  <2>4. SanPiano' /\ San!PassaSoloBuono'
    BY <1>1, <1>8, <2>2 DEF San!Chiede, SanPiano, San!PassaSoloBuono, San!Nessuno
  <2> QED BY <2>3, <2>4 DEF SanInv
<1>9. CASE San!Controlla
  <2>1. /\ Head(piano) \in Strumento /\ Tail(piano) \in Seq(Strumento)
        /\ Len(Tail(piano)) = Len(piano) - 1 /\ Len(piano) \in Nat
    BY <1>1, <1>9 DEF San!Controlla, SanTipi
  <2>2. SanTipi' /\ SanCorsa' /\ corsa'.strumento = Head(piano) /\ corsa'.pc = "corre"
    BY <1>1, <1>5, <1>9, <2>1 DEF San!Controlla, SanTipi
  <2>3. SanPiano'
    BY <1>1, <1>9, <2>1, <2>2 DEF San!Controlla, SanPiano, SanTipi
  <2> QED BY <1>1, <1>9, <2>2, <2>3 DEF San!Controlla, SanInv, SanEsiti, San!PassaSoloBuono
<1>10. CASE San!NonParte
  <2> DEFINE e == [completed |-> FALSE, passed |-> FALSE, visto |-> "-"]
  <2>1. /\ Tail(piano) \in Seq(Strumento) /\ Len(Tail(piano)) = Len(piano) - 1 /\ Len(piano) \in Nat
    BY <1>1, <1>10 DEF San!NonParte, SanTipi
  <2>2. e \in SanRisultati /\ SanBuono(e)
    BY DEF SanRisultati, SanVisti, SanBuono
  <2>3. /\ esiti \in Seq(SanRisultati) /\ esiti' = Append(esiti, e) /\ piano' = Tail(piano)
        /\ corsa.pc = "ferma" /\ UNCHANGED <<repo, corsa, verdetto>>
    BY <1>1, <1>10 DEF San!NonParte, SanTipi
  <2> HIDE DEF e
  <2>4. SanTipi' /\ SanCorsa' /\ SanPiano'
    BY <1>1, <2>1, <2>2, <2>3 DEF SanTipi, SanCorsa, SanPiano
  <2>5. SanEsiti'
    BY <1>1, <2>2, <2>3 DEF SanEsiti
  <2> QED BY <1>1, <2>3, <2>4, <2>5 DEF SanInv, San!PassaSoloBuono
<1>11. CASE San!Raccoglie
  <2>1. /\ corsa.pc = "finita" /\ corsa' = San!Ferma /\ UNCHANGED <<repo, piano, verdetto>>
        /\ esiti' = IF corsa.strumento = "run" THEN esiti ELSE Append(esiti, San!Giudizio)
    BY <1>11 DEF San!Raccoglie
  <2>2. corsa' \in SanCorse /\ SanCorsa' /\ corsa'.pc = "ferma"
    BY <2>1, SanFerma DEF SanCorsa
  <2>3. CASE corsa.strumento = "run"
    BY <1>1, <2>1, <2>2, <2>3 DEF SanInv, SanTipi, SanPiano, SanEsiti, San!PassaSoloBuono
  <2>4. CASE corsa.strumento # "run"
    <3>1. San!Giudizio \in SanRisultati /\ SanBuono(San!Giudizio)
      BY <1>1, <2>1, <2>4, SanGiudizio
    <3>2. SanTipi' /\ SanPiano'
      BY <1>1, <2>1, <2>2, <2>4, <3>1 DEF SanTipi, SanPiano
    <3>3. SanEsiti'
      BY <1>1, <2>1, <2>4, <3>1 DEF SanTipi, SanEsiti
    <3> QED BY <1>1, <2>1, <2>2, <3>2, <3>3 DEF SanInv, San!PassaSoloBuono
  <2> QED BY <2>3, <2>4
<1>12. CASE San!Conclude
  <2>1. /\ esiti' = <<>> /\ piano = <<>> /\ corsa.pc = "ferma" /\ UNCHANGED <<repo, piano, corsa>>
        /\ esiti # <<>>
        /\ verdetto'.passed => verdetto'.complete /\ \A i \in DOMAIN esiti : esiti[i].passed
        /\ verdetto'.visti = {esiti[i].visto : i \in DOMAIN esiti}
    BY <1>12 DEF San!Conclude
  <2>2. San!PassaSoloBuono'
    <3> SUFFICES ASSUME verdetto'.passed PROVE verdetto'.complete /\ verdetto'.visti = {"buono"}
      BY DEF San!PassaSoloBuono
    <3>1. \A i \in DOMAIN esiti : esiti[i].visto = "buono"
      BY <1>1, <2>1 DEF SanEsiti, SanBuono
    <3>2. DOMAIN esiti # {}
      BY <1>1, <2>1 DEF SanTipi
    <3> QED BY <2>1, <3>1, <3>2
  <2>3. SanTipi' /\ SanCorsa' /\ SanPiano' /\ SanEsiti'
    BY <1>1, <2>1 DEF SanTipi, SanCorsa, SanPiano, SanEsiti
  <2> QED BY <2>2, <2>3 DEF SanInv
<1> QED BY <1>4, <1>6, <1>7, <1>8, <1>9, <1>10, <1>11, <1>12 DEF San!Next

\* ... and so does a step of something else.
LEMMA SanResta == ASSUME SanInv, UNCHANGED san_vars PROVE SanInv'
BY DEF SanInv, SanTipi, SanCorsa, SanPiano, SanEsiti, San!PassaSoloBuono, san_vars

\* The text of a diff is finite.
LEMMA SanTesto == ASSUME NEW n \in 0..Len(Peso) PROVE San!Testo(n) \in Nat
<1> USE IpotesiSandbox DEF San!SandboxRunsAssumption
<1> DEFINE F == San!Cambiati(n)
           T(f) == {f} \X (1..Peso[f])
           g == [f \in F |-> T(f)]
<1>1. F \subseteq 1..n /\ n \in Nat /\ Len(Peso) \in Nat
  BY DEF San!Cambiati
<1>2. IsFiniteSet(1..n)
  BY <1>1, FS_Interval
<1>3. IsFiniteSet(F)
  <2> HIDE DEF F
  <2> QED BY <1>1, <1>2, FS_Subset
<1>4. ASSUME NEW f \in F PROVE IsFiniteSet(T(f))
  <2>1. f \in DOMAIN Peso
    BY <1>1
  <2>2. Peso[f] \in Nat
    BY <2>1
  <2>3. IsFiniteSet(1..Peso[f])
    BY <2>2, FS_Interval
  <2>4. IsFiniteSet({f})
    BY FS_Singleton
  <2> QED BY <2>3, <2>4, FS_Product
<1>5. IsFiniteSet({T(f) : f \in F})
  <2> DEFINE S == {T(f) : f \in F}
  <2>1. g \in Surjection(F, S)
    BY DEF Surjection
  <2> HIDE DEF F, g, S
  <2>2. IsFiniteSet(S)
    BY <1>3, <2>1, FS_Surjection
  <2> QED BY <2>2 DEF S
<1>6. IsFiniteSet(UNION {T(f) : f \in F})
  <2> DEFINE S == {T(f) : f \in F}
  <2>1. \A t \in S : IsFiniteSet(t)
    BY <1>4
  <2> HIDE DEF S
  <2>2. IsFiniteSet(UNION S)
    BY <1>5, <2>1, FS_UNION DEF S
  <2> QED BY <2>2 DEF S
<1>7. San!Testo(n) = Cardinality(UNION {T(f) : f \in F})
  BY SanCardinalita DEF San!Testo
<1> HIDE DEF F
<1> QED BY <1>6, <1>7, FS_CardinalityType

\* A diff or a listing that is not cut is whole: a fact of the functions alone.
LEMMA SanIntera == San!InteraSeNonTagliata
<1> USE IpotesiSandbox DEF San!SandboxRunsAssumption
<1> DEFINE tutti == San!Cambiati(Len(Peso))
           oltre == {f \in tutti : repo[f] # "rotto" /\ San!Testo(f) >= MaxDiff}
<1>1. ASSUME ~San!Diff.truncated, San!Testo(San!Fin) # MaxDiff
      PROVE  San!Diff.changed_files = tutti
  <2>1. Len(Peso) \in Nat /\ tutti \subseteq 1..Len(Peso)
    BY DEF San!Cambiati
  <2>2. CASE oltre = {}
    <3>1. San!Fin = Len(Peso)
      BY <2>2 DEF San!Fin
    <3> QED BY <3>1 DEF San!Diff
  <2>3. CASE oltre # {}
    <3>1. oltre \subseteq Nat /\ oltre # {}
      BY <2>1, <2>3
    <3>2. PICK k \in oltre : \A j \in oltre : k <= j
      BY <3>1, SanMinimo
    <3>3. San!Fin = CHOOSE i \in oltre : \A j \in oltre : i <= j
      BY <2>3 DEF San!Fin, San!Min
    <3>4. San!Fin \in oltre
      BY <3>2, <3>3
    <3>5. San!Fin \in 1..Len(Peso) /\ San!Testo(San!Fin) >= MaxDiff
      BY <2>1, <3>4
    <3>6. San!Testo(San!Fin) \in Nat
      BY <3>5, SanTesto
    <3>7. ~(San!Testo(San!Fin) > MaxDiff)
      BY <1>1 DEF San!Diff
    <3> QED BY <1>1, <3>5, <3>6, <3>7
  <2> QED BY <2>2, <2>3
<1>2. ASSUME ~San!Elenco.truncated PROVE San!Elenco.files = San!Presenti
  <2>1. IsFiniteSet(San!Presenti)
    <3>1. San!Presenti \subseteq 1..Len(Peso) /\ Len(Peso) \in Nat
      BY DEF San!Presenti, San!File
    <3>2. IsFiniteSet(1..Len(Peso))
      BY <3>1, FS_Interval
    <3> QED BY <3>1, <3>2, FS_Subset
  <2>2. ~(Cardinality(San!Presenti) >= MaxLista) /\ Cardinality(San!Presenti) \in Nat
    <3>1. ~(Cardinality(San!Presenti) >= MaxLista)
      BY <1>2, SanCardinalita DEF San!Elenco
    <3> QED BY <2>1, <3>1, FS_CardinalityType
  <2>3. ASSUME NEW f \in San!Presenti PROVE Cardinality({g \in San!Presenti : g < f}) < MaxLista
    <3> DEFINE G == {g \in San!Presenti : g < f}
    <3>1. Cardinality(G) <= Cardinality(San!Presenti) /\ IsFiniteSet(G)
      <4>1. G \subseteq San!Presenti
        OBVIOUS
      <4> HIDE DEF G
      <4> QED BY <2>1, <4>1, FS_Subset
    <3>2. Cardinality(G) \in Nat
      BY <3>1, FS_CardinalityType
    <3> QED BY <2>2, <3>1, <3>2
  <2> QED BY <2>3, SanCardinalita DEF San!Elenco
<1> QED BY <1>1, <1>2 DEF San!InteraSeNonTagliata

\* What the run checks of it.
LEMMA SanVero ==
  ASSUME SanInv
  PROVE  San!TypeOK /\ San!PassaSoloBuono /\ San!CorsaIntera /\ San!InteraSeNonTagliata
<1> USE IpotesiSandbox DEF San!SandboxRunsAssumption
<1>1. SanTipi /\ SanCorsa /\ SanPiano /\ San!PassaSoloBuono
  BY DEF SanInv
<1>2. San!TypeOK
  <2>1. Len(piano) \in Nat /\ Len(esiti) \in Nat
    BY <1>1 DEF SanTipi
  <2>2. Len(piano) <= MaxControlli /\ Len(esiti) <= MaxControlli
    <3>1. CASE corsa.pc # "ferma" /\ corsa.strumento # "run"
      BY <1>1, <2>1, <3>1 DEF SanPiano
    <3>2. CASE ~(corsa.pc # "ferma" /\ corsa.strumento # "run")
      BY <1>1, <2>1, <3>2 DEF SanPiano
    <3> QED BY <3>1, <3>2
  <2>3. corsa.uscita \in 0..MaxUscita + 1 /\ corsa.pc \in {"ferma", "corre", "finita"}
    <3>1. corsa.uscita \in Nat /\ corsa.pc \in {"ferma", "corre", "finita"}
      BY <1>1 DEF SanTipi, SanCorse
    <3>2. corsa.uscita <= MaxUscita + 1
      BY <1>1 DEF SanCorsa
    <3> QED BY <3>1, <3>2
  <2> QED BY <1>1, <2>2, <2>3 DEF San!TypeOK, SanTipi
<1>3. San!CorsaIntera
  <2> SUFFICES ASSUME corsa.pc = "finita"
               PROVE  ~corsa.figli /\ (San!Giusta => corsa.visto # "-" /\ corsa.uscita <= MaxUscita)
    BY DEF San!CorsaIntera
  <2>1. San!Giusta => corsa.errore = "no" /\ corsa.codice # 9
    BY DEF San!Giusta
  <2> QED BY <1>1, <2>1 DEF SanCorsa, San!Contenuto
<1> QED BY <1>1, <1>2, <1>3, SanIntera

-----------------------------------------------------------------------------
(* The programs of a node together.                                                         *)

\* Whatever the scene, the slots rest or obey their invariant; the program of the scene
\* obeys its own.
InvScena ==
  /\ IInv
  /\ scena = "metriche" => MetInv(Modelli, Fonti, Lettori)
  /\ scena = "metriche2" => MetInv(ModelliDue, FontiDue, LettoriDue)
  /\ scena = "proxy" => ProInv
  /\ scena = "sandbox" => SanInv

\* What the lemmas of the telemetry assume is what the run evaluates.
LEMMA MetIpotesi == MetVere
BY IpotesiMetriche DEF Met!NodeMetricsAssumption, MetVere

\* The programs side by side: at first,
LEMMA ScenaInizio == InitScena => InvScena
<1> SUFFICES ASSUME InitScena PROVE InvScena
  OBVIOUS
<1>1. IInv
  BY IInvInit DEF InitScena
<1>2. ASSUME scena = "metriche" PROVE MetInv(Modelli, Fonti, Lettori)
  <2>1. Met(Modelli, Fonti, Lettori)!Init
    BY <1>2 DEF InitScena
  <2> QED BY <2>1, MetIpotesi, MetInizio
<1>3. ASSUME scena = "metriche2" PROVE MetInv(ModelliDue, FontiDue, LettoriDue)
  <2>1. Met(ModelliDue, FontiDue, LettoriDue)!Init
    BY <1>3 DEF InitScena
  <2> QED BY <2>1, MetIpotesi, MetInizio
<1>4. ASSUME scena = "proxy" PROVE ProInv
  <2>1. Pro!Init
    BY <1>4 DEF InitScena
  <2> QED BY <2>1, ProInizio
<1>5. ASSUME scena = "sandbox" PROVE SanInv
  <2>1. San!Init
    BY <1>5 DEF InitScena
  <2> QED BY <2>1, SanInizio
<1> QED BY <1>1, <1>2, <1>3, <1>4, <1>5 DEF InvScena

\* ... and at every step.
LEMMA ScenaPasso == InvScena /\ [NextScena]_nodo_vars => InvScena'
<1> SUFFICES ASSUME InvScena, [NextScena]_nodo_vars PROVE InvScena'
  OBVIOUS
<1>1. /\ scena' = scena /\ [Next]_vars
      /\ scena = "metriche" => Met(Modelli, Fonti, Lettori)!Next \/ UNCHANGED met_vars
      /\ scena = "metriche2" => Met(ModelliDue, FontiDue, LettoriDue)!Next \/ UNCHANGED met_vars
      /\ scena = "proxy" => Pro!Next \/ UNCHANGED pro_vars
      /\ scena = "sandbox" => San!Next \/ UNCHANGED san_vars
  <2>1. CASE NextScena
    BY <2>1 DEF NextScena
  <2>2. CASE UNCHANGED nodo_vars
    BY <2>2 DEF nodo_vars
  <2> QED BY <2>1, <2>2
<1>2. IInv'
  BY <1>1, IInvPasso DEF InvScena
<1>3. ASSUME scena = "metriche" PROVE MetInv(Modelli, Fonti, Lettori)'
  <2>1. MetInv(Modelli, Fonti, Lettori)
    BY <1>3 DEF InvScena
  <2>2. CASE Met(Modelli, Fonti, Lettori)!Next
    BY <2>1, <2>2, MetIpotesi, MetPasso
  <2>3. CASE UNCHANGED met_vars
    BY <2>1, <2>3, MetResta
  <2> QED BY <1>1, <1>3, <2>2, <2>3
<1>4. ASSUME scena = "metriche2" PROVE MetInv(ModelliDue, FontiDue, LettoriDue)'
  <2>1. MetInv(ModelliDue, FontiDue, LettoriDue)
    BY <1>4 DEF InvScena
  <2>2. CASE Met(ModelliDue, FontiDue, LettoriDue)!Next
    BY <2>1, <2>2, MetIpotesi, MetPasso
  <2>3. CASE UNCHANGED met_vars
    BY <2>1, <2>3, MetResta
  <2> QED BY <1>1, <1>4, <2>2, <2>3
<1>5. ASSUME scena = "proxy" PROVE ProInv'
  <2>1. ProInv
    BY <1>5 DEF InvScena
  <2> QED BY <1>1, <1>5, <2>1, ProPassoVero, ProResta
<1>6. ASSUME scena = "sandbox" PROVE SanInv'
  <2>1. SanInv
    BY <1>6 DEF InvScena
  <2> QED BY <1>1, <1>6, <2>1, SanPasso, SanResta
<1> QED BY <1>1, <1>2, <1>3, <1>4, <1>5, <1>6 DEF InvScena

LEMMA ScenaSempre == SpecScena => []InvScena
BY ScenaInizio, ScenaPasso, PTL DEF SpecScena

\* Of every scene, for any models, engines, readers, requests, tools and bounds: what is at
\* work keeps its types (node/main.py, node/backend_metrics.py, node/ollama_proxy.py,
\* sandbox/runner.py).
THEOREM TipiDelNodo == SpecScena => []Tipi
<1>1. InvScena => Tipi
  <2> SUFFICES ASSUME InvScena PROVE Tipi
    OBVIOUS
  <2>1. TypeOK
    BY IInvTipi DEF InvScena
  <2>2. scena = "metriche" => Met(Modelli, Fonti, Lettori)!TypeOK
    BY MetIpotesi, MetVero DEF InvScena
  <2>3. scena = "metriche2" => Met(ModelliDue, FontiDue, LettoriDue)!TypeOK
    BY MetIpotesi, MetVero DEF InvScena
  <2>4. scena = "proxy" => Pro!TypeOK
    BY ProVero DEF InvScena
  <2>5. scena = "sandbox" => San!TypeOK
    BY SanVero DEF InvScena
  <2> QED BY <2>1, <2>2, <2>3, <2>4, <2>5 DEF Tipi
<1> QED BY <1>1, ScenaSempre, PTL

\* What a node says of itself is so, for any models, engines, readers, requests, tools and
\* bounds: an empty payload has failed sources, rates and quantiles are never above the true
\* ones (node/backend_metrics.py); what a caller was answered was generated and logged once,
\* and the panel shows no call whose end it knows (node/ollama_proxy.py); a plan passes only
\* on files without a fault, and what is cut says so (sandbox/runner.py).
THEOREM NodiSempreVeri == SpecScena => []NodiVeri
<1>1. InvScena => NodiVeri
  <2> SUFFICES ASSUME InvScena PROVE NodiVeri
    OBVIOUS
  <2>1. scena = "metriche" => Met(Modelli, Fonti, Lettori)!VuotaSpiegata
                              /\ Met(Modelli, Fonti, Lettori)!TassoNonGonfiato
    BY MetIpotesi, MetVero DEF InvScena
  <2>2. scena = "metriche2" => Met(ModelliDue, FontiDue, LettoriDue)!VuotaSpiegata
                               /\ Met(ModelliDue, FontiDue, LettoriDue)!TassoNonGonfiato
    BY MetIpotesi, MetVero DEF InvScena
  <2>3. scena = "proxy" => Pro!RispostaInTelemetria /\ Pro!DoppioSpiegato /\ Pro!VivoSpiegato
    BY ProVero DEF InvScena
  <2>4. scena = "sandbox" => San!PassaSoloBuono /\ San!CorsaIntera /\ San!InteraSeNonTagliata
    BY SanVero DEF InvScena
  <2> QED BY <2>1, <2>2, <2>3, <2>4, QuaOrdinati, ProNomeDelTool DEF NodiVeri
<1> QED BY <1>1, ScenaSempre, PTL

\* A behaviour of a scene is a fair behaviour of the slots: what NodeSlots keeps, the scenes that
\* the runs check keep.
THEOREM ScenaDeiPosti == SpecScena => FairSpec
<1>1. InitScena => Init
  BY DEF InitScena
<1>2. [NextScena]_nodo_vars => [Next]_vars
  <2> SUFFICES ASSUME [NextScena]_nodo_vars PROVE [Next]_vars
    OBVIOUS
  <2>1. CASE NextScena
    BY <2>1 DEF NextScena
  <2>2. CASE UNCHANGED nodo_vars
    BY <2>2 DEF nodo_vars
  <2> QED BY <2>1, <2>2
<1> QED BY <1>1, <1>2, PTL DEF SpecScena, Spec, FairSpec

=============================================================================
