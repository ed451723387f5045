----------------------- MODULE ImagePipeline_proofs -----------------------
(***************************************************************************)
(* Proofs about ImagePipeline, for any number of jobs, bridges, chats and  *)
(* families and for any times.  The two facts that depend on the ratio of  *)
(* two times have that ratio as their hypothesis.                          *)
(***************************************************************************)
EXTENDS ImagePipeline, TLAPS

QP == INSTANCE ImageQueue_proofs WITH DiscoFallibile <- FALSE

-----------------------------------------------------------------------------
(* The assumptions of the queue and of the gate hold here. *)

LEMMA AssunzioniCoda ==
  /\ QP!IsFiniteSet(JobId)
  /\ MaxJobs \in Nat \ {0}
  /\ Ttl \in Nat /\ ClaimTtl \in Nat
  /\ MaxStorico \in Nat \ {0}
  /\ FALSE \in BOOLEAN
<1>1. QP!IsFiniteSet(JobId) <=> IsFiniteSet(JobId)
  BY DEF IsFiniteSet, QP!IsFiniteSet
<1> QED BY <1>1, ImagePipelineAssumption

LEMMA AssunzioniPorta == G!IsFiniteSet(Chat) /\ Lease \in Nat \ {0}
<1>1. G!IsFiniteSet(Chat) <=> IsFiniteSet(Chat)
  BY DEF IsFiniteSet, G!IsFiniteSet
<1> QED BY <1>1, ImagePipelineAssumption

-----------------------------------------------------------------------------
(* Types. *)

StatiPonte == {Fermo} \union [pc : FasiPonte \ {"libero"}, lavoro : JobId]
Richieste == {NessunThread} \union [fase : FasiRichiesta \ {"no"}, per : Ponte]
Rapporti == {NessunThread} \union [fase : FasiRapporto \ {"no"}, per : Ponte]

Tipi ==
  /\ Q!TypeOK
  /\ ponte \in [Ponte -> StatiPonte] /\ durata \in [Ponte -> 0..Esecuzione]
  /\ richiesta \in [JobId -> Richieste] /\ rapporto \in [JobId -> Rapporti]
  /\ effetti \in [JobId -> Nat]

\* What the operators of the model do to a bridge and to a thread.
LEMMA LavoroTipo ==
  ASSUME ponte \in [Ponte -> StatiPonte], NEW p \in Ponte, ~In(p, "libero")
  PROVE  ponte[p].lavoro \in JobId /\ ponte[p].pc \in FasiPonte
BY DEF StatiPonte, In, Fermo

LEMMA VaEffetto ==
  ASSUME ponte \in [Ponte -> StatiPonte], NEW p \in Ponte, ~In(p, "libero"),
         NEW f \in FasiPonte \ {"libero"}, Va(p, f)
  PROVE  /\ ponte' \in [Ponte -> StatiPonte]
         /\ ponte'[p].pc = f /\ ponte'[p].lavoro = ponte[p].lavoro
         /\ ponte[p].lavoro \in JobId
         /\ \A q \in Ponte \ {p} : ponte'[q] = ponte[q]
<1>1. ponte[p] \in [pc : FasiPonte \ {"libero"}, lavoro : JobId]
  BY DEF StatiPonte, In, Fermo
<1>2. [ponte[p] EXCEPT !.pc = f] \in [pc : FasiPonte \ {"libero"}, lavoro : JobId]
  BY <1>1
<1> QED BY <1>1, <1>2 DEF Va, StatiPonte

LEMMA SmetteEffetto ==
  ASSUME ponte \in [Ponte -> StatiPonte], NEW p \in Ponte, Smette(p)
  PROVE  /\ ponte' \in [Ponte -> StatiPonte]
         /\ ponte'[p].pc = "libero"
         /\ \A q \in Ponte \ {p} : ponte'[q] = ponte[q]
BY DEF Smette, StatiPonte, Fermo

LEMMA PassaEffetto ==
  ASSUME richiesta \in [JobId -> Richieste], NEW j \in JobId, richiesta[j].fase # "no",
         NEW f \in FasiRichiesta \ {"no"}, Passa(j, f)
  PROVE  /\ richiesta' \in [JobId -> Richieste]
         /\ richiesta'[j].fase = f /\ richiesta'[j].per = richiesta[j].per
         /\ richiesta[j].per \in Ponte
         /\ \A k \in JobId \ {j} : richiesta'[k] = richiesta[k]
<1>1. richiesta[j] \in [fase : FasiRichiesta \ {"no"}, per : Ponte]
  BY DEF Richieste, NessunThread
<1>2. [richiesta[j] EXCEPT !.fase = f] \in [fase : FasiRichiesta \ {"no"}, per : Ponte]
  BY <1>1
<1> QED BY <1>1, <1>2 DEF Passa, Richieste

LEMMA AvanzaEffetto ==
  ASSUME rapporto \in [JobId -> Rapporti], NEW j \in JobId, rapporto[j].fase # "no",
         NEW f \in FasiRapporto \ {"no"}, Avanza(j, f)
  PROVE  /\ rapporto' \in [JobId -> Rapporti]
         /\ rapporto'[j].fase = f /\ rapporto'[j].per = rapporto[j].per
         /\ rapporto[j].per \in Ponte
         /\ \A k \in JobId \ {j} : rapporto'[k] = rapporto[k]
<1>1. rapporto[j] \in [fase : FasiRapporto \ {"no"}, per : Ponte]
  BY DEF Rapporti, NessunThread
<1>2. [rapporto[j] EXCEPT !.fase = f] \in [fase : FasiRapporto \ {"no"}, per : Ponte]
  BY <1>1
<1> QED BY <1>1, <1>2 DEF Avanza, Rapporti

-----------------------------------------------------------------------------
(* The queue.  The proofs about it speak of the same queue. *)

LEMMA StessaCoda ==
  /\ Q!Init <=> QP!Init
  /\ Q!TypeOK <=> QP!TypeOK
  /\ Q!TypeOK' <=> QP!TypeOK'
  /\ [Q!Next]_Q!qvars <=> [QP!Next]_QP!qvars
<1> USE DEF Q!Stati, Q!JobRec, Q!Attivo, Q!Concluso, Q!Vuoto, Q!Rimosso, Q!Potato, Q!Pota,
        Q!Immagine, Q!Scritture, Q!PotaEScrive, QP!Stati, QP!JobRec, QP!Attivo, QP!Concluso,
        QP!Vuoto, QP!Rimosso, QP!Potato, QP!Pota, QP!Immagine, QP!Scritture, QP!PotaEScrive
<1>1. Q!Init <=> QP!Init
  BY DEF Q!Init, QP!Init
<1>2. (Q!TypeOK <=> QP!TypeOK) /\ (Q!TypeOK' <=> QP!TypeOK')
  BY DEF Q!TypeOK, QP!TypeOK
<1>3. ASSUME NEW j \in JobId PROVE Q!Accoda(j) <=> QP!Accoda(j)
  BY Zenon DEF Q!Accoda, QP!Accoda, Q!Nuovo, QP!Nuovo, Q!AttiviDi, QP!AttiviDi, Q!Cardinality, QP!Cardinality
<1>4. Q!Legge <=> QP!Legge
  BY Zenon DEF Q!Legge, QP!Legge
<1>5. ASSUME NEW caps, NEW j \in JobId PROVE Q!Prossimo(caps, j) <=> QP!Prossimo(caps, j)
  BY Zenon DEF Q!Prossimo, QP!Prossimo, Q!PiuVecchi, QP!PiuVecchi, Q!Candidati, QP!Candidati
<1>6. ASSUME NEW j \in JobId, NEW ok \in BOOLEAN PROVE Q!Concludi(j, ok) <=> QP!Concludi(j, ok)
  BY Zenon DEF Q!Concludi, QP!Concludi, Q!Coda, QP!Coda
<1>7. ASSUME NEW j \in JobId
      PROVE  (Q!Rinvia(j) <=> QP!Rinvia(j)) /\ (Q!Consegnato(j) <=> QP!Consegnato(j))
  BY Zenon DEF Q!Rinvia, QP!Rinvia, Q!Consegnato, QP!Consegnato
<1>8. Q!Restore <=> QP!Restore
  BY Zenon DEF Q!Restore, QP!Restore, Q!Riavvia, QP!Riavvia, Q!Ripreso, QP!Ripreso,
               Q!RiavviaSenzaFile, QP!RiavviaSenzaFile
<1>9. Q!Tick <=> QP!Tick
  BY Zenon DEF Q!Tick, QP!Tick, Q!Invecchiati, QP!Invecchiati, Q!Invecchia, QP!Invecchia,
               Q!Sale, QP!Sale
<1>10. Q!Next <=> QP!Next
  BY Zenon, <1>3, <1>4, <1>5, <1>6, <1>7, <1>8, <1>9 DEF Q!Next, QP!Next
<1> QED BY <1>1, <1>2, <1>10 DEF Q!qvars, QP!qvars

\* A claim for the families of a bridge is a claim for those of them that some
\* request declares.
LEMMA PrendeFamiglie ==
  ASSUME NEW caps, NEW j \in JobId, Q!Prossimo(caps, j)
  PROVE  Q!Prossimo(caps \intersect {FamigliaDi[k] : k \in JobId}, j)
<1> DEFINE F == {FamigliaDi[k] : k \in JobId}
<1>1. \A jobs : Q!Candidati(jobs, caps \intersect F) = Q!Candidati(jobs, caps)
  BY DEF Q!Candidati
<1>2. \A jobs : Q!PiuVecchi(jobs, caps \intersect F) = Q!PiuVecchi(jobs, caps)
  BY <1>1 DEF Q!PiuVecchi
<1> QED BY <1>2 DEF Q!Prossimo

\* Every step of the system is a step of the queue, or leaves it alone.
LEMMA PassoCoda == Tipi /\ [Next]_vars => [Q!Next]_Q!qvars
<1> SUFFICES ASSUME Tipi, [Next]_vars PROVE Q!Next \/ UNCHANGED codavars
  BY DEF codavars, Q!qvars
<1> USE DEF Q!Next, codavars
<1>1. ASSUME Coda PROVE Q!Next
  BY <1>1 DEF Coda
<1>2. ASSUME RichiestaChat PROVE UNCHANGED codavars
  BY <1>2 DEF RichiestaChat
<1>3. ASSUME NEW p \in Ponte, NEW j \in JobId, Chiede(p, j) PROVE Q!Next
  BY <1>3, PrendeFamiglie DEF Chiede
<1>4. ASSUME NEW j \in JobId, Riserva(j) \/ RiservaAttende(j) \/ Rifiuta(j) \/ Risponde(j)
      PROVE  Q!Next \/ UNCHANGED codavars
  BY <1>4 DEF Riserva, RiservaAttende, Rifiuta, Risponde
<1>5. ASSUME NEW p \in Ponte, PonteNonAspetta(p) \/ Rende(p) \/ NonPronto(p) \/ FineRender(p)
      PROVE  UNCHANGED codavars
  BY <1>5 DEF PonteNonAspetta, Rende, NonPronto, FineRender
<1>6. ASSUME NEW p \in Ponte, RinviaGate(p) \/ RinvioPerso(p) \/ CadePonte(p) \/ RiferisceDoppione(p)
      PROVE  UNCHANGED codavars
  BY <1>6 DEF RinviaGate, RinvioPerso, CadePonte, RiferisceDoppione
<1>7. ASSUME NEW p \in Ponte, RinviaCoda(p) PROVE Q!Next \/ UNCHANGED codavars
  BY <1>7, LavoroTipo DEF RinviaCoda, Tipi, In
<1>8. ASSUME NEW p \in Ponte, NEW ok \in BOOLEAN, Riferisce(p, ok) PROVE Q!Next
  BY <1>8, LavoroTipo DEF Riferisce, Tipi, In
<1>9. ASSUME NEW j \in JobId, RapportoCoda(j) \/ RapportoGate(j) \/ RapportoEffetti(j)
      PROVE  Q!Next \/ UNCHANGED codavars
  BY <1>9 DEF RapportoCoda, RapportoGate, RapportoEffetti
<1>10. ASSUME CadeControlPlane PROVE Q!Next
  BY <1>10 DEF CadeControlPlane, Q!Restore
<1>11. ASSUME Tick PROVE Q!Next
  BY <1>11 DEF Tick
<1>12. ASSUME UNCHANGED vars PROVE UNCHANGED codavars
  BY <1>12 DEF vars
<1> QED
  BY <1>1, <1>2, <1>3, <1>4, <1>5, <1>6, <1>7, <1>8, <1>9, <1>10, <1>11, <1>12 DEF Next

-----------------------------------------------------------------------------
(* Type correctness.  Each action moves few of the variables, and each of    *)
(* those through one of the operators above.                                 *)

LEMMA TipiInit == Init => Tipi /\ G!TypeOK
<1> SUFFICES ASSUME Init PROVE Tipi /\ G!TypeOK
  OBVIOUS
<1>1. Q!TypeOK
  BY StessaCoda, AssunzioniCoda, QP!TypeOKInit DEF Init
<1>2. G!TypeOK
  BY AssunzioniPorta, IdDistinti DEF Init, G!Init, G!TypeOK, G!Nessuno
<1>3. Tipi
  BY <1>1, ImagePipelineAssumption DEF Init, Tipi, StatiPonte, Richieste, Rapporti
<1> QED BY <1>2, <1>3

\* The gate keeps its types whoever calls it.
LEMMA TipoPorta ==
  ASSUME G!TypeOK
  PROVE  /\ \A c \in Chat : G!EnterChat(c) \/ G!ChatSveglia(c) \/ G!ChatRinuncia(c) \/ G!LeaveChat(c)
              => G!TypeOK'
         /\ \A j \in JobId :
              \/ G!ReserveRinnova(j) \/ G!ReserveRifiuta(j) \/ G!ReservePrende(j)
              \/ G!ReserveConcessa(j) \/ G!ReserveScaduta(j)
              \/ G!ContinueImageQueue(j) \/ G!ReleaseImage(j)
              => G!TypeOK'
         /\ G!Tick => G!TypeOK'
<1> USE AssunzioniPorta, IdDistinti
    DEF G!TypeOK, G!Proprietario, G!RestoVivo, G!Scade, G!Assegna, G!Dentro, G!Nessuno,
        G!CodaImmagini
<1>1. ASSUME NEW c \in Chat,
             G!EnterChat(c) \/ G!ChatSveglia(c) \/ G!ChatRinuncia(c) \/ G!LeaveChat(c)
      PROVE  G!TypeOK'
  BY <1>1 DEF G!EnterChat, G!ChatSveglia, G!ChatRinuncia, G!LeaveChat
<1>2. ASSUME NEW j \in JobId,
             \/ G!ReserveRinnova(j) \/ G!ReserveRifiuta(j) \/ G!ReservePrende(j)
             \/ G!ReserveConcessa(j) \/ G!ReserveScaduta(j)
             \/ G!ContinueImageQueue(j) \/ G!ReleaseImage(j)
      PROVE  G!TypeOK'
  BY <1>2 DEF G!ReserveRinnova, G!ReserveRifiuta, G!ReservePrende, G!ReserveConcessa,
              G!ReserveScaduta, G!ContinueImageQueue, G!ReleaseImage
<1>3. ASSUME G!Tick PROVE G!TypeOK'
  BY <1>3 DEF G!Tick
<1> QED BY <1>1, <1>2, <1>3

LEMMA TipiNext == Tipi /\ G!TypeOK /\ [Next]_vars => Tipi' /\ G!TypeOK'
<1> SUFFICES ASSUME Tipi, G!TypeOK, [Next]_vars PROVE Tipi' /\ G!TypeOK'
  OBVIOUS
<1>1. Q!TypeOK'
  BY PassoCoda, StessaCoda, AssunzioniCoda, QP!TypeOKNext DEF Tipi
<1> DEFINE Resto ==
      /\ ponte \in [Ponte -> StatiPonte] /\ durata \in [Ponte -> 0..Esecuzione]
      /\ richiesta \in [JobId -> Richieste] /\ rapporto \in [JobId -> Rapporti]
      /\ effetti \in [JobId -> Nat]
<1> SUFFICES Resto' /\ G!TypeOK'
  BY <1>1 DEF Tipi
<1>2. Resto
  BY DEF Tipi
<1>3. UNCHANGED gatevars => G!TypeOK'
  BY DEF gatevars, G!TypeOK
<1> USE DEF threadvars
<1>4. CASE Coda
  BY <1>2, <1>3, <1>4 DEF Coda
<1>5. CASE RichiestaChat
  BY <1>2, <1>5, TipoPorta DEF RichiestaChat
<1>6. ASSUME NEW p \in Ponte, NEW j \in JobId, Chiede(p, j) PROVE Resto' /\ G!TypeOK'
  <2>1. ponte' \in [Ponte -> StatiPonte]
    BY <1>2, <1>6 DEF Chiede, StatiPonte, FasiPonte
  <2>2. richiesta' \in [JobId -> Richieste]
    BY <1>2, <1>6 DEF Chiede, Richieste, FasiRichiesta
  <2> QED BY <1>2, <1>3, <1>6, <2>1, <2>2 DEF Chiede
<1>7. ASSUME NEW j \in JobId, Riserva(j) \/ RiservaAttende(j) PROVE Resto' /\ G!TypeOK'
  <2>1. richiesta' \in [JobId -> Richieste]
    BY <1>2, <1>7, PassaEffetto DEF Riserva, RiservaAttende, FasiRichiesta
  <2> QED BY <1>2, <1>7, <2>1, TipoPorta DEF Riserva, RiservaAttende
<1>8. ASSUME NEW j \in JobId, Rifiuta(j) \/ Risponde(j) PROVE Resto' /\ G!TypeOK'
  <2>1. richiesta' \in [JobId -> Richieste]
    BY <1>2, <1>8 DEF Rifiuta, Risponde, Richieste
  <2>2. richiesta[j].per \in Ponte
    BY <1>2, <1>8 DEF Rifiuta, Risponde, Richieste, NessunThread
  <2>3. ponte' \in [Ponte -> StatiPonte]
    BY <1>2, <1>8, <2>2, SmetteEffetto, VaEffetto
       DEF Rifiuta, Risponde, Aspetta, In, FasiPonte
  <2> QED BY <1>2, <1>3, <1>8, <2>1, <2>3 DEF Rifiuta, Risponde
<1>9. ASSUME NEW p \in Ponte, PonteNonAspetta(p) \/ RinviaCoda(p) \/ RinvioPerso(p)
      PROVE  Resto' /\ G!TypeOK'
  BY <1>2, <1>3, <1>9, SmetteEffetto DEF PonteNonAspetta, RinviaCoda, RinvioPerso
<1>10. ASSUME NEW p \in Ponte, Rende(p) \/ NonPronto(p) \/ FineRender(p)
      PROVE  Resto' /\ G!TypeOK'
  <2>1. ponte' \in [Ponte -> StatiPonte]
    BY <1>2, <1>10, VaEffetto DEF Rende, NonPronto, FineRender, In, FasiPonte
  <2> QED BY <1>2, <1>3, <1>10, <2>1, ImagePipelineAssumption DEF Rende, NonPronto, FineRender
<1>11. ASSUME NEW p \in Ponte, RinviaGate(p) PROVE Resto' /\ G!TypeOK'
  <2>1. ponte' \in [Ponte -> StatiPonte] /\ ponte[p].lavoro \in JobId
    BY <1>2, <1>11, VaEffetto DEF RinviaGate, In, FasiPonte
  <2> QED BY <1>2, <1>11, <2>1, TipoPorta DEF RinviaGate
<1>12. ASSUME NEW p \in Ponte, NEW ok \in BOOLEAN, Riferisce(p, ok) PROVE Resto' /\ G!TypeOK'
  <2>1. ponte[p].lavoro \in JobId
    BY <1>2, <1>12, LavoroTipo DEF Riferisce, In
  <2>2. rapporto' \in [JobId -> Rapporti]
    BY <1>2, <1>12, <2>1 DEF Riferisce, Rapporti, FasiRapporto
  <2> QED BY <1>2, <1>3, <1>12, <2>2 DEF Riferisce
<1>13. ASSUME NEW p \in Ponte, RiferisceDoppione(p) PROVE Resto' /\ G!TypeOK'
  <2>1. ponte[p].lavoro \in JobId
    BY <1>2, <1>13, LavoroTipo DEF RiferisceDoppione, In
  <2>2. ponte' \in [Ponte -> StatiPonte]
    BY <1>2, <1>13, SmetteEffetto DEF RiferisceDoppione
  <2> QED BY <1>2, <1>13, <2>1, <2>2, TipoPorta DEF RiferisceDoppione
<1>14. ASSUME NEW j \in JobId, RapportoCoda(j) \/ RapportoGate(j) PROVE Resto' /\ G!TypeOK'
  <2>1. rapporto' \in [JobId -> Rapporti]
    BY <1>2, <1>14, AvanzaEffetto DEF RapportoCoda, RapportoGate, FasiRapporto
  <2>2. G!TypeOK'
    BY <1>3, <1>14, TipoPorta DEF RapportoCoda, RapportoGate
  <2> QED BY <1>2, <1>14, <2>1, <2>2 DEF RapportoCoda, RapportoGate
<1>15. ASSUME NEW j \in JobId, RapportoEffetti(j) PROVE Resto' /\ G!TypeOK'
  <2>1. rapporto' \in [JobId -> Rapporti] /\ effetti' \in [JobId -> Nat]
    BY <1>2, <1>15 DEF RapportoEffetti, Rapporti
  <2>2. rapporto[j].per \in Ponte
    BY <1>2, <1>15 DEF RapportoEffetti, Rapporti, NessunThread
  <2>3. ponte' \in [Ponte -> StatiPonte]
    BY <1>2, <1>15, <2>2, SmetteEffetto DEF RapportoEffetti
  <2> QED BY <1>2, <1>3, <1>15, <2>1, <2>3 DEF RapportoEffetti
<1>16. ASSUME NEW p \in Ponte, CadePonte(p) PROVE Resto' /\ G!TypeOK'
  BY <1>2, <1>3, <1>16, SmetteEffetto, ImagePipelineAssumption DEF CadePonte
<1>17. CASE CadeControlPlane
  <2>1. ponte' \in [Ponte -> StatiPonte]
    BY <1>2, <1>17 DEF CadeControlPlane, StatiPonte
  <2>2. richiesta' \in [JobId -> Richieste] /\ rapporto' \in [JobId -> Rapporti]
    BY <1>17 DEF CadeControlPlane, Richieste, Rapporti
  <2>3. G!TypeOK'
    BY <1>17, AssunzioniPorta DEF CadeControlPlane, Restaurati, G!Assegna, G!TypeOK
  <2> QED BY <1>2, <1>17, <2>1, <2>2, <2>3 DEF CadeControlPlane
<1>18. CASE Tick
  BY <1>2, <1>18, TipoPorta, ImagePipelineAssumption DEF Tick
<1>19. CASE UNCHANGED vars
  BY <1>2, <1>3, <1>19 DEF vars
<1> QED
  BY <1>4, <1>5, <1>6, <1>7, <1>8, <1>9, <1>10, <1>11, <1>12, <1>13, <1>14, <1>15, <1>16, <1>17,
     <1>18, <1>19
  DEF Next

\* Every field of queue, gate, bridges and threads keeps its type, and no render
\* outlasts the ceiling of the bridge.
THEOREM TipoCorretto == Spec => []TypeOK
<1>1. Tipi /\ G!TypeOK => TypeOK
  <2> SUFFICES ASSUME Tipi, G!TypeOK PROVE TypeOK
    OBVIOUS
  <2>1. ASSUME NEW p \in Ponte
        PROVE  ponte[p].pc \in FasiPonte /\ (~In(p, "libero") => ponte[p].lavoro \in JobId)
    <3>1. ponte[p] = Fermo \/ ponte[p] \in [pc : FasiPonte \ {"libero"}, lavoro : JobId]
      BY DEF Tipi, StatiPonte
    <3> QED BY <3>1 DEF In, Fermo, FasiPonte
  <2>2. ASSUME NEW j \in JobId
        PROVE  richiesta[j].fase \in FasiRichiesta /\ rapporto[j].fase \in FasiRapporto
    <3>1. /\ richiesta[j] = NessunThread \/ richiesta[j] \in [fase : FasiRichiesta \ {"no"}, per : Ponte]
          /\ rapporto[j] = NessunThread \/ rapporto[j] \in [fase : FasiRapporto \ {"no"}, per : Ponte]
      BY DEF Tipi, Richieste, Rapporti
    <3> QED BY <3>1 DEF NessunThread, FasiRichiesta, FasiRapporto
  <2> QED BY <2>1, <2>2 DEF Tipi, TypeOK
<1> QED BY <1>1, TipiInit, TipiNext, PTL DEF Spec

\* Whatever routes, bridges, lost replies and crashes do, the queue sees nothing
\* but its own operations on a disk that can be written: everything proved of
\* ImageQueue holds of the whole system.
THEOREM CodaNelSistema == Spec => Q!Spec
<1>1. Init => Q!Init
  BY DEF Init
<1> QED BY <1>1, TipiInit, TipiNext, PassoCoda, PTL DEF Spec, Q!Spec

\* The system never lets more than max_jobs jobs wait or run.
THEOREM TettoNelSistema == Spec => []Q!AttiviEntroTetto
<1>1. Q!Spec => QP!Spec
  BY StessaCoda, PTL DEF Q!Spec, QP!Spec
<1>2. QP!AttiviEntroTetto => Q!AttiviEntroTetto
  BY Zenon DEF QP!AttiviEntroTetto, Q!AttiviEntroTetto, QP!AttiviDi, Q!AttiviDi, QP!Attivo, Q!Attivo,
         QP!Cardinality, Q!Cardinality
<1>3. QP!Spec => []QP!AttiviEntroTetto
  BY QP!TettoMaiSuperato, AssunzioniCoda
<1> QED BY <1>1, <1>2, <1>3, CodaNelSistema, PTL

-----------------------------------------------------------------------------
(* The claims.  A bridge that has just been given a job, and the thread that *)
(* gave it, hold a claim of age 0: time does not pass before the render.     *)

SulLavoro(p, j) == ~In(p, "libero") /\ ponte[p].lavoro = j

\* between the answer and the render, or the deferral
Appena(p, j) == SulLavoro(p, j) /\ ponte[p].pc \in {"chiede", "prepara", "rinvia", "rinviato"}

Finito(j) == job[j].stato \in {"done", "failed", "potato"}

ClaimNuovo(j) == Finito(j) \/ (job[j].stato = "running" /\ job[j].presa = 0)

LavoroAccettato(j) == \A p \in Ponte : SulLavoro(p, j) => job[j].stato # "mai"

ClaimDelPonte(j) ==
  /\ \A p \in Ponte : Appena(p, j) => ClaimNuovo(j)
  /\ \A p, q \in Ponte : Appena(p, j) /\ Appena(q, j) => p = q

\* Only the bridge a request serves may hold its job, and it still waits.
ClaimDellaRichiesta(j) ==
  richiesta[j].fase # "no" =>
    /\ ClaimNuovo(j)
    /\ \A p \in Ponte : Appena(p, j) => p = richiesta[j].per /\ In(p, "chiede")

Rendono(p, j) == In(p, "rende") /\ ponte[p].lavoro = j

\* A render has a claim no older than itself, that nobody else holds.
ClaimDelRender(j) ==
  /\ \A p \in Ponte : Rendono(p, j) =>
       /\ Finito(j) \/ (job[j].stato = "running" /\ job[j].presa <= durata[p])
       /\ richiesta[j].fase = "no"
  /\ \A p, q \in Ponte : Rendono(p, j) /\ (Rendono(q, j) \/ Appena(q, j)) => p = q

\* An image is published after its job is concluded, by the one thread that did it.
UnaPubblicazione(j) ==
  /\ rapporto[j].fase # "no" => Finito(j) /\ effetti[j] = 0
  /\ ~Finito(j) => effetti[j] = 0
  /\ effetti[j] <= 1

InvJob(j) ==
  /\ LavoroAccettato(j) /\ ClaimDelPonte(j) /\ ClaimDellaRichiesta(j) /\ UnaPubblicazione(j)
  /\ Esecuzione <= ClaimTtl => ClaimDelRender(j)

\* The file holds what the memory holds: a restart takes nothing back.
FileFedele == disco = Q!Immagine(job, storico)

IInv == Tipi /\ G!TypeOK /\ FileFedele /\ \A j \in JobId : InvJob(j)

\* What may happen to a job while others are served: its claim lapses if it is
\* old, the job vanishes if it is.
Segue(j) ==
  /\ job[j].stato = "mai" <=> job'[j].stato = "mai"
  /\ Finito(j) => Finito(j)'
  /\ job[j].stato = "running" /\ job[j].presa <= ClaimTtl =>
       Finito(j)' \/ (job'[j].stato = "running" /\ job'[j].presa = job[j].presa)

LEMMA PotatoEsito ==
  ASSUME NEW r \in Q!JobRec
  PROVE  \/ Q!Potato(r) = r
         \/ r.stato # "mai" /\ Q!Potato(r).stato = "potato"
         \/ r.stato = "running" /\ ~(r.presa <= ClaimTtl) /\ Q!Potato(r).stato = "pending"
<1>1. Q!Rimosso(r).stato = "potato"
  BY DEF Q!Rimosso, Q!JobRec
<1>2. [r EXCEPT !.stato = "pending", !.presa = 0].stato = "pending"
  BY DEF Q!JobRec
<1>3. r.presa \in Nat /\ ClaimTtl \in Nat
  BY ImagePipelineAssumption DEF Q!JobRec
<1> QED BY <1>1, <1>2, <1>3 DEF Q!Potato, Q!Attivo, Q!Concluso

LEMMA PotaTipo == Tipi => Q!Pota(job) \in [JobId -> Q!JobRec]
<1> SUFFICES ASSUME Tipi PROVE Q!Pota(job) \in [JobId -> Q!JobRec]
  OBVIOUS
<1>1. QP!Pota(job) \in [JobId -> QP!JobRec]
  <2>1. job \in [JobId -> QP!JobRec]
    BY StessaCoda DEF Tipi, QP!TypeOK
  <2> QED BY <2>1, AssunzioniCoda, QP!PotaTipo
<1>2. Q!JobRec = QP!JobRec
  BY DEF Q!JobRec, QP!JobRec, Q!Stati, QP!Stati
<1>3. Q!Pota(job) = QP!Pota(job)
  BY DEF Q!Pota, QP!Pota, Q!Potato, QP!Potato, Q!Rimosso, QP!Rimosso, Q!Attivo, QP!Attivo,
         Q!Concluso, QP!Concluso
<1> QED BY <1>1, <1>2, <1>3

LEMMA PotatoSegue ==
  ASSUME Tipi, NEW j \in JobId, job'[j] \in {job[j], Q!Potato(job[j])}
  PROVE  Segue(j)
<1>1. job[j] \in Q!JobRec
  BY DEF Tipi, Q!TypeOK
<1> QED BY <1>1, PotatoEsito DEF Segue, Finito

\* Nobody acts on a job: its threads, if they are not ended, stay those they were,
\* and no bridge comes to it.
Ignorato(j) ==
  /\ Segue(j)
  /\ effetti'[j] = effetti[j]
  /\ rapporto'[j].fase # "no" => rapporto[j].fase # "no"
  /\ richiesta'[j].fase # "no" => richiesta[j].fase # "no" /\ richiesta'[j].per = richiesta[j].per
  /\ \A p \in Ponte :
       /\ SulLavoro(p, j)' => SulLavoro(p, j)
       /\ Appena(p, j)' => Appena(p, j)
       /\ Appena(p, j)' /\ In(p, "chiede") /\ richiesta'[j].fase # "no" => In(p, "chiede")'
       /\ Rendono(p, j)' => Rendono(p, j) /\ durata'[p] = durata[p]

LEMMA IgnoratoConserva ==
  ASSUME Tipi, NEW j \in JobId, InvJob(j), Ignorato(j)
  PROVE  InvJob(j)'
<1>1. ClaimNuovo(j) => ClaimNuovo(j)'
  BY ImagePipelineAssumption DEF ClaimNuovo, Finito, Ignorato, Segue
<1>2. LavoroAccettato(j)'
  BY DEF LavoroAccettato, InvJob, Ignorato, Segue
<1>3. ClaimDelPonte(j)'
  BY <1>1 DEF ClaimDelPonte, InvJob, Ignorato
<1>4. ClaimDellaRichiesta(j)'
  BY <1>1 DEF ClaimDellaRichiesta, InvJob, Ignorato
<1>5. UnaPubblicazione(j)'
  BY DEF UnaPubblicazione, InvJob, Ignorato, Segue, Finito
<1>6. ASSUME Esecuzione <= ClaimTtl PROVE ClaimDelRender(j)'
  <2>1. ClaimDelRender(j)
    BY <1>6 DEF InvJob
  <2>2. ASSUME NEW p \in Ponte, Rendono(p, j)
        PROVE  Finito(j)' \/ (job'[j].stato = "running" /\ job'[j].presa <= durata[p])
    <3>1. Finito(j) \/ (job[j].stato = "running" /\ job[j].presa <= durata[p])
      BY <2>1, <2>2 DEF ClaimDelRender
    <3>2. durata[p] \in 0..Esecuzione /\ job[j] \in Q!JobRec
      BY DEF Tipi, Q!TypeOK
    <3>3. job[j].presa <= durata[p] => job[j].presa <= ClaimTtl
      BY <1>6, <3>2, ImagePipelineAssumption DEF Q!JobRec
    <3> QED BY <3>1, <3>3 DEF Ignorato, Segue
  <2> QED BY <2>1, <2>2 DEF ClaimDelRender, Ignorato, Finito
<1> QED BY <1>2, <1>3, <1>4, <1>5, <1>6 DEF InvJob

-----------------------------------------------------------------------------
(* What each operation of the queue does to each job. *)

Potati(S) == \A k \in S : job'[k] \in {job[k], Q!Potato(job[k])}

LEMMA LeggeEffetto ==
  ASSUME Tipi, FileFedele, Q!Legge
  PROVE  Potati(JobId) /\ FileFedele'
BY DEF Tipi, Q!TypeOK, Q!Legge, Q!Pota, Q!Scritture, FileFedele, Potati

LEMMA AccodaEffetto ==
  ASSUME Tipi, FileFedele, NEW j \in JobId, Q!Accoda(j)
  PROVE  /\ job[j].stato = "mai" /\ job'[j].stato = "pending"
         /\ Potati(JobId \ {j}) /\ FileFedele'
<1>1. job[j] \in Q!JobRec /\ Q!Pota(job)[j] = job[j]
  BY DEF Tipi, Q!TypeOK, Q!Accoda, Q!Nuovo, Q!Pota, Q!Potato, Q!Attivo, Q!Concluso
<1>2. job'[j] = [job[j] EXCEPT !.stato = "pending"]
  BY <1>1 DEF Q!Accoda, Q!Nuovo, Q!Pota
<1>3. job'[j].stato = "pending"
  BY <1>1, <1>2 DEF Q!JobRec
<1>4. Potati(JobId \ {j})
  BY DEF Q!Accoda, Q!Nuovo, Q!Pota, Potati
<1>5. FileFedele'
  BY DEF Q!Accoda, Q!PotaEScrive, Q!Scritture, FileFedele
<1> QED BY <1>3, <1>4, <1>5 DEF Q!Accoda

LEMMA ProssimoEffetto ==
  ASSUME Tipi, FileFedele, NEW j \in JobId, NEW caps, Q!Prossimo(caps, j)
  PROVE  /\ FamigliaDi[j] \in caps
         /\ job[j].stato = "pending" \/ (job[j].stato = "running" /\ ~(job[j].presa <= ClaimTtl))
         /\ job'[j].stato = "running" /\ job'[j].presa = 0
         /\ Potati(JobId \ {j}) /\ FileFedele'
<1>1. job[j] \in Q!JobRec /\ Q!Pota(job) \in [JobId -> Q!JobRec]
  BY PotaTipo DEF Tipi, Q!TypeOK
<1>2. Q!Pota(job)[j].stato = "pending" /\ FamigliaDi[j] \in caps
  BY DEF Q!Prossimo, Q!PiuVecchi, Q!Candidati
<1>3. Q!Pota(job)[j] = Q!Potato(job[j])
  BY DEF Q!Pota
<1>4. job[j].stato = "pending" \/ (job[j].stato = "running" /\ ~(job[j].presa <= ClaimTtl))
  BY <1>1, <1>2, <1>3, PotatoEsito
<1>5. job'[j] = [Q!Pota(job)[j] EXCEPT !.stato = "running", !.presa = 0]
  BY <1>1 DEF Q!Prossimo
<1>6. job'[j].stato = "running" /\ job'[j].presa = 0
  BY <1>1, <1>5 DEF Q!JobRec
<1>7. Potati(JobId \ {j})
  BY DEF Q!Prossimo, Q!Pota, Potati
<1>8. FileFedele'
  BY DEF Q!Prossimo, Q!PotaEScrive, Q!Scritture, FileFedele
<1> QED BY <1>2, <1>4, <1>6, <1>7, <1>8

LEMMA ConcludiEffetto ==
  ASSUME Tipi, FileFedele, NEW j \in JobId, NEW ok \in BOOLEAN, Q!Concludi(j, ok)
  PROVE  /\ ~Finito(j) /\ job[j].stato # "mai" /\ Finito(j)'
         /\ \A k \in JobId \ {j} : job'[k] = job[k]
         /\ FileFedele'
<1>1. job \in [JobId -> Q!JobRec]
  BY DEF Tipi, Q!TypeOK
<1>2. job'[j] = [job[j] EXCEPT !.stato = IF ok THEN "done" ELSE "failed", !.presa = 0]
  BY <1>1 DEF Q!Concludi
<1>3. job'[j].stato \in {"done", "failed"}
  BY <1>1, <1>2 DEF Q!JobRec
<1>4. FileFedele'
  BY DEF Q!Concludi, Q!Scritture, FileFedele
<1> QED BY <1>1, <1>3, <1>4 DEF Q!Concludi, Q!Attivo, Finito

LEMMA RinviaEffetto ==
  ASSUME Tipi, FileFedele, NEW j \in JobId, Q!Rinvia(j)
  PROVE  /\ job[j].stato = "running" /\ job'[j].stato = "pending"
         /\ \A k \in JobId \ {j} : job'[k] = job[k]
         /\ FileFedele'
<1>1. job \in [JobId -> Q!JobRec]
  BY DEF Tipi, Q!TypeOK
<1>2. job'[j] = [job[j] EXCEPT !.stato = "pending", !.presa = 0]
  BY <1>1 DEF Q!Rinvia
<1>3. job'[j].stato = "pending"
  BY <1>1, <1>2 DEF Q!JobRec
<1>4. FileFedele'
  BY DEF Q!Rinvia, Q!Scritture, FileFedele
<1> QED BY <1>1, <1>3, <1>4 DEF Q!Rinvia

\* The file is the memory, so a restart prunes and does nothing else.
LEMMA RiavviaEffetto ==
  ASSUME Tipi, FileFedele, Q!Riavvia
  PROVE  Potati(JobId) /\ FileFedele'
<1>1. disco.job = job /\ disco.storico = storico
  BY DEF FileFedele, Q!Immagine
<1>2. Potati(JobId)
  BY <1>1 DEF Q!Riavvia, Q!Ripreso, Potati
<1>3. FileFedele'
  BY DEF Q!Riavvia, Q!Scritture, FileFedele
<1> QED BY <1>2, <1>3

\* Time changes ages only.
LEMMA TempoEffetto ==
  ASSUME Tipi, FileFedele, Q!Tick
  PROVE  /\ \A k \in JobId :
              /\ job'[k].stato = job[k].stato
              /\ job[k].presa \in Nat /\ job'[k].presa \in Nat /\ job'[k].presa <= job[k].presa + 1
         /\ FileFedele'
<1>1. \A k \in JobId : job'[k] = Q!Invecchia(job[k]) /\ job[k] \in Q!JobRec
  BY DEF Tipi, Q!TypeOK, Q!Tick, Q!Invecchiati
<1>2. ASSUME NEW k \in JobId
      PROVE  /\ job'[k].stato = job[k].stato
             /\ job[k].presa \in Nat /\ job'[k].presa \in Nat /\ job'[k].presa <= job[k].presa + 1
  <2>1. /\ job[k].presa \in 0..ClaimTtl + 1 /\ ClaimTtl \in Nat
        /\ job'[k].stato = job[k].stato
        /\ job'[k].presa = IF job[k].stato = "running" THEN Q!Sale(job[k].presa, ClaimTtl + 1)
                                                      ELSE job[k].presa
    BY <1>1, ImagePipelineAssumption DEF Q!Invecchia, Q!JobRec
  <2> QED BY <2>1 DEF Q!Sale
<1>3. disco' = [disco EXCEPT !.job = Q!Invecchiati(disco.job)] /\ storico' = storico
  BY DEF Q!Tick
<1>4. FileFedele'
  BY <1>3 DEF FileFedele, Q!Immagine, Q!Tick
<1> QED BY <1>2, <1>4

-----------------------------------------------------------------------------
(* The invariant of the claims, action by action.                            *)

\* The bridges do nothing, or some of them give up what they were doing.
Lasciano ==
  \A p \in Ponte : (ponte'[p] = ponte[p] /\ durata'[p] = durata[p]) \/ ponte'[p].pc = "libero"

\* A job that nobody renders owes nothing to a render.
LEMMA NessunoRende ==
  ASSUME NEW j \in JobId, \A p \in Ponte : ~Rendono(p, j)'
  PROVE  ClaimDelRender(j)'
BY DEF ClaimDelRender

LEMMA LascianoIgnora ==
  ASSUME Tipi, Lasciano, NEW j \in JobId, Segue(j), effetti'[j] = effetti[j],
         rapporto'[j].fase # "no" => rapporto[j].fase # "no",
         richiesta'[j].fase # "no" =>
           richiesta[j].fase # "no" /\ richiesta'[j].per = richiesta[j].per
  PROVE  Ignorato(j)
BY DEF Ignorato, Lasciano, SulLavoro, Appena, Rendono, In

LEMMA FermoIgnora ==
  ASSUME Tipi, Lasciano, Potati(JobId), UNCHANGED threadvars
  PROVE  \A j \in JobId : Ignorato(j)
BY LascianoIgnora, PotatoSegue DEF Potati, threadvars

LEMMA UgualeSegue ==
  ASSUME Tipi, NEW j \in JobId, job'[j] = job[j]
  PROVE  Segue(j)
BY PotatoSegue

LEMMA UgualePotati == UNCHANGED codavars => Potati(JobId) /\ (FileFedele => FileFedele')
BY DEF codavars, Potati, FileFedele, Q!Immagine

LEMMA IInvInit == Init => IInv
<1> SUFFICES ASSUME Init PROVE IInv
  OBVIOUS
<1>1. FileFedele
  BY DEF Init, Q!Init, FileFedele
<1>2. ASSUME NEW j \in JobId PROVE InvJob(j)
  BY DEF Init, Q!Init, Q!Vuoto, InvJob, LavoroAccettato, ClaimDelPonte, ClaimDellaRichiesta,
         UnaPubblicazione, ClaimDelRender, SulLavoro, Appena, Rendono, Finito, In, Fermo,
         NessunThread
<1> QED BY <1>1, <1>2, TipiInit DEF IInv

\* A claim is given for a job that nobody holds any more.
LEMMA PassoChiede ==
  ASSUME IInv, NEW p \in Ponte, NEW j \in JobId, Chiede(p, j)
  PROVE  FileFedele' /\ \A k \in JobId : InvJob(k)'
<1>1. /\ job[j].stato = "pending" \/ (job[j].stato = "running" /\ ~(job[j].presa <= ClaimTtl))
      /\ job'[j].stato = "running" /\ job'[j].presa = 0
      /\ Potati(JobId \ {j}) /\ FileFedele'
  BY ProssimoEffetto DEF IInv, Chiede
<1>2. ~ClaimNuovo(j)
  BY <1>1, ImagePipelineAssumption DEF ClaimNuovo, Finito
<1>3. (\A q \in Ponte : ~Appena(q, j)) /\ richiesta[j].fase = "no"
  BY <1>2 DEF IInv, InvJob, ClaimDelPonte, ClaimDellaRichiesta
<1>4. rapporto[j].fase = "no" /\ effetti[j] = 0
  BY <1>1 DEF IInv, InvJob, UnaPubblicazione, Finito
<1>5. /\ ponte'[p] = [pc |-> "chiede", lavoro |-> j]
      /\ \A q \in Ponte \ {p} : ponte'[q] = ponte[q]
      /\ richiesta'[j].per = p /\ \A k \in JobId \ {j} : richiesta'[k] = richiesta[k]
      /\ UNCHANGED <<rapporto, effetti, durata>>
  BY DEF IInv, Tipi, Chiede
<1>6. ASSUME Esecuzione <= ClaimTtl PROVE ClaimDelRender(j)'
  <2>1. ASSUME NEW q \in Ponte PROVE ~Rendono(q, j)
    <3>1. durata[q] \in 0..Esecuzione /\ job[j] \in Q!JobRec
      BY DEF IInv, Tipi, Q!TypeOK
    <3>2. Rendono(q, j) => job[j].stato = "running" /\ job[j].presa <= durata[q]
      BY <1>1, <1>6 DEF IInv, InvJob, ClaimDelRender, Finito
    <3> QED BY <1>1, <1>6, <3>1, <3>2, ImagePipelineAssumption DEF Q!JobRec
  <2> QED BY <1>5, <2>1, NessunoRende DEF Rendono, In
<1>7. InvJob(j)'
  BY <1>1, <1>3, <1>4, <1>5, <1>6
     DEF InvJob, LavoroAccettato, ClaimDelPonte, ClaimDellaRichiesta, UnaPubblicazione, ClaimNuovo,
         SulLavoro, Appena, Finito, In
<1>8. ASSUME NEW k \in JobId \ {j} PROVE Ignorato(k)
  <2>1. Segue(k)
    BY <1>1, PotatoSegue DEF Potati, IInv
  <2> QED BY <1>5, <2>1 DEF Ignorato, SulLavoro, Appena, Rendono, In
<1> QED BY <1>1, <1>7, <1>8, IgnoratoConserva DEF IInv

\* The thread of a request: only a refusal touches the job, which then nobody holds.
LEMMA PassoRichiesta ==
  ASSUME IInv, NEW j \in JobId,
         Riserva(j) \/ RiservaAttende(j) \/ Rifiuta(j) \/ Risponde(j)
  PROVE  FileFedele' /\ \A k \in JobId : InvJob(k)'
<1> USE DEF IInv, threadvars
<1>1. ASSUME Riserva(j) \/ RiservaAttende(j), NEW k \in JobId
      PROVE  FileFedele' /\ Ignorato(k)
  <2>1. UNCHANGED <<codavars, ponte, durata, rapporto, effetti>>
    BY <1>1 DEF Riserva, RiservaAttende
  <2>2. /\ richiesta'[k].fase # "no" => richiesta[k].fase # "no"
        /\ richiesta'[k].per = richiesta[k].per
    BY <1>1, PassaEffetto DEF Riserva, RiservaAttende, FasiRichiesta, Tipi
  <2> QED BY <2>1, <2>2, UgualePotati, UgualeSegue, LascianoIgnora DEF Lasciano, codavars
<1>2. ASSUME Risponde(j), NEW k \in JobId PROVE FileFedele' /\ Ignorato(k)
  <2>1. /\ UNCHANGED codavars /\ UNCHANGED <<durata, rapporto, effetti>>
        /\ richiesta'[j].fase = "no" /\ \A i \in JobId \ {j} : richiesta'[i] = richiesta[i]
    BY <1>2 DEF Risponde, Tipi, NessunThread
  <2>2. richiesta[j].per \in Ponte
    BY <1>2 DEF Risponde, Tipi, Richieste, NessunThread
  <2>3. ASSUME NEW p \in Ponte
        PROVE  \/ ponte'[p] = ponte[p]
               \/ /\ p = richiesta[j].per /\ ponte[p].lavoro = j /\ ponte[p].pc = "chiede"
                  /\ ponte'[p].pc = "prepara" /\ ponte'[p].lavoro = j
    BY <1>2, <2>2, VaEffetto DEF Risponde, Aspetta, Tipi, In, FasiPonte
  <2>4. Segue(k)
    BY <2>1, UgualeSegue DEF codavars
  <2> QED BY <2>1, <2>3, <2>4, UgualePotati DEF Ignorato, SulLavoro, Appena, Rendono, In
<1>3. ASSUME Rifiuta(j) PROVE FileFedele' /\ \A k \in JobId : InvJob(k)'
  <2>1. /\ \A k \in JobId \ {j} : job'[k] = job[k]
        /\ job'[j] = job[j] \/ (job[j].stato = "running" /\ job'[j].stato = "pending")
        /\ FileFedele'
    BY <1>3, RinviaEffetto, UgualePotati DEF Rifiuta, codavars
  <2>2. /\ UNCHANGED <<rapporto, effetti>>
        /\ richiesta'[j].fase = "no" /\ \A i \in JobId \ {j} : richiesta'[i] = richiesta[i]
    BY <1>3 DEF Rifiuta, Tipi, NessunThread
  <2>3. richiesta[j].per \in Ponte
    BY <1>3 DEF Rifiuta, Tipi, Richieste, NessunThread
  <2>4. Lasciano /\ (Aspetta(j) => ponte'[richiesta[j].per].pc = "libero")
    BY <1>3, <2>3, SmetteEffetto DEF Rifiuta, Lasciano, Tipi
  <2>5. ASSUME NEW p \in Ponte PROVE ~Appena(p, j)'
    <3>1. Appena(p, j) => p = richiesta[j].per /\ In(p, "chiede")
      BY <1>3 DEF InvJob, ClaimDellaRichiesta, Rifiuta
    <3>2. Appena(p, j) => Aspetta(j)
      <4>1. ponte[p] \in StatiPonte
        BY DEF Tipi
      <4>2. Appena(p, j) => ponte[p] = [pc |-> "chiede", lavoro |-> j]
        BY <3>1, <4>1 DEF Appena, SulLavoro, In, StatiPonte, Fermo
      <4> QED BY <3>1, <4>2 DEF Aspetta
    <3> QED BY <2>4, <3>1, <3>2 DEF Lasciano, Appena, SulLavoro, In
  <2>6. \A p \in Ponte : SulLavoro(p, j)' => SulLavoro(p, j)
    BY <2>4 DEF Lasciano, SulLavoro, In
  <2>7. ASSUME Esecuzione <= ClaimTtl PROVE ClaimDelRender(j)'
    <3>1. \A p \in Ponte : ~Rendono(p, j)
      BY <1>3, <2>7 DEF Rifiuta, InvJob, ClaimDelRender
    <3> QED BY <2>4, <3>1, NessunoRende DEF Lasciano, Rendono, In
  <2>8. InvJob(j)'
    BY <2>1, <2>2, <2>5, <2>6, <2>7
       DEF InvJob, LavoroAccettato, ClaimDelPonte, ClaimDellaRichiesta, UnaPubblicazione, Finito
  <2>9. ASSUME NEW k \in JobId \ {j} PROVE Ignorato(k)
    BY <2>1, <2>2, <2>4, UgualeSegue, LascianoIgnora
  <2> QED BY <2>1, <2>8, <2>9, IgnoratoConserva
<1> QED BY <1>1, <1>2, <1>3, IgnoratoConserva

\* The bridge with its job: it keeps the claim it has, or gives it up with the job.
LEMMA PassoPonte ==
  ASSUME IInv, NEW p \in Ponte,
         \/ PonteNonAspetta(p) \/ Rende(p) \/ NonPronto(p) \/ FineRender(p)
         \/ RinviaGate(p) \/ RinviaCoda(p) \/ RinvioPerso(p) \/ CadePonte(p)
         \/ RiferisceDoppione(p)
  PROVE  FileFedele' /\ \A k \in JobId : InvJob(k)'
<1> USE DEF IInv
<1>1. ASSUME PonteNonAspetta(p) \/ RinvioPerso(p) \/ CadePonte(p) \/ RiferisceDoppione(p)
      PROVE  FileFedele' /\ \A k \in JobId : Ignorato(k)
  <2>1. /\ UNCHANGED codavars /\ UNCHANGED threadvars
        /\ \A q \in Ponte \ {p} : durata'[q] = durata[q]
        /\ UNCHANGED durata \/ Smette(p)
    BY <1>1 DEF PonteNonAspetta, RinvioPerso, CadePonte, RiferisceDoppione, Tipi
  <2>2. Lasciano
    BY <1>1, <2>1, SmetteEffetto
       DEF Lasciano, Tipi, PonteNonAspetta, RinvioPerso, CadePonte, RiferisceDoppione
  <2> QED BY <2>1, <2>2, UgualePotati, FermoIgnora
<1>2. ASSUME NonPronto(p) \/ FineRender(p) \/ RinviaGate(p)
      PROVE  FileFedele' /\ \A k \in JobId : Ignorato(k)
  <2>1. /\ UNCHANGED codavars /\ UNCHANGED threadvars
        /\ \A q \in Ponte \ {p} : durata'[q] = durata[q]
    BY <1>2 DEF NonPronto, FineRender, RinviaGate, Tipi
  <2>2. /\ ponte'[p].lavoro = ponte[p].lavoro /\ ~In(p, "libero") /\ ~In(p, "chiede")
        /\ ponte'[p].pc \in {"rinvia", "rinviato"} => ponte[p].pc \in {"prepara", "rinvia"}
        /\ ponte'[p].pc \in {"rinvia", "riferisce", "rinviato"}
        /\ \A q \in Ponte \ {p} : ponte'[q] = ponte[q]
    BY <1>2, VaEffetto DEF NonPronto, FineRender, RinviaGate, In, FasiPonte, Tipi
  <2>3. \A k \in JobId : Segue(k)
    BY <2>1, UgualeSegue DEF codavars
  <2> QED BY <2>1, <2>2, <2>3, UgualePotati DEF Ignorato, SulLavoro, Appena, Rendono, In, threadvars
<1>3. ASSUME Rende(p) PROVE FileFedele' /\ \A k \in JobId : InvJob(k)'
  <2>1. PICK j \in JobId : j = ponte[p].lavoro
    BY <1>3, LavoroTipo DEF Rende, In, Tipi
  <2>2. /\ UNCHANGED codavars /\ UNCHANGED <<richiesta, rapporto, effetti>>
        /\ durata'[p] = 0 /\ \A q \in Ponte \ {p} : durata'[q] = durata[q]
    BY <1>3 DEF Rende, Tipi, threadvars
  <2>3. /\ ponte[p].pc = "prepara" /\ ponte'[p].pc = "rende" /\ ponte'[p].lavoro = j
        /\ \A q \in Ponte \ {p} : ponte'[q] = ponte[q]
    BY <1>3, <2>1, VaEffetto DEF Rende, In, FasiPonte, Tipi
  <2>4. Appena(p, j)
    BY <2>1, <2>3 DEF Appena, SulLavoro, In
  <2>5. ClaimNuovo(j) /\ richiesta[j].fase = "no" /\ \A q \in Ponte : Appena(q, j) => q = p
    BY <2>3, <2>4 DEF InvJob, ClaimDellaRichiesta, ClaimDelPonte, In
  <2>6. ASSUME Esecuzione <= ClaimTtl PROVE ClaimDelRender(j)'
    <3>1. \A q \in Ponte : ~Rendono(q, j)
      BY <2>3, <2>4, <2>6 DEF InvJob, ClaimDelRender, Rendono, In
    <3>2. \A q \in Ponte : (Rendono(q, j)' => q = p) /\ ~Appena(q, j)'
      BY <2>3, <2>5, <3>1 DEF Rendono, Appena, SulLavoro, In
    <3>3. Finito(j)' \/ (job'[j].stato = "running" /\ job'[j].presa <= durata'[p])
      BY <2>2, <2>5 DEF ClaimNuovo, Finito, codavars
    <3> QED BY <2>2, <2>5, <3>2, <3>3 DEF ClaimDelRender
  <2>7. InvJob(j)'
    BY <2>2, <2>3, <2>4, <2>5, <2>6
       DEF InvJob, LavoroAccettato, ClaimDelPonte, ClaimDellaRichiesta, UnaPubblicazione, Finito,
           Appena, SulLavoro, In, codavars
  <2>8. ASSUME NEW k \in JobId \ {j} PROVE Ignorato(k)
    <3>1. Segue(k)
      BY <2>2, UgualeSegue DEF codavars
    <3> QED BY <2>1, <2>2, <2>3, <3>1 DEF Ignorato, SulLavoro, Appena, Rendono, In
  <2> QED BY <2>2, <2>7, <2>8, UgualePotati, IgnoratoConserva
<1>4. ASSUME RinviaCoda(p) PROVE FileFedele' /\ \A k \in JobId : InvJob(k)'
  <2>1. PICK j \in JobId : j = ponte[p].lavoro
    BY <1>4, LavoroTipo DEF RinviaCoda, In, Tipi
  <2>2. /\ \A k \in JobId \ {j} : job'[k] = job[k]
        /\ job'[j] = job[j] \/ (job[j].stato = "running" /\ job'[j].stato = "pending")
        /\ FileFedele'
    BY <1>4, <2>1, RinviaEffetto, UgualePotati DEF RinviaCoda, codavars
  <2>3. UNCHANGED <<richiesta, rapporto, effetti, durata>>
    BY <1>4 DEF RinviaCoda, threadvars
  <2>4. Lasciano /\ ponte'[p].pc = "libero"
    BY <1>4, SmetteEffetto DEF RinviaCoda, Lasciano, Tipi
  <2>5. Appena(p, j) /\ ~In(p, "chiede")
    BY <1>4, <2>1 DEF RinviaCoda, Appena, SulLavoro, In
  <2>6. richiesta[j].fase = "no" /\ \A q \in Ponte : Appena(q, j) => q = p
    BY <2>1, <2>5 DEF InvJob, ClaimDellaRichiesta, ClaimDelPonte
  <2>7. \A q \in Ponte : ~Appena(q, j)' /\ (SulLavoro(q, j)' => SulLavoro(q, j))
    BY <2>4, <2>6 DEF Lasciano, Appena, SulLavoro, In
  <2>8. ASSUME Esecuzione <= ClaimTtl PROVE ClaimDelRender(j)'
    <3>1. \A q \in Ponte : ~Rendono(q, j)
      BY <1>4, <2>5, <2>8 DEF RinviaCoda, InvJob, ClaimDelRender, Rendono, In
    <3> QED BY <2>4, <3>1, NessunoRende DEF Lasciano, Rendono, In
  <2>9. InvJob(j)'
    BY <2>2, <2>3, <2>6, <2>7, <2>8
       DEF InvJob, LavoroAccettato, ClaimDelPonte, ClaimDellaRichiesta, UnaPubblicazione, Finito
  <2>10. ASSUME NEW k \in JobId \ {j} PROVE Ignorato(k)
    BY <2>2, <2>3, <2>4, UgualeSegue, LascianoIgnora
  <2> QED BY <2>2, <2>9, <2>10, IgnoratoConserva
<1>5. \A k \in JobId : Ignorato(k) => InvJob(k)'
  BY IgnoratoConserva
<1> QED BY <1>1, <1>2, <1>3, <1>4, <1>5

\* The thread of a report: it concludes the job, and publishes it once.
LEMMA PassoRapporto ==
  ASSUME IInv,
         \/ \E p \in Ponte, ok \in BOOLEAN : Riferisce(p, ok)
         \/ \E j \in JobId : RapportoCoda(j) \/ RapportoGate(j) \/ RapportoEffetti(j)
  PROVE  FileFedele' /\ \A k \in JobId : InvJob(k)'
<1> USE DEF IInv
<1>1. ASSUME NEW p \in Ponte, NEW ok \in BOOLEAN, Riferisce(p, ok)
      PROVE  FileFedele' /\ \A k \in JobId : InvJob(k)'
  <2>1. PICK j \in JobId : j = ponte[p].lavoro
    BY <1>1, LavoroTipo DEF Riferisce, In, Tipi
  <2>2. /\ ~Finito(j) /\ job[j].stato # "mai" /\ Finito(j)'
        /\ \A k \in JobId \ {j} : job'[k] = job[k]
        /\ FileFedele'
    BY <1>1, <2>1, ConcludiEffetto DEF Riferisce
  <2>3. /\ UNCHANGED <<ponte, durata, richiesta, effetti>>
        /\ \A k \in JobId \ {j} : rapporto'[k] = rapporto[k]
    BY <1>1, <2>1 DEF Riferisce, Tipi
  <2>4. ClaimDelRender(j) => ClaimDelRender(j)'
    BY <2>2, <2>3 DEF ClaimDelRender, Rendono, Appena, SulLavoro, In
  <2>5. InvJob(j)'
    BY <2>2, <2>3, <2>4
       DEF InvJob, LavoroAccettato, ClaimDelPonte, ClaimDellaRichiesta, UnaPubblicazione,
           ClaimNuovo, Finito, Appena, SulLavoro, In
  <2>6. ASSUME NEW k \in JobId \ {j} PROVE Ignorato(k)
    BY <2>2, <2>3, UgualeSegue, LascianoIgnora DEF Lasciano
  <2> QED BY <2>2, <2>5, <2>6, IgnoratoConserva
<1>2. ASSUME NEW j \in JobId, RapportoCoda(j) \/ RapportoGate(j)
      PROVE  FileFedele' /\ \A k \in JobId : Ignorato(k)
  <2>1. Potati(JobId) /\ FileFedele'
    BY <1>2, LeggeEffetto, UgualePotati DEF RapportoCoda, RapportoGate, codavars
  <2>2. /\ UNCHANGED <<ponte, durata, richiesta, effetti>>
        /\ \A k \in JobId : rapporto'[k].fase # "no" => rapporto[k].fase # "no"
    BY <1>2, AvanzaEffetto DEF RapportoCoda, RapportoGate, FasiRapporto, Tipi
  <2> QED BY <2>1, <2>2, PotatoSegue, LascianoIgnora DEF Lasciano, Potati
<1>3. ASSUME NEW j \in JobId, RapportoEffetti(j)
      PROVE  FileFedele' /\ \A k \in JobId : InvJob(k)'
  <2>1. UNCHANGED codavars /\ UNCHANGED <<richiesta, durata>>
    BY <1>3 DEF RapportoEffetti
  <2>2. /\ rapporto'[j].fase = "no" /\ \A k \in JobId \ {j} : rapporto'[k] = rapporto[k]
        /\ effetti'[j] = effetti[j] + 1 /\ \A k \in JobId \ {j} : effetti'[k] = effetti[k]
    BY <1>3 DEF RapportoEffetti, Tipi, NessunThread
  <2>3. rapporto[j].per \in Ponte
    BY <1>3 DEF RapportoEffetti, Tipi, Rapporti, NessunThread
  <2>4. Lasciano
    BY <1>3, <2>3, SmetteEffetto DEF RapportoEffetti, Lasciano, Tipi
  <2>5. Finito(j) /\ effetti[j] = 0
    BY <1>3 DEF RapportoEffetti, InvJob, UnaPubblicazione
  <2>6. ClaimDelRender(j) => ClaimDelRender(j)'
    BY <2>1, <2>4, <2>5 DEF ClaimDelRender, Finito, Lasciano, Rendono, Appena, SulLavoro, In, codavars
  <2>7. InvJob(j)'
    BY <2>1, <2>2, <2>4, <2>5, <2>6
       DEF InvJob, LavoroAccettato, ClaimDelPonte, ClaimDellaRichiesta, UnaPubblicazione,
           ClaimNuovo, Finito, Lasciano, Appena, SulLavoro, In, codavars
  <2>8. ASSUME NEW k \in JobId \ {j} PROVE Ignorato(k)
    BY <2>1, <2>2, <2>4, UgualeSegue, LascianoIgnora DEF codavars
  <2> QED BY <2>1, <2>7, <2>8, UgualePotati, IgnoratoConserva
<1>4. \A k \in JobId : Ignorato(k) => InvJob(k)'
  BY IgnoratoConserva
<1> QED BY <1>1, <1>2, <1>3, <1>4

LEMMA IInvNext == IInv /\ [Next]_vars => IInv'
<1> SUFFICES ASSUME IInv, [Next]_vars PROVE IInv'
  OBVIOUS
<1>1. Tipi' /\ G!TypeOK'
  BY TipiNext DEF IInv
<1> SUFFICES FileFedele' /\ \A k \in JobId : InvJob(k)'
  BY <1>1 DEF IInv
<1>2. \A k \in JobId : Ignorato(k) => InvJob(k)'
  BY IgnoratoConserva DEF IInv
<1>3. CASE Coda
  <2>1. (Potati(JobId) /\ FileFedele') \/ \E j \in JobId : Q!Accoda(j)
    BY <1>3, LeggeEffetto DEF Coda, IInv
  <2>2. UNCHANGED <<ponte, durata, richiesta, rapporto, effetti>>
    BY <1>3 DEF Coda, threadvars
  <2>3. ASSUME NEW j \in JobId, Q!Accoda(j) PROVE FileFedele' /\ \A k \in JobId : InvJob(k)'
    <3>1. /\ job[j].stato = "mai" /\ job'[j].stato = "pending"
          /\ Potati(JobId \ {j}) /\ FileFedele'
      BY <2>3, AccodaEffetto DEF IInv
    <3>2. ClaimDelRender(j)'
      BY <2>2, <3>1, NessunoRende DEF IInv, InvJob, LavoroAccettato, Rendono, SulLavoro, In
    <3>3. InvJob(j)'
      BY <2>2, <3>1, <3>2
         DEF IInv, InvJob, LavoroAccettato, ClaimDelPonte, ClaimDellaRichiesta,
             UnaPubblicazione, ClaimNuovo, Finito, Appena, SulLavoro, In
    <3>4. ASSUME NEW k \in JobId \ {j} PROVE Ignorato(k)
      BY <2>2, <3>1, PotatoSegue, LascianoIgnora DEF Lasciano, Potati, IInv
    <3> QED BY <1>2, <3>1, <3>3, <3>4
  <2>4. ASSUME Potati(JobId), FileFedele' PROVE \A k \in JobId : InvJob(k)'
    BY <1>2, <2>2, <2>4, FermoIgnora DEF Lasciano, threadvars, IInv
  <2> QED BY <2>1, <2>3, <2>4
<1>4. CASE RichiestaChat
  BY <1>2, <1>4, UgualePotati, FermoIgnora DEF RichiestaChat, Lasciano, IInv
<1>5. CASE CadeControlPlane
  <2>1. Potati(JobId) /\ FileFedele'
    BY <1>5, RiavviaEffetto DEF CadeControlPlane, IInv
  <2>2. Lasciano
    BY <1>5 DEF CadeControlPlane, Lasciano, IInv, Tipi, Fermo
  <2>3. \A k \in JobId :
          richiesta'[k].fase = "no" /\ rapporto'[k].fase = "no" /\ effetti'[k] = effetti[k]
    BY <1>5 DEF CadeControlPlane, NessunThread
  <2> QED BY <1>2, <2>1, <2>2, <2>3, PotatoSegue, LascianoIgnora DEF Potati, IInv
<1>6. CASE Tick
  <2>1. /\ \A k \in JobId :
              /\ job'[k].stato = job[k].stato
              /\ job[k].presa \in Nat /\ job'[k].presa \in Nat /\ job'[k].presa <= job[k].presa + 1
        /\ FileFedele'
    BY <1>6, TempoEffetto DEF Tick, IInv
  <2>2. UNCHANGED <<ponte, richiesta, rapporto, effetti>>
    BY <1>6 DEF Tick, threadvars
  <2>3. /\ \A k \in JobId : richiesta[k].fase = "no" /\ rapporto[k].fase = "no"
        /\ \A p \in Ponte, k \in JobId : ~Appena(p, k)
    BY <1>6 DEF Tick, NessunThread, Appena
  <2>4. ASSUME NEW p \in Ponte, In(p, "rende")
        PROVE  durata'[p] = durata[p] + 1 /\ durata[p] \in Nat
    BY <1>6, <2>4, ImagePipelineAssumption DEF Tick, IInv, Tipi
  <2>5. ASSUME NEW k \in JobId, ClaimDelRender(k) PROVE ClaimDelRender(k)'
    <3>1. ASSUME NEW p \in Ponte, Rendono(p, k)
          PROVE  Finito(k)' \/ (job'[k].stato = "running" /\ job'[k].presa <= durata'[p])
      <4>1. Finito(k) \/ (job[k].stato = "running" /\ job[k].presa <= durata[p])
        BY <2>5, <3>1 DEF ClaimDelRender
      <4> QED BY <2>1, <2>4, <3>1, <4>1 DEF Finito, Rendono
    <3> QED BY <2>2, <2>5, <3>1 DEF ClaimDelRender, Rendono, Appena, SulLavoro, In
  <2>6. ASSUME NEW k \in JobId PROVE InvJob(k)'
    BY <2>1, <2>2, <2>3, <2>5
       DEF IInv, InvJob, LavoroAccettato, ClaimDelPonte, ClaimDellaRichiesta, UnaPubblicazione,
           Finito, Appena, SulLavoro, In
  <2> QED BY <2>1, <2>6
<1>7. CASE UNCHANGED vars
  BY <1>2, <1>7, UgualePotati, FermoIgnora DEF vars, Lasciano, IInv
<1> QED BY <1>3, <1>4, <1>5, <1>6, <1>7, PassoChiede, PassoRichiesta, PassoPonte, PassoRapporto
        DEF Next

\* The image of a job is published at most once, and only after the job is
\* concluded, whatever reports are repeated and whatever restarts interrupt them.
THEOREM PubblicataUnaVolta == Spec => []EffettiUnaVolta
<1>1. IInv => EffettiUnaVolta
  BY DEF IInv, InvJob, UnaPubblicazione, EffettiUnaVolta, Finito, Q!Attivo
<1> QED BY <1>1, IInvInit, IInvNext, PTL DEF Spec

\* A claim that outlives the longest render is given to nobody else before its
\* bridge stops: no two bridges render the same job, in spite of lost replies,
\* restarts, deferrals and reports that come late.
THEOREM NessunDoppioRenderMai ==
  ASSUME Esecuzione <= ClaimTtl
  PROVE  Spec => []NessunDoppioRender
<1>1. IInv => NessunDoppioRender
  <2> SUFFICES ASSUME IInv, NEW p \in Ponte, NEW q \in Ponte, In(p, "rende"), In(q, "rende"),
                      ponte[p].lavoro = ponte[q].lavoro
               PROVE  p = q
    BY DEF NessunDoppioRender
  <2>1. PICK j \in JobId : j = ponte[p].lavoro
    BY LavoroTipo DEF IInv, Tipi, In
  <2> QED BY <2>1 DEF IInv, InvJob, ClaimDelRender, Rendono
<1> QED BY <1>1, IInvInit, IInvNext, PTL DEF Spec

\* A thread that claims, or that concludes, is the only one of its job: a job is
\* claimed and concluded only when it has neither.
LEMMA UnThreadPasso ==
  ASSUME IInv, [Next]_vars, NEW j \in JobId
  PROVE  /\ richiesta[j].fase # "no" => richiesta'[j].fase # "claim" \/ richiesta[j] = richiesta'[j]
         /\ rapporto[j].fase # "no" => rapporto'[j].fase # "coda" \/ rapporto[j] = rapporto'[j]
<1> DEFINE P == /\ richiesta[j].fase # "no" => richiesta'[j].fase # "claim" \/ richiesta[j] = richiesta'[j]
                /\ rapporto[j].fase # "no" => rapporto'[j].fase # "coda" \/ rapporto[j] = rapporto'[j]
<1>1. richiesta \in [JobId -> Richieste] /\ rapporto \in [JobId -> Rapporti]
  BY DEF IInv, Tipi
<1>2. UNCHANGED <<richiesta, rapporto>> => P
  OBVIOUS
<1>3. ASSUME NEW p \in Ponte, NEW i \in JobId, Chiede(p, i) PROVE P
  <2>1. job[i].stato = "pending" \/ (job[i].stato = "running" /\ ~(job[i].presa <= ClaimTtl))
    BY <1>3, ProssimoEffetto DEF Chiede, IInv
  <2>2. ~ClaimNuovo(i)
    BY <2>1, ImagePipelineAssumption DEF ClaimNuovo, Finito
  <2>3. richiesta[i].fase = "no"
    BY <2>2 DEF IInv, InvJob, ClaimDellaRichiesta
  <2> QED BY <1>1, <1>3, <2>3 DEF Chiede
<1>4. ASSUME NEW i \in JobId, Riserva(i) \/ RiservaAttende(i) PROVE P
  BY <1>1, <1>4, PassaEffetto DEF Riserva, RiservaAttende, FasiRichiesta
<1>5. ASSUME NEW i \in JobId, Rifiuta(i) \/ Risponde(i) PROVE P
  BY <1>1, <1>5 DEF Rifiuta, Risponde, NessunThread
<1>6. ASSUME NEW p \in Ponte, NEW ok \in BOOLEAN, Riferisce(p, ok) PROVE P
  <2>1. PICK i \in JobId : i = ponte[p].lavoro
    BY <1>6, LavoroTipo DEF Riferisce, In, IInv, Tipi
  <2>2. rapporto[i].fase = "no"
    BY <1>6, <2>1, ConcludiEffetto DEF Riferisce, IInv, InvJob, UnaPubblicazione
  <2> QED BY <1>1, <1>6, <2>1, <2>2 DEF Riferisce
<1>7. ASSUME NEW i \in JobId, RapportoCoda(i) \/ RapportoGate(i) PROVE P
  BY <1>1, <1>7, AvanzaEffetto DEF RapportoCoda, RapportoGate, FasiRapporto
<1>8. ASSUME NEW i \in JobId, RapportoEffetti(i) PROVE P
  BY <1>1, <1>8 DEF RapportoEffetti, NessunThread
<1>9. CASE CadeControlPlane
  BY <1>9 DEF CadeControlPlane, NessunThread
<1>10. CASE Coda \/ RichiestaChat \/ Tick \/ UNCHANGED vars
  BY <1>2, <1>10 DEF Coda, RichiestaChat, Tick, vars, threadvars
<1>11. ASSUME NEW p \in Ponte,
              \/ PonteNonAspetta(p) \/ Rende(p) \/ NonPronto(p) \/ FineRender(p)
              \/ RinviaGate(p) \/ RinviaCoda(p) \/ RinvioPerso(p) \/ CadePonte(p)
              \/ RiferisceDoppione(p)
       PROVE  P
  BY <1>2, <1>11
     DEF PonteNonAspetta, Rende, NonPronto, FineRender, RinviaGate, RinviaCoda, RinvioPerso,
         CadePonte, RiferisceDoppione, threadvars
<1> QED BY <1>3, <1>4, <1>5, <1>6, <1>7, <1>8, <1>9, <1>10, <1>11 DEF Next

\* A job has one thread that claims it and one that concludes it, at any time.
THEOREM UnThreadPerJob == Spec => RichiestaUnica
<1>1. IInv /\ [Next]_vars =>
        [\A j \in JobId :
           /\ richiesta[j].fase # "no" => richiesta'[j].fase # "claim" \/ richiesta[j] = richiesta'[j]
           /\ rapporto[j].fase # "no" => rapporto'[j].fase # "coda" \/ rapporto[j] = rapporto'[j]]_vars
  BY UnThreadPasso
<1> QED BY <1>1, IInvInit, IInvNext, PTL DEF Spec, RichiestaUnica

-----------------------------------------------------------------------------
(* The memory of the Mac.  One bridge alone renders the checkpoint families, *)
(* and a reservation outlives its render.  The gate then belongs to a granted *)
(* job from the moment a checkpoint job is answered until its render ends.    *)

\* A bridge that renders some checkpoint family.
Mac(p) == Capaci[p] \intersect FamiglieCheckpoint # {}

UnSoloMac == \A p, q \in Ponte : Mac(p) /\ Mac(q) => p = q

Capace == \A p \in Ponte, j \in JobId : SulLavoro(p, j) => FamigliaDi[j] \in Capaci[p]

ProprietarioCheckpoint == owner \in JobId => UsaCheckpoint(owner)

FaseVera ==
  \A j \in JobId : richiesta[j].fase \in {"claim", "gate", "rifiuto"} => UsaCheckpoint(j)

\* A checkpoint job that is being given out has no report, and no bridge but the
\* one that asked.
RichiestaSola ==
  \A j \in JobId : UsaCheckpoint(j) /\ richiesta[j].fase # "no" =>
    /\ rapporto[j].fase = "no"
    /\ \A p \in Ponte : SulLavoro(p, j) => p = richiesta[j].per /\ In(p, "chiede")

\* A request that waits for the chats, or was granted, has the whole lease left:
\* no time passes before its answer.
AttesaProtetta ==
  \A j \in JobId : prenota[j] = "attesa" => richiesta[j].fase = "gate" /\ resto = Lease

RispostaProtetta ==
  \A j \in JobId : UsaCheckpoint(j) /\ richiesta[j].fase = "risposta" =>
    owner = j /\ prenota[j] = "concessa" /\ resto = Lease

Eta(p) == IF In(p, "rende") THEN durata[p] ELSE 0

Impegna(p, j) ==
  /\ UsaCheckpoint(j) /\ SulLavoro(p, j)
  /\ ponte[p].pc \in {"prepara", "rende"} /\ job[j].stato = "running"
  /\ Eta(p) < Lease

\* While a bridge has had a checkpoint job in its hands for less than a lease some
\* granted job owns the gate (its own or, after a restart, another restored one),
\* nobody is about to release it, and what is left of its lease and the age of the
\* render make up a whole lease.
RenderProtetto ==
  \A p \in Ponte, j \in JobId : Impegna(p, j) =>
    /\ owner \in JobId /\ prenota[owner] = "concessa"
    /\ rapporto[owner].fase = "no" /\ richiesta[owner].fase = "no"
    /\ resto + Eta(p) >= Lease

InvPorta ==
  /\ Capace /\ ProprietarioCheckpoint /\ FaseVera /\ RichiestaSola
  /\ AttesaProtetta /\ RispostaProtetta /\ RenderProtetto

IInvPorta == IInv /\ G!IInv /\ InvPorta

\* A job given to two bridges needs no checkpoint: only the Mac has those.
LEMMA LavoroDelMac ==
  ASSUME UnSoloMac, Capace, NEW p \in Ponte, NEW q \in Ponte, NEW j \in JobId, NEW k \in JobId,
         UsaCheckpoint(j), UsaCheckpoint(k), SulLavoro(p, j),
         SulLavoro(q, k) \/ FamigliaDi[k] \in Capaci[q]
  PROVE  p = q
BY DEF UnSoloMac, Mac, Capace, UsaCheckpoint

\* Somebody relies on the reservation that is in force.
Serve ==
  \/ \E j \in JobId : prenota[j] = "attesa"
  \/ \E j \in JobId : UsaCheckpoint(j) /\ richiesta[j].fase = "risposta"
  \/ \E p \in Ponte, j \in JobId : Impegna(p, j)

LEMMA ServeEffetto ==
  ASSUME IInvPorta, Serve
  PROVE  owner \in JobId /\ resto > 0
<1>1. Lease \in Nat \ {0} /\ Esecuzione \in Nat /\ resto \in Nat
  BY ImagePipelineAssumption DEF IInvPorta, G!IInv, G!TypeOK
<1>2. CASE \E j \in JobId : prenota[j] = "attesa"
  BY <1>2 DEF IInvPorta, G!IInv, G!AttesaPossiede
<1>3. CASE \E j \in JobId : UsaCheckpoint(j) /\ richiesta[j].fase = "risposta"
  BY <1>1, <1>3 DEF IInvPorta, InvPorta, RispostaProtetta
<1>4. ASSUME NEW p \in Ponte, NEW j \in JobId, Impegna(p, j) PROVE owner \in JobId /\ resto > 0
  <2>1. owner \in JobId /\ resto + Eta(p) >= Lease /\ Eta(p) < Lease
    BY <1>4 DEF IInvPorta, InvPorta, RenderProtetto, Impegna
  <2>2. Eta(p) \in 0..Esecuzione
    BY <1>1 DEF Eta, IInvPorta, IInv, Tipi
  <2> QED BY <1>1, <2>1, <2>2
<1> QED BY <1>2, <1>3, <1>4 DEF Serve

\* A step that takes the gate from nobody who relies on it, and gives it to nobody.
PortaTenuta ==
  /\ owner' \in {owner, G!Nessuno, G!CodaImmagini}
  /\ \A k \in JobId : prenota'[k] \in {prenota[k], "no"}
  /\ Serve => owner' = owner /\ resto' = resto /\ prenota'[owner] = prenota[owner]

LEMMA ChatTiene ==
  ASSUME IInvPorta, NEW c \in Chat,
         G!EnterChat(c) \/ G!ChatSveglia(c) \/ G!ChatRinuncia(c) \/ G!LeaveChat(c)
  PROVE  PortaTenuta /\ G!IInv'
<1>1. G!IInv'
  BY G!PassoChat, AssunzioniPorta, IdDistinti DEF IInvPorta
<1>2. owner' \in {owner, G!Nessuno} /\ UNCHANGED prenota
  BY DEF G!EnterChat, G!ChatSveglia, G!ChatRinuncia, G!LeaveChat, G!Scade, G!Proprietario
<1>3. owner \in JobId /\ resto > 0 => owner' = owner /\ resto' = resto
  BY IdDistinti DEF G!EnterChat, G!ChatSveglia, G!ChatRinuncia, G!LeaveChat, G!Scade,
         G!Proprietario, G!RestoVivo, IInvPorta, G!IInv, G!TypeOK
<1> QED BY <1>1, <1>2, <1>3, ServeEffetto DEF PortaTenuta

\* A job is released by its own report, or by the bridge that held it: nobody then
\* relies on its reservation.
LEMMA RilascioTiene ==
  ASSUME IInvPorta, UnSoloMac, NEW k \in JobId,
         \/ rapporto[k].fase # "no"
         \/ \E p \in Ponte : SulLavoro(p, k) /\ ponte[p].pc \in {"rinvia", "riferisce"},
         G!ContinueImageQueue(k) \/ G!ReleaseImage(k)
  PROVE  PortaTenuta /\ G!IInv'
<1> USE DEF IInvPorta, InvPorta
<1>1. UsaCheckpoint(k) => richiesta[k].fase = "no"
  BY DEF RichiestaSola, In
<1>2. prenota[k] # "attesa"
  BY <1>1 DEF AttesaProtetta, FaseVera
<1>3. G!IInv'
  BY <1>2, G!PassoImmagine, AssunzioniPorta, IdDistinti
<1>4. Serve => owner # k
  <2>1. ASSUME NEW j \in JobId, prenota[j] = "attesa" PROVE owner # k
    BY <1>2, <2>1 DEF G!IInv, G!AttesaPossiede
  <2>2. ASSUME NEW j \in JobId, UsaCheckpoint(j), richiesta[j].fase = "risposta" PROVE owner # k
    BY <1>1, <2>2 DEF RispostaProtetta
  <2>3. ASSUME NEW p \in Ponte, NEW j \in JobId, Impegna(p, j), owner = k PROVE FALSE
    <3>1. rapporto[k].fase = "no" /\ UsaCheckpoint(k)
      BY <2>3 DEF RenderProtetto, ProprietarioCheckpoint
    <3>2. PICK q \in Ponte : SulLavoro(q, k) /\ ponte[q].pc \in {"rinvia", "riferisce"}
      BY <3>1
    <3>3. q = p
      BY <2>3, <3>1, <3>2, LavoroDelMac DEF Impegna
    <3> QED BY <2>3, <3>2, <3>3 DEF Impegna
  <2> QED BY <2>1, <2>2, <2>3 DEF Serve
<1>5. owner' \in {owner, G!Nessuno, G!CodaImmagini}
  BY DEF G!ContinueImageQueue, G!ReleaseImage, G!Assegna, G!Scade, G!Proprietario
<1>6. \A i \in JobId : prenota'[i] = IF i = k THEN "no" ELSE prenota[i]
  BY DEF G!ContinueImageQueue, G!ReleaseImage, G!IInv, G!TypeOK
<1>7. owner # k /\ resto > 0 /\ owner \in JobId => owner' = owner /\ resto' = resto
  BY IdDistinti DEF G!ContinueImageQueue, G!ReleaseImage, G!Scade, G!Proprietario, G!RestoVivo,
         G!IInv, G!TypeOK
<1> QED BY <1>3, <1>4, <1>5, <1>6, <1>7, ServeEffetto DEF PortaTenuta

LEMMA FermaTiene == IInvPorta /\ UNCHANGED gatevars => PortaTenuta /\ G!IInv'
BY DEF gatevars, PortaTenuta, IInvPorta, G!IInv, G!TypeOK, G!PrenotazioneEsclude,
       G!AttesaPossiede, G!PossessoPrenotato, G!Proprietario, G!Dentro

\* What threads and bridges do in most steps: they go on, or end.
FiliTenuti ==
  /\ \A p \in Ponte, j \in JobId :
       /\ SulLavoro(p, j)' => SulLavoro(p, j)
       /\ Impegna(p, j)' => Impegna(p, j) /\ Eta(p)' >= Eta(p) /\ rapporto'[owner].fase = "no"
  /\ \A j \in JobId :
       /\ richiesta'[j] = richiesta[j] \/ (richiesta'[j].fase = "no" /\ richiesta[j].fase # "gate")
       /\ UsaCheckpoint(j) /\ richiesta'[j].fase # "no" =>
            /\ rapporto'[j].fase # "no" => rapporto[j].fase # "no"
            /\ \A p \in Ponte : SulLavoro(p, j)' /\ In(p, "chiede") => In(p, "chiede")'

LEMMA TieneConserva ==
  ASSUME IInvPorta, PortaTenuta, FiliTenuti,
         \A p \in Ponte : Eta(p) \in Nat /\ Eta(p)' \in Nat
  PROVE  InvPorta'
<1> USE DEF IInvPorta, InvPorta
<1>1. Capace'
  BY DEF Capace, FiliTenuti
<1>2. ProprietarioCheckpoint'
  BY IdDistinti DEF ProprietarioCheckpoint, PortaTenuta, UsaCheckpoint
<1>3. FaseVera'
  BY DEF FaseVera, FiliTenuti, UsaCheckpoint
<1>4. RichiestaSola'
  BY DEF RichiestaSola, FiliTenuti, UsaCheckpoint
<1>5. AttesaProtetta'
  <2> SUFFICES ASSUME NEW j \in JobId, prenota'[j] = "attesa"
               PROVE  richiesta'[j].fase = "gate" /\ resto' = Lease
    BY DEF AttesaProtetta
  <2>1. prenota[j] = "attesa" /\ Serve
    BY DEF PortaTenuta, Serve
  <2> QED BY <2>1 DEF AttesaProtetta, PortaTenuta, FiliTenuti
<1>6. RispostaProtetta'
  <2> SUFFICES ASSUME NEW j \in JobId, UsaCheckpoint(j), richiesta'[j].fase = "risposta"
               PROVE  owner' = j /\ prenota'[j] = "concessa" /\ resto' = Lease
    BY DEF RispostaProtetta, UsaCheckpoint
  <2>1. richiesta[j].fase = "risposta" /\ Serve
    BY DEF FiliTenuti, Serve
  <2> QED BY <2>1 DEF RispostaProtetta, PortaTenuta
<1>7. RenderProtetto'
  <2> SUFFICES ASSUME NEW p \in Ponte, NEW j \in JobId, Impegna(p, j)'
               PROVE  /\ owner' \in JobId /\ prenota'[owner'] = "concessa"
                      /\ rapporto'[owner'].fase = "no" /\ richiesta'[owner'].fase = "no"
                      /\ resto' + Eta(p)' >= Lease
    BY DEF RenderProtetto
  <2>1. Impegna(p, j) /\ Serve /\ Eta(p)' >= Eta(p) /\ rapporto'[owner].fase = "no"
    BY DEF FiliTenuti, Serve
  <2>2. /\ owner \in JobId /\ prenota[owner] = "concessa"
        /\ richiesta[owner].fase = "no" /\ resto + Eta(p) >= Lease
    BY <2>1 DEF RenderProtetto
  <2>3. owner' = owner /\ resto' = resto /\ prenota'[owner] = prenota[owner]
    BY <2>1 DEF PortaTenuta
  <2>4. richiesta'[owner].fase = "no"
    BY <2>2 DEF FiliTenuti
  <2>5. resto \in Nat /\ Lease \in Nat
    BY ImagePipelineAssumption DEF G!IInv, G!TypeOK
  <2> QED BY <2>1, <2>2, <2>3, <2>4, <2>5
<1> QED BY <1>1, <1>2, <1>3, <1>4, <1>5, <1>6, <1>7

LEMMA EtaTipo == Tipi => \A p \in Ponte : Eta(p) \in Nat
BY ImagePipelineAssumption DEF Tipi, Eta

\* Pruning lets no job start.
LEMMA PotatiCorrevano ==
  ASSUME Tipi, NEW j \in JobId, job'[j] \in {job[j], Q!Potato(job[j])}, job'[j].stato = "running"
  PROVE  job[j].stato = "running"
<1>1. job[j] \in Q!JobRec
  BY DEF Tipi, Q!TypeOK
<1> QED BY <1>1, PotatoEsito

\* Bridges go on or give up, threads go on or end, and no job starts.
LEMMA LascianoTiene ==
  ASSUME IInvPorta, Lasciano,
         \A j \in JobId : job'[j].stato = "running" => job[j].stato = "running",
         \A j \in JobId :
           /\ richiesta'[j] = richiesta[j] \/ (richiesta'[j].fase = "no" /\ richiesta[j].fase # "gate")
           /\ rapporto'[j].fase # "no" => rapporto[j].fase # "no"
  PROVE  FiliTenuti
<1>1. ASSUME NEW p \in Ponte, NEW j \in JobId
      PROVE  /\ SulLavoro(p, j)' => SulLavoro(p, j)
             /\ SulLavoro(p, j)' /\ In(p, "chiede") => In(p, "chiede")'
             /\ Impegna(p, j)' => Impegna(p, j) /\ Eta(p)' = Eta(p)
  BY DEF Lasciano, SulLavoro, Impegna, In, Eta, UsaCheckpoint
<1>2. ASSUME NEW p \in Ponte, NEW j \in JobId, Impegna(p, j) PROVE rapporto'[owner].fase = "no"
  BY <1>2 DEF IInvPorta, InvPorta, RenderProtetto
<1>3. \A p \in Ponte : Eta(p) \in Nat
  BY EtaTipo DEF IInvPorta, IInv
<1> QED BY <1>1, <1>2, <1>3 DEF FiliTenuti

\* The steps that leave the threads of the requests alone, or end one.
LEMMA PassoQuieto ==
  ASSUME IInvPorta, UnSoloMac,
         \/ Coda \/ RichiestaChat \/ UNCHANGED vars
         \/ \E p \in Ponte : PonteNonAspetta(p) \/ RinvioPerso(p) \/ CadePonte(p)
                             \/ RinviaCoda(p) \/ RiferisceDoppione(p)
         \/ \E j \in JobId : Rifiuta(j) \/ RapportoCoda(j) \/ RapportoGate(j) \/ RapportoEffetti(j)
  PROVE  FiliTenuti /\ PortaTenuta /\ G!IInv'
<1> USE DEF IInvPorta, IInv
<1> DEFINE Partiti == \A j \in JobId : job'[j].stato = "running" => job[j].stato = "running"
<1>1. UNCHANGED codavars => Partiti
  BY DEF codavars
<1>2. Potati(JobId) => Partiti
  BY PotatiCorrevano DEF Potati
<1>3. ASSUME NEW j \in JobId, Q!Rinvia(j) PROVE Partiti
  BY <1>3, RinviaEffetto
<1>4. ASSUME Coda PROVE FiliTenuti /\ PortaTenuta /\ G!IInv'
  <2>1. ASSUME NEW j \in JobId, Q!Accoda(j) PROVE Partiti
    BY <2>1, AccodaEffetto, PotatiCorrevano DEF Potati
  <2>2. Partiti
    BY <1>2, <1>4, <2>1, LeggeEffetto DEF Coda
  <2> QED BY <1>4, <2>2, LascianoTiene, FermaTiene DEF Coda, Lasciano, threadvars
<1>5. ASSUME RichiestaChat PROVE FiliTenuti /\ PortaTenuta /\ G!IInv'
  BY <1>1, <1>5, ChatTiene, LascianoTiene DEF RichiestaChat, Lasciano, threadvars
<1>6. ASSUME UNCHANGED vars PROVE FiliTenuti /\ PortaTenuta /\ G!IInv'
  BY <1>1, <1>6, FermaTiene, LascianoTiene DEF vars, Lasciano, threadvars
<1>7. ASSUME NEW p \in Ponte,
             PonteNonAspetta(p) \/ RinvioPerso(p) \/ CadePonte(p) \/ RinviaCoda(p)
      PROVE  FiliTenuti /\ PortaTenuta /\ G!IInv'
  <2>1. /\ Smette(p) /\ UNCHANGED gatevars /\ UNCHANGED threadvars
        /\ \A q \in Ponte \ {p} : durata'[q] = durata[q]
    BY <1>7 DEF PonteNonAspetta, RinvioPerso, CadePonte, RinviaCoda, Tipi
  <2>2. Lasciano
    BY <2>1, SmetteEffetto DEF Lasciano, Tipi
  <2>3. Partiti
    <3>1. UNCHANGED codavars \/ (RinviaCoda(p) /\ Q!Rinvia(ponte[p].lavoro))
      BY <1>7 DEF PonteNonAspetta, RinvioPerso, CadePonte, RinviaCoda
    <3> QED BY <1>1, <1>3, <3>1, LavoroTipo DEF RinviaCoda, In, Tipi
  <2> QED BY <2>1, <2>2, <2>3, LascianoTiene, FermaTiene DEF threadvars
<1>8. ASSUME NEW p \in Ponte, RiferisceDoppione(p) PROVE FiliTenuti /\ PortaTenuta /\ G!IInv'
  <2>1. PICK k \in JobId : k = ponte[p].lavoro
    BY <1>8, LavoroTipo DEF RiferisceDoppione, In, Tipi
  <2>2. PortaTenuta /\ G!IInv'
    BY <1>8, <2>1, RilascioTiene DEF RiferisceDoppione, SulLavoro, In
  <2>3. Lasciano
    BY <1>8, SmetteEffetto DEF RiferisceDoppione, Lasciano, Tipi
  <2> QED BY <1>1, <1>8, <2>2, <2>3, LascianoTiene DEF RiferisceDoppione, threadvars
<1>9. ASSUME NEW j \in JobId, Rifiuta(j) PROVE FiliTenuti /\ PortaTenuta /\ G!IInv'
  <2>1. Partiti
    BY <1>1, <1>3, <1>9 DEF Rifiuta
  <2>2. richiesta[j].per \in Ponte
    BY <1>9 DEF Rifiuta, Tipi, Richieste, NessunThread
  <2>3. Lasciano
    BY <1>9, <2>2, SmetteEffetto DEF Rifiuta, Lasciano, Tipi
  <2>4. \A k \in JobId : richiesta'[k] = richiesta[k]
                         \/ (richiesta'[k].fase = "no" /\ richiesta[k].fase # "gate")
    BY <1>9 DEF Rifiuta, Tipi, NessunThread
  <2> QED BY <1>9, <2>1, <2>3, <2>4, LascianoTiene, FermaTiene DEF Rifiuta
<1>10. ASSUME NEW j \in JobId, RapportoCoda(j) \/ RapportoGate(j) \/ RapportoEffetti(j)
       PROVE  FiliTenuti /\ PortaTenuta /\ G!IInv'
  <2>1. Partiti
    BY <1>1, <1>2, <1>10, LeggeEffetto DEF RapportoCoda, RapportoGate, RapportoEffetti
  <2>2. /\ UNCHANGED richiesta /\ UNCHANGED durata /\ rapporto[j].fase # "no"
        /\ \A k \in JobId : rapporto'[k].fase # "no" => rapporto[k].fase # "no"
    BY <1>10, AvanzaEffetto
       DEF RapportoCoda, RapportoGate, RapportoEffetti, FasiRapporto, NessunThread, Tipi
  <2>3. Lasciano
    <3>1. rapporto[j].per \in Ponte
      BY <2>2 DEF Tipi, Rapporti, NessunThread
    <3> QED BY <1>10, <2>2, <3>1, SmetteEffetto
            DEF RapportoCoda, RapportoGate, RapportoEffetti, Lasciano, Tipi
  <2>4. PortaTenuta /\ G!IInv'
    BY <1>10, <2>2, RilascioTiene, FermaTiene DEF RapportoCoda, RapportoGate, RapportoEffetti
  <2> QED BY <2>1, <2>2, <2>3, <2>4, LascianoTiene
<1> QED BY <1>4, <1>5, <1>6, <1>7, <1>8, <1>9, <1>10

\* A bridge goes on with its job.
LEMMA PassoLavoro ==
  ASSUME IInvPorta, UnSoloMac, NEW p \in Ponte,
         \/ Rende(p) \/ NonPronto(p) \/ FineRender(p) \/ RinviaGate(p)
         \/ \E ok \in BOOLEAN : Riferisce(p, ok)
  PROVE  FiliTenuti /\ PortaTenuta /\ G!IInv'
<1> USE DEF IInvPorta, IInv
<1>1. PICK k \in JobId : k = ponte[p].lavoro /\ SulLavoro(p, k)
  BY LavoroTipo DEF Rende, NonPronto, FineRender, RinviaGate, Riferisce, In, SulLavoro, Tipi
<1>2. PortaTenuta /\ G!IInv'
  <2>1. UNCHANGED gatevars \/ (In(p, "rinvia") /\ G!ReleaseImage(k))
    BY <1>1 DEF Rende, NonPronto, FineRender, RinviaGate, Riferisce
  <2> QED BY <1>1, <2>1, FermaTiene, RilascioTiene DEF In
<1>3. \A q \in Ponte : Eta(q) \in Nat
  BY EtaTipo
<1>4. CASE Rende(p) \/ NonPronto(p) \/ FineRender(p) \/ RinviaGate(p)
  <2>1. /\ UNCHANGED codavars /\ UNCHANGED threadvars
        /\ \A q \in Ponte \ {p} : durata'[q] = durata[q]
        /\ Rende(p) => durata'[p] = 0
    BY <1>4 DEF Rende, NonPronto, FineRender, RinviaGate, Tipi
  <2>2. /\ ponte'[p].lavoro = k /\ ~In(p, "chiede")
        /\ ponte'[p].pc \in {"rende", "rinvia", "riferisce", "rinviato"}
        /\ ponte'[p].pc = "rende" => Rende(p) /\ ponte[p].pc = "prepara"
        /\ \A q \in Ponte \ {p} : ponte'[q] = ponte[q]
    BY <1>1, <1>4, VaEffetto DEF Rende, NonPronto, FineRender, RinviaGate, In, FasiPonte, Tipi
  <2>3. ASSUME NEW q \in Ponte, NEW j \in JobId
        PROVE  /\ SulLavoro(q, j)' => SulLavoro(q, j)
               /\ SulLavoro(q, j)' /\ In(q, "chiede") => In(q, "chiede")'
               /\ Impegna(q, j)' => Impegna(q, j) /\ Eta(q)' = Eta(q)
    BY <1>1, <2>1, <2>2 DEF SulLavoro, In, Impegna, Eta, UsaCheckpoint, codavars
  <2>4. ASSUME NEW q \in Ponte, NEW j \in JobId, Impegna(q, j) PROVE rapporto'[owner].fase = "no"
    BY <2>1, <2>4 DEF InvPorta, RenderProtetto, threadvars
  <2> QED BY <1>2, <1>3, <2>1, <2>3, <2>4 DEF FiliTenuti, threadvars
<1>5. ASSUME NEW ok \in BOOLEAN, Riferisce(p, ok) PROVE FiliTenuti
  <2>1. \A j \in JobId : job'[j].stato = "running" => job[j].stato = "running"
    BY <1>1, <1>5, ConcludiEffetto DEF Riferisce, Finito
  <2>2. /\ UNCHANGED <<ponte, durata, richiesta>> /\ In(p, "riferisce")
        /\ \A j \in JobId \ {k} : rapporto'[j] = rapporto[j]
    BY <1>1, <1>5 DEF Riferisce, Tipi
  <2>3. ASSUME NEW q \in Ponte, NEW j \in JobId, Impegna(q, j) PROVE rapporto'[owner].fase = "no"
    <3>1. owner \in JobId /\ rapporto[owner].fase = "no" /\ UsaCheckpoint(owner)
      BY <2>3 DEF InvPorta, RenderProtetto, ProprietarioCheckpoint
    <3>2. owner # k
      BY <1>1, <2>2, <2>3, <3>1, LavoroDelMac DEF InvPorta, Impegna, In
    <3> QED BY <2>2, <3>1, <3>2
  <2>4. ASSUME NEW j \in JobId, UsaCheckpoint(j), richiesta[j].fase # "no" PROVE j # k
    BY <1>1, <2>2, <2>4 DEF InvPorta, RichiestaSola, In
  <2>5. \A q \in Ponte, j \in JobId : Impegna(q, j)' => Impegna(q, j) /\ Eta(q)' = Eta(q)
    BY <2>1, <2>2 DEF Impegna, SulLavoro, In, Eta, UsaCheckpoint
  <2> QED BY <1>3, <2>2, <2>3, <2>4, <2>5 DEF FiliTenuti, SulLavoro, In
<1> QED BY <1>2, <1>4, <1>5

\* A claim: the Mac asks when it holds nothing, so no checkpoint job is in hand.
LEMMA PassoChiedePorta ==
  ASSUME IInvPorta, UnSoloMac, NEW p \in Ponte, NEW j \in JobId, Chiede(p, j)
  PROVE  InvPorta' /\ G!IInv'
<1> USE DEF IInvPorta, IInv, InvPorta
<1>1. /\ FamigliaDi[j] \in Capaci[p]
      /\ job[j].stato = "pending" \/ (job[j].stato = "running" /\ ~(job[j].presa <= ClaimTtl))
      /\ Potati(JobId \ {j})
  BY ProssimoEffetto DEF Chiede
<1>2. rapporto[j].fase = "no" /\ richiesta[j].fase = "no"
  <2>1. ~ClaimNuovo(j) /\ ~Finito(j)
    BY <1>1, ImagePipelineAssumption DEF ClaimNuovo, Finito
  <2> QED BY <2>1 DEF InvJob, ClaimDellaRichiesta, UnaPubblicazione
<1>3. /\ In(p, "libero") /\ ponte'[p] = [pc |-> "chiede", lavoro |-> j]
      /\ \A q \in Ponte \ {p} : ponte'[q] = ponte[q]
      /\ richiesta'[j] = [fase |-> IF UsaCheckpoint(j) THEN "claim" ELSE "risposta", per |-> p]
      /\ \A k \in JobId \ {j} : richiesta'[k] = richiesta[k]
      /\ UNCHANGED gatevars /\ UNCHANGED <<rapporto, durata>>
  BY DEF Tipi, Chiede
<1>4. ASSUME UsaCheckpoint(j), NEW q \in Ponte, NEW k \in JobId, UsaCheckpoint(k) PROVE ~SulLavoro(q, k)
  <2> SUFFICES ASSUME SulLavoro(q, k) PROVE FALSE
    OBVIOUS
  <2>1. q = p
    BY <1>1, <1>4, LavoroDelMac
  <2> QED BY <1>3, <2>1 DEF SulLavoro
<1>5. ASSUME NEW q \in Ponte, NEW k \in JobId, SulLavoro(q, k)'
      PROVE  (q = p /\ k = j) \/ (q # p /\ SulLavoro(q, k))
  BY <1>3, <1>5 DEF SulLavoro, In
<1>6. Capace'
  BY <1>1, <1>5 DEF Capace
<1>7. ProprietarioCheckpoint' /\ FaseVera'
  BY <1>3 DEF ProprietarioCheckpoint, FaseVera, UsaCheckpoint, gatevars
<1>8. RichiestaSola'
  <2> SUFFICES ASSUME NEW k \in JobId, UsaCheckpoint(k), richiesta'[k].fase # "no"
               PROVE  /\ rapporto'[k].fase = "no"
                      /\ \A q \in Ponte : SulLavoro(q, k)' => q = richiesta'[k].per /\ In(q, "chiede")'
    BY DEF RichiestaSola, UsaCheckpoint
  <2>1. CASE k = j
    BY <1>2, <1>3, <1>4, <1>5, <2>1 DEF In
  <2>2. CASE k # j
    BY <1>3, <1>5, <2>2 DEF RichiestaSola, In
  <2> QED BY <2>1, <2>2
<1>9. AttesaProtetta'
  BY <1>2, <1>3 DEF AttesaProtetta, gatevars
<1>10. RispostaProtetta'
  BY <1>3 DEF RispostaProtetta, UsaCheckpoint, gatevars
<1>11. RenderProtetto'
  <2> SUFFICES ASSUME NEW q \in Ponte, NEW k \in JobId, Impegna(q, k)'
               PROVE  /\ owner \in JobId /\ prenota[owner] = "concessa"
                      /\ rapporto[owner].fase = "no" /\ richiesta'[owner].fase = "no"
                      /\ resto + Eta(q)' >= Lease
    BY <1>3 DEF RenderProtetto, gatevars
  <2>1. UsaCheckpoint(k) /\ q # p /\ SulLavoro(q, k)
    BY <1>3, <1>5 DEF Impegna, UsaCheckpoint
  <2>2. ~UsaCheckpoint(j) /\ k # j
    BY <1>4, <2>1
  <2>3. job[k].stato = "running"
    BY <1>1, <2>2, PotatiCorrevano DEF Impegna, Potati
  <2>4. Impegna(q, k) /\ Eta(q)' = Eta(q)
    BY <1>3, <2>1, <2>3 DEF Impegna, Eta, In
  <2> QED BY <1>3, <2>2, <2>4 DEF RenderProtetto, ProprietarioCheckpoint
<1>12. G!IInv'
  BY <1>3, FermaTiene
<1> QED BY <1>6, <1>7, <1>8, <1>9, <1>10, <1>11, <1>12

\* A reservation: refused while somebody relies on another, or the only one.
LEMMA PassoRiserva ==
  ASSUME IInvPorta, NEW j \in JobId, Riserva(j) \/ RiservaAttende(j)
  PROVE  InvPorta' /\ G!IInv'
<1> USE DEF IInvPorta, IInv, InvPorta
<1>1. UsaCheckpoint(j) /\ richiesta[j].fase \in {"claim", "gate"}
  BY DEF FaseVera, Riserva, RiservaAttende
<1>2. /\ UNCHANGED <<codavars, ponte, durata, rapporto>>
      /\ richiesta'[j].fase # "no" /\ richiesta'[j].per = richiesta[j].per
      /\ \A k \in JobId \ {j} : richiesta'[k] = richiesta[k]
  BY PassaEffetto DEF Riserva, RiservaAttende, FasiRichiesta, Tipi
<1>3. G!IInv'
  <2>1. Riserva(j) => prenota[j] # "attesa"
    BY DEF Riserva, AttesaProtetta
  <2> QED BY <2>1, G!PassoImmagine, AssunzioniPorta, IdDistinti DEF Riserva, RiservaAttende
<1>4. Capace' /\ RichiestaSola'
  BY <1>1, <1>2 DEF Capace, RichiestaSola, SulLavoro, In, UsaCheckpoint
<1>5. FaseVera'
  BY <1>1, <1>2 DEF FaseVera, UsaCheckpoint
<1>6. /\ prenota' = [prenota EXCEPT ![j] = prenota'[j]]
      /\ \A k \in JobId \ {j} : prenota'[k] = prenota[k]
      /\ prenota[j] # "attesa" \/ RiservaAttende(j)
  BY DEF Riserva, RiservaAttende, G!ReserveRinnova, G!ReserveRifiuta, G!ReservePrende,
         G!ReserveConcessa, G!ReserveScaduta, AttesaProtetta, G!IInv, G!TypeOK
<1> DEFINE Nuova == /\ owner' = j /\ resto' = Lease
                    /\ \/ richiesta'[j].fase = "gate" /\ prenota'[j] = "attesa"
                       \/ richiesta'[j].fase = "risposta" /\ prenota'[j] = "concessa"
           Sola == /\ \A k \in JobId \ {j} : prenota[k] # "attesa"
                   /\ \A k \in JobId \ {j} : UsaCheckpoint(k) => richiesta[k].fase # "risposta"
                   /\ \A p \in Ponte, k \in JobId : ~Impegna(p, k)
           Negata == richiesta'[j].fase = "rifiuto" /\ prenota'[j] = "no"
<1>7. owner = j => Sola
  BY <1>1 DEF G!IInv, G!AttesaPossiede, RispostaProtetta, RenderProtetto
<1>8. ~Serve => Sola
  BY DEF Serve
<1>9. \/ Nuova /\ Sola
      \/ Negata /\ Sola /\ owner' \in {j, G!Nessuno}
      \/ Negata /\ PortaTenuta
  <2>1. ASSUME G!ReserveRinnova(j), Passa(j, "risposta") PROVE Nuova /\ Sola
    BY <1>1, <1>7, <2>1, PassaEffetto, IdDistinti
       DEF G!ReserveRinnova, G!Proprietario, G!Assegna, G!IInv, G!TypeOK, FasiRichiesta, Tipi
  <2>2. ASSUME G!ReserveRifiuta(j), Passa(j, "rifiuto") PROVE Negata /\ PortaTenuta
    <3>1. owner # j /\ owner' = owner /\ resto' = resto /\ prenota'[j] = "no"
      BY <2>2 DEF G!ReserveRifiuta, G!Proprietario, G!RestoVivo, G!Scade, G!IInv, G!TypeOK
    <3>2. richiesta'[j].fase = "rifiuto"
      BY <1>1, <2>2, PassaEffetto DEF FasiRichiesta, Tipi
    <3>3. Serve => prenota'[owner] = prenota[owner]
      BY <1>6, <3>1, ServeEffetto
    <3> QED BY <1>6, <3>1, <3>2, <3>3 DEF PortaTenuta
  <2>3. ASSUME G!ReservePrende(j), Passa(j, IF prenota'[j] = "attesa" THEN "gate" ELSE "risposta")
        PROVE  Nuova /\ Sola
    <3>1. ~Serve
      BY <2>3, ServeEffetto, IdDistinti DEF G!ReservePrende, G!Proprietario
    <3>2. owner' = j /\ resto' = Lease /\ prenota'[j] \in {"attesa", "concessa"}
      BY <2>3, IdDistinti DEF G!ReservePrende, G!Assegna, G!IInv, G!TypeOK
    <3>3. richiesta'[j].fase = IF prenota'[j] = "attesa" THEN "gate" ELSE "risposta"
      BY <1>1, <2>3, PassaEffetto DEF FasiRichiesta, Tipi
    <3> QED BY <1>8, <3>1, <3>2, <3>3
  <2>4. ASSUME G!ReserveConcessa(j), Passa(j, "risposta") PROVE Nuova /\ Sola
    <3>1. owner = j /\ resto = Lease
      BY <2>4 DEF G!ReserveConcessa, G!IInv, G!AttesaPossiede, AttesaProtetta
    <3>2. owner' = j /\ resto' = Lease /\ prenota'[j] = "concessa"
      BY <2>4, <3>1 DEF G!ReserveConcessa, G!IInv, G!TypeOK
    <3> QED BY <1>1, <1>7, <2>4, <3>1, <3>2, PassaEffetto DEF FasiRichiesta, Tipi
  <2>5. ASSUME G!ReserveScaduta(j), Passa(j, "rifiuto")
        PROVE  Negata /\ Sola /\ owner' \in {j, G!Nessuno}
    <3>1. owner = j
      BY <2>5 DEF G!ReserveScaduta, G!IInv, G!AttesaPossiede
    <3>2. owner' = G!Nessuno /\ prenota'[j] = "no"
      BY <2>5 DEF G!ReserveScaduta, G!Assegna, G!IInv, G!TypeOK
    <3> QED BY <1>1, <1>7, <2>5, <3>1, <3>2, PassaEffetto DEF FasiRichiesta, Tipi
  <2> QED BY <2>1, <2>2, <2>3, <2>4, <2>5 DEF Riserva, RiservaAttende
<1>10. \A p \in Ponte, k \in JobId : Impegna(p, k)' => Impegna(p, k) /\ Eta(p)' = Eta(p)
  BY <1>2 DEF Impegna, SulLavoro, In, Eta, UsaCheckpoint, codavars
<1>11. CASE (Nuova \/ (Negata /\ owner' \in {j, G!Nessuno})) /\ Sola
  <2>1. ProprietarioCheckpoint'
    BY <1>1, <1>11, IdDistinti DEF ProprietarioCheckpoint, UsaCheckpoint
  <2>2. AttesaProtetta'
    BY <1>6, <1>11 DEF AttesaProtetta
  <2>3. RispostaProtetta'
    BY <1>2, <1>11 DEF RispostaProtetta, UsaCheckpoint
  <2>4. RenderProtetto'
    BY <1>10, <1>11 DEF RenderProtetto
  <2> QED BY <1>3, <1>4, <1>5, <2>1, <2>2, <2>3, <2>4
<1>12. CASE Negata /\ PortaTenuta
  <2>1. ProprietarioCheckpoint'
    BY <1>12, IdDistinti DEF ProprietarioCheckpoint, PortaTenuta, UsaCheckpoint
  <2>2. AttesaProtetta'
    BY <1>2, <1>6, <1>12 DEF AttesaProtetta, PortaTenuta, Serve
  <2>3. RispostaProtetta'
    BY <1>2, <1>6, <1>12 DEF RispostaProtetta, PortaTenuta, Serve, UsaCheckpoint
  <2>4. RenderProtetto'
    <3> SUFFICES ASSUME NEW p \in Ponte, NEW k \in JobId, Impegna(p, k)'
                 PROVE  /\ owner' \in JobId /\ prenota'[owner'] = "concessa"
                        /\ rapporto'[owner'].fase = "no" /\ richiesta'[owner'].fase = "no"
                        /\ resto' + Eta(p)' >= Lease
      BY DEF RenderProtetto
    <3>1. Impegna(p, k) /\ Serve /\ Eta(p)' = Eta(p)
      BY <1>10 DEF Serve
    <3>2. /\ owner \in JobId /\ prenota[owner] = "concessa" /\ rapporto[owner].fase = "no"
          /\ richiesta[owner].fase = "no" /\ resto + Eta(p) >= Lease
      BY <3>1 DEF RenderProtetto
    <3>3. owner' = owner /\ resto' = resto /\ prenota'[owner] = prenota[owner] /\ owner # j
      BY <1>1, <1>12, <3>1, <3>2 DEF PortaTenuta
    <3> QED BY <1>2, <3>1, <3>2, <3>3
  <2> QED BY <1>3, <1>4, <1>5, <2>1, <2>2, <2>3, <2>4
<1> QED BY <1>9, <1>11, <1>12

\* The answer: the job reaches the bridge with its reservation, or nobody.
LEMMA PassoRisponde ==
  ASSUME IInvPorta, NEW j \in JobId, Risponde(j)
  PROVE  InvPorta' /\ G!IInv'
<1> USE DEF IInvPorta, IInv, InvPorta
<1>1. /\ richiesta[j].fase = "risposta" /\ richiesta'[j].fase = "no"
      /\ \A k \in JobId \ {j} : richiesta'[k] = richiesta[k]
      /\ UNCHANGED codavars /\ UNCHANGED gatevars /\ UNCHANGED <<durata, rapporto>>
  BY DEF Risponde, Tipi, NessunThread
<1>2. G!IInv'
  BY <1>1, FermaTiene
<1>3. richiesta[j].per \in Ponte
  BY <1>1 DEF Tipi, Richieste, NessunThread
<1>4. ASSUME NEW p \in Ponte
      PROVE  \/ ponte'[p] = ponte[p]
             \/ /\ ponte[p].lavoro = j /\ ponte[p].pc = "chiede"
                /\ ponte'[p].pc = "prepara" /\ ponte'[p].lavoro = j
  BY <1>3, VaEffetto DEF Risponde, Aspetta, Tipi, In, FasiPonte
<1>5. Capace' /\ ProprietarioCheckpoint' /\ FaseVera'
  BY <1>1, <1>4
     DEF Capace, ProprietarioCheckpoint, FaseVera, UsaCheckpoint, SulLavoro, In, gatevars
<1>6. RichiestaSola'
  <2> SUFFICES ASSUME NEW k \in JobId \ {j}, UsaCheckpoint(k), richiesta[k].fase # "no"
               PROVE  /\ rapporto[k].fase = "no"
                      /\ \A p \in Ponte : SulLavoro(p, k)' => p = richiesta[k].per /\ In(p, "chiede")'
    BY <1>1 DEF RichiestaSola, UsaCheckpoint
  <2> QED BY <1>4 DEF RichiestaSola, SulLavoro, In
<1>7. AttesaProtetta' /\ RispostaProtetta'
  BY <1>1 DEF AttesaProtetta, RispostaProtetta, UsaCheckpoint, gatevars
<1>8. RenderProtetto'
  <2> SUFFICES ASSUME NEW p \in Ponte, NEW k \in JobId, Impegna(p, k)'
               PROVE  /\ owner \in JobId /\ prenota[owner] = "concessa"
                      /\ rapporto[owner].fase = "no" /\ richiesta'[owner].fase = "no"
                      /\ resto + Eta(p)' >= Lease
    BY <1>1 DEF RenderProtetto, gatevars
  <2>1. CASE ponte'[p] = ponte[p]
    <3>1. Impegna(p, k) /\ Eta(p)' = Eta(p)
      BY <1>1, <2>1 DEF Impegna, SulLavoro, In, Eta, UsaCheckpoint, codavars
    <3> QED BY <1>1, <3>1 DEF RenderProtetto
  <2>2. CASE ponte'[p].pc = "prepara" /\ ponte'[p].lavoro = j
    <3>1. k = j /\ UsaCheckpoint(j) /\ Eta(p)' = 0
      BY <2>2 DEF Impegna, SulLavoro, In, Eta, UsaCheckpoint
    <3>2. owner = j /\ prenota[j] = "concessa" /\ resto = Lease
      BY <1>1, <3>1 DEF RispostaProtetta
    <3>3. rapporto[j].fase = "no"
      BY <1>1, <3>1 DEF RichiestaSola
    <3> QED BY <1>1, <3>1, <3>2, <3>3, ImagePipelineAssumption
  <2> QED BY <1>4, <2>1, <2>2
<1> QED BY <1>2, <1>5, <1>6, <1>7, <1>8

\* A restart: every checkpoint job in hand is restored, and one of them is granted.
LEMMA PassoRestart ==
  ASSUME IInvPorta, IInv', CadeControlPlane
  PROVE  InvPorta' /\ G!IInv'
<1> USE DEF IInvPorta, IInv, InvPorta
<1> DEFINE R == {j \in JobId : job'[j].stato = "running" /\ UsaCheckpoint(j)}
<1>1. R = Restaurati
  BY DEF Restaurati
<1>2. PICK o \in IF R = {} THEN {G!Nessuno} ELSE R :
        G!Assegna(o) /\ prenota' = [j \in JobId |-> IF j = o THEN "concessa" ELSE "no"]
  BY <1>1 DEF CadeControlPlane
<1>3. /\ owner' = o /\ resto' = IF o = G!Nessuno THEN 0 ELSE Lease
      /\ \A j \in JobId : prenota'[j] = IF j = o THEN "concessa" ELSE "no"
  BY <1>2 DEF G!Assegna
<1>4. o \in JobId => UsaCheckpoint(o)
  BY <1>2, IdDistinti
<1>5. /\ \A j \in JobId : richiesta'[j].fase = "no" /\ rapporto'[j].fase = "no"
      /\ \A c \in Chat : chat'[c] = "fuori"
      /\ \A p \in Ponte, j \in JobId : SulLavoro(p, j)' => SulLavoro(p, j)
  BY DEF CadeControlPlane, NessunThread, SulLavoro, In, Fermo, Tipi
<1>6. G!IInv'
  <2>1. G!TypeOK'
    OBVIOUS
  <2>2. G!Dentro' = {}
    BY <1>5 DEF G!Dentro
  <2> QED BY <1>3, <2>1, <2>2, IdDistinti
          DEF G!IInv, G!PrenotazioneEsclude, G!AttesaPossiede, G!PossessoPrenotato
<1>7. Capace' /\ ProprietarioCheckpoint' /\ FaseVera' /\ RichiestaSola'
  BY <1>3, <1>4, <1>5 DEF Capace, ProprietarioCheckpoint, FaseVera, RichiestaSola, UsaCheckpoint
<1>8. AttesaProtetta' /\ RispostaProtetta'
  BY <1>3, <1>5 DEF AttesaProtetta, RispostaProtetta
<1>9. RenderProtetto'
  <2> SUFFICES ASSUME NEW p \in Ponte, NEW j \in JobId, Impegna(p, j)'
               PROVE  /\ owner' \in JobId /\ prenota'[owner'] = "concessa"
                      /\ rapporto'[owner'].fase = "no" /\ richiesta'[owner'].fase = "no"
                      /\ resto' + Eta(p)' >= Lease
    BY DEF RenderProtetto
  <2>1. j \in R
    BY DEF Impegna, UsaCheckpoint
  <2>2. o \in JobId /\ owner' = o /\ resto' = Lease
    BY <1>2, <1>3, <2>1, IdDistinti
  <2>3. Eta(p)' \in Nat /\ Lease \in Nat
    BY ImagePipelineAssumption DEF Eta, Tipi
  <2> QED BY <1>3, <1>5, <2>2, <2>3
<1> QED BY <1>6, <1>7, <1>8, <1>9

\* Time: a lease and the render it protects grow old together.
LEMMA PassoOrologio ==
  ASSUME IInvPorta, Tick
  PROVE  InvPorta' /\ G!IInv'
<1> USE DEF IInvPorta, IInv, InvPorta
<1>1. G!IInv'
  BY G!PassoTempo, AssunzioniPorta, IdDistinti DEF Tick
<1>2. /\ UNCHANGED <<ponte, richiesta, rapporto, owner, prenota>>
      /\ \A j \in JobId : richiesta[j].fase = "no" /\ rapporto[j].fase = "no"
      /\ resto' = IF resto = 0 THEN 0 ELSE resto - 1
  BY DEF Tick, G!Tick, threadvars, NessunThread
<1>3. Capace' /\ ProprietarioCheckpoint' /\ FaseVera' /\ RichiestaSola'
  BY <1>2 DEF Capace, ProprietarioCheckpoint, FaseVera, RichiestaSola, UsaCheckpoint, SulLavoro, In
<1>4. AttesaProtetta' /\ RispostaProtetta'
  BY <1>2 DEF AttesaProtetta, RispostaProtetta
<1>5. RenderProtetto'
  <2> SUFFICES ASSUME NEW p \in Ponte, NEW j \in JobId, Impegna(p, j)'
               PROVE  /\ owner \in JobId /\ prenota[owner] = "concessa"
                      /\ resto' + Eta(p)' >= Lease
    BY <1>2 DEF RenderProtetto
  <2>1. job[j].stato = "running"
    BY TempoEffetto DEF Tick, Impegna
  <2>2. In(p, "rende")
    BY <1>2 DEF Impegna, SulLavoro, In, Tick
  <2>3. Eta(p) = durata[p] /\ Eta(p)' = durata[p] + 1 /\ durata[p] \in Nat
    BY <1>2, <2>2, ImagePipelineAssumption DEF Eta, In, Tick, Tipi
  <2>4. Eta(p) < Lease
    BY <2>3, ImagePipelineAssumption DEF Impegna
  <2>5. Impegna(p, j)
    BY <1>2, <2>1, <2>2, <2>4 DEF Impegna, SulLavoro, In, UsaCheckpoint
  <2>6. owner \in JobId /\ prenota[owner] = "concessa" /\ resto + Eta(p) >= Lease /\ resto > 0
    BY <2>5, ServeEffetto DEF RenderProtetto, Serve
  <2> QED BY <1>2, <2>3, <2>6, ImagePipelineAssumption DEF G!IInv, G!TypeOK
<1> QED BY <1>1, <1>3, <1>4, <1>5

LEMMA IInvPortaInit == Init => IInvPorta
<1> SUFFICES ASSUME Init PROVE IInvPorta
  OBVIOUS
<1>1. G!IInv
  BY G!IInvInit, AssunzioniPorta, IdDistinti DEF Init
<1>2. InvPorta
  BY IdDistinti
     DEF Init, G!Init, InvPorta, Capace, ProprietarioCheckpoint, FaseVera, RichiestaSola,
         AttesaProtetta, RispostaProtetta, RenderProtetto, Impegna, SulLavoro, In, Fermo,
         NessunThread, UsaCheckpoint
<1> QED BY <1>1, <1>2, IInvInit DEF IInvPorta

LEMMA IInvPortaNext ==
  ASSUME UnSoloMac
  PROVE  IInvPorta /\ [Next]_vars => IInvPorta'
<1> SUFFICES ASSUME IInvPorta, [Next]_vars PROVE IInvPorta'
  OBVIOUS
<1>1. IInv'
  BY IInvNext DEF IInvPorta
<1>2. FiliTenuti /\ PortaTenuta => InvPorta'
  <2>1. \A p \in Ponte : Eta(p) \in Nat /\ Eta(p)' \in Nat
    BY <1>1, ImagePipelineAssumption DEF IInvPorta, IInv, Tipi, Eta
  <2> QED BY <2>1, TieneConserva
<1>3. CASE \E p \in Ponte, j \in JobId : Chiede(p, j)
  BY <1>1, <1>3, PassoChiedePorta DEF IInvPorta
<1>4. CASE \E j \in JobId : Riserva(j) \/ RiservaAttende(j)
  BY <1>1, <1>4, PassoRiserva DEF IInvPorta
<1>5. CASE \E j \in JobId : Risponde(j)
  BY <1>1, <1>5, PassoRisponde DEF IInvPorta
<1>6. CASE CadeControlPlane
  BY <1>1, <1>6, PassoRestart DEF IInvPorta
<1>7. CASE Tick
  BY <1>1, <1>7, PassoOrologio DEF IInvPorta
<1>8. CASE \/ Coda \/ RichiestaChat \/ UNCHANGED vars
           \/ \E p \in Ponte : PonteNonAspetta(p) \/ RinvioPerso(p) \/ CadePonte(p)
                               \/ RinviaCoda(p) \/ RiferisceDoppione(p)
           \/ \E j \in JobId : Rifiuta(j) \/ RapportoCoda(j) \/ RapportoGate(j) \/ RapportoEffetti(j)
  BY <1>1, <1>2, <1>8, PassoQuieto DEF IInvPorta
<1>9. CASE \E p \in Ponte :
             \/ Rende(p) \/ NonPronto(p) \/ FineRender(p) \/ RinviaGate(p)
             \/ \E ok \in BOOLEAN : Riferisce(p, ok)
  BY <1>1, <1>2, <1>9, PassoLavoro DEF IInvPorta
<1> QED BY <1>3, <1>4, <1>5, <1>6, <1>7, <1>8, <1>9 DEF Next

\* Where one bridge renders the checkpoint families, no chat is inside during the
\* first lease of a render, whatever the ceiling of the render: for any number of
\* jobs, bridges and chats, after a restart, with replies lost, requests that
\* outlive their bridge, and reports that come twice.  What a render does after its
\* lease is what the run `lease` shows.
THEOREM RiservataPerUnLease ==
  ASSUME UnSoloMac
  PROVE  Spec => []MemoriaRiservataEntroLease
<1>1. IInvPorta => MemoriaRiservataEntroLease
  <2> SUFFICES ASSUME IInvPorta, NEW p \in Ponte, In(p, "rende"), durata[p] < Lease,
                      UsaCheckpoint(ponte[p].lavoro), job[ponte[p].lavoro].stato = "running"
               PROVE  G!Dentro = {}
    BY DEF MemoriaRiservataEntroLease
  <2>1. PICK j \in JobId : j = ponte[p].lavoro
    BY LavoroTipo DEF IInvPorta, IInv, Tipi, In
  <2>2. Impegna(p, j)
    BY <2>1 DEF Impegna, SulLavoro, In, Eta
  <2>3. owner \in JobId /\ prenota[owner] = "concessa" /\ resto > 0
    BY <2>2, ServeEffetto DEF IInvPorta, InvPorta, RenderProtetto, Serve
  <2> QED BY <2>3, IdDistinti DEF IInvPorta, G!IInv, G!PrenotazioneEsclude, G!Proprietario
<1>2. IInvPorta /\ [Next]_vars => IInvPorta'
  BY IInvPortaNext
<1> QED BY <1>1, <1>2, IInvPortaInit, PTL DEF Spec

=============================================================================
