-------------------------- MODULE ImageMemoryGate --------------------------
(***************************************************************************)
(* The memory gate of the Mac: class ImageMemoryGate in                    *)
(* src/shared/image_memory_gate.py.  The unified memory holds either the   *)
(* chat model or an image checkpoint: chat requests enter and leave, an    *)
(* image reserves the gate and waits until the chats inside have left.  A  *)
(* reservation is a lease, and passes from one image to the next through   *)
(* the transitory owner "__checkpoint_queue__".                            *)
(*                                                                         *)
(* Every method runs under the lock of a condition variable; the only      *)
(* places where it gives the lock up are the two calls of wait(), so a     *)
(* method is one action up to its first wait, and one for what follows.    *)
(* Every change a waiter waits for is followed by notify_all, so a waiter  *)
(* may go on as soon as its condition holds.  Both waits last 120 s, the   *)
(* lease 1200 s: a wait may run out at any moment between two ticks of the *)
(* lease.                                                                  *)
(*                                                                         *)
(* Callers: a chat request leaves once, after it entered; a job is         *)
(* reserved by one request at a time, and continued or released after it   *)
(* was granted.  ImagePipeline composes the gate with its real callers.    *)
(***************************************************************************)
EXTENDS Integers, FiniteSets, TLAPS

CONSTANTS
  JobId,     \* image jobs
  Chat,      \* chat requests
  Lease      \* lease_s, in ticks

ASSUME ImageMemoryGateAssumption == IsFiniteSet(Chat) /\ Lease \in Nat \ {0}

Nessuno == "nessuno"                    \* _owner = ""
CodaImmagini == "__checkpoint_queue__"  \* _CODA_IMMAGINI

ASSUME ProprietariDistinti == Nessuno \notin JobId /\ CodaImmagini \notin JobId

VARIABLES
  owner,     \* _owner
  resto,     \* what is left of the lease; at 0 it has expired (_expires)
  chat,      \* [Chat -> {"fuori", "attesa", "dentro"}]: outside, waiting, inside
  prenota    \* [JobId -> {"no", "attesa", "concessa"}]: the reserve_image calls

gvars == <<owner, resto, chat, prenota>>

Dentro == {c \in Chat : chat[c] = "dentro"}     \* _chats is its cardinality

\* _expire_locked: an expired owner is no owner
\* Mutant of Proprietario: the gate kept for the next image has no lease.
ProprietarioSenzaScadenza == IF resto = 0 /\ owner # CodaImmagini THEN Nessuno ELSE owner

Proprietario == IF resto = 0 THEN Nessuno ELSE owner

RestoVivo == IF Proprietario = Nessuno THEN 0 ELSE resto

\* Mutant of Assegna: a lease longer than lease_s.
AssegnaOltre(o) == owner' = o /\ resto' = IF o = Nessuno THEN 0 ELSE Lease + 1

Assegna(o) == owner' = o /\ resto' = IF o = Nessuno THEN 0 ELSE Lease

Scade == owner' = Proprietario /\ resto' = RestoVivo

Init ==
  /\ owner = Nessuno /\ resto = 0
  /\ chat = [c \in Chat |-> "fuori"]
  /\ prenota = [j \in JobId |-> "no"]

-----------------------------------------------------------------------------
(* The chat requests. *)

\* Mutant of EnterChat: the gate kept for the next image looks free.
EnterChatTraImmagini(c) ==
  /\ chat[c] = "fuori"
  /\ Scade
  /\ chat' = [chat EXCEPT
       ![c] = IF Proprietario \in {Nessuno, CodaImmagini} THEN "dentro" ELSE "attesa"]
  /\ UNCHANGED prenota

\* enter_chat: in at once, or waits for the owner to go
EnterChat(c) ==
  /\ chat[c] = "fuori"
  /\ Scade
  /\ chat' = [chat EXCEPT ![c] = IF Proprietario = Nessuno THEN "dentro" ELSE "attesa"]
  /\ UNCHANGED prenota

\* a waiting chat finds the gate free, or its lease expired
ChatSveglia(c) ==
  /\ chat[c] = "attesa" /\ Proprietario = Nessuno
  /\ Scade
  /\ chat' = [chat EXCEPT ![c] = "dentro"]
  /\ UNCHANGED prenota

\* the wait runs out: 503
ChatRinuncia(c) ==
  /\ chat[c] = "attesa" /\ Proprietario # Nessuno
  /\ chat' = [chat EXCEPT ![c] = "fuori"]
  /\ UNCHANGED <<owner, resto, prenota>>

LeaveChat(c) ==
  /\ chat[c] = "dentro"
  /\ chat' = [chat EXCEPT ![c] = "fuori"]
  /\ UNCHANGED <<owner, resto, prenota>>

-----------------------------------------------------------------------------
(* reserve_image, up to its return or to its wait *)

\* the owner asks again: the lease starts again, whatever chats are inside
ReserveRinnova(j) ==
  /\ Proprietario = j
  /\ Assegna(j)
  /\ prenota' = [prenota EXCEPT ![j] = "concessa"]
  /\ UNCHANGED chat

\* another job owns the gate: False
ReserveRifiuta(j) ==
  /\ Proprietario \notin {j, Nessuno, CodaImmagini}
  /\ Scade
  /\ prenota' = [prenota EXCEPT ![j] = "no"]
  /\ UNCHANGED chat

\* the gate is free or kept for the next image: taken, then wait for the chats
ReservePrende(j) ==
  /\ Proprietario \in {Nessuno, CodaImmagini}
  /\ Assegna(j)
  /\ prenota' = [prenota EXCEPT ![j] = IF Dentro = {} THEN "concessa" ELSE "attesa"]
  /\ UNCHANGED chat

\* the last chat has left; the owner is not looked at again
ReserveConcessa(j) ==
  /\ prenota[j] = "attesa" /\ Dentro = {}
  /\ prenota' = [prenota EXCEPT ![j] = "concessa"]
  /\ UNCHANGED <<owner, resto, chat>>

\* the wait for the chats runs out: the gate is left, whoever owns it; False
ReserveScaduta(j) ==
  /\ prenota[j] = "attesa" /\ Dentro # {}
  /\ Assegna(Nessuno)
  /\ prenota' = [prenota EXCEPT ![j] = "no"]
  /\ UNCHANGED chat

ContinueImageQueue(j) ==
  /\ IF Proprietario = j THEN Assegna(CodaImmagini) ELSE Scade
  /\ prenota' = [prenota EXCEPT ![j] = "no"]
  /\ UNCHANGED chat

\* Mutant of ReleaseImage: whoever owns the gate loses it.
ReleaseImageDiTutti(j) ==
  /\ Assegna(Nessuno)
  /\ prenota' = [prenota EXCEPT ![j] = "no"]
  /\ UNCHANGED chat

ReleaseImage(j) ==
  /\ IF owner = j THEN Assegna(Nessuno) ELSE UNCHANGED <<owner, resto>>
  /\ prenota' = [prenota EXCEPT ![j] = "no"]
  /\ UNCHANGED chat

\* The lease runs; a wait for the chats (120 s) never outlives it.
Tick ==
  /\ \A j \in JobId : prenota[j] = "attesa" => resto > 1
  /\ resto' = IF resto = 0 THEN 0 ELSE resto - 1
  /\ UNCHANGED <<owner, chat, prenota>>

Next ==
  \/ \E c \in Chat : EnterChat(c) \/ ChatSveglia(c) \/ ChatRinuncia(c) \/ LeaveChat(c)
  \/ \E j \in JobId :
       /\ prenota[j] # "attesa"
       /\ ReserveRinnova(j) \/ ReserveRifiuta(j) \/ ReservePrende(j)
  \/ \E j \in JobId : ReserveConcessa(j) \/ ReserveScaduta(j)
  \/ \E j \in JobId : prenota[j] = "concessa" /\ (ContinueImageQueue(j) \/ ReleaseImage(j))
  \/ Tick

Spec == Init /\ [][Next]_gvars

-----------------------------------------------------------------------------
(* Properties. *)

TypeOK ==
  /\ owner \in JobId \union {Nessuno, CodaImmagini}
  /\ resto \in 0..Lease
  /\ chat \in [Chat -> {"fuori", "attesa", "dentro"}]
  /\ prenota \in [JobId -> {"no", "attesa", "concessa"}]

\* No chat is inside while the gate belongs to an image whose reservation was
\* granted, or is kept between two images: the memory is never shared.
PrenotazioneEsclude ==
  Proprietario # Nessuno /\ (Proprietario \in JobId => prenota[owner] = "concessa")
    => Dentro = {}

\* A granted reservation ends only by its lease or by the job it belongs to.
PrenotazioneResta ==
  [][\A j \in JobId :
       Proprietario = j /\ prenota[j] = "concessa" /\ resto > 1 =>
         Proprietario' = j \/ prenota'[j] = "no"]_gvars

\* The gate is shut for ever only while images keep asking for it: a reservation that
\* nobody renews or follows runs out, the one between two images included, and a
\* request that waits for the chats is granted or gives up.  With a stream of images
\* that never ends no chat may get in (continue_image_queue), and each is answered 503.
ChiusaSoloSeRichiesta ==
  \/ []<>(Proprietario = Nessuno)
  \/ []<><<\E j \in JobId : ReservePrende(j) \/ ReserveRinnova(j)>>_gvars

-----------------------------------------------------------------------------
(* Proofs, for any number of chats and images and any lease. *)

\* A request that waits for the chats owns the gate, and its lease is running.
AttesaPossiede == \A j \in JobId : prenota[j] = "attesa" => owner = j /\ resto > 0

\* The gate belongs to an image only through a request that is waiting or granted.
PossessoPrenotato == owner \in JobId /\ resto > 0 => prenota[owner] \in {"attesa", "concessa"}

\* Exclusion alone is not inductive: a renewal keeps out no chat, so the owner
\* that renews must be one whose chats have already left.
IInv == TypeOK /\ PrenotazioneEsclude /\ AttesaPossiede /\ PossessoPrenotato

-----------------------------------------------------------------------------
LEMMA IInvInit == Init => IInv
BY ImageMemoryGateAssumption, ProprietariDistinti
   DEF Init, IInv, TypeOK, PrenotazioneEsclude, AttesaPossiede, PossessoPrenotato,
       Proprietario, Dentro, Nessuno

\* The steps of the chats: one enters only a gate without a live owner.
LEMMA PassoChat ==
  ASSUME IInv, NEW c \in Chat, EnterChat(c) \/ ChatSveglia(c) \/ ChatRinuncia(c) \/ LeaveChat(c)
  PROVE  IInv'
<1> USE ImageMemoryGateAssumption, ProprietariDistinti
    DEF IInv, TypeOK, PrenotazioneEsclude, AttesaPossiede, PossessoPrenotato,
        Proprietario, RestoVivo, Scade, Dentro, Nessuno, CodaImmagini
<1>1. CASE EnterChat(c)
  BY <1>1 DEF EnterChat
<1>2. CASE ChatSveglia(c)
  BY <1>2 DEF ChatSveglia
<1>3. CASE ChatRinuncia(c)
  BY <1>3 DEF ChatRinuncia
<1>4. CASE LeaveChat(c)
  BY <1>4 DEF LeaveChat
<1> QED BY <1>1, <1>2, <1>3, <1>4

\* The steps of the images: a grant is given only when no chat is inside.  A job
\* may be continued or released without a grant, but not while it waits for one.
LEMMA PassoImmagine ==
  ASSUME IInv, NEW j \in JobId,
         \/ /\ prenota[j] # "attesa"
            /\ \/ ReserveRinnova(j) \/ ReserveRifiuta(j) \/ ReservePrende(j)
               \/ ContinueImageQueue(j) \/ ReleaseImage(j)
         \/ ReserveConcessa(j) \/ ReserveScaduta(j)
  PROVE  IInv'
<1> USE ImageMemoryGateAssumption, ProprietariDistinti
    DEF IInv, TypeOK, PrenotazioneEsclude, AttesaPossiede, PossessoPrenotato,
        Proprietario, RestoVivo, Scade, Assegna, Dentro, Nessuno, CodaImmagini
<1>1. CASE prenota[j] # "attesa" /\ ReserveRinnova(j)
  BY <1>1 DEF ReserveRinnova
<1>2. CASE prenota[j] # "attesa" /\ ReserveRifiuta(j)
  BY <1>2 DEF ReserveRifiuta
<1>3. CASE prenota[j] # "attesa" /\ ReservePrende(j)
  BY <1>3 DEF ReservePrende
<1>4. CASE ReserveConcessa(j)
  BY <1>4 DEF ReserveConcessa
<1>5. CASE ReserveScaduta(j)
  BY <1>5 DEF ReserveScaduta
<1>6. CASE prenota[j] # "attesa" /\ ContinueImageQueue(j)
  BY <1>6 DEF ContinueImageQueue
<1>7. CASE prenota[j] # "attesa" /\ ReleaseImage(j)
  BY <1>7 DEF ReleaseImage
<1> QED BY <1>1, <1>2, <1>3, <1>4, <1>5, <1>6, <1>7

\* Time takes a lease away, and gives nobody anything.
LEMMA PassoTempo == IInv /\ Tick => IInv'
BY ImageMemoryGateAssumption, ProprietariDistinti
   DEF Tick, IInv, TypeOK, PrenotazioneEsclude, AttesaPossiede, PossessoPrenotato,
       Proprietario, Dentro, Nessuno, CodaImmagini

LEMMA IInvNext == IInv /\ [Next]_gvars => IInv'
<1> SUFFICES ASSUME IInv, [Next]_gvars PROVE IInv'
  OBVIOUS
<1>1. CASE Tick
  BY <1>1, PassoTempo
<1>2. CASE UNCHANGED gvars
  BY <1>2 DEF gvars, IInv, TypeOK, PrenotazioneEsclude, AttesaPossiede, PossessoPrenotato,
              Proprietario, Dentro
<1> QED BY <1>1, <1>2, PassoChat, PassoImmagine DEF Next

\* Every field of the gate keeps its type.
THEOREM TipoCorretto == Spec => []TypeOK
<1>1. IInv => TypeOK
  BY DEF IInv
<1> QED BY <1>1, IInvInit, IInvNext, PTL DEF Spec

\* No chat is inside while the gate belongs to a granted image or is kept
\* between two images, for any number of chats and images.
THEOREM MemoriaMaiCondivisa == Spec => []PrenotazioneEsclude
<1>1. IInv => PrenotazioneEsclude
  BY DEF IInv
<1> QED BY <1>1, IInvInit, IInvNext, PTL DEF Spec

-----------------------------------------------------------------------------
\* A step that is not the owner's own leaves a granted reservation alone.
LEMMA PrenotazionePasso ==
  ASSUME IInv, [Next]_gvars, NEW j \in JobId,
         Proprietario = j, prenota[j] = "concessa", resto > 1
  PROVE  Proprietario' = j \/ prenota'[j] = "no"
<1> USE ImageMemoryGateAssumption, ProprietariDistinti
    DEF Proprietario, RestoVivo, Scade, Assegna, IInv, TypeOK, Nessuno, CodaImmagini
<1>1. ASSUME NEW c \in Chat, EnterChat(c) \/ ChatSveglia(c) \/ ChatRinuncia(c) \/ LeaveChat(c)
      PROVE  Proprietario' = j
  BY <1>1 DEF EnterChat, ChatSveglia, ChatRinuncia, LeaveChat
<1>2. ASSUME NEW k \in JobId, ReserveRinnova(k) \/ ReserveRifiuta(k) \/ ReservePrende(k)
      PROVE  Proprietario' = j
  BY <1>2 DEF ReserveRinnova, ReserveRifiuta, ReservePrende
<1>3. ASSUME NEW k \in JobId, ReserveConcessa(k) \/ ReserveScaduta(k)
      PROVE  Proprietario' = j
  BY <1>3 DEF ReserveConcessa, ReserveScaduta, AttesaPossiede
<1>4. ASSUME NEW k \in JobId, ContinueImageQueue(k) \/ ReleaseImage(k)
      PROVE  Proprietario' = j \/ prenota'[j] = "no"
  BY <1>4 DEF ContinueImageQueue, ReleaseImage
<1>5. CASE Tick
  BY <1>5 DEF Tick
<1>6. CASE UNCHANGED gvars
  BY <1>6 DEF gvars
<1> QED BY <1>1, <1>2, <1>3, <1>4, <1>5, <1>6 DEF Next

\* A granted reservation ends only by its lease or by the job it belongs to: no
\* refused, late or duplicate request of another job takes it.
THEOREM PrenotazioneRispettata == Spec => PrenotazioneResta
<1>1. IInv /\ [Next]_gvars =>
        [\A j \in JobId : Proprietario = j /\ prenota[j] = "concessa" /\ resto > 1 =>
           Proprietario' = j \/ prenota'[j] = "no"]_gvars
  BY PrenotazionePasso
<1> QED BY <1>1, IInvInit, IInvNext, PTL DEF Spec, PrenotazioneResta

=============================================================================
