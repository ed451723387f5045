---------------------------- MODULE ChannelFacts ----------------------------
(***************************************************************************)
(* What a room leaves in the shared memory: /channel/ingest and            *)
(* /channel/result of cp/canali.py (control-plane, src/) with the waves of *)
(* spam, the tips and the debounce of ChannelGuard (shared/channel.py).    *)
(*                                                                         *)
(* A fact is a key.  The mark of the debounce is set before the entry is   *)
(* written, in a step of its own, and several requests run together.       *)
(***************************************************************************)
EXTENDS Integers, Sequences

CONSTANTS
  Richiesta,   \* threads of the server
  Soglia,      \* verdicts of spam that make a wave
  Finestra     \* ... in this time; also the time of the debounce

ChannelFactsAssumption == Finestra \in Nat \ {0}

VARIABLES
  spam,        \* ages of the last verdicts of spam, the oldest first (_spam)
  visto,       \* [Fatto -> age of its mark] (_memoria)
  riga,        \* history: [Fatto -> entries written since its mark, 2 for more]
  richiesta    \* [Richiesta -> [fase, fatto]]

vars == <<spam, visto, riga, richiesta>>

Fatto == {"spam_wave", "tip", "mod"}
Mai == Finestra + 1
Piu(e) == IF e < Mai THEN e + 1 ELSE Mai
Va(r, fase, f) == richiesta' = [richiesta EXCEPT ![r] = [fase |-> fase, fatto |-> f]]

Ondata == Len(spam) >= Soglia   \* spam_wave

Init ==
  /\ spam = <<>> /\ visto = [f \in Fatto |-> Mai] /\ riga = [f \in Fatto |-> 0]
  /\ richiesta = [r \in Richiesta |-> [fase |-> "libera", fatto |-> "mod"]]

\* what follows in the request: a tip comes before the end of its batch
Dopo(f) == IF f = "tip" THEN "onda" ELSE "libera"

\* Mutant of Ricorda: a request that finds the mark renews it.
RicordaSempre(r, f) ==
  /\ visto' = [visto EXCEPT ![f] = 0]
  /\ riga' = (IF visto[f] >= Finestra THEN [riga EXCEPT ![f] = 0] ELSE riga)
  /\ Va(r, IF visto[f] >= Finestra THEN "scrive" ELSE Dopo(f), f)

\* Mutant of Ricorda: the mark is looked at, and left to the one who writes.
RicordaSenzaSegno(r, f) ==
  /\ Va(r, IF riga[f] = 0 THEN "scrive" ELSE Dopo(f), f)
  /\ UNCHANGED <<visto, riga>>

\* _channel_remember up to the entry: should_remember gives a key one entry in a
\* window, and sets its mark before the entry is written
Ricorda(r, f) ==
  IF visto[f] >= Finestra
  THEN /\ visto' = [visto EXCEPT ![f] = 0] /\ riga' = [riga EXCEPT ![f] = 0]
       /\ Va(r, "scrive", f)
  ELSE UNCHANGED <<visto, riga>> /\ Va(r, Dopo(f), f)

-----------------------------------------------------------------------------

\* channel_ingest with a message, whose verdict ChannelGuard gives
Messaggio(r, sospetto) ==
  /\ richiesta[r].fase = "libera"
  /\ spam' = (IF ~sospetto THEN spam
              ELSE Append(IF Ondata THEN Tail(spam) ELSE spam, 0))
  /\ Va(r, "onda", "spam_wave")
  /\ UNCHANGED <<visto, riga>>

\* ... with a tip
Tip(r) == richiesta[r].fase = "libera" /\ Ricorda(r, "tip") /\ UNCHANGED spam

\* the end of the batch: a wave under way is a fact
Guarda(r) ==
  /\ richiesta[r].fase = "onda"
  /\ IF Ondata THEN Ricorda(r, "spam_wave") ELSE Va(r, "libera", "mod") /\ UNCHANGED <<visto, riga>>
  /\ UNCHANGED spam

\* channel_result: the driver has silenced somebody
Moderato(r) == richiesta[r].fase = "libera" /\ Ricorda(r, "mod") /\ UNCHANGED spam

\* _memory_append: a write that fails is logged, and the mark stays
Scrive(r, riesce) ==
  LET f == richiesta[r].fatto IN
  /\ richiesta[r].fase = "scrive"
  /\ riga' = (IF riesce THEN [riga EXCEPT ![f] = IF @ < 2 THEN @ + 1 ELSE 2] ELSE riga)
  /\ Va(r, Dopo(f), f)
  /\ UNCHANGED <<spam, visto>>

\* time; a write takes less than a window
Passa ==
  /\ \A r \in Richiesta : richiesta[r].fase = "scrive" => visto[richiesta[r].fatto] < Finestra - 1
  /\ spam' = SelectSeq([i \in 1..Len(spam) |-> spam[i] + 1], LAMBDA e : e <= Finestra)
  /\ visto' = [f \in Fatto |-> Piu(visto[f])] 
  /\ UNCHANGED <<riga, richiesta>>

\* a restart of the control plane: everything is in memory
Riavvia ==
  /\ spam' = <<>> /\ visto' = [f \in Fatto |-> Mai] /\ riga' = [f \in Fatto |-> 0]
  /\ richiesta' = [r \in Richiesta |-> [fase |-> "libera", fatto |-> "mod"]]

Next ==
  \/ Passa \/ Riavvia
  \/ \E r \in Richiesta :
       Tip(r) \/ Guarda(r) \/ Moderato(r) \/ \E b \in BOOLEAN : Messaggio(r, b) \/ Scrive(r, b)

Spec == Init /\ [][Next]_vars

\* requests end, time passes, and the memory can be written again and again
FairSpec ==
  /\ Spec
  /\ WF_vars(Passa)
  /\ \A r \in Richiesta : /\ WF_vars(Guarda(r)) /\ WF_vars(\E b \in BOOLEAN : Scrive(r, b))
                          /\ SF_vars(richiesta[r].fatto = "spam_wave" /\ Scrive(r, TRUE))

-----------------------------------------------------------------------------
(* Properties. *)

TypeOK ==
  /\ spam \in UNION {[1..k -> 0..Finestra] : k \in 0..Soglia}
  /\ visto \in [Fatto -> 0..Mai] /\ riga \in [Fatto -> 0..2]
  /\ richiesta \in [Richiesta -> [fase : {"libera", "onda", "scrive"}, fatto : Fatto]]

\* "una riga, non cento": however many requests see the same wave, a fact is written
\* at most once for each mark.
UnaRigaPerFinestra == \A f \in Fatto : riga[f] <= 1

\* A wave that goes on is remembered, even when the memory cannot be written at first:
\* the mark it left behind lapses.
OndataRicordata == <>[]Ondata /\ ~[]<><<Riavvia>>_vars => []<>(riga["spam_wave"] = 1)
=============================================================================
