---------------------------- MODULE ChannelGuard ----------------------------
(***************************************************************************)
(* Who is silenced in a room: the ChannelGuard of shared/channel.py (src/),*)
(* called by /channel/ingest for every message a driver reports.  It keeps *)
(* for each author the last texts, the times of the last messages and the  *)
(* strikes, which lapse, and forgets the author silent for longest when    *)
(* its table is full.  Saving the Setup changes the thresholds and keeps   *)
(* the strikes.                                                            *)
(*                                                                         *)
(* One lock covers a message, so a message is an action.  Times are ages,  *)
(* counted by Passa and kept only as long as the code can tell them apart. *)
(***************************************************************************)
EXTENDS Integers, Sequences, FiniteSets

CONSTANTS
  Autore,
  Frase,          \* normalised texts
  Vietati,        \* those that match one of the spam patterns
  MaxAutori,      \* max_authors
  Storia,         \* history: texts remembered of each author
  Decadimento,    \* strike_decay_s
  Soglie,         \* thresholds: [muto, bando, raffica, finestra], for strike_mute, strike_ban,
                  \* flood_max and flood_window_s
  BandoMassimo,   \* the highest strike_ban: more strikes are not told apart
  FinestraMassima \* the longest flood_window_s

\* what __init__ and reconfigure make of any configuration: a mute from the first strike or
\* later, a ban not before it
ChannelGuardAssumption ==
  /\ MaxAutori \in Nat \ {0} /\ Decadimento \in Nat /\ BandoMassimo \in Nat
  /\ \A s \in Soglie : s.muto \in Nat \ {0} /\ s.bando \in Nat
                       /\ s.muto <= s.bando /\ s.bando <= BandoMassimo

VARIABLES
  autori,         \* _autori: [Autore -> state of the author, or Ignoto]
  tracciati,      \* the authors in the table
  esito,          \* the last verdict: [su, spam, azione]
  colpi,          \* history: [Autore -> [eta, serie, spinto]]: the age of the last verdict of
                  \* spam; how many in a row, none later than Decadimento after the one before;
                  \* has the author been pushed out of the table since?
  dopo,           \* "ultimo": [Autore -> who has spoken since its last message]
  soglie          \* the thresholds in force

vars == <<autori, tracciati, esito, colpi, dopo, soglie>>

Ignoto == [storia |-> <<>>, tempi |-> <<>>, strike |-> 0, eta |-> 0]
Niente == [su |-> {}, spam |-> FALSE, azione |-> "nessuna"]
Mai == Decadimento + 1
MaiColpito == [eta |-> Mai, serie |-> 0, spinto |-> FALSE]

Minimo(a, b) == IF a < b THEN a ELSE b
Ultimi(s, n) == SubSeq(s, 1 + (IF Len(s) > n THEN Len(s) - n ELSE 0), Len(s))
Contiene(s, x) == \E i \in 1..Len(s) : s[i] = x
Eta == 0..Mai

Init ==
  /\ autori = [a \in Autore |-> Ignoto] /\ tracciati = {} /\ esito = Niente
  /\ colpi = [a \in Autore |-> MaiColpito]
  /\ dopo = [a \in Autore |-> {}] /\ soglie \in Soglie

-----------------------------------------------------------------------------
(* observe. *)

\* Mutant of Dimenticati: the author that has just spoken is forgotten.
DimenticatiUltimi(a) ==
  IF a \in tracciati \/ Cardinality(tracciati) < MaxAutori THEN {}
  ELSE {b \in tracciati : dopo[b] = {}}

\* _stato: a new author takes the place of the one silent for longest
Dimenticati(a) ==
  IF a \in tracciati \/ Cardinality(tracciati) < MaxAutori THEN {}
  ELSE {b \in tracciati : tracciati \ {b} \subseteq dopo[b]}

\* classifica: a forbidden text, or one of the last texts again
Sospetto(t, s) == t \in Vietati \/ Contiene(s, t)

\* _strike
StrikeValidi(s) == IF s.eta > Decadimento THEN 0 ELSE s.strike

\* _azione
Azione(strike) ==
  IF strike >= soglie.bando THEN "ban" ELSE IF strike >= soglie.muto THEN "mute" ELSE "nessuna"

\* the messages of the window
Recenti(tempi, finestra) == SelectSeq(tempi, LAMBDA e : e <= finestra)

\* what is known of an author after a message
Dopo(s, t, spam) ==
  [storia |-> Ultimi(Append(s.storia, t), Storia),
   tempi |-> Ultimi(Append(Recenti(s.tempi, soglie.finestra), 0), 2 * soglie.raffica),
   strike |-> IF spam THEN Minimo(StrikeValidi(s) + 1, BandoMassimo) ELSE s.strike,
   eta |-> IF spam THEN 0 ELSE s.eta]

\* one more suspicion in a row, or the first again
Colpito(c) ==
  [eta |-> 0, serie |-> IF c.spinto THEN 1 ELSE Minimo(c.serie + 1, BandoMassimo), spinto |-> FALSE]

Osserva(a, t) ==
  LET s    == autori[a]
      spam == Sospetto(t, s.storia)
              \/ Len(Recenti(s.tempi, soglie.finestra)) + 1 > soglie.raffica
      n    == Dopo(s, t, spam)
  IN /\ tracciati' = (tracciati \ Dimenticati(a)) \union {a}
     /\ autori' = [b \in Autore |-> IF b = a THEN n ELSE IF b \in Dimenticati(a) THEN Ignoto ELSE autori[b]]
     /\ esito' = [su |-> {a}, spam |-> spam,
                  azione |-> IF spam THEN Azione(n.strike) ELSE "nessuna"]
     /\ dopo' = [b \in Autore |-> IF b = a \/ b \notin tracciati THEN {} ELSE dopo[b] \union {a}]
     /\ colpi' = [b \in Autore |->
          IF b = a THEN IF spam THEN Colpito(colpi[a]) ELSE colpi[a]
          ELSE IF colpi[b].eta = Mai THEN colpi[b]
          ELSE [colpi[b] EXCEPT !.spinto = @ \/ Cardinality(dopo'[b]) >= MaxAutori]]
     /\ UNCHANGED soglie

\* reconfigure
Riconfigura(s) ==
  /\ soglie' = s /\ esito' = Niente
  /\ UNCHANGED <<autori, tracciati, colpi, dopo>>

\* a tick later
Invecchiati(tempi) == Recenti([i \in 1..Len(tempi) |-> tempi[i] + 1], FinestraMassima)

\* time
Passa ==
  /\ autori' = [a \in Autore |->
       [storia |-> autori[a].storia, tempi |-> Invecchiati(autori[a].tempi), strike |-> autori[a].strike,
        eta |-> IF autori[a].strike = 0 THEN 0 ELSE Minimo(autori[a].eta + 1, Mai)]]
  /\ colpi' = [a \in Autore |-> IF colpi[a].eta < Decadimento THEN [colpi[a] EXCEPT !.eta = @ + 1]
                               ELSE MaiColpito]
  /\ esito' = Niente
  /\ UNCHANGED <<tracciati, dopo, soglie>>

Next ==
  \/ Passa \/ \E s \in Soglie : Riconfigura(s)
  \/ \E a \in Autore, t \in Frase : Osserva(a, t)

Spec == Init /\ [][Next]_vars

-----------------------------------------------------------------------------
(* Properties. *)

TypeOK ==
  /\ \A a \in Autore :
       /\ Len(autori[a].storia) <= Storia /\ \A i \in DOMAIN autori[a].storia : autori[a].storia[i] \in Frase
       /\ \A i \in DOMAIN autori[a].tempi : autori[a].tempi[i] \in 0..FinestraMassima
       /\ autori[a].strike \in 0..BandoMassimo /\ autori[a].eta \in Eta
       /\ colpi[a] \in [eta : Eta, serie : 0..BandoMassimo, spinto : BOOLEAN]
       /\ dopo[a] \subseteq Autore
  /\ tracciati \subseteq Autore /\ Cardinality(tracciati) <= MaxAutori
  /\ esito.su \subseteq Autore /\ esito.spam \in BOOLEAN
  /\ esito.azione \in {"nessuna", "mute", "ban"} /\ soglie \in Soglie

\* Who is silenced has been suspected as many times in a row as a mute asks for, none later
\* than a strike lasts after the one before, and who is banned as many as a ban does: with
\* the second strike for a mute, as the program ships, "nessuna punizione al primo colpo".
PunitoSoloRecidivo ==
  \A a \in esito.su :
    /\ esito.azione # "nessuna" => esito.spam /\ colpi[a].serie >= soglie.muto
    /\ esito.azione = "ban" => colpi[a].serie >= soglie.bando

\* "Cambiare le soglie non deve graziare chi era gia' a due strike": who has been suspected
\* that many times in a row is silenced, or banned, whatever the thresholds were before,
\* unless as many authors as the table holds have spoken between two of its messages.
RecidivoFermato ==
  \A a \in esito.su :
    esito.spam =>
      /\ colpi[a].serie >= soglie.muto => esito.azione # "nessuna"
      /\ colpi[a].serie >= soglie.bando => esito.azione = "ban"
=============================================================================
