--------------------------- MODULE PersonaDreams ---------------------------
(***************************************************************************)
(* The identity document and its dreams: shared/persona.py (PersonaStore), *)
(* shared/persona_dream.py (journal, filter, scheduler) and the routes,    *)
(* the tool and the loop of the control-plane that use them.               *)
(*                                                                         *)
(* Routes, the tool and the night loop are threads: only the reflections   *)
(* take a lock.  The journal is read and written back whole, each of the   *)
(* two a step; so are the save of the identity and the reload of Setup.    *)
(***************************************************************************)
EXTENDS Naturals, Sequences, FiniteSets, SequencesExt, FiniteSetTheorems, SequenceTheorems, TLAPS

CONSTANTS
  Proposta,    \* sequences of texts that a reflection may propose, or the agent note
  Revisore,    \* review requests
  Guasti,      \* may a write to disk fail?
  MaxOsservazioni,  \* MAX_OBSERVATIONS
  MaxSogni,    \* bound: reports
  MaxGiorni,   \* bound: local dates
  MaxCadute    \* bound: restarts of the control-plane

PersonaDreamsAssumption == MaxSogni \in Nat
ASSUME CostantiAmmesse == PersonaDreamsAssumption

VARIABLES
  identita,    \* [ram, disco]: the observations of the document, oldest first
  diario,      \* the journal on disk: Seq([id, stato, testi, da, giorno])
  data,        \* [ram, disco]: last_date of the dream's state
  sogno,       \* [Chi -> [fase, osservate, giorno, righe, report]]: loop and manual request
  revisione,   \* [Revisore -> [fase, id, azione, promosse, righe]]
  giorno,
  nati,        \* reports begun
  cadute

vars == <<identita, diario, data, sogno, revisione, giorno, nati, cadute>>

Chi == {"notte", "mano"}
Nulla == [id |-> 0, stato |-> "", testi |-> <<>>, da |-> "", giorno |-> 0]
Dorme == [fase |-> "ferma", osservate |-> {}, giorno |-> 0, righe |-> <<>>, report |-> Nulla]
Libera == [fase |-> "libera", id |-> 0, azione |-> "", promosse |-> FALSE, righe |-> <<>>]

Init ==
  /\ identita = [ram |-> <<>>, disco |-> <<>>] /\ diario = <<>>
  /\ data = [ram |-> 0, disco |-> 0]
  /\ sogno = [c \in Chi |-> Dorme] /\ revisione = [r \in Revisore |-> Libera]
  /\ giorno = 1 /\ nati = 0 /\ cadute = 0

\* _persona_dream_lock is held, and running is true until the state is saved
Preso == \E c \in Chi : sogno[c].fase \in {"pensa", "salva", "legge", "scrive"}
InCorso == \E c \in Chi : sogno[c].fase \in {"pensa", "salva"}

TestiDi(stato) == UNION {ToSet(diario[i].testi) : i \in {j \in DOMAIN diario : diario[j].stato = stato}}

\* observe: a text equal to the last one is not added again, the oldest are forgotten
Annotata(seq, t) ==
  IF seq # <<>> /\ Last(seq) = t THEN seq
  ELSE IF Len(seq) < MaxOsservazioni THEN Append(seq, t) ELSE Append(Tail(seq), t)
Annotate(seq, testi) == FoldLeft(Annotata, seq, testi)

-----------------------------------------------------------------------------
(* One reflection: the loop, or POST /persona/dream.                         *)

\* due(): enabled, in the window, idle, and not done today
Dovuto ==
  /\ sogno["notte"].fase = "ferma" /\ ~InCorso /\ data.ram # giorno
  /\ sogno' = [sogno EXCEPT !["notte"].fase = "sveglia"]
  /\ UNCHANGED <<identita, diario, data, revisione, giorno, nati, cadute>>

\* _materiale_identita: what the document says before the model is asked.  The rooms, the
\* guard and the social echoes only colour the prompt
Materiale == ToSet(identita.ram)

\* the lock, and the material
Avvia(c) ==
  /\ sogno[c].fase = (IF c = "notte" THEN "sveglia" ELSE "ferma")
  /\ \/ ~Preso /\ nati < MaxSogni /\ nati' = nati + 1
        /\ sogno' = [sogno EXCEPT ![c] =
             [Dorme EXCEPT !.fase = "pensa", !.osservate = Materiale, !.giorno = giorno,
                           !.report = [Nulla EXCEPT !.id = nati', !.da = c, !.giorno = giorno]]]
     \/ Preso /\ sogno' = [sogno EXCEPT ![c] = Dorme] /\ UNCHANGED nati
  /\ UNCHANGED <<identita, diario, data, revisione, giorno, cadute>>

\* _proponi_identita: one call to the model, which proposes some texts or raises
Risposte == [riesce : {TRUE}, testi : Proposta] \cup {[riesce |-> FALSE, testi |-> <<>>]}

\* the filter drops what is known, rejected or pending
Filtrate(c, p) ==
  SelectSeq(p, LAMBDA t : t \notin sogno[c].osservate \cup TestiDi("rejected") \cup TestiDi("candidate"))
Riflette(c) ==
  /\ sogno[c].fase = "pensa"
  /\ \E risposta \in Risposte :
       LET f == Filtrate(c, risposta.testi) IN
       sogno' = [sogno EXCEPT ![c] = [@ EXCEPT !.fase = "salva", !.report =
                   [sogno[c].report EXCEPT !.testi = f,
                      !.stato = IF ~risposta.riesce THEN "failed"
                                ELSE IF f = <<>> THEN "empty" ELSE "candidate"]]]
  /\ UNCHANGED <<identita, diario, data, revisione, giorno, nati, cadute>>

\* mutant: the date stays in memory only
SalvaSoloInMemoria(c) ==
  /\ sogno[c].fase = "salva" /\ data' = [data EXCEPT !.ram = sogno[c].giorno]
  /\ sogno' = [sogno EXCEPT ![c].fase = "legge"]
  /\ UNCHANGED <<identita, diario, revisione, giorno, nati, cadute>>

\* the finally of run_once: the date of today, whatever came out; if it cannot be
\* written the exception leaves without a report
Salva(c) ==
  /\ sogno[c].fase = "salva"
  /\ \/ data' = [ram |-> sogno[c].giorno, disco |-> sogno[c].giorno]
        /\ sogno' = [sogno EXCEPT ![c].fase = "legge"]
     \/ Guasti /\ data' = [data EXCEPT !.ram = sogno[c].giorno] /\ sogno' = [sogno EXCEPT ![c] = Dorme]
  /\ UNCHANGED <<identita, diario, revisione, giorno, nati, cadute>>

\* journal.append: the whole file is read, then written with the report
Appende(c) ==
  /\ sogno[c].fase = "legge" /\ sogno' = [sogno EXCEPT ![c] = [@ EXCEPT !.fase = "scrive", !.righe = diario]]
  /\ UNCHANGED <<identita, diario, data, revisione, giorno, nati, cadute>>
AppendeScrive(c) ==
  /\ sogno[c].fase = "scrive"
  /\ \/ diario' = Append(sogno[c].righe, sogno[c].report)
     \/ Guasti /\ UNCHANGED diario
  /\ sogno' = [sogno EXCEPT ![c] = Dorme]
  /\ UNCHANGED <<identita, data, revisione, giorno, nati, cadute>>

-----------------------------------------------------------------------------
(* POST /persona/dreams/<id>/review.                                         *)

\* only a candidate is reviewed; on promote the document is changed in memory first
Rivede(r) ==
  /\ revisione[r].fase = "libera"
  /\ \E i \in DOMAIN diario, a \in {"promote", "reject"} :
       /\ diario[i].stato = "candidate"
       /\ LET dopo == IF a = "promote" THEN Annotate(identita.ram, diario[i].testi) ELSE identita.ram
          IN /\ identita' = [identita EXCEPT !.ram = dopo]
             /\ revisione' = [revisione EXCEPT ![r] =
                  [Libera EXCEPT !.fase = "salva", !.id = diario[i].id, !.azione = a,
                                 !.promosse = dopo # identita.ram]]
  /\ UNCHANGED <<diario, data, sogno, giorno, nati, cadute>>

\* one save for all the notes, if there is any: without it the review is not recorded
SalvaIdentita(r) ==
  /\ revisione[r].fase = "salva"
  /\ \/ /\ identita' = IF revisione[r].promosse THEN [identita EXCEPT !.disco = identita.ram] ELSE identita
        /\ revisione' = [revisione EXCEPT ![r].fase = "legge"]
     \/ /\ revisione[r].promosse /\ Guasti
        /\ revisione' = [revisione EXCEPT ![r] = Libera] /\ UNCHANGED identita
  /\ UNCHANGED <<diario, data, sogno, giorno, nati, cadute>>

\* journal.review: read, check that it is still a candidate, write back
Registra(r) ==
  /\ revisione[r].fase = "legge"
  /\ LET aperte == {i \in DOMAIN diario : diario[i].id = revisione[r].id /\ diario[i].stato = "candidate"}
         nuovo == IF revisione[r].azione = "promote" THEN "promoted" ELSE "rejected"
     IN \/ /\ aperte = {} /\ revisione' = [revisione EXCEPT ![r] = Libera]
        \/ \E i \in aperte :
             revisione' = [revisione EXCEPT ![r] =
                [revisione[r] EXCEPT !.fase = "scrive", !.righe = [diario EXCEPT ![i].stato = nuovo]]]
  /\ UNCHANGED <<identita, diario, data, sogno, giorno, nati, cadute>>
RegistraScrive(r) ==
  /\ revisione[r].fase = "scrive"
  /\ \/ diario' = revisione[r].righe
     \/ Guasti /\ UNCHANGED diario
  /\ revisione' = [revisione EXCEPT ![r] = Libera]
  /\ UNCHANGED <<identita, data, sogno, giorno, nati, cadute>>

-----------------------------------------------------------------------------
(* The tool, Setup, the clock and restarts.                                  *)

\* the tool persona_note: a save that fails leaves the note in memory only
Annota ==
  \E p \in Proposta, scritta \in {TRUE, ~Guasti} : \E t \in ToSet(p) :
    LET dopo == Annotata(identita.ram, t) IN
    /\ dopo # identita.ram
    /\ identita' = [ram |-> dopo, disco |-> IF scritta THEN dopo ELSE identita.disco]
    /\ UNCHANGED <<diario, data, sogno, revisione, giorno, nati, cadute>>

\* _reload_persona: the document from disk, and the dream's state unless one is running
Ricarica ==
  /\ identita' = [identita EXCEPT !.ram = identita.disco]
  /\ data' = IF InCorso THEN data ELSE [data EXCEPT !.ram = data.disco]
  /\ UNCHANGED <<diario, sogno, revisione, giorno, nati, cadute>>

\* external: midnight
Domani ==
  /\ giorno < MaxGiorni /\ giorno' = giorno + 1
  /\ UNCHANGED <<identita, diario, data, sogno, revisione, nati, cadute>>

\* external: the process stops; the document is written in place, so one being saved
\* may be left unreadable, and load then starts from the default identity
Cade ==
  /\ cadute < MaxCadute /\ cadute' = cadute + 1
  /\ \E d \in {identita.disco} \cup
              (IF \E r \in Revisore : revisione[r].fase = "salva" /\ revisione[r].promosse THEN {<<>>} ELSE {}) :
       identita' = [ram |-> d, disco |-> d]
  /\ data' = [data EXCEPT !.ram = data.disco]
  /\ sogno' = [c \in Chi |-> Dorme] /\ revisione' = [r \in Revisore |-> Libera]
  /\ UNCHANGED <<diario, giorno, nati>>

Sogni == \E c \in Chi : Avvia(c) \/ Riflette(c) \/ Salva(c) \/ Appende(c) \/ AppendeScrive(c)
Revisioni == \E r \in Revisore : Rivede(r) \/ SalvaIdentita(r) \/ Registra(r) \/ RegistraScrive(r)
Next == Dovuto \/ Sogni \/ Revisioni \/ Annota \/ Ricarica \/ Domani \/ Cade

Spec == Init /\ [][Next]_vars

-----------------------------------------------------------------------------
\* Reports, requests and the document keep their shape; one reflection at a time holds
\* the lock.
TypeOK ==
  /\ \A i \in DOMAIN diario : diario[i].stato \in {"candidate", "empty", "failed", "promoted", "rejected"}
  /\ \A c \in Chi : sogno[c].fase \in {"ferma", "sveglia", "pensa", "salva", "legge", "scrive"}
  /\ \A r \in Revisore : revisione[r].fase \in {"libera", "salva", "legge", "scrive"}
  /\ Cardinality({c \in Chi : sogno[c].fase \in {"pensa", "salva", "legge", "scrive"}}) <= 1
  /\ {data.ram, data.disco} \subseteq 0..giorno /\ nati <= MaxSogni

\* The night loop leaves at most one reflection a day in the journal, however its saves,
\* the reloads of Setup and the restarts fall between its steps.
UnSognoPerNotte ==
  \A i, j \in DOMAIN diario :
    i # j /\ diario[i].da = "notte" /\ diario[j].da = "notte" => diario[i].giorno # diario[j].giorno

\* persona_dream_review: "prima si scrive l'identita', poi si registra la revisione": what
\* the journal calls promoted has entered the document on disk.
PassoScritto ==
  \A i \in DOMAIN diario' :
    diario'[i].stato = "promoted" /\ (i \notin DOMAIN diario \/ diario[i].stato # "promoted")
      => ToSet(diario'[i].testi) \subseteq ToSet(identita'.disco)
PromossaScritta == [][PassoScritto]_vars

-----------------------------------------------------------------------------
(* Proofs: UnSognoPerNotte for any number of reviewers, reports, days and restarts. *)

Stati == {"candidate", "empty", "failed", "promoted", "rejected"}
ConLock == {"pensa", "salva", "legge", "scrive"}

\* The shape of the state; T is whatever the texts and the ids are.
RigheDi(T) == [id : T, stato : Stati \union {""}, testi : T, da : Chi \union {""}, giorno : Nat]
SogniDi(T) ==
  [fase : {"ferma", "sveglia"} \union ConLock, osservate : T, giorno : Nat,
   righe : Seq(RigheDi(T)), report : RigheDi(T)]
RevisioniDi(T) ==
  [fase : {"libera", "salva", "legge", "scrive"}, id : T, azione : {"", "promote", "reject"}, promosse : BOOLEAN,
   righe : Seq(RigheDi(T))]
Fondo(T) == 0 \in T /\ <<>> \in T /\ {} \in T
Tipi(T) ==
  /\ Fondo(T) /\ diario \in Seq(RigheDi(T)) /\ sogno \in [Chi -> SogniDi(T)]
  /\ revisione \in [Revisore -> RevisioniDi(T)]
  /\ data \in [ram : Nat, disco : Nat] /\ giorno \in Nat
  /\ nati \in 0..MaxSogni

\* A reflection with the lock: its report is of its day, and the date on disk (d) is behind
\* it until it is saved, and no longer after that.
Regolare(q, c, g, d) ==
  /\ q.fase \in ConLock => q.giorno <= g /\ q.report.da = c /\ q.report.giorno = q.giorno
  /\ q.fase \in {"pensa", "salva"} => d <= q.giorno
  /\ q.fase \in {"legge", "scrive"} => q.giorno <= d
  /\ q.fase \in {"salva", "legge", "scrive"} => q.report.stato # ""
Date ==
  /\ data.disco <= data.ram /\ data.ram <= giorno
  /\ \A c \in Chi : Regolare(sogno[c], c, giorno, data.disco)
UnoSolo == \A c, d \in Chi : sogno[c].fase \in ConLock /\ sogno[d].fase \in ConLock => c = d

\* The day before which every night in the journal falls: that of the reflection to come.
Prossima ==
  IF sogno["notte"].fase = "ferma" THEN data.disco + 1
  ELSE IF sogno["notte"].fase = "sveglia" THEN giorno ELSE sogno["notte"].giorno

\* A copy of the journal: its nights are of different days, none later than the date on
\* disk, all before p.
Copia(righe, disco, p) ==
  \A i \in DOMAIN righe :
    /\ righe[i].stato # ""
    /\ righe[i].da = "notte" =>
         /\ righe[i].giorno <= disco /\ righe[i].giorno < p
         /\ \A j \in DOMAIN righe : righe[j].da = "notte" /\ i # j => righe[i].giorno # righe[j].giorno

\* The journal, and the copies that reflections and reviews will write back whole.
Copie ==
  /\ Copia(diario, data.disco, Prossima)
  /\ \A c \in Chi : Copia(sogno[c].righe, data.disco, Prossima)
  /\ \A r \in Revisore : Copia(revisione[r].righe, data.disco, Prossima)

Inv == Date /\ UnoSolo /\ Copie
IInv == (\E T : Tipi(T)) /\ Inv

LEMMA Oltre ==
  \A g, d, d2, p, p2 \in Nat :
    g <= d /\ g < p /\ d <= d2 /\ (p <= p2 \/ d < p2) => g <= d2 /\ g < p2
OBVIOUS

\* A copy stays good when the date on disk and the day of the next night move on.
LEMMA CopiaResta ==
  ASSUME NEW T, NEW righe \in Seq(RigheDi(T)), NEW d \in Nat, NEW d2 \in Nat, NEW p \in Nat, NEW p2 \in Nat,
         Copia(righe, d, p), d <= d2, p <= p2 \/ d < p2
  PROVE  Copia(righe, d2, p2)
<1> SUFFICES ASSUME NEW i \in DOMAIN righe
             PROVE  /\ righe[i].stato # ""
                    /\ righe[i].da = "notte" =>
                         /\ righe[i].giorno <= d2 /\ righe[i].giorno < p2
                         /\ \A j \in DOMAIN righe :
                              righe[j].da = "notte" /\ i # j => righe[i].giorno # righe[j].giorno
  BY DEF Copia
<1>1. righe[i] \in RigheDi(T)
  OBVIOUS
<1>2. righe[i].giorno \in Nat
  BY <1>1 DEF RigheDi
<1>3. /\ righe[i].stato # ""
      /\ righe[i].da = "notte" =>
           /\ righe[i].giorno <= d /\ righe[i].giorno < p
           /\ \A j \in DOMAIN righe :
                righe[j].da = "notte" /\ i # j => righe[i].giorno # righe[j].giorno
  BY DEF Copia
<1>4. righe[i].da = "notte" => righe[i].giorno <= d2 /\ righe[i].giorno < p2
  BY <1>2, <1>3, Oltre
<1> QED BY <1>3, <1>4

LEMMA ProssimaTipata == ASSUME NEW T, Tipi(T) PROVE Prossima \in Nat /\ data.disco \in Nat /\ data.ram \in Nat
BY DEF Tipi, Prossima, SogniDi, Chi

\* A step after which every copy is one that was good before it, or empty.
LEMMA CopieRestano ==
  ASSUME NEW T, Tipi(T), Tipi(T)', data.disco <= data'.disco,
         Prossima <= Prossima' \/ data.disco < Prossima',
         Copia(diario', data.disco, Prossima) \/ Copia(diario', data'.disco, Prossima'),
         \A c \in Chi : Copia(sogno'[c].righe, data.disco, Prossima),
         \A r \in Revisore : Copia(revisione'[r].righe, data.disco, Prossima)
  PROVE  Copie'
<1>1. Prossima \in Nat /\ data.disco \in Nat
  BY ProssimaTipata
<1>2. Prossima' \in Nat /\ data'.disco \in Nat
  <2>1. giorno' \in Nat /\ data'.disco \in Nat /\ sogno'["notte"].giorno \in Nat
    BY DEF Tipi, SogniDi, Chi
  <2> QED BY <2>1 DEF Prossima
<1>3. ASSUME NEW righe \in Seq(RigheDi(T)), Copia(righe, data.disco, Prossima)
      PROVE  Copia(righe, data'.disco, Prossima')
  BY <1>1, <1>2, <1>3, CopiaResta
<1>4. /\ diario' \in Seq(RigheDi(T))
      /\ \A c \in Chi : sogno'[c].righe \in Seq(RigheDi(T))
      /\ \A r \in Revisore : revisione'[r].righe \in Seq(RigheDi(T))
  BY DEF Tipi, SogniDi, RevisioniDi
<1>5. Copia(diario', data'.disco, Prossima')
  BY <1>3, <1>4
<1>6. \A c \in Chi : Copia(sogno'[c].righe, data'.disco, Prossima')
  BY <1>3, <1>4
<1>7. \A r \in Revisore : Copia(revisione'[r].righe, data'.disco, Prossima')
  BY <1>3, <1>4
<1> QED BY <1>5, <1>6, <1>7 DEF Copie, Copia

LEMMA CopiaVuota == \A d, p : Copia(<<>>, d, p)
<1> <<>> \in Seq({}) /\ Len(<<>>) = 0
  OBVIOUS
<1> DOMAIN <<>> = {}
  OBVIOUS
<1> QED BY DEF Copia

LEMMA NullaTipata == \A T : Fondo(T) => Nulla \in RigheDi(T)
BY DEF Fondo, Nulla, RigheDi

LEMMA DormeTipata == \A T : Fondo(T) => Dorme \in SogniDi(T)
BY NullaTipata DEF Dorme, SogniDi, Fondo

LEMMA LiberaTipata == \A T : Fondo(T) => Libera \in RevisioniDi(T)
BY DEF Libera, RevisioniDi, Fondo

LEMMA InvIniziale == PersonaDreamsAssumption /\ Init => IInv
<1> SUFFICES ASSUME PersonaDreamsAssumption, Init PROVE IInv
  OBVIOUS
<1> DEFINE T == {0, <<>>, {}}
<1>1. Tipi(T)
  <2>0. Fondo(T)
    BY DEF Fondo
  <2>1. Dorme \in SogniDi(T) /\ Libera \in RevisioniDi(T)
    BY <2>0, DormeTipata, LiberaTipata
  <2> HIDE DEF T
  <2> QED BY <2>0, <2>1 DEF Init, Tipi, PersonaDreamsAssumption
<1>2. Date /\ UnoSolo
  <2>1. \A c \in Chi : sogno[c].fase = "ferma"
    BY DEF Init, Dorme
  <2>2. data.disco = 0 /\ data.ram = 0 /\ giorno = 1
    BY DEF Init
  <2>3. UnoSolo
    BY <2>1 DEF UnoSolo, ConLock
  <2>4. data.disco <= data.ram /\ data.ram <= giorno
    BY <2>2
  <2> QED BY <2>1, <2>3, <2>4 DEF Date, Regolare, ConLock
<1>3. Copie
  BY CopiaVuota DEF Init, Copie, Dorme, Libera
<1> QED BY <1>1, <1>2, <1>3 DEF IInv, Inv

-----------------------------------------------------------------------------
(* The reviews: they copy the journal and write it back, the nights in it untouched. *)

LEMMA CopiaSegnata ==
  ASSUME NEW T, NEW righe \in Seq(RigheDi(T)), NEW i \in DOMAIN righe, NEW s \in Stati, NEW d, NEW p,
         Copia(righe, d, p)
  PROVE  [righe EXCEPT ![i].stato = s] \in Seq(RigheDi(T)) /\ Copia([righe EXCEPT ![i].stato = s], d, p)
<1> DEFINE x == [righe EXCEPT ![i].stato = s]
<1>1. righe[i] \in RigheDi(T)
  OBVIOUS
<1>2. [righe[i] EXCEPT !.stato = s] \in RigheDi(T)
  BY <1>1 DEF RigheDi
<1>3. x = [righe EXCEPT ![i] = [righe[i] EXCEPT !.stato = s]]
  OBVIOUS
<1>4. x \in Seq(RigheDi(T)) /\ DOMAIN x = DOMAIN righe
  BY <1>2, <1>3
<1>5. \A j \in DOMAIN righe : x[j].da = righe[j].da /\ x[j].giorno = righe[j].giorno
                              /\ (x[j].stato = righe[j].stato \/ x[j].stato = s)
  <2> SUFFICES ASSUME NEW j \in DOMAIN righe
               PROVE  x[j].da = righe[j].da /\ x[j].giorno = righe[j].giorno
                      /\ (x[j].stato = righe[j].stato \/ x[j].stato = s)
    OBVIOUS
  <2>1. CASE j = i
    BY <2>1, <1>1, <1>3 DEF RigheDi
  <2>2. CASE j # i
    BY <2>2, <1>3
  <2> QED BY <2>1, <2>2
<1>6. s # ""
  BY DEF Stati
<1> HIDE DEF x
<1>7. Copia(x, d, p)
  BY <1>4, <1>5, <1>6 DEF Copia
<1> QED BY <1>4, <1>7 DEF x

LEMMA StessaNotte ==
  ASSUME Inv, UNCHANGED <<data, sogno, giorno>>
  PROVE  Date' /\ UnoSolo' /\ Prossima' = Prossima
BY DEF Inv, Date, UnoSolo, Prossima

\* What a step of a review makes of its record and of the journal.
LEMMA PassoRevisore ==
  ASSUME NEW T, Tipi(T), Inv, NEW r \in Revisore,
         NEW v \in RevisioniDi(T), revisione' = [revisione EXCEPT ![r] = v],
         NEW righe \in Seq(RigheDi(T)), diario' = righe,
         Copia(v.righe, data.disco, Prossima), Copia(righe, data.disco, Prossima),
         UNCHANGED <<data, sogno, giorno, nati>>
  PROVE  Tipi(T)' /\ Inv'
<1>1. Tipi(T)'
  BY DEF Tipi
<1>2. Date' /\ UnoSolo' /\ Prossima' = Prossima
  BY StessaNotte
<1>3. Prossima \in Nat /\ data.disco \in Nat
  BY ProssimaTipata
<1>4. \A q \in Revisore : Copia(revisione'[q].righe, data.disco, Prossima)
  BY DEF Tipi, Inv, Copie
<1>5. \A c \in Chi : Copia(sogno'[c].righe, data.disco, Prossima)
  BY DEF Inv, Copie
<1>6. data.disco <= data'.disco /\ Prossima <= Prossima'
  BY <1>2, <1>3
<1>7. Copie'
  BY <1>1, <1>4, <1>5, <1>6, CopieRestano
<1> QED BY <1>1, <1>2, <1>7 DEF Inv

LEMMA PassoRivede ==
  ASSUME NEW T, Tipi(T), Inv, NEW r \in Revisore, Rivede(r)
  PROVE  Tipi(T)' /\ Inv'
<1>1. PICK i \in DOMAIN diario, a \in {"promote", "reject"}, b \in BOOLEAN :
        revisione' = [revisione EXCEPT ![r] =
          [Libera EXCEPT !.fase = "salva", !.id = diario[i].id, !.azione = a, !.promosse = b]]
  BY DEF Rivede
<1> DEFINE v == [Libera EXCEPT !.fase = "salva", !.id = diario[i].id, !.azione = a, !.promosse = b]
<1>2. diario[i] \in RigheDi(T)
  BY DEF Tipi
<1>3. diario[i].id \in T
  BY <1>2 DEF RigheDi
<1>4. v \in RevisioniDi(T) /\ v.righe = <<>>
  <2>1. Libera \in RevisioniDi(T) /\ Libera.righe = <<>>
    BY LiberaTipata DEF Tipi, Libera
  <2>2. v \in RevisioniDi(T) /\ v.righe = Libera.righe
    BY <1>3, <2>1 DEF RevisioniDi
  <2> QED BY <2>1, <2>2
<1> HIDE DEF v
<1>5. Copia(v.righe, data.disco, Prossima) /\ Copia(diario, data.disco, Prossima) /\ diario \in Seq(RigheDi(T))
  BY <1>4, CopiaVuota DEF Inv, Copie, Tipi
<1>6. UNCHANGED <<diario, data, sogno, giorno, nati>> /\ revisione' = [revisione EXCEPT ![r] = v]
  BY <1>1 DEF Rivede, v
<1> QED BY <1>4, <1>5, <1>6, PassoRevisore

LEMMA PassoRevisioni ==
  ASSUME NEW T, Tipi(T), Inv, Revisioni
  PROVE  Tipi(T)' /\ Inv'
<1> PICK r \in Revisore : Rivede(r) \/ SalvaIdentita(r) \/ Registra(r) \/ RegistraScrive(r)
  BY DEF Revisioni
<1>0. Fondo(T) /\ diario \in Seq(RigheDi(T)) /\ revisione[r] \in RevisioniDi(T)
  BY DEF Tipi
<1>l. Libera \in RevisioniDi(T) /\ Copia(Libera.righe, data.disco, Prossima)
  BY <1>0, LiberaTipata, CopiaVuota DEF Libera
<1>c. Copia(diario, data.disco, Prossima) /\ Copia(revisione[r].righe, data.disco, Prossima)
  BY DEF Inv, Copie
<1>1. CASE Rivede(r)
  BY <1>1, PassoRivede
<1>2. CASE SalvaIdentita(r)
  <2> DEFINE v == [revisione[r] EXCEPT !.fase = "legge"]
  <2>1. v \in RevisioniDi(T) /\ v.righe = revisione[r].righe
    BY <1>0 DEF RevisioniDi
  <2>2. \E w \in {v, Libera} : revisione' = [revisione EXCEPT ![r] = w]
    BY <1>2 DEF SalvaIdentita
  <2>3. UNCHANGED <<diario, data, sogno, giorno, nati>>
    BY <1>2 DEF SalvaIdentita
  <2> HIDE DEF v
  <2> QED BY <1>0, <1>l, <1>c, <2>1, <2>2, <2>3, PassoRevisore
<1>3. CASE Registra(r)
  <2>1. UNCHANGED <<diario, data, sogno, giorno, nati>>
    BY <1>3 DEF Registra
  <2>2. CASE revisione' = [revisione EXCEPT ![r] = Libera]
    BY <1>0, <1>l, <1>c, <2>1, <2>2, PassoRevisore
  <2>3. ASSUME NEW i \in DOMAIN diario, NEW s \in Stati,
               revisione' = [revisione EXCEPT ![r] =
                 [revisione[r] EXCEPT !.fase = "scrive", !.righe = [diario EXCEPT ![i].stato = s]]]
        PROVE  Tipi(T)' /\ Inv'
    <3> DEFINE x == [diario EXCEPT ![i].stato = s]
    <3>1. x \in Seq(RigheDi(T)) /\ Copia(x, data.disco, Prossima)
      BY <1>0, <1>c, CopiaSegnata
    <3> HIDE DEF x
    <3> DEFINE v == [revisione[r] EXCEPT !.fase = "scrive", !.righe = x]
    <3>2. v \in RevisioniDi(T) /\ v.righe = x
      BY <1>0, <3>1 DEF RevisioniDi
    <3>3. revisione' = [revisione EXCEPT ![r] = v]
      BY <2>3 DEF x
    <3> HIDE DEF v
    <3> QED BY <1>0, <1>c, <2>1, <3>1, <3>2, <3>3, PassoRevisore
  <2> DEFINE nuovo == IF revisione[r].azione = "promote" THEN "promoted" ELSE "rejected"
  <2>4. nuovo \in Stati
    BY DEF Stati
  <2>5. \/ revisione' = [revisione EXCEPT ![r] = Libera]
        \/ \E i \in DOMAIN diario : revisione' = [revisione EXCEPT ![r] =
             [revisione[r] EXCEPT !.fase = "scrive", !.righe = [diario EXCEPT ![i].stato = nuovo]]]
    BY <1>3 DEF Registra
  <2> HIDE DEF nuovo
  <2> QED BY <2>2, <2>3, <2>4, <2>5
<1>4. CASE RegistraScrive(r)
  <2>1. revisione' = [revisione EXCEPT ![r] = Libera] /\ UNCHANGED <<data, sogno, giorno, nati>>
        /\ diario' \in {diario, revisione[r].righe}
    BY <1>4 DEF RegistraScrive
  <2>2. revisione[r].righe \in Seq(RigheDi(T))
    BY <1>0 DEF RevisioniDi
  <2> QED BY <1>0, <1>l, <1>c, <2>1, <2>2, PassoRevisore
<1> QED BY <1>1, <1>2, <1>3, <1>4

-----------------------------------------------------------------------------
(* The reflections. *)

\* The night moves on only by ending, and within one reflection it keeps its day.
LEMMA NotteAvanza ==
  ASSUME Prossima \in Nat, data.disco \in Nat, data'.disco \in Nat, data.disco <= data'.disco, giorno' = giorno,
         \/ sogno'["notte"] = sogno["notte"]
         \/ sogno'["notte"].fase = "ferma"
         \/ sogno'["notte"].fase \in ConLock /\ sogno'["notte"].giorno = Prossima
  PROVE  Prossima <= Prossima' \/ data.disco < Prossima'
<1>1. CASE sogno'["notte"] = sogno["notte"] /\ sogno["notte"].fase # "ferma"
  <2>1. Prossima' = Prossima
    BY <1>1 DEF Prossima
  <2> QED BY <2>1
<1>2. CASE sogno'["notte"].fase = "ferma"
  <2>1. Prossima' = data'.disco + 1
    BY <1>2 DEF Prossima
  <2> QED BY <2>1
<1>3. CASE sogno'["notte"].fase \in ConLock /\ sogno'["notte"].giorno = Prossima
  <2>1. Prossima' = Prossima
    BY <1>3 DEF Prossima, ConLock
  <2> QED BY <2>1
<1> QED BY <1>1, <1>2, <1>3

\* What a step of one reflection makes of its record (q): it has the lock only if it had it
\* or nobody did, a night goes on with the day it began with, and the dates only move on.
Prosegue(q, c) ==
  /\ q.fase \in ConLock => sogno[c].fase \in ConLock \/ \A d \in Chi : sogno[d].fase \notin ConLock
  /\ c = "notte" => q.fase = "ferma" \/ (q.fase \in ConLock /\ q.giorno = Prossima)
DatiDopo(c) ==
  /\ data' \in [ram : Nat, disco : Nat] /\ data.disco <= data'.disco /\ data'.disco <= data'.ram
  /\ data'.ram <= giorno /\ giorno' = giorno /\ nati' \in 0..MaxSogni
  /\ sogno[c].fase \in ConLock \/ data' = data
CopieDopo(q, T) ==
  /\ Copia(q.righe, data.disco, Prossima) /\ diario' \in Seq(RigheDi(T))
  /\ Copia(diario', data.disco, Prossima) \/ Copia(diario', data'.disco, Prossima')

LEMMA PassoSogno ==
  ASSUME NEW T, Tipi(T), Inv, NEW c \in Chi,
         NEW q \in SogniDi(T), sogno' = [sogno EXCEPT ![c] = q], UNCHANGED revisione,
         Prosegue(q, c), DatiDopo(c), CopieDopo(q, T), Regolare(q, c, giorno, data'.disco)
  PROVE  Tipi(T)' /\ Inv'
<1>0. Tipi(T)'
  BY DEF Tipi, DatiDopo, CopieDopo
<1>1. sogno'[c] = q /\ \A d \in Chi : d # c => sogno'[d] = sogno[d]
  BY DEF Tipi
<1>2. UnoSolo'
  BY <1>1 DEF Inv, UnoSolo, Prosegue
<1>3. ASSUME NEW d \in Chi, d # c, sogno[c].fase \in ConLock
      PROVE  sogno[d].fase \notin ConLock
  BY <1>3 DEF Inv, UnoSolo
<1>4. ASSUME NEW d \in Chi PROVE Regolare(sogno'[d], d, giorno, data'.disco)
  <2>1. CASE d = c
    BY <1>1, <2>1
  <2>2. CASE d # c /\ data' = data
    BY <1>1, <2>2 DEF Inv, Date
  <2>3. CASE d # c /\ data' # data
    <3>1. sogno[d].fase \notin ConLock
      BY <1>3, <2>3 DEF DatiDopo
    <3> QED BY <1>1, <2>3, <3>1 DEF Regolare, ConLock
  <2> QED BY <2>1, <2>2, <2>3
<1>5. Date'
  BY <1>4 DEF Date, DatiDopo, Regolare
<1>6. Prossima <= Prossima' \/ data.disco < Prossima'
  <2>1. Prossima \in Nat /\ data.disco \in Nat /\ data'.disco \in Nat
    BY ProssimaTipata DEF DatiDopo
  <2>2. \/ sogno'["notte"] = sogno["notte"]
        \/ sogno'["notte"].fase = "ferma"
        \/ sogno'["notte"].fase \in ConLock /\ sogno'["notte"].giorno = Prossima
    BY <1>1 DEF Prosegue, Chi
  <2> QED BY <2>1, <2>2, NotteAvanza DEF DatiDopo
<1>7. Copie'
  <2>1. \A d \in Chi : Copia(sogno'[d].righe, data.disco, Prossima)
    BY <1>1 DEF Inv, Copie, CopieDopo
  <2>2. \A r \in Revisore : Copia(revisione'[r].righe, data.disco, Prossima)
    BY DEF Inv, Copie
  <2> QED BY <1>0, <1>6, <2>1, <2>2, CopieRestano DEF CopieDopo, DatiDopo
<1> QED BY <1>0, <1>2, <1>5, <1>7 DEF Inv

\* More texts and ids than before: the state keeps its shape.
LEMMA TipiCresce == ASSUME NEW T, Tipi(T), NEW S, T \subseteq S PROVE Tipi(S)
<1>1. RigheDi(T) \subseteq RigheDi(S)
  BY DEF RigheDi
<1>2. Seq(RigheDi(T)) \subseteq Seq(RigheDi(S))
  BY <1>1
<1>3. SogniDi(T) \subseteq SogniDi(S) /\ RevisioniDi(T) \subseteq RevisioniDi(S)
  BY <1>1, <1>2 DEF SogniDi, RevisioniDi
<1> HIDE DEF RigheDi, SogniDi, RevisioniDi
<1>4. Fondo(S)
  BY DEF Tipi, Fondo
<1> QED BY <1>2, <1>3, <1>4 DEF Tipi

\* y is righe with x after it, in a place of its own; no night in righe is of the day of x.
InFondo(righe) == Len(righe) + 1
Estende(y, righe, x) ==
  /\ \A i \in DOMAIN righe : y[i] = righe[i]
  /\ \A i \in DOMAIN y : i \in DOMAIN righe \/ i = InFondo(righe)
  /\ y[InFondo(righe)] = x
Distinta(righe, x) ==
  \A i \in DOMAIN righe : righe[i].da = "notte" /\ x.da = "notte" => righe[i].giorno # x.giorno

LEMMA Allungata ==
  ASSUME NEW S, NEW righe \in Seq(S), NEW x \in S
  PROVE  Append(righe, x) \in Seq(S) /\ Estende(Append(righe, x), righe, x)
<1> DEFINE y == Append(righe, x)
<1>1. y \in Seq(S) /\ Len(y) = Len(righe) + 1 /\ (\A i \in 1..Len(righe) : y[i] = righe[i]) /\ y[Len(righe) + 1] = x
  BY AppendProperties
<1> HIDE DEF y
<1>2. Len(righe) \in Nat /\ DOMAIN y = 1..Len(y) /\ DOMAIN righe = 1..Len(righe)
  BY <1>1, LenProperties
<1>3. \A i \in DOMAIN righe : y[i] = righe[i]
  BY <1>1, <1>2
<1>4. \A i \in DOMAIN y : i \in DOMAIN righe \/ i = InFondo(righe)
  BY <1>1, <1>2 DEF InFondo
<1>5. y[InFondo(righe)] = x
  BY <1>1 DEF InFondo
<1>6. Estende(y, righe, x)
  BY <1>3, <1>4, <1>5 DEF Estende
<1> QED BY <1>1, <1>6 DEF y

LEMMA NottePrecede ==
  ASSUME NEW T, NEW righe \in Seq(RigheDi(T)), NEW x, NEW d, NEW p \in Nat, Copia(righe, d, p),
         x.da = "notte" => x.giorno = p
  PROVE  Distinta(righe, x)
<1> SUFFICES ASSUME NEW i \in DOMAIN righe, righe[i].da = "notte", x.da = "notte"
             PROVE  righe[i].giorno # x.giorno
  BY DEF Distinta
<1>1. righe[i] \in RigheDi(T)
  OBVIOUS
<1>2. righe[i].giorno \in Nat /\ righe[i].giorno < p
  BY <1>1 DEF RigheDi, Copia
<1> QED BY <1>2

\* A report joins a copy in which every night is of another day.
LEMMA CopiaConUna ==
  ASSUME NEW y, NEW righe, NEW x, NEW d, NEW p, Copia(righe, d, p), Estende(y, righe, x), Distinta(righe, x),
         x.stato # "", x.da = "notte" => x.giorno <= d /\ x.giorno < p
  PROVE  Copia(y, d, p)
<1> SUFFICES ASSUME NEW i \in DOMAIN y
             PROVE  /\ y[i].stato # ""
                    /\ y[i].da = "notte" =>
                         /\ y[i].giorno <= d /\ y[i].giorno < p
                         /\ \A j \in DOMAIN y :
                              y[j].da = "notte" /\ i # j => y[i].giorno # y[j].giorno
  BY DEF Copia
<1>1. CASE i \in DOMAIN righe
  BY <1>1 DEF Copia, Estende, Distinta
<1>2. CASE i \notin DOMAIN righe
  BY <1>2 DEF Estende, Distinta
<1> QED BY <1>1, <1>2

\* What every step of a reflection relies on.
LEMMA Basi ==
  ASSUME NEW T, Tipi(T), Inv, NEW c \in Chi
  PROVE  /\ sogno[c] \in SogniDi(T) /\ diario \in Seq(RigheDi(T)) /\ nati \in 0..MaxSogni
         /\ data \in [ram : Nat, disco : Nat] /\ giorno \in Nat /\ Prossima \in Nat
         /\ data.disco \in Nat /\ data.ram \in Nat /\ data.disco <= data.ram /\ data.ram <= giorno
         /\ Copia(diario, data.disco, Prossima) /\ Copia(sogno[c].righe, data.disco, Prossima)
         /\ Regolare(sogno[c], c, giorno, data.disco)
         /\ c = "notte" /\ sogno[c].fase \in ConLock => sogno[c].giorno = Prossima
<1>1. sogno[c] \in SogniDi(T) /\ diario \in Seq(RigheDi(T)) /\ data \in [ram : Nat, disco : Nat] /\ giorno \in Nat
      /\ nati \in 0..MaxSogni
  BY DEF Tipi
<1>3. c = "notte" /\ sogno[c].fase \in ConLock => sogno[c].giorno = Prossima
  BY DEF Prossima, ConLock
<1> QED BY <1>1, <1>3, ProssimaTipata DEF Inv, Date, Copie

\* The dates stay as they are.
LEMMA DatiFermi ==
  ASSUME NEW T, Tipi(T), Inv, NEW c \in Chi, UNCHANGED <<data, giorno>>, nati' \in 0..MaxSogni PROVE DatiDopo(c)
BY Basi DEF DatiDopo

\* A reflection that ends without a report.
LEMMA Smette ==
  ASSUME NEW T, Tipi(T), Inv, NEW c \in Chi, sogno' = [sogno EXCEPT ![c] = Dorme],
         DatiDopo(c), UNCHANGED <<revisione, diario>>
  PROVE  Tipi(T)' /\ Inv'
<1>1. Dorme \in SogniDi(T) /\ Dorme.fase = "ferma" /\ Dorme.righe = <<>>
  BY DormeTipata DEF Tipi, Dorme
<1>2. Prosegue(Dorme, c) /\ Regolare(Dorme, c, giorno, data'.disco)
  BY <1>1 DEF Prosegue, Regolare, ConLock
<1>3. CopieDopo(Dorme, T)
  BY <1>1, Basi, CopiaVuota DEF CopieDopo
<1> QED BY <1>1, <1>2, <1>3, PassoSogno

LEMMA PassoAvvia ==
  ASSUME NEW T, Tipi(T), Inv, PersonaDreamsAssumption, NEW c \in Chi, Avvia(c)
  PROVE  (\E S : Tipi(S)') /\ Inv'
<1>0. UNCHANGED <<diario, data, revisione, giorno>>
  BY DEF Avvia
<1>1. CASE sogno' = [sogno EXCEPT ![c] = Dorme] /\ UNCHANGED nati
  <2>1. DatiDopo(c)
    BY <1>0, <1>1, Basi, DatiFermi
  <2> QED BY <1>0, <1>1, <2>1, Smette
<1> PICK m, n : m = Materiale /\ n = nati'
  OBVIOUS
<1> DEFINE q == [Dorme EXCEPT !.fase = "pensa", !.osservate = m, !.giorno = giorno,
                             !.report = [Nulla EXCEPT !.id = n, !.da = c, !.giorno = giorno]]
<1>2. CASE ~Preso /\ nati < MaxSogni /\ nati' = nati + 1 /\ sogno' = [sogno EXCEPT ![c] = q]
  <2> DEFINE S == T \union {m, n}
  <2>1. Tipi(S) /\ m \in S /\ n \in S
    BY TipiCresce
  <2> HIDE DEF S
  <2>2. q \in SogniDi(S) /\ q.fase = "pensa" /\ q.giorno = giorno /\ q.report.da = c
        /\ q.report.giorno = giorno /\ q.righe = <<>>
    <3> DEFINE rep == [Nulla EXCEPT !.id = n, !.da = c, !.giorno = giorno]
    <3>1. Nulla \in RigheDi(S) /\ Dorme \in SogniDi(S) /\ Dorme.righe = <<>> /\ giorno \in Nat
      BY <2>1, NullaTipata, DormeTipata DEF Tipi, Dorme
    <3>2. rep \in RigheDi(S) /\ rep.da = c /\ rep.giorno = giorno
      BY <2>1, <3>1 DEF RigheDi
    <3> HIDE DEF rep
    <3>3. q = [Dorme EXCEPT !.fase = "pensa", !.osservate = m, !.giorno = giorno, !.report = rep]
      BY DEF rep
    <3> QED BY <2>1, <3>1, <3>2, <3>3 DEF SogniDi, ConLock
  <2> HIDE DEF q
  <2>3. nati' \in 0..MaxSogni
    BY <1>2, Basi DEF PersonaDreamsAssumption
  <2>4. Prosegue(q, c)
    BY <1>2, <2>2 DEF Preso, Prosegue, ConLock, Avvia, Prossima
  <2>5. DatiDopo(c)
    BY <1>0, <2>3, DatiFermi
  <2>6. Regolare(q, c, giorno, data'.disco)
    <3>1. giorno \in Nat /\ data'.disco \in Nat /\ data'.disco <= giorno
      BY <1>0, Basi
    <3> QED BY <2>2, <3>1 DEF Regolare
  <2>7. CopieDopo(q, S)
    <3>1. Copia(diario, data.disco, Prossima) /\ diario \in Seq(RigheDi(S))
      BY <2>1, Basi
    <3> QED BY <1>0, <2>2, <3>1, CopiaVuota DEF CopieDopo
  <2>8. Tipi(S)' /\ Inv'
    <3>1. q \in SogniDi(S) /\ Tipi(S) /\ sogno' = [sogno EXCEPT ![c] = q] /\ revisione' = revisione
      BY <1>0, <1>2, <2>1, <2>2
    <3> QED BY <3>1, <2>4, <2>5, <2>6, <2>7, PassoSogno
  <2> QED BY <2>8
<1> QED BY <1>1, <1>2 DEF Avvia

LEMMA PassoRiflette ==
  ASSUME NEW T, Tipi(T), Inv, NEW c \in Chi, Riflette(c)
  PROVE  (\E S : Tipi(S)') /\ Inv'
<1>0. UNCHANGED <<diario, data, revisione, giorno, nati>> /\ sogno[c].fase = "pensa"
  BY DEF Riflette
<1>1. PICK s \in {"failed", "empty", "candidate"} : \E f :
        sogno' = [sogno EXCEPT ![c] = [sogno[c] EXCEPT !.fase = "salva", !.report =
                    [sogno[c].report EXCEPT !.testi = f, !.stato = s]]]
  <2>1. PICK risposta \in Risposte :
          LET f == Filtrate(c, risposta.testi) IN
          sogno' = [sogno EXCEPT ![c] = [sogno[c] EXCEPT !.fase = "salva", !.report =
                     [sogno[c].report EXCEPT !.testi = f,
                        !.stato = IF ~risposta.riesce THEN "failed"
                                  ELSE IF f = <<>> THEN "empty" ELSE "candidate"]]]
    BY DEF Riflette
  <2> DEFINE s == IF ~risposta.riesce THEN "failed"
                  ELSE IF Filtrate(c, risposta.testi) = <<>> THEN "empty" ELSE "candidate"
  <2>2. s \in {"failed", "empty", "candidate"}
    OBVIOUS
  <2>3. sogno' = [sogno EXCEPT ![c] = [sogno[c] EXCEPT !.fase = "salva", !.report =
                    [sogno[c].report EXCEPT !.testi = Filtrate(c, risposta.testi), !.stato = s]]]
    BY <2>1
  <2> HIDE DEF s
  <2> QED BY <2>2, <2>3
<1>f. PICK f : sogno' = [sogno EXCEPT ![c] = [sogno[c] EXCEPT !.fase = "salva", !.report =
                   [sogno[c].report EXCEPT !.testi = f, !.stato = s]]]
  BY <1>1
<1> DEFINE S == T \union {f}
<1>2. Tipi(S) /\ f \in S
  BY TipiCresce
<1> HIDE DEF S
<1> DEFINE rep == [sogno[c].report EXCEPT !.testi = f, !.stato = s]
<1>3. sogno[c] \in SogniDi(S) /\ sogno[c].report \in RigheDi(S)
  <2>1. sogno[c] \in SogniDi(S)
    BY <1>2 DEF Tipi
  <2> QED BY <2>1 DEF SogniDi
<1>4. rep \in RigheDi(S) /\ rep.da = sogno[c].report.da /\ rep.giorno = sogno[c].report.giorno /\ rep.stato # ""
  BY <1>2, <1>3 DEF RigheDi, Stati
<1> HIDE DEF rep
<1> DEFINE q == [sogno[c] EXCEPT !.fase = "salva", !.report = rep]
<1>5. q \in SogniDi(S) /\ q.fase = "salva" /\ q.giorno = sogno[c].giorno /\ q.report = rep /\ q.righe = sogno[c].righe
  BY <1>3, <1>4 DEF SogniDi, ConLock
<1>6. sogno' = [sogno EXCEPT ![c] = q]
  BY <1>f DEF rep
<1> HIDE DEF q
<1>7. Prosegue(q, c)
  BY <1>0, <1>5, Basi DEF Prosegue, ConLock
<1>8. DatiDopo(c)
  BY <1>0, Basi, DatiFermi
<1>9. Regolare(q, c, giorno, data'.disco)
  BY <1>0, <1>4, <1>5, Basi DEF Regolare, ConLock
<1>10. CopieDopo(q, S)
  BY <1>0, <1>2, <1>5, Basi DEF CopieDopo
<1>11. Tipi(S)' /\ Inv'
  BY <1>0, <1>2, <1>5, <1>6, <1>7, <1>8, <1>9, <1>10, PassoSogno
<1> QED BY <1>11

LEMMA PassoSalva ==
  ASSUME NEW T, Tipi(T), Inv, NEW c \in Chi, Salva(c)
  PROVE  Tipi(T)' /\ Inv'
<1>0. UNCHANGED <<diario, revisione, giorno, nati>> /\ sogno[c].fase = "salva"
  BY DEF Salva
<1>1. sogno[c].giorno \in Nat /\ data.disco <= sogno[c].giorno /\ sogno[c].giorno <= giorno
  BY <1>0, Basi DEF SogniDi, Regolare, ConLock
<1>2. CASE data' = [ram |-> sogno[c].giorno, disco |-> sogno[c].giorno] /\ sogno' = [sogno EXCEPT ![c].fase = "legge"]
  <2> DEFINE q == [sogno[c] EXCEPT !.fase = "legge"]
  <2>1. sogno' = [sogno EXCEPT ![c] = q]
    BY <1>2
  <2>2. q \in SogniDi(T) /\ q.fase = "legge" /\ q.giorno = sogno[c].giorno /\ q.report = sogno[c].report
        /\ q.righe = sogno[c].righe
    BY Basi DEF SogniDi, ConLock
  <2> HIDE DEF q
  <2>3. data'.disco = sogno[c].giorno /\ data'.ram = sogno[c].giorno /\ data' \in [ram : Nat, disco : Nat]
    BY <1>1, <1>2
  <2>4. Prosegue(q, c)
    BY <1>0, <2>2, Basi DEF Prosegue, ConLock
  <2>5. DatiDopo(c)
    BY <1>0, <1>1, <2>3, Basi DEF DatiDopo, ConLock
  <2>6. Regolare(q, c, giorno, data'.disco)
    <3>1. /\ sogno[c].report.da = c /\ sogno[c].report.giorno = sogno[c].giorno
          /\ sogno[c].report.stato # ""
      BY <1>0, Basi DEF Regolare, ConLock
    <3>2. q.giorno <= giorno /\ q.giorno <= data'.disco
      BY <1>1, <2>2, <2>3, Basi
    <3> QED BY <2>2, <3>1, <3>2 DEF Regolare
  <2>7. CopieDopo(q, T)
    BY <1>0, <2>2, Basi DEF CopieDopo
  <2> QED BY <1>0, <2>1, <2>2, <2>4, <2>5, <2>6, <2>7, PassoSogno
<1>3. CASE data' = [data EXCEPT !.ram = sogno[c].giorno] /\ sogno' = [sogno EXCEPT ![c] = Dorme]
  <2>1. data'.disco = data.disco /\ data'.ram = sogno[c].giorno /\ data' \in [ram : Nat, disco : Nat]
    BY <1>1, <1>3, Basi
  <2>2. DatiDopo(c)
    BY <1>0, <1>1, <2>1, Basi DEF DatiDopo, ConLock
  <2> QED BY <1>0, <1>3, <2>2, Smette
<1> QED BY <1>2, <1>3 DEF Salva

LEMMA PassoAppende ==
  ASSUME NEW T, Tipi(T), Inv, NEW c \in Chi, Appende(c)
  PROVE  Tipi(T)' /\ Inv'
<1>0. UNCHANGED <<diario, data, revisione, giorno, nati>> /\ sogno[c].fase = "legge"
  BY DEF Appende
<1> DEFINE q == [sogno[c] EXCEPT !.fase = "scrive", !.righe = diario]
<1>1. sogno' = [sogno EXCEPT ![c] = q]
  BY DEF Appende
<1>2. q \in SogniDi(T) /\ q.fase = "scrive" /\ q.giorno = sogno[c].giorno /\ q.report = sogno[c].report
      /\ q.righe = diario
  BY Basi DEF SogniDi, ConLock
<1> HIDE DEF q
<1>3. Prosegue(q, c)
  BY <1>0, <1>2, Basi DEF Prosegue, ConLock
<1>4. DatiDopo(c)
  BY <1>0, Basi, DatiFermi
<1>5. Regolare(q, c, giorno, data'.disco)
  BY <1>0, <1>2, Basi DEF Regolare, ConLock
<1>6. CopieDopo(q, T)
  BY <1>0, <1>2, Basi DEF CopieDopo
<1> QED BY <1>0, <1>1, <1>2, <1>3, <1>4, <1>5, <1>6, PassoSogno

\* A reflection that ends with its report written.
LEMMA FineScritta ==
  ASSUME NEW T, Tipi(T), Inv, NEW c \in Chi, sogno' = [sogno EXCEPT ![c] = Dorme], UNCHANGED <<data, revisione>>,
         DatiDopo(c), diario' \in Seq(RigheDi(T)),
         Copia(diario', data.disco, Prossima) \/ Copia(diario', data.disco, Prossima')
  PROVE  Tipi(T)' /\ Inv'
<1>1. Dorme \in SogniDi(T) /\ Dorme.fase = "ferma" /\ Dorme.righe = <<>>
  BY DormeTipata DEF Tipi, Dorme
<1>2. Prosegue(Dorme, c) /\ Regolare(Dorme, c, giorno, data'.disco)
  BY <1>1 DEF Prosegue, Regolare, ConLock
<1>3. CopieDopo(Dorme, T)
  BY <1>1, CopiaVuota DEF CopieDopo
<1> QED BY <1>1, <1>2, <1>3, PassoSogno

LEMMA DopoUno == \A g, d \in Nat : g <= d => g < d + 1
OBVIOUS

LEMMA PassoAppendeScrive ==
  ASSUME NEW T, Tipi(T), Inv, NEW c \in Chi, AppendeScrive(c)
  PROVE  Tipi(T)' /\ Inv'
<1>0. UNCHANGED <<data, revisione, giorno, nati>> /\ sogno[c].fase = "scrive" /\ sogno' = [sogno EXCEPT ![c] = Dorme]
  BY DEF AppendeScrive
<1>d. DatiDopo(c)
  BY <1>0, Basi, DatiFermi
<1>1. CASE UNCHANGED diario
  BY <1>0, <1>1, <1>d, Smette
<1>2. CASE diario' = Append(sogno[c].righe, sogno[c].report)
  <2> DEFINE x == sogno[c].report
  <2> DEFINE righe == sogno[c].righe
  <2>1. x \in RigheDi(T) /\ righe \in Seq(RigheDi(T)) /\ Copia(righe, data.disco, Prossima)
    BY Basi DEF SogniDi
  <2>2. x.stato # "" /\ x.da = c /\ x.giorno = sogno[c].giorno /\ sogno[c].giorno <= data.disco
    BY <1>0, Basi DEF Regolare, ConLock
  <2>3. x.da = "notte" => x.giorno = Prossima
    BY <1>0, <2>2, Basi DEF ConLock
  <2> HIDE DEF x, righe
  <2>4. Distinta(righe, x)
    BY <2>1, <2>3, Basi, NottePrecede
  <2>5. diario' = Append(righe, x) /\ diario' \in Seq(RigheDi(T)) /\ Estende(Append(righe, x), righe, x)
    BY <1>2, <2>1, Allungata DEF x, righe
  <2>6. Dorme \in SogniDi(T) /\ Dorme.fase = "ferma" /\ Dorme.righe = <<>>
    BY DormeTipata DEF Tipi, Dorme
  <2>7. sogno'["notte"] = IF c = "notte" THEN Dorme ELSE sogno["notte"]
    BY <1>0 DEF Tipi, Chi
  <2>8. CASE c = "notte"
    <3>1. Prossima' = data.disco + 1
      BY <1>0, <2>6, <2>7, <2>8 DEF Prossima
    <3>2. data.disco \in Nat /\ Prossima \in Nat /\ data.disco + 1 \in Nat /\ data.disco < data.disco + 1
          /\ data.disco <= data.disco
      BY Basi
    <3>3. Copia(righe, data.disco, data.disco + 1)
      BY <2>1, <3>2, CopiaResta
    <3>4. x.giorno <= data.disco /\ x.giorno < data.disco + 1
      <4>1. x.giorno \in Nat
        BY <2>1 DEF RigheDi
      <4> QED BY <2>2, <3>2, <4>1, DopoUno
    <3>5. Copia(Append(righe, x), data.disco, data.disco + 1)
      BY <2>2, <2>4, <2>5, <3>3, <3>4, CopiaConUna
    <3> QED BY <1>0, <2>5, <3>1, <3>5, <2>6, <2>8, <1>d, FineScritta
  <2>9. CASE c # "notte"
    <3>1. Copia(Append(righe, x), data.disco, Prossima)
      BY <2>1, <2>2, <2>4, <2>5, <2>9, CopiaConUna
    <3> QED BY <1>0, <2>5, <3>1, <2>6, <1>d, FineScritta
  <2> QED BY <2>8, <2>9
<1> QED BY <1>1, <1>2 DEF AppendeScrive

-----------------------------------------------------------------------------
(* The clock, Setup, the tool and the restarts; the theorems. *)

\* A step that changes neither the journal nor its copies: who sleeps wakes up, a day
\* passes, the dates are read again, or everything under way is lost.
LEMMA PassoDovuto ==
  ASSUME NEW T, Tipi(T), Inv, Dovuto
  PROVE  Tipi(T)' /\ Inv'
<1> DEFINE q == [sogno["notte"] EXCEPT !.fase = "sveglia"]
<1>1. sogno["notte"].fase = "ferma" /\ data.ram # giorno /\ sogno' = [sogno EXCEPT !["notte"] = q]
      /\ UNCHANGED <<diario, data, revisione, giorno, nati>>
  BY DEF Dovuto
<1>2. q \in SogniDi(T) /\ q.fase = "sveglia" /\ q.righe = sogno["notte"].righe
  BY DEF Tipi, SogniDi, Chi
<1> HIDE DEF q
<1>3. sogno'["notte"] = q /\ \A c \in Chi : c # "notte" => sogno'[c] = sogno[c]
  BY <1>1 DEF Tipi, Chi
<1>4. Tipi(T)'
  BY <1>1, <1>2 DEF Tipi
<1>5. UnoSolo'
  BY <1>2, <1>3 DEF Inv, UnoSolo, ConLock
<1>6. Date'
  <2>1. \A c \in Chi : Regolare(sogno'[c], c, giorno, data.disco)
    BY <1>2, <1>3 DEF Inv, Date, Regolare, ConLock
  <2> QED BY <1>1, <2>1 DEF Inv, Date, Regolare
<1>7. Prossima' = giorno /\ data.disco < giorno
  <2>1. Prossima' = giorno
    BY <1>1, <1>2, <1>3 DEF Prossima
  <2>2. data.disco \in Nat /\ data.ram \in Nat /\ giorno \in Nat /\ data.disco <= data.ram /\ data.ram <= giorno
    BY ProssimaTipata DEF Tipi, Inv, Date
  <2> QED BY <1>1, <2>1, <2>2
<1>8. Copie'
  <2>1. \A c \in Chi : Copia(sogno'[c].righe, data.disco, Prossima)
    BY <1>2, <1>3 DEF Inv, Copie, Chi
  <2>2. Copia(diario', data.disco, Prossima) /\ \A r \in Revisore : Copia(revisione'[r].righe, data.disco, Prossima)
    BY <1>1 DEF Inv, Copie
  <2>3. data.disco <= data'.disco
    BY <1>1, ProssimaTipata
  <2> QED BY <1>4, <1>7, <2>1, <2>2, <2>3, CopieRestano
<1> QED BY <1>4, <1>5, <1>6, <1>8 DEF Inv

LEMMA PassoDomani ==
  ASSUME NEW T, Tipi(T), Inv, Domani
  PROVE  Tipi(T)' /\ Inv'
<1>1. giorno' = giorno + 1 /\ UNCHANGED <<diario, data, sogno, revisione, nati>> /\ giorno \in Nat
  BY DEF Domani, Tipi
<1>2. Tipi(T)' /\ UnoSolo'
  BY <1>1 DEF Inv, Tipi, UnoSolo
<1>3. data.disco \in Nat /\ data.ram \in Nat /\ data.disco <= data.ram /\ data.ram <= giorno /\ Prossima \in Nat
  BY ProssimaTipata DEF Inv, Date
<1>4. Date'
  <2>1. ASSUME NEW c \in Chi PROVE Regolare(sogno[c], c, giorno + 1, data.disco)
    <3>1. sogno[c].giorno \in Nat /\ Regolare(sogno[c], c, giorno, data.disco)
      BY DEF Tipi, SogniDi, Inv, Date
    <3>2. sogno[c].giorno <= giorno => sogno[c].giorno <= giorno + 1
      BY <1>1, <3>1
    <3> QED BY <3>1, <3>2 DEF Regolare
  <2>2. data.ram <= giorno + 1
    BY <1>1, <1>3
  <2> QED BY <1>1, <1>3, <2>1, <2>2 DEF Date, Regolare
<1>5. Prossima <= Prossima' /\ data.disco <= data'.disco
  <2>1. Prossima' = Prossima \/ (Prossima = giorno /\ Prossima' = giorno + 1)
    BY <1>1 DEF Prossima
  <2> QED BY <1>1, <1>3, <2>1
<1>6. Copie'
  <2>1. /\ Copia(diario', data.disco, Prossima)
        /\ \A c \in Chi : Copia(sogno'[c].righe, data.disco, Prossima)
        /\ \A r \in Revisore : Copia(revisione'[r].righe, data.disco, Prossima)
    BY <1>1 DEF Inv, Copie
  <2> QED BY <1>2, <1>5, <2>1, CopieRestano
<1> QED BY <1>2, <1>4, <1>6 DEF Inv

\* Neither reads nor writes what the journal depends on, but for the date in memory.
LEMMA PassoFuori ==
  ASSUME NEW T, Tipi(T), Inv, Annota \/ Ricarica
  PROVE  Tipi(T)' /\ Inv'
<1>1. UNCHANGED <<diario, sogno, revisione, giorno, nati>>
  BY DEF Annota, Ricarica
<1>2. data' = data \/ data' = [data EXCEPT !.ram = data.disco]
  BY DEF Annota, Ricarica
<1>3. /\ data \in [ram : Nat, disco : Nat] /\ data.disco \in Nat /\ data.ram \in Nat /\ giorno \in Nat
      /\ data.disco <= data.ram /\ data.ram <= giorno
  BY ProssimaTipata DEF Tipi, Inv, Date
<1>4. data' \in [ram : Nat, disco : Nat] /\ data'.disco = data.disco /\ data'.ram \in {data.ram, data.disco}
  BY <1>2, <1>3
<1>5. Tipi(T)' /\ UnoSolo'
  BY <1>1, <1>4 DEF Inv, Tipi, UnoSolo
<1>6. Date'
  <2>1. data'.disco <= data'.ram /\ data'.ram <= giorno
    BY <1>3, <1>4
  <2> QED BY <1>1, <1>4, <2>1 DEF Inv, Date, Regolare
<1>7. Prossima' = Prossima
  BY <1>1, <1>4 DEF Prossima
<1>8. Copie'
  <2>1. /\ Copia(diario', data.disco, Prossima)
        /\ \A c \in Chi : Copia(sogno'[c].righe, data.disco, Prossima)
        /\ \A r \in Revisore : Copia(revisione'[r].righe, data.disco, Prossima)
    BY <1>1 DEF Inv, Copie
  <2>2. data.disco <= data'.disco /\ Prossima <= Prossima'
    BY <1>3, <1>4, <1>7, ProssimaTipata
  <2> QED BY <1>5, <2>1, <2>2, CopieRestano
<1> QED BY <1>5, <1>6, <1>8 DEF Inv

LEMMA PassoCade ==
  ASSUME NEW T, Tipi(T), Inv, Cade
  PROVE  Tipi(T)' /\ Inv'
<1>1. /\ data' = [data EXCEPT !.ram = data.disco] /\ sogno' = [c \in Chi |-> Dorme]
      /\ revisione' = [r \in Revisore |-> Libera] /\ UNCHANGED <<diario, giorno, nati>>
  BY DEF Cade
<1>2. /\ data \in [ram : Nat, disco : Nat] /\ data.disco \in Nat /\ data.ram \in Nat /\ giorno \in Nat
      /\ data.disco <= data.ram /\ data.ram <= giorno
  BY ProssimaTipata DEF Tipi, Inv, Date
<1>3. Dorme \in SogniDi(T) /\ Dorme.fase = "ferma" /\ Dorme.righe = <<>>
  BY DormeTipata DEF Tipi, Dorme
<1>4. Libera \in RevisioniDi(T) /\ Libera.righe = <<>>
  BY LiberaTipata DEF Tipi, Libera
<1>5. data' \in [ram : Nat, disco : Nat] /\ data'.disco = data.disco /\ data'.ram = data.disco
  BY <1>1, <1>2
<1>6. Tipi(T)'
  BY <1>1, <1>3, <1>4, <1>5 DEF Tipi
<1>7. \A c \in Chi : sogno'[c] = Dorme
  BY <1>1
<1>8. UnoSolo'
  BY <1>3, <1>7 DEF UnoSolo, ConLock
<1>9. Date'
  <2>1. \A c \in Chi : Regolare(sogno'[c], c, giorno, data'.disco)
    BY <1>3, <1>7 DEF Regolare, ConLock
  <2>2. data'.disco <= data'.ram /\ data'.ram <= giorno
    BY <1>2, <1>5
  <2> QED BY <1>1, <2>1, <2>2 DEF Date, Regolare
<1>10. Copie'
  <2>1. Prossima' = data.disco + 1 /\ data.disco < data.disco + 1 /\ data.disco <= data.disco
    BY <1>2, <1>3, <1>5, <1>7 DEF Prossima, Chi
  <2>2. /\ Copia(diario', data.disco, Prossima)
        /\ \A c \in Chi : Copia(sogno'[c].righe, data.disco, Prossima)
        /\ \A r \in Revisore : Copia(revisione'[r].righe, data.disco, Prossima)
    BY <1>1, <1>3, <1>4, <1>7, CopiaVuota DEF Inv, Copie
  <2> QED BY <1>5, <1>6, <2>1, <2>2, CopieRestano
<1> QED BY <1>6, <1>8, <1>9, <1>10 DEF Inv

LEMMA InvPreservata == PersonaDreamsAssumption /\ IInv /\ [Next]_vars => IInv'
<1> SUFFICES ASSUME PersonaDreamsAssumption, IInv, [Next]_vars PROVE IInv'
  OBVIOUS
<1> PICK T : Tipi(T)
  BY DEF IInv
<1>i. Inv
  BY DEF IInv
<1>1. CASE UNCHANGED vars
  <2>1. Tipi(T)'
    BY <1>1 DEF vars, Tipi
  <2>2. Date' /\ UnoSolo' /\ Prossima' = Prossima
    BY <1>1, <1>i, StessaNotte DEF vars
  <2>3. Copie'
    <3>1. /\ Copia(diario', data.disco, Prossima)
          /\ \A c \in Chi : Copia(sogno'[c].righe, data.disco, Prossima)
          /\ \A r \in Revisore : Copia(revisione'[r].righe, data.disco, Prossima)
      BY <1>1, <1>i DEF vars, Inv, Copie
    <3>2. data.disco <= data'.disco /\ Prossima <= Prossima'
      BY <1>1, <2>2, ProssimaTipata DEF vars
    <3> QED BY <2>1, <3>1, <3>2, CopieRestano
  <2> QED BY <2>1, <2>2, <2>3 DEF IInv, Inv
<1>2. CASE Dovuto \/ Domani \/ Annota \/ Ricarica \/ Cade
  <2>1. Tipi(T)' /\ Inv'
    BY <1>2, <1>i, PassoDovuto, PassoDomani, PassoFuori, PassoCade
  <2> QED BY <2>1 DEF IInv
<1>3. CASE Revisioni
  <2>1. Tipi(T)' /\ Inv'
    BY <1>3, <1>i, PassoRevisioni
  <2> QED BY <2>1 DEF IInv
<1>4. CASE Sogni
  <2> PICK c \in Chi : Avvia(c) \/ Riflette(c) \/ Salva(c) \/ Appende(c) \/ AppendeScrive(c)
    BY <1>4 DEF Sogni
  <2>1. CASE Avvia(c)
    BY <1>i, <2>1, PassoAvvia DEF IInv
  <2>2. CASE Riflette(c)
    BY <1>i, <2>2, PassoRiflette DEF IInv
  <2>3. CASE Salva(c) \/ Appende(c) \/ AppendeScrive(c)
    <3>1. Tipi(T)' /\ Inv'
      BY <1>i, <2>3, PassoSalva, PassoAppende, PassoAppendeScrive
    <3> QED BY <3>1 DEF IInv
  <2> QED BY <2>1, <2>2, <2>3
<1> QED BY <1>1, <1>2, <1>3, <1>4 DEF Next

LEMMA InvBasta == PersonaDreamsAssumption /\ IInv => TypeOK /\ UnSognoPerNotte
<1> SUFFICES ASSUME PersonaDreamsAssumption, IInv PROVE TypeOK /\ UnSognoPerNotte
  OBVIOUS
<1> PICK T : Tipi(T)
  BY DEF IInv
<1>1. UnSognoPerNotte
  BY DEF IInv, Inv, Copie, Copia, UnSognoPerNotte
<1>2. \A i \in DOMAIN diario : diario[i].stato \in Stati
  <2> SUFFICES ASSUME NEW i \in DOMAIN diario PROVE diario[i].stato \in Stati
    OBVIOUS
  <2>1. diario[i] \in RigheDi(T)
    BY DEF Tipi
  <2>2. diario[i].stato # ""
    BY DEF IInv, Inv, Copie, Copia
  <2> QED BY <2>1, <2>2 DEF RigheDi
<1>3. \A c \in Chi : sogno[c].fase \in {"ferma", "sveglia", "pensa", "salva", "legge", "scrive"}
  BY DEF Tipi, SogniDi, ConLock
<1>4. \A r \in Revisore : revisione[r].fase \in {"libera", "salva", "legge", "scrive"}
  BY DEF Tipi, RevisioniDi
<1>5. Cardinality({c \in Chi : sogno[c].fase \in ConLock}) <= 1
  <2> DEFINE C == {c \in Chi : sogno[c].fase \in ConLock}
  <2>1. CASE C = {}
    BY <2>1, FS_EmptySet
  <2>2. ASSUME NEW c \in C PROVE Cardinality(C) <= 1
    <3>1. C = {c}
      BY DEF IInv, Inv, UnoSolo
    <3> HIDE DEF C
    <3>2. Cardinality({c}) = 1
      BY FS_Singleton
    <3> QED BY <3>1, <3>2
  <2> QED BY <2>1, <2>2
<1>6. {data.ram, data.disco} \subseteq 0..giorno /\ nati <= MaxSogni
  BY ProssimaTipata DEF Tipi, IInv, Inv, Date, PersonaDreamsAssumption
<1>7. TypeOK
  BY <1>2, <1>3, <1>4, <1>5, <1>6 DEF TypeOK, Stati, ConLock
<1> QED BY <1>1, <1>7

\* The journal, the requests and the dates keep their shape, and one reflection at a time
\* holds the lock (shared/persona_dream.py and the routes that use it).
THEOREM TipoCorretto == Spec => []TypeOK
<1>1. PersonaDreamsAssumption
  BY CostantiAmmesse
<1> QED BY <1>1, InvIniziale, InvPreservata, InvBasta, PTL DEF Spec

\* At most one reflection of the night loop a day is ever in the journal (run_once, due and
\* the journal of shared/persona_dream.py), whatever the days, the reviews that write the
\* journal back whole, the writes that fail, the reloads of Setup and the restarts.
THEOREM UnSoloSognoPerNotte == Spec => []UnSognoPerNotte
<1>1. PersonaDreamsAssumption
  BY CostantiAmmesse
<1> QED BY <1>1, InvIniziale, InvPreservata, InvBasta, PTL DEF Spec
====
