----------------------------- MODULE TaskAssign -----------------------------
(***************************************************************************)
(* Tasks of the control plane (src/control-plane/main.py): /task/create,   *)
(* /task/assign, which offers the task to the ranked nodes one after the   *)
(* other, and the rows that survive a restart (src/shared/db.py).          *)
(*                                                                         *)
(* One thread per request, no lock: an action is what a thread does        *)
(* between two accesses to the task, its row or a node.  A request keeps   *)
(* the task object it found; creating the task again replaces the object   *)
(* in the dictionary, not the one a request holds.  The nodes are external *)
(* and may execute a task without their answer ever arriving.              *)
(***************************************************************************)
EXTENDS Integers, TLAPS

CONSTANTS
  Task,
  Nodi,            \* nodes that can execute a task; which of them is tried is immaterial
  Rotta,           \* request threads of /task/assign
  MaxCandidati,    \* ROUTING_MAX_CANDIDATES
  MaxCreazioni     \* bound: how often a task is created

TaskAssignAssumption ==
  /\ Task # {} /\ Nodi \in Nat /\ MaxCandidati \in Nat /\ MaxCreazioni \in Nat \ {0}
ASSUME CostantiAmmesse == TaskAssignAssumption

VARIABLES
  corrente,   \* tasks: [Task -> the object of the task, 0 for none]
  oggetto,    \* [Task -> [object -> its status]]
  riga,       \* [Task -> status in the table of tasks]
  rotta,      \* [Rotta -> the request]
  fatto,      \* history: the tasks that some node executed
  sospeso     \* history: [Task -> why its last request left it without outcome]

vars == <<corrente, oggetto, riga, rotta, fatto, sospeso>>

Versione == 1..MaxCreazioni
Stati == {"assente", "created", "assigned", "done", "failed"}

Ferma == [pc |-> "ferma", t |-> CHOOSE t \in Task : TRUE, v |-> 1, resto |-> 0,
          scrive |-> "assigned", fatti |-> 0, perse |-> 0]

\* Mutant of Graduatorie: the ranking is not cut.
GraduatorieIntere == 1..Nodi

\* _rank_candidate_nodes: how many of the active nodes are tried, the best first
Graduatorie == 1..(IF Nodi < MaxCandidati THEN Nodi ELSE MaxCandidati)

Init ==
  /\ corrente = [t \in Task |-> 0]
  /\ oggetto = [t \in Task |-> [v \in Versione |-> "assente"]]
  /\ riga = [t \in Task |-> "assente"]
  /\ rotta = [r \in Rotta |-> Ferma]
  /\ fatto = {} /\ sospeso = [t \in Task |-> "no"]

Segna(r, stato) == oggetto' = [oggetto EXCEPT ![rotta[r].t][rotta[r].v] = stato]

-----------------------------------------------------------------------------
(* create_task and assign_task. *)

\* INSERT OR IGNORE: the row of a task that exists stays as it is
Crea(t) ==
  /\ corrente[t] < MaxCreazioni
  /\ corrente' = [corrente EXCEPT ![t] = @ + 1]
  /\ oggetto' = [oggetto EXCEPT ![t][corrente[t] + 1] = "created"]
  /\ riga' = [riga EXCEPT ![t] = IF @ = "assente" THEN "created" ELSE @]
  /\ UNCHANGED <<rotta, fatto, sospeso>>

Assegna(r, t) ==
  /\ rotta[r].pc = "ferma" /\ corrente[t] # 0
  /\ \E g \in Graduatorie :
       rotta' = [rotta EXCEPT ![r] = [Ferma EXCEPT !.pc = "prova", !.t = t,
                                        !.v = corrente[t], !.resto = g]]
  /\ UNCHANGED <<corrente, oggetto, riga, fatto, sospeso>>

\* the next candidate, or the answer 503
Prova(r) ==
  /\ rotta[r].pc = "prova" /\ rotta[r].resto > 0
  /\ Segna(r, "assigned")
  /\ rotta' = [rotta EXCEPT ![r] = [rotta[r] EXCEPT !.pc = "scrive", !.scrive = "assigned"]]
  /\ UNCHANGED <<corrente, riga, fatto, sospeso>>

Rinuncia(r) ==
  /\ rotta[r].pc = "prova" /\ rotta[r].resto = 0
  /\ rotta' = [rotta EXCEPT ![r] = Ferma]
  /\ UNCHANGED <<corrente, oggetto, riga, fatto, sospeso>>

\* update_task, and what follows it
Poi == [assigned |-> "chiama", done |-> "ferma", failed |-> "prova"]

Scrive(r) ==
  LET q == rotta[r] IN
  /\ q.pc = "scrive"
  /\ riga' = [riga EXCEPT ![q.t] = IF @ = "assente" THEN @ ELSE q.scrive]
  /\ sospeso' = [sospeso EXCEPT ![q.t] = IF q.scrive = "assigned" THEN @ ELSE "no"]
  /\ rotta' = [rotta EXCEPT ![r] =
       IF q.scrive = "done" THEN Ferma
       ELSE [q EXCEPT !.pc = Poi[q.scrive],
                      !.resto = IF q.scrive = "failed" THEN q.resto - 1 ELSE q.resto]]
  /\ UNCHANGED <<corrente, oggetto, fatto>>

\* the table cannot be written: after an execution the task counts as failed and
\* the next node is tried; otherwise the exception leaves the route
SalvaFallisce(r) ==
  /\ rotta[r].pc = "scrive" /\ rotta[r].scrive = "done"
  /\ Segna(r, "failed")
  /\ rotta' = [rotta EXCEPT ![r] = [rotta[r] EXCEPT !.scrive = "failed", !.perse = @ + 1]]
  /\ UNCHANGED <<corrente, riga, fatto, sospeso>>

ScriveFallisce(r) ==
  /\ rotta[r].pc = "scrive" /\ rotta[r].scrive # "done"
  /\ rotta' = [rotta EXCEPT ![r] = Ferma]
  /\ sospeso' = [sospeso EXCEPT ![rotta[r].t] = "errore"]
  /\ UNCHANGED <<corrente, oggetto, riga, fatto>>

-----------------------------------------------------------------------------
(* The call of the node and its outcomes. *)

\* Mutant of Occupato: a node that is busy ends the task as if it had answered.
OccupatoFatto(r) ==
  /\ rotta[r].pc = "chiama"
  /\ Segna(r, "done")
  /\ rotta' = [rotta EXCEPT ![r] = [rotta[r] EXCEPT !.pc = "scrive", !.scrive = "done"]]
  /\ UNCHANGED <<corrente, riga, fatto, sospeso>>

\* Mutant of Occupato: the same node is tried again.
OccupatoInsiste(r) ==
  /\ rotta[r].pc = "chiama"
  /\ rotta' = [rotta EXCEPT ![r].pc = "prova"]
  /\ sospeso' = [sospeso EXCEPT ![rotta[r].t] = "occupato"]
  /\ UNCHANGED <<corrente, oggetto, riga, fatto>>

\* 503 node_busy_timeout: the task stays "assigned" and the next one is tried
Occupato(r) ==
  /\ rotta[r].pc = "chiama"
  /\ rotta' = [rotta EXCEPT ![r] = [rotta[r] EXCEPT !.pc = "prova", !.resto = @ - 1]]
  /\ sospeso' = [sospeso EXCEPT ![rotta[r].t] = "occupato"]
  /\ UNCHANGED <<corrente, oggetto, riga, fatto>>

Esegue(r) == fatto' = fatto \union {rotta[r].t}

\* Mutant of Risponde: the outcome is stored and the next node is tried as well.
RispondeEContinua(r) ==
  /\ rotta[r].pc = "chiama"
  /\ Esegue(r)
  /\ Segna(r, "done")
  /\ rotta' = [rotta EXCEPT ![r] = [rotta[r] EXCEPT !.pc = "scrive", !.scrive = "failed", !.fatti = @ + 1]]
  /\ UNCHANGED <<corrente, riga, sospeso>>

Risponde(r) ==
  /\ rotta[r].pc = "chiama"
  /\ Esegue(r)
  /\ Segna(r, "done")
  /\ rotta' = [rotta EXCEPT ![r] = [rotta[r] EXCEPT !.pc = "scrive", !.scrive = "done", !.fatti = @ + 1]]
  /\ UNCHANGED <<corrente, riga, sospeso>>

\* the node executed the task, but its answer is late, lost or not what it should be
RispostaPersa(r) ==
  /\ rotta[r].pc = "chiama"
  /\ Esegue(r)
  /\ Segna(r, "failed")
  /\ rotta' = [rotta EXCEPT ![r] = [rotta[r] EXCEPT !.pc = "scrive", !.scrive = "failed",
                            !.fatti = @ + 1, !.perse = @ + 1]]
  /\ UNCHANGED <<corrente, riga, sospeso>>

\* Mutant of NonEseguito: after a refusal the request ends without an outcome.
NonEseguitoTace(r) ==
  /\ rotta[r].pc = "chiama"
  /\ rotta' = [rotta EXCEPT ![r] = Ferma]
  /\ UNCHANGED <<corrente, oggetto, riga, fatto, sospeso>>

NonEseguito(r) ==
  /\ rotta[r].pc = "chiama"
  /\ Segna(r, "failed")
  /\ rotta' = [rotta EXCEPT ![r] = [rotta[r] EXCEPT !.pc = "scrive", !.scrive = "failed"]]
  /\ UNCHANGED <<corrente, riga, fatto, sospeso>>

\* _load_tasks_from_db: what is in the table comes back as it was
Riavvia ==
  /\ corrente' = [t \in Task |-> IF riga[t] = "assente" THEN 0 ELSE 1]
  /\ oggetto' = [t \in Task |-> [v \in Versione |-> IF v = 1 THEN riga[t] ELSE "assente"]]
  /\ rotta' = [r \in Rotta |-> Ferma]
  /\ sospeso' = [t \in Task |->
       IF riga[t] = "assigned" /\ sospeso[t] = "no" THEN "caduta" ELSE sospeso[t]]
  /\ UNCHANGED <<riga, fatto>>

Passo(r) ==
  \/ Prova(r) \/ Rinuncia(r) \/ Scrive(r) \/ SalvaFallisce(r) \/ ScriveFallisce(r)
  \/ Occupato(r) \/ Risponde(r) \/ RispostaPersa(r) \/ NonEseguito(r)

Next ==
  \/ \E t \in Task : Crea(t) \/ \E r \in Rotta : Assegna(r, t)
  \/ \E r \in Rotta : Passo(r)
  \/ Riavvia

Spec == Init /\ [][Next]_vars

\* A call of a node ends by its answer or after 120 seconds.
FairSpec == Spec /\ \A r \in Rotta : WF_vars(Passo(r))

-----------------------------------------------------------------------------
(* Properties. *)

TypeOK ==
  /\ corrente \in [Task -> 0..MaxCreazioni]
  /\ oggetto \in [Task -> [Versione -> Stati]] /\ riga \in [Task -> Stati]
  /\ \A r \in Rotta :
       /\ rotta[r].pc \in {"ferma", "prova", "scrive", "chiama"}
       /\ rotta[r].resto \in 0..MaxCandidati
       /\ rotta[r].scrive \in DOMAIN Poi
  /\ fatto \subseteq Task /\ sospeso \in [Task -> {"no", "occupato", "errore", "caduta"}]

\* A task that is shown as done, in memory or after a restart, was executed.
FattoEseguito ==
  \A t \in Task :
    (riga[t] = "done" \/ \E v \in Versione : oggetto[t][v] = "done") => t \in fatto

\* A request has a task executed once more only for each answer or outcome that
\* was lost: a retry never follows an outcome that was stored.
EsecuzioniContate == \A r \in Rotta : rotta[r].fatti <= 1 + rotta[r].perse

Serve(t) == \E r \in Rotta : rotta[r].pc # "ferma" /\ rotta[r].t = t

\* A task stands as "assigned" with nobody at work on it only because its last
\* node was busy, its row could not be written, or the control plane went down.
AppesoConMotivo ==
  \A t \in Task : riga[t] = "assigned" /\ ~Serve(t) => sospeso[t] # "no"

\* What a task says of itself is what happened (create_task, assign_task): the three above.
TaskVeri == FattoEseguito /\ EsecuzioniContate /\ AppesoConMotivo

\* Every request is answered.
RichiestaFinisce == \A r \in Rotta : rotta[r].pc # "ferma" ~> rotta[r].pc = "ferma"

-----------------------------------------------------------------------------
(* Proofs: TaskVeri for any number of tasks, requests, nodes and creations. *)

\* TypeOK, and the rest of a request
Richieste ==
  [pc : {"ferma", "prova", "scrive", "chiama"}, t : Task, v : Versione, resto : 0..MaxCandidati,
   scrive : DOMAIN Poi, fatti : Nat, perse : Nat]
Tipi ==
  /\ corrente \in [Task -> 0..MaxCreazioni]
  /\ oggetto \in [Task -> [Versione -> Stati]] /\ riga \in [Task -> Stati]
  /\ rotta \in [Rotta -> Richieste]
  /\ fatto \subseteq Task /\ sospeso \in [Task -> {"no", "occupato", "errore", "caduta"}]

\* Between two candidates nothing is owed: every execution of a request has lost its outcome
\* but the one about to be written, which happened; who is at a candidate still counts it.
InRegola(q, eseguiti) ==
  /\ q.pc \in {"scrive", "chiama"} => q.resto > 0
  /\ \/ q.fatti <= q.perse /\ ~(q.pc = "scrive" /\ q.scrive = "done")
     \/ q.pc = "scrive" /\ q.scrive = "done" /\ q.fatti <= 1 + q.perse /\ q.t \in eseguiti
RichiesteInRegola == \A r \in Rotta : InRegola(rotta[r], fatto)

\* At work on the outcome of the task: it calls the node, or writes what came of it.
Conclude(q) == q.pc = "chiama" \/ (q.pc = "scrive" /\ q.scrive # "assigned")

\* An "assigned" without reason is the row of a request that has yet to write its outcome.
QualcunoConclude ==
  \A t \in Task :
    riga[t] = "assigned" /\ sospeso[t] = "no" => \E r \in Rotta : rotta[r].t = t /\ Conclude(rotta[r])

IInv == Tipi /\ FattoEseguito /\ RichiesteInRegola /\ QualcunoConclude

LEMMA CandidatiLimitati == TaskAssignAssumption => Graduatorie \subseteq 1..MaxCandidati
BY DEF TaskAssignAssumption, Graduatorie

LEMMA FermaTipata ==
  TaskAssignAssumption => Ferma \in Richieste /\ \A F : InRegola(Ferma, F)
BY DEF TaskAssignAssumption, Ferma, Richieste, Poi, Versione, InRegola

LEMMA InvIniziale == TaskAssignAssumption /\ Init => IInv
<1> SUFFICES ASSUME TaskAssignAssumption, Init PROVE IInv
  OBVIOUS
<1>1. Tipi
  BY FermaTipata DEF TaskAssignAssumption, Init, Tipi, Stati
<1> QED BY <1>1, FermaTipata
   DEF Init, IInv, FattoEseguito, RichiesteInRegola, QualcunoConclude

\* A task created again changes no row that exists, and no object a request holds.
LEMMA PassoCrea ==
  ASSUME TaskAssignAssumption, IInv, NEW t \in Task, Crea(t)
  PROVE  IInv'
<1>1. Tipi'
  BY DEF IInv, Tipi, Crea, TaskAssignAssumption, Versione, Stati
<1>2. FattoEseguito'
  BY DEF IInv, Tipi, Crea, FattoEseguito, TaskAssignAssumption, Versione
<1>3. RichiesteInRegola'
  BY DEF IInv, Crea, RichiesteInRegola, InRegola
<1>4. QualcunoConclude'
  BY DEF IInv, Tipi, Crea, QualcunoConclude, Conclude
<1> QED BY <1>1, <1>2, <1>3, <1>4 DEF IInv

\* A step of one request: what it makes of its record q and of its task keeps the invariant.
LEMMA PassoDi ==
  ASSUME IInv, NEW r \in Rotta, NEW q \in Richieste, rotta' = [rotta EXCEPT ![r] = q],
         NEW t \in Task, t = rotta[r].t \/ ~Conclude(rotta[r]),
         UNCHANGED corrente, fatto \subseteq fatto', fatto' \subseteq Task,
         oggetto' \in [Task -> [Versione -> Stati]],
         \A u \in Task, v \in Versione : oggetto'[u][v] = "done" => oggetto[u][v] = "done" \/ u \in fatto',
         NEW s \in Stati, riga' = [riga EXCEPT ![t] = s], s = "done" => riga[t] = "done" \/ t \in fatto',
         NEW x \in {"no", "occupato", "errore", "caduta"}, sospeso' = [sospeso EXCEPT ![t] = x],
         InRegola(q, fatto'),
         s = "assigned" /\ x = "no" =>
           \/ q.t = t /\ Conclude(q)
           \/ riga[t] = "assigned" /\ sospeso[t] = "no" /\ ~Conclude(rotta[r])
  PROVE  IInv'
<1>1. Tipi'
  BY DEF IInv, Tipi
<1>2. FattoEseguito'
  BY DEF IInv, Tipi, FattoEseguito
<1>3. RichiesteInRegola'
  <2> SUFFICES ASSUME NEW w \in Rotta PROVE InRegola(rotta'[w], fatto')
    BY DEF RichiesteInRegola
  <2>1. CASE w = r
    BY <2>1 DEF IInv, Tipi, InRegola
  <2>2. CASE w # r
    <3>1. rotta'[w] = rotta[w] /\ InRegola(rotta[w], fatto)
      BY <2>2 DEF IInv, Tipi, RichiesteInRegola
    <3> QED BY <3>1 DEF InRegola
  <2> QED BY <2>1, <2>2
<1>4. QualcunoConclude'
  <2> SUFFICES ASSUME NEW u \in Task, riga'[u] = "assigned", sospeso'[u] = "no"
               PROVE  \E w \in Rotta : rotta'[w].t = u /\ Conclude(rotta'[w])
    BY DEF QualcunoConclude, Conclude
  <2>1. CASE u = t /\ q.t = t /\ Conclude(q)
    <3>1. rotta'[r] = q
      BY DEF IInv, Tipi
    <3> QED BY <2>1, <3>1
  <2>2. CASE ~(u = t /\ q.t = t /\ Conclude(q))
    <3>1. riga[u] = "assigned" /\ sospeso[u] = "no" /\ (u = t => ~Conclude(rotta[r]))
      BY <2>2 DEF IInv, Tipi
    <3>2. PICK w \in Rotta : rotta[w].t = u /\ Conclude(rotta[w])
      BY <3>1 DEF IInv, QualcunoConclude
    <3>3. w # r
      BY <3>1, <3>2
    <3> QED BY <3>2, <3>3 DEF IInv, Tipi
  <2> QED BY <2>1, <2>2
<1> QED BY <1>1, <1>2, <1>3, <1>4 DEF IInv

\* Marking the object of a task keeps the types, and makes it done only if it was told to.
LEMMA Segnato ==
  ASSUME Tipi, NEW r \in Rotta, NEW s \in Stati, Segna(r, s)
  PROVE  /\ oggetto' \in [Task -> [Versione -> Stati]]
         /\ \A u \in Task, v \in Versione : oggetto'[u][v] = "done" =>
              oggetto[u][v] = "done" \/ (u = rotta[r].t /\ s = "done")
<1> rotta[r].t \in Task /\ rotta[r].v \in Versione
  BY DEF Tipi, Richieste
<1> QED BY DEF Tipi, Segna

LEMMA PassoAssegna ==
  ASSUME TaskAssignAssumption, IInv, NEW r \in Rotta, NEW t \in Task, Assegna(r, t)
  PROVE  IInv'
<1> PICK g \in Graduatorie :
      rotta' = [rotta EXCEPT ![r] = [Ferma EXCEPT !.pc = "prova", !.t = t,
                                       !.v = corrente[t], !.resto = g]]
  BY DEF Assegna
<1> DEFINE q == [Ferma EXCEPT !.pc = "prova", !.t = t, !.v = corrente[t], !.resto = g]
<1>1. q \in Richieste
  <2>1. corrente[t] \in Versione /\ g \in 0..MaxCandidati
    BY CandidatiLimitati DEF IInv, Tipi, Assegna, TaskAssignAssumption, Versione
  <2> QED BY <2>1, FermaTipata DEF Richieste
<1>2. q.pc = "prova" /\ q.fatti = 0 /\ q.perse = 0
  BY DEF Ferma
<1>3. InRegola(q, fatto')
  BY <1>2 DEF InRegola
<1>4. ~Conclude(rotta[r])
  BY DEF Assegna, Conclude
<1>5. rotta' = [rotta EXCEPT ![r] = q]
  OBVIOUS
<1> HIDE DEF q
<1>6. /\ riga' = [riga EXCEPT ![t] = riga[t]] /\ riga[t] \in Stati
      /\ sospeso' = [sospeso EXCEPT ![t] = sospeso[t]] /\ sospeso[t] \in {"no", "occupato", "errore", "caduta"}
  BY DEF IInv, Tipi, Assegna
<1>7. UNCHANGED <<corrente, oggetto, fatto>> /\ fatto \subseteq Task /\ oggetto \in [Task -> [Versione -> Stati]]
  BY DEF IInv, Tipi, Assegna
<1> QED BY <1>1, <1>3, <1>4, <1>5, <1>6, <1>7, PassoDi

\* The steps of a request that is at work, one by one.
LEMMA PassoRichiesta ==
  ASSUME TaskAssignAssumption, IInv, NEW r \in Rotta, Passo(r)
  PROVE  IInv'
<1> DEFINE t == rotta[r].t
<1> DEFINE Motivi == {"no", "occupato", "errore", "caduta"}
<1>t. /\ rotta[r] \in Richieste /\ t \in Task /\ InRegola(rotta[r], fatto)
      /\ riga[t] \in Stati /\ riga = [riga EXCEPT ![t] = riga[t]]
      /\ sospeso[t] \in Motivi /\ sospeso = [sospeso EXCEPT ![t] = sospeso[t]]
      /\ oggetto \in [Task -> [Versione -> Stati]] /\ fatto \subseteq Task
  BY DEF IInv, Tipi, Richieste, RichiesteInRegola
<1>n. /\ rotta[r].fatti + 1 \in Nat /\ rotta[r].perse + 1 \in Nat
      /\ rotta[r].resto > 0 => rotta[r].resto - 1 \in 0..MaxCandidati
  BY <1>t DEF TaskAssignAssumption, Richieste
<1>f. /\ rotta \in [Rotta -> Richieste] /\ riga \in [Task -> Stati] /\ sospeso \in [Task -> Motivi]
      /\ Tipi
  BY DEF IInv, Tipi
<1> HIDE DEF t
<1> DEFINE Fatta(q, s, x) ==
      /\ q \in Richieste /\ rotta' = [rotta EXCEPT ![r] = q] /\ InRegola(q, fatto')
      /\ s \in Stati /\ riga' = [riga EXCEPT ![t] = s] /\ (s = "done" => riga[t] = "done" \/ t \in fatto')
      /\ x \in Motivi /\ sospeso' = [sospeso EXCEPT ![t] = x]
      /\ s = "assigned" /\ x = "no" =>
           \/ q.t = t /\ Conclude(q)
           \/ riga[t] = "assigned" /\ sospeso[t] = "no" /\ ~Conclude(rotta[r])
<1> DEFINE Oggetti ==
      /\ UNCHANGED corrente /\ fatto \subseteq fatto' /\ fatto' \subseteq Task
      /\ oggetto' \in [Task -> [Versione -> Stati]]
      /\ \A u \in Task, v \in Versione : oggetto'[u][v] = "done" => oggetto[u][v] = "done" \/ u \in fatto'
<1>p. ASSUME NEW q, NEW s, NEW x, Fatta(q, s, x), Oggetti PROVE IInv'
  BY <1>p, <1>t, PassoDi DEF t
<1>1. CASE Prova(r)
  <2> DEFINE q == [rotta[r] EXCEPT !.pc = "scrive", !.scrive = "assigned"]
  <2>1. q \in Richieste /\ rotta' = [rotta EXCEPT ![r] = q] /\ q.pc = "scrive" /\ q.scrive = "assigned"
        /\ q.fatti = rotta[r].fatti /\ q.perse = rotta[r].perse
    BY <1>1, <1>t, <1>f DEF Prova, Richieste, Poi
  <2>2. InRegola(q, fatto') /\ ~Conclude(rotta[r])
    BY <1>1, <1>t, <2>1 DEF Prova, InRegola, Conclude
  <2>3. Oggetti
    BY <1>1, <1>t, <1>f, Segnato DEF Prova, Stati
  <2> HIDE DEF q
  <2>4. Fatta(q, riga[t], sospeso[t])
    BY <1>1, <1>t, <2>1, <2>2 DEF Prova
  <2> QED BY <2>3, <2>4, <1>p
<1>2. CASE Rinuncia(r)
  <2>1. Oggetti /\ ~Conclude(rotta[r])
    BY <1>2, <1>t DEF Rinuncia, Conclude
  <2>2. Fatta(Ferma, riga[t], sospeso[t])
    BY <1>2, <1>t, <2>1, FermaTipata DEF Rinuncia
  <2> QED BY <2>1, <2>2, <1>p
<1>3. CASE Scrive(r)
  <2>o. Oggetti
    BY <1>3, <1>t DEF Scrive
  <2>1. CASE rotta[r].scrive = "done"
    <3>1. t \in fatto
      BY <1>3, <1>t, <2>1 DEF Scrive, InRegola, t
    <3> DEFINE s == IF riga[t] = "assente" THEN riga[t] ELSE "done"
    <3>2. s \in Stati /\ s # "assigned" /\ riga' = [riga EXCEPT ![t] = s]
      BY <1>3, <1>t, <2>1 DEF Scrive, Stati, t
    <3>3. sospeso' = [sospeso EXCEPT ![t] = "no"] /\ rotta' = [rotta EXCEPT ![r] = Ferma] /\ UNCHANGED fatto
      BY <1>3, <2>1 DEF Scrive, t
    <3> HIDE DEF s
    <3>4. Fatta(Ferma, s, "no")
      BY <3>1, <3>2, <3>3, FermaTipata
    <3> QED BY <2>o, <3>4, <1>p
  <2>2. CASE rotta[r].scrive = "failed"
    <3> DEFINE q == [rotta[r] EXCEPT !.pc = "prova", !.resto = rotta[r].resto - 1]
    <3>0. rotta[r].resto > 0
      BY <1>3, <1>t DEF Scrive, InRegola
    <3>1. rotta' = [rotta EXCEPT ![r] = q]
      BY <1>3, <2>2 DEF Scrive, Poi
    <3>2. q \in Richieste /\ q.pc = "prova" /\ q.fatti = rotta[r].fatti /\ q.perse = rotta[r].perse
      BY <3>0, <1>t, <1>n DEF Richieste
    <3>3. InRegola(q, fatto')
      BY <1>3, <1>t, <2>2, <3>2 DEF Scrive, InRegola
    <3> DEFINE s == IF riga[t] = "assente" THEN riga[t] ELSE "failed"
    <3>4. s \in Stati /\ s # "assigned" /\ s # "done" /\ riga' = [riga EXCEPT ![t] = s]
      BY <1>3, <1>t, <2>2 DEF Scrive, Stati, t
    <3>5. sospeso' = [sospeso EXCEPT ![t] = "no"]
      BY <1>3, <2>2 DEF Scrive, t
    <3> HIDE DEF q, s
    <3>6. Fatta(q, s, "no")
      BY <3>1, <3>2, <3>3, <3>4, <3>5
    <3> QED BY <2>o, <3>6, <1>p
  <2>3. CASE rotta[r].scrive = "assigned"
    <3> DEFINE q == [rotta[r] EXCEPT !.pc = "chiama", !.resto = rotta[r].resto]
    <3>1. rotta' = [rotta EXCEPT ![r] = q]
      BY <1>3, <2>3 DEF Scrive, Poi
    <3>2. q \in Richieste /\ q.pc = "chiama" /\ q.fatti = rotta[r].fatti /\ q.perse = rotta[r].perse
          /\ q.t = t /\ Conclude(q)
      BY <1>t DEF Richieste, Conclude, t
    <3>3. InRegola(q, fatto')
      BY <1>3, <1>t, <2>3, <3>2 DEF Scrive, InRegola
    <3> DEFINE s == IF riga[t] = "assente" THEN riga[t] ELSE "assigned"
    <3>4. s \in Stati /\ s # "done" /\ riga' = [riga EXCEPT ![t] = s]
      BY <1>3, <1>t, <2>3 DEF Scrive, Stati, t
    <3>5. sospeso' = [sospeso EXCEPT ![t] = sospeso[t]]
      BY <1>3, <2>3 DEF Scrive, t
    <3> HIDE DEF q, s
    <3>6. Fatta(q, s, sospeso[t])
      BY <1>t, <3>1, <3>2, <3>3, <3>4, <3>5
    <3> QED BY <2>o, <3>6, <1>p
  <2> QED BY <1>t, <2>1, <2>2, <2>3 DEF Richieste, Poi
<1>4. CASE SalvaFallisce(r)
  <2> DEFINE q == [rotta[r] EXCEPT !.scrive = "failed", !.perse = rotta[r].perse + 1]
  <2>1. q \in Richieste /\ rotta' = [rotta EXCEPT ![r] = q] /\ q.pc = "scrive" /\ q.scrive = "failed"
        /\ q.fatti = rotta[r].fatti /\ q.perse = rotta[r].perse + 1 /\ q.t = t
    BY <1>4, <1>t, <1>n, <1>f DEF SalvaFallisce, Richieste, Poi, t
  <2>2. InRegola(q, fatto') /\ Conclude(q)
    BY <1>4, <1>t, <2>1 DEF SalvaFallisce, InRegola, Conclude, Richieste
  <2>3. Oggetti
    BY <1>4, <1>t, <1>f, Segnato DEF SalvaFallisce, Stati
  <2> HIDE DEF q
  <2>4. Fatta(q, riga[t], sospeso[t])
    BY <1>4, <1>t, <2>1, <2>2 DEF SalvaFallisce
  <2> QED BY <2>3, <2>4, <1>p
<1>5. CASE ScriveFallisce(r)
  <2>1. Oggetti
    BY <1>5, <1>t DEF ScriveFallisce
  <2>2. Fatta(Ferma, riga[t], "errore")
    BY <1>5, <1>t, FermaTipata DEF ScriveFallisce, t
  <2> QED BY <2>1, <2>2, <1>p
<1>6. CASE Occupato(r)
  <2> DEFINE q == [rotta[r] EXCEPT !.pc = "prova", !.resto = rotta[r].resto - 1]
  <2>0. rotta[r].resto > 0
    BY <1>6, <1>t DEF Occupato, InRegola
  <2>1. q \in Richieste /\ rotta' = [rotta EXCEPT ![r] = q] /\ q.pc = "prova"
        /\ q.fatti = rotta[r].fatti /\ q.perse = rotta[r].perse
    BY <1>6, <1>t, <1>n, <1>f, <2>0 DEF Occupato, Richieste
  <2>2. InRegola(q, fatto')
    BY <1>6, <1>t, <2>1 DEF Occupato, InRegola
  <2>3. Oggetti
    BY <1>6, <1>t DEF Occupato
  <2> HIDE DEF q
  <2>4. Fatta(q, riga[t], "occupato")
    BY <1>6, <1>t, <2>1, <2>2 DEF Occupato, t
  <2> QED BY <2>3, <2>4, <1>p
<1>7. CASE Risponde(r)
  <2> DEFINE q == [rotta[r] EXCEPT !.pc = "scrive", !.scrive = "done", !.fatti = rotta[r].fatti + 1]
  <2>1. q \in Richieste /\ rotta' = [rotta EXCEPT ![r] = q] /\ q.pc = "scrive" /\ q.scrive = "done"
        /\ q.fatti = rotta[r].fatti + 1 /\ q.perse = rotta[r].perse /\ q.t = t
    BY <1>7, <1>t, <1>n, <1>f DEF Risponde, Richieste, Poi, t
  <2>2. fatto' = fatto \union {t}
    BY <1>7 DEF Risponde, Esegue, t
  <2>3. InRegola(q, fatto') /\ Conclude(q)
    BY <1>7, <1>t, <2>1, <2>2 DEF Risponde, InRegola, Conclude, Richieste
  <2>4. Oggetti
    BY <1>7, <1>t, <1>f, <2>2, Segnato DEF Risponde, Stati, t
  <2> HIDE DEF q
  <2>5. Fatta(q, riga[t], sospeso[t])
    BY <1>7, <1>t, <2>1, <2>2, <2>3 DEF Risponde
  <2> QED BY <2>4, <2>5, <1>p
<1>8. CASE RispostaPersa(r)
  <2> DEFINE q == [rotta[r] EXCEPT !.pc = "scrive", !.scrive = "failed", !.fatti = rotta[r].fatti + 1,
                                   !.perse = rotta[r].perse + 1]
  <2>1. q \in Richieste /\ rotta' = [rotta EXCEPT ![r] = q] /\ q.pc = "scrive" /\ q.scrive = "failed"
        /\ q.fatti = rotta[r].fatti + 1 /\ q.perse = rotta[r].perse + 1 /\ q.t = t
    BY <1>8, <1>t, <1>n, <1>f DEF RispostaPersa, Richieste, Poi, t
  <2>2. fatto' = fatto \union {t}
    BY <1>8 DEF RispostaPersa, Esegue, t
  <2>3. InRegola(q, fatto') /\ Conclude(q)
    BY <1>8, <1>t, <2>1 DEF RispostaPersa, InRegola, Conclude, Richieste
  <2>4. Oggetti
    BY <1>8, <1>t, <1>f, <2>2, Segnato DEF RispostaPersa, Stati
  <2> HIDE DEF q
  <2>5. Fatta(q, riga[t], sospeso[t])
    BY <1>8, <1>t, <2>1, <2>2, <2>3 DEF RispostaPersa
  <2> QED BY <2>4, <2>5, <1>p
<1>9. CASE NonEseguito(r)
  <2> DEFINE q == [rotta[r] EXCEPT !.pc = "scrive", !.scrive = "failed"]
  <2>1. q \in Richieste /\ rotta' = [rotta EXCEPT ![r] = q] /\ q.pc = "scrive" /\ q.scrive = "failed"
        /\ q.fatti = rotta[r].fatti /\ q.perse = rotta[r].perse /\ q.t = t
    BY <1>9, <1>t, <1>f DEF NonEseguito, Richieste, Poi, t
  <2>2. InRegola(q, fatto') /\ Conclude(q)
    BY <1>9, <1>t, <2>1 DEF NonEseguito, InRegola, Conclude
  <2>3. Oggetti
    BY <1>9, <1>t, <1>f, Segnato DEF NonEseguito, Stati
  <2> HIDE DEF q
  <2>4. Fatta(q, riga[t], sospeso[t])
    BY <1>9, <1>t, <2>1, <2>2 DEF NonEseguito
  <2> QED BY <2>3, <2>4, <1>p
<1> QED BY <1>1, <1>2, <1>3, <1>4, <1>5, <1>6, <1>7, <1>8, <1>9 DEF Passo

\* A restart keeps the rows: who was concluding is gone, and that is the reason.
LEMMA PassoRiavvia == TaskAssignAssumption /\ IInv /\ Riavvia => IInv'
<1> SUFFICES ASSUME TaskAssignAssumption, IInv, Riavvia PROVE IInv'
  OBVIOUS
<1>1. Tipi'
  BY FermaTipata DEF TaskAssignAssumption, IInv, Tipi, Riavvia, Versione, Stati
<1>2. FattoEseguito'
  BY DEF IInv, Tipi, Riavvia, FattoEseguito
<1>3. RichiesteInRegola'
  BY FermaTipata DEF Riavvia, RichiesteInRegola, InRegola
<1>4. QualcunoConclude'
  BY DEF IInv, Tipi, Riavvia, QualcunoConclude
<1> QED BY <1>1, <1>2, <1>3, <1>4 DEF IInv

LEMMA InvPreservata == TaskAssignAssumption /\ IInv /\ [Next]_vars => IInv'
<1> SUFFICES ASSUME TaskAssignAssumption, IInv, [Next]_vars PROVE IInv'
  OBVIOUS
<1>1. CASE UNCHANGED vars
  BY <1>1 DEF vars, IInv, Tipi, FattoEseguito, RichiesteInRegola, InRegola, QualcunoConclude, Conclude
<1>2. CASE Next
  BY <1>2, PassoCrea, PassoAssegna, PassoRichiesta, PassoRiavvia DEF Next
<1> QED BY <1>1, <1>2

\* The invariant gives the three properties; the last one because who is to conclude serves.
LEMMA InvBasta == IInv => TypeOK /\ TaskVeri
<1> SUFFICES ASSUME IInv PROVE TypeOK /\ TaskVeri
  OBVIOUS
<1>1. TypeOK
  BY DEF IInv, Tipi, Richieste, TypeOK
<1>2. EsecuzioniContate
  BY DEF IInv, Tipi, Richieste, RichiesteInRegola, InRegola, EsecuzioniContate
<1>3. AppesoConMotivo
  BY DEF IInv, QualcunoConclude, Conclude, AppesoConMotivo, Serve
<1> QED BY <1>1, <1>2, <1>3 DEF IInv, TaskVeri

\* The tasks, their objects, their rows and the requests keep their types (main.py, shared/db.py).
THEOREM TipoCorretto == Spec => []TypeOK
<1>1. TaskAssignAssumption
  BY CostantiAmmesse
<1> QED BY <1>1, InvIniziale, InvPreservata, InvBasta, PTL DEF Spec

\* A task shown as done was executed, a request has it executed once more only for an answer
\* or an outcome that was lost, and one left "assigned" with nobody at work has a reason
\* (assign_task of main.py), for any number of requests on one task, creations and restarts.
THEOREM TaskSempreVeri == Spec => []TaskVeri
<1>1. TaskAssignAssumption
  BY CostantiAmmesse
<1> QED BY <1>1, InvIniziale, InvPreservata, InvBasta, PTL DEF Spec
=============================================================================
