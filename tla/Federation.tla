----------------------------- MODULE Federation -----------------------------
(***************************************************************************)
(* Control planes that know each other (control-plane/cp/federazione.py):  *)
(* each keeps an allowlist, federated_peers (shared/db.py), that only its  *)
(* operator fills; a control plane without nodes of its own forwards a     *)
(* task to its peers, one after the other, until one of them answers.      *)
(*                                                                         *)
(* The forwarding thread works on the list as it was when it started, the  *)
(* operator edits the table meanwhile, and a peer whose answer was lost    *)
(* goes on executing.                                                      *)
(***************************************************************************)
EXTENDS Naturals, FiniteSets

CONSTANTS
  CP,       \* control planes
  Task,     \* tasks that find no local node
  Aperti,   \* the control planes with FEDERATION_ENABLED, read once at import
  Capaci,   \* the control planes whose nodes can serve the model
  MaxGesti  \* bound: edits of the allowlists

VARIABLES
  lista,    \* [CP -> [CP -> row]]: federated_peers of each control plane
  cambio,   \* [CP -> the toggle that has read its row and not yet written it]
  inoltro,  \* [Task -> [fase, da, resto, verso]]: _try_federated_execution
  lavoro,   \* [Task -> [CP -> phase]]: the task at each control plane
  chiesti,  \* [Task -> the peers the origin sent the task to]
  persi,    \* [Task -> the peers it gave up on]
  gesti     \* edits so far

vars == <<lista, cambio, inoltro, lavoro, chiesti, persi, gesti>>

FederationAssumption == CP # {} /\ MaxGesti \in Nat

Assente == [c |-> "assente", visto |-> "unknown"]
Riga == [c : {"assente", "acceso", "spento"},
         visto : {"unknown", "ok", "unreachable", "no_capacity", "error"}]
Nessuno == [fase |-> "fermo", peer |-> CHOOSE c \in CP : TRUE, nuovo |-> "spento"]
Fermo == [fase |-> "nuovo", da |-> CHOOSE c \in CP : TRUE, resto |-> {},
          verso |-> CHOOSE c \in CP : TRUE]
Accesi(c) == {p \in CP : lista[c][p].c = "acceso"}

\* Mutant of Tocca: a row is written for whoever was called, listed or not.
ToccaSempre(c, p, stato) ==
  [lista EXCEPT ![c][p] = [c |-> IF @.c = "assente" THEN "acceso" ELSE @.c, visto |-> stato]]

\* touch_federated_peer: UPDATE ... WHERE, so a row removed meanwhile is not made again
Tocca(c, p, stato) ==
  IF lista[c][p].c = "assente" THEN lista ELSE [lista EXCEPT ![c][p].visto = stato]

\* the rows that were saved: every control plane has paired with the others
Init ==
  /\ lista = [c \in CP |-> [p \in CP |-> IF p = c THEN Assente ELSE [Assente EXCEPT !.c = "acceso"]]]
  /\ cambio = [c \in CP |-> Nessuno]
  /\ inoltro = [t \in Task |-> Fermo]
  /\ lavoro = [t \in Task |-> [c \in CP |-> "mai"]]
  /\ chiesti = [t \in Task |-> {}] /\ persi = [t \in Task |-> {}] /\ gesti = 0

Gesto == gesti < MaxGesti /\ gesti' = gesti + 1

-----------------------------------------------------------------------------
(* The operator and the allowlist. *)

\* add_federated_peer: the identifier is the hash of the key, so pairing again finds the
\* same row, turns it on and leaves what was last seen of it
Accoppia(c, p) ==
  /\ c # p /\ Gesto
  /\ lista' = [lista EXCEPT ![c][p].c = "acceso"]
  /\ UNCHANGED <<cambio, inoltro, lavoro, chiesti, persi>>

\* toggle_federated_peer reads the row, then writes the opposite
LeggeCambio(c, p) ==
  /\ cambio[c].fase = "fermo" /\ lista[c][p].c # "assente" /\ Gesto
  /\ cambio' = [cambio EXCEPT ![c] =
       [fase |-> "letto", peer |-> p,
        nuovo |-> IF lista[c][p].c = "acceso" THEN "spento" ELSE "acceso"]]
  /\ UNCHANGED <<lista, inoltro, lavoro, chiesti, persi>>

ScriveCambio(c) ==
  LET p == cambio[c].peer IN
  /\ cambio[c].fase = "letto"
  /\ lista' = IF lista[c][p].c = "assente" THEN lista
              ELSE [lista EXCEPT ![c][p].c = cambio[c].nuovo]
  /\ cambio' = [cambio EXCEPT ![c] = Nessuno]
  /\ UNCHANGED <<inoltro, lavoro, chiesti, persi, gesti>>

Rimuove(c, p) ==
  /\ lista[c][p].c # "assente" /\ Gesto
  /\ lista' = [lista EXCEPT ![c][p] = Assente]
  /\ UNCHANGED <<cambio, inoltro, lavoro, chiesti, persi>>

-----------------------------------------------------------------------------
(* The origin: _try_federated_execution and _federate_to_peer. *)

\* the enabled peers are read once, before the first call
Parte(t, c) ==
  /\ inoltro[t].fase = "nuovo" /\ c \in Aperti
  /\ inoltro' = [inoltro EXCEPT ![t] = [Fermo EXCEPT !.fase = "prova", !.da = c,
                                                     !.resto = Accesi(c)]]
  /\ UNCHANGED <<lista, cambio, lavoro, chiesti, persi, gesti>>

\* Mutant of Chiama: a peer is called while the one before it has not answered.
ChiamaSenzaAttendere(t, p) ==
  /\ inoltro[t].fase \in {"prova", "attende"} /\ p \in inoltro[t].resto
  /\ inoltro' = [inoltro EXCEPT ![t] =
       [inoltro[t] EXCEPT !.fase = "attende", !.verso = p,
                          !.resto = inoltro[t].resto \ {p}]]
  /\ lavoro' = [lavoro EXCEPT ![t][p] = "in arrivo"]
  /\ chiesti' = [chiesti EXCEPT ![t] = @ \cup {p}]
  /\ UNCHANGED <<lista, cambio, persi, gesti>>

\* two rows may be of the same second, and then come in any order
Chiama(t, p) ==
  /\ inoltro[t].fase = "prova" /\ p \in inoltro[t].resto
  /\ inoltro' = [inoltro EXCEPT ![t] =
       [inoltro[t] EXCEPT !.fase = "attende", !.verso = p,
                          !.resto = inoltro[t].resto \ {p}]]
  /\ lavoro' = [lavoro EXCEPT ![t][p] = "in arrivo"]
  /\ chiesti' = [chiesti EXCEPT ![t] = @ \cup {p}]
  /\ UNCHANGED <<lista, cambio, persi, gesti>>

\* the answer is the outcome, an error, or none before the deadline: on anything but an
\* outcome the next peer is tried
Risposta(t) ==
  LET c == inoltro[t].da  p == inoltro[t].verso IN
  /\ inoltro[t].fase = "attende"
  /\ \/ /\ lavoro[t][p] = "fatto"
        /\ inoltro' = [inoltro EXCEPT ![t].fase = "fatto"]
        /\ lista' = Tocca(c, p, "ok")
        /\ UNCHANGED persi
     \/ /\ inoltro' = [inoltro EXCEPT ![t].fase = "prova"]
        /\ lista' = Tocca(c, p, "unreachable")
        /\ persi' = [persi EXCEPT ![t] = @ \cup {p}]
  /\ UNCHANGED <<cambio, lavoro, chiesti, gesti>>

Rinuncia(t) ==
  /\ inoltro[t].fase = "prova" /\ inoltro[t].resto = {}
  /\ inoltro' = [inoltro EXCEPT ![t].fase = "fallito"]
  /\ UNCHANGED <<lista, cambio, lavoro, chiesti, persi, gesti>>

-----------------------------------------------------------------------------
(* The peer: federate_execute. *)

\* Mutant of Riceve: without nodes the peer asks its own peers.
RiceveRifederando(t, p) ==
  LET c == inoltro[t].da IN
  /\ lavoro[t][p] = "in arrivo" /\ lista[p][c].c = "acceso"
  /\ IF p \in Capaci THEN lavoro' = [lavoro EXCEPT ![t][p] = "esegue"]
     ELSE \E q \in Accesi(p) :
            lavoro' = [lavoro EXCEPT ![t][p] = "respinto", ![t][q] = "in arrivo"]
  /\ UNCHANGED <<lista, cambio, inoltro, chiesti, persi, gesti>>

\* federation on, the sender enabled with the key it was paired with, a signature less
\* than thirty seconds old: then a local node, never a peer in its turn
Riceve(t, p) ==
  LET c == inoltro[t].da IN
  /\ lavoro[t][p] = "in arrivo"
  /\ \/ /\ lavoro' = [lavoro EXCEPT ![t][p] = "respinto"]
        /\ UNCHANGED lista
     \/ /\ p \in Aperti /\ lista[p][c].c = "acceso"
        /\ IF p \in Capaci
           THEN lavoro' = [lavoro EXCEPT ![t][p] = "esegue"] /\ UNCHANGED lista
           ELSE /\ lavoro' = [lavoro EXCEPT ![t][p] = "respinto"]
                /\ lista' = Tocca(p, c, "no_capacity")
  /\ UNCHANGED <<cambio, inoltro, chiesti, persi, gesti>>

\* the node answers, or the call to it fails, perhaps after it has executed
Esegue(t, p) ==
  /\ lavoro[t][p] = "esegue"
  /\ \/ lavoro' = [lavoro EXCEPT ![t][p] = "fatto"] /\ lista' = Tocca(p, inoltro[t].da, "ok")
     \/ \E s \in {"fallito", "guasto"} :
          lavoro' = [lavoro EXCEPT ![t][p] = s] /\ lista' = Tocca(p, inoltro[t].da, "error")
  /\ UNCHANGED <<cambio, inoltro, chiesti, persi, gesti>>

Next ==
  \/ \E c \in CP : ScriveCambio(c)
       \/ \E p \in CP : Accoppia(c, p) \/ LeggeCambio(c, p) \/ Rimuove(c, p)
  \/ \E t \in Task : Risposta(t) \/ Rinuncia(t)
       \/ \E c \in CP : Parte(t, c) \/ Chiama(t, c) \/ Riceve(t, c) \/ Esegue(t, c)

Spec == Init /\ [][Next]_vars
FairSpec == Spec /\ \A t \in Task :
  WF_vars(Risposta(t)) /\ WF_vars(Rinuncia(t)) /\ WF_vars(\E p \in CP : Chiama(t, p))

-----------------------------------------------------------------------------
TypeOK ==
  /\ lista \in [CP -> [CP -> Riga]]
  /\ cambio \in [CP -> [fase : {"fermo", "letto"}, peer : CP, nuovo : {"acceso", "spento"}]]
  /\ inoltro \in [Task -> [fase : {"nuovo", "prova", "attende", "fatto", "fallito"}, da : CP,
                           resto : SUBSET CP, verso : CP]]
  /\ lavoro \in [Task -> [CP -> {"mai", "in arrivo", "respinto", "esegue", "fatto", "fallito",
                                 "guasto"}]]
  /\ chiesti \in [Task -> SUBSET CP] /\ persi \in [Task -> SUBSET CP] /\ gesti \in 0..MaxGesti

\* the task has run at p, answered or not
Eseguito(t, p) == lavoro[t][p] \in {"fatto", "guasto"}

\* A forwarded task goes one hop: it runs only where its origin sent it (federate_execute
\* does not forward in its turn, so peers without nodes cannot pass it around).
UnSoloSalto == \A t \in Task : \A p \in CP : Eseguito(t, p) => p \in chiesti[t]

\* A task runs on a second control plane only after the origin gave up on the first
\* (_try_federated_execution waits for each peer).
DoppioneSpiegato ==
  \A t \in Task : \A p \in CP :
    Eseguito(t, p) => p \in persi[t] \/ p = inoltro[t].verso

\* A peer the operator removed comes back only by pairing it again: a call to it that was
\* in flight does not write its row (touch_federated_peer, toggle_federated_peer).
PassoRimosso ==
  \A c \in CP : \A p \in CP :
    lista[c][p].c = "assente" /\ lista'[c][p].c # "assente" => Accoppia(c, p)
RimossoResta == [][PassoRimosso]_vars

\* A task that was forwarded ends, with an outcome or without, whatever the peers do
\* (_federate_to_peer has a deadline and the list is read once).
InoltroFinisce ==
  \A t \in Task : inoltro[t].fase = "prova" ~> inoltro[t].fase \in {"fatto", "fallito"}
=============================================================================
