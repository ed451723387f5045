----------------------------- MODULE PeerGossip ------------------------------
(***************************************************************************)
(* How nodes find each other (node/main.py) with the help of the registry  *)
(* (registry/registry.py): at every heartbeat a node announces itself to   *)
(* the peers it holds for active, which answer with theirs, registers, and *)
(* looks in the registry when it has nobody.  A peer not heard of for a    *)
(* while, at first or at second hand, is stale.                            *)
(*                                                                         *)
(* Nodes fall, and come back without their table, perhaps at another       *)
(* address; answers are lost; the registry, which lives in memory, too.    *)
(***************************************************************************)
EXTENDS Naturals, FiniteSets

CONSTANTS
  Nodo, Indirizzo,
  Assidui,        \* nodes whose heartbeat comes again; the others stop after the first
  Spento,         \* no address
  Semi,           \* [Nodo -> BOOT_PEERS, a set of addresses]
  Posti,          \* [Nodo -> the addresses it may listen at]
  EtaMassima,     \* PEER_MAX_AGE_S
  Ttl,            \* TTL_SECONDS of the registry
  Puntuale,       \* every node finishes a heartbeat between two ticks of the clock
  MaxCadute, MaxVuoti

VARIABLES
  dove,       \* [Nodo -> where it listens, Spento when it is down]
  peers,      \* [Nodo -> [Nodo -> its record in _peers]]
  registro,   \* [Nodo -> its record in the registry]
  battito,    \* [Nodo -> where its heartbeat thread is]
  veri,       \* the pairs node, address that have been true
  guasti,     \* nodes fallen so far
  vuoti       \* times the registry lost its memory

vars == <<dove, peers, registro, battito, veri, guasti, vuoti>>

Assente == [ep |-> Spento, eta |-> 0, stato |-> "assente"]
Fermo == [fase |-> "fermo", resta |-> {}, solo |-> FALSE, da |-> {}, elenco |-> {},
          fatto |-> FALSE]
Finito == [Fermo EXCEPT !.fatto = TRUE]
Su(n) == dove[n] # Spento
Attivi(n) == {m \in Nodo : peers[n][m].stato = "active"}

\* register_peer, for pairs <<node, address>>: the record is made again
Notati(t, n, coppie) ==
  [m \in Nodo |-> IF m # n /\ \E c \in coppie : c[1] = m
                  THEN [ep |-> (CHOOSE c \in coppie : c[1] = m)[2], eta |-> 0, stato |-> "active"]
                  ELSE t[m]]

\* prune_stale_peers
Sfoltiti(t) ==
  [m \in Nodo |-> IF t[m] # Assente /\ t[m].eta > EtaMassima
                  THEN [t[m] EXCEPT !.stato = "stale"] ELSE t[m]]

Init ==
  /\ dove = [n \in Nodo |-> Spento]
  /\ peers = [n \in Nodo |-> [m \in Nodo |-> Assente]]
  /\ registro = [n \in Nodo |-> Assente]
  /\ battito = [n \in Nodo |-> Fermo]
  /\ veri = {} /\ guasti = 0 /\ vuoti = 0

-----------------------------------------------------------------------------
Avvia(n, e) ==
  /\ ~Su(n) /\ e \in Posti[n] /\ \A m \in Nodo : dove[m] # e
  /\ dove' = [dove EXCEPT ![n] = e] /\ veri' = veri \cup {<<n, e>>}
  /\ battito' = [battito EXCEPT ![n] = [Fermo EXCEPT !.fase = "annuncia", !.resta = Semi[n],
                                                     !.solo = Semi[n] = {}]]
  /\ UNCHANGED <<peers, registro, guasti, vuoti>>

Cade(n) ==
  /\ Su(n) /\ guasti < MaxCadute /\ guasti' = guasti + 1
  /\ dove' = [dove EXCEPT ![n] = Spento]
  /\ peers' = [peers EXCEPT ![n] = [m \in Nodo |-> Assente]]
  /\ battito' = [battito EXCEPT ![n] = Fermo]
  /\ UNCHANGED <<registro, veri, vuoti>>

RegistroVuoto ==
  /\ vuoti < MaxVuoti /\ vuoti' = vuoti + 1
  /\ registro' = [n \in Nodo |-> Assente]
  /\ UNCHANGED <<dove, peers, battito, veri, guasti>>

\* the clock, as far as records tell ages apart
Invecchia(t, tetto) ==
  [m \in Nodo |-> IF t[m] = Assente \/ t[m].eta > tetto THEN t[m]
                  ELSE [t[m] EXCEPT !.eta = @ + 1]]
Tempo ==
  /\ Puntuale => \A n \in Nodo : Su(n) => battito[n].fatto
  /\ battito' = [n \in Nodo |-> [battito[n] EXCEPT !.fatto = FALSE]]
  /\ peers' = [n \in Nodo |-> Invecchia(peers[n], EtaMassima)]
  /\ registro' = Invecchia(registro, Ttl)
  /\ UNCHANGED <<dove, veri, guasti, vuoti>>

-----------------------------------------------------------------------------
(* The heartbeat thread of a node. *)

\* Mutant of Vuota: any peer it ever knew will do.
VuotaSempre(t) == \A m \in Nodo : t[m] = Assente

Vuota(t) == \A m \in Nodo : t[m].stato # "active"

Batte(n) ==
  LET t == Sfoltiti(peers[n]) IN
  /\ Su(n) /\ battito[n].fase = "fermo" /\ n \in Assidui
  /\ peers' = [peers EXCEPT ![n] = t]
  /\ battito' = [battito EXCEPT ![n] =
       [@ EXCEPT !.fase = "annuncia", !.solo = Vuota(t),
                 !.resta = {t[m].ep : m \in {x \in Nodo : t[x].stato = "active"}}]]
  /\ UNCHANGED <<dove, registro, veri, guasti, vuoti>>

\* Mutant of Elenco: the peers are told with the address of the one that tells.
ElencoDiChiParla(t, e) == {<<m, e>> : m \in {x \in Nodo : t[x].stato = "active"}}

\* the peers in the answer to /announce
Elenco(t, e) == {<<m, t[m].ep>> : m \in {x \in Nodo : t[x].stato = "active"}}

\* announce_to_peer: who listens there, if anyone, notes the caller and answers
Annuncia(n, e) ==
  LET b == battito[n] IN
  /\ b.fase \in {"annuncia", "scopre"} /\ b.da = {} /\ e \in b.resta
  /\ \/ /\ \A m \in Nodo : dove[m] # e
        /\ battito' = [battito EXCEPT ![n].resta = @ \ {e}] /\ UNCHANGED peers
     \/ \E m \in Nodo, persa \in BOOLEAN :
          LET t == Sfoltiti(Notati(peers[m], m, {<<n, dove[n]>>})) IN
          /\ dove[m] = e /\ peers' = [peers EXCEPT ![m] = t]
          /\ battito' = [battito EXCEPT ![n] =
               [b EXCEPT !.resta = @ \ {e}, !.da = IF persa THEN {} ELSE {<<m, e>>},
                         !.elenco = IF persa THEN {} ELSE Elenco(t, e)]]
  /\ UNCHANGED <<dove, registro, veri, guasti, vuoti>>

\* its answer: first the peers of the peer, then the peer itself
Risposta(n) ==
  LET b == battito[n] IN
  /\ b.da # {}
  /\ peers' = [peers EXCEPT ![n] = Notati(Notati(@, n, b.elenco), n, b.da)]
  /\ battito' = [battito EXCEPT ![n] = [b EXCEPT !.da = {}, !.elenco = {}]]
  /\ UNCHANGED <<dove, registro, veri, guasti, vuoti>>

\* register_to_registry, after the announcements
Registra(n) ==
  LET b == battito[n] IN
  /\ b.fase = "annuncia" /\ b.resta = {} /\ b.da = {}
  /\ registro' = [registro EXCEPT ![n] = [ep |-> dove[n], eta |-> 0, stato |-> "active"]]
  /\ battito' = [battito EXCEPT ![n] = IF b.solo THEN [b EXCEPT !.fase = "cerca"] ELSE Finito]
  /\ UNCHANGED <<dove, peers, veri, guasti, vuoti>>

\* _active_nodes of the registry: the records past their time are forgotten first
Elencati == {m \in Nodo : registro[m] # Assente /\ registro[m].eta <= Ttl}

\* _discover_peers_from_registry asks /nodes/active
Cerca(n) ==
  /\ battito[n].fase = "cerca"
  /\ registro' = [m \in Nodo |-> IF m \in Elencati THEN registro[m] ELSE Assente]
  /\ battito' = [battito EXCEPT ![n] = [@ EXCEPT !.fase = "scopre",
                                                 !.resta = {registro[m].ep : m \in Elencati \ {n}}]]
  /\ UNCHANGED <<dove, peers, veri, guasti, vuoti>>

FineGiro(n) ==
  LET b == battito[n] IN
  /\ b.fase = "scopre" /\ b.resta = {} /\ b.da = {}
  /\ battito' = [battito EXCEPT ![n] = Finito]
  /\ UNCHANGED <<dove, peers, registro, veri, guasti, vuoti>>

Passo(n) ==
  \/ Batte(n) \/ Risposta(n) \/ Registra(n) \/ Cerca(n) \/ FineGiro(n)
  \/ \E e \in Indirizzo : Annuncia(n, e)

Next ==
  \/ Tempo \/ RegistroVuoto
  \/ \E n \in Nodo : Passo(n) \/ Cade(n) \/ \E e \in Posti[n] : Avvia(n, e)

Spec == Init /\ [][Next]_vars

\* each heartbeat thread goes on (15 s against 120 and 300 of the two ages: Puntuale), and
\* time passes
Equo ==
  /\ WF_vars(Tempo)
  /\ \A n \in Nodo : WF_vars(Passo(n))

-----------------------------------------------------------------------------
TypeOK ==
  LET Record == [ep : Indirizzo \cup {Spento}, eta : 0..(EtaMassima + Ttl + 1),
                 stato : {"assente", "active", "stale"}]
  IN
  /\ dove \in [Nodo -> Indirizzo \cup {Spento}]
  /\ peers \in [Nodo -> [Nodo -> Record]] /\ registro \in [Nodo -> Record]
  /\ \A n \in Nodo : battito[n].resta \subseteq Indirizzo
                     /\ battito[n].elenco \subseteq Nodo \X Indirizzo

\* Whatever falls, moves or is lost, nobody holds for a node an address that was never its
\* own, however many hands the news has passed through (node/main.py, announce and
\* announce_to_peer; registry.py).
IndirizziVeri ==
  \A m \in Nodo :
    /\ registro[m] = Assente \/ <<m, registro[m].ep>> \in veri
    /\ \A n \in Nodo : /\ peers[n][m] = Assente \/ <<m, peers[n][m].ep>> \in veri
                       /\ battito[n].elenco \cup battito[n].da \subseteq veri

\* Two nodes that stay up, with a registry that remembers, find each other again and again,
\* even when one has come back at another address (.env.example).
SiTrovano ==
  \A n, m \in Nodo : n # m =>
    (<>[](Su(n) /\ Su(m)) => []<>(m \in Attivi(n) /\ peers[n][m].ep = dove[m]))

\* A node that stays down is stale in the end for the one that is left (prune_stale_peers).
SparitoSegnato ==
  \A n, m \in Nodo : n # m => (<>[](Su(n) /\ ~Su(m)) => <>[](m \notin Attivi(n)))

\* with a third one, which passes the news on, it need not be
FantasmaScordato == \A m \in Nodo : <>[](~Su(m)) => <>[](\A n \in Nodo : m \notin Attivi(n))
=============================================================================
