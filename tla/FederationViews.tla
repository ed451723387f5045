--------------------------- MODULE FederationViews ---------------------------
(***************************************************************************)
(* The views of the federated control planes, for the dashboard of one of  *)
(* them (/federation/views of control-plane/cp/federazione.py).            *)
(*                                                                         *)
(* A thread takes the time, photographs its own mesh, asks every enabled   *)
(* peer in turn, six seconds each at most, and then puts the whole in      *)
(* _VIEW_CACHE, that other threads read meanwhile and Setup empties.       *)
(***************************************************************************)
EXTENDS Naturals, FiniteSets

CONSTANTS
  Peer,      \* the paired control planes
  Etichetta, \* [Peer \cup {"locale"} -> label]: two of them may be the same
  Nodo,      \* nodes of the meshes
  Vede,      \* [Peer \cup {"locale"} -> SUBSET Nodo]
  Lettore,   \* threads of the server
  Ttl        \* FEDERATION_VIEW_TTL_S

VARIABLES
  accesi,    \* the peers that are enabled
  cache,     \* _VIEW_CACHE: [piena, eta, fonti]
  lettura,   \* [Lettore -> [fase, eta, resto, fonti]]
  servita,   \* the last answer: [cached, eta, fonti], eta the time since its reading began
  adesso     \* how old "ts" is said to be, for the entry in the cache

vars == <<accesi, cache, lettura, servita, adesso>>

Fonte == Peer \cup {"locale"}
Vuota == [piena |-> FALSE, eta |-> 0, fonti |-> {}]
Fermo == [fase |-> "fermo", eta |-> 0, resto |-> {}, fonti |-> {}]
Fresca == cache.piena /\ adesso < Ttl

\* _merge_views: a node belongs to whoever sees it, by label
VistoDa(fonti, n) == {Etichetta[f] : f \in {x \in fonti : n \in Vede[x]}}

\* Mutant of Parziali: the sources are those that were asked, answered or not.
ParzialiDiTutte(fonti) ==
  {n \in UNION {Vede[f] : f \in fonti} : Cardinality(VistoDa(fonti, n)) < Cardinality(Fonte)}

\* the nodes counted in nodes_partial
Parziali(fonti) ==
  {n \in UNION {Vede[f] : f \in fonti} : Cardinality(VistoDa(fonti, n)) < Cardinality(fonti)}

Init ==
  /\ accesi \in SUBSET Peer
  /\ cache = Vuota /\ adesso = Ttl
  /\ lettura = [l \in Lettore |-> Fermo]
  /\ servita = [cached |-> FALSE, eta |-> 0, fonti |-> {}]

-----------------------------------------------------------------------------
\* a request while the cache is fresh
DallaCache ==
  /\ Fresca
  /\ servita' = [cached |-> TRUE, eta |-> cache.eta, fonti |-> cache.fonti]
  /\ UNCHANGED <<accesi, cache, lettura, adesso>>

\* the cache is empty or old, or ?refresh=1: the time is taken here, the peers are read
\* and this control plane is photographed
Inizia(l) ==
  /\ lettura[l].fase = "fermo"
  /\ lettura' = [lettura EXCEPT ![l] = [fase |-> "chiede", eta |-> 0, resto |-> accesi,
                                        fonti |-> {"locale"}]]
  /\ UNCHANGED <<accesi, cache, servita, adesso>>

\* _fetch_peer_view: the peer gives its view, or refuses, or is not reached
Chiede(l, p) ==
  /\ lettura[l].fase = "chiede" /\ p \in lettura[l].resto
  /\ \E ok \in BOOLEAN :
       lettura' = [lettura EXCEPT ![l].resto = @ \ {p},
                                  ![l].fonti = IF ok THEN @ \cup {p} ELSE @]
  /\ UNCHANGED <<accesi, cache, servita, adesso>>

\* Mutant of Pubblica: the age of the entry counts from its end.
PubblicaConOraDellaFine(l) ==
  /\ lettura[l].fase = "chiede" /\ lettura[l].resto = {}
  /\ cache' = [piena |-> TRUE, eta |-> lettura[l].eta, fonti |-> lettura[l].fonti]
  /\ adesso' = 0
  /\ servita' = [cached |-> FALSE, eta |-> lettura[l].eta, fonti |-> lettura[l].fonti]
  /\ lettura' = [lettura EXCEPT ![l] = Fermo]
  /\ UNCHANGED accesi

\* the whole replaces what the cache holds, whoever put it there and since when
Pubblica(l) ==
  /\ lettura[l].fase = "chiede" /\ lettura[l].resto = {}
  /\ cache' = [piena |-> TRUE, eta |-> lettura[l].eta, fonti |-> lettura[l].fonti]
  /\ adesso' = lettura[l].eta
  /\ servita' = [cached |-> FALSE, eta |-> lettura[l].eta, fonti |-> lettura[l].fonti]
  /\ lettura' = [lettura EXCEPT ![l] = Fermo]
  /\ UNCHANGED accesi

\* invalida_vista: a reading that is under way will fill the cache again
Invalida ==
  /\ cache.piena /\ cache' = [cache EXCEPT !.piena = FALSE]
  /\ UNCHANGED <<accesi, lettura, servita, adesso>>

\* toggle_federated_peer, add_federated_peer and remove_federated_peer leave the cache alone
Cambia(p) ==
  /\ accesi' = IF p \in accesi THEN accesi \ {p} ELSE accesi \cup {p}
  /\ UNCHANGED <<cache, lettura, servita, adesso>>

\* time: ages beyond the deadline are all the same
Vecchia(e) == IF e < Ttl + 1 THEN e + 1 ELSE e
Passa ==
  /\ cache' = [cache EXCEPT !.eta = Vecchia(@)]
  /\ adesso' = Vecchia(adesso)
  /\ lettura' = [l \in Lettore |-> IF lettura[l].fase = "fermo" THEN Fermo
                                   ELSE [lettura[l] EXCEPT !.eta = Vecchia(@)]]
  /\ UNCHANGED <<accesi, servita>>

Next ==
  \/ DallaCache \/ Invalida \/ Passa
  \/ \E p \in Peer : Cambia(p)
  \/ \E l \in Lettore : Inizia(l) \/ Pubblica(l) \/ \E p \in Peer : Chiede(l, p)

Spec == Init /\ [][Next]_vars

-----------------------------------------------------------------------------
TypeOK ==
  /\ accesi \subseteq Peer /\ adesso \in 0..(Ttl + 1)
  /\ cache \in [piena : BOOLEAN, eta : 0..(Ttl + 1), fonti : SUBSET Fonte]
  /\ lettura \in [Lettore -> [fase : {"fermo", "chiede"}, eta : 0..(Ttl + 1),
                              resto : SUBSET Peer, fonti : SUBSET Fonte]]
  /\ servita \in [cached : BOOLEAN, eta : 0..(Ttl + 1), fonti : SUBSET Fonte]

\* What the cache answers was photographed less than FEDERATION_VIEW_TTL_S ago, however
\* long the peers took to answer and whichever thread stored it.
VistaRecente == servita.cached => servita.eta < Ttl

\* As long as the labels of the sources differ, a node is counted as partial exactly when
\* some control plane that answered does not see it ("la divergenza da guardare").
ParzialiVeri ==
  LET f == servita.fonti IN
  (\A x, y \in f : Etichetta[x] = Etichetta[y] => x = y)
    => Parziali(f) = {n \in UNION {Vede[x] : x \in f} : \E x \in f : n \notin Vede[x]}

\* the same without that condition: what the comment of _merge_views promises
ParzialiSempreVeri ==
  LET f == servita.fonti IN
  Parziali(f) = {n \in UNION {Vede[x] : x \in f} : \E x \in f : n \notin Vede[x]}
=============================================================================
