---------------------------- MODULE MeshRegistry ----------------------------
(***************************************************************************)
(* Who is in the mesh: the registry of cp/mesh.py, the heartbeat thread    *)
(* that polls it (cp/battito.py), the nodes and the browsers that announce *)
(* themselves (cp/mesh.py, cp/webnode.py) and the operator who removes     *)
(* dead ones (control-plane, src/).                                        *)
(*                                                                         *)
(* Nothing is locked: an action is one access of a thread to the registry  *)
(* or to the known addresses, or one HTTP call, and those of the others    *)
(* come in between.  Nodes and network are external: any node, a page or   *)
(* nothing may answer at an address.  The table of nodes is read only when *)
(* the control plane starts: Init allows it any content, and a restart is  *)
(* the beginning of another behaviour.                                     *)
(***************************************************************************)
EXTENDS Naturals

CONSTANTS
  Nodo,          \* remote nodes
  Endpoint,      \* addresses
  Sicuri,        \* those that begin with https://
  Fissi,         \* NODE_ENDPOINTS: the addresses of the configuration
  Sede,          \* [Nodo -> the addresses it may have]
  Scheda,        \* [nodes of a browser -> "http://browser://<id>"]
  Annuncio,      \* threads of the server that handle an announcement
  Operatore,     \* threads of the server that handle a removal
  Guasti         \* may the database fail, may a dictionary change while it is read?

VARIABLES
  nodi,      \* _nodes_by_id
  noti,      \* _known_endpoints
  battito,   \* [fase, resto, ep, esito, fresco, spenti, nodo]: the heartbeat thread
  annunci,   \* [Annuncio -> [fase, n, ep, fresco]]
  elimina,   \* [Operatore -> [fase, n, ep]]
  corsa      \* history: the nodes written while, or after, their address was discarded

vars == <<nodi, noti, battito, annunci, elimina, corsa>>

Muto == "muto"        \* nobody answers
Pagina == "pagina"    \* something answers, but not with JSON: a "zombie"
Nulla == "nulla"
Browser == "browser"  \* browser://<id>, which _normalize_endpoint makes Scheda

MeshRegistryAssumption ==
  /\ {Nulla, Browser} \intersect Endpoint = {} /\ {Nulla, Muto, Pagina} \intersect Nodo = {}
  /\ Sede \in [Nodo -> SUBSET Endpoint] /\ Sicuri \subseteq Endpoint /\ Fissi \subseteq Endpoint
  /\ DOMAIN Scheda \subseteq Nodo /\ \A n \in DOMAIN Scheda : Scheda[n] \in Endpoint \ Sicuri

Assente == [stato |-> "assente", ep |-> Nulla]
Voce(s, e) == [stato |-> s, ep |-> e]
Voci == {Assente} \union [stato : {"active", "unreachable"}, ep : Endpoint \union {Browser}]

C(n) == nodi[n].stato # "assente"

\* what a node may announce
Sedi(n) == Sede[n] \union IF n \in DOMAIN Scheda THEN {Browser} ELSE {}

\* _normalize_endpoint of what an entry holds, and who is at an address for it
Norm(n, e) == IF e = Browser THEN Scheda[n] ELSE e
A(e) == {n \in Nodo : C(n) /\ Norm(n, nodi[n].ep) = e}

\* an https address is given up for that of a browser, not for a plain one
Resta(n, e) == C(n) /\ nodi[n].ep \in Sicuri /\ e \notin Sicuri \union {Browser}

Fermo == [fase |-> "dorme", resto |-> {}, ep |-> Nulla, esito |-> Muto, fresco |-> FALSE,
          spenti |-> {}, nodo |-> Nulla]
Morto == [Fermo EXCEPT !.fase = "morto"]
Libero == [fase |-> "libero", n |-> Nulla, ep |-> Nulla, fresco |-> FALSE]
Nessuna == [fase |-> "no", n |-> Nulla, ep |-> Nulla]

\* _load_nodes_from_db: whatever the table holds; the state in it is kept
Init ==
  /\ \E righe \in [Nodo -> Voci] :
       /\ \A n \in Nodo : righe[n].ep \in Sedi(n) \union {Nulla}
       /\ nodi = [n \in Nodo |-> Voce(righe[n].stato, Norm(n, righe[n].ep))]
  /\ noti = Fissi \union {nodi[n].ep : n \in {m \in Nodo : C(m)}}
  /\ battito = Fermo
  /\ annunci = [a \in Annuncio |-> Libero]
  /\ elimina = [o \in Operatore |-> Nessuna] /\ corsa = {}

\* The entry of n is another now: who had read or written the old one is overtaken.
Vecchi(n) == [a \in Annuncio |-> [annunci[a] EXCEPT !.fresco = @ /\ annunci[a].n # n]]
BattitoVecchio(n) == battito' = [battito EXCEPT !.fresco = @ /\ battito.esito # n]

\* a removal has found the address unused and is about to discard it
DaScartare(e) == \E o \in Operatore : elimina[o].fase = "sola" /\ elimina[o].ep = e
Corre(n, e, noto) ==
  corsa' = IF DaScartare(e) \/ ~noto THEN corsa \union {n} ELSE corsa \ {n}

-----------------------------------------------------------------------------
(* mesh_announce, and web_register for a browser. *)

\* Mutant of Annuncia: an address is replaced by the last one announced.
AnnunciaComunque(a, n, e) ==
  /\ annunci[a].fase = "libero"
  /\ annunci' = [annunci EXCEPT ![a] =
       [fase |-> "sostituisce", n |-> n, ep |-> e, fresco |-> TRUE]]
  /\ UNCHANGED <<nodi, noti, battito, elimina, corsa>>

\* the entry is read: a new one replaces it, or it is refreshed at the address it has
Annuncia(a, n, e) ==
  LET rinfresca == C(n) /\ (Norm(n, nodi[n].ep) = e \/ Resta(n, e)) IN
  /\ annunci[a].fase = "libero" /\ e \in Sedi(n)
  /\ annunci' = [annunci EXCEPT ![a] =
       IF rinfresca THEN [fase |-> "rinfresca", n |-> n, ep |-> nodi[n].ep, fresco |-> TRUE]
       ELSE [fase |-> "sostituisce", n |-> n, ep |-> e, fresco |-> TRUE]]
  /\ UNCHANGED <<nodi, noti, battito, elimina, corsa>>

\* the new entry, or the one that was read, goes into the registry
Iscrive(a) ==
  LET r == annunci[a]  nuova == r.fase = "sostituisce" IN
  /\ r.fase \in {"sostituisce", "rinfresca"}
  /\ nodi' = [nodi EXCEPT ![r.n] = Voce("active", r.ep)]
  /\ IF ~nuova /\ r.fresco
     THEN annunci' = [annunci EXCEPT ![a] = Libero] /\ UNCHANGED battito
     ELSE /\ annunci' = [Vecchi(r.n) EXCEPT
               ![a] = IF nuova THEN [r EXCEPT !.fase = "scritto", !.fresco = TRUE] ELSE Libero]
          /\ BattitoVecchio(r.n)
  /\ Corre(r.n, r.ep, nuova \/ r.ep \in noti)
  /\ UNCHANGED <<noti, elimina>>

\* (the heartbeat asks a browser:// address too, and finds nobody that has it)
RendeNoto(a) ==
  LET r == annunci[a] IN
  /\ r.fase = "scritto"
  /\ noti' = noti \union ({r.ep} \ {Browser})
  /\ corsa' = (IF r.fresco /\ ~DaScartare(r.ep) THEN corsa \ {r.n} ELSE corsa)
  /\ annunci' = [annunci EXCEPT ![a] = Libero]
  /\ UNCHANGED <<nodi, battito, elimina>>

Gestisce(a) == Iscrive(a) \/ RendeNoto(a)

-----------------------------------------------------------------------------
(* heartbeat_loop and _poll_mesh_nodes. *)

Giro ==
  /\ battito.fase = "dorme"
  /\ battito' = [battito EXCEPT !.fase = "sonda", !.resto = noti]
  /\ UNCHANGED <<nodi, noti, annunci, elimina, corsa>>

Prosegue == battito' = [Fermo EXCEPT !.fase = "sonda", !.resto = battito.resto \ {battito.ep}]

\* A copy of the entries at e is gone through: they are the nodes that do not answer.
Raccoglie(e, chi) ==
  [Fermo EXCEPT !.fase = IF A(e) = {} THEN "sonda" ELSE "marca", !.resto = battito.resto \ {e},
                !.ep = IF A(e) = {} THEN Nulla ELSE e, !.esito = IF A(e) = {} THEN Muto ELSE chi,
                !.spenti = A(e)]

\* the GET of /status: a node answers, its entry is read, and stays if its address is better
SondaViva(e, n) ==
  /\ battito.fase = "sonda" /\ e \in battito.resto \intersect Sede[n]
  /\ battito' = (IF Resta(n, e)
                 THEN [Fermo EXCEPT !.fase = "peer", !.resto = battito.resto \ {e}]
                 ELSE [Fermo EXCEPT !.fase = "scrive", !.resto = battito.resto \ {e},
                                    !.ep = e, !.esito = n, !.fresco = TRUE])
  /\ UNCHANGED <<nodi, noti, annunci, elimina, corsa>>

\* Mutant of SondaMuta: a node that does not answer is only logged.
SondaMutaSenzaSegno(e, chi) ==
  /\ battito.fase = "sonda" /\ e \in battito.resto
  /\ battito' = [battito EXCEPT !.resto = @ \ {e}]
  /\ UNCHANGED <<nodi, noti, annunci, elimina, corsa>>

\* ... or no node does
SondaMuta(e, chi) ==
  /\ battito.fase = "sonda" /\ e \in battito.resto
  /\ battito' = Raccoglie(e, chi)
  /\ UNCHANGED <<nodi, noti, annunci, elimina, corsa>>

ScriveVoce ==
  LET n == battito.esito  e == battito.ep IN
  /\ battito.fase = "scrive"
  /\ nodi' = [nodi EXCEPT ![n] = Voce("active", e)]
  /\ annunci' = Vecchi(n)
  /\ Corre(n, e, e \in noti)
  /\ battito' = [Fermo EXCEPT !.fase = "riga", !.resto = battito.resto, !.ep = e]
  /\ UNCHANGED <<noti, elimina>>

\* the row: the handler of the poll takes a database that fails for a node that is silent
SalvaVoceFallita ==
  /\ Guasti /\ battito.fase = "riga"
  /\ battito' = Raccoglie(battito.ep, Muto)
  /\ UNCHANGED <<nodi, noti, annunci, elimina, corsa>>

\* ... or it is written, and the node is asked for its peers
ChiedePeer(altri) ==
  /\ battito.fase \in {"riga", "peer"}
  /\ noti' = noti \union altri
  /\ Prosegue
  /\ UNCHANGED <<nodi, annunci, elimina, corsa>>

\* An error while the nodes are marked: after a page the handler of the poll marks them
\* again, after a silence nothing handles it and the thread ends.
Inciampa == battito' = IF battito.esito = Pagina THEN Raccoglie(battito.ep, Muto) ELSE Morto

\* the entry that has the name now; a KeyError when it has been removed
Marca(n) ==
  /\ battito.fase = "marca" /\ n \in battito.spenti
  /\ IF C(n)
     THEN /\ nodi' = [nodi EXCEPT ![n].stato = "unreachable"]
          /\ battito' = [battito EXCEPT !.fase = "segna", !.nodo = n, !.spenti = @ \ {n}]
     ELSE Inciampa /\ UNCHANGED nodi
  /\ UNCHANGED <<noti, annunci, elimina, corsa>>

\* the row is written, from the entry that has the name by then
SalvaSpento ==
  /\ battito.fase = "segna"
  /\ IF ~C(battito.nodo) THEN Inciampa
     ELSE IF battito.spenti = {} THEN Prosegue
     ELSE battito' = [battito EXCEPT !.fase = "marca", !.nodo = Nulla]
  /\ UNCHANGED <<nodi, noti, annunci, elimina, corsa>>

SalvaSpentoFallito ==
  /\ Guasti /\ battito.fase = "segna"
  /\ Inciampa
  /\ UNCHANGED <<nodi, noti, annunci, elimina, corsa>>

\* the tier, the pings and fifteen seconds of sleep
FineSonda ==
  /\ battito.fase = "sonda" /\ battito.resto = {}
  /\ battito' = Fermo
  /\ UNCHANGED <<nodi, noti, annunci, elimina, corsa>>

\* _node_list copies the dictionary entry by entry: one that is added or removed meanwhile
\* ends the thread
DizionarioCambia ==
  /\ Guasti /\ battito.fase = "sonda" /\ battito.resto = {}
  /\ \/ \E a \in Annuncio :
          annunci[a].fase \in {"sostituisce", "rinfresca"} /\ ~C(annunci[a].n)
     \/ \E o \in Operatore : elimina[o].fase = "letta" /\ C(elimina[o].n)
  /\ battito' = Morto
  /\ UNCHANGED <<nodi, noti, annunci, elimina, corsa>>

Battito ==
  \/ Giro \/ ScriveVoce \/ SalvaVoceFallita
  \/ SalvaSpento \/ SalvaSpentoFallito \/ FineSonda \/ DizionarioCambia
  \/ \E e \in Endpoint : \/ \E n \in Nodo : SondaViva(e, n)
                         \/ \E chi \in {Muto, Pagina} : SondaMuta(e, chi)
  \/ \E altri \in SUBSET Endpoint : ChiedePeer(altri)
  \/ \E n \in Nodo : Marca(n)

-----------------------------------------------------------------------------
(* delete_mesh_node, and the configuration. *)

Elimina(o, n) ==
  /\ elimina[o].fase = "no" /\ C(n) /\ nodi[n].stato # "active"
  /\ elimina' = [elimina EXCEPT ![o] = [fase |-> "letta", n |-> n, ep |-> Norm(n, nodi[n].ep)]]
  /\ UNCHANGED <<nodi, noti, battito, annunci, corsa>>

Toglie(o) ==
  LET n == elimina[o].n IN
  /\ elimina[o].fase = "letta"
  /\ nodi' = [nodi EXCEPT ![n] = Assente]
  /\ annunci' = Vecchi(n) /\ BattitoVecchio(n)
  /\ corsa' = corsa \ {n}
  /\ elimina' = [elimina EXCEPT ![o].fase = "tolta"]
  /\ UNCHANGED noti

\* Mutant of Prova: the address goes even when another node has it.
ProvaSenzaAltri(o) ==
  /\ elimina[o].fase = "tolta"
  /\ elimina' = [elimina EXCEPT ![o].fase = "sola"]
  /\ UNCHANGED <<nodi, noti, battito, annunci, corsa>>

\* is anybody else at that address?
Prova(o) ==
  /\ elimina[o].fase = "tolta"
  /\ elimina' = [elimina EXCEPT ![o] =
       IF A(elimina[o].ep) = {} THEN [@ EXCEPT !.fase = "sola"] ELSE Nessuna]
  /\ UNCHANGED <<nodi, noti, battito, annunci, corsa>>

\* the dictionary has changed while any() went through it
ProvaFallita(o) ==
  /\ Guasti /\ elimina[o].fase = "tolta"
  /\ elimina' = [elimina EXCEPT ![o] = Nessuna]
  /\ UNCHANGED <<nodi, noti, battito, annunci, corsa>>

Scarta(o) ==
  /\ elimina[o].fase = "sola"
  /\ noti' = noti \ {elimina[o].ep}
  /\ elimina' = [elimina EXCEPT ![o] = Nessuna]
  /\ UNCHANGED <<nodi, battito, annunci, corsa>>

\* the configuration is changed while the control plane runs
Configura(e) ==
  /\ noti' = noti \union {e}
  /\ UNCHANGED <<nodi, battito, annunci, elimina, corsa>>

Next ==
  \/ Battito \/ \E e \in Endpoint : Configura(e)
  \/ \E a \in Annuncio : Gestisce(a)
  \/ \E a \in Annuncio, n \in Nodo, e \in Endpoint \union {Browser} : Annuncia(a, n, e)
  \/ \E o \in Operatore : \/ Toglie(o) \/ Prova(o) \/ ProvaFallita(o) \/ Scarta(o)
                          \/ \E n \in Nodo : Elimina(o, n)

Spec == Init /\ [][Next]_vars

\* The heartbeat thread and the threads of the server go on.
FairSpec == Spec /\ WF_vars(Battito) /\ \A a \in Annuncio : WF_vars(Gestisce(a))

-----------------------------------------------------------------------------
(* Properties. *)

TypeOK ==
  /\ nodi \in [Nodo -> Voci]
  /\ noti \subseteq Endpoint /\ corsa \subseteq Nodo
  /\ battito \in [fase : {"dorme", "sonda", "scrive", "riga", "peer", "marca", "segna", "morto"},
                  resto : SUBSET Endpoint, ep : Endpoint \union {Nulla},
                  esito : Nodo \union {Muto, Pagina}, fresco : BOOLEAN,
                  spenti : SUBSET Nodo, nodo : Nodo \union {Nulla}]
  /\ annunci \in [Annuncio -> [fase : {"libero", "sostituisce", "rinfresca", "scritto"},
                               n : Nodo \union {Nulla}, ep : Endpoint \union {Nulla, Browser},
                               fresco : BOOLEAN]]
  /\ elimina \in [Operatore -> [fase : {"no", "letta", "tolta", "sola"},
                                n : Nodo \union {Nulla}, ep : Endpoint \union {Nulla}]]

\* The heartbeat polls the address of every node of the registry: one that it does not
\* poll would stay active for good after its death.  The exceptions are an announcement
\* about to make the address known, and a node written between the test of a removal and
\* the discarding of its address, or after it by who knew the address from before
\* (nobody makes it known again).  Addresses of browsers are polled by nobody.
NodoSondato ==
  \A n \in Nodo :
    C(n) /\ nodi[n].ep # Browser =>
      \/ nodi[n].ep \in noti \/ n \in corsa
      \/ \E a \in Annuncio :
           annunci[a].fase = "scritto" /\ annunci[a].n = n /\ annunci[a].ep = nodi[n].ep

\* The heartbeat thread has not ended on an error.
BattitoVivo == battito.fase # "morto"

\* the thread that writes the entry of n has been overtaken: another has replaced or
\* removed the entry it had read
Sorpassato(n) ==
  \/ battito.fase = "scrive" /\ battito.esito = n /\ ~battito.fresco
  \/ \E a \in Annuncio : /\ annunci[a].fase \in {"sostituisce", "rinfresca"}
                         /\ annunci[a].n = n /\ ~annunci[a].fresco
                         /\ annunci'[a].fase # annunci[a].fase

\* An https address is given up for a plain one only when the node is removed, for a node
\* that moves into a browser, or by a thread that had read the entry before another one
\* replaced it; whoever announces what.
PassoSicuro ==
  \A n \in Nodo :
    nodi[n].ep \in Sicuri /\ nodi'[n] # Assente
      => nodi'[n].ep \in Sicuri \union {Browser} \/ Sorpassato(n)
NonDeclassato == [][PassoSicuro]_vars

\* A node that announces an https address again and again is active there again and
\* again, whatever the registry held before, even after removals.
NodoVivoUsabile ==
  \A n \in Nodo, e \in Sicuri :
    []<><<\E a \in Annuncio : Annuncia(a, n, e)>>_vars => []<>(nodi[n] = Voce("active", e))

\* A node is not taken for active for good at an address that no longer answers, while the
\* heartbeat lives and no removal has discarded the address under the node.
SpentoSegnato ==
  []BattitoVivo =>
    \A n \in Nodo, e \in Endpoint :
      <>[][\A chi \in Nodo : ~SondaViva(e, chi)]_vars /\ <>[](n \notin corsa)
        => []<>(nodi[n] # Voce("active", e))
=============================================================================
