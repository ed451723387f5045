----------------------------- MODULE NodeAliases -----------------------------
(***************************************************************************)
(* The readable names of the nodes, "modello::alias" (control-plane,       *)
(* src/): the routes that set and remove them (cp/mesh.py), their table    *)
(* (shared/db.py) and the list of models that publishes them, cached for   *)
(* fifteen seconds (_aggregate_mesh_models of main.py).                    *)
(*                                                                         *)
(* A route looks for the owner of a name, writes the table, reads it whole *)
(* and replaces the dictionary in memory: other requests run between any   *)
(* two of these, and the list is built one HTTP call at a time.            *)
(***************************************************************************)
EXTENDS Naturals

CONSTANTS
  Nodo,        \* nodes that serve one model
  Alias,       \* names an operator may give
  Richiesta    \* threads of the server that change names

VARIABLES
  tabella,     \* node_aliases: the name of each node, or Nessuno
  mappa,       \* _node_aliases, the same in memory
  richiesta,   \* [Richiesta -> [fase, nodo, alias, letta, sola]]
  elenco,      \* _MODELS_CACHE: [voci, pieno, fresco]
  giro         \* [fase, resto, voci]: the thread that builds the list

vars == <<tabella, mappa, richiesta, elenco, giro>>

Nessuno == "nessuno"

NodeAliasesAssumption == Nodo # {} /\ Nessuno \notin Alias
Senza == [n \in Nodo |-> Nessuno]
Libera == [fase |-> "libera", nodo |-> CHOOSE n \in Nodo : TRUE, alias |-> Nessuno,
           letta |-> Senza, sola |-> TRUE]
Vuoto == [voci |-> {}, pieno |-> FALSE, fresco |-> FALSE]
Pigro == [fase |-> "fermo", resto |-> {}, voci |-> {}]

\* get_node_id_by_alias
Proprietari(a) == {n \in Nodo : tabella[n] = a}

\* Mutant of Rif: a node without a name has nothing in its place.
RifSenzaRipiego(nomi, n) == <<nomi[n], "alias">>

\* _node_ref_for: the name, or else the beginning of the node's own identifier
Rif(nomi, n) == IF nomi[n] = Nessuno THEN <<n, "id">> ELSE <<nomi[n], "alias">>

Init ==
  /\ tabella = Senza /\ mappa = Senza
  /\ richiesta = [r \in Richiesta |-> Libera]
  /\ elenco = Vuoto /\ giro = Pigro

Parte(r, fase, n, a) ==
  LET altre == {q \in Richiesta \ {r} : richiesta[q].fase # "libera"} IN
  richiesta' = [q \in Richiesta |->
    IF q = r THEN [fase |-> fase, nodo |-> n, alias |-> a, letta |-> Senza, sola |-> altre = {}]
    ELSE [richiesta[q] EXCEPT !.sola = @ /\ q \notin altre]]

-----------------------------------------------------------------------------
(* set_node_alias_route and remove_node_alias_route. *)

\* the name is asked for, and its owner looked for
Chiede(r, n, a) ==
  /\ richiesta[r].fase = "libera" /\ Proprietari(a) \subseteq {n}
  /\ Parte(r, "verificata", n, a)
  /\ UNCHANGED <<tabella, mappa, elenco, giro>>

\* Mutant of Scrive: only the route looks whether a name is taken.
ScriveSenzaUnique(r) ==
  /\ richiesta[r].fase = "verificata"
  /\ tabella' = [tabella EXCEPT ![richiesta[r].nodo] = richiesta[r].alias]
  /\ richiesta' = [richiesta EXCEPT ![r].fase = "scritta"]
  /\ UNCHANGED <<mappa, elenco, giro>>

\* UNIQUE(alias): the table refuses a name another node has taken since
Scrive(r) ==
  LET n == richiesta[r].nodo  a == richiesta[r].alias IN
  /\ richiesta[r].fase = "verificata"
  /\ IF Proprietari(a) \subseteq {n}
     THEN /\ tabella' = [tabella EXCEPT ![n] = a]
          /\ richiesta' = [richiesta EXCEPT ![r].fase = "scritta"]
     ELSE /\ richiesta' = [richiesta EXCEPT ![r] = Libera]
          /\ UNCHANGED tabella
  /\ UNCHANGED <<mappa, elenco, giro>>

Rimuove(r, n) ==
  /\ richiesta[r].fase = "libera" /\ tabella[n] # Nessuno
  /\ tabella' = [tabella EXCEPT ![n] = Nessuno]
  /\ Parte(r, "scritta", n, Nessuno)
  /\ UNCHANGED <<mappa, elenco, giro>>

\* _load_aliases_from_db: the read ...
Legge(r) ==
  /\ richiesta[r].fase = "scritta"
  /\ richiesta' = [richiesta EXCEPT ![r] = [richiesta[r] EXCEPT !.fase = "letta", !.letta = tabella]]
  /\ UNCHANGED <<tabella, mappa, elenco, giro>>

\* Mutant of Assegna: the dictionary gets the new name, nothing else.
AssegnaUno(r) ==
  /\ richiesta[r].fase = "letta"
  /\ mappa' = [mappa EXCEPT ![richiesta[r].nodo] = richiesta[r].alias]
  /\ richiesta' = [richiesta EXCEPT ![r] = Libera]
  /\ UNCHANGED <<tabella, giro, elenco>>

\* ... and the assignment; the list is to be built again
Assegna(r) ==
  /\ richiesta[r].fase = "letta"
  /\ mappa' = richiesta[r].letta
  /\ elenco' = Vuoto
  /\ richiesta' = [richiesta EXCEPT ![r] = Libera]
  /\ UNCHANGED <<tabella, giro>>

\* delete_mesh_node takes the name of a dead node from the table, then from memory,
\* without reading the table: one request that is over at once
NodoTolto(n) ==
  /\ tabella[n] # Nessuno
  /\ tabella' = [tabella EXCEPT ![n] = Nessuno]
  /\ mappa' = [mappa EXCEPT ![n] = Nessuno]
  /\ richiesta' = [r \in Richiesta |-> [richiesta[r] EXCEPT
       !.sola = @ /\ richiesta[r].fase = "libera"]]
  /\ UNCHANGED <<elenco, giro>>

-----------------------------------------------------------------------------
(* _aggregate_mesh_models. *)

\* Mutant of Comincia: a list is kept until a name changes.
CominciaSeVuoto ==
  /\ giro.fase = "fermo" /\ ~elenco.pieno
  /\ giro' = [fase |-> "chiede", resto |-> Nodo, voci |-> {}]
  /\ UNCHANGED <<tabella, mappa, richiesta, elenco>>

\* a list of this age is served as it is; otherwise every node is
\* asked in turn (one that is not active, or not callable, has nothing to say)
Comincia ==
  /\ giro.fase = "fermo" /\ ~(elenco.pieno /\ elenco.fresco)
  /\ giro' = [fase |-> "chiede", resto |-> Nodo, voci |-> {}]
  /\ UNCHANGED <<tabella, mappa, richiesta, elenco>>

\* the name of a node is read before the call that asks for its models
Interroga(n, risponde) ==
  /\ giro.fase = "chiede" /\ n \in giro.resto
  /\ giro' = [giro EXCEPT !.resto = @ \ {n},
       !.voci = IF risponde THEN @ \union {<<n, Rif(mappa, n)>>} ELSE @]
  /\ UNCHANGED <<tabella, mappa, richiesta, elenco>>

\* the age counts from the beginning of the calls
Pubblica(giaScaduto) ==
  /\ giro.fase = "chiede" /\ giro.resto = {}
  /\ elenco' = [voci |-> giro.voci, pieno |-> TRUE, fresco |-> ~giaScaduto]
  /\ giro' = Pigro
  /\ UNCHANGED <<tabella, mappa, richiesta>>

\* _MODELS_CACHE_TTL
Scade ==
  /\ elenco.pieno /\ elenco.fresco
  /\ elenco' = [elenco EXCEPT !.fresco = FALSE]
  /\ UNCHANGED <<tabella, mappa, richiesta, giro>>

Lista == Comincia \/ (\E n \in Nodo, b \in BOOLEAN : Interroga(n, b)) \/ (\E b \in BOOLEAN : Pubblica(b))
Prosegue(r) == Scrive(r) \/ Legge(r) \/ Assegna(r)

Next ==
  \/ Lista \/ Scade
  \/ \E n \in Nodo : NodoTolto(n)
  \/ \E r \in Richiesta :
       Prosegue(r) \/ \E n \in Nodo : Rimuove(r, n) \/ \E a \in Alias : Chiede(r, n, a)

Spec == Init /\ [][Next]_vars

\* time passes, the clients ask for the list again, a request is carried through
FairSpec == Spec /\ WF_vars(Lista) /\ WF_vars(Scade) /\ \A r \in Richiesta : WF_vars(Prosegue(r))

-----------------------------------------------------------------------------
(* Properties. *)

Nomi == [Nodo -> Alias \union {Nessuno}]
Elenchi == SUBSET (Nodo \X ((Nodo \X {"id"}) \union (Alias \X {"alias"})))
TypeOK ==
  /\ tabella \in Nomi /\ mappa \in Nomi
  /\ elenco.voci \in Elenchi /\ {elenco.pieno, elenco.fresco} \subseteq BOOLEAN
  /\ giro.fase \in {"fermo", "chiede"} /\ giro.resto \subseteq Nodo /\ giro.voci \in Elenchi
  /\ \A r \in Richiesta : /\ richiesta[r].fase \in {"libera", "verificata", "scritta", "letta"}
                          /\ richiesta[r].letta \in Nomi

\* A name belongs to one node, whatever requests look for its owner together: a
\* request for "modello::alias" has one node to go to.
AliasUnivoco == \A a \in Alias : \A n, m \in Proprietari(a) : n = m

\* A request that no other request met leaves the dictionary in memory as the table.
PassoAllineato ==
  \A r \in Richiesta : richiesta[r].fase = "letta" /\ richiesta[r].sola /\ richiesta'[r].fase = "libera"
    => mappa' = tabella'
SolaAllinea == [][PassoAllineato]_vars

\* "cache in RAM sincronizzata con SQLite" (cp/mesh.py): with no request in
\* progress the dictionary is what the table says.
CacheAlias == (\A r \in Richiesta : richiesta[r].fase = "libera") => mappa = tabella

\* Once names no longer change and the dictionary is right, the list that is
\* served comes to show no old name, although one built across the last change
\* was stored after it.
ElencoSegueAlias ==
  <>[](mappa = tabella /\ \A r \in Richiesta : richiesta[r].fase = "libera")
    => <>[](\A v \in elenco.voci : v[2] = Rif(tabella, v[1]))
=============================================================================
