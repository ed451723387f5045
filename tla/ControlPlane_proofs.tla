------------------------- MODULE ControlPlane_proofs -------------------------
(***************************************************************************)
(* Proofs about the parts of the control plane that ControlPlane puts      *)
(* together, a part at a time, for any number of nodes, requests, authors, *)
(* messages and artifacts; then of the properties of them all.  Each part  *)
(* has its own steps: nothing is assumed of one in the proofs of another.  *)
(***************************************************************************)
EXTENDS ControlPlane, FiniteSetTheorems, SequenceTheorems, WellFoundedInduction,
        NaturalsInduction, TLAPS

-----------------------------------------------------------------------------
(* The registry and its heartbeat. *)

Leggono == {"sostituisce", "rinfresca"}
Scelte == {"dorme", "sonda", "scrive", "riga", "peer", "marca", "segna", "morto"}

\* What a thread works on while it is at work.
InMano ==
  /\ battito.fase \in {"scrive", "riga", "marca", "segna"} => battito.ep \in Endpoint
  /\ battito.fase = "scrive" => battito.esito \in Nodo
  /\ battito.fase = "segna" => battito.nodo \in Nodo
  /\ \A a \in Annuncio : annunci[a].fase # "libero" =>
       annunci[a].n \in Nodo /\ annunci[a].ep \in Endpoint \union {Reg!Browser}
  /\ \A o \in Operatore : elimina[o].fase # "no" =>
       elimina[o].n \in Nodo /\ elimina[o].ep \in Endpoint

\* Only the node of a browser has the address of one.
SoloBrowser ==
  /\ \A n \in Nodo : nodi[n].ep = Reg!Browser => n \in DOMAIN Scheda
  /\ \A a \in Annuncio : annunci[a].ep = Reg!Browser => annunci[a].n \in DOMAIN Scheda

\* Whoever is at an address that a removal is about to discard is known to race with it.
SolaCorsa ==
  \A o \in Operatore, n \in Nodo :
    elimina[o].fase = "sola" /\ Reg!C(n) /\ nodi[n].ep = elimina[o].ep => n \in corsa

\* An entry v may be replaced by one at e, and what a thread knows of the entry it read or wrote.
Cede(v, e) == v.stato # "assente" /\ v.ep \in Sicuri => e \in Sicuri \union {Reg!Browser}
Ricorda(v, r) ==
  /\ r.fase \in {"rinfresca", "scritto"} => v.stato # "assente" /\ v.ep = r.ep
  /\ r.fase = "sostituisce" => Cede(v, r.ep)

\* Nobody has overtaken a thread: what it knows still holds.
Aggiornati ==
  /\ \A a \in Annuncio : annunci[a].fresco => Ricorda(nodi[annunci[a].n], annunci[a])
  /\ battito.fase = "scrive" /\ battito.fresco => Cede(nodi[battito.esito], battito.ep)

TipiRegistro == Reg!TypeOK /\ InMano /\ SoloBrowser
InvRegistro == Reg!NodoSondato /\ SolaCorsa /\ Aggiornati

TipoBattito ==
  [fase : Scelte, resto : SUBSET Endpoint, ep : Endpoint \union {Reg!Nulla},
   esito : Nodo \union {Reg!Muto, Reg!Pagina}, fresco : BOOLEAN,
   spenti : SUBSET Nodo, nodo : Nodo \union {Reg!Nulla}]
TipoAnnuncio ==
  [fase : {"libero", "sostituisce", "rinfresca", "scritto"}, n : Nodo \union {Reg!Nulla},
   ep : Endpoint \union {Reg!Nulla, Reg!Browser}, fresco : BOOLEAN]
TipoRimozione ==
  [fase : {"no", "letta", "tolta", "sola"}, n : Nodo \union {Reg!Nulla},
   ep : Endpoint \union {Reg!Nulla}]

\* The heartbeat has in hand what it needs in its phase.
BattitoSano(b) ==
  /\ b \in TipoBattito
  /\ b.fase \in {"scrive", "riga", "marca", "segna"} => b.ep \in Endpoint
  /\ b.fase = "scrive" => b.esito \in Nodo
  /\ b.fase = "segna" => b.nodo \in Nodo
AnnuncioSano(r) ==
  /\ r \in TipoAnnuncio
  /\ r.fase # "libero" => r.n \in Nodo /\ r.ep \in Endpoint \union {Reg!Browser}
  /\ r.ep = Reg!Browser => r.n \in DOMAIN Scheda
RimozioneSana(r) ==
  /\ r \in TipoRimozione
  /\ r.fase # "no" => r.n \in Nodo /\ r.ep \in Endpoint
Sano(n, v) == v \in Reg!Voci /\ (v.ep = Reg!Browser => n \in DOMAIN Scheda)

\* The types, entry by entry.
LEMMA TipiAPezzi ==
  TipiRegistro <=>
    /\ nodi \in [Nodo -> Reg!Voci] /\ \A n \in Nodo : Sano(n, nodi[n])
    /\ noti \subseteq Endpoint /\ corsa \subseteq Nodo
    /\ BattitoSano(battito)
    /\ annunci \in [Annuncio -> TipoAnnuncio] /\ \A a \in Annuncio : AnnuncioSano(annunci[a])
    /\ elimina \in [Operatore -> TipoRimozione]
    /\ \A o \in Operatore : RimozioneSana(elimina[o])
BY DEF TipiRegistro, Reg!TypeOK, InMano, SoloBrowser, Sano, BattitoSano, AnnuncioSano, RimozioneSana,
       TipoBattito, TipoAnnuncio, TipoRimozione, Scelte

LEMMA TipiAPezziPoi ==
  TipiRegistro' <=>
    /\ nodi' \in [Nodo -> Reg!Voci] /\ \A n \in Nodo : Sano(n, nodi'[n])
    /\ noti' \subseteq Endpoint /\ corsa' \subseteq Nodo
    /\ BattitoSano(battito')
    /\ annunci' \in [Annuncio -> TipoAnnuncio] /\ \A a \in Annuncio : AnnuncioSano(annunci'[a])
    /\ elimina' \in [Operatore -> TipoRimozione]
    /\ \A o \in Operatore : RimozioneSana(elimina'[o])
BY DEF TipiRegistro, Reg!TypeOK, InMano, SoloBrowser, Sano, BattitoSano, AnnuncioSano, RimozioneSana,
       TipoBattito, TipoAnnuncio, TipoRimozione, Scelte

LEMMA VociDelRegistro ==
  ASSUME Reg!MeshRegistryAssumption
  PROVE  /\ \A e \in Endpoint \union {Reg!Browser}, s \in {"active", "unreachable"} :
              Reg!Voce(s, e) \in Reg!Voci /\ Reg!Voce(s, e) # Reg!Assente
         /\ Reg!Assente \in Reg!Voci
         /\ Reg!Nulla # Reg!Browser /\ Reg!Browser \notin Endpoint /\ Reg!Nulla \notin Endpoint
         /\ Reg!Muto \notin Nodo /\ Reg!Pagina \notin Nodo
BY DEF Reg!Voce, Reg!Voci, Reg!Assente, Reg!MeshRegistryAssumption, Reg!Nulla, Reg!Browser,
       Reg!Muto, Reg!Pagina

LEMMA FermoTipo ==
  /\ BattitoSano(Reg!Fermo) /\ BattitoSano(Reg!Morto)
  /\ Reg!Fermo.fase = "dorme" /\ Reg!Morto.fase = "morto"
  /\ AnnuncioSano(Reg!Libero) /\ Reg!Libero.fase = "libero" /\ ~Reg!Libero.fresco
  /\ RimozioneSana(Reg!Nessuna) /\ Reg!Nessuna.fase = "no"
BY DEF Reg!Fermo, Reg!Morto, Reg!Libero, Reg!Nessuna, BattitoSano, AnnuncioSano, RimozioneSana,
       TipoBattito, TipoAnnuncio, TipoRimozione, Scelte, Reg!Nulla, Reg!Browser, Reg!Muto

\* What a list of silent nodes leaves to do.
LEMMA Raccolto ==
  ASSUME TipiRegistro, NEW e \in Endpoint, NEW chi \in {Reg!Muto, Reg!Pagina}
  PROVE  /\ BattitoSano(Reg!Raccoglie(e, chi))
         /\ Reg!Raccoglie(e, chi).fase \in {"sonda", "marca"}
<1>1. Reg!A(e) \subseteq Nodo
  BY DEF Reg!A
<1>2. battito.resto \ {e} \subseteq Endpoint
  BY TipiAPezzi DEF BattitoSano, TipoBattito
<1> QED BY <1>1, <1>2 DEF Reg!Raccoglie, Reg!Fermo, BattitoSano, TipoBattito, Scelte

\* An entry of the registry is another; the threads that had the old one are overtaken.
LEMMA VecchiSani ==
  ASSUME TipiRegistro, NEW n \in Nodo
  PROVE  /\ Reg!Vecchi(n) \in [Annuncio -> TipoAnnuncio]
         /\ \A a \in Annuncio : /\ AnnuncioSano(Reg!Vecchi(n)[a])
                                /\ Reg!Vecchi(n)[a].fase = annunci[a].fase
                                /\ Reg!Vecchi(n)[a].n = annunci[a].n
                                /\ Reg!Vecchi(n)[a].ep = annunci[a].ep
                                /\ Reg!Vecchi(n)[a].fresco <=> annunci[a].fresco /\ annunci[a].n # n
<1>1. \A a \in Annuncio : AnnuncioSano(annunci[a])
  BY TipiAPezzi
<1>2. ASSUME NEW a \in Annuncio
      PROVE  /\ AnnuncioSano(Reg!Vecchi(n)[a])
             /\ Reg!Vecchi(n)[a].fase = annunci[a].fase
             /\ Reg!Vecchi(n)[a].n = annunci[a].n
             /\ Reg!Vecchi(n)[a].ep = annunci[a].ep
             /\ Reg!Vecchi(n)[a].fresco <=> annunci[a].fresco /\ annunci[a].n # n
  BY <1>1 DEF Reg!Vecchi, AnnuncioSano, TipoAnnuncio
<1> QED BY <1>2 DEF Reg!Vecchi, AnnuncioSano

LEMMA BattitoVecchioSano ==
  ASSUME TipiRegistro, NEW n \in Nodo, Reg!BattitoVecchio(n)
  PROVE  /\ BattitoSano(battito')
         /\ battito'.fase = battito.fase /\ battito'.ep = battito.ep /\ battito'.esito = battito.esito
         /\ battito'.fresco <=> battito.fresco /\ battito.esito # n
BY TipiAPezzi DEF Reg!BattitoVecchio, BattitoSano, TipoBattito

LEMMA RegistroInit == Reg!MeshRegistryAssumption /\ Reg!Init => TipiRegistro /\ InvRegistro
<1> SUFFICES ASSUME Reg!MeshRegistryAssumption, Reg!Init PROVE TipiRegistro /\ InvRegistro
  OBVIOUS
<1>0. PICK r \in [Nodo -> Reg!Voci] :
        /\ \A n \in Nodo : r[n].ep \in Reg!Sedi(n) \union {Reg!Nulla}
        /\ nodi = [n \in Nodo |-> Reg!Voce(r[n].stato, Reg!Norm(n, r[n].ep))]
  BY DEF Reg!Init
<1>1. ASSUME NEW n \in Nodo PROVE nodi[n] \in Reg!Voci /\ nodi[n].ep # Reg!Browser
  <2>1. r[n] = Reg!Assente \/ (r[n].stato \in {"active", "unreachable"} /\ r[n].ep \in Endpoint \union {Reg!Browser})
    BY <1>0 DEF Reg!Voci
  <2>2. nodi[n] = Reg!Voce(r[n].stato, Reg!Norm(n, r[n].ep))
    BY <1>0
  <2>3. CASE r[n] = Reg!Assente
    <3>1. Reg!Norm(n, r[n].ep) = Reg!Nulla
      BY <2>3, VociDelRegistro DEF Reg!Assente, Reg!Norm
    <3>2. nodi[n] = Reg!Assente
      BY <2>2, <2>3, <3>1 DEF Reg!Assente, Reg!Voce
    <3> QED BY <3>2, VociDelRegistro DEF Reg!Assente
  <2>4. CASE r[n].stato \in {"active", "unreachable"} /\ r[n].ep \in Endpoint \union {Reg!Browser}
    <3>1. r[n].ep = Reg!Browser => n \in DOMAIN Scheda
      <4>1. r[n].ep \in Reg!Sedi(n) \union {Reg!Nulla} /\ Sede[n] \subseteq Endpoint
        BY <1>0 DEF Reg!MeshRegistryAssumption
      <4> QED BY <4>1, VociDelRegistro DEF Reg!Sedi
    <3>2. Reg!Norm(n, r[n].ep) \in Endpoint
      BY <2>4, <3>1 DEF Reg!Norm, Reg!MeshRegistryAssumption
    <3>3. nodi[n].ep = Reg!Norm(n, r[n].ep) /\ nodi[n] = Reg!Voce(r[n].stato, nodi[n].ep)
      BY <2>2 DEF Reg!Voce
    <3>4. nodi[n] \in Reg!Voci
      BY <2>4, <3>2, <3>3, VociDelRegistro
    <3> QED BY <3>2, <3>3, <3>4, VociDelRegistro
  <2> QED BY <2>1, <2>3, <2>4
<1>2. nodi \in [Nodo -> Reg!Voci]
  BY <1>0, <1>1
<1>3. noti \subseteq Endpoint
  <2>1. ASSUME NEW n \in Nodo, Reg!C(n) PROVE nodi[n].ep \in Endpoint
    BY <1>1, <2>1 DEF Reg!C, Reg!Voci, Reg!Assente
  <2> QED BY <2>1 DEF Reg!Init, Reg!MeshRegistryAssumption
<1>4. TipiRegistro
  BY <1>1, <1>2, <1>3, FermoTipo, TipiAPezzi DEF Reg!Init, Sano, AnnuncioSano, RimozioneSana
<1>5. InvRegistro
  BY FermoTipo DEF Reg!Init, InvRegistro, Reg!NodoSondato, SolaCorsa, Aggiornati, Ricorda
<1> QED BY <1>4, <1>5

-----------------------------------------------------------------------------
(* Types. *)

LEMMA CorreSano ==
  ASSUME corsa \subseteq Nodo, NEW n \in Nodo, NEW e, NEW noto, Reg!Corre(n, e, noto)
  PROVE  corsa' \subseteq Nodo /\ \A m \in Nodo \ {n} : m \in corsa' <=> m \in corsa
BY DEF Reg!Corre

LEMMA TipiAnnuncia ==
  ASSUME Reg!MeshRegistryAssumption, TipiRegistro, NEW a \in Annuncio
  PROVE  /\ Reg!Gestisce(a) => TipiRegistro'
         /\ \A n \in Nodo, e \in Endpoint \union {Reg!Browser} : Reg!Annuncia(a, n, e) => TipiRegistro'
<1>a. /\ nodi \in [Nodo -> Reg!Voci] /\ \A n \in Nodo : Sano(n, nodi[n])
      /\ noti \subseteq Endpoint /\ corsa \subseteq Nodo
      /\ BattitoSano(battito)
      /\ annunci \in [Annuncio -> TipoAnnuncio] /\ \A b \in Annuncio : AnnuncioSano(annunci[b])
      /\ elimina \in [Operatore -> TipoRimozione]
      /\ \A o \in Operatore : RimozioneSana(elimina[o])
  BY TipiAPezzi
<1>1. ASSUME NEW n \in Nodo, NEW e \in Endpoint \union {Reg!Browser}, Reg!Annuncia(a, n, e)
      PROVE  TipiRegistro'
  <2>1. Reg!C(n) => nodi[n].ep \in Endpoint \union {Reg!Browser}
    BY <1>a DEF Reg!C, Reg!Voci, Reg!Assente
  <2>2. e = Reg!Browser => n \in DOMAIN Scheda
    BY <1>1, VociDelRegistro DEF Reg!Annuncia, Reg!Sedi, Reg!MeshRegistryAssumption
  <2>3. PICK f \in Leggono, p \in Endpoint \union {Reg!Browser} :
          /\ annunci' = [annunci EXCEPT ![a] = [fase |-> f, n |-> n, ep |-> p, fresco |-> TRUE]]
          /\ p = Reg!Browser => n \in DOMAIN Scheda
    BY <1>1, <1>a, <2>1, <2>2 DEF Reg!Annuncia, Leggono, Sano
  <2>4. AnnuncioSano([fase |-> f, n |-> n, ep |-> p, fresco |-> TRUE])
    BY <2>3 DEF AnnuncioSano, TipoAnnuncio, Leggono
  <2>5. annunci' \in [Annuncio -> TipoAnnuncio] /\ \A b \in Annuncio : AnnuncioSano(annunci'[b])
    BY <1>a, <2>3, <2>4 DEF AnnuncioSano
  <2> QED BY <1>1, <1>a, <2>5, TipiAPezziPoi DEF Reg!Annuncia
<1>2. CASE Reg!Iscrive(a)
  <2>1. annunci[a].n \in Nodo /\ annunci[a].ep \in Endpoint \union {Reg!Browser}
        /\ (annunci[a].ep = Reg!Browser => annunci[a].n \in DOMAIN Scheda)
    BY <1>2, <1>a DEF Reg!Iscrive, AnnuncioSano
  <2>2. nodi' \in [Nodo -> Reg!Voci] /\ \A n \in Nodo : Sano(n, nodi'[n])
    BY <1>2, <1>a, <2>1, VociDelRegistro DEF Reg!Iscrive, Sano, Reg!Voce
  <2>3. /\ BattitoSano(battito')
        /\ annunci' \in [Annuncio -> TipoAnnuncio] /\ \A b \in Annuncio : AnnuncioSano(annunci'[b])
    <3>1. CASE annunci[a].fase = "rinfresca" /\ annunci[a].fresco
      BY <1>2, <1>a, <3>1, FermoTipo DEF Reg!Iscrive, AnnuncioSano
    <3>2. CASE ~(annunci[a].fase = "rinfresca" /\ annunci[a].fresco)
      <4>1. PICK r : /\ annunci' = [Reg!Vecchi(annunci[a].n) EXCEPT ![a] = r]
                     /\ r = [annunci[a] EXCEPT !.fase = "scritto", !.fresco = TRUE] \/ r = Reg!Libero
        BY <1>2, <3>2 DEF Reg!Iscrive
      <4>2. AnnuncioSano(r)
        BY <4>1, <1>a, <2>1, FermoTipo DEF AnnuncioSano, TipoAnnuncio
      <4>3. Reg!BattitoVecchio(annunci[a].n)
        BY <1>2, <3>2 DEF Reg!Iscrive
      <4> QED BY <2>1, <4>1, <4>2, <4>3, VecchiSani, BattitoVecchioSano DEF AnnuncioSano
    <3> QED BY <3>1, <3>2
  <2>4. corsa' \subseteq Nodo /\ UNCHANGED <<noti, elimina>>
    BY <1>2, <1>a, <2>1, CorreSano DEF Reg!Iscrive
  <2> QED BY <1>a, <2>2, <2>3, <2>4, TipiAPezziPoi
<1>3. CASE Reg!RendeNoto(a)
  <2>1. annunci[a].ep \in Endpoint \union {Reg!Browser}
    BY <1>3, <1>a DEF Reg!RendeNoto, AnnuncioSano
  <2>2. noti' \subseteq Endpoint /\ corsa' \subseteq Nodo
    BY <1>3, <1>a, <2>1 DEF Reg!RendeNoto
  <2>3. annunci' \in [Annuncio -> TipoAnnuncio] /\ \A b \in Annuncio : AnnuncioSano(annunci'[b])
    BY <1>3, <1>a, FermoTipo DEF Reg!RendeNoto, AnnuncioSano
  <2> QED BY <1>3, <1>a, <2>2, <2>3, TipiAPezziPoi DEF Reg!RendeNoto
<1> QED BY <1>1, <1>2, <1>3 DEF Reg!Gestisce

LEMMA TipiBattito ==
  ASSUME Reg!MeshRegistryAssumption, TipiRegistro, Reg!Battito PROVE TipiRegistro'
<1>a. /\ nodi \in [Nodo -> Reg!Voci] /\ \A n \in Nodo : Sano(n, nodi[n])
      /\ noti \subseteq Endpoint /\ corsa \subseteq Nodo
      /\ BattitoSano(battito) /\ battito \in TipoBattito
      /\ annunci \in [Annuncio -> TipoAnnuncio] /\ \A b \in Annuncio : AnnuncioSano(annunci[b])
      /\ elimina \in [Operatore -> TipoRimozione]
      /\ \A o \in Operatore : RimozioneSana(elimina[o])
  BY TipiAPezzi DEF BattitoSano
<1>b. ASSUME BattitoSano(battito'), UNCHANGED <<nodi, annunci, elimina, corsa>>, noti' \subseteq Endpoint
      PROVE  TipiRegistro'
  BY <1>a, <1>b, TipiAPezziPoi
<1>c. ASSUME Reg!Prosegue PROVE BattitoSano(battito')
  BY <1>a, <1>c DEF Reg!Prosegue, Reg!Fermo, BattitoSano, TipoBattito, Scelte
<1>d. ASSUME Reg!Inciampa, battito.fase \in {"marca", "segna"} PROVE BattitoSano(battito')
  BY <1>a, <1>d, Raccolto, FermoTipo DEF Reg!Inciampa, BattitoSano
<1>1. CASE Reg!Giro
  <2>1. BattitoSano(battito')
    BY <1>1, <1>a DEF Reg!Giro, BattitoSano, TipoBattito, Scelte
  <2> QED BY <1>1, <1>a, <1>b, <2>1 DEF Reg!Giro
<1>2. ASSUME NEW e \in Endpoint, NEW n \in Nodo, Reg!SondaViva(e, n) PROVE TipiRegistro'
  <2>1. BattitoSano(battito')
    BY <1>2, <1>a DEF Reg!SondaViva, Reg!Fermo, BattitoSano, TipoBattito, Scelte
  <2> QED BY <1>2, <1>a, <1>b, <2>1 DEF Reg!SondaViva
<1>3. ASSUME NEW e \in Endpoint, NEW chi \in {Reg!Muto, Reg!Pagina}, Reg!SondaMuta(e, chi)
      PROVE  TipiRegistro'
  BY <1>3, <1>a, <1>b, Raccolto DEF Reg!SondaMuta
<1>4. CASE Reg!ScriveVoce
  <2>1. battito.esito \in Nodo /\ battito.ep \in Endpoint
    BY <1>4, <1>a DEF Reg!ScriveVoce, BattitoSano
  <2>2. nodi' \in [Nodo -> Reg!Voci] /\ \A n \in Nodo : Sano(n, nodi'[n])
    BY <1>4, <1>a, <2>1, VociDelRegistro DEF Reg!ScriveVoce, Sano, Reg!Voce
  <2>3. BattitoSano(battito')
    BY <1>4, <1>a, <2>1 DEF Reg!ScriveVoce, Reg!Fermo, BattitoSano, TipoBattito, Scelte
  <2>4. corsa' \subseteq Nodo /\ UNCHANGED <<noti, elimina>> /\ annunci' = Reg!Vecchi(battito.esito)
    BY <1>4, <1>a, <2>1, CorreSano DEF Reg!ScriveVoce
  <2> QED BY <1>a, <2>1, <2>2, <2>3, <2>4, VecchiSani, TipiAPezziPoi
<1>5. CASE Reg!SalvaVoceFallita
  BY <1>5, <1>a, <1>b, Raccolto DEF Reg!SalvaVoceFallita, BattitoSano
<1>6. ASSUME NEW altri \in SUBSET Endpoint, Reg!ChiedePeer(altri) PROVE TipiRegistro'
  BY <1>6, <1>a, <1>b, <1>c DEF Reg!ChiedePeer
<1>7. ASSUME NEW n \in Nodo, Reg!Marca(n) PROVE TipiRegistro'
  <2>1. CASE Reg!C(n)
    <3>1. nodi[n].stato \in {"active", "unreachable"} /\ nodi[n].ep \in Endpoint \union {Reg!Browser}
      BY <1>a, <2>1 DEF Reg!C, Reg!Voci, Reg!Assente
    <3>2. nodi' \in [Nodo -> Reg!Voci] /\ \A m \in Nodo : Sano(m, nodi'[m])
      <4>1. nodi[n] \in [stato : {"active", "unreachable"}, ep : Endpoint \union {Reg!Browser}]
        BY <1>a, <2>1 DEF Reg!C, Reg!Voci, Reg!Assente
      <4>2. nodi' = [nodi EXCEPT ![n] = [nodi[n] EXCEPT !.stato = "unreachable"]]
        BY <1>7, <1>a, <2>1 DEF Reg!Marca
      <4>3. /\ [nodi[n] EXCEPT !.stato = "unreachable"] \in Reg!Voci
            /\ [nodi[n] EXCEPT !.stato = "unreachable"].ep = nodi[n].ep
        BY <4>1 DEF Reg!Voci
      <4> QED BY <1>a, <4>2, <4>3 DEF Sano
    <3>3. BattitoSano(battito')
      <4>1. battito' = [battito EXCEPT !.fase = "segna", !.nodo = n, !.spenti = @ \ {n}]
            /\ battito.ep \in Endpoint /\ battito \in TipoBattito
        BY <1>7, <1>a, <2>1 DEF Reg!Marca, BattitoSano
      <4>2. battito' \in TipoBattito /\ battito'.fase = "segna" /\ battito'.nodo = n
            /\ battito'.ep = battito.ep
        BY <4>1 DEF TipoBattito, Scelte
      <4> QED BY <4>1, <4>2 DEF BattitoSano
    <3> QED BY <1>7, <1>a, <3>2, <3>3, TipiAPezziPoi DEF Reg!Marca
  <2>2. CASE ~Reg!C(n)
    <3>1. Reg!Inciampa /\ battito.fase \in {"marca", "segna"}
          /\ UNCHANGED <<nodi, noti, annunci, elimina, corsa>>
      BY <1>7, <2>2 DEF Reg!Marca
    <3>2. BattitoSano(battito')
      BY <3>1, <1>d
    <3> QED BY <3>1, <3>2, <1>a, <1>b
  <2> QED BY <2>1, <2>2
<1>8. CASE Reg!SalvaSpento
  <2>1. BattitoSano(battito')
    <3>1. CASE battito' = [battito EXCEPT !.fase = "marca", !.nodo = Reg!Nulla]
      BY <1>8, <1>a, <3>1 DEF Reg!SalvaSpento, BattitoSano, TipoBattito, Scelte
    <3> QED BY <1>8, <1>c, <1>d, <3>1 DEF Reg!SalvaSpento
  <2> QED BY <1>8, <1>a, <1>b, <2>1 DEF Reg!SalvaSpento
<1>9. CASE Reg!SalvaSpentoFallito
  BY <1>9, <1>a, <1>b, <1>d DEF Reg!SalvaSpentoFallito
<1>10. CASE Reg!FineSonda \/ Reg!DizionarioCambia
  BY <1>10, <1>a, <1>b, FermoTipo DEF Reg!FineSonda, Reg!DizionarioCambia
<1> QED BY <1>1, <1>2, <1>3, <1>4, <1>5, <1>6, <1>7, <1>8, <1>9, <1>10 DEF Reg!Battito

LEMMA TipiElimina ==
  ASSUME Reg!MeshRegistryAssumption, TipiRegistro, NEW o \in Operatore
  PROVE  /\ Reg!Toglie(o) \/ Reg!Prova(o) \/ Reg!ProvaFallita(o) \/ Reg!Scarta(o) => TipiRegistro'
         /\ \A n \in Nodo : Reg!Elimina(o, n) => TipiRegistro'
<1>a. /\ nodi \in [Nodo -> Reg!Voci] /\ \A n \in Nodo : Sano(n, nodi[n])
      /\ noti \subseteq Endpoint /\ corsa \subseteq Nodo
      /\ BattitoSano(battito)
      /\ annunci \in [Annuncio -> TipoAnnuncio] /\ \A b \in Annuncio : AnnuncioSano(annunci[b])
      /\ elimina \in [Operatore -> TipoRimozione]
      /\ \A p \in Operatore : RimozioneSana(elimina[p])
  BY TipiAPezzi
<1>b. ASSUME NEW r, RimozioneSana(r), elimina' = [elimina EXCEPT ![o] = r]
      PROVE  elimina' \in [Operatore -> TipoRimozione] /\ \A p \in Operatore : RimozioneSana(elimina'[p])
  BY <1>a, <1>b DEF RimozioneSana
<1>1. ASSUME NEW n \in Nodo, Reg!Elimina(o, n) PROVE TipiRegistro'
  <2>1. Reg!Norm(n, nodi[n].ep) \in Endpoint
    <3>1. nodi[n].ep \in Endpoint \union {Reg!Browser}
      BY <1>1, <1>a DEF Reg!Elimina, Reg!C, Reg!Voci, Reg!Assente
    <3> QED BY <1>a, <3>1 DEF Reg!Norm, Sano, Reg!MeshRegistryAssumption
  <2>2. RimozioneSana([fase |-> "letta", n |-> n, ep |-> Reg!Norm(n, nodi[n].ep)])
    BY <2>1 DEF RimozioneSana, TipoRimozione
  <2> QED BY <1>1, <1>a, <1>b, <2>2, TipiAPezziPoi DEF Reg!Elimina
<1>2. CASE Reg!Toglie(o)
  <2>1. elimina[o].n \in Nodo
    BY <1>2, <1>a DEF Reg!Toglie, RimozioneSana
  <2>2. nodi' \in [Nodo -> Reg!Voci] /\ \A n \in Nodo : Sano(n, nodi'[n])
    BY <1>2, <1>a, <2>1, VociDelRegistro DEF Reg!Toglie, Sano, Reg!Assente
  <2>3. elimina' = [elimina EXCEPT ![o] = [elimina[o] EXCEPT !.fase = "tolta"]]
    BY <1>2, <1>a DEF Reg!Toglie
  <2>4. RimozioneSana([elimina[o] EXCEPT !.fase = "tolta"])
    BY <1>2, <1>a DEF Reg!Toglie, RimozioneSana, TipoRimozione
  <2>5. corsa' \subseteq Nodo /\ noti' = noti /\ annunci' = Reg!Vecchi(elimina[o].n)
        /\ Reg!BattitoVecchio(elimina[o].n)
    BY <1>2, <1>a DEF Reg!Toglie
  <2>6. annunci' \in [Annuncio -> TipoAnnuncio] /\ \A b \in Annuncio : AnnuncioSano(annunci'[b])
    BY <2>1, <2>5, VecchiSani
  <2>7. BattitoSano(battito')
    BY <2>1, <2>5, BattitoVecchioSano
  <2>8. elimina' \in [Operatore -> TipoRimozione] /\ \A p \in Operatore : RimozioneSana(elimina'[p])
    BY <1>b, <2>3, <2>4
  <2> QED BY <1>a, <2>2, <2>5, <2>6, <2>7, <2>8, TipiAPezziPoi
<1>3. CASE Reg!Prova(o)
  <2>1. PICK r : elimina' = [elimina EXCEPT ![o] = r]
                 /\ (r = [elimina[o] EXCEPT !.fase = "sola"] \/ r = Reg!Nessuna)
    BY <1>3 DEF Reg!Prova
  <2>2. RimozioneSana(r)
    BY <1>3, <1>a, <2>1, FermoTipo DEF Reg!Prova, RimozioneSana, TipoRimozione
  <2> QED BY <1>3, <1>a, <1>b, <2>1, <2>2, TipiAPezziPoi DEF Reg!Prova
<1>4. CASE Reg!ProvaFallita(o) \/ Reg!Scarta(o)
  <2>1. elimina' = [elimina EXCEPT ![o] = Reg!Nessuna]
    BY <1>4 DEF Reg!ProvaFallita, Reg!Scarta
  <2>2. noti' \subseteq Endpoint /\ UNCHANGED <<nodi, battito, annunci, corsa>>
    BY <1>4, <1>a DEF Reg!ProvaFallita, Reg!Scarta
  <2> QED BY <1>a, <1>b, <2>1, <2>2, FermoTipo, TipiAPezziPoi
<1> QED BY <1>1, <1>2, <1>3, <1>4

LEMMA TipiNext == Reg!MeshRegistryAssumption /\ TipiRegistro /\ [Reg!Next]_Reg!vars => TipiRegistro'
<1> SUFFICES ASSUME Reg!MeshRegistryAssumption, TipiRegistro, [Reg!Next]_Reg!vars PROVE TipiRegistro'
  OBVIOUS
<1>1. ASSUME NEW e \in Endpoint, Reg!Configura(e) PROVE TipiRegistro'
  BY <1>1, TipiAPezzi, TipiAPezziPoi DEF Reg!Configura
<1>2. CASE UNCHANGED Reg!vars
  BY <1>2, TipiAPezzi, TipiAPezziPoi DEF Reg!vars
<1> QED BY <1>1, <1>2, TipiAnnuncia, TipiBattito, TipiElimina DEF Reg!Next

-----------------------------------------------------------------------------
(* Who is polled, and what is known. *)

\* The entry of n is written: what is known of its address, and of the other nodes.
Scritta(n, e) ==
  /\ nodi' = [nodi EXCEPT ![n] = Reg!Voce("active", e)] /\ UNCHANGED <<noti, elimina>>
  /\ Reg!DaScartare(e) => n \in corsa'
  /\ \A m \in Nodo \ {n} : m \in corsa' <=> m \in corsa
  /\ \/ e \in noti \/ n \in corsa'
     \/ \E b \in Annuncio :
          annunci'[b].fase = "scritto" /\ annunci'[b].n = n /\ annunci'[b].ep = e
  /\ \A b \in Annuncio : annunci[b].fase = "scritto" =>
       /\ annunci'[b].fase = "scritto"
       /\ annunci'[b].n = annunci[b].n /\ annunci'[b].ep = annunci[b].ep

LEMMA AltriSondati ==
  ASSUME TipiRegistro, InvRegistro, NEW n \in Nodo, NEW e, Scritta(n, e)
  PROVE  Reg!NodoSondato' /\ SolaCorsa'
<1>0. nodi \in [Nodo -> Reg!Voci]
  BY TipiAPezzi
<1>1. \A m \in Nodo \ {n} : nodi'[m] = nodi[m]
  BY <1>0 DEF Scritta
<1>2. nodi'[n].ep = e
  BY <1>0 DEF Scritta, Reg!Voce
<1>3. ASSUME NEW m \in Nodo, Reg!C(m)', nodi'[m].ep # Reg!Browser
      PROVE  \/ nodi'[m].ep \in noti' \/ m \in corsa'
             \/ \E a \in Annuncio :
                  annunci'[a].fase = "scritto" /\ annunci'[a].n = m /\ annunci'[a].ep = nodi'[m].ep
  <2>1. CASE m = n
    BY <1>2, <2>1 DEF Scritta
  <2>2. CASE m # n
    <3>1. nodi'[m] = nodi[m] /\ (m \in corsa' <=> m \in corsa) /\ Reg!C(m)
      BY <1>1, <1>3, <2>2 DEF Reg!C, Scritta
    <3>2. \/ nodi[m].ep \in noti \/ m \in corsa
          \/ \E a \in Annuncio :
               annunci[a].fase = "scritto" /\ annunci[a].n = m /\ annunci[a].ep = nodi[m].ep
      BY <1>3, <3>1 DEF InvRegistro, Reg!NodoSondato
    <3> QED BY <3>1, <3>2 DEF Scritta
  <2> QED BY <2>1, <2>2
<1>4. ASSUME NEW o \in Operatore, NEW m \in Nodo, elimina'[o].fase = "sola", Reg!C(m)',
             nodi'[m].ep = elimina'[o].ep
      PROVE  m \in corsa'
  <2>1. CASE m = n
    BY <1>2, <1>4, <2>1 DEF Reg!DaScartare, Scritta
  <2>2. CASE m # n
    BY <1>1, <1>4, <2>2 DEF InvRegistro, SolaCorsa, Reg!C, Scritta
  <2> QED BY <2>1, <2>2
<1> QED BY <1>3, <1>4 DEF Reg!NodoSondato, SolaCorsa

\* A step that leaves the entries, the removals and the announcements alone.
LEMMA FermiSondati ==
  ASSUME InvRegistro, TipiRegistro,
         \A n \in Nodo : (nodi'[n].stato = "assente" <=> nodi[n].stato = "assente")
                         /\ nodi'[n].ep = nodi[n].ep,
         UNCHANGED <<annunci, elimina, corsa>>, noti \subseteq noti',
         battito'.fase = "scrive" => battito'.esito \in Nodo /\ Cede(nodi[battito'.esito], battito'.ep)
  PROVE  InvRegistro'
<1>0. \A b \in Annuncio : AnnuncioSano(annunci[b])
  BY TipiAPezzi
<1>1. Reg!NodoSondato' /\ SolaCorsa'
  BY DEF InvRegistro, Reg!NodoSondato, SolaCorsa, Reg!C
<1>2. ASSUME NEW a \in Annuncio, annunci'[a].fresco PROVE Ricorda(nodi'[annunci'[a].n], annunci'[a])
  <2>1. Ricorda(nodi[annunci[a].n], annunci[a])
    BY <1>2 DEF InvRegistro, Aggiornati
  <2>2. CASE annunci[a].fase = "libero"
    BY <2>2 DEF Ricorda
  <2>3. CASE annunci[a].fase # "libero"
    <3>1. annunci[a].n \in Nodo
      BY <1>0, <2>3 DEF AnnuncioSano
    <3> QED BY <2>1, <3>1 DEF Ricorda, Cede
  <2> QED BY <2>2, <2>3
<1>3. battito'.fase = "scrive" => Cede(nodi'[battito'.esito], battito'.ep)
  BY DEF Cede
<1> QED BY <1>1, <1>2, <1>3 DEF InvRegistro, Aggiornati

\* The entry of n is another, and those who had the old one are overtaken.
Sorpassati(n) ==
  /\ \A m \in Nodo \ {n} : nodi'[m] = nodi[m]
  /\ \A b \in Annuncio :
       annunci'[b].fresco =>
         \/ annunci'[b].fase = "libero"
         \/ annunci'[b].n = n /\ Ricorda(nodi'[n], annunci'[b])
         \/ /\ annunci[b].fresco /\ annunci[b].n # n
            /\ annunci'[b].fase = annunci[b].fase /\ annunci'[b].n = annunci[b].n
            /\ annunci'[b].ep = annunci[b].ep
  /\ battito'.fase = "scrive" /\ battito'.fresco =>
       /\ battito.fase = "scrive" /\ battito.fresco
       /\ battito'.ep = battito.ep /\ battito'.esito = battito.esito /\ battito.esito # n

LEMMA AltriAggiornati ==
  ASSUME TipiRegistro, InvRegistro, NEW n \in Nodo, Sorpassati(n) PROVE Aggiornati'
<1>0. /\ \A b \in Annuncio : AnnuncioSano(annunci[b])
      /\ BattitoSano(battito)
  BY TipiAPezzi
<1>1. ASSUME NEW b \in Annuncio, annunci'[b].fresco PROVE Ricorda(nodi'[annunci'[b].n], annunci'[b])
  <2>1. CASE annunci'[b].fase = "libero"
    BY <2>1 DEF Ricorda
  <2>2. CASE annunci'[b].n = n /\ Ricorda(nodi'[n], annunci'[b])
    BY <2>2
  <2>3. CASE /\ annunci[b].fresco /\ annunci[b].n # n
             /\ annunci'[b].fase = annunci[b].fase /\ annunci'[b].n = annunci[b].n
             /\ annunci'[b].ep = annunci[b].ep /\ annunci[b].fase # "libero"
    <3>1. annunci[b].n \in Nodo \ {n}
      BY <1>0, <2>3 DEF AnnuncioSano
    <3>2. Ricorda(nodi[annunci[b].n], annunci[b]) /\ nodi'[annunci[b].n] = nodi[annunci[b].n]
      BY <2>3, <3>1 DEF InvRegistro, Aggiornati, Sorpassati
    <3> QED BY <2>3, <3>2 DEF Ricorda
  <2> QED BY <1>1, <2>1, <2>2, <2>3 DEF Sorpassati
<1>2. ASSUME battito'.fase = "scrive", battito'.fresco PROVE Cede(nodi'[battito'.esito], battito'.ep)
  <2>1. /\ battito.fase = "scrive" /\ battito.fresco
        /\ battito'.ep = battito.ep /\ battito'.esito = battito.esito /\ battito.esito # n
    BY <1>2 DEF Sorpassati
  <2>2. battito.esito \in Nodo \ {n}
    BY <1>0, <2>1 DEF BattitoSano
  <2>3. Cede(nodi[battito.esito], battito.ep) /\ nodi'[battito.esito] = nodi[battito.esito]
    BY <2>1, <2>2 DEF InvRegistro, Aggiornati, Sorpassati
  <2> QED BY <2>1, <2>3
<1> QED BY <1>1, <1>2 DEF Aggiornati

LEMMA SondatoAnnuncia ==
  ASSUME Reg!MeshRegistryAssumption, TipiRegistro, InvRegistro, NEW a \in Annuncio
  PROVE  /\ Reg!Gestisce(a) => InvRegistro'
         /\ \A n \in Nodo, e \in Endpoint \union {Reg!Browser} : Reg!Annuncia(a, n, e) => InvRegistro'
<1>a. /\ nodi \in [Nodo -> Reg!Voci] /\ \A b \in Annuncio : AnnuncioSano(annunci[b])
      /\ annunci \in [Annuncio -> TipoAnnuncio] /\ BattitoSano(battito) /\ corsa \subseteq Nodo
      /\ annunci[a] \in TipoAnnuncio
  BY TipiAPezzi
<1>1. ASSUME NEW n \in Nodo, NEW e \in Endpoint \union {Reg!Browser}, Reg!Annuncia(a, n, e)
      PROVE  InvRegistro'
  <2>1. PICK r : /\ annunci' = [annunci EXCEPT ![a] = r] /\ r.n = n
                 /\ r.fase \in Leggono /\ Ricorda(nodi[n], r)
    <3>1. CASE Reg!C(n) /\ (Reg!Norm(n, nodi[n].ep) = e \/ Reg!Resta(n, e))
      <4> DEFINE r == [fase |-> "rinfresca", n |-> n, ep |-> nodi[n].ep, fresco |-> TRUE]
      <4>1. annunci' = [annunci EXCEPT ![a] = r]
        BY <1>1, <3>1 DEF Reg!Annuncia
      <4>2. r.n = n /\ r.fase \in Leggono /\ Ricorda(nodi[n], r)
        BY <3>1 DEF Leggono, Ricorda, Reg!C
      <4> HIDE DEF r
      <4> QED BY <4>1, <4>2
    <3>2. CASE ~(Reg!C(n) /\ (Reg!Norm(n, nodi[n].ep) = e \/ Reg!Resta(n, e)))
      <4> DEFINE r == [fase |-> "sostituisce", n |-> n, ep |-> e, fresco |-> TRUE]
      <4>1. annunci' = [annunci EXCEPT ![a] = r]
        BY <1>1, <3>2 DEF Reg!Annuncia
      <4>2. Cede(nodi[n], e)
        BY <3>2 DEF Reg!Resta, Reg!C, Cede
      <4>3. r.n = n /\ r.fase \in Leggono /\ Ricorda(nodi[n], r)
        BY <4>2 DEF Leggono, Ricorda
      <4> HIDE DEF r
      <4> QED BY <4>1, <4>3
    <3> QED BY <3>1, <3>2
  <2>2. annunci'[a] = r /\ \A b \in Annuncio \ {a} : annunci'[b] = annunci[b]
    BY <1>a, <2>1
  <2>3. annunci[a].fase = "libero" /\ UNCHANGED <<nodi, noti, battito, elimina, corsa>>
    BY <1>1 DEF Reg!Annuncia
  <2>4. Reg!NodoSondato'
    BY <2>2, <2>3 DEF InvRegistro, Reg!NodoSondato, Reg!C
  <2>5. SolaCorsa'
    BY <2>3 DEF InvRegistro, SolaCorsa, Reg!C
  <2>6. Aggiornati'
    BY <2>1, <2>2, <2>3 DEF InvRegistro, Aggiornati
  <2> QED BY <2>4, <2>5, <2>6 DEF InvRegistro
<1>2. CASE Reg!Iscrive(a)
  <2>1. PICK r, n : r = annunci[a] /\ n = r.n
    OBVIOUS
  <2>2. /\ n \in Nodo /\ r.fase \in Leggono
        /\ nodi' = [nodi EXCEPT ![n] = Reg!Voce("active", r.ep)]
        /\ UNCHANGED <<noti, elimina>>
    BY <1>2, <1>a, <2>1 DEF Reg!Iscrive, AnnuncioSano, Leggono
  <2>3. /\ Reg!DaScartare(r.ep) => n \in corsa'
        /\ r.fase = "rinfresca" /\ r.ep \notin noti => n \in corsa'
        /\ \A m \in Nodo \ {n} : m \in corsa' <=> m \in corsa
    BY <1>2, <2>1, <2>2 DEF Reg!Iscrive, Reg!Corre
  <2>4. nodi'[n] = Reg!Voce("active", r.ep) /\ \A m \in Nodo \ {n} : nodi'[m] = nodi[m]
    BY <1>a, <2>2
  <2>5. CASE r.fase = "rinfresca" /\ r.fresco
    <3>1. annunci' = [annunci EXCEPT ![a] = Reg!Libero] /\ UNCHANGED battito
      BY <1>2, <2>1, <2>5 DEF Reg!Iscrive
    <3>2. annunci'[a] = Reg!Libero /\ \A b \in Annuncio \ {a} : annunci'[b] = annunci[b]
      BY <1>a, <3>1
    <3>3. Scritta(n, r.ep)
      BY <2>1, <2>2, <2>3, <2>5, <3>2 DEF Scritta
    <3>4. nodi[n].stato # "assente" /\ nodi[n].ep = r.ep
      BY <2>1, <2>5 DEF InvRegistro, Aggiornati, Ricorda
    <3>5. \A m \in Nodo : (nodi'[m].stato = "assente" <=> nodi[m].stato = "assente")
                          /\ nodi'[m].ep = nodi[m].ep
      BY <2>4, <3>4 DEF Reg!Voce
    <3>6. ASSUME NEW b \in Annuncio, annunci'[b].fresco
          PROVE  Ricorda(nodi'[annunci'[b].n], annunci'[b])
      <4>1. b # a /\ annunci'[b] = annunci[b] /\ Ricorda(nodi[annunci[b].n], annunci[b])
        BY <3>2, <3>6, FermoTipo DEF InvRegistro, Aggiornati
      <4>2. CASE annunci[b].fase = "libero"
        BY <4>1, <4>2 DEF Ricorda
      <4>3. CASE annunci[b].fase # "libero"
        <5>1. annunci[b].n \in Nodo
          BY <1>a, <4>3 DEF AnnuncioSano
        <5> QED BY <3>5, <4>1, <5>1 DEF Ricorda, Cede
      <4> QED BY <4>2, <4>3
    <3>7. battito'.fase = "scrive" /\ battito'.fresco => Cede(nodi'[battito'.esito], battito'.ep)
      <4>1. battito.fase = "scrive" => battito.esito \in Nodo
        BY <1>a DEF BattitoSano
      <4> QED BY <3>1, <3>5, <4>1 DEF InvRegistro, Aggiornati, Cede
    <3>8. Aggiornati'
      BY <3>6, <3>7 DEF Aggiornati
    <3> QED BY <2>2, <3>3, <3>8, AltriSondati DEF InvRegistro
  <2>6. CASE ~(r.fase = "rinfresca" /\ r.fresco)
    <3>1. PICK v : /\ annunci' = [Reg!Vecchi(n) EXCEPT ![a] = v]
                   /\ \/ r.fase = "rinfresca" /\ v = Reg!Libero
                      \/ r.fase = "sostituisce" /\ v = [r EXCEPT !.fase = "scritto", !.fresco = TRUE]
      BY <1>2, <2>1, <2>2, <2>6 DEF Reg!Iscrive, Leggono
    <3>2. /\ annunci'[a] = v
          /\ \A b \in Annuncio \ {a} :
                /\ annunci'[b].fase = annunci[b].fase /\ annunci'[b].n = annunci[b].n
                /\ annunci'[b].ep = annunci[b].ep
                /\ annunci'[b].fresco <=> annunci[b].fresco /\ annunci[b].n # n
      <4>1. annunci'[a] = v /\ \A b \in Annuncio \ {a} : annunci'[b] = Reg!Vecchi(n)[b]
        BY <3>1 DEF Reg!Vecchi
      <4> QED BY <2>2, <4>1, VecchiSani
    <3>3. r.fase = "sostituisce" => v.fase = "scritto" /\ v.n = n /\ v.ep = r.ep
      BY <1>a, <2>1, <3>1 DEF TipoAnnuncio
    <3>4. Scritta(n, r.ep)
      BY <2>1, <2>2, <2>3, <3>2, <3>3 DEF Scritta, Leggono
    <3>5. v.fase = "libero" \/ (v.n = n /\ Ricorda(nodi'[n], v))
      BY <2>4, <3>1, <3>3, FermoTipo DEF Ricorda, Reg!Voce
    <3>6. /\ battito'.fase = battito.fase /\ battito'.ep = battito.ep
          /\ battito'.esito = battito.esito
          /\ battito'.fresco <=> battito.fresco /\ battito.esito # n
      <4>1. Reg!BattitoVecchio(n)
        BY <1>2, <2>1, <2>6 DEF Reg!Iscrive
      <4> QED BY <2>2, <4>1, BattitoVecchioSano
    <3>7. Sorpassati(n)
      BY <2>4, <3>2, <3>5, <3>6 DEF Sorpassati
    <3> QED BY <2>2, <3>4, <3>7, AltriSondati, AltriAggiornati DEF InvRegistro
  <2> QED BY <2>5, <2>6
<1>3. CASE Reg!RendeNoto(a)
  <2>1. PICK r : r = annunci[a]
    OBVIOUS
  <2>2. /\ r.fase = "scritto" /\ r.n \in Nodo
        /\ noti' = noti \union ({r.ep} \ {Reg!Browser})
        /\ corsa' = (IF r.fresco /\ ~Reg!DaScartare(r.ep) THEN corsa \ {r.n} ELSE corsa)
        /\ annunci' = [annunci EXCEPT ![a] = Reg!Libero]
        /\ UNCHANGED <<nodi, battito, elimina>>
    BY <1>3, <1>a, <2>1 DEF Reg!RendeNoto, AnnuncioSano
  <2>3. annunci'[a] = Reg!Libero /\ \A b \in Annuncio \ {a} : annunci'[b] = annunci[b]
    BY <1>a, <2>2
  <2>4. r.fresco => nodi[r.n].ep = r.ep
    BY <2>1, <2>2 DEF InvRegistro, Aggiornati, Ricorda
  <2>5. ASSUME NEW n \in Nodo, Reg!C(n), nodi[n].ep # Reg!Browser
        PROVE  \/ nodi[n].ep \in noti' \/ n \in corsa'
               \/ \E b \in Annuncio :
                    annunci'[b].fase = "scritto" /\ annunci'[b].n = n /\ annunci'[b].ep = nodi[n].ep
    <3>1. CASE nodi[n].ep \in noti
      BY <2>2, <3>1
    <3>2. CASE n \in corsa
      BY <2>2, <2>4, <2>5, <3>2
    <3>3. ASSUME NEW b \in Annuncio, annunci[b].fase = "scritto", annunci[b].n = n,
                 annunci[b].ep = nodi[n].ep
          PROVE  \/ nodi[n].ep \in noti'
                 \/ \E c \in Annuncio :
                      annunci'[c].fase = "scritto" /\ annunci'[c].n = n /\ annunci'[c].ep = nodi[n].ep
      BY <2>1, <2>2, <2>3, <2>5, <3>3
    <3> QED BY <2>5, <3>1, <3>2, <3>3 DEF InvRegistro, Reg!NodoSondato
  <2>6. Reg!NodoSondato'
    BY <2>2, <2>5 DEF Reg!NodoSondato, Reg!C
  <2>7. ASSUME NEW o \in Operatore, NEW n \in Nodo, elimina[o].fase = "sola", Reg!C(n),
               nodi[n].ep = elimina[o].ep
        PROVE  n \in corsa'
    <3>1. n \in corsa
      BY <2>7 DEF InvRegistro, SolaCorsa
    <3> QED BY <2>2, <2>4, <2>7, <3>1 DEF Reg!DaScartare
  <2>8. SolaCorsa'
    BY <2>2, <2>7 DEF SolaCorsa, Reg!C
  <2>9. Aggiornati'
    BY <2>2, <2>3, FermoTipo DEF InvRegistro, Aggiornati
  <2> QED BY <2>6, <2>8, <2>9 DEF InvRegistro
<1> QED BY <1>1, <1>2, <1>3 DEF Reg!Gestisce

LEMMA SondatoBattito ==
  ASSUME Reg!MeshRegistryAssumption, TipiRegistro, InvRegistro, Reg!Battito PROVE InvRegistro'
<1>a. nodi \in [Nodo -> Reg!Voci] /\ BattitoSano(battito) /\ battito \in TipoBattito
  BY TipiAPezzi DEF BattitoSano
<1>b. ASSUME UNCHANGED <<nodi, annunci, elimina, corsa>>, noti \subseteq noti',
             battito'.fase # "scrive"
      PROVE  InvRegistro'
  BY <1>b, FermiSondati
<1>c. Reg!Prosegue => battito'.fase = "sonda"
  BY DEF Reg!Prosegue, Reg!Fermo
<1>d. ASSUME NEW e, NEW chi PROVE Reg!Raccoglie(e, chi).fase \in {"sonda", "marca"}
  BY DEF Reg!Raccoglie, Reg!Fermo
<1>e. Reg!Inciampa => battito'.fase \in {"sonda", "marca", "morto"}
  BY <1>d, FermoTipo DEF Reg!Inciampa
<1>1. CASE Reg!Giro
  <2>1. battito'.fase = "sonda"
    BY <1>1, <1>a DEF Reg!Giro, TipoBattito
  <2> QED BY <1>1, <1>b, <2>1 DEF Reg!Giro
<1>2. ASSUME NEW e \in Endpoint, NEW n \in Nodo, Reg!SondaViva(e, n) PROVE InvRegistro'
  <2>1. UNCHANGED <<nodi, noti, annunci, elimina, corsa>>
    BY <1>2 DEF Reg!SondaViva
  <2>2. CASE Reg!Resta(n, e)
    <3>1. battito'.fase = "peer"
      BY <1>2, <2>2 DEF Reg!SondaViva, Reg!Fermo
    <3> QED BY <1>b, <2>1, <3>1
  <2>3. CASE ~Reg!Resta(n, e)
    <3>1. battito'.esito = n /\ battito'.ep = e
      BY <1>2, <2>3 DEF Reg!SondaViva, Reg!Fermo
    <3>2. Cede(nodi[n], e)
      BY <2>3 DEF Cede, Reg!Resta, Reg!C
    <3> QED BY <2>1, <3>1, <3>2, FermiSondati
  <2> QED BY <2>2, <2>3
<1>3. ASSUME NEW e \in Endpoint, NEW chi \in {Reg!Muto, Reg!Pagina}, Reg!SondaMuta(e, chi)
      PROVE  InvRegistro'
  BY <1>3, <1>b, <1>d DEF Reg!SondaMuta
<1>4. CASE Reg!ScriveVoce
  <2>1. PICK n, e : n = battito.esito /\ e = battito.ep
    OBVIOUS
  <2>2. /\ n \in Nodo /\ nodi' = [nodi EXCEPT ![n] = Reg!Voce("active", e)]
        /\ annunci' = Reg!Vecchi(n) /\ Reg!Corre(n, e, e \in noti) /\ UNCHANGED <<noti, elimina>>
    BY <1>4, <1>a, <2>1 DEF Reg!ScriveVoce, BattitoSano
  <2>3. battito'.fase = "riga"
    BY <1>4 DEF Reg!ScriveVoce, Reg!Fermo
  <2>4. \A b \in Annuncio :
          /\ annunci'[b].fase = annunci[b].fase /\ annunci'[b].n = annunci[b].n
          /\ annunci'[b].ep = annunci[b].ep
          /\ annunci'[b].fresco <=> annunci[b].fresco /\ annunci[b].n # n
    BY <2>2, VecchiSani
  <2>5. Scritta(n, e)
    BY <2>2, <2>4 DEF Scritta, Reg!Corre
  <2>6. Sorpassati(n)
    BY <1>a, <2>2, <2>3, <2>4 DEF Sorpassati
  <2> QED BY <2>2, <2>5, <2>6, AltriSondati, AltriAggiornati DEF InvRegistro
<1>5. CASE Reg!SalvaVoceFallita
  BY <1>5, <1>b, <1>d DEF Reg!SalvaVoceFallita
<1>6. ASSUME NEW altri \in SUBSET Endpoint, Reg!ChiedePeer(altri) PROVE InvRegistro'
  BY <1>6, <1>b, <1>c DEF Reg!ChiedePeer
<1>7. ASSUME NEW n \in Nodo, Reg!Marca(n) PROVE InvRegistro'
  <2>1. CASE Reg!C(n)
    <3>1. battito'.fase = "segna"
      BY <1>7, <1>a, <2>1 DEF Reg!Marca, TipoBattito
    <3>2. nodi[n] \in [stato : {"active", "unreachable"}, ep : Endpoint \union {Reg!Browser}]
      BY <1>a, <2>1 DEF Reg!C, Reg!Voci, Reg!Assente
    <3>3. nodi' = [nodi EXCEPT ![n] = [nodi[n] EXCEPT !.stato = "unreachable"]]
      BY <1>7, <1>a, <2>1 DEF Reg!Marca
    <3>4. \A m \in Nodo : (nodi'[m].stato = "assente" <=> nodi[m].stato = "assente")
                          /\ nodi'[m].ep = nodi[m].ep
      BY <1>a, <2>1, <3>2, <3>3 DEF Reg!C
    <3> QED BY <1>7, <3>1, <3>4, FermiSondati DEF Reg!Marca
  <2>2. CASE ~Reg!C(n)
    <3>1. Reg!Inciampa /\ UNCHANGED <<nodi, noti, annunci, elimina, corsa>>
      BY <1>7, <2>2 DEF Reg!Marca
    <3> QED BY <1>b, <1>e, <3>1
  <2> QED BY <2>1, <2>2
<1>8. CASE Reg!SalvaSpento
  <2>1. battito'.fase # "scrive"
    <3>1. CASE battito' = [battito EXCEPT !.fase = "marca", !.nodo = Reg!Nulla]
      BY <1>a, <3>1 DEF TipoBattito
    <3> QED BY <1>8, <1>c, <1>e, <3>1 DEF Reg!SalvaSpento
  <2> QED BY <1>8, <1>b, <2>1 DEF Reg!SalvaSpento
<1>9. CASE Reg!SalvaSpentoFallito
  BY <1>9, <1>b, <1>e DEF Reg!SalvaSpentoFallito
<1>10. CASE Reg!FineSonda \/ Reg!DizionarioCambia
  BY <1>10, <1>b, FermoTipo DEF Reg!FineSonda, Reg!DizionarioCambia
<1> QED BY <1>1, <1>2, <1>3, <1>4, <1>5, <1>6, <1>7, <1>8, <1>9, <1>10 DEF Reg!Battito

LEMMA SondatoElimina ==
  ASSUME Reg!MeshRegistryAssumption, TipiRegistro, InvRegistro, NEW o \in Operatore
  PROVE  /\ Reg!Toglie(o) \/ Reg!Prova(o) \/ Reg!ProvaFallita(o) \/ Reg!Scarta(o) => InvRegistro'
         /\ \A n \in Nodo : Reg!Elimina(o, n) => InvRegistro'
<1>a. /\ nodi \in [Nodo -> Reg!Voci] /\ \A b \in Annuncio : AnnuncioSano(annunci[b])
      /\ BattitoSano(battito) /\ elimina \in [Operatore -> TipoRimozione]
      /\ \A p \in Operatore : RimozioneSana(elimina[p])
  BY TipiAPezzi
<1>b. ASSUME UNCHANGED <<nodi, battito, annunci, corsa>> PROVE Aggiornati'
  BY <1>b DEF InvRegistro, Aggiornati
<1>c. ASSUME UNCHANGED <<nodi, noti, battito, annunci, corsa>>, NEW r,
             elimina' = [elimina EXCEPT ![o] = r],
             r.fase = "sola" => \A n \in Nodo : Reg!C(n) => nodi[n].ep # r.ep
      PROVE  InvRegistro'
  <2>1. Reg!NodoSondato'
    BY <1>c DEF InvRegistro, Reg!NodoSondato, Reg!C
  <2>2. SolaCorsa'
    BY <1>a, <1>c DEF InvRegistro, SolaCorsa, Reg!C
  <2> QED BY <1>b, <1>c, <2>1, <2>2 DEF InvRegistro
<1>1. ASSUME NEW n \in Nodo, Reg!Elimina(o, n) PROVE InvRegistro'
  <2>1. PICK r : r.fase = "letta" /\ elimina' = [elimina EXCEPT ![o] = r]
    BY <1>1 DEF Reg!Elimina
  <2> QED BY <1>1, <1>c, <2>1 DEF Reg!Elimina
<1>2. CASE Reg!Toglie(o)
  <2>1. PICK n : n = elimina[o].n
    OBVIOUS
  <2>2. /\ n \in Nodo /\ nodi' = [nodi EXCEPT ![n] = Reg!Assente] /\ annunci' = Reg!Vecchi(n)
        /\ Reg!BattitoVecchio(n) /\ corsa' = corsa \ {n} /\ noti' = noti
    BY <1>2, <1>a, <2>1 DEF Reg!Toglie, RimozioneSana
  <2>3. elimina'[o].fase = "tolta" /\ \A p \in Operatore \ {o} : elimina'[p] = elimina[p]
    BY <1>2, <1>a DEF Reg!Toglie, TipoRimozione
  <2>4. nodi'[n].stato = "assente"
        /\ \A m \in Nodo \ {n} : nodi'[m] = nodi[m] /\ (m \in corsa' <=> m \in corsa)
    BY <1>a, <2>2 DEF Reg!Assente
  <2>5. \A b \in Annuncio :
          /\ annunci'[b].fase = annunci[b].fase /\ annunci'[b].n = annunci[b].n
          /\ annunci'[b].ep = annunci[b].ep
          /\ annunci'[b].fresco <=> annunci[b].fresco /\ annunci[b].n # n
    BY <2>2, VecchiSani
  <2>6. /\ battito'.fase = battito.fase /\ battito'.ep = battito.ep /\ battito'.esito = battito.esito
        /\ battito'.fresco <=> battito.fresco /\ battito.esito # n
    BY <2>2, BattitoVecchioSano
  <2>7. ASSUME NEW m \in Nodo, Reg!C(m)', nodi'[m].ep # Reg!Browser
        PROVE  \/ nodi'[m].ep \in noti' \/ m \in corsa'
               \/ \E a \in Annuncio :
                    annunci'[a].fase = "scritto" /\ annunci'[a].n = m /\ annunci'[a].ep = nodi'[m].ep
    <3>1. m # n /\ nodi'[m] = nodi[m] /\ (m \in corsa' <=> m \in corsa) /\ Reg!C(m)
      BY <2>4, <2>7 DEF Reg!C
    <3>2. \/ nodi[m].ep \in noti \/ m \in corsa
          \/ \E a \in Annuncio :
               annunci[a].fase = "scritto" /\ annunci[a].n = m /\ annunci[a].ep = nodi[m].ep
      BY <2>7, <3>1 DEF InvRegistro, Reg!NodoSondato
    <3> QED BY <2>2, <2>5, <3>1, <3>2
  <2>8. Reg!NodoSondato'
    BY <2>7 DEF Reg!NodoSondato
  <2>9. ASSUME NEW p \in Operatore, NEW m \in Nodo, elimina'[p].fase = "sola", Reg!C(m)',
               nodi'[m].ep = elimina'[p].ep
        PROVE  m \in corsa'
    <3>1. p # o /\ elimina'[p] = elimina[p]
      BY <2>3, <2>9
    <3>2. m # n /\ nodi'[m] = nodi[m] /\ (m \in corsa' <=> m \in corsa) /\ Reg!C(m)
      BY <2>4, <2>9 DEF Reg!C
    <3> QED BY <2>9, <3>1, <3>2 DEF InvRegistro, SolaCorsa
  <2>10. SolaCorsa'
    BY <2>9 DEF SolaCorsa
  <2>11. Sorpassati(n)
    BY <2>4, <2>5, <2>6 DEF Sorpassati
  <2> QED BY <2>2, <2>8, <2>10, <2>11, AltriAggiornati DEF InvRegistro
<1>3. CASE Reg!Prova(o)
  <2>1. PICK r : /\ elimina' = [elimina EXCEPT ![o] = r]
                 /\ \/ r = [elimina[o] EXCEPT !.fase = "sola"] /\ Reg!A(elimina[o].ep) = {}
                    \/ r = Reg!Nessuna
    BY <1>3 DEF Reg!Prova
  <2>2. elimina[o] \in TipoRimozione /\ elimina[o].ep \in Endpoint
    BY <1>3, <1>a DEF Reg!Prova, RimozioneSana
  <2>3. r.fase = "sola" => r.ep = elimina[o].ep /\ Reg!A(elimina[o].ep) = {}
    BY <2>1, <2>2, FermoTipo DEF TipoRimozione
  <2>4. r.fase = "sola" => \A n \in Nodo : Reg!C(n) => nodi[n].ep # r.ep
    BY <2>2, <2>3, VociDelRegistro DEF Reg!A, Reg!Norm
  <2> QED BY <1>3, <1>c, <2>1, <2>4 DEF Reg!Prova
<1>4. CASE Reg!ProvaFallita(o)
  BY <1>4, <1>c, FermoTipo DEF Reg!ProvaFallita
<1>5. CASE Reg!Scarta(o)
  <2>1. /\ noti' = noti \ {elimina[o].ep} /\ elimina' = [elimina EXCEPT ![o] = Reg!Nessuna]
        /\ elimina[o].fase = "sola" /\ UNCHANGED <<nodi, battito, annunci, corsa>>
    BY <1>5 DEF Reg!Scarta
  <2>2. Reg!NodoSondato'
    BY <2>1 DEF InvRegistro, Reg!NodoSondato, SolaCorsa, Reg!C
  <2>3. SolaCorsa'
    BY <1>a, <2>1, FermoTipo DEF InvRegistro, SolaCorsa, Reg!C
  <2> QED BY <1>b, <2>1, <2>2, <2>3 DEF InvRegistro
<1> QED BY <1>1, <1>2, <1>3, <1>4, <1>5

LEMMA SondatoNext ==
  Reg!MeshRegistryAssumption /\ TipiRegistro /\ InvRegistro /\ [Reg!Next]_Reg!vars => InvRegistro'
<1> SUFFICES ASSUME Reg!MeshRegistryAssumption, TipiRegistro, InvRegistro, [Reg!Next]_Reg!vars
             PROVE  InvRegistro'
  OBVIOUS
<1>1. ASSUME NEW e \in Endpoint, Reg!Configura(e) PROVE InvRegistro'
  BY <1>1 DEF Reg!Configura, InvRegistro, Reg!NodoSondato, SolaCorsa, Aggiornati, Reg!C
<1>2. CASE UNCHANGED Reg!vars
  BY <1>2 DEF Reg!vars, InvRegistro, Reg!NodoSondato, SolaCorsa, Aggiornati, Reg!C
<1> QED BY <1>1, <1>2, SondatoAnnuncia, SondatoBattito, SondatoElimina DEF Reg!Next

\* Entries, threads and addresses have their types, whatever is announced, answers, fails or
\* is removed (cp/mesh.py, cp/battito.py, cp/webnode.py).
THEOREM TipiDelRegistro == Reg!MeshRegistryAssumption => (Reg!Spec => []Reg!TypeOK)
<1> SUFFICES ASSUME Reg!MeshRegistryAssumption PROVE Reg!Spec => []Reg!TypeOK
  OBVIOUS
<1>1. TipiRegistro => Reg!TypeOK
  BY DEF TipiRegistro
<1> QED BY <1>1, RegistroInit, TipiNext, PTL DEF Reg!Spec

\* The heartbeat polls the address of every node of the registry, however announcements,
\* removals and polls interleave: the exceptions are an announcement about to make it known
\* and a node written while a removal discards the address (cp/mesh.py, cp/battito.py).
THEOREM ChiCeESondato == Reg!MeshRegistryAssumption => (Reg!Spec => []Reg!NodoSondato)
<1> SUFFICES ASSUME Reg!MeshRegistryAssumption PROVE Reg!Spec => []Reg!NodoSondato
  OBVIOUS
<1>1. InvRegistro => Reg!NodoSondato
  BY DEF InvRegistro
<1> QED BY <1>1, RegistroInit, TipiNext, SondatoNext, PTL DEF Reg!Spec

-----------------------------------------------------------------------------
(* Addresses that are given up. *)

LEMMA SicuroNext ==
  Reg!MeshRegistryAssumption /\ TipiRegistro /\ InvRegistro /\ [Reg!Next]_Reg!vars => Reg!PassoSicuro
<1> SUFFICES ASSUME Reg!MeshRegistryAssumption, TipiRegistro, InvRegistro, [Reg!Next]_Reg!vars,
                    NEW n \in Nodo, nodi[n].ep \in Sicuri, nodi'[n] # Reg!Assente
             PROVE  nodi'[n].ep \in Sicuri \union {Reg!Browser} \/ Reg!Sorpassato(n)
  BY DEF Reg!PassoSicuro
<1>a. /\ nodi \in [Nodo -> Reg!Voci] /\ \A b \in Annuncio : AnnuncioSano(annunci[b])
      /\ annunci \in [Annuncio -> TipoAnnuncio] /\ BattitoSano(battito)
  BY TipiAPezzi
<1>b. Reg!C(n)
  BY <1>a, VociDelRegistro DEF Reg!C, Reg!Voci, Reg!Assente, Reg!MeshRegistryAssumption
<1>c. ASSUME NEW e, Cede(nodi[n], e) PROVE e \in Sicuri \union {Reg!Browser}
  BY <1>b, <1>c DEF Cede, Reg!C
<1>1. CASE nodi'[n].ep = nodi[n].ep
  BY <1>1
<1>2. ASSUME NEW a \in Annuncio, Reg!Iscrive(a)
      PROVE  nodi'[n].ep \in Sicuri \union {Reg!Browser} \/ Reg!Sorpassato(n)
  <2>1. annunci[a].fase \in Leggono /\ annunci[a].n \in Nodo
        /\ nodi' = [nodi EXCEPT ![annunci[a].n] = Reg!Voce("active", annunci[a].ep)]
    BY <1>2, <1>a DEF Reg!Iscrive, AnnuncioSano, Leggono
  <2>2. CASE annunci[a].n # n
    BY <1>a, <2>1, <2>2
  <2>3. CASE annunci[a].n = n
    <3>1. nodi'[n].ep = annunci[a].ep
      BY <1>a, <2>1, <2>3 DEF Reg!Voce
    <3>2. CASE annunci[a].fresco
      <4>1. Ricorda(nodi[n], annunci[a])
        BY <2>3, <3>2 DEF InvRegistro, Aggiornati
      <4> QED BY <1>c, <2>1, <3>1, <4>1 DEF Ricorda, Leggono
    <3>3. CASE ~annunci[a].fresco
      <4>1. PICK v : /\ annunci' = [Reg!Vecchi(n) EXCEPT ![a] = v]
                     /\ v = Reg!Libero \/ v = [annunci[a] EXCEPT !.fase = "scritto", !.fresco = TRUE]
        BY <1>2, <2>3, <3>3 DEF Reg!Iscrive
      <4>2. annunci[a] \in TipoAnnuncio
        BY <1>a
      <4>3. v.fase \in {"libero", "scritto"}
        BY <4>1, <4>2, FermoTipo DEF TipoAnnuncio
      <4>4. annunci'[a].fase = v.fase
        BY <4>1 DEF Reg!Vecchi
      <4>5. annunci'[a].fase # annunci[a].fase
        BY <2>1, <4>3, <4>4 DEF Leggono
      <4> QED BY <2>1, <2>3, <3>3, <4>5 DEF Reg!Sorpassato, Leggono
    <3> QED BY <3>2, <3>3
  <2> QED BY <2>2, <2>3
<1>3. CASE Reg!ScriveVoce
  <2>1. battito.fase = "scrive" /\ battito.esito \in Nodo
        /\ nodi' = [nodi EXCEPT ![battito.esito] = Reg!Voce("active", battito.ep)]
    BY <1>3, <1>a DEF Reg!ScriveVoce, BattitoSano
  <2>2. CASE battito.esito # n
    BY <1>a, <2>1, <2>2
  <2>3. CASE battito.esito = n
    <3>1. nodi'[n].ep = battito.ep
      BY <1>a, <2>1, <2>3 DEF Reg!Voce
    <3> QED BY <1>c, <2>1, <2>3, <3>1 DEF InvRegistro, Aggiornati, Reg!Sorpassato
  <2> QED BY <2>2, <2>3
<1>4. ASSUME NEW m \in Nodo, Reg!Marca(m) PROVE nodi'[n].ep = nodi[n].ep
  <2>1. CASE Reg!C(m)
    <3>1. nodi[m] \in [stato : {"active", "unreachable"}, ep : Endpoint \union {Reg!Browser}]
      BY <1>a, <2>1 DEF Reg!C, Reg!Voci, Reg!Assente
    <3>2. nodi' = [nodi EXCEPT ![m] = [nodi[m] EXCEPT !.stato = "unreachable"]]
      BY <1>4, <1>a, <2>1 DEF Reg!Marca
    <3> QED BY <1>a, <3>1, <3>2
  <2> QED BY <1>4, <2>1 DEF Reg!Marca
<1>5. ASSUME NEW o \in Operatore, Reg!Toglie(o) PROVE nodi'[n].ep = nodi[n].ep
  <2>1. nodi' = [nodi EXCEPT ![elimina[o].n] = Reg!Assente]
    BY <1>5 DEF Reg!Toglie
  <2> QED BY <1>a, <2>1
<1>6. CASE UNCHANGED nodi
  BY <1>6
<1> QED
  <2>1. CASE Reg!Battito
    BY <1>1, <1>3, <1>4, <1>6, <2>1
    DEF Reg!Battito, Reg!Giro, Reg!SalvaVoceFallita, Reg!SalvaSpento, Reg!SalvaSpentoFallito,
        Reg!FineSonda, Reg!DizionarioCambia, Reg!SondaViva, Reg!SondaMuta, Reg!ChiedePeer
  <2>2. CASE ~Reg!Battito
    BY <1>1, <1>2, <1>5, <1>6, <2>2
    DEF Reg!Next, Reg!vars, Reg!Configura, Reg!Gestisce, Reg!RendeNoto, Reg!Annuncia, Reg!Prova,
        Reg!ProvaFallita, Reg!Scarta, Reg!Elimina
  <2> QED BY <2>1, <2>2

\* An https address is given up for a plain one only when the node is removed, for a browser's
\* or by a thread that has been overtaken, whoever announces what, whatever answers where and
\* whatever fails (mesh_announce, web_register, _poll_mesh_nodes).
THEOREM HttpsNonSiPerde == Reg!MeshRegistryAssumption => (Reg!Spec => Reg!NonDeclassato)
<1> SUFFICES ASSUME Reg!MeshRegistryAssumption PROVE Reg!Spec => Reg!NonDeclassato
  OBVIOUS
<1>1. TipiRegistro /\ InvRegistro /\ [Reg!Next]_Reg!vars => [Reg!PassoSicuro]_Reg!vars
  BY SicuroNext
<1> QED BY <1>1, RegistroInit, TipiNext, SondatoNext, PTL DEF Reg!Spec, Reg!NonDeclassato

-----------------------------------------------------------------------------
(* The names of the nodes. *)

TipoRichiesta ==
  [fase : {"libera", "verificata", "scritta", "letta"}, nodo : Nodo,
   alias : Alias \union {Ali!Nessuno}, letta : Ali!Nomi, sola : BOOLEAN]

TipiNomi ==
  /\ tabella \in Ali!Nomi /\ mappa \in Ali!Nomi
  /\ elenco \in [voci : Ali!Elenchi, pieno : BOOLEAN, fresco : BOOLEAN]
  /\ aggrega \in [fase : {"fermo", "chiede"}, resto : SUBSET Nodo, voci : Ali!Elenchi]
  /\ richiesta \in [Richiesta -> TipoRichiesta]

\* A request that meets another stays a request.
LEMMA NonPiuSola ==
  ASSUME NEW x \in TipoRichiesta, NEW b \in BOOLEAN
  PROVE  [x EXCEPT !.sola = b] \in TipoRichiesta
BY DEF TipoRichiesta

\* A request that has met no other is the only one at work, so the table it has read is
\* the table.
SolaLegge ==
  \A r \in Richiesta : richiesta[r].fase # "libera" /\ richiesta[r].sola =>
    /\ \A q \in Richiesta \ {r} : richiesta[q].fase = "libera"
    /\ richiesta[r].fase = "letta" => richiesta[r].letta = tabella

InvNomi == TipiNomi /\ Ali!AliasUnivoco /\ SolaLegge

LEMMA LiberaNomi ==
  Ali!NodeAliasesAssumption =>
    Ali!Libera \in [fase : {"libera"}, nodo : Nodo, alias : {Ali!Nessuno}, letta : Ali!Nomi, sola : {TRUE}]
<1> SUFFICES ASSUME Ali!NodeAliasesAssumption
    PROVE Ali!Libera \in [fase : {"libera"}, nodo : Nodo, alias : {Ali!Nessuno}, letta : Ali!Nomi, sola : {TRUE}]
  OBVIOUS
<1>1. (CHOOSE n \in Nodo : TRUE) \in Nodo
  BY DEF Ali!NodeAliasesAssumption
<1>2. Ali!Senza \in Ali!Nomi
  BY DEF Ali!Senza, Ali!Nomi
<1> QED BY <1>1, <1>2 DEF Ali!Libera

LEMMA NomiInit == Ali!NodeAliasesAssumption /\ Ali!Init => InvNomi
<1> SUFFICES ASSUME Ali!NodeAliasesAssumption, Ali!Init PROVE InvNomi
  OBVIOUS
<1>1. Ali!Senza \in Ali!Nomi
  BY DEF Ali!Senza, Ali!Nomi
<1>2. TipiNomi
  BY <1>1, LiberaNomi DEF Ali!Init, TipiNomi, TipoRichiesta, Ali!Vuoto, Ali!Pigro, Ali!Elenchi
<1>3. Ali!AliasUnivoco
  BY DEF Ali!Init, Ali!AliasUnivoco, Ali!Proprietari, Ali!Senza, Ali!NodeAliasesAssumption
<1>4. SolaLegge
  BY DEF Ali!Init, SolaLegge, Ali!Libera
<1> QED BY <1>2, <1>3, <1>4 DEF InvNomi

\* A request begins: whoever was at work is no longer alone.
LEMMA ParteSola ==
  ASSUME TipiNomi, Ali!NodeAliasesAssumption, SolaLegge, NEW r \in Richiesta, NEW n \in Nodo,
         NEW a \in Alias \union {Ali!Nessuno}, NEW f \in {"verificata", "scritta"},
         richiesta[r].fase = "libera", Ali!Parte(r, f, n, a), tabella' \in Ali!Nomi,
         mappa' = mappa, elenco' = elenco, aggrega' = aggrega
  PROVE  TipiNomi' /\ SolaLegge'
<1>1. Ali!Senza \in Ali!Nomi
  BY DEF Ali!Senza, Ali!Nomi
<1>2. TipiNomi'
  <2> DEFINE altre == {q \in Richiesta \ {r} : richiesta[q].fase # "libera"}
  <2>1. richiesta' = [q \in Richiesta |->
          IF q = r THEN [fase |-> f, nodo |-> n, alias |-> a, letta |-> Ali!Senza, sola |-> altre = {}]
          ELSE [richiesta[q] EXCEPT !.sola = @ /\ q \notin altre]]
    BY DEF Ali!Parte
  <2> HIDE DEF altre
  <2>2. [fase |-> f, nodo |-> n, alias |-> a, letta |-> Ali!Senza, sola |-> altre = {}] \in TipoRichiesta
    <3>1. PICK b \in BOOLEAN : b = (altre = {})  OBVIOUS
    <3>2. [fase |-> f, nodo |-> n, alias |-> a, letta |-> Ali!Senza, sola |-> b] \in TipoRichiesta
      BY <1>1 DEF TipoRichiesta
    <3> QED BY <3>1, <3>2, Zenon
  <2>3. ASSUME NEW q \in Richiesta
        PROVE  [richiesta[q] EXCEPT !.sola = @ /\ q \notin altre] \in TipoRichiesta
    <3>1. richiesta[q] \in TipoRichiesta  BY DEF TipiNomi
    <3>2. (richiesta[q].sola /\ q \notin altre) \in BOOLEAN  BY Zenon
    <3> QED BY <3>1, <3>2, NonPiuSola, Zenon
  <2>4. richiesta' \in [Richiesta -> TipoRichiesta]  BY <2>1, <2>2, <2>3, Zenon
  <2> QED BY <2>4 DEF TipiNomi
<1>3. SolaLegge'
  <2>1. ASSUME NEW q \in Richiesta \ {r}
        PROVE  richiesta'[q].fase = richiesta[q].fase
    BY DEF TipiNomi, TipoRichiesta, Ali!Parte
  <2>2. ASSUME NEW q \in Richiesta \ {r}, richiesta'[q].sola
        PROVE  richiesta[q].fase = "libera"
    BY <2>2 DEF TipiNomi, TipoRichiesta, Ali!Parte
  <2>3. richiesta'[r].fase # "letta"
    BY DEF TipiNomi, TipoRichiesta, Ali!Parte
  <2>4. ASSUME richiesta'[r].sola, NEW q \in Richiesta \ {r} PROVE richiesta[q].fase = "libera"
    BY <2>4 DEF TipiNomi, Ali!Parte
  <2> QED BY <2>1, <2>2, <2>3, <2>4 DEF SolaLegge
<1> QED BY <1>2, <1>3

LEMMA NomiNext == Ali!NodeAliasesAssumption /\ InvNomi /\ [Ali!Next]_Ali!vars => InvNomi'
<1> SUFFICES ASSUME Ali!NodeAliasesAssumption, InvNomi, [Ali!Next]_Ali!vars PROVE InvNomi'
  OBVIOUS
<1>a. TipiNomi /\ Ali!AliasUnivoco /\ SolaLegge
  BY DEF InvNomi
<1>1. ASSUME NEW r \in Richiesta, NEW n \in Nodo, NEW a \in Alias, Ali!Chiede(r, n, a) PROVE InvNomi'
  <2>1. TipiNomi' /\ SolaLegge'
    BY <1>1, <1>a, ParteSola DEF Ali!Chiede, TipiNomi, TipoRichiesta
  <2>2. Ali!AliasUnivoco'
    BY <1>1, <1>a DEF Ali!Chiede, Ali!AliasUnivoco, Ali!Proprietari
  <2> QED BY <2>1, <2>2 DEF InvNomi
<1>2. ASSUME NEW r \in Richiesta, Ali!Scrive(r) PROVE InvNomi'
  <2>1. TipiNomi'
    <3>1. richiesta[r].nodo \in Nodo /\ richiesta[r].alias \in Alias \union {Ali!Nessuno}
      BY <1>a DEF TipiNomi, TipoRichiesta
    <3>2. tabella' \in Ali!Nomi
      BY <1>2, <1>a, <3>1 DEF Ali!Scrive, TipiNomi, TipoRichiesta, Ali!Nomi
    <3>3. CASE Ali!Proprietari(richiesta[r].alias) \subseteq {richiesta[r].nodo}
      BY <1>2, <1>a, <3>2, <3>3 DEF Ali!Scrive, TipiNomi, TipoRichiesta
    <3>4. CASE ~(Ali!Proprietari(richiesta[r].alias) \subseteq {richiesta[r].nodo})
      <4>1. Ali!Libera \in [fase : {"libera", "verificata", "scritta", "letta"}, nodo : Nodo,
                          alias : Alias \union {Ali!Nessuno}, letta : Ali!Nomi, sola : BOOLEAN]
        BY LiberaNomi
      <4>2. richiesta' = [richiesta EXCEPT ![r] = Ali!Libera] /\ UNCHANGED <<tabella, mappa, elenco, aggrega>>
        BY <1>2, <3>4 DEF Ali!Scrive
      <4> QED BY <1>a, <4>1, <4>2 DEF TipiNomi, TipoRichiesta
    <3> QED BY <3>3, <3>4
  <2>3. \A q \in Richiesta \ {r} : richiesta'[q] = richiesta[q]
    BY <1>2, <1>a DEF Ali!Scrive, TipiNomi, TipoRichiesta
  <2>4. /\ richiesta[r].fase = "verificata" /\ richiesta'[r].fase # "letta"
        /\ richiesta'[r].fase = "libera" \/ richiesta'[r].sola = richiesta[r].sola
    BY <1>2, <1>a, LiberaNomi DEF Ali!Scrive, TipiNomi, TipoRichiesta
  <2>5. SolaLegge'
    BY <1>a, <2>3, <2>4 DEF SolaLegge
  <2>2. Ali!AliasUnivoco'
    BY <1>2, <1>a DEF Ali!Scrive, Ali!AliasUnivoco, Ali!Proprietari, TipiNomi, TipoRichiesta, Ali!Nomi
  <2> QED BY <2>1, <2>2, <2>5 DEF InvNomi
<1>3. ASSUME NEW r \in Richiesta, NEW n \in Nodo, Ali!Rimuove(r, n) PROVE InvNomi'
  <2>1. tabella' \in Ali!Nomi
    BY <1>3, <1>a DEF Ali!Rimuove, TipiNomi, TipoRichiesta, Ali!Nomi
  <2>2. TipiNomi' /\ SolaLegge'
    BY <1>3, <1>a, <2>1, ParteSola DEF Ali!Rimuove
  <2>3. Ali!AliasUnivoco'
    BY <1>3, <1>a DEF Ali!Rimuove, Ali!AliasUnivoco, Ali!Proprietari, TipiNomi, TipoRichiesta, Ali!Nomi, Ali!NodeAliasesAssumption
  <2> QED BY <2>2, <2>3 DEF InvNomi
<1>4. ASSUME NEW r \in Richiesta, Ali!Legge(r) PROVE InvNomi'
  <2>1. TipiNomi'
    BY <1>4, <1>a DEF Ali!Legge, TipiNomi, TipoRichiesta
  <2>2. \A q \in Richiesta \ {r} : richiesta'[q] = richiesta[q]
    BY <1>4, <1>a DEF Ali!Legge, TipiNomi, TipoRichiesta
  <2>3. /\ richiesta[r].fase # "libera" /\ richiesta'[r].sola = richiesta[r].sola
        /\ richiesta'[r].letta = tabella'
    BY <1>4, <1>a DEF Ali!Legge, TipiNomi, TipoRichiesta
  <2>4. SolaLegge'
    BY <1>4, <1>a, <2>2, <2>3 DEF Ali!Legge, SolaLegge
  <2>5. Ali!AliasUnivoco'
    BY <1>4, <1>a DEF Ali!Legge, Ali!AliasUnivoco, Ali!Proprietari
  <2> QED BY <2>1, <2>4, <2>5 DEF InvNomi
<1>5. ASSUME NEW r \in Richiesta, Ali!Assegna(r) PROVE InvNomi'
  <2>1. TipiNomi'
    BY <1>5, <1>a, LiberaNomi DEF Ali!Assegna, TipiNomi, TipoRichiesta, Ali!Vuoto, Ali!Elenchi
  <2>2. SolaLegge' /\ Ali!AliasUnivoco'
    BY <1>5, <1>a, LiberaNomi DEF Ali!Assegna, TipiNomi, TipoRichiesta, SolaLegge, Ali!AliasUnivoco, Ali!Proprietari
  <2> QED BY <2>1, <2>2 DEF InvNomi
<1>6. ASSUME NEW n \in Nodo, Ali!NodoTolto(n) PROVE InvNomi'
  <2>1. TipiNomi'
    <3>1. tabella' \in Ali!Nomi /\ mappa' \in Ali!Nomi
      BY <1>6, <1>a DEF Ali!NodoTolto, TipiNomi, TipoRichiesta, Ali!Nomi
    <3>2. richiesta' = [r \in Richiesta |-> [richiesta[r] EXCEPT
            !.sola = @ /\ richiesta[r].fase = "libera"]]
          /\ UNCHANGED <<elenco, aggrega>>
      BY <1>6 DEF Ali!NodoTolto
    <3>3. ASSUME NEW r \in Richiesta
          PROVE  [richiesta[r] EXCEPT !.sola = @ /\ richiesta[r].fase = "libera"] \in TipoRichiesta
      <4>1. richiesta[r] \in TipoRichiesta  BY <1>a DEF TipiNomi
      <4>2. (richiesta[r].sola /\ richiesta[r].fase = "libera") \in BOOLEAN  BY Zenon
      <4> QED BY <4>1, <4>2, NonPiuSola, Zenon
    <3>4. richiesta' \in [Richiesta -> TipoRichiesta]  BY <3>2, <3>3, Zenon
    <3> QED BY <1>a, <3>1, <3>2, <3>4 DEF TipiNomi
  <2>3. ASSUME NEW r \in Richiesta
        PROVE  /\ richiesta'[r].fase = richiesta[r].fase
               /\ richiesta'[r].sola => richiesta[r].fase = "libera"
    BY <1>6, <1>a DEF Ali!NodoTolto, TipiNomi, TipoRichiesta
  <2>4. SolaLegge'
    BY <2>3 DEF SolaLegge
  <2>2. Ali!AliasUnivoco'
    BY <1>6, <1>a DEF Ali!NodoTolto, Ali!AliasUnivoco, Ali!Proprietari, TipiNomi, TipoRichiesta, Ali!Nomi, Ali!NodeAliasesAssumption
  <2> QED BY <2>1, <2>2, <2>4 DEF InvNomi
<1>7. ASSUME Ali!Lista \/ Ali!Scade PROVE InvNomi'
  <2>1. UNCHANGED <<tabella, mappa, richiesta>>
    BY <1>7 DEF Ali!Lista, Ali!Comincia, Ali!Interroga, Ali!Pubblica, Ali!Scade
  <2>2. Ali!AliasUnivoco' /\ SolaLegge'
    BY <1>a, <2>1 DEF Ali!AliasUnivoco, Ali!Proprietari, SolaLegge
  <2>3. elenco' \in [voci : Ali!Elenchi, pieno : BOOLEAN, fresco : BOOLEAN]
    <3>1. CASE Ali!Scade
      BY <3>1, <1>a DEF Ali!Scade, TipiNomi, TipoRichiesta
    <3>2. ASSUME NEW b \in BOOLEAN, Ali!Pubblica(b)
          PROVE  elenco' \in [voci : Ali!Elenchi, pieno : BOOLEAN, fresco : BOOLEAN]
      BY <3>2, <1>a DEF Ali!Pubblica, TipiNomi, TipoRichiesta
    <3>3. CASE Ali!Comincia \/ \E n \in Nodo, b \in BOOLEAN : Ali!Interroga(n, b)
      BY <3>3, <1>a DEF Ali!Comincia, Ali!Interroga, TipiNomi, TipoRichiesta
    <3> QED BY <1>7, <3>1, <3>2, <3>3 DEF Ali!Lista
  <2>4. aggrega' \in [fase : {"fermo", "chiede"}, resto : SUBSET Nodo, voci : Ali!Elenchi]
    <3>1. CASE Ali!Comincia
      BY <3>1 DEF Ali!Comincia, Ali!Elenchi
    <3>2. ASSUME NEW n \in Nodo, NEW b \in BOOLEAN, Ali!Interroga(n, b)
          PROVE aggrega' \in [fase : {"fermo", "chiede"}, resto : SUBSET Nodo, voci : Ali!Elenchi]
      <4>1. <<n, Ali!Rif(mappa, n)>> \in Nodo \X ((Nodo \X {"id"}) \union (Alias \X {"alias"}))
        BY <1>a DEF TipiNomi, TipoRichiesta, Ali!Nomi, Ali!Rif
      <4> QED BY <3>2, <4>1, <1>a DEF Ali!Interroga, TipiNomi, TipoRichiesta, Ali!Elenchi
    <3>3. CASE Ali!Scade \/ \E b \in BOOLEAN : Ali!Pubblica(b)
      BY <3>3, <1>a DEF Ali!Pubblica, Ali!Scade, Ali!Pigro, Ali!Elenchi, TipiNomi, TipoRichiesta
    <3> QED BY <1>7, <3>1, <3>2, <3>3 DEF Ali!Lista
  <2> QED BY <1>a, <2>1, <2>2, <2>3, <2>4 DEF InvNomi, TipiNomi, TipoRichiesta
<1>8. CASE UNCHANGED Ali!vars
  BY <1>8, <1>a DEF Ali!vars, InvNomi, TipiNomi, TipoRichiesta, SolaLegge, Ali!AliasUnivoco, Ali!Proprietari
<1> QED BY <1>1, <1>2, <1>3, <1>4, <1>5, <1>6, <1>7, <1>8 DEF Ali!Next, Ali!Prosegue

\* The table, the dictionary in memory, the list and the requests keep their types.
THEOREM TipiDeiNomi == Ali!NodeAliasesAssumption => (Ali!Spec => []Ali!TypeOK)
<1> SUFFICES ASSUME Ali!NodeAliasesAssumption PROVE Ali!Spec => []Ali!TypeOK
  OBVIOUS
<1>1. InvNomi => Ali!TypeOK
  BY DEF InvNomi, TipiNomi, TipoRichiesta, Ali!TypeOK
<1> QED BY <1>1, NomiInit, NomiNext, PTL DEF Ali!Spec

\* A name has one owner, however many routes look for it together before they write.
THEOREM UnSoloProprietario == Ali!NodeAliasesAssumption => (Ali!Spec => []Ali!AliasUnivoco)
<1> SUFFICES ASSUME Ali!NodeAliasesAssumption PROVE Ali!Spec => []Ali!AliasUnivoco
  OBVIOUS
<1>1. InvNomi => Ali!AliasUnivoco
  BY DEF InvNomi
<1> QED BY <1>1, NomiInit, NomiNext, PTL DEF Ali!Spec

LEMMA AllineatoNext ==
  InvNomi /\ [Ali!Next]_Ali!vars => [Ali!PassoAllineato]_Ali!vars
<1> SUFFICES ASSUME InvNomi, [Ali!Next]_Ali!vars, NEW r \in Richiesta, richiesta[r].fase = "letta",
                    richiesta[r].sola, richiesta'[r].fase = "libera"
    PROVE mappa' = tabella'
  BY DEF Ali!PassoAllineato
<1>1. TipiNomi /\ SolaLegge
  BY DEF InvNomi
<1>2. richiesta[r].letta = tabella
  BY <1>1 DEF SolaLegge
<1>3. ASSUME NEW q \in Richiesta, Ali!Assegna(q) PROVE mappa' = tabella'
  BY <1>1, <1>2, <1>3 DEF Ali!Assegna, TipiNomi, TipoRichiesta, SolaLegge
<1>4. ASSUME NEW q \in Richiesta, Ali!Scrive(q) \/ Ali!Legge(q) PROVE FALSE
  BY <1>1, <1>4 DEF Ali!Scrive, Ali!Legge, TipiNomi, TipoRichiesta
<1>5. ASSUME NEW q \in Richiesta, NEW n \in Nodo,
             Ali!Rimuove(q, n) \/ \E a \in Alias : Ali!Chiede(q, n, a)
      PROVE  FALSE
  BY <1>1, <1>5 DEF Ali!Rimuove, Ali!Chiede, Ali!Parte, TipiNomi, TipoRichiesta
<1>6. ASSUME NEW n \in Nodo, Ali!NodoTolto(n) PROVE FALSE
  BY <1>1, <1>6 DEF Ali!NodoTolto, TipiNomi, TipoRichiesta
<1>7. CASE Ali!Lista \/ Ali!Scade \/ UNCHANGED Ali!vars
  BY <1>7 DEF Ali!Lista, Ali!Comincia, Ali!Interroga, Ali!Pubblica, Ali!Scade, Ali!vars
<1> QED BY <1>3, <1>4, <1>5, <1>6, <1>7 DEF Ali!Next, Ali!Prosegue

\* A request that met no other, nor the removal of a node, leaves the dictionary as the
\* table.
THEOREM ChiESolaAllinea == Ali!NodeAliasesAssumption => (Ali!Spec => Ali!SolaAllinea)
<1> SUFFICES ASSUME Ali!NodeAliasesAssumption PROVE Ali!Spec => Ali!SolaAllinea
  OBVIOUS
<1> QED BY AllineatoNext, NomiInit, NomiNext, PTL DEF Ali!Spec, Ali!SolaAllinea

-----------------------------------------------------------------------------
(* The scores of the nodes: FleetScores. *)

FleDati == [dato : Campione \union {Fle!Mai}, fresco : BOOLEAN]

\* Types, without the counters.
FleTipo ==
  /\ campioni \in [Candidato -> FleDati]
  /\ raccolta \in [fase : {"dorme", "scrive", "morto"}, nuovi : BOOLEAN,
                   esiti : [Candidato -> Campione \union {Fle!Guasto, Fle!Mai}]]
  /\ cache \in [valida : BOOLEAN, visti : [Candidato -> FleDati]]
  /\ rete \in [Candidato -> Campione \union {Fle!Guasto}]
  /\ lettore \in [resto : (SUBSET Candidato) \union {Fle!Nessuno}, visti : [Candidato -> FleDati]]

\* The collector has written samples that it has not told the cache of.
FleDaDire == raccolta.fase = "scrive" /\ raccolta.nuovi

\* What the cache, and what a request that computes it has read so far, differ from the
\* samples only while the collector still has to invalidate the cache.
FleVisti ==
  raccolta.fase # "morto" /\ ~FleDaDire =>
    /\ cache.valida => \A n \in Candidato : cache.visti[n].dato = campioni[n].dato
    /\ lettore.resto # Fle!Nessuno =>
         \A n \in Candidato \ lettore.resto : lettore.visti[n].dato = campioni[n].dato

FleInv == FleTipo /\ FleVisti

\* The state of a system that starts.
LEMMA FleInvIniziale ==
  ASSUME Fle!Init
  PROVE  FleInv
<1>1. FleTipo  BY DEF Fle!Init, FleTipo, FleDati, Fle!Ignoto, Fle!Mai, Fle!Guasto, Fle!Nessuno
<1>2. FleVisti  BY DEF Fle!Init, FleVisti
<1> QED BY <1>1, <1>2 DEF FleInv

\* The steps of the collector.
LEMMA FleInvRaccolta ==
  ASSUME FleInv, Fle!Raccolta
  PROVE  FleInv'
<1> USE DEF FleInv
<1>1. CASE Fle!Interroga
  <2>1. raccolta.fase = "dorme" /\ raccolta'.fase = "scrive" /\ raccolta'.nuovi = FALSE
        /\ UNCHANGED <<campioni, cache, lettore>>
    BY <1>1 DEF Fle!Interroga
  <2>2. FleTipo'
    BY <1>1 DEF FleTipo, Fle!Interroga
  <2>3. FleVisti'  BY <2>1 DEF FleVisti, FleDaDire
  <2> QED BY <2>2, <2>3
<1>2. CASE Fle!FineRaccolta
  <2>1. FleTipo'  BY <1>2 DEF FleTipo, Fle!FineRaccolta, Fle!Invalida
  <2>2. CASE raccolta.nuovi
    BY <1>2, <2>2 DEF FleVisti, FleTipo, Fle!FineRaccolta, Fle!Invalida
  <2>3. CASE ~raccolta.nuovi
    BY <1>2, <2>3 DEF FleVisti, FleDaDire, FleTipo, Fle!FineRaccolta
  <2> QED BY <2>1, <2>2, <2>3
<1>3. ASSUME NEW n \in Candidato, Fle!Scrive(n)
      PROVE  FleInv'
  <2> DEFINE e == raccolta.esiti[n]
  <2>1. UNCHANGED <<cache, lettore>> /\ raccolta.fase = "scrive" /\ e # Fle!Mai /\ e \in Campione \union {Fle!Guasto}
    BY <1>3 DEF Fle!Scrive, FleTipo
  <2>2. CASE e = Fle!Guasto /\ UNCHANGED campioni
             /\ raccolta' = (IF guasti[n] = MaxEsponente THEN [raccolta EXCEPT !.fase = "morto"]
                             ELSE [raccolta EXCEPT !.esiti[n] = Fle!Mai])
    <3>1. UNCHANGED rete  BY <1>3 DEF Fle!Scrive
    <3>2. raccolta' \in [fase : {"dorme", "scrive", "morto"}, nuovi : BOOLEAN,
                         esiti : [Candidato -> Campione \union {Fle!Guasto, Fle!Mai}]]
      BY <2>2 DEF FleTipo
    <3>3. FleTipo'  BY <2>1, <2>2, <3>1, <3>2 DEF FleTipo
    <3>4. FleVisti'  BY <2>1, <2>2 DEF FleVisti, FleTipo, FleDaDire
    <3> QED BY <3>3, <3>4
  <2>3. CASE e # Fle!Guasto /\ campioni' = [campioni EXCEPT ![n] = Fle!Noto(e, TRUE)]
             /\ raccolta' = [raccolta EXCEPT !.esiti[n] = Fle!Mai, !.nuovi = TRUE]
    <3>1. Fle!Noto(e, TRUE) \in FleDati  BY <2>1, <2>3 DEF FleDati, Fle!Noto
    <3>2. UNCHANGED rete  BY <1>3 DEF Fle!Scrive
    <3>3. FleTipo'  BY <2>1, <2>3, <3>1, <3>2 DEF FleTipo
    <3>4. FleVisti'  BY <2>1, <2>3 DEF FleVisti, FleTipo, FleDaDire
    <3> QED BY <3>3, <3>4
  <2> QED BY <1>3, <2>2, <2>3 DEF Fle!Scrive
<1> QED BY <1>1, <1>2, <1>3 DEF Fle!Raccolta

\* A request that computes the scores, one node after the other.
LEMMA FleInvLettore ==
  ASSUME FleInv,
         Fle!Calcola \/ Fle!Calcolato \/ \E n \in Candidato : Fle!LeggeCampione(n)
  PROVE  FleInv'
<1> USE DEF FleInv
<1>1. CASE Fle!Calcola
  BY <1>1 DEF Fle!Calcola, FleTipo, FleVisti, FleDaDire
<1>2. CASE Fle!Calcolato
  <2>1. {} # Fle!Nessuno  BY DEF Fle!Nessuno
  <2>2. FleTipo'  BY <1>2 DEF Fle!Calcolato, FleTipo
  <2>3. FleVisti'  BY <1>2, <2>1 DEF Fle!Calcolato, FleTipo, FleVisti, FleDaDire
  <2> QED BY <2>2, <2>3
<1>3. ASSUME NEW n \in Candidato, Fle!LeggeCampione(n)
      PROVE  FleInv'
  <2>1. lettore.resto \in SUBSET Candidato  BY <1>3 DEF Fle!LeggeCampione, FleTipo
  <2>2. FleTipo'  BY <1>3, <2>1 DEF Fle!LeggeCampione, FleTipo
  <2>3. FleVisti'  BY <1>3, <2>1 DEF Fle!LeggeCampione, FleTipo, FleVisti, FleDaDire
  <2> QED BY <2>2, <2>3
<1> QED BY <1>1, <1>2, <1>3

\* A choice, and time.
LEMMA FleInvTempo ==
  ASSUME FleInv,
         \/ Fle!Scegli \/ Fle!Scade \/ UNCHANGED Fle!vars
         \/ \E n \in Candidato : Fle!Invecchia(n)
         \/ \E n \in Candidato, c \in Campione \union {Fle!Guasto} : Fle!Cambia(n, c)
  PROVE  FleInv'
<1> USE DEF FleInv
<1>1. CASE Fle!Scegli
  BY <1>1 DEF Fle!Scegli, Fle!Invalida, FleTipo, FleVisti, FleDaDire
<1>2. CASE Fle!Scade
  BY <1>2 DEF Fle!Scade, FleTipo, FleVisti, FleDaDire
<1>3. CASE UNCHANGED Fle!vars
  BY <1>3 DEF Fle!vars, FleTipo, FleVisti, FleDaDire
<1>4. ASSUME NEW n \in Candidato, Fle!Invecchia(n)
      PROVE  FleInv'
  <2>1. campioni' = [campioni EXCEPT ![n].fresco = FALSE] /\ UNCHANGED <<raccolta, cache, lettore, rete>>
    BY <1>4 DEF Fle!Invecchia
  <2>2. FleTipo'  BY <2>1 DEF FleTipo, FleDati
  <2>3. \A m \in Candidato : campioni'[m].dato = campioni[m].dato  BY <2>1 DEF FleTipo, FleDati
  <2>4. FleVisti'  BY <2>1, <2>3 DEF FleVisti, FleDaDire
  <2> QED BY <2>2, <2>4
<1>5. ASSUME NEW n \in Candidato, NEW c \in Campione \union {Fle!Guasto}, Fle!Cambia(n, c)
      PROVE  FleInv'
  BY <1>5 DEF Fle!Cambia, FleTipo, FleVisti, FleDaDire
<1> QED BY <1>1, <1>2, <1>3, <1>4, <1>5

LEMMA FleInvPasso ==
  ASSUME FleInv, [Fle!Next]_(Fle!vars)
  PROVE  FleInv'
BY FleInvRaccolta, FleInvLettore, FleInvTempo DEF Fle!Next

\* "Campioni freschi -> lo score riflette subito carico, saturazione, degradazione"
\* (cp/metriche.py): while the collector sleeps, the cached scores come from the last sample
\* of every node, though a request may have been computing them while the samples changed.
THEOREM CacheSempreVera == Fle!Spec => []Fle!CacheRiflette
<1>1. Fle!Init => FleInv  BY FleInvIniziale
<1>2. FleInv /\ [Fle!Next]_(Fle!vars) => FleInv'  BY FleInvPasso
<1>3. FleInv => Fle!CacheRiflette  BY DEF FleInv, FleVisti, FleDaDire, Fle!CacheRiflette
<1> QED BY <1>1, <1>2, <1>3, PTL DEF Fle!Spec

-----------------------------------------------------------------------------
(* Who is silenced in a room: ChannelGuard. *)

LEMMA GuaCardinalita == \A S : Gua!Cardinality(S) = Cardinality(S)
BY DEF Gua!Cardinality, Cardinality

GuaTipo ==
  /\ tracciati \subseteq Autore /\ IsFiniteSet(tracciati) /\ Cardinality(tracciati) <= MaxAutori
  /\ \A a \in Autore : autori[a].strike \in Nat /\ autori[a].eta \in Nat
  /\ dopo \in [Autore -> SUBSET Autore]
  /\ colpi \in [Autore -> [eta : Nat, serie : Nat, spinto : BOOLEAN]]
  /\ soglie \in Soglie

\* Who has spoken since orders the authors of the table.
GuaOrdine ==
  /\ \A b \in tracciati : dopo[b] \subseteq tracciati \ {b}
  /\ \A b, c \in tracciati : b # c => (c \in dopo[b] \/ b \in dopo[c])
  /\ \A b, c, d \in tracciati : c \in dopo[b] /\ d \in dopo[c] => d \in dopo[b]

\* The strikes that hold are those of the suspicions since the author was last pushed out.
GuaStrike(a) ==
  /\ a \notin tracciati => autori[a].strike = 0
  /\ autori[a].strike >= 1 /\ autori[a].eta <= Decadimento =>
       ~colpi[a].spinto /\ colpi[a].eta = autori[a].eta /\ colpi[a].serie = autori[a].strike
  /\ colpi[a].eta <= Decadimento /\ ~colpi[a].spinto =>
       autori[a].strike >= 1 /\ autori[a].eta = colpi[a].eta
  /\ colpi[a].eta > Decadimento => colpi[a].serie = 0

GuaEsito == esito.su \subseteq Autore /\ Gua!PunitoSoloRecidivo /\ Gua!RecidivoFermato

GuaInv == GuaTipo /\ GuaOrdine /\ (\A a \in Autore : GuaStrike(a)) /\ GuaEsito

LEMMA GuaInvIniziale ==
  ASSUME Gua!ChannelGuardAssumption, Gua!Init
  PROVE  GuaInv
<1>1. IsFiniteSet({}) /\ Cardinality({}) = 0  BY FS_EmptySet
<1>2. GuaTipo
  BY <1>1 DEF Gua!ChannelGuardAssumption, Gua!Init, Gua!Ignoto, Gua!MaiColpito, Gua!Mai, GuaTipo
<1>3. GuaOrdine  BY DEF Gua!Init, GuaOrdine
<1>4. \A a \in Autore : GuaStrike(a)
  BY DEF Gua!ChannelGuardAssumption, Gua!Init, Gua!Ignoto, Gua!MaiColpito, Gua!Mai, GuaStrike
<1>5. GuaEsito
  BY DEF Gua!Init, Gua!Niente, GuaEsito, Gua!PunitoSoloRecidivo, Gua!RecidivoFermato
<1> QED BY <1>2, <1>3, <1>4, <1>5 DEF GuaInv

\* In a full table there is an author silent for longest.
LEMMA GuaPiuVecchio ==
  ASSUME GuaTipo, GuaOrdine, tracciati # {}
  PROVE  \E b \in tracciati : tracciati \ {b} \subseteq dopo[b]
<1> DEFINE R == StrictSubsetOrdering(tracciati)
           T == {tracciati \ dopo[b] : b \in tracciati}
<1>1. IsWellFoundedOn(R, FiniteSubsetsOf(tracciati))  BY FS_StrictSubsetOrderingWellFounded
<1>2. \A S \in SUBSET tracciati : S \in FiniteSubsetsOf(tracciati)
  BY FS_Subset DEF GuaTipo, FiniteSubsetsOf
<1>3. T \subseteq FiniteSubsetsOf(tracciati)  BY <1>2
<1>4. T # {}  OBVIOUS
<1> HIDE DEF R
<1>5. PICK m \in T : \A y \in T : ~(<<y, m>> \in R)
  <2> HIDE DEF T
  <2> QED BY <1>1, <1>3, <1>4, WFMin
<1>6. PICK b \in tracciati : m = tracciati \ dopo[b]  BY <1>5
<1>7. ASSUME NEW c \in tracciati, c # b, c \notin dopo[b]
      PROVE  FALSE
  <2>1. b \in dopo[c]  BY <1>7 DEF GuaOrdine
  <2>2. dopo[b] \subseteq dopo[c]  BY <2>1, <1>7 DEF GuaOrdine
  <2>3. b \notin dopo[b]  BY DEF GuaOrdine
  <2> DEFINE k == tracciati \ dopo[c]
  <2>4. k \in T /\ k \subseteq m /\ k # m  BY <1>6, <2>1, <2>2, <2>3
  <2>5. k \in SUBSET tracciati /\ m \in SUBSET tracciati  BY <1>6
  <2> HIDE DEF k
  <2>6. <<k, m>> \in R  BY <2>4, <2>5 DEF R, StrictSubsetOrdering
  <2> QED BY <2>4, <2>6, <1>5
<1> QED BY <1>7

\* Who is forgotten: nobody, or the one author silent for longest of a full table.
LEMMA GuaDimenticato ==
  ASSUME Gua!ChannelGuardAssumption, GuaTipo, GuaOrdine, NEW a \in Autore
  PROVE  \/ /\ Gua!Dimenticati(a) = {}
            /\ a \in tracciati \/ Cardinality(tracciati) < MaxAutori
         \/ /\ a \notin tracciati /\ Cardinality(tracciati) = MaxAutori
            /\ \E o \in tracciati : Gua!Dimenticati(a) = {o} /\ dopo[o] = tracciati \ {o}
<1> SUFFICES ASSUME a \notin tracciati, ~(Cardinality(tracciati) < MaxAutori)
             PROVE  /\ Cardinality(tracciati) = MaxAutori
                    /\ \E o \in tracciati : Gua!Dimenticati(a) = {o} /\ dopo[o] = tracciati \ {o}
  <2>1. CASE a \in tracciati \/ Cardinality(tracciati) < MaxAutori
    BY <2>1, GuaCardinalita DEF Gua!Dimenticati
  <2> QED BY <2>1
<1>1. Cardinality(tracciati) \in Nat  BY FS_CardinalityType DEF GuaTipo
<1>2. Cardinality(tracciati) = MaxAutori
  <2>1. MaxAutori \in Nat /\ Cardinality(tracciati) <= MaxAutori
    BY DEF GuaTipo, Gua!ChannelGuardAssumption
  <2> QED BY <1>1, <2>1
<1>3. tracciati # {}  BY <1>2, FS_EmptySet DEF GuaTipo, Gua!ChannelGuardAssumption
<1>4. PICK o \in tracciati : tracciati \ {o} \subseteq dopo[o]  BY <1>3, GuaPiuVecchio
<1>5. dopo[o] = tracciati \ {o}  BY <1>4 DEF GuaOrdine
<1>6. Gua!Dimenticati(a) = {b \in tracciati : tracciati \ {b} \subseteq dopo[b]}
  BY GuaCardinalita DEF Gua!Dimenticati
<1>7. ASSUME NEW b \in tracciati, tracciati \ {b} \subseteq dopo[b], b # o
      PROVE  FALSE
  <2>1. o \in dopo[b] /\ b \in dopo[o]  BY <1>4, <1>7
  <2> QED BY <2>1, <1>7 DEF GuaOrdine
<1>8. Gua!Dimenticati(a) = {o}  BY <1>4, <1>6, <1>7
<1> QED BY <1>2, <1>5, <1>8

\* Who stays in the table heard fewer than a table of authors since; who is forgotten, that many.
LEMMA GuaConta ==
  ASSUME Gua!ChannelGuardAssumption, GuaTipo, GuaOrdine, NEW a \in Autore, NEW t \in Frase, Gua!Osserva(a, t)
  PROVE  /\ IsFiniteSet(tracciati') /\ Cardinality(tracciati') <= MaxAutori /\ tracciati' \subseteq Autore
         /\ GuaOrdine'
         /\ \A b \in tracciati' : Gua!Cardinality(dopo'[b]) < MaxAutori
         /\ \A b \in tracciati \ tracciati' : Gua!Cardinality(dopo'[b]) >= MaxAutori
<1>1. /\ tracciati' = (tracciati \ Gua!Dimenticati(a)) \union {a}
      /\ dopo' = [b \in Autore |-> IF b = a \/ b \notin tracciati THEN {} ELSE dopo[b] \union {a}]
  BY DEF Gua!Osserva
<1>2. Cardinality(tracciati) \in Nat  BY FS_CardinalityType DEF GuaTipo
<1>3. /\ IsFiniteSet(tracciati') /\ Cardinality(tracciati') <= MaxAutori /\ tracciati' \subseteq Autore
      /\ GuaOrdine'
      /\ \A b \in tracciati \ tracciati' : Gua!Cardinality(dopo'[b]) >= MaxAutori
  <2>1. CASE /\ Gua!Dimenticati(a) = {}
             /\ a \in tracciati \/ Cardinality(tracciati) < MaxAutori
    <3>1. tracciati' = tracciati \union {a}  BY <1>1, <2>1
    <3>5. IsFiniteSet(tracciati') /\ Cardinality(tracciati') =
            (IF a \in tracciati THEN Cardinality(tracciati) ELSE Cardinality(tracciati) + 1)
      BY <3>1, FS_AddElement DEF GuaTipo
    <3>2. IsFiniteSet(tracciati') /\ Cardinality(tracciati') <= MaxAutori
      BY <3>5, <2>1, <1>2 DEF GuaTipo, Gua!ChannelGuardAssumption
    <3>3. tracciati' \subseteq Autore  BY <3>1 DEF GuaTipo
    <3>4. GuaOrdine'  BY <3>1, <1>1 DEF GuaOrdine, GuaTipo
    <3> QED BY <3>1, <3>2, <3>3, <3>4
  <2>2. CASE /\ a \notin tracciati /\ Cardinality(tracciati) = MaxAutori
             /\ \E o \in tracciati : Gua!Dimenticati(a) = {o} /\ dopo[o] = tracciati \ {o}
    <3>1. PICK o \in tracciati : Gua!Dimenticati(a) = {o} /\ dopo[o] = tracciati \ {o}  BY <2>2
    <3>2. tracciati' = (tracciati \ {o}) \union {a}  BY <1>1, <3>1
    <3>3. IsFiniteSet(tracciati \ {o}) /\ Cardinality(tracciati \ {o}) = MaxAutori - 1
      BY <2>2, FS_RemoveElement DEF GuaTipo
    <3>4. a \notin tracciati \ {o}  BY <2>2
    <3>12. /\ IsFiniteSet((tracciati \ {o}) \union {a})
           /\ Cardinality((tracciati \ {o}) \union {a}) = Cardinality(tracciati \ {o}) + 1
      BY <3>3, <3>4, FS_AddElement
    <3>5. IsFiniteSet(tracciati') /\ Cardinality(tracciati') = MaxAutori
      BY <3>2, <3>3, <3>12 DEF Gua!ChannelGuardAssumption
    <3>6. tracciati' \subseteq Autore  BY <3>2 DEF GuaTipo
    <3>7. \A b \in tracciati \ {o} : o \notin dopo[b]
      BY <3>1 DEF GuaOrdine
    <3>8. GuaOrdine'  BY <3>2, <3>7, <1>1, <2>2 DEF GuaOrdine, GuaTipo
    <3>9. dopo'[o] = tracciati'  BY <3>1, <3>2, <1>1, <2>2 DEF GuaTipo
    <3>10. Gua!Cardinality(dopo'[o]) >= MaxAutori
      BY <3>9, <3>5, GuaCardinalita DEF Gua!ChannelGuardAssumption
    <3>11. \A b \in tracciati \ tracciati' : b = o  BY <3>2
    <3> QED BY <3>5, <3>6, <3>8, <3>10, <3>11 DEF Gua!ChannelGuardAssumption
  <2> QED BY <2>1, <2>2, GuaDimenticato
<1>4. ASSUME NEW b \in tracciati'
      PROVE  Gua!Cardinality(dopo'[b]) < MaxAutori
  <2>1. dopo'[b] \in SUBSET (tracciati' \ {b})  BY <1>3 DEF GuaOrdine
  <2>2. IsFiniteSet(tracciati' \ {b}) /\ Cardinality(tracciati' \ {b}) = Cardinality(tracciati') - 1
    BY <1>3, FS_RemoveElement
  <2>3. Cardinality(dopo'[b]) <= Cardinality(tracciati' \ {b}) /\ IsFiniteSet(dopo'[b])
    BY <2>1, <2>2, FS_Subset
  <2>4. Cardinality(dopo'[b]) \in Nat /\ Cardinality(tracciati') \in Nat  BY <1>3, <2>3, FS_CardinalityType
  <2> QED BY <2>2, <2>3, <2>4, <1>3, GuaCardinalita DEF Gua!ChannelGuardAssumption
<1> QED BY <1>3, <1>4

\* Time: the strikes and the suspicions grow old together.
LEMMA GuaInvPassa ==
  ASSUME Gua!ChannelGuardAssumption, GuaInv, Gua!Passa
  PROVE  GuaInv'
<1> USE DEF GuaInv
<1>1. /\ \A a \in Autore : /\ autori'[a].strike = autori[a].strike
                           /\ autori'[a].eta = (IF autori[a].strike = 0 THEN 0
                                               ELSE Gua!Minimo(autori[a].eta + 1, Gua!Mai))
      /\ colpi' = [a \in Autore |-> IF colpi[a].eta < Decadimento THEN [colpi[a] EXCEPT !.eta = @ + 1]
                                    ELSE Gua!MaiColpito]
      /\ esito' = Gua!Niente /\ UNCHANGED <<tracciati, dopo, soglie>>
  BY DEF Gua!Passa
<1>2. \A a \in Autore : autori'[a].eta \in Nat
  BY <1>1 DEF Gua!Minimo, Gua!Mai, GuaTipo, Gua!ChannelGuardAssumption
<1>3. \A a \in Autore :
        /\ colpi[a].eta < Decadimento =>
             /\ colpi'[a].eta = colpi[a].eta + 1 /\ colpi'[a].serie = colpi[a].serie
             /\ colpi'[a].spinto = colpi[a].spinto
        /\ ~(colpi[a].eta < Decadimento) => colpi'[a].eta = Decadimento + 1 /\ colpi'[a].serie = 0
  BY <1>1 DEF Gua!MaiColpito, Gua!Mai, GuaTipo
<1>4. colpi' \in [Autore -> [eta : Nat, serie : Nat, spinto : BOOLEAN]]
  BY <1>1 DEF Gua!MaiColpito, Gua!Mai, GuaTipo, Gua!ChannelGuardAssumption
<1>5. GuaTipo'  BY <1>1, <1>2, <1>4 DEF GuaTipo
<1>6. GuaOrdine'  BY <1>1 DEF GuaOrdine
<1>7. \A a \in Autore : GuaStrike(a)'
  BY <1>1, <1>3 DEF GuaStrike, GuaTipo, Gua!Minimo, Gua!Mai, Gua!ChannelGuardAssumption
<1>8. GuaEsito'
  BY <1>1 DEF Gua!Niente, GuaEsito, Gua!PunitoSoloRecidivo, Gua!RecidivoFermato
<1> QED BY <1>5, <1>6, <1>7, <1>8

\* A message: its author, and everybody else.
LEMMA GuaInvOsserva ==
  ASSUME Gua!ChannelGuardAssumption, GuaInv, NEW a \in Autore, NEW t \in Frase, Gua!Osserva(a, t)
  PROVE  GuaInv'
<1> USE DEF GuaInv
<1>1. PICK sosp \in BOOLEAN : 
        sosp = (Gua!Sospetto(t, autori[a].storia)
                \/ Gua!Len(Gua!Recenti(autori[a].tempi, soglie.finestra)) + 1 > soglie.raffica)
  OBVIOUS
<1> DEFINE valido == IF autori[a].eta > Decadimento THEN 0 ELSE autori[a].strike
           strike == IF sosp THEN Gua!Minimo(valido + 1, BandoMassimo) ELSE autori[a].strike
           eta == IF sosp THEN 0 ELSE autori[a].eta
<1>2. /\ autori' = [b \in Autore |-> IF b = a THEN Gua!Dopo(autori[a], t, sosp)
                                   ELSE IF b \in Gua!Dimenticati(a) THEN Gua!Ignoto ELSE autori[b]]
      /\ tracciati' = (tracciati \ Gua!Dimenticati(a)) \union {a}
      /\ esito' = [su |-> {a}, spam |-> sosp,
                   azione |-> IF sosp THEN Gua!Azione(Gua!Dopo(autori[a], t, sosp).strike) ELSE "nessuna"]
      /\ colpi' = [b \in Autore |->
           IF b = a THEN IF sosp THEN Gua!Colpito(colpi[a]) ELSE colpi[a]
           ELSE IF colpi[b].eta = Gua!Mai THEN colpi[b]
           ELSE [colpi[b] EXCEPT !.spinto = @ \/ Gua!Cardinality(dopo'[b]) >= MaxAutori]]
      /\ dopo' = [b \in Autore |-> IF b = a \/ b \notin tracciati THEN {} ELSE dopo[b] \union {a}]
      /\ soglie' = soglie
  BY <1>1 DEF Gua!Osserva
<1>3. Gua!Dopo(autori[a], t, sosp).strike = strike /\ Gua!Dopo(autori[a], t, sosp).eta = eta
  BY DEF Gua!Dopo, Gua!StrikeValidi
<1>4. /\ autori'[a].strike = strike /\ autori'[a].eta = eta
      /\ esito'.su = {a} /\ esito'.spam = sosp
      /\ esito'.azione = (IF sosp THEN Gua!Azione(strike) ELSE "nessuna")
  BY <1>2, <1>3
<1>5. /\ \A b \in Autore \ {a} : b \in Gua!Dimenticati(a) => autori'[b].strike = 0 /\ autori'[b].eta = 0
      /\ \A b \in Autore \ {a} : b \notin Gua!Dimenticati(a) =>
           autori'[b].strike = autori[b].strike /\ autori'[b].eta = autori[b].eta
  BY <1>2 DEF Gua!Ignoto
<1>6. /\ sosp => colpi'[a] = [eta |-> 0, spinto |-> FALSE,
                               serie |-> IF colpi[a].spinto THEN 1
                                         ELSE Gua!Minimo(colpi[a].serie + 1, BandoMassimo)]
      /\ ~sosp => colpi'[a] = colpi[a]
  BY <1>2 DEF Gua!Colpito
<1>7. \A b \in Autore \ {a} :
        /\ colpi'[b].eta = colpi[b].eta /\ colpi'[b].serie = colpi[b].serie
        /\ colpi[b].eta = Gua!Mai => colpi'[b].spinto = colpi[b].spinto
        /\ colpi[b].eta # Gua!Mai => (colpi'[b].spinto <=> (colpi[b].spinto \/ Gua!Cardinality(dopo'[b]) >= MaxAutori))
  BY <1>2 DEF GuaTipo
<1>8. /\ IsFiniteSet(tracciati') /\ Cardinality(tracciati') <= MaxAutori /\ tracciati' \subseteq Autore
      /\ GuaOrdine'
      /\ \A b \in tracciati' : Gua!Cardinality(dopo'[b]) < MaxAutori
      /\ \A b \in tracciati \ tracciati' : Gua!Cardinality(dopo'[b]) >= MaxAutori
  BY GuaConta
<1>9. valido \in Nat /\ strike \in Nat /\ eta \in Nat
  BY DEF GuaTipo, Gua!Minimo, Gua!ChannelGuardAssumption
<1>10. /\ colpi[a].spinto => valido = 0
       /\ ~colpi[a].spinto => valido = colpi[a].serie
  BY DEF GuaStrike, GuaTipo, Gua!ChannelGuardAssumption
<1>11. sosp => colpi'[a].serie = strike /\ strike >= 1
  <2>1. BandoMassimo \in Nat \ {0}
    BY DEF GuaTipo, Gua!ChannelGuardAssumption
  <2> QED BY <1>6, <1>10, <2>1 DEF Gua!Minimo, GuaTipo
<1>12. /\ sosp => eta = 0
       /\ ~sosp => eta = autori[a].eta /\ strike = autori[a].strike
  OBVIOUS
<1> HIDE DEF strike, eta, valido
<1>13. GuaTipo'
  <2>1. \A b \in Autore : autori'[b].strike \in Nat /\ autori'[b].eta \in Nat
    BY <1>4, <1>5, <1>9 DEF GuaTipo
  <2>2. dopo' \in [Autore -> SUBSET Autore]  BY <1>2 DEF GuaTipo
  <2>3. colpi' \in [Autore -> [eta : Nat, serie : Nat, spinto : BOOLEAN]]
    <3>1. colpi'[a] \in [eta : Nat, serie : Nat, spinto : BOOLEAN]
      <4>1. PICK c \in [eta : Nat, serie : Nat, spinto : BOOLEAN] : colpi[a] = c
        BY DEF GuaTipo
      <4>3. CASE ~sosp  BY <4>1, <4>3, <1>6
      <4>4. CASE sosp
        <5>1. PICK q : colpi'[a] = [eta |-> 0, spinto |-> FALSE, serie |-> q]  BY <4>4, <1>6
        <5>2. q \in Nat  BY <4>4, <5>1, <1>9, <1>11
        <5> QED BY <5>1, <5>2
      <4> QED BY <4>3, <4>4
    <3>2. ASSUME NEW b \in Autore \ {a}
          PROVE  colpi'[b] \in [eta : Nat, serie : Nat, spinto : BOOLEAN]
      BY <1>2 DEF GuaTipo
    <3> QED BY <1>2, <3>1, <3>2
  <2> QED BY <1>2, <1>8, <2>1, <2>2, <2>3 DEF GuaTipo
<1>14. GuaStrike(a)'
  <2>1. CASE sosp
    <3>1. a \in tracciati'  BY <1>2
    <3>2. colpi'[a].eta = 0 /\ colpi'[a].serie = strike /\ ~colpi'[a].spinto
      BY <2>1, <1>6, <1>11
    <3>3. autori'[a].strike = strike /\ autori'[a].eta = 0 /\ strike \in Nat /\ strike >= 1
      BY <2>1, <1>4, <1>9, <1>11, <1>12
    <3> QED BY <3>1, <3>2, <3>3 DEF GuaStrike, Gua!ChannelGuardAssumption
  <2>2. CASE ~sosp
    BY <2>2, <1>2, <1>4, <1>6, <1>12 DEF GuaStrike
  <2> QED BY <2>1, <2>2
<1>15. ASSUME NEW b \in Autore \ {a}
       PROVE  GuaStrike(b)'
  <2>1. colpi'[b].eta = colpi[b].eta /\ colpi'[b].serie = colpi[b].serie
    BY <1>7
  <2>2. GuaStrike(b)  BY DEF GuaInv
  <2>3. CASE b \in tracciati'
    <3>1. b \in tracciati /\ b \notin Gua!Dimenticati(a)  BY <1>2, <2>3
    <3>2. autori'[b].strike = autori[b].strike /\ autori'[b].eta = autori[b].eta  BY <1>5, <3>1
    <3>3. Gua!Cardinality(dopo'[b]) < MaxAutori  BY <1>8, <2>3
    <3>4. ~(Gua!Cardinality(dopo'[b]) >= MaxAutori)
      <4>1. Cardinality(dopo'[b]) \in Nat
        <5>1. dopo'[b] \in SUBSET tracciati'  BY <1>8, <2>3 DEF GuaOrdine
        <5> QED BY <5>1, <1>8, FS_Subset, FS_CardinalityType
      <4> QED BY <4>1, <3>3, GuaCardinalita DEF Gua!ChannelGuardAssumption
    <3>5. colpi'[b].spinto = colpi[b].spinto
      <4>1. colpi'[b].spinto <=> colpi[b].spinto  BY <1>7, <3>4
      <4>2. colpi'[b].spinto \in BOOLEAN /\ colpi[b].spinto \in BOOLEAN  BY <1>13 DEF GuaTipo
      <4> QED BY <4>1, <4>2
    <3> QED BY <2>1, <2>2, <2>3, <3>1, <3>2, <3>5 DEF GuaStrike
  <2>4. CASE b \in tracciati \ tracciati'
    <3>1. b \in Gua!Dimenticati(a)  BY <1>2, <2>4
    <3>2. autori'[b].strike = 0  BY <1>5, <3>1
    <3>3. Gua!Cardinality(dopo'[b]) >= MaxAutori  BY <1>8, <2>4
    <3>4. colpi[b].eta <= Decadimento => colpi[b].eta # Gua!Mai  BY DEF Gua!Mai, Gua!ChannelGuardAssumption
    <3>5. colpi'[b].eta <= Decadimento => colpi'[b].spinto  BY <1>7, <2>1, <3>3, <3>4
    <3> QED BY <2>1, <2>2, <3>2, <3>5 DEF GuaStrike
  <2>5. CASE b \notin tracciati /\ b \notin tracciati'
    <3>1. autori[b].strike = 0 /\ autori'[b].strike = 0
      BY <2>2, <2>5, <1>5 DEF GuaStrike
    <3>2. colpi[b].eta <= Decadimento => colpi[b].spinto  BY <2>2, <3>1 DEF GuaStrike
    <3>3. colpi[b].spinto => colpi'[b].spinto  BY <1>7
    <3> QED BY <2>1, <3>1, <3>2, <3>3 DEF GuaStrike
  <2> QED BY <2>3, <2>4, <2>5
<1>16. GuaEsito'
  <2>1. CASE ~sosp
    BY <2>1, <1>4 DEF GuaEsito, Gua!PunitoSoloRecidivo, Gua!RecidivoFermato
  <2>2. CASE sosp
    <3>1. esito'.su = {a} /\ esito'.spam /\ esito'.azione = Gua!Azione(strike)  BY <2>2, <1>4
    <3>2. /\ Gua!Azione(strike) # "nessuna" <=> strike >= soglie.muto
          /\ Gua!Azione(strike) = "ban" <=> strike >= soglie.bando
      BY <1>9 DEF Gua!Azione, Gua!ChannelGuardAssumption, GuaTipo
    <3>3. colpi'[a].serie = strike /\ soglie' = soglie  BY <2>2, <1>2, <1>11
    <3> QED BY <3>1, <3>2, <3>3 DEF GuaEsito, Gua!PunitoSoloRecidivo, Gua!RecidivoFermato
  <2> QED BY <2>1, <2>2
<1> QED BY <1>8, <1>13, <1>14, <1>15, <1>16

LEMMA GuaInvPasso ==
  ASSUME Gua!ChannelGuardAssumption, GuaInv, [Gua!Next]_(Gua!vars)
  PROVE  GuaInv'
<1>1. CASE UNCHANGED Gua!vars
  BY <1>1 DEF Gua!vars, GuaInv, GuaTipo, GuaOrdine, GuaStrike, GuaEsito, Gua!PunitoSoloRecidivo,
              Gua!RecidivoFermato
<1>2. CASE Gua!Next
  <2>1. ASSUME NEW s \in Soglie, Gua!Riconfigura(s) PROVE GuaInv'
    BY <2>1 DEF Gua!Riconfigura, Gua!Niente, GuaInv, GuaTipo, GuaOrdine, GuaStrike, GuaEsito,
                Gua!PunitoSoloRecidivo, Gua!RecidivoFermato
  <2> QED BY <1>2, <2>1, GuaInvPassa, GuaInvOsserva DEF Gua!Next
<1> QED BY <1>1, <1>2

\* Who is silenced has been suspected as many times in a row as the thresholds in force ask
\* for, and who is banned as many as a ban does, with any thresholds and changes of them
\* (shared/channel.py).
THEOREM PunitoChiRicade == Gua!ChannelGuardAssumption => (Gua!Spec => []Gua!PunitoSoloRecidivo)
<1> SUFFICES ASSUME Gua!ChannelGuardAssumption PROVE Gua!Spec => []Gua!PunitoSoloRecidivo
  OBVIOUS
<1>1. GuaInv => Gua!PunitoSoloRecidivo  BY DEF GuaInv, GuaEsito
<1> QED BY <1>1, GuaInvIniziale, GuaInvPasso, PTL DEF Gua!Spec

\* "Cambiare le soglie non deve graziare chi era gia' a due strike" (shared/channel.py): who
\* has been suspected that many times in a row is acted upon, unless as many authors as the
\* table holds have spoken between two of its messages.
THEOREM FermatoChiRicade == Gua!ChannelGuardAssumption => (Gua!Spec => []Gua!RecidivoFermato)
<1> SUFFICES ASSUME Gua!ChannelGuardAssumption PROVE Gua!Spec => []Gua!RecidivoFermato
  OBVIOUS
<1>1. GuaInv => Gua!RecidivoFermato  BY DEF GuaInv, GuaEsito
<1> QED BY <1>1, GuaInvIniziale, GuaInvPasso, PTL DEF Gua!Spec

-----------------------------------------------------------------------------
(* The facts of a room: ChannelFacts. *)

FatTipo ==
  /\ visto \in [Fat!Fatto -> Nat] /\ ricordo \in [Fat!Fatto -> Nat]
  /\ chiamate \in [Richiesta -> [fase : {"libera", "onda", "scrive"}, fatto : Fat!Fatto]]

\* the request r is about to write the fact f
FatScrive(r, f) == chiamate[r].fase = "scrive" /\ chiamate[r].fatto = f

\* Who is about to write a fact is alone, the mark of the fact stands, and no entry was
\* written since.
FatSolo ==
  \A r \in Richiesta, f \in Fat!Fatto : FatScrive(r, f) =>
    /\ ricordo[f] = 0 /\ visto[f] < Finestra
    /\ \A s \in Richiesta : FatScrive(s, f) => s = r

FatInv == FatTipo /\ FatSolo /\ Fat!UnaRigaPerFinestra

LEMMA FatInvIniziale ==
  ASSUME Fat!ChannelFactsAssumption, Fat!Init
  PROVE  FatInv
BY DEF Fat!ChannelFactsAssumption, Fat!Init, Fat!Fatto, Fat!Mai, FatInv, FatTipo, FatSolo, FatScrive,
       Fat!UnaRigaPerFinestra

\* should_remember: the mark is set before the entry is written.
LEMMA FatInvRicorda ==
  ASSUME Fat!ChannelFactsAssumption, FatInv, NEW r \in Richiesta, NEW f \in Fat!Fatto,
         chiamate[r].fase # "scrive", Fat!Ricorda(r, f)
  PROVE  FatInv'
<1> USE DEF FatInv
<1>1. CASE visto[f] >= Finestra
  <2>1. /\ visto' = [visto EXCEPT ![f] = 0] /\ ricordo' = [ricordo EXCEPT ![f] = 0]
        /\ chiamate' = [chiamate EXCEPT ![r] = [fase |-> "scrive", fatto |-> f]]
    BY <1>1 DEF Fat!Ricorda, Fat!Va
  <2>2. FatTipo'  BY <2>1 DEF FatTipo
  <2>3. \A s \in Richiesta : ~FatScrive(s, f)
    BY <1>1 DEF FatSolo, FatTipo, Fat!ChannelFactsAssumption
  <2>4. \A s \in Richiesta, g \in Fat!Fatto : FatScrive(s, g)' => (s = r /\ g = f) \/ (s # r /\ g # f /\ FatScrive(s, g))
    BY <2>1, <2>3 DEF FatTipo, FatScrive
  <2>5. FatSolo'
    BY <2>1, <2>4 DEF FatSolo, FatTipo, Fat!ChannelFactsAssumption
  <2>6. Fat!UnaRigaPerFinestra'
    BY <2>1 DEF Fat!UnaRigaPerFinestra, FatTipo
  <2> QED BY <2>2, <2>5, <2>6
<1>2. CASE ~(visto[f] >= Finestra)
  <2>1. /\ UNCHANGED <<visto, ricordo>>
        /\ chiamate' = [chiamate EXCEPT ![r] = [fase |-> Fat!Dopo(f), fatto |-> f]]
    BY <1>2 DEF Fat!Ricorda, Fat!Va
  <2>2. Fat!Dopo(f) \in {"libera", "onda"}  BY DEF Fat!Dopo
  <2>3. FatTipo'  BY <2>1, <2>2 DEF FatTipo
  <2>4. \A s \in Richiesta, g \in Fat!Fatto : FatScrive(s, g)' => FatScrive(s, g)
    BY <2>1, <2>2 DEF FatTipo, FatScrive
  <2>5. FatSolo'  BY <2>1, <2>4 DEF FatSolo
  <2> QED BY <2>1, <2>3, <2>5 DEF Fat!UnaRigaPerFinestra
<1> QED BY <1>1, <1>2

\* A request that ends a step without writing.
LEMMA FatInvVa ==
  ASSUME FatInv, NEW r \in Richiesta, NEW f \in Fat!Fatto, NEW p \in {"libera", "onda"},
         Fat!Va(r, p, f), UNCHANGED <<visto, ricordo>>
  PROVE  FatInv'
<1> USE DEF FatInv
<1>1. chiamate' = [chiamate EXCEPT ![r] = [fase |-> p, fatto |-> f]]  BY DEF Fat!Va
<1>2. FatTipo'  BY <1>1 DEF FatTipo
<1>3. \A s \in Richiesta, g \in Fat!Fatto : FatScrive(s, g)' => FatScrive(s, g)
  BY <1>1 DEF FatTipo, FatScrive
<1>4. FatSolo'  BY <1>3 DEF FatSolo
<1> QED BY <1>2, <1>4 DEF Fat!UnaRigaPerFinestra

LEMMA FatInvScrive ==
  ASSUME FatInv, NEW r \in Richiesta, NEW b \in BOOLEAN, Fat!Scrive(r, b)
  PROVE  FatInv'
<1> USE DEF FatInv
<1>1. PICK f \in Fat!Fatto : f = chiamate[r].fatto  BY DEF FatTipo
<1>2. FatScrive(r, f)  BY <1>1 DEF Fat!Scrive, FatScrive
<1>3. /\ UNCHANGED visto
      /\ ricordo' = IF b THEN [ricordo EXCEPT ![f] = IF ricordo[f] < 2 THEN ricordo[f] + 1 ELSE 2] ELSE ricordo
      /\ chiamate' = [chiamate EXCEPT ![r] = [fase |-> Fat!Dopo(f), fatto |-> f]]
  BY <1>1 DEF Fat!Scrive, Fat!Va
<1>4. Fat!Dopo(f) \in {"libera", "onda"}  BY DEF Fat!Dopo
<1>5. FatTipo'
  <2>1. ricordo' \in [Fat!Fatto -> Nat]  BY <1>3 DEF FatTipo
  <2>2. chiamate' \in [Richiesta -> [fase : {"libera", "onda", "scrive"}, fatto : Fat!Fatto]]
    BY <1>3, <1>4 DEF FatTipo
  <2> QED BY <1>3, <2>1, <2>2 DEF FatTipo
<1>6. ricordo[f] = 0 /\ \A s \in Richiesta : FatScrive(s, f) => s = r  BY <1>2 DEF FatSolo
<1>7. \A s \in Richiesta, g \in Fat!Fatto : FatScrive(s, g)' => FatScrive(s, g) /\ g # f
  BY <1>3, <1>4, <1>6 DEF FatTipo, FatScrive
<1>8. \A g \in Fat!Fatto : g # f => ricordo'[g] = ricordo[g]  BY <1>3 DEF FatTipo
<1>9. FatSolo'  BY <1>3, <1>7, <1>8 DEF FatSolo
<1>10. ricordo'[f] <= 1  BY <1>3, <1>6 DEF FatTipo
<1> QED BY <1>5, <1>8, <1>9, <1>10 DEF Fat!UnaRigaPerFinestra

LEMMA FatInvPassa ==
  ASSUME Fat!ChannelFactsAssumption, FatInv, Fat!Passa
  PROVE  FatInv'
<1> USE DEF FatInv
<1>1. /\ \A r \in Richiesta : chiamate[r].fase = "scrive" => visto[chiamate[r].fatto] < Finestra - 1
      /\ visto' = [f \in Fat!Fatto |-> Fat!Piu(visto[f])] /\ UNCHANGED <<ricordo, chiamate>>
  BY DEF Fat!Passa
<1>2. \A f \in Fat!Fatto : visto'[f] \in Nat /\ visto'[f] <= visto[f] + 1
  BY <1>1 DEF Fat!Piu, Fat!Mai, FatTipo, Fat!ChannelFactsAssumption
<1>3. FatTipo'  BY <1>1, <1>2 DEF FatTipo
<1>4. FatSolo'
  BY <1>1, <1>2 DEF FatSolo, FatScrive, FatTipo, Fat!ChannelFactsAssumption
<1> QED BY <1>1, <1>3, <1>4 DEF Fat!UnaRigaPerFinestra

LEMMA FatInvPasso ==
  ASSUME Fat!ChannelFactsAssumption, FatInv, [Fat!Next]_(Fat!vars)
  PROVE  FatInv'
<1> USE DEF FatInv
<1>0. \A f \in Fat!Fatto : Fat!Dopo(f) \in {"libera", "onda"}  BY DEF Fat!Dopo
<1>1. CASE UNCHANGED Fat!vars
  BY <1>1 DEF Fat!vars, FatTipo, FatSolo, FatScrive, Fat!UnaRigaPerFinestra
<1>2. CASE Fat!Riavvia
  BY <1>2 DEF Fat!Riavvia, FatTipo, FatSolo, FatScrive, Fat!UnaRigaPerFinestra, Fat!Fatto, Fat!Mai,
              Fat!ChannelFactsAssumption
<1>3. CASE Fat!Passa  BY <1>3, FatInvPassa
<1>4. ASSUME NEW r \in Richiesta, Fat!Tip(r) \/ Fat!Moderato(r)
      PROVE  FatInv'
  BY <1>4, FatInvRicorda DEF Fat!Tip, Fat!Moderato, Fat!Fatto
<1>5. ASSUME NEW r \in Richiesta, Fat!Guarda(r)
      PROVE  FatInv'
  <2>1. CASE Fat!Ondata
    BY <1>5, <2>1, FatInvRicorda DEF Fat!Guarda, Fat!Fatto
  <2>2. CASE ~Fat!Ondata
    BY <1>5, <2>2, FatInvVa DEF Fat!Guarda, Fat!Fatto
  <2> QED BY <2>1, <2>2
<1>6. ASSUME NEW r \in Richiesta, NEW b \in BOOLEAN, Fat!Messaggio(r, b)
      PROVE  FatInv'
  BY <1>6, FatInvVa DEF Fat!Messaggio, Fat!Fatto
<1>7. ASSUME NEW r \in Richiesta, NEW b \in BOOLEAN, Fat!Scrive(r, b)
      PROVE  FatInv'
  BY <1>7, FatInvScrive
<1> QED BY <1>1, <1>2, <1>3, <1>4, <1>5, <1>6, <1>7 DEF Fat!Next

\* "una riga, non cento" (cp/canali.py): however many requests see the same wave together,
\* a fact is written at most once for each mark.
THEOREM UnaRigaSola == Fat!ChannelFactsAssumption => (Fat!Spec => []Fat!UnaRigaPerFinestra)
<1> SUFFICES ASSUME Fat!ChannelFactsAssumption PROVE Fat!Spec => []Fat!UnaRigaPerFinestra
  OBVIOUS
<1>1. Fat!Init => FatInv  BY FatInvIniziale
<1>2. FatInv /\ [Fat!Next]_(Fat!vars) => FatInv'  BY FatInvPasso
<1>3. FatInv => Fat!UnaRigaPerFinestra  BY DEF FatInv
<1> QED BY <1>1, <1>2, <1>3, PTL DEF Fat!Spec

-----------------------------------------------------------------------------
(* Proofs: UnaRispostaSola and ContatoUnaVolta, whatever the number of messages, *)
(* generations and restarts, with or without the webhook.                        *)

DmFrasi == [chi : {"lei", "noi"}, m : Dm!Messaggi, tipo : {"testo", "si"}]
DmVoci == [m : 0..MaxMessaggi, stato : Dm!Stati, tentativi : 0..MaxTentativi,
         pronta : BOOLEAN, vecchia : BOOLEAN]
DmFasi == {"no", "genera", "manda", "chiede", "mandata", "fallita"}

DmTipi ==
  /\ conv \in Seq(DmFrasi) /\ visti \subseteq Dm!Messaggi /\ posta \in Seq(Dm!Messaggi)
  /\ entrata \subseteq {"web", "poll"} \X Dm!Messaggi
  /\ persona \in [messaggi : 0..Soglia, consenso : {"mai", "asked", "granted"}]
  /\ coda \in DmVoci /\ disco = coda
  /\ coda.m = 0 <=> coda.stato = "nessuno"
  /\ coda.stato \in {"queued", "retry", "generating"} => coda.tentativi < MaxTentativi
  /\ operai \in [Dm!Messaggi -> DmFasi] /\ contati \in [Dm!Messaggi -> 0..2] /\ riavvii \in Nat

\* The conversation: messages 1..k are there, and after our last answer, at u, comes
\* nothing but the last of them, in order.
DmDialogo(u, k) ==
  /\ k \in 0..MaxMessaggi /\ u \in 0..Len(conv) /\ Dm!Scritti = 1..k /\ Len(conv) - u <= k
  /\ u # 0 => conv[u].chi = "noi"
  /\ \A i \in (u + 1)..Len(conv) : conv[i].chi = "lei" /\ conv[i].m = k - Len(conv) + i
DmConversazione == \E u \in 0..Len(conv), k \in 0..MaxMessaggi : DmDialogo(u, k)

DmNostre(m) == {i \in 1..Len(conv) : conv[i].chi = "noi" /\ conv[i].m = m}

\* What is on its way into the outbox was written; the poll reads nothing else.
DmProvenienza ==
  /\ \A e \in entrata : e[2] \in Dm!Scritti /\ e[2] \in visti
  /\ \A d, e \in entrata : d[2] = e[2] => d = e
  /\ \A i \in 1..Len(posta) : posta[i] \in Dm!Scritti
  /\ Len(posta) <= MaxMessaggi
  /\ coda.m \in {0} \union Dm!Scritti
  /\ \A m \in Dm!Messaggi : operai[m] # "no" \/ DmNostre(m) # {} => m \in Dm!Scritti

DmContato == \A m \in Dm!Messaggi : contati[m] <= 1 /\ (m \notin visti => contati[m] = 0)

\* Who is writing the answer to the item finds it still to be answered.
DmLavoro ==
  \A m \in Dm!Messaggi : coda.m = m /\ operai[m] = "genera" =>
    coda.stato \in {"queued", "retry", "generating"}

\* A message nobody has begun to answer.
DmIntatto(m) == DmNostre(m) = {} /\ operai[m] = "no"
\* One that may still be put in the outbox.
DmNuovo(m) == m \notin visti \/ \E e \in entrata : e[2] = m

\* The item and the worker of a message agree, and while an answer may still be
\* sent none has been.
DmTurno(m) ==
  /\ operai[m] \in {"genera", "manda", "chiede"} => DmNostre(m) = {}
  /\ coda.m = m =>
       /\ coda.stato \in {"queued", "retry"} => DmIntatto(m)
       /\ coda.stato = "generating" <=> operai[m] = "genera"
       /\ coda.stato = "sending" <=> operai[m] \in {"manda", "chiede", "mandata", "fallita"}
  /\ coda.m # m /\ DmNuovo(m) => DmIntatto(m)
  /\ coda.m = 0 => DmIntatto(m)
  /\ riavvii = 0 /\ DmNuovo(m) => coda.m # m
  /\ \A i, j \in DmNostre(m) : i = j

\* One process, or a contact who has written no second message.
DmSemplice == riavvii = 0 \/ Dm!Scritti \subseteq {1}

DmInv == DmConversazione /\ DmProvenienza /\ DmContato /\ DmLavoro /\ (DmSemplice => \A m \in Dm!Messaggi : DmTurno(m))
DmIInv == DmTipi /\ DmInv

LEMMA DmAggiunta ==
  ASSUME NEW s \in Seq(DmFrasi), NEW e \in DmFrasi
  PROVE  /\ Append(s, e) \in Seq(DmFrasi) /\ Len(Append(s, e)) = Len(s) + 1
         /\ \A i \in 1..Len(s) : Append(s, e)[i] = s[i]
         /\ Append(s, e)[Len(s) + 1] = e
OBVIOUS

\* What a new line of the conversation adds to the messages and to our answers.
LEMMA DmRiga ==
  ASSUME DmIInv, NEW e \in DmFrasi, conv' = Append(conv, e)
  PROVE  /\ Dm!Scritti' = Dm!Scritti \union (IF e.chi = "lei" THEN {e.m} ELSE {})
         /\ \A m \in Dm!Messaggi :
              DmNostre(m)' = DmNostre(m) \union (IF e.chi = "noi" /\ e.m = m THEN {Len(conv) + 1} ELSE {})
<1>0. conv \in Seq(DmFrasi) /\ Len(conv) \in Nat
  BY DEF DmIInv, DmTipi
<1>1. /\ Len(conv') = Len(conv) + 1 /\ conv'[Len(conv) + 1] = e
      /\ \A i \in 1..Len(conv) : conv'[i] = conv[i]
  BY <1>0, DmAggiunta
<1>2. 1..Len(conv') = (1..Len(conv)) \union {Len(conv) + 1}
  BY <1>0, <1>1
<1>3. Dm!Scritti' = Dm!Scritti \union (IF e.chi = "lei" THEN {e.m} ELSE {})
  <2>1. ASSUME NEW x \in Dm!Scritti' PROVE x \in Dm!Scritti \union (IF e.chi = "lei" THEN {e.m} ELSE {})
    <3>1. PICK i \in 1..Len(conv') : conv'[i].chi = "lei" /\ x = conv'[i].m
      BY DEF Dm!Scritti
    <3> QED BY <1>0, <1>1, <1>2, <3>1 DEF Dm!Scritti
  <2>2. ASSUME NEW x \in Dm!Scritti PROVE x \in Dm!Scritti'
    <3>1. PICK i \in 1..Len(conv) : conv[i].chi = "lei" /\ x = conv[i].m
      BY DEF Dm!Scritti
    <3> QED BY <1>0, <1>1, <1>2, <3>1 DEF Dm!Scritti
  <2>3. e.chi = "lei" => e.m \in Dm!Scritti'
    <3> SUFFICES ASSUME e.chi = "lei" PROVE e.m \in Dm!Scritti'
      OBVIOUS
    <3>1. Len(conv) + 1 \in 1..Len(conv')
      BY <1>0, <1>1
    <3> QED BY <1>1, <3>1 DEF Dm!Scritti
  <2> QED BY <2>1, <2>2, <2>3
<1>4. ASSUME NEW m \in Dm!Messaggi
      PROVE DmNostre(m)' = DmNostre(m) \union (IF e.chi = "noi" /\ e.m = m THEN {Len(conv) + 1} ELSE {})
  BY <1>0, <1>1, <1>2 DEF DmNostre
<1> QED BY <1>3, <1>4

LEMMA DmCardinalita == \A S : Dm!Cardinality(S) = Cardinality(S)
BY DEF Dm!Cardinality, Cardinality

LEMMA DmQuanti ==
  ASSUME DmIInv, NEW u \in Nat, NEW k \in Nat, DmDialogo(u, k)
  PROVE  Dm!Ultimo = k
BY DmCardinalita, FS_Interval DEF DmDialogo, Dm!Ultimo

\* The poll reads the messages that have come since our last answer.
LEMMA DmArrivo ==
  ASSUME Dm!InstagramDmAssumption, DmIInv
  PROVE  /\ Dm!InArrivo \in Seq(Dm!Messaggi) /\ Len(Dm!InArrivo) <= MaxMessaggi
         /\ \A i \in 1..Len(Dm!InArrivo) : Dm!InArrivo[i] \in Dm!Scritti
<1>1. PICK u \in 0..Len(conv), k \in 0..MaxMessaggi : DmDialogo(u, k)
  BY DEF DmIInv, DmInv, DmConversazione
<1>2. conv \in Seq(DmFrasi) /\ Len(conv) \in Nat /\ MaxMessaggi \in Nat
  BY DEF DmIInv, DmTipi, Dm!InstagramDmAssumption
<1> DEFINE nostre == {i \in 1..Len(conv) : conv[i].chi = "noi"}
           ultima == IF nostre = {} THEN 0 ELSE CHOOSE i \in nostre : \A j \in nostre : j <= i
<1>3. ultima = u
  <2>1. \A i \in nostre : i <= u
    BY <1>1, <1>2 DEF DmDialogo
  <2>2. CASE nostre = {}
    BY <1>1, <1>2, <2>2 DEF DmDialogo
  <2>3. CASE nostre # {}
    <3>1. u \in nostre
      BY <1>1, <1>2, <2>1, <2>3 DEF DmDialogo
    <3>2. \A i \in nostre : (\A j \in nostre : j <= i) => i = u
      BY <2>1, <3>1, <1>2
    <3> HIDE DEF nostre
    <3> QED BY <2>1, <2>3, <3>1, <3>2
  <2> QED BY <2>2, <2>3
<1>4. Dm!InArrivo = [i \in 1..(Len(conv) - u) |-> conv[u + i].m]
  <2>1. Dm!InArrivo = [i \in 1..(Len(conv) - ultima) |-> conv[ultima + i].m]
    BY Zenon DEF Dm!InArrivo
  <2> HIDE DEF nostre, ultima
  <2> QED BY <1>3, <2>1
<1>5. ASSUME NEW i \in 1..(Len(conv) - u)
      PROVE  conv[u + i].m \in Dm!Messaggi /\ conv[u + i].m \in Dm!Scritti
  <2>1. u + i \in (u + 1)..Len(conv) /\ u + i \in 1..Len(conv)
    BY <1>1, <1>2
  <2>2. conv[u + i].chi = "lei" /\ conv[u + i] \in DmFrasi
    BY <1>1, <1>2, <2>1 DEF DmDialogo
  <2> QED BY <2>1, <2>2 DEF Dm!Scritti, DmFrasi
<1>6. Len(conv) - u \in Nat /\ Len(conv) - u <= MaxMessaggi
  BY <1>1, <1>2 DEF DmDialogo
<1> HIDE DEF nostre, ultima
<1>7. Dm!InArrivo \in Seq(Dm!Messaggi) /\ Len(Dm!InArrivo) = Len(conv) - u
  <2>1. Dm!InArrivo \in [1..(Len(conv) - u) -> Dm!Messaggi]
    BY <1>4, <1>5
  <2> QED BY <1>6, <2>1
<1> QED BY <1>4, <1>5, <1>6, <1>7

LEMMA DmInvIniziale == Dm!InstagramDmAssumption /\ Dm!Init => DmIInv
<1> SUFFICES ASSUME Dm!InstagramDmAssumption, Dm!Init PROVE DmIInv
  OBVIOUS
<1>1. DmTipi
  BY DEF Dm!Init, DmTipi, Dm!InstagramDmAssumption, Dm!Nulla, DmVoci, Dm!Stati, DmFasi, Dm!Messaggi
<1>2. Dm!Scritti = {} /\ \A m \in Dm!Messaggi : DmNostre(m) = {}
  BY DEF Dm!Init, Dm!Scritti, DmNostre
<1>3. DmConversazione
  <2>1. DmDialogo(0, 0)
    BY <1>2 DEF Dm!Init, DmDialogo, Dm!InstagramDmAssumption
  <2> QED BY <2>1 DEF DmConversazione, Dm!InstagramDmAssumption, Dm!Init
<1>4. DmProvenienza /\ DmContato /\ DmLavoro
  BY <1>2 DEF Dm!Init, DmProvenienza, DmContato, DmLavoro, Dm!Nulla, Dm!InstagramDmAssumption, Dm!Messaggi
<1>5. ASSUME NEW m \in Dm!Messaggi PROVE DmTurno(m)
  BY <1>2 DEF Dm!Init, DmTurno, DmIntatto, Dm!Nulla, Dm!Messaggi
<1> QED BY <1>1, <1>3, <1>4, <1>5 DEF DmIInv, DmInv

LEMMA DmSilenzio ==
  ASSUME DmIInv, conv' = conv
  PROVE  /\ DmConversazione' /\ Dm!Scritti' = Dm!Scritti /\ \A m \in Dm!Messaggi : DmNostre(m)' = DmNostre(m)
<1>1. Dm!Scritti' = Dm!Scritti /\ \A m \in Dm!Messaggi : DmNostre(m)' = DmNostre(m)
  BY DEF Dm!Scritti, DmNostre
<1>2. DmConversazione'
  BY <1>1 DEF DmIInv, DmInv, DmConversazione, DmDialogo
<1> QED BY <1>1, <1>2

LEMMA DmPassoScrive ==
  ASSUME Dm!InstagramDmAssumption, DmIInv, NEW t \in {"testo", "si"}, Dm!Scrive(t)
  PROVE  DmIInv'
<1>1. PICK u \in 0..Len(conv), k \in 0..MaxMessaggi : DmDialogo(u, k)
  BY DEF DmIInv, DmInv, DmConversazione
<1>2. conv \in Seq(DmFrasi) /\ Len(conv) \in Nat /\ MaxMessaggi \in Nat
  BY DEF DmIInv, DmTipi, Dm!InstagramDmAssumption
<1>3. Dm!Ultimo = k /\ k + 1 \in Dm!Messaggi /\ k + 1 \in 0..MaxMessaggi
  BY <1>1, <1>2, DmQuanti DEF Dm!Scrive, Dm!Messaggi
<1> DEFINE e == [chi |-> "lei", m |-> k + 1, tipo |-> t]
<1>4. e \in DmFrasi /\ conv' = Append(conv, e) /\ e.chi = "lei" /\ e.m = k + 1
  BY <1>3 DEF Dm!Scrive, DmFrasi
<1> HIDE DEF e
<1>5. Dm!Scritti' = Dm!Scritti \union {k + 1} /\ \A m \in Dm!Messaggi : DmNostre(m)' = DmNostre(m)
  <2>1. /\ Dm!Scritti' = Dm!Scritti \union (IF e.chi = "lei" THEN {e.m} ELSE {})
        /\ \A m \in Dm!Messaggi :
             DmNostre(m)' = DmNostre(m) \union (IF e.chi = "noi" /\ e.m = m THEN {Len(conv) + 1} ELSE {})
    BY ONLY DmIInv, <1>4, DmRiga
  <2> QED BY <1>4, <2>1
<1>6. /\ conv' \in Seq(DmFrasi) /\ Len(conv') = Len(conv) + 1 /\ conv'[Len(conv) + 1] = e
      /\ \A i \in 1..Len(conv) : conv'[i] = conv[i]
  BY <1>2, <1>4, DmAggiunta
<1>7. DmDialogo(u, k + 1)'
  <2>1. Dm!Scritti' = 1..(k + 1) /\ Len(conv') - u <= k + 1 /\ (u # 0 => conv'[u].chi = "noi")
    <3>1. 1..(k + 1) = (1..k) \union {k + 1}
      BY <1>3
    <3> QED BY <1>1, <1>2, <1>5, <1>6, <3>1 DEF DmDialogo
  <2>2. ASSUME NEW i \in (u + 1)..Len(conv')
        PROVE  conv'[i].chi = "lei" /\ conv'[i].m = k + 1 - Len(conv') + i
    <3>1. CASE i = Len(conv) + 1
      BY <1>1, <1>2, <1>4, <1>6, <3>1
    <3>2. CASE i \in (u + 1)..Len(conv)
      <4>1. conv[i].chi = "lei" /\ conv[i].m = k - Len(conv) + i
        BY <1>1, <3>2 DEF DmDialogo
      <4>2. conv'[i] = conv[i] /\ k + 1 - Len(conv') + i = k - Len(conv) + i
        BY <1>1, <1>2, <1>6, <3>2
      <4> QED BY <4>1, <4>2
    <3> QED BY <1>1, <1>2, <1>6, <3>1, <3>2
  <2> QED BY <1>1, <1>2, <1>3, <1>6, <2>1, <2>2 DEF DmDialogo
<1>8. DmConversazione'
  BY <1>1, <1>2, <1>3, <1>6, <1>7 DEF DmConversazione
<1>9. DmTipi' /\ DmProvenienza' /\ DmContato' /\ DmLavoro'
  BY <1>5, <1>6 DEF DmIInv, DmInv, DmTipi, DmProvenienza, DmContato, DmLavoro, Dm!Scrive
<1>10. DmSemplice' => DmSemplice
  BY <1>5 DEF DmSemplice, Dm!Scrive
<1>11. ASSUME NEW m \in Dm!Messaggi, DmTurno(m) PROVE DmTurno(m)'
  BY <1>5, <1>11 DEF DmTurno, DmIntatto, DmNuovo, Dm!Scrive
<1> QED BY <1>8, <1>9, <1>10, <1>11 DEF DmIInv, DmInv

\* A message is seen by a thread, the webhook's or the poll.
LEMMA DmPassoRiceve ==
  ASSUME Dm!InstagramDmAssumption, DmIInv, NEW filo \in {"web", "poll"}, NEW n \in Dm!Messaggi, n \in Dm!Scritti,
         Dm!Riceve(filo, n), UNCHANGED <<conv, coda, disco, operai, riavvii>>,
         posta' \in Seq(Dm!Messaggi), Len(posta') <= MaxMessaggi,
         \A i \in 1..Len(posta') : posta'[i] \in Dm!Scritti
  PROVE  DmIInv'
<1>1. DmConversazione' /\ Dm!Scritti' = Dm!Scritti /\ \A m \in Dm!Messaggi : DmNostre(m)' = DmNostre(m)
  BY DmSilenzio
<1>2. /\ n \notin visti /\ visti' = visti \union {n} /\ entrata' = entrata \union {<<filo, n>>}
      /\ contati' = [contati EXCEPT ![n] = IF @ < 2 THEN @ + 1 ELSE 2]
  BY DEF Dm!Riceve, Dm!Accolto
<1>3. persona' \in [messaggi : 0..Soglia, consenso : {"mai", "asked", "granted"}]
  BY DEF Dm!Riceve, Dm!Accolto, Dm!Intima, Dm!Consenso, DmIInv, DmTipi, Dm!InstagramDmAssumption
<1>4. contati' \in [Dm!Messaggi -> 0..2]
  BY <1>2, SMTT(30) DEF DmIInv, DmTipi
<1>5. DmTipi'
  BY <1>2, <1>3, <1>4 DEF DmIInv, DmTipi
<1>6. DmProvenienza'
  BY <1>1, <1>2 DEF DmIInv, DmInv, DmProvenienza
<1>7. DmContato' /\ DmLavoro'
  BY <1>2 DEF DmIInv, DmInv, DmContato, DmLavoro, DmTipi
<1>8. DmSemplice' => DmSemplice
  BY <1>1 DEF DmSemplice
<1>9. ASSUME NEW m \in Dm!Messaggi, DmTurno(m) PROVE DmTurno(m)'
  <2>1. DmNuovo(m)' => DmNuovo(m)
    BY <1>2 DEF DmNuovo
  <2> QED BY <1>1, <1>9, <2>1 DEF DmTurno, DmIntatto
<1> QED BY <1>1, <1>5, <1>6, <1>7, <1>8, <1>9 DEF DmIInv, DmInv

LEMMA DmPassoArriva ==
  ASSUME Dm!InstagramDmAssumption, DmIInv, Dm!PollLegge \/ Dm!PollPrende \/ \E m \in Dm!Messaggi : Dm!Chiamata(m)
  PROVE  DmIInv'
<1>0. posta \in Seq(Dm!Messaggi) /\ Len(posta) <= MaxMessaggi /\ \A i \in 1..Len(posta) : posta[i] \in Dm!Scritti
  BY DEF DmIInv, DmInv, DmTipi, DmProvenienza
<1>1. ASSUME NEW m \in Dm!Messaggi, Dm!Chiamata(m) PROVE DmIInv'
  BY <1>0, <1>1, DmPassoRiceve DEF Dm!Chiamata
<1>2. CASE Dm!PollLegge
  <2>1. DmConversazione' /\ Dm!Scritti' = Dm!Scritti /\ \A m \in Dm!Messaggi : DmNostre(m)' = DmNostre(m)
    BY <1>2, DmSilenzio DEF Dm!PollLegge
  <2>2. /\ posta' \in Seq(Dm!Messaggi) /\ Len(posta') <= MaxMessaggi
        /\ \A i \in 1..Len(posta') : posta'[i] \in Dm!Scritti'
    BY <1>2, <2>1, DmArrivo DEF Dm!PollLegge
  <2>3. DmTipi' /\ DmProvenienza' /\ DmContato' /\ DmLavoro' /\ (DmSemplice' => DmSemplice)
    BY <1>2, <2>1, <2>2 DEF DmIInv, DmInv, DmTipi, DmProvenienza, DmContato, DmLavoro, DmSemplice, Dm!PollLegge
  <2>4. ASSUME NEW m \in Dm!Messaggi, DmTurno(m) PROVE DmTurno(m)'
    BY <1>2, <2>1, <2>4 DEF DmTurno, DmIntatto, DmNuovo, Dm!PollLegge
  <2> QED BY <2>1, <2>3, <2>4 DEF DmIInv, DmInv
<1>3. CASE Dm!PollPrende
  <2>1. /\ Head(posta) \in Dm!Messaggi /\ Head(posta) \in Dm!Scritti
        /\ posta' \in Seq(Dm!Messaggi) /\ Len(posta') <= MaxMessaggi
        /\ \A i \in 1..Len(posta') : posta'[i] \in Dm!Scritti
    <3>1. posta # <<>> /\ posta' = Tail(posta)
      BY <1>3 DEF Dm!PollPrende
    <3>2. /\ Len(posta) \in Nat \ {0} /\ Head(posta) = posta[1] /\ Tail(posta) \in Seq(Dm!Messaggi)
          /\ Len(Tail(posta)) = Len(posta) - 1
          /\ \A i \in 1..Len(Tail(posta)) : Tail(posta)[i] = posta[i + 1]
      BY <1>0, <3>1
    <3> QED BY <1>0, <3>1, <3>2 DEF Dm!InstagramDmAssumption
  <2>2. CASE Dm!Riceve("poll", Head(posta))
    BY <1>3, <2>1, <2>2, DmPassoRiceve DEF Dm!PollPrende
  <2>3. CASE UNCHANGED <<visti, entrata, persona, contati>>
    <3>1. DmConversazione' /\ Dm!Scritti' = Dm!Scritti /\ \A m \in Dm!Messaggi : DmNostre(m)' = DmNostre(m)
      BY <1>3, DmSilenzio DEF Dm!PollPrende
    <3>2. DmTipi' /\ DmProvenienza' /\ DmContato' /\ DmLavoro' /\ (DmSemplice' => DmSemplice)
      BY <1>3, <2>1, <2>3, <3>1 DEF DmIInv, DmInv, DmTipi, DmProvenienza, DmContato, DmLavoro, DmSemplice, Dm!PollPrende
    <3>3. ASSUME NEW m \in Dm!Messaggi, DmTurno(m) PROVE DmTurno(m)'
      BY <1>3, <2>3, <3>1, <3>3 DEF DmTurno, DmIntatto, DmNuovo, Dm!PollPrende
    <3> QED BY <3>1, <3>2, <3>3 DEF DmIInv, DmInv
  <2> QED BY <1>3, <2>2, <2>3 DEF Dm!PollPrende
<1> QED BY <1>1, <1>2, <1>3

\* Steps of the outbox and of the workers: what is to be shown of each.
LEMMA DmPassoCoda ==
  ASSUME DmIInv, UNCHANGED <<conv, visti, posta, entrata, persona, contati, riavvii>>,
         coda' \in DmVoci, disco' = coda', coda'.m = coda.m, coda'.stato = "nessuno" <=> coda.m = 0,
         coda'.stato \in {"queued", "retry", "generating"} => coda'.tentativi < MaxTentativi,
         operai' \in [Dm!Messaggi -> DmFasi],
         \A m \in Dm!Messaggi : operai'[m] # "no" => m \in Dm!Scritti, DmLavoro',
         \A m \in Dm!Messaggi : DmTurno(m) => DmTurno(m)'
  PROVE  DmIInv'
<1>1. DmConversazione' /\ Dm!Scritti' = Dm!Scritti /\ \A m \in Dm!Messaggi : DmNostre(m)' = DmNostre(m)
  BY DmSilenzio
<1>2. DmTipi' /\ DmProvenienza' /\ DmContato' /\ (DmSemplice' => DmSemplice)
  BY <1>1 DEF DmIInv, DmInv, DmTipi, DmProvenienza, DmContato, DmSemplice
<1> QED BY <1>1, <1>2 DEF DmIInv, DmInv

LEMMA DmPassoTempo ==
  ASSUME DmIInv, Dm!Matura \/ Dm!Invecchia
  PROVE  DmIInv'
<1>1. /\ UNCHANGED <<conv, visti, posta, entrata, persona, contati, riavvii, operai>>
      /\ coda' \in DmVoci /\ disco' = coda' /\ coda'.m = coda.m /\ coda'.stato = coda.stato
      /\ coda'.tentativi = coda.tentativi
  BY DEF Dm!Matura, Dm!Invecchia, Dm!Salva, DmIInv, DmTipi, DmVoci
<1>2. \A m \in Dm!Messaggi : DmNostre(m)' = DmNostre(m)
  BY <1>1, DmSilenzio
<1>3. ASSUME NEW m \in Dm!Messaggi, DmTurno(m) PROVE DmTurno(m)'
  BY <1>1, <1>2, <1>3 DEF DmTurno, DmIntatto, DmNuovo
<1> QED BY <1>1, <1>3, DmPassoCoda DEF DmIInv, DmInv, DmTipi, DmProvenienza, DmLavoro

LEMMA DmPassoPrende ==
  ASSUME DmIInv, Dm!Prende
  PROVE  DmIInv'
<1>1. /\ UNCHANGED <<conv, visti, posta, entrata, persona, contati, riavvii>>
      /\ coda' \in DmVoci /\ disco' = coda' /\ coda'.m = coda.m /\ coda'.stato = "generating"
      /\ coda'.tentativi = coda.tentativi /\ coda.stato \in {"queued", "retry"}
      /\ operai' = [operai EXCEPT ![coda.m] = "genera"]
  BY DEF Dm!Prende, Dm!Salva, DmIInv, DmTipi, DmVoci, Dm!Stati
<1>2. coda.m \in Dm!Messaggi /\ coda.m \in Dm!Scritti /\ operai' \in [Dm!Messaggi -> DmFasi] /\ coda.m # 0
      /\ coda.tentativi < MaxTentativi
  BY <1>1 DEF DmIInv, DmInv, DmTipi, DmProvenienza, DmVoci, Dm!Messaggi, DmFasi
<1>3. \A m \in Dm!Messaggi : DmNostre(m)' = DmNostre(m)
  BY <1>1, DmSilenzio
<1>4. ASSUME NEW m \in Dm!Messaggi, DmTurno(m) PROVE DmTurno(m)'
  BY <1>1, <1>2, <1>3, <1>4 DEF DmTurno, DmIntatto, DmNuovo, DmIInv, DmTipi
<1>5. \A m \in Dm!Messaggi : operai'[m] # "no" => m \in Dm!Scritti
  BY <1>1, <1>2 DEF DmIInv, DmInv, DmTipi, DmProvenienza
<1>6. DmLavoro'
  BY <1>1 DEF DmIInv, DmInv, DmLavoro
<1> QED BY <1>1, <1>2, <1>4, <1>5, <1>6, DmPassoCoda

LEMMA DmPassoOperaio ==
  ASSUME Dm!InstagramDmAssumption, DmIInv, NEW n \in Dm!Messaggi, Dm!GeneraFallisce(n) \/ Dm!Genera(n) \/ Dm!Conclude(n)
  PROVE  DmIInv'
<1>1. /\ UNCHANGED <<conv, visti, posta, entrata, persona, contati, riavvii>> /\ operai[n] # "no"
      /\ n \in Dm!Scritti /\ coda \in DmVoci /\ disco = coda /\ operai \in [Dm!Messaggi -> DmFasi]
      /\ (coda.m = 0 <=> coda.stato = "nessuno") /\ n # 0
  BY DEF Dm!GeneraFallisce, Dm!Genera, Dm!Conclude, DmIInv, DmInv, DmTipi, DmProvenienza, Dm!Messaggi
<1>2. \A m \in Dm!Messaggi : DmNostre(m)' = DmNostre(m)
  BY <1>1, DmSilenzio
<1>3. PICK sede \in DmFasi : /\ operai' = [operai EXCEPT ![n] = sede]
                             /\ sede \in {"manda", "chiede"} => operai[n] = "genera" /\ coda.m = n
                             /\ sede \in {"no", "manda", "chiede"}
  BY DEF Dm!GeneraFallisce, Dm!Genera, Dm!Conclude, DmFasi
<1>4. operai' \in [Dm!Messaggi -> DmFasi] /\ \A m \in Dm!Messaggi : operai'[m] # "no" => m \in Dm!Scritti
  BY <1>1, <1>3 DEF DmIInv, DmInv, DmProvenienza
<1>5. CASE coda.m # n
  <2>1. UNCHANGED <<coda, disco>> /\ sede = "no"
    BY <1>3, <1>5 DEF Dm!GeneraFallisce, Dm!Genera, Dm!Conclude
  <2>2. ASSUME NEW m \in Dm!Messaggi, DmTurno(m) PROVE DmTurno(m)'
    BY <1>1, <1>2, <1>3, <1>5, <2>1, <2>2 DEF DmTurno, DmIntatto, DmNuovo
  <2>3. DmLavoro'
    BY <1>1, <1>3, <1>5, <2>1 DEF DmIInv, DmInv, DmLavoro
  <2> QED BY <1>1, <1>4, <2>1, <2>2, <2>3, DmPassoCoda DEF DmIInv, DmTipi
<1>6. CASE coda.m = n /\ Dm!GeneraFallisce(n)
  <2>1. PICK s \in {"retry", "needs_review"} :
          /\ coda' = [coda EXCEPT !.tentativi = coda.tentativi + 1, !.pronta = FALSE, !.stato = s]
          /\ disco' = coda' /\ (s = "retry" => coda.tentativi + 1 < MaxTentativi)
          /\ operai[n] = "genera" /\ operai' = [operai EXCEPT ![n] = "no"]
    BY <1>6 DEF Dm!GeneraFallisce, Dm!Salva
  <2>2. coda.tentativi < MaxTentativi
    BY <1>6, <2>1 DEF DmIInv, DmInv, DmLavoro, DmTipi
  <2>3. /\ coda' \in DmVoci /\ coda'.m = coda.m /\ coda'.stato = s /\ coda'.stato # "nessuno"
        /\ coda'.stato \in {"queued", "retry", "generating"} => coda'.tentativi < MaxTentativi
    <3>1. coda.tentativi + 1 \in 0..MaxTentativi
      BY <1>1, <2>2 DEF DmVoci, Dm!InstagramDmAssumption
    <3>2. coda' \in DmVoci
      BY <1>1, <2>1, <3>1 DEF DmVoci, Dm!Stati
    <3> QED BY <1>1, <2>1, <3>2 DEF DmVoci
  <2>4. ASSUME NEW m \in Dm!Messaggi, DmTurno(m) PROVE DmTurno(m)'
    BY <1>1, <1>2, <1>6, <2>1, <2>3, <2>4 DEF DmTurno, DmIntatto, DmNuovo
  <2>5. DmLavoro'
    BY <1>1, <1>6, <2>1, <2>3 DEF DmIInv, DmInv, DmLavoro
  <2> QED BY <1>1, <1>4, <1>6, <2>1, <2>3, <2>4, <2>5, DmPassoCoda
<1>7. CASE coda.m = n /\ (Dm!Genera(n) \/ Dm!Conclude(n))
  <2>1. PICK s \in {"sending", "sent", "needs_review"} :
          /\ coda' = [coda EXCEPT !.stato = s] /\ disco' = coda'
          /\ s = "sending" <=> sede \in {"manda", "chiede"}
    <3>1. operai'[n] = sede
      BY <1>1, <1>3
    <3>2. CASE Dm!Genera(n)
      <4>1. coda' = [coda EXCEPT !.stato = "sending"] /\ disco' = coda' /\ operai'[n] \in {"manda", "chiede"}
        BY <1>1, <1>7, <3>2 DEF Dm!Genera, Dm!Salva
      <4> QED BY <3>1, <4>1
    <3>3. CASE Dm!Conclude(n)
      <4>1. PICK s \in {"sent", "needs_review"} : coda' = [coda EXCEPT !.stato = s] /\ disco' = coda'
        BY <1>7, <3>3 DEF Dm!Conclude, Dm!Salva
      <4>2. operai'[n] = "no"
        BY <1>1, <3>3 DEF Dm!Conclude
      <4> QED BY <3>1, <4>1, <4>2
    <3> QED BY <1>7, <3>2, <3>3
  <2>2. /\ coda' \in DmVoci /\ coda'.m = coda.m /\ coda'.stato = s /\ coda'.stato # "nessuno"
        /\ coda'.stato \notin {"queued", "retry", "generating"}
    BY <1>1, <2>1 DEF DmVoci, Dm!Stati
  <2>3. ASSUME NEW m \in Dm!Messaggi, DmTurno(m) PROVE DmTurno(m)'
    BY <1>1, <1>2, <1>3, <1>7, <2>1, <2>2, <2>3 DEF DmTurno, DmIntatto, DmNuovo
  <2>4. DmLavoro'
    BY <1>1, <1>3, <1>7, <2>2 DEF DmIInv, DmInv, DmLavoro
  <2> QED BY <1>1, <1>4, <1>7, <2>1, <2>2, <2>3, <2>4, DmPassoCoda
<1> QED BY <1>5, <1>6, <1>7 DEF Dm!GeneraFallisce, Dm!Genera, Dm!Conclude

\* A message that enters the outbox has not been answered, and the one it takes the place
\* of never enters it again: one process dispatches a message once, and a contact who has
\* written one message has no other to put in its place.
LEMMA DmPassoAccoda ==
  ASSUME Dm!InstagramDmAssumption, DmIInv, NEW filo \in {"web", "poll"}, NEW n \in Dm!Messaggi, Dm!Accoda(filo, n)
  PROVE  DmIInv'
<1>1. /\ <<filo, n>> \in entrata /\ entrata' = entrata \ {<<filo, n>>} /\ visti' = visti \union {n}
      /\ UNCHANGED <<conv, posta, persona, operai, contati, riavvii>>
  BY DEF Dm!Accoda
<1>2. DmConversazione' /\ Dm!Scritti' = Dm!Scritti /\ \A m \in Dm!Messaggi : DmNostre(m)' = DmNostre(m)
  BY <1>1, DmSilenzio
<1>3. n \in Dm!Scritti /\ n \in visti /\ visti' = visti /\ n # 0 /\ DmNuovo(n)
  BY <1>1 DEF DmIInv, DmInv, DmProvenienza, Dm!Messaggi, DmNuovo
<1>4. /\ coda' \in DmVoci /\ disco' = coda' /\ coda'.m = n /\ (coda'.m = 0 <=> coda'.stato = "nessuno")
      /\ coda'.stato \in {"queued", "retry", "generating"} => coda'.tentativi < MaxTentativi
      /\ coda' = coda \/ (coda.m # n /\ coda'.stato = "queued")
  <2>1. CASE coda.m = n
    BY <2>1, <1>3 DEF Dm!Accoda, DmIInv, DmTipi
  <2>2. CASE coda.m # n
    <3>1. PICK b \in BOOLEAN :
            coda' = [m |-> n, stato |-> "queued", tentativi |-> 0, pronta |-> FALSE, vecchia |-> b]
      BY <2>2 DEF Dm!Accoda, Dm!Salva, DmIInv, DmTipi, DmVoci
    <3>2. coda' \in DmVoci
      BY <3>1 DEF DmVoci, Dm!Stati, Dm!Messaggi, Dm!InstagramDmAssumption
    <3> QED BY <1>3, <2>2, <3>1, <3>2 DEF Dm!Accoda, Dm!Salva, Dm!InstagramDmAssumption
  <2> QED BY <2>1, <2>2
<1>5. DmTipi'
  BY <1>1, <1>3, <1>4 DEF DmIInv, DmTipi
<1>6. DmProvenienza' /\ DmContato'
  BY <1>1, <1>2, <1>3, <1>4 DEF DmIInv, DmInv, DmProvenienza, DmContato
<1>7. DmLavoro'
  BY <1>1, <1>4 DEF DmIInv, DmInv, DmLavoro
<1>8. ~DmNuovo(n)'
  <2>1. \A e \in entrata' : e[2] # n
    BY <1>1 DEF DmIInv, DmInv, DmProvenienza
  <2> QED BY <1>1, <2>1 DEF DmNuovo
<1>9. ASSUME DmSemplice, NEW m \in Dm!Messaggi, DmTurno(m) PROVE DmTurno(m)'
  <2>1. DmNuovo(m)' => DmNuovo(m)
    BY <1>1, <1>3 DEF DmNuovo
  <2>2. CASE coda' = coda
    BY <1>1, <1>2, <2>1, <2>2, <1>9 DEF DmTurno, DmIntatto
  <2>3. CASE coda.m # n /\ coda'.stato = "queued"
    <3>1. CASE m = n
      BY <1>1, <1>2, <1>3, <1>4, <2>1, <2>3, <3>1, <1>8, <1>9 DEF DmTurno, DmIntatto
    <3>2. CASE m # n /\ coda.m # m
      BY <1>1, <1>2, <1>3, <1>4, <2>1, <2>3, <3>2, <1>9 DEF DmTurno, DmIntatto
    <3>3. CASE m # n /\ coda.m = m
      <4>1. riavvii = 0
        BY <1>3, <3>3, <1>9 DEF DmSemplice, DmIInv, DmInv, DmProvenienza, Dm!Messaggi
      <4>2. ~DmNuovo(m)
        BY <4>1, <3>3, <1>9 DEF DmTurno
      <4> QED BY <1>1, <1>2, <1>3, <1>4, <2>1, <3>3, <4>2, <1>9 DEF DmTurno, DmIntatto
    <3> QED BY <3>1, <3>2, <3>3
  <2> QED BY <1>4, <2>2, <2>3
<1>10. DmSemplice' => DmSemplice
  BY <1>1, <1>2 DEF DmSemplice
<1> QED BY <1>2, <1>5, <1>6, <1>7, <1>9, <1>10 DEF DmIInv, DmInv

\* The call to Instagram.
LEMMA DmPassoManda ==
  ASSUME Dm!InstagramDmAssumption, DmIInv, NEW n \in Dm!Messaggi, NEW arriva \in BOOLEAN, Dm!Manda(n, arriva)
  PROVE  DmIInv'
<1>1. /\ UNCHANGED <<visti, posta, entrata, persona, coda, disco, contati, riavvii>>
      /\ operai[n] \in {"manda", "chiede"} /\ n \in Dm!Scritti /\ operai \in [Dm!Messaggi -> DmFasi] /\ conv \in Seq(DmFrasi) /\ Len(conv) \in Nat
  BY DEF Dm!Manda, DmIInv, DmInv, DmTipi, DmProvenienza
<1>2. PICK sede \in {"fallita", "mandata"} : operai' = [operai EXCEPT ![n] = sede]
  BY DEF Dm!Manda
<1>3. /\ DmConversazione' /\ Dm!Scritti' = Dm!Scritti /\ conv' \in Seq(DmFrasi)
      /\ \A m \in Dm!Messaggi :
           DmNostre(m)' = DmNostre(m) \/ (m = n /\ DmNostre(m)' = DmNostre(m) \union {Len(conv) + 1})
  <2>1. CASE ~arriva
    <3>1. conv' = conv
      BY <2>1 DEF Dm!Manda
    <3> QED BY <1>1, <3>1, DmSilenzio
  <2>2. CASE arriva
    <3> DEFINE e == [chi |-> "noi", m |-> n, tipo |-> "testo"]
    <3>1. e \in DmFrasi /\ conv' = Append(conv, e) /\ e.chi = "noi" /\ e.m = n
      BY <2>2 DEF Dm!Manda, DmFrasi
    <3> HIDE DEF e
    <3>2. /\ Dm!Scritti' = Dm!Scritti \union (IF e.chi = "lei" THEN {e.m} ELSE {})
          /\ \A m \in Dm!Messaggi :
               DmNostre(m)' = DmNostre(m) \union (IF e.chi = "noi" /\ e.m = m THEN {Len(conv) + 1} ELSE {})
      BY ONLY DmIInv, <3>1, DmRiga
    <3>3. /\ conv' \in Seq(DmFrasi) /\ Len(conv') = Len(conv) + 1 /\ conv'[Len(conv) + 1] = e
      BY <1>1, <3>1, DmAggiunta
    <3>4. PICK u \in 0..Len(conv), k \in 0..MaxMessaggi : DmDialogo(u, k)
      BY DEF DmIInv, DmInv, DmConversazione
    <3>5. Dm!Scritti' = Dm!Scritti
      BY <3>1, <3>2
    <3>6. DmConversazione'
      <4> DEFINE l == Len(conv) + 1
      <4>1. l \in Nat /\ l = Len(conv') /\ l \in 0..Len(conv') /\ l # 0
        BY <1>1, <3>3
      <4> HIDE DEF l
      <4>2. k \in 0..MaxMessaggi /\ k \in Nat /\ Dm!Scritti' = 1..k
        BY <3>4, <3>5 DEF DmDialogo, Dm!InstagramDmAssumption
      <4>3. conv'[l].chi = "noi"
        BY <3>1, <3>3 DEF l
      <4>4. Len(conv') - l <= k /\ (l + 1)..Len(conv') = {}
        BY <4>1, <4>2
      <4> QED BY <4>1, <4>2, <4>3, <4>4 DEF DmConversazione, DmDialogo
    <3>7. ASSUME NEW m \in Dm!Messaggi
          PROVE  DmNostre(m)' = DmNostre(m) \/ (m = n /\ DmNostre(m)' = DmNostre(m) \union {Len(conv) + 1})
      <4>1. DmNostre(m)' = DmNostre(m) \union (IF m = n THEN {Len(conv) + 1} ELSE {})
        BY <3>1, <3>2
      <4> QED BY <4>1
    <3> QED BY <3>3, <3>5, <3>6, <3>7
  <2> QED BY <2>1, <2>2
<1>4. DmTipi'
  BY <1>1, <1>2, <1>3 DEF DmIInv, DmTipi, DmFasi
<1>5. DmProvenienza' /\ DmContato' /\ DmLavoro'
  BY <1>1, <1>2, <1>3 DEF DmIInv, DmInv, DmProvenienza, DmContato, DmLavoro
<1>6. DmSemplice' => DmSemplice
  BY <1>1, <1>3 DEF DmSemplice
<1>7. ASSUME NEW m \in Dm!Messaggi, DmTurno(m) PROVE DmTurno(m)'
  <2>1. DmNuovo(m)' <=> DmNuovo(m)
    BY <1>1 DEF DmNuovo
  <2>2. CASE m # n
    BY <1>1, <1>2, <1>3, <2>1, <2>2, <1>7 DEF DmTurno, DmIntatto
  <2>3. CASE m = n
    BY <1>1, <1>2, <1>3, <2>1, <2>3, <1>7 DEF DmTurno, DmIntatto
  <2> QED BY <2>2, <2>3
<1> QED BY <1>3, <1>4, <1>5, <1>6, <1>7 DEF DmIInv, DmInv

LEMMA DmPassoRiavvia ==
  ASSUME Dm!InstagramDmAssumption, DmIInv, Dm!Riavvia
  PROVE  DmIInv'
<1>1. /\ conv' = conv /\ visti' = {} /\ posta' = <<>> /\ entrata' = {} /\ persona' = persona
      /\ contati' = [m \in Dm!Messaggi |-> 0] /\ operai' = [m \in Dm!Messaggi |-> "no"]
      /\ riavvii' = riavvii + 1 /\ riavvii \in Nat /\ coda \in DmVoci /\ disco = coda
  BY DEF Dm!Riavvia, DmIInv, DmTipi
<1>2. DmConversazione' /\ Dm!Scritti' = Dm!Scritti /\ \A m \in Dm!Messaggi : DmNostre(m)' = DmNostre(m)
  BY <1>1, DmSilenzio
<1>3. /\ coda' \in DmVoci /\ disco' = coda' /\ coda'.m = coda.m /\ coda'.tentativi = coda.tentativi
      /\ coda'.stato \in {"queued", "retry"} => coda.stato \in {"queued", "retry", "generating"}
      /\ coda'.stato \notin {"generating", "sending"} /\ (coda'.stato = "nessuno" <=> coda.stato = "nessuno")
  BY <1>1 DEF Dm!Riavvia, Dm!Salva, Dm!Ripresa, DmVoci, Dm!Stati
<1>4. DmTipi'
  BY <1>1, <1>3 DEF DmIInv, DmTipi, DmFasi
<1>5. DmProvenienza' /\ DmContato' /\ DmLavoro'
  BY <1>1, <1>2, <1>3 DEF DmIInv, DmInv, DmProvenienza, DmContato, DmLavoro, Dm!InstagramDmAssumption
<1>6. ASSUME DmSemplice', NEW m \in Dm!Messaggi PROVE DmTurno(m)'
  <2>1. Dm!Scritti \subseteq {1} /\ DmSemplice
    BY <1>1, <1>2, <1>6 DEF DmSemplice
  <2>2. DmTurno(m)
    BY <2>1 DEF DmIInv, DmInv
  <2>3. m \notin Dm!Scritti => DmNostre(m) = {}
    BY DEF DmIInv, DmInv, DmProvenienza
  <2>4. operai'[m] = "no" /\ riavvii' # 0 /\ DmNostre(m)' = DmNostre(m)
    BY <1>1, <1>2
  <2>5. coda'.m = m /\ coda'.stato \in {"queued", "retry"} => DmNostre(m) = {}
    BY <1>3, <2>2 DEF DmTurno, DmIntatto
  <2>6. coda'.m # m => DmNostre(m) = {}
    <3>1. coda.m \in {0, 1}
      BY <2>1 DEF DmIInv, DmInv, DmProvenienza
    <3> QED BY <1>3, <2>1, <2>2, <2>3, <3>1 DEF DmTurno, DmIntatto
  <2>7. coda'.m = 0 => DmNostre(m) = {}
    BY <1>3, <2>2 DEF DmTurno, DmIntatto
  <2> QED BY <1>3, <2>2, <2>4, <2>5, <2>6, <2>7 DEF DmTurno, DmIntatto
<1> QED BY <1>2, <1>4, <1>5, <1>6 DEF DmIInv, DmInv

LEMMA DmInvPreservata == Dm!InstagramDmAssumption /\ DmIInv /\ [Dm!Next]_Dm!vars => DmIInv'
<1> SUFFICES ASSUME Dm!InstagramDmAssumption, DmIInv, [Dm!Next]_Dm!vars PROVE DmIInv'
  OBVIOUS
<1>1. ASSUME NEW t \in {"testo", "si"}, Dm!Scrive(t) PROVE DmIInv'
  BY <1>1, DmPassoScrive
<1>2. CASE Dm!PollLegge \/ Dm!PollPrende \/ \E m \in Dm!Messaggi : Dm!Chiamata(m)
  BY <1>2, DmPassoArriva
<1>3. CASE Dm!Matura \/ Dm!Invecchia
  BY <1>3, DmPassoTempo
<1>4. CASE Dm!Prende
  BY <1>4, DmPassoPrende
<1>5. CASE Dm!Riavvia
  BY <1>5, DmPassoRiavvia
<1>6. ASSUME NEW m \in Dm!Messaggi, Dm!Operaio(m) PROVE DmIInv'
  BY <1>6, DmPassoOperaio, DmPassoManda DEF Dm!Operaio
<1>7. ASSUME NEW m \in Dm!Messaggi, NEW filo \in {"web", "poll"}, Dm!Accoda(filo, m) PROVE DmIInv'
  BY <1>7, DmPassoAccoda
<1>8. CASE UNCHANGED Dm!vars
  <2>1. DmConversazione' /\ Dm!Scritti' = Dm!Scritti /\ \A m \in Dm!Messaggi : DmNostre(m)' = DmNostre(m)
    BY <1>8, DmSilenzio DEF Dm!vars
  <2>2. DmTipi' /\ DmProvenienza' /\ DmContato' /\ DmLavoro' /\ (DmSemplice' => DmSemplice)
    BY <1>8, <2>1 DEF DmIInv, DmInv, DmTipi, DmProvenienza, DmContato, DmLavoro, DmSemplice, Dm!vars
  <2>3. ASSUME NEW m \in Dm!Messaggi, DmTurno(m) PROVE DmTurno(m)'
    BY <1>8, <2>1, <2>3 DEF DmTurno, DmIntatto, DmNuovo, Dm!vars
  <2> QED BY <2>1, <2>2, <2>3 DEF DmIInv, DmInv
<1> QED BY <1>1, <1>2, <1>3, <1>4, <1>5, <1>6, <1>7, <1>8 DEF Dm!Next

LEMMA DmInvBasta ==
  Dm!InstagramDmAssumption /\ DmIInv => Dm!TypeOK /\ Dm!ContatoUnaVolta /\ Dm!UnaRispostaSola
<1> SUFFICES ASSUME Dm!InstagramDmAssumption, DmIInv PROVE Dm!TypeOK /\ Dm!ContatoUnaVolta /\ Dm!UnaRispostaSola
  OBVIOUS
<1>1. Dm!TypeOK
  BY DEF DmIInv, DmInv, DmTipi, DmProvenienza, Dm!TypeOK, DmVoci, DmFasi
<1>2. Dm!ContatoUnaVolta
  BY DEF DmIInv, DmInv, DmContato, Dm!ContatoUnaVolta
<1>3. ASSUME Dm!Ultimo = 1 \/ riavvii = 0, NEW m \in Dm!Messaggi PROVE Dm!Risposte(m) <= 1
  <2>1. DmSemplice
    <3>1. PICK u \in 0..Len(conv), k \in 0..MaxMessaggi : DmDialogo(u, k)
      BY DEF DmIInv, DmInv, DmConversazione
    <3>2. u \in Nat /\ k \in Nat /\ Dm!Scritti = 1..k
      BY <3>1 DEF DmDialogo, DmIInv, DmTipi, Dm!InstagramDmAssumption
    <3>3. Dm!Ultimo = k
      BY <3>1, <3>2, DmQuanti
    <3> QED BY <1>3, <3>2, <3>3 DEF DmSemplice
  <2>2. \A i, j \in DmNostre(m) : i = j
    BY <2>1 DEF DmIInv, DmInv, DmTurno
  <2>3. DmNostre(m) = {} \/ \E i : DmNostre(m) = {i}
    BY <2>2
  <2>4. Cardinality(DmNostre(m)) <= 1
    <3>1. CASE DmNostre(m) = {}
      BY <3>1, FS_EmptySet
    <3>2. ASSUME NEW i, DmNostre(m) = {i} PROVE Cardinality(DmNostre(m)) <= 1
      <4>1. Cardinality({i}) = 1
        BY FS_Singleton
      <4> QED BY <3>2, <4>1
    <3> QED BY <2>3, <3>1, <3>2
  <2> QED BY <2>4, DmCardinalita DEF Dm!Risposte, DmNostre
<1> QED BY <1>1, <1>2, <1>3 DEF Dm!UnaRispostaSola, Dm!UnaRisposta

\* What the control plane keeps of a contact keeps its types through restarts, and no more
\* messages wait in the poll than can have been written (cp/instagram.py).
THEOREM TipiDeiMessaggi == Dm!InstagramDmAssumption => (Dm!Spec => []Dm!TypeOK)
<1> SUFFICES ASSUME Dm!InstagramDmAssumption PROVE Dm!Spec => []Dm!TypeOK
  OBVIOUS
<1> QED BY DmInvIniziale, DmInvPreservata, DmInvBasta, PTL DEF Dm!Spec

\* The webhook and the poll dispatch a message once between them
\* (_dispatch_instagram_messages of cp/instagram.py).
THEOREM ContatoSempreUnaVolta == Dm!InstagramDmAssumption => (Dm!Spec => []Dm!ContatoUnaVolta)
<1> SUFFICES ASSUME Dm!InstagramDmAssumption PROVE Dm!Spec => []Dm!ContatoUnaVolta
  OBVIOUS
<1> QED BY DmInvIniziale, DmInvPreservata, DmInvBasta, PTL DEF Dm!Spec

\* In one process, or of a contact who has written one message through any restarts, a
\* message gets one answer at most, whatever the calls answer, whatever is retried and
\* however the webhook and the poll meet (InstagramReplyOutbox, _instagram_auto_reply).
THEOREM UnaSolaRisposta == Dm!InstagramDmAssumption => (Dm!Spec => []Dm!UnaRispostaSola)
<1> SUFFICES ASSUME Dm!InstagramDmAssumption PROVE Dm!Spec => []Dm!UnaRispostaSola
  OBVIOUS
<1> QED BY DmInvIniziale, DmInvPreservata, DmInvBasta, PTL DEF Dm!Spec
\* An answer leaves for the item it is of.
LEMMA DmParte ==
  ASSUME Dm!InstagramDmAssumption, DmIInv, [Dm!Next]_(Dm!vars)
  PROVE  Dm!ParteAttuale
<1> SUFFICES ASSUME NEW m \in Dm!Messaggi, operai[m] = "genera", operai'[m] \in {"manda", "chiede"}
             PROVE  coda.m = m
  BY DEF Dm!ParteAttuale
<1>1. operai \in [Dm!Messaggi -> DmFasi] /\ coda.m \in 0..MaxMessaggi
  BY DEF DmIInv, DmTipi, DmVoci
<1>2. CASE operai' = operai
  BY <1>2
<1>3. CASE Dm!Prende
  BY <1>1, <1>3 DEF Dm!Prende
<1>4. CASE Dm!Riavvia
  BY <1>4 DEF Dm!Riavvia
<1>5. ASSUME NEW n \in Dm!Messaggi, Dm!Operaio(n) PROVE coda.m = m
  <2>2. CASE Dm!Genera(n)
    BY <1>1, <2>2 DEF Dm!Genera
  <2>3. CASE Dm!GeneraFallisce(n)
    BY <1>1, <2>3 DEF Dm!GeneraFallisce
  <2>4. CASE Dm!Conclude(n)
    BY <1>1, <2>4 DEF Dm!Conclude
  <2>5. ASSUME NEW b \in BOOLEAN, Dm!Manda(n, b) PROVE coda.m = m
    <3>1. PICK f \in {"fallita", "mandata"} : operai' = [operai EXCEPT ![n] = f]
      BY <2>5 DEF Dm!Manda
    <3> QED BY <1>1, <3>1
  <2> QED BY <1>5, <2>2, <2>3, <2>4, <2>5 DEF Dm!Operaio
<1> QED BY <1>2, <1>3, <1>4, <1>5
     DEF Dm!Next, Dm!vars, Dm!Scrive, Dm!PollLegge, Dm!PollPrende, Dm!Matura, Dm!Invecchia,
         Dm!Chiamata, Dm!Accoda

-----------------------------------------------------------------------------
(* WebNode: the jobs of the browser nodes.  c are the queues, v the slots, k the tasks the *)
(* registry knows, s what each tab holds, g how often a task was given, u the last task    *)
(* that came.                                                                              *)

\* Types.
BroTipo(c, v, k, s, g, u) ==
  /\ u \in Nat
  /\ c \in [Nodo -> SUBSET (1..u)] /\ v \in [Nodo -> 0..u] /\ s \in [Nodo -> SUBSET (1..u)]
  /\ g \in [Bro!Compito -> Nat]

\* A task is in one queue or in one slot; a tab may hold one that is in its own slot or
\* nowhere.
BroDivisi(c, v, s) ==
  \A n, m \in Nodo :
    /\ v[n] \notin c[m] /\ s[n] \intersect c[m] = {}
    /\ n # m => /\ c[n] \intersect c[m] = {} /\ v[m] \notin s[n]
                /\ v[n] # 0 => v[n] # v[m]

\* The registry knows what is in the queues and in the slots.
BroNoti(c, v, k) ==
  \A t : t \in k <=> \E n \in Nodo : t \in c[n] \/ (t = v[n] /\ t # 0)

\* A task that waits, or has not come yet, was given to nobody; the others once at most.
BroDati(c, g, u) ==
  \A t \in Bro!Compito :
    /\ g[t] <= 1
    /\ t > u \/ (\E n \in Nodo : t \in c[n]) => g[t] = 0

BroOk(c, v, k, s, g, u) ==
  BroTipo(c, v, k, s, g, u) /\ BroDivisi(c, v, s) /\ BroNoti(c, v, k) /\ BroDati(c, g, u)

BroInv ==
  /\ BroOk(code, inVolo, compiti, schede, consegne, conta.compiti)
  /\ conta \in [compiti : 0..MaxCompiti, riavvii : Nat] /\ muti \subseteq Nodo

LEMMA BroInvIniziale ==
  ASSUME Bro!WebNodeAssumption, Bro!Init
  PROVE  BroInv
BY DEF Bro!WebNodeAssumption, Bro!Init, Bro!Compito, BroInv, BroOk, BroTipo, BroDivisi, BroNoti, BroDati

\* _purge_locked keeps the registry in order.
LEMMA BroPulita ==
  ASSUME BroInv
  PROVE  BroOk(Bro!CodePulite(muti), Bro!VoliPuliti(muti), Bro!Resto(muti), schede, consegne,
               conta.compiti)
<1> DEFINE c == Bro!CodePulite(muti)
           v == Bro!VoliPuliti(muti)
           k == Bro!Resto(muti)
<1>1. /\ \A n \in Nodo : c[n] = IF n \in muti THEN {} ELSE code[n] \ scaduti
      /\ \A n \in Nodo : v[n] = IF n \in muti \/ inVolo[n] \in scaduti THEN 0 ELSE inVolo[n]
      /\ DOMAIN c = Nodo /\ DOMAIN v = Nodo
      /\ c = [n \in Nodo |-> c[n]] /\ v = [n \in Nodo |-> v[n]]
  BY DEF Bro!CodePulite, Bro!VoliPuliti
<1>2. \A t : t \in k <=> t \in compiti /\ t \notin scaduti
                         /\ ~\E n \in muti : t \in code[n] \/ (t = inVolo[n] /\ t # 0)
  BY DEF Bro!Resto, Bro!Suoi
<1> HIDE DEF c, v, k
<1> USE DEF BroInv, BroOk
<1>3. BroTipo(c, v, k, schede, consegne, conta.compiti)
  <2>1. \A n \in Nodo : c[n] \in SUBSET (1..conta.compiti) /\ v[n] \in 0..conta.compiti
    BY <1>1 DEF BroTipo
  <2> QED BY <1>1, <2>1 DEF BroTipo
<1>4. BroDivisi(c, v, schede)
  <2> SUFFICES ASSUME NEW n \in Nodo, NEW m \in Nodo
               PROVE  /\ v[n] \notin c[m] /\ schede[n] \intersect c[m] = {}
                      /\ n # m => /\ c[n] \intersect c[m] = {} /\ v[m] \notin schede[n]
                                  /\ v[n] # 0 => v[n] # v[m]
    BY DEF BroDivisi
  <2>1. c[n] \subseteq code[n] /\ c[m] \subseteq code[m] /\ v[n] \in {0, inVolo[n]} /\ v[m] \in {0, inVolo[m]}
    BY <1>1
  <2>2. 0 \notin code[m] /\ 0 \notin schede[n]  BY DEF BroTipo
  <2> QED BY <2>1, <2>2 DEF BroDivisi
<1>5. BroNoti(c, v, k)
  <2> SUFFICES ASSUME NEW t
               PROVE  t \in k <=> \E n \in Nodo : t \in c[n] \/ (t = v[n] /\ t # 0)
    BY DEF BroNoti
  <2>1. ASSUME t \in k
        PROVE  \E n \in Nodo : t \in c[n] \/ (t = v[n] /\ t # 0)
    BY <2>1, <1>1, <1>2 DEF BroNoti
  <2>2. ASSUME NEW n \in Nodo, t \in c[n] \/ (t = v[n] /\ t # 0)
        PROVE  t \in k
    <3>1. n \notin muti /\ t \notin scaduti /\ (t \in code[n] \/ (t = inVolo[n] /\ t # 0))
      BY <2>2, <1>1
    <3>2. ASSUME NEW m \in muti, t \in code[m] \/ (t = inVolo[m] /\ t # 0)
          PROVE  FALSE
      <4>1. m \in Nodo
        BY DEF BroInv
      <4>2. n # m  BY <3>1
      <4>3. inVolo[n] \notin code[m] /\ inVolo[m] \notin code[n] /\ code[n] \intersect code[m] = {}
            /\ (inVolo[n] # 0 => inVolo[n] # inVolo[m])
        BY <4>1, <4>2 DEF BroDivisi
      <4> QED BY <3>1, <3>2, <4>3
    <3> QED BY <3>1, <3>2, <1>2 DEF BroNoti
  <2> QED BY <2>1, <2>2
<1>6. BroDati(c, consegne, conta.compiti)
  BY <1>1 DEF BroDati
<1> QED BY <1>3, <1>4, <1>5, <1>6 DEF c, v, k

\* poll: the oldest task of a queue goes to the free slot of its tab.
LEMMA BroConsegnata ==
  ASSUME NEW c, NEW v, NEW k, NEW s, NEW g, NEW u \in 0..MaxCompiti, MaxCompiti \in Nat,
         BroOk(c, v, k, s, g, u), NEW n \in Nodo, NEW t \in c[n], v[n] = 0, NEW arriva \in BOOLEAN
  PROVE  BroOk([c EXCEPT ![n] = @ \ {t}], [v EXCEPT ![n] = t], k,
               IF arriva THEN [s EXCEPT ![n] = @ \union {t}] ELSE s,
               [g EXCEPT ![t] = @ + 1], u)
<1> DEFINE d == [c EXCEPT ![n] = @ \ {t}]
           w == [v EXCEPT ![n] = t]
           z == IF arriva THEN [s EXCEPT ![n] = @ \union {t}] ELSE s
           h == [g EXCEPT ![t] = @ + 1]
<1> USE DEF BroOk
<1>1. BroTipo(c, v, k, s, g, u) /\ t \in 1..u /\ t \in Bro!Compito /\ t # 0
  BY DEF BroTipo, Bro!Compito
<1>2. /\ \A m \in Nodo : d[m] = IF m = n THEN c[n] \ {t} ELSE c[m]
      /\ \A m \in Nodo : w[m] = IF m = n THEN t ELSE v[m]
      /\ \A m \in Nodo : z[m] = s[m] \/ (m = n /\ z[m] = s[m] \union {t})
      /\ \A x \in Bro!Compito : h[x] = IF x = t THEN g[t] + 1 ELSE g[x]
  BY <1>1 DEF BroTipo
<1>3. BroTipo(d, w, k, z, h, u)
  BY <1>1 DEF BroTipo
<1> HIDE DEF d, w, z, h
<1>4. BroDivisi(d, w, z)
  <2> SUFFICES ASSUME NEW a \in Nodo, NEW b \in Nodo
               PROVE  /\ w[a] \notin d[b] /\ z[a] \intersect d[b] = {}
                      /\ a # b => /\ d[a] \intersect d[b] = {} /\ w[b] \notin z[a]
                                  /\ w[a] # 0 => w[a] # w[b]
    BY DEF BroDivisi
  <2>1. \A m \in Nodo : v[m] # t /\ (m # n => t \notin c[m]) /\ t \notin s[m]
    BY DEF BroDivisi
  <2>2. t \notin d[b]  BY <1>2, <2>1
  <2>3. d[a] \subseteq c[a] /\ d[b] \subseteq c[b] /\ w[a] \in {t, v[a]} /\ w[b] \in {t, v[b]}
        /\ z[a] \subseteq s[a] \union {t}
    BY <1>2
  <2>4. w[a] \notin d[b] /\ z[a] \intersect d[b] = {}  BY <2>2, <2>3 DEF BroDivisi
  <2>5. ASSUME a # b
        PROVE  d[a] \intersect d[b] = {} /\ w[b] \notin z[a] /\ (w[a] # 0 => w[a] # w[b])
    <3>1. d[a] \intersect d[b] = {}  BY <2>3, <2>5 DEF BroDivisi
    <3>2. w[b] \notin z[a]
      BY <2>1, <2>5, <1>2 DEF BroDivisi
    <3>3. w[a] # 0 => w[a] # w[b]
      BY <2>1, <2>5, <1>2 DEF BroDivisi
    <3> QED BY <3>1, <3>2, <3>3
  <2> QED BY <2>4, <2>5
<1>5. BroNoti(d, w, k)
  BY <1>1, <1>2 DEF BroNoti
<1>6. BroDati(d, h, u)
  <2> SUFFICES ASSUME NEW x \in Bro!Compito
               PROVE  /\ h[x] <= 1
                      /\ x > u \/ (\E m \in Nodo : x \in d[m]) => h[x] = 0
    BY DEF BroDati
  <2>1. CASE x = t
    <3>1. g[t] = 0 /\ h[t] = 1  BY <1>1, <1>2 DEF BroDati
    <3>2. ~(t > u)  BY <1>1
    <3>3. \A m \in Nodo : t \notin d[m]  BY <1>2 DEF BroDivisi
    <3> QED BY <2>1, <3>1, <3>2, <3>3
  <2>2. CASE x # t
    <3>1. h[x] = g[x] /\ (\A m \in Nodo : x \in d[m] => x \in c[m])  BY <2>2, <1>2
    <3> QED BY <3>1 DEF BroDati
  <2> QED BY <2>1, <2>2
<1> QED BY <1>3, <1>4, <1>5, <1>6 DEF d, w, z, h

\* The first of a queue is one of it.
LEMMA BroPrimo ==
  ASSUME NEW q, q \subseteq Nat, q # {}
  PROVE  Bro!Primo(q) \in q
<1> DEFINE R == OpToRel(<, Nat)
<1>1. IsWellFoundedOn(R, Nat)  BY NatLessThanWellFounded
<1>2. \A x, y \in Nat : x < y => <<x, y>> \in R  BY DEF OpToRel
<1> HIDE DEF R
<1>3. PICK t \in q : \A y \in q : ~(<<y, t>> \in R)  BY <1>1, WFMin
<1>4. ASSUME NEW y \in q
      PROVE  t <= y
  <2>1. y \in Nat /\ t \in Nat  OBVIOUS
  <2>2. ~(y < t)  BY <2>1, <1>2, <1>3
  <2> QED BY <2>1, <2>2
<1> QED BY <1>4 DEF Bro!Primo

\* The steps that deliver or purge.
LEMMA BroInvGiro ==
  ASSUME Bro!WebNodeAssumption, BroInv, NEW n \in Nodo, NEW arriva \in BOOLEAN, Bro!Giro(n, arriva)
  PROVE  BroInv'
<1> DEFINE c == Bro!CodePulite(muti)
           v == Bro!VoliPuliti(muti)
           k == Bro!Resto(muti)
<1>1. BroOk(c, v, k, schede, consegne, conta.compiti)  BY BroPulita
<1>2. conta' = conta /\ conta \in [compiti : 0..MaxCompiti, riavvii : Nat] /\ muti' \subseteq Nodo
  BY DEF Bro!Giro, BroInv
<1>3. compiti' = k  BY DEF Bro!Giro
<1>4. CASE n \notin muti /\ v[n] = 0 /\ c[n] # {}
  <2> DEFINE t == Bro!Primo(c[n])
  <2>1. c[n] \subseteq Nat  BY <1>1 DEF BroOk, BroTipo
  <2>2. t \in c[n]  BY <1>4, <2>1, BroPrimo
  <2>3. /\ code' = [c EXCEPT ![n] = @ \ {t}] /\ inVolo' = [v EXCEPT ![n] = t]
        /\ consegne' = [consegne EXCEPT ![t] = @ + 1]
        /\ schede' = (IF arriva THEN [schede EXCEPT ![n] = @ \union {t}] ELSE schede)
    BY <1>4 DEF Bro!Giro
  <2> HIDE DEF t, c, v, k
  <2>4. BroOk(code', inVolo', k, schede', consegne', conta.compiti)
    BY <1>1, <1>2, <1>4, <2>2, <2>3, BroConsegnata DEF Bro!WebNodeAssumption
  <2> QED BY <1>2, <1>3, <2>4 DEF BroInv
<1>5. CASE ~(n \notin muti /\ v[n] = 0 /\ c[n] # {})
  <2>1. code' = c /\ inVolo' = v /\ UNCHANGED <<schede, consegne>>
    BY <1>5 DEF Bro!Giro
  <2> HIDE DEF c, v, k
  <2> QED BY <1>1, <1>2, <1>3, <2>1 DEF BroInv
<1> QED BY <1>4, <1>5

\* What leaves the registry leaves its queue or its slot.
LEMMA BroTolta ==
  ASSUME BroOk(code, inVolo, compiti, schede, consegne, conta.compiti), NEW t, NEW d, NEW w,
         d = [n \in Nodo |-> code[n] \ {t}],
         w = [n \in Nodo |-> IF inVolo[n] = t THEN 0 ELSE inVolo[n]]
  PROVE  BroOk(d, w, compiti \ {t}, schede, consegne, conta.compiti)
<1> USE DEF BroOk
<1>1. \A n \in Nodo : d[n] = code[n] \ {t} /\ w[n] = IF inVolo[n] = t THEN 0 ELSE inVolo[n]
  OBVIOUS
<1>2. BroTipo(d, w, compiti \ {t}, schede, consegne, conta.compiti)
  <2>1. \A n \in Nodo : /\ code[n] \ {t} \in SUBSET (1..conta.compiti)
                       /\ (IF inVolo[n] = t THEN 0 ELSE inVolo[n]) \in 0..conta.compiti
    BY DEF BroTipo
  <2> QED BY <2>1 DEF BroTipo
<1>3. BroDivisi(d, w, schede)
  <2>1. \A n \in Nodo : 0 \notin code[n] /\ 0 \notin schede[n]  BY DEF BroTipo
  <2> QED BY <1>1, <2>1 DEF BroDivisi
<1>4. BroNoti(d, w, compiti \ {t})
  BY <1>1 DEF BroNoti
<1>5. BroDati(d, consegne, conta.compiti)
  BY <1>1 DEF BroDati
<1> QED BY <1>2, <1>3, <1>4, <1>5

LEMMA BroInvPasso ==
  ASSUME Bro!WebNodeAssumption, BroInv, [Bro!Next]_(Bro!vars)
  PROVE  BroInv'
<1>0. /\ BroOk(code, inVolo, compiti, schede, consegne, conta.compiti)
      /\ conta \in [compiti : 0..MaxCompiti, riavvii : Nat]
  BY DEF BroInv
<1>m. muti' \subseteq Nodo
  BY DEF BroInv, Bro!Next, Bro!vars, Bro!Registra, Bro!Accoda, Bro!Scopre, Bro!Desiste, Bro!Tace,
         Bro!Ricarica, Bro!Chiede, Bro!Sveglia, Bro!Giro, Bro!Completa, Bro!Annulla, Bro!Stato,
         Bro!Riavvia, Bro!Scade
<1>1. ASSUME UNCHANGED <<code, inVolo, compiti, schede, consegne, conta>>
      PROVE  BroInv'
  BY <1>m, <1>0, <1>1 DEF BroInv
<1>2. ASSUME NEW n \in Nodo,
             Bro!Registra(n) \/ Bro!Scopre(n) \/ Bro!Desiste(n) \/ Bro!Tace(n)
      PROVE  BroInv'
  BY <1>1, <1>2 DEF Bro!Registra, Bro!Scopre, Bro!Desiste, Bro!Tace
<1>3. ASSUME NEW n \in Nodo, Bro!Accoda(n)
      PROVE  BroInv'
  <2> DEFINE t == conta.compiti + 1
  <2>1. /\ t \in 1..MaxCompiti /\ conta' = [conta EXCEPT !.compiti = t]
        /\ code' = [code EXCEPT ![n] = @ \union {t}] /\ compiti' = compiti \union {t}
        /\ UNCHANGED <<inVolo, schede, consegne>>
    BY <1>0, <1>3 DEF Bro!Accoda, Bro!WebNodeAssumption
  <2>2. conta' \in [compiti : 0..MaxCompiti, riavvii : Nat] /\ conta'.compiti = t
    BY <1>0, <2>1 DEF Bro!WebNodeAssumption
  <2>3. t \in Nat /\ conta.compiti \in Nat /\ t > conta.compiti /\ t \in Bro!Compito
    BY <1>0, <2>1 DEF Bro!Compito, Bro!WebNodeAssumption
  <2>4. \A m \in Nodo : code'[m] = IF m = n THEN code[n] \union {t} ELSE code[m]
    BY <1>0, <2>1 DEF BroOk, BroTipo
  <2>5. BroTipo(code', inVolo', compiti', schede', consegne', t)
    BY <1>0, <2>1, <2>3 DEF BroOk, BroTipo
  <2>6. \A m \in Nodo : t \notin code[m] /\ t # inVolo[m] /\ t \notin schede[m]
    BY <1>0, <2>3 DEF BroOk, BroTipo
  <2> HIDE DEF t
  <2>7. BroDivisi(code', inVolo', schede')
    BY <1>0, <2>1, <2>4, <2>6 DEF BroOk, BroDivisi
  <2>8. BroNoti(code', inVolo', compiti')
    BY <1>0, <2>1, <2>3, <2>4 DEF BroOk, BroNoti
  <2>9. BroDati(code', consegne', t)
    <3>1. consegne[t] = 0  BY <1>0, <2>3 DEF BroOk, BroDati
    <3>2. \A x \in Bro!Compito : x > t => x > conta.compiti  BY <2>3 DEF Bro!Compito
    <3> QED BY <1>0, <2>1, <2>4, <3>1, <3>2 DEF BroOk, BroDati
  <2> QED BY <1>m, <2>2, <2>5, <2>7, <2>8, <2>9 DEF BroInv, BroOk
<1>4. ASSUME NEW n \in Nodo, Bro!Ricarica(n)
      PROVE  BroInv'
  <2>1. schede' = [schede EXCEPT ![n] = {}] /\ UNCHANGED <<code, inVolo, compiti, consegne, conta>>
    BY <1>4 DEF Bro!Ricarica
  <2>2. BroTipo(code, inVolo, compiti, schede', consegne, conta.compiti)
    BY <1>0, <2>1 DEF BroOk, BroTipo
  <2>3. \A m \in Nodo : schede'[m] \subseteq schede[m]
    BY <1>0, <2>1 DEF BroOk, BroTipo
  <2>4. BroDivisi(code, inVolo, schede')
    BY <1>0, <2>3 DEF BroOk, BroDivisi
  <2> QED BY <1>m, <1>0, <2>1, <2>2, <2>4 DEF BroInv, BroOk
<1>5. ASSUME NEW n \in Nodo, NEW b \in BOOLEAN, Bro!Chiede(n, b) \/ Bro!Sveglia(n, b)
      PROVE  BroInv'
  BY <1>5, BroInvGiro DEF Bro!Chiede, Bro!Sveglia
<1>6. ASSUME NEW n \in Nodo, NEW t \in schede[n], Bro!Completa(n, t)
      PROVE  BroInv'
  <2> DEFINE d == [m \in Nodo |-> code[m] \ {t}]
             w == [m \in Nodo |-> IF inVolo[m] = t THEN 0 ELSE inVolo[m]]
  <2>1. BroOk(d, w, compiti \ {t}, schede, consegne, conta.compiti)
    BY <1>0, BroTolta
  <2>2. /\ schede' = [schede EXCEPT ![n] = @ \ {t}]
        /\ inVolo' = [inVolo EXCEPT ![n] = IF @ = t THEN 0 ELSE @]
        /\ compiti' = compiti \ {t} /\ UNCHANGED <<code, consegne, conta>>
    BY <1>6 DEF Bro!Completa
  <2>3. code' = d
    <3>1. \A m \in Nodo : t \notin code[m]  BY <1>0 DEF BroOk, BroDivisi
    <3> QED BY <1>0, <2>2, <3>1 DEF BroOk, BroTipo
  <2>4. inVolo' = w
    <3>1. \A m \in Nodo : m # n => inVolo[m] # t  BY <1>0 DEF BroOk, BroDivisi
    <3> QED BY <1>0, <2>2, <3>1 DEF BroOk, BroTipo
  <2> HIDE DEF d, w
  <2>5. BroTipo(d, w, compiti', schede', consegne, conta.compiti)
    BY <2>1, <2>2 DEF BroOk, BroTipo
  <2>6. \A m \in Nodo : schede'[m] \subseteq schede[m]
    BY <1>0, <2>2 DEF BroOk, BroTipo
  <2>7. BroDivisi(d, w, schede')
    BY <2>1, <2>6 DEF BroOk, BroDivisi
  <2> QED BY <1>m, <1>0, <2>1, <2>2, <2>3, <2>4, <2>5, <2>7 DEF BroInv, BroOk
<1>7. ASSUME NEW t \in compiti, Bro!Annulla(t)
      PROVE  BroInv'
  <2>1. /\ code' = [n \in Nodo |-> code[n] \ {t}]
        /\ inVolo' = [n \in Nodo |-> IF inVolo[n] = t THEN 0 ELSE inVolo[n]]
        /\ compiti' = compiti \ {t} /\ UNCHANGED <<schede, consegne, conta>>
    BY <1>7 DEF Bro!Annulla
  <2>2. BroOk(code', inVolo', compiti \ {t}, schede, consegne, conta.compiti)
    BY <1>0, <2>1, BroTolta
  <2> QED BY <1>m, <1>0, <2>1, <2>2 DEF BroInv
<1>8. CASE Bro!Stato
  <2>1. /\ code' = Bro!CodePulite(muti) /\ inVolo' = Bro!VoliPuliti(muti) /\ compiti' = Bro!Resto(muti)
        /\ UNCHANGED <<schede, consegne, conta>>
    BY <1>8 DEF Bro!Stato
  <2> QED BY <1>m, <1>0, <2>1, BroPulita DEF BroInv
<1>9. CASE Bro!Riavvia
  <2>1. /\ code' = [n \in Nodo |-> {}] /\ inVolo' = [n \in Nodo |-> 0] /\ compiti' = {}
        /\ conta' = [conta EXCEPT !.riavvii = @ + 1] /\ UNCHANGED <<schede, consegne>>
    BY <1>9 DEF Bro!Riavvia
  <2>2. conta' \in [compiti : 0..MaxCompiti, riavvii : Nat] /\ conta'.compiti = conta.compiti
    BY <1>0, <2>1
  <2>3. BroTipo(code', inVolo', compiti', schede', consegne', conta.compiti)
    BY <1>0, <2>1 DEF BroOk, BroTipo
  <2>4. BroDivisi(code', inVolo', schede')
    BY <1>0, <2>1 DEF BroOk, BroDivisi, BroTipo
  <2>5. BroNoti(code', inVolo', compiti') /\ BroDati(code', consegne', conta.compiti)
    BY <1>0, <2>1 DEF BroOk, BroNoti, BroDati
  <2> QED BY <1>m, <2>2, <2>3, <2>4, <2>5 DEF BroInv, BroOk
<1>10. ASSUME NEW t \in Bro!Nati, Bro!Scade(t)
       PROVE  BroInv'
  BY <1>1, <1>10 DEF Bro!Scade
<1>11. CASE UNCHANGED Bro!vars
  BY <1>1, <1>11 DEF Bro!vars
<1> QED
  BY <1>2, <1>3, <1>4, <1>5, <1>6, <1>7, <1>8, <1>9, <1>10, <1>11 DEF Bro!Next

LEMMA BroInvBasta ==
  ASSUME BroInv
  PROVE  Bro!ServitoUnaVolta /\ Bro!Annullabili
<1>1. Bro!ServitoUnaVolta  BY DEF BroInv, BroOk, BroDati, Bro!ServitoUnaVolta
<1>2. \A t : t \in compiti <=> \E n \in Nodo : t \in code[n] \/ (t = inVolo[n] /\ t # 0)
  BY DEF BroInv, BroOk, BroNoti
<1>3. compiti = UNION {Bro!Suoi(n) : n \in Nodo}  BY <1>2 DEF Bro!Suoi
<1> QED BY <1>1, <1>3 DEF Bro!Annullabili

\* "riaccodarlo rischierebbe una doppia esecuzione" (shared/web_node.py): a task is given to
\* one poll only, whatever expires, reloads or answers late.
THEOREM ServitoSempreUnaVolta == Bro!WebNodeAssumption => (Bro!Spec => []Bro!ServitoUnaVolta)
<1> SUFFICES ASSUME Bro!WebNodeAssumption PROVE Bro!Spec => []Bro!ServitoUnaVolta
  OBVIOUS
<1> QED BY BroInvIniziale, BroInvPasso, BroInvBasta, PTL DEF Bro!Spec

\* The tasks that can be cancelled are those in a queue or in a slot (_tasks).
THEOREM SempreAnnullabili == Bro!WebNodeAssumption => (Bro!Spec => []Bro!Annullabili)
<1> SUFFICES ASSUME Bro!WebNodeAssumption PROVE Bro!Spec => []Bro!Annullabili
  OBVIOUS
<1> QED BY BroInvIniziale, BroInvPasso, BroInvBasta, PTL DEF Bro!Spec

\* A slot in use is freed only with the task in it.
LEMMA BroSlot ==
  ASSUME BroInv, [Bro!Next]_(Bro!vars)
  PROVE  Bro!SlotTenuto
<1> SUFFICES ASSUME NEW n \in Nodo, inVolo[n] # 0, inVolo'[n] # inVolo[n]
             PROVE  inVolo[n] \in scaduti \/ inVolo[n] \notin compiti'
  BY DEF Bro!SlotTenuto
<1>0. inVolo \in [Nodo -> Nat]  BY DEF BroInv, BroOk, BroTipo
<1>1. /\ Bro!VoliPuliti(muti)[n] = IF n \in muti \/ inVolo[n] \in scaduti THEN 0 ELSE inVolo[n]
      /\ n \in muti => inVolo[n] \notin Bro!Resto(muti)
  BY DEF Bro!VoliPuliti, Bro!Resto, Bro!Suoi
<1>2. ASSUME NEW m \in Nodo, NEW b \in BOOLEAN, Bro!Giro(m, b)
      PROVE  inVolo[n] \in scaduti \/ inVolo[n] \notin compiti'
  <2>1. compiti' = Bro!Resto(muti)  BY <1>2 DEF Bro!Giro
  <2>2. CASE n \in muti  BY <1>1, <2>1, <2>2
  <2>3. CASE n \notin muti /\ inVolo[n] \notin scaduti
    <3>1. Bro!VoliPuliti(muti)[n] = inVolo[n]  BY <1>1, <2>3
    <3>2. Bro!VoliPuliti(muti) = [x \in Nodo |-> Bro!VoliPuliti(muti)[x]]  BY DEF Bro!VoliPuliti
    <3>3. inVolo'[n] = inVolo[n]
      BY <1>2, <3>1, <3>2 DEF Bro!Giro
    <3> QED BY <3>3
  <2> QED BY <2>2, <2>3
<1>3. ASSUME NEW m \in Nodo, NEW t \in schede[m], Bro!Completa(m, t)
      PROVE  inVolo[n] \notin compiti'
  BY <1>0, <1>3 DEF Bro!Completa
<1>4. ASSUME NEW t \in compiti, Bro!Annulla(t)
      PROVE  inVolo[n] \notin compiti'
  BY <1>4 DEF Bro!Annulla
<1>5. CASE Bro!Stato
  BY <1>1, <1>5 DEF Bro!Stato
<1>6. CASE Bro!Riavvia
  BY <1>6 DEF Bro!Riavvia
<1> QED
  BY <1>2, <1>3, <1>4, <1>5, <1>6
  DEF Bro!Next, Bro!vars, Bro!Registra, Bro!Accoda, Bro!Scopre, Bro!Desiste, Bro!Tace, Bro!Ricarica,
      Bro!Chiede, Bro!Sveglia, Bro!Scade

-----------------------------------------------------------------------------
(* ForgeSkills: the artifacts, with those of the operator and those of a bundle at once.   *)

ForgeTesti == Sorgente \union {"vuoto"}

ForgeSchede == [tipo : {"tool", "skill", "patch", "vuoto"}, sorgente : ForgeTesti,
                stato : {"draft", "review", "approved", "disabled", "vuoto"}, versione : Nat,
                impronta : ForgeTesti]

ForgePiene == [tipo : {"tool", "skill", "patch"}, sorgente : Sorgente,
               stato : {"draft", "review", "approved", "disabled"},
               versione : Nat \ {0}, impronta : ForgeTesti]

ForgeTipi(P, E) ==
  /\ scheda \in [P \union E -> ForgeSchede]
  /\ copia \in [P \union E -> [{"py", "diff", "md"} -> ForgeTesti]]
  /\ approvata \in [P \union E -> ForgeTesti]
  /\ importa \subseteq E
  /\ \A a \in P \union E : scheda[a] = Forge(P, E)!Nessuna \/ scheda[a] \in ForgePiene

\* What is written is of the next version or says the same as the last one, and only an
\* approval writes a hash.
ForgeScritta(P, E) ==
  mano.fase # "libera" =>
    /\ mano.art \in P \union E /\ mano.nuova \in ForgePiene
    /\ mano.nuova.impronta # "vuoto" => mano.approva /\ mano.nuova.impronta = mano.nuova.sorgente
    /\ mano.nuova.versione >= scheda[mano.art].versione
    /\ \A v \in versioni :
         v[1] = mano.art => \/ v[2] < mano.nuova.versione
                            \/ v[2] = mano.nuova.versione /\ v[3] = mano.nuova.sorgente
    /\ mano.fase = "copiata" /\ mano.art \notin spaiate =>
         copia[mano.art][Forge(P, E)!Estensione(mano.nuova.tipo)] = mano.nuova.sorgente

\* The hand holds a record while it writes.
ForgeMano ==
  /\ mano = [art |-> mano.art, nuova |-> mano.nuova, fase |-> mano.fase, approva |-> mano.approva]
  /\ mano.fase \in {"libera", "pronta", "copiata"}

\* The hash of a record is of what was approved last.
ForgeImpronte(P, E) ==
  \A a \in P \union E : scheda[a].impronta # "vuoto" => approvata[a] = scheda[a].impronta

\* No version that was on disk is ahead of the record, or differs from it at its number.
ForgeVersioni(P, E) ==
  \A v \in versioni :
    /\ v \in (P \union E) \X (Nat \ {0}) \X Sorgente
    /\ v[2] <= scheda[v[1]].versione
    /\ v[2] = scheda[v[1]].versione => v[3] = scheda[v[1]].sorgente

\* The copy is that of the record, but between the two replacements.
ForgeCopie(P, E) ==
  \A a \in P \union E :
    scheda[a] # Forge(P, E)!Nessuna /\ a \notin spaiate /\ ~(mano.fase = "copiata" /\ mano.art = a) =>
      copia[a][Forge(P, E)!Estensione(scheda[a].tipo)] = scheda[a].sorgente

ForgeInv(P, E) ==
  /\ ForgeTipi(P, E) /\ ForgeMano /\ ForgeScritta(P, E) /\ ForgeImpronte(P, E)
  /\ ForgeVersioni(P, E) /\ ForgeCopie(P, E)
  /\ Forge(P, E)!VersioneUnica /\ allegata.dovuta

ForgeVere == MaxVersioni \in Nat \ {0} /\ "vuoto" \notin Sorgente /\ Valide["skill"] \subseteq Sorgente

LEMMA ForgeNessuna ==
  ASSUME NEW P, NEW E
  PROVE  /\ Forge(P, E)!Nessuna \in ForgeSchede /\ Forge(P, E)!Nessuna \notin ForgePiene
         /\ Forge(P, E)!Nessuna.versione = 0 /\ Forge(P, E)!Nessuna.impronta = "vuoto"
         /\ ForgePiene \subseteq ForgeSchede
BY DEF Forge!Nessuna, Forge!Vuoto, ForgeSchede, ForgePiene, ForgeTesti

LEMMA ForgeLibera ==
  ASSUME NEW P, NEW E
  PROVE  /\ Forge(P, E)!Libera.fase = "libera"
         /\ Forge(P, E)!Libera = [art |-> Forge(P, E)!Libera.art, nuova |-> Forge(P, E)!Libera.nuova,
              fase |-> Forge(P, E)!Libera.fase, approva |-> Forge(P, E)!Libera.approva]
BY DEF Forge!Libera

LEMMA ForgeInvIniziale ==
  ASSUME ForgeVere, NEW P, NEW E, Forge(P, E)!Init
  PROVE  ForgeInv(P, E)
<1>1. /\ scheda = [a \in P \union E |-> Forge(P, E)!Nessuna] /\ approvata \in [P \union E -> ForgeTesti]
      /\ copia \in [P \union E -> [{"py", "diff", "md"} -> ForgeTesti]]
      /\ mano = Forge(P, E)!Libera /\ importa = {} /\ versioni = {} /\ allegata.dovuta
  BY DEF Forge!Init, Forge!Artefatto, Forge!Vuoto, ForgeTesti
<1>2. ForgeTipi(P, E)
  BY <1>1, ForgeNessuna DEF ForgeTipi
<1>3. ForgeMano /\ ForgeScritta(P, E)
  BY <1>1, ForgeLibera DEF ForgeMano, ForgeScritta
<1>4. ForgeImpronte(P, E) /\ ForgeVersioni(P, E) /\ ForgeCopie(P, E)
  BY <1>1, ForgeNessuna DEF ForgeImpronte, ForgeVersioni, ForgeCopie
<1> QED BY <1>1, <1>2, <1>3, <1>4 DEF ForgeInv, Forge!VersioneUnica

\* A write begins.
LEMMA ForgeScrive ==
  ASSUME NEW P, NEW E, ForgeInv(P, E), NEW a \in P \union E, NEW n \in ForgePiene, NEW ok,
         mano = Forge(P, E)!Libera, Forge(P, E)!Scrive(a, n, ok),
         UNCHANGED <<scheda, copia, approvata, versioni, allegata, spaiate>>, importa' \subseteq E,
         n.impronta # "vuoto" => ok /\ n.impronta = n.sorgente,
         n.versione >= scheda[a].versione,
         \A v \in versioni : v[1] = a => \/ v[2] < n.versione
                                         \/ v[2] = n.versione /\ v[3] = n.sorgente
  PROVE  ForgeInv(P, E)'
<1>1. /\ mano' = [art |-> mano'.art, nuova |-> mano'.nuova, fase |-> mano'.fase, approva |-> mano'.approva]
      /\ mano'.art = a /\ mano'.nuova = n /\ mano'.fase = "pronta"
      /\ mano'.approva = ok
  BY DEF Forge!Scrive
<1>2. ForgeMano'
  BY <1>1 DEF ForgeMano
<1>3. ForgeTipi(P, E)'
  BY DEF ForgeInv, ForgeTipi, Forge!Nessuna, Forge!Vuoto
<1>4. ForgeScritta(P, E)'
  BY <1>1 DEF ForgeScritta
<1>5. ForgeImpronte(P, E)' /\ ForgeVersioni(P, E)'
  BY DEF ForgeInv, ForgeImpronte, ForgeVersioni
<1>6. ForgeCopie(P, E)'
  BY <1>1, ForgeLibera DEF ForgeInv, ForgeCopie, Forge!Nessuna, Forge!Vuoto, Forge!Estensione
<1> QED BY <1>2, <1>3, <1>4, <1>5, <1>6 DEF ForgeInv, Forge!VersioneUnica

LEMMA ForgePassoNasce ==
  ASSUME ForgeVere, NEW P, NEW E, ForgeInv(P, E), NEW tipi \in SUBSET Forge(P, E)!Tipi,
         Forge(P, E)!Nasce(tipi)
  PROVE  ForgeInv(P, E)'
<1>1. PICK a \in P, tipo \in tipi, s \in Sorgente :
        /\ Forge(P, E)!Aperto /\ ~Forge(P, E)!Esiste(a)
        /\ Forge(P, E)!Scrive(a, Forge(P, E)!Bozza(tipo, s, 1), FALSE)
        /\ UNCHANGED <<scheda, copia, importa, approvata, versioni, allegata, spaiate, aMano, fermate>>
  BY DEF Forge!Nasce
<1> DEFINE n == Forge(P, E)!Bozza(tipo, s, 1)
<1>2. n \in ForgePiene /\ n.impronta = "vuoto" /\ n.versione = 1
  BY DEF Forge!Bozza, Forge!Vuoto, Forge!Tipi, ForgePiene, ForgeTesti
<1>3. mano = Forge(P, E)!Libera /\ importa' \subseteq E /\ scheda[a].versione = 0
  BY <1>1, ForgeNessuna DEF Forge!Aperto, Forge!Esiste, ForgeInv, ForgeTipi
<1>4. \A v \in versioni : v[1] # a
  BY <1>3 DEF ForgeInv, ForgeVersioni
<1>5. /\ n.impronta # "vuoto" => FALSE /\ n.impronta = n.sorgente
      /\ n.versione >= scheda[a].versione
      /\ \A v \in versioni : v[1] = a => \/ v[2] < n.versione
                                         \/ v[2] = n.versione /\ v[3] = n.sorgente
  BY <1>2, <1>3, <1>4
<1>6. UNCHANGED <<scheda, copia, approvata, versioni, allegata, spaiate>>
      /\ Forge(P, E)!Scrive(a, n, FALSE) /\ a \in P \union E
  BY <1>1
<1> HIDE DEF n
<1> QED BY <1>2, <1>3, <1>5, <1>6, ForgeScrive

LEMMA ForgePassoAggiorna ==
  ASSUME ForgeVere, NEW P, NEW E, ForgeInv(P, E), Forge(P, E)!Aggiorna
  PROVE  ForgeInv(P, E)'
<1>1. PICK a \in P \union E, tipo \in Forge(P, E)!Tipi, s \in Sorgente :
        /\ Forge(P, E)!Aperto /\ Forge(P, E)!Esiste(a)
        /\ Forge(P, E)!Scrive(a, Forge(P, E)!Riscritta(a, tipo, s), FALSE)
        /\ UNCHANGED <<scheda, copia, importa, approvata, versioni, allegata, spaiate, aMano, fermate>>
  BY DEF Forge!Aggiorna, Forge!Artefatto
<1> DEFINE n == Forge(P, E)!Riscritta(a, tipo, s)
<1>2. scheda[a] \in ForgePiene
  BY <1>1 DEF Forge!Esiste, ForgeInv, ForgeTipi
<1>3. n \in ForgePiene /\ n.impronta = "vuoto" /\ n.versione = scheda[a].versione + 1
  BY <1>2 DEF Forge!Riscritta, Forge!Bozza, Forge!Vuoto, Forge!Tipi, ForgePiene, ForgeTesti
<1>4. mano = Forge(P, E)!Libera /\ importa' \subseteq E
  BY <1>1 DEF Forge!Aperto, ForgeInv, ForgeTipi
<1>5. scheda[a].versione \in Nat
  BY <1>2 DEF ForgePiene
<1>6. /\ n.impronta # "vuoto" => FALSE /\ n.impronta = n.sorgente
      /\ n.versione >= scheda[a].versione
      /\ \A v \in versioni : v[1] = a => \/ v[2] < n.versione
                                         \/ v[2] = n.versione /\ v[3] = n.sorgente
  BY <1>3, <1>5 DEF ForgeInv, ForgeVersioni
<1>7. UNCHANGED <<scheda, copia, approvata, versioni, allegata, spaiate>>
      /\ Forge(P, E)!Scrive(a, n, FALSE)
  BY <1>1
<1> HIDE DEF n
<1> QED BY <1>3, <1>4, <1>6, <1>7, ForgeScrive

LEMMA ForgePassoStabilisce ==
  ASSUME ForgeVere, NEW P, NEW E, ForgeInv(P, E), Forge(P, E)!Stabilisce
  PROVE  ForgeInv(P, E)'
<1>1. PICK a \in P \union E, stato \in Forge(P, E)!Stati :
        /\ Forge(P, E)!Aperto /\ Forge(P, E)!Esiste(a)
        /\ Forge(P, E)!Scrive(a,
             [scheda[a] EXCEPT !.stato = stato,
                               !.impronta = IF stato = "approved" THEN scheda[a].sorgente
                                            ELSE Forge(P, E)!Vuoto], stato = "approved")
        /\ UNCHANGED <<scheda, copia, importa, approvata, versioni, allegata, spaiate, aMano, fermate>>
  BY DEF Forge!Stabilisce, Forge!Artefatto
<1> DEFINE n == [scheda[a] EXCEPT !.stato = stato,
                                  !.impronta = IF stato = "approved" THEN scheda[a].sorgente
                                               ELSE Forge(P, E)!Vuoto]
<1>2. scheda[a] \in ForgePiene
  BY <1>1 DEF Forge!Esiste, ForgeInv, ForgeTipi
<1>3. /\ n \in ForgePiene /\ n.versione = scheda[a].versione /\ n.sorgente = scheda[a].sorgente
      /\ n.impronta # "vuoto" => stato = "approved" /\ n.impronta = n.sorgente
  BY <1>2 DEF Forge!Vuoto, Forge!Stati, ForgePiene, ForgeTesti
<1>4. mano = Forge(P, E)!Libera /\ importa' \subseteq E
  BY <1>1 DEF Forge!Aperto, ForgeInv, ForgeTipi
<1>5. scheda[a].versione \in Nat
  BY <1>2 DEF ForgePiene
<1>6. \A v \in versioni : v[1] = a => \/ v[2] < n.versione
                                      \/ v[2] = n.versione /\ v[3] = n.sorgente
  BY <1>3, <1>5 DEF ForgeInv, ForgeVersioni
<1>7. UNCHANGED <<scheda, copia, approvata, versioni, allegata, spaiate>>
      /\ Forge(P, E)!Scrive(a, n, stato = "approved") /\ n.versione >= scheda[a].versione
  BY <1>1, <1>3, <1>5
<1> HIDE DEF n
<1> QED BY <1>3, <1>4, <1>6, <1>7, ForgeScrive

LEMMA ForgePassoImporta ==
  ASSUME ForgeVere, NEW P, NEW E, ForgeInv(P, E), Forge(P, E)!ImportaUno
  PROVE  ForgeInv(P, E)'
<1>1. PICK a \in importa :
        /\ mano = Forge(P, E)!Libera /\ importa' = importa \ {a}
        /\ IF Forge(P, E)!Esiste(a) THEN UNCHANGED mano
           ELSE \E s \in Valide["skill"] :
                  Forge(P, E)!Scrive(a, Forge(P, E)!Bozza("skill", s, 1), FALSE)
        /\ UNCHANGED <<scheda, copia, approvata, versioni, allegata, spaiate, aMano, fermate>>
  BY DEF Forge!ImportaUno
<1>2. importa' \subseteq E /\ a \in P \union E
  BY <1>1 DEF ForgeInv, ForgeTipi
<1>3. CASE UNCHANGED mano
  BY <1>1, <1>2, <1>3
     DEF ForgeInv, ForgeTipi, ForgeMano, ForgeScritta, ForgeImpronte, ForgeVersioni, ForgeCopie,
         Forge!VersioneUnica, Forge!Nessuna, Forge!Vuoto, Forge!Estensione
<1>4. CASE ~Forge(P, E)!Esiste(a)
  <2>1. PICK s \in Valide["skill"] : Forge(P, E)!Scrive(a, Forge(P, E)!Bozza("skill", s, 1), FALSE)
    BY <1>1, <1>4
  <2> DEFINE n == Forge(P, E)!Bozza("skill", s, 1)
  <2>2. n \in ForgePiene /\ n.impronta = "vuoto" /\ n.versione = 1
    BY DEF Forge!Bozza, Forge!Vuoto, ForgePiene, ForgeTesti, ForgeVere
  <2>3. scheda[a].versione = 0
    BY <1>2, <1>4, ForgeNessuna DEF Forge!Esiste, ForgeInv, ForgeTipi
  <2>4. \A v \in versioni : v[1] # a
    BY <2>3 DEF ForgeInv, ForgeVersioni
  <2>5. /\ n.impronta # "vuoto" => FALSE /\ n.impronta = n.sorgente
        /\ n.versione >= scheda[a].versione
        /\ \A v \in versioni : v[1] = a => \/ v[2] < n.versione
                                           \/ v[2] = n.versione /\ v[3] = n.sorgente
    BY <2>2, <2>3, <2>4
  <2>6. UNCHANGED <<scheda, copia, approvata, versioni, allegata, spaiate>>
        /\ mano = Forge(P, E)!Libera /\ Forge(P, E)!Scrive(a, n, FALSE)
    BY <1>1, <2>1
  <2> HIDE DEF n
  <2> QED BY <1>2, <2>2, <2>5, <2>6, ForgeScrive
<1> QED BY <1>1, <1>3, <1>4

\* The lock is taken, or a chat reads a skill: nothing of the artifacts changes.
LEMMA ForgePassoChiude ==
  ASSUME ForgeVere, NEW P, NEW E, ForgeInv(P, E), Forge(P, E)!Importa \/ Forge(P, E)!Allega
  PROVE  ForgeInv(P, E)'
<1>1. UNCHANGED <<scheda, copia, mano, approvata, versioni, spaiate>> /\ importa' \subseteq E
  BY DEF Forge!Importa, Forge!Allega, ForgeInv, ForgeTipi
<1>2. allegata'.dovuta
  <2>1. CASE Forge(P, E)!Importa
    BY <2>1 DEF Forge!Importa, ForgeInv
  <2>2. CASE Forge(P, E)!Allega
    <3>1. PICK a \in P \union E :
            /\ Forge(P, E)!Usabile(scheda[a])
            /\ allegata' = [art |-> a, dovuta |-> approvata[a] = scheda[a].sorgente]
      BY <2>2 DEF Forge!Allega, Forge!Artefatto
    <3>2. approvata[a] = scheda[a].sorgente
      BY <3>1 DEF Forge!Usabile, Forge!Vuoto, ForgeInv, ForgeImpronte
    <3> QED BY <3>1, <3>2
  <2> QED BY <2>1, <2>2
<1>3. ForgeTipi(P, E)' /\ ForgeMano' /\ ForgeScritta(P, E)'
  BY <1>1 DEF ForgeInv, ForgeTipi, ForgeMano, ForgeScritta, Forge!Nessuna, Forge!Vuoto,
              Forge!Estensione
<1>4. ForgeImpronte(P, E)' /\ ForgeVersioni(P, E)' /\ ForgeCopie(P, E)'
  BY <1>1 DEF ForgeInv, ForgeImpronte, ForgeVersioni, ForgeCopie, Forge!Nessuna, Forge!Vuoto,
              Forge!Estensione
<1> QED BY <1>1, <1>2, <1>3, <1>4 DEF ForgeInv, Forge!VersioneUnica

LEMMA ForgeEstensioni ==
  ASSUME NEW P, NEW E, NEW tipo PROVE Forge(P, E)!Estensione(tipo) \in {"py", "diff", "md"}
BY DEF Forge!Estensione

LEMMA ForgePassoCopia ==
  ASSUME ForgeVere, NEW P, NEW E, ForgeInv(P, E), Forge(P, E)!PosaCopia
  PROVE  ForgeInv(P, E)'
<1> DEFINE e(tipo) == Forge(P, E)!Estensione(tipo)
<1>1. /\ mano.fase = "pronta" /\ mano' = [mano EXCEPT !.fase = "copiata"]
      /\ copia' = [copia EXCEPT ![mano.art][e(mano.nuova.tipo)] = mano.nuova.sorgente]
      /\ spaiate' = spaiate \ {mano.art}
      /\ UNCHANGED <<scheda, importa, approvata, versioni, allegata, aMano, fermate>>
  BY DEF Forge!PosaCopia
<1>2. /\ mano'.art = mano.art /\ mano'.nuova = mano.nuova /\ mano'.fase = "copiata"
      /\ mano'.approva = mano.approva /\ ForgeMano'
  BY <1>1 DEF ForgeInv, ForgeMano
<1>3. mano.art \in P \union E /\ mano.nuova \in ForgePiene
  BY <1>1 DEF ForgeInv, ForgeScritta
<1>4. /\ copia' \in [P \union E -> [{"py", "diff", "md"} -> ForgeTesti]]
      /\ \A a \in P \union E : a # mano.art => copia'[a] = copia[a]
      /\ copia'[mano.art][e(mano.nuova.tipo)] = mano.nuova.sorgente
  <2>1. e(mano.nuova.tipo) \in {"py", "diff", "md"} /\ mano.nuova.sorgente \in ForgeTesti
    BY <1>3, ForgeEstensioni DEF ForgePiene, ForgeTesti
  <2>2. copia \in [P \union E -> [{"py", "diff", "md"} -> ForgeTesti]]
    BY DEF ForgeInv, ForgeTipi
  <2> HIDE DEF e
  <2> QED BY <1>1, <1>3, <2>1, <2>2
<1>5. ForgeTipi(P, E)'
  BY <1>1, <1>4 DEF ForgeInv, ForgeTipi, Forge!Nessuna, Forge!Vuoto
<1>6. ForgeScritta(P, E)'
  BY <1>1, <1>2, <1>4 DEF ForgeInv, ForgeScritta, Forge!Estensione
<1>7. ForgeImpronte(P, E)' /\ ForgeVersioni(P, E)'
  BY <1>1 DEF ForgeInv, ForgeImpronte, ForgeVersioni
<1>8. ForgeCopie(P, E)'
  BY <1>1, <1>2, <1>4 DEF ForgeInv, ForgeCopie, Forge!Nessuna, Forge!Vuoto, Forge!Estensione
<1> QED BY <1>1, <1>2, <1>5, <1>6, <1>7, <1>8 DEF ForgeInv, Forge!VersioneUnica

LEMMA ForgePassoScheda ==
  ASSUME ForgeVere, NEW P, NEW E, ForgeInv(P, E), Forge(P, E)!PosaScheda
  PROVE  ForgeInv(P, E)'
<1>1. /\ mano.fase = "copiata" /\ mano' = Forge(P, E)!Libera
      /\ scheda' = [scheda EXCEPT ![mano.art] = mano.nuova]
      /\ approvata' = [approvata EXCEPT ![mano.art] =
           IF mano.approva THEN mano.nuova.sorgente ELSE "vuoto"]
      /\ versioni' = versioni \union {<<mano.art, mano.nuova.versione, mano.nuova.sorgente>>}
      /\ UNCHANGED <<copia, importa, allegata, spaiate, aMano, fermate>>
  BY DEF Forge!PosaScheda, Forge!Vuoto
<1>2. PICK m \in P \union E, n \in ForgePiene : m = mano.art /\ n = mano.nuova
  BY <1>1 DEF ForgeInv, ForgeScritta
<1>3. /\ n.impronta # "vuoto" => mano.approva /\ n.impronta = n.sorgente
      /\ n.versione >= scheda[m].versione
      /\ \A v \in versioni : v[1] = m => v[2] < n.versione \/ (v[2] = n.versione /\ v[3] = n.sorgente)
      /\ m \notin spaiate => copia[m][Forge(P, E)!Estensione(n.tipo)] = n.sorgente
  BY <1>1, <1>2 DEF ForgeInv, ForgeScritta
<1>4. /\ scheda' \in [P \union E -> ForgeSchede] /\ scheda'[m] = n
      /\ \A a \in P \union E : a # m => scheda'[a] = scheda[a]
  BY <1>1, <1>2, ForgeNessuna DEF ForgeInv, ForgeTipi
<1>5. /\ approvata' \in [P \union E -> ForgeTesti]
      /\ \A a \in P \union E : a # m => approvata'[a] = approvata[a]
      /\ mano.approva => approvata'[m] = n.sorgente
  BY <1>1, <1>2 DEF ForgeInv, ForgeTipi, ForgePiene, ForgeTesti
<1>6. ForgeTipi(P, E)'
  BY <1>1, <1>4, <1>5 DEF ForgeInv, ForgeTipi, Forge!Nessuna, Forge!Vuoto
<1>7. ForgeMano' /\ ForgeScritta(P, E)' /\ mano'.fase = "libera"
  BY <1>1, ForgeLibera DEF ForgeMano, ForgeScritta
<1>8. ForgeImpronte(P, E)'
  BY <1>3, <1>4, <1>5 DEF ForgeInv, ForgeImpronte
<1>9. ForgeVersioni(P, E)'
  <2> SUFFICES ASSUME NEW v \in versioni'
               PROVE  /\ v \in (P \union E) \X (Nat \ {0}) \X Sorgente
                      /\ v[2] <= scheda'[v[1]].versione
                      /\ v[2] = scheda'[v[1]].versione => v[3] = scheda'[v[1]].sorgente
    BY DEF ForgeVersioni
  <2>1. n.versione \in Nat \ {0} /\ n.sorgente \in Sorgente
    BY DEF ForgePiene
  <2>2. CASE v = <<m, n.versione, n.sorgente>>
    BY <1>4, <2>1, <2>2
  <2>3. CASE v \in versioni
    <3>1. v \in (P \union E) \X (Nat \ {0}) \X Sorgente
      BY <2>3 DEF ForgeInv, ForgeVersioni
    <3>2. CASE v[1] = m
      BY <1>3, <1>4, <2>1, <2>3, <3>1, <3>2
    <3>3. CASE v[1] # m
      BY <1>4, <2>3, <3>1, <3>3 DEF ForgeInv, ForgeVersioni
    <3> QED BY <3>2, <3>3
  <2> QED BY <1>1, <1>2, <2>2, <2>3
<1>10. ForgeCopie(P, E)'
  <2> SUFFICES ASSUME NEW a \in P \union E, a \notin spaiate, scheda'[a] # Forge(P, E)!Nessuna
               PROVE  copia[a][Forge(P, E)!Estensione(scheda'[a].tipo)] = scheda'[a].sorgente
    BY <1>1 DEF ForgeCopie, Forge!Nessuna, Forge!Vuoto, Forge!Estensione
  <2>1. CASE a = m
    BY <1>3, <1>4, <2>1
  <2>2. CASE a # m
    BY <1>1, <1>2, <1>4, <2>2 DEF ForgeInv, ForgeCopie
  <2> QED BY <2>1, <2>2
<1>11. Forge(P, E)!VersioneUnica'
  <2> SUFFICES ASSUME NEW v \in versioni', NEW w \in versioni', v[1] = w[1], v[2] = w[2]
               PROVE  v[3] = w[3]
    BY DEF Forge!VersioneUnica
  <2>1. n.versione \in Nat
    BY DEF ForgePiene
  <2>2. \A u \in versioni : u[1] = m /\ u[2] = n.versione => u[3] = n.sorgente
    BY <1>3, <2>1
  <2>3. CASE v \in versioni /\ w \in versioni
    BY <2>3 DEF ForgeInv, Forge!VersioneUnica
  <2> QED BY <1>1, <1>2, <2>2, <2>3
<1> QED BY <1>1, <1>6, <1>7, <1>8, <1>9, <1>10, <1>11 DEF ForgeInv

LEMMA ForgePassoInterrompe ==
  ASSUME ForgeVere, NEW P, NEW E, ForgeInv(P, E), Forge(P, E)!Interrompe
  PROVE  ForgeInv(P, E)'
<1>1. /\ mano.fase # "libera" /\ mano' = Forge(P, E)!Libera /\ importa' = {}
      /\ spaiate' = IF mano.fase = "copiata" THEN spaiate \union {mano.art} ELSE spaiate
      /\ UNCHANGED <<scheda, copia, approvata, versioni, allegata, aMano>>
  BY DEF Forge!Interrompe
<1>2. ForgeTipi(P, E)'
  BY <1>1 DEF ForgeInv, ForgeTipi, Forge!Nessuna, Forge!Vuoto
<1>3. ForgeMano' /\ ForgeScritta(P, E)' /\ mano'.fase = "libera"
  BY <1>1, ForgeLibera DEF ForgeMano, ForgeScritta
<1>4. ForgeImpronte(P, E)' /\ ForgeVersioni(P, E)'
  BY <1>1 DEF ForgeInv, ForgeImpronte, ForgeVersioni
<1>5. ForgeCopie(P, E)'
  BY <1>1, <1>3 DEF ForgeInv, ForgeCopie, Forge!Nessuna, Forge!Vuoto, Forge!Estensione
<1> QED BY <1>1, <1>2, <1>3, <1>4, <1>5 DEF ForgeInv, Forge!VersioneUnica

LEMMA ForgePassoMano ==
  ASSUME ForgeVere, NEW P, NEW E, ForgeInv(P, E), Forge(P, E)!ModificaCopia
  PROVE  ForgeInv(P, E)'
<1>1. PICK b \in P \union E, s \in Sorgente :
        /\ copia' = [copia EXCEPT ![b][Forge(P, E)!Estensione(scheda[b].tipo)] = s]
        /\ spaiate' = spaiate \union {b}
        /\ UNCHANGED <<scheda, mano, importa, approvata, versioni, allegata, fermate>>
  BY DEF Forge!ModificaCopia, Forge!Artefatto
<1>2. /\ copia' \in [P \union E -> [{"py", "diff", "md"} -> ForgeTesti]]
      /\ \A a \in P \union E : a # b => copia'[a] = copia[a]
  <2>1. Forge(P, E)!Estensione(scheda[b].tipo) \in {"py", "diff", "md"} /\ s \in ForgeTesti
    BY ForgeEstensioni DEF ForgeTesti
  <2>2. copia \in [P \union E -> [{"py", "diff", "md"} -> ForgeTesti]]
    BY DEF ForgeInv, ForgeTipi
  <2> QED BY <1>1, <2>1, <2>2
<1>3. ForgeTipi(P, E)' /\ ForgeMano'
  BY <1>1, <1>2 DEF ForgeInv, ForgeTipi, ForgeMano, Forge!Nessuna, Forge!Vuoto
<1>4. ForgeScritta(P, E)'
  BY <1>1, <1>2 DEF ForgeInv, ForgeScritta, Forge!Estensione
<1>5. ForgeImpronte(P, E)' /\ ForgeVersioni(P, E)'
  BY <1>1 DEF ForgeInv, ForgeImpronte, ForgeVersioni
<1>6. ForgeCopie(P, E)'
  BY <1>1, <1>2 DEF ForgeInv, ForgeCopie, Forge!Nessuna, Forge!Vuoto, Forge!Estensione
<1> QED BY <1>1, <1>3, <1>4, <1>5, <1>6 DEF ForgeInv, Forge!VersioneUnica

LEMMA ForgePassoRecord ==
  ASSUME ForgeVere, NEW P, NEW E, ForgeInv(P, E), Forge(P, E)!ModificaScheda
  PROVE  ForgeInv(P, E)'
<1>1. PICK b \in P \union E, s \in Sorgente :
        /\ Forge(P, E)!Esiste(b) /\ scheda' = [scheda EXCEPT ![b].sorgente = s]
        /\ versioni' = versioni \ {v \in versioni : v[1] = b} /\ spaiate' = spaiate \union {b}
        /\ UNCHANGED <<copia, mano, importa, approvata, allegata, fermate>>
  BY DEF Forge!ModificaScheda, Forge!Artefatto
<1>2. scheda \in [P \union E -> ForgeSchede] /\ scheda[b] \in ForgePiene
  BY <1>1 DEF Forge!Esiste, ForgeInv, ForgeTipi
<1>3. /\ scheda' \in [P \union E -> ForgeSchede] /\ scheda'[b] \in ForgePiene
      /\ \A a \in P \union E : /\ a # b => scheda'[a] = scheda[a]
                               /\ scheda'[a].versione = scheda[a].versione
                               /\ scheda'[a].impronta = scheda[a].impronta
  <2>1. [scheda[b] EXCEPT !.sorgente = s] \in ForgePiene
    BY <1>2 DEF ForgePiene
  <2>2. /\ [scheda[b] EXCEPT !.sorgente = s].versione = scheda[b].versione
        /\ [scheda[b] EXCEPT !.sorgente = s].impronta = scheda[b].impronta
    BY <1>2 DEF ForgePiene
  <2> QED BY <1>1, <1>2, <2>1, <2>2, ForgeNessuna
<1>4. ForgeTipi(P, E)' /\ ForgeMano'
  BY <1>1, <1>3 DEF ForgeInv, ForgeTipi, ForgeMano, Forge!Nessuna, Forge!Vuoto
<1>5. ForgeScritta(P, E)'
  BY <1>1, <1>3 DEF ForgeInv, ForgeScritta, Forge!Estensione
<1>6. ForgeImpronte(P, E)'
  BY <1>1, <1>3 DEF ForgeInv, ForgeImpronte
<1>7. ForgeVersioni(P, E)'
  BY <1>1, <1>3 DEF ForgeInv, ForgeVersioni
<1>8. ForgeCopie(P, E)'
  BY <1>1, <1>3 DEF ForgeInv, ForgeCopie, Forge!Nessuna, Forge!Vuoto, Forge!Estensione
<1> QED BY <1>1, <1>4, <1>5, <1>6, <1>7, <1>8 DEF ForgeInv, Forge!VersioneUnica

LEMMA ForgeInvPasso ==
  ASSUME ForgeVere, NEW P, NEW E, ForgeInv(P, E), [Forge(P, E)!Next]_(Forge(P, E)!vars)
  PROVE  ForgeInv(P, E)'
<1>1. CASE Forge(P, E)!Crea
  BY <1>1, ForgePassoNasce DEF Forge!Crea
<1>2. CASE Forge(P, E)!Genera
  <2>1. {"tool", "skill"} \in SUBSET Forge(P, E)!Tipi
    BY DEF Forge!Tipi
  <2> QED BY <1>2, <2>1, ForgePassoNasce DEF Forge!Genera
<1>3. CASE UNCHANGED Forge(P, E)!vars
  <2>1. UNCHANGED <<scheda, copia, mano, importa, approvata, versioni, allegata, spaiate>>
    BY <1>3 DEF Forge!vars
  <2> QED BY <2>1 DEF ForgeInv, ForgeTipi, ForgeMano, ForgeScritta, ForgeImpronte, ForgeVersioni,
                      ForgeCopie, Forge!VersioneUnica, Forge!Nessuna, Forge!Vuoto, Forge!Estensione
<1> QED BY <1>1, <1>2, <1>3, ForgePassoAggiorna, ForgePassoStabilisce, ForgePassoImporta,
           ForgePassoChiude, ForgePassoCopia, ForgePassoScheda, ForgePassoInterrompe,
           ForgePassoMano, ForgePassoRecord DEF Forge!Next

LEMMA ForgeInvBasta ==
  ASSUME NEW P, NEW E, ForgeInv(P, E)
  PROVE  Forge(P, E)!SoloApprovate /\ Forge(P, E)!CopiaFedele /\ Forge(P, E)!VersioneUnica
<1>1. Forge(P, E)!CopiaFedele
  BY DEF ForgeInv, ForgeCopie, Forge!CopiaFedele, Forge!Esiste, Forge!Artefatto
<1> QED BY <1>1 DEF ForgeInv, Forge!SoloApprovate

\* A write never takes an artifact back to an earlier version.
LEMMA ForgePassoAvanti ==
  ASSUME ForgeVere, NEW P, NEW E, ForgeInv(P, E), [Forge(P, E)!Next]_(Forge(P, E)!vars)
  PROVE  Forge(P, E)!PassoImporta
<1> SUFFICES ASSUME NEW a \in P \union E, scheda'[a] # scheda[a], mano.fase = "copiata"
             PROVE  scheda'[a].versione >= scheda[a].versione
  BY DEF Forge!PassoImporta, Forge!Artefatto
<1>1. scheda \in [P \union E -> ForgeSchede] /\ scheda[a].versione \in Nat
  BY DEF ForgeInv, ForgeTipi, ForgeSchede
<1>2. CASE Forge(P, E)!PosaScheda
  <2>1. scheda' = [scheda EXCEPT ![mano.art] = mano.nuova] /\ mano.fase # "libera"
    BY <1>2 DEF Forge!PosaScheda
  <2>2. mano.art = a /\ scheda'[a] = mano.nuova
    BY <1>1, <2>1
  <2> QED BY <2>1, <2>2 DEF ForgeInv, ForgeScritta
<1>3. CASE Forge(P, E)!ModificaScheda
  <2>1. PICK b \in P \union E, s \in Sorgente : scheda' = [scheda EXCEPT ![b].sorgente = s]
    BY <1>3 DEF Forge!ModificaScheda, Forge!Artefatto
  <2>2. scheda'[a] = [scheda[a] EXCEPT !.sorgente = s]
    BY <1>1, <2>1
  <2>3. [scheda[a] EXCEPT !.sorgente = s].versione = scheda[a].versione
    BY <1>1 DEF ForgeSchede
  <2> QED BY <1>1, <2>2, <2>3
<1>4. CASE scheda' = scheda
  BY <1>4
<1> QED BY <1>2, <1>3, <1>4
     DEF Forge!Next, Forge!vars, Forge!Crea, Forge!Genera, Forge!Nasce, Forge!Aggiorna,
         Forge!Stabilisce, Forge!Importa, Forge!ImportaUno, Forge!PosaCopia, Forge!Interrompe,
         Forge!ModificaCopia, Forge!Allega

-----------------------------------------------------------------------------
(* What is remembered of a contact: InstagramTurns. *)

TurRighe == [turni : Seq([seq : Nat, id : Nat]), riassunto : SUBSET Nat, sequenza : Nat]
TurLavori == [pc : {"fermo", "valuta", "modello"}, prima : SUBSET Nat, presi : SUBSET Nat,
              taglio : Nat, vista : Nat]

\* A row is in order, and tells of what was said up to now.
TurInOrdine(s) == \A i, j \in DOMAIN s : i < j => s[i].seq < s[j].seq /\ s[i].id < s[j].id
TurRiga(r, fino) ==
  /\ r \in TurRighe
  /\ Len(r.turni) <= MaxTurni /\ TurInOrdine(r.turni)
  /\ \A i \in DOMAIN r.turni :
       r.turni[i].seq \in 1..r.sequenza /\ r.turni[i].id \in 1..fino
  /\ r.riassunto \subseteq 1..fino

\* A worker that waits for its summary took some turns.
TurPreso(l, fino) ==
  l.pc = "modello" => l.prima \subseteq 1..fino /\ l.presi \subseteq 1..fino /\ l.presi # {}

TurForma ==
  /\ detti \in Nat /\ zero \in 0..detti /\ lasciati \subseteq Nat
  /\ misto \in BOOLEAN /\ smarrito \in BOOLEAN
  /\ TurRiga(contatto, detti) /\ TurRiga(file, detti)
  /\ lavora \in [Squadra -> TurLavori]
  /\ \A w \in Squadra : lavora[w].vista <= zero /\ TurPreso(lavora[w], detti)

\* The ids of the turns of a row.
TurIds(s) == {s[i].id : i \in DOMAIN s}

\* What is remembered, while no summary crossed a clear or another.
TurRicordo(r, d, z, l) ==
  /\ z + 1..d \subseteq TurIds(r.turni) \union r.riassunto \union l
  /\ TurIds(r.turni) \intersect r.riassunto = {}
  /\ \A id \in TurIds(r.turni) \union r.riassunto : id > z
  /\ r.sequenza = d - z

\* A summary that would still be the next one: it is of turns of this row, those before its
\* cutoff.
TurAttuale(r, z, l) ==
  l.pc = "modello" /\ l.vista = z =>
    /\ l.prima \subseteq r.riassunto
    /\ l.prima = r.riassunto =>
         /\ l.presi \intersect r.riassunto = {} /\ (\A id \in l.presi : id > z)
         /\ l.taglio <= r.sequenza
         /\ \A i \in DOMAIN r.turni : r.turni[i].seq <= l.taglio <=> r.turni[i].id \in l.presi

TurPuro ==
  misto \/ smarrito \/
    /\ TurRicordo(contatto, detti, zero, lasciati)
    /\ \A w \in Squadra : TurAttuale(contatto, zero, lavora[w])

TurInv == TurForma /\ TurPuro

\* A set of naturals that is not empty has a least one.
LEMMA TurMinimo ==
  ASSUME NEW q, q \subseteq Nat, q # {}
  PROVE  \E t \in q : \A y \in q : t <= y
<1> DEFINE R == OpToRel(<, Nat)
<1>1. IsWellFoundedOn(R, Nat)  BY NatLessThanWellFounded
<1>2. \A x, y \in Nat : x < y => <<x, y>> \in R  BY DEF OpToRel
<1> HIDE DEF R
<1>3. PICK t \in q : \A y \in q : ~(<<y, t>> \in R)  BY <1>1, WFMin
<1>4. ASSUME NEW y \in q
      PROVE  t <= y
  <2>1. y \in Nat /\ t \in Nat  OBVIOUS
  <2>2. ~(y < t)  BY <2>1, <1>2, <1>3
  <2> QED BY <2>1, <2>2
<1> QED BY <1>4

\* What follows the cutoff in turns in order is their end.
LEMMA TurDopo ==
  ASSUME NEW s \in Seq([seq : Nat, id : Nat]), TurInOrdine(s), NEW c \in Nat
  PROVE  \E m \in 0..Len(s) :
           /\ \A i \in DOMAIN s : s[i].seq > c <=> i > m
           /\ Tur!Dopo(s, c) \in Seq([seq : Nat, id : Nat])
           /\ Len(Tur!Dopo(s, c)) = Len(s) - m
           /\ \A i \in 1..(Len(s) - m) : Tur!Dopo(s, c)[i] = s[i + m]
<1> DEFINE T == [seq : Nat, id : Nat]
           A == {i \in 0..Len(s) : \A j \in 1..Len(s) : j > i => s[j].seq > c}
<1>t. s \in Seq(T)
  OBVIOUS
<1>u. \A t \in T : t.seq \in Nat
  OBVIOUS
<1> HIDE DEF T
<1>1. Len(s) \in Nat /\ DOMAIN s = 1..Len(s) /\ \A i \in 1..Len(s) : s[i] \in T /\ s[i].seq \in Nat
  BY <1>t, <1>u
<1>2. Len(s) \in A /\ A \subseteq Nat
  BY <1>1
<1>3. PICK m \in A : \A y \in A : m <= y
  <2> HIDE DEF A
  <2> QED BY <1>2, TurMinimo
<1>m. m \in Nat /\ m <= Len(s) /\ Len(s) \in Nat  BY <1>1
<1>4. ASSUME NEW i \in 1..Len(s)
      PROVE  s[i].seq > c <=> i > m
  <2>1. CASE i > m
    BY <2>1
  <2>2. CASE ~(i > m) /\ s[i].seq > c
    <3>1. m \in 1..Len(s) /\ m - 1 \in 0..Len(s)  BY <2>2, <1>1
    <3>2. s[m].seq \in Nat /\ s[i].seq \in Nat  BY <3>1, <1>1
    <3>3. s[m].seq > c
      <4>1. CASE i = m  BY <4>1, <2>2
      <4>2. CASE i < m
        <5>1. s[i].seq < s[m].seq  BY <4>2, <3>1, <1>1 DEF TurInOrdine
        <5> DEFINE x == s[i].seq
                   y == s[m].seq
        <5>2. x \in Nat /\ y \in Nat /\ x < y /\ x > c  BY <5>1, <3>2, <2>2
        <5> HIDE DEF x, y
        <5>3. y > c  BY <5>2
        <5> QED BY <5>3 DEF y
      <4> QED BY <4>1, <4>2, <2>2, <3>1
    <3>4. m - 1 \in A
      <4> SUFFICES ASSUME NEW j \in 1..Len(s), j > m - 1 PROVE s[j].seq > c
        BY <3>1, <1>1
      <4>1. j = m \/ j > m  BY <3>1, <1>1
      <4> QED BY <4>1, <3>3
    <3>5. m <= m - 1  BY <3>4, <1>3
    <3> QED BY <3>1, <3>5, <1>m
  <2> QED BY <2>1, <2>2
<1> DEFINE G(f, n) == IF n = 0 THEN <<>>
                      ELSE IF s[n].seq > c THEN Append(f[n - 1], s[n]) ELSE f[n - 1]
           U(f) == f = [n \in 0..Len(s) |-> G(f, n)]
           finale(n) == [i \in 1..(IF n > m THEN n - m ELSE 0) |-> s[i + m]]
           g == [n \in 0..Len(s) |-> finale(n)]
           d == CHOOSE f : U(f)
<1> HIDE DEF A
<1>5. \A n \in 0..Len(s) : finale(n) \in Seq(T) /\ Len(finale(n)) = (IF n > m THEN n - m ELSE 0)
  <2> TAKE n \in 0..Len(s)
  <2>1. (IF n > m THEN n - m ELSE 0) \in Nat  BY <1>m
  <2>2. \A i \in 1..(IF n > m THEN n - m ELSE 0) : i + m \in 1..Len(s)  BY <1>m
  <2>3. \A i \in 1..(IF n > m THEN n - m ELSE 0) : s[i + m] \in T  BY <2>2, <1>1
  <2> DEFINE k == IF n > m THEN n - m ELSE 0
             f == [i \in 1..k |-> s[i + m]]
  <2>4. k \in Nat /\ \A i \in 1..k : s[i + m] \in T  BY <2>1, <2>3
  <2> HIDE DEF k, T
  <2>5. f \in Seq(T) /\ Len(f) = k  BY <2>4
  <2> QED BY <2>5 DEF k
<1>5b. \A n \in 0..Len(s) : \A i \in 1..(n - m) : finale(n)[i] = s[i + m]
  <2> TAKE n \in 0..Len(s)
  <2> TAKE i \in 1..(n - m)
  <2>1. n > m  BY <1>m
  <2> QED BY <2>1
<1> HIDE DEF finale
<1>6. ASSUME NEW n \in 0..Len(s)
      PROVE  g[n] = G(g, n)
  <2>0. n \in Nat  OBVIOUS
  <2>1. CASE n = 0
    <3>1. finale(0) \in Seq(T) /\ Len(finale(0)) = 0  BY <1>m, <1>5, <2>1
    <3>2. finale(0) = <<>>  BY <3>1
    <3> QED BY <3>2, <2>1
  <2>2. CASE n # 0 /\ n <= m
    <3>1. n \in 1..Len(s) /\ ~(s[n].seq > c) /\ n - 1 \in 0..Len(s)  BY <2>2, <1>4, <1>m
    <3>2. /\ finale(n) \in Seq(T) /\ Len(finale(n)) = 0
          /\ finale(n - 1) \in Seq(T) /\ Len(finale(n - 1)) = 0
      <4>1. n \in 0..Len(s) /\ ~(n > m) /\ ~(n - 1 > m)  BY <2>0, <2>2, <1>m
      <4> QED BY <4>1, <3>1, <1>5
    <3>3. finale(n) = <<>> /\ finale(n - 1) = <<>>  BY <3>2
    <3>4. g[n] = finale(n) /\ g[n - 1] = finale(n - 1)  BY <3>1
    <3> QED BY <3>1, <3>3, <3>4, <2>2
  <2>3. CASE n > m
    <3>1. n \in 1..Len(s) /\ s[n].seq > c /\ n - 1 \in 0..Len(s) /\ s[n] \in T
      BY <2>3, <1>4, <1>m, <1>1
    <3>2. finale(n - 1) \in Seq(T)
      BY <3>1, <1>5
    <3>3. finale(n) \in Seq(T) /\ Len(finale(n)) = n - m
      BY <1>5, <2>3, <1>m
    <3>4. Len(finale(n - 1)) = n - 1 - m
      <4>1. CASE n - 1 > m  BY <4>1, <3>1, <1>5
      <4>2. CASE n - 1 = m
        <5>1. Len(finale(n - 1)) = 0  BY <4>2, <3>1, <1>5, <1>m
        <5> QED BY <5>1, <4>2
      <4> QED BY <4>1, <4>2, <2>3, <1>m, <2>0
    <3>5. n - 1 - m \in Nat /\ n - m \in Nat /\ (n - 1 - m) + 1 = n - m
      BY <2>3, <1>m, <2>0
    <3> DEFINE p == finale(n)
               q == Append(finale(n - 1), s[n])
    <3>6. /\ q \in Seq(T) /\ Len(q) = n - m /\ q[n - m] = s[n]
          /\ \A i \in 1..(n - 1 - m) : q[i] = finale(n - 1)[i]
      <4> DEFINE v == finale(n - 1)
                 k == n - 1 - m
                 h == Append(v, s[n])
      <4>1. v \in Seq(T) /\ Len(v) = k /\ k \in Nat /\ s[n] \in T  BY <3>1, <3>2, <3>4, <3>5
      <4> HIDE DEF v, k
      <4>2. /\ h \in Seq(T) /\ Len(h) = k + 1 /\ h[k + 1] = s[n]
            /\ \A i \in 1..k : h[i] = v[i]
        BY <4>1
      <4> QED BY <4>2, <3>5 DEF v, k
    <3>7. \A i \in 1..(n - 1 - m) : finale(n - 1)[i] = s[i + m]
      BY <3>1, <1>5b
    <3>8. \A i \in 1..(n - m) : p[i] = s[i + m]
      BY <1>5b
    <3>9. \A i \in 1..(n - m) : i \in 1..(n - 1 - m) \/ (i = n - m /\ i + m = n)
      BY <2>0, <1>m
    <3> HIDE DEF q
    <3>10. \A i \in 1..(n - m) : p[i] = q[i]
      BY <3>6, <3>7, <3>8, <3>9
    <3> HIDE DEF p
    <3>11. p \in Seq(T) /\ Len(p) = n - m
      BY <3>3 DEF p
    <3>12. p = q
      BY <3>6, <3>10, <3>11, SeqEqual
    <3>13. g[n] = p /\ g[n - 1] = finale(n - 1)  BY <3>1 DEF p
    <3> QED BY <3>1, <3>12, <3>13, <2>0, <1>m DEF q
  <2>4. n = 0 \/ (n # 0 /\ n <= m) \/ n > m  BY <2>0, <1>m
  <2> HIDE DEF g, G
  <2> QED BY <2>1, <2>2, <2>3, <2>4
<1>7. U(g)
  <2>1. g = [n \in 0..Len(s) |-> g[n]]  OBVIOUS
  <2> HIDE DEF g
  <2> QED BY <2>1, <1>6
<1>8. U(d)
  <2> HIDE DEF U
  <2> QED BY <1>7
<1> HIDE DEF g, d
<1>9. d = g
  <2> SUFFICES ASSUME d # g PROVE FALSE
    OBVIOUS
  <2>1. d = [n \in 0..Len(s) |-> d[n]] /\ g = [n \in 0..Len(s) |-> g[n]]
    BY <1>8, <1>7
  <2>2. \A n \in 0..Len(s) : d[n] = G(d, n) /\ g[n] = G(g, n)
    BY <1>8, <1>7
  <2> DEFINE B == {n \in 0..Len(s) : d[n] # g[n]}
  <2>3. B # {} /\ B \subseteq Nat
    BY <2>1
  <2>4. PICK n \in B : \A y \in B : n <= y
    <3> HIDE DEF B
    <3> QED BY <2>3, TurMinimo
  <2>5. n \in 0..Len(s) /\ d[n] # g[n]  OBVIOUS
  <2>6. CASE n = 0
    BY <2>6, <2>2, <2>5
  <2>7. CASE n # 0
    <3>1. n - 1 \in 0..Len(s) /\ ~(n <= n - 1)  BY <2>7, <2>5, <1>m
    <3>3. d[n - 1] = g[n - 1]  BY <3>1, <2>4
    <3> QED BY <3>3, <2>2, <2>5
  <2> QED BY <2>6, <2>7
<1>10. Tur!Dopo(s, c) = d[Len(s)]
  BY DEF Tur!Dopo, d
<1>11. Tur!Dopo(s, c) = finale(Len(s))
  BY <1>9, <1>10 DEF g
<1>11b. Seq(T) = Seq([seq : Nat, id : Nat])  BY DEF T
<1>12. finale(Len(s)) \in Seq(T) /\ Len(finale(Len(s))) = Len(s) - m
  <2>1. Len(s) \in 0..Len(s) /\ (Len(s) > m \/ Len(s) - m = 0)  BY <1>m
  <2> QED BY <2>1, <1>5, <1>m
<1>13. \A i \in 1..(Len(s) - m) : finale(Len(s))[i] = s[i + m]
  <2>1. Len(s) \in 0..Len(s)  BY <1>m
  <2> QED BY <2>1, <1>5b
<1>14. m \in 0..Len(s)  BY <1>m
<1>15. \A i \in DOMAIN s : s[i].seq > c <=> i > m  BY <1>4
<1> QED BY <1>14, <1>15, <1>11, <1>11b, <1>12, <1>13

\* The last turns are all of them, or all but the first.
LEMMA TurUltimi ==
  ASSUME Tur!InstagramTurnsAssumption, NEW T, NEW s \in Seq(T), Len(s) <= MaxTurni + 1
  PROVE  \E k \in {0, 1} :
           /\ k = 1 <=> Len(s) > MaxTurni
           /\ Tur!Ultimi(s) \in Seq(T) /\ Len(Tur!Ultimi(s)) = Len(s) - k
           /\ \A i \in 1..(Len(s) - k) : Tur!Ultimi(s)[i] = s[i + k]
<1>0. MaxTurni \in Nat /\ MaxTurni >= 1 /\ Len(s) \in Nat
  BY DEF Tur!InstagramTurnsAssumption
<1>1. CASE Len(s) > MaxTurni
  <2>1. Len(s) - MaxTurni + 1 = 2  BY <1>0, <1>1
  <2>2. Tur!Ultimi(s) = SubSeq(s, 2, Len(s))  BY <1>1, <2>1 DEF Tur!Ultimi
  <2>3. \A i \in 2..Len(s) : s[i] \in T  OBVIOUS
  <2>4. /\ SubSeq(s, 2, Len(s)) \in Seq(T) /\ Len(SubSeq(s, 2, Len(s))) = Len(s) - 1
        /\ \A i \in 1..(Len(s) - 1) : SubSeq(s, 2, Len(s))[i] = s[i + 1]
    BY <1>0, <1>1, <2>3
  <2> QED BY <1>1, <2>2, <2>4
<1>2. CASE ~(Len(s) > MaxTurni)
  <2>1. Tur!Ultimi(s) = SubSeq(s, 1, Len(s))  BY <1>2 DEF Tur!Ultimi
  <2>2. /\ SubSeq(s, 1, Len(s)) \in Seq(T) /\ Len(SubSeq(s, 1, Len(s))) = Len(s)
        /\ \A i \in 1..Len(s) : SubSeq(s, 1, Len(s))[i] = s[i]
    BY <1>0
  <2> QED BY <1>0, <1>2, <2>1, <2>2
<1> QED BY <1>1, <1>2

\* What a row holds.
LEMMA TurVoci ==
  ASSUME NEW d \in Nat, NEW r, TurRiga(r, d)
  PROVE  /\ r.turni \in Seq([seq : Nat, id : Nat]) /\ Len(r.turni) \in Nat
         /\ DOMAIN r.turni = 1..Len(r.turni) /\ r.sequenza \in Nat
         /\ r.riassunto \subseteq 1..d
         /\ \A i \in DOMAIN r.turni :
              /\ r.turni[i] \in [seq : Nat, id : Nat]
              /\ r.turni[i].seq \in Nat /\ r.turni[i].seq \in 1..r.sequenza
              /\ r.turni[i].id \in Nat /\ r.turni[i].id \in 1..d
<1> DEFINE T == [seq : Nat, id : Nat]
<1>1. r.turni \in Seq(T) /\ r.sequenza \in Nat
  BY DEF TurRiga, TurRighe
<1>t. \A t \in T : t.seq \in Nat /\ t.id \in Nat
  OBVIOUS
<1> HIDE DEF T
<1>2. DOMAIN r.turni = 1..Len(r.turni) /\ Len(r.turni) \in Nat
  BY <1>1
<1>3. \A i \in DOMAIN r.turni : r.turni[i] \in T
  BY <1>1, <1>2
<1>4. \A i \in DOMAIN r.turni : r.turni[i].seq \in 1..r.sequenza /\ r.turni[i].id \in 1..d
  BY DEF TurRiga
<1>5. r.riassunto \subseteq 1..d
  BY DEF TurRiga
<1> QED BY <1>1, <1>2, <1>3, <1>4, <1>5, <1>t DEF T

\* The end of turns in order is in order.
LEMMA TurFine ==
  ASSUME NEW s \in Seq([seq : Nat, id : Nat]), TurInOrdine(s), NEW m \in 0..Len(s),
         NEW q \in Seq([seq : Nat, id : Nat]), Len(q) = Len(s) - m,
         \A i \in 1..(Len(s) - m) : q[i] = s[i + m]
  PROVE  TurInOrdine(q) /\ \A i \in DOMAIN q : i + m \in DOMAIN s /\ q[i] = s[i + m]
<1>1. Len(s) \in Nat /\ DOMAIN s = 1..Len(s) /\ DOMAIN q = 1..(Len(s) - m) /\ m \in Nat
  OBVIOUS
<1>2. \A i \in DOMAIN q : i + m \in DOMAIN s /\ q[i] = s[i + m]
  <2> TAKE i \in DOMAIN q
  <2>1. i \in 1..(Len(s) - m)  BY <1>1
  <2>2. \A a, b, c \in Nat : c \in 1..(a - b) => c + b \in 1..a  OBVIOUS
  <2>3. i \in Nat  BY <2>1
  <2>4. i + m \in 1..Len(s)  BY <1>1, <2>1, <2>2, <2>3
  <2> QED BY <1>1, <2>1, <2>4
<1>3. \A i, j \in DOMAIN q : i < j => i + m < j + m
  BY <1>1
<1> QED BY <1>2, <1>3 DEF TurInOrdine

\* A row stays in order as more is said; an empty one is.
LEMMA TurRigaCresce ==
  ASSUME NEW d \in Nat, NEW e \in Nat, d <= e, NEW r, TurRiga(r, d)
  PROVE  TurRiga(r, e)
<1>1. 1..d \subseteq 1..e
  OBVIOUS
<1> QED BY <1>1 DEF TurRiga

LEMMA TurNuova ==
  ASSUME Tur!InstagramTurnsAssumption, NEW d \in Nat
  PROVE  TurRiga(Tur!Nuova, d) /\ TurIds(Tur!Nuova.turni) = {}
<1>1. <<>> \in Seq([seq : Nat, id : Nat]) /\ Len(<<>>) = 0 /\ DOMAIN <<>> = {}
  OBVIOUS
<1>2. Tur!Nuova.turni = <<>> /\ Tur!Nuova.riassunto = {} /\ Tur!Nuova.sequenza = 0
  BY DEF Tur!Nuova
<1>3. Tur!Nuova \in TurRighe
  BY <1>1 DEF Tur!Nuova, TurRighe
<1>4. 0 <= MaxTurni
  BY DEF Tur!InstagramTurnsAssumption
<1> QED BY <1>1, <1>2, <1>3, <1>4 DEF TurRiga, TurInOrdine, TurIds

\* The saved row is the new one, or the old.
LEMMA TurSalva ==
  ASSUME NEW d \in Nat, NEW e \in Nat, d <= e, TurRiga(file, d), TurRiga(contatto', e), Tur!Salva
  PROVE  TurRiga(file', e)
<1>1. file' = contatto' \/ file' = file
  BY DEF Tur!Salva
<1>2. TurRiga(file, e)
  BY TurRigaCresce
<1> QED BY <1>1, <1>2

\* A turn is said: it goes after the others, and the first may fall out.
LEMMA TurAggiunge ==
  ASSUME Tur!InstagramTurnsAssumption, TurForma, Tur!Aggiunge
  PROVE  /\ detti' = detti + 1 /\ detti' \in Nat
         /\ lasciati' \subseteq Nat /\ lasciati \subseteq lasciati'
         /\ TurRiga(contatto', detti') /\ TurRiga(file', detti')
         /\ contatto'.riassunto = contatto.riassunto
         /\ contatto'.sequenza = contatto.sequenza + 1
         /\ \A i \in DOMAIN contatto'.turni :
              \/ \E h \in DOMAIN contatto.turni : contatto'.turni[i] = contatto.turni[h]
              \/ contatto'.turni[i] = [seq |-> contatto.sequenza + 1, id |-> detti + 1]
         /\ TurIds(contatto.turni) \union {detti + 1} \union lasciati
              \subseteq TurIds(contatto'.turni) \union lasciati'
<1> DEFINE T == [seq : Nat, id : Nat]
           nuovo == [seq |-> contatto.sequenza + 1, id |-> detti + 1]
           s == contatto.turni
           tutti == Append(s, nuovo)
           n == Len(s)
<1>1. /\ s \in Seq(T) /\ n \in Nat /\ DOMAIN s = 1..n /\ contatto.sequenza \in Nat
      /\ contatto.riassunto \subseteq 1..detti /\ detti \in Nat
      /\ \A i \in DOMAIN s : /\ s[i] \in T /\ s[i].seq \in 1..contatto.sequenza
                             /\ s[i].id \in 1..detti /\ s[i].id \in Nat
  BY TurVoci DEF TurForma
<1>2. nuovo \in T /\ nuovo.seq = contatto.sequenza + 1 /\ nuovo.id = detti + 1
  BY <1>1
<1>3. n <= MaxTurni /\ TurInOrdine(s)
  BY DEF TurForma, TurRiga
<1> HIDE DEF T, nuovo, s
<1>4. /\ tutti \in Seq(T) /\ Len(tutti) = n + 1 /\ tutti[n + 1] = nuovo
      /\ \A i \in 1..n : tutti[i] = s[i]
  BY <1>1, <1>2
<1> HIDE DEF tutti, n
<1>5. PICK k \in {0, 1} :
        /\ k = 1 <=> Len(tutti) > MaxTurni
        /\ Tur!Ultimi(tutti) \in Seq(T) /\ Len(Tur!Ultimi(tutti)) = Len(tutti) - k
        /\ \A i \in 1..(Len(tutti) - k) : Tur!Ultimi(tutti)[i] = tutti[i + k]
  <2>1. Len(tutti) <= MaxTurni + 1
    BY <1>1, <1>3, <1>4 DEF Tur!InstagramTurnsAssumption
  <2>2. tutti \in Seq(T)
    BY <1>4
  <2> QED BY <2>1, <2>2, TurUltimi
<1> DEFINE q == Tur!Ultimi(tutti)
<1>6. /\ detti' = detti + 1 /\ Tur!Salva
      /\ contatto' = [contatto EXCEPT !.turni = q, !.sequenza = @ + 1]
      /\ lasciati' = IF Len(tutti) > MaxTurni THEN lasciati \union {tutti[1].id} ELSE lasciati
  BY DEF Tur!Aggiunge, tutti, nuovo, s
<1> HIDE DEF q
<1>7. contatto \in TurRighe
  BY DEF TurForma, TurRiga
<1>8. /\ contatto'.turni = q /\ contatto'.sequenza = contatto.sequenza + 1
      /\ contatto'.riassunto = contatto.riassunto
  BY <1>6, <1>7 DEF TurRighe
<1>9. q \in Seq(T) /\ Len(q) = n + 1 - k /\ DOMAIN q = 1..(n + 1 - k)
      /\ \A i \in 1..(n + 1 - k) : q[i] = tutti[i + k]
  <2>1. q \in Seq(T) /\ Len(q) = Len(tutti) - k /\ \A i \in 1..(Len(tutti) - k) : q[i] = tutti[i + k]
    BY <1>5 DEF q
  <2>2. DOMAIN q = 1..Len(q)
    BY <2>1
  <2>3. Len(q) = n + 1 - k
    BY <2>1, <1>1, <1>4
  <2> QED BY <2>1, <2>2, <2>3, <1>4
<1>10. contatto' \in TurRighe
  <2>1. TurRighe = [turni : Seq(T), riassunto : SUBSET Nat, sequenza : Nat]
    BY DEF TurRighe, T
  <2>2. contatto.sequenza + 1 \in Nat
    BY <1>1
  <2> QED BY <1>6, <1>7, <1>9, <2>1, <2>2
<1>11. \A i \in 1..(n + 1) : (i \in 1..n /\ tutti[i] = s[i]) \/ (i = n + 1 /\ tutti[i] = nuovo)
  <2> TAKE i \in 1..(n + 1)
  <2>1. i \in 1..n \/ i = n + 1  BY <1>1
  <2> QED BY <2>1, <1>4
<1>12. TurInOrdine(tutti) /\ \A i \in 1..(n + 1) :
         tutti[i].seq \in 1..(contatto.sequenza + 1) /\ tutti[i].id \in 1..(detti + 1)
  <2>1. ASSUME NEW i \in 1..(n + 1)
        PROVE  tutti[i].seq \in 1..(contatto.sequenza + 1) /\ tutti[i].id \in 1..(detti + 1)
    <3>1. CASE i \in 1..n /\ tutti[i] = s[i]
      <4>1. s[i].seq \in 1..contatto.sequenza /\ s[i].id \in 1..detti
        BY <3>1, <1>1
      <4> QED BY <3>1, <4>1, <1>1
    <3>2. CASE tutti[i] = nuovo
      BY <3>2, <1>1, <1>2
    <3> QED BY <3>1, <3>2, <1>11
  <2>2. DOMAIN tutti = 1..(n + 1)
    BY <1>1, <1>4
  <2>3. ASSUME NEW i \in 1..(n + 1), NEW j \in 1..(n + 1), i < j
        PROVE  tutti[i].seq < tutti[j].seq /\ tutti[i].id < tutti[j].id
    <3>1. i \in 1..n /\ tutti[i] = s[i]
      BY <2>3, <1>1, <1>11
    <3>2. CASE j = n + 1 /\ tutti[j] = nuovo
      <4>1. s[i].seq \in 1..contatto.sequenza /\ s[i].id \in 1..detti
        BY <3>1, <1>1
      <4>2. s[i].seq < contatto.sequenza + 1 /\ s[i].id < detti + 1
        BY <4>1, <1>1
      <4> QED BY <3>1, <3>2, <4>2, <1>2
    <3>3. CASE j \in 1..n /\ tutti[j] = s[j]
      BY <3>1, <3>3, <2>3, <1>1, <1>3 DEF TurInOrdine
    <3> QED BY <3>2, <3>3, <1>11
  <2> QED BY <2>1, <2>2, <2>3 DEF TurInOrdine
<1>13. TurInOrdine(q) /\ \A i \in DOMAIN q : i + k \in 1..(n + 1) /\ q[i] = tutti[i + k]
  <2>1. k \in 0..Len(tutti) /\ Len(q) = Len(tutti) - k /\ DOMAIN tutti = 1..(n + 1)
        /\ \A i \in 1..(Len(tutti) - k) : q[i] = tutti[i + k]
    BY <1>1, <1>4, <1>9
  <2>2. tutti \in Seq([seq : Nat, id : Nat]) /\ q \in Seq([seq : Nat, id : Nat])
    BY <1>4, <1>9 DEF T
  <2>3. TurInOrdine(q) /\ \A i \in DOMAIN q : i + k \in DOMAIN tutti /\ q[i] = tutti[i + k]
    <3> HIDE DEF q, tutti
    <3> QED BY <2>1, <2>2, <1>12, TurFine
  <2> QED BY <2>1, <2>3
<1>14. Len(q) <= MaxTurni
  BY <1>1, <1>3, <1>4, <1>5, <1>9 DEF Tur!InstagramTurnsAssumption
<1>15. TurRiga(contatto', detti')
  <2>1. \A i \in DOMAIN q : q[i].seq \in 1..(contatto.sequenza + 1) /\ q[i].id \in 1..(detti + 1)
    BY <1>12, <1>13
  <2>2. 1..detti \subseteq 1..(detti + 1)
    BY <1>1
  <2> QED BY <2>1, <2>2, <1>1, <1>6, <1>8, <1>10, <1>13, <1>14 DEF TurRiga
<1>16. TurRiga(file', detti')
  <2>1. TurRiga(file, detti) /\ detti' \in Nat /\ detti <= detti'
    BY <1>1, <1>6 DEF TurForma
  <2> QED BY <2>1, <1>1, <1>6, <1>15, TurSalva
<1>17. ASSUME NEW i \in DOMAIN q
       PROVE  (\E h \in DOMAIN s : q[i] = s[h]) \/ q[i] = nuovo
  BY <1>1, <1>11, <1>13
<1>18. TurIds(s) \union {detti + 1} \subseteq TurIds(q) \union (IF k = 1 THEN {tutti[1].id} ELSE {})
  <2>1. \A i \in 1..(n + 1) : tutti[i].id \in TurIds(q) \union (IF k = 1 THEN {tutti[1].id} ELSE {})
    <3> TAKE i \in 1..(n + 1)
    <3>1. CASE i - k \in 1..(n + 1 - k)
      <4>1. q[i - k] = tutti[i] /\ i - k \in DOMAIN q
        BY <3>1, <1>1, <1>9
      <4> QED BY <4>1 DEF TurIds
    <3>2. CASE k = 1 /\ i = 1
      BY <3>2
    <3> QED BY <3>1, <3>2, <1>1
  <2>2. \A i \in DOMAIN s : i \in 1..(n + 1) /\ tutti[i].id = s[i].id
    BY <1>1, <1>4
  <2>3. n + 1 \in 1..(n + 1) /\ tutti[n + 1].id = detti + 1
    BY <1>1, <1>2, <1>4
  <2> QED BY <2>1, <2>2, <2>3 DEF TurIds
<1>19. lasciati' = lasciati \union (IF k = 1 THEN {tutti[1].id} ELSE {})
  BY <1>5, <1>6
<1>20. tutti[1].id \in Nat /\ lasciati \subseteq Nat
  BY <1>1, <1>12 DEF TurForma
<1> HIDE DEF q
<1> QED BY <1>1, <1>6, <1>8, <1>15, <1>16, <1>17, <1>18, <1>19, <1>20 DEF s, nuovo

LEMMA TurInvIniziale == Tur!InstagramTurnsAssumption /\ Tur!Init => TurInv
<1> SUFFICES ASSUME Tur!InstagramTurnsAssumption, Tur!Init PROVE TurInv
  OBVIOUS
<1>1. /\ contatto = Tur!Nuova /\ file = Tur!Nuova /\ lavora = [w \in Squadra |-> Tur!Libero]
      /\ detti = 0 /\ zero = 0 /\ lasciati = {} /\ misto = FALSE /\ smarrito = FALSE
  BY DEF Tur!Init
<1>2. TurRiga(Tur!Nuova, 0) /\ TurIds(Tur!Nuova.turni) = {}
  BY TurNuova
<1>3. Tur!Libero \in TurLavori /\ Tur!Libero.vista = 0 /\ Tur!Libero.pc = "fermo"
  BY DEF Tur!Libero, TurLavori
<1>3b. lavora \in [Squadra -> TurLavori] /\ \A w \in Squadra : lavora[w] = Tur!Libero
  BY <1>1, <1>3
<1>4. TurForma
  <2>1. \A w \in Squadra : lavora[w].vista <= zero /\ TurPreso(lavora[w], detti)
    BY <1>1, <1>3, <1>3b DEF TurPreso
  <2>2. /\ detti \in Nat /\ zero \in 0..detti
    BY <1>1
  <2>2b. lasciati \subseteq Nat /\ misto \in BOOLEAN /\ smarrito \in BOOLEAN
    BY <1>1, Zenon
  <2>3. TurRiga(contatto, detti) /\ TurRiga(file, detti)
    BY <1>1, <1>2
  <2> QED BY <1>3b, <2>1, <2>2, <2>2b, <2>3 DEF TurForma
<1>5. Tur!Nuova.riassunto = {} /\ Tur!Nuova.sequenza = 0
  BY DEF Tur!Nuova
<1>6. TurRicordo(contatto, detti, zero, lasciati)
  BY <1>1, <1>2, <1>5 DEF TurRicordo
<1>7. \A w \in Squadra : TurAttuale(contatto, zero, lavora[w])
  BY <1>1, <1>3 DEF TurAttuale
<1> QED BY <1>4, <1>6, <1>7 DEF TurInv, TurPuro

\* A turn more, with no new summary in the making.
LEMMA TurInvDetto ==
  ASSUME Tur!InstagramTurnsAssumption, TurInv, Tur!Aggiunge,
         zero' = zero, misto' = misto, smarrito' = smarrito, lavora' \in [Squadra -> TurLavori],
         \A v \in Squadra : /\ lavora'[v].vista = lavora[v].vista
                            /\ lavora'[v].pc = "modello" => lavora'[v] = lavora[v]
  PROVE  TurInv'
<1>1. /\ detti' = detti + 1 /\ detti' \in Nat
      /\ lasciati' \subseteq Nat /\ lasciati \subseteq lasciati'
      /\ TurRiga(contatto', detti') /\ TurRiga(file', detti')
      /\ contatto'.riassunto = contatto.riassunto
      /\ contatto'.sequenza = contatto.sequenza + 1
      /\ TurIds(contatto.turni) \union {detti + 1} \union lasciati
           \subseteq TurIds(contatto'.turni) \union lasciati'
  BY TurAggiunge DEF TurInv
<1>2. \A i \in DOMAIN contatto'.turni :
              \/ \E h \in DOMAIN contatto.turni : contatto'.turni[i] = contatto.turni[h]
              \/ contatto'.turni[i] = [seq |-> contatto.sequenza + 1, id |-> detti + 1]
  BY TurAggiunge DEF TurInv
<1>3. TurForma
  BY DEF TurInv
<1>4. detti \in Nat /\ zero \in 0..detti /\ misto \in BOOLEAN /\ smarrito \in BOOLEAN
      /\ \A w \in Squadra : lavora[w].vista <= zero /\ TurPreso(lavora[w], detti)
  BY <1>3 DEF TurForma
<1>5. \A w \in Squadra : lavora'[w].vista <= zero /\ TurPreso(lavora'[w], detti + 1)
  BY <1>4 DEF TurPreso
<1>6. TurForma'
  BY <1>1, <1>4, <1>5 DEF TurForma
<1>7. /\ contatto.riassunto \subseteq 1..detti /\ contatto.sequenza \in Nat
      /\ \A h \in DOMAIN contatto.turni : /\ contatto.turni[h].seq \in Nat
                                          /\ contatto.turni[h].id \in 1..detti
  BY <1>3, <1>4, TurVoci DEF TurForma
<1>8. ASSUME ~misto, ~smarrito
      PROVE  /\ TurRicordo(contatto', detti', zero, lasciati')
             /\ \A w \in Squadra : TurAttuale(contatto', zero, lavora'[w])
  <2> DEFINE ids == TurIds(contatto.turni)
             poi == TurIds(contatto'.turni)
             nuovo == [seq |-> contatto.sequenza + 1, id |-> detti + 1]
  <2>1. /\ zero + 1..detti \subseteq ids \union contatto.riassunto \union lasciati
        /\ ids \intersect contatto.riassunto = {}
        /\ \A id \in ids \union contatto.riassunto : id > zero
        /\ contatto.sequenza = detti - zero
        /\ \A w \in Squadra : TurAttuale(contatto, zero, lavora[w])
    BY <1>8 DEF TurInv, TurPuro, TurRicordo
  <2>2. poi \subseteq ids \union {detti + 1}
    <3> SUFFICES ASSUME NEW i \in DOMAIN contatto'.turni
                 PROVE  contatto'.turni[i].id \in ids \union {detti + 1}
      BY DEF TurIds
    <3>1. nuovo.id = detti + 1
      OBVIOUS
    <3> QED BY <1>2, <3>1 DEF TurIds
  <2>3. detti + 1 \notin contatto.riassunto /\ detti + 1 > zero
    BY <1>4, <1>7
  <2>4. zero + 1..detti + 1 \subseteq (zero + 1..detti) \union {detti + 1}
    BY <1>4
  <2> HIDE DEF ids, poi, nuovo
  <2>5. zero + 1..detti + 1 \subseteq poi \union contatto.riassunto \union lasciati'
    BY <2>1, <2>4, <1>1 DEF ids, poi
  <2>6. TurRicordo(contatto', detti', zero, lasciati')
    <3>1. poi \intersect contatto.riassunto = {}
          /\ \A id \in poi \union contatto.riassunto : id > zero
      BY <2>1, <2>2, <2>3
    <3>2. contatto.sequenza + 1 = (detti + 1) - zero
      BY <2>1, <1>4
    <3> QED BY <2>5, <3>1, <3>2, <1>1 DEF TurRicordo, poi
  <2>7. ASSUME NEW w \in Squadra
        PROVE  TurAttuale(contatto', zero, lavora'[w])
    <3> SUFFICES ASSUME lavora'[w].pc = "modello", lavora'[w].vista = zero
                 PROVE  TurAttuale(contatto', zero, lavora'[w])
      BY DEF TurAttuale
    <3>1. lavora'[w] = lavora[w] /\ TurAttuale(contatto, zero, lavora[w])
      BY <2>1
    <3>2. CASE lavora[w].prima # contatto.riassunto
      BY <3>1, <3>2, <1>1 DEF TurAttuale
    <3>3. CASE lavora[w].prima = contatto.riassunto
      <4> DEFINE l == lavora[w]
      <4>1. /\ l.presi \intersect contatto.riassunto = {} /\ (\A id \in l.presi : id > zero)
            /\ l.taglio <= contatto.sequenza
            /\ \A i \in DOMAIN contatto.turni :
                 contatto.turni[i].seq <= l.taglio <=> contatto.turni[i].id \in l.presi
        BY <3>1, <3>3 DEF TurAttuale
      <4>2. l.taglio \in Nat /\ l.presi \subseteq 1..detti
        BY <1>3, <1>4, <3>1 DEF TurForma, TurLavori, TurPreso
      <4>3. l.taglio <= contatto.sequenza + 1 /\ ~(contatto.sequenza + 1 <= l.taglio)
        BY <4>1, <4>2, <1>7
      <4>4. detti + 1 \notin l.presi
        BY <4>2, <1>4
      <4>5. nuovo.seq = contatto.sequenza + 1 /\ nuovo.id = detti + 1
        BY DEF nuovo
      <4>6. \A i \in DOMAIN contatto'.turni :
              contatto'.turni[i].seq <= l.taglio <=> contatto'.turni[i].id \in l.presi
        <5> TAKE i \in DOMAIN contatto'.turni
        <5>1. CASE contatto'.turni[i] = nuovo
          BY <5>1, <4>3, <4>4, <4>5
        <5>2. CASE \E h \in DOMAIN contatto.turni : contatto'.turni[i] = contatto.turni[h]
          BY <5>2, <4>1
        <5> QED BY <5>1, <5>2, <1>2 DEF nuovo
      <4> QED BY <3>1, <3>3, <4>1, <4>3, <4>6, <1>1 DEF TurAttuale
    <3> QED BY <3>2, <3>3
  <2> QED BY <2>6, <2>7
<1>9. TurPuro'
  BY <1>8, <1>4 DEF TurPuro
<1> QED BY <1>6, <1>9 DEF TurInv

LEMMA TurInvRiceve ==
  ASSUME Tur!InstagramTurnsAssumption, TurInv, Tur!Riceve
  PROVE  TurInv'
<1>1. lavora \in [Squadra -> TurLavori]
  BY DEF TurInv, TurForma
<1>2. Tur!Aggiunge /\ zero' = zero /\ misto' = misto /\ smarrito' = smarrito /\ lavora' = lavora
  BY DEF Tur!Riceve
<1> QED BY <1>1, <1>2, TurInvDetto

LEMMA TurInvRisponde ==
  ASSUME Tur!InstagramTurnsAssumption, TurInv, NEW w \in Squadra, Tur!Risponde(w)
  PROVE  TurInv'
<1>1. lavora \in [Squadra -> TurLavori]
  BY DEF TurInv, TurForma
<1>2. Tur!Aggiunge /\ zero' = zero /\ misto' = misto /\ smarrito' = smarrito
  BY DEF Tur!Risponde
<1>3. PICK p \in {"valuta", "fermo"} : lavora' = [lavora EXCEPT ![w].pc = p]
  BY DEF Tur!Risponde
<1>4. lavora' \in [Squadra -> TurLavori]
  BY <1>1, <1>3 DEF TurLavori
<1>5. \A v \in Squadra : /\ lavora'[v].vista = lavora[v].vista
                         /\ lavora'[v].pc = "modello" => lavora'[v] = lavora[v]
  BY <1>1, <1>3 DEF TurLavori
<1> QED BY <1>2, <1>4, <1>5, TurInvDetto

\* A row in order names each turn once, and its numbers follow its order.
LEMMA TurOrdine ==
  ASSUME NEW d \in Nat, NEW r, TurRiga(r, d), NEW i \in DOMAIN r.turni, NEW j \in DOMAIN r.turni
  PROVE  /\ r.turni[i].seq <= r.turni[j].seq <=> i <= j
         /\ r.turni[i].id = r.turni[j].id <=> i = j
<1>1. /\ i \in Nat /\ j \in Nat
      /\ r.turni[i].seq \in Nat /\ r.turni[j].seq \in Nat
      /\ r.turni[i].id \in Nat /\ r.turni[j].id \in Nat
  <2>1. DOMAIN r.turni = 1..Len(r.turni) /\ Len(r.turni) \in Nat
        /\ \A h \in DOMAIN r.turni : r.turni[h].seq \in Nat /\ r.turni[h].id \in Nat
    BY TurVoci
  <2>2. i \in Nat /\ j \in Nat
    BY <2>1
  <2> QED BY <2>1, <2>2
<1>2. /\ i < j => r.turni[i].seq < r.turni[j].seq /\ r.turni[i].id < r.turni[j].id
      /\ j < i => r.turni[j].seq < r.turni[i].seq /\ r.turni[j].id < r.turni[i].id
  BY DEF TurRiga, TurInOrdine
<1>3. i < j \/ i = j \/ j < i
  BY <1>1
<1> QED BY <1>1, <1>2, <1>3

\* The turns a worker takes: the first ones.
LEMMA TurInvPrende ==
  ASSUME Tur!InstagramTurnsAssumption, TurInv, NEW w \in Squadra, Tur!Prende(w)
  PROVE  TurInv'
<1> DEFINE s == contatto.turni
           n == Len(s)
           fino == IF n > Freschi + 1 THEN n - Freschi ELSE 1
           presi == {s[i].id : i \in 1..fino}
           preso == [pc |-> "modello", prima |-> contatto.riassunto, presi |-> presi,
                     taglio |-> s[fino].seq, vista |-> zero]
<1>1. /\ contatto' = contatto /\ file' = file /\ detti' = detti /\ zero' = zero
      /\ lasciati' = lasciati /\ misto' = misto /\ smarrito' = smarrito
      /\ lavora' = [lavora EXCEPT ![w] = IF n <= Compatta THEN Tur!Libero ELSE preso]
  BY DEF Tur!Prende
<1>2. TurForma /\ TurPuro
  BY DEF TurInv
<1>3. /\ detti \in Nat /\ zero \in 0..detti /\ lavora \in [Squadra -> TurLavori]
      /\ \A v \in Squadra : lavora[v].vista <= zero /\ TurPreso(lavora[v], detti)
      /\ TurRiga(contatto, detti)
  BY <1>2 DEF TurForma
<1>4. /\ n \in Nat /\ DOMAIN s = 1..n /\ contatto.riassunto \subseteq 1..detti
      /\ \A i \in 1..n : s[i].seq \in Nat /\ s[i].seq \in 1..contatto.sequenza
                         /\ s[i].id \in Nat /\ s[i].id \in 1..detti
      /\ contatto.sequenza \in Nat
  BY <1>3, TurVoci
<1>5. CASE n <= Compatta
  <2>1. lavora' = [lavora EXCEPT ![w] = Tur!Libero]
    BY <1>1, <1>5
  <2>2. Tur!Libero \in TurLavori /\ Tur!Libero.vista = 0 /\ Tur!Libero.pc = "fermo"
    BY DEF Tur!Libero, TurLavori
  <2>3. lavora' \in [Squadra -> TurLavori]
        /\ \A v \in Squadra : lavora'[v] = lavora[v] \/ lavora'[v] = Tur!Libero
    BY <2>1, <2>2, <1>3
  <2>4. \A v \in Squadra : lavora'[v].vista <= zero /\ TurPreso(lavora'[v], detti)
    BY <2>2, <2>3, <1>3 DEF TurPreso
  <2>5. TurForma'
    BY <1>1, <1>2, <2>3, <2>4 DEF TurForma
  <2>6. TurPuro'
    BY <1>1, <1>2, <2>2, <2>3 DEF TurPuro, TurAttuale
  <2> QED BY <2>5, <2>6 DEF TurInv
<1>6. CASE ~(n <= Compatta)
  <2>0. n >= 1 /\ Freschi \in Nat
    BY <1>4, <1>6 DEF Tur!InstagramTurnsAssumption
  <2>1. fino \in 1..n /\ fino \in Nat
    BY <2>0, <1>4
  <2> HIDE DEF fino
  <2>2. 1..fino \subseteq 1..n /\ 1 \in 1..fino
    BY <2>1, <1>4
  <2>3. presi \subseteq 1..detti /\ presi # {} /\ presi \subseteq TurIds(s)
    BY <2>2, <1>4 DEF TurIds
  <2>4. presi \in SUBSET Nat /\ contatto.riassunto \in SUBSET Nat /\ s[fino].seq \in Nat /\ zero \in Nat
    BY <2>1, <2>3, <1>3, <1>4
  <2>5. lavora' = [lavora EXCEPT ![w] = preso]
    BY <1>1, <1>6
  <2> HIDE DEF presi
  <2>6. preso \in TurLavori
    BY <2>4 DEF TurLavori
  <2>7. /\ preso.pc = "modello" /\ preso.prima = contatto.riassunto /\ preso.presi = presi
        /\ preso.taglio = s[fino].seq /\ preso.vista = zero
    OBVIOUS
  <2> HIDE DEF preso
  <2>8. lavora' \in [Squadra -> TurLavori]
        /\ \A v \in Squadra : lavora'[v] = lavora[v] \/ lavora'[v] = preso
    BY <2>5, <2>6, <1>3
  <2>9. \A v \in Squadra : lavora'[v].vista <= zero /\ TurPreso(lavora'[v], detti)
    <3>1. preso.vista <= zero /\ TurPreso(preso, detti)
      BY <2>3, <2>4, <2>7, <1>4 DEF TurPreso
    <3> QED BY <3>1, <2>8, <1>3
  <2>10. TurForma'
    BY <1>1, <1>2, <2>8, <2>9 DEF TurForma
  <2>11. ASSUME ~misto, ~smarrito
         PROVE  TurAttuale(contatto, zero, preso)
    <3>1. /\ TurIds(s) \intersect contatto.riassunto = {}
          /\ \A id \in TurIds(s) \union contatto.riassunto : id > zero
      BY <2>11, <1>2 DEF TurPuro, TurRicordo
    <3>2. presi \intersect contatto.riassunto = {} /\ \A id \in presi : id > zero
      BY <3>1, <2>3
    <3>3. s[fino].seq <= contatto.sequenza
      BY <2>1, <1>4
    <3>4. ASSUME NEW i \in DOMAIN s
          PROVE  s[i].seq <= s[fino].seq <=> s[i].id \in presi
      <4>1. i \in 1..n /\ i \in Nat /\ fino \in DOMAIN s
        BY <1>4, <2>1
      <4>2. s[i].seq <= s[fino].seq <=> i <= fino
        BY <4>1, <1>3, TurOrdine
      <4>3. \A j \in 1..fino : s[i].id = s[j].id <=> i = j
        BY <4>1, <1>3, <1>4, <2>2, TurOrdine
      <4>4. s[i].id \in presi <=> i \in 1..fino
        BY <4>3 DEF presi
      <4> QED BY <4>1, <4>2, <4>4, <2>1
    <3> QED BY <3>2, <3>3, <3>4, <2>7 DEF TurAttuale
  <2>12. TurPuro'
    <3> SUFFICES ASSUME ~misto, ~smarrito
                 PROVE  /\ TurRicordo(contatto, detti, zero, lasciati)
                        /\ \A v \in Squadra : TurAttuale(contatto, zero, lavora'[v])
      BY <1>1 DEF TurPuro
    <3>1. /\ TurRicordo(contatto, detti, zero, lasciati)
          /\ \A v \in Squadra : TurAttuale(contatto, zero, lavora[v])
      BY <1>2 DEF TurPuro
    <3> QED BY <3>1, <2>8, <2>11
  <2> QED BY <2>10, <2>12 DEF TurInv
<1> QED BY <1>5, <1>6

\* What a worker leaves of a row when its summary comes: the turns after its cutoff, in order.
TurResto(q, s, c) ==
  /\ q \in Seq([seq : Nat, id : Nat])
  /\ Len(q) <= MaxTurni
  /\ TurInOrdine(q)
  /\ \A i \in DOMAIN q : \E h \in DOMAIN s : q[i] = s[h] /\ ~(s[h].seq <= c)
  /\ \A h \in DOMAIN s : ~(s[h].seq <= c) => \E i \in DOMAIN q : q[i] = s[h]

LEMMA TurRestano ==
  ASSUME Tur!InstagramTurnsAssumption, NEW d \in Nat, NEW r, TurRiga(r, d), NEW c \in Nat
  PROVE  TurResto(Tur!Restano(r.turni, c), r.turni, c)
<1> DEFINE T == [seq : Nat, id : Nat]
           s == r.turni
           q == Tur!Restano(s, c)
<1>1. /\ s \in Seq(T) /\ TurInOrdine(s) /\ Len(s) \in Nat /\ DOMAIN s = 1..Len(s)
      /\ \A i \in DOMAIN s : s[i].seq \in Nat
  BY TurVoci DEF TurRiga
<1> HIDE DEF s
<1>2. PICK m \in 0..Len(s) :
        /\ \A i \in DOMAIN s : s[i].seq > c <=> i > m
        /\ Tur!Dopo(s, c) \in Seq([seq : Nat, id : Nat])
        /\ Len(Tur!Dopo(s, c)) = Len(s) - m
        /\ \A i \in 1..(Len(s) - m) : Tur!Dopo(s, c)[i] = s[i + m]
  BY <1>1, TurDopo
<1>3. /\ q \in Seq(T) /\ Len(q) = Len(s) - m /\ \A i \in 1..(Len(s) - m) : q[i] = s[i + m]
  BY <1>2 DEF Tur!Restano
<1> HIDE DEF q
<1>4. TurInOrdine(q) /\ \A i \in DOMAIN q : i + m \in DOMAIN s /\ q[i] = s[i + m]
  BY <1>1, <1>3, TurFine
<1> HIDE DEF T
<1>5. m \in Nat /\ m <= Len(s) /\ DOMAIN q = 1..(Len(s) - m)
  BY <1>1, <1>3
<1>6. Len(q) <= MaxTurni
  <2>1. Len(s) <= MaxTurni  BY DEF TurRiga, s
  <2> QED BY <2>1, <1>1, <1>3, <1>5 DEF Tur!InstagramTurnsAssumption
<1>7. \A h \in DOMAIN s : s[h].seq > c <=> ~(s[h].seq <= c)
  BY <1>1
<1>8. ASSUME NEW i \in DOMAIN q
      PROVE  \E h \in DOMAIN s : q[i] = s[h] /\ ~(s[h].seq <= c)
  <2>1. i + m \in DOMAIN s /\ q[i] = s[i + m]  BY <1>4
  <2>2. i \in Nat /\ i >= 1  BY <1>5
  <2>3. i + m > m  BY <1>5, <2>2
  <2> QED BY <2>1, <2>3, <1>2, <1>7
<1>9. ASSUME NEW h \in DOMAIN s, ~(s[h].seq <= c)
      PROVE  \E i \in DOMAIN q : q[i] = s[h]
  <2>1. h > m /\ h \in Nat /\ h <= Len(s)  BY <1>9, <1>1, <1>2, <1>7
  <2>2. h - m \in DOMAIN q /\ (h - m) + m = h  BY <2>1, <1>1, <1>5
  <2> QED BY <2>2, <1>4
<1> QED BY <1>3, <1>4, <1>6, <1>8, <1>9 DEF q, s, T, TurResto

LEMMA TurInvRiassume ==
  ASSUME Tur!InstagramTurnsAssumption, TurInv, NEW w \in Squadra, Tur!Riassume(w)
  PROVE  TurInv'
<1> DEFINE s == contatto.turni
           l == lavora[w]
           q == Tur!Restano(s, l.taglio)
<1>1. /\ l.pc = "modello" /\ Tur!Salva
      /\ contatto' = [contatto EXCEPT !.riassunto = l.prima \union l.presi, !.turni = q]
      /\ misto' = (misto \/ contatto.riassunto # l.prima \/ l.vista # zero)
      /\ lavora' = [lavora EXCEPT ![w] = Tur!Libero]
      /\ detti' = detti /\ zero' = zero /\ lasciati' = lasciati /\ smarrito' = smarrito
  BY DEF Tur!Riassume
<1>2. TurForma /\ TurPuro
  BY DEF TurInv
<1>3. /\ detti \in Nat /\ zero \in 0..detti /\ lavora \in [Squadra -> TurLavori]
      /\ \A v \in Squadra : lavora[v].vista <= zero /\ TurPreso(lavora[v], detti)
      /\ TurRiga(contatto, detti) /\ TurRiga(file, detti)
      /\ lasciati \subseteq Nat /\ smarrito \in BOOLEAN
  BY <1>2 DEF TurForma
<1>4. /\ l.taglio \in Nat /\ l.prima \subseteq 1..detti /\ l.presi \subseteq 1..detti /\ l.presi # {}
      /\ l.prima \subseteq Nat /\ l.presi \subseteq Nat
  BY <1>1, <1>3 DEF TurPreso, TurLavori
<1>5. /\ q \in Seq([seq : Nat, id : Nat])
      /\ Len(q) <= MaxTurni
      /\ TurInOrdine(q)
      /\ \A i \in DOMAIN q : \E h \in DOMAIN s : q[i] = s[h] /\ ~(s[h].seq <= l.taglio)
      /\ \A h \in DOMAIN s : ~(s[h].seq <= l.taglio) => \E i \in DOMAIN q : q[i] = s[h]
  <2>1. TurResto(Tur!Restano(contatto.turni, l.taglio), contatto.turni, l.taglio)
    BY <1>3, <1>4, TurRestano
  <2> QED BY <2>1 DEF TurResto
<1> HIDE DEF q, l
<1>6. contatto \in TurRighe
  BY <1>3 DEF TurRiga
<1>7. /\ contatto'.turni = q /\ contatto'.riassunto = l.prima \union l.presi
      /\ contatto'.sequenza = contatto.sequenza
  BY <1>1, <1>6 DEF TurRighe
<1>8. contatto' \in TurRighe
  <2>1. l.prima \union l.presi \in SUBSET Nat
    BY <1>4
  <2> QED BY <2>1, <1>1, <1>5, <1>6 DEF TurRighe
<1>9. TurRiga(contatto', detti)
  <2>1. \A i \in DOMAIN q : q[i].seq \in 1..contatto.sequenza /\ q[i].id \in 1..detti
    BY <1>3, <1>5 DEF TurRiga
  <2>2. l.prima \union l.presi \subseteq 1..detti
    BY <1>4
  <2> QED BY <2>1, <2>2, <1>5, <1>7, <1>8 DEF TurRiga
<1>10. TurRiga(file', detti)
  <2>1. detti \in Nat /\ detti <= detti  BY <1>3
  <2> QED BY <2>1, <1>1, <1>3, <1>9, TurSalva
<1>11. misto' \in BOOLEAN
  BY <1>1, Zenon
<1>12. Tur!Libero \in TurLavori /\ Tur!Libero.vista = 0 /\ Tur!Libero.pc = "fermo"
  BY DEF Tur!Libero, TurLavori
<1>13. lavora' \in [Squadra -> TurLavori]
       /\ \A v \in Squadra : lavora'[v] = lavora[v] \/ lavora'[v] = Tur!Libero
  BY <1>1, <1>3, <1>12
<1>14. \A v \in Squadra : lavora'[v].vista <= zero /\ TurPreso(lavora'[v], detti)
  BY <1>12, <1>13, <1>3 DEF TurPreso
<1>15. TurForma'
  BY <1>1, <1>3, <1>9, <1>10, <1>11, <1>13, <1>14 DEF TurForma
<1>16. ASSUME ~misto', ~smarrito
       PROVE  /\ TurRicordo(contatto', detti, zero, lasciati)
              /\ \A v \in Squadra : TurAttuale(contatto', zero, lavora'[v])
  <2> DEFINE ids == TurIds(s)
             poi == TurIds(q)
             r == contatto.riassunto
  <2>1. ~misto /\ r = l.prima /\ l.vista = zero
    BY <1>1, <1>16
  <2>2. /\ zero + 1..detti \subseteq ids \union r \union lasciati
        /\ ids \intersect r = {}
        /\ \A id \in ids \union r : id > zero
        /\ contatto.sequenza = detti - zero
        /\ \A v \in Squadra : TurAttuale(contatto, zero, lavora[v])
    BY <2>1, <1>2, <1>16 DEF TurPuro, TurRicordo
  <2>3. /\ l.presi \intersect r = {} /\ (\A id \in l.presi : id > zero)
        /\ \A i \in DOMAIN s : s[i].seq <= l.taglio <=> s[i].id \in l.presi
    <3>1. TurAttuale(contatto, zero, l)
      BY <2>2 DEF l
    <3> QED BY <3>1, <2>1, <1>1 DEF TurAttuale
  <2>4. poi \subseteq ids /\ poi \intersect l.presi = {}
    BY <1>5, <2>3 DEF TurIds
  <2>5. ids \subseteq poi \union l.presi
    BY <1>5, <2>3 DEF TurIds
  <2> HIDE DEF ids, poi
  <2>6. TurRicordo(contatto', detti, zero, lasciati)
    <3>1. zero + 1..detti \subseteq poi \union (l.prima \union l.presi) \union lasciati
      BY <2>1, <2>2, <2>5
    <3>2. poi \intersect (l.prima \union l.presi) = {}
      BY <2>1, <2>2, <2>4
    <3>3. \A id \in poi \union (l.prima \union l.presi) : id > zero
      BY <2>1, <2>2, <2>3, <2>4
    <3> QED BY <3>1, <3>2, <3>3, <2>2, <1>7 DEF TurRicordo, poi
  <2>7. ASSUME NEW v \in Squadra
        PROVE  TurAttuale(contatto', zero, lavora'[v])
    <3> SUFFICES ASSUME lavora'[v].pc = "modello", lavora'[v].vista = zero
                 PROVE  TurAttuale(contatto', zero, lavora'[v])
      BY DEF TurAttuale
    <3>1. lavora'[v] = lavora[v] /\ TurAttuale(contatto, zero, lavora[v])
      BY <2>2, <1>12, <1>13
    <3>2. lavora[v].prima \subseteq r
      BY <3>1 DEF TurAttuale
    <3>3. lavora[v].prima # contatto'.riassunto /\ lavora[v].prima \subseteq contatto'.riassunto
      BY <3>2, <2>1, <2>3, <1>4, <1>7
    <3> QED BY <3>1, <3>3 DEF TurAttuale
  <2> QED BY <2>6, <2>7
<1>17. TurPuro'
  BY <1>16, <1>1 DEF TurPuro
<1> QED BY <1>15, <1>17 DEF TurInv

LEMMA TurInvNonRiassume ==
  ASSUME TurInv, NEW w \in Squadra, Tur!NonRiassume(w)
  PROVE  TurInv'
<1>1. /\ contatto' = contatto /\ file' = file /\ detti' = detti /\ zero' = zero
      /\ lasciati' = lasciati /\ misto' = misto /\ smarrito' = smarrito
      /\ lavora' = [lavora EXCEPT ![w] = Tur!Libero]
  BY DEF Tur!NonRiassume
<1>2. Tur!Libero \in TurLavori /\ Tur!Libero.vista = 0 /\ Tur!Libero.pc = "fermo"
  BY DEF Tur!Libero, TurLavori
<1>3. /\ detti \in Nat /\ zero \in 0..detti /\ lavora \in [Squadra -> TurLavori]
      /\ \A v \in Squadra : lavora[v].vista <= zero /\ TurPreso(lavora[v], detti)
  BY DEF TurInv, TurForma
<1>4. lavora' \in [Squadra -> TurLavori]
      /\ \A v \in Squadra : lavora'[v] = lavora[v] \/ lavora'[v] = Tur!Libero
  BY <1>1, <1>2, <1>3
<1>5. \A v \in Squadra : lavora'[v].vista <= zero /\ TurPreso(lavora'[v], detti)
  BY <1>2, <1>3, <1>4 DEF TurPreso
<1>6. TurForma'
  BY <1>1, <1>4, <1>5 DEF TurForma, TurInv
<1>7. TurPuro'
  BY <1>1, <1>2, <1>4 DEF TurPuro, TurAttuale, TurInv
<1> QED BY <1>6, <1>7 DEF TurInv

\* A clear comes after something was said: the summaries under way are of before it.
LEMMA TurInvAzzera ==
  ASSUME Tur!InstagramTurnsAssumption, TurInv, Tur!Azzera
  PROVE  TurInv'
<1>1. /\ contatto # Tur!Nuova /\ contatto' = Tur!Nuova /\ Tur!Salva /\ zero' = detti
      /\ lavora' = lavora /\ detti' = detti /\ lasciati' = lasciati /\ misto' = misto
      /\ smarrito' = smarrito
  BY DEF Tur!Azzera
<1>2. TurForma /\ TurPuro
  BY DEF TurInv
<1>3. /\ detti \in Nat /\ zero \in 0..detti /\ lavora \in [Squadra -> TurLavori]
      /\ \A v \in Squadra : lavora[v].vista <= zero /\ TurPreso(lavora[v], detti)
      /\ TurRiga(contatto, detti) /\ TurRiga(file, detti)
  BY <1>2 DEF TurForma
<1>4. /\ TurRiga(Tur!Nuova, detti) /\ TurIds(Tur!Nuova.turni) = {}
      /\ Tur!Nuova.riassunto = {} /\ Tur!Nuova.sequenza = 0
  BY <1>3, TurNuova DEF Tur!Nuova
<1>5. TurRiga(file', detti)
  <2>1. detti <= detti /\ TurRiga(contatto', detti)  BY <1>1, <1>3, <1>4
  <2> QED BY <2>1, <1>1, <1>3, TurSalva
<1>6. \A v \in Squadra : lavora[v].vista \in Nat /\ lavora[v].vista <= detti
  BY <1>3 DEF TurLavori
<1>7. TurForma'
  BY <1>1, <1>2, <1>3, <1>4, <1>5, <1>6 DEF TurForma
<1>8. ASSUME ~misto, ~smarrito
      PROVE  /\ TurRicordo(Tur!Nuova, detti, detti, lasciati)
             /\ \A v \in Squadra : TurAttuale(Tur!Nuova, detti, lavora[v])
  <2>1. /\ \A id \in TurIds(contatto.turni) \union contatto.riassunto : id > zero
        /\ contatto.sequenza = detti - zero
    BY <1>8, <1>2 DEF TurPuro, TurRicordo
  <2>2. zero # detti
    <3> SUFFICES ASSUME zero = detti PROVE FALSE
      OBVIOUS
    <3>1. /\ contatto.turni \in Seq([seq : Nat, id : Nat]) /\ Len(contatto.turni) \in Nat
          /\ DOMAIN contatto.turni = 1..Len(contatto.turni)
          /\ contatto.riassunto \subseteq 1..detti
          /\ \A i \in DOMAIN contatto.turni : contatto.turni[i].id \in 1..detti
      BY <1>3, TurVoci
    <3>2. \A id \in 1..detti : ~(id > detti)
      BY <1>3
    <3>3. contatto.riassunto = {}
      BY <2>1, <3>1, <3>2
    <3>4. DOMAIN contatto.turni = {}
      BY <2>1, <3>1, <3>2 DEF TurIds
    <3>5. contatto.turni = <<>>
      <4> DEFINE T == [seq : Nat, id : Nat]
      <4>1. contatto.turni \in Seq(T)  BY <3>1
      <4> HIDE DEF T
      <4>2. Len(contatto.turni) = 0
        BY <3>1, <3>4
      <4> QED BY <4>1, <4>2
    <3>6. contatto.sequenza = 0
      BY <2>1, <1>3
    <3>7. contatto \in TurRighe
      BY <1>3 DEF TurRiga
    <3>8. contatto = [turni |-> contatto.turni, riassunto |-> contatto.riassunto,
                      sequenza |-> contatto.sequenza]
      BY <3>7 DEF TurRighe
    <3> QED BY <3>3, <3>5, <3>6, <3>8, <1>1 DEF Tur!Nuova
  <2>3. \A v \in Squadra : lavora[v].vista # detti
    BY <1>3, <1>6, <2>2
  <2>4. detti + 1..detti = {} /\ detti - detti = 0
    BY <1>3
  <2> QED BY <1>4, <2>3, <2>4 DEF TurRicordo, TurAttuale
<1>9. TurPuro'
  BY <1>8, <1>1 DEF TurPuro
<1> QED BY <1>7, <1>9 DEF TurInv

LEMMA TurInvRiavvia ==
  ASSUME TurInv, Tur!Riavvia
  PROVE  TurInv'
<1>1. /\ contatto' = file /\ lavora' = [v \in Squadra |-> Tur!Libero]
      /\ smarrito' = (smarrito \/ contatto # file)
      /\ file' = file /\ detti' = detti /\ zero' = zero /\ lasciati' = lasciati /\ misto' = misto
  BY DEF Tur!Riavvia
<1>2. TurForma /\ TurPuro
  BY DEF TurInv
<1>3. Tur!Libero \in TurLavori /\ Tur!Libero.vista = 0 /\ Tur!Libero.pc = "fermo"
  BY DEF Tur!Libero, TurLavori
<1>4. lavora' \in [Squadra -> TurLavori] /\ \A v \in Squadra : lavora'[v] = Tur!Libero
  BY <1>1, <1>3
<1>5. smarrito' \in BOOLEAN
  BY <1>1, Zenon
<1>6. zero \in Nat /\ 0 <= zero
  BY <1>2 DEF TurForma
<1>7. \A v \in Squadra : lavora'[v].vista <= zero /\ TurPreso(lavora'[v], detti)
  BY <1>3, <1>4, <1>6 DEF TurPreso
<1>8. TurForma'
  BY <1>1, <1>2, <1>4, <1>5, <1>7 DEF TurForma
<1>9. TurPuro'
  BY <1>1, <1>2, <1>3, <1>4 DEF TurPuro, TurAttuale
<1> QED BY <1>8, <1>9 DEF TurInv

LEMMA TurInvPasso == Tur!InstagramTurnsAssumption /\ TurInv /\ [Tur!Next]_Tur!vars => TurInv'
<1> SUFFICES ASSUME Tur!InstagramTurnsAssumption, TurInv, [Tur!Next]_Tur!vars PROVE TurInv'
  OBVIOUS
<1>1. CASE Tur!Riceve
  BY <1>1, TurInvRiceve
<1>2. CASE Tur!Azzera
  BY <1>2, TurInvAzzera
<1>3. CASE Tur!Riavvia
  BY <1>3, TurInvRiavvia
<1>4. ASSUME NEW w \in Squadra, Tur!Risponde(w)
      PROVE  TurInv'
  BY <1>4, TurInvRisponde
<1>5. ASSUME NEW w \in Squadra, Tur!Prende(w)
      PROVE  TurInv'
  BY <1>5, TurInvPrende
<1>6. ASSUME NEW w \in Squadra, Tur!Riassume(w)
      PROVE  TurInv'
  BY <1>6, TurInvRiassume
<1>7. ASSUME NEW w \in Squadra, Tur!NonRiassume(w)
      PROVE  TurInv'
  BY <1>7, TurInvNonRiassume
<1>8. CASE UNCHANGED Tur!vars
  <2>1. /\ contatto' = contatto /\ file' = file /\ lavora' = lavora /\ detti' = detti
        /\ zero' = zero /\ lasciati' = lasciati /\ misto' = misto /\ smarrito' = smarrito
    BY <1>8 DEF Tur!vars
  <2> QED BY <2>1 DEF TurInv, TurForma, TurPuro
<1> QED BY <1>1, <1>2, <1>3, <1>4, <1>5, <1>6, <1>7, <1>8 DEF Tur!Next

\* The properties of the turns.
LEMMA TurProprieta ==
  ASSUME TurInv
  PROVE  Tur!NullaDimenticato /\ Tur!TurniInOrdine /\ Tur!AzzerataResta
<1>1. Tur!TurniInOrdine
  BY DEF TurInv, TurForma, TurRiga, TurInOrdine, Tur!TurniInOrdine
<1>2. Tur!Ricordati = TurIds(contatto.turni)
  BY DEF Tur!Ricordati, TurIds
<1>3. Tur!NullaDimenticato /\ Tur!AzzerataResta
  BY <1>2 DEF TurInv, TurPuro, TurRicordo, Tur!NullaDimenticato, Tur!AzzerataResta
<1> QED BY <1>1, <1>3

\* A message is given one drawing at most, whatever was asked and by whom.
LEMMA TurUnDisegno == Tur!UnDisegno
<1> SUFFICES ASSUME NEW livello \in Tur!Livelli, NEW domanda \in Tur!Richieste,
                    NEW consenso \in BOOLEAN, NEW buona \in BOOLEAN,
                    NEW posto \in BOOLEAN, NEW promosso \in BOOLEAN
             PROVE  LET reso == Tur!Ponte(Tur!Porta(livello, consenso), domanda, buona, posto)
                        lavori == Tur!Lavori(reso, promosso, posto) IN
                    /\ Len(lavori) <= 1 /\ (reso = "rifiuto" => lavori = <<>>)
                    /\ Tur!Riservata(domanda) /\ reso \in {"ritratto", "disegno"} =>
                         livello = "creatore" \/ (livello = "musa" /\ consenso)
                    /\ ~posto => lavori = <<>>
  BY DEF Tur!UnDisegno
<1> DEFINE porta == Tur!Porta(livello, consenso)
           reso == Tur!Ponte(porta, domanda, buona, posto)
           lavori == Tur!Lavori(reso, promosso, posto)
<1>1. Len(<<>>) = 0 /\ \A x : Len(<<x>>) = 1
  OBVIOUS
<1>2. porta = (IF (livello = "musa" /\ ~consenso) \/ livello = "altro" THEN "chiusa" ELSE livello)
  BY DEF Tur!Porta, Tur!Livelli
<1>3. porta \in {"creatore", "musa", "vip", "chiusa"}
  BY <1>2 DEF Tur!Livelli
<1> HIDE DEF porta
<1>4. /\ reso \in {"niente", "rifiuto", "ritratto", "disegno"}
      /\ Tur!Riservata(domanda) /\ reso \in {"ritratto", "disegno"} => porta \in {"creatore", "musa"}
      /\ ~posto => reso \notin {"ritratto", "disegno"}
  BY <1>3 DEF Tur!Ponte, Tur!Riservata, Tur!DiSe, Tur!Ritratto, Tur!Richieste
<1> HIDE DEF reso
<1>5. lavori = (IF reso \in {"ritratto", "disegno"} THEN <<reso>>
                ELSE IF reso = "niente" /\ promosso /\ posto THEN <<"dono">> ELSE <<>>)
  BY <1>4 DEF Tur!Lavori
<1>6. Len(lavori) <= 1 /\ (reso = "rifiuto" => lavori = <<>>) /\ (~posto => lavori = <<>>)
  BY <1>1, <1>4, <1>5
<1>7. Tur!Riservata(domanda) /\ reso \in {"ritratto", "disegno"} =>
        livello = "creatore" \/ (livello = "musa" /\ consenso)
  BY <1>2, <1>4
<1> QED BY <1>6, <1>7 DEF reso, porta

-----------------------------------------------------------------------------
(* A chat request: its types. *)

\* The candidates are sequences of nodes.
InvTipiChat == Cha!TypeOK /\ scelti \in Seq(Nodo) /\ resto \in Seq(Nodo)

LEMMA InsiemeDi == ASSUME NEW s \in Seq(Nodo) PROVE Cha!ToSet(s) \subseteq Nodo
<1> QED BY DEF Cha!ToSet

LEMMA TipiChatInit == Cha!ChatCompletionAssumption /\ Cha!Init => InvTipiChat
<1> SUFFICES ASSUME Cha!ChatCompletionAssumption, Cha!Init PROVE InvTipiChat
  OBVIOUS
<1>1. scelti \in Seq(Nodo) /\ resto \in Seq(Nodo)
  BY DEF Cha!Init
<1>2. Cha!ToSet(scelti) \subseteq Nodo /\ Cha!ToSet(resto) \subseteq Nodo
  BY <1>1, InsiemeDi
<1>3. giro \in [dove : Cha!Luogo, n : 0..(MaxGiri - 1), senza : BOOLEAN]
  BY DEF Cha!Init, Cha!Luogo, Cha!ChatCompletionAssumption
<1> QED BY <1>1, <1>2, <1>3 DEF Cha!Init, InvTipiChat, Cha!TypeOK, Cha!Risposta

LEMMA TipiChatNext ==
  Cha!ChatCompletionAssumption /\ InvTipiChat /\ [Cha!Next]_Cha!vars => InvTipiChat'
<1> SUFFICES ASSUME Cha!ChatCompletionAssumption, InvTipiChat, [Cha!Next]_Cha!vars PROVE InvTipiChat'
  OBVIOUS
<1> DEFINE G == [dove : Cha!Luogo, n : 0..(MaxGiri - 1), senza : BOOLEAN]
           K == [ram : {"niente", "created", "done", "failed"},
                 db : {"niente", "created", "assigned", "done", "failed"}, memoria : {0, 2}]
           Z == {"arrivo", "nodi", "loop", "flusso", "corrente", "chunk", "federazione", "provider", "chiusa"}
<1>t. /\ modo \in Cha!Modi /\ fase \in Z /\ giro \in G /\ task \in K
      /\ risposta \in Cha!Risposta /\ fonti \subseteq Cha!Luogo /\ proposti \subseteq Cha!Luogo
      /\ via \in BOOLEAN /\ scelti \in Seq(Nodo) /\ resto \in Seq(Nodo)
  BY DEF InvTipiChat, Cha!TypeOK
<1>l. \A d \in Cha!Luogo : Cha!Loop(d) \in G
  BY DEF Cha!Loop, Cha!ChatCompletionAssumption
<1>k. \A x \in {"created", "done", "failed"} :
        Cha!Con(x) \in K /\ [Cha!Con(x) EXCEPT !.memoria = 2] \in K
  BY <1>t DEF Cha!Con
<1>a. Cha!Assegnato \in K
  BY <1>t DEF Cha!Assegnato
<1>f. \A r : Cha!Finale(r) \in K
  BY <1>k DEF Cha!Finale
<1>d. "diretto" \in Cha!Luogo /\ "omniroute" \in Cha!Luogo /\ Nodo \subseteq Cha!Luogo
  BY DEF Cha!Luogo
<1>h. resto # <<>> => Head(resto) \in Nodo /\ Tail(resto) \in Seq(Nodo)
  BY <1>t
<1> DEFINE Bene == /\ fase' \in Z /\ giro' \in G /\ task' \in K /\ risposta' \in Cha!Risposta
                   /\ resto' \in Seq(Nodo)
           Ancora == /\ fonti' \subseteq Cha!Luogo /\ proposti' \subseteq Cha!Luogo /\ via' \in BOOLEAN
                     /\ modo' = modo /\ scelti' = scelti
<1> HIDE DEF G, K, Z
<1>z. {"arrivo", "nodi", "loop", "flusso", "corrente", "chunk", "federazione", "provider", "chiusa"} \subseteq Z
  BY DEF Z
<1>v. {"niente", "testo", "errore", "504", "client", "nostri"} \subseteq Cha!Risposta
  BY DEF Cha!Risposta
<1>0. ASSUME Bene, Ancora PROVE InvTipiChat'
  <2>1. Cha!ToSet(scelti') \subseteq Nodo /\ Cha!ToSet(resto') \subseteq Nodo
    BY <1>0, <1>t, InsiemeDi
  <2>2. Cha!ToSet(scelti)' = Cha!ToSet(scelti') /\ Cha!ToSet(resto)' = Cha!ToSet(resto')
    BY DEF Cha!ToSet
  <2> QED BY <1>0, <1>t, <2>1, <2>2 DEF InvTipiChat, Cha!TypeOK, G, K, Z
<1>1. ASSUME Cha!Arriva PROVE Bene /\ Ancora
  BY <1>1, <1>t, <1>l, <1>k, <1>d, <1>z DEF Cha!Arriva
<1>2. ASSUME Cha!ProvaNodo PROVE Bene /\ Ancora
  BY <1>2, <1>t, <1>l, <1>a, <1>d, <1>h, <1>z DEF Cha!ProvaNodo
<1>3. ASSUME Cha!ChiamaModello PROVE Bene /\ Ancora
  <2>1. ASSUME NEW r \in {"occupato", "errore", "eccezione", "testo", "nostri", "client"}, Cha!Esce(r),
               r = "occupato" => giro.dove \in Nodo
        PROVE Bene
    <3>2. CASE giro.dove = "diretto"
      <4>1. Cha!EsceDiretto(r) /\ r # "occupato"
        BY <2>1, <3>2 DEF Cha!Esce, Cha!ChatCompletionAssumption
      <4>2. CASE modo.flusso
        BY <4>1, <4>2, <1>t, <1>k, <1>z, <1>v DEF Cha!EsceDiretto
      <4>3. CASE ~modo.flusso /\ r \in {"errore", "eccezione"}
        BY <4>1, <4>3, <1>t, <1>k, <1>z, <1>v DEF Cha!EsceDiretto, Cha!Oltre, Cha!FuoriTempo
      <4>4. CASE ~modo.flusso /\ r \notin {"errore", "eccezione"}
        BY <4>1, <4>4, <1>t, <1>f, <1>z, <1>v DEF Cha!EsceDiretto, Cha!Chiude
      <4> QED BY <4>2, <4>3, <4>4
    <3>3. CASE giro.dove # "diretto" /\ modo.flusso
      BY <2>1, <3>3, <1>t, <1>a, <1>z, <1>v DEF Cha!Esce, Cha!EsceFlusso
    <3>4. CASE giro.dove # "diretto" /\ ~modo.flusso
      BY <2>1, <3>4, <1>t, <1>a, <1>k, <1>f, <1>l, <1>d, <1>z, <1>v
      DEF Cha!Esce, Cha!EsceNodo, Cha!Chiude, Cha!FuoriTempo, Cha!Diretto
    <3> QED BY <3>2, <3>3, <3>4
  <2>2. ASSUME fase' = fase, task' = task, risposta' = risposta, resto' = resto, giro' \in G PROVE Bene
    BY <2>2, <1>t
  <2>3. ASSUME Cha!Fallita PROVE Bene
    <3>1. [giro EXCEPT !.senza = TRUE] \in G
      BY <1>t DEF G
    <3> QED BY <2>1, <2>2, <2>3, <3>1 DEF Cha!Fallita
  <2>4. ASSUME Cha!Nostri PROVE Bene
    <3>1. giro.n + 1 < MaxGiri => [giro EXCEPT !.n = @ + 1] \in G
      BY <1>t DEF G, Cha!ChatCompletionAssumption
    <3> QED BY <2>1, <2>2, <2>4, <3>1 DEF Cha!Nostri
  <2>5. Bene
    BY <1>3, <2>1, <2>3, <2>4 DEF Cha!ChiamaModello, Cha!Occupato, Cha!Rete, Cha!Testo, Cha!Malformata, Cha!DelClient
  <2>6. giro.dove \in Cha!Luogo
    BY <1>t DEF G
  <2>7. Ancora
    BY <1>3, <1>t, <2>6 DEF Cha!ChiamaModello, Cha!Offre
  <2> QED BY <2>5, <2>7
<1>4. ASSUME Cha!NodiFiniti PROVE Bene /\ Ancora
  BY <1>4, <1>t, <1>l, <1>d, <1>a, <1>k, <1>z, <1>v DEF Cha!NodiFiniti, Cha!Diretto, Cha!FuoriTempo
<1>5. ASSUME Cha!ProvaFlusso PROVE Bene /\ Ancora
  BY <1>5, <1>t, <1>l, <1>d, <1>a, <1>h, <1>z DEF Cha!ProvaFlusso
<1>6. ASSUME Cha!FlussoDiretto PROVE Bene /\ Ancora
  BY <1>6, <1>t, <1>l, <1>d, <1>a, <1>z, <1>v DEF Cha!FlussoDiretto
<1>7. ASSUME Cha!Inoltra PROVE Bene /\ Ancora
  <2>1. giro.dove \in Cha!Luogo
    BY <1>t DEF G
  <2> QED BY <1>7, <1>t, <2>1 DEF Cha!Inoltra
<1>8. ASSUME Cha!FineFlusso \/ Cha!SpezzaFlusso PROVE Bene /\ Ancora
  BY <1>8, <1>t, <1>k, <1>z, <1>v DEF Cha!FineFlusso, Cha!SpezzaFlusso
<1>9. ASSUME Cha!Chunk \/ Cha!Abbandona PROVE Bene /\ Ancora
  BY <1>9, <1>t, <1>k, <1>z DEF Cha!Chunk, Cha!Abbandona
<1>10. ASSUME Cha!Federazione \/ Cha!Provider PROVE Bene /\ Ancora
  BY <1>10, <1>t, <1>k, <1>f, <1>z, <1>v DEF Cha!Federazione, Cha!Provider, Cha!Chiude, Cha!Oltre, Cha!FuoriTempo
<1>11. ASSUME UNCHANGED Cha!vars PROVE Bene /\ Ancora
  BY <1>11, <1>t DEF Cha!vars
<1> QED
  BY <1>0, <1>1, <1>2, <1>3, <1>4, <1>5, <1>6, <1>7, <1>8, <1>9, <1>10, <1>11 DEF Cha!Next, Cha!Finita

\* The stage, the candidates, the tool loop, the task and the answer keep their types, and
\* the loop never goes past max_iterations (chat_completions, _run_tool_loop).
THEOREM TipiDellaChat == Cha!ChatCompletionAssumption => (Cha!Spec => []Cha!TypeOK)
<1> SUFFICES ASSUME Cha!ChatCompletionAssumption PROVE Cha!Spec => []Cha!TypeOK
  OBVIOUS
<1>1. InvTipiChat => Cha!TypeOK
  BY DEF InvTipiChat
<1> QED BY <1>1, TipiChatInit, TipiChatNext, PTL DEF Cha!Spec

-----------------------------------------------------------------------------
(* ... its outcome, and the source of a stream. *)

\* Before a request is closed its task is open, with nothing remembered.
Aperta == {"nodi", "loop", "federazione", "provider"}
TaskAperto ==
  /\ fase = "arrivo" => task = [ram |-> "niente", db |-> "niente", memoria |-> 0]
  /\ fase \in Aperta /\ ~modo.flusso =>
       task.ram = "created" /\ task.db \in {"created", "assigned"} /\ task.memoria = 0

\* Only a stream forwards bytes or ends with a last chunk.
SoloFlusso ==
  /\ fase \in {"flusso", "corrente", "chunk"} => modo.flusso
  /\ task \in [ram : {"niente", "created", "done", "failed"},
               db : {"niente", "created", "assigned", "done", "failed"}, memoria : {0, 2}]

InvEsito == TaskAperto /\ SoloFlusso /\ Cha!EsitoVero

LEMMA EsitoInit == Cha!Init => InvEsito
<1> SUFFICES ASSUME Cha!Init PROVE InvEsito
  OBVIOUS
<1> QED BY DEF Cha!Init, InvEsito, TaskAperto, Aperta, SoloFlusso, Cha!EsitoVero

LEMMA EsitoNext == InvEsito /\ [Cha!Next]_Cha!vars => InvEsito'
<1> SUFFICES ASSUME InvEsito, [Cha!Next]_Cha!vars PROVE InvEsito'
  OBVIOUS
<1> USE DEF InvEsito, TaskAperto, Aperta, SoloFlusso, Cha!EsitoVero
<1>1. ASSUME Cha!Arriva PROVE InvEsito'
  BY <1>1 DEF Cha!Arriva, Cha!Con
<1>2. ASSUME Cha!ProvaNodo PROVE InvEsito'
  BY <1>2 DEF Cha!ProvaNodo, Cha!Assegnato
<1>3. ASSUME Cha!ChiamaModello PROVE InvEsito'
  <2>1. ASSUME NEW r \in {"occupato", "errore", "eccezione", "testo", "nostri", "client"}, Cha!Esce(r)
        PROVE InvEsito'
    <3>1. fase = "loop" /\ modo' = modo
      BY <1>3 DEF Cha!ChiamaModello
    <3>2. CASE giro.dove = "diretto"
      BY <2>1, <3>1, <3>2 DEF Cha!Esce, Cha!EsceDiretto, Cha!Oltre, Cha!Chiude, Cha!Finale, Cha!Con, Cha!FuoriTempo
    <3>3. CASE giro.dove # "diretto" /\ modo.flusso
      BY <2>1, <3>1, <3>3 DEF Cha!Esce, Cha!EsceFlusso, Cha!Assegnato
    <3>4. CASE giro.dove # "diretto" /\ ~modo.flusso
      BY <2>1, <3>1, <3>4 DEF Cha!Esce, Cha!EsceNodo, Cha!Chiude, Cha!Finale, Cha!Con, Cha!FuoriTempo,
             Cha!Diretto, Cha!Assegnato
    <3> QED BY <3>2, <3>3, <3>4
  <2>2. ASSUME fase' = fase, task' = task, risposta' = risposta PROVE InvEsito'
    <3>1. modo' = modo
      BY <1>3 DEF Cha!ChiamaModello
    <3> QED BY <2>2, <3>1
  <2> QED BY <1>3, <2>1, <2>2 DEF Cha!ChiamaModello, Cha!Occupato, Cha!Rete, Cha!Fallita, Cha!Testo,
            Cha!Malformata, Cha!Nostri, Cha!DelClient
<1>4. ASSUME Cha!NodiFiniti PROVE InvEsito'
  BY <1>4 DEF Cha!NodiFiniti, Cha!Diretto, Cha!FuoriTempo, Cha!Assegnato, Cha!Con
<1>5. ASSUME Cha!ProvaFlusso \/ Cha!FlussoDiretto PROVE InvEsito'
  BY <1>5 DEF Cha!ProvaFlusso, Cha!FlussoDiretto, Cha!Assegnato
<1>6. ASSUME Cha!Inoltra PROVE InvEsito'
  BY <1>6 DEF Cha!Inoltra
<1>7. ASSUME Cha!FineFlusso \/ Cha!SpezzaFlusso PROVE InvEsito'
  BY <1>7 DEF Cha!FineFlusso, Cha!SpezzaFlusso, Cha!Con
<1>8. ASSUME Cha!Chunk \/ Cha!Abbandona PROVE InvEsito'
  BY <1>8 DEF Cha!Chunk, Cha!Abbandona, Cha!Con
<1>9. ASSUME Cha!Federazione PROVE InvEsito'
  BY <1>9 DEF Cha!Federazione, Cha!Chiude, Cha!Finale, Cha!Con, Cha!Oltre, Cha!FuoriTempo
<1>10. ASSUME Cha!Provider PROVE InvEsito'
  BY <1>10 DEF Cha!Provider, Cha!Chiude, Cha!Finale, Cha!Con
<1>11. ASSUME UNCHANGED Cha!vars PROVE InvEsito'
  BY <1>11 DEF Cha!vars
<1> QED BY <1>1, <1>2, <1>3, <1>4, <1>5, <1>6, <1>7, <1>8, <1>9, <1>10, <1>11 DEF Cha!Next, Cha!Finita

\* Without streaming the client's answer, the task in memory, the task in the table and
\* what the conversation remembers agree, for any number of candidates, whatever each
\* stage answers and wherever the budget ends (chat_completions, _finalize_task).
THEOREM EsitoConcorde == Cha!Spec => []Cha!EsitoVero
<1>1. InvEsito => Cha!EsitoVero
  BY DEF InvEsito
<1> QED BY <1>1, EsitoInit, EsitoNext, PTL DEF Cha!Spec

\* Bytes come from the candidate of this stage, and no other is tried after them.
InvFonti == fonti \subseteq {giro.dove} /\ (fonti # {} => fase \in {"corrente", "chiusa"})

LEMMA FontiNext == InvFonti /\ [Cha!Next]_Cha!vars => InvFonti'
<1> SUFFICES ASSUME InvFonti, [Cha!Next]_Cha!vars PROVE InvFonti'
  OBVIOUS
<1> USE DEF InvFonti
<1>1. ASSUME fonti = {}, fonti' = fonti PROVE InvFonti'
  BY <1>1
<1>2. ASSUME Cha!Arriva \/ Cha!ProvaNodo \/ Cha!NodiFiniti \/ Cha!ProvaFlusso \/ Cha!FlussoDiretto
      PROVE InvFonti'
  <2>1. fonti = {} /\ fonti' = fonti
    BY <1>2 DEF Cha!Arriva, Cha!ProvaNodo, Cha!NodiFiniti, Cha!ProvaFlusso, Cha!FlussoDiretto
  <2> QED BY <1>1, <2>1
<1>3. ASSUME Cha!ChiamaModello \/ Cha!Chunk \/ Cha!Federazione \/ Cha!Provider PROVE InvFonti'
  <2>1. fonti = {} /\ fonti' = fonti
    BY <1>3 DEF Cha!ChiamaModello, Cha!Chunk, Cha!Federazione, Cha!Provider
  <2> QED BY <1>1, <2>1
<1>4. ASSUME Cha!Inoltra PROVE InvFonti'
  BY <1>4 DEF Cha!Inoltra
<1>5. ASSUME Cha!FineFlusso \/ Cha!SpezzaFlusso \/ Cha!Abbandona PROVE InvFonti'
  BY <1>5 DEF Cha!FineFlusso, Cha!SpezzaFlusso, Cha!Abbandona
<1>6. ASSUME UNCHANGED Cha!vars PROVE InvFonti'
  BY <1>6 DEF Cha!vars
<1> QED BY <1>2, <1>3, <1>4, <1>5, <1>6 DEF Cha!Next, Cha!Finita

LEMMA FontiInit == Cha!Init => InvFonti
BY DEF Cha!Init, InvFonti

\* Whatever breaks, the client of a stream never reads the bytes of two backends
\* (_stream_gen commits to a candidate once it has answered).
THEOREM UnaFonteSola == Cha!Spec => []Cha!UnaSolaFonte
<1>1. InvFonti => Cha!UnaSolaFonte
  BY DEF InvFonti, Cha!UnaSolaFonte
<1> QED BY <1>1, FontiInit, FontiNext, PTL DEF Cha!Spec

-----------------------------------------------------------------------------
(* The tools: ToolServer. *)

TooChiamate ==
  [via : {"mcp", "diretta"}, spetta : SUBSET Too!Nomi, tool : Too!Nomi,
   comando : Too!Comandi \union {"-"}, conferma : {"si", "no"},
   pc : {"esegue", "letta", "aperta", "host", "fine", "persa"}, letto : SUBSET Nat,
   host : {"no", "chiesto", "fatto", "rifiutato"}, riga : {"si", "no"},
   esito : {"-", "ignoto", "niente", "trovato", "Stored", "bloccato", "chiede", "fatto",
            "rifiutato", "non raggiungibile"}]

\* A call runs a tool that is its caller's, touches the memory only for a note, asks the host
\* only before its end, and is written down when it ends with an answer of the host.
TooVera(r, c) ==
  /\ r.tool \in r.spetta
  /\ r.pc \in {"letta", "aperta"} => r.tool = "nota"
  /\ r.pc \in {"esegue", "letta", "aperta"} => r.host = "no"
  /\ r.esito = "Stored" => r.pc = "fine"
  /\ r.host # "no" /\ r.pc = "fine" => r.riga = "si" \/ r.esito = "non raggiungibile"
  /\ r.host = "fatto" => Too!Verdetto(c.ospite, r.comando, r.conferma) = "passa"

\* The calls that write the memory, those that are notes, and the notes newer than one.
TooScrive(f) == {k \in DOMAIN f : f[k].pc \in {"letta", "aperta"}}
TooNote(f) == {k \in DOMAIN f : f[k].tool = "nota"}
TooDopo(f, k) == {n \in TooNote(f) : n > k}

\* The notes that the memory owes: written with no other write across, and not crowded out.
TooDovute(f, s) ==
  {k \in DOMAIN f : f[k].esito = "Stored" /\ k \notin s /\ ~(Cardinality(TooDopo(f, k)) >= MaxVoci)}

\* They are in the file unless someone is writing it, and then in what the writer has read,
\* unless there are two writers; a file opened stays broken unless another writer closes it.
TooMemoria(f, m, s) ==
  /\ m.note \subseteq TooNote(f) /\ \A w \in DOMAIN f : f[w].letto \subseteq TooNote(f)
  /\ \A k \in TooDovute(f, s) :
       (\A w \in DOMAIN f : f[w].pc # "aperta") => m.file = "intero" /\ k \in m.note
  /\ \A k \in TooDovute(f, s), w \in TooScrive(f) :
       k \in f[w].letto \/ \E v \in TooScrive(f) : v # w
  /\ \A w \in DOMAIN f : f[w].pc = "aperta" =>
       m.file = "rotto" \/ \A k \in DOMAIN f : k = w \/ f[k].esito = "Stored" => k \in s

TooTipo ==
  /\ ambiente \in Configurazione
  /\ invocate \in Seq(TooChiamate)
  /\ memoria \in [note : SUBSET Nat, file : {"intero", "rotto"}]

TooInv ==
  /\ TooTipo
  /\ \A k \in DOMAIN invocate : TooVera(invocate[k], ambiente)
  /\ TooMemoria(invocate, memoria, sovrapposte)

\* A set of naturals with a bound that is not empty has a greatest one.
LEMMA TooMassimo ==
  ASSUME NEW q, NEW n \in Nat, q \subseteq 0..n, q # {}
  PROVE  \E t \in q : \A y \in q : y <= t
<1> DEFINE d == {n - y : y \in q}
<1>1. d \subseteq Nat /\ d # {}
  <2>1. \A y \in q : n - y \in Nat
    OBVIOUS
  <2> QED BY <2>1
<1>2. PICK t \in d : \A y \in d : t <= y
  <2> HIDE DEF d
  <2> QED BY <1>1, TurMinimo
<1>3. PICK u \in q : t = n - u
  OBVIOUS
<1>4. ASSUME NEW y \in q
      PROVE  y <= u
  <2>1. y \in Int /\ u \in Int  OBVIOUS
  <2>2. n - u <= n - y  BY <1>2, <1>3
  <2> QED BY <2>1, <2>2
<1> QED BY <1>4

\* Who is recognised is a client with that token.
LEMMA TooRiconosce ==
  ASSUME Too!ToolServerAssumption, NEW c \in Configurazione, NEW token,
         Too!Riconosce(c, token) # Too!Nessuno
  PROVE  \E k \in DOMAIN Too!Clienti(c) :
           Too!Riconosce(c, token) = Too!Clienti(c)[k] /\ Too!Clienti(c)[k].token = token
<1> DEFINE D == DOMAIN Too!Clienti(c)
           i == {k \in D : Too!Clienti(c)[k].token = token}
<1>1. Len(c.voci) \in Nat /\ DOMAIN c.voci = 1..Len(c.voci)
  BY DEF Too!ToolServerAssumption
<1>2. D \subseteq 0..(Len(c.voci) + 1)
  <2>1. D \subseteq (DOMAIN c.voci) \union {Len(c.voci) + 1}
    BY DEF Too!Clienti, Too!Accettate
  <2> QED BY <2>1, <1>1
<1>3. i # {} /\ Too!Riconosce(c, token) = Too!Clienti(c)[CHOOSE k \in i : \A h \in i : h <= k]
  BY DEF Too!Riconosce
<1>4. i \subseteq 0..(Len(c.voci) + 1) /\ Len(c.voci) + 1 \in Nat
  BY <1>1, <1>2
<1> HIDE DEF i
<1>5. \E k \in i : \A h \in i : h <= k
  BY <1>3, <1>4, TooMassimo
<1>6. (CHOOSE k \in i : \A h \in i : h <= k) \in i
  BY <1>5
<1> QED BY <1>3, <1>6 DEF i

\* A client has what the environment gives to its token under its name.
LEMMA TooClienteSpetta ==
  ASSUME Too!ToolServerAssumption, NEW c \in Configurazione, NEW k \in DOMAIN Too!Clienti(c),
         NEW t \in Too!Clienti(c)[k].tool
  PROVE  Too!Spetta(c, Too!Clienti(c)[k].token, Too!Clienti(c)[k].nome, t)
<1> DEFINE A == Too!Accettate(c)
           D == A \union (IF Too!Singolo(c) THEN {Len(c.voci) + 1} ELSE {})
           F(i) == IF i \in A
                   THEN Too!Cliente(c.voci[i].nome, c.voci[i].token, Too!Concessi(c, c.voci[i].nome, {}))
                   ELSE Too!Cliente("mcp", c.singolo, Too!Concessi(c, "mcp", Too!Nomi))
<1>1. Too!Clienti(c) = [i \in D |-> F(i)]
  BY DEF Too!Clienti
<1> HIDE DEF F, D, A
<1>2. k \in D /\ Too!Clienti(c)[k] = F(k)
  BY <1>1
<1>3. CASE k \in A
  <2>1. Too!Clienti(c)[k] =
          Too!Cliente(c.voci[k].nome, c.voci[k].token, Too!Concessi(c, c.voci[k].nome, {}))
    BY <1>2, <1>3 DEF F
  <2>2. k \in DOMAIN c.voci /\ ~Too!Corto(c.voci[k].token)
    BY <1>3 DEF A, Too!Accettate
  <2>3. /\ Too!Clienti(c)[k].nome = c.voci[k].nome
        /\ Too!Clienti(c)[k].token = c.voci[k].token
        /\ t \in Too!Concessi(c, c.voci[k].nome, {})
    BY <2>1 DEF Too!Cliente
  <2> QED BY <2>2, <2>3 DEF Too!Spetta
<1>4. CASE k \notin A
  <2>1. Too!Clienti(c)[k] = Too!Cliente("mcp", c.singolo, Too!Concessi(c, "mcp", Too!Nomi))
    BY <1>2, <1>4 DEF F
  <2>2. /\ Too!Clienti(c)[k].nome = "mcp" /\ Too!Clienti(c)[k].token = c.singolo
        /\ t \in Too!Concessi(c, "mcp", Too!Nomi)
    BY <2>1 DEF Too!Cliente
  <2> QED BY <2>2 DEF Too!Spetta
<1> QED BY <1>3, <1>4

\* Whoever enters has no more than the environment gives.
LEMMA TooEntraDovuto ==
  ASSUME Too!ToolServerAssumption, NEW c \in Configurazione, NEW token \in Too!Token,
         NEW vicino \in BOOLEAN, Too!Ingresso(c, token, vicino).stato = "entra",
         NEW t \in Too!Nomi, t \in Too!Ingresso(c, token, vicino).chi.tool
  PROVE  t \in Too!Spettanti(c, token, Too!Ingresso(c, token, vicino).chi.nome)
<1> DEFINE I == Too!Ingresso(c, token, vicino)
           R == Too!Riconosce(c, token)
<1>1. /\ c.acceso
      /\ \/ DOMAIN Too!Clienti(c) = {} /\ c.locale /\ I.chi = Too!Loopback
         \/ R # Too!Nessuno /\ I.chi = R
  BY DEF Too!Ingresso
<1> HIDE DEF I, R
<1>2. CASE DOMAIN Too!Clienti(c) = {} /\ c.locale /\ I.chi = Too!Loopback
  <2>1. Too!Accettate(c) = {} /\ ~Too!Singolo(c)
    BY <1>2 DEF Too!Clienti
  <2>2. c.singolo \in {"-", "corto"}
    BY <2>1 DEF Too!Singolo, Too!Corto
  <2>3. I.chi.nome = "loopback"
    BY <1>2 DEF Too!Loopback, Too!Cliente
  <2> QED BY <1>1, <1>2, <2>2, <2>3 DEF Too!Spettanti, Too!Spetta, I
<1>3. CASE R # Too!Nessuno /\ I.chi = R
  <2>1. PICK k \in DOMAIN Too!Clienti(c) : R = Too!Clienti(c)[k] /\ Too!Clienti(c)[k].token = token
    BY <1>3, TooRiconosce DEF R
  <2>2. t \in Too!Clienti(c)[k].tool
    BY <1>3, <2>1 DEF I
  <2>3. Too!Spetta(c, token, I.chi.nome, t)
    BY <1>3, <2>1, <2>2, TooClienteSpetta
  <2> QED BY <1>1, <2>3 DEF Too!Spettanti, I
<1> QED BY <1>1, <1>2, <1>3

\* There are finitely many calls, and so many notes newer than one; more calls, more of them.
LEMMA TooConta ==
  ASSUME NEW S, NEW f \in Seq(S), NEW k
  PROVE  /\ IsFiniteSet(DOMAIN f) /\ IsFiniteSet(TooDopo(f, k)) /\ IsFiniteSet(TooScrive(f))
         /\ Cardinality(TooDopo(f, k)) \in Nat /\ Cardinality(TooScrive(f)) \in Nat
<1>1. DOMAIN f = 1..Len(f) /\ Len(f) \in Nat
  OBVIOUS
<1>2. IsFiniteSet(DOMAIN f)
  BY <1>1, FS_Interval
<1>3. TooDopo(f, k) \subseteq DOMAIN f /\ TooScrive(f) \subseteq DOMAIN f
  BY DEF TooDopo, TooNote, TooScrive
<1>4. IsFiniteSet(TooDopo(f, k)) /\ IsFiniteSet(TooScrive(f))
  BY <1>2, <1>3, FS_Subset
<1> QED BY <1>2, <1>4, FS_CardinalityType

LEMMA TooCresce ==
  ASSUME MaxVoci \in Nat, NEW S, NEW f \in Seq(S), NEW g \in Seq(S), TooNote(f) \subseteq TooNote(g),
         NEW k, Cardinality(TooDopo(f, k)) >= MaxVoci
  PROVE  Cardinality(TooDopo(g, k)) >= MaxVoci
<1>1. TooDopo(f, k) \subseteq TooDopo(g, k)
  BY DEF TooDopo
<1>2. IsFiniteSet(TooDopo(g, k)) /\ Cardinality(TooDopo(g, k)) \in Nat
      /\ Cardinality(TooDopo(f, k)) \in Nat
  BY TooConta
<1>3. Cardinality(TooDopo(f, k)) <= Cardinality(TooDopo(g, k))
  BY <1>1, <1>2, FS_Subset
<1> QED BY <1>2, <1>3

\* What is owed stays so as calls come, as long as no note is answered.
LEMMA TooMemoriaQuieta ==
  ASSUME MaxVoci \in Nat, NEW S, NEW f \in Seq(S), NEW g \in Seq(S), NEW m, NEW s,
         TooMemoria(f, m, s), DOMAIN f \subseteq DOMAIN g,
         \A w \in DOMAIN f :
           /\ g[w].letto = f[w].letto /\ g[w].tool = f[w].tool
           /\ g[w].pc = "letta" <=> f[w].pc = "letta"
           /\ g[w].pc = "aperta" <=> f[w].pc = "aperta"
           /\ g[w].esito = "Stored" => f[w].esito = "Stored",
         \A w \in DOMAIN g : w \notin DOMAIN f =>
           g[w].letto = {} /\ g[w].pc = "esegue" /\ g[w].esito # "Stored"
  PROVE  TooMemoria(g, m, s)
<1>1. TooNote(f) \subseteq TooNote(g)
  BY DEF TooNote
<1>2. TooScrive(g) = TooScrive(f)
  BY DEF TooScrive
<1>3. \A k \in TooDovute(g, s) : k \in TooDovute(f, s)
  <2> TAKE k \in TooDovute(g, s)
  <2>1. k \in DOMAIN g /\ g[k].esito = "Stored" /\ k \notin s
        /\ ~(Cardinality(TooDopo(g, k)) >= MaxVoci)
    BY DEF TooDovute
  <2>2. k \in DOMAIN f /\ f[k].esito = "Stored"
    BY <2>1
  <2>3. ~(Cardinality(TooDopo(f, k)) >= MaxVoci)
    BY <1>1, <2>1, TooCresce
  <2> QED BY <2>1, <2>2, <2>3 DEF TooDovute
<1>4. m.note \subseteq TooNote(g) /\ \A w \in DOMAIN g : g[w].letto \subseteq TooNote(g)
  <2>1. m.note \subseteq TooNote(f) /\ \A w \in DOMAIN f : f[w].letto \subseteq TooNote(f)
    BY DEF TooMemoria
  <2> QED BY <1>1, <2>1
<1>5. ASSUME NEW k \in TooDovute(g, s), \A w \in DOMAIN g : g[w].pc # "aperta"
      PROVE  m.file = "intero" /\ k \in m.note
  <2>1. \A w \in DOMAIN f : f[w].pc # "aperta"
    BY <1>5
  <2> QED BY <1>3, <2>1 DEF TooMemoria
<1>6. ASSUME NEW k \in TooDovute(g, s), NEW w \in TooScrive(g)
      PROVE  k \in g[w].letto \/ \E v \in TooScrive(g) : v # w
  <2>1. k \in f[w].letto \/ \E v \in TooScrive(f) : v # w
    BY <1>2, <1>3 DEF TooMemoria
  <2>2. w \in DOMAIN f
    BY <1>2 DEF TooScrive
  <2> QED BY <1>2, <2>1, <2>2
<1>7. ASSUME NEW w \in DOMAIN g, g[w].pc = "aperta"
      PROVE  m.file = "rotto" \/ \A k \in DOMAIN g : k = w \/ g[k].esito = "Stored" => k \in s
  <2>1. w \in DOMAIN f /\ f[w].pc = "aperta"
    BY <1>7
  <2>2. m.file = "rotto" \/ \A k \in DOMAIN f : k = w \/ f[k].esito = "Stored" => k \in s
    BY <2>1 DEF TooMemoria
  <2>3. \A k \in DOMAIN g : k = w \/ g[k].esito = "Stored" =>
          k \in DOMAIN f /\ (k = w \/ f[k].esito = "Stored")
    BY <2>1
  <2> QED BY <2>2, <2>3
<1> QED BY <1>4, <1>5, <1>6, <1>7 DEF TooMemoria

\* A note is read.
LEMMA TooMemoriaLetta ==
  ASSUME MaxVoci \in Nat, NEW S, NEW f \in Seq(S), NEW g \in Seq(S), NEW m, NEW s,
         TooMemoria(f, m, s), DOMAIN g = DOMAIN f, NEW k \in DOMAIN f,
         \A w \in DOMAIN f : w # k => g[w] = f[w],
         f[k].pc = "esegue", g[k].pc = "letta", g[k].tool = f[k].tool, g[k].esito # "Stored",
         g[k].letto = IF m.file = "intero" THEN m.note ELSE {}
  PROVE  TooMemoria(g, m, s)
<1>1. TooNote(f) = TooNote(g)
  BY DEF TooNote
<1>2. TooScrive(g) = TooScrive(f) \union {k} /\ k \notin TooScrive(f)
  BY DEF TooScrive
<1>3. TooDovute(g, s) \subseteq TooDovute(f, s)
  <2>1. \A x : TooDopo(g, x) = TooDopo(f, x)
    BY <1>1 DEF TooDopo
  <2> QED BY <2>1 DEF TooDovute
<1>4. \A w \in DOMAIN f : g[w].pc = "aperta" <=> f[w].pc = "aperta"
  OBVIOUS
<1>5. m.note \subseteq TooNote(g) /\ \A w \in DOMAIN g : g[w].letto \subseteq TooNote(g)
  <2>1. m.note \subseteq TooNote(f) /\ \A w \in DOMAIN f : f[w].letto \subseteq TooNote(f)
    BY DEF TooMemoria
  <2>2. \A w \in DOMAIN g : w = k \/ g[w].letto = f[w].letto
    OBVIOUS
  <2> QED BY <1>1, <2>1, <2>2
<1>6. ASSUME NEW x \in TooDovute(g, s), \A w \in DOMAIN g : g[w].pc # "aperta"
      PROVE  m.file = "intero" /\ x \in m.note
  BY <1>3, <1>4, <1>6 DEF TooMemoria
<1>7. ASSUME NEW x \in TooDovute(g, s), NEW w \in TooScrive(g)
      PROVE  x \in g[w].letto \/ \E v \in TooScrive(g) : v # w
  <2>1. CASE w = k
    <3>1. CASE \A v \in DOMAIN f : f[v].pc # "aperta"
      <4>1. m.file = "intero" /\ x \in m.note
        BY <1>3, <3>1 DEF TooMemoria
      <4> QED BY <2>1, <4>1
    <3>2. CASE \E v \in DOMAIN f : f[v].pc = "aperta"
      <4>1. PICK v \in DOMAIN f : f[v].pc = "aperta"
        BY <3>2
      <4>2. v \in TooScrive(g) /\ v # w
        BY <1>2, <2>1, <4>1 DEF TooScrive
      <4> QED BY <4>2
    <3> QED BY <3>1, <3>2
  <2>2. CASE w # k
    <3>1. w \in TooScrive(f) /\ w \in DOMAIN f /\ g[w] = f[w]
      BY <1>2, <2>2 DEF TooScrive
    <3>2. x \in f[w].letto \/ \E v \in TooScrive(f) : v # w
      BY <1>3, <3>1 DEF TooMemoria
    <3> QED BY <1>2, <3>1, <3>2
  <2> QED BY <2>1, <2>2
<1>8. ASSUME NEW w \in DOMAIN g, g[w].pc = "aperta"
      PROVE  m.file = "rotto" \/ \A x \in DOMAIN g : x = w \/ g[x].esito = "Stored" => x \in s
  <2>1. m.file = "rotto" \/ \A x \in DOMAIN f : x = w \/ f[x].esito = "Stored" => x \in s
    BY <1>4, <1>8 DEF TooMemoria
  <2> QED BY <2>1
<1> QED BY <1>5, <1>6, <1>7, <1>8 DEF TooMemoria

\* The file is opened: whoever else is writing makes every note a victim.
TooAperta(f, g, n, s, z, k) ==
  /\ DOMAIN g = DOMAIN f /\ \A w \in DOMAIN f : w # k => g[w] = f[w]
  /\ f[k].pc = "letta" /\ g[k].pc = "aperta" /\ g[k].esito # "Stored"
  /\ g[k].tool = f[k].tool /\ g[k].letto = f[k].letto
  /\ n.note = {} /\ n.file = "rotto"
  /\ s \subseteq z /\ ((\E v \in TooScrive(f) : v # k) => DOMAIN f \subseteq z)

LEMMA TooMemoriaAperta ==
  ASSUME MaxVoci \in Nat, NEW S, NEW f \in Seq(S), NEW g \in Seq(S), NEW m, NEW n, NEW s, NEW z,
         TooMemoria(f, m, s), NEW k \in DOMAIN f, TooAperta(f, g, n, s, z, k)
  PROVE  TooMemoria(g, n, z)
<1> USE DEF TooAperta
<1>1. TooNote(f) = TooNote(g)
  BY DEF TooNote
<1>2. TooScrive(g) = TooScrive(f) /\ k \in TooScrive(g)
  BY DEF TooScrive
<1>3. TooDovute(g, z) \subseteq TooDovute(f, s)
  <2>1. \A x : TooDopo(g, x) = TooDopo(f, x)
    BY <1>1 DEF TooDopo
  <2> QED BY <2>1 DEF TooDovute
<1>4. \A w \in DOMAIN g : g[w].letto \subseteq TooNote(g)
  <2>1. \A w \in DOMAIN f : f[w].letto \subseteq TooNote(f)
    BY DEF TooMemoria
  <2>2. \A w \in DOMAIN g : g[w].letto = f[w].letto
    OBVIOUS
  <2> QED BY <1>1, <2>1, <2>2
<1>5. ASSUME NEW x \in TooDovute(g, z), NEW w \in TooScrive(g)
      PROVE  x \in g[w].letto \/ \E v \in TooScrive(g) : v # w
  <2>1. ~\E v \in TooScrive(f) : v # k
    <3>1. x \in DOMAIN f /\ x \notin z
      BY DEF TooDovute
    <3> QED BY <3>1
  <2>2. w = k
    BY <1>2, <2>1
  <2>3. x \in f[k].letto
    BY <1>2, <1>3, <2>1 DEF TooMemoria
  <2> QED BY <2>2, <2>3
<1> QED BY <1>2, <1>4, <1>5 DEF TooMemoria, TooScrive

\* The file is written: what it held before, what the writer had read and the new note, the
\* oldest ones apart.
TooScritta(f, g, m, n, s, z, k) ==
  /\ DOMAIN g = DOMAIN f /\ \A w \in DOMAIN f : w # k => g[w] = f[w]
  /\ f[k].pc = "aperta" /\ g[k].pc = "fine" /\ f[k].tool = "nota"
  /\ g[k].tool = f[k].tool /\ g[k].letto = f[k].letto
  /\ n.note \subseteq f[k].letto \union {k} /\ (m.file = "rotto" => n.file = "intero")
  /\ \A x \in f[k].letto \union {k} :
       x \in n.note \/ Cardinality({y \in f[k].letto \union {k} : y > x}) >= MaxVoci
  /\ s \subseteq z /\ ((\E v \in TooScrive(f) : v # k) => DOMAIN f \subseteq z)

LEMMA TooMemoriaScritta ==
  ASSUME MaxVoci \in Nat, NEW S, NEW f \in Seq(S), NEW g \in Seq(S), NEW m, NEW n, NEW s, NEW z,
         TooMemoria(f, m, s), NEW k \in DOMAIN f, TooScritta(f, g, m, n, s, z, k)
  PROVE  TooMemoria(g, n, z)
<1> USE DEF TooScritta
<1>1. TooNote(f) = TooNote(g) /\ k \in TooNote(f)
  BY DEF TooNote
<1>2. k \in TooScrive(f) /\ TooScrive(g) = TooScrive(f) \ {k}
  BY DEF TooScrive
<1>3. \A x : TooDopo(g, x) = TooDopo(f, x)
  BY <1>1 DEF TooDopo
<1>4. \A x \in TooDovute(g, z) : x = k \/ x \in TooDovute(f, s)
  BY <1>3 DEF TooDovute
<1>5. \A w \in DOMAIN f : f[w].letto \subseteq TooNote(f)
  BY DEF TooMemoria
<1>6. n.note \subseteq TooNote(g) /\ \A w \in DOMAIN g : g[w].letto \subseteq TooNote(g)
  <2>1. \A w \in DOMAIN g : g[w].letto = f[w].letto
    OBVIOUS
  <2> QED BY <1>1, <1>5, <2>1
<1>7. CASE \E v \in TooScrive(f) : v # k
  <2>1. DOMAIN g \subseteq z
    BY <1>7
  <2>2. TooDovute(g, z) = {}
    BY <2>1 DEF TooDovute
  <2> QED BY <1>6, <2>1, <2>2 DEF TooMemoria
<1>8. CASE ~\E v \in TooScrive(f) : v # k
  <2>1. TooScrive(g) = {}
    BY <1>2, <1>8
  <2>2. \A w \in DOMAIN g : g[w].pc # "aperta"
    BY <2>1 DEF TooScrive
  <2>3. ASSUME NEW x \in TooDovute(g, z)
        PROVE  n.file = "intero" /\ x \in n.note
    <3>1. x \in DOMAIN f /\ x \notin s /\ (x = k \/ f[x].esito = "Stored")
          /\ ~(Cardinality(TooDopo(f, x)) >= MaxVoci)
      BY <1>3, <1>4 DEF TooDovute
    <3>2. m.file = "rotto"
      BY <3>1 DEF TooMemoria
    <3>3. x \in f[k].letto \union {k}
      <4>1. CASE x = k
        BY <4>1
      <4>2. CASE x \in TooDovute(f, s)
        BY <4>2, <1>2, <1>8 DEF TooMemoria
      <4> QED BY <4>1, <4>2, <1>4
    <3>4. ~(Cardinality({y \in f[k].letto \union {k} : y > x}) >= MaxVoci)
      <4> DEFINE Y == {y \in f[k].letto \union {k} : y > x}
      <4>1. Y \subseteq TooDopo(f, x)
        BY <1>1, <1>5 DEF TooDopo
      <4>2. IsFiniteSet(TooDopo(f, x)) /\ Cardinality(TooDopo(f, x)) \in Nat
        BY TooConta
      <4> HIDE DEF Y
      <4>3. IsFiniteSet(Y) /\ Cardinality(Y) <= Cardinality(TooDopo(f, x))
        BY <4>1, <4>2, FS_Subset
      <4>4. Cardinality(Y) \in Nat
        BY <4>3, FS_CardinalityType
      <4>5. ~(Cardinality(Y) >= MaxVoci)
        BY <3>1, <4>2, <4>3, <4>4
      <4> QED BY <4>5 DEF Y
    <3> QED BY <3>2, <3>3, <3>4
  <2> QED BY <1>6, <2>1, <2>2, <2>3 DEF TooMemoria
<1> QED BY <1>7, <1>8

\* The control plane falls: a file that was open is broken, and everything in it lost.
LEMMA TooMemoriaCade ==
  ASSUME MaxVoci \in Nat, NEW S, NEW f \in Seq(S), NEW g \in Seq(S), NEW m, NEW s, NEW z,
         TooMemoria(f, m, s), DOMAIN g = DOMAIN f,
         \A w \in DOMAIN f :
           /\ g[w].letto = f[w].letto /\ g[w].tool = f[w].tool /\ g[w].esito = f[w].esito
           /\ g[w].pc \in {"fine", "persa"},
         s \subseteq z, (\E v \in DOMAIN f : f[v].pc = "aperta") => DOMAIN f \subseteq z
  PROVE  TooMemoria(g, m, z)
<1>1. TooNote(f) = TooNote(g)
  BY DEF TooNote
<1>2. TooScrive(g) = {}
  BY DEF TooScrive
<1>3. TooDovute(g, z) \subseteq TooDovute(f, s)
  <2>1. \A x : TooDopo(g, x) = TooDopo(f, x)
    BY <1>1 DEF TooDopo
  <2> QED BY <2>1 DEF TooDovute
<1>4. m.note \subseteq TooNote(g) /\ \A w \in DOMAIN g : g[w].letto \subseteq TooNote(g)
  <2>1. m.note \subseteq TooNote(f) /\ \A w \in DOMAIN f : f[w].letto \subseteq TooNote(f)
    BY DEF TooMemoria
  <2> QED BY <1>1, <2>1
<1>5. ASSUME NEW x \in TooDovute(g, z)
      PROVE  m.file = "intero" /\ x \in m.note
  <2>1. x \in DOMAIN f /\ x \notin z
    BY DEF TooDovute
  <2>2. \A w \in DOMAIN f : f[w].pc # "aperta"
    BY <2>1
  <2> QED BY <1>3, <2>2 DEF TooMemoria
<1>6. \A w \in DOMAIN g : g[w].pc # "aperta"
  OBVIOUS
<1> QED BY <1>2, <1>4, <1>5, <1>6 DEF TooMemoria

\* One call changes.
TooUna(f, g, k, r) ==
  DOMAIN g = DOMAIN f /\ g[k] = r /\ \A w \in DOMAIN f : w # k => g[w] = f[w]

LEMMA TooCambia ==
  ASSUME NEW S, NEW f \in Seq(S), NEW k \in DOMAIN f, NEW r \in S, NEW g, g = [f EXCEPT ![k] = r]
  PROVE  g \in Seq(S) /\ TooUna(f, g, k, r)
<1>1. Len(f) \in Nat /\ DOMAIN f = 1..Len(f) /\ f \in [1..Len(f) -> S]
  OBVIOUS
<1>2. g \in [1..Len(f) -> S]
  BY <1>1
<1> QED BY <1>1, <1>2 DEF TooUna

\* A call goes on without the memory.
LEMMA TooQuieta ==
  ASSUME Too!ToolServerAssumption, TooInv, NEW k \in DOMAIN invocate, NEW r \in TooChiamate,
         invocate' = [invocate EXCEPT ![k] = r],
         UNCHANGED <<ambiente, memoria, sovrapposte>>, TooVera(r, ambiente),
         r.letto = invocate[k].letto, r.tool = invocate[k].tool,
         r.pc = "letta" <=> invocate[k].pc = "letta",
         r.pc = "aperta" <=> invocate[k].pc = "aperta",
         r.esito = "Stored" => invocate[k].esito = "Stored"
  PROVE  TooInv'
<1>1. invocate \in Seq(TooChiamate) /\ MaxVoci \in Nat
  BY DEF TooInv, TooTipo, Too!ToolServerAssumption
<1>2. invocate' \in Seq(TooChiamate) /\ TooUna(invocate, invocate', k, r)
  BY <1>1, TooCambia
<1>3. TooTipo'
  BY <1>2 DEF TooInv, TooTipo
<1>4. \A w \in DOMAIN invocate' : TooVera(invocate'[w], ambiente')
  <2>1. \A w \in DOMAIN invocate : TooVera(invocate[w], ambiente)
    BY DEF TooInv
  <2> QED BY <1>2, <2>1 DEF TooUna
<1>5. TooMemoria(invocate', memoria', sovrapposte')
  <2>1. \A w \in DOMAIN invocate :
          /\ invocate'[w].letto = invocate[w].letto /\ invocate'[w].tool = invocate[w].tool
          /\ invocate'[w].pc = "letta" <=> invocate[w].pc = "letta"
          /\ invocate'[w].pc = "aperta" <=> invocate[w].pc = "aperta"
          /\ invocate'[w].esito = "Stored" => invocate[w].esito = "Stored"
    <3> TAKE w \in DOMAIN invocate
    <3>1. CASE w = k
      BY <1>2, <3>1 DEF TooUna
    <3>2. CASE w # k
      BY <1>2, <3>2 DEF TooUna
    <3> QED BY <3>1, <3>2
  <2>2. DOMAIN invocate' = DOMAIN invocate
    BY <1>2 DEF TooUna
  <2>3. TooMemoria(invocate, memoria, sovrapposte)
    BY DEF TooInv
  <2>4. TooMemoria(invocate', memoria, sovrapposte)
    BY <1>1, <1>2, <2>1, <2>2, <2>3, TooMemoriaQuieta
  <2> QED BY <2>4
<1> QED BY <1>3, <1>4, <1>5 DEF TooInv

\* What a call is, as far as the invariant tells.
LEMMA TooTolta ==
  ASSUME TooInv, NEW k \in DOMAIN invocate
  PROVE  invocate[k] \in TooChiamate /\ TooVera(invocate[k], ambiente) /\ k \in Nat
         /\ k \in 1..Len(invocate)
BY DEF TooInv, TooTipo

\* A call that ends.
TooEsiti == {"ignoto", "niente", "trovato", "Stored", "bloccato", "chiede", "fatto", "rifiutato",
             "non raggiungibile"}

LEMMA TooFinita ==
  ASSUME NEW c \in TooChiamate, NEW e \in TooEsiti, NEW y \in {"si", "no"}
  PROVE  [c EXCEPT !.pc = "fine", !.esito = e, !.riga = y] \in TooChiamate
<1> DEFINE C == Too!Comandi \union {"-"}
           N == Too!Nomi
           S == SUBSET N
           L == SUBSET Nat
           P == {"esegue", "letta", "aperta", "host", "fine", "persa"}
           H == {"no", "chiesto", "fatto", "rifiutato"}
           E == {"-", "ignoto", "niente", "trovato", "Stored", "bloccato", "chiede", "fatto",
                 "rifiutato", "non raggiungibile"}
           T == [via : {"mcp", "diretta"}, spetta : S, tool : N, comando : C,
                 conferma : {"si", "no"}, pc : P, letto : L, host : H, riga : {"si", "no"},
                 esito : E]
<1>1. "fine" \in P /\ e \in E
  BY DEF TooEsiti
<1>2. TooChiamate = T
  BY DEF TooChiamate
<1> HIDE DEF C, N, S, L, P, H, E
<1> QED BY <1>1, <1>2

LEMMA TooIgnota ==
  ASSUME Too!ToolServerAssumption, TooInv, NEW k \in DOMAIN invocate, Too!Ignota(k)
  PROVE  TooInv'
<1> DEFINE r == [invocate[k] EXCEPT !.pc = "fine", !.esito = "ignoto", !.riga = "no"]
<1>1. invocate[k] \in TooChiamate /\ TooVera(invocate[k], ambiente)
  BY TooTolta
<1>2. invocate' = [invocate EXCEPT ![k] = r] /\ UNCHANGED <<ambiente, memoria, sovrapposte>>
      /\ invocate[k].pc = "esegue"
  BY DEF Too!Ignota, Too!Chiude
<1>3. r \in TooChiamate
  BY <1>1, TooFinita DEF TooEsiti
<1>4. /\ r.pc = "fine" /\ r.esito = "ignoto" /\ r.host = invocate[k].host
      /\ r.tool = invocate[k].tool /\ r.spetta = invocate[k].spetta /\ r.letto = invocate[k].letto
  BY <1>1 DEF TooChiamate
<1>5. TooVera(r, ambiente)
  <2> HIDE DEF r
  <2> QED BY <1>1, <1>2, <1>4 DEF TooVera
<1> HIDE DEF r
<1> QED BY <1>2, <1>3, <1>4, <1>5, TooQuieta

LEMMA TooCerca ==
  ASSUME Too!ToolServerAssumption, TooInv, NEW k \in DOMAIN invocate, Too!Cerca(k)
  PROVE  TooInv'
<1>1. invocate[k] \in TooChiamate /\ TooVera(invocate[k], ambiente)
  BY TooTolta
<1>2. PICK e \in {"niente", "trovato"} :
        invocate' = [invocate EXCEPT ![k] =
          [invocate[k] EXCEPT !.pc = "fine", !.esito = e, !.riga = "no"]]
  BY DEF Too!Cerca, Too!Chiude
<1> DEFINE r == [invocate[k] EXCEPT !.pc = "fine", !.esito = e, !.riga = "no"]
<1>3. UNCHANGED <<ambiente, memoria, sovrapposte>> /\ invocate[k].pc = "esegue"
  BY DEF Too!Cerca
<1>4. r \in TooChiamate
  BY <1>1, TooFinita DEF TooEsiti
<1>5. /\ r.pc = "fine" /\ r.esito = e /\ r.host = invocate[k].host
      /\ r.tool = invocate[k].tool /\ r.spetta = invocate[k].spetta /\ r.letto = invocate[k].letto
  BY <1>1 DEF TooChiamate
<1>6. invocate' = [invocate EXCEPT ![k] = r]
  BY <1>2
<1>7. TooVera(r, ambiente)
  <2> HIDE DEF r
  <2> QED BY <1>1, <1>3, <1>5 DEF TooVera
<1> HIDE DEF r
<1> QED BY <1>3, <1>4, <1>5, <1>6, <1>7, TooQuieta

LEMMA TooChiede ==
  ASSUME Too!ToolServerAssumption, TooInv, NEW k \in DOMAIN invocate, Too!Chiede(k)
  PROVE  TooInv'
<1>1. invocate[k] \in TooChiamate /\ TooVera(invocate[k], ambiente)
  BY TooTolta
<1>2. UNCHANGED <<ambiente, memoria, sovrapposte>> /\ invocate[k].pc = "esegue"
  BY DEF Too!Chiede
<1>3. CASE invocate' = [invocate EXCEPT ![k] = [invocate[k] EXCEPT !.pc = "host", !.host = "chiesto"]]
  <2> DEFINE r == [invocate[k] EXCEPT !.pc = "host", !.host = "chiesto"]
  <2>1. r \in TooChiamate
    BY <1>1 DEF TooChiamate
  <2>2. /\ r.pc = "host" /\ r.esito = invocate[k].esito /\ r.host = "chiesto"
        /\ r.tool = invocate[k].tool /\ r.spetta = invocate[k].spetta /\ r.letto = invocate[k].letto
    BY <1>1 DEF TooChiamate
  <2>3. invocate' = [invocate EXCEPT ![k] = r]
    BY <1>3
  <2> HIDE DEF r
  <2>4. TooVera(r, ambiente)
    BY <1>1, <1>2, <2>2 DEF TooVera
  <2> QED BY <1>2, <2>1, <2>2, <2>3, <2>4, TooQuieta
<1>4. CASE \E e \in {"bloccato", "chiede"} : invocate' = [invocate EXCEPT ![k] =
             [invocate[k] EXCEPT !.pc = "fine", !.esito = e, !.riga = "si"]]
  <2>1. PICK e \in {"bloccato", "chiede"} : invocate' = [invocate EXCEPT ![k] =
             [invocate[k] EXCEPT !.pc = "fine", !.esito = e, !.riga = "si"]]
    BY <1>4
  <2> DEFINE r == [invocate[k] EXCEPT !.pc = "fine", !.esito = e, !.riga = "si"]
  <2>2. r \in TooChiamate
    BY <1>1, TooFinita DEF TooEsiti
  <2>3. /\ r.pc = "fine" /\ r.esito = e /\ r.host = invocate[k].host /\ r.riga = "si"
        /\ r.tool = invocate[k].tool /\ r.spetta = invocate[k].spetta /\ r.letto = invocate[k].letto
    BY <1>1 DEF TooChiamate
  <2>4. invocate' = [invocate EXCEPT ![k] = r]
    BY <2>1
  <2> HIDE DEF r
  <2>5. TooVera(r, ambiente)
    BY <1>1, <1>2, <2>3 DEF TooVera
  <2> QED BY <1>2, <2>2, <2>3, <2>4, <2>5, TooQuieta
<1>5. Too!Verdetto(ambiente.soglie, invocate[k].comando, invocate[k].conferma)
        \in {"bloccato", "chiede", "passa"}
  BY DEF Too!Verdetto
<1> QED BY <1>3, <1>4, <1>5 DEF Too!Chiede, Too!Chiude

LEMMA TooEsegue ==
  ASSUME Too!ToolServerAssumption, TooInv, NEW k \in DOMAIN invocate, Too!Esegue(k)
  PROVE  TooInv'
<1>1. invocate[k] \in TooChiamate /\ TooVera(invocate[k], ambiente)
  BY TooTolta
<1>2. UNCHANGED <<ambiente, memoria, sovrapposte>> /\ invocate[k].host = "chiesto"
  BY DEF Too!Esegue
<1> DEFINE V == Too!Verdetto(ambiente.ospite, invocate[k].comando, invocate[k].conferma) = "passa"
           h == IF V THEN "fatto" ELSE "rifiutato"
           r == [invocate[k] EXCEPT !.host = h]
<1>3. invocate' = [invocate EXCEPT ![k] = r]
  BY <1>1 DEF Too!Esegue, TooChiamate
<1> HIDE DEF V
<1>4. r \in TooChiamate
  BY <1>1 DEF TooChiamate
<1>5. /\ r.pc = invocate[k].pc /\ r.esito = invocate[k].esito /\ r.host = h
      /\ r.riga = invocate[k].riga /\ r.comando = invocate[k].comando
      /\ r.conferma = invocate[k].conferma
      /\ r.tool = invocate[k].tool /\ r.spetta = invocate[k].spetta /\ r.letto = invocate[k].letto
  BY <1>1 DEF TooChiamate
<1>6. TooVera(r, ambiente)
  <2> HIDE DEF r
  <2>1. r.host = "fatto" => V
    BY <1>5
  <2>2. r.host = "fatto" => Too!Verdetto(ambiente.ospite, r.comando, r.conferma) = "passa"
    BY <1>5, <2>1 DEF V
  <2> QED BY <1>1, <1>2, <1>5, <2>2 DEF TooVera
<1> HIDE DEF r
<1> QED BY <1>2, <1>3, <1>4, <1>5, <1>6, TooQuieta

\* A call that asked the host ends: with its answer, written down, or without.
LEMMA TooFinisce ==
  ASSUME Too!ToolServerAssumption, TooInv, NEW k \in DOMAIN invocate,
         Too!Risponde(k) \/ Too!NonRisponde(k)
  PROVE  TooInv'
<1>1. invocate[k] \in TooChiamate /\ TooVera(invocate[k], ambiente)
  BY TooTolta
<1>2. UNCHANGED <<ambiente, memoria, sovrapposte>> /\ invocate[k].pc = "host"
  BY DEF Too!Risponde, Too!NonRisponde
<1>3. PICK e \in {"fatto", "rifiutato", "non raggiungibile"}, y \in {"si", "no"} :
        /\ invocate' = [invocate EXCEPT ![k] =
             [invocate[k] EXCEPT !.pc = "fine", !.esito = e, !.riga = y]]
        /\ y = "si" \/ e = "non raggiungibile"
  BY DEF Too!Risponde, Too!NonRisponde, Too!Chiude
<1> DEFINE r == [invocate[k] EXCEPT !.pc = "fine", !.esito = e, !.riga = y]
<1>4. r \in TooChiamate
  BY <1>1, TooFinita DEF TooEsiti
<1>5. /\ r.pc = "fine" /\ r.esito = e /\ r.host = invocate[k].host /\ r.riga = y
      /\ r.comando = invocate[k].comando /\ r.conferma = invocate[k].conferma
      /\ r.tool = invocate[k].tool /\ r.spetta = invocate[k].spetta /\ r.letto = invocate[k].letto
  BY <1>1 DEF TooChiamate
<1>6. invocate' = [invocate EXCEPT ![k] = r]
  BY <1>3
<1> HIDE DEF r
<1>7. TooVera(r, ambiente)
  BY <1>1, <1>3, <1>5 DEF TooVera
<1> QED BY <1>2, <1>4, <1>5, <1>6, <1>7, TooQuieta

\* A call arrives, for a tool that is its caller's.
LEMMA TooArriva ==
  ASSUME Too!ToolServerAssumption, TooInv, NEW porta \in {"mcp", "diretta"},
         NEW spetta \in SUBSET Too!Nomi, NEW tool \in spetta,
         NEW comando \in Too!Comando(tool), NEW conferma \in Too!Conferma(tool),
         Too!Entra(porta, spetta, tool, comando, conferma)
  PROVE  TooInv'
<1> DEFINE r == [via |-> porta, spetta |-> spetta, tool |-> tool, comando |-> comando,
                 conferma |-> conferma, pc |-> "esegue", letto |-> {}, host |-> "no",
                 riga |-> "no", esito |-> "-"]
<1>1. invocate' = Append(invocate, r) /\ UNCHANGED <<ambiente, memoria, sovrapposte>>
  BY DEF Too!Entra
<1>2. comando \in Too!Comandi \union {"-"} /\ conferma \in {"si", "no"}
  BY DEF Too!Comando, Too!Conferma
<1>3. r \in TooChiamate
  BY <1>2 DEF TooChiamate
<1>4. /\ r.tool = tool /\ r.spetta = spetta /\ r.pc = "esegue" /\ r.letto = {}
      /\ r.host = "no" /\ r.esito = "-"
  OBVIOUS
<1> HIDE DEF r
<1>5. TooVera(r, ambiente)
  BY <1>4 DEF TooVera
<1>6. invocate \in Seq(TooChiamate) /\ MaxVoci \in Nat
  BY DEF TooInv, TooTipo, Too!ToolServerAssumption
<1>7. /\ invocate' \in Seq(TooChiamate)
      /\ DOMAIN invocate' = DOMAIN invocate \union {Len(invocate) + 1}
      /\ Len(invocate) + 1 \notin DOMAIN invocate
      /\ invocate'[Len(invocate) + 1] = r
      /\ \A w \in DOMAIN invocate : invocate'[w] = invocate[w]
  BY <1>1, <1>3, <1>6
<1>8. TooTipo'
  BY <1>1, <1>7 DEF TooInv, TooTipo
<1>9. \A w \in DOMAIN invocate' : TooVera(invocate'[w], ambiente')
  <2>1. \A w \in DOMAIN invocate : TooVera(invocate[w], ambiente)
    BY DEF TooInv
  <2> QED BY <1>1, <1>5, <1>7, <2>1
<1>10. TooMemoria(invocate', memoria', sovrapposte')
  <2>1. TooMemoria(invocate, memoria, sovrapposte)
    BY DEF TooInv
  <2>2. DOMAIN invocate \subseteq DOMAIN invocate'
    BY <1>7
  <2>3. \A w \in DOMAIN invocate' : w \notin DOMAIN invocate =>
          invocate'[w].letto = {} /\ invocate'[w].pc = "esegue" /\ invocate'[w].esito # "Stored"
    BY <1>4, <1>7
  <2>4. \A w \in DOMAIN invocate :
          /\ invocate'[w].letto = invocate[w].letto /\ invocate'[w].tool = invocate[w].tool
          /\ invocate'[w].pc = "letta" <=> invocate[w].pc = "letta"
          /\ invocate'[w].pc = "aperta" <=> invocate[w].pc = "aperta"
          /\ invocate'[w].esito = "Stored" => invocate[w].esito = "Stored"
    BY <1>7
  <2>5. TooMemoria(invocate', memoria, sovrapposte)
    BY <1>6, <1>7, <2>1, <2>2, <2>3, <2>4, TooMemoriaQuieta
  <2> QED BY <1>1, <2>5
<1> QED BY <1>8, <1>9, <1>10 DEF TooInv

LEMMA TooChiama ==
  ASSUME Too!ToolServerAssumption, TooInv, Too!ChiamaMcp \/ Too!ChiamaDiretta
  PROVE  TooInv'
<1>1. CASE Too!ChiamaMcp
  <2> DEFINE Nome(esterno, interno) == IF esterno = "omega_call" THEN interno ELSE esterno
             Vero(chi, token, esterno, interno) ==
               /\ esterno # "omega_call" => interno = esterno
               /\ Too!Giudizio(chi, esterno, interno) = "esegue"
               /\ \E comando \in Too!Comando(Nome(esterno, interno)),
                     conferma \in Too!Conferma(Nome(esterno, interno)) :
                    Too!Entra("mcp", Too!Spettanti(ambiente, token, chi.nome),
                              Nome(esterno, interno), comando, conferma)
  <2>8. \E token \in Too!Token, vicino \in BOOLEAN :
          /\ Too!Ingresso(ambiente, token, vicino).stato = "entra"
          /\ \E esterno, interno \in Too!Nomi :
               Vero(Too!Ingresso(ambiente, token, vicino).chi, token, esterno, interno)
    BY <1>1 DEF Too!ChiamaMcp
  <2> HIDE DEF Vero
  <2>9. PICK token \in Too!Token, vicino \in BOOLEAN :
          /\ Too!Ingresso(ambiente, token, vicino).stato = "entra"
          /\ \E esterno, interno \in Too!Nomi :
               Vero(Too!Ingresso(ambiente, token, vicino).chi, token, esterno, interno)
    BY <2>8
  <2> DEFINE chi == Too!Ingresso(ambiente, token, vicino).chi
             s == Too!Spettanti(ambiente, token, chi.nome)
  <2>10. PICK esterno \in Too!Nomi, interno \in Too!Nomi : Vero(chi, token, esterno, interno)
    BY <2>9
  <2> DEFINE n == Nome(esterno, interno)
  <2>1. /\ Too!Giudizio(chi, esterno, interno) = "esegue"
        /\ \E comando \in Too!Comando(n), conferma \in Too!Conferma(n) :
             Too!Entra("mcp", s, n, comando, conferma)
    BY <2>10 DEF Vero
  <2>2. n \in Too!Nomi
    OBVIOUS
  <2>3. n \in chi.tool
    BY <2>1 DEF Too!Giudizio
  <2>4. PICK comando \in Too!Comando(n), conferma \in Too!Conferma(n) :
          Too!Entra("mcp", s, n, comando, conferma)
    BY <2>1
  <2>5. ambiente \in Configurazione
    BY DEF TooInv, TooTipo
  <2> HIDE DEF n
  <2>6. n \in s
    BY <2>9, <2>2, <2>3, <2>5, TooEntraDovuto
  <2>7. s \in SUBSET Too!Nomi
    BY DEF Too!Spettanti
  <2> HIDE DEF s
  <2> QED BY <2>4, <2>6, <2>7, TooArriva
<1>2. CASE Too!ChiamaDiretta
  <2>1. PICK nome \in Too!Nomi \ {"omega_call"} :
          \E comando \in Too!Comando(nome), conferma \in Too!Conferma(nome) :
            Too!Entra("diretta", Too!Nomi, nome, comando, conferma)
    BY <1>2 DEF Too!ChiamaDiretta
  <2>2. PICK comando \in Too!Comando(nome), conferma \in Too!Conferma(nome) :
          Too!Entra("diretta", Too!Nomi, nome, comando, conferma)
    BY <2>1
  <2>3. Too!Nomi \in SUBSET Too!Nomi /\ nome \in Too!Nomi
    OBVIOUS
  <2> QED BY <2>2, <2>3, TooArriva
<1> QED BY <1>1, <1>2

LEMMA TooLegge ==
  ASSUME Too!ToolServerAssumption, TooInv, NEW k \in DOMAIN invocate, Too!LeggeMemoria(k)
  PROVE  TooInv'
<1> DEFINE L == IF memoria.file = "intero" THEN memoria.note ELSE {}
           r == [invocate[k] EXCEPT !.pc = "letta", !.letto = L]
<1>1. invocate[k] \in TooChiamate /\ TooVera(invocate[k], ambiente)
  BY TooTolta
<1>2. /\ UNCHANGED <<ambiente, memoria, sovrapposte>> /\ invocate[k].pc = "esegue"
      /\ invocate[k].tool = "nota" /\ invocate' = [invocate EXCEPT ![k] = r]
  BY DEF Too!LeggeMemoria, Too!Lette
<1>3. L \in SUBSET Nat
  BY DEF TooInv, TooTipo
<1> HIDE DEF L
<1>4. r \in TooChiamate
  BY <1>1, <1>3 DEF TooChiamate
<1>5. /\ r.pc = "letta" /\ r.letto = L /\ r.esito = invocate[k].esito /\ r.host = invocate[k].host
      /\ r.tool = invocate[k].tool /\ r.spetta = invocate[k].spetta
      /\ r.riga = invocate[k].riga
  BY <1>1 DEF TooChiamate
<1> HIDE DEF r
<1>6. TooVera(r, ambiente) /\ r.esito # "Stored"
  BY <1>1, <1>2, <1>5 DEF TooVera
<1>7. invocate \in Seq(TooChiamate) /\ MaxVoci \in Nat
  BY DEF TooInv, TooTipo, Too!ToolServerAssumption
<1>8. invocate' \in Seq(TooChiamate) /\ TooUna(invocate, invocate', k, r)
  BY <1>2, <1>4, <1>7, TooCambia
<1>9. TooTipo'
  BY <1>2, <1>8 DEF TooInv, TooTipo
<1>10. \A w \in DOMAIN invocate' : TooVera(invocate'[w], ambiente')
  BY <1>2, <1>6, <1>8 DEF TooUna, TooInv
<1>11. TooMemoria(invocate', memoria, sovrapposte)
  <2>1. TooMemoria(invocate, memoria, sovrapposte)
    BY DEF TooInv
  <2>2. /\ DOMAIN invocate' = DOMAIN invocate /\ invocate'[k] = r
        /\ \A w \in DOMAIN invocate : w # k => invocate'[w] = invocate[w]
    BY <1>8 DEF TooUna
  <2>3. invocate'[k].letto = IF memoria.file = "intero" THEN memoria.note ELSE {}
    BY <1>5, <2>2 DEF L
  <2> QED BY <1>2, <1>5, <1>6, <1>7, <1>8, <2>1, <2>2, <2>3, TooMemoriaLetta
<1> QED BY <1>2, <1>9, <1>10, <1>11 DEF TooInv

\* Whoever else writes is counted.
LEMMA TooAltri ==
  ASSUME NEW S, NEW f \in Seq(S), NEW k \in TooScrive(f), NEW v \in TooScrive(f), v # k
  PROVE  Cardinality(TooScrive(f)) > 1
<1>1. IsFiniteSet(TooScrive(f)) /\ Cardinality(TooScrive(f)) \in Nat
  BY TooConta
<1>2. IsFiniteSet({k}) /\ Cardinality({k}) = 1
  BY FS_Singleton
<1> DEFINE P == {k} \union {v}
<1>3. Cardinality(P) = 1 + 1
  <2>1. v \notin {k}
    OBVIOUS
  <2> QED BY <1>2, <2>1, FS_AddElement
<1>4. P \subseteq TooScrive(f)
  OBVIOUS
<1> HIDE DEF P
<1>5. Cardinality(P) <= Cardinality(TooScrive(f))
  BY <1>1, <1>4, FS_Subset
<1> QED BY <1>1, <1>3, <1>5

\* Two writes across are both among the overlapping ones.
LEMMA TooSovrapposte ==
  ASSUME TooInv, NEW k \in TooScrive(invocate),
         sovrapposte' = sovrapposte \union
           (IF Too!Cardinality(Too!InScrittura) > 1 THEN 1..Len(invocate) ELSE {})
  PROVE  /\ sovrapposte \subseteq sovrapposte'
         /\ (\E v \in TooScrive(invocate) : v # k) => DOMAIN invocate \subseteq sovrapposte'
<1>1. Too!InScrittura = TooScrive(invocate)
  BY DEF Too!InScrittura, TooScrive
<1>2. Too!Cardinality(Too!InScrittura) = Cardinality(TooScrive(invocate))
  BY <1>1 DEF Too!Cardinality, Cardinality
<1>3. invocate \in Seq(TooChiamate) /\ DOMAIN invocate = 1..Len(invocate)
  BY DEF TooInv, TooTipo
<1>4. (\E v \in TooScrive(invocate) : v # k) => Cardinality(TooScrive(invocate)) > 1
  BY <1>3, TooAltri
<1> QED BY <1>2, <1>3, <1>4

LEMMA TooApre ==
  ASSUME Too!ToolServerAssumption, TooInv, NEW k \in DOMAIN invocate, Too!ApreMemoria(k)
  PROVE  TooInv'
<1> DEFINE r == [invocate[k] EXCEPT !.pc = "aperta"]
<1>1. invocate[k] \in TooChiamate /\ TooVera(invocate[k], ambiente)
  BY TooTolta
<1>2. invocate[k].pc = "letta" /\ invocate' = [invocate EXCEPT ![k] = r] /\ UNCHANGED ambiente
  BY DEF Too!ApreMemoria, Too!Passa
<1>3. r \in TooChiamate
  BY <1>1 DEF TooChiamate
<1>4. /\ r.pc = "aperta" /\ r.letto = invocate[k].letto /\ r.esito = invocate[k].esito
      /\ r.host = invocate[k].host /\ r.tool = invocate[k].tool /\ r.spetta = invocate[k].spetta
      /\ r.riga = invocate[k].riga
  BY <1>1 DEF TooChiamate
<1> HIDE DEF r
<1>5. TooVera(r, ambiente) /\ r.esito # "Stored"
  BY <1>1, <1>2, <1>4 DEF TooVera
<1>6. memoria'.note = {} /\ memoria'.file = "rotto"
      /\ memoria' \in [note : SUBSET Nat, file : {"intero", "rotto"}]
  BY DEF Too!ApreMemoria
<1>7. invocate \in Seq(TooChiamate) /\ MaxVoci \in Nat
  BY DEF TooInv, TooTipo, Too!ToolServerAssumption
<1>8. invocate' \in Seq(TooChiamate) /\ TooUna(invocate, invocate', k, r)
  BY <1>2, <1>3, <1>7, TooCambia
<1>9. TooTipo'
  BY <1>2, <1>6, <1>8 DEF TooInv, TooTipo
<1>10. \A w \in DOMAIN invocate' : TooVera(invocate'[w], ambiente')
  BY <1>2, <1>5, <1>8 DEF TooUna, TooInv
<1>11. TooMemoria(invocate', memoria', sovrapposte')
  <2>1. TooMemoria(invocate, memoria, sovrapposte)
    BY DEF TooInv
  <2>2. /\ DOMAIN invocate' = DOMAIN invocate /\ invocate'[k] = r
        /\ \A w \in DOMAIN invocate : w # k => invocate'[w] = invocate[w]
    BY <1>8 DEF TooUna
  <2>3. k \in TooScrive(invocate)
    BY <1>2 DEF TooScrive
  <2>4. /\ sovrapposte \subseteq sovrapposte'
        /\ (\E v \in TooScrive(invocate) : v # k) => DOMAIN invocate \subseteq sovrapposte'
    BY <2>3, TooSovrapposte DEF Too!ApreMemoria
  <2>5. /\ invocate[k].pc = "letta" /\ invocate'[k].pc = "aperta"
        /\ invocate'[k].tool = invocate[k].tool /\ invocate'[k].letto = invocate[k].letto
        /\ invocate'[k].esito # "Stored"
    BY <1>2, <1>4, <1>5, <2>2
  <2>6. DOMAIN invocate' = DOMAIN invocate
        /\ \A w \in DOMAIN invocate : w # k => invocate'[w] = invocate[w]
    BY <2>2
  <2>7. TooAperta(invocate, invocate', memoria', sovrapposte, sovrapposte', k)
    BY <1>6, <2>4, <2>5, <2>6 DEF TooAperta
  <2> QED BY <1>7, <1>8, <2>1, <2>7, TooMemoriaAperta
<1> QED BY <1>9, <1>10, <1>11 DEF TooInv

LEMMA TooScriveFile ==
  ASSUME Too!ToolServerAssumption, TooInv, NEW k \in DOMAIN invocate, Too!ScriveMemoria(k)
  PROVE  TooInv'
<1> DEFINE r == [invocate[k] EXCEPT !.pc = "fine", !.esito = "Stored", !.riga = "si"]
           L == invocate[k].letto \union {k}
           nuove == Too!Potate(L)
<1>1. invocate[k] \in TooChiamate /\ TooVera(invocate[k], ambiente) /\ k \in Nat
  BY TooTolta
<1>2. invocate[k].pc = "aperta" /\ invocate' = [invocate EXCEPT ![k] = r] /\ UNCHANGED ambiente
  BY DEF Too!ScriveMemoria, Too!Chiude
<1>3. r \in TooChiamate
  BY <1>1, TooFinita DEF TooEsiti
<1>4. /\ r.pc = "fine" /\ r.letto = invocate[k].letto /\ r.esito = "Stored"
      /\ r.host = invocate[k].host /\ r.tool = invocate[k].tool /\ r.spetta = invocate[k].spetta
      /\ r.riga = "si"
  BY <1>1 DEF TooChiamate
<1> HIDE DEF r
<1>5. TooVera(r, ambiente) /\ invocate[k].tool = "nota"
  BY <1>1, <1>2, <1>4 DEF TooVera
<1>6. /\ memoria'.note = nuove /\ memoria'.file \in {"intero", "rotto"}
      /\ memoria = memoria /\ (memoria.file = "rotto" => memoria'.file = "intero")
      /\ memoria' = [note |-> nuove, file |-> memoria'.file]
  BY DEF Too!ScriveMemoria
<1>7. invocate \in Seq(TooChiamate) /\ MaxVoci \in Nat
  BY DEF TooInv, TooTipo, Too!ToolServerAssumption
<1>8. invocate' \in Seq(TooChiamate) /\ TooUna(invocate, invocate', k, r)
  BY <1>2, <1>3, <1>7, TooCambia
<1>9. TooMemoria(invocate, memoria, sovrapposte)
  BY DEF TooInv
<1>10. IsFiniteSet(L) /\ L \subseteq Nat
  <2>1. invocate[k].letto \subseteq DOMAIN invocate
    BY <1>9 DEF TooMemoria, TooNote
  <2>2. IsFiniteSet(DOMAIN invocate)
    BY <1>7, TooConta
  <2>3. L \subseteq DOMAIN invocate
    BY <2>1
  <2> HIDE DEF L
  <2> QED BY <1>7, <2>2, <2>3, FS_Subset
<1>11. nuove = {n \in L : Cardinality({m \in L : m > n}) < MaxVoci}
  BY DEF Too!Potate, Too!Cardinality, Cardinality
<1> HIDE DEF L, nuove
<1>12. nuove \subseteq L
  BY <1>11
<1>13. TooTipo'
  <2>1. nuove \in SUBSET Nat
    BY <1>10, <1>12
  <2>2. memoria' \in [note : SUBSET Nat, file : {"intero", "rotto"}]
    BY <1>6, <2>1
  <2> QED BY <1>2, <1>8, <2>2 DEF TooInv, TooTipo
<1>14. \A w \in DOMAIN invocate' : TooVera(invocate'[w], ambiente')
  BY <1>2, <1>5, <1>8 DEF TooUna, TooInv
<1>15. ASSUME NEW x \in L
       PROVE  x \in nuove \/ Cardinality({y \in L : y > x}) >= MaxVoci
  <2> DEFINE Y == {y \in L : y > x}
  <2>1. Y \subseteq L
    OBVIOUS
  <2>2. Cardinality(Y) < MaxVoci => x \in nuove
    BY <1>11
  <2> HIDE DEF Y
  <2>3. Cardinality(Y) \in Nat
    BY <1>10, <2>1, FS_Subset, FS_CardinalityType
  <2>4. x \in nuove \/ Cardinality(Y) >= MaxVoci
    BY <1>7, <2>2, <2>3
  <2> QED BY <2>4 DEF Y
<1>16. TooMemoria(invocate', memoria', sovrapposte')
  <2>1. /\ DOMAIN invocate' = DOMAIN invocate /\ invocate'[k] = r
        /\ \A w \in DOMAIN invocate : w # k => invocate'[w] = invocate[w]
    BY <1>8 DEF TooUna
  <2>2. k \in TooScrive(invocate)
    BY <1>2 DEF TooScrive
  <2>3. /\ sovrapposte \subseteq sovrapposte'
        /\ (\E v \in TooScrive(invocate) : v # k) => DOMAIN invocate \subseteq sovrapposte'
    BY <2>2, TooSovrapposte DEF Too!ScriveMemoria
  <2>4. memoria'.note \subseteq invocate[k].letto \union {k}
    BY <1>6, <1>12 DEF L
  <2>5. \A x \in invocate[k].letto \union {k} :
          x \in memoria'.note \/ Cardinality({y \in invocate[k].letto \union {k} : y > x}) >= MaxVoci
    BY <1>6, <1>15 DEF L
  <2>6. /\ invocate[k].pc = "aperta" /\ invocate'[k].pc = "fine"
        /\ invocate'[k].tool = invocate[k].tool /\ invocate'[k].letto = invocate[k].letto
        /\ invocate[k].tool = "nota"
    BY <1>2, <1>4, <1>5, <2>1
  <2>7. DOMAIN invocate' = DOMAIN invocate
        /\ \A w \in DOMAIN invocate : w # k => invocate'[w] = invocate[w]
    BY <2>1
  <2>8. memoria.file = "rotto" => memoria'.file = "intero"
    BY <1>6
  <2>9. TooScritta(invocate, invocate', memoria, memoria', sovrapposte, sovrapposte', k)
    BY <2>3, <2>4, <2>5, <2>6, <2>7, <2>8 DEF TooScritta
  <2> QED BY <1>7, <1>8, <1>9, <2>9, TooMemoriaScritta
<1> QED BY <1>13, <1>14, <1>16 DEF TooInv

LEMMA TooCade ==
  ASSUME Too!ToolServerAssumption, TooInv, Too!Cade
  PROVE  TooInv'
<1> DEFINE R(w) == [invocate[w] EXCEPT !.pc = "persa"]
<1>1. invocate \in Seq(TooChiamate) /\ MaxVoci \in Nat
  BY DEF TooInv, TooTipo, Too!ToolServerAssumption
<1>2. \A w \in DOMAIN invocate :
        invocate[w] \in TooChiamate /\ TooVera(invocate[w], ambiente)
  BY TooTolta
<1>3. ASSUME NEW w \in DOMAIN invocate
      PROVE  R(w) \in TooChiamate
  <2>1. invocate[w] \in TooChiamate
    BY <1>2
  <2> QED BY <2>1 DEF TooChiamate
<1>4. /\ UNCHANGED <<ambiente, memoria>>
      /\ invocate' = [w \in DOMAIN invocate |-> IF invocate[w].pc = "fine" THEN invocate[w] ELSE R(w)]
  BY DEF Too!Cade
<1>5. ASSUME NEW w \in DOMAIN invocate
      PROVE  /\ R(w).pc = "persa" /\ R(w).letto = invocate[w].letto /\ R(w).tool = invocate[w].tool
             /\ R(w).esito = invocate[w].esito /\ R(w).spetta = invocate[w].spetta
             /\ R(w).host = invocate[w].host /\ R(w).comando = invocate[w].comando
             /\ R(w).conferma = invocate[w].conferma
  BY <1>2, <1>5 DEF TooChiamate
<1> HIDE DEF R
<1>6. /\ DOMAIN invocate' = DOMAIN invocate
      /\ \A w \in DOMAIN invocate :
           \/ invocate'[w] = invocate[w] /\ invocate[w].pc = "fine"
           \/ invocate'[w] = R(w) /\ invocate[w].pc # "fine"
  BY <1>4
<1>7. invocate' \in Seq(TooChiamate)
  <2>1. Len(invocate) \in Nat /\ DOMAIN invocate = 1..Len(invocate)
    BY <1>1
  <2>2. invocate' \in [1..Len(invocate) -> TooChiamate]
    BY <1>2, <1>3, <1>4, <2>1
  <2> QED BY <2>1, <2>2
<1>8. TooTipo'
  BY <1>4, <1>7 DEF TooInv, TooTipo
<1>9. \A w \in DOMAIN invocate' : TooVera(invocate'[w], ambiente')
  <2>1. ASSUME NEW w \in DOMAIN invocate
        PROVE  TooVera(invocate'[w], ambiente)
    <3>1. CASE invocate'[w] = invocate[w]
      BY <1>2, <3>1
    <3>2. CASE invocate'[w] = R(w) /\ invocate[w].pc # "fine"
      <4>1. TooVera(invocate[w], ambiente)
        BY <1>2
      <4>2. /\ R(w).pc = "persa" /\ R(w).esito = invocate[w].esito
            /\ R(w).tool = invocate[w].tool /\ R(w).spetta = invocate[w].spetta
            /\ R(w).host = invocate[w].host /\ R(w).comando = invocate[w].comando
            /\ R(w).conferma = invocate[w].conferma
        BY <1>5
      <4>3. TooVera(R(w), ambiente)
        BY <3>2, <4>1, <4>2 DEF TooVera
      <4> QED BY <3>2, <4>3
    <3> QED BY <1>6, <3>1, <3>2
  <2> QED BY <1>4, <1>6, <2>1
<1>10. TooMemoria(invocate', memoria', sovrapposte')
  <2>1. TooMemoria(invocate, memoria, sovrapposte)
    BY DEF TooInv
  <2>2. \A w \in DOMAIN invocate :
          /\ invocate'[w].letto = invocate[w].letto /\ invocate'[w].tool = invocate[w].tool
          /\ invocate'[w].esito = invocate[w].esito /\ invocate'[w].pc \in {"fine", "persa"}
    BY <1>5, <1>6
  <2>3. sovrapposte \subseteq sovrapposte'
        /\ ((\E v \in DOMAIN invocate : invocate[v].pc = "aperta") => DOMAIN invocate \subseteq sovrapposte')
    BY <1>1 DEF Too!Cade
  <2>4. TooMemoria(invocate', memoria, sovrapposte')
    BY <1>1, <1>6, <1>7, <2>1, <2>2, <2>3, TooMemoriaCade
  <2> QED BY <1>4, <2>4
<1> QED BY <1>8, <1>9, <1>10 DEF TooInv

LEMMA TooInvIniziale ==
  ASSUME Too!Init
  PROVE  TooInv
<1>1. /\ ambiente \in Configurazione /\ invocate = <<>> /\ sovrapposte = {}
      /\ memoria = [note |-> {}, file |-> "intero"]
  BY DEF Too!Init, Too!Bene
<1>2. invocate \in Seq(TooChiamate) /\ DOMAIN invocate = {}
  BY <1>1
<1>3. memoria \in [note : SUBSET Nat, file : {"intero", "rotto"}] /\ memoria.note = {}
  BY <1>1
<1>4. TooMemoria(invocate, memoria, sovrapposte)
  BY <1>2, <1>3 DEF TooMemoria, TooDovute, TooScrive
<1> QED BY <1>1, <1>2, <1>3, <1>4 DEF TooInv, TooTipo

LEMMA TooInvPasso ==
  Too!ToolServerAssumption /\ TooInv /\ [Too!Next]_Too!vars => TooInv'
<1> SUFFICES ASSUME Too!ToolServerAssumption, TooInv, [Too!Next]_Too!vars
             PROVE  TooInv'
  OBVIOUS
<1>1. CASE UNCHANGED Too!vars
  BY <1>1 DEF Too!vars, TooInv, TooTipo
<1>2. CASE Too!ChiamaMcp \/ Too!ChiamaDiretta
  BY <1>2, TooChiama
<1>3. CASE Too!Cade
  BY <1>3, TooCade
<1>4. CASE \E k \in DOMAIN invocate :
             \/ Too!Ignota(k) \/ Too!Cerca(k) \/ Too!LeggeMemoria(k) \/ Too!ApreMemoria(k)
             \/ Too!ScriveMemoria(k) \/ Too!Chiede(k) \/ Too!Esegue(k) \/ Too!Risponde(k)
             \/ Too!NonRisponde(k)
  BY <1>4, TooIgnota, TooCerca, TooLegge, TooApre, TooScriveFile, TooChiede, TooEsegue, TooFinisce
<1> QED BY <1>1, <1>2, <1>3, <1>4 DEF Too!Next

LEMMA TooDovuto ==
  ASSUME TooInv
  PROVE  Too!EffettoDovuto /\ Too!ComandoTracciato
<1>1. Too!EffettoDovuto
  BY DEF TooInv, TooVera, Too!EffettoDovuto
<1>2. ASSUME NEW k \in DOMAIN invocate, invocate[k].host = "fatto"
      PROVE  /\ Too!Verdetto(ambiente.ospite, invocate[k].comando, invocate[k].conferma) = "passa"
             /\ invocate[k].pc = "fine" =>
                  invocate[k].riga = "si" \/ invocate[k].esito = "non raggiungibile"
  BY <1>2, TooTolta DEF TooVera
<1> QED BY <1>1, <1>2 DEF Too!ComandoTracciato

LEMMA TooTenuta ==
  ASSUME TooInv
  PROVE  Too!NotaTenuta
<1>1. ASSUME NEW k \in DOMAIN invocate, invocate[k].esito = "Stored", Too!InScrittura = {},
             k \notin sovrapposte,
             ~(Too!Cardinality({n \in DOMAIN invocate : n > k /\ invocate[n].tool = "nota"})
                 >= MaxVoci)
      PROVE  k \in Too!Lette
  <2>1. {n \in DOMAIN invocate : n > k /\ invocate[n].tool = "nota"} = TooDopo(invocate, k)
    BY DEF TooDopo, TooNote
  <2>2. ~(Cardinality(TooDopo(invocate, k)) >= MaxVoci)
    BY <1>1, <2>1 DEF Too!Cardinality, Cardinality
  <2>3. k \in TooDovute(invocate, sovrapposte)
    BY <1>1, <2>2 DEF TooDovute
  <2>4. \A w \in DOMAIN invocate : invocate[w].pc # "aperta"
    BY <1>1 DEF Too!InScrittura
  <2>5. TooMemoria(invocate, memoria, sovrapposte)
    BY DEF TooInv
  <2>6. memoria.file = "intero" /\ k \in memoria.note
    BY <2>3, <2>4, <2>5 DEF TooMemoria
  <2> QED BY <2>6 DEF Too!Lette
<1> QED BY <1>1 DEF Too!NotaTenuta

LEMMA TooElenco == Too!ListaEsatta
<1>1. ASSUME NEW chi
      PROVE  Too!Elencati(chi) = {t \in Too!Nomi : \E e, i \in Too!Nomi :
               Too!Giudizio(chi, e, i) = "esegue" /\ t = IF e = "omega_call" THEN i ELSE e}
  <2>1. ASSUME NEW t \in chi.tool \intersect Too!Pubblicati
        PROVE  t \in Too!Nomi /\ \E e, i \in Too!Nomi :
                 Too!Giudizio(chi, e, i) = "esegue" /\ t = IF e = "omega_call" THEN i ELSE e
    <3>1. t \in Too!Nomi /\ t # "omega_call"
      BY DEF Too!Nomi, Too!Pubblicati
    <3>2. Too!Giudizio(chi, t, t) = "esegue"
      BY <3>1 DEF Too!Giudizio
    <3> QED BY <3>1, <3>2
  <2>2. ASSUME NEW e \in Too!Nomi, NEW i \in Too!Nomi, Too!Giudizio(chi, e, i) = "esegue"
        PROVE  (IF e = "omega_call" THEN i ELSE e) \in chi.tool \intersect Too!Pubblicati
    BY <2>2 DEF Too!Giudizio
  <2> QED BY <2>1, <2>2 DEF Too!Elencati
<1> QED BY <1>1 DEF Too!ListaEsatta

LEMMA TooSegreto == Too!StessaRisposta
<1>1. ASSUME NEW chi, NEW s \in Too!Nomi \ (chi.tool \union {"omega_call"})
      PROVE  Too!Giudizio(chi, s, s) = "vietato"
  BY DEF Too!Giudizio
<1> QED BY <1>1 DEF Too!StessaRisposta

LEMMA TooVoce == Too!VoceSpiegata
<1>1. ASSUME NEW i \in DOMAIN ambiente.voci, ~Too!Segnalata(ambiente, i)
      PROVE  \E k \in DOMAIN Too!Clienti(ambiente) :
               /\ Too!Clienti(ambiente)[k].nome = ambiente.voci[i].nome
               /\ Too!Clienti(ambiente)[k].tool # {}
  <2>1. i \in Too!Accettate(ambiente) /\ Too!Concessi(ambiente, ambiente.voci[i].nome, {}) # {}
    BY <1>1 DEF Too!Segnalata
  <2>2. /\ i \in DOMAIN Too!Clienti(ambiente)
        /\ Too!Clienti(ambiente)[i] =
             Too!Cliente(ambiente.voci[i].nome, ambiente.voci[i].token,
                         Too!Concessi(ambiente, ambiente.voci[i].nome, {}))
    BY <2>1 DEF Too!Clienti
  <2>3. /\ Too!Clienti(ambiente)[i].nome = ambiente.voci[i].nome
        /\ Too!Clienti(ambiente)[i].tool = Too!Concessi(ambiente, ambiente.voci[i].nome, {})
    BY <2>2 DEF Too!Cliente
  <2> QED BY <2>1, <2>2, <2>3
<1> QED BY <1>1 DEF Too!VoceSpiegata

LEMMA TooPertinenti == Too!SoloPertinenti
<1>1. ASSUME NEW searx \in SUBSET Too!Risultato, NEW ddg \in SUBSET Too!Risultato, NEW query,
             Too!Termini(query) # {}
      PROVE  /\ "altro" \notin Too!Trovati(searx, ddg, query)
             /\ Too!Trovati(searx, ddg, query) = {} => searx \union ddg \subseteq {"altro"}
  <2>1. Too!Filtra(searx, query, TRUE) = IF "titolo" \in searx THEN {"titolo"} ELSE searx \ {"altro"}
    BY <1>1 DEF Too!Filtra
  <2>2. Too!Filtra(ddg, query, FALSE) = ddg \ {"altro"}
    BY <1>1 DEF Too!Filtra
  <2> QED BY <2>1, <2>2 DEF Too!Trovati, Too!Risultato
<1> QED BY <1>1 DEF Too!SoloPertinenti

\* What the tools promise.
TooPromesse ==
  /\ Too!EffettoDovuto /\ Too!ListaEsatta /\ Too!StessaRisposta /\ Too!VoceSpiegata
  /\ Too!ComandoTracciato /\ Too!NotaTenuta /\ Too!SoloPertinenti

LEMMA TooProprieta == TooInv => TooPromesse
BY TooDovuto, TooTenuta, TooElenco, TooSegreto, TooVoce, TooPertinenti DEF TooPromesse

-----------------------------------------------------------------------------
(* The parts together: each one's invariant, while it is at work. *)

PartiInv ==
  /\ scena = "registro" => TipiRegistro /\ InvRegistro
  /\ scena = "alias" => InvNomi
  /\ scena = "punteggi" => FleInv
  /\ scena = "guardia" => GuaInv
  /\ scena = "fatti" => FatInv
  /\ scena = "browser" => BroInv
  /\ scena \in {"dm", "poll"} => DmIInv
  /\ scena = "chat" => InvEsito /\ InvFonti
  /\ scena = "turni" => TurInv
  /\ scena = "tool" => TooInv
  /\ scena = "forge" => ForgeInv(Artefatti, {})
  /\ scena = "ecc" => ForgeInv({}, Bundle)

\* What the Forge proofs ask of the constants.
LEMMA ForgeVereSono == ForgeVere
BY IpotesiForge DEF Forge!ForgeSkillsAssumption, ForgeVere

\* Who is not at work does not matter.
LEMMA PartiIniziali == InitParti => PartiInv
<1> SUFFICES ASSUME InitParti PROVE PartiInv
  OBVIOUS
<1>1. scena = "registro" => TipiRegistro /\ InvRegistro
  BY IpotesiMesh, RegistroInit DEF InitParti
<1>2. scena = "alias" => InvNomi
  BY IpotesiMesh, NomiInit DEF InitParti
<1>3. scena = "punteggi" => FleInv
  BY FleInvIniziale DEF InitParti
<1>4. scena = "guardia" => GuaInv
  BY IpotesiCanale, GuaInvIniziale DEF InitParti
<1>5. scena = "fatti" => FatInv
  BY IpotesiCanale, FatInvIniziale DEF InitParti
<1>6. scena = "browser" => BroInv
  BY IpotesiBrowser, BroInvIniziale DEF InitParti
<1>7. scena \in {"dm", "poll"} => DmIInv
  BY IpotesiDm, DmInvIniziale DEF InitParti
<1>8. scena = "forge" => ForgeInv(Artefatti, {})
  BY ForgeVereSono, ForgeInvIniziale DEF InitParti
<1>9. scena = "ecc" => ForgeInv({}, Bundle)
  BY ForgeVereSono, ForgeInvIniziale DEF InitParti
<1>10. scena = "chat" => InvEsito /\ InvFonti
  BY EsitoInit, FontiInit DEF InitParti
<1>11. scena = "turni" => TurInv
  BY IpotesiDm, TurInvIniziale DEF InitParti
<1>12. scena = "tool" => TooInv
  BY TooInvIniziale DEF InitParti
<1> QED BY <1>1, <1>2, <1>3, <1>4, <1>5, <1>6, <1>7, <1>8, <1>9, <1>10, <1>11, <1>12 DEF PartiInv

\* A step is one of the part at work, or of none.
LEMMA PassoDellaScena ==
  ASSUME [NextParti]_parti_vars
  PROVE  /\ scena' = scena
         /\ scena = "registro" => [Reg!Next]_Reg!vars
         /\ scena = "alias" => [Ali!Next]_Ali!vars
         /\ scena = "punteggi" => [Fle!Next]_Fle!vars
         /\ scena = "guardia" => [Gua!Next]_Gua!vars
         /\ scena = "fatti" => [Fat!Next]_Fat!vars
         /\ scena = "browser" => [Bro!Next]_Bro!vars
         /\ scena \in {"dm", "poll"} => [Dm!Next]_Dm!vars
         /\ scena = "chat" => [Cha!Next]_Cha!vars
         /\ scena = "turni" => [Tur!Next]_Tur!vars
         /\ scena = "tool" => [Too!Next]_Too!vars
         /\ scena = "forge" => [Forge(Artefatti, {})!Next]_(Forge(Artefatti, {})!vars)
         /\ scena = "ecc" => [Forge({}, Bundle)!Next]_(Forge({}, Bundle)!vars)
<1>1. CASE NextParti
  BY <1>1 DEF NextParti
<1>2. CASE UNCHANGED parti_vars
  BY <1>2 DEF parti_vars, reg_vars, ali_vars, fle_vars, web_vars, gua_vars, fat_vars, dm_vars,
              chat_vars, tur_vars, too_vars, for_vars, Reg!vars, Ali!vars, Fle!vars, Bro!vars,
              Gua!vars, Fat!vars, Dm!vars, Cha!vars, Tur!vars, Too!vars, Forge!vars
<1> QED BY <1>1, <1>2

LEMMA PartiPasso == PartiInv /\ [NextParti]_parti_vars => PartiInv'
<1> SUFFICES ASSUME PartiInv, [NextParti]_parti_vars PROVE PartiInv'
  OBVIOUS
<1>1. scena' = scena
  BY PassoDellaScena
<1>2. scena = "registro" => TipiRegistro' /\ InvRegistro'
  BY IpotesiMesh, PassoDellaScena, TipiNext, SondatoNext DEF PartiInv
<1>3. scena = "alias" => InvNomi'
  BY IpotesiMesh, PassoDellaScena, NomiNext DEF PartiInv
<1>4. scena = "punteggi" => FleInv'
  BY PassoDellaScena, FleInvPasso DEF PartiInv
<1>5. scena = "guardia" => GuaInv'
  BY IpotesiCanale, PassoDellaScena, GuaInvPasso DEF PartiInv
<1>6. scena = "fatti" => FatInv'
  BY IpotesiCanale, PassoDellaScena, FatInvPasso DEF PartiInv
<1>7. scena = "browser" => BroInv'
  BY IpotesiBrowser, PassoDellaScena, BroInvPasso DEF PartiInv
<1>8. scena \in {"dm", "poll"} => DmIInv'
  BY IpotesiDm, PassoDellaScena, DmInvPreservata DEF PartiInv
<1>9. scena = "forge" => ForgeInv(Artefatti, {})'
  BY ForgeVereSono, PassoDellaScena, ForgeInvPasso DEF PartiInv
<1>10. scena = "ecc" => ForgeInv({}, Bundle)'
  BY ForgeVereSono, PassoDellaScena, ForgeInvPasso DEF PartiInv
<1>11. scena = "chat" => InvEsito' /\ InvFonti'
  BY PassoDellaScena, EsitoNext, FontiNext DEF PartiInv
<1>12. scena = "turni" => TurInv'
  BY IpotesiDm, PassoDellaScena, TurInvPasso DEF PartiInv
<1>13. scena = "tool" => TooInv'
  BY IpotesiChat, PassoDellaScena, TooInvPasso DEF PartiInv
<1> QED BY <1>1, <1>2, <1>3, <1>4, <1>5, <1>6, <1>7, <1>8, <1>9, <1>10, <1>11, <1>12, <1>13
     DEF PartiInv

LEMMA PartiSempre == SpecParti => []PartiInv
BY PartiIniziali, PartiPasso, PTL DEF SpecParti

\* What the mesh believes of its nodes agrees, of any nodes, names and samples, and with any
\* threads of the server (cp/mesh.py, cp/battito.py, cp/metriche.py).
THEOREM MeshSempreCoerente == SpecParti => []MeshCoerente
<1>1. PartiInv => MeshCoerente
  BY DEF PartiInv, InvRegistro, InvNomi, FleInv, FleVisti, FleDaDire, Fle!CacheRiflette,
         MeshCoerente
<1> QED BY <1>1, PartiSempre, PTL

\* A channel punishes who relapses as often as its thresholds say and nobody else, with any
\* authors, ceilings and thresholds, and writes a wave of spam in one line
\* (shared/channel.py, cp/canali.py).
THEOREM CanaleSempreGiusto == SpecParti => []CanaleGiusto
<1>1. PartiInv => CanaleGiusto
  BY DEF PartiInv, GuaInv, GuaEsito, FatInv, CanaleGiusto
<1> QED BY <1>1, PartiSempre, PTL

\* A job of a browser node is served once, and can be cancelled exactly as long as the
\* registry keeps it (shared/web_node.py).
THEOREM BrowserSempreUnaVolta == SpecParti => []BrowserUnaVolta
<1>1. PartiInv => BrowserUnaVolta
  BY BroInvBasta DEF PartiInv, BrowserUnaVolta
<1> QED BY <1>1, PartiSempre, PTL

\* A chat is given only skills approved as they are, the copy in the IDE is the source of the
\* record, and a version has one source, with any artifacts, edits by hand and interrupted
\* writes (cp/forge.py).
THEOREM ForgeSempreFedele == SpecParti => []ForgeFedele
<1>1. PartiInv => ForgeFedele
  BY ForgeInvBasta DEF PartiInv, ForgeFedele
<1> QED BY <1>1, PartiSempre, PTL

\* What a chat answers is what it wrote down, a tool runs for who may call it and does what it
\* says, and a skill is the one approved, with any nodes, clients, calls and artifacts
\* (cp/chat.py, cp/tool.py, cp/forge.py).
THEOREM ChatSempreVera == SpecParti => []ChatVera
<1>1. PartiInv => (scena = "chat" => Cha!EsitoVero /\ Cha!UnaSolaFonte)
  BY DEF PartiInv, InvEsito, InvFonti, Cha!UnaSolaFonte
<1>2. PartiInv => (scena = "tool" => TooPromesse)
  BY TooProprieta DEF PartiInv
<1>3. PartiInv => ForgeFedele
  BY ForgeInvBasta DEF PartiInv, ForgeFedele
<1>4. PartiInv => ChatVera
  BY <1>1, <1>2, <1>3 DEF ChatVera, TooPromesse
<1> QED BY <1>4, PartiSempre, PTL

\* A direct message is counted and answered once while no restart interrupts a later one, and
\* its turn is remembered in order until the memory is cleared, with any messages, workers,
\* restarts and failed writes (cp/instagram.py, shared/instagram_memory.py).
THEOREM DmSempreUnaVolta == SpecParti => []DmUnaVolta
<1>1. PartiInv => (scena = "dm" => Dm!UnaRispostaSola /\ Dm!ContatoUnaVolta)
  BY IpotesiDm, DmInvBasta DEF PartiInv
<1>2. PartiInv =>
        (scena = "turni" => Tur!NullaDimenticato /\ Tur!TurniInOrdine /\ Tur!AzzerataResta)
  BY TurProprieta DEF PartiInv
<1>3. PartiInv => DmUnaVolta
  BY <1>1, <1>2, TurUnDisegno DEF DmUnaVolta
<1> QED BY <1>3, PartiSempre, PTL

\* No step of a thread that has not been overtaken gives up an https address for a plain one,
\* and none changes an alias in the table and not in memory (cp/mesh.py).
THEOREM PassiDellaMesh == SpecParti => PassiMesh
<1>1. PartiInv /\ [NextParti]_parti_vars =>
        [/\ scena = "registro" => Reg!PassoSicuro
         /\ scena = "alias" => Ali!PassoAllineato]_parti_vars
  <2> SUFFICES ASSUME PartiInv, NextParti, parti_vars' # parti_vars
               PROVE  /\ scena = "registro" => Reg!PassoSicuro
                      /\ scena = "alias" => Ali!PassoAllineato
    OBVIOUS
  <2>1. ASSUME scena = "registro" PROVE Reg!PassoSicuro
    <3>1. Reg!Next /\ Reg!vars' # Reg!vars
      BY <2>1 DEF NextParti, parti_vars, Reg!vars, reg_vars
    <3> QED BY <2>1, <3>1, IpotesiMesh, SicuroNext DEF PartiInv
  <2>2. ASSUME scena = "alias" PROVE Ali!PassoAllineato
    <3>1. Ali!Next /\ Ali!vars' # Ali!vars
      BY <2>2 DEF NextParti, parti_vars, Ali!vars, ali_vars
    <3> QED BY <2>2, <3>1, AllineatoNext DEF PartiInv
  <2> QED BY <2>1, <2>2
<1> QED BY <1>1, PartiSempre, PTL DEF SpecParti, PassiMesh

\* No step takes the slot of a browser node from a job it still serves
\* (shared/web_node.py), lets an answer leave on Instagram while a later message waits for its
\* own (cp/instagram.py), or takes an artifact back by an import (cp/forge.py).
THEOREM PassiSempreServiti == SpecParti => PassiServiti
<1>1. PartiInv /\ [NextParti]_parti_vars =>
        [/\ scena = "browser" => Bro!SlotTenuto
         /\ scena = "dm" => Dm!ParteAttuale
         /\ scena = "ecc" => Forge({}, Bundle)!PassoImporta]_parti_vars
  <2> SUFFICES ASSUME PartiInv, [NextParti]_parti_vars
               PROVE  /\ scena = "browser" => Bro!SlotTenuto
                      /\ scena = "dm" => Dm!ParteAttuale
                      /\ scena = "ecc" => Forge({}, Bundle)!PassoImporta
    OBVIOUS
  <2>1. scena = "browser" => Bro!SlotTenuto
    BY IpotesiBrowser, PassoDellaScena, BroSlot DEF PartiInv
  <2>2. scena = "dm" => Dm!ParteAttuale
    BY IpotesiDm, PassoDellaScena, DmParte DEF PartiInv
  <2>3. scena = "ecc" => Forge({}, Bundle)!PassoImporta
    BY ForgeVereSono, PassoDellaScena, ForgePassoAvanti DEF PartiInv
  <2> QED BY <2>1, <2>2, <2>3
<1> QED BY <1>1, PartiSempre, PTL DEF SpecParti, PassiServiti
=============================================================================
