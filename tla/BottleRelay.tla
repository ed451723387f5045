----------------------------- MODULE BottleRelay -----------------------------
(***************************************************************************)
(* Bottles, the signed and dated addresses of nodes: the public gateway    *)
(* that lets them in (federation-gateway/main.py), the relay that keeps    *)
(* them (control-plane/cp/bottles.py, shared/bottle.py) and the node that  *)
(* announces itself.                                                       *)
(*                                                                         *)
(* Each of the two counts the calls of an address in a window of its own   *)
(* and a request passes first one and then the other; the gateway says     *)
(* whose request it is forwarding, if the two share a secret.              *)
(***************************************************************************)
EXTENDS Naturals, Sequences, SequencesExt, FiniteSets, FiniteSetsExt

CONSTANTS
  Ip,            \* callers
  Chiave,        \* public keys of other nodes
  Mia,           \* the key of this node
  Rotta,         \* rate limited routes of the gateway, "publish" and others
  Finestra,      \* [Rotta -> its window]
  Massimo,       \* [Rotta -> the calls an address may make in it]
  MaxChiavi,     \* GATEWAY_BOTTLE_RATE_MAX_IPS
  Ora, MaxOra,   \* the hour of the relay, BOTTLE_RATE_MAX_PER_HOUR
  MaxIp,         \* BOTTLE_RATE_MAX_IPS
  MaxBottiglie,  \* BOTTLE_MAX_COUNT
  MaxEta,        \* BOTTLE_MAX_AGE_S
  Attesta        \* the gateway and the relay share BOTTLE_GATEWAY_SECRET

VARIABLES
  colpi,      \* _rate_hits: [Rotta \X Ip -> ages of the calls let through]
  passate,    \* the same for whoever counts each route by itself
  richiesta,  \* [Ip -> [fase, chiave, eta]]: a publication on its way to the table
  tassi,      \* _bottle_rate: [caller -> ages of the publications let through]
  servite,    \* the same by the caller they really were of
  bottiglie,  \* _bottles: [key -> [c, eta]]
  annuncio,   \* bottles_announce: [fase, eta]
  esito       \* the last judgement of the relay: [no, piena, proprie]

vars == <<colpi, passate, richiesta, tassi, servite, bottiglie, annuncio, esito>>

Chiavi == Chiave \cup {Mia}
Nessuna == [c |-> FALSE, eta |-> 0]
Ferma == [fase |-> "ferma", chiave |-> Mia, eta |-> 0]
Chiamanti == Ip \cup {"gateway"}
Recenti(s, w) == SelectSeq(s, LAMBDA e : e < w)
Contati(f) == {x \in DOMAIN f : f[x] # <<>>}
Presenti(b) == {k \in Chiavi : b[k].c}

Init ==
  /\ colpi = [x \in Rotta \X Ip |-> <<>>] /\ passate = colpi
  /\ richiesta = [i \in Ip |-> Ferma]
  /\ tassi = [i \in Chiamanti |-> <<>>] /\ servite = [i \in Ip |-> <<>>]
  /\ bottiglie = [k \in Chiavi |-> Nessuna]
  /\ annuncio = [fase |-> "fermo", eta |-> 0]
  /\ esito = [no |-> FALSE, piena |-> FALSE, proprie |-> 0]

-----------------------------------------------------------------------------
(* The gateway: _rate_check and proxy. *)

\* Mutant of Sfoltite: every list is cut to the window of the route being called.
SfoltiteConUnaFinestra(r) == [x \in Rotta \X Ip |-> Recenti(colpi[x], Finestra[r])]

\* every list is cut to the window of its own route, whichever is being called
Sfoltite(r) == [x \in Rotta \X Ip |-> Recenti(colpi[x], Finestra[x[1]])]

\* there is room to count this caller, and it has calls left
Ammessa(f, x, chiavi, tetto) ==
  (x \in Contati(f) \/ Cardinality(Contati(f)) < chiavi) /\ Len(f[x]) < tetto

\* a call; a publication that is let through goes on to the relay, with a bottle that was
\* signed some time ago
Chiama(i, r, k, eta) ==
  LET s == Sfoltite(r)  x == <<r, i>> IN
  /\ richiesta[i].fase = "ferma"
  /\ IF Ammessa(s, x, MaxChiavi, Massimo[r])
     THEN /\ colpi' = [s EXCEPT ![x] = Append(@, 0)]
          /\ passate' = [passate EXCEPT ![x] = Append(Recenti(@, Finestra[r]), 0)]
          /\ richiesta' = IF r # "publish" THEN richiesta
                          ELSE [richiesta EXCEPT ![i] = [fase |-> "inoltrata", chiave |-> k,
                                                         eta |-> eta]]
     ELSE colpi' = s /\ UNCHANGED <<passate, richiesta>>
  /\ UNCHANGED <<tassi, servite, bottiglie, annuncio, esito>>

-----------------------------------------------------------------------------
(* The relay: bottles_publish. *)

\* Mutant of Cliente: the address is that of the connection.
ClienteDellaConnessione(i) == "gateway"

\* _bottle_client_ip: the address the gateway attests, or that of its connection
Cliente(i) == IF Attesta THEN i ELSE "gateway"

\* the rate of the caller, then verify_bottle, which costs
Giudica(i) ==
  LET c == Cliente(i)
      t == [x \in Chiamanti |-> Recenti(tassi[x], Ora)]
      mie == Recenti(servite[i], Ora)
      si == Ammessa(t, c, MaxIp, MaxOra)
  IN
  /\ richiesta[i].fase = "inoltrata"
  /\ tassi' = IF si THEN [t EXCEPT ![c] = Append(@, 0)] ELSE t
  /\ servite' = [servite EXCEPT ![i] = IF si THEN Append(mie, 0) ELSE mie]
  /\ esito' = [no |-> ~si, proprie |-> Len(mie),
               piena |-> c \notin Contati(t) /\ Cardinality(Contati(t)) >= MaxIp]
  /\ \E valida \in BOOLEAN :
       richiesta' = IF si /\ valida /\ richiesta[i].eta <= MaxEta
                    THEN [richiesta EXCEPT ![i].fase = "verificata"]
                    ELSE [richiesta EXCEPT ![i] = Ferma]
  /\ UNCHANGED <<colpi, passate, bottiglie, annuncio>>

\* _bottles_prune_expired
Vive(b) == [k \in Chiavi |-> IF b[k].eta > MaxEta THEN Nessuna ELSE b[k]]

\* Mutant of Fatto: nothing makes room for a key that is not there.
FattoPostoAMano(b, k) == {b}

\* room for a new key: the oldest bottle goes when the table is full
Fatto(b, k) ==
  IF b[k].c \/ Cardinality(Presenti(b)) < MaxBottiglie THEN {b}
  ELSE {[b EXCEPT ![v] = Nessuna] :
          v \in {x \in Presenti(b) : \A y \in Presenti(b) : b[y].eta <= b[x].eta}}

\* the table under its lock; a bottle of the same key is replaced, newer or older
Ripone(i) ==
  /\ richiesta[i].fase = "verificata"
  /\ \E b \in Fatto(Vive(bottiglie), richiesta[i].chiave) :
       bottiglie' = [b EXCEPT ![richiesta[i].chiave] = [c |-> TRUE, eta |-> richiesta[i].eta]]
  /\ richiesta' = [richiesta EXCEPT ![i] = Ferma]
  /\ UNCHANGED <<colpi, passate, tassi, servite, annuncio, esito>>

\* bottles_list
Elenca ==
  /\ bottiglie' = Vive(bottiglie)
  /\ UNCHANGED <<colpi, passate, richiesta, tassi, servite, annuncio, esito>>

-----------------------------------------------------------------------------
(* This node: bottles_announce, with no other relay configured. *)

\* one mining at a time; the bottle is dated before it
Mina ==
  /\ annuncio.fase = "fermo"
  /\ annuncio' = [fase |-> "mina", eta |-> 0]
  /\ UNCHANGED <<colpi, passate, richiesta, tassi, servite, bottiglie, esito>>

\* its own bottle goes in without a look at BOTTLE_MAX_COUNT
Annuncia ==
  /\ annuncio.fase = "mina"
  /\ bottiglie' = [Vive(bottiglie) EXCEPT ![Mia] = [c |-> TRUE, eta |-> annuncio.eta]]
  /\ annuncio' = [annuncio EXCEPT !.fase = "fermo", !.eta = 0]
  /\ UNCHANGED <<colpi, passate, richiesta, tassi, servite, esito>>

-----------------------------------------------------------------------------
Piu(e, tetto) == IF e <= tetto THEN e + 1 ELSE e
Tutte(s, tetto) == [j \in 1..Len(s) |-> Piu(s[j], tetto)]

\* time; ages beyond a window are all the same
Tempo ==
  /\ colpi' = [x \in Rotta \X Ip |-> Tutte(colpi[x], Finestra[x[1]] - 1)]
  /\ passate' = [x \in Rotta \X Ip |-> Tutte(passate[x], Finestra[x[1]] - 1)]
  /\ tassi' = [x \in Chiamanti |-> Tutte(tassi[x], Ora - 1)]
  /\ servite' = [i \in Ip |-> Tutte(servite[i], Ora - 1)]
  /\ richiesta' = [i \in Ip |-> IF richiesta[i].fase = "ferma" THEN Ferma
                                ELSE [richiesta[i] EXCEPT !.eta = Piu(@, MaxEta)]]
  /\ bottiglie' = [k \in Chiavi |-> IF bottiglie[k].c
                                    THEN [bottiglie[k] EXCEPT !.eta = Piu(@, MaxEta)]
                                    ELSE Nessuna]
  /\ annuncio' = IF annuncio.fase = "mina" THEN [annuncio EXCEPT !.eta = Piu(@, MaxEta)]
                 ELSE annuncio
  /\ UNCHANGED esito

Next ==
  \/ Elenca \/ Mina \/ Annuncia \/ Tempo
  \/ \E i \in Ip : Giudica(i) \/ Ripone(i)
       \/ \E r \in Rotta : \E k \in Chiave : \E eta \in 0..MaxEta : Chiama(i, r, k, eta)

Spec == Init /\ [][Next]_vars

-----------------------------------------------------------------------------
TypeOK ==
  /\ colpi \in [Rotta \X Ip -> Seq(Nat)] /\ passate \in [Rotta \X Ip -> Seq(Nat)]
  /\ richiesta \in [Ip -> [fase : {"ferma", "inoltrata", "verificata"}, chiave : Chiavi,
                           eta : 0..(MaxEta + 1)]]
  /\ tassi \in [Chiamanti -> Seq(Nat)] /\ servite \in [Ip -> Seq(Nat)]
  /\ bottiglie \in [Chiavi -> [c : BOOLEAN, eta : 0..(MaxEta + 1)]]
  /\ annuncio \in [fase : {"fermo", "mina"}, eta : 0..(MaxEta + 1)]
  /\ esito \in [no : BOOLEAN, piena : BOOLEAN, proprie : Nat]

\* No address makes more calls of a route in its window than it may, whatever other routes
\* with a shorter window are called in the meantime (_rate_check cuts all the lists).
PassateNeiLimiti ==
  \A r \in Rotta : \A i \in Ip : Len(Recenti(passate[<<r, i>>], Finestra[r])) <= Massimo[r]

\* With the gateway's attestation the relay refuses a publication only to an address that
\* has used up its own, or when it can count no more of them (_bottle_client_ip).
RifiutoMeritato == Attesta /\ esito.no => esito.piena \/ esito.proprie >= MaxOra

\* A full table grows only by the bottle of this node: every publication makes room first.
\* (It does grow: the bottle of this node is evicted like any other, and announced again it
\* takes one more place over BOTTLE_MAX_COUNT.)
PassoOltre ==
  /\ Cardinality(Presenti(bottiglie)) >= MaxBottiglie
  /\ Cardinality(Presenti(bottiglie')) > Cardinality(Presenti(bottiglie))
  => Annuncia
OltreSoloProprie == [][PassoOltre]_vars

\* what BOTTLE_MAX_COUNT promises
TettoBottiglie == Cardinality(Presenti(bottiglie)) <= MaxBottiglie
=============================================================================
