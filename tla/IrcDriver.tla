------------------------------ MODULE IrcDriver ------------------------------
(***************************************************************************)
(* The driver of an IRC network: scripts/irc_bot.py (src/).  One thread    *)
(* connects, authenticates with SASL, joins, gathers messages by target,   *)
(* asks the control plane for an answer and sends it.                      *)
(*                                                                         *)
(* The server, the network and the answers of the control plane are        *)
(* external.  A step is the code between two of them; the connection may   *)
(* break at any time, and the driver learns of it only by reading.         *)
(***************************************************************************)
EXTENDS Naturals, Sequences, FiniteSets

CONSTANTS
  Canale,      \* IRC_CHANNELS
  Persona,     \* who writes, in a channel or in private
  MaxMucchio,  \* BATCH_MAX_MESSAGES
  MaxLinea     \* bound: lines on their way to the driver

VARIABLES
  fase,        \* of the loop: "connetti", "legge", "mucchi", "chiede", "resto", "morto"
  presa,       \* client.sock: [aperta, unito], with client.joined
  linea,       \* lines the server has sent
  lette,       \* lines read and not yet handled
  server,      \* [legato, stadio, mandato]: is the other end there, what has the driver
               \* sent it last, has that been answered?
  mucchi,      \* batches: [target -> [autori, n, vecchio]]
  corrente,    \* the target the control plane is being asked about
  modo,        \* "auto" or "off"
  comando,     \* the operator's command that waits in the control plane
  detto        \* the last answer that left: [a, per]

vars == <<fase, presa, linea, lette, server, mucchi, corrente, modo, comando, detto>>
restoDi == <<corrente, modo, comando, detto>>

Io == "Anna"               \* our own nick: the target of a private message
Target == Canale \union {Io}
Riga(tipo) == [tipo |-> tipo, a |-> Io, da |-> Io]
Messaggio(t, p) == [tipo |-> "PRIVMSG", a |-> t, da |-> p]
Vuoto == [autori |-> {}, n |-> 0, vecchio |-> FALSE]
Chiusa == [aperta |-> FALSE, unito |-> FALSE]
Assente == [legato |-> FALSE, stadio |-> "cap", mandato |-> FALSE]

\* the registration: what the driver has sent, what the server answers, what comes next
Risposte == {"CAP", "AUTHENTICATE", "900", "001"}
Replica(stadio) == CASE stadio = "cap" -> "CAP" [] stadio = "auth" -> "AUTHENTICATE"
                     [] stadio = "blob" -> "900" [] stadio = "fine" -> "001"
Seguito(riga) == CASE riga = "CAP" -> "auth" [] riga = "AUTHENTICATE" -> "blob"
                   [] riga = "900" -> "fine" [] riga = "001" -> "dentro"

Init ==
  /\ fase = "connetti" /\ presa = Chiusa /\ linea = <<>> /\ lette = <<>> /\ server = Assente
  /\ mucchi = [t \in Target |-> Vuoto] /\ corrente = Io
  /\ modo = "auto" /\ comando = "nessuno" /\ detto = [a |-> Io, per |-> {}]

-----------------------------------------------------------------------------
(* The server, the network, the people, the operator, the clock. *)

ServerReplica ==
  /\ server.legato /\ ~server.mandato /\ server.stadio # "dentro" /\ Len(linea) < MaxLinea
  /\ linea' = Append(linea, Riga(Replica(server.stadio)))
  /\ server' = [server EXCEPT !.mandato = TRUE]
  /\ UNCHANGED <<fase, presa, lette, mucchi, restoDi>>

\* PING, and 433 for a nick that is taken: the driver answers with a line of its own
ServerChiede ==
  /\ server.legato /\ Len(linea) < MaxLinea
  /\ linea' = Append(linea, Riga("PING"))
  /\ UNCHANGED <<fase, presa, lette, server, mucchi, restoDi>>

Scrivono(t, p) ==
  /\ server.legato /\ server.stadio = "dentro" /\ Len(linea) < MaxLinea
  /\ linea' = Append(linea, Messaggio(t, p))
  /\ UNCHANGED <<fase, presa, lette, server, mucchi, restoDi>>

Cade ==
  /\ server.legato
  /\ server' = [server EXCEPT !.legato = FALSE]
  /\ UNCHANGED <<fase, presa, linea, lette, mucchi, restoDi>>

Comanda(c) ==
  /\ comando' = c
  /\ UNCHANGED <<fase, presa, linea, lette, server, mucchi, corrente, modo, detto>>

\* BATCH_MAX_AGE_S
Invecchia(t) ==
  /\ mucchi[t].n > 0 /\ ~mucchi[t].vecchio
  /\ mucchi' = [mucchi EXCEPT ![t].vecchio = TRUE]
  /\ UNCHANGED <<fase, presa, linea, lette, server, restoDi>>

-----------------------------------------------------------------------------
(* The loop. *)

\* connect; a failure waits a little and tries again
Connetti ==
  /\ fase = "connetti"
  /\ fase' = "legge" /\ presa' = [Chiusa EXCEPT !.aperta = TRUE] /\ linea' = <<>>
  /\ server' = [legato |-> TRUE, stadio |-> "cap", mandato |-> FALSE]
  /\ UNCHANGED <<lette, mucchi, restoDi>>

\* Mutant of Legge: a connection that was closed is taken for one with nothing to read.
LeggeSenzaCaduta ==
  /\ fase = "legge" /\ lette = <<>>
  /\ lette' = linea /\ linea' = <<>>
  /\ fase' = (IF linea = <<>> THEN "mucchi" ELSE "righe")
  /\ UNCHANGED <<presa, server, mucchi, restoDi>>

\* read_lines: what has arrived, or the end of the connection
Legge ==
  /\ fase = "legge" /\ lette = <<>>
  /\ lette' = linea /\ linea' = <<>>
  /\ fase' = (IF linea = <<>> THEN "mucchi" ELSE "righe")
  /\ presa' = (IF linea = <<>> /\ ~server.legato THEN Chiusa ELSE presa)
  /\ UNCHANGED <<server, mucchi, restoDi>>

Prossima == Head(lette)
Finita == IF Len(lette) = 1 THEN "mucchi" ELSE "righe"

\* feed, for a line that wants a line: nobody catches the error of a broken connection
Protocollo ==
  /\ fase = "righe" /\ Prossima.tipo # "PRIVMSG"
  /\ \/ /\ ~server.legato /\ fase' = "morto" /\ lette' = <<>>
        /\ UNCHANGED <<presa, server>>
     \/ /\ fase' = Finita /\ lette' = Tail(lette)
        /\ presa' = [presa EXCEPT !.unito = @ \/ Prossima.tipo = "001"]
        /\ server' = (IF Prossima.tipo \in Risposte /\ server.legato
                      THEN [server EXCEPT !.stadio = Seguito(Prossima.tipo), !.mandato = FALSE]
                      ELSE server)
  /\ UNCHANGED <<linea, mucchi, restoDi>>

\* Mutant of Raccoglie: the age of a batch is that of its last message.
RaccoglieDaCapo ==
  /\ fase = "righe" /\ Prossima.tipo = "PRIVMSG"
  /\ lette' = Tail(lette) /\ fase' = Finita
  /\ mucchi' = [mucchi EXCEPT ![Prossima.a] =
       [autori |-> @.autori \union {Prossima.da}, n |-> IF @.n < MaxMucchio - 1 THEN @.n + 1 ELSE @.n,
        vecchio |-> FALSE]]
  /\ UNCHANGED <<presa, linea, server, restoDi>>

\* a message joins the batch of its target
Raccoglie ==
  /\ fase = "righe" /\ Prossima.tipo = "PRIVMSG"
  /\ lette' = Tail(lette) /\ fase' = Finita
  /\ mucchi' = [mucchi EXCEPT ![Prossima.a] =
       [autori |-> @.autori \union {Prossima.da}, n |-> IF @.n < MaxMucchio THEN @.n + 1 ELSE @.n,
        vecchio |-> @.vecchio]]
  /\ UNCHANGED <<presa, linea, server, restoDi>>

Maturo(t) == mucchi[t].n >= MaxMucchio \/ mucchi[t].vecchio

\* process_batch
Chiede(t) ==
  /\ fase = "mucchi" /\ Maturo(t)
  /\ IF modo = "off" THEN mucchi' = [mucchi EXCEPT ![t] = Vuoto] /\ UNCHANGED <<fase, corrente>>
     ELSE fase' = "chiede" /\ corrente' = t /\ UNCHANGED mucchi
  /\ UNCHANGED <<presa, linea, lette, server, modo, comando, detto>>

\* Mutant of Destinatario: a private message is answered to who wrote it.
DestinatarioAutore(t) == IF t = Io THEN mucchi[t].autori ELSE {t}

\* the answer goes to the target of the batch
Destinatario(t) == {t}

\* the control plane says what to answer.  An error of a broken connection is caught;
\* the lack of a connection is not
ChiedeRisposta ==
  LET t == corrente IN
  /\ fase = "chiede"
  /\ \/ /\ ~presa.aperta /\ fase' = "morto" /\ UNCHANGED <<mucchi, detto>>
     \/ /\ presa.aperta /\ fase' = "mucchi"
        /\ mucchi' = [mucchi EXCEPT ![t] = Vuoto]
        /\ \/ /\ server.legato
              /\ \E d \in Destinatario(t) :
                   detto' = [a |-> d, per |-> mucchi[t].autori]
           \/ ~server.legato /\ UNCHANGED detto
  /\ UNCHANGED <<presa, linea, lette, server, corrente, modo, comando>>

\* ... or that it is not the time, or nothing at all: the batch is gone all the same
ChiedeSilenzio ==
  /\ fase = "chiede" /\ fase' = "mucchi"
  /\ mucchi' = [mucchi EXCEPT ![corrente] = Vuoto]
  /\ UNCHANGED <<presa, linea, lette, server, restoDi>>

\* the commands, when their time has come; the end of the turn
Comandi ==
  /\ fase = "mucchi" /\ \A t \in Target : ~Maturo(t)
  /\ fase' = "resto"
  /\ \/ comando = "nessuno" /\ UNCHANGED <<modo, comando>>
     \/ comando # "nessuno" /\ modo' = comando /\ comando' = "nessuno"
     \/ UNCHANGED <<modo, comando>>
  /\ UNCHANGED <<presa, linea, lette, server, mucchi, corrente, detto>>

\* the presentation, every present_s, to the channels we joined
Presenta ==
  /\ fase = "resto"
  /\ fase' \in {IF presa.aperta THEN "legge" ELSE "connetti"}
                 \union (IF presa.unito /\ ~server.legato THEN {"morto"} ELSE {})
  /\ UNCHANGED <<presa, linea, lette, server, mucchi, restoDi>>

\* somebody starts the driver again: mode and batches were in its memory
Riparte ==
  /\ fase = "morto"
  /\ fase' = "connetti" /\ presa' = Chiusa /\ linea' = <<>> /\ lette' = <<>> /\ server' = Assente
  /\ mucchi' = [t \in Target |-> Vuoto] /\ modo' = "auto"
  /\ UNCHANGED <<corrente, comando, detto>>

Giro ==
  \/ Connetti \/ Legge \/ Protocollo \/ Raccoglie \/ ChiedeRisposta \/ ChiedeSilenzio
  \/ Comandi \/ Presenta \/ \E t \in Target : Chiede(t)

Next ==
  \/ Giro \/ ServerReplica \/ ServerChiede \/ Cade \/ Riparte
  \/ \E t \in Target : Invecchia(t) \/ \E p \in Persona : Scrivono(t, p)
  \/ \E c \in {"auto", "off"} : Comanda(c)

Spec == Init /\ [][Next]_vars

\* the thread runs, the server answers, the clock goes on, a dead driver is restarted
FairSpec ==
  /\ Spec
  /\ WF_vars(Giro) /\ SF_vars(ServerReplica) /\ WF_vars(Riparte)
  /\ \A t \in Target : WF_vars(Invecchia(t))

-----------------------------------------------------------------------------
(* Properties. *)

TypeOK ==
  /\ fase \in {"connetti", "legge", "righe", "mucchi", "chiede", "resto", "morto"}
  /\ {presa.aperta, presa.unito, server.legato, server.mandato} \subseteq BOOLEAN
  /\ (presa.unito => presa.aperta) /\ (fase = "righe" <=> lette # <<>>)
  /\ server.stadio \in {"cap", "auth", "blob", "fine", "dentro"}
  /\ \A t \in Target : /\ mucchi[t].autori \subseteq Persona /\ mucchi[t].n \in 0..MaxMucchio
                       /\ mucchi[t].vecchio \in BOOLEAN /\ (mucchi[t].n = 0 => mucchi[t] = Vuoto)
  /\ corrente \in Target /\ modo \in {"auto", "off"} /\ comando \in {"auto", "off", "nessuno"}

\* "pubblica la risposta nel canale o in privato" (irc_bot.py): an answer to a private
\* message goes to who wrote it, never to the driver itself.
PrivatoAllAutore == detto.a # Io \/ detto.per = {}

\* Whatever breaks, and however often the driver has to be started again, it is in its
\* channels once the network holds.
EntraNeiCanali == <>[][~Cade]_vars => <>(server.stadio = "dentro" /\ server.legato /\ presa.unito)

\* Every message that waits is put to the control plane or dropped by a restart: a
\* batch to which people keep adding does not wait for ever.
MucchioSmaltito == \A t \in Target : mucchi[t].n > 0 ~> mucchi[t].n = 0
=============================================================================
