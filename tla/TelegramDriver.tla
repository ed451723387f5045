--------------------------- MODULE TelegramDriver ---------------------------
(***************************************************************************)
(* The Telegram driver (scripts/telegram_bot.py) with the part of the      *)
(* control plane that answers it: the rhythm of the replies, the commands  *)
(* of the operator and the images to deliver (cp/canali.py,                *)
(* shared/channel.py).  The driver is one thread that pulls; a request to  *)
(* Telegram or to the control plane may fail at every step.                *)
(***************************************************************************)
EXTENDS Naturals, Sequences, SequencesExt

CONSTANTS
  Chat,           \* chats, a sequence in the order in which the driver met them
  Tipo,           \* kinds of updates that arrive (below)
  Comando,        \* commands that the operator gives, of COMANDI_DRIVER
  MenzioneSola,   \* TELEGRAM_REQUIRE_MENTION
  MaxTurni,       \* BOT_MAX_TURNS
  MaxContesto,    \* MAX_CONTEXT
  MaxCoda,        \* bound: updates waiting at Telegram
  MaxComandi,     \* max_commands of ChannelRuntime
  Perdite         \* may the answer that carries the commands be lost?

VARIABLES
  arrivi,     \* updates that Telegram holds: those not yet confirmed by an offset
  driver,     \* [fase, letti, lotto, resto, modo, nome]: the thread
  chats,      \* [chat -> [n, chiamata, immagine, aperta, maturo, turni]]
  freno,      \* the cooldown of the channel: min_interval_s since note_reply
  comandi,    \* _coda of ChannelRuntime
  foto        \* [pronta, file, inviata, confermata]: an image of the outbox

vars == <<arrivi, driver, chats, freno, comandi, foto>>

\* "testo": words to the room; "menzione": with @username or in reply to us;
\* "nome": begins with our name; "bot": an admitted bot that mentions us;
\* "guest": guest, business or photo, answered at once; "immagine": a mention that
\* asks for an image
Tipi == {"testo", "menzione", "nome", "bot", "guest", "immagine"}

Chats == {Chat[i] : i \in 1 .. Len(Chat)}
Vuota == [n |-> 0, chiamata |-> FALSE, immagine |-> FALSE, aperta |-> FALSE,
          maturo |-> FALSE, turni |-> 0]
Avviato == [fase |-> "leggi", letti |-> 0, lotto |-> 0, resto |-> <<>>,
            modo |-> "auto", nome |-> "proprio"]
SenzaFoto == [pronta |-> FALSE, file |-> FALSE, inviata |-> FALSE, confermata |-> FALSE]

Init ==
  /\ arrivi = <<>> /\ driver = Avviato /\ chats = [c \in Chats |-> Vuota]
  /\ freno = FALSE /\ comandi = <<>> /\ foto = SenzaFoto

Vai(f) == driver' = [driver EXCEPT !.fase = f]

-----------------------------------------------------------------------------
(* 1. The messages. *)

\* getUpdates: the offset confirms what was read, the rest is the next lot
Leggi ==
  /\ driver.fase = "leggi"
  /\ arrivi' = SubSeq(arrivi, driver.letti + 1, Len(arrivi))
  /\ driver' = [driver EXCEPT !.fase = "messaggi", !.letti = 0, !.lotto = Len(arrivi')]
  /\ UNCHANGED <<chats, freno, comandi, foto>>

\* rivolta_a_noi
Rivolta(tipo) == tipo \in {"menzione", "bot", "immagine"} \/ (tipo = "nome" /\ driver.nome = "proprio")

Chiamata(e, tipo) == e.chiamata \/ Rivolta(tipo)

\* a text enters the context of its chat; a person resets the budget of the bots
Accetta(e, tipo) ==
  [e EXCEPT !.n = IF @ < MaxContesto THEN @ + 1 ELSE @,
            !.chiamata = Chiamata(e, tipo), !.immagine = tipo = "immagine",
            !.turni = IF tipo = "bot" THEN @ + 1 ELSE 0]

\* Mutant of Scartato: the budget is only counted.
ScartatoMai(e, tipo) == FALSE

\* bot_autorizzato is in the kind; bot_nel_budget
Scartato(e, tipo) == tipo = "bot" /\ e.turni >= MaxTurni

\* Guests and business chats are answered at once: the request says force, and only a
\* reply that was given starts the pause.
RispostaDiretta == freno' \in {freno, TRUE}

Messaggio ==
  LET m == arrivi[driver.letti + 1]  e == chats[m.chat] IN
  /\ driver.fase = "messaggi" /\ driver.letti < driver.lotto
  /\ chats' = (IF m.tipo = "guest" \/ Scartato(e, m.tipo) THEN chats
               ELSE [chats EXCEPT ![m.chat] = Accetta(e, m.tipo)])
  /\ driver' = [driver EXCEPT !.letti = @ + 1]
  /\ IF m.tipo = "guest" THEN RispostaDiretta ELSE UNCHANGED freno
  /\ UNCHANGED <<arrivi, comandi, foto>>

FineMessaggi ==
  /\ driver.fase = "messaggi" /\ driver.letti = driver.lotto
  /\ driver' = [driver EXCEPT !.fase = IF driver.modo = "off" THEN "comandi" ELSE "risposte",
                              !.resto = Chat]
  /\ UNCHANGED <<arrivi, chats, freno, comandi, foto>>

-----------------------------------------------------------------------------
(* 2. The replies: /channel/reply for every chat, then sendMessage. *)

Ascolta(e) == e.n > 0 /\ (MenzioneSola => e.chiamata \/ e.aperta)

Salta == driver' = [driver EXCEPT !.resto = Tail(@)]

\* ReplyPacing.decide says wait, its dice or the audit skip, the model fails
SenzaRisposta ==
  /\ driver.fase = "risposte" /\ driver.resto # <<>>
  /\ Salta
  /\ UNCHANGED <<arrivi, chats, freno, comandi, foto>>

\* ReplyPacing.decide and note_reply, before the driver has sent anything
Risposta ==
  LET e == chats[Head(driver.resto)] IN
  /\ driver.fase = "risposte" /\ driver.resto # <<>>
  /\ Ascolta(e) /\ ~e.immagine /\ ~freno /\ e.maturo
  /\ freno' = TRUE
  /\ Vai("invio")
  /\ UNCHANGED <<arrivi, chats, comandi, foto>>

\* _channel_immagine: the request does not wait for the rhythm; its job will fill the
\* outbox (a job is queued again when the driver cannot say so and asks again)
RispostaImmagine ==
  LET e == chats[Head(driver.resto)] IN
  /\ driver.fase = "risposte" /\ driver.resto # <<>>
  /\ Ascolta(e) /\ e.immagine
  /\ foto' = (IF foto.pronta THEN foto ELSE [SenzaFoto EXCEPT !.pronta = TRUE])
  /\ Vai("invio")
  /\ UNCHANGED <<arrivi, chats, freno, comandi>>

Inviata ==
  LET c == Head(driver.resto) IN
  /\ driver.fase = "invio"
  /\ chats' = [chats EXCEPT ![c] = [Vuota EXCEPT !.aperta = TRUE, !.turni = chats[c].turni]]
  /\ freno' = TRUE
  /\ driver' = [driver EXCEPT !.fase = "risposte", !.resto = Tail(@)]
  /\ UNCHANGED <<arrivi, comandi, foto>>

\* Mutant of NonInviata: the call is forgotten before the reply is out.
NonInviataDimentica ==
  /\ driver.fase = "invio"
  /\ chats' = [chats EXCEPT ![Head(driver.resto)].chiamata = FALSE]
  /\ driver' = [driver EXCEPT !.fase = "risposte", !.resto = Tail(@)]
  /\ UNCHANGED <<arrivi, freno, comandi, foto>>

NonInviata ==
  /\ driver.fase = "invio"
  /\ driver' = [driver EXCEPT !.fase = "risposte", !.resto = Tail(@)]
  /\ UNCHANGED <<arrivi, chats, freno, comandi, foto>>

FineRisposte ==
  /\ driver.fase = "risposte" /\ driver.resto = <<>>
  /\ Vai("comandi")
  /\ UNCHANGED <<arrivi, chats, freno, comandi, foto>>

-----------------------------------------------------------------------------
(* 3. The commands, drained by the request that asks for them; 4. the images. *)

ModoDi(c) == IF c = "status" THEN driver.modo ELSE IF c = "off" THEN "off" ELSE "auto"

Modo(coda) ==
  LET veri == SelectSeq(coda, LAMBDA c : c # "status")
  IN IF veri = <<>> THEN driver.modo ELSE ModoDi(Last(veri))

\* Mutant of NomeDopo: the loop over the commands has a variable of its own.
NomeDopoProprio(coda) == driver.nome

\* the variable of the loop is the one that holds the name of the bot
NomeDopo(coda) == IF coda = <<>> THEN driver.nome ELSE "comando"

ComandiLetti ==
  /\ driver.fase = "comandi"
  /\ \/ driver' = [driver EXCEPT !.fase = "foto", !.modo = Modo(comandi),
                                 !.nome = NomeDopo(comandi)]
     \/ Perdite /\ comandi # <<>> /\ Vai("foto")
  /\ comandi' = <<>>
  /\ UNCHANGED <<arrivi, chats, freno, foto>>

ConsegnaFatta == Vai("leggi") /\ UNCHANGED <<arrivi, chats, freno, comandi>>

\* Mutant of Consegna: the delivery is confirmed whatever happened to the file.
ConsegnaSempreConfermata ==
  /\ driver.fase = "foto" /\ ConsegnaFatta
  /\ \/ ~foto.pronta /\ UNCHANGED foto
     \/ foto.pronta /\ foto' = [foto EXCEPT !.pronta = FALSE, !.confermata = TRUE]

\* Mutant of Consegna: an image is taken out of the outbox by the request for it.
ConsegnaRitirata ==
  /\ driver.fase = "foto" /\ ConsegnaFatta
  /\ \/ ~foto.pronta /\ UNCHANGED foto
     \/ foto.pronta /\ foto' = [foto EXCEPT !.pronta = FALSE]
     \/ foto.pronta /\ foto.file
        /\ foto' = [foto EXCEPT !.inviata = TRUE, !.confermata = TRUE, !.pronta = FALSE]

\* consegna_outbox: nothing to do, or no file; the sending fails; the ack is lost; done
Consegna ==
  /\ driver.fase = "foto" /\ ConsegnaFatta
  /\ \/ UNCHANGED foto
     \/ /\ foto.pronta /\ foto.file
        /\ \/ foto' = [foto EXCEPT !.inviata = TRUE]
           \/ foto' = [foto EXCEPT !.inviata = TRUE, !.confermata = TRUE, !.pronta = FALSE]

-----------------------------------------------------------------------------
(* The others. *)

Arriva(c, t) ==
  /\ Len(arrivi) < MaxCoda
  /\ arrivi' = Append(arrivi, [chat |-> c, tipo |-> t])
  /\ UNCHANGED <<driver, chats, freno, comandi, foto>>

\* the bridge has written the image, on the machine where the driver runs
FilePronto ==
  /\ foto.pronta /\ ~foto.file
  /\ foto' = [foto EXCEPT !.file = TRUE]
  /\ UNCHANGED <<arrivi, driver, chats, freno, comandi>>

\* POST /channel/commands: the oldest fall when nobody takes them
Ordina(c) ==
  LET coda == Append(comandi, c) IN
  /\ comandi' = (IF Len(coda) > MaxComandi THEN Tail(coda) ELSE coda)
  /\ UNCHANGED <<arrivi, driver, chats, freno, foto>>

\* command_ttl_s
Scade ==
  /\ comandi # <<>>
  /\ comandi' = Tail(comandi)
  /\ UNCHANGED <<arrivi, driver, chats, freno, foto>>

\* batch_max_age_s for a chat
Matura(c) ==
  /\ chats[c].n > 0 /\ ~chats[c].maturo
  /\ chats' = [chats EXCEPT ![c].maturo = TRUE]
  /\ UNCHANGED <<arrivi, driver, freno, comandi, foto>>

\* FINESTRA_CONVERSAZIONE_S; BOT_WINDOW_S
Chiude(c) ==
  /\ chats[c].aperta \/ chats[c].turni > 0
  /\ \/ chats' = [chats EXCEPT ![c].aperta = FALSE]
     \/ chats' = [chats EXCEPT ![c].turni = 0]
  /\ UNCHANGED <<arrivi, driver, freno, comandi, foto>>

\* min_interval_s; ricarica() makes a new ReplyPacing that has not seen any reply
Sfrena ==
  /\ freno /\ freno' = FALSE
  /\ UNCHANGED <<arrivi, driver, chats, comandi, foto>>

\* the driver ends and starts again, alone (SingleInstance): only the offset that
\* Telegram has seen is kept
Riavvia ==
  /\ driver' = Avviato /\ chats' = [c \in Chats |-> Vuota]
  /\ UNCHANGED <<arrivi, freno, comandi, foto>>

Giro ==
  \/ Leggi \/ Messaggio \/ FineMessaggi \/ FineRisposte \/ ComandiLetti \/ Consegna
  \/ SenzaRisposta \/ Risposta \/ RispostaImmagine \/ Inviata \/ NonInviata

Next ==
  \/ Giro \/ FilePronto \/ Scade \/ Sfrena \/ Riavvia
  \/ \E c \in Chats : Matura(c) \/ Chiude(c)
  \/ \E c \in Chats, t \in Tipo : Arriva(c, t)
  \/ \E c \in Comando : Ordina(c)

Spec == Init /\ [][Next]_vars

\* The loop goes on, time passes, the bridge writes the file; a model and a network
\* that are asked again and again answer now and then.
FairSpec ==
  /\ Spec
  /\ WF_vars(Giro) /\ WF_vars(Sfrena) /\ WF_vars(FilePronto)
  /\ \A c \in Chats : WF_vars(Matura(c))
  /\ SF_vars(Risposta) /\ SF_vars(RispostaImmagine) /\ SF_vars(Inviata)
  /\ SF_vars(Consegna /\ foto'.confermata /\ foto # foto')

-----------------------------------------------------------------------------
(* Properties. *)

TypeOK ==
  /\ arrivi \in Seq([chat : Chats, tipo : Tipi]) /\ Len(arrivi) <= MaxCoda
  /\ driver.fase \in {"leggi", "messaggi", "risposte", "invio", "comandi", "foto"}
  /\ driver.lotto <= Len(arrivi) /\ driver.letti <= driver.lotto
  /\ driver.modo \in {"auto", "off"} /\ driver.nome \in {"proprio", "comando"}
  /\ chats \in [Chats -> [n : 0 .. MaxContesto, chiamata : BOOLEAN, immagine : BOOLEAN,
                          aperta : BOOLEAN, maturo : BOOLEAN, turni : 0 .. MaxTurni]]
  /\ freno \in BOOLEAN /\ Len(comandi) <= MaxComandi
  /\ foto \in [pronta : BOOLEAN, file : BOOLEAN, inviata : BOOLEAN, confermata : BOOLEAN]

\* "un bot che riconosce solo @username resta muto proprio quando qualcuno lo chiama
\* per nome" (nome_chiamata): who calls the bot by its name is heard.
NomeRiconosciuto ==
  [][Messaggio => LET m == arrivi[driver.letti + 1] IN
       m.tipo = "nome" => chats'[m.chat].chiamata]_vars

\* "Un file che non c'e' NON viene confermato" (consegna_outbox): an image leaves the
\* outbox only after it was sent, whatever was lost or restarted on the way.
ConfermataSeInviata == foto.confermata => foto.inviata

FinitiRiavvii == ~[]<><<Riavvia>>_vars

\* An image that was asked for is delivered in the end, through failed sendings, lost
\* acknowledgements and restarts of the driver.
ImmagineArriva == FinitiRiavvii => (foto.pronta ~> foto.confermata)

\* Nobody but c takes the cooldown of the channel
Sola(c) ==
  /\ \A d \in Chats \ {c} : chats[d].n = 0
  /\ \A i \in 1 .. Len(arrivi) : arrivi[i].tipo # "guest"

\* A chat that was called gets its answer, if the driver is not paused and the other
\* chats, which share the cooldown of the channel and are asked first, fall silent.
ChiamataRisposta ==
  \A c \in Chats :
    <>[](driver.modo = "auto" /\ Sola(c))
      => ((chats[c].chiamata /\ chats[c].n > 0) ~> chats[c].n = 0)
=============================================================================
