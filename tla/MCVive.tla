------------------------------- MODULE MCVive -------------------------------
(***************************************************************************)
(* What must happen in the end, in each of the components that promise it, *)
(* the tasks (TaskAssign) first, whose outcomes are checked here too.      *)
(* As in MCControlPlane, a behaviour runs one of them, the scene; the      *)
(* fairness each promise rests on is its component's own, and stands       *)
(* before it in the property.                                              *)
(***************************************************************************)
EXTENDS TaskAssign

CONSTANT Scene

VARIABLES
  scena,
  nodi, noti, battito, annunci, elimina, corsa,                           \* MeshRegistry
  campioni, guasti, attesa, raccolta, cache, lettore, scelti, letti,      \* FleetScores
  rete,
  tabella, mappa, richiesta, elenco, aggrega,                             \* NodeAliases
  modo, fase, candidati, resto, giro, task, risposta, fonti, proposti,    \* ChatCompletion
  via,
  web, muti, code, inVolo, compiti, scaduti, attese, schede, consegne,    \* WebNode
  mesh, sentiti, conta,
  chiamata, lavori, risultati, fresco, spaziNoti, job, spazi, vm,         \* CodeSandbox
  cambiato, presi, cadute,
  spam, visto, ondate, ingest,                                            \* ChannelFacts
  conv, visti, posta, entrata, persona, coda, disco, operai, chiesto,     \* InstagramDm
  contati, riavvii,
  arrivi, driver, chats, freno, comandi, foto,                            \* TelegramDriver
  arrivi2, driver2, chats2, freno2, comandi2, foto2,                      \* TelegramDriver
  ciclo, presa, linea, lette, server, mucchi, destinatario, modoIrc,      \* IrcDriver
  comando, detto,
  ciclo2, presa2, linea2, lette2, server2, mucchi2, destinatario2,        \* IrcDriver
  modoIrc2, comando2, detto2,
  hermes, peer, file, monca, rotte, ids, filo, esito, staccati, travolte, \* MemorySync
  jobs, storico, registro,                                                \* ImageQueue
  owner, lease, dentro, prenota                                           \* ImageMemoryGate

-----------------------------------------------------------------------------
Misura == [lat |-> 2, carico |-> 3, degradato |-> FALSE, su |-> TRUE]

Reg == INSTANCE MeshRegistry WITH
  Nodo <- {"n1"}, Endpoint <- {"s", "p"}, Sicuri <- {"s"}, Fissi <- {},
  Sede <- [n1 |-> {"s", "p"}], Scheda <- [n \in {"n1"} |-> "p"], Annuncio <- {"a1"}, Operatore <- {"o1"}, Guasti <- TRUE

Fle == INSTANCE FleetScores WITH
  Nodo <- {1}, Vram <- [n \in {1} |-> 8],
  Campione <- {Misura},
  MaxAttesa <- 1, MaxEsponente <- 1, Memoria <- 0

Ali == INSTANCE NodeAliases WITH
  Nodo <- {"n1", "n2"}, Alias <- {"a"}, Richiesta <- {"r1"},
  giro <- aggrega

Cha == INSTANCE ChatCompletion WITH
  Nodo <- {"n1", "n2"}, MaxGiri <- 3,
  scelti <- candidati

Bro == INSTANCE WebNode WITH
  Nodo <- {"n1"}, MaxNodi <- 1, MaxCoda <- 2, MaxCompiti <- 2, MaxRiavvii <- 1,
  nodi <- web

San == INSTANCE CodeSandbox WITH
  Richiesta <- {"r1", "r2"}, Azioni <- {"replace"}, MaxSpazi <- 1, MaxCadute <- 1,
  elenco <- spaziNoti, corrente <- job, letti <- presi

Fat == INSTANCE ChannelFacts WITH
  Richiesta <- {"r1"}, Soglia <- 2, Finestra <- 2,
  riga <- ondate, richiesta <- ingest

Dm == INSTANCE InstagramDm WITH
  MaxMessaggi <- 2, Soglia <- 1, MaxTentativi <- 1, Webhook <- TRUE, MaxRiavvii <- 1

Foto == INSTANCE TelegramDriver WITH
  Chat <- <<"a">>, Tipo <- {"testo", "immagine"}, Comando <- {"off"},
  MenzioneSola <- TRUE, MaxTurni <- 1, MaxContesto <- 1, MaxCoda <- 1, MaxComandi <- 1,
  Perdite <- TRUE

Due == INSTANCE TelegramDriver WITH
  Chat <- <<"a", "b">>, Tipo <- {"menzione"}, Comando <- {"off"}, MenzioneSola <- TRUE,
  MaxTurni <- 1, MaxContesto <- 1, MaxCoda <- 1, MaxComandi <- 1, Perdite <- TRUE,
  arrivi <- arrivi2, driver <- driver2, chats <- chats2, freno <- freno2, comandi <- comandi2, foto <- foto2

Irc == INSTANCE IrcDriver WITH
  Canale <- {"#c"}, Persona <- {"p"}, MaxMucchio <- 1, MaxLinea <- 1,
  fase <- ciclo, corrente <- destinatario, modo <- modoIrc

Priv == INSTANCE IrcDriver WITH
  Canale <- {}, Persona <- {"p"}, MaxMucchio <- 2, MaxLinea <- 1,
  fase <- ciclo2, presa <- presa2, linea <- linea2, lette <- lette2, server <- server2, mucchi <- mucchi2, corrente <- destinatario2, modo <- modoIrc2, comando <- comando2, detto <- detto2

Mem == INSTANCE MemorySync WITH
  Voce <- {"v1", "v2", "v3"}, Thread <- {"t1"}, Rifiutate <- {"v3"}, DiscoFallibile <- TRUE,
  coda <- file, su <- peer

Cod == INSTANCE ImageQueue WITH
  JobId <- {"j1", "j2"}, FamigliaDi <- [j \in {"j1", "j2"} |-> "qwen"], MaxJobs <- 1,
  Ttl <- 2, ClaimTtl <- 1, MaxStorico <- 2, DiscoFallibile <- TRUE,
  job <- jobs, disco <- registro

\* images that are asked for without end
Por == INSTANCE ImageMemoryGate WITH
  JobId <- {"j1", "j2"}, Chat <- {"c1"}, Lease <- 2, resto <- lease, chat <- dentro

-----------------------------------------------------------------------------
reg_vars == <<nodi, noti, battito, annunci, elimina, corsa>>
fle_vars == <<campioni, guasti, attesa, raccolta, cache, lettore, scelti, letti, rete>>
ali_vars == <<tabella, mappa, richiesta, elenco, aggrega>>
cha_vars == <<modo, fase, candidati, resto, giro, task, risposta, fonti, proposti, via>>
bro_vars == <<web, muti, code, inVolo, compiti, scaduti, attese, schede, consegne, mesh,
  sentiti, conta>>
san_vars == <<chiamata, lavori, risultati, fresco, spaziNoti, job, spazi, vm, cambiato, presi,
  cadute>>
fat_vars == <<spam, visto, ondate, ingest>>
dm_vars == <<conv, visti, posta, entrata, persona, coda, disco, operai, chiesto, contati,
  riavvii>>
foto_vars == <<arrivi, driver, chats, freno, comandi, foto>>
due_vars == <<arrivi2, driver2, chats2, freno2, comandi2, foto2>>
irc_vars == <<ciclo, presa, linea, lette, server, mucchi, destinatario, modoIrc, comando, detto>>
priv_vars == <<ciclo2, presa2, linea2, lette2, server2, mucchi2, destinatario2, modoIrc2,
  comando2, detto2>>
mem_vars == <<hermes, peer, file, monca, rotte, ids, filo, esito, staccati, travolte>>
cod_vars == <<jobs, storico, registro>>
por_vars == <<owner, lease, dentro, prenota>>

\* A component that rests is in an initial state.
InitScena ==
  /\ scena \in Scene /\ Init
  /\ Reg!Init /\ Fle!Init /\ Ali!Init /\ Cha!Init /\ Bro!Init /\ San!Init
  /\ Fat!Init /\ Dm!Init /\ Foto!Init /\ Due!Init /\ Irc!Init /\ Priv!Init /\ Mem!Init /\ Cod!Init
  /\ Por!Init
  /\ scena # "registro" => nodi["n1"].stato = "assente"
  /\ scena # "punteggi" => rete[1] = Misura
  /\ scena # "chat" => candidati = <<>> /\ ~\E k \in DOMAIN modo : modo[k]

NextScena ==
  /\ UNCHANGED scena
  /\ IF scena = "registro" THEN Reg!Next ELSE UNCHANGED reg_vars
  /\ IF scena = "punteggi" THEN Fle!Next ELSE UNCHANGED fle_vars
  /\ IF scena = "alias" THEN Ali!Next ELSE UNCHANGED ali_vars
  /\ IF scena = "task" THEN Next ELSE UNCHANGED vars
  /\ IF scena = "chat" THEN Cha!Next ELSE UNCHANGED cha_vars
  /\ IF scena = "browser" THEN Bro!Next ELSE UNCHANGED bro_vars
  /\ IF scena = "sandbox" THEN San!Next ELSE UNCHANGED san_vars
  /\ IF scena = "fatti" THEN Fat!Next ELSE UNCHANGED fat_vars
  /\ IF scena = "dm" THEN Dm!Next ELSE UNCHANGED dm_vars
  /\ IF scena = "telegram" THEN Foto!Next ELSE UNCHANGED foto_vars
  /\ IF scena = "telegram2" THEN Due!Next ELSE UNCHANGED due_vars
  /\ IF scena = "irc" THEN Irc!Next ELSE UNCHANGED irc_vars
  /\ IF scena = "privati" THEN Priv!Next ELSE UNCHANGED priv_vars
  /\ IF scena = "memoria" THEN Mem!Next ELSE UNCHANGED mem_vars
  /\ IF scena = "coda" THEN Cod!Next ELSE UNCHANGED cod_vars
  /\ IF scena = "porta" THEN Por!Next ELSE UNCHANGED por_vars

scena_vars == <<scena, reg_vars, fle_vars, ali_vars, vars, cha_vars, bro_vars, san_vars,
          fat_vars, dm_vars, foto_vars, due_vars, irc_vars, priv_vars, mem_vars, cod_vars, por_vars>>

SpecScena == InitScena /\ [][NextScena]_scena_vars

-----------------------------------------------------------------------------
\* The fairness of each component, which its module explains at FairSpec.  That it holds
\* only while the component is at work costs TLC less.
In(s) == scena = s

EquoTask == \A r \in Rotta : WF_vars(In("task") /\ Passo(r))
EquoChat ==
  /\ WF_cha_vars(In("chat") /\ (Cha!Arriva \/ Cha!ProvaNodo \/ Cha!ChiamaModello \/ Cha!NodiFiniti
       \/ Cha!ProvaFlusso \/ Cha!FlussoDiretto \/ Cha!Federazione \/ Cha!Provider))
  /\ WF_cha_vars(In("chat") /\ (Cha!FineFlusso \/ Cha!SpezzaFlusso \/ Cha!Chunk))
EquoBrowser ==
  /\ WF_bro_vars(In("browser") /\ Bro!Stato)
  /\ \A t \in 1..2 : WF_bro_vars(In("browser") /\ Bro!Scade(t))
  /\ WF_bro_vars(In("browser") /\ Bro!Scopre("n1")) /\ WF_bro_vars(In("browser") /\ Bro!Desiste("n1"))
  /\ WF_bro_vars(In("browser") /\ \E b \in BOOLEAN : Bro!Sveglia("n1", b))
EquoSandbox ==
  /\ WF_san_vars(In("sandbox") /\ San!Runner)
  /\ \A r \in {"r1", "r2"} : WF_san_vars(In("sandbox") /\ San!Cliente(r))
EquoRegistro ==
  /\ WF_reg_vars(In("registro") /\ Reg!Battito)
  /\ WF_reg_vars(In("registro") /\ Reg!Gestisce("a1"))
EquoPunteggi ==
  /\ WF_fle_vars(In("punteggi") /\ Fle!Raccolta) /\ SF_fle_vars(In("punteggi") /\ Fle!FineRaccolta)
  /\ WF_fle_vars(In("punteggi") /\ Fle!Calcolato) /\ WF_fle_vars(In("punteggi") /\ Fle!LeggeCampione(1))
EquoAlias ==
  /\ WF_ali_vars(In("alias") /\ Ali!Lista) /\ WF_ali_vars(In("alias") /\ Ali!Scade)
  /\ WF_ali_vars(In("alias") /\ Ali!Prosegue("r1"))
EquoTelegram ==
  /\ WF_foto_vars(In("telegram") /\ Foto!Giro) /\ WF_foto_vars(In("telegram") /\ Foto!Sfrena)
  /\ WF_foto_vars(In("telegram") /\ Foto!FilePronto) /\ WF_foto_vars(In("telegram") /\ Foto!Matura("a"))
  /\ SF_foto_vars(In("telegram") /\ Foto!Risposta) /\ SF_foto_vars(In("telegram") /\ Foto!Inviata)
  /\ SF_foto_vars(In("telegram") /\ Foto!RispostaImmagine)
  /\ SF_foto_vars(In("telegram") /\ Foto!Consegna /\ foto'.confermata /\ foto # foto')
EquoTelegram2 ==
  /\ WF_due_vars(In("telegram2") /\ Due!Giro) /\ WF_due_vars(In("telegram2") /\ Due!Sfrena)
  /\ \A c \in {"a", "b"} : WF_due_vars(In("telegram2") /\ Due!Matura(c))
  /\ SF_due_vars(In("telegram2") /\ Due!Risposta) /\ SF_due_vars(In("telegram2") /\ Due!Inviata)
EquoIrc ==
  /\ WF_irc_vars(In("irc") /\ Irc!Giro) /\ SF_irc_vars(In("irc") /\ Irc!ServerReplica)
  /\ WF_irc_vars(In("irc") /\ Irc!Riparte)
  /\ \A t \in Irc!Target : WF_irc_vars(In("irc") /\ Irc!Invecchia(t))
EquoPrivati ==
  /\ WF_priv_vars(In("privati") /\ Priv!Giro) /\ SF_priv_vars(In("privati") /\ Priv!ServerReplica)
  /\ WF_priv_vars(In("privati") /\ Priv!Riparte)
  /\ \A t \in Priv!Target : WF_priv_vars(In("privati") /\ Priv!Invecchia(t))
EquoFatti ==
  /\ WF_fat_vars(In("fatti") /\ Fat!Passa) /\ WF_fat_vars(In("fatti") /\ Fat!Guarda("r1"))
  /\ WF_fat_vars(In("fatti") /\ \E b \in BOOLEAN : Fat!Scrive("r1", b))
  /\ SF_fat_vars(In("fatti") /\ ingest["r1"].fatto = "spam_wave" /\ Fat!Scrive("r1", TRUE))
EquoDm ==
  /\ WF_dm_vars(In("dm") /\ Dm!PollLegge) /\ WF_dm_vars(In("dm") /\ Dm!PollPrende)
  /\ WF_dm_vars(In("dm") /\ Dm!Matura) /\ WF_dm_vars(In("dm") /\ Dm!Prende)
  /\ \A m \in 1..2 : /\ WF_dm_vars(In("dm") /\ Dm!Operaio(m))
                     /\ \A f \in {"web", "poll"} : WF_dm_vars(In("dm") /\ Dm!Accoda(f, m))
EquoMemoria ==
  /\ WF_mem_vars(In("memoria") /\ Mem!Passo("t1")) /\ WF_mem_vars(In("memoria") /\ Mem!Sincronizza("t1"))
  /\ SF_mem_vars(In("memoria") /\ Mem!ImportaRiesce("t1"))
EquoPorta ==
  /\ WF_por_vars(In("porta") /\ Por!Tick)
  /\ \A j \in {"j1", "j2"} : WF_por_vars(In("porta") /\ (Por!ReserveConcessa(j) \/ Por!ReserveScaduta(j)))
EquoCoda == WF_cod_vars(In("coda") /\ Cod!Tick) /\ WF_cod_vars(In("coda") /\ Cod!Legge)

-----------------------------------------------------------------------------
\* A request ends: every assignment of a task (main.py), every chat completion
\* (cp/chat.py), every job queued for a browser (shared/web_node.py), every call of the
\* sandbox (cp/tool.py), whatever fails or falls silent on the other side.
RichiesteConcluse ==
  /\ In("task") /\ EquoTask => RichiestaFinisce
  /\ In("chat") /\ EquoChat => Cha!RispostaData
  /\ In("browser") /\ EquoBrowser => Bro!CompitoFinisce
  /\ In("sandbox") /\ EquoSandbox => San!ChiamataFinisce

\* What the control plane knows of the nodes becomes true again: a dead one is marked and
\* a live one active (cp/battito.py), a silent one is asked again (cp/metriche.py), the list of models
\* follows the aliases (cp/mesh.py).
MeshAggiornata ==
  /\ In("registro") /\ EquoRegistro => Reg!SpentoSegnato /\ Reg!NodoVivoUsabile
  /\ In("punteggi") /\ EquoPunteggi => Fle!NodoRiprovato
  /\ In("alias") /\ EquoAlias => Ali!ElencoSegueAlias

\* People in a room are served: an image asked for arrives and a chat that called the bot
\* is answered (telegram_bot.py), the driver is back in its channels and no batch of
\* messages waits for ever (irc_bot.py).
StanzeServite ==
  /\ In("telegram") /\ EquoTelegram => Foto!ImmagineArriva
  /\ In("telegram2") /\ EquoTelegram2 => Due!ChiamataRisposta
  /\ In("irc") /\ EquoIrc => Irc!EntraNeiCanali
  /\ In("privati") /\ EquoPrivati => Priv!MucchioSmaltito

\* Nothing stays in suspense: a wave of spam enters the memory (cp/canali.py), a queued
\* direct message is answered or handed to a person (cp/instagram.py).
NienteInSospeso ==
  /\ In("fatti") /\ EquoFatti => Fat!OndataRicordata
  /\ In("dm") /\ EquoDm => Dm!CodaConclusa

\* Queues empty: that of the memory once its peer is back (shared/memory_sync.py), that of
\* the images although no bridge works (shared/image_jobs.py).  The memory gate stays
\* shut for the chats for ever only under images that never end (shared/image_memory_gate.py).
CodeSmaltite ==
  /\ In("memoria") /\ EquoMemoria => Mem!CodaSiSvuota
  /\ In("coda") /\ EquoCoda => Cod!OgniJobFinisce
  /\ In("porta") /\ EquoPorta => Por!ChiusaSoloSeRichiesta
=============================================================================
