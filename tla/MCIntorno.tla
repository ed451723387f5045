----------------------------- MODULE MCIntorno -----------------------------
(***************************************************************************)
(* What surrounds the control plane: the gate of the image memory, the     *)
(* queue on a disk that fails, the local first memory and its mirror, the  *)
(* host control agent, the sandbox runner, the drivers, the dreams of the  *)
(* nodes, the other meshes (federation, bottles) and the social diary.     *)
(* As in MCControlPlane, a behaviour runs one of them, the scene.          *)
(***************************************************************************)
EXTENDS ImageMemoryGate

CONSTANT Scene

VARIABLES
  scena,
  job, storico, disco,                                              \* ImageQueue
  hermes, su, coda, monca, rotte, ids, rete, esito,                 \* MemorySync
  staccati, travolte,
  nomi, dati, scrive, date, taglio,                                 \* MemoryMirror
  arrivi, driver, chats, freno, comandi, foto,                      \* TelegramDriver
  chiamata, lavori, risultati, fresco, elenco, corrente, spazi, vm, \* CodeSandbox
  cambiato, letti, guasti,
  aperte, nate, inattive, oggetto, conto, filo,                     \* HostSessions
  stato, processo, chiede, mano, cadute,                            \* HostTunnel
  sogni, note, aperta, inVolo, ponte, gestione, interrotte,         \* DreamJournal
  revisioni, interruzioni,
  lista, cambio, inoltro, lavoro, chiesti, persi, gesti,            \* Federation
  accesi, cache, lettura, servita, adesso,                          \* FederationViews
  colpi, passate, domande, tassi, servite, bottiglie, annuncio,     \* BottleRelay
  giudizio,
  voci, archivio, salva, giro, conteggi, voluti, schizzi, consegna, \* SocialDiary
  attesa, scritte, accavallati, rotto, morti,
  ambiente, globali, usato, catalogo, dotenv, salvano, lucchetto,   \* SetupConfig
  salvato, insieme, riavviato, contenitore, salvataggi, ripartenze,
  configurato, ricarica, politica, attivi, esposti, falliti,        \* Connectors
  inPausa, diFila, servizi, usi, contesa, rifatti, usate,
  dove, peers, iscritti, giri, veri, spenti, vuoti,  \* PeerGossip
  messaggi, perVia, invia, daInviare, copia, salvate, scartate,     \* HermesRevisions
  gestori, richieste, giornata

-----------------------------------------------------------------------------
Cod == INSTANCE ImageQueue WITH
  FamigliaDi <- [j \in JobId |-> "qwen"], MaxJobs <- 1, Ttl <- 2, ClaimTtl <- 1,
  MaxStorico <- 2, DiscoFallibile <- TRUE

Mem == INSTANCE MemorySync WITH
  Voce <- {"v1", "v2", "v3"}, Thread <- {"t1"}, Rifiutate <- {"v3"}, DiscoFallibile <- TRUE,
  filo <- rete

\* two threads in the outbox
MemDue == INSTANCE MemorySync WITH
  Voce <- {"v1", "v2"}, Thread <- {"t1", "t2"}, Rifiutate <- {}, DiscoFallibile <- TRUE,
  filo <- rete

Mir == INSTANCE MemoryMirror WITH
  Voce <- 1..4, MaxVoci <- 2, Thread <- {"t1"}, Inode <- {"i1", "i2", "i3", "i4"}, filo <- scrive

Tel == INSTANCE TelegramDriver WITH
  Chat <- <<"a">>, Tipo <- {"testo", "guest", "immagine", "bot"}, Comando <- {"off"},
  MenzioneSola <- TRUE, MaxTurni <- 1, MaxContesto <- 1, MaxCoda <- 1, MaxComandi <- 1,
  Perdite <- TRUE

San == INSTANCE CodeSandbox WITH
  Richiesta <- {"r1", "r2"}, Azioni <- {"create", "replace", "discard"}, MaxSpazi <- 1,
  MaxCadute <- 1, cadute <- guasti

Ses == INSTANCE HostSessions WITH
  Richiesta <- {"r1", "r2"}, MaxSessioni <- 1, MaxAperture <- 2, MaxUscita <- 1, MaxComandi <- 1

Tun == INSTANCE HostTunnel WITH
  Richiesta <- {"r1", "r2"}, Pid <- {1, 2, 3}, MaxCadute <- 0, filo <- chiede

\* pushes about a note that arrive in the order of its reviews, and none lost
SogOrd == INSTANCE DreamJournal WITH
  Sogno <- {"d1"}, MaxRighe <- 2, MaxInVolo <- 2, MaxRevisioni <- 4, MaxCadute <- 1,
  Perdite <- FALSE, Ordine <- TRUE, Gesti <- {"quarantined", "revoked"},
  hermes <- ponte, cadute <- interruzioni

\* two dreams for one row, pushes lost and out of order
SogDue == INSTANCE DreamJournal WITH
  Sogno <- {"d1", "d2"}, MaxRighe <- 1, MaxInVolo <- 2, MaxRevisioni <- 4, MaxCadute <- 1,
  Perdite <- TRUE, Ordine <- FALSE, Gesti <- {"active"},
  hermes <- ponte, cadute <- interruzioni

Fed == INSTANCE Federation WITH
  CP <- {"a", "b", "c"}, Task <- {"t"}, Aperti <- {"a", "b"}, Capaci <- {"b", "c"}, MaxGesti <- 2

Vis == INSTANCE FederationViews WITH
  Peer <- {"p", "q"}, Nodo <- {"n1", "n2"}, Lettore <- {"l1", "l2"}, Ttl <- 1,
  Etichetta <- [locale |-> "locale", p |-> "x", q |-> "y"],
  Vede <- [locale |-> {"n1", "n2"}, p |-> {"n1"}, q |-> {"n1", "n2"}]

Bot == INSTANCE BottleRelay WITH
  Ip <- {"i", "j"}, Chiave <- {"k1"}, Mia <- "k0", Rotta <- {"publish", "list"},
  Finestra <- [publish |-> 2, list |-> 1], Massimo <- [publish |-> 1, list |-> 1],
  MaxChiavi <- 3, Ora <- 1, MaxOra <- 1, MaxIp <- 2, MaxBottiglie <- 1, MaxEta <- 0,
  Attesta <- TRUE, richiesta <- domande, esito <- giudizio

\* the dreams, with two pages and a crash
DiaSogni == INSTANCE SocialDiary WITH
  Voce <- {1, 2}, Loop <- {"sogno"}, MaxSogni <- 2, MaxSketch <- 1, MaxCadute <- 1,
  disco <- archivio, chiesti <- voluti, job <- schizzi, esito <- consegna, cadute <- morti

\* posts and poems, each in its loop
DiaPost == INSTANCE SocialDiary WITH
  Voce <- {1, 2}, Loop <- {"post", "poesia"}, MaxSogni <- 1, MaxSketch <- 1, MaxCadute <- 0,
  disco <- archivio, chiesti <- voluti, job <- schizzi, esito <- consegna, cadute <- morti

Imp == INSTANCE SetupConfig WITH
  Chiave <- {"u", "k"}, Inerti <- {}, Connettori <- {"k"}, Avanzate <- {"u"},
  Valore <- {1, 2}, Richiesta <- {"r1", "r2"}, MaxSalvataggi <- 2, MaxCadute <- 1,
  vivo <- globali, letto <- usato, file <- dotenv, filo <- salvano, cadute <- ripartenze

ImpDue == INSTANCE SetupConfig WITH
  Chiave <- {"f", "k"}, Inerti <- {"f"}, Connettori <- {"k"}, Avanzate <- {},
  Valore <- {1, 2}, Richiesta <- {"r1", "r2"}, MaxSalvataggi <- 2, MaxCadute <- 1,
  vivo <- globali, letto <- usato, file <- dotenv, filo <- salvano, cadute <- ripartenze

\* the operator lets two connectors write, gives one an account, changes that of another
\* and takes that of the third away
Con == INSTANCE Connectors WITH
  Chiamata <- {"x", "y"}, Connettore <- {"github", "google", "office365"}, Conto <- {"A", "B"}, Nessuno <- "-",
  Conf <- {"letta", "scritta"}, Soglia <- 2, Pausa <- 1, MaxSalvataggi <- 1, MaxChiamate <- 3,
  ContoDi <- [letta |-> [github |-> "-", google |-> "A", office365 |-> "A"],
              scritta |-> [github |-> "B", google |-> "B", office365 |-> "-"]],
  Scrive <- [letta |-> {"office365"}, scritta |-> {"github", "google"}],
  catalogo <- esposti, colpi <- falliti, pausa <- inPausa, fila <- diFila, chiamate <- usi,
  ambiente <- configurato, salvataggi <- rifatti, gara <- contesa, fatte <- usate

\* a node that comes back at another address, known at second hand
Vic == INSTANCE PeerGossip WITH
  Nodo <- {"a", "b", "d"}, Assidui <- {"a"}, Indirizzo <- {"ea", "eb", "ed", "ee"}, Spento <- "-",
  Semi <- [n \in {"a", "b", "d"} |-> CASE n = "b" -> {"ea"} [] n = "d" -> {"eb"} [] n = "a" -> {}],
  Posti <- [n \in {"a", "b", "d"} |-> CASE n = "a" -> {"ea"} [] n = "b" -> {"eb"}
                                      [] n = "d" -> {"ed", "ee"}],
  EtaMassima <- 0, Ttl <- 0, Puntuale <- TRUE, MaxCadute <- 1, MaxVuoti <- 0,
  guasti <- spenti, battito <- giri, registro <- iscritti

\* revisions of one entry, and two entries of which one tells no day
Rev == INSTANCE HermesRevisions WITH
  Voce <- {"a"}, SenzaData <- {}, Filo <- {"t", "u"}, Gesti <- {"active", "revoked"},
  MaxVersioni <- 2, MaxGesti <- 2, MaxGiorni <- 1,
  coda <- daInviare, inVolo <- perVia, filo <- gestori, gesti <- richieste, giorno <-
  giornata, db <- messaggi, mirror <- copia, scrittore <- invia

RevDue == INSTANCE HermesRevisions WITH
  Voce <- {"a", "b"}, SenzaData <- {"b"}, Filo <- {"t"}, Gesti <- {"quarantined", "revoked"},
  MaxVersioni <- 1, MaxGesti <- 1, MaxGiorni <- 2,
  coda <- daInviare, inVolo <- perVia, filo <- gestori, gesti <- richieste, giorno <-
  giornata, db <- messaggi, mirror <- copia, scrittore <- invia

ASSUME IpotesiDellaMemoria ==
  Mem!MemorySyncAssumption /\ MemDue!MemorySyncAssumption /\ Mir!MemoryMirrorAssumption
ASSUME IpotesiDelleReti == Fed!FederationAssumption /\ Tun!HostTunnelAssumption

-----------------------------------------------------------------------------
cod_vars == <<job, storico, disco>>
mem_vars == <<hermes, su, coda, monca, rotte, ids, rete, esito, staccati, travolte>>
mir_vars == <<nomi, dati, scrive, date, taglio>>
tel_vars == <<arrivi, driver, chats, freno, comandi, foto>>
san_vars == <<chiamata, lavori, risultati, fresco, elenco, corrente, spazi, vm, cambiato, letti,
              guasti>>
ses_vars == <<aperte, nate, inattive, oggetto, conto, filo>>
tun_vars == <<stato, processo, chiede, mano, cadute>>
sog_vars == <<sogni, note, aperta, inVolo, ponte, gestione, interrotte, revisioni, interruzioni>>
fed_vars == <<lista, cambio, inoltro, lavoro, chiesti, persi, gesti>>
vis_vars == <<accesi, cache, lettura, servita, adesso>>
bot_vars == <<colpi, passate, domande, tassi, servite, bottiglie, annuncio, giudizio>>
dia_vars == <<voci, archivio, salva, giro, conteggi, voluti, schizzi, consegna, attesa,
              scritte, accavallati, rotto, morti>>
imp_vars == <<ambiente, globali, usato, catalogo, dotenv, salvano, lucchetto, salvato, insieme,
  riavviato, contenitore, salvataggi, ripartenze>>
con_vars == <<configurato, ricarica, politica, attivi, esposti, falliti, inPausa, diFila, servizi,
  usi, contesa, rifatti, usate>>
vic_vars == <<dove, peers, iscritti, giri, veri, spenti, vuoti>>
rev_vars == <<messaggi, perVia, invia, daInviare, copia, salvate, scartate, gestori, richieste,
  giornata>>

InitScena ==
  /\ scena \in Scene
  /\ Init
  /\ IF scena = "coda" THEN Cod!Init ELSE job = 0 /\ storico = 0 /\ disco = 0
  /\ IF scena = "memoria" THEN Mem!Init ELSE IF scena = "memoria2" THEN MemDue!Init
     ELSE hermes = 0 /\ su = 0 /\ coda = 0 /\ monca = 0 /\ rotte = 0 /\ ids = 0 /\ rete = 0
          /\ esito = 0 /\ staccati = 0 /\ travolte = 0
  /\ IF scena = "mirror" THEN Mir!Init
     ELSE nomi = 0 /\ dati = 0 /\ scrive = 0 /\ date = 0 /\ taglio = 0
  /\ IF scena = "telegram" THEN Tel!Init
     ELSE arrivi = 0 /\ driver = 0 /\ chats = 0 /\ freno = 0 /\ comandi = 0 /\ foto = 0
  /\ IF scena = "sandbox" THEN San!Init
     ELSE chiamata = 0 /\ lavori = 0 /\ risultati = 0 /\ fresco = 0 /\ elenco = 0 /\ corrente = 0
          /\ spazi = 0 /\ vm = 0 /\ cambiato = 0 /\ letti = 0 /\ guasti = 0
  /\ IF scena = "sessioni" THEN Ses!Init
     ELSE aperte = 0 /\ nate = 0 /\ inattive = 0 /\ oggetto = 0 /\ conto = 0 /\ filo = 0
  /\ IF scena = "tunnel" THEN Tun!Init
     ELSE stato = 0 /\ processo = 0 /\ chiede = 0 /\ mano = 0 /\ cadute = 0
  /\ IF scena = "sogni" THEN SogOrd!Init ELSE IF scena = "sogni2" THEN SogDue!Init
     ELSE sogni = 0 /\ note = 0 /\ aperta = 0 /\ inVolo = 0 /\ ponte = 0 /\ gestione = 0
          /\ interrotte = 0 /\ revisioni = 0 /\ interruzioni = 0
  /\ IF scena = "federazione" THEN Fed!Init
     ELSE lista = 0 /\ cambio = 0 /\ inoltro = 0 /\ lavoro = 0 /\ chiesti = 0 /\ persi = 0
          /\ gesti = 0
  /\ IF scena = "viste" THEN Vis!Init
     ELSE accesi = 0 /\ cache = 0 /\ lettura = 0 /\ servita = 0 /\ adesso = 0
  /\ IF scena = "bottiglie" THEN Bot!Init
     ELSE colpi = 0 /\ passate = 0 /\ domande = 0 /\ tassi = 0 /\ servite = 0 /\ bottiglie = 0
          /\ annuncio = 0 /\ giudizio = 0
  /\ IF scena = "diario" THEN DiaSogni!Init ELSE IF scena = "diario2" THEN DiaPost!Init
     ELSE voci = 0 /\ archivio = 0 /\ salva = 0 /\ giro = 0 /\ conteggi = 0 /\ voluti = 0
          /\ schizzi = 0 /\ consegna = 0 /\ attesa = 0
          /\ scritte = 0 /\ accavallati = 0 /\ rotto = 0 /\ morti = 0
  /\ IF scena = "impostazioni" THEN Imp!Init ELSE IF scena = "impostazioni2" THEN ImpDue!Init
     ELSE ambiente = 0 /\ globali = 0 /\ usato = 0 /\ catalogo = 0 /\ dotenv = 0 /\ salvano = 0
          /\ lucchetto = 0 /\ salvato = 0 /\ insieme = 0 /\ riavviato = 0 /\ contenitore = 0 /\ salvataggi = 0
          /\ ripartenze = 0
  /\ IF scena = "connettori" THEN Con!Init /\ configurato = "letta"
     ELSE configurato = 0 /\ ricarica = 0 /\ politica = 0 /\ attivi = 0 /\ esposti = 0 /\ falliti = 0
          /\ inPausa = 0 /\ diFila = 0 /\ servizi = 0 /\ usi = 0 /\ contesa = 0 /\ rifatti = 0 /\ usate = 0
  /\ IF scena = "vicini" THEN Vic!Init
     ELSE dove = 0 /\ peers = 0 /\ iscritti = 0 /\ giri = 0 /\ veri = 0 /\ spenti = 0 /\ vuoti = 0
  /\ IF scena = "revisioni" THEN Rev!Init ELSE IF scena = "revisioni2" THEN RevDue!Init
     ELSE messaggi = 0 /\ perVia = 0 /\ invia = 0 /\ daInviare = 0 /\ copia = 0 /\ salvate = 0 /\ scartate = 0
          /\ gestori = 0 /\ richieste = 0 /\ giornata = 0

NextScena ==
  /\ UNCHANGED scena
  /\ IF scena = "gate" THEN Next ELSE UNCHANGED gvars
  /\ IF scena = "coda" THEN Cod!Next ELSE UNCHANGED cod_vars
  /\ IF scena = "memoria" THEN Mem!Next ELSE IF scena = "memoria2" THEN MemDue!Next ELSE UNCHANGED mem_vars
  /\ IF scena = "mirror" THEN Mir!Next ELSE UNCHANGED mir_vars
  /\ IF scena = "telegram" THEN Tel!Next ELSE UNCHANGED tel_vars
  /\ IF scena = "sandbox" THEN San!Next ELSE UNCHANGED san_vars
  /\ IF scena = "sessioni" THEN Ses!Next ELSE UNCHANGED ses_vars
  /\ IF scena = "tunnel" THEN Tun!Next ELSE UNCHANGED tun_vars
  /\ IF scena = "sogni" THEN SogOrd!Next ELSE IF scena = "sogni2" THEN SogDue!Next
     ELSE UNCHANGED sog_vars
  /\ IF scena = "federazione" THEN Fed!Next ELSE UNCHANGED fed_vars
  /\ IF scena = "viste" THEN Vis!Next ELSE UNCHANGED vis_vars
  /\ IF scena = "bottiglie" THEN Bot!Next ELSE UNCHANGED bot_vars
  /\ IF scena = "diario" THEN DiaSogni!Next ELSE IF scena = "diario2" THEN DiaPost!Next
     ELSE UNCHANGED dia_vars
  /\ IF scena = "impostazioni" THEN Imp!Next ELSE IF scena = "impostazioni2" THEN ImpDue!Next ELSE UNCHANGED imp_vars
  /\ IF scena = "connettori" THEN Con!Next ELSE UNCHANGED con_vars
  /\ IF scena = "vicini" THEN Vic!Next ELSE UNCHANGED vic_vars
  /\ IF scena = "revisioni" THEN Rev!Next ELSE IF scena = "revisioni2" THEN RevDue!Next ELSE UNCHANGED rev_vars

vars == <<scena, gvars, cod_vars, mem_vars, mir_vars, tel_vars, san_vars, ses_vars, tun_vars,
          sog_vars, fed_vars, vis_vars, bot_vars, dia_vars, imp_vars, con_vars, vic_vars,
          rev_vars>>

SpecScena == InitScena /\ [][NextScena]_vars

-----------------------------------------------------------------------------
\* The state of the component at work is well typed.
Tipi ==
  /\ TypeOK
  /\ scena = "coda" => Cod!TypeOK
  /\ scena = "memoria" => Mem!TypeOK
  /\ scena = "memoria2" => MemDue!TypeOK
  /\ scena = "mirror" => Mir!TypeOK
  /\ scena = "telegram" => Tel!TypeOK
  /\ scena = "sandbox" => San!TypeOK
  /\ scena = "sessioni" => Ses!TypeOK
  /\ scena = "tunnel" => Tun!TypeOK
  /\ scena = "sogni" => SogOrd!TypeOK
  /\ scena = "sogni2" => SogDue!TypeOK
  /\ scena = "federazione" => Fed!TypeOK
  /\ scena = "viste" => Vis!TypeOK
  /\ scena = "bottiglie" => Bot!TypeOK
  /\ scena = "diario" => DiaSogni!TypeOK
  /\ scena = "diario2" => DiaPost!TypeOK
  /\ scena = "impostazioni" => Imp!TypeOK
  /\ scena = "impostazioni2" => ImpDue!TypeOK
  /\ scena = "connettori" => Con!TypeOK
  /\ scena = "vicini" => Vic!TypeOK
  /\ scena = "revisioni" => Rev!TypeOK
  /\ scena = "revisioni2" => RevDue!TypeOK

\* What memory answers "ok" to survives the crash of its writer: in Hermes or in the
\* queue file (shared/memory_sync.py), but for the line that a flush of another thread
\* drops unread, the mirror whole and the union of what it was given
\* (shared/memory_sync.py), and the bridge keeps each revision once
\* (scripts/hermes_memory_bridge.py).
MemoriaIntera ==
  /\ scena = "memoria" => Mem!NientePerso /\ Mem!CacheCoerente
  /\ scena = "memoria2" => MemDue!PersoSoloTravolto
  /\ scena = "mirror" => Mir!MaiUnMezzo /\ Mir!MirrorUnione
  /\ scena = "revisioni" => Rev!RevisioneUnica /\ Rev!SalvateTutte
  /\ scena = "revisioni2" => RevDue!RevisioneUnica /\ RevDue!SalvateTutte

\* Ceilings hold: the jobs of a queue whose disk fails (shared/image_jobs.py), the
\* workspaces of the sandbox (sandbox/runner.py), the shells of the host but for the
\* requests that check together (shared/shell_sessions.py), one tunnel (hostctl/agent.py),
\* the calls of an address (federation-gateway/main.py), the pages and the sketches of a day
\* but for crashes and overlapping saves (main.py, shared/sketch.py), what the connectors
\* may write and when they are left alone (connectors/manager.py).
EntroTetto ==
  /\ scena = "coda" => Cod!AttiviEntroTetto
  /\ scena = "sandbox" => San!SpaziEntroLimite
  /\ scena = "sessioni" => Ses!TettoConGara
  /\ scena = "tunnel" => Tun!AvvioUnico
  /\ scena = "bottiglie" => Bot!PassateNeiLimiti /\ Bot!RifiutoMeritato
  /\ scena = "diario" => DiaSogni!NelGiorno /\ DiaSogni!SketchEntroTetto
  /\ scena = "diario2" => DiaPost!NelGiorno /\ DiaPost!SketchEntroTetto
  /\ scena = "connettori" => Con!EffettoUnico /\ Con!ScritturaAmmessa /\ Con!PausaMeritata

\* What was done is recorded as it was done: the history of the queue
\* (shared/image_jobs.py), the jobs of the sandbox (sandbox/runner.py), the images
\* Telegram got (telegram_bot.py), a task that a peer executed and the views of the peers
\* (cp/federazione.py), the pages of the diary and their sketches (shared/diario.py), the
\* settings that were saved and the connectors made from them (main.py), the addresses of
\* the peers (node/main.py).
FattoERegistrato ==
  /\ scena = "coda" => Cod!StoricoFedele
  /\ scena = "sandbox" => San!FattoUnaVolta
  /\ scena = "telegram" => Tel!ConfermataSeInviata
  /\ scena = "federazione" => Fed!UnSoloSalto /\ Fed!DoppioneSpiegato
  /\ scena = "viste" => Vis!VistaRecente /\ Vis!ParzialiVeri
  /\ scena = "diario" => DiaSogni!PaginaConFile
  /\ scena = "diario2" => DiaPost!PaginaConFile
  /\ scena = "impostazioni" => Imp!SalvatoVale /\ Imp!CatalogoAggiornato
  /\ scena = "impostazioni2" => ImpDue!SalvatoVale /\ ImpDue!CatalogoAggiornato
  /\ scena = "connettori" => Con!CatalogoVero
  /\ scena = "vicini" => Vic!IndirizziVeri

\* A note that was revoked is hidden once its pushes have arrived in order, and an active
\* one belongs to a promoted dream (node/dreaming.py).
SogniRivisti ==
  /\ scena = "sogni" => SogOrd!RevocataNascosta
  /\ scena = "sogni2" => SogDue!AttivaSePromosso

\* A call of the sandbox that gave up before its job was read has no effect afterwards
\* (cp/tool.py, sandbox/runner.py), a peer the operator removed comes back only when it is
\* paired again (cp/federazione.py), and only the bottle of the node itself goes over the
\* ceiling of the relay (cp/bottles.py).
PassiIntorno ==
  [][/\ scena = "sandbox" => San!PassoSenzaEffetto
     /\ scena = "federazione" => Fed!PassoRimosso
     /\ scena = "bottiglie" => Bot!PassoOltre
     /\ scena = "revisioni" => Rev!PassoRevocata
     /\ scena = "revisioni2" => RevDue!PassoRevocata]_vars
=============================================================================
