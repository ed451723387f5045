---------------------------- MODULE ControlPlane ----------------------------
(***************************************************************************)
(* Parts of the control plane (src/control-plane/) that share no state,    *)
(* side by side: the registry of the mesh and its heartbeat (MeshRegistry),*)
(* the names of the nodes (NodeAliases), their scores (FleetScores), the   *)
(* browser nodes (WebNode), a chat request (ChatCompletion), the guard of  *)
(* a room and its facts (ChannelGuard, ChannelFacts), the direct messages  *)
(* of a contact (InstagramDm) and what is remembered of them               *)
(* (InstagramTurns), the tools (ToolServer) and the Forge (ForgeSkills),   *)
(* that of the operator and that of the bundle.                            *)
(*                                                                         *)
(* In a behaviour one of them is at work, the scene, and the others rest.  *)
(* A constant or a variable has its part's name unless two parts would     *)
(* share it.  ControlPlane_proofs proves the properties below;             *)
(* MCControlPlane adds the other two parts and checks them all.            *)
(***************************************************************************)
EXTENDS Integers

CONSTANTS
  Scene,                                              \* the parts a behaviour may run
  Nodo, Endpoint, Sicuri, Fissi, Sede, Scheda, Annuncio, Operatore,  \* MeshRegistry
  GuastiDb,                                           \* (Nodo: ChatCompletion too)
  Alias, Richiesta,                                   \* NodeAliases (and ChannelFacts)
  Candidato, Vram, Campione, MaxAttesa, MaxEsponente, Memoria,       \* FleetScores
  MaxNodi, MaxCoda, MaxCompiti, MaxRiavvii,           \* WebNode (and InstagramDm)
  Autore, Frase, Vietati, MaxAutori, Storia, Decadimento,            \* ChannelGuard
  Soglie, BandoMassimo, FinestraMassima,
  SogliaOnda, Finestra,                               \* ChannelFacts
  MaxGiri,                                            \* ChatCompletion
  MaxMessaggi, Soglia, MaxTentativi, Webhook,         \* InstagramDm
  Squadra, Compatta, Freschi, MaxTurni, MaxDetti, MaxAzzerati, MaxGuasti, \* InstagramTurns
  Configurazione, MaxVoci, MaxChiamate, MaxRicadute,  \* ToolServer
  Artefatti, Bundle, Sorgente, Valide, MaxVersioni, MaxAMano, MaxFermate \* ForgeSkills

VARIABLES
  scena,
  nodi, noti, battito, annunci, elimina, corsa,                          \* MeshRegistry
  tabella, mappa, richiesta, elenco, aggrega,                            \* NodeAliases
  campioni, guasti, attesa, raccolta, cache, lettore, pick, letti, rete, \* FleetScores
  web, muti, code, inVolo, compiti, scaduti, attese, schede, consegne,   \* WebNode
  mesh, sentiti, conta,
  autori, tracciati, esito, colpi, dopo, soglie,                         \* ChannelGuard
  spam, visto, ricordo, chiamate,                                        \* ChannelFacts
  conv, visti, posta, entrata, persona, coda, disco, operai, chiesto,    \* InstagramDm
  contati, riavvii,
  modo, fase, scelti, resto, giro, task, risposta, fonti, proposti, via, \* ChatCompletion
  contatto, file, lavora, detti, zero, lasciati, misto, smarrito,        \* InstagramTurns
  azzerati, falliti,
  ambiente, invocate, memoria, sovrapposte, ricadute,                    \* ToolServer
  scheda, copia, mano, importa, approvata, versioni, allegata,           \* ForgeSkills
  spaiate, aMano, fermate

-----------------------------------------------------------------------------
Reg == INSTANCE MeshRegistry WITH Guasti <- GuastiDb
Ali == INSTANCE NodeAliases WITH giro <- aggrega
Fle == INSTANCE FleetScores WITH Nodo <- Candidato, scelti <- pick
Bro == INSTANCE WebNode WITH nodi <- web
Gua == INSTANCE ChannelGuard
Fat == INSTANCE ChannelFacts WITH
  Soglia <- SogliaOnda, riga <- ricordo, richiesta <- chiamate
Dm == INSTANCE InstagramDm
Cha == INSTANCE ChatCompletion
Tur == INSTANCE InstagramTurns WITH
  Operaio <- Squadra, Recenti <- Freschi, riga <- contatto, guasti <- falliti
Too == INSTANCE ToolServer WITH
  MaxCadute <- MaxRicadute, conf <- ambiente, cadute <- ricadute, chiamate <- invocate

\* what the operator and the model write, and what comes with the bundle
Forge(Propri, Ecc) == INSTANCE ForgeSkills WITH
  MaxCadute <- MaxFermate, data <- approvata, visti <- versioni, cadute <- fermate

ASSUME IpotesiMesh == Reg!MeshRegistryAssumption /\ Ali!NodeAliasesAssumption
ASSUME IpotesiCanale == Gua!ChannelGuardAssumption /\ Fat!ChannelFactsAssumption
ASSUME IpotesiBrowser == Bro!WebNodeAssumption
ASSUME IpotesiDm == Dm!InstagramDmAssumption /\ Tur!InstagramTurnsAssumption
ASSUME IpotesiChat == Cha!ChatCompletionAssumption /\ Too!ToolServerAssumption
ASSUME IpotesiForge == Forge(Artefatti, Bundle)!ForgeSkillsAssumption

-----------------------------------------------------------------------------
reg_vars == <<nodi, noti, battito, annunci, elimina, corsa>>
ali_vars == <<tabella, mappa, richiesta, elenco, aggrega>>
fle_vars == <<campioni, guasti, attesa, raccolta, cache, lettore, pick, letti, rete>>
web_vars == <<web, muti, code, inVolo, compiti, scaduti, attese, schede, consegne, mesh,
              sentiti, conta>>
gua_vars == <<autori, tracciati, esito, colpi, dopo, soglie>>
fat_vars == <<spam, visto, ricordo, chiamate>>
dm_vars == <<conv, visti, posta, entrata, persona, coda, disco, operai, chiesto, contati,
             riavvii>>
chat_vars == <<modo, fase, scelti, resto, giro, task, risposta, fonti, proposti, via>>
tur_vars == <<contatto, file, lavora, detti, zero, lasciati, misto, smarrito, azzerati, falliti>>
too_vars == <<ambiente, invocate, memoria, sovrapposte, ricadute>>
for_vars == <<scheda, copia, mano, importa, approvata, versioni, allegata, spaiate, aMano,
              fermate>>

\* a part that rests has no state
InitParti ==
  /\ scena \in Scene
  /\ IF scena = "registro" THEN Reg!Init
     ELSE nodi = 0 /\ noti = 0 /\ battito = 0 /\ annunci = 0 /\ elimina = 0 /\ corsa = 0
  /\ IF scena = "alias" THEN Ali!Init
     ELSE tabella = 0 /\ mappa = 0 /\ richiesta = 0 /\ elenco = 0 /\ aggrega = 0
  /\ IF scena = "punteggi" THEN Fle!Init
     ELSE campioni = 0 /\ guasti = 0 /\ attesa = 0 /\ raccolta = 0 /\ cache = 0
          /\ lettore = 0 /\ pick = 0 /\ letti = 0 /\ rete = 0
  /\ IF scena = "browser" THEN Bro!Init
     ELSE web = 0 /\ muti = 0 /\ code = 0 /\ inVolo = 0 /\ compiti = 0 /\ scaduti = 0
          /\ attese = 0 /\ schede = 0 /\ consegne = 0 /\ mesh = 0 /\ sentiti = 0
          /\ conta = 0
  /\ IF scena = "guardia" THEN Gua!Init
     ELSE autori = 0 /\ tracciati = 0 /\ esito = 0 /\ colpi = 0 /\ dopo = 0 /\ soglie = 0
  /\ IF scena = "fatti" THEN Fat!Init
     ELSE spam = 0 /\ visto = 0 /\ ricordo = 0 /\ chiamate = 0
  /\ IF scena \in {"dm", "poll"} THEN Dm!Init
     ELSE conv = 0 /\ visti = 0 /\ posta = 0 /\ entrata = 0 /\ persona = 0 /\ coda = 0
          /\ disco = 0 /\ operai = 0 /\ chiesto = 0 /\ contati = 0 /\ riavvii = 0
  /\ IF scena = "chat" THEN Cha!Init
     ELSE modo = 0 /\ fase = 0 /\ scelti = 0 /\ resto = 0 /\ giro = 0 /\ task = 0
          /\ risposta = 0 /\ fonti = 0 /\ proposti = 0 /\ via = 0
  /\ IF scena = "turni" THEN Tur!Init
     ELSE contatto = 0 /\ file = 0 /\ lavora = 0 /\ detti = 0 /\ zero = 0 /\ lasciati = 0
          /\ misto = 0 /\ smarrito = 0 /\ azzerati = 0 /\ falliti = 0
  /\ IF scena = "tool" THEN Too!Init
     ELSE ambiente = 0 /\ invocate = 0 /\ memoria = 0 /\ sovrapposte = 0 /\ ricadute = 0
  /\ IF scena = "forge" THEN Forge(Artefatti, {})!Init
     ELSE IF scena = "ecc" THEN Forge({}, Bundle)!Init
     ELSE scheda = 0 /\ copia = 0 /\ mano = 0 /\ importa = 0 /\ approvata = 0 /\ versioni = 0
          /\ allegata = 0 /\ spaiate = 0 /\ aMano = 0 /\ fermate = 0

NextParti ==
  /\ UNCHANGED scena
  /\ IF scena = "registro" THEN Reg!Next ELSE UNCHANGED reg_vars
  /\ IF scena = "alias" THEN Ali!Next ELSE UNCHANGED ali_vars
  /\ IF scena = "punteggi" THEN Fle!Next ELSE UNCHANGED fle_vars
  /\ IF scena = "browser" THEN Bro!Next ELSE UNCHANGED web_vars
  /\ IF scena = "guardia" THEN Gua!Next ELSE UNCHANGED gua_vars
  /\ IF scena = "fatti" THEN Fat!Next ELSE UNCHANGED fat_vars
  /\ IF scena \in {"dm", "poll"} THEN Dm!Next ELSE UNCHANGED dm_vars
  /\ IF scena = "chat" THEN Cha!Next ELSE UNCHANGED chat_vars
  /\ IF scena = "turni" THEN Tur!Next ELSE UNCHANGED tur_vars
  /\ IF scena = "tool" THEN Too!Next ELSE UNCHANGED too_vars
  /\ IF scena = "forge" THEN Forge(Artefatti, {})!Next
     ELSE IF scena = "ecc" THEN Forge({}, Bundle)!Next
     ELSE UNCHANGED for_vars

parti_vars == <<scena, reg_vars, ali_vars, fle_vars, web_vars, gua_vars, fat_vars, dm_vars,
                chat_vars, tur_vars, too_vars, for_vars>>

SpecParti == InitParti /\ [][NextParti]_parti_vars

-----------------------------------------------------------------------------
\* What the mesh believes of its nodes agrees: the heartbeat polls every node of the
\* registry that no removal has raced with (cp/mesh.py, cp/battito.py), an alias names one
\* node in the table (cp/mesh.py), the cached metrics are what the collector last measured
\* (cp/metriche.py).
MeshCoerente ==
  /\ scena = "registro" => Reg!NodoSondato
  /\ scena = "alias" => Ali!AliasUnivoco
  /\ scena = "punteggi" => Fle!CacheRiflette

\* A job given to a browser node is served once, and can be
\* cancelled exactly as long as the registry keeps it (shared/web_node.py).
BrowserUnaVolta ==
  scena = "browser" => Bro!ServitoUnaVolta /\ Bro!Annullabili

\* A channel punishes who relapses as often as its thresholds say and nobody else
\* (shared/channel.py), and remembers one wave of spam in one line however many messages
\* make it (cp/canali.py).
CanaleGiusto ==
  /\ scena = "guardia" => Gua!PunitoSoloRecidivo /\ Gua!RecidivoFermato
  /\ scena = "fatti" => Fat!UnaRigaPerFinestra

\* A skill is given to a chat as it was approved, the IDE shows the source of the record, and
\* a version has one source (cp/forge.py).
ForgeFedele ==
  /\ scena = "forge" => Forge(Artefatti, {})!SoloApprovate /\ Forge(Artefatti, {})!CopiaFedele
                        /\ Forge(Artefatti, {})!VersioneUnica
  /\ scena = "ecc" => Forge({}, Bundle)!SoloApprovate /\ Forge({}, Bundle)!CopiaFedele
                      /\ Forge({}, Bundle)!VersioneUnica

\* The outcome of a chat completion is the one the caller saw, and its text comes from
\* one node alone (cp/chat.py); a tool runs for who may call it, and does what it says
\* (cp/tool.py, shared/mcp_auth.py); a skill is given to it as it was approved (cp/forge.py).
ChatVera ==
  /\ scena = "chat" => Cha!EsitoVero /\ Cha!UnaSolaFonte
  /\ scena = "tool" => Too!EffettoDovuto /\ Too!ListaEsatta /\ Too!StessaRisposta
                       /\ Too!VoceSpiegata /\ Too!ComandoTracciato /\ Too!NotaTenuta
                       /\ Too!SoloPertinenti
  /\ ForgeFedele

\* A direct message on Instagram is counted once and answered once, while no
\* restart interrupts a later one (cp/instagram.py, shared/instagram_outbox.py); its turn is
\* remembered, once and in order, until the memory is cleared (shared/instagram_memory.py);
\* one drawing at most is made of it.
DmUnaVolta ==
  /\ scena = "dm" => Dm!UnaRispostaSola /\ Dm!ContatoUnaVolta
  /\ scena = "turni" => Tur!NullaDimenticato /\ Tur!TurniInOrdine /\ Tur!AzzerataResta
                        /\ Tur!UnDisegno

\* No step of a thread that has not been overtaken gives up an https address for a plain
\* one, and none changes an alias in the table and not in the memory it is read from
\* (cp/mesh.py).
PassiMesh ==
  [][/\ scena = "registro" => Reg!PassoSicuro
     /\ scena = "alias" => Ali!PassoAllineato]_parti_vars

\* No step takes the slot of a browser node from a job it still serves
\* (shared/web_node.py), lets an answer leave on Instagram while a later message waits for
\* its own (cp/instagram.py), or imports over an artifact that is there (cp/forge.py).
PassiServiti ==
  [][/\ scena = "browser" => Bro!SlotTenuto
     /\ scena = "dm" => Dm!ParteAttuale
     /\ scena = "ecc" => Forge({}, Bundle)!PassoImporta]_parti_vars

\* "An interrupted send may already have reached Meta. Never retry blind."
\* (shared/instagram_outbox.py): no message is answered twice.
UnaRisposta == scena = "poll" => Dm!UnaRisposta
=============================================================================
