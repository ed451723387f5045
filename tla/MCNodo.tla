------------------------------- MODULE MCNodo -------------------------------
(***************************************************************************)
(* A node and the programs around it that share no state: the slots of the *)
(* node, its telemetry, the runner of its code sandbox.  As in             *)
(* MCControlPlane, a behaviour runs one of them, the scene.                *)
(***************************************************************************)
EXTENDS NodeSlots

CONSTANTS
  Scene,
  Modelli, Fonti, Lettori, ModelliDue, FontiDue, LettoriDue,            \* NodeMetrics, twice
  ModelliNoti, Finestra, Ttl, MaxRighe, MaxGettoni, MaxOra, MaxRiavvii,
  Domanda, Vie, MaxTick, Stantio,                                       \* ProxyInteractions
  Strumento, Peso, MaxDiff, MaxUscita, MaxLista, MaxControlli, MaxScritture \* SandboxRuns

PesoDiProva == <<4, 1>>

VARIABLES
  scena,
  server, acceso, conta, prodotti, registro, raccolta, tassi,       \* NodeMetrics
  cache, ora, riavvii,
  passi, risposta, completati, telemetria, negate, inviati, tick,   \* ProxyInteractions
  ultimo, vivi,
  repo, piano, corsa, esiti, verdetto, fuori, scritte               \* SandboxRuns

-----------------------------------------------------------------------------
Met(Modello, Motore, Lettore) ==
  INSTANCE NodeMetrics WITH motore <- server, su <- acceso, righe <- registro
Quantili == INSTANCE NodeMetrics WITH   \* a function of no state, whatever the models
  Modello <- Modelli, Motore <- Fonti, Lettore <- Lettori,
  motore <- server, su <- acceso, righe <- registro
Pro == INSTANCE ProxyInteractions
San == INSTANCE SandboxRuns

ASSUME IpotesiMetriche == Met(Modelli, Fonti, Lettori)!NodeMetricsAssumption
ASSUME IpotesiProxy == Pro!ProxyInteractionsAssumption
ASSUME IpotesiSandbox == San!SandboxRunsAssumption

-----------------------------------------------------------------------------
met_vars == <<server, acceso, conta, prodotti, registro, raccolta, tassi, cache, ora, riavvii>>
pro_vars == <<passi, risposta, completati, telemetria, negate, inviati, tick, ultimo, vivi>>
san_vars == <<repo, piano, corsa, esiti, verdetto, fuori, scritte>>

\* the slots of the node rest in their initial state
InitScena ==
  /\ scena \in Scene
  /\ Init /\ (scena # "nodo" => motore = "ollama")
  /\ IF scena = "metriche" THEN Met(Modelli, Fonti, Lettori)!Init
     ELSE IF scena = "metriche2" THEN Met(ModelliDue, FontiDue, LettoriDue)!Init
     ELSE server = 0 /\ acceso = 0 /\ conta = 0 /\ prodotti = 0 /\ registro = 0 /\ raccolta = 0
          /\ tassi = 0 /\ cache = 0 /\ ora = 0 /\ riavvii = 0
  /\ IF scena = "proxy" THEN Pro!Init
     ELSE passi = 0 /\ risposta = 0 /\ completati = 0 /\ telemetria = 0 /\ negate = 0 /\ inviati = 0
          /\ tick = 0 /\ ultimo = 0 /\ vivi = 0
  /\ IF scena = "sandbox" THEN San!Init
     ELSE repo = 0 /\ piano = 0 /\ corsa = 0 /\ esiti = 0 /\ verdetto = 0 /\ fuori = 0 /\ scritte = 0

NextScena ==
  /\ UNCHANGED scena
  /\ IF scena = "nodo" THEN Next ELSE UNCHANGED vars
  /\ IF scena = "metriche" THEN Met(Modelli, Fonti, Lettori)!Next
     ELSE IF scena = "metriche2" THEN Met(ModelliDue, FontiDue, LettoriDue)!Next
     ELSE UNCHANGED met_vars
  /\ IF scena = "proxy" THEN Pro!Next ELSE UNCHANGED pro_vars
  /\ IF scena = "sandbox" THEN San!Next ELSE UNCHANGED san_vars

nodo_vars == <<scena, vars, met_vars, pro_vars, san_vars>>

\* the fairness of NodeSlots
SpecScena ==
  /\ InitScena /\ [][NextScena]_nodo_vars
  /\ \A r \in Richiesta : WF_vars(Passo(r)) /\ WF_vars(Scade(r))
  /\ WF_vars(ApplicaQosDopo) /\ WF_vars(SognoRilasciaDopo)

-----------------------------------------------------------------------------
\* The state of the component at work is well typed.
Tipi ==
  /\ TypeOK
  /\ scena = "metriche" => Met(Modelli, Fonti, Lettori)!TypeOK
  /\ scena = "metriche2" => Met(ModelliDue, FontiDue, LettoriDue)!TypeOK
  /\ scena = "proxy" => Pro!TypeOK
  /\ scena = "sandbox" => San!TypeOK

\* What a node says of itself is so: its payload is empty only when its sources fail, and
\* rates and quantiles are never above the true ones (node/backend_metrics.py); an answer is
\* generated and logged once, and only live generations are shown as such
\* (node/ollama_proxy.py); a plan of checks passes only on files without a fault, and what is
\* cut says so (sandbox/runner.py).
NodiVeri ==
  /\ scena = "metriche" => Met(Modelli, Fonti, Lettori)!VuotaSpiegata
                           /\ Met(Modelli, Fonti, Lettori)!TassoNonGonfiato
                           /\ Quantili!QuantiliOrdinati
  /\ scena = "metriche2" => Met(ModelliDue, FontiDue, LettoriDue)!VuotaSpiegata
                            /\ Met(ModelliDue, FontiDue, LettoriDue)!TassoNonGonfiato
  /\ scena = "proxy" => Pro!RispostaInTelemetria /\ Pro!DoppioSpiegato /\ Pro!VivoSpiegato
                        /\ Pro!NomeDelTool
  /\ scena = "sandbox" => San!PassaSoloBuono /\ San!CorsaIntera /\ San!InteraSeNonTagliata
=============================================================================
