SPECIFICATION SpecScena
CONSTANTS
  Richiesta = {r1, r2, r3}
  Motori = {"ollama", "vllm"}
  Seed = 1
  Minimo = 1
  Massimo = 2
  Quiete = 1
  Intervallo = 1
  MaxMemoria = 1
  Scene = {"nodo", "metriche", "metriche2", "proxy", "sandbox"}
  Modelli = {"a", "b"}
  Fonti = {"vllm", "ollama", "ds4"}
  Lettori = {"l"}
  ModelliDue = {"a"}
  FontiDue = {"vllm"}
  LettoriDue = {"l", "m"}
  ModelliNoti = TRUE
  Finestra = 2
  Ttl = 1
  MaxRighe = 3
  MaxGettoni = 2
  MaxOra = 3
  MaxRiavvii = 1
  Domanda = {"r"}
  Vie = {"nativo", "compat", "flusso", "webui"}
  MaxTick = 2
  Stantio = 1
  Strumento = {"unittest", "bandit"}
  Peso <- PesoDiProva
  MaxDiff = 3
  MaxUscita = 1
  MaxLista = 1
  MaxControlli = 2
  MaxScritture = 2
INVARIANTS
  Tipi
  NodoOrdinato
  NodiVeri
PROPERTIES
  PassiAmmessi
  RispostaSempre
CHECK_DEADLOCK FALSE
