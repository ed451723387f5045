SPECIFICATION SpecScena
CONSTANTS
  Task = {"t1"}
  Nodi = 3
  Rotta = {"r1", "r2"}
  MaxCandidati = 2
  MaxCreazioni = 2
  Scene = {"registro", "punteggi", "alias", "task", "chat", "browser", "sandbox", "fatti", "dm",
           "telegram", "telegram2", "irc", "privati", "memoria", "coda", "porta"}
INVARIANT TaskVeri
PROPERTIES
  RichiesteConcluse
  MeshAggiornata
  StanzeServite
  NienteInSospeso
  CodeSmaltite
CHECK_DEADLOCK FALSE
