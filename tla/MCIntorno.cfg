SPECIFICATION SpecScena
CONSTANTS
  JobId = {"j1", "j2"}
  Chat = {"c1", "c2"}
  Lease = 3
  Scene = {"gate", "coda", "memoria", "memoria2", "mirror", "telegram", "sandbox", "sessioni", "tunnel",
           "sogni", "sogni2", "federazione", "viste", "bottiglie", "diario", "diario2",
           "impostazioni", "impostazioni2", "connettori", "vicini", "revisioni", "revisioni2"}
INVARIANTS
  Tipi
  PrenotazioneEsclude
  MemoriaIntera
  EntroTetto
  FattoERegistrato
  SogniRivisti
PROPERTIES
  PrenotazioneResta
  PassiIntorno
CHECK_DEADLOCK FALSE
