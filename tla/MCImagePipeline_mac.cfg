SPECIFICATION FairSpec
CONSTANTS
  JobId = {j1, j2}
  FamigliaDi <- FamiglieCheckpointDi
  MaxJobs = 2
  Ttl = 4
  ClaimTtl = 3
  MaxStorico = 2
  Chat = {c1}
  Lease = 2
  Ponte = {mac}
  Capaci <- CapaciDi
  FamiglieCheckpoint = {"sdxl-turbo", "sd15"}
  Esecuzione = 3
INVARIANT TypeOK
INVARIANT MemoriaRiservataEntroLease
PROPERTY RichiestaUnica
PROPERTY GateSiLibera
