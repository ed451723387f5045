SPECIFICATION Spec
CONSTANTS
  JobId = {j1, j2}
  FamigliaDi <- FamiglieCheckpointDi
  MaxJobs = 2
  Ttl = 4
  ClaimTtl = 3
  MaxStorico = 2
  Chat = {}
  Lease = 3
  Ponte = {mac, win}
  Capaci <- CapaciDi
  FamiglieCheckpoint = {"sdxl-turbo", "sd15"}
  Esecuzione = 2
INVARIANT NessunDoppioRender
INVARIANT EffettiUnaVolta
