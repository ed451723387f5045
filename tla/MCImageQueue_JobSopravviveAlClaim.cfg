SPECIFICATION Spec
CONSTANTS
  JobId = {j1, j2, j3}
  FamigliaDi <- DueFamiglie
  MaxJobs = 2
  Ttl = 2
  ClaimTtl = 1
  MaxStorico = 2
  DiscoFallibile = FALSE
PROPERTY JobSopravviveAlClaim
