SPECIFICATION Spec
CONSTANTS
  JobId = {j1, j2, j3}
  FamigliaDi <- DueFamiglie
  MaxJobs = 2
  Ttl = 3
  ClaimTtl = 2
  MaxStorico = 2
  DiscoFallibile = FALSE
INVARIANT TypeOK
INVARIANT AttiviEntroTetto
INVARIANT StoricoFedele
PROPERTY ImplementaCiclo
PROPERTY ConsegnaRicordata
PROPERTY ClaimVivoResta
