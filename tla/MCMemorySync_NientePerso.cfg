SPECIFICATION Spec
CONSTANTS
  Voce = {v1, v2}
  Thread = {t1, t2}
  Rifiutate = {}
  DiscoFallibile = FALSE
INVARIANT NientePerso
