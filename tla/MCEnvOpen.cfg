SPECIFICATION Spec
CONSTANTS
  p = p
  q = q
  r = r
  None = None
  Abandoned = Abandoned
  Procs = {p, q, r}
  RDONLY = {r}
  Fails = TRUE
  MaxDeaths = 1
  MaxTxn = 2
INVARIANT NothingLost
PROPERTIES ImplementsSharedEnv OpenEnds
