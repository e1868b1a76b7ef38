SPECIFICATION Spec
CONSTANTS
  r1 = r1
  r2 = r2
  Configs <- MCConfigs
  Routers = {r1, r2}
  TtlMod = 4
  CountMod = 8
  Ratio = 2
  MAXNULLREADS = 2
  SHUTDOWN_WAIT = 4
INVARIANTS  TracesFollow NeighborhoodLearned QuietShutdown
