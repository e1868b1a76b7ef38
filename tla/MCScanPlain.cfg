SPECIFICATION FairSpec
CONSTANTS
  N = 2
  Targets <- TwoAndOne
  Probes = 1
  NumRetries = 1
  MaxHosts <- NoLimit
  MaxPackets <- NoLimit
  MaxResults = 0
  MaxRuntime = 0
  Cooldown = 1
  Responses = 0
  MaxSendtoFailures <- NoAbort
  MinHitrate = FALSE
  Dryruns = {FALSE, TRUE}
  WaitMonitor = TRUE
  StoresSwapped = FALSE
  Faults = FALSE
INVARIANTS CooldownHonoured TotalsExact EveryTargetProbed MonitorOver
PROPERTIES CompleteIsFinal ScanEnds
