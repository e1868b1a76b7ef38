SPECIFICATION Spec
CONSTANTS
  N = 2
  Targets <- TwoAndOne
  Probes = 2
  NumRetries = 1
  MaxHosts <- OneEach
  MaxPackets <- TwoAndOne
  MaxResults = 1
  MaxRuntime = 1
  Cooldown = 0
  Responses = 2
  MaxSendtoFailures = 0
  MinHitrate = TRUE
  Dryruns = {FALSE}
  WaitMonitor = TRUE
  StoresSwapped = TRUE
  Faults = TRUE
INVARIANTS IInv
