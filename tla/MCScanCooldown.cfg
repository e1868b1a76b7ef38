SPECIFICATION Spec
CONSTANTS
  N = 2
  Targets <- OneEach
  Probes = 1
  NumRetries = 1
  MaxHosts <- NoLimit
  MaxPackets <- NoLimit
  MaxResults = 0
  MaxRuntime = 0
  Cooldown = 1
  Responses = 0
  MaxSendtoFailures <- NoAbort
  MinHitrate = FALSE
  Dryruns = {FALSE}
  WaitMonitor = TRUE
  StoresSwapped = TRUE
  Faults = FALSE
INVARIANTS CooldownHonoured
