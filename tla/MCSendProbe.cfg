SPECIFICATION Spec
CONSTANTS
  None = None
  SourceIp = SourceIp
  s1 = s1
  s2 = s2
  Senders = {s1, s2}
  Configs <- MCConfigs
  Share <- MCShare
  Questions = {0, 1}
  AddrBits = 6
  PrefixLen = 4
  ByteLen = 3
  FillBytes = 1
  SetArg <- MCSetArg
  NumPorts = 5
  WordMod = 16
  Word <- MCWord
  Cells = {1, 2, 3, 4}
INVARIANTS OwnLabel AddressShape AnswersAccepted
CHECK_DEADLOCK FALSE
