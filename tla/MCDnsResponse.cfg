SPECIFICATION Spec
CONSTANTS
  Byte = 4
  PtrByte = 2
  PtrMod = 2
  UdpHeader = 2
  QTail = 1
  ATail = 2
  TypeOf <- MCTypeOf
  LenA = 1
  LenAAAA = 2
  LenMX = 1
  PrefMX = 1
  MAX_LABEL_RECURSION = 2
  MAX_NAME_LENGTH = 5
  Domains <- MCDomains
  Headers <- MCHeaders
  MaxUdpLen = 14
  MaxRest = 7
  Dot = Dot
INVARIANTS InBounds NameExact Tiling
PROPERTIES Ends
