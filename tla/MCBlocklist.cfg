SPECIFICATION Spec
CONSTANTS
  IpBits = 5
  MaxLen = 4
  LowBits = 1
  RadixBits = 2
  Entries <- AllNetworks
  MaxEntries = 4
INVARIANTS TreeCanonical IndexBijection ListAgreesWithIndexes
PROPERTIES TopColorShows
