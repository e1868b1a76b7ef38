SPECIFICATION FairWalk
CONSTANTS
  Lines = 5
  Senders = 2
  First <- FirstOf
  Last <- LastOf
  PortTotal = 2
  IndexTotal = 3
INVARIANTS InStep OnlyAllowedOwn EachTargetOnce
PROPERTIES WalkEnds
