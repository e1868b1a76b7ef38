SPECIFICATION Spec
CONSTANTS
  Base = 2
  Groups = 2
  GroupLen = 2
  Star = Star
  Zeros = Zeros
  HAMMING_THRESHOLD = 2
  SEED_MAX_CAPACITY = 3
  TARGET_MAX_CAPACITY = 5
  INITIAL_HASH_SIZE = 1
  SizeMod = 8
  MaxLines = 5
INVARIANTS SeedsCovered SetExact TargetsExact
PROPERTIES Ends
