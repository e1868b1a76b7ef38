SPECIFICATION RedisSpec
CONSTANTS
  BUFFER_SIZE = 3
  MaxResults = 8
  MaxFaults = 3
INVARIANTS OverflowAfterFailure ListSound
PROPERTIES Ends
CHECK_DEADLOCK FALSE
