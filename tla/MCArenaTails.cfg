SPECIFICATION Spec
CONSTANTS
  Capacity = 300
  Requests = {40, 56}
  MaxBlocks = 3
INVARIANT TailsHoldSizes
CHECK_DEADLOCK FALSE
