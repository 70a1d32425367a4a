SPECIFICATION AllSpec
CONSTANTS
  Capacity = 300
  Requests = {8, 40, 100}
  MaxBlocks = 3
  Memory = {0, 3}
  LinearCapacity = 91
  LinearRequests = {0, 3, 8, 11}
  Count = 4
  ListEnd = 99
  Fill = {0, 2, 50, 99}
  PageCount = 11
  PagesAtATime = 2
INVARIANTS
  AllTypeOK
  WellFormed
  Restored
  PagesApart
PROPERTY ImplementsHeap
CHECK_DEADLOCK FALSE
