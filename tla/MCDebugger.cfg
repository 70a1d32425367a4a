SPECIFICATION Spec
CONSTANTS
  Follows <- MCFollows
  Length <- MCLength
  Calls = {2}
  Settable = {1, 2, 5}
  MaxBreakpoints = 4
INVARIANTS
  TypeOK
  ConnectsOnId
  BytesRecoverable
  TracesOnlyWhenAsked
  RunsInOrder
CHECK_DEADLOCK FALSE
