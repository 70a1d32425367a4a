CONSTANT Registration <- MCRegistration
SPECIFICATION Spec
INVARIANTS
  TypeOK
  NotDoubled
  MasksTrackHandlers
PROPERTIES
  RequestsReachHandlers
  RequestsServed
