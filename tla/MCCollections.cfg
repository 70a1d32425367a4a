SPECIFICATION Spec
CONSTANTS
  Garbage = Garbage
  e1 = e1
  e2 = e2
  k1 = k1
  k2 = k2
  k3 = k3
INVARIANTS
  TypeOK
  IteratorsSeeAll
  HiveKeepsPacks
PROPERTIES
  ImplementsSequence
  ImplementsDictionary
CHECK_DEADLOCK FALSE
