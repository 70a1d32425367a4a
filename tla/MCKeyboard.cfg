CONSTANTS
  ScanCode = {224, 30, 42, 170}
  Size = 3
  MaxBytes = 4
SPECIFICATION Spec
INVARIANTS
  TypeOK
  KeysConserved
  CheckedKeyIsThere
PROPERTIES
  BytesAreRead
  CallsReturn

