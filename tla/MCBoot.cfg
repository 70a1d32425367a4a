CONSTANTS
  Maps <- MCMaps
  Garbage <- Junk
  HeapPages = 1
  MaxChanges = 2
  MaxProcessors = 3
  Handles = 2
  Tries = 4
  ModeLists <- MCModeLists
  Index = {0, 1}
  Root = 5
  Fresh = 6
  Mappings <- MCMappings
  Protected <- MCProtected
  Asked <- MCAsked
SPECIFICATION MCSpec
INVARIANTS
  TypeOK
  RamIsOurs
  PerCpuRight
  RtcWritesLand
PROPERTIES
  ProtectsOnePage
  BootComesToAnEnd
CHECK_DEADLOCK FALSE
