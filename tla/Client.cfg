SPECIFICATION Spec
CONSTANTS
  Notes = {1, 2, 3, 4}
  Thread <- SmallThread
  Author <- SmallAuthor
  Bots = {3}
  Early <- SmallEarly
  PageSize = 1
  MaxChanges = 2
  MaxFaults = 2
  Static <- SmallStatic
  ReservedNames <- SmallRetired
  ReservedScopes = {}
  Mappings <- SmallMappings
  Scopes <- SmallScopes
  MaxUint = 100
  Inputs <- SmallInputs
  MRLabels <- SmallMRLabels
  Definitions <- SmallDefinitions
  HumanLabels <- SmallHumanLabels
  CreateMissing = TRUE
INVARIANTS TypeOK NothingMissed RestrictedStaysOut SyncedIsExact SyncedIsCurrent StaleIsCleared QuietIsFresh
PROPERTIES UnrelatedUntouched
CHECK_DEADLOCK FALSE
