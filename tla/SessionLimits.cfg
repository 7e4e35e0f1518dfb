SPECIFICATION Spec
CONSTANTS
  f1 = f1
  u1 = u1
  Units = {u1}
  Size <- TwoChunks
  FullFits = FALSE
  MaxCalls = 1
  MaxUsage = 0
  MaxCorrections = 2
  MaxTokens = 0
  MaxReads = 2
  MaxSubmits = 0
  MaxFaults = 0
INVARIANTS OnlyReturnedRegistered
CHECK_DEADLOCK FALSE
