SPECIFICATION FairSpec
CONSTANTS
  f1 = f1
  u1 = u1
  Units = {u1}
  Size <- TwoChunks
  FullFits = TRUE
  MaxCalls = 2
  MaxUsage = 2
  MaxCorrections = 2
  MaxTokens = 1
  MaxReads = 2
  MaxSubmits = 2
  MaxFaults = 1
INVARIANTS TypeOK ResultIsSound RetrievedInOrder BudgetIsFair
PROPERTIES ReceiptStands Ends
CHECK_DEADLOCK FALSE
