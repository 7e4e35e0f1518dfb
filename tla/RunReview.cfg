SPECIFICATION FairSpec
CONSTANTS
  p1 = p1
  p2 = p2
  p3 = p3
  f1 = f1
  Findings = {f1}
  Prints = {p1, p2, p3}
  Inventory <- TakenBack
  Excluding = {p3}
  MaxUnits = 1
  MaxSessions = 2
  MaxConcurrency = 2
  Gating = {f1}
  Persistence = {TRUE, FALSE}
  MaxChanges = 1
  MaxFaults = 2
  MaxSubmissions = 7
INVARIANTS TypeOK ApprovalIsEarned OnlyRepeatsCollide
PROPERTIES Completes
