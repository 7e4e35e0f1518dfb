SPECIFICATION Spec
CONSTANTS
  Findings = {f1}
  Versions = {v1, v2}
  MaxPosts = 3
  MaxToggles = 2
  MaxReplies = 1
  MaxChanges = 1
  MaxFaults = 1
  MaxPartial = 0
  MaxLate = 0
  Seeded = {"none", "box"}
INVARIANTS TypeOK Recoverable
PROPERTIES ImplementsReportChain PredecessorClicksCarried RepliesSurvive FindingsSurvive SuccessSettles
