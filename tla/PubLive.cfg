SPECIFICATION FairSpec
CONSTANTS
  Findings = {f1}
  Versions = {v1, v2}
  MaxPosts = 6
  MaxToggles = 1
  MaxReplies = 0
  MaxChanges = 1
  MaxFaults = 1
  MaxPartial = 1
  MaxLate = 1
  Seeded = {"ai"}
INVARIANTS ReplacementInv
PROPERTIES Converges PredecessorClicksCarried
