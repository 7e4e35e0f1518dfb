SPECIFICATION FairSpec
CONSTANTS
  Findings = {f1}
  Versions = {v1, v2}
  MaxPosts = 4
  MaxToggles = 0
  MaxReplies = 0
  MaxChanges = 0
  MaxFaults = 1
  MaxPartial = 0
  MaxLate = 0
  Seeded = {"none"}
PROPERTIES Converges
