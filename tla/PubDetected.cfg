SPECIFICATION Spec
CONSTANTS
  Findings = {f1}
  Versions = {v1, v2}
  MaxPosts = 4
  MaxToggles = 2
  MaxReplies = 0
  MaxChanges = 0
  MaxFaults = 0
  MaxPartial = 0
  MaxLate = 0
  Seeded = {"open"}
PROPERTIES DetectedClicksPreserved
