SPECIFICATION Spec
CONSTANTS
  n1 = n1
  n2 = n2
  Findings = {f1}
  Notes = {n1, n2}
  Thread <- OneThread
  Humans = {n1}
  Naming = {n2}
  Early = {n1, n2}
  Persistence = {TRUE, FALSE}
  MaxCommits = 2
  MaxEdits = 1
  MaxClicks = 2
  MaxFaults = 1
  MaxSubmissions = 2
INVARIANTS TypeOK FreshEvidence HistoryExplainsState SourcesKept
PROPERTIES ClicksPrevail
CHECK_DEADLOCK FALSE
