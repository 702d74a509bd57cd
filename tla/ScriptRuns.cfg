\* Two or three runs of a file that others save and delete; one may be active.
SPECIFICATION Spec
CONSTANTS
  r1 = r1
  r2 = r2
  r3 = r3
  r4 = r4
  Requests = {r1, r2, r3, r4}
  Scenarios <- MCScenarios
  Scripts = {"workflow", "runbook"}
  Lines <- MCLines
  First <- MCFirst
  Depth = 1
  MaxErrors = 1
INVARIANTS
  SavedIsRun
  OvershootBounded
CHECK_DEADLOCK FALSE
