\* The first version and one more; a script and two runs of the workflow race.
CONSTANTS
  Versions = {1, 2}
  MaxCommits = 4
  MaxRuns = 2
  MaxPushes = 1
SPECIFICATION Spec
INVARIANTS ReleaseIsItsTag WorkflowReleasesAgree ReleaseIsOnMain
CHECK_DEADLOCK FALSE
