\* One item whose push is interrupted after it was re-queued.
CONSTANTS
  Count = 1
  MaxRuns = 3
  MaxSteps = 1
  MaxChanges = 1
SPECIFICATION Spec
CHECK_DEADLOCK FALSE
INVARIANT PushedBranchVisible
