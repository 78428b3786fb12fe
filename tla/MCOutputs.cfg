\* One compilation after the other, of either port; any forward call may fail, and
\* a process may be killed at any point.
SPECIFICATION Spec
CONSTANTS
  r1 = r1
  r2 = r2
  p1 = p1
  p2 = p2
  Runs <- TwoRuns
  Ports <- BothPorts
  Pids <- TwoPids
  MAX_LIVE = 1
  FaultySteps <- Forward
  Found <- Anything
SYMMETRY Alike
INVARIANTS NothingLost NothingLeftBehind
PROPERTIES FailureLeavesOutputs SuccessInstallsBoth
