\* Two compilations at the same time, either port, everything may fail,
\* the undo too.
SPECIFICATION Spec
CONSTANTS
  r1 = r1
  r2 = r2
  p1 = p1
  p2 = p2
  Runs <- TwoRuns
  Ports <- BothPorts
  Pids <- TwoPids
  MAX_LIVE = 2
  FaultySteps <- AllSteps
  Found <- OldOrNone
SYMMETRY Alike
INVARIANTS OutputsComplete
