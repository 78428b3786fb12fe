\* Two C compilations at the same time, nothing fails: what the documentation promises.
SPECIFICATION Spec
CONSTANTS
  r1 = r1
  r2 = r2
  p1 = p1
  p2 = p2
  Runs <- TwoRuns
  Ports <- COnly
  Pids <- TwoPids
  MAX_LIVE = 2
  FaultySteps <- NoFault
  Found <- OldPair
SYMMETRY Alike
INVARIANTS NoMixture
