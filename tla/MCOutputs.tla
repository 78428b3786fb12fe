------------------------------ MODULE MCOutputs ------------------------------
(* Two compilations of one stem, one after the other or at the same time.     *)
EXTENDS OutputWriter, TLC

CONSTANTS r1, r2, p1, p2

TwoRuns   == {r1, r2}
TwoPids   == {p1, p2}
BothPorts == {"c", "rust"}
COnly     == {"c"}
Alike     == Permutations(TwoRuns) \cup Permutations(TwoPids)

\* Every call may fail but those of the undo.
Forward   == {"parents", "stage", "look", "move", "install"}
AllSteps  == Steps
NoFault   == {}
Anything  == {"none", "odd", "old"}
OldOrNone == {"none", "old"}
OldPair   == {"old"}
=============================================================================
