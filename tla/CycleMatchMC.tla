--------------------------- MODULE CycleMatchMC ---------------------------
EXTENDS CycleMatch, TLC

ProgramSymmetry == Permutations(Program)
=============================================================================
