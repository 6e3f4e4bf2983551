-------------------------- MODULE CycleCountingMC --------------------------
EXTENDS CycleCounting, TLC

ProgramSymmetry == Permutations(Program)
=============================================================================
