------------------------------ MODULE HistoryMC ------------------------------
EXTENDS History, TLC

FaultSymmetry == Permutations(Fault)
=============================================================================
