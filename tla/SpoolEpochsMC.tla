--------------------------- MODULE SpoolEpochsMC ---------------------------
(* Two facts are enough to tell two events apart; symmetric in them. *)
EXTENDS SpoolEpochs, TLC

FactSymmetry == Permutations(Fact)
=============================================================================
