SPECIFICATION EpochsSpec
CONSTANTS
  Fact = {f1, f2}
  Mishaps = {"sidecar_write_fails", "sidecar_restored_too"}
  MaxEpochs = 3
  MaxSeq = 2
  MishapEpochs = 1
SYMMETRY FactSymmetry
INVARIANTS NoSeqReuse OneProducer
CHECK_DEADLOCK FALSE
