SPECIFICATION Spec
CONSTANTS
  Fault = {f0, f1}
  NoFault = NoFault
  Page = 1
  Mishaps = {"file_deleted", "power_loss"}
  MaxSeq = 2
  MaxFiles = 2
  MaxStarts = 2
  MaxFails = 1
SYMMETRY FaultSymmetry
INVARIANTS  OkMeansKept OldEntriesNotUnderNewId SeqStandsWithPower
PROPERTIES NoEntrySkipped
CHECK_DEADLOCK FALSE
