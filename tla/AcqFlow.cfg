SPECIFICATION Spec
CONSTANTS
  Modes = {"READ", "BOTH"}
  RingPairs = 4
  SpanSlots = 2
  IqSlots = 2
  BlockSizes <- Blocks
  ReadSizes <- Reads
  MaxEpochs = 2
  MaxIndex = 3
  MaxGaps <- GapsByMode
  QuietRecovery = TRUE
INVARIANTS TypeOK NeverOverlaps LabelsHold LossHasCause NoSilentBreak
PROPERTIES ReadIsLossyStream CallbackIsLossyStream
CHECK_DEADLOCK FALSE
