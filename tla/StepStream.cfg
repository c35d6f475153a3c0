SPECIFICATION Spec
CONSTANTS
  Main = main
  Lanes = {l1, l2}
  IntakeNodes = 1
  LaneNodes = 1
  GateNodes = 1
  ClosingNodes = 1
  Faults = {"node", "append", "crash"}
INVARIANTS SeqNeverReused SettledLogIsWhole LateViewerSeesAll
PROPERTIES StreamEnds
CHECK_DEADLOCK FALSE
