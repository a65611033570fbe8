SPECIFICATION StoreSpec
CONSTANTS
  MaxTxn = 3
  MaxCmd = 1
  MaxUndo = 2
  MaxSlots = 4
  Rows = {1, 2, 3, 4}
  NoRow = NoRow
  UndoBodies <- Bodies
  WalFaults = FALSE
  Async = FALSE
  Killers = {}
  LoadedRows = {a, b}
  NewRows = {}
  Kinds = {"UPDATE"}
  Guarded = TRUE
  PageFaults = FALSE
  Collector = "none"
INVARIANT RowSurvives
CHECK_DEADLOCK FALSE
