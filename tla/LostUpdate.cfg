SPECIFICATION StoreSpec
CONSTANTS
  MaxTxn = 3
  MaxCmd = 1
  MaxUndo = 2
  MaxSlots = 3
  Rows = {1, 2, 3}
  NoRow = NoRow
  UndoBodies <- Bodies
  WalFaults = FALSE
  Async = FALSE
  Killers = {}
  LoadedRows = {a}
  NewRows = {b}
  Kinds = {"UPDATE"}
  Guarded = TRUE
  PageFaults = FALSE
  Collector = "none"
INVARIANT OneVersionVisible
CHECK_DEADLOCK FALSE
