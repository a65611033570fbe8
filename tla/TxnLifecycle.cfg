SPECIFICATION Spec
CONSTANTS
  MaxTxn = 3
  MaxCmd = 0
  MaxUndo = 0
  Rows = {r1}
  NoRow = NoRow
  UndoBodies = {body}
  WalFaults = TRUE
  Async = FALSE
  Killers = {}
INVARIANT LockHolderUnfinished
PROPERTIES SeenStable AbsSpec
CHECK_DEADLOCK FALSE
