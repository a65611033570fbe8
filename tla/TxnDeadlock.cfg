SPECIFICATION FairSpec
CONSTANTS
  MaxTxn = 2
  MaxCmd = 1
  MaxUndo = 0
  Rows = {r1, r2}
  NoRow = NoRow
  UndoBodies = {body}
  WalFaults = FALSE
  Async = FALSE
  Killers = {"detector"}
PROPERTY WaitEnds
CHECK_DEADLOCK FALSE
