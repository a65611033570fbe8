SPECIFICATION Spec
CONSTANTS
  MaxTxn = 2
  MaxCmd = 0
  MaxUndo = 1
  Rows = {r1,r2}
  NoRow = NoRow
  UndoBodies = {body}
  WalFaults = TRUE
  Async = FALSE
  Killers = {"sweeper","detector"}
INVARIANTS TypeOK CommitDurable RealDeadlock
PROPERTY ReleaseAfterOutcome
CHECK_DEADLOCK FALSE
