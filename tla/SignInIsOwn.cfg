CONSTANTS
  Users = {"u1", "u2"}
  SignIns = {"s1", "s2"}
  Hydrates = TRUE
  MaxTokens = 1
  Refreshes = {"r1"}
  MaxTime = 2
SPECIFICATION ViewSpec
INVARIANT SignInIsOwn
CHECK_DEADLOCK FALSE
