SPECIFICATION Spec
INVARIANTS BrowserTypes SubscribedKept CacheCurrent AttemptsOrdered StoresSettle RemotesCurrent FormsHonest
PROPERTIES AnswersKept AsksEnd
CHECK_DEADLOCK FALSE
CONSTANTS
  Loads = {"l1", "l2"}
  MaxDeploy = 3
  Hidden = {2}
  StateKeys = {"k1", "k2"}
  Values = {1, 2}
  Retries = 1
  HasFallback = TRUE
  Threshold = 2
  Probes = {"p1", "p2", "p3", "p4"}
  Components = {"c1", "c2"}
  Throwers = {"c2"}
  Assigned = {1}
  Requests = {1, 2, 3}
  Submissions = {"s1", "s2"}
  CrossField = FALSE
