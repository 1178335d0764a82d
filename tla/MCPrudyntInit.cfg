SPECIFICATION MCSpec
CONSTANTS
  Callers = {c1, c2}
  CallerOps = {"restart", "stop"}
  Pid = {p1, p2}
  NoPid = NoPid
  TERM_GRACE = 1
  KILL_GRACE = 1
  RECLAIM_WAIT = 2
  JCT_TIMEOUT = 1
INVARIANTS NeverOnTop HeartbeatFollows StopBudget
PROPERTIES ReclaimRespected Terminates
