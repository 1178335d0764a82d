SPECIFICATION MCSpec
CONSTANTS
  Callers = {c1}
  CallerOps = {"start", "stop", "restart"}
  Pid = {p1, p2}
  NoPid = NoPid
  TERM_GRACE = 2
  KILL_GRACE = 2
  RECLAIM_WAIT = 3
  JCT_TIMEOUT = 1
INVARIANT OnePrudynt
