SPECIFICATION MCSpec
CONSTANTS
  Callers = {wd}
  Watchdog = wd
  CallerOps = {"restart"}
  Pid = {p1}
  NoPid = NoPid
  TERM_GRACE = 1
  KILL_GRACE = 1
  RECLAIM_WAIT = 3
  JCT_TIMEOUT = 1
  INTERVAL = 12
  RECOVER_INTERVAL = 4
  RETRY_COUNT = 2
  RETRY_DELAY = 1
  CHECK_TIMEOUT = 1
  RTP_WINDOW = 1
  GRACE = 40
  DOWN_STREAK_LIMIT = 2
  HEALTHY_STREAK_LIMIT = 2
  RESTART_LIMIT = 3
  GONE_CONFIRM_DELAY = 1
  GONE_CONFIRM_BUDGET = 5
  BRINGUP = 30
  UptimeFails = FALSE
  PortalMode = TRUE
  MaxFaults = 2
  MaxOthers = 0
INVARIANTS WatchInv BackstopInTime
PROPERTIES BringupUndisturbed
