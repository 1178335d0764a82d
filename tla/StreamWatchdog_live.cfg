SPECIFICATION WSpec
CONSTANTS
  Callers = {wd, ext}
  Watchdog = wd
  CallerOps = {"restart"}
  Pid = {p1, p2}
  NoPid = NoPid
  TERM_GRACE = 1
  KILL_GRACE = 1
  RECLAIM_WAIT = 1
  JCT_TIMEOUT = 0
  INTERVAL = 2
  RECOVER_INTERVAL = 1
  RETRY_COUNT = 1
  RETRY_DELAY = 1
  CHECK_TIMEOUT = 0
  RTP_WINDOW = 0
  GRACE = 4
  DOWN_STREAK_LIMIT = 2
  HEALTHY_STREAK_LIMIT = 2
  RESTART_LIMIT = 2
  GONE_CONFIRM_DELAY = 1
  GONE_CONFIRM_BUDGET = 4
  BRINGUP = 2
  UptimeFails = FALSE
  PortalMode = TRUE
  MaxFaults = 1
  MaxOthers = 1
PROPERTIES  StreamReturns
