SPECIFICATION Spec
CONSTANTS
  Callers = {c1, c2}
  Ops = {"on", "off", "force", "reenter", "guard", "light"}
  Modes = {"auto"}
  MaxOps = 1
  MaxFaults = 1
PROPERTY Recoverable
CHECK_DEADLOCK FALSE
