SPECIFICATION Spec
CONSTANTS
  Callers = {c1, c2}
  Ops = {"on", "off", "reenter", "guard", "motors", "exec", "toggle", "setpose"}
  Modes = {"auto", "night"}
  MaxOps = 2
  MaxFaults = 1
INVARIANTS PrivacyInv SnapshotRestored
SYMMETRY Symmetry
CHECK_DEADLOCK FALSE
