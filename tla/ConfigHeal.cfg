SPECIFICATION Spec
CONSTANTS
  Callers = {c1, c2}
  Roms = {"clean", "unclean", "empty"}
  Saves = TRUE
  MaxFaults = 2
INVARIANTS HealInv
PROPERTIES UserConfigKept BrickHeals
