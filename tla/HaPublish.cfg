SPECIFICATION Spec
CONSTANTS
  Cmd = cmd
  Polls = {p1}
  Values = {"ON", "OFF"}
  MaxCmds = 2
  MaxChanges = 1
  MaxFaults = 1
INVARIANTS HaInv
PROPERTIES SupersededSilent Converges
