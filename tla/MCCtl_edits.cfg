SPECIFICATION CtlSpec
CONSTANTS
  Ctls = {p1}
  Roots = {r1}
  Contents = {f1, f2}
  None = None
  Torn = Torn
  Cmds = {"init"}
  MaxCmds = 2
  MaxMixed = 0
  MaxEdits = 1
  MaxFaults = 0
PROPERTIES EditsTakeEffect
CHECK_DEADLOCK FALSE
