SPECIFICATION CtlSpec
CONSTANTS
  Ctls = {p1, p2}
  Roots = {r1, r2}
  Contents = {f1, f2}
  None = None
  Torn = Torn
  Cmds = {"init"}
  MaxCmds = 2
  MaxMixed = 2
  MaxEdits = 0
  MaxFaults = 0
SYMMETRY CtlSymmetry
PROPERTIES CheckoutsNeverShare
CHECK_DEADLOCK FALSE
