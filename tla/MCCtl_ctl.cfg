SPECIFICATION CtlSpec
CONSTANTS
  Ctls = {p1, p2}
  Roots = {r1}
  Contents = {f1, f2}
  None = None
  Torn = Torn
  Cmds = {"init", "start", "stop", "restart", "clean"}
  MaxCmds = 3
  MaxMixed = 2
  MaxEdits = 1
  MaxFaults = 1
SYMMETRY CtlSymmetry
INVARIANTS CtlTypeOK OrderInv FreshIsTrue
PROPERTIES StopIsTrue InitDelivers CleanIsComplete
CHECK_DEADLOCK FALSE
