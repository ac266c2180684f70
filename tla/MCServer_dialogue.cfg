SPECIFICATION FairSpec
CONSTANTS
  Conns = {c1}
  NoConn = NoConn
  SockCap = 1
  ChanCap = 1
  PipeCap = 1
  Streams = {"Stdout", "Stderr"}
  Expires = TRUE
  Speech = {"Request", "RequestVersion", "Junk"}
  MaxAsk = 1
  MaxOut = 1
INVARIANTS ExitAfterOutput
PROPERTIES KeepsDialogue ShutdownEnds
CHECK_DEADLOCK FALSE
