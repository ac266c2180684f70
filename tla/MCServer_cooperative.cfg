SPECIFICATION CooperativeSpec
CONSTANTS
  Conns = {c1}
  NoConn = NoConn
  SockCap = 1
  ChanCap = 1
  PipeCap = 1
  Streams = {"Stdout"}
  Expires = FALSE
  Speech = {"Request", "Stdin", "Junk"}
  MaxAsk = 2
  MaxOut = 1
PROPERTIES ShutdownReachesGroups VanishedClientNoticed DeadChildReaped
CHECK_DEADLOCK FALSE
