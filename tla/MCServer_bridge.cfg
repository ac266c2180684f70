SPECIFICATION Spec
CONSTANTS
  Conns = {c1}
  NoConn = NoConn
  SockCap = 1
  ChanCap = 1
  PipeCap = 1
  Streams = {"Stdout"}
  Expires = TRUE
  Speech = {"Request", "RequestVersion", "Stdin", "StdinEof", "Signal", "Junk"}
  MaxAsk = 3
  MaxOut = 2
INVARIANTS TypeOK ServerInv FlowInv TerminalIsLast StreamsInOrder WithheldOnlyIfTermed NoZombieLeft AnnouncedAtMostTwice DrainForgetsNobody
PROPERTIES KillsOwnGroup
CHECK_DEADLOCK FALSE
