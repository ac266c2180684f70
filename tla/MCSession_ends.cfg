SPECIFICATION FairExecSpec
CONSTANTS
  Conns = {c1}
  NoConn = NoConn
  SockCap = 2
  ChanCap = 1
  PipeCap = 1
  Streams = {"Stdout"}
  Expires = FALSE
  Speech = {"Request", "Stdin", "StdinEof", "Signal", "Junk"}
  MaxAsk = 4
  MaxOut = 1
  FeedCap = 1
  Signals = {"INT"}
  MaxIn = 1
  MaxSig = 0
PROPERTIES ChildsEndReachesHost ShutdownReachesHosts
CHECK_DEADLOCK FALSE
