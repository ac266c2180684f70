SPECIFICATION ExecSpec
CONSTANTS
  Conns = {c1}
  NoConn = NoConn
  SockCap = 1
  ChanCap = 1
  PipeCap = 1
  Streams = {"Stdout"}
  Expires = TRUE
  Speech = {"Request", "Stdin", "StdinEof", "Signal", "Junk"}
  MaxAsk = 5
  MaxOut = 1
  FeedCap = 1
  Signals = {"INT"}
  MaxIn = 1
  MaxSig = 1
INVARIANTS SessionInv StatusAfterOutput StoppedOnlyByShutdown InputIsWhole FaultOnlyIfCut EofIsBestEffort
PROPERTIES IsAClient
CHECK_DEADLOCK FALSE
