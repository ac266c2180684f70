SPECIFICATION ServingSpec
CONSTANTS
  Conns = {c1}
  NoConn = NoConn
  SockCap = 1
  ChanCap = 1
  PipeCap = 1
  Streams = {"Stdout"}
  Expires = FALSE
  Speech = {"Request", "Stdin", "StdinEof", "Signal", "Junk"}
  MaxAsk = 5
  MaxOut = 2
  FeedCap = 1
  Signals = {"INT"}
  MaxIn = 1
  MaxSig = 1
PROPERTIES SignalIsRelayed
CHECK_DEADLOCK FALSE
