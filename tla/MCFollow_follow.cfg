SPECIFICATION FairFollowSpec
CONSTANTS
  MaxRuns = 3
  MaxLines = 1
  MaxSigs = 1
  Unset = Unset
  Chars <- MCChars
  Roots <- MCRoots
  Name <- MCName
  Junk <- MCJunk
INVARIANTS FollowTypeOK FollowsInOrder SwitchLosesNothing
PROPERTIES EveryRunAnnounced LinesArrive
CHECK_DEADLOCK FALSE
