SPECIFICATION ProbeSpec
CONSTANTS
  MaxPayload = 2
  Texts <- MCTexts
  Overfull <- MCOverfull
  Ours <- MCOurs
  Messages <- MCMessages
  Noise <- MCNoise
  MaxSent = 2
INVARIANTS ArrivesAsSent BufferIsBounded VerdictIsDue
PROPERTIES ProbeEnds
CHECK_DEADLOCK FALSE
