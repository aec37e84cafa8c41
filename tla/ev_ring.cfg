CONSTANTS
  RingOnMin <- MCRingOnMin
  RingOnMax <- MCRingOnMax
  RingOffMin <- MCRingOffMin
  RingOffMax <- MCRingOffMax
  RingCountMin <- MCRingCountMin
  EscapeTimeout <- MCEscapeTimeout
  RingCycles <- MCRingCycles
  RingPulseGap <- MCRingPulseGap
  RingSources <- BothRings
  WriteChunks <- OneByteWrites
  AnswerAfterRings <- AutoAnswer
  MaxTime = 9
  MaxDeviceTime = 8
SPECIFICATION Spec
CONSTRAINT TimeBound
INVARIANT TypeOK
INVARIANT RingOnTime
INVARIANT RingNotStuck
