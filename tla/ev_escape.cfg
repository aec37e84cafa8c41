CONSTANTS
  RingOnMin <- MCRingOnMin
  RingOnMax <- MCRingOnMax
  RingOffMin <- MCRingOffMin
  RingOffMax <- MCRingOffMax
  RingCountMin <- MCRingCountMin
  EscapeTimeout <- MCEscapeTimeout
  RingCycles <- MCRingCycles
  RingPulseGap <- MCRingPulseGap
  RingSources <- NoRings
  WriteChunks <- OneByteWrites
  AnswerAfterRings <- NoAutoAnswer
  MaxTime = 12
  MaxDeviceTime = 0
SPECIFICATION Spec
CONSTRAINT TimeBound
PROPERTY EscapeGuard
