CONSTANTS
  Writes <- CallWrites
  EcEnable = TRUE
  RingDetector = FALSE
  StartResults <- Outcomes
  CreateResults <- Outcomes
  AtLineMax = 5
  XmitSize = 8
  MaxInputs = 5
SPECIFICATION Spec
\* the main loop blocks in select() once the terminal stops writing
CHECK_DEADLOCK FALSE

PROPERTY CallRefined
