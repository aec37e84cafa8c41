\* symbols of 3 bits, 5 per call: 15-bit calls that cut across the
\* 18-bit pattern slots and 10-bit chars, and leave part of a char over
CONSTANTS
  NBits = 3
  Counts = {5}
  LineCap = 30
  MaxSkew = 15
  StartDelay <- MCStartDelay
  T400 <- MCT400
  PatternSize = 36
  MaxTxPatterns <- MCMaxTxPatterns
  NegotiateDelay <- MCNegotiateDelay
  XidFrame <- MCXidFrame
  Configs <- MCConfigs
  TermData <- MCTermData
SPECIFICATION Spec
INVARIANT TypeOK AsyncIntact
PROPERTY DetectionEnds AsyncDelivered
