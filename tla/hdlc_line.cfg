\* 3-bit symbols, up to two per call, up to two inverted bits on the line
CONSTANTS
  NBits = 3
  TxQueue <- MCTxQueue
  RxBufSize = 4
  MaxCnt = 2
  LineCap = 9
  MaxFlips = 2
SPECIFICATION Spec
INVARIANT TypeOK
INVARIANT Integrity
INVARIANT RxLookahead
INVARIANT NoForgery
INVARIANT FcsIsCrc
PROPERTY AllDelivered
