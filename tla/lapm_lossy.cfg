CONSTANTS
  c = c
  a = a
  Caller <- MCCaller
  Answer <- MCAnswer
  SeqModulus <- MCSeqModulus
  WinSize <- MCWinSize
  InfoFrames <- MCInfoFrames
  CtrlFrames <- MCCtrlFrames
  MaxRtx <- MCMaxRtx
  ChanCap <- MCChanCap
  Msgs <- CallerTwoMsgs
  HangupPeers <- CallerHangup
  LossyLine = TRUE
  PatientTimer = TRUE
SPECIFICATION Spec
CONSTRAINT StateBound
INVARIANT WindowInv
INVARIANT Integrity
CHECK_DEADLOCK FALSE
