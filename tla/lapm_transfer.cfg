CONSTANTS
  c = c
  a = a
  Caller <- MCCaller
  Answer <- MCAnswer
  SeqModulus <- MCSeqModulus
  WinSize <- MCWinSize
  InfoFrames <- MCInfoFrames
  CtrlFrames <- MCCtrlFrames
  MaxRtx <- MCMaxRtx
  ChanCap <- MCChanCap
  Msgs <- TwoMsgs
  HangupPeers <- NoHangup
  LossyLine = FALSE
  PatientTimer = TRUE
SPECIFICATION FairSpec
CONSTRAINT StateBound
INVARIANT TypeOK
INVARIANT WindowInv
INVARIANT Integrity
PROPERTY AllDelivered
CHECK_DEADLOCK FALSE
