CONSTANTS
  c = c
  a = a
  Caller <- MCCaller
  Answer <- MCAnswer
  SeqModulus <- MCSeqModulus
  WinSize <- MCWinSize
  InfoFrames <- MCInfoFrames
  CtrlFrames <- MCCtrlFrames
  MaxRtx <- MCMaxRtx
  ChanCap <- MCChanCap
  Msgs <- OneMsg
  HangupPeers <- NoHangup
  LossyLine = TRUE
  PatientTimer = TRUE
SPECIFICATION FairSpec
CONSTRAINT StateBound
PROPERTY EstablishResolves
CHECK_DEADLOCK FALSE
