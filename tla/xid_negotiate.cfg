\* A D-Modem against a D-Modem or a foreign peer: LAPM sizes in bounds,
\* V.42bis settings that match the codecs, and agreement between D-Modems.
\* The exchange ends when the caller sends SABME or T401 gives up: the
\* rest of the call is Lapm's, so a final state is no deadlock.
CONSTANTS
  Caller <- MCCaller
  Answer <- MCAnswer
  Kinds <- MCKinds
  CompEnable <- MCCompEnable
  ForeignXids <- MCForeignXids
  MaxRtx <- MCMaxRtx
  MaxForeign <- MCMaxForeign
  ChanCap <- MCChanCap
  c = c
  a = a
SPECIFICATION Spec
CHECK_DEADLOCK FALSE
INVARIANT TypeOK
INVARIANT LapmParamsInBounds
INVARIANT CompFitsCodec
INVARIANT CompAgree
