-------------------------------- MODULE MCXid --------------------------------
(* Xid instantiated for TLC: a D-Modem calling a D-Modem, a D-Modem calling *)
(* a foreign V.42 peer, and a foreign caller reaching a D-Modem; each      *)
(* D-Modem with V.42bis enabled or not.  The foreign peer's XID fields     *)
(* propose larger and smaller sizes than D-Modem's, a malformed group and  *)
(* a wrong format identifier.                                             *)
EXTENDS Xid

CONSTANTS c, a     \* model values for the two ends

MCCaller == c
MCAnswer == a
MCKinds == {<<"dmodem", "dmodem">>, <<"dmodem", "foreign">>, <<"foreign", "dmodem">>}
MCCompEnable == {0, 3}
\* 256-byte info fields (2048 bits), windows of 31, V.42bis both ways
\* with 4096 codewords and strings of 250
BigPeer ==
  << \h82, \h80, 0, 14, \h05, 2, \h08, \h00, \h06, 2, \h08, \h00,
     \h07, 1, 31, \h08, 1, 31,
     \hf0, 0, 10, \h01, 1, 3, \h02, 2, \h10, \h00, \h03, 1, 250 >>
\* 64-byte info fields, windows of 7, V.42bis initiator to responder only
\* with 512 codewords and strings of 6
SmallPeer ==
  << \h82, \h80, 0, 14, \h05, 2, \h02, \h00, \h06, 2, \h02, \h00,
     \h07, 1, 7, \h08, 1, 7,
     \hf0, 0, 10, \h01, 1, 1, \h02, 2, \h02, \h00, \h03, 1, 6 >>
\* a group whose length runs past the frame, then a wrong identifier
Truncated == << \h82, \h80, 0, 20, \h07, 1, 0 >>
BadFormat == << \h81, \h80, 0, 3, \h07, 1, 0 >>
MCForeignXids == {BigPeer, SmallPeer, Truncated, BadFormat}
MCMaxRtx == 1                \* two retransmissions (LAPM_MAX_RTX = 5)
MCMaxForeign == 1
MCChanCap == 2
=============================================================================
