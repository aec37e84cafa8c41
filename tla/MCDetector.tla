------------------------------ MODULE MCDetector ------------------------------
(* Values for Detector.  Times are in bits, as bit_timer counts them:      *)
(* PATTERN_SIZE keeps its 36 bits (two 18-bit pattern slots); the other    *)
(* timers are scaled down from 512 (64*8), 21600 (T400 at 28800 bit/s),   *)
(* 384 (48*8) and 16 patterns but keep their order: the caller starts    *)
(* its ODPs well within the answerer's T400, its XID before the ADP burst *)
(* ends, and the burst outlasts the three patterns the caller needs to    *)
(* recognise it.                                                           *)
EXTENDS Detector

MCStartDelay == 36
MCT400 == 180
MCMaxTxPatterns == 4
MCNegotiateDelay == 72

\* the first six bytes of the caller's XID (tx_xid: command address 3,
\* FRAME_U_XID, FI_GENERAL, GI_PARAM_NEGOTIATION and the group length)
MCXidFrame == <<\h03, \haf, \h82, \h80, \h00, \h13>>

\* both with error correction; a caller without it calling an answerer
\* with it; neither
MCConfigs ==
  { [s \in Sides |-> TRUE],
    [s \in Sides |-> s = "answer"],
    [s \in Sides |-> FALSE] }

\* a caller with error correction calling an answerer without it
MCNoEcAnswer == { [s \in Sides |-> s = "caller"] }

\* what the terminals write: 'A' from the caller; CR and '~' (0x7e, the
\* HDLC flag pattern) from the answerer
MCTermData ==
  [s \in Sides |-> IF s = "caller" THEN <<\h41>> ELSE <<\h0d, \h7e>>]

\* the same with a caller that also writes '~'
MCFlagData ==
  [s \in Sides |-> IF s = "caller" THEN <<\h41, \h7e>> ELSE <<\h0d, \h7e>>]
====
