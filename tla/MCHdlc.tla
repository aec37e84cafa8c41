------------------------------- MODULE MCHdlc -------------------------------
(* Values for Hdlc.  Frames are two bytes long, the shortest LAPM sends    *)
(* (address and control), and are chosen so that the data and the FCS     *)
(* need stuffing: 0x7e is the flag pattern and 0xff eight ones.  The       *)
(* receive buffer holds exactly one frame with its FCS (512 in the code    *)
(* against the 131 + 2 bytes of the longest LAPM frame).                   *)
EXTENDS Hdlc

MCTxQueue == << <<\h7e, \hff>>, <<\h03, \hf8>> >>

\* a frame one byte longer than the receive buffer takes
MCLongQueue == << <<\h7e, \hff, \h01>> >>
====
