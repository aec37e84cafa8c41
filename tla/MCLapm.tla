------------------------------- MODULE MCLapm -------------------------------
(* Lapm instantiated for TLC: one caller and one answerer (modem_test.c    *)
(* joins two modems back to back the same way), a window of two frames,   *)
(* one or two messages each way, one frame in flight per direction.  The  *)
(* .cfg files choose the line (lossy or not), the timer (patient or not)   *)
(* and who may hang up.                                                    *)
EXTENDS Lapm

CONSTANTS c, a     \* model values for the two modems

MCCaller == c
MCAnswer == a
MCSeqModulus == 128          \* the & 0x7f of modem_ec.c
MCWinSize == 2               \* two frames make rewinds and partial acks
MCInfoFrames == MCWinSize + 1  \* LAPM_INFO_FRAMES = LAPM_MAX_WIN_SIZE + 1
MCCtrlFrames == 3            \* two control frames can wait (8 in the code)
MCMaxRtx == 0                \* give up after one retransmission (5 in the code)
MCChanCap == 1               \* frames in flight per direction
\* messages each terminal writes
OneMsg == [p \in {c, a} |-> 1]
TwoMsgs == [p \in {c, a} |-> 2]
\* two from the caller's terminal, one from the answerer's: only the caller
\* sends SABME, so only the answerer's data can meet a reset of the link
CallerTwoMsgs == (c :> 2) @@ (a :> 1)
NoHangup == {}
CallerHangup == {c}

\* bound on the counters the code lets grow without limit: CONNECT reports
\* and what put_chars has written
MaxConnects == 2
StateBound ==
  \A p \in Peers : m[p].connects <= MaxConnects /\ Len(m[p].delivered) <= MaxMsgs + 1
=============================================================================
