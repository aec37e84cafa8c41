---------------------------- MODULE MCModemCore ----------------------------
(* Model values for ModemCore: the command lines a terminal writes, each  *)
(* in one write() to the pty and ended by CR, and small buffers.           *)
EXTENDS ModemCore

ATD == <<"A", "T", "D", "CR">>
ATA == <<"A", "T", "A", "CR">>
ATH == <<"A", "T", "H", "CR">>
ATH1 == <<"A", "T", "H", "1", "CR">>
ATO == <<"A", "T", "O", "CR">>
ATZ == <<"A", "T", "Z", "CR">>
ATQ1 == <<"A", "T", "Q", "1", "CR">>
\* ATQ with no digit is ATQ0
ATQ == <<"A", "T", "Q", "CR">>
\* "ATHx": a hangup followed by a character no command starts with
ATHx == <<"A", "T", "H", "x", "CR">>
\* a line with no "AT", and one longer than the line buffer
NotAT == <<"x", "CR">>
TooLong == <<"A", "T", "H", "0", "H", "0", "CR">>

CallWrites == {ATD, ATA, ATH, ATH1, ATO, ATQ1, ATQ, ATZ, ATHx, NotAT, TooLong}
Outcomes == {TRUE, FALSE}
=============================================================================
