-------------------------------- MODULE Hdlc --------------------------------
(***************************************************************************)
(* The HDLC packer of slmodemd (modem_pack.c 337-597): the transmitter     *)
(* modem_hdlc_get_bits, which frames what get_tx_frame hands it with flags, *)
(* zero-bit stuffing and FCS-16, and the receiver modem_hdlc_put_bits,     *)
(* which removes the stuffing, checks the FCS and hands good frames to     *)
(* rx_complete.  One modem transmits, the other receives; the data pump    *)
(* between them moves NBits-bit symbols and may invert bits (line noise).  *)
(* The shift registers s->data/s->bit are modelled as the sequence of      *)
(* their valid bits, oldest (most significant) first.                      *)
(***************************************************************************)
EXTENDS Integers, Sequences, SequencesExt, Bitwise

CONSTANTS
  NBits,       \* nbits: bits per symbol the data pump passes
  TxQueue,     \* the frames get_tx_frame returns, in order (byte sequences)
  RxBufSize,   \* sizeof(h->_rx_buf)
  MaxCnt,      \* the most symbols one get_bits or put_bits call moves
  LineCap,     \* the most bits between the two data pumps
  MaxFlips     \* the most bits the line inverts

ASSUME /\ NBits \in 1..8 /\ RxBufSize \in Nat \ {0}
       /\ MaxCnt \in Nat \ {0} /\ LineCap >= NBits /\ MaxFlips \in Nat

VARIABLES
  tx,     \* m->packer.hdlc transmit side and m->pack
  line,   \* bits sent by get_bits and not yet passed to put_bits
  rx,     \* m->packer.hdlc receive side, m->unpack and what rx_complete got
  flips   \* bits inverted so far

vars == <<tx, line, rx, flips>>

Bit == {0, 1}
Byte == 0..255

\* fcs16_tab (modem_pack.c 349-382), as written in the code
fcs16_tab == <<
    \h0000, \h1189, \h2312, \h329b, \h4624, \h57ad, \h6536, \h74bf,
    \h8c48, \h9dc1, \haf5a, \hbed3, \hca6c, \hdbe5, \he97e, \hf8f7,
    \h1081, \h0108, \h3393, \h221a, \h56a5, \h472c, \h75b7, \h643e,
    \h9cc9, \h8d40, \hbfdb, \hae52, \hdaed, \hcb64, \hf9ff, \he876,
    \h2102, \h308b, \h0210, \h1399, \h6726, \h76af, \h4434, \h55bd,
    \had4a, \hbcc3, \h8e58, \h9fd1, \heb6e, \hfae7, \hc87c, \hd9f5,
    \h3183, \h200a, \h1291, \h0318, \h77a7, \h662e, \h54b5, \h453c,
    \hbdcb, \hac42, \h9ed9, \h8f50, \hfbef, \hea66, \hd8fd, \hc974,
    \h4204, \h538d, \h6116, \h709f, \h0420, \h15a9, \h2732, \h36bb,
    \hce4c, \hdfc5, \hed5e, \hfcd7, \h8868, \h99e1, \hab7a, \hbaf3,
    \h5285, \h430c, \h7197, \h601e, \h14a1, \h0528, \h37b3, \h263a,
    \hdecd, \hcf44, \hfddf, \hec56, \h98e9, \h8960, \hbbfb, \haa72,
    \h6306, \h728f, \h4014, \h519d, \h2522, \h34ab, \h0630, \h17b9,
    \hef4e, \hfec7, \hcc5c, \hddd5, \ha96a, \hb8e3, \h8a78, \h9bf1,
    \h7387, \h620e, \h5095, \h411c, \h35a3, \h242a, \h16b1, \h0738,
    \hffcf, \hee46, \hdcdd, \hcd54, \hb9eb, \ha862, \h9af9, \h8b70,
    \h8408, \h9581, \ha71a, \hb693, \hc22c, \hd3a5, \he13e, \hf0b7,
    \h0840, \h19c9, \h2b52, \h3adb, \h4e64, \h5fed, \h6d76, \h7cff,
    \h9489, \h8500, \hb79b, \ha612, \hd2ad, \hc324, \hf1bf, \he036,
    \h18c1, \h0948, \h3bd3, \h2a5a, \h5ee5, \h4f6c, \h7df7, \h6c7e,
    \ha50a, \hb483, \h8618, \h9791, \he32e, \hf2a7, \hc03c, \hd1b5,
    \h2942, \h38cb, \h0a50, \h1bd9, \h6f66, \h7eef, \h4c74, \h5dfd,
    \hb58b, \ha402, \h9699, \h8710, \hf3af, \he226, \hd0bd, \hc134,
    \h39c3, \h284a, \h1ad1, \h0b58, \h7fe7, \h6e6e, \h5cf5, \h4d7c,
    \hc60c, \hd785, \he51e, \hf497, \h8028, \h91a1, \ha33a, \hb2b3,
    \h4a44, \h5bcd, \h6956, \h78df, \h0c60, \h1de9, \h2f72, \h3efb,
    \hd68d, \hc704, \hf59f, \he416, \h90a9, \h8120, \hb3bb, \ha232,
    \h5ac5, \h4b4c, \h79d7, \h685e, \h1ce1, \h0d68, \h3ff3, \h2e7a,
    \he70e, \hf687, \hc41c, \hd595, \ha12a, \hb0a3, \h8238, \h93b1,
    \h6b46, \h7acf, \h4854, \h59dd, \h2d62, \h3ceb, \h0e70, \h1ff9,
    \hf78f, \he606, \hd49d, \hc514, \hb1ab, \ha022, \h92b9, \h8330,
    \h7bc7, \h6a4e, \h58d5, \h495c, \h3de3, \h2c6a, \h1ef1, \h0f78
  >>

\* Seeded fault: the table generated with its bytes swapped.
fcstab_byte_swapped(i) ==
  LET e == fcs16_tab[i + 1] IN (e % 256) * 256 + e \div 256

\* #define fcstab fcs16_tab
fcstab(i) == fcs16_tab[i + 1]

INIT_FCS16 == \hffff
GOOD_FCS16 == \hf0b8

\* GET_FCS(fcs, c): (fcs >> 8) ^ fcstab[(fcs ^ c) & 0xff]
GET_FCS(fcs, c) == (fcs \div 256) ^^ fcstab((fcs ^^ c) % 256)

\* HDLC_FLAG 0x7e as it goes on the line
FlagBits == <<0, 1, 1, 1, 1, 1, 1, 0>>

\* Seeded fault: the zero stuffed after the sixth 1 instead of the fifth.
RECURSIVE PutByte_late(_, _, _, _)
PutByte_late(in, i, ones, bits) ==
  IF i = 8 THEN [bits |-> bits, ones |-> ones]
  ELSE IF in % 2 = 0 THEN PutByte_late(in \div 2, i + 1, 0, Append(bits, 0))
  ELSE IF ones + 1 = 6 THEN PutByte_late(in \div 2, i + 1, 0, bits \o <<1, 0>>)
  ELSE PutByte_late(in \div 2, i + 1, ones + 1, Append(bits, 1))

\* HDLC_PUT_BYTE: the bits of in, least significant first, with a 0 stuffed
\* after the fifth 1 in a row; ones is h->tx_ones
RECURSIVE PutByte(_, _, _, _)
PutByte(in, i, ones, bits) ==
  IF i = 8 THEN [bits |-> bits, ones |-> ones]
  ELSE IF in % 2 = 0 THEN PutByte(in \div 2, i + 1, 0, Append(bits, 0))
  ELSE IF ones + 1 = 5 THEN PutByte(in \div 2, i + 1, 0, bits \o <<1, 0>>)
  ELSE PutByte(in \div 2, i + 1, ones + 1, Append(bits, 1))

HDLC_PUT_BYTE(in, ones) == PutByte(in, 0, ones, <<>>)

-----------------------------------------------------------------------------
(* Transmitter.  t.on is h->tx_frame # NULL; t.buf, t.count and t.fcs are *)
(* its fields; t.pack holds the bits of m->pack; t.txq the frames the      *)
(* framer still has for get_tx_frame.                                      *)

\* Seeded fault: the FCS sent without complementing it (no fcs ^= 0xffff).
tx_refill_plain_fcs(t) ==
  IF ~t.on
  THEN IF t.txq # <<>>
       THEN [t EXCEPT !.pack = @ \o FlagBits, !.on = TRUE, !.buf = Head(t.txq),
                      !.count = 0, !.fcs = INIT_FCS16, !.txq = Tail(@)]
       ELSE [t EXCEPT !.pack = @ \o FlagBits]
  ELSE IF t.count = Len(t.buf)
  THEN LET lo == HDLC_PUT_BYTE(t.fcs % 256, t.ones)
           hi == HDLC_PUT_BYTE(t.fcs \div 256, lo.ones)
       IN [t EXCEPT !.pack = @ \o lo.bits \o hi.bits, !.ones = 0, !.on = FALSE]
  ELSE LET in == t.buf[t.count + 1]
           b  == HDLC_PUT_BYTE(in, t.ones)
       IN [t EXCEPT !.pack = @ \o b.bits, !.count = @ + 1,
                    !.fcs = GET_FCS(@, in), !.ones = b.ones]

\* one pass of the refill part of the do-loop of modem_hdlc_get_bits
tx_refill(t) ==
  IF ~t.on
  THEN \* no frame: a flag, then ask get_tx_frame
       IF t.txq # <<>>
       THEN [t EXCEPT !.pack = @ \o FlagBits, !.on = TRUE, !.buf = Head(t.txq),
                      !.count = 0, !.fcs = INIT_FCS16, !.txq = Tail(@)]
       ELSE [t EXCEPT !.pack = @ \o FlagBits]
  ELSE IF t.count = Len(t.buf)
  THEN \* end frame: the complemented FCS, low byte first
       LET f  == t.fcs ^^ \hffff
           lo == HDLC_PUT_BYTE(f % 256, t.ones)
           hi == HDLC_PUT_BYTE(f \div 256, lo.ones)
       IN [t EXCEPT !.pack = @ \o lo.bits \o hi.bits, !.fcs = f,
                    !.ones = 0, !.on = FALSE]
  ELSE LET in == t.buf[t.count + 1]
           b  == HDLC_PUT_BYTE(in, t.ones)
       IN [t EXCEPT !.pack = @ \o b.bits, !.count = @ + 1,
                    !.fcs = GET_FCS(@, in), !.ones = b.ones]

\* the do-loop: move whole symbols out of the register, refill, until cnt
\* symbols are out
RECURSIVE get_loop(_, _, _)
get_loop(t, cnt, out) ==
  LET k == IF cnt < Len(t.pack) \div NBits THEN cnt ELSE Len(t.pack) \div NBits
      t1 == [t EXCEPT !.pack = SubSeq(@, k * NBits + 1, Len(@))]
      o1 == out \o SubSeq(t.pack, 1, k * NBits)
  IN IF k = cnt THEN [t |-> t1, out |-> o1]
     ELSE get_loop(tx_refill(t1), cnt - k, o1)

modem_hdlc_get_bits(t, cnt) == get_loop(t, cnt, <<>>)

-----------------------------------------------------------------------------
(* Receiver.  r.unpack holds the bits of m->unpack; r.buf the bytes of    *)
(* h->rx_frame (its count is Len(r.buf)); r.fcs, r.ones and r.error are    *)
(* rx_frame->fcs, h->rx_ones and h->rx_error; r.delivered the frames       *)
(* rx_complete was given; r.ub records an 8-bit read of the register       *)
(* while it held fewer than 8 bits (a shift by a negative amount).         *)

\* Seeded fault: the good frame handed over with its two FCS bytes.
end_of_frame_keeps_fcs(r, i) ==
  LET good == Len(r.buf) # 0 /\ r.error = 0 /\ i = 0 /\ Len(r.buf) >= 3
              /\ r.fcs = GOOD_FCS16
  IN [r EXCEPT !.delivered = IF good THEN Append(@, r.buf) ELSE @,
               !.unpack = SubSeq(@, 9, Len(@)),
               !.ones = 0, !.error = 0, !.fcs = INIT_FCS16, !.buf = <<>>]

\* Seeded fault: no check of the FCS.
end_of_frame_no_fcs(r, i) ==
  LET good == Len(r.buf) # 0 /\ r.error = 0 /\ i = 0 /\ Len(r.buf) >= 3
  IN [r EXCEPT !.delivered = IF good
                             THEN Append(@, SubSeq(r.buf, 1, Len(r.buf) - 2))
                             ELSE @,
               !.unpack = SubSeq(@, 9, Len(@)),
               !.ones = 0, !.error = 0, !.fcs = INIT_FCS16, !.buf = <<>>]

\* a flag: end of frame (lines 497-532)
end_of_frame(r, i) ==
  LET good == /\ Len(r.buf) # 0
              /\ r.error = 0
              /\ i = 0
              /\ Len(r.buf) >= 3
              /\ r.fcs = GOOD_FCS16
  IN [r EXCEPT !.delivered = IF good
                             THEN Append(@, SubSeq(r.buf, 1, Len(r.buf) - 2))
                             ELSE @,
               !.unpack = SubSeq(@, 9, Len(@)),
               !.ones = 0, !.error = 0, !.fcs = INIT_FCS16, !.buf = <<>>]

\* the for-loop over the 8 bits of a character (lines 495-555); it returns
\* the state, the i it stopped at and the character out built so far
RECURSIVE bit_loop(_, _, _)
bit_loop(r, i, out) ==
  IF i = 8 THEN [r |-> r, i |-> i, out |-> out]
  ELSE IF Len(r.unpack) < 8 THEN [r |-> [r EXCEPT !.ub = TRUE], i |-> i, out |-> out]
  ELSE LET in == SubSeq(r.unpack, 1, 8) IN
  IF in = FlagBits THEN [r |-> end_of_frame(r, i), i |-> i, out |-> out]
  ELSE IF r.error # 0
  THEN bit_loop([r EXCEPT !.unpack = Tail(@)], i + 1, out)
  ELSE IF in[1] = 0
  THEN bit_loop([r EXCEPT !.unpack = Tail(@), !.ones = 0], i + 1, out \div 2)
  ELSE IF r.ones + 1 < 5
  THEN bit_loop([r EXCEPT !.unpack = Tail(@), !.ones = @ + 1], i + 1, out \div 2 + 128)
  ELSE \* the fifth 1: a stuffed 0 is skipped, a sixth 1 is an abort
       bit_loop([r EXCEPT !.unpack = SubSeq(@, 3, Len(@)), !.ones = 0,
                          !.error = IF in[2] = 1 THEN @ + 1 ELSE @,
                          !.buf = IF in[2] = 1 THEN <<>> ELSE @],
                i + 1, out \div 2 + 128)

\* finish char (lines 557-569)
finish_char(r, i, out) ==
  IF i = 8 /\ r.error = 0
  THEN IF Len(r.buf) < RxBufSize
       THEN [r EXCEPT !.buf = Append(@, out), !.fcs = GET_FCS(@, out)]
       ELSE [r EXCEPT !.error = @ + 1, !.buf = <<>>]
  ELSE r

\* Seeded fault: decoding starts with 8 + 8 bits, without room for the two
\* stuffed zeros.
RECURSIVE put_loop_short(_, _)
put_loop_short(r, bits) ==
  IF bits = <<>> THEN r
  ELSE LET r1   == [r EXCEPT !.unpack = @ \o SubSeq(bits, 1, NBits)]
           rest == SubSeq(bits, NBits + 1, Len(bits))
       IN IF Len(r1.unpack) < 8 + 8 THEN put_loop_short(r1, rest)
          ELSE LET b == bit_loop(r1, 0, 0)
               IN put_loop_short(finish_char(b.r, b.i, b.out), rest)

\* the while-loop of modem_hdlc_put_bits over the symbols in bits: shift one
\* in, and decode a character once 8 + 8 + 2 bits are there
RECURSIVE put_loop(_, _)
put_loop(r, bits) ==
  IF bits = <<>> THEN r
  ELSE LET r1   == [r EXCEPT !.unpack = @ \o SubSeq(bits, 1, NBits)]
           rest == SubSeq(bits, NBits + 1, Len(bits))
       IN IF Len(r1.unpack) < 8 + 8 + 2 THEN put_loop(r1, rest)
          ELSE LET b == bit_loop(r1, 0, 0)
               IN put_loop(finish_char(b.r, b.i, b.out), rest)

modem_hdlc_put_bits(r, bits) == put_loop(r, bits)

-----------------------------------------------------------------------------
\* modem_hdlc_start (lines 576-597) on both modems
Init ==
  /\ tx = [on |-> FALSE, buf |-> <<>>, count |-> 0, fcs |-> INIT_FCS16,
           ones |-> 0, pack |-> <<>>, txq |-> TxQueue]
  /\ rx = [unpack |-> <<>>, buf |-> <<>>, fcs |-> INIT_FCS16, ones |-> 0,
           error |-> 1, delivered |-> <<>>, ub |-> FALSE]
  /\ line = <<>>
  /\ flips = 0

\* the transmitting pump calls modem_get_bits for cnt symbols
GetBits ==
  \E cnt \in 1..MaxCnt :
    /\ Len(line) + cnt * NBits <= LineCap
    /\ LET g == modem_hdlc_get_bits(tx, cnt)
       IN tx' = g.t /\ line' = line \o g.out
    /\ UNCHANGED <<rx, flips>>

\* the receiving pump calls modem_put_bits with cnt symbols
PutBits ==
  \E cnt \in 1..MaxCnt :
    /\ cnt * NBits <= Len(line)
    /\ rx' = modem_hdlc_put_bits(rx, SubSeq(line, 1, cnt * NBits))
    /\ line' = SubSeq(line, cnt * NBits + 1, Len(line))
    /\ UNCHANGED <<tx, flips>>

\* line noise: the demodulator decides a bit wrongly
Flip ==
  /\ flips < MaxFlips
  /\ \E i \in 1..Len(line) : line' = [line EXCEPT ![i] = 1 - @]
  /\ flips' = flips + 1
  /\ UNCHANGED <<tx, rx>>

Next == GetBits \/ PutBits \/ Flip

\* The data pump calls put_bits and get_bits on every block of samples:
\* weak fairness of GetBits and PutBits, written out as WF_vars(A) is
\* defined, <>[](ENABLED <<A>>_vars) => []<><<A>>_vars.  A GetBits step
\* is the only one that lengthens the line and a PutBits step the only
\* one that shortens it, and each is enabled when one symbol fits.
Fairness ==
  /\ <>[](Len(line) + NBits <= LineCap) => []<><<Len(line') > Len(line)>>_vars
  /\ <>[](NBits <= Len(line)) => []<><<Len(line') < Len(line)>>_vars

Spec == Init /\ [][Next]_vars /\ Fairness

-----------------------------------------------------------------------------
TypeOK ==
  /\ tx.on \in BOOLEAN /\ tx.ones \in 0..4 /\ tx.fcs \in 0..\hffff
  /\ tx.pack \in Seq(Bit) /\ line \in Seq(Bit) /\ flips \in 0..MaxFlips
  /\ rx.unpack \in Seq(Bit) /\ rx.buf \in Seq(Byte) /\ rx.ones \in 0..4
  /\ rx.fcs \in 0..\hffff /\ rx.error \in Nat /\ rx.ub \in BOOLEAN


\* Reference for the FCS: the bit-serial FCS-16 of RFC 1662 (x^16 + x^12 +
\* x^5 + 1, reflected 0x8408), one bit at a time, over a byte sequence.
RECURSIVE CrcBits(_, _)
CrcBits(crc, k) ==
  IF k = 0 THEN crc
  ELSE CrcBits(IF crc % 2 = 1 THEN (crc \div 2) ^^ \h8408 ELSE crc \div 2, k - 1)

RECURSIVE CrcBytes(_, _)
CrcBytes(crc, bytes) ==
  IF bytes = <<>> THEN crc
  ELSE CrcBytes(CrcBits(crc ^^ Head(bytes), 8), Tail(bytes))

\* The running FCS that GET_FCS keeps through fcs16_tab, in the transmitter
\* over the bytes sent of the current frame and in the receiver over the
\* bytes stored since the last flag, is the bit-serial FCS-16 of those
\* bytes: the table is right for every entry the line makes the code look
\* up, noise included.  (After an abort or an overflow the receiver keeps a
\* stale FCS with count 0; it stores nothing until the next flag resets it.)
FcsIsCrc ==
  /\ tx.on => tx.fcs = CrcBytes(INIT_FCS16, SubSeq(tx.buf, 1, tx.count))
  /\ rx.error = 0 => rx.fcs = CrcBytes(INIT_FCS16, rx.buf)

\* The receiver reads the top 8 bits of its register at every step of the
\* character loop of modem_hdlc_put_bits (line 496); it starts the loop
\* only with 8 + 8 + 2 bits, so that a character with two stuffed zeros
\* still leaves a whole flag to look at.  It never shifts by a negative
\* amount, whatever the line delivers.
RxLookahead == ~rx.ub

\* While the line has inverted no bit, rx_complete has received exactly
\* the frames get_tx_frame handed to the transmitter, in order, none
\* skipped, none twice and none altered: stuffing, flag detection and the
\* FCS of the two packers agree.
Integrity == flips = 0 => IsPrefix(rx.delivered, TxQueue)

\* With bits inverted by the line, every frame rx_complete receives is
\* still one the transmitter sent, in order and at most once: the FCS
\* check, the abort on six ones and the flag checks reject what noise made.
NoForgery ==
  \E pos \in [1..Len(rx.delivered) -> 1..Len(TxQueue)] :
    /\ \A k \in DOMAIN rx.delivered : rx.delivered[k] = TxQueue[pos[k]]
    /\ \A k \in 1..(Len(rx.delivered) - 1) : pos[k] < pos[k + 1]

\* On a line that never inverts a bit every frame is eventually
\* delivered, because the data pump calls put_bits and get_bits on every
\* block.
AllDelivered == [](flips = 0) => <>(rx.delivered = TxQueue)

====
