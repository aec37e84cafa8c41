------------------------------- MODULE Detector -------------------------------
(***************************************************************************)
(* The packer of slmodemd between the data pump's CONNECT and the error    *)
(* corrector: the V.42 detection phase (the detector packer, modem_pack.c  *)
(* 162-336), the async packer that a modem without error correction uses   *)
(* (62-160), and the switch between them that modem_update_status makes    *)
(* (modem.c 483-514) when the bit timer of modem_get_bits (594-610) fires. *)
(* A caller and an answerer run it against each other.  Each data pump     *)
(* moves NBits-bit symbols per call; the line in each direction carries    *)
(* bits.  The shift registers s->data/s->bit are bit sequences, oldest     *)
(* (most significant) first.  Time is counted in bits, as bit_timer does.  *)
(***************************************************************************)
EXTENDS Integers, Sequences, SequencesExt

CONSTANTS
  NBits,          \* nbits: bits per symbol the data pump passes
  Counts,         \* the symbol counts a get_bits or put_bits call may ask for
  LineCap,        \* the most bits in flight in one direction
  MaxSkew,        \* the most bits one modem's transmitter runs ahead
  StartDelay,     \* 64*8: the caller's silence before its first ODP
  T400,           \* rate*3/4: the answerer's T400
  PatternSize,    \* PATTERN_SIZE
  MaxTxPatterns,  \* MAX_TX_PATTERNS
  NegotiateDelay, \* 48*8: the caller's wait before LAPM's first XID
  XidFrame,       \* the bytes of that XID frame (tx_xid)
  Configs,        \* the pairs of m->cfg.ec the two modems may start with
  TermData        \* what each terminal writes: [Sides -> Seq(Byte)]

Sides == {"caller", "answer"}
Peer(s) == IF s = "caller" THEN "answer" ELSE "caller"
Bit == {0, 1}
Byte == 0..255

ASSUME /\ NBits \in 1..8 /\ Counts \subseteq Nat \ {0} /\ LineCap >= NBits
       /\ Configs \subseteq [Sides -> BOOLEAN]
       /\ TermData \in [Sides -> Seq(Byte)]

VARIABLES
  m,      \* per modem: link state, m->cfg.ec, detect_state, bit timer,
          \* pack and unpack registers, terminal queue and what put_chars got
  line,   \* line[s]: bits sent to modem s and not yet passed to put_bits
  lead,   \* bits the caller's transmitter has sent beyond the answerer's
  conf    \* m->cfg.ec of both modems at CONNECT

vars == <<m, line, lead, conf>>

\* the HDLC transmitter of Hdlc.tla, for the frame LAPM sends first once
\* detection is over; only its operators are used
H == INSTANCE Hdlc WITH TxQueue <- <<XidFrame>>, RxBufSize <- 1, MaxCnt <- 1,
                        LineCap <- NBits, MaxFlips <- 0,
                        tx <- m, line <- line, rx <- m, flips <- 0

\* the bits modem_hdlc_get_bits sends for a frame after its opening flag:
\* the bytes with zero stuffing and the FCS (the refill branches of lines
\* 443-466, as H!tx_refill has them)
RECURSIVE FrameLoop(_)
FrameLoop(t) == IF t.on THEN FrameLoop(H!tx_refill(t)) ELSE t.pack
XidBits ==
  FrameLoop([on |-> TRUE, buf |-> XidFrame, count |-> 0, fcs |-> H!INIT_FCS16,
             ones |-> 0, pack |-> <<>>, txq |-> <<>>])

\* the handshake chars (lines 178-186)
HDLC_FLAG == \h7e
ODP0 == \h88
ODP1 == \h89
ADP0 == \ha2
ADP1_V14 == \h00
ADP1_V42 == \hc2
ADP1 == ADP1_V42

\* FILL_PATTERN_ODP/ADP as modem_detector_start chooses them (316-331)
tx_pattern(s) == IF s = "caller" THEN <<ODP0, ODP1>> ELSE <<ADP0, ADP1>>
rx_pattern(s) == IF s = "caller" THEN <<ADP0, ADP1>> ELSE <<ODP0, ODP1>>

Take(b, k) == SubSeq(b, 1, k)
Drop(b, k) == SubSeq(b, k + 1, Len(b))
Marks(k) == [i \in 1..k |-> 1]
ByteBits(v) == [i \in 1..8 |-> (v \div 2^(8 - i)) % 2]
BitsVal(b) == FoldLeft(LAMBDA acc, x : 2 * acc + x, 0, b)

\* CHAR_DATA after REVERSE_BITS: start bit, the data bits least significant
\* first, stop bit (lines 76-79, 98-101)
CharFrame(ch) == <<0>> \o Reverse(ByteBits(ch)) \o <<1>>

-----------------------------------------------------------------------------
(* Transmitters.  Each returns the new register and the bits sent.         *)

\* modem_detector_get_bits (212-245): drain whole symbols; refill with nine
\* marks and, once tx_count > 0, a start bit and the next pattern char.
\* tx_count only matters through tx_count % 2 (and whether it is 0), so it
\* is kept as 0, 1 (odd) or 2 (even, not 0).
NextCount(tc) == IF tc = 0 THEN 0 ELSE 3 - tc

RECURSIVE det_get(_, _, _, _, _)
det_get(s, p, tc, cnt, out) ==
  IF cnt = 0 THEN [pack |-> p, tx_count |-> tc, out |-> out]
  ELSE IF Len(p) >= NBits
  THEN det_get(s, Drop(p, NBits), tc, cnt - 1, out \o Take(p, NBits))
  ELSE det_get(s, p \o Marks(9) \o (IF tc > 0
                                    THEN <<0>> \o ByteBits(tx_pattern(s)[(tc % 2) + 1])
                                    ELSE <<>>),
               NextCount(tc), cnt, out)

\* modem_hdlc_get_bits (415-469): drain whole symbols; with no tx frame a
\* flag, then the frame get_tx_frame hands over, if any (f: its bits)
RECURSIVE hdlc_get(_, _, _, _)
hdlc_get(p, f, cnt, out) ==
  IF cnt = 0 THEN [pack |-> p, frame |-> f, out |-> out]
  ELSE IF Len(p) >= NBits
  THEN hdlc_get(Drop(p, NBits), f, cnt - 1, out \o Take(p, NBits))
  ELSE hdlc_get(p \o H!FlagBits \o f, <<>>, cnt, out)

\* modem_async_get_bits (84-127): drain whole symbols; refill with the next
\* char get_chars returns; without one, send what is left followed by stop
\* bits, then whole symbols of stop bits (idle marks).
RECURSIVE async_get(_, _, _, _)
async_get(p, q, cnt, out) ==
  IF cnt > 0 /\ Len(p) >= NBits
  THEN async_get(Drop(p, NBits), q, cnt - 1, out \o Take(p, NBits))
  ELSE IF cnt > 0 /\ q # <<>>
  THEN async_get(p \o CharFrame(Head(q)), Tail(q), cnt, out)
  ELSE IF cnt > 0 /\ p # <<>>
  THEN [pack |-> <<>>, q |-> q,
        out |-> out \o p \o Marks(NBits - Len(p)) \o Marks((cnt - 1) * NBits)]
  ELSE [pack |-> p, q |-> q, out |-> out \o Marks(cnt * NBits)]

-----------------------------------------------------------------------------
(* Receivers.                                                              *)

\* the stop-bit (async) or mark (detector) skipping loop of put_bits
RECURSIVE SkipMarks(_)
SkipMarks(u) == IF u # <<>> /\ Head(u) = 1 THEN SkipMarks(Tail(u)) ELSE u

\* the char in the oldest ten bits: ch = s->data >> (s->bit - 9) as a u8,
\* that is the eight bits after the start bit, most significant first
RawChar(u) == BitsVal(SubSeq(u, 2, 9))

\* one char of the detector's switch (lines 262-310), for modem s
det_char(s, x, ch) ==
  CASE ch = HDLC_FLAG ->
         [x EXCEPT !.ec_enable = TRUE, !.timer = "finish",
                   !.bit_timer = PatternSize]
    [] x.rx_count = 0 ->
         [x EXCEPT !.rx_count = IF ch = rx_pattern(s)[1] THEN 1 ELSE 0]
    [] x.rx_count >= 2 -> x
    [] ch = ODP1 /\ s = "answer" ->
         [x EXCEPT !.tx_count = 1, !.rx_count = 2, !.ec_enable = TRUE,
                   !.timer = "finish", !.bit_timer = MaxTxPatterns * PatternSize]
    [] ch = ODP1 -> [x EXCEPT !.rx_count = 0]
    [] ch = ADP1_V14 ->
         [x EXCEPT !.rx_count = 2, !.ec_enable = FALSE, !.timer = "finish",
                   !.bit_timer = PatternSize]
    [] ch = ADP1_V42 ->
         [x EXCEPT !.ec = TRUE, !.rx_count = 2, !.ec_enable = TRUE,
                   !.timer = "finish", !.bit_timer = PatternSize]
    [] OTHER -> [x EXCEPT !.rx_count = 0]

\* the inner loop: every whole char in the register (lines 259-311)
RECURSIVE det_chars(_, _)
det_chars(s, x) ==
  IF Len(x.unpack) >= 10
  THEN det_chars(s, det_char(s, [x EXCEPT !.unpack = Drop(@, 10)],
                             RawChar(x.unpack)))
  ELSE x

\* modem_detector_put_bits (247-314): one symbol at a time
RECURSIVE det_put(_, _, _)
det_put(s, x, bits) ==
  IF bits = <<>> THEN x
  ELSE det_put(s, det_chars(s, [x EXCEPT !.unpack =
                                  SkipMarks(@ \o Take(bits, NBits))]),
               Drop(bits, NBits))

\* mutant of async_chars: the char is passed on without REVERSE_BITS
RECURSIVE async_chars_unreversed(_, _)
async_chars_unreversed(u, got) ==
  IF Len(u) >= 10
  THEN async_chars_unreversed(Drop(u, 10), Append(got, BitsVal(SubSeq(u, 2, 9))))
  ELSE [unpack |-> u, got |-> got]

\* modem_async_put_bits (129-152): one symbol at a time; each whole char,
\* bit-reversed back, goes to put_chars
RECURSIVE async_chars(_, _)
async_chars(u, got) ==
  IF Len(u) >= 10
  THEN async_chars(Drop(u, 10), Append(got, BitsVal(Reverse(SubSeq(u, 2, 9)))))
  ELSE [unpack |-> u, got |-> got]

RECURSIVE async_put(_, _, _)
async_put(u, bits, got) ==
  IF bits = <<>> THEN [unpack |-> u, got |-> got]
  ELSE LET r == async_chars(SkipMarks(u \o Take(bits, NBits)), got)
       IN async_put(r.unpack, Drop(bits, NBits), r.got)

-----------------------------------------------------------------------------
(* Link states of one modem.  "detect": EC_ESTAB with the detector packer; *)
(* "hdlc": STATUS_PACK_LINK with m->cfg.ec, the HDLC packer and LAPM       *)
(* started; "async": STATUS_PACK_LINK without it, online through the async *)
(* packer.  bit_timer is m->bit_timer, timer the bit_timer_func it calls.  *)
States == {"detect", "hdlc", "async"}
TimerFuncs == {"none", "start", "finish", "negotiate"}

\* modem_async_start (154-160), then STATUS_EC_LINK: online
modem_async_start(x) ==
  [x EXCEPT !.st = "async", !.pack = <<>>, !.unpack = <<>>,
            !.timer = "none", !.bit_timer = 0]

\* modem_hdlc_start (576-596): no tx frame, registers and bit timer clear
modem_hdlc_start(x) ==
  [x EXCEPT !.st = "hdlc", !.pack = <<>>, !.unpack = <<>>,
            !.frame = <<>>,
            !.timer = "none", !.bit_timer = 0]

\* modem_ec_start (modem_ec.c 1383-1402): the caller arms the bit timer
\* for modem_ec_negotiate; the answerer's LAPM only answers what it gets
modem_ec_start(s, x) ==
  IF s = "caller"
  THEN [x EXCEPT !.timer = "negotiate", !.bit_timer = NegotiateDelay]
  ELSE x

\* modem_ec_negotiate (1376-1381): lapm_config sends the XID frame
modem_ec_negotiate(x) == [x EXCEPT !.frame = XidBits]

\* modem_update_status(STATUS_PACK_LINK) (modem.c 499-515)
pack_link(s, x) ==
  IF x.ec THEN modem_ec_start(s, modem_hdlc_start(x)) ELSE modem_async_start(x)

\* mutant of detector_finish: m->cfg.ec is left as it was at CONNECT
detector_finish_keeps_ec(s, x) == pack_link(s, x)

\* detector_start (198-202) and detector_finish (204-210)
detector_start(x) == [x EXCEPT !.tx_count = 1]
detector_finish(s, x) == pack_link(s, [x EXCEPT !.ec = x.ec_enable])

\* mutant of bit_timer_tick: an expired timer is not reset to 0
bit_timer_tick_no_reset(s, x, bits) ==
  IF x.bit_timer = 0 \/ x.bit_timer - bits > 0
  THEN [x EXCEPT !.bit_timer = IF @ = 0 THEN 0 ELSE @ - bits]
  ELSE LET y == [x EXCEPT !.bit_timer = @ - bits]
       IN CASE x.timer = "start" -> detector_start(y)
            [] x.timer = "finish" -> detector_finish(s, y)
            [] x.timer = "negotiate" -> modem_ec_negotiate(y)
            [] OTHER -> y

\* the bit timer of modem_get_bits (modem.c 602-605), after n*nbits bits
bit_timer_tick(s, x, bits) ==
  IF x.bit_timer = 0 \/ x.bit_timer - bits > 0
  THEN [x EXCEPT !.bit_timer = IF @ = 0 THEN 0 ELSE @ - bits]
  ELSE LET y == [x EXCEPT !.bit_timer = 0]
       IN CASE x.timer = "start" -> detector_start(y)
            [] x.timer = "finish" -> detector_finish(s, y)
            [] x.timer = "negotiate" -> modem_ec_negotiate(y)
            [] OTHER -> y

\* mutant of modem_detector_start: the answerer's T400 is not armed
modem_detector_start_no_t400(s, x) ==
  [x EXCEPT !.st = "detect", !.tx_count = 0, !.rx_count = 0,
            !.ec_enable = FALSE, !.pack = <<>>, !.unpack = <<>>,
            !.timer = IF s = "caller" THEN "start" ELSE "finish",
            !.bit_timer = IF s = "caller" THEN StartDelay ELSE 0]

\* modem_detector_start (316-336) for modem s
modem_detector_start(s, x) ==
  [x EXCEPT !.st = "detect", !.tx_count = 0, !.rx_count = 0,
            !.ec_enable = FALSE, !.pack = <<>>, !.unpack = <<>>,
            !.timer = IF s = "caller" THEN "start" ELSE "finish",
            !.bit_timer = IF s = "caller" THEN StartDelay ELSE T400]

\* mutant of dp_link: the detector starts whatever m->cfg.ec says
dp_link_always_detect(s, ec) ==
  LET x == [st |-> "detect", ec |-> ec, tx_count |-> 0, rx_count |-> 0,
            ec_enable |-> FALSE, timer |-> "none", bit_timer |-> 0,
            pack |-> <<>>, unpack |-> <<>>, q |-> TermData[s], got |-> <<>>,
            frame |-> <<>>]
  IN modem_detector_start(s, x)

\* modem_update_status(STATUS_DP_LINK) (modem.c 483-498): the detector when
\* m->cfg.ec is set, the async packer straight away when it is not
dp_link(s, ec) ==
  LET x == [st |-> "detect", ec |-> ec, tx_count |-> 0, rx_count |-> 0,
            ec_enable |-> FALSE, timer |-> "none", bit_timer |-> 0,
            pack |-> <<>>, unpack |-> <<>>, q |-> TermData[s], got |-> <<>>,
            frame |-> <<>>]
  IN IF ec THEN modem_detector_start(s, x) ELSE pack_link(s, x)

\* the packer's get_bits for cnt symbols: [x |-> modem, out |-> bits]
packer_get(s, x, cnt) ==
  CASE x.st = "detect" ->
         LET g == det_get(s, x.pack, x.tx_count, cnt, <<>>)
         IN [x |-> [x EXCEPT !.pack = g.pack, !.tx_count = g.tx_count],
             out |-> g.out]
    [] x.st = "async" ->
         LET g == async_get(x.pack, x.q, cnt, <<>>)
         IN [x |-> [x EXCEPT !.pack = g.pack, !.q = g.q], out |-> g.out]
    [] OTHER ->
         LET g == hdlc_get(x.pack, x.frame, cnt, <<>>)
         IN [x |-> [x EXCEPT !.pack = g.pack, !.frame = g.frame], out |-> g.out]

\* the packer's put_bits; the HDLC receiver is the subject of Hdlc.tla
packer_put(s, x, bits) ==
  CASE x.st = "detect" -> det_put(s, x, bits)
    [] x.st = "async" ->
         LET r == async_put(x.unpack, bits, x.got)
         IN [x EXCEPT !.unpack = r.unpack, !.got = r.got]
    [] OTHER -> x

-----------------------------------------------------------------------------
Init ==
  /\ conf \in Configs
  /\ m = [s \in Sides |-> dp_link(s, conf[s])]
  /\ line = [s \in Sides |-> <<>>]
  /\ lead = 0

\* lead after modem s transmits cnt more symbols
NextLead(s, cnt) ==
  IF s = "caller" THEN lead + cnt * NBits ELSE lead - cnt * NBits

\* The pump of modem s may transmit cnt symbols: on every block it hands
\* the received symbols to modem_put_bits before it asks modem_get_bits
\* for the same number (dp_dummy.c), so no whole block is left waiting
\* on line[s]; both pumps run at the same symbol rate, so neither gets
\* more than MaxSkew bits ahead of the other.
CanGet(s, cnt) ==
  /\ Len(line[s]) < cnt * NBits
  /\ NextLead(s, cnt) \in -MaxSkew..MaxSkew
  /\ Len(line[Peer(s)]) + cnt * NBits <= LineCap

\* the data pump of modem s calls modem_get_bits for cnt symbols: the
\* packer fills them, then the bit timer runs
GetBits(s) ==
  \E cnt \in Counts :
    /\ CanGet(s, cnt)
    /\ \E g \in {packer_get(s, m[s], cnt)} :
         /\ m' = [m EXCEPT ![s] = bit_timer_tick(s, g.x, cnt * NBits)]
         /\ line' = [line EXCEPT ![Peer(s)] = @ \o g.out]
    /\ lead' = NextLead(s, cnt)
    /\ UNCHANGED conf

\* the data pump of modem s calls modem_put_bits with cnt symbols
PutBits(s) ==
  \E cnt \in Counts :
    /\ cnt * NBits <= Len(line[s])
    /\ \E x \in {packer_put(s, m[s], Take(line[s], cnt * NBits))} :
         m' = [m EXCEPT ![s] = x]
    /\ line' = [line EXCEPT ![s] = Drop(@, cnt * NBits)]
    /\ UNCHANGED <<lead, conf>>

Next == \E s \in Sides : GetBits(s) \/ PutBits(s)

\* The pump calls both on every block of samples: weak fairness of
\* GetBits(s) and PutBits(s), written out as WF_vars(A) is defined,
\*   <>[](ENABLED <<A>>_vars) => []<><<A>>_vars,
\* with ENABLED and the step of A stated directly: every GetBits(s) step
\* moves lead, so the action is enabled exactly when its guards let some
\* cnt through; only a GetBits(s) step moves lead towards s's side, and
\* only a PutBits(s) step shortens line[s].
GetReady(s) == \E cnt \in Counts : CanGet(s, cnt)
PutReady(s) == \E cnt \in Counts : cnt * NBits <= Len(line[s])
GetStep(s) == IF s = "caller" THEN lead' > lead ELSE lead' < lead
PutStep(s) == Len(line'[s]) < Len(line[s])

Fairness ==
  \A s \in Sides :
    /\ <>[]GetReady(s) => []<><<GetStep(s)>>_vars
    /\ <>[]PutReady(s) => []<><<PutStep(s)>>_vars

Spec == Init /\ [][Next]_vars /\ Fairness

-----------------------------------------------------------------------------
TypeOK ==
  /\ conf \in Configs /\ lead \in -MaxSkew..MaxSkew
  /\ \A s \in Sides :
       /\ m[s].st \in States /\ m[s].ec \in BOOLEAN
       /\ m[s].tx_count \in 0..2 /\ m[s].rx_count \in 0..2
       /\ m[s].ec_enable \in BOOLEAN /\ m[s].timer \in TimerFuncs
       /\ m[s].bit_timer \in
            0..Max({T400, StartDelay, NegotiateDelay, MaxTxPatterns * PatternSize})
       /\ m[s].pack \in Seq(Bit) /\ m[s].unpack \in Seq(Bit)
       /\ Len(m[s].unpack) < 10 + NBits
       /\ m[s].q \in Seq(Byte) /\ m[s].got \in Seq(Byte) /\ line[s] \in Seq(Bit)
       /\ Len(line[s]) <= LineCap

\* Both modems leave the detection phase in the same mode: either both run
\* HDLC and LAPM or both the async packer.  Each decides on its own, from
\* what its detector made of the other's patterns, flags and data, and the
\* answerer also on its T400.  A caller without error correction whose
\* terminal writes '~' (TermData <- MCFlagData) violates it: a single 0x7e
\* char counts as flags (modem_pack.c:265).
EcAgree ==
  (\A s \in Sides : m[s].st # "detect") => m["caller"].st = m["answer"].st

\* Every call leaves the detection phase: the caller on the answerer's ADP
\* or flags, the answerer on the caller's ODP, flags or its T400.
DetectionEnds == <>(\A s \in Sides : m[s].st # "detect")

\* What the async packer hands to put_chars is what the other modem's
\* terminal wrote, in order, without loss or gaps, for NBits-bit symbols
\* and whatever the split of the bits into calls.
AsyncIntact == \A s \in Sides : IsPrefix(m[s].got, TermData[Peer(s)])

\* Between two modems that both start without error correction, everything
\* one terminal writes eventually reaches the other's put_chars: the last
\* char is not kept in the pack register for want of a whole symbol.
AsyncDelivered ==
  (\A s \in Sides : ~conf[s]) =>
    <>(\A s \in Sides : m[s].got = TermData[Peer(s)])
====
