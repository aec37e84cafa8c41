------------------------------- MODULE V42bis -------------------------------
(***************************************************************************)
(* The V.42bis compressor of slmodemd (modem_comp.c) between two modems:   *)
(* the encoder of one modem fed by its terminal through                    *)
(* modem_comp_get_chars, the decoder of the other fed with the I-frame     *)
(* payloads LAPM delivers through modem_comp_put_chars (modem.c 946-1011). *)
(* Both sides keep a dictionary trie of struct dict entries linked by      *)
(* parent, child and next.  Characters are bytes; only the root entries of *)
(* the characters in Alphabet and the entries from FIRST_FREE on can ever  *)
(* be touched, so the dictionary is kept over those entries (and entry 0). *)
(***************************************************************************)
EXTENDS Integers, Sequences, FiniteSets, SequencesExt, Bitwise

CONSTANTS
  Alphabet,    \* the byte values the terminal sends
  DictSize,    \* c->dict_size
  MaxString,   \* c->max_string
  InfoSize,    \* n of get_chars: LAPM's tx_info_size
  OutBufSize,  \* sizeof(m->comp.buf)
  MaxInput,    \* the most characters the terminal sends
  MaxFrames,   \* the most I-frames in flight (the LAPM window)
  MaxPolls     \* the most get_chars calls LAPM makes

\* V42bis constants (lines 68-85)
CHAR_SIZE   == 8
TOTAL_CHARS == 256
FIRST_ENTRY == 3
FIRST_FREE  == TOTAL_CHARS + FIRST_ENTRY
CCW_ETM     == 0
CCW_FLUSH   == 1
CCW_STEPUP  == 2
CC_ECM      == 0
CC_EID      == 1
CC_RESET    == 2
ESCAPE_STEP == 51
TEST_SLICE  == 256

ASSUME /\ Alphabet \subseteq 0..255 /\ Alphabet # {}
       /\ DictSize > FIRST_FREE /\ MaxString \in 1..34
       /\ InfoSize \in Nat \ {0} /\ OutBufSize \in Nat \ {0}

Entries == {0} \cup {a + FIRST_ENTRY : a \in Alphabet} \cup FIRST_FREE..(DictSize - 1)

IsEntry(r) == r \in [ch : 0..255, parent : Entries, child : Entries, next : Entries]

\* comp_init (lines 721-747): a zeroed dictionary whose root entries carry
\* their character
InitDict == [e \in Entries |->
               [ch |-> IF e \in FIRST_ENTRY..(FIRST_FREE - 1) THEN e - FIRST_ENTRY ELSE 0,
                parent |-> 0, child |-> 0, next |-> 0]]

\* dict_init (lines 128-149) on the dictionary and the coding state
dict_init(c) ==
  [c EXCEPT !.dict = [e \in Entries |-> [@[e] EXCEPT !.parent = 0, !.child = 0, !.next = 0]],
            !.next_free = FIRST_FREE, !.last_matched = 0, !.update_at = 0,
            !.last_added = 0, !.cw_size = CHAR_SIZE + 1,
            !.threshold = TOTAL_CHARS * 2, !.bit_len = 0, !.flushed_len = 0,
            !.str = <<>>, !.escape_char = 0, !.cmp_last = TEST_SLICE * 8,
            !.mode = "TRANSPARENT", !.escape = FALSE]

\* a struct comp_state after comp_init(c, DictSize, MaxString)
InitComp ==
  dict_init([dict |-> InitDict, next_free |-> 0, last_matched |-> 0,
             update_at |-> 0, last_added |-> 0, cw_size |-> 0, threshold |-> 0,
             bit_len |-> 0, bit_data |-> 0, flushed_len |-> 0, str |-> <<>>,
             escape_char |-> 0, cmp_last |-> 0, mode |-> "TRANSPARENT",
             escape |-> FALSE, obuf |-> <<>>])

\* the siblings from e on: the child list of a node
RECURSIVE FindChild(_, _, _)
FindChild(d, e, ch) ==
  IF e = 0 THEN 0 ELSE IF d[e].ch = ch THEN e ELSE FindChild(d, d[e].next, ch)

\* match_char (lines 152-164)
match_char(c, at, ch) ==
  IF at = 0 THEN ch + FIRST_ENTRY ELSE FindChild(c.dict, c.dict[at].child, ch)

\* the do-while of add_char: the next entry without children, wrapping
\* from dict_size to FIRST_FREE
RECURSIVE NextLeaf(_, _)
NextLeaf(d, n) ==
  LET m == IF n + 1 = DictSize THEN FIRST_FREE ELSE n + 1
  IN IF d[m].child # 0 THEN NextLeaf(d, m) ELSE m

\* the sibling whose next is x, from e on
RECURSIVE PrevSibling(_, _, _)
PrevSibling(d, e, x) == IF d[e].next = x THEN e ELSE PrevSibling(d, d[e].next, x)

\* mutant: the leaf taken as next_free stays linked under its parent
add_char_no_unlink(c, at, ch) ==
  LET new == c.next_free
      d1  == [c.dict EXCEPT ![new].ch = ch, ![new].parent = at, ![new].child = 0]
      d2  == [d1 EXCEPT ![new].next = d1[at].child]
      d3  == [d2 EXCEPT ![at].child = new]
  IN [c |-> [c EXCEPT !.dict = d3, !.next_free = NextLeaf(d3, new)], new |-> new]

\* add_char (lines 167-196): link the new entry first in the child list of
\* at, then take the next leaf as next_free, unlinking it from its parent
add_char(c, at, ch) ==
  LET new == c.next_free
      d1  == [c.dict EXCEPT ![new].ch = ch, ![new].parent = at, ![new].child = 0]
      d2  == [d1 EXCEPT ![new].next = d1[at].child]
      d3  == [d2 EXCEPT ![at].child = new]
      nx  == NextLeaf(d3, new)
      e   == d3[nx].parent
      d4  == IF e = 0 THEN d3
             ELSE IF d3[e].child = nx THEN [d3 EXCEPT ![e].child = d3[nx].next]
             ELSE LET p == PrevSibling(d3, d3[e].child, nx)
                  IN [d3 EXCEPT ![p].next = d3[nx].next]
  IN [c |-> [c EXCEPT !.dict = d4, !.next_free = nx], new |-> new]

\* the string of an entry, read up its parents
RECURSIVE StringOf(_, _)
StringOf(d, e) == IF e = 0 THEN <<>> ELSE Append(StringOf(d, d[e].parent), d[e].ch)

\* the escape character moved past each of its occurrences in s, in order
RECURSIVE EscapeAfter(_, _)
EscapeAfter(esc, s) ==
  IF s = <<>> THEN esc
  ELSE EscapeAfter(IF Head(s) = esc THEN (esc + ESCAPE_STEP) % 256 ELSE esc, Tail(s))

(***************************************************************************)
(* Encoder (lines 431-651).  obuf holds obuf[ohead..olen-1]; str holds     *)
(* str_data[0..str_len-1].                                                 *)
(***************************************************************************)

\* SEND_CW, ALIGN_BITS and SEND_BITS (lines 431-439); bit_data, a u32,
\* never holds more than bit_len + cw_size < 32 bits, so it cannot wrap
SEND_CW(c, cw) ==
  [c EXCEPT !.bit_data = @ | (cw * 2^c.bit_len), !.bit_len = @ + c.cw_size]

ALIGN_BITS(c) ==
  IF c.bit_len % 8 # 0 THEN [c EXCEPT !.bit_len = @ + 8 - (@ % 8)] ELSE c

\* mutant: SEND_BITS masks a codeword's width instead of a byte
RECURSIVE SEND_BITS_cw_mask(_)
SEND_BITS_cw_mask(c) ==
  IF c.bit_len < 8 THEN c
  ELSE SEND_BITS_cw_mask([c EXCEPT !.obuf = Append(@, c.bit_data % 2^c.cw_size),
                                   !.bit_data = @ \div 256, !.bit_len = @ - 8])

RECURSIVE SEND_BITS(_)
SEND_BITS(c) ==
  IF c.bit_len < 8 THEN c
  ELSE SEND_BITS([c EXCEPT !.obuf = Append(@, c.bit_data % 256),
                           !.bit_data = @ \div 256, !.bit_len = @ - 8])

\* mutant: the escape character is not moved on after an escape
RECURSIVE SendTransparent_no_step(_, _)
SendTransparent_no_step(c, s) ==
  IF s = <<>> THEN c
  ELSE LET c1 == [c EXCEPT !.obuf = Append(@, Head(s))]
       IN SendTransparent_no_step(IF Head(s) = c.escape_char
                                  THEN [c1 EXCEPT !.obuf = Append(@, CC_EID)]
                                  ELSE c1, Tail(s))

\* the transparent-mode loop of send_data: each character, and CC_EID after
\* one equal to the escape character, which then moves on
RECURSIVE SendTransparent(_, _)
SendTransparent(c, s) ==
  IF s = <<>> THEN c
  ELSE LET c1 == [c EXCEPT !.obuf = Append(@, Head(s))]
       IN SendTransparent(IF Head(s) = c.escape_char
                          THEN [c1 EXCEPT !.obuf = Append(@, CC_EID),
                                          !.escape_char = (@ + ESCAPE_STEP) % 256]
                          ELSE c1, Tail(s))

\* the STEPUP loop of send_data; threshold is a u16
RECURSIVE StepUp(_, _)
StepUp(c, cw) ==
  IF cw < c.threshold THEN c
  ELSE StepUp([SEND_BITS(SEND_CW(c, CCW_STEPUP))
                 EXCEPT !.threshold = (@ * 2) % 2^16, !.cw_size = @ + 1], cw)

\* send_data (lines 444-492): the compression statistic cmp_last (a u16),
\* then the string as characters or as the codeword cw
send_data(c, cw) ==
  LET c1 == [c EXCEPT !.cmp_last =
                 (@ + c.cw_size - (@ * Len(c.str)) \div TEST_SLICE) % 2^16]
      c2 == IF c.mode = "TRANSPARENT" THEN SendTransparent(c1, c.str)
            ELSE SEND_BITS(SEND_CW(StepUp([c1 EXCEPT !.escape_char =
                                             EscapeAfter(@, c.str)], cw), cw))
  IN [c2 EXCEPT !.str = <<>>, !.flushed_len = 0]

\* the mode switches of test_mode and comp_flush_encoder: the string
\* matched so far is sent and the dictionary is to be updated at it
SendMatched(c) ==
  IF c.last_matched = 0 THEN c
  ELSE [send_data([c EXCEPT !.update_at = c.last_matched], c.last_matched)
          EXCEPT !.last_matched = 0]

\* test_mode (lines 495-541)
test_mode(c) ==
  CASE c.mode = "TRANSPARENT" /\ c.cmp_last < TEST_SLICE * 8 - 11 ->
         LET c1 == SendMatched(c)
         IN [c1 EXCEPT !.obuf = @ \o <<c1.escape_char, CC_ECM>>,
                       !.bit_data = 0, !.mode = "COMPRESSED"]
    [] c.mode = "COMPRESSED" /\ c.cmp_last > TEST_SLICE * 8 ->
         [SEND_BITS(ALIGN_BITS(SEND_CW([SendMatched(c) EXCEPT !.last_added = 0],
                                       CCW_ETM)))
            EXCEPT !.mode = "TRANSPARENT"]
    [] OTHER -> c

\* mutant: the flush leaves the string matched so far unsent
comp_flush_encoder_keeps_string(c) ==
  IF c.update_at # 0 \/ c.mode # "COMPRESSED" THEN c
  ELSE SEND_BITS(ALIGN_BITS(SEND_CW(
         [c EXCEPT !.update_at = c.last_matched, !.last_matched = 0,
                   !.flushed_len = 0], CCW_FLUSH)))

\* comp_flush_encoder (lines 544-573): nothing while an update is pending;
\* the string so far is sent, and in compressed mode FLUSH ends the string
comp_flush_encoder(c) ==
  IF c.update_at # 0 THEN c
  ELSE LET c1 == IF c.last_matched = 0 THEN c
                 ELSE [send_data(c, c.last_matched)
                         EXCEPT !.flushed_len = c.flushed_len + Len(c.str)]
       IN IF c1.mode # "COMPRESSED" THEN c1
          ELSE SEND_BITS(ALIGN_BITS(SEND_CW(
                 [c1 EXCEPT !.update_at = c1.last_matched, !.last_matched = 0,
                            !.flushed_len = 0], CCW_FLUSH)))

\* the dictionary update both sides make at update_at with the character
\* that follows the string sent last (lines 584-592 and 384-392)
UpdateAt(c, ch) ==
  IF c.update_at = 0 THEN c
  ELSE [IF match_char(c, c.update_at, ch) # 0 THEN c
        ELSE LET r == add_char(c, c.update_at, ch)
             IN [r.c EXCEPT !.last_added = r.new]
          EXCEPT !.update_at = 0]

\* comp_encode (lines 578-651) of one character: rounds of the for loop
\* until the character is collected into the string, test_mode after each
RECURSIVE comp_encode(_, _)
comp_encode(c, ch) ==
  LET c1 == UpdateAt(c, ch)
      cw == match_char(c1, c1.last_matched, ch)
      c2 == [c1 EXCEPT !.last_matched = cw, !.str = Append(@, ch)]
      \* no child for ch (update at the string sent) or the entry just
      \* added (not usable yet): the string so far is sent, and the
      \* character is tried again from the root
      sent == [send_data(IF cw = 0
                         THEN [c1 EXCEPT !.update_at = c1.last_matched]
                         ELSE [c1 EXCEPT !.last_added = 0], c1.last_matched)
                 EXCEPT !.last_matched = 0]
  IN IF cw = 0 \/ cw = c1.last_added
     THEN comp_encode(test_mode(sent), ch)
     ELSE IF Len(c2.str) + c2.flushed_len = MaxString
     THEN test_mode([send_data(c2, cw) EXCEPT !.last_matched = 0])
     ELSE test_mode(c2)
(***************************************************************************)
(* Decoder (lines 207-423).  A step of it yields [c |-> state, err |->     *)
(* whether comp_decode returned -1].                                       *)
(***************************************************************************)

\* send_string (lines 207-220)
send_string(c) == [c EXCEPT !.obuf = @ \o c.str, !.str = <<>>, !.flushed_len = 0]

\* recv_data (lines 223-239): the string of cw appended to str
recv_data(c, cw) == [c EXCEPT !.str = @ \o StringOf(c.dict, cw)]

\* comp_flush_decoder (lines 242-252)
comp_flush_decoder(c) ==
  [send_string(c) EXCEPT !.flushed_len = c.flushed_len + Len(c.str)]

Ok(c)  == [c |-> c, err |-> FALSE]
Fail(c) == [c |-> c, err |-> TRUE]

\* a regular codeword (lines 299-340)
DecodeCodeword(c, cw) ==
  LET c1 == recv_data(c, cw)
      ch == c1.str[1]
      p  == match_char(c1, c1.update_at, ch)
      r  == add_char(c1, c1.update_at, ch)
      c2 == IF c1.update_at = 0 THEN c1
            ELSE IF p = 0 THEN [r.c EXCEPT !.last_added = r.new]
            ELSE IF p = c1.last_added THEN [c1 EXCEPT !.last_added = 0]
            ELSE c1
      c3 == [c2 EXCEPT !.update_at = IF Len(c2.str) + c2.flushed_len = MaxString
                                     THEN 0 ELSE cw,
                       !.escape_char = EscapeAfter(@, c2.str)]
  IN IF cw = c.next_free THEN Fail(c)
     ELSE IF c1.update_at # 0 /\ p = 0 /\ cw = c2.next_free THEN Fail(c2)
     ELSE Ok(send_string(c3))

\* the COMPRESSED case of comp_decode (lines 262-342) for one byte: at most
\* one codeword is complete after it
DecodeCompressed(c, b) ==
  LET c1 == [c EXCEPT !.bit_data = @ | (b * 2^c.bit_len),
                      !.bit_len = @ + 8]
      cw == c1.bit_data & (2^c1.cw_size - 1)
      c2 == [c1 EXCEPT !.bit_data = @ \div 2^c1.cw_size, !.bit_len = @ - c1.cw_size]
  IN IF c1.bit_len < c1.cw_size THEN Ok(c1)
     ELSE CASE cw = CCW_ETM ->
                 Ok([c2 EXCEPT !.bit_len = 0, !.mode = "TRANSPARENT",
                               !.last_matched = 0, !.last_added = 0])
            [] cw = CCW_FLUSH -> Ok([c2 EXCEPT !.bit_len = 0])
            [] cw = CCW_STEPUP ->
                 LET c3 == [c2 EXCEPT !.cw_size = @ + 1, !.threshold = (@ * 2) % 2^16]
                 IN IF c3.cw_size > DictSize \div 8 THEN Fail(c3) ELSE Ok(c3)
            [] OTHER -> DecodeCodeword(c2, cw)

\* mutant: last_added is kept when the match reaches it
RECURSIVE DecodeTransparent_keeps_last_added(_, _)
DecodeTransparent_keeps_last_added(c, b) ==
  LET e  == [c EXCEPT !.escape = FALSE]
      d  == IF c.escape /\ b = CC_EID
            THEN [e EXCEPT !.escape_char = (@ + ESCAPE_STEP) % 256] ELSE c
      ch == IF c.escape /\ b = CC_EID THEN c.escape_char ELSE b
      c1 == UpdateAt(d, ch)
      cw == match_char(c1, c1.last_matched, ch)
      c2 == [c1 EXCEPT !.last_matched = cw, !.str = Append(@, ch)]
  IN IF c.escape /\ b = CC_ECM
     THEN Ok([send_string(e) EXCEPT !.mode = "COMPRESSED",
                                    !.update_at = e.last_matched, !.last_matched = 0])
     ELSE IF c.escape /\ b = CC_RESET THEN Ok(dict_init(send_string(e)))
     ELSE IF c.escape /\ b \notin {CC_ECM, CC_EID, CC_RESET} THEN Fail(e)
     ELSE IF ~c.escape /\ b = c.escape_char THEN Ok([c EXCEPT !.escape = TRUE])
     ELSE IF cw = 0
     THEN DecodeTransparent_keeps_last_added(
            [send_string([c1 EXCEPT !.update_at = c1.last_matched])
               EXCEPT !.last_matched = 0], ch)
     ELSE IF cw = c1.last_added
     THEN DecodeTransparent_keeps_last_added(
            [send_string(c1) EXCEPT !.last_matched = 0], ch)
     ELSE IF Len(c2.str) + c2.flushed_len = MaxString
     THEN Ok([send_string(c2) EXCEPT !.last_matched = 0])
     ELSE Ok(c2)

\* the TRANSPARENT case of comp_decode (lines 343-417), repeated on the same
\* byte until it is consumed; after CC_EID the byte is the old escape
\* character
RECURSIVE DecodeTransparent(_, _)
DecodeTransparent(c, b) ==
  LET e  == [c EXCEPT !.escape = FALSE]
      d  == IF c.escape /\ b = CC_EID
            THEN [e EXCEPT !.escape_char = (@ + ESCAPE_STEP) % 256] ELSE c
      ch == IF c.escape /\ b = CC_EID THEN c.escape_char ELSE b
      c1 == UpdateAt(d, ch)
      cw == match_char(c1, c1.last_matched, ch)
      c2 == [c1 EXCEPT !.last_matched = cw, !.str = Append(@, ch)]
  IN IF c.escape /\ b = CC_ECM
     THEN Ok([send_string(e) EXCEPT !.mode = "COMPRESSED",
                                    !.update_at = e.last_matched, !.last_matched = 0])
     ELSE IF c.escape /\ b = CC_RESET THEN Ok(dict_init(send_string(e)))
     ELSE IF c.escape /\ b \notin {CC_ECM, CC_EID, CC_RESET} THEN Fail(e)
     ELSE IF ~c.escape /\ b = c.escape_char THEN Ok([c EXCEPT !.escape = TRUE])
     ELSE IF cw = 0
     THEN DecodeTransparent([send_string([c1 EXCEPT !.update_at = c1.last_matched])
                               EXCEPT !.last_matched = 0], ch)
     ELSE IF cw = c1.last_added
     THEN DecodeTransparent([send_string([c1 EXCEPT !.last_added = 0])
                               EXCEPT !.last_matched = 0], ch)
     ELSE IF Len(c2.str) + c2.flushed_len = MaxString
     THEN Ok([send_string(c2) EXCEPT !.last_matched = 0])
     ELSE Ok(c2)

\* comp_decode (lines 255-423) of one byte
comp_decode(c, b) ==
  IF c.mode = "COMPRESSED" THEN DecodeCompressed(c, b) ELSE DecodeTransparent(c, b)

(***************************************************************************)
(* The modem.c side (lines 829-887 and modem.c 946-1011).  A call yields   *)
(* the state and the bytes it put in buf.                                  *)
(***************************************************************************)

\* get_odata (lines 829-843): up to n pending output bytes
get_odata(c, n) ==
  LET k == IF Len(c.obuf) < n THEN Len(c.obuf) ELSE n
  IN [c |-> [c EXCEPT !.obuf = SubSeq(@, k + 1, Len(@))], out |-> SubSeq(c.obuf, 1, k)]

\* the bytes of a later get_odata appended to those already in buf
Join(o, g) == [c |-> g.c, out |-> o \o g.out]

\* modem_comp_encode and modem_comp_flush_encoder (lines 845-854, 867-876):
\* pending output first (g1); the character is encoded, or the flush made,
\* only when that leaves room in buf
EncodeAfter(g1, ch, n, flush) ==
  IF Len(g1.out) = n THEN g1
  ELSE Join(g1.out, get_odata(IF flush THEN comp_flush_encoder(g1.c)
                              ELSE comp_encode(g1.c, ch), n - Len(g1.out)))

EncodeInto(c, ch, n, flush) == EncodeAfter(get_odata(c, n), ch, n, flush)

\* the loop of modem_comp_get_chars (modem.c 950-959): characters are taken
\* from the transmit buffer while buf (r.out so far) has room
RECURSIVE GetCharsLoop(_, _, _)
GetCharsLoop(r, xq, n) ==
  IF Len(r.out) >= n \/ xq = <<>> THEN [c |-> r.c, xmit |-> xq, out |-> r.out]
  ELSE GetCharsLoop(Join(r.out, EncodeInto(r.c, Head(xq), n - Len(r.out), FALSE)),
                    Tail(xq), n)

\* what modem_comp_get_chars leaves: the encoder, the transmit buffer, buf
\* and whether the flush was made
Sent(j, xq, flushed) == [c |-> j.c, xmit |-> xq, out |-> j.out, flushed |-> flushed]

\* modem_comp_get_chars (modem.c 946-969): then a flush if buf has room
GetCharsFlush(l, n) ==
  IF Len(l.out) < n
  THEN Sent(Join(l.out, EncodeInto(l.c, 0, n - Len(l.out), TRUE)), l.xmit, TRUE)
  ELSE Sent(l, l.xmit, FALSE)

modem_comp_get_chars(c, xq, n) ==
  GetCharsFlush(GetCharsLoop([c |-> c, out |-> <<>>], xq, n), n)

\* the output of a decode step appended to that of the frame so far
Decoded(g) == [c |-> g.c, out |-> g.out, err |-> FALSE]

PutStep(o, d) == [c |-> d.c, out |-> o \o d.out, err |-> d.err]

\* the output of comp_decode's result r after the o already in buf
DecodeOut(o, r, n) ==
  IF r.err THEN [c |-> r.c, out |-> <<>>, err |-> TRUE]
  ELSE PutStep(o, Decoded(get_odata(r.c, n - Len(o))))

\* modem_comp_decode and modem_comp_flush_decoder (lines 856-865, 878-887):
\* pending output first (g1), then the byte, or the flush, and its output
DecodeAfter(g1, b, n, flush) ==
  IF Len(g1.out) = n THEN Decoded(g1)
  ELSE DecodeOut(g1.out, IF flush THEN Ok(comp_flush_decoder(g1.c))
                         ELSE comp_decode(g1.c, b), n)

DecodeInto(c, b, n, flush) == DecodeAfter(get_odata(c, n), b, n, flush)

\* the loop of modem_comp_put_chars (modem.c 991-1001) over a frame's
\* bytes; it stops at the first byte comp_decode rejects
RECURSIVE PutCharsLoop(_, _)
PutCharsLoop(r, bs) ==
  IF bs = <<>> \/ r.err THEN r
  ELSE PutCharsLoop(PutStep(r.out, DecodeInto(r.c, Head(bs), OutBufSize, FALSE)),
                    Tail(bs))

\* modem_comp_put_chars (modem.c 986-1012): the frame, then a flush
PutCharsFlush(l) ==
  IF l.err THEN l ELSE PutStep(l.out, DecodeInto(l.c, 0, OutBufSize, TRUE))

modem_comp_put_chars(c, bs) ==
  PutCharsFlush(PutCharsLoop([c |-> c, out |-> <<>>, err |-> FALSE], bs))

(***************************************************************************)
(* The link: the sender's terminal fills xmit, its LAPM takes I-frame      *)
(* payloads from the encoder, the receiver's LAPM hands them in order to   *)
(* the decoder, whose output goes to the receiver's terminal.              *)
(***************************************************************************)

VARIABLES
  enc,      \* m->comp.encoder of the sender
  dec,      \* m->comp.decoder of the receiver
  xmit,     \* characters in the sender's transmit buffer
  frames,   \* I-frame payloads sent and not yet received, in order
  out,      \* characters the decoder has written to the terminal
  written,  \* every character the sender's terminal wrote (history)
  synced,   \* the last get_chars took every character and flushed
  status_error, \* modem_update_status(m, STATUS_ERROR) was called
  polls     \* get_chars calls so far (bounded by MaxPolls)

vars == <<enc, dec, xmit, frames, out, written, synced, status_error, polls>>

Init ==
  /\ enc = InitComp /\ dec = InitComp
  /\ xmit = <<>> /\ frames = <<>> /\ out = <<>> /\ written = <<>>
  /\ synced = TRUE /\ status_error = FALSE /\ polls = 0

\* the terminal writes a character (modem_write into the transmit buffer)
Write ==
  /\ Len(written) < MaxInput
  /\ \E ch \in Alphabet :
       /\ xmit' = Append(xmit, ch)
       /\ written' = Append(written, ch)
  /\ synced' = FALSE
  /\ UNCHANGED <<enc, dec, frames, out, status_error, polls>>

\* the encoder and buf after modem_comp_get_chars; lapm_modem_get_chars
\* makes an I-frame of a non-empty buf
Transmit(r) ==
  /\ enc' = r.c
  /\ xmit' = r.xmit
  /\ frames' = IF r.out = <<>> THEN frames ELSE Append(frames, r.out)
  /\ synced' = (r.flushed /\ r.xmit = <<>>)

\* the decoder after modem_comp_put_chars; its output goes to the terminal
Deliver(r) ==
  /\ dec' = r.c
  /\ out' = out \o r.out
  /\ status_error' = r.err

\* the sender's LAPM asks for an I-frame payload (lapm_modem_get_chars)
GetChars ==
  /\ Len(frames) < MaxFrames /\ polls < MaxPolls
  /\ polls' = polls + 1
  /\ Transmit(modem_comp_get_chars(enc, xmit, InfoSize))
  /\ UNCHANGED <<dec, out, written, status_error>>

\* the receiver's LAPM delivers the next I-frame payload
PutChars ==
  /\ frames # <<>> /\ ~status_error
  /\ Deliver(modem_comp_put_chars(dec, Head(frames)))
  /\ frames' = Tail(frames)
  /\ UNCHANGED <<enc, xmit, written, synced, polls>>

Next == Write \/ GetChars \/ PutChars

Spec == Init /\ [][Next]_vars

TypeOK ==
  /\ \A c \in {enc, dec} :
       /\ DOMAIN c.dict = Entries /\ \A e \in Entries : IsEntry(c.dict[e])
       /\ {c.next_free, c.last_matched, c.update_at, c.last_added} \subseteq Entries
       /\ c.mode \in {"TRANSPARENT", "COMPRESSED"}
       /\ c.escape_char \in 0..255 /\ c.cmp_last \in 0..(2^16 - 1)
       /\ Len(c.str) + c.flushed_len <= MaxString
  /\ xmit \in Seq(Alphabet) /\ written \in Seq(Alphabet)
  /\ out \in Seq(0..255) /\ frames \in Seq(Seq(0..255))

\* Decoding is lossless and in order (spec.md: the decoder reproduces the
\* encoder's input): what the receiver's terminal got is always a prefix of
\* what the sender's terminal wrote, and no byte made comp_decode fail.
DecodedPrefix == IsPrefix(out, written) /\ ~status_error

\* Nothing is held back: once a get_chars call has taken every character
\* and flushed the encoder (modem_comp_get_chars with ret < n), and the
\* frames are all decoded, the receiver has everything written.
Settled == synced /\ frames = <<>> /\ enc.obuf = <<>> /\ dec.obuf = <<>>

RoundTrip == Settled => out = written

\* the entries of a child list from e on, following next at most k times
RECURSIVE SiblingsFrom(_, _, _)
SiblingsFrom(d, e, k) ==
  IF e = 0 \/ k = 0 THEN {} ELSE {e} \cup SiblingsFrom(d, d[e].next, k - 1)

\* an entry on a live trie path: a root entry, or one in the child list of
\* its parent, which is itself live
RECURSIVE LiveEntry(_, _, _)
LiveEntry(d, e, k) ==
  \/ e \in FIRST_ENTRY..(FIRST_FREE - 1)
  \/ /\ k > 0 /\ e >= FIRST_FREE
     /\ e \in SiblingsFrom(d, d[d[e].parent].child, Cardinality(Entries))
     /\ LiveEntry(d, d[e].parent, k - 1)

\* spec.md: the entry next_free points at is never reachable as a child on
\* a live trie path, in encoder or decoder (add_char unlinks the leaf it
\* takes for reuse).
FreeNotLive ==
  \A c \in {enc, dec} : ~LiveEntry(c.dict, c.next_free, MaxString)

\* Encoder and decoder build the same dictionary: once the link is settled
\* they agree on every live entry, the free entry, the escape character
\* and the mode.
DictInSync ==
  Settled =>
    /\ \A e \in Entries : LiveEntry(enc.dict, e, MaxString) <=> LiveEntry(dec.dict, e, MaxString)
    /\ \A e \in Entries : LiveEntry(enc.dict, e, MaxString) => enc.dict[e] = dec.dict[e]
    /\ enc.next_free = dec.next_free
    /\ enc.escape_char = dec.escape_char
    /\ enc.mode = dec.mode



====
