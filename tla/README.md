# TLA+ models of slmodemd (D-Modem)

This directory holds TLA+ models of the soft modem in `src/slmodemd`, together with the
TLC configurations that check them. D-Modem (`src/d-modem.c`) connects slmodemd to a SIP
call: the modem's audio samples travel over a socket to a pjsua media port. Every
protocol with state lives in slmodemd:

| part | source | what it does |
|---|---|---|
| main loop | `modem_main.c` | `select()` over the audio device, the pty and the sockets. It feeds samples to `modem_process`, terminal bytes to `modem_write`, and calls `modem_event` when `m->event` is set |
| modem core | `modem.c` | the `STATE_*` machine (dial, answer, DP establish, EC establish, ONLINE, disconnect, IDLE). `modem_update_status` reacts to pump and corrector events. `modem_get_bits`/`modem_put_bits` run the bit timer and hand bits to the packer |
| timers and events | `modem_timer.c`, `modem.c` 700-805 | the SIGALRM timer list. `timer_mark_event` ORs `new_event` into `event`, which the main loop consumes in `modem_event` |
| HDLC and async packers, V.42 detector | `modem_pack.c` | bit stuffing, flags and FCS-16. Each good frame goes to the framer's `rx_complete`; the packer asks `get_tx_frame` for the next frame to send. Before them the detector exchanges ODP/ADP patterns to decide whether both modems use error correction; without it the async packer frames each char with a start and a stop bit |
| error corrector (V.42 LAPM) | `modem_ec.c` | XID negotiation, SABME/UA, windowed I-frames with acknowledgement through N(R), RR/RNR/REJ, busy handling, T401 retransmission, DISC/DM |
| compressor (V.42bis) | `modem_comp.c` | the dictionary coder between the terminal and LAPM |
| AT interpreter | `modem_at.c` | commands from the pty |
| data pumps | `dp_dummy.c`, `dp_sinus.c` | signal processing |

A byte typed at the terminal goes through `modem_write`, the xmit ring, and `get_chars` (LAPM `lapm_modem_get_chars`) into an I-frame. The packer sends the frame. On the other modem, `rx_complete` and `rx_info` take it and `put_chars` writes it to that terminal.

## Modules

### `Lapm.tla`: the LAPM error corrector between two modems

The module has two peers, `Caller` and `Answer`, joined back to back in the same way as `modem_test.c` joins them.

**State**
- `m[p]` holds the fields of `struct lapm_state` that the protocol reads:
  - the LAPM state and `vs`/`va`/`vr` (mod `SeqModulus`);
  - `busy`, `peer_busy`, `rtx_count` and `config`;
  - the control-frame ring `ctrl`;
  - the info-frame ring `info_list`, with its cursors `sent_info` and `tx_info`;
  - the saved rest of a partly delivered frame (`rx_count`/`rx_head`).
- `m[p]` also holds the fields of `struct modem` that the corrector drives:
  - `mstate`, which decides whether `get_chars`/`put_chars` and `get_bits`/`put_bits` are bound;
  - the single `bit_timer` slot (`timer`: off, t401 or negotiate);
  - `packer_process`, `framer` and the pending stop.
- `chan[p]` is the sequence of frames on the line towards p.

**Handlers**
- Every function of `modem_ec.c` that changes state is an operator from a peer record to the next one, built in the order of the C statements. A handler therefore sees the state left by the calls it makes on the way (`ack_info`, `tx_info`, `reset`, `modem_update_status`, `modem_hup`).
- The hooks of `modem.c` that LAPM calls are operators of the same module: `modem_update_status` for EC_LINK/EC_RELEASE, `modem_hup`, `modem_ec_stop`, and the binding of `get_chars`/`put_chars` in `modem_set_state`.

**Actions**

| action | code |
|---|---|
| `Transmit(p)` | `modem_hdlc_get_bits` calling `lapm_get_tx_frame`. The next control frame is sent first, then an I-frame if the window, `peer_busy` and the terminal allow; there is no send without bits flowing |
| `Receive(p)` | `modem_hdlc_put_bits` delivering a good frame to `lapm_rx_complete`. The choice `accept` is whether `put_chars` takes the whole frame or leaves a rest, which sets `busy` |
| `Lose(p)` | a frame dropped by `modem_hdlc_put_bits` for bad FCS, abort or short length (line noise; only when `LossyLine`) |
| `Timeout(p)` | the bit timer firing in `modem_get_bits`: `t401_timeout`, or `modem_ec_negotiate` for the caller's first XID |
| `PushRest(p)` | `packer_process` = `push_rest_data` delivering the saved rest and leaving busy |
| `Hangup(p)` | `modem_hangup` (ATH, DTR drop) |
| `Stop(p)` | the scheduled `modem_stop` that ends the session |

**Data abstraction.** Payloads are message numbers. `taken` counts what `get_chars` handed to LAPM, and `delivered` is the sequence `put_chars` wrote to the far terminal. XID parameter parsing is reduced to the exchange of an XID frame, because the negotiated values are constants here. `Xid.tla` models the parsing itself.

### `MCLapm.tla`

This module gives the constants their values:
- `SeqModulus` 128, as in the code, so the & 0x7f wrap is real;
- window 2, with an info ring of window + 1 slots, like the code's 15 + 1;
- control ring of 3 slots (2 usable, as the code's 8 slots hold 7);
- `MaxRtx` 0, so a single retransmission exhausts T401; the retry count does not change the order of events that can happen, only their length;
- one frame in flight per direction.

`Msgs` gives the number of messages each terminal writes: two each way in `lapm_transfer` (`TwoMsgs`), and two from the caller and one from the answerer in `lapm_lossy` (`CallerTwoMsgs`). Only the caller sends SABME, so a retransmitted SABME that resets the answerer in DATA can only meet the answerer's data. That reset rewinds the ring and drops the answerer's unacknowledged frames, as V.42 re-establishment does. With one answerer message the loss is all that happens, while the caller's two messages keep the order and gap clauses of `Integrity` live under loss. With two answerer messages the caller's terminal can receive message 2 without message 1, which is the prescribed data loss of a reset rather than a fault.

`StateBound` caps the number of connects at 2 and the delivered sequence at `MaxMsgs + 1` (enough to see a duplicate).

`PatientTimer` restricts T401 to fire only when every line and every control queue is empty. That means T401 is longer than a round trip (in the code T401 is 1.5 s of bits against frames of a few ms). Without this restriction, spurious timeouts make every run a DISC storm and the state space explodes.

`CHECK_DEADLOCK FALSE`: the session really ends. After `Stop` both modems are IDLE and nothing is enabled.

**Runs of `MCLapm`**

| run | properties | expect | what it shows |
|---|---|---|---|
| `lapm_transfer` | `TypeOK`, `WindowInv`, `Integrity`, `AllDelivered` | pass | Under `FairSpec`, on a loss-free line, two messages each way go through XID, SABME/UA, windowed I-frames, busy/RNR and REJ rewinds. The window bookkeeping (`vs - va` equals the distance of the ring cursors, at most `WinSize`) and the byte stream (each terminal gets exactly 1..k of what the other sent) hold in every interleaving of the two modems, and with weak fairness on the modem loop's steps every message is eventually delivered. |
| `lapm_lossy` | `WindowInv`, `Integrity` | pass | The same holds when frames are lost, T401 polls and retransmits, and the caller may hang up. Two caller messages fill its window of 2, and each terminal gets a gap-free, in-order, duplicate-free beginning of what the other sent (1.5 million states). |
| `lapm_establish` | `EstablishResolves` | violation | If every XID is lost, `t401_timeout` gives up in LAPM IDLE without reporting and without rearming, so the modem stays in EC_ESTAB for ever. |

**Fairness.** `Fairness` puts weak fairness on `Transmit`, `Receive`, `Timeout`, `PushRest` and `Stop` of each modem. The main loop calls `modem_process` on every block of samples, and each block runs the bit timer, the packer, `get_tx_frame` and `rx_complete`, so an enabled step is taken within one block. `Lose` and `Hangup` carry no fairness, because noise and the user are not obliged to act.

**Mutants.** Each property of a passing run is also checked against a seeded fault in the handler it is about, and TLC finds the fault:
- `tx_info` ignoring "no data";
- `reject_info` keeping the send cursor;
- `ack_info` moving only `va`;
- `rx_info` without the N(S) check, or ignoring busy;
- `push_rest_data` staying busy.

### `ModemEvent.tla`: events, the event timer, rings and escape

slmodemd runs two contexts that share `m->event`, `m->new_event` and `m->event_timer`:
- the main loop `modem_run` (modem_main.c), which calls `modem_event` when `m->event` is set, then blocks in `select()`;
- the SIGALRM handler `timer_list_handler` (modem_timer.c), which runs `timer_mark_event` for a due timer: `event |= new_event; new_event = 0`.

The handler can run between any two statements of the main loop. The module therefore splits every main-loop statement that touches shared state into a load and a store (`pc` and the registers in `loc`), and makes `timer_mark_event` one atomic step:

| action | code |
|---|---|
| `timer_mark_event` | `timer_list_handler` firing the due `event_timer` (modem_timer.c:92-122, modem.c:700-707) |
| `SeLoad`, `SeStore`, `SeAdd` | `schedule_event` (modem.c:710-722): the load and store of `new_event |= mask`, then the expiry and `timer_add` (which blocks SIGALRM) |
| `MeRead`, `MeClear`, `MeEscape` | `modem_event`: `event = m->event` (728), `m->event = 0` (729) with the RING_CHECK branch (731-767, including `modem_answer` and re-scheduling), then the ESCAPE branch (768-778) |
| `EnterSelect`, `SelectReturns`, `Tick` | the loop head and `select()`. The clock advances only while the loop is blocked in `select()` and no timer is due |
| `Ring`, `RingTail` | a `MDMSTAT_RING` pulse from the device (modem_main.c:944), or the ring detector's ring start (modem.c:1327-1329), calling `modem_ring` (781-805) |
| `RingEnd`, `ReStore` | the ring detector's ring end (1331-1337), `m->event |= RING_CHECK` as a load and a store |
| `Write`, `EscTail` | `modem_write` (1837-1871): a hangup while connecting, or `modem_check_escape` (1804-1833) while online |
| `Dial`, `Connect`, `Hangup`, `modem_online` | ATD/ATA reaching `modem_start`, which clears rings, events and the timer (1148-1152); EC link; the end of a call; ATO |

`env` is a ghost record that is not part of the program: the state of the phone line (the current ring burst) and of the terminal's writes (the current run of '+' and whether a guard pause preceded it). The properties compare the program's state with it.

**Time and bounds.** Time is in ticks, one tick being the spacing of the ring constants. The code's constants are scaled down in `MCModemEvent` while their order is kept: RING_ON_MIN 1 < RING_OFF_MIN 3, RING_ON_MAX 4 < RING_OFF_MAX 5, ESCAPE_TIMEOUT 2, and RING_COUNT_MIN 2 (10 in the code; the detector reports 1 or 2 cycles per ring, so both the short and the valid case occur). Device ring pulses come at most `RingPulseGap` (2) apart, which is less than RING_OFF_MIN, so that the pulses of one ring are not mistaken for separate rings. The one assumption about speed is that the main loop's code between two calls to `select()` runs in less than a tick. The ring source (`RingSources`) is a start-up choice, as `-r` is, so `Init` picks it and `ev_ring` explores both. `MaxTime` (12 ticks in `ev_escape`, 9 in `ev_ring`) is long enough for two detector rings, an answer after two RINGs, and a full escape with its guard times. Device pulses interleaved with writes multiply the states (52 million at 10 ticks), so device runs get `MaxDeviceTime` = 8. `get_time()` counts from start-up and `ring_last` starts at 0, so a pulse before tick RING_OFF_MIN (3) is a bad ring, as in the code's first 1.5 s. The first accepted ring is therefore at tick 3, and its RING_CHECK falls due at RING_ON_MAX + 1 later, at tick 8. At 7, only stale RING_CHECK events were handled in device runs. A device ring is checked and reported, or rejected, within 8 ticks, but the second ring an auto-answer needs falls outside them. The answer after rings is therefore reached through the detector only. `ev_ring` has 17.8 million states. Terminal writes are one byte, '+' or another character.

**Runs**

| run | properties | expect | what it shows |
|---|---|---|---|
| `ev_ring` | `TypeOK`, `RingOnTime`, `RingNotStuck` | pass | With the ring source chosen at start (device pulses with auto-answer, or the ring detector) and one-byte terminal writes, no interleaving of SIGALRM with the read/clear of `m->event` (728/729), with the read-modify-write of `new_event` (712) or with the detector's unprotected `m->event |=` leaves an idle modem with counted rings and no RING_CHECK pending; a RING the detector reports always comes from a ring shorter than RING_ON_MAX |
| `ev_escape` | `EscapeGuard` | violation | "+++" schedules ESCAPE; a fourth '+' resets `escape_count` but leaves the timer armed. A new "+++" after a guard pause reaches count 3, and the old timer switches to command mode at once, with no trailing guard time |

No fairness is assumed and deadlock is checked: `Tick` and `SelectReturns` are always possible below `MaxTime`, as the real loop always is.

**Mutants.** `modem_ring` undoing its count on a bad ring (breaks `TypeOK`); `ring_check` keeping `ring_count` on a reject (`RingNotStuck`); `ring_check` checking the on-time bound a tick late (`RingOnTime`); `modem_start` without `ring_count = 0` (`RingNotStuck` after a hangup).

### `Hdlc.tla`: the HDLC packer, bit for bit

One modem's transmitter `modem_hdlc_get_bits` sends to the other modem's receiver `modem_hdlc_put_bits` (modem_pack.c). The data pumps between them move `NBits`-bit symbols, `cnt` symbols per call.

**State**
- `tx`: the transmit side. It holds `h->tx_frame` (`on`, `buf`, `count`, `fcs`), `h->tx_ones`, and the register `m->pack`. `pack` is the sequence of its valid bits, oldest first, which is how `s->data`/`s->bit` are used. `txq` holds the frames `get_tx_frame` has not yet returned.
- `line`: the bits between the two pumps.
- `rx`: the receive side. It holds the register `m->unpack`, the bytes of `h->rx_frame` (`count` is their length), its `fcs`, `h->rx_ones` and `h->rx_error`, and the frames handed to `rx_complete`.

**Operators and actions**
- Each loop of the C code is a RECURSIVE operator, so one call of `get_bits` or `put_bits` is one atomic step, as it is in the program:
  - the transmitter's do-loop: `get_loop` and `tx_refill`;
  - `HDLC_PUT_BYTE`: `PutByte`;
  - the receiver's while-loop, for-loop and finish-char: `put_loop`, `bit_loop` and `finish_char`;
  - the flag branch: `end_of_frame`.
- `GET_FCS` looks up `fcs16_tab`, which is copied from the code.
- `Flip` inverts a line bit: a demodulator error.

**Bounds** (`MCHdlc`):
- two 2-byte frames, `0x7e 0xff` and `0x03 0xf8`: data that looks like a flag, and runs of ones that need stuffing;
- a receive buffer that holds exactly one frame with its FCS (`RxBufSize` 4, standing for the 512 bytes against LAPM's 133);
- 3-bit symbols, one or two per call (so calls cut across bytes and flags), at most 9 bits in flight, and up to two inverted bits.

`Integrity` and `AllDelivered` speak of behaviours in which the line inverted no bit (`flips = 0`); the other properties hold whatever the noise.

**Fairness.** Weak fairness of `GetBits` and `PutBits`: `dummy_process` calls `modem_put_bits` and `modem_get_bits` on every block of samples. Noise has no fairness. `Fairness` writes `WF_vars` out by its definition (`<>[]ENABLED => []<>step`), with the enabling condition and the step stated directly (only `GetBits` lengthens the line, only `PutBits` shortens it), which TLC checks far faster than `ENABLED` over the recursive operators.

| run | properties | expect | what it shows |
|---|---|---|---|
| `hdlc_line` | `TypeOK`, `Integrity`, `AllDelivered`, `RxLookahead`, `NoForgery`, `FcsIsCrc` | pass | While no bit is inverted, the receiver hands `rx_complete` exactly the frames sent, in order, and eventually all of them, whatever the split into calls; so stuffing, flag detection and the FCS of the two sides agree. With up to two inverted bits, the receiver never reads its register short of 8 bits (the 8 + 8 + 2 margin), delivers only frames that were sent (in order, at most once), and both running FCS values equal the bit-serial FCS-16 of RFC 1662. A wrong table entry is therefore found for every entry the noisy line makes the code index |

The seeded faults that the runs catch:
- stuffing after the sixth 1;
- delivering the FCS bytes;
- an uncomplemented FCS;
- a margin of 8 + 8;
- no FCS check;
- a byte-swapped table.

### `Detector.tla`: V.42 detection and the async packer

A caller and an answerer, from the data pump's CONNECT (`STATUS_DP_LINK`) to the packer that LAPM or the terminal then uses. `modem_update_status` starts the detector packer when `m->cfg.ec` is set (modem.c 483-498) and the async packer straight away when it is not. The detector sends nine marks per 18-bit slot, followed by a pattern char once `tx_count` is set:
- the caller sends ODPs, after 64*8 bits of silence;
- the answerer sends ADPs once it has seen an ODP.

Received chars run through the switch of `modem_detector_put_bits`: the flag, the first pattern char, ODP1, ADP1 for V.14 and ADP1 for V.42. A timer then calls `detector_finish`, which sets `m->cfg.ec` from `ec_enable` and moves to `STATUS_PACK_LINK`. With error correction this is `modem_hdlc_start` and `modem_ec_start`, where the caller sends LAPM's first XID after 48*8 bits. Without it, this is the async packer.

**State**
- `m[s]` holds, for each modem:
  - `st`: detect, hdlc or async;
  - `ec`;
  - the `detect_state` fields, with `tx_count` kept as 0, odd or even, which is all `tx_count++ % 2` reads;
  - `m->bit_timer` and its function;
  - the `pack`/`unpack` registers, as bit sequences, oldest first;
  - the terminal's unsent bytes `q` and the bytes `put_chars` received (`got`);
  - the bits of the frame LAPM has queued (`frame`).
- `line[s]`: the bits on their way to modem `s`.
- `lead`: how far the caller's transmitter is ahead of the answerer's.
- `conf`: `m->cfg.ec` at CONNECT.

**Operators and actions.** Every loop is a RECURSIVE operator:
- the transmitters: `det_get`, `hdlc_get` and `async_get`, including async's "left data + stops" partial symbol;
- the receivers: `det_put`/`det_chars`/`det_char` and `async_put`/`async_chars`;
- the timer: `bit_timer_tick` calls `detector_start`, `detector_finish` or `modem_ec_negotiate`.

The caller's XID bits (`XidBits`) come from `Hdlc`'s transmitter (`INSTANCE Hdlc`) run over the first six bytes `tx_xid` builds.

There are two actions, `GetBits(s)` and `PutBits(s)`. `GetBits(s)` is one `modem_get_bits` call: the packer fills the symbols, then the bit timer runs. `PutBits(s)` is one `modem_put_bits` call. `dummy_process` calls put_bits and then get_bits on every block, so `CanGet` lets a modem transmit only once it has taken in every whole block that reached it. Both pumps keep the same symbol clock, so neither transmitter runs more than `MaxSkew` bits ahead.

**Bounds** (`MCDetector`, `detect.cfg`):
- 3-bit symbols, 5 per call. The 15-bit calls cut across the 18-bit pattern slots and the 10-bit chars, and a char leaves part of a symbol over.
- The line holds up to 30 bits, with a skew of 15.
- `PATTERN_SIZE` keeps its 36 bits. The other timers keep their order but are scaled down:
  - start delay 36 (for 512);
  - T400 180 (for 21600 at 28800 bit/s);
  - XID delay 72 (for 384);
  - 4 ADPs (for 16).
- Three configurations:
  - error correction on both modems;
  - on the answerer only;
  - on neither.
- The caller's terminal writes `A`. The answerer's writes CR and `~` (0x7e, the flag pattern).

**Not modelled here.** The following are left out:
- `cfg.ec_detector` is taken as set, and quick-connect skipping is left out.
- The HDLC receiver is the subject of `Hdlc.tla`, so `PutBits` in hdlc state only consumes bits.
- LAPM after its first XID (T401 retransmission, the answerer's reply) is the subject of `Lapm.tla`.

**Fairness.** Weak fairness of `GetBits(s)` and `PutBits(s)`, because the pump calls both on every block. `Fairness` writes out `WF_vars` the same way as in `Hdlc`:
- `GetReady` is exactly when `GetBits(s)` is enabled, and a step that moves `lead` towards `s` is exactly a `GetBits(s)` step;
- a step that shortens `line[s]` is exactly a `PutBits(s)` step.

| run | properties | expect | what it shows |
|---|---|---|---|
| `detect` | `TypeOK`, `AsyncIntact`, `DetectionEnds`, `AsyncDelivered` | pass | In all three configurations, every call leaves detection. The async packers pass the other terminal's bytes intact, in order, whatever the split into calls. Without error correction every byte arrives. The answerer leaves detection on the caller's ODP, on its T400, or in the flag-free stretch of the caller's XID frame. A flag re-arms its 36-bit timer every 16 bits, so it cannot leave during the continuous flags before that frame. |

**Mutants.** Each of these seeded faults is caught by the property named:
- an expired bit timer not reset to 0 (`TypeOK`);
- `put_chars` without `REVERSE_BITS` (`AsyncIntact`);
- the answerer's T400 not armed (`DetectionEnds`);
- the detector started without the `m->cfg.ec` test (`AsyncDelivered`).

### `V42bis.tla`: the V.42bis compressor, encoder to decoder

The sender's encoder (`m->comp.encoder`) is fed from its terminal through `modem_comp_get_chars`. The receiver's decoder (`m->comp.decoder`) is fed with the I-frame payloads LAPM delivers, in order, through `modem_comp_put_chars` (modem.c 946-1012). LAPM itself is `Lapm.tla`. Here it is a reliable in-order channel `frames` of at most `MaxFrames` payloads.

**State**
- `enc`, `dec`: a `struct comp_state` each.
  - `dict` is the trie of `struct dict {ch, parent, child, next}`. It is kept over entry 0, the root entries of the characters in `Alphabet`, and the entries from `FIRST_FREE` on. No other entry is ever read or written when the input is drawn from `Alphabet`.
  - `str` is `str_data[0..str_len-1]`.
  - `obuf` is the unread part `obuf[ohead..olen-1]`.
  - The other fields keep their C names and widths: `cmp_last` and `threshold` are u16, `escape_char` is u8.
- `xmit` holds the characters written and not yet taken. `written` is every character written, `out` what the decoder wrote to the terminal.
- `synced`: the last `get_chars` took every character and called the flush.
- `status_error`: `modem_update_status(STATUS_ERROR)` after `comp_decode` returned -1.
- `polls` counts the `get_chars` calls.

**Operators and actions**
- Every C function is an operator of the same name, and every loop a RECURSIVE operator:
  - `match_char`, `add_char` (with `NextLeaf` and `PrevSibling` for the do-while and the unlink), `dict_init`;
  - `send_data`, `SEND_CW`/`ALIGN_BITS`/`SEND_BITS`, `test_mode`, `comp_flush_encoder`;
  - `comp_encode` (the `NEW_ENCODER` loop), `recv_data`, `send_string`, `comp_flush_decoder`;
  - `comp_decode` (split into `DecodeCompressed`, `DecodeCodeword` and `DecodeTransparent`), `get_odata`;
  - the `modem_comp_*` wrappers (`EncodeInto`, `DecodeInto`) and the two modem.c loops (`GetCharsLoop`, `PutCharsLoop`, each followed by its flush).
  - An intermediate result that is used more than once (a `get_odata` result, a decode step) is passed as an operator parameter (`EncodeAfter`, `DecodeAfter`, `PutStep`), not bound with LET. TLC's coverage accounting expands a LET definition again at each reference, and through the nested wrappers that multiplies its start-up cost.
- Actions:
  - `Write` is `modem_write` putting a character into the xmit ring.
  - `GetChars` is LAPM's `tx_info` calling `get_chars(tx_info_size)`. It takes every character waiting, then flushes. A non-empty result becomes a frame.
  - `PutChars` is `rx_info` handing a frame to `put_chars`, which decodes it and then flushes the decoder.
- LAPM calls `get_chars` every time the packer wants a frame, whether or not the terminal wrote anything. So `GetChars` on an idle terminal is a real step: it flushes again.

**Bounds** (`MCV42bis`):
- The dictionary has `FIRST_FREE` + 3 entries (the code's minimum is 512). That is enough to fill it and reuse a leaf with two characters.
- `max_string` is 3 (the code allows 6 to 250). Strings reach it within a few characters.
- `InfoSize` is the real 128, and the pty buffer the real 256. No call comes near either.
- `v42_roundtrip` uses the characters 0 and 51, which are the first two escape characters. It allows 6 writes and 8 polls.
- `v42_modes` uses the character 0 only, 20 writes and 22 polls. The compression test needs about 7 such characters to switch to COMPRESSED and about 20 to switch back with ETM.
- Every behaviour ends when its writes and polls are used up. The coder never waits, so the runs do not look for deadlock.

| run | properties | expect | what it shows |
|---|---|---|---|
| `v42_roundtrip` | `DecodedPrefix`, `RoundTrip`, `FreeNotLive` | pass | In transparent mode the receiver's output is always a prefix of what was written, and once a flush has taken everything it is all of it. This holds with escapes and `CC_EID` at any frame boundary, flushes mid-string (`flushed_len`), and dictionary leaves reused. The entry at `next_free` is never on a live trie path (spec.md) |
| `v42_modes` | `TypeOK`, `DictInSync` | pass | Through ECM, compressed codewords, FLUSH and ETM, whenever the link is settled, encoder and decoder have the same live trie, `next_free`, escape character and mode |

The seeded faults that the runs catch:
- the escape character not stepped after `CC_EID`;
- a flush that leaves the string matched so far unsent;
- a reused leaf left linked under its parent;
- `SEND_BITS` masking a codeword's width instead of a byte;
- the decoder keeping `last_added` after reaching it.

### `ModemCore.tla`: call control, the AT interpreter and the main loop

The record `m` holds the fields of `struct modem` that call control reads: `state` (the `STATE_*` of modem.c:329-335), `command`, `started`, `hook`, `caller`, the data pump `dp` (none, call progress or data) and `process`, the packer bound by `get_bits`/`put_bits` (`pack`: none, V.42 detector, HDLC, async), the LAPM state as the core sees it (`lapm`), `cfg.ec`, the sample timer (`timer`: none, `stop`, `stale_stop`, `change_dp`), the ring detector object `rd`, `result_code`, carrier detect `cd`, the `xmit` ring, `at_line`, S14 (`quiet`, which `modem_report_result` tests before writing anything), and the result codes written to the terminal (`results`). `crashed` records a call through a NULL `sample_timer_func`. Data is abstracted: a write is a short sequence of the characters A, T, D, H, O, Q, Z, 0, 1, CR and x (any other character).

Each operator translates one function, and calls the others as the code does: `modem_set_state`, `modem_hup`, `modem_stop`, `modem_start` (with the device start and `start_device`'s error path), `modem_update_status` split by status (`status_dp_link`, `status_pack_link`, `status_ec_link`, `status_release`, `status_finish`), `modem_dp_process`, `do_modem_change_dp`, `modem_answer`, `modem_dial_start`, `modem_dial`, `modem_hook`, `modem_online`, `modem_reset`, `process_H`, `set_sreg` for ATQ (`set_quiet`), `process_at_command` (RECURSIVE over the line, stopping on a non-zero `ret` as at modem_at.c:1200), `modem_at_process` (RECURSIVE over `xmit`) and `modem_write`.

| action | code |
|---|---|
| `Write` | the terminal writes a line and `modem_run` reads it (modem_main.c:1004-1055): only while `xmit` has room, and at most that room (`pty_read`), the rest staying in `pty`; then `modem_write`, with `modem_at_process` when `command` is set |
| `PtyRead` | a later read of what an earlier write left in `pty`, once `xmit` has room again |
| `PtyHangup` | the pty closed with HUPCL (1023-1041), seen as EIO once `pty` is read dry: `modem_hangup` |
| `DtrDrop` | the terminal setting speed B0 before a read (1005-1010): `modem_update_termios` hangs up unless IDLE |
| `Escape` | the ESCAPE branch of `modem_event` (modem.c:768-778); the '+' counting and guard times are `ModemEvent`'s |
| `DataTx` | `modem_get_chars` taking the terminal's bytes on line |
| `DpStatus` | `modem_process` running the pump: CONNECT, CHANGEDP, or an error |
| `DetectorFinish`, `EcLink`, `EcRelease` | `detector_finish` (modem_pack.c:204-210) and LAPM reporting EC_LINK or EC_RELEASE/EC_ERROR (the LAPM side is `Lapm`'s) |
| `SampleTimer` | `modem_process` calling the due `sample_timer_func` |
| `DeviceReadFail` | a failed device read (modem_main.c:947-960): `modem_hangup`, then `sample_timer_func` called with no test |

Every action ends at the loop head (`loop_head`), where `modem_run` starts the ring detector when `-r` is given and the device is stopped.

**Time.** Time is abstract, with one rule: a stop scheduled by `schedule_modem_stop` fires 48 samples later, far too soon for a training, a V.42 detection or a LAPM handshake to finish, so CONNECT, the detector's end and EC_LINK wait while `timer = "stop"`. `modem_stop` sets `m->count` to 0 and leaves the timer alone, so a stop still pending then (`stale_stop`) fires once the next call has run as many samples as the old one had, at any point of it.

**`CallControl.tla`** is the abstract specification: a phase (idle, dialing, online, command, hangup) and the result codes. CONNECT comes only with going on line, OK or ERROR only as the reply to a command line (or OK for the escape), and a final code (NO CARRIER, BUSY, NO DIALTONE, NO ANSWER) exactly when a call ends. While the modem is quiet (its `quiet` is `m.quiet`, and changes only where a command line is read) any of these may report nothing. One step of the core can make up to three such changes (`MaxChanges`), because one write may hold lines left in `xmit` and a stop and a start may happen together. `ModemCore` maps its state to a phase with `CallPhase` and instantiates `CallControl` with `results <- m.results`; `CallRefined` is `Call!Spec`.

**Bounds.** `MCModemCore` writes whole lines (ATD, ATA, ATH, ATH1, ATO, ATQ1, ATQ, ATZ, ATHx, a line without AT, and a line longer than the buffer). Device starts and pump creations succeed or fail. `AtLineMax` is 5 (63 in the code), so the long line overflows; `XmitSize` is 8 (4096), so the long line is read in two parts and writes on line fill it. Four inputs (writes, escapes, pty closes, DTR drops) reach every branch above: dial and answer to ONLINE with and without EC, escape and ATO, a hangup from every state, a failed start and a failed pump change.

**Fairness.** `WF_vars(SampleTimer)`: while the modem is started, d-modem streams audio without pause, so `modem_process` runs and a pending sample timer comes due. Nothing else is assumed: the pumps, LAPM and the terminal may stop. Deadlock is not checked, because once the terminal stops writing and the modem is IDLE, `modem_run` waits in `select()` for ever, as it should.

**Runs**

| run | properties | expect | what it shows |
|---|---|---|---|
| `core_call` | `TypeOK`, `NoNullCall`, `HangupCompletes` | pass | Without `-r`, a failed device read always finds a stop to call, and every disconnect state reaches IDLE |
| `core_stale_stop` | `CallRefined` | violation | At five inputs the result codes leave `CallControl`: after a call and an escape, ATZ schedules a stop and a second ATZ calls `modem_stop` directly, leaving that stop armed. The next ATD's call is ended by it, reaching IDLE without NO CARRIER (9 steps) |

`core_call` uses four inputs (191 000 states, about 25 s). `core_stale_stop` uses five, which is the fewest the stale stop needs.

**Mutants.** The overflow test of `modem_at_process` one character late (`TypeOK`); `modem_hup` without `schedule_modem_stop` in DP_ESTAB (`NoNullCall`: the read failure then finds no function); `modem_hup` without `schedule_modem_stop` in the linked states (`HangupCompletes`).

### `Xid.tla`: XID negotiation, byte for byte

This module covers the part of `Lapm.tla` that reduces to a single frame: the XID exchange that fixes the LAPM window and info-field sizes and the V.42bis settings. Frames are byte sequences, which `tx_xid` builds and `rx_xid` parses as the code does.

**Ends.** `kind[p]` says whether each end is a D-Modem or a foreign V.42 peer. A foreign peer answers an XID command with one of `ForeignXids`, and may start one negotiation of its own (`MaxForeign`).

**State.** Each D-Modem has:
- `l[p]`: the fields of `struct lapm_state` that negotiation touches. These are the state (IDLE or ESTAB), `config`, `rtx_count`, the bit timer (`negotiate`, `t401`, `off`), and the four sizes;
- `m[p]`: `m->cfg.comp`, `comp_dict_size`, `comp_max_string`, and the codec's `dict_size` and `max_string`.

`chan[p]` is the queue of frames on the way to `p`, of at most `ChanCap` frames.

**Actions and the code they model**

| action | code |
|---|---|
| `modem_ec_negotiate(p)` | the caller's first bit timer: `lapm_config` sets `config`, sends the XID command and starts T401 |
| `t401_timeout(p)` | `t401_timeout` in LAPM IDLE. It resends the XID while `config` is set, and gives up past `LAPM_MAX_RTX`, with no case for IDLE |
| `rx_xid_cmd(p)` | `rx_unnum_cmd`, FRAME_U_XID: `rx_xid`, then the response `tx_xid` builds from the updated state |
| `rx_xid_rsp(p)` | `rx_unnum_rsp`, FRAME_U_XID: only while `config` is set. `rx_xid`, then `lapm_connect` (ESTAB, SABME with P, T401) |
| `OtherFrame(p)` | any other frame: `Lapm.tla`'s business |
| `ForeignReceive(p)`, `ForeignCommand(p)` | the foreign peer |
| `Lose(p)` | a frame dropped by its FCS |

`rx_xid` walks the groups (`XidGroups`) and parameters (`XidParams`) recursively. Values are read big-endian by `lapm_get_be_val`, and the V.42bis dictionary size little-endian. Sizes pass through `SET_PARAM`, and the V.42bis fields through `parse_xid_private_params` and `modem_update_config` with `comp_config`'s refusals.

**Bounds.** The run uses `MCXid`:
- three pairings: D-Modem to D-Modem, D-Modem to foreign, foreign to D-Modem;
- `cfg.comp` 0 or 3 for each D-Modem;
- four foreign XIDs:
  - one proposing larger sizes than D-Modem (256-byte fields, windows of 31, 4096 codewords, strings of 250);
  - one proposing smaller sizes (64 bytes, windows of 7, 512 codewords, strings of 6, P0 = 1);
  - a group whose length runs past the frame;
  - a wrong format identifier;
- `MaxRtx` 1 (two retransmissions), `ChanCap` 2, `MaxForeign` 1.

These bounds reach a lost command, a lost response, a retransmitted XID answered twice, and crossing XIDs from both ends. 7201 distinct states.

`CHECK_DEADLOCK FALSE`: the exchange ends, either when the caller sends SABME or when T401 gives up. What follows is `Lapm.tla`'s.

| run | properties | expect | what it shows |
|---|---|---|---|
| `xid_negotiate` | `TypeOK`, `LapmParamsInBounds`, `CompFitsCodec`, `CompAgree` | pass | Whatever a peer proposes, a D-Modem's window sizes stay in 1..15 and its info sizes in 1..128. While V.42bis is on, the sizes in `m->cfg` are those the codecs run with, within 512..2048 and 6..34. Between two D-Modems, when the caller connects, both ends agree on compression and its sizes, whichever side disabled it and whatever was lost or repeated. |

**Mutants:**
- `t401_timeout` giving up one retransmission late (`TypeOK`: `rtx_count` past `MaxRtx + 1`);
- `SET_PARAM` taking the larger value;
- `modem_update_config` ignoring `comp_config`'s refusal;
- `modem_update_config` keeping `comp` when the peer has it off.

## Divergences seen while modelling, with no run of their own

These came up while writing the modules. Unless a bullet says it was read from the code, TLC reproduced it in a run that is not kept in the tables above. `PROJECT.json` lists most of them as hazards.

- **LAPM `ack_info` range check** (modem_ec.c:768). The test `((nr-va)&0x7f) >= 0 && ((vs-nr)&0x7f) >= 0` is always true. So an N(R) outside [va, vs] is applied rather than disconnecting the link (V.42 8.4). A stale N(R) from before a SABME reset walks `va` forward until the sent list is empty. `WindowInv` still holds, because the sent list bounds the walk.
- **Device ring on-time** (modem.c:737, 796). With `MDMSTAT_RING` pulses, the RING_CHECK at `ring_first + RING_ON_MAX + 1` judges only the pulses seen so far. So a ring still going on is reported as RING, although spec.md says an over-long ring is rejected. With the ring detector, `RingOnTime` holds (`ev_ring`, which states it for detector rings only).
- **V.42bis FLUSH on every idle poll** (modem_comp.c:558). `comp_flush_encoder` sends a FLUSH codeword whenever the encoder is in COMPRESSED mode and no update is pending. Ten zeros leave it there with its last string complete (`last_matched` and `update_at` 0). From then on every poll of the idle terminal by LAPM's `tx_info` sends another 2-byte I-frame holding only FLUSH. The `fixme` early return (lines 548-552) and the commented-out `bit_len` test (line 562) show that one flush per burst was meant. An action property "a poll with nothing new written sends no I-frame" over `V42bis` was found violated by TLC.
- **Ring detector and a failed read** (modem_main.c:957). With `-r`, the loop head starts the ring detector, which starts the socket driver; its child, d-modem, can only dial, dials the empty or old dial string and exits. The device read then fails with the modem IDLE and no sample timer, and `m->sample_timer_func(m)` calls through NULL. TLC finds `NoNullCall` violated in two steps with `RingDetector = TRUE`.
- **Answer timer kept after a failed start** (modem.c:1579). `modem_answer` arms `do_modem_change_dp` before `modem_start`; if the start fails, `modem_stop` leaves it, and the next ATD's call-progress pump is replaced by a data pump when it fires. No result code shows it, so `CallControl` accepts it; an invariant that a caller never has the answer timer pending is violated by ATA (start failing) then ATD.
- **Typed-ahead after ATO, and bytes written during a hangup** (modem.c:823, 1867). `modem_at_process` reads all of `xmit` without testing `command` again, so text after ATO in one write is taken as AT command text; and bytes written while `command` is 0 in EC_DISC or DP_DISC stay in `xmit` and run as commands with the next write in IDLE. `CallControl` accepts the second (their replies are replies to command lines); the first was read from the code, as the runs write no data after ATO.
- **ATHx** (modem_at.c:191-209, 1200). The hangup is done before the x is found unknown, so the line both hangs up and reports ERROR, where spec.md (section 7) says malformed input never affects connection state. The result codes alone cannot tell this from two lines, so `CallControl` accepts it.
- **One '~' taken for HDLC flags** (modem_pack.c:265). The comment above the detector (lines 169-178) says the answerer leaves detection on "continuous flags". The code instead leaves on any single char that reads as 0x7e, and an async '~' reads so: 0x7e is its own bit reversal. Take a caller without error correction whose terminal writes `~` within the answerer's T400 (0.75 s at 28800 bit/s). The answerer starts HDLC and LAPM, while the caller stays with the async packer. With `TermData <- MCFlagData` in `detect.cfg` and `INVARIANT EcAgree`, TLC finds `EcAgree` violated in 12 steps. `detect` gives the caller only 'A' and so no longer checks `EcAgree`: with the run slots all in use, the counterexample is recorded here rather than as a run.
- **The caller never gives up detection** (modem_pack.c:198-202, 316-336). spec.md (section 4.4) says the caller alternates patterns "for up to 16 repetitions". In the code, `detector_start` arms no timer, and only the flag and ADP branches of `modem_detector_put_bits` arm `detector_finish`. Against an answerer without error correction, the caller stays in EC_ESTAB sending ODPs until the answerer's terminal happens to write a '~' or the ADP chars. This was read from the code. The model shows it with `Configs <- MCNoEcAnswer`, but that state space grows without bound, because the answerer's terminal keeps receiving the ODP chars as data. So `DetectionEnds` is checked only for the configurations of `detect`.
- **Socket descriptor leak** (modem_main.c:662). `socket_stop` kills the child without closing `dev->fd`, which `socket_start` then overwrites. Read from the code; descriptors are I/O state and are not modelled.
- **V.42bis `cmp_last` on idle polls** (modem_comp.c:451). `send_data` on an empty string adds `cw_size` with no decay. In TRANSPARENT mode with a match pending, each idle poll does this. After about 30 polls the "bits per character" average exceeds a codeword per character. After about 7300 polls the u16 wraps, which lies beyond the poll bounds of the runs.

- **SET_PARAM ignores a smaller offer** (modem_ec.c:426-432). `SET_PARAM` keeps the default whenever the current value equals it. `modem_setup_config` sets 15/15/128/128, which equal `LAPM_DFLT_*`, so no XID changes a D-Modem's LAPM sizes. A foreign peer offering 64-byte fields or windows of 7 is ignored. spec.md says the more conservative of offered and default wins. Read from the code, and seen in `xid_negotiate` with `SmallPeer`: `LapmParamsInBounds` holds because the sizes never move.
- **V.42bis direction bits ignore the role** (modem.c:381-383). `cfg.comp & 1` turns on the decoder and `& 2` the encoder, at both ends. P0 is defined from the initiator's side, so a D-Modem caller facing a foreign peer that accepts one direction only (P0 = 1 or 2) runs the wrong codec. Between two D-Modems P0 is 0 or 3, so `CompAgree` cannot see it. Read from the code.
- **An XID with a bad format identifier** (modem_ec.c:509-548, 1033, 1119). `rx_xid` returns -1 and changes nothing, but both callers ignore the return. The caller connects on such a response, and the answerer answers such a command. spec.md says an invalid XID forces a disconnect. Seen in `xid_negotiate` with `BadFormat`.

## Not modelled yet, and the plan

1. **Modem core, further:** voice, fax and caller-ID modes; the S-register commands of the AT interpreter other than ATQ (they set configuration call control does not read); the NONEC pumps (V.21, V.23) that clear `cfg.ec`; statuses a pump returns after an error within the same block of samples (`modem_dp_process` keeps looping while `m->dp` is set). The DISC retries caused by the DM with F=0 (modem_ec.c:1020) need `Lapm` and `ModemCore` composed.
2. **V.42bis, further:** STEPUP (needs more than 512 entries), the partial pty write that leaves a frame half decoded, and `CC_RESET` (sent only by the `COMP_TEST` build).
3. **XID and LAPM composed:** `Xid` ends where `Lapm` begins. Composing them would let the negotiated sizes drive the window, but since `SET_PARAM` never changes them, this would add states and no behaviour.
4. **Detection, further:** `Detector` with `Lapm` composed, so that the caller's T401 retransmits the XID and the answerer replies; and the caller-with-EC, answerer-without case under a bound on what the answerer's terminal receives.
5. **Out of scope:** the data pumps (signal processing), device and socket I/O, the pjsua bridge (library threads), and option parsing and debug output. They have no protocol state that TLC could explore.
