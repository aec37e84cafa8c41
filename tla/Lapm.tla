-------------------------------- MODULE Lapm --------------------------------
(***************************************************************************)
(* The LAPM error corrector of slmodemd (src/slmodemd/modem_ec.c) running  *)
(* between two modems, the caller and the answerer, joined by a line that  *)
(* carries HDLC frames (src/slmodemd/modem_pack.c).                        *)
(*                                                                         *)
(* Each peer is one record m[p]: the fields of struct lapm_state that the  *)
(* protocol reads (state, vs/va/vr, busy flags, retransmission counter,    *)
(* the control-frame ring and the info-frame ring with its three cursors,  *)
(* the saved rest of a partly delivered frame) and the few fields of       *)
(* struct modem that the corrector drives or reads (the modem state that   *)
(* decides whether get_chars/put_chars are bound, the single bit timer     *)
(* slot, packer_process, the pending stop).  Every handler of modem_ec.c   *)
(* is an operator from such a record to the next one, written in the order *)
(* of the C statements, so that a handler that calls ack_info, tx_info or  *)
(* modem_update_status on the way sees the state those calls leave.        *)
(*                                                                         *)
(* Payloads are abstracted to message numbers: peer p's terminal offers    *)
(* the messages 1..Msgs[p] in order; "taken" counts what get_chars handed to  *)
(* LAPM and "delivered" is what put_chars wrote to the other terminal.     *)
(***************************************************************************)
EXTENDS Integers, Sequences, SequencesExt

CONSTANTS
  Caller, Answer,   \* the two modems (m->caller = 1 and m->caller = 0)
  SeqModulus,           \* modulus of vs, va, vr, N(S), N(R): 128 (the & 0x7f)
  WinSize,          \* negotiated tx_win_size (LAPM_DFLT_WIN_SIZE = 15)
  InfoFrames,       \* info frame ring size (LAPM_INFO_FRAMES = 15 + 1)
  CtrlFrames,       \* control frame ring size (LAPM_CTRL_FRAMES = 8)
  MaxRtx,           \* LAPM_MAX_RTX = 5
  Msgs,             \* bound: messages each terminal offers, per modem
  ChanCap,          \* bound: frames in flight on the line per direction
  HangupPeers,      \* the modems whose user may hang up (ATH, DTR drop)
  LossyLine,        \* whether line noise may destroy frames
  PatientTimer      \* whether T401 outlasts every round trip (see Quiet)

ASSUME WinSize \in 1..(SeqModulus - 1) /\ InfoFrames > WinSize
ASSUME CtrlFrames >= 2 /\ MaxRtx \in Nat /\ ChanCap >= 1
ASSUME Msgs \in [{Caller, Answer} -> Nat]
ASSUME HangupPeers \subseteq {Caller, Answer} /\ LossyLine \in BOOLEAN
ASSUME PatientTimer \in BOOLEAN

VARIABLES
  m,      \* m[p]: the lapm_state and modem fields of peer p
  chan    \* chan[p]: frames on the line towards p, in order

vars == <<m, chan>>

Peers == {Caller, Answer}
MaxMsgs == IF Msgs[Caller] > Msgs[Answer] THEN Msgs[Caller] ELSE Msgs[Answer]
Other(p) == IF p = Caller THEN Answer ELSE Caller

LapmStates == {"IDLE", "ESTAB", "DATA", "DISC"}
\* STATE_* of modem.c that occur once the corrector runs; "IDLE" is the
\* state modem_stop leaves, after which the session is over.
ModemStates == {"EC_ESTAB", "ONLINE", "EC_DISC", "DP_DISC", "IDLE"}
\* what m->bit_timer_func is armed with, "off" when m->bit_timer = 0
Timers == {"off", "t401", "negotiate"}

SupTypes == {"RR", "RNR", "REJ"}
UnnTypes == {"SABME", "UA", "DM", "DISC", "XID"}
Seqs == 0..(SeqModulus - 1)
Frames == [t : {"I"} \cup SupTypes \cup UnnTypes, cmd : BOOLEAN,
           pf : {0, 1}, ns : Seqs, nr : Seqs, d : 0..MaxMsgs]
NoFrame == [t |-> "none"]

TypeOK ==
  /\ chan \in [Peers -> Seq(Frames)]
  /\ m \in [Peers -> [st : LapmStates, vs : Seqs, va : Seqs, vr : Seqs,
                      busy : BOOLEAN, peer_busy : BOOLEAN,
                      reject : BOOLEAN, config : BOOLEAN,
                      rtx_count : 0..(MaxRtx + 1), timer : Timers,
                      ctrl : Seq(Frames),
                      ring : [0..(InfoFrames - 1) -> 0..MaxMsgs],
                      sent_info : 0..(InfoFrames - 1),
                      tx_info : 0..(InfoFrames - 1),
                      info_list : 0..(InfoFrames - 1),
                      rx_rest : 0..MaxMsgs, packer_process : BOOLEAN,
                      framer : BOOLEAN, mstate : ModemStates,
                      stop_sched : BOOLEAN, connects : Nat,
                      offer : 0..MaxMsgs,
                      taken : 0..MaxMsgs, delivered : Seq(1..MaxMsgs)]]

-----------------------------------------------------------------------------
(* Service operators of modem_ec.c.                                        *)

Mask7f(x) == x % SeqModulus                    \* (x) & 0x7f
Outstanding(l) == Mask7f(l.vs - l.va)      \* (l->vs - l->va) & 0x7f
RingNext(i) == (i + 1) % InfoFrames      \* f->next in a frame ring
RingDist(a, b) == (b - a) % InfoFrames

SFrame(t, cmd, pf, nr) == [t |-> t, cmd |-> cmd, pf |-> pf, ns |-> 0, nr |-> nr, d |-> 0]
UFrame(t, cmd, pf) == SFrame(t, cmd, pf, 0)
IFrame(ns, nr, d) == [t |-> "I", cmd |-> TRUE, pf |-> 0, ns |-> ns, nr |-> nr, d |-> d]

\* get_ctrl_frame: the ring refuses a frame when ctrl_list->next would
\* reach tx_ctrl, so CtrlFrames - 1 frames can wait; tx_unnum and tx_super
\* log the failure and the frame is never sent.
get_ctrl_frame(l, f) ==
  IF Len(l.ctrl) < CtrlFrames - 1 THEN [l EXCEPT !.ctrl = Append(@, f)] ELSE l

\* tx_super: the frame carries N(R) = l->vr at the time of the call
tx_super(l, t, cmd, pf) == get_ctrl_frame(l, SFrame(t, cmd, pf, l.vr))
tx_unnum(l, t, cmd, pf) == get_ctrl_frame(l, UFrame(t, cmd, pf))
\* the "if (l->busy) TX_RNR(..) else TX_RR(..)" that recurs in the handlers
tx_rr_rnr(l, cmd, pf) == tx_super(l, IF l.busy THEN "RNR" ELSE "RR", cmd, pf)

T401_START(l) == [l EXCEPT !.rtx_count = 0, !.timer = "t401"]
T401_STOP(l) == [l EXCEPT !.timer = "off", !.rtx_count = 0]

\* reset: rx_head/rx_count (the saved rest) are deliberately not cleared
reset(l) == [l EXCEPT !.busy = FALSE, !.peer_busy = FALSE, !.vs = 0,
                      !.va = 0, !.vr = 0, !.sent_info = l.info_list,
                      !.tx_info = l.info_list]

\* modem_set_state binds get_chars and put_chars only in MODEM_ONLINE
chars_bound(l) == l.mstate = "ONLINE"

-----------------------------------------------------------------------------
(* The modem core as the corrector sees it (modem.c).                      *)

lapm_disconnect(l) ==
  T401_START(tx_unnum([l EXCEPT !.st = "DISC"], "DISC", TRUE, 1))

\* modem_ec_stop: clears the bit timer and packer_process, then disconnects
modem_ec_stop(l) ==
  lapm_disconnect([l EXCEPT !.timer = "off", !.packer_process = FALSE])

\* modem_hup with cfg.ec set; schedule_modem_stop arms the sample timer
modem_hup(l, local) ==
  CASE l.mstate \in {"EC_ESTAB", "ONLINE"} ->
         [IF local THEN [modem_ec_stop(l) EXCEPT !.mstate = "EC_DISC"]
                   ELSE [l EXCEPT !.mstate = "DP_DISC"]
          EXCEPT !.stop_sched = TRUE]
    [] l.mstate = "EC_DISC" -> [l EXCEPT !.mstate = "DP_DISC"]
    [] OTHER -> l

\* modem_update_status for the statuses the corrector reports: EC_LINK
\* sets MODEM_ONLINE and reports CONNECT; EC_RELEASE hangs up, locally
\* only when the modem was already in EC_DISC.
modem_update_status(l, s) ==
  IF s = "EC_LINK"
  THEN [l EXCEPT !.mstate = "ONLINE", !.connects = @ + 1]
  ELSE modem_hup(l, l.mstate = "EC_DISC")

-----------------------------------------------------------------------------
(* Sequence numbers and the info frame ring.                               *)

\* Seeded fault: the n == 0 ("no data") return of tx_info is lost, so an
\* empty get_chars still fills a frame.
tx_info_ignores_no_data(l) ==
  IF l.peer_busy \/ Outstanding(l) >= WinSize THEN [s |-> l, ok |-> FALSE]
  ELSE IF l.tx_info # l.info_list THEN [s |-> l, ok |-> TRUE]
  ELSE IF RingNext(l.info_list) = l.sent_info \/ ~chars_bound(l)
       THEN [s |-> l, ok |-> FALSE]
  ELSE [s |-> [l EXCEPT !.ring[l.info_list] = l.taken + 1,
                        !.info_list = RingNext(@), !.taken = @ + 1],
        ok |-> TRUE]

\* tx_info: returns [s |-> new state, ok |-> result].  A frame is filled
\* from get_chars only when nothing is queued (tx_info = info_list).
tx_info(l) ==
  IF l.peer_busy \/ Outstanding(l) >= WinSize THEN [s |-> l, ok |-> FALSE]
  ELSE IF l.tx_info # l.info_list THEN [s |-> l, ok |-> TRUE]
  ELSE IF RingNext(l.info_list) = l.sent_info    \* cannot alloc frame
          \/ ~chars_bound(l) \/ l.taken = l.offer   \* no get_chars, no data
       THEN [s |-> l, ok |-> FALSE]
  ELSE [s |-> [l EXCEPT !.ring[l.info_list] = l.taken + 1,
                        !.info_list = RingNext(@), !.taken = @ + 1],
        ok |-> TRUE]

\* Seeded fault: reject_info rewinds vs but not the tx_info cursor.
reject_info_keeps_cursor(l) ==
  IF l.st # "DATA" THEN l ELSE [l EXCEPT !.vs = l.va]

\* reject_info: rewind the transmitter to the oldest unacknowledged frame
reject_info(l) ==
  IF l.st # "DATA" THEN l ELSE [l EXCEPT !.vs = l.va, !.tx_info = l.sent_info]

\* Seeded fault: the ack loop advances va but not sent_info.
ack_info_va_only(l, nr) ==
  IF ~(Outstanding(l) <= WinSize) THEN lapm_disconnect(l)
  ELSE
    LET n == IF Mask7f(nr - l.va) < RingDist(l.sent_info, l.tx_info)
             THEN Mask7f(nr - l.va) ELSE RingDist(l.sent_info, l.tx_info)
        l1 == [l EXCEPT !.va = Mask7f(l.va + n)]
    IN IF n > 0 /\ l.rtx_count = 0
       THEN IF Outstanding(l1) # 0 THEN T401_START(l1) ELSE T401_STOP(l1)
       ELSE l1

\* ack_info.  The code's validity test is
\*   ((nr-va)&0x7f) >= 0 && ((vs-nr)&0x7f) >= 0 && ((vs-va)&0x7f) <= k
\* whose first two conjuncts always hold; the loop then advances va until
\* it reaches nr or the sent list is empty ("VERY BAD").
ack_info(l, nr) ==
  IF ~(Outstanding(l) <= WinSize) THEN lapm_disconnect(l)
  ELSE
    LET n == IF Mask7f(nr - l.va) < RingDist(l.sent_info, l.tx_info)
             THEN Mask7f(nr - l.va) ELSE RingDist(l.sent_info, l.tx_info)
        l1 == [l EXCEPT !.va = Mask7f(l.va + n),
                        !.sent_info = (l.sent_info + n) % InfoFrames]
    IN IF n > 0 /\ l.rtx_count = 0
       THEN IF Outstanding(l1) # 0 THEN T401_START(l1) ELSE T401_STOP(l1)
       ELSE l1

\* "if (pf || !tx_info(l)) TX_RR/TX_RNR" of the supervisory handlers
poll_or_send(l, pf) ==
  IF pf = 1 THEN tx_rr_rnr(l, FALSE, 1)
  ELSE LET t == tx_info(l) IN IF t.ok THEN t.s ELSE tx_rr_rnr(t.s, FALSE, 0)


-----------------------------------------------------------------------------
(* Frame handlers.                                                         *)

\* Seeded fault: rx_info without the N(S) sequence check.
rx_info_no_ns_check(l, f, accept) ==
  LET l1 == ack_info(l, f.nr) IN
  IF l1.busy THEN IF f.pf = 1 THEN tx_super(l1, "RNR", FALSE, 1) ELSE l1
  ELSE
    LET l3 == IF chars_bound(l1) /\ accept
              THEN [l1 EXCEPT !.delivered = Append(@, f.d)]
              ELSE [l1 EXCEPT !.rx_rest = f.d, !.busy = TRUE,
                              !.packer_process = TRUE]
        l4 == [l3 EXCEPT !.vr = Mask7f(f.ns + 1)]
    IN IF l4.busy THEN tx_super(l4, "RNR", FALSE, f.pf)
       ELSE tx_super(l4, "RR", FALSE, f.pf)

\* Seeded fault: rx_info without the "if (l->busy)" early return.
rx_info_ignores_busy(l, f, accept) ==
  LET l1 == ack_info(l, f.nr) IN
  IF f.ns # l1.vr
  THEN IF l1.reject THEN l1
       ELSE [tx_super(l1, "REJ", FALSE, f.pf) EXCEPT !.reject = TRUE]
  ELSE
    LET l2 == [l1 EXCEPT !.reject = FALSE]
        l3 == IF chars_bound(l2) /\ accept
              THEN [l2 EXCEPT !.delivered = Append(@, f.d)]
              ELSE [l2 EXCEPT !.rx_rest = f.d, !.busy = TRUE,
                              !.packer_process = TRUE]
        l4 == [l3 EXCEPT !.vr = Mask7f(@ + 1)]
    IN IF l4.busy THEN tx_super(l4, "RNR", FALSE, f.pf)
       ELSE tx_super(l4, "RR", FALSE, f.pf)

\* rx_info.  accept: put_chars took the whole payload (a pty or the
\* compressor may take less; the payload is one unit here, so all or none).
rx_info(l, f, accept) ==
  LET l1 == ack_info(l, f.nr) IN
  IF l1.busy THEN IF f.pf = 1 THEN tx_super(l1, "RNR", FALSE, 1) ELSE l1
  ELSE IF f.ns # l1.vr
       THEN IF l1.reject THEN l1
            ELSE [tx_super(l1, "REJ", FALSE, f.pf) EXCEPT !.reject = TRUE]
  ELSE
    LET l2 == [l1 EXCEPT !.reject = FALSE]
        l3 == IF chars_bound(l2) /\ accept
              THEN [l2 EXCEPT !.delivered = Append(@, f.d)]
              ELSE [l2 EXCEPT !.rx_rest = f.d, !.busy = TRUE,
                              !.packer_process = TRUE]
        l4 == [l3 EXCEPT !.vr = Mask7f(@ + 1)]
    IN IF l4.busy THEN tx_super(l4, "RNR", FALSE, f.pf)
       ELSE IF l4.peer_busy \/ f.pf = 1 THEN tx_super(l4, "RR", FALSE, f.pf)
       ELSE LET t == tx_info(l4)
            IN IF t.ok THEN t.s ELSE tx_super(t.s, "RR", FALSE, f.pf)

rx_super_cmd(l, f) ==
  CASE f.t = "RR" ->
         poll_or_send(ack_info([l EXCEPT !.peer_busy = FALSE], f.nr), f.pf)
    [] f.t = "RNR" ->
         LET l1 == ack_info([l EXCEPT !.peer_busy = TRUE], f.nr)
         IN IF f.pf = 1 THEN tx_rr_rnr(l1, FALSE, 1) ELSE l1
    [] f.t = "REJ" ->
         LET l1 == ack_info([l EXCEPT !.peer_busy = FALSE], f.nr)
             l2 == IF l1.rtx_count = 0 THEN reject_info(T401_STOP(l1)) ELSE l1
         IN poll_or_send(l2, f.pf)

\* the rewind that answers a final response to our poll
rewind_on_final(l, pf) ==
  IF l.rtx_count # 0 /\ pf = 1 THEN T401_STOP(reject_info(l)) ELSE l

rx_super_rsp(l, f) ==
  IF l.rtx_count = 0 /\ f.pf = 1 THEN l      \* unsolicited final response
  ELSE
  CASE f.t = "RR" ->
         rewind_on_final(ack_info([l EXCEPT !.peer_busy = FALSE], f.nr), f.pf)
    [] f.t = "RNR" ->
         LET l1 == rewind_on_final(
                     ack_info([l EXCEPT !.peer_busy = TRUE], f.nr), f.pf)
         IN IF l1.rtx_count = 0 THEN T401_START(l1) ELSE l1
    [] f.t = "REJ" ->
         LET l1 == ack_info([l EXCEPT !.peer_busy = FALSE], f.nr)
         IN IF l1.rtx_count = 0 \/ f.pf = 1
            THEN T401_STOP(reject_info(l1)) ELSE l1

lapm_connect(l) ==
  IF l.st # "IDLE" THEN l
  ELSE T401_START(tx_unnum([reset(l) EXCEPT !.st = "ESTAB"], "SABME", TRUE, 1))

\* the transitions to IDLE that report EC_RELEASE
release(l) == modem_update_status(T401_STOP(reset([l EXCEPT !.st = "IDLE"])),
                                  "EC_RELEASE")

rx_unnum_cmd(l, f) ==
  CASE f.t = "SABME" ->
         modem_update_status(
           T401_STOP(tx_unnum([reset(l) EXCEPT !.st = "DATA"], "UA", FALSE, f.pf)),
           "EC_LINK")
    [] f.t = "DISC" ->
         \* TX_DM(l,1) ors 1 into the control octet, whose bit 0 is already
         \* set; the F bit (0x10) stays clear.
         IF l.st = "IDLE" THEN tx_unnum(l, "DM", FALSE, 0)
         ELSE modem_update_status(
                T401_STOP(tx_unnum(reset([l EXCEPT !.st = "IDLE"]), "UA", FALSE, f.pf)),
                "EC_RELEASE")
    [] f.t = "XID" -> tx_unnum(l, "XID", FALSE, 0)   \* rx_xid; tx_xid(rsp)
    [] OTHER -> l

rx_unnum_rsp(l, f) ==
  CASE f.t = "DM" ->
         CASE l.st \in {"ESTAB", "DISC"} -> IF f.pf = 1 THEN release(l) ELSE l
           [] l.st = "DATA" ->
                IF l.rtx_count # 0 \/ f.pf = 0
                THEN modem_update_status(reset([l EXCEPT !.st = "IDLE"]), "EC_RELEASE")
                ELSE l
           [] OTHER -> IF f.pf = 0 THEN modem_update_status(l, "EC_LINK") ELSE l
    [] f.t = "UA" ->
         CASE l.st = "ESTAB" ->
                modem_update_status(T401_STOP(reset([l EXCEPT !.st = "DATA"])),
                                    "EC_LINK")
           [] l.st = "DISC" -> release(l)
           [] OTHER -> l                          \* unsolicited UA
    [] f.t = "XID" ->
         IF ~l.config THEN l
         ELSE LET l1 == T401_STOP([l EXCEPT !.config = FALSE])
              IN CASE l1.st = "IDLE" -> lapm_connect(l1)
                   [] l1.st = "DATA" ->
                        tx_super([l1 EXCEPT !.busy = FALSE], "RR", TRUE, 0)
                   [] OTHER -> l1
    [] OTHER -> l

\* valid_data_state: [s |-> new state, ok |-> result]; the C cases fall
\* through, ESTAB into DATA and DISC into IDLE.
valid_data_state(l) ==
  CASE l.st = "ESTAB" ->
         [s |-> modem_update_status([reset(l) EXCEPT !.st = "DATA"], "EC_LINK"),
          ok |-> TRUE]
    [] l.st = "DATA" -> [s |-> l, ok |-> TRUE]
    [] l.st = "DISC" ->
         [s |-> modem_update_status([reset(l) EXCEPT !.st = "IDLE"], "EC_RELEASE"),
          ok |-> FALSE]
    [] l.st = "IDLE" -> [s |-> l, ok |-> FALSE]

lapm_rx_complete(l, f, accept) ==
  IF f.t \in UnnTypes
  THEN IF f.cmd THEN rx_unnum_cmd(l, f) ELSE rx_unnum_rsp(l, f)
  ELSE LET v == valid_data_state(l) IN
       IF ~v.ok THEN v.s
       ELSE IF f.t = "I" THEN rx_info(v.s, f, accept)
       ELSE IF f.cmd THEN rx_super_cmd(v.s, f) ELSE rx_super_rsp(v.s, f)

\* lapm_get_tx_frame: [s |-> new state, f |-> frame or NoFrame].  The
\* window is checked only by tx_info, i.e. only when nothing is queued.
lapm_get_tx_frame(l) ==
  IF l.ctrl # <<>> THEN [s |-> [l EXCEPT !.ctrl = Tail(@)], f |-> Head(l.ctrl)]
  ELSE IF l.peer_busy \/ l.config \/ l.st # "DATA" THEN [s |-> l, f |-> NoFrame]
  ELSE
    LET t == IF l.tx_info = l.info_list THEN tx_info(l) ELSE [s |-> l, ok |-> TRUE]
        l1 == t.s
        l2 == [l1 EXCEPT !.tx_info = RingNext(@), !.vs = Mask7f(@ + 1)]
    IN IF ~t.ok THEN [s |-> l1, f |-> NoFrame]
       ELSE [s |-> IF l2.timer = "off" THEN T401_START(l2) ELSE l2,
             f |-> IFrame(l1.vs, l1.vr, l1.ring[l1.tx_info])]

\* t401_timeout, entered with m->bit_timer already cleared
t401_timeout(l0) ==
  LET l == [l0 EXCEPT !.timer = "off"] IN
  IF l.rtx_count > MaxRtx
  THEN LET l1 == [l EXCEPT !.rtx_count = 0] IN
       CASE l1.st \in {"ESTAB", "DISC"} ->
              modem_update_status([l1 EXCEPT !.st = "IDLE"], "EC_RELEASE")
         [] l1.st = "DATA" -> lapm_disconnect(l1)
         [] OTHER -> l1
  ELSE LET l1 == [l EXCEPT !.rtx_count = @ + 1]
           l2 == IF l1.config THEN tx_unnum(l1, "XID", TRUE, 0)
                 ELSE CASE l1.st = "ESTAB" -> tx_unnum(l1, "SABME", TRUE, 1)
                        [] l1.st = "DISC" -> tx_unnum(l1, "DISC", TRUE, 1)
                        [] l1.st = "DATA" -> tx_rr_rnr(l1, TRUE, 1)
                        [] OTHER -> l1
       IN [l2 EXCEPT !.timer = "t401"]

\* lapm_config: start XID negotiation; in DATA the local side goes busy
lapm_config(l) ==
  LET l1 == [l EXCEPT !.config = TRUE]
      l2 == IF l1.st = "DATA" THEN tx_super([l1 EXCEPT !.busy = TRUE], "RNR", TRUE, 1)
            ELSE l1
  IN T401_START(tx_unnum(l2, "XID", TRUE, 0))

\* modem_ec_negotiate (the caller's first bit timer): bind the framer's
\* transmit side, then lapm_config
modem_ec_negotiate(l0) ==
  lapm_config([l0 EXCEPT !.framer = TRUE, !.timer = "off"])

\* Seeded fault: push_rest_data forgets to leave the busy state.
push_rest_data_stays_busy(l) ==
  tx_super([l EXCEPT !.delivered = Append(@, l.rx_rest), !.rx_rest = 0,
                     !.packer_process = FALSE], "RR", TRUE, 0)

\* push_rest_data, run by modem_get_bits on every bit tick while bound
push_rest_data(l) ==
  tx_super([l EXCEPT !.delivered = Append(@, l.rx_rest), !.rx_rest = 0,
                     !.busy = FALSE, !.packer_process = FALSE], "RR", TRUE, 0)


-----------------------------------------------------------------------------
(* The two modems and the line.                                            *)

InitPeer(p) ==
  [st |-> "IDLE", vs |-> 0, va |-> 0, vr |-> 0, busy |-> FALSE,
   peer_busy |-> FALSE, reject |-> FALSE, config |-> FALSE, rtx_count |-> 0,
   timer |-> IF p = Caller THEN "negotiate" ELSE "off",
   ctrl |-> <<>>, ring |-> [i \in 0..(InfoFrames - 1) |-> 0],
   sent_info |-> 0, tx_info |-> 0, info_list |-> 0, rx_rest |-> 0,
   packer_process |-> FALSE, framer |-> p = Answer, mstate |-> "EC_ESTAB",
   stop_sched |-> FALSE, connects |-> 0, offer |-> Msgs[p], taken |-> 0,
   delivered |-> <<>>]

\* modem_update_status(STATUS_PACK_LINK) -> modem_hdlc_start, modem_ec_start
Init ==
  /\ m = [p \in Peers |-> InitPeer(p)]
  /\ chan = [p \in Peers |-> <<>>]

\* a peer whose modem_stop has run no longer runs at all
Running(p) == m[p].mstate # "IDLE"

\* modem_set_state(DP_DISC) and (MODEM_IDLE) clear get_bits and put_bits:
\* the HDLC packer stops, while modem_get_bits still runs the bit timer and
\* packer_process until modem_stop
BitsFlow(p) == m[p].mstate \in {"EC_ESTAB", "ONLINE", "EC_DISC"}

\* modem_hdlc_get_bits asks get_tx_frame for the next frame once the
\* previous one is out; the frame goes on the line towards the other peer.
Transmit(p) ==
  /\ BitsFlow(p) /\ m[p].framer
  /\ Len(chan[Other(p)]) < ChanCap
  /\ LET r == lapm_get_tx_frame(m[p]) IN
       /\ r.f # NoFrame
       /\ m' = [m EXCEPT ![p] = r.s]
       /\ chan' = [chan EXCEPT ![Other(p)] = Append(@, r.f)]

\* modem_hdlc_put_bits: a frame with a good FCS reaches rx_complete.  A
\* peer whose put_bits is cleared drops it.
Receive(p) ==
  /\ chan[p] # <<>>
  /\ LET f == Head(chan[p]) IN
       /\ \E accept \in BOOLEAN :
            m' = [m EXCEPT ![p] = IF BitsFlow(p)
                                  THEN lapm_rx_complete(@, f, accept) ELSE @]
       /\ chan' = [chan EXCEPT ![p] = Tail(@)]

\* a frame hit by line noise fails the FCS check and is discarded
Lose(p) ==
  /\ LossyLine
  /\ \E i \in 1..Len(chan[p]) : chan' = [chan EXCEPT ![p] = RemoveAt(@, i)]
  /\ UNCHANGED m

\* Nothing is on the line in either direction and no control frame waits
\* in either peer's queue: what p sent has arrived or been lost, and an
\* answer p waits for has been lost or never sent.
Quiet(p) ==
  \A q \in Peers : chan[q] = <<>> /\ m[q].ctrl = <<>>

\* modem_get_bits: the bit timer runs out and calls bit_timer_func.  With
\* PatientTimer the timeout never overtakes an answer still in transit.
Timeout(p) ==
  /\ Running(p) /\ m[p].timer # "off"
  /\ PatientTimer => Quiet(p)
  /\ m' = [m EXCEPT ![p] = IF @.timer = "negotiate" THEN modem_ec_negotiate(@)
                                                   ELSE t401_timeout(@)]
  /\ UNCHANGED chan

\* modem_get_bits then runs packer_process (push_rest_data); put_chars
\* takes the saved rest when the pty has room
PushRest(p) ==
  /\ Running(p) /\ m[p].packer_process
  /\ m[p].st = "DATA" /\ m[p].rx_rest # 0 /\ chars_bound(m[p])
  /\ m' = [m EXCEPT ![p] = push_rest_data(@)]
  /\ UNCHANGED chan

\* modem_hangup (ATH, DTR drop): modem_hup(m, 1)
Hangup(p) ==
  /\ p \in HangupPeers
  /\ m[p].mstate \in {"EC_ESTAB", "ONLINE"}
  /\ m' = [m EXCEPT ![p] = modem_hup(@, TRUE)]
  /\ UNCHANGED chan

\* the sample timer armed by schedule_modem_stop runs modem_stop
Stop(p) ==
  /\ Running(p) /\ m[p].stop_sched
  /\ m' = [m EXCEPT ![p].mstate = "IDLE", ![p].timer = "off",
                    ![p].packer_process = FALSE, ![p].framer = FALSE]
  /\ UNCHANGED chan

Next ==
  \E p \in Peers :
    \/ Transmit(p) \/ Receive(p) \/ Lose(p) \/ Timeout(p)
    \/ PushRest(p) \/ Hangup(p) \/ Stop(p)

Spec == Init /\ [][Next]_vars


-----------------------------------------------------------------------------
(* Properties.                                                             *)

\* The sequence numbers and the info ring agree: vs - va counts exactly the
\* frames between sent_info and tx_info (sent, not yet acknowledged), and
\* no more than the window of them.  ack_info, reject_info, reset and
\* lapm_get_tx_frame each move one side of this; a stale N(R) accepted by
\* ack_info's vacuous range test would break it.
WindowInv ==
  \A p \in Peers :
    /\ Outstanding(m[p]) = RingDist(m[p].sent_info, m[p].tx_info)
    /\ Outstanding(m[p]) <= WinSize

\* What put_chars wrote to each terminal is exactly the beginning of what
\* get_chars took from the other one: nothing lost, duplicated or
\* reordered by rx_info, push_rest_data, retransmission or a reset.
Integrity ==
  \A p \in Peers :
    LET d == m[Other(p)].delivered IN
    /\ Len(d) <= m[p].taken
    /\ \A i \in 1..Len(d) : d[i] = i


-----------------------------------------------------------------------------
(* Fairness and liveness.                                                  *)

\* The modem loop calls modem_get_bits and modem_put_bits on every block of
\* samples, so a frame that can be sent is sent and one on the line is
\* received; the bit timer counts every transmitted bit down, so an armed
\* timer fires; packer_process runs on every tick; the sample timer of
\* schedule_modem_stop fires.  Line loss and the user's hangup are not fair.
Fairness ==
  \A p \in Peers :
    /\ WF_vars(Transmit(p)) /\ WF_vars(Receive(p)) /\ WF_vars(Timeout(p))
    /\ WF_vars(PushRest(p)) /\ WF_vars(Stop(p))

FairSpec == Spec /\ Fairness

\* Every message each terminal offers is eventually written to the other
\* terminal: XID exchange, SABME/UA, windowed I-frames, busy/RNR and
\* push_rest_data together make progress.
AllDelivered == <>(\A p \in Peers : Len(m[p].delivered) = Msgs[Other(p)])

\* A modem in EC_ESTAB eventually leaves it: either LAPM reaches DATA and
\* reports CONNECT (EC_LINK) or gives up and reports NO CARRIER
\* (EC_RELEASE) after T401 has run out LAPM_MAX_RTX times.
EstablishResolves ==
  \A p \in Peers : m[p].mstate = "EC_ESTAB" ~> m[p].mstate # "EC_ESTAB"

=============================================================================
