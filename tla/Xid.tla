--------------------------------- MODULE Xid ---------------------------------
(***************************************************************************)
(* LAPM parameter negotiation of slmodemd (src/slmodemd/modem_ec.c): the   *)
(* XID frames tx_xid builds, the parse of a received XID by rx_xid,        *)
(* parse_xid_params (with SET_PARAM) and parse_xid_private_params, and the *)
(* V.42bis part of modem_update_config (modem.c) with comp_config          *)
(* (modem_comp.c).  The caller's corrector starts the exchange           *)
(* (modem_ec_negotiate, lapm_config), retransmits it on T401 and connects  *)
(* when the response comes; the answerer answers every XID command.        *)
(*                                                                         *)
(* Frames are byte sequences, built and parsed as the code does.  Either  *)
(* end is a D-Modem or a foreign V.42 peer that sends XID fields from a    *)
(* small set.  The model ends where the connection starts: once a          *)
(* D-Modem has sent SABME its T401, and every frame but XID, are Lapm's.   *)
(***************************************************************************)
EXTENDS Integers, Sequences, SequencesExt, Bitwise

CONSTANTS
  Caller, Answer,  \* the two ends (m->caller = 1 and m->caller = 0)
  Kinds,           \* the pairs <<caller kind, answer kind>> a call may have
  CompEnable,      \* values MODEM_COMP_ENABLE leaves in m->cfg.comp: 3 or 0
  ForeignXids,     \* XID fields after address and control a foreign peer sends
  MaxRtx,          \* LAPM_MAX_RTX = 5
  MaxForeign,      \* bound: XID commands a foreign peer sends unasked
  ChanCap          \* bound: frames in flight per direction

ASSUME Kinds \subseteq ({"dmodem", "foreign"} \X {"dmodem", "foreign"})
ASSUME CompEnable \subseteq {0, 3} /\ MaxRtx \in Nat /\ ChanCap >= 1

VARIABLES
  l,     \* l[p]: the lapm_state fields of the exchange, and m->bit_timer_func
  m,     \* m[p]: m->cfg.comp/comp_dict_size/comp_max_string and the codecs
  chan,  \* chan[p]: frames on the line towards p, in order
  kind,  \* kind[p]: "dmodem" or "foreign"
  sent   \* XID commands the foreign peer has sent unasked

vars == <<l, m, chan, kind, sent>>

Ends == {Caller, Answer}
Other(p) == IF p = Caller THEN Answer ELSE Caller

\* modem.h, modem_ec.c and modem_comp.c
LAPM_MAX_WIN_SIZE == 15
LAPM_MAX_INFO_SIZE == 128
LAPM_DFLT_WIN_SIZE == 15
LAPM_DFLT_INFO_SIZE == 128
COMP_MAX_CODEWORDS == 2048
COMP_MAX_STRING == 34     \* also sizeof(c->str_data)
MIN_DICT_SIZE == 512
MIN_STR_SIZE == 6
MAX_STR_SIZE == 250
FRAME_U_XID == \haf
FRAME_U_SABME == \h6f
FI_GENERAL == \h82
GI_PARAM_NEGOTIATION == \h80
GI_PRIVATE_NEGOTIATION == \hf0
PI_HDLC_OPTFUNCS == \h03
PI_TX_INFO_MAXSIZE == \h05
PI_RX_INFO_MAXSIZE == \h06
PI_TX_WINDOW_SIZE == \h07
PI_RX_WINDOW_SIZE == \h08
PI_PARAMETER_SET_ID == \h00
PI_V42BIS_REQUEST == \h01
PI_V42BIS_CW_NUMBER == \h02
PI_V42BIS_MAX_STRING == \h03

\* lapm_init: l->cmd_addr = m->caller ? 0x3 : 0x1, rsp_addr the other
cmd_addr(p) == IF p = Caller THEN 3 ELSE 1
rsp_addr(p) == IF p = Caller THEN 1 ELSE 3
\* RX_IS_COMMAND and FRAME_CTRL(f) & 0xef (the P/F bit masked)
IsCommand(p, f) == f[1] = rsp_addr(p)
IsXid(f) == Len(f) >= 2 /\ (f[2] & \hef) = FRAME_U_XID

Byte(v) == v % 256
Hi(v) == Byte(v \div 256)

-----------------------------------------------------------------------------
(* tx_xid (550-637): the parameter group always, the private V.42bis      *)
(* group when m->cfg.comp is set; sizes go out in bits (<< 3) in two      *)
(* bytes, windows and the rest in one byte of a u8.  The length check     *)
(* against 43 bytes never fails: both groups fill exactly 43.            *)
tx_xid(lp, mp, addr) ==
  LET pinfo(n) == n * 8
  IN  << addr, FRAME_U_XID, FI_GENERAL,
         GI_PARAM_NEGOTIATION, 0, 19,
         PI_HDLC_OPTFUNCS, 3, \h8a, \h89, \h00,
         PI_TX_INFO_MAXSIZE, 2, Hi(pinfo(lp.tx_info_size)), Byte(pinfo(lp.tx_info_size)),
         PI_RX_INFO_MAXSIZE, 2, Hi(pinfo(lp.rx_info_size)), Byte(pinfo(lp.rx_info_size)),
         PI_TX_WINDOW_SIZE, 1, Byte(lp.tx_win_size),
         PI_RX_WINDOW_SIZE, 1, Byte(lp.rx_win_size) >>
      \o IF mp.comp = 0 THEN << >>
         ELSE << GI_PRIVATE_NEGOTIATION, 0, 15,
                 PI_PARAMETER_SET_ID, 3, \h56, \h34, \h32,
                 PI_V42BIS_REQUEST, 1, mp.comp,
                 PI_V42BIS_CW_NUMBER, 2, Hi(mp.comp_dict_size), Byte(mp.comp_dict_size),
                 PI_V42BIS_MAX_STRING, 1, Byte(mp.comp_max_string) >>

\* lapm_get_be_val and lapm_get_le_val (161-178): a u32 shifted by 8 bits
\* per byte, first byte highest or lowest.  The values here have at most
\* two bytes, so the u32 never wraps (nor does pval = size << 3 in tx_xid).
lapm_get_be_val(s) == FoldLeft(LAMBDA v, b : v * 256 + b, 0, s)
lapm_get_le_val(s) == lapm_get_be_val(Reverse(s))

\* The element walks of rx_xid (group id, u16 length, value) and of the
\* parse_xid_*params (id, u8 length, value): while (len > 0), stopping at an
\* element whose length runs past what is left (len < 0 after the subtraction).
RECURSIVE XidGroups(_)
XidGroups(buf) ==
  IF Len(buf) < 3 \/ Len(buf) < 3 + buf[2] * 256 + buf[3] THEN << >>
  ELSE LET glen == buf[2] * 256 + buf[3]
       IN  << [id |-> buf[1], val |-> SubSeq(buf, 4, 3 + glen)] >>
           \o XidGroups(SubSeq(buf, 4 + glen, Len(buf)))

RECURSIVE XidParams(_)
XidParams(buf) ==
  IF Len(buf) < 2 \/ Len(buf) < 2 + buf[2] THEN << >>
  ELSE << [id |-> buf[1], val |-> SubSeq(buf, 3, 2 + buf[2])] >>
       \o XidParams(SubSeq(buf, 3 + buf[2], Len(buf)))

\* Seeded fault: SET_PARAM with the comparison of its second test turned,
\* so that above the default the larger value wins.
set_param_takes_larger(param, value, default) ==
  IF \/ value < default /\ param >= default
     \/ value >= default /\ param < default
  THEN default
  ELSE IF \/ value < default /\ param < value
          \/ value >= default /\ param < value
       THEN value
       ELSE param

\* SET_PARAM (426-432): the default if value and param lie on different
\* sides of it, else value if it is nearer the default than param
SET_PARAM(param, value, default) ==
  IF \/ value < default /\ param >= default
     \/ value >= default /\ param < default
  THEN default
  ELSE IF \/ value < default /\ param < value
          \/ value >= default /\ param > value
       THEN value
       ELSE param

\* parse_xid_params (434-474): PI_HDLC_OPTFUNCS is read and dropped
parse_xid_params(lp, buf) ==
  LET step(x, e) ==
        LET v == lapm_get_be_val(e.val)
        IN CASE e.id = PI_TX_INFO_MAXSIZE ->
                  [x EXCEPT !.tx_info_size = SET_PARAM(@, v \div 8, LAPM_DFLT_INFO_SIZE)]
             [] e.id = PI_RX_INFO_MAXSIZE ->
                  [x EXCEPT !.rx_info_size = SET_PARAM(@, v \div 8, LAPM_DFLT_INFO_SIZE)]
             [] e.id = PI_TX_WINDOW_SIZE ->
                  [x EXCEPT !.tx_win_size = SET_PARAM(@, v, LAPM_DFLT_WIN_SIZE)]
             [] e.id = PI_RX_WINDOW_SIZE ->
                  [x EXCEPT !.rx_win_size = SET_PARAM(@, v, LAPM_DFLT_WIN_SIZE)]
             [] OTHER -> x
  IN FoldLeft(step, lp, XidParams(buf))

\* parse_xid_private_params (477-507) into rx_xid's local cfg (u8 comp)
parse_xid_private_params(cfg, buf) ==
  LET step(x, e) ==
        CASE e.id = PI_V42BIS_REQUEST -> [x EXCEPT !.comp = Byte(lapm_get_le_val(e.val))]
          [] e.id = PI_V42BIS_CW_NUMBER -> [x EXCEPT !.comp_dict_size = lapm_get_be_val(e.val)]
          [] e.id = PI_V42BIS_MAX_STRING -> [x EXCEPT !.comp_max_string = lapm_get_be_val(e.val)]
          [] OTHER -> x
  IN FoldLeft(step, cfg, XidParams(buf))

\* comp_config (modem_comp.c:749-762) of one codec: the protocol's bounds,
\* then what the codec was set up with (dict_size, and str_data of
\* COMP_MAX_STRING bytes).  modem_comp_config (808-816) runs it on the
\* encoder and then the decoder; both were set up alike by modem_comp_init
\* and configured alike since, so one record stands for the pair.
comp_config_fails(c, dict_size, max_str) ==
  \/ dict_size < MIN_DICT_SIZE \/ max_str < MIN_STR_SIZE \/ max_str > MAX_STR_SIZE
  \/ dict_size > c.dict_size \/ max_str > COMP_MAX_STRING

\* Seeded fault: the sizes copied into m->cfg whatever comp_config said.
update_config_ignores_refusal(mp, cfg) ==
  IF cfg.comp # 0 /\ mp.comp # 0
  THEN [mp EXCEPT !.comp = cfg.comp,
                  !.codec = IF comp_config_fails(mp.codec, cfg.comp_dict_size,
                                                 cfg.comp_max_string)
                            THEN @
                            ELSE [dict_size |-> cfg.comp_dict_size,
                                  max_string |-> cfg.comp_max_string],
                  !.comp_dict_size = cfg.comp_dict_size,
                  !.comp_max_string = cfg.comp_max_string]
  ELSE [mp EXCEPT !.comp = 0]

\* Seeded fault: without the else branch (line 584), a request the peer
\* did not make leaves compression on.
update_config_keeps_comp(mp, cfg) ==
  IF cfg.comp # 0 /\ mp.comp # 0
  THEN IF comp_config_fails(mp.codec, cfg.comp_dict_size, cfg.comp_max_string)
       THEN [mp EXCEPT !.comp = cfg.comp]
       ELSE [mp EXCEPT !.comp = cfg.comp,
                       !.codec = [dict_size |-> cfg.comp_dict_size,
                                  max_string |-> cfg.comp_max_string],
                       !.comp_dict_size = cfg.comp_dict_size,
                       !.comp_max_string = cfg.comp_max_string]
  ELSE mp

\* modem_update_config (modem.c:553-585): the V.42bis request is taken only
\* when both sides ask for it; a codec that refuses the sizes keeps the old
\* ones and compression stays on.  The ec_* sizes are only printed.
modem_update_config(mp, cfg) ==
  IF cfg.comp # 0 /\ mp.comp # 0
  THEN IF comp_config_fails(mp.codec, cfg.comp_dict_size, cfg.comp_max_string)
       THEN [mp EXCEPT !.comp = cfg.comp]
       ELSE [mp EXCEPT !.comp = cfg.comp,
                       !.codec = [dict_size |-> cfg.comp_dict_size,
                                  max_string |-> cfg.comp_max_string],
                       !.comp_dict_size = cfg.comp_dict_size,
                       !.comp_max_string = cfg.comp_max_string]
  ELSE [mp EXCEPT !.comp = 0]

\* DEFAULT_MODEM_EC_CONFIG {1,1,15,15,128,128,0,512,6}: comp is 0 unless
\* the XID carries a V.42bis request
DEFAULT_MODEM_EC_CONFIG ==
  [comp |-> 0, comp_dict_size |-> 512, comp_max_string |-> 6]

\* rx_xid (509-548): a format identifier other than FI_GENERAL returns -1
\* before anything changes (the callers ignore it).  Groups are walked in
\* order; parameter groups change only l and private groups only the
\* local cfg, so the two folds below give what the single loop gives.
rx_xid(lp, mp, f) ==
  IF f[3] # FI_GENERAL THEN [l |-> lp, m |-> mp]
  ELSE LET gs == XidGroups(SubSeq(f, 4, Len(f)))
           neg(x, g) == IF g.id = GI_PARAM_NEGOTIATION
                        THEN parse_xid_params(x, g.val) ELSE x
           prv(x, g) == IF g.id = GI_PRIVATE_NEGOTIATION
                        THEN parse_xid_private_params(x, g.val) ELSE x
       IN  [l |-> FoldLeft(neg, lp, gs),
            m |-> modem_update_config(mp, FoldLeft(prv, DEFAULT_MODEM_EC_CONFIG, gs))]

\* tx_unnum through get_ctrl_frame: a frame for the line; one that finds
\* the line full is lost with it
Send(ch, f) == IF Len(ch) < ChanCap THEN Append(ch, f) ELSE ch

-----------------------------------------------------------------------------
(* A D-Modem.                                                              *)

DModem(p) == kind[p] = "dmodem"

\* modem_ec_negotiate (1376-1381), the caller's bit timer set by
\* modem_ec_start: lapm_config (1277-1287) sets config, sends the XID
\* command and starts T401 (the LAPM_DATA branch needs a connection)
modem_ec_negotiate(p) ==
  /\ DModem(p) /\ l[p].timer = "negotiate"
  /\ l' = [l EXCEPT ![p].config = TRUE, ![p].timer = "t401", ![p].rtx_count = 0]
  /\ chan' = [chan EXCEPT ![Other(p)] = Send(@, tx_xid(l[p], m[p], cmd_addr(p)))]
  /\ UNCHANGED <<m, kind, sent>>

\* Seeded fault: the give-up test one retransmission late.
t401_timeout_late_giveup(p) ==
  /\ DModem(p) /\ l[p].timer = "t401" /\ l[p].state = "IDLE"
  /\ IF l[p].rtx_count > MaxRtx + 1
     THEN /\ l' = [l EXCEPT ![p].rtx_count = 0, ![p].timer = "off"]
          /\ UNCHANGED chan
     ELSE /\ l' = [l EXCEPT ![p].rtx_count = @ + 1]
          /\ chan' = IF l[p].config
                     THEN [chan EXCEPT ![Other(p)] = Send(@, tx_xid(l[p], m[p], cmd_addr(p)))]
                     ELSE chan
  /\ UNCHANGED <<m, kind, sent>>

\* t401_timeout (640-683) before the connection: past LAPM_MAX_RTX it clears
\* the count and stops (the switch has no case for LAPM_IDLE); else it
\* counts, resends the XID command while config is set, and rearms
t401_timeout(p) ==
  /\ DModem(p) /\ l[p].timer = "t401" /\ l[p].state = "IDLE"
  /\ IF l[p].rtx_count > MaxRtx
     THEN /\ l' = [l EXCEPT ![p].rtx_count = 0, ![p].timer = "off"]
          /\ UNCHANGED chan
     ELSE /\ l' = [l EXCEPT ![p].rtx_count = @ + 1]
          /\ chan' = IF l[p].config
                     THEN [chan EXCEPT ![Other(p)] = Send(@, tx_xid(l[p], m[p], cmd_addr(p)))]
                     ELSE chan
  /\ UNCHANGED <<m, kind, sent>>

\* rx_unnum_cmd, case FRAME_U_XID (1031-1035): rx_xid, then the response
\* built from what rx_xid left
rx_xid_cmd(p) ==
  /\ DModem(p) /\ chan[p] # << >>
  /\ LET f == Head(chan[p])
         r == rx_xid(l[p], m[p], f)
     IN /\ IsXid(f) /\ IsCommand(p, f)
        /\ l' = [l EXCEPT ![p] = r.l]
        /\ m' = [m EXCEPT ![p] = r.m]
        /\ chan' = [chan EXCEPT ![p] = Tail(@),
                                ![Other(p)] = Send(@, tx_xid(r.l, r.m, rsp_addr(p)))]
  /\ UNCHANGED <<kind, sent>>

\* rx_unnum_rsp, case FRAME_U_XID (1117-1131): only while config is set;
\* rx_xid, T401_STOP, and from LAPM_IDLE lapm_connect (1250-1266): state
\* LAPM_ESTAB, SABME with P, T401_START
rx_xid_rsp(p) ==
  /\ DModem(p) /\ chan[p] # << >>
  /\ LET f == Head(chan[p])
         r == rx_xid(l[p], m[p], f)
     IN /\ IsXid(f) /\ ~IsCommand(p, f)
        /\ IF l[p].config
           THEN /\ l' = [l EXCEPT ![p] = [r.l EXCEPT !.config = FALSE,
                                           !.state = "ESTAB", !.timer = "t401",
                                           !.rtx_count = 0]]
                /\ m' = [m EXCEPT ![p] = r.m]
                /\ chan' = [chan EXCEPT ![p] = Tail(@),
                               ![Other(p)] = Send(@, << cmd_addr(p), FRAME_U_SABME + \h10 >>)]
           ELSE /\ chan' = [chan EXCEPT ![p] = Tail(@)]
                /\ UNCHANGED <<l, m>>
  /\ UNCHANGED <<kind, sent>>

-----------------------------------------------------------------------------
(* The foreign peer, and the line.                                         *)

\* answers an XID command with XID fields of its choice; takes in any
\* other frame
ForeignReceive(p) ==
  /\ ~DModem(p) /\ chan[p] # << >>
  /\ LET f == Head(chan[p])
     IN IF IsXid(f) /\ IsCommand(p, f)
        THEN \E x \in ForeignXids :
               chan' = [chan EXCEPT ![p] = Tail(@),
                          ![Other(p)] = Send(@, << rsp_addr(p), FRAME_U_XID >> \o x)]
        ELSE chan' = [chan EXCEPT ![p] = Tail(@)]
  /\ UNCHANGED <<l, m, kind, sent>>

\* starts a negotiation of its own
ForeignCommand(p) ==
  /\ ~DModem(p) /\ sent < MaxForeign
  /\ \E x \in ForeignXids :
       chan' = [chan EXCEPT ![Other(p)] = Send(@, << cmd_addr(p), FRAME_U_XID >> \o x)]
  /\ sent' = sent + 1
  /\ UNCHANGED <<l, m, kind>>

\* a frame that is not an XID reaches a D-Modem: Lapm's business
OtherFrame(p) ==
  /\ DModem(p) /\ chan[p] # << >> /\ ~IsXid(Head(chan[p]))
  /\ chan' = [chan EXCEPT ![p] = Tail(@)]
  /\ UNCHANGED <<l, m, kind, sent>>

\* line noise: the HDLC receiver drops a frame whose FCS is wrong
Lose(p) ==
  /\ chan[p] # << >>
  /\ chan' = [chan EXCEPT ![p] = Tail(@)]
  /\ UNCHANGED <<l, m, kind, sent>>

-----------------------------------------------------------------------------
\* modem_setup_config (modem.c:1083-1100) as modem_start calls it, and
\* modem_comp_init (modem_comp.c:792-806) when m->cfg.comp is set; a codec
\* never set up has dict_size 0
modem_setup_config(comp) ==
  [comp |-> comp, comp_dict_size |-> COMP_MAX_CODEWORDS,
   comp_max_string |-> COMP_MAX_STRING,
   codec |-> IF comp # 0
             THEN [dict_size |-> COMP_MAX_CODEWORDS, max_string |-> COMP_MAX_STRING]
             ELSE [dict_size |-> 0, max_string |-> 0]]

\* lapm_init (1344-1361) from that config, and modem_ec_start (1383-1403):
\* only the caller arms the bit timer with modem_ec_negotiate
lapm_init(p) ==
  [state |-> "IDLE", config |-> FALSE, rtx_count |-> 0,
   timer |-> IF p = Caller THEN "negotiate" ELSE "off",
   tx_win_size |-> LAPM_MAX_WIN_SIZE, rx_win_size |-> LAPM_MAX_WIN_SIZE,
   tx_info_size |-> LAPM_MAX_INFO_SIZE, rx_info_size |-> LAPM_MAX_INFO_SIZE]

Init ==
  /\ \E k \in Kinds : kind = [p \in Ends |-> IF p = Caller THEN k[1] ELSE k[2]]
  /\ l = [p \in Ends |-> lapm_init(p)]
  /\ m \in [Ends -> {modem_setup_config(c) : c \in CompEnable}]
  /\ chan = [p \in Ends |-> << >>]
  /\ sent = 0

Next ==
  \E p \in Ends :
    \/ modem_ec_negotiate(p) \/ t401_timeout(p)
    \/ rx_xid_cmd(p) \/ rx_xid_rsp(p) \/ OtherFrame(p)
    \/ ForeignReceive(p) \/ ForeignCommand(p)
    \/ Lose(p)

Spec == Init /\ [][Next]_vars

-----------------------------------------------------------------------------
(* Properties.                                                             *)

TypeOK ==
  /\ kind \in [Ends -> {"dmodem", "foreign"}]
  /\ sent \in 0..MaxForeign
  /\ \A p \in Ends :
       /\ l[p].state \in {"IDLE", "ESTAB"} /\ l[p].config \in BOOLEAN
       /\ l[p].timer \in {"off", "negotiate", "t401"}
       /\ l[p].rtx_count \in 0..(MaxRtx + 1)
       /\ m[p].comp \in 0..255
       /\ \A i \in 1..Len(chan[p]) : chan[p][i] \in Seq(0..255)

\* Whatever sizes a peer's XID proposes, a D-Modem's window sizes stay in
\* 1..LAPM_MAX_WIN_SIZE and its info-field sizes in 1..LAPM_MAX_INFO_SIZE
\* (spec.md: "negotiated window sizes (tx/rx, 1..15) and info-field sizes
\* (tx/rx, <=128 bytes)"): tx_info copies up to tx_info_size bytes into an
\* info[LAPM_MAX_INFO_SIZE] buffer and the info ring has LAPM_MAX_WIN_SIZE
\* + 1 frames.  It rests on SET_PARAM applied to the values lapm_init took
\* from modem_setup_config, over any number of XIDs.
LapmParamsInBounds ==
  \A p \in Ends : DModem(p) =>
    /\ l[p].tx_win_size \in 1..LAPM_MAX_WIN_SIZE
    /\ l[p].rx_win_size \in 1..LAPM_MAX_WIN_SIZE
    /\ l[p].tx_info_size \in 1..LAPM_MAX_INFO_SIZE
    /\ l[p].rx_info_size \in 1..LAPM_MAX_INFO_SIZE

\* While V.42bis is on, the dictionary size and string length a D-Modem
\* keeps in m->cfg (and so announces in its XID response) are the ones its
\* codecs run with, within the protocol's bounds and what the codecs were
\* set up with (spec.md: dict_size >= 512, 6 <= max_string): rx_xid's
\* modem_update_config against comp_config's refusals.
CompFitsCodec ==
  \A p \in Ends : DModem(p) /\ m[p].comp # 0 =>
    /\ m[p].codec.dict_size = m[p].comp_dict_size
    /\ m[p].codec.max_string = m[p].comp_max_string
    /\ m[p].comp_dict_size \in MIN_DICT_SIZE..COMP_MAX_CODEWORDS
    /\ m[p].comp_max_string \in MIN_STR_SIZE..COMP_MAX_STRING

\* Between two D-Modems, once the caller has the XID response and goes on
\* to SABME, both ends run V.42bis or neither, and with the same
\* dictionary size and string length, whichever of them has compression
\* disabled and whatever XIDs the line lost or T401 repeated: the
\* caller's tx_xid, the answerer's rx_xid and response, the caller's rx_xid.
CompAgree ==
  kind[Caller] = "dmodem" /\ kind[Answer] = "dmodem" /\ l[Caller].state = "ESTAB" =>
    /\ m[Caller].comp = m[Answer].comp
    /\ m[Caller].comp # 0 => m[Caller].codec = m[Answer].codec
====
