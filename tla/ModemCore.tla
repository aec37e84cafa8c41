------------------------------ MODULE ModemCore ------------------------------
(***************************************************************************)
(* The call control of slmodemd: the state machine of modem.c (modem_start,*)
(* modem_stop, modem_hup, modem_update_status, the sample timer), the AT   *)
(* command interpreter (modem_at_process, process_at_command) and the      *)
(* main loop of modem_main.c with the socket driver, which reads the audio *)
(* of the d-modem child and sees a failed read when the child exits.       *)
(*                                                                         *)
(* The struct modem is the record m.  The data pumps, the packers and LAPM *)
(* are the environment: they report DPSTAT_* and STATUS_* to the core.     *)
(* Timing is abstract except for one rule: schedule_modem_stop fires 48    *)
(* samples later, far too soon for a training, a V.42 detection or a LAPM  *)
(* handshake to complete, so no link comes up while a stop is pending.     *)
(***************************************************************************)
EXTENDS Integers, Sequences

CONSTANTS
  Writes,        \* the buffers the terminal writes to the pty
  EcEnable,      \* S-register SREG_EC (MODEM_EC_ENABLE, 1 by sregs_init)
  RingDetector,  \* the -r option (modem_cmdline.c ring_detector)
  StartResults,  \* whether modem_start's device start and allocations succeed
  CreateResults, \* whether a data pump's op->create succeeds
  AtLineMax,     \* sizeof(m->at_line) - 1
  XmitSize,      \* m->xmit.size
  MaxInputs      \* bound: terminal writes and escapes

ASSUME EcEnable \in BOOLEAN /\ RingDetector \in BOOLEAN
ASSUME StartResults \subseteq BOOLEAN /\ CreateResults \subseteq BOOLEAN
ASSUME AtLineMax \in Nat \ {0} /\ XmitSize \in Nat \ {0} /\ MaxInputs \in Nat

VARIABLES
  m,       \* struct modem
  pty,     \* what the terminal wrote that modem_run has not read yet
  inputs   \* terminal writes and escapes so far

vars == <<m, pty, inputs>>

\* STATE_* (modem.c 329-335) and the macros on them (341-347)
IDLE == 1
DP_ESTAB == 2
EC_ESTAB == 4
ONLINE == 5
COMMAND_ONLINE == 6
EC_DISC == 7
DP_DISC == 9
States == {IDLE, DP_ESTAB, EC_ESTAB, ONLINE, COMMAND_ONLINE, EC_DISC, DP_DISC}
IS_STATE_LINKED(s) == s > DP_ESTAB
IS_STATE_CONNECTING(s) == s > IDLE /\ s < ONLINE
IS_STATE_DISC(s) == s \in {EC_DISC, DP_DISC}

Finals == {"NO CARRIER", "BUSY", "NO DIALTONE", "NO ANSWER"}
Results == {"OK", "CONNECT", "ERROR"} \cup Finals
\* characters: "CR" ends a line, "x" is any character no command starts with
Chars == {"A", "T", "D", "H", "O", "Q", "Z", "0", "1", "x", "CR"}
IsDigit(c) == c \in {"0", "1"}

TypeOK ==
  /\ m.state \in States /\ m.command \in BOOLEAN /\ m.started \in BOOLEAN
  /\ m.hook \in {"ON", "OFF", "SNOOPING"} /\ m.caller \in BOOLEAN
  /\ m.dp \in {"none", "callprog", "data"} /\ m.process \in {"none", "dp", "rd"}
  /\ m.pack \in {"none", "detector", "hdlc", "async"}
  /\ m.lapm \in {"off", "idle", "data", "disc"} /\ m.ec \in BOOLEAN
  /\ m.timer \in {"none", "stop", "stale_stop", "change_dp"} /\ m.rd \in BOOLEAN
  /\ m.result_code \in Finals \cup {"none"} /\ m.cd \in BOOLEAN
  /\ m.xmit \in Seq(Chars) /\ Len(m.xmit) <= XmitSize
  /\ m.at_line \in Seq(Chars \ {"CR"}) /\ Len(m.at_line) <= AtLineMax
  /\ m.results \in Seq(Results) /\ m.quiet \in BOOLEAN /\ m.crashed \in BOOLEAN
  /\ pty \in Seq(Chars)

-----------------------------------------------------------------------------
(* modem.c: states, hangup, start and stop.                                *)

\* nothing reaches the terminal while S14 (SREG_QUIET, ATQ1) is set
modem_report_result(mm, r) ==
  IF mm.quiet THEN mm ELSE [mm EXCEPT !.results = Append(@, r)]

\* the command flag and the bit and char handlers each state installs
modem_set_state(mm, s) ==
  IF mm.state = s THEN mm
  ELSE [mm EXCEPT !.state = s,
         !.command = CASE s \in {IDLE, COMMAND_ONLINE} -> TRUE
                       [] s \in {DP_ESTAB, EC_ESTAB, ONLINE} -> FALSE
                       [] OTHER -> @,
         !.pack = IF s \in {IDLE, DP_ESTAB, DP_DISC} THEN "none" ELSE @,
         !.cd = IF s = ONLINE THEN TRUE ELSE @]

schedule_modem_stop(mm) == [mm EXCEPT !.timer = "stop"]

no_carrier(mm) ==
  IF mm.result_code = "none" THEN [mm EXCEPT !.result_code = "NO CARRIER"]
  ELSE mm

\* lapm_disconnect: LAPM sends DISC and waits for the answer
modem_ec_stop(mm) == [mm EXCEPT !.lapm = "disc"]

\* mutant: the DP_ESTAB branch forgets schedule_modem_stop
modem_hup_estab_nostop(mm, local) ==
  CASE mm.state = DP_ESTAB -> no_carrier(modem_set_state(mm, DP_DISC))
    [] mm.state \in {EC_ESTAB, ONLINE, COMMAND_ONLINE} ->
         [schedule_modem_stop(no_carrier(
            IF local /\ mm.ec THEN modem_set_state(modem_ec_stop(mm), EC_DISC)
            ELSE modem_set_state(mm, DP_DISC))) EXCEPT !.cd = FALSE]
    [] mm.state = EC_DISC -> modem_set_state(mm, DP_DISC)
    [] OTHER -> mm

\* mutant: the linked branch forgets schedule_modem_stop
modem_hup_ec_nostop(mm, local) ==
  CASE mm.state = DP_ESTAB ->
         schedule_modem_stop(no_carrier(modem_set_state(mm, DP_DISC)))
    [] mm.state \in {EC_ESTAB, ONLINE, COMMAND_ONLINE} ->
         [no_carrier(
            IF local /\ mm.ec THEN modem_set_state(modem_ec_stop(mm), EC_DISC)
            ELSE modem_set_state(mm, DP_DISC)) EXCEPT !.cd = FALSE]
    [] mm.state = EC_DISC -> modem_set_state(mm, DP_DISC)
    [] OTHER -> mm

modem_hup(mm, local) ==
  CASE mm.state = DP_ESTAB ->
         schedule_modem_stop(no_carrier(modem_set_state(mm, DP_DISC)))
    [] mm.state \in {EC_ESTAB, ONLINE, COMMAND_ONLINE} ->
         [schedule_modem_stop(no_carrier(
            IF local /\ mm.ec THEN modem_set_state(modem_ec_stop(mm), EC_DISC)
            ELSE modem_set_state(mm, DP_DISC))) EXCEPT !.cd = FALSE]
    [] mm.state = EC_DISC -> modem_set_state(mm, DP_DISC)
    [] OTHER -> mm

\* modem_stop reports the result code the call ended with, then clears it
stop_report(mm) ==
  IF mm.result_code = "none" THEN mm
  ELSE [modem_report_result(mm, mm.result_code) EXCEPT !.result_code = "none"]

\* the socket driver's stop always succeeds.  The sample timer is left
\* alone while m->count restarts from 0: a pending stop no longer fires 48
\* samples on, but once the next call has lasted as long as this one
modem_stop(mm) ==
  stop_report(modem_set_state(
    [mm EXCEPT !.process = "none", !.started = FALSE, !.hook = "ON",
               !.caller = FALSE, !.command = TRUE, !.lapm = "off",
               !.dp = "none", !.rd = FALSE,
               !.timer = IF @ = "stop" THEN "stale_stop" ELSE @], IDLE))

\* hook off, the transmit queue and the command flag cleared, LAPM
\* initialised; on a failure of the allocations or of the device start
\* the error path reports NO CARRIER through modem_stop
start_device(mm, ok) ==
  IF ok THEN [mm EXCEPT !.hook = "OFF", !.xmit = <<>>, !.command = FALSE,
                        !.lapm = IF mm.ec THEN "idle" ELSE "off",
                        !.started = TRUE]
  ELSE modem_stop([mm EXCEPT !.hook = "OFF", !.xmit = <<>>, !.command = FALSE,
                             !.result_code = "NO CARRIER"])

start_config(mm, ok) ==
  start_device(modem_set_state([mm EXCEPT !.result_code = "none",
                                          !.ec = EcEnable], DP_ESTAB), ok)

modem_start(mm, ok) == start_config(IF mm.started THEN modem_stop(mm) ELSE mm, ok)

\* modem_ring_detector_start, called at the top of modem_run's loop
modem_ring_detector_start(mm) ==
  IF mm.rd THEN mm
  ELSE [mm EXCEPT !.rd = TRUE, !.process = "rd", !.hook = "SNOOPING",
                  !.started = TRUE]

loop_head(mm) ==
  IF RingDetector /\ ~mm.started THEN modem_ring_detector_start(mm) ELSE mm

-----------------------------------------------------------------------------
(* The data pump's statuses and the links above it.                        *)

status_ec_link(mm) == modem_report_result(modem_set_state(mm, ONLINE), "CONNECT")

\* with EC the HDLC packer and LAPM start; without, async and EC_LINK
status_pack_link(mm) ==
  IF mm.ec THEN [mm EXCEPT !.pack = "hdlc"]
  ELSE status_ec_link([mm EXCEPT !.pack = "async"])

\* the answerer runs the V.42 detector first; QC_SKIP_EC_DETECTION skips
\* it for the caller (ec_detector and qc_lapm are both cfg.ec)
dp_link_after(mm) ==
  IF mm.ec /\ ~mm.caller THEN [mm EXCEPT !.pack = "detector"]
  ELSE status_pack_link(mm)

status_dp_link(mm) == dp_link_after(modem_set_state(mm, EC_ESTAB))

status_release(mm) ==
  modem_hup([mm EXCEPT !.result_code = "NO CARRIER"], mm.state = EC_DISC)

\* dpstat2status and the default branch of modem_update_status
dpstat_result(st) ==
  CASE st = "NODIALTONE" -> "NO DIALTONE"
    [] st = "BUSY" -> "BUSY"
    [] st = "NOANSWER" -> "NO ANSWER"
    [] OTHER -> "NO CARRIER"

status_finish(mm, st) ==
  modem_hup([mm EXCEPT !.result_code = dpstat_result(st)],
            IS_STATE_DISC(mm.state))

\* a new data pump from dp_requested or MODEM_DP replaces the old one; if
\* it cannot be created, the modem hangs up and keeps the old one
do_modem_change_dp(mm, ok) ==
  IF ok THEN [mm EXCEPT !.dp = "data", !.process = "dp"]
  ELSE modem_hup(mm, TRUE)

\* the statuses a pump returns: call progress reports the answer (CHANGEDP)
\* or why there is none, a data pump its link or its loss
DpStatuses(dp) ==
  IF dp = "callprog" THEN {"CHANGEDP", "NODIALTONE", "BUSY", "NOANSWER", "ERROR"}
  ELSE {"CONNECT", "CHANGEDP", "ERROR"}

modem_dp_process(mm, st, ok) ==
  CASE st = "CONNECT" ->
         IF ~IS_STATE_LINKED(mm.state) /\ ~IS_STATE_DISC(mm.state)
         THEN status_dp_link(mm) ELSE mm
    [] st = "CHANGEDP" -> do_modem_change_dp(mm, ok)
    [] OTHER -> [status_finish(mm, st) EXCEPT !.process = "none"]

\* the sample timer's function, called by modem_process
run_timer(mm, f, ok) ==
  CASE f \in {"stop", "stale_stop"} -> modem_stop(mm)
    [] f = "change_dp" -> do_modem_change_dp(mm, ok)
    [] OTHER -> mm

-----------------------------------------------------------------------------
(* The commands (modem.c 1568-1728) and the AT interpreter (modem_at.c).   *)

\* ok: whether the call-progress pump can be created (ok.create) and
\* whether modem_start succeeds (ok.start)
modem_answer(mm, ok) ==
  IF mm.dp # "none" THEN [m |-> mm, ret |-> -1]
  ELSE [m |-> modem_start([IF mm.started THEN modem_stop(mm) ELSE mm
                           EXCEPT !.timer = "change_dp"], ok.start),
        ret |-> IF ok.start THEN 0 ELSE -1]

\* the modem is stopped before CALLPROG is created, whether that succeeds
modem_dial_start(mm, ok) ==
  LET stopped == IF mm.started THEN modem_stop(mm) ELSE mm
  IN IF ok.create
     THEN [stopped EXCEPT !.caller = TRUE, !.dp = "callprog", !.process = "dp"]
     ELSE [stopped EXCEPT !.caller = TRUE]

modem_dial(mm, ok) ==
  CASE mm.dp # "none" -> [m |-> mm, ret |-> -1]
    [] ~ok.create -> [m |-> modem_dial_start(mm, ok), ret |-> -1]
    [] OTHER -> [m |-> modem_start(modem_dial_start(mm, ok), ok.start),
                 ret |-> IF ok.start THEN 0 ELSE -1]

modem_hook(mm, h) ==
  IF mm.hook = h THEN mm
  ELSE [IF mm.state # IDLE THEN modem_hup(mm, TRUE) ELSE mm EXCEPT !.hook = h]

\* mutant: ATO without the check for COMMAND_ONLINE
modem_online_anystate(mm) ==
  [m |-> modem_report_result(
           modem_set_state([mm EXCEPT !.command = FALSE], ONLINE), "CONNECT"),
   ret |-> 0]

modem_online(mm) ==
  IF mm.state # COMMAND_ONLINE THEN [m |-> mm, ret |-> -1]
  ELSE [m |-> modem_report_result(
                modem_set_state([mm EXCEPT !.command = FALSE], ONLINE), "CONNECT"),
        ret |-> 0]

reset_line(mm) ==
  CASE mm.state # IDLE -> modem_hup(mm, TRUE)
    [] mm.started -> modem_stop(mm)
    [] mm.hook # "ON" -> [mm EXCEPT !.hook = "ON"]
    [] OTHER -> mm

\* sregs_init sets S14 back to 0
modem_reset(mm) ==
  [modem_set_state(reset_line(mm), IDLE) EXCEPT !.command = TRUE, !.quiet = FALSE]

\* what a command handler returns: the modem, ret, the characters it used
\* after its letter (len), and whether process_at_command returns at once
Cmd(r, len, stop) == [m |-> r.m, ret |-> r.ret, len |-> len, stop |-> stop]
AnswerRet(r) == [m |-> r.m, ret |-> IF r.ret # 0 THEN -1 ELSE 1]

process_H(mm, n1, n2) ==
  CASE n1 = "1" -> Cmd([m |-> modem_hook(mm, "OFF"), ret |-> 0], 1, FALSE)
    [] n1 = "0" /\ IsDigit(n2) -> Cmd([m |-> mm, ret |-> -1], 1, FALSE)
    [] n1 = "0" -> Cmd([m |-> modem_hook(mm, "ON"), ret |-> 0], 1, FALSE)
    [] IsDigit(n1) -> Cmd([m |-> mm, ret |-> -1], 0, FALSE)
    [] OTHER -> Cmd([m |-> modem_hook(mm, "ON"), ret |-> 0], 0, FALSE)

\* set_sreg for ATQ: a missing digit counts as 0, one out of 0..1 fails
set_quiet(mm, n1) ==
  LET v == IF IsDigit(n1) THEN n1 ELSE "0"
  IN Cmd([m |-> IF v \in {"0", "1"} THEN [mm EXCEPT !.quiet = (v = "1")] ELSE mm,
          ret |-> IF v \in {"0", "1"} THEN 0 ELSE -1],
         IF IsDigit(n1) THEN 1 ELSE 0, FALSE)

\* one command at cmd[p]; the letters not modelled are unknown commands
at_dispatch(mm, cmd, p, ok) ==
  LET c == cmd[p]
      n1 == IF p + 1 <= Len(cmd) THEN cmd[p + 1] ELSE "NUL"
      n2 == IF p + 2 <= Len(cmd) THEN cmd[p + 2] ELSE "NUL"
  IN CASE c = "A" -> Cmd(AnswerRet(modem_answer(mm, ok)), 0, TRUE)
       [] c = "D" -> Cmd(AnswerRet(modem_dial(mm, ok)), 0, TRUE)
       [] c = "H" -> process_H(mm, n1, n2)
       [] c = "O" -> Cmd(AnswerRet(modem_online(mm)), 0, FALSE)
       [] c = "Q" -> set_quiet(mm, n1)
       [] c = "Z" -> Cmd([m |-> modem_reset(mm), ret |-> 0],
                         IF IsDigit(n1) THEN 1 ELSE 0, TRUE)
       [] OTHER -> Cmd([m |-> mm, ret |-> -1], 0, TRUE)

RECURSIVE process_at_cmds(_, _, _, _)
at_continue(r, cmd, p, ok) ==
  IF r.stop \/ r.ret # 0 THEN [m |-> r.m, ret |-> r.ret]
  ELSE process_at_cmds(r.m, cmd, p + 1 + r.len, ok)
process_at_cmds(mm, cmd, p, ok) ==
  IF p > Len(cmd) THEN [m |-> mm, ret |-> 0]
  ELSE at_continue(at_dispatch(mm, cmd, p, ok), cmd, p, ok)

\* process_at_command: after "AT", the commands in turn until one fails
\* or ends the line
process_at_command(mm, cmd, ok) == process_at_cmds(mm, cmd, 3, ok)

at_result(r) ==
  CASE r.ret < 0 -> modem_report_result(r.m, "ERROR")
    [] r.ret = 0 -> modem_report_result(r.m, "OK")
    [] OTHER -> r.m

\* a line that does not start with "AT" is dropped without a result
at_line_end(mm, ok) ==
  IF Len(mm.at_line) < 2 \/ mm.at_line[1] # "A" \/ mm.at_line[2] # "T"
  THEN [mm EXCEPT !.at_line = <<>>]
  ELSE at_result(process_at_command([mm EXCEPT !.at_line = <<>>], mm.at_line, ok))

\* mutant: the overflow test one character late
at_char_overflow_late(mm, ch, ok) ==
  CASE ch = "CR" -> at_line_end(mm, ok)
    [] Len(mm.at_line) = AtLineMax + 1 ->
         modem_report_result([mm EXCEPT !.at_line = <<>>], "ERROR")
    [] OTHER -> [mm EXCEPT !.at_line = Append(@, ch)]

at_char(mm, ch, ok) ==
  CASE ch = "CR" -> at_line_end(mm, ok)
    [] Len(mm.at_line) = AtLineMax ->
         modem_report_result([mm EXCEPT !.at_line = <<>>], "ERROR")
    [] OTHER -> [mm EXCEPT !.at_line = Append(@, ch)]

\* every character in m->xmit, whatever the commands do to the state
RECURSIVE modem_at_process(_, _)
modem_at_process(mm, ok) ==
  IF mm.xmit = <<>> THEN mm
  ELSE modem_at_process(at_char([mm EXCEPT !.xmit = Tail(@)], Head(mm.xmit), ok), ok)

xmit_put(x, buf) ==
  x \o SubSeq(buf, 1, IF Len(buf) <= XmitSize - Len(x) THEN Len(buf)
                      ELSE XmitSize - Len(x))

write_after(mm, ok) == IF mm.command THEN modem_at_process(mm, ok) ELSE mm

\* a write while connecting hangs up and is dropped; the escape sequence
\* counting in modem_check_escape is ModemEvent's
modem_write(mm, buf, ok) ==
  IF IS_STATE_CONNECTING(mm.state) THEN modem_hup(mm, TRUE)
  ELSE write_after([mm EXCEPT !.xmit = xmit_put(@, buf)], ok)

-----------------------------------------------------------------------------
(* The main loop (modem_run, modem_main.c 876-1060): one action per input  *)
(* select() wakes up for.  Each ends at the top of the loop, where the     *)
(* ring detector restarts if the device has stopped.                       *)

\* modem_create (modem.c 1896-1941)
Init ==
  /\ m = loop_head([state |-> IDLE, command |-> TRUE, started |-> FALSE,
                    hook |-> "ON", caller |-> FALSE, dp |-> "none",
                    process |-> "none", pack |-> "none", lapm |-> "off",
                    ec |-> EcEnable, timer |-> "none", rd |-> FALSE,
                    result_code |-> "none", cd |-> FALSE, xmit |-> <<>>,
                    at_line |-> <<>>, results |-> <<>>, quiet |-> FALSE,
                    crashed |-> FALSE])
  /\ pty = <<>>
  /\ inputs = 0

\* modem_run reads the pty only while m->xmit has room (line 912), and then
\* at most the room left (lines 1012-1016): the rest stays in the pty
pty_read(mm, buf, ok) ==
  LET n == IF Len(buf) <= XmitSize - Len(mm.xmit) THEN Len(buf)
           ELSE XmitSize - Len(mm.xmit)
  IN [m |-> loop_head(modem_write(mm, SubSeq(buf, 1, n), ok)),
      rest |-> SubSeq(buf, n + 1, Len(buf))]

\* the terminal writes a line, which select() wakes modem_run up to read
Write ==
  /\ ~m.crashed /\ inputs < MaxInputs /\ pty = <<>> /\ Len(m.xmit) < XmitSize
  /\ \E buf \in Writes, ok \in [start : StartResults, create : CreateResults] :
       LET r == pty_read(m, buf, ok) IN m' = r.m /\ pty' = r.rest
  /\ inputs' = inputs + 1

\* the pty still holds bytes of an earlier write and m->xmit has room again
PtyRead ==
  /\ ~m.crashed /\ pty # <<>> /\ Len(m.xmit) < XmitSize
  /\ \E ok \in [start : StartResults, create : CreateResults] :
       LET r == pty_read(m, pty, ok) IN m' = r.m /\ pty' = r.rest
  /\ UNCHANGED inputs

\* the terminal closes the pty with HUPCL set: once the pty is read dry,
\* read() fails with EIO (lines 1022-1034): modem_hangup, and the pty
\* is created again
PtyHangup ==
  /\ ~m.crashed /\ inputs < MaxInputs /\ pty = <<>> /\ Len(m.xmit) < XmitSize
  /\ m' = loop_head(modem_hup(m, TRUE))
  /\ inputs' = inputs + 1
  /\ UNCHANGED pty

\* the terminal sets the line speed to B0 (drops DTR): before the pty is
\* read, modem_update_termios hangs up unless the modem is IDLE
modem_update_termios(mm) == IF mm.state # IDLE THEN modem_hup(mm, TRUE) ELSE mm

DtrDrop ==
  /\ ~m.crashed /\ inputs < MaxInputs
  /\ m' = loop_head(modem_update_termios(m))
  /\ inputs' = inputs + 1
  /\ UNCHANGED pty

\* modem_event's MDMEVENT_ESCAPE after "+++" and its guard times
modem_escape(mm) ==
  [modem_report_result(modem_set_state(mm, COMMAND_ONLINE), "OK")
   EXCEPT !.xmit = <<>>, !.command = TRUE]

Escape ==
  /\ ~m.crashed /\ inputs < MaxInputs /\ m.state = ONLINE
  /\ m' = modem_escape(m)
  /\ inputs' = inputs + 1
  /\ UNCHANGED pty

\* the data path (async, or LAPM in DATA) takes the terminal's bytes
DataTx ==
  /\ ~m.crashed /\ m.started /\ m.state = ONLINE /\ m.xmit # <<>>
  /\ \/ m.pack = "async"
     \/ m.pack = "hdlc" /\ m.lapm = "data"
  /\ m' = [m EXCEPT !.xmit = <<>>]
  /\ UNCHANGED <<pty, inputs>>

\* modem_process runs the data pump on a block of samples and it returns
\* a status; a link comes up only with no stop pending
DpStatus ==
  /\ ~m.crashed /\ m.started /\ m.process = "dp" /\ m.dp # "none"
  /\ \E st \in DpStatuses(m.dp), ok \in CreateResults :
       /\ st = "CONNECT" => m.timer # "stop"
       /\ m' = modem_dp_process(m, st, ok)
  /\ UNCHANGED <<pty, inputs>>

\* detector_finish (modem_pack.c 204-210): the patterns decide cfg.ec
DetectorFinish ==
  /\ ~m.crashed /\ m.started /\ m.process = "dp" /\ m.pack = "detector"
  /\ m.timer # "stop"
  /\ \E ec \in BOOLEAN : m' = status_pack_link([m EXCEPT !.ec = ec])
  /\ UNCHANGED <<pty, inputs>>

\* LAPM reaches DATA and reports EC_LINK
EcLink ==
  /\ ~m.crashed /\ m.started /\ m.process = "dp" /\ m.pack = "hdlc"
  /\ m.lapm = "idle" /\ m.timer # "stop"
  /\ m' = status_ec_link([m EXCEPT !.lapm = "data"])
  /\ UNCHANGED <<pty, inputs>>

\* LAPM reports EC_RELEASE or EC_ERROR: the peer's DISC, the answer to
\* ours, or retries exhausted
EcRelease ==
  /\ ~m.crashed /\ m.started /\ m.process = "dp" /\ m.pack = "hdlc"
  /\ m.lapm # "off"
  /\ m' = status_release([m EXCEPT !.lapm = "off"])
  /\ UNCHANGED <<pty, inputs>>

\* modem_process: sample_timer reached, the function is cleared and called
SampleTimer ==
  /\ ~m.crashed /\ m.started /\ m.timer # "none"
  /\ \E ok \in CreateResults :
       m' = loop_head(run_timer([m EXCEPT !.timer = "none"], m.timer, ok))
  /\ UNCHANGED <<pty, inputs>>

\* lines 955-960 after modem_hangup: m->sample_timer_func(m) is called
\* without a test; through NULL the process dies
read_failed(mm) ==
  IF mm.timer = "none" THEN [mm EXCEPT !.crashed = TRUE]
  ELSE loop_head([run_timer(mm, mm.timer, TRUE) EXCEPT !.timer = "none"])

\* device_read returns 0 or an error: the d-modem child has exited
DeviceReadFail ==
  /\ ~m.crashed /\ m.started
  /\ m' = read_failed(modem_hup(m, TRUE))
  /\ UNCHANGED <<pty, inputs>>

Next ==
  \/ Write \/ PtyRead \/ PtyHangup \/ DtrDrop \/ Escape \/ DataTx
  \/ DpStatus \/ DetectorFinish \/ EcLink \/ EcRelease
  \/ SampleTimer \/ DeviceReadFail

Spec == Init /\ [][Next]_vars

\* the device delivers samples without end while it is started, so a
\* pending sample timer is reached
Fairness == WF_vars(SampleTimer)

FairSpec == Spec /\ Fairness

-----------------------------------------------------------------------------
(* Properties.                                                             *)

\* The main loop never calls through a NULL sample_timer_func: after a
\* failed device read, modem_hangup has always left a function to call
\* (modem_main.c 955-957, with modem_hup and schedule_modem_stop).
NoNullCall == ~m.crashed

\* The call phase the terminal sees; an idle modem that still holds a data
\* pump (after ATZ) is still hanging up.
CallPhase ==
  CASE m.state = IDLE -> IF m.dp = "none" THEN "idle" ELSE "hangup"
    [] m.state \in {DP_ESTAB, EC_ESTAB} -> "dialing"
    [] m.state = ONLINE -> "online"
    [] m.state = COMMAND_ONLINE -> "command"
    [] OTHER -> "hangup"

Call == INSTANCE CallControl WITH phase <- CallPhase, results <- m.results,
                                  quiet <- m.quiet

\* The result codes the terminal reads follow the call: CONNECT exactly as
\* the modem goes on line, OK or ERROR only for command lines and the
\* escape, one final code exactly as a call ends (modem_update_status,
\* modem_hup, modem_stop, modem_online and the AT interpreter together).
CallRefined == Call!Spec

\* A hangup, once started, always completes: from EC_DISC or DP_DISC the
\* modem returns to IDLE (spec.md: hangup from any state returns to IDLE),
\* through the stop schedule_modem_stop leaves in the sample timer.
HangupCompletes == IS_STATE_DISC(m.state) ~> m.state = IDLE

=============================================================================
