------------------------------ MODULE ModemEvent ------------------------------
(***************************************************************************)
(* Event and timer scheduling of slmodemd: the ring check and the escape   *)
(* sequence (src/slmodemd/modem.c, modem_timer.c, modem_main.c).           *)
(*                                                                         *)
(* Two execution contexts share m->event, m->new_event and the one event   *)
(* timer m->event_timer:                                                   *)
(*  - the main loop of modem_run (modem_main.c): it calls modem_event when *)
(*    m->event is set, then blocks in select(); the inputs it wakes up for *)
(*    (a ring reported by the device or the ring detector, bytes from the  *)
(*    pty, the user's or the line's state changes) run to completion on    *)
(*    it.  Its statements that touch the shared variables are separate     *)
(*    steps: modem_event's read (728) and clear (729) of m->event,         *)
(*    schedule_event's load and store of m->new_event (713), the ring      *)
(*    detector's load and store of m->event (1334);                        *)
(*  - the SIGALRM handler timer_list_handler (modem_timer.c), which runs   *)
(*    timer_mark_event when the event timer is due.  It interrupts the     *)
(*    main loop between any two of its steps, except inside timer_add and  *)
(*    timer_del, which block SIGALRM.                                      *)
(*                                                                         *)
(* Time is get_time() in ticks of 1/MODEM_HZ.  A due timer fires before    *)
(* the clock moves on, and the clock moves only while the main loop waits  *)
(* in select(): the code between two select() calls runs in far less than *)
(* a tick.  The ring signal and the terminal are the environment; the      *)
(* variable env records what they did, for the properties.                 *)
(***************************************************************************)
EXTENDS Integers, Sequences, FiniteSets

CONSTANTS
  RingOnMin, RingOnMax,   \* RING_ON_MIN/MAX: 0.15 s and 2.5 s
  RingOffMin, RingOffMax, \* RING_OFF_MIN/MAX: 1.5 s and 6.5 s
  RingCountMin,           \* RING_COUNT_MIN = 10
  EscapeTimeout,          \* ESCAPE_TIMEOUT = MODEM_HZ/2
  AnswerAfterRings,       \* S0 (SREG_RINGS_TO_AUTO_ANSWER)
  RingSources,            \* "device" (MDMSTAT_RING), "detector" (-r), "none"
  RingCycles,             \* values of duration*freq/1000 the detector reports
  WriteChunks,            \* the buffers the terminal may write
  RingPulseGap            \* bound: ticks between the device's ring pulses

ASSUME 0 < RingOnMin /\ RingOnMin < RingOnMax /\ RingOffMin < RingOffMax
ASSUME RingCountMin \in Nat /\ EscapeTimeout > 0 /\ AnswerAfterRings \in Nat
ASSUME RingSources \subseteq {"device", "detector", "none"} /\ RingCycles \subseteq Nat
ASSUME RingPulseGap \in 1..(RingOffMin - 1)

VARIABLES
  now,        \* get_time()
  event,      \* m->event, as the set of MDMEVENT_* bits
  new_event,  \* m->new_event
  timer,      \* m->event_timer: [added, expires]
  md,         \* fields of struct modem only the main loop touches
  pc,         \* where the main loop is
  loc,        \* its locals: modem_event's event, schedule_event's arguments
  env         \* the ring signal and the terminal writes (history)

vars == <<now, event, new_event, timer, md, pc, loc, env>>

Events == {"RING_CHECK", "ESCAPE"}
\* STATE_* abstracted: "ESTAB" stands for STATE_DP_ESTAB..STATE_EC_ESTAB
States == {"IDLE", "ESTAB", "ONLINE", "COMMAND_ONLINE"}
\* where the main loop is: "loop" at the top of modem_run's while, "select"
\* blocked in select(), the others inside modem_event, schedule_event,
\* modem_ring, modem_check_escape or the ring detector
Pcs == {"loop", "select", "me_clear", "me_escape", "se_load", "se_store",
        "se_add", "ring_tail", "esc_tail", "re_store"}

time_before(t1, t2) == t2 - t1 > 0
time_after(t1, t2) == ~time_before(t1, t2)

TypeOK ==
  /\ now \in Nat /\ event \subseteq Events /\ new_event \subseteq Events
  /\ timer \in [added : BOOLEAN, expires : Nat]
  /\ md.mstate \in States /\ md.ring_count \in Nat /\ md.total \in Nat
  /\ md.escape_count \in 0..3 /\ env.src \in RingSources
  /\ pc \in Pcs /\ loc.ev \subseteq Events /\ loc.tmp \subseteq Events

-----------------------------------------------------------------------------
(* The signal handler.                                                     *)

\* timer_list_handler finds the event timer due ((long)(expires - now) <= 0),
\* unlinks it (added = 0) and calls timer_mark_event.
Due == timer.added /\ ~time_before(now, timer.expires)

timer_mark_event ==
  /\ Due
  /\ event' = event \cup new_event
  /\ new_event' = {}
  /\ timer' = [timer EXCEPT !.added = FALSE]
  /\ UNCHANGED <<now, md, pc, loc, env>>

\* The clock advances while the main loop waits in select(); setitimer
\* delivers SIGALRM for a due timer before the next tick.  While the line
\* rings, the device reports a ring pulse at least every RingPulseGap ticks.
Tick ==
  /\ pc = "select"
  /\ ~Due
  /\ env.src = "device" /\ env.line = "ringing" =>
       now + 1 - env.burst.last < RingPulseGap + 1
  /\ now' = now + 1
  /\ UNCHANGED <<event, new_event, timer, md, pc, loc, env>>

-----------------------------------------------------------------------------
(* schedule_event(m, mask, when), entered from a handler that continues at *)
(* ret: three steps, the load and the store of m->new_event |= mask, then  *)
(* expires = get_time() + when and timer_add, which blocks SIGALRM.        *)

schedule_event(l, mask, when, ret) ==
  [l EXCEPT !.mask = mask, !.when = when, !.ret = ret]

SeLoad ==
  /\ pc = "se_load"
  /\ loc' = [loc EXCEPT !.tmp = new_event]
  /\ pc' = "se_store"
  /\ UNCHANGED <<now, event, new_event, timer, md, env>>

SeStore ==
  /\ pc = "se_store"
  /\ new_event' = loc.tmp \cup {loc.mask}
  /\ pc' = "se_add"
  /\ UNCHANGED <<now, event, timer, md, loc, env>>

\* timer_add: a timer already added keeps its place, with the new expires
SeAdd ==
  /\ pc = "se_add"
  /\ timer' = [added |-> TRUE, expires |-> now + loc.when]
  /\ pc' = loc.ret
  /\ UNCHANGED <<now, event, new_event, md, loc, env>>

-----------------------------------------------------------------------------
(* modem_event (modem.c 726-779), called at the top of the main loop.      *)

\* line 728: unsigned event = m->event
MeRead ==
  /\ pc = "loop"
  /\ event # {}
  /\ loc' = [loc EXCEPT !.ev = event]
  /\ pc' = "me_clear"
  /\ UNCHANGED <<now, event, new_event, timer, md, env>>

\* Seeded fault: a rejected ring leaves ring_count (line 743 dropped).
ring_check_keeps_count(d) ==
  IF d.ring_count = 0
  THEN [d |-> [d EXCEPT !.total = 0], rep |-> FALSE, ans |-> FALSE]
  ELSE IF \/ time_before(d.ring_last, d.ring_first + RingOnMin)
          \/ time_after(d.ring_last, d.ring_first + RingOnMax)
          \/ d.ring_count < RingCountMin
  THEN [d |-> [d EXCEPT !.total = 0], rep |-> FALSE, ans |-> FALSE]
  ELSE [d |-> [d EXCEPT !.ring_count = 0, !.total = d.total + 1],
        rep |-> TRUE, ans |-> FALSE]

\* Seeded fault: the on-time bound checked one tick late.
ring_check_late_bound(d) ==
  IF d.ring_count = 0
  THEN [d |-> [d EXCEPT !.total = 0], rep |-> FALSE, ans |-> FALSE]
  ELSE IF \/ time_before(d.ring_last, d.ring_first + RingOnMin)
          \/ time_after(d.ring_last, d.ring_first + RingOnMax + 1)
          \/ d.ring_count < RingCountMin
  THEN [d |-> [d EXCEPT !.total = 0, !.ring_count = 0], rep |-> FALSE, ans |-> FALSE]
  ELSE [d |-> [d EXCEPT !.ring_count = 0, !.total = d.total + 1],
        rep |-> TRUE, ans |-> FALSE]

\* lines 732-766 for MDMEVENT_RING_CHECK: the fields after the check, whether
\* RESULT_RING is reported and whether the modem answers
ring_check(d) ==
  IF d.ring_count = 0
  THEN [d |-> [d EXCEPT !.total = 0], rep |-> FALSE, ans |-> FALSE]
  ELSE IF \/ time_before(d.ring_last, d.ring_first + RingOnMin)
          \/ time_after(d.ring_last, d.ring_first + RingOnMax)
          \/ d.ring_count < RingCountMin
  THEN [d |-> [d EXCEPT !.total = 0, !.ring_count = 0], rep |-> FALSE, ans |-> FALSE]
  ELSE LET d1 == [d EXCEPT !.ring_count = 0, !.total = d.total + 1]
       IN [d |-> d1, rep |-> TRUE,
           ans |-> AnswerAfterRings > 0 /\ d.mstate = "IDLE"
                   /\ d1.total >= AnswerAfterRings]

\* lines 768-778 for MDMEVENT_ESCAPE
escape_check(d, ev) ==
  IF "ESCAPE" \in ev
  THEN [d EXCEPT !.mstate = IF d.mstate = "ONLINE" /\ d.escape_count = 3
                            THEN "COMMAND_ONLINE" ELSE @,
                 !.escape_count = 0]
  ELSE d

\* Seeded fault: modem_start without m->ring_count = 0 (line 1150).
modem_start_keeps_rings(d) == [d EXCEPT !.mstate = "ESTAB", !.total = 0]

\* modem_start (1114-1156) as modem_answer and modem_dial reach it: state
\* STATE_DP_ESTAB, and lines 1149-1152 clear the rings and all events
modem_start(d) == [d EXCEPT !.mstate = "ESTAB", !.total = 0, !.ring_count = 0]

\* line 729: m->event = 0, then the ring check up to schedule_event (763)
\* or modem_answer (760), and the escape check when nothing is scheduled
MeClear ==
  /\ pc = "me_clear"
  /\ event' = {}
  /\ LET rc == IF "RING_CHECK" \in loc.ev THEN ring_check(md)
               ELSE [d |-> md, rep |-> FALSE, ans |-> FALSE]
     IN /\ env' = IF rc.rep THEN [env EXCEPT !.burst.rings = @ + 1] ELSE env
        /\ \/ /\ rc.ans
              /\ md' = escape_check(modem_start(rc.d), loc.ev)
              /\ new_event' = {}
              /\ timer' = [timer EXCEPT !.added = FALSE]
              /\ pc' = "loop"
              /\ UNCHANGED loc
           \/ /\ rc.rep /\ ~rc.ans
              /\ md' = rc.d
              /\ pc' = "se_load"
              /\ loc' = schedule_event(loc, "RING_CHECK", RingOffMax + 1,
                                       "me_escape")
              /\ UNCHANGED <<new_event, timer>>
           \/ /\ ~rc.rep
              /\ md' = escape_check(rc.d, loc.ev)
              /\ pc' = "loop"
              /\ UNCHANGED <<new_event, timer, loc>>
  /\ UNCHANGED now

MeEscape ==
  /\ pc = "me_escape"
  /\ md' = escape_check(md, loc.ev)
  /\ pc' = "loop"
  /\ UNCHANGED <<now, event, new_event, timer, loc, env>>

-----------------------------------------------------------------------------
(* The main loop between two modem_event calls.                            *)

EnterSelect ==
  /\ pc = "loop"
  /\ event = {}
  /\ pc' = "select"
  /\ UNCHANGED <<now, event, new_event, timer, md, loc, env>>

\* select() returns on its 1 s timeout or with EINTR (SIGALRM)
SelectReturns ==
  /\ pc = "select"
  /\ pc' = "loop"
  /\ UNCHANGED <<now, event, new_event, timer, md, loc, env>>

\* Seeded fault: a bad ring undoes its count (ring_count-- at line 792).
modem_ring_undo_count(d, t) ==
  LET d1 == [d EXCEPT !.ring_count = @ + 1]
  IN IF d.mstate # "IDLE" THEN [d |-> d, sched |-> FALSE]
     ELSE IF d1.ring_count # 1
     THEN [d |-> [d1 EXCEPT !.ring_last = t], sched |-> FALSE]
     ELSE IF time_before(t, d.ring_last + RingOffMin)
     THEN [d |-> [d1 EXCEPT !.ring_count = d.ring_count - 1, !.ring_last = t],
           sched |-> FALSE]
     ELSE [d |-> [d1 EXCEPT !.ring_first = t], sched |-> TRUE]

\* modem_ring(m) at time t (lines 781-805): the fields after it, and whether
\* it calls schedule_event(RING_CHECK, RING_ON_MAX + 1) before line 804
modem_ring(d, t) ==
  LET d1 == [d EXCEPT !.ring_count = @ + 1]
  IN IF d.mstate # "IDLE" THEN [d |-> d, sched |-> FALSE]
     ELSE IF d1.ring_count # 1
     THEN [d |-> [d1 EXCEPT !.ring_last = t], sched |-> FALSE]
     ELSE IF time_before(t, d.ring_last + RingOffMin)
     THEN [d |-> [d1 EXCEPT !.ring_count = 0, !.ring_last = t], sched |-> FALSE]
     ELSE [d |-> [d1 EXCEPT !.ring_first = t], sched |-> TRUE]

\* the environment's record of the ring signal as a ring arrives at now
rung(e) ==
  [e EXCEPT !.line = "ringing",
            !.burst = IF e.line = "quiet"
                      THEN [first |-> now, last |-> now, rings |-> 0]
                      ELSE [@ EXCEPT !.last = now]]

\* a ring pulse reported by the device (modem_main.c:944), or the ring
\* detector's ring start (modem.c:1327-1329), which runs only while the
\* modem is idle; one per tick at most
Ring ==
  /\ pc = "select"
  /\ env.burst.last < now
  /\ \/ env.src = "device"
     \/ env.src = "detector" /\ env.line = "quiet" /\ md.mstate = "IDLE"
  /\ LET r == modem_ring(md, now)
     IN /\ md' = r.d
        /\ pc' = IF r.sched THEN "se_load" ELSE "loop"
        /\ loc' = IF r.sched
                  THEN schedule_event([loc EXCEPT !.t = now], "RING_CHECK",
                                      RingOnMax + 1, "ring_tail")
                  ELSE loc
  /\ env' = rung(env)
  /\ UNCHANGED <<now, event, new_event, timer>>

\* line 804 after schedule_event: m->ring_last = now (the time of line 783)
RingTail ==
  /\ pc = "ring_tail"
  /\ md' = [md EXCEPT !.ring_last = loc.t]
  /\ pc' = "loop"
  /\ UNCHANGED <<now, event, new_event, timer, loc, env>>

\* the ring detector's ring end (modem.c:1331-1337): m->event |= RING_CHECK
\* is a load and a store
RingEnd ==
  /\ pc = "select"
  /\ env.src = "detector" /\ env.line = "ringing" /\ md.mstate = "IDLE"
  /\ loc' = [loc EXCEPT !.tmp = event]
  /\ pc' = "re_store"
  /\ UNCHANGED <<now, event, new_event, timer, md, env>>

ReStore ==
  /\ pc = "re_store"
  /\ event' = loc.tmp \cup {"RING_CHECK"}
  /\ \E c \in RingCycles :
       md' = [md EXCEPT !.ring_count = IF @ <= 1 THEN c ELSE @,
                        !.ring_last = now]
  /\ env' = [env EXCEPT !.line = "quiet", !.burst.last = now]
  /\ pc' = "loop"
  /\ UNCHANGED <<now, new_event, timer, loc>>

\* the ring signal stops without a ring end being reported: the device
\* reports pulses only, and the ring detector runs only in idle state
RingStops ==
  /\ env.line = "ringing"
  /\ env.src = "device" \/ md.mstate # "IDLE"
  /\ env' = [env EXCEPT !.line = "quiet"]
  /\ UNCHANGED <<now, event, new_event, timer, md, pc, loc>>

\* modem_check_escape(m, buf, count) at time t (lines 1804-1833): the fields
\* after it, and whether it calls schedule_event(ESCAPE, ESCAPE_TIMEOUT)
\* before line 1826
modem_check_escape(d, buf, t) ==
  LET ok == /\ Len(buf) + d.escape_count <= 3
            /\ \A i \in 1..Len(buf) : buf[i] = "+"
            /\ IF d.escape_count = 0
               THEN ~time_before(t, d.last_esc_check + EscapeTimeout)
               ELSE ~time_after(t, d.last_esc_check + EscapeTimeout)
      cnt == d.escape_count + Len(buf)
  IN IF ~ok
     THEN [d |-> [d EXCEPT !.escape_count = 0, !.last_esc_check = t],
           sched |-> FALSE]
     ELSE IF cnt = 3
     THEN [d |-> [d EXCEPT !.escape_count = cnt], sched |-> TRUE]
     ELSE [d |-> [d EXCEPT !.escape_count = cnt, !.last_esc_check = t],
           sched |-> FALSE]

\* the environment's record of the data written while online: the time of
\* the last write, how many '+' end the data since the last pause of a guard
\* time (4 stands for more than 3), and whether such a pause precedes them
written(w, buf) ==
  LET run == IF now - w.last >= EscapeTimeout THEN 0 ELSE w.run
  IN IF \A i \in 1..Len(buf) : buf[i] = "+"
     THEN [last |-> now,
           run |-> IF run + Len(buf) > 4 THEN 4 ELSE run + Len(buf),
           lead |-> IF run = 0 THEN now - w.last >= EscapeTimeout ELSE w.lead]
     ELSE [last |-> now, run |-> 0, lead |-> FALSE]

\* modem_write (lines 1837-1871) of a buffer from the pty: while connecting
\* it hangs up (modem_hup(m,1), then modem_stop), online it looks for the
\* escape sequence; the copy into m->xmit is not modelled
Write ==
  /\ pc = "select"
  /\ \E buf \in WriteChunks :
       \/ /\ md.mstate = "ESTAB"
          /\ md' = [md EXCEPT !.mstate = "IDLE"]
          /\ pc' = "loop"
          /\ UNCHANGED <<loc, env>>
       \/ /\ md.mstate = "ONLINE"
          /\ env' = [env EXCEPT !.wr = written(env.wr, buf)]
          /\ LET r == modem_check_escape(md, buf, now)
             IN /\ md' = r.d
                /\ pc' = IF r.sched THEN "se_load" ELSE "loop"
                /\ loc' = IF r.sched
                          THEN schedule_event([loc EXCEPT !.t = now], "ESCAPE",
                                              EscapeTimeout, "esc_tail")
                          ELSE loc
  /\ UNCHANGED <<now, event, new_event, timer>>

\* line 1826 after schedule_event: m->last_esc_check = now
EscTail ==
  /\ pc = "esc_tail"
  /\ md' = [md EXCEPT !.last_esc_check = loc.t]
  /\ pc' = "loop"
  /\ UNCHANGED <<now, event, new_event, timer, loc, env>>

-----------------------------------------------------------------------------
(* The user's commands and the line, as far as they move the states this   *)
(* module reads.                                                           *)

\* ATD or ATA in command mode: modem_dial or modem_answer reach modem_start,
\* which clears the rings, the events and the event timer (1148-1152)
Dial ==
  /\ pc = "select"
  /\ md.mstate = "IDLE"
  /\ md' = modem_start(md)
  /\ event' = {} /\ new_event' = {}
  /\ timer' = [timer EXCEPT !.added = FALSE]
  /\ pc' = "loop"
  /\ UNCHANGED <<now, loc, env>>

\* the data pump and the error corrector link up: modem_update_status
\* reports CONNECT and sets STATE_MODEM_ONLINE
Connect ==
  /\ pc = "select"
  /\ md.mstate = "ESTAB"
  /\ md' = [md EXCEPT !.mstate = "ONLINE"]
  /\ pc' = "loop"
  /\ UNCHANGED <<now, event, new_event, timer, loc, env>>

\* NO CARRIER, or ATH in command mode: modem_hup and modem_stop end in
\* STATE_MODEM_IDLE; neither touches the events or the rings
Hangup ==
  /\ pc = "select"
  /\ md.mstate # "IDLE"
  /\ md' = [md EXCEPT !.mstate = "IDLE"]
  /\ pc' = "loop"
  /\ UNCHANGED <<now, event, new_event, timer, loc, env>>

\* ATO: modem_online (1637-1646) returns to STATE_MODEM_ONLINE
modem_online ==
  /\ pc = "select"
  /\ md.mstate = "COMMAND_ONLINE"
  /\ md' = [md EXCEPT !.mstate = "ONLINE"]
  /\ pc' = "loop"
  /\ UNCHANGED <<now, event, new_event, timer, loc, env>>

-----------------------------------------------------------------------------
Init ==
  /\ now = 0
  /\ event = {} /\ new_event = {}
  /\ timer = [added |-> FALSE, expires |-> 0]
  /\ md = [mstate |-> "IDLE", ring_count |-> 0, ring_first |-> 0,
           ring_last |-> 0, total |-> 0, escape_count |-> 0,
           last_esc_check |-> 0]
  /\ pc = "loop"
  /\ loc = [ev |-> {}, tmp |-> {}, mask |-> "ESCAPE", when |-> 0,
            ret |-> "loop", t |-> 0]
  /\ \E src \in RingSources :
       env = [src |-> src, line |-> "quiet",
              burst |-> [first |-> 0, last |-> 0, rings |-> 0],
              wr |-> [last |-> 0, run |-> 0, lead |-> FALSE]]

Next ==
  \/ timer_mark_event \/ Tick
  \/ SeLoad \/ SeStore \/ SeAdd
  \/ MeRead \/ MeClear \/ MeEscape \/ EnterSelect \/ SelectReturns
  \/ Ring \/ RingTail \/ RingEnd \/ ReStore \/ RingStops
  \/ Write \/ EscTail
  \/ Dial \/ Connect \/ Hangup \/ modem_online

Spec == Init /\ [][Next]_vars

-----------------------------------------------------------------------------
(* Properties.                                                             *)

\* With the -r ring detector, a RING is reported only for a ring whose
\* on-time is shorter than RING_ON_MAX (spec: on-time 0.15-2.5 s, a ring out
\* of bounds produces no report): modem_event's check of ring_first/ring_last
\* against the ringing the line really did.  The device reports pulses, not
\* ring ends, so the on-time of its rings is not what ring_first/ring_last
\* measure.
RingOnTime ==
  env.src = "detector" /\ env.burst.rings > 0 =>
    env.burst.last - env.burst.first < RingOnMax

\* While the modem is idle with a ring counted (ring_count > 0), a ring check
\* is still on its way: in m->event, in m->new_event with the event timer
\* added, or in the hands of modem_event, schedule_event or the ring
\* detector.  modem_ring schedules a check only for the first ring
\* (ring_count == 1), so a check lost here stops ring detection for good.
CheckPending ==
  \/ "RING_CHECK" \in event
  \/ "RING_CHECK" \in new_event /\ timer.added
  \/ pc \in {"se_load", "se_store", "se_add"} /\ loc.mask = "RING_CHECK"
  \/ pc = "me_clear" /\ "RING_CHECK" \in loc.ev
  \/ pc = "re_store"

RingNotStuck == md.mstate = "IDLE" /\ md.ring_count > 0 => CheckPending

\* The escape sequence switches to command mode only after "+++" framed by
\* the guard time: modem_check_escape's counting and modem_event's
\* MDMEVENT_ESCAPE check, against the data the terminal wrote.
EscapeGuard ==
  [][md.mstate = "ONLINE" /\ md'.mstate = "COMMAND_ONLINE" =>
       /\ env.wr.run = 3 /\ env.wr.lead
       /\ now - env.wr.last >= EscapeTimeout]_vars
=============================================================================
