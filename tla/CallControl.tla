----------------------------- MODULE CallControl -----------------------------
(***************************************************************************)
(* What the modem promises the terminal about its result codes, whatever   *)
(* the data pumps and the link layers do: a call moves through the phases  *)
(* idle, dialing, online, command (escaped from online) and hangup, and    *)
(* every result code belongs to a phase change or to a command line:       *)
(*   - CONNECT exactly when the call goes on line;                         *)
(*   - OK or ERROR only for a command line, or OK for the escape;          *)
(*   - one final code (NO CARRIER, BUSY, ...) exactly when a call ends;    *)
(*   - nothing while dialing or on line unless the phase changes.          *)
(* A failed start is a call that ends at once: NO CARRIER, then ERROR.     *)
(* In quiet mode (quiet, set and cleared only by a command line) a change  *)
(* may report nothing instead.                                             *)
(***************************************************************************)
EXTENDS Naturals, Sequences

VARIABLES phase, results, quiet

Phases == {"idle", "dialing", "online", "command", "hangup"}
Finals == {"NO CARRIER", "BUSY", "NO DIALTONE", "NO ANSWER"}
\* the answer to a command line
Replies == {<<"OK">>, <<"ERROR">>}
FinalCodes == {<<f>> : f \in Finals}
\* a start that fails ends the call it began
StartFailed == <<"NO CARRIER", "ERROR">>

\* the phases a command line is read in, and the calls that are on
CommandPhases == {"idle", "command", "hangup"}
CallPhases == Phases \ {"idle"}

\* a step from phase p to phase q that reports out
Allowed(p, q, out) ==
  \/ p = q /\ out = <<>>
  \/ p = q /\ p \in CommandPhases /\ out \in Replies
  \/ p = "idle" /\ q = "idle" /\ out = StartFailed
  \/ p = "idle" /\ q = "dialing" /\ out = <<>>
  \/ p \in {"dialing", "command"} /\ q = "online" /\ out = <<"CONNECT">>
  \/ p = "online" /\ q = "command" /\ out = <<"OK">>
  \/ p \in {"dialing", "online", "command"} /\ q = "hangup" /\ out = <<>>
  \/ p \in CallPhases /\ q = "idle" /\ out \in FinalCodes
  \* a new call started while the old one ends reports the old one's end
  \/ p = "hangup" /\ q = "dialing" /\ out \in FinalCodes
  \/ p = "hangup" /\ q = "idle" /\ \E f \in FinalCodes : out = f \o StartFailed

Init == phase = "idle" /\ results = <<>> /\ quiet = FALSE

\* every report a single change makes
Outs == {<<>>, <<"CONNECT">>, StartFailed} \cup Replies \cup FinalCodes
          \cup {f \o StartFailed : f \in FinalCodes}

\* Allowed, or a change that says nothing because the modem is quiet (qt)
Heard(p, q, out, qt) ==
  \/ Allowed(p, q, out)
  \/ qt /\ out = <<>> /\ \E o \in Outs : Allowed(p, q, o)

\* a run of at most d such changes from p to q reporting out: the core may
\* take several in one step (the lines of one write, a stop and a start)
RECURSIVE Leads(_, _, _, _, _)
Leads(p, q, out, qt, d) ==
  \/ Heard(p, q, out, qt)
  \/ d > 1 /\ \E r \in Phases, k \in 0..Len(out) :
        /\ Heard(p, r, SubSeq(out, 1, k), qt)
        /\ Leads(r, q, SubSeq(out, k + 1, Len(out)), qt, d - 1)

\* the bound on the changes one step of the core makes
MaxChanges == 3

\* results only grow, by what a run of allowed changes reports; quiet
\* changes only where a command line is read
Next ==
  /\ Len(results') >= Len(results)
  /\ SubSeq(results', 1, Len(results)) = results
  /\ quiet' # quiet => phase \in CommandPhases
  /\ \E q \in Phases :
       /\ phase' = q
       /\ Leads(phase, q, SubSeq(results', Len(results) + 1, Len(results')),
                quiet \/ quiet', MaxChanges)

Spec == Init /\ [][Next]_<<phase, results, quiet>>
=============================================================================
