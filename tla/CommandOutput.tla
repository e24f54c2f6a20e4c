---------------------------- MODULE CommandOutput ----------------------------
(***************************************************************************)
(* What becomes of an AI client's command once it may run: it is written   *)
(* into the shell, its handle follows the shell integration's events       *)
(* (src/internal/core/service/aicontrol/{run,lifecycle,command_control}),  *)
(* and its output is captured for its audit row                            *)
(* (src/internal/core/service/capture).                                    *)
(*                                                                         *)
(* The pump hands each chunk to the shell integration first, which calls   *)
(* the observer, and then to the taps.  Captured output is an interval of  *)
(* what the taps have seen, counted in pieces.                             *)
(***************************************************************************)
EXTENDS ShellIntegration

CONSTANTS Runs,     \* the commands that RunCommand writes; the user types the others
          Unrecorded, \* those among them whose decision could not be recorded
          Suspends, \* calls of BackgroundCommand
          Cap       \* capBytes, in pieces

ASSUME RunsAssumption == Runs \subseteq Commands /\ Unrecorded \subseteq Runs
                          /\ Cap \in Nat /\ Commands \cap Suspends = {}

VARIABLES rpc,     \* RunCommand and BackgroundCommand, by call; the user's commands
          handle,  \* aicontrol's handle of the session, or None
          cap,     \* captureState of the session, or None
          rows,    \* the output attached to each command's audit row, or None
          tapped,  \* how many pieces the taps have seen
          marked   \* where the output was that ended a capture, by audit row

commandVars == <<rpc, handle, cap, rows, tapped, marked>>
vars == <<integrationVars, commandVars>>

Calls == Commands \cup Suspends
Terminal == {"done", "background"}
-----------------------------------------------------------------------------
Init ==
  /\ IntegrationInit
  /\ rpc = [c \in Calls |-> "none"] /\ handle = None /\ cap = None
  /\ rows = [r \in Runs |-> <<>>] /\ tapped = 0
  /\ marked = [r \in Runs |-> None]

NewCapture(r) ==
  [row |-> r, from |-> tapped, len |-> 0, whose |-> {}, cut |-> FALSE, ending |-> FALSE]
Sealed(c, why) ==
  [from |-> c.from, len |-> c.len, whose |-> c.whose, cut |-> c.cut, why |-> why]
\* seal: the output is attached to the row the capture was begun for.
Seal(c, why) == rows' = [rows EXCEPT ![c.row] = Append(@, Sealed(c, why))]
Active == handle # None /\ handle.state \notin Terminal

CallFrame == UNCHANGED <<sceneVars, apc, live, st, fires, scripts, pumpVars, queryVars>>

(* --------------------------- writing a command ------------------------- *)

\* Session.Write of a command, by the user or by RunCommand.
WriteCommand(c) ==
  /\ c \in calls /\ rpc[c] = "none" /\ apc = "done"
  /\ IF live
       THEN Receives("command", c) /\ rpc' = [rpc EXCEPT ![c] = "written"]
       ELSE UNCHANGED shellVars /\ rpc' = [rpc EXCEPT ![c] = "failed"]
  /\ CallFrame /\ UNCHANGED <<handle, cap, rows, tapped, marked>>

\* Mutant: a capture that is still open goes on for the next command.
ArmOver(r) ==
  /\ rpc[r] = "written" /\ rpc' = [rpc EXCEPT ![r] = "armed"]
  /\ handle' = [of |-> r, state |-> "running"]
  /\ cap' = IF cap = None THEN NewCapture(r) ELSE [cap EXCEPT !.row = r, !.ending = FALSE]
  /\ IF cap = None THEN UNCHANGED rows ELSE Seal(cap, "superseded")
  /\ CallFrame /\ UNCHANGED <<shellVars, tapped, marked>>

\* The rest of RunCommand: the handle and, when the decision was recorded, the
\* capture, which first seals the one before it.
Arm(r) ==
  /\ rpc[r] = "written" /\ rpc' = [rpc EXCEPT ![r] = "armed"]
  /\ handle' = [of |-> r, state |-> "running"]
  /\ IF r \in Unrecorded THEN UNCHANGED <<cap, rows>>
     ELSE /\ cap' = NewCapture(r)
          /\ IF cap = None THEN UNCHANGED rows ELSE Seal(cap, "superseded")
  /\ CallFrame /\ UNCHANGED <<shellVars, tapped, marked>>

(* ------------------------- what the shell reports ---------------------- *)

Next1 == notes' = Tail(notes) /\ pump' = "busy"
NoteFrame == UNCHANGED <<sceneVars, shellVars, apc, live, st, fires, scripts, out, leaked,
                         queryVars>>

\* OnCommandEnd: the handle, under the service's lock; then, outside it, the
\* capture is told to end.
OnCommandEnd ==
  /\ pump = "busy" /\ notes # <<>> /\ Head(notes).k = "done"
  /\ IF Active
       THEN handle' = [handle EXCEPT !.state = "done"] /\ pump' = "ending" /\ UNCHANGED notes
       ELSE UNCHANGED handle /\ Next1
  /\ NoteFrame /\ UNCHANGED <<rpc, cap, rows, tapped, marked>>

\* Mutant: End seals the capture itself.
SealNow ==
  /\ pump = "ending" /\ Next1
  /\ IF cap = None THEN UNCHANGED <<cap, rows, marked>>
     ELSE /\ cap' = None /\ Seal(cap, "ended")
          /\ marked' = [marked EXCEPT ![cap.row] = tapped + Len(out)]
  /\ NoteFrame /\ UNCHANGED <<rpc, handle, tapped>>

EndCapture ==
  /\ pump = "ending" /\ Next1
  /\ IF cap = None THEN UNCHANGED <<cap, marked>>
     ELSE /\ cap' = [cap EXCEPT !.ending = TRUE]
          /\ marked' = [marked EXCEPT ![cap.row] = tapped + Len(out)]
  /\ NoteFrame /\ UNCHANGED <<rpc, handle, rows, tapped>>

\* OnAltScreen: a duplicate signal is ignored.
OnAltScreen ==
  /\ pump = "busy" /\ notes # <<>> /\ Head(notes).k \in Screens
  /\ handle' = IF Active
                 THEN [handle EXCEPT !.state = IF Head(notes).k = "enter" THEN "tui"
                                               ELSE "running"]
                 ELSE handle
  /\ Next1 /\ NoteFrame /\ UNCHANGED <<rpc, cap, rows, tapped, marked>>

(* -------------------------------- the taps ----------------------------- *)

Smaller(a, b) == IF a < b THEN a ELSE b
Owners(pieces) == {pieces[i].of : i \in DOMAIN pieces} \cap Commands
Grown(c, pieces) ==
  LET room == Smaller(Cap - c.len, Len(pieces))
  IN  [c EXCEPT !.len = @ + room, !.cut = @ \/ room < Len(pieces),
                !.whose = @ \cup Owners(SubSeq(pieces, 1, room))]

\* The capture's OnOutput: append, and seal a capture that is ending.
Capture(pieces) ==
  IF cap = None THEN UNCHANGED <<cap, rows>>
  ELSE IF cap.ending THEN cap' = None /\ Seal(Grown(cap, pieces), "ended")
  ELSE cap' = Grown(cap, pieces) /\ UNCHANGED rows

\* Nothing of a chunk may be left when the markers are cut: then no tap sees it.
Tap ==
  /\ pump = "busy" /\ notes = <<>>
  /\ IF out = <<>> THEN UNCHANGED <<cap, rows>> ELSE Capture(out)
  /\ tapped' = tapped + Len(out)
  /\ out' = <<>> /\ pump' = "idle"
  /\ UNCHANGED <<sceneVars, shellVars, apc, live, st, fires, scripts, notes, leaked, queryVars,
                 rpc, handle, marked>>

\* Detach of the taps: what is still open is sealed.
DetachTaps ==
  /\ pump = "detaching" /\ pump' = "detached" /\ cap' = None
  /\ IF cap = None THEN UNCHANGED rows ELSE Seal(cap, "detached")
  /\ UNCHANGED <<sceneVars, shellVars, apc, live, st, fires, scripts, notes, out, leaked,
                 queryVars, rpc, handle, tapped, marked>>

(* --------------------------- BackgroundCommand ------------------------- *)

\* Ctrl-Z and `bg` are written one after the other, outside the lock, and either
\* write may fail; then the handle is looked at again; the capture is told to end
\* outside the lock again.
Suspend(b) ==
  /\ b \in calls /\ rpc[b] = "none" /\ Active
  /\ rpc' = [rpc EXCEPT ![b] = IF live THEN "stopped" ELSE "refused"]
  /\ IF live /\ shell.at \in Runs
       THEN /\ shell' = [shell EXCEPT !.at = "prompt"]
            /\ Prints(<<Line>> \o Prompt(shell.hooked))
       ELSE UNCHANGED <<shell, wire>>
  /\ CallFrame /\ UNCHANGED <<typed, handle, cap, rows, tapped, marked>>

TypeBg(b) ==
  /\ rpc[b] = "stopped"
  /\ IF live
       THEN Receives("bg", b) /\ rpc' = [rpc EXCEPT ![b] = "written"]
       ELSE UNCHANGED shellVars /\ rpc' = [rpc EXCEPT ![b] = "refused"]
  /\ CallFrame /\ UNCHANGED <<handle, cap, rows, tapped, marked>>

ToBackground(b) ==
  /\ rpc[b] = "written"
  /\ IF Active
       THEN /\ handle' = [handle EXCEPT !.state = "background"]
            /\ rpc' = [rpc EXCEPT ![b] = "ending"]
       ELSE rpc' = [rpc EXCEPT ![b] = "failed"] /\ UNCHANGED handle
  /\ CallFrame /\ UNCHANGED <<shellVars, cap, rows, tapped, marked>>

EndInBackground(b) ==
  /\ rpc[b] = "ending" /\ rpc' = [rpc EXCEPT ![b] = "armed"]
  /\ cap' = IF cap = None THEN None ELSE [cap EXCEPT !.ending = TRUE]
  /\ CallFrame /\ UNCHANGED <<shellVars, handle, rows, tapped, marked>>
-----------------------------------------------------------------------------
PumpSteps == PumpReads \/ RouteProbe \/ SendReply \/ SessionEnds \/ Detach
CallSteps == \E q \in Queries : QuerySteps(q)

Next ==
  \/ (Outside \/ Injects \/ PumpSteps \/ CallSteps
      \/ (\E n \in Reinjects : Reinject(n)) \/ (\E q \in Queries : Query(q)))
     /\ UNCHANGED commandVars
  \/ OnCommandEnd \/ EndCapture \/ OnAltScreen \/ Tap \/ DetachTaps
  \/ \E c \in Commands : WriteCommand(c)
  \/ \E r \in Runs : Arm(r)
  \/ \E b \in Suspends : Suspend(b) \/ TypeBg(b) \/ ToBackground(b) \/ EndInBackground(b)

Spec == Init /\ [][Next]_vars

\* The pump and a query's goroutine go on; the shell, the user and the clients need
\* not.  A query's context has a deadline (main.go hands one with each probe).
FairSpec ==
  /\ Spec
  /\ WF_vars((PumpSteps /\ UNCHANGED commandVars) \/ OnCommandEnd \/ EndCapture
             \/ OnAltScreen \/ Tap \/ DetachTaps)
  /\ WF_vars(apc # "done" /\ Injects /\ UNCHANGED commandVars)
  /\ \A q \in Queries : WF_vars(QuerySteps(q) /\ UNCHANGED commandVars)
-----------------------------------------------------------------------------
Phases == {"none", "waitingReady", "waitingSentinel", "suppressing", "active"}

\* The states the fields may be in: what is held back of the output and what is
\* captured of it stay within their bounds, and a row gets at most one capture.
TypeOK ==
  /\ kind \in AllKinds /\ st.phase \in Phases /\ st.nonce \in Nonces \cup {None}
  /\ shell.at \in {"starting", "prompt", "gone"} \cup Commands
  /\ fires \in 0..2 /\ scripts \subseteq Nonces /\ probes \subseteq Queries
  /\ Len(st.scratch) <= MaxWait /\ Len(st.tail) <= 1 /\ Len(st.altTail) <= 1
  /\ pump \in {"none", "idle", "busy", "sending", "ending", "detaching", "detached", "gone"}
  /\ cap # None => cap.len <= Cap
  /\ \A r \in Runs : Len(rows[r]) <= 1

\* Nothing of a hook script is shown while it is being installed, by whatever
\* goroutine it was written, in whatever phase it was injected anew, wherever a chunk
\* ends, and whether or not the terminal echoed it before the shell read it; the two
\* exceptions are a session whose shell integration has given up, and one where
\* Reinject was called before an earlier script was done with.
ScriptNotShown == leaked => rushed

Span(seal) == seal.from .. (seal.from + seal.len - 1)

\* A row of the audit trail gets its command's output once, and no piece of output
\* is in the rows of two commands.
RowsDisjoint ==
  /\ \A r \in Runs : Len(rows[r]) <= 1
  /\ \A r1, r2 \in Runs :
       r1 # r2 /\ rows[r1] # <<>> /\ rows[r2] # <<>>
         => Span(rows[r1][1]) \cap Span(rows[r2][1]) = {}

\* A capture that the end of a command has ended holds everything up to the chunk
\* that brought the end, though the observer hears of the end before any tap has
\* seen the chunk (unless it was full, or the next command superseded it).
TrailingChunkIncluded ==
  \A r \in Runs : \A i \in DOMAIN rows[r] :
    rows[r][i].why # "superseded" /\ marked[r] # None
      => rows[r][i].cut \/ rows[r][i].from + rows[r][i].len >= marked[r]

\* A query returns whatever the shell does, and the pump never waits for one.
ProbesNeverBlock ==
  /\ \A q \in Queries : qpc[q] # "none" ~> qpc[q] = "returned"
  /\ pump \in {"busy", "sending", "ending"} ~> pump = "idle"
-----------------------------------------------------------------------------
(* ----- What comments of the code say and the code does not do ----------- *)

\* middleware.go:262-267: what is released before the sentinel is complete lines that
\* precede the injection, and its own echo is trimmed.
EchoIsTrimmed == ~leaked

\* middleware.go:88-90: a wrong guess of the shell stays at phaseWaitingSentinel and
\* degrades to pass-through.
WrongGuessIsHarmless == kind = "alien" => st.phase # "suppressing"

\* capture.go:77-78: "output is never cross-linked to the wrong command".
NeverCrossLinked == \A r \in Runs : \A i \in DOMAIN rows[r] : rows[r][i].whose \subseteq {r}

\* probe.go:11-15: a probe is injected at a prompt only.
ProbesAtPrompt ==
  [][\A q \in Queries : WriteProbe(q) /\ live => st.phase = "active" /\ st.atPrompt]_vars

\* command_control.go:97-98: OnCommandEnd never fires for a backgrounded command.
SuspendedIsBackground == \A b \in Suspends : rpc[b] # "failed"
=============================================================================
