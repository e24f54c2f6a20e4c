-------------------------- MODULE ShellIntegration --------------------------
(***************************************************************************)
(* The shell integration of one session                                    *)
(* (src/internal/core/service/shellintegration): hooks are installed in    *)
(* the session's shell while its output runs, their markers are cut out of *)
(* the output and told to observers, and probes are answered by them.      *)
(*                                                                         *)
(* Output is a sequence of pieces: a complete line, a part of one, a piece *)
(* of the hook script as the terminal echoes it, or a half of a marker, of *)
(* a sentinel or of an alternate-screen switch, so that a chunk may end in *)
(* the middle of any of them.  The shell, the terminal's echo and the      *)
(* chunks the reader makes are outside this code.                          *)
(***************************************************************************)
EXTENDS Integers, Sequences, FiniteSets

CONSTANTS Scenes,     \* the sessions to look at: a kind, and the calls made on it
          Commands,   \* what the user and AI clients type
          FullScreen, \* the commands that use the alternate screen
          Queries,    \* calls of Query, each with its nonce
          Reinjects,  \* calls of Reinject, each with its nonce
          MaxChunk,   \* pieces a chunk may have
          MaxWait,    \* maxSentinelWait, in pieces
          MaxWire,    \* unread output at which the terminal makes the shell wait
          None

\* "ssh": a remote bash.  "alien": a remote shell that is none (its dialect is
\* taken for bash all the same).  "bash": a local one.  "powershell": a local one
\* that was spawned with its hooks.  "unknown": a local shell without a dialect.
AllKinds == {"ssh", "alien", "bash", "powershell", "unknown"}

ASSUME ShellConstants ==
  /\ \A scene \in Scenes : scene.kind \in AllKinds
  /\ FullScreen \subseteq Commands
  /\ Queries \cap Reinjects = {} /\ None \notin Queries \cup Reinjects \cup Commands
  /\ "n0" \notin Reinjects  \* First, below
  /\ MaxChunk \in Nat \ {0} /\ MaxWait \in Nat /\ MaxWire \in Nat

VARIABLES kind, calls, \* the scene; of a Reinject, calls still to be made
          rushed,   \* was a Reinject called before an earlier script was done with?
          shell,    \* what runs in the terminal, and whether it has the hooks
          typed,    \* input the shell has not read
          wire,     \* output the pump has not read
          apc,      \* the goroutine that attaches the session
          live,     \* is the session in session.Service's table?
          st,       \* sessionState
          fires,    \* timers that expired and wait for the state's lock
          scripts,  \* hook scripts about to be written, by nonce
          pump,     \* where the pump goroutine is
          notes,    \* what it has yet to dispatch
          out,      \* what it will hand to the taps
          leaked,   \* was a piece of the hook script shown?
          qpc, probes, reply  \* the queries: where they are, who waits, the channels

sceneVars == <<kind, calls, rushed>>
shellVars == <<shell, typed, wire>>
pumpVars == <<pump, notes, out, leaked>>
queryVars == <<qpc, probes, reply>>
integrationVars == <<sceneVars, shellVars, apc, live, st, fires, scripts, pumpVars, queryVars>>
-----------------------------------------------------------------------------
Piece(k, of, half) == [k |-> k, of |-> of, half |-> half]
LineOf(c) == Piece("line", c, 0)   \* a line that command c prints
Line == LineOf(None)
Part == Piece("part", None, 0)
Unit(k, of) == <<Piece(k, of, 1), Piece(k, of, 2)>>
Whole(k) == Piece(k, None, 2)   \* one that arrives whole
First == "n0"      \* the nonce Attach makes
Nonces == {First} \cup Reinjects

\* OSC units of this package, the two modes of the screen, and what the user
\* must not see of a script.
Markers == {"prompt", "start", "done", "installed", "probe"}
Screens == {"enter", "exit"}
OfScript(p) == p.k \in {"echo", "sentinel", "rest"}

\* Where the unit k of `of` begins in s (0: nowhere), and what s ends with if it
\* may be the beginning of a unit.
Index(s, k, of) ==
  LET at == {i \in 1..(Len(s) - 1) :
               s[i] = Piece(k, of, 1) /\ s[i + 1] = Piece(k, of, 2)}
  IN  IF at = {} THEN 0 ELSE CHOOSE i \in at : \A j \in at : i <= j
Contains(s, k) == Index(s, k, None) > 0
Beginning(s, ks) ==
  IF s # <<>> /\ s[Len(s)].k \in ks /\ s[Len(s)].half = 1 THEN <<s[Len(s)]>> ELSE <<>>
Before(s, held) == SubSeq(s, 1, Len(s) - Len(held))

\* The pieces of s at the places `at`, in their order.
Kept(s, at) ==
  [j \in 1..Cardinality(at) |-> s[CHOOSE i \in at : Cardinality(at \cap (1..i)) = j]]

\* parser.feed: the rendered pieces, the events and the tail carried to the next
\* chunk.
Feed(tail, chunk) ==
  LET buf == tail \o chunk
      held == Beginning(buf, Markers)
      whole == Before(buf, held)
  IN  [rendered |-> Kept(whole, {i \in DOMAIN whole : whole[i].k \notin Markers}),
       events |-> Kept(whole, {i \in DOMAIN whole : whole[i].k \in Markers /\ whole[i].half = 2}),
       tail |-> held]

Typed(k, of) == [k |-> k, of |-> of]
Fields(phase, nonce) ==
  [phase |-> phase, nonce |-> nonce, scratch |-> <<>>, tail |-> <<>>, altTail |-> <<>>,
   atPrompt |-> FALSE, inAltScreen |-> FALSE, armed |-> FALSE]
-----------------------------------------------------------------------------
IntegrationInit ==
  /\ \E scene \in Scenes : kind = scene.kind /\ calls = scene.calls
  /\ rushed = FALSE
  /\ shell = [at |-> "starting", hooked |-> kind = "powershell"]
  /\ typed = <<>> /\ wire = <<>>
  /\ apc = "registered" /\ live = TRUE /\ st = Fields("none", None)
  /\ fires = 0 /\ scripts = {}
  /\ pump = "none" /\ notes = <<>> /\ out = <<>> /\ leaked = FALSE
  /\ qpc = [q \in Queries |-> "none"] /\ probes = {}
  /\ reply = [q \in Queries |-> None]

(* ------------------------- the shell and its terminal ------------------ *)

\* PROMPT_COMMAND reports the last command and the prompt, PS0 a command's start.
Prompt(hooked) ==
  (IF hooked THEN Unit("done", None) \o <<Whole("prompt")>> ELSE <<>>) \o <<Part>>
Started(hooked) == IF hooked THEN <<Whole("start")>> ELSE <<>>
Echo(n) == <<Piece("echo", n, 0)>> \o Unit("sentinel", n) \o <<Piece("rest", n, 0)>>

Prints(pieces) == Len(wire) <= MaxWire /\ wire' = wire \o pieces

ShellStarts ==
  /\ shell.at = "starting"
  /\ shell' = [shell EXCEPT !.at = "prompt"]
  /\ Prints(<<Line>> \o Prompt(shell.hooked))
  /\ UNCHANGED <<sceneVars, typed, apc, live, st, fires, scripts, pumpVars, queryVars>>

RunsScript(n) ==
  LET bash == kind # "alien"
  IN  /\ shell' = [shell EXCEPT !.hooked = bash]
      /\ Prints(Echo(n) \o Started(shell.hooked)
                \o (IF bash THEN Unit("installed", n) ELSE <<Line>>) \o Prompt(bash))

RunsProbe(q) ==
  /\ Prints(Started(shell.hooked) \o Unit("probe", q) \o Prompt(shell.hooked))
  /\ UNCHANGED shell

\* `bg` names the job it resumes, and prints a prompt of its own.
RunsBg ==
  /\ Prints(Started(shell.hooked) \o <<Line>> \o Prompt(shell.hooked))
  /\ UNCHANGED shell

RunsCommand(c) ==
  /\ shell' = [shell EXCEPT !.at = c]
  /\ Prints(Started(shell.hooked)
            \o IF c \in FullScreen THEN Unit("enter", None) ELSE <<LineOf(c)>>)

ShellReads ==
  /\ shell.at = "prompt" /\ typed # <<>>
  /\ LET what == Head(typed)
     IN  \/ what.k = "script" /\ RunsScript(what.of)
         \/ what.k = "probe" /\ RunsProbe(what.of)
         \/ what.k = "bg" /\ RunsBg
         \/ what.k = "command" /\ RunsCommand(what.of)
  /\ typed' = Tail(typed)
  /\ UNCHANGED <<sceneVars, apc, live, st, fires, scripts, pumpVars, queryVars>>

CommandFinishes ==
  /\ shell.at \in Commands
  /\ Prints((IF shell.at \in FullScreen THEN Unit("exit", None) ELSE <<LineOf(shell.at)>>)
            \o Prompt(shell.hooked))
  /\ shell' = [shell EXCEPT !.at = "prompt"]
  /\ UNCHANGED <<sceneVars, typed, apc, live, st, fires, scripts, pumpVars, queryVars>>

\* The user changes to a shell that has no hooks (su, exec); of interest while hooks
\* may be injected anew.
ShellIsReplaced ==
  /\ shell.at = "prompt" /\ shell.hooked /\ kind # "powershell" /\ calls \cap Reinjects # {}
  /\ shell' = [shell EXCEPT !.hooked = FALSE]
  /\ Prints(<<Part>>)
  /\ UNCHANGED <<sceneVars, typed, apc, live, st, fires, scripts, pumpVars, queryVars>>

ShellExits ==
  /\ shell.at \in {"prompt"} \cup Commands
  /\ shell' = [shell EXCEPT !.at = "gone"]
  /\ UNCHANGED <<sceneVars, typed, wire, apc, live, st, fires, scripts, pumpVars, queryVars>>

\* Input reaches the terminal, which echoes it when nobody reads: the hook script
\* is then printed once before the shell prints it again.
Receives(k, of) ==
  /\ typed' = Append(typed, Typed(k, of))
  /\ wire' = IF k = "script" /\ shell.at # "prompt" THEN wire \o Echo(of) ELSE wire
  /\ UNCHANGED shell

(* --------------------------- attach and inject ------------------------- *)

\* Attach of the middleware puts a state into the table, where the other calls find
\* it.  A PowerShell was spawned with its hooks, and its nonce prepared.
Attach ==
  /\ apc = "registered"
  /\ st' = IF kind = "powershell" THEN Fields("active", First) ELSE st
  /\ IF kind \in {"powershell", "unknown"}
       THEN apc' = "done" /\ pump' = "idle"
       ELSE apc' = "stored" /\ UNCHANGED pump
  /\ UNCHANGED <<sceneVars, shellVars, live, fires, scripts, notes, out, leaked,
                 queryVars>>

\* Then it takes the state's lock.  A local bash gets the script once it is quiet; a
\* remote shell is taken for bash and gets it at once.
BeginBootstrap ==
  /\ apc = "stored"
  /\ IF kind = "bash"
       THEN /\ st' = [st EXCEPT !.nonce = First, !.phase = "waitingReady", !.armed = TRUE]
            /\ apc' = "done" /\ pump' = "idle" /\ UNCHANGED scripts
       ELSE /\ st' = [st EXCEPT !.nonce = First, !.phase = "waitingSentinel"]
            /\ scripts' = scripts \cup {First} /\ apc' = "writing" /\ UNCHANGED pump
  /\ UNCHANGED <<sceneVars, shellVars, live, fires, notes, out, leaked, queryVars>>

\* WriteRaw of a script by the goroutine that made it: Attach's, a timer's, or
\* Reinject's.  A session that is gone refuses.
WriteScript(n) ==
  /\ n \in scripts
  /\ scripts' = scripts \ {n}
  /\ IF live THEN Receives("script", n) ELSE UNCHANGED shellVars
  /\ IF apc = "writing" /\ n = First
       THEN apc' = "done" /\ pump' = "idle"
       ELSE UNCHANGED <<apc, pump>>
  /\ UNCHANGED <<sceneVars, live, st, fires, notes, out, leaked, queryVars>>

\* The debounce, or the deadline, is over: the timer's goroutine starts.
TimerExpires ==
  /\ st.armed /\ fires < 2
  /\ st' = [st EXCEPT !.armed = FALSE] /\ fires' = fires + 1
  /\ UNCHANGED <<sceneVars, shellVars, apc, live, scripts, pumpVars, queryVars>>

\* Mutant: a timer that fires late does not look whether it is still wanted.
FireReadyAnyway ==
  /\ fires > 0 /\ fires' = fires - 1
  /\ st' = [st EXCEPT !.phase = "waitingSentinel"] /\ scripts' = scripts \cup {st.nonce}
  /\ UNCHANGED <<sceneVars, shellVars, apc, live, pumpVars, queryVars>>

FireReady ==
  /\ fires > 0 /\ fires' = fires - 1
  /\ IF st.phase = "waitingReady"
       THEN st' = [st EXCEPT !.phase = "waitingSentinel"] /\ scripts' = scripts \cup {st.nonce}
       ELSE UNCHANGED <<st, scripts>>
  /\ UNCHANGED <<sceneVars, shellVars, apc, live, pumpVars, queryVars>>

\* A script that was made and is not done with: it is still to be written or to be
\* read, or the reader has not seen all of it.
InFlight ==
  \/ apc = "stored" \/ scripts # {}
  \/ \E i \in DOMAIN typed : typed[i].k = "script"
  \/ \E i \in DOMAIN wire : OfScript(wire[i])

\* Reinject makes a nonce no other call has, and starts over, whatever was under way:
\* it looks at the dialect and at nothing else.
Reinject(n) ==
  /\ apc # "registered" /\ pump # "gone" /\ kind \in {"ssh", "alien", "bash"}
  /\ n \in calls /\ calls' = calls \ {n}
  /\ st' = [Fields("waitingSentinel", n) EXCEPT !.armed = st.armed]
  /\ scripts' = scripts \cup {n}
  /\ rushed' = (rushed \/ InFlight)
  /\ UNCHANGED <<kind, shellVars, apc, live, fires, pumpVars, queryVars>>

(* ------------------------------ the output ----------------------------- *)

\* What OnOutput makes of a chunk: the state, what is rendered and what is to be
\* dispatched.
Step(state, rendered, what) == [st |-> state, rendered |-> rendered, notes |-> what]

\* Everything is withheld until the hooks confirm themselves, what follows the
\* confirmation in the same chunk included.
Suppressed(state, chunk) ==
  LET fed == Feed(state.tail, chunk)
      confirmed == \E i \in DOMAIN fed.events :
                     fed.events[i].k = "installed" /\ fed.events[i].of = state.nonce
  IN  [state EXCEPT !.tail = fed.tail,
                    !.phase = IF confirmed THEN "active" ELSE "suppressing"]

\* The output up to the last line that was complete when the sentinel began, at
\* place `at`: the rest of a script's echo ends its line as well.
CompleteLines(s, at) ==
  LET ends == {i \in DOMAIN s : i < at /\ s[i].k \in {"line", "rest"}}
  IN  Kept(s, {i \in DOMAIN s : \E j \in ends : i <= j})

AwaitSentinel(chunk) ==
  LET scratch == st.scratch \o chunk
      at == Index(scratch, "sentinel", st.nonce)
  IN  IF at > 0
        THEN Step(Suppressed([st EXCEPT !.scratch = <<>>],
                             SubSeq(scratch, at, Len(scratch))),
                  IF kind = "bash" THEN <<>> ELSE CompleteLines(scratch, at),
                  <<>>)
        ELSE IF Len(scratch) > MaxWait
          THEN Step([st EXCEPT !.scratch = <<>>, !.phase = "none"], scratch, <<>>)
          ELSE Step([st EXCEPT !.scratch = scratch], <<>>, <<>>)

\* The prompt flag, and the events that are dispatched: of the prompt's and the
\* start's observers none does anything.
AtPromptAfter(at, events) ==
  LET marks == {i \in DOMAIN events : events[i].k \in {"prompt", "start"}}
  IN  IF marks = {} THEN at
      ELSE events[CHOOSE i \in marks : \A j \in marks : j <= i].k = "prompt"

ParseActive(chunk) ==
  LET fed == Feed(st.tail, chunk)
      seen == st.altTail \o fed.rendered
      enters == Contains(seen, "enter") /\ ~st.inAltScreen
      in == st.inAltScreen \/ enters
      exits == Contains(seen, "exit") /\ in
      told == Kept(fed.events, {i \in DOMAIN fed.events : fed.events[i].k \in {"done", "probe"}})
  IN  Step([st EXCEPT !.tail = fed.tail, !.altTail = Beginning(seen, Screens),
                      !.atPrompt = AtPromptAfter(st.atPrompt, fed.events),
                      !.inAltScreen = in /\ ~exits],
           fed.rendered,
           told \o (IF enters THEN <<Piece("enter", None, 2)>> ELSE <<>>)
                \o (IF exits THEN <<Piece("exit", None, 2)>> ELSE <<>>))

StepOutput(chunk) ==
  IF st.phase = "waitingSentinel" THEN AwaitSentinel(chunk)
  ELSE IF st.phase = "suppressing" THEN Step(Suppressed(st, chunk), <<>>, <<>>)
  ELSE IF st.phase = "active" THEN ParseActive(chunk)
  ELSE Step(st, chunk, <<>>)

\* OnOutput of a chunk.  While the shell is not quiet, every chunk puts the
\* injection off, until the deadline.
PumpReads ==
  /\ pump = "idle" /\ wire # <<>>
  /\ \E n \in 1..MaxChunk :
       /\ n <= Len(wire)
       /\ wire' = SubSeq(wire, n + 1, Len(wire))
       /\ \E step \in {StepOutput(SubSeq(wire, 1, n))} :
            /\ \/ st' = step.st
               \/ st.phase = "waitingReady" /\ st' = [step.st EXCEPT !.armed = TRUE]
            /\ out' = step.rendered /\ notes' = step.notes
            /\ leaked' = (leaked \/ /\ step.st.phase # "none"
                                    /\ \E i \in DOMAIN step.rendered : OfScript(step.rendered[i]))
  /\ pump' = "busy"
  /\ UNCHANGED <<sceneVars, shell, typed, apc, live, fires, scripts, queryVars>>

\* routeProbe takes the channel of the query that waits, if one does, and sends
\* on it: the channel has room for the one reply it gets.
RouteProbe ==
  /\ pump = "busy" /\ notes # <<>> /\ Head(notes).k = "probe"
  /\ IF Head(notes).of \in probes
       THEN probes' = probes \ {Head(notes).of} /\ pump' = "sending" /\ UNCHANGED notes
       ELSE notes' = Tail(notes) /\ UNCHANGED <<probes, pump>>
  /\ UNCHANGED <<sceneVars, shellVars, apc, live, st, fires, scripts, out, leaked, qpc, reply>>

\* Mutant: the channel has no room, and the send waits for its reader.
SendToReader ==
  /\ pump = "sending" /\ qpc[Head(notes).of] = "waiting"
  /\ reply' = [reply EXCEPT ![Head(notes).of] = "values"]
  /\ pump' = "busy" /\ notes' = Tail(notes)
  /\ UNCHANGED <<sceneVars, shellVars, apc, live, st, fires, scripts, out, leaked, qpc, probes>>

SendReply ==
  /\ pump = "sending"
  /\ reply' = [reply EXCEPT ![Head(notes).of] = "values"]
  /\ pump' = "busy" /\ notes' = Tail(notes)
  /\ UNCHANGED <<sceneVars, shellVars, apc, live, st, fires, scripts, out, leaked, qpc, probes>>

\* The stream has ended and everything was read: the session leaves the table,
\* then the taps and the middleware forget it.
SessionEnds ==
  /\ pump = "idle" /\ wire = <<>> /\ shell.at = "gone"
  /\ live' = FALSE /\ pump' = "detaching"
  /\ UNCHANGED <<sceneVars, shellVars, apc, st, fires, scripts, notes, out, leaked, queryVars>>

Detach ==
  /\ pump = "detached" /\ pump' = "gone"
  /\ st' = [st EXCEPT !.phase = "none", !.armed = FALSE]
  /\ UNCHANGED <<sceneVars, shellVars, apc, live, fires, scripts, notes, out, leaked, queryVars>>

(* ------------------------------- the probes ---------------------------- *)

QueryFrame == UNCHANGED <<sceneVars, apc, live, st, fires, scripts, pumpVars>>

\* Query: only at a prompt; then its channel is registered, and the probe written.
Query(q) ==
  /\ q \in calls /\ qpc[q] = "none" /\ pump # "gone"
  /\ st.phase = "active" /\ st.atPrompt
  /\ qpc' = [qpc EXCEPT ![q] = "register"]
  /\ QueryFrame /\ UNCHANGED <<shellVars, probes, reply>>

Register(q) ==
  /\ qpc[q] = "register"
  /\ probes' = probes \cup {q} /\ qpc' = [qpc EXCEPT ![q] = "write"]
  /\ QueryFrame /\ UNCHANGED <<shellVars, reply>>

WriteProbe(q) ==
  /\ qpc[q] = "write"
  /\ IF live
       THEN Receives("probe", q) /\ qpc' = [qpc EXCEPT ![q] = "waiting"]
       ELSE UNCHANGED shellVars /\ qpc' = [qpc EXCEPT ![q] = "forget"]
  /\ QueryFrame /\ UNCHANGED <<probes, reply>>

\* The reply, or the end of the caller's context, whichever is there; then the
\* query forgets its channel.
ReplyArrives(q) ==
  /\ qpc[q] = "waiting" /\ reply[q] # None
  /\ qpc' = [qpc EXCEPT ![q] = "forget"]
  /\ QueryFrame /\ UNCHANGED <<shellVars, probes, reply>>

ContextEnds(q) ==
  /\ qpc[q] = "waiting"
  /\ qpc' = [qpc EXCEPT ![q] = "forget"]
  /\ QueryFrame /\ UNCHANGED <<shellVars, probes, reply>>

ForgetProbe(q) ==
  /\ qpc[q] = "forget"
  /\ probes' = probes \ {q} /\ qpc' = [qpc EXCEPT ![q] = "returned"]
  /\ QueryFrame /\ UNCHANGED <<shellVars, reply>>
-----------------------------------------------------------------------------
Outside == ShellStarts \/ ShellReads \/ CommandFinishes \/ ShellIsReplaced \/ ShellExits
Injects == Attach \/ BeginBootstrap \/ TimerExpires \/ FireReady
           \/ (\E n \in Nonces : WriteScript(n))
QuerySteps(q) == Register(q) \/ WriteProbe(q) \/ ReplyArrives(q) \/ ContextEnds(q)
                 \/ ForgetProbe(q)
=============================================================================
