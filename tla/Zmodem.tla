------------------------------- MODULE Zmodem -------------------------------
(***************************************************************************)
(* Package transfer, middleware.go: the ZMODEM side of one SSH session.  The *)
(* session's pump hands every output chunk to OnOutput, which detects rz/sz, *)
(* diverts the output to a transfer's engine through a bounded conduit, and  *)
(* discards it while the transfer drains; keystrokes are blocked meanwhile.  *)
(* The engine, a stall watchdog and a drain watcher run in goroutines of     *)
(* their own; the user starts uploads and cancels.                           *)
(*                                                                          *)
(* A step is one critical section of st.mu.  Where the code calls WriteRaw   *)
(* under st.mu the lock is held in mu, as that call can block.  Time is left *)
(* out: a drain may end, and a transfer may stall, at any moment.            *)
(***************************************************************************)
EXTENDS Naturals, FiniteSets

CONSTANTS
  Transfers,  \* the transfers that may begin, by task ID
  Programs,   \* subset of {"rz", "sz"}: what the user runs on the remote
  QueueCap,   \* capacity of a conduit (32 in the code)
  Jams,       \* may the remote stop reading while its own output is stuck?
  LateCalls,  \* bound on the user's calls under way when the session ends
  None

ASSUME NoneAssumption == None \notin Transfers
ASSUME CapAssumption == QueueCap \in Nat \ {0}
ASSUME LateCallsAssumption == LateCalls \in Nat
ASSUME JamsAssumption == Jams \in BOOLEAN

VARIABLES
  phase, taskID, conduit, cancel,             \* zmodemState
  table,         \* zstates: the session is "in", "leaving" (Detach runs) or "out"
  late,          \* user's calls that found the state before it left the table
  mu,            \* who is inside WriteRaw with st.mu: "free", "cancel" or a transfer
  inputBlocked,  \* the session's flag
  pushing,       \* the transfer whose conduit OnOutput is pushing into
  queue, closed, \* the conduits
  ctxDone,       \* transfers whose context is canceled
  engine,        \* runZmodem
  dog, stalled,  \* watchTransferStall; transfers without progress for 120 s
  watchers,      \* drain watchers: of the current drainGen, of earlier ones
  unblocking,    \* watchers past the unlock, about to unblock input
  jammed         \* the remote takes no input

stVars == <<phase, taskID, conduit, cancel>>
pipeVars == <<pushing, queue, closed>>
engineVars == <<ctxDone, engine>>
dogVars == <<dog, stalled>>
drainVars == <<watchers, unblocking>>
tableVars == <<table, late>>
vars == <<stVars, tableVars, mu, inputBlocked, pipeVars, engineVars, dogVars, drainVars, jammed>>

Phases == {"idle", "awaiting-send", "active", "draining"}
Gens == {"current", "earlier"}
MaxUnblocking == 2 * Cardinality(Transfers)  \* every transfer drains at most twice

TypeOK ==
  /\ phase \in Phases
  /\ taskID \in Transfers \cup {None}
  /\ conduit \in Transfers \cup {None}
  /\ cancel \in Transfers \cup {None}
  /\ table \in {"in", "leaving", "out"}
  /\ late \in 0..LateCalls
  /\ mu \in Transfers \cup {"free", "cancel"}
  /\ inputBlocked \in BOOLEAN
  /\ pushing \in Transfers \cup {None}
  /\ queue \in [Transfers -> 0..QueueCap]
  /\ closed \subseteq Transfers
  /\ ctxDone \subseteq Transfers
  /\ engine \in [Transfers -> {"new", "run", "write", "nak", "close", "lock", "done"}]
  /\ dog \in [Transfers -> {"off", "watch", "fire", "fired", "left"}]
  /\ stalled \subseteq Transfers
  /\ watchers \subseteq Gens
  /\ unblocking \in 0..MaxUnblocking
  /\ jammed \in BOOLEAN

Init ==
  /\ phase = "idle" /\ taskID = None /\ conduit = None /\ cancel = None
  /\ table = "in" /\ late = 0
  /\ mu = "free"
  /\ inputBlocked = FALSE
  /\ pushing = None
  /\ queue = [t \in Transfers |-> 0]
  /\ closed = {} /\ ctxDone = {}
  /\ engine = [t \in Transfers |-> "new"]
  /\ dog = [t \in Transfers |-> "off"]
  /\ stalled = {}
  /\ watchers = {} /\ unblocking = 0
  /\ jammed = FALSE
-----------------------------------------------------------------------------
Locked == mu = "free"   \* a critical section of st.mu can run
Attached == table = "in"

\* A user's call has found the state in the table, perhaps before Detach
\* removed it: the look-up is under zmu, all the rest under st.mu.
Found ==
  \/ Attached /\ UNCHANGED late
  \/ late > 0 /\ late' = late - 1

\* Transfers named by a pointer that may be nil.
Of(ptr) == {ptr} \ {None}

EngineGoto(t, from, to) == engine[t] = from /\ engine' = [engine EXCEPT ![t] = to]
\* drainGen++ supersedes the watcher of the drain so far.
BumpGen == watchers' = {"earlier" : w \in watchers}

DogGoto(t, from, to) == dog[t] = from /\ dog' = [dog EXCEPT ![t] = to]

\* A fresh conduit holding the signature, input blocked, engine and watchdog.
BeginTransferLocked(t) ==
  /\ EngineGoto(t, "new", "run")
  /\ DogGoto(t, "off", "watch")
  /\ phase' = "active" /\ taskID' = t /\ conduit' = t /\ cancel' = t
  /\ BumpGen
  /\ inputBlocked' = TRUE
  /\ queue' = [queue EXCEPT ![t] = 1]

BeginDrainLocked ==
  /\ phase' = "draining"
  /\ watchers' = {"earlier" : w \in watchers} \cup {"current"}
-----------------------------------------------------------------------------
(* The pump.                                                                *)

\* Output while a transfer is active goes to its conduit, off the lock.
OnOutputActive ==
  /\ Locked /\ Attached /\ pushing = None
  /\ phase = "active"
  /\ pushing' = conduit
  /\ UNCHANGED <<stVars, tableVars, mu, inputBlocked, queue, closed, engineVars, dogVars,
                 drainVars, jammed>>

\* conduit.push: room in the channel, or the conduit is closed.
Push(t) ==
  /\ pushing = t
  /\ \/ queue[t] < QueueCap /\ queue' = [queue EXCEPT ![t] = @ + 1]
     \/ t \in closed /\ UNCHANGED queue
  /\ pushing' = None
  /\ UNCHANGED <<stVars, tableVars, mu, inputBlocked, closed, engineVars, dogVars,
                 drainVars, jammed>>

\* A remote sz is detected: the download begins at once, also from a drain.
OnDownload(t) ==
  /\ "sz" \in Programs
  /\ Locked /\ Attached /\ pushing = None
  /\ phase # "active"
  /\ BeginTransferLocked(t)
  /\ UNCHANGED <<tableVars, mu, pushing, closed, ctxDone, stalled, unblocking, jammed>>

\* A remote rz is detected: wait for the user's files.
OnUpload ==
  /\ "rz" \in Programs
  /\ Locked /\ Attached /\ pushing = None
  /\ phase \in {"idle", "draining"}
  /\ phase' = "awaiting-send"
  /\ IF phase = "draining" THEN BumpGen ELSE UNCHANGED watchers
  /\ UNCHANGED <<taskID, conduit, cancel, tableVars, mu, inputBlocked, pipeVars,
                 engineVars, dogVars, unblocking, jammed>>

\* The session ended: its state leaves the table, under zmu, while some calls
\* may be between their look-up and st.mu ...
Detach ==
  /\ Attached /\ pushing = None
  /\ table' = "leaving"
  /\ late' \in 0..LateCalls
  /\ UNCHANGED <<stVars, mu, inputBlocked, pipeVars, engineVars, dogVars,
                 drainVars, jammed>>

\* ... and its transfer is given up, under st.mu.
DetachState ==
  /\ Locked /\ table = "leaving"
  /\ table' = "out"
  /\ ctxDone' = ctxDone \cup Of(cancel)
  /\ closed' = closed \cup Of(conduit)
  /\ UNCHANGED <<stVars, late, mu, inputBlocked, pushing, queue, engine,
                 dogVars, drainVars, jammed>>
-----------------------------------------------------------------------------
(* The user.                                                                *)

StartZmodemSend(t) ==
  /\ Locked /\ Found
  /\ phase = "awaiting-send"
  /\ BeginTransferLocked(t)
  /\ UNCHANGED <<table, mu, pushing, closed, ctxDone, stalled, unblocking, jammed>>

\* Cancel of an active transfer writes to the remote with the lock held ...
CancelActive ==
  /\ Locked /\ Found
  /\ phase = "active"
  /\ mu' = "cancel"
  /\ UNCHANGED <<stVars, table, inputBlocked, pipeVars, engineVars, dogVars,
                 drainVars, jammed>>

\* ... and goes on when the remote has taken it.
CancelWritten ==
  /\ mu = "cancel" /\ ~jammed
  /\ mu' = "free"
  /\ closed' = closed \cup Of(conduit)
  /\ ctxDone' = ctxDone \cup Of(cancel)
  /\ UNCHANGED <<stVars, tableVars, inputBlocked, pushing, queue, engine,
                 dogVars, drainVars, jammed>>

\* Cancel of a prompt or of a drain; elsewhere it only cancels the context.
CancelWaiting ==
  /\ Locked /\ Found
  /\ phase # "active"
  /\ ctxDone' = ctxDone \cup Of(cancel)
  /\ \/ /\ phase = "awaiting-send"
        /\ phase' = "idle"
        /\ UNCHANGED <<watchers, inputBlocked>>
     \/ /\ phase = "draining"
        /\ phase' = "idle"
        /\ BumpGen
        /\ inputBlocked' = FALSE
     \/ phase = "idle" /\ UNCHANGED <<phase, watchers, inputBlocked>>
  /\ UNCHANGED <<taskID, conduit, cancel, table, mu, pipeVars, engine,
                 dogVars, unblocking, jammed>>
-----------------------------------------------------------------------------
(* runZmodem.                                                               *)

\* The engine takes a chunk; its progress callback needs st.mu, and counts as
\* progress of whichever transfer is active: lastProgress is the state's.
EngineRead(t) ==
  /\ engine[t] = "run" /\ Locked
  /\ queue[t] > 0
  /\ queue' = [queue EXCEPT ![t] = @ - 1]
  /\ stalled' = {}
  /\ UNCHANGED <<stVars, tableVars, mu, inputBlocked, pushing, closed, engineVars, dog,
                 drainVars, jammed>>

\* It writes to the remote, for as long as that takes.
EngineWrite(t) ==
  /\ Jams
  /\ \/ EngineGoto(t, "run", "write")
     \/ EngineGoto(t, "write", "run") /\ ~jammed
  /\ UNCHANGED <<stVars, tableVars, mu, inputBlocked, pipeVars, ctxDone,
                 dogVars, drainVars, jammed>>

\* Receive or Send returns; without a canceled context it may have failed.
EngineReturn(t) ==
  /\ \/ EngineGoto(t, "run", "close")
     \/ EngineGoto(t, "run", "nak") /\ t \notin ctxDone
  /\ UNCHANGED <<stVars, tableVars, mu, inputBlocked, pipeVars, ctxDone, dogVars,
                 drainVars, jammed>>

\* A failed protocol: tell the remote to give up.
EngineNak(t) ==
  /\ EngineGoto(t, "nak", "close")
  /\ ~jammed
  /\ UNCHANGED <<stVars, tableVars, mu, inputBlocked, pipeVars, ctxDone,
                 dogVars, drainVars, jammed>>

EngineClose(t) ==
  /\ EngineGoto(t, "close", "lock")
  /\ closed' = closed \cup {t}
  /\ UNCHANGED <<stVars, tableVars, mu, inputBlocked, pushing, queue, ctxDone, dogVars, drainVars, jammed>>

\* Mutant: the engine's end does not begin a drain.
NoDrain(t) ==
  /\ Locked
  /\ EngineGoto(t, "lock", "done")
  /\ conduit' = None /\ cancel' = None
  /\ UNCHANGED <<phase, taskID, tableVars, mu, inputBlocked, pipeVars, ctxDone, dogVars, drainVars, jammed>>

\* Whatever is in the state by now is reset; the end is published afterwards.
EngineLock(t) ==
  /\ Locked
  /\ EngineGoto(t, "lock", "done")
  /\ conduit' = None /\ cancel' = None
  /\ BeginDrainLocked
  /\ UNCHANGED <<taskID, tableVars, mu, inputBlocked, pipeVars, ctxDone,
                 dogVars, unblocking, jammed>>
-----------------------------------------------------------------------------
(* watchTransferStall and the drain watchers.                               *)

DogLeaves(t) ==
  /\ Locked
  /\ DogGoto(t, "watch", "left")
  /\ taskID # t \/ phase # "active"
  /\ UNCHANGED <<stVars, tableVars, mu, inputBlocked, pipeVars, engineVars, stalled,
                 drainVars, jammed>>

\* The watchdog, too, writes to the remote with the lock held.
DogFires(t) ==
  /\ Locked
  /\ DogGoto(t, "watch", "fire")
  /\ taskID = t /\ phase = "active" /\ t \in stalled
  /\ mu' = t
  /\ UNCHANGED <<stVars, tableVars, inputBlocked, pipeVars, engineVars, stalled,
                 drainVars, jammed>>

\* Give up as CancelZmodem does, drain, and publish the failure.
DogWritten(t) ==
  /\ mu = t /\ ~jammed
  /\ DogGoto(t, "fire", "fired")
  /\ mu' = "free"
  /\ ctxDone' = ctxDone \cup Of(cancel)
  /\ closed' = closed \cup Of(conduit)
  /\ BeginDrainLocked
  /\ UNCHANGED <<taskID, conduit, cancel, tableVars, inputBlocked, pushing, queue,
                 engine, stalled, unblocking, jammed>>

\* Mutant: a watcher does not compare generations.
AnyWatcher(g) ==
  /\ Locked
  /\ g \in watchers
  /\ watchers' = watchers \ {g}
  /\ phase' = "idle"
  /\ unblocking' = unblocking + 1
  /\ UNCHANGED <<taskID, conduit, cancel, tableVars, mu, inputBlocked, pipeVars,
                 engineVars, dogVars, jammed>>

\* Mutant: the end of a drain does not unblock input.
DrainForgets(g) ==
  /\ Locked
  /\ g \in watchers
  /\ watchers' = watchers \ {g}
  /\ IF phase = "draining" /\ g = "current" THEN phase' = "idle" ELSE UNCHANGED phase
  /\ UNCHANGED <<taskID, conduit, cancel, tableVars, mu, inputBlocked, pipeVars,
                 engineVars, dogVars, unblocking, jammed>>

\* Quiet for long enough, or three seconds are over; or superseded.
DrainEnds(g) ==
  /\ Locked
  /\ g \in watchers
  /\ watchers' = watchers \ {g}
  /\ IF phase = "draining" /\ g = "current"
     THEN phase' = "idle" /\ unblocking' = unblocking + 1
     ELSE UNCHANGED <<phase, unblocking>>
  /\ UNCHANGED <<taskID, conduit, cancel, tableVars, mu, inputBlocked, pipeVars,
                 engineVars, dogVars, jammed>>

\* SetInputBlocked(false), after the unlock.
Unblock ==
  /\ unblocking > 0
  /\ unblocking' = unblocking - 1
  /\ inputBlocked' = FALSE
  /\ UNCHANGED <<stVars, tableVars, mu, pipeVars, engineVars, dogVars, watchers, jammed>>
-----------------------------------------------------------------------------
(* Time and the remote end.                                                 *)

\* 120 s without progress; the time is looked at only during the transfer.
Stall(t) ==
  /\ taskID = t /\ phase = "active"
  /\ t \notin stalled
  /\ stalled' = stalled \cup {t}
  /\ UNCHANGED <<stVars, tableVars, mu, inputBlocked, pipeVars, engineVars, dog,
                 drainVars, jammed>>

\* The remote stops reading once its own output is stuck behind a full
\* conduit, and reads again when that moves.
PumpStuck == pushing # None /\ queue[pushing] = QueueCap

Jam ==
  /\ Jams /\ ~jammed /\ PumpStuck
  /\ jammed' = TRUE
  /\ UNCHANGED <<stVars, tableVars, mu, inputBlocked, pipeVars, engineVars, dogVars, drainVars>>

Unjam ==
  /\ jammed /\ pushing = None
  /\ jammed' = FALSE
  /\ UNCHANGED <<stVars, tableVars, mu, inputBlocked, pipeVars, engineVars, dogVars, drainVars>>
-----------------------------------------------------------------------------
User == \/ \E t \in Transfers : StartZmodemSend(t)
        \/ CancelActive \/ CancelWaiting

Output == OnOutputActive \/ OnUpload \/ (\E t \in Transfers : OnDownload(t)) \/ Detach \/ DetachState

\* What runZmodem does when the engine has returned.
AfterEngine(t) == EngineNak(t) \/ EngineClose(t) \/ EngineLock(t)

Dog(t) == DogLeaves(t) \/ DogFires(t) \/ DogWritten(t)

\* Steps of goroutines other than the pump and the engine; each of them takes
\* finitely many, so fairness to all is fairness to each.
Goroutines ==
  \/ \E t \in Transfers : AfterEngine(t) \/ Dog(t)
  \/ \E g \in Gens : DrainEnds(g)
  \/ Unblock

Next ==
  \/ User \/ CancelWritten \/ Output
  \/ \E t \in Transfers :
       Push(t) \/ EngineRead(t) \/ EngineWrite(t) \/ EngineReturn(t) \/ Stall(t)
  \/ Goroutines
  \/ Jam \/ Unjam

Spec == Init /\ [][Next]_vars

\* Goroutines are scheduled and no lock starves them; time passes; the remote
\* reads when it can.  The engine itself owes nothing.
FairSpec ==
  /\ Spec
  /\ SF_vars(Goroutines) /\ WF_vars(CancelWritten) /\ WF_vars(Unjam)
  /\ WF_vars(\E t \in Transfers : Push(t)) /\ WF_vars(\E t \in Transfers : Stall(t))

\* The engine keeps to its own read timeouts and retry bounds, too.
FairEngineSpec ==
  /\ FairSpec
  /\ SF_vars(\E t \in Transfers : EngineReturn(t))
  /\ WF_vars(\E t \in Transfers : EngineWrite(t))
-----------------------------------------------------------------------------
(* Properties.                                                              *)

Running(t) == engine[t] \in {"run", "write"}
Undisturbed(t) == Running(t) /\ t \notin ctxDone \cup closed

\* OnOutput never pushes into a nil conduit, and Cancel reaches the transfer
\* the phase speaks of.
ActiveIsComplete == phase = "active" => taskID # None /\ conduit = taskID /\ cancel = taskID

\* As long as no watchdog fired, a transfer that was not cancelled is the one
\* output goes to: no cancel, detection or drain of another one takes it away.
OwnsTheOutput ==
  (\A t \in Transfers : dog[t] # "fired")
    => \A t \in Transfers : Undisturbed(t) => phase = "active" /\ taskID = t

\* The pump is never left pushing: with an engine that keeps its bounds the
\* session's output moves on.
PumpMoves == pushing # None ~> pushing = None

\* A drain gives the terminal back.
DrainsEnd == phase = "draining" ~> phase # "draining"

\* An idle terminal takes input again, as long as the remote runs no rz.
InputRestored ==
  (Attached /\ phase = "idle" /\ inputBlocked) ~> (~Attached \/ phase # "idle" \/ ~inputBlocked)

\* The user gets the terminal back, whatever a transfer does with it: its
\* output moves, its drain ends, and it takes input.
TerminalRecovers == PumpMoves /\ DrainsEnd /\ InputRestored
-----------------------------------------------------------------------------
(* What comments of the code say and the code does not do.                  *)

\* middleware.go: the end of a transfer that the watchdog already gave up is
\* harmless: it takes no output away from a later one.
LateReturnHarmless ==
  \A t \in Transfers : Undisturbed(t) /\ Attached => phase = "active" /\ taskID = t

\* session/service.go: keystrokes are dropped while a transfer owns the channel.
InputBlockedWhileActive == phase = "active" => inputBlocked

\* middleware.go: the watchdog frees the terminal whatever the engine does,
\* also when a later transfer is the one that stalls ...
TerminalFreed == pushing # None ~> pushing = None

\* ... and also when the remote takes no input.
StallEnds ==
  \A t \in Transfers :
    (taskID = t /\ phase = "active" /\ t \in stalled)
      ~> (taskID # t \/ phase # "active" \/ t \notin stalled)
=============================================================================
