--------------------------- MODULE SessionService ---------------------------
(***************************************************************************)
(* Package session: terminal sessions over a local pty or SSH.  A session   *)
(* is created by the caller's goroutine (local) or by connectSSH; once it   *)
(* runs, readLoop moves output from the stream into a bounded channel and   *)
(* pump moves it from there to the terminal and owns the shutdown.  The     *)
(* user closes sessions, answers host key prompts and opens the file        *)
(* browser from other goroutines, and CloseAll runs when the app quits.     *)
(*                                                                          *)
(* One step is one critical section of s.mu or live.mu, one channel         *)
(* operation, or one call out.  Output is counted in chunks, all hosts are  *)
(* one host with one key, and a session ID is used once.                    *)
(***************************************************************************)
EXTENDS Naturals, Sequences

CONSTANTS
  Sessions,    \* session IDs
  Kinds,       \* subset of {"local", "ssh"}: the sessions this instance opens
  ChanCap,     \* capacity of readCh (64 in the code)
  MaxChunks,   \* bound: chunks one session ever outputs
  FileBrowser, \* does the user open SFTP file browsers?
  Panics       \* may a middleware or a tap panic?

ASSUME CapAssumption == ChanCap \in Nat \ {0}
ASSUME ChunksAssumption == MaxChunks \in Nat
ASSUME FlagAssumption == FileBrowser \in BOOLEAN /\ Panics \in BOOLEAN

VARIABLES
  sessions,             \* the map, as the set of its keys
  state, events,        \* the entity's state; the states published
  creator,              \* where CreateLocal or connectSSH is
  hostKeyResp, known,   \* the host key prompt; the key is in known_hosts
  stream, conn,         \* live.stream is set; what the transport is doing
  closer, fs, fsCall,   \* Close, the cached SFTP subsystem, FileSystem
  attached,             \* taps and middlewares
  reader, readCh, readChClosed,        \* readLoop and its channel
  pump, panicked, acc,                 \* pump and its unflushed output
  got, swallowed, shown,               \* chunks read, kept by a middleware, published
  closeAll, ids, toClose               \* CloseAll, the sessions it listed

mapVars == <<sessions, state, events>>
connVars == <<creator, hostKeyResp, known>>
liveVars == <<stream, conn>>
closeVars == <<closer, closeAll, ids, toClose>>
fsVars == <<fs, fsCall>>
readVars == <<reader, readCh, readChClosed, got>>
pumpVars == <<pump, panicked, acc, swallowed, shown>>
vars == <<mapVars, connVars, liveVars, closeVars, fsVars, attached, readVars, pumpVars>>

\* domain.legalTransitions, with "none" for an entity not created yet.
States == {"none", "starting", "connecting", "running", "closed", "error"}
\* Mutant: a running session cannot fail.
NoRunningError == ({"connecting", "starting"} \X {"running", "closed", "error"})
                    \cup {<<"running", "closed">>}

Legal == ({"connecting", "starting"} \X {"running", "closed", "error"})
           \cup ({"running"} \X {"closed", "error"})
Final == {"closed", "error"}

HostKeyAnswers == {"trust", "once", "cancel"}
Creators == {"new", "dial", "prompt", "auth", "dialled", "refused", "fail", "handoff",
             "enter", "attach", "start", "announce", "done"}
Pumps == {"off", "loop", "process", "wait", "closefs", "close", "remove", "detach",
          "publish", "done"}

TypeOK ==
  /\ sessions \subseteq Sessions
  /\ state \in [Sessions -> States]
  /\ events \in [Sessions -> Seq(States)]
  /\ creator \in [Sessions -> Creators]
  /\ hostKeyResp \in [Sessions -> HostKeyAnswers \cup {"empty"}]
  /\ known \in BOOLEAN
  /\ stream \subseteq Sessions
  /\ conn \in [Sessions -> {"none", "open", "ended", "closed"}]
  /\ closer \subseteq Sessions
  /\ fs \subseteq Sessions
  /\ fsCall \subseteq Sessions
  /\ attached \in [Sessions -> {"no", "yes", "gone"}]
  /\ reader \in [Sessions -> {"off", "read", "send", "done"}]
  /\ readCh \in [Sessions -> 0..ChanCap]
  /\ readChClosed \subseteq Sessions
  /\ pump \in [Sessions -> Pumps]
  /\ panicked \subseteq Sessions
  /\ acc \in [Sessions -> 0..MaxChunks]
  /\ got \in [Sessions -> 0..MaxChunks]
  /\ swallowed \in [Sessions -> 0..MaxChunks]
  /\ shown \in [Sessions -> 0..MaxChunks]
  /\ closeAll \in {"idle", "closing", "waiting", "done", "timeout"}
  /\ ids \subseteq Sessions /\ toClose \subseteq ids

Init ==
  /\ sessions = {}
  /\ state = [s \in Sessions |-> "none"]
  /\ events = [s \in Sessions |-> <<>>]
  /\ creator = [s \in Sessions |-> "new"]
  /\ hostKeyResp = [s \in Sessions |-> "empty"]
  /\ known \in BOOLEAN
  /\ stream = {}
  /\ conn = [s \in Sessions |-> "none"]
  /\ closer = {}
  /\ fs = {} /\ fsCall = {}
  /\ attached = [s \in Sessions |-> "no"]
  /\ reader = [s \in Sessions |-> "off"]
  /\ readCh = [s \in Sessions |-> 0]
  /\ readChClosed = {}
  /\ pump = [s \in Sessions |-> "off"]
  /\ panicked = {}
  /\ acc = [s \in Sessions |-> 0]
  /\ got = [s \in Sessions |-> 0]
  /\ swallowed = [s \in Sessions |-> 0]
  /\ shown = [s \in Sessions |-> 0]
  /\ closeAll = "idle" /\ ids = {} /\ toClose = {}
-----------------------------------------------------------------------------
Set(f, s, v) == [f EXCEPT ![s] = v]
Add(f, s, n) == [f EXCEPT ![s] = @ + n]

Goto(s, from, to) == creator[s] = from /\ creator' = Set(creator, s, to)
PumpGoto(s, from, to) == pump[s] = from /\ pump' = Set(pump, s, to)

\* An illegal transition is an error every caller ignores: nothing changes.
TransitionTo(s, next) ==
  state' = IF <<state[s], next>> \in Legal THEN Set(state, s, next) ELSE state

\* hostKeyResp exists in SSH sessions only.
IsSSH(s) == events[s] # <<>> /\ events[s][1] = "connecting"

Publish(s, e) == events' = [events EXCEPT ![s] = Append(@, e)]
-----------------------------------------------------------------------------
(* Creating a session.                                                      *)

\* The shell is spawned before the session is entered into the map.
CreateLocal(s) ==
  /\ "local" \in Kinds
  /\ Goto(s, "new", "attach")
  /\ state' = Set(state, s, "running")
  /\ sessions' = sessions \cup {s}
  /\ stream' = stream \cup {s}
  /\ conn' = Set(conn, s, "open")
  /\ UNCHANGED <<events, hostKeyResp, known, closeVars, fsVars, attached,
                 readVars, pumpVars>>

CreateSSH(s) ==
  /\ "ssh" \in Kinds
  /\ Goto(s, "new", "dial")
  /\ state' = Set(state, s, "connecting")
  /\ sessions' = sessions \cup {s}
  /\ Publish(s, "connecting")
  /\ UNCHANGED <<hostKeyResp, known, liveVars, closeVars, fsVars, attached,
                 readVars, pumpVars>>

\* TCP and key exchange: unreachable or a mismatching key, a key on record,
\* or one the user has to be asked about.
Dial(s) ==
  /\ \/ Goto(s, "dial", "refused")
     \/ known /\ Goto(s, "dial", "auth")
     \/ ~known /\ Goto(s, "dial", "prompt")
  /\ UNCHANGED <<mapVars, hostKeyResp, known, liveVars, closeVars, fsVars,
                 attached, readVars, pumpVars>>

\* The select of sshHostKeyVerifier: an answer ("trust" is recorded first, and
\* may fail to be), Close, or the timeout.
AwaitHostKey(s) ==
  /\ \/ /\ hostKeyResp[s] \in {"trust", "once"}
        /\ Goto(s, "prompt", "auth")
        /\ known' = (known \/ hostKeyResp[s] = "trust")
        /\ hostKeyResp' = Set(hostKeyResp, s, "empty")
     \/ /\ hostKeyResp[s] \in {"trust", "cancel"}
        /\ Goto(s, "prompt", "refused")
        /\ hostKeyResp' = Set(hostKeyResp, s, "empty")
        /\ UNCHANGED known
     \/ Goto(s, "prompt", "refused") /\ UNCHANGED <<known, hostKeyResp>>
  /\ UNCHANGED <<mapVars, liveVars, closeVars, fsVars, attached, readVars, pumpVars>>

\* Authentication and the shell request: Open returns.
Authenticate(s) ==
  /\ \/ Goto(s, "auth", "refused") /\ UNCHANGED conn
     \/ Goto(s, "auth", "dialled") /\ conn' = Set(conn, s, "open")
  /\ UNCHANGED <<mapVars, hostKeyResp, known, stream, closeVars, fsVars,
                 attached, readVars, pumpVars>>

\* connectSSH looks the session up again: closed meanwhile?
StillPresent(s) ==
  /\ IF s \in sessions
     THEN (Goto(s, "dialled", "handoff") \/ Goto(s, "refused", "fail")) /\ UNCHANGED conn
     ELSE \/ Goto(s, "dialled", "done") /\ conn' = Set(conn, s, "closed")
          \/ Goto(s, "refused", "done") /\ UNCHANGED conn
  /\ UNCHANGED <<mapVars, hostKeyResp, known, stream, closeVars, fsVars,
                 attached, readVars, pumpVars>>

ConnectFails(s) ==
  /\ Goto(s, "fail", "done")
  /\ sessions' = sessions \ {s}
  /\ TransitionTo(s, "error")
  /\ Publish(s, "error")
  /\ UNCHANGED <<hostKeyResp, known, liveVars, closeVars, fsVars, attached,
                 readVars, pumpVars>>

HandOff(s) ==
  /\ Goto(s, "handoff", "enter")
  /\ stream' = stream \cup {s}
  /\ UNCHANGED <<mapVars, hostKeyResp, known, conn, closeVars, fsVars,
                 attached, readVars, pumpVars>>

EnterRunning(s) ==
  /\ Goto(s, "enter", "attach")
  /\ TransitionTo(s, "running")
  /\ UNCHANGED <<sessions, events, hostKeyResp, known, liveVars, closeVars,
                 fsVars, attached, readVars, pumpVars>>

AttachObservers(s) ==
  /\ Goto(s, "attach", "start")
  /\ attached' = Set(attached, s, "yes")
  /\ UNCHANGED <<mapVars, hostKeyResp, known, liveVars, closeVars, fsVars,
                 readVars, pumpVars>>

\* wg.Add(2); go readLoop; go pump.
StartLoops(s) ==
  /\ Goto(s, "start", "announce")
  /\ reader' = Set(reader, s, "read")
  /\ pump' = Set(pump, s, "loop")
  /\ UNCHANGED <<mapVars, hostKeyResp, known, liveVars, closeVars, fsVars,
                 attached, readCh, readChClosed, got, panicked, acc, swallowed, shown>>

AnnounceRunning(s) ==
  /\ Goto(s, "announce", "done")
  /\ Publish(s, "running")
  /\ UNCHANGED <<sessions, state, hostKeyResp, known, liveVars, closeVars,
                 fsVars, attached, readVars, pumpVars>>
-----------------------------------------------------------------------------
(* The user.                                                                *)

\* A non-blocking send on a channel of capacity one.
RespondHostKey(s, a) ==
  /\ s \in sessions
  /\ IsSSH(s)
  /\ hostKeyResp[s] = "empty"
  /\ hostKeyResp' = Set(hostKeyResp, s, a)
  /\ UNCHANGED <<mapVars, creator, known, liveVars, closeVars, fsVars,
                 attached, readVars, pumpVars>>

\* Close of a session in the map: its stream is closed, or, while there is no
\* stream, the connect is cancelled in a second critical section.  (Closing
\* cancelCh only ends the wait for a host key answer early.)
CloseStream(s) ==
  /\ s \in sessions
  /\ IF s \in stream
     THEN conn' = Set(conn, s, "closed") /\ UNCHANGED closer
     ELSE closer' = closer \cup {s} /\ UNCHANGED conn

Close(s) ==
  /\ CloseStream(s)
  /\ UNCHANGED <<mapVars, connVars, stream, closeAll, ids, toClose, fsVars, attached,
                 readVars, pumpVars>>

CloseCancel(s) ==
  /\ s \in closer
  /\ closer' = closer \ {s}
  /\ sessions' = sessions \ {s}
  /\ UNCHANGED <<state, events, creator, hostKeyResp, known, liveVars, closeAll,
                 ids, toClose, fsVars, attached, readVars, pumpVars>>

\* FileSystem looks the session up, then opens the subsystem under live.mu.
FileSystem(s) ==
  /\ FileBrowser
  /\ s \in sessions /\ s \in stream
  /\ fsCall' = fsCall \cup {s}
  /\ UNCHANGED <<mapVars, connVars, liveVars, closeVars, fs, attached, readVars, pumpVars>>

OpenFileSystem(s) ==
  /\ s \in fsCall
  /\ fsCall' = fsCall \ {s}
  /\ \/ IsSSH(s) /\ conn[s] \in {"open", "ended"} /\ fs' = fs \cup {s}
     \/ UNCHANGED fs
  /\ UNCHANGED <<mapVars, connVars, liveVars, closeVars, attached, readVars, pumpVars>>

\* The app quits: list the sessions, close each, wait for the goroutines.
CloseAll ==
  /\ closeAll = "idle"
  /\ closeAll' = "closing"
  /\ ids' = sessions
  /\ toClose' = sessions
  /\ UNCHANGED <<mapVars, connVars, liveVars, closer, fsVars, attached, readVars, pumpVars>>

CloseNext(s) ==
  /\ closeAll = "closing"
  /\ s \in toClose
  /\ toClose' = toClose \ {s}
  /\ \/ CloseStream(s)
     \/ s \notin sessions /\ UNCHANGED <<conn, closer>>
  /\ UNCHANGED <<mapVars, connVars, stream, closeAll, ids, fsVars, attached, readVars, pumpVars>>

Counted(s) == reader[s] \in {"read", "send"} \/ pump[s] \notin {"off", "done"}

CloseAllWait ==
  /\ \/ closeAll = "closing" /\ toClose = {} /\ closer = {} /\ closeAll' = "waiting"
     \/ closeAll = "waiting" /\ (\A s \in Sessions : ~Counted(s)) /\ closeAll' = "done"
     \/ closeAll = "waiting" /\ closeAll' = "timeout"
  /\ UNCHANGED <<mapVars, connVars, liveVars, closer, ids, toClose, fsVars, attached,
                 readVars, pumpVars>>
-----------------------------------------------------------------------------
(* readLoop.                                                                *)

ReadChunk(s) ==
  /\ reader[s] = "read"
  /\ conn[s] = "open"
  /\ got[s] < MaxChunks
  /\ got' = Add(got, s, 1)
  /\ reader' = Set(reader, s, "send")
  /\ UNCHANGED <<mapVars, connVars, liveVars, closeVars, fsVars, attached, readCh,
                 readChClosed, pumpVars>>

SendChunk(s) ==
  /\ reader[s] = "send"
  /\ readCh[s] < ChanCap
  /\ readCh' = Add(readCh, s, 1)
  /\ reader' = Set(reader, s, "read")
  /\ UNCHANGED <<mapVars, connVars, liveVars, closeVars, fsVars, attached,
                 readChClosed, got, pumpVars>>

ReadFails(s) ==
  /\ reader[s] = "read"
  /\ conn[s] \in {"ended", "closed"}
  /\ readChClosed' = readChClosed \cup {s}
  /\ reader' = Set(reader, s, "done")
  /\ UNCHANGED <<mapVars, connVars, liveVars, closeVars, fsVars, attached, readCh,
                 got, pumpVars>>
-----------------------------------------------------------------------------
(* pump.                                                                    *)

Receive(s) ==
  /\ PumpGoto(s, "loop", "process")
  /\ readCh[s] > 0
  /\ readCh' = [readCh EXCEPT ![s] = @ - 1]
  /\ UNCHANGED <<mapVars, connVars, liveVars, closeVars, fsVars, attached, reader,
                 readChClosed, got, panicked, acc, swallowed, shown>>

\* A middleware keeps the chunk, or the taps see it and it is accumulated and,
\* at the size threshold, published.
Process(s) ==
  /\ PumpGoto(s, "process", "loop")
  /\ \/ swallowed' = Add(swallowed, s, 1) /\ UNCHANGED <<acc, shown>>
     \/ acc' = Add(acc, s, 1) /\ UNCHANGED <<swallowed, shown>>
     \/ /\ acc' = Set(acc, s, 0)
        /\ shown' = Add(shown, s, acc[s] + 1)
        /\ UNCHANGED swallowed
  /\ UNCHANGED <<mapVars, connVars, liveVars, closeVars, fsVars, attached, readVars, panicked>>

\* The 16 ms ticker.
Flush(s) ==
  /\ pump[s] = "loop"
  /\ acc[s] > 0
  /\ acc' = Set(acc, s, 0)
  /\ shown' = Add(shown, s, acc[s])
  /\ UNCHANGED <<mapVars, connVars, liveVars, closeVars, fsVars, attached, readVars,
                 pump, panicked, swallowed>>

\* Mutant: the loop is left as soon as the channel is closed.
LeaveAtClose(s) ==
  /\ PumpGoto(s, "loop", "wait")
  /\ s \in readChClosed
  /\ acc' = Set(acc, s, 0)
  /\ shown' = Add(shown, s, acc[s])
  /\ UNCHANGED <<mapVars, connVars, liveVars, closeVars, fsVars, attached, readVars,
                 panicked, swallowed>>

\* readCh is closed and drained: leave the loop with a last flush.
DrainEnds(s) ==
  /\ PumpGoto(s, "loop", "wait")
  /\ s \in readChClosed /\ readCh[s] = 0
  /\ acc' = Set(acc, s, 0)
  /\ shown' = Add(shown, s, acc[s])
  /\ UNCHANGED <<mapVars, connVars, liveVars, closeVars, fsVars, attached, readVars,
                 panicked, swallowed>>

\* The deferred recover; from here the steps are those of the normal end.
Panic(s) ==
  /\ Panics
  /\ PumpGoto(s, "process", "closefs")
  /\ panicked' = panicked \cup {s}
  /\ UNCHANGED <<mapVars, connVars, liveVars, closeVars, fsVars, attached, readVars,
                 acc, swallowed, shown>>

WaitExit(s) ==
  /\ PumpGoto(s, "wait", "closefs")
  /\ conn[s] \in {"ended", "closed"}
  /\ UNCHANGED <<mapVars, connVars, liveVars, closeVars, fsVars, attached, readVars,
                 panicked, acc, swallowed, shown>>

CloseFileSystem(s) ==
  /\ PumpGoto(s, "closefs", "close")
  /\ fs' = fs \ {s}
  /\ UNCHANGED <<mapVars, connVars, liveVars, closeVars, fsCall, attached, readVars,
                 panicked, acc, swallowed, shown>>

PumpClose(s) ==
  /\ PumpGoto(s, "close", "remove")
  /\ conn' = Set(conn, s, "closed")
  /\ UNCHANGED <<mapVars, connVars, stream, closeVars, fsVars, attached, readVars,
                 panicked, acc, swallowed, shown>>


PumpRemove(s) ==
  /\ PumpGoto(s, "remove", "detach")
  /\ sessions' = sessions \ {s}
  /\ UNCHANGED <<state, events, connVars, liveVars, closeVars, fsVars, attached,
                 readVars, panicked, acc, swallowed, shown>>

DetachObservers(s) ==
  /\ PumpGoto(s, "detach", "publish")
  /\ attached' = Set(attached, s, "gone")
  /\ UNCHANGED <<mapVars, connVars, liveVars, closeVars, fsVars, readVars,
                 panicked, acc, swallowed, shown>>

PublishEnd(s) ==
  LET end == IF s \in panicked THEN "error" ELSE "closed" IN
  /\ PumpGoto(s, "publish", "done")
  /\ TransitionTo(s, end)
  /\ Publish(s, end)
  /\ UNCHANGED <<sessions, connVars, liveVars, closeVars, fsVars, attached, readVars,
                 panicked, acc, swallowed, shown>>
-----------------------------------------------------------------------------
\* The shell exits, or the connection is lost.
RemoteEnds(s) ==
  /\ conn[s] = "open"
  /\ conn' = Set(conn, s, "ended")
  /\ UNCHANGED <<mapVars, connVars, stream, closeVars, fsVars, attached, readVars, pumpVars>>

Connect(s) ==
  \/ Dial(s) \/ AwaitHostKey(s) \/ Authenticate(s) \/ StillPresent(s) \/ ConnectFails(s)
  \/ HandOff(s) \/ EnterRunning(s) \/ AttachObservers(s) \/ StartLoops(s) \/ AnnounceRunning(s)

ReadLoop(s) == SendChunk(s) \/ ReadFails(s)

Pump(s) ==
  \/ Receive(s) \/ Process(s) \/ DrainEnds(s) \/ WaitExit(s) \/ CloseFileSystem(s)
  \/ PumpClose(s) \/ PumpRemove(s) \/ DetachObservers(s) \/ PublishEnd(s)

User(s) ==
  \/ CreateLocal(s) \/ CreateSSH(s) \/ Close(s) \/ FileSystem(s)
  \/ \E a \in HostKeyAnswers : RespondHostKey(s, a)

Next ==
  \/ \E s \in Sessions :
       \/ User(s) \/ Connect(s) \/ CloseCancel(s) \/ OpenFileSystem(s)
       \/ ReadChunk(s) \/ ReadLoop(s) \/ Pump(s) \/ Flush(s) \/ Panic(s)
       \/ CloseNext(s) \/ RemoteEnds(s)
  \/ CloseAll \/ CloseAllWait

Spec == Init /\ [][Next]_vars

\* Goroutines that can run do; dialling, prompting and waiting are bounded by
\* timeouts.  Neither the remote end nor the user owes anybody a step.
FairSpec ==
  /\ Spec
  /\ \A s \in Sessions :
       /\ WF_vars(Connect(s)) /\ WF_vars(ReadLoop(s)) /\ WF_vars(Pump(s))
       /\ WF_vars(CloseCancel(s)) /\ WF_vars(CloseNext(s))
  /\ WF_vars(CloseAllWait)
-----------------------------------------------------------------------------
(* Properties.                                                              *)

Published(s, e) == \E i \in DOMAIN events[s] : events[s][i] = e

\* Every chunk read from the stream is still on its way, was kept by a
\* middleware, or reached the terminal.
InFlight(s) == (IF reader[s] = "send" THEN 1 ELSE 0) + readCh[s]
                 + (IF pump[s] = "process" THEN 1 ELSE 0)
Conserved ==
  \A s \in Sessions \ panicked : got[s] = InFlight(s) + acc[s] + swallowed[s] + shown[s]

\* All output of a session reaches the terminal before its closed event, also
\* when a Close of the user, the shell's exit and a full channel coincide.
NothingLostAtClose ==
  \A s \in Sessions : Published(s, "closed") => got[s] = swallowed[s] + shown[s]

\* A session ends once: one final event, and it tells the entity's state,
\* although every TransitionTo error is ignored.
OneTruthfulEnd ==
  \A s \in Sessions :
    /\ \A i, j \in DOMAIN events[s] : {events[s][i], events[s][j]} \subseteq Final => i = j
    /\ \A e \in Final : Published(s, e) => state[s] = e

\* A session whose stream ended leaves the map, and its tab is told.
EndedSessionsLeave ==
  \A s \in Sessions :
    conn[s] \in {"ended", "closed"} ~> (s \notin sessions /\ creator[s] = "done")

\* A connect settles although the user never answers the host key prompt.
ConnectSettles == \A s \in Sessions : creator[s] = "dial" ~> creator[s] = "done"

\* Quitting is never held up.
CloseAllReturns == closeAll = "closing" ~> closeAll \in {"done", "timeout"}

-----------------------------------------------------------------------------
(* What comments of the code say and the code does not do.                  *)

\* ssh.go: a stream that won the race against Close is not leaked: an open
\* one that was handed over can be reached through the map.
NoLeakedStream ==
  \A s \in Sessions :
    (creator[s] = "done" /\ conn[s] = "open" /\ pump[s] \in {"off", "loop"}) => s \in sessions

\* pump.go: per-session event ordering: nothing follows the final event.
FinalEventIsLast ==
  \A s \in Sessions : \A i \in DOMAIN events[s] :
    events[s][i] \in Final => i = Len(events[s])

\* service.go: the cached SFTP subsystem is released before the stream closes.
FileSystemReleased == \A s \in Sessions : pump[s] = "done" => s \notin fs

\* ssh.go: an answer that is not awaited is refused.
AnswersAreAwaited ==
  [][\A s \in Sessions :
       (hostKeyResp[s] = "empty" /\ hostKeyResp'[s] # "empty") => creator[s] = "prompt"]_vars

\* service.go: CloseAll returns before the grace is over only when the pumps
\* of the sessions it closed have finished.
CloseAllWaits ==
  closeAll = "done" => \A s \in ids : s \in stream => pump[s] = "done"

\* pump.go: readLoop forwards until Read fails, then closes the channel.
ReaderEnds ==
  \A s \in Sessions : (reader[s] # "off" /\ conn[s] = "closed") ~> reader[s] = "done"
=============================================================================
