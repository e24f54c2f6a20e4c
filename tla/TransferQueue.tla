--------------------------- MODULE TransferQueue ---------------------------
(***************************************************************************)
(* Package transfer, queue.go, task.go and the task half of service.go: the *)
(* SFTP uploads and downloads of one session.  A call of Upload or Download *)
(* registers a task, announces it and hands it to the session's queue; at   *)
(* most MaxConcurrent tasks are copied at once, in goroutines that go on    *)
(* with the next waiting task.  The user cancels tasks in any state.        *)
(*                                                                          *)
(* A task's state changes under t.mu and is published in two further steps: *)
(* a snapshot under t.mu, and the Publish call outside every lock.  A file  *)
(* is a number of chunks, a directory a number of files; the progress       *)
(* events and the names are left out.                                       *)
(***************************************************************************)
EXTENDS Naturals, Sequences, FiniteSets

CONSTANTS
  Tasks,          \* the tasks that calls of Upload and Download start
  Cancels,        \* calls of Cancel
  MaxConcurrent,  \* maxConcurrentPerSession (2 in the code)
  MaxFiles,       \* bound: files of one task; a directory may have none
  MaxChunks,      \* bound: chunks one task copies, over all of its files
  None

ASSUME TasksAssumption == IsFiniteSet(Tasks)
ASSUME LimitAssumption == MaxConcurrent \in Nat \ {0}
ASSUME BoundsAssumption == MaxFiles \in Nat /\ MaxChunks \in Nat
ASSUME NoneAssumption == None \notin Tasks \cup {"queued", "running", "done", "failed", "canceled"}

VARIABLES
  pc, left, copied, said,  \* a task's goroutine: files left, chunks copied, snapshot
  state, canceled,         \* info.State; tasks whose context is cancelled
  running, pending,        \* the session's queue
  cpc, target, heard,      \* calls of Cancel: task, snapshot
  shown,                   \* what the last transfer:task event said of a task
  early, late,             \* history: cancelled before its turn; effects after the cancel
  had                      \* history: the number of files the task was started with

workVars == <<pc, left, copied, said>>
queueVars == <<running, pending>>
cancelVars == <<cpc, target, heard>>
vars == <<workVars, state, canceled, queueVars, cancelVars, shown, early, late, had>>

Final == {"done", "failed", "canceled"}
States == {"queued", "running"} \cup Final
Telling == {"tellQueued", "tellRunning", "tellFinal"}
\* The steps of a goroutine that occupies one of the queue's slots.
Working == {"run", "tellRunning", "check", "open", "poll", "read", "tellFinal", "next"}
PCs == {"new", "tellQueued", "enqueue", "queued", "finished"} \cup Working

TypeOK ==
  /\ pc \in [Tasks -> PCs]
  /\ left \in [Tasks -> 0..MaxFiles]
  /\ copied \in [Tasks -> 0..MaxChunks]
  /\ said \in [Tasks -> States \cup {None}]
  /\ state \in [Tasks -> States \cup {None}]
  /\ canceled \subseteq Tasks
  /\ running \in 0..MaxConcurrent
  /\ pending \in Seq(Tasks)
  /\ cpc \in [Cancels -> {"idle", "look", "flip", "snap", "publish", "done"}]
  /\ target \in [Cancels -> Tasks \cup {None}]
  /\ heard \in [Cancels -> States \cup {None}]
  /\ shown \in [Tasks -> States \cup {None}]
  /\ early \subseteq Tasks
  /\ late \in [Tasks -> Nat]
  /\ had \in [Tasks -> 0..MaxFiles]

Init ==
  /\ pc = [t \in Tasks |-> "new"]
  /\ left = [t \in Tasks |-> 0]
  /\ copied = [t \in Tasks |-> 0]
  /\ said = [t \in Tasks |-> None]
  /\ state = [t \in Tasks |-> None]
  /\ canceled = {}
  /\ running = 0
  /\ pending = <<>>
  /\ cpc = [k \in Cancels |-> "idle"]
  /\ target = [k \in Cancels |-> None]
  /\ heard = [k \in Cancels |-> None]
  /\ shown = [t \in Tasks |-> None]
  /\ early = {}
  /\ late = [t \in Tasks |-> 0]
  /\ had = [t \in Tasks |-> 0]
-----------------------------------------------------------------------------
(* Starting a task.                                                         *)

Goto(t, from, to) ==
  /\ pc[t] = from
  /\ pc' = [pc EXCEPT ![t] = to]

\* start: the task is built and registered; Cancel finds it from here on.
Start(t) ==
  /\ Goto(t, "new", "tellQueued")
  /\ \E n \in 0..MaxFiles : /\ left' = [left EXCEPT ![t] = n]
                            /\ had' = [had EXCEPT ![t] = n]
  /\ state' = [state EXCEPT ![t] = "queued"]
  /\ UNCHANGED <<copied, said, canceled, queueVars, cancelVars, shown, early, late>>

\* publishTask: the snapshot, and the call that delivers it.
Snapshot(t) ==
  /\ pc[t] \in Telling
  /\ said[t] = None
  /\ said' = [said EXCEPT ![t] = state[t]]
  /\ UNCHANGED <<pc, left, copied, state, canceled, queueVars, cancelVars, shown, early, late, had>>

AfterTelling == [at \in Telling |->
  IF at = "tellQueued" THEN "enqueue" ELSE IF at = "tellRunning" THEN "check" ELSE "next"]

Publish(t) ==
  /\ pc[t] \in Telling
  /\ said[t] # None
  /\ Goto(t, pc[t], AfterTelling[pc[t]])
  /\ shown' = [shown EXCEPT ![t] = said[t]]
  /\ said' = [said EXCEPT ![t] = None]
  /\ UNCHANGED <<left, copied, state, canceled, queueVars, cancelVars, early, late, had>>

Enqueue(t) ==
  /\ \/ /\ running < MaxConcurrent
        /\ Goto(t, "enqueue", "run")
        /\ running' = running + 1
        /\ UNCHANGED pending
     \/ /\ running = MaxConcurrent
        /\ Goto(t, "enqueue", "queued")
        /\ pending' = Append(pending, t)
        /\ UNCHANGED running
  /\ UNCHANGED <<left, copied, said, state, canceled, cancelVars, shown, early, late, had>>

\* Mutant: the goroutine ends without looking for a waiting task.
NextForgets(t) ==
  /\ Goto(t, "next", "finished")
  /\ running' = running - 1
  /\ UNCHANGED <<left, copied, said, state, canceled, pending, cancelVars, shown, early, late, had>>

\* execute, after run: the goroutine goes on with the first waiting task, or
\* gives its slot back.
NextTask(t) ==
  /\ pc[t] = "next"
  /\ \/ /\ pending = <<>>
        /\ pc' = [pc EXCEPT ![t] = "finished"]
        /\ running' = running - 1
        /\ UNCHANGED pending
     \/ /\ pending # <<>>
        /\ pc' = [pc EXCEPT ![t] = "finished", ![Head(pending)] = "run"]
        /\ pending' = Tail(pending)
        /\ UNCHANGED running
  /\ UNCHANGED <<left, copied, said, state, canceled, cancelVars, shown, early, late, had>>
-----------------------------------------------------------------------------
(* runCopy.                                                                 *)

\* Unconditional: a task cancelled in the queue is running again for a moment.
SetRunning(t) ==
  /\ Goto(t, "run", "tellRunning")
  /\ state' = [state EXCEPT ![t] = "running"]
  /\ UNCHANGED <<left, copied, said, canceled, queueVars, cancelVars, shown, early, late, had>>

Settle(t, from, final) ==
  /\ Goto(t, from, "tellFinal")
  /\ state' = [state EXCEPT ![t] = final]
  /\ UNCHANGED <<left, copied, said, canceled, queueVars, cancelVars, shown, early, late, had>>

Proceed(t, from, to) ==
  /\ Goto(t, from, to)
  /\ UNCHANGED <<left, copied, said, state, canceled, queueVars, cancelVars, shown, early, late, had>>

\* The head of the loop over the files; after the last one nobody asks
\* whether the task was cancelled.
CheckFile(t) ==
  \/ left[t] = 0 /\ Settle(t, "check", "done")
  \/ left[t] > 0 /\ t \in canceled /\ Settle(t, "check", "canceled")
  \/ left[t] > 0 /\ t \notin canceled /\ Proceed(t, "check", "open")

\* A file is opened or a chunk written for a task cancelled meanwhile.
Overdue(t) == late' = [late EXCEPT ![t] = IF t \in canceled THEN @ + 1 ELSE @]

\* The directories, the source and the destination of the next file.
Open(t) ==
  \/ /\ Goto(t, "open", "poll")
     /\ Overdue(t)
     /\ UNCHANGED <<left, copied, said, state, canceled, queueVars, cancelVars, shown, early, had>>
  \/ Settle(t, "open", "failed")

\* Mutant: the context is looked at once per file.
PollNever(t) == Proceed(t, "poll", "read")

\* The head of the copy loop.
Poll(t) ==
  \/ t \in canceled /\ Settle(t, "poll", "canceled")
  \/ t \notin canceled /\ Proceed(t, "poll", "read")

\* One read and the write of what it brought: the end of the file, an error,
\* or more to come, each with data or (but for the last) without.
Read(t) ==
  \/ /\ \/ Goto(t, "read", "poll") /\ UNCHANGED <<left, state>>
        \/ Goto(t, "read", "check") /\ left' = [left EXCEPT ![t] = @ - 1] /\ UNCHANGED state
        \/ Goto(t, "read", "tellFinal") /\ state' = [state EXCEPT ![t] = "failed"] /\ UNCHANGED left
     /\ copied[t] < MaxChunks
     /\ copied' = [copied EXCEPT ![t] = @ + 1]
     /\ Overdue(t)
     /\ UNCHANGED <<said, canceled, queueVars, cancelVars, shown, early, had>>
  \/ /\ Goto(t, "read", "check")
     /\ left' = [left EXCEPT ![t] = @ - 1]
     /\ UNCHANGED <<copied, said, state, canceled, queueVars, cancelVars, shown, early, late, had>>
  \/ Settle(t, "read", "failed")
-----------------------------------------------------------------------------
(* Cancel.                                                                  *)

Turn(k, from, to) ==
  /\ cpc[k] = from
  /\ cpc' = [cpc EXCEPT ![k] = to]

\* Before its turn to copy: runCopy has not looked at its context yet.
Waiting == {"tellQueued", "enqueue", "queued", "run", "tellRunning"}

\* Mutant: a queued task is only flipped, its context is left alone.
CancelOnlyFlips(k, t) ==
  /\ Turn(k, "idle", "look")
  /\ pc[t] # "new"
  /\ target' = [target EXCEPT ![k] = t]
  /\ canceled' = IF state[t] = "queued" THEN canceled ELSE canceled \cup {t}
  /\ early' = IF state[t] = "queued" THEN early \cup {t} ELSE early
  /\ UNCHANGED <<workVars, state, queueVars, heard, shown, late, had>>

\* t.cancel().
Cancel(k, t) ==
  /\ Turn(k, "idle", "look")
  /\ pc[t] # "new"
  /\ target' = [target EXCEPT ![k] = t]
  /\ canceled' = canceled \cup {t}
  /\ early' = IF pc[t] \in Waiting THEN early \cup {t} ELSE early
  /\ UNCHANGED <<workVars, state, queueVars, heard, shown, late, had>>

\* The snapshot that decides whether the state is flipped here and now.
Look(k) ==
  /\ \/ Turn(k, "look", "flip") /\ state[target[k]] = "queued"
     \/ Turn(k, "look", "done") /\ state[target[k]] # "queued"
  /\ UNCHANGED <<workVars, state, canceled, queueVars, target, heard, shown, early, late, had>>

Flip(k) ==
  /\ Turn(k, "flip", "snap")
  /\ state' = [state EXCEPT ![target[k]] = "canceled"]
  /\ UNCHANGED <<workVars, canceled, queueVars, target, heard, shown, early, late, had>>

CancelSnapshot(k) ==
  /\ Turn(k, "snap", "publish")
  /\ heard' = [heard EXCEPT ![k] = state[target[k]]]
  /\ UNCHANGED <<workVars, state, canceled, queueVars, target, shown, early, late, had>>

CancelPublish(k) ==
  /\ Turn(k, "publish", "done")
  /\ shown' = [shown EXCEPT ![target[k]] = heard[k]]
  /\ UNCHANGED <<workVars, state, canceled, queueVars, target, heard, early, late, had>>
-----------------------------------------------------------------------------
Work(t) ==
  \/ Snapshot(t) \/ Publish(t) \/ Enqueue(t) \/ NextTask(t)
  \/ SetRunning(t) \/ CheckFile(t) \/ Open(t) \/ Poll(t) \/ Read(t)

CancelStep(k) == Look(k) \/ Flip(k) \/ CancelSnapshot(k) \/ CancelPublish(k)

Next ==
  \/ \E t \in Tasks : Start(t) \/ Work(t)
  \/ \E k \in Cancels : CancelStep(k) \/ \E t \in Tasks : Cancel(k, t)

Spec == Init /\ [][Next]_vars

\* Goroutines are scheduled, and calls on the file systems return.
FairSpec == Spec /\ WF_vars(\E t \in Tasks : Work(t)) /\ WF_vars(\E k \in Cancels : CancelStep(k))
-----------------------------------------------------------------------------
(* Properties.                                                              *)

\* No slot is lost and none is idle while a task waits, whatever tasks are
\* cancelled, fail or end at the moment others are started; and a task waits
\* in the queue exactly once.
SlotsInUse ==
  /\ running = Cardinality({t \in Tasks : pc[t] \in Working})
  /\ pending # <<>> => running = MaxConcurrent
  /\ {t \in Tasks : pc[t] = "queued"} = {pending[i] : i \in DOMAIN pending}
  /\ \A i, j \in DOMAIN pending : pending[i] = pending[j] => i = j

\* A cancelled task copies nothing if it was cancelled before its turn, and
\* otherwise opens at most one more file or writes at most one more chunk.
CancelTakesHold ==
  \A t \in Tasks : late[t] <= IF t \in early THEN 0 ELSE 1

\* Cancel looks and flips in two steps while the queue may start, run and end
\* the task: still, the state of a task that was started with files is final
\* once its goroutine left it, "done" like any other, and a task cancelled
\* before its turn never counts as done.
SettledStay ==
  \A t \in Tasks :
    (pc[t] = "finished" /\ had[t] > 0) =>
      /\ state'[t] = state[t]
      /\ t \in early => state[t] = "canceled"
CancelIsHarmless == [][SettledStay]_vars

\* Every started task settles, however many are ahead of it.
TasksSettle == \A t \in Tasks : (pc[t] # "new") ~> (pc[t] = "finished" /\ state[t] \in Final)
-----------------------------------------------------------------------------
(* What the code's comments promise and the code does not do.               *)

\* service.go: Cancel makes the UI reflect the cancellation immediately.  When
\* all is over, the last event about a task that had files tells its state.
ShownIsTrue ==
  \A t \in Tasks :
    (pc[t] = "finished" /\ had[t] > 0 /\ \A k \in Cancels : target[k] = t => cpc[k] = "done")
      => shown[t] = state[t]
=============================================================================
