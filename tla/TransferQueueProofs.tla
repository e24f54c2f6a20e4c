------------------------- MODULE TransferQueueProofs -------------------------
(***************************************************************************)
(* TransferQueue for every number of tasks, cancels and slots: the slots    *)
(* are accounted for, a cancel takes hold within one file operation, and    *)
(* the race between Cancel and the queue settles on one state.              *)
(* FilePanes, the page that starts tasks, uses the queue as specified, and  *)
(* its moves never delete a source that has not arrived.                    *)
(***************************************************************************)
EXTENDS FilePanes, FiniteSetTheorems, TLAPS

\* What the types of the next state rest on.
LocalsInv ==
  /\ \A t \in Tasks : pc[t] \in {"open", "poll", "read"} => left[t] > 0
  /\ \A k \in Cancels : cpc[k] # "idle" => target[k] \in Tasks

TypeInv == TypeOK /\ LocalsInv /\ SlotsInUse

Occupied == {t \in Tasks : pc[t] \in Working}

LEMMA InitType == Init => TypeInv
<1> SUFFICES ASSUME Init PROVE TypeInv
  OBVIOUS
<1>1. Occupied = {}
  BY DEF Occupied, Init, Working
<1>2. Cardinality(Occupied) = 0
  BY <1>1, FS_EmptySet
<1>3. TypeOK
  BY LimitAssumption, BoundsAssumption DEF Init, TypeOK, PCs, States
<1>4. LocalsInv
  BY DEF Init, LocalsInv
<1>5. SlotsInUse
  BY <1>2 DEF Init, SlotsInUse, Occupied
<1> QED
  BY <1>3, <1>4, <1>5 DEF TypeInv

\* A goroutine that stays in its slot, or stays out of it.
LEMMA SameSlots ==
  ASSUME TypeInv, UNCHANGED queueVars, NEW t \in Tasks, NEW to \in PCs,
         pc' = [pc EXCEPT ![t] = to],
         pc[t] \in Working <=> to \in Working,
         pc[t] # "queued", to # "queued"
  PROVE  SlotsInUse'
<1>1. Occupied' = Occupied
  BY DEF Occupied, TypeInv, TypeOK
<1>2. {u \in Tasks : pc'[u] = "queued"} = {u \in Tasks : pc[u] = "queued"}
  BY DEF TypeInv, TypeOK
<1>3. running' = running /\ pending' = pending
  BY DEF queueVars
<1>4. running' = Cardinality(Occupied')
  BY <1>1, <1>3 DEF TypeInv, SlotsInUse, Occupied
<1> QED
  BY <1>2, <1>3, <1>4 DEF TypeInv, SlotsInUse, Occupied

LEMMA SamePC ==
  ASSUME TypeInv, UNCHANGED <<pc, queueVars>>
  PROVE  SlotsInUse'
  BY DEF TypeInv, SlotsInUse, queueVars

\* Taking a slot and leaving it.
LEMMA TakeSlot ==
  ASSUME TypeInv, NEW t \in Tasks, pc[t] = "enqueue", running < MaxConcurrent,
         pc' = [pc EXCEPT ![t] = "run"], running' = running + 1, pending' = pending
  PROVE  SlotsInUse'
<1>1. Occupied' = Occupied \cup {t} /\ t \notin Occupied
  BY DEF Occupied, TypeInv, TypeOK, Working
<1>2. Cardinality(Occupied') = Cardinality(Occupied) + 1
  BY <1>1, TasksAssumption, FS_Subset, FS_AddElement DEF Occupied
<1>3. {u \in Tasks : pc'[u] = "queued"} = {u \in Tasks : pc[u] = "queued"}
  BY DEF TypeInv, TypeOK
<1>4. pending = <<>>
  BY LimitAssumption DEF TypeInv, TypeOK, SlotsInUse
<1> QED
  BY <1>2, <1>3, <1>4 DEF TypeInv, TypeOK, SlotsInUse, Occupied

LEMMA LeaveSlot ==
  ASSUME TypeInv, NEW t \in Tasks, pc[t] = "next", pending = <<>>,
         pc' = [pc EXCEPT ![t] = "finished"], running' = running - 1, pending' = pending
  PROVE  SlotsInUse' /\ running' \in 0..MaxConcurrent
<1>1. Occupied' = Occupied \ {t} /\ t \in Occupied
  BY DEF Occupied, TypeInv, TypeOK, Working
<1>2. IsFiniteSet(Occupied)
  BY TasksAssumption, FS_Subset DEF Occupied
<1>3. Cardinality(Occupied') = Cardinality(Occupied) - 1
  BY <1>1, <1>2, FS_RemoveElement
<1>4. Cardinality(Occupied) # 0
  BY <1>1, <1>2, FS_EmptySet
<1>5. {u \in Tasks : pc'[u] = "queued"} = {u \in Tasks : pc[u] = "queued"}
  BY DEF TypeInv, TypeOK
<1>6. running = Cardinality(Occupied) /\ running \in 0..MaxConcurrent
  BY DEF TypeInv, TypeOK, SlotsInUse, Occupied
<1>7. running' = Cardinality(Occupied') /\ running' \in 0..MaxConcurrent
  BY <1>3, <1>4, <1>6, LimitAssumption
<1> QED
  BY <1>5, <1>7 DEF TypeInv, SlotsInUse, Occupied

LEMMA JoinQueue ==
  ASSUME TypeInv, NEW t \in Tasks, pc[t] = "enqueue", running = MaxConcurrent,
         pc' = [pc EXCEPT ![t] = "queued"], running' = running,
         pending' = Append(pending, t)
  PROVE  SlotsInUse'
<1>1. Occupied' = Occupied
  BY DEF Occupied, TypeInv, TypeOK, Working
<1>2. {u \in Tasks : pc'[u] = "queued"} = {u \in Tasks : pc[u] = "queued"} \cup {t}
  BY DEF TypeInv, TypeOK
<1>0. pending \in Seq(Tasks) /\ pending' = Append(pending, t)
  BY DEF TypeInv, TypeOK
<1>3. DOMAIN pending' = DOMAIN pending \cup {Len(pending) + 1}
  BY ONLY <1>0, t \in Tasks
<1>4. /\ pending'[Len(pending) + 1] = t
      /\ \A i \in DOMAIN pending : pending'[i] = pending[i] /\ i # Len(pending) + 1
  BY ONLY <1>0, t \in Tasks
<1>5. {pending'[i] : i \in DOMAIN pending'} = {pending[i] : i \in DOMAIN pending} \cup {t}
  BY <1>3, <1>4
<1>6. \A i \in DOMAIN pending : pending[i] # t
  BY DEF TypeInv, SlotsInUse
<1>7. \A i, j \in DOMAIN pending' : pending'[i] = pending'[j] => i = j
  BY <1>3, <1>4, <1>6 DEF TypeInv, SlotsInUse
<1> QED
  BY <1>1, <1>2, <1>5, <1>7 DEF TypeInv, SlotsInUse, Occupied

LEMMA PassSlot ==
  ASSUME TypeInv, NEW t \in Tasks, pc[t] = "next", pending # <<>>,
         pc' = [pc EXCEPT ![t] = "finished", ![Head(pending)] = "run"],
         running' = running, pending' = Tail(pending)
  PROVE  SlotsInUse' /\ pc' \in [Tasks -> PCs] /\ pending' \in Seq(Tasks)
<1> DEFINE h == Head(pending)
<1>0. 1 \in DOMAIN pending /\ h = pending[1]
  BY DEF TypeInv, TypeOK
<1>1. h \in Tasks /\ pc[h] = "queued" /\ 1 \in DOMAIN pending /\ h = pending[1]
  <2>1. h \in {pending[i] : i \in DOMAIN pending}
    BY <1>0
  <2>2. h \in {u \in Tasks : pc[u] = "queued"}
    BY <2>1 DEF TypeInv, SlotsInUse
  <2> QED
    BY <1>0, <2>2
<1>2. pc' \in [Tasks -> PCs] /\ pending' \in Seq(Tasks)
  <2>1. pc \in [Tasks -> PCs] /\ pending \in Seq(Tasks)
    BY DEF TypeInv, TypeOK
  <2>2. "finished" \in PCs /\ "run" \in PCs
    BY DEF PCs, Working
  <2>3. pc' \in [Tasks -> PCs]
    BY <2>1, <2>2
  <2>4. pending' \in Seq(Tasks)
    BY <2>1
  <2> QED
    BY <2>3, <2>4
<1>3. /\ pc'[t] = "finished" /\ pc'[h] = "run"
      /\ \A u \in Tasks \ {t, h} : pc'[u] = pc[u]
  BY <1>1 DEF TypeInv, TypeOK
<1>4. Occupied' = (Occupied \ {t}) \cup {h} /\ t \in Occupied /\ h \notin Occupied
  BY <1>1, <1>3 DEF Occupied, Working
<1>5. IsFiniteSet(Occupied)
  BY TasksAssumption, FS_Subset DEF Occupied
<1>6. IsFiniteSet(Occupied \ {t}) /\ Cardinality(Occupied \ {t}) = Cardinality(Occupied) - 1
  BY <1>4, <1>5, FS_RemoveElement
<1>7. Cardinality(Occupied') = Cardinality(Occupied \ {t}) + 1
  BY <1>4, <1>6, FS_AddElement
<1>8. Cardinality(Occupied') = Cardinality(Occupied)
  BY <1>5, <1>6, <1>7, FS_CardinalityType
<1>9. /\ DOMAIN pending' = 1..(Len(pending) - 1)
      /\ \A i \in DOMAIN pending' : pending'[i] = pending[i + 1] /\ i + 1 \in DOMAIN pending
  BY DEF TypeInv, TypeOK
<1>10. {u \in Tasks : pc'[u] = "queued"} = {u \in Tasks : pc[u] = "queued"} \ {h}
  BY <1>1, <1>3
<1>11. \A i, j \in DOMAIN pending : pending[i] = pending[j] => i = j
  BY DEF TypeInv, SlotsInUse
<1>12. {pending'[i] : i \in DOMAIN pending'} = {pending[i] : i \in DOMAIN pending} \ {h}
  <2>0. pending \in Seq(Tasks) /\ DOMAIN pending = 1..Len(pending) /\ Len(pending) \in Nat
    BY DEF TypeInv, TypeOK
  <2>1. ASSUME NEW i \in DOMAIN pending' PROVE pending'[i] \in {pending[j] : j \in DOMAIN pending} \ {h}
    <3>1. i \in Nat /\ i + 1 # 1 /\ i + 1 \in DOMAIN pending /\ pending'[i] = pending[i + 1]
      BY <1>9, <2>0
    <3> QED
      BY <1>1, <1>11, <3>1
  <2>2. ASSUME NEW i \in DOMAIN pending, pending[i] # h
        PROVE  i - 1 \in DOMAIN pending' /\ pending'[i - 1] = pending[i]
    <3>1. i # 1
      BY <1>1, <2>2
    <3>2. i \in Nat /\ i - 1 \in 1..(Len(pending) - 1) /\ (i - 1) + 1 = i
      BY <2>0, <3>1
    <3>3. i - 1 \in DOMAIN pending'
      BY <1>9, <3>2
    <3>4. pending'[i - 1] = pending[(i - 1) + 1]
      BY <1>9, <3>3
    <3> QED
      BY <3>2, <3>3, <3>4
  <2>3. ASSUME NEW x \in {pending[i] : i \in DOMAIN pending} \ {h}
        PROVE  x \in {pending'[i] : i \in DOMAIN pending'}
    <3>1. PICK i \in DOMAIN pending : x = pending[i] /\ pending[i] # h
      OBVIOUS
    <3> QED
      BY <2>2, <3>1
  <2> QED
    BY <2>1, <2>3
<1>13. \A i, j \in DOMAIN pending' : pending'[i] = pending'[j] => i = j
  BY <1>9, <1>11
<1>14. {u \in Tasks : pc'[u] = "queued"} = {pending'[i] : i \in DOMAIN pending'}
  BY <1>10, <1>12 DEF TypeInv, SlotsInUse
<1>15. running' = Cardinality(Occupied') /\ (pending' # <<>> => running' = MaxConcurrent)
  BY <1>8 DEF TypeInv, SlotsInUse, Occupied
<1> QED
  BY <1>2, <1>13, <1>14, <1>15 DEF SlotsInUse, Occupied, TypeOK

\* Counting an overdue operation keeps the counters numbers.
LEMMA OverdueNat ==
  ASSUME TypeOK, NEW t \in Tasks, Overdue(t)
  PROVE  late' \in [Tasks -> Nat]
<1>1. late \in [Tasks -> Nat] /\ late[t] + 1 \in Nat /\ late[t] \in Nat
  BY DEF TypeOK
<1>2. CASE t \in canceled
  BY <1>1, <1>2 DEF Overdue
<1>3. CASE t \notin canceled
  BY <1>1, <1>3 DEF Overdue
<1> QED
  BY <1>2, <1>3

\* What the end of a task does to the goroutines.
LEMMA HandOver ==
  ASSUME TypeInv, NEW t \in Tasks, NextTask(t)
  PROVE  \A u \in Tasks : \/ pc'[u] = pc[u]
                          \/ pc[u] = "next" /\ pc'[u] = "finished"
                          \/ pc[u] = "queued" /\ pc'[u] = "run"
<1>1. CASE pending = <<>>
  BY <1>1 DEF NextTask, TypeInv, TypeOK
<1>2. CASE pending # <<>>
  <2>1. Head(pending) = pending[1] /\ 1 \in DOMAIN pending
    BY <1>2 DEF TypeInv, TypeOK
  <2>2. Head(pending) \in {pending[i] : i \in DOMAIN pending}
    BY <2>1
  <2>3. Head(pending) \in {u \in Tasks : pc[u] = "queued"}
    BY <2>2 DEF TypeInv, SlotsInUse
  <2>4. pc' = [pc EXCEPT ![t] = "finished", ![Head(pending)] = "run"] /\ pc[t] = "next"
    BY <1>2 DEF NextTask
  <2> QED
    BY <2>3, <2>4 DEF TypeInv, TypeOK
<1> QED
  BY <1>1, <1>2

LEMMA TypeStep == TypeInv /\ [Next]_vars => TypeInv'
<1> SUFFICES ASSUME TypeInv, [Next]_vars PROVE TypeInv'
  OBVIOUS
<1>0. TypeOK /\ LocalsInv /\ SlotsInUse
  BY DEF TypeInv
<1>1. TypeOK' /\ LocalsInv'
  <2> USE <1>0, BoundsAssumption, LimitAssumption
      DEF TypeOK, LocalsInv, PCs, Working, States, Final, Telling, queueVars, cancelVars, workVars
  <2>1. ASSUME NEW t \in Tasks, Start(t) PROVE TypeOK' /\ LocalsInv'
    BY <2>1 DEF Start, Goto
  <2>2. ASSUME NEW t \in Tasks, Snapshot(t) PROVE TypeOK' /\ LocalsInv'
    BY <2>2 DEF Snapshot
  <2>3. ASSUME NEW t \in Tasks, Publish(t) PROVE TypeOK' /\ LocalsInv'
    BY <2>3 DEF Publish, Goto, AfterTelling
  <2>4. ASSUME NEW t \in Tasks, Enqueue(t) PROVE TypeOK' /\ LocalsInv'
    <3>1. pending' = pending \/ pending' = Append(pending, t)
      BY <2>4 DEF Enqueue
    <3>2. pending \in Seq(Tasks)
      OBVIOUS
    <3>3. pending' \in Seq(Tasks)
      BY ONLY <3>1, <3>2, t \in Tasks
    <3>4. running' \in 0..MaxConcurrent
      BY ONLY <1>0, <2>4, LimitAssumption DEF TypeOK, Enqueue
    <3>5. pc' = [pc EXCEPT ![t] = "run"] \/ pc' = [pc EXCEPT ![t] = "queued"]
      BY <2>4 DEF Enqueue, Goto
    <3>6. UNCHANGED <<left, copied, said, state, canceled, cpc, target, heard, shown, early, late, had>>
      BY <2>4 DEF Enqueue
    <3> QED
      BY <3>3, <3>4, <3>5, <3>6
  <2>5. ASSUME NEW t \in Tasks, NextTask(t) PROVE TypeOK' /\ LocalsInv'
    <3>1. pc' \in [Tasks -> PCs] /\ pending' \in Seq(Tasks) /\ running' \in 0..MaxConcurrent
      <4>1. CASE pending = <<>>
        BY <2>5, <4>1, LeaveSlot DEF NextTask
      <4>2. CASE pending # <<>>
        BY <2>5, <4>2, PassSlot DEF NextTask
      <4> QED
        BY <4>1, <4>2
    <3>2. \A u \in Tasks : pc'[u] \in {"open", "poll", "read"} => pc[u] = pc'[u]
      BY <2>5 DEF NextTask
    <3> QED
      BY <2>5, <3>1, <3>2 DEF NextTask
  <2>6. ASSUME NEW t \in Tasks, SetRunning(t) PROVE TypeOK' /\ LocalsInv'
    BY <2>6 DEF SetRunning, Goto
  <2>7. ASSUME NEW t \in Tasks, CheckFile(t) PROVE TypeOK' /\ LocalsInv'
    BY <2>7 DEF CheckFile, Settle, Proceed, Goto
  <2>8. ASSUME NEW t \in Tasks, Open(t) PROVE TypeOK' /\ LocalsInv'
    <3>1. late' \in [Tasks -> Nat]
      BY <2>8, OverdueNat DEF Open, Settle
    <3> QED
      BY <2>8, <3>1 DEF Open, Settle, Goto
  <2>9. ASSUME NEW t \in Tasks, Poll(t) PROVE TypeOK' /\ LocalsInv'
    BY <2>9 DEF Poll, Settle, Proceed, Goto
  <2>10. ASSUME NEW t \in Tasks, Read(t) PROVE TypeOK' /\ LocalsInv'
    <3>1. late' \in [Tasks -> Nat]
      BY <2>10, OverdueNat DEF Read, Settle
    <3>2. left' = left \/ (pc[t] = "read" /\ left' = [left EXCEPT ![t] = @ - 1])
      BY <2>10 DEF Read, Settle, Goto
    <3>3. left' \in [Tasks -> 0..MaxFiles]
      <4>1. left \in [Tasks -> 0..MaxFiles] /\ MaxFiles \in Nat
        BY DEF TypeOK
      <4>2. pc[t] = "read" => left[t] > 0
        BY DEF LocalsInv
      <4>3. pc[t] = "read" => left[t] - 1 \in 0..MaxFiles
        BY ONLY <4>1, <4>2, t \in Tasks
      <4> QED
        BY ONLY <3>2, <4>1, <4>3, t \in Tasks
    <3>4. copied' \in [Tasks -> 0..MaxChunks]
      <4>1. copied' = copied \/ (copied[t] < MaxChunks /\ copied' = [copied EXCEPT ![t] = @ + 1])
        BY ONLY <2>10 DEF Read, Settle
      <4>2. copied \in [Tasks -> 0..MaxChunks] /\ MaxChunks \in Nat
        BY DEF TypeOK
      <4> QED
        BY ONLY <4>1, <4>2, t \in Tasks
    <3>5. pc' \in [Tasks -> PCs]
      <4>1. \E to \in {"poll", "check", "tellFinal"} : pc' = [pc EXCEPT ![t] = to]
        BY ONLY <2>10 DEF Read, Settle, Goto
      <4> QED
        BY ONLY <4>1, TypeOK DEF TypeOK, PCs, Working
    <3>10. state' \in [Tasks -> States \cup {None}]
      <4>1. state' = state \/ state' = [state EXCEPT ![t] = "failed"]
        BY ONLY <2>10 DEF Read, Settle
      <4> QED
        BY ONLY <4>1, TypeOK DEF TypeOK, States, Final
    <3>6. UNCHANGED <<said, canceled, running, pending, cpc, target, heard, shown, early, had>>
      BY <2>10 DEF Read, Settle
    <3>7. /\ \A u \in Tasks \ {t} : pc'[u] = pc[u] /\ left'[u] = left[u]
          /\ pc[t] = "read"
          /\ pc'[t] \in {"open", "poll", "read"} => left'[t] = left[t]
      <4>1. CASE Settle(t, "read", "failed")
        BY ONLY <4>1, TypeOK DEF Settle, Goto, TypeOK
      <4>2. CASE Goto(t, "read", "poll") /\ UNCHANGED left
        BY ONLY <4>2, TypeOK DEF Goto, TypeOK
      <4>3. CASE Goto(t, "read", "check") /\ left' = [left EXCEPT ![t] = @ - 1]
        <5>1. pc' = [pc EXCEPT ![t] = "check"] /\ pc[t] = "read"
          BY <4>3 DEF Goto
        <5> QED
          BY ONLY <4>3, <5>1, TypeOK DEF TypeOK
      <4>4. CASE Goto(t, "read", "tellFinal") /\ UNCHANGED left
        BY ONLY <4>4, TypeOK DEF Goto, TypeOK
      <4> QED
        BY ONLY <2>10, <4>1, <4>2, <4>3, <4>4 DEF Read
    <3>8. LocalsInv'
      BY <3>6, <3>7
    <3> QED
      BY <3>1, <3>3, <3>4, <3>5, <3>6, <3>8, <3>10
  <2>11. ASSUME NEW k \in Cancels, NEW t \in Tasks, Cancel(k, t) PROVE TypeOK' /\ LocalsInv'
    BY <2>11 DEF Cancel, Turn
  <2>12. ASSUME NEW k \in Cancels, Look(k) PROVE TypeOK' /\ LocalsInv'
    BY <2>12 DEF Look, Turn
  <2>13. ASSUME NEW k \in Cancels, Flip(k) PROVE TypeOK' /\ LocalsInv'
    BY <2>13 DEF Flip, Turn
  <2>14. ASSUME NEW k \in Cancels, CancelSnapshot(k) PROVE TypeOK' /\ LocalsInv'
    BY <2>14 DEF CancelSnapshot, Turn
  <2>15. ASSUME NEW k \in Cancels, CancelPublish(k) PROVE TypeOK' /\ LocalsInv'
    BY <2>15 DEF CancelPublish, Turn
  <2>16. CASE UNCHANGED vars
    BY <2>16 DEF vars
  <2> QED
    BY <2>1, <2>2, <2>3, <2>4, <2>5, <2>6, <2>7, <2>8, <2>9, <2>10, <2>11, <2>12, <2>13,
       <2>14, <2>15, <2>16 DEF Next, Work, CancelStep
<1>2. SlotsInUse'
  <2>1. ASSUME NEW t \in Tasks, Enqueue(t) PROVE SlotsInUse'
    BY <2>1, TakeSlot, JoinQueue DEF Enqueue, Goto
  <2>2. ASSUME NEW t \in Tasks, NextTask(t) PROVE SlotsInUse'
    BY <2>2, LeaveSlot, PassSlot DEF NextTask
  <2>3. ASSUME NEW t \in Tasks, Start(t) \/ Publish(t) \/ SetRunning(t) \/ CheckFile(t)
                                 \/ Open(t) \/ Poll(t) \/ Read(t)
        PROVE  SlotsInUse'
    <3>1. \E to \in PCs :
            /\ pc' = [pc EXCEPT ![t] = to]
            /\ pc[t] \in Working <=> to \in Working
            /\ pc[t] # "queued" /\ to # "queued"
      <4> USE DEF PCs, Working, Goto, Settle, Proceed
      <4>1. CASE Start(t)
        BY <4>1 DEF Start
      <4>2. CASE Publish(t)
        BY <4>2 DEF Publish, AfterTelling, Telling
      <4>3. CASE SetRunning(t)
        BY <4>3 DEF SetRunning
      <4>4. CASE CheckFile(t)
        BY <4>4 DEF CheckFile
      <4>5. CASE Open(t)
        BY <4>5 DEF Open
      <4>6. CASE Poll(t)
        BY <4>6 DEF Poll
      <4>7. CASE Read(t)
        BY <4>7 DEF Read
      <4> QED
        BY <2>3, <4>1, <4>2, <4>3, <4>4, <4>5, <4>6, <4>7
    <3>2. UNCHANGED queueVars
      BY <2>3 DEF Start, Publish, SetRunning, CheckFile, Open, Poll, Read, Settle, Proceed, queueVars
    <3> QED
      BY <3>1, <3>2, SameSlots
  <2>4. ASSUME NEW t \in Tasks, Snapshot(t) PROVE SlotsInUse'
    BY <2>4, SamePC DEF Snapshot, queueVars
  <2>5. ASSUME NEW k \in Cancels, CancelStep(k) \/ \E t \in Tasks : Cancel(k, t) PROVE SlotsInUse'
    BY <2>5, SamePC
    DEF CancelStep, Cancel, Look, Flip, CancelSnapshot, CancelPublish, workVars, queueVars
  <2>6. CASE UNCHANGED vars
    BY <2>6, SamePC DEF vars, workVars, queueVars
  <2> QED
    BY <2>1, <2>2, <2>3, <2>4, <2>5, <2>6 DEF Next, Work
<1> QED
  BY <1>1, <1>2 DEF TypeInv

\* The state is well typed, and the queue's slots are accounted for: none is
\* lost and none is idle while a task waits, for any number of slots.
THEOREM SlotsAccounted == Spec => [](TypeOK /\ SlotsInUse)
<1>1. TypeInv => TypeOK /\ SlotsInUse
  BY DEF TypeInv
<1> QED
  BY InitType, TypeStep, <1>1, PTL DEF Spec
-----------------------------------------------------------------------------
(* A cancel takes hold.  A goroutine that may still touch a file has not    *)
(* done so since the cancel, and one cancelled before its turn never will.  *)
EffectInv ==
  \A t \in Tasks :
    /\ late[t] <= 1
    /\ t \notin canceled => late[t] = 0
    /\ pc[t] \in Waiting \cup {"new", "open", "read"} => late[t] = 0
    /\ t \in early =>
         t \in canceled /\ late[t] = 0 /\ pc[t] \notin {"new", "open", "poll", "read"}

\* The race of Cancel with the queue: only a task cancelled before its turn is
\* flipped, and it ends canceled anyway unless it has no files.
RaceInv ==
  /\ \A t \in Tasks :
       /\ state[t] = "queued" => pc[t] \in Waiting \ {"tellRunning"}
       /\ t \in early /\ left[t] > 0 /\ pc[t] \in {"tellFinal", "next", "finished"}
            => state[t] = "canceled"
  /\ \A k \in Cancels :
       /\ cpc[k] # "idle" => pc[target[k]] # "new"
       /\ cpc[k] = "look" /\ pc[target[k]] \in Waiting => target[k] \in early
       /\ cpc[k] = "flip" => target[k] \in early

\* A task before its turn has all of its files before it, and one cancelled
\* there keeps them: it never reads.
FilesInv == \A t \in Tasks : pc[t] \in Waiting \/ t \in early => left[t] = had[t]

CancelInv == EffectInv /\ RaceInv /\ FilesInv

LEMMA InitCancel == Init => CancelInv
  BY NoneAssumption DEF Init, CancelInv, EffectInv, RaceInv, FilesInv, Waiting

\* Steps that touch neither the goroutines nor what a cancel is judged by.
LEMMA EffectFrame ==
  ASSUME EffectInv, UNCHANGED <<pc, canceled, early, late>>
  PROVE  EffectInv'
  BY DEF EffectInv

\* A goroutine moves on without touching a file.
LEMMA EffectMove ==
  ASSUME TypeOK, EffectInv, NEW t \in Tasks, NEW to, pc' = [pc EXCEPT ![t] = to],
         UNCHANGED <<canceled, early, late>>,
         to \in Waiting \cup {"new", "open", "read"} => late[t] = 0,
         t \in early => to \notin {"new", "open", "poll", "read"}
  PROVE  EffectInv'
  BY DEF EffectInv, TypeOK

\* A goroutine touches a file: it had not done so since any cancel.
LEMMA EffectTouch ==
  ASSUME TypeOK, EffectInv, NEW t \in Tasks, pc[t] \in {"open", "read"},
         NEW to \in {"poll", "check", "tellFinal"}, pc' = [pc EXCEPT ![t] = to],
         UNCHANGED <<canceled, early>>, Overdue(t)
  PROVE  EffectInv'
<1>1. late[t] = 0 /\ t \notin early /\ late \in [Tasks -> Nat]
  BY DEF EffectInv, TypeOK
<1>2. late'[t] = (IF t \in canceled THEN 1 ELSE 0) /\ \A u \in Tasks \ {t} : late'[u] = late[u]
  BY <1>1 DEF Overdue
<1>3. pc'[t] = to /\ \A u \in Tasks \ {t} : pc'[u] = pc[u]
  BY DEF TypeOK
<1> QED
  BY <1>1, <1>2, <1>3 DEF EffectInv, Waiting

LEMMA EffectStep == TypeInv /\ EffectInv /\ [Next]_vars => EffectInv'
<1> SUFFICES ASSUME TypeInv, EffectInv, [Next]_vars PROVE EffectInv'
  OBVIOUS
<1>0. TypeOK /\ \A t \in Tasks : pc[t] \in Waiting \cup {"new", "open", "read"} => late[t] = 0
  BY DEF TypeInv, EffectInv
<1>1. ASSUME NEW t \in Tasks, Start(t) PROVE EffectInv'
  <2>1. t \notin early /\ late[t] = 0
    BY <1>1 DEF EffectInv, Start, Goto, TypeOK
  <2> QED
    BY <1>0, <1>1, <2>1, EffectMove DEF Start, Goto
<1>2. ASSUME NEW t \in Tasks, Snapshot(t) PROVE EffectInv'
  BY <1>2, EffectFrame DEF Snapshot
<1>3. ASSUME NEW t \in Tasks, Publish(t) PROVE EffectInv'
  <2>1. \E to \in {"enqueue", "check", "next"} :
          /\ pc' = [pc EXCEPT ![t] = to]
          /\ to = "enqueue" => pc[t] = "tellQueued"
    BY <1>3 DEF Publish, Goto, AfterTelling, Telling
  <2> QED
    BY <1>0, <1>3, <2>1, EffectMove DEF Publish, Waiting
<1>4. ASSUME NEW t \in Tasks, Enqueue(t) PROVE EffectInv'
  <2>1. pc[t] = "enqueue" /\ \E to \in {"run", "queued"} : pc' = [pc EXCEPT ![t] = to]
    BY <1>4 DEF Enqueue, Goto
  <2>2. UNCHANGED <<canceled, early, late>>
    BY <1>4 DEF Enqueue
  <2> QED
    BY <1>0, <2>1, <2>2, EffectMove DEF Waiting
<1>5. ASSUME NEW t \in Tasks, NextTask(t) PROVE EffectInv'
  <2>1. \A u \in Tasks : \/ pc'[u] = pc[u]
                         \/ pc'[u] = "finished"
                         \/ pc[u] = "queued" /\ pc'[u] = "run"
    BY <1>5, HandOver
  <2>2. UNCHANGED <<canceled, early, late>>
    BY <1>5 DEF NextTask
  <2> QED
    BY <2>1, <2>2 DEF EffectInv, Waiting
<1>6. ASSUME NEW t \in Tasks, SetRunning(t) PROVE EffectInv'
  <2>1. pc[t] = "run" /\ pc' = [pc EXCEPT ![t] = "tellRunning"] /\ UNCHANGED <<canceled, early, late>>
    BY <1>6 DEF SetRunning, Goto
  <2>2. late[t] = 0
    BY <1>0, <2>1 DEF Waiting
  <2> QED
    BY <1>0, <2>1, <2>2, EffectMove
<1>7. ASSUME NEW t \in Tasks, CheckFile(t) PROVE EffectInv'
  <2>1. t \notin canceled => t \notin early /\ late[t] = 0
    BY DEF EffectInv
  <2>2. UNCHANGED <<canceled, early, late>>
    BY <1>7 DEF CheckFile, Settle, Proceed
  <2>3. \/ pc' = [pc EXCEPT ![t] = "tellFinal"]
        \/ t \notin canceled /\ pc' = [pc EXCEPT ![t] = "open"]
    BY <1>7 DEF CheckFile, Settle, Proceed, Goto
  <2> QED
    BY <1>0, <2>1, <2>2, <2>3, EffectMove DEF Waiting
<1>8. ASSUME NEW t \in Tasks, Settle(t, "open", "failed") \/ Settle(t, "read", "failed")
      PROVE  EffectInv'
  BY <1>0, <1>8, EffectMove DEF Settle, Goto, Waiting
<1>9. ASSUME NEW t \in Tasks, Open(t) PROVE EffectInv'
  <2>1. CASE Settle(t, "open", "failed")
    BY <1>8, <2>1
  <2>2. CASE ~Settle(t, "open", "failed")
    BY <1>0, <1>9, <2>2, EffectTouch DEF Open, Goto
  <2> QED
    BY <2>1, <2>2
<1>10. ASSUME NEW t \in Tasks, Poll(t) PROVE EffectInv'
  <2>1. t \notin canceled => t \notin early /\ late[t] = 0
    BY DEF EffectInv
  <2>2. UNCHANGED <<canceled, early, late>>
    BY <1>10 DEF Poll, Settle, Proceed
  <2>3. \/ pc' = [pc EXCEPT ![t] = "tellFinal"]
        \/ t \notin canceled /\ pc' = [pc EXCEPT ![t] = "read"]
    BY <1>10 DEF Poll, Settle, Proceed, Goto
  <2> QED
    BY <1>0, <2>1, <2>2, <2>3, EffectMove DEF Waiting
<1>11. ASSUME NEW t \in Tasks, Read(t) PROVE EffectInv'
  <2>1. CASE Settle(t, "read", "failed")
    BY <1>8, <2>1
  <2>2. CASE Goto(t, "read", "check") /\ UNCHANGED <<canceled, early, late>>
    <3>1. pc[t] = "read" /\ pc' = [pc EXCEPT ![t] = "check"]
      BY <2>2 DEF Goto
    <3> QED
      BY <1>0, <2>2, <3>1, EffectMove DEF Waiting
  <2>3. CASE /\ Goto(t, "read", "poll") \/ Goto(t, "read", "check") \/ Goto(t, "read", "tellFinal")
             /\ Overdue(t) /\ UNCHANGED <<canceled, early>>
    <3>1. pc[t] \in {"open", "read"} /\ \E to \in {"poll", "check", "tellFinal"} : pc' = [pc EXCEPT ![t] = to]
      BY <2>3 DEF Goto
    <3> QED
      BY <1>0, <2>3, <3>1, EffectTouch
  <2> QED
    BY <1>11, <2>1, <2>2, <2>3 DEF Read
<1>12. ASSUME NEW k \in Cancels, NEW t \in Tasks, Cancel(k, t) PROVE EffectInv'
  <2>1. UNCHANGED <<pc, late>> /\ canceled' = canceled \cup {t} /\ pc[t] # "new"
    BY <1>12 DEF Cancel, workVars
  <2>2. early' = IF pc[t] \in Waiting THEN early \cup {t} ELSE early
    BY <1>12 DEF Cancel
  <2> QED
    BY <2>1, <2>2 DEF EffectInv, Waiting
<1>13. ASSUME NEW k \in Cancels, CancelStep(k) PROVE EffectInv'
  BY <1>13, EffectFrame DEF CancelStep, Look, Flip, CancelSnapshot, CancelPublish, workVars
<1>14. CASE UNCHANGED vars
  BY <1>14, EffectFrame DEF vars, workVars
<1> QED
  BY <1>1, <1>2, <1>3, <1>4, <1>5, <1>6, <1>7, <1>9, <1>10, <1>11, <1>12, <1>13, <1>14
  DEF Next, Work

\* A cancelled task touches at most one more file or chunk, and none if it was
\* cancelled before its turn, for any number of tasks, cancels and slots.
THEOREM CancelHolds == Spec => []CancelTakesHold
<1>1. Init => EffectInv
  BY InitCancel DEF CancelInv
<1>2. EffectInv /\ TypeOK => CancelTakesHold
  BY DEF EffectInv, CancelTakesHold, TypeOK
<1>3. TypeInv => TypeOK
  BY DEF TypeInv
<1> QED
  BY InitType, TypeStep, EffectStep, <1>1, <1>2, <1>3, PTL DEF Spec

\* The race: nobody's state, turn or cancel changes but the goroutine of t,
\* which stays before its turn, or leaves it, or never was.
LEMMA RaceMove ==
  ASSUME TypeInv, RaceInv, NEW t \in Tasks, NEW to, pc' = [pc EXCEPT ![t] = to],
         UNCHANGED <<state, early, cancelVars>>,
         \A u \in Tasks \ {t} : left'[u] = left[u],
         to \in Waiting => pc[t] \in Waiting,
         to \notin {"new", "tellFinal", "next", "finished"},
         state[t] = "queued" => to \in Waiting \ {"tellRunning"}
  PROVE  RaceInv'
<1>1. /\ pc'[t] = to /\ \A u \in Tasks \ {t} : pc'[u] = pc[u]
      /\ \A k \in Cancels : cpc[k] # "idle" => target[k] \in Tasks
  BY DEF TypeInv, TypeOK, LocalsInv
<1>2. UNCHANGED <<state, early, cpc, target>>
  BY DEF cancelVars
<1>3. \A u \in Tasks : state'[u] = "queued" => pc'[u] \in Waiting \ {"tellRunning"}
  BY <1>1, <1>2 DEF RaceInv
<1>4. \A u \in Tasks : u \in early' /\ left'[u] > 0 /\ pc'[u] \in {"tellFinal", "next", "finished"}
                     => state'[u] = "canceled"
  BY <1>1, <1>2 DEF RaceInv
<1>5. ASSUME NEW k \in Cancels
      PROVE  /\ cpc'[k] # "idle" => pc'[target'[k]] # "new"
             /\ cpc'[k] = "look" /\ pc'[target'[k]] \in Waiting => target'[k] \in early'
             /\ cpc'[k] = "flip" => target'[k] \in early'
  <2>1. cpc'[k] = cpc[k] /\ target'[k] = target[k] /\ early' = early
    BY <1>2
  <2>2. cpc[k] = "look" /\ pc[target[k]] \in Waiting => target[k] \in early
    BY DEF RaceInv
  <2>3. cpc[k] = "flip" => target[k] \in early
    BY DEF RaceInv
  <2>4. cpc[k] # "idle" => target[k] \in Tasks /\ pc[target[k]] # "new"
    BY <1>1 DEF RaceInv
  <2>5. cpc[k] = "look" /\ pc'[target[k]] \in Waiting => pc[target[k]] \in Waiting
    BY <1>1, <2>4
  <2>6. cpc[k] # "idle" => pc'[target[k]] # "new"
    BY <1>1, <2>4
  <2> QED
    BY <2>1, <2>2, <2>3, <2>5, <2>6
<1> QED
  BY <1>3, <1>4, <1>5 DEF RaceInv

\* The goroutine of t settles its state, or sets it to running.
LEMMA RaceSet ==
  ASSUME TypeInv, RaceInv, NEW t \in Tasks, NEW to, pc' = [pc EXCEPT ![t] = to],
         NEW new, new # "queued", state' = [state EXCEPT ![t] = new],
         UNCHANGED <<left, early, cancelVars>>,
         to # "new", to \in Waiting => pc[t] \in Waiting,
         to \notin Waiting => t \notin early \/ left[t] = 0 \/ new = "canceled"
  PROVE  RaceInv'
<1>1. /\ pc'[t] = to /\ \A u \in Tasks \ {t} : pc'[u] = pc[u]
      /\ state'[t] = new /\ \A u \in Tasks \ {t} : state'[u] = state[u]
      /\ \A k \in Cancels : cpc[k] # "idle" => target[k] \in Tasks
      /\ left[t] \in Nat
  BY DEF TypeInv, TypeOK, LocalsInv
<1>2. UNCHANGED <<left, early, cpc, target>>
  BY DEF cancelVars
<1>3. to \in {"tellFinal", "next", "finished"} => to \notin Waiting
  BY DEF Waiting
<1>4. \A u \in Tasks : state'[u] = "queued" => pc'[u] \in Waiting \ {"tellRunning"}
  BY <1>1 DEF RaceInv
<1>5. \A u \in Tasks : u \in early' /\ left'[u] > 0 /\ pc'[u] \in {"tellFinal", "next", "finished"}
                     => state'[u] = "canceled"
  BY <1>1, <1>2, <1>3 DEF RaceInv
<1>6. ASSUME NEW k \in Cancels
      PROVE  /\ cpc'[k] # "idle" => pc'[target'[k]] # "new"
             /\ cpc'[k] = "look" /\ pc'[target'[k]] \in Waiting => target'[k] \in early'
             /\ cpc'[k] = "flip" => target'[k] \in early'
  <2>1. cpc'[k] = cpc[k] /\ target'[k] = target[k] /\ early' = early
    BY <1>2
  <2>2. cpc[k] = "look" /\ pc[target[k]] \in Waiting => target[k] \in early
    BY DEF RaceInv
  <2>3. cpc[k] = "flip" => target[k] \in early
    BY DEF RaceInv
  <2>4. cpc[k] # "idle" => target[k] \in Tasks /\ pc[target[k]] # "new"
    BY <1>1 DEF RaceInv
  <2>5. cpc[k] = "look" /\ pc'[target[k]] \in Waiting => pc[target[k]] \in Waiting
    BY <1>1, <2>4
  <2>6. cpc[k] # "idle" => pc'[target[k]] # "new"
    BY <1>1, <2>4
  <2> QED
    BY <2>1, <2>2, <2>3, <2>5, <2>6
<1> QED
  BY <1>4, <1>5, <1>6 DEF RaceInv

LEMMA RaceFrame ==
  ASSUME RaceInv, UNCHANGED <<pc, state, left, early, cpc, target>>
  PROVE  RaceInv'
  BY DEF RaceInv

LEMMA RaceStep == TypeInv /\ CancelInv /\ [Next]_vars => RaceInv'
<1> SUFFICES ASSUME TypeInv, CancelInv, [Next]_vars PROVE RaceInv'
  OBVIOUS
<1>0. TypeOK /\ LocalsInv /\ EffectInv /\ RaceInv
  BY DEF TypeInv, CancelInv
<1>1. ASSUME NEW t \in Tasks, Start(t) PROVE RaceInv'
  <2>1. /\ pc[t] = "new" /\ pc' = [pc EXCEPT ![t] = "tellQueued"]
        /\ state' = [state EXCEPT ![t] = "queued"]
        /\ \A u \in Tasks \ {t} : left'[u] = left[u]
        /\ UNCHANGED <<early, cpc, target>>
    BY <1>0, <1>1 DEF Start, Goto, cancelVars, TypeOK
  <2>2. \A k \in Cancels : cpc[k] # "idle" => target[k] \in Tasks \ {t}
    BY <1>0, <2>1 DEF RaceInv, LocalsInv
  <2>3. /\ pc'[t] = "tellQueued" /\ \A u \in Tasks \ {t} : pc'[u] = pc[u]
        /\ \A u \in Tasks \ {t} : state'[u] = state[u]
    BY <1>0, <2>1 DEF TypeOK
  <2>4. \A u \in Tasks :
         /\ state'[u] = "queued" => pc'[u] \in Waiting \ {"tellRunning"}
         /\ u \in early' /\ left'[u] > 0 /\ pc'[u] \in {"tellFinal", "next", "finished"}
              => state'[u] = "canceled"
    BY <1>0, <2>1, <2>3 DEF RaceInv, Waiting
  <2>5. \A k \in Cancels : cpc'[k] # "idle" => pc'[target'[k]] = pc[target[k]]
    BY <2>1, <2>2, <2>3
  <2>6. \A k \in Cancels :
         /\ cpc'[k] # "idle" => pc'[target'[k]] # "new"
         /\ cpc'[k] = "look" /\ pc'[target'[k]] \in Waiting => target'[k] \in early'
         /\ cpc'[k] = "flip" => target'[k] \in early'
    BY <1>0, <2>1, <2>5 DEF RaceInv
  <2> QED
    BY <2>4, <2>6 DEF RaceInv
<1>2. ASSUME NEW t \in Tasks, Snapshot(t) PROVE RaceInv'
  BY <1>0, <1>2, RaceFrame DEF Snapshot, cancelVars
<1>3. ASSUME NEW t \in Tasks, pc[t] \in {"tellFinal", "next"}, NEW to \in {"next", "finished"},
             pc' = [pc EXCEPT ![t] = to], UNCHANGED <<state, left, early, cpc, target>>
      PROVE  RaceInv'
  <2>1. pc'[t] = to /\ \A u \in Tasks \ {t} : pc'[u] = pc[u]
    BY <1>0, <1>3 DEF TypeOK
  <2>2. \A u \in Tasks : (pc'[u] \in Waiting \cup {"new"} => pc[u] = pc'[u])
                         /\ (pc[u] \in Waiting => pc[u] = pc'[u])
    BY <1>3, <2>1 DEF Waiting
  <2>3. \A k \in Cancels : cpc[k] # "idle" => target[k] \in Tasks
    BY <1>0 DEF LocalsInv
  <2> QED
    BY <1>0, <1>3, <2>1, <2>2, <2>3 DEF RaceInv
<1>4. ASSUME NEW t \in Tasks, Publish(t) PROVE RaceInv'
  <2>1. /\ UNCHANGED <<state, left, early, cpc, target, cancelVars>>
        /\ \/ pc[t] = "tellQueued" /\ pc' = [pc EXCEPT ![t] = "enqueue"]
           \/ pc[t] = "tellRunning" /\ pc' = [pc EXCEPT ![t] = "check"]
           \/ pc[t] = "tellFinal" /\ pc' = [pc EXCEPT ![t] = "next"]
    BY <1>4 DEF Publish, Goto, AfterTelling, Telling, cancelVars
  <2>2. state[t] = "queued" => pc[t] # "tellRunning"
    BY <1>0 DEF RaceInv
  <2>3. CASE pc[t] = "tellFinal"
    BY <1>3, <2>1, <2>3
  <2>4. CASE pc[t] # "tellFinal"
    BY <1>0, <2>1, <2>2, <2>4, RaceMove DEF Waiting
  <2> QED
    BY <2>3, <2>4
<1>5. ASSUME NEW t \in Tasks, Enqueue(t) PROVE RaceInv'
  <2>1. /\ pc[t] = "enqueue" /\ \E to \in {"run", "queued"} : pc' = [pc EXCEPT ![t] = to]
        /\ UNCHANGED <<state, left, early, cancelVars>>
    BY <1>5 DEF Enqueue, Goto
  <2> QED
    BY <1>0, <2>1, RaceMove DEF Waiting
<1>6. ASSUME NEW t \in Tasks, NextTask(t) PROVE RaceInv'
  <2>1. \A u \in Tasks : \/ pc'[u] = pc[u]
                         \/ pc[u] = "next" /\ pc'[u] = "finished"
                         \/ pc[u] = "queued" /\ pc'[u] = "run"
    BY <1>6, HandOver
  <2>2. UNCHANGED <<state, left, early, cpc, target>>
    BY <1>6 DEF NextTask, cancelVars
  <2>3. \A k \in Cancels : cpc[k] # "idle" => target[k] \in Tasks
    BY <1>0 DEF LocalsInv
  <2>4. \A u \in Tasks :
         /\ state'[u] = "queued" => pc'[u] \in Waiting \ {"tellRunning"}
         /\ u \in early' /\ left'[u] > 0 /\ pc'[u] \in {"tellFinal", "next", "finished"}
              => state'[u] = "canceled"
    BY <1>0, <2>1, <2>2 DEF RaceInv, Waiting
  <2>5. \A u \in Tasks : (pc'[u] \in Waiting => pc[u] \in Waiting) /\ (pc[u] # "new" => pc'[u] # "new")
    BY <2>1 DEF Waiting
  <2>6. \A k \in Cancels :
         /\ cpc'[k] # "idle" => pc'[target'[k]] # "new"
         /\ cpc'[k] = "look" /\ pc'[target'[k]] \in Waiting => target'[k] \in early'
         /\ cpc'[k] = "flip" => target'[k] \in early'
    BY <1>0, <2>2, <2>3, <2>5 DEF RaceInv
  <2> QED
    BY <2>4, <2>6 DEF RaceInv
<1>7. ASSUME NEW t \in Tasks, SetRunning(t) PROVE RaceInv'
  <2>1. /\ pc[t] = "run" /\ pc' = [pc EXCEPT ![t] = "tellRunning"]
        /\ state' = [state EXCEPT ![t] = "running"] /\ UNCHANGED <<left, early, cancelVars>>
    BY <1>7 DEF SetRunning, Goto
  <2> QED
    BY <1>0, <2>1, RaceSet DEF Waiting
<1>8. ASSUME NEW t \in Tasks, NEW from \in {"check", "open", "poll", "read"}, NEW final \in Final,
             Settle(t, from, final),
             t \notin early \/ left[t] = 0 \/ final = "canceled"
      PROVE  RaceInv'
  <2>1. /\ pc' = [pc EXCEPT ![t] = "tellFinal"] /\ state' = [state EXCEPT ![t] = final]
        /\ UNCHANGED <<left, early, cancelVars>> /\ final # "queued"
    BY <1>8 DEF Settle, Goto, Final
  <2>2. RaceInv'
    <3>1. "tellFinal" \notin Waiting
      BY DEF Waiting
    <3> QED
      BY <1>0, <1>8, <2>1, <3>1, RaceSet
  <2> QED
    BY <2>2
<1>9. ASSUME NEW t \in Tasks, NEW from \in {"check", "open", "poll", "read"},
             NEW to \in {"check", "open", "poll", "read"}, Goto(t, from, to),
             UNCHANGED <<state, early, cancelVars>>, \A u \in Tasks \ {t} : left'[u] = left[u]
      PROVE  RaceInv'
  <2>1. state[t] # "queued"
    BY <1>0, <1>9 DEF RaceInv, Waiting, Goto
  <2>2. pc' = [pc EXCEPT ![t] = to] /\ to \notin Waiting
        /\ to \notin {"new", "tellFinal", "next", "finished"}
    BY <1>9 DEF Goto, Waiting
  <2> QED
    BY <1>0, <1>9, <2>1, <2>2, RaceMove
<1>10. ASSUME NEW t \in Tasks, CheckFile(t) PROVE RaceInv'
  <2>1. CASE left[t] = 0 /\ Settle(t, "check", "done")
    BY <1>8, <2>1 DEF Final
  <2>2. CASE Settle(t, "check", "canceled")
    BY <1>8, <2>2 DEF Final
  <2>3. CASE Proceed(t, "check", "open")
    BY <1>9, <2>3 DEF Proceed
  <2> QED
    BY <1>10, <2>1, <2>2, <2>3 DEF CheckFile
<1>11. ASSUME NEW t \in Tasks, Open(t) PROVE RaceInv'
  <2>1. CASE Settle(t, "open", "failed")
    <3>1. t \notin early
      BY <1>0, <2>1 DEF EffectInv, Settle, Goto
    <3> QED
      BY <1>8, <2>1, <3>1 DEF Final
  <2>2. CASE ~Settle(t, "open", "failed")
    <3>1. Goto(t, "open", "poll") /\ UNCHANGED <<left, state, early, cancelVars>>
      BY <1>11, <2>2 DEF Open
    <3> QED
      BY <1>9, <3>1
  <2> QED
    BY <2>1, <2>2
<1>12. ASSUME NEW t \in Tasks, Poll(t) PROVE RaceInv'
  <2>1. CASE Settle(t, "poll", "canceled")
    BY <1>8, <2>1 DEF Final
  <2>2. CASE Proceed(t, "poll", "read")
    BY <1>9, <2>2 DEF Proceed
  <2> QED
    BY <1>12, <2>1, <2>2 DEF Poll
<1>13. ASSUME NEW t \in Tasks, Read(t) PROVE RaceInv'
  <2>1. CASE Settle(t, "read", "failed")
    <3>1. t \notin early
      BY <1>0, <2>1 DEF EffectInv, Settle, Goto
    <3> QED
      BY <1>8, <2>1, <3>1 DEF Final
  <2>2. CASE /\ Goto(t, "read", "poll") \/ Goto(t, "read", "check")
             /\ UNCHANGED <<state, early, cancelVars>>
             /\ left' = left \/ left' = [left EXCEPT ![t] = @ - 1]
    <3>1. \A u \in Tasks \ {t} : left'[u] = left[u]
      BY <1>0, <2>2 DEF TypeOK
    <3> QED
      BY <1>9, <2>2, <3>1
  <2>3. CASE /\ Goto(t, "read", "tellFinal") /\ state' = [state EXCEPT ![t] = "failed"]
             /\ UNCHANGED <<left, early, cancelVars>>
    <3>1. t \notin early /\ pc' = [pc EXCEPT ![t] = "tellFinal"]
      BY <1>0, <2>3 DEF EffectInv, Goto
    <3>2. "tellFinal" \notin Waiting
      BY DEF Waiting
    <3> QED
      BY <1>0, <2>3, <3>1, <3>2, RaceSet
  <2> QED
    BY <1>13, <2>1, <2>2, <2>3 DEF Read
<1>14. ASSUME NEW k \in Cancels, NEW t \in Tasks, Cancel(k, t) PROVE RaceInv'
  <2>1. /\ UNCHANGED <<pc, state, left>> /\ pc[t] # "new"
        /\ early' = IF pc[t] \in Waiting THEN early \cup {t} ELSE early
        /\ cpc' = [cpc EXCEPT ![k] = "look"] /\ target' = [target EXCEPT ![k] = t]
    BY <1>14 DEF Cancel, Turn, workVars
  <2>2. /\ cpc'[k] = "look" /\ target'[k] = t
        /\ \A o \in Cancels \ {k} : cpc'[o] = cpc[o] /\ target'[o] = target[o]
    BY <1>0, <2>1 DEF TypeOK
  <2> QED
    BY <1>0, <2>1, <2>2 DEF RaceInv, Waiting
<1>15. ASSUME NEW k \in Cancels, Look(k) PROVE RaceInv'
  <2>1. /\ UNCHANGED <<pc, state, left, early, target>> /\ cpc[k] = "look"
        /\ \/ cpc' = [cpc EXCEPT ![k] = "flip"] /\ state[target[k]] = "queued"
           \/ cpc' = [cpc EXCEPT ![k] = "done"]
    BY <1>15 DEF Look, Turn, workVars
  <2>2. state[target[k]] = "queued" => target[k] \in early
    BY <1>0, <2>1 DEF RaceInv, LocalsInv
  <2> QED
    BY <1>0, <2>1, <2>2 DEF RaceInv, TypeOK
<1>16. ASSUME NEW k \in Cancels, Flip(k) PROVE RaceInv'
  <2>1. /\ UNCHANGED <<pc, left, early, target>> /\ cpc[k] = "flip"
        /\ cpc' = [cpc EXCEPT ![k] = "snap"] /\ state' = [state EXCEPT ![target[k]] = "canceled"]
    BY <1>16 DEF Flip, Turn, workVars
  <2>2. \A u \in Tasks : state'[u] = state[u] \/ state'[u] = "canceled"
    BY <1>0, <2>1 DEF TypeOK
  <2>3. \A o \in Cancels : cpc'[o] = cpc[o] \/ (cpc[o] = "flip" /\ cpc'[o] = "snap")
    BY <1>0, <2>1 DEF TypeOK
  <2> QED
    BY <1>0, <2>1, <2>2, <2>3 DEF RaceInv
<1>17. ASSUME NEW k \in Cancels, CancelSnapshot(k) \/ CancelPublish(k) PROVE RaceInv'
  <2>1. /\ UNCHANGED <<pc, state, left, early, target>> /\ cpc[k] # "idle"
        /\ \E to \in {"publish", "done"} : cpc' = [cpc EXCEPT ![k] = to]
    BY <1>17 DEF CancelSnapshot, CancelPublish, Turn, workVars
  <2>2. \A o \in Cancels : cpc'[o] = cpc[o] \/ (cpc[o] # "idle" /\ cpc'[o] \in {"publish", "done"})
    BY <1>0, <2>1 DEF TypeOK
  <2> QED
    BY <1>0, <2>1, <2>2 DEF RaceInv
<1>18. CASE UNCHANGED vars
  BY <1>0, <1>18, RaceFrame DEF vars, workVars, cancelVars
<1> QED
  BY <1>1, <1>2, <1>4, <1>5, <1>6, <1>7, <1>10, <1>11, <1>12, <1>13, <1>14, <1>15, <1>16,
     <1>17, <1>18 DEF Next, Work, CancelStep

LEMMA FilesStep == TypeInv /\ CancelInv /\ [Next]_vars => FilesInv'
<1> SUFFICES ASSUME TypeInv, CancelInv, [Next]_vars PROVE FilesInv'
  OBVIOUS
<1>0. TypeOK /\ EffectInv /\ FilesInv
  BY DEF TypeInv, CancelInv
<1>1. ASSUME NEW t \in Tasks, Start(t) PROVE FilesInv'
  <2>1. PICK n \in 0..MaxFiles : left' = [left EXCEPT ![t] = n] /\ had' = [had EXCEPT ![t] = n]
    BY <1>1 DEF Start
  <2>2. \A u \in Tasks \ {t} : pc'[u] = pc[u] /\ left'[u] = left[u] /\ had'[u] = had[u]
    BY <1>0, <1>1, <2>1 DEF Start, Goto, TypeOK
  <2>3. left'[t] = had'[t] /\ UNCHANGED early
    BY <1>0, <1>1, <2>1 DEF Start, TypeOK
  <2> QED
    BY <1>0, <2>2, <2>3 DEF FilesInv
<1>2. ASSUME NEW t \in Tasks, Read(t) PROVE FilesInv'
  <2>1. t \notin early /\ pc[t] = "read"
    BY <1>0, <1>2 DEF EffectInv, Read, Settle, Goto
  <2>2. UNCHANGED <<had, early>> /\ \A u \in Tasks \ {t} : pc'[u] = pc[u] /\ left'[u] = left[u]
    BY <1>0, <1>2 DEF Read, Settle, Goto, TypeOK
  <2>3. pc'[t] \notin Waiting
    BY <1>0, <1>2 DEF Read, Settle, Goto, TypeOK, Waiting
  <2> QED
    BY <1>0, <2>1, <2>2, <2>3 DEF FilesInv
<1>3. ASSUME UNCHANGED <<left, had, early>>, \A u \in Tasks : pc'[u] \in Waiting => pc[u] \in Waiting
      PROVE  FilesInv'
  BY <1>0, <1>3 DEF FilesInv
<1>4. ASSUME NEW t \in Tasks, Snapshot(t) \/ Enqueue(t) \/ SetRunning(t) PROVE FilesInv'
  BY <1>0, <1>3, <1>4 DEF Snapshot, Enqueue, SetRunning, Goto, TypeOK, Waiting
<1>5. ASSUME NEW t \in Tasks, Publish(t) PROVE FilesInv'
  BY <1>0, <1>3, <1>5 DEF Publish, Goto, AfterTelling, Telling, TypeOK, Waiting
<1>6. ASSUME NEW t \in Tasks, NextTask(t) PROVE FilesInv'
  <2>1. \A u \in Tasks : pc'[u] \in Waiting => pc[u] \in Waiting
    BY <1>6, HandOver DEF Waiting
  <2> QED
    BY <1>3, <1>6, <2>1 DEF NextTask
<1>7. ASSUME NEW t \in Tasks, CheckFile(t) \/ Open(t) \/ Poll(t) PROVE FilesInv'
  <2>1. UNCHANGED <<left, had, early>>
    BY <1>7 DEF CheckFile, Open, Poll, Settle, Proceed
  <2>2. \E to \in {"tellFinal", "open", "poll", "read"} : pc' = [pc EXCEPT ![t] = to]
    BY <1>7 DEF CheckFile, Open, Poll, Settle, Proceed, Goto
  <2> QED
    BY <1>0, <1>3, <2>1, <2>2 DEF TypeOK, Waiting
<1>8. ASSUME NEW k \in Cancels, CancelStep(k) PROVE FilesInv'
  BY <1>3, <1>8 DEF CancelStep, Look, Flip, CancelSnapshot, CancelPublish, workVars
<1>9. ASSUME NEW k \in Cancels, NEW t \in Tasks, Cancel(k, t) PROVE FilesInv'
  BY <1>0, <1>9 DEF Cancel, workVars, FilesInv
<1>10. CASE UNCHANGED vars
  BY <1>3, <1>10 DEF vars, workVars
<1> QED
  BY <1>1, <1>2, <1>4, <1>5, <1>6, <1>7, <1>8, <1>9, <1>10 DEF Next, Work

LEMMA HarmlessStep == TypeInv /\ CancelInv /\ [Next]_vars => SettledStay
<1> SUFFICES ASSUME TypeInv, CancelInv, [Next]_vars,
                    NEW t \in Tasks, pc[t] = "finished", had[t] > 0
             PROVE  state'[t] = state[t] /\ (t \in early => state[t] = "canceled")
  BY DEF SettledStay
<1>1. t \in early => state[t] = "canceled"
  BY DEF CancelInv, RaceInv, FilesInv
<1>2. ASSUME NEW u \in Tasks, Start(u) \/ SetRunning(u) PROVE state'[t] = state[t]
  BY <1>2 DEF Start, SetRunning, Goto, TypeInv, TypeOK
<1>3. ASSUME NEW u \in Tasks, CheckFile(u) \/ Open(u) \/ Poll(u) \/ Read(u)
      PROVE  state'[t] = state[t]
  <2>1. \/ state' = state
        \/ /\ pc[u] \in {"check", "open", "poll", "read"}
           /\ \E final \in Final : state' = [state EXCEPT ![u] = final]
    BY <1>3 DEF CheckFile, Open, Poll, Read, Proceed, Settle, Goto, Final
  <2>2. state' = state \/ (u # t /\ \E final \in Final : state' = [state EXCEPT ![u] = final])
    BY <2>1
  <2> QED
    BY <2>2 DEF TypeInv, TypeOK
<1>4. ASSUME NEW u \in Tasks, Snapshot(u) \/ Publish(u) \/ Enqueue(u) \/ NextTask(u)
      PROVE  state'[t] = state[t]
  BY <1>4 DEF Snapshot, Publish, Enqueue, NextTask
<1>5. ASSUME NEW k \in Cancels, Flip(k) PROVE state'[t] = state[t]
  <2>1. target[k] \in early /\ state' = [state EXCEPT ![target[k]] = "canceled"]
    BY <1>5 DEF Flip, Turn, CancelInv, RaceInv
  <2> QED
    BY <1>1, <2>1 DEF TypeInv, TypeOK
<1>6. ASSUME NEW k \in Cancels,
             Look(k) \/ CancelSnapshot(k) \/ CancelPublish(k) \/ \E u \in Tasks : Cancel(k, u)
      PROVE  state'[t] = state[t]
  BY <1>6 DEF Look, CancelSnapshot, CancelPublish, Cancel
<1>7. UNCHANGED vars => state'[t] = state[t]
  BY DEF vars
<1>8. ASSUME NEW u \in Tasks, Start(u) \/ Work(u) PROVE state'[t] = state[t]
  BY <1>2, <1>3, <1>4, <1>8 DEF Work
<1>9. ASSUME NEW k \in Cancels, CancelStep(k) \/ \E u \in Tasks : Cancel(k, u)
      PROVE  state'[t] = state[t]
  BY <1>5, <1>6, <1>9 DEF CancelStep
<1>10. state'[t] = state[t]
  BY <1>7, <1>8, <1>9 DEF Next
<1> QED
  BY <1>1, <1>10

\* However Cancel's look and flip fall between the queue's steps, a task that
\* was started with files keeps the state its goroutine left it in, done,
\* failed or canceled, and it is canceled if it was cancelled before its turn.
THEOREM RaceIsHarmless == Spec => CancelIsHarmless
<1>1. TypeInv /\ CancelInv /\ [Next]_vars => CancelInv'
  BY EffectStep, RaceStep, FilesStep DEF CancelInv
<1>2. Spec => [](TypeInv /\ CancelInv)
  BY InitType, InitCancel, TypeStep, <1>1, PTL DEF Spec
<1>3. TypeInv /\ CancelInv /\ [Next]_vars => [SettledStay]_vars
  BY HarmlessStep
<1> QED
  BY <1>2, <1>3, PTL DEF Spec, CancelIsHarmless
-----------------------------------------------------------------------------
(* The page of the file browser on top of the queue.                        *)

LEMMA PageStepsAreQueueSteps == [PageNext]_allVars => [Next]_vars
<1> SUFFICES ASSUME [PageNext]_allVars PROVE [Next]_vars
  OBVIOUS
<1>1. CASE UNCHANGED allVars
  BY <1>1 DEF allVars
<1>2. CASE ConnectStep
  BY <1>2 DEF ConnectStep, Connect, Subscribe, AskHome, Enter, Listed
<1>3. CASE Service
  BY <1>3 DEF Service, DialEnds, SessionEnds
<1>4. CASE User
  BY <1>4 DEF User, Disconnect, PasteInVain, Visit, Cut
<1>5. ASSUME NEW t \in Tasks, MoveWork(t) PROVE [Next]_vars
  <2>1. UNCHANGED vars \/ Start(t)
    BY <1>5 DEF MoveWork, Paste, Check, Ask, Dismiss, Unhindered, Resume, Call, Forgo, StartMove, NotStarted, Answered
  <2> QED
    BY <2>1 DEF Next
<1>6. ASSUME NEW t \in Tasks, StartElsewhere(t) \/ TaskWork(t) PROVE [Next]_vars
  BY <1>6 DEF StartElsewhere, TaskWork, PublishTask, OpenFile, Quietly, Next, Work
<1>7. ASSUME NEW k \in Cancels, CancelWork(k) PROVE [Next]_vars
  BY <1>7 DEF CancelWork, Next, CancelStep
<1>8. ASSUME NEW k \in Cancels, NEW t \in Tasks, CancelTask(k, t) PROVE [Next]_vars
  BY <1>8 DEF CancelTask, Next
<1> QED
  BY <1>1, <1>2, <1>3, <1>4, <1>5, <1>6, <1>7, <1>8 DEF PageNext

\* Whatever the page does, the queue below it behaves as TransferQueue says, so
\* that what is proved of the queue holds under the page.
THEOREM PageUsesQueue == PageSpec => Spec
<1>1. PageInit => Init
  BY DEF PageInit
<1> QED
  BY <1>1, PageStepsAreQueueSteps, PTL DEF PageSpec, Spec
-----------------------------------------------------------------------------
(* What an event that says "done" is worth.                                  *)

Ended == {"tellFinal", "next", "finished"}

Copied(t) == left[t] = 0 /\ pc[t] \in Ended

DoneInv ==
  /\ \A t \in Tasks : state[t] = "done" \/ said[t] = "done" => Copied(t)
  /\ \A k \in Cancels : heard[k] = "done" =>
       cpc[k] \in {"publish", "done"} /\ target[k] \in Tasks /\ Copied(target[k])

\* A task that was copied stays so.
LEMMA CopiedStays ==
  ASSUME TypeInv, [Next]_vars, NEW t \in Tasks, Copied(t)
  PROVE  Copied(t)'
<1> USE DEF Copied, Ended
<1>0. TypeOK
  BY DEF TypeInv
<1>1. ASSUME NEW u \in Tasks, Start(u) PROVE Copied(t)'
  BY <1>0, <1>1 DEF Start, Goto, TypeOK
<1>2. ASSUME NEW u \in Tasks, Publish(u) PROVE Copied(t)'
  BY <1>0, <1>2 DEF Publish, Goto, TypeOK, AfterTelling, Telling
<1>3. ASSUME NEW u \in Tasks, NextTask(u) PROVE Copied(t)'
  <2>1. UNCHANGED left
    BY <1>3 DEF NextTask
  <2> QED
    BY <1>3, <2>1, HandOver
<1>4. ASSUME NEW u \in Tasks, Snapshot(u) \/ Enqueue(u) \/ SetRunning(u) PROVE Copied(t)'
  BY <1>0, <1>4 DEF Snapshot, Enqueue, SetRunning, Goto, TypeOK
<1>5. ASSUME NEW u \in Tasks, CheckFile(u) \/ Open(u) \/ Poll(u) PROVE Copied(t)'
  BY <1>0, <1>5 DEF CheckFile, Open, Poll, Settle, Proceed, Goto, TypeOK
<1>6. ASSUME NEW u \in Tasks, Read(u) PROVE Copied(t)'
  BY <1>0, <1>6 DEF Read, Settle, Goto, TypeOK
<1>7. ASSUME NEW k \in Cancels, CancelStep(k) PROVE Copied(t)'
  BY <1>7 DEF CancelStep, Look, Flip, CancelSnapshot, CancelPublish, workVars
<1>8. ASSUME NEW k \in Cancels, NEW u \in Tasks, Cancel(k, u) PROVE Copied(t)'
  BY <1>8 DEF Cancel, workVars
<1>9. CASE UNCHANGED vars
  BY <1>9 DEF vars, workVars
<1> QED
  BY <1>1, <1>2, <1>3, <1>4, <1>5, <1>6, <1>7, <1>8, <1>9 DEF Next, Work

LEMMA DoneStep == TypeInv /\ DoneInv /\ [Next]_vars => DoneInv'
<1> SUFFICES ASSUME TypeInv, DoneInv, [Next]_vars PROVE DoneInv'
  OBVIOUS
<1>0. TypeOK /\ \A t \in Tasks : Copied(t) => Copied(t)'
  BY CopiedStays DEF TypeInv
\* The state says "done" only after the last file.
<1>1. ASSUME NEW t \in Tasks, state'[t] = "done" PROVE state[t] = "done" \/ Copied(t)'
  <2>1. ASSUME NEW u \in Tasks, Start(u) \/ SetRunning(u) PROVE state[t] = "done"
    BY <1>0, <1>1, <2>1 DEF Start, SetRunning, TypeOK
  <2>2. ASSUME NEW u \in Tasks, CheckFile(u) PROVE state[t] = "done" \/ Copied(t)'
    <3>1. CASE left[u] = 0 /\ Settle(u, "check", "done")
      BY <1>0, <1>1, <3>1 DEF Settle, Goto, TypeOK, Copied, Ended
    <3> QED
      BY <1>0, <1>1, <2>2, <3>1 DEF CheckFile, Settle, Proceed, TypeOK
  <2>3. ASSUME NEW u \in Tasks, Open(u) \/ Poll(u) \/ Read(u) PROVE state[t] = "done"
    BY <1>0, <1>1, <2>3 DEF Open, Poll, Read, Settle, Proceed, TypeOK
  <2>4. ASSUME NEW u \in Tasks, Snapshot(u) \/ Publish(u) \/ Enqueue(u) \/ NextTask(u) PROVE state[t] = "done"
    BY <1>1, <2>4 DEF Snapshot, Publish, Enqueue, NextTask
  <2>5. ASSUME NEW k \in Cancels, CancelStep(k) PROVE state[t] = "done"
    BY <1>0, <1>1, <2>5 DEF CancelStep, Look, Flip, CancelSnapshot, CancelPublish, TypeOK
  <2>6. ASSUME NEW k \in Cancels, NEW u \in Tasks, Cancel(k, u) PROVE state[t] = "done"
    BY <1>1, <2>6 DEF Cancel
  <2>7. CASE UNCHANGED vars
    BY <1>1, <2>7 DEF vars
  <2> QED
    BY <2>1, <2>2, <2>3, <2>4, <2>5, <2>6, <2>7 DEF Next, Work
\* A snapshot says "done" only when the state did.
<1>2. ASSUME NEW t \in Tasks, said'[t] = "done" PROVE said[t] = "done" \/ state[t] = "done"
  <2>1. ASSUME NEW u \in Tasks, Snapshot(u) \/ Publish(u) PROVE said[t] = "done" \/ state[t] = "done"
    BY <1>0, <1>2, <2>1, NoneAssumption DEF Snapshot, Publish, TypeOK
  <2>2. ASSUME NEW u \in Tasks, Start(u) \/ SetRunning(u) \/ Enqueue(u) \/ NextTask(u) PROVE said[t] = "done"
    BY <1>2, <2>2 DEF Start, SetRunning, Enqueue, NextTask
  <2>3. ASSUME NEW u \in Tasks, CheckFile(u) \/ Open(u) \/ Poll(u) \/ Read(u) PROVE said[t] = "done"
    BY <1>2, <2>3 DEF CheckFile, Open, Poll, Read, Settle, Proceed
  <2>4. ASSUME NEW k \in Cancels, CancelStep(k) PROVE said[t] = "done"
    BY <1>2, <2>4 DEF CancelStep, Look, Flip, CancelSnapshot, CancelPublish, workVars
  <2>5. ASSUME NEW k \in Cancels, NEW u \in Tasks, Cancel(k, u) PROVE said[t] = "done"
    BY <1>2, <2>5 DEF Cancel, workVars
  <2>6. CASE UNCHANGED vars
    BY <1>2, <2>6 DEF vars, workVars
  <2> QED
    BY <2>1, <2>2, <2>3, <2>4, <2>5, <2>6 DEF Next, Work
<1>3. ASSUME NEW k \in Cancels, heard'[k] = "done"
      PROVE  cpc'[k] \in {"publish", "done"} /\ target'[k] \in Tasks
             /\ left'[target'[k]] = 0 /\ pc'[target'[k]] \in Ended
  <2> DEFINE Kept == heard[k] = "done" /\ cpc'[k] \in {"publish", "done"} /\ target'[k] = target[k]
  <2>1. ASSUME NEW j \in Cancels, Look(j) \/ Flip(j) \/ CancelPublish(j) PROVE Kept
    BY <1>0, <1>3, <2>1 DEF Look, Flip, CancelPublish, Turn, DoneInv, TypeOK
  <2>2. ASSUME NEW j \in Cancels, CancelSnapshot(j), j # k PROVE Kept
    BY <1>0, <1>3, <2>2 DEF CancelSnapshot, Turn, DoneInv, TypeOK
  <2>3. CASE CancelSnapshot(k)
    <3>1. cpc'[k] = "publish" /\ target' = target /\ target[k] \in Tasks
      BY <1>0, <2>3 DEF CancelSnapshot, Turn, TypeOK, TypeInv, LocalsInv
    <3>2. state[target[k]] = "done"
      BY <1>0, <1>3, <2>3 DEF CancelSnapshot, TypeOK
    <3>3. Copied(target[k])
      BY <3>1, <3>2 DEF DoneInv
    <3> QED
      BY <1>0, <3>1, <3>3 DEF Copied
  <2>4. ASSUME NEW j \in Cancels, NEW u \in Tasks, Cancel(j, u) PROVE Kept
    BY <1>0, <1>3, <2>4 DEF Cancel, Turn, DoneInv, TypeOK
  <2>5. ASSUME NEW u \in Tasks, Work(u) \/ Start(u) PROVE UNCHANGED cancelVars
    <3>1. CASE Start(u) \/ Snapshot(u) \/ Publish(u) \/ Enqueue(u) \/ NextTask(u) \/ SetRunning(u)
      BY <3>1 DEF Start, Snapshot, Publish, Enqueue, NextTask, SetRunning
    <3>2. CASE CheckFile(u) \/ Open(u) \/ Poll(u) \/ Read(u)
      BY <3>2 DEF CheckFile, Open, Poll, Read, Settle, Proceed
    <3> QED
      BY <2>5, <3>1, <3>2 DEF Work
  <2>6. ASSUME UNCHANGED cancelVars PROVE Kept
    BY <1>3, <2>6 DEF cancelVars, DoneInv
  <2>7. Kept \/ CancelSnapshot(k)
    BY <2>1, <2>2, <2>4, <2>5, <2>6 DEF Next, CancelStep, vars
  <2>8. CASE Kept
    <3>1. target[k] \in Tasks /\ Copied(target[k])
      BY <2>8 DEF DoneInv
    <3> QED
      BY <1>0, <2>8, <3>1 DEF Copied
  <2> QED
    BY <2>3, <2>7, <2>8
<1>4. ASSUME NEW t \in Tasks, state'[t] = "done" \/ said'[t] = "done" PROVE Copied(t)'
  BY <1>0, <1>1, <1>2, <1>4 DEF DoneInv
<1> QED
  BY <1>3, <1>4 DEF DoneInv, Copied
-----------------------------------------------------------------------------
(* Moves.                                                                   *)

\* A move that is remembered, or whose source was deleted, is over: what it was
\* asked and given does not change any more.
MoveInv ==
  /\ DOMAIN step = Tasks /\ DOMAIN asked = Tasks /\ DOMAIN given = Tasks
  /\ \A t \in moving : t \in Tasks /\ step[t] = "over"
  /\ \A r \in removed : /\ r.task \in Tasks /\ step[r.task] = "over" /\ Copied(r.task)
                        /\ r.at = IF Uploads(r.task) THEN "local" ELSE given[r.task].sess

\* What is deleted when an event is watched.
LEMMA WatchKeeps ==
  ASSUME MoveInv, NEW t \in Tasks, NEW event, Watch(t, event),
         event = "done" => Copied(t),
         \A u \in Tasks : Copied(u) => Copied(u)'
  PROVE  MoveInv'
<1>1. UNCHANGED <<step, asked, given>> /\ moving' \subseteq moving
  BY DEF Watch, moveVars
<1>2. ASSUME NEW r \in removed', r \notin removed
      PROVE  /\ r.task = t /\ step[t] = "over" /\ Copied(t)
             /\ r.at = IF Uploads(t) THEN "local" ELSE given[t].sess
  <2>1. OfThePage(t) /\ t \in moving /\ Landed(event) /\ r = [task |-> t, at |-> Source(t).end]
    BY <1>2 DEF Watch
  <2>2. Source(t).end = IF Uploads(t) THEN "local" ELSE page
    BY DEF Source, Place
  <2> QED
    BY <2>1, <2>2 DEF OfThePage, Landed, MoveInv
<1>3. \A u \in Tasks : Uploads(u)' = Uploads(u)
  BY <1>1 DEF Uploads
<1>4. DOMAIN step' = Tasks /\ DOMAIN asked' = Tasks /\ DOMAIN given' = Tasks
  BY <1>1 DEF MoveInv
<1>5. \A u \in moving' : u \in Tasks /\ step'[u] = "over"
  BY <1>1 DEF MoveInv
<1>6. ASSUME NEW r \in removed'
      PROVE  /\ r.task \in Tasks /\ step'[r.task] = "over" /\ Copied(r.task)'
             /\ r.at = IF Uploads(r.task)' THEN "local" ELSE given'[r.task].sess
  <2>1. /\ r.task \in Tasks /\ step[r.task] = "over" /\ Copied(r.task)
        /\ r.at = IF Uploads(r.task) THEN "local" ELSE given[r.task].sess
    BY <1>2 DEF MoveInv
  <2>2. Copied(r.task)'
    BY <2>1
  <2> QED
    BY <1>1, <1>3, <2>1, <2>2
<1> QED
  BY <1>4, <1>5, <1>6 DEF MoveInv

\* Nothing is deleted, and no move that is over changes.
LEMMA MoveFrame ==
  ASSUME MoveInv, UNCHANGED <<moving, removed>>,
         \A u \in Tasks : Copied(u) => Copied(u)',
         DOMAIN step' = Tasks, DOMAIN asked' = Tasks, DOMAIN given' = Tasks,
         \A u \in Tasks : step[u] = "over" =>
           step'[u] = "over" /\ asked'[u] = asked[u] /\ given'[u] = given[u]
  PROVE  MoveInv'
  BY DEF MoveInv, Uploads

LEMMA MoveStepKeeps ==
  ASSUME TypeInv, DoneInv, MoveInv, [PageNext]_allVars
  PROVE  MoveInv'
<1>0. \A u \in Tasks : Copied(u) => Copied(u)'
  BY PageStepsAreQueueSteps, CopiedStays
<1>1. ASSUME UNCHANGED <<moving, removed, step, asked, given>> PROVE MoveInv'
  BY <1>0, <1>1, MoveFrame DEF MoveInv
<1>2. CASE UNCHANGED allVars
  BY <1>1, <1>2 DEF allVars, pageVars, moveVars, fileVars
<1>3. CASE ConnectStep
  BY <1>1, <1>3 DEF ConnectStep, Connect, Subscribe, AskHome, Enter, Listed, moveVars, fileVars
<1>4. CASE Service
  BY <1>1, <1>4 DEF Service, DialEnds, SessionEnds, moveVars, fileVars
<1>5. CASE User
  BY <1>1, <1>5 DEF User, Disconnect, PasteInVain, Visit, Cut, moveVars, fileVars
<1>6. ASSUME NEW t \in Tasks, MoveWork(t) PROVE MoveInv'
  <2> DEFINE Elsewhere == /\ DOMAIN step' = Tasks /\ DOMAIN asked' = Tasks /\ DOMAIN given' = Tasks
                          /\ \A u \in Tasks : step[u] = "over" =>
                               step'[u] = "over" /\ asked'[u] = asked[u] /\ given'[u] = given[u]
  <2>1. ASSUME Paste(t) PROVE UNCHANGED <<moving, removed>> /\ Elsewhere
    BY <2>1 DEF Paste, MoveStep, MoveInv, fileVars
  <2>2. ASSUME Check(t) \/ Ask(t) \/ Dismiss(t) \/ Forgo(t) \/ NotStarted(t)
        PROVE  UNCHANGED <<moving, removed>> /\ Elsewhere
    BY <2>2 DEF Check, Ask, Dismiss, Forgo, NotStarted, MoveStep, MoveInv, fileVars
  <2>3. ASSUME Unhindered(t) \/ \E choice \in {"overwrite", "rename", "skip"} : Resume(t, choice)
        PROVE  UNCHANGED <<moving, removed>> /\ Elsewhere
    BY <2>3 DEF Unhindered, Resume, Call, MoveStep, MoveInv, fileVars
  <2>4. ASSUME StartMove(t) PROVE UNCHANGED <<moving, removed>> /\ Elsewhere
    BY <2>4 DEF StartMove, MoveStep, MoveInv, fileVars
  <2>5. CASE Answered(t)
    <3>1. /\ step[t] = "started" /\ step' = [step EXCEPT ![t] = "over"]
          /\ moving' = moving \cup {t} /\ UNCHANGED <<asked, given, removed>>
      BY <2>5 DEF Answered, MoveStep
    <3> QED
      BY <1>0, <3>1 DEF MoveInv, Uploads
  <2> QED
    BY <1>0, <1>6, <2>1, <2>2, <2>3, <2>4, <2>5, MoveFrame DEF MoveWork
<1>7. ASSUME NEW t \in Tasks, StartElsewhere(t) PROVE MoveInv'
  BY <1>1, <1>7 DEF StartElsewhere, pageVars, moveVars, fileVars
<1>8. ASSUME NEW t \in Tasks, TaskWork(t) PROVE MoveInv'
  <2>1. CASE PublishTask(t)
    BY <1>0, <2>1, WatchKeeps DEF PublishTask, DoneInv
  <2>2. CASE OpenFile(t)
    BY <1>1, <2>2 DEF OpenFile, moveVars
  <2>3. CASE Quietly(t)
    BY <1>1, <2>3 DEF Quietly, pageVars, moveVars, fileVars
  <2> QED
    BY <1>8, <2>1, <2>2, <2>3 DEF TaskWork
<1>9. ASSUME NEW k \in Cancels, CancelWork(k) PROVE MoveInv'
  <2>1. CASE UNCHANGED pageVars
    BY <1>1, <2>1 DEF pageVars, moveVars, fileVars
  <2>2. CASE CancelPublish(k) /\ Watch(target[k], heard[k])
    <3>1. target[k] \in Tasks
      BY <2>2 DEF CancelPublish, Turn, TypeInv, LocalsInv
    <3>2. heard[k] = "done" => Copied(target[k])
      BY DEF DoneInv
    <3> QED
      BY <1>0, <2>2, <3>1, <3>2, WatchKeeps
  <2> QED
    BY <1>9, <2>1, <2>2 DEF CancelWork
<1>10. ASSUME NEW k \in Cancels, NEW t \in Tasks, CancelTask(k, t) PROVE MoveInv'
  BY <1>1, <1>10 DEF CancelTask, pageVars, moveVars, fileVars
<1> QED
  BY <1>2, <1>3, <1>4, <1>5, <1>6, <1>7, <1>8, <1>9, <1>10 DEF PageNext

LEMMA PageSafe == PageSpec => [](TypeInv /\ DoneInv /\ MoveInv)
<1>1. PageInit => TypeInv /\ DoneInv /\ MoveInv
  <2> SUFFICES ASSUME PageInit PROVE TypeInv /\ DoneInv /\ MoveInv
    OBVIOUS
  <2>1. TypeInv
    BY InitType DEF PageInit
  <2>2. DoneInv
    BY NoneAssumption DEF PageInit, Init, DoneInv
  <2>3. MoveInv
    BY DEF PageInit, MoveInv
  <2> QED
    BY <2>1, <2>2, <2>3
<1>2. TypeInv /\ DoneInv /\ MoveInv /\ [PageNext]_allVars => (TypeInv /\ DoneInv /\ MoveInv)'
  BY PageStepsAreQueueSteps, TypeStep, DoneStep, MoveStepKeeps
<1> QED
  BY <1>1, <1>2, PTL DEF PageSpec

\* No move deletes a source that was not copied to its end, for any number of
\* tasks, cancels and sessions, whatever the order of events and answers.
THEOREM MovesArrive == PageSpec => []MovedFilesArrive
<1>1. MoveInv => MovedFilesArrive
  BY DEF MoveInv, MovedFilesArrive, Copied
<1> QED
  BY PageSafe, <1>1, PTL

\* No move deletes anything at another end than the one it was copied from, for
\* any number of sessions that come and go while tasks run.
THEOREM DeletesAtSource == PageSpec => []DeletedAtItsSource
<1>1. MoveInv => DeletedAtItsSource
  BY DEF MoveInv, DeletedAtItsSource
<1> QED
  BY PageSafe, <1>1, PTL
=============================================================================
