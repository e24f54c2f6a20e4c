--------------------------- MODULE SessionProofs ---------------------------
(***************************************************************************)
(* The end of a session, for any number of sessions, any capacity of the   *)
(* channel and any amount of output.  Nothing is lost because chunks are   *)
(* conserved until a panic, and because the pump leaves its loop only when *)
(* the reader is done and the channel is empty; the end is told once and   *)
(* truly because whoever tells it, the failed connect or the pump, is the  *)
(* last to have moved the entity.                                          *)
(***************************************************************************)
EXTENDS SessionService, TLAPS

\* Where a connect is before the session runs; where the pump is after its loop.
Connecting == {"dial", "prompt", "auth", "dialled", "refused", "fail", "handoff", "enter"}
Leaving == {"closefs", "close", "remove", "detach", "publish", "done"}

TypeInv ==
  /\ creator \in [Sessions -> Creators] /\ pump \in [Sessions -> Pumps]
  /\ state \in [Sessions -> States] /\ events \in [Sessions -> Seq(States)]
  /\ reader \in [Sessions -> {"off", "read", "send", "done"}]
  /\ readCh \in [Sessions -> Nat] /\ got \in [Sessions -> Nat] /\ acc \in [Sessions -> Nat]
  /\ swallowed \in [Sessions -> Nat] /\ shown \in [Sessions -> Nat]

\* The loops run from StartLoops on; the pump leaves its loop behind the reader.
LoopsInv ==
  \A s \in Sessions :
    /\ creator[s] \notin {"announce", "done"} => pump[s] = "off" /\ reader[s] = "off"
    /\ s \in readChClosed => reader[s] = "done"
    /\ s \in panicked => pump[s] \in Leaving
    /\ pump[s] \in Leaving \cup {"wait"} /\ s \notin panicked =>
         reader[s] = "done" /\ readCh[s] = 0 /\ acc[s] = 0

\* Who has moved the entity so far, and who may have told the end.
Teller(s) == pump[s] = "done" \/ (pump[s] = "off" /\ creator[s] = "done")
EndInv ==
  \A s \in Sessions :
    /\ creator[s] \in Connecting => state[s] = "connecting"
    /\ creator[s] \in {"attach", "start"} \/ pump[s] \notin {"off", "done"} => state[s] = "running"
    /\ \A e \in Final : Published(s, e) => state[s] = e /\ Teller(s)
    /\ Published(s, "closed") => pump[s] = "done" /\ s \notin panicked

SessionInv == TypeInv /\ LoopsInv /\ Conserved /\ EndInv /\ OneTruthfulEnd
-----------------------------------------------------------------------------
(* Publishing.                                                              *)

LEMMA Published1 ==
  ASSUME TypeInv, NEW s \in Sessions, NEW e \in States, Publish(s, e)
  PROVE  /\ events' \in [Sessions -> Seq(States)]
         /\ \A r \in Sessions, f \in States :
              Published(r, f)' <=> (Published(r, f) \/ (r = s /\ f = e))
<1>1. /\ events[s] \in Seq(States) /\ events'[s] = Append(events[s], e)
      /\ \A r \in Sessions : r # s => events'[r] = events[r]
  BY DEF TypeInv, Publish
<1>2. /\ Append(events[s], e) \in Seq(States)
      /\ Len(Append(events[s], e)) = Len(events[s]) + 1 /\ Len(events[s]) \in Nat
      /\ \A i \in 1..Len(events[s]) : Append(events[s], e)[i] = events[s][i]
      /\ Append(events[s], e)[Len(events[s]) + 1] = e
      /\ DOMAIN events[s] = 1..Len(events[s])
      /\ DOMAIN Append(events[s], e) = 1..(Len(events[s]) + 1)
  BY <1>1
<1>3. events' \in [Sessions -> Seq(States)]
  BY <1>1, <1>2 DEF TypeInv, Publish
<1>4. ASSUME NEW f \in States
      PROVE  Published(s, f)' <=> (Published(s, f) \/ f = e)
  BY <1>1, <1>2 DEF Published
<1>5. ASSUME NEW r \in Sessions, r # s, NEW f \in States
      PROVE  Published(r, f)' <=> Published(r, f)
  BY <1>1, <1>5 DEF Published
<1>6. QED
  BY <1>3, <1>4, <1>5

OneEnd(s) == \A i, j \in DOMAIN events[s] : {events[s][i], events[s][j]} \subseteq Final => i = j

\* The one final event stays the one, unless another is told.
LEMMA OneEndKept ==
  ASSUME TypeInv, NEW s \in Sessions, NEW e \in States, Publish(s, e), OneEnd(s),
         e \in Final => \A f \in Final : ~Published(s, f)
  PROVE  OneEnd(s)'
<1>1. /\ events[s] \in Seq(States) /\ events'[s] = Append(events[s], e)
  BY DEF TypeInv, Publish
<1>2. /\ Len(events[s]) \in Nat
      /\ \A i \in 1..Len(events[s]) : events'[s][i] = events[s][i]
      /\ events'[s][Len(events[s]) + 1] = e
      /\ DOMAIN events[s] = 1..Len(events[s])
      /\ DOMAIN events'[s] = 1..(Len(events[s]) + 1)
  BY <1>1
<1>3. SUFFICES ASSUME NEW i \in DOMAIN events'[s], NEW j \in DOMAIN events'[s],
                      {events'[s][i], events'[s][j]} \subseteq Final
               PROVE  i = j
  BY DEF OneEnd
<1>4. CASE i \in DOMAIN events[s] /\ j \in DOMAIN events[s]
  BY <1>2, <1>3, <1>4 DEF OneEnd
<1>5. CASE i \notin DOMAIN events[s] /\ j \notin DOMAIN events[s]
  BY <1>2, <1>5
<1>6. ASSUME NEW k \in DOMAIN events[s], events'[s][k] \in Final, e \in Final
      PROVE  FALSE
  BY <1>2, <1>6 DEF Published
<1>7. QED
  BY <1>2, <1>3, <1>4, <1>5, <1>6
-----------------------------------------------------------------------------
(* Steps that tell nobody.                                                  *)

LEMMA QuietEnd ==
  ASSUME SessionInv, UNCHANGED events, NEW s \in Sessions,
         \A r \in Sessions : r # s =>
           /\ state'[r] = state[r] /\ pump'[r] = pump[r] /\ creator'[r] = creator[r]
           /\ r \in panicked' => r \in panicked,
         creator'[s] \in Connecting => state'[s] = "connecting",
         creator'[s] \in {"attach", "start"} \/ pump'[s] \notin {"off", "done"} =>
           state'[s] = "running",
         \/ \A e \in Final : ~Published(s, e)
         \/ state'[s] = state[s] /\ pump'[s] = pump[s] /\ creator'[s] = creator[s]
            /\ panicked' = panicked
  PROVE  EndInv' /\ OneTruthfulEnd'
<1>1. \A r \in Sessions, e \in States : Published(r, e)' <=> Published(r, e)
  BY DEF Published
<1>2. EndInv'
  BY <1>1 DEF SessionInv, EndInv, Teller, Final, States
<1>3. OneTruthfulEnd'
  <2>1. \A r \in Sessions, e \in Final : Published(r, e) => state'[r] = state[r]
    BY <1>1
  <2>2. QED
    BY <1>1, <2>1 DEF SessionInv, OneTruthfulEnd, Final, States
<1>4. QED
  BY <1>2, <1>3

\* A connect on its way has not told any end, nor has a pump on its way.
LEMMA Untold ==
  ASSUME SessionInv, NEW s \in Sessions,
         (creator[s] # "done" /\ pump[s] = "off") \/ pump[s] \notin {"off", "done"}
  PROVE  \A e \in Final : ~Published(s, e)
BY DEF SessionInv, EndInv, Teller

Flow == <<reader, readCh, readChClosed, got, pump, panicked, acc, swallowed, shown>>

\* Steps of everybody but the loops.
LEMMA QuietFlow ==
  ASSUME SessionInv, UNCHANGED Flow, creator' \in [Sessions -> Creators],
         \A s \in Sessions : creator[s] \in {"announce", "done"} => creator'[s] \in {"announce", "done"},
         state' \in [Sessions -> States], events' \in [Sessions -> Seq(States)]
  PROVE  TypeInv' /\ LoopsInv' /\ Conserved'
<1> USE DEF Flow
<1>1. TypeInv'
  BY DEF SessionInv, TypeInv
<1>2. LoopsInv'
  BY DEF SessionInv, LoopsInv
<1>3. Conserved'
  BY DEF SessionInv, Conserved, InFlight
<1>4. QED
  BY <1>1, <1>2, <1>3
-----------------------------------------------------------------------------
(* Creating a session.                                                      *)

LEMMA ConnectHolds ==
  ASSUME SessionInv, NEW s \in Sessions, CreateLocal(s) \/ CreateSSH(s) \/ Connect(s)
  PROVE  SessionInv'
<1> USE DEF Goto, Set, mapVars, readVars, pumpVars, Creators, States
<1>0. /\ creator[s] \in Creators /\ state[s] \in States
      /\ creator[s] # "done" /\ creator[s] # "announce" => pump[s] = "off" /\ reader[s] = "off"
  BY DEF SessionInv, TypeInv, LoopsInv
<1>1. CASE CreateLocal(s)
  <2>1. /\ creator' = [creator EXCEPT ![s] = "attach"] /\ state' = [state EXCEPT ![s] = "running"]
        /\ creator[s] = "new" /\ UNCHANGED Flow /\ UNCHANGED events
    BY <1>1 DEF CreateLocal, Flow
  <2>2. TypeInv' /\ LoopsInv' /\ Conserved'
    BY <2>1, QuietFlow DEF SessionInv, TypeInv
  <2>3. EndInv' /\ OneTruthfulEnd'
    BY <1>0, <2>1, QuietEnd, Untold DEF SessionInv, TypeInv, Flow, Connecting
  <2>4. QED
    BY <2>2, <2>3 DEF SessionInv
<1>2. CASE CreateSSH(s)
  <2>1. /\ creator' = [creator EXCEPT ![s] = "dial"] /\ state' = [state EXCEPT ![s] = "connecting"]
        /\ creator[s] = "new" /\ UNCHANGED Flow /\ Publish(s, "connecting")
    BY <1>2 DEF CreateSSH, Flow
  <2>2. /\ events' \in [Sessions -> Seq(States)]
        /\ \A r \in Sessions, f \in States :
             Published(r, f)' <=> (Published(r, f) \/ (r = s /\ f = "connecting"))
    BY <2>1, Published1 DEF SessionInv
  <2>3. TypeInv' /\ LoopsInv' /\ Conserved'
    BY <2>1, <2>2, QuietFlow DEF SessionInv, TypeInv
  <2>4. \A e \in Final : ~Published(s, e)
    BY <1>0, <2>1, Untold
  <2>5. EndInv'
    BY <1>0, <2>1, <2>2, <2>4 DEF SessionInv, TypeInv, EndInv, Teller, Final, Flow, Connecting
  <2>6. OneTruthfulEnd'
    <3>1. OneEnd(s)'
      BY <2>1, OneEndKept DEF SessionInv, OneTruthfulEnd, OneEnd, Final
    <3>2. ASSUME NEW r \in Sessions, r # s PROVE OneEnd(r)'
      BY <2>1, <3>2 DEF SessionInv, TypeInv, OneTruthfulEnd, OneEnd, Publish
    <3>3. QED
      BY <2>5, <3>1, <3>2 DEF EndInv, OneTruthfulEnd, OneEnd
  <2>7. QED
    BY <2>3, <2>5, <2>6 DEF SessionInv
<1>3. CASE Dial(s) \/ AwaitHostKey(s) \/ Authenticate(s) \/ StillPresent(s) \/ HandOff(s)
  <2>1. PICK to \in (Connecting \ {"dial"}) \cup {"done"} : creator' = [creator EXCEPT ![s] = to]
    BY <1>3 DEF Dial, AwaitHostKey, Authenticate, StillPresent, HandOff, Connecting
  <2>2. /\ creator[s] \in Connecting \ {"fail", "enter"} /\ UNCHANGED Flow
        /\ UNCHANGED <<state, events>>
    BY <1>3 DEF Dial, AwaitHostKey, Authenticate, StillPresent, HandOff, Connecting, Flow
  <2>3. TypeInv' /\ LoopsInv' /\ Conserved'
    BY <2>1, <2>2, QuietFlow DEF SessionInv, TypeInv, Connecting
  <2>4. EndInv' /\ OneTruthfulEnd'
    <3>1. state[s] = "connecting" /\ pump[s] = "off"
      BY <1>0, <2>2 DEF SessionInv, EndInv, Connecting
    <3>2. \A e \in Final : ~Published(s, e)
      BY <2>2, <3>1, Untold DEF Connecting
    <3>3. creator'[s] = to /\ pump'[s] = "off" /\ state'[s] = "connecting"
      BY <2>1, <2>2, <3>1 DEF SessionInv, TypeInv, Flow
    <3>4. \A r \in Sessions : r # s =>
            /\ state'[r] = state[r] /\ pump'[r] = pump[r] /\ creator'[r] = creator[r]
            /\ r \in panicked' => r \in panicked
      BY <2>1, <2>2 DEF SessionInv, TypeInv, Flow
    <3>5. QED
      BY <2>2, <3>2, <3>3, <3>4, QuietEnd DEF Connecting
  <2>5. QED
    BY <2>3, <2>4 DEF SessionInv
<1>4. CASE ConnectFails(s)
  <2>1. /\ creator' = [creator EXCEPT ![s] = "done"] /\ creator[s] = "fail"
        /\ UNCHANGED Flow /\ Publish(s, "error") /\ TransitionTo(s, "error")
    BY <1>4 DEF ConnectFails, Flow
  <2>2. /\ events' \in [Sessions -> Seq(States)]
        /\ \A r \in Sessions, f \in States :
             Published(r, f)' <=> (Published(r, f) \/ (r = s /\ f = "error"))
    BY <2>1, Published1 DEF SessionInv
  <2>3. state[s] = "connecting" /\ pump[s] = "off"
    BY <1>0, <2>1 DEF SessionInv, EndInv, Connecting
  <2>4. state' = [state EXCEPT ![s] = "error"]
    BY <2>1, <2>3 DEF TransitionTo, Legal
  <2>5. TypeInv' /\ LoopsInv' /\ Conserved'
    BY <2>1, <2>2, <2>4, QuietFlow DEF SessionInv, TypeInv
  <2>6. \A e \in Final : ~Published(s, e)
    BY <2>1, <2>3, Untold
  <2>7. EndInv'
    BY <2>1, <2>2, <2>3, <2>4, <2>6 DEF SessionInv, TypeInv, EndInv, Teller, Final, Flow, Connecting
  <2>8. OneTruthfulEnd'
    <3>1. OneEnd(s)'
      BY <2>1, <2>6, OneEndKept DEF SessionInv, OneTruthfulEnd, OneEnd
    <3>2. ASSUME NEW r \in Sessions, r # s PROVE OneEnd(r)'
      BY <2>1, <3>2 DEF SessionInv, TypeInv, OneTruthfulEnd, OneEnd, Publish
    <3>3. QED
      BY <2>7, <3>1, <3>2 DEF EndInv, OneTruthfulEnd, OneEnd
  <2>9. QED
    BY <2>5, <2>7, <2>8 DEF SessionInv
<1>5. CASE EnterRunning(s)
  <2>1. /\ creator' = [creator EXCEPT ![s] = "attach"] /\ creator[s] = "enter"
        /\ UNCHANGED Flow /\ UNCHANGED events /\ TransitionTo(s, "running")
    BY <1>5 DEF EnterRunning, Flow
  <2>2. state[s] = "connecting" /\ pump[s] = "off"
    BY <1>0, <2>1 DEF SessionInv, EndInv, Connecting
  <2>3. state' = [state EXCEPT ![s] = "running"]
    BY <2>1, <2>2 DEF TransitionTo, Legal
  <2>4. TypeInv' /\ LoopsInv' /\ Conserved'
    BY <2>1, <2>3, QuietFlow DEF SessionInv, TypeInv
  <2>5. EndInv' /\ OneTruthfulEnd'
    BY <2>1, <2>2, <2>3, QuietEnd, Untold DEF SessionInv, TypeInv, Flow, Connecting
  <2>6. QED
    BY <2>4, <2>5 DEF SessionInv
<1>6. CASE AttachObservers(s)
  <2>1. /\ creator' = [creator EXCEPT ![s] = "start"] /\ creator[s] = "attach"
        /\ UNCHANGED Flow /\ UNCHANGED <<state, events>>
    BY <1>6 DEF AttachObservers, Flow
  <2>2. state[s] = "running" /\ pump[s] = "off"
    BY <1>0, <2>1 DEF SessionInv, EndInv
  <2>3. TypeInv' /\ LoopsInv' /\ Conserved'
    BY <2>1, QuietFlow DEF SessionInv, TypeInv
  <2>4. EndInv' /\ OneTruthfulEnd'
    BY <2>1, <2>2, QuietEnd, Untold DEF SessionInv, TypeInv, Flow, Connecting
  <2>5. QED
    BY <2>3, <2>4 DEF SessionInv
<1>7. CASE StartLoops(s)
  <2>1. /\ creator' = [creator EXCEPT ![s] = "announce"] /\ creator[s] = "start"
        /\ reader' = [reader EXCEPT ![s] = "read"] /\ pump' = [pump EXCEPT ![s] = "loop"]
        /\ UNCHANGED <<state, events, readCh, readChClosed, got, panicked, acc, swallowed, shown>>
    BY <1>7 DEF StartLoops
  <2>2. state[s] = "running" /\ pump[s] = "off" /\ reader[s] = "off"
    BY <1>0, <2>1 DEF SessionInv, EndInv
  <2>3. TypeInv'
    BY <2>1 DEF SessionInv, TypeInv, Pumps
  <2>4. LoopsInv'
    BY <2>1, <2>2 DEF SessionInv, TypeInv, LoopsInv, Leaving
  <2>5. Conserved'
    BY <2>1, <2>2 DEF SessionInv, TypeInv, Conserved, InFlight
  <2>6. EndInv' /\ OneTruthfulEnd'
    BY <2>1, <2>2, QuietEnd, Untold DEF SessionInv, TypeInv, Connecting
  <2>7. QED
    BY <2>3, <2>4, <2>5, <2>6 DEF SessionInv
<1>8. CASE AnnounceRunning(s)
  <2>1. /\ creator' = [creator EXCEPT ![s] = "done"] /\ creator[s] = "announce"
        /\ UNCHANGED Flow /\ UNCHANGED state /\ Publish(s, "running")
    BY <1>8 DEF AnnounceRunning, Flow
  <2>2. /\ events' \in [Sessions -> Seq(States)]
        /\ \A r \in Sessions, f \in States :
             Published(r, f)' <=> (Published(r, f) \/ (r = s /\ f = "running"))
    BY <2>1, Published1 DEF SessionInv
  <2>3. TypeInv' /\ LoopsInv' /\ Conserved'
    BY <2>1, <2>2, QuietFlow DEF SessionInv, TypeInv
  <2>4. EndInv'
    BY <2>1, <2>2 DEF SessionInv, TypeInv, EndInv, Teller, Final, Flow, Connecting
  <2>5. OneTruthfulEnd'
    <3>1. OneEnd(s)'
      BY <2>1, OneEndKept DEF SessionInv, OneTruthfulEnd, OneEnd, Final
    <3>2. ASSUME NEW r \in Sessions, r # s PROVE OneEnd(r)'
      BY <2>1, <3>2 DEF SessionInv, TypeInv, OneTruthfulEnd, OneEnd, Publish
    <3>3. QED
      BY <2>4, <3>1, <3>2 DEF EndInv, OneTruthfulEnd, OneEnd
  <2>6. QED
    BY <2>3, <2>4, <2>5 DEF SessionInv
<1>9. QED
  BY <1>1, <1>2, <1>3, <1>4, <1>5, <1>6, <1>7, <1>8 DEF Connect
-----------------------------------------------------------------------------
(* The loops.                                                               *)

\* Steps of the loops that end nothing.
LEMMA LoopEnd ==
  ASSUME SessionInv, NEW s \in Sessions, UNCHANGED <<state, events, creator>>,
         pump[s] \notin {"off", "done"}, pump'[s] \notin {"off", "done"},
         \A r \in Sessions : r # s => pump'[r] = pump[r] /\ (r \in panicked' => r \in panicked)
  PROVE  EndInv' /\ OneTruthfulEnd'
<1>1. state[s] = "running" /\ creator[s] \in {"announce", "done"}
  BY DEF SessionInv, EndInv, LoopsInv
<1>2. \A e \in Final : ~Published(s, e)
  BY Untold
<1>3. QED
  BY <1>1, <1>2, QuietEnd DEF Connecting

LEMMA ReaderHolds ==
  ASSUME SessionInv, NEW s \in Sessions, ReadChunk(s) \/ ReadLoop(s)
  PROVE  SessionInv'
<1> USE DEF Set, Add, mapVars, connVars, pumpVars
<1>1. /\ UNCHANGED <<state, events, creator, pump, panicked, acc, swallowed, shown>>
      /\ reader[s] \in {"read", "send"}
  BY DEF ReadChunk, ReadLoop, SendChunk, ReadFails
<1>2. TypeInv' /\ Conserved'
  <2>0. /\ readCh[s] \in Nat /\ got[s] \in Nat
        /\ \A r \in Sessions : r # s =>
             reader'[r] = reader[r] /\ readCh'[r] = readCh[r] /\ got'[r] = got[r]
    BY DEF ReadChunk, ReadLoop, SendChunk, ReadFails, SessionInv, TypeInv
  <2>1. TypeInv'
    <3>1. CASE ReadChunk(s)
      BY <1>1, <2>0, <3>1 DEF SessionInv, TypeInv, ReadChunk
    <3>2. CASE SendChunk(s)
      BY <1>1, <2>0, <3>2 DEF SessionInv, TypeInv, SendChunk
    <3>3. CASE ReadFails(s)
      BY <1>1, <2>0, <3>3 DEF SessionInv, TypeInv, ReadFails
    <3>4. QED
      BY <3>1, <3>2, <3>3 DEF ReadLoop
  <2>2. got'[s] - InFlight(s)' = got[s] - InFlight(s)
    <3> USE DEF InFlight, SessionInv, TypeInv
    <3>1. CASE ReadChunk(s)
      BY <1>1, <2>0, <3>1 DEF ReadChunk
    <3>2. CASE SendChunk(s)
      BY <1>1, <2>0, <3>2 DEF SendChunk
    <3>3. CASE ReadFails(s)
      BY <1>1, <2>0, <3>3 DEF ReadFails
    <3>4. QED
      BY <3>1, <3>2, <3>3 DEF ReadLoop
  <2>3. \A r \in Sessions : r # s => InFlight(r)' = InFlight(r)
    BY <1>1, <2>0 DEF InFlight
  <2>4. /\ InFlight(s) \in Nat /\ InFlight(s)' \in Nat /\ got'[s] \in Nat
        /\ acc[s] \in Nat /\ swallowed[s] \in Nat /\ shown[s] \in Nat
    <3>1. readCh'[s] \in Nat /\ got'[s] \in Nat
      BY <2>1 DEF TypeInv
    <3>2. acc[s] \in Nat /\ swallowed[s] \in Nat /\ shown[s] \in Nat
      BY DEF SessionInv, TypeInv
    <3>3. InFlight(s) \in Nat /\ InFlight(s)' \in Nat
      BY <2>0, <3>1 DEF InFlight
    <3>4. QED
      BY <3>1, <3>2, <3>3
  <2>5. Conserved'
    BY <1>1, <2>0, <2>2, <2>3, <2>4 DEF Conserved, SessionInv
  <2>6. QED
    BY <2>1, <2>5
<1>3. LoopsInv'
  BY <1>1 DEF SessionInv, TypeInv, LoopsInv, ReadChunk, ReadLoop, SendChunk, ReadFails
<1>4. EndInv' /\ OneTruthfulEnd'
  <2>1. EndInv'
    BY <1>1 DEF SessionInv, EndInv, Published, Teller
  <2>2. OneTruthfulEnd'
    BY <1>1 DEF SessionInv, OneTruthfulEnd, Published
  <2>3. QED
    BY <2>1, <2>2
<1>5. QED
  BY <1>2, <1>3, <1>4 DEF SessionInv

LEMMA PumpHolds ==
  ASSUME SessionInv, NEW s \in Sessions, Pump(s) \/ Flush(s) \/ Panic(s)
  PROVE  SessionInv'
<1> USE DEF Set, Add, PumpGoto, mapVars, connVars, readVars
<1>1. CASE Receive(s) \/ Process(s) \/ Flush(s) \/ DrainEnds(s) \/ Panic(s)
  <2>1. /\ UNCHANGED <<state, events, creator, reader, readChClosed, got>>
        /\ pump[s] \in {"loop", "process"} /\ s \notin panicked
        /\ pump'[s] \in {"loop", "process", "wait", "closefs"}
        /\ \A r \in Sessions : r # s => pump'[r] = pump[r] /\ (r \in panicked' => r \in panicked)
    BY <1>1 DEF Receive, Process, Flush, DrainEnds, Panic, SessionInv, TypeInv, LoopsInv, Leaving
  <2>2. /\ acc[s] \in Nat /\ swallowed[s] \in Nat /\ shown[s] \in Nat /\ readCh[s] \in Nat
        /\ \A r \in Sessions : r # s =>
             /\ acc'[r] = acc[r] /\ swallowed'[r] = swallowed[r] /\ shown'[r] = shown[r]
             /\ readCh'[r] = readCh[r]
    BY <1>1 DEF Receive, Process, Flush, DrainEnds, Panic, SessionInv, TypeInv
  <2>3. TypeInv'
    <3> USE DEF SessionInv, TypeInv, Pumps
    <3>0. pump' \in [Sessions -> Pumps]
      BY <1>1, <2>1 DEF Receive, Process, Flush, DrainEnds, Panic
    <3>1. CASE Receive(s)
      BY <2>1, <2>2, <3>0, <3>1 DEF Receive
    <3>2. CASE Process(s) \/ Flush(s) \/ DrainEnds(s)
      <4>1. acc' \in [Sessions -> Nat]
        <5>1. acc' = acc \/ \E n \in Nat : acc' = [acc EXCEPT ![s] = n]
          BY <2>2, <3>2 DEF Process, Flush, DrainEnds
        <5>2. QED
          BY <5>1
      <4>2. swallowed' \in [Sessions -> Nat]
        <5>1. swallowed' = swallowed \/ \E n \in Nat : swallowed' = [swallowed EXCEPT ![s] = n]
          BY <2>2, <3>2 DEF Process, Flush, DrainEnds
        <5>2. QED
          BY <5>1
      <4>3. shown' \in [Sessions -> Nat]
        <5>1. \E n \in Nat : shown' = [shown EXCEPT ![s] = n]
          BY <2>2, <3>2 DEF Process, Flush, DrainEnds
        <5>2. QED
          BY <5>1
      <4>4. UNCHANGED readCh
        BY <3>2 DEF Process, Flush, DrainEnds
      <4>5. QED
        BY <2>1, <3>0, <4>1, <4>2, <4>3, <4>4
    <3>3. CASE Panic(s)
      BY <2>1, <2>2, <3>0, <3>3 DEF Panic
    <3>4. QED
      BY <1>1, <3>1, <3>2, <3>3
  <2>4. LoopsInv'
    BY <1>1, <2>1 DEF Receive, Process, Flush, DrainEnds, Panic, SessionInv, TypeInv, LoopsInv,
       Leaving
  <2>5. s \notin panicked' =>
          InFlight(s)' + acc'[s] + swallowed'[s] + shown'[s]
            = InFlight(s) + acc[s] + swallowed[s] + shown[s]
    <3> USE DEF InFlight, SessionInv, TypeInv
    <3>1. CASE Receive(s)
      BY <2>1, <2>2, <3>1 DEF Receive
    <3>2. CASE Process(s)
      <4>1. /\ pump[s] = "process" /\ pump'[s] = "loop" /\ UNCHANGED <<reader, readCh>>
        BY <3>2 DEF Process
      <4>2. acc'[s] + swallowed'[s] + shown'[s] = acc[s] + swallowed[s] + shown[s] + 1
        BY <2>2, <3>2 DEF Process
      <4>3. InFlight(s) = InFlight(s)' + 1 /\ InFlight(s)' \in Nat
        BY <2>2, <4>1
      <4>4. /\ acc'[s] \in Nat /\ swallowed'[s] \in Nat /\ shown'[s] \in Nat
        BY <2>3
      <4> HIDE DEF InFlight, SessionInv, TypeInv
      <4>5. QED
        BY <2>2, <4>2, <4>3, <4>4
    <3>3. CASE Flush(s) \/ DrainEnds(s)
      BY <2>1, <2>2, <3>3 DEF Flush, DrainEnds
    <3>4. CASE Panic(s)
      BY <3>4 DEF Panic
    <3>5. QED
      BY <1>1, <3>1, <3>2, <3>3, <3>4
  <2>6. \A r \in Sessions : r # s => InFlight(r)' = InFlight(r)
    BY <2>1, <2>2 DEF InFlight
  <2>7. \A r \in Sessions : r \in panicked => r \in panicked'
    BY <1>1 DEF Receive, Process, Flush, DrainEnds, Panic
  <2>8. Conserved'
    BY <2>1, <2>2, <2>5, <2>6, <2>7 DEF SessionInv, Conserved
  <2>9. QED
    BY <2>1, <2>3, <2>4, <2>8, LoopEnd DEF SessionInv
<1>2. CASE \/ WaitExit(s) \/ CloseFileSystem(s) \/ PumpClose(s) \/ PumpRemove(s)
           \/ DetachObservers(s)
  <2>1. /\ UNCHANGED <<state, events, creator, reader, readCh, readChClosed, got, panicked, acc,
                       swallowed, shown>>
        /\ pump[s] \in (Leaving \cup {"wait"}) \ {"done"}
    BY <1>2 DEF WaitExit, CloseFileSystem, PumpClose, PumpRemove, DetachObservers, Leaving
  <2>2. PICK to \in Leaving \ {"done"} : pump' = [pump EXCEPT ![s] = to]
    BY <1>2 DEF WaitExit, CloseFileSystem, PumpClose, PumpRemove, DetachObservers, Leaving
  <2>3. TypeInv' /\ LoopsInv' /\ Conserved'
    BY <2>1, <2>2 DEF SessionInv, TypeInv, LoopsInv, Conserved, InFlight, Leaving, Pumps
  <2>4. pump'[s] = to /\ \A r \in Sessions : r # s => pump'[r] = pump[r]
    BY <2>2 DEF SessionInv, TypeInv
  <2>5. QED
    BY <2>1, <2>2, <2>3, <2>4, LoopEnd DEF SessionInv, Leaving
<1>3. CASE PublishEnd(s)
  <2> PICK e \in Final : /\ e = (IF s \in panicked THEN "error" ELSE "closed")
                         /\ TransitionTo(s, e) /\ Publish(s, e)
    BY <1>3 DEF PublishEnd, Final
  <2>1. /\ UNCHANGED <<creator, reader, readCh, readChClosed, got, panicked, acc, swallowed, shown>>
        /\ pump[s] = "publish" /\ pump' = [pump EXCEPT ![s] = "done"]
    BY <1>3 DEF PublishEnd
  <2>2. state[s] = "running" /\ e \in States
    BY <2>1 DEF SessionInv, EndInv, Final, States
  <2>3. state' = [state EXCEPT ![s] = e]
    BY <2>2 DEF TransitionTo, Legal, Final
  <2>4. /\ events' \in [Sessions -> Seq(States)]
        /\ \A r \in Sessions, f \in States :
             Published(r, f)' <=> (Published(r, f) \/ (r = s /\ f = e))
    BY <2>2, Published1 DEF SessionInv
  <2>5. TypeInv' /\ LoopsInv' /\ Conserved'
    BY <2>1, <2>2, <2>3, <2>4 DEF SessionInv, TypeInv, LoopsInv, Conserved, InFlight, Leaving, Pumps
  <2>6. \A f \in Final : ~Published(s, f)
    BY <2>1, Untold
  <2>7. creator[s] \in {"announce", "done"}
    BY <2>1 DEF SessionInv, LoopsInv
  <2>8. EndInv'
    BY <2>1, <2>2, <2>3, <2>4, <2>6, <2>7
    DEF SessionInv, TypeInv, EndInv, Teller, Final, States, Connecting
  <2>9. OneTruthfulEnd'
    <3>1. OneEnd(s)'
      BY <2>2, <2>6, OneEndKept DEF SessionInv, OneTruthfulEnd, OneEnd
    <3>2. ASSUME NEW r \in Sessions, r # s PROVE OneEnd(r)'
      BY <3>2 DEF SessionInv, TypeInv, OneTruthfulEnd, OneEnd, Publish
    <3>3. QED
      BY <2>8, <3>1, <3>2 DEF EndInv, OneTruthfulEnd, OneEnd
  <2>10. QED
    BY <2>5, <2>8, <2>9 DEF SessionInv
<1>4. QED
  BY <1>1, <1>2, <1>3 DEF Pump
-----------------------------------------------------------------------------
(* The theorems.                                                            *)

LEMMA SessionStarts == Init => SessionInv
<1> SUFFICES ASSUME Init PROVE SessionInv
  OBVIOUS
<1>1. TypeInv
  BY DEF Init, TypeInv, Creators, Pumps, States
<1>2. LoopsInv /\ Conserved
  BY DEF Init, LoopsInv, Conserved, InFlight, Leaving
<1>3. EndInv /\ OneTruthfulEnd
  BY DEF Init, EndInv, OneTruthfulEnd, Published, Connecting
<1>4. QED
  BY <1>1, <1>2, <1>3 DEF SessionInv

LEMMA SessionHolds == SessionInv /\ [Next]_vars => SessionInv'
<1> SUFFICES ASSUME SessionInv, [Next]_vars PROVE SessionInv'
  OBVIOUS
<1>1. ASSUME UNCHANGED Flow, UNCHANGED <<state, events, creator>> PROVE SessionInv'
  <2>1. TypeInv' /\ LoopsInv' /\ Conserved'
    BY <1>1, QuietFlow DEF SessionInv, TypeInv
  <2>2. EndInv' /\ OneTruthfulEnd'
    BY <1>1 DEF Flow, SessionInv, EndInv, OneTruthfulEnd, Published, Teller
  <2>3. QED
    BY <2>1, <2>2 DEF SessionInv
<1>2. CASE CloseAll \/ CloseAllWait \/ UNCHANGED vars
  BY <1>1, <1>2 DEF CloseAll, CloseAllWait, vars, Flow, mapVars, connVars, readVars, pumpVars
<1>3. ASSUME NEW s \in Sessions,
             \/ Close(s) \/ FileSystem(s) \/ CloseCancel(s) \/ OpenFileSystem(s) \/ CloseNext(s)
             \/ RemoteEnds(s) \/ \E a \in HostKeyAnswers : RespondHostKey(s, a)
      PROVE  SessionInv'
  BY <1>1, <1>3 DEF Close, FileSystem, CloseCancel, OpenFileSystem, CloseNext, RemoteEnds,
     RespondHostKey, Flow, mapVars, connVars, readVars, pumpVars
<1>4. QED
  BY <1>2, <1>3, ConnectHolds, ReaderHolds, PumpHolds DEF Next, User

\* However closes, exits and a full channel coincide, what was read of a session
\* that was closed has been shown or kept by a middleware.
THEOREM NothingLost == Spec => []NothingLostAtClose
<1>1. SessionInv => NothingLostAtClose
  <2> SUFFICES ASSUME SessionInv, NEW s \in Sessions, Published(s, "closed")
               PROVE  got[s] = swallowed[s] + shown[s]
    BY DEF NothingLostAtClose
  <2>1. pump[s] = "done" /\ s \notin panicked
    BY DEF SessionInv, EndInv
  <2>2. reader[s] = "done" /\ readCh[s] = 0 /\ acc[s] = 0
    BY <2>1 DEF SessionInv, LoopsInv, Leaving
  <2>3. InFlight(s) = 0
    BY <2>1, <2>2 DEF InFlight
  <2>4. got[s] = InFlight(s) + acc[s] + swallowed[s] + shown[s]
    BY <2>1 DEF SessionInv, Conserved
  <2>5. swallowed[s] \in Nat /\ shown[s] \in Nat
    BY DEF SessionInv, TypeInv
  <2>6. QED
    BY <2>2, <2>3, <2>4, <2>5
<1>2. QED
  BY <1>1, SessionStarts, SessionHolds, PTL DEF Spec

\* A session ends once, and the event tells the state of its entity.
THEOREM TruthfulEnd == Spec => []OneTruthfulEnd
<1>1. SessionInv => OneTruthfulEnd
  BY DEF SessionInv
<1>2. QED
  BY <1>1, SessionStarts, SessionHolds, PTL DEF Spec
=============================================================================
