---------------------------- MODULE ZmodemProofs ----------------------------
(***************************************************************************)
(* ZMODEM, for any files, lines and transfers.                             *)
(*                                                                         *)
(* Of Zmodem: which transfer a session's output belongs to.  As long as no *)
(* watchdog has fired, a transfer keeps the phase from its start until its *)
(* engine's last critical section, cancelled or not, and while it keeps    *)
(* the phase nobody starts another; a watchdog that fires is what breaks   *)
(* this, for its engine may return after a later transfer has begun.       *)
(*                                                                         *)
(* Of ZmodemEngine: an exchange implements FileDelivery.  The sender goes  *)
(* by the type of what it hears, so what has to be known of a line that    *)
(* loses, delays and echoes is which types can be on it, and in which      *)
(* order, wherever the two ends are.                                       *)
(***************************************************************************)
EXTENDS Zmodem, ZmodemEngine, SequenceTheorems, TLAPS

EngineStates == {"new", "run", "write", "nak", "close", "lock", "done"}
DogStates == {"off", "watch", "fire", "fired", "left"}

NoDogFired == \A t \in Transfers : dog[t] # "fired"
Begun(t) == engine[t] \notin {"new", "done"}

\* A transfer that began and whose engine is not done has the phase.
KeepsThePhase == NoDogFired => \A t \in Transfers : Begun(t) => phase = "active" /\ taskID = t

OutputInv ==
  /\ engine \in [Transfers -> EngineStates] /\ dog \in [Transfers -> DogStates]
  /\ taskID \in Transfers \cup {None}
  /\ ActiveIsComplete
  /\ KeepsThePhase
-----------------------------------------------------------------------------
LEMMA OutputStarts == Init => OutputInv
BY DEF Init, OutputInv, ActiveIsComplete, KeepsThePhase, Begun, EngineStates, DogStates

\* Steps that start nothing, end nothing and leave the phase where it is.
LEMMA OutputRests ==
  ASSUME OutputInv, UNCHANGED stVars,
         engine' \in [Transfers -> EngineStates], dog' \in [Transfers -> DogStates],
         \A t \in Transfers : engine'[t] \notin {"new", "done"} => Begun(t),
         \A t \in Transfers : dog[t] = "fired" => dog'[t] = "fired"
  PROVE  OutputInv'
BY DEF OutputInv, ActiveIsComplete, KeepsThePhase, NoDogFired, Begun, stVars

LEMMA OutputBegins ==
  ASSUME OutputInv, NEW t \in Transfers, BeginTransferLocked(t), phase # "active"
  PROVE  OutputInv'
<1>1. /\ engine[t] = "new" /\ engine' = [engine EXCEPT ![t] = "run"]
      /\ dog[t] = "off" /\ dog' = [dog EXCEPT ![t] = "watch"]
      /\ phase' = "active" /\ taskID' = t /\ conduit' = t /\ cancel' = t
  BY DEF BeginTransferLocked, EngineGoto, DogGoto
<1>2. engine' \in [Transfers -> EngineStates] /\ dog' \in [Transfers -> DogStates]
  BY <1>1 DEF OutputInv, EngineStates, DogStates
<1>3. NoDogFired' => NoDogFired
  BY <1>1 DEF NoDogFired, OutputInv
<1>4. KeepsThePhase'
  BY <1>1, <1>3 DEF OutputInv, KeepsThePhase, Begun
<1>5. QED
  BY <1>1, <1>2, <1>4, NoneAssumption DEF OutputInv, ActiveIsComplete

\* The phase is given up by a transfer's own last critical section, or when
\* nothing has it.
LEMMA OutputEnds ==
  ASSUME OutputInv, phase' # "active", UNCHANGED taskID,
         engine' \in [Transfers -> EngineStates], dog' \in [Transfers -> DogStates],
         NoDogFired' => NoDogFired /\ \A t \in Transfers : engine'[t] \in {"new", "done"}
  PROVE  OutputInv'
BY DEF OutputInv, ActiveIsComplete, KeepsThePhase, Begun

LEMMA OutputHolds == OutputInv /\ [Next]_vars => OutputInv'
<1> SUFFICES ASSUME OutputInv, [Next]_vars PROVE OutputInv'
  OBVIOUS
<1>0. /\ engine \in [Transfers -> EngineStates] /\ dog \in [Transfers -> DogStates]
      /\ phase # "active" /\ NoDogFired => \A t \in Transfers : engine[t] \in {"new", "done"}
  BY DEF OutputInv, KeepsThePhase, Begun
<1>1. ASSUME UNCHANGED <<stVars, engine, dog>> PROVE OutputInv'
  BY <1>0, <1>1, OutputRests DEF Begun
<1>2. CASE User
  <2>1. ASSUME NEW t \in Transfers, StartZmodemSend(t) PROVE OutputInv'
    BY <2>1, OutputBegins DEF StartZmodemSend
  <2>2. CASE CancelActive
    BY <1>1, <2>2 DEF CancelActive, engineVars, dogVars
  <2>3. CASE CancelWaiting
    <3>1. phase # "active" /\ phase' # "active" /\ UNCHANGED <<taskID, engine, dog>>
      BY <2>3 DEF CancelWaiting, dogVars
    <3>2. QED
      BY <1>0, <3>1, OutputEnds DEF NoDogFired
  <2>4. QED
    BY <1>2, <2>1, <2>2, <2>3 DEF User
<1>3. CASE Output
  <2>1. CASE OnOutputActive \/ Detach \/ DetachState
    BY <1>1, <2>1 DEF OnOutputActive, Detach, DetachState, engineVars, dogVars
  <2>2. CASE OnUpload
    <3>1. phase # "active" /\ phase' # "active" /\ UNCHANGED <<taskID, engine, dog>>
      BY <2>2 DEF OnUpload, engineVars, dogVars
    <3>2. QED
      BY <1>0, <3>1, OutputEnds DEF NoDogFired
  <2>3. ASSUME NEW t \in Transfers, OnDownload(t) PROVE OutputInv'
    BY <2>3, OutputBegins DEF OnDownload
  <2>4. QED
    BY <1>3, <2>1, <2>2, <2>3 DEF Output
<1>4. CASE CancelWritten \/ Jam \/ Unjam
  BY <1>1, <1>4 DEF CancelWritten, Jam, Unjam, engineVars, dogVars
<1>5. ASSUME NEW t \in Transfers, Push(t) \/ EngineRead(t) \/ Stall(t) PROVE OutputInv'
  BY <1>1, <1>5 DEF Push, EngineRead, Stall, engineVars, dogVars
<1>6. ASSUME NEW t \in Transfers,
             EngineWrite(t) \/ EngineReturn(t) \/ EngineNak(t) \/ EngineClose(t)
      PROVE  OutputInv'
  <2>1. PICK to \in {"run", "write", "nak", "close", "lock"} :
           Begun(t) /\ engine' = [engine EXCEPT ![t] = to]
    BY <1>6 DEF EngineWrite, EngineReturn, EngineNak, EngineClose, EngineGoto, Begun
  <2>2. UNCHANGED stVars /\ UNCHANGED dog
    BY <1>6 DEF EngineWrite, EngineReturn, EngineNak, EngineClose, dogVars
  <2>3. QED
    BY <1>0, <2>1, <2>2, OutputRests DEF EngineStates, Begun
<1>7. ASSUME NEW t \in Transfers, EngineLock(t) PROVE OutputInv'
  <2>1. /\ engine[t] = "lock" /\ engine' = [engine EXCEPT ![t] = "done"]
        /\ phase' = "draining" /\ UNCHANGED <<taskID, dog>>
    BY <1>7 DEF EngineLock, EngineGoto, BeginDrainLocked, dogVars
  <2>2. NoDogFired => \A u \in Transfers : u # t => engine[u] \in {"new", "done"}
    BY <2>1 DEF OutputInv, KeepsThePhase, Begun
  <2>3. NoDogFired' => NoDogFired
    BY <2>1 DEF NoDogFired
  <2>4. engine' \in [Transfers -> EngineStates]
    BY <1>0, <2>1 DEF EngineStates
  <2>5. \A u \in Transfers : engine'[u] = IF u = t THEN "done" ELSE engine[u]
    BY <1>0, <2>1
  <2>6. QED
    BY <1>0, <2>1, <2>2, <2>3, <2>4, <2>5, OutputEnds
<1>8. ASSUME NEW t \in Transfers, DogLeaves(t) \/ DogFires(t) PROVE OutputInv'
  <2>1. PICK to \in {"left", "fire"} : dog[t] = "watch" /\ dog' = [dog EXCEPT ![t] = to]
    BY <1>8 DEF DogLeaves, DogFires, DogGoto
  <2>2. UNCHANGED stVars /\ UNCHANGED engine
    BY <1>8 DEF DogLeaves, DogFires, engineVars
  <2>3. QED
    BY <1>0, <2>1, <2>2, OutputRests DEF DogStates, Begun
<1>9. ASSUME NEW t \in Transfers, DogWritten(t) PROVE OutputInv'
  <2>1. /\ dog' = [dog EXCEPT ![t] = "fired"] /\ phase' = "draining" /\ UNCHANGED <<taskID, engine>>
    BY <1>9 DEF DogWritten, DogGoto, BeginDrainLocked
  <2>2. ~NoDogFired'
    BY <1>0, <2>1 DEF NoDogFired
  <2>3. QED
    BY <1>0, <2>1, <2>2, OutputEnds DEF DogStates
<1>10. ASSUME NEW g \in Gens, DrainEnds(g) PROVE OutputInv'
  <2>1. CASE UNCHANGED phase
    BY <1>1, <1>10, <2>1 DEF DrainEnds, stVars, engineVars, dogVars
  <2>2. CASE phase = "draining" /\ phase' = "idle"
    <3>1. UNCHANGED <<taskID, engine, dog>>
      BY <1>10 DEF DrainEnds, engineVars, dogVars
    <3>2. QED
      BY <1>0, <2>2, <3>1, OutputEnds DEF NoDogFired
  <2>3. QED
    BY <1>10, <2>1, <2>2 DEF DrainEnds
<1>11. CASE Unblock \/ UNCHANGED vars
  BY <1>1, <1>11 DEF Unblock, vars, engineVars, dogVars
<1>12. QED
  BY <1>2, <1>3, <1>4, <1>5, <1>6, <1>7, <1>8, <1>9, <1>10, <1>11
  DEF Next, Goroutines, AfterEngine, Dog

LEMMA OutputInvariant == Spec => []OutputInv
BY OutputStarts, OutputHolds, PTL DEF Spec

\* Output is pushed into the conduit of the transfer the phase speaks of, and a
\* cancel reaches that transfer.
THEOREM Complete == Spec => []ActiveIsComplete
<1>1. OutputInv => ActiveIsComplete
  BY DEF OutputInv
<1>2. QED
  BY <1>1, OutputInvariant, PTL

\* As long as no watchdog fired, a running transfer that nobody cancelled is the
\* one output goes to.
THEOREM Owns == Spec => []OwnsTheOutput
<1>1. OutputInv => OwnsTheOutput
  BY DEF OutputInv, KeepsThePhase, NoDogFired, Begun, OwnsTheOutput, Undisturbed, Running
<1>2. QED
  BY <1>1, OutputInvariant, PTL
-----------------------------------------------------------------------------
(* ------------------------- frames on their way ------------------------- *)

Sequence(s) == s \in Seq({s[i] : i \in 1..Len(s)})

\* Which types are on the way, and in which order.
Has(q, T) == \E i \in 1..Len(q) : q[i].t \in T
Only(q, T) == \A i \in 1..Len(q) : q[i].t \in T
NoneAfter(q, A, B) == \A i, j \in 1..Len(q) : i < j /\ q[i].t \in A => q[j].t \notin B

\* A sequence over any set is one over the set of its elements.
LEMMA FrameSequence ==
  ASSUME NEW S, NEW s \in Seq(S)
  PROVE  Sequence(s)
<1>1. Len(s) \in Nat /\ s \in [1..Len(s) -> S]
  BY LenProperties
<1>2. DEFINE T == {s[i] : i \in 1..Len(s)}
<1>3. s \in [1..Len(s) -> T]
  BY <1>1
<1>4. s \in Seq(T)
  BY <1>1, <1>3
<1> QED
  BY <1>4 DEF Sequence

LEMMA FrameJoin ==
  ASSUME NEW q, NEW w, Sequence(q), Sequence(w)
  PROVE  /\ Sequence(q \o w) /\ Len(q) \in Nat /\ Len(w) \in Nat
         /\ Len(q \o w) = Len(q) + Len(w)
         /\ \A i \in 1..Len(q) : (q \o w)[i] = q[i]
         /\ \A i \in 1..Len(w) : (q \o w)[Len(q) + i] = w[i]
<1>1. DEFINE A == {q[i] : i \in 1..Len(q)}
             B == {w[i] : i \in 1..Len(w)}
<1>2. q \in [1..Len(q) -> A \cup B] /\ Len(q) \in Nat
  <2>1. q \in Seq(A)
    BY DEF Sequence
  <2>2. q \in [1..Len(q) -> A] /\ Len(q) \in Nat
    BY <2>1, LenProperties
  <2> QED
    BY <2>2
<1>3. w \in [1..Len(w) -> A \cup B] /\ Len(w) \in Nat
  <2>1. w \in Seq(B)
    BY DEF Sequence
  <2>2. w \in [1..Len(w) -> B] /\ Len(w) \in Nat
    BY <2>1, LenProperties
  <2> QED
    BY <2>2
<1>4. q \in Seq(A \cup B) /\ w \in Seq(A \cup B)
  BY <1>2, <1>3
<1>5. /\ q \o w \in Seq(A \cup B) /\ Len(q \o w) = Len(q) + Len(w)
      /\ \A i \in 1..Len(q) + Len(w) :
           (q \o w)[i] = IF i <= Len(q) THEN q[i] ELSE w[i - Len(q)]
  BY <1>4, ConcatProperties
<1>6. Sequence(q \o w)
  BY <1>5, FrameSequence
<1> HIDE DEF A, B
<1> QED
  BY <1>2, <1>3, <1>5, <1>6

\* The types on a line to which w is added.
LEMMA TypesJoined ==
  ASSUME NEW q, NEW w, Sequence(q), Sequence(w), NEW A, NEW B
  PROVE  /\ Has(q \o w, A) <=> Has(q, A) \/ Has(w, A)
         /\ Only(q \o w, A) <=> Only(q, A) /\ Only(w, A)
         /\ NoneAfter(q \o w, A, B) <=> /\ NoneAfter(q, A, B) /\ NoneAfter(w, A, B)
                                        /\ ~(Has(q, A) /\ Has(w, B))
<1> DEFINE r == q \o w
           m == Len(q)
           n == Len(w)
<1>1. /\ m \in Nat /\ n \in Nat /\ Len(r) = m + n /\ Len(q) = m /\ Len(w) = n
      /\ \A i \in 1..m : r[i] = q[i]
      /\ \A i \in 1..n : r[m + i] = w[i]
  BY FrameJoin
<1> HIDE DEF r, m, n
<1>2. \A i \in 1..m + n : i \in 1..m \/ \E k \in 1..n : i = m + k
  <2> TAKE i \in 1..m + n
  <2>1. CASE i > m
    <3>1. i - m \in 1..n /\ i = m + (i - m)
      BY <1>1, <2>1
    <3> QED
      BY <3>1
  <2> QED
    BY <1>1, <2>1
<1>3. Has(r, A) <=> Has(q, A) \/ Has(w, A)
  <2>1. ASSUME NEW i \in 1..Len(r), r[i].t \in A PROVE Has(q, A) \/ Has(w, A)
    <3>1. i \in 1..m \/ \E k \in 1..n : i = m + k
      BY <1>1, <1>2
    <3>2. CASE i \in 1..m
      BY <1>1, <2>1, <3>2 DEF Has
    <3>3. CASE \E k \in 1..n : i = m + k
      BY <1>1, <2>1, <3>3 DEF Has
    <3> QED
      BY <3>1, <3>2, <3>3
  <2>2. ASSUME NEW i \in 1..m, q[i].t \in A PROVE Has(r, A)
    BY <1>1, <2>2 DEF Has
  <2>3. ASSUME NEW i \in 1..n, w[i].t \in A PROVE Has(r, A)
    <3>1. m + i \in 1..Len(r) /\ r[m + i].t \in A
      BY <1>1, <2>3
    <3> QED
      BY <3>1 DEF Has
  <2> QED
    BY <1>1, <2>1, <2>2, <2>3 DEF Has
<1>4. Only(r, A) <=> Only(q, A) /\ Only(w, A)
  <2>1. ASSUME Only(r, A) PROVE Only(q, A) /\ Only(w, A)
    <3>1. \A i \in 1..m : q[i].t \in A
      BY <1>1, <2>1 DEF Only
    <3>2. ASSUME NEW i \in 1..n PROVE w[i].t \in A
      <4>1. m + i \in 1..Len(r) /\ r[m + i] = w[i]
        BY <1>1
      <4> QED
        BY <2>1, <4>1 DEF Only
    <3> QED
      BY <1>1, <3>1, <3>2 DEF Only
  <2>2. ASSUME Only(q, A), Only(w, A) PROVE Only(r, A)
    <3> SUFFICES ASSUME NEW i \in 1..Len(r) PROVE r[i].t \in A
      BY DEF Only
    <3>1. i \in 1..m \/ \E k \in 1..n : i = m + k
      BY <1>1, <1>2
    <3>2. CASE i \in 1..m
      BY <1>1, <2>2, <3>2 DEF Only
    <3>3. CASE \E k \in 1..n : i = m + k
      BY <1>1, <2>2, <3>3 DEF Only
    <3> QED
      BY <3>1, <3>2, <3>3
  <2> QED
    BY <2>1, <2>2
<1>5. NoneAfter(r, A, B) =>
        NoneAfter(q, A, B) /\ NoneAfter(w, A, B) /\ ~(Has(q, A) /\ Has(w, B))
  <2> SUFFICES ASSUME NoneAfter(r, A, B)
               PROVE  NoneAfter(q, A, B) /\ NoneAfter(w, A, B) /\ ~(Has(q, A) /\ Has(w, B))
    OBVIOUS
  <2>1. NoneAfter(q, A, B)
    BY <1>1 DEF NoneAfter
  <2>2. ASSUME NEW i \in 1..n, NEW j \in 1..n, i < j, w[i].t \in A PROVE w[j].t \notin B
    <3>1. /\ m + i \in 1..Len(r) /\ m + j \in 1..Len(r) /\ m + i < m + j
          /\ r[m + i] = w[i] /\ r[m + j] = w[j]
      BY <1>1, <2>2
    <3> QED
      BY <2>2, <3>1 DEF NoneAfter
  <2>3. ASSUME NEW i \in 1..m, NEW j \in 1..n, q[i].t \in A PROVE w[j].t \notin B
    <3>1. /\ i \in 1..Len(r) /\ m + j \in 1..Len(r) /\ i < m + j
          /\ r[i] = q[i] /\ r[m + j] = w[j]
      BY <1>1
    <3> QED
      BY <2>3, <3>1 DEF NoneAfter
  <2> QED
    BY <1>1, <2>1, <2>2, <2>3 DEF NoneAfter, Has
<1>6. ASSUME NoneAfter(q, A, B), NoneAfter(w, A, B), ~(Has(q, A) /\ Has(w, B))
      PROVE  NoneAfter(r, A, B)
  <2> SUFFICES ASSUME NEW i \in 1..Len(r), NEW j \in 1..Len(r), i < j, r[i].t \in A, r[j].t \in B
               PROVE  FALSE
    BY DEF NoneAfter
  <2>1. CASE i \in 1..m /\ j \in 1..m
    BY <1>1, <1>6, <2>1 DEF NoneAfter
  <2>2. CASE i \in 1..m /\ \E k \in 1..n : j = m + k
    BY <1>1, <1>6, <2>2 DEF Has
  <2>3. CASE (\E k \in 1..n : i = m + k) /\ (\E k \in 1..n : j = m + k)
    <3>1. PICK k \in 1..n : i = m + k
      BY <2>3
    <3>2. PICK l \in 1..n : j = m + l
      BY <2>3
    <3>3. k < l /\ r[i] = w[k] /\ r[j] = w[l]
      BY <1>1, <3>1, <3>2
    <3> QED
      BY <1>1, <1>6, <3>3 DEF NoneAfter
  <2>4. ~(j \in 1..m /\ \E k \in 1..n : i = m + k)
    BY <1>1
  <2> QED
    BY <1>1, <1>2, <2>1, <2>2, <2>3, <2>4
<1> QED
  BY <1>3, <1>4, <1>5, <1>6 DEF r

\* The types of a few frames.
LEMMA FewFrames ==
  /\ Sequence(<<>>) /\ \A A, B : ~Has(<<>>, A) /\ Only(<<>>, A) /\ NoneAfter(<<>>, A, B)
  /\ \A a : /\ Sequence(<<a>>)
            /\ \A A, B : /\ Has(<<a>>, A) <=> a.t \in A
                         /\ Only(<<a>>, A) <=> a.t \in A
                         /\ NoneAfter(<<a>>, A, B)
  /\ \A a, b : /\ Sequence(<<a, b>>)
               /\ \A A, B : /\ Has(<<a, b>>, A) <=> a.t \in A \/ b.t \in A
                            /\ Only(<<a, b>>, A) <=> a.t \in A /\ b.t \in A
                            /\ NoneAfter(<<a, b>>, A, B) <=> ~(a.t \in A /\ b.t \in B)
  /\ \A a, b, c : /\ Sequence(<<a, b, c>>)
                  /\ \A A, B : /\ Has(<<a, b, c>>, A) <=> {a.t, b.t, c.t} \cap A # {}
                               /\ Only(<<a, b, c>>, A) <=> {a.t, b.t, c.t} \subseteq A
                               /\ NoneAfter(<<a, b, c>>, A, B)
                                    <=> ~(a.t \in A /\ {b.t, c.t} \cap B # {})
                                        /\ ~(b.t \in A /\ c.t \in B)
<1>1. Sequence(<<>>) /\ Len(<<>>) = 0
  <2>1. <<>> \in Seq({})
    OBVIOUS
  <2> QED
    BY <2>1, FrameSequence
<1>2. ASSUME NEW a
      PROVE  Sequence(<<a>>) /\ Len(<<a>>) = 1 /\ <<a>>[1] = a
  <2>1. <<a>> \in Seq({a})
    OBVIOUS
  <2> QED
    BY <2>1, FrameSequence
<1>3. ASSUME NEW a, NEW b
      PROVE  Sequence(<<a, b>>) /\ Len(<<a, b>>) = 2 /\ <<a, b>>[1] = a /\ <<a, b>>[2] = b
  <2>1. <<a, b>> \in Seq({a, b})
    OBVIOUS
  <2> QED
    BY <2>1, FrameSequence
<1>4. ASSUME NEW a, NEW b, NEW c
      PROVE  /\ Sequence(<<a, b, c>>) /\ Len(<<a, b, c>>) = 3
             /\ <<a, b, c>>[1] = a /\ <<a, b, c>>[2] = b /\ <<a, b, c>>[3] = c
  <2>1. <<a, b, c>> \in Seq({a, b, c})
    OBVIOUS
  <2> QED
    BY <2>1, FrameSequence
<1>5. \A A, B : ~Has(<<>>, A) /\ Only(<<>>, A) /\ NoneAfter(<<>>, A, B)
  BY <1>1 DEF Has, Only, NoneAfter
<1>6. ASSUME NEW a, NEW A, NEW B
      PROVE  /\ Has(<<a>>, A) <=> a.t \in A
             /\ Only(<<a>>, A) <=> a.t \in A
             /\ NoneAfter(<<a>>, A, B)
  BY <1>2 DEF Has, Only, NoneAfter
<1>7. ASSUME NEW a, NEW b, NEW A, NEW B
      PROVE  /\ Has(<<a, b>>, A) <=> a.t \in A \/ b.t \in A
             /\ Only(<<a, b>>, A) <=> a.t \in A /\ b.t \in A
             /\ NoneAfter(<<a, b>>, A, B) <=> ~(a.t \in A /\ b.t \in B)
  <2> DEFINE q == <<a, b>>
  <2>1. Len(q) = 2 /\ q[1] = a /\ q[2] = b
    BY <1>3
  <2>2. 1..2 = {1, 2}
    OBVIOUS
  <2> HIDE DEF q
  <2>3. /\ Has(q, A) <=> a.t \in A \/ b.t \in A
        /\ Only(q, A) <=> a.t \in A /\ b.t \in A
    BY <2>1, <2>2 DEF Has, Only
  <2>4. NoneAfter(q, A, B) <=> ~(a.t \in A /\ b.t \in B)
    BY <2>1 DEF NoneAfter
  <2> QED
    BY <2>3, <2>4 DEF q
<1>8. ASSUME NEW a, NEW b, NEW c, NEW A, NEW B
      PROVE  /\ Has(<<a, b, c>>, A) <=> {a.t, b.t, c.t} \cap A # {}
             /\ Only(<<a, b, c>>, A) <=> {a.t, b.t, c.t} \subseteq A
             /\ NoneAfter(<<a, b, c>>, A, B) <=> /\ ~(a.t \in A /\ {b.t, c.t} \cap B # {})
                                                 /\ ~(b.t \in A /\ c.t \in B)
  <2> DEFINE q == <<a, b, c>>
  <2>1. Len(q) = 3 /\ q[1] = a /\ q[2] = b /\ q[3] = c
    BY <1>4
  <2>2. 1..3 = {1, 2, 3}
    OBVIOUS
  <2> HIDE DEF q
  <2>3. /\ Has(q, A) <=> {a.t, b.t, c.t} \cap A # {}
        /\ Only(q, A) <=> {a.t, b.t, c.t} \subseteq A
    BY <2>1, <2>2 DEF Has, Only
  <2>4. NoneAfter(q, A, B) <=> /\ ~(a.t \in A /\ {b.t, c.t} \cap B # {})
                               /\ ~(b.t \in A /\ c.t \in B)
    BY <2>1 DEF NoneAfter
  <2> QED
    BY <2>3, <2>4 DEF q
<1> QED
  BY <1>1, <1>2, <1>3, <1>4, <1>5, <1>6, <1>7, <1>8

\* What taking the first frame leaves.
LEMMA TypesTaken ==
  ASSUME NEW q, Sequence(q), q # <<>>, NEW A, NEW B
  PROVE  /\ Sequence(Tail(q))
         /\ Has(q, A) <=> Head(q).t \in A \/ Has(Tail(q), A)
         /\ Only(q, A) <=> Head(q).t \in A /\ Only(Tail(q), A)
         /\ NoneAfter(q, A, B) <=> /\ NoneAfter(Tail(q), A, B)
                                   /\ ~(Head(q).t \in A /\ Has(Tail(q), B))
<1> DEFINE T == {q[i] : i \in 1..Len(q)}
           h == Head(q)
<1>1. q \in Seq(T)
  BY DEF Sequence
<1>2. Tail(q) \in Seq(T) /\ Sequence(Tail(q))
  <2>1. Tail(q) \in Seq(T)
    BY <1>1, HeadTailProperties
  <2> QED
    BY <2>1, FrameSequence
<1>3. q = <<h>> \o Tail(q)
  <2> DEFINE w == <<h>>
             z == w \o Tail(q)
  <2>0. Len(q) \in Nat \ {0} /\ h = q[1]
    BY <1>1, LenProperties, EmptySeq
  <2>1. /\ h \in T /\ Tail(q) \in Seq(T) /\ Len(Tail(q)) = Len(q) - 1
        /\ \A i \in 1..Len(Tail(q)) : Tail(q)[i] = q[i + 1]
    BY <1>1, HeadTailProperties
  <2>2. w \in Seq(T) /\ Len(w) = 1 /\ w[1] = h
    BY <2>1
  <2> HIDE DEF T, w, h
  <2>3. /\ Sequence(z) /\ Len(z) = Len(w) + Len(Tail(q))
        /\ \A i \in 1..Len(w) : z[i] = w[i]
        /\ \A i \in 1..Len(Tail(q)) : z[Len(w) + i] = Tail(q)[i]
    <3>1. Sequence(w)
      BY <2>2, FrameSequence
    <3> QED
      BY <1>2, <3>1, FrameJoin
  <2> HIDE DEF z
  <2>4. Len(z) = Len(q)
    BY <2>0, <2>1, <2>2, <2>3
  <2>5. ASSUME NEW i \in 1..Len(q) PROVE z[i] = q[i]
    <3>1. CASE i = 1
      BY <2>0, <2>2, <2>3, <3>1 DEF h
    <3>2. CASE i # 1
      <4>1. i - 1 \in 1..Len(Tail(q)) /\ Len(w) + (i - 1) = i
        BY <2>0, <2>1, <2>2, <3>2
      <4>2. z[i] = Tail(q)[i - 1] /\ Tail(q)[i - 1] = q[(i - 1) + 1]
        BY <2>1, <2>3, <4>1
      <4>3. i - 1 + 1 = i
        BY <2>0
      <4> QED
        BY <4>2, <4>3
    <3> QED
      BY <3>1, <3>2
  <2>6. z = q
    <3>1. z \in Seq({z[i] : i \in 1..Len(z)})
      BY <2>3 DEF Sequence
    <3>2. z \in [1..Len(q) -> {z[i] : i \in 1..Len(z)}] /\ q \in [1..Len(q) -> T]
      BY <1>1, <2>4, <3>1, LenProperties
    <3> QED
      BY <2>5, <3>2
  <2> QED
    BY <2>6 DEF z, w
<1> HIDE DEF T, h
<1>4. Sequence(<<h>>) /\ (Has(<<h>>, A) <=> h.t \in A) /\ (Only(<<h>>, A) <=> h.t \in A)
      /\ NoneAfter(<<h>>, A, B)
  BY FewFrames
<1>5. /\ Has(<<h>> \o Tail(q), A) <=> h.t \in A \/ Has(Tail(q), A)
      /\ Only(<<h>> \o Tail(q), A) <=> h.t \in A /\ Only(Tail(q), A)
      /\ NoneAfter(<<h>> \o Tail(q), A, B) <=> NoneAfter(Tail(q), A, B)
                                              /\ ~(h.t \in A /\ Has(Tail(q), B))
  BY <1>2, <1>4, TypesJoined
<1> QED
  BY <1>2, <1>3, <1>5 DEF h

LEMMA AppendJoins ==
  ASSUME NEW q, Sequence(q), NEW e
  PROVE  Append(q, e) = q \o <<e>>
<1>1. q \in Seq({q[i] : i \in 1..Len(q)} \cup {e})
  <2>1. q \in Seq({q[i] : i \in 1..Len(q)})
    BY DEF Sequence
  <2>2. q \in [1..Len(q) -> {q[i] : i \in 1..Len(q)}] /\ Len(q) \in Nat
    BY <2>1, LenProperties
  <2> QED
    BY <2>2
<1> QED
  BY <1>1, AppendIsConcat

LEMMA NoneOf ==
  ASSUME NEW q, NEW A, NEW B, ~Has(q, A) \/ ~Has(q, B)
  PROVE  NoneAfter(q, A, B)
BY DEF Has, NoneAfter

\* Whether r has no more types, and no more orders of them, than q and w.
Joins(r, q, w) ==
  /\ Sequence(r)
  /\ \A A : Has(r, A) <=> Has(q, A) \/ Has(w, A)
  /\ \A A : Only(r, A) <=> Only(q, A) /\ Only(w, A)
  /\ \A A, B : NoneAfter(r, A, B) <=> /\ NoneAfter(q, A, B) /\ NoneAfter(w, A, B)
                                      /\ ~(Has(q, A) /\ Has(w, B))

LEMMA Joining ==
  ASSUME NEW q, NEW w, Sequence(q), Sequence(w)
  PROVE  Joins(q \o w, q, w)
BY FrameJoin, TypesJoined DEF Joins

LEMMA Appending ==
  ASSUME NEW q, NEW e, Sequence(q)
  PROVE  Joins(Append(q, e), q, <<e>>)
<1>1. Sequence(<<e>>)
  BY FewFrames
<1>2. Joins(q \o <<e>>, q, <<e>>)
  BY <1>1, Joining
<1>3. Append(q, e) = q \o <<e>>
  BY AppendJoins
<1> QED
  BY <1>2, <1>3

LEMMA Taking ==
  ASSUME NEW q, Sequence(q), q # <<>>
  PROVE  /\ Sequence(Tail(q))
         /\ \A A : Has(q, A) <=> Head(q).t \in A \/ Has(Tail(q), A)
         /\ \A A : Only(q, A) <=> Head(q).t \in A /\ Only(Tail(q), A)
         /\ \A A, B : NoneAfter(q, A, B) <=> /\ NoneAfter(Tail(q), A, B)
                                             /\ ~(Head(q).t \in A /\ Has(Tail(q), B))
BY TypesTaken
-----------------------------------------------------------------------------
(* --------------------- what an exchange goes by ------------------------ *)

Asked == {"zrqinit", "zfile", "data", "zdata", "zeof", "zfin", "can"}
Answers == {"zrinit", "zrpos", "zack", "can"}
Filing == {"zfile"}
Content == {"zdata", "zeof"}
Ending == {"zfin"}
Places == {"zrpos"}
Invites == {"zrinit", "zfin"}

Receiving == ~ReceiverEnded
InFile == rpc \in {"info", "datawait", "sub", "nextwait", "eofwait"}

\* The states before a file, with a file announced, and with its data under way.
Apart == {"negotiate", "prompted", "next", "finwait"}
Midst == {"send", "ackwait", "eofwait"}

Shapes ==
  /\ Sequence(toR) /\ Sequence(toS) /\ Sequence(saved)
  /\ file \in 1..Len(Sizes) + 1
  /\ spc \in Apart \cup {"filewait"} \cup Midst \cup {"ok", "failed"}
  /\ rpc = "filewait" \/ InFile \/ ReceiverEnded

\* As long as an end goes on, what is on its way from it is what it says, or what
\* a shell echoed; nobody asks to end before the last file is passed.
Sayings ==
  /\ Receiving => Only(toS, Answers)
  /\ ~SenderEnded => Only(toR, Asked)
  /\ (Receiving \/ ~SenderEnded) /\ Has(toR, Ending) => file \notin Files

\* Between files both ends agree, and no position is on its way.
Between ==
  /\ Len(saved) = file - 1
  /\ Receiving => rpc = "filewait" /\ ~Has(toR, Filing)
  /\ ~Has(toS, Places)
  /\ spc = "finwait" => file \notin Files

\* A file is announced: the receiver asks for a position after its invitations, and
\* has no data to take before it did.
Announced ==
  /\ file \in Files /\ Len(saved) = file - 1
  /\ NoneAfter(toS, Places, Invites)
  /\ Receiving => NoneAfter(toR, Filing, Content)
  /\ InFile => ~Has(toR, Content)
  /\ rpc = "filewait" => ~Has(toS, Places)

\* A file's data are under way: an invitation says that the file is stored, and no
\* position follows it.
Passing ==
  /\ file \in Files /\ Len(saved) \in {file - 1, file}
  /\ Has(toS, Invites) => Len(saved) = file
  /\ NoneAfter(toS, Invites, Places)
  /\ Receiving /\ Len(saved) = file - 1 => InFile /\ NoneAfter(toR, Content, Filing)
  /\ Receiving /\ Len(saved) = file => rpc = "filewait" /\ ~Has(toR, Filing)

\* The sender has ended: the receiver can still store the file it was sent, once.
Left ==
  \/ rpc = "filewait" /\ ~Has(toR, Filing)
  \/ /\ file \in Files /\ Len(saved) = file - 1
     /\ \/ InFile /\ NoneAfter(toR, Content, Filing)
        \/ rpc = "filewait" /\ NoneAfter(toR, Filing, Content)

ExchangeInv ==
  /\ Shapes
  /\ Sayings
  /\ spc \in Apart => Between
  /\ spc = "filewait" => Announced
  /\ spc \in Midst => Passing
  /\ SenderEnded /\ Receiving => Left

\* The ends as the abstract specification sees them.
SenderStands == IF SenderEnded THEN spc ELSE "running"
ReceiverStands == IF rpc \in {"ok", "failed"} THEN rpc ELSE "running"
DeliveryStep == [Delivery!Next]_(Delivery!vars)
-----------------------------------------------------------------------------
LEMMA FilesCounted == Len(Sizes) \in Nat /\ Files = 1..Len(Sizes)
BY EngineConstants, LenProperties DEF Files

LEMMA FrameTypes ==
  /\ \A t : Header(t).t = t
  /\ \A at : Rpos(at).t = "zrpos"
  /\ \A b, term : Data(b, term).t = "data"
  /\ \A f : Info(f).t = "data"
BY DEF Header, Rpos, Data, Info

LEMMA ExchangeStarts == ExchangeInit => ExchangeInv
<1> SUFFICES ASSUME ExchangeInit PROVE ExchangeInv
  OBVIOUS
<1>1. /\ toR = <<>> /\ toS = <<Header("zrinit")>> /\ saved = <<>>
      /\ spc = "negotiate" /\ rpc = "filewait" /\ file = 1
  BY DEF ExchangeInit
<1>2. /\ Sequence(toR) /\ Sequence(toS) /\ Sequence(saved)
      /\ \A A : ~Has(toR, A) /\ Only(toR, A)
      /\ \A A : Has(toS, A) <=> "zrinit" \in A
      /\ \A A : Only(toS, A) <=> "zrinit" \in A
      /\ Len(saved) = 0
  <2>1. Sequence(<<>>) /\ \A A : ~Has(<<>>, A) /\ Only(<<>>, A)
    BY FewFrames
  <2>2. DEFINE a == Header("zrinit")
  <2>3. Sequence(<<a>>) /\ \A A : (Has(<<a>>, A) <=> a.t \in A) /\ (Only(<<a>>, A) <=> a.t \in A)
    BY FewFrames
  <2>4. a.t = "zrinit"
    BY FrameTypes
  <2>5. toS = <<a>>
    BY <1>1
  <2> HIDE DEF a
  <2>6. Len(saved) = 0
    BY <1>1
  <2> QED
    BY <1>1, <2>1, <2>3, <2>4, <2>5, <2>6
<1>3. Shapes /\ Sayings
  BY <1>1, <1>2, FilesCounted
  DEF Shapes, Sayings, Apart, Answers, Asked, Ending, ReceiverEnded, SenderEnded
<1>4. Between
  BY <1>1, <1>2 DEF Between, Places, Filing, ReceiverEnded, Receiving
<1> QED
  BY <1>1, <1>3, <1>4 DEF ExchangeInv, Apart, Midst, SenderEnded

\* Frames taken, lost or added that no promise depends on.
MilderR ==
  /\ Has(toR', Filing) => Has(toR, Filing)
  /\ Has(toR', Content) => Has(toR, Content)
  /\ Has(toR', Ending) => Has(toR, Ending)
  /\ NoneAfter(toR, Filing, Content) => NoneAfter(toR', Filing, Content)
  /\ NoneAfter(toR, Content, Filing) => NoneAfter(toR', Content, Filing)
MilderS ==
  /\ Has(toS', Places) => Has(toS, Places)
  /\ Has(toS', Invites) => Has(toS, Invites)
  /\ NoneAfter(toS, Places, Invites) => NoneAfter(toS', Places, Invites)
  /\ NoneAfter(toS, Invites, Places) => NoneAfter(toS', Invites, Places)

\* Steps within what an end is about, and those that end it.
LEMMA ExchangeRests ==
  ASSUME ExchangeInv, Shapes', MilderR, MilderS,
         file' = file, Len(saved') = Len(saved),
         SenderEnded => SenderEnded', ReceiverEnded => ReceiverEnded',
         \/ SenderEnded' \/ spc' = spc
         \/ {spc, spc'} \subseteq Apart \ {"finwait"} \/ {spc, spc'} \subseteq Midst,
         ReceiverEnded' \/ rpc' = rpc \/ (InFile /\ InFile'),
         Receiving' => (Only(toS, Answers) => Only(toS', Answers)),
         ~SenderEnded' => (Only(toR, Asked) => Only(toR', Asked))
  PROVE  ExchangeInv'
<1>1. Sayings'
  BY DEF ExchangeInv, Sayings, MilderR, Receiving, Files
<1>2. spc' \in Apart => Between'
  BY DEF ExchangeInv, Between, MilderR, MilderS, Receiving, Files, SenderEnded, Apart, Midst,
         InFile, ReceiverEnded
<1>3. spc' = "filewait" => Announced'
  BY DEF ExchangeInv, Announced, MilderR, MilderS, Receiving, Files, SenderEnded, Apart, Midst,
         InFile, ReceiverEnded
<1>4. spc' \in Midst => Passing'
  BY DEF ExchangeInv, Passing, MilderR, MilderS, Receiving, Files, SenderEnded, Apart, Midst,
         InFile, ReceiverEnded
<1>5. Receiving => Left
  <2>1. CASE spc \in Apart
    BY <2>1 DEF ExchangeInv, Between, Left
  <2>2. CASE spc = "filewait"
    <3>1. ~Has(toR, Content) => NoneAfter(toR, Content, Filing)
      BY NoneOf
    <3> QED
      BY <2>2, <3>1 DEF ExchangeInv, Shapes, Announced, Left, Receiving
  <2>3. CASE spc \in Midst
    BY <2>3 DEF ExchangeInv, Passing, Left
  <2>4. CASE SenderEnded
    BY <2>4 DEF ExchangeInv
  <2> QED
    BY <2>1, <2>2, <2>3, <2>4 DEF ExchangeInv, Shapes, SenderEnded
<1>6. Receiving' => Left'
  BY <1>5 DEF Left, MilderR, Receiving, Files, InFile, ReceiverEnded
<1> QED
  BY <1>1, <1>2, <1>3, <1>4, <1>6 DEF ExchangeInv

CalmR == Sequence(toR') /\ MilderR /\ (Only(toR, Asked) => Only(toR', Asked))
CalmS == Sequence(toS') /\ MilderS /\ (Only(toS, Answers) => Only(toS', Answers))

LEMMA DeliveryRests ==
  ASSUME Len(saved') = Len(saved), file' = file,
         SenderStands' = SenderStands, ReceiverStands' = ReceiverStands
  PROVE  DeliveryStep
BY DEF DeliveryStep, Delivery!vars, SenderStands, ReceiverStands

LEMMA DeliveryFails ==
  ASSUME Len(saved') = Len(saved), file' = file,
         \/ /\ SenderStands = "running" /\ SenderStands' = "failed"
            /\ ReceiverStands' = ReceiverStands
         \/ /\ ReceiverStands = "running" /\ ReceiverStands' = "failed"
            /\ SenderStands' = SenderStands
  PROVE  DeliveryStep
BY DEF DeliveryStep, Delivery!Next, Delivery!GiveUp, SenderStands, ReceiverStands

\* A step that no promise depends on: one end goes on with what it is about, or fails.
LEMMA ExchangeGoesOn ==
  ASSUME ExchangeInv, CalmR, CalmS, file' = file, saved' = saved,
         \/ /\ rpc' = rpc
            /\ \/ spc' = spc
               \/ ~SenderEnded /\ spc' = "failed"
               \/ {spc, spc'} \subseteq Apart \ {"finwait"}
               \/ {spc, spc'} \subseteq Midst
         \/ /\ spc' = spc
            /\ (Receiving /\ rpc' = "failed") \/ (InFile /\ InFile')
  PROVE  ExchangeInv' /\ DeliveryStep
<1>1. Shapes'
  BY DEF ExchangeInv, Shapes, CalmR, CalmS, ReceiverEnded, InFile, Apart, Midst
<1>2. ExchangeInv'
  <2>1. (SenderEnded => SenderEnded') /\ (ReceiverEnded => ReceiverEnded')
    BY DEF SenderEnded, ReceiverEnded, Apart, Midst, InFile, Receiving
  <2>2. SenderEnded' \/ spc' = spc
        \/ {spc, spc'} \subseteq Apart \ {"finwait"} \/ {spc, spc'} \subseteq Midst
    BY DEF SenderEnded
  <2>3. ReceiverEnded' \/ rpc' = rpc \/ (InFile /\ InFile')
    BY DEF ReceiverEnded
  <2> QED
    BY <1>1, <2>1, <2>2, <2>3, ExchangeRests DEF CalmR, CalmS
<1>3. DeliveryStep
  BY DeliveryRests, DeliveryFails
  DEF SenderStands, ReceiverStands, SenderEnded, ReceiverEnded, Apart, Midst, InFile, Receiving
<1> QED
  BY <1>2, <1>3

LEMMA CalmStays == /\ ExchangeInv /\ toR' = toR => CalmR
                   /\ ExchangeInv /\ toS' = toS => CalmS
BY DEF ExchangeInv, Shapes, CalmR, CalmS, MilderR, MilderS

LEMMA CalmTakenR == ASSUME ExchangeInv, toR # <<>>, toR' = Tail(toR) PROVE CalmR
<1>1. Sequence(toR)
  BY DEF ExchangeInv, Shapes
<1> QED
  BY <1>1, Taking DEF CalmR, MilderR

LEMMA CalmTakenS == ASSUME ExchangeInv, toS # <<>>, toS' = Tail(toS) PROVE CalmS
<1>1. Sequence(toS)
  BY DEF ExchangeInv, Shapes
<1> QED
  BY <1>1, Taking DEF CalmS, MilderS

LEMMA CalmAddedR ==
  ASSUME ExchangeInv, NEW e, e.t \in {"zrqinit", "can"}, toR' = Append(toR, e) PROVE CalmR
<1>1. Sequence(toR)
  BY DEF ExchangeInv, Shapes
<1>2. /\ \A A : Has(<<e>>, A) <=> e.t \in A
      /\ \A A : Only(<<e>>, A) <=> e.t \in A
      /\ \A A, B : NoneAfter(<<e>>, A, B)
  BY FewFrames
<1>3. e.t \in Asked /\ e.t \notin Filing \cup Content \cup Ending
  BY DEF Asked, Filing, Content, Ending
<1>4. Joins(toR', toR, <<e>>)
  BY <1>1, Appending
<1> QED
  BY <1>2, <1>3, <1>4 DEF CalmR, MilderR, Joins

LEMMA CalmAddedS ==
  ASSUME ExchangeInv, NEW e, e.t \in {"zack", "can"}, toS' = Append(toS, e) PROVE CalmS
<1>1. Sequence(toS)
  BY DEF ExchangeInv, Shapes
<1>2. /\ \A A : Has(<<e>>, A) <=> e.t \in A
      /\ \A A : Only(<<e>>, A) <=> e.t \in A
      /\ \A A, B : NoneAfter(<<e>>, A, B)
  BY FewFrames
<1>3. e.t \in Answers /\ e.t \notin Places \cup Invites
  BY DEF Answers, Places, Invites
<1>4. Joins(toS', toS, <<e>>)
  BY <1>1, Appending
<1> QED
  BY <1>2, <1>3, <1>4 DEF CalmS, MilderS, Joins
-----------------------------------------------------------------------------
(* ------------------------- the sender's steps -------------------------- *)

LEMMA NegotiateStep ==
  ASSUME ExchangeInv, Negotiate PROVE ExchangeInv' /\ DeliveryStep
<1>1. /\ toS # <<>> /\ toS' = Tail(toS) /\ UNCHANGED <<file, rpc, saved>>
      /\ spc = "negotiate" /\ spc' \in {"next", "prompted"}
      /\ toR' = toR \/ toR' = Append(toR, Header("zrqinit"))
  BY DEF Negotiate, SenderGoes, receiverVars
<1>2. CalmS
  BY <1>1, CalmTakenS
<1>3. CalmR
  BY <1>1, CalmStays, CalmAddedR, FrameTypes
<1> QED
  BY <1>1, <1>2, <1>3, ExchangeGoesOn DEF Apart

LEMMA OpenFailsStep ==
  ASSUME ExchangeInv, OpenFails PROVE ExchangeInv' /\ DeliveryStep
<1>1. /\ UNCHANGED <<toR, toS, file, rpc, saved>>
      /\ spc = "next" /\ spc' = "failed"
  BY DEF OpenFails, SenderFails, SenderGoes, receiverVars
<1>2. CalmR /\ CalmS
  BY <1>1, CalmStays
<1> QED
  BY <1>1, <1>2, ExchangeGoesOn DEF SenderEnded

LEMMA Waits ==
  /\ DOMAIN SenderWants = {"prompted", "filewait", "ackwait", "eofwait", "finwait"}
  /\ DOMAIN ReceiverWants = {"filewait", "datawait", "nextwait", "eofwait"}
BY DEF SenderWants, ReceiverWants

LEMMA SenderDropsStep ==
  ASSUME ExchangeInv, SenderDiscards \/ SenderAborts PROVE ExchangeInv' /\ DeliveryStep
<1>1. /\ toS # <<>> /\ toS' = Tail(toS) /\ UNCHANGED <<toR, file, rpc, saved>>
      /\ spc \in DOMAIN SenderWants \cup {"negotiate"} /\ (spc' = spc \/ spc' = "failed")
  BY DEF SenderDiscards, SenderAborts, SenderWaits, SenderFails, SenderGoes, receiverVars
<1>2. CalmR /\ CalmS
  BY <1>1, CalmStays, CalmTakenS
<1>3. ~SenderEnded
  BY <1>1, Waits DEF SenderEnded
<1> QED
  BY <1>1, <1>2, <1>3, ExchangeGoesOn

\* What announces a file and what carries its data.
LEMMA Announcement ==
  ASSUME NEW f
  PROVE  /\ Sequence(ZfileFrames(f)) /\ Only(ZfileFrames(f), Asked)
         /\ ~Has(ZfileFrames(f), Content) /\ ~Has(ZfileFrames(f), Ending)
<1> DEFINE a == Header("zfile")
           b == Info(f)
<1>1. a.t = "zfile" /\ b.t = "data" /\ ZfileFrames(f) = <<a, b>>
  BY FrameTypes DEF ZfileFrames
<1> HIDE DEF a, b
<1>2. /\ Sequence(<<a, b>>)
      /\ \A A : Has(<<a, b>>, A) <=> a.t \in A \/ b.t \in A
      /\ \A A : Only(<<a, b>>, A) <=> a.t \in A /\ b.t \in A
  BY FewFrames
<1> QED
  BY <1>1, <1>2 DEF Asked, Content, Ending

LEMMA StartFileStep ==
  ASSUME ExchangeInv, StartFile PROVE ExchangeInv' /\ DeliveryStep
<1> DEFINE w == ZfileFrames(file)
<1>1. /\ spc = "next" /\ spc' = "filewait" /\ file \in Files
      /\ toR' = toR \o w /\ UNCHANGED <<toS, file, rpc, saved>>
  BY DEF StartFile, SenderGoes, receiverVars
<1>2. Sequence(w) /\ Only(w, Asked) /\ ~Has(w, Content) /\ ~Has(w, Ending)
  BY Announcement
<1> HIDE DEF w
<1>3. Between /\ Shapes /\ Sayings
  BY <1>1 DEF ExchangeInv, Apart
<1>4. Joins(toR', toR, w)
  BY <1>1, <1>2, <1>3, Joining DEF Shapes
<1>5. Shapes' /\ Sayings'
  BY <1>1, <1>2, <1>3, <1>4
  DEF Shapes, Sayings, Joins, SenderEnded, Receiving, ReceiverEnded, InFile, Files
<1>6. Announced'
  <2>1. NoneAfter(toS', Places, Invites)
    BY <1>1, <1>3, NoneOf DEF Between
  <2>2. Receiving => NoneAfter(toR, Filing, Content) /\ NoneAfter(w, Filing, Content)
    BY <1>2, <1>3, NoneOf DEF Between
  <2>3. Receiving' => NoneAfter(toR', Filing, Content)
    BY <1>1, <1>2, <1>4, <2>2 DEF Joins, Receiving, ReceiverEnded
  <2> QED
    BY <1>1, <1>3, <2>1, <2>3 DEF Announced, Between, InFile, Receiving, ReceiverEnded, Files
<1>7. DeliveryStep
  BY <1>1, DeliveryRests DEF SenderStands, ReceiverStands, SenderEnded
<1> QED
  BY <1>1, <1>5, <1>6, <1>7 DEF ExchangeInv, SenderEnded, Apart, Midst

LEMMA FinishFilesStep ==
  ASSUME ExchangeInv, FinishFiles PROVE ExchangeInv' /\ DeliveryStep
<1> DEFINE e == Header("zfin")
<1>1. /\ spc = "next" /\ spc' \in {"ok", "finwait"} /\ file \notin Files
      /\ toR' = Append(toR, e) /\ UNCHANGED <<toS, file, rpc, saved>>
  BY DEF FinishFiles, SenderGoes, receiverVars
<1>2. /\ \A A : Has(<<e>>, A) <=> e.t \in A
      /\ \A A : Only(<<e>>, A) <=> e.t \in A
      /\ e.t = "zfin"
  BY FewFrames, FrameTypes
<1> HIDE DEF e
<1>3. Between /\ Shapes /\ Sayings
  BY <1>1 DEF ExchangeInv, Apart
<1>4. Joins(toR', toR, <<e>>)
  BY <1>1, <1>3, Appending DEF Shapes
<1>5. Shapes' /\ Sayings'
  BY <1>1, <1>2, <1>3, <1>4
  DEF Shapes, Sayings, Joins, SenderEnded, Receiving, ReceiverEnded, InFile, Files, Asked, Apart
<1>6. Between'
  BY <1>1, <1>2, <1>3, <1>4 DEF Between, Joins, Receiving, ReceiverEnded, Filing, Files
<1>7. DeliveryStep
  <2>1. CASE spc' = "finwait"
    BY <1>1, <2>1, DeliveryRests DEF SenderStands, ReceiverStands, SenderEnded
  <2>2. CASE spc' = "ok"
    <3>1. file - 1 = Len(Sizes)
      BY <1>1, <1>3, FilesCounted DEF Shapes
    <3> QED
      BY <1>1, <2>2, <3>1
      DEF DeliveryStep, Delivery!Next, Delivery!SenderDone, SenderEnded
  <2> QED
    BY <1>1, <2>1, <2>2
<1> QED
  BY <1>1, <1>5, <1>6, <1>7 DEF ExchangeInv, SenderEnded, Apart, Midst, Between, Left

\* Data and the end of a file, sent or repeated.
LEMMA SendsContent ==
  ASSUME ExchangeInv, {spc, spc'} \subseteq Midst, UNCHANGED <<toS, file, rpc, saved>>,
         NEW w, Sequence(w), Only(w, Asked), ~Has(w, Filing), ~Has(w, Ending),
         toR' = toR \o w
  PROVE  ExchangeInv' /\ DeliveryStep
<1>1. Passing /\ Shapes /\ Sayings
  BY DEF ExchangeInv
<1>2. Joins(toR', toR, w)
  BY <1>1, Joining DEF Shapes
<1>3. Shapes' /\ Sayings'
  BY <1>1, <1>2
  DEF Shapes, Sayings, Joins, SenderEnded, Receiving, ReceiverEnded, InFile, Files, Midst
<1>4. NoneAfter(w, Content, Filing)
  BY NoneOf
<1>5. Passing'
  BY <1>1, <1>2, <1>4 DEF Passing, Joins, Receiving, ReceiverEnded, InFile, Files
<1>6. DeliveryStep
  BY DeliveryRests DEF SenderStands, ReceiverStands, SenderEnded, Midst
<1> QED
  BY <1>3, <1>5, <1>6 DEF ExchangeInv, SenderEnded, Apart, Midst

LEMMA ContentFrames ==
  ASSUME NEW b, NEW term
  PROVE  LET z == Header("zdata")  d == Data(b, term)  e == Header("zeof")
         IN  \A w \in {<<e>>, <<z, d>>, <<z, d, e>>} :
               Sequence(w) /\ Only(w, Asked) /\ ~Has(w, Filing) /\ ~Has(w, Ending)
<1> DEFINE z == Header("zdata")
           d == Data(b, term)
           e == Header("zeof")
<1>1. z.t = "zdata" /\ d.t = "data" /\ e.t = "zeof"
  BY FrameTypes
<1> HIDE DEF z, d, e
<1>2. {z.t, d.t, e.t} \subseteq Asked /\ {z.t, d.t, e.t} \cap (Filing \cup Ending) = {}
  BY <1>1 DEF Asked, Filing, Ending
<1>3. Sequence(<<e>>) /\ Only(<<e>>, Asked) /\ ~Has(<<e>>, Filing) /\ ~Has(<<e>>, Ending)
  <2>1. /\ Sequence(<<e>>)
        /\ \A A : Has(<<e>>, A) <=> e.t \in A
        /\ \A A : Only(<<e>>, A) <=> e.t \in A
    BY FewFrames
  <2> QED
    BY <1>2, <2>1
<1>4. Sequence(<<z, d>>) /\ Only(<<z, d>>, Asked) /\ ~Has(<<z, d>>, Filing) /\ ~Has(<<z, d>>, Ending)
  <2>1. /\ Sequence(<<z, d>>)
        /\ \A A : Has(<<z, d>>, A) <=> z.t \in A \/ d.t \in A
        /\ \A A : Only(<<z, d>>, A) <=> z.t \in A /\ d.t \in A
    BY FewFrames
  <2> QED
    BY <1>2, <2>1
<1>5. /\ Sequence(<<z, d, e>>) /\ Only(<<z, d, e>>, Asked)
      /\ ~Has(<<z, d, e>>, Filing) /\ ~Has(<<z, d, e>>, Ending)
  <2>1. Sequence(<<z, d, e>>)
    BY FewFrames
  <2>2. Only(<<z, d, e>>, Asked) <=> {z.t, d.t, e.t} \subseteq Asked
    BY FewFrames
  <2>3. \A A : Has(<<z, d, e>>, A) <=> {z.t, d.t, e.t} \cap A # {}
    BY FewFrames
  <2> QED
    BY <1>2, <2>1, <2>2, <2>3
<1> QED
  BY <1>3, <1>4, <1>5 DEF z, d, e

LEMMA SendBlockStep ==
  ASSUME ExchangeInv, SendBlock PROVE ExchangeInv' /\ DeliveryStep
<1> DEFINE w == <<Header("zdata"), Data(Block(file, sent + 1), "zcrcw")>>
<1>1. /\ spc = "send" /\ spc' = "ackwait" /\ toR' = toR \o w /\ UNCHANGED <<toS, file, rpc, saved>>
  BY DEF SendBlock, SenderGoes, receiverVars
<1>2. Sequence(w) /\ Only(w, Asked) /\ ~Has(w, Filing) /\ ~Has(w, Ending)
  BY ContentFrames
<1> QED
  BY <1>1, <1>2, SendsContent DEF Midst

LEMMA SendLastStep ==
  ASSUME ExchangeInv, SendLast PROVE ExchangeInv' /\ DeliveryStep
<1> DEFINE b == IF sent < Sizes[file] THEN Block(file, sent + 1) ELSE Block(file, 0)
           w == <<Header("zdata"), Data(b, "zcrce"), Header("zeof")>>
<1>1. /\ spc = "send" /\ spc' = "eofwait" /\ toR' = toR \o w /\ UNCHANGED <<toS, file, rpc, saved>>
  BY DEF SendLast, SenderGoes, receiverVars
<1>2. Sequence(w) /\ Only(w, Asked) /\ ~Has(w, Filing) /\ ~Has(w, Ending)
  BY ContentFrames
<1> QED
  BY <1>1, <1>2, SendsContent DEF Midst

\* What is said again while nothing comes.
LEMMA Pokes ==
  /\ SenderPoke["prompted"] = <<Header("zrqinit")>>
  /\ file \in Files => SenderPoke["filewait"] = ZfileFrames(file)
  /\ SenderPoke["ackwait"] = <<Header("zdata"), Data(Block(file, sent), "zcrcw")>>
  /\ SenderPoke["eofwait"] = <<Header("zeof")>>
  /\ SenderPoke["finwait"] = <<Header("zfin")>>
BY DEF SenderPoke

LEMMA SenderPokes ==
  ASSUME ExchangeInv, spc \in DOMAIN SenderWants, UNCHANGED <<spc, toS, file, rpc, saved>>,
         toR' = toR \o SenderPoke[spc]
  PROVE  ExchangeInv' /\ DeliveryStep
<1>0. Shapes /\ Sayings
  BY DEF ExchangeInv
<1>1. CASE spc = "prompted"
  <2>1. toR' = Append(toR, Header("zrqinit"))
    BY <1>0, <1>1, Pokes, AppendJoins DEF Shapes
  <2>2. CalmR /\ CalmS
    BY <2>1, CalmAddedR, CalmStays, FrameTypes
  <2> QED
    BY <2>2, ExchangeGoesOn
<1>2. CASE spc = "filewait"
  <2> DEFINE w == ZfileFrames(file)
  <2>1. Announced
    BY <1>2 DEF ExchangeInv
  <2>2. toR' = toR \o w
    BY <1>2, <2>1, Pokes DEF Announced
  <2>3. Sequence(w) /\ Only(w, Asked) /\ ~Has(w, Content) /\ ~Has(w, Ending)
    BY Announcement
  <2> HIDE DEF w
  <2>4. Joins(toR', toR, w)
    BY <1>0, <2>2, <2>3, Joining DEF Shapes
  <2>5. Shapes' /\ Sayings'
    BY <1>0, <1>2, <2>3, <2>4
    DEF Shapes, Sayings, Joins, SenderEnded, Receiving, ReceiverEnded, InFile, Files
  <2>6. NoneAfter(w, Filing, Content)
    BY <2>3, NoneOf
  <2>7. Announced'
    BY <2>1, <2>3, <2>4, <2>6 DEF Announced, Joins, Receiving, ReceiverEnded, InFile, Files
  <2>8. DeliveryStep
    BY DeliveryRests DEF SenderStands, ReceiverStands, SenderEnded
  <2> QED
    BY <1>2, <2>5, <2>7, <2>8 DEF ExchangeInv, SenderEnded, Apart, Midst
<1>3. CASE spc \in {"ackwait", "eofwait"}
  <2> DEFINE w == SenderPoke[spc]
  <2>1. Sequence(w) /\ Only(w, Asked) /\ ~Has(w, Filing) /\ ~Has(w, Ending)
    BY <1>3, Pokes, ContentFrames
  <2> QED
    BY <1>3, <2>1, SendsContent DEF Midst
<1>4. CASE spc = "finwait"
  <2> DEFINE e == Header("zfin")
  <2>1. toR' = Append(toR, e)
    BY <1>0, <1>4, Pokes, AppendJoins DEF Shapes
  <2>2. /\ \A A : Has(<<e>>, A) <=> e.t \in A
        /\ \A A : Only(<<e>>, A) <=> e.t \in A
        /\ e.t = "zfin"
    BY FewFrames, FrameTypes
  <2> HIDE DEF e
  <2>3. Between
    BY <1>4 DEF ExchangeInv, Apart
  <2>4. Joins(toR', toR, <<e>>)
    BY <1>0, <2>1, Appending DEF Shapes
  <2>5. Shapes' /\ Sayings'
    BY <1>0, <1>4, <2>2, <2>3, <2>4
    DEF Shapes, Sayings, Joins, SenderEnded, Receiving, ReceiverEnded, InFile, Files, Asked, Between
  <2>6. Between'
    BY <2>2, <2>3, <2>4 DEF Between, Joins, Receiving, ReceiverEnded, Filing, Files
  <2>7. DeliveryStep
    BY DeliveryRests DEF SenderStands, ReceiverStands, SenderEnded
  <2> QED
    BY <1>4, <2>5, <2>6, <2>7 DEF ExchangeInv, SenderEnded, Apart, Midst
<1> QED
  BY <1>1, <1>2, <1>3, <1>4, Waits

LEMMA SenderTimesOutStep ==
  ASSUME ExchangeInv, SenderTimesOut PROVE ExchangeInv' /\ DeliveryStep
<1>1. UNCHANGED <<toS, file, rpc, saved>> /\ spc \in DOMAIN SenderWants \cup {"negotiate"}
  BY DEF SenderTimesOut, receiverVars
<1>2. ~SenderEnded /\ (toS' = toS => CalmS) /\ (toR' = toR => CalmR)
  BY <1>1, Waits, CalmStays DEF SenderEnded
<1>3. CASE spc = "negotiate" /\ spc' = "prompted" /\ toR' = Append(toR, Header("zrqinit"))
  <2>1. CalmR
    BY <1>3, CalmAddedR, FrameTypes
  <2> QED
    BY <1>1, <1>2, <1>3, <2>1, ExchangeGoesOn DEF Apart
<1>4. CASE spc # "negotiate" /\ spc' = spc /\ toR' = toR \o SenderPoke[spc]
  BY <1>1, <1>4, SenderPokes
<1>5. CASE (spc' = spc \/ spc' = "failed") /\ toR' = toR
  BY <1>1, <1>2, <1>5, ExchangeGoesOn
<1> QED
  BY <1>3, <1>4, <1>5 DEF SenderTimesOut, SenderGoes, SenderFails

\* A position that answers the announcement: no invitation follows it, and the
\* receiver has the file open.
LEMMA RewindStep ==
  ASSUME ExchangeInv, spc = "filewait", spc' = "send", UNCHANGED <<toR, file, rpc, saved>>,
         toS # <<>>, toS' = Tail(toS), Head(toS).t = "zrpos"
  PROVE  ExchangeInv' /\ DeliveryStep
<1>1. Announced /\ Shapes /\ Sayings
  BY DEF ExchangeInv
<1>2. CalmS /\ CalmR
  BY CalmTakenS, CalmStays
<1>3. Has(toS, Places) /\ ~Has(toS', Invites) /\ "zrpos" \in Places
  BY <1>1, Taking DEF Shapes, Announced, Places
<1>4. Shapes' /\ Sayings'
  BY <1>1, <1>2
  DEF Shapes, Sayings, CalmS, SenderEnded, Receiving, ReceiverEnded, InFile, Files, Midst
<1>5. Passing'
  <2>1. NoneAfter(toS', Invites, Places)
    BY <1>3, NoneOf
  <2>2. InFile => NoneAfter(toR', Content, Filing)
    BY <1>1, NoneOf DEF Announced
  <2>3. Receiving => InFile
    BY <1>1, <1>3 DEF Announced, Shapes, Receiving
  <2>4. file \in Int
    BY <1>1, FilesCounted DEF Shapes
  <2> QED
    BY <1>1, <1>3, <2>1, <2>2, <2>3, <2>4
    DEF Passing, Announced, Receiving, ReceiverEnded, InFile, Files
<1>6. DeliveryStep
  BY DeliveryRests DEF SenderStands, ReceiverStands, SenderEnded
<1> QED
  BY <1>4, <1>5, <1>6 DEF ExchangeInv, SenderEnded, Apart, Midst

\* An invitation after the end of a file: the file is stored, and no position
\* follows.
LEMMA PassesFileStep ==
  ASSUME ExchangeInv, spc = "eofwait", spc' = "next", file' = file + 1,
         UNCHANGED <<toR, rpc, saved>>,
         toS # <<>>, toS' = Tail(toS), Head(toS).t \in Invites
  PROVE  ExchangeInv' /\ DeliveryStep
<1>1. Passing /\ Shapes /\ Sayings
  BY DEF ExchangeInv, Midst
<1>2. CalmS /\ CalmR
  BY CalmTakenS, CalmStays
<1>3. Has(toS, Invites) /\ ~Has(toS', Places)
  BY <1>1, Taking DEF Shapes, Passing
<1>4. /\ file \in 1..Len(Sizes) /\ Len(saved) = file /\ ~Has(toR, Ending) /\ Len(Sizes) \in Nat
  BY <1>1, <1>3, FilesCounted DEF Passing, Sayings, SenderEnded
<1>5. Shapes'
  BY <1>1, <1>2, <1>4 DEF Shapes, CalmS, ReceiverEnded, InFile, Apart
<1>6. Sayings'
  BY <1>1, <1>2, <1>4 DEF Sayings, CalmS, SenderEnded, Receiving, ReceiverEnded
<1>7. Between'
  BY <1>1, <1>3, <1>4 DEF Between, Passing, Receiving, ReceiverEnded
<1>8. DeliveryStep
  BY <1>4 DEF DeliveryStep, Delivery!Next, Delivery!Pass, SenderEnded
<1> QED
  BY <1>5, <1>6, <1>7, <1>8 DEF ExchangeInv, SenderEnded, Apart, Midst

LEMMA SenderTakesStep ==
  ASSUME ExchangeInv, SenderTakes PROVE ExchangeInv' /\ DeliveryStep
<1>1. toS # <<>> /\ toS' = Tail(toS) /\ UNCHANGED <<toR, rpc, saved>>
  BY DEF SenderTakes, receiverVars
<1>2. CalmS /\ CalmR
  BY <1>1, CalmTakenS, CalmStays
<1>3. CASE spc = "prompted" /\ spc' = "next" /\ file' = file
  BY <1>1, <1>2, <1>3, ExchangeGoesOn DEF Apart
<1>4. CASE spc = "ackwait" /\ spc' = "send" /\ file' = file
  BY <1>1, <1>2, <1>4, ExchangeGoesOn DEF Midst
<1>5. CASE spc = "filewait" /\ Head(toS).t = "zrpos" /\ spc' = "send" /\ file' = file
  BY <1>1, <1>5, RewindStep
<1>6. CASE spc = "eofwait" /\ Head(toS).t \in Invites /\ spc' = "next" /\ file' = file + 1
  BY <1>1, <1>6, PassesFileStep
<1>7. CASE spc = "finwait" /\ spc' = "ok" /\ file' = file
  <2>1. Between /\ Shapes /\ Sayings
    BY <1>7 DEF ExchangeInv, Apart
  <2>2. Shapes' /\ Sayings'
    BY <1>1, <1>2, <1>7, <2>1
    DEF Shapes, Sayings, CalmS, SenderEnded, Receiving, ReceiverEnded, InFile, Files
  <2>3. Receiving' => Left'
    BY <1>1, <2>1 DEF Between, Left, Receiving, ReceiverEnded
  <2>4. file - 1 = Len(Sizes)
    BY <1>7, <2>1, FilesCounted DEF Between, Shapes
  <2>5. DeliveryStep
    BY <1>1, <1>7, <2>4 DEF DeliveryStep, Delivery!Next, Delivery!SenderDone, SenderEnded
  <2> QED
    BY <1>7, <2>2, <2>3, <2>5 DEF ExchangeInv, SenderEnded, Apart, Midst
<1> QED
  BY <1>3, <1>4, <1>5, <1>6, <1>7 DEF SenderTakes, SenderGoes, Rewind, PassesFile, Invites
-----------------------------------------------------------------------------
(* ------------------------ the receiver's steps ------------------------- *)

\* A position, asked for by a receiver that has a file open: wherever the sender is,
\* no invitation is under way that the position could follow.
LEMMA AsksFrom ==
  ASSUME ExchangeInv, InFile, InFile', CalmR, UNCHANGED <<spc, file, saved>>,
         NEW e, e.t = "zrpos", toS' = Append(toS, e)
  PROVE  ExchangeInv' /\ DeliveryStep
<1>1. Shapes /\ Sayings /\ ~ReceiverEnded /\ ~ReceiverEnded'
  BY DEF ExchangeInv, InFile, ReceiverEnded
<1>2. Joins(toS', toS, <<e>>)
  BY <1>1, Appending DEF Shapes
<1>3. /\ \A A : Has(<<e>>, A) <=> e.t \in A
      /\ \A A : Only(<<e>>, A) <=> e.t \in A
      /\ \A A, B : NoneAfter(<<e>>, A, B)
  BY FewFrames
<1>4. e.t \in Answers /\ e.t \in Places /\ e.t \notin Invites
  BY DEF Answers, Places, Invites
<1>5. Shapes' /\ Sayings'
  BY <1>1, <1>2, <1>3, <1>4
  DEF Shapes, Sayings, Joins, CalmR, MilderR, SenderEnded, Receiving, Files
<1>6. rpc # "filewait" /\ rpc' # "filewait"
  BY DEF InFile
<1>7. spc \in Apart => FALSE
  BY <1>1, <1>6 DEF ExchangeInv, Between, Receiving
<1>8. spc = "filewait" => Announced'
  BY <1>2, <1>3, <1>4, <1>6
  DEF ExchangeInv, Announced, Joins, CalmR, MilderR, Receiving, ReceiverEnded, InFile, Files
<1>9. spc \in Midst => Passing'
  <2> SUFFICES ASSUME spc \in Midst PROVE Passing'
    OBVIOUS
  <2>1. Passing /\ Len(saved) = file - 1 /\ file \in Int
    BY <1>1, <1>6, FilesCounted DEF ExchangeInv, Passing, Receiving, Shapes
  <2>2. ~Has(toS, Invites)
    BY <2>1 DEF Passing
  <2>3. ~Has(toS', Invites) /\ NoneAfter(toS', Invites, Places)
    BY <1>2, <1>3, <1>4, <2>2, NoneOf DEF Joins
  <2> QED
    BY <1>1, <2>1, <2>3 DEF Passing, CalmR, MilderR, Receiving, Files
<1>10. SenderEnded => Left'
  BY <1>1, <1>6 DEF ExchangeInv, Left, CalmR, MilderR, Receiving, Files
<1>11. DeliveryStep
  BY DeliveryRests DEF SenderStands, ReceiverStands, SenderEnded, InFile
<1> QED
  BY <1>5, <1>7, <1>8, <1>9, <1>10, <1>11 DEF ExchangeInv, SenderEnded, Apart, Midst

\* An invitation from a receiver that waits for a file.
LEMMA AsksForFile ==
  ASSUME ExchangeInv, rpc = "filewait", rpc' = "filewait", CalmR, UNCHANGED <<spc, file, saved>>,
         NEW e, e.t = "zrinit", toS' = Append(toS, e)
  PROVE  ExchangeInv' /\ DeliveryStep
<1>1. Shapes /\ Sayings /\ ~ReceiverEnded /\ ~InFile
  BY DEF ExchangeInv, InFile, ReceiverEnded
<1>2. Joins(toS', toS, <<e>>)
  BY <1>1, Appending DEF Shapes
<1>3. /\ \A A : Has(<<e>>, A) <=> e.t \in A
      /\ \A A : Only(<<e>>, A) <=> e.t \in A
      /\ \A A, B : NoneAfter(<<e>>, A, B)
  BY FewFrames
<1>4. e.t \in Answers /\ e.t \notin Places /\ e.t \in Invites
  BY DEF Answers, Places, Invites
<1>5. Shapes' /\ Sayings'
  BY <1>1, <1>2, <1>3, <1>4
  DEF Shapes, Sayings, Joins, CalmR, MilderR, SenderEnded, Receiving, Files
<1>6. spc \in Apart => Between'
  BY <1>2, <1>3, <1>4 DEF ExchangeInv, Between, Joins, CalmR, MilderR, Receiving, ReceiverEnded, Files
<1>7. spc = "filewait" => Announced'
  BY <1>1, <1>2, <1>3, <1>4
  DEF ExchangeInv, Announced, Joins, CalmR, MilderR, Receiving, ReceiverEnded, InFile, Files
<1>8. spc \in Midst => Passing'
  <2> SUFFICES ASSUME spc \in Midst PROVE Passing'
    OBVIOUS
  <2>1. Passing /\ Len(saved) = file /\ file \in Int
    BY <1>1, FilesCounted DEF ExchangeInv, Passing, Receiving, Shapes
  <2> QED
    BY <1>1, <1>2, <1>3, <1>4, <2>1 DEF Passing, Joins, CalmR, MilderR, Receiving, Files
<1>9. SenderEnded => Left'
  BY <1>1 DEF ExchangeInv, Left, CalmR, MilderR, Receiving, Files
<1>10. DeliveryStep
  BY DeliveryRests DEF SenderStands, ReceiverStands, SenderEnded
<1> QED
  BY <1>5, <1>6, <1>7, <1>8, <1>9, <1>10 DEF ExchangeInv, SenderEnded, Apart, Midst

\* The announced file is opened.  After an earlier one no announcement is left over.
LEMMA TakesFileStep ==
  ASSUME ExchangeInv, rpc = "filewait", rpc' = "info", UNCHANGED <<spc, toS, file, saved>>,
         toR # <<>>, toR' = Tail(toR), Head(toR).t = "zfile"
  PROVE  ExchangeInv' /\ DeliveryStep
<1>1. Shapes /\ Sayings /\ Receiving /\ Receiving' /\ InFile' /\ ~InFile
  BY DEF ExchangeInv, InFile, Receiving, ReceiverEnded
<1>2. CalmR /\ CalmS
  BY CalmTakenR, CalmStays
<1>3. /\ Has(toR, Filing)
      /\ NoneAfter(toR, Filing, Content) => ~Has(toR', Content) /\ NoneAfter(toR', Content, Filing)
  BY <1>1, Taking, NoneOf DEF Shapes, Filing
<1>4. Shapes' /\ Sayings'
  BY <1>1, <1>2 DEF Shapes, Sayings, CalmR, CalmS, MilderR, SenderEnded, Receiving, Files
<1>5. spc \notin Apart \cup Midst
  <2>1. spc \in Midst => Len(saved) \in {file - 1, file}
    BY DEF ExchangeInv, Passing
  <2> QED
    BY <1>1, <1>3, <2>1 DEF ExchangeInv, Between, Passing
<1>6. spc = "filewait" => Announced'
  BY <1>1, <1>2, <1>3 DEF ExchangeInv, Announced, CalmR, CalmS, MilderR, MilderS, Files
<1>7. SenderEnded => Left'
  BY <1>1, <1>3 DEF ExchangeInv, Left, Files
<1>8. DeliveryStep
  BY DeliveryRests DEF SenderStands, ReceiverStands, SenderEnded
<1> QED
  BY <1>4, <1>5, <1>6, <1>7, <1>8 DEF ExchangeInv, SenderEnded, Apart, Midst

\* The receiver ends well when it is told so, which is after the last file.
LEMMA TakesEndStep ==
  ASSUME ExchangeInv, rpc = "filewait", rpc' = "ok", UNCHANGED <<spc, file, saved>>,
         toR # <<>>, toR' = Tail(toR), Head(toR).t = "zfin",
         NEW e, toS' = Append(toS, e), e.t = "zfin"
  PROVE  ExchangeInv' /\ DeliveryStep
<1>1. Shapes /\ Sayings /\ Receiving /\ ~Receiving' /\ ~InFile'
  BY DEF ExchangeInv, InFile, Receiving, ReceiverEnded
<1>2. CalmR
  BY CalmTakenR
<1>3. file \notin Files
  BY <1>1, Taking DEF Shapes, Sayings, Ending
<1>4. Joins(toS', toS, <<e>>) /\ (Has(<<e>>, Places) <=> e.t \in Places)
  BY <1>1, Appending, FewFrames DEF Shapes
<1>5. Shapes' /\ Sayings'
  BY <1>1, <1>2, <1>3, <1>4
  DEF Shapes, Sayings, Joins, CalmR, MilderR, SenderEnded, Receiving, ReceiverEnded, Files
<1>6. spc \in Apart => Between'
  BY <1>1, <1>3, <1>4 DEF ExchangeInv, Between, Joins, Places, Files
<1>7. spc \notin {"filewait"} \cup Midst
  BY <1>3 DEF ExchangeInv, Announced, Passing
<1>8. DeliveryStep
  <2>1. file - 1 = Len(Sizes)
    BY <1>1, <1>3, FilesCounted DEF Shapes
  <2> QED
    BY <2>1 DEF DeliveryStep, Delivery!Next, Delivery!ReceiverDone, SenderEnded
<1> QED
  BY <1>1, <1>5, <1>6, <1>7, <1>8 DEF ExchangeInv, SenderEnded, Apart, Midst

LEMMA Longer ==
  ASSUME NEW q, Sequence(q), NEW e
  PROVE  Sequence(Append(q, e)) /\ Len(q) \in Nat /\ Len(Append(q, e)) = Len(q) + 1
<1>1. Sequence(<<e>>) /\ Len(<<e>>) = 1
  BY FewFrames
<1>2. Append(q, e) = q \o <<e>>
  BY AppendJoins
<1>3. Sequence(q \o <<e>>) /\ Len(q) \in Nat /\ Len(q \o <<e>>) = Len(q) + Len(<<e>>)
  BY <1>1, FrameJoin
<1> QED
  BY <1>1, <1>2, <1>3

\* The end of a file: it is stored, and no announcement is on its way that could
\* have it stored again.
LEMMA FileDoneStep ==
  ASSUME ExchangeInv, InFile, rpc' \in {"filewait", "quit"}, UNCHANGED <<spc, file>>,
         saved' = Append(saved, name),
         toR # <<>>, toR' = Tail(toR), Head(toR).t = "zeof",
         NEW e, toS' = Append(toS, e), e.t \in Invites,
         rpc' = "filewait" => e.t = "zrinit"
  PROVE  ExchangeInv' /\ DeliveryStep
<1>1. Shapes /\ Sayings /\ Receiving /\ ~InFile' /\ rpc # "filewait" /\ file \in Int
  BY FilesCounted DEF ExchangeInv, Shapes, InFile, Receiving, ReceiverEnded
<1>2. CalmR
  BY CalmTakenR
<1>3. Has(toR, Content) /\ (NoneAfter(toR, Content, Filing) => ~Has(toR', Filing))
  BY <1>1, Taking DEF Shapes, Content
<1>4. Joins(toS', toS, <<e>>)
  BY <1>1, Appending DEF Shapes
<1>5. /\ \A A : Has(<<e>>, A) <=> e.t \in A
      /\ \A A : Only(<<e>>, A) <=> e.t \in A
      /\ \A A, B : NoneAfter(<<e>>, A, B)
  BY FewFrames
<1>6. e.t \notin Places /\ (e.t = "zrinit" => e.t \in Answers)
  BY DEF Invites, Answers, Places
<1>7. Sequence(saved') /\ Len(saved') = Len(saved) + 1 /\ Len(saved) \in Nat
  BY <1>1, Longer DEF Shapes
<1>8. Shapes' /\ Sayings'
  BY <1>1, <1>2, <1>4, <1>5, <1>6, <1>7
  DEF Shapes, Sayings, Joins, CalmR, MilderR, SenderEnded, Receiving, ReceiverEnded, Files
<1>9. spc \notin Apart \cup {"filewait"}
  BY <1>1, <1>3 DEF ExchangeInv, Between, Announced
<1>10. /\ file \in Files /\ Len(saved) = file - 1 /\ NoneAfter(toR, Content, Filing)
       /\ spc \in Midst => NoneAfter(toS, Invites, Places)
  <2>1. CASE spc \in Midst
    BY <1>1, <2>1 DEF ExchangeInv, Passing
  <2>2. CASE SenderEnded
    BY <1>1, <2>2 DEF ExchangeInv, Left, SenderEnded, Midst
  <2> QED
    BY <1>1, <1>9, <2>1, <2>2 DEF Shapes, SenderEnded
<1>11. Len(saved') = file /\ ~Has(toR', Filing)
  BY <1>1, <1>3, <1>7, <1>10
<1>12. spc \in Midst => Passing'
  BY <1>1, <1>4, <1>5, <1>6, <1>10, <1>11
  DEF Passing, Joins, Receiving, ReceiverEnded, Files
<1>13. SenderEnded /\ Receiving' => Left'
  BY <1>11 DEF Left, Receiving, ReceiverEnded
<1>14. DeliveryStep
  <2>1. file \in 1..Len(Sizes) /\ Len(Sizes) \in Nat
    BY <1>10, FilesCounted
  <2>2. Len(saved) < Len(Sizes)
    BY <1>10, <2>1
  <2> QED
    BY <1>7, <2>2 DEF DeliveryStep, Delivery!Next, Delivery!Keep, SenderEnded, InFile
<1> QED
  BY <1>8, <1>9, <1>12, <1>13, <1>14 DEF ExchangeInv, SenderEnded, Apart, Midst

LEMMA ReceiverTakesStep ==
  ASSUME ExchangeInv, ReceiverTakes PROVE ExchangeInv' /\ DeliveryStep
<1>1. toR # <<>> /\ toR' = Tail(toR) /\ UNCHANGED <<spc, file>>
  BY DEF ReceiverTakes, senderVars
<1>2. CalmR /\ (toS' = toS => CalmS)
  BY <1>1, CalmTakenR, CalmStays
<1>3. CASE rpc = "filewait" /\ Head(toR).t = "zfile" /\ rpc' = "info" /\ UNCHANGED <<toS, saved>>
  BY <1>1, <1>3, TakesFileStep
<1>4. CASE /\ rpc = "filewait" /\ Head(toR).t = "zfin" /\ rpc' = "ok"
           /\ toS' = Append(toS, Header("zfin")) /\ saved' = saved
  BY <1>1, <1>4, TakesEndStep, FrameTypes
<1>5. CASE /\ rpc = "filewait" /\ rpc' = "filewait"
           /\ toS' = Append(toS, Header("zrinit")) /\ saved' = saved
  BY <1>1, <1>2, <1>5, AsksForFile, FrameTypes
<1>6. CASE rpc \in {"datawait", "nextwait"} /\ rpc' = "sub" /\ UNCHANGED <<toS, saved>>
  BY <1>1, <1>2, <1>6, ExchangeGoesOn DEF InFile
<1>7. CASE rpc \in {"nextwait", "eofwait"} /\ Head(toR).t = "zeof" /\ FileDone
  <2>1. saved' = Append(saved, name) /\ InFile
    BY <1>7 DEF FileDone, InFile
  <2>2. CASE rpc' = "filewait" /\ toS' = Append(toS, Header("zrinit"))
    <3>1. Header("zrinit").t = "zrinit" /\ Header("zrinit").t \in Invites
      BY FrameTypes DEF Invites
    <3> QED
      BY <1>1, <1>7, <2>1, <2>2, <3>1, FileDoneStep
  <2>3. CASE rpc' = "quit" /\ toS' = Append(toS, Header("zfin"))
    <3>1. Header("zfin").t \in Invites
      BY FrameTypes DEF Invites
    <3> QED
      BY <1>1, <1>7, <2>1, <2>3, <3>1, FileDoneStep
  <2> QED
    BY <1>7, <2>2, <2>3 DEF FileDone, ReceiverGoes
<1> QED
  BY <1>3, <1>4, <1>5, <1>6, <1>7 DEF ReceiverTakes, ReceiverGoes

LEMMA ReceiverDropsStep ==
  ASSUME ExchangeInv, ReceiverDiscards \/ ReceiverAborts PROVE ExchangeInv' /\ DeliveryStep
<1>1. /\ toR # <<>> /\ toR' = Tail(toR) /\ UNCHANGED <<toS, spc, file, saved>>
      /\ rpc \in DOMAIN ReceiverWants /\ (rpc' = rpc \/ rpc' = "failed")
  BY DEF ReceiverDiscards, ReceiverAborts, ReceiverWaits, ReceiverFails, ReceiverGoes, senderVars
<1>2. CalmR /\ CalmS
  BY <1>1, CalmStays, CalmTakenR
<1>3. Receiving
  BY <1>1, Waits DEF ReceiverEnded, Receiving
<1> QED
  BY <1>1, <1>2, <1>3, ExchangeGoesOn

LEMMA ReadInfoStep ==
  ASSUME ExchangeInv, ReadInfo PROVE ExchangeInv' /\ DeliveryStep
<1>1. /\ toR # <<>> /\ toR' = Tail(toR) /\ UNCHANGED <<spc, file, saved>>
      /\ toS' = Append(toS, Rpos(0)) /\ InFile /\ InFile'
  BY DEF ReadInfo, ReceiverGoes, senderVars, InFile
<1> QED
  BY <1>1, CalmTakenR, AsksFrom, FrameTypes

LEMMA ReadBlockStep ==
  ASSUME ExchangeInv, ReadBlock PROVE ExchangeInv' /\ DeliveryStep
<1>1. /\ toR # <<>> /\ toR' = Tail(toR) /\ UNCHANGED <<spc, file, saved>>
      /\ toS' = Append(toS, Header("zack")) \/ toS' = toS
      /\ InFile /\ InFile'
  BY DEF ReadBlock, ReceiverGoes, senderVars, InFile
<1>2. CalmR /\ CalmS
  BY <1>1, CalmTakenR, CalmStays, CalmAddedS, FrameTypes
<1> QED
  BY <1>1, <1>2, ExchangeGoesOn

LEMMA ResyncStep ==
  ASSUME ExchangeInv, Reads, Resync, CalmR, UNCHANGED <<spc, file, saved>>
  PROVE  ExchangeInv' /\ DeliveryStep
<1>1. InFile /\ Receiving
  BY DEF Reads, InFile, Receiving, ReceiverEnded
<1>2. CASE rpc' = "failed" /\ toS' = toS
  BY <1>1, <1>2, CalmStays, ExchangeGoesOn
<1>3. CASE rpc' = "datawait" /\ toS' = Append(toS, Rpos(Len(Received)))
  BY <1>1, <1>3, AsksFrom, FrameTypes DEF InFile
<1> QED
  BY <1>2, <1>3 DEF Resync, ReceiverFails, ReceiverGoes

LEMMA ReadsFailStep ==
  ASSUME ExchangeInv, SwallowHeader \/ BadBlock \/ CancelInBlock
  PROVE  ExchangeInv' /\ DeliveryStep
<1>1. CASE SwallowHeader
  <2>1. toR # <<>> /\ toR' = Tail(toR) /\ UNCHANGED <<toS, spc, file, rpc, saved>>
    BY <1>1 DEF SwallowHeader, senderVars
  <2> QED
    BY <2>1, CalmTakenR, CalmStays, ExchangeGoesOn
<1>2. CASE BadBlock
  <2>1. Reads /\ Resync /\ toR # <<>> /\ toR' = Tail(toR) /\ UNCHANGED <<spc, file, saved>>
    BY <1>2 DEF BadBlock, senderVars
  <2> QED
    BY <2>1, CalmTakenR, ResyncStep
<1>3. CASE CancelInBlock
  <2>1. Reads /\ Resync /\ UNCHANGED <<toR, spc, file, saved>>
    BY <1>3 DEF CancelInBlock, senderVars
  <2> QED
    BY <2>1, CalmStays, ResyncStep
<1> QED
  BY <1>1, <1>2, <1>3

LEMMA ReceiverTimesOutStep ==
  ASSUME ExchangeInv, ReceiverTimesOut PROVE ExchangeInv' /\ DeliveryStep
<1>1. UNCHANGED <<toR, spc, file, saved>>
  BY DEF ReceiverTimesOut, senderVars
<1>2. CalmR /\ (toS' = toS => CalmS)
  BY <1>1, CalmStays
<1>3. CASE Reads /\ Resync
  BY <1>1, <1>2, <1>3, ResyncStep
<1>4. CASE ReceiverWaits /\ rpc' = rpc /\ toS' = toS \o ReceiverPoke[rpc]
  <2>1. rpc \in {"filewait", "datawait", "nextwait", "eofwait"} /\ Sequence(toS)
    BY <1>4, Waits DEF ReceiverWaits, ExchangeInv, Shapes
  <2>2. CASE rpc = "filewait"
    <3>1. ReceiverPoke[rpc] = <<Header("zrinit")>>
      BY <2>2 DEF ReceiverPoke
    <3>2. toS' = Append(toS, Header("zrinit"))
      BY <1>4, <2>1, <3>1, AppendJoins
    <3> QED
      BY <1>1, <1>2, <1>4, <2>2, <3>2, AsksForFile, FrameTypes
  <2>3. CASE rpc \in {"datawait", "nextwait"}
    <3>1. ReceiverPoke[rpc] = <<Rpos(Len(Received))>>
      BY <2>3 DEF ReceiverPoke
    <3>2. toS' = Append(toS, Rpos(Len(Received)))
      BY <1>4, <2>1, <3>1, AppendJoins
    <3> QED
      BY <1>1, <1>2, <1>4, <2>3, <3>2, AsksFrom, FrameTypes DEF InFile
  <2>4. CASE rpc = "eofwait"
    <3>1. ReceiverPoke[rpc] = <<>>
      BY <2>4 DEF ReceiverPoke
    <3>2. toS' = toS \o <<>>
      BY <1>4, <3>1
    <3>3. toS' = toS
      <4>1. toS \in Seq({toS[i] : i \in 1..Len(toS)})
        BY <2>1 DEF Sequence
      <4> QED
        BY <3>2, <4>1, ConcatEmptySeq
    <3> QED
      BY <1>1, <1>2, <1>4, <3>3, ExchangeGoesOn
  <2> QED
    BY <2>1, <2>2, <2>3, <2>4
<1>5. CASE ReceiverWaits /\ rpc' = "failed" /\ toS' = toS
  <2>1. Receiving
    BY <1>5, Waits DEF ReceiverWaits, Receiving, ReceiverEnded
  <2> QED
    BY <1>1, <1>2, <1>5, <2>1, ExchangeGoesOn
<1> QED
  BY <1>3, <1>4, <1>5 DEF ReceiverTimesOut, ReceiverFails, ReceiverGoes
-----------------------------------------------------------------------------
(* ------------------------- the line and the users ---------------------- *)

LEMMA LoseStep ==
  ASSUME ExchangeInv, Lose PROVE ExchangeInv' /\ DeliveryStep
<1>1. UNCHANGED <<spc, file, rpc, saved>>
  BY DEF Lose, senderVars, receiverVars
<1>2. CalmR /\ CalmS
  BY CalmTakenR, CalmTakenS, CalmStays DEF Lose
<1> QED
  BY <1>1, <1>2, ExchangeGoesOn

\* What a shell sends back to the sender is something the sender said: no position,
\* and no invitation before the last file.
LEMMA EchoToSender ==
  ASSUME ExchangeInv, ReceiverEnded, ~SenderEnded, UNCHANGED <<spc, file, rpc, saved>>,
         toR # <<>>, toR' = Tail(toR), toS' = Append(toS, Head(toR))
  PROVE  ExchangeInv' /\ DeliveryStep
<1> DEFINE e == Head(toR)
<1>1. Shapes /\ Sayings /\ ~Receiving /\ ~Receiving' /\ ~SenderEnded'
  BY DEF ExchangeInv, Receiving, ReceiverEnded, SenderEnded
<1>2. CalmR
  BY CalmTakenR
<1>3. e.t \in Asked /\ (e.t \in Ending => file \notin Files)
  BY <1>1, Taking DEF Shapes, Sayings
<1>4. toS' = Append(toS, e)
  OBVIOUS
<1> HIDE DEF e
<1>5. Joins(toS', toS, <<e>>)
  BY <1>1, <1>4, Appending DEF Shapes
<1>6. /\ \A A : Has(<<e>>, A) <=> e.t \in A
      /\ \A A, B : NoneAfter(<<e>>, A, B)
  BY FewFrames
<1>7. e.t \notin Places /\ (e.t \in Invites => file \notin Files)
  BY <1>3 DEF Asked, Places, Invites, Ending
<1>8. Shapes' /\ Sayings'
  BY <1>1, <1>2, <1>5
  DEF Shapes, Sayings, Joins, CalmR, MilderR, SenderEnded, Receiving, ReceiverEnded, InFile, Files
<1>9. spc \in Apart => Between'
  BY <1>1, <1>5, <1>6, <1>7 DEF ExchangeInv, Between, Joins, Files
<1>10. spc = "filewait" => Announced'
  BY <1>1, <1>5, <1>6, <1>7
  DEF ExchangeInv, Announced, Joins, Receiving, ReceiverEnded, InFile, Files
<1>11. spc \in Midst => Passing'
  BY <1>1, <1>5, <1>6, <1>7 DEF ExchangeInv, Passing, Joins, Files
<1>12. DeliveryStep
  BY DeliveryRests DEF SenderStands, ReceiverStands, SenderEnded
<1> QED
  BY <1>1, <1>8, <1>9, <1>10, <1>11, <1>12 DEF ExchangeInv

\* What it sends back to the receiver is something the receiver said: no file.
LEMMA EchoToReceiver ==
  ASSUME ExchangeInv, SenderEnded, Receiving, UNCHANGED <<spc, file, rpc, saved>>,
         toS # <<>>, toS' = Tail(toS), toR' = Append(toR, Head(toS))
  PROVE  ExchangeInv' /\ DeliveryStep
<1> DEFINE e == Head(toS)
<1>1. Shapes /\ Sayings /\ SenderEnded'
  BY DEF ExchangeInv, SenderEnded
<1>2. CalmS
  BY CalmTakenS
<1>3. e.t \in Answers
  BY <1>1, Taking DEF Shapes, Sayings
<1>4. toR' = Append(toR, e)
  OBVIOUS
<1> HIDE DEF e
<1>5. Joins(toR', toR, <<e>>)
  BY <1>1, <1>4, Appending DEF Shapes
<1>6. /\ \A A : Has(<<e>>, A) <=> e.t \in A
      /\ \A A, B : NoneAfter(<<e>>, A, B)
  BY FewFrames
<1>7. e.t \notin Filing \cup Content \cup Ending
  BY <1>3 DEF Answers, Filing, Content, Ending
<1>8. Sequence(toR') /\ MilderR
  BY <1>5, <1>6, <1>7 DEF MilderR, Joins
<1>9. Shapes'
  BY <1>1, <1>2, <1>8 DEF Shapes, CalmS, ReceiverEnded, InFile
<1>10. ReceiverEnded => ReceiverEnded'
  BY DEF ReceiverEnded
<1>11. ExchangeInv'
  BY <1>1, <1>2, <1>8, <1>9, <1>10, ExchangeRests DEF CalmS
<1>12. DeliveryStep
  BY DeliveryRests DEF SenderStands, ReceiverStands, SenderEnded
<1> QED
  BY <1>11, <1>12

LEMMA ShellTakesStep ==
  ASSUME ExchangeInv, ShellTakes PROVE ExchangeInv' /\ DeliveryStep
<1>1. UNCHANGED <<spc, file, rpc, saved>>
  BY DEF ShellTakes, senderVars, receiverVars
<1>2. CASE /\ ReceiverEnded /\ ~SenderEnded /\ toR # <<>> /\ toR' = Tail(toR)
           /\ toS' = Append(toS, Head(toR)) \/ toS' = toS
  BY <1>1, <1>2, CalmTakenR, CalmStays, EchoToSender, ExchangeGoesOn
<1>3. CASE /\ SenderEnded /\ ~ReceiverEnded /\ toS # <<>> /\ toS' = Tail(toS)
           /\ toR' = Append(toR, Head(toS)) \/ toR' = toR
  BY <1>1, <1>3, CalmTakenS, CalmStays, EchoToReceiver, ExchangeGoesOn DEF Receiving
<1> QED
  BY <1>2, <1>3 DEF ShellTakes

LEMMA UserCancelsStep ==
  ASSUME ExchangeInv, UserCancels PROVE ExchangeInv' /\ DeliveryStep
<1>1. file' = file /\ saved' = saved
  BY DEF UserCancels
<1>2. CASE ~SenderEnded /\ spc' = "failed" /\ toR' = Append(toR, Header("can")) /\ UNCHANGED <<toS, rpc>>
  BY <1>1, <1>2, CalmAddedR, CalmStays, FrameTypes, ExchangeGoesOn
<1>3. CASE ~ReceiverEnded /\ rpc' = "failed" /\ toS' = Append(toS, Header("can")) /\ UNCHANGED <<toR, spc>>
  BY <1>1, <1>3, CalmAddedS, CalmStays, FrameTypes, ExchangeGoesOn DEF Receiving
<1> QED
  BY <1>2, <1>3 DEF UserCancels, SenderFails, SenderGoes, ReceiverFails, ReceiverGoes

LEMMA ExchangeHolds ==
  ExchangeInv /\ [ExchangeNext]_exchangeVars => ExchangeInv' /\ DeliveryStep
<1> SUFFICES ASSUME ExchangeInv, [ExchangeNext]_exchangeVars PROVE ExchangeInv' /\ DeliveryStep
  OBVIOUS
<1>1. CASE SenderStep
  BY <1>1, NegotiateStep, StartFileStep, FinishFilesStep, SendBlockStep, SendLastStep,
     SenderTakesStep, SenderDropsStep, SenderTimesOutStep DEF SenderStep
<1>2. CASE ReceiverStep
  BY <1>2, ReceiverTakesStep, ReceiverDropsStep, ReadInfoStep, ReadBlockStep, ReadsFailStep,
     ReceiverTimesOutStep DEF ReceiverStep
<1>3. CASE OpenFails \/ Lose \/ ShellTakes \/ UserCancels
  BY <1>3, OpenFailsStep, LoseStep, ShellTakesStep, UserCancelsStep
<1>4. CASE UNCHANGED exchangeVars
  <2>1. UNCHANGED <<toR, toS, spc, file, rpc, saved>>
    BY <1>4 DEF exchangeVars
  <2> QED
    BY <2>1, CalmStays, ExchangeGoesOn
<1> QED
  BY <1>1, <1>2, <1>3, <1>4 DEF ExchangeNext

\* What the two ends and the line know of each other, on any line.
THEOREM Exchanges == ExchangeSpec => []ExchangeInv
<1>1. ExchangeInv /\ [ExchangeNext]_exchangeVars => ExchangeInv'
  BY ExchangeHolds
<1> QED
  BY <1>1, ExchangeStarts, PTL DEF ExchangeSpec

\* Whatever a line loses, damages, delays and echoes, and whoever gives up: the
\* sender passes a file only after the receiver stored it, once, and an end that ends
\* well does so after every file.
THEOREM Delivers == ExchangeSpec => DeliverySpec
<1>1. ExchangeInit => Delivery!Init
  <2>1. Len(<<>>) = 0
    OBVIOUS
  <2> QED
    BY <2>1 DEF ExchangeInit, Delivery!Init, SenderEnded
<1>2. ExchangeInv /\ [ExchangeNext]_exchangeVars => [Delivery!Next]_(Delivery!vars)
  BY ExchangeHolds DEF DeliveryStep
<1> QED
  BY <1>1, <1>2, Exchanges, PTL DEF ExchangeSpec, DeliverySpec, Delivery!Spec
-----------------------------------------------------------------------------
(* --------------------- what a stored file contains --------------------- *)

\* A line on which nothing is lost or late.  On it the ends take turns: what is on
\* the way to the receiver is what its wait is for, and after a sender that gave up
\* what a shell echoes.
Ordered == line \cap {"loss", "slow"} = {}

Junk == {"zrinit", "zrpos", "zack", "can", "zfin", "zrqinit"}

\* q is s, and after it frames of the types J.
Starts(q, s, J) ==
  /\ Len(s) <= Len(q)
  /\ \A i \in 1..Len(s) : q[i] = s[i]
  /\ \A i \in 1..Len(q) : i > Len(s) => q[i].t \in J
Is(q, s) == Starts(q, s, {})

\* How far the file under way is stored, and the block to send after that.
Stored == Len(disk[file])
LastBlock == Data(IF Stored < Sizes[file] THEN Block(file, Stored + 1) ELSE Block(file, 0), "zcrce")
MidBlock == Data(Block(file, Stored + 1), "zcrcw")
Due == file \in Files /\ Len(saved) = file - 1
InName == /\ Due /\ name = file
          /\ Stored <= Sizes[file] /\ disk[file] = [i \in 1..Stored |-> Block(file, i)]

\* What is before the receiver, other frames of the types J behind it.
Idle(J) == rpc = "filewait" /\ Starts(toR, <<>>, J)
Offered(J) == rpc = "filewait" /\ Due /\ Starts(toR, ZfileFrames(file), J)
Told(J) == rpc = "info" /\ Due /\ Starts(toR, <<Info(file)>>, J)
Fed(J) ==
  /\ rpc \in {"datawait", "nextwait"} /\ InName
  /\ \/ Stored + 1 < Sizes[file] /\ Starts(toR, <<Header("zdata"), MidBlock>>, J)
     \/ Stored + 1 >= Sizes[file] /\ Starts(toR, <<Header("zdata"), LastBlock, Header("zeof")>>, J)
Eating(J) ==
  /\ rpc = "sub" /\ InName
  /\ \/ Stored + 1 < Sizes[file] /\ Starts(toR, <<MidBlock>>, J)
     \/ Stored + 1 >= Sizes[file] /\ Starts(toR, <<LastBlock, Header("zeof")>>, J)
Stuck(J) == rpc = "datawait" /\ InName /\ Starts(toR, <<>>, J)
Resting(J) == rpc = "nextwait" /\ InName /\ Starts(toR, <<>>, J)
Closing(J) ==
  rpc = "eofwait" /\ InName /\ Stored = Sizes[file] /\ Starts(toR, <<Header("zeof")>>, J)

\* A receiver whose sender has ended, and the two together.
Alone ==
  \/ Idle(Junk) \/ Offered(Junk) \/ Told(Junk) \/ Fed(Junk) \/ Eating(Junk)
  \/ Stuck(Junk \cup {"zeof"}) \/ Resting(Junk) \/ Closing(Junk)

Coupled ==
  \/ spc = "negotiate" /\ Idle({}) /\ Is(toS, <<Header("zrinit")>>)
  \/ spc = "next" /\ Idle({}) /\ Is(toS, <<>>)
  \/ spc = "filewait" /\ (Offered({}) \/ Told({})) /\ Is(toS, <<>>)
  \/ spc \in {"filewait", "ackwait"} /\ Stuck({}) /\ Is(toS, <<Rpos(Stored)>>)
  \/ spc = "send" /\ (Stuck({}) \/ Resting({})) /\ sent = Stored /\ Is(toS, <<>>)
  \/ spc = "ackwait" /\ Resting({}) /\ sent = Stored /\ Is(toS, <<Header("zack")>>)
  \/ /\ spc = "ackwait" /\ (Fed({}) \/ Eating({})) /\ Is(toS, <<>>)
     /\ Stored + 1 < Sizes[file] /\ sent = Stored + 1
  \/ spc = "eofwait" /\ (Fed({}) \/ Eating({})) /\ Is(toS, <<>>) /\ Stored + 1 >= Sizes[file]
  \/ spc = "eofwait" /\ Closing({}) /\ Is(toS, <<>>)
  \/ spc = "eofwait" /\ Idle({}) /\ Is(toS, <<Header("zrinit")>>)
  \/ spc = "eofwait" /\ Stuck({"zeof"}) /\ Starts(toS, <<>>, {"zrpos"})
  \/ spc = "finwait" /\ rpc = "filewait" /\ Is(toR, <<Header("zfin")>>) /\ Is(toS, <<>>)

Filed ==
  /\ disk \in [Files -> Seq(Nat \X Nat)]
  /\ \A i \in 1..Len(saved) : saved[i] = i /\ disk[i] = Blocks(i)

WholeInv ==
  /\ Filed
  /\ Receiving => ~garbled
  /\ Receiving /\ SenderEnded => Alone
  /\ Receiving /\ ~SenderEnded => Coupled
-----------------------------------------------------------------------------
LEMMA StartsTaken ==
  ASSUME NEW q, NEW s, NEW J, Sequence(q), Sequence(s), s # <<>>, Starts(q, s, J)
  PROVE  q # <<>> /\ Head(q) = s[1] /\ Starts(Tail(q), Tail(s), J)
<1>1. q \in Seq({q[i] : i \in 1..Len(q)}) /\ s \in Seq({s[i] : i \in 1..Len(s)})
  BY DEF Sequence
<1>2. Len(s) \in Nat \ {0} /\ Len(q) \in Nat
  BY <1>1, LenProperties, EmptySeq
<1>3. q # <<>> /\ q[1] = s[1] /\ Len(s) <= Len(q)
  BY <1>1, <1>2, EmptySeq DEF Starts
<1>4. /\ Head(q) = q[1] /\ Len(Tail(q)) = Len(q) - 1
      /\ \A i \in 1..Len(q) - 1 : Tail(q)[i] = q[i + 1]
  BY <1>1, <1>3, HeadTailProperties
<1>5. /\ Len(Tail(s)) = Len(s) - 1
      /\ \A i \in 1..Len(s) - 1 : Tail(s)[i] = s[i + 1]
  BY <1>1, HeadTailProperties
<1>6. ASSUME NEW i \in 1..Len(s) - 1 PROVE Tail(q)[i] = Tail(s)[i]
  <2>1. i + 1 \in 1..Len(s) /\ i \in 1..Len(q) - 1
    BY <1>2, <1>3
  <2> QED
    BY <1>4, <1>5, <2>1 DEF Starts
<1>7. ASSUME NEW i \in 1..Len(q) - 1, i > Len(s) - 1 PROVE Tail(q)[i].t \in J
  <2>1. i + 1 \in 1..Len(q) /\ i + 1 > Len(s)
    BY <1>2, <1>7
  <2> QED
    BY <1>4, <2>1 DEF Starts
<1> QED
  BY <1>2, <1>3, <1>4, <1>5, <1>6, <1>7 DEF Starts

LEMMA TupleTails ==
  /\ \A a : Sequence(<<a>>) /\ <<a>> # <<>> /\ <<a>>[1] = a /\ Tail(<<a>>) = <<>>
  /\ \A a, b : Sequence(<<a, b>>) /\ <<a, b>> # <<>> /\ <<a, b>>[1] = a /\ Tail(<<a, b>>) = <<b>>
  /\ \A a, b, c : /\ Sequence(<<a, b, c>>) /\ <<a, b, c>> # <<>> /\ <<a, b, c>>[1] = a
                  /\ Tail(<<a, b, c>>) = <<b, c>>
<1>1. ASSUME NEW a PROVE Sequence(<<a>>) /\ <<a>> # <<>> /\ <<a>>[1] = a /\ Tail(<<a>>) = <<>>
  <2>1. Sequence(<<a>>)
    BY FewFrames
  <2> QED
    BY <2>1
<1>2. ASSUME NEW a, NEW b
      PROVE Sequence(<<a, b>>) /\ <<a, b>> # <<>> /\ <<a, b>>[1] = a /\ Tail(<<a, b>>) = <<b>>
  <2>1. Sequence(<<a, b>>)
    BY FewFrames
  <2> QED
    BY <2>1
<1>3. ASSUME NEW a, NEW b, NEW c
      PROVE /\ Sequence(<<a, b, c>>) /\ <<a, b, c>> # <<>> /\ <<a, b, c>>[1] = a
            /\ Tail(<<a, b, c>>) = <<b, c>>
  <2>1. Sequence(<<a, b, c>>)
    BY FewFrames
  <2> QED
    BY <2>1
<1> QED
  BY <1>1, <1>2, <1>3

LEMMA FirstTaken ==
  ASSUME NEW q, Sequence(q), NEW J
  PROVE  /\ \A a : Starts(q, <<a>>, J) => q # <<>> /\ Head(q) = a /\ Starts(Tail(q), <<>>, J)
         /\ \A a, b : Starts(q, <<a, b>>, J) =>
                        q # <<>> /\ Head(q) = a /\ Starts(Tail(q), <<b>>, J)
         /\ \A a, b, c : Starts(q, <<a, b, c>>, J) =>
                           q # <<>> /\ Head(q) = a /\ Starts(Tail(q), <<b, c>>, J)
<1>1. ASSUME NEW s, Sequence(s), s # <<>>, Starts(q, s, J), NEW a, s[1] = a, NEW u, Tail(s) = u
      PROVE  q # <<>> /\ Head(q) = a /\ Starts(Tail(q), u, J)
  BY <1>1, StartsTaken
<1>2. ASSUME NEW a, Starts(q, <<a>>, J) PROVE q # <<>> /\ Head(q) = a /\ Starts(Tail(q), <<>>, J)
  <2>1. Sequence(<<a>>) /\ <<a>> # <<>> /\ <<a>>[1] = a /\ Tail(<<a>>) = <<>>
    BY TupleTails
  <2> QED
    BY <1>1, <1>2, <2>1
<1>3. ASSUME NEW a, NEW b, Starts(q, <<a, b>>, J)
      PROVE  q # <<>> /\ Head(q) = a /\ Starts(Tail(q), <<b>>, J)
  <2>1. Sequence(<<a, b>>) /\ <<a, b>> # <<>> /\ <<a, b>>[1] = a /\ Tail(<<a, b>>) = <<b>>
    BY TupleTails
  <2> QED
    BY <1>1, <1>3, <2>1
<1>4. ASSUME NEW a, NEW b, NEW c, Starts(q, <<a, b, c>>, J)
      PROVE  q # <<>> /\ Head(q) = a /\ Starts(Tail(q), <<b, c>>, J)
  <2>1. /\ Sequence(<<a, b, c>>) /\ <<a, b, c>> # <<>> /\ <<a, b, c>>[1] = a
        /\ Tail(<<a, b, c>>) = <<b, c>>
    BY TupleTails
  <2> QED
    BY <1>1, <1>4, <2>1
<1> QED
  BY <1>2, <1>3, <1>4

LEMMA StartsOthers ==
  ASSUME NEW q, NEW J, Sequence(q), Starts(q, <<>>, J), q # <<>>
  PROVE  Head(q).t \in J /\ Starts(Tail(q), <<>>, J)
<1>1. q \in Seq({q[i] : i \in 1..Len(q)}) /\ Len(<<>>) = 0
  BY DEF Sequence
<1>2. Len(q) \in Nat \ {0}
  BY <1>1, LenProperties, EmptySeq
<1>3. /\ Head(q) = q[1] /\ Len(Tail(q)) = Len(q) - 1
      /\ \A i \in 1..Len(q) - 1 : Tail(q)[i] = q[i + 1]
  BY <1>1, HeadTailProperties
<1>4. \A i \in 1..Len(q) : q[i].t \in J
  BY <1>1, <1>2 DEF Starts
<1>5. ASSUME NEW i \in 1..Len(q) - 1 PROVE Tail(q)[i].t \in J
  <2>1. i + 1 \in 1..Len(q)
    BY <1>2
  <2> QED
    BY <1>3, <1>4, <2>1
<1> QED
  BY <1>1, <1>2, <1>3, <1>4, <1>5 DEF Starts

LEMMA StartsAdded ==
  ASSUME NEW q, NEW s, NEW J, Sequence(q), Sequence(s), Starts(q, s, J), NEW e, e.t \in J
  PROVE  Starts(Append(q, e), s, J)
<1>1. /\ Len(q) \in Nat /\ Len(<<e>>) = 1 /\ Append(q, e) = q \o <<e>> /\ <<e>>[1] = e
      /\ Len(q \o <<e>>) = Len(q) + Len(<<e>>)
      /\ \A i \in 1..Len(q) : (q \o <<e>>)[i] = q[i]
      /\ \A i \in 1..Len(<<e>>) : (q \o <<e>>)[Len(q) + i] = <<e>>[i]
  <2>1. Sequence(<<e>>)
    BY FewFrames
  <2> QED
    BY <2>1, AppendJoins, FrameJoin
<1> DEFINE r == Append(q, e)
<1>2. /\ Len(r) = Len(q) + 1 /\ r[Len(q) + 1] = e
      /\ \A i \in 1..Len(q) : r[i] = q[i]
  BY <1>1
<1>3. Len(s) \in Nat /\ Len(s) <= Len(q)
  <2>1. s \in Seq({s[i] : i \in 1..Len(s)})
    BY DEF Sequence
  <2> QED
    BY <2>1, LenProperties DEF Starts
<1> HIDE DEF r
<1>4. ASSUME NEW i \in 1..Len(s) PROVE r[i] = s[i]
  BY <1>1, <1>2, <1>3 DEF Starts
<1>5. ASSUME NEW i \in 1..Len(r), i > Len(s) PROVE r[i].t \in J
  <2>1. CASE i \in 1..Len(q)
    BY <1>2, <1>5, <2>1 DEF Starts
  <2>2. CASE i = Len(q) + 1
    BY <1>2, <2>2
  <2> QED
    BY <1>1, <1>2, <2>1, <2>2
<1>6. Starts(r, s, J)
  BY <1>1, <1>2, <1>3, <1>4, <1>5 DEF Starts
<1> QED
  BY <1>6 DEF r

LEMMA StartsWeaker ==
  ASSUME NEW q, NEW s, NEW J, NEW K, J \subseteq K, Starts(q, s, J)
  PROVE  Starts(q, s, K)
BY DEF Starts

LEMMA StartsItself ==
  ASSUME NEW s, Sequence(s), NEW J
  PROVE  Starts(s, s, J)
<1>1. Len(s) \in Nat
  BY LenProperties DEF Sequence
<1> QED
  BY <1>1 DEF Starts

\* Nothing on the way, and what is sent then.
LEMMA IsNothing ==
  ASSUME NEW q, Sequence(q), Is(q, <<>>)
  PROVE  /\ q = <<>>
         /\ \A w : Sequence(w) => q \o w = w
         /\ \A e : Append(q, e) = <<e>>
<1>1. q \in Seq({q[i] : i \in 1..Len(q)}) /\ Len(<<>>) = 0
  BY DEF Sequence
<1>2. q = <<>>
  <2>1. Len(q) \in Nat
    BY <1>1, LenProperties
  <2>2. Len(q) = 0
    <3>1. \A i \in 1..Len(q) : FALSE
      BY <1>1, <2>1 DEF Is, Starts
    <3> QED
      BY <2>1, <3>1
  <2> QED
    BY <1>1, <2>2, EmptySeq
<1>3. ASSUME NEW w, Sequence(w) PROVE <<>> \o w = w
  <2>1. w \in Seq({w[i] : i \in 1..Len(w)})
    BY <1>3 DEF Sequence
  <2> QED
    BY <2>1, ConcatEmptySeq
<1>4. ASSUME NEW e PROVE Append(<<>>, e) = <<e>>
  OBVIOUS
<1> QED
  BY <1>2, <1>3, <1>4
-----------------------------------------------------------------------------
(* ----------------------- the receiver's turns -------------------------- *)

\* What a wait can do besides taking a header it wants.
Fails == rpc' = "failed" /\ UNCHANGED <<disk, saved>>
Drops ==
  /\ toR # <<>> /\ toR' = Tail(toR) /\ Head(toR).t \notin ReceiverWants[rpc]
  /\ UNCHANGED <<toS, rpc, name, disk, saved, garbled>>
Asks ==
  /\ Silence /\ toS' = toS \o ReceiverPoke[rpc]
  /\ UNCHANGED <<toR, rpc, name, disk, saved, garbled>>

LEMMA WaitMoves ==
  ASSUME ReceiverStep, rpc \in DOMAIN ReceiverWants
  PROVE  ReceiverTakes \/ Drops \/ Fails \/ Asks
<1>1. ~Reads /\ rpc \notin {"info", "sub"}
  BY Waits DEF Reads
<1>2. CASE ReceiverDiscards
  BY <1>2 DEF ReceiverDiscards, ReceiverFails, ReceiverGoes, Fails, Drops
<1>3. CASE ReceiverAborts
  BY <1>3 DEF ReceiverAborts, ReceiverFails, ReceiverGoes, Fails
<1>4. CASE ReceiverTimesOut
  BY <1>1, <1>4 DEF ReceiverTimesOut, ReceiverFails, ReceiverGoes, Fails, Asks
<1> QED
  BY <1>1, <1>2, <1>3, <1>4
  DEF ReceiverStep, ReadInfo, ReadBlock, SwallowHeader, BadBlock, CancelInBlock

\* A subpacket that is there is read, well or badly.
LEMMA ReadMoves ==
  ASSUME ReceiverStep, rpc \in {"info", "sub"}, ~garbled, toR # <<>>, Head(toR).t = "data", ~Silence
  PROVE  \/ rpc = "info" /\ ReadInfo
         \/ rpc = "sub" /\ ReadBlock
         \/ BadBlock
<1>1. rpc \notin DOMAIN ReceiverWants
  BY Waits
<1> QED
  BY <1>1 DEF ReceiverStep, ReceiverTakes, ReceiverDiscards, ReceiverAborts, ReceiverTimesOut,
     ReceiverWaits, ReadInfo, ReadBlock, SwallowHeader, CancelInBlock, IsData

LEMMA NotSilent ==
  ASSUME Ordered, toR # <<>> \/ toS # <<>> \/ spc \in {"next", "send"}
  PROVE  ~Silence
BY DEF Ordered, Silence, Trouble

LEMMA FileStays ==
  ASSUME UNCHANGED <<name, file, saved, disk>>
  PROVE  /\ Due' <=> Due
         /\ InName' <=> InName
         /\ Stored' = Stored /\ MidBlock' = MidBlock /\ LastBlock' = LastBlock
BY DEF Due, InName, Stored, MidBlock, LastBlock, Files

LEMMA FiledRests == Filed /\ UNCHANGED <<disk, saved>> => Filed'
BY DEF Filed, Files, Blocks

LEMMA Wants ==
  /\ ReceiverWants["filewait"] = {"zfile", "zfin", "zrqinit"}
  /\ ReceiverWants["datawait"] = {"zdata"}
  /\ ReceiverWants["nextwait"] = {"zdata", "zeof"}
  /\ ReceiverWants["eofwait"] = {"zeof"}
BY DEF ReceiverWants

\* What holds before each of the receiver's turns, and what a turn may do to files.
Turn == ExchangeInv /\ Ordered /\ Filed /\ ~garbled /\ ReceiverStep
Turned == /\ UNCHANGED <<line, spc, file, sent>>
          /\ Filed' /\ (Receiving' => ~garbled')

LEMMA TurnsOf == ReceiverStep => UNCHANGED <<line, spc, file, sent>>
BY DEF ReceiverStep, ReceiverTakes, ReceiverDiscards, ReceiverAborts, ReadInfo, ReadBlock,
   SwallowHeader, BadBlock, CancelInBlock, ReceiverTimesOut, senderVars

LEMMA TurnSequences == ExchangeInv => Sequence(toR) /\ Sequence(toS) /\ Sequence(saved)
BY DEF ExchangeInv, Shapes

LEMMA FailTurns == Turn /\ Fails => Turned /\ ~Receiving'
BY TurnsOf, FiledRests DEF Turn, Turned, Fails, Receiving, ReceiverEnded

LEMMA IdleTurns ==
  ASSUME Turn, NEW J, J \subseteq Junk, Idle(J)
  PROVE  Turned /\ (Receiving' => Idle(J)')
<1>1. rpc = "filewait" /\ rpc \in DOMAIN ReceiverWants /\ Sequence(toR)
  BY Waits, TurnSequences DEF Idle, Turn
<1>2. ReceiverTakes \/ Drops \/ Fails \/ Asks
  BY <1>1, WaitMoves DEF Turn
<1>3. toR # <<>> => Head(toR).t \in Junk /\ Starts(Tail(toR), <<>>, J)
  BY <1>1, StartsOthers DEF Idle
<1>4. CASE ReceiverTakes
  <2>1. /\ toR # <<>> /\ toR' = Tail(toR) /\ rpc' \in {"ok", "filewait"}
        /\ UNCHANGED <<disk, saved, garbled>>
    BY <1>1, <1>3, <1>4 DEF ReceiverTakes, ReceiverGoes, Junk
  <2> QED
    BY <1>3, <2>1, TurnsOf, FiledRests DEF Turn, Turned, Idle, Receiving, ReceiverEnded
<1>5. CASE Drops
  BY <1>1, <1>3, <1>5, TurnsOf, FiledRests DEF Turn, Turned, Idle, Drops
<1>6. CASE Asks
  BY <1>6, TurnsOf, FiledRests DEF Turn, Turned, Idle, Asks
<1> QED
  BY <1>2, <1>4, <1>5, <1>6, FailTurns

LEMMA OfferedTurns ==
  ASSUME Turn, NEW J, Offered(J)
  PROVE  Turned /\ (Receiving' => Told(J)' /\ toS' = toS)
<1>1. rpc = "filewait" /\ rpc \in DOMAIN ReceiverWants /\ Sequence(toR) /\ Due
  BY Waits, TurnSequences DEF Offered, Turn
<1>2. toR # <<>> /\ Head(toR).t = "zfile" /\ Starts(Tail(toR), <<Info(file)>>, J)
  <2> DEFINE a == Header("zfile")
             b == Info(file)
  <2>1. Starts(toR, <<a, b>>, J) /\ a.t = "zfile"
    BY FrameTypes DEF Offered, ZfileFrames
  <2> HIDE DEF a, b
  <2>2. toR # <<>> /\ Head(toR) = a /\ Starts(Tail(toR), <<b>>, J)
    BY <1>1, <2>1, FirstTaken
  <2> QED
    BY <2>1, <2>2 DEF b
<1>3. ~Silence
  BY <1>2, NotSilent DEF Turn
<1>4. ReceiverTakes \/ Fails
  BY <1>1, <1>2, <1>3, WaitMoves, Wants DEF Turn, Drops, Asks
<1>5. CASE ReceiverTakes
  <2>1. /\ toR' = Tail(toR) /\ rpc' = "info"
        /\ UNCHANGED <<toS, name, disk, saved, garbled, file>>
    BY <1>1, <1>2, <1>5 DEF ReceiverTakes, ReceiverGoes, senderVars
  <2> QED
    BY <1>1, <1>2, <2>1, TurnsOf, FiledRests, FileStays DEF Turn, Turned, Told
<1> QED
  BY <1>4, <1>5, FailTurns

LEMMA FedTurns ==
  ASSUME Turn, NEW J, Fed(J)
  PROVE  Turned /\ (Receiving' => Eating(J)' /\ toS' = toS /\ Stored' = Stored)
<1>1. rpc \in {"datawait", "nextwait"} /\ rpc \in DOMAIN ReceiverWants /\ Sequence(toR) /\ InName
  BY Waits, TurnSequences DEF Fed, Turn
<1>2. /\ toR # <<>> /\ Head(toR).t = "zdata"
      /\ \/ Stored + 1 < Sizes[file] /\ Starts(Tail(toR), <<MidBlock>>, J)
         \/ Stored + 1 >= Sizes[file] /\ Starts(Tail(toR), <<LastBlock, Header("zeof")>>, J)
  <2> DEFINE a == Header("zdata")
             b == MidBlock
             c == LastBlock
             d == Header("zeof")
  <2>1. /\ a.t = "zdata"
        /\ \/ Stored + 1 < Sizes[file] /\ Starts(toR, <<a, b>>, J)
           \/ Stored + 1 >= Sizes[file] /\ Starts(toR, <<a, c, d>>, J)
    BY FrameTypes DEF Fed
  <2> HIDE DEF a, b, c, d
  <2>2. Starts(toR, <<a, b>>, J) => toR # <<>> /\ Head(toR) = a /\ Starts(Tail(toR), <<b>>, J)
    BY <1>1, FirstTaken
  <2>3. Starts(toR, <<a, c, d>>, J) => toR # <<>> /\ Head(toR) = a /\ Starts(Tail(toR), <<c, d>>, J)
    BY <1>1, FirstTaken
  <2> QED
    BY <2>1, <2>2, <2>3 DEF b, c, d
<1>3. ~Silence
  BY <1>2, NotSilent DEF Turn
<1>4. ReceiverTakes \/ Fails
  BY <1>1, <1>2, <1>3, WaitMoves, Wants DEF Turn, Drops, Asks
<1>5. CASE ReceiverTakes
  <2>1. /\ toR' = Tail(toR) /\ rpc' = "sub"
        /\ UNCHANGED <<toS, name, disk, saved, garbled, file>>
    BY <1>1, <1>2, <1>5 DEF ReceiverTakes, ReceiverGoes, senderVars
  <2>2. Stored' = Stored /\ MidBlock' = MidBlock /\ LastBlock' = LastBlock /\ InName'
    BY <1>1, <2>1, FileStays
  <2> QED
    BY <1>2, <2>1, <2>2, TurnsOf, FiledRests DEF Turn, Turned, Eating
<1> QED
  BY <1>4, <1>5, FailTurns

LEMMA StuckTurns ==
  ASSUME Turn, NEW J, J \subseteq Junk \cup {"zeof"}, Stuck(J)
  PROVE  /\ Turned
         /\ Receiving' => /\ Stuck(J)' /\ Stored' = Stored
                          /\ toS' = toS \/ (Silence /\ toS' = Append(toS, Rpos(Stored)))
<1>1. /\ rpc = "datawait" /\ rpc \in DOMAIN ReceiverWants /\ Sequence(toR) /\ Sequence(toS)
      /\ InName
  BY Waits, TurnSequences DEF Stuck, Turn
<1>2. toR # <<>> => Head(toR).t \in J /\ Starts(Tail(toR), <<>>, J)
  BY <1>1, StartsOthers DEF Stuck
<1>3. ~ReceiverTakes
  BY <1>1, <1>2 DEF ReceiverTakes, Junk
<1>4. Drops \/ Fails \/ Asks
  BY <1>1, <1>3, WaitMoves DEF Turn
<1>5. CASE Drops
  BY <1>1, <1>2, <1>5, TurnsOf, FiledRests, FileStays DEF Turn, Turned, Stuck, Drops
<1>6. CASE Asks
  <2>1. ReceiverPoke[rpc] = <<Rpos(Stored)>>
    BY <1>1 DEF ReceiverPoke, Received, Stored, InName, Due, Files
  <2>2. toS' = Append(toS, Rpos(Stored)) /\ Silence
    BY <1>1, <1>6, <2>1, AppendJoins DEF Asks
  <2> QED
    BY <1>1, <1>6, <2>2, TurnsOf, FiledRests, FileStays DEF Turn, Turned, Stuck, Asks
<1> QED
  BY <1>4, <1>5, <1>6, FailTurns

LEMMA RestingTurns ==
  ASSUME Turn, NEW J, J \subseteq Junk, Resting(J)
  PROVE  Turned /\ (Receiving' => Resting(J)')
<1>1. rpc = "nextwait" /\ rpc \in DOMAIN ReceiverWants /\ Sequence(toR) /\ InName
  BY Waits, TurnSequences DEF Resting, Turn
<1>2. toR # <<>> => Head(toR).t \in J /\ Starts(Tail(toR), <<>>, J)
  BY <1>1, StartsOthers DEF Resting
<1>3. ~ReceiverTakes
  BY <1>1, <1>2 DEF ReceiverTakes, Junk
<1>4. Drops \/ Fails \/ Asks
  BY <1>1, <1>3, WaitMoves DEF Turn
<1>5. CASE Drops
  BY <1>1, <1>2, <1>5, TurnsOf, FiledRests, FileStays DEF Turn, Turned, Resting, Drops
<1>6. CASE Asks
  BY <1>1, <1>6, TurnsOf, FiledRests, FileStays DEF Turn, Turned, Resting, Asks
<1> QED
  BY <1>4, <1>5, <1>6, FailTurns

LEMMA SizesCount == \A f \in Files : Sizes[f] \in Nat
BY EngineConstants DEF Files

\* Only the file under way is written, which is not among the stored ones.
LEMMA FiledWritten ==
  ASSUME Filed, Due, file' = file, saved' = saved, Len(saved) \in Nat, file \in Nat,
         NEW d \in Seq(Nat \X Nat), disk' = [disk EXCEPT ![file] = d]
  PROVE  Filed' /\ disk'[file] = d
<1>1. file \in Files /\ Len(saved) = file - 1 /\ disk \in [Files -> Seq(Nat \X Nat)]
  BY DEF Due, Filed
<1>2. disk' \in [Files -> Seq(Nat \X Nat)] /\ disk'[file] = d
  BY <1>1
<1>3. ASSUME NEW i \in 1..Len(saved) PROVE disk'[i] = disk[i]
  <2>1. i # file /\ i \in Files
    BY <1>1, FilesCounted
  <2> QED
    BY <1>1, <2>1
<1> QED
  BY <1>2, <1>3 DEF Filed, Files, Blocks

LEMMA StoreBlock ==
  ASSUME NEW f, name = f, NEW b, Store(b)
  PROVE  /\ b[2] = 0 => disk' = [disk EXCEPT ![f] = @]
         /\ b[2] # 0 => disk' = [disk EXCEPT ![f] = Append(@, b)]
BY DEF Store

LEMMA BlockStored ==
  ASSUME Filed, InName, UNCHANGED <<name, file, saved>>, Len(saved) \in Nat, file \in Nat,
         Stored < Sizes[file], disk' = [disk EXCEPT ![file] = Append(@, Block(file, Stored + 1))]
  PROVE  Filed' /\ InName' /\ Stored' = Stored + 1
<1> DEFINE n == Stored
           d == [i \in 1..n |-> Block(file, i)]
           b == Block(file, n + 1)
<1>1. /\ file \in Files /\ disk \in [Files -> Seq(Nat \X Nat)] /\ Sizes[file] \in Nat
      /\ disk[file] = d /\ n \in Nat /\ b \in Nat \X Nat
  <2>1. file \in Files /\ disk \in [Files -> Seq(Nat \X Nat)] /\ Sizes[file] \in Nat
    <3>1. file \in Files /\ disk \in [Files -> Seq(Nat \X Nat)]
      BY DEF InName, Due, Filed
    <3> QED
      BY <3>1, SizesCount
  <2>2. n \in Nat
    BY <2>1, LenProperties DEF Stored
  <2> QED
    BY <2>1, <2>2 DEF InName, Block
<1>2. /\ d \in Seq(Nat \X Nat) /\ Len(d) = n
      /\ Append(d, b) \in Seq(Nat \X Nat) /\ Len(Append(d, b)) = n + 1
      /\ Append(d, b) = [i \in 1..n + 1 |-> Block(file, i)]
  <2>1. d \in Seq(Nat \X Nat) /\ Len(d) = n
    BY <1>1 DEF Block
  <2>2. Append(d, b) = [i \in 1..n + 1 |-> IF i = n + 1 THEN b ELSE d[i]]
        /\ Append(d, b) \in Seq(Nat \X Nat) /\ Len(Append(d, b)) = n + 1
    BY <1>1, <2>1
  <2>3. \A i \in 1..n + 1 : (IF i = n + 1 THEN b ELSE d[i]) = Block(file, i)
    BY <1>1
  <2> QED
    BY <2>1, <2>2, <2>3
<1>3. disk' = [disk EXCEPT ![file] = Append(d, b)]
  BY <1>1
<1> HIDE DEF n, d, b
<1>4. Filed' /\ disk'[file] = Append(d, b)
  <2>1. Due /\ file' = file /\ saved' = saved
    BY DEF InName
  <2> QED
    BY <1>2, <1>3, <2>1, FiledWritten
<1>5. Stored' = n + 1
  BY <1>2, <1>4 DEF Stored
<1>6. InName'
  <2>1. Due' /\ name' = file' /\ Stored' <= Sizes[file]
    BY <1>1, <1>5 DEF InName, Due, Files, n
  <2> QED
    BY <1>2, <1>4, <1>5, <2>1 DEF InName
<1> QED
  BY <1>4, <1>5, <1>6 DEF n

\* How far the two ends count.
LEMMA Counts ==
  ASSUME Turn PROVE Len(saved) \in Nat /\ file \in Nat
<1>1. saved \in Seq({saved[i] : i \in 1..Len(saved)})
  BY DEF Turn, ExchangeInv, Shapes, Sequence
<1> QED
  BY <1>1, LenProperties, FilesCounted DEF Turn, ExchangeInv, Shapes

LEMMA ToldTurns ==
  ASSUME Turn, NEW J, Told(J)
  PROVE  /\ Turned
         /\ Receiving' => Stuck(J)' /\ Stored' = 0 /\ toS' = Append(toS, Rpos(0))
<1>1. rpc = "info" /\ Sequence(toR) /\ Due /\ Len(saved) \in Nat /\ file \in Nat
  BY Counts, TurnSequences DEF Told, Turn
<1>2. toR # <<>> /\ Head(toR) = Info(file) /\ Starts(Tail(toR), <<>>, J)
  BY <1>1, FirstTaken DEF Told
<1>3. Head(toR).t = "data" /\ Head(toR).block[2] = file
  BY <1>2 DEF Info, Data
<1>4. ~Silence
  BY <1>2, NotSilent DEF Turn
<1>5. ReadInfo \/ BadBlock
  BY <1>1, <1>2, <1>3, <1>4, ReadMoves DEF Turn
<1>6. CASE ReadInfo
  <2>1. /\ toR' = Tail(toR) /\ rpc' = "datawait" /\ name' = file /\ toS' = Append(toS, Rpos(0))
        /\ disk' = [disk EXCEPT ![file] = <<>>] /\ UNCHANGED <<file, saved, garbled>>
    BY <1>3, <1>6 DEF ReadInfo, ReceiverGoes, senderVars
  <2>2. Filed' /\ disk'[file] = <<>>
    <3>1. <<>> \in Seq(Nat \X Nat)
      OBVIOUS
    <3>2. Filed /\ file' = file /\ saved' = saved
      BY <2>1 DEF Turn
    <3> QED
      BY <1>1, <2>1, <3>1, <3>2, FiledWritten
  <2>3. Stored' = 0 /\ InName'
    <3>1. Stored' = 0
      BY <2>1, <2>2 DEF Stored
    <3>2. Sizes[file] \in Nat
      BY <1>1, EngineConstants DEF Due, Files
    <3>3. disk'[file] = [i \in 1..0 |-> Block(file, i)]
      BY <2>2
    <3> QED
      BY <1>1, <2>1, <3>1, <3>2, <3>3 DEF InName, Due, Files
  <2> QED
    BY <1>2, <2>1, <2>2, <2>3, TurnsOf DEF Turn, Turned, Stuck
<1>7. CASE BadBlock
  BY <1>1, <1>7, FailTurns DEF BadBlock, Resync, ReceiverFails, ReceiverGoes, Fails
<1> QED
  BY <1>5, <1>6, <1>7

\* A block that cannot be used, and what is asked for then.
LEMMA BadTurns ==
  ASSUME Turn, rpc = "sub", InName, BadBlock, NEW J, Starts(Tail(toR), <<>>, J)
  PROVE  /\ Turned
         /\ Receiving' => Stuck(J)' /\ Stored' = Stored /\ toS' = Append(toS, Rpos(Stored))
<1>1. toR' = Tail(toR) /\ ~garbled' /\ UNCHANGED <<name, file, disk, saved>>
  BY DEF BadBlock, senderVars
<1>2. CASE rpc' = "failed"
  BY <1>1, <1>2, FailTurns DEF Fails
<1>3. CASE rpc' = "datawait" /\ toS' = Append(toS, Rpos(Len(Received)))
  <2>1. Len(Received) = Stored
    BY FilesCounted DEF Received, Stored, InName, Due
  <2> QED
    BY <1>1, <1>3, <2>1, TurnsOf, FiledRests, FileStays DEF Turn, Turned, Stuck
<1> QED
  BY <1>2, <1>3 DEF BadBlock, Resync, ReceiverFails, ReceiverGoes

LEMMA MiddleTurns ==
  ASSUME Turn, NEW J, rpc = "sub", InName, Stored + 1 < Sizes[file], Starts(toR, <<MidBlock>>, J)
  PROVE  /\ Turned
         /\ Receiving' =>
              \/ Resting(J)' /\ Stored' = Stored + 1 /\ toS' = Append(toS, Header("zack"))
              \/ Stuck(J)' /\ Stored' = Stored /\ toS' = Append(toS, Rpos(Stored))
<1>1. Sequence(toR) /\ Len(saved) \in Nat /\ file \in Nat
  BY Counts, TurnSequences DEF Turn
<1>2. toR # <<>> /\ Head(toR) = MidBlock /\ Starts(Tail(toR), <<>>, J)
  BY <1>1, FirstTaken
<1>3. /\ Head(toR).t = "data" /\ Head(toR).block = Block(file, Stored + 1)
      /\ Head(toR).term = "zcrcw"
  BY <1>2 DEF MidBlock, Data
<1>4. ~Silence
  BY <1>2, NotSilent DEF Turn
<1>5. ReadBlock \/ BadBlock
  BY <1>2, <1>3, <1>4, ReadMoves DEF Turn
<1>6. CASE ReadBlock
  <2>1. /\ toR' = Tail(toR) /\ rpc' = "nextwait" /\ toS' = Append(toS, Header("zack"))
        /\ Store(Block(file, Stored + 1)) /\ UNCHANGED <<name, file, saved, garbled>>
    BY <1>3, <1>6 DEF ReadBlock, ReceiverGoes, senderVars
  <2>2. Stored \in Nat /\ Sizes[file] \in Nat
    <3>1. file \in Files /\ disk \in [Files -> Seq(Nat \X Nat)]
      BY DEF InName, Due, Turn, Filed
    <3> QED
      BY <3>1, LenProperties, EngineConstants DEF Stored, Files
  <2>3. disk' = [disk EXCEPT ![file] = Append(@, Block(file, Stored + 1))]
    <3>1. Block(file, Stored + 1)[2] # 0 /\ name = file
      BY <2>2 DEF Block, InName
    <3> QED
      BY <2>1, <3>1, StoreBlock
  <2>4. Filed' /\ InName' /\ Stored' = Stored + 1
    BY <1>1, <2>1, <2>2, <2>3, BlockStored DEF Turn
  <2> QED
    BY <1>2, <2>1, <2>4, TurnsOf DEF Turn, Turned, Resting
<1>7. CASE BadBlock
  BY <1>2, <1>7, BadTurns
<1> QED
  BY <1>5, <1>6, <1>7

LEMMA LastTurns ==
  ASSUME Turn, NEW J, rpc = "sub", InName, Stored + 1 >= Sizes[file],
         Starts(toR, <<LastBlock, Header("zeof")>>, J)
  PROVE  /\ Turned
         /\ Receiving' =>
              \/ Closing(J)' /\ toS' = toS
              \/ Stuck(J \cup {"zeof"})' /\ Stored' = Stored /\ toS' = Append(toS, Rpos(Stored))
<1>1. Sequence(toR) /\ Len(saved) \in Nat /\ file \in Nat
  BY Counts, TurnSequences DEF Turn
<1>2. toR # <<>> /\ Head(toR) = LastBlock /\ Starts(Tail(toR), <<Header("zeof")>>, J)
  BY <1>1, FirstTaken
<1>3. /\ Head(toR).t = "data" /\ Head(toR).term = "zcrce"
      /\ Stored < Sizes[file] => Head(toR).block = Block(file, Stored + 1)
      /\ ~(Stored < Sizes[file]) => Head(toR).block = Block(file, 0)
  BY <1>2 DEF LastBlock, Data
<1>4. ~Silence
  BY <1>2, NotSilent DEF Turn
<1>5. ReadBlock \/ BadBlock
  BY <1>2, <1>3, <1>4, ReadMoves DEF Turn
<1>6. CASE ReadBlock
  <2>1. /\ toR' = Tail(toR) /\ rpc' = "eofwait" /\ toS' = toS
        /\ Store(Head(toR).block) /\ UNCHANGED <<name, file, saved, garbled>>
    BY <1>3, <1>6 DEF ReadBlock, ReceiverGoes, senderVars
  <2>2. Stored \in Nat /\ Sizes[file] \in Nat /\ file \in Files /\ disk \in [Files -> Seq(Nat \X Nat)]
    <3>1. file \in Files /\ disk \in [Files -> Seq(Nat \X Nat)]
      BY DEF InName, Due, Turn, Filed
    <3> QED
      BY <3>1, LenProperties, EngineConstants DEF Stored, Files
  <2>3. Filed' /\ InName' /\ Stored' = Sizes[file]
    <3>1. CASE Stored < Sizes[file]
      <4>1. disk' = [disk EXCEPT ![file] = Append(@, Block(file, Stored + 1))]
        <5>1. /\ Head(toR).block = Block(file, Stored + 1)
              /\ Block(file, Stored + 1)[2] # 0 /\ name = file
          BY <1>3, <2>2, <3>1 DEF Block, InName
        <5>2. Store(Block(file, Stored + 1))
          BY <2>1, <5>1
        <5> QED
          BY <5>1, <5>2, StoreBlock
      <4>2. Filed' /\ InName' /\ Stored' = Stored + 1
        BY <1>1, <2>1, <3>1, <4>1, BlockStored DEF Turn
      <4> QED
        BY <2>2, <3>1, <4>2
    <3>2. CASE ~(Stored < Sizes[file])
      <4>1. disk' = disk
        BY <1>3, <2>1, <2>2, <3>2 DEF Store, Block, InName
      <4>2. Filed' /\ InName' /\ Stored' = Stored
        BY <2>1, <4>1, FiledRests, FileStays DEF Turn
      <4> QED
        BY <2>2, <3>2, <4>2 DEF InName
    <3> QED
      BY <3>1, <3>2
  <2> QED
    BY <1>2, <2>1, <2>3, TurnsOf DEF Turn, Turned, Closing
<1>7. CASE BadBlock
  <2>1. Starts(Tail(toR), <<>>, J \cup {"zeof"})
    <3> DEFINE q == Tail(toR)
               e == Header("zeof")
    <3>1. Starts(q, <<e>>, J) /\ e.t = "zeof" /\ Len(<<e>>) = 1 /\ <<e>>[1] = e /\ Len(<<>>) = 0
      BY <1>2, FrameTypes
    <3> HIDE DEF q, e
    <3>2. ASSUME NEW i \in 1..Len(q) PROVE q[i].t \in J \cup {"zeof"}
      <4>1. CASE i = 1
        BY <3>1, <4>1 DEF Starts
      <4>2. CASE i # 1
        BY <3>1, <4>2 DEF Starts
      <4> QED
        BY <4>1, <4>2
    <3>3. Len(q) >= 0
      BY <3>1 DEF Starts
    <3> QED
      BY <3>1, <3>2, <3>3 DEF Starts, q
  <2> QED
    BY <1>2, <1>7, <2>1, BadTurns
<1> QED
  BY <1>5, <1>6, <1>7

LEMMA ClosingTurns ==
  ASSUME Turn, NEW J, Closing(J)
  PROVE  Turned /\ (Receiving' => Idle(J)' /\ toS' = Append(toS, Header("zrinit")))
<1>1. /\ rpc = "eofwait" /\ rpc \in DOMAIN ReceiverWants /\ Sequence(toR) /\ Sequence(saved)
      /\ InName /\ Stored = Sizes[file]
  BY Waits, TurnSequences DEF Closing, Turn
<1>2. toR # <<>> /\ Head(toR).t = "zeof" /\ Starts(Tail(toR), <<>>, J)
  <2> DEFINE e == Header("zeof")
  <2>1. Starts(toR, <<e>>, J) /\ e.t = "zeof"
    BY FrameTypes DEF Closing
  <2> HIDE DEF e
  <2>2. toR # <<>> /\ Head(toR) = e /\ Starts(Tail(toR), <<>>, J)
    BY <1>1, <2>1, FirstTaken
  <2> QED
    BY <2>1, <2>2
<1>3. ~Silence
  BY <1>2, NotSilent DEF Turn
<1>4. ReceiverTakes \/ Fails
  BY <1>1, <1>2, <1>3, WaitMoves, Wants DEF Turn, Drops, Asks
<1>5. CASE ReceiverTakes
  <2>1. /\ toR' = Tail(toR) /\ UNCHANGED <<name, disk, garbled, file>> /\ FileDone
    BY <1>1, <1>2, <1>5 DEF ReceiverTakes, senderVars
  <2>2. /\ saved' = Append(saved, file)
        /\ \/ rpc' = "filewait" /\ toS' = Append(toS, Header("zrinit"))
           \/ rpc' = "quit"
    BY <1>1, <2>1 DEF FileDone, ReceiverGoes, InName
  <2>3. Filed'
    <3>1. saved \in Seq({saved[i] : i \in 1..Len(saved)})
      BY <1>1 DEF Sequence
    <3>2. /\ Len(saved) \in Nat /\ Len(saved') = Len(saved) + 1
          /\ saved'[Len(saved) + 1] = file
          /\ \A i \in 1..Len(saved) : saved'[i] = saved[i]
      <4>1. Sequence(<<file>>) /\ Len(<<file>>) = 1 /\ <<file>>[1] = file
        BY FewFrames
      <4>2. saved' = saved \o <<file>>
        BY <1>1, <2>2, AppendJoins
      <4> QED
        BY <1>1, <4>1, <4>2, FrameJoin
    <3>3. Len(saved) + 1 = file /\ disk[file] = Blocks(file)
      <4>1. Len(saved) = file - 1 /\ disk[file] = [i \in 1..Stored |-> Block(file, i)]
        BY <1>1 DEF InName, Due
      <4>2. file \in Nat
        BY Counts
      <4> QED
        BY <1>1, <4>1, <4>2 DEF Blocks
    <3>4. ASSUME NEW i \in 1..Len(saved') PROVE saved'[i] = i /\ disk[i] = Blocks(i)
      <4>1. CASE i \in 1..Len(saved)
        BY <3>2, <4>1 DEF Turn, Filed
      <4>2. CASE i = Len(saved) + 1
        BY <3>2, <3>3, <4>2
      <4> QED
        BY <3>2, <4>1, <4>2
    <3> QED
      BY <2>1, <3>4 DEF Turn, Filed, Files, Blocks
  <2> QED
    BY <1>2, <2>1, <2>2, <2>3, TurnsOf DEF Turn, Turned, Idle, Receiving, ReceiverEnded
<1> QED
  BY <1>4, <1>5, FailTurns

\* A receiver that is told to end, and one that has nothing to go by.
LEMMA EndTurns ==
  ASSUME Turn, rpc = "filewait", Is(toR, <<Header("zfin")>>)
  PROVE  Turned /\ ~Receiving'
<1>1. rpc \in DOMAIN ReceiverWants /\ Sequence(toR)
  BY Waits, TurnSequences DEF Turn
<1>2. toR # <<>> /\ Head(toR).t = "zfin"
  BY <1>1, FirstTaken, FrameTypes DEF Is
<1>3. ~Silence
  BY <1>2, NotSilent DEF Turn
<1>4. ReceiverTakes \/ Fails
  BY <1>1, <1>2, <1>3, WaitMoves, Wants DEF Turn, Drops, Asks
<1>5. CASE ReceiverTakes
  <2>1. rpc' = "ok" /\ UNCHANGED <<disk, saved>>
    BY <1>2, <1>5 DEF ReceiverTakes, ReceiverGoes
  <2> QED
    BY <2>1, TurnsOf, FiledRests DEF Turn, Turned, Receiving, ReceiverEnded
<1> QED
  BY <1>4, <1>5, FailTurns

LEMMA NoTurn ==
  ASSUME Turn, Is(toR, <<>>), Sequence(toR) PROVE Silence
<1>1. toR = <<>>
  BY IsNothing
<1> QED
  BY <1>1
  DEF Turn, ReceiverStep, ReceiverTakes, ReceiverDiscards, ReceiverAborts, ReadInfo, ReadBlock,
      SwallowHeader, BadBlock, CancelInBlock, ReceiverTimesOut

LEMMA AloneTurns ==
  ASSUME Turn, SenderEnded, Alone PROVE Turned /\ (Receiving' => Alone')
<1>0. Junk \subseteq Junk /\ Junk \subseteq Junk \cup {"zeof"}
  OBVIOUS
<1>1. CASE Idle(Junk)
  BY <1>0, <1>1, IdleTurns DEF Alone
<1>2. CASE Offered(Junk)
  BY <1>2, OfferedTurns DEF Alone
<1>3. CASE Told(Junk)
  <2>1. Turned /\ (Receiving' => Stuck(Junk)')
    BY <1>3, ToldTurns
  <2>2. Stuck(Junk)' => Stuck(Junk \cup {"zeof"})'
    BY StartsWeaker DEF Stuck
  <2> QED
    BY <2>1, <2>2 DEF Alone
<1>4. CASE Fed(Junk)
  BY <1>4, FedTurns DEF Alone
<1>5. CASE Eating(Junk)
  <2>1. CASE Stored + 1 < Sizes[file] /\ Starts(toR, <<MidBlock>>, Junk)
    <3>1. Turned /\ (Receiving' => Resting(Junk)' \/ Stuck(Junk)')
      BY <1>5, <2>1, MiddleTurns DEF Eating
    <3>2. Stuck(Junk)' => Stuck(Junk \cup {"zeof"})'
      BY StartsWeaker DEF Stuck
    <3> QED
      BY <3>1, <3>2 DEF Alone
  <2>2. CASE Stored + 1 >= Sizes[file] /\ Starts(toR, <<LastBlock, Header("zeof")>>, Junk)
    <3>1. Turned /\ (Receiving' => Closing(Junk)' \/ Stuck(Junk \cup {"zeof"})')
      BY <1>5, <2>2, LastTurns DEF Eating
    <3> QED
      BY <3>1 DEF Alone
  <2> QED
    BY <1>5, <2>1, <2>2 DEF Eating
<1>6. CASE Stuck(Junk \cup {"zeof"})
  <2>1. Turned /\ (Receiving' => Stuck(Junk \cup {"zeof"})')
    BY <1>6, StuckTurns
  <2> QED
    BY <2>1 DEF Alone
<1>7. CASE Resting(Junk)
  BY <1>0, <1>7, RestingTurns DEF Alone
<1>8. CASE Closing(Junk)
  BY <1>8, ClosingTurns DEF Alone
<1> QED
  BY <1>1, <1>2, <1>3, <1>4, <1>5, <1>6, <1>7, <1>8 DEF Alone

\* What the sender hears of it: one answer, where there was none.
LEMMA Answered ==
  ASSUME Sequence(toS), Is(toS, <<>>), NEW e, toS' = Append(toS, e)
  PROVE  Is(toS', <<e>>)
<1>1. toS' = <<e>>
  BY IsNothing
<1>2. Sequence(<<e>>)
  BY FewFrames
<1> QED
  BY <1>1, <1>2, StartsItself DEF Is

LEMMA CoupledTurns ==
  ASSUME Turn, ~SenderEnded, Coupled PROVE Turned /\ (Receiving' => Coupled')
<1>0. Sequence(toR) /\ Sequence(toS) /\ Ordered
  BY TurnSequences DEF Turn
<1>2. ASSUME NEW e, Is(toS, <<e>>) PROVE toS # <<>>
  BY <1>0, <1>2, FirstTaken DEF Is
<1>3. UNCHANGED <<spc, sent, file>>
  BY TurnsOf DEF Turn
<1>4. CASE \/ spc = "negotiate" /\ Idle({}) /\ Is(toS, <<Header("zrinit")>>)
           \/ spc = "next" /\ Idle({}) /\ Is(toS, <<>>)
           \/ spc \in {"filewait", "ackwait"} /\ Stuck({}) /\ Is(toS, <<Rpos(Stored)>>)
           \/ spc = "send" /\ (Stuck({}) \/ Resting({})) /\ sent = Stored /\ Is(toS, <<>>)
           \/ spc = "ackwait" /\ Resting({}) /\ sent = Stored /\ Is(toS, <<Header("zack")>>)
           \/ spc = "eofwait" /\ Idle({}) /\ Is(toS, <<Header("zrinit")>>)
  <2>1. Is(toR, <<>>)
    BY <1>4 DEF Idle, Stuck, Resting, Is
  <2>2. toS # <<>> \/ spc \in {"next", "send"}
    BY <1>2, <1>4
  <2> QED
    BY <1>0, <2>1, <2>2, NoTurn, NotSilent
<1>5. CASE spc = "filewait" /\ Offered({}) /\ Is(toS, <<>>)
  BY <1>3, <1>5, OfferedTurns DEF Coupled, Is
<1>6. CASE spc = "filewait" /\ Told({}) /\ Is(toS, <<>>)
  <2>1. Turned /\ (Receiving' => Stuck({})' /\ Stored' = 0 /\ toS' = Append(toS, Rpos(0)))
    BY <1>6, ToldTurns
  <2>2. Receiving' => Is(toS', <<Rpos(Stored')>>)
    BY <1>0, <1>6, <2>1, Answered
  <2> QED
    BY <1>3, <1>6, <2>1, <2>2 DEF Coupled, Is
<1>7. CASE /\ spc = "ackwait" /\ Fed({}) /\ Is(toS, <<>>)
           /\ Stored + 1 < Sizes[file] /\ sent = Stored + 1
  <2>1. Turned /\ (Receiving' => Eating({})' /\ toS' = toS /\ Stored' = Stored)
    BY <1>7, FedTurns
  <2> QED
    BY <1>3, <1>7, <2>1 DEF Coupled, Is
<1>8. CASE /\ spc = "ackwait" /\ Eating({}) /\ Is(toS, <<>>)
           /\ Stored + 1 < Sizes[file] /\ sent = Stored + 1
  <2>1. Starts(toR, <<MidBlock>>, {})
    <3>1. Stored \in Int /\ Sizes[file] \in Int
      <4>1. file \in Files /\ disk \in [Files -> Seq(Nat \X Nat)]
        BY <1>8 DEF Eating, InName, Due, Turn, Filed
      <4> QED
        BY <4>1, SizesCount, LenProperties DEF Stored
    <3> QED
      BY <1>8, <3>1 DEF Eating
  <2>2. /\ Turned
        /\ Receiving' =>
             \/ Resting({})' /\ Stored' = Stored + 1 /\ toS' = Append(toS, Header("zack"))
             \/ Stuck({})' /\ Stored' = Stored /\ toS' = Append(toS, Rpos(Stored))
    BY <1>8, <2>1, MiddleTurns DEF Eating
  <2>3. toS' = Append(toS, Header("zack")) => Is(toS', <<Header("zack")>>)
    BY <1>0, <1>8, Answered
  <2>4. toS' = Append(toS, Rpos(Stored)) => Is(toS', <<Rpos(Stored)>>)
    BY <1>0, <1>8, Answered
  <2> QED
    BY <1>3, <1>8, <2>2, <2>3, <2>4 DEF Coupled, Is
<1>9. CASE spc = "eofwait" /\ Fed({}) /\ Is(toS, <<>>) /\ Stored + 1 >= Sizes[file]
  <2>1. Turned /\ (Receiving' => Eating({})' /\ toS' = toS /\ Stored' = Stored)
    BY <1>9, FedTurns
  <2> QED
    BY <1>3, <1>9, <2>1 DEF Coupled, Is
<1>10. CASE spc = "eofwait" /\ Eating({}) /\ Is(toS, <<>>) /\ Stored + 1 >= Sizes[file]
  <2>1. Starts(toR, <<LastBlock, Header("zeof")>>, {})
    <3>1. Stored \in Int /\ Sizes[file] \in Int
      <4>1. file \in Files /\ disk \in [Files -> Seq(Nat \X Nat)]
        BY <1>10 DEF Eating, InName, Due, Turn, Filed
      <4> QED
        BY <4>1, SizesCount, LenProperties DEF Stored
    <3> QED
      BY <1>10, <3>1 DEF Eating
  <2>2. /\ Turned
        /\ Receiving' =>
             \/ Closing({})' /\ toS' = toS
             \/ Stuck({} \cup {"zeof"})' /\ toS' = Append(toS, Rpos(Stored))
    BY <1>10, <2>1, LastTurns DEF Eating
  <2>3. {} \cup {"zeof"} = {"zeof"}
    OBVIOUS
  <2>4. toS' = Append(toS, Rpos(Stored)) => Starts(toS', <<>>, {"zrpos"})
    <3>1. Starts(toS, <<>>, {"zrpos"})
      BY <1>10, StartsWeaker DEF Is
    <3> QED
      BY <1>0, <3>1, StartsAdded, FewFrames, FrameTypes
  <2> QED
    BY <1>3, <1>10, <2>2, <2>3, <2>4 DEF Coupled, Is
<1>11. CASE spc = "eofwait" /\ Closing({}) /\ Is(toS, <<>>)
  <2>1. Turned /\ (Receiving' => Idle({})' /\ toS' = Append(toS, Header("zrinit")))
    BY <1>11, ClosingTurns
  <2>2. Receiving' => Is(toS', <<Header("zrinit")>>)
    BY <1>0, <1>11, <2>1, Answered
  <2> QED
    BY <1>3, <1>11, <2>1, <2>2 DEF Coupled, Is
<1>12. CASE spc = "eofwait" /\ Stuck({"zeof"}) /\ Starts(toS, <<>>, {"zrpos"})
  <2>1. /\ Turned
        /\ Receiving' => /\ Stuck({"zeof"})'
                         /\ toS' = toS \/ toS' = Append(toS, Rpos(Stored))
    BY <1>12, StuckTurns
  <2>2. toS' = Append(toS, Rpos(Stored)) => Starts(toS', <<>>, {"zrpos"})
    BY <1>0, <1>12, StartsAdded, FewFrames, FrameTypes
  <2> QED
    BY <1>3, <1>12, <2>1, <2>2 DEF Coupled
<1>13. CASE spc = "finwait" /\ rpc = "filewait" /\ Is(toR, <<Header("zfin")>>) /\ Is(toS, <<>>)
  BY <1>13, EndTurns
<1> QED
  BY <1>4, <1>5, <1>6, <1>7, <1>8, <1>9, <1>10, <1>11, <1>12, <1>13 DEF Coupled
-----------------------------------------------------------------------------
(* ------------------ the sender's turns, and the others ----------------- *)

LEMMA EndIsJunk ==
  ASSUME NEW q, Sequence(q), Is(q, <<Header("zfin")>>)
  PROVE  Starts(q, <<>>, Junk)
<1> DEFINE e == Header("zfin")
<1>1. e.t \in Junk /\ Len(<<e>>) = 1 /\ <<e>>[1] = e /\ Starts(q, <<e>>, {}) /\ Len(<<>>) = 0
  BY FrameTypes DEF Junk, Is
<1> HIDE DEF e
<1>2. Len(q) \in Nat
  BY LenProperties DEF Sequence
<1>3. ASSUME NEW i \in 1..Len(q) PROVE q[i].t \in Junk
  <2>1. CASE i = 1
    BY <1>1, <2>1 DEF Starts
  <2>2. CASE i # 1
    BY <1>1, <2>2 DEF Starts
  <2> QED
    BY <2>1, <2>2
<1> QED
  BY <1>1, <1>2, <1>3 DEF Starts

\* Whatever the two were at, the receiver can be left alone with it.
LEMMA CoupledAlone ==
  ASSUME Coupled, Sequence(toR) PROVE Alone
<1>1. /\ Idle({}) => Idle(Junk)
      /\ Offered({}) => Offered(Junk)
      /\ Told({}) => Told(Junk)
      /\ Resting({}) => Resting(Junk)
      /\ Closing({}) => Closing(Junk)
  BY StartsWeaker DEF Idle, Offered, Told, Resting, Closing
<1>2. Stuck({}) \/ Stuck({"zeof"}) => Stuck(Junk \cup {"zeof"})
  BY StartsWeaker DEF Stuck
<1>3. Fed({}) => Fed(Junk)
  BY StartsWeaker DEF Fed
<1>4. Eating({}) => Eating(Junk)
  BY StartsWeaker DEF Eating
<1>5. rpc = "filewait" /\ Is(toR, <<Header("zfin")>>) => Idle(Junk)
  BY EndIsJunk DEF Idle
<1> QED
  BY <1>1, <1>2, <1>3, <1>4, <1>5 DEF Coupled, Alone

LEMMA AloneStays ==
  ASSUME Alone, UNCHANGED <<toR, rpc, name, file, saved, disk>> PROVE Alone'
<1>1. /\ Due' = Due /\ InName' = InName
      /\ Stored' = Stored /\ MidBlock' = MidBlock /\ LastBlock' = LastBlock
  BY DEF Due, InName, Stored, MidBlock, LastBlock, Files
<1> QED
  BY <1>1 DEF Alone, Idle, Offered, Told, Fed, Eating, Stuck, Resting, Closing

LEMMA AloneAdded ==
  ASSUME Alone, Sequence(toR), UNCHANGED <<rpc, name, file, saved, disk>>,
         NEW e, e.t \in Junk, toR' = Append(toR, e)
  PROVE  Alone'
<1>1. /\ Due' = Due /\ InName' = InName
      /\ Stored' = Stored /\ MidBlock' = MidBlock /\ LastBlock' = LastBlock
  BY DEF Due, InName, Stored, MidBlock, LastBlock, Files
<1>2. \A s, J : Sequence(s) /\ Starts(toR, s, J) /\ Junk \subseteq J => Starts(toR', s, J)
  BY StartsAdded
<1>3. Junk \subseteq Junk /\ Junk \subseteq Junk \cup {"zeof"}
  OBVIOUS
<1>4. /\ Idle(Junk) => Idle(Junk)'
      /\ Resting(Junk) => Resting(Junk)'
      /\ Stuck(Junk \cup {"zeof"}) => Stuck(Junk \cup {"zeof"})'
  <2>1. Sequence(<<>>)
    BY FewFrames
  <2> QED
    BY <1>1, <1>2, <1>3, <2>1 DEF Idle, Resting, Stuck
<1>5. Offered(Junk) => Offered(Junk)'
  BY <1>1, <1>2, <1>3, Announcement DEF Offered
<1>6. Told(Junk) => Told(Junk)'
  <2>1. Sequence(<<Info(file)>>)
    BY FewFrames
  <2> QED
    BY <1>1, <1>2, <1>3, <2>1 DEF Told
<1>7. Closing(Junk) => Closing(Junk)'
  <2>1. Sequence(<<Header("zeof")>>)
    BY FewFrames
  <2> QED
    BY <1>1, <1>2, <1>3, <2>1 DEF Closing
<1>8. Fed(Junk) => Fed(Junk)'
  <2>1. Sequence(<<Header("zdata"), MidBlock>>) /\ Sequence(<<Header("zdata"), LastBlock, Header("zeof")>>)
    BY FewFrames
  <2> QED
    BY <1>1, <1>2, <1>3, <2>1 DEF Fed
<1>9. Eating(Junk) => Eating(Junk)'
  <2>1. Sequence(<<MidBlock>>) /\ Sequence(<<LastBlock, Header("zeof")>>)
    BY FewFrames
  <2> QED
    BY <1>1, <1>2, <1>3, <2>1 DEF Eating
<1> QED
  BY <1>4, <1>5, <1>6, <1>7, <1>8, <1>9 DEF Alone

\* What a wait of the sender can do besides taking a header it wants.
SenderDrops ==
  /\ toS # <<>> /\ toS' = Tail(toS) /\ Head(toS).t \notin SenderWants[spc]
  /\ UNCHANGED <<toR, spc, file, sent>>
SenderAsks ==
  /\ Silence /\ toR' \in {toR, toR \o SenderPoke[spc]}
  /\ UNCHANGED <<toS, spc, file, sent>>
SenderQuits == spc' = "failed" /\ UNCHANGED <<toR, file>>

LEMMA SenderMoves ==
  ASSUME SenderStep \/ OpenFails, spc \in DOMAIN SenderWants
  PROVE  SenderTakes \/ SenderDrops \/ SenderAsks \/ SenderQuits
<1>1. spc \notin {"negotiate", "next", "send"}
  BY Waits
<1>2. CASE SenderDiscards
  BY <1>2 DEF SenderDiscards, SenderFails, SenderGoes, SenderDrops, SenderQuits
<1>3. CASE SenderAborts
  BY <1>3 DEF SenderAborts, SenderFails, SenderGoes, SenderQuits
<1>4. CASE SenderTimesOut
  BY <1>1, <1>4 DEF SenderTimesOut, SenderFails, SenderGoes, SenderAsks, SenderQuits
<1> QED
  BY <1>1, <1>2, <1>3, <1>4
  DEF SenderStep, Negotiate, StartFile, FinishFiles, SendBlock, SendLast, OpenFails

LEMMA SenderKeeps ==
  SenderStep \/ OpenFails => UNCHANGED <<line, rpc, name, disk, saved, garbled>>
BY DEF SenderStep, OpenFails, Negotiate, StartFile, FinishFiles, SendBlock, SendLast, SenderTakes,
   SenderDiscards, SenderAborts, SenderTimesOut, receiverVars

LEMMA OnlyFrames ==
  ASSUME NEW q, Sequence(q), Is(q, <<>>)
  PROVE  /\ \A e : Is(Append(q, e), <<e>>)
         /\ \A w : Sequence(w) => Is(q \o w, w)
<1>1. ASSUME NEW e PROVE Is(Append(q, e), <<e>>)
  <2>1. Append(q, e) = <<e>> /\ Sequence(<<e>>)
    BY IsNothing, FewFrames
  <2> QED
    BY <2>1, StartsItself DEF Is
<1>2. ASSUME NEW w, Sequence(w) PROVE Is(q \o w, w)
  <2>1. q \o w = w
    BY <1>2, IsNothing
  <2> QED
    BY <1>2, <2>1, StartsItself DEF Is
<1> QED
  BY <1>1, <1>2

\* The first frame of a short queue, and the rest of it.
LEMMA TakesOnly ==
  ASSUME NEW q, Sequence(q), NEW e, Is(q, <<e>>)
  PROVE  q # <<>> /\ Head(q) = e /\ Is(Tail(q), <<>>)
BY FirstTaken DEF Is

LEMMA SenderHears ==
  /\ SenderWants["filewait"] = {"zrpos"}
  /\ SenderWants["ackwait"] = {"zack", "zrpos"}
  /\ SenderWants["eofwait"] = {"zrinit", "zfin"}
BY DEF SenderWants

\* What holds before each of the sender's turns, and what it leads to.
Speaks == ExchangeInv /\ Ordered /\ Coupled /\ ~SenderEnded /\ (SenderStep \/ OpenFails)
Spoken == IF SenderEnded' THEN Alone' ELSE Coupled'

LEMMA SpeakSequences == ExchangeInv => Sequence(toR) /\ Sequence(toS)
BY DEF ExchangeInv, Shapes

LEMMA QuitSpoken == Speaks /\ SenderQuits => Spoken
<1> SUFFICES ASSUME Speaks, SenderQuits PROVE Spoken
  OBVIOUS
<1>1. UNCHANGED <<toR, rpc, name, file, saved, disk>>
  BY SenderKeeps DEF Speaks, SenderQuits
<1>2. Alone'
  BY <1>1, CoupledAlone, AloneStays, SpeakSequences DEF Speaks
<1> QED
  BY <1>2 DEF Spoken, SenderQuits, SenderEnded

LEMMA Unmoved ==
  ASSUME UNCHANGED <<toR, rpc, name, file, saved, disk>>, NEW J
  PROVE  /\ Stored' = Stored /\ (Stuck(J)' <=> Stuck(J)) /\ (Resting(J)' <=> Resting(J))
<1>1. /\ InName' = InName
      /\ Stored' = Stored
  BY DEF Due, InName, Stored, Files
<1> QED
  BY <1>1 DEF Stuck, Resting

LEMMA NegotiateSpoken ==
  ASSUME Speaks, spc = "negotiate", Idle({}), Is(toS, <<Header("zrinit")>>)
  PROVE  Spoken
<1>1. /\ toS # <<>> /\ Head(toS).t = "zrinit" /\ Is(Tail(toS), <<>>)
  <2>1. toS # <<>> /\ Head(toS) = Header("zrinit") /\ Is(Tail(toS), <<>>)
    BY SpeakSequences, TakesOnly DEF Speaks
  <2> QED
    BY <2>1, FrameTypes
<1>2. ~Silence /\ spc \notin DOMAIN SenderWants
  BY <1>1, NotSilent, Waits DEF Speaks
<1>3. CASE Negotiate
  BY <1>1, <1>3 DEF Negotiate, SenderGoes, receiverVars, Spoken, Coupled, Idle, SenderEnded
<1>4. CASE SenderAborts
  BY <1>4, QuitSpoken DEF SenderAborts, SenderFails, SenderGoes, SenderQuits
<1> QED
  BY <1>2, <1>3, <1>4
  DEF Speaks, SenderStep, StartFile, FinishFiles, SendBlock, SendLast, SenderTakes, SenderDiscards,
      SenderTimesOut, OpenFails, SenderWaits

LEMMA NextSpoken ==
  ASSUME Speaks, spc = "next", Idle({}), Is(toS, <<>>)
  PROVE  Spoken
<1>0. Sequence(toR) /\ Is(toR, <<>>) /\ spc \notin DOMAIN SenderWants
  BY SpeakSequences, Waits DEF Speaks, Idle, Is
<1>1. CASE StartFile
  <2>1. /\ toR' = toR \o ZfileFrames(file) /\ spc' = "filewait" /\ file \in Files
        /\ UNCHANGED <<toS, file, rpc, saved>>
    BY <1>1 DEF StartFile, SenderGoes, receiverVars
  <2>2. Is(toR', ZfileFrames(file))
    BY <1>0, <2>1, OnlyFrames, Announcement
  <2>3. Due'
    BY <2>1 DEF Speaks, ExchangeInv, Between, Apart, Due, Files
  <2> QED
    BY <2>1, <2>2, <2>3 DEF Spoken, Coupled, Idle, Offered, Is, SenderEnded
<1>2. CASE FinishFiles
  <2>1. /\ toR' = Append(toR, Header("zfin")) /\ spc' \in {"ok", "finwait"}
        /\ UNCHANGED <<toS, rpc>>
    BY <1>2 DEF FinishFiles, SenderGoes, receiverVars
  <2>2. Is(toR', <<Header("zfin")>>)
    BY <1>0, <2>1, OnlyFrames
  <2>3. Idle(Junk)'
    <3>1. Sequence(toR')
      BY <1>0, <2>1, Longer
    <3> QED
      BY <2>1, <2>2, <3>1, EndIsJunk DEF Idle
  <2> QED
    BY <2>1, <2>2, <2>3 DEF Spoken, Coupled, Alone, Idle, SenderEnded
<1>3. CASE OpenFails
  BY <1>3, QuitSpoken DEF OpenFails, SenderFails, SenderGoes, SenderQuits
<1> QED
  BY <1>0, <1>1, <1>2, <1>3
  DEF Speaks, SenderStep, Negotiate, SendBlock, SendLast, SenderTakes, SenderDiscards, SenderAborts,
      SenderTimesOut, SenderWaits

LEMMA PositionSpoken ==
  ASSUME Speaks, spc \in {"filewait", "ackwait"}, Stuck({}), Is(toS, <<Rpos(Stored)>>)
  PROVE  Spoken
<1>1. /\ toS # <<>> /\ Head(toS) = Rpos(Stored) /\ Is(Tail(toS), <<>>)
      /\ Head(toS).t = "zrpos" /\ Head(toS).at = Stored
  <2>1. toS # <<>> /\ Head(toS) = Rpos(Stored) /\ Is(Tail(toS), <<>>)
    BY SpeakSequences, TakesOnly DEF Speaks
  <2> QED
    BY <2>1, FrameTypes DEF Rpos
<1>2. ~Silence
  BY <1>1, NotSilent DEF Speaks
<1>3. SenderTakes \/ SenderQuits
  BY <1>1, <1>2, SenderMoves, SenderHears, Waits DEF Speaks, SenderDrops, SenderAsks
<1>4. CASE SenderTakes
  <2>1. /\ toS' = Tail(toS) /\ spc' = "send" /\ sent' = Stored
        /\ UNCHANGED <<toR, rpc, name, file, saved, disk>>
    BY <1>1, <1>4 DEF SenderTakes, SenderGoes, Rewind, receiverVars
  <2> QED
    BY <1>1, <2>1, Unmoved DEF Spoken, Coupled, SenderEnded
<1> QED
  BY <1>3, <1>4, QuitSpoken

LEMMA AckSpoken ==
  ASSUME Speaks, spc = "ackwait", Resting({}), sent = Stored, Is(toS, <<Header("zack")>>)
  PROVE  Spoken
<1>1. toS # <<>> /\ Head(toS).t = "zack" /\ Is(Tail(toS), <<>>)
  <2>1. toS # <<>> /\ Head(toS) = Header("zack") /\ Is(Tail(toS), <<>>)
    BY SpeakSequences, TakesOnly DEF Speaks
  <2> QED
    BY <2>1, FrameTypes
<1>2. ~Silence
  BY <1>1, NotSilent DEF Speaks
<1>3. SenderTakes \/ SenderQuits
  BY <1>1, <1>2, SenderMoves, SenderHears, Waits DEF Speaks, SenderDrops, SenderAsks
<1>4. CASE SenderTakes
  <2>1. /\ toS' = Tail(toS) /\ spc' = "send" /\ sent' = sent
        /\ UNCHANGED <<toR, rpc, name, file, saved, disk>>
    BY <1>1, <1>4 DEF SenderTakes, SenderGoes, Rewind, receiverVars
  <2> QED
    BY <1>1, <2>1, Unmoved DEF Spoken, Coupled, SenderEnded
<1> QED
  BY <1>3, <1>4, QuitSpoken

LEMMA SendSpoken ==
  ASSUME Speaks, spc = "send", Stuck({}) \/ Resting({}), sent = Stored, Is(toS, <<>>)
  PROVE  Spoken
<1>0. /\ Sequence(toR) /\ Is(toR, <<>>) /\ InName /\ rpc \in {"datawait", "nextwait"}
      /\ spc \notin DOMAIN SenderWants
  BY SpeakSequences, Waits DEF Speaks, Stuck, Resting, Is
<1>1. UNCHANGED <<rpc, name, saved, disk>>
  BY SenderKeeps DEF Speaks
<1>2. CASE SendBlock
  <2>1. /\ toR' = toR \o <<Header("zdata"), MidBlock>> /\ spc' = "ackwait" /\ sent' = Stored + 1
        /\ Stored + 1 < Sizes[file] /\ UNCHANGED <<toS, file>>
    BY <1>2 DEF SendBlock, SenderGoes, MidBlock
  <2>2. Is(toR', <<Header("zdata"), MidBlock>>)
    <3>1. Sequence(<<Header("zdata"), MidBlock>>)
      BY FewFrames
    <3> QED
      BY <1>0, <2>1, <3>1, OnlyFrames
  <2>3. InName' /\ Stored' = Stored /\ MidBlock' = MidBlock
    BY <1>0, <1>1, <2>1, FileStays
  <2>4. Fed({})'
    BY <1>0, <1>1, <2>1, <2>2, <2>3 DEF Fed, Is
  <2> QED
    BY <2>1, <2>3, <2>4 DEF Spoken, Coupled, SenderEnded, Is
<1>3. CASE SendLast
  <2>1. /\ toR' = toR \o <<Header("zdata"), LastBlock, Header("zeof")>> /\ spc' = "eofwait"
        /\ Stored + 1 >= Sizes[file] /\ UNCHANGED <<toS, file>>
    BY <1>3 DEF SendLast, SenderGoes, LastBlock
  <2>2. Is(toR', <<Header("zdata"), LastBlock, Header("zeof")>>)
    <3>1. Sequence(<<Header("zdata"), LastBlock, Header("zeof")>>)
      BY FewFrames
    <3> QED
      BY <1>0, <2>1, <3>1, OnlyFrames
  <2>3. InName' /\ Stored' = Stored /\ LastBlock' = LastBlock
    BY <1>0, <1>1, <2>1, FileStays
  <2>4. Fed({})'
    BY <1>0, <1>1, <2>1, <2>2, <2>3 DEF Fed, Is
  <2> QED
    BY <2>1, <2>3, <2>4 DEF Spoken, Coupled, SenderEnded, Is
<1> QED
  BY <1>0, <1>2, <1>3
  DEF Speaks, SenderStep, Negotiate, StartFile, FinishFiles, SenderTakes, SenderDiscards,
      SenderAborts, SenderTimesOut, OpenFails, SenderWaits, Silence, Trouble, Ordered

LEMMA InvitedSpoken ==
  ASSUME Speaks, spc = "eofwait", Idle({}), Is(toS, <<Header("zrinit")>>)
  PROVE  Spoken
<1>1. toS # <<>> /\ Head(toS).t = "zrinit" /\ Is(Tail(toS), <<>>)
  <2>1. toS # <<>> /\ Head(toS) = Header("zrinit") /\ Is(Tail(toS), <<>>)
    BY SpeakSequences, TakesOnly DEF Speaks
  <2> QED
    BY <2>1, FrameTypes
<1>2. ~Silence
  BY <1>1, NotSilent DEF Speaks
<1>3. SenderTakes \/ SenderQuits
  BY <1>1, <1>2, SenderMoves, SenderHears, Waits DEF Speaks, SenderDrops, SenderAsks
<1>4. CASE SenderTakes
  <2>1. toS' = Tail(toS) /\ spc' = "next" /\ UNCHANGED <<toR, rpc>>
    BY <1>1, <1>4 DEF SenderTakes, SenderGoes, receiverVars
  <2> QED
    BY <1>1, <2>1 DEF Spoken, Coupled, Idle, SenderEnded
<1> QED
  BY <1>3, <1>4, QuitSpoken

LEMMA StuckSpoken ==
  ASSUME Speaks, spc = "eofwait", Stuck({"zeof"}), Starts(toS, <<>>, {"zrpos"})
  PROVE  Spoken
<1>0. Sequence(toR) /\ Sequence(toS) /\ UNCHANGED <<rpc, name, saved, disk>>
  BY SpeakSequences, SenderKeeps DEF Speaks
<1>1. toS # <<>> => Head(toS).t = "zrpos" /\ Starts(Tail(toS), <<>>, {"zrpos"})
  <2> DEFINE J == {"zrpos"}
  <2> SUFFICES ASSUME toS # <<>>
               PROVE  Head(toS).t \in J /\ Starts(Tail(toS), <<>>, J)
    OBVIOUS
  <2>1. Starts(toS, <<>>, J)
    OBVIOUS
  <2> HIDE DEF J
  <2> QED
    BY <1>0, <2>1, StartsOthers
<1>2. ~SenderTakes
  <2> SUFFICES ASSUME SenderTakes PROVE FALSE
    OBVIOUS
  <2>1. Head(toS).t = "zrpos"
    BY <1>1 DEF SenderTakes
  <2>2. Head(toS).t \in {"zrinit", "zfin"}
    BY DEF SenderTakes, PassesFile
  <2> QED
    BY <2>1, <2>2
<1>3. SenderDrops \/ SenderAsks \/ SenderQuits
  BY <1>2, SenderMoves, Waits DEF Speaks
<1>4. CASE SenderDrops
  BY <1>0, <1>1, <1>4, Unmoved DEF SenderDrops, Spoken, Coupled, SenderEnded
<1>5. CASE SenderAsks
  <2>1. UNCHANGED <<toS, spc, file>>
    BY <1>5 DEF SenderAsks
  <2>2. CASE toR' = toR
    BY <1>0, <2>1, <2>2, Unmoved DEF Spoken, Coupled, SenderEnded
  <2>3. CASE toR' = toR \o SenderPoke[spc]
    <3>1. toR' = Append(toR, Header("zeof"))
      BY <1>0, <2>3, Pokes, AppendJoins
    <3>2. Starts(toR', <<>>, {"zeof"})
      BY <1>0, <3>1, StartsAdded, FewFrames, FrameTypes DEF Stuck
    <3>3. InName'
      BY <1>0, <2>1, FileStays DEF Stuck
    <3> QED
      BY <1>0, <2>1, <3>2, <3>3 DEF Spoken, Coupled, Stuck, SenderEnded
  <2> QED
    BY <1>5, <2>2, <2>3 DEF SenderAsks
<1> QED
  BY <1>3, <1>4, <1>5, QuitSpoken

\* With something before the receiver and nothing to hear, the sender waits.
LEMMA SilentSender ==
  ASSUME Speaks, spc \in {"filewait", "ackwait", "eofwait", "finwait"}, Is(toS, <<>>), toR # <<>>
  PROVE  FALSE
<1>1. toS = <<>>
  BY SpeakSequences, IsNothing DEF Speaks
<1>2. ~Silence
  BY NotSilent DEF Speaks
<1> QED
  BY <1>1, <1>2
  DEF Speaks, SenderStep, Negotiate, StartFile, FinishFiles, SendBlock, SendLast, SenderTakes,
      SenderDiscards, SenderAborts, SenderTimesOut, OpenFails

LEMMA CoupledSpoken == Speaks => Spoken
<1> SUFFICES ASSUME Speaks PROVE Spoken
  OBVIOUS
<1>1. Offered({}) \/ Told({}) \/ Fed({}) \/ Eating({}) \/ Closing({}) \/ Is(toR, <<Header("zfin")>>)
      => toR # <<>>
  BY SpeakSequences, FirstTaken
  DEF Speaks, Offered, Told, Fed, Eating, Closing, Is, ZfileFrames
<1> QED
  BY <1>1, SilentSender, NegotiateSpoken, NextSpoken, PositionSpoken, AckSpoken, SendSpoken,
     InvitedSpoken, StuckSpoken DEF Speaks, Coupled

LEMMA LineStays == ExchangeNext => line' = line
BY DEF ExchangeNext, SenderStep, Negotiate, StartFile, FinishFiles, SendBlock, SendLast,
   SenderTakes, SenderDiscards, SenderAborts, SenderTimesOut, ReceiverStep, ReceiverTakes,
   ReceiverDiscards, ReceiverAborts, ReadInfo, ReadBlock, SwallowHeader, BadBlock, CancelInBlock,
   ReceiverTimesOut, OpenFails, Lose, ShellTakes, UserCancels

\* Who has ended takes no more turns.
LEMMA EndsStay ==
  /\ SenderEnded => ~SenderStep /\ ~OpenFails
  /\ ReceiverEnded => ~ReceiverStep
<1>1. SenderEnded => ~SenderStep /\ ~OpenFails
  BY Waits
  DEF SenderEnded, SenderStep, Negotiate, StartFile, FinishFiles, SendBlock, SendLast,
      SenderTakes, SenderDiscards, SenderAborts, SenderTimesOut, OpenFails, SenderWaits
<1>2. ReceiverEnded => ~ReceiverStep
  BY Waits
  DEF ReceiverEnded, ReceiverStep, ReceiverTakes, ReceiverDiscards, ReceiverAborts, ReadInfo,
      ReadBlock, SwallowHeader, BadBlock, CancelInBlock, ReceiverTimesOut, ReceiverWaits, Reads
<1> QED
  BY <1>1, <1>2

LEMMA WholeSpeaks ==
  ASSUME ExchangeInv, Ordered, WholeInv, SenderStep \/ OpenFails PROVE WholeInv'
<1>1. UNCHANGED <<line, rpc, name, disk, saved, garbled>> /\ ~SenderEnded
  BY SenderKeeps, EndsStay
<1>2. Filed'
  BY <1>1, FiledRests DEF WholeInv
<1>3. Receiving' = Receiving
  BY <1>1 DEF Receiving, ReceiverEnded
<1>4. Receiving => Spoken
  BY <1>1, CoupledSpoken DEF WholeInv, Speaks
<1> QED
  BY <1>1, <1>2, <1>3, <1>4 DEF WholeInv, Spoken

LEMMA WholeTurns ==
  ASSUME ExchangeInv, Ordered, WholeInv, ReceiverStep PROVE WholeInv'
<1>1. Receiving /\ Turn
  BY EndsStay DEF WholeInv, Turn, Receiving
<1>2. Turned
  BY <1>1, AloneTurns, CoupledTurns DEF WholeInv
<1>3. SenderEnded' = SenderEnded
  BY <1>2 DEF Turned, SenderEnded
<1>4. Receiving' => IF SenderEnded THEN Alone' ELSE Coupled'
  BY <1>1, AloneTurns, CoupledTurns DEF WholeInv
<1> QED
  BY <1>2, <1>3, <1>4 DEF WholeInv, Turned

\* Behind the receiver comes at most what it said itself, or a cancel sequence.
LEMMA WholeBehind ==
  ASSUME ExchangeInv, WholeInv, Receiving, SenderEnded', SenderEnded \/ Coupled,
         UNCHANGED <<rpc, name, file, saved, disk, garbled>>,
         \/ toR' = toR
         \/ toS # <<>> /\ toR' = Append(toR, Head(toS))
         \/ toR' = Append(toR, Header("can"))
  PROVE  WholeInv'
<1>1. Sequence(toR) /\ Sequence(toS) /\ Only(toS, Answers)
  BY DEF ExchangeInv, Shapes, Sayings
<1>2. Alone
  BY <1>1, CoupledAlone DEF WholeInv
<1>3. Alone'
  <2>1. CASE toR' = toR
    BY <1>2, <2>1, AloneStays
  <2>2. CASE toS # <<>> /\ toR' = Append(toR, Head(toS))
    <3>1. Head(toS).t \in Junk
      BY <1>1, <2>2, Taking DEF Answers, Junk
    <3> QED
      BY <1>1, <1>2, <2>2, <3>1, AloneAdded
  <2>3. CASE toR' = Append(toR, Header("can"))
    <3>1. Header("can").t \in Junk
      BY FrameTypes DEF Junk
    <3> QED
      BY <1>1, <1>2, <2>3, <3>1, AloneAdded
  <2> QED
    BY <2>1, <2>2, <2>3
<1>4. Filed'
  BY FiledRests DEF WholeInv
<1> QED
  BY <1>3, <1>4 DEF WholeInv, Receiving, ReceiverEnded

\* Once the receiver has ended, what it stored stays.
LEMMA WholeAfter ==
  ASSUME WholeInv, ReceiverEnded', UNCHANGED <<saved, disk>> PROVE WholeInv'
BY FiledRests DEF WholeInv, Receiving

LEMMA WholeAround ==
  ASSUME ExchangeInv, Ordered, WholeInv, Lose \/ ShellTakes \/ UserCancels PROVE WholeInv'
<1>1. ~Lose
  BY DEF Lose, Trouble, Ordered
<1>2. UNCHANGED <<name, file, saved, disk, garbled>>
  BY <1>1 DEF ShellTakes, UserCancels, senderVars, receiverVars
<1>3. CASE ReceiverEnded'
  BY <1>2, <1>3, WholeAfter
<1>4. CASE ~ReceiverEnded'
  <2>1. rpc' = rpc /\ Receiving /\ SenderEnded'
    BY <1>1, <1>4
    DEF ShellTakes, UserCancels, senderVars, receiverVars, Receiving, ReceiverEnded, SenderEnded,
        SenderFails, SenderGoes, ReceiverFails, ReceiverGoes
  <2>2. SenderEnded \/ Coupled
    BY <2>1 DEF WholeInv
  <2>3. \/ toR' = toR
        \/ toS # <<>> /\ toR' = Append(toR, Head(toS))
        \/ toR' = Append(toR, Header("can"))
    BY <1>1, <2>1 DEF ShellTakes, UserCancels, Receiving
  <2> QED
    BY <1>2, <2>1, <2>2, <2>3, WholeBehind
<1> QED
  BY <1>3, <1>4

LEMMA WholeRests ==
  ASSUME WholeInv, UNCHANGED exchangeVars PROVE WholeInv'
BY DEF exchangeVars, WholeInv, Filed, Receiving, ReceiverEnded, SenderEnded, Alone, Coupled, Idle,
   Offered, Told, Fed, Eating, Stuck, Resting, Closing, InName, Due, Stored, MidBlock, LastBlock,
   Files

LEMMA WholeStarts == ExchangeInit => WholeInv
<1> SUFFICES ASSUME ExchangeInit PROVE WholeInv
  OBVIOUS
<1>1. /\ toR = <<>> /\ toS = <<Header("zrinit")>> /\ saved = <<>> /\ ~garbled
      /\ spc = "negotiate" /\ rpc = "filewait" /\ disk = [f \in Files |-> <<>>]
  BY DEF ExchangeInit
<1>2. Sequence(<<>>) /\ Sequence(<<Header("zrinit")>>)
  BY FewFrames
<1>3. Starts(toR, <<>>, {}) /\ Is(toS, <<Header("zrinit")>>)
  BY <1>1, <1>2, StartsItself DEF Is
<1>4. Filed
  <2>1. Len(saved) = 0 /\ disk \in [Files -> Seq(Nat \X Nat)]
    BY <1>1
  <2> QED
    BY <2>1 DEF Filed
<1> QED
  BY <1>1, <1>3, <1>4 DEF WholeInv, Coupled, Idle, SenderEnded

LEMMA WholeHolds ==
  /\ ExchangeInv /\ (Ordered => WholeInv) /\ [ExchangeNext]_exchangeVars
  => (Ordered => WholeInv)'
<1> SUFFICES ASSUME ExchangeInv, Ordered => WholeInv, [ExchangeNext]_exchangeVars, Ordered'
             PROVE  WholeInv'
  OBVIOUS
<1>1. line' = line
  BY LineStays DEF exchangeVars
<1>2. Ordered /\ WholeInv
  BY <1>1 DEF Ordered
<1>3. CASE UNCHANGED exchangeVars
  BY <1>2, <1>3, WholeRests
<1>4. CASE ExchangeNext
  BY <1>2, <1>4, WholeSpeaks, WholeTurns, WholeAround DEF ExchangeNext
<1> QED
  BY <1>3, <1>4

\* On a line that keeps what it carries and is in time, a file the receiver lists as
\* saved is the file the sender has: whatever arrives damaged or is echoed, whoever
\* cancels, fails or quits, and however often a block is asked for again.
THEOREM Whole == ExchangeSpec => []WholeFile
<1>1. ExchangeInit => (Ordered => WholeInv)
  BY WholeStarts
<1>2. ExchangeInv /\ (Ordered => WholeInv) => WholeFile
  <2> SUFFICES ASSUME ExchangeInv, Ordered, Filed PROVE WholeFile
    BY DEF WholeInv, WholeFile, Ordered
  <2>1. DOMAIN saved = 1..Len(saved)
    BY LenProperties DEF ExchangeInv, Shapes, Sequence
  <2> QED
    BY <2>1 DEF WholeFile, Filed
<1> QED
  BY <1>1, <1>2, WholeHolds, Exchanges, PTL DEF ExchangeSpec
=============================================================================
