------------------------- MODULE CommandOutputProofs -------------------------
(***************************************************************************)
(* What is proved of the capture of a command's output: the rows of the    *)
(* audit trail get disjoint intervals of it, each at most once, and the    *)
(* chunk that brings the end of a command is part of its row's; and of the *)
(* hook script, that none of it is shown while it is being installed.      *)
(***************************************************************************)
EXTENDS CommandOutput, SequenceTheorems, FiniteSetTheorems, WellFoundedInduction, TLAPS

(* --------------------------- sequences of pieces ----------------------- *)

Sequence(s) == s \in Seq({s[i] : i \in 1..Len(s)})

\* A sequence over any set is one over the set of its elements.
LEMMA AnySequence ==
  ASSUME NEW S, NEW s \in Seq(S)
  PROVE  Sequence(s) /\ Len(s) \in Nat
<1>1. Len(s) \in Nat /\ s \in [1..Len(s) -> S]
  BY LenProperties
<1>2. DEFINE T == {s[i] : i \in 1..Len(s)}
<1>3. s \in [1..Len(s) -> T]
  BY <1>1
<1>4. s \in Seq(T)
  BY <1>1, <1>3
<1> QED
  BY <1>1, <1>4 DEF Sequence

LEMMA SequenceLength ==
  ASSUME NEW s, Sequence(s)
  PROVE  Len(s) \in Nat /\ DOMAIN s = 1..Len(s)
BY LenProperties DEF Sequence

LEMMA Joined ==
  ASSUME NEW s, NEW t, Sequence(s), Sequence(t)
  PROVE  Sequence(s \o t) /\ Len(s \o t) = Len(s) + Len(t)
<1>1. DEFINE A == {s[i] : i \in 1..Len(s)}
             B == {t[i] : i \in 1..Len(t)}
<1>2. s \in [1..Len(s) -> A \cup B] /\ Len(s) \in Nat
  <2>1. s \in Seq(A)
    BY DEF Sequence
  <2>2. s \in [1..Len(s) -> A] /\ Len(s) \in Nat
    BY <2>1, LenProperties
  <2> QED
    BY <2>2
<1>3. t \in [1..Len(t) -> A \cup B] /\ Len(t) \in Nat
  <2>1. t \in Seq(B)
    BY DEF Sequence
  <2>2. t \in [1..Len(t) -> B] /\ Len(t) \in Nat
    BY <2>1, LenProperties
  <2> QED
    BY <2>2
<1>4. s \in Seq(A \cup B) /\ t \in Seq(A \cup B)
  BY <1>2, <1>3
<1>5. s \o t \in Seq(A \cup B) /\ Len(s \o t) = Len(s) + Len(t)
  BY <1>4, ConcatProperties
<1> QED
  BY <1>5, AnySequence

LEMMA Cutting ==
  ASSUME NEW s, NEW m \in Int, NEW n \in Int
  PROVE  Sequence(SubSeq(s, m, n)) /\ Len(SubSeq(s, m, n)) = IF m <= n THEN n - m + 1 ELSE 0
<1>1. DEFINE T == {s[i] : i \in m..n}
<1>2. SubSeq(s, m, n) \in Seq(T)
  <2>1. \A i \in m..n : s[i] \in T
    OBVIOUS
  <2> QED
    BY <2>1, SubSeqProperties
<1>3. Len(SubSeq(s, m, n)) = IF m <= n THEN n - m + 1 ELSE 0
  <2>1. \A i \in m..n : s[i] \in T
    OBVIOUS
  <2> QED
    BY <2>1, SubSeqProperties
<1> QED
  BY <1>2, <1>3, AnySequence

LEMMA FewPieces ==
  /\ Sequence(<<>>) /\ Len(<<>>) = 0
  /\ \A x : Sequence(<<x>>) /\ Len(<<x>>) = 1
<1>1. <<>> \in Seq({}) /\ Len(<<>>) = 0
  OBVIOUS
<1>2. ASSUME NEW x PROVE <<x>> \in Seq({x}) /\ Len(<<x>>) = 1
  OBVIOUS
<1> QED
  BY <1>1, <1>2, AnySequence

\* What is kept of a sequence is one, as long as there are places to keep.
LEMMA KeptPieces ==
  ASSUME NEW s, Sequence(s), NEW at, at \subseteq DOMAIN s
  PROVE  Sequence(Kept(s, at)) /\ Len(Kept(s, at)) = Cardinality(at)
                               /\ Cardinality(at) \in Nat
<1>1. IsFiniteSet(at)
  BY SequenceLength, FS_Interval, FS_Subset
<1>2. Cardinality(at) \in Nat
  BY <1>1, FS_CardinalityType
<1>3. DEFINE T == {Kept(s, at)[j] : j \in 1..Cardinality(at)}
<1>4. Kept(s, at) \in [1..Cardinality(at) -> T]
  BY DEF Kept
<1>5. Kept(s, at) \in Seq(T) /\ Len(Kept(s, at)) = Cardinality(at)
  BY <1>2, <1>4
<1> QED
  BY <1>2, <1>5, AnySequence

(* -------------------------- the output of a chunk ---------------------- *)

\* sessionState: its fields, what it holds back of the output.
SessionState(s) ==
  /\ s \in [phase : {s.phase}, nonce : {s.nonce}, scratch : {s.scratch}, tail : {s.tail},
            altTail : {s.altTail}, atPrompt : {s.atPrompt}, inAltScreen : {s.inAltScreen},
            armed : {s.armed}]
  /\ Sequence(s.scratch) /\ Sequence(s.tail)

LEMMA NewFields ==
  ASSUME NEW phase, NEW nonce
  PROVE  SessionState(Fields(phase, nonce))
BY FewPieces DEF SessionState, Fields

LEMMA HeldPieces ==
  ASSUME NEW s, NEW ks
  PROVE  Sequence(Beginning(s, ks)) /\ Len(Beginning(s, ks)) \in Nat
BY FewPieces DEF Beginning

LEMMA FedPieces ==
  ASSUME NEW tail, Sequence(tail), NEW chunk, Sequence(chunk)
  PROVE  /\ Len(Feed(tail, chunk).rendered) \in Nat
         /\ Sequence(Feed(tail, chunk).tail)
<1> DEFINE buf == tail \o chunk
           held == Beginning(buf, Markers)
           whole == Before(buf, held)
           shown == {i \in DOMAIN whole : whole[i].k \notin Markers}
<1>1. Sequence(buf) /\ Len(buf) \in Nat
  BY Joined, SequenceLength
<1>2. Sequence(held) /\ Len(held) \in Nat
  BY HeldPieces
<1>3. Sequence(whole)
  BY <1>1, <1>2, Cutting DEF Before
<1>4. Len(Kept(whole, shown)) \in Nat
  BY <1>3, KeptPieces
<1> HIDE DEF buf, held, whole, shown
<1>5. Feed(tail, chunk).rendered = Kept(whole, shown) /\ Feed(tail, chunk).tail = held
  BY DEF Feed, buf, held, whole, shown
<1> QED
  BY <1>2, <1>4, <1>5

LEMMA SuppressedState ==
  ASSUME NEW s, SessionState(s), NEW chunk
  PROVE  SessionState(Suppressed(s, chunk))
<1>1. Sequence(Feed(s.tail, chunk).tail)
  BY HeldPieces DEF Feed
<1> QED
  BY <1>1 DEF Suppressed, SessionState

LEMMA StepPieces ==
  ASSUME SessionState(st), NEW chunk, Sequence(chunk)
  PROVE  /\ SessionState(StepOutput(chunk).st)
         /\ Len(StepOutput(chunk).rendered) \in Nat
<1> DEFINE scratch == st.scratch \o chunk
           at == Index(scratch, "sentinel", st.nonce)
<1>1. Sequence(scratch) /\ Len(scratch) \in Nat
  BY Joined, SequenceLength DEF SessionState
<1>2. CASE st.phase = "waitingSentinel"
  <2>1. CASE at > 0
    <3>1. Len(CompleteLines(scratch, at)) \in Nat
      BY <1>1, KeptPieces DEF CompleteLines
    <3>2. SessionState(Suppressed([st EXCEPT !.scratch = <<>>], SubSeq(scratch, at, Len(scratch))))
      <4>1. SessionState([st EXCEPT !.scratch = <<>>])
        BY FewPieces DEF SessionState
      <4> QED
        BY <4>1, SuppressedState
    <3> QED
      BY <1>2, <2>1, <3>1, <3>2, FewPieces DEF StepOutput, AwaitSentinel, Step
  <2>2. CASE ~(at > 0)
    BY <1>1, <1>2, <2>2, FewPieces DEF StepOutput, AwaitSentinel, Step, SessionState
  <2> QED
    BY <2>1, <2>2
<1>3. CASE st.phase = "suppressing"
  BY <1>3, SuppressedState, FewPieces DEF StepOutput, Step
<1>4. CASE st.phase = "active"
  <2>1. Len(Feed(st.tail, chunk).rendered) \in Nat /\ Sequence(Feed(st.tail, chunk).tail)
    BY FedPieces DEF SessionState
  <2>2. StepOutput(chunk) = ParseActive(chunk)
    BY <1>4 DEF StepOutput
  <2>3. /\ ParseActive(chunk).rendered = Feed(st.tail, chunk).rendered
        /\ SessionState(ParseActive(chunk).st)
    BY <2>1 DEF ParseActive, Step, SessionState
  <2> QED
    BY <2>1, <2>2, <2>3
<1>5. CASE st.phase \notin {"waitingSentinel", "suppressing", "active"}
  BY <1>5, SequenceLength DEF StepOutput, Step
<1> QED
  BY <1>2, <1>3, <1>4, <1>5
-----------------------------------------------------------------------------
(* ----------------------------- the invariant --------------------------- *)

\* The output is held between the shell integration and the taps, and nothing is
\* read before the session is attached.
Handing == pump \in {"busy", "sending", "ending"}
OutputInv ==
  /\ SessionState(st) /\ Len(out) \in Nat
  /\ ~Handing => Len(out) = 0
  /\ apc # "done" => pump = "none"

\* What is captured: the tables have a place for every call and every row.
TablesInv ==
  /\ rpc = [c \in Calls |-> rpc[c]] /\ rows = [r \in Runs |-> rows[r]]
  /\ marked = [r \in Runs |-> marked[r]] /\ tapped \in Nat

End(seal) == seal.from + seal.len
Interval(seal) == seal.from \in Nat /\ seal.len \in Nat

\* A row has at most one interval, which lies in the past, and before the open capture.
RowsInv ==
  \A r \in Runs : \/ rows[r] = <<>>
                  \/ /\ rows[r] = <<rows[r][1]>> /\ rpc[r] = "armed"
                     /\ Interval(rows[r][1]) /\ End(rows[r][1]) <= tapped
                     /\ cap # None => End(rows[r][1]) <= cap.from

\* The open capture belongs to a row that has nothing yet, and reaches to what the
\* taps saw last, unless it is full.
CapInv ==
  cap # None =>
    /\ cap \in [row : Runs, from : Nat, len : 0..Cap, whose : {cap.whose}, cut : BOOLEAN,
                ending : BOOLEAN]
    /\ rpc[cap.row] = "armed" /\ rows[cap.row] = <<>>
    /\ End(cap) <= tapped /\ (cap.cut \/ End(cap) = tapped)

\* Of two intervals, one ends before the other begins.
Apart ==
  \A r1, r2 \in Runs : r1 # r2 /\ rows[r1] # <<>> /\ rows[r2] # <<>>
    => \/ End(rows[r1][1]) <= rows[r2][1].from
       \/ End(rows[r2][1]) <= rows[r1][1].from

\* An end is marked no later than where the output is that is being handed on.
MarkInv ==
  \A r \in Runs : marked[r] = None \/ (marked[r] \in Nat /\ marked[r] <= tapped + Len(out))

Reached ==
  \A r \in Runs : rows[r] # <<>> =>
    \/ rows[r][1].why = "superseded" \/ marked[r] = None \/ rows[r][1].cut
    \/ End(rows[r][1]) >= marked[r]

IInv == OutputInv /\ TablesInv /\ RowsInv /\ CapInv /\ Apart /\ MarkInv /\ Reached
-----------------------------------------------------------------------------
(* ------------------------ what a step does to it ----------------------- *)

LEMMA InitInv == Init => IInv
<1> SUFFICES ASSUME Init PROVE IInv
  OBVIOUS
<1>1. OutputInv
  BY NewFields, FewPieces DEF Init, IntegrationInit, OutputInv, Handing
<1>2. TablesInv /\ cap = None /\ (\A r \in Runs : rows[r] = <<>> /\ marked[r] = None)
  BY DEF Init, TablesInv
<1> QED
  BY <1>1, <1>2 DEF IInv, RowsInv, CapInv, Apart, MarkInv, Reached

captureVars == <<rpc, cap, rows, tapped, marked>>

\* The shell integration's own steps.  Only a chunk that is read makes output, and
\* when it is, none is being handed on.
LEMMA AttachOutput ==
  ASSUME OutputInv, Attach \/ BeginBootstrap
  PROVE  OutputInv' /\ out' = out
<1>1. out' = out /\ Len(out) = 0 /\ ~Handing' /\ (apc' # "done" => pump' = "none")
  BY DEF OutputInv, Attach, BeginBootstrap, Handing
<1>2. SessionState(st')
  <2>1. CASE Attach
    BY <2>1, NewFields DEF Attach, OutputInv
  <2>2. CASE BeginBootstrap
    BY <2>2 DEF BeginBootstrap, OutputInv, SessionState
  <2> QED
    BY <2>1, <2>2
<1> QED
  BY <1>1, <1>2 DEF OutputInv

LEMMA TimerOutput ==
  ASSUME OutputInv, TimerExpires \/ FireReady \/ (\E n \in Nonces : WriteScript(n))
  PROVE  OutputInv' /\ out' = out
<1>1. CASE TimerExpires
  BY <1>1 DEF OutputInv, SessionState, TimerExpires, pumpVars, Handing
<1>2. CASE FireReady
  BY <1>2 DEF OutputInv, SessionState, FireReady, pumpVars, Handing
<1>3. CASE \E n \in Nonces : WriteScript(n)
  BY <1>3 DEF OutputInv, WriteScript, Handing
<1> QED
  BY <1>1, <1>2, <1>3

LEMMA PumpOutput ==
  ASSUME OutputInv, PumpSteps
  PROVE  OutputInv' /\ Len(out') \in Nat /\ (out' = out \/ Len(out) = 0)
<1>1. CASE PumpReads
  <2>1. PICK n \in 1..MaxChunk :
          \E step \in {StepOutput(SubSeq(wire, 1, n))} :
             /\ \/ st' = step.st
                \/ st.phase = "waitingReady" /\ st' = [step.st EXCEPT !.armed = TRUE]
             /\ out' = step.rendered
    BY <1>1 DEF PumpReads
  <2>2. n \in Int /\ MaxChunk \in Nat
    BY ShellConstants
  <2> DEFINE step == StepOutput(SubSeq(wire, 1, n))
  <2>3. SessionState(step.st) /\ Len(step.rendered) \in Nat
    <3>1. Sequence(SubSeq(wire, 1, n))
      BY <2>2, Cutting
    <3> QED
      BY <3>1, StepPieces DEF OutputInv
  <2>4. SessionState([step.st EXCEPT !.armed = TRUE])
    BY <2>3 DEF SessionState
  <2> HIDE DEF step
  <2>5. SessionState(st') /\ Len(out') \in Nat
    BY <2>1, <2>3, <2>4 DEF step
  <2> QED
    BY <1>1, <2>5 DEF OutputInv, PumpReads, Handing
<1>2. CASE RouteProbe \/ SendReply \/ SessionEnds
  BY <1>2 DEF OutputInv, RouteProbe, SendReply, SessionEnds, Handing
<1>3. CASE Detach
  BY <1>3 DEF OutputInv, SessionState, Detach, Handing
<1> QED
  BY <1>1, <1>2, <1>3 DEF PumpSteps, OutputInv

LEMMA OtherOutput ==
  ASSUME OutputInv,
         Outside \/ CallSteps \/ (\E n \in Reinjects : Reinject(n)) \/ (\E q \in Queries : Query(q))
  PROVE  OutputInv' /\ out' = out
<1>1. CASE Outside \/ CallSteps \/ \E q \in Queries : Query(q)
  <2>1. UNCHANGED <<st, out, pump, apc>>
    BY <1>1 DEF Outside, ShellStarts, ShellReads, CommandFinishes, ShellIsReplaced, ShellExits,
                CallSteps, QuerySteps, Query, Register, WriteProbe, ReplyArrives, ContextEnds,
                ForgetProbe, QueryFrame, pumpVars
  <2> QED
    BY <2>1 DEF OutputInv, Handing
<1>2. CASE \E n \in Reinjects : Reinject(n)
  <2>1. PICK n \in Reinjects : st' = [Fields("waitingSentinel", n) EXCEPT !.armed = st.armed]
    BY <1>2 DEF Reinject
  <2>2. SessionState(st')
    BY <2>1, NewFields DEF SessionState
  <2> QED
    BY <1>2, <2>2 DEF Reinject, OutputInv, pumpVars, Handing
<1> QED
  BY <1>1, <1>2

\* While output may only grow from nothing, what is captured of it stays.
LEMMA Untouched ==
  ASSUME IInv, OutputInv', UNCHANGED captureVars,
         out' = out \/ Len(out) = 0
  PROVE  IInv'
<1>1. MarkInv'
  <2>1. Len(out') \in Nat /\ Len(out) \in Nat /\ tapped \in Nat
    BY DEF IInv, OutputInv, TablesInv
  <2>2. Len(out) <= Len(out')
    BY <2>1
  <2>3. marked' = marked /\ tapped' = tapped
    BY DEF captureVars
  <2> QED
    BY <2>1, <2>2, <2>3 DEF IInv, MarkInv
<1>2. TablesInv' /\ RowsInv' /\ CapInv' /\ Apart' /\ Reached'
  BY DEF IInv, captureVars, TablesInv, RowsInv, CapInv, Apart, Reached
<1> QED
  BY <1>1, <1>2 DEF IInv

LEMMA IntegrationStep ==
  ASSUME IInv, UNCHANGED commandVars,
         \/ Outside \/ Injects \/ PumpSteps \/ CallSteps
         \/ (\E n \in Reinjects : Reinject(n)) \/ (\E q \in Queries : Query(q))
  PROVE  IInv'
<1>1. OutputInv' /\ (out' = out \/ Len(out) = 0)
  BY AttachOutput, TimerOutput, PumpOutput, OtherOutput DEF IInv, Injects
<1> QED
  BY <1>1, Untouched DEF commandVars, captureVars

\* The handle, the calls that are only written, and the suspensions.
LEMMA CallStep ==
  ASSUME IInv,
         \/ OnCommandEnd \/ OnAltScreen \/ (\E c \in Commands : WriteCommand(c))
         \/ (\E b \in Suspends : Suspend(b) \/ TypeBg(b) \/ ToBackground(b)
                             \/ EndInBackground(b))
  PROVE  IInv'
<1>1. CASE OnCommandEnd \/ OnAltScreen
  <2>1. OutputInv' /\ out' = out /\ UNCHANGED captureVars
    BY <1>1 DEF OnCommandEnd, OnAltScreen, Next1, NoteFrame, captureVars, IInv, OutputInv, Handing
  <2> QED
    BY <2>1, Untouched
<1>2. ASSUME NEW c \in Calls, NEW pc, rpc' = [rpc EXCEPT ![c] = pc], c \in Runs => rpc[c] # "armed",
             UNCHANGED <<cap, rows, tapped, marked, st, out, pump, apc>>
      PROVE  IInv'
  <2>1. OutputInv' /\ MarkInv' /\ Apart' /\ Reached'
    BY <1>2 DEF IInv, OutputInv, Handing, MarkInv, Apart, Reached
  <2>2. TablesInv'
    BY <1>2 DEF IInv, TablesInv
  <2>3. \A r \in Runs : rpc[r] = "armed" => rpc'[r] = "armed"
    BY <1>2, RunsAssumption DEF IInv, TablesInv, Calls
  <2>4. RowsInv' /\ CapInv'
    BY <1>2, <2>3 DEF IInv, RowsInv, CapInv
  <2> QED
    BY <2>1, <2>2, <2>4 DEF IInv
<1>3. CASE \E c \in Commands : WriteCommand(c)
  <2>1. PICK c \in Commands : WriteCommand(c)
    BY <1>3
  <2>2. PICK pc : rpc' = [rpc EXCEPT ![c] = pc]
    BY <2>1 DEF WriteCommand
  <2>3. rpc[c] # "armed" /\ UNCHANGED <<cap, rows, tapped, marked, st, out, pump, apc>>
    BY <2>1 DEF WriteCommand, CallFrame, pumpVars
  <2> QED
    BY <1>2, <2>2, <2>3 DEF Calls
<1>4. CASE \E b \in Suspends : Suspend(b) \/ TypeBg(b) \/ ToBackground(b)
  <2>1. PICK b \in Suspends : Suspend(b) \/ TypeBg(b) \/ ToBackground(b)
    BY <1>4
  <2>2. PICK pc : rpc' = [rpc EXCEPT ![b] = pc]
    BY <2>1 DEF Suspend, TypeBg, ToBackground
  <2>3. UNCHANGED <<cap, rows, tapped, marked, st, out, pump, apc>>
    BY <2>1 DEF Suspend, TypeBg, ToBackground, CallFrame, pumpVars
  <2>4. b \notin Runs
    BY RunsAssumption
  <2> QED
    BY <1>2, <2>2, <2>3, <2>4 DEF Calls
<1>5. CASE \E b \in Suspends : EndInBackground(b)
  <2>1. PICK b \in Suspends : EndInBackground(b)
    BY <1>5
  <2>2. UNCHANGED <<rows, tapped, marked, st, out, pump, apc>>
    BY <2>1 DEF EndInBackground, CallFrame, pumpVars
  <2>3. OutputInv' /\ MarkInv' /\ Apart' /\ Reached'
    BY <2>2 DEF IInv, OutputInv, Handing, MarkInv, Apart, Reached
  <2>4. TablesInv' /\ (\A r \in Runs : rpc'[r] = rpc[r])
    BY <2>1, <2>2, RunsAssumption DEF EndInBackground, IInv, TablesInv, Calls
  <2>5. cap # None =>
          /\ cap' = [cap EXCEPT !.ending = TRUE]
          /\ cap' \in [row : Runs, from : Nat, len : 0..Cap, whose : {cap'.whose}, cut : BOOLEAN,
                       ending : BOOLEAN]
          /\ cap'.row = cap.row /\ cap'.from = cap.from /\ cap'.len = cap.len /\ cap'.cut = cap.cut
    BY <2>1 DEF EndInBackground, IInv, CapInv
  <2>6. cap = None => cap' = None
    BY <2>1 DEF EndInBackground
  <2>7. RowsInv' /\ CapInv'
    BY <2>2, <2>4, <2>5, <2>6 DEF IInv, RowsInv, CapInv, End, Interval
  <2> QED
    BY <2>3, <2>4, <2>7 DEF IInv
<1> QED
  BY <1>1, <1>3, <1>4, <1>5
(* ------------------------ a capture, from end to end ------------------- *)

\* The capture c, which has grown out of the open one, is attached to its row when
\* the taps have seen `seen` pieces.
LEMMA SealedRow ==
  ASSUME TablesInv, RowsInv, CapInv, Apart, Reached, cap # None,
         NEW c, NEW why, NEW seen \in Nat, tapped <= seen,
         c.row = cap.row, c.from = cap.from, c.len \in Nat, End(c) <= seen,
         why = "superseded" \/ marked[c.row] = None \/ c.cut \/ End(c) >= marked[c.row],
         Seal(c, why), UNCHANGED marked
  PROVE  /\ rows' = [r \in Runs |-> rows'[r]]
         /\ \A r \in Runs : \/ rows'[r] = <<>>
                            \/ /\ rows'[r] = <<rows'[r][1]>> /\ rpc[r] = "armed"
                               /\ Interval(rows'[r][1]) /\ End(rows'[r][1]) <= seen
         /\ Apart' /\ Reached'
<1> DEFINE e == Sealed(c, why)
<1>1. c.row \in Runs /\ rpc[c.row] = "armed" /\ rows[c.row] = <<>> /\ cap.from \in Nat
  BY DEF CapInv
<1>2. rows' = [r \in Runs |-> IF r = c.row THEN <<e>> ELSE rows[r]]
  <2>1. rows' = [rows EXCEPT ![c.row] = Append(@, e)]
    BY DEF Seal
  <2>2. Append(<<>>, e) = <<e>>
    OBVIOUS
  <2> HIDE DEF e
  <2> QED
    BY <1>1, <2>1, <2>2 DEF TablesInv
<1>3. /\ e.from = cap.from /\ e.len = c.len /\ e.why = why
      /\ Interval(e) /\ End(e) = End(c) /\ (c.cut <=> e.cut)
  BY <1>1 DEF Sealed, Interval, End
<1> HIDE DEF e
<1>4. <<e>>[1] = e /\ <<e>> # <<>>
  OBVIOUS
<1>5. \A r \in Runs : \/ rows'[r] = <<>>
                      \/ /\ rows'[r] = <<rows'[r][1]>> /\ rpc[r] = "armed"
                         /\ Interval(rows'[r][1]) /\ End(rows'[r][1]) <= seen
  <2> TAKE r \in Runs
  <2>1. CASE r = c.row
    BY <1>1, <1>2, <1>3, <1>4, <2>1
  <2>2. CASE r # c.row
    <3>1. rows'[r] = rows[r]
      BY <1>2, <2>2
    <3>2. \/ rows[r] = <<>>
          \/ /\ rows[r] = <<rows[r][1]>> /\ rpc[r] = "armed" /\ Interval(rows[r][1])
             /\ End(rows[r][1]) <= tapped /\ End(rows[r][1]) \in Nat
      BY DEF RowsInv, Interval, End
    <3>3. \A n \in Nat : n <= tapped => n <= seen
      BY DEF TablesInv
    <3> QED
      BY <3>1, <3>2, <3>3
  <2> QED
    BY <2>1, <2>2
<1>6. Apart'
  <2>1. ASSUME NEW r \in Runs, r # c.row, rows[r] # <<>>
        PROVE  End(rows[r][1]) <= e.from
    BY <1>3, <2>1 DEF RowsInv
  <2> SUFFICES ASSUME NEW r1 \in Runs, NEW r2 \in Runs, r1 # r2,
                      rows'[r1] # <<>>, rows'[r2] # <<>>
               PROVE  \/ End(rows'[r1][1]) <= rows'[r2][1].from
                      \/ End(rows'[r2][1]) <= rows'[r1][1].from
    BY DEF Apart, End
  <2>2. CASE r1 = c.row
    <3>1. rows'[r1] = <<e>> /\ rows'[r2] = rows[r2]
      BY <1>2, <2>2
    <3> QED
      BY <1>4, <2>1, <2>2, <3>1
  <2>3. CASE r2 = c.row
    <3>1. rows'[r2] = <<e>> /\ rows'[r1] = rows[r1]
      BY <1>2, <2>3
    <3> QED
      BY <1>4, <2>1, <2>3, <3>1
  <2>4. CASE r1 # c.row /\ r2 # c.row
    BY <1>2, <2>4 DEF Apart
  <2> QED
    BY <2>2, <2>3, <2>4
<1>7. Reached'
  <2> SUFFICES ASSUME NEW r \in Runs, rows'[r] # <<>>
               PROVE  \/ rows'[r][1].why = "superseded" \/ marked[r] = None \/ rows'[r][1].cut
                      \/ End(rows'[r][1]) >= marked[r]
    BY DEF Reached, End
  <2>1. CASE r = c.row
    <3>1. rows'[r][1] = e
      BY <1>2, <1>4, <2>1
    <3> QED
      BY <1>3, <2>1, <3>1
  <2>2. CASE r # c.row
    <3>1. rows'[r] = rows[r]
      BY <1>2, <2>2
    <3> QED
      BY <3>1 DEF Reached
  <2> QED
    BY <2>1, <2>2
<1>8. rows' = [r \in Runs |-> rows'[r]]
  BY <1>2
<1> QED
  BY <1>5, <1>6, <1>7, <1>8

LEMMA ArmStep ==
  ASSUME IInv, NEW r \in Runs, Arm(r)
  PROVE  IInv'
<1> USE DEF IInv
<1>1. rpc[r] = "written" /\ rpc' = [rpc EXCEPT ![r] = "armed"]
      /\ UNCHANGED <<tapped, marked, st, out, pump, apc>>
  BY DEF Arm, CallFrame, pumpVars
<1>2. OutputInv' /\ MarkInv'
  BY <1>1 DEF OutputInv, Handing, MarkInv
<1>3. rpc' = [c \in Calls |-> rpc'[c]] /\ rpc'[r] = "armed" /\ rows[r] = <<>>
      /\ (\A s \in Runs : rpc[s] = "armed" => rpc'[s] = "armed")
  BY <1>1, RunsAssumption DEF TablesInv, RowsInv, Calls
<1>4. CASE UNCHANGED <<cap, rows>>
  BY <1>1, <1>2, <1>3, <1>4 DEF TablesInv, RowsInv, CapInv, Apart, Reached, End, Interval
<1>5. CASE r \notin Unrecorded
  <2>1. cap' = NewCapture(r)
    BY <1>5 DEF Arm
  <2>2. /\ cap' \in [row : Runs, from : Nat, len : 0..Cap, whose : {cap'.whose}, cut : BOOLEAN,
                     ending : BOOLEAN]
        /\ cap'.row = r /\ cap'.from = tapped /\ cap'.len = 0
    BY <2>1, RunsAssumption DEF NewCapture, TablesInv
  <2>3. /\ rows' = [s \in Runs |-> rows'[s]] /\ rows'[r] = <<>>
        /\ \A s \in Runs : \/ rows'[s] = <<>>
                           \/ /\ rows'[s] = <<rows'[s][1]>> /\ rpc[s] = "armed"
                              /\ Interval(rows'[s][1]) /\ End(rows'[s][1]) <= tapped
        /\ Apart' /\ Reached'
    <3>1. CASE cap = None
      BY <1>1, <1>3, <1>5, <3>1 DEF Arm, TablesInv, RowsInv, Apart, Reached
    <3>2. CASE cap # None
      <4>1. Seal(cap, "superseded")
        BY <1>5, <3>2 DEF Arm
      <4>2. cap.len \in Nat /\ End(cap) <= tapped /\ cap.row # r /\ tapped \in Nat /\ tapped <= tapped
        BY <1>1, <3>2, RunsAssumption DEF CapInv, TablesInv
      <4>3. rows'[r] = rows[r]
        BY <4>1, <4>2 DEF Seal, TablesInv
      <4> QED
        BY <1>1, <1>3, <3>2, <4>1, <4>2, <4>3, SealedRow
    <3> QED
      BY <3>1, <3>2
  <2>4. TablesInv'
    BY <1>1, <1>3, <2>3 DEF TablesInv
  <2>5. RowsInv'
    BY <1>1, <1>3, <2>2, <2>3 DEF RowsInv, Interval, End
  <2>6. CapInv'
    BY <1>1, <1>3, <2>2, <2>3 DEF CapInv, End, TablesInv
  <2> QED
    BY <1>2, <2>3, <2>4, <2>5, <2>6
<1> QED
  BY <1>4, <1>5 DEF Arm
LEMMA EndStep ==
  ASSUME IInv, EndCapture
  PROVE  IInv'
<1> USE DEF IInv
<1>1. UNCHANGED <<rpc, rows, tapped, st, out, apc>> /\ pump' = "busy" /\ pump = "ending"
  BY DEF EndCapture, Next1, NoteFrame
<1>2. OutputInv'
  BY <1>1 DEF OutputInv, Handing
<1>3. CASE cap = None
  BY <1>1, <1>2, <1>3 DEF EndCapture, TablesInv, RowsInv, CapInv, Apart, MarkInv, Reached, End, Interval
<1>4. CASE cap # None
  <2>1. /\ cap' = [cap EXCEPT !.ending = TRUE]
        /\ marked' = [marked EXCEPT ![cap.row] = tapped + Len(out)]
    BY <1>4 DEF EndCapture
  <2>2. /\ cap' \in [row : Runs, from : Nat, len : 0..Cap, whose : {cap'.whose}, cut : BOOLEAN,
                     ending : BOOLEAN]
        /\ cap'.row = cap.row /\ cap'.from = cap.from /\ cap'.len = cap.len /\ cap'.cut = cap.cut
    BY <1>4, <2>1 DEF CapInv
  <2>3. CapInv' /\ RowsInv' /\ Apart'
    BY <1>1, <1>4, <2>2 DEF CapInv, RowsInv, Apart, End, Interval
  <2>4. TablesInv' /\ MarkInv'
    BY <1>1, <1>4, <2>1 DEF TablesInv, MarkInv, OutputInv, CapInv
  <2>5. Reached'
    <3>1. \A r \in Runs : rows[r] # <<>> => marked'[r] = marked[r]
      BY <1>4, <2>1 DEF CapInv, TablesInv
    <3> QED
      BY <1>1, <3>1 DEF Reached, End
  <2> QED
    BY <1>2, <2>3, <2>4, <2>5
<1> QED
  BY <1>3, <1>4

LEMMA TapStep ==
  ASSUME IInv, Tap
  PROVE  IInv'
<1> USE DEF IInv
<1>1. /\ UNCHANGED <<rpc, marked, st, apc>> /\ pump = "busy" /\ pump' = "idle"
      /\ tapped' = tapped + Len(out) /\ Len(out') = 0
  BY FewPieces DEF Tap
<1>2. OutputInv'
  BY <1>1 DEF OutputInv, Handing
<1>3. tapped \in Nat /\ tapped' \in Nat /\ tapped <= tapped' /\ Len(out) \in Nat
  BY <1>1 DEF TablesInv, OutputInv
<1>4. MarkInv'
  BY <1>1, <1>3 DEF MarkInv
<1>5. CASE UNCHANGED <<cap, rows>> /\ (cap = None \/ Len(out) = 0)
  <2>1. TablesInv' /\ Apart' /\ Reached'
    BY <1>1, <1>3, <1>5 DEF TablesInv, Apart, Reached, End
  <2>2. RowsInv'
    BY <1>1, <1>3, <1>5 DEF RowsInv, End, Interval
  <2>3. CapInv'
    BY <1>1, <1>3, <1>5 DEF CapInv, End
  <2> QED
    BY <1>2, <1>4, <2>1, <2>2, <2>3
<1>6. CASE cap # None /\ Capture(out)
  <2> DEFINE c == Grown(cap, out)
             room == Smaller(Cap - cap.len, Len(out))
  <2>1. room \in Nat /\ room <= Len(out) /\ cap.len + room <= Cap /\ (room < Len(out) \/ room = Len(out))
    BY <1>3, <1>6, RunsAssumption DEF CapInv, Smaller
  <2>2. /\ c \in [row : Runs, from : Nat, len : 0..Cap, whose : {c.whose}, cut : BOOLEAN,
                  ending : BOOLEAN]
        /\ c.row = cap.row /\ c.from = cap.from /\ c.len = cap.len + room
        /\ c.cut <=> (cap.cut \/ room < Len(out))
    <3> DEFINE len == cap.len + room
               cut == cap.cut \/ room < Len(out)
               whose == cap.whose \cup Owners(SubSeq(out, 1, room))
    <3>1. c = [cap EXCEPT !.len = len, !.cut = cut, !.whose = whose]
      BY DEF Grown
    <3>2. len \in 0..Cap /\ cut \in BOOLEAN
      BY <1>6, <2>1, RunsAssumption DEF CapInv
    <3>3. cap \in [row : Runs, from : Nat, len : 0..Cap, whose : {cap.whose}, cut : BOOLEAN,
                   ending : BOOLEAN]
      BY <1>6 DEF CapInv
    <3> HIDE DEF c, len, cut, whose
    <3>4. /\ c \in [row : Runs, from : Nat, len : 0..Cap, whose : {c.whose}, cut : BOOLEAN,
                    ending : BOOLEAN]
          /\ c.row = cap.row /\ c.from = cap.from /\ c.len = len /\ c.cut = cut
      BY <3>1, <3>2, <3>3
    <3> QED
      BY <3>4 DEF len, cut
  <2> HIDE DEF c, room
  <2>3. End(c) <= tapped' /\ (c.cut \/ End(c) = tapped') /\ c.len \in Nat
    BY <1>1, <1>3, <1>6, <2>1, <2>2 DEF CapInv, End
  <2>4. CASE cap.ending
    <3>1. cap' = None /\ Seal(c, "ended")
      BY <1>6, <2>4 DEF Capture, c
    <3>2. marked[c.row] = None \/ c.cut \/ End(c) >= marked[c.row]
      BY <1>1, <1>3, <1>6, <2>2, <2>3 DEF MarkInv, CapInv
    <3>3. /\ rows' = [r \in Runs |-> rows'[r]]
          /\ \A r \in Runs : \/ rows'[r] = <<>>
                             \/ /\ rows'[r] = <<rows'[r][1]>> /\ rpc[r] = "armed"
                                /\ Interval(rows'[r][1]) /\ End(rows'[r][1]) <= tapped'
          /\ Apart' /\ Reached'
      BY <1>1, <1>3, <1>6, <2>2, <2>3, <3>1, <3>2, SealedRow
    <3>4. TablesInv'
      BY <1>1, <1>3, <3>3 DEF TablesInv
    <3>5. RowsInv' /\ CapInv'
      BY <1>1, <3>1, <3>3 DEF RowsInv, CapInv, Interval, End
    <3> QED
      BY <1>2, <1>4, <3>3, <3>4, <3>5
  <2>5. CASE ~cap.ending
    <3>1. cap' = c /\ rows' = rows
      BY <1>6, <2>5 DEF Capture, c
    <3>2. TablesInv' /\ Apart' /\ Reached'
      BY <1>1, <1>3, <3>1 DEF TablesInv, Apart, Reached, End
    <3>3. RowsInv'
      BY <1>1, <1>3, <1>6, <2>2, <3>1 DEF RowsInv, End, Interval
    <3>4. CapInv'
      BY <1>1, <1>6, <2>2, <2>3, <3>1 DEF CapInv, End
    <3> QED
      BY <1>2, <1>4, <3>2, <3>3, <3>4
  <2> QED
    BY <2>4, <2>5
<1> QED
  BY <1>5, <1>6, FewPieces DEF Tap, Capture

LEMMA DetachStep ==
  ASSUME IInv, DetachTaps
  PROVE  IInv'
<1> USE DEF IInv
<1>1. /\ UNCHANGED <<rpc, tapped, marked, st, apc, out>> /\ pump = "detaching" /\ pump' = "detached"
      /\ cap' = None
  BY DEF DetachTaps
<1>2. OutputInv' /\ MarkInv' /\ Len(out) = 0 /\ tapped \in Nat
  BY <1>1 DEF OutputInv, Handing, MarkInv, TablesInv
<1>3. CASE cap = None
  <2>1. rows' = rows
    BY <1>3 DEF DetachTaps
  <2> QED
    BY <1>1, <1>2, <1>3, <2>1 DEF TablesInv, RowsInv, CapInv, Apart, Reached, End, Interval
<1>4. CASE cap # None
  <2>1. Seal(cap, "detached")
    BY <1>4 DEF DetachTaps
  <2>2. /\ cap.len \in Nat /\ End(cap) <= tapped /\ tapped <= tapped
        /\ marked[cap.row] = None \/ cap.cut \/ End(cap) >= marked[cap.row]
    BY <1>2, <1>4, RunsAssumption DEF CapInv, MarkInv
  <2>3. /\ rows' = [r \in Runs |-> rows'[r]]
        /\ \A r \in Runs : \/ rows'[r] = <<>>
                           \/ /\ rows'[r] = <<rows'[r][1]>> /\ rpc[r] = "armed"
                              /\ Interval(rows'[r][1]) /\ End(rows'[r][1]) <= tapped
        /\ Apart' /\ Reached'
    BY <1>1, <1>2, <1>4, <2>1, <2>2, SealedRow
  <2>4. TablesInv' /\ RowsInv' /\ CapInv'
    BY <1>1, <2>3 DEF TablesInv, RowsInv, CapInv, Interval, End
  <2> QED
    BY <1>2, <2>3, <2>4
<1> QED
  BY <1>3, <1>4
-----------------------------------------------------------------------------
LEMMA NextInv == IInv /\ [Next]_vars => IInv'
<1> SUFFICES ASSUME IInv, [Next]_vars PROVE IInv'
  OBVIOUS
<1>1. CASE UNCHANGED vars
  <2>1. UNCHANGED captureVars /\ UNCHANGED <<st, out, pump, apc>>
    BY <1>1 DEF vars, commandVars, captureVars, integrationVars, shellVars, pumpVars
  <2>2. OutputInv'
    BY <2>1 DEF IInv, OutputInv, Handing
  <2> QED
    BY <2>1, <2>2, Untouched
<1>2. CASE Next
  BY <1>2, IntegrationStep, CallStep, ArmStep, EndStep, TapStep, DetachStep DEF Next
<1> QED
  BY <1>1, <1>2

THEOREM Inductive == Spec => []IInv
<1> QED
  BY InitInv, NextInv, PTL DEF Spec

\* Each row of the audit trail gets the output of its command at most once, and
\* the rows of two commands share no piece of it, whatever the chunks, whoever
\* suspends a command and whenever the next one is run (capture.Service).
THEOREM Disjoint == Spec => []RowsDisjoint
<1>1. IInv => RowsDisjoint
  <2> SUFFICES ASSUME IInv PROVE RowsDisjoint
    OBVIOUS
  <2>1. ASSUME NEW r \in Runs PROVE Len(rows[r]) <= 1
    <3>1. rows[r] = <<>> \/ \E x : rows[r] = <<x>>
      BY DEF IInv, RowsInv
    <3>2. CASE rows[r] = <<>>
      BY <3>2, FewPieces
    <3>3. CASE \E x : rows[r] = <<x>>
      <4>1. PICK x : rows[r] = <<x>>
        BY <3>3
      <4>2. Len(rows[r]) = 1
        BY <4>1, FewPieces
      <4> QED
        BY <4>2
    <3> QED
      BY <3>1, <3>2, <3>3
  <2>2. ASSUME NEW r1 \in Runs, NEW r2 \in Runs, r1 # r2, rows[r1] # <<>>, rows[r2] # <<>>
        PROVE  Span(rows[r1][1]) \cap Span(rows[r2][1]) = {}
    <3>1. Interval(rows[r1][1]) /\ Interval(rows[r2][1])
      BY <2>2 DEF IInv, RowsInv
    <3>2. \/ End(rows[r1][1]) <= rows[r2][1].from
          \/ End(rows[r2][1]) <= rows[r1][1].from
      BY <2>2 DEF IInv, Apart
    <3> QED
      BY <3>1, <3>2 DEF Span, Interval, End
  <2> QED
    BY <2>1, <2>2 DEF RowsDisjoint
<1> QED
  BY <1>1, Inductive, PTL

\* The capture that the end of a command ends holds the chunk that brought the
\* end, which the observer hears of before any tap has seen it (End, OnOutput).
THEOREM ChunkIncluded == Spec => []TrailingChunkIncluded
<1>1. IInv => TrailingChunkIncluded
  <2> SUFFICES ASSUME IInv, NEW r \in Runs, NEW i \in DOMAIN rows[r],
                      rows[r][i].why # "superseded", marked[r] # None
               PROVE  rows[r][i].cut \/ rows[r][i].from + rows[r][i].len >= marked[r]
    BY DEF TrailingChunkIncluded
  <2>1. rows[r] # <<>> /\ rows[r] = <<rows[r][1]>>
    <3>1. DOMAIN <<>> = {}
      OBVIOUS
    <3> QED
      BY <3>1 DEF IInv, RowsInv
  <2>2. i = 1
    <3>1. \A x : DOMAIN <<x>> = {1}
      OBVIOUS
    <3> QED
      BY <2>1, <3>1
  <2> QED
    BY <2>1, <2>2 DEF IInv, Reached, End
<1> QED
  BY <1>1, Inductive, PTL
-----------------------------------------------------------------------------
(* ------------------ nothing of a script is shown: invariant ------------ *)

\* Output without a piece of a script; the report that script n ran, which takes effect
\* when it is whole; output in which nothing of a script follows that report; and
\* output in which each piece of a script is followed by the sentinel of n before any
\* line ends, or is past one.
Silent(q) == \A i \in 1..Len(q) : ~OfScript(q[i])
Confirms(p, n) == p.k = "installed" /\ p.half = 2 /\ p.of = n
Confirmed(q, n) == \E i \in 1..Len(q) : Confirms(q[i], n)
Closed(q, n) == \A i, j \in 1..Len(q) : i < j /\ Confirms(q[i], n) => ~OfScript(q[j])
Opened(q, n) ==
  \A i \in 1..Len(q) : OfScript(q[i]) =>
    \E l \in 1..(Len(q) - 1) : /\ q[l] = Piece("sentinel", n, 1)
                               /\ q[l + 1] = Piece("sentinel", n, 2)
                               /\ \A k \in i..l : q[k].k \notin {"line", "rest"}
Installs(q, N) == \A i \in 1..Len(q) : q[i].k = "installed" => q[i].of \in N

\* Input whose scripts are of nonces in N, without a script, and with at most one, of n.
Scripts(t, N) == \A i \in 1..Len(t) : t[i].k = "script" => t[i].of \in N
NoScript(t) == \A i \in 1..Len(t) : t[i].k # "script"
OneScript(t, n) ==
  \A i, j \in 1..Len(t) : t[i].k = "script" /\ t[j].k = "script" => i = j /\ t[i].of = n

\* The nonces that may have been made, whether a script is still to be run, and the
\* output that has not been looked at or may be looked at again.
Used == Nonces \ (calls \cap Reinjects)
Pending == scripts # {} \/ ~NoScript(typed)
Coming == st.scratch \o wire
Booting == st.phase \in {"waitingSentinel", "suppressing"}
HeldTail(t) == \A i \in 1..Len(t) : t[i].k \in Markers /\ t[i].half = 1

\* A nonce that Reinject has yet to make is nowhere: in no script and in no report.
IssuedInv ==
  /\ Sequence(wire) /\ Sequence(typed)
  /\ Installs(wire, Used) /\ Scripts(typed, Used) /\ scripts \subseteq Used
  /\ st.phase # "none" => st.nonce \in Used

\* What is held back is the beginning of a marker, or the output before a sentinel;
\* before the first script is made, no report is on its way.
HeldInv ==
  /\ HeldTail(st.tail)
  /\ st.phase # "waitingSentinel" => st.scratch = <<>>
  /\ st.phase \in {"none", "waitingReady"} => Installs(wire, {})

\* Outside a bootstrap nothing of a script is on its way, nor any script.
CalmInv == ~Booting => Silent(wire) /\ ~Pending

\* During one, there is one script: it is to be written, typed, or has been read; once
\* its report is on its way, nothing of it follows.
BootInv ==
  Booting =>
    /\ scripts \subseteq {st.nonce} /\ (scripts # {} => NoScript(typed))
    /\ OneScript(typed, st.nonce)
    /\ Closed(Coming, st.nonce)
    /\ Confirmed(Coming, st.nonce) => ~Pending
    /\ st.phase = "waitingSentinel" => Opened(Coming, st.nonce)

Unattached == apc \in {"registered", "stored"}
LiveInv ==
  /\ Unattached => st.phase = "none"
  /\ HeldInv /\ CalmInv /\ BootInv

\* Without an integration: it has none, has given up, or was forgotten.
Without == apc = "done" /\ st.phase = "none"

\* All of this while a script is made only when the one before is done with.
ShownInv == IssuedInv /\ (rushed \/ (~leaked /\ (Without \/ LiveInv)))

\* What a step that is no Reinject keeps.
Stays == IssuedInv' /\ (LiveInv => LiveInv')
-----------------------------------------------------------------------------
(* ---------------------------- pieces, again ---------------------------- *)

\* The least of a set of numbers.
LEMMA Least ==
  ASSUME NEW T, T \subseteq Nat, T # {}
  PROVE  \E x \in T : \A y \in T : x <= y
<1>1. PICK x \in T : \A y \in T : ~ (<<y, x>> \in OpToRel(<, Nat))
  BY WFMin, NatLessThanWellFounded, Zenon
<1>2. ASSUME NEW y \in T PROVE ~(y < x)
  BY <1>1 DEF OpToRel
<1> QED
  BY <1>2

\* Kept counts the places it keeps: each piece of what is kept is one of them.
LEMMA KeptFrom ==
  ASSUME NEW s, Sequence(s), NEW at, at \subseteq DOMAIN s, NEW j \in DOMAIN Kept(s, at)
  PROVE  \E i \in at : Kept(s, at)[j] = s[i]
<1> DEFINE Up(i) == at \cap (1..i)
           T == {i \in 1..Len(s) : Cardinality(Up(i)) >= j}
<1>1. Len(s) \in Nat /\ at \subseteq 1..Len(s)
  BY SequenceLength
<1>2. IsFiniteSet(at) /\ Cardinality(at) \in Nat
  <2>1. IsFiniteSet(1..Len(s))
    BY <1>1, FS_Interval
  <2> QED
    BY <1>1, <2>1, FS_Subset, FS_CardinalityType
<1>3. /\ j \in 1..Cardinality(at)
      /\ Kept(s, at)[j] = s[CHOOSE i \in at : Cardinality(Up(i)) = j]
  BY DEF Kept
<1>4. \A i : IsFiniteSet(Up(i)) /\ Cardinality(Up(i)) \in Nat
  BY <1>2, FS_Subset, FS_CardinalityType
<1>5. Len(s) \in T
  <2>1. Up(Len(s)) = at
    BY <1>1
  <2>2. Len(s) # 0
    <3> SUFFICES ASSUME Len(s) = 0 PROVE FALSE
      OBVIOUS
    <3>1. at = {}
      BY <1>1
    <3> QED
      BY <1>3, <3>1, FS_EmptySet
  <2> HIDE DEF Up
  <2> QED
    BY <1>1, <1>2, <1>3, <2>1, <2>2
<1>6. PICK m \in T : \A y \in T : m <= y
  <2>1. T \subseteq Nat
    BY <1>1
  <2> QED
    BY <1>5, <2>1, Least
<1>7. m \in Nat /\ m >= 1 /\ Cardinality(Up(m)) >= j
  BY <1>1
<1>8. Cardinality(Up(m - 1)) < j
  <2>1. CASE m = 1
    <3>1. Up(m - 1) = {}
      BY <2>1
    <3>2. Cardinality(Up(m - 1)) = 0
      BY <3>1, FS_EmptySet
    <3> HIDE DEF Up
    <3> QED
      BY <1>2, <1>3, <3>2
  <2>2. CASE m > 1
    <3>1. m - 1 \in 1..Len(s) /\ ~(m <= m - 1)
      BY <1>1, <1>7, <2>2
    <3>2. m - 1 \notin T
      BY <1>6, <3>1
    <3> HIDE DEF Up
    <3> QED
      BY <1>2, <1>3, <1>4, <3>1, <3>2
  <2> QED
    BY <1>7, <2>1, <2>2
<1>9. m \in at
  <2> SUFFICES ASSUME m \notin at PROVE FALSE
    OBVIOUS
  <2>1. Up(m) = Up(m - 1)
    BY <1>7
  <2> HIDE DEF Up
  <2> QED
    BY <1>2, <1>3, <1>4, <1>7, <1>8, <2>1
<1>10. Cardinality(Up(m)) = j
  <2>1. Up(m) = Up(m - 1) \cup {m} /\ m \notin Up(m - 1)
    BY <1>7, <1>9
  <2> HIDE DEF Up
  <2>2. Cardinality(Up(m)) = Cardinality(Up(m - 1)) + 1
    BY <1>4, <2>1, FS_AddElement
  <2> QED
    BY <1>2, <1>3, <1>4, <1>7, <1>8, <2>2
<1> HIDE DEF Up, T
<1> QED
  BY <1>3, <1>9, <1>10

(* ------------------------- what is on its way -------------------------- *)

\* The pieces of two sequences, and the two as sequences of the same set.
LEMMA JoinedPieces ==
  ASSUME NEW s, NEW t, Sequence(s), Sequence(t)
  PROVE  /\ Len(s \o t) = Len(s) + Len(t) /\ Len(s) \in Nat /\ Len(t) \in Nat
         /\ \A i \in 1..Len(s) : (s \o t)[i] = s[i]
         /\ \A i \in 1..Len(t) : (s \o t)[Len(s) + i] = t[i]
         /\ \A i \in 1..(Len(s) + Len(t)) :
              \/ i \in 1..Len(s) /\ (s \o t)[i] = s[i]
              \/ i - Len(s) \in 1..Len(t) /\ i = Len(s) + (i - Len(s)) /\ (s \o t)[i] = t[i - Len(s)]
<1> DEFINE A == {s[i] : i \in 1..Len(s)} \cup {t[i] : i \in 1..Len(t)}
<1>1. Len(s) \in Nat /\ Len(t) \in Nat
  BY SequenceLength
<1>2. s \in Seq(A) /\ t \in Seq(A)
  <2>1. s \in [1..Len(s) -> {s[i] : i \in 1..Len(s)}] /\ t \in [1..Len(t) -> {t[i] : i \in 1..Len(t)}]
    BY LenProperties DEF Sequence
  <2>2. s \in [1..Len(s) -> A] /\ t \in [1..Len(t) -> A]
    BY <2>1
  <2> QED
    BY <1>1, <2>2
<1> HIDE DEF A
<1>3. /\ Len(s \o t) = Len(s) + Len(t)
      /\ \A i \in 1 .. Len(s) + Len(t) : (s \o t)[i] = IF i <= Len(s) THEN s[i] ELSE t[i - Len(s)]
  BY <1>2, ConcatProperties
<1> QED
  BY <1>1, <1>3

LEMMA JoinsAlike ==
  ASSUME NEW s, NEW t, NEW u, Sequence(s), Sequence(t), Sequence(u)
  PROVE  (s \o t) \o u = s \o (t \o u) /\ <<>> \o s = s
<1> DEFINE A == {s[i] : i \in 1..Len(s)} \cup {t[i] : i \in 1..Len(t)} \cup {u[i] : i \in 1..Len(u)}
<1>1. Len(s) \in Nat /\ Len(t) \in Nat /\ Len(u) \in Nat
  BY SequenceLength
<1>2. s \in Seq(A) /\ t \in Seq(A) /\ u \in Seq(A)
  <2>1. s \in Seq(A)
    <3>1. s \in [1..Len(s) -> {s[i] : i \in 1..Len(s)}]
      BY LenProperties DEF Sequence
    <3>2. s \in [1..Len(s) -> A]
      BY <3>1
    <3> QED
      BY <1>1, <3>2
  <2>2. t \in Seq(A)
    <3>1. t \in [1..Len(t) -> {t[i] : i \in 1..Len(t)}]
      BY LenProperties DEF Sequence
    <3>2. t \in [1..Len(t) -> A]
      BY <3>1
    <3> QED
      BY <1>1, <3>2
  <2>3. u \in Seq(A)
    <3>1. u \in [1..Len(u) -> {u[i] : i \in 1..Len(u)}]
      BY LenProperties DEF Sequence
    <3>2. u \in [1..Len(u) -> A]
      BY <3>1
    <3> QED
      BY <1>1, <3>2
  <2> QED
    BY <2>1, <2>2, <2>3
<1> HIDE DEF A
<1> QED
  BY <1>2, ConcatAssociative, ConcatEmptySeq

\* What is said of a sequence of pieces is said of its parts.
LEMMA Parts ==
  ASSUME NEW s, NEW t, Sequence(s), Sequence(t)
  PROVE  /\ Sequence(s \o t)
         /\ Silent(s \o t) <=> Silent(s) /\ Silent(t)
         /\ \A n : Confirmed(s \o t, n) <=> Confirmed(s, n) \/ Confirmed(t, n)
         /\ \A N : Installs(s \o t, N) <=> Installs(s, N) /\ Installs(t, N)
<1> DEFINE q == s \o t
<1>1. /\ Len(q) = Len(s) + Len(t) /\ Len(s) \in Nat /\ Len(t) \in Nat
      /\ \A i \in 1..Len(s) : q[i] = s[i] /\ i \in 1..Len(q)
      /\ \A i \in 1..Len(t) : q[Len(s) + i] = t[i] /\ Len(s) + i \in 1..Len(q)
      /\ \A i \in 1..Len(q) : \/ i \in 1..Len(s) /\ q[i] = s[i]
                              \/ i - Len(s) \in 1..Len(t) /\ q[i] = t[i - Len(s)]
  BY JoinedPieces
<1>2. Sequence(q)
  BY Joined
<1> HIDE DEF q
<1>3. Silent(q) <=> Silent(s) /\ Silent(t)
  BY <1>1 DEF Silent
<1>4. ASSUME NEW n PROVE Confirmed(q, n) <=> Confirmed(s, n) \/ Confirmed(t, n)
  BY <1>1 DEF Confirmed
<1>5. ASSUME NEW N PROVE Installs(q, N) <=> Installs(s, N) /\ Installs(t, N)
  BY <1>1 DEF Installs
<1> QED
  BY <1>2, <1>3, <1>4, <1>5 DEF q

LEMMA ClosedParts ==
  ASSUME NEW s, NEW t, Sequence(s), Sequence(t), NEW n
  PROVE  /\ Closed(s \o t, n) => Closed(t, n) /\ (Confirmed(s, n) => Silent(t))
         /\ Closed(s, n) /\ Silent(t) => Closed(s \o t, n)
         /\ ~Confirmed(s, n) /\ Closed(t, n) => Closed(s \o t, n)
<1> DEFINE q == s \o t
<1>1. /\ Len(q) = Len(s) + Len(t) /\ Len(s) \in Nat /\ Len(t) \in Nat
      /\ \A i \in 1..Len(s) : q[i] = s[i] /\ i \in 1..Len(q)
      /\ \A i \in 1..Len(t) : q[Len(s) + i] = t[i] /\ Len(s) + i \in 1..Len(q)
      /\ \A i \in 1..Len(q) : \/ i \in 1..Len(s) /\ q[i] = s[i]
                              \/ i - Len(s) \in 1..Len(t) /\ q[i] = t[i - Len(s)]
  BY JoinedPieces
<1> HIDE DEF q
<1>2. ASSUME Closed(q, n) PROVE Closed(t, n)
  <2> SUFFICES ASSUME NEW i \in 1..Len(t), NEW j \in 1..Len(t), i < j, Confirms(t[i], n)
               PROVE  ~OfScript(t[j])
    BY DEF Closed
  <2>1. Len(s) + i < Len(s) + j
    BY <1>1
  <2> QED
    BY <1>1, <1>2, <2>1 DEF Closed
<1>3. ASSUME Closed(q, n), Confirmed(s, n) PROVE Silent(t)
  <2>1. PICK i \in 1..Len(s) : Confirms(s[i], n)
    BY <1>3 DEF Confirmed
  <2>2. ASSUME NEW j \in 1..Len(t) PROVE ~OfScript(t[j])
    <3>1. i < Len(s) + j
      BY <1>1
    <3> QED
      BY <1>1, <1>3, <2>1, <3>1 DEF Closed
  <2> QED
    BY <2>2 DEF Silent
<1>4. ASSUME Closed(s, n), Silent(t) PROVE Closed(q, n)
  <2> SUFFICES ASSUME NEW i \in 1..Len(q), NEW j \in 1..Len(q), i < j, Confirms(q[i], n)
               PROVE  ~OfScript(q[j])
    BY DEF Closed
  <2>1. CASE j \in 1..Len(s) /\ q[j] = s[j]
    BY <1>1, <1>4, <2>1 DEF Closed
  <2>2. CASE j - Len(s) \in 1..Len(t) /\ q[j] = t[j - Len(s)]
    BY <1>4, <2>2 DEF Silent
  <2> QED
    BY <1>1, <2>1, <2>2
<1>5. ASSUME ~Confirmed(s, n), Closed(t, n) PROVE Closed(q, n)
  <2> SUFFICES ASSUME NEW i \in 1..Len(q), NEW j \in 1..Len(q), i < j, Confirms(q[i], n)
               PROVE  ~OfScript(q[j])
    BY DEF Closed
  <2>1. i - Len(s) \in 1..Len(t) /\ q[i] = t[i - Len(s)]
    BY <1>1, <1>5 DEF Confirmed
  <2>2. j - Len(s) \in 1..Len(t) /\ q[j] = t[j - Len(s)] /\ i - Len(s) < j - Len(s)
    BY <1>1, <2>1
  <2> QED
    BY <1>5, <2>1, <2>2 DEF Closed
<1> QED
  BY <1>2, <1>3, <1>4, <1>5 DEF q

LEMMA OpenedParts ==
  ASSUME NEW s, NEW t, Sequence(s), Sequence(t), NEW n, Opened(s, n), Opened(t, n)
  PROVE  Opened(s \o t, n)
<1> DEFINE q == s \o t
<1>1. /\ Len(q) = Len(s) + Len(t) /\ Len(s) \in Nat /\ Len(t) \in Nat
      /\ \A i \in 1..Len(s) : q[i] = s[i] /\ i \in 1..Len(q)
      /\ \A i \in 1..Len(t) : q[Len(s) + i] = t[i] /\ Len(s) + i \in 1..Len(q)
      /\ \A i \in 1..Len(q) : \/ i \in 1..Len(s) /\ q[i] = s[i]
                              \/ i - Len(s) \in 1..Len(t) /\ q[i] = t[i - Len(s)]
  BY JoinedPieces
<1> HIDE DEF q
<1> SUFFICES ASSUME NEW i \in 1..Len(q), OfScript(q[i])
             PROVE  \E l \in 1..(Len(q) - 1) : /\ q[l] = Piece("sentinel", n, 1)
                                               /\ q[l + 1] = Piece("sentinel", n, 2)
                                               /\ \A k \in i..l : q[k].k \notin {"line", "rest"}
  BY DEF Opened, q
<1>2. CASE i \in 1..Len(s) /\ q[i] = s[i]
  <2>1. PICK l \in 1..(Len(s) - 1) : /\ s[l] = Piece("sentinel", n, 1)
                                     /\ s[l + 1] = Piece("sentinel", n, 2)
                                     /\ \A k \in i..l : s[k].k \notin {"line", "rest"}
    BY <1>2 DEF Opened
  <2>2. l \in 1..Len(s) /\ l + 1 \in 1..Len(s) /\ l \in 1..(Len(q) - 1) /\ \A k \in i..l : k \in 1..Len(s)
    BY <1>1
  <2> QED
    BY <1>1, <2>1, <2>2
<1>3. CASE i - Len(s) \in 1..Len(t) /\ q[i] = t[i - Len(s)]
  <2>1. PICK l \in 1..(Len(t) - 1) : /\ t[l] = Piece("sentinel", n, 1)
                                     /\ t[l + 1] = Piece("sentinel", n, 2)
                                     /\ \A k \in (i - Len(s))..l : t[k].k \notin {"line", "rest"}
    BY <1>3 DEF Opened
  <2>2. /\ l \in 1..Len(t) /\ l + 1 \in 1..Len(t) /\ Len(s) + l \in 1..(Len(q) - 1)
        /\ (Len(s) + l) + 1 = Len(s) + (l + 1)
    BY <1>1
  <2>3. ASSUME NEW k \in i..(Len(s) + l) PROVE q[k].k \notin {"line", "rest"}
    <3>1. /\ k - Len(s) \in (i - Len(s))..l /\ k - Len(s) \in 1..Len(t)
          /\ Len(s) + (k - Len(s)) = k
      BY <1>1, <1>3
    <3>2. q[Len(s) + (k - Len(s))] = t[k - Len(s)]
      BY <1>1, <3>1
    <3> QED
      BY <2>1, <3>1, <3>2
  <2>4. q[Len(s) + l] = t[l] /\ q[Len(s) + (l + 1)] = t[l + 1]
    BY <1>1, <2>2
  <2>5. q[(Len(s) + l) + 1] = t[l + 1]
    BY <2>2, <2>4
  <2> QED
    BY <2>1, <2>2, <2>3, <2>4, <2>5
<1> QED
  BY <1>1, <1>2, <1>3

(* ------------------------- what the shell prints ----------------------- *)

\* Output without a piece of a script, and without a report that one ran.
Plain(w) == Sequence(w) /\ Silent(w) /\ Installs(w, {})

LEMMA OnePlain ==
  /\ Plain(<<>>)
  /\ \A x : ~OfScript(x) /\ x.k # "installed" => Plain(<<x>>)
<1>1. Plain(<<>>)
  BY FewPieces DEF Plain, Silent, Installs
<1>2. ASSUME NEW x, ~OfScript(x), x.k # "installed" PROVE Plain(<<x>>)
  <2>1. Sequence(<<x>>) /\ Len(<<x>>) = 1 /\ <<x>>[1] = x
    BY FewPieces
  <2> QED
    BY <1>2, <2>1 DEF Plain, Silent, Installs
<1> QED
  BY <1>1, <1>2

LEMMA PlainJoin ==
  ASSUME NEW s, NEW t, Plain(s), Plain(t)
  PROVE  Plain(s \o t)
BY Parts DEF Plain

\* Plain output neither opens, closes nor confirms anything.
LEMMA PlainOutput ==
  ASSUME NEW w, Plain(w), NEW n
  PROVE  /\ ~Confirmed(w, n) /\ Closed(w, n) /\ Opened(w, n)
         /\ \A N : Installs(w, N)
BY DEF Plain, Silent, Confirmed, Confirms, Closed, Opened, Installs

LEMMA PlainPiece ==
  ASSUME NEW k, k \notin {"echo", "sentinel", "rest", "installed"}, NEW of, NEW half
  PROVE  Plain(<<Piece(k, of, half)>>)
BY OnePlain DEF OfScript, Piece

LEMMA PlainUnit ==
  ASSUME NEW k, k \notin {"echo", "sentinel", "rest", "installed"}, NEW of
  PROVE  Plain(Unit(k, of))
<1>1. Unit(k, of) = <<Piece(k, of, 1)>> \o <<Piece(k, of, 2)>>
  BY DEF Unit
<1> QED
  BY <1>1, PlainPiece, PlainJoin

LEMMA PlainPrompt ==
  ASSUME NEW hooked
  PROVE  Plain(Prompt(hooked)) /\ Plain(Started(hooked)) /\ Plain(<<Line>>) /\ Plain(<<Part>>)
<1>1. Plain(<<Line>>) /\ Plain(<<Part>>) /\ Plain(<<Whole("prompt")>>) /\ Plain(<<Whole("start")>>)
  BY PlainPiece DEF Line, LineOf, Part, Whole
<1>2. Plain(Unit("done", None))
  BY PlainUnit
<1>3. Plain(Started(hooked))
  BY <1>1, OnePlain DEF Started
<1>4. Plain(Unit("done", None) \o <<Whole("prompt")>>)
  BY <1>1, <1>2, PlainJoin
<1>5. Plain(IF hooked THEN Unit("done", None) \o <<Whole("prompt")>> ELSE <<>>)
  BY <1>4, OnePlain
<1>6. Plain(Prompt(hooked))
  BY <1>1, <1>5, PlainJoin DEF Prompt
<1> QED
  BY <1>1, <1>3, <1>6

\* What a terminal echoes of a script: all of it is before the line's end.
LEMMA EchoPieces ==
  ASSUME NEW n
  PROVE  /\ Sequence(Echo(n)) /\ Installs(Echo(n), {})
         /\ ~Confirmed(Echo(n), n) /\ Closed(Echo(n), n) /\ Opened(Echo(n), n)
<1> DEFINE e == Piece("echo", n, 0)
           f == Piece("sentinel", n, 1)
           g == Piece("sentinel", n, 2)
           h == Piece("rest", n, 0)
<1>1. Echo(n) = (<<e>> \o <<f, g>>) \o <<h>>
  BY DEF Echo, Unit
<1>2. e.k = "echo" /\ f.k = "sentinel" /\ g.k = "sentinel" /\ h.k = "rest"
  BY DEF Piece
<1> HIDE DEF e, f, g, h
<1> DEFINE p == <<e>> \o <<f, g>>
           q == p \o <<h>>
<1>3. Sequence(p) /\ Len(p) = 3 /\ p[1] = e /\ p[2] = f /\ p[3] = g
  <2>1. Sequence(<<f, g>>) /\ Len(<<f, g>>) = 2 /\ <<f, g>>[1] = f /\ <<f, g>>[2] = g
    <3>1. <<f, g>> \in Seq({f, g}) /\ Len(<<f, g>>) = 2 /\ <<f, g>>[1] = f /\ <<f, g>>[2] = g
      OBVIOUS
    <3> QED
      BY <3>1, AnySequence
  <2>2. Sequence(<<e>>) /\ Len(<<e>>) = 1 /\ <<e>>[1] = e
    BY FewPieces
  <2>3. Sequence(p)
    BY <2>1, <2>2, Joined
  <2>4. /\ Len(p) = 1 + 2
        /\ \A i \in 1..1 : p[i] = <<e>>[i]
        /\ \A i \in 1..2 : p[1 + i] = <<f, g>>[i]
    BY <2>1, <2>2, JoinedPieces
  <2> HIDE DEF p
  <2>5. p[1 + 1] = f /\ p[1 + 2] = g /\ p[1] = e
    BY <2>1, <2>2, <2>4
  <2> QED
    BY <2>3, <2>4, <2>5
<1> HIDE DEF p
<1>4. Sequence(q) /\ Len(q) = 4 /\ q[1] = e /\ q[2] = f /\ q[3] = g /\ q[4] = h
  <2>1. Sequence(<<h>>) /\ Len(<<h>>) = 1 /\ <<h>>[1] = h
    BY FewPieces
  <2>2. Sequence(q)
    BY <1>3, <2>1, Joined
  <2>3. /\ Len(q) = 3 + 1
        /\ \A i \in 1..3 : q[i] = p[i]
        /\ q[3 + 1] = h
    <3> DEFINE r == <<h>>
    <3>0. Sequence(r) /\ Sequence(p)
      BY <1>3, <2>1
    <3> HIDE DEF r
    <3>1. /\ Len(p \o r) = Len(p) + Len(r)
          /\ \A i \in 1..Len(p) : (p \o r)[i] = p[i]
          /\ \A i \in 1..Len(r) : (p \o r)[Len(p) + i] = r[i]
      BY <3>0, JoinedPieces
    <3>2. Len(p) = 3 /\ Len(r) = 1 /\ r[1] = h
      BY <1>3, <2>1 DEF r
    <3>3. q = p \o r
      BY DEF r
    <3> HIDE DEF q
    <3> QED
      BY <3>1, <3>2, <3>3
  <2> HIDE DEF q
  <2>4. q[3 + 1] = h /\ q[1] = e /\ q[2] = f /\ q[3] = g
    BY <1>3, <2>1, <2>3
  <2> QED
    BY <2>2, <2>3, <2>4
<1> HIDE DEF q
<1>5. \A i \in 1..Len(q) : q[i].k \notin {"installed", "line"}
  BY <1>2, <1>4
<1>6. Opened(q, n)
  <2> SUFFICES ASSUME NEW i \in 1..Len(q), OfScript(q[i])
               PROVE  \E l \in 1..(Len(q) - 1) : /\ q[l] = Piece("sentinel", n, 1)
                                                 /\ q[l + 1] = Piece("sentinel", n, 2)
                                                 /\ \A k \in i..l : q[k].k \notin {"line", "rest"}
    BY DEF Opened
  <2>1. 2 \in 1..(Len(q) - 1) /\ q[2] = Piece("sentinel", n, 1) /\ q[2 + 1] = Piece("sentinel", n, 2)
    BY <1>4 DEF f, g
  <2>2. ASSUME NEW k \in i..2 PROVE q[k].k \notin {"line", "rest"}
    <3>1. k = 1 \/ k = 2
      BY <1>4
    <3> QED
      BY <1>2, <1>4, <3>1
  <2> QED
    BY <2>1, <2>2
<1>7. Installs(q, {}) /\ ~Confirmed(q, n) /\ Closed(q, n)
  BY <1>5 DEF Installs, Confirmed, Confirms, Closed
<1> QED
  BY <1>1, <1>4, <1>6, <1>7 DEF p, q

\* A script that ran is echoed, and reported or not; then there is a prompt.
LEMMA ScriptRuns ==
  ASSUME NEW n, NEW had, NEW hooked, NEW x, x = Unit("installed", n) \/ x = <<Line>>
  PROVE  LET w == Echo(n) \o Started(had) \o x \o Prompt(hooked)
         IN  Sequence(w) /\ Closed(w, n) /\ Opened(w, n) /\ Installs(w, {n})
<1>1. Sequence(x) /\ Silent(x) /\ Installs(x, {n})
  <2>1. CASE x = <<Line>>
    BY <2>1, PlainPrompt, PlainOutput DEF Plain
  <2>2. CASE x = Unit("installed", n)
    <3> DEFINE f == Piece("installed", n, 1)
               g == Piece("installed", n, 2)
    <3>1. f.k = "installed" /\ f.of = n /\ g.k = "installed" /\ g.of = n
      BY DEF Piece
    <3>2. x = <<f, g>>
      BY <2>2 DEF Unit
    <3> HIDE DEF f, g
    <3>3. x \in Seq({f, g}) /\ Len(x) = 2 /\ x[1] = f /\ x[2] = g
      BY <3>2
    <3>4. \A i \in 1..Len(x) : x[i].k = "installed" /\ x[i].of = n
      BY <3>1, <3>3
    <3> QED
      BY <3>3, <3>4, AnySequence DEF Silent, Installs, OfScript
  <2> QED
    BY <2>1, <2>2
<1> DEFINE Said(w) == Sequence(w) /\ Closed(w, n) /\ Opened(w, n) /\ Installs(w, {n})
<1>2. ASSUME NEW w, Said(w), NEW y, Sequence(y), Silent(y), Installs(y, {n}) PROVE Said(w \o y)
  <2>1. Opened(y, n)
    BY <1>2 DEF Silent, Opened
  <2> QED
    BY <1>2, <2>1, Parts, ClosedParts, OpenedParts
<1>3. /\ Sequence(Prompt(hooked)) /\ Silent(Prompt(hooked)) /\ Installs(Prompt(hooked), {n})
      /\ Sequence(Started(had)) /\ Silent(Started(had)) /\ Installs(Started(had), {n})
  BY PlainPrompt, PlainOutput DEF Plain
<1>4. Said(Echo(n))
  BY EchoPieces DEF Installs
<1> HIDE DEF Said
<1>5. Said(Echo(n) \o Started(had))
  BY <1>2, <1>3, <1>4
<1>6. Said(Echo(n) \o Started(had) \o x)
  BY <1>1, <1>2, <1>5
<1>7. Said(Echo(n) \o Started(had) \o x \o Prompt(hooked))
  BY <1>2, <1>3, <1>6
<1> QED
  BY <1>7 DEF Said

\* Output that comes after what is coming, and what is then said of both.
LEMMA MoreComes ==
  ASSUME SessionState(st), Sequence(wire), st'.scratch = st.scratch, NEW w, Sequence(w),
         wire' = wire \o w
  PROVE  /\ Sequence(wire') /\ Sequence(Coming) /\ Coming' = Coming \o w
         /\ Silent(wire) /\ Silent(w) => Silent(wire')
         /\ \A N : Installs(wire, N) /\ Installs(w, N) => Installs(wire', N)
         /\ \A n : Opened(Coming, n) /\ Opened(w, n) => Opened(Coming', n)
         /\ \A n : Closed(Coming, n) /\ Silent(w) => Closed(Coming', n)
         /\ \A n : ~Confirmed(Coming, n) /\ Closed(w, n) => Closed(Coming', n)
         /\ \A n : Confirmed(Coming', n) => Confirmed(Coming, n) \/ Confirmed(w, n)
<1>1. Sequence(st.scratch) /\ Sequence(Coming)
  BY Joined DEF SessionState, Coming
<1>2. Coming' = Coming \o w
  <2> DEFINE a == st.scratch
  <2>0. Sequence(a) /\ Sequence(wire) /\ Sequence(w)
    BY <1>1
  <2> HIDE DEF a
  <2>1. (a \o wire) \o w = a \o (wire \o w)
    BY ONLY <2>0, JoinsAlike
  <2> QED
    BY <2>1 DEF a, Coming
<1>3. /\ Sequence(wire') /\ (Silent(wire) /\ Silent(w) => Silent(wire'))
      /\ \A N : Installs(wire, N) /\ Installs(w, N) => Installs(wire', N)
  BY Parts
<1> DEFINE c == Coming
<1>4. Sequence(c) /\ Coming' = c \o w
  BY <1>1, <1>2
<1> HIDE DEF c
<1>6. \A n : Opened(c, n) /\ Opened(w, n) => Opened(c \o w, n)
  BY <1>4, OpenedParts
<1>7. /\ \A n : Closed(c, n) /\ Silent(w) => Closed(c \o w, n)
      /\ \A n : ~Confirmed(c, n) /\ Closed(w, n) => Closed(c \o w, n)
  BY <1>4, ClosedParts
<1>8. \A n : Confirmed(c \o w, n) => Confirmed(c, n) \/ Confirmed(w, n)
  BY <1>4, Parts
<1>9. /\ \A n : Opened(c, n) /\ Opened(w, n) => Opened(Coming', n)
      /\ \A n : Closed(c, n) /\ Silent(w) => Closed(Coming', n)
      /\ \A n : ~Confirmed(c, n) /\ Closed(w, n) => Closed(Coming', n)
      /\ \A n : Confirmed(Coming', n) => Confirmed(c, n) \/ Confirmed(w, n)
  BY <1>4, <1>6, <1>7, <1>8
<1> QED
  BY <1>1, <1>2, <1>3, <1>9 DEF c

\* The fields of the state that the invariant looks at.
SameHold == /\ st'.phase = st.phase /\ st'.nonce = st.nonce
            /\ st'.scratch = st.scratch /\ st'.tail = st.tail

\* A step that leaves the state and the scripts alone, adds plain output if any, and
\* puts no script among the input.
LEMMA PlainStep ==
  ASSUME SessionState(st), IssuedInv, SameHold, scripts' = scripts, calls' = calls,
         Unattached' => Unattached,
         NEW w, Plain(w), wire' = wire \o w \/ wire' = wire,
         Sequence(typed'), Scripts(typed', Used), NoScript(typed) => NoScript(typed'),
         \A n : OneScript(typed, n) => OneScript(typed', n)
  PROVE  Stays
<1>1. /\ Sequence(wire') /\ (Silent(wire) => Silent(wire'))
      /\ \A N : Installs(wire, N) => Installs(wire', N)
      /\ \A n : Opened(Coming, n) => Opened(Coming', n)
      /\ \A n : Closed(Coming, n) => Closed(Coming', n)
      /\ \A n : Confirmed(Coming', n) => Confirmed(Coming, n)
  <2>1. CASE wire' = wire
    BY <2>1 DEF IssuedInv, SameHold, Coming
  <2>2. CASE wire' = wire \o w
    <3>1. Sequence(w) /\ Silent(w) /\ (\A N : Installs(w, N))
          /\ (\A n : Opened(w, n) /\ ~Confirmed(w, n))
      BY PlainOutput DEF Plain
    <3> QED
      BY <2>2, <3>1, MoreComes DEF IssuedInv, SameHold
  <2> QED
    BY <2>1, <2>2
<1>2. Used' = Used /\ Booting' = Booting /\ (Pending' => Pending)
  BY DEF Used, Booting, Pending, SameHold
<1>3. IssuedInv'
  BY <1>1, <1>2 DEF IssuedInv, SameHold
<1>4. ASSUME LiveInv PROVE LiveInv'
  <2>1. HeldInv'
    BY <1>1, <1>4 DEF LiveInv, HeldInv, SameHold
  <2>2. CalmInv'
    BY <1>1, <1>2, <1>4 DEF LiveInv, CalmInv
  <2>3. BootInv'
    BY <1>1, <1>2, <1>4 DEF LiveInv, BootInv, SameHold
  <2> QED
    BY <1>4, <2>1, <2>2, <2>3 DEF LiveInv, SameHold
<1> QED
  BY <1>3, <1>4 DEF Stays

\* A terminal that gets input, or has some read.
LEMMA InputAdded ==
  ASSUME Sequence(typed), NEW k, NEW of, typed' = Append(typed, Typed(k, of))
  PROVE  /\ Sequence(typed')
         /\ k # "script" => /\ NoScript(typed) => NoScript(typed')
                            /\ \A n : OneScript(typed, n) => OneScript(typed', n)
         /\ NoScript(typed) => OneScript(typed', of)
         /\ \A N : Scripts(typed, N) /\ (k = "script" => of \in N) => Scripts(typed', N)
<1> DEFINE x == Typed(k, of)
<1>1. x.k = k /\ x.of = of
  BY DEF Typed
<1> HIDE DEF x
<1>2. typed' = typed \o <<x>>
  BY SequenceLength DEF Sequence, x
<1>3. Sequence(<<x>>) /\ Len(<<x>>) = 1 /\ <<x>>[1] = x
  BY FewPieces
<1>4. Sequence(typed')
  BY <1>2, <1>3, Joined
<1> DEFINE t == typed'
           r == <<x>>
<1>5. /\ Len(t) = Len(typed) + 1 /\ Len(typed) \in Nat
      /\ \A i \in 1..Len(t) : \/ i \in 1..Len(typed) /\ t[i] = typed[i]
                              \/ i = Len(typed) + 1 /\ t[i] = x
  <2>1. Sequence(r) /\ Len(r) = 1 /\ r[1] = x /\ t = typed \o r
    BY <1>2, <1>3
  <2> HIDE DEF r, t
  <2>2. /\ Len(typed \o r) = Len(typed) + Len(r) /\ Len(typed) \in Nat
        /\ \A i \in 1..(Len(typed) + Len(r)) :
              \/ i \in 1..Len(typed) /\ (typed \o r)[i] = typed[i]
              \/ i - Len(typed) \in 1..Len(r) /\ (typed \o r)[i] = r[i - Len(typed)]
    BY <2>1, JoinedPieces
  <2>3. \A i \in 1..(Len(typed) + 1) : i - Len(typed) \in 1..1 => i = Len(typed) + 1 /\ i - Len(typed) = 1
    BY <2>2
  <2> QED
    BY <2>1, <2>2, <2>3
<1>6. k # "script" => /\ NoScript(typed) => NoScript(t)
                      /\ \A n : OneScript(typed, n) => OneScript(t, n)
  BY <1>1, <1>5 DEF NoScript, OneScript
<1>7. NoScript(typed) => OneScript(t, of)
  BY <1>1, <1>5 DEF NoScript, OneScript
<1>8. \A N : Scripts(typed, N) /\ (k = "script" => of \in N) => Scripts(t, N)
  BY <1>1, <1>5 DEF Scripts
<1> QED
  BY <1>4, <1>6, <1>7, <1>8

LEMMA InputRead ==
  ASSUME Sequence(typed), typed # <<>>, typed' = Tail(typed)
  PROVE  /\ Sequence(typed')
         /\ NoScript(typed) => NoScript(typed')
         /\ \A n : OneScript(typed, n) => OneScript(typed', n)
         /\ \A N : Scripts(typed, N) =>
              Scripts(typed', N) /\ (Head(typed).k = "script" => Head(typed).of \in N)
         /\ Head(typed).k = "script" =>
              /\ ~NoScript(typed)
              /\ \A n : OneScript(typed, n) => Head(typed).of = n /\ NoScript(typed')
<1> DEFINE t == typed'
<1>1. /\ t \in Seq({typed[i] : i \in 1..Len(typed)}) /\ Len(t) = Len(typed) - 1
      /\ \A i \in 1..Len(t) : t[i] = typed[i + 1]
      /\ Len(typed) \in Nat /\ Len(typed) # 0
      /\ Head(typed) = typed[1]
  BY HeadTailProperties, EmptySeq, LenProperties DEF Sequence
<1>2. Sequence(t)
  BY <1>1, AnySequence
<1> HIDE DEF t
<1>3. \A i \in 1..Len(t) : i + 1 \in 1..Len(typed) /\ i + 1 # 1
  BY <1>1
<1>4. NoScript(typed) => NoScript(t)
  BY <1>1, <1>3 DEF NoScript
<1>5. ASSUME NEW n, OneScript(typed, n) PROVE OneScript(t, n)
  <2> SUFFICES ASSUME NEW i \in 1..Len(t), NEW j \in 1..Len(t), t[i].k = "script", t[j].k = "script"
               PROVE  i = j /\ t[i].of = n
    BY DEF OneScript
  <2>1. typed[i + 1].k = "script" /\ typed[j + 1].k = "script"
        /\ i + 1 \in 1..Len(typed) /\ j + 1 \in 1..Len(typed)
    BY <1>1, <1>3
  <2>2. i + 1 = j + 1 /\ typed[i + 1].of = n
    BY <1>5, <2>1 DEF OneScript
  <2> QED
    BY <1>1, <2>2
<1>6. ASSUME Head(typed).k = "script" 
      PROVE  /\ ~NoScript(typed)
             /\ \A n : OneScript(typed, n) => Head(typed).of = n /\ NoScript(t)
  <2>1. 1 \in 1..Len(typed) /\ typed[1].k = "script"
    BY <1>1, <1>6
  <2>2. ~NoScript(typed)
    BY <2>1 DEF NoScript
  <2>3. ASSUME NEW n, OneScript(typed, n) PROVE typed[1].of = n /\ NoScript(t)
    <3>1. \A i \in 1..Len(typed) : typed[i].k = "script" => i = 1 /\ typed[i].of = n
      BY <2>1, <2>3 DEF OneScript
    <3> QED
      BY <1>1, <1>3, <2>1, <3>1 DEF NoScript
  <2> QED
    BY <1>1, <2>2, <2>3
<1>7. \A N : Scripts(typed, N) =>
        Scripts(t, N) /\ (Head(typed).k = "script" => Head(typed).of \in N)
  <2>1. 1 \in 1..Len(typed)
    BY <1>1
  <2> QED
    BY <1>1, <1>3, <2>1 DEF Scripts
<1> QED
  BY <1>2, <1>4, <1>5, <1>6, <1>7 DEF t

\* Only while a bootstrap is under way is a script in the input or about to be.
LEMMA PendingBoots ==
  ASSUME LiveInv, Pending
  PROVE  /\ Booting /\ ~Confirmed(Coming, st.nonce) /\ Closed(Coming, st.nonce)
         /\ scripts \subseteq {st.nonce} /\ OneScript(typed, st.nonce)
         /\ scripts # {} => NoScript(typed)
         /\ st.phase = "waitingSentinel" => Opened(Coming, st.nonce)
BY DEF LiveInv, CalmInv, BootInv, Booting

LEMMA RunsStep ==
  ASSUME SessionState(st), IssuedInv, st' = st, scripts' = scripts, calls' = calls, apc' = apc,
         typed # <<>>, Head(typed).k = "script", typed' = Tail(typed),
         RunsScript(Head(typed).of)
  PROVE  Stays
<1> DEFINE n == Head(typed).of
<1>1. /\ Sequence(typed') /\ ~NoScript(typed) /\ Scripts(typed', Used) /\ n \in Used
      /\ \A m : OneScript(typed, m) => n = m /\ NoScript(typed')
  BY InputRead DEF IssuedInv
<1>2. PICK had, hooked, x : /\ x = Unit("installed", n) \/ x = <<Line>>
                            /\ wire' = wire \o (Echo(n) \o Started(had) \o x \o Prompt(hooked))
  BY DEF RunsScript, Prints
<1> DEFINE w == Echo(n) \o Started(had) \o x \o Prompt(hooked)
<1>3. /\ Sequence(w) /\ Closed(w, n) /\ Opened(w, n) /\ Installs(w, {n})
      /\ wire' = wire \o w
  BY <1>2, ScriptRuns
<1> HIDE DEF w, n
<1>4. /\ Sequence(wire') /\ Installs(w, Used)
      /\ \A N : Installs(wire, N) /\ Installs(w, N) => Installs(wire', N)
      /\ Opened(Coming, n) => Opened(Coming', n)
      /\ ~Confirmed(Coming, n) => Closed(Coming', n)
  <2>1. Installs(w, Used)
    BY <1>1, <1>3 DEF Installs
  <2> QED
    BY <1>3, <2>1, MoreComes DEF IssuedInv
<1>5. IssuedInv'
  <2>1. Used' = Used
    BY DEF Used
  <2> QED
    BY <1>1, <1>4, <2>1 DEF IssuedInv
<1>6. ASSUME LiveInv PROVE LiveInv'
  <2>1. Pending
    BY <1>1 DEF Pending
  <2>2. /\ Booting /\ ~Confirmed(Coming, n) /\ n = st.nonce
        /\ NoScript(typed') /\ scripts = {}
        /\ st.phase = "waitingSentinel" => Opened(Coming, n)
    <3>1. OneScript(typed, st.nonce)
      BY <1>6, <2>1, PendingBoots
    <3>2. n = st.nonce /\ NoScript(typed')
      BY <1>1, <3>1
    <3> QED
      BY <1>1, <1>6, <2>1, <3>2, PendingBoots
  <2>3. Booting' /\ ~Pending'
    BY <2>2 DEF Booting, Pending
  <2>4. OneScript(typed', n)
    BY <2>2 DEF NoScript, OneScript
  <2>5. HeldInv' /\ BootInv' /\ CalmInv'
    BY <1>4, <1>6, <2>2, <2>3, <2>4 DEF LiveInv, HeldInv, BootInv, CalmInv, Booting
  <2> QED
    BY <1>6, <2>5 DEF LiveInv, Unattached
<1> QED
  BY <1>5, <1>6 DEF Stays

LEMMA WriteStep ==
  ASSUME OutputInv, IssuedInv, NEW n \in Nonces, WriteScript(n)
  PROVE  Stays
<1>1. /\ SessionState(st) /\ Sequence(typed) /\ Sequence(wire) /\ st' = st /\ Used' = Used
      /\ n \in scripts /\ scripts' = scripts \ {n} /\ n \in Used
      /\ Unattached' => Unattached
  BY DEF OutputInv, IssuedInv, WriteScript, Used, Unattached, sceneVars
<1>2. /\ Sequence(typed') /\ Scripts(typed', Used)
      /\ NoScript(typed) => OneScript(typed', n)
  <2>1. CASE live
    <3>1. typed' = Append(typed, Typed("script", n))
      BY <2>1 DEF WriteScript, Receives
    <3> QED
      BY <1>1, <3>1, InputAdded DEF IssuedInv
  <2>2. CASE ~live
    <3>1. typed' = typed
      BY <2>2 DEF WriteScript, shellVars
    <3> QED
      BY <1>1, <3>1 DEF NoScript, OneScript, IssuedInv
  <2> QED
    BY <2>1, <2>2
<1>3. /\ Sequence(wire') /\ (\A N : Installs(wire, N) => Installs(wire', N))
      /\ Opened(Coming, n) => Opened(Coming', n)
      /\ ~Confirmed(Coming, n) /\ Closed(Coming, n) => Closed(Coming', n) /\ ~Confirmed(Coming', n)
  <2>1. CASE wire' = wire
    BY <1>1, <2>1 DEF Coming
  <2>2. CASE wire' = wire \o Echo(n)
    <3>1. /\ Sequence(Echo(n)) /\ Opened(Echo(n), n) /\ ~Confirmed(Echo(n), n)
          /\ Closed(Echo(n), n) /\ (\A N : Installs(Echo(n), N))
      BY EchoPieces DEF Installs
    <3> QED
      BY <1>1, <2>2, <3>1, MoreComes
  <2> QED
    BY <2>1, <2>2 DEF WriteScript, Receives, shellVars
<1>4. IssuedInv'
  BY <1>1, <1>2, <1>3 DEF IssuedInv
<1>5. ASSUME LiveInv PROVE LiveInv'
  <2>1. Pending
    BY <1>1 DEF Pending
  <2>2. /\ Booting /\ ~Confirmed(Coming, n) /\ Closed(Coming, n) /\ n = st.nonce
        /\ NoScript(typed) /\ scripts' = {}
        /\ st.phase = "waitingSentinel" => Opened(Coming, n)
    BY <1>1, <1>5, <2>1, PendingBoots
  <2>3. Booting'
    BY <1>1, <2>2 DEF Booting
  <2>4. HeldInv' /\ BootInv' /\ CalmInv'
    BY <1>1, <1>2, <1>3, <1>5, <2>2, <2>3 DEF LiveInv, HeldInv, BootInv, CalmInv, Booting
  <2> QED
    BY <1>1, <1>5, <2>4 DEF LiveInv
<1> QED
  BY <1>4, <1>5 DEF Stays

\* A bootstrap begins when no script is on its way, and no report of its nonce.
LEMMA BootBegins ==
  ASSUME IssuedInv, Silent(wire), ~Pending, NEW n, ~Confirmed(wire, n),
         st'.phase = "waitingSentinel", st'.nonce = n, st'.scratch = <<>>, HeldTail(st'.tail),
         scripts' \subseteq {n}, wire' = wire, typed' = typed, ~Unattached'
  PROVE  LiveInv'
<1>1. Sequence(wire) /\ NoScript(typed)
  BY DEF IssuedInv, Pending
<1>2. Coming' = wire
  <2>1. <<>> \o wire = wire
    BY <1>1, JoinsAlike
  <2> QED
    BY <2>1 DEF Coming
<1>3. HeldInv' /\ Booting'
  BY DEF HeldInv, HeldTail, Booting
<1>4. Closed(wire, n) /\ Opened(wire, n)
  BY DEF Silent, Closed, Opened
<1>5. OneScript(typed, n)
  BY <1>1 DEF NoScript, OneScript
<1>6. BootInv' /\ CalmInv'
  BY <1>1, <1>2, <1>3, <1>4, <1>5 DEF BootInv, CalmInv
<1> QED
  BY <1>3, <1>6 DEF LiveInv

\* A session that is attached without a script being written.
LEMMA CalmBegins ==
  ASSUME LiveInv, st.phase = "none", st'.phase \in {"none", "waitingReady", "active"},
         st'.scratch = <<>>, HeldTail(st'.tail), UNCHANGED <<scripts, wire, typed>>,
         Unattached' => st'.phase = "none"
  PROVE  LiveInv'
<1>1. Silent(wire) /\ ~Pending /\ Installs(wire, {})
  BY DEF LiveInv, CalmInv, HeldInv, Booting
<1>2. HeldInv'
  BY <1>1 DEF HeldInv, HeldTail
<1>3. CalmInv' /\ BootInv'
  BY <1>1 DEF CalmInv, BootInv, Booting, Pending
<1> QED
  BY <1>2, <1>3 DEF LiveInv

\* Attach's nonce is none of Reinject's.
LEMMA FirstUsed == First \in Used
BY ShellConstants DEF First, Used, Nonces

LEMMA AttachStep ==
  ASSUME OutputInv, IssuedInv, Attach \/ BeginBootstrap
  PROVE  Stays
<1>1. /\ SessionState(st) /\ Unattached
      /\ wire' = wire /\ typed' = typed /\ Used' = Used
  BY DEF OutputInv, Attach, BeginBootstrap, Unattached, shellVars, sceneVars, Used
<1>2. CASE Attach
  <2>1. scripts' = scripts /\ (st' = st \/ st' = Fields("active", First))
    BY <1>2 DEF Attach
  <2>2. IssuedInv'
    BY <1>1, <2>1, FirstUsed DEF IssuedInv, Fields
  <2>3. ASSUME LiveInv PROVE LiveInv'
    <3>1. st.phase = "none" /\ st.scratch = <<>> /\ HeldTail(st.tail)
      BY <1>1, <2>3 DEF LiveInv, HeldInv
    <3>2. Fields("active", First).phase = "active" /\ Fields("active", First).scratch = <<>>
          /\ Fields("active", First).tail = <<>> /\ HeldTail(<<>>)
      BY FewPieces DEF Fields, HeldTail
    <3>3. /\ st'.phase \in {"none", "waitingReady", "active"} /\ st'.scratch = <<>>
          /\ HeldTail(st'.tail)
      BY <2>1, <3>1, <3>2
    <3>4. Unattached' => st'.phase = "none"
      BY <1>2, <3>1 DEF Attach, Unattached
    <3> QED
      BY <1>1, <2>1, <2>3, <3>1, <3>3, <3>4, CalmBegins
  <2> QED
    BY <2>2, <2>3 DEF Stays
<1>3. CASE BeginBootstrap
  <2>1. /\ st'.nonce = First /\ st'.scratch = st.scratch /\ st'.tail = st.tail /\ ~Unattached'
        /\ \/ st'.phase = "waitingReady" /\ scripts' = scripts
           \/ st'.phase = "waitingSentinel" /\ scripts' = scripts \cup {First}
    BY <1>1, <1>3 DEF BeginBootstrap, SessionState, Unattached
  <2>2. IssuedInv'
    BY <1>1, <2>1, FirstUsed DEF IssuedInv
  <2>3. ASSUME LiveInv PROVE LiveInv'
    <3>1. /\ st.phase = "none" /\ st.scratch = <<>> /\ HeldTail(st.tail)
          /\ Silent(wire) /\ ~Pending /\ Installs(wire, {}) /\ scripts = {}
      BY <1>1, <2>3 DEF LiveInv, HeldInv, CalmInv, Booting, Pending
    <3>2. ~Confirmed(wire, First)
      BY <3>1 DEF Installs, Confirmed, Confirms
    <3>3. CASE st'.phase = "waitingReady" /\ scripts' = scripts
      BY <1>1, <2>1, <2>3, <3>1, <3>3, CalmBegins
    <3>4. CASE st'.phase = "waitingSentinel" /\ scripts' = scripts \cup {First}
      <4> DEFINE n == First
      <4>1. /\ st'.nonce = n /\ scripts' \subseteq {n} /\ ~Confirmed(wire, n)
        BY <2>1, <3>1, <3>2, <3>4
      <4> HIDE DEF n
      <4> QED
        BY <1>1, <2>1, <3>1, <3>4, <4>1, BootBegins
    <3> QED
      BY <2>1, <3>3, <3>4
  <2> QED
    BY <2>2, <2>3 DEF Stays
<1> QED
  BY <1>2, <1>3

LEMMA FireStep ==
  ASSUME OutputInv, IssuedInv, FireReady \/ TimerExpires
  PROVE  Stays
<1>1. /\ SessionState(st) /\ Sequence(typed) /\ Scripts(typed, Used) /\ Used' = Used
      /\ wire' = wire /\ typed' = typed /\ apc' = apc /\ calls' = calls
  BY DEF OutputInv, IssuedInv, FireReady, TimerExpires, shellVars, sceneVars, Used
<1>2. CASE SameHold /\ scripts' = scripts
  BY <1>1, <1>2, OnePlain, PlainStep DEF Unattached
<1>3. CASE TimerExpires
  <2>1. SameHold /\ scripts' = scripts
    BY <1>1, <1>3 DEF TimerExpires, SessionState, SameHold
  <2> QED
    BY <1>2, <2>1
<1>4. CASE FireReady /\ st.phase # "waitingReady"
  BY <1>2, <1>4 DEF FireReady, SameHold
<1>5. CASE FireReady /\ st.phase = "waitingReady"
  <2> DEFINE n == st.nonce
  <2>1. /\ st'.phase = "waitingSentinel" /\ st'.nonce = n /\ st'.scratch = st.scratch
        /\ st'.tail = st.tail /\ scripts' = scripts \cup {n} /\ n \in Used
    BY <1>1, <1>5 DEF FireReady, SessionState, IssuedInv
  <2> HIDE DEF n
  <2>2. IssuedInv'
    BY <1>1, <2>1 DEF IssuedInv
  <2>3. ASSUME LiveInv PROVE LiveInv'
    <3>1. /\ st.scratch = <<>> /\ HeldTail(st.tail) /\ ~Unattached
          /\ Silent(wire) /\ ~Pending /\ Installs(wire, {}) /\ scripts = {}
      BY <1>5, <2>3 DEF LiveInv, HeldInv, CalmInv, Booting, Pending
    <3>2. ~Confirmed(wire, n) /\ ~Unattached'
      BY <1>1, <3>1 DEF Installs, Confirmed, Confirms, Unattached
    <3> QED
      BY <1>1, <2>1, <3>1, <3>2, BootBegins
  <2> QED
    BY <2>2, <2>3 DEF Stays
<1> QED
  BY <1>3, <1>4, <1>5

\* Whatever the phase, a bootstrap that Reinject begins is one from the start, unless
\* an earlier script is not done with.
LEMMA ReinjectStep ==
  ASSUME IssuedInv, NEW n \in Reinjects, Reinject(n)
  PROVE  IssuedInv' /\ (rushed' \/ LiveInv') /\ leaked' = leaked
<1>1. /\ wire' = wire /\ typed' = typed /\ leaked' = leaked /\ apc' = apc /\ apc # "registered"
      /\ scripts' = scripts \cup {n} /\ n \in calls /\ calls' = calls \ {n}
      /\ rushed' = (rushed \/ InFlight)
  BY DEF Reinject, shellVars, pumpVars
<1>2. /\ st'.phase = "waitingSentinel" /\ st'.nonce = n /\ st'.scratch = <<>>
      /\ st'.tail = <<>>
  BY DEF Reinject, Fields
<1>3. /\ Sequence(wire) /\ Sequence(typed)
      /\ Installs(wire, Used) /\ Scripts(typed, Used) /\ scripts \subseteq Used
  BY DEF IssuedInv
<1>4. n \notin Used /\ Used' = Used \cup {n}
  BY <1>1 DEF Used, Nonces
<1>5. IssuedInv'
  BY <1>1, <1>2, <1>3, <1>4 DEF IssuedInv, Installs, Scripts
<1>6. ASSUME ~InFlight PROVE LiveInv'
  <2>1. DOMAIN typed = 1..Len(typed) /\ DOMAIN wire = 1..Len(wire)
    BY <1>3, SequenceLength
  <2>2. Silent(wire) /\ ~Pending /\ scripts = {} /\ apc # "stored"
    BY <1>6, <2>1 DEF InFlight, Silent, Pending, NoScript
  <2>3. ~Confirmed(wire, n)
    BY <1>3, <1>4 DEF Installs, Confirmed, Confirms
  <2>4. ~Unattached' /\ scripts' \subseteq {n} /\ HeldTail(<<>>)
    BY <1>1, <2>2, FewPieces DEF Unattached, HeldTail
  <2> QED
    BY <1>1, <1>2, <2>2, <2>3, <2>4, BootBegins
<1> QED
  BY <1>1, <1>5, <1>6

(* ----------------------------- a chunk is read ------------------------- *)

\* What is held back of the output is the first half of a marker.
LEMMA BeginningHeld ==
  ASSUME NEW s
  PROVE  HeldTail(Beginning(s, Markers))
<1>1. CASE s # <<>> /\ s[Len(s)].k \in Markers /\ s[Len(s)].half = 1
  <2> DEFINE x == s[Len(s)]
  <2>1. Beginning(s, Markers) = <<x>> /\ x.k \in Markers /\ x.half = 1
    BY <1>1 DEF Beginning
  <2> HIDE DEF x
  <2>2. Len(<<x>>) = 1 /\ <<x>>[1] = x
    BY FewPieces
  <2> QED
    BY <2>1, <2>2 DEF HeldTail
<1>2. CASE ~(s # <<>> /\ s[Len(s)].k \in Markers /\ s[Len(s)].half = 1)
  <2>1. Beginning(s, Markers) = <<>>
    BY <1>2 DEF Beginning
  <2> QED
    BY <2>1, FewPieces DEF HeldTail
<1> QED
  BY <1>1, <1>2

\* What the parser renders, and the events it tells, are pieces of the chunk: what
\* it had held back is neither.
LEMMA FedFrom ==
  ASSUME NEW tail, Sequence(tail), HeldTail(tail), NEW chunk, Sequence(chunk)
  PROVE  /\ \A j \in DOMAIN Feed(tail, chunk).rendered :
              \E i \in 1..Len(chunk) : Feed(tail, chunk).rendered[j] = chunk[i]
         /\ \A j \in DOMAIN Feed(tail, chunk).events :
              \E i \in 1..Len(chunk) : Feed(tail, chunk).events[j] = chunk[i] /\ chunk[i].half = 2
         /\ HeldTail(Feed(tail, chunk).tail)
<1> DEFINE buf == tail \o chunk
           held == Beginning(buf, Markers)
           whole == Before(buf, held)
           shown == {i \in DOMAIN whole : whole[i].k \notin Markers}
           told == {i \in DOMAIN whole : whole[i].k \in Markers /\ whole[i].half = 2}
<1>1. Sequence(buf) /\ Len(buf) \in Nat
  BY Joined, SequenceLength
<1>2. Sequence(held) /\ Len(held) \in Nat
  BY HeldPieces
<1>3. Sequence(whole)
  BY <1>1, <1>2, Cutting DEF Before
<1>4. HeldTail(held)
  BY BeginningHeld
<1>5. \A i \in DOMAIN whole : whole[i] = buf[i] /\ i \in 1..Len(buf)
  <2>1. whole = SubSeq(buf, 1, Len(buf) - Len(held))
    BY DEF Before
  <2>2. DOMAIN whole = 1..Len(whole)
    BY <1>3, SequenceLength
  <2> HIDE DEF buf, held, whole
  <2>3. Len(whole) = IF 1 <= Len(buf) - Len(held) THEN Len(buf) - Len(held) - 1 + 1 ELSE 0
    BY <1>1, <1>2, <2>1, Cutting
  <2>4. \A i \in 1..Len(whole) : whole[i] = buf[i]
    BY <1>1, <1>2, <2>1, <2>3
  <2> QED
    BY <1>1, <1>2, <2>2, <2>3, <2>4
<1>6. \A i \in 1..Len(buf) : \/ \E j \in 1..Len(tail) : buf[i] = tail[j]
                             \/ \E j \in 1..Len(chunk) : buf[i] = chunk[j]
  BY JoinedPieces
<1>7. \A i \in DOMAIN whole : \/ whole[i].k \in Markers /\ whole[i].half = 1
                              \/ \E j \in 1..Len(chunk) : whole[i] = chunk[j]
  BY <1>5, <1>6 DEF HeldTail
<1>8. shown \subseteq DOMAIN whole /\ told \subseteq DOMAIN whole
  OBVIOUS
<1>9. /\ \A i \in shown : whole[i].k \notin Markers /\ i \in DOMAIN whole
      /\ \A i \in told : whole[i].half = 2 /\ i \in DOMAIN whole
  OBVIOUS
<1> HIDE DEF buf, held, whole, shown, told
<1>10. /\ Feed(tail, chunk).rendered = Kept(whole, shown)
       /\ Feed(tail, chunk).events = Kept(whole, told) /\ Feed(tail, chunk).tail = held
  BY DEF Feed, buf, held, whole, shown, told
<1>11. ASSUME NEW j \in DOMAIN Kept(whole, shown)
       PROVE  \E i \in 1..Len(chunk) : Kept(whole, shown)[j] = chunk[i]
  <2>1. PICK i \in shown : Kept(whole, shown)[j] = whole[i]
    BY <1>3, <1>8, KeptFrom
  <2> QED
    BY <1>7, <1>9, <2>1
<1>12. ASSUME NEW j \in DOMAIN Kept(whole, told)
       PROVE  \E i \in 1..Len(chunk) : Kept(whole, told)[j] = chunk[i] /\ chunk[i].half = 2
  <2>1. PICK i \in told : Kept(whole, told)[j] = whole[i]
    BY <1>3, <1>8, KeptFrom
  <2> QED
    BY <1>7, <1>9, <2>1
<1> QED
  BY <1>4, <1>10, <1>11, <1>12

\* A session that stops suppressing has read the report of its script.
LEMMA Confirming ==
  ASSUME NEW s, SessionState(s), HeldTail(s.tail), NEW chunk, Sequence(chunk)
  PROVE  /\ HeldTail(Suppressed(s, chunk).tail)
         /\ Suppressed(s, chunk).nonce = s.nonce /\ Suppressed(s, chunk).scratch = s.scratch
         /\ Suppressed(s, chunk).phase \in {"active", "suppressing"}
         /\ Suppressed(s, chunk).phase = "active" => Confirmed(chunk, s.nonce)
<1> DEFINE fed == Feed(s.tail, chunk)
           confirmed == \E i \in DOMAIN fed.events :
                          fed.events[i].k = "installed" /\ fed.events[i].of = s.nonce
           phase == IF confirmed THEN "active" ELSE "suppressing"
<1>1. /\ HeldTail(fed.tail)
      /\ \A j \in DOMAIN fed.events :
            \E i \in 1..Len(chunk) : fed.events[j] = chunk[i] /\ chunk[i].half = 2
  BY FedFrom DEF SessionState
<1> HIDE DEF fed
<1>2. confirmed => Confirmed(chunk, s.nonce)
  BY <1>1 DEF Confirmed, Confirms
<1>3. phase \in {"active", "suppressing"} /\ (phase = "active" => confirmed)
  OBVIOUS
<1> HIDE DEF confirmed, phase
<1>4. Suppressed(s, chunk) = [s EXCEPT !.tail = fed.tail, !.phase = phase]
  BY DEF Suppressed, fed, confirmed, phase
<1>5. /\ Suppressed(s, chunk).tail = fed.tail /\ Suppressed(s, chunk).phase = phase
      /\ Suppressed(s, chunk).nonce = s.nonce /\ Suppressed(s, chunk).scratch = s.scratch
  BY <1>4 DEF SessionState
<1> QED
  BY <1>1, <1>2, <1>3, <1>5

\* The lines that were complete when the sentinel began hold nothing of the script.
LEMMA LinesSilent ==
  ASSUME NEW q, Sequence(q), NEW rest, Sequence(rest), NEW n, Opened(q \o rest, n),
         NEW at, at = Index(q, "sentinel", n), at > 0,
         NEW j \in DOMAIN CompleteLines(q, at)
  PROVE  ~OfScript(CompleteLines(q, at)[j])
<1> DEFINE here == {i \in 1..(Len(q) - 1) : q[i] = Piece("sentinel", n, 1)
                                             /\ q[i + 1] = Piece("sentinel", n, 2)}
           ends == {i \in DOMAIN q : i < at /\ q[i].k \in {"line", "rest"}}
           lines == {i \in DOMAIN q : \E e \in ends : i <= e}
           c == q \o rest
<1>1. Len(q) \in Nat /\ DOMAIN q = 1..Len(q)
  BY SequenceLength
<1>2. at \in here /\ \A i \in here : at <= i
  <2>0. at = IF here = {} THEN 0 ELSE CHOOSE i \in here : \A k \in here : i <= k
    BY DEF Index
  <2>2. here \subseteq Nat
    BY <1>1
  <2> HIDE DEF here
  <2>1. here # {} /\ at = CHOOSE i \in here : \A k \in here : i <= k
    BY <2>0
  <2>3. \E i \in here : \A k \in here : i <= k
    BY <2>1, <2>2, Least
  <2> QED
    BY <2>1, <2>3
<1>3. /\ Len(c) = Len(q) + Len(rest) /\ Len(rest) \in Nat
      /\ \A i \in 1..Len(q) : c[i] = q[i]
  BY JoinedPieces
<1>4. PICK i \in lines : CompleteLines(q, at)[j] = q[i]
  <2>1. CompleteLines(q, at) = Kept(q, lines)
    BY DEF CompleteLines
  <2>2. lines \subseteq DOMAIN q
    OBVIOUS
  <2> HIDE DEF lines
  <2> QED
    BY <2>1, <2>2, KeptFrom
<1>5. PICK e \in 1..Len(q) : e < at /\ q[e].k \in {"line", "rest"} /\ i <= e
  BY <1>1, <1>4
<1>6. i \in 1..Len(q) /\ at \in 1..(Len(q) - 1)
  BY <1>1, <1>2, <1>4
<1>7. Opened(c, n)
  OBVIOUS
<1> HIDE DEF c, lines, ends
<1> SUFFICES ASSUME OfScript(q[i]) PROVE FALSE
  BY <1>4
<1>8. PICK l \in 1..(Len(c) - 1) : /\ c[l] = Piece("sentinel", n, 1)
                                   /\ c[l + 1] = Piece("sentinel", n, 2)
                                   /\ \A k \in i..l : c[k].k \notin {"line", "rest"}
  <2>1. i \in 1..Len(c) /\ OfScript(c[i])
    BY <1>1, <1>3, <1>6
  <2> QED
    BY <1>7, <2>1 DEF Opened
<1>9. l < e
  BY <1>3, <1>5, <1>6, <1>8
<1>10. l \in 1..Len(q) /\ l + 1 \in 1..Len(q) /\ l \in 1..(Len(q) - 1) /\ l < at
  BY <1>1, <1>3, <1>5, <1>6, <1>8, <1>9
<1>11. l \in here
  BY <1>3, <1>8, <1>10
<1> HIDE DEF here
<1> QED
  BY <1>2, <1>6, <1>10, <1>11

LEMMA Divided ==
  ASSUME NEW s, Sequence(s), NEW n \in 1..(Len(s) + 1)
  PROVE  /\ s = SubSeq(s, 1, n - 1) \o SubSeq(s, n, Len(s))
         /\ Sequence(SubSeq(s, 1, n - 1)) /\ Sequence(SubSeq(s, n, Len(s)))
<1> DEFINE A == {s[i] : i \in 1..Len(s)}
<1>1. s \in Seq(A) /\ Len(s) \in Nat
  BY SequenceLength DEF Sequence
<1> HIDE DEF A
<1>2. SubSeq(s, 1, n - 1) \o SubSeq(s, (n - 1) + 1, Len(s)) = SubSeq(s, 1, Len(s))
  <2> DEFINE k == n - 1
  <2>1. 1 \in 1..(Len(s) + 1) /\ k \in (1 - 1)..Len(s) /\ Len(s) \in k..Len(s)
    BY <1>1
  <2> HIDE DEF k
  <2>2. SubSeq(s, 1, k) \o SubSeq(s, k + 1, Len(s)) = SubSeq(s, 1, Len(s))
    BY <1>1, <2>1, ConcatAdjacentSubSeq
  <2> QED
    BY <2>2 DEF k
<1>3. SubSeq(s, 1, Len(s)) = s
  BY <1>1, SubSeqFull
<1>4. (n - 1) + 1 = n
  OBVIOUS
<1>5. Sequence(SubSeq(s, 1, n - 1)) /\ Sequence(SubSeq(s, n, Len(s)))
  BY <1>1, Cutting
<1> QED
  BY <1>2, <1>3, <1>4, <1>5

ReadFrame == UNCHANGED <<scripts, typed, apc>>

\* A chunk that is read while nothing is withheld.
LEMMA CalmRead ==
  ASSUME IssuedInv, LiveInv, ~Booting, NEW chunk, Sequence(chunk), Sequence(wire'),
         wire = chunk \o wire', ReadFrame, st'.phase = st.phase, st'.scratch = st.scratch,
         HeldTail(st'.tail)
  PROVE  LiveInv' /\ Silent(chunk)
<1>1. Silent(wire) /\ ~Pending /\ st.scratch = <<>>
  BY DEF LiveInv, CalmInv, HeldInv, Booting
<1>2. /\ Silent(chunk) /\ Silent(wire')
      /\ Installs(wire, {}) => Installs(wire', {})
  BY <1>1, Parts
<1>3. HeldInv'
  BY <1>1, <1>2 DEF LiveInv, HeldInv, HeldTail
<1>4. CalmInv' /\ BootInv'
  BY <1>1, <1>2 DEF CalmInv, BootInv, Booting, Pending, ReadFrame
<1> QED
  BY <1>2, <1>3, <1>4 DEF LiveInv, ReadFrame, Unattached

\* What is read of q while the script is withheld.
LEMMA BootRead ==
  ASSUME IssuedInv, LiveInv, Booting, NEW q, Sequence(q), Sequence(wire'), Coming = q \o wire',
         ReadFrame, st'.phase \in {"active", "suppressing"}, st'.nonce = st.nonce,
         st'.scratch = <<>>, HeldTail(st'.tail),
         st'.phase = "active" => Confirmed(q, st.nonce)
  PROVE  LiveInv'
<1> DEFINE n == st.nonce
<1>1. /\ scripts \subseteq {n} /\ (scripts # {} => NoScript(typed))
      /\ OneScript(typed, n) /\ Closed(Coming, n)
      /\ Confirmed(Coming, n) => ~Pending
      /\ st.phase # "none" /\ ~Unattached
  BY DEF LiveInv, BootInv, Booting
<1>2. Coming' = wire'
  BY JoinsAlike DEF Coming
<1> HIDE DEF n
<1>3. /\ Closed(wire', n) /\ (Confirmed(q, n) => Silent(wire'))
      /\ Confirmed(q, n) => Confirmed(Coming, n)
      /\ Confirmed(wire', n) => Confirmed(Coming, n)
  BY <1>1, ClosedParts, Parts
<1>4. HeldInv'
  BY DEF HeldInv, HeldTail
<1>5. Pending' = Pending /\ (Booting' <=> st'.phase = "suppressing")
  BY DEF Pending, Booting, ReadFrame
<1>6. CalmInv'
  BY <1>1, <1>3, <1>5 DEF CalmInv, n
<1>7. BootInv'
  <2>1. Booting' => st'.phase # "waitingSentinel"
    BY <1>5
  <2>2. /\ st'.nonce = n /\ scripts' = scripts /\ typed' = typed
    BY DEF ReadFrame, n
  <2> QED
    BY <1>1, <1>2, <1>3, <1>5, <2>1, <2>2 DEF BootInv
<1> QED
  BY <1>1, <1>4, <1>6, <1>7 DEF LiveInv, ReadFrame, Unattached

\* A chunk changes no nonce, and begins no bootstrap.
LEMMA NonceKept ==
  ASSUME SessionState(st), NEW chunk
  PROVE  /\ StepOutput(chunk).st.nonce = st.nonce
         /\ st.phase = "none" => StepOutput(chunk).st.phase = "none"
<1>1. ASSUME NEW s, SessionState(s) PROVE Suppressed(s, chunk).nonce = s.nonce
  BY <1>1 DEF Suppressed, SessionState
<1>2. CASE st.phase = "waitingSentinel"
  <2> DEFINE scratch == st.scratch \o chunk
             at == Index(scratch, "sentinel", st.nonce)
             s == [st EXCEPT !.scratch = <<>>]
             late == SubSeq(scratch, at, Len(scratch))
  <2>1. SessionState(s) /\ s.nonce = st.nonce
    BY FewPieces DEF SessionState
  <2>2. Suppressed(s, late).nonce = s.nonce
    BY <2>1 DEF Suppressed, SessionState
  <2>3. \/ StepOutput(chunk).st = Suppressed(s, late)
        \/ StepOutput(chunk).st = [st EXCEPT !.scratch = <<>>, !.phase = "none"]
        \/ StepOutput(chunk).st = [st EXCEPT !.scratch = scratch]
    BY <1>2 DEF StepOutput, AwaitSentinel, Step
  <2> HIDE DEF scratch, s, late
  <2> QED
    BY <1>2, <2>1, <2>2, <2>3 DEF SessionState
<1>3. CASE st.phase = "suppressing"
  BY <1>1, <1>3 DEF StepOutput, Step
<1>4. CASE st.phase = "active"
  <2>1. StepOutput(chunk) = ParseActive(chunk)
    BY <1>4 DEF StepOutput
  <2>2. ParseActive(chunk).st.nonce = st.nonce
    BY DEF ParseActive, Step, SessionState
  <2> QED
    BY <1>4, <2>1, <2>2
<1>5. CASE st.phase \notin {"waitingSentinel", "suppressing", "active"}
  BY <1>5 DEF StepOutput, Step
<1> QED
  BY <1>2, <1>3, <1>4, <1>5

LEMMA ReadIssued ==
  ASSUME OutputInv, IssuedInv, PumpReads
  PROVE  IssuedInv' /\ rushed' = rushed
<1>1. PICK n \in 1..MaxChunk :
        /\ n <= Len(wire) /\ wire' = SubSeq(wire, n + 1, Len(wire))
        /\ \/ st' = StepOutput(SubSeq(wire, 1, n)).st
           \/ /\ st.phase = "waitingReady"
              /\ st' = [StepOutput(SubSeq(wire, 1, n)).st EXCEPT !.armed = TRUE]
  BY DEF PumpReads
<1>2. /\ SessionState(st) /\ scripts' = scripts /\ typed' = typed /\ calls' = calls
      /\ rushed' = rushed /\ Sequence(wire)
  BY DEF OutputInv, IssuedInv, PumpReads, sceneVars
<1>3. Sequence(wire') /\ wire = SubSeq(wire, 1, n) \o wire' /\ Sequence(SubSeq(wire, 1, n))
  <2>1. n + 1 \in 1..(Len(wire) + 1) /\ (n + 1) - 1 = n
    BY <1>1, <1>2, SequenceLength, ShellConstants
  <2> QED
    BY <1>1, <1>2, <2>1, Divided
<1> DEFINE chunk == SubSeq(wire, 1, n)
           s == StepOutput(chunk).st
<1>4. /\ s.nonce = st.nonce /\ (st.phase = "none" => s.phase = "none") /\ SessionState(s)
  BY <1>2, <1>3, NonceKept, StepPieces
<1>5. st' = s \/ st' = [s EXCEPT !.armed = TRUE]
  BY <1>1
<1> HIDE DEF s
<1>6. st'.nonce = st.nonce /\ (st'.phase # "none" => st.phase # "none")
  BY <1>4, <1>5 DEF SessionState
<1>7. Installs(wire', Used)
  <2> DEFINE N == Used
             w == wire'
  <2>1. Installs(chunk \o w, N) /\ Sequence(chunk) /\ Sequence(w)
    BY <1>3 DEF IssuedInv
  <2> HIDE DEF N, w, chunk
  <2>2. Installs(w, N)
    BY <2>1, Parts
  <2> QED
    BY <2>2 DEF N, w
<1>8. Used' = Used
  BY <1>2 DEF Used
<1> QED
  BY <1>2, <1>3, <1>6, <1>7, <1>8 DEF IssuedInv

LEMMA ReadStep ==
  ASSUME OutputInv, IssuedInv, LiveInv, PumpReads, ~leaked
  PROVE  ~leaked' /\ (Without' \/ LiveInv')
<1>1. PICK n \in 1..MaxChunk :
        /\ n <= Len(wire) /\ wire' = SubSeq(wire, n + 1, Len(wire))
        /\ \/ st' = StepOutput(SubSeq(wire, 1, n)).st
           \/ /\ st.phase = "waitingReady"
              /\ st' = [StepOutput(SubSeq(wire, 1, n)).st EXCEPT !.armed = TRUE]
        /\ leaked' = (leaked \/ /\ StepOutput(SubSeq(wire, 1, n)).st.phase # "none"
                                /\ \E i \in DOMAIN StepOutput(SubSeq(wire, 1, n)).rendered :
                                     OfScript(StepOutput(SubSeq(wire, 1, n)).rendered[i]))
  BY DEF PumpReads
<1> DEFINE chunk == SubSeq(wire, 1, n)
           step == StepOutput(chunk)
<1>2. /\ SessionState(st) /\ ReadFrame /\ pump = "idle"
      /\ Sequence(wire) /\ HeldTail(st.tail)
  BY DEF OutputInv, PumpReads, IssuedInv, LiveInv, HeldInv, HeldTail, ReadFrame
<1>3. Sequence(chunk) /\ Sequence(wire') /\ wire = chunk \o wire'
  <2>1. n + 1 \in 1..(Len(wire) + 1) /\ (n + 1) - 1 = n
    BY <1>1, <1>2, SequenceLength, ShellConstants
  <2> QED
    BY <1>1, <1>2, <2>1, Divided
<1> HIDE DEF chunk
<1>4. /\ \/ st' = step.st
         \/ st.phase = "waitingReady" /\ st' = [step.st EXCEPT !.armed = TRUE]
      /\ leaked' => /\ step.st.phase # "none"
                    /\ \E i \in DOMAIN step.rendered : OfScript(step.rendered[i])
  BY <1>1 DEF chunk
<1>5. CASE st.phase \notin {"active", "suppressing", "waitingSentinel"}
  <2>1. step.st = st /\ step.rendered = chunk
    BY <1>5 DEF StepOutput, Step
  <2> HIDE DEF step
  <2>2. st'.phase = st.phase /\ st'.scratch = st.scratch /\ st'.tail = st.tail
    BY <1>2, <1>4, <2>1 DEF SessionState
  <2>3. ~Booting
    BY <1>5 DEF Booting
  <2>4. LiveInv' /\ Silent(chunk)
    BY <1>2, <1>3, <2>2, <2>3, CalmRead
  <2>5. DOMAIN chunk = 1..Len(chunk)
    BY <1>3, SequenceLength
  <2> QED
    BY <1>4, <2>1, <2>4, <2>5 DEF Silent
<1>6. CASE st.phase = "active"
  <2> DEFINE fed == Feed(st.tail, chunk)
  <2>1. /\ HeldTail(fed.tail)
        /\ \A j \in DOMAIN fed.rendered : \E i \in 1..Len(chunk) : fed.rendered[j] = chunk[i]
    BY <1>2, <1>3, FedFrom DEF SessionState
  <2>2. step = ParseActive(chunk)
    BY <1>6 DEF StepOutput
  <2>3. /\ step.rendered = fed.rendered /\ step.st.tail = fed.tail
        /\ step.st.phase = st.phase /\ step.st.nonce = st.nonce
        /\ step.st.scratch = st.scratch
    <3>1. /\ step.rendered = fed.rendered
          /\ \E a, b, c : step.st = [st EXCEPT !.tail = fed.tail, !.altTail = a,
                                               !.atPrompt = b, !.inAltScreen = c]
      <4> DEFINE seen == st.altTail \o fed.rendered
                 enters == Contains(seen, "enter") /\ ~st.inAltScreen
                 in == st.inAltScreen \/ enters
                 exits == Contains(seen, "exit") /\ in
                 told == Kept(fed.events, {i \in DOMAIN fed.events : fed.events[i].k \in {"done", "probe"}})
                 a == Beginning(seen, Screens)
                 b == AtPromptAfter(st.atPrompt, fed.events)
                 c == in /\ ~exits
                 new == [st EXCEPT !.tail = fed.tail, !.altTail = a, !.atPrompt = b, !.inAltScreen = c]
                 what == told \o (IF enters THEN <<Piece("enter", None, 2)>> ELSE <<>>)
                              \o (IF exits THEN <<Piece("exit", None, 2)>> ELSE <<>>)
      <4>1. step = Step(new, fed.rendered, what)
        BY <2>2, Zenon DEF ParseActive
      <4> HIDE DEF step, fed, a, b, c, what
      <4> QED
        BY <4>1 DEF Step
    <3> HIDE DEF step, fed
    <3> QED
      BY <1>2, <3>1 DEF SessionState
  <2>4. st' = step.st
    BY <1>4, <1>6
  <2> HIDE DEF step, fed
  <2>5. ~Booting
    BY <1>6 DEF Booting
  <2>6. LiveInv' /\ Silent(chunk)
    BY <1>2, <1>3, <2>1, <2>3, <2>4, <2>5, CalmRead
  <2> QED
    BY <1>4, <2>1, <2>3, <2>6 DEF Silent
<1>7. CASE st.phase = "suppressing"
  <2>1. step.st = Suppressed(st, chunk) /\ step.rendered = <<>>
    BY <1>7 DEF StepOutput, Step
  <2>2. st' = Suppressed(st, chunk)
    BY <1>4, <1>7, <2>1
  <2>3. DOMAIN <<>> = {}
    OBVIOUS
  <2>4. ~leaked'
    BY <1>4, <2>1, <2>3
  <2>5. Booting /\ st.scratch = <<>>
    BY <1>7 DEF Booting, LiveInv, HeldInv
  <2>6. Coming = chunk \o wire'
    BY <1>2, <1>3, <2>5, JoinsAlike DEF Coming
  <2>7. /\ HeldTail(st'.tail) /\ st'.nonce = st.nonce /\ st'.scratch = <<>>
        /\ st'.phase \in {"active", "suppressing"}
        /\ st'.phase = "active" => Confirmed(chunk, st.nonce)
    BY <1>2, <1>3, <2>2, <2>5, Confirming
  <2> QED
    BY <1>2, <1>3, <2>4, <2>5, <2>6, <2>7, BootRead
<1>8. CASE st.phase = "waitingSentinel"
  <2> DEFINE q == st.scratch \o chunk
             at == Index(q, "sentinel", st.nonce)
  <2>1. Booting /\ Opened(Coming, st.nonce)
    BY <1>8 DEF Booting, LiveInv, BootInv
  <2>2. Sequence(q) /\ Coming = q \o wire'
    <3> DEFINE a == st.scratch
               w == wire'
    <3>1. Sequence(a) /\ Sequence(chunk) /\ Sequence(w)
      BY <1>2, <1>3 DEF SessionState
    <3> HIDE DEF a, w
    <3>2. (a \o chunk) \o w = a \o (chunk \o w) /\ Sequence(a \o chunk)
      BY ONLY <3>1, JoinsAlike, Joined
    <3> QED
      BY <1>3, <3>2 DEF a, w, Coming
  <2>3. step = AwaitSentinel(chunk) /\ st' = step.st
    BY <1>4, <1>8 DEF StepOutput
  <2>4. DOMAIN <<>> = {}
    OBVIOUS
  <2>5. CASE at > 0
    <3> DEFINE s == [st EXCEPT !.scratch = <<>>]
               late == SubSeq(q, at, Len(q))
    <3>1. /\ step.st = Suppressed(s, late)
          /\ step.rendered = IF kind = "bash" THEN <<>> ELSE CompleteLines(q, at)
      BY <2>3, <2>5 DEF AwaitSentinel, Step
    <3>2. SessionState(s) /\ HeldTail(s.tail) /\ s.nonce = st.nonce /\ s.scratch = <<>>
      BY <1>2, FewPieces DEF SessionState
    <3>3. at \in 1..(Len(q) + 1)
      <4> DEFINE here == {i \in 1..(Len(q) - 1) : q[i] = Piece("sentinel", st.nonce, 1)
                                                  /\ q[i + 1] = Piece("sentinel", st.nonce, 2)}
      <4>1. at = IF here = {} THEN 0 ELSE CHOOSE i \in here : \A k \in here : i <= k
        BY DEF Index
      <4>2. here \subseteq Nat /\ here \subseteq 1..(Len(q) + 1)
        BY <2>2, SequenceLength
      <4> HIDE DEF here, at
      <4>3. here # {} /\ at = CHOOSE i \in here : \A k \in here : i <= k
        BY <2>5, <4>1
      <4>4. \E i \in here : \A k \in here : i <= k
        BY <4>2, <4>3, Least
      <4> QED
        BY <4>2, <4>3, <4>4
    <3> HIDE DEF q, at, s
    <3>4. /\ q = SubSeq(q, 1, at - 1) \o late /\ Sequence(SubSeq(q, 1, at - 1)) /\ Sequence(late)
      BY <2>2, <3>3, Divided
    <3> HIDE DEF late
    <3>5. /\ HeldTail(st'.tail) /\ st'.nonce = st.nonce /\ st'.scratch = <<>>
          /\ st'.phase \in {"active", "suppressing"}
          /\ st'.phase = "active" => Confirmed(late, st.nonce)
      BY <2>3, <3>1, <3>2, <3>4, Confirming
    <3>6. Confirmed(late, st.nonce) => Confirmed(q, st.nonce)
      <4> DEFINE early == SubSeq(q, 1, at - 1)
                 m == st.nonce
      <4>1. Sequence(early) /\ Sequence(late) /\ q = early \o late
        BY <3>4
      <4> HIDE DEF early, m
      <4>2. Confirmed(late, m) => Confirmed(early \o late, m)
        BY ONLY <4>1, Parts
      <4> QED
        BY <4>1, <4>2 DEF m
    <3>7. LiveInv'
      BY <1>2, <1>3, <2>1, <2>2, <3>5, <3>6, BootRead
    <3>8. ASSUME NEW j \in DOMAIN CompleteLines(q, at) PROVE ~OfScript(CompleteLines(q, at)[j])
      BY <1>3, <2>1, <2>2, <2>5, LinesSilent DEF at
    <3>9. ~leaked'
      BY <1>4, <2>4, <3>1, <3>8
    <3> QED
      BY <3>7, <3>9
  <2>6. CASE ~(at > 0) /\ Len(q) > MaxWait
    <3>1. step.st = [st EXCEPT !.scratch = <<>>, !.phase = "none"]
      BY <2>3, <2>6 DEF AwaitSentinel, Step
    <3>2. step.st.phase = "none" /\ st'.phase = "none"
      BY <1>2, <2>3, <3>1 DEF SessionState
    <3>3. apc' = "done"
      BY <1>2 DEF OutputInv, ReadFrame
    <3> QED
      BY <1>4, <3>2, <3>3 DEF Without
  <2>7. CASE ~(at > 0) /\ ~(Len(q) > MaxWait)
    <3>1. step.st = [st EXCEPT !.scratch = q] /\ step.rendered = <<>>
      BY <2>3, <2>7 DEF AwaitSentinel, Step
    <3>2. ~leaked'
      BY <1>4, <2>4, <3>1
    <3>3. /\ st'.phase = st.phase /\ st'.nonce = st.nonce /\ st'.tail = st.tail
          /\ st'.scratch = q
      BY <1>2, <2>3, <3>1 DEF SessionState
    <3>4. Coming' = Coming
      BY <2>2, <3>3 DEF Coming
    <3>5. Pending' = Pending /\ Booting' /\ Booting
      BY <1>2, <1>8, <3>3 DEF Pending, Booting, ReadFrame
    <3>6. HeldInv'
      BY <1>8, <3>3 DEF LiveInv, HeldInv
    <3>7. CalmInv' /\ BootInv'
      BY <1>2, <3>3, <3>4, <3>5 DEF LiveInv, CalmInv, BootInv, ReadFrame
    <3> QED
      BY <1>2, <3>2, <3>3, <3>6, <3>7 DEF LiveInv, ReadFrame, Unattached
  <2> QED
    BY <2>5, <2>6, <2>7
<1> QED
  BY <1>5, <1>6, <1>7, <1>8

(* ----------------------------- the other steps ------------------------- *)

\* Nothing that the invariant looks at, except that output may be added.
AloneFrame == UNCHANGED <<st, scripts, calls>> /\ (Unattached' => Unattached)

LEMMA AloneStep ==
  ASSUME OutputInv, IssuedInv, AloneFrame, typed' = typed,
         NEW w, Plain(w), wire' = wire \o w \/ wire' = wire
  PROVE  Stays
<1>1. SessionState(st) /\ Sequence(typed') /\ Scripts(typed', Used) /\ SameHold
      /\ scripts' = scripts /\ calls' = calls
  BY DEF OutputInv, IssuedInv, SameHold, AloneFrame
<1> QED
  BY <1>1, PlainStep DEF AloneFrame

\* What a shell prints for a command.
LEMMA CommandPieces ==
  ASSUME NEW hooked, NEW c
  PROVE  /\ Plain(<<Line>> \o Prompt(hooked)) /\ Plain(<<LineOf(c)>>)
         /\ Plain(Unit("enter", None)) /\ Plain(Unit("exit", None))
         /\ Plain(<<LineOf(c)>> \o Prompt(hooked)) /\ Plain(Unit("exit", None) \o Prompt(hooked))
         /\ Plain(Started(hooked) \o <<LineOf(c)>>) /\ Plain(Started(hooked) \o Unit("enter", None))
         /\ Plain(Started(hooked) \o Unit("probe", c) \o Prompt(hooked))
         /\ Plain(Started(hooked) \o <<Line>> \o Prompt(hooked))
<1>1. /\ Plain(<<LineOf(c)>>) /\ Plain(Unit("enter", None)) /\ Plain(Unit("exit", None))
      /\ Plain(Unit("probe", c))
  BY PlainPiece, PlainUnit DEF LineOf
<1>2. Plain(<<Line>>) /\ Plain(Prompt(hooked)) /\ Plain(Started(hooked))
  BY PlainPrompt
<1>3. Plain(Started(hooked) \o Unit("probe", c)) /\ Plain(Started(hooked) \o <<Line>>)
  BY <1>1, <1>2, PlainJoin
<1> QED
  BY <1>1, <1>2, <1>3, PlainJoin

LEMMA ShellStep ==
  ASSUME OutputInv, IssuedInv, Outside
  PROVE  Stays
<1>1. UNCHANGED <<st, scripts, apc, calls>> /\ AloneFrame
  BY DEF Outside, ShellStarts, ShellReads, CommandFinishes, ShellIsReplaced, ShellExits, sceneVars,
         AloneFrame, Unattached
<1>2. ASSUME NEW w, Plain(w), Prints(w), typed' = typed PROVE Stays
  BY <1>1, <1>2, AloneStep DEF Prints
<1>3. CASE ShellStarts
  BY <1>2, <1>3, CommandPieces DEF ShellStarts
<1>4. CASE CommandFinishes
  <2>1. Plain((IF shell.at \in FullScreen THEN Unit("exit", None) ELSE <<LineOf(shell.at)>>)
              \o Prompt(shell.hooked))
    BY CommandPieces
  <2> QED
    BY <1>2, <1>4, <2>1 DEF CommandFinishes
<1>5. CASE ShellIsReplaced
  BY <1>2, <1>5, PlainPrompt DEF ShellIsReplaced
<1>6. CASE ShellExits
  BY <1>1, <1>6, OnePlain, AloneStep DEF ShellExits
<1>7. CASE ShellReads
  <2>1. /\ typed # <<>> /\ typed' = Tail(typed) /\ SessionState(st) /\ Sequence(typed)
    BY <1>7 DEF ShellReads, OutputInv, IssuedInv
  <2>2. /\ Sequence(typed') /\ Scripts(typed', Used) /\ (NoScript(typed) => NoScript(typed'))
        /\ \A n : OneScript(typed, n) => OneScript(typed', n)
    BY <2>1, InputRead DEF IssuedInv
  <2>3. ASSUME NEW w, Plain(w), Prints(w) PROVE Stays
    BY <1>1, <2>1, <2>2, <2>3, PlainStep DEF Prints, SameHold, Unattached
  <2>4. CASE Head(typed).k = "script" /\ RunsScript(Head(typed).of)
    BY <1>1, <2>1, <2>4, RunsStep
  <2>5. CASE RunsProbe(Head(typed).of)
    BY <2>3, <2>5, CommandPieces DEF RunsProbe
  <2>6. CASE RunsCommand(Head(typed).of)
    <3> DEFINE c == Head(typed).of
    <3>1. Plain(Started(shell.hooked)
                \o IF c \in FullScreen THEN Unit("enter", None) ELSE <<LineOf(c)>>)
      BY CommandPieces
    <3> QED
      BY <2>3, <2>6, <3>1 DEF RunsCommand
  <2>7. CASE RunsBg
    BY <2>3, <2>7, CommandPieces DEF RunsBg
  <2> QED
    BY <1>7, <2>4, <2>5, <2>6, <2>7 DEF ShellReads
<1> QED
  BY <1>3, <1>4, <1>5, <1>6, <1>7 DEF Outside

\* Input that is not a script.
LEMMA InputStep ==
  ASSUME OutputInv, IssuedInv, AloneFrame, NEW k, k # "script", NEW of,
         Receives(k, of) \/ UNCHANGED shellVars
  PROVE  Stays
<1>1. /\ SessionState(st) /\ Sequence(typed) /\ SameHold /\ scripts' = scripts /\ calls' = calls
      /\ wire' = wire
  BY DEF OutputInv, IssuedInv, AloneFrame, SameHold, Receives, shellVars
<1>2. CASE Receives(k, of)
  <2>1. /\ Sequence(typed') /\ Scripts(typed', Used) /\ (NoScript(typed) => NoScript(typed'))
        /\ \A n : OneScript(typed, n) => OneScript(typed', n)
    BY <1>1, <1>2, InputAdded DEF Receives, IssuedInv
  <2> QED
    BY <1>1, <2>1, OnePlain, PlainStep DEF AloneFrame
<1>3. CASE UNCHANGED shellVars
  BY <1>1, <1>3, OnePlain, AloneStep DEF shellVars
<1> QED
  BY <1>2, <1>3

\* The steps of the calls, and those of the pump once it has read.
Calling ==
  \/ CallSteps \/ (\E q \in Queries : Query(q)) \/ (\E c \in Commands : WriteCommand(c))
  \/ (\E r \in Runs : Arm(r))
  \/ (\E b \in Suspends : Suspend(b) \/ TypeBg(b) \/ ToBackground(b)
                             \/ EndInBackground(b))
HandingOn ==
  \/ RouteProbe \/ SendReply \/ SessionEnds
  \/ OnCommandEnd \/ EndCapture \/ OnAltScreen \/ Tap \/ DetachTaps
  \/ UNCHANGED vars

LEMMA CallsStep ==
  ASSUME OutputInv, IssuedInv, Calling
  PROVE  Stays /\ UNCHANGED <<st, apc, leaked, rushed>>
<1>1. AloneFrame /\ UNCHANGED <<st, apc, leaked, rushed>>
  BY DEF Calling, CallSteps, QuerySteps, Query, Register, WriteProbe, ReplyArrives, ContextEnds,
         ForgetProbe, QueryFrame, WriteCommand, Arm, Suspend, TypeBg, ToBackground,
         EndInBackground,
         CallFrame, pumpVars, sceneVars, AloneFrame, Unattached
<1>2. CASE UNCHANGED <<typed, wire>>
  BY <1>1, <1>2, OnePlain, AloneStep
<1>3. CASE \E q \in Queries : WriteProbe(q)
  BY <1>1, <1>3, InputStep DEF WriteProbe
<1>4. CASE \E c \in Commands : WriteCommand(c)
  BY <1>1, <1>4, InputStep DEF WriteCommand
<1>5. CASE \E b \in Suspends : Suspend(b)
  <2>1. typed' = typed /\ (wire' = wire \/ wire' = wire \o (<<Line>> \o Prompt(shell.hooked)))
    BY <1>5 DEF Suspend, Prints
  <2> QED
    BY <1>1, <2>1, CommandPieces, AloneStep
<1>6. CASE \E b \in Suspends : TypeBg(b)
  BY <1>1, <1>6, InputStep DEF TypeBg
<1> QED
  BY <1>1, <1>2, <1>3, <1>4, <1>5, <1>6
     DEF Calling, CallSteps, QuerySteps, Query, Register, ReplyArrives, ContextEnds, ForgetProbe,
         QueryFrame, Arm, ToBackground, EndInBackground, CallFrame, shellVars

LEMMA HandStep ==
  ASSUME OutputInv, IssuedInv, HandingOn
  PROVE  Stays /\ UNCHANGED <<st, apc, leaked, rushed>>
<1>1. AloneFrame /\ UNCHANGED <<st, apc, leaked, rushed, typed, wire>>
  BY DEF HandingOn, RouteProbe, SendReply, SessionEnds, OnCommandEnd, EndCapture, OnAltScreen, Tap,
         DetachTaps, Next1, NoteFrame, shellVars, sceneVars, pumpVars, vars, integrationVars,
         AloneFrame, Unattached
<1> QED
  BY <1>1, OnePlain, AloneStep

LEMMA InjectStep ==
  ASSUME OutputInv, IssuedInv, Outside \/ Injects
  PROVE  /\ Stays /\ UNCHANGED <<leaked, rushed>>
         /\ Without => Without'
<1>1. Stays
  BY ShellStep, AttachStep, FireStep, WriteStep DEF Injects
<1>2. UNCHANGED <<leaked, rushed>>
  BY DEF Outside, ShellStarts, ShellReads, CommandFinishes, ShellIsReplaced, ShellExits, Injects,
         Attach, BeginBootstrap, TimerExpires, FireReady, WriteScript, pumpVars, sceneVars
<1>3. ASSUME Without PROVE Without'
  <2>1. SessionState(st) /\ apc = "done" /\ st.phase = "none"
    BY <1>3 DEF OutputInv, Without
  <2>2. apc' = "done" /\ st'.phase = "none"
    BY <2>1 DEF Outside, ShellStarts, ShellReads, CommandFinishes, ShellIsReplaced, ShellExits,
                Injects, Attach, BeginBootstrap, TimerExpires, FireReady, WriteScript, SessionState
  <2> QED
    BY <2>2 DEF Without
<1> QED
  BY <1>1, <1>2, <1>3

LEMMA InitShown == Init => ShownInv
<1> SUFFICES ASSUME Init PROVE ShownInv
  OBVIOUS
<1>1. /\ typed = <<>> /\ wire = <<>> /\ st = Fields("none", None) /\ scripts = {} /\ leaked = FALSE
  BY DEF Init, IntegrationInit
<1>2. /\ st.phase = "none" /\ st.scratch = <<>> /\ st.tail = <<>>
  BY <1>1 DEF Fields
<1>3. Sequence(<<>>) /\ \A i \in 1..Len(<<>>) : FALSE
  BY FewPieces
<1>4. IssuedInv
  BY <1>1, <1>2, <1>3 DEF IssuedInv, Installs, Scripts
<1>5. HeldInv /\ CalmInv /\ BootInv
  BY <1>1, <1>2, <1>3 DEF HeldInv, HeldTail, Installs, CalmInv, BootInv, Booting, Pending, Silent,
                          NoScript
<1> QED
  BY <1>1, <1>2, <1>4, <1>5 DEF ShownInv, LiveInv

LEMMA NextShown == OutputInv /\ ShownInv /\ [Next]_vars => ShownInv'
<1> SUFFICES ASSUME OutputInv, ShownInv, [Next]_vars PROVE ShownInv'
  OBVIOUS
<1>1. IssuedInv
  BY DEF ShownInv
<1>2. CASE Stays /\ UNCHANGED <<leaked, rushed>> /\ (Without => Without')
  BY <1>2 DEF ShownInv, Stays
<1>3. CASE Calling \/ HandingOn
  <2>1. Stays /\ UNCHANGED <<st, apc, leaked, rushed>>
    BY <1>1, <1>3, CallsStep, HandStep
  <2> QED
    BY <1>2, <2>1 DEF Without
<1>4. CASE Outside \/ Injects
  BY <1>1, <1>2, <1>4, InjectStep
<1>5. CASE PumpReads
  <2>1. IssuedInv' /\ rushed' = rushed
    BY <1>1, <1>5, ReadIssued
  <2>2. CASE rushed
    BY <2>1, <2>2 DEF ShownInv
  <2>3. CASE ~leaked /\ Without
    <3>1. SessionState(st) /\ apc = "done" /\ st.phase = "none"
      BY <2>3 DEF OutputInv, Without
    <3>2. ASSUME NEW chunk PROVE StepOutput(chunk).st = st
      BY <3>1 DEF StepOutput, Step
    <3>3. apc' = "done" /\ st'.phase = "none" /\ ~leaked'
      BY <1>5, <2>3, <3>1, <3>2 DEF PumpReads
    <3> QED
      BY <2>1, <3>3 DEF ShownInv, Without
  <2>4. CASE ~leaked /\ LiveInv
    BY <1>1, <1>5, <2>1, <2>4, ReadStep DEF ShownInv
  <2> QED
    BY <2>2, <2>3, <2>4 DEF ShownInv
<1>6. CASE Detach
  <2>1. /\ SessionState(st) /\ apc = "done"
        /\ UNCHANGED <<wire, typed, scripts, calls, apc, leaked, rushed>>
    BY <1>6 DEF Detach, OutputInv, shellVars, sceneVars
  <2>2. st'.phase = "none"
    BY <1>6, <2>1 DEF Detach, SessionState
  <2>3. IssuedInv' /\ Without'
    BY <1>1, <2>1, <2>2 DEF IssuedInv, Used, Without
  <2> QED
    BY <2>1, <2>3 DEF ShownInv
<1>7. CASE \E n \in Reinjects : Reinject(n)
  <2>1. IssuedInv' /\ (rushed' \/ LiveInv') /\ leaked' = leaked
    BY <1>1, <1>7, ReinjectStep
  <2>2. rushed => rushed'
    BY <1>7 DEF Reinject
  <2> QED
    BY <2>1, <2>2 DEF ShownInv
<1> QED
  BY <1>3, <1>4, <1>5, <1>6, <1>7 DEF Next, PumpSteps, Calling, HandingOn

\* Nothing of a hook script is shown while it is being installed, whatever the chunks,
\* whoever writes the script, in whatever phase the hooks are injected anew, and
\* whether or not the terminal echoes the script before the shell reads it
\* (stepLocked, Reinject, WriteRaw); unless Reinject is called before an earlier
\* script is done with.
THEOREM NotShown == Spec => []ScriptNotShown
<1>1. IInv => OutputInv
  BY DEF IInv
<1>2. ShownInv => ScriptNotShown
  BY DEF ShownInv, ScriptNotShown
<1> QED
  BY <1>1, <1>2, Inductive, InitShown, NextShown, PTL DEF Spec
=============================================================================
