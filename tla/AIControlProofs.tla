-------------------------- MODULE AIControlProofs --------------------------
(* Theorems about AIControl for any number of clients, sessions and calls.  *)
EXTENDS AIControl, TLAPS

\* The type invariant of the service: maps, locals and approvals.
THEOREM TypeCorrect == Spec => []TypeOK
<1>1. Init => TypeOK
  BY DEF Init, TypeOK, Answers, Decisions, PCs, DelegationStates, HandleStates
<1>2. TypeOK /\ [Next]_vars => TypeOK'
  <2> SUFFICES ASSUME TypeOK, [Next]_vars PROVE TypeOK'
    OBVIOUS
  <2> USE OpsAssumption DEF TypeOK, Answers, Decisions, PCs, DelegationStates, HandleStates
  <2>1. ASSUME NEW c \in Calls, Request(c) PROVE TypeOK'
    <3>1. ASSUME NEW k \in Clients, ConnectHost(c, k) PROVE TypeOK'
      BY <3>1 DEF ConnectHost, Begin, Await, Waive, ctlVars, cmdVars
    <3>2. ASSUME NEW k \in Clients, NEW s \in Sessions, RequestControl(c, k, s) PROVE TypeOK'
      BY <3>2 DEF RequestControl, Begin, Await, ctlVars, cmdVars
    <3>3. ASSUME NEW k \in Clients, NEW s \in Sessions, ReleaseControl(c, k, s) PROVE TypeOK'
      BY <3>3 DEF ReleaseControl, Begin, HeldBy, gateVars, ctlVars, cmdVars
    <3>4. ASSUME NEW k \in Clients, NEW s \in Sessions, RunCommand(c, k, s) PROVE TypeOK'
      BY <3>4 DEF RunCommand, Begin, Await, Waive, ctlVars, cmdVars
    <3>5. ASSUME NEW k \in Clients, NEW s \in Sessions, BackgroundCommand(c, k, s) PROVE TypeOK'
      BY <3>5 DEF BackgroundCommand, Begin, InFlight, gateVars, ctlVars, cmdVars
    <3>6. ASSUME NEW s \in Sessions, KillControl(c, s) PROVE TypeOK'
      BY <3>6 DEF KillControl, Begin, gateVars
    <3>7. QED
      BY <2>1, <3>1, <3>2, <3>3, <3>4, <3>5, <3>6 DEF Request
  <2>2. ASSUME NEW c \in Calls, Proceed(c) PROVE TypeOK'
    <3>1. CASE TakeYes(c)
      BY <3>1 DEF TakeYes, Goto, Leave, AfterYes, ctlVars, cmdVars
    <3>2. CASE TakeNo(c)
      BY <3>2 DEF TakeNo, Goto, Leave, Record, ctlVars, cmdVars
    <3>3. CASE ApprovalTimeout(c)
      BY <3>3 DEF ApprovalTimeout, Goto, Leave, Record, ctlVars, cmdVars
    <3>4. CASE CreateSSH(c)
      BY <3>4 DEF CreateSSH, Goto, gateVars, ctlVars, cmdVars
    <3>5. CASE Grant(c)
      BY <3>5 DEF Grant, Goto, gateVars, cmdVars
    <3>6. CASE ReleaseTransition(c)
      BY <3>6 DEF ReleaseTransition, Goto, gateVars, cmdVars
    <3>7. CASE ReleaseDelete(c)
      BY <3>7 DEF ReleaseDelete, Goto, gateVars, cmdVars
    <3>8. CASE KillCleanup(c)
      BY <3>8 DEF KillCleanup, Goto, gateVars, ctlVars, cmdVars
    <3>9. CASE RecordDecision(c)
      BY <3>9 DEF RecordDecision, Goto, Record, gateVars, ctlVars, cmdVars
    <3>10. CASE Inject(c)
      BY <3>10 DEF Inject, Goto, gateVars, ctlVars, cmdVars
    <3>11. CASE Arm(c)
      BY <3>11 DEF Arm, Goto, gateVars
    <3>12. CASE Suspend(c)
      BY <3>12 DEF Suspend, Goto, gateVars, ctlVars, cmdVars
    <3>13. CASE Park(c)
      BY <3>13 DEF Park, Goto, InFlight, gateVars, ctlVars
    <3>14. QED
      BY <2>2, <3>1, <3>2, <3>3, <3>4, <3>5, <3>6, <3>7, <3>8, <3>9, <3>10, <3>11,
         <3>12, <3>13 DEF Proceed
  <2>3. ASSUME NEW c \in Calls, Respond(c) PROVE TypeOK'
    BY <2>3 DEF Respond, LookUpApproval, SendAnswer, callVars, ctlVars, cmdVars
  <2>4. CASE Surroundings
    <3>1. CASE SweepExpired
      BY <3>1 DEF SweepExpired, callVars, gateVars, cmdVars
    <3>2. ASSUME NEW d \in Calls, BecomeIdle(d) PROVE TypeOK'
      BY <3>2 DEF BecomeIdle, callVars, gateVars, cmdVars
    <3>3. ASSUME NEW s \in Sessions,
                 OnCommandEnd(s) \/ OnAltScreen(s, TRUE) \/ OnAltScreen(s, FALSE)
          PROVE TypeOK'
      BY <3>3 DEF OnCommandEnd, OnAltScreen, Transition, callVars, gateVars, ctlVars
    <3>4. ASSUME NEW s \in Sessions, OpenSession(s) \/ CloseSession(s) PROVE TypeOK'
      BY <3>4 DEF OpenSession, CloseSession, callVars, gateVars, ctlVars, cmdVars
    <3>5. QED
      BY <2>4, <3>1, <3>2, <3>3, <3>4 DEF Surroundings
  <2>5. CASE UNCHANGED vars
    BY <2>5 DEF vars, callVars, gateVars, ctlVars, cmdVars
  <2>6. QED
    BY <2>1, <2>2, <2>3, <2>4, <2>5 DEF Next
<1>3. QED
  BY <1>1, <1>2, PTL DEF Spec
-----------------------------------------------------------------------------
(* Consent.  OnlyConsented and AuditBeforeInjection are not inductive: they  *)
(* rest on what the channel, the locals of a call and its place in the       *)
(* pipeline say about each other.                                            *)

\* Where a call can only be with a decision in its favour.
Beyond == {"grant", "connect", "record", "write", "arm", "granted"}

ChannelInv ==
  \A c \in Calls :
    /\ pc[c] \in {"idle", "await"} => decision[c] = "none"
    /\ decision[c] = "none" =>
         chan[c] = IF first[c] = "none" THEN "empty" ELSE first[c]
    /\ decision[c] = "yes" => first[c] = "yes"
    /\ c \in pending => pc[c] = "await"
    /\ \A a \in Answers : <<c, a>> \in answering => pc[c] = "await" \/ decision[c] # "none"

PipelineInv ==
  \A c \in Calls :
    /\ pc[c] \in Beyond => decision[c] \in Authorised
    /\ pc[c] \in {"record", "write", "arm"} => op[c] = "RunCommand"
    /\ pc[c] = "await" => op[c] \in {"RequestControl", "ConnectHost", "RunCommand"}
    /\ pc[c] \in {"write", "arm"} => audit[c] \in {decision[c], "dropped"}
    /\ c \in injected =>
         /\ pc[c] \in {"arm", "done"}
         /\ decision[c] \in Authorised
         /\ audit[c] \in {decision[c], "dropped"}

ConsentInv == ChannelInv /\ PipelineInv

LEMMA ConsentInit == Init => ConsentInv
BY DEF Init, ConsentInv, ChannelInv, PipelineInv, Beyond, Answers

LEMMA ConsentStep == TypeOK /\ ConsentInv /\ [Next]_vars => ConsentInv'
<1> SUFFICES ASSUME TypeOK, ConsentInv, [Next]_vars PROVE ConsentInv'
  OBVIOUS
<1> USE DEF TypeOK, ConsentInv, ChannelInv, PipelineInv, Beyond, Authorised, Answers,
            Decisions, PCs, callVars, gateVars, ctlVars, cmdVars
<1>1. ASSUME NEW c \in Calls, Request(c) PROVE ConsentInv'
  <2>1. ASSUME NEW k \in Clients, ConnectHost(c, k) PROVE ConsentInv'
    BY <2>1 DEF ConnectHost, Begin, Await, Waive
  <2>2. ASSUME NEW k \in Clients, NEW s \in Sessions, RequestControl(c, k, s) PROVE ConsentInv'
    BY <2>2 DEF RequestControl, Begin, Await
  <2>3. ASSUME NEW k \in Clients, NEW s \in Sessions, ReleaseControl(c, k, s) PROVE ConsentInv'
    BY <2>3 DEF ReleaseControl, Begin
  <2>4. ASSUME NEW k \in Clients, NEW s \in Sessions, RunCommand(c, k, s) PROVE ConsentInv'
    BY <2>4 DEF RunCommand, Begin, Await, Waive
  <2>5. ASSUME NEW k \in Clients, NEW s \in Sessions, BackgroundCommand(c, k, s)
        PROVE ConsentInv'
    BY <2>5 DEF BackgroundCommand, Begin
  <2>6. ASSUME NEW s \in Sessions, KillControl(c, s) PROVE ConsentInv'
    BY <2>6 DEF KillControl, Begin
  <2>7. QED
    BY <1>1, <2>1, <2>2, <2>3, <2>4, <2>5, <2>6 DEF Request
<1>2. ASSUME NEW c \in Calls, Proceed(c) PROVE ConsentInv'
  <2>1. CASE TakeYes(c)
    BY <2>1 DEF TakeYes, Goto, Leave, AfterYes
  <2>2. CASE TakeNo(c)
    BY <2>2 DEF TakeNo, Goto, Leave, Record
  <2>3. CASE ApprovalTimeout(c)
    BY <2>3 DEF ApprovalTimeout, Goto, Leave, Record
  <2>4. CASE CreateSSH(c)
    BY <2>4 DEF CreateSSH, Goto
  <2>5. CASE Grant(c)
    BY <2>5 DEF Grant, Goto
  <2>6. CASE ReleaseTransition(c) \/ ReleaseDelete(c) \/ KillCleanup(c)
    BY <2>6 DEF ReleaseTransition, ReleaseDelete, KillCleanup, Goto
  <2>7. CASE RecordDecision(c)
    BY <2>7 DEF RecordDecision, Goto, Record
  <2>8. CASE Inject(c)
    BY <2>8 DEF Inject, Goto
  <2>9. CASE Arm(c)
    BY <2>9 DEF Arm, Goto
  <2>10. CASE Suspend(c) \/ Park(c)
    BY <2>10 DEF Suspend, Park, Goto
  <2>11. QED
    BY <1>2, <2>1, <2>2, <2>3, <2>4, <2>5, <2>6, <2>7, <2>8, <2>9, <2>10 DEF Proceed
<1>3. ASSUME NEW c \in Calls, Respond(c) PROVE ConsentInv'
  <2>1. ASSUME NEW a \in Answers, LookUpApproval(c, a) PROVE ConsentInv'
    BY <2>1 DEF LookUpApproval
  <2>2. ASSUME NEW a \in Answers, SendAnswer(c, a) PROVE ConsentInv'
    BY <2>2 DEF SendAnswer
  <2>3. QED
    BY <1>3, <2>1, <2>2 DEF Respond
<1>4. CASE Surroundings
  BY <1>4 DEF Surroundings, SweepExpired, BecomeIdle, OnCommandEnd, OnAltScreen,
              Transition, OpenSession, CloseSession
<1>5. CASE UNCHANGED vars
  BY <1>5 DEF vars
<1>6. QED
  BY <1>1, <1>2, <1>3, <1>4, <1>5 DEF Next

LEMMA ConsentInvariant == Spec => []ConsentInv
BY ConsentInit, ConsentStep, TypeCorrect, PTL DEF Spec

\* Nothing a client asked for takes effect without a waiver or the user's yes.
THEOREM Consent == Spec => []OnlyConsented
<1>1. ConsentInv => OnlyConsented
  BY DEF ConsentInv, ChannelInv, PipelineInv, Beyond, Authorised, OnlyConsented
<1>2. QED
  BY <1>1, ConsentInvariant, PTL

\* No command is typed before the decision that let it through is on record.
THEOREM AuditFirst == Spec => []AuditBeforeInjection
<1>1. TypeOK /\ ConsentInv => AuditBeforeInjection
  BY DEF TypeOK, ConsentInv, PipelineInv, AuditBeforeInjection
<1>2. QED
  BY <1>1, TypeCorrect, ConsentInvariant, PTL
-----------------------------------------------------------------------------
(* AIControl implements HumanGate.                                          *)

\* Steps the gate does not see: everything but questions, answers and effects.
LEMMA GateStutter ==
  ASSUME UNCHANGED <<first, injected, decision>>,
         \A c \in Calls : (pc'[c] = "granted") <=> (pc[c] = "granted"),
         \A c \in Calls : (pc'[c] = "await") <=> (pc[c] = "await")
  PROVE  UNCHANGED <<stage, first, effects>>
<1>1. stage' = stage
  BY DEF stage, StageOf
<1>2. QED
  BY <1>1 DEF effects

\* A call moving on to `at` with decision d moves its own stage only.
LEMMA StageMove ==
  ASSUME TypeOK, NEW c \in Calls, NEW at, NEW d,
         pc' = [pc EXCEPT ![c] = at], decision' = [decision EXCEPT ![c] = d]
  PROVE  /\ stage[c] = StageOf(decision[c], pc[c])
         /\ stage' = [stage EXCEPT ![c] = StageOf(d, at)]
BY DEF TypeOK, stage

LEMMA EffectsMove ==
  ASSUME TypeOK, NEW c \in Calls, NEW at, pc' = [pc EXCEPT ![c] = at],
         pc[c] # "granted", at # "granted", UNCHANGED injected
  PROVE  UNCHANGED effects
BY DEF TypeOK, effects

\* Every step of the service is a step the gate allows, or one it does not see.
LEMMA GateStep ==
  ASSUME TypeOK, ConsentInv, [Next]_vars
  PROVE  [Gate!Next]_<<stage, first, effects>>
<1> DEFINE Seen == <<stage, first, effects>>
<1>0. ASSUME NEW c \in Calls
      PROVE  /\ decision = [decision EXCEPT ![c] = decision[c]]
             /\ pc[c] \in {"idle", "await"} => decision[c] = "none"
             /\ pc[c] = "await" /\ chan[c] = "yes" => first[c] = "yes"
             /\ pc[c] \in Beyond => decision[c] \in Authorised
  BY DEF TypeOK, ConsentInv, ChannelInv, PipelineInv
<1>1. ASSUME NEW c \in Calls, Request(c) PROVE [Gate!Next]_Seen
  <2>1. ASSUME pc[c] = "idle", pc' = [pc EXCEPT ![c] = "await"],
               UNCHANGED <<first, injected, decision>>
        PROVE Gate!Ask(c)
    <3>1. stage[c] = "new" /\ stage' = [stage EXCEPT ![c] = "asked"]
      BY <1>0, <2>1, StageMove DEF StageOf, Authorised
    <3>2. QED
      BY <2>1, <3>1, EffectsMove DEF Gate!Ask
  <2>2. ASSUME pc[c] = "idle", UNCHANGED <<first, injected>>, NEW at \in {"connect", "record"},
               pc' = [pc EXCEPT ![c] = at], decision' = [decision EXCEPT ![c] = "auto"]
        PROVE Gate!Waive(c)
    <3>1. stage[c] = "new" /\ stage' = [stage EXCEPT ![c] = "allowed"]
      BY <1>0, <2>2, StageMove DEF StageOf, Authorised
    <3>2. QED
      BY <2>2, <3>1, EffectsMove DEF Gate!Waive
  <2>3. ASSUME NEW k \in Clients, ConnectHost(c, k) PROVE Gate!Ask(c) \/ Gate!Waive(c)
    BY <2>3, <2>1, <2>2 DEF ConnectHost, Begin, Await, Waive
  <2>4. ASSUME NEW k \in Clients, NEW s \in Sessions, RequestControl(c, k, s)
        PROVE Gate!Ask(c)
    BY <2>4, <2>1 DEF RequestControl, Begin, Await
  <2>5. ASSUME NEW k \in Clients, NEW s \in Sessions, RunCommand(c, k, s)
        PROVE Gate!Ask(c) \/ Gate!Waive(c)
    BY <2>5, <2>1, <2>2 DEF RunCommand, Begin, Await, Waive
  <2>6. ASSUME NEW k \in Clients, NEW s \in Sessions,
               ReleaseControl(c, k, s) \/ BackgroundCommand(c, k, s)
        PROVE UNCHANGED Seen
    BY <2>6, GateStutter DEF ReleaseControl, BackgroundCommand, Begin, TypeOK, gateVars
  <2>7. ASSUME NEW s \in Sessions, KillControl(c, s) PROVE UNCHANGED Seen
    BY <2>7, GateStutter DEF KillControl, Begin, TypeOK, gateVars
  <2>8. QED
    BY <1>1, <2>3, <2>4, <2>5, <2>6, <2>7 DEF Request, Gate!Next
<1>2. ASSUME NEW c \in Calls, Proceed(c) PROVE [Gate!Next]_Seen
  <2>1. CASE TakeYes(c)
    <3>1. PICK at \in {"grant", "connect", "record"} : pc' = [pc EXCEPT ![c] = at]
      BY <2>1 DEF TakeYes, Goto, AfterYes
    <3>2. pc[c] = "await" /\ chan[c] = "yes" /\ UNCHANGED <<first, injected>>
      BY <2>1 DEF TakeYes, Goto, Leave
    <3>3. decision' = [decision EXCEPT ![c] = "yes"]
      BY <2>1 DEF TakeYes, Leave
    <3>4. stage[c] = "asked" /\ stage' = [stage EXCEPT ![c] = "allowed"]
      BY <1>0, <3>1, <3>2, <3>3, StageMove DEF StageOf, Authorised
    <3>5. Gate!Allow(c)
      BY <1>0, <3>1, <3>2, <3>4, EffectsMove DEF Gate!Allow
    <3>6. QED
      BY <3>5 DEF Gate!Next
  <2>2. CASE TakeNo(c) \/ ApprovalTimeout(c)
    <3>1. PICK d \in {"no", "timeout"} : decision' = [decision EXCEPT ![c] = d]
      BY <2>2 DEF TakeNo, ApprovalTimeout, Leave
    <3>2. pc[c] = "await" /\ pc' = [pc EXCEPT ![c] = "done"] /\ UNCHANGED <<first, injected>>
      BY <2>2 DEF TakeNo, ApprovalTimeout, Leave, Goto
    <3>3. stage[c] = "asked" /\ stage' = [stage EXCEPT ![c] = "refused"]
      BY <1>0, <3>1, <3>2, StageMove DEF StageOf, Authorised
    <3>4. Gate!Refuse(c)
      BY <3>2, <3>3, EffectsMove DEF Gate!Refuse
    <3>5. QED
      BY <3>4 DEF Gate!Next
  <2>3. CASE Grant(c)
    <3>1. pc[c] = "grant" /\ pc' = [pc EXCEPT ![c] = "granted"]
      BY <2>3 DEF Grant, Goto
    <3>2. UNCHANGED <<decision, first, injected>>
      BY <2>3 DEF Grant, gateVars
    <3>3. stage[c] = "allowed" /\ stage' = [stage EXCEPT ![c] = "allowed"]
      BY <1>0, <3>1, <3>2, StageMove DEF StageOf, Authorised, Beyond
    <3>4. stage' = stage
      BY <3>3 DEF stage
    <3>5. effects' = effects \cup {c}
      BY <3>1, <3>2 DEF effects, TypeOK
    <3>6. QED
      BY <3>2, <3>3, <3>4, <3>5 DEF Gate!TakeEffect, Gate!Next
  <2>4. CASE Inject(c)
    <3>1. CASE injected' = injected
      BY <2>4, <3>1, GateStutter DEF Inject, Goto, TypeOK, gateVars
    <3>2. CASE injected' = injected \cup {c}
      <4>1. PICK at \in {"arm", "done"} : pc[c] = "write" /\ pc' = [pc EXCEPT ![c] = at]
        BY <2>4 DEF Inject, Goto
      <4>2. UNCHANGED <<decision, first>>
        BY <2>4 DEF Inject, gateVars
      <4>3. stage[c] = "allowed" /\ stage' = [stage EXCEPT ![c] = "allowed"]
        BY <1>0, <4>1, <4>2, StageMove DEF StageOf, Authorised, Beyond
      <4>4. stage' = stage
        BY <4>3 DEF stage
      <4>5. effects' = effects \cup {c}
        BY <3>2, <4>1 DEF effects, TypeOK
      <4>6. QED
        BY <4>2, <4>3, <4>4, <4>5 DEF Gate!TakeEffect, Gate!Next
    <3>3. QED
      BY <2>4, <3>1, <3>2 DEF Inject
  <2>5. CASE \/ CreateSSH(c) \/ ReleaseTransition(c) \/ ReleaseDelete(c) \/ KillCleanup(c)
             \/ RecordDecision(c) \/ Arm(c) \/ Suspend(c) \/ Park(c)
    BY <2>5, GateStutter DEF CreateSSH, ReleaseTransition, ReleaseDelete, KillCleanup,
       RecordDecision, Arm, Suspend, Park, Goto, TypeOK, gateVars
  <2>6. QED
    BY <1>2, <2>1, <2>2, <2>3, <2>4, <2>5 DEF Proceed
<1>3. ASSUME NEW c \in Calls, Respond(c) PROVE [Gate!Next]_Seen
  <2>1. ASSUME NEW a \in Answers, LookUpApproval(c, a) PROVE UNCHANGED Seen
    BY <2>1, GateStutter DEF LookUpApproval, callVars
  <2>2. ASSUME NEW a \in Answers, SendAnswer(c, a) PROVE Gate!Answer(c, a) \/ UNCHANGED Seen
    <3>1. UNCHANGED <<pc, decision, injected>>
      BY <2>2 DEF SendAnswer, callVars
    <3>2. UNCHANGED <<stage, effects>>
      BY <3>1 DEF stage, effects
    <3>3. stage[c] # "new"
      BY <2>2 DEF SendAnswer, stage, StageOf, ConsentInv, ChannelInv
    <3>4. CASE first[c] = "none"
      BY <2>2, <3>2, <3>3, <3>4 DEF SendAnswer, Gate!Answer
    <3>5. CASE first[c] # "none"
      BY <2>2, <3>2, <3>5 DEF SendAnswer, TypeOK
    <3>6. QED
      BY <3>4, <3>5
  <2>3. QED
    BY <1>3, <2>1, <2>2 DEF Respond, Gate!Next, Gate!Answers, Answers
<1>4. CASE Surroundings
  BY <1>4, GateStutter DEF Surroundings, SweepExpired, BecomeIdle, OnCommandEnd,
     OnAltScreen, Transition, OpenSession, CloseSession, callVars, gateVars
<1>5. CASE UNCHANGED vars
  BY <1>5, GateStutter DEF vars, callVars, gateVars
<1>6. QED
  BY <1>1, <1>2, <1>3, <1>4, <1>5 DEF Next

\* The approval machinery, with its channels, late answers and timeouts,
\* keeps the promise HumanGate states.
THEOREM ImplementsGate == Spec => GateSpec
<1>1. Init => Gate!Init
  BY DEF Init, Gate!Init, stage, StageOf, effects, Authorised
<1>2. TypeOK /\ ConsentInv /\ [Next]_vars => [Gate!Next]_Gate!vars
  BY GateStep DEF Gate!vars
<1>3. QED
  BY <1>1, <1>2, TypeCorrect, ConsentInvariant, PTL DEF Spec, GateSpec, Gate!Spec
-----------------------------------------------------------------------------
(* Revocation.  RevokedIsLeaving needs to know that the pointer a releasing  *)
(* call carries is a delegation of the session it is about to clear.         *)

HolderInv ==
  \A c \in Calls :
    pc[c] \in {"transition", "delete"} =>
      found[c] \in Calls /\ pc[found[c]] = "granted" /\ sess[found[c]] = sess[c]

RevocationInv == DelegationBelongs /\ HolderInv /\ RevokedIsLeaving

LEMMA RevocationInit == Init => RevocationInv
BY DEF Init, RevocationInv, DelegationBelongs, HolderInv, RevokedIsLeaving

\* A step that only moves calls outside the release path changes nothing here.
LEMMA RevocationFrame ==
  ASSUME TypeOK, RevocationInv, UNCHANGED <<delegations, dstate>>, NEW c \in Calls,
         pc' = [pc EXCEPT ![c] = pc'[c]], pc[c] \notin {"transition", "delete", "granted"},
         \A d \in Calls \ {c} : found'[d] = found[d] /\ sess'[d] = sess[d],
         pc'[c] # "delete",
         pc'[c] = "transition" =>
           found'[c] \in Calls /\ pc[found'[c]] = "granted" /\ sess'[found'[c]] = sess'[c]
  PROVE  RevocationInv'
BY NoneAssumption DEF TypeOK, RevocationInv, DelegationBelongs, HolderInv, RevokedIsLeaving

LEMMA RevocationStep == TypeOK /\ RevocationInv /\ [Next]_vars => RevocationInv'
<1> SUFFICES ASSUME TypeOK, RevocationInv, [Next]_vars PROVE RevocationInv'
  OBVIOUS
<1> USE NoneAssumption DEF callVars, gateVars, ctlVars, cmdVars
<1>1. ASSUME NEW c \in Calls, Request(c) PROVE RevocationInv'
  <2>1. ASSUME NEW k \in Clients, ConnectHost(c, k) PROVE RevocationInv'
    BY <2>1, RevocationFrame DEF ConnectHost, Begin, TypeOK, PCs
  <2>2. ASSUME NEW k \in Clients, NEW s \in Sessions,
               RequestControl(c, k, s) \/ RunCommand(c, k, s) \/ BackgroundCommand(c, k, s)
        PROVE RevocationInv'
    BY <2>2, RevocationFrame DEF RequestControl, RunCommand, BackgroundCommand, Begin, TypeOK, PCs
  <2>3. ASSUME NEW k \in Clients, NEW s \in Sessions, ReleaseControl(c, k, s)
        PROVE RevocationInv'
    <3>1. /\ delegations[s] \in Calls
          /\ pc[delegations[s]] = "granted"
          /\ sess[delegations[s]] = s
      BY <2>3 DEF ReleaseControl, HeldBy, TypeOK, RevocationInv, DelegationBelongs
    <3>2. /\ pc[c] = "idle" /\ pc' = [pc EXCEPT ![c] = "transition"]
          /\ sess' = [sess EXCEPT ![c] = s]
          /\ found' = [found EXCEPT ![c] = delegations[s]]
          /\ UNCHANGED <<delegations, dstate>>
      BY <2>3 DEF ReleaseControl, Begin
    <3>3. pc'[c] = "transition" /\ found'[c] = delegations[s] /\ sess'[c] = s
          /\ sess'[delegations[s]] = s
      BY <3>1, <3>2 DEF TypeOK
    <3>4. QED
      BY <3>1, <3>2, <3>3, RevocationFrame DEF TypeOK
  <2>4. ASSUME NEW s \in Sessions, KillControl(c, s) PROVE RevocationInv'
    BY <2>4 DEF KillControl, Begin, TypeOK, PCs, RevocationInv, DelegationBelongs, HolderInv,
       RevokedIsLeaving
  <2>5. QED
    BY <1>1, <2>1, <2>2, <2>3, <2>4 DEF Request
<1>2. ASSUME NEW c \in Calls, Proceed(c) PROVE RevocationInv'
  <2>1. CASE TakeYes(c) \/ TakeNo(c) \/ ApprovalTimeout(c)
    BY <2>1, RevocationFrame DEF TakeYes, TakeNo, ApprovalTimeout, Goto, Leave, AfterYes,
       TypeOK, PCs
  <2>2. CASE CreateSSH(c)
    BY <2>2, RevocationFrame DEF CreateSSH, Goto, TypeOK, PCs
  <2>3. CASE Grant(c)
    BY <2>3 DEF Grant, Goto, TypeOK, PCs, RevocationInv, DelegationBelongs, HolderInv,
       RevokedIsLeaving
  <2>4. CASE ReleaseTransition(c)
    BY <2>4 DEF ReleaseTransition, Goto, TypeOK, PCs, RevocationInv, DelegationBelongs,
       HolderInv, RevokedIsLeaving
  <2>5. CASE ReleaseDelete(c)
    BY <2>5 DEF ReleaseDelete, Goto, TypeOK, PCs, RevocationInv, DelegationBelongs,
       HolderInv, RevokedIsLeaving
  <2>6. CASE KillCleanup(c) \/ RecordDecision(c) \/ Inject(c) \/ Arm(c) \/ Suspend(c) \/ Park(c)
    BY <2>6, RevocationFrame DEF KillCleanup, RecordDecision, Inject, Arm, Suspend, Park,
       Goto, TypeOK, PCs
  <2>7. QED
    BY <1>2, <2>1, <2>2, <2>3, <2>4, <2>5, <2>6 DEF Proceed
<1>3. CASE \/ \E c \in Calls : Respond(c)
           \/ \E d \in Calls : BecomeIdle(d)
           \/ \E s \in Sessions :
                \/ OnCommandEnd(s) \/ OnAltScreen(s, TRUE) \/ OnAltScreen(s, FALSE)
                \/ OpenSession(s) \/ CloseSession(s)
           \/ UNCHANGED vars
  <2>1. UNCHANGED <<pc, sess, found, delegations, dstate>>
    BY <1>3 DEF Respond, LookUpApproval, SendAnswer, BecomeIdle, OnCommandEnd, OnAltScreen,
       Transition, OpenSession, CloseSession, vars
  <2>2. QED
    BY <2>1 DEF RevocationInv, DelegationBelongs, HolderInv, RevokedIsLeaving
<1>4. CASE SweepExpired
  <2>1. UNCHANGED <<pc, sess, found>>
    BY <1>4 DEF SweepExpired
  <2>2. ASSUME NEW s \in Sessions, delegations'[s] # None
        PROVE  delegations'[s] = delegations[s] /\ delegations[s] \notin idle
    BY <1>4, <2>2 DEF SweepExpired
  <2>3. ASSUME NEW s \in Sessions, delegations[s] # None, delegations[s] \notin idle
        PROVE  dstate'[delegations[s]] = dstate[delegations[s]]
    BY <1>4, <2>3 DEF SweepExpired, TypeOK
  <2>4. QED
    BY <2>1, <2>2, <2>3 DEF RevocationInv, DelegationBelongs, HolderInv, RevokedIsLeaving
<1>5. QED
  BY <1>1, <1>2, <1>3, <1>4 DEF Next, Surroundings

\* However releases, kills, sweeps and grants interleave, a revoked delegation
\* is in the map only until the call that revoked it deletes it.
THEOREM RevokedLeave == Spec => []RevokedIsLeaving
<1>1. RevocationInv => RevokedIsLeaving
  BY DEF RevocationInv
<1>2. QED
  BY <1>1, RevocationInit, RevocationStep, TypeCorrect, PTL DEF Spec

\* The map answers for a session only with a delegation of that session, one
\* that was granted.
THEOREM Belongs == Spec => []DelegationBelongs
<1>1. RevocationInv => DelegationBelongs
  BY DEF RevocationInv
<1>2. QED
  BY <1>1, RevocationInit, RevocationStep, TypeCorrect, PTL DEF Spec
=============================================================================
