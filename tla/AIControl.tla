----------------------------- MODULE AIControl -----------------------------
(***************************************************************************)
(* Package aicontrol: AI clients ask for control of terminal sessions, run  *)
(* commands in the ones they hold, and the local user grants, refuses and   *)
(* revokes.  Every call runs in a goroutine of its own; s.mu is held only   *)
(* around single map accesses, so one step of a call here is one critical   *)
(* section (or one call out to the session service) of the code.            *)
(*                                                                          *)
(* A call serves one request.  The delegation and the command handle a call *)
(* creates, and the approval it waits for, are named by the call: pointer   *)
(* identity in the code is call identity here.  A call its guards reject    *)
(* changes nothing and is not an action.                                    *)
(***************************************************************************)
EXTENDS Naturals, FiniteSets

CONSTANTS
  Clients,   \* paired AI clients
  Sessions,  \* session IDs
  Calls,     \* goroutines serving requests of AI clients and of the GUI
  Ops,       \* the operations this instance offers
  MaxAnswering,  \* bound: answers of the user on their way to a waiter
  None       \* "no entry" in a map, "no pointer"

AllOps == {"RequestControl", "ConnectHost", "RunCommand", "ReleaseControl",
           "KillControl", "BackgroundCommand"}

ASSUME NoneAssumption == None \notin Calls
ASSUME OpsAssumption == Ops \subseteq AllOps
ASSUME BoundAssumption == MaxAnswering \in Nat \ {0}

VARIABLES
  sessState,    \* the session service's view of each session
  pc, op, client, sess, found,                \* the calls and their locals
  pending, chan, answering, decision, first,  \* approvals
  delegations, dstate, idle,                  \* who controls which session
  commands, hstate,                           \* the command handle of a session
  audit, injected,                            \* what was recorded, what was typed
  killed                                      \* history: killed, no "yes" since

callVars == <<pc, op, client, sess, found>>
gateVars == <<pending, chan, answering, decision, first>>
ctlVars == <<delegations, dstate, idle>>
cmdVars == <<commands, hstate>>
vars == <<sessState, callVars, gateVars, ctlVars, cmdVars, audit, injected, killed>>

Answers == {"yes", "no"}
Decisions == {"none", "auto", "yes", "no", "timeout"}
PCs == {"idle", "await", "grant", "connect", "record", "write", "arm",
        "transition", "delete", "cleanup", "suspend", "park", "granted", "done"}

\* domain.legalDelegationTransitions, the states the service ever enters.
DelegationStates == {"none", "delegated", "expired"}
LegalDelegation == {<<"none", "delegated">>, <<"delegated", "none">>,
                    <<"delegated", "expired">>, <<"expired", "none">>}

\* domain.legalCommandTransitions; "unarmed" is a handle not created yet.
HandleStates == {"unarmed", "running", "tui", "done", "background"}
LegalCommand == {<<"running", "tui">>, <<"tui", "running">>}
                  \cup ({"running", "tui"} \X {"done", "background"})
IsTerminal(h) == \A next \in HandleStates : <<hstate[h], next>> \notin LegalCommand

TypeOK ==
  /\ sessState \in [Sessions -> {"absent", "live", "closed"}]
  /\ pc \in [Calls -> PCs]
  /\ op \in [Calls -> AllOps \cup {None}]
  /\ client \in [Calls -> Clients \cup {None}]
  /\ sess \in [Calls -> Sessions \cup {None}]
  /\ found \in [Calls -> Calls \cup {None}]
  /\ pending \subseteq Calls
  /\ chan \in [Calls -> Answers \cup {"empty"}]
  /\ answering \subseteq Calls \X Answers
  /\ decision \in [Calls -> Decisions]
  /\ first \in [Calls -> Answers \cup {"none"}]
  /\ delegations \in [Sessions -> Calls \cup {None}]
  /\ dstate \in [Calls -> DelegationStates]
  /\ idle \subseteq Calls
  /\ commands \in [Sessions -> Calls \cup {None}]
  /\ hstate \in [Calls -> HandleStates]
  /\ audit \in [Calls -> Decisions \cup {"dropped"}]
  /\ injected \subseteq Calls
  /\ killed \subseteq Sessions

\* Sessions the user opened before any client connected may already be live.
Init ==
  /\ sessState \in [Sessions -> {"absent", "live"}]
  /\ pc = [c \in Calls |-> "idle"]
  /\ op = [c \in Calls |-> None]
  /\ client = [c \in Calls |-> None]
  /\ sess = [c \in Calls |-> None]
  /\ found = [c \in Calls |-> None]
  /\ pending = {}
  /\ chan = [c \in Calls |-> "empty"]
  /\ answering = {}
  /\ decision = [c \in Calls |-> "none"]
  /\ first = [c \in Calls |-> "none"]
  /\ delegations = [s \in Sessions |-> None]
  /\ dstate = [c \in Calls |-> "none"]
  /\ idle = {}
  /\ commands = [s \in Sessions |-> None]
  /\ hstate = [c \in Calls |-> "unarmed"]
  /\ audit = [c \in Calls |-> "none"]
  /\ injected = {}
  /\ killed = {}
-----------------------------------------------------------------------------
(* Helpers.                                                                 *)

\* A goroutine picks up request o of client k about session s, and stops at
\* its first blocking point or lock release, `at`.
Begin(c, o, k, s, at) ==
  /\ pc[c] = "idle"
  /\ o \in Ops
  /\ pc' = [pc EXCEPT ![c] = at]
  /\ op' = [op EXCEPT ![c] = o]
  /\ client' = [client EXCEPT ![c] = k]
  /\ sess' = [sess EXCEPT ![c] = s]

Goto(c, from, to) ==
  /\ pc[c] = from
  /\ pc' = [pc EXCEPT ![c] = to]

\* The ownership guard every client operation on a session starts with.
HeldBy(k, s) == delegations[s] # None /\ client[delegations[s]] = k

\* recordCommandAudit: an append that fails is swallowed.  The rows of other
\* operations follow their effect and nothing depends on them: left out.
Record(c, d) ==
  \E row \in {d, "dropped"} :
    audit' = IF op[c] = "RunCommand" THEN [audit EXCEPT ![c] = row] ELSE audit
-----------------------------------------------------------------------------
(* Human approval: await*Approval and Respond*Approval.                     *)

\* Register the channel, publish the question, block in the select.
Await(c) ==
  /\ pending' = pending \cup {c}
  /\ UNCHANGED <<chan, answering, decision, first>>

\* Policy answers instead of the user.
Waive(c) ==
  /\ decision' = [decision EXCEPT ![c] = "auto"]
  /\ UNCHANGED <<pending, chan, answering, first>>

\* Respond*, first half: look the channel up under the lock.
LookUpApproval(c, a) ==
  /\ c \in pending
  /\ Cardinality(answering) < MaxAnswering
  /\ answering' = answering \cup {<<c, a>>}
  /\ UNCHANGED <<sessState, callVars, pending, chan, decision, first, ctlVars,
                 cmdVars, audit, injected, killed>>

\* Mutant: the last answer wins instead of the first.
LastAnswerWins(c, a) ==
  /\ <<c, a>> \in answering
  /\ answering' = answering \ {<<c, a>>}
  /\ chan' = [chan EXCEPT ![c] = a]
  /\ first' = [first EXCEPT ![c] = IF @ = "none" THEN a ELSE @]
  /\ UNCHANGED <<sessState, callVars, pending, decision, ctlVars, cmdVars, audit,
                 injected, killed>>

\* Respond*, second half: a non-blocking send on a channel of capacity one.
\* The waiter may have left in between; a full channel is "already answered".
SendAnswer(c, a) ==
  /\ <<c, a>> \in answering
  /\ answering' = answering \ {<<c, a>>}
  /\ chan' = [chan EXCEPT ![c] = IF @ = "empty" THEN a ELSE @]
  /\ first' = [first EXCEPT ![c] = IF @ = "none" THEN a ELSE @]
  /\ killed' = IF chan[c] = "empty" /\ a = "yes" THEN killed \ {sess[c]} ELSE killed
  /\ UNCHANGED <<sessState, callVars, pending, decision, ctlVars, cmdVars, audit, injected>>

Leave(c, d) ==
  /\ decision' = [decision EXCEPT ![c] = d]
  /\ pending' = pending \ {c}
  /\ UNCHANGED <<sessState, op, client, sess, found, answering, first, ctlVars,
                 cmdVars, injected, killed>>

AfterYes(o) ==
  IF o = "RequestControl" THEN "grant" ELSE IF o = "ConnectHost" THEN "connect" ELSE "record"

TakeYes(c) ==
  /\ chan[c] = "yes"
  /\ Goto(c, "await", AfterYes(op[c]))
  /\ chan' = [chan EXCEPT ![c] = "empty"]
  /\ Leave(c, "yes")
  /\ UNCHANGED audit

TakeNo(c) ==
  /\ chan[c] = "no"
  /\ Goto(c, "await", "done")
  /\ chan' = [chan EXCEPT ![c] = "empty"]
  /\ Record(c, "no")
  /\ Leave(c, "no")

\* Mutant: an unanswered request passes.
TimeoutPasses(c) ==
  /\ Goto(c, "await", AfterYes(op[c]))
  /\ Leave(c, "timeout")
  /\ UNCHANGED <<chan, audit>>

\* time.After fires; select may choose it even when an answer is waiting.
ApprovalTimeout(c) ==
  /\ Goto(c, "await", "done")
  /\ Record(c, "timeout")
  /\ Leave(c, "timeout")
  /\ UNCHANGED chan
-----------------------------------------------------------------------------
(* Taking control.                                                          *)

\* Mutant: the delegation is entered before the user is asked.
DelegateFirst(c, k, s) ==
  /\ sessState[s] = "live"
  /\ delegations[s] = None
  /\ Begin(c, "RequestControl", k, s, "await")
  /\ Await(c)
  /\ delegations' = [delegations EXCEPT ![s] = c]
  /\ UNCHANGED <<sessState, found, dstate, idle, cmdVars, audit, injected, killed>>

RequestControl(c, k, s) ==
  /\ sessState[s] = "live"
  /\ delegations[s] = None
  /\ Begin(c, "RequestControl", k, s, "await")
  /\ Await(c)
  /\ UNCHANGED <<sessState, found, ctlVars, cmdVars, audit, injected, killed>>

\* The session does not exist yet.  FanOut.tla details when the
\* client's fan-out grant lets the call skip the question.
ConnectHost(c, k) ==
  /\ \/ Begin(c, "ConnectHost", k, None, "await") /\ Await(c)
     \/ Begin(c, "ConnectHost", k, None, "connect") /\ Waive(c)
  /\ UNCHANGED <<sessState, found, ctlVars, cmdVars, audit, injected, killed>>

\* Sessions.CreateSSH returns a fresh session, or fails.
CreateSSH(c) ==
  /\ \/ \E s \in Sessions :
          /\ sessState[s] = "absent"
          /\ sessState' = [sessState EXCEPT ![s] = "live"]
          /\ sess' = [sess EXCEPT ![c] = s]
          /\ Goto(c, "connect", "grant")
     \/ /\ Goto(c, "connect", "done")
        /\ UNCHANGED <<sessState, sess>>
  /\ UNCHANGED <<op, client, found, gateVars, ctlVars, cmdVars, audit, injected, killed>>

\* The second critical section of RequestControl and of ConnectHost.
Grant(c) ==
  /\ Goto(c, "grant", "granted")
  /\ delegations' = [delegations EXCEPT ![sess[c]] = c]
  /\ dstate' = [dstate EXCEPT ![c] = "delegated"]
  /\ UNCHANGED <<sessState, op, client, sess, found, gateVars, idle, cmdVars, audit,
                 injected, killed>>
-----------------------------------------------------------------------------
(* Giving control up and taking it away.                                    *)

ReleaseControl(c, k, s) ==
  /\ HeldBy(k, s)
  /\ Begin(c, "ReleaseControl", k, s, "transition")
  /\ found' = [found EXCEPT ![c] = delegations[s]]
  /\ UNCHANGED <<sessState, gateVars, ctlVars, cmdVars, audit, injected, killed>>

\* deleg.TransitionTo(DelegNone), outside the lock; an illegal one returns.
ReleaseTransition(c) ==
  /\ \/ /\ Goto(c, "transition", "delete")
        /\ <<dstate[found[c]], "none">> \in LegalDelegation
        /\ dstate' = [dstate EXCEPT ![found[c]] = "none"]
     \/ /\ Goto(c, "transition", "done")
        /\ <<dstate[found[c]], "none">> \notin LegalDelegation
        /\ UNCHANGED dstate
  /\ UNCHANGED <<sessState, op, client, sess, found, gateVars, delegations, idle,
                 cmdVars, audit, injected, killed>>

ReleaseDelete(c) ==
  /\ Goto(c, "delete", "done")
  /\ delegations' = [delegations EXCEPT ![sess[c]] = None]
  /\ UNCHANGED <<sessState, op, client, sess, found, gateVars, dstate, idle,
                 cmdVars, audit, injected, killed>>

\* Mutant: the kill switch forgets delete(s.delegations, sessionID).
KillKeepsEntry(c, s) ==
  /\ delegations[s] # None
  /\ Begin(c, "KillControl", None, s, "cleanup")
  /\ found' = [found EXCEPT ![c] = delegations[s]]
  /\ dstate' = [dstate EXCEPT ![delegations[s]] = "none"]
  /\ commands' = [commands EXCEPT ![s] = None]
  /\ killed' = killed \cup {s}
  /\ UNCHANGED <<sessState, gateVars, delegations, idle, hstate, audit, injected>>

KillControl(c, s) ==
  /\ delegations[s] # None
  /\ Begin(c, "KillControl", None, s, "cleanup")
  /\ found' = [found EXCEPT ![c] = delegations[s]]
  /\ dstate' = [dstate EXCEPT ![delegations[s]] = "none"]
  /\ delegations' = [delegations EXCEPT ![s] = None]
  /\ commands' = [commands EXCEPT ![s] = None]
  /\ killed' = killed \cup {s}
  /\ UNCHANGED <<sessState, gateVars, idle, hstate, audit, injected>>

\* A session opened for the AI is closed; in a borrowed one the foreground
\* program gets a Ctrl-C, which changes no state of the service.
KillCleanup(c) ==
  /\ Goto(c, "cleanup", "done")
  /\ sessState' = IF op[found[c]] = "ConnectHost"
                  THEN [sessState EXCEPT ![sess[c]] = "closed"] ELSE sessState
  /\ UNCHANGED <<op, client, sess, found, gateVars, ctlVars, cmdVars, audit, injected, killed>>

\* Half an hour passes without activity on delegation d.
BecomeIdle(d) ==
  /\ \E s \in Sessions : delegations[s] = d
  /\ d \notin idle
  /\ idle' = idle \cup {d}
  /\ UNCHANGED <<sessState, callVars, gateVars, delegations, dstate, cmdVars,
                 audit, injected, killed>>

\* Mutant: expired delegations are marked but stay in the map.
SweepOnlyMarks ==
  /\ dstate' = [d \in Calls |->
       IF (\E s \in Sessions : delegations[s] = d) /\ d \in idle THEN "expired" ELSE dstate[d]]
  /\ UNCHANGED <<sessState, callVars, gateVars, delegations, idle, cmdVars, audit,
                 injected, killed>>

SweepExpired ==
  LET reaped == {s \in Sessions : delegations[s] \in idle} IN
  /\ reaped # {}
  /\ delegations' = [s \in Sessions |-> IF s \in reaped THEN None ELSE delegations[s]]
  /\ dstate' = [d \in Calls |->
       IF /\ \E s \in reaped : delegations[s] = d
          /\ <<dstate[d], "expired">> \in LegalDelegation
       THEN "expired" ELSE dstate[d]]
  /\ UNCHANGED <<sessState, callVars, gateVars, idle, cmdVars, audit, injected, killed>>
-----------------------------------------------------------------------------
(* Running commands.                                                        *)

\* Mutant: commands that run unasked are not recorded.
AutoSkipsAudit(c, k, s) ==
  /\ HeldBy(k, s)
  /\ sessState[s] = "live"
  /\ \/ Begin(c, "RunCommand", k, s, "write") /\ Waive(c)
     \/ Begin(c, "RunCommand", k, s, "await") /\ Await(c)
  /\ UNCHANGED <<sessState, found, ctlVars, cmdVars, audit, injected, killed>>

\* Ownership, liveness and the static verdict: a low-risk, certain command
\* runs unasked, any other waits for the user.
RunCommand(c, k, s) ==
  /\ HeldBy(k, s)
  /\ sessState[s] = "live"
  /\ \/ Begin(c, "RunCommand", k, s, "record") /\ Waive(c)
     \/ Begin(c, "RunCommand", k, s, "await") /\ Await(c)
  /\ UNCHANGED <<sessState, found, ctlVars, cmdVars, audit, injected, killed>>

RecordDecision(c) ==
  /\ Goto(c, "record", "write")
  /\ Record(c, decision[c])
  /\ UNCHANGED <<sessState, op, client, sess, found, gateVars, ctlVars, cmdVars, injected, killed>>

\* sessions.Write types the command into the session.  A file transfer that
\* blocks input swallows it without an error; a session that is gone, or
\* whose connection is not up yet, is an error.
Inject(c) ==
  /\ \/ /\ Goto(c, "write", "arm")
        /\ sessState[sess[c]] = "live"
        /\ injected' \in {injected, injected \cup {c}}
     \/ /\ Goto(c, "write", "done")
        /\ UNCHANGED injected
  /\ UNCHANGED <<sessState, op, client, sess, found, gateVars, ctlVars, cmdVars, audit, killed>>

\* Bump the activity of whatever delegation the session has now and put the
\* new handle in the place of any other.
Arm(c) ==
  /\ Goto(c, "arm", "done")
  /\ idle' = idle \ {delegations[sess[c]]}
  /\ commands' = [commands EXCEPT ![sess[c]] = c]
  /\ hstate' = [hstate EXCEPT ![c] = "running"]
  /\ UNCHANGED <<sessState, op, client, sess, found, gateVars, delegations, dstate,
                 audit, injected, killed>>

\* The handle of session s that still follows its command, if there is one.
InFlight(s) == commands[s] # None /\ ~IsTerminal(commands[s])

BackgroundCommand(c, k, s) ==
  /\ HeldBy(k, s)
  /\ InFlight(s)
  /\ Begin(c, "BackgroundCommand", k, s, "suspend")
  /\ found' = [found EXCEPT ![c] = commands[s]]
  /\ UNCHANGED <<sessState, gateVars, ctlVars, cmdVars, audit, injected, killed>>

\* Ctrl-Z and "bg", outside the lock.
Suspend(c) ==
  /\ \/ Goto(c, "suspend", "park") /\ sessState[sess[c]] = "live"
     \/ Goto(c, "suspend", "done")
  /\ UNCHANGED <<sessState, op, client, sess, found, gateVars, ctlVars, cmdVars,
                 audit, injected, killed>>

\* The handle is looked up again before it is marked.
Park(c) ==
  /\ Goto(c, "park", "done")
  /\ hstate' = IF InFlight(sess[c])
               THEN [hstate EXCEPT ![commands[sess[c]]] = "background"] ELSE hstate
  /\ UNCHANGED <<sessState, op, client, sess, found, gateVars, ctlVars, commands,
                 audit, injected, killed>>

Transition(h, next) ==
  /\ hstate' = [hstate EXCEPT ![h] = next]
  /\ UNCHANGED <<sessState, callVars, gateVars, ctlVars, commands, audit, injected, killed>>

\* Shell integration saw a command of session s end, whoever typed it.
OnCommandEnd(s) ==
  /\ InFlight(s)
  /\ Transition(commands[s], "done")

OnAltScreen(s, entered) ==
  /\ InFlight(s)
  /\ LET next == IF entered THEN "tui" ELSE "running" IN
       /\ hstate[commands[s]] # next
       /\ Transition(commands[s], next)
-----------------------------------------------------------------------------
(* The user and the session service.                                        *)

OpenSession(s) ==
  /\ sessState[s] = "absent"
  /\ sessState' = [sessState EXCEPT ![s] = "live"]
  /\ UNCHANGED <<callVars, gateVars, ctlVars, cmdVars, audit, injected, killed>>

\* aicontrol is not told: delegation and handle stay in their maps.
CloseSession(s) ==
  /\ sessState[s] = "live"
  /\ sessState' = [sessState EXCEPT ![s] = "closed"]
  /\ UNCHANGED <<callVars, gateVars, ctlVars, cmdVars, audit, injected, killed>>
-----------------------------------------------------------------------------
Request(c) ==
  \/ \E k \in Clients :
       \/ ConnectHost(c, k)
       \/ \E s \in Sessions :
            \/ RequestControl(c, k, s) \/ ReleaseControl(c, k, s)
            \/ RunCommand(c, k, s) \/ BackgroundCommand(c, k, s)
  \/ \E s \in Sessions : KillControl(c, s)

\* What a started call does next, on its own.
Proceed(c) ==
  \/ TakeYes(c) \/ TakeNo(c) \/ ApprovalTimeout(c)
  \/ CreateSSH(c) \/ Grant(c)
  \/ ReleaseTransition(c) \/ ReleaseDelete(c) \/ KillCleanup(c)
  \/ RecordDecision(c) \/ Inject(c) \/ Arm(c)
  \/ Suspend(c) \/ Park(c)

Respond(c) == \E a \in Answers : LookUpApproval(c, a) \/ SendAnswer(c, a)

Surroundings ==
  \/ SweepExpired
  \/ \E d \in Calls : BecomeIdle(d)
  \/ \E s \in Sessions :
       \/ OnCommandEnd(s) \/ OnAltScreen(s, TRUE) \/ OnAltScreen(s, FALSE)
       \/ OpenSession(s) \/ CloseSession(s)

Next ==
  \/ \E c \in Calls : Request(c) \/ Proceed(c) \/ Respond(c)
  \/ Surroundings

Spec == Init /\ [][Next]_vars

\* A runnable goroutine is scheduled, time.After bounds every wait for a
\* human, and main.go's ticker calls SweepExpired every minute.
FairSpec == Spec /\ WF_vars(SweepExpired) /\ \A c \in Calls : WF_vars(Proceed(c))
-----------------------------------------------------------------------------
(* Properties.                                                              *)

Authorised == {"auto", "yes"}

\* A call that took control of a session or typed a command was waived by
\* policy, or the first answer the user gave to its question was yes; neither
\* a timeout nor a late or repeated answer gets it through.
OnlyConsented ==
  \A c \in Calls :
    (c \in injected \/ pc[c] = "granted")
      => decision[c] = "auto" \/ (decision[c] = "yes" /\ first[c] = "yes")

\* A crash right after a command was typed finds the decision that let it
\* through already in the trail, unless the append itself failed.
AuditBeforeInjection ==
  \A c \in injected :
    /\ decision[c] \in Authorised
    /\ audit[c] \in {decision[c], "dropped"}

\* A delegation that was revoked still answers for its session only while the
\* call that revokes it is on its way to delete it: no interleaving of
\* release, kill, sweep and grants leaves a revoked delegation in force.
RevokedIsLeaving ==
  \A s \in Sessions :
    LET d == delegations[s] IN
      (d # None /\ dstate[d] # "delegated")
        => \E c \in Calls : pc[c] = "delete" /\ sess[c] = s /\ found[c] = d

\* The map never answers for a session with a delegation of another session,
\* or with one nobody granted.
DelegationBelongs ==
  \A s \in Sessions :
    delegations[s] # None
      => sess[delegations[s]] = s /\ pc[delegations[s]] = "granted"

\* Every call returns to its client, answered or not.
CallsReturn == \A c \in Calls : pc[c] # "idle" ~> pc[c] \in {"granted", "done"}

\* An AI client that stops working does not keep a session for ever.
IdleIsReaped ==
  \A d \in Calls, s \in Sessions :
    (delegations[s] = d /\ d \in idle) ~> ~(delegations[s] = d /\ d \in idle)

\* Neither a call nor a session is held for ever: not by a user who does not
\* answer, nor by a client that does not work.
NothingHeldForEver == CallsReturn /\ IdleIsReaped

\* AIControl implements HumanGate.
StageOf(d, at) ==
  IF d \in Authorised THEN "allowed"
  ELSE IF d # "none" THEN "refused"
  ELSE IF at = "await" THEN "asked" ELSE "new"
stage == [c \in Calls |-> StageOf(decision[c], pc[c])]
effects == injected \cup {c \in Calls : pc[c] = "granted"}
Gate == INSTANCE HumanGate WITH stage <- stage, vote <- first, effects <- effects
GateSpec == Gate!Spec
-----------------------------------------------------------------------------
(* What comments of the code say and the code does not do.                  *)

\* control.go: a session someone controls is never handed to another client.
NoSilentHandOff ==
  [][\A s \in Sessions :
       (delegations[s] # None /\ delegations'[s] # None)
         => client[delegations'[s]] = client[delegations[s]]]_vars

\* control.go: once KillControl returned, the client's next RunCommand is
\* rejected, until the user consents to something about the session again.
KillIsFinal ==
  [][\A c \in Calls :
       (pc[c] = "idle" /\ op'[c] = "RunCommand" /\ sess'[c] \in killed)
         => \E kill \in Calls : pc[kill] = "cleanup" /\ sess[kill] = sess'[c]]_vars

\* delegation.go: revocation reaches a client whatever it is waiting for, so
\* no command is typed into a session the client no longer holds.
InjectionUnderDelegation ==
  [][\A c \in injected' \ injected : HeldBy(client[c], sess[c])]_vars

\* control.go: a client gives up its own delegation.
ReleasesOwn ==
  [][\A c \in Calls :
       (pc[c] = "delete" /\ pc'[c] = "done")
         => delegations[sess[c]] \in {found[c], None}]_vars

\* command_control.go: the command marked background is the one suspended.
ParksWhatItSuspended ==
  [][\A c \in Calls :
       (pc[c] = "park" /\ pc'[c] = "done")
         => \A h \in Calls \ {found[c]} : hstate'[h] = hstate[h]]_vars
=============================================================================
