------------------------------- MODULE FanOut -------------------------------
(***************************************************************************)
(* What clients that got in do with hosts                                  *)
(* (src/internal/core/service/aicontrol/connect.go, connection_scopes.go): *)
(* connect_host opens a session to a host once the user agrees, and        *)
(* request_connection_scope asks once for several hosts, which connect_host *)
(* then opens without asking, up to a number of sessions at a time.        *)
(*                                                                         *)
(* A session and a scope are named after the call that made them.  The     *)
(* wait for an approval is AIControl's, here it is its outcome.            *)
(***************************************************************************)
EXTENDS McpServer

CONSTANTS Connects,  \* calls of connect_host
          Scopings,  \* calls of request_connection_scope
          Hosts,     \* the saved hosts
          Asks       \* what the calls ask for: the host, or the set of hosts

ASSUME CallConstants ==
  /\ Connects \cap Scopings = {} /\ None \notin Connects \cup Scopings
  /\ "lister" \notin Connects /\ Scopings \cap {"own", "none"} = {}
  /\ IsFiniteSet(Connects) /\ IsFiniteSet(Hosts)
  /\ \A k \in Connects : Asks[k] \in Hosts
  /\ \A k \in Scopings : Asks[k] \in SUBSET Hosts \ {{}}

VARIABLES kpc,    \* where each call is
          caller, \* the client it acts for
          agreed, \* the calls whose request the user approved
          scopes, \* Service.scopes: of each client, the call that made it
          auto,   \* the scope under which a call need not ask
          seen,   \* the sessions a count of delegations has found alive
          held,   \* Service.delegations: the scope each was made under
          alive,  \* the sessions of session.Service
          lister, \* ListConnectionScopes: where it is and the scopes it copied
          crossed \* history: was a count made while another was in use?

callVars == <<kpc, caller, agreed, auto>>
fanVars == <<callVars, scopes, seen, held, alive, lister, crossed>>
vars == <<serverVars, fanVars>>
-----------------------------------------------------------------------------
Calls == Connects \cup Scopings
Own == "own"    \* a delegation the user approved for itself
Free == "none"  \* no delegation
Lister == "lister"

FanInit ==
  /\ kpc = [k \in Calls |-> "idle"] /\ caller = [k \in Calls |-> None] /\ agreed = {}
  /\ scopes = [n \in Names |-> None] /\ auto = [k \in Connects |-> None]
  /\ seen = [k \in Connects \cup {Lister} |-> {}]
  /\ held = [k \in Connects |-> Free] /\ alive = {}
  /\ lister = [at |-> "idle", todo |-> {}] /\ crossed = FALSE

Init == ServerInit /\ FanInit

MaxConcurrent(s) == Cardinality(Asks[s])
Under(s) == {k \in Connects : held[k] = s}

\* Is a count taken, or made and not yet followed by its delegation?
InUse ==
  \/ lister.at = "count"
  \/ \E k \in Connects : auto[k] # None /\ kpc[k] \in {"count", "create", "enter"}

Goes(k, to) == kpc' = [kpc EXCEPT ![k] = to]

\* HandleSession hands the call on under the client of its connection.
Call(k) ==
  /\ kpc[k] = "idle" /\ k \in scene.calls
  /\ \E c \in Conns :
       /\ spc[c] = "session" /\ link[c] = "open"
       /\ caller' = [caller EXCEPT ![k] = client[c]]
  /\ Goes(k, IF k \in Connects THEN "check" ELSE "ask")
  /\ UNCHANGED <<serverVars, agreed, auto, scopes, seen, held, alive, lister, crossed>>

\* Mutant: the scope of any client is good.
AnyonesScope(k) ==
  /\ kpc[k] = "check"
  /\ \E n \in Names :
       IF scopes[n] # None /\ Asks[k] \in Asks[scopes[n]]
         THEN auto' = [auto EXCEPT ![k] = scopes[n]] /\ Goes(k, "snapshot")
         ELSE UNCHANGED auto /\ Goes(k, "ask")
  /\ UNCHANGED <<serverVars, caller, agreed, scopes, seen, held, alive, lister, crossed>>

\* checkConnectionScope finds the scope ...
FindScope(k) ==
  /\ kpc[k] = "check"
  /\ LET s == scopes[caller[k]]
     IN  IF s # None /\ Asks[k] \in Asks[s]
           THEN auto' = [auto EXCEPT ![k] = s] /\ Goes(k, "snapshot")
           ELSE UNCHANGED auto /\ Goes(k, "ask")
  /\ UNCHANGED <<serverVars, caller, agreed, scopes, seen, held, alive, lister, crossed>>

\* ... and liveDelegationCountForScope takes what sessions there are ...
Snapshot(k) ==
  /\ kpc[k] = "snapshot"
  /\ seen' = [seen EXCEPT ![k] = alive]
  /\ Goes(k, "count")
  /\ crossed' = (crossed \/ InUse)
  /\ UNCHANGED <<serverVars, caller, agreed, auto, scopes, held, alive, lister>>

Reaped(s, found) ==
  [k \in Connects |-> IF held[k] = s /\ k \notin found THEN Free ELSE held[k]]

\* Mutant: one session too many is let through.
CountOffByOne(k) ==
  /\ kpc[k] = "count"
  /\ IF Cardinality(Under(auto[k]) \cap seen[k]) <= MaxConcurrent(auto[k])
       THEN UNCHANGED auto /\ Goes(k, "create")
       ELSE auto' = [auto EXCEPT ![k] = None] /\ Goes(k, "ask")
  /\ held' = Reaped(auto[k], seen[k])
  /\ UNCHANGED <<serverVars, caller, agreed, scopes, seen, alive, lister, crossed>>

\* ... and then counts those of the scope among them, dropping the others.
Count(k) ==
  /\ kpc[k] = "count"
  /\ IF Cardinality(Under(auto[k]) \cap seen[k]) < MaxConcurrent(auto[k])
       THEN UNCHANGED auto /\ Goes(k, "create")
       ELSE auto' = [auto EXCEPT ![k] = None] /\ Goes(k, "ask")
  /\ held' = Reaped(auto[k], seen[k])
  /\ UNCHANGED <<serverVars, caller, agreed, scopes, seen, alive, lister, crossed>>

\* The user answers, or nobody does.
Approve(k) ==
  /\ kpc[k] = "ask"
  /\ agreed' = agreed \cup {k}
  /\ Goes(k, IF k \in Connects THEN "create" ELSE "grant")
  /\ UNCHANGED <<serverVars, caller, auto, scopes, seen, held, alive, lister, crossed>>

Decline(k) ==
  /\ kpc[k] = "ask"
  /\ Goes(k, "done")
  /\ UNCHANGED <<serverVars, caller, agreed, auto, scopes, seen, held, alive, lister, crossed>>

\* CreateSSH: the session is in the table before its dial has succeeded.
Create(k) ==
  /\ kpc[k] = "create"
  /\ \/ alive' = alive \cup {k} /\ Goes(k, "enter")
     \/ UNCHANGED alive /\ Goes(k, "done")
  /\ UNCHANGED <<serverVars, caller, agreed, auto, scopes, seen, held, lister, crossed>>

Enter(k) ==
  /\ kpc[k] = "enter"
  /\ held' = [held EXCEPT ![k] = IF auto[k] = None THEN Own ELSE auto[k]]
  /\ Goes(k, "done")
  /\ UNCHANGED <<serverVars, caller, agreed, auto, scopes, seen, alive, lister, crossed>>

\* RequestConnectionScope: an earlier scope of the client is overwritten.
GrantScope(k) ==
  /\ kpc[k] = "grant"
  /\ scopes' = [scopes EXCEPT ![caller[k]] = k]
  /\ Goes(k, "done")
  /\ UNCHANGED <<serverVars, caller, agreed, auto, seen, held, alive, lister, crossed>>

\* The control panel looks at the scopes.
List ==
  /\ lister.at = "idle"
  /\ lister' = [at |-> "snapshot", todo |-> {scopes[n] : n \in Names} \ {None}]
  /\ UNCHANGED <<serverVars, callVars, scopes, seen, held, alive, crossed>>

ListSnapshot ==
  /\ lister.at = "snapshot"
  /\ IF lister.todo = {}
       THEN lister' = [at |-> "idle", todo |-> {}] /\ UNCHANGED <<seen, crossed>>
       ELSE /\ lister' = [at |-> "count", todo |-> lister.todo]
            /\ seen' = [seen EXCEPT ![Lister] = alive]
            /\ crossed' = (crossed \/ InUse)
  /\ UNCHANGED <<serverVars, callVars, scopes, held, alive>>

ListCount ==
  /\ lister.at = "count"
  /\ \E s \in lister.todo :
       /\ held' = Reaped(s, seen[Lister])
       /\ lister' = [at |-> "snapshot", todo |-> lister.todo \ {s}]
  /\ UNCHANGED <<serverVars, callVars, scopes, seen, alive, crossed>>

\* A session ends by itself, or the user closes it.
SessionEnds(k) ==
  /\ k \in alive
  /\ alive' = alive \ {k}
  /\ UNCHANGED <<serverVars, callVars, scopes, seen, held, lister, crossed>>

\* ReleaseControl, KillControl and SweepExpired take the delegation; a kill
\* closes the session afterwards, which SessionEnds does.
LoseControl(k) ==
  /\ held[k] # Free
  /\ held' = [held EXCEPT ![k] = Free]
  /\ UNCHANGED <<serverVars, callVars, scopes, seen, alive, lister, crossed>>
-----------------------------------------------------------------------------
CallStep(k) ==
  \/ Approve(k) \/ Decline(k)
  \/ k \in Connects /\ (FindScope(k) \/ Snapshot(k) \/ Count(k) \/ Create(k) \/ Enter(k))
  \/ k \in Scopings /\ GrantScope(k)

Next ==
  \/ ServerStep /\ UNCHANGED fanVars
  \/ \E k \in Calls : Call(k) \/ CallStep(k)
  \/ \E k \in Connects : SessionEnds(k) \/ LoseControl(k)
  \/ List \/ ListSnapshot \/ ListCount

Spec == Init /\ [][Next]_vars

\* Goroutines run, and every wait for the user has a timeout.
FairSpec ==
  /\ Spec
  /\ \A c \in Conns : WF_vars(ServerGoroutine(c) /\ UNCHANGED fanVars)
  /\ WF_vars((CloseListener \/ CloseConnections) /\ UNCHANGED fanVars)
-----------------------------------------------------------------------------
(* Properties.                                                              *)

\* The server's types, and those of the calls, their scopes and delegations.
TypeOK ==
  /\ ServerTypeOK
  /\ kpc \in [Calls -> {"idle", "check", "snapshot", "count", "ask", "create", "enter",
                        "grant", "done"}]
  /\ caller \in [Calls -> Names \cup {None}] /\ agreed \subseteq Calls
  /\ scopes \in [Names -> Scopings \cup {None}] /\ auto \in [Connects -> Scopings \cup {None}]
  /\ seen \in [Connects \cup {Lister} -> SUBSET Connects]
  /\ held \in [Connects -> Scopings \cup {Own, Free}] /\ alive \subseteq Connects
  /\ lister \in [at : {"idle", "snapshot", "count"}, todo : SUBSET Scopings]
  /\ crossed \in BOOLEAN

\* Every session that was opened for an AI client was agreed to by the user:
\* either this one, or a batch of that very client which names its host, however
\* scopes were replaced and sessions ended in between.  And the client is one
\* whose pairing the user approved.
Covers(s, k) ==
  /\ s \in agreed /\ caller[s] = caller[k] /\ Asks[k] \in Asks[s]
SessionsAreAgreed ==
  \A k \in Connects :
    (k \in alive \/ kpc[k] = "enter" \/ held[k] # Free) =>
      /\ k \in agreed \/ (\E s \in Scopings : auto[k] = s /\ Covers(s, k))
      /\ caller[k] \in saved

\* connect.go: a scope's sessions stay within its cap, whatever sessions end and
\* delegations are lost or reaped, as long as no two counts overlap.  (Nothing
\* in the code keeps them apart, see CapIsKept.)
OverCap(s) == Cardinality(Under(s) \cap alive) > MaxConcurrent(s)
CapIsKeptUncrossed == ~crossed => \A s \in Scopings : ~OverCap(s)
-----------------------------------------------------------------------------
(* What comments of the code say and the code does not do.                  *)

\* connect.go: a delegation is reaped when its session no longer exists.  One
\* that another call has entered since the sessions were listed is reaped too,
\* and its client loses the session it was just given.
ReapsOnlyTheDead ==
  [][(\E j \in Connects : Count(j)) \/ ListCount =>
       \A k \in Connects : held[k] # Free /\ held'[k] = Free => k \notin alive]_vars

\* connect.go: with the cap reached, connect_host asks the user.  Calls that run
\* side by side all count before any of them enters its delegation.
CapIsKept == \A s \in Scopings : ~OverCap(s)
=============================================================================
