--------------------------- MODULE ShareProvider ---------------------------
(***************************************************************************)
(* Package share, service.go and provider.go, with the server and announcer *)
(* it drives: this instance shares its hosts with peers on the local        *)
(* network.  The user turns sharing on and off, renames the device, answers *)
(* pairing requests and revokes clients, each call in its own goroutine;    *)
(* every HTTP request is served in a goroutine of its server.               *)
(*                                                                          *)
(* A step is one critical section of s.mu, of the server's or announcer's   *)
(* mutex, or one call of a repository.  A server and a PIN are named by the *)
(* EnableSharing call that made them, a token by the request it answers.    *)
(***************************************************************************)
EXTENDS Naturals, FiniteSets

CONSTANTS
  Requests,     \* pairing requests of peers
  Gui,          \* calls of the user
  Interfaces,   \* the private addresses, each with a listener and a server
  MaxFailures,  \* maxPinFailures (5 in the code)
  Faults,       \* may repositories, sockets and mDNS fail?
  None

ASSUME NoneAssumption == None \notin Requests \cup Gui \cup {"wrong"}
ASSUME InterfacesAssumption == Interfaces # {}
ASSUME FailuresAssumption == MaxFailures \in Nat \ {0}
ASSUME FaultsAssumption == Faults \in BOOLEAN

VARIABLES
  enabled, pin, failures, locked,    \* the service
  server, listening,                 \* Server.servers; the listeners that accept
  ad, ads,                           \* Announcer.server; the live registrations
  gpc, gop, taken,                   \* the user's calls; the server one stops
  wire,                              \* a request as its client sees it
  rpc, via, given, expected,         \* its handler, listener, and the two PINs
  pending, chan, first,              \* approvals
  tokens, revoked                    \* the clients table

switchVars == <<enabled, pin, failures, locked>>
serverVars == <<server, listening>>
adVars == <<ad, ads>>
guiVars == <<gpc, gop, taken>>
handlerVars == <<rpc, via, given, expected>>
askVars == <<pending, chan, first>>
tableVars == <<tokens, revoked>>
vars == <<switchVars, serverVars, adVars, guiVars, wire, handlerVars, askVars, tableVars>>

Answers == {"yes", "no"}
GuiPCs == {"idle", "start", "announce", "commit", "silence", "stop", "close", "drain", "done"}
HandlerPCs == {"off", "check", "compare", "await", "issue", "grant", "refuse", "done"}

TypeOK ==
  /\ enabled \in BOOLEAN /\ locked \in BOOLEAN
  /\ pin \in Gui \cup {None}
  /\ failures \in 0..MaxFailures - 1
  /\ server \in Gui \cup {None} /\ listening \subseteq Gui \X Interfaces
  /\ ad \in Gui \cup {None} /\ ads \subseteq Gui
  /\ gpc \in [Gui -> GuiPCs]
  /\ gop \in [Gui -> {"Enable", "Disable", "Rename", "Revoke", None}]
  /\ taken \in [Gui -> Gui \cup {None}]
  /\ wire \in [Requests -> {"new", "sent", "gone", "token", "refused"}]
  /\ rpc \in [Requests -> HandlerPCs]
  /\ via \in [Requests -> (Gui \X Interfaces) \cup {None}]
  /\ given \in [Requests -> Gui \cup {None, "wrong"}]
  /\ expected \in [Requests -> Gui \cup {None}]
  /\ pending \subseteq Requests
  /\ chan \in [Requests -> Answers \cup {"empty"}]
  /\ first \in [Requests -> Answers \cup {"none"}]
  /\ tokens \subseteq Requests /\ revoked \subseteq Requests

Init ==
  /\ enabled = FALSE /\ pin = None /\ failures = 0 /\ locked = FALSE
  /\ server = None /\ listening = {}
  /\ ad = None /\ ads = {}
  /\ gpc = [g \in Gui |-> "idle"]
  /\ gop = [g \in Gui |-> None]
  /\ taken = [g \in Gui |-> None]
  /\ wire = [r \in Requests |-> "new"]
  /\ rpc = [r \in Requests |-> "off"]
  /\ via = [r \in Requests |-> None]
  /\ given = [r \in Requests |-> None]
  /\ expected = [r \in Requests |-> None]
  /\ pending = {}
  /\ chan = [r \in Requests |-> "empty"]
  /\ first = [r \in Requests |-> "none"]
  /\ tokens = {} /\ revoked = {}
-----------------------------------------------------------------------------
(* The user's calls.                                                        *)

Call(g, o, at) ==
  /\ gpc[g] = "idle"
  /\ gpc' = [gpc EXCEPT ![g] = at]
  /\ gop' = [gop EXCEPT ![g] = o]
  /\ UNCHANGED taken

Goto(g, from, to) ==
  /\ gpc[g] = from
  /\ gpc' = [gpc EXCEPT ![g] = to]
  /\ UNCHANGED gop

\* EnableSharing: a fresh PIN; only the first of two calls starts the server.
EnableSharing(g) ==
  /\ Call(g, "Enable", IF enabled THEN "done" ELSE "start")
  /\ pin' = g /\ failures' = 0 /\ locked' = FALSE
  /\ UNCHANGED <<enabled, serverVars, adVars, wire, handlerVars, askVars, tableVars>>

\* Server.Start: an error when it runs already, or when binding fails.
StartServer(g) ==
  /\ \/ /\ server = None
        /\ Goto(g, "start", "announce")
        /\ server' = g
        /\ listening' = listening \cup ({g} \X Interfaces)
     \/ /\ server # None \/ Faults
        /\ Goto(g, "start", "done")
        /\ UNCHANGED serverVars
  /\ UNCHANGED <<switchVars, adVars, taken, wire, handlerVars, askVars, tableVars>>

\* Announce, for EnableSharing and at the end of SetDeviceName.  A call that
\* fails stops the server it started, or just returns.
Announce(g) ==
  LET renaming == gop[g] = "Rename" IN
  /\ \/ /\ Goto(g, "announce", IF renaming THEN "done" ELSE "commit")
        /\ ads' = ads \cup {g}
        /\ ad' = g
     \/ /\ Faults
        /\ Goto(g, "announce", IF renaming THEN "done" ELSE "stop")
        /\ UNCHANGED adVars
  /\ UNCHANGED <<switchVars, serverVars, taken, wire, handlerVars, askVars, tableVars>>

Commit(g) ==
  /\ Goto(g, "commit", "done")
  /\ enabled' = TRUE
  /\ UNCHANGED <<pin, failures, locked, serverVars, adVars, taken, wire, handlerVars,
                 askVars, tableVars>>

\* Mutant: sharing is off only once the server has stopped.
DisableLater(g) ==
  /\ enabled
  /\ Call(g, "Disable", "silence")
  /\ pin' = None
  /\ UNCHANGED <<enabled, failures, locked, serverVars, adVars, wire, handlerVars, askVars,
                 tableVars>>

DisableSharing(g) ==
  /\ enabled
  /\ Call(g, "Disable", "silence")
  /\ enabled' = FALSE
  /\ pin' = None
  /\ UNCHANGED <<failures, locked, serverVars, adVars, wire, handlerVars, askVars, tableVars>>

\* SetDeviceName looks at enabled and advertises the new name.
SetDeviceName(g) ==
  /\ enabled
  /\ Call(g, "Rename", "silence")
  /\ UNCHANGED <<switchVars, serverVars, adVars, wire, handlerVars, askVars, tableVars>>

\* Announcer.Stop: the one registration the announcer knows.
StopAnnouncer(g) ==
  /\ Goto(g, "silence", IF gop[g] = "Rename" THEN "announce" ELSE "stop")
  /\ ads' = ads \ {ad}
  /\ ad' = None
  /\ UNCHANGED <<switchVars, serverVars, taken, wire, handlerVars, askVars, tableVars>>

\* Server.Stop, under its mutex ...
TakeServers(g) ==
  /\ Goto(g, "stop", "close")
  /\ taken' = [taken EXCEPT ![g] = server]
  /\ server' = None
  /\ UNCHANGED <<switchVars, listening, adVars, wire, handlerVars, askVars, tableVars>>

\* ... and outside, one address after the other: Shutdown closes the listener
\* and waits for the handlers it let in, while those not shut down yet accept.
Shutdown(g, i) ==
  /\ Goto(g, "close", "drain")
  /\ <<taken[g], i>> \in listening
  /\ listening' = listening \ {<<taken[g], i>>}
  /\ UNCHANGED <<switchVars, server, adVars, taken, wire, handlerVars, askVars, tableVars>>

Serving(r) == rpc[r] \notin {"off", "done"}

ShutdownEnds(g) ==
  /\ Goto(g, "drain", "close")
  /\ \A r \in Requests, i \in Interfaces :
       via[r] = <<taken[g], i>> /\ via[r] \notin listening => ~Serving(r)
  /\ UNCHANGED <<switchVars, serverVars, adVars, taken, wire, handlerVars, askVars, tableVars>>

StopEnds(g) ==
  /\ Goto(g, "close", "done")
  /\ \A i \in Interfaces : <<taken[g], i>> \notin listening
  /\ UNCHANGED <<switchVars, serverVars, adVars, taken, wire, handlerVars, askVars, tableVars>>

RevokeClient(g, r) ==
  /\ r \in tokens
  /\ Call(g, "Revoke", "done")
  /\ tokens' = tokens \ {r}
  /\ revoked' = revoked \cup {r}
  /\ UNCHANGED <<switchVars, serverVars, adVars, wire, handlerVars, askVars>>
-----------------------------------------------------------------------------
(* HandlePair.                                                              *)

HandlerGoto(r, from, to) ==
  /\ rpc[r] = from
  /\ rpc' = [rpc EXCEPT ![r] = to]

\* The server takes the request.
Accept(r) ==
  /\ wire[r] = "sent"
  /\ HandlerGoto(r, "off", "check")
  /\ \E l \in listening : via' = [via EXCEPT ![r] = l]
  /\ UNCHANGED <<switchVars, serverVars, adVars, guiVars, wire, given, expected, askVars, tableVars>>

CheckEnabled(r) ==
  /\ \/ /\ enabled /\ ~locked
        /\ HandlerGoto(r, "check", "compare")
        /\ expected' = [expected EXCEPT ![r] = pin]
     \/ /\ ~enabled \/ locked
        /\ HandlerGoto(r, "check", "refuse")
        /\ UNCHANGED expected
  /\ UNCHANGED <<switchVars, serverVars, adVars, guiVars, wire, via, given, askVars, tableVars>>

\* The comparison is outside the lock, its consequence inside.
WrongPin(r) ==
  /\ given[r] # expected[r]
  /\ HandlerGoto(r, "compare", "refuse")
  /\ failures' = (failures + 1) % MaxFailures
  /\ locked' = (locked \/ failures + 1 = MaxFailures)
  /\ UNCHANGED <<enabled, pin, serverVars, adVars, guiVars, wire, via, given, expected,
                 askVars, tableVars>>

\* Reset the count and, in the next critical section, register the question.
RightPin(r) ==
  /\ given[r] = expected[r]
  /\ HandlerGoto(r, "compare", "await")
  /\ failures' = 0
  /\ pending' = pending \cup {r}
  /\ UNCHANGED <<enabled, pin, locked, serverVars, adVars, guiVars, wire, via, given,
                 expected, chan, first, tableVars>>

Leave(r, to) ==
  /\ HandlerGoto(r, "await", to)
  /\ pending' = pending \ {r}
  /\ UNCHANGED <<switchVars, serverVars, adVars, guiVars, wire, via, given, expected, tableVars>>

\* Mutant: a no is read as an answer like any other.
AnyAnswerIssues(r) ==
  /\ chan[r] # "empty"
  /\ Leave(r, "issue")
  /\ chan' = [chan EXCEPT ![r] = "empty"]
  /\ UNCHANGED first

TakeAnswer(r) ==
  /\ chan[r] # "empty"
  /\ Leave(r, IF chan[r] = "yes" THEN "issue" ELSE "refuse")
  /\ chan' = [chan EXCEPT ![r] = "empty"]
  /\ UNCHANGED first

\* Mutant: nothing but the user's answer ends the wait.
NoTimeout(r) ==
  /\ chan[r] # "empty"
  /\ Leave(r, "refuse")
  /\ UNCHANGED <<chan, first>>

\* A minute passes, or the client has disconnected.
GiveUpWaiting(r) ==
  /\ Leave(r, "refuse")
  /\ UNCHANGED <<chan, first>>

IssueToken(r) ==
  /\ \/ /\ HandlerGoto(r, "issue", "grant")
        /\ tokens' = tokens \cup {r}
     \/ /\ Faults
        /\ HandlerGoto(r, "issue", "refuse")
        /\ UNCHANGED tokens
  /\ UNCHANGED <<switchVars, serverVars, adVars, guiVars, wire, via, given, expected, askVars, revoked>>

\* The response reaches a client that is still there.
Reply(r) ==
  /\ rpc[r] \in {"grant", "refuse"}
  /\ rpc' = [rpc EXCEPT ![r] = "done"]
  /\ wire' = IF wire[r] = "gone" THEN wire
             ELSE [wire EXCEPT ![r] = IF rpc[r] = "grant" THEN "token" ELSE "refused"]
  /\ UNCHANGED <<switchVars, serverVars, adVars, guiVars, via, given, expected, askVars, tableVars>>

\* RespondPairing: a non-blocking send; the handler may have left since the
\* look-up, which changes nothing anybody reads.
RespondPairing(r, a) ==
  /\ r \in pending
  /\ chan[r] = "empty"
  /\ chan' = [chan EXCEPT ![r] = a]
  /\ first' = [first EXCEPT ![r] = IF @ = "none" THEN a ELSE @]
  /\ UNCHANGED <<switchVars, serverVars, adVars, guiVars, wire, handlerVars, pending, tableVars>>

LockExpires ==
  /\ locked
  /\ locked' = FALSE
  /\ UNCHANGED <<enabled, pin, failures, serverVars, adVars, guiVars, wire, handlerVars, askVars, tableVars>>
-----------------------------------------------------------------------------
(* The peers: one sends a request with the PIN it was told, or a wrong one, *)
(* and may go away at any moment.                                           *)

Send(r) ==
  /\ wire[r] = "new"
  /\ wire' = [wire EXCEPT ![r] = "sent"]
  /\ \E p \in {pin, "wrong"} : given' = [given EXCEPT ![r] = p]
  /\ UNCHANGED <<switchVars, serverVars, adVars, guiVars, rpc, via, expected, askVars, tableVars>>

Disconnect(r) ==
  /\ wire[r] = "sent"
  /\ wire' = [wire EXCEPT ![r] = "gone"]
  /\ UNCHANGED <<switchVars, serverVars, adVars, guiVars, handlerVars, askVars, tableVars>>
-----------------------------------------------------------------------------
User(g) ==
  \/ EnableSharing(g) \/ DisableSharing(g) \/ SetDeviceName(g)
  \/ \E r \in Requests : RevokeClient(g, r)

GuiStep(g) ==
  \/ StartServer(g) \/ Announce(g) \/ Commit(g) \/ StopAnnouncer(g)
  \/ TakeServers(g) \/ (\E i \in Interfaces : Shutdown(g, i)) \/ ShutdownEnds(g) \/ StopEnds(g)

Handle(r) ==
  \/ CheckEnabled(r) \/ WrongPin(r) \/ RightPin(r)
  \/ TakeAnswer(r) \/ GiveUpWaiting(r) \/ IssueToken(r) \/ Reply(r)

Provide ==
  \/ \E g \in Gui : User(g) \/ GuiStep(g)
  \/ \E r \in Requests : Accept(r) \/ Handle(r) \/ \E a \in Answers : RespondPairing(r, a)
  \/ LockExpires

Next == Provide \/ \E r \in Requests : Send(r) \/ Disconnect(r)

Spec == Init /\ [][Next]_vars

\* Goroutines are scheduled, and the wait for the user is bounded.
Goroutines == (\E g \in Gui : GuiStep(g)) \/ (\E r \in Requests : Handle(r))
FairSpec == Spec /\ WF_vars(Goroutines)
-----------------------------------------------------------------------------
(* Properties.                                                              *)

\* However calls to turn sharing on and off overlap and fail: while it is on
\* the server accepts on every address; while it is off a server is one that a
\* call is about to commit or to stop; and what accepts otherwise belongs to a
\* server that a call is shutting down.
Owns(g) ==
  \/ gop[g] = "Enable" /\ gpc[g] \in {"announce", "commit", "stop"}
  \/ gop[g] = "Disable" /\ gpc[g] \in {"silence", "stop"}
Closing == {taken[g] : g \in {h \in Gui : gpc[h] \in {"close", "drain"}}}
ServesWhileEnabled ==
  /\ enabled => server # None /\ {server} \X Interfaces \subseteq listening
  /\ ~enabled => server = None \/ \E g \in Gui : Owns(g)
  /\ listening \subseteq (Closing \cup {server}) \X Interfaces

\* A token is issued to the request the user said yes to, whose PIN was right,
\* and never after a no that came first.
IssuedIsApproved ==
  \A r \in tokens : first[r] = "yes" /\ given[r] = expected[r]

\* Turning sharing off waits for handlers that wait for the user: still, every
\* call returns and every request is answered.
CallsReturn == \A g \in Gui : gpc[g] # "idle" ~> gpc[g] = "done"
RequestsReturn == \A r \in Requests : rpc[r] # "off" ~> rpc[r] = "done"
-----------------------------------------------------------------------------
(* What comments of the code say and the code does not do.                  *)

Quiet == \A g \in Gui : gpc[g] \in {"idle", "done"}

\* port/in/share.go: turning sharing on makes a fresh PIN.
EnabledHasPin == enabled => pin # None

\* port/out/share.go: the instance is advertised while sharing is enabled.
AdvertisedWhileEnabled == (Quiet /\ ads # {}) => enabled

\* provider.go: a token is never issued for a peer that already gave up.
NoTokenForTheAbsent == [][\A r \in tokens' \ tokens : wire[r] # "gone"]_vars
=============================================================================
