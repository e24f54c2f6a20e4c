---------------------------- MODULE ShareProofs ----------------------------
(***************************************************************************)
(* Sharing serves while it is on, however the user's calls overlap and      *)
(* fail: theorem Serves.  The service never holds s.mu across a call of the *)
(* server, so what keeps the calls apart is the server itself, which one    *)
(* call at a time has started or is about to stop: its owner.               *)
(*                                                                          *)
(* A token is issued to an approved request alone: theorem Approved.  And   *)
(* what the two ends do together are steps of each (ProviderInShare,        *)
(* ConsumerInShare), so that the approval holds for what the peer keeps:    *)
(* theorem Paired.                                                          *)
(***************************************************************************)
EXTENDS Share, TLAPS

\* The user's calls and what they share, by type.
SwitchTyped ==
  /\ gpc \in [Gui -> GuiPCs]
  /\ gop \in [Gui -> {"Enable", "Disable", "Rename", "Revoke", None}]
  /\ taken \in [Gui -> Gui \cup {None}]
  /\ server \in Gui \cup {None} /\ listening \subseteq Gui \X Interfaces
  /\ enabled \in BOOLEAN

\* What a call can be doing at each step.
Doing ==
  \A g \in Gui :
    /\ gpc[g] \in {"start", "commit"} => gop[g] = "Enable"
    /\ gpc[g] = "announce" => gop[g] \in {"Enable", "Rename"}
    /\ gpc[g] = "silence" => gop[g] \in {"Disable", "Rename"}
    /\ gpc[g] = "stop" => gop[g] \in {"Enable", "Disable"}

\* One owner at most, of a running server, while sharing is not (yet, or any
\* more) on.
SoleOwner == \A g, h \in Gui : Owns(g) /\ Owns(h) => g = h
OwnerHolds == \A g \in Gui : Owns(g) => ~enabled /\ server # None

\* The server that runs accepts on every address, and is none that a call has
\* taken to shut it down; a call that has not started its server has not done so.
Accepts == server # None => {server} \X Interfaces \subseteq listening
TakenIsGone == server # None => \A g \in Gui : taken[g] # server
Unstarted ==
  \A g \in Gui : gpc[g] \in {"idle", "start"} => server # g /\ \A h \in Gui : taken[h] # g

OnHasServer == enabled => server # None
OffIsOwned == ~enabled => server = None \/ \E g \in Gui : Owns(g)
ClosingListen == \A l \in listening : l[1] \in Closing \cup {server}

IInv ==
  /\ SwitchTyped /\ Doing /\ SoleOwner /\ OwnerHolds
  /\ Accepts /\ TakenIsGone /\ Unstarted
  /\ OnHasServer /\ OffIsOwned /\ ClosingListen
-----------------------------------------------------------------------------
LEMMA InitInv == Init => IInv
<1> SUFFICES ASSUME Init PROVE IInv
  OBVIOUS
<1> USE NoneAssumption DEF Init, IInv
<1>1. SwitchTyped
  BY DEF SwitchTyped, GuiPCs
<1>2. Doing /\ SoleOwner /\ OwnerHolds
  BY DEF Doing, SoleOwner, OwnerHolds, Owns
<1>3. Accepts /\ TakenIsGone /\ Unstarted
  BY DEF Accepts, TakenIsGone, Unstarted
<1>4. OnHasServer /\ OffIsOwned /\ ClosingListen
  BY DEF OnHasServer, OffIsOwned, ClosingListen
<1>5. QED
  BY <1>1, <1>2, <1>3, <1>4

\* Handlers and peers touch nothing of this.
LEMMA Frame ==
  IInv /\ UNCHANGED <<enabled, serverVars, guiVars>> => IInv'
BY DEF IInv, SwitchTyped, Doing, SoleOwner, OwnerHolds, Accepts, TakenIsGone, Unstarted,
   OnHasServer, OffIsOwned, ClosingListen, Owns, Closing, serverVars, guiVars

LEMMA HandlersFrame ==
  (\E r \in Requests : Accept(r) \/ Handle(r) \/ Send(r) \/ Disconnect(r)
                      \/ \E a \in Answers : RespondPairing(r, a))
  \/ LockExpires \/ UNCHANGED vars
  => UNCHANGED <<enabled, serverVars, guiVars>>
BY DEF Accept, Handle, CheckEnabled, WrongPin, RightPin, TakeAnswer, GiveUpWaiting, Leave,
   IssueToken, Reply, RespondPairing, LockExpires, Send, Disconnect, vars, switchVars

\* A call that begins or moves between steps that own nothing, and touches
\* neither the switch nor the server.
LEMMA Begins ==
  ASSUME IInv, NEW g \in Gui, NEW o \in {"Enable", "Rename", "Revoke"},
         NEW at \in {"start", "silence", "done"}, Call(g, o, at),
         at = "start" => o = "Enable", at = "silence" => o = "Rename",
         UNCHANGED <<enabled, serverVars>>
  PROVE  IInv'
<1> USE NoneAssumption DEF IInv, Call, serverVars
<1>1. SwitchTyped'
  BY DEF SwitchTyped, GuiPCs
<1>2. Doing'
  BY DEF Doing, SwitchTyped
<1>3. \A h \in Gui : Owns(h)' <=> Owns(h)
  BY DEF Owns, SwitchTyped
<1>4. SoleOwner' /\ OwnerHolds' /\ OffIsOwned'
  BY <1>3 DEF SoleOwner, OwnerHolds, OffIsOwned
<1>5. Accepts' /\ TakenIsGone' /\ OnHasServer'
  BY DEF Accepts, TakenIsGone, OnHasServer
<1>6. Unstarted'
  BY DEF Unstarted, SwitchTyped
<1>7. ClosingListen'
  <2>1. Closing \subseteq Closing'
    BY DEF Closing, SwitchTyped
  <2>2. QED
    BY <2>1 DEF ClosingListen
<1>8. QED
  BY <1>1, <1>2, <1>4, <1>5, <1>6, <1>7

\* The same for a call that was at a step that owned nothing and closed
\* nothing.
LEMMA Moves ==
  ASSUME IInv, NEW g \in Gui, NEW from \in GuiPCs, NEW to \in GuiPCs, Goto(g, from, to),
         Owns(g)' <=> Owns(g), from \notin {"idle", "close", "drain"}, to \notin {"idle", "start", "silence"},
         to = "commit" => gop[g] = "Enable",
         to = "announce" => gop[g] \in {"Enable", "Rename"},
         to = "stop" => gop[g] \in {"Enable", "Disable"},
         UNCHANGED <<enabled, serverVars, taken>>
  PROVE  IInv'
<1> USE NoneAssumption DEF IInv, Goto, serverVars
<1>1. SwitchTyped'
  BY DEF SwitchTyped, GuiPCs
<1>2. Doing'
  BY DEF Doing, SwitchTyped
<1>3. \A h \in Gui : Owns(h)' <=> Owns(h)
  BY DEF Owns, SwitchTyped
<1>4. SoleOwner' /\ OwnerHolds' /\ OffIsOwned'
  BY <1>3 DEF SoleOwner, OwnerHolds, OffIsOwned
<1>5. Accepts' /\ TakenIsGone' /\ OnHasServer'
  BY DEF Accepts, TakenIsGone, OnHasServer
<1>6. Unstarted'
  BY DEF Unstarted, SwitchTyped
<1>7. ClosingListen'
  <2>1. Closing \subseteq Closing'
    BY DEF Closing, SwitchTyped
  <2>2. QED
    BY <2>1 DEF ClosingListen
<1>8. QED
  BY <1>1, <1>2, <1>4, <1>5, <1>6, <1>7
-----------------------------------------------------------------------------
(* The steps that change the switch or the server.                          *)

LEMMA DisableStep == ASSUME IInv, NEW g \in Gui, DisableSharing(g) PROVE IInv'
<1> USE NoneAssumption DEF IInv, DisableSharing, Call, serverVars
<1>1. SwitchTyped'
  BY DEF SwitchTyped, GuiPCs
<1>2. Doing'
  BY DEF Doing, SwitchTyped
<1>3. \A h \in Gui : ~Owns(h)
  BY DEF OwnerHolds, SwitchTyped
<1>4. \A h \in Gui : Owns(h)' <=> h = g
  BY <1>3 DEF Owns, SwitchTyped
<1>5. SoleOwner' /\ OffIsOwned'
  BY <1>4 DEF SoleOwner, OffIsOwned
<1>6. OwnerHolds' /\ OnHasServer' /\ Accepts' /\ TakenIsGone'
  BY DEF OwnerHolds, OnHasServer, Accepts, TakenIsGone
<1>7. Unstarted'
  BY DEF Unstarted, SwitchTyped
<1>8. ClosingListen'
  <2>1. Closing \subseteq Closing'
    BY DEF Closing, SwitchTyped
  <2>2. QED
    BY <2>1 DEF ClosingListen
<1>9. QED
  BY <1>1, <1>2, <1>5, <1>6, <1>7, <1>8

\* Nobody owns anything when no server runs, so the call that starts one is
\* the owner.
LEMMA StartStep ==
  ASSUME IInv, NEW g \in Gui, server = None, Goto(g, "start", "announce"),
         server' = g, listening' = listening \cup ({g} \X Interfaces), UNCHANGED <<enabled, taken>>
  PROVE  IInv'
<1> USE NoneAssumption DEF IInv, Goto
<1>1. SwitchTyped'
  BY DEF SwitchTyped, GuiPCs
<1>2. gop[g] = "Enable" /\ Doing'
  BY DEF Doing, SwitchTyped
<1>3. \A h \in Gui : Owns(h)' <=> h = g
  BY <1>2 DEF Owns, SwitchTyped, OwnerHolds
<1>4. SoleOwner' /\ OffIsOwned'
  BY <1>3 DEF SoleOwner, OffIsOwned
<1>5. OwnerHolds' /\ OnHasServer' /\ Accepts'
  BY DEF OwnerHolds, OnHasServer, Accepts, SwitchTyped
<1>6. TakenIsGone'
  BY DEF TakenIsGone, Unstarted, SwitchTyped
<1>7. Unstarted'
  BY DEF Unstarted, SwitchTyped
<1>8. ClosingListen'
  <2>1. Closing \subseteq Closing'
    BY DEF Closing, SwitchTyped
  <2>2. \A l \in listening : l[1] \in Closing
    BY DEF ClosingListen, SwitchTyped
  <2>3. QED
    BY <2>1, <2>2 DEF ClosingListen
<1>9. QED
  BY <1>1, <1>2, <1>4, <1>5, <1>6, <1>7, <1>8

LEMMA CommitStep == ASSUME IInv, NEW g \in Gui, Commit(g) PROVE IInv'
<1> USE NoneAssumption DEF IInv, Commit, Goto, serverVars
<1>1. SwitchTyped'
  BY DEF SwitchTyped, GuiPCs
<1>2. Doing'
  BY DEF Doing, SwitchTyped
<1>3. Owns(g)
  BY DEF Owns, Doing
<1>4. \A h \in Gui : ~Owns(h)'
  BY <1>3 DEF Owns, SwitchTyped, SoleOwner
<1>5. SoleOwner' /\ OffIsOwned' /\ OwnerHolds'
  BY <1>4 DEF SoleOwner, OffIsOwned, OwnerHolds
<1>6. OnHasServer' /\ Accepts' /\ TakenIsGone'
  BY <1>3 DEF OwnerHolds, OnHasServer, Accepts, TakenIsGone
<1>7. Unstarted'
  BY DEF Unstarted, SwitchTyped
<1>8. ClosingListen'
  <2>1. Closing \subseteq Closing'
    BY DEF Closing, SwitchTyped
  <2>2. QED
    BY <2>1 DEF ClosingListen
<1>9. QED
  BY <1>1, <1>2, <1>5, <1>6, <1>7, <1>8

\* The owner gives the server up and closes what it took.
LEMMA TakeStep == ASSUME IInv, NEW g \in Gui, TakeServers(g) PROVE IInv'
<1> USE NoneAssumption DEF IInv, TakeServers, Goto
<1>1. SwitchTyped'
  BY DEF SwitchTyped, GuiPCs, switchVars
<1>2. Doing'
  BY DEF Doing, SwitchTyped
<1>3. Owns(g) /\ enabled' = enabled
  BY DEF Owns, Doing, switchVars
<1>4. ~enabled' /\ server # None
  BY <1>3 DEF OwnerHolds, SwitchTyped
<1>5. \A h \in Gui : ~Owns(h)'
  BY <1>3 DEF Owns, SwitchTyped, SoleOwner
<1>6. SoleOwner' /\ OffIsOwned' /\ OwnerHolds'
  BY <1>5 DEF SoleOwner, OffIsOwned, OwnerHolds
<1>7. OnHasServer' /\ Accepts' /\ TakenIsGone'
  BY <1>4 DEF OnHasServer, Accepts, TakenIsGone
<1>8. Unstarted'
  BY DEF Unstarted, SwitchTyped
<1>9. ClosingListen'
  <2>1. Closing \cup {server} \subseteq Closing'
    BY DEF Closing, SwitchTyped
  <2>2. QED
    BY <2>1 DEF ClosingListen
<1>10. QED
  BY <1>1, <1>2, <1>6, <1>7, <1>8, <1>9

\* A call that shuts a server down goes on with the next address, or ends: what
\* it closes is not what runs.
LEMMA CloseStep ==
  ASSUME IInv, NEW g \in Gui,
         (\E i \in Interfaces : Shutdown(g, i)) \/ ShutdownEnds(g) \/ StopEnds(g)
  PROVE  IInv'
<1> USE NoneAssumption DEF IInv, Goto
<1>0. /\ UNCHANGED <<enabled, server, taken, gop>>
      /\ gpc[g] \in {"close", "drain"}
      /\ \E to \in {"close", "drain", "done"} : gpc' = [gpc EXCEPT ![g] = to]
      /\ listening' \subseteq listening
      /\ \A l \in listening : l[1] # taken[g] => l \in listening'
  <2>1. ASSUME NEW i \in Interfaces, Shutdown(g, i)
        PROVE  listening' \subseteq listening /\ \A l \in listening : l[1] # taken[g] => l \in listening'
    BY <2>1 DEF Shutdown
  <2>2. CASE ShutdownEnds(g) \/ StopEnds(g)
    BY <2>2 DEF ShutdownEnds, StopEnds, switchVars, serverVars
  <2>3. ASSUME NEW i \in Interfaces, Shutdown(g, i)
        PROVE  /\ UNCHANGED <<enabled, server, taken, gop>>
               /\ gpc[g] = "close" /\ gpc' = [gpc EXCEPT ![g] = "drain"]
    BY <2>3 DEF Shutdown, switchVars
  <2>4. QED
    BY <2>1, <2>2, <2>3
<1>1. SwitchTyped'
  BY <1>0 DEF SwitchTyped, GuiPCs
<1>2. Doing'
  BY <1>0 DEF Doing, SwitchTyped
<1>3. \A h \in Gui : Owns(h)' <=> Owns(h)
  BY <1>0 DEF Owns, SwitchTyped
<1>4. SoleOwner' /\ OwnerHolds' /\ OffIsOwned'
  BY <1>0, <1>3 DEF SoleOwner, OwnerHolds, OffIsOwned
<1>5. OnHasServer' /\ TakenIsGone'
  BY <1>0 DEF OnHasServer, TakenIsGone
<1>6. Accepts'
  BY <1>0 DEF Accepts, TakenIsGone
<1>7. Unstarted'
  BY <1>0 DEF Unstarted, SwitchTyped
<1>8. ClosingListen'
  <2>1. CASE \A l \in listening' : l[1] # taken[g]
    <3>1. Closing \subseteq Closing' \cup {taken[g]}
      BY <1>0 DEF Closing, SwitchTyped
    <3>2. QED
      BY <1>0, <2>1, <3>1 DEF ClosingListen
  <2>2. CASE gpc'[g] \in {"close", "drain"}
    <3>1. Closing \subseteq Closing'
      BY <1>0, <2>2 DEF Closing, SwitchTyped
    <3>2. QED
      BY <1>0, <3>1 DEF ClosingListen
  <2>3. StopEnds(g) => \A l \in listening' : l[1] # taken[g]
    BY DEF StopEnds, serverVars, SwitchTyped
  <2>4. ~StopEnds(g) => gpc'[g] \in {"close", "drain"}
    BY DEF Shutdown, ShutdownEnds, SwitchTyped
  <2>5. QED
    BY <2>1, <2>2, <2>3, <2>4
<1>9. QED
  BY <1>1, <1>2, <1>4, <1>5, <1>6, <1>7, <1>8
-----------------------------------------------------------------------------
LEMMA UserStep == ASSUME IInv, NEW g \in Gui, User(g) PROVE IInv'
<1> USE DEF IInv
<1>1. CASE EnableSharing(g)
  <2>1. Call(g, "Enable", IF enabled THEN "done" ELSE "start") /\ UNCHANGED <<enabled, serverVars>>
    BY <1>1 DEF EnableSharing
  <2>2. QED
    BY <2>1, Begins DEF SwitchTyped
<1>2. CASE DisableSharing(g)
  BY <1>2, DisableStep
<1>3. CASE SetDeviceName(g)
  <2>1. Call(g, "Rename", "silence") /\ UNCHANGED <<enabled, serverVars>>
    BY <1>3 DEF SetDeviceName, switchVars
  <2>2. QED
    BY <2>1, Begins
<1>4. CASE \E r \in Requests : RevokeClient(g, r)
  <2>1. Call(g, "Revoke", "done") /\ UNCHANGED <<enabled, serverVars>>
    BY <1>4 DEF RevokeClient, switchVars
  <2>2. QED
    BY <2>1, Begins
<1>5. QED
  BY <1>1, <1>2, <1>3, <1>4 DEF User

LEMMA GuiStepStep == ASSUME IInv, NEW g \in Gui, GuiStep(g) PROVE IInv'
<1> USE DEF IInv, GuiPCs
<1>1. CASE StartServer(g)
  <2>1. CASE server = None /\ Goto(g, "start", "announce")
             /\ server' = g /\ listening' = listening \cup ({g} \X Interfaces)
    BY <1>1, <2>1, StartStep DEF StartServer, switchVars
  <2>2. CASE Goto(g, "start", "done") /\ UNCHANGED serverVars
    <3>1. ~Owns(g) /\ ~Owns(g)'
      BY <2>2 DEF Owns, Goto, SwitchTyped
    <3>2. QED
      BY <1>1, <2>2, <3>1, Moves DEF StartServer, switchVars
  <2>3. QED
    BY <1>1, <2>1, <2>2 DEF StartServer
<1>2. CASE Announce(g)
  <2>1. CASE gop[g] = "Rename"
    <3>1. Goto(g, "announce", "done") /\ UNCHANGED <<enabled, serverVars, taken>>
      BY <1>2, <2>1 DEF Announce, switchVars
    <3>2. ~Owns(g) /\ ~Owns(g)'
      BY <2>1, <3>1 DEF Owns, Goto, SwitchTyped
    <3>3. QED
      BY <3>1, <3>2, Moves
  <2>2. CASE gop[g] # "Rename"
    <3>1. PICK to \in {"commit", "stop"} : Goto(g, "announce", to)
      BY <1>2, <2>2 DEF Announce
    <3>2. gop[g] = "Enable" /\ UNCHANGED <<enabled, serverVars, taken>>
      BY <1>2, <2>2, <3>1 DEF Doing, Goto, Announce, switchVars
    <3>3. Owns(g) /\ Owns(g)'
      BY <3>1, <3>2 DEF Owns, Goto, SwitchTyped
    <3>4. QED
      BY <3>1, <3>2, <3>3, Moves
  <2>3. QED
    BY <2>1, <2>2
<1>3. CASE Commit(g)
  BY <1>3, CommitStep
<1>4. CASE StopAnnouncer(g)
  <2>1. UNCHANGED <<enabled, serverVars, taken>>
    BY <1>4 DEF StopAnnouncer, switchVars
  <2>2. CASE gop[g] = "Rename"
    <3>1. Goto(g, "silence", "announce")
      BY <1>4, <2>2 DEF StopAnnouncer
    <3>2. ~Owns(g) /\ ~Owns(g)'
      BY <2>2, <3>1 DEF Owns, Goto, SwitchTyped
    <3>3. QED
      BY <2>1, <2>2, <3>1, <3>2, Moves
  <2>3. CASE gop[g] # "Rename"
    <3>1. Goto(g, "silence", "stop")
      BY <1>4, <2>3 DEF StopAnnouncer
    <3>2. gop[g] = "Disable"
      BY <2>3, <3>1 DEF Doing, Goto
    <3>3. Owns(g) /\ Owns(g)'
      BY <3>1, <3>2 DEF Owns, Goto, SwitchTyped
    <3>4. QED
      BY <2>1, <3>1, <3>2, <3>3, Moves
  <2>4. QED
    BY <2>2, <2>3
<1>5. CASE TakeServers(g)
  BY <1>5, TakeStep
<1>6. CASE (\E i \in Interfaces : Shutdown(g, i)) \/ ShutdownEnds(g) \/ StopEnds(g)
  BY <1>6, CloseStep
<1>7. QED
  BY <1>1, <1>2, <1>3, <1>4, <1>5, <1>6 DEF GuiStep

LEMMA NextInv == IInv /\ [Next]_vars => IInv'
<1> SUFFICES ASSUME IInv, [Next]_vars PROVE IInv'
  OBVIOUS
<1>1. CASE \E g \in Gui : User(g) \/ GuiStep(g)
  BY <1>1, UserStep, GuiStepStep
<1>2. CASE ~(\E g \in Gui : User(g) \/ GuiStep(g))
  <2>1. UNCHANGED <<enabled, serverVars, guiVars>>
    BY <1>2, HandlersFrame DEF Next, Provide
  <2>2. QED
    BY <2>1, Frame
<1>3. QED
  BY <1>1, <1>2

\* Turning sharing on and off, service.go: whatever calls overlap, and whether
\* the server and the announcer fail or not, sharing that is on has a server
\* that accepts, and none is left behind when it is off.
THEOREM Serves == Spec => []ServesWhileEnabled
<1>1. IInv => ServesWhileEnabled
  BY DEF IInv, SwitchTyped, Accepts, OnHasServer, OffIsOwned, ClosingListen, ServesWhileEnabled
<1>2. QED
  BY <1>1, InitInv, NextInv, PTL DEF Spec
-----------------------------------------------------------------------------
(* The approval of a pairing.                                               *)

AskTyped ==
  /\ rpc \in [Requests -> HandlerPCs]
  /\ wire \in [Requests -> {"new", "sent", "gone", "token", "refused"}]
  /\ chan \in [Requests -> Answers \cup {"empty"}]
  /\ first \in [Requests -> Answers \cup {"none"}]
  /\ given \in [Requests -> Gui \cup {None, "wrong"}]
  /\ expected \in [Requests -> Gui \cup {None}]
  /\ pin \in Gui \cup {None} /\ tokens \subseteq Requests

\* Nobody answers a request before its question is asked, nor after; until
\* the handler reads it, the channel holds the first answer.
Asked(r) ==
  /\ wire[r] = "new" => rpc[r] = "off"
  /\ r \in pending => rpc[r] = "await"
  /\ rpc[r] \in {"off", "check", "compare"} => first[r] = "none"
  /\ rpc[r] \in {"off", "check", "compare", "await"} =>
       chan[r] = IF first[r] = "none" THEN "empty" ELSE first[r]

\* Past the comparison the PIN was right, past the answer it was a yes.
Cleared(r) ==
  /\ rpc[r] \in {"await", "issue", "grant"} => given[r] = expected[r]
  /\ rpc[r] \in {"issue", "grant"} => first[r] = "yes"
  /\ r \in tokens => /\ rpc[r] \in {"grant", "done"}
                      /\ first[r] = "yes" /\ given[r] = expected[r]

AskInv == AskTyped /\ \A r \in Requests : Asked(r) /\ Cleared(r)

LEMMA AskInit == Init => AskInv
BY DEF Init, AskInv, AskTyped, Asked, Cleared, Answers, HandlerPCs

LEMMA AskFrame ==
  ASSUME AskInv, UNCHANGED <<wire, handlerVars, askVars>>, pin' \in Gui \cup {None},
         tokens' \subseteq tokens
  PROVE  AskInv'
BY DEF AskInv, AskTyped, Asked, Cleared, handlerVars, askVars

LEMMA AskUser == ASSUME AskInv, NEW g \in Gui, User(g) \/ GuiStep(g) PROVE AskInv'
<1>1. UNCHANGED <<wire, handlerVars, askVars>>
  BY DEF User, EnableSharing, DisableSharing, SetDeviceName, RevokeClient, GuiStep,
         StartServer, Announce, Commit, StopAnnouncer, TakeServers, Shutdown, ShutdownEnds, StopEnds
<1>2. tokens' \subseteq tokens
  BY DEF User, EnableSharing, DisableSharing, SetDeviceName, RevokeClient, GuiStep, tableVars,
         StartServer, Announce, Commit, StopAnnouncer, TakeServers, Shutdown, ShutdownEnds, StopEnds
<1>3. pin' \in Gui \cup {None}
  BY DEF User, EnableSharing, DisableSharing, SetDeviceName, RevokeClient, GuiStep, switchVars,
         StartServer, Announce, Commit, StopAnnouncer, TakeServers, Shutdown, ShutdownEnds, StopEnds,
         AskInv, AskTyped
<1>4. QED
  BY <1>1, <1>2, <1>3, AskFrame

LEMMA AskHandler ==
  ASSUME AskInv, NEW r \in Requests,
         Accept(r) \/ Handle(r) \/ Send(r) \/ Disconnect(r)
           \/ \E a \in Answers : RespondPairing(r, a)
  PROVE  AskInv'
<1> USE DEF AskInv, AskTyped, Asked, Cleared, HandlerPCs, Answers, HandlerGoto,
            switchVars, askVars, tableVars, handlerVars
<1>1. CASE Accept(r)
  BY <1>1 DEF Accept
<1>2. CASE CheckEnabled(r)
  BY <1>2 DEF CheckEnabled
<1>3. CASE WrongPin(r)
  BY <1>3 DEF WrongPin
<1>4. CASE RightPin(r)
  BY <1>4 DEF RightPin
<1>5. CASE TakeAnswer(r)
  BY <1>5 DEF TakeAnswer, Leave
<1>6. CASE GiveUpWaiting(r)
  BY <1>6 DEF GiveUpWaiting, Leave
<1>7. CASE IssueToken(r)
  BY <1>7 DEF IssueToken
<1>8. CASE Reply(r)
  BY <1>8 DEF Reply
<1>9. CASE Send(r)
  BY <1>9 DEF Send
<1>10. CASE Disconnect(r)
  BY <1>10 DEF Disconnect
<1>11. ASSUME NEW a \in Answers, RespondPairing(r, a) PROVE AskInv'
  BY <1>11 DEF RespondPairing
<1>12. QED
  BY <1>1, <1>2, <1>3, <1>4, <1>5, <1>6, <1>7, <1>8, <1>9, <1>10, <1>11 DEF Handle

LEMMA AskStep == AskInv /\ [Next]_vars => AskInv'
<1> SUFFICES ASSUME AskInv, [Next]_vars PROVE AskInv'
  OBVIOUS
<1>1. CASE \E g \in Gui : User(g) \/ GuiStep(g)
  BY <1>1, AskUser
<1>2. CASE \E r \in Requests :
             Accept(r) \/ Handle(r) \/ Send(r) \/ Disconnect(r)
               \/ \E a \in Answers : RespondPairing(r, a)
  BY <1>2, AskHandler
<1>3. CASE LockExpires \/ UNCHANGED vars
  BY <1>3, AskFrame DEF LockExpires, vars, switchVars, tableVars, AskInv, AskTyped
<1>4. QED
  BY <1>1, <1>2, <1>3 DEF Next, Provide

\* HandlePair, RespondPairing, issueToken: a client in the table is one the
\* user said yes to, before any no, and that knew the PIN of its moment.
THEOREM Approved == Spec => []IssuedIsApproved
<1>1. AskInv => IssuedIsApproved
  BY DEF AskInv, AskTyped, Cleared, IssuedIsApproved
<1>2. QED
  BY <1>1, AskInit, AskStep, PTL DEF Spec
-----------------------------------------------------------------------------
(* The two ends together.                                                   *)

\* What the table knows of: the tokens it has and those it had.
Known == tokens \cup revoked

\* What the table knows was answered yes first, and whoever was sent a token is
\* known.
IssuedKnown ==
  /\ \A r \in Known : first[r] = "yes"
  /\ \A r \in Requests : rpc[r] = "grant" \/ wire[r] = "token" => r \in Known

\* What the peer holds, or keeps, is known to the table.
KeptKnown ==
  /\ \A r \in Requests : cpc[r] \in {"set", "save"} => r \in Known
  /\ secret # None => secret \in Known
  /\ DOMAIN cpc = Requests

LEMMA PairInit == ShareInit => IssuedKnown /\ KeptKnown
BY DEF ShareInit, Init, C!Init, IssuedKnown, KeptKnown, Known

LEMMA UserKnows ==
  ASSUME AskInv, IssuedKnown, NEW g \in Gui, User(g) \/ GuiStep(g)
  PROVE  IssuedKnown' /\ Known' = Known
<1>1. UNCHANGED <<wire, rpc, first>>
  BY DEF User, EnableSharing, DisableSharing, SetDeviceName, RevokeClient, GuiStep, handlerVars, askVars,
         StartServer, Announce, Commit, StopAnnouncer, TakeServers, Shutdown, ShutdownEnds, StopEnds
<1>2. Known' = Known
  BY DEF User, EnableSharing, DisableSharing, SetDeviceName, RevokeClient, GuiStep, tableVars, Known,
         StartServer, Announce, Commit, StopAnnouncer, TakeServers, Shutdown, ShutdownEnds, StopEnds
<1>3. QED
  BY <1>1, <1>2 DEF IssuedKnown

LEMMA HandlerKnows ==
  ASSUME AskInv, IssuedKnown, NEW r \in Requests,
         Accept(r) \/ Handle(r) \/ Send(r) \/ Disconnect(r)
           \/ \E a \in Answers : RespondPairing(r, a)
  PROVE  IssuedKnown' /\ Known \subseteq Known'
<1> USE DEF AskInv, AskTyped, IssuedKnown, Known, HandlerPCs, Answers, HandlerGoto,
            askVars, tableVars, handlerVars
<1>1. CASE Accept(r)
  BY <1>1 DEF Accept
<1>2. CASE CheckEnabled(r)
  BY <1>2 DEF CheckEnabled
<1>3. CASE WrongPin(r)
  BY <1>3 DEF WrongPin
<1>4. CASE RightPin(r)
  BY <1>4 DEF RightPin
<1>5. CASE TakeAnswer(r)
  BY <1>5 DEF TakeAnswer, Leave
<1>6. CASE GiveUpWaiting(r)
  BY <1>6 DEF GiveUpWaiting, Leave
<1>7. CASE IssueToken(r)
  <2>1. rpc[r] = "issue" => first[r] = "yes"
    BY DEF Cleared
  <2>2. QED
    BY <1>7, <2>1 DEF IssueToken
<1>8. CASE Reply(r)
  BY <1>8 DEF Reply
<1>9. CASE Send(r)
  BY <1>9 DEF Send
<1>10. CASE Disconnect(r)
  BY <1>10 DEF Disconnect
<1>11. ASSUME NEW a \in Answers, RespondPairing(r, a) PROVE IssuedKnown' /\ Known \subseteq Known'
  BY <1>11 DEF RespondPairing
<1>12. QED
  BY <1>1, <1>2, <1>3, <1>4, <1>5, <1>6, <1>7, <1>8, <1>9, <1>10, <1>11 DEF Handle

LEMMA ProviderKnows ==
  ASSUME AskInv, IssuedKnown, [Next]_vars
  PROVE  IssuedKnown' /\ Known \subseteq Known'
<1>1. CASE \E g \in Gui : User(g) \/ GuiStep(g)
  BY <1>1, UserKnows
<1>2. CASE \E r \in Requests :
             Accept(r) \/ Handle(r) \/ Send(r) \/ Disconnect(r)
               \/ \E a \in Answers : RespondPairing(r, a)
  BY <1>2, HandlerKnows
<1>3. CASE LockExpires \/ UNCHANGED vars
  BY <1>3 DEF LockExpires, vars, tableVars, askVars, handlerVars, IssuedKnown, Known
<1>4. QED
  BY <1>1, <1>2, <1>3 DEF Next, Provide

\* A step of both is a step of each; what one does alone leaves the other be.
LEMMA StepOfProvider == [ShareNext]_shareVars => [Next]_vars
<1> SUFFICES ASSUME [ShareNext]_shareVars PROVE [Next]_vars
  OBVIOUS
<1>1. CASE Provide
  BY <1>1 DEF Next
<1>2. CASE \E r \in Requests : Ask(r) \/ Answered(r) \/ GivenUp(r)
  BY <1>2 DEF Ask, Answered, GivenUp, Next
<1>3. CASE \E f \in C!Fetchers : AnswerHosts(f) \/ NoHosts(f)
  BY <1>3 DEF AnswerHosts, NoHosts
<1>4. CASE UNCHANGED vars
  BY <1>4
<1>5. QED
  BY <1>1, <1>2, <1>3, <1>4 DEF ShareNext, Meet, shareVars

LEMMA StepOfConsumer == [ShareNext]_shareVars => [C!Consume \/ C!Exchange]_C!vars
<1> SUFFICES ASSUME [ShareNext]_shareVars PROVE [C!Consume \/ C!Exchange]_C!vars
  OBVIOUS
<1>1. CASE C!Consume
  BY <1>1
<1>2. CASE \E r \in Requests : Ask(r) \/ Answered(r) \/ GivenUp(r)
  BY <1>2 DEF Ask, Answered, GivenUp, C!Exchange
<1>3. CASE \E f \in C!Fetchers : AnswerHosts(f) \/ NoHosts(f)
  BY <1>3 DEF AnswerHosts, NoHosts, C!Exchange
<1>4. CASE UNCHANGED consumerVars
  BY <1>4 DEF consumerVars, C!vars, C!storeVars, C!fetchVars
<1>5. QED
  BY <1>1, <1>2, <1>3, <1>4 DEF ShareNext, Meet, shareVars

\* What the instance that shares does under a peer is what it does by itself:
\* Serves and Approved hold of it.
THEOREM ProviderInShare == ShareSpec => Spec
<1>1. ShareInit => Init
  BY DEF ShareInit
<1>2. QED
  BY <1>1, StepOfProvider, PTL DEF ShareSpec, Spec

\* And the peer's stores are worked on by the steps of consumer.go alone.
THEOREM ConsumerInShare == ShareSpec => C!Spec
<1>1. ShareInit => C!Init
  BY DEF ShareInit
<1>2. QED
  BY <1>1, StepOfConsumer, PTL DEF ShareSpec, C!Spec

\* What a step takes from the other end: a token, by the one that was sent it.
LEMMA PeerKnows ==
  ASSUME IssuedKnown, KeptKnown, Known \subseteq Known', [ShareNext]_shareVars
  PROVE  KeptKnown'
<1> USE DEF KeptKnown
<1>1. CASE UNCHANGED consumerVars
  BY <1>1 DEF consumerVars
<1>2. ASSUME NEW r \in Requests, C!Store(r) PROVE KeptKnown'
  BY <1>2 DEF C!Store, C!SetSecret, C!SavePeer, C!Goto
<1>3. CASE C!Consume /\ ~(\E r \in Requests : C!Store(r))
  <2>1. UNCHANGED cpc /\ secret' \in {secret, None}
    BY <1>3 DEF C!Consume, C!LoadPeer, C!Refresh, C!ReadToken, C!CacheHosts, C!Drop, C!DropSecret,
                C!DropPeer, C!RemoveSecret, C!RemovePeer, C!Written, C!storeVars
  <2>2. QED
    BY <2>1
<1>4. ASSUME NEW r \in Requests, Ask(r) \/ Answered(r) \/ GivenUp(r) PROVE KeptKnown'
  <2>1. UNCHANGED secret
    BY <1>4 DEF Ask, Answered, GivenUp, C!Ask, C!Granted, C!NotGranted, C!storeVars
  <2>2. CASE C!Granted(r) /\ wire[r] = "token"
    <3>1. r \in Known
      BY <2>2 DEF IssuedKnown
    <3>2. QED
      BY <2>1, <2>2, <3>1 DEF C!Granted, C!Goto
  <2>3. CASE C!Ask(r) \/ C!NotGranted(r)
    BY <2>1, <2>3 DEF C!Ask, C!NotGranted, C!Goto
  <2>4. QED
    BY <1>4, <2>2, <2>3 DEF Ask, Answered, GivenUp
<1>5. CASE \E f \in C!Fetchers : AnswerHosts(f) \/ NoHosts(f)
  <2>1. UNCHANGED <<cpc, secret>>
    BY <1>5 DEF AnswerHosts, NoHosts, C!Accepted, C!Rejected, C!Unreachable, C!storeVars
  <2>2. QED
    BY <2>1
<1>6. QED
  BY <1>1, <1>2, <1>3, <1>4, <1>5 DEF ShareNext, Meet, shareVars

\* PairWithPeer, HandlePair and what the client does with the response
\* (share/consumer.go, provider.go): a token that the peer keeps was issued
\* because the user said yes to this very request, before any no, whatever was
\* lost, late or repeated, and whatever was revoked or failed since.
THEOREM Paired == ShareSpec => []PairedWasApproved
<1>1. ShareInit => AskInv
  BY AskInit DEF ShareInit
<1>2. AskInv /\ IssuedKnown /\ KeptKnown /\ [ShareNext]_shareVars
        => AskInv' /\ IssuedKnown' /\ KeptKnown'
  BY StepOfProvider, AskStep, ProviderKnows, PeerKnows
<1>3. IssuedKnown /\ KeptKnown => PairedWasApproved
  BY DEF IssuedKnown, KeptKnown, Known, PairedWasApproved
<1>4. QED
  BY <1>1, <1>2, <1>3, PairInit, PTL DEF ShareSpec
=============================================================================
