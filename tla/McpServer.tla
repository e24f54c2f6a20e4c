----------------------------- MODULE McpServer -----------------------------
(***************************************************************************)
(* How an AI client gets in: the IPC server that accepts connections       *)
(* (src/internal/adapter/in/mcpipc), the pairing the user approves and the *)
(* tokens it issues (src/internal/core/service/aicontrol/callbacks.go,     *)
(* clients.go), and the server's stop when the application quits.          *)
(*                                                                         *)
(* A client that paired is named after the connection it paired on; its    *)
(* token is a token for that name.  KnownClients paired before this run of *)
(* the application: the table of clients is all that outlives one.         *)
(***************************************************************************)
EXTENDS Naturals, FiniteSets

CONSTANTS Conns,        \* connections that clients open
          KnownClients,
          Scenes,       \* what clients do: the frames they send, the calls
                        \* they make; and whether they, or the server, stop
          None

ASSUME NamesDiffer ==
  /\ Conns \cap KnownClients = {}
  /\ (Conns \cup KnownClients \cup {None}) \cap {"pair", "unknown"} = {}
  /\ None \notin Conns \cup KnownClients \cup {"yes", "no"}

VARIABLES scene,     \* one of Scenes
          server,    \* the listener
          link,      \* the two ends of a connection
          first,     \* the stage-1 frame its client sent
          spc,       \* how far acceptLoop, then serveConn, is with it
          conns,     \* Server.conns
          stop,      \* how far Stop is
          snap,      \* the connections it found
          pending,   \* connections whose pairing request the user may answer
          answer,    \* the channel of that request
          watcher,   \* the goroutine that reads the connection meanwhile
          cancelled, \* did it cancel the wait?
          saved,     \* the table of clients ...
          revoked,   \* ... and those of them that were revoked
          learned,   \* tokens that reached a client
          client,    \* the client that AuthClient found
          consent    \* the first answer the user gave to a pairing request

linkVars == <<scene, link, first>>
stopVars == <<server, stop, snap>>
pairVars == <<pending, answer, watcher, cancelled>>
tableVars == <<saved, revoked>>
serverVars == <<stopVars, linkVars, spc, conns, pairVars, tableVars, learned, client, consent>>
-----------------------------------------------------------------------------
Names == Conns \cup KnownClients

\* "unknown" stands for a token of nobody, and for a frame of another type.
Frames == Names \cup {"pair", "unknown"}

\* acceptLoop has one connection in hand, between Accept and the start of its
\* goroutine.
InHand == {c \in Conns : spc[c] \in {"accepted", "registered"}}
\* What the WaitGroup counts.
Serving == {c \in Conns : spc[c] \notin {"none", "accepted", "registered", "done"}}
Broken(c) == link[c] # "open"

ServerInit ==
  /\ scene \in Scenes
  /\ server = "new" /\ stop = "none" /\ snap = {}
  /\ link = [c \in Conns |-> "none"] /\ first = [c \in Conns |-> None]
  /\ spc = [c \in Conns |-> "none"] /\ conns = {}
  /\ pending = {} /\ cancelled = {}
  /\ answer = [c \in Conns |-> None] /\ watcher = [c \in Conns |-> "none"]
  /\ saved = KnownClients /\ revoked = {} /\ learned = KnownClients
  /\ client = [c \in Conns |-> None] /\ consent = [c \in Conns |-> None]

(* ------------------------------- the client ---------------------------- *)

Dial(c) ==
  /\ server = "listening" /\ link[c] = "none" /\ scene.frames[c] # {}
  /\ link' = [link EXCEPT ![c] = "open"]
  /\ UNCHANGED <<scene, stopVars, first, spc, conns, pairVars, tableVars, learned, client, consent>>

SendFrame(c) ==
  /\ link[c] = "open" /\ first[c] = None
  /\ \E f \in scene.frames[c] \cap ({"pair", "unknown"} \cup learned) :
       first' = [first EXCEPT ![c] = f]
  /\ UNCHANGED <<scene, stopVars, link, spc, conns, pairVars, tableVars, learned, client, consent>>

HangUp(c) ==
  /\ link[c] = "open" /\ scene.ends
  /\ link' = [link EXCEPT ![c] = "hung up"]
  /\ UNCHANGED <<scene, stopVars, first, spc, conns, pairVars, tableVars, learned, client, consent>>

(* ------------------------------- the server ---------------------------- *)

Start ==
  /\ server = "new"
  /\ server' \in {"listening", "failed"}
  /\ UNCHANGED <<stop, snap, linkVars, spc, conns, pairVars, tableVars, learned, client, consent>>

Move(c, to) == spc' = [spc EXCEPT ![c] = to]

Accept(c) ==
  /\ server = "listening" /\ InHand = {} /\ spc[c] = "none"
  /\ link[c] \in {"open", "hung up"}
  /\ Move(c, "accepted")
  /\ UNCHANGED <<stopVars, linkVars, conns, pairVars, tableVars, learned, client, consent>>

\* Nothing asks whether the server was stopped since.
Register(c) ==
  /\ spc[c] = "accepted"
  /\ Move(c, "registered") /\ conns' = conns \cup {c}
  /\ UNCHANGED <<stopVars, linkVars, pairVars, tableVars, learned, client, consent>>

Serve(c) ==
  /\ spc[c] = "registered"
  /\ Move(c, "read")
  /\ UNCHANGED <<stopVars, linkVars, conns, pairVars, tableVars, learned, client, consent>>

\* What the client sent before it hung up can still be read.
ReadFrame(c) ==
  /\ spc[c] = "read"
  /\ IF first[c] # None /\ link[c] # "closed"
       THEN Move(c, IF first[c] = "pair" THEN "pair"
                    ELSE IF first[c] \in Names THEN "auth" ELSE "refuse")
       ELSE Broken(c) /\ Move(c, "leave")
  /\ UNCHANGED <<stopVars, linkVars, conns, pairVars, tableVars, learned, client, consent>>

\* Mutant: the entry in conns stays.
FinishKeepsEntry(c) ==
  /\ spc[c] = "leave"
  /\ Move(c, "done")
  /\ link' = [link EXCEPT ![c] = "closed"]
  /\ UNCHANGED <<scene, stopVars, first, conns, pairVars, tableVars, learned, client, consent>>

\* The deferred calls: the connection is closed and forgotten.
Finish(c) ==
  /\ spc[c] = "leave"
  /\ Move(c, "done") /\ conns' = conns \ {c}
  /\ link' = [link EXCEPT ![c] = "closed"]
  /\ UNCHANGED <<scene, stopVars, first, pairVars, tableVars, learned, client, consent>>

Refuse(c) ==
  /\ spc[c] = "refuse"
  /\ Move(c, "leave")
  /\ UNCHANGED <<stopVars, linkVars, conns, pairVars, tableVars, learned, client, consent>>

\* AuthClient; the table may fail.
AuthClient(c) ==
  /\ spc[c] = "auth"
  /\ \/ /\ first[c] \in saved \ revoked
        /\ Move(c, "welcome") /\ client' = [client EXCEPT ![c] = first[c]]
     \/ Move(c, "refuse") /\ UNCHANGED client
  /\ UNCHANGED <<stopVars, linkVars, conns, pairVars, tableVars, learned, consent>>

Welcome(c) ==
  /\ spc[c] = "welcome"
  /\ Move(c, IF Broken(c) THEN "leave" ELSE "session")
  /\ UNCHANGED <<stopVars, linkVars, conns, pairVars, tableVars, learned, client, consent>>

\* Server.Run of the MCP library returns when the connection is closed.
EndSession(c) ==
  /\ spc[c] = "session" /\ Broken(c)
  /\ Move(c, "leave")
  /\ UNCHANGED <<stopVars, linkVars, conns, pairVars, tableVars, learned, client, consent>>

(* ------------------------------- pairing ------------------------------- *)

HandlePair(c) ==
  /\ spc[c] = "pair"
  /\ Move(c, "wait") /\ pending' = pending \cup {c}
  /\ watcher' = [watcher EXCEPT ![c] = "reading"]
  /\ UNCHANGED <<stopVars, linkVars, conns, answer, cancelled, tableVars, learned, client, consent>>

\* A read that fails, for whatever reason, cancels the wait.
Watch(c) ==
  /\ watcher[c] = "reading"
  /\ Broken(c) \/ spc[c] = "drain"   \* the deadline of HandlePair's end
  /\ watcher' = [watcher EXCEPT ![c] = "done"] /\ cancelled' = cancelled \cup {c}
  /\ UNCHANGED <<stopVars, linkVars, spc, conns, pending, answer, tableVars, learned, client, consent>>

\* The request stays open to a second answer until its waiter has gone.
RespondPairing(c) ==
  /\ c \in pending /\ answer[c] = None
  /\ \E a \in {"yes", "no"} :
       /\ answer' = [answer EXCEPT ![c] = a]
       /\ consent' = [consent EXCEPT ![c] = IF @ = None THEN a ELSE @]
  /\ UNCHANGED <<stopVars, linkVars, spc, conns, pending, watcher, cancelled, tableVars, learned, client>>

TakeAnswer(c) ==
  /\ spc[c] = "wait" /\ answer[c] # None
  /\ answer' = [answer EXCEPT ![c] = None]
  /\ Move(c, IF answer[c] = "yes" THEN "granted" ELSE "denied")
  /\ UNCHANGED <<stopVars, linkVars, conns, pending, watcher, cancelled, tableVars, learned, client, consent>>

\* Mutant: a request that is not answered in time counts as approved.
TimeoutPasses(c) ==
  /\ spc[c] = "wait"
  /\ Move(c, "granted")
  /\ UNCHANGED <<stopVars, linkVars, conns, pairVars, tableVars, learned, client, consent>>

PairTimeout(c) ==
  /\ spc[c] = "wait"
  /\ Move(c, "denied")
  /\ UNCHANGED <<stopVars, linkVars, conns, pairVars, tableVars, learned, client, consent>>

\* select takes any case that is ready: an answer may win all the same.
ClientLeft(c) ==
  /\ spc[c] = "wait" /\ c \in cancelled
  /\ Move(c, "denied")
  /\ UNCHANGED <<stopVars, linkVars, conns, pairVars, tableVars, learned, client, consent>>

Forget(c) ==
  /\ spc[c] \in {"granted", "denied"}
  /\ pending' = pending \ {c}
  /\ Move(c, IF spc[c] = "granted" THEN "issue" ELSE "drain")
  /\ UNCHANGED <<stopVars, linkVars, conns, answer, watcher, cancelled, tableVars, learned, client, consent>>

\* issueToken; the table may fail.
IssueToken(c) ==
  /\ spc[c] = "issue"
  /\ saved' \in {saved, saved \cup {c}}
  /\ Move(c, "drain")
  /\ UNCHANGED <<stopVars, linkVars, conns, pairVars, revoked, learned, client, consent>>

\* handlePair waits for its watcher.
Drain(c) ==
  /\ spc[c] = "drain" /\ watcher[c] = "done"
  /\ Move(c, IF c \in saved THEN "token" ELSE "refuse")
  /\ UNCHANGED <<stopVars, linkVars, conns, pairVars, tableVars, learned, client, consent>>

ReplyToken(c) ==
  /\ spc[c] = "token"
  /\ learned' = IF Broken(c) THEN learned ELSE learned \cup {c}
  /\ Move(c, "leave")
  /\ UNCHANGED <<stopVars, linkVars, conns, pairVars, tableVars, client, consent>>

RevokeMCPClient(n) ==
  /\ n \in saved \ revoked /\ scene.ends /\ \E c \in Conns : n \in scene.frames[c]
  /\ revoked' = revoked \cup {n}
  /\ UNCHANGED <<stopVars, linkVars, spc, conns, pairVars, saved, learned, client, consent>>

(* --------------------------------- Stop -------------------------------- *)

Stop ==
  /\ server # "new" /\ stop = "none" /\ scene.ends
  /\ stop' = "close listener" /\ snap' = conns
  /\ UNCHANGED <<server, linkVars, spc, conns, pairVars, tableVars, learned, client, consent>>

\* Whoever dialled and was not accepted finds the connection closed.
CloseListener ==
  /\ stop = "close listener"
  /\ stop' = "close connections"
  /\ server' = IF server = "listening" THEN "closed" ELSE server
  /\ link' = [c \in Conns |-> IF link[c] = "open" /\ spc[c] = "none" THEN "closed" ELSE link[c]]
  /\ UNCHANGED <<scene, snap, first, spc, conns, pairVars, tableVars, learned, client, consent>>

\* Mutant: Stop leaves the connections to their clients.
OnlyListener ==
  /\ stop = "close connections"
  /\ stop' = "wait"
  /\ UNCHANGED <<server, snap, linkVars, spc, conns, pairVars, tableVars, learned, client, consent>>

CloseConnections ==
  /\ stop = "close connections"
  /\ stop' = "wait"
  /\ link' = [c \in Conns |-> IF c \in snap THEN "closed" ELSE link[c]]
  /\ UNCHANGED <<scene, server, snap, first, spc, conns, pairVars, tableVars, learned, client, consent>>

StopReturns ==
  /\ stop = "wait" /\ Serving = {}
  /\ stop' = "returned"
  /\ UNCHANGED <<server, snap, linkVars, spc, conns, pairVars, tableVars, learned, client, consent>>

\* The deadline of Stop's context.
StopGivesUp ==
  /\ stop = "wait" /\ Serving # {}
  /\ stop' = "gave up"
  /\ UNCHANGED <<server, snap, linkVars, spc, conns, pairVars, tableVars, learned, client, consent>>
-----------------------------------------------------------------------------
ServerGoroutine(c) ==
  \/ Accept(c) \/ Register(c) \/ Serve(c) \/ ReadFrame(c) \/ Finish(c) \/ Refuse(c)
  \/ AuthClient(c) \/ Welcome(c) \/ EndSession(c)
  \/ HandlePair(c) \/ Watch(c) \/ TakeAnswer(c) \/ PairTimeout(c) \/ ClientLeft(c)
  \/ Forget(c) \/ IssueToken(c) \/ Drain(c) \/ ReplyToken(c)
Stopping == CloseListener \/ CloseConnections \/ StopReturns \/ StopGivesUp

ServerStep ==
  \/ \E c \in Conns :
       \/ Dial(c) \/ SendFrame(c) \/ HangUp(c) \/ RespondPairing(c)
       \/ ServerGoroutine(c)
  \/ \E n \in Names : RevokeMCPClient(n)
  \/ Start \/ Stop \/ Stopping

ServerFairness ==
  /\ \A c \in Conns : WF_serverVars(ServerGoroutine(c))
  /\ WF_serverVars(CloseListener \/ CloseConnections)
-----------------------------------------------------------------------------
(* Properties.                                                              *)

\* Types; moreover a connection is in the server's table exactly while acceptLoop or
\* serveConn has it, and a request is open exactly while it is waited for.
ServerTypeOK ==
  /\ server \in {"new", "listening", "failed", "closed"}
  /\ stop \in {"none", "close listener", "close connections", "wait", "returned", "gave up"}
  /\ link \in [Conns -> {"none", "open", "hung up", "closed"}]
  /\ first \in [Conns -> Frames \cup {None}]
  /\ spc \in [Conns -> {"none", "accepted", "registered", "read", "pair", "auth", "refuse",
                        "leave", "done", "welcome", "session", "wait", "granted", "denied",
                        "issue", "drain", "token"}]
  /\ snap \subseteq Conns
  /\ conns = {c \in Conns : spc[c] \notin {"none", "accepted", "done"}}
  /\ pending = {c \in Conns : spc[c] \in {"wait", "granted", "denied"}}
  /\ answer \in [Conns -> {"yes", "no", None}] /\ consent \in [Conns -> {"yes", "no", None}]
  /\ watcher \in [Conns -> {"none", "reading", "done"}]
  /\ cancelled \subseteq Conns
  /\ saved \subseteq Names /\ revoked \subseteq saved /\ learned \subseteq saved
  /\ client \in [Conns -> Names \cup {None}]

\* Whoever has a token, and whoever is served under one, is a client whose
\* pairing the user approved (callbacks.go), whatever was answered twice, late,
\* or while the client was leaving.
TokensAreApproved ==
  /\ \A c \in Conns : c \in saved => consent[c] = "yes"
  /\ \A c \in Conns : spc[c] \in {"welcome", "session"} => client[c] \in saved

\* server.go, pair.go: a connection that Stop found, and a pairing whose client
\* has left or whose user does not answer, is done with in the end: no goroutine
\* stays with it, neither the one that serves it nor the one that watches it.
ConnectionsEnd ==
  /\ \A c \in Conns : c \in snap ~> spc[c] = "done"
  /\ \A c \in Conns : spc[c] = "pair" ~> spc[c] = "done"
-----------------------------------------------------------------------------
(* What comments of the code say and the code does not do.                  *)

\* server.go: Stop closes every active connection and waits for its goroutine.
\* One that was accepted and not registered when Stop took its snapshot is
\* neither closed nor, as long as the WaitGroup has not heard of it, awaited.
NothingServedAfterStop == stop = "returned" => Serving = {}

\* callbacks.go: a token is never issued for a peer that already gave up.
NoTokenForTheAbsent ==
  [][\A c \in Conns : c \in saved' \ saved => c \notin cancelled]_serverVars
=============================================================================
