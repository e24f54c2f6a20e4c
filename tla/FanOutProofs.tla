---------------------------- MODULE FanOutProofs ----------------------------
(***************************************************************************)
(* Who is served, and what is opened in the user's name, for any number of *)
(* connections, clients, calls and hosts.  Tokens rest on an answer the    *)
(* waiter took while it waited; sessions on an approval of their own or on *)
(* the scope their call found; and a scope's cap on counts that do not     *)
(* overlap: whoever counts is alone until its delegation is entered.       *)
(***************************************************************************)
EXTENDS FanOut, FiniteSetTheorems, TLAPS

\* The connections whose client has not been asked about.
Before == {"none", "accepted", "registered", "read", "pair"}

\* Until its waiter takes it, the first answer is the one in the channel.
Answers ==
  \A c \in Conns :
    /\ spc[c] \in Before => answer[c] = None /\ consent[c] = None
    /\ spc[c] = "wait" => consent[c] = answer[c]
    /\ spc[c] \in {"granted", "issue"} => consent[c] = "yes"
    /\ spc[c] = "token" => c \in saved

ServerInv == ServerTypeOK /\ Answers /\ TokensAreApproved

FanTypeOK ==
  /\ kpc \in [Calls -> {"idle", "check", "snapshot", "count", "ask", "create", "enter",
                        "grant", "done"}]
  /\ caller \in [Calls -> Names \cup {None}] /\ agreed \subseteq Calls
  /\ scopes \in [Names -> Scopings \cup {None}] /\ auto \in [Connects -> Scopings \cup {None}]
  /\ seen \in [Connects \cup {Lister} -> SUBSET Connects]
  /\ held \in [Connects -> Scopings \cup {Own, Free}] /\ alive \subseteq Connects
  /\ lister \in [at : {"idle", "snapshot", "count"}, todo : SUBSET Scopings]
  /\ crossed \in BOOLEAN

\* What each call, scope and session rests on.
Asked == \A k \in Calls : kpc[k] # "idle" => caller[k] \in saved
Batches ==
  /\ \A k \in Scopings : kpc[k] = "grant" => k \in agreed
  /\ \A n \in Names : scopes[n] # None =>
       scopes[n] \in agreed /\ caller[scopes[n]] = n /\ kpc[scopes[n]] = "done"
Found ==
  \A k \in Connects :
    /\ auto[k] # None => Covers(auto[k], k) /\ kpc[auto[k]] = "done"
    /\ auto[k] # None => kpc[k] \notin {"idle", "check", "ask"}
    /\ kpc[k] \in {"snapshot", "count"} => auto[k] # None
Opened ==
  \A k \in Connects :
    /\ kpc[k] \in {"create", "enter", "done"} /\ auto[k] = None =>
         k \in agreed \/ (k \notin alive /\ held[k] = Free)
    /\ kpc[k] \in {"create", "enter"} /\ auto[k] = None => k \in agreed
    /\ k \in alive => kpc[k] \in {"enter", "done"}
    /\ held[k] # Free => kpc[k] = "done"

FanInv == FanTypeOK /\ Asked /\ Batches /\ Found /\ Opened

\* As long as no counts crossed, one call at a time counts or acts on a count,
\* and there is room for its session.
Counts(k) == auto[k] # None /\ kpc[k] \in {"count", "create", "enter"}
Live(s) == Under(s) \cap alive
Room ==
  /\ \A s \in Scopings : Cardinality(Live(s)) <= MaxConcurrent(s)
  /\ \A j, k \in Connects : Counts(j) /\ Counts(k) => j = k
  /\ \A k \in Connects, s \in Scopings : Counts(k) /\ auto[k] = s =>
       IF kpc[k] = "count" THEN Live(s) \subseteq seen[k]
                           ELSE Cardinality(Live(s)) < MaxConcurrent(s)
CapInv == ~crossed => Room
-----------------------------------------------------------------------------
(* The server.                                                              *)

LEMMA ServerStarts == ServerInit => ServerInv
<1> SUFFICES ASSUME ServerInit PROVE ServerInv
  OBVIOUS
<1> USE NamesDiffer DEF ServerInit, Names, Frames
<1>1. ServerTypeOK
  BY DEF ServerTypeOK
<1>2. Answers
  BY DEF Answers, Before
<1>3. TokensAreApproved
  BY DEF TokensAreApproved
<1>4. QED
  BY <1>1, <1>2, <1>3 DEF ServerInv

LEMMA ServerHolds ==
  ASSUME ServerInv, ServerStep
  PROVE  ServerInv' /\ saved \subseteq saved'
<1> USE DEF ServerInv, ServerTypeOK, Answers, TokensAreApproved, Before
<1> USE DEF linkVars, stopVars, pairVars, tableVars, Move
<1>1. ASSUME NEW c \in Conns, Dial(c) PROVE ServerInv' /\ saved \subseteq saved'
  BY <1>1 DEF Dial
<1>2. ASSUME NEW c \in Conns, SendFrame(c) PROVE ServerInv' /\ saved \subseteq saved'
  <2>1. PICK f \in Frames : first' = [first EXCEPT ![c] = f]
    BY <1>2 DEF SendFrame, Names, Frames
  <2>2. UNCHANGED <<scene, stopVars, link, spc, conns, pairVars, tableVars, learned, client, consent>>
    BY <1>2 DEF SendFrame
  <2>3. QED
    BY <2>1, <2>2
<1>3. ASSUME NEW c \in Conns, HangUp(c) PROVE ServerInv' /\ saved \subseteq saved'
  BY <1>3 DEF HangUp
<1>4. ASSUME NEW c \in Conns, RespondPairing(c) PROVE ServerInv' /\ saved \subseteq saved'
  <2> PICK a \in {"yes", "no"} :
           /\ answer' = [answer EXCEPT ![c] = a]
           /\ consent' = [consent EXCEPT ![c] = IF @ = None THEN a ELSE @]
    BY <1>4 DEF RespondPairing
  <2>1. /\ spc[c] \in {"wait", "granted", "denied"} /\ answer[c] = None
        /\ UNCHANGED <<stopVars, linkVars, spc, conns, pending, watcher, cancelled, tableVars,
                       learned, client>>
    BY <1>4 DEF RespondPairing
  <2>2. ServerTypeOK' /\ saved \subseteq saved'
    BY <2>1
  <2>3. Answers'
    BY <2>1, NamesDiffer
  <2>4. \A d \in Conns : consent[d] = "yes" => consent'[d] = "yes"
    <3>1. consent \in [Conns -> {"yes", "no", None}] /\ None # "yes"
      BY NamesDiffer
    <3> HIDE DEF ServerInv, ServerTypeOK, Answers, TokensAreApproved
    <3>2. QED
      BY <3>1
  <2>5. TokensAreApproved'
    BY <2>1, <2>4
  <2>6. QED
    BY <2>2, <2>3, <2>5
<1>5. ASSUME NEW c \in Conns, Accept(c) PROVE ServerInv' /\ saved \subseteq saved'
  BY <1>5 DEF Accept
<1>6. ASSUME NEW c \in Conns, Register(c) PROVE ServerInv' /\ saved \subseteq saved'
  <2>1. ServerTypeOK'
    BY <1>6 DEF Register
  <2>2. Answers' /\ TokensAreApproved' /\ saved \subseteq saved'
    BY <1>6 DEF Register
  <2>3. QED
    BY <2>1, <2>2
<1>7. ASSUME NEW c \in Conns, Serve(c) PROVE ServerInv' /\ saved \subseteq saved'
  BY <1>7 DEF Serve
<1>8. ASSUME NEW c \in Conns, ReadFrame(c) PROVE ServerInv' /\ saved \subseteq saved'
  <2>1. PICK to \in {"pair", "auth", "refuse", "leave"} : spc' = [spc EXCEPT ![c] = to]
    BY <1>8 DEF ReadFrame
  <2>2. /\ spc[c] = "read"
        /\ UNCHANGED <<stopVars, linkVars, conns, pairVars, tableVars, learned, client, consent>>
    BY <1>8 DEF ReadFrame
  <2>3. ServerTypeOK'
    BY <2>1, <2>2
  <2>4. Answers' /\ TokensAreApproved' /\ saved \subseteq saved'
    BY <2>1, <2>2
  <2>5. QED
    BY <2>3, <2>4
<1>9. ASSUME NEW c \in Conns, Finish(c) PROVE ServerInv' /\ saved \subseteq saved'
  BY <1>9 DEF Finish
<1>10. ASSUME NEW c \in Conns, Refuse(c) PROVE ServerInv' /\ saved \subseteq saved'
  BY <1>10 DEF Refuse
<1>11. ASSUME NEW c \in Conns, AuthClient(c) PROVE ServerInv' /\ saved \subseteq saved'
  <2>1. /\ spc[c] = "auth"
        /\ UNCHANGED <<stopVars, linkVars, conns, pairVars, tableVars, learned, consent>>
    BY <1>11 DEF AuthClient
  <2>2. CASE first[c] \in saved \ revoked /\ Move(c, "welcome")
             /\ client' = [client EXCEPT ![c] = first[c]]
    <3>1. ServerTypeOK'
      BY <2>1, <2>2
    <3>2. Answers' /\ TokensAreApproved' /\ saved \subseteq saved'
      BY <2>1, <2>2
    <3>3. QED
      BY <3>1, <3>2
  <2>3. CASE Move(c, "refuse") /\ UNCHANGED client
    BY <2>1, <2>3
  <2>4. QED
    BY <1>11, <2>2, <2>3 DEF AuthClient
<1>12. ASSUME NEW c \in Conns, Welcome(c) PROVE ServerInv' /\ saved \subseteq saved'
  BY <1>12 DEF Welcome
<1>13. ASSUME NEW c \in Conns, EndSession(c) PROVE ServerInv' /\ saved \subseteq saved'
  BY <1>13 DEF EndSession
<1>14. ASSUME NEW c \in Conns, HandlePair(c) PROVE ServerInv' /\ saved \subseteq saved'
  <2>1. ServerTypeOK'
    BY <1>14 DEF HandlePair
  <2>2. Answers'
    BY <1>14 DEF HandlePair
  <2>3. TokensAreApproved' /\ saved \subseteq saved'
    BY <1>14 DEF HandlePair
  <2>4. QED
    BY <2>1, <2>2, <2>3
<1>15. ASSUME NEW c \in Conns, Watch(c) PROVE ServerInv' /\ saved \subseteq saved'
  BY <1>15 DEF Watch
<1>16. ASSUME NEW c \in Conns, TakeAnswer(c) PROVE ServerInv' /\ saved \subseteq saved'
  <2>1. PICK to \in {"granted", "denied"} :
           spc' = [spc EXCEPT ![c] = to] /\ (to = "granted" => answer[c] = "yes")
    BY <1>16 DEF TakeAnswer
  <2>2. /\ spc[c] = "wait" /\ answer' = [answer EXCEPT ![c] = None]
        /\ UNCHANGED <<stopVars, linkVars, conns, pending, watcher, cancelled, tableVars, learned,
                       client, consent>>
    BY <1>16 DEF TakeAnswer
  <2>3. ServerTypeOK'
    BY <2>1, <2>2
  <2>4. Answers'
    BY <2>1, <2>2
  <2>5. TokensAreApproved' /\ saved \subseteq saved'
    BY <2>1, <2>2
  <2>6. QED
    BY <2>3, <2>4, <2>5
<1>17. ASSUME NEW c \in Conns, PairTimeout(c) PROVE ServerInv' /\ saved \subseteq saved'
  BY <1>17 DEF PairTimeout
<1>18. ASSUME NEW c \in Conns, ClientLeft(c) PROVE ServerInv' /\ saved \subseteq saved'
  BY <1>18 DEF ClientLeft
<1>19. ASSUME NEW c \in Conns, Forget(c) PROVE ServerInv' /\ saved \subseteq saved'
  <2>1. ServerTypeOK'
    BY <1>19 DEF Forget
  <2>2. Answers'
    BY <1>19 DEF Forget
  <2>3. TokensAreApproved' /\ saved \subseteq saved'
    BY <1>19 DEF Forget
  <2>4. QED
    BY <2>1, <2>2, <2>3
<1>20. ASSUME NEW c \in Conns, IssueToken(c) PROVE ServerInv' /\ saved \subseteq saved'
  <2>1. c \in Names
    BY DEF Names
  <2>2. ServerTypeOK'
    BY <1>20, <2>1 DEF IssueToken
  <2>3. Answers'
    BY <1>20 DEF IssueToken
  <2>4. TokensAreApproved' /\ saved \subseteq saved'
    BY <1>20 DEF IssueToken
  <2>5. QED
    BY <2>2, <2>3, <2>4
<1>21. ASSUME NEW c \in Conns, Drain(c) PROVE ServerInv' /\ saved \subseteq saved'
  BY <1>21 DEF Drain
<1>22. ASSUME NEW c \in Conns, ReplyToken(c) PROVE ServerInv' /\ saved \subseteq saved'
  <2>1. ServerTypeOK'
    BY <1>22 DEF ReplyToken
  <2>2. Answers'
    BY <1>22 DEF ReplyToken
  <2>3. TokensAreApproved' /\ saved \subseteq saved'
    BY <1>22 DEF ReplyToken
  <2>4. QED
    BY <2>1, <2>2, <2>3
<1>23. ASSUME NEW n \in Names, RevokeMCPClient(n) PROVE ServerInv' /\ saved \subseteq saved'
  <2>1. ServerTypeOK'
    BY <1>23 DEF RevokeMCPClient
  <2>2. Answers' /\ TokensAreApproved' /\ saved \subseteq saved'
    BY <1>23 DEF RevokeMCPClient
  <2>3. QED
    BY <2>1, <2>2
<1>24. CASE Start \/ Stop \/ Stopping
  <2>1. CASE Start
    BY <2>1 DEF Start
  <2>2. CASE Stop
    BY <2>2 DEF Stop
  <2>3. CASE CloseListener
    BY <2>3 DEF CloseListener
  <2>4. CASE CloseConnections
    BY <2>4 DEF CloseConnections
  <2>5. CASE StopReturns \/ StopGivesUp
    <3>1. /\ stop' \in {"returned", "gave up"} /\ UNCHANGED saved
          /\ UNCHANGED <<server, snap, linkVars, spc, conns, pairVars, tableVars, learned, client,
                         consent>>
      BY <2>5 DEF StopReturns, StopGivesUp
    <3>2. QED
      BY <3>1
  <2>6. QED
    BY <1>24, <2>1, <2>2, <2>3, <2>4, <2>5 DEF Stopping
<1>25. QED
  BY <1>1, <1>2, <1>3, <1>4, <1>5, <1>6, <1>7, <1>8, <1>9, <1>10, <1>11, <1>12, <1>13, <1>14,
     <1>15, <1>16, <1>17, <1>18, <1>19, <1>20, <1>21, <1>22, <1>23, <1>24
  DEF ServerStep, ServerGoroutine
-----------------------------------------------------------------------------
(* The calls.                                                               *)

LEMMA FanStarts == Init => FanInv /\ CapInv
<1> SUFFICES ASSUME Init PROVE FanInv /\ CapInv
  OBVIOUS
<1> USE DEF Init, FanInit, Calls
<1>1. FanTypeOK
  BY DEF FanTypeOK
<1>2. Asked /\ Batches /\ Found /\ Opened
  BY CallConstants DEF Asked, Batches, Found, Opened
<1>3. CapInv
  <2>1. ASSUME NEW s \in Scopings PROVE Cardinality(Live(s)) <= MaxConcurrent(s)
    <3>1. Cardinality(Live(s)) = 0
      BY FS_EmptySet DEF Live, Under
    <3>2. MaxConcurrent(s) \in Nat
      BY CallConstants, FS_Subset, FS_CardinalityType DEF MaxConcurrent
    <3>3. QED
      BY <3>1, <3>2
  <2>2. ASSUME NEW k \in Connects PROVE ~Counts(k)
    BY DEF Counts
  <2>3. QED
    BY <2>1, <2>2 DEF CapInv, Room
<1>4. QED
  BY <1>1, <1>2, <1>3 DEF FanInv

LEMMA FanRests ==
  ASSUME FanInv, CapInv, UNCHANGED fanVars, saved \subseteq saved'
  PROVE  FanInv' /\ CapInv'
<1> USE DEF fanVars, callVars
<1>1. FanTypeOK'
  BY DEF FanInv, FanTypeOK
<1>2. Asked' /\ Batches' /\ Found' /\ Opened'
  BY DEF FanInv, Asked, Batches, Found, Opened, Covers
<1>3. CapInv'
  BY DEF CapInv, Room, Live, Under, Counts
<1>4. QED
  BY <1>1, <1>2, <1>3 DEF FanInv

FanStep ==
  \/ \E k \in Calls : Call(k) \/ CallStep(k)
  \/ \E k \in Connects : SessionEnds(k) \/ LoseControl(k)
  \/ List \/ ListSnapshot \/ ListCount

LEMMA FanHolds ==
  ASSUME ServerInv, FanInv, FanStep
  PROVE  FanInv' /\ UNCHANGED serverVars
<1> USE CallConstants DEF FanInv, FanTypeOK, Asked, Batches, Found, Opened, Covers
<1> USE DEF callVars, Calls, Goes
<1>0. saved' = saved /\ UNCHANGED serverVars
  BY DEF FanStep, CallStep, Call, Approve, Decline, FindScope, Snapshot, Count, Create, Enter,
         GrantScope, SessionEnds, LoseControl, List, ListSnapshot, ListCount, serverVars, tableVars
<1>1. ASSUME NEW k \in Calls, Call(k) PROVE FanInv'
  <2>1. PICK c \in Conns : spc[c] = "session" /\ caller' = [caller EXCEPT ![k] = client[c]]
    BY <1>1 DEF Call
  <2>2. client[c] \in saved /\ client[c] \in Names
    BY <2>1 DEF ServerInv, ServerTypeOK, TokensAreApproved
  <2>3. PICK to \in {"check", "ask"} : kpc' = [kpc EXCEPT ![k] = to]
    BY <1>1 DEF Call
  <2>4. kpc[k] = "idle" /\ UNCHANGED <<agreed, auto, scopes, seen, held, alive, lister, crossed>>
    BY <1>1 DEF Call
  <2>5. (k \in Connects => to = "check") /\ (k \in Scopings => to = "ask")
    BY <1>1, <2>3 DEF Call
  <2>6. FanTypeOK' /\ Asked'
    BY <1>0, <2>1, <2>2, <2>3, <2>4
  <2>7. Batches'
    BY <2>1, <2>3, <2>4
  <2>8. Found' /\ Opened'
    BY <2>1, <2>3, <2>4
  <2>9. QED
    BY <2>6, <2>7, <2>8
<1>2. ASSUME NEW k \in Calls, Approve(k) PROVE FanInv'
  BY <1>0, <1>2 DEF Approve
<1>3. ASSUME NEW k \in Calls, Decline(k) PROVE FanInv'
  BY <1>0, <1>3 DEF Decline
<1>4. ASSUME NEW k \in Connects, FindScope(k) PROVE FanInv'
  <2>1. /\ kpc[k] = "check" /\ caller[k] \in Names /\ auto[k] = None
        /\ UNCHANGED <<caller, agreed, scopes, seen, held, alive, lister, crossed>>
    BY <1>4 DEF FindScope, ServerInv, ServerTypeOK
  <2>2. CASE /\ scopes[caller[k]] # None /\ Asks[k] \in Asks[scopes[caller[k]]]
             /\ auto' = [auto EXCEPT ![k] = scopes[caller[k]]] /\ Goes(k, "snapshot")
    <3>1. scopes[caller[k]] \in Scopings /\ Covers(scopes[caller[k]], k)
      BY <2>1, <2>2
    <3>2. FanTypeOK' /\ Asked' /\ Batches'
      BY <1>0, <2>1, <2>2, <3>1
    <3>3. Found' /\ Opened'
      BY <2>1, <2>2, <3>1
    <3>4. QED
      BY <3>2, <3>3
  <2>3. CASE UNCHANGED auto /\ Goes(k, "ask")
    BY <1>0, <2>1, <2>3
  <2>4. QED
    BY <1>4, <2>2, <2>3 DEF FindScope
<1>5. ASSUME NEW k \in Connects, Snapshot(k) PROVE FanInv'
  BY <1>0, <1>5 DEF Snapshot
<1>6. ASSUME NEW k \in Connects, Count(k) PROVE FanInv'
  BY <1>0, <1>6 DEF Count, Reaped
<1>7. ASSUME NEW k \in Connects, Create(k) PROVE FanInv'
  BY <1>0, <1>7 DEF Create
<1>8. ASSUME NEW k \in Connects, Enter(k) PROVE FanInv'
  BY <1>0, <1>8 DEF Enter
<1>9. ASSUME NEW k \in Scopings, GrantScope(k) PROVE FanInv'
  <2>1. /\ kpc[k] = "grant" /\ caller[k] \in Names
        /\ UNCHANGED <<caller, agreed, auto, seen, held, alive, lister, crossed>>
        /\ scopes' = [scopes EXCEPT ![caller[k]] = k] /\ Goes(k, "done")
    BY <1>9 DEF GrantScope, ServerInv, ServerTypeOK
  <2>2. FanTypeOK' /\ Asked' /\ Batches'
    BY <1>0, <2>1
  <2>3. Found' /\ Opened'
    BY <2>1
  <2>4. QED
    BY <2>2, <2>3
<1>10. ASSUME NEW k \in Connects, SessionEnds(k) PROVE FanInv'
  BY <1>0, <1>10 DEF SessionEnds
<1>11. ASSUME NEW k \in Connects, LoseControl(k) PROVE FanInv'
  BY <1>0, <1>11 DEF LoseControl
<1>12. CASE List \/ ListSnapshot
  <2>1. UNCHANGED <<callVars, scopes, held, alive>> /\ seen' \in [Connects \cup {Lister} -> SUBSET Connects]
    BY <1>12 DEF List, ListSnapshot
  <2>2. lister' \in [at : {"idle", "snapshot", "count"}, todo : SUBSET Scopings]
    BY <1>12 DEF List, ListSnapshot
  <2>3. crossed' \in BOOLEAN
    BY <1>12 DEF List, ListSnapshot, InUse
  <2>4. QED
    BY <1>0, <2>1, <2>2, <2>3
<1>13. CASE ListCount
  BY <1>0, <1>13 DEF ListCount, Reaped
<1>14. QED
  BY <1>0, <1>1, <1>2, <1>3, <1>4, <1>5, <1>6, <1>7, <1>8, <1>9, <1>10, <1>11, <1>12, <1>13
  DEF FanStep, CallStep
-----------------------------------------------------------------------------
(* The cap of a scope.                                                      *)

LEMMA Caps ==
  ASSUME NEW s \in Scopings, NEW T \in SUBSET Connects, NEW U \in SUBSET T
  PROVE  /\ IsFiniteSet(T) /\ Cardinality(T) \in Nat /\ MaxConcurrent(s) \in Nat
         /\ Cardinality(U) \in Nat /\ Cardinality(U) <= Cardinality(T)
<1>1. IsFiniteSet(T) /\ IsFiniteSet(U)
  BY CallConstants, FS_Subset
<1>2. IsFiniteSet(Asks[s])
  BY CallConstants, FS_Subset
<1>3. Cardinality(U) <= Cardinality(T)
  BY <1>1, FS_Subset
<1>4. QED
  BY <1>1, <1>2, <1>3, FS_CardinalityType DEF MaxConcurrent

\* Room is kept when sessions of scopes only go and nobody begins to count.
LEMMA Quiet ==
  ASSUME FanInv, CapInv, crossed => crossed',
         \A s \in Scopings : Live(s)' \subseteq Live(s),
         \A k \in Connects : Counts(k)' =>
           /\ Counts(k) /\ auto'[k] = auto[k] /\ seen'[k] = seen[k]
           /\ kpc'[k] = kpc[k] \/ "count" \notin {kpc[k], kpc'[k]}
  PROVE  CapInv'
<1> SUFFICES ASSUME ~crossed' PROVE Room'
  BY DEF CapInv
<1>1. Room
  BY DEF CapInv
<1>2. ASSUME NEW s \in Scopings
      PROVE  /\ Cardinality(Live(s)) \in Nat /\ Cardinality(Live(s)') \in Nat
             /\ Cardinality(Live(s)') <= Cardinality(Live(s)) /\ MaxConcurrent(s) \in Nat
  <2>1. Live(s) \in SUBSET Connects
    BY DEF Live, Under
  <2>2. QED
    BY <2>1, Caps
<1>3. ASSUME NEW s \in Scopings PROVE Cardinality(Live(s)') <= MaxConcurrent(s)
  BY <1>1, <1>2, <1>3 DEF Room
<1>4. ASSUME NEW k \in Connects, Counts(k)'
      PROVE  Counts(k) /\ auto[k] \in Scopings /\ auto'[k] = auto[k] /\ seen'[k] = seen[k]
  BY <1>4 DEF FanInv, FanTypeOK, Counts
<1>5. ASSUME NEW k \in Connects, NEW s \in Scopings, Counts(k)', auto'[k] = s
      PROVE  IF kpc'[k] = "count" THEN Live(s)' \subseteq seen'[k]
                                  ELSE Cardinality(Live(s)') < MaxConcurrent(s)
  <2>1. Counts(k) /\ auto[k] = s /\ seen'[k] = seen[k]
    BY <1>4, <1>5
  <2>2. IF kpc[k] = "count" THEN Live(s) \subseteq seen[k]
                            ELSE Cardinality(Live(s)) < MaxConcurrent(s)
    BY <1>1, <2>1 DEF Room
  <2>3. CASE kpc'[k] = "count"
    BY <1>5, <2>1, <2>2, <2>3
  <2>4. CASE kpc'[k] # "count"
    BY <1>2, <1>5, <2>2, <2>4
  <2>5. QED
    BY <2>3, <2>4
<1>6. \A j, k \in Connects : Counts(j)' /\ Counts(k)' => j = k
  BY <1>1, <1>4 DEF Room
<1>7. QED
  BY <1>3, <1>5, <1>6 DEF Room, MaxConcurrent

LEMMA CapHolds ==
  ASSUME FanInv, CapInv, FanStep
  PROVE  CapInv'
<1> USE CallConstants DEF FanInv, FanTypeOK, Found, Opened
<1> USE DEF callVars, Calls, Goes, Counts, Live, Under
<1>1. ASSUME NEW k \in Calls, Call(k) \/ Approve(k) \/ Decline(k) PROVE CapInv'
  <2>1. UNCHANGED <<auto, seen, held, alive, crossed>>
    BY <1>1 DEF Call, Approve, Decline
  <2>2. k \in Connects => auto[k] = None
    BY <1>1 DEF Call, Approve, Decline
  <2>3. \A j \in Connects : j # k => kpc'[j] = kpc[j]
    BY <1>1 DEF Call, Approve, Decline
  <2>4. QED
    BY <2>1, <2>2, <2>3, Quiet
<1>2. ASSUME NEW k \in Connects, FindScope(k) PROVE CapInv'
  <2>1. UNCHANGED <<seen, held, alive, crossed>> /\ kpc'[k] \in {"snapshot", "ask"}
    BY <1>2 DEF FindScope
  <2>2. \A j \in Connects : j # k => kpc'[j] = kpc[j] /\ auto'[j] = auto[j]
    BY <1>2 DEF FindScope
  <2>3. QED
    BY <2>1, <2>2, Quiet
<1>3. ASSUME NEW k \in Connects, Create(k) PROVE CapInv'
  <2>1. /\ UNCHANGED <<auto, seen, held, crossed>> /\ kpc[k] = "create" /\ held[k] = Free
        /\ kpc'[k] \in {"enter", "done"} /\ alive' \subseteq alive \cup {k}
    BY <1>3 DEF Create
  <2>2. \A j \in Connects : j # k => kpc'[j] = kpc[j]
    BY <1>3 DEF Create
  <2>3. \A s \in Scopings : Live(s)' \subseteq Live(s)
    BY <2>1 DEF Free
  <2>4. QED
    BY <2>1, <2>2, <2>3, Quiet
<1>4. ASSUME NEW k \in Connects, SessionEnds(k) \/ LoseControl(k) PROVE CapInv'
  <2>1. UNCHANGED <<kpc, auto, seen, crossed>>
    BY <1>4 DEF SessionEnds, LoseControl
  <2>2. \A s \in Scopings : Live(s)' \subseteq Live(s)
    BY <1>4 DEF SessionEnds, LoseControl, Free
  <2>3. QED
    BY <2>1, <2>2, Quiet
<1>5. ASSUME NEW k \in Scopings, GrantScope(k) PROVE CapInv'
  <2>1. UNCHANGED <<auto, seen, held, alive, crossed>> /\ \A j \in Connects : kpc'[j] = kpc[j]
    BY <1>5 DEF GrantScope
  <2>2. QED
    BY <2>1, Quiet
<1>6. CASE List \/ ListSnapshot \/ ListCount
  <2>1. UNCHANGED <<kpc, auto, alive>> /\ (crossed => crossed')
    BY <1>6 DEF List, ListSnapshot, ListCount
  <2>2. \A j \in Connects : seen'[j] = seen[j]
    BY <1>6 DEF List, ListSnapshot, ListCount, Lister
  <2>3. \A s \in Scopings : Live(s)' \subseteq Live(s)
    BY <1>6 DEF List, ListSnapshot, ListCount, Reaped, Free
  <2>4. QED
    BY <2>1, <2>2, <2>3, Quiet
<1>7. ASSUME NEW k \in Connects, Snapshot(k) PROVE CapInv'
  <2> SUFFICES ASSUME ~crossed' PROVE Room'
    BY DEF CapInv
  <2>1. /\ UNCHANGED <<auto, held, alive>> /\ ~crossed /\ ~InUse /\ kpc'[k] = "count"
        /\ seen'[k] = alive /\ \A j \in Connects : j # k => kpc'[j] = kpc[j]
    BY <1>7 DEF Snapshot, InUse
  <2>2. Room /\ \A j \in Connects : ~Counts(j)
    BY <2>1 DEF CapInv, InUse
  <2>3. \A j \in Connects : Counts(j)' => j = k
    BY <2>1, <2>2
  <2>4. \A s \in Scopings : Live(s)' = Live(s) /\ Live(s) \subseteq alive
    BY <2>1
  <2>5. QED
    BY <2>1, <2>2, <2>3, <2>4 DEF Room, MaxConcurrent
<1>8. ASSUME NEW k \in Connects, Count(k) PROVE CapInv'
  <2> PICK s \in Scopings : s = auto[k]
    BY <1>8 DEF Count
  <2>1. /\ UNCHANGED <<seen, alive, crossed>> /\ kpc[k] = "count"
        /\ held' = Reaped(s, seen[k])
        /\ \A j \in Connects : j # k => kpc'[j] = kpc[j] /\ auto'[j] = auto[j]
    BY <1>8 DEF Count
  <2>2. \A t \in Scopings : Live(t)' \subseteq Live(t)
    BY <2>1 DEF Reaped, Free
  <2>3. CASE Goes(k, "ask") /\ auto' = [auto EXCEPT ![k] = None]
    BY <2>1, <2>2, <2>3, Quiet
  <2>4. CASE /\ Goes(k, "create") /\ UNCHANGED auto
             /\ Cardinality(Under(s) \cap seen[k]) < MaxConcurrent(s)
    <3> SUFFICES ASSUME ~crossed PROVE Room'
      BY <2>1 DEF CapInv
    <3>1. Room /\ \A j \in Connects : Counts(j)' => j = k
      BY <2>1, <2>4 DEF CapInv, Room
    <3>2. Live(s)' \subseteq Under(s) \cap seen[k]
      BY <2>1 DEF Reaped, Free
    <3>3. Cardinality(Live(s)') < MaxConcurrent(s)
      <4>1. Under(s) \cap seen[k] \in SUBSET Connects
        OBVIOUS
      <4>2. /\ Cardinality(Live(s)') \in Nat /\ Cardinality(Under(s) \cap seen[k]) \in Nat
            /\ Cardinality(Live(s)') <= Cardinality(Under(s) \cap seen[k])
            /\ MaxConcurrent(s) \in Nat
        BY <2>1, <3>2, <4>1, Caps
      <4>3. QED
        BY <2>4, <4>2
    <3>4. ASSUME NEW t \in Scopings PROVE Cardinality(Live(t)') <= MaxConcurrent(t)
      <4>1. Live(t) \in SUBSET Connects /\ Cardinality(Live(t)) <= MaxConcurrent(t)
        BY <3>1 DEF Room
      <4>2. /\ Cardinality(Live(t)') \in Nat /\ Cardinality(Live(t)) \in Nat
            /\ Cardinality(Live(t)') <= Cardinality(Live(t)) /\ MaxConcurrent(t) \in Nat
        BY <2>2, <4>1, Caps
      <4>3. QED
        BY <4>1, <4>2
    <3>5. kpc'[k] = "create" /\ auto'[k] = s
      BY <2>4
    <3>6. QED
      <4> HIDE DEF Live, Under, Counts
      <4> QED
        BY <3>1, <3>3, <3>4, <3>5 DEF Room, MaxConcurrent
  <2>5. QED
    BY <1>8, <2>3, <2>4 DEF Count
<1>9. ASSUME NEW k \in Connects, Enter(k) PROVE CapInv'
  <2> PICK s \in Scopings \cup {None} : s = auto[k]
    OBVIOUS
  <2>1. /\ UNCHANGED <<auto, seen, alive, crossed>> /\ kpc[k] = "enter" /\ kpc'[k] = "done"
        /\ held' = [held EXCEPT ![k] = IF s = None THEN Own ELSE s] /\ held[k] = Free
        /\ \A j \in Connects : j # k => kpc'[j] = kpc[j]
    BY <1>9 DEF Enter
  <2>2. CASE s = None
    <3>1. \A t \in Scopings : Live(t)' \subseteq Live(t)
      BY <2>1, <2>2 DEF Own
    <3>2. QED
      BY <2>1, <3>1, Quiet
  <2>3. CASE s # None
    <3> SUFFICES ASSUME ~crossed PROVE Room'
      BY <2>1 DEF CapInv
    <3>1. Room /\ s \in Scopings /\ \A j \in Connects : ~Counts(j)'
      BY <2>1, <2>3 DEF CapInv, Room
    <3>2. Cardinality(Live(s)) < MaxConcurrent(s)
      BY <2>1, <2>3, <3>1 DEF Room
    <3>3. Cardinality(Live(s)') <= MaxConcurrent(s)
      <4>1. Live(s) \in SUBSET Connects /\ Live(s)' \subseteq Live(s) \cup {k}
        BY <2>1, <2>3
      <4>2. /\ IsFiniteSet(Live(s)) /\ Cardinality(Live(s)) \in Nat /\ MaxConcurrent(s) \in Nat
        BY <3>1, <4>1, Caps
      <4>3. Cardinality(Live(s) \cup {k}) <= MaxConcurrent(s)
        <5>1. Cardinality(Live(s) \cup {k}) \in {Cardinality(Live(s)), Cardinality(Live(s)) + 1}
          BY <4>2, FS_AddElement
        <5>2. QED
          BY <3>2, <4>2, <5>1
      <4>4. Live(s) \cup {k} \in SUBSET Connects
        BY <4>1
      <4>5. /\ Cardinality(Live(s)') \in Nat /\ Cardinality(Live(s) \cup {k}) \in Nat
            /\ Cardinality(Live(s)') <= Cardinality(Live(s) \cup {k})
        BY <3>1, <4>1, <4>4, Caps
      <4>6. QED
        BY <4>2, <4>3, <4>5
    <3>4. \A t \in Scopings : t # s => Live(t)' = Live(t)
      BY <2>1, <2>3, <3>1 DEF Free
    <3>5. ASSUME NEW t \in Scopings PROVE Cardinality(Live(t)') <= MaxConcurrent(t)
      <4> HIDE DEF Live, Under, Counts
      <4>1. CASE t = s
        BY <3>3, <4>1
      <4>2. CASE t # s
        BY <3>1, <3>4, <4>2 DEF Room
      <4>3. QED
        BY <4>1, <4>2
    <3>6. QED
      <4> HIDE DEF Live, Under, Counts
      <4> QED
        BY <3>1, <3>5 DEF Room, MaxConcurrent
  <2>4. QED
    BY <2>2, <2>3
<1>10. QED
  BY <1>1, <1>2, <1>3, <1>4, <1>5, <1>6, <1>7, <1>8, <1>9 DEF FanStep, CallStep
-----------------------------------------------------------------------------
(* The theorems.                                                            *)

\* Every step keeps what was found of the server, the calls and the scopes.
LEMMA Inductive ==
  /\ Init => ServerInv /\ FanInv /\ CapInv
  /\ ServerInv /\ FanInv /\ CapInv /\ [Next]_vars => (ServerInv /\ FanInv /\ CapInv)'
<1>1. Init => ServerInv /\ FanInv /\ CapInv
  BY ServerStarts, FanStarts DEF Init
<1>2. ASSUME ServerInv, FanInv, CapInv, [Next]_vars
      PROVE  (ServerInv /\ FanInv /\ CapInv)'
  <2>1. CASE ServerStep /\ UNCHANGED fanVars
    BY <1>2, <2>1, ServerHolds, FanRests
  <2>2. ASSUME UNCHANGED serverVars PROVE ServerInv'
    <3>1. ServerTypeOK'
      BY <1>2, <2>2 DEF ServerInv, ServerTypeOK, serverVars, linkVars, stopVars, pairVars, tableVars
    <3>2. Answers' /\ TokensAreApproved'
      BY <1>2, <2>2 DEF ServerInv, Answers, TokensAreApproved, serverVars, pairVars, tableVars
    <3>3. QED
      BY <3>1, <3>2 DEF ServerInv
  <2>3. CASE FanStep
    BY <1>2, <2>2, <2>3, FanHolds, CapHolds
  <2>4. CASE UNCHANGED vars
    <3>1. UNCHANGED serverVars /\ UNCHANGED fanVars /\ saved \subseteq saved'
      BY <2>4 DEF vars, serverVars, tableVars
    <3>2. QED
      BY <1>2, <2>2, <3>1, FanRests
  <2>5. QED
    BY <1>2, <2>1, <2>3, <2>4 DEF Next, FanStep
<1>3. QED
  BY <1>1, <1>2

\* Every variable keeps its type; the server's table holds just the connections that
\* are served, and requests are open just while they are waited for.
THEOREM AccessTypes == Spec => []TypeOK
<1>1. ServerInv /\ FanInv => TypeOK
  BY DEF ServerInv, FanInv, FanTypeOK, TypeOK
<1>2. QED
  BY Inductive, <1>1, PTL DEF Spec

\* Whoever has a token or is served under one was approved by the user.
THEOREM Approved == Spec => []TokensAreApproved
<1>1. ServerInv => TokensAreApproved
  BY DEF ServerInv
<1>2. QED
  BY Inductive, <1>1, PTL DEF Spec

\* Every session opened for a client was agreed to, alone or in a batch of that
\* client which names its host.
THEOREM Agreed == Spec => []SessionsAreAgreed
<1>1. FanInv => SessionsAreAgreed
  <2> SUFFICES ASSUME FanInv, NEW k \in Connects,
                      k \in alive \/ kpc[k] = "enter" \/ held[k] # Free
               PROVE  /\ k \in agreed \/ (\E s \in Scopings : auto[k] = s /\ Covers(s, k))
                      /\ caller[k] \in saved
    BY DEF SessionsAreAgreed
  <2>1. kpc[k] \in {"enter", "done"}
    BY DEF FanInv, Opened
  <2>2. caller[k] \in saved
    BY <2>1 DEF FanInv, Asked, Calls
  <2>3. CASE auto[k] = None
    BY <2>1, <2>2, <2>3 DEF FanInv, Opened
  <2>4. CASE auto[k] # None
    BY <2>2, <2>4 DEF FanInv, Found, FanTypeOK
  <2>5. QED
    BY <2>2, <2>3, <2>4
<1>2. QED
  BY Inductive, <1>1, PTL DEF Spec

\* A scope's sessions stay within its cap as long as no two counts overlap.
THEOREM Capped == Spec => []CapIsKeptUncrossed
<1>1. CapInv => CapIsKeptUncrossed
  <2> SUFFICES ASSUME Room, NEW s \in Scopings PROVE ~OverCap(s)
    BY DEF CapInv, CapIsKeptUncrossed
  <2>1. Live(s) \in SUBSET Connects /\ Cardinality(Live(s)) <= MaxConcurrent(s)
    BY DEF Room, Live, Under
  <2>2. Cardinality(Live(s)) \in Nat /\ MaxConcurrent(s) \in Nat
    BY <2>1, Caps
  <2>3. QED
    BY <2>1, <2>2 DEF OverCap, Live
<1>2. QED
  BY Inductive, <1>1, PTL DEF Spec
=============================================================================
