------------------------------- MODULE Share -------------------------------
(***************************************************************************)
(* A sharing instance and a peer that pairs with it and reads its hosts:    *)
(* ShareProvider and ShareConsumer composed over HTTP.  Requests and        *)
(* responses may be lost at any moment, as far as the client can tell by a   *)
(* timeout; a token is known to the provider from its row in the clients    *)
(* table alone.                                                             *)
(***************************************************************************)
EXTENDS ShareProvider

CONSTANTS
  Fetches, Removals, Sync  \* of ShareConsumer

ASSUME SyncAssumption == Sync \notin Fetches

VARIABLES row, secret, cpc, fpc, loaded, holding, mpc  \* of ShareConsumer

C == INSTANCE ShareConsumer

consumerVars == <<row, secret, cpc, fpc, loaded, holding, mpc>>
shareVars == <<vars, consumerVars>>

ShareTypeOK == TypeOK /\ C!TypeOK

ShareInit == Init /\ C!Init
-----------------------------------------------------------------------------
(* What both ends take part in.                                             *)

Ask(r) == C!Ask(r) /\ Send(r)

\* Mutant: the status of the response is not looked at.
AnyResponse(r) ==
  /\ \/ C!Granted(r) /\ wire[r] \in {"token", "refused"}
     \/ C!NotGranted(r) /\ wire[r] \in {"token", "refused"}
  /\ UNCHANGED vars

\* The response arrives; the client's own timeout or a broken connection can
\* still be faster.
Answered(r) ==
  /\ \/ C!Granted(r) /\ wire[r] = "token"
     \/ C!NotGranted(r) /\ wire[r] \in {"token", "refused"}
  /\ UNCHANGED vars

GivenUp(r) == C!NotGranted(r) /\ Disconnect(r)

\* HostsForToken, which the server maps to 401 whatever its error was.
AnswerHosts(f) ==
  /\ listening # {}
  /\ \/ C!Accepted(f) /\ holding[f] \in tokens
     \/ C!Rejected(f) /\ (holding[f] \notin tokens \/ Faults)
  /\ UNCHANGED vars

NoHosts(f) == C!Unreachable(f) /\ UNCHANGED vars

Meet ==
  \/ \E r \in Requests : Ask(r) \/ Answered(r) \/ GivenUp(r)
  \/ \E f \in C!Fetchers : AnswerHosts(f) \/ NoHosts(f)

ShareNext ==
  \/ Provide /\ UNCHANGED consumerVars
  \/ C!Consume /\ UNCHANGED vars
  \/ Meet

ShareSpec == ShareInit /\ [][ShareNext]_shareVars

\* Goroutines are scheduled on both sides, HTTP clients time out, the ticker
\* ticks, and of the fetches that are made again and again one is answered.
Work ==
  \/ Goroutines /\ UNCHANGED consumerVars
  \/ (\E r \in Requests : C!Store(r)) /\ UNCHANGED vars
  \/ \E r \in Requests : Answered(r) \/ GivenUp(r)
SyncRound ==
  \/ (C!LoadPeer(Sync) \/ C!Refresh(Sync) \/ C!Drop) /\ UNCHANGED vars
  \/ AnswerHosts(Sync) \/ NoHosts(Sync)
FairShareSpec ==
  /\ ShareSpec
  /\ WF_shareVars(Work) /\ WF_shareVars(SyncRound) /\ SF_shareVars(AnswerHosts(Sync))
-----------------------------------------------------------------------------
(* Properties.                                                              *)

\* A token the peer keeps was issued because the user at the other end said
\* yes to this very request, whatever was lost, late or repeated.
PairedWasApproved ==
  secret # None => first[secret] = "yes" /\ secret \in tokens \cup revoked

\* What the peer keeps of a revoked pairing goes as long as it can reach the
\* other end to be told.
RevokedIsForgotten ==
  \A r \in Requests :
    (secret = r /\ r \in revoked) ~> (secret # r \/ listening = {})

\* Calls on both sides return, and turning sharing off is not held up by a
\* peer that waits for an answer.
AllReturn ==
  /\ CallsReturn /\ RequestsReturn
  /\ \A r \in Requests : cpc[r] # "idle" ~> cpc[r] = "done"

\* Nobody is left with a pairing that is over, nor waiting for one.
PairingsSettle == RevokedIsForgotten /\ AllReturn
-----------------------------------------------------------------------------
(* What comments of the code say and the code does not do.                  *)

\* port/out/share.go: a fetch is unauthorized when the provider has revoked the
\* token, and only then the sync drops the pairing.
DropsOnlyRevoked ==
  [][fpc[Sync] = "drop" /\ fpc'[Sync] = "delete" => secret \notin tokens]_shareVars

\* consumer.go: RemovePeer drops a peer's pairing and its token: a row that
\* nobody pairs again stays away.
RemovedStaysRemoved ==
  [][row = None /\ row' # None => \E r \in Requests : cpc[r] = "save" /\ row' = r]_shareVars

\* consumer.go: a stored peer has a token and a token has its peer, when
\* nobody is working on them.
Resting ==
  /\ \A r \in Requests : cpc[r] \in {"idle", "asked", "done"}
  /\ \A f \in C!Fetchers : fpc[f] \in {"idle", "done"}
  /\ \A m \in Removals : mpc[m] # "delete"
StoresAgree == Resting => (row = None <=> secret = None)
=============================================================================
