--------------------------- MODULE ShareConsumer ---------------------------
(***************************************************************************)
(* Package share, consumer.go: this instance's pairing with one peer, a row *)
(* in the peers table and a token in the secret store.  The user pairs,     *)
(* refreshes and removes the peer in goroutines of their own, and syncLoop  *)
(* refreshes it every 30 seconds; no lock covers two of their steps.        *)
(*                                                                          *)
(* A step is one call of a repository or one answer of the peer.  A pairing *)
(* is named by its request, and a row by the pairing whose address and      *)
(* certificate it has; names and hosts are left out.                        *)
(***************************************************************************)
CONSTANTS
  Requests,  \* calls of PairWithPeer and AddPeerByAddress
  Fetches,   \* calls of FetchSharedHosts
  Removals,  \* calls of RemovePeer
  Sync,      \* syncLoop
  Faults,    \* may the repositories fail?
  None

VARIABLES
  row, secret,              \* the peers table and the secret store
  cpc,                      \* pairAndStore
  fpc, loaded, holding,     \* fetchAndCache: the row and the token it works with
  mpc                       \* RemovePeer

storeVars == <<row, secret>>
fetchVars == <<fpc, loaded, holding>>
vars == <<storeVars, cpc, fetchVars, mpc>>

Fetchers == Fetches \cup {Sync}

\* What a store holds after a write that may fail, and whose error is ignored
\* or just returned.
Written(new, old) == {new} \cup (IF Faults THEN {old} ELSE {})

TypeOK ==
  /\ row \in Requests \cup {None} /\ secret \in Requests \cup {None}
  /\ cpc \in [Requests -> {"idle", "asked", "set", "save", "done"}]
  /\ fpc \in [Fetchers -> {"idle", "token", "fetch", "cache", "drop", "delete", "done"}]
  /\ loaded \in [Fetchers -> Requests \cup {None}]
  /\ holding \in [Fetchers -> Requests \cup {None}]
  /\ mpc \in [Removals -> {"idle", "delete", "done"}]

Init ==
  /\ row = None /\ secret = None
  /\ cpc = [r \in Requests |-> "idle"]
  /\ fpc = [f \in Fetchers |-> "idle"]
  /\ loaded = [f \in Fetchers |-> None]
  /\ holding = [f \in Fetchers |-> None]
  /\ mpc = [m \in Removals |-> "idle"]
-----------------------------------------------------------------------------
(* Pairing.                                                                 *)

Goto(r, from, to) == cpc[r] = from /\ cpc' = [cpc EXCEPT ![r] = to]

\* Info answered, and the pairing request is on its way.
Ask(r) ==
  /\ Goto(r, "idle", "asked")
  /\ UNCHANGED <<storeVars, fetchVars, mpc>>

\* The peer's answer: a token, a refusal, or nothing before the timeout.
Granted(r) ==
  /\ Goto(r, "asked", "set")
  /\ UNCHANGED <<storeVars, fetchVars, mpc>>

NotGranted(r) ==
  /\ Goto(r, "asked", "done")
  /\ UNCHANGED <<storeVars, fetchVars, mpc>>

SetSecret(r) ==
  /\ \/ Goto(r, "set", "save") /\ secret' = r
     \/ Faults /\ Goto(r, "set", "done") /\ UNCHANGED secret
  /\ UNCHANGED <<row, fetchVars, mpc>>

SavePeer(r) ==
  /\ Goto(r, "save", "done")
  /\ row' \in Written(r, row)
  /\ UNCHANGED <<secret, fetchVars, mpc>>
-----------------------------------------------------------------------------
(* Refreshing.                                                              *)

FetchGoto(f, from, to) == fpc[f] = from /\ fpc' = [fpc EXCEPT ![f] = to]
End(f) == IF f = Sync THEN "idle" ELSE "done"  \* the loop goes on

LoadPeer(f) ==
  /\ row # None
  /\ FetchGoto(f, "idle", "token")
  /\ loaded' = [loaded EXCEPT ![f] = row]
  /\ UNCHANGED <<storeVars, cpc, holding, mpc>>

ReadToken(f) ==
  /\ \/ secret # None /\ FetchGoto(f, "token", "fetch")
     \/ (secret = None \/ Faults) /\ FetchGoto(f, "token", End(f))
  /\ holding' = [holding EXCEPT ![f] = secret]
  /\ UNCHANGED <<storeVars, cpc, loaded, mpc>>

\* The peer answers the token with its hosts, with 401, or not at all.
Accepted(f) ==
  /\ FetchGoto(f, "fetch", "cache")
  /\ UNCHANGED <<storeVars, cpc, loaded, holding, mpc>>

Rejected(f) ==
  /\ FetchGoto(f, "fetch", IF f = Sync THEN "drop" ELSE "done")
  /\ UNCHANGED <<storeVars, cpc, loaded, holding, mpc>>

Unreachable(f) ==
  /\ FetchGoto(f, "fetch", End(f))
  /\ UNCHANGED <<storeVars, cpc, loaded, holding, mpc>>

\* The row as it was loaded, with the new hosts.
CacheHosts(f) ==
  /\ FetchGoto(f, "cache", End(f))
  /\ row' \in Written(loaded[f], row)
  /\ UNCHANGED <<secret, cpc, loaded, holding, mpc>>

\* syncOnce drops a peer that rejects the token: RemovePeer.
DropSecret ==
  /\ FetchGoto(Sync, "drop", "delete")
  /\ secret' \in Written(None, secret)
  /\ UNCHANGED <<row, cpc, loaded, holding, mpc>>

DropPeer ==
  /\ FetchGoto(Sync, "delete", "idle")
  /\ row' \in Written(None, row)
  /\ UNCHANGED <<secret, cpc, loaded, holding, mpc>>
-----------------------------------------------------------------------------
(* Removing.                                                                *)

RemoveGoto(m, from, to) == mpc[m] = from /\ mpc' = [mpc EXCEPT ![m] = to]

RemoveSecret(m) ==
  /\ row # None
  /\ RemoveGoto(m, "idle", "delete")
  /\ secret' \in Written(None, secret)
  /\ UNCHANGED <<row, cpc, fetchVars>>

RemovePeer(m) ==
  /\ RemoveGoto(m, "delete", "done")
  /\ row' \in Written(None, row)
  /\ UNCHANGED <<secret, cpc, fetchVars>>
-----------------------------------------------------------------------------
\* What goes on without the peer.
Store(r) == SetSecret(r) \/ SavePeer(r)
Refresh(f) == ReadToken(f) \/ CacheHosts(f)
Drop == DropSecret \/ DropPeer
Consume ==
  \/ \E r \in Requests : Store(r)
  \/ \E f \in Fetchers : LoadPeer(f) \/ Refresh(f)
  \/ Drop
  \/ \E m \in Removals : RemoveSecret(m) \/ RemovePeer(m)

\* And with it.
Exchange ==
  \/ \E r \in Requests : Ask(r) \/ Granted(r) \/ NotGranted(r)
  \/ \E f \in Fetchers : Accepted(f) \/ Rejected(f) \/ Unreachable(f)

Spec == Init /\ [][Consume \/ Exchange]_vars
=============================================================================
