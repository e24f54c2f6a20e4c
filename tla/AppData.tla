------------------------------- MODULE AppData -------------------------------
(***************************************************************************)
(* What the application keeps from one start to the next: hosts and their  *)
(* secrets (src/internal/core/service/host, adapter/out/sqlite/            *)
(* host_repo.go) and the commands' outputs, sealed under a key of their    *)
(* own (src/internal/core/service/audit, sqlite/audit_repo.go), on top of  *)
(* the database and the secret store.  The process may end at any step.    *)
(***************************************************************************)
EXTENDS Schema, SecretStore

CONSTANTS Scenes   \* what each call does, whether the host is there from the
                   \* start, and what a start may find for a keychain

Host == "host"             \* secretRef of the one host
OutputKey == "outputKey"   \* outputKeyRef

ASSUME TwoRefs == Refs = {Host, OutputKey}
ASSUME ScenesAreScenes ==
  \A s \in Scenes : s.hosts \subseteq {Host} /\ s.backends \subseteq {"keyring", "file"}

VARIABLES scene,  \* one of Scenes
          rows,   \* the hosts in the table
          trail,  \* rows of mcp_audit: the calls that recorded them
          blob,   \* output_ref of a row: the key it is sealed under, 0 is NULL
          once,   \* cipherBox.once
          aead,   \* cipherBox.aead: the key in memory, 0 when there is none
          pc,     \* how far a call is in its service
          wanted  \* the row an audit panel reads

hostVars == <<rows>>
auditVars == <<trail, blob>>
boxVars == <<once, aead>>
appVars == <<scene, hostVars, auditVars, boxVars, pc, wanted>>
vars == <<schemaVars, storeVars, appVars>>
-----------------------------------------------------------------------------
Init ==
  /\ SchemaInit /\ StoreInit
  /\ scene \in Scenes
  /\ rows = scene.hosts /\ trail = {} /\ blob = [c \in Calls |-> 0]
  /\ once = "no" /\ aead = 0
  /\ pc = [c \in Calls |-> "none"] /\ wanted = [c \in Calls |-> None]

Goto(c, l) == pc' = [pc EXCEPT ![c] = l]
Begins(c, op) == proc = "up" /\ pc[c] = "none" /\ scene.op[c] = op
At(c, l) == proc = "up" /\ pc[c] = l
ResumesAt(c, l) == At(c, l) /\ Answered(c)

\* What a step on its way through the services leaves alone.
OnlyPc == UNCHANGED <<scene, hostVars, auditVars, boxVars, wanted>>
StoreIdle == UNCHANGED <<schemaVars, storeVars>>
StoreAsked == UNCHANGED <<schemaVars, backend, keyring, fileVars, minted, faults>>

(* ------------------------------- the process --------------------------- *)

\* main: the database, then the secret store, then the services.
Open == OpenDatabase /\ UNCHANGED <<storeVars, appVars>>
Migrate == ExecuteStatement /\ UNCHANGED <<storeVars, appVars>>
Up ==
  /\ WriteVersion /\ proc' = "up"
  /\ \E b \in scene.backends : New(b)
  /\ UNCHANGED appVars

\* The application quits or is killed: calls in progress end with it.
Exit ==
  /\ proc \in {"migrating", "up"}
  /\ proc' = "down" /\ todo' = {} /\ UNCHANGED <<starts, diskVars>>
  /\ StoreDies
  /\ once' = "no" /\ aead' = 0
  /\ pc' = [c \in Calls |-> IF pc[c] = "none" THEN "none" ELSE "done"]
  /\ wanted' = [c \in Calls |-> None]
  /\ UNCHANGED <<scene, hostVars, auditVars>>

(* ------------------------------- hosts --------------------------------- *)

\* SaveHost with an empty ID.
CreateHost(c) ==
  /\ Begins(c, "create") /\ rows = {}
  /\ rows' = {Host} /\ Goto(c, "done")
  /\ StoreIdle /\ UNCHANGED <<scene, auditVars, boxVars, wanted>>

\* SaveHost with an ID: the row is loaded, changed, and written back by an
\* upsert; a change that Validate refuses is not.
LoadHost(c) ==
  /\ Begins(c, "edit")
  /\ \E valid \in BOOLEAN : Goto(c, IF Host \in rows /\ valid THEN "edited" ELSE "done")
  /\ StoreIdle /\ OnlyPc
SaveHost(c) ==
  /\ At(c, "edited")
  /\ rows' = rows \cup {Host} /\ Goto(c, "done")
  /\ StoreIdle /\ UNCHANGED <<scene, auditVars, boxVars, wanted>>

\* SetHostSecret and DeleteHost of the same host overlap.
Crossed(ops) ==
  mishaps' = IF \E c \in Calls : pc[c] \in ops THEN mishaps \cup {"crossed"} ELSE mishaps

SetHostSecret(c) ==
  /\ Begins(c, "secret")
  /\ IF Host \in rows
       THEN /\ Ask(c, "set", Host, c) /\ Goto(c, "setting")
            /\ Crossed({"deleting"})
       ELSE Goto(c, "done") /\ UNCHANGED <<callVars, mishaps>>
  /\ StoreAsked /\ OnlyPc
SecretSet(c) ==
  /\ ResumesAt(c, "setting") /\ Goto(c, "done")
  /\ StoreIdle /\ OnlyPc

\* Mutant: the row is deleted before the secret.
RowFirst(c) ==
  /\ Begins(c, "delete")
  /\ rows' = rows \ {Host}
  /\ Ask(c, "delete", Host, None) /\ Goto(c, "deleting")
  /\ Crossed({"setting"})
  /\ StoreAsked /\ UNCHANGED <<scene, auditVars, boxVars, wanted>>
\* DeleteHost: the secret, whatever the store says of it, then the row.
DeleteSecret(c) ==
  /\ Begins(c, "delete")
  /\ Ask(c, "delete", Host, None) /\ Goto(c, "deleting")
  /\ Crossed({"setting"})
  /\ StoreAsked /\ OnlyPc
DeleteHost(c) ==
  /\ ResumesAt(c, "deleting")
  /\ rows' = rows \ {Host} /\ Goto(c, "done")
  /\ StoreIdle /\ UNCHANGED <<scene, auditVars, boxVars, wanted>>

\* TestConnection, and the secret a session connects with, are read alike; an
\* agent's host has none.
TestConnection(c) ==
  /\ Begins(c, "test")
  /\ \E agent \in BOOLEAN :
       IF Host \in rows /\ ~agent
         THEN Ask(c, "get", Host, None) /\ Goto(c, "testing")
         ELSE Goto(c, "done") /\ UNCHANGED callVars
  /\ UNCHANGED mishaps /\ StoreAsked /\ OnlyPc
Probe(c) ==
  /\ ResumesAt(c, "testing") /\ Goto(c, "done")
  /\ StoreIdle /\ OnlyPc

(* ---------------------------- sealed outputs --------------------------- *)

\* The row of a command; its output is attached when the command has ended.
Record(c) ==
  /\ Begins(c, "attach")
  /\ trail' = trail \cup {c} /\ Goto(c, "sealing")
  /\ StoreIdle /\ UNCHANGED <<scene, hostVars, blob, boxVars, wanted>>

\* LoadOutput asks for a key only when the row has an output.
LoadOutput(c) ==
  /\ Begins(c, "read")
  /\ \E r \in trail :
       IF blob[r] # 0 THEN Goto(c, "opening") /\ wanted' = [wanted EXCEPT ![c] = r]
                      ELSE Goto(c, "done") /\ UNCHANGED wanted
  /\ StoreIdle /\ UNCHANGED <<scene, hostVars, auditVars, boxVars>>

\* Mutant: the key is loaded by whoever finds it missing.
NobodyDone == once # "done"
FirstOne == once = "no"

\* sync.Once: the first of seal and open loads the key, the others wait.
LoadKey(c) ==
  /\ proc = "up" /\ pc[c] \in {"sealing", "opening"} /\ FirstOne
  /\ once' = "doing" /\ Goto(c, "reading")
  /\ Ask(c, "get", OutputKey, None)
  /\ UNCHANGED mishaps /\ StoreAsked
  /\ UNCHANGED <<scene, hostVars, auditVars, aead, wanted>>

Resume(c) == Goto(c, IF wanted[c] = None THEN "sealing" ELSE "opening")

KeyFound(c) ==
  /\ ResumesAt(c, "reading") /\ res[c].is = "ok"
  /\ aead' = res[c].val /\ once' = "done" /\ Resume(c)
  /\ StoreIdle /\ UNCHANGED <<scene, hostVars, auditVars, wanted>>

\* Any failure to read the key is taken for a key that is not there yet.
NewKey(c) ==
  /\ ResumesAt(c, "reading") /\ res[c].is # "ok"
  /\ minted' = minted + 1
  /\ Ask(c, "set", OutputKey, minted + 1) /\ Goto(c, "storing")
  /\ UNCHANGED <<schemaVars, backend, keyring, fileVars, faults, mishaps>>
  /\ UNCHANGED <<scene, hostVars, auditVars, boxVars, wanted>>

\* A key that could not be stored is not used; the error stays with the box.
KeyStored(c) ==
  /\ ResumesAt(c, "storing")
  /\ aead' = IF res[c].is = "ok" THEN req[c].val ELSE 0
  /\ once' = "done" /\ Resume(c)
  /\ StoreIdle /\ UNCHANGED <<scene, hostVars, auditVars, wanted>>

AttachOutput(c) ==
  /\ At(c, "sealing") /\ once = "done"
  /\ blob' = IF aead # 0 THEN [blob EXCEPT ![c] = aead] ELSE blob
  /\ Goto(c, "done")
  /\ StoreIdle /\ UNCHANGED <<scene, hostVars, trail, boxVars, wanted>>

OpenOutput(c) ==
  /\ At(c, "opening") /\ once = "done" /\ Goto(c, "done")
  /\ StoreIdle /\ OnlyPc

\* PurgeOutputsBefore, from main's ticker; how old a row is, is not modelled.
Purge ==
  /\ proc = "up"
  /\ \E old \in SUBSET {r \in trail : blob[r] # 0} :
       /\ old # {}
       /\ blob' = [r \in Calls |-> IF r \in old THEN 0 ELSE blob[r]]
  /\ StoreIdle /\ UNCHANGED <<scene, hostVars, trail, boxVars, pc, wanted>>
-----------------------------------------------------------------------------
HostStep(c) ==
  \/ CreateHost(c) \/ LoadHost(c) \/ SaveHost(c) \/ SetHostSecret(c) \/ SecretSet(c)
  \/ DeleteSecret(c) \/ DeleteHost(c) \/ TestConnection(c) \/ Probe(c)

AuditStep(c) ==
  \/ Record(c) \/ LoadOutput(c) \/ LoadKey(c) \/ KeyFound(c) \/ NewKey(c)
  \/ KeyStored(c) \/ AttachOutput(c) \/ OpenOutput(c)

InStore(c) == proc = "up" /\ StoreStep(c) /\ UNCHANGED <<schemaVars, appVars>>

Next ==
  \/ Open \/ Migrate \/ Up \/ Exit \/ Purge
  \/ \E c \in Calls : HostStep(c) \/ AuditStep(c) \/ InStore(c)

Spec == Init /\ [][Next]_vars
-----------------------------------------------------------------------------
\* Type invariant.
TypeOK ==
  /\ proc \in {"down", "migrating", "up", "refused"} /\ starts \in Nat
  /\ version \in 0..schemaVersion /\ todo \subseteq DOMAIN Statements
  /\ StoreTypeOK
  /\ rows \subseteq {Host} /\ trail \subseteq Calls /\ blob \in [Calls -> Nat]
  /\ once \in {"no", "doing", "done"} /\ aead \in Nat
  /\ pc \in [Calls -> {"none", "edited", "setting", "deleting", "testing", "sealing",
                       "opening", "reading", "storing", "done"}]
  /\ wanted \in [Calls -> Calls \cup {None}]

\* The number in user_version is never ahead of the tables, an application
\* that runs has all of them, and no database an earlier version or an
\* interrupted migration left behind is refused (migrate: the version is
\* written last, and every statement may be run again).
SchemaIsWhole ==
  /\ Built(version, schema)
  /\ proc = "up" => Built(schemaVersion, schema)
  /\ proc # "refused"

\* Every output sealed so far can be opened with the key in memory, in this
\* run of the application and the next ones, whatever the order in which
\* captures finish and wherever a run ended: as long as no read of the key
\* failed, no write of the secrets was cut short and each start found the same
\* store (cipherBox.get, loadOrCreate).
OutputsReadable ==
  (aead # 0 /\ mishaps \cap {"get", "cut", "switch"} = {}) =>
     \A r \in Calls : blob[r] # 0 => blob[r] = aead

\* No secret outlives its host, even when the application ends in the middle
\* of DeleteHost: unless the store refused to delete it, another start stored
\* it elsewhere, or the secret was set while its host was being deleted.
NoOrphanSecret ==
  (mishaps \cap {"delete", "switch", "crossed"} = {} /\ Host \notin rows) =>
     keyring[Host] = None /\ dataFile.map[Host] = None
-----------------------------------------------------------------------------
(* What comments of the code say and the code does not do. *)

\* "a fresh one is generated" only when there is no key yet: a read that
\* failed once makes every earlier output unreadable (cipher.go:47-50).
FailedReadIsHarmless ==
  (aead # 0 /\ mishaps \cap {"cut", "switch"} = {}) =>
     \A r \in Calls : blob[r] # 0 => blob[r] = aead

\* SaveHost "loads and updates the existing record" (host/service.go:58-59): a
\* host that was deleted since it was loaded is inserted again.
DeletedStaysDeleted ==
  [][\A c \in Calls : pc[c] = "edited" /\ pc'[c] = "done" /\ proc' = "up" => rows' = rows]_vars
=============================================================================
