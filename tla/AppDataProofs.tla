--------------------------- MODULE AppDataProofs ---------------------------
(***************************************************************************)
(* What lasts from one start of the application to the next.  The secrets' *)
(* file can be deciphered (theorem Deciphered), for a key on disk is       *)
(* replaced only while there is nothing sealed under it, or because it     *)
(* could not be read: then until the file is written again.  Calls do not  *)
(* undo each other (theorem Acknowledged): the one inside the file store   *)
(* holds the mutex from its load to its write, so what it writes is what   *)
(* was stored, changed as it was asked to.  And no start is refused        *)
(* (theorem Migrated): what a statement needs is made by one before it,    *)
(* and what a migration left behind, cut off anywhere, is the start of the *)
(* same list: a statement met again finds its object.                      *)
(*                                                                         *)
(* Outputs stay readable (theorem Readable) because a new key is made only *)
(* when none is stored: one call at a time looks for it, and what it finds *)
(* missing nobody else may store.  No secret outlives its host (theorem    *)
(* NoOrphans) because the secret goes before the row, and from then on no  *)
(* buffer that may still be written holds it.                              *)
(***************************************************************************)
EXTENDS AppData, TLAPS

\* What a call that waits for the store has asked it, step by step.
Busy == {"asked", "loading", "saving", "writing"}
Asked(c, do, ref) == spc[c] # "idle" /\ req[c].do = do /\ req[c].ref = ref
Dialogue ==
  \A c \in Calls :
    /\ spc[c] # "idle" => req[c].ref \in Refs
    /\ spc[c] \in Busy => pc[c] \in {"setting", "deleting", "testing", "reading", "storing"}
    /\ spc[c] \in {"saving", "writing"} => req[c].do # "get"
    /\ pc[c] = "setting" => Asked(c, "set", Host)
    /\ pc[c] = "deleting" => Asked(c, "delete", Host)
    /\ pc[c] = "testing" => Asked(c, "get", Host)
    /\ pc[c] = "reading" => Asked(c, "get", OutputKey)
    /\ pc[c] = "storing" => Asked(c, "set", OutputKey) /\ req[c].val \in Nat \ {0}

\* The key outputs are sealed under is a key wherever it is held.
KeyOrNone == (Nat \ {0}) \cup {None}
KeysAreKeys ==
  /\ keyring[OutputKey] \in KeyOrNone /\ kept[OutputKey] \in KeyOrNone
  /\ dataFile.map[OutputKey] \in KeyOrNone
  /\ \A c \in Calls : buf[c][OutputKey] \in KeyOrNone
  /\ \A c \in Calls : pc[c] = "reading" /\ res[c].is = "ok" => res[c].val \in Nat \ {0}

TypeInv == TypeOK /\ scene \in Scenes /\ Dialogue /\ KeysAreKeys

Exclusive == \A c \in Calls : Inside(c) => holder = c /\ backend = "file"
WritersHaveKey == \A c \in Calls : spc[c] = "writing" => keyFile # 0
UnsealedIsEmpty == dataFile.is # "sealed" => dataFile.map = Nothing

\* Nothing is asked of the store unless the application runs.
Resting == proc # "up" => \A c \in Calls : spc[c] = "idle"

\* What a call has in hand, and what the file holds, is what was acknowledged.
Faithful ==
  "cut" \notin mishaps =>
    /\ \A c \in Calls : spc[c] \in {"saving", "writing"} => buf[c] = Changed(kept, req[c])
    /\ (\A c \in Calls : spc[c] # "writing") => dataFile.is # "torn" /\ dataFile.map = kept

StoreInv ==
  Exclusive /\ WritersHaveKey /\ UnsealedIsEmpty /\ SealedUnderTheKey /\ Faithful
-----------------------------------------------------------------------------
(* Types.                                                                   *)

AppTypeOK ==
  /\ proc \in {"down", "migrating", "up", "refused"} /\ starts \in Nat
  /\ version \in 0..schemaVersion /\ todo \subseteq DOMAIN Statements
  /\ rows \subseteq {Host} /\ trail \subseteq Calls /\ blob \in [Calls -> Nat]
  /\ once \in {"no", "doing", "done"} /\ aead \in Nat
  /\ pc \in [Calls -> {"none", "edited", "setting", "deleting", "testing", "sealing",
                       "opening", "reading", "storing", "done"}]
  /\ wanted \in [Calls -> Calls \cup {None}]

LEMMA TypeSplit == TypeOK <=> AppTypeOK /\ StoreTypeOK
BY DEF TypeOK, AppTypeOK

LEMMA ChangedType ==
  ASSUME NEW m \in [Refs -> Secrets \cup {None}], NEW q, q.val \in Secrets \cup {None}
  PROVE  Changed(m, q) \in [Refs -> Secrets \cup {None}]
BY DEF Changed

LEMMA AnswerType ==
  ASSUME StoreTypeOK, NEW c \in Calls,
         NEW r \in [is : {"none", "ok", "missing", "failed"}, val : Secrets \cup {None}],
         Answer(c, r)
  PROVE  /\ holder' \in Calls \cup {None}
         /\ spc' \in [Calls -> {"idle", "asked", "loading", "saving", "writing", "answered"}]
         /\ req' \in [Calls -> [do : {"get", "set", "delete"}, ref : Refs \cup {None},
                                val : Secrets \cup {None}]]
         /\ buf' \in [Calls -> [Refs -> Secrets \cup {None}]]
         /\ res' \in [Calls -> [is : {"none", "ok", "missing", "failed"},
                                val : Secrets \cup {None}]]
<1>1. Nothing \in [Refs -> Secrets \cup {None}]
  BY DEF Nothing
<1>2. QED
  BY <1>1 DEF Answer, StoreTypeOK

LEMMA FailureType ==
  ASSUME StoreTypeOK, NEW c \in Calls, Failure(c)
  PROVE  /\ faults' \in Nat /\ Answer(c, Failed)
         /\ Failed \in [is : {"none", "ok", "missing", "failed"}, val : Secrets \cup {None}]
         /\ req[c].do \in {"get", "set", "delete"}
BY DEF Failure, Failed, StoreTypeOK

\* Every step in the store keeps its types.
LEMMA StoreTypes ==
  ASSUME StoreTypeOK, Dialogue, NEW c \in Calls, StoreStep(c)
  PROVE  StoreTypeOK'
<1> USE DEF StoreTypeOK
<1>1. /\ req[c] \in [do : {"get", "set", "delete"}, ref : Refs \cup {None},
                      val : Secrets \cup {None}]
      /\ spc[c] # "idle" => req[c].ref \in Refs
      /\ Nothing \in [Refs -> Secrets \cup {None}]
      /\ minted + 1 \in Nat
  BY DEF Dialogue, Nothing
<1>2. Changed(keyring, req[c]) \in [Refs -> Secrets \cup {None}]
      /\ Changed(kept, req[c]) \in [Refs -> Secrets \cup {None}]
  BY <1>1, ChangedType
<1>3. ASSUME NEW m \in [Refs -> Secrets \cup {None}], spc[c] # "idle"
      PROVE  /\ Found(m, req[c].ref) \in [is : {"none", "ok", "missing", "failed"},
                                          val : Secrets \cup {None}]
             /\ Changed(m, req[c]) \in [Refs -> Secrets \cup {None}]
  <2>1. Changed(m, req[c]) \in [Refs -> Secrets \cup {None}]
    BY <1>1, ChangedType
  <2>2. QED
    BY <1>1, <1>3, <2>1 DEF Found, Missing, Ok
<1>4. Ok(None) \in [is : {"none", "ok", "missing", "failed"}, val : Secrets \cup {None}]
      /\ Failed \in [is : {"none", "ok", "missing", "failed"}, val : Secrets \cup {None}]
  BY DEF Ok, Failed
<1>5. CASE Keyring(c)
  <2>1. CASE req[c].do = "get"
    BY <1>3, <1>5, <2>1, AnswerType DEF Keyring, fileVars
  <2>2. CASE req[c].do # "get"
    BY <1>2, <1>4, <1>5, <2>2, AnswerType DEF Keyring, fileVars
  <2>3. QED
    BY <2>1, <2>2
<1>6. CASE KeyringFails(c)
  BY <1>6, FailureType, AnswerType DEF KeyringFails, fileVars
<1>7. CASE Lock(c)
  BY <1>7 DEF Lock, fileVars
<1>8. CASE MasterKey(c)
  BY <1>1, <1>8 DEF MasterKey, callVars
<1>17. CASE KeyReadFails(c)
  BY <1>17 DEF KeyReadFails, callVars
<1>9. ASSUME NEW m \in [Refs -> Secrets \cup {None}], Loaded(c, m), spc[c] = "loading",
             UNCHANGED <<backend, keyring, fileVars, minted, faults, mishaps>>
      PROVE  StoreTypeOK'
  <2>1. CASE req[c].do = "get"
    BY <1>3, <1>9, <2>1, AnswerType DEF Loaded, fileVars
  <2>2. CASE req[c].do # "get"
    <3>1. Changed(m, req[c]) \in [Refs -> Secrets \cup {None}]
      BY <1>3, <1>9
    <3>2. /\ buf' = [buf EXCEPT ![c] = Changed(m, req[c])]
          /\ spc' = [spc EXCEPT ![c] = "saving"]
          /\ UNCHANGED <<holder, req, res, backend, keyring, fileVars, minted, faults, mishaps>>
      BY <1>9, <2>2 DEF Loaded
    <3>3. buf' \in [Calls -> [Refs -> Secrets \cup {None}]]
      BY <3>1, <3>2
    <3>4. QED
      BY <3>2, <3>3 DEF fileVars
  <2>3. QED
    BY <2>1, <2>2
<1>10. CASE Load(c)
  <2>1. CASE Loaded(c, Nothing) /\ UNCHANGED mishaps
    BY <1>1, <1>9, <1>10, <2>1 DEF Load
  <2>2. CASE Loaded(c, dataFile.map) /\ UNCHANGED mishaps
    BY <1>9, <1>10, <2>2 DEF Load
  <2>3. CASE Answer(c, Failed)
    <3>1. mishaps' \subseteq {"get", "set", "delete", "switch", "cut", "crossed"}
      BY <1>1, <1>10 DEF Load
    <3>2. QED
      BY <1>4, <1>10, <2>3, <3>1, AnswerType DEF Load, fileVars
  <2>4. QED
    BY <1>10, <2>1, <2>2, <2>3 DEF Load
<1>11. CASE FileFails(c)
  BY <1>11, FailureType, AnswerType DEF FileFails, fileVars
<1>12. CASE Truncate(c)
  BY <1>1, <1>12 DEF Truncate, Vacant
<1>13. CASE Part(c)
  BY <1>1, <1>13 DEF Part, Vacant, Torn, callVars
<1>14. CASE Write(c)
  BY <1>2, <1>4, <1>14, AnswerType DEF Write
<1>15. CASE WriteFails(c)
  BY <1>15, FailureType, AnswerType DEF WriteFails, fileVars
<1>16. QED
  BY <1>5, <1>6, <1>7, <1>8, <1>10, <1>11, <1>12, <1>13, <1>14, <1>15, <1>17 DEF StoreStep

\* So does every step outside it.
LEMMA AskTypes ==
  ASSUME StoreTypeOK, NEW c \in Calls, NEW do \in {"get", "set", "delete"},
         NEW ref \in Refs, NEW val \in Secrets \cup {None}, Ask(c, do, ref, val),
         UNCHANGED <<backend, keyring, fileVars, faults>>, minted' \in Nat,
         mishaps' \subseteq {"get", "set", "delete", "switch", "cut", "crossed"}
  PROVE  StoreTypeOK'
<1>1. NoAnswer \in [is : {"none", "ok", "missing", "failed"}, val : Secrets \cup {None}]
  BY DEF NoAnswer
<1>2. QED
  BY <1>1 DEF StoreTypeOK, Ask, fileVars

LEMMA DiesTypes == ASSUME StoreTypeOK, StoreDies PROVE StoreTypeOK'
<1>1. NoAnswer \in [is : {"none", "ok", "missing", "failed"}, val : Secrets \cup {None}]
      /\ NoRequest \in [do : {"get", "set", "delete"}, ref : Refs \cup {None},
                        val : Secrets \cup {None}]
      /\ Nothing \in [Refs -> Secrets \cup {None}]
  BY DEF NoAnswer, NoRequest, Nothing
<1>2. QED
  BY <1>1 DEF StoreTypeOK, StoreDies, fileVars

LEMMA IdleTypes == ASSUME StoreTypeOK, UNCHANGED storeVars PROVE StoreTypeOK'
BY DEF StoreTypeOK, storeVars, fileVars, callVars

LEMMA HostStoreTypes ==
  ASSUME StoreTypeOK, NEW c \in Calls, HostStep(c)
  PROVE  StoreTypeOK'
<1> USE TwoRefs DEF StoreIdle, StoreAsked, fileVars
<1>1. CASE UNCHANGED storeVars
  BY <1>1, IdleTypes
<1>2. CASE UNCHANGED <<callVars, mishaps>> /\ StoreAsked
  BY <1>2, IdleTypes DEF storeVars
<1>3. mishaps \subseteq {"get", "set", "delete", "switch", "cut", "crossed"} /\ minted \in Nat
  BY DEF StoreTypeOK
<1>4. ASSUME NEW ops, Crossed(ops)
      PROVE  mishaps' \subseteq {"get", "set", "delete", "switch", "cut", "crossed"}
  BY <1>3, <1>4 DEF Crossed
<1>5. CASE SetHostSecret(c)
  <2>1. c \in Secrets
    BY DEF Secrets
  <2>2. CASE Host \in rows
    BY <1>3, <1>4, <1>5, <2>1, <2>2, AskTypes DEF SetHostSecret
  <2>3. QED
    BY <1>2, <1>5, <2>2 DEF SetHostSecret
<1>6. CASE DeleteSecret(c)
  BY <1>3, <1>4, <1>6, AskTypes DEF DeleteSecret
<1>7. CASE TestConnection(c)
  <2>1. CASE Ask(c, "get", Host, None)
    BY <1>3, <1>7, <2>1, AskTypes DEF TestConnection
  <2>2. QED
    BY <1>2, <1>7, <2>1 DEF TestConnection
<1>8. QED
  BY <1>1, <1>5, <1>6, <1>7
     DEF HostStep, CreateHost, LoadHost, SaveHost, SecretSet, DeleteHost, Probe

LEMMA AuditStoreTypes ==
  ASSUME StoreTypeOK, NEW c \in Calls, AuditStep(c)
  PROVE  StoreTypeOK'
<1> USE TwoRefs DEF StoreIdle, StoreAsked, fileVars
<1>1. CASE UNCHANGED storeVars
  BY <1>1, IdleTypes
<1>2. /\ mishaps \subseteq {"get", "set", "delete", "switch", "cut", "crossed"}
      /\ minted \in Nat /\ minted + 1 \in Nat /\ minted + 1 \in Secrets
  BY DEF StoreTypeOK, Secrets
<1>3. CASE LoadKey(c)
  BY <1>2, <1>3, AskTypes DEF LoadKey
<1>4. CASE NewKey(c)
  BY <1>2, <1>4, AskTypes DEF NewKey
<1>5. QED
  BY <1>1, <1>3, <1>4
     DEF AuditStep, Record, LoadOutput, KeyFound, KeyStored, AttachOutput, OpenOutput

LEMMA NewTypes ==
  ASSUME StoreTypeOK, NEW b \in {"keyring", "file"}, New(b)
  PROVE  StoreTypeOK'
BY DEF StoreTypeOK, New, fileVars, callVars

LEMMA StoreTypeStep == ASSUME TypeOK, Dialogue, [Next]_vars, scene \in Scenes PROVE StoreTypeOK'
<1>1. StoreTypeOK
  BY TypeSplit
<1>2. CASE Open \/ Migrate \/ Purge \/ UNCHANGED vars
  <2>1. UNCHANGED storeVars
    BY <1>2 DEF Open, Migrate, Purge, StoreIdle, vars
  <2>2. QED
    BY <1>1, <2>1, IdleTypes
<1>3. CASE Up
  BY <1>1, <1>3, NewTypes, ScenesAreScenes DEF Up
<1>4. CASE Exit
  BY <1>1, <1>4, DiesTypes DEF Exit
<1>5. ASSUME NEW c \in Calls, HostStep(c) \/ AuditStep(c) \/ InStore(c)
      PROVE  StoreTypeOK'
  BY <1>1, <1>5, HostStoreTypes, AuditStoreTypes, StoreTypes DEF InStore
<1>6. QED
  BY <1>2, <1>3, <1>4, <1>5 DEF Next

LEMMA HostTypes ==
  ASSUME AppTypeOK, NEW c \in Calls, HostStep(c)
  PROVE  AppTypeOK'
<1> USE DEF AppTypeOK, StoreIdle, StoreAsked, OnlyPc, Goto, schemaVars, diskVars, hostVars,
            auditVars, boxVars
<1>1. CASE CreateHost(c) \/ LoadHost(c) \/ SaveHost(c)
  BY <1>1 DEF CreateHost, LoadHost, SaveHost
<1>2. CASE SetHostSecret(c) \/ SecretSet(c) \/ DeleteSecret(c) \/ DeleteHost(c)
  BY <1>2 DEF SetHostSecret, SecretSet, DeleteSecret, DeleteHost
<1>3. CASE TestConnection(c) \/ Probe(c)
  BY <1>3 DEF TestConnection, Probe
<1>4. QED
  BY <1>1, <1>2, <1>3 DEF HostStep

\* A step in the store moves one call on, and leaves what it asked for.
LEMMA StoreMoves ==
  ASSUME StoreTypeOK, NEW c \in Calls, StoreStep(c)
  PROVE  /\ spc[c] \in Busy /\ UNCHANGED <<req, backend>>
         /\ \E s \in {"loading", "saving", "writing", "answered"} : spc' = [spc EXCEPT ![c] = s]
         /\ \A d \in Calls \ {c} : spc'[d] = spc[d] /\ res'[d] = res[d] /\ buf'[d] = buf[d]
         /\ spc'[c] \in {"saving", "writing"} /\ req[c].do = "get"
              => spc[c] \in {"saving", "writing"}
<1> USE DEF StoreTypeOK, Busy, Answer, Failure
<1>1. CASE Keyring(c) \/ KeyringFails(c) \/ Lock(c)
  BY <1>1 DEF Keyring, KeyringFails, Lock
<1>2. CASE KeyReadFails(c) \/ MasterKey(c) \/ FileFails(c) \/ Truncate(c)
  BY <1>2 DEF KeyReadFails, MasterKey, AsksForTheKey, FileFails, Truncate, callVars
<1>3. CASE Load(c)
  BY <1>3 DEF Load, Loaded
<1>4. CASE Part(c) \/ Write(c) \/ WriteFails(c)
  BY <1>4 DEF Part, Write, WriteFails, callVars
<1>5. QED
  BY <1>1, <1>2, <1>3, <1>4 DEF StoreStep

LEMMA AuditTypes ==
  ASSUME AppTypeOK, StoreTypeOK, Dialogue, KeysAreKeys, NEW c \in Calls, AuditStep(c)
  PROVE  AppTypeOK'
<1> USE DEF AppTypeOK, StoreIdle, StoreAsked, OnlyPc, Goto, Resume, schemaVars, diskVars, hostVars,
            auditVars, boxVars
<1>1. CASE Record(c)
  BY <1>1 DEF Record
<1>2. CASE LoadOutput(c)
  BY <1>2 DEF LoadOutput
<1>3. CASE LoadKey(c) \/ NewKey(c) \/ OpenOutput(c)
  BY <1>3 DEF LoadKey, NewKey, OpenOutput
<1>4. CASE KeyFound(c)
  <2>1. aead' \in Nat
    BY <1>4 DEF KeyFound, ResumesAt, At, KeysAreKeys
  <2>2. QED
    BY <1>4, <2>1 DEF KeyFound
<1>5. CASE KeyStored(c)
  <2>1. aead' \in Nat
    BY <1>5 DEF KeyStored, ResumesAt, At, Dialogue
  <2>2. QED
    BY <1>5, <2>1 DEF KeyStored
<1>6. CASE AttachOutput(c)
  BY <1>6 DEF AttachOutput
<1>7. QED
  BY <1>1, <1>2, <1>3, <1>4, <1>5, <1>6 DEF AuditStep

LEMMA AppTypeStep ==
  ASSUME TypeInv, [Next]_vars
  PROVE  AppTypeOK' /\ scene' \in Scenes
<1> USE DEF TypeInv
<1>1. AppTypeOK /\ StoreTypeOK
  BY TypeSplit
<1>2. CASE Open \/ Migrate
  BY <1>1, <1>2
     DEF Open, Migrate, OpenDatabase, ExecuteStatement, AppTypeOK, appVars, hostVars, auditVars,
         boxVars, diskVars
<1>3. CASE Up
  <2>1. schemaVersion \in 0..schemaVersion
    BY DEF schemaVersion
  <2>2. QED
    BY <1>1, <1>3, <2>1
       DEF Up, WriteVersion, AppTypeOK, appVars, hostVars, auditVars, boxVars
<1>4. CASE Exit \/ Purge
  BY <1>1, <1>4
     DEF Exit, Purge, AppTypeOK, StoreIdle, schemaVars, hostVars, auditVars, boxVars, diskVars
<1>5. ASSUME NEW c \in Calls, HostStep(c)
      PROVE  AppTypeOK' /\ scene' = scene
  <2>1. scene' = scene
    BY <1>5 DEF HostStep, CreateHost, LoadHost, SaveHost, SetHostSecret, SecretSet, DeleteSecret,
                DeleteHost, TestConnection, Probe, OnlyPc
  <2>2. QED
    BY <1>1, <1>5, <2>1, HostTypes
<1>6. ASSUME NEW c \in Calls, AuditStep(c)
      PROVE  AppTypeOK' /\ scene' = scene
  <2>1. scene' = scene
    BY <1>6 DEF AuditStep, Record, LoadOutput, LoadKey, KeyFound, NewKey, KeyStored, AttachOutput,
                OpenOutput, OnlyPc
  <2>2. QED
    BY <1>1, <1>6, <2>1, AuditTypes
<1>7. CASE (\E c \in Calls : InStore(c)) \/ UNCHANGED vars
  BY <1>1, <1>7
     DEF InStore, AppTypeOK, vars, schemaVars, appVars, hostVars, auditVars, boxVars, diskVars
<1>8. QED
  BY <1>2, <1>3, <1>4, <1>5, <1>6, <1>7 DEF Next
-----------------------------------------------------------------------------
(* What calls ask the store.                                                *)

LEMMA GoesOn ==
  ASSUME TypeOK, Dialogue, NEW c \in Calls, NEW l \in {"edited", "sealing", "opening", "done"},
         Goto(c, l), UNCHANGED <<spc, req>>, spc[c] \notin Busy
  PROVE  Dialogue'
BY DEF Dialogue, Asked, Goto, TypeOK

LEMMA Asks ==
  ASSUME TypeOK, Dialogue, NEW c \in Calls, NEW do, NEW ref \in Refs, NEW val, NEW l,
         Ask(c, do, ref, val), Goto(c, l),
         \/ l = "setting" /\ do = "set" /\ ref = Host
         \/ l = "deleting" /\ do = "delete" /\ ref = Host
         \/ l = "testing" /\ do = "get" /\ ref = Host
         \/ l = "reading" /\ do = "get" /\ ref = OutputKey
         \/ l = "storing" /\ do = "set" /\ ref = OutputKey /\ val \in Nat \ {0}
  PROVE  Dialogue'
<1>1. /\ spc'[c] = "asked" /\ req'[c] = [do |-> do, ref |-> ref, val |-> val] /\ pc'[c] = l
      /\ \A d \in Calls \ {c} : spc'[d] = spc[d] /\ req'[d] = req[d] /\ pc'[d] = pc[d]
  BY DEF Ask, Goto, TypeOK, StoreTypeOK
<1>2. QED
  BY <1>1 DEF Dialogue, Asked

LEMMA HostDialogue ==
  ASSUME TypeOK, Dialogue, NEW c \in Calls, HostStep(c)
  PROVE  Dialogue'
<1> USE TwoRefs DEF StoreIdle, StoreAsked, storeVars, callVars
<1>1. pc[c] \in {"none", "edited"} => spc[c] \notin Busy
  BY DEF Dialogue
<1>2. CASE CreateHost(c) \/ LoadHost(c) \/ SaveHost(c)
  <2>1. UNCHANGED <<spc, req>> /\ spc[c] \notin Busy
    BY <1>1, <1>2 DEF CreateHost, LoadHost, SaveHost, Begins, At
  <2>2. Goto(c, "edited") \/ Goto(c, "done")
    BY <1>2 DEF CreateHost, LoadHost, SaveHost
  <2>3. QED
    BY <2>1, <2>2, GoesOn
<1>3. CASE SecretSet(c) \/ DeleteHost(c) \/ Probe(c)
  <2>1. UNCHANGED <<spc, req>> /\ spc[c] \notin Busy /\ Goto(c, "done")
    BY <1>3 DEF SecretSet, DeleteHost, Probe, ResumesAt, Answered, Busy
  <2>2. QED
    BY <2>1, GoesOn
<1>4. CASE SetHostSecret(c)
  <2>1. CASE Ask(c, "set", Host, c) /\ Goto(c, "setting")
    BY <2>1, Asks
  <2>2. CASE Goto(c, "done") /\ UNCHANGED callVars
    BY <1>1, <1>4, <2>2, GoesOn DEF SetHostSecret, Begins
  <2>3. QED
    BY <1>4, <2>1, <2>2 DEF SetHostSecret
<1>5. CASE DeleteSecret(c)
  BY <1>5, Asks DEF DeleteSecret
<1>6. CASE TestConnection(c)
  <2>1. CASE Ask(c, "get", Host, None) /\ Goto(c, "testing")
    BY <2>1, Asks
  <2>2. CASE Goto(c, "done") /\ UNCHANGED callVars
    BY <1>1, <1>6, <2>2, GoesOn DEF TestConnection, Begins
  <2>3. QED
    BY <1>6, <2>1, <2>2 DEF TestConnection
<1>7. QED
  BY <1>2, <1>3, <1>4, <1>5, <1>6 DEF HostStep

LEMMA AuditDialogue ==
  ASSUME TypeOK, Dialogue, NEW c \in Calls, AuditStep(c)
  PROVE  Dialogue'
<1> USE TwoRefs DEF StoreIdle, StoreAsked, storeVars, callVars
<1>1. pc[c] \in {"none", "sealing", "opening"} => spc[c] \notin Busy
  BY DEF Dialogue
<1>2. CASE Record(c) \/ LoadOutput(c) \/ AttachOutput(c) \/ OpenOutput(c)
  <2>1. UNCHANGED <<spc, req>> /\ spc[c] \notin Busy
    BY <1>1, <1>2 DEF Record, LoadOutput, AttachOutput, OpenOutput, Begins, At
  <2>2. Goto(c, "sealing") \/ Goto(c, "opening") \/ Goto(c, "done")
    BY <1>2 DEF Record, LoadOutput, AttachOutput, OpenOutput
  <2>3. QED
    BY <2>1, <2>2, GoesOn
<1>3. CASE KeyFound(c) \/ KeyStored(c)
  <2>1. UNCHANGED <<spc, req>> /\ spc[c] \notin Busy
    BY <1>3 DEF KeyFound, KeyStored, ResumesAt, Answered, Busy
  <2>2. Goto(c, "sealing") \/ Goto(c, "opening")
    BY <1>3 DEF KeyFound, KeyStored, Resume
  <2>3. QED
    BY <2>1, <2>2, GoesOn
<1>4. CASE LoadKey(c)
  BY <1>4, Asks DEF LoadKey
<1>5. CASE NewKey(c)
  <2>1. minted + 1 \in Nat \ {0}
    BY DEF TypeOK, StoreTypeOK
  <2>2. QED
    BY <1>5, <2>1, Asks DEF NewKey
<1>6. QED
  BY <1>2, <1>3, <1>4, <1>5 DEF AuditStep

LEMMA DialogueStep ==
  ASSUME TypeInv, [Next]_vars
  PROVE  Dialogue'
<1> USE DEF TypeInv
<1>1. CASE UNCHANGED <<pc, spc, req>>
  BY <1>1 DEF Dialogue, Asked
<1>2. CASE Exit
  BY <1>2 DEF Exit, StoreDies, Dialogue, Asked, Busy, TypeOK
<1>3. ASSUME NEW c \in Calls, InStore(c)
      PROVE  Dialogue'
  <2>1. UNCHANGED pc /\ StoreStep(c)
    BY <1>3 DEF InStore, appVars
  <2>2. /\ UNCHANGED req /\ spc[c] \in Busy
        /\ spc'[c] \in {"saving", "writing"} => req[c].do # "get"
    BY <2>1, StoreMoves, TypeSplit DEF Dialogue
  <2>3. PICK s \in {"loading", "saving", "writing", "answered"} : spc' = [spc EXCEPT ![c] = s]
    BY <2>1, StoreMoves, TypeSplit
  <2>4. spc'[c] = s /\ \A d \in Calls \ {c} : spc'[d] = spc[d]
    BY <2>3 DEF TypeOK, StoreTypeOK
  <2>5. s # "idle" /\ spc[c] # "idle"
    BY <2>2, <2>3 DEF Busy
  <2>6. ASSUME NEW d \in Calls
        PROVE  /\ spc'[d] # "idle" <=> spc[d] # "idle"
               /\ spc'[d] \in Busy => spc[d] \in Busy
               /\ spc'[d] \in {"saving", "writing"} => req[d].do # "get"
    <3>1. CASE d = c
      BY <2>2, <2>4, <2>5, <3>1
    <3>2. CASE d # c
      <4>1. spc'[d] = spc[d]
        BY <2>4, <3>2
      <4>2. QED
        BY <4>1 DEF Dialogue
    <3>3. QED
      BY <3>1, <3>2
  <2>7. QED
    BY <2>1, <2>2, <2>6 DEF Dialogue, Asked
<1>4. CASE Open \/ Migrate \/ Up \/ Purge \/ UNCHANGED vars
  <2>1. UNCHANGED <<pc, spc, req>>
    BY <1>4 DEF Open, Migrate, Up, New, Purge, StoreIdle, storeVars, callVars, appVars, vars
  <2>2. QED
    BY <1>1, <2>1
<1>5. QED
  BY <1>2, <1>3, <1>4, HostDialogue, AuditDialogue DEF Next
-----------------------------------------------------------------------------
(* The key of the outputs is a key.                                         *)

LEMMA ChangedKeys ==
  ASSUME TypeOK, Dialogue, NEW c \in Calls, spc[c] \in Busy,
         NEW m \in [Refs -> Secrets \cup {None}], m[OutputKey] \in KeyOrNone
  PROVE  Changed(m, req[c])[OutputKey] \in KeyOrNone
<1>1. CASE req[c].ref # OutputKey
  BY <1>1, TwoRefs DEF Changed
<1>2. CASE req[c].ref = OutputKey
  <2>1. req[c].do = "set" => req[c].val \in KeyOrNone
    BY <1>2 DEF Dialogue, Asked, Host, OutputKey, Busy, KeyOrNone
  <2>2. QED
    BY <1>2, <2>1, TwoRefs DEF Changed, KeyOrNone
<1>3. QED
  BY <1>1, <1>2

LEMMA StoreKeys ==
  ASSUME TypeOK, Dialogue, KeysAreKeys, NEW c \in Calls, StoreStep(c), UNCHANGED pc
  PROVE  KeysAreKeys'
<1> USE DEF KeysAreKeys
<1>1. /\ keyring \in [Refs -> Secrets \cup {None}] /\ kept \in [Refs -> Secrets \cup {None}]
      /\ dataFile.map \in [Refs -> Secrets \cup {None}]
      /\ Nothing \in [Refs -> Secrets \cup {None}] /\ Nothing[OutputKey] = None
      /\ None \in KeyOrNone /\ StoreTypeOK
  BY TwoRefs DEF TypeOK, StoreTypeOK, Nothing, KeyOrNone
<1>2. /\ spc[c] \in Busy
      /\ \A d \in Calls \ {c} : res'[d] = res[d] /\ buf'[d] = buf[d]
  BY <1>1, StoreMoves
<1>3. pc[c] = "reading" => req[c].do = "get" /\ req[c].ref = OutputKey
  BY DEF Dialogue, Asked
<1>4. ASSUME NEW m \in [Refs -> Secrets \cup {None}], m[OutputKey] \in KeyOrNone
      PROVE  /\ Changed(m, req[c])[OutputKey] \in KeyOrNone
             /\ pc[c] = "reading" /\ Found(m, req[c].ref).is = "ok"
                  => Found(m, req[c].ref).val \in Nat \ {0}
  <2>1. Changed(m, req[c])[OutputKey] \in KeyOrNone
    BY <1>2, <1>4, ChangedKeys
  <2>2. QED
    BY <1>3, <1>4, <2>1 DEF Found, Missing, Ok, KeyOrNone
<1>5. ASSUME NEW r, Answer(c, r), UNCHANGED <<keyring, kept, dataFile>>,
             pc[c] = "reading" /\ r.is = "ok" => r.val \in Nat \ {0}
      PROVE  KeysAreKeys'
  <2>1. res'[c] = r /\ buf'[c] = Nothing
    BY <1>5 DEF Answer, TypeOK, StoreTypeOK
  <2>2. QED
    BY <1>1, <1>2, <1>5, <2>1
<1>6. CASE Keyring(c)
  <2>1. CASE req[c].do = "get"
    BY <1>1, <1>4, <1>5, <1>6, <2>1 DEF Keyring, fileVars
  <2>2. CASE req[c].do # "get"
    <3>1. keyring'[OutputKey] \in KeyOrNone /\ UNCHANGED <<kept, dataFile>> /\ Answer(c, Ok(None))
      BY <1>1, <1>4, <1>6, <2>2 DEF Keyring, fileVars
    <3>2. buf'[c] = Nothing /\ pc[c] # "reading"
      BY <1>3, <2>2, <3>1 DEF Answer, TypeOK, StoreTypeOK
    <3>3. QED
      BY <1>1, <1>2, <3>1, <3>2
  <2>3. QED
    BY <2>1, <2>2
<1>7. CASE KeyringFails(c) \/ FileFails(c) \/ WriteFails(c)
  <2>1. Answer(c, Failed) /\ UNCHANGED <<keyring, kept, dataFile>>
    BY <1>7 DEF KeyringFails, FileFails, WriteFails, Failure, fileVars
  <2>2. QED
    BY <1>5, <2>1 DEF Failed
<1>8. CASE Lock(c) \/ KeyReadFails(c) \/ MasterKey(c)
  BY <1>8 DEF Lock, KeyReadFails, MasterKey, fileVars, callVars
<1>9. ASSUME NEW m \in [Refs -> Secrets \cup {None}], m[OutputKey] \in KeyOrNone, Loaded(c, m),
             UNCHANGED <<keyring, fileVars>>
      PROVE  KeysAreKeys'
  <2>1. CASE req[c].do = "get"
    BY <1>4, <1>5, <1>9, <2>1 DEF Loaded, fileVars
  <2>2. CASE req[c].do # "get"
    <3>1. buf'[c] = Changed(m, req[c]) /\ UNCHANGED <<res, keyring, kept, dataFile>>
      BY <1>9, <2>2 DEF Loaded, TypeOK, StoreTypeOK, fileVars
    <3>2. QED
      BY <1>2, <1>4, <1>9, <3>1
  <2>3. QED
    BY <2>1, <2>2
<1>10. CASE Load(c)
  <2>1. CASE Loaded(c, Nothing)
    BY <1>1, <1>9, <1>10, <2>1 DEF Load
  <2>2. CASE Loaded(c, dataFile.map)
    BY <1>1, <1>9, <1>10, <2>2 DEF Load
  <2>3. CASE Answer(c, Failed)
    BY <1>5, <1>10, <2>3 DEF Load, fileVars, Failed
  <2>4. QED
    BY <1>10, <2>1, <2>2, <2>3 DEF Load
<1>11. CASE Truncate(c) \/ Part(c)
  BY <1>1, <1>11 DEF Truncate, Part, Vacant, Torn, callVars
<1>12. CASE Write(c)
  <2>1. /\ kept' = Changed(kept, req[c]) /\ dataFile'.map = buf[c] /\ UNCHANGED keyring
        /\ Answer(c, Ok(None))
    BY <1>12 DEF Write
  <2>2. buf'[c] = Nothing /\ res'[c] = Ok(None)
    BY <2>1 DEF Answer, TypeOK, StoreTypeOK
  <2>3. spc[c] = "writing"
    BY <1>12 DEF Write
  <2>4. pc[c] # "reading"
    BY <1>3, <2>3 DEF Dialogue
  <2>5. QED
    BY <1>1, <1>2, <1>4, <2>1, <2>2, <2>4
<1>13. QED
  BY <1>6, <1>7, <1>8, <1>10, <1>11, <1>12 DEF StoreStep

LEMMA KeysStep ==
  ASSUME TypeInv, [Next]_vars
  PROVE  KeysAreKeys'
<1> USE DEF TypeInv, KeysAreKeys, StoreIdle, StoreAsked, fileVars
<1>1. StoreTypeOK /\ None \in KeyOrNone /\ OutputKey \in Refs
  BY TypeSplit, TwoRefs DEF KeyOrNone
<1>2. ASSUME NEW c \in Calls, NEW l \in {"edited", "sealing", "opening", "done"}, Goto(c, l),
             UNCHANGED <<keyring, kept, dataFile, buf, res>>
      PROVE  KeysAreKeys'
  BY <1>2 DEF Goto, TypeOK
<1>3. ASSUME NEW c \in Calls, NEW do, NEW ref, NEW val, NEW l, Ask(c, do, ref, val), Goto(c, l),
             UNCHANGED <<keyring, kept, dataFile>>
      PROVE  KeysAreKeys'
  <2>1. /\ UNCHANGED buf /\ res'[c].is = "none"
        /\ \A d \in Calls \ {c} : res'[d] = res[d] /\ pc'[d] = pc[d]
    BY <1>1, <1>3 DEF Ask, Goto, NoAnswer, TypeOK, StoreTypeOK
  <2>2. QED
    BY <1>3, <2>1
<1>4. ASSUME NEW c \in Calls, HostStep(c)
      PROVE  KeysAreKeys'
  <2> USE DEF storeVars, callVars
  <2>1. CASE CreateHost(c) \/ LoadHost(c) \/ SaveHost(c)
    <3>1. (Goto(c, "edited") \/ Goto(c, "done")) /\ UNCHANGED <<keyring, kept, dataFile, buf, res>>
      BY <2>1 DEF CreateHost, LoadHost, SaveHost
    <3>2. QED
      BY <1>2, <3>1
  <2>2. CASE SecretSet(c) \/ DeleteHost(c) \/ Probe(c)
    BY <1>2, <2>2 DEF SecretSet, DeleteHost, Probe
  <2>3. CASE SetHostSecret(c)
    BY <1>2, <1>3, <2>3 DEF SetHostSecret
  <2>4. CASE DeleteSecret(c)
    BY <1>3, <2>4 DEF DeleteSecret
  <2>5. CASE TestConnection(c)
    BY <1>2, <1>3, <2>5 DEF TestConnection
  <2>6. QED
    BY <1>4, <2>1, <2>2, <2>3, <2>4, <2>5 DEF HostStep
<1>5. ASSUME NEW c \in Calls, AuditStep(c)
      PROVE  KeysAreKeys'
  <2> USE DEF storeVars, callVars
  <2>1. CASE Record(c) \/ LoadOutput(c) \/ AttachOutput(c) \/ OpenOutput(c)
    <3>1. /\ Goto(c, "sealing") \/ Goto(c, "opening") \/ Goto(c, "done")
          /\ UNCHANGED <<keyring, kept, dataFile, buf, res>>
      BY <2>1 DEF Record, LoadOutput, AttachOutput, OpenOutput
    <3>2. QED
      BY <1>2, <3>1
  <2>2. CASE KeyFound(c) \/ KeyStored(c)
    <3>1. /\ Goto(c, "sealing") \/ Goto(c, "opening")
          /\ UNCHANGED <<keyring, kept, dataFile, buf, res>>
      BY <2>2 DEF KeyFound, KeyStored, Resume
    <3>2. QED
      BY <1>2, <3>1
  <2>3. CASE LoadKey(c) \/ NewKey(c)
    BY <1>3, <2>3 DEF LoadKey, NewKey
  <2>4. QED
    BY <1>5, <2>1, <2>2, <2>3 DEF AuditStep
<1>6. CASE Exit
  <2>1. Nothing[OutputKey] = None
    BY <1>1 DEF Nothing
  <2>2. /\ UNCHANGED <<keyring, kept, dataFile>>
        /\ \A c \in Calls : buf'[c] = Nothing /\ res'[c].is = "none"
    BY <1>6 DEF Exit, StoreDies, NoAnswer
  <2>3. QED
    BY <1>1, <2>1, <2>2
<1>7. CASE Open \/ Migrate \/ Up \/ Purge \/ UNCHANGED vars
  BY <1>7 DEF Open, Migrate, Up, New, Purge, storeVars, callVars, appVars, vars
<1>8. ASSUME NEW c \in Calls, InStore(c)
      PROVE  KeysAreKeys'
  BY <1>8, StoreKeys DEF InStore, appVars
<1>9. QED
  BY <1>4, <1>5, <1>6, <1>7, <1>8 DEF Next

LEMMA TypeInit == Init => TypeInv
<1> SUFFICES ASSUME Init PROVE TypeInv
  OBVIOUS
<1>1. Nothing \in [Refs -> Secrets \cup {None}] /\ Nothing[OutputKey] = None
  BY TwoRefs DEF Nothing
<1>2. StoreTypeOK
  BY <1>1 DEF Init, StoreInit, StoreTypeOK, NoRequest, NoAnswer, Vacant
<1>3. AppTypeOK
  BY ScenesAreScenes, DatabasesAreOlder DEF Init, SchemaInit, AppTypeOK
<1>4. Dialogue
  BY DEF Init, StoreInit, Dialogue, Asked, Busy
<1>5. KeysAreKeys
  BY <1>1 DEF Init, StoreInit, KeysAreKeys, KeyOrNone, Vacant, NoAnswer
<1>6. QED
  BY <1>2, <1>3, <1>4, <1>5, TypeSplit DEF TypeInv, Init

LEMMA TypeStep == TypeInv /\ [Next]_vars => TypeInv'
<1> SUFFICES ASSUME TypeInv, [Next]_vars PROVE TypeInv'
  OBVIOUS
<1>1. AppTypeOK' /\ scene' \in Scenes /\ StoreTypeOK'
  BY AppTypeStep, StoreTypeStep DEF TypeInv
<1>2. TypeOK'
  BY <1>1 DEF TypeOK, AppTypeOK
<1>3. QED
  BY <1>1, <1>2, DialogueStep, KeysStep DEF TypeInv

LEMMA TypeInvariant == Spec => []TypeInv
BY TypeInit, TypeStep, PTL DEF Spec

\* Every variable of the stored data keeps its type: in particular the key in
\* memory is a key, for what a reader of it was answered is what was stored.
THEOREM TypeCorrect == Spec => []TypeOK
<1>1. TypeInv => TypeOK
  BY DEF TypeInv
<1>2. QED
  BY <1>1, TypeInvariant, PTL
-----------------------------------------------------------------------------
(* The file store.                                                          *)

LEMMA StoreInvKept ==
  ASSUME StoreInv, UNCHANGED <<backend, fileVars, callVars, mishaps>>
  PROVE  StoreInv'
BY DEF StoreInv, Exclusive, Inside, WritersHaveKey, UnsealedIsEmpty, SealedUnderTheKey, Opens, Faithful,
       fileVars, callVars

\* A step that neither enters nor leaves the store: no file, no mutex.
LEMMA StoreInvOutside ==
  ASSUME TypeOK, StoreInv, NEW c \in Calls, ~Inside(c), ~Inside(c)',
         UNCHANGED <<backend, fileVars>>, mishaps \subseteq mishaps',
         \A d \in Calls \ {c} : spc'[d] = spc[d] /\ req'[d] = req[d] /\ buf'[d] = buf[d],
         holder' = holder \/ \A d \in Calls : ~Inside(d)
  PROVE  StoreInv'
<1> USE DEF StoreInv, fileVars
<1>1. \A d \in Calls : Inside(d)' => d # c /\ Inside(d)
  BY DEF Inside
<1>2. Exclusive'
  BY <1>1 DEF Exclusive
<1>3. WritersHaveKey'
  BY DEF WritersHaveKey, Inside
<1>4. UnsealedIsEmpty' /\ SealedUnderTheKey'
  BY DEF UnsealedIsEmpty, SealedUnderTheKey, Opens
<1>5. Faithful'
  <2> SUFFICES ASSUME "cut" \notin mishaps'
               PROVE  /\ \A d \in Calls : spc'[d] \in {"saving", "writing"}
                                           => buf'[d] = Changed(kept, req'[d])
                      /\ (\A d \in Calls : spc'[d] # "writing")
                           => dataFile.is # "torn" /\ dataFile.map = kept
    BY DEF Faithful, Changed
  <2>1. "cut" \notin mishaps
    OBVIOUS
  <2>2. ASSUME NEW d \in Calls, spc'[d] \in {"saving", "writing"}
        PROVE  buf'[d] = Changed(kept, req'[d])
    <3>1. d # c /\ spc[d] \in {"saving", "writing"}
      BY <2>2 DEF Inside
    <3>2. QED
      BY <2>1, <3>1 DEF Faithful
  <2>3. (\A d \in Calls : spc'[d] # "writing") => \A d \in Calls : spc[d] # "writing"
    BY DEF Inside
  <2>4. QED
    BY <2>1, <2>2, <2>3 DEF Faithful
<1>6. QED
  BY <1>2, <1>3, <1>4, <1>5

LEMMA StoreInvStep ==
  ASSUME TypeInv, StoreInv, NEW c \in Calls, StoreStep(c)
  PROVE  StoreInv'
<1> USE DEF TypeInv, StoreInv, fileVars
<1>1. StoreTypeOK
  BY TypeSplit
<1>2. /\ UNCHANGED <<req, backend>>
      /\ \A d \in Calls \ {c} : spc'[d] = spc[d] /\ buf'[d] = buf[d]
  BY <1>1, StoreMoves
<1>3. Inside(c) => holder = c /\ \A d \in Calls \ {c} : ~Inside(d) /\ ~Inside(d)'
  BY <1>2 DEF Exclusive, Inside
<1>4. Inside(c) => backend = "file"
  BY DEF Exclusive
<1>5. ASSUME NEW r, Answer(c, r)
      PROVE  ~Inside(c)' /\ spc'[c] = "answered" /\ holder' = None
  BY <1>1, <1>5 DEF Answer, Inside, StoreTypeOK
<1>6. CASE Keyring(c) \/ KeyringFails(c)
  <2>1. /\ ~Inside(c) /\ backend = "keyring" /\ UNCHANGED fileVars /\ mishaps \subseteq mishaps'
        /\ \E r : Answer(c, r)
    BY <1>6 DEF Keyring, KeyringFails, Failure, Inside
  <2>2. \A d \in Calls : ~Inside(d)
    BY <2>1 DEF Exclusive
  <2>3. QED
    BY <1>2, <1>5, <2>1, <2>2, StoreInvOutside
<1>7. CASE Lock(c)
  <2>1. /\ holder' = c /\ backend = "file" /\ spc'[c] = "loading" /\ UNCHANGED <<fileVars, mishaps>>
        /\ \A d \in Calls : ~Inside(d)
    BY <1>1, <1>7, CallsDiffer DEF Lock, Free, Exclusive, StoreTypeOK
  <2>2. Exclusive'
    BY <1>2, <2>1 DEF Exclusive, Inside
  <2>3. WritersHaveKey' /\ UnsealedIsEmpty' /\ SealedUnderTheKey'
    BY <1>2, <2>1 DEF WritersHaveKey, UnsealedIsEmpty, SealedUnderTheKey, Opens
  <2>4. Faithful'
    BY <1>2, <2>1 DEF Faithful, Inside, Changed
  <2>5. QED
    BY <2>2, <2>3, <2>4
<1>18. CASE KeyReadFails(c)
  <2>1. /\ Inside(c) /\ spc[c] # "writing" /\ rekeyed'
        /\ UNCHANGED <<backend, dataFile, kept, callVars, mishaps>>
    BY <1>18 DEF KeyReadFails, AsksForTheKey, Inside
  <2>2. \A d \in Calls : spc'[d] # "writing"
    BY <1>3, <2>1 DEF Inside, callVars
  <2>3. QED
    BY <2>1, <2>2 DEF Exclusive, Inside, WritersHaveKey, UnsealedIsEmpty, SealedUnderTheKey, Opens, Faithful,
                      callVars
<1>8. CASE MasterKey(c)
  <2>1. /\ keyFile = 0 /\ keyFile' # 0
        /\ UNCHANGED <<backend, dataFile, kept, rekeyed, callVars, mishaps>>
    BY <1>1, <1>8 DEF MasterKey, NoWholeKey, StoreTypeOK
  <2>2. QED
    BY <2>1 DEF Exclusive, Inside, WritersHaveKey, UnsealedIsEmpty, SealedUnderTheKey, Opens, Faithful,
                callVars
<1>9. ASSUME NEW r, Answer(c, r), Inside(c), spc[c] # "writing", UNCHANGED fileVars,
             mishaps \subseteq mishaps'
      PROVE  StoreInv'
  <2>1. /\ ~Inside(c)' /\ \A d \in Calls : ~Inside(d)'
        /\ \A d \in Calls : spc[d] # "writing"
    BY <1>3, <1>5, <1>9 DEF Inside
  <2>2. Exclusive' /\ WritersHaveKey' /\ UnsealedIsEmpty' /\ SealedUnderTheKey'
    BY <1>9, <2>1 DEF Exclusive, WritersHaveKey, UnsealedIsEmpty, SealedUnderTheKey, Opens, Inside
  <2>3. Faithful'
    BY <1>9, <2>1 DEF Faithful, Inside
  <2>4. QED
    BY <2>2, <2>3
<1>10. ASSUME NEW m, Loaded(c, m), spc[c] = "loading", m = dataFile.map, dataFile.is # "torn",
              UNCHANGED <<fileVars, mishaps>>
       PROVE  StoreInv'
  <2>1. CASE req[c].do = "get"
    BY <1>9, <1>10, <2>1 DEF Loaded, Inside
  <2>2. CASE req[c].do # "get"
    <3>1. /\ spc'[c] = "saving" /\ buf'[c] = Changed(m, req[c]) /\ UNCHANGED holder
      BY <1>1, <1>10, <2>2 DEF Loaded, StoreTypeOK
    <3>2. Exclusive' /\ WritersHaveKey' /\ UnsealedIsEmpty' /\ SealedUnderTheKey'
      BY <1>2, <1>3, <1>4, <1>10, <3>1
         DEF Exclusive, WritersHaveKey, UnsealedIsEmpty, SealedUnderTheKey, Opens, Inside
    <3>3. \A d \in Calls : spc[d] # "writing"
      BY <1>3, <1>10 DEF Inside
    <3>4. Faithful'
      BY <1>2, <1>3, <1>10, <3>1, <3>3 DEF Faithful, Inside
    <3>5. QED
      BY <3>2, <3>4
  <2>3. QED
    BY <2>1, <2>2
<1>11. CASE Load(c)
  <2>1. CASE dataFile.is = "empty" /\ Loaded(c, Nothing) /\ UNCHANGED mishaps
    BY <1>10, <1>11, <2>1 DEF Load, UnsealedIsEmpty
  <2>2. CASE dataFile.is = "sealed" /\ Loaded(c, dataFile.map) /\ UNCHANGED mishaps
    BY <1>10, <1>11, <2>2 DEF Load
  <2>3. CASE Answer(c, Failed)
    BY <1>9, <1>11, <2>3 DEF Load, Inside
  <2>4. QED
    BY <1>11, <2>1, <2>2, <2>3 DEF Load
<1>12. CASE FileFails(c)
  BY <1>9, <1>12 DEF FileFails, Failure, Inside
<1>13. CASE Truncate(c)
  <2>1. /\ spc[c] = "saving" /\ keyFile # 0 /\ dataFile' = Vacant /\ spc'[c] = "writing"
        /\ UNCHANGED <<backend, keyFile, kept, rekeyed, holder, buf, mishaps>>
    BY <1>1, <1>13 DEF Truncate, StoreTypeOK
  <2>2. Exclusive' /\ WritersHaveKey' /\ UnsealedIsEmpty' /\ SealedUnderTheKey'
    BY <1>2, <1>3, <1>4, <2>1
       DEF Exclusive, WritersHaveKey, UnsealedIsEmpty, SealedUnderTheKey, Opens, Inside, Vacant
  <2>3. Faithful'
    BY <1>2, <1>3, <2>1 DEF Faithful, Inside
  <2>4. QED
    BY <2>2, <2>3
<1>14. CASE Part(c)
  <2>1. /\ spc[c] = "writing" /\ dataFile' = Torn
        /\ UNCHANGED <<backend, keyFile, kept, rekeyed, holder, spc, buf, mishaps>>
    BY <1>14 DEF Part, callVars
  <2>2. Exclusive' /\ WritersHaveKey' /\ UnsealedIsEmpty' /\ SealedUnderTheKey'
    BY <2>1 DEF Exclusive, WritersHaveKey, UnsealedIsEmpty, SealedUnderTheKey, Opens, Inside, Torn
  <2>3. Faithful'
    BY <1>2, <2>1 DEF Faithful
  <2>4. QED
    BY <2>2, <2>3
<1>15. CASE Write(c)
  <2>1. /\ spc[c] = "writing" /\ dataFile' = [is |-> "sealed", under |-> keyFile, map |-> buf[c]]
        /\ kept' = Changed(kept, req[c]) /\ Answer(c, Ok(None)) /\ UNCHANGED <<keyFile, mishaps>>
    BY <1>15 DEF Write
  <2>2. \A d \in Calls : ~Inside(d)'
    BY <1>3, <1>5, <2>1 DEF Inside
  <2>3. keyFile # 0
    BY <2>1 DEF WritersHaveKey
  <2>4. Exclusive' /\ WritersHaveKey' /\ UnsealedIsEmpty' /\ SealedUnderTheKey'
    BY <2>1, <2>2, <2>3
       DEF Exclusive, WritersHaveKey, UnsealedIsEmpty, SealedUnderTheKey, Opens, Inside
  <2>5. Faithful'
    BY <2>1, <2>2 DEF Faithful, Inside
  <2>6. QED
    BY <2>4, <2>5
<1>16. CASE WriteFails(c)
  <2>1. /\ spc[c] = "writing" /\ Answer(c, Failed) /\ UNCHANGED fileVars /\ "cut" \in mishaps'
    BY <1>16 DEF WriteFails, Failure
  <2>2. \A d \in Calls : ~Inside(d)'
    BY <1>3, <1>5, <2>1 DEF Inside
  <2>3. QED
    BY <2>1, <2>2
       DEF Exclusive, WritersHaveKey, UnsealedIsEmpty, SealedUnderTheKey, Opens, Faithful, Inside
<1>17. QED
  BY <1>6, <1>7, <1>18, <1>8, <1>11, <1>12, <1>13, <1>14, <1>15, <1>16 DEF StoreStep

LEMMA RestingStep ==
  ASSUME Resting, [Next]_vars
  PROVE  Resting'
<1> USE DEF Resting, StoreIdle, StoreAsked, schemaVars
<1>1. ASSUME NEW c \in Calls, HostStep(c)
      PROVE  Resting'
  BY <1>1 DEF HostStep, CreateHost, LoadHost, SaveHost, SetHostSecret, SecretSet, DeleteSecret,
              DeleteHost, TestConnection, Probe, Begins, At, ResumesAt
<1>2. ASSUME NEW c \in Calls, AuditStep(c)
      PROVE  Resting'
  BY <1>2 DEF AuditStep, Record, LoadOutput, LoadKey, KeyFound, NewKey, KeyStored, AttachOutput,
              OpenOutput, Begins, At, ResumesAt
<1>3. ASSUME NEW c \in Calls, InStore(c)
      PROVE  Resting'
  BY <1>3 DEF InStore
<1>4. CASE Open \/ Migrate
  BY <1>4 DEF Open, Migrate, OpenDatabase, ExecuteStatement, storeVars, callVars
<1>5. CASE Up \/ Exit \/ Purge \/ UNCHANGED vars
  BY <1>5 DEF Up, Exit, StoreDies, Purge, storeVars, callVars, vars
<1>6. QED
  BY <1>1, <1>2, <1>3, <1>4, <1>5 DEF Next

LEMMA StoreInvInit == Init => StoreInv
BY DEF Init, StoreInit, StoreInv, Exclusive, Inside, WritersHaveKey, UnsealedIsEmpty,
       SealedUnderTheKey, Opens, Faithful, Vacant

LEMMA StoreInvNext ==
  ASSUME TypeInv, Resting, StoreInv, [Next]_vars
  PROVE  StoreInv'
<1> USE DEF TypeInv, StoreIdle, StoreAsked, fileVars
<1>1. StoreTypeOK
  BY TypeSplit
<1>2. ASSUME UNCHANGED <<backend, fileVars, callVars, mishaps>>
      PROVE  StoreInv'
  BY <1>2, StoreInvKept
<1>3. ASSUME NEW c \in Calls, NEW do, NEW ref, NEW val, Ask(c, do, ref, val), ~Inside(c),
             UNCHANGED <<backend, fileVars>>, mishaps \subseteq mishaps'
      PROVE  StoreInv'
  <2>1. ~Inside(c)'
    BY <1>1, <1>3 DEF Ask, Inside, StoreTypeOK
  <2>2. /\ holder' = holder
        /\ \A d \in Calls \ {c} : spc'[d] = spc[d] /\ req'[d] = req[d] /\ buf'[d] = buf[d]
    BY <1>1, <1>3 DEF Ask, StoreTypeOK
  <2>3. QED
    BY <1>3, <2>1, <2>2, StoreInvOutside
<1>4. ASSUME NEW c \in Calls, HostStep(c)
      PROVE  StoreInv'
  <2> USE DEF storeVars
  <2>1. CASE SetHostSecret(c) \/ DeleteSecret(c) \/ TestConnection(c)
    <3>1. ~Inside(c) /\ UNCHANGED <<backend, fileVars>> /\ mishaps \subseteq mishaps'
      BY <2>1 DEF SetHostSecret, DeleteSecret, TestConnection, Begins, Crossed, Inside, Dialogue, Busy
    <3>2. (\E do, ref, val : Ask(c, do, ref, val)) \/ UNCHANGED <<callVars, mishaps>>
      BY <2>1 DEF SetHostSecret, DeleteSecret, TestConnection
    <3>3. QED
      BY <1>2, <1>3, <3>1, <3>2
  <2>2. QED
    BY <1>2, <1>4, <2>1
       DEF HostStep, CreateHost, LoadHost, SaveHost, SecretSet, DeleteHost, Probe
<1>5. ASSUME NEW c \in Calls, AuditStep(c)
      PROVE  StoreInv'
  <2> USE DEF storeVars
  <2>1. CASE LoadKey(c) \/ NewKey(c)
    <3>1. ~Inside(c) /\ UNCHANGED <<backend, fileVars>> /\ mishaps \subseteq mishaps'
      BY <2>1 DEF LoadKey, NewKey, ResumesAt, Answered, Inside, Dialogue, Busy
    <3>2. \E do, ref, val : Ask(c, do, ref, val)
      BY <2>1 DEF LoadKey, NewKey
    <3>3. QED
      BY <1>3, <3>1, <3>2
  <2>2. QED
    BY <1>2, <1>5, <2>1
       DEF AuditStep, Record, LoadOutput, KeyFound, KeyStored, AttachOutput, OpenOutput
<1>6. CASE Exit
  <2>1. /\ UNCHANGED <<backend, fileVars>> /\ \A c \in Calls : spc'[c] = "idle"
        /\ mishaps' = IF \E c \in Calls : spc[c] = "writing" THEN mishaps \cup {"cut"} ELSE mishaps
    BY <1>6 DEF Exit, StoreDies
  <2>2. Exclusive' /\ WritersHaveKey' /\ UnsealedIsEmpty' /\ SealedUnderTheKey'
    BY <2>1 DEF StoreInv, Exclusive, Inside, WritersHaveKey, UnsealedIsEmpty, SealedUnderTheKey, Opens
  <2>3. Faithful'
    BY <2>1 DEF StoreInv, Faithful
  <2>4. QED
    BY <2>2, <2>3 DEF StoreInv
<1>7. CASE Up
  <2>1. UNCHANGED <<fileVars, callVars>> /\ mishaps \subseteq mishaps' /\ WriteVersion
    BY <1>7 DEF Up, New
  <2>2. \A c \in Calls : ~Inside(c)
    BY <2>1 DEF Resting, WriteVersion, Inside
  <2>3. Exclusive' /\ WritersHaveKey' /\ UnsealedIsEmpty' /\ SealedUnderTheKey' /\ Faithful'
    BY <2>1, <2>2 DEF StoreInv, Exclusive, Inside, WritersHaveKey, UnsealedIsEmpty,
                      SealedUnderTheKey, Opens, Faithful, callVars
  <2>4. QED
    BY <2>3 DEF StoreInv
<1>8. CASE Open \/ Migrate \/ Purge \/ UNCHANGED vars
  BY <1>2, <1>8 DEF Open, Migrate, Purge, storeVars, vars
<1>9. ASSUME NEW c \in Calls, InStore(c)
      PROVE  StoreInv'
  BY <1>9, StoreInvStep DEF InStore
<1>10. QED
  BY <1>4, <1>5, <1>6, <1>7, <1>8, <1>9 DEF Next

LEMMA StoreInvariant == Spec => [](TypeInv /\ Resting /\ StoreInv)
<1>1. Init => TypeInv /\ Resting /\ StoreInv
  BY TypeInit, StoreInvInit DEF Init, StoreInit, Resting
<1>2. TypeInv /\ Resting /\ StoreInv /\ [Next]_vars => (TypeInv /\ Resting /\ StoreInv)'
  BY TypeStep, RestingStep, StoreInvNext
<1>3. QED
  BY <1>1, <1>2, PTL DEF Spec

\* Wherever the application was stopped, the file of secrets is deciphered by
\* the key that lies beside it, unless an error of reading that key made the
\* store replace it since the file was written.
THEOREM Deciphered == Spec => []SealedUnderTheKey
<1>1. StoreInv => SealedUnderTheKey
  BY DEF StoreInv
<1>2. QED
  BY <1>1, StoreInvariant, PTL

\* The mutex makes a call's load, change and write one step: what calls were
\* told is stored is in the file, whatever other calls ran meanwhile, and can be
\* read there as long as the key was not replaced.
THEOREM Acknowledged == Spec => []AcknowledgedStays
<1>1. StoreInv => AcknowledgedStays
  BY DEF StoreInv, Faithful, SealedUnderTheKey, AcknowledgedStays, Inside
<1>2. QED
  BY <1>1, StoreInvariant, PTL
-----------------------------------------------------------------------------
(* The schema.                                                              *)

\* A statement that has nothing to wait for, or whose table comes before it.
Ordered ==
  \A i \in 1..14 :
    /\ Statements[i].v \in 1..schemaVersion
    /\ Statements[i].needs = "nothing" \/ \E j \in 1..(i - 1) : Statements[j].makes = Statements[i].needs

\* Executed statements come before the others, and their objects are there.
SchemaInv ==
  /\ version \in 0..schemaVersion
  /\ proc \in {"down", "migrating", "up"}
  /\ Built(version, schema)
  /\ proc = "up" => version = schemaVersion
  /\ proc = "migrating" =>
       /\ todo \subseteq 1..14
       /\ \A i \in (1..14) \ todo : Statements[i].makes \in schema
-----------------------------------------------------------------------------
LEMMA FourteenStatements == DOMAIN Statements = 1..14 /\ Ordered
<1> USE DEF Statements, migrateV1, migrateV2, migrateV3, migrateV4, migrateV5, migrateV6, Table,
            Index, Column, schemaVersion
<1>1. DOMAIN Statements = 1..14
  OBVIOUS
<1>2. \A i \in 1..14 : Statements[i].v \in 1..schemaVersion
  OBVIOUS
<1>3. /\ Statements[3].needs = Statements[2].makes
      /\ Statements[7].needs = Statements[6].makes
      /\ Statements[11].needs = Statements[10].makes
      /\ Statements[13].needs = Statements[12].makes
      /\ Statements[14].needs = Statements[12].makes
  OBVIOUS
<1>4. \A i \in (1..14) \ {3, 7, 11, 13, 14} : Statements[i].needs = "nothing"
  OBVIOUS
<1>5. Ordered
  BY <1>2, <1>3, <1>4 DEF Ordered
<1>6. QED
  BY <1>1, <1>5

\* The first statement that is left is never refused.
LEMMA NeverRefused ==
  ASSUME SchemaInv, proc = "migrating", NEW i \in todo, \A j \in todo : i <= j
  PROVE  Exists(Statements[i]) \/ Possible(Statements[i])
<1>1. i \in 1..14 /\ \A j \in 1..(i - 1) : Statements[j].makes \in schema
  BY DEF SchemaInv
<1>2. Statements[i].needs = "nothing" \/ Statements[i].needs \in schema
  BY <1>1, FourteenStatements DEF Ordered
<1>3. QED
  BY <1>2 DEF Exists, Possible

LEMMA SchemaStep == SchemaInv /\ [Next]_vars => SchemaInv'
<1> SUFFICES ASSUME SchemaInv, [Next]_vars PROVE SchemaInv'
  OBVIOUS
<1> USE FourteenStatements DEF schemaVars, diskVars
<1>1. CASE Open
  <2>1. /\ proc' = "migrating" /\ UNCHANGED <<version, schema>>
        /\ todo' = {i \in 1..14 : Statements[i].v > version}
    BY <1>1 DEF Open, OpenDatabase
  <2>2. \A i \in (1..14) \ todo' : Statements[i].makes \in schema
    BY <2>1 DEF SchemaInv, Built, Ordered, schemaVersion
  <2>3. QED
    BY <2>1, <2>2 DEF SchemaInv, Built
<1>2. CASE Migrate
  <2>1. PICK i \in todo : /\ \A j \in todo : i <= j
                          /\ IF Exists(Statements[i]) \/ Possible(Statements[i])
                               THEN /\ schema' = schema \cup {Statements[i].makes}
                                    /\ todo' = todo \ {i} /\ UNCHANGED proc
                               ELSE proc' = "refused" /\ UNCHANGED <<schema, todo>>
    BY <1>2 DEF Migrate, ExecuteStatement
  <2>2. proc = "migrating" /\ UNCHANGED version
    BY <1>2 DEF Migrate, ExecuteStatement
  <2>3. schema' = schema \cup {Statements[i].makes} /\ todo' = todo \ {i} /\ UNCHANGED proc
    BY <2>1, <2>2, NeverRefused
  <2>4. QED
    BY <2>2, <2>3 DEF SchemaInv, Built
<1>3. CASE Up
  <2>1. /\ proc = "migrating" /\ todo = {} /\ proc' = "up" /\ version' = schemaVersion
        /\ UNCHANGED schema
    BY <1>3 DEF Up, WriteVersion
  <2>2. QED
    BY <2>1 DEF SchemaInv, Built, schemaVersion
<1>4. CASE Exit
  BY <1>4 DEF Exit, SchemaInv, Built
<1>5. CASE UNCHANGED schemaVars
  BY <1>5 DEF SchemaInv, Built
<1>6. ASSUME NEW c \in Calls, HostStep(c)
      PROVE  UNCHANGED schemaVars
  BY <1>6 DEF HostStep, CreateHost, LoadHost, SaveHost, SetHostSecret, SecretSet, DeleteSecret,
              DeleteHost, TestConnection, Probe, StoreIdle, StoreAsked
<1>7. ASSUME NEW c \in Calls, AuditStep(c)
      PROVE  UNCHANGED schemaVars
  BY <1>7 DEF AuditStep, Record, LoadOutput, LoadKey, KeyFound, NewKey, KeyStored, AttachOutput,
              OpenOutput, StoreIdle, StoreAsked
<1>8. CASE Purge \/ UNCHANGED vars \/ \E c \in Calls : InStore(c)
  BY <1>5, <1>8 DEF Purge, StoreIdle, InStore, vars
<1>9. QED
  BY <1>1, <1>2, <1>3, <1>4, <1>5, <1>6, <1>7, <1>8 DEF Next

LEMMA SchemaStart == Init => SchemaInv
<1> SUFFICES ASSUME Init PROVE SchemaInv
  OBVIOUS
<1>1. PICK d \in Databases : version = d.says /\ schema = ObjectsOf(d.has)
  BY DEF Init, SchemaInit
<1>2. d.says \in 0..schemaVersion /\ d.has \in 0..schemaVersion /\ d.says <= d.has
  BY DatabasesAreOlder
<1>3. Built(version, schema)
  BY <1>1, <1>2, FourteenStatements DEF Built, ObjectsOf, Ordered, schemaVersion
<1>4. QED
  BY <1>1, <1>2, <1>3 DEF Init, SchemaInit, SchemaInv

\* user_version is never ahead of the tables, the application runs on all of
\* them, and no database an earlier version or a cut-off migration left is
\* refused (migrate).
THEOREM Migrated == Spec => []SchemaIsWhole
<1>1. SchemaInv => SchemaIsWhole
  BY DEF SchemaInv, SchemaIsWhole
<1>2. QED
  BY <1>1, SchemaStart, SchemaStep, PTL DEF Spec
-----------------------------------------------------------------------------
(* The outputs' key, and the secrets of hosts.                              *)

Clean == mishaps \cap {"get", "cut", "switch"} = {}
KeyHeld == IF backend = "file" THEN kept[OutputKey] ELSE keyring[OutputKey]
Looks(c) == pc[c] \in {"reading", "storing"}

\* One call at a time looks for the key, and only while no key is in memory.
OneLooks ==
  /\ (\E c \in Calls : Looks(c)) => once = "doing"
  /\ once # "done" => aead = 0
  /\ \A c, d \in Calls : Looks(c) /\ Looks(d) => c = d

\* What is sealed, in memory or in a call's hand is the key that is stored.
KeyAgrees ==
  /\ \A r \in Calls : blob[r] # 0 => blob[r] = KeyHeld
  /\ aead # 0 => aead = KeyHeld
  /\ \A c \in Calls : spc[c] = "answered" /\ pc[c] = "reading" =>
       IF res[c].is = "ok" THEN res[c].val = KeyHeld ELSE KeyHeld = None
  /\ \A c \in Calls : pc[c] = "storing" =>
       IF spc[c] # "answered" THEN KeyHeld = None
                              ELSE res[c].is = "ok" => KeyHeld = req[c].val

NothingYet == backend = None => keyring[OutputKey] = None /\ kept[OutputKey] = None

OutInv == OneLooks /\ (Clean => KeyAgrees /\ NothingYet)

AppInv == TypeInv /\ Resting /\ StoreInv
-----------------------------------------------------------------------------
(* The key of the outputs.                                                  *)

LEMMA ChangedHeld ==
  ASSUME TypeInv, NEW c \in Calls, spc[c] \in Busy, req[c].do # "get",
         NEW m \in [Refs -> Secrets \cup {None}]
  PROVE  IF pc[c] = "storing" THEN Changed(m, req[c])[OutputKey] = req[c].val
                              ELSE Changed(m, req[c])[OutputKey] = m[OutputKey]
<1>1. pc[c] = "storing" => req[c].ref = OutputKey /\ req[c].do = "set"
  BY DEF TypeInv, Dialogue, Asked
<1>2. pc[c] # "storing" => req[c].ref = Host
  BY DEF TypeInv, Dialogue, Asked, Busy
<1>3. Host # OutputKey
  BY DEF Host, OutputKey
<1>4. QED
  BY <1>1, <1>2, <1>3, TwoRefs DEF Changed

\* Only a call that stores it changes the key that is held.
LEMMA HeldMoves ==
  ASSUME AppInv, NEW c \in Calls, StoreStep(c), Clean', UNCHANGED pc
  PROVE  IF pc[c] = "storing" /\ spc'[c] = "answered" /\ res'[c].is = "ok"
           THEN KeyHeld' = req[c].val
           ELSE KeyHeld' = KeyHeld
<1> USE DEF AppInv, TypeInv, KeyHeld
<1>1. /\ StoreTypeOK /\ spc[c] \in Busy /\ UNCHANGED backend
      /\ keyring \in [Refs -> Secrets \cup {None}] /\ kept \in [Refs -> Secrets \cup {None}]
  BY StoreMoves, TypeSplit DEF StoreTypeOK
<1>2. ASSUME NEW r, Answer(c, r)
      PROVE  spc'[c] = "answered" /\ res'[c] = r
  BY <1>1, <1>2 DEF Answer, StoreTypeOK
<1>3. pc[c] = "storing" => req[c].do = "set"
  BY DEF Dialogue, Asked
<1>4. CASE Keyring(c)
  <2>1. CASE req[c].do = "get"
    BY <1>1, <1>3, <1>4, <2>1 DEF Keyring, fileVars
  <2>2. CASE req[c].do # "get"
    <3>1. /\ backend = "keyring" /\ keyring' = Changed(keyring, req[c]) /\ res'[c].is = "ok"
          /\ spc'[c] = "answered" /\ kept' = kept
      BY <1>2, <1>4, <2>2 DEF Keyring, Ok, fileVars
    <3>2. IF pc[c] = "storing" THEN keyring'[OutputKey] = req[c].val
                               ELSE keyring'[OutputKey] = keyring[OutputKey]
      BY <1>1, <2>2, <3>1, ChangedHeld
    <3>3. QED
      BY <1>1, <3>1, <3>2
  <2>3. QED
    BY <2>1, <2>2
<1>5. CASE KeyringFails(c) \/ FileFails(c) \/ WriteFails(c)
  <2>1. Answer(c, Failed) /\ UNCHANGED <<keyring, kept>>
    BY <1>5 DEF KeyringFails, FileFails, WriteFails, Failure, fileVars
  <2>2. res'[c].is # "ok"
    BY <1>2, <2>1 DEF Failed
  <2>3. QED
    BY <1>1, <2>1, <2>2
<1>6. CASE Lock(c) \/ KeyReadFails(c) \/ MasterKey(c) \/ Truncate(c) \/ Part(c)
  <2>1. spc'[c] # "answered" /\ UNCHANGED <<keyring, kept>>
    BY <1>1, <1>6 DEF Lock, KeyReadFails, MasterKey, AsksForTheKey, Truncate, Part, fileVars, callVars,
                      StoreTypeOK
  <2>2. QED
    BY <1>1, <2>1
<1>7. CASE Load(c)
  <2>1. UNCHANGED <<keyring, kept>>
    BY <1>7 DEF Load, fileVars
  <2>2. ~(pc[c] = "storing" /\ spc'[c] = "answered" /\ res'[c].is = "ok")
    <3>1. CASE Answer(c, Failed)
      BY <1>2, <3>1 DEF Failed
    <3>2. CASE \E m : Loaded(c, m) /\ req[c].do # "get"
      BY <1>1, <3>2 DEF Loaded, StoreTypeOK
    <3>3. QED
      BY <1>3, <1>7, <3>1, <3>2 DEF Load
  <2>3. QED
    BY <1>1, <2>1, <2>2
<1>8. CASE Write(c)
  <2>1. /\ kept' = Changed(kept, req[c]) /\ spc'[c] = "answered" /\ res'[c].is = "ok"
        /\ keyring' = keyring
    BY <1>2, <1>8 DEF Write, Ok
  <2>2. backend = "file" /\ req[c].do # "get"
    BY <1>8 DEF Write, StoreInv, Exclusive, Inside, Dialogue
  <2>3. IF pc[c] = "storing" THEN kept'[OutputKey] = req[c].val
                             ELSE kept'[OutputKey] = kept[OutputKey]
    BY <1>1, <2>1, <2>2, ChangedHeld
  <2>4. QED
    BY <1>1, <2>1, <2>2, <2>3
<1>9. QED
  BY <1>4, <1>5, <1>6, <1>7, <1>8 DEF StoreStep

\* As long as nothing went wrong, a call that looks for the key is told what
\* is held.
LEMMA HeldIsFound ==
  ASSUME AppInv, NEW c \in Calls, StoreStep(c), Clean', UNCHANGED pc,
         pc[c] = "reading", spc'[c] = "answered"
  PROVE  IF res'[c].is = "ok" THEN res'[c].val = KeyHeld ELSE KeyHeld = None
<1> USE DEF AppInv, TypeInv
<1>1. StoreTypeOK /\ req[c].do = "get" /\ req[c].ref = OutputKey
  BY TypeSplit DEF Dialogue, Asked
<1>2. ASSUME NEW m, Answer(c, Found(m, OutputKey)), m[OutputKey] = KeyHeld
      PROVE  IF res'[c].is = "ok" THEN res'[c].val = KeyHeld ELSE KeyHeld = None
  BY <1>1, <1>2 DEF Answer, Found, Missing, Ok, StoreTypeOK
<1>3. CASE Keyring(c)
  BY <1>1, <1>2, <1>3 DEF Keyring, KeyHeld
<1>4. CASE KeyringFails(c) \/ FileFails(c)
  BY <1>1, <1>4 DEF KeyringFails, FileFails, Clean
<1>5. CASE Lock(c) \/ KeyReadFails(c) \/ MasterKey(c) \/ Truncate(c) \/ Part(c)
  BY <1>1, <1>5 DEF Lock, KeyReadFails, MasterKey, AsksForTheKey, Truncate, Part, callVars, StoreTypeOK
<1>6. CASE Load(c)
  <2>1. spc[c] = "loading" /\ backend = "file" /\ "cut" \notin mishaps
    BY <1>6 DEF Load, StoreInv, Exclusive, Inside, Clean
  <2>2. \A d \in Calls : spc[d] # "writing"
    BY <2>1 DEF StoreInv, Exclusive, Inside
  <2>3. dataFile.is # "torn" /\ dataFile.map = kept
    BY <2>1, <2>2 DEF StoreInv, Faithful
  <2>4. kept[OutputKey] = KeyHeld
    BY <2>1 DEF KeyHeld
  <2>5. CASE dataFile.is = "empty"
    <3>1. Nothing = kept /\ Loaded(c, Nothing)
      BY <1>6, <2>3, <2>5 DEF Load, StoreInv, UnsealedIsEmpty
    <3>2. QED
      BY <1>1, <1>2, <2>4, <3>1 DEF Loaded
  <2>6. CASE dataFile.is = "sealed"
    <3>1. Loaded(c, dataFile.map)
      BY <1>1, <1>6, <2>6 DEF Load, Clean
    <3>2. QED
      BY <1>1, <1>2, <2>3, <2>4, <3>1 DEF Loaded
  <2>7. QED
    BY <1>1, <2>3, <2>5, <2>6 DEF StoreTypeOK
<1>7. CASE Write(c) \/ WriteFails(c)
  BY <1>1, <1>7 DEF Write, WriteFails, Dialogue
<1>8. QED
  BY <1>3, <1>4, <1>5, <1>6, <1>7 DEF StoreStep

LEMMA OneLooksStep ==
  ASSUME TypeInv, OneLooks, [Next]_vars
  PROVE  OneLooks'
<1> USE DEF TypeInv, OneLooks, StoreIdle, StoreAsked, OnlyPc, boxVars
<1>1. TypeOK
  OBVIOUS
<1>2. ASSUME NEW c \in Calls, NEW l, l \notin {"reading", "storing"}, Goto(c, l),
             UNCHANGED boxVars
      PROVE  OneLooks'
  <2>1. \A d \in Calls : Looks(d)' => Looks(d)
    BY <1>2 DEF Goto, Looks, TypeOK
  <2>2. QED
    BY <1>2, <2>1
<1>3. ASSUME NEW c \in Calls, HostStep(c)
      PROVE  OneLooks'
  <2>1. UNCHANGED boxVars
    BY <1>3 DEF HostStep, CreateHost, LoadHost, SaveHost, SetHostSecret, SecretSet, DeleteSecret,
                DeleteHost, TestConnection, Probe
  <2>2. \/ Goto(c, "done") \/ Goto(c, "edited") \/ Goto(c, "setting") \/ Goto(c, "deleting")
        \/ Goto(c, "testing")
    BY <1>3 DEF HostStep, CreateHost, LoadHost, SaveHost, SetHostSecret, SecretSet, DeleteSecret,
                DeleteHost, TestConnection, Probe
  <2>3. QED
    BY <1>2, <2>1, <2>2
<1>4. CASE \E c \in Calls : Record(c) \/ LoadOutput(c) \/ AttachOutput(c) \/ OpenOutput(c)
  BY <1>2, <1>4 DEF Record, LoadOutput, AttachOutput, OpenOutput
<1>5. ASSUME NEW c \in Calls, LoadKey(c)
      PROVE  OneLooks'
  <2>1. once' = "doing" /\ aead' = 0 /\ \A d \in Calls : ~Looks(d)
    BY <1>5 DEF LoadKey, FirstOne
  <2>2. \A d \in Calls \ {c} : ~Looks(d)'
    BY <1>5, <2>1 DEF LoadKey, Goto, Looks, TypeOK
  <2>3. QED
    BY <2>1, <2>2
<1>6. ASSUME NEW c \in Calls, NewKey(c)
      PROVE  OneLooks'
  <2>1. \A d \in Calls : Looks(d)' <=> Looks(d)
    BY <1>6 DEF NewKey, ResumesAt, At, Goto, Looks, TypeOK
  <2>2. UNCHANGED boxVars
    BY <1>6 DEF NewKey
  <2>3. QED
    BY <2>1, <2>2
<1>7. ASSUME NEW c \in Calls, KeyFound(c) \/ KeyStored(c)
      PROVE  OneLooks'
  <2>1. Looks(c) /\ once' = "done" /\ (Goto(c, "sealing") \/ Goto(c, "opening"))
    BY <1>7 DEF KeyFound, KeyStored, ResumesAt, At, Looks, Resume
  <2>2. \A d \in Calls : ~Looks(d)'
    BY <2>1 DEF Goto, Looks, TypeOK
  <2>3. QED
    BY <2>1, <2>2
<1>8. CASE Exit
  <2>1. once' = "no" /\ aead' = 0 /\ \A d \in Calls : ~Looks(d)'
    BY <1>8 DEF Exit, Looks
  <2>2. QED
    BY <2>1
<1>9. CASE Open \/ Migrate \/ Up \/ Purge \/ UNCHANGED vars \/ \E c \in Calls : InStore(c)
  <2>1. UNCHANGED <<boxVars, pc>>
    BY <1>9 DEF Open, Migrate, Up, Purge, InStore, appVars, vars
  <2>2. QED
    BY <2>1 DEF Looks
<1>10. QED
  BY <1>3, <1>4, <1>5, <1>6, <1>7, <1>8, <1>9 DEF Next, AuditStep

LEMMA CleanStays == ASSUME [Next]_vars, Clean' PROVE Clean /\ mishaps \subseteq mishaps'
<1> USE DEF Clean, StoreIdle, StoreAsked, storeVars
<1>1. mishaps \subseteq mishaps'
  <2>1. ASSUME NEW c \in Calls, HostStep(c)
        PROVE  mishaps \subseteq mishaps'
    BY <2>1 DEF HostStep, CreateHost, LoadHost, SaveHost, SetHostSecret, SecretSet, DeleteSecret,
                DeleteHost, TestConnection, Probe, Crossed
  <2>2. ASSUME NEW c \in Calls, AuditStep(c)
        PROVE  mishaps \subseteq mishaps'
    BY <2>2 DEF AuditStep, Record, LoadOutput, LoadKey, KeyFound, NewKey, KeyStored, AttachOutput,
                OpenOutput
  <2>3. ASSUME NEW c \in Calls, StoreStep(c)
        PROVE  mishaps \subseteq mishaps'
    BY <2>3 DEF StoreStep, Keyring, KeyringFails, Lock, KeyReadFails, MasterKey, Load, FileFails,
                Truncate, Part,
                Write, WriteFails
  <2>4. CASE Open \/ Migrate \/ Up \/ Exit \/ Purge \/ UNCHANGED vars
    BY <2>4 DEF Open, Migrate, Up, New, Exit, StoreDies, Purge, vars
  <2>5. QED
    BY <2>1, <2>2, <2>3, <2>4 DEF Next, InStore
<1>2. QED
  BY <1>1

LEMMA AgreesInStore ==
  ASSUME AppInv, OneLooks, KeyAgrees, NothingYet, NEW c \in Calls, StoreStep(c), Clean',
         UNCHANGED appVars
  PROVE  KeyAgrees' /\ NothingYet'
<1> USE DEF AppInv, TypeInv
<1>1. /\ StoreTypeOK /\ UNCHANGED pc
      /\ UNCHANGED <<blob, aead>>
  BY TypeSplit DEF appVars, auditVars, boxVars
<1>2. /\ spc[c] \in Busy /\ UNCHANGED <<req, backend>>
      /\ \A d \in Calls \ {c} : spc'[d] = spc[d] /\ res'[d] = res[d]
  BY <1>1, StoreMoves
<1>3. NothingYet'
  <2> SUFFICES ASSUME backend = None
               PROVE  keyring'[OutputKey] = None /\ kept'[OutputKey] = None
    BY <1>2 DEF NothingYet
  <2>1. ~Inside(c)
    BY CallsDiffer DEF StoreInv, Exclusive, Inside, NothingYet
  <2>2. UNCHANGED <<keyring, kept>>
    <3>1. ~Keyring(c) /\ ~Write(c)
      BY <2>1, CallsDiffer DEF Keyring, Write, Inside
    <3>2. CASE KeyringFails(c) \/ Lock(c) \/ KeyReadFails(c) \/ MasterKey(c) \/ Load(c)
      BY <3>2 DEF KeyringFails, Lock, KeyReadFails, MasterKey, Load, fileVars
    <3>3. CASE FileFails(c) \/ Truncate(c) \/ Part(c) \/ WriteFails(c)
      BY <3>3 DEF FileFails, Truncate, Part, WriteFails, fileVars
    <3>4. QED
      BY <3>1, <3>2, <3>3 DEF StoreStep
  <2>3. QED
    BY <2>2 DEF NothingYet
<1>4. CASE pc[c] = "storing" /\ spc'[c] = "answered" /\ res'[c].is = "ok"
  <2>1. KeyHeld = None /\ KeyHeld' = req[c].val
    BY <1>1, <1>2, <1>4, HeldMoves DEF KeyAgrees, Busy
  <2>2. aead = 0 /\ \A d \in Calls : Looks(d) => d = c
    BY <1>4 DEF OneLooks, Looks
  <2>3. \A r \in Calls : blob[r] = 0
    BY <2>1, CallsDiffer DEF KeyAgrees, TypeOK
  <2>4. QED
    BY <1>1, <1>2, <1>3, <1>4, <2>1, <2>2, <2>3 DEF KeyAgrees, Looks
<1>5. CASE ~(pc[c] = "storing" /\ spc'[c] = "answered" /\ res'[c].is = "ok")
  <2>1. KeyHeld' = KeyHeld
    BY <1>1, <1>5, HeldMoves
  <2>2. spc'[c] = "answered" /\ pc[c] = "reading" =>
          IF res'[c].is = "ok" THEN res'[c].val = KeyHeld ELSE KeyHeld = None
    BY <1>1, HeldIsFound
  <2>3. \A d \in Calls : spc'[d] = "answered" /\ pc[d] = "reading" =>
          IF res'[d].is = "ok" THEN res'[d].val = KeyHeld ELSE KeyHeld = None
    BY <1>2, <2>2 DEF KeyAgrees
  <2>4. \A d \in Calls : pc[d] = "storing" =>
          IF spc'[d] # "answered" THEN KeyHeld = None
                                  ELSE res'[d].is = "ok" => KeyHeld = req[d].val
    BY <1>2, <1>5 DEF KeyAgrees, Busy
  <2>5. QED
    BY <1>1, <1>2, <1>3, <2>1, <2>3, <2>4 DEF KeyAgrees
<1>6. QED
  BY <1>4, <1>5

LEMMA AgreesInAudit ==
  ASSUME AppInv, OneLooks, KeyAgrees, NothingYet, NEW c \in Calls, AuditStep(c)
  PROVE  KeyAgrees' /\ NothingYet'
<1> USE DEF AppInv, TypeInv, StoreIdle, StoreAsked, storeVars, fileVars, callVars, auditVars, boxVars
<1>1. TypeOK /\ StoreTypeOK
  BY TypeSplit
<1>2. UNCHANGED <<backend, keyring, kept>>
  BY DEF AuditStep, Record, LoadOutput, LoadKey, KeyFound, NewKey, KeyStored, AttachOutput, OpenOutput
<1>3. KeyHeld' = KeyHeld /\ NothingYet'
  BY <1>2 DEF KeyHeld, NothingYet
<1>4. ASSUME NEW l, l \notin {"reading", "storing"}, Goto(c, l), UNCHANGED <<spc, req, res>>,
             \A r \in Calls : blob'[r] # 0 => blob'[r] = KeyHeld,
             aead' # 0 => aead' = KeyHeld
      PROVE  KeyAgrees' /\ NothingYet'
  <2>1. \A d \in Calls : Looks(d)' => pc'[d] = pc[d]
    BY <1>1, <1>4 DEF Goto, Looks, TypeOK
  <2>2. QED
    BY <1>3, <1>4, <2>1 DEF KeyAgrees, Looks
<1>5. CASE Record(c) \/ LoadOutput(c) \/ OpenOutput(c)
  <2>1. /\ Goto(c, "sealing") \/ Goto(c, "opening") \/ Goto(c, "done")
        /\ UNCHANGED <<spc, req, res, blob, aead>>
    BY <1>5 DEF Record, LoadOutput, OpenOutput, OnlyPc
  <2>2. QED
    BY <1>4, <2>1 DEF KeyAgrees
<1>6. CASE AttachOutput(c)
  <2>1. /\ Goto(c, "done") /\ UNCHANGED <<spc, req, res, aead>>
        /\ \A r \in Calls : blob'[r] = blob[r] \/ (aead # 0 /\ blob'[r] = aead)
    BY <1>1, <1>6 DEF AttachOutput, TypeOK
  <2>2. QED
    BY <1>4, <2>1 DEF KeyAgrees
<1>7. CASE KeyFound(c)
  <2>1. /\ Goto(c, "sealing") \/ Goto(c, "opening")
        /\ UNCHANGED <<spc, req, res, blob>> /\ aead' = KeyHeld
    BY <1>7 DEF KeyFound, Resume, ResumesAt, At, Answered, KeyAgrees
  <2>2. QED
    BY <1>4, <2>1 DEF KeyAgrees
<1>8. CASE KeyStored(c)
  <2>1. /\ Goto(c, "sealing") \/ Goto(c, "opening")
        /\ UNCHANGED <<spc, req, res, blob>> /\ (aead' # 0 => aead' = KeyHeld)
    BY <1>8 DEF KeyStored, Resume, ResumesAt, At, Answered, KeyAgrees
  <2>2. QED
    BY <1>4, <2>1 DEF KeyAgrees
<1>9. CASE LoadKey(c)
  <2>1. \A d \in Calls : ~Looks(d)
    BY <1>9 DEF LoadKey, FirstOne, OneLooks
  <2>2. /\ spc'[c] = "asked" /\ pc'[c] = "reading" /\ UNCHANGED <<blob, aead>>
        /\ \A d \in Calls \ {c} : pc'[d] = pc[d]
    BY <1>1, <1>9 DEF LoadKey, Ask, Goto, TypeOK, StoreTypeOK
  <2>3. QED
    BY <1>3, <2>1, <2>2 DEF KeyAgrees, Looks
<1>10. CASE NewKey(c)
  <2>1. /\ KeyHeld = None /\ Looks(c)
    BY <1>10 DEF NewKey, ResumesAt, At, Answered, KeyAgrees, Looks
  <2>2. /\ spc'[c] = "asked" /\ pc'[c] = "storing" /\ UNCHANGED <<blob, aead>>
        /\ \A d \in Calls \ {c} : pc'[d] = pc[d]
    BY <1>1, <1>10 DEF NewKey, Ask, Goto, TypeOK, StoreTypeOK
  <2>3. \A d \in Calls \ {c} : ~Looks(d)
    BY <2>1 DEF OneLooks
  <2>4. QED
    BY <1>3, <2>1, <2>2, <2>3 DEF KeyAgrees, Looks
<1>11. QED
  BY <1>5, <1>6, <1>7, <1>8, <1>9, <1>10 DEF AuditStep

LEMMA AgreesStep ==
  ASSUME AppInv, OutInv, [Next]_vars, Clean'
  PROVE  KeyAgrees' /\ NothingYet'
<1> USE DEF AppInv, TypeInv, OutInv
<1>1. Clean /\ KeyAgrees /\ NothingYet /\ OneLooks /\ mishaps \subseteq mishaps'
  BY CleanStays
<1>2. ASSUME UNCHANGED <<backend, keyring, kept, spc, req, res, aead>>,
             \A c \in Calls : Looks(c)' => pc'[c] = pc[c],
             \A r \in Calls : blob'[r] # 0 => blob'[r] = blob[r]
      PROVE  KeyAgrees' /\ NothingYet'
  <2>1. KeyHeld' = KeyHeld
    BY <1>2 DEF KeyHeld
  <2>2. QED
    BY <1>1, <1>2, <2>1 DEF KeyAgrees, NothingYet, Looks
<1>3. ASSUME NEW c \in Calls, HostStep(c)
      PROVE  KeyAgrees' /\ NothingYet'
  <2>1. UNCHANGED <<backend, keyring, kept, blob, aead>>
    BY <1>3 DEF HostStep, CreateHost, LoadHost, SaveHost, SetHostSecret, SecretSet, DeleteSecret,
                DeleteHost, TestConnection, Probe, StoreIdle, StoreAsked, storeVars, fileVars,
                OnlyPc, auditVars, boxVars
  <2>2. /\ \A d \in Calls \ {c} : UNCHANGED <<pc[d], spc[d], req[d], res[d]>>
        /\ pc'[c] \in {"done", "edited", "setting", "deleting", "testing"}
    BY <1>3 DEF HostStep, CreateHost, LoadHost, SaveHost, SetHostSecret, SecretSet, DeleteSecret,
                DeleteHost, TestConnection, Probe, StoreIdle, storeVars, callVars, Ask, Goto,
                TypeOK, StoreTypeOK
  <2>3. KeyHeld' = KeyHeld
    BY <2>1 DEF KeyHeld
  <2>4. QED
    BY <1>1, <2>1, <2>2, <2>3 DEF KeyAgrees, NothingYet
<1>4. CASE Up
  <2>1. /\ UNCHANGED <<keyring, kept, spc, req, res, pc, blob, aead>>
        /\ backend' \in {"keyring", "file"} /\ backend \in {None, backend'}
    BY <1>4, ScenesAreScenes DEF Up, New, fileVars, callVars, appVars, auditVars, boxVars, Clean
  <2>2. KeyHeld' = KeyHeld
    BY <1>1, <2>1, CallsDiffer DEF KeyHeld, NothingYet
  <2>3. NothingYet'
    BY <2>1, CallsDiffer DEF NothingYet
  <2>4. QED
    BY <1>1, <2>1, <2>2, <2>3 DEF KeyAgrees
<1>5. CASE Exit
  <2>1. /\ UNCHANGED <<backend, keyring, kept, blob>> /\ aead' = 0
        /\ \A c \in Calls : pc'[c] \in {"none", "done"}
    BY <1>5 DEF Exit, StoreDies, fileVars, auditVars
  <2>2. KeyHeld' = KeyHeld
    BY <2>1 DEF KeyHeld
  <2>3. QED
    BY <1>1, <2>1, <2>2 DEF KeyAgrees, NothingYet
<1>6. CASE Purge
  <2>1. UNCHANGED <<storeVars, pc, aead>> /\ \A r \in Calls : blob'[r] # 0 => blob'[r] = blob[r]
    BY <1>6 DEF Purge, StoreIdle, boxVars
  <2>2. QED
    BY <1>2, <2>1 DEF storeVars, fileVars, callVars
<1>7. CASE Open \/ Migrate \/ UNCHANGED vars
  BY <1>2, <1>7
     DEF Open, Migrate, vars, storeVars, fileVars, callVars, appVars, auditVars, boxVars
<1>8. ASSUME NEW c \in Calls, InStore(c)
      PROVE  KeyAgrees' /\ NothingYet'
  BY <1>1, <1>8, AgreesInStore DEF InStore
<1>9. ASSUME NEW c \in Calls, AuditStep(c)
      PROVE  KeyAgrees' /\ NothingYet'
  BY <1>1, <1>9, AgreesInAudit
<1>10. QED
  BY <1>3, <1>4, <1>5, <1>6, <1>7, <1>8, <1>9 DEF Next

LEMMA OutInvariant == Spec => []OutInv
<1>1. Init => OutInv
  <2> SUFFICES ASSUME Init PROVE OutInv
    OBVIOUS
  <2>1. OneLooks
    BY DEF Init, OneLooks, Looks
  <2>2. KeyAgrees /\ NothingYet
    BY TwoRefs DEF Init, StoreInit, KeyAgrees, NothingYet, Nothing
  <2>3. QED
    BY <2>1, <2>2 DEF OutInv
<1>2. AppInv /\ OutInv /\ [Next]_vars => OutInv'
  BY OneLooksStep, AgreesStep DEF OutInv, AppInv
<1>3. Spec => []AppInv
  BY StoreInvariant DEF AppInv
<1>4. QED
  BY <1>1, <1>2, <1>3, PTL DEF Spec

\* Every sealed output can be opened with the key in memory, in this run of
\* the application and the next ones, as long as no read of the key failed, no
\* write was cut short and no start found another store.
THEOREM Readable == Spec => []OutputsReadable
<1>1. OutInv => OutputsReadable
  BY DEF OutInv, OutputsReadable, Clean, KeyAgrees
<1>2. QED
  BY <1>1, OutInvariant, PTL
-----------------------------------------------------------------------------
(* The secret of a host.                                                    *)

Tame == mishaps \cap {"delete", "switch", "crossed"} = {}

\* The host is gone, or the call that deletes it has the store's answer.
Leaving == Host \notin rows \/ \E d \in Calls : pc[d] = "deleting" /\ spc[d] = "answered"

\* Only the store in use has entries, and once the host leaves nothing holds
\* its secret, the maps that are about to be written included.
SecretGone ==
  /\ backend # "keyring" => keyring[Host] = None
  /\ backend # "file" => dataFile.map[Host] = None
  /\ \A c \in Calls : pc[c] = "setting" => Host \in rows /\ \A d \in Calls : pc[d] # "deleting"
  /\ \A c \in Calls :
       spc[c] \in {"saving", "writing"} /\ (Leaving \/ pc[c] = "deleting") => buf[c][Host] = None
  /\ Leaving => keyring[Host] = None /\ dataFile.map[Host] = None

HostInv == Tame => SecretGone

LEMMA ChangedHost ==
  ASSUME TypeInv, NEW c \in Calls, spc[c] \in Busy, pc[c] # "setting",
         NEW m \in [Refs -> Secrets \cup {None}], m[Host] = None \/ pc[c] = "deleting"
  PROVE  Changed(m, req[c])[Host] = None
<1>1. CASE pc[c] = "deleting"
  <2>1. req[c].do # "set" /\ req[c].ref = Host
    BY <1>1 DEF TypeInv, Dialogue, Asked
  <2>2. QED
    BY <2>1, TwoRefs DEF Changed
<1>2. CASE pc[c] # "deleting" /\ m[Host] = None
  <2>1. req[c].do # "set" \/ req[c].ref = OutputKey
    BY <1>2 DEF TypeInv, Dialogue, Asked, Busy
  <2>2. Host # OutputKey
    BY DEF Host, OutputKey
  <2>3. QED
    BY <1>2, <2>1, <2>2, TwoRefs DEF Changed
<1>3. QED
  BY <1>1, <1>2

LEMMA SecretInStore ==
  ASSUME AppInv, SecretGone, NEW c \in Calls, StoreStep(c), Tame', UNCHANGED appVars
  PROVE  SecretGone'
<1> USE DEF AppInv, TypeInv
<1>1. StoreTypeOK /\ UNCHANGED <<pc, rows>>
  BY TypeSplit DEF appVars, hostVars
<1>2. /\ spc[c] \in Busy /\ UNCHANGED <<req, backend>>
      /\ \A d \in Calls \ {c} : spc'[d] = spc[d] /\ buf'[d] = buf[d]
  BY <1>1, StoreMoves
<1>3. /\ keyring \in [Refs -> Secrets \cup {None}]
      /\ dataFile.map \in [Refs -> Secrets \cup {None}]
      /\ Nothing \in [Refs -> Secrets \cup {None}] /\ Nothing[Host] = None
  BY <1>1, TwoRefs DEF StoreTypeOK, Nothing
<1>4. Inside(c) => backend = "file" /\ \A d \in Calls \ {c} : ~Inside(d)
  BY DEF StoreInv, Exclusive
<1>5. /\ pc[c] = "deleting" => req[c].do = "delete"
      /\ pc[c] = "setting" => ~Leaving
  BY DEF Dialogue, Asked, SecretGone, Leaving
<1>6. ASSUME ~Inside(c), pc[c] = "deleting", spc'[c] = "answered"
      PROVE  backend = "keyring" /\ keyring'[Host] = None /\ UNCHANGED dataFile
  <2>1. CASE Keyring(c)
    <3>1. /\ backend = "keyring" /\ UNCHANGED dataFile
          /\ keyring' = Changed(keyring, req[c])
      BY <1>5, <1>6, <2>1 DEF Keyring, fileVars
    <3>2. QED
      BY <1>2, <1>3, <1>6, <3>1, ChangedHost
  <2>2. CASE KeyringFails(c)
    BY <1>5, <1>6, <2>2 DEF KeyringFails, Tame
  <2>3. CASE Lock(c)
    BY <1>1, <1>6, <2>3 DEF Lock, StoreTypeOK
  <2>4. ~KeyReadFails(c) /\ ~MasterKey(c) /\ ~Load(c) /\ ~FileFails(c) /\ ~Truncate(c) /\ ~Part(c)
        /\ ~Write(c) /\ ~WriteFails(c)
    BY <1>6 DEF Inside, KeyReadFails, MasterKey, AsksForTheKey, Load, FileFails, Truncate, Part, Write,
                    WriteFails
  <2>5. QED
    BY <2>1, <2>2, <2>3, <2>4 DEF StoreStep
<1>7. CASE ~Inside(c)
  <2>1. /\ UNCHANGED dataFile /\ spc'[c] \notin {"saving", "writing"}
        /\ keyring' = keyring \/ (backend = "keyring" /\ keyring' = Changed(keyring, req[c]))
    <3>1. CASE Keyring(c) \/ KeyringFails(c)
      BY <1>1, <3>1 DEF Keyring, KeyringFails, Failure, Answer, fileVars, StoreTypeOK
    <3>2. CASE Lock(c)
      BY <1>1, <3>2 DEF Lock, fileVars, StoreTypeOK
    <3>3. ~KeyReadFails(c) /\ ~MasterKey(c) /\ ~Load(c) /\ ~FileFails(c) /\ ~Truncate(c) /\ ~Part(c)
          /\ ~Write(c) /\ ~WriteFails(c)
      BY <1>7 DEF Inside, KeyReadFails, MasterKey, AsksForTheKey, Load, FileFails, Truncate, Part, Write,
                    WriteFails
    <3>4. QED
      BY <3>1, <3>2, <3>3 DEF StoreStep
  <2>2. keyring[Host] = None /\ pc[c] # "setting" => keyring'[Host] = None
    BY <1>2, <1>3, <2>1, ChangedHost
  <2>3. Leaving' => Leaving \/ (pc[c] = "deleting" /\ spc'[c] = "answered")
    BY <1>1, <1>2 DEF Leaving
  <2>4. Leaving' => keyring'[Host] = None /\ dataFile'.map[Host] = None
    BY <1>5, <1>6, <1>7, <2>1, <2>2, <2>3 DEF SecretGone
  <2>5. backend # "keyring" => keyring' = keyring
    BY <2>1
  <2>6. ASSUME NEW d \in Calls, spc'[d] \in {"saving", "writing"}
        PROVE  (Leaving' \/ pc[d] = "deleting") => buf'[d][Host] = None
    <3>1. d # c /\ Inside(d) /\ spc[d] \in {"saving", "writing"} /\ buf'[d] = buf[d]
      BY <1>2, <2>1, <2>6 DEF Inside
    <3>2. backend = "file"
      BY <3>1 DEF StoreInv, Exclusive
    <3>3. Leaving' => Leaving
      BY <1>6, <1>7, <2>3, <3>2
    <3>4. QED
      BY <3>1, <3>3 DEF SecretGone
  <2>7. QED
    BY <1>1, <1>2, <2>1, <2>4, <2>5, <2>6 DEF SecretGone
<1>8. CASE Inside(c)
  <2>1. UNCHANGED keyring
    BY <1>8 DEF StoreStep, Keyring, KeyringFails, Lock, KeyReadFails, MasterKey, Load, FileFails,
                Truncate, Part,
                Write, WriteFails, Inside
  <2>2. keyring[Host] = None
    BY <1>4, <1>8 DEF SecretGone
  <2>3. Leaving' => Leaving \/ (pc[c] = "deleting" /\ spc'[c] = "answered")
    BY <1>1, <1>2 DEF Leaving
  <2>4. ASSUME Leaving' \/ pc[c] = "deleting"
        PROVE  /\ dataFile'.map[Host] = None \/ (~Leaving' /\ UNCHANGED dataFile)
               /\ spc'[c] \in {"saving", "writing"} => buf'[c][Host] = None
    <3>1. pc[c] # "setting" /\ (Leaving \/ pc[c] = "deleting")
      BY <1>5, <2>3, <2>4
    <3>2. CASE UNCHANGED <<dataFile, buf, spc>>
      BY <1>1, <1>2, <2>3, <3>1, <3>2 DEF SecretGone, Leaving, Busy
    <3>3. CASE FileFails(c) \/ WriteFails(c)
      <4>1. /\ UNCHANGED dataFile /\ spc'[c] = "answered" /\ req[c].do # "delete"
        BY <1>1, <3>3 DEF FileFails, WriteFails, Failure, Answer, fileVars, StoreTypeOK, Tame
      <4>2. Leaving' => Leaving
        BY <1>5, <2>3, <4>1
      <4>3. QED
        BY <4>1, <4>2 DEF SecretGone
    <3>4. CASE KeyReadFails(c) \/ MasterKey(c)
      BY <3>2, <3>4 DEF KeyReadFails, MasterKey, callVars
    <3>5. CASE Truncate(c)
      BY <1>3, <3>1, <3>5 DEF Truncate, Vacant, SecretGone
    <3>6. CASE Part(c)
      BY <1>3, <3>1, <3>6 DEF Part, Torn, callVars, SecretGone
    <3>7. CASE Write(c)
      <4>1. spc[c] = "writing" /\ dataFile'.map = buf[c] /\ spc'[c] = "answered"
        BY <1>1, <3>7 DEF Write, Answer, StoreTypeOK
      <4>2. QED
        BY <3>1, <4>1 DEF SecretGone
    <3>8. CASE Load(c)
      <4>1. UNCHANGED dataFile /\ spc[c] = "loading"
        BY <3>8 DEF Load, fileVars
      <4>2. Leaving => dataFile.map[Host] = None
        BY DEF SecretGone
      <4>3. ASSUME NEW m \in [Refs -> Secrets \cup {None}], m = dataFile.map, Loaded(c, m)
            PROVE  /\ dataFile'.map[Host] = None \/ (~Leaving' /\ UNCHANGED dataFile)
                   /\ spc'[c] \in {"saving", "writing"} => buf'[c][Host] = None
        <5>1. CASE req[c].do = "get"
          <6>1. spc'[c] = "answered" /\ pc[c] # "deleting"
            BY <1>1, <1>5, <4>3, <5>1 DEF Loaded, Answer, StoreTypeOK
          <6>2. QED
            BY <2>3, <3>1, <4>1, <4>2, <6>1
        <5>2. CASE req[c].do # "get"
          <6>1. spc'[c] = "saving" /\ buf'[c] = Changed(m, req[c])
            BY <1>1, <4>3, <5>2 DEF Loaded, StoreTypeOK
          <6>2. Changed(m, req[c])[Host] = None
            BY <1>2, <3>1, <4>2, <4>3, ChangedHost
          <6>3. Leaving' => Leaving
            BY <2>3, <6>1
          <6>4. QED
            BY <4>1, <4>2, <6>1, <6>2, <6>3
        <5>3. QED
          BY <5>1, <5>2
      <4>4. CASE dataFile.is = "sealed"
        <5>1. CASE Loaded(c, dataFile.map)
          BY <1>3, <4>3, <5>1
        <5>2. CASE Answer(c, Failed) /\ mishaps' = mishaps \cup {req[c].do}
          <6>1. spc'[c] = "answered" /\ pc[c] # "deleting"
            BY <1>1, <1>5, <5>2 DEF Answer, StoreTypeOK, Tame
          <6>2. QED
            BY <2>3, <4>1, <4>2, <6>1
        <5>3. QED
          BY <3>8, <4>4, <5>1, <5>2 DEF Load
      <4>5. CASE dataFile.is # "sealed"
        <5>1. dataFile.map = Nothing
          BY <4>5 DEF StoreInv, UnsealedIsEmpty
        <5>2. CASE Loaded(c, Nothing)
          BY <1>3, <4>3, <5>1, <5>2
        <5>3. CASE Answer(c, Failed)
          <6>1. spc'[c] = "answered"
            BY <1>1, <5>3 DEF Answer, StoreTypeOK
          <6>2. QED
            BY <1>3, <4>1, <5>1, <6>1
        <5>4. QED
          BY <3>8, <4>5, <5>2, <5>3 DEF Load
      <4>6. QED
        BY <4>4, <4>5
    <3>9. ~Keyring(c) /\ ~KeyringFails(c) /\ ~Lock(c)
      BY <1>8 DEF Inside, Keyring, KeyringFails, Lock
    <3>10. QED
      BY <3>3, <3>4, <3>5, <3>6, <3>7, <3>8, <3>9 DEF StoreStep
  <2>5. Leaving' => dataFile'.map[Host] = None
    BY <2>4
  <2>6. ASSUME NEW d \in Calls, spc'[d] \in {"saving", "writing"}
        PROVE  (Leaving' \/ pc[d] = "deleting") => buf'[d][Host] = None
    <3>1. d = c
      BY <1>2, <1>4, <1>8, <2>6 DEF Inside
    <3>2. QED
      BY <2>4, <2>6, <3>1
  <2>7. backend = "file"
    BY <1>4, <1>8
  <2>8. QED
    BY <1>1, <1>2, <2>1, <2>2, <2>5, <2>6, <2>7 DEF SecretGone
<1>9. QED
  BY <1>7, <1>8

LEMMA TameStays == ASSUME [Next]_vars, Tame' PROVE Tame /\ mishaps \subseteq mishaps'
<1> USE DEF Tame, StoreIdle, StoreAsked, storeVars
<1>1. ASSUME NEW c \in Calls, HostStep(c)
      PROVE  mishaps \subseteq mishaps'
  BY <1>1 DEF HostStep, CreateHost, LoadHost, SaveHost, SetHostSecret, SecretSet, DeleteSecret,
              DeleteHost, TestConnection, Probe, Crossed
<1>2. ASSUME NEW c \in Calls, AuditStep(c)
      PROVE  mishaps \subseteq mishaps'
  BY <1>2 DEF AuditStep, Record, LoadOutput, LoadKey, KeyFound, NewKey, KeyStored, AttachOutput,
              OpenOutput
<1>3. ASSUME NEW c \in Calls, StoreStep(c)
      PROVE  mishaps \subseteq mishaps'
  BY <1>3 DEF StoreStep, Keyring, KeyringFails, Lock, KeyReadFails, MasterKey, Load, FileFails,
                Truncate, Part,
              Write, WriteFails
<1>4. CASE Open \/ Migrate \/ Up \/ Exit \/ Purge \/ UNCHANGED vars
  BY <1>4 DEF Open, Migrate, Up, New, Exit, StoreDies, Purge, vars
<1>5. mishaps \subseteq mishaps'
  BY <1>1, <1>2, <1>3, <1>4 DEF Next, InStore
<1>6. QED
  BY <1>5

LEMMA SecretOutside ==
  ASSUME AppInv, SecretGone, NEW c \in Calls, HostStep(c) \/ AuditStep(c), Tame'
  PROVE  SecretGone'
<1> USE DEF AppInv, TypeInv, StoreIdle, StoreAsked, storeVars, fileVars, callVars, OnlyPc, hostVars
<1>1. TypeOK /\ StoreTypeOK
  BY TypeSplit
<1>2. /\ UNCHANGED <<backend, keyring, dataFile, buf>>
      /\ \A d \in Calls \ {c} : spc'[d] = spc[d] /\ pc'[d] = pc[d]
  <2>1. CASE HostStep(c)
    BY <1>1, <2>1 DEF HostStep, CreateHost, LoadHost, SaveHost, SetHostSecret, SecretSet,
       DeleteSecret, DeleteHost, TestConnection, Probe, Ask, Goto, TypeOK, StoreTypeOK
  <2>2. CASE AuditStep(c)
    BY <1>1, <2>2 DEF AuditStep, Record, LoadOutput, LoadKey, KeyFound, NewKey, KeyStored,
       AttachOutput, OpenOutput, Ask, Goto, Resume, TypeOK, StoreTypeOK
  <2>3. QED
    BY <2>1, <2>2
<1>3. ASSUME spc'[c] \notin {"saving", "writing"}, Leaving' => Leaving,
             \A d \in Calls : pc'[d] = "setting" => Host \in rows' /\ \A e \in Calls : pc'[e] # "deleting"
      PROVE  SecretGone'
  <2>1. ASSUME NEW d \in Calls, spc'[d] \in {"saving", "writing"}
        PROVE  (Leaving' \/ pc'[d] = "deleting") => buf'[d][Host] = None
    <3>1. d # c
      BY <1>3, <2>1
    <3>2. QED
      BY <1>2, <1>3, <2>1, <3>1 DEF SecretGone
  <2>2. QED
    BY <1>2, <1>3, <2>1 DEF SecretGone
<1>4. ASSUME NEW l, l \notin {"setting", "deleting"}, Goto(c, l),
             spc'[c] \notin {"saving", "writing"}, rows \subseteq rows'
      PROVE  SecretGone'
  <2>1. \A d \in Calls : pc'[d] \in {"setting", "deleting"} => pc[d] = pc'[d] /\ spc[d] = spc'[d]
    BY <1>1, <1>2, <1>4 DEF Goto, TypeOK
  <2>2. Leaving' => Leaving
    BY <1>4, <2>1 DEF Leaving
  <2>3. QED
    BY <1>3, <1>4, <2>1, <2>2 DEF SecretGone
<1>5. spc[c] \notin Busy \/ pc[c] \in {"setting", "deleting", "testing", "reading", "storing"}
  BY DEF Dialogue
<1>6. CASE CreateHost(c) \/ LoadHost(c) \/ SaveHost(c)
  <2>1. spc'[c] \notin {"saving", "writing"}
    BY <1>5, <1>6 DEF CreateHost, LoadHost, SaveHost, Begins, At, Busy
  <2>2. (Goto(c, "edited") \/ Goto(c, "done")) /\ rows \subseteq rows'
    BY <1>6 DEF CreateHost, LoadHost, SaveHost
  <2>3. QED
    BY <1>4, <2>1, <2>2
<1>7. CASE SecretSet(c) \/ Probe(c)
  BY <1>4, <1>7 DEF SecretSet, Probe, ResumesAt, Answered
<1>8. CASE SetHostSecret(c)
  <2>1. CASE Host \in rows
    <3>1. /\ Goto(c, "setting") /\ Crossed({"deleting"}) /\ spc'[c] = "asked" /\ rows' = rows
      BY <1>1, <1>8, <2>1 DEF SetHostSecret, Ask, StoreTypeOK
    <3>2. \A d \in Calls : pc[d] # "deleting"
      BY <3>1 DEF Crossed, Tame
    <3>3. \A d \in Calls : pc'[d] # "deleting"
      BY <1>1, <3>1, <3>2 DEF Goto, TypeOK
    <3>4. QED
      BY <1>3, <2>1, <3>1, <3>3 DEF Leaving
  <2>2. CASE Host \notin rows
    BY <1>4, <1>5, <1>8, <2>2 DEF SetHostSecret, Begins, Busy
  <2>3. QED
    BY <2>1, <2>2
<1>9. CASE DeleteSecret(c)
  <2>1. /\ Goto(c, "deleting") /\ Crossed({"setting"}) /\ spc'[c] = "asked" /\ rows' = rows
    BY <1>1, <1>9 DEF DeleteSecret, Ask, StoreTypeOK
  <2>2. \A d \in Calls : pc[d] # "setting"
    BY <2>1 DEF Crossed, Tame
  <2>3. \A d \in Calls : pc'[d] # "setting"
    BY <1>1, <2>1, <2>2 DEF Goto, TypeOK
  <2>4. Leaving' => Leaving
    BY <1>2, <2>1 DEF Leaving
  <2>5. QED
    BY <1>3, <2>1, <2>3, <2>4
<1>10. CASE DeleteHost(c)
  <2>1. Goto(c, "done") /\ spc'[c] = "answered" /\ Leaving /\ pc[c] = "deleting"
    BY <1>1, <1>10 DEF DeleteHost, ResumesAt, At, Answered, Leaving
  <2>2. \A d \in Calls : pc'[d] # "setting"
    BY <1>1, <2>1 DEF Goto, TypeOK, SecretGone
  <2>3. QED
    BY <1>3, <2>1, <2>2
<1>11. CASE TestConnection(c)
  <2>1. CASE Ask(c, "get", Host, None) /\ Goto(c, "testing")
    BY <1>1, <1>4, <1>11, <2>1 DEF TestConnection, Ask, StoreTypeOK
  <2>2. CASE Goto(c, "done") /\ UNCHANGED callVars
    BY <1>4, <1>5, <1>11, <2>2 DEF TestConnection, Begins, Busy
  <2>3. QED
    BY <1>11, <2>1, <2>2 DEF TestConnection
<1>12. CASE AuditStep(c)
  <2>1. rows' = rows
    BY <1>12 DEF AuditStep, Record, LoadOutput, LoadKey, KeyFound, NewKey, KeyStored, AttachOutput,
                 OpenOutput
  <2>2. \E l \in {"sealing", "opening", "reading", "storing", "done"} : Goto(c, l)
    BY <1>12 DEF AuditStep, Record, LoadOutput, LoadKey, KeyFound, NewKey, KeyStored, AttachOutput,
                 OpenOutput, Resume
  <2>3. CASE LoadKey(c) \/ NewKey(c)
    BY <1>1, <1>4, <2>1, <2>2, <2>3 DEF LoadKey, NewKey, Ask, StoreTypeOK
  <2>4. CASE KeyFound(c) \/ KeyStored(c)
    BY <1>4, <2>1, <2>2, <2>4 DEF KeyFound, KeyStored, ResumesAt, Answered
  <2>5. CASE Record(c) \/ LoadOutput(c) \/ AttachOutput(c) \/ OpenOutput(c)
    <3>1. spc'[c] \notin {"saving", "writing"}
      BY <1>5, <2>5 DEF Record, LoadOutput, AttachOutput, OpenOutput, Begins, At, Busy
    <3>2. QED
      BY <1>4, <2>1, <2>2, <3>1
  <2>6. QED
    BY <1>12, <2>3, <2>4, <2>5 DEF AuditStep
<1>13. QED
  BY <1>6, <1>7, <1>8, <1>9, <1>10, <1>11, <1>12 DEF HostStep

LEMMA HostInvStep ==
  ASSUME AppInv, HostInv, [Next]_vars
  PROVE  HostInv'
<1> USE DEF AppInv
<1> SUFFICES ASSUME Tame' PROVE SecretGone'
  BY DEF HostInv
<1>1. Tame /\ SecretGone /\ mishaps \subseteq mishaps'
  BY TameStays DEF HostInv
<1>2. CASE Up
  <2>1. /\ UNCHANGED <<keyring, dataFile, spc, buf, pc, rows>>
        /\ backend' \in {"keyring", "file"} /\ backend \in {None, backend'}
    BY <1>2, ScenesAreScenes DEF Up, New, fileVars, callVars, appVars, hostVars, Tame, TypeInv
  <2>2. Leaving' = Leaving
    BY <2>1 DEF Leaving
  <2>3. QED
    BY <1>1, <2>1, <2>2, CallsDiffer DEF SecretGone
<1>3. CASE Exit
  <2>1. /\ UNCHANGED <<backend, keyring, dataFile, rows>>
        /\ \A c \in Calls : spc'[c] = "idle" /\ pc'[c] \in {"none", "done"}
    BY <1>3 DEF Exit, StoreDies, fileVars, hostVars
  <2>2. Leaving' => Leaving
    BY <2>1 DEF Leaving
  <2>3. QED
    BY <1>1, <2>1, <2>2 DEF SecretGone
<1>4. CASE Open \/ Migrate \/ Purge \/ UNCHANGED vars
  <2>1. UNCHANGED <<backend, keyring, dataFile, rows, spc, buf, pc>>
    BY <1>4 DEF Open, Migrate, Purge, StoreIdle, vars, storeVars, fileVars, callVars, appVars, hostVars
  <2>2. QED
    BY <1>1, <2>1 DEF SecretGone, Leaving
<1>5. ASSUME NEW c \in Calls, InStore(c)
      PROVE  SecretGone'
  BY <1>1, <1>5, SecretInStore DEF InStore
<1>6. ASSUME NEW c \in Calls, HostStep(c) \/ AuditStep(c)
      PROVE  SecretGone'
  BY <1>1, <1>6, SecretOutside
<1>7. QED
  BY <1>2, <1>3, <1>4, <1>5, <1>6 DEF Next

\* A host that was deleted leaves no secret in the store, even if the
\* application ended in the middle: as long as the store did not refuse to
\* delete it, no start found another store and no call set it meanwhile.
THEOREM NoOrphans == Spec => []NoOrphanSecret
<1>1. Init => HostInv
  <2> SUFFICES ASSUME Init PROVE SecretGone
    BY DEF HostInv
  <2>1. QED
    BY TwoRefs DEF Init, StoreInit, SecretGone, Nothing, Vacant
<1>2. AppInv /\ HostInv /\ [Next]_vars => HostInv'
  BY HostInvStep
<1>3. Spec => []AppInv
  BY StoreInvariant DEF AppInv
<1>4. HostInv => NoOrphanSecret
  BY DEF HostInv, NoOrphanSecret, Tame, SecretGone, Leaving
<1>5. QED
  BY <1>1, <1>2, <1>3, <1>4, PTL DEF Spec
=============================================================================
