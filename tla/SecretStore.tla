----------------------------- MODULE SecretStore -----------------------------
(***************************************************************************)
(* The secret store (src/internal/adapter/out/keychain): the keychain of   *)
(* the operating system or, where a start finds none, one encrypted file   *)
(* with its master key in a file beside it.  os.WriteFile truncates before *)
(* it writes, so a write may be cut short by the end of the process or by  *)
(* a full disk; the keychain may refuse a call.                            *)
(***************************************************************************)
EXTENDS Naturals, FiniteSets

CONSTANTS Calls,      \* calls of the application, one goroutine each
          Refs,       \* names secrets are stored under
          MaxFaults,  \* bound: calls of a backend that fail
          None

ASSUME CallsDiffer ==
  Calls \cap Nat = {} /\ None \notin Calls /\ None \notin Nat /\ None \notin {"keyring", "file"}

VARIABLES backend,   \* what New chose at this start
          keyring,   \* the keychain's entries
          keyFile,   \* secrets.key; 0 when it does not hold a whole key
          dataFile,  \* secrets.enc
          holder,    \* whose goroutine has fileStore.mu
          spc,       \* how far a call is in the store
          req,       \* what it asked for
          buf,       \* the map it loaded and changed
          res,       \* what the store answered
          minted,    \* random keys made so far
          faults,
          mishaps,   \* what went wrong, for the properties
          kept,      \* what the file store said it stored, for the properties
          rekeyed    \* a whole key was replaced since the data was written, likewise

fileVars == <<keyFile, dataFile, kept, rekeyed>>
callVars == <<holder, spc, req, buf, res>>
storeVars == <<backend, keyring, fileVars, callVars, minted, faults, mishaps>>
-----------------------------------------------------------------------------
Secrets == Calls \cup Nat
Nothing == [r \in Refs |-> None]
NoAnswer == [is |-> "none", val |-> None]
Failed == [is |-> "failed", val |-> None]
Missing == [is |-> "missing", val |-> None]
Ok(v) == [is |-> "ok", val |-> v]
NoRequest == [do |-> "get", ref |-> None, val |-> None]

\* An absent data file and an empty one are the same to load.
Vacant == [is |-> "empty", under |-> 0, map |-> Nothing]
Torn == [is |-> "torn", under |-> 0, map |-> Nothing]

StoreInit ==
  /\ backend = None /\ keyring = Nothing
  /\ keyFile = 0 /\ dataFile = Vacant /\ kept = Nothing /\ rekeyed = FALSE
  /\ holder = None /\ spc = [c \in Calls |-> "idle"]
  /\ req = [c \in Calls |-> NoRequest] /\ buf = [c \in Calls |-> Nothing]
  /\ res = [c \in Calls |-> NoAnswer]
  /\ minted = 0 /\ faults = 0 /\ mishaps = {}

\* New asks the keychain; another answer than last time moves the store.
New(b) ==
  /\ backend' = b
  /\ mishaps' = IF backend \in {None, b} THEN mishaps ELSE mishaps \cup {"switch"}
  /\ UNCHANGED <<keyring, fileVars, callVars, minted, faults>>

Ask(c, do, ref, val) ==
  /\ spc' = [spc EXCEPT ![c] = "asked"]
  /\ req' = [req EXCEPT ![c] = [do |-> do, ref |-> ref, val |-> val]]
  /\ res' = [res EXCEPT ![c] = NoAnswer]
  /\ UNCHANGED <<holder, buf>>

\* The answer leaves the store, and the deferred Unlock runs.
Answer(c, r) ==
  /\ spc' = [spc EXCEPT ![c] = "answered"]
  /\ res' = [res EXCEPT ![c] = r]
  /\ buf' = [buf EXCEPT ![c] = Nothing]
  /\ holder' = None
  /\ UNCHANGED req

Answered(c) == spc[c] = "answered"
Inside(c) == spc[c] \in {"loading", "saving", "writing"}

Changed(m, q) == [m EXCEPT ![q.ref] = IF q.do = "set" THEN q.val ELSE None]
\* Mutant: an entry that is not in the map is taken for an empty one.
FoundAnyway(m, ref) == Ok(m[ref])
Found(m, ref) == IF m[ref] = None THEN Missing ELSE Ok(m[ref])
Failure(c) == faults < MaxFaults /\ faults' = faults + 1 /\ Answer(c, Failed)

(* ----------------------------- the keychain ---------------------------- *)

Keyring(c) ==
  /\ spc[c] = "asked" /\ backend = "keyring"
  /\ IF req[c].do = "get"
       THEN Answer(c, Found(keyring, req[c].ref)) /\ UNCHANGED keyring
       ELSE Answer(c, Ok(None)) /\ keyring' = Changed(keyring, req[c])
  /\ UNCHANGED <<backend, fileVars, minted, faults, mishaps>>

KeyringFails(c) ==
  /\ spc[c] = "asked" /\ backend = "keyring"
  /\ Failure(c) /\ mishaps' = mishaps \cup {req[c].do}
  /\ UNCHANGED <<backend, keyring, fileVars, minted>>

(* ------------------------------ the file store -------------------------- *)

\* Mutant: the methods do not take the mutex.
NoMutex == TRUE
Free == holder = None

Lock(c) ==
  /\ spc[c] = "asked" /\ backend = "file" /\ Free
  /\ holder' = c /\ spc' = [spc EXCEPT ![c] = "loading"]
  /\ UNCHANGED <<backend, keyring, fileVars, req, buf, res, minted, faults, mishaps>>

\* Mutant: masterKey does not look for the key it made before.
AlwaysNew == TRUE
NoWholeKey == keyFile = 0

\* load asks for the master key when there is something to decipher, save does
\* always.
AsksForTheKey(c) == spc[c] = "saving" \/ (spc[c] = "loading" /\ dataFile.is # "empty")

\* Any error of reading the key, not only its absence, leads to a new one: the
\* write of it truncates the file the key was in.
KeyReadFails(c) ==
  /\ AsksForTheKey(c) /\ keyFile # 0
  /\ faults < MaxFaults /\ faults' = faults + 1
  /\ keyFile' = 0 /\ rekeyed' = TRUE
  /\ UNCHANGED <<backend, keyring, dataFile, kept, callVars, minted, mishaps>>

\* A key file without a whole key is written anew.
MasterKey(c) ==
  /\ AsksForTheKey(c) /\ NoWholeKey
  /\ keyFile' = minted + 1 /\ minted' = minted + 1
  /\ UNCHANGED <<backend, keyring, dataFile, kept, rekeyed, callVars, faults, mishaps>>

Loaded(c, m) ==
  IF req[c].do = "get"
    THEN Answer(c, Found(m, req[c].ref))
    ELSE /\ buf' = [buf EXCEPT ![c] = Changed(m, req[c])]
         /\ spc' = [spc EXCEPT ![c] = "saving"]
         /\ UNCHANGED <<holder, req, res>>

Load(c) ==
  /\ spc[c] = "loading"
  /\ \/ dataFile.is = "empty" /\ Loaded(c, Nothing) /\ UNCHANGED mishaps
     \/ /\ dataFile.is # "empty" /\ keyFile # 0
        /\ IF dataFile.is = "sealed" /\ dataFile.under = keyFile
             THEN Loaded(c, dataFile.map) /\ UNCHANGED mishaps
             ELSE Answer(c, Failed) /\ mishaps' = mishaps \cup {req[c].do}
  /\ UNCHANGED <<backend, keyring, fileVars, minted, faults>>

\* The data cannot be read, or a key cannot be made or written: the data file is
\* not touched, and of the key file nothing more than KeyReadFails did.
FileFails(c) ==
  /\ spc[c] \in {"loading", "saving"}
  /\ Failure(c) /\ mishaps' = mishaps \cup {req[c].do}
  /\ UNCHANGED <<backend, keyring, fileVars, minted>>

Truncate(c) ==
  /\ spc[c] = "saving" /\ keyFile # 0
  /\ dataFile' = Vacant /\ spc' = [spc EXCEPT ![c] = "writing"]
  /\ UNCHANGED <<backend, keyring, keyFile, kept, rekeyed, holder, req, buf, res, minted, faults, mishaps>>

\* Part of the write has reached the file.
Part(c) ==
  /\ spc[c] = "writing" /\ dataFile.is = "empty"
  /\ dataFile' = Torn
  /\ UNCHANGED <<backend, keyring, keyFile, kept, rekeyed, callVars, minted, faults, mishaps>>

Write(c) ==
  /\ spc[c] = "writing"
  /\ dataFile' = [is |-> "sealed", under |-> keyFile, map |-> buf[c]]
  /\ kept' = Changed(kept, req[c]) /\ Answer(c, Ok(None))
  /\ rekeyed' = FALSE   \* nothing is left under an earlier key
  /\ UNCHANGED <<backend, keyring, keyFile, minted, faults, mishaps>>

WriteFails(c) ==
  /\ spc[c] = "writing" /\ Failure(c)
  /\ mishaps' = mishaps \cup {"cut", req[c].do}
  /\ UNCHANGED <<backend, keyring, fileVars, minted>>

\* The process ends: what it held in memory is gone, the files stay.
StoreDies ==
  /\ holder' = None /\ spc' = [c \in Calls |-> "idle"]
  /\ req' = [c \in Calls |-> NoRequest] /\ buf' = [c \in Calls |-> Nothing]
  /\ res' = [c \in Calls |-> NoAnswer]
  /\ mishaps' = IF \E c \in Calls : spc[c] = "writing" THEN mishaps \cup {"cut"} ELSE mishaps
  /\ UNCHANGED <<backend, keyring, fileVars, minted, faults>>

StoreStep(c) ==
  \/ Keyring(c) \/ KeyringFails(c) \/ Lock(c) \/ KeyReadFails(c)
  \/ MasterKey(c) \/ Load(c) \/ FileFails(c) \/ Truncate(c) \/ Part(c) \/ Write(c) \/ WriteFails(c)
-----------------------------------------------------------------------------
\* Type invariant of the store.
StoreTypeOK ==
  /\ backend \in {None, "keyring", "file"}
  /\ keyring \in [Refs -> Secrets \cup {None}] /\ kept \in [Refs -> Secrets \cup {None}]
  /\ keyFile \in Nat /\ minted \in Nat /\ faults \in Nat
  /\ dataFile \in [is : {"empty", "torn", "sealed"}, under : Nat,
                   map : [Refs -> Secrets \cup {None}]]
  /\ holder \in Calls \cup {None}
  /\ spc \in [Calls -> {"idle", "asked", "loading", "saving", "writing", "answered"}]
  /\ req \in [Calls -> [do : {"get", "set", "delete"}, ref : Refs \cup {None},
                        val : Secrets \cup {None}]]
  /\ buf \in [Calls -> [Refs -> Secrets \cup {None}]]
  /\ res \in [Calls -> [is : {"none", "ok", "missing", "failed"}, val : Secrets \cup {None}]]
  /\ mishaps \subseteq {"get", "set", "delete", "switch", "cut", "crossed"}
  /\ rekeyed \in BOOLEAN

\* load deciphers what is in the data file.
Opens == dataFile.is = "sealed" => keyFile # 0 /\ dataFile.under = keyFile

\* The data file is deciphered by the master key on disk, wherever the process
\* was stopped, also between the writes of the first key and of the data: the
\* key is written before the file, and only an error of reading it makes
\* masterKey replace it; save then seals the whole file under the new one
\* (fileStore.masterKey, save).
SealedUnderTheKey == ~rekeyed => Opens

\* Between calls the file holds what Set and Delete said they did, unless a
\* write of it was cut short: calls that overlap do not undo each other.  It
\* can be opened too, unless the key was replaced since it was written.
AcknowledgedStays ==
  ("cut" \notin mishaps /\ \A c \in Calls : ~Inside(c)) =>
     /\ dataFile.is # "torn" /\ dataFile.map = kept
     /\ ~rekeyed => Opens
-----------------------------------------------------------------------------
(* What a comment of the code says and the code does not do. *)

\* The master key is "generated on first use" (fallback_file.go:15-18): one read
\* of it that fails replaces it, and every secret is lost with the old one.
KeyIsGeneratedOnce == Opens
=============================================================================
