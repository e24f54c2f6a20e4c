------------------------------- MODULE Schema -------------------------------
(***************************************************************************)
(* Opening the database (src/internal/adapter/out/sqlite/db.go,            *)
(* migrate.go): the statements of the migrations the file has not seen,    *)
(* each committed by itself, and user_version written after the last.      *)
(***************************************************************************)
EXTENDS Naturals, Sequences

CONSTANTS Databases,   \* what may be found on disk: the version it says, and
                       \* the version its tables really have
          MaxStarts    \* bound: how often the application is started

VARIABLES proc,     \* the process: down, migrating, up; refused by Open
          starts,
          version,  \* PRAGMA user_version
          schema,   \* tables, indexes and columns in the file
          todo      \* statements the running migrate has not executed

diskVars == <<version, schema>>
schemaVars == <<proc, starts, diskVars, todo>>
-----------------------------------------------------------------------------
\* A statement of migration v makes one object, in a table that must be there.
Table(v, t) == [v |-> v, makes |-> t, needs |-> "nothing", adds |-> "table"]
Index(v, i, t) == [v |-> v, makes |-> i, needs |-> t, adds |-> "index"]
Column(v, c, t) == [v |-> v, makes |-> c, needs |-> t, adds |-> "column"]

migrateV1 ==
  <<Table(1, "hosts"), Table(1, "command_history"),
    Index(1, "idx_history_recent", "command_history"), Table(1, "known_hosts")>>
migrateV2 ==
  <<Table(2, "share_peers"), Table(2, "share_clients"),
    Index(2, "idx_share_clients_token_hash", "share_clients"), Table(2, "share_settings")>>
migrateV3 == <<Table(3, "app_settings")>>
migrateV4 ==
  <<Table(4, "mcp_clients"), Index(4, "idx_mcp_clients_token_hash", "mcp_clients")>>
migrateV5 == <<Table(5, "mcp_audit"), Index(5, "idx_audit_session", "mcp_audit")>>
migrateV6 == <<Column(6, "output_ref", "mcp_audit")>>

schemaVersion == 6
Statements == migrateV1 \o migrateV2 \o migrateV3 \o migrateV4 \o migrateV5 \o migrateV6

ASSUME DatabasesAreOlder ==
  /\ Databases \subseteq [says : 0..schemaVersion, has : 0..schemaVersion]
  /\ \A d \in Databases : d.says <= d.has

Built(v, objects) ==
  \A i \in DOMAIN Statements : Statements[i].v <= v => Statements[i].makes \in objects
ObjectsOf(v) == {Statements[i].makes : i \in {j \in DOMAIN Statements : Statements[j].v <= v}}

SchemaInit ==
  \E d \in Databases :
    /\ version = d.says /\ schema = ObjectsOf(d.has)
    /\ proc = "down" /\ starts = 0 /\ todo = {}

\* Open reads user_version and selects the migrations above it.
OpenDatabase ==
  /\ proc = "down" /\ starts < MaxStarts
  /\ proc' = "migrating" /\ starts' = starts + 1
  /\ todo' = {i \in DOMAIN Statements : Statements[i].v > version}
  /\ UNCHANGED diskVars

\* Tables and indexes say IF NOT EXISTS; migrateV6 looks for its column.
\* Mutant: the column is added without looking.
NeverExists(s) == s.adds # "column" /\ s.makes \in schema
Exists(s) == s.makes \in schema

Possible(s) ==
  /\ s.needs = "nothing" \/ s.needs \in schema
  /\ ~(s.adds = "column" /\ s.makes \in schema)

ExecuteStatement ==
  /\ proc = "migrating"
  /\ \E i \in todo :
       LET s == Statements[i]
       IN  /\ \A j \in todo : i <= j
           /\ IF Exists(s) \/ Possible(s)
                THEN /\ schema' = schema \cup {s.makes}
                     /\ todo' = todo \ {i} /\ UNCHANGED proc
                ELSE proc' = "refused" /\ UNCHANGED <<schema, todo>>
  /\ UNCHANGED <<starts, version>>

WriteVersion ==
  /\ proc = "migrating" /\ todo = {}
  /\ version' = schemaVersion
  /\ UNCHANGED <<starts, schema, todo>>
=============================================================================
