------------------------------ MODULE MCAppData ------------------------------
(***************************************************************************)
(* Three calls and up to three starts of the application.  Each scene      *)
(* aims at one meeting: two first captures, a capture and a secret in one  *)
(* file, a host deleted while its secret is set or the host is edited.     *)
(***************************************************************************)
EXTENDS AppData, TLC

CONSTANTS x, y, z

MCCalls == {x, y, z}
MCRefs == {Host, OutputKey}

Does(opX, opY, opZ, hosts, backends) ==
  [op |-> (x :> opX @@ y :> opY @@ z :> opZ), hosts |-> hosts, backends |-> backends]

Stored == {Host}
File == {"file"}
Keychain == {"keyring"}

MCScenes ==
  {Does("attach", "attach", "read", {}, File),
   Does("attach", "attach", "read", {}, Keychain),
   Does("attach", "secret", "test", Stored, File),
   Does("create", "secret", "delete", {}, File),
   Does("edit", "secret", "delete", Stored, Keychain),
   Does("attach", "secret", "delete", Stored, File),
   Does("create", "edit", "test", {}, File),
   Does("attach", "secret", "delete", Stored, File \cup Keychain)}

\* A new file, one an older version left, a current one, and one whose tables
\* are ahead of its number.
MCDatabases ==
  {[says |-> 0, has |-> 0], [says |-> 2, has |-> 4], [says |-> 5, has |-> 5],
   [says |-> 5, has |-> 6], [says |-> 6, has |-> 6]}
=============================================================================
