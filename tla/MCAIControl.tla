---------------------------- MODULE MCAIControl ----------------------------
(* Instances of AIControl for TLC.                                          *)
EXTENDS AIControl, TLC

\* Calls, and clients, differ only in their names.
Symmetry == Permutations(Calls) \cup Permutations(Clients)

OnSessions == AllOps \ {"ConnectHost"}
EveryOp == AllOps
RunAndRevoke == {"RequestControl", "RunCommand", "KillControl"}
=============================================================================
