-------------------------- MODULE MCCommandOutput --------------------------
(* CommandOutput on small instances.                                        *)
EXTENDS CommandOutput, TLC

CONSTANTS r1, r2, r3, r4, u1, q1, b1, j1

\* A session of each kind, with the calls that matter for it.
AllScenes ==
  {[kind |-> "ssh", calls |-> {q1, j1}], [kind |-> "bash", calls |-> {u1}],
   [kind |-> "bash", calls |-> {j1}], [kind |-> "alien", calls |-> {u1, j1}],
   [kind |-> "unknown", calls |-> {r4}],
   [kind |-> "powershell", calls |-> {r1, r3}],
   [kind |-> "powershell", calls |-> {r2, b1}]}
=============================================================================
