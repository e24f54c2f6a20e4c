------------------------------ MODULE MCShare ------------------------------
(* Share on small instances.                                                *)
EXTENDS Share, TLC

\* Calls of the user, peers' requests and addresses differ by their names alone.
Symmetry == Permutations(Gui) \cup Permutations(Requests) \cup Permutations(Interfaces)
=============================================================================
