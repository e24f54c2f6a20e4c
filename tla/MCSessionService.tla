-------------------------- MODULE MCSessionService --------------------------
(* SessionService on small instances.                                       *)
EXTENDS SessionService, TLC

Interchangeable == Permutations(Sessions)
=============================================================================
