------------------------------ MODULE MCZmodem ------------------------------
(* Zmodem on small instances.                                               *)
EXTENDS Zmodem, TLC

Interchangeable == Permutations(Transfers)
=============================================================================
