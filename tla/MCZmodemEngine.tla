--------------------------- MODULE MCZmodemEngine ---------------------------
(* A file of three blocks, one of none and one of one, and the lines to try. *)
EXTENDS ZmodemEngine

SomeFiles == <<3, 0, 1>>
ThreeBlocks == <<3>>

\* Damage that is repaired, everything but loss and lateness, and everything.
AllLines == {{"block"}, Troubles \ {"loss", "slow"}, Troubles}
LossyLine == {{"loss"}}
LastDamaged == {{"last"}}
=============================================================================
