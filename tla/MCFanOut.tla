------------------------------ MODULE MCFanOut ------------------------------
(* FanOut on small instances.                                               *)
EXTENDS FanOut, TLC

CONSTANTS c1, c2, k1, k2, s1, s2, h1, h2, old, other

\* Pairing and the first authentication; clients that come and go; one client that
\* opens sessions under its scope, and one that replaces its scope; two clients, one
\* of which has a scope; a call of a client that leaves.
Scene(of1, of2, ks, ends) ==
  [frames |-> c1 :> of1 @@ c2 :> of2, calls |-> ks, ends |-> ends]
AllScenes ==
  {Scene({"pair"}, {c1}, {}, TRUE),
   Scene({"unknown", old}, {old}, {}, TRUE),
   Scene({old}, {}, {s1, k1, k2}, FALSE),
   Scene({old}, {}, {s1, s2, k1}, FALSE),
   Scene({old}, {other}, {s1, k1}, FALSE),
   Scene({old}, {}, {k1}, TRUE)}

AsksOfCalls == k1 :> h1 @@ k2 :> h1 @@ s1 :> {h1} @@ s2 :> {h2}
=============================================================================
