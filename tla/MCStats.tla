------------------------------ MODULE MCStats -------------------------------
(***************************************************************************)
(* Two workers and three rules, one of them slow, one only at times.       *)
(***************************************************************************)
EXTENDS Stats, TLC

CONSTANTS r1, r2, r3, k1, k2
MCRules == {r1, r2, r3}
MCWorkers == {k1, k2}
MCSamples == r1 :> {1} @@ r2 :> {1, 6} @@ r3 :> {6}
=============================================================================
