----------------------------- MODULE MCCluster ------------------------------
(***************************************************************************)
(* Three nodes, queues of one. At the first node a batch with a bad line,  *)
(* two lines for the second node and one of its own; at the third node a   *)
(* single event, also forwarded to the second node, which has another idea *)
(* of who owns it.                                                         *)
(***************************************************************************)
EXTENDS Cluster, TLC

CONSTANTS n1, n2, n3, r1, r2

\* The second entity is also a derivation of the first.
k1 == <<"a">>
k2 == <<"a", ":", "x">>

MCNodes == {n1, n2, n3}
MCKeys == {k1, k2}
MCCounterKeys == {k1, k2, <<"a", ":", "y">>}
MCRequests == {r1, r2}
MCBatches == {r1}
MCAt == r1 :> n1 @@ r2 :> n3
MCBody == r1 :> <<BadLine, k1, k1, k2>> @@ r2 :> <<k2>>
MCView == [n \in MCNodes |-> k1 :> n2 @@ k2 :> IF n = n3 THEN n2 ELSE n1]
=============================================================================
