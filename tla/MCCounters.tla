----------------------------- MODULE MCCounters -----------------------------
(***************************************************************************)
(* Counters with buckets of two seconds and a ring of two slots: the ring  *)
(* wraps after four seconds, so reuse, ageing and eviction all happen. One *)
(* window is a second shorter than the ring, the other as long as it.      *)
(***************************************************************************)
EXTENDS Counters, TLC

CONSTANTS w1, w2

MCWindows == {3, 4}
MCSymmetry == Permutations({w1, w2})
=============================================================================
