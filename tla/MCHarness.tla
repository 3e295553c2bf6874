------------------------------ MODULE MCHarness -----------------------------
(***************************************************************************)
(* The harness on a stream of a post, its deletion, a like, and the post   *)
(* created again; -max-events is reached before the last.                  *)
(***************************************************************************)
EXTENDS Harness, TLC

m1 == [did |-> "d1", coll |-> "post", rkey |-> "k1", op |-> "create", nr |-> 1]
m2 == [did |-> "d2", coll |-> "like", rkey |-> "k1", op |-> "create", nr |-> 2]
m3 == [did |-> "d1", coll |-> "post", rkey |-> "k1", op |-> "delete", nr |-> 3]

m4 == [did |-> "d1", coll |-> "post", rkey |-> "k1", op |-> "create", nr |-> 4]

MCStream == <<m1, m3, m2, m4>>
MCRequests == {m1, m2, m4} \X (1..PostAttempts)
MCIdOf == [r \in Requests |-> <<r[1].did, r[1].coll, r[1].rkey>>]
MCVerdictOf == [r \in Requests |-> IF r[1] = m1 THEN "block" ELSE "approve"]
=============================================================================
