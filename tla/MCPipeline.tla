----------------------------- MODULE MCPipeline -----------------------------
(***************************************************************************)
(* Pipeline on small instances. The first two requests carry the same      *)
(* event_id; the third has one of its own.                                 *)
(***************************************************************************)
EXTENDS Pipeline, TLC

CONSTANTS r1, r2, r3, w1, w2

MCRequests2 == {r1, r2}
MCRequests3 == {r1, r2, r3}
MCIds == {"a", "b"}
MCIdOf == [r \in Requests |-> IF r = r3 THEN "b" ELSE "a"]

MCBlock == {[verdict |-> "block", failed |-> FALSE]}
MCMixed == {[verdict |-> "approve", failed |-> FALSE],
            [verdict |-> "review", failed |-> FALSE]}

\* Workers are interchangeable, and so are the requests that share an event_id.
MCSymmetry == {f @@ g : f \in Permutations(Workers), g \in Permutations({r1, r2})}
=============================================================================
