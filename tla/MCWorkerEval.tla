---------------------------- MODULE MCWorkerEval ----------------------------
(* WorkerEval with three events and two snapshots of different length.     *)
EXTENDS WorkerEval

MCVersions == 1..2
MCRuleCount == [v \in Versions |-> IF v = 1 THEN 2 ELSE 1]
=============================================================================
