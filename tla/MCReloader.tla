----------------------------- MODULE MCReloader -----------------------------
(* Reloader with two files. c1 and c2 are two versions of one rule, c3 is  *)
(* another rule, cBad does not compile: a directory may load, hold a bad   *)
(* file, or hold one rule_id twice.                                        *)
EXTENDS Reloader, TLC

CONSTANTS c1, c2, c3, cBad

MCRuleId == (c1 :> "r1") @@ (c2 :> "r1") @@ (c3 :> "r2") @@ (cBad :> "r1")
=============================================================================
