------------------------------ MODULE RuleSet -------------------------------
(***************************************************************************)
(* A snapshot of compiled rules as pure functions: the sort by priority,   *)
(* the index by event type, and the verdict of the rules that trigger.     *)
(*                                                                         *)
(* A rule is a record: its id, its event type ("*" for any), its priority, *)
(* its lowered match, its verdict, and the counter it reads: it triggers   *)
(* when the counter has reached `limit` (0: no counter, it triggers always *)
(* when its prefilter passes).                                             *)
(***************************************************************************)
EXTENDS Match

\* sort.Slice is not stable: any order that does not increase the priority.
SortedRules(S) ==
    {s \in SetToSeqs(S) : \A i, j \in DOMAIN s : i < j => s[i].prio >= s[j].prio}

\* The two indexes move along a and b; a wins a tie.
mergeByPriority(a, b) ==
    LET m[n \in 0..(Len(a) + Len(b))] ==
            IF n = 0 THEN [i |-> 1, j |-> 1, out |-> <<>>]
            ELSE LET s == m[n - 1]
                 IN IF s.i <= Len(a) /\ (s.j > Len(b) \/ a[s.i].prio >= b[s.j].prio)
                    THEN [i |-> s.i + 1, j |-> s.j, out |-> Append(s.out, a[s.i])]
                    ELSE [i |-> s.i, j |-> s.j + 1, out |-> Append(s.out, b[s.j])]
    IN m[Len(a) + Len(b)].out

OfType(rules, t) ==
    LET of[n \in 0..Len(rules)] ==
            IF n = 0 THEN <<>>
            ELSE IF rules[n].type = t THEN Append(of[n - 1], rules[n]) ELSE of[n - 1]
    IN of[Len(rules)]

\* Types with rules of their own get those merged with the wildcard rules; any
\* other type gets the wildcard rules alone.
buildIndex(rules) ==
    [wildcard |-> OfType(rules, "*"),
     byType |-> [t \in {r.type : r \in ToSet(rules)} \ {"*"} |->
                    mergeByPriority(OfType(rules, t), OfType(rules, "*"))]]

RulesForEvent(idx, t) == IF t \in DOMAIN idx.byType THEN idx.byType[t] ELSE idx.wildcard

VerdictWeight(v) == CASE v = "block" -> 3 [] v = "review" -> 2 [] v = "approve" -> 1

\* A defect: the first of the highest priority wins.
BeatsFirst(x, best) == x.prio > best.prio

Beats(x, best) ==
    \/ x.prio > best.prio
    \/ x.prio = best.prio /\ VerdictWeight(x.verdict) > VerdictWeight(best.verdict)

\* One pass over the rules that triggered; none means approve.
resolveVerdict(triggered) ==
    LET best[n \in 1..Len(triggered)] ==
            IF n > 1 /\ ~Beats(triggered[n], best[n - 1]) THEN best[n - 1] ELSE triggered[n]
    IN IF triggered = <<>> THEN "approve" ELSE best[Len(triggered)].verdict
=============================================================================
