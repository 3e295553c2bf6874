------------------------------- MODULE Stats --------------------------------
(***************************************************************************)
(* The timing statistics of rules: workers fold the duration of each       *)
(* evaluation into the rule's moving average and may log a throttled       *)
(* warning, without locks, while /admin/rules reads the averages and       *)
(* flags the rules that are slow beside their peers.                       *)
(*                                                                         *)
(* An average is an integer and the smoothing factor 1/AlphaInv; a float's *)
(* rounding is that of the division. Evaluation counts only grow, so       *)
(* loading a count together with the average read after it loses nothing.  *)
(***************************************************************************)
EXTENDS Integers, Sequences, FiniteSets, SequencesExt

CONSTANTS
    Workers,       \* workers that share the statistics
    Rules,         \* rules of the snapshot
    Samples,       \* per rule: durations its evaluation may take
    AlphaInv,      \* 1/ewmaAlpha (20)
    MinEvals,      \* minEvalsForSlow (10)
    SlowFactor,    \* slowFactor (16)
    WarnInterval,  \* warnInterval (60 s)
    EventBudget,   \* the event timeout
    MaxObserves,   \* bound: evaluations
    MaxNow         \* bound: the clock

ASSUME StatsAssumption ==
    /\ IsFiniteSet(Rules) /\ Rules # {}
    /\ Samples \in [Rules -> SUBSET Nat]
    /\ {AlphaInv, MinEvals, SlowFactor, WarnInterval} \subseteq Nat \ {0}
    /\ {EventBudget, MaxObserves} \subseteq Nat
    /\ MaxNow \in Nat /\ MaxNow >= WarnInterval

VARIABLES
    evals,     \* per rule: evaluations observed
    avg,       \* per rule: the moving average, 0 before the first
    lastWarn,  \* per rule: time of the last warning
    w,         \* per worker: where it stands and its locals
    now,       \* the clock
    rep,       \* a request to /admin/rules: what it has read and flagged
    folded,    \* history, per rule: the durations folded in and the averages stored
    warns      \* history, per rule: the times of the warnings

vars == <<evals, avg, lastWarn, w, now, rep, folded, warns>>

RuleSeq == SetToSeq(Rules)
Idle == [pc |-> "idle", rule |-> RuleSeq[1], sample |-> 0, old |-> 0, now |-> 0, last |-> 0]
NoReport == [pc |-> "none", i |-> 1, peers |-> <<>>, thr |-> 0, flagged |-> {}, same |-> {}]

\* The clock is the Unix time: far beyond WarnInterval when the process starts.
Init ==
    /\ evals = [r \in Rules |-> 0]
    /\ avg = [r \in Rules |-> 0]
    /\ lastWarn = [r \in Rules |-> 0]
    /\ w = [k \in Workers |-> Idle]
    /\ now = WarnInterval
    /\ rep = NoReport
    /\ folded = [r \in Rules |-> <<>>]
    /\ warns = [r \in Rules |-> <<>>]

\* The average after one more sample; 0 counts as no average yet.
Blend(prev, sample) ==
    IF prev = 0 THEN sample ELSE prev + (sample - prev) \div AlphaInv

Observed == FoldSet(LAMBDA r, n : n + evals[r], 0, Rules)

-----------------------------------------------------------------------------
(* Observe.                                                                *)

\* An evaluation of rule r has ended after d: it is counted.
Observe(k, r, d) ==
    /\ w[k].pc = "idle"
    /\ Observed < MaxObserves
    /\ evals' = [evals EXCEPT ![r] = @ + 1]
    /\ w' = [w EXCEPT ![k] = [Idle EXCEPT !.pc = "load", !.rule = r, !.sample = d]]
    /\ UNCHANGED <<avg, lastWarn, now, rep, folded, warns>>

LoadAvg(k) ==
    /\ w[k].pc = "load"
    /\ w' = [w EXCEPT ![k].pc = "cas", ![k].old = avg[w[k].rule]]
    /\ UNCHANGED <<evals, avg, lastWarn, now, rep, folded, warns>>

\* A new average that takes in a sample is stored.
Fold(r, d, a) ==
    /\ avg' = [avg EXCEPT ![r] = a]
    /\ folded' = [folded EXCEPT ![r] = Append(@, [sample |-> d, avg |-> a])]

\* A defect: the new average is stored without comparing.
CasAvgBlind(k) ==
    LET r == w[k].rule
    IN /\ w[k].pc = "cas"
       /\ Fold(r, w[k].sample, Blend(w[k].old, w[k].sample))
       /\ w' = [w EXCEPT ![k] = [Idle EXCEPT !.pc = "check", !.rule = r]]
       /\ UNCHANGED <<evals, lastWarn, now, rep, warns>>

\* The average is replaced if it is still the one that was loaded; otherwise the
\* loop starts over.
CasAvg(k) ==
    LET r == w[k].rule
    IN /\ w[k].pc = "cas"
       /\ \/ /\ avg[r] = w[k].old
             /\ Fold(r, w[k].sample, Blend(w[k].old, w[k].sample))
             /\ w' = [w EXCEPT ![k] = [Idle EXCEPT !.pc = "check", !.rule = r]]
          \/ /\ avg[r] # w[k].old
             /\ w' = [w EXCEPT ![k].pc = "load"]
             /\ UNCHANGED <<avg, folded>>
       /\ UNCHANGED <<evals, lastWarn, now, rep, warns>>

-----------------------------------------------------------------------------
(* WarnIfSlow.                                                             *)

\* With enough samples the average is compared with a fair share of the budget,
\* which depends on how many rules the event matched.
WarnCheck(k) ==
    LET r == w[k].rule
    IN /\ w[k].pc = "check"
       /\ \E matched \in 1..Cardinality(Rules) :
             w' = [w EXCEPT ![k] =
                      IF evals[r] >= MinEvals /\ avg[r] > EventBudget \div matched
                      THEN [@ EXCEPT !.pc = "clock"] ELSE Idle]
       /\ UNCHANGED <<evals, avg, lastWarn, now, rep, folded, warns>>

ReadClock(k) ==
    /\ w[k].pc = "clock"
    /\ w' = [w EXCEPT ![k].pc = "last", ![k].now = now]
    /\ UNCHANGED <<evals, avg, lastWarn, now, rep, folded, warns>>

LoadLast(k) ==
    /\ w[k].pc = "last"
    /\ w' = [w EXCEPT ![k] = IF w[k].now - lastWarn[w[k].rule] < WarnInterval THEN Idle
                             ELSE [@ EXCEPT !.pc = "warn", !.last = lastWarn[w[k].rule]]]
    /\ UNCHANGED <<evals, avg, lastWarn, now, rep, folded, warns>>

\* A defect: the time is stored without comparing.
WarnBlind(k) ==
    LET r == w[k].rule
    IN /\ w[k].pc = "warn"
       /\ lastWarn' = [lastWarn EXCEPT ![r] = w[k].now]
       /\ warns' = [warns EXCEPT ![r] = Append(@, w[k].now)]
       /\ w' = [w EXCEPT ![k] = Idle]
       /\ UNCHANGED <<evals, avg, now, rep, folded>>

\* The worker that replaces the time of the last warning logs the next.
Warn(k) ==
    LET r == w[k].rule
    IN /\ w[k].pc = "warn"
       /\ \/ /\ lastWarn[r] = w[k].last
             /\ lastWarn' = [lastWarn EXCEPT ![r] = w[k].now]
             /\ warns' = [warns EXCEPT ![r] = Append(@, w[k].now)]
          \/ /\ lastWarn[r] # w[k].last
             /\ UNCHANGED <<lastWarn, warns>>
       /\ w' = [w EXCEPT ![k] = Idle]
       /\ UNCHANGED <<evals, avg, now, rep, folded>>

Tick ==
    /\ now < MaxNow
    /\ now' = now + 1
    /\ UNCHANGED <<evals, avg, lastWarn, w, rep, folded, warns>>

-----------------------------------------------------------------------------
(* /admin/rules.                                                           *)

\* The average at position k, counted from 0, when the averages are sorted.
Ranked(peers, k) ==
    CHOOSE a \in {peers[j].avg : j \in DOMAIN peers} :
        /\ Cardinality({j \in DOMAIN peers : peers[j].avg < a}) <= k
        /\ Cardinality({j \in DOMAIN peers : peers[j].avg <= a}) > k

\* A defect: the lower of the two middle values of an even number.
SlowRuleThresholdLow(peers) ==
    IF Len(peers) < 2 THEN 0 ELSE Ranked(peers, (Len(peers) - 1) \div 2) * SlowFactor

\* A multiple of the median of the averages read.
SlowRuleThreshold(peers) ==
    IF Len(peers) < 2 THEN 0 ELSE Ranked(peers, Len(peers) \div 2) * SlowFactor

\* One rule after the other, those with enough samples.
ReadPeer ==
    LET r == RuleSeq[rep.i]
        peers == IF evals[r] >= MinEvals
                 THEN Append(rep.peers, [rule |-> r, avg |-> avg[r]]) ELSE rep.peers
    IN /\ rep.pc = "none"
       /\ rep' = IF rep.i < Len(RuleSeq)
                 THEN [rep EXCEPT !.peers = peers, !.i = @ + 1]
                 ELSE [rep EXCEPT !.peers = peers, !.pc = "flag", !.i = 1,
                                  !.thr = SlowRuleThreshold(peers)]
       /\ UNCHANGED <<evals, avg, lastWarn, w, now, folded, warns>>

\* The averages are read once more, now of every rule, and compared. (`same` notes
\* the rules whose average is still the one the threshold was made of.)
Flag ==
    LET r == RuleSeq[rep.i]
    IN /\ rep.pc = "flag"
       /\ rep' = [rep EXCEPT
                    !.flagged = IF rep.thr > 0 /\ avg[r] > rep.thr THEN @ \cup {r} ELSE @,
                    !.same = IF \E j \in DOMAIN rep.peers :
                                   rep.peers[j] = [rule |-> r, avg |-> avg[r]]
                             THEN @ \cup {r} ELSE @,
                    !.i = IF @ < Len(RuleSeq) THEN @ + 1 ELSE @,
                    !.pc = IF rep.i < Len(RuleSeq) THEN @ ELSE "done"]
       /\ UNCHANGED <<evals, avg, lastWarn, w, now, folded, warns>>

-----------------------------------------------------------------------------
Worker(k) ==
    \/ LoadAvg(k) \/ CasAvg(k) \/ WarnCheck(k)
    \/ ReadClock(k) \/ LoadLast(k) \/ Warn(k)

Next ==
    \/ \E k \in Workers, r \in Rules : \E d \in Samples[r] : Observe(k, r, d)
    \/ \E k \in Workers : Worker(k)
    \/ Tick
    \/ ReadPeer \/ Flag

Spec == Init /\ [][Next]_vars

-----------------------------------------------------------------------------
(* Properties.                                                             *)

Folding(r) == {k \in Workers : w[k].rule = r /\ w[k].pc \in {"load", "cas"}}

\* What the variables hold; at most one report is followed.
TypeOK ==
    /\ evals \in [Rules -> Nat]
    /\ avg \in [Rules -> Nat]
    /\ lastWarn \in [Rules -> {0} \cup WarnInterval..MaxNow]
    /\ \A k \in Workers : w[k].rule \in Rules /\ w[k].sample \in Samples[w[k].rule] \cup {0}
    /\ Len(rep.peers) <= Len(RuleSeq) /\ rep.i \in DOMAIN RuleSeq
    /\ rep.flagged \cup rep.same \subseteq Rules

\* The average after i samples of rule r.
AvgAfter(r, i) == IF i = 0 THEN 0 ELSE folded[r][i].avg

\* No observation is lost or counted twice when workers race: each average that
\* was stored blends one sample into the one stored before it, avg is the last of
\* them, and the count is ahead of it by the workers that are still folding theirs
\* in.
NoSampleLost ==
    /\ TypeOK
    /\ \A r \in Rules :
          /\ \A i \in 1..Len(folded[r]) :
                folded[r][i].avg = Blend(AvgAfter(r, i - 1), folded[r][i].sample)
          /\ avg[r] = AvgAfter(r, Len(folded[r]))
          /\ evals[r] = Len(folded[r]) + Cardinality(Folding(r))

\* Warnings about one rule carry times at least WarnInterval apart, though every
\* worker that evaluates the rule may be about to log one, with a clock it read
\* long ago.
WarnsApart ==
    \A r \in Rules : \A i \in 2..Len(warns[r]) :
        warns[r][i] - warns[r][i - 1] >= WarnInterval

\* A flagged rule has a peer group of at least two, and those flagged for the
\* average that the threshold was made of are fewer than half of the group: with
\* two rules, none.
SlowIsMinority ==
    /\ rep.flagged # {} => Len(rep.peers) >= 2
    /\ LET steady == rep.flagged \cap rep.same
       IN steady # {} => 2 * Cardinality(steady) < Len(rep.peers)
=============================================================================
