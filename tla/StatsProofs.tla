---------------------------- MODULE StatsProofs -----------------------------
(***************************************************************************)
(* Machine-checked proofs about Stats: no sample is lost, warnings are     *)
(* apart and few rules are slow, for every number of workers and rules.    *)
(***************************************************************************)
EXTENDS Stats, FunctionTheorems, FiniteSetTheorems, TLAPS

-----------------------------------------------------------------------------
(* The operators the model is built from.                                  *)

\* A sequence of a set's members, each once: the rules in the snapshot's order.
LEMMA RuleSeqFacts ==
    /\ RuleSeq \in Seq(Rules)
    /\ Len(RuleSeq) \in Nat \ {0}
    /\ DOMAIN RuleSeq = 1..Len(RuleSeq)
    /\ \A i \in DOMAIN RuleSeq : RuleSeq[i] \in Rules
    /\ \A i, j \in DOMAIN RuleSeq : RuleSeq[i] = RuleSeq[j] => i = j
    /\ Idle.rule \in Rules
<1> DEFINE n == Cardinality(Rules)
           F == {f \in [1..n -> Rules] : IsInjective(f)}
<1>1. n \in Nat /\ ExistsBijection(1..n, Rules)
  BY FS_CardinalityType, StatsAssumption
<1>2. n # 0
  BY FS_EmptySet, StatsAssumption
<1>3. PICK g : g \in Bijection(1..n, Rules)
  BY <1>1 DEF ExistsBijection
<1>4. g \in F
  BY <1>3 DEF Bijection, Injection, IsInjective
<1>5. RuleSeq \in F
  <2>1. RuleSeq = CHOOSE f \in [1..n -> Rules] : IsInjective(f)
    BY DEF RuleSeq, SetToSeq
  <2>2. \E f \in [1..n -> Rules] : IsInjective(f)
    BY <1>4
  <2> QED BY <2>1, <2>2
<1>6. RuleSeq \in [1..n -> Rules]
      /\ \A i, j \in DOMAIN RuleSeq : RuleSeq[i] = RuleSeq[j] => i = j
  BY <1>5 DEF IsInjective
<1> HIDE DEF n, F
<1>7. RuleSeq \in Seq(Rules) /\ Len(RuleSeq) = n
  BY <1>1, <1>6
<1> QED BY <1>1, <1>2, <1>6, <1>7 DEF Idle

\* Products keep the order.
LEMMA MulFacts ==
    ASSUME NEW x \in Int, NEW y \in Int, NEW b \in Nat \ {0}, x <= y
    PROVE  x * b <= y * b
  OBVIOUS

\* An average of durations is a duration.
LEMMA BlendNat ==
    ASSUME NEW p \in Nat, NEW s \in Nat
    PROVE  Blend(p, s) \in Nat
<1> DEFINE A == AlphaInv
           q == (s - p) \div A
<1>1. A \in Nat \ {0}
  BY StatsAssumption
<1>2. s - p \in Int
  OBVIOUS
<1> HIDE DEF A
<1>3. q \in Int /\ s - p < q * A + A
  <2> DEFINE d == s - p
  <2>1. d \in Int
    OBVIOUS
  <2> HIDE DEF d
  <2>2. d \div A \in Int /\ d < (d \div A) * A + A
    BY <1>1, <2>1
  <2> QED BY <2>2 DEF d
<1> HIDE DEF q
<1>4. q >= -p
  <2> SUFFICES ASSUME q <= -p - 1 PROVE FALSE
    BY <1>3
  <2>1. q * A <= (-p - 1) * A
    BY <1>1, <1>3, MulFacts
  <2>2. (-p - 1) * A = -(p * A) - A /\ p * A \in Int
    BY <1>1
  <2>3. p * A >= p
    BY <1>1
  <2>4. q * A \in Int
    BY <1>1, <1>3
  <2> QED BY <1>1, <1>3, <2>1, <2>2, <2>3, <2>4
<1>5. p + q \in Nat
  BY <1>3, <1>4
<1> QED BY <1>5 DEF Blend, q, A

-----------------------------------------------------------------------------
(* The inductive invariant.                                                *)

Times == WarnInterval..MaxNow
Fold1 == [sample : Nat, avg : Nat]
Steps == {"idle", "load", "cas", "check", "clock", "last", "warn"}
WState == [pc : Steps, rule : Rules, sample : Nat, old : Nat, now : Nat, last : Nat]

\* What a worker holds: a sample its rule may take, a time the clock has shown, and
\* before it warns, a last warning old enough.
Standing(x) ==
    /\ x \in WState
    /\ x.sample \in Samples[x.rule] \cup {0}
    /\ x.pc \in {"last", "warn"} => x.now \in Times
    /\ x.pc = "warn" => x.now - x.last >= WarnInterval

\* What the rules' statistics are and what was done to them.
Shape ==
    /\ evals \in [Rules -> Nat]
    /\ avg \in [Rules -> Nat]
    /\ lastWarn \in [Rules -> {0} \cup Times]
    /\ now \in Times
    /\ folded \in [Rules -> Seq(Fold1)]
    /\ warns \in [Rules -> Seq(Times)]

Standings ==
    /\ w \in [Workers -> WState]
    /\ \A k \in Workers : Standing(w[k])

\* The report has read fewer rules than the one it is at.
Reporting ==
    /\ rep = [pc |-> rep.pc, i |-> rep.i, peers |-> rep.peers, thr |-> rep.thr,
              flagged |-> rep.flagged, same |-> rep.same]
    /\ rep.i \in DOMAIN RuleSeq
    /\ rep.peers \in Seq([rule : Rules, avg : Nat])
    /\ rep.pc = "none" => Len(rep.peers) < rep.i
    /\ Len(rep.peers) <= Len(RuleSeq)
    /\ rep.flagged \subseteq Rules /\ rep.same \subseteq Rules

\* The count is ahead of the averages stored by the workers that fold one in.
Counted(r) ==
    /\ IsFiniteSet(Folding(r))
    /\ evals[r] = Len(folded[r]) + Cardinality(Folding(r))

Chain(r) ==
    /\ \A i \in 1..Len(folded[r]) :
          folded[r][i].avg = Blend(AvgAfter(r, i - 1), folded[r][i].sample)
    /\ avg[r] = AvgAfter(r, Len(folded[r]))

\* lastWarn is the time of the last warning, and each is apart from the one before.
Warned(r) ==
    /\ lastWarn[r] = IF Len(warns[r]) = 0 THEN 0 ELSE warns[r][Len(warns[r])]
    /\ \A i \in 2..Len(warns[r]) : warns[r][i] - warns[r][i - 1] >= WarnInterval

\* What the report has flagged it flagged against the threshold of its peers, each
\* rule once: what is steady was a peer above it.
Flagging ==
    /\ rep.pc \in {"none", "flag", "done"}
    /\ rep.pc = "none" => rep.flagged = {} /\ rep.same = {}
    /\ rep.pc # "none" => rep.thr = SlowRuleThreshold(rep.peers)
    /\ rep.flagged # {} => rep.thr > 0
    /\ \A r \in rep.flagged \cup rep.same : \E m \in DOMAIN RuleSeq :
          RuleSeq[m] = r /\ (m < rep.i \/ rep.pc = "done")
    /\ \A r \in rep.flagged \cap rep.same : \E j \in DOMAIN rep.peers :
          rep.peers[j].rule = r /\ rep.peers[j].avg > rep.thr

IInv ==
    /\ Shape
    /\ Standings
    /\ Reporting
    /\ \A r \in Rules : Counted(r) /\ Chain(r) /\ Warned(r)

-----------------------------------------------------------------------------
(* A worker's move.                                                        *)

Folds(x, r) == x.rule = r /\ x.pc \in {"load", "cas"}

\* A worker that moves leaves the others where they are and changes the number of
\* workers that fold a sample of a rule by itself.
LEMMA WorkerMoves ==
    ASSUME IInv, NEW k \in Workers, NEW x, Standing(x), w' = [w EXCEPT ![k] = x]
    PROVE  /\ Standings'
           /\ \A r \in Rules :
                /\ IsFiniteSet(Folding(r)')
                /\ Cardinality(Folding(r)) \in Nat
                /\ Cardinality(Folding(r)') =
                     Cardinality(Folding(r)) + (IF Folds(x, r) THEN 1 ELSE 0)
                                             - (IF Folds(w[k], r) THEN 1 ELSE 0)
<1>1. w \in [Workers -> WState] /\ x \in WState
  BY DEF IInv, Standings, Standing
<1>2. Standings'
  <2>1. w' \in [Workers -> WState]
    BY <1>1
  <2>2. ASSUME NEW v \in Workers PROVE Standing(w[v])'
    <3>1. CASE v = k
      <4>1. w'[v] = x
        BY <1>1, <3>1
      <4> QED BY <4>1 DEF Standing
    <3>2. CASE v # k
      <4>1. w'[v] = w[v]
        BY <1>1, <3>2
      <4> QED BY <4>1 DEF IInv, Standings, Standing
    <3> QED BY <3>1, <3>2
  <2> QED BY <2>1, <2>2 DEF Standings
<1>3. ASSUME NEW r \in Rules
      PROVE  /\ IsFiniteSet(Folding(r)')
             /\ Cardinality(Folding(r)) \in Nat
             /\ Cardinality(Folding(r)') =
                  Cardinality(Folding(r)) + (IF Folds(x, r) THEN 1 ELSE 0)
                                          - (IF Folds(w[k], r) THEN 1 ELSE 0)
  <2> DEFINE S == Folding(r)
  <2>1. IsFiniteSet(S)
    BY DEF IInv, Counted
  <2>2. k \in S <=> Folds(w[k], r)
    BY <1>1 DEF Folding, Folds
  <2>3. Folding(r)' = IF Folds(x, r) THEN S \cup {k} ELSE S \ {k}
    BY <1>1 DEF Folding, Folds
  <2>4. Cardinality(S) \in Nat
    BY <2>1, FS_CardinalityType
  <2>5. /\ IsFiniteSet(S \cup {k})
        /\ Cardinality(S \cup {k}) =
             IF k \in S THEN Cardinality(S) ELSE Cardinality(S) + 1
    BY <2>1, FS_AddElement
  <2>6. /\ IsFiniteSet(S \ {k})
        /\ Cardinality(S \ {k}) =
             IF k \in S THEN Cardinality(S) - 1 ELSE Cardinality(S)
    BY <2>1, FS_RemoveElement
  <2> HIDE DEF S
  <2>7. IsFiniteSet(Folding(r)')
    BY <2>3, <2>5, <2>6
  <2>8. Cardinality(Folding(r)') =
          Cardinality(S) + (IF Folds(x, r) THEN 1 ELSE 0)
                         - (IF Folds(w[k], r) THEN 1 ELSE 0)
    <3>1. CASE Folds(x, r)
      BY <2>2, <2>3, <2>4, <2>5, <3>1
    <3>2. CASE ~Folds(x, r)
      BY <2>2, <2>3, <2>4, <2>6, <3>2
    <3> QED BY <3>1, <3>2
  <2> QED BY <2>4, <2>7, <2>8 DEF S
<1> QED BY <1>2, <1>3

\* A worker that moves on within its loop, or after it, leaves the statistics'
\* facts as they are.
LEMMA WorkerOnly ==
    ASSUME IInv, NEW k \in Workers, NEW x, Standing(x), w' = [w EXCEPT ![k] = x],
           \A r \in Rules : Folds(x, r) <=> Folds(w[k], r),
           UNCHANGED <<evals, avg, lastWarn, now, rep, folded, warns>>
    PROVE  IInv'
<1>1. /\ Standings'
      /\ \A r \in Rules : /\ IsFiniteSet(Folding(r)')
                          /\ Cardinality(Folding(r)) \in Nat
                          /\ Cardinality(Folding(r)') = Cardinality(Folding(r))
  <2> DEFINE C(r) == Cardinality(Folding(r))
             D(r) == Cardinality(Folding(r)')
  <2>1. /\ Standings'
        /\ \A r \in Rules : /\ IsFiniteSet(Folding(r)')
                            /\ C(r) \in Nat
                            /\ D(r) = C(r) + (IF Folds(x, r) THEN 1 ELSE 0)
                                           - (IF Folds(w[k], r) THEN 1 ELSE 0)
    BY WorkerMoves
  <2> HIDE DEF C, D
  <2>2. ASSUME NEW r \in Rules PROVE D(r) = C(r)
    BY <2>1
  <2> QED BY <2>1, <2>2 DEF C, D
<1>2. \A r \in Rules : Counted(r)'
  BY <1>1 DEF IInv, Counted
<1>3. \A r \in Rules : Chain(r)' /\ Warned(r)'
  BY DEF IInv, Chain, Warned, AvgAfter
<1>4. Shape' /\ Reporting'
  BY DEF IInv, Shape, Reporting
<1> QED BY <1>1, <1>2, <1>3, <1>4 DEF IInv

\* A worker at rest on a rule stands as it may.
LEMMA AtRest ==
    ASSUME NEW r \in Rules, NEW p \in {"idle", "check"}
    PROVE  /\ Standing(Idle)
           /\ Standing([Idle EXCEPT !.pc = p, !.rule = r])
           /\ [Idle EXCEPT !.pc = p, !.rule = r].pc = p
           /\ \A q \in Rules : ~Folds(Idle, q)
           /\ \A q \in Rules : ~Folds([Idle EXCEPT !.pc = p, !.rule = r], q)
  BY RuleSeqFacts DEF Standing, WState, Steps, Idle, Folds

-----------------------------------------------------------------------------
(* The steps.                                                              *)

\* Initially nothing was observed and nobody works.
LEMMA InitIInv == Init => IInv
<1> SUFFICES ASSUME Init PROVE IInv
  OBVIOUS
<1> USE DEF Init
<1>1. Shape
  BY StatsAssumption DEF Shape, Times
<1>2. Standings
  <2>1. Standing(Idle)
    BY StatsAssumption, AtRest
  <2> QED BY <2>1 DEF Standings, Standing
<1>3. Reporting
  BY RuleSeqFacts DEF Reporting, NoReport
<1>4. ASSUME NEW r \in Rules PROVE Counted(r) /\ Chain(r) /\ Warned(r)
  <2>1. Folding(r) = {}
    BY DEF Folding, Idle
  <2>2. Counted(r)
    BY <2>1, FS_EmptySet DEF Counted
  <2>3. Chain(r)
    BY DEF Chain, AvgAfter
  <2>4. Warned(r)
    BY DEF Warned
  <2> QED BY <2>2, <2>3, <2>4
<1> QED BY <1>1, <1>2, <1>3, <1>4 DEF IInv

\* An evaluation that is counted joins the workers that fold a sample in.
LEMMA ObserveStep ==
    ASSUME IInv, NEW k \in Workers, NEW r \in Rules, NEW d \in Samples[r], Observe(k, r, d)
    PROVE  IInv'
<1> DEFINE x == [Idle EXCEPT !.pc = "load", !.rule = r, !.sample = d]
<1>1. Standing(x) /\ \A q \in Rules : Folds(x, q) <=> q = r
  BY StatsAssumption, RuleSeqFacts DEF Standing, WState, Steps, Idle, Folds
<1>2. \A q \in Rules : ~Folds(w[k], q)
  BY DEF Observe, Folds
<1>3. w' = [w EXCEPT ![k] = x] /\ evals' = [evals EXCEPT ![r] = @ + 1]
      /\ UNCHANGED <<avg, lastWarn, now, rep, folded, warns>>
  BY DEF Observe
<1> HIDE DEF x
<1> DEFINE C(q) == Cardinality(Folding(q))
           D(q) == Cardinality(Folding(q)')
<1>4. /\ Standings'
      /\ \A q \in Rules : /\ IsFiniteSet(Folding(q)')
                          /\ C(q) \in Nat
                          /\ D(q) = C(q) + (IF Folds(x, q) THEN 1 ELSE 0)
                                         - (IF Folds(w[k], q) THEN 1 ELSE 0)
  BY <1>1, <1>3, WorkerMoves
<1>5. Shape
  BY DEF IInv
<1>6. ASSUME NEW q \in Rules PROVE Counted(q)'
  <2>1. evals[q] = Len(folded[q]) + C(q) /\ Len(folded[q]) \in Nat
    BY <1>5 DEF IInv, Counted, Shape
  <2>2. evals'[q] = evals[q] + (IF q = r THEN 1 ELSE 0) /\ folded' = folded
    BY <1>3, <1>5 DEF Shape
  <2> HIDE DEF C, D
  <2>3. D(q) = C(q) + (IF q = r THEN 1 ELSE 0) /\ C(q) \in Nat
    BY <1>1, <1>2, <1>4
  <2>4. evals'[q] = Len(folded'[q]) + D(q)
    BY <2>1, <2>2, <2>3
  <2> QED BY <1>4, <2>4 DEF Counted, D
<1>7. \A q \in Rules : Chain(q)' /\ Warned(q)'
  BY <1>3 DEF IInv, Chain, Warned, AvgAfter
<1>8. Shape' /\ Reporting'
  BY <1>3 DEF IInv, Shape, Reporting
<1> QED BY <1>4, <1>6, <1>7, <1>8 DEF IInv

\* What a worker has loaded is one of the stored averages.
LEMMA LoadAvgStep ==
    ASSUME IInv, NEW k \in Workers, LoadAvg(k)
    PROVE  IInv'
<1> DEFINE x == [w[k] EXCEPT !.pc = "cas", !.old = avg[w[k].rule]]
<1>1. Standing(w[k]) /\ w[k].pc = "load" /\ w \in [Workers -> WState]
  BY DEF IInv, Standings, LoadAvg
<1>2. avg[w[k].rule] \in Nat
  BY <1>1 DEF IInv, Shape, WState
<1>3. w' = [w EXCEPT ![k] = x]
  BY <1>1 DEF LoadAvg, WState
<1>4. Standing(x) /\ \A r \in Rules : Folds(x, r) <=> Folds(w[k], r)
  BY <1>1, <1>2 DEF Standing, WState, Steps, Folds
<1> HIDE DEF x
<1> QED BY <1>3, <1>4, WorkerOnly DEF LoadAvg

\* A sample is folded into the average it was blended with: the one that is
\* stored, since the comparison held, however often it was replaced between.
LEMMA CasAvgStep ==
    ASSUME IInv, NEW k \in Workers, CasAvg(k)
    PROVE  IInv'
<1>1. Standing(w[k]) /\ w[k].pc = "cas" /\ w \in [Workers -> WState]
  BY DEF IInv, Standings, CasAvg
<1>2. Shape
  BY DEF IInv
<1>3. PICK s \in Rules, d \in Nat, a \in Nat :
        s = w[k].rule /\ d = w[k].sample /\ a = Blend(w[k].old, w[k].sample)
  <2>1. w[k].rule \in Rules /\ w[k].sample \in Nat /\ w[k].old \in Nat
    BY <1>1 DEF WState
  <2> QED BY <2>1, BlendNat
<1>4. CASE avg[s] = w[k].old /\ Fold(s, d, a)
           /\ w' = [w EXCEPT ![k] = [Idle EXCEPT !.pc = "check", !.rule = s]]
           /\ UNCHANGED <<evals, lastWarn, now, rep, warns>>
  <2> DEFINE x == [Idle EXCEPT !.pc = "check", !.rule = s]
             e == [sample |-> d, avg |-> a]
             C(q) == Cardinality(Folding(q))
             D(q) == Cardinality(Folding(q)')
             L(q) == Len(folded[q])
  <2>1. Standing(x) /\ \A q \in Rules : ~Folds(x, q)
    BY <1>3, AtRest
  <2>2. \A q \in Rules : Folds(w[k], q) <=> q = s
    BY <1>1, <1>3 DEF Folds
  <2>3. /\ Standings'
        /\ \A q \in Rules : /\ IsFiniteSet(Folding(q)')
                            /\ C(q) \in Nat
                            /\ D(q) = C(q) + (IF Folds(x, q) THEN 1 ELSE 0)
                                           - (IF Folds(w[k], q) THEN 1 ELSE 0)
    <3> HIDE DEF x
    <3> QED BY <1>4, <2>1, WorkerMoves DEF x
  <2>4. /\ avg' = [avg EXCEPT ![s] = a]
        /\ folded' = [folded EXCEPT ![s] = Append(folded[s], e)]
    BY <1>4 DEF Fold
  <2>5. e \in Fold1 /\ a = Blend(avg[s], d)
    BY <1>3, <1>4 DEF Fold1
  <2>6. e.sample = d /\ e.avg = a
    OBVIOUS
  <2> HIDE DEF x, e
  <2>7. folded[s] \in Seq(Fold1) /\ folded'[s] = Append(folded[s], e) /\ avg'[s] = a
        /\ \A q \in Rules : q # s => folded'[q] = folded[q] /\ avg'[q] = avg[q]
    BY <1>2, <1>3, <2>4 DEF Shape
  <2>8. Shape'
    <3>1. folded' \in [Rules -> Seq(Fold1)]
      BY <1>2, <1>3, <2>4, <2>5 DEF Shape
    <3>2. avg' \in [Rules -> Nat]
      BY <1>2, <1>3, <2>4 DEF Shape
    <3> QED BY <1>2, <1>4, <3>1, <3>2 DEF Shape
  <2>9. ASSUME NEW q \in Rules PROVE Counted(q)'
    <3>1. evals[q] = L(q) + C(q) /\ L(q) \in Nat
      BY <1>2 DEF IInv, Counted, Shape
    <3>2. Len(folded'[q]) = L(q) + (IF q = s THEN 1 ELSE 0) /\ evals' = evals
      <4>1. evals' = evals
        BY <1>4
      <4>2. CASE q = s
        BY <2>5, <2>7, <4>1, <4>2
      <4>3. CASE q # s
        BY <2>7, <3>1, <4>1, <4>3
      <4> QED BY <4>2, <4>3
    <3> HIDE DEF C, D, L
    <3>3. D(q) = C(q) - (IF q = s THEN 1 ELSE 0) /\ C(q) \in Nat
      BY <2>1, <2>2, <2>3
    <3>4. evals'[q] = Len(folded'[q]) + D(q)
      BY <3>1, <3>2, <3>3
    <3> QED BY <2>3, <3>4 DEF Counted, D
  <2>10. ASSUME NEW q \in Rules PROVE Chain(q)'
    <3>1. CASE q # s
      <4>1. folded'[q] = folded[q] /\ avg'[q] = avg[q] /\ Chain(q)
        BY <2>7, <3>1 DEF IInv
      <4> QED BY <4>1 DEF Chain, AvgAfter
    <3>2. CASE q = s
      <4> DEFINE f == folded[s]
                 g == folded'[s]
      <4>0. PICK n \in Nat : n = Len(folded[s])
        BY <2>7
      <4>1. n \in Nat /\ Len(g) = n + 1 /\ g[n + 1] = e /\ \A i \in 1..n : g[i] = f[i]
        BY <2>5, <2>7, <4>0
      <4>2. /\ \A i \in 1..n : f[i].avg = Blend(AvgAfter(s, i - 1), f[i].sample)
            /\ avg[s] = AvgAfter(s, n)
        BY <1>3, <4>0 DEF IInv, Chain
      <4>3. \A i \in 0..n : AvgAfter(s, i)' = AvgAfter(s, i)
        BY <4>1 DEF AvgAfter
      <4>4. AvgAfter(s, n + 1)' = a
        BY <2>6, <4>1 DEF AvgAfter
      <4>5. ASSUME NEW i \in 1..(n + 1) PROVE g[i].avg = Blend(AvgAfter(s, i - 1)', g[i].sample)
        <5>1. CASE i \in 1..n
          <6>1. AvgAfter(s, i - 1)' = AvgAfter(s, i - 1)
            BY <4>0, <4>3, <5>1
          <6>2. g[i] = f[i]
            BY <4>1, <5>1
          <6>3. f[i].avg = Blend(AvgAfter(s, i - 1), f[i].sample)
            BY <4>2, <5>1
          <6> QED BY <6>1, <6>2, <6>3
        <5>2. CASE i = n + 1
          <6>1. AvgAfter(s, i - 1)' = avg[s]
            BY <4>1, <4>2, <4>3, <5>2
          <6> QED BY <2>5, <2>6, <4>1, <5>2, <6>1
        <5> QED BY <4>1, <5>1, <5>2
      <4>6. avg'[s] = AvgAfter(s, n + 1)'
        BY <2>7, <4>4
      <4> QED BY <3>2, <4>1, <4>5, <4>6 DEF Chain
    <3> QED BY <3>1, <3>2
  <2>11. \A q \in Rules : Warned(q)'
    BY <1>4 DEF IInv, Warned
  <2>12. Reporting'
    BY <1>4 DEF IInv, Reporting
  <2> QED BY <2>3, <2>8, <2>9, <2>10, <2>11, <2>12 DEF IInv
<1>5. CASE /\ w' = [w EXCEPT ![k].pc = "load"]
           /\ UNCHANGED <<evals, avg, folded, lastWarn, now, rep, warns>>
  <2> DEFINE x == [w[k] EXCEPT !.pc = "load"]
  <2>1. w' = [w EXCEPT ![k] = x]
    BY <1>1, <1>5 DEF WState
  <2>2. Standing(x) /\ \A r \in Rules : Folds(x, r) <=> Folds(w[k], r)
    BY <1>1 DEF Standing, WState, Steps, Folds
  <2> HIDE DEF x
  <2> QED BY <1>5, <2>1, <2>2, WorkerOnly
<1> QED BY <1>3, <1>4, <1>5 DEF CasAvg

\* The checks before a warning change nothing but where the worker stands.
LEMMA CheckSteps ==
    ASSUME IInv, NEW k \in Workers, WarnCheck(k) \/ ReadClock(k) \/ LoadLast(k)
    PROVE  IInv'
<1>1. Standing(w[k]) /\ w \in [Workers -> WState] /\ w[k] \in WState
  BY DEF IInv, Standings
<1>2. Shape
  BY DEF IInv
<1>3. Standing(Idle) /\ \A q \in Rules : ~Folds(Idle, q)
  BY StatsAssumption, AtRest
<1>4. CASE WarnCheck(k)
  <2> DEFINE x == w'[k]
  <2>1. x = Idle \/ x = [w[k] EXCEPT !.pc = "clock"]
    BY <1>1, <1>4 DEF WarnCheck
  <2>2. w' = [w EXCEPT ![k] = x]
    BY <1>1, <1>4 DEF WarnCheck
  <2>3. Standing(x) /\ \A r \in Rules : Folds(x, r) <=> Folds(w[k], r)
    BY <1>1, <1>3, <1>4, <2>1 DEF WarnCheck, Standing, WState, Steps, Folds
  <2> HIDE DEF x
  <2> QED BY <1>4, <2>2, <2>3, WorkerOnly DEF WarnCheck
<1>5. CASE ReadClock(k)
  <2> DEFINE x == [w[k] EXCEPT !.pc = "last", !.now = now]
  <2>1. w' = [w EXCEPT ![k] = x]
    BY <1>1, <1>5 DEF ReadClock, WState
  <2>2. now \in Times /\ now \in Nat
    BY <1>2, StatsAssumption DEF Shape, Times
  <2>3. Standing(x) /\ \A r \in Rules : Folds(x, r) <=> Folds(w[k], r)
    BY <1>1, <1>5, <2>2 DEF ReadClock, Standing, WState, Steps, Folds
  <2> HIDE DEF x
  <2> QED BY <1>5, <2>1, <2>3, WorkerOnly DEF ReadClock
<1>6. CASE LoadLast(k)
  <2> DEFINE l == lastWarn[w[k].rule]
             x == IF w[k].now - l < WarnInterval THEN Idle
                  ELSE [w[k] EXCEPT !.pc = "warn", !.last = l]
  <2>1. w' = [w EXCEPT ![k] = x]
    BY <1>1, <1>6 DEF LoadLast, WState
  <2>2. l \in Nat /\ w[k].now \in Nat /\ WarnInterval \in Nat
    <3>1. WarnInterval \in Nat /\ w[k].rule \in Rules /\ w[k].now \in Nat
      BY <1>1, StatsAssumption DEF WState
    <3>2. l \in {0} \cup Times
      BY <1>2, <3>1 DEF Shape
    <3> QED BY <3>1, <3>2, StatsAssumption DEF Times
  <2> HIDE DEF l
  <2>3. Standing(x) /\ \A r \in Rules : Folds(x, r) <=> Folds(w[k], r)
    <3>1. CASE w[k].now - l < WarnInterval
      BY <1>3, <1>6, <3>1 DEF LoadLast, Folds
    <3>2. CASE ~(w[k].now - l < WarnInterval)
      <4>1. w[k].pc = "last" /\ w[k].now \in Times
        BY <1>1, <1>6 DEF LoadLast, Standing
      <4>2. x = [w[k] EXCEPT !.pc = "warn", !.last = l] /\ w[k].now - l >= WarnInterval
        BY <2>2, <3>2
      <4> HIDE DEF x
      <4>3. x \in WState /\ x.pc = "warn" /\ x.now = w[k].now /\ x.last = l
            /\ x.rule = w[k].rule /\ x.sample = w[k].sample
        BY <1>1, <2>2, <4>2 DEF WState, Steps
      <4> QED BY <1>1, <4>1, <4>2, <4>3 DEF Standing, Folds
    <3> QED BY <3>1, <3>2
  <2> HIDE DEF x
  <2> QED BY <1>6, <2>1, <2>3, WorkerOnly DEF LoadLast
<1> QED BY <1>4, <1>5, <1>6

\* A warning is logged by the worker that replaced the time of the last one, which
\* it had found old enough.
LEMMA WarnStep ==
    ASSUME IInv, NEW k \in Workers, Warn(k)
    PROVE  IInv'
<1> DEFINE s == w[k].rule
           t == w[k].now
<1>1. Standing(w[k]) /\ w[k].pc = "warn" /\ w \in [Workers -> WState] /\ w[k] \in WState
  BY DEF IInv, Standings, Warn
<1>2. Shape
  BY DEF IInv
<1>3. w' = [w EXCEPT ![k] = Idle] /\ UNCHANGED <<evals, avg, now, rep, folded>>
  BY DEF Warn
<1>4. Standing(Idle) /\ \A q \in Rules : ~Folds(Idle, q) /\ ~Folds(w[k], q)
  BY <1>1, StatsAssumption, AtRest DEF Folds
<1>5. CASE UNCHANGED <<lastWarn, warns>>
  BY <1>3, <1>4, <1>5, WorkerOnly
<1>6. CASE /\ lastWarn[s] = w[k].last
           /\ lastWarn' = [lastWarn EXCEPT ![s] = t]
           /\ warns' = [warns EXCEPT ![s] = Append(warns[s], t)]
  <2>1. s \in Rules /\ t \in Times /\ t - w[k].last >= WarnInterval
    BY <1>1 DEF Standing, WState
  <2> DEFINE C(q) == Cardinality(Folding(q))
             D(q) == Cardinality(Folding(q)')
  <2>2. /\ Standings'
        /\ \A q \in Rules : /\ IsFiniteSet(Folding(q)')
                            /\ C(q) \in Nat
                            /\ D(q) = C(q) + (IF Folds(Idle, q) THEN 1 ELSE 0)
                                           - (IF Folds(w[k], q) THEN 1 ELSE 0)
    BY <1>3, <1>4, WorkerMoves
  <2>3. \A q \in Rules : Counted(q)'
    <3> SUFFICES ASSUME NEW q \in Rules PROVE Counted(q)'
      OBVIOUS
    <3>1. evals[q] = Len(folded[q]) + C(q)
      BY DEF IInv, Counted
    <3> HIDE DEF C, D
    <3>2. D(q) = C(q)
      BY <1>4, <2>2
    <3>3. evals'[q] = Len(folded'[q]) + D(q)
      BY <1>3, <3>1, <3>2
    <3> QED BY <2>2, <3>3 DEF Counted, D
  <2> HIDE DEF s, t
  <2>4. /\ warns[s] \in Seq(Times) /\ warns'[s] = Append(warns[s], t) /\ lastWarn'[s] = t
        /\ \A q \in Rules : q # s => warns'[q] = warns[q] /\ lastWarn'[q] = lastWarn[q]
    BY <1>2, <1>6, <2>1 DEF Shape
  <2>5. Shape'
    <3>1. warns' \in [Rules -> Seq(Times)]
      BY <1>2, <1>6, <2>1 DEF Shape
    <3>2. lastWarn' \in [Rules -> {0} \cup Times]
      BY <1>2, <1>6, <2>1 DEF Shape
    <3> QED BY <1>2, <1>3, <3>1, <3>2 DEF Shape
  <2>6. ASSUME NEW q \in Rules PROVE Warned(q)'
    <3>1. CASE q # s
      <4>1. warns'[q] = warns[q] /\ lastWarn'[q] = lastWarn[q] /\ Warned(q)
        BY <2>4, <3>1 DEF IInv
      <4> QED BY <4>1 DEF Warned
    <3>2. CASE q = s
      <4> DEFINE n == Len(warns[s])
                 f == warns[s]
                 g == warns'[s]
      <4>1. n \in Nat /\ Len(g) = n + 1 /\ g[n + 1] = t /\ \A i \in 1..n : g[i] = f[i]
        BY <2>1, <2>4
      <4>2. /\ lastWarn[s] = IF n = 0 THEN 0 ELSE f[n]
            /\ \A i \in 2..n : f[i] - f[i - 1] >= WarnInterval
        BY <2>1 DEF IInv, Warned
      <4> HIDE DEF n, f, g
      <4>3. ASSUME NEW i \in 2..(n + 1) PROVE g[i] - g[i - 1] >= WarnInterval
        <5>1. CASE i \in 2..n
          <6>1. g[i] = f[i] /\ g[i - 1] = f[i - 1]
            BY <4>1, <5>1
          <6> QED BY <4>2, <5>1, <6>1
        <5>2. CASE i = n + 1
          <6>1. g[i] = t /\ g[i - 1] = f[n] /\ n # 0
            BY <4>1, <5>2
          <6> QED BY <1>6, <2>1, <4>2, <6>1
        <5> QED BY <4>1, <5>1, <5>2
      <4>4. lastWarn'[s] = g[n + 1] /\ n + 1 # 0
        BY <2>4, <4>1
      <4> QED BY <3>2, <4>1, <4>3, <4>4 DEF Warned, g
    <3> QED BY <3>1, <3>2
  <2>7. \A q \in Rules : Chain(q)'
    BY <1>3 DEF IInv, Chain, AvgAfter
  <2>8. Reporting'
    BY <1>3 DEF IInv, Reporting
  <2> QED BY <2>2, <2>3, <2>5, <2>6, <2>7, <2>8 DEF IInv
<1> QED BY <1>5, <1>6 DEF Warn

\* A step that leaves the workers and the statistics alone needs only its own part.
LEMMA OtherStep ==
    ASSUME IInv, UNCHANGED <<evals, avg, lastWarn, w, folded, warns>>,
           now' \in Times, Reporting'
    PROVE  IInv'
<1>1. Shape' /\ Standings'
  BY DEF IInv, Shape, Standings
<1>2. \A r \in Rules : Counted(r)' /\ Chain(r)' /\ Warned(r)'
  BY DEF IInv, Counted, Chain, Warned, AvgAfter, Folding
<1> QED BY <1>1, <1>2 DEF IInv

\* The clock moves on within its bound.
LEMMA TickStep == ASSUME IInv, Tick PROVE IInv'
<1>1. now' \in Times
  BY StatsAssumption DEF IInv, Shape, Tick, Times
<1>2. Reporting'
  BY DEF IInv, Reporting, Tick
<1> QED BY <1>1, <1>2, OtherStep DEF Tick

\* The report reads the next rule's average, and after the last goes to flag.
LEMMA ReadPeerStep == ASSUME IInv, ReadPeer PROVE IInv'
<1> DEFINE r == RuleSeq[rep.i]
           peers == IF evals[r] >= MinEvals
                    THEN Append(rep.peers, [rule |-> r, avg |-> avg[r]]) ELSE rep.peers
           thr == SlowRuleThreshold(peers)
           i == rep.i
           n == Len(RuleSeq)
<1>1. Reporting /\ rep.pc = "none"
  BY DEF IInv, ReadPeer
<1>2. r \in Rules /\ n \in Nat \ {0} /\ i \in 1..n /\ DOMAIN RuleSeq = 1..n
  BY <1>1, RuleSeqFacts DEF Reporting
<1>3. avg[r] \in Nat
  BY <1>2 DEF IInv, Shape
<1>4. /\ peers \in Seq([rule : Rules, avg : Nat])
      /\ Len(peers) <= i
  <2>1. [rule |-> r, avg |-> avg[r]] \in [rule : Rules, avg : Nat]
    BY <1>2, <1>3
  <2>2. rep.peers \in Seq([rule : Rules, avg : Nat]) /\ Len(rep.peers) < i
    BY <1>1 DEF Reporting
  <2> DEFINE e == [rule |-> r, avg |-> avg[r]]
  <2>3. peers = Append(rep.peers, e) \/ peers = rep.peers
    OBVIOUS
  <2> HIDE DEF r, e, peers
  <2>4. e \in [rule : Rules, avg : Nat]
    BY <2>1 DEF e
  <2>5. i \in Nat /\ Len(rep.peers) \in Nat
    BY <1>2, <2>2
  <2> HIDE DEF i
  <2>6. CASE peers = rep.peers
    BY <2>2, <2>5, <2>6
  <2>7. CASE peers = Append(rep.peers, e)
    <3>1. peers \in Seq([rule : Rules, avg : Nat]) /\ Len(peers) = Len(rep.peers) + 1
      BY <2>2, <2>4, <2>7
    <3> QED BY <2>2, <2>5, <3>1
  <2> QED BY <2>3, <2>6, <2>7
<1>5. rep' = IF i < n THEN [rep EXCEPT !.peers = peers, !.i = @ + 1]
             ELSE [rep EXCEPT !.peers = peers, !.pc = "flag", !.i = 1, !.thr = thr]
  BY DEF ReadPeer
<1> HIDE DEF r, peers, thr
<1>6. UNCHANGED <<evals, avg, lastWarn, w, folded, warns>> /\ now' \in Times
  BY DEF ReadPeer, IInv, Shape
<1>7. CASE i < n
  <2>1. rep' = [pc |-> "none", i |-> i + 1, peers |-> peers, thr |-> rep.thr,
                flagged |-> rep.flagged, same |-> rep.same]
    BY <1>1, <1>5, <1>7 DEF Reporting
  <2>2. Reporting'
    BY <1>1, <1>2, <1>4, <1>7, <2>1 DEF Reporting
  <2> QED BY <2>2, <1>6, OtherStep
<1>8. CASE ~(i < n)
  <2>1. rep' = [pc |-> "flag", i |-> 1, peers |-> peers, thr |-> thr,
                flagged |-> rep.flagged, same |-> rep.same]
    BY <1>1, <1>5, <1>8 DEF Reporting
  <2>2. Reporting'
    BY <1>1, <1>2, <1>4, <1>8, <2>1 DEF Reporting
  <2> QED BY <2>2, <1>6, OtherStep
<1> QED BY <1>7, <1>8

\* The report compares the next rule's average with its threshold.
LEMMA FlagStep == ASSUME IInv, Flag PROVE IInv'
<1> DEFINE r == RuleSeq[rep.i]
           i == rep.i
           n == Len(RuleSeq)
<1>1. Reporting /\ rep.pc = "flag"
  BY DEF IInv, Flag
<1>2. r \in Rules /\ n \in Nat \ {0} /\ i \in 1..n /\ DOMAIN RuleSeq = 1..n
  BY <1>1, RuleSeqFacts DEF Reporting
<1>3. PICK F, S, j, p :
        /\ rep' = [rep EXCEPT !.flagged = F, !.same = S, !.i = j, !.pc = p]
        /\ F \in {rep.flagged, rep.flagged \cup {r}}
        /\ S \in {rep.same, rep.same \cup {r}}
        /\ j = (IF i < n THEN i + 1 ELSE i)
        /\ p \in {"flag", "done"}
  <2> DEFINE F == IF rep.thr > 0 /\ avg[r] > rep.thr THEN rep.flagged \cup {r}
                  ELSE rep.flagged
             S == IF \E j \in DOMAIN rep.peers :
                        rep.peers[j] = [rule |-> r, avg |-> avg[r]]
                  THEN rep.same \cup {r} ELSE rep.same
             j == IF i < n THEN i + 1 ELSE i
             p == IF i < n THEN rep.pc ELSE "done"
  <2>1. rep' = [rep EXCEPT !.flagged = F, !.same = S, !.i = j, !.pc = p]
    BY DEF Flag
  <2>2. F \in {rep.flagged, rep.flagged \cup {r}} /\ S \in {rep.same, rep.same \cup {r}}
    OBVIOUS
  <2>3. p \in {"flag", "done"}
    BY <1>1
  <2>4. j = (IF i < n THEN i + 1 ELSE i)
    OBVIOUS
  <2> HIDE DEF F, S, p, j
  <2> QED BY <2>1, <2>2, <2>3, <2>4
<1>4. rep' = [pc |-> p, i |-> j, peers |-> rep.peers, thr |-> rep.thr,
              flagged |-> F, same |-> S]
  BY <1>1, <1>3 DEF Reporting
<1> HIDE DEF r
<1>5. j \in DOMAIN RuleSeq /\ F \subseteq Rules /\ S \subseteq Rules
  BY <1>1, <1>2, <1>3 DEF Reporting
<1>6. Reporting'
  BY <1>1, <1>3, <1>4, <1>5 DEF Reporting
<1>7. UNCHANGED <<evals, avg, lastWarn, w, folded, warns>> /\ now' \in Times
  BY DEF Flag, IInv, Shape
<1> QED BY <1>6, <1>7, OtherStep

\* Every step keeps the invariant.
LEMMA StepIInv == IInv /\ [Next]_vars => IInv'
<1> SUFFICES ASSUME IInv, [Next]_vars PROVE IInv'
  OBVIOUS
<1>1. ASSUME NEW k \in Workers, NEW r \in Rules, NEW d \in Samples[r], Observe(k, r, d)
      PROVE  IInv'
  BY <1>1, ObserveStep
<1>2. ASSUME NEW k \in Workers, Worker(k) PROVE IInv'
  BY <1>2, LoadAvgStep, CasAvgStep, CheckSteps, WarnStep DEF Worker
<1>3. CASE UNCHANGED vars
  <2>1. now' \in Times /\ Reporting'
    BY <1>3 DEF vars, IInv, Shape, Reporting
  <2> QED BY <1>3, <2>1, OtherStep DEF vars
<1> QED BY <1>1, <1>2, <1>3, TickStep, ReadPeerStep, FlagStep DEF Next

\* The inductive invariant holds in every reachable state, whatever the number of
\* workers, rules and evaluations.
THEOREM IInvCorrect == Spec => []IInv
  BY InitIInv, StepIInv, PTL DEF Spec

\* Every sample observed is blended into the average exactly once, in some order,
\* though workers race to store theirs: RuleStats.Observe's compare-and-swap loop.
THEOREM NoSampleLostCorrect == Spec => []NoSampleLost
<1>1. IInv => NoSampleLost
  <2> SUFFICES ASSUME IInv PROVE NoSampleLost
    OBVIOUS
  <2>1. TypeOK
    BY DEF IInv, Shape, Standings, Standing, WState, Reporting, TypeOK, Times
  <2> QED BY <2>1 DEF IInv, Counted, Chain, NoSampleLost
<1> QED BY <1>1, IInvCorrect, PTL

\* Two warnings about a rule are WarnInterval apart, whichever workers log them:
\* WarnIfSlow's throttle.
THEOREM WarnsApartCorrect == Spec => []WarnsApart
<1>1. IInv => WarnsApart
  BY DEF IInv, Warned, WarnsApart
<1> QED BY <1>1, IInvCorrect, PTL

-----------------------------------------------------------------------------
(* The median.                                                             *)

\* Natural induction over a set: the successors of 0 are all there is. (A set that
\* misses n would have its part below n in bijection with a proper part of itself.)
LEMMA SetInduction ==
    ASSUME NEW S \in SUBSET Nat, 0 \in S, \A n \in S : n + 1 \in S
    PROVE  S = Nat
<1> SUFFICES ASSUME NEW n \in Nat, n \notin S PROVE FALSE
  OBVIOUS
<1> DEFINE A == S \cap (0..n)
           B == {k + 1 : k \in A}
           f == [k \in A |-> k + 1]
<1>1. IsFiniteSet(A)
  <2>1. 0 \in Int /\ n \in Int
    OBVIOUS
  <2>2. IsFiniteSet(0..n)
    BY <2>1, FS_Interval
  <2>3. A \in SUBSET (0..n)
    OBVIOUS
  <2> QED BY <2>2, <2>3, FS_Subset
<1>2. B \subseteq A /\ 0 \in A /\ 0 \notin B
  OBVIOUS
<1>3. f \in Bijection(A, B)
  <2>1. /\ f \in [A -> B] /\ \A a, b \in A : f[a] = f[b] => a = b
        /\ \A t \in B : \E s \in A : f[s] = t
    OBVIOUS
  <2> HIDE DEF A, B, f
  <2> QED BY <2>1, Fun_IsBij
<1> HIDE DEF A, B, f
<1>4. Cardinality(B) = Cardinality(A)
  BY <1>1, <1>3, FS_Bijection, Fun_ExistsBij
<1>5. B = A
  BY <1>1, <1>2, <1>4, FS_Subset
<1> QED BY <1>2, <1>5

Peers == Seq([rule : Rules, avg : Nat])

\* What a peer group is.
LEMMA PeerFacts ==
    ASSUME NEW p \in Peers
    PROVE  /\ DOMAIN p = 1..Len(p) /\ Len(p) \in Nat
           /\ \A j \in DOMAIN p : p[j].avg \in Nat
<1> DEFINE R == [rule : Rules, avg : Nat]
<1>1. p \in Seq(R)
  BY DEF Peers
<1>2. \A x \in R : x.avg \in Nat
  OBVIOUS
<1> HIDE DEF R
<1>3. DOMAIN p = 1..Len(p) /\ Len(p) \in Nat
  BY <1>1
<1>4. \A j \in DOMAIN p : p[j] \in R
  BY <1>1
<1> QED BY <1>2, <1>3, <1>4

\* Each position of the sorted averages has one: at most k are below it, and no
\* more than the others above.
LEMMA RankedFacts ==
    ASSUME NEW p \in Peers, NEW k \in Nat, k < Len(p)
    PROVE  /\ Ranked(p, k) \in Nat
           /\ Cardinality({j \in DOMAIN p : p[j].avg <= Ranked(p, k)}) > k
<1> DEFINE D == DOMAIN p
           Below(v) == {j \in D : p[j].avg < v}
           UpTo(v) == {j \in D : p[j].avg <= v}
           W == {v \in Nat : Cardinality(Below(v)) <= k}
           V == {m \in Nat : m <= Len(p) => \E b \in Nat : \A j \in 1..m : p[j].avg < b}
<1>1. D = 1..Len(p) /\ Len(p) \in Nat /\ \A j \in D : p[j].avg \in Nat
  BY PeerFacts
<1>2. IsFiniteSet(D) /\ Cardinality(D) = Len(p)
  <2>1. 1 \in Int /\ Len(p) \in Int
    BY <1>1
  <2>2. /\ IsFiniteSet(1..Len(p))
        /\ Cardinality(1..Len(p)) = IF 1 > Len(p) THEN 0 ELSE Len(p) - 1 + 1
    BY <2>1, FS_Interval
  <2> QED BY <1>1, <2>2
<1> HIDE DEF D
<1>3. \A v : /\ Cardinality(Below(v)) \in Nat /\ Cardinality(UpTo(v)) \in Nat
             /\ IsFiniteSet(UpTo(v))
  <2> SUFFICES ASSUME NEW v
               PROVE  /\ Cardinality(Below(v)) \in Nat /\ Cardinality(UpTo(v)) \in Nat
                      /\ IsFiniteSet(UpTo(v))
    OBVIOUS
  <2>1. Below(v) \in SUBSET D /\ UpTo(v) \in SUBSET D
    OBVIOUS
  <2>2. IsFiniteSet(Below(v)) /\ IsFiniteSet(UpTo(v))
    BY <1>2, <2>1, FS_Subset
  <2> QED BY <2>2, FS_CardinalityType
<1>4. V = Nat
  <2>1. V \in SUBSET Nat /\ 0 \in V
    <3>1. 1..0 = {} /\ 0 \in Nat
      OBVIOUS
    <3> QED BY <3>1
  <2>2. ASSUME NEW m \in V PROVE m + 1 \in V
    <3>0. m \in Nat /\ m + 1 \in Nat
      OBVIOUS
    <3> SUFFICES ASSUME m + 1 <= Len(p)
                 PROVE  \E b \in Nat : \A j \in 1..(m + 1) : p[j].avg < b
      BY <3>0
    <3>1. m \in Nat /\ m <= Len(p)
      BY <1>1, <3>0
    <3>2. PICK b \in Nat : \A j \in 1..m : p[j].avg < b
      BY <1>1, <3>1
    <3> DEFINE c == b + p[m + 1].avg + 1
    <3>3. m + 1 \in D /\ p[m + 1].avg \in Nat /\ c \in Nat
      BY <1>1, <3>1
    <3>4. ASSUME NEW j \in 1..(m + 1) PROVE p[j].avg < c
      <4>1. j \in D /\ p[j].avg \in Nat
        BY <1>1, <3>1
      <4>2. CASE j = m + 1
        BY <3>3, <4>2
      <4>3. CASE j \in 1..m
        BY <3>2, <3>3, <4>1, <4>3
      <4> QED BY <3>1, <4>2, <4>3
    <3> QED BY <3>3, <3>4
  <2> HIDE DEF V
  <2> QED BY <2>1, <2>2, SetInduction
<1>5. PICK b \in Nat : \A j \in D : p[j].avg < b
  <2>1. Len(p) \in V
    <3> HIDE DEF V
    <3> QED BY <1>1, <1>4
  <2>2. \E b \in Nat : \A j \in 1..Len(p) : p[j].avg < b
    BY <1>1, <2>1
  <2> QED BY <1>1, <2>2
<1>6. b \notin W
  <2>1. Below(b) = D
    BY <1>5
  <2>2. ~(Cardinality(Below(b)) <= k)
    <3> HIDE DEF Below
    <3> QED BY <1>1, <1>2, <2>1
  <2> QED BY <2>2
<1>7. 0 \in W
  <2>1. Below(0) = {}
    BY <1>1
  <2> HIDE DEF Below
  <2>2. Cardinality(Below(0)) <= k /\ 0 \in Nat
    BY <2>1, FS_EmptySet
  <2> QED BY <2>2
<1>8. PICK v \in W : v + 1 \notin W
  <2>1. W \in SUBSET Nat
    OBVIOUS
  <2> HIDE DEF W
  <2> QED BY <1>6, <1>7, <2>1, SetInduction
<1>9. v \in Nat /\ Cardinality(Below(v)) <= k /\ Cardinality(UpTo(v)) > k
  <2>1. v \in Nat /\ v + 1 \in Nat
    OBVIOUS
  <2>2. Below(v + 1) = UpTo(v)
    BY <1>1, <2>1
  <2>3. Cardinality(Below(v)) <= k /\ ~(Cardinality(UpTo(v)) <= k)
    BY <1>8, <2>1, <2>2
  <2> HIDE DEF Below, UpTo
  <2> QED BY <1>3, <2>1, <2>3
<1>10. \E j \in D : p[j].avg = v
  <2> SUFFICES ASSUME \A j \in D : p[j].avg # v PROVE FALSE
    OBVIOUS
  <2>1. UpTo(v) = Below(v)
    BY <1>1, <1>9
  <2> HIDE DEF Below, UpTo
  <2> QED BY <1>3, <1>9, <2>1
<1> DEFINE M == {p[j].avg : j \in D}
           Is(a) == Cardinality(Below(a)) <= k /\ Cardinality(UpTo(a)) > k
<1>11. v \in M /\ Is(v)
  BY <1>9, <1>10
<1>12. Ranked(p, k) = CHOOSE a \in M : Is(a)
  BY DEF Ranked, D
<1>13. Ranked(p, k) \in M /\ Is(Ranked(p, k))
  <2> HIDE DEF M, Is
  <2> QED BY <1>11, <1>12
<1>14. Ranked(p, k) \in Nat
  BY <1>1, <1>13
<1> QED BY <1>13, <1>14 DEF D

\* Fewer than half of the peers are above the threshold, and it takes two of them
\* to make one.
LEMMA ThresholdFacts ==
    ASSUME NEW p \in Peers, SlowRuleThreshold(p) > 0
    PROVE  /\ Len(p) >= 2
           /\ IsFiniteSet({j \in DOMAIN p : p[j].avg > SlowRuleThreshold(p)})
           /\ Cardinality({j \in DOMAIN p : p[j].avg > SlowRuleThreshold(p)}) \in Nat
           /\ 2 * Cardinality({j \in DOMAIN p : p[j].avg > SlowRuleThreshold(p)}) < Len(p)
<1> DEFINE D == DOMAIN p
           n == Len(p)
           k == n \div 2
           a == Ranked(p, k)
           thr == SlowRuleThreshold(p)
           Low == {j \in D : p[j].avg <= a}
           High == {j \in D : p[j].avg > thr}
<1>1. D = 1..n /\ n \in Nat /\ \A j \in D : p[j].avg \in Nat
  BY PeerFacts
<1>2. n >= 2
  BY <1>1 DEF SlowRuleThreshold
<1>3. k \in Nat /\ 2 * k <= n /\ n <= 2 * k + 1 /\ k < n
  BY <1>1, <1>2
<1>4. a \in Nat /\ Cardinality(Low) > k
  <2> HIDE DEF k
  <2> QED BY <1>3, RankedFacts
<1>5. thr = a * SlowFactor /\ SlowFactor \in Nat \ {0}
  BY <1>1, <1>2, StatsAssumption DEF SlowRuleThreshold
<1> HIDE DEF a, thr
<1>6. thr \in Nat /\ a <= thr
  <2> DEFINE f == SlowFactor
  <2>1. f \in Nat \ {0} /\ thr = a * f
    BY <1>5
  <2> HIDE DEF f
  <2> QED BY <1>4, <2>1
<1>7. IsFiniteSet(D) /\ Cardinality(D) = n
  <2>1. 1 \in Int /\ n \in Int
    BY <1>1
  <2>2. IsFiniteSet(1..n) /\ Cardinality(1..n) = IF 1 > n THEN 0 ELSE n - 1 + 1
    BY <2>1, FS_Interval
  <2> QED BY <1>1, <1>2, <2>2
<1>8. Low \in SUBSET D /\ High \in SUBSET D /\ Low \cap High = {}
  BY <1>1, <1>4, <1>6
<1>9. Low \cup High \in SUBSET D
  BY <1>8
<1> HIDE DEF D, n, k, Low, High
<1>10. /\ IsFiniteSet(Low) /\ IsFiniteSet(High) /\ Cardinality(Low \cup High) <= n
       /\ Cardinality(Low) \in Nat /\ Cardinality(High) \in Nat
  BY <1>7, <1>8, <1>9, FS_Subset, FS_CardinalityType
<1>11. Cardinality(Low \cup High) = Cardinality(Low) + Cardinality(High) - Cardinality({})
  BY <1>8, <1>10, FS_Union
<1>12. Cardinality({}) = 0
  BY FS_EmptySet
<1>13. 2 * Cardinality(High) < n
  BY <1>1, <1>3, <1>4, <1>10, <1>11, <1>12
<1> QED BY <1>2, <1>10, <1>13 DEF D, n, High, thr

-----------------------------------------------------------------------------
(* The report.                                                             *)

\* A step that leaves the report alone.
LEMMA ReportStays == ASSUME Flagging, rep' = rep PROVE Flagging'
BY DEF Flagging, SlowRuleThreshold, Ranked

\* The threshold is made of the peers when the last of them is read.
LEMMA ReadPeerFlagging == ASSUME IInv, Flagging, ReadPeer PROVE Flagging'
<1> DEFINE r == RuleSeq[rep.i]
           peers == IF evals[r] >= MinEvals
                    THEN Append(rep.peers, [rule |-> r, avg |-> avg[r]]) ELSE rep.peers
           thr == SlowRuleThreshold(peers)
           n == Len(RuleSeq)
<1>1. Reporting /\ rep.pc = "none" /\ rep.flagged = {} /\ rep.same = {}
  BY DEF IInv, ReadPeer, Flagging
<1>2. rep' = IF rep.i < n THEN [rep EXCEPT !.peers = peers, !.i = @ + 1]
             ELSE [rep EXCEPT !.peers = peers, !.pc = "flag", !.i = 1, !.thr = thr]
  BY DEF ReadPeer
<1>3. thr = SlowRuleThreshold(peers)
  OBVIOUS
<1> HIDE DEF peers, thr, n
<1>4. /\ rep'.flagged = {} /\ rep'.same = {} /\ rep'.peers = peers
      /\ \/ rep'.pc = "none"
         \/ rep'.pc = "flag" /\ rep'.thr = thr
  BY <1>1, <1>2 DEF Reporting
<1>5. rep'.thr = SlowRuleThreshold(rep'.peers) \/ rep'.pc = "none"
  BY <1>3, <1>4
<1> QED BY <1>4, <1>5 DEF Flagging, SlowRuleThreshold, Ranked

\* Each rule is flagged, or not, once.
LEMMA FlagFlagging == ASSUME IInv, Flagging, Flag PROVE Flagging'
<1> DEFINE r == RuleSeq[rep.i]
           i == rep.i
           n == Len(RuleSeq)
           F == IF rep.thr > 0 /\ avg[r] > rep.thr THEN rep.flagged \cup {r} ELSE rep.flagged
           S == IF \E j \in DOMAIN rep.peers :
                      rep.peers[j] = [rule |-> r, avg |-> avg[r]]
                THEN rep.same \cup {r} ELSE rep.same
           j1 == IF i < n THEN i + 1 ELSE i
           p == IF i < n THEN rep.pc ELSE "done"
<1>1. Reporting /\ rep.pc = "flag" /\ rep.thr = SlowRuleThreshold(rep.peers)
  BY DEF IInv, Flag, Flagging
<1>2. r \in Rules /\ n \in Nat \ {0} /\ i \in 1..n /\ DOMAIN RuleSeq = 1..n
  BY <1>1, RuleSeqFacts DEF Reporting
<1>3. rep' = [rep EXCEPT !.flagged = F, !.same = S, !.i = j1, !.pc = p]
  BY DEF Flag
<1>4. p \in {"flag", "done"} /\ (p = "done" \/ j1 = i + 1)
  BY <1>1
<1>5. r \notin rep.flagged \cup rep.same
  <2> SUFFICES ASSUME r \in rep.flagged \cup rep.same PROVE FALSE
    OBVIOUS
  <2>1. PICK m \in DOMAIN RuleSeq : RuleSeq[m] = r /\ m < rep.i
    BY <1>1 DEF Flagging
  <2>2. m = rep.i
    BY <1>2, <2>1, RuleSeqFacts
  <2> QED BY <1>2, <2>1, <2>2
<1>6. F # {} => rep.thr > 0
  BY DEF Flagging
<1>7. ASSUME NEW q \in F \cup S
      PROVE  \E m \in DOMAIN RuleSeq : RuleSeq[m] = q /\ (m < j1 \/ p = "done")
  <2>1. CASE q = r
    <3>1. i < j1 \/ p = "done"
      BY <1>2, <1>4
    <3> QED BY <1>2, <2>1, <3>1
  <2>2. CASE q \in rep.flagged \cup rep.same
    <3>1. PICK m \in DOMAIN RuleSeq : RuleSeq[m] = q /\ m < i
      BY <1>1, <2>2 DEF Flagging
    <3>2. m < j1
      BY <1>2, <3>1
    <3> QED BY <3>1, <3>2
  <2> QED BY <1>7, <2>1, <2>2
<1>8. ASSUME NEW q \in F \cap S
      PROVE  \E j \in DOMAIN rep.peers : rep.peers[j].rule = q /\ rep.peers[j].avg > rep.thr
  <2>1. CASE q = r
    <3>1. avg[r] > rep.thr
      BY <1>5, <1>8, <2>1
    <3>2. PICK j \in DOMAIN rep.peers : rep.peers[j] = [rule |-> r, avg |-> avg[r]]
      BY <1>5, <1>8, <2>1
    <3> QED BY <2>1, <3>1, <3>2
  <2>2. CASE q # r
    <3>1. q \in rep.flagged \cap rep.same
      BY <1>8, <2>2
    <3> QED BY <3>1 DEF Flagging
  <2> QED BY <2>1, <2>2
<1> HIDE DEF F, S, j1, p
<1>9. /\ rep'.flagged = F /\ rep'.same = S /\ rep'.i = j1 /\ rep'.pc = p
      /\ rep'.peers = rep.peers /\ rep'.thr = rep.thr
  BY <1>1, <1>3 DEF Reporting
<1>10. rep'.thr = SlowRuleThreshold(rep'.peers)
  BY <1>1, <1>9
<1>11. /\ \A q \in rep'.flagged \cup rep'.same :
            \E m \in DOMAIN RuleSeq : RuleSeq[m] = q /\ (m < rep'.i \/ rep'.pc = "done")
       /\ \A q \in rep'.flagged \cap rep'.same :
            \E j \in DOMAIN rep'.peers : rep'.peers[j].rule = q /\ rep'.peers[j].avg > rep'.thr
  BY <1>7, <1>8, <1>9
<1>12. rep'.pc \in {"flag", "done"} /\ (rep'.flagged # {} => rep'.thr > 0)
  BY <1>4, <1>6, <1>9
<1> QED BY <1>10, <1>11, <1>12 DEF Flagging, SlowRuleThreshold, Ranked

\* Both invariants hold throughout.
LEMMA FlaggingCorrect == Spec => [](IInv /\ Flagging)
<1>1. Init => IInv /\ Flagging
  <2>1. Init => Flagging
    BY DEF Init, Flagging, NoReport
  <2> QED BY <2>1, InitIInv
<1>2. IInv /\ Flagging /\ [Next]_vars => (IInv /\ Flagging)'
  <2> SUFFICES ASSUME IInv, Flagging, [Next]_vars PROVE IInv' /\ Flagging'
    OBVIOUS
  <2>1. IInv'
    BY StepIInv
  <2>2. ASSUME NEW k \in Workers, NEW r \in Rules, NEW d \in Samples[r], Observe(k, r, d)
        PROVE  Flagging'
    BY <2>2, ReportStays DEF Observe
  <2>3. ASSUME NEW k \in Workers, Worker(k) PROVE Flagging'
    <3>1. rep' = rep
      BY <2>3 DEF Worker, LoadAvg, CasAvg, WarnCheck, ReadClock, LoadLast, Warn
    <3> QED BY <3>1, ReportStays
  <2>4. ASSUME Tick \/ UNCHANGED vars PROVE Flagging'
    BY <2>4, ReportStays DEF Tick, vars
  <2> QED BY <2>1, <2>2, <2>3, <2>4, ReadPeerFlagging, FlagFlagging DEF Next
<1> QED BY <1>1, <1>2, PTL DEF Spec

\* Rules flagged for the average that made the threshold are a minority of the
\* group, though the averages move between the two times they are read.
THEOREM SlowIsMinorityCorrect == Spec => []SlowIsMinority
<1>1. IInv /\ Flagging => SlowIsMinority
  <2> SUFFICES ASSUME IInv, Flagging, rep.flagged # {}
               PROVE  /\ Len(rep.peers) >= 2
                      /\ 2 * Cardinality(rep.flagged \cap rep.same) < Len(rep.peers)
    BY DEF SlowIsMinority
  <2> DEFINE p == rep.peers
             T == rep.flagged \cap rep.same
             High == {j \in DOMAIN p : p[j].avg > SlowRuleThreshold(p)}
             f == [x \in T |-> CHOOSE j \in High : p[j].rule = x]
  <2>1. p \in Peers /\ rep.thr > 0 /\ rep.thr = SlowRuleThreshold(p)
    BY DEF IInv, Reporting, Flagging, Peers
  <2>2. \A x \in T : \E j \in High : p[j].rule = x
    BY <2>1 DEF Flagging
  <2>3. /\ Len(p) >= 2 /\ IsFiniteSet(High) /\ Cardinality(High) \in Nat
        /\ 2 * Cardinality(High) < Len(p)
    <3>1. SlowRuleThreshold(p) > 0
      BY <2>1
    <3> HIDE DEF p
    <3> QED BY <2>1, <3>1, ThresholdFacts
  <2> HIDE DEF T, High
  <2>4. \A x \in T : f[x] \in High /\ p[f[x]].rule = x
    BY <2>2
  <2>5. f \in [T -> High] /\ \A x, y \in T : f[x] = f[y] => x = y
    BY <2>4
  <2> HIDE DEF f
  <2>6. f \in Injection(T, High)
    BY <2>5, Fun_IsInj
  <2>7. IsFiniteSet(T) /\ Cardinality(T) <= Cardinality(High)
    BY <2>3, <2>6, FS_Injection
  <2>8. Cardinality(T) \in Nat
    BY <2>7, FS_CardinalityType
  <2>9. Len(p) \in Nat
    BY <2>1 DEF Peers
  <2>10. 2 * Cardinality(T) < Len(p)
    <3> HIDE DEF p
    <3> QED BY <2>3, <2>7, <2>8, <2>9
  <2> QED BY <2>3, <2>10 DEF T
<1> QED BY <1>1, FlaggingCorrect, PTL
=============================================================================
