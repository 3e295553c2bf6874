---------------------------- MODULE ReplayProofs ----------------------------
(***************************************************************************)
(* Machine-checked proofs about Replay, for every rule set, trace and pool:*)
(* the pool runs and compares each entry once; a result's verdict is that  *)
(* of its rules, whatever order the sort left equal priorities in; a rule  *)
(* set compared with itself reports no change where neither the workers    *)
(* nor the clock matter to its counters; a clause that lowerMatch accepts  *)
(* holds for some event if its path is below payload; and it holds where   *)
(* the same comparison in a body would.                                    *)
(***************************************************************************)
EXTENDS Replay, FunctionTheorems, SequenceTheorems, FiniteSetTheorems, TLAPS

-----------------------------------------------------------------------------
(* A clause that was accepted.                                             *)

\* A sequence differs from the one that is longer by an element.
LEMMA LongerDiffers ==
    ASSUME NEW S, NEW s \in Seq(S), NEW c
    PROVE  s \o <<c>> # s
<1>1. s \in Seq(S \cup {c}) /\ <<c>> \in Seq(S \cup {c}) /\ Len(<<c>>) = 1
  OBVIOUS
<1>2. Len(s \o <<c>>) = Len(s) + 1 /\ Len(s) \in Nat
  BY <1>1
<1> QED BY <1>2

\* Lowering keeps a scalar of a comparable type and its content's type.
LEMMA LowerScalar ==
    ASSUME NEW v, StarlarkValue(v), NEW x \in lowerScalar(v)
    PROVE  /\ x.t \in Scalar
           /\ x.t = "num" => x.num \in Int /\ x = Num(x.num)
           /\ x.t = "str" => x.str \in Seq(STRING) /\ x = Str(x.str)
           /\ x.t = "bool" => x.bool \in BOOLEAN /\ x = Bool(x.bool)
<1>1. CASE v.t \in {"str", "bool", "num"}
  <2>1. x = v
    BY <1>1 DEF lowerScalar
  <2> QED BY <1>1, <2>1 DEF StarlarkValue, Scalar
<1>2. CASE v.t = "int"
  <2>1. x = Num(v.num) /\ v.num \in Int
    BY <1>2 DEF lowerScalar, StarlarkValue
  <2> QED BY <2>1 DEF Num, Scalar
<1>3. CASE v.t \notin {"str", "bool", "num", "int"}
  BY <1>3 DEF lowerScalar
<1> QED BY <1>1, <1>2, <1>3

\* A constant of a comparable type.
Constant(w) == w.t \in Scalar /\ (w = Num(w.num) \/ w = Str(w.str) \/ w = Bool(w.bool))

\* A list that is accepted is not empty and holds such constants, all of one type.
LEMMA LowerList ==
    ASSUME NEW v, StarlarkValue(v), v.t = "list" => \A u \in ToSet(v.list) : StarlarkValue(u),
           NEW x \in lowerList(v)
    PROVE  /\ x.t = "list" /\ 1 \in DOMAIN x.list
           /\ \A i \in DOMAIN x.list : Constant(x.list[i]) /\ x.list[i].t = x.list[1].t
<1> DEFINE items == [i \in DOMAIN v.list |-> CHOOSE y \in lowerScalar(v.list[i]) : TRUE]
<1>1. /\ v.t = "list" /\ v.list # <<>>
      /\ \A i \in DOMAIN v.list : lowerScalar(v.list[i]) # {}
      /\ x = List(items)
      /\ \A i \in DOMAIN items : items[i].t = items[1].t
  BY DEF lowerList
<1>2. v.list \in Seq(ToSet(v.list))
  BY <1>1 DEF StarlarkValue
<1>3. 1 \in DOMAIN v.list
  BY <1>1, <1>2
<1>4. ASSUME NEW i \in DOMAIN v.list PROVE Constant(items[i])
  <2>1. StarlarkValue(v.list[i]) /\ items[i] \in lowerScalar(v.list[i])
    BY <1>1, <1>4 DEF ToSet
  <2> HIDE DEF items
  <2> QED BY <2>1, LowerScalar DEF Constant, Scalar
<1>5. x.t = "list" /\ x.list = items /\ DOMAIN items = DOMAIN v.list
  BY <1>1 DEF List
<1>6. \A i \in DOMAIN items : items[i].t = items[1].t
  BY <1>1
<1> HIDE DEF items
<1> QED BY <1>3, <1>4, <1>5, <1>6

\* A constant that lowerValue accepts for an operator leaves it a value to hold for.
LEMMA ValueIsLive ==
    ASSUME NEW v, StarlarkValue(v), v.t = "list" => \A u \in ToSet(v.list) : StarlarkValue(u),
           NEW op \in matchOps \ {"exists"}, NEW x \in lowerValue(op, v),
           NEW p, p.op = op, p.value = x
    PROVE  \E w \in Witnesses(p) : Holds(w, p.op, p.value)
<1>1. CASE op = "in"
  <2>1. x.t = "list" /\ 1 \in DOMAIN x.list /\ x.list[1].t \in Scalar
    BY <1>1, LowerList DEF lowerValue, Constant
  <2>2. Witnesses(p) = {x.list[1]}
    BY <1>1 DEF Witnesses, OrderOps
  <2>3. scalarEqual(x.list[1], x.list[1])
    BY <2>1 DEF scalarEqual, scalarComparable
  <2>4. Holds(x.list[1], "in", x)
    BY <2>1, <2>3 DEF Holds
  <2> QED BY <1>1, <2>2, <2>4
<1>2. CASE op # "in"
  <2>1. x \in lowerScalar(v) /\ (op = "prefix" => x.t = "str") /\ (op \in OrderOps => x.t = "num")
    BY <1>2 DEF lowerValue
  <2>2. /\ x.t \in Scalar
        /\ x.t = "num" => x.num \in Int /\ x = Num(x.num)
        /\ x.t = "str" => x.str \in Seq(STRING) /\ x = Str(x.str)
        /\ x.t = "bool" => x.bool \in BOOLEAN /\ x = Bool(x.bool)
    BY <2>1, LowerScalar
  <2>3. CASE op = "=="
    <3>1. Witnesses(p) = {x}
      BY <2>3 DEF Witnesses, OrderOps
    <3>2. Holds(x, "==", x)
      BY <2>2 DEF Holds, scalarEqual, scalarComparable
    <3> QED BY <2>3, <3>1, <3>2
  <2>4. CASE op = "prefix"
    <3>1. Witnesses(p) = {x}
      BY <2>4 DEF Witnesses, OrderOps
    <3>2. x.t = "str" /\ x.str \in Seq(STRING)
      BY <2>1, <2>2, <2>4
    <3>3. IsPrefix(x.str, x.str)
      BY <3>2 DEF IsPrefix
    <3>4. Holds(x, "prefix", x)
      BY <3>2, <3>3 DEF Holds
    <3> QED BY <2>4, <3>1, <3>4
  <2>5. CASE op \in OrderOps
    <3>1. x.t = "num" /\ x.num \in Int
      BY <2>1, <2>2, <2>5
    <3>2. Witnesses(p) = {Num(x.num - 1), x, Num(x.num + 1)}
      BY <2>5, <3>1 DEF Witnesses, OrderOps
    <3>3. /\ Num(x.num - 1).t = "num" /\ Num(x.num - 1).num = x.num - 1
          /\ Num(x.num + 1).t = "num" /\ Num(x.num + 1).num = x.num + 1
      BY DEF Num
    <3>4. /\ op = "<" => Holds(Num(x.num - 1), op, x)
          /\ op = "<=" => Holds(x, op, x)
          /\ op = ">" => Holds(Num(x.num + 1), op, x)
          /\ op = ">=" => Holds(x, op, x)
      BY <3>1, <3>3 DEF Holds, BothNumbers
    <3> QED BY <2>5, <3>2, <3>4 DEF OrderOps
  <2>6. CASE op = "!="
    <3>1. CASE x.t = "num"
      <4>1. Witnesses(p) = {Num(x.num + 1)}
        BY <2>6, <3>1 DEF Witnesses, OrderOps
      <4>2. x.num + 1 # x.num /\ Num(x.num + 1).t = "num" /\ Num(x.num + 1).num = x.num + 1
        BY <2>2, <3>1 DEF Num
      <4>3. Holds(Num(x.num + 1), "!=", x)
        BY <3>1, <4>2 DEF Holds, scalarEqual, scalarComparable, Scalar
      <4> QED BY <2>6, <4>1, <4>3
    <3>2. CASE x.t = "str"
      <4> DEFINE y == x.str \o <<"x">>
      <4>1. Witnesses(p) = {Str(y)}
        BY <2>6, <3>2 DEF Witnesses, OrderOps
      <4>2. y # x.str
        BY <2>2, <3>2, LongerDiffers
      <4> HIDE DEF y
      <4>3. Str(y).t = "str" /\ Str(y).str = y
        BY DEF Str
      <4>4. Holds(Str(y), "!=", x)
        BY <3>2, <4>2, <4>3 DEF Holds, scalarEqual, scalarComparable, Scalar
      <4> QED BY <2>6, <4>1, <4>4
    <3>3. CASE x.t = "bool"
      <4>1. Witnesses(p) = {Bool(~x.bool)}
        BY <2>6, <3>3 DEF Witnesses, OrderOps
      <4>2. Bool(~x.bool).t = "bool" /\ Bool(~x.bool) # x
        BY <2>2, <3>3 DEF Bool
      <4>3. Holds(Bool(~x.bool), "!=", x)
        BY <3>3, <4>2 DEF Holds, scalarEqual, scalarComparable, Scalar
      <4> QED BY <2>6, <4>1, <4>3
    <3> QED BY <2>2, <3>1, <3>2, <3>3 DEF Scalar
  <2> QED BY <1>2, <2>3, <2>4, <2>5, <2>6 DEF matchOps, OrderOps
<1> QED BY <1>1, <1>2

\* A path has a segment.
LEMMA SplitFacts ==
    ASSUME NEW s, s \in Seq(STRING)
    PROVE  Len(Split(s)) \in Nat \ {0}
<1> DEFINE dots == {i \in DOMAIN s : s[i] = "."}
           cuts == {0, Len(s) + 1} \cup dots
           at(k) == CHOOSE i \in cuts : Cardinality({j \in cuts : j < i}) = k
<1>1. IsFiniteSet(dots)
  <2>1. 1 \in Int /\ Len(s) \in Int /\ DOMAIN s = 1..Len(s)
    OBVIOUS
  <2>2. IsFiniteSet(1..Len(s))
    BY <2>1, FS_Interval
  <2>3. dots \in SUBSET (1..Len(s))
    BY <2>1
  <2> QED BY <2>2, <2>3, FS_Subset
<1>2. Len(s) \in Nat
  OBVIOUS
<1> HIDE DEF dots
<1>3. IsFiniteSet({0}) /\ Cardinality({0}) = 1
  BY FS_Singleton
<1>4. IsFiniteSet({Len(s) + 1} \cup dots)
  BY <1>1, FS_AddElement
<1>5. IsFiniteSet(cuts) /\ Cardinality(cuts) \in Nat
  <2>1. cuts = ({Len(s) + 1} \cup dots) \cup {0}
    OBVIOUS
  <2>2. IsFiniteSet(cuts)
    BY <1>4, <2>1, FS_AddElement
  <2> QED BY <2>2, FS_CardinalityType
<1>6. {0} \in SUBSET cuts /\ {0} # cuts
  BY <1>2
<1> HIDE DEF cuts
<1>7. Cardinality(cuts) > 1
  BY <1>3, <1>5, <1>6, FS_Subset
<1>8. Split(s) = [k \in 1..(Cardinality(cuts) - 1) |-> SubSeq(s, at(k - 1) + 1, at(k) - 1)]
  BY DEF Split, cuts, dots
<1> HIDE DEF at
<1> DEFINE n == Cardinality(cuts) - 1
<1>9. n \in Nat \ {0}
  BY <1>5, <1>7
<1>10. Split(s) = [k \in 1..n |-> SubSeq(s, at(k - 1) + 1, at(k) - 1)]
  BY <1>8
<1> HIDE DEF n
<1>11. Len(Split(s)) = n
  BY <1>9, <1>10
<1> QED BY <1>9, <1>11

\* What a predicate of an accepted match is made of: a path with a segment, and an
\* operator with a value lowered for it.
Lowered(op, v, x) ==
    /\ StarlarkValue(v) /\ (v.t = "list" => \A u \in ToSet(v.list) : StarlarkValue(u))
    /\ x \in lowerValue(op, v)
Predicate(p) ==
    /\ Len(p.path) \in Nat \ {0} /\ p.op \in matchOps
    /\ p.op # "exists" => \E v : Lowered(p.op, v, p.value)

\* That is what lowerMatch makes of a match.
LEMMA MatchFacts ==
    ASSUME NEW m, \A v \in ClauseConstants(m) : StarlarkValue(v),
           NEW preds \in lowerMatch(m), NEW n \in DOMAIN preds
    PROVE  Predicate(preds[n])
<1> DEFINE L == m.map["all"].list
<1>1. /\ m.t = "dict" /\ DOMAIN m.map = {"all"} /\ m.map["all"].t = "list"
      /\ \A i \in DOMAIN L : lowerClause(L[i]) # {}
      /\ preds = [i \in DOMAIN L |-> CHOOSE p \in lowerClause(L[i]) : TRUE]
  BY DEF lowerMatch
<1>2. n \in DOMAIN L /\ preds[n] \in lowerClause(L[n])
  BY <1>1
<1> DEFINE cl == L[n]
           op == Head(cl.list[2].str)
           p == preds[n]
           pred(x) == [path |-> Split(cl.list[1].str), op |-> op, value |-> x]
<1>3. /\ cl.t = "list" /\ Len(cl.list) \in 2..3 /\ op \in matchOps /\ cl.list[1].t = "str"
      /\ p \in CASE op = "exists" /\ Len(cl.list) = 2 -> {pred(Null)}
                 [] op # "exists" /\ Len(cl.list) = 3 -> {pred(x) : x \in lowerValue(op, cl.list[3])}
                 [] OTHER -> {}
  BY <1>2 DEF lowerClause
<1>4. ASSUME NEW k \in 1..Len(cl.list), NEW v, v = cl.list[k]
      PROVE  StarlarkValue(v) /\ (v.t = "list" => \A u \in ToSet(v.list) : StarlarkValue(u))
  <2> DEFINE C == {c \in ToSet(L) : c.t = "list"}
             given == UNION {{c.list[i] : i \in 1..Len(c.list)} : c \in C}
  <2>1. ClauseConstants(m) = given \cup UNION {ToSet(u.list) : u \in {z \in given : z.t = "list"}}
    BY <1>1 DEF ClauseConstants
  <2>2. cl \in C
    BY <1>2, <1>3 DEF ToSet
  <2> HIDE DEF C, cl
  <2>3. v \in given
    BY <1>4, <2>2
  <2> HIDE DEF given
  <2> QED BY <2>1, <2>3
<1>5. Len(Split(cl.list[1].str)) \in Nat \ {0}
  <2>1. 1 \in 1..Len(cl.list)
    <3> HIDE DEF cl, op, p
    <3> QED BY <1>3
  <2>2. PICK v : v = cl.list[1]
    OBVIOUS
  <2>3. StarlarkValue(v) /\ v.t = "str"
    BY <1>3, <1>4, <2>1, <2>2
  <2>4. Len(Split(v.str)) \in Nat \ {0}
    BY <2>3, SplitFacts DEF StarlarkValue
  <2> QED BY <2>2, <2>4
<1>6. CASE op = "exists" /\ Len(cl.list) = 2
  <2>1. p = pred(Null)
    BY <1>3, <1>6
  <2>2. p.op = op /\ p.path = Split(cl.list[1].str)
    BY <2>1
  <2> HIDE DEF p, op, cl
  <2> QED BY <1>3, <1>5, <1>6, <2>2 DEF Predicate, p
<1>7. CASE op # "exists" /\ Len(cl.list) = 3
  <2>1. PICK v : v = cl.list[3]
    OBVIOUS
  <2>2. PICK x \in lowerValue(op, v) : p = pred(x)
    BY <1>3, <1>7, <2>1
  <2>3. p.op = op /\ p.value = x /\ p.path = Split(cl.list[1].str)
    BY <2>2
  <2>4. 3 \in 1..Len(cl.list)
    BY <1>7
  <2>5. StarlarkValue(v) /\ (v.t = "list" => \A u \in ToSet(v.list) : StarlarkValue(u))
    BY <1>4, <2>1, <2>4
  <2> HIDE DEF p, op, cl
  <2>6. Lowered(p.op, v, p.value)
    BY <2>2, <2>3, <2>5 DEF Lowered
  <2> QED BY <1>3, <1>5, <2>3, <2>6 DEF Predicate, p
<1>8. CASE ~(op = "exists" /\ Len(cl.list) = 2) /\ ~(op # "exists" /\ Len(cl.list) = 3)
  BY <1>3, <1>8
<1> QED BY <1>6, <1>7, <1>8

\* The compiled rules of a directory have such predicates only.
LEMMA RuleFacts ==
    ASSUME NEW S \in RuleSets, NEW r \in CompileDir(S), NEW n \in DOMAIN r.match
    PROVE  Predicate(r.match[n])
<1>1. PICK q \in S : r \in CompileRule(q)
  BY DEF CompileDir
<1>2. PICK preds \in IF q.match.t = "absent" THEN {<<>>} ELSE lowerMatch(q.match) :
         r = [q EXCEPT !.match = preds]
  BY <1>1 DEF CompileRule
<1>3. r.match = preds
  BY <1>1, <1>2, ReplayAssumption
<1>4. q.match.t # "absent" /\ preds \in lowerMatch(q.match)
  BY <1>2, <1>3
<1>5. \A v \in ClauseConstants(q.match) : StarlarkValue(v)
  BY <1>1, ReplayAssumption
<1> QED BY <1>3, <1>4, <1>5, MatchFacts

\* The rules of a snapshot are compiled rules of its directory.
Snapshot ==
    /\ dirs \in [Runs -> RuleSets]
    /\ phase \in Runs => \A i \in DOMAIN rules : rules[i] \in CompileDir(dirs[phase])

\* A snapshot is what Start compiled.
LEMMA SnapshotInv == Spec => []Snapshot
<1>1. Init => Snapshot
  BY DEF Init, Snapshot, Runs
<1>2. Snapshot /\ [Next]_vars => Snapshot'
  <2> SUFFICES ASSUME Snapshot, [Next]_vars PROVE Snapshot'
    OBVIOUS
  <2>1. ASSUME NEW run \in Runs, Start(run), UNCHANGED inputs PROVE Snapshot'
    <3>1. PICK s \in SortedRules(CompileDir(dirs[run])) : rules' = s
      BY <2>1 DEF Start
    <3>2. s \in SetToSeqs(CompileDir(dirs[run]))
      BY <3>1 DEF SortedRules
    <3>3. s \in [1..Cardinality(CompileDir(dirs[run])) -> CompileDir(dirs[run])]
      BY <3>2 DEF SetToSeqs
    <3>4. \A i \in DOMAIN rules' : rules'[i] \in CompileDir(dirs[run])
      BY <3>1, <3>3
    <3>5. phase' = run /\ dirs' = dirs
      BY <2>1 DEF Start, inputs
    <3>6. CompileDir(dirs[phase])' = CompileDir(dirs[run])
      BY <3>5
    <3> QED BY <3>4, <3>5, <3>6 DEF Snapshot
  <2>2. CASE Load
    <3>1. CASE Start("first")
      BY <2>1, <2>2, <3>1 DEF Load, Runs
    <3>2. CASE phase' = "error"
      BY <2>2, <3>2 DEF Load, Snapshot, inputs, Runs
    <3> QED BY <2>2, <3>1, <3>2 DEF Load
  <2>3. CASE FinishFirst
    BY <2>1, <2>3 DEF FinishFirst, Runs
  <2>4. CASE FinishSecond
    BY <2>4 DEF FinishSecond, Snapshot, inputs, Runs
  <2>5. CASE UNCHANGED <<inputs, phase, rules>>
    BY <2>5 DEF Snapshot, inputs
  <2>6. ASSUME NEW w \in team, Dequeue(w) \/ Evaluate(w) PROVE Snapshot'
    BY <2>5, <2>6 DEF Dequeue, Evaluate
  <2>7. CASE Tick
    BY <2>5, <2>7 DEF Tick
  <2> QED BY <2>2, <2>3, <2>4, <2>5, <2>6, <2>7 DEF Next, Done, vars
<1> QED BY <1>1, <1>2, PTL DEF Spec

-----------------------------------------------------------------------------
(* Each entry once.                                                        *)

Held == {w \in team : busy[w] # NoEvent}
IsSeq(s) == s \in Seq({s[k] : k \in DOMAIN s})

\* An entry is in the input channel, in a worker, or has a result under its id.
Reached(i) ==
    \/ \E j \in DOMAIN queue : queue[j] = i
    \/ \E w \in team : busy[w] = i
    \/ \E k \in DOMAIN out : out[k].id = trace[i].id

\* The inductive invariant: how many entries are where while a pool runs, and that
\* each one is somewhere.
EntriesInv ==
    /\ trace \in Traces
    /\ phase \in {"load", "error", "report"} \cup Runs
    /\ queue \in Seq(Nat)
    /\ busy \in [team -> Nat \cup {NoEvent}]
    /\ IsSeq(out)
    /\ IsFiniteSet(Held)
    /\ Len(queue) + Cardinality(Held) + Len(out)
          = IF phase \in Runs \cup {"report"} THEN Len(trace) ELSE 0
    /\ phase \in Runs => \A i \in DOMAIN trace : Reached(i)
    /\ phase = "report" => report.changed + report.unchanged = Len(trace)

\* Appending keeps a sequence a sequence, its elements, and adds one.
LEMMA AppendSeq ==
    ASSUME NEW s, IsSeq(s), NEW x, NEW t, t = Append(s, x)
    PROVE  /\ IsSeq(t) /\ Len(t) = Len(s) + 1
           /\ \A k \in DOMAIN s : k \in DOMAIN t /\ t[k] = s[k]
           /\ \E k \in DOMAIN t : t[k] = x
<1> DEFINE S == {s[k] : k \in DOMAIN s}
           T == S \cup {x}
<1>1. s \in Seq(T) /\ Len(s) \in Nat
  <2>1. s \in Seq(S)
    BY DEF IsSeq
  <2> HIDE DEF S
  <2> QED BY <2>1
<1>2. /\ t \in Seq(T) /\ Len(t) = Len(s) + 1 /\ DOMAIN t = 1..(Len(s) + 1) /\ DOMAIN s = 1..Len(s)
      /\ \A k \in 1..Len(s) : t[k] = s[k]
      /\ t[Len(s) + 1] = x
  <2> HIDE DEF T
  <2>1. x \in T
    BY DEF T
  <2> QED BY <1>1, <2>1
<1>3. t \in Seq({t[k] : k \in DOMAIN t})
  BY <1>1, <1>2
<1> QED BY <1>1, <1>2, <1>3 DEF IsSeq

\* Start fills the channel with every position and leaves the workers idle.
LEMMA StartEntries ==
    ASSUME EntriesInv, NEW run \in Runs, Start(run), UNCHANGED <<inputs, report>>
    PROVE  EntriesInv'
<1>1. /\ queue' = [i \in DOMAIN trace |-> i] /\ busy' = [w \in team |-> NoEvent]
      /\ out' = <<>> /\ phase' = run /\ trace' = trace /\ team' = team
  BY DEF Start, inputs
<1>2. trace \in Seq(ToSet(trace))
  BY ReplayAssumption DEF EntriesInv
<1>3. Len(trace) \in Nat /\ DOMAIN trace = 1..Len(trace)
  <2> DEFINE S == ToSet(trace)
  <2>1. trace \in Seq(S)
    BY <1>2
  <2> HIDE DEF S
  <2> QED BY <2>1
<1>4. queue' \in Seq(Nat) /\ Len(queue') = Len(trace)
  BY <1>1, <1>3
<1>5. Held' = {}
  BY <1>1 DEF Held
<1>6. IsFiniteSet(Held') /\ Cardinality(Held') = 0
  BY <1>5, FS_EmptySet
<1>7. IsSeq(out') /\ Len(out') = 0
  BY <1>1 DEF IsSeq
<1>8. \A i \in DOMAIN trace : Reached(i)'
  BY <1>1 DEF Reached
<1>9. run # "report" /\ run \in {"load", "error", "report"} \cup Runs
  BY DEF Runs
<1> QED BY <1>1, <1>3, <1>4, <1>6, <1>7, <1>8, <1>9 DEF EntriesInv

\* A worker takes the head of the channel.
LEMMA DequeueEntries ==
    ASSUME EntriesInv, NEW w \in team, Dequeue(w)
    PROVE  EntriesInv'
<1>1. /\ phase \in Runs /\ busy[w] = NoEvent /\ queue # <<>>
      /\ busy' = [busy EXCEPT ![w] = Head(queue)] /\ queue' = Tail(queue)
      /\ phase' = phase /\ trace' = trace /\ team' = team /\ out' = out /\ report' = report
  BY DEF Dequeue, inputs
<1>2. /\ queue \in Seq(Nat) /\ busy \in [team -> Nat \cup {NoEvent}] /\ IsFiniteSet(Held)
  BY DEF EntriesInv
<1>3. /\ Head(queue) \in Nat /\ queue' \in Seq(Nat) /\ Len(queue') = Len(queue) - 1 /\ Len(queue) \in Nat
      /\ Head(queue) = queue[1] /\ DOMAIN queue = 1..Len(queue) /\ DOMAIN queue' = 1..(Len(queue) - 1)
      /\ \A j \in 1..(Len(queue) - 1) : queue'[j] = queue[j + 1]
  BY <1>1, <1>2
<1>4. Head(queue) # NoEvent
  BY <1>3, ReplayAssumption
<1>5. Held' = Held \cup {w} /\ w \notin Held
  BY <1>1, <1>2, <1>4 DEF Held
<1>6. IsFiniteSet(Held') /\ Cardinality(Held') = Cardinality(Held) + 1 /\ Cardinality(Held) \in Nat
  BY <1>2, <1>5, FS_AddElement, FS_CardinalityType
<1>7. busy' \in [team' -> Nat \cup {NoEvent}]
  BY <1>1, <1>2, <1>3
<1>8. ASSUME NEW i \in DOMAIN trace PROVE Reached(i)'
  <2>1. Reached(i) /\ i # NoEvent
    <3>1. Reached(i) /\ trace \in Traces
      BY <1>1 DEF EntriesInv
    <3>2. trace \in Seq(ToSet(trace))
      BY <3>1, ReplayAssumption
    <3>3. i \in Nat
      BY <3>2
    <3> QED BY <3>1, <3>3, ReplayAssumption
  <2>2. CASE \E j \in DOMAIN queue : queue[j] = i
    <3>1. PICK j \in 1..Len(queue) : queue[j] = i
      BY <1>3, <2>2
    <3>2. CASE j = 1
      <4>1. busy'[w] = i /\ w \in team'
        BY <1>1, <1>2, <1>3, <3>1, <3>2
      <4> QED BY <4>1 DEF Reached
    <3>3. CASE j # 1
      <4>1. j - 1 \in 1..(Len(queue) - 1) /\ (j - 1) + 1 = j
        BY <1>3, <3>3
      <4>2. j - 1 \in DOMAIN queue' /\ queue'[j - 1] = i
        BY <1>3, <3>1, <4>1
      <4> QED BY <4>2 DEF Reached
    <3> QED BY <3>2, <3>3
  <2>3. CASE \E v \in team : busy[v] = i
    <3>1. PICK v \in team : busy[v] = i
      BY <2>3
    <3>2. v # w
      BY <1>1, <2>1, <3>1
    <3>3. busy'[v] = i /\ v \in team'
      BY <1>1, <1>2, <3>1, <3>2
    <3> QED BY <3>3 DEF Reached
  <2>4. CASE \E k \in DOMAIN out : out[k].id = trace[i].id
    BY <1>1, <2>4 DEF Reached
  <2> QED BY <2>1, <2>2, <2>3, <2>4 DEF Reached
<1>9. \A i \in DOMAIN trace : Reached(i)'
  BY <1>8
<1>10. IsSeq(out) /\ Len(out) \in Nat
  <2> DEFINE S == {out[k] : k \in DOMAIN out}
  <2>1. out \in Seq(S)
    BY DEF EntriesInv, IsSeq
  <2> HIDE DEF S
  <2>2. Len(out) \in Nat
    BY <2>1
  <2> QED BY <2>2 DEF EntriesInv
<1>11. Len(queue) + Cardinality(Held) + Len(out) = Len(trace) /\ phase # "report"
  BY <1>1 DEF EntriesInv, Runs
<1>12. Len(queue') + Cardinality(Held') + Len(out) = Len(trace)
  BY <1>3, <1>6, <1>10, <1>11
<1> QED BY <1>1, <1>3, <1>6, <1>7, <1>9, <1>10, <1>11, <1>12 DEF EntriesInv

\* The result a worker sends.
Entry(p, acc) ==
    [pos |-> p, id |-> trace[p].id, verdict |-> resolveVerdict(acc.triggered),
     rules |-> [i \in DOMAIN acc.triggered |-> acc.triggered[i].id], failed |-> acc.failed]

\* A worker sends the result of the entry it held, under the entry's id.
LEMMA EvaluateEntries ==
    ASSUME EntriesInv, NEW w \in team, Evaluate(w)
    PROVE  EntriesInv'
<1>1. PICK x : /\ phase \in Runs /\ busy[w] # NoEvent
               /\ out' = Append(out, x) /\ x.id = trace[busy[w]].id
               /\ busy' = [busy EXCEPT ![w] = NoEvent]
               /\ queue' = queue /\ phase' = phase /\ trace' = trace /\ team' = team /\ report' = report
  <2>1. PICK f \in Faults : out' = Append(out, Entry(busy[w], processEvent(trace[busy[w]], f)))
    BY DEF Evaluate, Entry
  <2>2. Entry(busy[w], processEvent(trace[busy[w]], f)).id = trace[busy[w]].id
    BY DEF Entry
  <2> QED BY <2>1, <2>2 DEF Evaluate, inputs
<1>2. /\ queue \in Seq(Nat) /\ busy \in [team -> Nat \cup {NoEvent}] /\ IsFiniteSet(Held) /\ IsSeq(out)
  BY DEF EntriesInv
<1>3. /\ IsSeq(out') /\ Len(out') = Len(out) + 1
      /\ \A k \in DOMAIN out : k \in DOMAIN out' /\ out'[k] = out[k]
      /\ \E k \in DOMAIN out' : out'[k] = x
  <2>1. PICK s, t : s = out /\ t = out'
    OBVIOUS
  <2>2. IsSeq(s) /\ t = Append(s, x)
    BY <1>1, <1>2, <2>1
  <2>3. /\ IsSeq(t) /\ Len(t) = Len(s) + 1
        /\ \A k \in DOMAIN s : k \in DOMAIN t /\ t[k] = s[k]
        /\ \E k \in DOMAIN t : t[k] = x
    <3>1. IsSeq(t)
      BY <2>2, AppendSeq
    <3>2. Len(t) = Len(s) + 1
      BY <2>2, AppendSeq
    <3>3. \A k \in DOMAIN s : k \in DOMAIN t /\ t[k] = s[k]
      BY <2>2, AppendSeq
    <3>4. \E k \in DOMAIN t : t[k] = x
      BY <2>2, AppendSeq
    <3> QED BY <3>1, <3>2, <3>3, <3>4
  <2> QED BY <2>1, <2>3
<1>4. Held' = Held \ {w} /\ w \in Held
  BY <1>1, <1>2 DEF Held
<1>5. IsFiniteSet(Held') /\ Cardinality(Held') = Cardinality(Held) - 1 /\ Cardinality(Held) \in Nat
  BY <1>2, <1>4, FS_RemoveElement, FS_CardinalityType
<1>6. busy' \in [team' -> Nat \cup {NoEvent}]
  BY <1>1, <1>2
<1>7. ASSUME NEW i \in DOMAIN trace PROVE Reached(i)'
  <2>1. Reached(i)
    BY <1>1 DEF EntriesInv
  <2>2. CASE \E j \in DOMAIN queue : queue[j] = i
    BY <1>1, <2>2 DEF Reached
  <2>3. CASE \E v \in team : busy[v] = i
    <3>1. PICK v \in team : busy[v] = i
      BY <2>3
    <3>2. CASE v = w
      <4>1. \E k \in DOMAIN out' : out'[k].id = trace[i].id
        BY <1>1, <1>3, <3>1, <3>2
      <4> QED BY <1>1, <4>1 DEF Reached
    <3>3. CASE v # w
      <4>1. busy'[v] = i /\ v \in team'
        BY <1>1, <1>2, <3>1, <3>3
      <4> QED BY <4>1 DEF Reached
    <3> QED BY <3>2, <3>3
  <2>4. CASE \E k \in DOMAIN out : out[k].id = trace[i].id
    <3>1. \E k \in DOMAIN out' : out'[k].id = trace[i].id
      BY <1>3, <2>4
    <3> QED BY <1>1, <3>1 DEF Reached
  <2> QED BY <2>1, <2>2, <2>3, <2>4 DEF Reached
<1>8. \A i \in DOMAIN trace : Reached(i)'
  BY <1>7
<1>9. Len(queue) \in Nat /\ Len(out) \in Nat
  <2> DEFINE S == {out[k] : k \in DOMAIN out}
  <2>1. out \in Seq(S)
    BY <1>2 DEF IsSeq
  <2> HIDE DEF S
  <2> QED BY <1>2, <2>1
<1>10. Len(queue) + Cardinality(Held) + Len(out) = Len(trace) /\ phase # "report"
  BY <1>1 DEF EntriesInv, Runs
<1>11. Len(queue) + Cardinality(Held') + Len(out') = Len(trace)
  BY <1>3, <1>5, <1>9, <1>10
<1> QED BY <1>1, <1>2, <1>3, <1>5, <1>6, <1>8, <1>10, <1>11 DEF EntriesInv

\* When the pool is idle every entry has a result, so that the comparison counts it.
LEMMA DiffCountsAll ==
    ASSUME EntriesInv, phase \in Runs, PoolIdle
    PROVE  Diff(out).changed + Diff(out).unchanged = Len(trace)
<1> DEFINE found == {i \in DOMAIN trace : \E k \in DOMAIN out : out[k].id = trace[i].id}
           new(i) == LastFor(out, trace[i].id)
           diffs == {i \in found : FirstResult(i).verdict # new(i).verdict}
<1>1. Diff(out).changed = Cardinality(diffs) /\ Diff(out).unchanged = Cardinality(found \ diffs)
  BY DEF Diff
<1>2. Len(trace) \in Nat /\ DOMAIN trace = 1..Len(trace)
  <2> DEFINE S == ToSet(trace)
  <2>1. trace \in Seq(S)
    BY ReplayAssumption DEF EntriesInv
  <2> HIDE DEF S
  <2> QED BY <2>1
<1>3. found = 1..Len(trace)
  <2> SUFFICES ASSUME NEW i \in DOMAIN trace PROVE \E k \in DOMAIN out : out[k].id = trace[i].id
    BY <1>2
  <2>1. Reached(i) /\ i # NoEvent
    BY <1>2, ReplayAssumption DEF EntriesInv
  <2>2. DOMAIN queue = {}
    BY DEF PoolIdle
  <2> QED BY <2>1, <2>2 DEF Reached, PoolIdle
<1>4. diffs \subseteq found
  OBVIOUS
<1> HIDE DEF found, diffs
<1>5. IsFiniteSet(found) /\ Cardinality(found) = Len(trace)
  <2>1. /\ IsFiniteSet(1..Len(trace))
        /\ Cardinality(1..Len(trace)) = IF 1 > Len(trace) THEN 0 ELSE Len(trace) - 1 + 1
    BY <1>2, FS_Interval
  <2>2. Cardinality(1..Len(trace)) = Len(trace)
    BY <1>2, <2>1
  <2> QED BY <1>3, <2>1, <2>2
<1>6. IsFiniteSet(diffs) /\ Cardinality(diffs) \in Nat
  BY <1>4, <1>5, FS_Subset, FS_CardinalityType
<1>7. Cardinality(found \ diffs) = Cardinality(found) - Cardinality(diffs)
  <2>1. found \cap diffs = diffs
    BY <1>4
  <2>2. Cardinality(found \ diffs) = Cardinality(found) - Cardinality(found \cap diffs)
    BY <1>5, FS_Difference
  <2> QED BY <2>1, <2>2
<1> QED BY <1>1, <1>2, <1>5, <1>6, <1>7

\* The invariant holds throughout.
LEMMA EntriesInductive == Spec => []EntriesInv
<1>1. Init => EntriesInv
  <2> SUFFICES ASSUME Init PROVE EntriesInv
    OBVIOUS
  <2>1. Held = {}
    BY DEF Init, Held
  <2>2. IsFiniteSet(Held) /\ Cardinality(Held) = 0
    BY <2>1, FS_EmptySet
  <2>3. queue \in Seq(Nat) /\ Len(queue) = 0 /\ IsSeq(out) /\ Len(out) = 0
    BY DEF Init, IsSeq
  <2>4. busy \in [team -> Nat \cup {NoEvent}]
    BY DEF Init
  <2> QED BY <2>2, <2>3, <2>4 DEF Init, EntriesInv, Runs
<1>2. EntriesInv /\ [Next]_vars => EntriesInv'
  <2> SUFFICES ASSUME EntriesInv, [Next]_vars PROVE EntriesInv'
    OBVIOUS
  <2>1. CASE UNCHANGED vars \/ Tick
    BY <2>1 DEF EntriesInv, Held, Reached, IsSeq, vars, inputs, Tick
  <2>2. CASE Load
    <3>1. CASE Start("first")
      BY <2>2, <3>1, StartEntries DEF Load, Runs
    <3>2. CASE phase' = "error" /\ UNCHANGED <<rules, index, poolVars>>
      BY <2>2, <3>2 DEF Load, EntriesInv, Held, Reached, IsSeq, poolVars, inputs, Runs
    <3> QED BY <2>2, <3>1, <3>2 DEF Load
  <2>3. ASSUME NEW w \in team, Dequeue(w) \/ Evaluate(w) PROVE EntriesInv'
    BY <2>3, DequeueEntries, EvaluateEntries
  <2>4. CASE FinishFirst
    BY <2>4, StartEntries DEF FinishFirst, Runs
  <2>5. CASE FinishSecond
    <3>1. report'.changed + report'.unchanged = Len(trace)
      BY <2>5, DiffCountsAll DEF FinishSecond, Runs
    <3>2. /\ phase = "second" /\ phase' = "report"
          /\ trace' = trace /\ team' = team /\ queue' = queue /\ busy' = busy /\ out' = out
      BY <2>5 DEF FinishSecond, inputs, poolVars
    <3>3. Held' = Held /\ IsSeq(out)' = IsSeq(out)
      BY <3>2 DEF Held, IsSeq
    <3> QED BY <3>1, <3>2, <3>3 DEF EntriesInv, Runs
  <2> QED BY <2>1, <2>2, <2>3, <2>4, <2>5 DEF Next, Done
<1> QED BY <1>1, <1>2, PTL DEF Spec

\* No entry of a trace is lost or doubled between the trace, the input channel, the
\* workers and the results, and the report counts each one, as changed or unchanged,
\* for every trace and every pool.
THEOREM EachEntryOnceCorrect == Spec => []EachEntryOnce
<1>1. EntriesInv => EachEntryOnce
  BY DEF EntriesInv, EachEntryOnce, Held
<1> QED BY <1>1, EntriesInductive, PTL

-----------------------------------------------------------------------------
(* The loops of the code, step by step.                                    *)

\* Natural induction over a set: the successors of 0 are all there is. (A set that
\* misses n would have its part below n in bijection with a proper part of itself.)
LEMMA SetInduction ==
    ASSUME NEW S \in SUBSET Nat, 0 \in S, \A n \in S : n + 1 \in S
    PROVE  S = Nat
<1> SUFFICES ASSUME NEW n \in Nat, n \notin S PROVE FALSE
  OBVIOUS
<1> DEFINE A == S \cap (0..n)
           B == {k + 1 : k \in A}
           f == [k \in A |-> k + 1]
<1>1. IsFiniteSet(A)
  <2>1. 0 \in Int /\ n \in Int
    OBVIOUS
  <2>2. IsFiniteSet(0..n)
    BY <2>1, FS_Interval
  <2>3. A \in SUBSET (0..n)
    OBVIOUS
  <2> QED BY <2>2, <2>3, FS_Subset
<1>2. B \subseteq A /\ 0 \in A /\ 0 \notin B
  OBVIOUS
<1>3. f \in Bijection(A, B)
  <2>1. /\ f \in [A -> B] /\ \A a, b \in A : f[a] = f[b] => a = b
        /\ \A t \in B : \E s \in A : f[s] = t
    OBVIOUS
  <2> HIDE DEF A, B, f
  <2> QED BY <2>1, Fun_IsBij
<1> HIDE DEF A, B, f
<1>4. Cardinality(B) = Cardinality(A)
  BY <1>1, <1>3, FS_Bijection, Fun_ExistsBij
<1>5. B = A
  BY <1>1, <1>2, <1>4, FS_Subset
<1> QED BY <1>2, <1>5

\* The loop of buildIndex over the rules of a type, with f its intermediate lists.
OfTypeSteps(f, rs, t) ==
    /\ OfType(rs, t) = f[Len(rs)] /\ f[0] = <<>>
    /\ \A n \in 1..Len(rs) :
          f[n] = IF rs[n].type = t THEN Append(f[n - 1], rs[n]) ELSE f[n - 1]

\* The loop of buildIndex over the rules of a type, step by step.
LEMMA OfTypeLoop ==
    ASSUME NEW R, NEW rs \in Seq(R), NEW t
    PROVE  \E f : OfTypeSteps(f, rs, t)
<1> DEFINE size == Len(rs)
           Body(f, n) == IF n = 0 THEN <<>>
                         ELSE IF rs[n].type = t THEN Append(f[n - 1], rs[n]) ELSE f[n - 1]
           Fix(f, m) == f = [n \in 0..m |-> Body(f, n)]
           V == {m \in Nat : \E f : Fix(f, m)}
<1>1. size \in Nat
  OBVIOUS
<1> HIDE DEF size
<1>2. 0 \in V
  <2> DEFINE g == [n \in 0..0 |-> <<>>]
  <2>1. \A n \in 0..0 : Body(g, n) = <<>>
    OBVIOUS
  <2>2. Fix(g, 0)
    <3> HIDE DEF Body
    <3> QED BY <2>1
  <2> QED BY <2>2
<1>3. \A m \in V : m + 1 \in V
  <2> SUFFICES ASSUME NEW m \in Nat, NEW f, Fix(f, m) PROVE \E g : Fix(g, m + 1)
    <3> HIDE DEF Fix
    <3> QED OBVIOUS
  <2> DEFINE g == [n \in 0..(m + 1) |-> Body(f, n)]
  <2>1. \A n \in 0..m : g[n] = f[n]
    <3> TAKE n \in 0..m
    <3>1. n \in 0..(m + 1)
      OBVIOUS
    <3>2. g[n] = Body(f, n)
      BY <3>1
    <3>3. f[n] = Body(f, n)
      <4> HIDE DEF Body
      <4> QED OBVIOUS
    <3> QED BY <3>2, <3>3
  <2>2. \A n \in 0..(m + 1) : Body(g, n) = Body(f, n)
    <3> HIDE DEF g
    <3> QED BY <2>1
  <2>3. Fix(g, m + 1)
    <3> HIDE DEF Body
    <3> QED BY <2>2
  <2> QED BY <2>3
<1>4. \E h : Fix(h, size)
  <2>1. V \in SUBSET Nat
    <3> HIDE DEF Fix
    <3> QED OBVIOUS
  <2>2. size \in V
    <3> HIDE DEF V
    <3>1. V = Nat
      BY <1>2, <1>3, <2>1, SetInduction
    <3> QED BY <1>1, <3>1
  <2> QED BY <2>2
<1> DEFINE of == CHOOSE f : Fix(f, size)
<1>5. Fix(of, size)
  <2> HIDE DEF Fix
  <2> QED BY <1>4
<1>6. OfType(rs, t) = of[Len(rs)]
  BY DEF OfType, size
<1> HIDE DEF of
<1>7. of[0] = <<>>
  BY <1>1, <1>5
<1>8. \A n \in 1..size :
        of[n] = IF rs[n].type = t THEN Append(of[n - 1], rs[n]) ELSE of[n - 1]
  <2> SUFFICES ASSUME NEW n \in 1..size PROVE of[n] = Body(of, n)
    OBVIOUS
  <2>1. n \in 0..size
    BY <1>1
  <2> HIDE DEF Body
  <2> QED BY <1>5, <2>1
<1> QED BY <1>6, <1>7, <1>8, Zenon DEF size, OfTypeSteps

\* One step of mergeByPriority: the rule it takes next.
MergeStep(a, b, s) ==
    IF s.i <= Len(a) /\ (s.j > Len(b) \/ a[s.i].prio >= b[s.j].prio)
    THEN [i |-> s.i + 1, j |-> s.j, out |-> Append(s.out, a[s.i])]
    ELSE [i |-> s.i, j |-> s.j + 1, out |-> Append(s.out, b[s.j])]

\* The loop of mergeByPriority, with f its intermediate states.
MergeSteps(f, a, b) ==
    /\ mergeByPriority(a, b) = f[Len(a) + Len(b)].out
    /\ f[0] = [i |-> 1, j |-> 1, out |-> <<>>]
    /\ \A n \in 1..(Len(a) + Len(b)) : f[n] = MergeStep(a, b, f[n - 1])

\* The loop of mergeByPriority, step by step.
LEMMA MergeLoop ==
    ASSUME NEW A, NEW B, NEW a \in Seq(A), NEW b \in Seq(B)
    PROVE  \E f : MergeSteps(f, a, b)
<1> DEFINE size == Len(a) + Len(b)
           Body(f, n) == IF n = 0 THEN [i |-> 1, j |-> 1, out |-> <<>>]
                         ELSE MergeStep(a, b, f[n - 1])
           Fix(f, m) == f = [n \in 0..m |-> Body(f, n)]
           V == {m \in Nat : \E f : Fix(f, m)}
<1>1. size \in Nat
  OBVIOUS
<1> HIDE DEF size
<1>2. 0 \in V
  <2> DEFINE g == [n \in 0..0 |-> [i |-> 1, j |-> 1, out |-> <<>>]]
  <2>1. \A n \in 0..0 : Body(g, n) = [i |-> 1, j |-> 1, out |-> <<>>]
    OBVIOUS
  <2>2. Fix(g, 0)
    <3> HIDE DEF Body
    <3> QED BY <2>1
  <2> QED BY <2>2
<1>3. \A m \in V : m + 1 \in V
  <2> SUFFICES ASSUME NEW m \in Nat, NEW f, Fix(f, m) PROVE \E g : Fix(g, m + 1)
    <3> HIDE DEF Fix
    <3> QED OBVIOUS
  <2> DEFINE g == [n \in 0..(m + 1) |-> Body(f, n)]
  <2>1. \A n \in 0..m : g[n] = f[n]
    <3> TAKE n \in 0..m
    <3>1. n \in 0..(m + 1)
      OBVIOUS
    <3>2. g[n] = Body(f, n)
      BY <3>1
    <3>3. f[n] = Body(f, n)
      <4> HIDE DEF Body
      <4> QED OBVIOUS
    <3> QED BY <3>2, <3>3
  <2>2. \A n \in 0..(m + 1) : Body(g, n) = Body(f, n)
    <3> HIDE DEF g
    <3> QED BY <2>1
  <2>3. Fix(g, m + 1)
    <3> HIDE DEF Body
    <3> QED BY <2>2
  <2> QED BY <2>3
<1>4. \E h : Fix(h, size)
  <2>1. V \in SUBSET Nat
    <3> HIDE DEF Fix
    <3> QED OBVIOUS
  <2>2. size \in V
    <3> HIDE DEF V
    <3>1. V = Nat
      BY <1>2, <1>3, <2>1, SetInduction
    <3> QED BY <1>1, <3>1
  <2> QED BY <2>2
<1> DEFINE merge == CHOOSE f : Fix(f, size)
<1>5. Fix(merge, size)
  <2> HIDE DEF Fix
  <2> QED BY <1>4
<1>6. mergeByPriority(a, b) = merge[Len(a) + Len(b)].out
  BY DEF mergeByPriority, size, MergeStep
<1> HIDE DEF merge
<1>7. merge[0] = [i |-> 1, j |-> 1, out |-> <<>>]
  BY <1>1, <1>5
<1>8. \A n \in 1..size : merge[n] = MergeStep(a, b, merge[n - 1])
  <2> SUFFICES ASSUME NEW n \in 1..size PROVE merge[n] = Body(merge, n)
    OBVIOUS
  <2>1. n \in 0..size
    BY <1>1
  <2> HIDE DEF Body
  <2> QED BY <1>5, <2>1
<1> QED BY <1>6, <1>7, <1>8, Zenon DEF size, MergeSteps

\* The loop of resolveVerdict, with f the best rule so far.
VerdictSteps(f, tr) ==
    /\ resolveVerdict(tr) = f[Len(tr)].verdict
    /\ \A n \in 1..Len(tr) :
          f[n] = IF n > 1 /\ ~Beats(tr[n], f[n - 1]) THEN f[n - 1] ELSE tr[n]

\* The loop of resolveVerdict, step by step.
LEMMA VerdictLoop ==
    ASSUME NEW R, NEW tr \in Seq(R), tr # <<>>
    PROVE  \E f : VerdictSteps(f, tr)
<1> DEFINE size == Len(tr)
           Body(f, n) == IF n > 1 /\ ~Beats(tr[n], f[n - 1]) THEN f[n - 1] ELSE tr[n]
           Fix(f, m) == f = [n \in 1..m |-> Body(f, n)]
           V == {m \in Nat : \E f : Fix(f, m)}
<1>1. size \in Nat
  OBVIOUS
<1> HIDE DEF size
<1>2. 0 \in V
  <2> DEFINE g == [n \in 1..0 |-> tr[1]]
  <2>1. \A n \in 1..0 : Body(g, n) = tr[1]
    OBVIOUS
  <2>2. Fix(g, 0)
    <3> HIDE DEF Body
    <3> QED BY <2>1
  <2> QED BY <2>2
<1>3. \A m \in V : m + 1 \in V
  <2> SUFFICES ASSUME NEW m \in Nat, NEW f, Fix(f, m) PROVE \E g : Fix(g, m + 1)
    <3> HIDE DEF Fix
    <3> QED OBVIOUS
  <2> DEFINE g == [n \in 1..(m + 1) |-> Body(f, n)]
  <2>1. \A n \in 1..m : g[n] = f[n]
    <3> TAKE n \in 1..m
    <3>1. n \in 1..(m + 1)
      OBVIOUS
    <3>2. g[n] = Body(f, n)
      BY <3>1
    <3>3. f[n] = Body(f, n)
      <4> HIDE DEF Body
      <4> QED OBVIOUS
    <3> QED BY <3>2, <3>3
  <2>2. \A n \in 1..(m + 1) : Body(g, n) = Body(f, n)
    <3> HIDE DEF g
    <3> QED BY <2>1
  <2>3. Fix(g, m + 1)
    <3> HIDE DEF Body
    <3> QED BY <2>2
  <2> QED BY <2>3
<1>4. \E h : Fix(h, size)
  <2>1. V \in SUBSET Nat
    <3> HIDE DEF Fix
    <3> QED OBVIOUS
  <2>2. size \in V
    <3> HIDE DEF V
    <3>1. V = Nat
      BY <1>2, <1>3, <2>1, SetInduction
    <3> QED BY <1>1, <3>1
  <2> QED BY <2>2
<1> DEFINE best == CHOOSE f : Fix(f, size)
<1>5. Fix(best, size)
  <2> HIDE DEF Fix
  <2> QED BY <1>4
<1>6. resolveVerdict(tr) = best[Len(tr)].verdict
  BY DEF resolveVerdict, size
<1> HIDE DEF best
<1>7. \A n \in 1..size : best[n] = IF n > 1 /\ ~Beats(tr[n], best[n - 1]) THEN best[n - 1] ELSE tr[n]
  <2> SUFFICES ASSUME NEW n \in 1..size PROVE best[n] = Body(best, n)
    OBVIOUS
  <2> HIDE DEF Body
  <2> QED BY <1>5
<1> QED BY <1>6, <1>7, Zenon DEF size, VerdictSteps

\* The loop of processEvent over the rules s of an event, with f its states.
EventSteps(f, e, u, s) ==
    /\ processEvent(e, u) = f[Len(s)]
    /\ f[0] = [counters |-> counters, triggered |-> <<>>, failed |-> {}]
    /\ \A n \in 1..Len(s) : f[n] = evalRule(f[n - 1], s[n], e, u)

\* The loop of processEvent over the rules of an event, step by step.
LEMMA EventLoop ==
    ASSUME NEW R, NEW e, NEW u, RulesForEvent(index, e.type) \in Seq(R)
    PROVE  \E f : EventSteps(f, e, u, RulesForEvent(index, e.type))
<1> DEFINE size == Len(RulesForEvent(index, e.type))
           Body(f, n) == IF n = 0 THEN [counters |-> counters, triggered |-> <<>>, failed |-> {}]
                         ELSE evalRule(f[n - 1], RulesForEvent(index, e.type)[n], e, u)
           Fix(f, m) == f = [n \in 0..m |-> Body(f, n)]
           V == {m \in Nat : \E f : Fix(f, m)}
<1>1. size \in Nat
  OBVIOUS
<1> HIDE DEF size
<1>2. 0 \in V
  <2> DEFINE g == [n \in 0..0 |-> [counters |-> counters, triggered |-> <<>>, failed |-> {}]]
  <2>1. \A n \in 0..0 : Body(g, n) = [counters |-> counters, triggered |-> <<>>, failed |-> {}]
    OBVIOUS
  <2>2. Fix(g, 0)
    <3> HIDE DEF Body
    <3> QED BY <2>1
  <2> QED BY <2>2
<1>3. \A m \in V : m + 1 \in V
  <2> SUFFICES ASSUME NEW m \in Nat, NEW f, Fix(f, m) PROVE \E g : Fix(g, m + 1)
    <3> HIDE DEF Fix
    <3> QED OBVIOUS
  <2> DEFINE g == [n \in 0..(m + 1) |-> Body(f, n)]
  <2>1. \A n \in 0..m : g[n] = f[n]
    <3> TAKE n \in 0..m
    <3>1. n \in 0..(m + 1)
      OBVIOUS
    <3>2. g[n] = Body(f, n)
      BY <3>1
    <3>3. f[n] = Body(f, n)
      <4> HIDE DEF Body
      <4> QED OBVIOUS
    <3> QED BY <3>2, <3>3
  <2>2. \A n \in 0..(m + 1) : Body(g, n) = Body(f, n)
    <3> HIDE DEF g
    <3> TAKE n \in 0..(m + 1)
    <3>1. n = 0 \/ n - 1 \in 0..m
      OBVIOUS
    <3>2. n = 0 \/ g[n - 1] = f[n - 1]
      BY <2>1, <3>1
    <3> QED BY <3>2
  <2>3. Fix(g, m + 1)
    <3> HIDE DEF Body
    <3> QED BY <2>2
  <2> QED BY <2>3
<1>4. \E h : Fix(h, size)
  <2>1. V \in SUBSET Nat
    <3> HIDE DEF Fix
    <3> QED OBVIOUS
  <2>2. size \in V
    <3> HIDE DEF V
    <3>1. V = Nat
      BY <1>2, <1>3, <2>1, SetInduction
    <3> QED BY <1>1, <3>1
  <2> QED BY <2>2
<1> DEFINE acc == CHOOSE f : Fix(f, size)
<1>5. Fix(acc, size)
  <2> HIDE DEF Fix
  <2> QED BY <1>4
<1>6. processEvent(e, u) = acc[Len(RulesForEvent(index, e.type))]
  BY DEF processEvent, size
<1> HIDE DEF acc
<1>7. acc[0] = [counters |-> counters, triggered |-> <<>>, failed |-> {}]
  BY <1>1, <1>5
<1>8. \A n \in 1..size : acc[n] = evalRule(acc[n - 1], RulesForEvent(index, e.type)[n], e, u)
  <2> SUFFICES ASSUME NEW n \in 1..size PROVE acc[n] = Body(acc, n)
    OBVIOUS
  <2>1. n \in 0..size
    BY <1>1
  <2> HIDE DEF Body
  <2> QED BY <1>5, <2>1
<1> QED BY <1>6, <1>7, <1>8, Zenon DEF size, EventSteps

-----------------------------------------------------------------------------
(* Lists of rules in order of priority.                                    *)

\* A sequence of a set's members, each once, by priority.
InOrder(s, R) ==
    /\ s \in Seq(R)
    /\ ToSet(s) = R
    /\ \A i, j \in DOMAIN s : s[i] = s[j] => i = j
    /\ \A i, j \in DOMAIN s : i < j => s[i].prio >= s[j].prio

\* A rule of no higher priority may be added at the end.
LEMMA AppendInOrder ==
    ASSUME NEW R, NEW s, InOrder(s, R), NEW x, x \notin R, \A y \in R : y.prio >= x.prio
    PROVE  InOrder(Append(s, x), R \cup {x})
<1> DEFINE T == R \cup {x}
           t == Append(s, x)
<1>1. s \in Seq(R) /\ s \in Seq(T) /\ x \in T /\ Len(s) \in Nat /\ DOMAIN s = 1..Len(s)
  BY DEF InOrder
<1>2. /\ t \in Seq(T) /\ DOMAIN t = 1..(Len(s) + 1)
      /\ \A k \in 1..Len(s) : t[k] = s[k]
      /\ t[Len(s) + 1] = x
  <2> HIDE DEF T
  <2> QED BY <1>1
<1> HIDE DEF t
<1>3. \A k \in 1..Len(s) : s[k] \in R
  BY <1>1
<1>4. ToSet(t) = T
  <2>1. ToSet(s) = R
    BY DEF InOrder
  <2>2. \A y \in R : \E k \in 1..Len(s) : y = s[k]
    BY <1>1, <2>1 DEF ToSet
  <2>3. \A y \in T : \E k \in DOMAIN t : y = t[k]
    <3> TAKE y \in T
    <3>1. CASE y = x
      BY <1>1, <1>2, <3>1
    <3>2. CASE y \in R
      BY <1>1, <1>2, <2>2, <3>2
    <3> QED BY <3>1, <3>2
  <2>4. \A k \in DOMAIN t : t[k] \in T
    BY <1>1, <1>2, <1>3
  <2> HIDE DEF T
  <2> QED BY <2>3, <2>4 DEF ToSet
<1>5. \A i, j \in DOMAIN t : t[i] = t[j] => i = j
  <2> SUFFICES ASSUME NEW i \in DOMAIN t, NEW j \in DOMAIN t, t[i] = t[j] PROVE i = j
    OBVIOUS
  <2>1. CASE i \in 1..Len(s) /\ j \in 1..Len(s)
    BY <1>1, <1>2, <2>1 DEF InOrder
  <2>2. CASE i \notin 1..Len(s) \/ j \notin 1..Len(s)
    BY <1>1, <1>2, <1>3, <2>2
  <2> QED BY <2>1, <2>2
<1>6. \A i, j \in DOMAIN t : i < j => t[i].prio >= t[j].prio
  <2> SUFFICES ASSUME NEW i \in DOMAIN t, NEW j \in DOMAIN t, i < j PROVE t[i].prio >= t[j].prio
    OBVIOUS
  <2>1. i \in 1..Len(s)
    BY <1>1, <1>2
  <2>2. CASE j \in 1..Len(s)
    BY <1>1, <1>2, <2>1, <2>2 DEF InOrder
  <2>3. CASE j = Len(s) + 1
    BY <1>2, <1>3, <2>1, <2>3
  <2> QED BY <1>1, <1>2, <2>2, <2>3
<1> QED BY <1>2, <1>4, <1>5, <1>6 DEF InOrder, t

\* The rules of a type, in the order of the snapshot.
LEMMA OfTypeInOrder ==
    ASSUME NEW R, NEW rs, InOrder(rs, R), NEW t
    PROVE  InOrder(OfType(rs, t), {r \in R : r.type = t})
<1> DEFINE Upto(m) == {r \in R : r.type = t /\ \E k \in 1..m : rs[k] = r}
<1>1. rs \in Seq(R) /\ Len(rs) \in Nat /\ DOMAIN rs = 1..Len(rs)
  BY DEF InOrder
<1>2. PICK f : OfTypeSteps(f, rs, t)
  BY <1>1, OfTypeLoop
<1> DEFINE V == {m \in Nat : m <= Len(rs) => InOrder(f[m], Upto(m))}
<1>3. 0 \in V
  <2>1. Upto(0) = {}
    OBVIOUS
  <2>2. InOrder(f[0], Upto(0))
    <3> HIDE DEF Upto
    <3> QED BY <1>2, <2>1 DEF InOrder, ToSet, OfTypeSteps
  <2> HIDE DEF Upto
  <2> QED BY <2>2
<1>4. \A m \in V : m + 1 \in V
  <2> SUFFICES ASSUME NEW m \in Nat, m + 1 <= Len(rs), InOrder(f[m], Upto(m))
               PROVE  InOrder(f[m + 1], Upto(m + 1))
    <3> HIDE DEF Upto
    <3> QED BY <1>1
  <2> DEFINE x == rs[m + 1]
  <2>1. m + 1 \in 1..Len(rs) /\ m + 1 - 1 = m /\ 1..(m + 1) = (1..m) \cup {m + 1}
    BY <1>1
  <2>2. f[m + 1] = IF x.type = t THEN Append(f[m], x) ELSE f[m]
    BY <1>2, <2>1 DEF OfTypeSteps
  <2>3. x \in R
    BY <1>1, <2>1
  <2>4. CASE x.type = t
    <3>1. Upto(m + 1) = Upto(m) \cup {x}
      BY <2>1, <2>3, <2>4
    <3>2. x \notin Upto(m)
      BY <1>1, <2>1 DEF InOrder
    <3>3. \A y \in Upto(m) : y.prio >= x.prio
      <4> SUFFICES ASSUME NEW k \in 1..m PROVE rs[k].prio >= x.prio
        OBVIOUS
      <4>1. k \in DOMAIN rs /\ m + 1 \in DOMAIN rs /\ k < m + 1
        BY <1>1, <2>1
      <4> QED BY <4>1 DEF InOrder
    <3> HIDE DEF Upto, x
    <3> QED BY <2>2, <2>4, <3>1, <3>2, <3>3, AppendInOrder
  <2>5. CASE x.type # t
    <3>1. Upto(m + 1) = Upto(m)
      BY <2>1, <2>5
    <3> HIDE DEF Upto, x
    <3> QED BY <2>2, <2>5, <3>1
  <2> QED BY <2>4, <2>5
<1>5. Upto(Len(rs)) = {r \in R : r.type = t}
  BY <1>1 DEF InOrder, ToSet
<1>6. V = Nat
  <2>1. V \in SUBSET Nat
    <3> HIDE DEF Upto
    <3> QED OBVIOUS
  <2> HIDE DEF V
  <2> QED BY <1>3, <1>4, <2>1, SetInduction
<1>7. InOrder(f[Len(rs)], Upto(Len(rs)))
  <2> HIDE DEF Upto
  <2> QED BY <1>1, <1>6
<1> QED BY <1>2, <1>5, <1>7 DEF OfTypeSteps

\* What a merge has taken when its indexes are at i and j, and that nothing taken
\* has a lower priority than what is left.
Taken(a, b, i, j) == {a[k] : k \in 1..(i - 1)} \cup {b[k] : k \in 1..(j - 1)}
Merged(a, b, i, j, merged) ==
    /\ i \in 1..(Len(a) + 1) /\ j \in 1..(Len(b) + 1)
    /\ InOrder(merged, Taken(a, b, i, j))
    /\ \A y \in Taken(a, b, i, j) : \A k \in i..Len(a) : y.prio >= a[k].prio
    /\ \A y \in Taken(a, b, i, j) : \A k \in j..Len(b) : y.prio >= b[k].prio

\* The rule at a's index is taken if none at b's is ahead of it.
LEMMA TakeOne ==
    ASSUME NEW A, NEW B, NEW a, NEW b, InOrder(a, A), InOrder(b, B), A \cap B = {},
           \A r \in A \cup B : r.prio \in Int,
           NEW i \in 1..Len(a), NEW j, NEW merged, Merged(a, b, i, j, merged),
           (j > Len(b)) \/ (a[i].prio >= b[j].prio)
    PROVE  Merged(a, b, i + 1, j, Append(merged, a[i]))
<1>1. /\ a \in Seq(A) /\ Len(a) \in Nat /\ DOMAIN a = 1..Len(a)
      /\ b \in Seq(B) /\ Len(b) \in Nat /\ DOMAIN b = 1..Len(b)
      /\ \A k \in 1..Len(a) : a[k] \in A /\ a[k].prio \in Int
      /\ \A k \in 1..Len(b) : b[k] \in B /\ b[k].prio \in Int
  BY DEF InOrder
<1>2. i + 1 \in 1..(Len(a) + 1) /\ j \in 1..(Len(b) + 1) /\ 1..(i + 1 - 1) = (1..(i - 1)) \cup {i}
  BY <1>1 DEF Merged
<1>3. Taken(a, b, i + 1, j) = Taken(a, b, i, j) \cup {a[i]}
  BY <1>2 DEF Taken
<1>4. a[i] \notin Taken(a, b, i, j)
  <2>1. \A k \in 1..(i - 1) : a[k] # a[i]
    BY <1>1 DEF InOrder
  <2>2. \A k \in 1..(j - 1) : b[k] # a[i]
    BY <1>1, <1>2
  <2> QED BY <2>1, <2>2 DEF Taken
<1>5. \A y \in Taken(a, b, i, j) : y.prio >= a[i].prio
  BY <1>1 DEF Merged
<1>6. InOrder(Append(merged, a[i]), Taken(a, b, i + 1, j))
  BY <1>3, <1>4, <1>5, AppendInOrder DEF Merged
<1>7. \A y \in Taken(a, b, i + 1, j) : \A k \in (i + 1)..Len(a) : y.prio >= a[k].prio
  <2> SUFFICES ASSUME NEW y \in Taken(a, b, i + 1, j), NEW k \in (i + 1)..Len(a)
               PROVE  y.prio >= a[k].prio
    OBVIOUS
  <2>1. k \in 1..Len(a) /\ k \in i..Len(a) /\ i < k
    BY <1>1
  <2>2. CASE y = a[i]
    BY <1>1, <2>1, <2>2 DEF InOrder
  <2>3. CASE y \in Taken(a, b, i, j)
    BY <2>1, <2>3 DEF Merged
  <2> QED BY <1>3, <2>2, <2>3
<1>8. \A y \in Taken(a, b, i + 1, j) : \A k \in j..Len(b) : y.prio >= b[k].prio
  <2> SUFFICES ASSUME NEW y \in Taken(a, b, i + 1, j), NEW k \in j..Len(b)
               PROVE  y.prio >= b[k].prio
    OBVIOUS
  <2>1. k \in 1..Len(b) /\ j \in 1..Len(b) /\ a[i].prio >= b[j].prio
    BY <1>1, <1>2
  <2>2. b[j].prio >= b[k].prio
    <3>1. CASE j = k
      BY <1>1, <2>1, <3>1
    <3>2. CASE j < k
      BY <1>1, <2>1, <3>2 DEF InOrder
    <3> QED BY <1>1, <2>1, <3>1, <3>2
  <2>3. CASE y = a[i]
    <3>1. a[i].prio \in Int /\ b[j].prio \in Int /\ b[k].prio \in Int
      BY <1>1, <2>1
    <3> QED BY <2>1, <2>2, <2>3, <3>1
  <2>4. CASE y \in Taken(a, b, i, j)
    BY <2>1, <2>4 DEF Merged
  <2> QED BY <1>3, <2>3, <2>4
<1> QED BY <1>2, <1>6, <1>7, <1>8 DEF Merged

\* Merging two lists without common members keeps all of them, in order.
LEMMA MergeInOrder ==
    ASSUME NEW A, NEW B, NEW a, NEW b, InOrder(a, A), InOrder(b, B), A \cap B = {},
           \A r \in A \cup B : r.prio \in Int
    PROVE  InOrder(mergeByPriority(a, b), A \cup B)
<1> DEFINE size == Len(a) + Len(b)
<1>1. /\ a \in Seq(A) /\ Len(a) \in Nat /\ DOMAIN a = 1..Len(a)
      /\ b \in Seq(B) /\ Len(b) \in Nat /\ DOMAIN b = 1..Len(b)
      /\ size \in Nat
  BY DEF InOrder
<1>2. PICK f : MergeSteps(f, a, b)
  BY <1>1, MergeLoop
<1> DEFINE At(s, n) == Merged(a, b, s.i, s.j, s.out) /\ s.i + s.j = n + 2
           V == {n \in Nat : n <= size => At(f[n], n)}
<1>3. 0 \in V
  <2>1. f[0] = [i |-> 1, j |-> 1, out |-> <<>>]
    BY <1>2 DEF MergeSteps
  <2>2. Taken(a, b, 1, 1) = {}
    BY DEF Taken
  <2>3. InOrder(<<>>, {})
    BY DEF InOrder, ToSet
  <2>4. Merged(a, b, 1, 1, <<>>)
    <3>1. 1 \in 1..(Len(a) + 1) /\ 1 \in 1..(Len(b) + 1)
      BY <1>1
    <3> QED BY <2>2, <2>3, <3>1 DEF Merged
  <2>5. f[0].i = 1 /\ f[0].j = 1 /\ f[0].out = <<>>
    BY <2>1
  <2> QED BY <2>4, <2>5
<1>4. \A n \in V : n + 1 \in V
  <2> SUFFICES ASSUME NEW n \in Nat, n + 1 <= size, At(f[n], n) PROVE At(f[n + 1], n + 1)
    <3> HIDE DEF At, size
    <3> QED BY <1>1
  <2>1. f[n + 1] = MergeStep(a, b, f[n])
    <3>1. n + 1 \in 1..size /\ n + 1 - 1 = n
      BY <1>1
    <3> QED BY <1>2, <3>1 DEF MergeSteps
  <2>2. PICK i, j, m : i = f[n].i /\ j = f[n].j /\ m = f[n].out
    OBVIOUS
  <2>3. Merged(a, b, i, j, m) /\ i \in 1..(Len(a) + 1) /\ j \in 1..(Len(b) + 1) /\ i + j = n + 2
    BY <2>2 DEF Merged
  <2>4. CASE i <= Len(a) /\ (j > Len(b) \/ a[i].prio >= b[j].prio)
    <3>1. f[n + 1] = [i |-> i + 1, j |-> j, out |-> Append(m, a[i])]
      BY <2>1, <2>2, <2>4 DEF MergeStep
    <3>2. i \in 1..Len(a) /\ (j > Len(b) \/ a[i].prio >= b[j].prio)
      BY <1>1, <2>3, <2>4
    <3>3. Merged(a, b, i + 1, j, Append(m, a[i]))
      BY <2>3, <3>2, TakeOne
    <3>4. f[n + 1].i = i + 1 /\ f[n + 1].j = j /\ f[n + 1].out = Append(m, a[i])
      BY <3>1
    <3>5. i + 1 + j = n + 1 + 2
      BY <2>3
    <3> QED BY <3>3, <3>4, <3>5
  <2>5. CASE ~(i <= Len(a) /\ (j > Len(b) \/ a[i].prio >= b[j].prio))
    <3>1. f[n + 1] = [i |-> i, j |-> j + 1, out |-> Append(m, b[j])]
      BY <2>1, <2>2, <2>5 DEF MergeStep
    <3>2. j \in 1..Len(b) /\ (i > Len(a) \/ b[j].prio >= a[i].prio)
      <4>1. CASE i > Len(a)
        BY <1>1, <2>3, <4>1
      <4>2. CASE i <= Len(a)
        <5>1. i \in 1..Len(a) /\ j \in 1..Len(b)
          BY <1>1, <2>3, <2>5, <4>2
        <5>2. a[i].prio \in Int /\ b[j].prio \in Int
          BY <1>1, <5>1
        <5> QED BY <2>5, <4>2, <5>1, <5>2
      <4> QED BY <1>1, <2>3, <4>1, <4>2
    <3>3. \A x, y : Taken(a, b, x, y) = Taken(b, a, y, x)
      BY DEF Taken
    <3>4. \A x, y, s : Merged(a, b, x, y, s) <=> Merged(b, a, y, x, s)
      BY <3>3 DEF Merged
    <3>5. Merged(b, a, j, i, m)
      BY <2>3, <3>4
    <3>6. Merged(b, a, j + 1, i, Append(m, b[j]))
      BY <3>2, <3>5, TakeOne
    <3>7. f[n + 1].i = i /\ f[n + 1].j = j + 1 /\ f[n + 1].out = Append(m, b[j])
      BY <3>1
    <3>8. i + (j + 1) = n + 1 + 2
      BY <2>3
    <3> QED BY <3>4, <3>6, <3>7, <3>8
  <2> QED BY <2>4, <2>5
<1>5. At(f[size], size)
  <2>1. V \in SUBSET Nat
    <3> HIDE DEF At
    <3> QED OBVIOUS
  <2>2. V = Nat
    <3> HIDE DEF V
    <3> QED BY <1>3, <1>4, <2>1, SetInduction
  <2> HIDE DEF At
  <2> QED BY <1>1, <2>2
<1>6. InOrder(f[size].out, Taken(a, b, Len(a) + 1, Len(b) + 1))
  <2>1. f[size].i = Len(a) + 1 /\ f[size].j = Len(b) + 1
    BY <1>1, <1>5 DEF Merged
  <2> QED BY <1>5, <2>1 DEF Merged
<1>7. Taken(a, b, Len(a) + 1, Len(b) + 1) = A \cup B
  <2>1. {a[k] : k \in 1..(Len(a) + 1 - 1)} = A /\ {b[k] : k \in 1..(Len(b) + 1 - 1)} = B
    BY <1>1 DEF InOrder, ToSet
  <2> QED BY <2>1 DEF Taken
<1> QED BY <1>2, <1>6, <1>7 DEF MergeSteps

\* The index returns the rules of a type and the wildcard rules, in order.
LEMMA IndexInOrder ==
    ASSUME NEW R, NEW rs, InOrder(rs, R), \A r \in R : r.prio \in Int, NEW t
    PROVE  InOrder(RulesForEvent(buildIndex(rs), t), {r \in R : r.type \in {t, "*"}})
<1> DEFINE idx == buildIndex(rs)
           own == {r \in R : r.type = t}
           any == {r \in R : r.type = "*"}
           types == {r.type : r \in ToSet(rs)} \ {"*"}
<1>1. /\ idx.wildcard = OfType(rs, "*") /\ DOMAIN idx.byType = types
      /\ \A u \in types : idx.byType[u] = mergeByPriority(OfType(rs, u), OfType(rs, "*"))
  BY DEF buildIndex
<1>2. InOrder(OfType(rs, "*"), any)
  BY OfTypeInOrder
<1>3. CASE t \in types
  <2>1. RulesForEvent(idx, t) = mergeByPriority(OfType(rs, t), OfType(rs, "*"))
    <3> HIDE DEF idx, types
    <3> QED BY <1>1, <1>3 DEF RulesForEvent
  <2>2. InOrder(OfType(rs, t), own)
    BY OfTypeInOrder
  <2>3. own \cap any = {} /\ own \cup any = {r \in R : r.type \in {t, "*"}}
    BY <1>3
  <2>4. \A r \in own \cup any : r.prio \in Int
    OBVIOUS
  <2> HIDE DEF own, any, idx
  <2>5. InOrder(mergeByPriority(OfType(rs, t), OfType(rs, "*")), own \cup any)
    BY <1>2, <2>2, <2>3, <2>4, MergeInOrder
  <2>6. InOrder(RulesForEvent(idx, t), {r \in R : r.type \in {t, "*"}})
    BY <2>1, <2>3, <2>5
  <2> QED BY <2>6 DEF idx
<1>4. CASE t \notin types
  <2>1. RulesForEvent(idx, t) = OfType(rs, "*")
    <3> HIDE DEF idx, types
    <3> QED BY <1>1, <1>4 DEF RulesForEvent
  <2>2. any = {r \in R : r.type \in {t, "*"}}
    BY <1>4 DEF InOrder
  <2> HIDE DEF idx, any
  <2>3. InOrder(RulesForEvent(idx, t), {r \in R : r.type \in {t, "*"}})
    BY <1>2, <2>1, <2>2
  <2> QED BY <2>3 DEF idx
<1> QED BY <1>3, <1>4

\* A rule that does not beat another.
NotAhead(r, q) ==
    /\ r.prio <= q.prio
    /\ r.prio = q.prio => VerdictWeight(r.verdict) <= VerdictWeight(q.verdict)
Ranked(r) == r.prio \in Int /\ r.verdict \in Verdicts

\* The weights of the verdicts are numbers, each verdict's its own.
LEMMA WeightFacts ==
    /\ \A v \in Verdicts : VerdictWeight(v) \in Nat
    /\ \A v, u \in Verdicts : VerdictWeight(v) = VerdictWeight(u) => v = u
<1>1. VerdictWeight("block") = 3 /\ VerdictWeight("review") = 2 /\ VerdictWeight("approve") = 1
  BY DEF VerdictWeight
<1> QED BY <1>1 DEF Verdicts

\* What beats the best so far is not behind anything before it.
LEMMA BeatsFacts ==
    ASSUME NEW r, NEW best, NEW x, Ranked(r), Ranked(best), Ranked(x), NotAhead(r, best)
    PROVE  /\ Beats(x, best) => NotAhead(r, x)
           /\ ~Beats(x, best) => NotAhead(x, best)
           /\ NotAhead(x, x)
<1>1. /\ VerdictWeight(r.verdict) \in Nat /\ VerdictWeight(best.verdict) \in Nat
      /\ VerdictWeight(x.verdict) \in Nat /\ r.prio \in Int /\ best.prio \in Int /\ x.prio \in Int
  BY WeightFacts DEF Ranked
<1> QED BY <1>1 DEF Beats, NotAhead

\* resolveVerdict returns the verdict of a rule that triggered and that no other beats.
LEMMA VerdictIsBest ==
    ASSUME NEW R, NEW tr \in Seq(R), tr # <<>>, \A r \in R : Ranked(r)
    PROVE  \E k \in 1..Len(tr) : /\ resolveVerdict(tr) = tr[k].verdict
                                 /\ \A n \in 1..Len(tr) : NotAhead(tr[n], tr[k])
<1>1. Len(tr) \in Nat \ {0} /\ \A k \in 1..Len(tr) : Ranked(tr[k])
  OBVIOUS
<1>2. PICK f : VerdictSteps(f, tr)
  BY VerdictLoop
<1> DEFINE IsBest(m, k) == f[m] = tr[k] /\ \A n \in 1..m : NotAhead(tr[n], tr[k])
           V == {m \in Nat : m \in 1..Len(tr) => \E k \in 1..m : IsBest(m, k)}
<1>3. \A m \in V : m + 1 \in V
  <2> SUFFICES ASSUME NEW m \in Nat, m + 1 \in 1..Len(tr),
                      m \in 1..Len(tr) => \E k \in 1..m : IsBest(m, k)
               PROVE  \E k \in 1..(m + 1) : IsBest(m + 1, k)
    <3> HIDE DEF IsBest
    <3> QED OBVIOUS
  <2> DEFINE x == tr[m + 1]
  <2>1. f[m + 1] = IF m + 1 > 1 /\ ~Beats(x, f[m]) THEN f[m] ELSE x
    <3>1. m + 1 - 1 = m
      OBVIOUS
    <3> QED BY <1>2, <3>1 DEF VerdictSteps
  <2>2. Ranked(x) /\ NotAhead(x, x) /\ 1..(m + 1) = (1..m) \cup {m + 1}
    <3>1. Ranked(x)
      BY <1>1
    <3>2. x.prio \in Int /\ VerdictWeight(x.verdict) \in Nat
      BY <3>1, WeightFacts DEF Ranked
    <3> HIDE DEF x
    <3> QED BY <3>1, <3>2 DEF NotAhead
  <2>3. CASE m = 0
    <3>1. f[m + 1] = x /\ 1..(m + 1) = {m + 1}
      BY <2>1, <2>3
    <3> HIDE DEF x
    <3>2. IsBest(m + 1, m + 1)
      BY <2>2, <3>1 DEF x
    <3> QED BY <3>2
  <2>4. CASE m # 0
    <3>1. m \in 1..Len(tr) /\ m + 1 > 1
      BY <2>4
    <3>2. PICK k \in 1..m : IsBest(m, k)
      BY <3>1
    <3>3. Ranked(tr[k]) /\ \A n \in 1..m : Ranked(tr[n])
      BY <1>1, <3>1
    <3>4. CASE Beats(x, tr[k])
      <4>1. f[m + 1] = x
        BY <2>1, <3>2, <3>4
      <4>2. \A n \in 1..m : NotAhead(tr[n], x)
        BY <2>2, <3>2, <3>3, <3>4, BeatsFacts
      <4>3. IsBest(m + 1, m + 1)
        BY <2>2, <4>1, <4>2
      <4> QED BY <4>3
    <3>5. CASE ~Beats(x, tr[k])
      <4>1. f[m + 1] = tr[k]
        BY <2>1, <3>1, <3>2, <3>5
      <4>2. NotAhead(x, tr[k])
        BY <2>2, <3>2, <3>3, <3>5, BeatsFacts
      <4>3. IsBest(m + 1, k)
        BY <2>2, <3>2, <4>1, <4>2
      <4>4. k \in 1..(m + 1)
        OBVIOUS
      <4> QED BY <4>3, <4>4
    <3> QED BY <3>4, <3>5
  <2> QED BY <2>3, <2>4
<1>4. Len(tr) \in V
  <2>1. V \in SUBSET Nat /\ 0 \in V
    <3> HIDE DEF IsBest
    <3> QED OBVIOUS
  <2> HIDE DEF V
  <2>2. V = Nat
    BY <1>3, <2>1, SetInduction
  <2> QED BY <1>1, <2>2
<1>5. Len(tr) \in 1..Len(tr)
  BY <1>1
<1>6. PICK k \in 1..Len(tr) : IsBest(Len(tr), k)
  <2> HIDE DEF IsBest
  <2> QED BY <1>4, <1>5
<1> QED BY <1>2, <1>6 DEF VerdictSteps

-----------------------------------------------------------------------------
(* The rules of one event, and the counters they leave.                    *)

\* What a counter holds, and the rules that advance one: those with a counter whose
\* prefilter lets the event pass.
Reading(c, k) == Len(Stamps(c, k))
Advances(r, e) == r.limit # 0 /\ PrefilterMatch(r.match, e)
Typed(c) == \A k : Stamps(c, k) \in Seq(Nat)

\* At time t nothing has left the window of a counting rule.
Within(R, t) == \A r \in R : r.limit > 0 => t <= r.window

\* The counter of a rule for an event, the counters after the rule ran, and whether
\* it triggers.
Slot(r, e) == <<r.key, e.entity>>
Counted(c, r, e) == IF r.limit = 0 THEN c ELSE Stamped(c, Slot(r, e))
Triggers(c, r, e) == r.limit = 0 \/ InWindow(Counted(c, r, e), Slot(r, e), r.window) >= r.limit

\* A rule is skipped by its prefilter, fails before or after it counts, triggers or not.
Ran(c, tr, fl, r, e, u) ==
    IF ~PrefilterMatch(r.match, e)
    THEN [counters |-> c, triggered |-> tr, failed |-> fl]
    ELSE IF r.id \in u.before
    THEN [counters |-> c, triggered |-> tr, failed |-> fl \cup {r.id}]
    ELSE IF r.id \in u.after
    THEN [counters |-> Counted(c, r, e), triggered |-> tr, failed |-> fl \cup {r.id}]
    ELSE IF Triggers(c, r, e)
    THEN [counters |-> Counted(c, r, e), triggered |-> Append(tr, r), failed |-> fl]
    ELSE [counters |-> Counted(c, r, e), triggered |-> tr, failed |-> fl]

\* That is what evalRule returns.
LEMMA EvalRuleFacts ==
    ASSUME NEW c, NEW tr, NEW fl, NEW r, NEW e, NEW u
    PROVE  evalRule([counters |-> c, triggered |-> tr, failed |-> fl], r, e, u) = Ran(c, tr, fl, r, e, u)
<1> DEFINE acc == [counters |-> c, triggered |-> tr, failed |-> fl]
           C == Counted(c, r, e)
           k == <<r.key, e.entity>>
           counted == [acc EXCEPT !.counters = IF r.limit = 0 THEN @ ELSE Stamped(@, k)]
<1>1. counted = [counters |-> C, triggered |-> tr, failed |-> fl]
  <2>1. C = IF r.limit = 0 THEN acc.counters ELSE Stamped(acc.counters, k)
    BY DEF Counted, Slot
  <2>2. counted = [acc EXCEPT !.counters = C]
    <3> HIDE DEF C, acc
    <3> QED BY <2>1
  <2> HIDE DEF C
  <2> QED BY <2>2
<1>2. evalRule(acc, r, e, u) =
         IF ~PrefilterMatch(r.match, e) THEN acc
         ELSE IF r.id \in u.before THEN [acc EXCEPT !.failed = @ \cup {r.id}]
         ELSE IF r.id \in u.after THEN [counted EXCEPT !.failed = @ \cup {r.id}]
         ELSE IF r.limit = 0 \/ InWindow(counted.counters, k, r.window) >= r.limit
         THEN [counted EXCEPT !.triggered = Append(@, r)]
         ELSE counted
  BY DEF evalRule
<1> HIDE DEF C, counted
<1>3. [acc EXCEPT !.failed = @ \cup {r.id}]
         = [counters |-> c, triggered |-> tr, failed |-> fl \cup {r.id}]
  OBVIOUS
<1>4. [counted EXCEPT !.failed = @ \cup {r.id}]
         = [counters |-> C, triggered |-> tr, failed |-> fl \cup {r.id}]
  BY <1>1
<1>5. [counted EXCEPT !.triggered = Append(@, r)]
         = [counters |-> C, triggered |-> Append(tr, r), failed |-> fl]
  BY <1>1
<1>6. Triggers(c, r, e) <=> r.limit = 0 \/ InWindow(counted.counters, k, r.window) >= r.limit
  <2>1. counted.counters = C
    BY <1>1
  <2> QED BY <2>1 DEF Triggers, Slot, C
<1> HIDE DEF acc, k
<1>7. evalRule(acc, r, e, u) =
         IF ~PrefilterMatch(r.match, e) THEN acc
         ELSE IF r.id \in u.before
         THEN [counters |-> c, triggered |-> tr, failed |-> fl \cup {r.id}]
         ELSE IF r.id \in u.after
         THEN [counters |-> C, triggered |-> tr, failed |-> fl \cup {r.id}]
         ELSE IF Triggers(c, r, e)
         THEN [counters |-> C, triggered |-> Append(tr, r), failed |-> fl]
         ELSE [counters |-> C, triggered |-> tr, failed |-> fl]
  BY <1>1, <1>2, <1>3, <1>4, <1>5, <1>6, Zenon
<1> QED BY <1>7, Zenon DEF acc, C, Ran

\* An increment adds one to its own counter only.
LEMMA StampedFacts ==
    ASSUME NEW c, Typed(c), now \in Nat, NEW k
    PROVE  /\ Typed(Stamped(c, k))
           /\ \A x : Reading(Stamped(c, k), x) = IF x = k THEN Reading(c, k) + 1 ELSE Reading(c, x)
<1> DEFINE b == now - (now % Bucket)
<1>1. b \in Nat
  <2>1. Bucket \in Nat /\ Bucket > 0
    BY ReplayAssumption
  <2>2. now % Bucket \in Nat /\ now % Bucket <= now
    <3>1. CASE now < Bucket
      BY <2>1, <3>1
    <3>2. CASE now >= Bucket
      <4>1. now % Bucket \in 0..(Bucket - 1)
        BY <2>1
      <4> QED BY <2>1, <3>2, <4>1
    <3> QED BY <2>1, <3>1, <3>2
  <2> QED BY <2>2
<1> HIDE DEF b
<1>2. Stamped(c, k) = [x \in DOMAIN c \cup {k} |-> IF x = k THEN Append(Stamps(c, k), b) ELSE c[x]]
  BY DEF Stamped, b
<1>3. \A x : Stamps(Stamped(c, k), x) = IF x = k THEN Append(Stamps(c, k), b) ELSE Stamps(c, x)
  <2> TAKE x
  <2>1. DOMAIN Stamped(c, k) = DOMAIN c \cup {k}
    BY <1>2
  <2>2. CASE x = k
    <3>1. Stamped(c, k)[k] = Append(Stamps(c, k), b)
      BY <1>2
    <3> QED BY <2>1, <2>2, <3>1 DEF Stamps
  <2>3. CASE x # k
    <3>1. x \in DOMAIN c => Stamped(c, k)[x] = c[x]
      BY <1>2, <2>3
    <3> QED BY <2>1, <2>3, <3>1 DEF Stamps
  <2> QED BY <2>2, <2>3
<1>4. /\ Stamps(c, k) \in Seq(Nat)
      /\ Append(Stamps(c, k), b) \in Seq(Nat) /\ Len(Append(Stamps(c, k), b)) = Len(Stamps(c, k)) + 1
  <2>1. PICK z : z = Stamps(c, k)
    OBVIOUS
  <2>2. z \in Seq(Nat)
    BY <2>1 DEF Typed
  <2> QED BY <1>1, <2>1, <2>2
<1>5. PICK y : y = Append(Stamps(c, k), b)
  OBVIOUS
<1>6. Typed(Stamped(c, k))
  BY <1>3, <1>4, <1>5 DEF Typed
<1>7. \A x : Reading(Stamped(c, k), x) = IF x = k THEN Reading(c, k) + 1 ELSE Reading(c, x)
  BY <1>3, <1>4, <1>5 DEF Reading
<1> QED BY <1>6, <1>7

\* Before an increment has left the window, the sum is what the counter holds.
LEMMA WindowFacts ==
    ASSUME NEW c, Typed(c), now \in Nat, NEW k, NEW window \in Nat, now <= window
    PROVE  InWindow(c, k, window) = Reading(c, k)
<1>1. PICK z : z = Stamps(c, k)
  OBVIOUS
<1>2. z \in Seq(Nat) /\ Len(z) \in Nat /\ DOMAIN z = 1..Len(z)
  <2>1. z \in Seq(Nat)
    BY <1>1 DEF Typed
  <2> QED BY <2>1
<1>3. {i \in DOMAIN z : z[i] >= now - window} = 1..Len(z)
  BY <1>2
<1>4. Cardinality(1..Len(z)) = Len(z)
  <2>1. Cardinality(1..Len(z)) = IF 1 > Len(z) THEN 0 ELSE Len(z) - 1 + 1
    BY <1>2, FS_Interval
  <2> QED BY <1>2, <2>1
<1> QED BY <1>1, <1>3, <1>4 DEF InWindow, Reading

\* The first n rules of an event: those that advance the counter of a key, and
\* whether the j-th one triggers, given the counters before the event.
Advancers(s, n, e, key) ==
    {r \in ToSet(s) : Advances(r, e) /\ r.key = key /\ \E j \in 1..n : s[j] = r}
Hit(s, j, e, c) ==
    /\ PrefilterMatch(s[j].match, e)
    /\ \/ s[j].limit = 0
       \/ Reading(c, Slot(s[j], e)) + Cardinality(Advancers(s, j, e, s[j].key)) >= s[j].limit

\* What the first n rules leave if none of them failed and every increment is in its
\* window: the rules that triggered, and each counter with one more for each rule that
\* advanced it.
Outcome(s, n, e, c, acc) ==
    \E d, tr :
        /\ acc = [counters |-> d, triggered |-> tr, failed |-> {}]
        /\ tr \in Seq(ToSet(s))
        /\ ToSet(tr) = {r \in ToSet(s) : \E j \in 1..n : s[j] = r /\ Hit(s, j, e, c)}
        /\ \A key, ent :
              Reading(d, <<key, ent>>)
                 = Reading(c, <<key, ent>>)
                      + IF ent = e.entity THEN Cardinality(Advancers(s, n, e, key)) ELSE 0

\* What they leave in any case: each rule has triggered or failed, not both, or counts,
\* or its prefilter skipped it.
Found(s, n, e, acc) ==
    \E d, tr, fl :
        /\ acc = [counters |-> d, triggered |-> tr, failed |-> fl]
        /\ Typed(d) /\ tr \in Seq(ToSet(s))
        /\ \A r \in ToSet(tr) : r.id \notin fl /\ \E j \in 1..n : s[j] = r
        /\ fl \subseteq {s[j].id : j \in 1..n}
        /\ \A j \in 1..n : s[j].limit = 0 /\ PrefilterMatch(s[j].match, e) =>
              s[j] \in ToSet(tr) \/ s[j].id \in fl

\* The elements of a list that was appended to.
LEMMA AppendMembers ==
    ASSUME NEW R, NEW tr \in Seq(R), NEW x \in R
    PROVE  Append(tr, x) \in Seq(R) /\ ToSet(Append(tr, x)) = ToSet(tr) \cup {x}
<1> DEFINE t == Append(tr, x)
<1>1. /\ t \in Seq(R) /\ DOMAIN t = 1..(Len(tr) + 1) /\ t[Len(tr) + 1] = x
      /\ \A k \in 1..Len(tr) : t[k] = tr[k]
      /\ Len(tr) \in Nat /\ DOMAIN tr = 1..Len(tr)
  OBVIOUS
<1> HIDE DEF t
<1>2. ToSet(t) \subseteq ToSet(tr) \cup {x}
  BY <1>1 DEF ToSet
<1>3. ToSet(tr) \subseteq ToSet(t)
  <2>1. \A k \in 1..Len(tr) : k \in DOMAIN t
    BY <1>1
  <2> QED BY <1>1, <2>1 DEF ToSet
<1>4. x \in ToSet(t)
  <2>1. Len(tr) + 1 \in DOMAIN t
    BY <1>1
  <2> QED BY <1>1, <2>1 DEF ToSet
<1>5. t \in Seq(R) /\ ToSet(t) = ToSet(tr) \cup {x}
  BY <1>1, <1>2, <1>3, <1>4
<1> QED BY <1>5 DEF t

\* One more rule, in any case.
LEMMA FoundStep ==
    ASSUME NEW R, NEW s, InOrder(s, R), \A r, q \in R : r.id = q.id => r = q, NEW e, NEW u,
           now \in Nat, NEW n \in Nat, n + 1 \in 1..Len(s), NEW acc, Found(s, n, e, acc)
    PROVE  /\ Found(s, n + 1, e, evalRule(acc, s[n + 1], e, u))
           /\ acc.failed \subseteq evalRule(acc, s[n + 1], e, u).failed
<1>1. PICK x : x = s[n + 1]
  OBVIOUS
<1>2. PICK d, tr, fl :
        /\ acc = [counters |-> d, triggered |-> tr, failed |-> fl]
        /\ Typed(d) /\ tr \in Seq(ToSet(s))
        /\ \A r \in ToSet(tr) : r.id \notin fl /\ \E j \in 1..n : s[j] = r
        /\ fl \subseteq {s[j].id : j \in 1..n}
        /\ \A j \in 1..n : s[j].limit = 0 /\ PrefilterMatch(s[j].match, e) =>
              s[j] \in ToSet(tr) \/ s[j].id \in fl
  BY DEF Found
<1>3. /\ s \in Seq(R) /\ Len(s) \in Nat /\ DOMAIN s = 1..Len(s) /\ ToSet(s) = R
      /\ 1..(n + 1) = (1..n) \cup {n + 1} /\ x \in R
      /\ \A j \in 1..n : j \in DOMAIN s /\ s[j] # x /\ s[j] \in R
  BY <1>1 DEF InOrder
<1>4. \A j \in 1..n : s[j].id # x.id
  BY <1>3
<1>5. x.id \notin fl /\ \A r \in ToSet(tr) : r.id # x.id
  BY <1>2, <1>4
<1>6. PICK next : next = evalRule(acc, x, e, u)
  OBVIOUS
<1>7. Typed(Counted(d, x, e))
  BY <1>2, StampedFacts DEF Counted
<1>8. next = Ran(d, tr, fl, x, e, u)
  BY <1>2, <1>6, EvalRuleFacts
<1>9. PICK C : C = Counted(d, x, e)
  OBVIOUS
<1>10. PICK d2 : /\ d2 \in {d, C}
                 /\ \/ /\ next = [counters |-> d2, triggered |-> tr, failed |-> fl]
                       /\ ~(x.limit = 0 /\ PrefilterMatch(x.match, e))
                    \/ next = [counters |-> d2, triggered |-> tr, failed |-> fl \cup {x.id}]
                    \/ next = [counters |-> d2, triggered |-> Append(tr, x), failed |-> fl]
  <2>1. CASE ~PrefilterMatch(x.match, e)
    BY <1>8, <2>1 DEF Ran
  <2>2. CASE PrefilterMatch(x.match, e) /\ x.id \in u.before
    BY <1>8, <2>2 DEF Ran
  <2>3. CASE PrefilterMatch(x.match, e) /\ x.id \notin u.before /\ x.id \in u.after
    BY <1>8, <1>9, <2>3 DEF Ran
  <2>4. CASE /\ PrefilterMatch(x.match, e) /\ x.id \notin u.before /\ x.id \notin u.after
             /\ Triggers(d, x, e)
    BY <1>8, <1>9, <2>4 DEF Ran
  <2>5. CASE /\ PrefilterMatch(x.match, e) /\ x.id \notin u.before /\ x.id \notin u.after
             /\ ~Triggers(d, x, e)
    <3>1. x.limit # 0
      BY <2>5 DEF Triggers
    <3> QED BY <1>8, <1>9, <2>5, <3>1 DEF Ran
  <2> QED BY <2>1, <2>2, <2>3, <2>4, <2>5
<1>11. Typed(d2)
  BY <1>2, <1>7, <1>9, <1>10
<1>12. fl \subseteq {s[j].id : j \in 1..(n + 1)}
  BY <1>2, <1>3
<1>13. ASSUME next = [counters |-> d2, triggered |-> tr, failed |-> fl],
              ~(x.limit = 0 /\ PrefilterMatch(x.match, e))
       PROVE  Found(s, n + 1, e, next) /\ fl \subseteq next.failed
  <2>1. \A r \in ToSet(tr) : r.id \notin fl /\ \E j \in 1..(n + 1) : s[j] = r
    BY <1>2, <1>3
  <2>2. \A j \in 1..(n + 1) : s[j].limit = 0 /\ PrefilterMatch(s[j].match, e) =>
           s[j] \in ToSet(tr) \/ s[j].id \in fl
    BY <1>1, <1>2, <1>3, <1>13
  <2>3. Found(s, n + 1, e, next)
    BY <1>2, <1>11, <1>12, <1>13, <2>1, <2>2, Zenon DEF Found
  <2> QED BY <1>13, <2>3
<1>14. ASSUME next = [counters |-> d2, triggered |-> tr, failed |-> fl \cup {x.id}]
       PROVE  Found(s, n + 1, e, next) /\ fl \subseteq next.failed
  <2>1. PICK fl2 : fl2 = fl \cup {x.id}
    OBVIOUS
  <2>2. \A r \in ToSet(tr) : r.id \notin fl2 /\ \E j \in 1..(n + 1) : s[j] = r
    BY <1>2, <1>3, <1>5, <2>1
  <2>3. \A j \in 1..(n + 1) : s[j].limit = 0 /\ PrefilterMatch(s[j].match, e) =>
           s[j] \in ToSet(tr) \/ s[j].id \in fl2
    BY <1>1, <1>2, <1>3, <2>1
  <2>4. fl2 \subseteq {s[j].id : j \in 1..(n + 1)}
    BY <1>1, <1>3, <1>12, <2>1
  <2>5. next = [counters |-> d2, triggered |-> tr, failed |-> fl2]
    BY <1>14, <2>1
  <2>6. Found(s, n + 1, e, next)
    BY <1>2, <1>11, <2>2, <2>3, <2>4, <2>5, Zenon DEF Found
  <2> QED BY <2>1, <2>5, <2>6
<1>15. ASSUME next = [counters |-> d2, triggered |-> Append(tr, x), failed |-> fl]
       PROVE  Found(s, n + 1, e, next) /\ fl \subseteq next.failed
  <2>1. PICK t : t = Append(tr, x)
    OBVIOUS
  <2>2. t \in Seq(ToSet(s)) /\ ToSet(t) = ToSet(tr) \cup {x}
    <3>1. x \in ToSet(s)
      BY <1>3
    <3> QED BY <1>2, <2>1, <3>1, AppendMembers
  <2>3. \A r \in ToSet(t) : r.id \notin fl /\ \E j \in 1..(n + 1) : s[j] = r
    BY <1>1, <1>2, <1>3, <1>5, <2>2
  <2>4. \A j \in 1..(n + 1) : s[j].limit = 0 /\ PrefilterMatch(s[j].match, e) =>
           s[j] \in ToSet(t) \/ s[j].id \in fl
    BY <1>1, <1>2, <1>3, <2>2
  <2>5. next = [counters |-> d2, triggered |-> t, failed |-> fl]
    BY <1>15, <2>1
  <2>6. Found(s, n + 1, e, next)
    BY <1>11, <1>12, <2>2, <2>3, <2>4, <2>5, Zenon DEF Found
  <2> QED BY <2>5, <2>6
<1>16. Found(s, n + 1, e, next) /\ fl \subseteq next.failed
  BY <1>10, <1>13, <1>14, <1>15
<1>17. acc.failed = fl
  BY <1>2
<1> QED BY <1>1, <1>6, <1>16, <1>17

\* One more rule, if it does not fail and every increment is in its window.
LEMMA OutcomeStep ==
    ASSUME NEW R, IsFiniteSet(R), NEW s, InOrder(s, R), now \in Nat, Within(R, now),
           \A r \in R : r.limit \in Nat /\ r.window \in Nat, NEW e, NEW u,
           NEW c, Typed(c),
           NEW n \in Nat, n + 1 \in 1..Len(s), NEW acc, Outcome(s, n, e, c, acc),
           Typed(acc.counters), evalRule(acc, s[n + 1], e, u).failed = {}
    PROVE  Outcome(s, n + 1, e, c, evalRule(acc, s[n + 1], e, u))
<1> DEFINE x == s[n + 1]
           A(m, key) == Advancers(s, m, e, key)
<1>1. PICK d, tr :
        /\ acc = [counters |-> d, triggered |-> tr, failed |-> {}]
        /\ tr \in Seq(ToSet(s))
        /\ ToSet(tr) = {r \in ToSet(s) : \E j \in 1..n : s[j] = r /\ Hit(s, j, e, c)}
        /\ \A key, ent :
              Reading(d, <<key, ent>>)
                 = Reading(c, <<key, ent>>) + IF ent = e.entity THEN Cardinality(A(n, key)) ELSE 0
  BY DEF Outcome
<1>2. /\ s \in Seq(R) /\ Len(s) \in Nat /\ DOMAIN s = 1..Len(s) /\ ToSet(s) = R
      /\ 1..(n + 1) = (1..n) \cup {n + 1} /\ x \in R /\ x.limit \in Nat /\ x.window \in Nat
      /\ \A j \in 1..n : j \in DOMAIN s /\ s[j] # x
  BY DEF InOrder
<1>3. \A m, key : IsFiniteSet(A(m, key)) /\ Cardinality(A(m, key)) \in Nat
  <2> TAKE m, key
  <2>1. A(m, key) \in SUBSET R
    BY <1>2 DEF Advancers
  <2> QED BY <2>1, FS_Subset, FS_CardinalityType
<1>4. \A key : Cardinality(A(n + 1, key))
                  = Cardinality(A(n, key)) + IF Advances(x, e) /\ x.key = key THEN 1 ELSE 0
  <2> TAKE key
  <2>1. CASE Advances(x, e) /\ x.key = key
    <3>1. A(n + 1, key) = A(n, key) \cup {x} /\ x \notin A(n, key)
      BY <1>2, <2>1 DEF Advancers
    <3> HIDE DEF A
    <3>2. Cardinality(A(n, key) \cup {x}) = Cardinality(A(n, key)) + 1
      BY <1>3, <3>1, FS_AddElement
    <3> QED BY <2>1, <3>1, <3>2
  <2>2. CASE ~(Advances(x, e) /\ x.key = key)
    <3>1. A(n + 1, key) = A(n, key)
      BY <1>2, <2>2 DEF Advancers
    <3> HIDE DEF A
    <3> QED BY <1>3, <2>2, <3>1
  <2> QED BY <2>1, <2>2
<1> HIDE DEF A, x
<1>5. Reading(d, Slot(x, e)) = Reading(c, Slot(x, e)) + Cardinality(A(n, x.key))
  BY <1>1 DEF Slot
<1>6. Reading(d, Slot(x, e)) \in Nat /\ Reading(c, Slot(x, e)) \in Nat /\ Cardinality(A(n, x.key)) \in Nat
  <2>1. Reading(c, Slot(x, e)) \in Nat /\ Cardinality(A(n, x.key)) \in Nat
    BY <1>3 DEF Reading, Typed
  <2> QED BY <1>5, <2>1
<1>7. PICK d2, tr2 :
        /\ evalRule(acc, x, e, u) = [counters |-> d2, triggered |-> tr2, failed |-> {}]
        /\ d2 = IF Advances(x, e) THEN Stamped(d, Slot(x, e)) ELSE d
        /\ tr2 = IF /\ PrefilterMatch(x.match, e)
                    /\ (x.limit = 0 \/ Reading(d, Slot(x, e)) + 1 >= x.limit)
                 THEN Append(tr, x) ELSE tr
  <2>1. PICK next, C : next = evalRule(acc, x, e, u) /\ C = Counted(d, x, e)
    OBVIOUS
  <2>2. next.failed = {}
    BY <2>1 DEF x
  <2>3. next = IF ~PrefilterMatch(x.match, e)
               THEN [counters |-> d, triggered |-> tr, failed |-> {}]
               ELSE IF x.id \in u.before
               THEN [counters |-> d, triggered |-> tr, failed |-> {} \cup {x.id}]
               ELSE IF x.id \in u.after
               THEN [counters |-> C, triggered |-> tr, failed |-> {} \cup {x.id}]
               ELSE IF Triggers(d, x, e)
               THEN [counters |-> C, triggered |-> Append(tr, x), failed |-> {}]
               ELSE [counters |-> C, triggered |-> tr, failed |-> {}]
    <3>1. next = Ran(d, tr, {}, x, e, u)
      <4>1. PICK a : a = [counters |-> d, triggered |-> tr, failed |-> {}]
        OBVIOUS
      <4>2. evalRule(a, x, e, u) = Ran(d, tr, {}, x, e, u)
        BY <4>1, EvalRuleFacts
      <4>3. a = acc
        BY <1>1, <4>1
      <4> QED BY <2>1, <4>2, <4>3
    <3> QED BY <2>1, <3>1, Zenon DEF Ran
  <2>4. CASE ~PrefilterMatch(x.match, e)
    BY <2>1, <2>3, <2>4 DEF Advances
  <2>5. CASE PrefilterMatch(x.match, e)
    <3>1. x.id \notin u.before
      <4> SUFFICES ASSUME x.id \in u.before PROVE FALSE
        OBVIOUS
      <4>1. next = [counters |-> d, triggered |-> tr, failed |-> {} \cup {x.id}]
        BY <2>3, <2>5
      <4> QED BY <2>2, <4>1
    <3>2. x.id \notin u.after
      <4> SUFFICES ASSUME x.id \in u.after PROVE FALSE
        OBVIOUS
      <4>1. next = [counters |-> C, triggered |-> tr, failed |-> {} \cup {x.id}]
        BY <2>3, <2>5, <3>1
      <4> QED BY <2>2, <4>1
    <3>3. C = IF Advances(x, e) THEN Stamped(d, Slot(x, e)) ELSE d
      BY <2>1, <2>5 DEF Advances, Counted
    <3>4. Triggers(d, x, e) <=> x.limit = 0 \/ Reading(d, Slot(x, e)) + 1 >= x.limit
      <4>1. CASE x.limit = 0
        BY <4>1 DEF Triggers
      <4>2. CASE x.limit # 0
        <5>1. C = Stamped(d, Slot(x, e)) /\ Typed(d)
          BY <1>1, <2>1, <4>2 DEF Counted
        <5>2. Typed(C) /\ Reading(C, Slot(x, e)) = Reading(d, Slot(x, e)) + 1
          BY <5>1, StampedFacts
        <5>3. now <= x.window
          BY <1>2, <4>2 DEF Within
        <5>4. InWindow(C, Slot(x, e), x.window) = Reading(C, Slot(x, e))
          BY <1>2, <5>2, <5>3, WindowFacts
        <5> QED BY <2>1, <4>2, <5>2, <5>4 DEF Triggers
      <4> QED BY <4>1, <4>2
    <3> QED BY <2>1, <2>3, <2>5, <3>1, <3>2, <3>3, <3>4, Zenon
  <2> QED BY <2>4, <2>5
<1>8. Hit(s, n + 1, e, c) <=> /\ PrefilterMatch(x.match, e)
                              /\ (x.limit = 0 \/ Reading(d, Slot(x, e)) + 1 >= x.limit)
  <2>1. Hit(s, n + 1, e, c) <=>
          /\ PrefilterMatch(x.match, e)
          /\ \/ x.limit = 0
             \/ Reading(c, Slot(x, e)) + Cardinality(A(n + 1, x.key)) >= x.limit
    BY DEF Hit, A, x
  <2>2. CASE PrefilterMatch(x.match, e) /\ x.limit # 0
    <3>1. Cardinality(A(n + 1, x.key)) = Cardinality(A(n, x.key)) + 1
      BY <1>4, <2>2 DEF Advances
    <3>2. Reading(c, Slot(x, e)) + Cardinality(A(n + 1, x.key)) = Reading(d, Slot(x, e)) + 1
      BY <1>5, <1>6, <3>1
    <3> QED BY <2>1, <3>2
  <2>3. CASE ~(PrefilterMatch(x.match, e) /\ x.limit # 0)
    BY <2>1, <2>3
  <2> QED BY <2>2, <2>3
<1>9. tr2 \in Seq(ToSet(s)) /\ ToSet(tr2) = {r \in ToSet(s) : \E j \in 1..(n + 1) : s[j] = r /\ Hit(s, j, e, c)}
  <2>1. CASE Hit(s, n + 1, e, c)
    <3>1. tr2 = Append(tr, x)
      BY <1>7, <1>8, <2>1
    <3>2. x \in ToSet(s) /\ x = s[n + 1]
      BY <1>2 DEF x
    <3>3. tr2 \in Seq(ToSet(s)) /\ ToSet(tr2) = ToSet(tr) \cup {x}
      BY <1>1, <3>1, <3>2, AppendMembers
    <3>4. {r \in ToSet(s) : \E j \in 1..(n + 1) : s[j] = r /\ Hit(s, j, e, c)}
             = {r \in ToSet(s) : \E j \in 1..n : s[j] = r /\ Hit(s, j, e, c)} \cup {x}
      BY <1>2, <2>1, <3>2
    <3> QED BY <1>1, <3>3, <3>4
  <2>2. CASE ~Hit(s, n + 1, e, c)
    <3>1. tr2 = tr
      BY <1>7, <1>8, <2>2
    <3>2. {r \in ToSet(s) : \E j \in 1..(n + 1) : s[j] = r /\ Hit(s, j, e, c)}
             = {r \in ToSet(s) : \E j \in 1..n : s[j] = r /\ Hit(s, j, e, c)}
      BY <1>2, <2>2
    <3> QED BY <1>1, <3>1, <3>2
  <2> QED BY <2>1, <2>2
<1>10. \A key, ent :
          Reading(d2, <<key, ent>>)
             = Reading(c, <<key, ent>>) + IF ent = e.entity THEN Cardinality(A(n + 1, key)) ELSE 0
  <2> TAKE key, ent
  <2>1. /\ Reading(d, <<key, ent>>)
            = Reading(c, <<key, ent>>) + IF ent = e.entity THEN Cardinality(A(n, key)) ELSE 0
        /\ Reading(c, <<key, ent>>) \in Nat /\ Cardinality(A(n, key)) \in Nat
    BY <1>1, <1>3 DEF Reading, Typed
  <2>2. <<key, ent>> = Slot(x, e) <=> x.key = key /\ ent = e.entity
    BY DEF Slot
  <2>3. CASE Advances(x, e) /\ x.key = key /\ ent = e.entity
    <3>1. Reading(d2, <<key, ent>>) = Reading(d, <<key, ent>>) + 1
      <4>1. d2 = Stamped(d, <<key, ent>>) /\ Typed(d)
        BY <1>1, <1>7, <2>2, <2>3
      <4> QED BY <4>1, StampedFacts
    <3>2. Cardinality(A(n + 1, key)) = Cardinality(A(n, key)) + 1
      BY <1>4, <2>3
    <3> QED BY <2>1, <2>3, <3>1, <3>2
  <2>4. CASE ~(Advances(x, e) /\ x.key = key /\ ent = e.entity)
    <3>1. Reading(d2, <<key, ent>>) = Reading(d, <<key, ent>>)
      <4>1. CASE Advances(x, e)
        <5>1. d2 = Stamped(d, Slot(x, e)) /\ <<key, ent>> # Slot(x, e) /\ Typed(d)
          BY <1>1, <1>7, <2>2, <2>4, <4>1
        <5> QED BY <5>1, StampedFacts
      <4>2. CASE ~Advances(x, e)
        BY <1>7, <4>2
      <4> QED BY <4>1, <4>2
    <3>2. ent = e.entity => Cardinality(A(n + 1, key)) = Cardinality(A(n, key))
      BY <1>3, <1>4, <2>4
    <3> QED BY <2>1, <3>1, <3>2
  <2> QED BY <2>3, <2>4
<1>11. Outcome(s, n + 1, e, c, evalRule(acc, x, e, u))
  <2>1. evalRule(acc, x, e, u) = [counters |-> d2, triggered |-> tr2, failed |-> {}]
    BY <1>7
  <2> QED BY <2>1, <1>9, <1>10, Zenon DEF Outcome, A
<1> QED BY <1>11 DEF x

\* The counters hold numbers, and the clock runs from 0.
CountersInv == now \in Nat /\ Typed(counters)

\* An event run through all rules of its type.
LEMMA EventOutcome ==
    ASSUME NEW R, IsFiniteSet(R), NEW e, NEW u, NEW s, s = RulesForEvent(index, e.type),
           InOrder(s, R), \A r \in R : r.limit \in Nat /\ r.window \in Nat,
           \A r, q \in R : r.id = q.id => r = q, CountersInv
    PROVE  /\ Found(s, Len(s), e, processEvent(e, u))
           /\ processEvent(e, u).failed = {} /\ Within(R, now) =>
                 Outcome(s, Len(s), e, counters, processEvent(e, u))
<1>1. s \in Seq(R) /\ Len(s) \in Nat
  BY DEF InOrder
<1>2. PICK f : EventSteps(f, e, u, s)
  BY <1>1, EventLoop
<1> DEFINE Good(n) == /\ Found(s, n, e, f[n])
                      /\ f[n].failed = {} /\ Within(R, now) => Outcome(s, n, e, counters, f[n])
           V == {n \in Nat : n <= Len(s) => Good(n)}
<1>3. 0 \in V
  <2>1. f[0] = [counters |-> counters, triggered |-> <<>>, failed |-> {}]
    BY <1>2 DEF EventSteps
  <2>2. \A key : Advancers(s, 0, e, key) = {}
    BY DEF Advancers
  <2>3. \A key : Cardinality(Advancers(s, 0, e, key)) = 0
    BY <2>2, FS_EmptySet
  <2>4. <<>> \in Seq(ToSet(s)) /\ ToSet(<<>>) = {}
    BY DEF ToSet
  <2>5. {r \in ToSet(s) : \E j \in 1..0 : s[j] = r /\ Hit(s, j, e, counters)} = {}
    OBVIOUS
  <2>6. \A key, ent : Reading(counters, <<key, ent>>)
           = Reading(counters, <<key, ent>>)
                + IF ent = e.entity THEN Cardinality(Advancers(s, 0, e, key)) ELSE 0
    <3> TAKE key, ent
    <3>1. Reading(counters, <<key, ent>>) \in Nat /\ Cardinality(Advancers(s, 0, e, key)) = 0
      BY <2>3 DEF CountersInv, Typed, Reading
    <3> QED BY <3>1
  <2>7. Outcome(s, 0, e, counters, f[0])
    BY <2>1, <2>4, <2>5, <2>6, Zenon DEF Outcome
  <2>8. \A j : j \notin 1..0
    OBVIOUS
  <2>9. Found(s, 0, e, f[0])
    BY <2>1, <2>4, <2>8, Zenon DEF Found, CountersInv
  <2> QED BY <2>7, <2>9
<1>4. \A n \in V : n + 1 \in V
  <2> SUFFICES ASSUME NEW n \in Nat, n + 1 <= Len(s), Good(n) PROVE Good(n + 1)
    <3> HIDE DEF Good
    <3> QED BY <1>1
  <2>1. n + 1 \in 1..Len(s) /\ n + 1 - 1 = n
    BY <1>1
  <2>2. f[n + 1] = evalRule(f[n], s[n + 1], e, u)
    BY <1>2, <2>1 DEF EventSteps
  <2>3. PICK acc, next : acc = f[n] /\ next = evalRule(acc, s[n + 1], e, u) /\ next = f[n + 1]
    BY <2>2
  <2>4. Found(s, n, e, acc) /\ now \in Nat
    BY <2>3 DEF CountersInv
  <2>5. Found(s, n + 1, e, next) /\ acc.failed \subseteq next.failed
    <3> HIDE DEF Good
    <3>1. /\ Found(s, n + 1, e, evalRule(acc, s[n + 1], e, u))
          /\ acc.failed \subseteq evalRule(acc, s[n + 1], e, u).failed
      BY <2>1, <2>4, FoundStep
    <3> QED BY <2>3, <3>1
  <2>6. ASSUME next.failed = {}, Within(R, now) PROVE Outcome(s, n + 1, e, counters, next)
    <3>1. Outcome(s, n, e, counters, acc)
      BY <2>3, <2>5, <2>6
    <3>2. Typed(acc.counters)
      BY <2>4 DEF Found
    <3>3. Typed(counters) /\ evalRule(acc, s[n + 1], e, u).failed = {}
      BY <2>3, <2>6 DEF CountersInv
    <3>4. Outcome(s, n + 1, e, counters, evalRule(acc, s[n + 1], e, u))
      <4> HIDE DEF Good
      <4> QED BY <2>1, <2>4, <2>6, <3>1, <3>2, <3>3, OutcomeStep
    <3> QED BY <2>3, <3>4
  <2> QED BY <2>3, <2>5, <2>6
<1>5. Len(s) \in V
  <2>1. V \in SUBSET Nat
    <3> HIDE DEF Good
    <3> QED OBVIOUS
  <2> HIDE DEF V
  <2>2. V = Nat
    BY <1>3, <1>4, <2>1, SetInduction
  <2> QED BY <1>1, <2>2
<1>6. Good(Len(s))
  <2> HIDE DEF Good
  <2> QED BY <1>1, <1>5
<1> QED BY <1>2, <1>6 DEF EventSteps

-----------------------------------------------------------------------------
(* What holds of a snapshot, of the results and of the counters.           *)

\* An event passes a rule's type and prefilter.
Fits(r, e) == r.type \in {e.type, "*"} /\ PrefilterMatch(r.match, e)

\* The verdict of a set of rules that triggered, whatever their order.
IsVerdict(T, v) ==
    IF T = {} THEN v = "approve"
    ELSE LET top == {r \in T : \A q \in T : q.prio <= r.prio}
         IN /\ \E r \in top : r.verdict = v
            /\ \A r \in top : VerdictWeight(r.verdict) <= VerdictWeight(v)

\* The directory in use.
Loaded == phase \in Runs \cup {"report"}
Dir == IF phase = "first" THEN dirs["first"] ELSE dirs["second"]

\* A result belongs to an entry, names rules that triggered and rules that failed, those
\* without a counter that fit among them, and carries the verdict of the former.
ResultIsRight(o) ==
    /\ o.pos \in DOMAIN trace /\ o.id = trace[o.pos].id
    /\ o.failed \subseteq {r.id : r \in ToSet(rules)} /\ ToSet(o.rules) \cap o.failed = {}
    /\ \E T \in SUBSET ToSet(rules) :
          /\ ToSet(o.rules) = {r.id : r \in T}
          /\ {r \in ToSet(rules) : r.limit = 0 /\ Fits(r, trace[o.pos])}
                \subseteq T \cup {r \in ToSet(rules) : r.id \in o.failed}
          /\ IsVerdict(T, o.verdict)

\* The snapshot is what was compiled, and the pool holds entries of the trace.
RunInv ==
    /\ dirs \in [Runs -> RuleSets]
    /\ IF Loaded THEN /\ \A run \in Runs : Compiles(dirs[run])
                      /\ InOrder(rules, CompileDir(Dir))
       ELSE rules = <<>> /\ out = <<>>
    /\ index = buildIndex(rules)
    /\ phase \in Runs =>
          /\ \A j \in DOMAIN queue : queue[j] \in DOMAIN trace
          /\ \A w \in team : busy[w] # NoEvent => busy[w] \in DOMAIN trace
    /\ \A i \in DOMAIN out : ResultIsRight(out[i])

\* The rules that trigger on an entry when the entries run in the trace's order: those
\* that fit, a counting one if its counter has reached the limit with the rules that
\* advanced it for earlier entries and for this one up to its own priority.
Past(R, p, key, ent) ==
    {x \in (1..p) \X R : /\ trace[x[1]].entity = ent /\ x[2].key = key
                         /\ x[2].limit # 0 /\ Fits(x[2], trace[x[1]])}
Peers(R, r, e) == {q \in R : Fits(q, e) /\ q.limit # 0 /\ q.key = r.key /\ q.prio >= r.prio}
Triggering(R, p) ==
    {r \in R : /\ Fits(r, trace[p])
               /\ \/ r.limit = 0
                  \/ Cardinality(Past(R, p - 1, r.key, trace[p].entity))
                        + Cardinality(Peers(R, r, trace[p])) >= r.limit}

Apart(S) == \A r, q \in S : r # q /\ r.prio = q.prio => r.key # q.key
Regular(S) == ~Counts(S) \/ (Cardinality(team) = 1 /\ Apart(S))

\* No rule failed on an entry.
Clean(s) == \A i \in DOMAIN s : s[i].failed = {}

\* With one worker the entries run in the trace's order, and the counters hold what the
\* finished ones advanced, as long as no rule fails and every increment is in its window.
Finished == Len(out)
CountersAre(R, n) ==
    \A key, ent : Reading(counters, <<key, ent>>) = Cardinality(Past(R, n, key, ent))
SerialInv ==
    /\ team \in Teams
    /\ phase \in Runs /\ Cardinality(team) = 1 =>
          /\ \A w \in team : /\ busy[w] # NoEvent => busy[w] = Finished + 1
                             /\ \A j \in DOMAIN queue :
                                   queue[j] = Finished + j + IF busy[w] = NoEvent THEN 0 ELSE 1
          /\ Clean(out) /\ Within(CompileDir(Dir), now) => CountersAre(CompileDir(Dir), Finished)

\* The results s of a run up to time t then depend on the entries and the directory only.
Exact(S, s, t) ==
    Regular(S) /\ Clean(s) /\ Within(S, t) =>
        \A i \in DOMAIN s : IsVerdict(Triggering(CompileDir(S), s[i].pos), s[i].verdict)

\* The first run's results: each entry has one, and they stay as that run found them.
Saved ==
    /\ DOMAIN results = Runs /\ DOMAIN ended = Runs
    /\ phase \in {"second", "report"} =>
          LET s == results["first"]
          IN /\ IsSeq(s) /\ Exact(dirs["first"], s, ended["first"])
             /\ \A k \in DOMAIN s : s[k].pos \in DOMAIN trace /\ s[k].id = trace[s[k].pos].id
             /\ \A i \in DOMAIN trace : \E k \in DOMAIN s : s[k].id = trace[i].id

\* The report on a directory compared with itself.
QuietRuns == \A run \in Runs : Quiet(run)
SelfReport ==
    /\ phase = "report" /\ dirs["first"] = dirs["second"] /\ DistinctIds /\ Regular(Dir)
    /\ QuietRuns
    => report.changed = 0

ExactInv ==
    /\ Loaded => Exact(Dir, out, now)
    /\ Saved
    /\ SelfReport

-----------------------------------------------------------------------------
(* The snapshot of a directory, and the verdict of a set of rules.         *)

\* What sort.Slice returns holds the rules of the directory, each once, by priority.
LEMMA SortedInOrder ==
    ASSUME NEW R, IsFiniteSet(R), NEW s \in SortedRules(R)
    PROVE  InOrder(s, R)
<1> DEFINE n == Cardinality(R)
<1>1. n \in Nat /\ IsFiniteSet(1..n) /\ Cardinality(1..n) = n
  <2>1. n \in Nat
    BY FS_CardinalityType
  <2> HIDE DEF n
  <2>2. 1 \in Int /\ n \in Int
    BY <2>1
  <2>3. IsFiniteSet(1..n) /\ Cardinality(1..n) = IF 1 > n THEN 0 ELSE n - 1 + 1
    BY <2>2, FS_Interval
  <2> QED BY <2>1, <2>3
<1>2. /\ s \in SetToSeqs(R)
      /\ \A i, j \in DOMAIN s : i < j => s[i].prio >= s[j].prio
  BY DEF SortedRules
<1>3. s \in [1..n -> R] /\ \A i, j \in 1..n : i # j => s[i] # s[j]
  BY <1>2 DEF SetToSeqs
<1> HIDE DEF n
<1>4. s \in Injection(1..n, R)
  BY <1>3, Fun_IsInj
<1>5. s \in Surjection(1..n, R)
  BY <1>1, <1>4, FS_Injection DEF n
<1>6. \A r \in R : \E i \in 1..n : s[i] = r
  BY <1>5 DEF Surjection
<1>7. s \in Seq(R) /\ DOMAIN s = 1..n
  BY <1>1, <1>3
<1>8. ToSet(s) = R
  BY <1>3, <1>6, <1>7 DEF ToSet
<1> QED BY <1>2, <1>3, <1>7, <1>8 DEF InOrder

\* Compiling a rule replaces its match, in one way if any.
LEMMA CompileRuleFacts ==
    ASSUME NEW S \in RuleSets, NEW q \in S
    PROVE  /\ \A r \in CompileRule(q) :
                 /\ r.id = q.id /\ r.type = q.type /\ r.prio = q.prio /\ r.verdict = q.verdict
                 /\ r.limit = q.limit /\ r.key = q.key /\ r.window = q.window
           /\ \A r, p \in CompileRule(q) : r = p
<1>1. DOMAIN q = {"id", "type", "prio", "verdict", "match", "limit", "key", "window"}
  BY ReplayAssumption
<1> DEFINE P == IF q.match.t = "absent" THEN {<<>>} ELSE lowerMatch(q.match)
<1>2. \A x, y \in P : x = y
  BY DEF lowerMatch
<1>3. CompileRule(q) = {[q EXCEPT !.match = preds] : preds \in P}
  BY DEF CompileRule
<1> HIDE DEF P
<1>4. ASSUME NEW r \in CompileRule(q)
      PROVE  /\ r.id = q.id /\ r.type = q.type /\ r.prio = q.prio /\ r.verdict = q.verdict
             /\ r.limit = q.limit /\ r.key = q.key /\ r.window = q.window
  <2>1. PICK preds \in P : r = [q EXCEPT !.match = preds]
    BY <1>3
  <2> QED BY <1>1, <2>1
<1>5. \A r, p \in CompileRule(q) : r = p
  BY <1>2, <1>3
<1> QED BY <1>4, <1>5

\* A directory that compiles is a finite set of rules, no two with an id.
LEMMA DirFacts ==
    ASSUME NEW S \in RuleSets, Compiles(S)
    PROVE  /\ IsFiniteSet(CompileDir(S))
           /\ \A r \in CompileDir(S) : Ranked(r) /\ r.limit \in Nat /\ r.window \in Nat
           /\ \A r, q \in CompileDir(S) : r.id = q.id => r = q
           /\ ~Counts(S) => \A r \in CompileDir(S) : r.limit = 0
           /\ \A t : Within(S, t) => Within(CompileDir(S), t)
           /\ Apart(S) => Apart(CompileDir(S))
<1> DEFINE C == CompileDir(S)
           h == [q \in S |-> CHOOSE r \in CompileRule(q) : TRUE]
<1>1. \A r \in C : \E q \in S : r \in CompileRule(q)
  BY DEF CompileDir
<1>2. \A q \in S : h[q] \in CompileRule(q) /\ h[q] \in C
  BY DEF Compiles, CompileDir
<1>3. \A r \in C : \E q \in S : h[q] = r
  BY <1>1, <1>2, CompileRuleFacts
<1> HIDE DEF C
<1>4. IsFiniteSet(C)
  <2>1. h \in [S -> C]
    BY <1>2
  <2> HIDE DEF h
  <2>2. h \in Surjection(S, C)
    BY <1>3, <2>1, Fun_IsSurj
  <2>3. IsFiniteSet(S)
    BY ReplayAssumption
  <2> QED BY <2>2, <2>3, FS_Surjection
<1>5. \A r \in C : \E q \in S :
        /\ r \in CompileRule(q) /\ q.prio \in Int /\ q.verdict \in Verdicts
        /\ q.limit \in Nat /\ q.window \in Nat
        /\ r.id = q.id /\ r.prio = q.prio /\ r.verdict = q.verdict /\ r.limit = q.limit /\ r.key = q.key
        /\ r.window = q.window
  <2> TAKE r \in C
  <2>1. PICK q \in S : r \in CompileRule(q)
    BY <1>1
  <2>2. /\ r.id = q.id /\ r.prio = q.prio /\ r.verdict = q.verdict /\ r.limit = q.limit
        /\ r.key = q.key /\ r.window = q.window
    BY <2>1, CompileRuleFacts
  <2>3. q.prio \in Int /\ q.verdict \in Verdicts /\ q.limit \in Nat /\ q.window \in Nat
    BY ReplayAssumption
  <2> QED BY <2>1, <2>2, <2>3
<1>6. \A r \in C : Ranked(r) /\ r.limit \in Nat /\ r.window \in Nat
  BY <1>5 DEF Ranked
<1>7. \A r, p \in C : r.id = p.id => r = p
  <2> SUFFICES ASSUME NEW r \in C, NEW p \in C, r.id = p.id PROVE r = p
    OBVIOUS
  <2>1. PICK q \in S : r \in CompileRule(q) /\ r.id = q.id
    BY <1>5
  <2>2. PICK u \in S : p \in CompileRule(u) /\ p.id = u.id
    BY <1>5
  <2>3. q = u
    BY <2>1, <2>2 DEF Compiles
  <2> QED BY <2>1, <2>2, <2>3, CompileRuleFacts
<1>8. ~Counts(S) => \A r \in C : r.limit = 0
  BY <1>5 DEF Counts
<1>9. Apart(S) => Apart(C)
  <2> SUFFICES ASSUME Apart(S), NEW r \in C, NEW p \in C, r # p, r.prio = p.prio PROVE r.key # p.key
    BY DEF Apart
  <2>1. PICK q \in S : r \in CompileRule(q) /\ r.prio = q.prio /\ r.key = q.key
    BY <1>5
  <2>2. PICK u \in S : p \in CompileRule(u) /\ p.prio = u.prio /\ p.key = u.key
    BY <1>5
  <2>3. q # u
    BY <2>1, <2>2, CompileRuleFacts
  <2> QED BY <2>1, <2>2, <2>3 DEF Apart
<1>10. \A t : Within(S, t) => Within(C, t)
  BY <1>5 DEF Within
<1> QED BY <1>4, <1>6, <1>7, <1>8, <1>9, <1>10 DEF C

\* The pass of resolveVerdict finds the verdict of the rules, whatever their order.
LEMMA VerdictOfSet ==
    ASSUME NEW R, NEW tr \in Seq(R), \A r \in R : Ranked(r)
    PROVE  IsVerdict(ToSet(tr), resolveVerdict(tr)) /\ resolveVerdict(tr) \in Verdicts
<1>1. CASE tr = <<>>
  <2>1. ToSet(tr) = {} /\ resolveVerdict(tr) = "approve"
    BY <1>1 DEF ToSet, resolveVerdict
  <2> QED BY <2>1 DEF IsVerdict, Verdicts
<1>2. CASE tr # <<>>
  <2>1. PICK k \in 1..Len(tr) : /\ resolveVerdict(tr) = tr[k].verdict
                                /\ \A n \in 1..Len(tr) : NotAhead(tr[n], tr[k])
    BY <1>2, VerdictIsBest
  <2>2. Len(tr) \in Nat /\ DOMAIN tr = 1..Len(tr) /\ \A n \in 1..Len(tr) : tr[n] \in R
    OBVIOUS
  <2> DEFINE T == ToSet(tr)
             x == tr[k]
             top == {r \in T : \A q \in T : q.prio <= r.prio}
  <2>3. x \in T /\ \A r \in T : NotAhead(r, x) /\ Ranked(r)
    BY <2>1, <2>2 DEF ToSet
  <2> HIDE DEF T, x
  <2>4. x \in top
    BY <2>3 DEF NotAhead
  <2>5. \A r \in top : VerdictWeight(r.verdict) <= VerdictWeight(x.verdict)
    <3> SUFFICES ASSUME NEW r \in top PROVE VerdictWeight(r.verdict) <= VerdictWeight(x.verdict)
      OBVIOUS
    <3>1. r.prio \in Int /\ x.prio \in Int /\ r.prio <= x.prio /\ x.prio <= r.prio
      BY <2>3 DEF NotAhead, Ranked
    <3>2. r.prio = x.prio
      BY <3>1
    <3> QED BY <2>3, <3>2 DEF NotAhead
  <2>6. IsVerdict(T, x.verdict)
    BY <2>3, <2>4, <2>5 DEF IsVerdict
  <2>7. x.verdict \in Verdicts
    BY <2>3 DEF Ranked
  <2> QED BY <2>1, <2>6, <2>7 DEF T, x
<1> QED BY <1>1, <1>2

\* A set of rules has one verdict.
LEMMA OneVerdict ==
    ASSUME NEW T, \A r \in T : Ranked(r), NEW v, NEW u, IsVerdict(T, v), IsVerdict(T, u)
    PROVE  v = u
<1>1. CASE T = {}
  BY <1>1 DEF IsVerdict
<1>2. CASE T # {}
  <2> DEFINE top == {r \in T : \A q \in T : q.prio <= r.prio}
  <2>1. PICK r \in top : r.verdict = v
    BY <1>2 DEF IsVerdict
  <2>2. PICK q \in top : q.verdict = u
    BY <1>2 DEF IsVerdict
  <2>3. VerdictWeight(r.verdict) <= VerdictWeight(u) /\ VerdictWeight(q.verdict) <= VerdictWeight(v)
    BY <1>2 DEF IsVerdict
  <2>4. v \in Verdicts /\ u \in Verdicts
    BY <2>1, <2>2 DEF Ranked
  <2> QED BY <2>1, <2>2, <2>3, <2>4, WeightFacts
<1> QED BY <1>1, <1>2

-----------------------------------------------------------------------------
(* One event.                                                              *)

\* The rules that advance a key's counter for an event.
AllAdvancers(R, e, key) == {r \in R : Fits(r, e) /\ r.limit # 0 /\ r.key = key}

\* What a worker finds for an event: each rule without a counter that fits triggered or
\* failed, and, if none failed and every increment is in its window, the set of the rules
\* that triggered does not depend on how equal priorities were ordered, if no rule counts
\* or rules of a priority have counters of their own.
EventIsRight(R, e, acc) ==
    \E d, tr, fl :
        /\ acc = [counters |-> d, triggered |-> tr, failed |-> fl]
        /\ Typed(d) /\ tr \in Seq(R) /\ ToSet(tr) \subseteq R
        /\ IsVerdict(ToSet(tr), resolveVerdict(tr)) /\ resolveVerdict(tr) \in Verdicts
        /\ fl \subseteq {r.id : r \in R} /\ \A r \in ToSet(tr) : r.id \notin fl
        /\ {r \in R : r.limit = 0 /\ Fits(r, e)} \subseteq ToSet(tr) \cup {r \in R : r.id \in fl}
        /\ fl = {} /\ Within(R, now) =>
              /\ \A key, ent : Reading(d, <<key, ent>>)
                    = Reading(counters, <<key, ent>>)
                         + IF ent = e.entity THEN Cardinality(AllAdvancers(R, e, key)) ELSE 0
              /\ (\A r \in R : r.limit = 0) \/ Apart(R) =>
                    ToSet(tr) = {r \in R : /\ Fits(r, e)
                                           /\ \/ r.limit = 0
                                              \/ Reading(counters, Slot(r, e))
                                                    + Cardinality(Peers(R, r, e)) >= r.limit}

\* That is what running an event leaves.
LEMMA EventFacts ==
    ASSUME NEW R, IsFiniteSet(R),
           \A r \in R : Ranked(r) /\ r.limit \in Nat /\ r.window \in Nat,
           \A r, q \in R : r.id = q.id => r = q, InOrder(rules, R),
           index = buildIndex(rules), CountersInv, NEW e, NEW u
    PROVE  EventIsRight(R, e, processEvent(e, u))
<1> DEFINE s == RulesForEvent(index, e.type)
           E == {r \in R : r.type \in {e.type, "*"}}
<1>1. InOrder(s, E)
  <2>1. \A r \in R : r.prio \in Int
    BY DEF Ranked
  <2>2. InOrder(RulesForEvent(buildIndex(rules), e.type), E)
    BY <2>1, IndexInOrder
  <2> QED BY <2>2
<1>2. /\ IsFiniteSet(E) /\ \A r \in E : r.limit \in Nat /\ r.window \in Nat
      /\ \A r, q \in E : r.id = q.id => r = q
  <2>1. E \in SUBSET R
    OBVIOUS
  <2> QED BY <2>1, FS_Subset
<1>3. /\ Found(s, Len(s), e, processEvent(e, u))
      /\ processEvent(e, u).failed = {} /\ Within(E, now) =>
            Outcome(s, Len(s), e, counters, processEvent(e, u))
  <2> HIDE DEF E
  <2>1. PICK z : z = s
    OBVIOUS
  <2> HIDE DEF s
  <2>2. z = RulesForEvent(index, e.type)
    BY <2>1 DEF s
  <2>3. /\ Found(z, Len(z), e, processEvent(e, u))
        /\ processEvent(e, u).failed = {} /\ Within(E, now) =>
              Outcome(z, Len(z), e, counters, processEvent(e, u))
    BY <1>1, <1>2, <2>1, <2>2, EventOutcome
  <2> QED BY <2>1, <2>3
<1>4. PICK z : z = s
  OBVIOUS
<1> HIDE DEF s
<1>5. PICK acc : /\ InOrder(z, E) /\ Found(z, Len(z), e, acc) /\ acc = processEvent(e, u)
                 /\ acc.failed = {} /\ Within(E, now) => Outcome(z, Len(z), e, counters, acc)
  BY <1>1, <1>3, <1>4
<1>6. PICK d, tr, fl :
        /\ acc = [counters |-> d, triggered |-> tr, failed |-> fl]
        /\ Typed(d) /\ tr \in Seq(ToSet(z))
        /\ \A r \in ToSet(tr) : r.id \notin fl /\ \E j \in 1..Len(z) : z[j] = r
        /\ fl \subseteq {z[j].id : j \in 1..Len(z)}
        /\ \A j \in 1..Len(z) : z[j].limit = 0 /\ PrefilterMatch(z[j].match, e) =>
              z[j] \in ToSet(tr) \/ z[j].id \in fl
  BY <1>5 DEF Found
<1>7. /\ z \in Seq(E) /\ ToSet(z) = E /\ Len(z) \in Nat /\ DOMAIN z = 1..Len(z)
      /\ \A j \in 1..Len(z) : z[j] \in E
      /\ \A r \in E : \E j \in 1..Len(z) : z[j] = r
  <2>1. z \in Seq(E) /\ ToSet(z) = E
    BY <1>5 DEF InOrder
  <2>2. Len(z) \in Nat /\ DOMAIN z = 1..Len(z)
    <3> HIDE DEF E
    <3> QED BY <2>1
  <2> QED BY <2>1, <2>2 DEF ToSet
<1>8. tr \in Seq(R) /\ ToSet(tr) \subseteq R
  <2>1. E \subseteq R /\ tr \in Seq(E) /\ ToSet(tr) \subseteq E
    BY <1>6, <1>7
  <2> HIDE DEF E
  <2> QED BY <2>1
<1>9. IsVerdict(ToSet(tr), resolveVerdict(tr)) /\ resolveVerdict(tr) \in Verdicts
  BY <1>8, VerdictOfSet
<1>10. {r \in R : r.limit = 0 /\ Fits(r, e)} \subseteq ToSet(tr) \cup {r \in R : r.id \in fl}
  <2> SUFFICES ASSUME NEW r \in R, r.limit = 0, Fits(r, e) PROVE r \in ToSet(tr) \/ r.id \in fl
    OBVIOUS
  <2>1. r \in E /\ PrefilterMatch(r.match, e)
    BY DEF Fits
  <2>2. PICK j \in 1..Len(z) : z[j] = r
    BY <1>7, <2>1
  <2> QED BY <1>6, <2>1, <2>2
<1>16. fl \subseteq {r.id : r \in R}
  <2>1. \A j \in 1..Len(z) : z[j] \in R
    BY <1>7
  <2> QED BY <1>6, <2>1
<1>17. ASSUME fl = {}, Within(R, now)
       PROVE  /\ ToSet(tr) = {r \in ToSet(z) : \E j \in 1..Len(z) : z[j] = r /\ Hit(z, j, e, counters)}
              /\ \A key, ent :
                    Reading(d, <<key, ent>>)
                       = Reading(counters, <<key, ent>>)
                            + IF ent = e.entity THEN Cardinality(Advancers(z, Len(z), e, key)) ELSE 0
  <2>1. acc.failed = {} /\ Within(E, now)
    BY <1>6, <1>17 DEF Within
  <2> HIDE DEF E
  <2>2. PICK d2, tr2 :
        /\ acc = [counters |-> d2, triggered |-> tr2, failed |-> {}]
        /\ ToSet(tr2) = {r \in ToSet(z) : \E j \in 1..Len(z) : z[j] = r /\ Hit(z, j, e, counters)}
        /\ \A key, ent :
              Reading(d2, <<key, ent>>)
                 = Reading(counters, <<key, ent>>)
                      + IF ent = e.entity THEN Cardinality(Advancers(z, Len(z), e, key)) ELSE 0
    BY <1>5, <2>1 DEF Outcome
  <2>3. d2 = d /\ tr2 = tr
    <3>1. acc.counters = d2 /\ acc.triggered = tr2
      BY <2>2
    <3>2. acc.counters = d /\ acc.triggered = tr
      BY <1>6
    <3> QED BY <3>1, <3>2
  <2> QED BY <2>2, <2>3
<1>11. \A key : Advancers(z, Len(z), e, key) = AllAdvancers(R, e, key)
  <2> TAKE key
  <2>1. \A r \in R : r \in Advancers(z, Len(z), e, key) <=> r \in AllAdvancers(R, e, key)
    <3> TAKE r \in R
    <3>1. r \in E <=> r.type \in {e.type, "*"}
      OBVIOUS
    <3> HIDE DEF E
    <3> QED BY <1>7, <3>1 DEF Advancers, AllAdvancers, Fits, Advances
  <2>2. Advancers(z, Len(z), e, key) \subseteq R /\ AllAdvancers(R, e, key) \subseteq R
    BY <1>7 DEF Advancers, AllAdvancers
  <2> QED BY <2>1, <2>2
<1>12. \A j \in 1..Len(z) : Hit(z, j, e, counters) => Fits(z[j], e)
  BY <1>7 DEF Hit, Fits
<1>13. ASSUME (\A r \in R : r.limit = 0) \/ Apart(R), NEW j \in 1..Len(z)
       PROVE  Hit(z, j, e, counters) <=>
                 /\ Fits(z[j], e)
                 /\ \/ z[j].limit = 0
                    \/ Reading(counters, Slot(z[j], e)) + Cardinality(Peers(R, z[j], e)) >= z[j].limit
  <2>1. z[j] \in E /\ z[j] \in R
    BY <1>7
  <2>2. PrefilterMatch(z[j].match, e) <=> Fits(z[j], e)
    BY <2>1 DEF Fits
  <2>3. CASE z[j].limit = 0
    BY <2>2, <2>3 DEF Hit
  <2>4. CASE z[j].limit # 0
    <3>1. Apart(R)
      BY <1>13, <2>1, <2>4
    <3>2. Advancers(z, j, e, z[j].key) \subseteq Peers(R, z[j], e)
      <4> SUFFICES ASSUME NEW i \in 1..j, NEW q, q = z[i], Advances(q, e), q.key = z[j].key
                   PROVE  q \in Peers(R, z[j], e)
        BY DEF Advancers
      <4>1. i \in 1..Len(z) /\ j \in 1..Len(z)
        BY <1>7
      <4>2. q \in E
        BY <1>7, <4>1
      <4>3. q.prio >= z[j].prio
        <5>1. z[j].prio \in Int
          BY <2>1 DEF Ranked
        <5>2. CASE i = j
          BY <5>1, <5>2
        <5>3. CASE i < j
          BY <1>5, <1>7, <4>1, <5>3 DEF InOrder
        <5> QED BY <4>1, <5>2, <5>3
      <4> QED BY <4>2, <4>3 DEF Peers, Fits, Advances
    <3>3. Peers(R, z[j], e) \subseteq Advancers(z, j, e, z[j].key)
      <4> SUFFICES ASSUME NEW q \in Peers(R, z[j], e) PROVE q \in Advancers(z, j, e, z[j].key)
        OBVIOUS
      <4>1. q \in E /\ q \in R /\ Advances(q, e) /\ q.key = z[j].key /\ q.prio >= z[j].prio
        BY DEF Peers, Fits, Advances
      <4>2. PICK i \in 1..Len(z) : z[i] = q
        BY <1>7, <4>1
      <4>3. i <= j
        <5> SUFFICES ASSUME j < i PROVE FALSE
          OBVIOUS
        <5>1. z[j].prio >= q.prio /\ z[j] # q
          <6>1. i \in DOMAIN z /\ j \in DOMAIN z /\ j # i
            BY <1>7
          <6>2. z[j].prio >= z[i].prio
            BY <1>5, <6>1 DEF InOrder
          <6>3. z[j] # z[i]
            BY <1>5, <6>1 DEF InOrder
          <6> QED BY <4>2, <6>2, <6>3
        <5>2. q.prio \in Int /\ z[j].prio \in Int
          BY <2>1, <4>1 DEF Ranked
        <5>3. q.prio = z[j].prio
          BY <4>1, <5>1, <5>2
        <5> QED BY <2>1, <3>1, <4>1, <5>1, <5>3 DEF Apart
      <4>4. i \in 1..j
        BY <4>3
      <4> QED BY <1>7, <4>1, <4>2, <4>4 DEF Advancers
    <3>4. Advancers(z, j, e, z[j].key) = Peers(R, z[j], e)
      BY <3>2, <3>3
    <3> QED BY <2>2, <3>4 DEF Hit
  <2> QED BY <2>3, <2>4
<1>14. ASSUME (\A r \in R : r.limit = 0) \/ Apart(R), fl = {}, Within(R, now)
       PROVE  ToSet(tr) = {r \in R : /\ Fits(r, e)
                                     /\ \/ r.limit = 0
                                        \/ Reading(counters, Slot(r, e))
                                              + Cardinality(Peers(R, r, e)) >= r.limit}
  <2> DEFINE Good(r) == /\ Fits(r, e)
                        /\ \/ r.limit = 0
                           \/ Reading(counters, Slot(r, e)) + Cardinality(Peers(R, r, e)) >= r.limit
  <2>1. \A j \in 1..Len(z) : Hit(z, j, e, counters) <=> Good(z[j])
    BY <1>13, <1>14
  <2>2. \A r \in R : Good(r) => r \in E
    BY DEF Fits
  <2> HIDE DEF Good
  <2>3. \A r \in R : r \in ToSet(tr) <=> Good(r)
    <3> TAKE r \in R
    <3>1. r \in ToSet(tr) => Good(r)
      BY <1>14, <1>17, <2>1
    <3>2. Good(r) => r \in ToSet(tr)
      <4> SUFFICES ASSUME Good(r) PROVE r \in ToSet(tr)
        OBVIOUS
      <4>1. PICK j \in 1..Len(z) : z[j] = r
        BY <1>7, <2>2
      <4>2. Hit(z, j, e, counters) /\ r \in ToSet(z)
        BY <1>7, <2>1, <2>2, <4>1
      <4> QED BY <1>14, <1>17, <4>1, <4>2
    <3> QED BY <3>1, <3>2
  <2>4. ToSet(tr) = {r \in R : Good(r)}
    BY <1>8, <2>3
  <2> QED BY <2>4 DEF Good
<1>15. ASSUME fl = {}, Within(R, now)
       PROVE  \A key, ent : Reading(d, <<key, ent>>)
                 = Reading(counters, <<key, ent>>)
                      + IF ent = e.entity THEN Cardinality(AllAdvancers(R, e, key)) ELSE 0
  BY <1>11, <1>15, <1>17
<1> HIDE DEF E
<1>18. \A r \in ToSet(tr) : r.id \notin fl
  BY <1>6
<1>19. EventIsRight(R, e, acc)
  BY <1>6, <1>8, <1>9, <1>10, <1>14, <1>15, <1>16, <1>18 DEF EventIsRight
<1> QED BY <1>5, <1>19

-----------------------------------------------------------------------------
(* The snapshot and the results throughout.                                *)

\* An appended list has the old elements and, at its end, the new one.
LEMMA AppendAt ==
    ASSUME NEW s, IsSeq(s), NEW x, NEW t, t = Append(s, x)
    PROVE  /\ IsSeq(t) /\ Len(t) = Len(s) + 1 /\ Len(s) \in Nat
           /\ DOMAIN t = 1..(Len(s) + 1) /\ DOMAIN s = 1..Len(s)
           /\ \A k \in DOMAIN t : (k \in DOMAIN s /\ t[k] = s[k]) \/ (k = Len(s) + 1 /\ t[k] = x)
<1> DEFINE S == {s[k] : k \in DOMAIN s}
           T == S \cup {x}
<1>1. s \in Seq(T) /\ Len(s) \in Nat
  <2>1. s \in Seq(S)
    BY DEF IsSeq
  <2> HIDE DEF S
  <2> QED BY <2>1
<1>2. /\ t \in Seq(T) /\ Len(t) = Len(s) + 1 /\ DOMAIN t = 1..(Len(s) + 1) /\ DOMAIN s = 1..Len(s)
      /\ \A k \in 1..Len(s) : t[k] = s[k]
      /\ t[Len(s) + 1] = x
  <2> HIDE DEF T
  <2>1. x \in T
    BY DEF T
  <2> QED BY <1>1, <2>1
<1>3. IsSeq(t)
  BY AppendSeq
<1> HIDE DEF T
<1>4. \A k \in DOMAIN t : k \in DOMAIN s \/ k = Len(s) + 1
  BY <1>1, <1>2
<1> QED BY <1>1, <1>2, <1>3, <1>4

\* A new pool.
LEMMA StartRun ==
    ASSUME NEW run \in Runs, Start(run), UNCHANGED inputs, dirs \in [Runs -> RuleSets],
           \A r \in Runs : Compiles(dirs[r])
    PROVE  RunInv' /\ CountersInv'
<1>0. now' \in Nat
  <2>1. now' \in Clock'
    BY DEF Start
  <2>2. Clock' \subseteq Nat
    BY ReplayAssumption DEF Clock
  <2> QED BY <2>1, <2>2
<1>1. /\ queue' = [i \in DOMAIN trace |-> i] /\ busy' = [w \in team |-> NoEvent]
      /\ out' = <<>> /\ counters' = <<>> /\ phase' = run
      /\ trace' = trace /\ team' = team /\ dirs' = dirs
  BY DEF Start, inputs
<1>2. PICK s \in SortedRules(CompileDir(dirs[run])) : rules' = s /\ index' = buildIndex(s)
  BY DEF Start
<1>3. dirs[run] \in RuleSets /\ Compiles(dirs[run])
  OBVIOUS
<1>4. InOrder(s, CompileDir(dirs[run]))
  <2>1. IsFiniteSet(CompileDir(dirs[run]))
    BY <1>3, DirFacts
  <2> QED BY <1>2, <2>1, SortedInOrder
<1>5. (CompileDir(Dir))' = CompileDir(dirs[run]) /\ Loaded'
  <2>1. Dir' = dirs[run]
    BY <1>1 DEF Dir, Runs
  <2>2. Loaded'
    BY <1>1 DEF Loaded
  <2> QED BY <2>1, <2>2
<1>6. InOrder(rules', (CompileDir(Dir))') /\ index' = buildIndex(rules')
  BY <1>2, <1>4, <1>5
<1>7. \A r \in Runs : Compiles(dirs[r])'
  BY <1>1
<1>8. /\ \A j \in DOMAIN queue' : queue'[j] \in DOMAIN trace'
      /\ \A w \in team' : busy'[w] # NoEvent => busy'[w] \in DOMAIN trace'
      /\ \A i \in DOMAIN out' : ResultIsRight(out[i])'
  BY <1>1
<1>9. CountersInv'
  <2>1. Typed(<<>>)
    BY DEF Typed, Stamps
  <2> QED BY <1>0, <1>1, <2>1 DEF CountersInv
<1>10. RunInv'
  BY <1>1, <1>5, <1>6, <1>7, <1>8 DEF RunInv
<1> QED BY <1>9, <1>10

\* The facts about the directory in use.
LEMMA DirInUse ==
    ASSUME RunInv, Loaded
    PROVE  /\ Dir \in RuleSets /\ Compiles(Dir) /\ InOrder(rules, CompileDir(Dir))
           /\ IsFiniteSet(CompileDir(Dir)) /\ ToSet(rules) = CompileDir(Dir)
           /\ \A r \in CompileDir(Dir) : Ranked(r) /\ r.limit \in Nat /\ r.window \in Nat
           /\ \A r, q \in CompileDir(Dir) : r.id = q.id => r = q
<1>1. Dir \in RuleSets /\ Compiles(Dir) /\ InOrder(rules, CompileDir(Dir))
  BY DEF RunInv, Dir, Runs
<1>2. ToSet(rules) = CompileDir(Dir)
  BY <1>1 DEF InOrder
<1> QED BY <1>1, <1>2, DirFacts

\* A worker's result.
LEMMA EvaluateRun ==
    ASSUME RunInv, CountersInv, EntriesInv, NEW w \in team, Evaluate(w)
    PROVE  RunInv' /\ CountersInv'
<1>1. /\ phase \in Runs /\ busy[w] # NoEvent /\ Loaded
      /\ busy' = [busy EXCEPT ![w] = NoEvent]
      /\ phase' = phase /\ dirs' = dirs /\ trace' = trace /\ team' = team
      /\ rules' = rules /\ index' = index /\ queue' = queue /\ now' = now
  BY DEF Evaluate, inputs, Loaded
<1>20. PICK u \in Faults : /\ counters' = processEvent(trace[busy[w]], u).counters
                           /\ out' = Append(out, Entry(busy[w], processEvent(trace[busy[w]], u)))
  BY DEF Evaluate, Entry
<1> DEFINE R == CompileDir(Dir)
           p == busy[w]
           e == trace[p]
           acc == processEvent(e, u)
           o == Entry(p, acc)
<1>2. /\ IsFiniteSet(R) /\ ToSet(rules) = R /\ InOrder(rules, R)
      /\ \A r \in R : Ranked(r) /\ r.limit \in Nat /\ r.window \in Nat
      /\ \A r, q \in R : r.id = q.id => r = q
  BY <1>1, DirInUse
<1>3. p \in DOMAIN trace
  BY <1>1 DEF RunInv
<1>4. counters' = acc.counters /\ out' = Append(out, o)
  BY <1>20
<1> HIDE DEF e
<1>5. EventIsRight(R, e, acc)
  <2> HIDE DEF R
  <2>1. index = buildIndex(rules)
    BY DEF RunInv
  <2> QED BY <1>2, <2>1, EventFacts
<1> HIDE DEF acc, R
<1>6. PICK d, tr, fl :
        /\ acc = [counters |-> d, triggered |-> tr, failed |-> fl]
        /\ Typed(d) /\ tr \in Seq(R) /\ ToSet(tr) \subseteq R
        /\ IsVerdict(ToSet(tr), resolveVerdict(tr))
        /\ fl \subseteq {r.id : r \in R} /\ \A r \in ToSet(tr) : r.id \notin fl
        /\ {r \in R : r.limit = 0 /\ Fits(r, e)} \subseteq ToSet(tr) \cup {r \in R : r.id \in fl}
  BY <1>5 DEF EventIsRight
<1>7. acc.triggered = tr /\ acc.counters = d /\ acc.failed = fl
  BY <1>6
<1>8. ResultIsRight(o)
  <2>1. o.pos = p /\ o.id = e.id /\ o.verdict = resolveVerdict(tr) /\ o.failed = fl
        /\ o.rules = [i \in DOMAIN tr |-> tr[i].id]
    BY <1>7 DEF Entry, e
  <2> HIDE DEF o
  <2>2. ToSet(o.rules) = {r.id : r \in ToSet(tr)}
    BY <2>1 DEF ToSet
  <2>3. ToSet(tr) \in SUBSET ToSet(rules)
    BY <1>2, <1>6
  <2>4. {r \in ToSet(rules) : r.limit = 0 /\ Fits(r, trace[o.pos])}
           \subseteq ToSet(tr) \cup {r \in ToSet(rules) : r.id \in o.failed}
    BY <1>2, <1>6, <2>1 DEF e
  <2>5. o.pos \in DOMAIN trace /\ o.id = trace[o.pos].id
    BY <1>3, <2>1 DEF e
  <2>6. o.failed \subseteq {r.id : r \in ToSet(rules)} /\ ToSet(o.rules) \cap o.failed = {}
    BY <1>2, <1>6, <2>1, <2>2
  <2> HIDE DEF p
  <2> QED BY <1>6, <2>1, <2>2, <2>3, <2>4, <2>5, <2>6 DEF ResultIsRight
<1>9. \A i \in DOMAIN out' : ResultIsRight(out[i])'
  <2>1. \A x : ResultIsRight(x) => ResultIsRight(x)'
    BY <1>1 DEF ResultIsRight
  <2>2. IsSeq(out)
    BY DEF EntriesInv
  <2>3. PICK t, s : t = out' /\ s = out
    OBVIOUS
  <2>4. \A k \in DOMAIN t : (k \in DOMAIN s /\ t[k] = s[k]) \/ (k = Len(s) + 1 /\ t[k] = o)
    <3> HIDE DEF o
    <3> QED BY <1>4, <2>2, <2>3, AppendAt
  <2>5. \A k \in DOMAIN s : ResultIsRight(s[k])
    BY <2>3 DEF RunInv
  <2>6. \A k \in DOMAIN t : ResultIsRight(t[k])
    BY <1>8, <2>4, <2>5
  <2>7. \A k \in DOMAIN t : ResultIsRight(t[k])'
    BY <2>1, <2>6
  <2> QED BY <2>3, <2>7
<1>10. CountersInv'
  BY <1>1, <1>4, <1>6, <1>7 DEF CountersInv
<1>11. \A v \in team : busy'[v] # NoEvent => busy'[v] \in DOMAIN trace
  BY <1>1 DEF RunInv, EntriesInv
<1>12. (Loaded <=> Loaded') /\ Dir' = Dir
  BY <1>1 DEF Loaded, Dir
<1>13. InOrder(rules', (CompileDir(Dir))') /\ \A run \in Runs : Compiles(dirs[run])'
  BY <1>1, <1>2, <1>12 DEF R, RunInv
<1>14. RunInv'
  BY <1>1, <1>9, <1>11, <1>12, <1>13 DEF RunInv
<1> QED BY <1>10, <1>14

\* A worker takes a position of the trace.
LEMMA DequeueRun ==
    ASSUME RunInv, EntriesInv, NEW w \in team, Dequeue(w)
    PROVE  RunInv'
<1>1. /\ phase \in Runs /\ queue # <<>>
      /\ busy' = [busy EXCEPT ![w] = Head(queue)] /\ queue' = Tail(queue)
      /\ phase' = phase /\ dirs' = dirs /\ trace' = trace /\ team' = team
      /\ rules' = rules /\ index' = index /\ out' = out
  BY DEF Dequeue, inputs
<1>2. \A j \in DOMAIN queue : queue[j] \in DOMAIN trace
  BY <1>1 DEF RunInv
<1>3. /\ Head(queue) = queue[1] /\ 1 \in DOMAIN queue
      /\ \A j \in DOMAIN Tail(queue) : j + 1 \in DOMAIN queue /\ Tail(queue)[j] = queue[j + 1]
  BY <1>1 DEF EntriesInv
<1>4. \A j \in DOMAIN queue' : queue'[j] \in DOMAIN trace
  BY <1>1, <1>2, <1>3
<1>5. \A v \in team : busy'[v] # NoEvent => busy'[v] \in DOMAIN trace
  <2> TAKE v \in team
  <2>1. CASE v = w
    BY <1>1, <1>2, <1>3, <2>1 DEF EntriesInv
  <2>2. CASE v # w
    BY <1>1, <2>2 DEF RunInv, EntriesInv
  <2> QED BY <2>1, <2>2
<1>6. (Loaded <=> Loaded') /\ Dir' = Dir
  BY <1>1 DEF Loaded, Dir
<1>7. \A i \in DOMAIN out' : ResultIsRight(out[i])'
  <2>1. \A x : ResultIsRight(x) => ResultIsRight(x)'
    BY <1>1 DEF ResultIsRight
  <2>2. \A i \in DOMAIN out : ResultIsRight(out[i])
    BY DEF RunInv
  <2>3. PICK s : s = out /\ s = out'
    BY <1>1
  <2>4. \A i \in DOMAIN s : ResultIsRight(s[i])'
    BY <2>1, <2>2, <2>3
  <2> QED BY <2>3, <2>4
<1> QED BY <1>1, <1>4, <1>5, <1>6, <1>7 DEF RunInv

\* What does not touch the snapshot and the results, nor a running pool.
LEMMA OtherRun ==
    ASSUME RunInv, UNCHANGED <<dirs, trace, team, rules, index, out>>,
           \/ UNCHANGED <<phase, queue, busy>>
           \/ phase = "second" /\ phase' = "report"
           \/ phase = "load" /\ phase' = "error"
    PROVE  RunInv'
<1>1. (Loaded <=> Loaded') /\ (Loaded => Dir' = Dir)
  BY DEF Loaded, Dir, Runs
<1>2. \A i \in DOMAIN out' : ResultIsRight(out[i])'
  <2>1. \A x : ResultIsRight(x) => ResultIsRight(x)'
    BY DEF ResultIsRight
  <2>2. \A i \in DOMAIN out : ResultIsRight(out[i])
    BY DEF RunInv
  <2>3. PICK s : s = out /\ s = out'
    OBVIOUS
  <2>4. \A i \in DOMAIN s : ResultIsRight(s[i])'
    BY <2>1, <2>2, <2>3
  <2> QED BY <2>3, <2>4
<1>3. IF Loaded' THEN (\A run \in Runs : Compiles(dirs[run])') /\ InOrder(rules', (CompileDir(Dir))')
      ELSE rules' = <<>> /\ out' = <<>>
  <2>1. CASE Loaded
    BY <1>1, <2>1 DEF RunInv
  <2>2. CASE ~Loaded
    BY <1>1, <2>2 DEF RunInv
  <2> QED BY <2>1, <2>2
<1>4. phase' \in Runs => /\ \A j \in DOMAIN queue' : queue'[j] \in DOMAIN trace'
                         /\ \A w \in team' : busy'[w] # NoEvent => busy'[w] \in DOMAIN trace'
  BY DEF RunInv, Runs
<1>5. dirs' \in [Runs -> RuleSets] /\ index' = buildIndex(rules')
  BY DEF RunInv
<1> QED BY <1>2, <1>3, <1>4, <1>5 DEF RunInv

\* These invariants hold throughout.
LEMMA RunInductive == Spec => [](RunInv /\ CountersInv)
<1>1. Init => RunInv /\ CountersInv
  <2> SUFFICES ASSUME Init PROVE RunInv /\ CountersInv
    OBVIOUS
  <2>1. ~Loaded /\ phase \notin Runs
    BY DEF Init, Loaded, Runs
  <2>2. CountersInv
    <3>1. Typed(<<>>)
      BY DEF Typed, Stamps
    <3> QED BY <3>1 DEF Init, CountersInv
  <2>3. \A i \in DOMAIN out : ResultIsRight(out[i])
    BY DEF Init
  <2> QED BY <2>1, <2>2, <2>3 DEF Init, RunInv
<1>2. RunInv /\ CountersInv /\ EntriesInv /\ [Next]_vars => (RunInv /\ CountersInv)'
  <2> SUFFICES ASSUME RunInv, CountersInv, EntriesInv, [Next]_vars PROVE RunInv' /\ CountersInv'
    OBVIOUS
  <2>1. dirs \in [Runs -> RuleSets]
    BY DEF RunInv
  <2>2. CASE Load
    <3>1. CASE Start("first") /\ \A run \in Runs : Compiles(dirs[run])
      BY <2>1, <2>2, <3>1, StartRun DEF Load, Runs
    <3>2. CASE phase = "load" /\ phase' = "error" /\ UNCHANGED <<rules, index, poolVars>>
      <4>1. UNCHANGED <<dirs, trace, team, rules, index, out>> /\ counters' = counters /\ now' = now
        BY <2>2, <3>2 DEF Load, inputs, poolVars
      <4>2. RunInv'
        BY <3>2, <4>1, OtherRun
      <4> QED BY <4>1, <4>2 DEF CountersInv
    <3> QED BY <2>2, <3>1, <3>2 DEF Load
  <2>3. ASSUME NEW w \in team, Dequeue(w) PROVE RunInv' /\ CountersInv'
    <3>1. RunInv'
      BY <2>3, DequeueRun
    <3>2. counters' = counters /\ now' = now
      BY <2>3 DEF Dequeue
    <3> QED BY <3>1, <3>2 DEF CountersInv
  <2>4. ASSUME NEW w \in team, Evaluate(w) PROVE RunInv' /\ CountersInv'
    BY <2>4, EvaluateRun
  <2>5. CASE FinishFirst
    <3>1. Loaded /\ Start("second") /\ UNCHANGED inputs
      BY <2>5 DEF FinishFirst, Loaded, Runs
    <3>2. \A run \in Runs : Compiles(dirs[run])
      BY <3>1 DEF RunInv
    <3> QED BY <2>1, <3>1, <3>2, StartRun DEF Runs
  <2>6. CASE FinishSecond
    <3>1. /\ phase = "second" /\ phase' = "report" /\ counters' = counters /\ now' = now
          /\ UNCHANGED <<dirs, trace, team, rules, index, out>>
      BY <2>6 DEF FinishSecond, inputs, poolVars
    <3>2. RunInv'
      BY <3>1, OtherRun
    <3> QED BY <3>1, <3>2 DEF CountersInv
  <2>7. CASE UNCHANGED vars \/ Tick
    <3>1. /\ UNCHANGED <<dirs, trace, team, rules, index, out, phase, queue, busy>>
          /\ counters' = counters /\ now' \in {now, now + 1}
      BY <2>7 DEF vars, inputs, Tick
    <3>2. RunInv'
      BY <3>1, OtherRun
    <3> QED BY <3>1, <3>2 DEF CountersInv
  <2> QED BY <2>2, <2>3, <2>4, <2>5, <2>6, <2>7 DEF Next, Done
<1> QED BY <1>1, <1>2, EntriesInductive, PTL DEF Spec

\* The verdict of a result is that of its rules and does not depend on how the sort
\* ordered equal priorities, and the index is exact: for every rule directory and trace.
THEOREM VerdictIsRightCorrect == Spec => []VerdictIsRight
<1>1. RunInv => VerdictIsRight
  <2> SUFFICES ASSUME RunInv PROVE VerdictIsRight
    OBVIOUS
  <2> DEFINE R == ToSet(rules)
  <2>1. /\ InOrder(rules, R) /\ index = buildIndex(rules)
        /\ \A r \in R : r.prio \in Int
        /\ \A r, q \in R : r.id = q.id => r = q
    <3>1. CASE Loaded
      BY <3>1, DirInUse DEF RunInv, Ranked
    <3>2. CASE ~Loaded
      <4>1. rules = <<>> /\ R = {}
        BY <3>2 DEF RunInv, ToSet
      <4>2. InOrder(<<>>, {})
        BY DEF InOrder, ToSet
      <4> HIDE DEF R
      <4> QED BY <4>1, <4>2 DEF RunInv
    <3> QED BY <3>1, <3>2
  <2>2. IndexIsExact
    <3> SUFFICES ASSUME NEW t
                 PROVE  LET s == RulesForEvent(index, t)
                        IN /\ ToSet(s) = {r \in R : r.type \in {t, "*"}}
                           /\ IsInjective(s)
                           /\ \A i, j \in DOMAIN s : i < j => s[i].prio >= s[j].prio
      BY DEF IndexIsExact
    <3> DEFINE s == RulesForEvent(index, t)
    <3>1. InOrder(s, {r \in R : r.type \in {t, "*"}})
      <4> HIDE DEF R
      <4>1. InOrder(RulesForEvent(buildIndex(rules), t), {r \in R : r.type \in {t, "*"}})
        BY <2>1, IndexInOrder
      <4> QED BY <2>1, <4>1
    <3> HIDE DEF s, R
    <3>2. ToSet(s) = {r \in R : r.type \in {t, "*"}}
      BY <3>1 DEF InOrder
    <3>3. IsInjective(s)
      BY <3>1 DEF InOrder, IsInjective
    <3>4. \A i, j \in DOMAIN s : i < j => s[i].prio >= s[j].prio
      BY <3>1 DEF InOrder
    <3> QED BY <3>2, <3>3, <3>4 DEF s
  <2>3. ASSUME NEW i \in DOMAIN out
        PROVE  LET e == trace[out[i].pos]
                   T == {r \in ToSet(rules) : r.id \in ToSet(out[i].rules)}
                   top == {r \in T : \A q \in T : q.prio <= r.prio}
               IN /\ {r \in ToSet(rules) : /\ r.limit = 0 /\ r.type \in {e.type, "*"}
                                           /\ PrefilterMatch(r.match, e)}
                        \subseteq T \cup {r \in ToSet(rules) : r.id \in out[i].failed}
                  /\ IF T = {} THEN out[i].verdict = "approve"
                     ELSE /\ \E r \in top : r.verdict = out[i].verdict
                          /\ \A r \in top : VerdictWeight(r.verdict) <= VerdictWeight(out[i].verdict)
    <3>1. ResultIsRight(out[i])
      BY <2>3 DEF RunInv
    <3>2. PICK T \in SUBSET R :
            /\ ToSet(out[i].rules) = {r.id : r \in T}
            /\ {r \in R : r.limit = 0 /\ Fits(r, trace[out[i].pos])}
                  \subseteq T \cup {r \in R : r.id \in out[i].failed}
            /\ IsVerdict(T, out[i].verdict)
      BY <3>1 DEF ResultIsRight
    <3>3. T = {r \in R : r.id \in ToSet(out[i].rules)}
      <4> HIDE DEF R
      <4> QED BY <2>1, <3>2
    <3>4. {r \in R : /\ r.limit = 0 /\ r.type \in {trace[out[i].pos].type, "*"}
                     /\ PrefilterMatch(r.match, trace[out[i].pos])}
             \subseteq T \cup {r \in R : r.id \in out[i].failed}
      BY <3>2 DEF Fits
    <3>5. IF T = {} THEN out[i].verdict = "approve"
          ELSE /\ \E r \in {r \in T : \A q \in T : q.prio <= r.prio} : r.verdict = out[i].verdict
               /\ \A r \in {r \in T : \A q \in T : q.prio <= r.prio} :
                     VerdictWeight(r.verdict) <= VerdictWeight(out[i].verdict)
      BY <3>2 DEF IsVerdict
    <3> QED BY <3>3, <3>4, <3>5
  <2> QED BY <2>2, <2>3 DEF VerdictIsRight
<1> QED BY <1>1, RunInductive, PTL

-----------------------------------------------------------------------------
(* A pool of one worker runs the entries in the trace's order.             *)

\* What an entry adds to the counters of its entity.
LEMMA PastStep ==
    ASSUME NEW R, IsFiniteSet(R), NEW p \in Nat, NEW key, NEW ent
    PROVE  /\ Cardinality(Past(R, p, key, ent)) \in Nat
           /\ Cardinality(Past(R, p + 1, key, ent))
                 = Cardinality(Past(R, p, key, ent))
                      + IF ent = trace[p + 1].entity THEN Cardinality(AllAdvancers(R, trace[p + 1], key)) ELSE 0
<1> DEFINE e == trace[p + 1]
           A == Past(R, p, key, ent)
           C == AllAdvancers(R, e, key)
           N == {<<p + 1, r>> : r \in C}
<1>1. IsFiniteSet(A)
  <2>1. 1 \in Int /\ p \in Int
    OBVIOUS
  <2>2. IsFiniteSet(1..p)
    BY <2>1, FS_Interval
  <2>3. IsFiniteSet((1..p) \X R)
    BY <2>2, FS_Product
  <2>4. A \in SUBSET ((1..p) \X R)
    BY DEF Past
  <2> QED BY <2>3, <2>4, FS_Subset
<1>2. IsFiniteSet(C)
  <2>1. C \in SUBSET R
    BY DEF AllAdvancers
  <2> QED BY <2>1, FS_Subset
<1>3. IsFiniteSet(N) /\ Cardinality(N) = Cardinality(C)
  <2> DEFINE h == [r \in C |-> <<p + 1, r>>]
  <2>1. /\ h \in [C -> N] /\ \A a, b \in C : h[a] = h[b] => a = b
        /\ \A t \in N : \E r \in C : h[r] = t
    <3> HIDE DEF C
    <3> QED OBVIOUS
  <2> HIDE DEF h, N, C
  <2>2. h \in Bijection(C, N)
    BY <2>1, Fun_IsBij
  <2> QED BY <1>2, <2>2, FS_Bijection, Fun_ExistsBij
<1>4. A \cap N = {}
  BY DEF Past
<1>5. 1..(p + 1) = (1..p) \cup {p + 1}
  OBVIOUS
<1>6. CASE ent = e.entity
  <2>1. Past(R, p + 1, key, ent) = A \cup N
    <3>1. \A x \in (1..(p + 1)) \X R : x \in Past(R, p + 1, key, ent) <=> x \in A \/ x \in N
      <4> TAKE x \in (1..(p + 1)) \X R
      <4>1. PICK i \in 1..(p + 1), r \in R : x = <<i, r>>
        OBVIOUS
      <4>2. CASE i = p + 1
        <5>1. x \notin A
          BY <4>1, <4>2 DEF Past
        <5>2. x \in Past(R, p + 1, key, ent) <=> r \in C
          BY <1>6, <4>1, <4>2 DEF Past, AllAdvancers
        <5>3. x \in N <=> r \in C
          BY <4>1, <4>2
        <5> QED BY <5>1, <5>2, <5>3
      <4>3. CASE i \in 1..p
        <5>1. x \notin N
          BY <4>1, <4>3
        <5> QED BY <4>1, <4>3, <5>1 DEF Past
      <4> QED BY <1>5, <4>2, <4>3
    <3>2. A \subseteq (1..(p + 1)) \X R /\ N \subseteq (1..(p + 1)) \X R
      BY <1>5 DEF Past, AllAdvancers
    <3>3. Past(R, p + 1, key, ent) \subseteq (1..(p + 1)) \X R
      BY DEF Past
    <3> HIDE DEF A, N
    <3> QED BY <3>1, <3>2, <3>3
  <2> HIDE DEF A, N, C
  <2>2. A \cap N = {}
    BY <1>4
  <2>3. Cardinality(A \cup N) = Cardinality(A) + Cardinality(N) - Cardinality(A \cap N)
    BY <1>1, <1>3, FS_Union
  <2>4. Cardinality(A \cap N) = 0
    BY <2>2, FS_EmptySet
  <2>5. Cardinality(A) \in Nat /\ Cardinality(C) \in Nat
    BY <1>1, <1>2, FS_CardinalityType
  <2>6. Cardinality(Past(R, p + 1, key, ent)) = Cardinality(A) + Cardinality(C)
    <3>1. Cardinality(A \cup N) = Cardinality(A) + Cardinality(C) - 0
      BY <1>3, <2>3, <2>4
    <3>2. Cardinality(A) + Cardinality(C) - 0 = Cardinality(A) + Cardinality(C)
      BY <2>5
    <3>3. Cardinality(Past(R, p + 1, key, ent)) = Cardinality(A \cup N)
      BY <2>1
    <3> QED BY <3>1, <3>2, <3>3
  <2> QED BY <1>6, <2>5, <2>6 DEF A, C
<1>7. CASE ent # e.entity
  <2>1. Past(R, p + 1, key, ent) = A
    BY <1>5, <1>7 DEF Past
  <2> HIDE DEF A
  <2>2. Cardinality(A) \in Nat
    BY <1>1, FS_CardinalityType
  <2> QED BY <1>7, <2>1, <2>2 DEF A
<1> QED BY <1>6, <1>7

\* Before the first entry nothing has been counted.
LEMMA PastNone ==
    ASSUME NEW R, NEW key, NEW ent
    PROVE  Cardinality(Past(R, 0, key, ent)) = 0
<1>1. Past(R, 0, key, ent) = {}
  BY DEF Past
<1> QED BY <1>1, FS_EmptySet

\* Of the results under an id one is the last.
LEMMA LastForFacts ==
    ASSUME NEW s, IsSeq(s), NEW id, NEW k \in DOMAIN s, s[k].id = id
    PROVE  \E i \in DOMAIN s : LastFor(s, id) = s[i] /\ s[i].id = id
<1> DEFINE n == Len(s)
           IsLast(i) == s[i].id = id /\ \A j \in DOMAIN s : s[j].id = id => j <= i
           V == {m \in Nat : \A j \in 1..n : s[j].id = id /\ n - j <= m => \E i \in 1..n : IsLast(i)}
<1>1. n \in Nat /\ DOMAIN s = 1..n
  <2> DEFINE T == {s[j] : j \in DOMAIN s}
  <2>1. s \in Seq(T)
    BY DEF IsSeq
  <2> HIDE DEF T
  <2> QED BY <2>1
<1> HIDE DEF n
<1>2. 0 \in V
  <2> SUFFICES ASSUME NEW j \in 1..n, s[j].id = id, n - j <= 0 PROVE IsLast(j)
    <3> HIDE DEF IsLast
    <3> QED OBVIOUS
  <2>1. j = n
    BY <1>1
  <2> QED BY <1>1, <2>1
<1>3. \A m \in V : m + 1 \in V
  <2> SUFFICES ASSUME NEW m \in Nat, \A j \in 1..n : s[j].id = id /\ n - j <= m => \E i \in 1..n : IsLast(i),
                      NEW j \in 1..n, s[j].id = id, n - j <= m + 1
               PROVE  \E i \in 1..n : IsLast(i)
    <3> HIDE DEF IsLast
    <3> QED OBVIOUS
  <2>1. CASE IsLast(j)
    BY <2>1
  <2>2. CASE ~IsLast(j)
    <3>1. PICK q \in 1..n : s[q].id = id /\ ~(q <= j)
      BY <1>1, <2>2
    <3>2. n - q <= m
      BY <1>1, <3>1
    <3> HIDE DEF IsLast
    <3> QED BY <3>1, <3>2
  <2> QED BY <2>1, <2>2
<1>4. V = Nat
  <2>1. V \in SUBSET Nat
    <3> HIDE DEF IsLast
    <3> QED OBVIOUS
  <2> HIDE DEF V
  <2> QED BY <1>2, <1>3, <2>1, SetInduction
<1>5. \E i \in DOMAIN s : IsLast(i)
  <2>1. n - k \in Nat /\ n - k <= n - k
    BY <1>1
  <2> HIDE DEF IsLast
  <2> QED BY <1>1, <1>4, <2>1
<1> DEFINE i == CHOOSE x \in DOMAIN s : IsLast(x)
<1>6. i \in DOMAIN s /\ IsLast(i)
  <2> HIDE DEF IsLast
  <2> QED BY <1>5
<1>7. LastFor(s, id) = s[i]
  BY DEF LastFor
<1> HIDE DEF i
<1> QED BY <1>6, <1>7

\* A pool of one worker has that worker.
LEMMA OneWorker ==
    ASSUME NEW T \in Teams, Cardinality(T) = 1, NEW v \in T, NEW w \in T
    PROVE  v = w
<1>1. IsFiniteSet(T)
  BY ReplayAssumption
<1>2. PICK x : T = {x}
  BY <1>1, FS_Singleton
<1> QED BY <1>2

\* A trace is a list.
LEMMA TraceFacts ==
    ASSUME trace \in Traces
    PROVE  Len(trace) \in Nat /\ DOMAIN trace = 1..Len(trace)
<1> DEFINE S == ToSet(trace)
<1>1. trace \in Seq(S)
  BY ReplayAssumption
<1> HIDE DEF S
<1> QED BY <1>1

\* The pool starts with the trace in order and the counters empty.
LEMMA StartSerial ==
    ASSUME NEW run \in Runs, Start(run), UNCHANGED inputs, team \in Teams, trace \in Traces
    PROVE  SerialInv'
<1>1. /\ queue' = [i \in DOMAIN trace |-> i] /\ busy' = [w \in team |-> NoEvent]
      /\ out' = <<>> /\ counters' = <<>> /\ phase' = run /\ team' = team /\ trace' = trace
  BY DEF Start, inputs
<1>2. Finished' = 0
  BY <1>1 DEF Finished
<1>3. \A w \in team' : /\ busy'[w] # NoEvent => busy'[w] = Finished' + 1
                       /\ \A j \in DOMAIN queue' :
                             queue'[j] = Finished' + j + IF busy'[w] = NoEvent THEN 0 ELSE 1
  BY <1>1, <1>2, TraceFacts
<1>4. PICK R : R = CompileDir(Dir)'
  OBVIOUS
<1>5. CountersAre(R, 0)'
  <2>1. \A k : Reading(<<>>, k) = 0
    BY DEF Reading, Stamps
  <2>2. \A key, ent : Cardinality(Past(R, 0, key, ent)) = 0
    BY PastNone
  <2>3. \A key, ent : Past(R, 0, key, ent)' = Past(R, 0, key, ent)
    BY <1>1 DEF Past
  <2> QED BY <1>1, <2>1, <2>2, <2>3 DEF CountersAre
<1>6. CountersAre(CompileDir(Dir), Finished)'
  BY <1>2, <1>4, <1>5 DEF CountersAre
<1>7. team' \in Teams
  BY <1>1
<1> QED BY <1>3, <1>6, <1>7 DEF SerialInv

\* The one worker takes the next entry.
LEMMA DequeueSerial ==
    ASSUME SerialInv, EntriesInv, NEW w \in team, Dequeue(w)
    PROVE  SerialInv'
<1>1. /\ phase \in Runs /\ queue # <<>> /\ busy[w] = NoEvent
      /\ busy' = [busy EXCEPT ![w] = Head(queue)] /\ queue' = Tail(queue)
      /\ phase' = phase /\ dirs' = dirs /\ trace' = trace /\ team' = team /\ counters' = counters
      /\ out' = out /\ now' = now
  BY DEF Dequeue, inputs
<1>2. team' \in Teams
  BY <1>1 DEF SerialInv
<1>3. Dir' = Dir /\ Finished' = Finished
  BY <1>1 DEF Dir, Finished
<1>4. PICK R, n : R = CompileDir(Dir) /\ R = CompileDir(Dir)' /\ n = Finished /\ n = Finished'
  BY <1>1, <1>3
<1>5. ASSUME Cardinality(team) = 1, (Clean(out) /\ Within(CompileDir(Dir), now))'
      PROVE  CountersAre(CompileDir(Dir), Finished)'
  <2>0. Clean(out) /\ Within(CompileDir(Dir), now)
    <3>1. Clean(out) /\ Within(R, now)
      BY <1>1, <1>4, <1>5 DEF Clean, Within
    <3> QED BY <1>4, <3>1
  <2>1. CountersAre(R, n)
    BY <1>1, <1>4, <1>5, <2>0 DEF SerialInv
  <2>2. \A key, ent : Past(R, n, key, ent)' = Past(R, n, key, ent)
    BY <1>1 DEF Past
  <2>3. CountersAre(R, n)'
    BY <1>1, <2>1, <2>2 DEF CountersAre
  <2> QED BY <1>4, <2>3 DEF CountersAre
<1>6. ASSUME Cardinality(team) = 1, NEW v \in team
      PROVE  /\ busy'[v] = n + 1
             /\ \A j \in DOMAIN queue' : queue'[j] = n + j + 1
  <2>1. v = w
    BY <1>6, OneWorker DEF SerialInv
  <2>2. \A j \in DOMAIN queue : queue[j] = n + j
    <3>1. \A j \in DOMAIN queue : queue[j] = Finished + j + 0
      BY <1>1, <1>6 DEF SerialInv
    <3>2. n \in Nat /\ queue \in Seq(Nat)
      BY <1>4 DEF EntriesInv, Finished, IsSeq
    <3> QED BY <1>4, <3>1, <3>2
  <2>3. /\ Head(queue) = queue[1] /\ 1 \in DOMAIN queue
        /\ \A j \in DOMAIN Tail(queue) :
              /\ j \in Nat /\ j + 1 \in DOMAIN queue /\ Tail(queue)[j] = queue[j + 1]
    BY <1>1 DEF EntriesInv
  <2>4. n \in Nat
    BY <1>4 DEF EntriesInv, Finished, IsSeq
  <2>5. busy'[v] = queue[1]
    BY <1>1, <2>1, <2>3 DEF EntriesInv
  <2>6. \A j \in DOMAIN queue' : queue'[j] = n + j + 1
    <3> SUFFICES ASSUME NEW j \in DOMAIN Tail(queue) PROVE Tail(queue)[j] = n + j + 1
      BY <1>1
    <3>1. Tail(queue)[j] = n + (j + 1) /\ j \in Nat
      BY <2>2, <2>3
    <3> QED BY <2>4, <3>1
  <2> QED BY <2>2, <2>3, <2>5, <2>6
<1>7. n + 1 # NoEvent
  <2>1. n \in Nat
    BY <1>4 DEF EntriesInv, Finished, IsSeq
  <2> QED BY <2>1, ReplayAssumption
<1>8. ASSUME Cardinality(team) = 1, NEW v \in team'
      PROVE  /\ busy'[v] # NoEvent => busy'[v] = Finished' + 1
             /\ \A j \in DOMAIN queue' :
                   queue'[j] = Finished' + j + IF busy'[v] = NoEvent THEN 0 ELSE 1
  BY <1>1, <1>4, <1>6, <1>7, <1>8
<1> QED BY <1>1, <1>2, <1>5, <1>8 DEF SerialInv

\* The one worker's result.
LEMMA EvaluateSerial ==
    ASSUME RunInv, CountersInv, SerialInv, EntriesInv, NEW w \in team, Evaluate(w)
    PROVE  SerialInv'
<1>1. /\ phase \in Runs /\ busy[w] # NoEvent /\ Loaded
      /\ busy' = [busy EXCEPT ![w] = NoEvent]
      /\ phase' = phase /\ dirs' = dirs /\ trace' = trace /\ team' = team
      /\ queue' = queue /\ now' = now
  BY DEF Evaluate, inputs, Loaded
<1>14. PICK u \in Faults : /\ counters' = processEvent(trace[busy[w]], u).counters
                           /\ out' = Append(out, Entry(busy[w], processEvent(trace[busy[w]], u)))
  BY DEF Evaluate, Entry
<1>2. team' \in Teams /\ Dir' = Dir
  BY <1>1 DEF SerialInv, Dir
<1>3. PICK n : n = Finished
  OBVIOUS
<1>15. IsSeq(out)
  BY DEF EntriesInv
<1>4. Finished' = n + 1 /\ n \in Nat
  <2>1. Len(out') = Len(out) + 1 /\ Len(out) \in Nat
    BY <1>14, <1>15, AppendAt
  <2> QED BY <1>3, <2>1 DEF Finished
<1>5. PICK R : R = CompileDir(Dir) /\ R = CompileDir(Dir)'
  BY <1>1, <1>2
<1>6. /\ IsFiniteSet(R) /\ InOrder(rules, R) /\ index = buildIndex(rules)
      /\ \A r \in R : Ranked(r) /\ r.limit \in Nat /\ r.window \in Nat
      /\ \A r, q \in R : r.id = q.id => r = q
  BY <1>1, <1>5, DirInUse DEF RunInv
<1>7. PICK e : e = trace[busy[w]]
  OBVIOUS
<1>8. EventIsRight(R, e, processEvent(e, u))
  BY <1>6, EventFacts
<1>16. PICK d, tr, fl :
        /\ processEvent(e, u) = [counters |-> d, triggered |-> tr, failed |-> fl]
        /\ fl = {} /\ Within(R, now) =>
              \A key, ent : Reading(d, <<key, ent>>)
                 = Reading(counters, <<key, ent>>)
                      + IF ent = e.entity THEN Cardinality(AllAdvancers(R, e, key)) ELSE 0
  BY <1>8 DEF EventIsRight
<1>17. ASSUME (Clean(out) /\ Within(CompileDir(Dir), now))'
       PROVE  Clean(out) /\ Within(R, now) /\ fl = {}
  <2>1. Within(R, now)
    BY <1>1, <1>5, <1>17 DEF Within
  <2>2. PICK o, t, z : /\ o = Entry(busy[w], processEvent(e, u)) /\ t = out' /\ z = out
                       /\ t = Append(z, o) /\ IsSeq(z) /\ \A k \in DOMAIN t : t[k].failed = {}
    BY <1>7, <1>14, <1>15, <1>17 DEF Clean
  <2>3. /\ \A k \in DOMAIN z : k \in DOMAIN t /\ t[k] = z[k]
        /\ \E k \in DOMAIN t : t[k] = o
    <3>1. \A k \in DOMAIN z : k \in DOMAIN t /\ t[k] = z[k]
      BY <2>2, AppendSeq
    <3>2. \E k \in DOMAIN t : t[k] = o
      BY <2>2, AppendSeq
    <3> QED BY <3>1, <3>2
  <2>4. o.failed = fl
    BY <1>16, <2>2 DEF Entry
  <2> QED BY <2>1, <2>2, <2>3, <2>4 DEF Clean
<1>9. ASSUME Within(R, now), fl = {}
      PROVE  \A key, ent : Reading(counters', <<key, ent>>)
                = Reading(counters, <<key, ent>>)
                     + IF ent = e.entity THEN Cardinality(AllAdvancers(R, e, key)) ELSE 0
  <2>1. counters' = d
    BY <1>7, <1>14, <1>16
  <2> QED BY <1>9, <1>16, <2>1
<1>10. ASSUME Cardinality(team) = 1
       PROVE  /\ busy[w] = n + 1 /\ (Clean(out) /\ Within(R, now) => CountersAre(R, n))
              /\ \A j \in DOMAIN queue : queue[j] = n + j + 1
  <2>1. Clean(out) /\ Within(R, now) => CountersAre(R, n)
    BY <1>1, <1>3, <1>5, <1>10 DEF SerialInv
  <2>2. busy[w] = n + 1
    BY <1>1, <1>3, <1>10 DEF SerialInv
  <2>3. \A j \in DOMAIN queue : queue[j] = n + j + 1
    BY <1>1, <1>3, <1>10 DEF SerialInv
  <2> QED BY <2>1, <2>2, <2>3
<1>11. ASSUME Cardinality(team) = 1, (Clean(out) /\ Within(CompileDir(Dir), now))'
       PROVE  CountersAre(CompileDir(Dir), Finished)'
  <2>0. Clean(out) /\ Within(R, now) /\ fl = {}
    BY <1>11, <1>17
  <2>1. e = trace[n + 1]
    BY <1>7, <1>10, <1>11
  <2>2. \A key, ent : Cardinality(Past(R, n + 1, key, ent))
           = Cardinality(Past(R, n, key, ent))
                + IF ent = e.entity THEN Cardinality(AllAdvancers(R, e, key)) ELSE 0
    BY <1>4, <1>6, <2>1, PastStep
  <2>3. \A key, ent : Reading(counters', <<key, ent>>) = Cardinality(Past(R, n + 1, key, ent))
    <3> TAKE key, ent
    <3>1. Reading(counters, <<key, ent>>) = Cardinality(Past(R, n, key, ent))
      BY <1>10, <1>11, <2>0 DEF CountersAre
    <3> QED BY <1>9, <2>0, <2>2, <3>1
  <2>4. \A key, ent : Past(R, n + 1, key, ent)' = Past(R, n + 1, key, ent)
    BY <1>1 DEF Past
  <2>5. CountersAre(R, n + 1)'
    BY <2>3, <2>4 DEF CountersAre
  <2> QED BY <1>4, <1>5, <2>5 DEF CountersAre
<1>12. ASSUME Cardinality(team) = 1, NEW v \in team
       PROVE  /\ busy'[v] = NoEvent
              /\ \A j \in DOMAIN queue' : queue'[j] = Finished' + j + 0
  <2>1. v = w
    BY <1>12, OneWorker DEF SerialInv
  <2>2. busy'[v] = NoEvent
    BY <1>1, <2>1 DEF EntriesInv
  <2>3. \A j \in DOMAIN queue : j \in Nat
    BY DEF EntriesInv
  <2>4. \A j \in DOMAIN queue' : queue'[j] = Finished' + j + 0
    BY <1>1, <1>4, <1>10, <1>12, <2>3
  <2> QED BY <2>2, <2>4
<1>13. ASSUME Cardinality(team) = 1, NEW v \in team'
       PROVE  /\ busy'[v] # NoEvent => busy'[v] = Finished' + 1
              /\ \A j \in DOMAIN queue' :
                    queue'[j] = Finished' + j + IF busy'[v] = NoEvent THEN 0 ELSE 1
  BY <1>1, <1>12, <1>13
<1> QED BY <1>1, <1>2, <1>11, <1>13 DEF SerialInv

\* A result depends on its entry and the directory only, if no rule counts or one
\* worker runs and rules of a priority have counters of their own.
LEMMA EvaluateExact ==
    ASSUME RunInv, CountersInv, SerialInv, EntriesInv, Exact(Dir, out, now),
           NEW w \in team, Evaluate(w)
    PROVE  Exact(Dir, out, now)'
<1>1. /\ phase \in Runs /\ busy[w] # NoEvent /\ Loaded
      /\ phase' = phase /\ dirs' = dirs /\ trace' = trace /\ team' = team /\ now' = now
  BY DEF Evaluate, inputs, Loaded
<1>2. Dir' = Dir
  BY <1>1 DEF Dir
<1>3. PICK S, R, p, e : S = Dir /\ R = CompileDir(S) /\ p = busy[w] /\ e = trace[p]
  OBVIOUS
<1>4. /\ IsFiniteSet(R) /\ InOrder(rules, R) /\ index = buildIndex(rules)
      /\ \A r \in R : Ranked(r) /\ r.limit \in Nat /\ r.window \in Nat
      /\ \A r, q \in R : r.id = q.id => r = q
      /\ S \in RuleSets /\ Compiles(S)
  BY <1>1, <1>3, DirInUse DEF RunInv
<1>5. PICK u \in Faults : out' = Append(out, Entry(busy[w], processEvent(trace[busy[w]], u)))
  BY DEF Evaluate, Entry
<1>14. EventIsRight(R, e, processEvent(e, u))
  BY <1>4, EventFacts
<1>6. PICK d, tr, fl :
        /\ processEvent(e, u) = [counters |-> d, triggered |-> tr, failed |-> fl]
        /\ IsVerdict(ToSet(tr), resolveVerdict(tr))
        /\ fl = {} /\ Within(R, now) =>
              ((\A r \in R : r.limit = 0) \/ Apart(R) =>
                  ToSet(tr) = {r \in R : /\ Fits(r, e)
                                         /\ \/ r.limit = 0
                                            \/ Reading(counters, Slot(r, e))
                                                  + Cardinality(Peers(R, r, e)) >= r.limit})
  BY <1>14 DEF EventIsRight
<1>7. PICK o : /\ out' = Append(out, o) /\ o.failed = fl
               /\ o.pos = p /\ o.verdict = resolveVerdict(processEvent(e, u).triggered)
  <2>1. Entry(p, processEvent(e, u)).failed = processEvent(e, u).failed
    BY DEF Entry
  <2>2. /\ Entry(p, processEvent(e, u)).pos = p
        /\ Entry(p, processEvent(e, u)).verdict = resolveVerdict(processEvent(e, u).triggered)
    BY DEF Entry
  <2> QED BY <1>3, <1>5, <1>6, <2>1, <2>2
<1>8. o.verdict = resolveVerdict(tr)
  BY <1>6, <1>7
<1>15. IsSeq(out)
  BY DEF EntriesInv
<1>16. ASSUME Clean(out)', Within(S, now) PROVE Clean(out) /\ fl = {} /\ Within(R, now)
  <2>1. Within(R, now)
    BY <1>3, <1>4, <1>16, DirFacts
  <2>2. PICK t, z : /\ t = out' /\ z = out /\ t = Append(z, o) /\ IsSeq(z)
                    /\ \A k \in DOMAIN t : t[k].failed = {}
    BY <1>7, <1>15, <1>16 DEF Clean
  <2>3. \A k \in DOMAIN z : k \in DOMAIN t /\ t[k] = z[k]
    BY <2>2, AppendSeq
  <2>4. \E k \in DOMAIN t : t[k] = o
    BY <2>2, AppendSeq
  <2> QED BY <1>7, <2>1, <2>2, <2>3, <2>4 DEF Clean
<1>9. ASSUME Regular(S), Clean(out), fl = {}, Within(R, now) PROVE ToSet(tr) = Triggering(R, p)
  <2>1. CASE ~Counts(S)
    <3>1. \A r \in R : r.limit = 0
      BY <1>3, <1>4, <2>1, DirFacts
    <3>2. ToSet(tr) = {r \in R : Fits(r, e)}
      BY <1>6, <1>9, <3>1
    <3>3. Triggering(R, p) = {r \in R : Fits(r, e)}
      BY <1>3, <3>1 DEF Triggering
    <3> QED BY <3>2, <3>3
  <2>2. CASE Cardinality(team) = 1 /\ Apart(S)
    <3>1. Apart(R)
      BY <1>3, <1>4, <2>2, DirFacts
    <3>2. p = Finished + 1 /\ CountersAre(R, Finished)
      BY <1>1, <1>3, <1>9, <2>2 DEF SerialInv
    <3>3. Finished = p - 1
      <4>1. Finished \in Nat
        BY DEF EntriesInv, Finished, IsSeq
      <4> QED BY <3>2, <4>1
    <3>4. \A r : Reading(counters, Slot(r, e)) = Cardinality(Past(R, p - 1, r.key, e.entity))
      BY <3>2, <3>3 DEF CountersAre, Slot
    <3>5. Triggering(R, p) = {r \in R : /\ Fits(r, e)
                                        /\ \/ r.limit = 0
                                           \/ Reading(counters, Slot(r, e))
                                                 + Cardinality(Peers(R, r, e)) >= r.limit}
      BY <1>3, <3>4 DEF Triggering
    <3> QED BY <1>6, <1>9, <3>1, <3>5
  <2> QED BY <1>9, <2>1, <2>2 DEF Regular
<1>10. (Regular(S))' = Regular(S)
  BY <1>1 DEF Regular
<1>11. \A i : Triggering(R, i)' = Triggering(R, i)
  BY <1>1 DEF Triggering, Past
<1>12. ASSUME Regular(S), Clean(out)', Within(S, now), NEW k \in DOMAIN out'
       PROVE  IsVerdict(Triggering(R, out'[k].pos), out'[k].verdict)
  <2>1. Clean(out) /\ fl = {} /\ Within(R, now)
    BY <1>12, <1>16
  <2>2. (k \in DOMAIN out /\ out'[k] = out[k]) \/ out'[k] = o
    BY <1>7, <1>12, <1>15, AppendAt
  <2>3. CASE k \in DOMAIN out /\ out'[k] = out[k]
    BY <1>3, <1>12, <2>1, <2>3 DEF Exact
  <2>4. CASE out'[k] = o
    BY <1>6, <1>7, <1>8, <1>9, <1>12, <2>1, <2>4
  <2> QED BY <2>2, <2>3, <2>4
<1>13. Exact(S, out, now)'
  <2>1. CompileDir(S)' = R
    BY <1>3
  <2>2. Within(S, now)' <=> Within(S, now)
    BY <1>1 DEF Within
  <2> QED BY <1>10, <1>11, <1>12, <2>1, <2>2 DEF Exact
<1> QED BY <1>2, <1>3, <1>13 DEF Exact

-----------------------------------------------------------------------------
(* A rule set compared with itself.                                        *)

\* What Exact says does not change with the pool's state.
LEMMA ExactKept ==
    ASSUME NEW S, NEW s, NEW t, Exact(S, s, t), UNCHANGED <<trace, team>>
    PROVE  Exact(S, s, t)'
<1>1. (Regular(S))' = Regular(S)
  BY DEF Regular
<1>2. \A i : Triggering(CompileDir(S), i)' = Triggering(CompileDir(S), i)
  BY DEF Triggering, Past
<1> QED BY <1>1, <1>2 DEF Exact

\* What was saved of the first run stays.
LEMMA SavedKept ==
    ASSUME Saved, UNCHANGED <<trace, team, dirs>>,
           phase' \in {"second", "report"} => phase \in {"second", "report"},
           DOMAIN results' = Runs, results'["first"] = results["first"],
           DOMAIN ended' = Runs, ended'["first"] = ended["first"]
    PROVE  Saved'
<1>1. PICK s, S, t : s = results["first"] /\ S = dirs["first"] /\ t = ended["first"]
  OBVIOUS
<1>2. CASE phase' \in {"second", "report"}
  <2>1. /\ IsSeq(s) /\ Exact(S, s, t)
        /\ \A k \in DOMAIN s : s[k].pos \in DOMAIN trace /\ s[k].id = trace[s[k].pos].id
        /\ \A i \in DOMAIN trace : \E k \in DOMAIN s : s[k].id = trace[i].id
    BY <1>1, <1>2 DEF Saved
  <2>2. Exact(S, s, t)'
    BY <2>1, ExactKept
  <2>3. s = results'["first"] /\ S = dirs'["first"] /\ t = ended'["first"]
    BY <1>1
  <2> QED BY <2>1, <2>2, <2>3 DEF Saved, Exact
<1>3. CASE phase' \notin {"second", "report"}
  BY <1>3 DEF Saved
<1> QED BY <1>2, <1>3

\* When the pool is idle every entry has its result.
LEMMA FinishSaves ==
    ASSUME RunInv, EntriesInv, Exact(Dir, out, now), phase = "first", PoolIdle,
           UNCHANGED <<trace, team, dirs>>, DOMAIN results' = Runs, results'["first"] = out,
           DOMAIN ended' = Runs, ended'["first"] = now
    PROVE  Saved'
<1>1. PICK s, S, t : s = out /\ S = dirs["first"] /\ t = now
  OBVIOUS
<1>2. Exact(S, s, t)
  BY <1>1 DEF Dir
<1>3. Exact(S, s, t)'
  BY <1>2, ExactKept
<1>4. \A k \in DOMAIN s : s[k].pos \in DOMAIN trace /\ s[k].id = trace[s[k].pos].id
  BY <1>1 DEF RunInv, ResultIsRight
<1>5. \A i \in DOMAIN trace : \E k \in DOMAIN s : s[k].id = trace[i].id
  <2> TAKE i \in DOMAIN trace
  <2>1. Reached(i)
    BY DEF EntriesInv, Runs
  <2>2. i # NoEvent
    BY TraceFacts, ReplayAssumption DEF EntriesInv
  <2> QED BY <1>1, <2>1, <2>2 DEF Reached, PoolIdle
<1>6. s = results'["first"] /\ S = dirs'["first"] /\ t = ended'["first"] /\ IsSeq(s)
  BY <1>1 DEF EntriesInv
<1> QED BY <1>3, <1>4, <1>5, <1>6 DEF Saved, Exact

\* The comparison of a directory with itself.
LEMMA NoDifference ==
    ASSUME RunInv, EntriesInv, Exact(Dir, out, now), Saved, phase = "second", PoolIdle,
           dirs["first"] = dirs["second"], DistinctIds, Regular(Dir),
           Quiet("first"), Clean(out), Within(Dir, now)
    PROVE  Diff(out).changed = 0
<1>1. PICK s, S, R : s = results["first"] /\ S = Dir /\ R = CompileDir(S)
  OBVIOUS
<1>2. S = dirs["first"] /\ S = dirs["second"]
  BY <1>1 DEF Dir
<1>3. /\ IsSeq(s) /\ Exact(S, s, ended["first"]) /\ Clean(s) /\ Within(S, ended["first"])
      /\ \A k \in DOMAIN s : s[k].pos \in DOMAIN trace /\ s[k].id = trace[s[k].pos].id
      /\ \A i \in DOMAIN trace : \E k \in DOMAIN s : s[k].id = trace[i].id
  BY <1>1, <1>2 DEF Saved, Quiet, Clean, Within
<1>4. \A r \in R : Ranked(r)
  <2>1. Loaded
    BY DEF Loaded, Runs
  <2> QED BY <1>1, <2>1, DirInUse
<1>5. \A k \in DOMAIN out : out[k].pos \in DOMAIN trace /\ out[k].id = trace[out[k].pos].id
  BY DEF RunInv, ResultIsRight
<1>6. ASSUME NEW i \in DOMAIN trace, \E k \in DOMAIN out : out[k].id = trace[i].id
      PROVE  FirstResult(i).verdict = LastFor(out, trace[i].id).verdict
  <2>1. PICK k \in DOMAIN out : LastFor(out, trace[i].id) = out[k] /\ out[k].id = trace[i].id
    BY <1>6, LastForFacts DEF EntriesInv
  <2>2. out[k].pos = i
    BY <1>5, <2>1 DEF DistinctIds
  <2>3. IsVerdict(Triggering(R, i), out[k].verdict)
    BY <1>1, <2>2 DEF Exact
  <2>4. PICK j \in DOMAIN s : FirstResult(i) = s[j] /\ s[j].pos = i
    <3>1. PICK q \in DOMAIN s : s[q].id = trace[i].id
      BY <1>3
    <3>2. s[q].pos = i
      BY <1>3, <3>1 DEF DistinctIds
    <3>3. CASE mode = "replay"
      <4>1. FirstResult(i) = s[CHOOSE x \in DOMAIN s : s[x].pos = i]
        BY <1>1, <3>3 DEF FirstResult
      <4> DEFINE c == CHOOSE x \in DOMAIN s : s[x].pos = i
      <4>2. c \in DOMAIN s /\ s[c].pos = i
        BY <3>2
      <4> HIDE DEF c
      <4>3. FirstResult(i) = s[c]
        BY <4>1 DEF c
      <4> QED BY <4>2, <4>3
    <3>4. CASE mode # "replay"
      <4>1. FirstResult(i) = LastFor(s, trace[i].id)
        BY <1>1, <3>4 DEF FirstResult
      <4>2. PICK c \in DOMAIN s : LastFor(s, trace[i].id) = s[c] /\ s[c].id = trace[i].id
        BY <1>3, <3>1, LastForFacts
      <4>3. s[c].pos = i
        BY <1>3, <4>2 DEF DistinctIds
      <4> QED BY <4>1, <4>2, <4>3
    <3> QED BY <3>3, <3>4
  <2>5. IsVerdict(Triggering(R, i), s[j].verdict)
    BY <1>1, <1>3, <2>4 DEF Exact
  <2>6. \A r \in Triggering(R, i) : Ranked(r)
    BY <1>4 DEF Triggering
  <2>7. s[j].verdict = out[k].verdict
    BY <2>3, <2>5, <2>6, OneVerdict
  <2> QED BY <2>1, <2>4, <2>7
<1> DEFINE found == {i \in DOMAIN trace : \E k \in DOMAIN out : out[k].id = trace[i].id}
           diffs == {i \in found : FirstResult(i).verdict # LastFor(out, trace[i].id).verdict}
<1>7. diffs = {}
  BY <1>6
<1>8. Diff(out).changed = Cardinality(diffs)
  BY DEF Diff
<1> HIDE DEF diffs
<1> QED BY <1>7, <1>8, FS_EmptySet

\* A run's results, and the report on a directory compared with itself, are exact
\* throughout.
LEMMA ExactInductive == Spec => [](SerialInv /\ ExactInv)
<1>1. Init => SerialInv /\ ExactInv
  <2> SUFFICES ASSUME Init PROVE SerialInv /\ ExactInv
    OBVIOUS
  <2>1. phase \notin Runs /\ ~Loaded /\ phase \notin {"second", "report"} /\ team \in Teams
    BY DEF Init, Loaded, Runs
  <2>2. Saved
    BY <2>1 DEF Init, Saved
  <2> QED BY <2>1, <2>2 DEF SerialInv, ExactInv, SelfReport
<1>2. SerialInv /\ ExactInv /\ RunInv /\ CountersInv /\ EntriesInv /\ [Next]_vars => (SerialInv /\ ExactInv)'
  <2> SUFFICES ASSUME SerialInv, ExactInv, RunInv, CountersInv, EntriesInv, [Next]_vars
               PROVE  SerialInv' /\ ExactInv'
    OBVIOUS
  <2>1. /\ trace \in Traces /\ team \in Teams /\ DOMAIN results = Runs /\ DOMAIN ended = Runs /\ Saved
    BY DEF EntriesInv, SerialInv, ExactInv, Saved
  <2>2. ASSUME NEW run \in Runs, Start(run), UNCHANGED inputs PROVE SerialInv' /\ (Exact(Dir, out, now))'
    <3>1. SerialInv'
      BY <2>1, <2>2, StartSerial
    <3>2. out' = <<>>
      BY <2>2 DEF Start
    <3> QED BY <3>1, <3>2 DEF Exact
  <2>3. CASE Load
    <3>1. UNCHANGED <<trace, team, dirs, results, ended>> /\ phase = "load" /\ phase' \in {"first", "error"}
      BY <2>3 DEF Load, inputs, Start
    <3>2. Saved'
      BY <2>1, <3>1, SavedKept
    <3>3. CASE Start("first")
      <4>1. SerialInv' /\ (Exact(Dir, out, now))'
        BY <2>2, <2>3, <3>3 DEF Load, Runs
      <4>2. phase' # "report"
        BY <3>1
      <4> QED BY <3>2, <4>1, <4>2 DEF ExactInv, SelfReport
    <3>4. CASE phase' = "error"
      <4>1. team' \in Teams /\ phase' \notin Runs /\ ~Loaded' /\ phase' # "report"
        BY <2>1, <3>1, <3>4 DEF Runs, Loaded
      <4> QED BY <3>2, <4>1 DEF ExactInv, SelfReport, SerialInv
    <3> QED BY <2>3, <3>3, <3>4 DEF Load
  <2>4. ASSUME NEW w \in team, Dequeue(w) PROVE SerialInv' /\ ExactInv'
    <3>1. SerialInv'
      BY <2>4, DequeueSerial
    <3>2. /\ UNCHANGED <<trace, team, dirs, results, ended, phase, out, now>> /\ phase \in Runs
      BY <2>4 DEF Dequeue, inputs
    <3>3. Saved'
      BY <2>1, <3>2, SavedKept
    <3>4. PICK s, S, n : s = out /\ S = Dir /\ n = now /\ s = out' /\ S = Dir' /\ n = now'
      BY <3>2 DEF Dir
    <3>5. Exact(S, s, n)'
      BY <3>2, <3>4, ExactKept DEF ExactInv, Loaded
    <3>6. (Exact(Dir, out, now))'
      BY <3>4, <3>5 DEF Exact
    <3>7. phase' # "report"
      BY <3>2 DEF Runs
    <3> QED BY <3>1, <3>3, <3>6, <3>7 DEF ExactInv, SelfReport
  <2>5. ASSUME NEW w \in team, Evaluate(w) PROVE SerialInv' /\ ExactInv'
    <3>1. SerialInv'
      BY <2>5, EvaluateSerial
    <3>2. /\ UNCHANGED <<trace, team, dirs, results, ended, phase>> /\ phase \in Runs
      BY <2>5 DEF Evaluate, inputs
    <3>3. Saved'
      BY <2>1, <3>2, SavedKept
    <3>4. Exact(Dir, out, now)
      BY <3>2 DEF ExactInv, Loaded
    <3>5. Exact(Dir, out, now)'
      BY <2>5, <3>4, EvaluateExact
    <3>6. phase' # "report"
      BY <3>2 DEF Runs
    <3> QED BY <3>1, <3>3, <3>5, <3>6 DEF ExactInv, SelfReport
  <2>6. CASE FinishFirst
    <3>1. /\ phase = "first" /\ PoolIdle /\ Start("second") /\ UNCHANGED inputs
          /\ results' = [results EXCEPT !["first"] = out] /\ ended' = [ended EXCEPT !["first"] = now]
      BY <2>6 DEF FinishFirst
    <3>2. SerialInv' /\ (Exact(Dir, out, now))'
      BY <2>2, <3>1 DEF Runs
    <3>3. /\ DOMAIN results' = Runs /\ results'["first"] = out /\ UNCHANGED <<trace, team, dirs>>
          /\ DOMAIN ended' = Runs /\ ended'["first"] = now
      BY <2>1, <3>1 DEF inputs, Runs
    <3>4. Exact(Dir, out, now)
      BY <3>1 DEF ExactInv, Loaded, Runs
    <3>5. Saved'
      BY <3>1, <3>3, <3>4, FinishSaves
    <3>6. phase' # "report"
      BY <3>1 DEF Start
    <3> QED BY <3>2, <3>5, <3>6 DEF ExactInv, SelfReport
  <2>7. CASE FinishSecond
    <3>1. /\ phase = "second" /\ PoolIdle /\ UNCHANGED <<trace, team, dirs, out, now>>
          /\ results' = [results EXCEPT !["second"] = out] /\ ended' = [ended EXCEPT !["second"] = now]
          /\ report' = Diff(out) /\ phase' = "report"
      BY <2>7 DEF FinishSecond, inputs, poolVars
    <3>2. SerialInv'
      BY <2>1, <3>1 DEF SerialInv, Runs
    <3>3. /\ DOMAIN results' = Runs /\ results'["first"] = results["first"]
          /\ DOMAIN ended' = Runs /\ ended'["first"] = ended["first"]
          /\ results'["second"] = out /\ ended'["second"] = now
      BY <2>1, <3>1 DEF Runs
    <3>4. Saved'
      BY <2>1, <3>1, <3>3, SavedKept
    <3>5. Exact(Dir, out, now)
      BY <3>1 DEF ExactInv, Loaded, Runs
    <3>6. PICK s, S, n : s = out /\ S = Dir /\ n = now /\ s = out' /\ S = Dir' /\ n = now'
      BY <3>1 DEF Dir
    <3>7. Exact(S, s, n)'
      BY <3>1, <3>5, <3>6, ExactKept
    <3>8. (Exact(Dir, out, now))'
      BY <3>6, <3>7 DEF Exact
    <3>9. ASSUME (dirs["first"] = dirs["second"] /\ DistinctIds /\ Regular(Dir))',
                 QuietRuns'
          PROVE  report'.changed = 0
      <4>1. dirs["first"] = dirs["second"] /\ DistinctIds
        BY <3>1, <3>9 DEF DistinctIds
      <4>2. Regular(Dir)
        BY <3>1, <3>6, <3>9 DEF Regular
      <4>3. Quiet("first")
        BY <3>1, <3>3, <3>9 DEF QuietRuns, Quiet, Runs
      <4>4. Clean(out) /\ Within(Dir, now)
        <5>1. Quiet("second")'
          BY <3>9 DEF QuietRuns, Runs
        <5>2. Dir = dirs["second"] /\ dirs' = dirs
          BY <3>1 DEF Dir
        <5> QED BY <3>3, <5>1, <5>2 DEF Quiet, Clean, Within
      <4> QED BY <2>1, <3>1, <3>5, <4>1, <4>2, <4>3, <4>4, NoDifference
    <3>10. SelfReport'
      BY <3>9 DEF SelfReport
    <3> QED BY <3>2, <3>4, <3>8, <3>10 DEF ExactInv
  <2>8. CASE UNCHANGED vars \/ Tick
    <3>1. /\ UNCHANGED <<trace, team, dirs, results, ended, phase, out, report, queue, busy, counters>>
          /\ now' = now \/ (now' = now + 1 /\ phase \in Runs)
      BY <2>8 DEF vars, inputs, Tick
    <3>9. PICK n1, n2 : n1 = now /\ n2 = now' /\ n1 \in Nat /\ n2 \in Nat /\ n1 <= n2
      BY <3>1 DEF CountersInv
    <3>2. Saved'
      BY <2>1, <3>1, SavedKept
    <3>3. PICK s, S, R, n : /\ s = out /\ S = Dir /\ s = out' /\ S = Dir'
                            /\ R = CompileDir(Dir) /\ R = CompileDir(Dir)' /\ n = Finished /\ n = Finished'
      BY <3>1 DEF Dir, Finished
    <3>10. ASSUME Loaded
           PROVE  (Within(S, n2) => Within(S, n1)) /\ (Within(R, n2) => Within(R, n1))
      <4>1. S \in RuleSets /\ \A r \in R : r.window \in Nat
        BY <3>3, <3>10, DirInUse
      <4>2. \A r \in S : r.window \in Nat
        BY <4>1, ReplayAssumption
      <4> QED BY <3>9, <4>1, <4>2 DEF Within
    <3>4. Loaded' => (Exact(Dir, out, now))'
      <4> SUFFICES ASSUME Loaded' PROVE (Exact(Dir, out, now))'
        OBVIOUS
      <4>1. Loaded
        BY <3>1 DEF Loaded
      <4>2. Exact(S, s, n1)
        BY <3>3, <3>9, <4>1 DEF ExactInv
      <4>3. Exact(S, s, n2)
        BY <3>10, <4>1, <4>2 DEF Exact
      <4>4. Exact(S, s, n2)'
        BY <3>1, <4>3, ExactKept
      <4> QED BY <3>3, <3>9, <4>4 DEF Exact
    <3>5. CountersAre(R, n) => CountersAre(R, n)'
      <4>1. \A key, ent : Past(R, n, key, ent)' = Past(R, n, key, ent)
        BY <3>1 DEF Past
      <4>2. counters' = counters
        BY <3>1
      <4> QED BY <4>1, <4>2 DEF CountersAre
    <3>6. SerialInv'
      <4>1. CountersAre(CompileDir(Dir), Finished) => CountersAre(CompileDir(Dir), Finished)'
        BY <3>3, <3>5 DEF CountersAre
      <4>2. Finished' = Finished
        BY <3>3
      <4>3. phase \in Runs /\ (Clean(out) /\ Within(CompileDir(Dir), now))'
               => Clean(out) /\ Within(CompileDir(Dir), now)
        <5> SUFFICES ASSUME phase \in Runs, (Clean(out) /\ Within(CompileDir(Dir), now))'
                     PROVE  Clean(out) /\ Within(CompileDir(Dir), now)
          OBVIOUS
        <5>1. Within(R, n2) /\ Clean(s)
          BY <3>3, <3>9 DEF Within, Clean
        <5>2. Within(R, n1)
          BY <3>10, <5>1 DEF Loaded
        <5> QED BY <3>3, <3>9, <5>1, <5>2
      <4> QED BY <3>1, <4>1, <4>2, <4>3 DEF SerialInv
    <3>7. ExactInv'
      <4>1. (DistinctIds' <=> DistinctIds) /\ (Regular(Dir)' <=> Regular(Dir))
        BY <3>1, <3>3 DEF DistinctIds, Regular
      <4>2. QuietRuns' <=> QuietRuns
        BY <3>1 DEF QuietRuns, Quiet
      <4>3. SelfReport'
        <5>1. /\ phase' = phase /\ dirs' = dirs /\ report' = report /\ SelfReport
          BY <3>1 DEF ExactInv
        <5> QED BY <4>1, <4>2, <5>1 DEF SelfReport
      <4> QED BY <3>2, <3>4, <4>3 DEF ExactInv
    <3> QED BY <3>6, <3>7
  <2> QED BY <2>3, <2>4, <2>5, <2>6, <2>7, <2>8 DEF Next, Done
<1> QED BY <1>1, <1>2, RunInductive, EntriesInductive, PTL DEF Spec

\* A rule set compared with itself reports no change, if no event_id occurs twice, no rule
\* failed, and no rule counts, or one worker runs, rules of a priority have counters of
\* their own, and both runs ended before an increment left a window.
THEOREM SelfIsUnchangedCorrect == Spec => []SelfIsUnchanged
<1>1. RunInv /\ EntriesInv => TypeOK
  <2> SUFFICES ASSUME RunInv, EntriesInv, NEW i \in DOMAIN out
               PROVE  /\ out[i].verdict \in Verdicts
                      /\ ToSet(out[i].rules) \cup out[i].failed \subseteq {r.id : r \in ToSet(rules)}
                      /\ ToSet(out[i].rules) \cap out[i].failed = {}
    BY DEF TypeOK, EntriesInv
  <2>1. ResultIsRight(out[i])
    BY DEF RunInv
  <2>2. PICK T \in SUBSET ToSet(rules) : /\ ToSet(out[i].rules) = {r.id : r \in T}
                                         /\ IsVerdict(T, out[i].verdict)
                                         /\ out[i].failed \subseteq {r.id : r \in ToSet(rules)}
                                         /\ ToSet(out[i].rules) \cap out[i].failed = {}
    BY <2>1 DEF ResultIsRight
  <2>3. Loaded
    BY DEF RunInv
  <2>4. \A r \in T : r.verdict \in Verdicts
    BY <2>3, DirInUse DEF Ranked
  <2>5. out[i].verdict \in Verdicts
    BY <2>2, <2>4 DEF IsVerdict, Verdicts
  <2> QED BY <2>2, <2>5
<1>2. TypeOK /\ EachEntryOnce /\ ExactInv => SelfIsUnchanged
  <2> SUFFICES ASSUME TypeOK, EachEntryOnce, ExactInv,
                      phase = "report", dirs["first"] = dirs["second"], DistinctIds,
                      \A run \in Runs : Quiet(run),
                      ~Counts(dirs["first"]) \/ (Cardinality(team) = 1 /\ Apart(dirs["first"]))
               PROVE  report.changed = 0
    BY DEF SelfIsUnchanged, Apart
  <2>1. Dir = dirs["first"]
    BY DEF Dir
  <2> QED BY <2>1 DEF ExactInv, SelfReport, QuietRuns, Regular
<1> QED BY <1>1, <1>2, RunInductive, EntriesInductive, ExactInductive, EachEntryOnceCorrect, PTL

-----------------------------------------------------------------------------
(* The prefilter and the body of a rule.                                   *)

\* What the values of S hold under a key, in the event and in the body's view.
Members(S, key) == UNION {Child(v, key) : v \in S}
Items(S, key) == UNION {Get(d, key) : d \in S}

\* The walk of resolvePath, with f the value found after each segment.
FieldSteps(f, e, path) ==
    /\ resolvePath(e, path) = f[Len(path)]
    /\ f[1] = Envelope(e, path[1])
    /\ \A n \in 2..Len(path) : f[n] = Members(f[n - 1], path[n])

\* The walk of resolvePath, segment by segment.
LEMMA FieldWalk ==
    ASSUME NEW e, NEW path, Len(path) \in Nat \ {0}
    PROVE  \E f : FieldSteps(f, e, path)
<1> DEFINE size == Len(path)
           Body(f, n) == IF n = 1 THEN Envelope(e, path[1])
                         ELSE Members(f[n - 1], path[n])
           Fix(f, m) == f = [n \in 1..m |-> Body(f, n)]
           V == {m \in Nat : \E f : Fix(f, m)}
<1>1. size \in Nat
  OBVIOUS
<1> HIDE DEF size
<1>2. 0 \in V
  <2> DEFINE g == [n \in 1..0 |-> {}]
  <2>1. \A n \in 1..0 : Body(g, n) = {}
    OBVIOUS
  <2>2. Fix(g, 0)
    <3> HIDE DEF Body
    <3> QED BY <2>1
  <2> QED BY <2>2
<1>3. \A m \in V : m + 1 \in V
  <2> SUFFICES ASSUME NEW m \in Nat, NEW f, Fix(f, m) PROVE \E g : Fix(g, m + 1)
    <3> HIDE DEF Fix
    <3> QED OBVIOUS
  <2> DEFINE g == [n \in 1..(m + 1) |-> Body(f, n)]
  <2>1. \A n \in 1..m : g[n] = f[n]
    <3> TAKE n \in 1..m
    <3>1. n \in 1..(m + 1)
      OBVIOUS
    <3>2. g[n] = Body(f, n)
      BY <3>1
    <3>3. f[n] = Body(f, n)
      <4> HIDE DEF Body
      <4> QED OBVIOUS
    <3> QED BY <3>2, <3>3
  <2>2. \A n \in 1..(m + 1) : Body(g, n) = Body(f, n)
    <3> HIDE DEF g
    <3> QED BY <2>1
  <2>3. Fix(g, m + 1)
    <3> HIDE DEF Body
    <3> QED BY <2>2
  <2> QED BY <2>3
<1>4. \E h : Fix(h, size)
  <2>1. V \in SUBSET Nat
    <3> HIDE DEF Fix
    <3> QED OBVIOUS
  <2>2. size \in V
    <3> HIDE DEF V
    <3>1. V = Nat
      BY <1>2, <1>3, <2>1, SetInduction
    <3> QED BY <1>1, <3>1
  <2> QED BY <2>2
<1> DEFINE walk == CHOOSE f : Fix(f, size)
<1>5. Fix(walk, size)
  <2> HIDE DEF Fix
  <2> QED BY <1>4
<1>6. resolvePath(e, path) = walk[Len(path)]
  BY DEF resolvePath, Members, size
<1> HIDE DEF walk
<1>7. walk[1] = Envelope(e, path[1])
  BY <1>1, <1>5 DEF size
<1>8. \A n \in 2..size : walk[n] = Members(walk[n - 1], path[n])
  <2> SUFFICES ASSUME NEW n \in 2..size PROVE walk[n] = Body(walk, n)
    OBVIOUS
  <2>1. n \in 1..size
    BY <1>1
  <2> HIDE DEF Body
  <2> QED BY <1>5, <2>1
<1> QED BY <1>6, <1>7, <1>8, Zenon DEF size, FieldSteps

\* The walk of event[...][...], with f the value found after each key.
IndexSteps(f, e, path) ==
    /\ Index(e, path) = f[Len(path)]
    /\ f[0] = {eventToStarlark(e)}
    /\ \A n \in 1..Len(path) : f[n] = Items(f[n - 1], path[n])

\* The walk of event[...][...], key by key.
LEMMA IndexWalk ==
    ASSUME NEW e, NEW path, Len(path) \in Nat \ {0}
    PROVE  \E f : IndexSteps(f, e, path)
<1> DEFINE size == Len(path)
           Body(f, n) == IF n = 0 THEN {eventToStarlark(e)}
                         ELSE Items(f[n - 1], path[n])
           Fix(f, m) == f = [n \in 0..m |-> Body(f, n)]
           V == {m \in Nat : \E f : Fix(f, m)}
<1>1. size \in Nat
  OBVIOUS
<1> HIDE DEF size
<1>2. 0 \in V
  <2> DEFINE g == [n \in 0..0 |-> {eventToStarlark(e)}]
  <2>1. \A n \in 0..0 : Body(g, n) = {eventToStarlark(e)}
    OBVIOUS
  <2>2. Fix(g, 0)
    <3> HIDE DEF Body
    <3> QED BY <2>1
  <2> QED BY <2>2
<1>3. \A m \in V : m + 1 \in V
  <2> SUFFICES ASSUME NEW m \in Nat, NEW f, Fix(f, m) PROVE \E g : Fix(g, m + 1)
    <3> HIDE DEF Fix
    <3> QED OBVIOUS
  <2> DEFINE g == [n \in 0..(m + 1) |-> Body(f, n)]
  <2>1. \A n \in 0..m : g[n] = f[n]
    <3> TAKE n \in 0..m
    <3>1. n \in 0..(m + 1)
      OBVIOUS
    <3>2. g[n] = Body(f, n)
      BY <3>1
    <3>3. f[n] = Body(f, n)
      <4> HIDE DEF Body
      <4> QED OBVIOUS
    <3> QED BY <3>2, <3>3
  <2>2. \A n \in 0..(m + 1) : Body(g, n) = Body(f, n)
    <3> SUFFICES ASSUME NEW n \in 0..(m + 1), n # 0 PROVE g[n - 1] = f[n - 1]
      <4> HIDE DEF g
      <4> QED OBVIOUS
    <3>1. n - 1 \in 0..m
      OBVIOUS
    <3> QED BY <2>1, <3>1
  <2>3. Fix(g, m + 1)
    <3> HIDE DEF Body
    <3> QED BY <2>2
  <2> QED BY <2>3
<1>4. \E h : Fix(h, size)
  <2>1. V \in SUBSET Nat
    <3> HIDE DEF Fix
    <3> QED OBVIOUS
  <2>2. size \in V
    <3> HIDE DEF V
    <3>1. V = Nat
      BY <1>2, <1>3, <2>1, SetInduction
    <3> QED BY <1>1, <3>1
  <2> QED BY <2>2
<1> DEFINE walk == CHOOSE f : Fix(f, size)
<1>5. Fix(walk, size)
  <2> HIDE DEF Fix
  <2> QED BY <1>4
<1>6. Index(e, path) = walk[Len(path)]
  BY DEF Index, Items, size
<1> HIDE DEF walk
<1>7. walk[0] = {eventToStarlark(e)}
  BY <1>1, <1>5
<1>8. \A n \in 1..size : walk[n] = Items(walk[n - 1], path[n])
  <2> SUFFICES ASSUME NEW n \in 1..size PROVE walk[n] = Body(walk, n)
    OBVIOUS
  <2>1. n \in 0..size
    BY <1>1
  <2> HIDE DEF Body
  <2> QED BY <1>5, <2>1
<1> QED BY <1>6, <1>7, <1>8, Zenon DEF size, IndexSteps

\* What the body's view makes of a value of an event; the time is an integer there.
Seen(v, b) == b = lazyConvert(v) \/ (v.t = "num" /\ b = [t |-> "int", num |-> v.num])

\* Both found nothing, or the same value, converted.
Agree(W, B) ==
    \/ W = {} /\ B = {}
    \/ \E v, b : JSONValue(v) /\ Seen(v, b) /\ W = {v} /\ B = {b}

\* What a value of each type becomes.
LEMMA ConvertFacts ==
    ASSUME NEW v
    PROVE  /\ v.t = "null" => lazyConvert(v) = [t |-> "none"]
           /\ v.t = "bool" => lazyConvert(v) = v
           /\ v.t = "num"  => lazyConvert(v) = [t |-> "float", num |-> v.num]
           /\ v.t = "str"  => lazyConvert(v) = [t |-> "string", str |-> v.str]
           /\ v.t = "list" => lazyConvert(v) = [t |-> "list", src |-> v.list]
           /\ v.t = "map"  => lazyConvert(v) = [t |-> "event", src |-> v.map]
BY DEF lazyConvert

\* The types of a value and of its view.
LEMMA SeenFacts ==
    ASSUME NEW v, JSONValue(v), NEW b, Seen(v, b)
    PROVE  /\ v.t \in {"null", "bool", "num", "str", "list", "map"}
           /\ v.t = "null" => b = [t |-> "none"]
           /\ v.t = "bool" => b = v
           /\ v.t = "num"  => b \in {[t |-> "float", num |-> v.num], [t |-> "int", num |-> v.num]}
           /\ v.t = "str"  => b = [t |-> "string", str |-> v.str]
           /\ v.t = "list" => b = [t |-> "list", src |-> v.list]
           /\ v.t = "map"  => b = [t |-> "event", src |-> v.map]
<1>1. v.t \in {"null", "bool", "num", "str", "list", "map"}
  BY DEF JSONValue, Null
<1> QED BY <1>1, ConvertFacts DEF Seen

\* One segment of a path.
LEMMA MemberAgrees ==
    ASSUME NEW v, JSONValue(v), NEW b, Seen(v, b), NEW key
    PROVE  Agree(Child(v, key), Get(b, key))
<1>1. CASE v.t = "map"
  <2>1. b = [t |-> "event", src |-> v.map]
    BY <1>1, SeenFacts
  <2>2. CASE key \in DOMAIN v.map
    <3>1. v.map[key] \in Values
      BY <1>1, <2>2 DEF JSONValue, Null, Bool, Num, Str, List
    <3>2. Child(v, key) = {v.map[key]}
      BY <1>1, <2>2 DEF Child
    <3>3. Get(b, key) = {lazyConvert(v.map[key])}
      BY <2>1, <2>2 DEF Get
    <3>4. JSONValue(v.map[key])
      BY <3>1, ReplayAssumption
    <3>5. Seen(v.map[key], lazyConvert(v.map[key]))
      BY DEF Seen
    <3> QED BY <3>2, <3>3, <3>4, <3>5 DEF Agree
  <2>3. CASE key \notin DOMAIN v.map
    <3>1. Child(v, key) = {}
      BY <1>1, <2>3 DEF Child
    <3>2. Get(b, key) = {}
      BY <2>1, <2>3 DEF Get
    <3> QED BY <3>1, <3>2 DEF Agree
  <2> QED BY <2>2, <2>3
<1>2. CASE v.t # "map"
  <2>1. b.t # "event"
    BY <1>2, SeenFacts
  <2>2. Child(v, key) = {} /\ Get(b, key) = {}
    BY <1>2, <2>1 DEF Child, Get
  <2> QED BY <2>2 DEF Agree
<1> QED BY <1>1, <1>2

\* The first segment: the envelope, but for the entity, which the body does not see.
LEMMA EnvelopeAgrees ==
    ASSUME NEW e, Map(e.payload) \in Values, NEW name, name # <<"entity_id">>
    PROVE  Agree(Envelope(e, name), Get(eventToStarlark(e), name))
<1> DEFINE keys == {<<"event_id">>, <<"event_type">>, <<"timestamp">>, <<"payload">>}
           src == [k \in keys |->
                 CASE k = <<"event_id">>   -> Str(<<e.id>>)
                   [] k = <<"event_type">> -> Str(<<e.type>>)
                   [] k = <<"timestamp">>  -> [t |-> "int", num |-> e.time]
                   [] k = <<"payload">>    -> Map(e.payload)]
<1>1. eventToStarlark(e) = [t |-> "event", src |-> src]
  BY DEF eventToStarlark
<1>2. DOMAIN src = keys
  OBVIOUS
<1>3. /\ <<"event_id">> # <<"event_type">> /\ <<"event_id">> # <<"timestamp">>
      /\ <<"event_id">> # <<"payload">> /\ <<"event_type">> # <<"timestamp">>
      /\ <<"event_type">> # <<"payload">> /\ <<"timestamp">> # <<"payload">>
      /\ \A x \in keys : x # <<"entity_id">>
  OBVIOUS
<1>4. /\ src[<<"event_id">>] = Str(<<e.id>>) /\ src[<<"event_type">>] = Str(<<e.type>>)
      /\ src[<<"timestamp">>] = [t |-> "int", num |-> e.time] /\ src[<<"payload">>] = Map(e.payload)
  BY <1>3
<1> HIDE DEF src
<1>5. ASSUME name \in keys PROVE Get(eventToStarlark(e), name) = {lazyConvert(src[name])}
  BY <1>1, <1>2, <1>5 DEF Get
<1>6. CASE name = <<"event_id">>
  <2>1. Envelope(e, name) = {Str(<<e.id>>)}
    BY <1>3, <1>6 DEF Envelope
  <2>2. JSONValue(Str(<<e.id>>)) /\ Seen(Str(<<e.id>>), lazyConvert(Str(<<e.id>>)))
    BY DEF JSONValue, Str, Seen
  <2> QED BY <1>4, <1>5, <1>6, <2>1, <2>2 DEF Agree
<1>7. CASE name = <<"event_type">>
  <2>1. Envelope(e, name) = {Str(<<e.type>>)}
    BY <1>3, <1>7 DEF Envelope
  <2>2. JSONValue(Str(<<e.type>>)) /\ Seen(Str(<<e.type>>), lazyConvert(Str(<<e.type>>)))
    BY DEF JSONValue, Str, Seen
  <2> QED BY <1>4, <1>5, <1>7, <2>1, <2>2 DEF Agree
<1>8. CASE name = <<"timestamp">>
  <2> DEFINE i == [t |-> "int", num |-> e.time]
  <2>1. Envelope(e, name) = {Num(e.time)}
    BY <1>3, <1>8 DEF Envelope
  <2>2. lazyConvert(i) = i
    BY DEF lazyConvert
  <2>3. JSONValue(Num(e.time)) /\ Seen(Num(e.time), i)
    BY DEF JSONValue, Num, Seen
  <2> HIDE DEF i
  <2>4. src[name] = i
    BY <1>4, <1>8 DEF i
  <2>5. Get(eventToStarlark(e), name) = {i}
    BY <1>5, <1>8, <2>2, <2>4
  <2> QED BY <2>1, <2>3, <2>5 DEF Agree
<1>9. CASE name = <<"payload">>
  <2>1. Envelope(e, name) = {Map(e.payload)}
    BY <1>3, <1>9 DEF Envelope
  <2>2. JSONValue(Map(e.payload)) /\ Seen(Map(e.payload), lazyConvert(Map(e.payload)))
    BY ReplayAssumption DEF Seen
  <2> QED BY <1>4, <1>5, <1>9, <2>1, <2>2 DEF Agree
<1>10. CASE name \notin keys
  <2>1. Envelope(e, name) = {}
    BY <1>10 DEF Envelope
  <2>2. Get(eventToStarlark(e), name) = {}
    BY <1>1, <1>2, <1>10 DEF Get
  <2> QED BY <2>1, <2>2 DEF Agree
<1> QED BY <1>6, <1>7, <1>8, <1>9, <1>10

\* Following a path in the event and in the body's view.
LEMMA PathAgrees ==
    ASSUME NEW e, Map(e.payload) \in Values, NEW path, Len(path) \in Nat \ {0},
           path[1] # <<"entity_id">>
    PROVE  Agree(resolvePath(e, path), Index(e, path))
<1>1. PICK f : FieldSteps(f, e, path)
  BY FieldWalk
<1>2. PICK g : IndexSteps(g, e, path)
  BY IndexWalk
<1> DEFINE V == {n \in Nat : n + 1 \in 1..Len(path) => Agree(f[n + 1], g[n + 1])}
<1>3. 0 \in V
  <2>1. 1 \in 1..Len(path) /\ 1 - 1 = 0
    OBVIOUS
  <2>2. g[1] = Get(eventToStarlark(e), path[1])
    <3>1. g[1] = Items(g[1 - 1], path[1])
      BY <1>2, <2>1 DEF IndexSteps
    <3>2. g[0] = {eventToStarlark(e)}
      BY <1>2 DEF IndexSteps
    <3>3. g[1] = Items({eventToStarlark(e)}, path[1])
      BY <2>1, <3>1, <3>2
    <3> QED BY <3>3 DEF Items
  <2>3. f[1] = Envelope(e, path[1])
    BY <1>1 DEF FieldSteps
  <2>4. Agree(f[1], g[1])
    BY <2>2, <2>3, EnvelopeAgrees
  <2> QED BY <2>4
<1>4. \A n \in V : n + 1 \in V
  <2> SUFFICES ASSUME NEW n \in V, n + 2 \in 1..Len(path) PROVE Agree(f[n + 2], g[n + 2])
    OBVIOUS
  <2> DEFINE k == n + 1
  <2>1. /\ k \in 1..Len(path) /\ k + 1 \in 2..Len(path) /\ k + 1 \in 1..Len(path)
        /\ (k + 1) - 1 = k /\ n + 2 = k + 1
    OBVIOUS
  <2>2. Agree(f[k], g[k])
    BY <2>1
  <2> HIDE DEF k, V
  <2>3. f[k + 1] = Members(f[k], path[k + 1])
    BY <1>1, <2>1 DEF FieldSteps
  <2>4. g[k + 1] = Items(g[k], path[k + 1])
    BY <1>2, <2>1 DEF IndexSteps
  <2>5. CASE f[k] = {} /\ g[k] = {}
    BY <2>1, <2>3, <2>4, <2>5 DEF Agree, Members, Items
  <2>6. CASE ~(f[k] = {} /\ g[k] = {})
    <3>1. PICK v, b : JSONValue(v) /\ Seen(v, b) /\ f[k] = {v} /\ g[k] = {b}
      BY <2>2, <2>6 DEF Agree
    <3>2. f[k + 1] = Child(v, path[k + 1]) /\ g[k + 1] = Get(b, path[k + 1])
      BY <2>3, <2>4, <3>1 DEF Members, Items
    <3> QED BY <2>1, <3>1, <3>2, MemberAgrees
  <2> QED BY <2>5, <2>6
<1>5. Len(path) - 1 \in V
  <2>1. V \in SUBSET Nat
    OBVIOUS
  <2> HIDE DEF V
  <2>2. V = Nat
    BY <1>3, <1>4, <2>1, SetInduction
  <2> QED BY <2>2
<1>6. Agree(f[Len(path)], g[Len(path)])
  <2>1. (Len(path) - 1) + 1 = Len(path) /\ Len(path) \in 1..Len(path)
    OBVIOUS
  <2> QED BY <1>5, <2>1
<1> QED BY <1>1, <1>2, <1>6 DEF FieldSteps, IndexSteps

\* Starlark's == and the prefilter's agree on a constant.
LEMMA EqualAgrees ==
    ASSUME NEW v, JSONValue(v), NEW b, Seen(v, b), NEW w, Constant(w)
    PROVE  StarEqual(b, lazyConvert(w)) <=> scalarEqual(v, w)
<1> DEFINE y == lazyConvert(w)
<1>1. w.t \in {"str", "num", "bool"} /\ y = lazyConvert(w)
  BY DEF Constant, Scalar
<1> HIDE DEF y
<1>2. CASE w.t = "num"
  <2>1. y = [t |-> "float", num |-> w.num] /\ w = Num(w.num)
    BY <1>1, <1>2, ConvertFacts DEF Constant, Str, Bool
  <2>2. CASE v.t = "num"
    <3>1. v = Num(v.num) /\ b.num = v.num /\ Numeric(b) /\ Numeric(y)
      BY <2>1, <2>2, SeenFacts DEF JSONValue, Numeric, Null, Str, Bool, List, Map
    <3>2. StarEqual(b, y) <=> v.num = w.num
      BY <2>1, <3>1 DEF StarEqual
    <3>3. scalarEqual(v, w) <=> v.num = w.num
      BY <1>2, <2>1, <2>2, <3>1 DEF scalarEqual, scalarComparable, Scalar, Num
    <3> QED BY <1>1, <3>2, <3>3
  <2>3. CASE v.t # "num"
    <3>1. ~Numeric(b) /\ b.t # "float"
      BY <2>3, SeenFacts DEF Numeric
    <3>2. ~StarEqual(b, y)
      BY <2>1, <3>1 DEF StarEqual
    <3> QED BY <1>1, <1>2, <2>3, <3>2 DEF scalarEqual, scalarComparable
  <2> QED BY <2>2, <2>3
<1>3. CASE w.t = "str"
  <2>1. y = [t |-> "string", str |-> w.str] /\ w = Str(w.str)
    BY <1>1, <1>3, ConvertFacts DEF Constant, Num, Bool
  <2>2. CASE v.t = "str"
    <3>1. v = Str(v.str) /\ b = [t |-> "string", str |-> v.str] /\ ~Numeric(b)
      BY <2>2, SeenFacts DEF JSONValue, Numeric, Null, Num, Bool, List, Map
    <3>2. StarEqual(b, y) <=> v.str = w.str
      BY <2>1, <3>1 DEF StarEqual
    <3>3. scalarEqual(v, w) <=> v.str = w.str
      BY <1>3, <2>1, <2>2, <3>1 DEF scalarEqual, scalarComparable, Scalar, Str
    <3> QED BY <1>1, <3>2, <3>3
  <2>3. CASE v.t # "str"
    <3>1. b.t # "string"
      BY <2>3, SeenFacts
    <3>2. ~StarEqual(b, y)
      BY <2>1, <3>1 DEF StarEqual, Numeric
    <3> QED BY <1>1, <1>3, <2>3, <3>2 DEF scalarEqual, scalarComparable
  <2> QED BY <2>2, <2>3
<1>4. CASE w.t = "bool"
  <2>1. y = w
    BY <1>1, <1>4, ConvertFacts
  <2>2. CASE v.t = "bool"
    <3>1. b = v
      BY <2>2, SeenFacts
    <3> QED BY <1>1, <1>4, <2>1, <2>2, <3>1 DEF StarEqual, Numeric, scalarEqual, scalarComparable, Scalar
  <2>3. CASE v.t # "bool"
    <3>1. b.t # "bool"
      BY <2>3, SeenFacts
    <3>2. ~StarEqual(b, y)
      BY <1>4, <2>1, <3>1 DEF StarEqual, Numeric
    <3> QED BY <1>1, <1>4, <2>3, <3>2 DEF scalarEqual, scalarComparable
  <2> QED BY <2>2, <2>3
<1> QED BY <1>1, <1>2, <1>3, <1>4

\* The types of the constants that were lowered for an operator.
LEMMA LoweredFacts ==
    ASSUME NEW op \in matchOps, NEW v, NEW x, Lowered(op, v, x)
    PROVE  /\ op = "in" => x.t = "list" /\ \A i \in DOMAIN x.list : Constant(x.list[i])
           /\ op # "in" => Constant(x)
           /\ op = "prefix" => x.t = "str"
           /\ op \in OrderOps => x.t = "num"
<1>1. CASE op = "in"
  BY <1>1, LowerList DEF Lowered, lowerValue, OrderOps
<1>2. CASE op # "in"
  <2>1. x \in lowerScalar(v) /\ (op = "prefix" => x.t = "str") /\ (op \in OrderOps => x.t = "num")
    BY <1>2 DEF Lowered, lowerValue
  <2>2. Constant(x)
    BY <2>1, LowerScalar DEF Lowered, Constant, Scalar
  <2> QED BY <1>2, <2>1, <2>2
<1> QED BY <1>1, <1>2

\* An operator of the prefilter and the one of the body agree on a field, but for !=
\* on a field of another type.
LEMMA HoldsAgrees ==
    ASSUME NEW v, JSONValue(v), NEW b, Seen(v, b),
           NEW op \in matchOps \ {"exists"}, NEW x, NEW u, Lowered(op, u, x)
    PROVE  StarHolds(b, op, lazyConvert(x)) <=> Holds(v, op, x) \/ (op = "!=" /\ v.t # x.t)
<1>1. PICK y : y = lazyConvert(x)
  OBVIOUS
<1>2. CASE op = "=="
  <2>1. StarEqual(b, y) <=> scalarEqual(v, x)
    BY <1>1, <1>2, LoweredFacts, EqualAgrees
  <2>2. (StarHolds(b, op, y) <=> StarEqual(b, y)) /\ (Holds(v, op, x) <=> scalarEqual(v, x))
    BY <1>2 DEF StarHolds, Holds
  <2> QED BY <1>1, <1>2, <2>1, <2>2
<1>3. CASE op = "!="
  <2>1. (StarEqual(b, y) <=> scalarEqual(v, x)) /\ x.t \in Scalar
    BY <1>1, <1>3, LoweredFacts, EqualAgrees DEF Constant
  <2>2. /\ StarHolds(b, op, y) <=> ~StarEqual(b, y)
        /\ Holds(v, op, x) <=> scalarComparable(v, x) /\ ~scalarEqual(v, x)
    BY <1>3 DEF StarHolds, Holds
  <2> QED BY <1>1, <1>3, <2>1, <2>2 DEF scalarEqual, scalarComparable
<1>4. CASE op = "in"
  <2>1. x.t = "list" /\ \A i \in DOMAIN x.list : Constant(x.list[i])
    BY <1>4, LoweredFacts
  <2>2. y.src = x.list
    BY <1>1, <2>1, ConvertFacts
  <2>3. \A i \in DOMAIN x.list : StarEqual(b, lazyConvert(x.list[i])) <=> scalarEqual(v, x.list[i])
    BY <2>1, EqualAgrees
  <2>4. StarHolds(b, op, y) <=> \E i \in DOMAIN x.list : StarEqual(b, lazyConvert(x.list[i]))
    BY <1>4, <2>2 DEF StarHolds
  <2>5. Holds(v, op, x) <=> \E i \in DOMAIN x.list : scalarEqual(v, x.list[i])
    BY <1>4, <2>1 DEF Holds
  <2> QED BY <1>1, <1>4, <2>3, <2>4, <2>5
<1>5. CASE op = "prefix"
  <2>1. x.t = "str" /\ y = [t |-> "string", str |-> x.str]
    BY <1>1, <1>5, LoweredFacts, ConvertFacts
  <2>2. StarHolds(b, op, y) <=> b.t = "string" /\ IsPrefix(x.str, b.str)
    BY <1>5, <2>1 DEF StarHolds
  <2>3. Holds(v, op, x) <=> v.t = "str" /\ IsPrefix(x.str, v.str)
    BY <1>5, <2>1 DEF Holds
  <2>4. CASE v.t = "str"
    <3>1. b = [t |-> "string", str |-> v.str]
      BY <2>4, SeenFacts
    <3>2. b.t = "string" /\ b.str = v.str
      BY <3>1
    <3> QED BY <1>1, <1>5, <2>2, <2>3, <2>4, <3>2
  <2>5. CASE v.t # "str"
    <3>1. b.t # "string"
      BY <2>5, SeenFacts
    <3> QED BY <1>1, <1>5, <2>2, <2>3, <2>5, <3>1
  <2> QED BY <2>4, <2>5
<1>6. CASE op \in OrderOps
  <2>1. x.t = "num" /\ y = [t |-> "float", num |-> x.num]
    BY <1>1, <1>6, LoweredFacts, ConvertFacts
  <2>2. y.num = x.num /\ Numeric(y)
    BY <2>1 DEF Numeric
  <2>3. CASE v.t = "num"
    <3>1. Numeric(b) /\ b.num = v.num
      BY <2>3, SeenFacts DEF Numeric
    <3>2. BothNumbers(v, x)
      BY <2>1, <2>3 DEF BothNumbers
    <3>3. StarHolds(b, op, y) <=> Holds(v, op, x)
      BY <1>6, <2>2, <3>1, <3>2 DEF OrderOps, StarHolds, Holds
    <3> QED BY <1>1, <1>6, <3>3 DEF OrderOps
  <2>4. CASE v.t # "num"
    <3>1. ~Numeric(b)
      BY <2>4, SeenFacts DEF Numeric
    <3>2. ~BothNumbers(v, x)
      BY <2>4 DEF BothNumbers
    <3>3. ~StarHolds(b, op, y) /\ ~Holds(v, op, x)
      BY <1>6, <3>1, <3>2 DEF OrderOps, StarHolds, Holds
    <3> QED BY <1>1, <1>6, <3>3 DEF OrderOps
  <2> QED BY <2>3, <2>4
<1> QED BY <1>2, <1>3, <1>4, <1>5, <1>6 DEF matchOps, OrderOps

\* The trace is one of the traces.
LEMMA TraceInv == Spec => [](trace \in Traces)
<1>1. Init => trace \in Traces
  BY DEF Init
<1>2. trace \in Traces /\ [Next]_vars => (trace \in Traces)'
  <2> SUFFICES ASSUME trace \in Traces, [Next]_vars PROVE trace' = trace
    OBVIOUS
  <2> QED BY DEF Next, Load, Dequeue, Evaluate, Tick, FinishFirst, FinishSecond, Done, vars, inputs
<1> QED BY <1>1, <1>2, PTL DEF Spec

\* A prefilter's clause holds exactly when the same comparison in the rule's body would,
\* but for != on a field of another type: for every rule and every JSON payload.
THEOREM PrefilterLikeBodyCorrect == Spec => []PrefilterLikeBody
<1>1. Snapshot /\ trace \in Traces => PrefilterLikeBody
  <2> SUFFICES ASSUME Snapshot, trace \in Traces, phase = "first",
                      NEW r \in ToSet(rules), NEW n \in DOMAIN r.match, NEW i \in DOMAIN trace,
                      NEW p, p = r.match[n], NEW e, e = trace[i], p.path[1] # <<"entity_id">>
               PROVE  BodyHolds(p, e) <=>
                         \/ eval(p, e)
                         \/ p.op = "!=" /\ \E f \in resolvePath(e, p.path) : f.t # p.value.t
    BY DEF PrefilterLikeBody
  <2>1. r \in CompileDir(dirs["first"]) /\ dirs["first"] \in RuleSets
    BY DEF Snapshot, Runs, ToSet
  <2>2. Predicate(p)
    BY <2>1, RuleFacts
  <2>3. Map(e.payload) \in Values
    BY ReplayAssumption DEF ToSet
  <2>4. PICK W, B : W = resolvePath(e, p.path) /\ B = Index(e, p.path) /\ Agree(W, B)
    BY <2>2, <2>3, PathAgrees DEF Predicate
  <2>5. BodyHolds(p, e) <=> \E b \in B : StarHolds(b, p.op, lazyConvert(p.value))
    BY <2>4 DEF BodyHolds
  <2>6. CASE p.op = "exists"
    <3>1. \A b \in B : StarHolds(b, p.op, lazyConvert(p.value))
      BY <2>6 DEF StarHolds
    <3>2. eval(p, e) <=> W # {}
      BY <2>4, <2>6 DEF eval
    <3>3. W # {} <=> B # {}
      BY <2>4 DEF Agree
    <3> QED BY <2>5, <2>6, <3>1, <3>2, <3>3
  <2>7. CASE p.op # "exists"
    <3>1. eval(p, e) <=> \E f \in W : Holds(f, p.op, p.value)
      BY <2>4, <2>7 DEF eval
    <3>2. PICK u : Lowered(p.op, u, p.value)
      BY <2>2, <2>7 DEF Predicate
    <3>3. CASE W = {} /\ B = {}
      BY <2>4, <2>5, <3>1, <3>3
    <3>4. CASE ~(W = {} /\ B = {})
      <4>1. PICK v, b : JSONValue(v) /\ Seen(v, b) /\ W = {v} /\ B = {b}
        BY <2>4, <3>4 DEF Agree
      <4>2. StarHolds(b, p.op, lazyConvert(p.value))
               <=> Holds(v, p.op, p.value) \/ (p.op = "!=" /\ v.t # p.value.t)
        BY <2>2, <2>7, <3>2, <4>1, HoldsAgrees DEF Predicate
      <4> QED BY <2>4, <2>5, <3>1, <4>1, <4>2
    <3> QED BY <3>3, <3>4
  <2> QED BY <2>6, <2>7
<1> QED BY <1>1, SnapshotInv, TraceInv, PTL

\* The types of a field for which a clause may hold: that of its constant, or constants.
LEMMA HoldsType ==
    ASSUME NEW p, Predicate(p), p.op # "exists", NEW f, Holds(f, p.op, p.value)
    PROVE  LET type == IF p.op = "in" THEN p.value.list[1].t ELSE p.value.t
           IN f.t = type /\ type \in Scalar
<1>1. PICK u : Lowered(p.op, u, p.value)
  BY DEF Predicate
<1>2. PICK x, op : x = p.value /\ op = p.op
  OBVIOUS
<1>3. op \in matchOps \ {"exists"} /\ Lowered(op, u, x) /\ Holds(f, op, x)
  BY <1>1, <1>2 DEF Predicate
<1>4. CASE op = "in"
  <2>1. /\ x.t = "list" /\ 1 \in DOMAIN x.list
        /\ \A i \in DOMAIN x.list : Constant(x.list[i]) /\ x.list[i].t = x.list[1].t
    BY <1>3, <1>4, LowerList DEF Lowered, lowerValue
  <2>2. PICK i \in DOMAIN x.list : scalarEqual(f, x.list[i])
    BY <1>3, <1>4 DEF Holds
  <2> QED BY <1>2, <1>4, <2>1, <2>2 DEF scalarEqual, scalarComparable, Constant
<1>5. CASE op # "in"
  <2>1. x.t \in Scalar /\ (op = "prefix" => x.t = "str") /\ (op \in OrderOps => x.t = "num")
    BY <1>3, <1>5, LoweredFacts DEF Constant
  <2>2. CASE op \in {"==", "!="}
    BY <1>2, <1>3, <1>5, <2>1, <2>2 DEF Holds, scalarEqual, scalarComparable
  <2>3. CASE op = "prefix"
    BY <1>2, <1>3, <1>5, <2>1, <2>3 DEF Holds
  <2>4. CASE op \in OrderOps
    BY <1>2, <1>3, <1>5, <2>1, <2>4 DEF Holds, BothNumbers, OrderOps
  <2> QED BY <1>3, <1>5, <2>2, <2>3, <2>4 DEF matchOps, OrderOps
<1> QED BY <1>4, <1>5

\* Where an event has no value of a scalar type: neither below payload nor in the
\* envelope.
LEMMA DeadPath ==
    ASSUME NEW e, NEW path, Len(path) \in Nat \ {0}, NEW type \in Scalar, ~MayHold(path, type)
    PROVE  \A v \in resolvePath(e, path) : v.t # type
<1>1. PICK f : FieldSteps(f, e, path)
  BY FieldWalk
<1>2. CASE Len(path) = 1
  <2>1. resolvePath(e, path) = Envelope(e, path[1])
    BY <1>1, <1>2 DEF FieldSteps
  <2>2. ~(type = "num" /\ path[1] = <<"timestamp">>)
    BY <1>2 DEF MayHold
  <2>3. ~(type = "str" /\ path[1] \in {<<"event_type">>, <<"event_id">>, <<"entity_id">>})
    BY <1>2 DEF MayHold
  <2>4. \A v \in Envelope(e, path[1]) :
           \/ v.t = "map"
           \/ v.t = "num" /\ path[1] = <<"timestamp">>
           \/ v.t = "str" /\ path[1] \in {<<"event_type">>, <<"event_id">>, <<"entity_id">>}
    BY DEF Envelope, Map, Str, Num
  <2> QED BY <2>1, <2>2, <2>3, <2>4 DEF Scalar
<1>3. CASE Len(path) # 1
  <2> PICK size \in Nat \ {0} : size = Len(path)
    OBVIOUS
  <2>1. 2 \in 2..Len(path) /\ 2 - 1 = 1 /\ Len(path) > 1
    <3>1. size # 1
      BY <1>3
    <3>2. 2 \in 2..size /\ size > 1
      BY <3>1
    <3> QED BY <3>2
  <2>2. path[1] # <<"payload">>
    BY <2>1 DEF MayHold, InPayload
  <2>3. \A v \in f[1] : v.t # "map"
    BY <1>1, <2>2 DEF FieldSteps, Envelope, Str, Num
  <2>4. f[2] = Members(f[1], path[2])
    <3>1. f[2] = Members(f[2 - 1], path[2])
      BY <1>1, <2>1 DEF FieldSteps
    <3> QED BY <2>1, <3>1
  <2> DEFINE V == {n \in Nat : n + 2 \in 2..Len(path) => f[n + 2] = {}}
  <2>5. 0 \in V
    BY <2>3, <2>4 DEF Members, Child
  <2>6. \A n \in V : n + 1 \in V
    <3> SUFFICES ASSUME NEW n \in V, n + 3 \in 2..Len(path) PROVE f[n + 3] = {}
      OBVIOUS
    <3>1. n + 2 \in 2..Len(path) /\ (n + 3) - 1 = n + 2
      OBVIOUS
    <3>2. f[n + 2] = {}
      BY <3>1
    <3>3. f[n + 3] = Members(f[(n + 3) - 1], path[n + 3])
      BY <1>1 DEF FieldSteps
    <3>4. f[n + 3] = Members({}, path[n + 3])
      BY <3>1, <3>2, <3>3
    <3> QED BY <3>4 DEF Members
  <2>7. Len(path) - 2 \in V
    <3>1. V \in SUBSET Nat
      OBVIOUS
    <3> HIDE DEF V
    <3>2. V = Nat
      BY <2>5, <2>6, <3>1, SetInduction
    <3> QED BY <2>1, <3>2
  <2>8. f[Len(path)] = {}
    <3>1. (Len(path) - 2) + 2 = Len(path) /\ Len(path) \in 2..Len(path)
      BY <2>1
    <3> QED BY <2>7, <3>1
  <2> QED BY <1>1, <2>8 DEF FieldSteps
<1> QED BY <1>2, <1>3

\* The map that holds v under the k-th segment from the end.
Above(path, k, v) == Map([x \in {path[Len(path) - k + 1]} |-> v])

\* The nested maps of EventWith, with b the value k segments above the end.
BelowSteps(b, path, w) ==
    /\ EventWith(path, w).payload = b[Len(path) - 1].map
    /\ b[0] = w
    /\ \A k \in 1..(Len(path) - 1) : b[k] = Above(path, k, b[k - 1])

\* The nested maps of EventWith, from the end of the path.
LEMMA BelowLoop ==
    ASSUME NEW path, Len(path) \in Nat \ {0}, NEW w
    PROVE  \E b : BelowSteps(b, path, w)
<1> DEFINE size == Len(path) - 1
           Body(f, k) == IF k = 0 THEN w ELSE Above(path, k, f[k - 1])
           Fix(f, m) == f = [k \in 0..m |-> Body(f, k)]
           V == {m \in Nat : \E f : Fix(f, m)}
<1>1. size \in Nat
  OBVIOUS
<1> HIDE DEF size
<1>2. 0 \in V
  <2> DEFINE g == [k \in 0..0 |-> w]
  <2>1. \A k \in 0..0 : Body(g, k) = w
    OBVIOUS
  <2>2. Fix(g, 0)
    <3> HIDE DEF Body
    <3> QED BY <2>1
  <2> QED BY <2>2
<1>3. \A m \in V : m + 1 \in V
  <2> SUFFICES ASSUME NEW m \in Nat, NEW f, Fix(f, m) PROVE \E g : Fix(g, m + 1)
    <3> HIDE DEF Fix
    <3> QED OBVIOUS
  <2> DEFINE g == [k \in 0..(m + 1) |-> Body(f, k)]
  <2>1. \A k \in 0..m : g[k] = f[k]
    <3> TAKE k \in 0..m
    <3>1. k \in 0..(m + 1)
      OBVIOUS
    <3>2. g[k] = Body(f, k)
      BY <3>1
    <3>3. f[k] = Body(f, k)
      <4> HIDE DEF Body
      <4> QED OBVIOUS
    <3> QED BY <3>2, <3>3
  <2>2. \A k \in 0..(m + 1) : Body(g, k) = Body(f, k)
    <3> HIDE DEF g
    <3> QED BY <2>1
  <2>3. Fix(g, m + 1)
    <3> HIDE DEF Body
    <3> QED BY <2>2
  <2> QED BY <2>3
<1>4. \E h : Fix(h, size)
  <2>1. V \in SUBSET Nat
    <3> HIDE DEF Fix
    <3> QED OBVIOUS
  <2>2. size \in V
    <3> HIDE DEF V
    <3>1. V = Nat
      BY <1>2, <1>3, <2>1, SetInduction
    <3> QED BY <1>1, <3>1
  <2> QED BY <2>2
<1> DEFINE below == CHOOSE f : Fix(f, size)
<1>5. Fix(below, size)
  <2> HIDE DEF Fix
  <2> QED BY <1>4
<1>6. EventWith(path, w).payload = below[Len(path) - 1].map
  BY DEF EventWith, size, Above
<1> HIDE DEF below
<1>7. below[0] = w
  BY <1>1, <1>5
<1>8. \A k \in 1..size : below[k] = Above(path, k, below[k - 1])
  <2> SUFFICES ASSUME NEW k \in 1..size PROVE below[k] = Body(below, k)
    OBVIOUS
  <2>1. k \in 0..size
    BY <1>1
  <2> HIDE DEF Body
  <2> QED BY <1>5, <2>1
<1> QED BY <1>6, <1>7, <1>8, Zenon DEF size, BelowSteps

\* The event that was made with a value at a path below payload has it there.
LEMMA LivePath ==
    ASSUME NEW path, Len(path) \in Nat, InPayload(path), NEW w
    PROVE  resolvePath(EventWith(path, w), path) = {w}
<1>1. PICK size : size = Len(path)
  OBVIOUS
<1>2. size \in Nat /\ size > 1 /\ path[1] = <<"payload">>
  BY <1>1 DEF InPayload
<1>3. PICK e : e = EventWith(path, w)
  OBVIOUS
<1> SUFFICES resolvePath(e, path) = {w}
  BY <1>3
<1>0. Len(path) \in Nat \ {0}
  <2>1. size # 0
    BY <1>2
  <2> QED BY <1>1, <1>2, <2>1
<1>4. PICK f : FieldSteps(f, e, path)
  BY <1>0, FieldWalk
<1>5. PICK b : BelowSteps(b, path, w)
  BY <1>0, BelowLoop
<1>6. \A k \in 1..(size - 1) : b[k] = Map([x \in {path[size - k + 1]} |-> b[k - 1]])
  BY <1>1, <1>5 DEF BelowSteps, Above
<1> DEFINE V == {n \in Nat : n + 1 \in 1..size => f[n + 1] = {b[size - (n + 1)]}}
<1>7. 0 \in V
  <2>1. f[1] = {Map(e.payload)}
    BY <1>2, <1>4 DEF FieldSteps, Envelope
  <2>2. e.payload = b[size - 1].map
    BY <1>1, <1>3, <1>5 DEF BelowSteps
  <2>3. Map(b[size - 1].map) = b[size - 1]
    <3>1. size - 1 \in 1..(size - 1)
      BY <1>2
    <3>2. PICK m : b[size - 1] = Map(m)
      BY <1>6, <3>1
    <3> QED BY <3>2 DEF Map
  <2>4. f[1] = {b[size - 1]}
    BY <2>1, <2>2, <2>3
  <2> QED BY <2>4
<1>8. \A n \in V : n + 1 \in V
  <2> SUFFICES ASSUME NEW n \in V, n + 2 \in 1..size PROVE f[n + 2] = {b[size - (n + 2)]}
    OBVIOUS
  <2> DEFINE k == size - (n + 1)
             key == path[n + 2]
  <2>1. /\ n \in Nat /\ n + 1 \in 1..size /\ n + 2 \in 2..size /\ (n + 2) - 1 = n + 1
        /\ k \in 1..(size - 1) /\ size - k + 1 = n + 2 /\ k - 1 = size - (n + 2)
    BY <1>2
  <2>2. f[n + 1] = {b[k]}
    BY <2>1
  <2> HIDE DEF k, V
  <2>3. b[k] = Map([x \in {key} |-> b[k - 1]])
    <3>1. b[k] = Map([x \in {path[size - k + 1]} |-> b[k - 1]])
      BY <1>6, <2>1
    <3> QED BY <2>1, <3>1
  <2>4. f[n + 2] = Members(f[n + 1], key)
    <3>1. f[n + 2] = Members(f[(n + 2) - 1], key)
      BY <1>1, <1>4, <2>1 DEF FieldSteps
    <3> QED BY <2>1, <3>1
  <2> HIDE DEF key
  <2>5. f[n + 2] = Child(b[k], key)
    BY <2>2, <2>4 DEF Members
  <2>6. Child(b[k], key) = {b[k - 1]}
    BY <2>3 DEF Child, Map
  <2> QED BY <2>1, <2>5, <2>6
<1>9. size - 1 \in V
  <2>1. V \in SUBSET Nat
    OBVIOUS
  <2> HIDE DEF V
  <2>2. V = Nat
    BY <1>7, <1>8, <2>1, SetInduction
  <2> QED BY <1>2, <2>2
<1>10. f[size] = {b[0]}
  <2>1. (size - 1) + 1 = size /\ size \in 1..size /\ size - size = 0
    BY <1>2
  <2> QED BY <1>9, <2>1
<1> QED BY <1>1, <1>3, <1>4, <1>5, <1>10 DEF FieldSteps, BelowSteps

\* A clause that lowerMatch accepts on a path below payload holds for some event: a
\* mistyped constant is refused at load and does not silently disable the rule. Where no
\* event has a value of the constant's type, lowerMatch accepts the clause all the same,
\* and it holds for none.
THEOREM AcceptedIsLiveCorrect == Spec => []AcceptedIsLive
<1>1. Snapshot => AcceptedIsLive
  <2> SUFFICES ASSUME Snapshot, phase = "first", NEW r \in ToSet(rules), NEW n \in DOMAIN r.match,
                      NEW p, p = r.match[n], p.op # "exists",
                      NEW type, type = IF p.op = "in" THEN p.value.list[1].t ELSE p.value.t
               PROVE  /\ InPayload(p.path) => \E w \in Witnesses(p) : eval(p, EventWith(p.path, w))
                      /\ ~MayHold(p.path, type) => \A i \in DOMAIN trace : ~eval(p, trace[i])
    BY DEF AcceptedIsLive
  <2>1. r \in CompileDir(dirs["first"]) /\ dirs["first"] \in RuleSets
    BY DEF Snapshot, Runs, ToSet
  <2>2. Predicate(p)
    BY <2>1, RuleFacts
  <2>3. Len(p.path) \in Nat \ {0}
    BY <2>2 DEF Predicate
  <2>4. ASSUME InPayload(p.path) PROVE \E w \in Witnesses(p) : eval(p, EventWith(p.path, w))
    <3>1. PICK v : Lowered(p.op, v, p.value)
      BY <2>2 DEF Predicate
    <3>2. PICK w \in Witnesses(p) : Holds(w, p.op, p.value)
      BY <2>2, <3>1, ValueIsLive DEF Lowered, Predicate
    <3>3. resolvePath(EventWith(p.path, w), p.path) = {w}
      BY <2>3, <2>4, LivePath
    <3>4. eval(p, EventWith(p.path, w))
      BY <3>2, <3>3 DEF eval
    <3> QED BY <3>4
  <2>5. ASSUME ~MayHold(p.path, type), NEW e, eval(p, e) PROVE FALSE
    <3>1. PICK f \in resolvePath(e, p.path) : Holds(f, p.op, p.value)
      BY <2>5 DEF eval
    <3>2. f.t = type /\ type \in Scalar
      BY <2>2, <3>1, HoldsType
    <3> QED BY <2>3, <2>5, <3>1, <3>2, DeadPath
  <2> QED BY <2>4, <2>5
<1> QED BY <1>1, SnapshotInv, PTL
=============================================================================
