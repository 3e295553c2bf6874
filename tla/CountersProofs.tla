--------------------------- MODULE CountersProofs ---------------------------
(***************************************************************************)
(* Machine-checked proofs about Counters: what eviction may lose, and how  *)
(* far a sum may be off, for every number of workers and keys, every ring  *)
(* and every bucket width.                                                 *)
(***************************************************************************)
EXTENDS Counters, FiniteSetTheorems, TLAPS

-----------------------------------------------------------------------------
(* Buckets and slots.                                                      *)

\* Division with remainder.
LEMMA DivFacts ==
    ASSUME NEW a \in Int, NEW b \in Nat \ {0}
    PROVE  /\ a \div b \in Int
           /\ (a \div b) * b <= a /\ a < (a \div b) * b + b
           /\ a % b \in 0..(b - 1)
           /\ a = b * (a \div b) + (a % b)
<1>1. a \div b \in Int
  OBVIOUS
<1>2. (a \div b) * b <= a
  OBVIOUS
<1>3. a < (a \div b) * b + b
  OBVIOUS
<1>4. a % b \in 0..(b - 1)
  OBVIOUS
<1>5. a = b * (a \div b) + (a % b)
  OBVIOUS
<1> QED BY <1>1, <1>2, <1>3, <1>4, <1>5

\* Products keep the order.
LEMMA MulFacts ==
    ASSUME NEW x \in Int, NEW y \in Int, NEW b \in Nat \ {0}
    PROVE  /\ x < y => x * b + b <= y * b
           /\ x * b < y * b => x < y
<1>1. ASSUME x < y PROVE x * b + b <= y * b
  BY <1>1
<1>2. ASSUME x * b < y * b, ~(x < y) PROVE FALSE
  <2>1. y = x \/ y < x
    BY <1>2
  <2>2. y < x => y * b + b <= x * b
    OBVIOUS
  <2>3. x * b \in Int /\ y * b \in Int
    OBVIOUS
  <2> QED BY <1>2, <2>1, <2>2, <2>3
<1> QED BY <1>1, <1>2

\* Later seconds lie in later buckets; a second less than the ring ago, in one of
\* the ring's buckets.
LEMMA EpochFacts ==
    ASSUME NEW a \in Nat, NEW c \in Nat, a <= c
    PROVE  /\ Epoch(a) \in Nat /\ Epoch(c) \in Nat /\ Epoch(a) <= Epoch(c)
           /\ c - a + Bucket <= MaxWindow => Epoch(c) < Epoch(a) + Slots
<1> DEFINE B == Bucket
           x == Epoch(a)
           y == Epoch(c)
<1>1. B \in Nat \ {0} /\ Slots \in Nat \ {0}
  BY BucketAssumption
<1>2. /\ x \in Int /\ x * B <= a /\ a < x * B + B
      /\ y \in Int /\ y * B <= c /\ c < y * B + B
  BY <1>1, DivFacts DEF Epoch
<1> HIDE DEF x, y
<1>3. x \in Nat /\ y \in Nat
  <2>1. \A z \in Int : 0 < z * B + B => z >= 0
    <3> SUFFICES ASSUME NEW z \in Int, z < 0 PROVE z * B + B <= 0
      BY <1>1
    <3>1. z * B + B <= 0 * B
      BY <1>1, MulFacts
    <3> QED BY <1>1, <3>1
  <2> QED BY <1>1, <1>2, <2>1
<1>4. x <= y
  <2>1. x * B < (y + 1) * B
    <3>1. (y + 1) * B = y * B + B /\ x * B \in Int /\ y * B \in Int
      BY <1>1, <1>2
    <3> QED BY <1>1, <1>2, <3>1
  <2>2. x < y + 1
    BY <1>1, <1>2, <2>1, MulFacts
  <2> QED BY <1>2, <2>2
<1>5. ASSUME c - a + B <= MaxWindow PROVE y < x + Slots
  <2>1. (x + Slots) * B = x * B + B * Slots /\ x * B \in Int /\ y * B \in Int
        /\ B * Slots \in Int
    BY <1>1, <1>2
  <2>2. c - a + B <= B * Slots
    BY <1>5 DEF MaxWindow
  <2>3. y * B < (x + Slots) * B
    BY <1>1, <1>2, <2>1, <2>2
  <2> QED BY <1>1, <1>2, <2>3, MulFacts
<1> QED BY <1>3, <1>4, <1>5 DEF x, y

\* Two buckets that share a slot are at least a ring apart.
LEMMA SameSlot ==
    ASSUME NEW x \in Nat, NEW y \in Nat, x % Slots = y % Slots, x < y
    PROVE  x + Slots <= y
<1> DEFINE q == x \div Slots
           p == y \div Slots
<1>1. /\ Slots \in Nat \ {0} /\ q \in Int /\ p \in Int
      /\ x = Slots * q + (x % Slots) /\ y = Slots * p + (y % Slots)
      /\ x % Slots \in Int
  BY BucketAssumption, DivFacts
<1> HIDE DEF q, p
<1>2. q * Slots = Slots * q /\ p * Slots = Slots * p /\ q * Slots \in Int /\ p * Slots \in Int
  BY <1>1
<1>3. q * Slots < p * Slots
  BY <1>1, <1>2
<1>4. q * Slots + Slots <= p * Slots
  BY <1>1, <1>3, MulFacts
<1> QED BY <1>1, <1>2, <1>4

-----------------------------------------------------------------------------
(* The inductive invariant.                                                *)

Word == [epoch : Nat, count : Nat]
LogState == [Seconds -> Nat]
CallState == [key : Keys, win : Nat, t : Nat, obj : Nat, old : Word, ws : Int,
              i : Nat, total : Nat, base : LogState]
VisitState == [key : Keys, obj : Nat, i : Nat, seen : LogState]
GcState == [pc : {"off", "pick", "scan", "delete"}, cut : Int, keys : SUBSET Keys,
            visit : VisitState]
Steps == {"idle", "lookup", "create", "load", "cas", "sum", "read", "done"}

\* What each variable holds.
Shape ==
    /\ now \in Seconds
    /\ calls \in 0..MaxCalls
    /\ made \in Nat
    /\ series \in [Keys -> 0..made]
    /\ slot \in [Series -> [SlotNo -> Word]]
    /\ pc \in [Workers -> Steps]
    /\ call \in [Workers -> CallState]
    /\ gc \in GcState
    /\ log \in [Series -> LogState]
    /\ evicted \subseteq Series

\* A call read the clock a short while ago and works on a series that was made.
Busy(p, c) ==
    /\ p # "idle" => c.t \in Start..now /\ now - c.t <= MaxLag
    /\ p \in {"load", "cas", "read"} => c.obj \in 1..made
    /\ p = "read" => c.i \in SlotNo
    /\ p \notin {"read", "done"} => c.i = 0
AllBusy == \A w \in Workers : Busy(pc[w], call[w])

\* Each call makes at most one series.
Creating == {w \in Workers : pc[w] \in {"lookup", "create"}}
Created == IsFiniteSet(Creating) /\ made + Cardinality(Creating) <= calls

\* A series that was made is live or was evicted, and only such a one has a log.
Live ==
    /\ \A o \in 1..made : (\E k \in Keys : series[k] = o) \/ o \in evicted
    /\ \A o \in Series, s \in Seconds : log[o][s] > 0 => o <= made

\* A slot holds a bucket of its own, no younger than the clock and no older than
\* any that was counted in it.
Ring ==
    \A o \in Series :
        /\ \A j \in SlotNo :
              /\ slot[o][j].epoch <= Epoch(now)
              /\ slot[o][j].epoch = 0 \/ slot[o][j].epoch % Slots = j
        /\ \A s \in Seconds : log[o][s] > 0 =>
              Epoch(s) <= slot[o][Epoch(s) % Slots].epoch

\* What gc has seen of the series it visits: the key's live one, which nobody else
\* replaces, and in the slots it has scanned only buckets older than its cut.
Visit(g) ==
    /\ g.pc # "off" => g.cut * Bucket <= now - MaxWindow
    /\ g.pc = "scan" => g.visit.i < Slots
    /\ g.pc = "delete" => g.visit.i = Slots
    /\ g.pc \in {"scan", "delete"} =>
          /\ g.visit.obj \in 1..made
          /\ series[g.visit.key] = g.visit.obj
          /\ \A s \in Seconds : g.visit.seen[s] > 0 =>
                /\ log[g.visit.obj][s] > 0
                /\ Epoch(s) % Slots < g.visit.i => Epoch(s) < g.cut

IInv == Shape /\ AllBusy /\ Created /\ Live /\ Ring /\ Visit(gc)

(* What a sum returns: the invariant on top of IInv.                       *)

\* The seconds of bucket e.
BucketOf(e) == {s \in Seconds : Epoch(s) = e}

\* Calls that have not counted yet.
Uncounted == {w \in Workers : pc[w] \in {"lookup", "create", "load", "cas"}}

\* A call counts once: what is counted and what will be is no more than the calls.
Bounded ==
    /\ IsFiniteSet(Uncounted)
    /\ \A o \in Series :
          /\ \A s \in Seconds : log[o][s] + Cardinality(Uncounted) <= calls
          /\ \A j \in SlotNo : slot[o][j].count + Cardinality(Uncounted) <= calls

\* A slot's count is the number of increments in its bucket.
Exact ==
    \A o \in Series, j \in SlotNo :
        slot[o][j].count = Count(log[o], BucketOf(slot[o][j].epoch))

\* The seconds of the first i slots from ws on.
From(ws, i) == {s \in Seconds : s >= ws /\ Epoch(s) % Slots < i}

\* The seconds of the first i slots that a sum over win which ends at n must cover.
Inside(n, win, i) == {s \in Seconds : s + win >= n + Bucket /\ Epoch(s) % Slots < i}

\* A sum on its way: it has read the first i slots.
Partial(p, c) ==
    /\ p # "idle" => c.win \in Windows
    /\ p \notin {"read", "done"} => c.total = 0
    /\ p \in {"read", "done"} /\ c.obj # 0 =>
          /\ c.obj \in 1..made
          /\ p = "done" => c.i = Slots
          /\ c.ws + c.win <= now
          /\ \A s \in Seconds : c.base[s] <= log[c.obj][s]
          /\ c.total <= Count(log[c.obj], From(c.ws, c.i))
          /\ c.total >= Count(c.base, Inside(now, c.win, c.i))
AllPartial == \A w \in Workers : Partial(pc[w], call[w])

SInv == IInv /\ Bounded /\ Exact /\ AllPartial

-----------------------------------------------------------------------------
(* Counting increments.                                                    *)

\* There are finitely many.
LEMMA CountType ==
    ASSUME NEW l, NEW S
    PROVE  IsFiniteSet(Incs(l, S)) /\ Count(l, S) \in Nat
<1>1. Start \in Int /\ MaxNow \in Int /\ 1 \in Int /\ MaxCalls \in Int
  BY StartAssumption, BoundAssumption
<1>2. IsFiniteSet(Start..MaxNow) /\ IsFiniteSet(1..MaxCalls)
  BY <1>1, FS_Interval
<1>3. IsFiniteSet(S \cap Seconds)
  BY <1>2, FS_Subset DEF Seconds
<1>4. IsFiniteSet((S \cap Seconds) \X (1..MaxCalls))
  BY <1>2, <1>3, FS_Product
<1>5. Incs(l, S) \in SUBSET ((S \cap Seconds) \X (1..MaxCalls))
  BY DEF Incs
<1>6. IsFiniteSet(Incs(l, S))
  BY <1>4, <1>5, FS_Subset
<1> QED BY <1>6, FS_CardinalityType DEF Count

\* What l has in S, m has in T: then T holds no fewer of m than S holds of l.
LEMMA CountMono ==
    ASSUME NEW l \in LogState, NEW m \in LogState, NEW S, NEW T,
           \A s \in S \cap Seconds : l[s] > 0 => s \in T /\ l[s] <= m[s]
    PROVE  Count(l, S) <= Count(m, T)
<1>1. ASSUME NEW x \in Incs(l, S) PROVE x \in Incs(m, T)
  <2>1. /\ x \in (S \cap Seconds) \X (1..MaxCalls) /\ x[2] <= l[x[1]]
        /\ x[1] \in S \cap Seconds /\ x[2] \in 1..MaxCalls /\ MaxCalls \in Nat
    BY <1>1, BoundAssumption DEF Incs
  <2>2. l[x[1]] \in Nat /\ m[x[1]] \in Nat /\ x[2] \in Nat /\ x[2] >= 1
    BY <2>1 DEF LogState
  <2>3. l[x[1]] > 0
    BY <2>1, <2>2
  <2>4. x[1] \in T /\ l[x[1]] <= m[x[1]]
    BY <2>1, <2>3
  <2>5. x[2] <= m[x[1]]
    BY <2>1, <2>2, <2>4
  <2>6. x \in (T \cap Seconds) \X (1..MaxCalls)
    BY <2>1, <2>4
  <2> QED BY <2>5, <2>6 DEF Incs
<1>2. Incs(l, S) \in SUBSET Incs(m, T)
  BY <1>1
<1> QED BY <1>2, CountType, FS_Subset DEF Count

\* Seconds without increments count nothing.
LEMMA CountNone ==
    ASSUME NEW l \in LogState, NEW S, \A s \in S \cap Seconds : l[s] = 0
    PROVE  Count(l, S) = 0
<1>1. ASSUME NEW x \in Incs(l, S) PROVE FALSE
  <2>1. /\ x[2] <= l[x[1]] /\ x[1] \in S \cap Seconds /\ x[2] \in 1..MaxCalls
        /\ MaxCalls \in Nat
    BY <1>1, BoundAssumption DEF Incs
  <2>2. l[x[1]] = 0
    BY <2>1
  <2> QED BY <2>1, <2>2
<1>2. Incs(l, S) = {}
  BY <1>1
<1> QED BY <1>2, FS_EmptySet DEF Count

\* The increments of two disjoint sets of seconds add up.
LEMMA CountUnion ==
    ASSUME NEW l, NEW S, NEW T, S \cap T = {}
    PROVE  Count(l, S \cup T) = Count(l, S) + Count(l, T)
<1>1. Incs(l, S \cup T) = Incs(l, S) \cup Incs(l, T)
  BY DEF Incs
<1>2. Incs(l, S) \cap Incs(l, T) = {}
  BY DEF Incs
<1>3. /\ IsFiniteSet(Incs(l, S)) /\ IsFiniteSet(Incs(l, T))
      /\ Count(l, S) \in Nat /\ Count(l, T) \in Nat
  BY CountType
<1> DEFINE A == Incs(l, S)
           B == Incs(l, T)
<1>4. /\ IsFiniteSet(A) /\ IsFiniteSet(B) /\ A \cap B = {}
      /\ Count(l, S) = Cardinality(A) /\ Count(l, T) = Cardinality(B)
      /\ Count(l, S \cup T) = Cardinality(A \cup B)
  BY <1>1, <1>2, <1>3 DEF Count
<1> HIDE DEF A, B
<1>5. Cardinality(A \cup B) = Cardinality(A) + Cardinality(B) - Cardinality({})
  BY <1>4, FS_Union
<1>6. Cardinality({}) = 0
  BY FS_EmptySet
<1> QED BY <1>3, <1>4, <1>5, <1>6

\* One increment more at second t counts once where t is counted.
LEMMA CountIncrement ==
    ASSUME NEW l \in LogState, NEW m \in LogState, NEW t \in Seconds, NEW S,
           l[t] < MaxCalls, m[t] = l[t] + 1,
           \A s \in Seconds \ {t} : m[s] = l[s]
    PROVE  Count(m, S) = IF t \in S THEN Count(l, S) + 1 ELSE Count(l, S)
<1> DEFINE x == <<t, l[t] + 1>>
<1>0. MaxCalls \in Nat /\ l[t] \in Nat
  BY BoundAssumption DEF LogState
<1>1. CASE t \in S
  <2>1. x \in (S \cap Seconds) \X (1..MaxCalls) /\ x[1] = t /\ x[2] = l[t] + 1
    BY <1>0, <1>1
  <2>2. x \notin Incs(l, S)
    BY <1>0, <2>1 DEF Incs
  <2>3. x \in Incs(m, S)
    BY <1>0, <2>1 DEF Incs
  <2>4. ASSUME NEW y \in (S \cap Seconds) \X (1..MaxCalls)
        PROVE  y \in Incs(m, S) <=> y \in Incs(l, S) \/ y = x
    <3>1. y[1] \in Seconds /\ y[2] \in Nat /\ y = <<y[1], y[2]>>
      BY <2>4
    <3>2. CASE y[1] = t
      <4>1. y[2] <= l[t] + 1 <=> y[2] <= l[t] \/ y[2] = l[t] + 1
        BY <1>0, <3>1
      <4>2. y = x <=> y[2] = l[t] + 1
        BY <3>1, <3>2
      <4> QED BY <2>4, <3>2, <4>1, <4>2 DEF Incs
    <3>3. CASE y[1] # t
      <4>1. m[y[1]] = l[y[1]] /\ y # x
        BY <3>1, <3>3
      <4> QED BY <2>4, <4>1 DEF Incs
    <3> QED BY <3>2, <3>3
  <2>5. Incs(m, S) = Incs(l, S) \cup {x}
    <3>1. /\ Incs(m, S) \subseteq (S \cap Seconds) \X (1..MaxCalls)
          /\ Incs(l, S) \subseteq (S \cap Seconds) \X (1..MaxCalls)
      BY DEF Incs
    <3> HIDE DEF x
    <3> QED BY <2>1, <2>3, <2>4, <3>1
  <2> HIDE DEF x
  <2> QED BY <1>1, <2>2, <2>5, CountType, FS_AddElement DEF Count
<1>2. CASE t \notin S
  <2>1. \A s \in S \cap Seconds : m[s] = l[s]
    BY <1>2
  <2>2. Incs(m, S) = Incs(l, S)
    BY <2>1 DEF Incs
  <2> QED BY <1>2, <2>2 DEF Count
<1> QED BY <1>1, <1>2

-----------------------------------------------------------------------------
(* The steps.                                                              *)

\* The constants that states are made of.
LEMMA ConstantFacts ==
    /\ Bucket \in Nat \ {0} /\ Slots \in Nat \ {0} /\ 0 \in SlotNo
    /\ MaxWindow \in Nat /\ Start \in Nat /\ MaxNow \in Nat /\ MaxLag \in Nat
    /\ MaxCalls \in Nat /\ Start \in Seconds /\ Seconds \subseteq Nat
    /\ Start >= MaxWindow + Bucket /\ MaxLag + Bucket <= MaxWindow
    /\ Windows \subseteq Nat
    /\ Empty \in Word /\ NoLog \in LogState /\ NoCall \in CallState
    /\ NoCall.i = 0
    /\ GcOff \in GcState /\ GcOff.pc = "off" /\ NoVisit \in VisitState
<1>1. /\ Bucket \in Nat \ {0} /\ Slots \in Nat \ {0} /\ Start \in Nat /\ MaxNow \in Nat
      /\ MaxLag \in Nat /\ MaxCalls \in Nat /\ MaxNow >= Start
  BY BucketAssumption, StartAssumption, LagAssumption, BoundAssumption
<1>2. MaxWindow \in Nat
  BY <1>1 DEF MaxWindow
<1>3. Start >= MaxWindow + Bucket /\ MaxLag + Bucket <= MaxWindow
  BY StartAssumption, LagAssumption
<1>4. 0 \in SlotNo /\ Start \in Seconds /\ Seconds \subseteq Nat
  BY <1>1 DEF SlotNo, Seconds
<1>5. Windows \subseteq Nat
  BY <1>2, WindowsAssumption
<1>6. Empty \in Word /\ NoLog \in LogState /\ AnyKey \in Keys
  BY KeysAssumption DEF Empty, Word, NoLog, LogState, AnyKey
<1>7. NoCall \in CallState /\ NoCall.i = 0
  BY <1>6 DEF NoCall, CallState
<1>8. NoVisit \in VisitState
  BY <1>6 DEF NoVisit, VisitState
<1>9. GcOff \in GcState /\ GcOff.pc = "off"
  BY <1>8 DEF GcOff, GcState
<1> QED BY <1>1, <1>2, <1>3, <1>4, <1>5, <1>6, <1>7, <1>8, <1>9

\* A series that was made is one of those considered.
LEMMA MadeFacts ==
    ASSUME IInv
    PROVE  /\ made \in 0..MaxCalls /\ 1..made \subseteq Series
           /\ Creating # {} => made < MaxCalls
<1>1. made \in Nat /\ calls \in Nat /\ calls <= MaxCalls /\ MaxCalls \in Nat
  BY ConstantFacts DEF IInv, Shape
<1>2. IsFiniteSet(Creating) /\ made + Cardinality(Creating) <= calls
      /\ Cardinality(Creating) \in Nat
  BY FS_CardinalityType DEF IInv, Created
<1>3. ASSUME Creating # {} PROVE made < MaxCalls
  <2>1. Cardinality(Creating) # 0
    BY <1>2, <1>3, FS_EmptySet
  <2> QED BY <1>1, <1>2, <2>1
<1> QED BY <1>1, <1>2, <1>3 DEF Series

\* A worker goes on in its call without touching what is shared.
LEMMA WorkerStep ==
    ASSUME IInv, NEW w \in Workers, NEW p \in Steps, NEW c \in CallState,
           pc' = [pc EXCEPT ![w] = p], call' = [call EXCEPT ![w] = c],
           UNCHANGED <<now, calls, series, made, slot, gcVars, log>>,
           Busy(p, c),
           p \in {"lookup", "create"} => w \in Creating
    PROVE  IInv'
<1>1. UNCHANGED <<now, calls, series, made, slot, gc, evicted, log>>
  BY DEF gcVars
<1>2. Shape'
  BY <1>1 DEF IInv, Shape
<1>3. AllBusy'
  <2>1. ASSUME NEW v \in Workers PROVE Busy(pc[v], call[v])'
    <3>1. CASE v = w
      BY <1>1, <3>1 DEF IInv, Shape, Busy
    <3>2. CASE v # w
      BY <1>1, <3>2 DEF IInv, Shape, AllBusy, Busy
    <3> QED BY <3>1, <3>2
  <2> QED BY <2>1 DEF AllBusy
<1>4. Created'
  <2>1. Creating' \subseteq Creating
    BY DEF IInv, Shape, Creating
  <2>2. /\ IsFiniteSet(Creating') /\ Cardinality(Creating') <= Cardinality(Creating)
        /\ Cardinality(Creating) \in Nat /\ Cardinality(Creating') \in Nat
    BY <2>1, FS_Subset, FS_CardinalityType DEF IInv, Created
  <2> QED BY <1>1, <2>2 DEF IInv, Shape, Created
<1>5. Live' /\ Ring' /\ Visit(gc)'
  BY <1>1 DEF IInv, Live, Ring, Visit, Epoch
<1> QED BY <1>2, <1>3, <1>4, <1>5 DEF IInv

\* A call begins.
LEMMA CallStep ==
    ASSUME IInv, NEW w \in Workers, NEW k \in Keys, NEW win \in Windows, Call(w, k, win)
    PROVE  IInv'
<1> DEFINE c == [NoCall EXCEPT !.key = k, !.win = win, !.t = now]
<1>1. UNCHANGED <<now, series, made, slot, gc, evicted, log>>
  BY DEF Call, gcVars
<1>2. /\ pc[w] = "idle" /\ pc' = [pc EXCEPT ![w] = "lookup"]
      /\ call' = [call EXCEPT ![w] = c]
      /\ calls < MaxCalls /\ calls' = calls + 1
  BY DEF Call
<1>3. now \in Nat /\ now \in Start..MaxNow
  BY ConstantFacts DEF IInv, Shape, Seconds
<1>4. c \in CallState /\ c.t = now /\ c.i = 0
  BY <1>3, ConstantFacts DEF CallState
<1> HIDE DEF c
<1>5. Shape'
  <2>1. calls' \in 0..MaxCalls
    BY <1>2, ConstantFacts DEF IInv, Shape
  <2>2. pc' \in [Workers -> Steps] /\ call' \in [Workers -> CallState]
    BY <1>2, <1>4 DEF IInv, Shape, Steps
  <2> QED BY <1>1, <2>1, <2>2 DEF IInv, Shape
<1>6. AllBusy'
  <2>1. ASSUME NEW v \in Workers PROVE Busy(pc[v], call[v])'
    <3>1. CASE v = w
      <4>1. pc'[v] = "lookup" /\ call'[v] = c
        BY <1>2, <3>1 DEF IInv, Shape
      <4>2. now \in Start..now /\ now - now <= MaxLag
        BY <1>3, ConstantFacts
      <4> QED BY <1>1, <1>4, <4>1, <4>2 DEF Busy
    <3>2. CASE v # w
      BY <1>1, <1>2, <3>2 DEF IInv, Shape, AllBusy, Busy
    <3> QED BY <3>1, <3>2
  <2> QED BY <2>1 DEF AllBusy
<1>7. Created'
  <2>1. Creating' = Creating \cup {w} /\ w \notin Creating
    BY <1>2 DEF IInv, Shape, Creating
  <2>2. IsFiniteSet(Creating) /\ Cardinality(Creating) \in Nat
    BY FS_CardinalityType DEF IInv, Created
  <2>3. IsFiniteSet(Creating') /\ Cardinality(Creating') = Cardinality(Creating) + 1
    BY <2>1, <2>2, FS_AddElement
  <2>4. made + Cardinality(Creating) <= calls /\ made \in Nat /\ calls \in Nat
    BY DEF IInv, Created, Shape
  <2>5. made + Cardinality(Creating') <= calls'
    BY <1>2, <2>2, <2>3, <2>4
  <2> QED BY <1>1, <2>3, <2>5 DEF Created
<1>8. Live' /\ Ring' /\ Visit(gc)'
  BY <1>1 DEF IInv, Live, Ring, Visit, Epoch
<1> QED BY <1>5, <1>6, <1>7, <1>8 DEF IInv

\* The types of a worker's locals.
LEMMA CallFacts ==
    ASSUME IInv, NEW w \in Workers
    PROVE  /\ pc[w] \in Steps /\ call[w] \in CallState /\ Busy(pc[w], call[w])
           /\ series[call[w].key] \in 0..made /\ call[w].key \in Keys
           /\ call[w].obj \in Nat /\ call[w].i \in Nat /\ call[w].total \in Nat
           /\ call[w].win \in Nat /\ call[w].t \in Nat /\ now \in Nat /\ made \in Nat
BY ConstantFacts DEF IInv, AllBusy, Shape, CallState

\* Looking the series up, loading a slot, summing and returning.
LEMMA CallSteps ==
    ASSUME IInv, NEW w \in Workers,
           Lookup(w) \/ LoadSlot(w) \/ SumStart(w) \/ ReadSlot(w) \/ Return(w)
    PROVE  IInv'
<1>0. /\ pc[w] \in Steps /\ call[w] \in CallState /\ Busy(pc[w], call[w])
      /\ series[call[w].key] \in 0..made
      /\ made \in Nat /\ made <= MaxCalls /\ 1..made \subseteq Series
      /\ slot \in [Series -> [SlotNo -> Word]] /\ log \in [Series -> LogState]
      /\ now \in Nat
  BY CallFacts, MadeFacts DEF IInv, Shape
<1>1. CASE Lookup(w)
  <2> DEFINE o == series[call[w].key]
  <2>1. /\ pc[w] = "lookup" /\ w \in Creating
        /\ UNCHANGED <<now, calls, series, made, slot, gcVars, log>>
    BY <1>1 DEF Lookup, Creating
  <2>2. CASE o # 0
    <3> DEFINE c == [call[w] EXCEPT !.obj = o]
    <3>1. /\ c \in CallState /\ c.t = call[w].t /\ c.i = call[w].i /\ c.obj = o
      BY <1>0 DEF CallState
    <3>2. call' = [call EXCEPT ![w] = c] /\ pc' = [pc EXCEPT ![w] = "load"]
      BY <1>1, <2>2 DEF Lookup
    <3> HIDE DEF c
    <3>3. Busy("load", c)
      BY <1>0, <2>1, <2>2, <3>1 DEF Busy
    <3> QED BY <2>1, <3>1, <3>2, <3>3, WorkerStep DEF Steps
  <2>3. CASE o = 0
    <3>1. call' = [call EXCEPT ![w] = call[w]] /\ pc' = [pc EXCEPT ![w] = "create"]
      BY <1>1, <2>3 DEF Lookup, IInv, Shape
    <3>2. Busy("create", call[w])
      BY <1>0, <2>1 DEF Busy
    <3> QED BY <1>0, <2>1, <3>1, <3>2, WorkerStep DEF Steps
  <2> QED BY <2>2, <2>3
<1>2. CASE LoadSlot(w)
  <2> DEFINE v == slot[call[w].obj][MySlot(w)]
             c == [call[w] EXCEPT !.old = v]
  <2>1. /\ pc[w] = "load" /\ pc' = [pc EXCEPT ![w] = "cas"]
        /\ UNCHANGED <<now, calls, series, made, slot, gcVars, log>>
    BY <1>2 DEF LoadSlot
  <2>2. v \in Word
    <3>1. MySlot(w) \in SlotNo
      <4>1. Epoch(call[w].t) \in Nat
        BY <1>0, EpochFacts DEF CallState
      <4>2. Epoch(call[w].t) % Slots \in 0..(Slots - 1)
        <5> DEFINE e == Epoch(call[w].t)
        <5>1. e \in Int /\ Slots \in Nat \ {0}
          BY <4>1, BucketAssumption
        <5> HIDE DEF e
        <5>2. e % Slots \in 0..(Slots - 1)
          BY <5>1, DivFacts
        <5> QED BY <5>2 DEF e
      <4> QED BY <4>2 DEF MySlot, SlotNo
    <3>2. call[w].obj \in Series
      BY <1>0, <2>1 DEF Busy
    <3> QED BY <1>0, <3>1, <3>2
  <2>3. call' = [call EXCEPT ![w] = c]
    BY <1>2 DEF LoadSlot
  <2> HIDE DEF v
  <2>4. c \in CallState /\ c.t = call[w].t /\ c.i = call[w].i /\ c.obj = call[w].obj
    BY <1>0, <2>2 DEF CallState
  <2> HIDE DEF c
  <2>5. Busy("cas", c)
    BY <1>0, <2>1, <2>4 DEF Busy
  <2> QED BY <2>1, <2>3, <2>4, <2>5, WorkerStep DEF Steps
<1>3. CASE SumStart(w)
  <2> DEFINE o == series[call[w].key]
             ws == now - call[w].win
             base == IF o = 0 THEN NoLog ELSE log[o]
             p == IF o = 0 THEN "done" ELSE "read"
             c == [call[w] EXCEPT !.obj = o, !.ws = ws, !.base = base]
  <2>1. /\ pc[w] = "sum" /\ pc' = [pc EXCEPT ![w] = p]
        /\ UNCHANGED <<now, calls, series, made, slot, gcVars, log>>
        /\ call' = [call EXCEPT ![w] = c]
    BY <1>3 DEF SumStart
  <2>2. ws \in Int /\ base \in LogState /\ p \in {"done", "read"} /\ o \in Nat
    BY <1>0, ConstantFacts, CallFacts
  <2>3. p = "read" => o \in 1..made
    BY <1>0
  <2> HIDE DEF o, ws, base, p
  <2>4. c \in CallState /\ c.t = call[w].t /\ c.i = call[w].i /\ c.obj = o
    BY <1>0, <2>2 DEF CallState
  <2> HIDE DEF c
  <2>5. Busy(p, c)
    BY <1>0, <2>1, <2>2, <2>3, <2>4, ConstantFacts DEF Busy
  <2>6. p \in Steps /\ ~(p \in {"lookup", "create"})
    BY <2>2 DEF Steps
  <2> QED BY <2>1, <2>4, <2>5, <2>6, WorkerStep
<1>4. CASE ReadSlot(w)
  <2> DEFINE o == call[w].obj
             i == call[w].i
             v == slot[o][i]
             t == call[w].total + IF InWindow(v, call[w].ws) THEN v.count ELSE 0
             j == i + 1
             p == IF i = Slots - 1 THEN "done" ELSE "read"
             c == [call[w] EXCEPT !.total = t, !.i = j]
  <2>1. /\ pc[w] = "read" /\ pc' = [pc EXCEPT ![w] = p]
        /\ UNCHANGED <<now, calls, series, made, slot, gcVars, log>>
        /\ call' = [call EXCEPT ![w] = c]
    BY <1>4 DEF ReadSlot
  <2>2. o \in Series /\ o \in 1..made /\ i \in SlotNo
    BY <1>0, <2>1 DEF Busy
  <2>3. v \in Word /\ v.count \in Nat
    BY <1>0, <2>2 DEF Word
  <2>4. t \in Nat /\ j \in Nat
    <3> HIDE DEF v
    <3> QED BY <2>3, CallFacts
  <2>5. p \in {"done", "read"} /\ (p = "read" => j \in SlotNo)
    BY <2>2, ConstantFacts DEF SlotNo
  <2> HIDE DEF t, j, p, v
  <2>6. c \in CallState /\ c.t = call[w].t /\ c.i = j /\ c.obj = o
    BY <1>0, <2>4 DEF CallState
  <2> HIDE DEF c
  <2>7. Busy(p, c)
    BY <1>0, <2>1, <2>2, <2>5, <2>6 DEF Busy
  <2>8. p \in Steps /\ ~(p \in {"lookup", "create"})
    BY <2>5 DEF Steps
  <2> QED BY <2>1, <2>6, <2>7, <2>8, WorkerStep
<1>5. CASE Return(w)
  <2>1. /\ pc' = [pc EXCEPT ![w] = "idle"] /\ call' = [call EXCEPT ![w] = NoCall]
        /\ UNCHANGED <<now, calls, series, made, slot, gcVars, log>>
    BY <1>5 DEF Return
  <2>2. Busy("idle", NoCall)
    BY ConstantFacts DEF Busy
  <2> QED BY <2>1, <2>2, ConstantFacts, WorkerStep DEF Steps
<1> QED BY <1>1, <1>2, <1>3, <1>4, <1>5

\* A worker makes the key's series, unless another has made it meanwhile.
LEMMA CreateStep ==
    ASSUME IInv, NEW w \in Workers, Create(w)
    PROVE  IInv'
<1> DEFINE k == call[w].key
           m == made + 1
           c == [call[w] EXCEPT !.obj = m]
<1>0. /\ pc[w] = "create" /\ w \in Creating
      /\ k \in Keys /\ series[k] \in 0..made /\ made \in Nat
      /\ call[w] \in CallState /\ Busy("create", call[w])
      /\ UNCHANGED <<now, calls, slot, gcVars, log>>
      /\ pc' = [pc EXCEPT ![w] = "load"]
  BY CallFacts DEF Create, Creating
<1>1. CASE series[k] # 0
  <2> DEFINE o == series[k]
             d == [call[w] EXCEPT !.obj = o]
  <2>1. /\ made' = made /\ series' = [series EXCEPT ![k] = series[k]]
        /\ call' = [call EXCEPT ![w] = d]
    BY <1>1 DEF Create
  <2>2. series' = series
    BY <1>0, <2>1 DEF IInv, Shape
  <2>3. d \in CallState /\ d.t = call[w].t /\ d.i = call[w].i /\ d.obj = o
    BY <1>0 DEF CallState
  <2> HIDE DEF d
  <2>4. Busy("load", d)
    BY <1>0, <1>1, <2>3 DEF Busy
  <2> QED BY <1>0, <2>1, <2>2, <2>3, <2>4, WorkerStep DEF Steps
<1>2. CASE series[k] = 0
  <2>1. /\ made' = m /\ series' = [series EXCEPT ![k] = m]
        /\ call' = [call EXCEPT ![w] = c]
    BY <1>2 DEF Create
  <2>2. m \in Nat /\ m = made + 1 /\ m \in 1..m /\ 1..m = (1..made) \cup {m}
    BY <1>0
  <2>3. c \in CallState /\ c.t = call[w].t /\ c.i = call[w].i /\ c.obj = m
    BY <1>0, <2>2 DEF CallState
  <2> HIDE DEF c
  <2>4. UNCHANGED <<now, calls, slot, gc, evicted, log>>
    BY <1>0 DEF gcVars
  <2>5. Shape'
    <3>1. series' \in [Keys -> 0..m]
      BY <1>0, <2>1, <2>2 DEF IInv, Shape
    <3>2. pc' \in [Workers -> Steps] /\ call' \in [Workers -> CallState]
      BY <1>0, <2>1, <2>3 DEF IInv, Shape, Steps
    <3> QED BY <2>1, <2>2, <2>4, <3>1, <3>2 DEF IInv, Shape
  <2>6. AllBusy'
    <3>1. ASSUME NEW v \in Workers PROVE Busy(pc[v], call[v])'
      <4>1. CASE v = w
        <5>1. pc'[v] = "load" /\ call'[v] = c
          BY <1>0, <2>1, <4>1 DEF IInv, Shape
        <5> QED BY <1>0, <2>1, <2>2, <2>3, <2>4, <5>1 DEF Busy
      <4>2. CASE v # w
        <5>1. pc'[v] = pc[v] /\ call'[v] = call[v]
          BY <1>0, <2>1, <4>2 DEF IInv, Shape
        <5>2. Busy(pc[v], call[v])
          BY DEF IInv, AllBusy
        <5>3. 1..made \subseteq 1..m
          BY <2>2
        <5> QED BY <2>1, <2>4, <5>1, <5>2, <5>3 DEF Busy
      <4> QED BY <4>1, <4>2
    <3> QED BY <3>1 DEF AllBusy
  <2>7. Created'
    <3>1. Creating' = Creating \ {w}
      BY <1>0 DEF IInv, Shape, Creating
    <3>2. IsFiniteSet(Creating) /\ Cardinality(Creating) \in Nat
      BY FS_CardinalityType DEF IInv, Created
    <3>3. IsFiniteSet(Creating') /\ Cardinality(Creating') = Cardinality(Creating) - 1
      BY <1>0, <3>1, <3>2, FS_RemoveElement
    <3>4. made + Cardinality(Creating) <= calls /\ calls \in Nat
      BY DEF IInv, Created, Shape
    <3>5. m + Cardinality(Creating') <= calls
      BY <1>0, <2>2, <3>2, <3>3, <3>4
    <3> QED BY <2>1, <2>4, <3>3, <3>5 DEF Created
  <2>8. Live'
    <3>1. ASSUME NEW o \in 1..m PROVE (\E q \in Keys : series'[q] = o) \/ o \in evicted
      <4>1. CASE o = m
        BY <1>0, <2>1, <4>1 DEF IInv, Shape
      <4>2. CASE o \in 1..made
        <5>1. (\E q \in Keys : series[q] = o) \/ o \in evicted
          BY <4>2 DEF IInv, Live
        <5>2. \A q \in Keys : series[q] = o => q # k
          BY <1>2, <4>2
        <5> QED BY <2>1, <5>1, <5>2 DEF IInv, Shape
      <4> QED BY <2>2, <4>1, <4>2
    <3>2. ASSUME NEW o \in Series, NEW s \in Seconds, log[o][s] > 0 PROVE o <= m
      <4>1. o <= made /\ o \in Nat
        BY <3>2 DEF IInv, Live, Series
      <4> QED BY <1>0, <2>2, <4>1
    <3> QED BY <2>1, <2>4, <3>1, <3>2 DEF Live
  <2>9. Ring'
    BY <2>4 DEF IInv, Ring, Epoch
  <2>10. Visit(gc)'
    <3>1. gc.pc \in {"scan", "delete"} =>
            gc.visit.obj \in 1..m /\ series'[gc.visit.key] = gc.visit.obj
      <4> SUFFICES ASSUME gc.pc \in {"scan", "delete"}
                   PROVE  gc.visit.obj \in 1..m /\ series'[gc.visit.key] = gc.visit.obj
        OBVIOUS
      <4>1. gc.visit.obj \in 1..made /\ series[gc.visit.key] = gc.visit.obj
        BY DEF IInv, Visit
      <4>2. gc.visit.key # k /\ gc.visit.key \in Keys
        BY <1>2, <4>1 DEF IInv, Shape, GcState, VisitState
      <4> QED BY <2>1, <2>2, <4>1, <4>2 DEF IInv, Shape
    <3> QED BY <2>1, <2>4, <3>1 DEF IInv, Visit, Epoch
  <2> QED BY <2>5, <2>6, <2>7, <2>8, <2>9, <2>10 DEF IInv
<1> QED BY <1>1, <1>2

\* The compare-and-swap. A call is too short for its bucket to be older than the
\* one it finds in the slot: the ring has not come round to it.
LEMMA CasStep ==
    ASSUME IInv, NEW w \in Workers, Cas(w)
    PROVE  IInv'
<1> DEFINE o == call[w].obj
           t == call[w].t
           e == Epoch(t)
           j == MySlot(w)
           old == slot[o][j]
           new == Bumped(call[w].old, e)
<1>0. /\ pc[w] = "cas" /\ pc[w] \in Steps /\ call[w] \in CallState
      /\ o \in 1..made /\ o \in Series /\ call[w].i = 0
      /\ t \in Start..now /\ now - t <= MaxLag /\ t \in Nat /\ now \in Nat
      /\ made \in Nat
      /\ slot \in [Series -> [SlotNo -> Word]] /\ log \in [Series -> LogState]
      /\ UNCHANGED <<now, calls, series, made, call, gcVars>>
      /\ call' = [call EXCEPT ![w] = call[w]]
  <2>1. pc[w] = "cas" /\ UNCHANGED <<now, calls, series, made, call, gcVars>>
    BY DEF Cas
  <2>2. /\ pc[w] \in Steps /\ call[w] \in CallState
        /\ t \in Start..now /\ now - t <= MaxLag /\ o \in 1..made /\ call[w].i = 0
        /\ made \in Nat /\ now \in Nat /\ t \in Nat
    BY <2>1, CallFacts DEF Busy
  <2> QED BY <2>1, <2>2, MadeFacts DEF IInv, Shape
<1>1. CASE slot[o][j] # call[w].old
  <2>1. pc' = [pc EXCEPT ![w] = "load"] /\ UNCHANGED <<slot, log>>
    BY <1>1 DEF Cas
  <2>2. Busy("load", call[w])
    BY <1>0 DEF Busy
  <2> QED BY <1>0, <2>1, <2>2, WorkerStep DEF Steps
<1>2. CASE slot[o][j] = call[w].old
  <2>1. /\ slot' = [slot EXCEPT ![o][j] = new]
        /\ log' = [log EXCEPT ![o][t] = @ + 1]
        /\ pc' = [pc EXCEPT ![w] = "sum"]
        /\ new = Bumped(old, e)
    BY <1>2 DEF Cas
  <2>2. e \in Nat /\ e <= Epoch(now) /\ Epoch(now) \in Nat /\ Epoch(now) < e + Slots
    <3>1. t <= now /\ now - t + Bucket <= MaxWindow
      BY <1>0, ConstantFacts
    <3> QED BY <1>0, <3>1, EpochFacts
  <2>3. Slots \in Nat \ {0} /\ t \in Seconds
    <3>1. now \in Start..MaxNow /\ Start \in Nat /\ MaxNow \in Nat
      BY ConstantFacts DEF IInv, Shape, Seconds
    <3>2. t \in Start..MaxNow
      BY <1>0, <3>1
    <3> QED BY <3>2, BucketAssumption DEF Seconds
  <2>4. j \in SlotNo /\ j = e % Slots
    <3> HIDE DEF e
    <3>1. e \in Int /\ Slots \in Nat \ {0}
      BY <2>2, <2>3
    <3>2. e % Slots \in 0..(Slots - 1)
      BY <3>1, DivFacts
    <3> QED BY <3>2 DEF SlotNo, MySlot, e
  <2>5. /\ old \in Word /\ old.epoch \in Nat /\ old.count \in Nat
        /\ old.epoch <= Epoch(now)
        /\ old.epoch = 0 \/ old.epoch % Slots = j
    BY <1>0, <2>4 DEF IInv, Ring, Word
  <2> HIDE DEF e, j, old
  <2>6. new \in Word /\ new.epoch = e
    BY <2>1, <2>2, <2>5 DEF Bumped, Word
  <2>7. old.epoch <= e
    <3>1. ASSUME e < old.epoch, old.epoch % Slots = j PROVE FALSE
      <4>1. e + Slots <= old.epoch
        BY <2>2, <2>4, <2>5, <3>1, SameSlot
      <4> QED BY <2>2, <2>3, <2>5, <4>1
    <3> QED BY <2>2, <2>5, <3>1
  <2> HIDE DEF new
  <2>8. /\ slot' \in [Series -> [SlotNo -> Word]]
        /\ slot'[o][j] = new
        /\ \A p \in Series, q \in SlotNo : p # o \/ q # j => slot'[p][q] = slot[p][q]
    BY <1>0, <2>1, <2>4, <2>6
  <2>9. /\ log' \in [Series -> LogState]
        /\ \A p \in Series, s \in Seconds : log[p][s] > 0 => log'[p][s] > 0
        /\ \A p \in Series, s \in Seconds :
              log'[p][s] > 0 => log[p][s] > 0 \/ (p = o /\ s = t)
    <3> DEFINE l == log[o][t] + 1
    <3>1. log' = [log EXCEPT ![o][t] = l] /\ l \in Nat /\ l > 0
      BY <1>0, <2>1, <2>3 DEF LogState
    <3> HIDE DEF l, o, t
    <3> QED BY <1>0, <2>3, <3>1 DEF LogState
  <2>10. UNCHANGED <<now, calls, series, made, call, gc, evicted>>
    BY <1>0 DEF gcVars
  <2>11. Shape'
    BY <2>1, <2>8, <2>9, <2>10 DEF IInv, Shape, Steps
  <2>12. AllBusy'
    <3>1. ASSUME NEW v \in Workers PROVE Busy(pc[v], call[v])'
      <4>1. CASE v = w
        <5>1. pc'[v] = "sum"
          BY <2>1, <4>1 DEF IInv, Shape
        <5> QED BY <1>0, <2>10, <4>1, <5>1 DEF Busy
      <4>2. CASE v # w
        BY <2>1, <2>10, <4>2 DEF IInv, Shape, AllBusy, Busy
      <4> QED BY <4>1, <4>2
    <3> QED BY <3>1 DEF AllBusy
  <2>13. Created'
    <3>1. Creating' = Creating
      BY <1>0, <2>1 DEF IInv, Shape, Creating
    <3> QED BY <2>10, <3>1 DEF IInv, Created
  <2>14. Live'
    <3>1. o <= made
      BY <1>0
    <3> QED BY <2>9, <2>10, <3>1 DEF IInv, Live
  <2>15. Ring'
    <3>1. ASSUME NEW p \in Series, NEW q \in SlotNo
          PROVE  /\ slot'[p][q].epoch <= Epoch(now)
                 /\ slot'[p][q].epoch = 0 \/ slot'[p][q].epoch % Slots = q
      <4>1. CASE p = o /\ q = j
        BY <2>2, <2>4, <2>6, <2>8, <4>1
      <4>2. CASE p # o \/ q # j
        BY <2>8, <4>2 DEF IInv, Ring
      <4> QED BY <4>1, <4>2
    <3>2. ASSUME NEW p \in Series, NEW s \in Seconds, log'[p][s] > 0
          PROVE  Epoch(s) <= slot'[p][Epoch(s) % Slots].epoch
      <4>1. Epoch(s) \in Nat /\ Epoch(s) % Slots \in SlotNo
        <5>1. Epoch(s) \in Nat
          BY ConstantFacts, EpochFacts
        <5> DEFINE x == Epoch(s)
        <5> HIDE DEF x
        <5>2. x \in Nat
          BY <5>1 DEF x
        <5>3. x % Slots \in 0..(Slots - 1)
          BY <2>3, <5>2, DivFacts
        <5> QED BY <5>1, <5>3 DEF SlotNo, x
      <4>2. log[p][s] > 0 => Epoch(s) <= slot[p][Epoch(s) % Slots].epoch
        BY DEF IInv, Ring
      <4>3. CASE p = o /\ Epoch(s) % Slots = j
        <5>1. CASE s = t
          BY <2>2, <2>6, <2>8, <4>3, <5>1 DEF e
        <5>2. CASE log[p][s] > 0
          <6>1. Epoch(s) <= old.epoch
            BY <4>2, <4>3, <5>2 DEF old
          <6> QED BY <2>2, <2>5, <2>6, <2>7, <2>8, <4>1, <4>3, <6>1
        <5> QED BY <2>9, <3>2, <5>1, <5>2
      <4>4. CASE ~(p = o /\ Epoch(s) % Slots = j)
        <5>1. slot'[p][Epoch(s) % Slots] = slot[p][Epoch(s) % Slots]
          BY <2>8, <4>1, <4>4
        <5>2. log[p][s] > 0
          BY <2>4, <2>9, <3>2, <4>4 DEF e
        <5> QED BY <4>2, <5>1, <5>2
      <4> QED BY <4>3, <4>4
    <3> QED BY <2>10, <3>1, <3>2 DEF Ring, Epoch
  <2>16. Visit(gc)'
    <3>1. gc.pc \in {"scan", "delete"} => gc.visit.obj \in Series
      BY MadeFacts DEF IInv, Visit
    <3> QED BY <2>9, <2>10, <3>1 DEF IInv, Visit, Epoch
  <2> QED BY <2>11, <2>12, <2>13, <2>14, <2>15, <2>16 DEF IInv
<1> QED BY <1>1, <1>2

\* A step of gc that leaves the map alone.
LEMMA GcStep ==
    ASSUME IInv, NEW g \in GcState, gc' = g, Visit(g),
           UNCHANGED <<now, calls, series, made, slot, pc, call, log, evicted>>
    PROVE  IInv'
<1>1. Shape' /\ AllBusy'
  BY DEF IInv, Shape, AllBusy, Busy
<1>2. Created'
  <2>1. Creating' = Creating
    BY DEF Creating
  <2> QED BY <2>1 DEF IInv, Created
<1>3. Live' /\ Ring' /\ Visit(gc)'
  BY DEF IInv, Live, Ring, Visit, Epoch
<1> QED BY <1>1, <1>2, <1>3 DEF IInv

\* A bucket's slot is one of the ring.
LEMMA SlotFacts == \A s \in Nat : Epoch(s) \in Nat /\ Epoch(s) % Slots \in SlotNo
<1> SUFFICES ASSUME NEW s \in Nat PROVE Epoch(s) \in Nat /\ Epoch(s) % Slots \in SlotNo
  OBVIOUS
<1> DEFINE x == Epoch(s)
<1>1. x \in Nat
  BY EpochFacts
<1> HIDE DEF x
<1>2. x \in Int /\ Slots \in Nat \ {0}
  BY <1>1, BucketAssumption
<1>3. x % Slots \in 0..(Slots - 1)
  BY <1>2, DivFacts
<1> QED BY <1>1, <1>3 DEF x, SlotNo

\* gc starts, comes to a key, scans a slot and ends.
LEMMA GcSteps ==
    ASSUME IInv, GcStart \/ (\E k \in Keys : GcPick(k)) \/ GcScan \/ GcEnd
    PROVE  IInv'
<1>0. /\ gc \in GcState /\ Visit(gc) /\ series \in [Keys -> 0..made]
      /\ log \in [Series -> LogState] /\ slot \in [Series -> [SlotNo -> Word]]
      /\ now \in Nat /\ now >= Start /\ 1..made \subseteq Series /\ made \in Nat
      /\ Slots \in Nat \ {0} /\ Bucket \in Nat \ {0}
  <2>1. now \in Nat /\ now >= Start /\ Slots \in Nat \ {0} /\ Bucket \in Nat \ {0}
    BY ConstantFacts DEF IInv, Shape, Seconds
  <2> QED BY <2>1, MadeFacts DEF IInv, Shape
<1>1. CASE GcStart
  <2> DEFINE cut == Epoch(now - MaxWindow)
             g == [GcOff EXCEPT !.pc = "pick", !.keys = Keys, !.cut = cut]
  <2>1. gc' = g /\ UNCHANGED <<now, calls, series, made, slot, pc, call, log, evicted>>
    BY <1>1 DEF GcStart
  <2>2. cut \in Int /\ cut * Bucket <= now - MaxWindow
    <3>1. now - MaxWindow \in Int
      BY <1>0, ConstantFacts
    <3> QED BY <1>0, <3>1, DivFacts DEF Epoch
  <2> HIDE DEF cut
  <2>3. g \in GcState /\ g.pc = "pick" /\ g.cut = cut
    BY <2>2, ConstantFacts DEF GcState
  <2> HIDE DEF g
  <2>4. Visit(g)
    BY <2>2, <2>3 DEF Visit
  <2> QED BY <2>1, <2>3, <2>4, GcStep
<1>2. ASSUME NEW k \in Keys, GcPick(k) PROVE IInv'
  <2> DEFINE K == gc.keys \ {k}
  <2>1. /\ gc.pc = "pick"
        /\ UNCHANGED <<now, calls, series, made, slot, pc, call, log, evicted>>
    BY <1>2 DEF GcPick
  <2>2. K \in SUBSET Keys /\ gc.cut \in Int /\ gc.cut * Bucket <= now - MaxWindow
    BY <1>0, <2>1 DEF GcState, Visit
  <2>3. CASE series[k] = 0
    <3> DEFINE g == [gc EXCEPT !.keys = K]
    <3>1. gc' = g
      BY <1>2, <2>3 DEF GcPick
    <3> HIDE DEF K
    <3>2. g \in GcState /\ g.pc = "pick" /\ g.cut = gc.cut
      BY <1>0, <2>1, <2>2 DEF GcState
    <3> HIDE DEF g
    <3>3. Visit(g)
      BY <2>2, <3>2 DEF Visit
    <3> QED BY <2>1, <3>1, <3>2, <3>3, GcStep
  <2>4. CASE series[k] # 0
    <3> DEFINE v == [key |-> k, obj |-> series[k], i |-> 0, seen |-> log[series[k]]]
               g == [gc EXCEPT !.pc = "scan", !.keys = K, !.visit = v]
    <3>1. gc' = g
      BY <1>2, <2>4 DEF GcPick
    <3>2. series[k] \in 1..made /\ series[k] \in Series /\ series[k] \in Nat
      BY <1>0, <2>4
    <3>3. /\ v \in VisitState /\ v.key = k /\ v.obj = series[k] /\ v.i = 0
          /\ v.seen = log[series[k]]
      BY <1>0, <3>2 DEF VisitState
    <3> HIDE DEF v, K
    <3>4. g \in GcState /\ g.pc = "scan" /\ g.cut = gc.cut /\ g.visit = v
      BY <1>0, <2>2, <3>3 DEF GcState
    <3> HIDE DEF g
    <3>5. \A s \in Seconds : ~(Epoch(s) % Slots < 0)
      BY <1>0, SlotFacts, ConstantFacts DEF SlotNo
    <3>6. Visit(g)
      BY <1>0, <2>2, <3>2, <3>3, <3>4, <3>5 DEF Visit
    <3> QED BY <2>1, <3>1, <3>4, <3>6, GcStep
  <2> QED BY <2>3, <2>4
<1>3. CASE GcScan
  <2> DEFINE o == gc.visit.obj
             i == gc.visit.i
             e == slot[o][i].epoch
  <2>1. /\ gc.pc = "scan"
        /\ UNCHANGED <<now, calls, series, made, slot, pc, call, log, evicted>>
    BY <1>3 DEF GcScan
  <2>2. /\ gc.cut \in Int /\ gc.cut * Bucket <= now - MaxWindow
        /\ gc.visit \in VisitState /\ i \in Nat /\ i < Slots /\ i \in SlotNo
        /\ o \in 1..made /\ o \in Series /\ series[gc.visit.key] = o
        /\ \A s \in Seconds : gc.visit.seen[s] > 0 =>
              log[o][s] > 0 /\ (Epoch(s) % Slots < i => Epoch(s) < gc.cut)
    BY <1>0, <2>1 DEF GcState, VisitState, Visit, SlotNo
  <2>3. e \in Nat
    BY <1>0, <2>2 DEF Word
  <2>4. CASE Young(slot[o][i], gc.cut)
    <3> DEFINE g == [gc EXCEPT !.pc = "pick", !.visit = NoVisit]
    <3>1. gc' = g
      BY <1>3, <2>4 DEF GcScan
    <3>2. g \in GcState /\ g.pc = "pick" /\ g.cut = gc.cut
      BY <1>0, ConstantFacts DEF GcState
    <3> HIDE DEF g
    <3>3. Visit(g)
      BY <2>2, <3>2 DEF Visit
    <3> QED BY <2>1, <3>1, <3>2, <3>3, GcStep
  <2>5. CASE ~Young(slot[o][i], gc.cut)
    <3> DEFINE n == i + 1
               p == IF i = Slots - 1 THEN "delete" ELSE "scan"
               v == [gc.visit EXCEPT !.i = n]
               g == [gc EXCEPT !.visit = v, !.pc = p]
    <3>1. gc' = g
      BY <1>3, <2>5 DEF GcScan
    <3>2. n \in Nat /\ e < gc.cut
      BY <2>2, <2>3, <2>5 DEF Young
    <3>3. /\ p \in {"delete", "scan"}
          /\ p = "delete" => n = Slots
          /\ p = "scan" => n < Slots
      BY <1>0, <2>2
    <3>4. ASSUME NEW s \in Seconds, gc.visit.seen[s] > 0, Epoch(s) % Slots < n
          PROVE  Epoch(s) < gc.cut
      <4>1. Epoch(s) \in Nat /\ Epoch(s) % Slots \in Nat
        BY <1>0, SlotFacts, ConstantFacts DEF SlotNo
      <4>2. CASE Epoch(s) % Slots = i
        <5>1. Epoch(s) <= e
          BY <2>2, <3>4, <4>2 DEF IInv, Ring
        <5> HIDE DEF e
        <5> QED BY <2>2, <2>3, <3>2, <4>1, <5>1
      <4>3. CASE Epoch(s) % Slots < i
        BY <2>2, <3>4, <4>3
      <4> QED BY <2>2, <3>4, <4>1, <4>2, <4>3
    <3>5. gc.pc = "scan" => gc.visit.key \in Keys
      BY <2>2 DEF VisitState
    <3> HIDE DEF n, p
    <3>6. /\ v \in VisitState /\ v.key = gc.visit.key /\ v.obj = o /\ v.i = n
          /\ v.seen = gc.visit.seen
      BY <2>2, <3>2 DEF VisitState
    <3> HIDE DEF v
    <3>7. g \in GcState /\ g.pc = p /\ g.cut = gc.cut /\ g.visit = v
      BY <1>0, <3>3, <3>6 DEF GcState
    <3> HIDE DEF g
    <3>8. Visit(g)
      BY <2>2, <3>3, <3>4, <3>6, <3>7 DEF Visit
    <3> QED BY <2>1, <3>1, <3>7, <3>8, GcStep
  <2> QED BY <2>4, <2>5
<1>4. CASE GcEnd
  <2>1. gc' = GcOff /\ UNCHANGED <<now, calls, series, made, slot, pc, call, log, evicted>>
    BY <1>4 DEF GcEnd
  <2>2. Visit(GcOff)
    BY ConstantFacts DEF Visit
  <2> QED BY <2>1, <2>2, ConstantFacts, GcStep
<1> QED BY <1>1, <1>2, <1>3, <1>4

\* gc deletes the series it has scanned, which is still the key's.
LEMMA DeleteStep == ASSUME IInv, GcDelete PROVE IInv'
<1> DEFINE k == gc.visit.key
           o == gc.visit.obj
           g == [gc EXCEPT !.pc = "pick", !.visit = NoVisit]
<1>1. /\ gc.pc = "delete" /\ gc' = g
      /\ series' = [series EXCEPT ![k] = 0] /\ evicted' = evicted \cup {o}
      /\ UNCHANGED <<now, calls, made, slot, pc, call, log>>
  BY DEF GcDelete
<1>2. k \in Keys /\ o \in 1..made /\ o \in Series /\ series[k] = o /\ made \in Nat
  BY <1>1, MadeFacts DEF IInv, Shape, GcState, VisitState, Visit
<1>3. g \in GcState /\ g.pc = "pick" /\ g.cut = gc.cut
  BY ConstantFacts DEF IInv, Shape, GcState
<1> HIDE DEF g
<1>4. Shape'
  BY <1>1, <1>2, <1>3 DEF IInv, Shape
<1>5. AllBusy'
  BY <1>1 DEF IInv, AllBusy, Busy
<1>6. Created'
  <2>1. Creating' = Creating
    BY <1>1 DEF Creating
  <2> QED BY <1>1, <2>1 DEF IInv, Created
<1>7. Live'
  <2>1. ASSUME NEW p \in 1..made PROVE (\E q \in Keys : series'[q] = p) \/ p \in evicted'
    <3>1. (\E q \in Keys : series[q] = p) \/ p \in evicted
      BY DEF IInv, Live
    <3> QED BY <1>1, <1>2, <3>1 DEF IInv, Shape
  <2> QED BY <1>1, <2>1 DEF IInv, Live
<1>8. Ring'
  BY <1>1 DEF IInv, Ring, Epoch
<1>9. Visit(gc)'
  BY <1>1, <1>3 DEF IInv, Visit
<1> QED BY <1>4, <1>5, <1>6, <1>7, <1>8, <1>9 DEF IInv

\* A second passes.
LEMMA TickStep == ASSUME IInv, Tick PROVE IInv'
<1>1. /\ now < MaxNow /\ now' = now + 1
      /\ \A w \in Workers : pc[w] # "idle" => now + 1 - call[w].t <= MaxLag
      /\ UNCHANGED <<calls, series, made, slot, pc, call, gc, evicted, log>>
  BY DEF Tick, gcVars
<1>2. now \in Nat /\ Start \in Nat /\ MaxNow \in Nat /\ now \in Start..MaxNow
  BY ConstantFacts DEF IInv, Shape, Seconds
<1>3. now' \in Seconds /\ now' \in Nat /\ now <= now'
  BY <1>1, <1>2 DEF Seconds
<1>4. Shape'
  BY <1>1, <1>3 DEF IInv, Shape
<1>5. AllBusy'
  <2>1. ASSUME NEW w \in Workers PROVE Busy(pc[w], call[w])'
    <3>1. Busy(pc[w], call[w]) /\ call[w].t \in Nat
      BY DEF IInv, AllBusy, Shape, CallState
    <3>2. pc[w] # "idle" => call[w].t \in Start..(now + 1)
      BY <1>2, <3>1 DEF Busy
    <3>3. pc[w] # "idle" => now' - call[w].t <= MaxLag /\ call[w].t \in Start..now'
      <4> SUFFICES ASSUME pc[w] # "idle"
                   PROVE  now' - call[w].t <= MaxLag /\ call[w].t \in Start..now'
        OBVIOUS
      <4>1. now' = now + 1 /\ now + 1 - call[w].t <= MaxLag
        BY <1>1
      <4>2. call[w].t \in Start..(now + 1)
        BY <3>2
      <4>3. call[w].t \in Nat /\ now \in Nat
        BY <1>2, <3>1
      <4> QED BY <4>1, <4>2, <4>3
    <3>4. pc'[w] = pc[w] /\ call'[w] = call[w] /\ made' = made
      BY <1>1
    <3> QED BY <3>1, <3>3, <3>4 DEF Busy
  <2> QED BY <2>1 DEF AllBusy
<1>6. Created'
  <2>1. Creating' = Creating
    BY <1>1 DEF Creating
  <2> QED BY <1>1, <2>1 DEF IInv, Created
<1>7. Live'
  BY <1>1 DEF IInv, Live
<1>8. Ring'
  <2>1. Epoch(now) \in Nat /\ Epoch(now') \in Nat /\ Epoch(now) <= Epoch(now')
    BY <1>2, <1>3, EpochFacts
  <2>2. ASSUME NEW o \in Series, NEW j \in SlotNo PROVE slot[o][j].epoch <= Epoch(now')
    <3>1. slot[o][j].epoch \in Nat /\ slot[o][j].epoch <= Epoch(now)
      BY DEF IInv, Shape, Ring, Word
    <3> QED BY <2>1, <3>1
  <2>3. /\ \A o \in Series, j \in SlotNo : slot[o][j].epoch = 0 \/ slot[o][j].epoch % Slots = j
        /\ \A o \in Series, s \in Seconds : log[o][s] > 0 =>
              Epoch(s) <= slot[o][Epoch(s) % Slots].epoch
    BY DEF IInv, Ring
  <2> QED BY <1>1, <2>2, <2>3 DEF Ring, Epoch
<1>9. Visit(gc)'
  <2>1. gc.pc # "off" => gc.cut * Bucket <= now' - MaxWindow
    <3>1. gc.pc # "off" => gc.cut * Bucket <= now - MaxWindow
      BY DEF IInv, Visit
    <3>2. gc.cut * Bucket \in Int /\ MaxWindow \in Nat
      BY ConstantFacts DEF IInv, Shape, GcState
    <3> QED BY <1>1, <1>2, <3>1, <3>2
  <2> QED BY <1>1, <2>1 DEF IInv, Visit, Epoch
<1> QED BY <1>4, <1>5, <1>6, <1>7, <1>8, <1>9 DEF IInv

-----------------------------------------------------------------------------
(* What a sum returns: the steps.                                          *)

\* The types the counting lemmas need.
LEMMA LogFacts ==
    ASSUME IInv
    PROVE  /\ log \in [Series -> LogState] /\ slot \in [Series -> [SlotNo -> Word]]
           /\ \A o \in Series : log[o] \in LogState
           /\ \A o \in Series, j \in SlotNo :
                 slot[o][j] \in Word /\ slot[o][j].epoch \in Nat /\ slot[o][j].count \in Nat
           /\ \A w \in Workers : call[w].base \in LogState
BY DEF IInv, Shape, Word, CallState

\* A worker goes on in its call: only its own sum moves.
LEMMA SumStep ==
    ASSUME SInv, NEW w \in Workers, NEW p \in Steps, NEW c \in CallState,
           pc' = [pc EXCEPT ![w] = p], call' = [call EXCEPT ![w] = c],
           UNCHANGED <<now, calls, slot, log>>, made' \in Nat, made <= made',
           Partial(p, c),
           p \in {"lookup", "create", "load", "cas"} => w \in Uncounted
    PROVE  Bounded' /\ Exact' /\ AllPartial'
<1>0. made \in Nat /\ IInv
  BY DEF SInv, IInv, Shape
<1>1. Bounded'
  <2>1. Uncounted' \subseteq Uncounted
    BY <1>0 DEF IInv, Shape, Uncounted
  <2>2. /\ IsFiniteSet(Uncounted') /\ Cardinality(Uncounted') <= Cardinality(Uncounted)
        /\ Cardinality(Uncounted) \in Nat /\ Cardinality(Uncounted') \in Nat
    BY <2>1, FS_Subset, FS_CardinalityType DEF SInv, Bounded
  <2>3. ASSUME NEW o \in Series, NEW s \in Seconds
        PROVE  log[o][s] + Cardinality(Uncounted') <= calls
    <3>1. log[o][s] + Cardinality(Uncounted) <= calls /\ log[o][s] \in Nat /\ calls \in Nat
      BY <1>0, LogFacts DEF SInv, Bounded, IInv, Shape, LogState
    <3> QED BY <2>2, <3>1
  <2>4. ASSUME NEW o \in Series, NEW j \in SlotNo
        PROVE  slot[o][j].count + Cardinality(Uncounted') <= calls
    <3>1. /\ slot[o][j].count + Cardinality(Uncounted) <= calls
          /\ slot[o][j].count \in Nat /\ calls \in Nat
      BY <1>0, LogFacts DEF SInv, Bounded, IInv, Shape
    <3> QED BY <2>2, <3>1
  <2> QED BY <2>2, <2>3, <2>4 DEF Bounded
<1>2. Exact'
  BY DEF SInv, Exact, Count, Incs, BucketOf, Epoch
<1>3. ASSUME NEW v \in Workers PROVE Partial(pc[v], call[v])'
  <2>1. 1..made \subseteq 1..made'
    BY <1>0
  <2> DEFINE q == pc'[v]
             d == call'[v]
  <2>2. Partial(q, d)
    <3>1. CASE v = w
      <4>1. q = p /\ d = c
        BY <1>0, <3>1 DEF IInv, Shape
      <4> QED BY <4>1
    <3>2. CASE v # w
      <4>1. q = pc[v] /\ d = call[v]
        BY <1>0, <3>2 DEF IInv, Shape
      <4> QED BY <4>1 DEF SInv, AllPartial
    <3> QED BY <3>1, <3>2
  <2> QED BY <2>1, <2>2 DEF Partial, Count, Incs, From, Inside, Epoch
<1> QED BY <1>1, <1>2, <1>3 DEF AllPartial

\* What no worker does leaves every sum alone.
LEMMA OtherStep ==
    ASSUME SInv, UNCHANGED <<now, calls, made, slot, pc, call, log>>
    PROVE  Bounded' /\ Exact' /\ AllPartial'
<1>1. Bounded'
  <2>1. Uncounted' = Uncounted
    BY DEF Uncounted
  <2> QED BY <2>1 DEF SInv, Bounded
<1>2. Exact'
  BY DEF SInv, Exact, Count, Incs, BucketOf, Epoch
<1>3. ASSUME NEW w \in Workers PROVE Partial(pc[w], call[w])'
  <2>1. Partial(pc[w], call[w])
    BY DEF SInv, AllPartial
  <2> QED BY <2>1 DEF Partial, Count, Incs, From, Inside, Epoch
<1> QED BY <1>1, <1>2, <1>3 DEF AllPartial

\* A call begins: one more call, and one more that has not counted.
LEMMA CallSum ==
    ASSUME SInv, NEW w \in Workers, NEW k \in Keys, NEW win \in Windows, Call(w, k, win)
    PROVE  Bounded' /\ Exact' /\ AllPartial'
<1> DEFINE c == [NoCall EXCEPT !.key = k, !.win = win, !.t = now]
<1>1. /\ pc[w] = "idle" /\ pc' = [pc EXCEPT ![w] = "lookup"]
      /\ call' = [call EXCEPT ![w] = c] /\ calls' = calls + 1
      /\ UNCHANGED <<now, made, slot, log>>
  BY DEF Call
<1>2. c.win = win /\ c.total = 0
  BY DEF NoCall
<1> HIDE DEF c
<1>3. Bounded'
  <2>1. Uncounted' = Uncounted \cup {w} /\ w \notin Uncounted
    BY <1>1 DEF SInv, IInv, Shape, Uncounted
  <2>2. IsFiniteSet(Uncounted) /\ Cardinality(Uncounted) \in Nat
    BY FS_CardinalityType DEF SInv, Bounded
  <2>3. IsFiniteSet(Uncounted') /\ Cardinality(Uncounted') = Cardinality(Uncounted) + 1
    BY <2>1, <2>2, FS_AddElement
  <2>4. ASSUME NEW o \in Series, NEW s \in Seconds
        PROVE  log[o][s] + Cardinality(Uncounted') <= calls'
    <3>1. log[o][s] + Cardinality(Uncounted) <= calls /\ log[o][s] \in Nat /\ calls \in Nat
      BY LogFacts DEF SInv, Bounded, IInv, Shape, LogState
    <3> QED BY <1>1, <2>2, <2>3, <3>1
  <2>5. ASSUME NEW o \in Series, NEW j \in SlotNo
        PROVE  slot[o][j].count + Cardinality(Uncounted') <= calls'
    <3>1. /\ slot[o][j].count + Cardinality(Uncounted) <= calls
          /\ slot[o][j].count \in Nat /\ calls \in Nat
      BY LogFacts DEF SInv, Bounded, IInv, Shape
    <3> QED BY <1>1, <2>2, <2>3, <3>1
  <2> QED BY <1>1, <2>3, <2>4, <2>5 DEF Bounded
<1>4. Exact'
  BY <1>1 DEF SInv, Exact, Count, Incs, BucketOf, Epoch
<1>5. ASSUME NEW v \in Workers PROVE Partial(pc[v], call[v])'
  <2> DEFINE q == pc'[v]
             d == call'[v]
  <2>1. Partial(q, d)
    <3>1. CASE v = w
      <4>1. q = "lookup" /\ d = c
        BY <1>1, <3>1 DEF SInv, IInv, Shape
      <4> QED BY <1>2, <4>1 DEF Partial
    <3>2. CASE v # w
      <4>1. q = pc[v] /\ d = call[v]
        BY <1>1, <3>2 DEF SInv, IInv, Shape
      <4> QED BY <4>1 DEF SInv, AllPartial
    <3> QED BY <3>1, <3>2
  <2> QED BY <1>1, <2>1 DEF Partial, Count, Incs, From, Inside, Epoch
<1> QED BY <1>3, <1>4, <1>5 DEF AllPartial

\* A second passes: a sum has to cover fewer seconds.
LEMMA TickSum == ASSUME SInv, Tick PROVE Bounded' /\ Exact' /\ AllPartial'
<1>1. now' = now + 1 /\ UNCHANGED <<calls, made, slot, pc, call, log>>
  BY DEF Tick
<1>2. Bounded'
  <2>1. Uncounted' = Uncounted
    BY <1>1 DEF Uncounted
  <2> QED BY <1>1, <2>1 DEF SInv, Bounded
<1>3. Exact'
  BY <1>1 DEF SInv, Exact, Count, Incs, BucketOf, Epoch
<1>4. ASSUME NEW w \in Workers PROVE Partial(pc[w], call[w])'
  <2> DEFINE c == call[w]
             p == pc[w]
             i == c.i
             n == now + 1
  <2>1. /\ c \in CallState /\ c.base \in LogState /\ c.ws \in Int /\ c.win \in Nat
        /\ i \in Nat /\ c.total \in Nat
        /\ now \in Nat /\ n \in Nat /\ Bucket \in Nat /\ Partial(p, c)
    BY CallFacts, ConstantFacts DEF SInv, AllPartial, CallState
  <2>2. ASSUME p \in {"read", "done"}, c.obj # 0
        PROVE  c.ws + c.win <= n /\ c.total >= Count(c.base, Inside(n, c.win, i))
    <3>1. c.ws + c.win <= now /\ c.total >= Count(c.base, Inside(now, c.win, i))
      BY <2>1, <2>2 DEF Partial
    <3>2. Count(c.base, Inside(n, c.win, i)) <= Count(c.base, Inside(now, c.win, i))
      <4> DEFINE b == c.base
      <4>0. b \in LogState
        BY <2>1
      <4>1. ASSUME NEW s \in Inside(n, c.win, i) \cap Seconds
            PROVE  s \in Inside(now, c.win, i) /\ b[s] <= b[s]
        <5>1. s \in Nat /\ s + c.win >= n + Bucket /\ b[s] \in Nat
          BY <4>0, ConstantFacts DEF Inside, LogState
        <5>2. s + c.win >= now + Bucket
          BY <2>1, <5>1
        <5> QED BY <5>1, <5>2 DEF Inside
      <4> HIDE DEF b, c, i, n
      <4>2. Count(b, Inside(n, c.win, i)) <= Count(b, Inside(now, c.win, i))
        BY <4>0, <4>1, CountMono
      <4> QED BY <4>2 DEF b
    <3>3. /\ Count(c.base, Inside(n, c.win, i)) \in Nat
          /\ Count(c.base, Inside(now, c.win, i)) \in Nat
      BY CountType
    <3>4. c.ws + c.win <= n
      BY <2>1, <3>1
    <3>5. c.total >= Count(c.base, Inside(n, c.win, i))
      <4> HIDE DEF c, i, n
      <4> QED BY <2>1, <3>1, <3>2, <3>3
    <3> QED BY <3>4, <3>5
  <2>3. pc'[w] = p /\ call'[w] = c /\ now' = n
    BY <1>1
  <2> QED BY <1>1, <2>1, <2>2, <2>3 DEF Partial, Count, Incs, From, Inside, Epoch
<1> QED BY <1>2, <1>3, <1>4 DEF AllPartial

\* Looking the series up, making it, loading a slot and returning: nothing is summed.
LEMMA LocalSums ==
    ASSUME SInv, IInv', NEW w \in Workers,
           Lookup(w) \/ Create(w) \/ LoadSlot(w) \/ Return(w)
    PROVE  Bounded' /\ Exact' /\ AllPartial'
<1>0. /\ IInv /\ pc \in [Workers -> Steps] /\ call \in [Workers -> CallState]
      /\ call' \in [Workers -> CallState] /\ made \in Nat /\ made' \in Nat
      /\ Partial(pc[w], call[w])
  BY DEF SInv, IInv, Shape, AllPartial
<1>1. ASSUME NEW p \in {"create", "load", "cas"}, NEW c \in CallState,
             pc[w] \in {"lookup", "create", "load"}, pc' = [pc EXCEPT ![w] = p],
             call' = [call EXCEPT ![w] = c], c.win = call[w].win, c.total = call[w].total,
             UNCHANGED <<now, calls, slot, log>>, made <= made'
      PROVE  Bounded' /\ Exact' /\ AllPartial'
  <2>1. Partial(p, c)
    BY <1>0, <1>1 DEF Partial
  <2>2. w \in Uncounted /\ p \in Steps
    BY <1>1 DEF Uncounted, Steps
  <2> QED BY <1>0, <1>1, <2>1, <2>2, SumStep DEF SInv
<1>2. CASE Lookup(w)
  <2> DEFINE o == series[call[w].key]
             c == call'[w]
  <2>1. /\ pc[w] = "lookup" /\ UNCHANGED <<now, calls, slot, log>> /\ made <= made'
        /\ c.win = call[w].win /\ c.total = call[w].total /\ c \in CallState
        /\ call' = [call EXCEPT ![w] = c]
    <3>1. call' = [call EXCEPT ![w].obj = o] \/ call' = call
      BY <1>2 DEF Lookup
    <3>2. c.win = call[w].win /\ c.total = call[w].total
      BY <1>0, <3>1 DEF CallState
    <3>3. call' = [call EXCEPT ![w] = c]
      BY <1>0, <3>1
    <3> QED BY <1>0, <1>2, <3>2, <3>3 DEF Lookup
  <2>2. \E p \in {"create", "load"} : pc' = [pc EXCEPT ![w] = p]
    BY <1>2 DEF Lookup
  <2> HIDE DEF c
  <2> QED BY <1>1, <2>1, <2>2
<1>3. CASE Create(w)
  <2> DEFINE c == call'[w]
  <2>1. /\ pc[w] = "create" /\ UNCHANGED <<now, calls, slot, log>>
        /\ pc' = [pc EXCEPT ![w] = "load"]
    BY <1>3 DEF Create
  <2>2. made <= made'
    BY <1>0, <1>3 DEF Create
  <2>3. /\ c.win = call[w].win /\ c.total = call[w].total /\ c \in CallState
        /\ call' = [call EXCEPT ![w] = c]
    <3>1. PICK o : call' = [call EXCEPT ![w].obj = o]
      BY <1>3 DEF Create
    <3>2. c.win = call[w].win /\ c.total = call[w].total
      BY <1>0, <3>1 DEF CallState
    <3> QED BY <1>0, <3>1, <3>2
  <2> HIDE DEF c
  <2> QED BY <1>1, <2>1, <2>2, <2>3
<1>4. CASE LoadSlot(w)
  <2> DEFINE c == call'[w]
  <2>1. /\ pc[w] = "load" /\ UNCHANGED <<now, calls, slot, log, made>>
        /\ pc' = [pc EXCEPT ![w] = "cas"]
    BY <1>4 DEF LoadSlot
  <2>2. /\ c.win = call[w].win /\ c.total = call[w].total /\ c \in CallState
        /\ call' = [call EXCEPT ![w] = c]
    <3>1. PICK v : call' = [call EXCEPT ![w].old = v]
      BY <1>4 DEF LoadSlot
    <3>2. c.win = call[w].win /\ c.total = call[w].total
      BY <1>0, <3>1 DEF CallState
    <3> QED BY <1>0, <3>1, <3>2
  <2>3. made <= made'
    BY <1>0, <2>1
  <2> HIDE DEF c
  <2> QED BY <1>1, <2>1, <2>2, <2>3
<1>5. CASE Return(w)
  <2>1. /\ pc' = [pc EXCEPT ![w] = "idle"] /\ call' = [call EXCEPT ![w] = NoCall]
        /\ UNCHANGED <<now, calls, slot, log, made>>
    BY <1>5 DEF Return
  <2>2. Partial("idle", NoCall)
    BY DEF Partial, NoCall
  <2>3. NoCall \in CallState /\ "idle" \in Steps
    BY ConstantFacts DEF Steps
  <2>4. made' \in Nat /\ made <= made'
    BY <1>0, <2>1
  <2> QED BY <2>1, <2>2, <2>3, <2>4, SumStep
<1> QED BY <1>2, <1>3, <1>4, <1>5

\* A sum starts with nothing read and nothing to cover.
LEMMA StartSum ==
    ASSUME SInv, NEW w \in Workers, SumStart(w)
    PROVE  Bounded' /\ Exact' /\ AllPartial'
<1> DEFINE o == series[call[w].key]
           ws == now - call[w].win
           base == IF o = 0 THEN NoLog ELSE log[o]
           p == IF o = 0 THEN "done" ELSE "read"
           c == [call[w] EXCEPT !.obj = o, !.ws = ws, !.base = base]
<1>1. /\ pc[w] = "sum" /\ pc' = [pc EXCEPT ![w] = p]
      /\ UNCHANGED <<now, calls, made, slot, log>>
      /\ call' = [call EXCEPT ![w] = c]
  BY DEF SumStart
<1>2. /\ call[w] \in CallState /\ o \in 0..made /\ made \in Nat /\ now \in Nat
      /\ call[w].win \in Nat /\ call[w].i = 0 /\ IInv
      /\ call[w].win \in Windows /\ call[w].total = 0
  BY <1>1, CallFacts DEF SInv, Busy, AllPartial, Partial
<1>3. log \in [Series -> LogState] /\ 1..made \subseteq Series
  BY <1>2, LogFacts, MadeFacts
<1>4. ws \in Int /\ ws + call[w].win = now /\ base \in LogState /\ o \in Nat
  BY <1>2, <1>3, ConstantFacts
<1>5. o # 0 => base = log[o] /\ o \in 1..made
  BY <1>2
<1>6. p = IF o = 0 THEN "done" ELSE "read"
  OBVIOUS
<1> HIDE DEF o, ws, base, p
<1>7. /\ c \in CallState /\ c.obj = o /\ c.ws = ws /\ c.base = base /\ c.i = 0
      /\ c.total = 0 /\ c.win = call[w].win
  BY <1>2, <1>4 DEF CallState
<1> HIDE DEF c
<1>8. Count(c.base, Inside(now, c.win, c.i)) = 0
  <2>1. ASSUME NEW s \in Inside(now, c.win, c.i) PROVE FALSE
    <3>1. s \in Nat /\ Epoch(s) % Slots < 0
      BY <1>7, ConstantFacts DEF Inside
    <3>2. Epoch(s) % Slots \in 0..(Slots - 1) /\ Slots \in Nat
      BY <3>1, SlotFacts, ConstantFacts DEF SlotNo
    <3> QED BY <3>1, <3>2
  <2> QED BY <1>4, <1>7, <2>1, CountNone
<1>9. Partial(p, c)
  <2>1. Count(log[c.obj], From(c.ws, c.i)) \in Nat
    BY CountType
  <2>2. c.obj # 0 => \A s \in Seconds : c.base[s] <= log[c.obj][s]
    <3> SUFFICES ASSUME c.obj # 0, NEW s \in Seconds PROVE c.base[s] <= log[c.obj][s]
      OBVIOUS
    <3>1. c.base = log[o] /\ c.base \in LogState
      BY <1>4, <1>5, <1>7
    <3>2. c.base[s] \in Nat
      BY <3>1 DEF LogState
    <3> QED BY <1>7, <3>1, <3>2
  <2>3. c.obj # 0 => c.total <= Count(log[c.obj], From(c.ws, c.i)) /\ c.obj \in 1..made /\ p # "done"
    BY <1>5, <1>6, <1>7, <2>1
  <2>4. c.ws + c.win <= now
    BY <1>2, <1>4, <1>7
  <2>5. c.total >= Count(c.base, Inside(now, c.win, c.i))
    BY <1>7, <1>8
  <2> QED BY <1>2, <1>6, <1>7, <2>2, <2>3, <2>4, <2>5 DEF Partial
<1>10. p \in Steps /\ p \notin {"lookup", "create", "load", "cas"}
  BY <1>6 DEF Steps
<1>11. made' \in Nat /\ made <= made'
  BY <1>1, <1>2
<1> QED BY <1>1, <1>7, <1>9, <1>10, <1>11, SumStep

\* What reading slot i adds: no more than the increments since ws of the seconds
\* whose slot it is, and all those that the sum must cover. A second that is a
\* bucket inside the window is too young for its slot to have come round again.
LEMMA SlotRead ==
    ASSUME SInv, NEW o \in Series, NEW i \in SlotNo, NEW base \in LogState,
           NEW win \in Windows, NEW ws \in Int, ws + win <= now,
           \A s \in Seconds : base[s] <= log[o][s],
           NEW add, add = IF InWindow(slot[o][i], ws) THEN slot[o][i].count ELSE 0
    PROVE  /\ add \in Nat
           /\ Count(log[o], From(ws, i)) + add <= Count(log[o], From(ws, i + 1))
           /\ Count(base, Inside(now, win, i + 1)) <= Count(base, Inside(now, win, i)) + add
<1> DEFINE l == log[o]
           v == slot[o][i]
           e == v.epoch
           X == BucketOf(e)
           A == From(ws, i)
           A1 == From(ws, i + 1)
           D == Inside(now, win, i)
           D1 == Inside(now, win, i + 1)
           N == {s \in Seconds : s + win >= now + Bucket /\ Epoch(s) % Slots = i}
<1>1. /\ l \in LogState /\ v \in Word /\ e \in Nat /\ v.count \in Nat
      /\ v.count = Count(l, X) /\ e <= Epoch(now)
      /\ (e = 0 \/ e % Slots = i)
      /\ \A s \in Seconds : l[s] > 0 /\ Epoch(s) % Slots = i => Epoch(s) <= e
  BY LogFacts DEF SInv, Exact, IInv, Ring
<1>2. /\ i \in Nat /\ Slots \in Nat \ {0} /\ Bucket \in Nat \ {0} /\ win \in Nat
      /\ now \in Nat /\ win <= MaxWindow /\ MaxWindow \in Nat /\ Start >= Bucket
      /\ Start \in Nat
  BY ConstantFacts, WindowsAssumption DEF SlotNo, SInv, IInv, Shape
<1>3. \A s \in Seconds :
        /\ s \in Nat /\ s >= Start /\ Epoch(s) \in Nat /\ Epoch(s) % Slots \in Nat
        /\ Epoch(s) * Bucket <= s /\ s < Epoch(s) * Bucket + Bucket
        /\ Epoch(s) * Bucket \in Int /\ Epoch(s) # 0
  <2> SUFFICES ASSUME NEW s \in Seconds
               PROVE  /\ s \in Nat /\ s >= Start /\ Epoch(s) \in Nat /\ Epoch(s) % Slots \in Nat
                      /\ Epoch(s) * Bucket <= s /\ s < Epoch(s) * Bucket + Bucket
                      /\ Epoch(s) * Bucket \in Int /\ Epoch(s) # 0
    OBVIOUS
  <2>1. s \in Nat /\ s >= Start
    BY ConstantFacts DEF Seconds
  <2>2. Epoch(s) \in Nat /\ Epoch(s) % Slots \in Nat
    BY <2>1, SlotFacts, <1>2 DEF SlotNo
  <2>3. Epoch(s) * Bucket <= s /\ s < Epoch(s) * Bucket + Bucket
    BY <1>2, <2>1, DivFacts DEF Epoch
  <2>4. Epoch(s) * Bucket \in Int
    BY <1>2, <2>2
  <2>5. ASSUME Epoch(s) = 0 PROVE FALSE
    <3>1. Epoch(s) * Bucket = 0
      BY <1>2, <2>5
    <3>2. s < Bucket
      BY <1>2, <2>1, <2>3, <3>1
    <3> QED BY <1>2, <2>1, <3>2
  <2> QED BY <2>1, <2>2, <2>3, <2>4, <2>5
<1>4. InWindow(v, ws) <=> e * Bucket >= ws
  BY DEF InWindow
<1>5. add = IF e * Bucket >= ws THEN v.count ELSE 0
  BY <1>4
<1>6. \A s \in Seconds : s \in X <=> Epoch(s) = e
  BY DEF BucketOf
<1>7. \A s \in Seconds : /\ s \in A <=> s >= ws /\ Epoch(s) % Slots < i
                         /\ s \in A1 <=> s >= ws /\ Epoch(s) % Slots < i + 1
                         /\ s \in D1 <=> s \in D \/ s \in N
                         /\ s \in D <=> s + win >= now + Bucket /\ Epoch(s) % Slots < i
                         /\ s \in N <=> s + win >= now + Bucket /\ Epoch(s) % Slots = i
  BY <1>2, <1>3 DEF From, Inside
<1>8. X \subseteq Seconds /\ A \subseteq Seconds /\ A1 \subseteq Seconds /\ D \subseteq Seconds
      /\ N \subseteq Seconds /\ D1 \subseteq Seconds
  BY DEF BucketOf, From, Inside
<1> HIDE DEF v, X, A, A1, D, D1, N
<1>9. Count(l, A) \in Nat /\ Count(l, A1) \in Nat /\ Count(l, X) \in Nat
      /\ Count(base, D) \in Nat /\ Count(base, D1) \in Nat /\ Count(base, N) \in Nat
      /\ add \in Nat
  BY <1>1, <1>5, CountType
<1>10. \A s \in Seconds : l[s] \in Nat /\ base[s] \in Nat /\ base[s] <= l[s]
  BY <1>1 DEF LogState
<1>11. Count(l, A) + add <= Count(l, A1)
  <2>1. CASE e * Bucket >= ws
    <3>1. ASSUME NEW s \in X PROVE s \notin A /\ s \in A1
      <4>1. s \in Seconds /\ Epoch(s) = e
        BY <1>6, <1>8, <3>1
      <4>2. e % Slots = i /\ s >= e * Bucket
        BY <1>1, <1>3, <4>1
      <4>3. s >= ws
        BY <1>3, <2>1, <4>1, <4>2
      <4> QED BY <1>2, <1>7, <4>1, <4>2, <4>3
    <3>2. A \cap X = {}
      BY <3>1
    <3>3. Count(l, A \cup X) = Count(l, A) + Count(l, X)
      BY <3>2, CountUnion
    <3>4. ASSUME NEW s \in (A \cup X) \cap Seconds PROVE s \in A1 /\ l[s] <= l[s]
      <4>1. s \in A => s \in A1
        BY <1>2, <1>3, <1>7
      <4> QED BY <1>10, <3>1, <4>1
    <3> HIDE DEF l
    <3>5. Count(l, A \cup X) <= Count(l, A1)
      BY <1>1, <3>4, CountMono
    <3>6. add = Count(l, X)
      BY <1>1, <1>5, <2>1
    <3> QED BY <1>9, <3>3, <3>5, <3>6
  <2>2. CASE ~(e * Bucket >= ws)
    <3>1. ASSUME NEW s \in A \cap Seconds PROVE s \in A1 /\ l[s] <= l[s]
      BY <1>2, <1>3, <1>7, <1>10
    <3> HIDE DEF l
    <3>2. Count(l, A) <= Count(l, A1)
      BY <1>1, <3>1, CountMono
    <3>3. add = 0
      BY <1>5, <2>2
    <3> QED BY <1>9, <3>2, <3>3
  <2> QED BY <2>1, <2>2
<1>12. ASSUME NEW s \in N, base[s] > 0 PROVE Epoch(s) = e /\ e * Bucket >= ws
  <2>0. e \in Nat /\ e <= Epoch(now)
    BY <1>1
  <2>1. s \in Seconds /\ s + win >= now + Bucket /\ Epoch(s) % Slots = i
    BY <1>7, <1>8, <1>12
  <2>2. l[s] > 0
    BY <1>10, <1>12, <2>1
  <2>3. Epoch(s) <= e /\ Epoch(s) \in Nat /\ Epoch(s) # 0 /\ s \in Nat
    BY <1>1, <1>3, <2>1, <2>2
  <2>4. e % Slots = i
    BY <1>1, <2>3
  <2>5. ASSUME Epoch(s) < e PROVE FALSE
    <3>1. Epoch(s) + Slots <= e
      BY <1>1, <2>1, <2>3, <2>4, <2>5, SameSlot
    <3>2. CASE s <= now
      <4>1. now - s + Bucket <= MaxWindow
        BY <1>2, <2>1, <2>3
      <4>2. Epoch(now) < Epoch(s) + Slots /\ Epoch(now) \in Nat
        BY <1>2, <2>3, <3>2, <4>1, EpochFacts
      <4> HIDE DEF e
      <4> QED BY <1>2, <2>0, <2>3, <3>1, <4>2
    <3>3. CASE now <= s
      <4>1. Epoch(now) <= Epoch(s) /\ Epoch(now) \in Nat
        BY <1>2, <2>3, <3>3, EpochFacts
      <4> HIDE DEF e
      <4> QED BY <2>0, <2>3, <2>5, <4>1
    <3> QED BY <1>2, <2>3, <3>2, <3>3
  <2>6. Epoch(s) = e
    BY <1>1, <2>3, <2>5
  <2>7. s < e * Bucket + Bucket /\ e * Bucket \in Int
    BY <1>3, <2>1, <2>6
  <2>8. e * Bucket >= ws
    BY <1>2, <2>1, <2>3, <2>7
  <2> QED BY <2>6, <2>8
<1>13. Count(base, N) <= add
  <2>1. CASE e * Bucket >= ws
    <3>1. ASSUME NEW s \in N \cap Seconds, base[s] > 0 PROVE s \in X /\ base[s] <= l[s]
      BY <1>6, <1>10, <1>12, <3>1
    <3> HIDE DEF l
    <3>2. Count(base, N) <= Count(l, X)
      BY <1>1, <3>1, CountMono
    <3>3. add = Count(l, X)
      BY <1>1, <1>5, <2>1
    <3> QED BY <3>2, <3>3
  <2>2. CASE ~(e * Bucket >= ws)
    <3>1. ASSUME NEW s \in N \cap Seconds PROVE base[s] = 0
      <4>1. base[s] \in Nat
        BY <1>10, <3>1
      <4> QED BY <1>12, <2>2, <3>1, <4>1
    <3>2. Count(base, N) = 0
      BY <3>1, CountNone
    <3> QED BY <1>5, <2>2, <3>2
  <2> QED BY <2>1, <2>2
<1>14. Count(base, D1) <= Count(base, D) + add
  <2>1. D1 = D \cup N
    BY <1>7, <1>8
  <2>2. D \cap N = {}
    <3>1. ASSUME NEW s \in D, s \in N PROVE FALSE
      <4>1. s \in Seconds
        BY <1>8
      <4>2. Epoch(s) % Slots < i /\ Epoch(s) % Slots = i
        BY <1>7, <3>1, <4>1
      <4> QED BY <1>2, <4>2
    <3> QED BY <3>1
  <2>3. Count(base, D1) = Count(base, D) + Count(base, N)
    BY <2>1, <2>2, CountUnion
  <2> QED BY <1>9, <1>13, <2>3
<1> QED BY <1>9, <1>11, <1>14 DEF l, A, A1, D, D1

\* Reading a slot keeps the sum right for the slots read so far.
LEMMA ReadSum ==
    ASSUME SInv, NEW w \in Workers, ReadSlot(w)
    PROVE  Bounded' /\ Exact' /\ AllPartial'
<1> DEFINE o == call[w].obj
           i == call[w].i
           ws == call[w].ws
           win == call[w].win
           base == call[w].base
           add == IF InWindow(slot[o][i], ws) THEN slot[o][i].count ELSE 0
           t == call[w].total + add
           j == i + 1
           p == IF i = Slots - 1 THEN "done" ELSE "read"
           c == [call[w] EXCEPT !.total = t, !.i = j]
<1>1. /\ pc[w] = "read" /\ pc' = [pc EXCEPT ![w] = p]
      /\ UNCHANGED <<now, calls, made, slot, log>>
      /\ call' = [call EXCEPT ![w] = c]
  BY DEF ReadSlot
<1>2. /\ call[w] \in CallState /\ o \in 1..made /\ i \in SlotNo /\ i \in Nat
      /\ Busy("read", call[w]) /\ Partial("read", call[w]) /\ made \in Nat /\ IInv
      /\ call[w].total \in Nat /\ win \in Nat /\ ws \in Int /\ base \in LogState
  BY <1>1, CallFacts DEF SInv, Busy, AllPartial, CallState
<1>3. o \in Series /\ o # 0
  BY <1>2, MadeFacts
<1>4. /\ win \in Windows /\ ws + win <= now
      /\ \A s \in Seconds : base[s] <= log[o][s]
      /\ call[w].total <= Count(log[o], From(ws, i))
      /\ call[w].total >= Count(base, Inside(now, win, i))
  BY <1>2, <1>3 DEF Partial
<1>5. add = IF InWindow(slot[o][i], ws) THEN slot[o][i].count ELSE 0
  OBVIOUS
<1> HIDE DEF add
<1>6. /\ add \in Nat
      /\ Count(log[o], From(ws, i)) + add <= Count(log[o], From(ws, i + 1))
      /\ Count(base, Inside(now, win, i + 1)) <= Count(base, Inside(now, win, i)) + add
  <2> HIDE DEF o, i, ws, win, base
  <2> QED BY <1>2, <1>3, <1>4, <1>5, SlotRead
<1>7. /\ t \in Nat /\ j \in Nat
      /\ t <= Count(log[o], From(ws, j)) /\ t >= Count(base, Inside(now, win, j))
  <2>1. /\ Count(log[o], From(ws, i)) \in Nat /\ Count(log[o], From(ws, i + 1)) \in Nat
        /\ Count(base, Inside(now, win, i)) \in Nat
        /\ Count(base, Inside(now, win, i + 1)) \in Nat
    BY CountType
  <2> HIDE DEF o, i, ws, win, base
  <2> QED BY <1>2, <1>4, <1>6, <2>1
<1>8. p \in {"done", "read"} /\ (p = "done" => j = Slots)
  BY <1>2, ConstantFacts
<1> HIDE DEF t, j, p
<1>9. /\ c \in CallState /\ c.obj = o /\ c.ws = ws /\ c.win = win /\ c.base = base
      /\ c.total = t /\ c.i = j
  BY <1>2, <1>7 DEF CallState
<1> HIDE DEF c, o, ws, win, base
<1>10. Partial(p, c)
  BY <1>2, <1>4, <1>7, <1>8, <1>9 DEF Partial
<1>11. p \in Steps /\ p \notin {"lookup", "create", "load", "cas"}
  BY <1>8 DEF Steps
<1>12. made' \in Nat /\ made <= made'
  BY <1>1, <1>2
<1> QED BY <1>1, <1>9, <1>10, <1>11, <1>12, SumStep

\* The compare-and-swap counts the call once, in the slot of its bucket: an older
\* bucket it resets held none of the new one's increments.
LEMMA CasSum ==
    ASSUME SInv, NEW w \in Workers, Cas(w)
    PROVE  Bounded' /\ Exact' /\ AllPartial'
<1> DEFINE o == call[w].obj
           t == call[w].t
           e == Epoch(t)
           j == MySlot(w)
           old == slot[o][j]
           new == Bumped(call[w].old, e)
           n == log[o][t] + 1
           K == Cardinality(Uncounted)
<1>0. /\ IInv /\ pc[w] = "cas" /\ call[w] \in CallState /\ call' = [call EXCEPT ![w] = call[w]]
      /\ o \in 1..made /\ o \in Series /\ t \in Start..now /\ t \in Nat /\ now \in Nat
      /\ made \in Nat /\ Partial("cas", call[w]) /\ w \in Uncounted
      /\ log \in [Series -> LogState] /\ slot \in [Series -> [SlotNo -> Word]]
      /\ pc \in [Workers -> Steps] /\ calls \in Nat /\ calls <= MaxCalls /\ MaxCalls \in Nat
      /\ UNCHANGED <<now, calls, made, call>>
  <2>1. pc[w] = "cas" /\ UNCHANGED <<now, calls, made, call>> /\ IInv
    BY DEF Cas, SInv
  <2>2. /\ call[w] \in CallState /\ o \in 1..made /\ t \in Start..now /\ t \in Nat
        /\ now \in Nat /\ made \in Nat
    BY <2>1, CallFacts DEF Busy
  <2>3. Partial("cas", call[w]) /\ w \in Uncounted
    BY <2>1 DEF SInv, AllPartial, Uncounted
  <2>4. /\ log \in [Series -> LogState] /\ slot \in [Series -> [SlotNo -> Word]]
        /\ pc \in [Workers -> Steps] /\ calls \in Nat /\ calls <= MaxCalls /\ MaxCalls \in Nat
        /\ call' = [call EXCEPT ![w] = call[w]]
    BY <2>1, ConstantFacts DEF IInv, Shape
  <2> QED BY <2>1, <2>2, <2>3, <2>4, MadeFacts
<1>1. CASE slot[o][j] # call[w].old
  <2>1. pc' = [pc EXCEPT ![w] = "load"] /\ UNCHANGED <<slot, log>>
    BY <1>1 DEF Cas
  <2>2. Partial("load", call[w]) /\ "load" \in Steps
    BY <1>0 DEF Partial, Steps
  <2>3. made' \in Nat /\ made <= made'
    BY <1>0
  <2> HIDE DEF o, t, e, j, old, new, n, K
  <2> QED BY <1>0, <2>1, <2>2, <2>3, SumStep
<1>2. CASE slot[o][j] = call[w].old
  <2>1. /\ slot' = [slot EXCEPT ![o][j] = new]
        /\ log' = [log EXCEPT ![o][t] = n]
        /\ pc' = [pc EXCEPT ![w] = "sum"]
        /\ new = Bumped(old, e)
    BY <1>0, <1>2 DEF Cas, LogState
  <2>2. e \in Nat /\ j \in SlotNo /\ j = e % Slots /\ t \in Seconds /\ e # 0
    <3>1. e \in Nat /\ e % Slots \in SlotNo
      BY <1>0, SlotFacts
    <3>2. t \in Seconds
      <4>1. now \in Start..MaxNow /\ Start \in Nat /\ MaxNow \in Nat
        BY <1>0, ConstantFacts DEF IInv, Shape, Seconds
      <4>2. t \in Start..MaxNow
        BY <1>0, <4>1
      <4> QED BY <4>2 DEF Seconds
    <3>3. ASSUME e = 0 PROVE FALSE
      <4>1. t < e * Bucket + Bucket /\ Bucket \in Nat \ {0}
        BY <1>0, ConstantFacts, DivFacts DEF Epoch
      <4>2. t < Bucket
        BY <3>3, <4>1
      <4>3. t >= Start /\ Start >= MaxWindow + Bucket /\ Start \in Nat /\ MaxWindow \in Nat
        BY <1>0, ConstantFacts
      <4> QED BY <1>0, <4>1, <4>2, <4>3
    <3> QED BY <3>1, <3>2, <3>3 DEF MySlot
  <2>3. /\ old \in Word /\ old.epoch \in Nat /\ old.count \in Nat
        /\ old.count = Count(log[o], BucketOf(old.epoch))
        /\ (old.epoch = 0 \/ old.epoch % Slots = j)
        /\ log[o][t] \in Nat /\ log[o] \in LogState /\ n \in Nat
    BY <1>0, <2>2, LogFacts DEF SInv, IInv, Ring, Exact, LogState
  <2>4. /\ K \in Nat /\ K >= 1 /\ IsFiniteSet(Uncounted)
        /\ \A p \in Series : /\ \A s \in Seconds : log[p][s] + K <= calls
                             /\ \A q \in SlotNo : slot[p][q].count + K <= calls
    <3>1. IsFiniteSet(Uncounted) /\ K \in Nat
      BY FS_CardinalityType DEF SInv, Bounded
    <3>2. K # 0
      BY <1>0, <3>1, FS_EmptySet
    <3> QED BY <3>1, <3>2 DEF SInv, Bounded
  <2>5. \A s \in Seconds : log[o][s] > 0 /\ Epoch(s) = e => e <= old.epoch
    BY <1>0, <2>2 DEF IInv, Ring
  <2>6. log[o][t] < MaxCalls
    <3>1. log[o][t] + K <= calls
      BY <1>0, <2>2, <2>4
    <3> HIDE DEF K, o, t
    <3> QED BY <1>0, <2>3, <2>4, <3>1
  <2> HIDE DEF K
  <2>7. Epoch(t) = e
    OBVIOUS
  <2> HIDE DEF e, j, old, n
  <2>8. old.epoch <= e
    <3>1. ASSUME old.epoch > e PROVE FALSE
      <4>1. e + Slots <= old.epoch
        <5>1. e < old.epoch /\ e % Slots = old.epoch % Slots
          BY <2>2, <2>3, <3>1
        <5> QED BY <2>2, <2>3, <5>1, SameSlot
      <4>2. Epoch(now) \in Nat /\ Epoch(now) < e + Slots
        <5>1. now - t <= MaxLag /\ t <= now
          BY <1>0, CallFacts DEF Busy
        <5>2. now - t + Bucket <= MaxWindow
          BY <1>0, <5>1, ConstantFacts
        <5> QED BY <1>0, <2>7, <5>1, <5>2, EpochFacts
      <4>3. old.epoch <= Epoch(now)
        BY <1>0, <2>2 DEF IInv, Ring, old
      <4> QED BY <2>2, <2>3, <4>1, <4>2, <4>3, ConstantFacts
    <3> QED BY <2>2, <2>3, <3>1
  <2> DEFINE m == log'[o]
             l == log[o]
  <2>9. /\ log' \in [Series -> LogState] /\ m \in LogState /\ m[t] = l[t] + 1
        /\ \A s \in Seconds \ {t} : m[s] = l[s]
        /\ \A p \in Series \ {o} : log'[p] = log[p]
        /\ \A p \in Series, s \in Seconds : log[p][s] <= log'[p][s]
    <3>1. n = log[o][t] + 1 /\ log[o][t] \in Nat
      BY <2>3 DEF n
    <3> HIDE DEF o, t
    <3>2. log' \in [Series -> LogState]
      BY <1>0, <2>1, <2>2, <2>3 DEF LogState
    <3>3. log'[o] = [log[o] EXCEPT ![t] = n] /\ \A p \in Series \ {o} : log'[p] = log[p]
      BY <1>0, <2>1
    <3>4. m[t] = l[t] + 1 /\ \A s \in Seconds \ {t} : m[s] = l[s]
      BY <2>2, <2>3, <3>1, <3>3 DEF LogState
    <3>5. \A p \in Series, s \in Seconds : log[p][s] \in Nat
      BY <1>0 DEF LogState
    <3>6. ASSUME NEW p \in Series, NEW s \in Seconds PROVE log[p][s] <= log'[p][s]
      <4>1. log[p][s] \in Nat
        BY <3>5
      <4>2. CASE p = o /\ s = t
        BY <3>1, <3>4, <4>2
      <4>3. CASE p = o /\ s # t
        BY <3>4, <4>1, <4>3
      <4>4. CASE p # o
        BY <3>3, <4>1, <4>4
      <4> QED BY <4>2, <4>3, <4>4
    <3> QED BY <1>0, <3>2, <3>3, <3>4, <3>6
  <2>10. \A S : Count(m, S) = IF t \in S THEN Count(l, S) + 1 ELSE Count(l, S)
    <3> SUFFICES ASSUME NEW S
                 PROVE  Count(m, S) = IF t \in S THEN Count(l, S) + 1 ELSE Count(l, S)
      OBVIOUS
    <3>1. l \in LogState /\ l[t] < MaxCalls
      BY <2>3, <2>6
    <3> HIDE DEF m, l, t
    <3> QED BY <2>2, <2>9, <3>1, CountIncrement
  <2> HIDE DEF new, o, t, m, l
  <2>11. /\ slot'[o][j] = new
         /\ \A p \in Series, q \in SlotNo : p # o \/ q # j => slot'[p][q] = slot[p][q]
    BY <1>0, <2>1, <2>2
  <2>12. /\ new.epoch = e
         /\ old.epoch = e => new.count = old.count + 1
         /\ old.epoch # e => new.count = 1
    BY <2>1, <2>3 DEF Bumped, Word
  <2>13. Bounded'
    <3>1. Uncounted' = Uncounted \ {w}
      BY <1>0, <2>1 DEF Uncounted
    <3>2. IsFiniteSet(Uncounted') /\ Cardinality(Uncounted') = K - 1
      BY <1>0, <2>4, <3>1, FS_RemoveElement DEF K
    <3>3. ASSUME NEW p \in Series, NEW s \in Seconds
          PROVE  log'[p][s] + Cardinality(Uncounted') <= calls
      <4>1. log[p][s] + K <= calls /\ log[p][s] \in Nat
        BY <1>0, <2>4 DEF LogState
      <4>2. log'[p][s] = log[p][s] \/ log'[p][s] = log[p][s] + 1
        <5>1. CASE p = o /\ s = t
          BY <2>9, <5>1 DEF m, l
        <5>2. CASE p = o /\ s # t
          BY <2>9, <5>2 DEF m, l
        <5>3. CASE p # o
          BY <2>9, <5>3
        <5> QED BY <5>1, <5>2, <5>3
      <4> QED BY <1>0, <2>4, <3>2, <4>1, <4>2
    <3>4. ASSUME NEW p \in Series, NEW q \in SlotNo
          PROVE  slot'[p][q].count + Cardinality(Uncounted') <= calls
      <4>1. slot[p][q].count + K <= calls /\ slot[p][q].count \in Nat
        BY <1>0, <2>4, LogFacts
      <4>2. CASE p = o /\ q = j
        <5>1. slot'[p][q].count = slot[p][q].count + 1 \/ slot'[p][q].count = 1
          BY <2>11, <2>12, <4>2 DEF old
        <5> QED BY <1>0, <2>4, <3>2, <4>1, <5>1
      <4>3. CASE p # o \/ q # j
        <5>1. slot'[p][q].count = slot[p][q].count
          BY <2>11, <4>3
        <5> QED BY <1>0, <2>4, <3>2, <4>1, <5>1
      <4> QED BY <4>2, <4>3
    <3> QED BY <1>0, <3>2, <3>3, <3>4 DEF Bounded
  <2>14. Exact'
    <3>1. ASSUME NEW p \in Series, NEW q \in SlotNo
          PROVE  slot'[p][q].count = Count(log'[p], BucketOf(slot'[p][q].epoch))
      <4>1. slot[p][q].count = Count(log[p], BucketOf(slot[p][q].epoch))
        BY DEF SInv, Exact
      <4>2. CASE p = o /\ q = j
        <5>1. t \in BucketOf(e)
          BY <2>2, <2>7 DEF BucketOf
        <5>2. Count(m, BucketOf(e)) = Count(l, BucketOf(e)) + 1
          BY <2>10, <5>1
        <5>3. CASE old.epoch = e
          <6>1. new.count = Count(l, BucketOf(e)) + 1
            BY <2>3, <2>12, <5>3 DEF l
          <6> QED BY <2>11, <2>12, <4>2, <5>2, <6>1 DEF m
        <5>4. CASE old.epoch # e
          <6>1. ASSUME NEW s \in BucketOf(e) \cap Seconds PROVE l[s] = 0
            <7>1. s \in Seconds /\ Epoch(s) = e /\ l[s] \in Nat
              BY <2>3 DEF BucketOf, LogState, l
            <7>2. ~(l[s] > 0)
              BY <2>2, <2>3, <2>5, <2>8, <5>4, <7>1 DEF l
            <7> QED BY <7>1, <7>2
          <6>2. l \in LogState
            BY <2>3 DEF l
          <6>3. Count(l, BucketOf(e)) = 0
            BY <6>1, <6>2, CountNone
          <6> QED BY <2>11, <2>12, <4>2, <5>2, <5>4, <6>3 DEF m
        <5> QED BY <5>3, <5>4
      <4>3. CASE p = o /\ q # j
        <5> DEFINE x == slot[o][q].epoch
        <5>1. slot'[p][q] = slot[o][q] /\ x \in Nat /\ (x = 0 \/ x % Slots = q)
          BY <1>0, <2>11, <4>3, LogFacts DEF IInv, Ring
        <5>2. x # e
          BY <2>2, <4>3, <5>1
        <5>3. t \notin BucketOf(x)
          BY <2>7, <5>2 DEF BucketOf
        <5>4. Count(m, BucketOf(x)) = Count(l, BucketOf(x))
          BY <2>10, <5>3
        <5> QED BY <4>1, <4>3, <5>1, <5>4 DEF m, l
      <4>4. CASE p # o
        BY <2>9, <2>11, <4>1, <4>4
      <4> QED BY <4>2, <4>3, <4>4
    <3> QED BY <3>1 DEF Exact, Count, Incs, BucketOf, Epoch
  <2>15. AllPartial'
    <3>1. ASSUME NEW v \in Workers PROVE Partial(pc[v], call[v])'
      <4>1. CASE v = w
        <5>1. pc'[v] = "sum" /\ call'[v] = call[w]
          BY <1>0, <2>1, <4>1
        <5> QED BY <1>0, <5>1 DEF Partial
      <4>2. CASE v # w
        <5> DEFINE c == call[v]
                   b == call[v].obj
                   i == call[v].i
                   ws == call[v].ws
        <5>1. pc'[v] = pc[v] /\ call'[v] = c /\ Partial(pc[v], c)
          BY <1>0, <2>1, <4>2 DEF SInv, AllPartial
        <5>2. ASSUME pc[v] \in {"read", "done"}, b # 0
              PROVE  /\ \A s \in Seconds : c.base[s] <= log'[b][s]
                     /\ c.total <= Count(log'[b], From(ws, i))
          <6>1. b \in 1..made /\ b \in Series /\ c.base \in LogState /\ c.total \in Nat
            BY <1>0, <5>1, <5>2, MadeFacts, CallFacts, LogFacts DEF Partial
          <6>2. ASSUME NEW s \in Seconds PROVE c.base[s] <= log'[b][s]
            <7>1. c.base[s] <= log[b][s] /\ log[b][s] <= log'[b][s]
              BY <2>9, <5>1, <5>2, <6>1 DEF Partial
            <7>2. c.base[s] \in Nat /\ log[b][s] \in Nat /\ log'[b][s] \in Nat
              BY <1>0, <2>9, <6>1 DEF LogState
            <7> QED BY <7>1, <7>2
          <6>3. Count(log[b], From(ws, i)) <= Count(log'[b], From(ws, i))
            <7> DEFINE f == log[b]
                       g == log'[b]
                       S == From(ws, i)
            <7>1. f \in LogState /\ g \in LogState /\ \A s \in Seconds : f[s] <= g[s]
              BY <1>0, <2>9, <6>1
            <7>2. \A s \in S \cap Seconds : f[s] > 0 => s \in S /\ f[s] <= g[s]
              BY <7>1
            <7> HIDE DEF f, g, S
            <7>3. Count(f, S) <= Count(g, S)
              BY <7>1, <7>2, CountMono
            <7> QED BY <7>3 DEF f, g, S
          <6>4. c.total <= Count(log[b], From(ws, i))
            BY <5>1, <5>2 DEF Partial
          <6>5. Count(log[b], From(ws, i)) \in Nat /\ Count(log'[b], From(ws, i)) \in Nat
            BY CountType
          <6>6. c.total <= Count(log'[b], From(ws, i))
            <7> DEFINE x == Count(log[b], From(ws, i))
                       y == Count(log'[b], From(ws, i))
            <7> HIDE DEF x, y, c
            <7> QED BY <6>1, <6>3, <6>4, <6>5 DEF x, y
          <6> QED BY <6>2, <6>6
        <5>3. now' = now /\ made' = made
          BY <1>0
        <5> QED BY <5>1, <5>2, <5>3 DEF Partial, Count, Incs, From, Inside, Epoch
      <4> QED BY <4>1, <4>2
    <3> QED BY <3>1 DEF AllPartial
  <2> QED BY <2>13, <2>14, <2>15
<1> QED BY <1>1, <1>2

-----------------------------------------------------------------------------
(* The invariant and what follows from it.                                 *)

\* It holds at the start.
LEMMA IInvInit == Init => IInv
<1> SUFFICES ASSUME Init PROVE IInv
  OBVIOUS
<1>1. /\ now = Start /\ calls = 0 /\ made = 0 /\ evicted = {} /\ gc = GcOff
      /\ series = [k \in Keys |-> 0] /\ slot = [o \in Series |-> [j \in SlotNo |-> Empty]]
      /\ pc = [w \in Workers |-> "idle"] /\ call = [w \in Workers |-> NoCall]
      /\ log = [o \in Series |-> NoLog]
  BY DEF Init
<1>2. Shape
  <2>1. 0 \in 0..MaxCalls /\ 0 \in 0..0
    BY ConstantFacts
  <2> QED BY <1>1, <2>1, ConstantFacts DEF Shape, Steps
<1>3. AllBusy
  BY <1>1, ConstantFacts DEF AllBusy, Busy
<1>4. Created
  <2>1. Creating = {}
    BY <1>1 DEF Creating
  <2> QED BY <1>1, <2>1, FS_EmptySet DEF Created
<1>5. \A o \in Series, s \in Seconds : ~(log[o][s] > 0)
  BY <1>1 DEF NoLog
<1>6. Live
  BY <1>1, <1>5 DEF Live
<1>7. Ring
  <2>1. Epoch(now) \in Nat
    BY <1>1, ConstantFacts, SlotFacts
  <2>2. \A o \in Series, j \in SlotNo : slot[o][j].epoch = 0
    BY <1>1 DEF Empty
  <2> QED BY <1>5, <2>1, <2>2 DEF Ring
<1>8. Visit(gc)
  BY <1>1, ConstantFacts DEF Visit
<1> QED BY <1>2, <1>3, <1>4, <1>6, <1>7, <1>8 DEF IInv

\* Every step keeps it.
LEMMA IInvNext == IInv /\ [Next]_vars => IInv'
<1> SUFFICES ASSUME IInv, [Next]_vars PROVE IInv'
  OBVIOUS
<1>1. ASSUME NEW w \in Workers, Counter(w) PROVE IInv'
  <2>1. ASSUME NEW k \in Keys, NEW win \in Windows, Call(w, k, win) PROVE IInv'
    BY <2>1, CallStep
  <2>2. CASE Lookup(w) \/ LoadSlot(w) \/ SumStart(w) \/ ReadSlot(w) \/ Return(w)
    BY <2>2, CallSteps
  <2>3. CASE Create(w)
    BY <2>3, CreateStep
  <2>4. CASE Cas(w)
    BY <2>4, CasStep
  <2> QED BY <1>1, <2>1, <2>2, <2>3, <2>4 DEF Counter
<1>2. CASE Gc
  BY <1>2, GcSteps, DeleteStep DEF Gc
<1>3. CASE Tick
  BY <1>3, TickStep
<1>4. CASE UNCHANGED vars
  <2>1. UNCHANGED <<now, calls, series, made, slot, pc, call, gc, log, evicted>>
    BY <1>4 DEF vars
  <2>2. gc \in GcState /\ Visit(gc)
    BY DEF IInv, Shape
  <2> QED BY <2>1, <2>2, GcStep
<1> QED BY <1>1, <1>2, <1>3, <1>4 DEF Next

\* So it holds throughout.
THEOREM IInvCorrect == Spec => []IInv
BY IInvInit, IInvNext, PTL DEF Spec

\* An increment that is not in the key's live series went to one that gc evicted,
\* never to a second series made side by side.
THEOREM LostOnlyByEvictionCorrect == Spec => []LostOnlyByEviction
<1>1. IInv => LostOnlyByEviction
  <2> SUFFICES ASSUME IInv, NEW o \in Series, NEW s \in Seconds, log[o][s] > 0
               PROVE  (\E k \in Keys : series[k] = o) \/ o \in evicted
    BY DEF LostOnlyByEviction
  <2>1. o <= made /\ o \in Nat /\ o >= 1 /\ made \in Nat
    BY DEF IInv, Live, Shape, Series
  <2>2. o \in 1..made
    BY <2>1
  <2> QED BY <2>2 DEF IInv, Live
<1> QED BY <1>1, IInvCorrect, PTL

\* What a series held when gc came to it is, once gc deletes it, outside every
\* window that a rule may ask for.
THEOREM EvictsOnlyIdleCorrect == Spec => []EvictsOnlyIdle
<1>1. IInv => EvictsOnlyIdle
  <2> SUFFICES ASSUME IInv, gc.pc = "delete", NEW s \in Seconds, gc.visit.seen[s] > 0
               PROVE  Epoch(s) * Bucket < now - MaxWindow
    BY DEF EvictsOnlyIdle
  <2> DEFINE e == Epoch(s)
             cut == gc.cut
  <2>1. /\ e \in Nat /\ e % Slots \in SlotNo /\ cut \in Int
        /\ Bucket \in Nat \ {0} /\ Slots \in Nat
    BY SlotFacts, ConstantFacts DEF IInv, Shape, GcState
  <2>2. gc.visit.i = Slots /\ cut * Bucket <= now - MaxWindow
    BY DEF IInv, Visit
  <2>3. e % Slots < Slots
    <3> HIDE DEF e
    <3> QED BY <2>1 DEF SlotNo
  <2>4. e < cut
    BY <2>2, <2>3 DEF IInv, Visit
  <2>5. now \in Nat /\ MaxWindow \in Nat
    BY ConstantFacts DEF IInv, Shape
  <2> HIDE DEF e, cut
  <2>6. e * Bucket + Bucket <= cut * Bucket
    BY <2>1, <2>4, MulFacts
  <2>7. e * Bucket \in Int /\ cut * Bucket \in Int
    BY <2>1
  <2>8. e * Bucket < now - MaxWindow
    BY <2>1, <2>2, <2>5, <2>6, <2>7
  <2> QED BY <2>8 DEF e
<1> QED BY <1>1, IInvCorrect, PTL

-----------------------------------------------------------------------------
(* What a sum returns: the result.                                         *)

\* At the start nothing is counted.
LEMMA SInvInit == Init => SInv
<1> SUFFICES ASSUME Init PROVE SInv
  OBVIOUS
<1>1. /\ calls = 0 /\ pc = [w \in Workers |-> "idle"] /\ call = [w \in Workers |-> NoCall]
      /\ slot = [o \in Series |-> [j \in SlotNo |-> Empty]] /\ log = [o \in Series |-> NoLog]
  BY DEF Init
<1>2. IInv
  BY IInvInit
<1>3. Bounded
  <2>1. Uncounted = {}
    BY <1>1 DEF Uncounted
  <2>2. IsFiniteSet(Uncounted) /\ Cardinality(Uncounted) = 0
    BY <2>1, FS_EmptySet
  <2> QED BY <1>1, <2>2 DEF Bounded, NoLog, Empty
<1>4. Exact
  <2>1. ASSUME NEW S PROVE Count(NoLog, S) = 0
    BY ConstantFacts, CountNone DEF NoLog
  <2> QED BY <1>1, <2>1 DEF Exact, Empty
<1>5. AllPartial
  BY <1>1 DEF AllPartial, Partial, NoCall
<1> QED BY <1>2, <1>3, <1>4, <1>5 DEF SInv

\* Every step keeps it.
LEMMA SInvNext == SInv /\ [Next]_vars => SInv'
<1> SUFFICES ASSUME SInv, [Next]_vars PROVE SInv'
  OBVIOUS
<1>1. IInv'
  BY IInvNext DEF SInv
<1>2. Bounded' /\ Exact' /\ AllPartial'
  <2>1. ASSUME NEW w \in Workers, Counter(w) PROVE Bounded' /\ Exact' /\ AllPartial'
    <3>1. ASSUME NEW k \in Keys, NEW win \in Windows, Call(w, k, win)
          PROVE  Bounded' /\ Exact' /\ AllPartial'
      BY <3>1, CallSum
    <3>2. CASE Lookup(w) \/ Create(w) \/ LoadSlot(w) \/ Return(w)
      BY <1>1, <3>2, LocalSums
    <3>3. CASE Cas(w)
      BY <3>3, CasSum
    <3>4. CASE SumStart(w)
      BY <3>4, StartSum
    <3>5. CASE ReadSlot(w)
      BY <3>5, ReadSum
    <3> QED BY <2>1, <3>1, <3>2, <3>3, <3>4, <3>5 DEF Counter
  <2>2. CASE Gc
    <3>1. UNCHANGED <<now, calls, made, slot, pc, call, log>>
      <4>1. CASE GcStart
        BY <4>1 DEF GcStart
      <4>2. ASSUME NEW k \in Keys, GcPick(k)
            PROVE  UNCHANGED <<now, calls, made, slot, pc, call, log>>
        BY <4>2 DEF GcPick
      <4>3. CASE GcScan
        BY <4>3 DEF GcScan
      <4>4. CASE GcDelete
        BY <4>4 DEF GcDelete
      <4>5. CASE GcEnd
        BY <4>5 DEF GcEnd
      <4> QED BY <2>2, <4>1, <4>2, <4>3, <4>4, <4>5 DEF Gc
    <3> QED BY <3>1, OtherStep
  <2>3. CASE Tick
    BY <2>3, TickSum
  <2>4. CASE UNCHANGED vars
    BY <2>4, OtherStep DEF vars
  <2> QED BY <2>1, <2>2, <2>3, <2>4 DEF Next
<1> QED BY <1>1, <1>2 DEF SInv

\* So it holds throughout.
THEOREM SInvCorrect == Spec => []SInv
BY SInvInit, SInvNext, PTL DEF Spec

\* The ring keeps its shape: counts are bounded by the calls, and a bucket that
\* counts something sits in the slot of its epoch.
LEMMA TypeCorrect == ASSUME SInv PROVE TypeOK
<1>1. IInv /\ made \in 0..MaxCalls
  BY MadeFacts DEF SInv
<1>2. /\ now \in Seconds /\ calls \in 0..MaxCalls /\ pc \in [Workers -> Steps]
      /\ evicted \subseteq Series /\ gc.pc \in {"off", "pick", "scan", "delete"}
      /\ series \in [Keys -> 0..made] /\ log \in [Series -> LogState]
  BY <1>1 DEF IInv, Shape, GcState
<1>3. calls \in Nat /\ calls <= MaxCalls /\ MaxCalls \in Nat /\ made \in Nat
  BY <1>1, <1>2, ConstantFacts
<1>4. series \in [Keys -> 0..MaxCalls]
  <2>1. 0..made \subseteq 0..MaxCalls
    BY <1>1, <1>3
  <2> QED BY <1>2, <2>1
<1>5. Cardinality(Uncounted) \in Nat
  BY FS_CardinalityType DEF SInv, Bounded
<1>6. log \in [Series -> [Seconds -> 0..MaxCalls]]
  <2>1. ASSUME NEW o \in Series, NEW s \in Seconds PROVE log[o][s] \in 0..MaxCalls
    <3>1. log[o][s] \in Nat /\ log[o][s] + Cardinality(Uncounted) <= calls
      BY <1>2 DEF LogState, SInv, Bounded
    <3> QED BY <1>3, <1>5, <3>1
  <2> QED BY <1>2, <2>1 DEF LogState
<1>7. ASSUME NEW o \in Series, NEW j \in SlotNo
      PROVE  /\ slot[o][j].epoch \in 0..Epoch(MaxNow)
             /\ slot[o][j].count \in 0..MaxCalls
             /\ slot[o][j].count > 0 => slot[o][j].epoch % Slots = j
  <2>1. /\ slot[o][j].epoch \in Nat /\ slot[o][j].count \in Nat
        /\ slot[o][j].epoch <= Epoch(now)
        /\ (slot[o][j].epoch = 0 \/ slot[o][j].epoch % Slots = j)
    BY <1>1, LogFacts DEF IInv, Ring
  <2>2. slot[o][j].count + Cardinality(Uncounted) <= calls
    BY DEF SInv, Bounded
  <2>3. Epoch(now) \in Nat /\ Epoch(MaxNow) \in Nat /\ Epoch(now) <= Epoch(MaxNow)
    <3>1. now \in Nat /\ MaxNow \in Nat /\ now <= MaxNow
      BY <1>2, ConstantFacts DEF Seconds
    <3> QED BY <3>1, EpochFacts
  <2>4. slot[o][j].epoch = 0 => slot[o][j].count = 0
    <3> SUFFICES ASSUME slot[o][j].epoch = 0 PROVE slot[o][j].count = 0
      OBVIOUS
    <3>1. ASSUME NEW s \in BucketOf(0) PROVE FALSE
      <4>1. s \in Seconds /\ Epoch(s) = 0 /\ s \in Nat /\ s >= Start
        BY ConstantFacts DEF BucketOf, Seconds
      <4>2. s < Epoch(s) * Bucket + Bucket /\ Bucket \in Nat
        BY <4>1, ConstantFacts, DivFacts DEF Epoch
      <4>3. s < Bucket
        BY <4>1, <4>2
      <4> QED BY <4>1, <4>2, <4>3, ConstantFacts
    <3>2. Count(log[o], BucketOf(0)) = 0
      BY <1>2, <3>1, CountNone
    <3> QED BY <3>2 DEF SInv, Exact
  <2> QED BY <1>3, <1>5, <2>1, <2>2, <2>3, <2>4
<1>8. \A w \in Workers : pc[w] \in {"load", "cas", "read"} => call[w].obj \in Series
  BY <1>1, CallFacts, MadeFacts DEF Busy
<1> QED BY <1>1, <1>2, <1>4, <1>6, <1>7, <1>8 DEF TypeOK, Steps

\* counter() answers within one bucket width of the truth about the series it read,
\* whatever increments, ring reuse and gc do meanwhile.
THEOREM CountIsAccurateCorrect == Spec => []CountIsAccurate
<1>1. SInv => CountIsAccurate
  <2> SUFFICES ASSUME SInv, NEW w \in Workers, pc[w] = "done", call[w].obj # 0
               PROVE  LET c == call[w]
                      IN /\ c.total <= Count(log[c.obj], {s \in Seconds : s >= c.ws})
                         /\ c.total >= Count(c.base, {s \in Seconds : s + c.win >= now + Bucket})
    BY TypeCorrect DEF CountIsAccurate
  <2> DEFINE c == call[w]
  <2>1. /\ c.i = Slots
        /\ c.total <= Count(log[c.obj], From(c.ws, c.i))
        /\ c.total >= Count(c.base, Inside(now, c.win, c.i))
    BY DEF SInv, AllPartial, Partial
  <2>2. \A s \in Seconds : Epoch(s) % Slots < Slots
    BY SlotFacts, ConstantFacts DEF SlotNo
  <2>3. /\ From(c.ws, Slots) = {s \in Seconds : s >= c.ws}
        /\ Inside(now, c.win, Slots) = {s \in Seconds : s + c.win >= now + Bucket}
    BY <2>2 DEF From, Inside
  <2> QED BY <2>1, <2>3
<1> QED BY <1>1, SInvCorrect, PTL
=============================================================================
