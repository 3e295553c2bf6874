------------------------------ MODULE Counters ------------------------------
(***************************************************************************)
(* The sliding-window counters shared by all workers: counter() calls that *)
(* increment a series and then sum it, lock-free, and the gc that evicts   *)
(* series whose buckets have all aged out.                                 *)
(*                                                                         *)
(* Each atomic operation of the code (a slot load, a compare-and-swap, a   *)
(* map operation) is one action. Keys have exactly one home shard, so the  *)
(* 256 sync.Maps are one map here. The clock is the wall clock in seconds, *)
(* which does not run backwards.                                           *)
(***************************************************************************)
EXTENDS Naturals, FiniteSets

CONSTANTS
    Workers,   \* workers calling counter()
    Keys,      \* (entity, event type) pairs
    Bucket,    \* seconds per bucket: counterBucketSeconds
    Slots,     \* buckets per series: counterSlots
    Windows,   \* window_seconds arguments
    Start,     \* the clock when the process starts
    MaxNow,    \* bound: last second considered
    MaxCalls,  \* bound: how many counter() calls are made
    MaxLag     \* bound: seconds between a call's clock read and its return

\* counterMaxWindowSeconds
MaxWindow == Bucket * Slots

ASSUME BucketAssumption == Bucket \in Nat \ {0} /\ Slots \in Nat \ {0}
\* counter() refuses any other window
ASSUME WindowsAssumption == Windows \subseteq 1..MaxWindow
\* An empty slot has epoch 0, which no window of a real clock reaches.
ASSUME StartAssumption == Start \in Nat /\ Start >= MaxWindow + Bucket
\* A call ends within its event's timeout, far sooner than the ring comes back to
\* its bucket: only later could it put an old bucket over a newer one.
ASSUME LagAssumption == MaxLag \in Nat /\ MaxLag + Bucket <= MaxWindow
ASSUME BoundAssumption == MaxNow \in Nat /\ MaxNow >= Start /\ MaxCalls \in Nat
ASSUME KeysAssumption == Keys # {}

VARIABLES
    now,      \* the clock
    calls,    \* calls made so far
    series,   \* per key: its series in the map, or 0
    made,     \* series created so far
    slot,     \* per series and slot: the packed word, epoch and count
    pc,       \* per worker: where it stands in its call
    call,     \* per worker: the locals of its call
    gc,       \* the gc goroutine: where it stands and its locals
    gcNext,   \* earliest second of the next gc: its ticker has a period
    log,      \* history: per series, the increments it took, by second
    evicted   \* history: the series gc evicted

vars == <<now, calls, series, made, slot, pc, call, gc, gcNext, log, evicted>>

Series == 1..MaxCalls
SlotNo == 0..(Slots - 1)
Seconds == Start..MaxNow
Epoch(t) == t \div Bucket
Empty == [epoch |-> 0, count |-> 0]
NoLog == [s \in Seconds |-> 0]
AnyKey == CHOOSE k \in Keys : TRUE
NoCall == [key |-> AnyKey, win |-> 0, t |-> 0, obj |-> 0, old |-> Empty,
           ws |-> 0, i |-> 0, total |-> 0, base |-> NoLog]
NoVisit == [key |-> AnyKey, obj |-> 0, i |-> 0, seen |-> NoLog]
GcOff == [pc |-> "off", cut |-> 0, keys |-> {}, visit |-> NoVisit]

\* The increments of l in the seconds S: the n-th one of a second s is <<s, n>>.
Incs(l, S) == {x \in (S \cap Seconds) \X (1..MaxCalls) : x[2] <= l[x[1]]}

\* How many there are.
Count(l, S) == Cardinality(Incs(l, S))

Init ==
    /\ now = Start
    /\ calls = 0
    /\ series = [k \in Keys |-> 0]
    /\ made = 0
    /\ slot = [o \in Series |-> [j \in SlotNo |-> Empty]]
    /\ pc = [w \in Workers |-> "idle"]
    /\ call = [w \in Workers |-> NoCall]
    /\ gc = GcOff
    /\ gcNext = Start
    /\ log = [o \in Series |-> NoLog]
    /\ evicted = {}

gcVars == <<gc, gcNext, evicted>>

-----------------------------------------------------------------------------
(* counter(): increment, then sum.                                         *)

\* The first clock read.
Call(w, k, win) ==
    /\ pc[w] = "idle"
    /\ calls < MaxCalls
    /\ calls' = calls + 1
    /\ call' = [call EXCEPT ![w] = [NoCall EXCEPT !.key = k, !.win = win, !.t = now]]
    /\ pc' = [pc EXCEPT ![w] = "lookup"]
    /\ UNCHANGED <<now, series, made, slot, gcVars, log>>

\* Load(key)
Lookup(w) ==
    /\ pc[w] = "lookup"
    /\ LET o == series[call[w].key]
       IN IF o # 0
          THEN /\ call' = [call EXCEPT ![w].obj = o]
               /\ pc' = [pc EXCEPT ![w] = "load"]
          ELSE /\ pc' = [pc EXCEPT ![w] = "create"]
               /\ UNCHANGED call
    /\ UNCHANGED <<now, calls, series, made, slot, gcVars, log>>

\* A defect: a plain Store of the new series.
CreateStore(w) ==
    /\ pc[w] = "create"
    /\ made' = made + 1
    /\ series' = [series EXCEPT ![call[w].key] = made + 1]
    /\ call' = [call EXCEPT ![w].obj = made + 1]
    /\ pc' = [pc EXCEPT ![w] = "load"]
    /\ UNCHANGED <<now, calls, slot, gcVars, log>>

\* LoadOrStore(key, new series)
Create(w) ==
    /\ pc[w] = "create"
    /\ LET k == call[w].key
           o == IF series[k] # 0 THEN series[k] ELSE made + 1
       IN /\ made' = IF series[k] # 0 THEN made ELSE made + 1
          /\ series' = [series EXCEPT ![k] = o]
          /\ call' = [call EXCEPT ![w].obj = o]
    /\ pc' = [pc EXCEPT ![w] = "load"]
    /\ UNCHANGED <<now, calls, slot, gcVars, log>>

\* The ring slot of the call's bucket.
MySlot(w) == Epoch(call[w].t) % Slots

LoadSlot(w) ==
    /\ pc[w] = "load"
    /\ call' = [call EXCEPT ![w].old = slot[call[w].obj][MySlot(w)]]
    /\ pc' = [pc EXCEPT ![w] = "cas"]
    /\ UNCHANGED <<now, calls, series, made, slot, gcVars, log>>

\* What the compare-and-swap installs over old at epoch e.
Bumped(old, e) ==
    IF old.epoch = e THEN [old EXCEPT !.count = @ + 1] ELSE [epoch |-> e, count |-> 1]

\* A defect: a plain store in place of the compare-and-swap.
CasBlind(w) ==
    /\ pc[w] = "cas"
    /\ LET o == call[w].obj
       IN /\ slot' = [slot EXCEPT ![o][MySlot(w)] = Bumped(call[w].old, Epoch(call[w].t))]
          /\ log' = [log EXCEPT ![o][call[w].t] = @ + 1]
          /\ pc' = [pc EXCEPT ![w] = "sum"]
    /\ UNCHANGED <<now, calls, series, made, call, gcVars>>

\* The compare-and-swap: on failure the slot is loaded again.
Cas(w) ==
    /\ pc[w] = "cas"
    /\ LET o == call[w].obj
       IN \/ /\ slot[o][MySlot(w)] = call[w].old
             /\ slot' = [slot EXCEPT ![o][MySlot(w)] = Bumped(call[w].old, Epoch(call[w].t))]
             /\ log' = [log EXCEPT ![o][call[w].t] = @ + 1]
             /\ pc' = [pc EXCEPT ![w] = "sum"]
          \/ /\ slot[o][MySlot(w)] # call[w].old
             /\ pc' = [pc EXCEPT ![w] = "load"]
             /\ UNCHANGED <<slot, log>>
    /\ UNCHANGED <<now, calls, series, made, call, gcVars>>

\* CounterSum: a second clock read and a second lookup. A key without a series
\* sums to 0.
SumStart(w) ==
    /\ pc[w] = "sum"
    /\ LET o == series[call[w].key]
       IN /\ call' = [call EXCEPT ![w].obj = o, ![w].ws = now - call[w].win,
                                  ![w].base = IF o = 0 THEN NoLog ELSE log[o]]
          /\ pc' = [pc EXCEPT ![w] = IF o = 0 THEN "done" ELSE "read"]
    /\ UNCHANGED <<now, calls, series, made, slot, gcVars, log>>

\* A bucket counts when it starts inside the window.
InWindow(v, ws) == v.epoch * Bucket >= ws

\* One slot of the sum.
ReadSlot(w) ==
    /\ pc[w] = "read"
    /\ LET c == call[w]
           v == slot[c.obj][c.i]
       IN /\ call' = [call EXCEPT
                        ![w].total = @ + IF InWindow(v, c.ws) THEN v.count ELSE 0,
                        ![w].i = @ + 1]
          /\ pc' = [pc EXCEPT ![w] = IF c.i = Slots - 1 THEN "done" ELSE "read"]
    /\ UNCHANGED <<now, calls, series, made, slot, gcVars, log>>

Return(w) ==
    /\ pc[w] = "done"
    /\ pc' = [pc EXCEPT ![w] = "idle"]
    /\ call' = [call EXCEPT ![w] = NoCall]
    /\ UNCHANGED <<now, calls, series, made, slot, gcVars, log>>

-----------------------------------------------------------------------------
(* gc, once a minute.                                                      *)

\* The ticker's period is one bucket.
GcStart ==
    /\ gc.pc = "off"
    /\ now >= gcNext
    /\ gcNext' = now + Bucket
    /\ gc' = [GcOff EXCEPT !.pc = "pick", !.keys = Keys, !.cut = Epoch(now - MaxWindow)]
    /\ UNCHANGED <<now, calls, series, made, slot, pc, call, log, evicted>>

\* Range comes to a key, in any order; `seen` is what its series holds then.
GcPick(k) ==
    /\ gc.pc = "pick"
    /\ k \in gc.keys
    /\ gc' = IF series[k] = 0
             THEN [gc EXCEPT !.keys = @ \ {k}]
             ELSE [gc EXCEPT !.pc = "scan", !.keys = @ \ {k},
                             !.visit = [key |-> k, obj |-> series[k], i |-> 0,
                                        seen |-> log[series[k]]]]
    /\ UNCHANGED <<now, calls, series, made, slot, pc, call, gcNext, log, evicted>>

\* A defect: an off-by-one in the age test.
YoungOffByOne(v, cut) == v.epoch > cut

\* A bucket that keeps its series alive.
Young(v, cut) == v.epoch >= cut

\* One slot of the scan: a young bucket ends it.
GcScan ==
    /\ gc.pc = "scan"
    /\ gc' = IF Young(slot[gc.visit.obj][gc.visit.i], gc.cut)
             THEN [gc EXCEPT !.pc = "pick", !.visit = NoVisit]
             ELSE [gc EXCEPT !.visit.i = @ + 1,
                             !.pc = IF gc.visit.i = Slots - 1 THEN "delete" ELSE "scan"]
    /\ UNCHANGED <<now, calls, series, made, slot, pc, call, gcNext, log, evicted>>

\* Delete(k), whatever happened to the series since it was scanned.
GcDelete ==
    /\ gc.pc = "delete"
    /\ series' = [series EXCEPT ![gc.visit.key] = 0]
    /\ evicted' = evicted \cup {gc.visit.obj}
    /\ gc' = [gc EXCEPT !.pc = "pick", !.visit = NoVisit]
    /\ UNCHANGED <<now, calls, made, slot, pc, call, gcNext, log>>

GcEnd ==
    /\ gc.pc = "pick"
    /\ gc.keys = {}
    /\ gc' = GcOff
    /\ UNCHANGED <<now, calls, series, made, slot, pc, call, gcNext, log, evicted>>

-----------------------------------------------------------------------------
\* A second passes; no call takes longer than MaxLag.
Tick ==
    /\ now < MaxNow
    /\ \A w \in Workers : pc[w] # "idle" => now + 1 - call[w].t <= MaxLag
    /\ now' = now + 1
    /\ UNCHANGED <<calls, series, made, slot, pc, call, gcVars, log>>

Counter(w) ==
    \/ \E k \in Keys, win \in Windows : Call(w, k, win)
    \/ Lookup(w) \/ Create(w) \/ LoadSlot(w) \/ Cas(w)
    \/ SumStart(w) \/ ReadSlot(w) \/ Return(w)

Gc == GcStart \/ (\E k \in Keys : GcPick(k)) \/ GcScan \/ GcDelete \/ GcEnd

Next == (\E w \in Workers : Counter(w)) \/ Gc \/ Tick

Spec == Init /\ [][Next]_vars

-----------------------------------------------------------------------------
(* Properties.                                                             *)

\* What the variables hold; a bucket that counts something sits in the slot of
\* its epoch.
TypeOK ==
    /\ now \in Seconds
    /\ calls \in 0..MaxCalls
    /\ series \in [Keys -> 0..MaxCalls]
    /\ made \in 0..MaxCalls
    /\ \A o \in Series, j \in SlotNo :
          /\ slot[o][j].epoch \in 0..Epoch(MaxNow)
          /\ slot[o][j].count \in 0..MaxCalls
          /\ slot[o][j].count > 0 => slot[o][j].epoch % Slots = j
    /\ pc \in [Workers -> {"idle", "lookup", "create", "load", "cas", "sum", "read", "done"}]
    /\ \A w \in Workers : pc[w] \in {"load", "cas", "read"} => call[w].obj \in Series
    /\ gc.pc \in {"off", "pick", "scan", "delete"}
    /\ log \in [Series -> [Seconds -> 0..MaxCalls]]
    /\ evicted \subseteq Series

\* The ring keeps its shape (TypeOK), and counter() answers within one bucket width
\* of the truth about the series it read, under any interleaving of increments, ring
\* reuse and gc: never more than the increments in the window, never fewer than
\* those that were complete when the sum began and are a bucket width inside the
\* window when it ends.
CountIsAccurate ==
    /\ TypeOK
    /\ \A w \in Workers :
          pc[w] = "done" /\ call[w].obj # 0 =>
              LET c == call[w]
              IN /\ c.total <= Count(log[c.obj], {s \in Seconds : s >= c.ws})
                 /\ c.total >= Count(c.base, {s \in Seconds : s + c.win >= now + Bucket})

\* All increments of a key go to one series: an increment that is not in the
\* key's live series was made to a series gc has evicted, never to a second
\* series that two workers created side by side.
LostOnlyByEviction ==
    \A o \in Series :
        (\E s \in Seconds : log[o][s] > 0) =>
            (\E k \in Keys : series[k] = o) \/ o \in evicted

\* gc gives up only a series that was idle: whatever it held when gc came to it
\* is outside every window a rule may ask for. What an eviction loses is an
\* increment that raced with it.
EvictsOnlyIdle ==
    gc.pc = "delete" =>
        \A s \in Seconds : gc.visit.seen[s] > 0 => Epoch(s) * Bucket < now - MaxWindow

=============================================================================
