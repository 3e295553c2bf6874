------------------------------- MODULE Replay -------------------------------
(***************************************************************************)
(* The replay tool: the events of a trace run through a worker pool of     *)
(* their own under a rule set, and the verdicts compared, in shadow mode   *)
(* with those of a second rule set, in replay mode with the verdicts the   *)
(* trace recorded. The recording, too, was made by such a pool; a trace    *)
(* pairs each event with its own result, while the tool's results are kept *)
(* by event_id.                                                            *)
(*                                                                         *)
(* Compilation (lowerMatch), the index by event type and the resolution of *)
(* the verdict are those of Match and RuleSet. What Starlark code a rule   *)
(* runs is reduced to its verdict, to a counter it may read, and to        *)
(* whether it fails. A counter is a sum over a window that ends at the     *)
(* wall clock, in a replay as well; its ring and its gc, which Counters    *)
(* models, give up only what is outside every window.                      *)
(***************************************************************************)
EXTENDS RuleSet, View, FiniteSets

CONSTANTS
    RuleSets,   \* the rule directories: sets of rules, matches not lowered
    Traces,     \* sequences of events
    Values,     \* the values of the events: a payload, and what it holds
    Teams,      \* the pools: sets of workers
    Faults,     \* ids of rules that fail on an event, before or after they count
    Bucket,     \* seconds per bucket: counterBucketSeconds
    MaxNow,     \* bound: the last second of a run
    NoEvent     \* what an idle worker holds

Verdicts == {"approve", "review", "block"}

\* The constants in the clauses of a match, those in a list included.
ClauseConstants(m) ==
    LET clauses == IF m.t = "dict" /\ DOMAIN m.map = {"all"} /\ m.map["all"].t = "list"
                   THEN {c \in ToSet(m.map["all"].list) : c.t = "list"}
                   ELSE {}
        given == UNION {{c.list[i] : i \in 1..Len(c.list)} : c \in clauses}
    IN given \cup UNION {ToSet(v.list) : v \in {u \in given : u.t = "list"}}

\* A constant is a Starlark value: its content has the type its tag says.
StarlarkValue(v) ==
    /\ v.t = "num" => v.num \in Int /\ v = Num(v.num)
    /\ v.t = "int" => v.num \in Int
    /\ v.t = "str" => v.str \in Seq(STRING) /\ v = Str(v.str)
    /\ v.t = "bool" => v.bool \in BOOLEAN /\ v = Bool(v.bool)
    /\ v.t = "list" => v.list \in Seq(ToSet(v.list))

\* What JSON text decodes to; the members of a map are values themselves.
JSONValue(v) ==
    \/ v = Null
    \/ v.t = "bool" /\ v = Bool(v.bool)
    \/ v.t = "num" /\ v = Num(v.num)
    \/ v.t = "str" /\ v = Str(v.str)
    \/ v.t = "list" /\ v = List(v.list)
    \/ v.t = "map" /\ v = Map(v.map) /\ \A k \in DOMAIN v.map : v.map[k] \in Values

ASSUME ReplayAssumption ==
    /\ \A S \in RuleSets : IsFiniteSet(S)
    /\ \A S \in RuleSets : \A r \in S :
          /\ DOMAIN r = {"id", "type", "prio", "verdict", "match", "limit", "key", "window"}
          /\ r.prio \in Int /\ r.verdict \in Verdicts /\ r.limit \in Nat /\ r.window \in Nat
          /\ \A v \in ClauseConstants(r.match) : StarlarkValue(v)
    /\ \A v \in Values : JSONValue(v)
    /\ \A t \in Traces : t \in Seq(ToSet(t)) /\ \A e \in ToSet(t) : Map(e.payload) \in Values
    /\ \A t \in Teams : IsFiniteSet(t)
    /\ Bucket \in Nat \ {0} /\ MaxNow \in Nat
    /\ NoEvent \notin Nat

VARIABLES
    mode,       \* "shadow" or "replay"
    dirs,       \* the rule sets of the first and of the second run
    trace,      \* the events of the trace
    team,       \* the workers of the pool
    phase,      \* the run under way, then the end
    rules,      \* the sorted rules of the snapshot in use
    index,      \* ... and its index
    queue,      \* positions of the trace still in the input channel
    busy,       \* per worker: the position it evaluates
    counters,   \* the pool's counters: the buckets of the increments of a key
    now,        \* the clock, from the start of the bucket in which the run began
    out,        \* results, in the order they were sent
    results,    \* per finished run: its results
    ended,      \* history: per finished run, the clock when it ended
    report      \* changed and unchanged entries, changes by rule

inputs == <<mode, dirs, trace, team>>
vars == <<inputs, phase, rules, index, queue, busy, counters, now, out, results, ended, report>>
poolVars == <<queue, busy, counters, now, out>>

Runs == {"first", "second"}
NoReport == [changed |-> 0, unchanged |-> 0, byRule |-> <<>>]

-----------------------------------------------------------------------------
(* Compilation.                                                            *)

\* A rule without a match lets every event pass.
CompileRule(r) ==
    {[r EXCEPT !.match = preds] :
        preds \in IF r.match.t = "absent" THEN {<<>>} ELSE lowerMatch(r.match)}

\* One rule that does not compile, or a rule_id used twice, refuses the directory.
Compiles(S) ==
    /\ \A r \in S : CompileRule(r) # {}
    /\ \A r, q \in S : r.id = q.id => r = q
CompileDir(S) == UNION {CompileRule(r) : r \in S}

-----------------------------------------------------------------------------
(* One event in one worker.                                                *)

\* Only counters see the clock: it stands still for a rule set without them.
Counts(S) == \E r \in S : r.limit > 0
Clock == IF Counts(ToSet(rules)) THEN 0..MaxNow ELSE {0}

\* The increments of a key, and one more of them.
Stamps(c, k) == IF k \in DOMAIN c THEN c[k] ELSE <<>>
Stamped(c, k) ==
    [x \in DOMAIN c \cup {k} |->
        IF x = k THEN Append(Stamps(c, k), now - (now % Bucket)) ELSE c[x]]

\* CounterSum: the increments of the buckets that start in the window.
InWindow(c, k, window) ==
    Cardinality({i \in DOMAIN Stamps(c, k) : Stamps(c, k)[i] >= now - window})

\* One of the matched rules, in order. It may fail: before it counts, because the time
\* of the event is up and it does not run or is cancelled, or by an error of its own;
\* or after it has counted. Otherwise it triggers, with a counter if that has reached
\* the limit.
evalRule(acc, r, e, f) ==
    LET k == <<r.key, e.entity>>
        counted == [acc EXCEPT !.counters = IF r.limit = 0 THEN @ ELSE Stamped(@, k)]
    IN IF ~PrefilterMatch(r.match, e) THEN acc
       ELSE IF r.id \in f.before THEN [acc EXCEPT !.failed = @ \cup {r.id}]
       ELSE IF r.id \in f.after THEN [counted EXCEPT !.failed = @ \cup {r.id}]
       ELSE IF r.limit = 0 \/ InWindow(counted.counters, k, r.window) >= r.limit
       THEN [counted EXCEPT !.triggered = Append(@, r)]
       ELSE counted

processEvent(e, f) ==
    LET s == RulesForEvent(index, e.type)
        acc[n \in 0..Len(s)] ==
            IF n = 0 THEN [counters |-> counters, triggered |-> <<>>, failed |-> {}]
            ELSE evalRule(acc[n - 1], s[n], e, f)
    IN acc[Len(s)]

-----------------------------------------------------------------------------
(* A run: replayEvents.                                                    *)

\* A defect: the second run goes on with the counters of the first.
StartSharedCounters(run) ==
    /\ \E s \in SortedRules(CompileDir(dirs[run])) :
          /\ rules' = s
          /\ index' = buildIndex(s)
    /\ queue' = [i \in DOMAIN trace |-> i]
    /\ busy' = [w \in team |-> NoEvent]
    /\ counters' = counters
    /\ now' \in {n \in Clock' : n < Bucket}
    /\ out' = <<>>
    /\ phase' = run

\* A fresh pool, with counters of its own, and fresh channels.
Start(run) ==
    /\ \E s \in SortedRules(CompileDir(dirs[run])) :
          /\ rules' = s
          /\ index' = buildIndex(s)
    /\ queue' = [i \in DOMAIN trace |-> i]
    /\ busy' = [w \in team |-> NoEvent]
    /\ counters' = <<>>
    /\ now' \in {n \in Clock' : n < Bucket}
    /\ out' = <<>>
    /\ phase' = run

\* Both directories are compiled before any event runs.
Load ==
    /\ phase = "load"
    /\ \/ /\ \A run \in Runs : Compiles(dirs[run])
          /\ Start("first")
       \/ /\ \E run \in Runs : ~Compiles(dirs[run])
          /\ phase' = "error"
          /\ UNCHANGED <<rules, index, poolVars>>
    /\ UNCHANGED <<inputs, results, ended, report>>

Dequeue(w) ==
    /\ phase \in Runs
    /\ busy[w] = NoEvent
    /\ queue # <<>>
    /\ busy' = [busy EXCEPT ![w] = Head(queue)]
    /\ queue' = Tail(queue)
    /\ UNCHANGED <<inputs, phase, rules, index, counters, now, out, results, ended, report>>

\* out has room for every entry, so the send never waits.
Evaluate(w) ==
    /\ phase \in Runs
    /\ busy[w] # NoEvent
    /\ \E f \in Faults :
          LET e == trace[busy[w]]
              acc == processEvent(e, f)
          IN /\ counters' = acc.counters
             /\ out' = Append(out, [pos |-> busy[w], id |-> e.id,
                                    verdict |-> resolveVerdict(acc.triggered),
                                    rules |-> [i \in DOMAIN acc.triggered |-> acc.triggered[i].id],
                                    failed |-> acc.failed])
    /\ busy' = [busy EXCEPT ![w] = NoEvent]
    /\ UNCHANGED <<inputs, phase, rules, index, queue, now, results, ended, report>>

\* The wall clock moves on.
Tick ==
    /\ phase \in Runs
    /\ now + 1 \in Clock
    /\ now' = now + 1
    /\ UNCHANGED <<inputs, phase, rules, index, queue, busy, counters, out, results, ended, report>>

\* The result under an event_id: the last one that was sent.
LastFor(s, id) == s[CHOOSE i \in DOMAIN s :
    s[i].id = id /\ \A j \in DOMAIN s : s[j].id = id => j <= i]

\* What an entry's first result is compared from: the recorded one of the entry
\* itself, or the one under its event_id.
FirstResult(i) ==
    IF mode = "replay"
    THEN LET s == results["first"] IN s[CHOOSE k \in DOMAIN s : s[k].pos = i]
    ELSE LastFor(results["first"], trace[i].id)

\* diffAgainstTrace and diffTwoRuns: an entry without a result is passed over.
Diff(second) ==
    LET found == {i \in DOMAIN trace : \E k \in DOMAIN second : second[k].id = trace[i].id}
        new(i) == LastFor(second, trace[i].id)
        diffs == {i \in found : FirstResult(i).verdict # new(i).verdict}
        blamed == UNION {ToSet(new(i).rules) : i \in diffs}
    IN [changed |-> Cardinality(diffs),
        unchanged |-> Cardinality(found \ diffs),
        byRule |-> [id \in blamed |-> Cardinality({i \in diffs : id \in ToSet(new(i).rules)})]]

\* pool.Run has returned: the input is empty and no worker holds an event.
PoolIdle == queue = <<>> /\ \A w \in team : busy[w] = NoEvent

FinishFirst ==
    /\ phase = "first"
    /\ PoolIdle
    /\ results' = [results EXCEPT !["first"] = out]
    /\ ended' = [ended EXCEPT !["first"] = now]
    /\ Start("second")
    /\ UNCHANGED <<inputs, report>>

\* The exit status is 1 if report.changed > 0.
FinishSecond ==
    /\ phase = "second"
    /\ PoolIdle
    /\ results' = [results EXCEPT !["second"] = out]
    /\ ended' = [ended EXCEPT !["second"] = now]
    /\ report' = Diff(out)
    /\ phase' = "report"
    /\ UNCHANGED <<inputs, rules, index, poolVars>>

Done == phase \in {"report", "error"} /\ UNCHANGED vars

Init ==
    /\ mode \in {"shadow", "replay"}
    /\ dirs \in [Runs -> RuleSets]
    /\ trace \in Traces
    /\ team \in Teams
    /\ phase = "load"
    /\ rules = <<>>
    /\ index = buildIndex(<<>>)
    /\ queue = <<>>
    /\ busy = [w \in team |-> NoEvent]
    /\ counters = <<>>
    /\ now = 0
    /\ out = <<>>
    /\ results = [run \in Runs |-> <<>>]
    /\ ended = [run \in Runs |-> 0]
    /\ report = NoReport

Next ==
    \/ Load
    \/ \E w \in team : Dequeue(w) \/ Evaluate(w)
    \/ Tick
    \/ FinishFirst
    \/ FinishSecond
    \/ Done

Spec == Init /\ [][Next]_vars

-----------------------------------------------------------------------------
(* Properties.                                                             *)

\* The phases of the tool; a result carries the verdict and the ids of rules of
\* the snapshot, none both triggered and failed.
TypeOK ==
    /\ phase \in {"load", "error", "report"} \cup Runs
    /\ \A i \in DOMAIN out :
          /\ out[i].verdict \in Verdicts
          /\ ToSet(out[i].rules) \cup out[i].failed \subseteq {r.id : r \in ToSet(rules)}
          /\ ToSet(out[i].rules) \cap out[i].failed = {}

\* No entry is lost or doubled between the trace, the input channel, the workers
\* and the results, and each one is compared, as changed or as unchanged.
EachEntryOnce ==
    /\ LET held == {w \in team : busy[w] # NoEvent}
       IN Len(queue) + Cardinality(held) + Len(out)
             = IF phase \in Runs \cup {"report"} THEN Len(trace) ELSE 0
    /\ phase = "report" => report.changed + report.unchanged = Len(trace)

\* The index by type returns, for a type with rules and for one without, exactly
\* the rules of that type and the wildcard rules, each once, by priority.
IndexIsExact ==
    \A t \in {trace[i].type : i \in DOMAIN trace} \cup {r.type : r \in ToSet(rules)} :
        t # "*" =>
            LET s == RulesForEvent(index, t)
            IN /\ ToSet(s) = {r \in ToSet(rules) : r.type \in {t, "*"}}
               /\ IsInjective(s)
               /\ \A i, j \in DOMAIN s : i < j => s[i].prio >= s[j].prio

\* The index is exact, and the verdict of a result does not depend on the order an
\* unstable sort happened to choose: it is the heaviest one among the triggered rules
\* of the highest priority, approve if there is none; and every rule without a
\* counter whose type and prefilter fit the event has triggered or failed, so that a
\* failing rule, or an event that runs out of time, takes no other rule along unseen.
VerdictIsRight ==
    /\ IndexIsExact
    /\ \A i \in DOMAIN out :
          LET e == trace[out[i].pos]
              T == {r \in ToSet(rules) : r.id \in ToSet(out[i].rules)}
              top == {r \in T : \A q \in T : q.prio <= r.prio}
          IN /\ {r \in ToSet(rules) : /\ r.limit = 0 /\ r.type \in {e.type, "*"}
                                      /\ PrefilterMatch(r.match, e)}
                \subseteq T \cup {r \in ToSet(rules) : r.id \in out[i].failed}
             /\ IF T = {} THEN out[i].verdict = "approve"
                ELSE /\ \E r \in top : r.verdict = out[i].verdict
                     /\ \A r \in top : VerdictWeight(r.verdict) <= VerdictWeight(out[i].verdict)

\* The prefilter and the body of a rule agree on an event although each converts
\* it in its own way (resolvePath and float64, lazyDict and Starlark values): a
\* clause holds exactly when the same comparison in the body would, but for != on
\* a field of another type, which the prefilter calls false. (entity_id is not in
\* the body's view.)
PrefilterLikeBody ==
    phase = "first" =>
        \A r \in ToSet(rules) : \A n \in DOMAIN r.match : \A i \in DOMAIN trace :
            LET p == r.match[n]
                other == \E f \in resolvePath(trace[i], p.path) : f.t # p.value.t
            IN p.path[1] # <<"entity_id">> =>
                  (BodyHolds(p, trace[i]) <=>
                      eval(p, trace[i]) \/ (p.op = "!=" /\ other))

\* A constant of the type a clause compares with, for which it holds.
Witnesses(p) ==
    CASE p.op = "in" -> {p.value.list[1]}
      [] p.op \in OrderOps /\ p.value.t = "num" -> {Num(p.value.num - 1), p.value, Num(p.value.num + 1)}
      [] p.op = "!=" /\ p.value.t = "num" -> {Num(p.value.num + 1)}
      [] p.op = "!=" /\ p.value.t = "str" -> {Str(p.value.str \o <<"x">>)}
      [] p.op = "!=" /\ p.value.t = "bool" -> {Bool(~p.value.bool)}
      [] OTHER -> {p.value}

\* An event that has the value w at a path below payload.
EventWith(path, w) ==
    LET below[k \in 0..(Len(path) - 1)] ==
            IF k = 0 THEN w ELSE Map([x \in {path[Len(path) - k + 1]} |-> below[k - 1]])
    IN [id |-> "", type |-> "", entity |-> "", time |-> 0, payload |-> below[Len(path) - 1].map]

InPayload(path) == path[1] = <<"payload">> /\ Len(path) > 1
\* Where an event may have a value of type t.
MayHold(path, t) ==
    \/ InPayload(path)
    \/ /\ Len(path) = 1
       /\ \/ t = "map" /\ path[1] = <<"payload">>
          \/ t = "num" /\ path[1] = <<"timestamp">>
          \/ t = "str" /\ path[1] \in {<<"event_type">>, <<"event_id">>, <<"entity_id">>}

\* Of the clauses that lowerMatch accepts, those on a path below payload are not dead:
\* some event passes, so that a constant of the wrong type is refused at load and does
\* not silently disable a rule. The path is not checked: a clause is accepted, and never
\* holds, if no event has a value of its constant's type there (a name that is not in
\* the envelope, or one that is, compared with another type).
AcceptedIsLive ==
    phase = "first" =>
        \A r \in ToSet(rules) : \A n \in DOMAIN r.match :
            LET p == r.match[n]
                type == IF p.op = "in" THEN p.value.list[1].t ELSE p.value.t
            IN p.op # "exists" =>
                  /\ InPayload(p.path) => \E w \in Witnesses(p) : eval(p, EventWith(p.path, w))
                  /\ ~MayHold(p.path, type) => \A i \in DOMAIN trace : ~eval(p, trace[i])

DistinctIds == \A i, j \in DOMAIN trace : trace[i].id = trace[j].id => i = j

\* No rule failed in a run, and the run was over before an increment left a window.
Quiet(run) ==
    /\ \A i \in DOMAIN results[run] : results[run][i].failed = {}
    /\ \A r \in dirs[run] : r.limit > 0 => ended[run] <= r.window

\* Each entry goes through the pool and the comparison once, and comparing a rule
\* set with itself reports no change, however the sorts ordered equal priorities and
\* the workers the events, as long as no event_id occurs twice, no rule failed in
\* either run, and no rule counts (or one worker runs, no two rules of a priority
\* share a counter, and both runs were shorter than the windows: the recording of a
\* trace too, since counter() goes by the wall clock and not by the events' times).
SelfIsUnchanged ==
    /\ TypeOK /\ EachEntryOnce
    /\ /\ phase = "report" /\ dirs["first"] = dirs["second"] /\ DistinctIds
       /\ \A run \in Runs : Quiet(run)
       => LET S == dirs["first"]
              apart == \A r, q \in S : r # q /\ r.prio = q.prio => r.key # q.key
          IN ~Counts(S) \/ (Cardinality(team) = 1 /\ apart) => report.changed = 0
=============================================================================
