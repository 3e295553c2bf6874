# Verification of fruitfly

fruitfly takes JSON events over HTTP, runs Starlark rules on them, and writes a
verdict per event to DuckDB and to a webhook. This directory holds TLA+ models
of the parts of it that run concurrently or can fail half-way, the TLC
configurations that check them on small instances, and TLAPS proofs of their
safety properties for every value of the constants.

Run `tlc -config X.cfg M` for a run of `PROJECT.json`, `tlapm M.tla` for the
`*Proofs` modules. `PROJECT.json` maps each definition to source lines.

## 1. Inventory

| component | state | operations | hard behaviour | correct if |
|---|---|---|---|---|
| process lifecycle, `main.go` | the two channels, `shutCtx`, `pipeCtx`, done channels | start, signal, `srv.Shutdown`, close `eventChan`, wait for the pool, force-cancel, wait for the writer | timers racing the drain; who closes what, when | nothing accepted is lost within the budget; the process ends |
| ingest server, `ingest/server.go` | none of its own; sends on `eventChan` | `POST /events`, `POST /events/batch` | non-blocking send against a full or closed channel; partly taken batches | the answer agrees with what was queued |
| cluster router, `cluster/router.go` | static peer list, HTTP client | `Owner`, `Forward` | timeouts after delivery; partly taken batches; disagreeing views of the ring | an entity's events meet on one node, once |
| worker pool, `executor/pool.go`, `env.go` | per worker: one Starlark thread, memo cache, `stepsExceeded` | `Run`, `processEvent`, `evalRule` | AfterFunc hooks running late on a reused thread; reload in mid-event | no state crosses from one event to the next |
| verdict resolution, `executor/verdict.go` | none | `resolveVerdict`, `interpretVerdict` | ties, failed rules | highest priority wins; nothing triggered means approve |
| counters, `executor/counters.go` | sharded map of rings of packed words | `increment`, `sum`, `gc` | lock-free bump, slot reuse, eviction | the answer is right to one bucket |
| event view, `executor/event.go` | a cache per event, used by one goroutine | `eventToStarlark`, `lazyConvert`, `Get` | the prefilter reads the same event in another way | rule body and prefilter agree on an event |
| rule compiler, `rules/compiler.go` | content cache | `CompileDir`, `CompileSource`, `prune`, index | parallel compile; one file fails | all or nothing; unchanged rules keep their object |
| prefilter, `rules/match.go` | per-rule counter | `lowerMatch`, `Match` | missing fields, fields of another type, numbers as int64 and float64 | a clause means what the same comparison in the body means; a constant of a wrong type is refused |
| reloader, `rules/reloader.go` | `lastHash`, watcher, debounce timer, snapshot pointer | `Run`, `Reload`, `doReload` | edits between hash and compile; lost events | the snapshot becomes what is on disk |
| statistics, `rules/stats.go`, `/admin/rules` | per rule: count, moving average, time of the last warning, all atomics | `Observe`, `WarnIfSlow`, `SlowRuleThreshold` | compare-and-swap races; clocks read long before they are used | no sample lost; warnings throttled; few rules are slow |
| builtins, `rules/udfs.go` | per-worker memo and regex cache | `memo`, `counter`, ... | | memo entries stay in their event |
| writer, `output/writer.go` | batch, DuckDB table, metrics | `Run`, `flush`, `insertBatch`, retention | transaction failure; duplicate ids; drain after cancel | one row per id; every result settled |
| webhooks, `output/writer.go` | semaphore | `sendWebhook` | full semaphore, lost answers, retries, exit in mid-delivery | slots come back; a result arrives once unless an answer was lost |
| replay tool, `cmd/replay` | results by event_id | `runReplay`, `runShadow` | order of workers, ties, shared ids, counters that go by the wall clock | a rule set compared with itself shows no change |
| jetstream shim, `jetstream_test/shim` | counters, semaphore, wait group | `readLoop`, `postEvent`, shutdown | retry on 429, timeouts after acceptance, a blocked reader | each event counted once; it ends |
| jetstream receiver and validate | counters; none | `handleWebhook`, `printReport` | totals that compensate each other | PASS and FAIL mean something |
| trace recorder, configuration | a file; none | | sequential | |

Handlers send on `eventChan`; workers receive from it and send on `resultChan`;
the writer receives from that and starts webhook goroutines. The reloader
publishes a snapshot through an atomic pointer that each worker loads once per
event. Workers share the counter store with the `gc` goroutine of the pool. Nodes
talk only by forwarding a client's lines to the peer that owns them. Around a
process the jetstream harness puts a shim that posts events, a receiver of its
webhooks, and a script that stops it and compares the three counts.

## 2. Modules

| module | models | composes with |
|---|---|---|
| `Pipeline` | handlers, pool, writer, webhook slots, retention, the shutdown of `main` | the whole process on one node; an evaluation is one step with some outcome |
| `WorkerEval` | the inside of that step: `processEvent` and `evalRule` on the reused thread, with the deadline, the hook, the forced cancel and reloads | `Pipeline.Evaluate` |
| `Counters` | `counter()` and `gc`, one action per atomic operation | called from a rule of `WorkerEval` |
| `Reloader` | the watch loop, `doReload`, `CompileDir` and its cache, one action per file access | its `Publish` is `WorkerEval.Swap` |
| `Cluster` | both ingest endpoints with routing, forwarding and local fallback on several nodes | its queue is `Pipeline.eventChan` |
| `Delivery` | abstract specification of a process: answered once, taken once, settled once | implemented by `Pipeline`; the harness is built on it |
| `Webhook` | the webhook goroutine with its attempts, and the receiver | extends `Delivery` |
| `Shim` | the shim's reader, posting goroutines and `main` | extends `Delivery` |
| `Harness` | `run.sh` and `validate` | `Shim` + `Delivery` + `Webhook` |
| `Match`, `View`, `RuleSet` | pure functions: the prefilter and its lowering; the event view and what a comparison in a rule body means on it; sort, index and merge of rules, resolution of the verdict | |
| `Replay` | the replay tool in both modes, with its worker pool | `RuleSet` + `View` + `Match` |
| `Stats` | `Observe`, `WarnIfSlow` and `/admin/rules`, one action per atomic operation | called after each rule of `WorkerEval` |
| `PipelineProofs`, `WorkerEvalProofs`, `ReloaderProofs`, `ClusterProofs`, `CountersProofs`, `StatsProofs`, `HarnessProofs`, `ReplayProofs` | theorems (section 5) | each extends the module it is about |
| `MCPipeline`, ... | constants for TLC | |

Definitions whose comment begins with "A defect" are variants of the next
definition with a plausible bug. No specification uses them; they show that each
property can fail (`PROJECT.json`, "mutants").

**Pipeline.** A request carries one event; requests with the same `event_id`
(retries, replays) have equal `IdOf`. `req` is what a handler did, `wpc`/`job` a
worker and what it holds, `writer`/`batch`/`db` the writer, `main` the place in the
shutdown sequence. `fate` is a history variable: what the writer did with each
result. `dead` in a job says that the context was already cancelled when the
worker took the event: no rule runs then and the verdict falls open to approve.
`Flush` is one transaction with its one retry; `Fresh` is `INSERT OR IGNORE`,
within the batch as well. A send on the closed `eventChan` is a panic that
net/http recovers.

**WorkerEval.** `hook[e]` is the AfterFunc of event *e*: armed, started as a
goroutine, ended, or stopped before it started. `cancelled` is the reason the
thread carries. `RuleStep` is the loop head with its check of the context and the
prefilter; `EnterRule` is the reset of `stepsExceeded`, the budget and `Uncancel`;
the hook may run between the two. `Finish` is the deferred part: stop the hook or wait
for it, clear the memo. A worker that finds no snapshot is not modelled: `main`
exits before the pool starts when the first load fails.

**Counters.** A slot is a pair of epoch and count in one word. `LoadSlot` and
`Cas` are separate, so another worker or a wrap of the ring can come between;
`ReadSlot` reads one slot of the sum at a time; `gc` picks, scans and deletes in
separate steps. `log` (history) holds the increments each series really took;
`Count` is the number of them in a set of seconds.

**Reloader.** The directory is a function from names to contents; its SHA-256 is
that function (no collisions). `HashRead` and `CompileRead` read one file each, so
`Edit` can fall between any two reads. Cached rules are numbered objects; a
rule's statistics live in the object, so keeping them means keeping the object.

**Cluster.** `View[n]` is what node *n* computes as the owner of each key; the
views may differ, as they do while a peer list is rolled out. `Self` is the
comparison with the node's own, normalised URL. A forwarded request runs the same
handler at the peer, marked so that it is not routed again. `ForwardFails` is any
error of `client.Do`: the peer was never reached ("lost"), or it was and goes on.
`ForwardRefused` is an answered 429. The handler would count its lines as rejected if
`peerStatus` found a status in the error, but `StatusError` has none of the methods it
looks for: the action follows the code into the local fallback, and `AnswerIsFinal`
(section 6) shows the consequence. `OneCopy` and `AtHome` state what is left: which
lines of a refused request may be on a second node, and where an event can be at all.
`copies` counts the copies of an event per node; its `Holders` are the nodes with one,
and `CountedOnOneNode` says when what a rule counts under a key stays on one node.
`POST /events` is a batch of one line with another rule for the status.
`affineKey` is the check of counter keys in cluster mode; a key is a sequence of
symbols, so that a key can extend an entity with ":".

**Delivery and the refinement.** `Delivery` keeps per request the answer and the
fate, the set of results the writer has taken and the set with a webhook under way.
`Pipeline` maps to it with `up` = main has not exited, `answer` = what the handler
decided (a panic or a validation error is "failed"), `taken` = what is in the batch
or settled; `fate` and `sending` are its own. `Delivers` says that every step of
handlers, workers, writer, timers and main is a step of `Delivery` or changes
nothing in it. A send on a closed channel is a failed answer; a process that ends
early leaves taken results unsettled.

**Shim, Webhook, Harness.** Each attempt of the shim to post a message is a
request of its own; the attempts share an event_id. `PostError` covers timeouts and
answers lost after the process had accepted; the shim does not repeat those. The
semaphore, the wait group, the signal and the five seconds `main` waits at the end
are all there. A webhook attempt is delivered, delivered with its answer lost,
refused for good, or failed; `unsure` remembers a lost answer. The script moves
from the shim to SIGTERM to validate; `printReport` is validate's three checks.

**Match, View, RuleSet, Replay.** Values carry a type tag. `lowerMatch` turns a
Starlark match into predicates or refuses it; `eval` is a predicate on an event.
`View` is the other route: the event converted to Starlark values and the same
comparison made there. `SortedRules` returns any order an unstable sort may give.
The loops of the code (the buckets of the index, the merge of two of them, the pass
of `resolveVerdict`, the rules of an event, the walk along a path) are recursive
functions of the iteration, holding what the loop's variables hold. `Values` are the
JSON values an event can hold: payloads and, with a map, its members.
`Replay` compiles, runs a trace through a pool once or twice, keeps results by
event_id (the last one wins) and compares. In replay mode the recorded verdicts are
those of a first run. A rule with `limit` reads a counter, so that its verdict
depends on the order of events and on the clock: `Stamped` puts an increment into the
bucket of `now`, `InWindow` sums the buckets that start in the rule's window before
`now`, and `Tick` moves the clock during a run. A rule may fail (`Faults`), before or
after it has counted. `ended` (history) is the clock at the end of each run.
`EachEntryOnce`, a conjunct of `SelfIsUnchanged`, is
the bookkeeping of the entries between trace, channel, workers, results and report.

**Stats.** Averages are integers and the smoothing factor is `1/AlphaInv`; the
compare-and-swap loop is load, then swap or load again. `folded` (history) holds,
per rule, each sample with the average that was stored for it; no sample is lost if
these averages form a chain, each blended from the one before. `Samples` gives each rule
its durations; `rep` follows one request to `/admin/rules`, which reads all
averages for the threshold and then each again for its flag. `Ranked` is the element
at a position of the sorted averages, said by counting those below it.

## 3. Runs

| run | instance | shows |
|---|---|---|
| `pipeline_safety` | 3 requests, two with one id, 2 workers, capacities 1, batches of 2, database failures, all timers; symmetric | `Accounted`, `ResultsClosedLast`, `DrainedIsSettled`, `CleanInBudget`, `OneRowPerId`, `Tallies` (no duplicate, metrics agree, capacities kept), `Delivers` (refinement) |
| `pipeline_live` | 2 requests, 2 workers | `AcceptedSettles`, `ShutdownEnds` (if timers fire), `DrainsByItself` (if clients finish, no timer needed) |
| `worker` | 3 events on one thread, snapshots of 2 and 1 rules | `NoStaleCancel`, `BlameIsRight`, `MemoPerEvent`, `OneSnapshotPerEvent`, `EventFinishes` |
| `counters` | 2 workers, 1 key, buckets of 2 s, ring of 2, windows of 3 s and of the whole ring, 4 s of clock, 3 calls | `CountIsAccurate`, `LostOnlyByEviction`, `EvictsOnlyIdle` |
| `reloader` | 2 files, 4 contents (one rule in two versions, another rule, one that does not compile), 2 edits | `SkipIsSafe`, `AllOrNothing`, `StatsSurvive`, `Converges`, `WatchConverges` |
| `cluster` | 3 nodes, a batch of a bad line, two lines for one peer and one of the node's own, a single event for the same peer, queues of 1, disagreeing views, counter keys of one and of two entities | `ToldIsQueued`, `AtHome`, `OneCopy`, `AlwaysAnswered` |
| `harness` | a stream of a post, its deletion, a like and the post again; 2 attempts each, 1 posting goroutine, `-max-events` 2, 1 webhook slot, database failures | `ShimAccounts`, `AcceptedOnce`, `HookOnceUnlessUnsure`, `ReportIsRight`, `ShimEnds`, `SlotsReturn` |
| `replay` | 20 rule directories (ties across types, wildcards, counters with windows of 1 and 2 s, each operator, clauses that never hold, an id used twice, 13 matches that are refused), 6 traces of up to 2 events, one rule that fails or none, a clock of 3 s, pools of 1 and 2, both modes | `VerdictIsRight`, `PrefilterLikeBody`, `AcceptedIsLive`, `SelfIsUnchanged` |
| `stats` | 3 rules, 2 workers, 4 evaluations, a clock of 2 intervals, one request | `NoSampleLost`, `WarnsApart`, `SlowIsMinority` |

The `TypeOK` of `Pipeline`, `WorkerEval` and `Reloader` is a theorem of its own
(section 5); that of the other modules is a conjunct of `CountIsAccurate`,
`ToldIsQueued`, `ReportIsRight`, `SelfIsUnchanged` and `NoSampleLost`. The runs
`worker_backstop`, `reloader_revert` and `cluster_refused` are
findings of section 6.

*Why the bounds are enough.* Three requests suffice for two to share an id and one not,
and fill a channel, a worker and a batch of two at once; capacities of one make every
full-channel case happen. Three events put a late hook behind a whole event. The ring of
two slots wraps within the clock's range, so reuse, a window as long as the ring and
ageing out occur; `MaxLag` says that a call ends long before its series wraps, as its
event's timeout (milliseconds against an hour) ensures. It is assumed to be a bucket
shorter than the longest window: with a call almost as old as the window, the ring could
have come back to its slot, and its swap would put an old bucket over a newer one, so
that `gc` takes the series for idle. Two edits are an edit between hash and compile plus
one after. Two lines to one peer with a queue of one are the partly taken group; a batch
that is split over two peers has more states than a run can visit, and is covered by the
theorems only. In the harness two events that may be sent and two attempts make every
order of an answer, its loss, a retry and the end of the shim; with one slot a webhook
finds the semaphore full; results whose verdict the webhook settings leave out are not
in the run. Three rules are the smallest group with a minority, and a rule evaluated by
both workers at once needs two of the four evaluations. Replay's clock runs past both
windows. `MaxCalls`, `MaxNow`, `MaxEdits`, `MaxObserves` and `WorkerEval`'s `MaxEvents`
are bounds of the models, not of the program.

*Deadlock* is not checked in `counters`, `cluster` and `stats`: when the bounded
calls, requests or evaluations are done, the system stops. Elsewhere it is.

## 4. Fairness

`FairSpec` assumes only what the Go scheduler gives: a runnable goroutine runs and a
ready arm of a select is taken in the end. For a worker that includes that an
evaluation ends, by its step budget. In `Pipeline` the writer's arms have weak
fairness one by one, since `select` chooses at random. Stronger assumptions are
hypotheses of the property that needs them, not of the specification:

- `TimersFire`: the shutdown timers fire (`AcceptedSettles`, `ShutdownEnds`);
- `ClientsFinish`: clients finish their bodies (`DrainsByItself`);
- `PollTicks`, `WatchWorks`: the ticker ticks; fsnotify delivers and the
  debounce timer fires (`Converges`, `WatchConverges`).

In `Cluster` handlers are fair and a forward ends, with an answer or by its 5 s
timeout; peers and workers need not move. In `Harness` the shim's reader runs
when it is not waiting for the network, its `main` and its posting goroutines run
and their client gives up after 10 s, and webhook goroutines run and their
client gives up after 5 s; neither the stream, nor the process, nor the receiver need
ever do anything. No specification obliges a client, a
signal, a deadline, an edit or a webhook receiver to do anything.

## 5. Proofs

All theorems are of the form `Spec => []P` (or an action property) and hold for
every finite set of requests, workers and files and every capacity, from the named
assumptions of the modules.

*Pipeline.* `TypeCorrect` is inductive by itself. `Order` (once main is past
closing, `eventChan` is closed; `resultChan` closed implies all workers gone, which
implies `eventChan` closed and empty; the writer is done only after that) gives
`ResultsClosedLast`. `Accounted` is not inductive: a flush would take an event out of
the union if it were also somewhere else. `Once` says that the places are disjoint
and their sequences free of repetition; `Places` = `Accounted /\ Once` is inductive,
and `Ledger` adds `OneRowPerId`, which needs to know that a batched request has no
fate yet. `DrainedIsSettled` follows from `Order` and `Ledger`, since all other places are
empty then. `CleanInBudget` needs `DeadOnlyCancelled`: a dead job exists only after
the forced cancel, which needs an expired budget.

*WorkerEval.* `Inv` = `TypeOK /\ Hooks /\ Running`: which states the hooks of past,
present and future events can be in, and which cancel reasons a thread can carry
while a rule runs. `NoStaleCancel` and `BlameIsRight` follow. `MemoPerEvent` has
its own small invariant; `Accounts` (every fate so far is of this event's
snapshot, and there are no more of them than rules) gives `OneSnapshotPerEvent`.

*Reloader.* `Shape` is the shape of the state, with the compile goroutines'.
`Hashes` relates `lastHash`, the hash under way and what each goroutine read to
the contents a file has had; it is inductive only without reverts, and
`SkipIsSafeCorrect` says so (`ASSUME ~MayRevert`). `Objects` says that cache,
goroutines and published rules agree on the object of a content and on what
compiled; `AllOrNothing` and `StatsSurvive` follow. `Flags` completes the types.

`Delivers` is a step simulation: under `Ledger`, each step of `Pipeline` maps to a step
of `Delivery` or leaves its variables alone. Enqueuing an event decides an answer;
taking a result grows `taken`; a flush settles exactly what waits, since
`D!Waiting = Batched` by `Places`. `Tallies` adds the capacities of the stages
(`Caps`), the writer's counters against the fates (`Counts`), and a counting argument:
the events in flight are the union of disjoint places, and a sequence without
repetition has as many members as places.

*Cluster.* `IInv` is, per request: `Staged` (what is staged for a peer are lines it
owns, each once), `Forwarded` (how far the requests to the peers are and what a failed
one implies), `Copied` (a copy is at the owner, or at the client's node after the
forward failed or was refused, `Fallback`, and none is there before its turn) and the
counting part: the numbers of the answer are the sizes of the sets of events the node
has queued, peers have confirmed, and are still to be dealt with. None is inductive
without the others: a count can only be right if the event it counts was not queued
before. Actions of one request keep the invariant of the others because events belong to
one request. `ToldIsQueued` and `AtHome` follow, for any nodes, bodies, capacities and
any (disagreeing) views of the ring. `OneCopy` also needs `Refusals`: lines are staged
in the order of the body, and a peer that refused has taken those before the first it
refused, and no other (`TakenPrefix`).

*Counters.* `Ring` says that a slot's bucket is its own, is not younger than the clock
and not older than any increment counted there; `Visit` is what `gc` may conclude from
the slots it has scanned; `Created` bounds the series by the calls, `Busy` the age of a
call. A swap that starts a new bucket must not put an older one over a newer one:
that is where `LagAssumption` is needed. `LostOnlyByEviction` and `EvictsOnlyIdle`
follow. `CountIsAccurate` needs more, `SInv`: `Exact` (a slot's count is the number of
increments logged in its bucket), `Bounded` (a call counts once, so that no count
outgrows the calls) and `Partial`, about a sum on its way: after *i* slots it is at most
the increments of these slots' seconds in the window, and at least those that were
complete when it began and stay a bucket width inside the window. The lower bound must
survive what happens between two reads: the clock moves the far end of the window on, and
a slot that is reused before it is read held a bucket that has left the window by then.
A swap adds one pair `<<second, n>>` to the set that `Count` counts; a read adds the
seconds of one slot, which are disjoint from those before.

*Stats.* `Counted` (the evaluations are the stored averages and the workers between
`evals.Add` and their swap), the chain of averages, and `Warned` (`lastWarn` is the
last warning; a worker at its swap holds a time an interval later than the value it
compares with). The compare-and-swap makes the held value the current one.
`SlowIsMinority` needs `Flagging`, which ties each flagged rule to its place among the
peers, and `RankedFacts`: by induction over the averages one of them has at most *k*
below it and more than *k* up to it. What is flagged then lies above the middle
position of the group, and those are fewer than half.

*Shim, Webhook, Harness.* One invariant for the composition: `ShimInv` (the events
handed over are a prefix of the stream, and the counters are the sizes of the sets of
goroutines), `Attempts` (earlier attempts were answered "busy", later ones not
sent), `Process`, `HookInv` (what the receiver has counted per result, by attempt) and
`Receiver` (its totals while every answer arrived). `ReportIsRight` compares
cardinalities: of the messages sent, the requests accepted, the rows and the webhooks,
by injections between them. `ShimAssumption` says that the messages of the stream
are distinct, which their number in the stream makes them; their event_ids may coincide.

*Replay.* `AcceptedIsLive` is proved through `lowerScalar`, `lowerValue`, `lowerClause`
and `lowerMatch`: per operator, what lowering accepted has a witness. Its first half,
that a clause on a path below payload holds for some event, builds that event and finds
the witness on the path (`LivePath`). Its second half, that a clause which asks for a
type not found at its path holds for none, follows from the type of what an operator
accepts (`HoldsType`) and of what a path leads to (`DeadPath`). `Snapshot` (a snapshot's
rules are compiled rules of its directory) is the invariant. The assumptions
(`ReplayAssumption`) are that directories and pools are finite, that a rule has a
priority, a verdict, a limit and a window, that a bucket has a length, that the
constants of a match are Starlark values with contents of the type of their tag, and
that events hold JSON values. `EachEntryOnce` needs `EntriesInv`: while a pool runs
every entry is in the channel, in a worker, or has a result under its id, and their
numbers add up; so when the pool is idle the comparison finds a result for each entry.

A recursive function is what its body says only if some function satisfies its
definition. `SetInduction` (a set of naturals with 0 and its successors is `Nat`: else
a finite part of it would be in bijection with a proper part of itself) gives that for
each loop (`OfTypeLoop`, `MergeLoop`, `VerdictLoop`, `EventLoop`, `FieldWalk`,
`IndexWalk`, `BelowLoop`), and then what each computes:

- `IndexInOrder`: the index returns the rules of a type and the wildcards, each once, by
  priority. `Merged` is the invariant of the merge: nothing it took has a lower priority
  than what is left.
- `VerdictIsBest`: `resolveVerdict` returns the verdict of a rule no other beats; by
  `OneVerdict` that verdict is one and the same for all orders of a set of rules.
- `EventOutcome`: the rules of an event that trigger or fail, and the counters they
  leave. While no rule fails and no increment has left a window, a counter has advanced
  by the number of rules on that key so far; where rules of one priority have keys of
  their own, that number does not depend on their order.

`VerdictIsRight` then rests on `RunInv` (the snapshot in use is a sort of what the
directory compiles to, and each result is right for its entry: a rule that fits has
triggered or failed). `CountersInv` says that counters hold buckets and the clock is a
number. For `SelfIsUnchanged`, `SerialInv` says that a pool of one worker takes the
entries in order and its counters hold what the finished entries advanced, as long as no
result has a failed rule (`Clean`) and the clock has not left a window (`Within`), and
`Exact` that a result carries the verdict of `Triggering`, a function of the trace and
the directory alone, if no rule counts, or one worker runs and no two rules of a
priority share a counter, on the same two conditions, which the property states as
`Quiet` of both runs; `Saved` keeps that of the first run. Two runs of one directory
then have equal verdicts under every event_id (`NoDifference`).

`PrefilterLikeBody`: along a path the prefilter and the body find nothing, or the same
value, the body's converted (`Agree`, by induction along the path: `PathAgrees`); then
they agree operator by operator (`HoldsAgrees`) on constants of the types `lowerMatch`
lets through (`LoweredFacts`). The timestamp is the one value that the two routes give
different types, a float and an integer.

*Only model-checked:* what is temporal under fairness (`AcceptedSettles`,
`ShutdownEnds`, `DrainsByItself`, `EventFinishes`, `Converges`, `WatchConverges`,
`AlwaysAnswered`, `ShimEnds`, `SlotsReturn`), since fairness and ENABLED are outside the
prover's reach. Every invariant and every action property of the passing runs is a
theorem. `SkipIsSafe` is one without reverts only, as the finding of section 6 requires.

## 6. Where code and documents disagree

Three have a run whose counterexample shows it:

| run | code | statement | what holds |
|---|---|---|---|
| `worker_backstop` | a deadline between the context check and `Uncancel` is erased for that rule | `executor/env.go:13` the timeout is "the backstop" | `NoStaleCancel` |
| `reloader_revert` | an edit between hash and compile that is then undone is never picked up | `rules/reloader.go:38` "the next reload recompiles" | `SkipIsSafe` without reverts |
| `cluster_refused` | `peerStatus` looks for a method that `StatusError` does not have: a peer's 429 counts as a failed forward, and its lines are processed locally | `cluster/router.go:24` "Callers must NOT replay the payload locally" | `OneCopy`, `AtHome` |

The others were met while modelling; the property named says what does hold:

| code | statement | what holds |
|---|---|---|
| workers go on taking queued events after the forced cancel; these are approved unevaluated | `main.go:250` "never under a cancelled one" | `CleanInBudget` |
| `srv.Shutdown` may give up with a handler still reading; the channel is closed under it and its send panics | `main.go:254` "no handler can send" | `CleanInBudget` |
| a batch is dropped after its second failure | `docs/WEBHOOK_RECEIVERS.md:63` "Every result is always written", `docs/FRUITFLY_DESIGN.md:381` "guaranteed" | `Accounted`, `Delivers` |
| a timeout after delivery is treated as if nothing was delivered | `ingest/server.go:201` "cannot duplicate" | `OneCopy` |
| a replay takes milliseconds, but `counter()` sums a window that ends at `time.Now()`: a recording made over hours shows changes with the very rules it was made with (and a window below the 60 s of a bucket may miss the rule's own increment) | `docs/TESTING_PLAN.md:35` "replay to detect regressions" | `SelfIsUnchanged`, for runs shorter than the windows |
| `lowerMatch` does not check the path: `["timestamp", "==", "2024"]` or `["char_count", ">", 1]` is accepted, never holds, and shows only in the `prefiltered` count | `docs/WRITING_RULES.md:73` "Paths address the event envelope" | `AcceptedIsLive`, for paths below payload |
| affine keys of one entity may also be affine to another: "a:x" to "a" and to an entity "a:x" | `executor/env.go:43` "counts stay exact" | `AtHome`, for keys of one entity |
| a webhook whose answer is lost is sent again | `docs/WEBHOOK_RECEIVERS.md:64` "At-most-once per result" | `HookOnceUnlessUnsure` |
| the back-off after the last attempt is never slept | `docs/WEBHOOK_RECEIVERS.md:62` "(100ms, 200ms, 400ms)" | `SlotsReturn` |
| main does not wait for webhooks when it exits | `docs/FRUITFLY_DESIGN.md:560` "5-second grace period" | `HookOnceUnlessUnsure` |
| `-max-events` counts events handed over, also those dropped later | `jetstream_test/shim/main.go:163` "Stop after sending this many" | `ShimAccounts` |
| an event accepted without the shim knowing can make up for one that was lost, and validate prints PASS | `jetstream_test/validate/main.go` compares totals | `ReportIsRight` |
| cold rules are left out of the peers, but are flagged | `rules/stats.go:15` "a cold rule's first ... evaluations don't flag it" | `SlowIsMinority` |
| the view of an event has no `entity_id`; only the prefilter sees it | `docs/SCALING_10M.md:153` `event["entity_id"]` | `PrefilterLikeBody`, for the other fields |

## 7. Not modelled

- Starlark itself, JSON and HTTP parsing, DuckDB and fsnotify beyond what the code
  relies on; the hash functions of the router (a view of ownership is a constant).
- The admin endpoints other than `/admin/rules`; they only read.
- Configuration: one file, read at start; its effect is the constants. The trace
  recorder: it appends lines under a mutex and nothing in `main` uses it.
- Of the event view: its per-event cache, iteration and dict methods, which no
  second goroutine sees. Of the builtins: `now`, `log`, `hash`, `regex_match`.
- Float rounding, and integers above 2^53 compared as float64 by the prefilter and
  exactly by a rule body. The clock of `Counters` does not run backwards.
- Printing, logs, and the shim's own statistics lines.

## 8. Plan

Done: the models of all components that keep state or compute a result, the
abstract specification and its refinement, and a proof of every safety property of
the runs. Left to do:

1. of `Cluster`, `Harness`: what a step never does (an answer never changes, a copy is
   never taken back) as action properties;
2. a refinement of `Delivery` by several nodes, with `Cluster` in place of the handlers;
3. the per-event cache of the event view, should workers ever share an event.
