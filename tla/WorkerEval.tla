----------------------------- MODULE WorkerEval -----------------------------
(***************************************************************************)
(* One worker goroutine evaluating events one after the other on its one,  *)
(* reused Starlark thread, with the goroutines that run beside it: the     *)
(* deadline of the event's context, the AfterFunc hook that cancels the    *)
(* thread when the context is done, pipeCancel, and the reloader swapping  *)
(* the rule snapshot.                                                      *)
(*                                                                         *)
(* What a rule computes is abstracted to how its evaluation ends. A memo   *)
(* entry is abstracted to the event that computed it.                      *)
(***************************************************************************)
EXTENDS Naturals, Sequences

CONSTANTS
    MaxEvents,  \* bound: how many events the worker is given
    Versions,   \* rule snapshots
    RuleCount   \* per snapshot: how many of its rules match the event type

ASSUME MaxEventsAssumption == MaxEvents \in Nat \ {0}
ASSUME RuleCountAssumption == RuleCount \in [Versions -> Nat]

VARIABLES
    n,          \* number of the event being processed, or last processed
    pc,         \* where the worker stands
    snapshot,   \* the shared snapshot pointer
    snap,       \* the snapshot this event loaded
    fates,      \* how each matched rule so far ended, in rule order
    pipeDone,   \* pipeCtx, the parent context, is cancelled
    ctxDone,    \* eventCtx.Err() # nil
    hook,       \* per event: its AfterFunc
    cancelled,  \* the thread's cancel reason: 0, an event's hook, or StepCancel
    exceeded,   \* worker.stepsExceeded
    spent,      \* history: the running rule used up its step budget
    memo,       \* the events whose memo entries the worker holds
    memoRead    \* history: the events whose entries this event has read

vars == <<n, pc, snapshot, snap, fates, pipeDone, ctxDone, hook, cancelled,
          exceeded, spent, memo, memoRead>>

EventNo == 1..MaxEvents
StepCancel == MaxEvents + 1
PC == {"idle", "rule", "enter", "run", "stop"}
HookState == {"none", "armed", "started", "ended", "stopped"}

\* prefiltered; not run because the context was done; a verdict; an error
\* blamed on the context, on the step budget, on the rule.
HowEnded == {"prefiltered", "notrun", "verdict", "ctx", "steps", "rule"}
RuleFate == [ver : Versions, how : HowEnded]

\* What the worker's variables hold. The rule being evaluated is one of the
\* snapshot's: the loop of processEvent never runs past the matched rules.
TypeOK ==
    /\ n \in 0..MaxEvents
    /\ pc \in PC
    /\ snapshot \in Versions
    /\ snap \in Versions
    /\ fates \in Seq(RuleFate)
    /\ pipeDone \in BOOLEAN
    /\ ctxDone \in BOOLEAN
    /\ hook \in [EventNo -> HookState]
    /\ cancelled \in 0..StepCancel
    /\ exceeded \in BOOLEAN
    /\ spent \in BOOLEAN
    /\ memo \in SUBSET EventNo
    /\ memoRead \in SUBSET EventNo
    /\ pc # "idle" => n \in EventNo
    /\ pc \in {"enter", "run"} => Len(fates) < RuleCount[snap]

Init ==
    /\ n = 0
    /\ pc = "idle"
    /\ snapshot \in Versions
    /\ snap = snapshot
    /\ fates = <<>>
    /\ pipeDone = FALSE
    /\ ctxDone = FALSE
    /\ hook = [e \in EventNo |-> "none"]
    /\ cancelled = 0
    /\ exceeded = FALSE
    /\ spent = FALSE
    /\ memo = {}
    /\ memoRead = {}

-----------------------------------------------------------------------------
(* processEvent.                                                           *)

\* A new event: its context, a child of pipeCtx; the hook, which is started at
\* once when the context is already done; one load of the snapshot pointer.
Begin ==
    /\ pc = "idle"
    /\ n < MaxEvents
    /\ n' = n + 1
    /\ pc' = "rule"
    /\ ctxDone' = pipeDone
    /\ hook' = [hook EXCEPT ![n + 1] = IF pipeDone THEN "started" ELSE "armed"]
    /\ snap' = snapshot
    /\ fates' = <<>>
    /\ memoRead' = {}
    /\ UNCHANGED <<snapshot, pipeDone, cancelled, exceeded, spent, memo>>

\* A defect: the loop reads the snapshot pointer for every rule.
RuleStepLive ==
    /\ pc = "rule"
    /\ Len(fates) < RuleCount[snapshot]
    /\ \/ /\ fates' = Append(fates, [ver |-> snapshot, how |-> "prefiltered"])
          /\ UNCHANGED pc
       \/ /\ ctxDone
          /\ fates' = Append(fates, [ver |-> snapshot, how |-> "notrun"])
          /\ UNCHANGED pc
       \/ /\ ~ctxDone
          /\ pc' = "enter"
          /\ UNCHANGED fates
    /\ UNCHANGED <<n, snapshot, snap, pipeDone, ctxDone, hook, cancelled,
                   exceeded, spent, memo, memoRead>>

\* The next matched rule: its native prefilter, then the check of the context.
RuleStep ==
    /\ pc = "rule"
    /\ Len(fates) < RuleCount[snap]
    /\ \/ /\ fates' = Append(fates, [ver |-> snap, how |-> "prefiltered"])
          /\ UNCHANGED pc
       \/ /\ ctxDone
          /\ fates' = Append(fates, [ver |-> snap, how |-> "notrun"])
          /\ UNCHANGED pc
       \/ /\ ~ctxDone
          /\ pc' = "enter"
          /\ UNCHANGED fates
    /\ UNCHANGED <<n, snapshot, snap, pipeDone, ctxDone, hook, cancelled,
                   exceeded, spent, memo, memoRead>>

\* A defect: stepsExceeded keeps the value an earlier rule left.
EnterRuleStaleFlag ==
    /\ pc = "enter"
    /\ pc' = "run"
    /\ cancelled' = 0
    /\ spent' = FALSE
    /\ UNCHANGED <<n, snapshot, snap, fates, pipeDone, ctxDone, hook, exceeded,
                   memo, memoRead>>

\* evalRule clears the cancellation, whoever asked for it, and the step flag,
\* and grants a fresh budget.
EnterRule ==
    /\ pc = "enter"
    /\ pc' = "run"
    /\ cancelled' = 0
    /\ exceeded' = FALSE
    /\ spent' = FALSE
    /\ UNCHANGED <<n, snapshot, snap, fates, pipeDone, ctxDone, hook, memo, memoRead>>

\* The rule calls memo(): a hit reads the worker's entry, a miss computes and
\* keeps one.
Memo ==
    /\ pc = "run"
    /\ cancelled = 0
    /\ IF memo # {}
       THEN memoRead' = memoRead \cup memo /\ UNCHANGED memo
       ELSE memo' = {n} /\ UNCHANGED memoRead
    /\ UNCHANGED <<n, pc, snapshot, snap, fates, pipeDone, ctxDone, hook,
                   cancelled, exceeded, spent>>

\* OnMaxSteps: the budget is used up. A cancel reason that is already set stays.
OutOfSteps ==
    /\ pc = "run"
    /\ ~spent
    /\ exceeded' = TRUE
    /\ spent' = TRUE
    /\ cancelled' = IF cancelled = 0 THEN StepCancel ELSE cancelled
    /\ UNCHANGED <<n, pc, snapshot, snap, fates, pipeDone, ctxDone, hook, memo, memoRead>>

\* The call returns a verdict.
ReturnVerdict ==
    /\ pc = "run"
    /\ cancelled = 0
    /\ pc' = "rule"
    /\ fates' = Append(fates, [ver |-> snap, how |-> "verdict"])
    /\ UNCHANGED <<n, snapshot, snap, pipeDone, ctxDone, hook, cancelled,
                   exceeded, spent, memo, memoRead>>

\* The call fails: the interpreter finds the thread cancelled, or the rule
\* raises an error of its own.
ReturnError ==
    /\ pc = "run"
    /\ pc' = "rule"
    /\ fates' = Append(fates, [ver |-> snap,
                               how |-> IF ctxDone THEN "ctx"
                                       ELSE IF exceeded THEN "steps" ELSE "rule"])
    /\ UNCHANGED <<n, snapshot, snap, pipeDone, ctxDone, hook, cancelled,
                   exceeded, spent, memo, memoRead>>

\* A panic inside a builtin, recovered by evalRule, or a value that is not a
\* verdict: always the rule's error.
ReturnBad ==
    /\ pc = "run"
    /\ cancelled = 0
    /\ pc' = "rule"
    /\ fates' = Append(fates, [ver |-> snap, how |-> "rule"])
    /\ UNCHANGED <<n, snapshot, snap, pipeDone, ctxDone, hook, cancelled,
                   exceeded, spent, memo, memoRead>>

\* All rules are done: the deferred calls begin.
LoopEnd ==
    /\ pc = "rule"
    /\ Len(fates) >= RuleCount[snap]
    /\ pc' = "stop"
    /\ UNCHANGED <<n, snapshot, snap, fates, pipeDone, ctxDone, hook, cancelled,
                   exceeded, spent, memo, memoRead>>

\* A defect: stop() without waiting for a hook that has already started.
FinishNoWait ==
    /\ pc = "stop"
    /\ hook' = [hook EXCEPT ![n] = IF @ = "armed" THEN "stopped" ELSE @]
    /\ pc' = "idle"
    /\ ctxDone' = TRUE
    /\ memo' = {}
    /\ UNCHANGED <<n, snapshot, snap, fates, pipeDone, cancelled, exceeded, spent, memoRead>>

\* A defect: wait for the hook even when stop() kept it from starting.
FinishAlwaysWait ==
    /\ pc = "stop"
    /\ hook[n] = "ended"
    /\ pc' = "idle"
    /\ ctxDone' = TRUE
    /\ memo' = {}
    /\ UNCHANGED <<n, snapshot, snap, fates, pipeDone, hook, cancelled, exceeded,
                   spent, memoRead>>

\* A defect: the memo is not cleared.
FinishKeepMemo ==
    /\ pc = "stop"
    /\ hook[n] \in {"armed", "ended"}
    /\ hook' = [hook EXCEPT ![n] = IF @ = "armed" THEN "stopped" ELSE @]
    /\ pc' = "idle"
    /\ ctxDone' = TRUE
    /\ UNCHANGED <<n, snapshot, snap, fates, pipeDone, cancelled, exceeded,
                   spent, memo, memoRead>>

\* The deferred calls: stop() keeps an armed hook from starting, and otherwise
\* the worker waits for it to end; then cancel() and clear(memo).
Finish ==
    /\ pc = "stop"
    /\ hook[n] \in {"armed", "ended"}
    /\ hook' = [hook EXCEPT ![n] = IF @ = "armed" THEN "stopped" ELSE @]
    /\ pc' = "idle"
    /\ ctxDone' = TRUE
    /\ memo' = {}
    /\ UNCHANGED <<n, snapshot, snap, fates, pipeDone, cancelled, exceeded, spent, memoRead>>

-----------------------------------------------------------------------------
(* Beside the worker.                                                      *)

\* The event's deadline passes. The context is done before its hooks start.
Deadline ==
    /\ pc # "idle"
    /\ ~ctxDone
    /\ ctxDone' = TRUE
    /\ UNCHANGED <<n, pc, snapshot, snap, fates, pipeDone, hook, cancelled,
                   exceeded, spent, memo, memoRead>>

\* pipeCancel() at the end of main's patience: every child context is done.
PipeCancel ==
    /\ ~pipeDone
    /\ pipeDone' = TRUE
    /\ ctxDone' = TRUE
    /\ UNCHANGED <<n, pc, snapshot, snap, fates, hook, cancelled, exceeded,
                   spent, memo, memoRead>>

\* The done context starts the hook in a goroutine of its own.
HookStart(e) ==
    /\ hook[e] = "armed"
    /\ ctxDone
    /\ hook' = [hook EXCEPT ![e] = "started"]
    /\ UNCHANGED <<n, pc, snapshot, snap, fates, pipeDone, ctxDone, cancelled,
                   exceeded, spent, memo, memoRead>>

\* thread.Cancel, which keeps a reason that is already there; cancelDone is
\* closed.
HookRun(e) ==
    /\ hook[e] = "started"
    /\ cancelled' = IF cancelled = 0 THEN e ELSE cancelled
    /\ hook' = [hook EXCEPT ![e] = "ended"]
    /\ UNCHANGED <<n, pc, snapshot, snap, fates, pipeDone, ctxDone, exceeded,
                   spent, memo, memoRead>>

\* The reloader publishes a snapshot.
Swap ==
    /\ snapshot' \in Versions \ {snapshot}
    /\ UNCHANGED <<n, pc, snap, fates, pipeDone, ctxDone, hook, cancelled,
                   exceeded, spent, memo, memoRead>>

-----------------------------------------------------------------------------
Rule == RuleStep \/ EnterRule \/ Memo \/ OutOfSteps \/ ReturnVerdict
            \/ ReturnError \/ ReturnBad
WorkerStep == Begin \/ Rule \/ LoopEnd \/ Finish

Next ==
    \/ WorkerStep
    \/ Deadline
    \/ PipeCancel
    \/ \E e \in EventNo : HookStart(e) \/ HookRun(e)
    \/ Swap

Spec == Init /\ [][Next]_vars

\* The worker runs, a rule comes to an end (its step budget sees to it), a
\* started goroutine runs. No deadline, cancel or reload has to come.
Fairness ==
    /\ WF_vars(Begin \/ RuleStep \/ EnterRule \/ LoopEnd \/ Finish)
    /\ WF_vars(ReturnVerdict \/ ReturnError \/ ReturnBad)
    /\ \A e \in EventNo : WF_vars(HookStart(e) \/ HookRun(e))

FairSpec == Spec /\ Fairness

-----------------------------------------------------------------------------
(* Properties.                                                             *)

\* No cancellation meant for an earlier event reaches a later one: the hook of
\* every earlier event has ended or will never start, and a running rule sees
\* only its own event's cancellation or its own exhausted budget.
NoStaleCancel ==
    /\ \A e \in EventNo : e < n => hook[e] \in {"ended", "stopped"}
    /\ pc = "run" => cancelled \in {0, n, StepCancel}

\* A rule is blamed for what it did: an error is put down to the step budget
\* only if this very rule used it up, and a rule that was interrupted is never
\* recorded as having failed by itself.
BlameIsRight ==
    /\ pc = "run" /\ exceeded => spent
    /\ pc = "run" /\ cancelled # 0 => ctxDone \/ exceeded

\* The memo cache never carries a value from one event to another.
MemoPerEvent == memoRead \subseteq {n} /\ (pc = "idle" => memo = {})

\* The rules evaluated for an event all come from one snapshot, and each rule
\* of it is accounted for exactly once, whatever is published meanwhile.
OneSnapshotPerEvent ==
    pc = "stop" => /\ \A i \in 1..Len(fates) : fates[i].ver = snap
                   /\ Len(fates) = RuleCount[snap]

\* Every event is finished: the wait for the hook cannot block the worker.
EventFinishes == pc # "idle" ~> pc = "idle"

\* The comment on ruleStepBudget: the event's wall-clock timeout is the backstop
\* for a running rule, so once the hook has run the thread is cancelled.
DeadlineReachesRule == pc = "run" /\ hook[n] = "ended" => cancelled # 0

=============================================================================
