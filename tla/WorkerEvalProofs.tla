-------------------------- MODULE WorkerEvalProofs --------------------------
(***************************************************************************)
(* Machine-checked proofs about WorkerEval, for every number of events and *)
(* every family of snapshots.                                              *)
(***************************************************************************)
EXTENDS WorkerEval, TLAPS

\* The life of the hooks: one event has at most one, armed when the event
\* begins; when the worker goes on to the next event it has ended or can never
\* start. A cancel reason is set by a hook that has ended, and a started hook
\* belongs to a context that is done.
Hooks ==
    /\ \A e \in EventNo : e < n => hook[e] \in {"ended", "stopped"}
    /\ \A e \in EventNo : e > n => hook[e] = "none"
    /\ pc = "idle" /\ n > 0 => hook[n] \in {"ended", "stopped"}
    /\ pc # "idle" => hook[n] \in {"armed", "started", "ended"}
    /\ pc # "idle" /\ hook[n] \in {"started", "ended"} => ctxDone
    /\ pipeDone => ctxDone
    /\ \A e \in EventNo : cancelled = e => hook[e] = "ended"

\* What the running rule can see.
Running ==
    pc = "run" => /\ cancelled \in {0, n, StepCancel}
                  /\ cancelled = StepCancel => exceeded
                  /\ exceeded => spent

Inv == TypeOK /\ Hooks /\ Running

\* A new worker satisfies the invariant.
LEMMA InvInit == Init => Inv
<1> SUFFICES ASSUME Init PROVE Inv
  OBVIOUS
<1>1. TypeOK
  <2>1. n \in 0..MaxEvents /\ cancelled \in 0..StepCancel
    BY MaxEventsAssumption DEF Init, StepCancel
  <2>2. fates \in Seq(RuleFate) /\ hook \in [EventNo -> HookState]
    BY DEF Init, HookState
  <2>3. memo \in SUBSET EventNo /\ memoRead \in SUBSET EventNo
    BY DEF Init
  <2> QED BY <2>1, <2>2, <2>3 DEF Init, TypeOK, PC
<1>2. Hooks
  BY MaxEventsAssumption DEF Init, Hooks, EventNo
<1>3. Running
  BY DEF Init, Running
<1> QED BY <1>1, <1>2, <1>3 DEF Inv

\* Recording how a rule ended keeps the list of fates well typed.
LEMMA FatesAppend ==
    ASSUME TypeOK, NEW h \in HowEnded, NEW v \in Versions
    PROVE  Append(fates, [ver |-> v, how |-> h]) \in Seq(RuleFate)
<1>1. [ver |-> v, how |-> h] \in RuleFate
  BY DEF RuleFate
<1> QED BY <1>1 DEF TypeOK

\* Every step of the worker and of what runs beside it keeps the types.
LEMMA TypeNext == Inv /\ [Next]_vars => TypeOK'
<1> SUFFICES ASSUME TypeOK, Hooks, Running, [Next]_vars PROVE TypeOK'
  BY DEF Inv
<1> USE MaxEventsAssumption DEF TypeOK, PC, HookState, EventNo, StepCancel
<1>1. CASE Begin
  <2>1. fates' \in Seq(RuleFate)
    BY <1>1 DEF Begin
  <2> QED BY <1>1, <2>1 DEF Begin
<1>2. CASE RuleStep
  <2>1. fates' \in Seq(RuleFate)
    BY <1>2, FatesAppend DEF RuleStep, HowEnded
  <2> QED BY <1>2, <2>1 DEF RuleStep
<1>3. CASE EnterRule
  <2>1. cancelled' \in 0..StepCancel
    BY <1>3 DEF EnterRule
  <2> QED BY <1>3, <2>1 DEF EnterRule
<1>4. CASE Memo
  BY <1>4 DEF Memo
<1>5. CASE OutOfSteps
  BY <1>5 DEF OutOfSteps
<1>6. CASE ReturnVerdict
  <2>1. fates' \in Seq(RuleFate)
    BY <1>6, FatesAppend DEF ReturnVerdict, HowEnded
  <2> QED BY <1>6, <2>1 DEF ReturnVerdict
<1>7. CASE ReturnError
  <2>1. (IF ctxDone THEN "ctx" ELSE IF exceeded THEN "steps" ELSE "rule") \in HowEnded
    BY DEF HowEnded
  <2>2. fates' \in Seq(RuleFate)
    BY <1>7, <2>1, FatesAppend DEF ReturnError
  <2> QED BY <1>7, <2>2 DEF ReturnError
<1>8. CASE ReturnBad
  <2>1. fates' \in Seq(RuleFate)
    BY <1>8, FatesAppend DEF ReturnBad, HowEnded
  <2> QED BY <1>8, <2>1 DEF ReturnBad
<1>9. CASE LoopEnd
  BY <1>9 DEF LoopEnd
<1>10. CASE Finish
  BY <1>10 DEF Finish
<1>11. CASE Deadline
  BY <1>11 DEF Deadline
<1>12. CASE PipeCancel
  BY <1>12 DEF PipeCancel
<1>13. ASSUME NEW e \in EventNo, HookStart(e) PROVE TypeOK'
  BY <1>13 DEF HookStart
<1>14. ASSUME NEW e \in EventNo, HookRun(e) PROVE TypeOK'
  BY <1>14 DEF HookRun
<1>15. CASE Swap
  BY <1>15 DEF Swap
<1>16. CASE UNCHANGED vars
  BY <1>16 DEF vars
<1> QED BY <1>1, <1>2, <1>3, <1>4, <1>5, <1>6, <1>7, <1>8, <1>9, <1>10, <1>11,
           <1>12, <1>13, <1>14, <1>15, <1>16 DEF Next, WorkerStep, Rule

\* A step of the worker that touches no hook, no context and no cancellation.
LEMMA HooksSame ==
    ASSUME Hooks, UNCHANGED <<n, hook, ctxDone, pipeDone, cancelled>>,
           (pc # "idle" /\ pc' # "idle") \/ pc' = pc
    PROVE  Hooks'
BY DEF Hooks

\* Every step keeps the life of the hooks and what a running rule sees.
LEMMA HooksNext == Inv /\ [Next]_vars => Hooks' /\ Running'
<1> SUFFICES ASSUME TypeOK, Hooks, Running, [Next]_vars PROVE Hooks' /\ Running'
  BY DEF Inv
<1>0. /\ n \in Nat /\ MaxEvents \in Nat /\ EventNo = 1..MaxEvents
      /\ StepCancel = MaxEvents + 1 /\ hook \in [EventNo -> HookState]
      /\ pc # "idle" => n \in EventNo
      /\ cancelled \in 0..StepCancel
  BY MaxEventsAssumption DEF TypeOK, EventNo, StepCancel
<1>1. CASE Begin
  <2>1. /\ hook' \in [EventNo -> {"none", "armed", "started", "ended", "stopped"}]
        /\ hook'[n + 1] \in {"armed", "started"}
        /\ hook'[n + 1] = "started" => pipeDone
        /\ \A e \in EventNo \ {n + 1} : hook'[e] = hook[e]
    BY <1>0, <1>1 DEF Begin, HookState
  <2>2. cancelled # n + 1
    BY <1>0, <1>1 DEF Begin, Hooks
  <2> QED BY <1>0, <1>1, <2>1, <2>2 DEF Begin, Hooks, Running
<1>2. CASE RuleStep
  BY <1>2, HooksSame DEF RuleStep, Running
<1>3. CASE EnterRule
  BY <1>0, <1>3 DEF EnterRule, Hooks, Running
<1>4. CASE Memo
  BY <1>4, HooksSame DEF Memo, Running
<1>5. CASE OutOfSteps
  BY <1>0, <1>5 DEF OutOfSteps, Hooks, Running
<1>6. CASE ReturnVerdict \/ ReturnError \/ ReturnBad \/ LoopEnd
  BY <1>6, HooksSame DEF ReturnVerdict, ReturnError, ReturnBad, LoopEnd, Running
<1>7. CASE Finish
  <2>1. /\ hook'[n] \in {"stopped", "ended"}
        /\ hook[n] = "ended" => hook'[n] = "ended"
        /\ \A e \in EventNo \ {n} : hook'[e] = hook[e]
    BY <1>0, <1>7 DEF Finish, HookState
  <2> QED BY <1>0, <1>7, <2>1 DEF Finish, Hooks, Running
<1>8. CASE Deadline
  BY <1>8 DEF Deadline, Hooks, Running
<1>9. CASE PipeCancel
  BY <1>9 DEF PipeCancel, Hooks, Running
<1>10. ASSUME NEW e \in EventNo, HookStart(e) PROVE Hooks' /\ Running'
  <2>1. e = n /\ pc # "idle"
    BY <1>0, <1>10 DEF HookStart, Hooks
  <2>2. /\ hook'[n] = "started" /\ ctxDone
        /\ \A f \in EventNo \ {n} : hook'[f] = hook[f]
    BY <1>0, <1>10, <2>1 DEF HookStart
  <2>3. cancelled # n
    BY <1>0, <1>10, <2>1 DEF HookStart, Hooks
  <2> QED BY <1>0, <1>10, <2>1, <2>2, <2>3 DEF HookStart, Hooks, Running
<1>11. ASSUME NEW e \in EventNo, HookRun(e) PROVE Hooks' /\ Running'
  <2>1. e = n /\ pc # "idle"
    BY <1>0, <1>11 DEF HookRun, Hooks
  <2>2. /\ hook'[n] = "ended"
        /\ \A f \in EventNo \ {n} : hook'[f] = hook[f]
        /\ cancelled' = IF cancelled = 0 THEN n ELSE cancelled
    BY <1>0, <1>11, <2>1 DEF HookRun
  <2> QED BY <1>0, <1>11, <2>1, <2>2 DEF HookRun, Hooks, Running
<1>12. CASE Swap
  BY <1>12, HooksSame DEF Swap, Running
<1>13. CASE UNCHANGED vars
  BY <1>13, HooksSame DEF vars, Running
<1> QED BY <1>1, <1>2, <1>3, <1>4, <1>5, <1>6, <1>7, <1>8, <1>9, <1>10, <1>11,
           <1>12, <1>13 DEF Next, WorkerStep, Rule

\* The invariant holds throughout.
LEMMA InvCorrect == Spec => []Inv
<1>1. Inv /\ [Next]_vars => Inv'
  BY TypeNext, HooksNext DEF Inv
<1> QED BY <1>1, InvInit, PTL DEF Spec

\* Type correctness of the worker, for every number of events and family of
\* snapshots: the rule being run is one of the snapshot's.
THEOREM TypeCorrect == Spec => []TypeOK
BY InvCorrect, PTL DEF Inv

\* A cancellation armed for one event never lands on a later one, although the
\* thread is reused and the hook runs in a goroutine of its own.
THEOREM NoStaleCancelCorrect == Spec => []NoStaleCancel
<1>1. Inv => NoStaleCancel
  BY DEF Inv, Hooks, Running, NoStaleCancel
<1> QED BY <1>1, InvCorrect, PTL

\* Errors are attributed to the rule, the budget or the context that caused
\* them.
THEOREM BlameIsRightCorrect == Spec => []BlameIsRight
<1>1. Inv => BlameIsRight
  BY MaxEventsAssumption DEF Inv, TypeOK, Hooks, Running, BlameIsRight, EventNo, StepCancel
<1> QED BY <1>1, InvCorrect, PTL

\* No memo entry crosses from one event to another.
THEOREM MemoPerEventCorrect == Spec => []MemoPerEvent
<1> DEFINE M == memoRead \subseteq {n} /\ memo \subseteq {n} /\ (pc = "idle" => memo = {})
<1>1. Init => M
  BY DEF Init
<1>2. Inv /\ M /\ [Next]_vars => M'
  <2> SUFFICES ASSUME Inv, M, [Next]_vars PROVE M'
    OBVIOUS
  <2>1. CASE Begin
    BY <2>1 DEF Begin
  <2>2. CASE Rule
    BY <2>2 DEF Rule, RuleStep, EnterRule, Memo, OutOfSteps, ReturnVerdict,
                ReturnError, ReturnBad
  <2>3. CASE LoopEnd \/ Finish
    BY <2>3 DEF LoopEnd, Finish
  <2>4. CASE Deadline \/ PipeCancel \/ Swap \/ UNCHANGED vars
    BY <2>4 DEF Deadline, PipeCancel, Swap, vars
  <2>5. ASSUME NEW e \in EventNo, HookStart(e) \/ HookRun(e) PROVE M'
    BY <2>5 DEF HookStart, HookRun
  <2> QED BY <2>1, <2>2, <2>3, <2>4, <2>5 DEF Next, WorkerStep
<1>3. M => MemoPerEvent
  BY DEF MemoPerEvent
<1> QED BY <1>1, <1>2, <1>3, InvCorrect, PTL DEF Spec

\* What has been evaluated so far comes from the snapshot the event loaded, and
\* never from more rules than it has.
Accounts ==
    /\ \A i \in 1..Len(fates) : fates[i].ver = snap
    /\ pc # "idle" => Len(fates) <= RuleCount[snap]
    /\ pc = "stop" => Len(fates) = RuleCount[snap]

\* Recording one more rule of the loaded snapshot keeps the account.
LEMMA AccountsAppend ==
    ASSUME TypeOK, Accounts, NEW h \in HowEnded,
           pc # "idle", Len(fates) < RuleCount[snap],
           fates' = Append(fates, [ver |-> snap, how |-> h]), snap' = snap, pc' = "rule"
    PROVE  Accounts'
<1>1. /\ Len(fates') = Len(fates) + 1 /\ Len(fates) \in Nat
      /\ \A i \in 1..Len(fates) : fates'[i] = fates[i]
      /\ fates'[Len(fates) + 1] = [ver |-> snap, how |-> h]
  BY DEF TypeOK
<1>2. RuleCount[snap] \in Nat
  BY RuleCountAssumption DEF TypeOK
<1>3. \A i \in 1..Len(fates') : i \in 1..Len(fates) \/ i = Len(fates) + 1
  BY <1>1
<1> QED BY <1>1, <1>2, <1>3 DEF Accounts

\* Every rule of the snapshot an event loaded is accounted for once, whatever
\* the reloader publishes while the event is evaluated.
THEOREM OneSnapshotPerEventCorrect == Spec => []OneSnapshotPerEvent
<1>1. Init => Accounts
  BY DEF Init, Accounts
<1>2. Inv /\ Accounts /\ [Next]_vars => Accounts'
  <2> SUFFICES ASSUME TypeOK, Accounts, [Next]_vars PROVE Accounts'
    BY DEF Inv
  <2>0. RuleCount[snap] \in Nat /\ RuleCount[snapshot] \in Nat /\ Len(fates) \in Nat
    BY RuleCountAssumption DEF TypeOK
  <2>1. CASE Begin
    BY <2>0, <2>1 DEF Begin, Accounts
  <2>2. CASE RuleStep
    <3>1. CASE pc' = "rule"
      BY <2>2, <3>1, AccountsAppend DEF RuleStep, HowEnded
    <3>2. CASE UNCHANGED fates
      BY <2>2, <3>2 DEF RuleStep, Accounts
    <3> QED BY <2>2, <3>1, <3>2 DEF RuleStep
  <2>3. CASE ReturnVerdict \/ ReturnError \/ ReturnBad
    <3>1. (IF ctxDone THEN "ctx" ELSE IF exceeded THEN "steps" ELSE "rule") \in HowEnded
          /\ "verdict" \in HowEnded /\ "rule" \in HowEnded
      BY DEF HowEnded
    <3>2. Len(fates) < RuleCount[snap] /\ pc # "idle"
      BY <2>3 DEF ReturnVerdict, ReturnError, ReturnBad, TypeOK
    <3> QED BY <2>3, <3>1, <3>2, AccountsAppend DEF ReturnVerdict, ReturnError, ReturnBad
  <2>4. CASE EnterRule \/ Memo \/ OutOfSteps
    BY <2>4 DEF EnterRule, Memo, OutOfSteps, Accounts
  <2>5. CASE LoopEnd \/ Finish
    BY <2>0, <2>5 DEF LoopEnd, Finish, Accounts
  <2>6. CASE Deadline \/ PipeCancel \/ Swap \/ UNCHANGED vars
    BY <2>6 DEF Deadline, PipeCancel, Swap, vars, Accounts
  <2>7. ASSUME NEW e \in EventNo, HookStart(e) \/ HookRun(e) PROVE Accounts'
    BY <2>7 DEF HookStart, HookRun, Accounts
  <2> QED BY <2>1, <2>2, <2>3, <2>4, <2>5, <2>6, <2>7 DEF Next, WorkerStep, Rule
<1>3. Accounts => OneSnapshotPerEvent
  BY DEF Accounts, OneSnapshotPerEvent
<1> QED BY <1>1, <1>2, <1>3, InvCorrect, PTL DEF Spec

=============================================================================
