--------------------------- MODULE PipelineProofs ---------------------------
(***************************************************************************)
(* Machine-checked proofs about Pipeline, for every number of requests and *)
(* workers and every capacity.                                             *)
(***************************************************************************)
EXTENDS Pipeline, WellFoundedInduction, FiniteSetTheorems, FunctionTheorems, TLAPS

-----------------------------------------------------------------------------
(* Sequences as channels.                                                  *)

\* Sending on a channel adds exactly the value sent.
LEMMA ElemsAppend ==
    ASSUME NEW S, NEW s \in Seq(S), NEW x \in S
    PROVE  /\ Append(s, x) \in Seq(S)
           /\ Append(s, x) # <<>>
           /\ Elems(Append(s, x)) = Elems(s) \cup {x}
<1> DEFINE t == Append(s, x)
<1>1. /\ t \in Seq(S)
      /\ Len(t) = Len(s) + 1
      /\ Len(s) \in Nat
      /\ \A i \in 1..Len(s) : t[i] = s[i]
      /\ t[Len(s) + 1] = x
  OBVIOUS
<1>2. Elems(t) \subseteq Elems(s) \cup {x}
  <2> SUFFICES ASSUME NEW i \in 1..Len(t) PROVE t[i] \in Elems(s) \cup {x}
    BY DEF Elems
  <2>1. CASE i \in 1..Len(s)
    BY <1>1, <2>1 DEF Elems
  <2>2. CASE i = Len(s) + 1
    BY <1>1, <2>2
  <2> QED BY <1>1, <2>1, <2>2
<1>3. Elems(s) \subseteq Elems(t)
  <2> SUFFICES ASSUME NEW i \in 1..Len(s) PROVE s[i] \in Elems(t)
    BY DEF Elems
  <2>1. i \in 1..Len(t) /\ t[i] = s[i]
    BY <1>1
  <2> QED BY <2>1 DEF Elems
<1>4. x \in Elems(t)
  <2>1. Len(s) + 1 \in 1..Len(t)
    BY <1>1
  <2> QED BY <1>1, <2>1 DEF Elems
<1>5. t # <<>>
  BY <1>1
<1> QED BY <1>1, <1>2, <1>3, <1>4, <1>5

\* Receiving from a channel takes its head and leaves the rest.
LEMMA ElemsTail ==
    ASSUME NEW S, NEW s \in Seq(S), s # <<>>
    PROVE  /\ Head(s) \in S
           /\ Tail(s) \in Seq(S)
           /\ Elems(s) = {Head(s)} \cup Elems(Tail(s))
<1> DEFINE t == Tail(s)
<1>1. /\ t \in Seq(S)
      /\ Len(s) \in Nat /\ Len(s) >= 1
      /\ Len(t) = Len(s) - 1
      /\ Head(s) = s[1]
      /\ \A i \in 1..Len(t) : t[i] = s[i + 1]
  OBVIOUS
<1>2. Head(s) \in S
  BY <1>1
<1>3. Elems(s) \subseteq {Head(s)} \cup Elems(t)
  <2> SUFFICES ASSUME NEW i \in 1..Len(s) PROVE s[i] \in {Head(s)} \cup Elems(t)
    BY DEF Elems
  <2>1. CASE i = 1
    BY <1>1, <2>1
  <2>2. CASE i # 1
    <3>1. i - 1 \in 1..Len(t) /\ t[i - 1] = s[i]
      BY <1>1, <2>2
    <3> QED BY <3>1 DEF Elems
  <2> QED BY <2>1, <2>2
<1>4. Elems(t) \subseteq Elems(s)
  <2> SUFFICES ASSUME NEW i \in 1..Len(t) PROVE t[i] \in Elems(s)
    BY DEF Elems
  <2>1. i + 1 \in 1..Len(s) /\ t[i] = s[i + 1]
    BY <1>1
  <2> QED BY <2>1 DEF Elems
<1>5. Head(s) \in Elems(s)
  <2>1. 1 \in 1..Len(s)
    BY <1>1
  <2> QED BY <1>1, <2>1 DEF Elems
<1> QED BY <1>1, <1>2, <1>3, <1>4, <1>5

\* A channel holds values of its type, and an empty one holds none.
LEMMA ElemsType ==
    /\ \A S : \A s \in Seq(S) : Elems(s) \subseteq S
    /\ Elems(<<>>) = {}
<1>1. ASSUME NEW S, NEW s \in Seq(S) PROVE Elems(s) \subseteq S
  BY DEF Elems
<1>2. Elems(<<>>) = {}
  BY DEF Elems
<1> QED BY <1>1, <1>2

\* No two positions of a channel carry the same request.
Distinct(s) == \A i, j \in 1..Len(s) : s[i] = s[j] => i = j
DistinctReqs(s) == \A i, j \in 1..Len(s) : s[i].req = s[j].req => i = j

\* Appending a request that is not queued keeps the queue free of repeats.
LEMMA DistinctAppend ==
    ASSUME NEW S, NEW s \in Seq(S), NEW x \in S \ Elems(s), Distinct(s)
    PROVE  Distinct(Append(s, x))
<1>1. \A i \in 1..Len(s) : s[i] # x
  BY DEF Elems
<1> QED BY <1>1 DEF Distinct

\* Taking the head of such a queue leaves the rest without it.
LEMMA DistinctTail ==
    ASSUME NEW S, NEW s \in Seq(S), s # <<>>, Distinct(s)
    PROVE  Distinct(Tail(s)) /\ Head(s) \notin Elems(Tail(s))
<1>1. /\ Len(s) \in Nat /\ Len(s) >= 1
      /\ Len(Tail(s)) = Len(s) - 1
      /\ Head(s) = s[1]
      /\ \A i \in 1..Len(Tail(s)) : Tail(s)[i] = s[i + 1]
  OBVIOUS
<1>2. \A i \in 1..Len(Tail(s)) : Tail(s)[i] # Head(s)
  <2> SUFFICES ASSUME NEW i \in 1..Len(Tail(s)) PROVE s[i + 1] # s[1]
    BY <1>1
  <2> QED BY <1>1 DEF Distinct
<1>3. Distinct(Tail(s))
  BY <1>1 DEF Distinct
<1> QED BY <1>2, <1>3 DEF Elems

\* The same for a channel of results, compared by request.
LEMMA DistinctReqsAppend ==
    ASSUME NEW s \in Seq(Result), NEW x \in Result,
           x.req \notin Reqs(Elems(s)), DistinctReqs(s)
    PROVE  DistinctReqs(Append(s, x))
<1>1. \A i \in 1..Len(s) : s[i].req # x.req
  BY DEF Elems, Reqs
<1>2. /\ Len(s) \in Nat
      /\ Len(Append(s, x)) = Len(s) + 1
      /\ \A i \in 1..Len(s) : Append(s, x)[i] = s[i]
      /\ Append(s, x)[Len(s) + 1] = x
  OBVIOUS
<1> QED BY <1>1, <1>2 DEF DistinctReqs

\* The same for its tail.
LEMMA DistinctReqsTail ==
    ASSUME NEW s \in Seq(Result), s # <<>>, DistinctReqs(s)
    PROVE  DistinctReqs(Tail(s)) /\ Head(s).req \notin Reqs(Elems(Tail(s)))
<1>1. /\ Len(s) \in Nat /\ Len(s) >= 1
      /\ Len(Tail(s)) = Len(s) - 1
      /\ Head(s) = s[1]
      /\ \A i \in 1..Len(Tail(s)) : Tail(s)[i] = s[i + 1]
  OBVIOUS
<1>2. \A i \in 1..Len(Tail(s)) : Tail(s)[i].req # Head(s).req
  <2> SUFFICES ASSUME NEW i \in 1..Len(Tail(s)) PROVE s[i + 1].req # s[1].req
    BY <1>1
  <2> QED BY <1>1 DEF DistinctReqs
<1>3. DistinctReqs(Tail(s))
  BY <1>1 DEF DistinctReqs
<1> QED BY <1>2, <1>3 DEF Elems, Reqs

\* The requests of a set of results.
LEMMA ReqsUnion ==
    /\ \A A, B : Reqs(A \cup B) = Reqs(A) \cup Reqs(B)
    /\ \A x : Reqs({x}) = {x.req}
    /\ Reqs({}) = {}
    /\ \A A, B : A \subseteq B => Reqs(A) \subseteq Reqs(B)
BY DEF Reqs

-----------------------------------------------------------------------------
(* The writer's steps.                                                     *)

\* A flush settles exactly the results of the batch, stored or not, and the
\* only new rows are results of the batch.
LEMMA FlushEffect ==
    ASSUME TypeOK, NEW b \in Seq(Result), Flush(b)
    PROVE  /\ db' \in SUBSET Result
           /\ fate' \in [Requests -> Fate]
           /\ db' \subseteq db \cup Elems(b)
           /\ \A r \in Requests :
                 fate'[r] # "none" <=> fate[r] # "none" \/ r \in Reqs(Elems(b))
<1>1. Elems(b) \subseteq Result
  BY ElemsType
<1>2. Fresh(b) \subseteq Elems(b)
  BY DEF Fresh, Elems
<1>3. Reqs(Fresh(b)) \subseteq Reqs(Elems(b))
  BY <1>2 DEF Reqs
<1>4. CASE /\ db' = db \cup Fresh(b)
           /\ fate' = [r \in Requests |->
                 IF r \in Reqs(Fresh(b)) THEN "stored"
                 ELSE IF r \in Reqs(Elems(b)) THEN "ignored" ELSE fate[r]]
  BY <1>1, <1>2, <1>3, <1>4 DEF TypeOK, Fate
<1>5. CASE /\ db' = db
           /\ fate' = [r \in Requests |->
                 IF r \in Reqs(Elems(b)) THEN "lost" ELSE fate[r]]
  BY <1>5 DEF TypeOK, Fate
<1> QED BY <1>4, <1>5 DEF Flush

\* Taking a result from resultChan settles it, or moves it to the batch, or
\* settles it together with the batch; nothing else is touched.
LEMMA TakeEffect ==
    ASSUME TypeOK, WriterTake
    PROVE  LET r == Head(resultChan) IN
           /\ r \in Result
           /\ resultChan \in Seq(Result) /\ resultChan' = Tail(resultChan)
           /\ resultChan' \in Seq(Result)
           /\ batch' \in Seq(Result)
           /\ stats' \in [Counter -> Nat]
           /\ sending' \in SUBSET Requests
           /\ db' \in SUBSET Result
           /\ fate' \in [Requests -> Fate]
           /\ Elems(resultChan) = {r} \cup Elems(resultChan')
           /\ db' \subseteq db \cup Elems(batch) \cup {r}
           /\ \/ /\ batch' = Append(batch, r)
                 /\ db' = db /\ fate' = fate
              \/ /\ batch' = batch
                 /\ db' = db
                 /\ \A q \in Requests :
                       fate'[q] # "none" <=> fate[q] # "none" \/ q = r.req
              \/ /\ batch' = <<>>
                 /\ \A q \in Requests :
                       fate'[q] # "none" <=> \/ fate[q] # "none"
                                             \/ q \in Reqs(Elems(batch) \cup {r})
<1> DEFINE r == Head(resultChan)
           b == Append(batch, r)
<1>1. /\ resultChan \in Seq(Result) /\ resultChan # <<>>
      /\ resultChan' = Tail(resultChan)
      /\ batch \in Seq(Result)
  BY DEF WriterTake, TypeOK
<1>2. /\ r \in Result
      /\ resultChan' \in Seq(Result)
      /\ Elems(resultChan) = {r} \cup Elems(resultChan')
  BY <1>1, ElemsTail
<1>3. b \in Seq(Result) /\ Elems(b) = Elems(batch) \cup {r}
  BY <1>1, <1>2, ElemsAppend
<1>4. r.req \in Requests
  BY <1>2 DEF Result
<1>5. stats' \in [Counter -> Nat]
  <2>1. Observe(r)
    BY DEF WriterTake
  <2>2. \A c \in Counter : stats[c] \in Nat
    BY DEF TypeOK
  <2> QED BY <2>1, <2>2 DEF Observe
<1>6. CASE Keep(r) /\ Collect(r) /\ Dispatch(r)
  <2>1. sending' \in SUBSET Requests
    BY <1>4, <1>6 DEF Dispatch, TypeOK
  <2>2. CASE Len(b) >= BatchSize
    <3>1. Flush(b) /\ batch' = <<>>
      BY <1>6, <2>2 DEF Collect
    <3>2. batch' \in Seq(Result)
      BY <3>1
    <3>3. /\ db' \in SUBSET Result
          /\ fate' \in [Requests -> Fate]
          /\ db' \subseteq db \cup Elems(b)
          /\ \A q \in Requests :
                fate'[q] # "none" <=> fate[q] # "none" \/ q \in Reqs(Elems(b))
      BY <3>1, <1>3, FlushEffect
    <3> QED BY <1>1, <1>2, <1>3, <1>5, <2>1, <3>1, <3>2, <3>3
  <2>3. CASE ~(Len(b) >= BatchSize)
    <3>1. batch' = b /\ db' = db /\ fate' = fate
      BY <1>6, <2>3 DEF Collect
    <3> QED BY <1>1, <1>2, <1>3, <1>5, <2>1, <3>1 DEF TypeOK
  <2> QED BY <2>2, <2>3
<1>7. CASE /\ ~Keep(r)
           /\ fate' = [fate EXCEPT ![r.req] = "skipped"]
           /\ UNCHANGED <<batch, db, sending>>
  <2>1. /\ fate' \in [Requests -> Fate]
        /\ \A q \in Requests : fate'[q] # "none" <=> fate[q] # "none" \/ q = r.req
    BY <1>4, <1>7 DEF TypeOK, Fate
  <2> QED BY <1>1, <1>2, <1>5, <1>7, <2>1 DEF TypeOK
<1> QED BY <1>6, <1>7 DEF WriterTake

-----------------------------------------------------------------------------
(* Type correctness.                                                       *)

\* The process starts well typed.
LEMMA TypeInit == Init => TypeOK
<1> SUFFICES ASSUME Init PROVE TypeOK
  OBVIOUS
<1>1. /\ eventChan \in Seq(Requests) /\ resultChan \in Seq(Result) /\ batch \in Seq(Result)
  BY DEF Init
<1>2. /\ wpc \in [Workers -> WorkerPC]
      /\ job \in [Workers -> Job \cup Result \cup {NoJob}]
      /\ \A w \in Workers : wpc[w] = "idle" /\ job[w] = NoJob
  BY DEF Init, WorkerPC
<1>3. /\ req \in [Requests -> ReqPC]
      /\ fate \in [Requests -> Fate]
      /\ stats \in [Counter -> Nat]
  BY DEF Init, ReqPC, Fate
<1> QED BY <1>1, <1>2, <1>3 DEF Init, TypeOK, MainPC, WriterPC

\* The steps of the handlers.
LEMMA TypeHandler ==
    ASSUME TypeOK, NEW r \in Requests, Handler(r)
    PROVE  TypeOK'
<1> USE DEF mainVars, poolVars, writerVars
<1>1. CASE Arrive(r)
  BY <1>1 DEF Arrive, TypeOK, ReqPC
<1>2. CASE Reject(r)
  BY <1>2 DEF Reject, TypeOK, ReqPC
<1>3. CASE Enqueue(r)
  <2>1. Append(eventChan, r) \in Seq(Requests)
    BY ElemsAppend DEF TypeOK
  <2>2. eventChan' \in Seq(Requests) /\ req' \in [Requests -> ReqPC]
    BY <1>3, <2>1 DEF Enqueue, TypeOK, ReqPC
  <2> QED BY <1>3, <2>2 DEF Enqueue, TypeOK
<1> QED BY <1>1, <1>2, <1>3 DEF Handler

\* The steps of the workers.
LEMMA TypeWorker ==
    ASSUME TypeOK, NEW w \in Workers, Worker(w)
    PROVE  TypeOK'
<1> USE DEF mainVars, ingestVars, writerVars
<1>1. CASE Dequeue(w)
  <2>1. Head(eventChan) \in Requests /\ eventChan' \in Seq(Requests)
    BY <1>1, ElemsTail DEF Dequeue, TypeOK
  <2>2. [req |-> Head(eventChan), verdict |-> NoVerdict,
         failed |-> FALSE, dead |-> pipeCancelled] \in Job
    BY <2>1 DEF Job, TypeOK
  <2>3. /\ wpc' \in [Workers -> WorkerPC]
        /\ job' \in [Workers -> Job \cup Result \cup {NoJob}]
        /\ wpc'[w] = "eval" /\ job'[w] \in Job
        /\ \A v \in Workers \ {w} : wpc'[v] = wpc[v] /\ job'[v] = job[v]
    BY <1>1, <2>2 DEF Dequeue, TypeOK, WorkerPC
  <2> QED BY <1>1, <2>1, <2>3 DEF Dequeue, TypeOK
<1>2. CASE Evaluate(w)
  <2>1. job[w] \in Job
    BY <1>2 DEF Evaluate, TypeOK
  <2>2. PICK o \in PossibleOutcomes(job[w]) :
           job' = [job EXCEPT ![w] = [req |-> job[w].req, verdict |-> o.verdict,
                                      failed |-> o.failed, dead |-> job[w].dead]]
    BY <1>2 DEF Evaluate
  <2>3. o \in Outcome
    BY <2>1, PolicyAssumption DEF PossibleOutcomes, Outcome, Verdicts, Job
  <2>4. [req |-> job[w].req, verdict |-> o.verdict,
         failed |-> o.failed, dead |-> job[w].dead] \in Result
    BY <2>1, <2>3 DEF Outcome, Job, Result
  <2>5. /\ wpc' \in [Workers -> WorkerPC]
        /\ job' \in [Workers -> Job \cup Result \cup {NoJob}]
        /\ wpc'[w] = "send" /\ job'[w] \in Result
        /\ \A v \in Workers \ {w} : wpc'[v] = wpc[v] /\ job'[v] = job[v]
    BY <1>2, <2>2, <2>4 DEF Evaluate, TypeOK, WorkerPC
  <2> QED BY <1>2, <2>5 DEF Evaluate, TypeOK
<1>3. CASE Send(w)
  <2>1. job[w] \in Result
    BY <1>3 DEF Send, TypeOK
  <2>2. resultChan' \in Seq(Result)
    BY <1>3, <2>1, ElemsAppend DEF Send, TypeOK
  <2>3. /\ wpc' \in [Workers -> WorkerPC]
        /\ job' \in [Workers -> Job \cup Result \cup {NoJob}]
        /\ wpc'[w] = "idle" /\ job'[w] = NoJob
        /\ \A v \in Workers \ {w} : wpc'[v] = wpc[v] /\ job'[v] = job[v]
    BY <1>3 DEF Send, TypeOK, WorkerPC
  <2> QED BY <1>3, <2>2, <2>3 DEF Send, TypeOK
<1>4. CASE ExitWorker(w)
  BY <1>4 DEF ExitWorker, TypeOK, WorkerPC
<1> QED BY <1>1, <1>2, <1>3, <1>4 DEF Worker

\* The steps of the writer and of its webhook goroutines.
LEMMA TypeWriter ==
    ASSUME TypeOK,
           \/ WriterLoop \/ Retention \/ DrainTimeout
           \/ \E r \in Requests : WebhookEnd(r)
    PROVE  TypeOK'
<1> USE DEF mainVars, ingestVars, poolVars
<1>1. CASE WriterTake
  BY <1>1, TakeEffect DEF WriterTake, TypeOK
<1>2. CASE FlushTick
  <2>1. batch \in Seq(Result) /\ Flush(batch)
    BY <1>2 DEF FlushTick, TypeOK
  <2>2. db' \in SUBSET Result /\ fate' \in [Requests -> Fate]
    BY <2>1, FlushEffect
  <2> QED BY <1>2, <2>2 DEF FlushTick, TypeOK
<1>3. CASE WriterEOF
  <2>1. batch \in Seq(Result) /\ Flush(batch)
    BY <1>3 DEF WriterEOF, TypeOK
  <2>2. db' \in SUBSET Result /\ fate' \in [Requests -> Fate]
    BY <2>1, FlushEffect
  <2> QED BY <1>3, <2>2 DEF WriterEOF, TypeOK, WriterPC
<1>4. CASE WriterCancelled
  BY <1>4 DEF WriterCancelled, TypeOK, WriterPC
<1>5. CASE Retention
  <2>1. db' \in SUBSET Result /\ fate' \in [Requests -> Fate]
    BY <1>5 DEF Retention, TypeOK, Fate
  <2> QED BY <1>5, <2>1 DEF Retention, TypeOK
<1>6. CASE DrainTimeout
  <2>1. batch \in Seq(Result) /\ Flush(batch)
    BY <1>6 DEF DrainTimeout, TypeOK
  <2>2. db' \in SUBSET Result /\ fate' \in [Requests -> Fate]
    BY <2>1, FlushEffect
  <2> QED BY <1>6, <2>2 DEF DrainTimeout, TypeOK, WriterPC
<1>7. ASSUME NEW r \in Requests, WebhookEnd(r) PROVE TypeOK'
  BY <1>7 DEF WebhookEnd, TypeOK
<1> QED BY <1>1, <1>2, <1>3, <1>4, <1>5, <1>6, <1>7 DEF WriterLoop

\* The steps of the pool's end and of main.
LEMMA TypeMain ==
    ASSUME TypeOK,
           \/ PoolDone \/ StopRequested \/ Main
           \/ ShutdownTimer \/ ForcedTimeout \/ WriterTimeout
    PROVE  TypeOK'
<1> USE DEF mainVars, ingestVars, poolVars, writerVars, TypeOK, MainPC
<1>1. CASE PoolDone
  BY <1>1 DEF PoolDone
<1>2. CASE StopRequested
  BY <1>2 DEF StopRequested
<1>3. CASE CloseEvents
  BY <1>3 DEF CloseEvents
<1>4. CASE PoolWaited
  BY <1>4 DEF PoolWaited
<1>5. CASE ForceCancel
  BY <1>5 DEF ForceCancel
<1>6. CASE Exit
  BY <1>6 DEF Exit
<1>7. CASE ShutdownTimer
  BY <1>7 DEF ShutdownTimer
<1>8. CASE ForcedTimeout
  BY <1>8 DEF ForcedTimeout
<1>9. CASE WriterTimeout
  BY <1>9 DEF WriterTimeout
<1> QED BY <1>1, <1>2, <1>3, <1>4, <1>5, <1>6, <1>7, <1>8, <1>9 DEF Main

\* Every step of handlers, workers, writer, main and timers keeps the types.
LEMMA TypeNext == TypeOK /\ [Next]_vars => TypeOK'
<1> SUFFICES ASSUME TypeOK, [Next]_vars PROVE TypeOK'
  OBVIOUS
<1>1. CASE UNCHANGED vars
  BY <1>1 DEF TypeOK, vars
<1>2. CASE Ended
  BY <1>2 DEF Ended, TypeOK, vars
<1> QED BY <1>1, <1>2, TypeHandler, TypeWorker, TypeWriter, TypeMain DEF Next, Timers

\* In every reachable state of the pipeline each variable has its type; in
\* particular a worker holds an event exactly between its receive from
\* eventChan and its send on resultChan.
THEOREM TypeCorrect == Spec => []TypeOK
<1> QED BY TypeInit, TypeNext, PTL DEF Spec

-----------------------------------------------------------------------------
(* The shutdown order. Each component may stop only after the one before   *)
(* it, and the two cancellations only after the shutdown budget is spent.  *)

Closing == {"waitPool", "forced", "waitWriter", "exited"}

Order ==
    /\ eventClosed <=> main \in Closing
    /\ main \in Closing => shutExpired \/ \A r \in Requests : req[r] # "reading"
    /\ \A r \in Requests : req[r] = "panicked" => shutExpired
    /\ pipeCancelled => shutExpired
    /\ \A w \in Workers : wpc[w] = "exited" => eventClosed /\ eventChan = <<>>
    /\ resultClosed => \A w \in Workers : wpc[w] = "exited"
    /\ writer \in {"drain", "cut"} => pipeCancelled
    /\ writer = "done" => resultClosed /\ resultChan = <<>> /\ batch = <<>>

\* At start nothing is closed and nobody has left.
LEMMA OrderInit == Init => Order
BY DEF Init, Order, Closing

\* Handlers do not disturb the shutdown order.
LEMMA OrderHandler ==
    ASSUME TypeOK, Order, NEW r \in Requests, Handler(r)
    PROVE  Order'
<1> USE DEF mainVars, poolVars, writerVars, Order, Closing
<1>1. CASE Arrive(r)
  BY <1>1 DEF Arrive, TypeOK
<1>2. CASE Reject(r)
  BY <1>2 DEF Reject, TypeOK
<1>3. CASE Enqueue(r)
  <2>1. CASE eventClosed /\ req' = [req EXCEPT ![r] = "panicked"] /\ UNCHANGED eventChan
    BY <1>3, <2>1 DEF Enqueue, TypeOK
  <2>2. CASE /\ ~eventClosed
             /\ eventChan' = Append(eventChan, r)
             /\ req' = [req EXCEPT ![r] = "accepted"]
    BY <1>3, <2>2 DEF Enqueue, TypeOK
  <2>3. CASE ~eventClosed /\ req' = [req EXCEPT ![r] = "busy"] /\ UNCHANGED eventChan
    BY <1>3, <2>3 DEF Enqueue, TypeOK
  <2> QED BY <1>3, <2>1, <2>2, <2>3 DEF Enqueue
<1> QED BY <1>1, <1>2, <1>3 DEF Handler

\* Workers leave only after eventChan is closed and empty.
LEMMA OrderWorker ==
    ASSUME TypeOK, Order, NEW w \in Workers, Worker(w)
    PROVE  Order'
<1> USE DEF mainVars, ingestVars, writerVars, Order, Closing
<1>1. CASE Dequeue(w)
  BY <1>1 DEF Dequeue, TypeOK
<1>2. CASE Evaluate(w)
  BY <1>2 DEF Evaluate, TypeOK
<1>3. CASE Send(w)
  BY <1>3 DEF Send, TypeOK
<1>4. CASE ExitWorker(w)
  BY <1>4 DEF ExitWorker, TypeOK
<1> QED BY <1>1, <1>2, <1>3, <1>4 DEF Worker

\* The writer returns only after resultChan is closed, or is cut off.
LEMMA OrderWriter ==
    ASSUME TypeOK, Order,
           \/ WriterLoop \/ Retention \/ DrainTimeout
           \/ \E r \in Requests : WebhookEnd(r)
    PROVE  Order'
<1> USE DEF mainVars, ingestVars, poolVars, Order, Closing
<1>1. CASE WriterTake
  BY <1>1 DEF WriterTake
<1>2. CASE FlushTick
  BY <1>2 DEF FlushTick
<1>3. CASE WriterEOF
  BY <1>3 DEF WriterEOF
<1>4. CASE WriterCancelled
  BY <1>4 DEF WriterCancelled
<1>5. CASE Retention
  BY <1>5 DEF Retention
<1>6. CASE DrainTimeout
  BY <1>6 DEF DrainTimeout
<1>7. ASSUME NEW r \in Requests, WebhookEnd(r) PROVE Order'
  BY <1>7 DEF WebhookEnd
<1> QED BY <1>1, <1>2, <1>3, <1>4, <1>5, <1>6, <1>7 DEF WriterLoop

\* main goes through the steps of the shutdown in order.
LEMMA OrderMain ==
    ASSUME TypeOK, Order,
           \/ PoolDone \/ StopRequested \/ Main
           \/ ShutdownTimer \/ ForcedTimeout \/ WriterTimeout
    PROVE  Order'
<1> USE DEF mainVars, ingestVars, poolVars, writerVars, Order, Closing
<1>1. CASE PoolDone
  BY <1>1 DEF PoolDone
<1>2. CASE StopRequested
  BY <1>2 DEF StopRequested
<1>3. CASE CloseEvents
  BY <1>3 DEF CloseEvents
<1>4. CASE PoolWaited
  BY <1>4 DEF PoolWaited
<1>5. CASE ForceCancel
  BY <1>5 DEF ForceCancel
<1>6. CASE Exit
  BY <1>6 DEF Exit
<1>7. CASE ShutdownTimer
  BY <1>7 DEF ShutdownTimer
<1>8. CASE ForcedTimeout
  BY <1>8 DEF ForcedTimeout
<1>9. CASE WriterTimeout
  BY <1>9 DEF WriterTimeout
<1> QED BY <1>1, <1>2, <1>3, <1>4, <1>5, <1>6, <1>7, <1>8, <1>9 DEF Main

\* The shutdown order is inductive, given the types.
LEMMA OrderNext == TypeOK /\ Order /\ [Next]_vars => Order'
<1> SUFFICES ASSUME TypeOK, Order, [Next]_vars PROVE Order'
  OBVIOUS
<1>1. CASE UNCHANGED vars
  BY <1>1 DEF Order, Closing, vars
<1>2. CASE Ended
  BY <1>2 DEF Ended, Order, Closing, vars
<1> QED BY <1>1, <1>2, OrderHandler, OrderWorker, OrderWriter, OrderMain DEF Next, Timers

\* The shutdown order holds throughout.
LEMMA OrderCorrect == Spec => []Order
<1> QED BY OrderInit, OrderNext, TypeCorrect, PTL DEF Spec

\* No worker can send on resultChan once it is closed, and no queued event is
\* left behind, for any number of workers and any capacity.
THEOREM ResultsClosedLastCorrect == Spec => []ResultsClosedLast
<1>1. Order => ResultsClosedLast
  BY FiniteAssumption DEF Order, ResultsClosedLast
<1> QED BY <1>1, OrderCorrect, PTL

-----------------------------------------------------------------------------
(* Conservation. Every accepted request is in one of five places, and the  *)
(* places never overlap; each step moves requests from one to the next.    *)

Once ==
    /\ Distinct(eventChan)
    /\ DistinctReqs(resultChan)
    /\ DistinctReqs(batch)
    /\ \A v, w \in Busy : job[v].req = job[w].req => v = w
    /\ Queued \cap (Held \cup Decided \cup Batched \cup Settled) = {}
    /\ Held \cap (Decided \cup Batched \cup Settled) = {}
    /\ Decided \cap (Batched \cup Settled) = {}
    /\ Batched \cap Settled = {}

Places == Accounted /\ Once

\* At start no event is anywhere.
LEMMA PlacesInit == Init => Places
<1> SUFFICES ASSUME Init PROVE Places
  OBVIOUS
<1>1. /\ Accepted = {} /\ Queued = {} /\ Busy = {} /\ Held = {}
      /\ Decided = {} /\ Batched = {} /\ Settled = {}
  BY DEF Init, Accepted, Queued, Busy, Held, Decided, Batched, Settled, Elems, Reqs
<1>2. Distinct(eventChan) /\ DistinctReqs(resultChan) /\ DistinctReqs(batch)
  BY DEF Init, Distinct, DistinctReqs
<1> QED BY <1>1, <1>2 DEF Places, Accounted, Once

\* A handler puts at most its own request into the pipeline, which is not
\* there yet.
LEMMA PlacesHandler ==
    ASSUME TypeOK, Places, NEW r \in Requests, Handler(r)
    PROVE  Places'
<1> USE DEF mainVars, poolVars, writerVars
<1>1. CASE UNCHANGED eventChan /\ Accepted' = Accepted
  <2>1. UNCHANGED <<eventChan, wpc, job, resultChan, batch, fate>>
    BY <1>1 DEF Handler, Arrive, Reject, Enqueue
  <2>2. /\ Queued' = Queued /\ Busy' = Busy /\ Held' = Held
        /\ Decided' = Decided /\ Batched' = Batched /\ Settled' = Settled
    BY <2>1 DEF Queued, Busy, Held, Decided, Batched, Settled, Elems, Reqs
  <2> QED BY <1>1, <2>1, <2>2 DEF Places, Accounted, Once
<1>2. CASE /\ req[r] = "reading"
           /\ eventChan' = Append(eventChan, r)
           /\ req' = [req EXCEPT ![r] = "accepted"]
  <2>1. r \notin Accepted /\ Accepted' = Accepted \cup {r}
    BY <1>2 DEF Accepted, TypeOK
  <2>2. /\ Held' = Held /\ Decided' = Decided /\ Batched' = Batched
        /\ Settled' = Settled /\ Busy' = Busy
        /\ UNCHANGED <<job, resultChan, batch>>
    BY <1>2 DEF Handler, Arrive, Reject, Enqueue, Busy, Held, Decided, Batched,
                Settled, Elems, Reqs
  <2>3. Queued' = Queued \cup {r}
    BY <1>2, ElemsAppend DEF Queued, TypeOK
  <2>4. r \notin Queued \cup Held \cup Decided \cup Batched \cup Settled
    BY <2>1 DEF Places, Accounted
  <2>5. Distinct(eventChan')
    BY <1>2, <2>4, DistinctAppend DEF Places, Once, Queued, TypeOK
  <2>6. Accounted'
    BY <2>1, <2>2, <2>3 DEF Places, Accounted
  <2>7. DistinctReqs(resultChan') /\ DistinctReqs(batch')
    BY <2>2 DEF Places, Once
  <2>8. \A v, w \in Busy' : job'[v].req = job'[w].req => v = w
    BY <2>2 DEF Places, Once
  <2> QED BY <2>2, <2>3, <2>4, <2>5, <2>6, <2>7, <2>8 DEF Places, Once
<1>3. ASSUME req[r] \in {"new", "reading"}, NEW p \in ReqPC \ {"accepted"},
             req' = [req EXCEPT ![r] = p]
      PROVE  Accepted' = Accepted
  BY <1>3 DEF Accepted, TypeOK
<1> QED BY <1>1, <1>2, <1>3 DEF Handler, Arrive, Reject, Enqueue, ReqPC

\* A worker moves one request from eventChan to itself and from itself to
\* resultChan.
LEMMA PlacesWorker ==
    ASSUME TypeOK, Places, NEW w \in Workers, Worker(w)
    PROVE  Places'
<1> USE DEF mainVars, ingestVars, writerVars
<1>1. Accepted' = Accepted /\ Batched' = Batched /\ Settled' = Settled /\ batch' = batch
  BY DEF Worker, Dequeue, Evaluate, Send, ExitWorker, Accepted, Batched, Settled,
         Elems, Reqs
<1>2. CASE Dequeue(w)
  <2> DEFINE x == Head(eventChan)
  <2>1. Queued = {x} \cup Queued' /\ x \notin Queued' /\ Distinct(eventChan')
    BY <1>2, ElemsTail, DistinctTail DEF Dequeue, Queued, TypeOK, Places, Once
  <2>2. Busy' = Busy \cup {w} /\ w \notin Busy
    BY <1>2 DEF Dequeue, Busy, TypeOK
  <2>3. job'[w].req = x /\ \A v \in Busy : job'[v] = job[v]
    BY <1>2, <2>2 DEF Dequeue, TypeOK, Busy
  <2>4. Held' = Held \cup {x}
    BY <2>2, <2>3 DEF Held
  <2>5. Decided' = Decided /\ resultChan' = resultChan
    BY <1>2 DEF Dequeue, Decided, Elems, Reqs
  <2>6. \A v \in Busy : job[v].req \in Held
    BY DEF Held
  <2>7. x \notin Held \cup Decided \cup Batched \cup Settled
    BY <2>1 DEF Places, Once
  <2>8. \A u, v \in Busy' : job'[u].req = job'[v].req => u = v
    BY <2>2, <2>3, <2>6, <2>7 DEF Places, Once
  <2>9. Accounted'
    BY <1>1, <2>1, <2>4, <2>5 DEF Places, Accounted
  <2> QED BY <1>1, <2>1, <2>4, <2>5, <2>7, <2>8, <2>9 DEF Places, Once
<1>3. CASE Evaluate(w)
  <2>1. Busy' = Busy
    BY <1>3 DEF Evaluate, Busy, TypeOK
  <2>2. \A v \in Busy : job'[v].req = job[v].req
    BY <1>3 DEF Evaluate, Busy, TypeOK
  <2>3. Held' = Held
    BY <2>1, <2>2 DEF Held
  <2>4. /\ Queued' = Queued /\ Decided' = Decided
        /\ UNCHANGED <<eventChan, resultChan>>
    BY <1>3 DEF Evaluate, Queued, Decided, Elems, Reqs
  <2>5. \A u, v \in Busy' : job'[u].req = job'[v].req => u = v
    BY <2>1, <2>2 DEF Places, Once
  <2> QED BY <1>1, <2>3, <2>4, <2>5 DEF Places, Accounted, Once
<1>4. CASE Send(w)
  <2> DEFINE x == job[w].req
  <2>1. w \in Busy /\ Busy' = Busy \ {w}
    BY <1>4 DEF Send, Busy, TypeOK
  <2>2. \A v \in Busy' : job'[v] = job[v]
    BY <1>4, <2>1 DEF Send, TypeOK, Busy
  <2>3. Held = Held' \cup {x}
    BY <2>1, <2>2 DEF Held
  <2>4. x \notin Held'
    BY <2>1, <2>2 DEF Held, Places, Once
  <2>5. job[w] \in Result /\ resultChan' = Append(resultChan, job[w])
    BY <1>4 DEF Send, TypeOK
  <2>6. Elems(resultChan') = Elems(resultChan) \cup {job[w]}
    BY <2>5, ElemsAppend DEF TypeOK
  <2>7. Decided' = Decided \cup {x}
    BY <2>6 DEF Decided, Reqs
  <2>8. x \notin Decided \cup Batched \cup Settled
    BY <2>3 DEF Places, Once
  <2>9. DistinctReqs(resultChan')
    BY <2>5, <2>8, DistinctReqsAppend DEF Places, Once, Decided, TypeOK
  <2>10. Queued' = Queued /\ eventChan' = eventChan
    BY <1>4 DEF Send, Queued, Elems
  <2>11. \A u, v \in Busy' : job'[u].req = job'[v].req => u = v
    BY <2>1, <2>2 DEF Places, Once
  <2>12. Accounted'
    BY <1>1, <2>3, <2>7, <2>10 DEF Places, Accounted
  <2> QED BY <1>1, <2>3, <2>4, <2>7, <2>8, <2>9, <2>10, <2>11, <2>12 DEF Places, Once
<1>5. CASE ExitWorker(w)
  <2>1. Busy' = Busy /\ job' = job
    BY <1>5 DEF ExitWorker, Busy, TypeOK
  <2>2. Held' = Held
    BY <2>1 DEF Held
  <2>3. /\ Queued' = Queued /\ Decided' = Decided
        /\ UNCHANGED <<eventChan, resultChan>>
    BY <1>5 DEF ExitWorker, Queued, Decided, Elems, Reqs
  <2> QED BY <1>1, <2>1, <2>2, <2>3 DEF Places, Accounted, Once
<1> QED BY <1>2, <1>3, <1>4, <1>5 DEF Worker

\* A flush settles the whole batch.
LEMMA PlacesFlush ==
    ASSUME TypeOK, Places, Flush(batch), batch' = <<>>,
           UNCHANGED <<req, eventChan, wpc, job, resultChan>>
    PROVE  Places'
<1>1. /\ Accepted' = Accepted /\ Queued' = Queued /\ Busy' = Busy
      /\ Held' = Held /\ Decided' = Decided
  BY DEF Accepted, Queued, Busy, Held, Decided, Elems, Reqs
<1>2. \A r \in Requests :
         fate'[r] # "none" <=> fate[r] # "none" \/ r \in Reqs(Elems(batch))
  BY FlushEffect DEF TypeOK
<1>3. Batched \subseteq Requests
  <2>1. Elems(batch) \subseteq Result
    BY ElemsType DEF TypeOK
  <2> QED BY <2>1 DEF Batched, Reqs, Result
<1>4. Settled' = Settled \cup Batched
  BY <1>2, <1>3 DEF Settled, Batched
<1>5. Batched' = {} /\ DistinctReqs(batch')
  BY DEF Batched, Elems, Reqs, DistinctReqs
<1>6. Accounted'
  BY <1>1, <1>4, <1>5 DEF Places, Accounted
<1> QED BY <1>1, <1>4, <1>5, <1>6 DEF Places, Once

\* The writer moves a request from resultChan to the batch, or settles it,
\* alone or with its batch. Retention touches rows of settled requests only.
LEMMA PlacesWriter ==
    ASSUME TypeOK, Places, OneRowPerId,
           \/ WriterLoop \/ Retention \/ DrainTimeout
           \/ \E r \in Requests : WebhookEnd(r)
    PROVE  Places'
<1> USE DEF mainVars, ingestVars, poolVars
<1>1. CASE WriterTake
  <2> DEFINE r == Head(resultChan)
             x == r.req
  <2>1. /\ Accepted' = Accepted /\ Queued' = Queued /\ Busy' = Busy
        /\ Held' = Held /\ UNCHANGED <<eventChan, wpc, job>>
    BY <1>1 DEF WriterTake, Accepted, Queued, Busy, Held, Elems
  <2>2. /\ r \in Result
        /\ resultChan \in Seq(Result) /\ resultChan # <<>>
        /\ resultChan' = Tail(resultChan)
        /\ Elems(resultChan) = {r} \cup Elems(resultChan')
    BY <1>1, TakeEffect DEF WriterTake
  <2>3. x \in Requests
    BY <2>2 DEF Result
  <2>4. Decided = {x} \cup Decided'
    BY <2>2 DEF Decided, Reqs
  <2>5. DistinctReqs(resultChan') /\ x \notin Decided'
    BY <2>2, DistinctReqsTail DEF Places, Once, Decided
  <2>6. x \notin Batched \cup Settled
    BY <2>4 DEF Places, Once
  <2>7. Batched \subseteq Requests
    <3>1. Elems(batch) \subseteq Result
      BY ElemsType DEF TypeOK
    <3> QED BY <3>1 DEF Batched, Reqs, Result
  <2>8. CASE batch' = Append(batch, r) /\ db' = db /\ fate' = fate
    <3>1. Elems(batch') = Elems(batch) \cup {r}
      BY <2>2, <2>8, ElemsAppend DEF TypeOK
    <3>2. Batched' = Batched \cup {x} /\ Settled' = Settled
      BY <2>8, <3>1 DEF Batched, Reqs, Settled
    <3>3. DistinctReqs(batch')
      BY <2>2, <2>6, <2>8, DistinctReqsAppend DEF Places, Once, Batched, TypeOK
    <3>4. Accounted'
      BY <2>1, <2>4, <3>2 DEF Places, Accounted
    <3> QED BY <2>1, <2>4, <2>5, <2>6, <3>2, <3>3, <3>4 DEF Places, Once
  <2>9. CASE /\ batch' = batch
             /\ \A q \in Requests : fate'[q] # "none" <=> fate[q] # "none" \/ q = x
    <3>1. Batched' = Batched /\ Settled' = Settled \cup {x}
      BY <2>3, <2>9 DEF Batched, Elems, Reqs, Settled
    <3>2. Accounted'
      BY <2>1, <2>4, <3>1 DEF Places, Accounted
    <3> QED BY <2>1, <2>4, <2>5, <2>6, <2>9, <3>1, <3>2 DEF Places, Once
  <2>10. CASE /\ batch' = <<>>
              /\ \A q \in Requests :
                    fate'[q] # "none" <=> \/ fate[q] # "none"
                                          \/ q \in Reqs(Elems(batch) \cup {r})
    <3>1. Reqs(Elems(batch) \cup {r}) = Batched \cup {x}
      BY DEF Batched, Reqs
    <3>2. Settled' = Settled \cup Batched \cup {x}
      BY <2>3, <2>7, <2>10, <3>1 DEF Settled
    <3>3. Batched' = {} /\ DistinctReqs(batch')
      BY <2>10 DEF Batched, Elems, Reqs, DistinctReqs
    <3>4. Accounted'
      BY <2>1, <2>4, <3>2, <3>3 DEF Places, Accounted
    <3> QED BY <2>1, <2>4, <2>5, <2>6, <3>2, <3>3, <3>4 DEF Places, Once
  <2> QED BY <1>1, <2>8, <2>9, <2>10, TakeEffect
<1>2. CASE FlushTick
  BY <1>2, PlacesFlush DEF FlushTick
<1>3. CASE WriterEOF
  BY <1>3, PlacesFlush DEF WriterEOF
<1>4. CASE DrainTimeout
  BY <1>4, PlacesFlush DEF DrainTimeout
<1>5. CASE Settled' = Settled /\ UNCHANGED <<req, eventChan, wpc, job, resultChan, batch>>
  <2>1. /\ Accepted' = Accepted /\ Queued' = Queued /\ Busy' = Busy
        /\ Held' = Held /\ Decided' = Decided /\ Batched' = Batched
    BY <1>5 DEF Accepted, Queued, Busy, Held, Decided, Batched, Elems, Reqs
  <2> QED BY <1>5, <2>1 DEF Places, Accounted, Once
<1>6. CASE Retention
  <2>1. PICK old \in SUBSET db :
           fate' = [r \in Requests |-> IF r \in Reqs(old) THEN "expired" ELSE fate[r]]
    BY <1>6 DEF Retention
  <2>2. \A r \in Requests : r \in Reqs(old) => fate[r] = "stored"
    BY <2>1 DEF OneRowPerId, Reqs
  <2>3. Settled' = Settled
    BY <2>1, <2>2 DEF Settled
  <2> QED BY <1>5, <1>6, <2>3 DEF Retention
<1>7. CASE WriterCancelled
  BY <1>5, <1>7 DEF WriterCancelled, Settled
<1>8. ASSUME NEW r \in Requests, WebhookEnd(r) PROVE Places'
  BY <1>5, <1>8 DEF WebhookEnd, Settled
<1> QED BY <1>1, <1>2, <1>3, <1>4, <1>6, <1>7, <1>8 DEF WriterLoop

\* Neither main nor the end of the pool moves a request.
LEMMA PlacesMain ==
    ASSUME Places,
           \/ PoolDone \/ StopRequested \/ Main
           \/ ShutdownTimer \/ ForcedTimeout \/ WriterTimeout \/ UNCHANGED vars
    PROVE  Places'
<1>1. UNCHANGED <<req, eventChan, wpc, job, resultChan, batch, fate>>
  BY DEF PoolDone, StopRequested, Main, ShutdownTimer, ForcedTimeout, WriterTimeout,
         CloseEvents, PoolWaited, ForceCancel, Exit,
         mainVars, ingestVars, poolVars, writerVars, vars
<1>2. /\ Accepted' = Accepted /\ Queued' = Queued /\ Busy' = Busy
      /\ Held' = Held /\ Decided' = Decided /\ Batched' = Batched /\ Settled' = Settled
  BY <1>1 DEF Accepted, Queued, Busy, Held, Decided, Batched, Settled, Elems, Reqs
<1> QED BY <1>1, <1>2 DEF Places, Accounted, Once

-----------------------------------------------------------------------------
(* The results table.                                                      *)

\* Of the results of a batch that share an event_id without a row, the first
\* is the fresh one.
LEMMA FirstIsFresh ==
    ASSUME NEW b \in Seq(Result), NEW k \in 1..Len(b),
           \A row \in db : IdOf[row.req] # IdOf[b[k].req]
    PROVE  \E m \in 1..Len(b) : b[m] \in Fresh(b) /\ IdOf[b[m].req] = IdOf[b[k].req]
<1> DEFINE T == {m \in 1..Len(b) : IdOf[b[m].req] = IdOf[b[k].req]}
<1>1. T \subseteq Nat /\ T # {}
  OBVIOUS
<1>2. PICK m \in T : \A y \in T : ~(<<y, m>> \in OpToRel(<, Nat))
  <2> HIDE DEF T
  <2> QED BY <1>1, NatLessThanWellFounded, WFMin
<1>3. \A y \in T : ~(y < m)
  <2> SUFFICES ASSUME NEW y \in T, y < m PROVE FALSE
    OBVIOUS
  <2>1. <<y, m>> \in OpToRel(<, Nat)
    BY <1>1 DEF OpToRel
  <2> QED BY <1>2, <2>1
<1>4. \A y \in 1..(m - 1) : IdOf[b[y].req] # IdOf[b[m].req]
  BY <1>3
<1>5. b[m] \in Fresh(b)
  BY <1>4 DEF Fresh
<1> QED BY <1>5

\* A flush of results that are not settled yet keeps one row per event_id.
LEMMA RowsFlush ==
    ASSUME TypeOK, OneRowPerId, NEW b \in Seq(Result), Flush(b),
           Reqs(Elems(b)) \cap Settled = {}
    PROVE  OneRowPerId'
<1>1. CASE /\ db' = db \cup Fresh(b)
           /\ fate' = [r \in Requests |->
                 IF r \in Reqs(Fresh(b)) THEN "stored"
                 ELSE IF r \in Reqs(Elems(b)) THEN "ignored" ELSE fate[r]]
  <2>1. Fresh(b) \subseteq Elems(b)
    BY DEF Fresh, Elems
  <2>2. ASSUME NEW x \in db', NEW y \in db', IdOf[x.req] = IdOf[y.req] PROVE x = y
    <3>1. CASE x \in db /\ y \in db
      BY <2>2, <3>1 DEF OneRowPerId
    <3>2. ASSUME NEW u \in Fresh(b), NEW v \in db PROVE IdOf[u.req] # IdOf[v.req]
      BY DEF Fresh
    <3>3. CASE x \in Fresh(b) /\ y \in Fresh(b)
      <4>1. PICK i \in 1..Len(b) :
               x = b[i] /\ \A m \in 1..(i - 1) : IdOf[b[m].req] # IdOf[b[i].req]
        BY <3>3 DEF Fresh
      <4>2. PICK j \in 1..Len(b) :
               y = b[j] /\ \A m \in 1..(j - 1) : IdOf[b[m].req] # IdOf[b[j].req]
        BY <3>3 DEF Fresh
      <4>3. i = j
        BY <2>2, <4>1, <4>2
      <4> QED BY <4>1, <4>2, <4>3
    <3> QED BY <1>1, <2>2, <3>1, <3>2, <3>3
  <2>3. ASSUME NEW r \in Requests PROVE fate'[r] = "stored" <=> r \in Reqs(db')
    <3>1. r \in Reqs(db') <=> r \in Reqs(db) \/ r \in Reqs(Fresh(b))
      BY <1>1 DEF Reqs
    <3>2. r \in Reqs(db) => fate[r] = "stored" /\ r \in Settled
      BY DEF OneRowPerId, Settled
    <3>3. r \in Reqs(db) => r \notin Reqs(Elems(b))
      BY <3>2
    <3>4. r \in Reqs(Fresh(b)) => r \in Reqs(Elems(b))
      BY <2>1 DEF Reqs
    <3> QED BY <1>1, <3>1, <3>2, <3>3, <3>4 DEF OneRowPerId
  <2>4. ASSUME NEW r \in Requests, fate'[r] = "ignored"
        PROVE  \E q \in Requests \ {r} : /\ IdOf[q] = IdOf[r]
                                         /\ fate'[q] \in {"stored", "expired"}
    <3>1. CASE r \in Reqs(Elems(b))
      <4>1. r \notin Reqs(Fresh(b))
        BY <1>1, <2>4
      <4>2. PICK k \in 1..Len(b) : b[k].req = r
        BY <3>1 DEF Elems, Reqs
      <4>3. CASE \E row \in db : IdOf[row.req] = IdOf[r]
        <5>1. PICK row \in db : IdOf[row.req] = IdOf[r]
          BY <4>3
        <5>2. row.req \in Requests
          BY DEF TypeOK, Result
        <5>3. fate[row.req] = "stored"
          BY <5>2 DEF OneRowPerId, Reqs
        <5>4. row.req \notin Reqs(Elems(b))
          BY <5>2, <5>3 DEF Settled
        <5>5. row.req # r /\ fate'[row.req] \in {"stored", "expired"}
          BY <1>1, <3>1, <5>2, <5>3, <5>4
        <5> QED BY <5>1, <5>2, <5>5
      <4>4. CASE \A row \in db : IdOf[row.req] # IdOf[r]
        <5>1. PICK m \in 1..Len(b) : b[m] \in Fresh(b) /\ IdOf[b[m].req] = IdOf[r]
          BY <4>2, <4>4, FirstIsFresh
        <5>2. b[m].req \in Requests /\ b[m].req \in Reqs(Fresh(b))
          <6>1. b[m] \in Result
            OBVIOUS
          <6> QED BY <5>1, <6>1 DEF Result, Reqs
        <5>3. b[m].req # r /\ fate'[b[m].req] = "stored"
          BY <1>1, <4>1, <5>2
        <5> QED BY <5>1, <5>2, <5>3
      <4> QED BY <4>3, <4>4
    <3>2. CASE r \notin Reqs(Elems(b))
      <4>1. fate[r] = "ignored"
        BY <1>1, <2>4, <3>2
      <4>2. PICK q \in Requests \ {r} : /\ IdOf[q] = IdOf[r]
                                        /\ fate[q] \in {"stored", "expired"}
        BY <4>1 DEF OneRowPerId
      <4>3. q \notin Reqs(Elems(b))
        BY <4>2 DEF Settled
      <4>4. q \notin Reqs(Fresh(b))
        BY <2>1, <4>3 DEF Reqs
      <4>5. fate'[q] = fate[q]
        BY <1>1, <4>3, <4>4
      <4> QED BY <4>2, <4>5
    <3> QED BY <3>1, <3>2
  <2> QED BY <2>2, <2>3, <2>4 DEF OneRowPerId
<1>2. CASE /\ db' = db
           /\ fate' = [r \in Requests |->
                 IF r \in Reqs(Elems(b)) THEN "lost" ELSE fate[r]]
  <2>1. \A r \in Requests : fate[r] # "none" => fate'[r] = fate[r]
    BY <1>2 DEF Settled
  <2>2. \A r \in Requests : fate'[r] \in {"stored", "ignored"} => fate'[r] = fate[r]
    BY <1>2
  <2>3. ASSUME NEW r \in Requests PROVE fate'[r] = "stored" <=> r \in Reqs(db')
    BY <1>2, <2>1, <2>2, <2>3 DEF OneRowPerId, Reqs
  <2>4. ASSUME NEW r \in Requests, fate'[r] = "ignored"
        PROVE  \E q \in Requests \ {r} : /\ IdOf[q] = IdOf[r]
                                         /\ fate'[q] \in {"stored", "expired"}
    <3>1. PICK q \in Requests \ {r} : /\ IdOf[q] = IdOf[r]
                                      /\ fate[q] \in {"stored", "expired"}
      BY <2>2, <2>4 DEF OneRowPerId
    <3>2. fate'[q] = fate[q]
      BY <2>1, <3>1
    <3> QED BY <3>1, <3>2
  <2> QED BY <1>2, <2>3, <2>4 DEF OneRowPerId
<1> QED BY <1>1, <1>2 DEF Flush

\* Only the writer touches rows and fates.
LEMMA RowsSame ==
    ASSUME OneRowPerId, UNCHANGED <<db, fate>>
    PROVE  OneRowPerId'
BY DEF OneRowPerId, Reqs

\* Each step of the writer keeps one row per event_id.
LEMMA RowsWriter ==
    ASSUME TypeOK, Places, OneRowPerId,
           \/ WriterLoop \/ Retention \/ DrainTimeout
           \/ \E r \in Requests : WebhookEnd(r)
    PROVE  OneRowPerId'
<1> USE DEF mainVars, ingestVars, poolVars
<1>1. Reqs(Elems(batch)) \cap Settled = {} /\ batch \in Seq(Result)
  BY DEF Places, Once, Batched, TypeOK
<1>2. CASE WriterTake
  <2> DEFINE r == Head(resultChan)
             b == Append(batch, r)
  <2>1. /\ r \in Result /\ resultChan \in Seq(Result) /\ resultChan # <<>>
        /\ Elems(resultChan) = {r} \cup Elems(resultChan')
    BY <1>2, TakeEffect DEF WriterTake
  <2>2. r.req \in Requests /\ r.req \in Decided
    BY <2>1 DEF Result, Decided, Reqs
  <2>3. r.req \notin Settled
    BY <2>2 DEF Places, Once
  <2>4. CASE Collect(r)
    <3>1. b \in Seq(Result) /\ Elems(b) = Elems(batch) \cup {r}
      BY <1>1, <2>1, ElemsAppend
    <3>2. Reqs(Elems(b)) = Reqs(Elems(batch)) \cup {r.req}
      BY <3>1 DEF Reqs
    <3>3. Reqs(Elems(b)) \cap Settled = {}
      BY <1>1, <2>3, <3>2
    <3>4. CASE Flush(b)
      BY <3>1, <3>3, <3>4, RowsFlush
    <3>5. CASE UNCHANGED <<db, fate>>
      BY <3>5, RowsSame
    <3> QED BY <2>4, <3>4, <3>5 DEF Collect
  <2>5. CASE /\ fate' = [fate EXCEPT ![r.req] = "skipped"]
             /\ db' = db
    <3>1. fate[r.req] = "none"
      BY <2>2, <2>3 DEF Settled
    <3>2. \A q \in Requests : fate'[q] = IF q = r.req THEN "skipped" ELSE fate[q]
      BY <2>5 DEF TypeOK
    <3>3. ASSUME NEW q \in Requests PROVE fate'[q] = "stored" <=> q \in Reqs(db')
      BY <2>5, <3>1, <3>2 DEF OneRowPerId, Reqs
    <3>4. ASSUME NEW q \in Requests, fate'[q] = "ignored"
          PROVE  \E p \in Requests \ {q} : /\ IdOf[p] = IdOf[q]
                                           /\ fate'[p] \in {"stored", "expired"}
      <4>1. PICK p \in Requests \ {q} : /\ IdOf[p] = IdOf[q]
                                        /\ fate[p] \in {"stored", "expired"}
        BY <3>2, <3>4 DEF OneRowPerId
      <4>2. fate'[p] = fate[p]
        BY <3>1, <3>2, <4>1
      <4> QED BY <4>1, <4>2
    <3> QED BY <2>5, <3>3, <3>4 DEF OneRowPerId
  <2> QED BY <1>2, <2>4, <2>5 DEF WriterTake
<1>3. CASE FlushTick \/ WriterEOF \/ DrainTimeout
  BY <1>1, <1>3, RowsFlush DEF FlushTick, WriterEOF, DrainTimeout
<1>4. CASE Retention
  <2>1. PICK old \in SUBSET db :
           /\ db' = db \ old
           /\ fate' = [r \in Requests |-> IF r \in Reqs(old) THEN "expired" ELSE fate[r]]
    BY <1>4 DEF Retention
  <2>2. ASSUME NEW x \in db', NEW y \in db', IdOf[x.req] = IdOf[y.req] PROVE x = y
    BY <2>1, <2>2 DEF OneRowPerId
  <2>3. ASSUME NEW r \in Requests PROVE fate'[r] = "stored" <=> r \in Reqs(db')
    <3>1. \A x, y \in db : x.req = y.req => x = y
      BY DEF OneRowPerId
    <3>2. r \in Reqs(db') <=> r \in Reqs(db) /\ r \notin Reqs(old)
      BY <2>1, <3>1 DEF Reqs
    <3> QED BY <2>1, <3>2 DEF OneRowPerId
  <2>4. ASSUME NEW r \in Requests, fate'[r] = "ignored"
        PROVE  \E q \in Requests \ {r} : /\ IdOf[q] = IdOf[r]
                                         /\ fate'[q] \in {"stored", "expired"}
    <3>1. fate[r] = "ignored"
      BY <2>1, <2>4
    <3>2. PICK q \in Requests \ {r} : /\ IdOf[q] = IdOf[r]
                                      /\ fate[q] \in {"stored", "expired"}
      BY <3>1 DEF OneRowPerId
    <3> QED BY <2>1, <3>2
  <2> QED BY <2>2, <2>3, <2>4 DEF OneRowPerId
<1>5. CASE WriterCancelled
  BY <1>5, RowsSame DEF WriterCancelled
<1>6. ASSUME NEW r \in Requests, WebhookEnd(r) PROVE OneRowPerId'
  BY <1>6, RowsSame DEF WebhookEnd
<1> QED BY <1>2, <1>3, <1>4, <1>5, <1>6 DEF WriterLoop

\* The inductive invariant behind conservation and the results table.
Ledger == TypeOK /\ Places /\ OneRowPerId

\* The accounting holds at start.
LEMMA LedgerInit == Init => Ledger
<1>1. Init => OneRowPerId
  BY DEF Init, OneRowPerId, Reqs
<1> QED BY <1>1, TypeInit, PlacesInit DEF Ledger

\* The accounting of events and rows is inductive.
LEMMA LedgerNext == Ledger /\ [Next]_vars => Ledger'
<1> SUFFICES ASSUME TypeOK, Places, OneRowPerId, [Next]_vars PROVE Ledger'
  BY DEF Ledger
<1>1. TypeOK'
  BY TypeNext
<1>2. ASSUME NEW r \in Requests, Handler(r) PROVE Places' /\ OneRowPerId'
  BY <1>2, PlacesHandler, RowsSame DEF Handler, Arrive, Reject, Enqueue, writerVars
<1>3. ASSUME NEW w \in Workers, Worker(w) PROVE Places' /\ OneRowPerId'
  BY <1>3, PlacesWorker, RowsSame DEF Worker, Dequeue, Evaluate, Send, ExitWorker, writerVars
<1>4. CASE \/ WriterLoop \/ Retention \/ DrainTimeout
           \/ \E r \in Requests : WebhookEnd(r)
  BY <1>1, <1>4, PlacesWriter, RowsWriter DEF Ledger
<1>5. CASE \/ PoolDone \/ StopRequested \/ Main
           \/ ShutdownTimer \/ ForcedTimeout \/ WriterTimeout \/ UNCHANGED vars
  <2>1. UNCHANGED <<db, fate>>
    BY <1>5 DEF PoolDone, StopRequested, Main, ShutdownTimer, ForcedTimeout,
                WriterTimeout, CloseEvents, PoolWaited, ForceCancel, Exit, writerVars, vars
  <2> QED BY <1>1, <1>5, <2>1, PlacesMain, RowsSame DEF Ledger
<1> QED BY <1>1, <1>2, <1>3, <1>4, <1>5 DEF Ledger, Next, Timers, Ended

\* The accounting holds throughout.
LEMMA LedgerCorrect == Spec => []Ledger
<1> QED BY LedgerInit, LedgerNext, PTL DEF Spec

\* No event answered 202 is lost between two stages of the pipeline, and none
\* appears from nowhere, for every number of requests, workers and slots.
THEOREM AccountedCorrect == Spec => []Accounted
<1>1. Ledger => Accounted
  BY DEF Ledger, Places
<1> QED BY <1>1, LedgerCorrect, PTL

\* The results table holds one row per event_id and reports ignored results
\* truthfully, however duplicates are spread over batches and retention runs.
THEOREM OneRowPerIdCorrect == Spec => []OneRowPerId
<1>1. Ledger => OneRowPerId
  BY DEF Ledger
<1> QED BY <1>1, LedgerCorrect, PTL

\* When the writer returns on a closed channel, every event answered 202 has
\* been settled.
THEOREM DrainedIsSettledCorrect == Spec => []DrainedIsSettled
<1>1. Ledger /\ Order => DrainedIsSettled
  <2> SUFFICES ASSUME Ledger, Order, writer = "done" PROVE Accepted \subseteq Settled
    BY DEF DrainedIsSettled
  <2>1. /\ resultChan = <<>> /\ batch = <<>> /\ eventChan = <<>>
        /\ \A w \in Workers : wpc[w] = "exited"
    BY FiniteAssumption DEF Order
  <2>2. Queued = {} /\ Decided = {} /\ Batched = {} /\ Busy = {}
    BY <2>1 DEF Queued, Decided, Batched, Busy, Elems, Reqs
  <2>3. Held = {}
    BY <2>2 DEF Held
  <2> QED BY <2>2, <2>3 DEF Ledger, Places, Accounted
<1> QED BY <1>1, LedgerCorrect, OrderCorrect, PTL

-----------------------------------------------------------------------------
(* A shutdown within its budget.                                           *)

\* A result was computed under a dead context only after pipeCancel.
DeadOnlyCancelled ==
    pipeCancelled \/ /\ \A w \in Busy : ~job[w].dead
                     /\ \A r \in Elems(resultChan) \cup Elems(batch) \cup db : ~r.dead

\* At start no context is cancelled.
LEMMA DeadInit == Init => DeadOnlyCancelled
BY DEF Init, DeadOnlyCancelled, Busy, Elems

\* pipeCtx never comes back.
LEMMA CancelStays == [Next]_vars /\ pipeCancelled => pipeCancelled'
<1> SUFFICES ASSUME [Next]_vars, pipeCancelled PROVE pipeCancelled'
  OBVIOUS
<1> USE DEF mainVars
<1>1. ASSUME NEW r \in Requests, Handler(r) \/ WebhookEnd(r) PROVE pipeCancelled'
  BY <1>1 DEF Handler, Arrive, Reject, Enqueue, WebhookEnd
<1>2. ASSUME NEW w \in Workers, Worker(w) PROVE pipeCancelled'
  BY <1>2 DEF Worker, Dequeue, Evaluate, Send, ExitWorker
<1>3. CASE WriterLoop \/ Retention \/ DrainTimeout
  BY <1>3 DEF WriterLoop, WriterTake, FlushTick, WriterEOF, WriterCancelled,
              Retention, DrainTimeout
<1>4. CASE \/ PoolDone \/ StopRequested \/ Main \/ ShutdownTimer
           \/ ForcedTimeout \/ WriterTimeout \/ UNCHANGED vars
  BY <1>4 DEF PoolDone, StopRequested, Main, ShutdownTimer, ForcedTimeout,
              WriterTimeout, CloseEvents, PoolWaited, ForceCancel, Exit, vars
<1> QED BY <1>1, <1>2, <1>3, <1>4 DEF Next, Timers, Ended

\* An event is evaluated under a dead context only after pipeCancel.
LEMMA DeadNext == TypeOK /\ DeadOnlyCancelled /\ [Next]_vars => DeadOnlyCancelled'
<1> SUFFICES ASSUME TypeOK, DeadOnlyCancelled, [Next]_vars, ~pipeCancelled
             PROVE  DeadOnlyCancelled'
  BY CancelStays DEF DeadOnlyCancelled
<1>1. /\ \A w \in Busy : ~job[w].dead
      /\ \A r \in Elems(resultChan) \cup Elems(batch) \cup db : ~r.dead
  BY DEF DeadOnlyCancelled
<1>2. CASE UNCHANGED <<wpc, job, resultChan, batch, db>>
  BY <1>2, <1>1 DEF DeadOnlyCancelled, Busy, Elems
<1>3. ASSUME NEW b \in Seq(Result), Flush(b), \A r \in Elems(b) : ~r.dead
      PROVE  \A r \in db' : ~r.dead
  BY <1>1, <1>3, FlushEffect
<1>4. ASSUME NEW w \in Workers, Worker(w) PROVE DeadOnlyCancelled'
  <2>1. batch' = batch /\ db' = db
    BY <1>4 DEF Worker, Dequeue, Evaluate, Send, ExitWorker, writerVars
  <2>2. CASE Dequeue(w)
    <3>1. \A v \in Busy' : v = w \/ (v \in Busy /\ job'[v] = job[v])
      BY <2>2 DEF Dequeue, Busy, TypeOK
    <3>2. ~job'[w].dead
      BY <2>2 DEF Dequeue, TypeOK
    <3>3. resultChan' = resultChan
      BY <2>2 DEF Dequeue
    <3> QED BY <1>1, <2>1, <3>1, <3>2, <3>3 DEF DeadOnlyCancelled, Elems
  <2>3. CASE Evaluate(w)
    <3>1. Busy' = Busy /\ resultChan' = resultChan
      BY <2>3 DEF Evaluate, Busy, TypeOK
    <3>2. \A v \in Busy : job'[v].dead = job[v].dead
      BY <2>3 DEF Evaluate, Busy, TypeOK
    <3> QED BY <1>1, <2>1, <3>1, <3>2 DEF DeadOnlyCancelled, Elems
  <2>4. CASE Send(w)
    <3>1. \A v \in Busy' : v \in Busy /\ job'[v] = job[v]
      BY <2>4 DEF Send, Busy, TypeOK
    <3>2. w \in Busy /\ job[w] \in Result /\ resultChan' = Append(resultChan, job[w])
      BY <2>4 DEF Send, Busy, TypeOK
    <3>3. Elems(resultChan') = Elems(resultChan) \cup {job[w]}
      BY <3>2, ElemsAppend DEF TypeOK
    <3>4. Elems(batch') = Elems(batch)
      BY <2>1 DEF Elems
    <3> QED BY <1>1, <2>1, <3>1, <3>2, <3>3, <3>4 DEF DeadOnlyCancelled
  <2>5. CASE ExitWorker(w)
    <3>1. Busy' = Busy /\ job' = job /\ resultChan' = resultChan
      BY <2>5 DEF ExitWorker, Busy, TypeOK
    <3> QED BY <1>1, <2>1, <3>1 DEF DeadOnlyCancelled, Elems
  <2> QED BY <1>4, <2>2, <2>3, <2>4, <2>5 DEF Worker
<1>5. CASE FlushTick \/ WriterEOF \/ DrainTimeout
  <2>1. /\ Flush(batch) /\ batch \in Seq(Result) /\ batch' = <<>>
        /\ UNCHANGED <<wpc, job, resultChan>>
    BY <1>5 DEF FlushTick, WriterEOF, DrainTimeout, poolVars, TypeOK
  <2>2. \A r \in db' : ~r.dead
    BY <1>1, <1>3, <2>1
  <2>3. Elems(batch') = {} /\ Elems(resultChan') = Elems(resultChan) /\ Busy' = Busy
    BY <2>1 DEF Elems, Busy
  <2> QED BY <1>1, <2>1, <2>2, <2>3 DEF DeadOnlyCancelled
<1>6. CASE WriterTake
  <2> DEFINE r == Head(resultChan)
  <2>1. UNCHANGED <<wpc, job>>
    BY <1>6 DEF WriterTake
  <2>2. Busy' = Busy
    BY <2>1 DEF Busy
  <2>3. /\ r \in Result /\ Elems(resultChan) = {r} \cup Elems(resultChan')
        /\ db' \subseteq db \cup Elems(batch) \cup {r}
    BY <1>6, TakeEffect
  <2>4. Elems(batch') \subseteq Elems(batch) \cup {r}
    <3>1. Elems(Append(batch, r)) = Elems(batch) \cup {r}
      BY <2>3, ElemsAppend DEF TypeOK
    <3>2. batch' = Append(batch, r) \/ batch' = batch \/ batch' = <<>>
      BY <1>6, TakeEffect
    <3> QED BY <3>1, <3>2, ElemsType
  <2> QED BY <1>1, <2>1, <2>2, <2>3, <2>4 DEF DeadOnlyCancelled
<1>7. CASE Retention
  <2>1. db' \subseteq db /\ UNCHANGED <<wpc, job, resultChan, batch>>
    BY <1>7 DEF Retention, poolVars
  <2> QED BY <1>1, <2>1 DEF DeadOnlyCancelled, Busy, Elems
<1>8. ASSUME NEW r \in Requests, Handler(r) \/ WebhookEnd(r) PROVE DeadOnlyCancelled'
  BY <1>2, <1>8 DEF Handler, Arrive, Reject, Enqueue, WebhookEnd, poolVars, writerVars
<1>9. CASE \/ PoolDone \/ StopRequested \/ Main \/ ShutdownTimer \/ WriterCancelled
           \/ ForcedTimeout \/ WriterTimeout \/ UNCHANGED vars
  BY <1>2, <1>9 DEF PoolDone, StopRequested, Main, ShutdownTimer, ForcedTimeout,
                    WriterTimeout, CloseEvents, PoolWaited, ForceCancel, Exit,
                    WriterCancelled, poolVars, writerVars, vars
<1> QED BY <1>4, <1>5, <1>6, <1>7, <1>8, <1>9 DEF Next, Timers, WriterLoop, Ended

\* A shutdown within its budget meets no closed channel, evaluates nothing
\* under a cancelled context, and leaves nothing it accepted unsettled.
THEOREM CleanInBudgetCorrect == Spec => []CleanInBudget
<1>1. Spec => []DeadOnlyCancelled
  BY DeadInit, DeadNext, TypeCorrect, PTL DEF Spec
<1>2. Ledger /\ Order /\ DrainedIsSettled /\ DeadOnlyCancelled => CleanInBudget
  BY DEF Ledger, TypeOK, WriterPC, Order, DrainedIsSettled, DeadOnlyCancelled, CleanInBudget
<1> QED BY <1>1, <1>2, LedgerCorrect, OrderCorrect, DrainedIsSettledCorrect, PTL

-----------------------------------------------------------------------------
(* The process implements Delivery.                                        *)

\* What the client of a request is told follows from its handler alone.
LEMMA ToldValue ==
    /\ \A r \in Requests : req[r] \in {"new", "reading"} => Told[r] = "none"
    /\ \A r \in Requests : req[r] \in {"accepted", "busy"} => Told[r] = req[r]
    /\ \A r \in Requests : req[r] \in {"rejected", "panicked"} => Told[r] = "failed"
BY DEF Told

\* The batch holds results of requests.
LEMMA BatchedReqs == TypeOK => Batched \subseteq Requests
<1>1. TypeOK => Elems(batch) \subseteq Result
  BY ElemsType DEF TypeOK
<1> QED BY <1>1 DEF Batched, Reqs, Result

\* The result the writer receives is one it has not received before, and it is
\* the only one received in that step.
LEMMA TakenTake ==
    ASSUME TypeOK, Places, WriterTake
    PROVE  LET x == Head(resultChan).req IN
           /\ x \in Requests /\ x \in Accepted
           /\ x \notin Taken
           /\ Taken' = Taken \cup {x}
<1> DEFINE r == Head(resultChan)
           x == r.req
<1>1. /\ r \in Result /\ batch \in Seq(Result)
      /\ Elems(resultChan) = {r} \cup Elems(resultChan')
  BY TakeEffect DEF TypeOK
<1>2. x \in Requests /\ x \in Decided
  BY <1>1 DEF Result, Decided, Reqs
<1>3. x \in Accepted /\ x \notin Taken
  BY <1>2 DEF Places, Accounted, Once, Taken
<1>4. Reqs(Elems(batch) \cup {r}) = Batched \cup {x}
  BY DEF Batched, Reqs
<1>5. CASE batch' = Append(batch, r) /\ fate' = fate
  <2>1. Elems(batch') = Elems(batch) \cup {r}
    BY <1>1, <1>5, ElemsAppend
  <2>2. Batched' = Batched \cup {x}
    BY <1>4, <2>1 DEF Batched
  <2> QED BY <1>2, <1>3, <1>5, <2>2 DEF Taken, Settled
<1>6. CASE /\ batch' = batch
           /\ \A q \in Requests : fate'[q] # "none" <=> fate[q] # "none" \/ q = x
  <2>1. Batched' = Batched /\ Settled' = Settled \cup {x}
    BY <1>2, <1>6 DEF Batched, Elems, Reqs, Settled
  <2> QED BY <1>2, <1>3, <2>1 DEF Taken
<1>7. CASE /\ batch' = <<>>
           /\ \A q \in Requests :
                 fate'[q] # "none" <=> \/ fate[q] # "none"
                                       \/ q \in Reqs(Elems(batch) \cup {r})
  <2>1. Settled' = Settled \cup Batched \cup {x}
    BY <1>2, <1>4, <1>7, BatchedReqs DEF Settled
  <2>2. Batched' = {}
    BY <1>7 DEF Batched, Elems, Reqs
  <2> QED BY <1>2, <1>3, <2>1, <2>2 DEF Taken
<1> QED BY <1>5, <1>6, <1>7, TakeEffect

\* A flush settles results the writer has received.
LEMMA TakenFlush ==
    ASSUME TypeOK, Flush(batch), batch' = <<>>
    PROVE  Taken' = Taken
<1>1. \A q \in Requests :
         fate'[q] # "none" <=> fate[q] # "none" \/ q \in Reqs(Elems(batch))
  BY FlushEffect DEF TypeOK
<1>2. Settled' = Settled \cup Batched
  BY <1>1, BatchedReqs DEF Settled, Batched
<1>3. Batched' = {}
  BY DEF Batched, Elems, Reqs
<1> QED BY <1>2, <1>3 DEF Taken

\* Retention turns stored results into expired ones and nothing else.
LEMMA RetentionEffect ==
    ASSUME TypeOK, OneRowPerId, Retention
    PROVE  /\ Taken' = Taken
           /\ \E old \in (SUBSET {r \in Requests : fate[r] = "stored"}) \ {{}} :
                 fate' = [r \in Requests |-> IF r \in old THEN "expired" ELSE fate[r]]
<1>1. PICK old \in (SUBSET db) \ {{}} :
         fate' = [r \in Requests |-> IF r \in Reqs(old) THEN "expired" ELSE fate[r]]
  BY DEF Retention
<1>2. Reqs(old) \in (SUBSET {r \in Requests : fate[r] = "stored"}) \ {{}}
  <2>1. \A y \in old : y.req \in Requests /\ fate[y.req] = "stored"
    BY DEF TypeOK, Result, OneRowPerId, Reqs
  <2> QED BY <2>1 DEF Reqs
<1>3. Settled' = Settled
  BY <1>1, <1>2 DEF Settled
<1>4. Batched' = Batched
  BY DEF Retention, Batched, Elems, Reqs
<1> QED BY <1>1, <1>2, <1>3, <1>4 DEF Taken

\* The results that wait for a transaction in Delivery are those of the batch.
LEMMA WaitingIsBatched == ASSUME TypeOK, Places PROVE D!Waiting = Batched
<1>1. Batched \cap Settled = {}
  BY DEF Places, Once
<1> QED BY <1>1, BatchedReqs DEF D!Waiting, Taken, Settled

\* A transaction over a batch of unsettled results is one of Delivery's: of the
\* results of an event_id without a row one is stored, the others are ignored.
LEMMA FlushSettles ==
    ASSUME TypeOK, OneRowPerId, NEW b \in Seq(Result), Flush(b), DistinctReqs(b)
    PROVE  D!Settle(Reqs(Elems(b)))
<1> DEFINE S == Reqs(Elems(b))
           new == Reqs(Fresh(b))
<1>1. CASE /\ db' = db \cup Fresh(b)
           /\ fate' = [r \in Requests |->
                 IF r \in new THEN "stored" ELSE IF r \in S THEN "ignored" ELSE fate[r]]
  <2>1. new \in SUBSET S
    BY DEF Fresh, Elems, Reqs
  <2>2. ASSUME NEW r \in new PROVE ~D!HasRow(IdOf[r])
    <3>1. PICK x \in Fresh(b) : r = x.req
      BY DEF Reqs
    <3>2. \A row \in db : IdOf[row.req] # IdOf[r]
      BY <3>1 DEF Fresh
    <3>3. \A q \in Requests : fate[q] = "stored" => IdOf[q] # IdOf[r]
      BY <3>2 DEF OneRowPerId, Reqs
    <3> QED BY <3>3 DEF D!HasRow
  <2>3. ASSUME NEW r \in new, NEW q \in new, IdOf[r] = IdOf[q] PROVE r = q
    <3>1. PICK i \in 1..Len(b) :
             r = b[i].req /\ \A m \in 1..(i - 1) : IdOf[b[m].req] # IdOf[b[i].req]
      BY DEF Fresh, Reqs
    <3>2. PICK j \in 1..Len(b) :
             q = b[j].req /\ \A m \in 1..(j - 1) : IdOf[b[m].req] # IdOf[b[j].req]
      BY DEF Fresh, Reqs
    <3> HIDE DEF new
    <3>3. i = j
      BY <2>3, <3>1, <3>2
    <3> QED BY <3>1, <3>2, <3>3
  <2>4. ASSUME NEW r \in S \ new
        PROVE  D!HasRow(IdOf[r]) \/ \E q \in new : IdOf[q] = IdOf[r]
    <3>1. PICK k \in 1..Len(b) : b[k].req = r
      BY DEF Elems, Reqs
    <3>2. CASE \E row \in db : IdOf[row.req] = IdOf[r]
      <4>1. PICK row \in db : IdOf[row.req] = IdOf[r]
        BY <3>2
      <4>2. row.req \in Requests
        BY DEF TypeOK, Result
      <4>3. fate[row.req] = "stored"
        BY <4>2 DEF OneRowPerId, Reqs
      <4> QED BY <4>1, <4>2, <4>3 DEF D!HasRow
    <3>3. CASE \A row \in db : IdOf[row.req] # IdOf[r]
      <4>1. PICK m \in 1..Len(b) : b[m] \in Fresh(b) /\ IdOf[b[m].req] = IdOf[r]
        BY <3>1, <3>3, FirstIsFresh
      <4> QED BY <4>1 DEF Reqs
    <3> QED BY <3>2, <3>3
  <2> HIDE DEF S, new
  <2> QED BY <1>1, <2>1, <2>2, <2>3, <2>4 DEF D!Settle, S
<1>2. CASE /\ DbMayFail
           /\ fate' = [r \in Requests |-> IF r \in S THEN "lost" ELSE fate[r]]
  BY <1>2 DEF D!Settle
<1> QED BY <1>1, <1>2 DEF Flush

\* A step that tells no client, takes and settles nothing and does not end the
\* process is invisible to Delivery.
LEMMA DeliveryStutter ==
    ASSUME UNCHANGED <<req, batch, fate, sending>>, (main # "exited")' <=> (main # "exited")
    PROVE  UNCHANGED D!deliveryVars
<1>1. Told' = Told
  BY DEF Told
<1>2. Taken' = Taken
  BY DEF Taken, Batched, Settled, Elems, Reqs
<1> QED BY <1>1, <1>2 DEF D!deliveryVars

\* A handler answers its request once, or goes on reading.
LEMMA DeliveryHandler ==
    ASSUME TypeOK, NEW r \in Requests, Handler(r)
    PROVE  [D!DNext]_(D!deliveryVars)
<1> USE DEF mainVars, poolVars, writerVars
<1>1. UNCHANGED <<main, batch, fate, sending>>
  BY DEF Handler, Arrive, Reject, Enqueue
<1>2. Taken' = Taken
  BY <1>1 DEF Taken, Batched, Settled, Elems, Reqs
<1>3. CASE Arrive(r)
  <2>1. Told' = Told
    <3>1. \A q \in Requests : Told'[q] = Told[q]
      BY <1>3 DEF Arrive, TypeOK, Told
    <3> QED BY <3>1 DEF Told
  <2> QED BY <1>1, <1>2, <2>1 DEF D!deliveryVars
<1>4. ASSUME Alive, req[r] = "reading",
             NEW p \in {"rejected", "busy", "accepted", "panicked"},
             req' = [req EXCEPT ![r] = p]
      PROVE  D!Answer(r)
  <2> DEFINE a == IF p \in {"accepted", "busy"} THEN p ELSE "failed"
  <2>1. Told[r] = "none"
    BY <1>4, ToldValue
  <2>2. Told' = [Told EXCEPT ![r] = a]
    BY <1>4 DEF TypeOK, Told
  <2>3. a \in D!Answers \ {"none"}
    BY DEF D!Answers
  <2> HIDE DEF a
  <2> QED BY <1>1, <1>2, <1>4, <2>1, <2>2, <2>3 DEF D!Answer, Alive
<1>5. CASE Reject(r) \/ Enqueue(r)
  <2>1. D!Answer(r)
    BY <1>4, <1>5 DEF Reject, Enqueue
  <2> QED BY <2>1 DEF D!DNext
<1> QED BY <1>3, <1>5 DEF Handler

\* Delivery counts the webhooks in flight as Pipeline does.
LEMMA SameCount == D!Cardinality(sending) = Cardinality(sending)
BY DEF D!Cardinality, Cardinality

\* The writer takes a result once: it skips it, adds it to the batch, or settles
\* it with the batch.
LEMMA DeliveryTake ==
    ASSUME TypeOK, Places, OneRowPerId, WriterTake
    PROVE  D!DNext
<1> USE DEF mainVars, ingestVars
<1> DEFINE r == Head(resultChan)
           x == r.req
           b == Append(batch, r)
<1>1. r \in Result /\ batch \in Seq(Result)
  BY TakeEffect DEF TypeOK
<1>2. x \in Requests /\ x \notin Taken /\ Taken' = Taken \cup {x}
  BY TakenTake
<1>3. Told[x] = "accepted" /\ Told' = Told
  <2>1. req[x] = "accepted" /\ req' = req
    BY TakenTake DEF Accepted, WriterTake
  <2>2. Told' = Told
    BY <2>1 DEF Told
  <2> QED BY <1>2, <2>1, <2>2, ToldValue
<1>4. Alive /\ main' = main
  BY DEF WriterTake
<1>5. CASE /\ ~Keep(r)
           /\ fate' = [fate EXCEPT ![x] = "skipped"]
           /\ UNCHANGED <<batch, db, sending>>
  <2>1. EmitInteresting
    BY <1>5 DEF Keep
  <2>2. D!Take(x)
    BY <1>2, <1>3, <1>4, <1>5, <2>1 DEF D!Take, Alive
  <2> QED BY <1>2, <2>2 DEF D!DNext
<1>6. CASE Keep(r) /\ Collect(r) /\ Dispatch(r)
  <2>1. \/ UNCHANGED sending
        \/ Cardinality(sending) < MaxWebhooks /\ sending' = sending \cup {x}
    BY <1>6 DEF Dispatch
  <2>2. UNCHANGED fate \/ D!Settle(D!Waiting \cup {x})
    <3>1. CASE Flush(b)
      <4>1. b \in Seq(Result) /\ Elems(b) = Elems(batch) \cup {r}
        BY <1>1, ElemsAppend
      <4>2. Reqs(Elems(b)) = Batched \cup {x}
        BY <4>1 DEF Batched, Reqs
      <4>3. DistinctReqs(b)
        BY <1>1, <1>2, DistinctReqsAppend DEF Places, Once, Taken, Batched
      <4>4. D!Settle(Reqs(Elems(b)))
        BY <3>1, <4>1, <4>3, FlushSettles
      <4> QED BY <4>2, <4>4, WaitingIsBatched
    <3> QED BY <1>6, <3>1 DEF Collect
  <2>3. D!Take(x)
    <3> HIDE DEF x
    <3> QED BY <1>2, <1>3, <1>4, <2>1, <2>2, SameCount DEF D!Take, Alive
  <2> QED BY <1>2, <2>3 DEF D!DNext
<1> QED BY <1>5, <1>6 DEF WriterTake

\* A flush of the batch settles everything that waits, or does nothing when the
\* batch is empty.
LEMMA DeliveryFlush ==
    ASSUME TypeOK, Places, OneRowPerId, Alive, Flush(batch), batch' = <<>>,
           UNCHANGED <<main, req, sending>>
    PROVE  [D!DNext]_(D!deliveryVars)
<1>1. Told' = Told
  BY DEF Told
<1>2. Taken' = Taken
  BY TakenFlush
<1>3. CASE Batched = {}
  <2>1. Reqs(Elems(batch)) = {} /\ Elems(batch) = {}
    BY <1>3 DEF Batched, Reqs
  <2>2. Fresh(batch) = {}
    BY <2>1 DEF Fresh, Elems
  <2>3. \A q \in Requests : fate'[q] = fate[q]
    BY <2>1, <2>2 DEF Flush, Reqs
  <2>4. fate' = fate
    <3>1. fate' \in [Requests -> Fate] /\ fate \in [Requests -> Fate]
      BY FlushEffect DEF TypeOK
    <3> QED BY <2>3, <3>1
  <2> QED BY <1>1, <1>2, <2>4 DEF D!deliveryVars
<1>4. CASE Batched # {}
  <2>1. D!Settle(D!Waiting)
    <3>1. D!Settle(Reqs(Elems(batch)))
      BY FlushSettles DEF Places, Once, TypeOK
    <3> QED BY <3>1, WaitingIsBatched DEF Batched
  <2>2. D!Flushed
    BY <1>1, <1>2, <1>4, <2>1, WaitingIsBatched DEF D!Flushed, Alive
  <2> QED BY <2>2 DEF D!DNext
<1> QED BY <1>3, <1>4

\* Every step of the process is a step of Delivery or invisible to it.
LEMMA DeliveryNext == Ledger /\ [Next]_vars => [D!DNext]_(D!deliveryVars)
<1> SUFFICES ASSUME TypeOK, Places, OneRowPerId, [Next]_vars
             PROVE  [D!DNext]_(D!deliveryVars)
  BY DEF Ledger
<1> USE DEF mainVars, ingestVars, poolVars, writerVars
<1>1. ASSUME NEW w \in Workers, Worker(w) PROVE UNCHANGED D!deliveryVars
  BY <1>1, DeliveryStutter DEF Worker, Dequeue, Evaluate, Send, ExitWorker
<1>2. CASE FlushTick \/ WriterEOF \/ DrainTimeout
  BY <1>2, DeliveryFlush DEF FlushTick, WriterEOF, DrainTimeout
<1>3. CASE Retention
  <2>1. Told' = Told
    BY <1>3 DEF Retention, Told
  <2>2. D!Expire
    BY <1>3, <2>1, RetentionEffect DEF D!Expire, Retention, Alive
  <2> QED BY <2>2 DEF D!DNext
<1>4. ASSUME NEW r \in Requests, WebhookEnd(r) PROVE D!DNext
  <2>1. Taken' = Taken /\ Told' = Told
    BY <1>4 DEF WebhookEnd, Taken, Settled, Batched, Elems, Reqs, Told
  <2>2. D!HookEnd(r)
    BY <1>4, <2>1 DEF WebhookEnd, D!HookEnd, Alive
  <2> QED BY <2>2 DEF D!DNext
<1>5. CASE Exit \/ WriterTimeout
  <2>1. Taken' = Taken /\ Told' = Told
    BY <1>5 DEF Exit, WriterTimeout, Taken, Settled, Batched, Elems, Reqs, Told
  <2>2. D!End
    BY <1>5, <2>1 DEF Exit, WriterTimeout, D!End
  <2> QED BY <2>2 DEF D!DNext
<1>6. CASE \/ PoolDone \/ StopRequested \/ ShutdownTimer \/ ForcedTimeout
           \/ CloseEvents \/ PoolWaited \/ ForceCancel \/ WriterCancelled
           \/ UNCHANGED vars
  BY <1>6, DeliveryStutter
     DEF PoolDone, StopRequested, ShutdownTimer, ForcedTimeout, CloseEvents,
         PoolWaited, ForceCancel, WriterCancelled, Alive, vars
<1> QED BY <1>1, <1>2, <1>3, <1>4, <1>5, <1>6, DeliveryHandler, DeliveryTake
        DEF Next, WriterLoop, Main, Timers, Ended

\* The process implements Delivery: in every behaviour a request is answered once,
\* an accepted event is taken once by the writer and settled once with the batch
\* it waits in, a stored row is never overwritten, and nothing happens after the
\* process has ended.
THEOREM DeliversCorrect == Spec => Delivers
<1>1. Init => D!DInit
  <2> SUFFICES ASSUME Init PROVE D!DInit
    OBVIOUS
  <2>1. Told = [r \in Requests |-> "none"]
    BY DEF Init, Told
  <2>2. Taken = {}
    BY DEF Init, Taken, Batched, Settled, Elems, Reqs
  <2> QED BY <2>1, <2>2 DEF Init, D!DInit
<1> QED BY <1>1, DeliveryNext, LedgerCorrect, PTL DEF Spec, Delivers, D!DSpec

-----------------------------------------------------------------------------
(* The tallies.                                                            *)

\* A set numbered without repeats by a finite set has its size.
LEMMA CountValues ==
    ASSUME NEW S, IsFiniteSet(S), NEW V, NEW f \in [S -> V],
           \A x, y \in S : f[x] = f[y] => x = y,
           \A v \in V : \E x \in S : f[x] = v
    PROVE  IsFiniteSet(V) /\ Cardinality(V) = Cardinality(S)
<1>1. f \in Bijection(S, V)
  BY Fun_IsBij
<1> QED BY <1>1, FS_Bijection DEF ExistsBijection

\* A channel without repeats holds as many requests as it is long.
LEMMA CountQueue ==
    ASSUME NEW s \in Seq(Requests), Distinct(s)
    PROVE  IsFiniteSet(Elems(s)) /\ Cardinality(Elems(s)) = Len(s)
<1>1. Len(s) \in Nat /\ s \in [1..Len(s) -> Elems(s)]
  BY DEF Elems
<1>2. IsFiniteSet(1..Len(s)) /\ Cardinality(1..Len(s)) = Len(s)
  BY <1>1, FS_Interval
<1>3. \A i, j \in 1..Len(s) : s[i] = s[j] => i = j
  BY DEF Distinct
<1>4. \A v \in Elems(s) : \E i \in 1..Len(s) : s[i] = v
  BY DEF Elems
<1> QED BY <1>1, <1>2, <1>3, <1>4, CountValues

\* The same for a channel of results.
LEMMA CountResults ==
    ASSUME NEW s \in Seq(Result), DistinctReqs(s)
    PROVE  IsFiniteSet(Reqs(Elems(s))) /\ Cardinality(Reqs(Elems(s))) = Len(s)
<1> DEFINE f == [i \in 1..Len(s) |-> s[i].req]
           V == Reqs(Elems(s))
<1>1. Len(s) \in Nat /\ f \in [1..Len(s) -> V]
  BY DEF Reqs, Elems
<1>2. IsFiniteSet(1..Len(s)) /\ Cardinality(1..Len(s)) = Len(s)
  BY <1>1, FS_Interval
<1>3. \A i, j \in 1..Len(s) : f[i] = f[j] => i = j
  BY DEF DistinctReqs
<1>4. \A v \in V : \E i \in 1..Len(s) : f[i] = v
  BY DEF Reqs, Elems
<1> HIDE DEF f, V
<1>5. IsFiniteSet(V) /\ Cardinality(V) = Len(s)
  BY <1>1, <1>2, <1>3, <1>4, CountValues
<1> QED BY <1>5 DEF V

\* Two sets without a common member.
LEMMA CountDisjoint ==
    ASSUME NEW S, NEW T, IsFiniteSet(S), IsFiniteSet(T), S \cap T = {}
    PROVE  /\ IsFiniteSet(S \cup T)
           /\ Cardinality(S \cup T) = Cardinality(S) + Cardinality(T)
           /\ Cardinality(S) \in Nat /\ Cardinality(T) \in Nat
BY FS_Union, FS_EmptySet, FS_CardinalityType

\* Each place of the pipeline holds as many events as it counts.
LEMMA CountPlaces ==
    ASSUME TypeOK, Places
    PROVE  /\ IsFiniteSet(Queued) /\ Cardinality(Queued) = Len(eventChan)
           /\ IsFiniteSet(Held) /\ Cardinality(Held) = Cardinality(Busy)
           /\ IsFiniteSet(Decided) /\ Cardinality(Decided) = Len(resultChan)
           /\ IsFiniteSet(Batched) /\ Cardinality(Batched) = Len(batch)
           /\ IsFiniteSet(Settled) /\ Cardinality(Settled) \in Nat
           /\ IsFiniteSet(Busy) /\ Cardinality(Busy) \in Nat
<1>1. IsFiniteSet(Queued) /\ Cardinality(Queued) = Len(eventChan)
  BY CountQueue DEF TypeOK, Places, Once, Queued
<1>2. IsFiniteSet(Decided) /\ Cardinality(Decided) = Len(resultChan)
  BY CountResults DEF TypeOK, Places, Once, Decided
<1>3. IsFiniteSet(Batched) /\ Cardinality(Batched) = Len(batch)
  BY CountResults DEF TypeOK, Places, Once, Batched
<1>4. IsFiniteSet(Busy) /\ Cardinality(Busy) \in Nat
  BY FiniteAssumption, FS_Subset, FS_CardinalityType DEF Busy
<1>5. IsFiniteSet(Settled) /\ Cardinality(Settled) \in Nat
  BY FiniteAssumption, FS_Subset, FS_CardinalityType DEF Settled
<1>6. IsFiniteSet(Held) /\ Cardinality(Held) = Cardinality(Busy)
  <2> DEFINE f == [w \in Busy |-> job[w].req]
  <2>1. f \in [Busy -> Held]
    BY DEF Held
  <2>2. \A v, w \in Busy : f[v] = f[w] => v = w
    BY DEF Places, Once
  <2>3. \A v \in Held : \E w \in Busy : f[w] = v
    BY DEF Held
  <2> HIDE DEF f
  <2> QED BY <1>4, <2>1, <2>2, <2>3, CountValues
<1> QED BY <1>1, <1>2, <1>3, <1>4, <1>5, <1>6

\* What is in flight is the sum of what the stages hold.
LEMMA CountFlight ==
    ASSUME TypeOK, Places
    PROVE  /\ NoDuplicate
           /\ Cardinality(Accepted \ Settled)
                 = Len(eventChan) + Cardinality(Busy) + Len(resultChan) + Len(batch)
<1> DEFINE Q2 == Queued \cup Held
           Q3 == Q2 \cup Decided
           Q4 == Q3 \cup Batched
<1>1. /\ Queued \cap Held = {} /\ Q2 \cap Decided = {}
      /\ Q3 \cap Batched = {} /\ Q4 \cap Settled = {}
  BY DEF Places, Once
<1>2. Accepted = Q4 \cup Settled /\ Accepted \ Settled = Q4
  BY <1>1 DEF Places, Accounted
<1>3. IsFiniteSet(Q2) /\ Cardinality(Q2) = Len(eventChan) + Cardinality(Busy)
  BY <1>1, CountPlaces, CountDisjoint
<1>4. IsFiniteSet(Q3) /\ Cardinality(Q3) = Cardinality(Q2) + Len(resultChan)
  <2> HIDE DEF Q2
  <2> QED BY <1>1, <1>3, CountPlaces, CountDisjoint
<1>5. IsFiniteSet(Q4) /\ Cardinality(Q4) = Cardinality(Q3) + Len(batch)
  <2> HIDE DEF Q3
  <2>1. IsFiniteSet(Q3) /\ IsFiniteSet(Batched) /\ Q3 \cap Batched = {}
    BY <1>1, <1>4, CountPlaces
  <2>2. /\ IsFiniteSet(Q3 \cup Batched)
        /\ Cardinality(Q3 \cup Batched) = Cardinality(Q3) + Cardinality(Batched)
    BY <2>1, CountDisjoint
  <2> QED BY <2>2, CountPlaces
<1>6. Cardinality(Accepted) = Cardinality(Q4) + Cardinality(Settled)
  <2> HIDE DEF Q4
  <2> QED BY <1>1, <1>2, <1>5, CountPlaces, CountDisjoint
<1> HIDE DEF Q4, Q3, Q2
<1> QED BY <1>2, <1>3, <1>4, <1>5, <1>6 DEF NoDuplicate

\* No stage holds more than its capacity.
Caps ==
    /\ Len(eventChan) <= EventCap
    /\ Len(resultChan) <= ResultCap
    /\ Len(batch) < BatchSize

\* Every send checks for room, and a batch is flushed as soon as it is full.
LEMMA CapsNext == TypeOK /\ Caps /\ [Next]_vars => Caps'
<1> SUFFICES ASSUME TypeOK, Caps, [Next]_vars PROVE Caps'
  OBVIOUS
<1> USE CapAssumption DEF Caps, mainVars, ingestVars, poolVars, writerVars
<1>1. ASSUME NEW S, NEW s \in Seq(S), NEW x \in S
      PROVE  /\ Len(s) \in Nat /\ Len(Append(s, x)) = Len(s) + 1
             /\ s # <<>> => Len(Tail(s)) = Len(s) - 1
  OBVIOUS
<1>2. /\ eventChan \in Seq(Requests) /\ Len(eventChan) \in Nat
      /\ resultChan \in Seq(Result) /\ Len(resultChan) \in Nat
      /\ batch \in Seq(Result) /\ Len(batch) \in Nat
  BY DEF TypeOK
<1>3. ASSUME NEW r \in Requests, Handler(r) PROVE Caps'
  BY <1>2, <1>3 DEF Handler, Arrive, Reject, Enqueue
<1>4. ASSUME NEW w \in Workers, Worker(w) PROVE Caps'
  <2>1. CASE Dequeue(w)
    BY <1>2, <2>1 DEF Dequeue
  <2>2. CASE Send(w)
    <3>1. job[w] \in Result
      BY <2>2 DEF Send, TypeOK
    <3> QED BY <1>2, <2>2, <3>1 DEF Send
  <2>3. CASE Evaluate(w) \/ ExitWorker(w)
    BY <2>3 DEF Evaluate, ExitWorker
  <2> QED BY <1>4, <2>1, <2>2, <2>3 DEF Worker
<1>5. CASE WriterTake
  <2>1. Len(resultChan') <= ResultCap
    BY <1>2, <1>5 DEF WriterTake
  <2>2. Len(batch') < BatchSize
    BY <1>2, <1>5 DEF WriterTake, Collect
  <2> QED BY <1>5, <2>1, <2>2 DEF WriterTake
<1>6. CASE FlushTick \/ WriterEOF \/ DrainTimeout
  BY <1>6 DEF FlushTick, WriterEOF, DrainTimeout
<1>7. CASE UNCHANGED <<eventChan, resultChan, batch>>
  BY <1>7
<1>8. ASSUME NEW r \in Requests, WebhookEnd(r) PROVE Caps'
  BY <1>7, <1>8 DEF WebhookEnd
<1>9. CASE \/ PoolDone \/ StopRequested \/ Main \/ ShutdownTimer \/ WriterCancelled
           \/ ForcedTimeout \/ WriterTimeout \/ Retention \/ UNCHANGED vars
  BY <1>7, <1>9 DEF PoolDone, StopRequested, Main, ShutdownTimer, ForcedTimeout,
                    WriterTimeout, CloseEvents, PoolWaited, ForceCancel, Exit,
                    WriterCancelled, Retention, vars
<1> QED BY <1>3, <1>4, <1>5, <1>6, <1>8, <1>9 DEF Next, Timers, WriterLoop, Ended

\* The counters count what the writer has received and what it has skipped.
Skipped == {r \in Requests : fate[r] = "skipped"}
Counts ==
    /\ stats["approve"] + stats["block"] + stats["review"] = Cardinality(Taken)
    /\ stats["skipped"] = Cardinality(Skipped)

\* A flush skips no result.
LEMMA SkippedFlush ==
    ASSUME TypeOK, NEW b \in Seq(Result), Flush(b), Reqs(Elems(b)) \cap Settled = {}
    PROVE  Skipped' = Skipped
<1>1. Reqs(Fresh(b)) \subseteq Reqs(Elems(b))
  BY DEF Fresh, Elems, Reqs
<1>2. ASSUME NEW r \in Requests PROVE fate'[r] = "skipped" <=> fate[r] = "skipped"
  <2>1. r \in Reqs(Elems(b)) => fate[r] = "none"
    BY DEF Settled
  <2> QED BY <1>1, <2>1 DEF Flush
<1> QED BY <1>2 DEF Skipped

\* Each step keeps the counters in agreement with what the writer did.
LEMMA CountsNext == Ledger /\ Counts /\ [Next]_vars => Counts'
<1> SUFFICES ASSUME TypeOK, Places, OneRowPerId, Counts, [Next]_vars PROVE Counts'
  BY DEF Ledger
<1> USE DEF mainVars, ingestVars, poolVars, writerVars
<1>1. CASE stats' = stats /\ Taken' = Taken /\ Skipped' = Skipped
  BY <1>1 DEF Counts
<1>2. CASE UNCHANGED <<stats, batch, fate>>
  <2>1. Taken' = Taken /\ Skipped' = Skipped
    BY <1>2 DEF Taken, Batched, Settled, Elems, Reqs, Skipped
  <2> QED BY <1>1, <1>2, <2>1
<1>3. CASE WriterTake
  <2> DEFINE r == Head(resultChan)
             x == r.req
             b == Append(batch, r)
  <2>1. /\ x \in Requests /\ x \notin Taken /\ Taken' = Taken \cup {x}
        /\ r \in Result /\ batch \in Seq(Result)
    BY <1>3, TakenTake, TakeEffect DEF TypeOK
  <2>2. /\ IsFiniteSet(Taken) /\ IsFiniteSet(Skipped)
        /\ Cardinality(Taken) \in Nat /\ Cardinality(Skipped) \in Nat
    <3>1. Taken \in SUBSET Requests /\ Skipped \in SUBSET Requests
      BY BatchedReqs DEF Taken, Settled, Skipped
    <3> QED BY <3>1, FiniteAssumption, FS_Subset, FS_CardinalityType
  <2>3. Cardinality(Taken') = Cardinality(Taken) + 1
    BY <2>1, <2>2, FS_AddElement
  <2>4. \A c \in Counter : stats[c] \in Nat
    BY DEF TypeOK
  <2>5. /\ r.verdict \in Verdicts
        /\ stats' = [c \in Counter |->
              stats[c] + IF \/ c = r.verdict
                            \/ c = "errored" /\ r.failed
                            \/ c = "skipped" /\ ~Keep(r) THEN 1 ELSE 0]
    BY <1>3, <2>1 DEF WriterTake, Observe, Result
  <2>6. stats'["approve"] + stats'["block"] + stats'["review"]
           = stats["approve"] + stats["block"] + stats["review"] + 1
    BY <2>4, <2>5 DEF Verdicts, Counter
  <2>7. stats'["skipped"] = stats["skipped"] + IF Keep(r) THEN 0 ELSE 1
    BY <2>4, <2>5 DEF Verdicts, Counter
  <2>8. CASE Keep(r) /\ Collect(r)
    <3>1. Skipped' = Skipped
      <4>1. CASE Flush(b)
        <5>1. b \in Seq(Result) /\ Elems(b) = Elems(batch) \cup {r}
          BY <2>1, ElemsAppend
        <5>2. Reqs(Elems(b)) = Batched \cup {x}
          BY <5>1 DEF Batched, Reqs
        <5>3. Reqs(Elems(b)) \cap Settled = {}
          BY <2>1, <5>2 DEF Taken, Places, Once
        <5> QED BY <4>1, <5>1, <5>3, SkippedFlush
      <4> QED BY <2>8, <4>1 DEF Collect, Skipped
    <3> QED BY <2>2, <2>3, <2>4, <2>6, <2>7, <2>8, <3>1 DEF Counts, Counter
  <2>9. CASE ~Keep(r) /\ fate' = [fate EXCEPT ![x] = "skipped"]
    <3>1. Skipped' = Skipped \cup {x} /\ x \notin Skipped
      BY <2>1, <2>9 DEF Skipped, Taken, Settled, TypeOK
    <3>2. Cardinality(Skipped') = Cardinality(Skipped) + 1
      BY <2>2, <3>1, FS_AddElement
    <3> QED BY <2>2, <2>3, <2>4, <2>6, <2>7, <2>9, <3>2 DEF Counts, Counter
  <2> QED BY <1>3, <2>8, <2>9 DEF WriterTake
<1>4. CASE FlushTick \/ WriterEOF \/ DrainTimeout
  <2>1. Flush(batch) /\ batch' = <<>> /\ stats' = stats /\ batch \in Seq(Result)
    BY <1>4 DEF FlushTick, WriterEOF, DrainTimeout, TypeOK
  <2>2. Skipped' = Skipped
    BY <2>1, SkippedFlush DEF Places, Once, Batched
  <2> QED BY <1>1, <2>1, <2>2, TakenFlush
<1>5. CASE Retention
  <2>1. Skipped' = Skipped
    BY <1>5, RetentionEffect DEF Skipped
  <2> QED BY <1>1, <1>5, <2>1, RetentionEffect DEF Retention
<1>6. ASSUME NEW r \in Requests, Handler(r) \/ WebhookEnd(r) PROVE Counts'
  BY <1>2, <1>6 DEF Handler, Arrive, Reject, Enqueue, WebhookEnd
<1>7. ASSUME NEW w \in Workers, Worker(w) PROVE Counts'
  BY <1>2, <1>7 DEF Worker, Dequeue, Evaluate, Send, ExitWorker
<1>8. CASE \/ PoolDone \/ StopRequested \/ Main \/ ShutdownTimer \/ WriterCancelled
           \/ ForcedTimeout \/ WriterTimeout \/ UNCHANGED vars
  BY <1>2, <1>8 DEF PoolDone, StopRequested, Main, ShutdownTimer, ForcedTimeout,
                    WriterTimeout, CloseEvents, PoolWaited, ForceCancel, Exit,
                    WriterCancelled, vars
<1> QED BY <1>3, <1>4, <1>5, <1>6, <1>7, <1>8 DEF Next, Timers, WriterLoop, Ended

\* Each event in flight is in one place, once; the counters of /admin/metrics match
\* what the writer took and dropped; and the number of events answered 202 and not
\* settled never exceeds the capacities of the stages.
THEOREM TalliesCorrect == Spec => []Tallies
<1>1. Init => Caps /\ Counts
  <2> SUFFICES ASSUME Init PROVE Caps /\ Counts
    OBVIOUS
  <2>1. Taken = {} /\ Skipped = {}
    BY DEF Init, Taken, Batched, Settled, Elems, Reqs, Skipped
  <2>2. Cardinality(Taken) = 0 /\ Cardinality(Skipped) = 0
    BY <2>1, FS_EmptySet
  <2>3. Counts
    BY <2>2 DEF Init, Counts, Counter
  <2>4. Caps
    BY CapAssumption DEF Init, Caps
  <2> QED BY <2>3, <2>4
<1>2. Ledger /\ Caps /\ Counts => Tallies
  <2> SUFFICES ASSUME TypeOK, Places, Caps, Counts PROVE Tallies
    BY DEF Ledger
  <2>1. MetricsAgree
    <3>1. Batched \cap Settled = {}
      BY DEF Places, Once
    <3>2. Cardinality(Taken) = Len(batch) + Cardinality(Settled)
      BY <3>1, CountPlaces, CountDisjoint DEF Taken
    <3> QED BY <3>2 DEF Counts, MetricsAgree, Skipped
  <2>2. Cardinality(Busy) <= Cardinality(Workers) /\ Cardinality(Workers) \in Nat
    BY FiniteAssumption, FS_Subset, FS_CardinalityType DEF Busy
  <2>3. /\ Len(eventChan) \in Nat /\ Len(resultChan) \in Nat /\ Len(batch) \in Nat
        /\ Cardinality(Busy) \in Nat
    BY CountPlaces DEF TypeOK
  <2>4. InFlightBound
    BY <2>2, <2>3, CountFlight, CapAssumption DEF InFlightBound, Caps
  <2> QED BY <2>1, <2>4, CountFlight DEF Tallies
<1>3. Spec => [](Caps /\ Counts)
  BY <1>1, CapsNext, CountsNext, TypeCorrect, LedgerCorrect, PTL DEF Spec
<1> QED BY <1>2, <1>3, LedgerCorrect, PTL

=============================================================================
