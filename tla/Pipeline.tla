------------------------------ MODULE Pipeline ------------------------------
(***************************************************************************)
(* One fruitfly process from the HTTP handler to the database row:         *)
(*                                                                         *)
(*   handlers --eventChan--> workers --resultChan--> writer --> DuckDB     *)
(*                                                     \--> webhooks       *)
(*                                                                         *)
(* and the shutdown sequence of main, which stops the HTTP server, closes  *)
(* eventChan, waits for the pool, waits for the writer, and gives up on    *)
(* each of them when a timer fires. The process is a single node (router   *)
(* nil), so a handler either enqueues its event or answers an error.       *)
(*                                                                         *)
(* A request carries one event. Requests that carry the same event_id      *)
(* (a client's retry, a replayed stream) are different requests with equal *)
(* IdOf. What a rule computes is abstracted to the outcome of the          *)
(* evaluation: the final verdict and whether some rule failed.             *)
(***************************************************************************)
EXTENDS Naturals, Sequences, FiniteSets

CONSTANTS
    Requests,        \* HTTP requests POST /events, one event each
    Ids,             \* event_ids
    IdOf,            \* the event_id each request's event carries
    Workers,         \* the worker goroutines of the pool
    EventCap,        \* capacity of eventChan
    ResultCap,       \* capacity of resultChan
    BatchSize,       \* results per DuckDB transaction
    MaxWebhooks,     \* capacity of the webhook semaphore
    EmitInteresting, \* the emission policy that drops plain approvals
    Outcomes,        \* outcomes an evaluation under a live context may have
    DbMayFail,       \* whether a transaction may fail twice in a row
    NoJob            \* what a worker without an event holds

Verdicts == {"approve", "review", "block"}
Outcome == [verdict : Verdicts, failed : BOOLEAN]

ASSUME FiniteAssumption ==
    /\ IsFiniteSet(Requests)
    /\ IsFiniteSet(Workers)
    /\ Workers # {}
ASSUME IdAssumption == IdOf \in [Requests -> Ids]
ASSUME CapAssumption ==
    /\ EventCap \in Nat \ {0}
    /\ ResultCap \in Nat \ {0}
    /\ BatchSize \in Nat \ {0}
    /\ MaxWebhooks \in Nat \ {0}
ASSUME PolicyAssumption ==
    /\ EmitInteresting \in BOOLEAN
    /\ DbMayFail \in BOOLEAN
    /\ Outcomes \subseteq Outcome
    /\ Outcomes # {}

VARIABLES
    main,          \* where main() stands
    shutExpired,   \* shutCtx, the 10 s shutdown budget, is done
    pipeCancelled, \* pipeCtx is cancelled
    req,           \* per request: what its handler did
    eventChan,     \* the requests whose events are queued
    eventClosed,   \* eventChan is closed
    wpc,           \* per worker: where it stands
    job,           \* per worker: the event, then the result, it holds
    resultChan,    \* queued results
    resultClosed,  \* resultChan is closed; poolDone follows at once
    writer,        \* where the output writer stands
    batch,         \* results not flushed yet
    db,            \* rows of the results table
    sending,       \* requests whose webhook goroutine holds a slot
    stats,         \* the result counters of /admin/metrics
    fate           \* history: what the writer did with a request's result

mainVars   == <<main, shutExpired, pipeCancelled>>
ingestVars == <<req, eventChan, eventClosed>>
poolVars   == <<wpc, job, resultChan, resultClosed>>
writerVars == <<writer, batch, db, sending, stats, fate>>
vars == <<main, shutExpired, pipeCancelled, req, eventChan, eventClosed, wpc,
          job, resultChan, resultClosed, writer, batch, db, sending, stats, fate>>

-----------------------------------------------------------------------------
(* Types. A job, and the result it becomes, is a record: `dead` says that  *)
(* pipeCtx was already cancelled when the worker took the event.           *)

NoVerdict == "pending"
Job == [req : Requests, verdict : {NoVerdict}, failed : {FALSE}, dead : BOOLEAN]
Result == [req : Requests, verdict : Verdicts, failed : BOOLEAN, dead : BOOLEAN]

ASSUME NoJobAssumption == NoJob \notin Job \cup Result

MainPC == {"serving", "shutdown", "waitPool", "forced", "waitWriter", "exited"}
ReqPC == {"new", "reading", "rejected", "busy", "accepted", "panicked"}
WorkerPC == {"idle", "eval", "send", "exited"}
WriterPC == {"run", "drain", "done", "cut"}
Fate == {"none", "skipped", "stored", "ignored", "lost", "expired"}
Counter == {"approve", "block", "review", "errored", "skipped"}

Elems(s) == {s[i] : i \in 1..Len(s)}
Reqs(S) == {r.req : r \in S}

\* The states of main, of the handlers, workers and writer, and what the
\* channels between them carry: a worker between two events holds none, one that
\* is sending holds a finished result.
TypeOK ==
    /\ main \in MainPC
    /\ shutExpired \in BOOLEAN
    /\ pipeCancelled \in BOOLEAN
    /\ req \in [Requests -> ReqPC]
    /\ eventChan \in Seq(Requests)
    /\ eventClosed \in BOOLEAN
    /\ wpc \in [Workers -> WorkerPC]
    /\ job \in [Workers -> Job \cup Result \cup {NoJob}]
    /\ \A w \in Workers :
          /\ wpc[w] \in {"idle", "exited"} => job[w] = NoJob
          /\ wpc[w] = "eval" => job[w] \in Job
          /\ wpc[w] = "send" => job[w] \in Result
    /\ resultChan \in Seq(Result)
    /\ resultClosed \in BOOLEAN
    /\ writer \in WriterPC
    /\ batch \in Seq(Result)
    /\ db \in SUBSET Result
    /\ sending \in SUBSET Requests
    /\ stats \in [Counter -> Nat]
    /\ fate \in [Requests -> Fate]

Init ==
    /\ main = "serving"
    /\ shutExpired = FALSE
    /\ pipeCancelled = FALSE
    /\ req = [r \in Requests |-> "new"]
    /\ eventChan = <<>>
    /\ eventClosed = FALSE
    /\ wpc = [w \in Workers |-> "idle"]
    /\ job = [w \in Workers |-> NoJob]
    /\ resultChan = <<>>
    /\ resultClosed = FALSE
    /\ writer = "run"
    /\ batch = <<>>
    /\ db = {}
    /\ sending = {}
    /\ stats = [c \in Counter |-> 0]
    /\ fate = [r \in Requests |-> "none"]

\* Every goroutine dies with main.
Alive == main # "exited"

-----------------------------------------------------------------------------
(* HTTP ingest.                                                            *)

\* A connection is accepted and its handler starts reading the body; the
\* listener is closed as the first thing srv.Shutdown does.
Arrive(r) ==
    /\ main = "serving"
    /\ req[r] = "new"
    /\ req' = [req EXCEPT ![r] = "reading"]
    /\ UNCHANGED <<mainVars, eventChan, eventClosed, poolVars, writerVars>>

\* The content type, the size, the JSON or a required field is refused, or
\* the client goes away: a 4xx answer and no event.
Reject(r) ==
    /\ Alive
    /\ req[r] = "reading"
    /\ req' = [req EXCEPT ![r] = "rejected"]
    /\ UNCHANGED <<mainVars, eventChan, eventClosed, poolVars, writerVars>>

\* The non-blocking send of a valid event. A send on the closed channel
\* panics, in a select with a default too; net/http recovers the panic.
Enqueue(r) ==
    /\ Alive
    /\ req[r] = "reading"
    /\ \/ /\ eventClosed
          /\ req' = [req EXCEPT ![r] = "panicked"]
          /\ UNCHANGED eventChan
       \/ /\ ~eventClosed
          /\ Len(eventChan) < EventCap
          /\ eventChan' = Append(eventChan, r)
          /\ req' = [req EXCEPT ![r] = "accepted"]
       \/ /\ ~eventClosed
          /\ Len(eventChan) >= EventCap
          /\ req' = [req EXCEPT ![r] = "busy"]
          /\ UNCHANGED eventChan
    /\ UNCHANGED <<mainVars, eventClosed, poolVars, writerVars>>

-----------------------------------------------------------------------------
(* The worker pool.                                                        *)

Dequeue(w) ==
    /\ Alive
    /\ wpc[w] = "idle"
    /\ eventChan # <<>>
    /\ eventChan' = Tail(eventChan)
    /\ wpc' = [wpc EXCEPT ![w] = "eval"]
    /\ job' = [job EXCEPT ![w] = [req |-> Head(eventChan), verdict |-> NoVerdict,
                                  failed |-> FALSE, dead |-> pipeCancelled]]
    /\ UNCHANGED <<mainVars, req, eventClosed, resultChan, resultClosed, writerVars>>

\* Under a context that was dead from the start no rule runs: the ones that
\* match fail, nothing triggers, and the verdict falls open to approve.
PossibleOutcomes(j) ==
    IF j.dead THEN [verdict : {"approve"}, failed : BOOLEAN] ELSE Outcomes

Evaluate(w) ==
    /\ Alive
    /\ wpc[w] = "eval"
    /\ wpc' = [wpc EXCEPT ![w] = "send"]
    /\ \E o \in PossibleOutcomes(job[w]) :
          job' = [job EXCEPT ![w] = [req |-> job[w].req, verdict |-> o.verdict,
                                     failed |-> o.failed, dead |-> job[w].dead]]
    /\ UNCHANGED <<mainVars, ingestVars, resultChan, resultClosed, writerVars>>

\* The blocking send: no select on the context, so a worker can wait here
\* forever once the writer is gone.
Send(w) ==
    /\ Alive
    /\ wpc[w] = "send"
    /\ Len(resultChan) < ResultCap
    /\ resultChan' = Append(resultChan, job[w])
    /\ wpc' = [wpc EXCEPT ![w] = "idle"]
    /\ job' = [job EXCEPT ![w] = NoJob]
    /\ UNCHANGED <<mainVars, ingestVars, resultClosed, writerVars>>

\* `range in` ends when the channel is closed and empty.
ExitWorker(w) ==
    /\ Alive
    /\ wpc[w] = "idle"
    /\ eventClosed
    /\ eventChan = <<>>
    /\ wpc' = [wpc EXCEPT ![w] = "exited"]
    /\ UNCHANGED <<mainVars, ingestVars, job, resultChan, resultClosed, writerVars>>

\* A defect: the output is closed without waiting for the workers.
PoolDoneNoWait ==
    /\ Alive
    /\ ~resultClosed
    /\ eventClosed
    /\ eventChan = <<>>
    /\ resultClosed' = TRUE
    /\ UNCHANGED <<mainVars, ingestVars, wpc, job, resultChan, writerVars>>

\* A defect: Pool.Run returns and never closes the output.
PoolNeverCloses ==
    /\ FALSE
    /\ UNCHANGED vars

\* wg.Wait returns, the counter gc is stopped and resultChan is closed.
PoolDone ==
    /\ Alive
    /\ ~resultClosed
    /\ \A w \in Workers : wpc[w] = "exited"
    /\ resultClosed' = TRUE
    /\ UNCHANGED <<mainVars, ingestVars, wpc, job, resultChan, writerVars>>

-----------------------------------------------------------------------------
(* The output writer.                                                      *)

\* A defect: INSERT without OR IGNORE on the rows of this batch.
FreshAll(b) == Elems(b)

\* INSERT OR IGNORE: the results of batch b, in order, whose event_id has
\* no row yet.
Fresh(b) ==
    {b[i] : i \in {k \in 1..Len(b) :
        /\ \A row \in db : IdOf[row.req] # IdOf[b[k].req]
        /\ \A m \in 1..(k - 1) : IdOf[b[m].req] # IdOf[b[k].req]}}

\* A defect: INSERT OR REPLACE, the last result of an event_id wins.
FlushReplace(b) ==
    LET last == {b[i] : i \in {k \in 1..Len(b) :
                    \A m \in (k + 1)..Len(b) : IdOf[b[m].req] # IdOf[b[k].req]}}
        old == {row \in db : \E x \in last : IdOf[x.req] = IdOf[row.req]}
    IN /\ db' = (db \ old) \cup last
       /\ fate' = [r \in Requests |->
                      IF r \in Reqs(last) THEN "stored"
                      ELSE IF r \in Reqs(Elems(b) \cup old) THEN "ignored" ELSE fate[r]]

\* One transaction, tried twice; after the second failure the batch is
\* dropped. An empty batch is not sent.
Flush(b) ==
    \/ /\ db' = db \cup Fresh(b)
       /\ fate' = [r \in Requests |->
                      IF r \in Reqs(Fresh(b)) THEN "stored"
                      ELSE IF r \in Reqs(Elems(b)) THEN "ignored" ELSE fate[r]]
    \/ /\ DbMayFail
       /\ b # <<>>
       /\ db' = db
       /\ fate' = [r \in Requests |->
                      IF r \in Reqs(Elems(b)) THEN "lost" ELSE fate[r]]

\* The emission policy.
Keep(r) == ~(EmitInteresting /\ r.verdict = "approve" /\ ~r.failed)

\* The counters: one by verdict, one more when a rule failed, one more when
\* the policy drops the result.
Observe(r) ==
    stats' = [c \in Counter |->
        stats[c] + IF \/ c = r.verdict
                      \/ c = "errored" /\ r.failed
                      \/ c = "skipped" /\ ~Keep(r) THEN 1 ELSE 0]

\* A defect: the batch is reset before it is flushed.
CollectResetFirst(r) ==
    LET b == Append(batch, r)
    IN IF Len(b) >= BatchSize
       THEN Flush(<<>>) /\ batch' = <<>>
       ELSE batch' = b /\ UNCHANGED <<db, fate>>

\* Append to the batch; a full batch is flushed at once.
Collect(r) ==
    LET b == Append(batch, r)
    IN IF Len(b) >= BatchSize
       THEN Flush(b) /\ batch' = <<>>
       ELSE batch' = b /\ UNCHANGED <<db, fate>>

\* A webhook goroutine is started if a slot is free; else the webhook is
\* dropped. The drain loop sends none.
Dispatch(r) ==
    sending' = IF writer = "run" /\ Cardinality(sending) < MaxWebhooks
               THEN sending \cup {r.req} ELSE sending

\* A result is received, in the main loop or in the drain loop.
WriterTake ==
    /\ Alive
    /\ writer \in {"run", "drain"}
    /\ resultChan # <<>>
    /\ resultChan' = Tail(resultChan)
    /\ LET r == Head(resultChan)
       IN /\ Observe(r)
          /\ \/ /\ Keep(r)
                /\ Collect(r)
                /\ Dispatch(r)
             \/ /\ ~Keep(r)
                /\ fate' = [fate EXCEPT ![r.req] = "skipped"]
                /\ UNCHANGED <<batch, db, sending>>
    /\ UNCHANGED <<mainVars, ingestVars, wpc, job, resultClosed, writer>>

\* A defect: a partial batch waits until it is full.
FlushTickFullOnly ==
    /\ Alive
    /\ writer = "run"
    /\ Len(batch) >= BatchSize
    /\ Flush(batch)
    /\ batch' = <<>>
    /\ UNCHANGED <<mainVars, ingestVars, poolVars, writer, sending, stats>>

\* A defect: the batch is kept after it was written.
FlushTickKeeps ==
    /\ Alive
    /\ writer = "run"
    /\ batch # <<>>
    /\ Flush(batch)
    /\ UNCHANGED <<mainVars, ingestVars, poolVars, writer, batch, sending, stats>>

\* The 500 ms ticker flushes a partial batch.
FlushTick ==
    /\ Alive
    /\ writer = "run"
    /\ batch # <<>>
    /\ Flush(batch)
    /\ batch' = <<>>
    /\ UNCHANGED <<mainVars, ingestVars, poolVars, writer, sending, stats>>

\* The daily DELETE: any of the rows may have reached the retention age.
Retention ==
    /\ Alive
    /\ writer = "run"
    /\ \E old \in (SUBSET db) \ {{}} :
          /\ db' = db \ old
          /\ fate' = [r \in Requests |->
                         IF r \in Reqs(old) THEN "expired" ELSE fate[r]]
    /\ UNCHANGED <<mainVars, ingestVars, poolVars, writer, batch, sending, stats>>

\* A defect: the writer closes the database without the last flush.
WriterEOFNoFlush ==
    /\ Alive
    /\ writer \in {"run", "drain"}
    /\ resultClosed
    /\ resultChan = <<>>
    /\ writer' = "done"
    /\ UNCHANGED <<mainVars, ingestVars, poolVars, batch, db, fate, sending, stats>>

\* resultChan is closed and drained: last flush, DuckDB is closed.
WriterEOF ==
    /\ Alive
    /\ writer \in {"run", "drain"}
    /\ resultClosed
    /\ resultChan = <<>>
    /\ Flush(batch)
    /\ batch' = <<>>
    /\ writer' = "done"
    /\ UNCHANGED <<mainVars, ingestVars, poolVars, sending, stats>>

\* pipeCtx is done: the writer enters the drain loop.
WriterCancelled ==
    /\ Alive
    /\ writer = "run"
    /\ pipeCancelled
    /\ writer' = "drain"
    /\ UNCHANGED <<mainVars, ingestVars, poolVars, batch, db, sending, stats, fate>>

\* The 5 s drain timer fires before resultChan is closed.
DrainTimeout ==
    /\ Alive
    /\ writer = "drain"
    /\ Flush(batch)
    /\ batch' = <<>>
    /\ writer' = "cut"
    /\ UNCHANGED <<mainVars, ingestVars, poolVars, sending, stats>>

\* A webhook goroutine ends, delivered or given up, and frees its slot.
WebhookEnd(r) ==
    /\ Alive
    /\ r \in sending
    /\ sending' = sending \ {r}
    /\ UNCHANGED <<mainVars, ingestVars, poolVars, writer, batch, db, stats, fate>>

-----------------------------------------------------------------------------
(* main: the shutdown sequence.                                            *)

\* A signal, or an error of ListenAndServe: srv.Shutdown begins.
StopRequested ==
    /\ main = "serving"
    /\ main' = "shutdown"
    /\ UNCHANGED <<shutExpired, pipeCancelled, ingestVars, poolVars, writerVars>>

ShutdownTimer ==
    /\ main \notin {"serving", "exited"}
    /\ ~shutExpired
    /\ shutExpired' = TRUE
    /\ UNCHANGED <<main, pipeCancelled, ingestVars, poolVars, writerVars>>

\* A defect: eventChan is closed without waiting for the handlers.
CloseEventsNoWait ==
    /\ main = "shutdown"
    /\ eventClosed' = TRUE
    /\ main' = "waitPool"
    /\ UNCHANGED <<shutExpired, pipeCancelled, req, eventChan, poolVars, writerVars>>

\* srv.Shutdown returns, because no handler is running or because shutCtx is
\* done (which is only logged); the reloader is stopped, eventChan closed.
CloseEvents ==
    /\ main = "shutdown"
    /\ \/ \A r \in Requests : req[r] # "reading"
       \/ shutExpired
    /\ eventClosed' = TRUE
    /\ main' = "waitPool"
    /\ UNCHANGED <<shutExpired, pipeCancelled, req, eventChan, poolVars, writerVars>>

\* poolDone is closed right after resultChan.
PoolWaited ==
    /\ main \in {"waitPool", "forced"}
    /\ resultClosed
    /\ main' = "waitWriter"
    /\ UNCHANGED <<shutExpired, pipeCancelled, ingestVars, poolVars, writerVars>>

\* shutCtx is done first: evaluation is force-cancelled.
ForceCancel ==
    /\ main = "waitPool"
    /\ shutExpired
    /\ pipeCancelled' = TRUE
    /\ main' = "forced"
    /\ UNCHANGED <<shutExpired, ingestVars, poolVars, writerVars>>

\* A defect: no bound on the wait for the pool after the forced cancel.
ForcedTimeoutMissing ==
    /\ FALSE
    /\ UNCHANGED vars

\* The pool is still running 2 s after the forced cancel.
ForcedTimeout ==
    /\ main = "forced"
    /\ main' = "waitWriter"
    /\ UNCHANGED <<shutExpired, pipeCancelled, ingestVars, poolVars, writerVars>>

\* The writer has returned: the process ends, with webhooks in flight or not.
Exit ==
    /\ main = "waitWriter"
    /\ writer \in {"done", "cut"}
    /\ main' = "exited"
    /\ UNCHANGED <<shutExpired, pipeCancelled, ingestVars, poolVars, writerVars>>

\* The writer has not returned after another 10 s: the process ends anyway.
WriterTimeout ==
    /\ main = "waitWriter"
    /\ main' = "exited"
    /\ UNCHANGED <<shutExpired, pipeCancelled, ingestVars, poolVars, writerVars>>

\* The process has ended.
Ended == main = "exited" /\ UNCHANGED vars

-----------------------------------------------------------------------------
Handler(r) == Arrive(r) \/ Reject(r) \/ Enqueue(r)
Worker(w) == Dequeue(w) \/ Evaluate(w) \/ Send(w) \/ ExitWorker(w)
WriterLoop == WriterTake \/ FlushTick \/ WriterEOF \/ WriterCancelled
Main == CloseEvents \/ PoolWaited \/ ForceCancel \/ Exit
Timers == ShutdownTimer \/ ForcedTimeout \/ WriterTimeout \/ DrainTimeout

Next ==
    \/ \E r \in Requests : Handler(r) \/ WebhookEnd(r)
    \/ \E w \in Workers : Worker(w)
    \/ PoolDone
    \/ WriterLoop
    \/ Retention
    \/ StopRequested
    \/ Main
    \/ Timers
    \/ Ended

Spec == Init /\ [][Next]_vars

\* What the code's scheduling justifies: runnable goroutines run, each ready
\* arm of a select is taken in the end, evaluation is bounded by the step
\* budget and the event timeout. Nothing obliges a client to finish its body,
\* a signal to come, a webhook receiver to answer.
Fairness ==
    /\ \A w \in Workers : WF_vars(Worker(w))
    /\ WF_vars(PoolDone)
    /\ WF_vars(WriterTake)
    /\ WF_vars(FlushTick)
    /\ WF_vars(WriterEOF)
    /\ WF_vars(WriterCancelled)
    /\ WF_vars(Main)

FairSpec == Spec /\ Fairness

\* Hypotheses of single properties: the timers of the shutdown fire; clients
\* finish their requests.
TimersFire ==
    /\ WF_vars(ShutdownTimer)
    /\ WF_vars(ForcedTimeout)
    /\ WF_vars(WriterTimeout)
    /\ WF_vars(DrainTimeout)
ClientsFinish == \A r \in Requests : WF_vars(Reject(r) \/ Enqueue(r))

-----------------------------------------------------------------------------
(* Properties.                                                             *)

Accepted == {r \in Requests : req[r] = "accepted"}
Busy == {w \in Workers : wpc[w] \in {"eval", "send"}}
Settled == {r \in Requests : fate[r] # "none"}

\* Where the event of an accepted request can be.
Queued == Elems(eventChan)
Held == {job[w].req : w \in Busy}
Decided == Reqs(Elems(resultChan))
Batched == Reqs(Elems(batch))

\* Every event that was answered 202 is somewhere in the pipeline or has been
\* settled by the writer, and nothing else is: no channel hand-over, batch
\* reset or shutdown step loses an event or makes one up.
Accounted == Accepted = Queued \cup Held \cup Decided \cup Batched \cup Settled

\* ... and it is in exactly one of those places, once: no event is evaluated
\* or written twice.
NoDuplicate ==
    Len(eventChan) + Cardinality(Busy) + Len(resultChan) + Len(batch)
        + Cardinality(Settled) = Cardinality(Accepted)

\* When Pool.Run has closed resultChan no worker can send on it any more (a
\* send on a closed channel would take the process down), and none of the
\* queued events was left behind.
ResultsClosedLast ==
    resultClosed => /\ \A w \in Workers : wpc[w] = "exited"
                    /\ eventClosed
                    /\ eventChan = <<>>

\* A writer that returned because resultChan was closed has settled every
\* event ever answered 202, whatever timers fired: the writer comes last.
DrainedIsSettled == writer = "done" => Accepted \subseteq Settled

\* A shutdown that stays within its budget is clean: no handler meets a closed
\* channel, no event is evaluated under a cancelled context, and a process
\* that ends after its writer returned has settled everything it accepted.
CleanInBudget ==
    ~shutExpired =>
        /\ \A r \in Requests : req[r] # "panicked"
        /\ \A w \in Busy : ~job[w].dead
        /\ \A r \in Elems(resultChan) \cup Elems(batch) \cup db : ~r.dead
        /\ main = "exited" /\ writer # "run" => Accepted \subseteq Settled

\* The results table keeps one row per event_id, exactly the rows of the
\* results reported stored, and a result is ignored only in favour of another
\* result of the same event_id that was stored before it.
OneRowPerId ==
    /\ \A a, b \in db : IdOf[a.req] = IdOf[b.req] => a = b
    /\ \A r \in Requests : fate[r] = "stored" <=> r \in Reqs(db)
    /\ \A r \in Requests : fate[r] = "ignored" =>
          \E q \in Requests \ {r} : /\ IdOf[q] = IdOf[r]
                                   /\ fate[q] \in {"stored", "expired"}

\* The counters of /admin/metrics agree with what the writer did: one verdict
\* counter per result taken from resultChan, skipped for the ones the policy
\* dropped and for no other.
MetricsAgree ==
    /\ stats["approve"] + stats["block"] + stats["review"]
          = Len(batch) + Cardinality(Settled)
    /\ stats["skipped"] = Cardinality({r \in Requests : fate[r] = "skipped"})

\* Back-pressure bounds memory: no stage holds more than its capacity, so what
\* has been answered 202 and not yet settled never exceeds the two channels, one
\* event per worker and a partial batch.
InFlightBound ==
    /\ Len(eventChan) <= EventCap
    /\ Len(resultChan) <= ResultCap
    /\ Len(batch) < BatchSize
    /\ Cardinality(Accepted \ Settled)
           <= EventCap + Cardinality(Workers) + ResultCap + (BatchSize - 1)

\* The three tallies of the events in flight agree: each is in one place, once;
\* the writer's counters match what it took and dropped; and the total stays
\* within the capacities of the stages.
Tallies == NoDuplicate /\ MetricsAgree /\ InFlightBound

\* An event answered 202 is settled in the end, or the process exits; a
\* partial batch does not wait for events that never come.
AcceptedSettles ==
    TimersFire =>
        \A r \in Requests : req[r] = "accepted" ~> (fate[r] # "none" \/ main = "exited")

\* Once a stop is requested the process exits, whoever waits on whom: a worker
\* blocked on a writer that has left, a handler whose client never finishes.
ShutdownEnds == TimersFire => (main = "shutdown" ~> main = "exited")

\* If clients finish their requests no timer is needed: main, pool and writer
\* never wait for each other in a circle, so a shutdown that is given the time
\* comes to its end.
DrainsByItself == ClientsFinish => (main = "shutdown" ~> (main = "exited" \/ shutExpired))

(* What the process promises, as an abstract specification.                *)

\* What the client of each request has been told, and the requests whose result
\* the writer has received.
Told == [r \in Requests |->
            CASE req[r] \in {"new", "reading"} -> "none"
              [] req[r] \in {"accepted", "busy"} -> req[r]
              [] OTHER -> "failed"]
Taken == Batched \cup Settled

D == INSTANCE Delivery WITH
        MaySkip <- EmitInteresting,
        up      <- main # "exited",
        answer  <- Told,
        taken   <- Taken

\* The process implements Delivery: whatever its goroutines, channels and timers
\* do, a request is answered once, an accepted event is taken once by the writer
\* and settled once with the whole batch it waits in, a stored row is never
\* overwritten, and nothing happens after the process has ended.
Delivers == D!DSpec
=============================================================================
