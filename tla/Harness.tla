------------------------------ MODULE Harness -------------------------------
(***************************************************************************)
(* The jetstream integration test: run.sh starts the receiver and          *)
(* fruitfly, runs the shim to its end, gives the pipeline ten seconds,     *)
(* stops fruitfly with SIGTERM, waits for it, and lets validate compare    *)
(* what the shim counted, what the database holds and what the receiver    *)
(* counted. The process under test is Delivery.                            *)
(***************************************************************************)
EXTENDS Shim, Webhook

VARIABLE stage   \* where run.sh stands; at its end, the outcome

vars == <<deliveryVars, shimVars, hookVars, stage>>

Init ==
    /\ DInit
    /\ ShimInit
    /\ HookInit
    /\ stage = "shim"

-----------------------------------------------------------------------------
(* The process under test. Requests reach it once they were sent.          *)

Serve(r) ==
    /\ att[r[1]] >= r[2]
    /\ Answer(r)
    /\ UNCHANGED <<shimVars, hookVars, stage>>

Write ==
    /\ Flushed \/ \E r \in Requests : Take(r)
    /\ UNCHANGED <<shimVars, hookVars, stage>>

\* The shutdown budget is spent: pipeCtx is cancelled.
ForceCancel ==
    /\ up
    /\ stage = "stopping"
    /\ ~pipeCancelled
    /\ pipeCancelled' = TRUE
    /\ UNCHANGED <<deliveryVars, shimVars, hook, got, recv, stage>>

-----------------------------------------------------------------------------
(* run.sh and validate.                                                    *)

\* The shim has returned and `sent` is read from its stats file. After a fixed
\* wait, however much is still in flight, fruitfly gets a SIGTERM.
ShimExits ==
    /\ stage = "shim"
    /\ ~ShimUp
    /\ stage' = "stopping"
    /\ UNCHANGED <<deliveryVars, shimVars, hookVars>>

Rows == {r \in Requests : fate[r] = "stored"}
RowsBy(v) == Cardinality({r \in Rows : VerdictOf[r] = v})

\* A defect: check 1 tolerates one event.
printReportLax ==
    LET total == Cardinality(Rows)
        missed == total - recv["total"]
    IN /\ count.sent - total <= 1
       /\ ~(total > 0 /\ 100 * missed > total)
       /\ RowsBy("approve") + RowsBy("block") + RowsBy("review") = total

\* The three checks: sent against rows, rows against webhooks (more than one
\* per cent missed fails), the sum over the verdicts.
printReport ==
    LET total == Cardinality(Rows)
        missed == total - recv["total"]
    IN /\ count.sent - total = 0
       /\ ~(total > 0 /\ 100 * missed > total)
       /\ RowsBy("approve") + RowsBy("block") + RowsBy("review") = total

\* Fruitfly has ended, and validate is run; zero events sent is an error.
Validate ==
    /\ stage = "stopping"
    /\ End
    /\ stage' = IF count.sent = 0 THEN "error"
                ELSE IF printReport THEN "pass" ELSE "fail"
    /\ UNCHANGED <<shimVars, hookVars>>

Reported == stage \in {"pass", "fail", "error"}
Finished == Reported /\ UNCHANGED vars

-----------------------------------------------------------------------------
Script == ShimExits \/ Validate

Next ==
    \/ ShimNext /\ UNCHANGED <<deliveryVars, hookVars, stage>>
    \/ \E r \in Requests : Serve(r)
    \/ Write
    \/ \E r \in sending : Hook(r) /\ UNCHANGED <<shimVars, stage>>
    \/ ForceCancel
    \/ Script
    \/ Finished

Quiet == UNCHANGED <<deliveryVars, hookVars, stage>>

\* Runnable goroutines run and timers fire: the shim's client gives up after 10 s,
\* a webhook attempt after its timeout. Nothing obliges the stream to deliver, the
\* process to answer or the receiver to accept. Goroutines that take finitely many
\* steps each share one condition.
Fairness ==
    /\ WF_vars((Check \/ Acquire) /\ Quiet)
    /\ WF_vars((ShimMain \/ \E m \in Running : Poster(m)) /\ Quiet)
    /\ WF_vars((\E r \in sending : Hook(r)) /\ UNCHANGED <<shimVars, stage>>)

Spec == Init /\ [][Next]_vars /\ Fairness

-----------------------------------------------------------------------------
(* Properties.                                                             *)

ReaderPC == {"dial", "loop", "read", "acquire", "done"}
Stages == {"shim", "stopping", "pass", "fail", "error"}

\* The states of the shim's goroutines, of the process, of the webhook
\* goroutines and of the script; the reader holds a message only while it waits
\* for a slot.
TypeOK ==
    /\ up \in BOOLEAN
    /\ answer \in [Requests -> Answers]
    /\ taken \subseteq Requests
    /\ fate \in [Requests -> {"none", "skipped", "stored", "ignored", "lost"}]
    /\ sending \subseteq taken
    /\ reader \in ReaderPC
    /\ cur \in Events \cup {NoMessage}
    /\ reader = "acquire" <=> cur # NoMessage
    /\ \E i \in 0..Len(Stream) : unread = SubSeq(Stream, i + 1, Len(Stream))
    /\ post \in [Events -> {"none", "post", "back", "sent", "dropped"}]
    /\ att \in [Events -> 0..PostAttempts]
    /\ smain \in {"wait", "waitPosts", "exited"}
    /\ cancelled \in BOOLEAN
    /\ \A r \in Requests : hook[r].pc \in {"post", "back"} /\ hook[r].n \in 1..HookAttempts
    /\ stage \in Stages

\* Events that were accepted although the shim did not count them as sent: the
\* answer was lost, or the shim left before it came.
Uncounted == {m \in Events : post[m] # "sent" /\ AcceptedFor(m) # {}}
OwnRow(m) == \E k \in AcceptedFor(m) : <<m, k>> \in Rows

\* PASS can be believed where the shim knows what it sent: every event it counted
\* has its own row and, with fewer than 100 rows and no webhook answer lost,
\* every row's webhook arrived exactly once. (An event that was accepted without
\* the shim knowing makes up for one that was lost.)
PassIsSound ==
    stage = "pass" /\ Uncounted = {} =>
        /\ \A m \in Events : post[m] = "sent" => OwnRow(m)
        /\ (\A r \in Requests : ~hook[r].unsure) /\ Cardinality(Rows) < 100 =>
              \A v \in Verdicts : recv[v] = RowsBy(v)

\* FAIL is never a false alarm: an accepted event has no row, one has a row the
\* shim did not count, or fewer webhooks than rows arrived.
FailIsReal ==
    stage = "fail" =>
        \/ Uncounted # {}
        \/ \E m \in Events : AcceptedFor(m) # {} /\ ~OwnRow(m)
        \/ recv["total"] < Cardinality(Rows)

\* What validate prints can be acted upon, after any run of shim, process,
\* webhooks and script (TypeOK): PASS where the shim knows what it sent, FAIL
\* always.
ReportIsRight == TypeOK /\ PassIsSound /\ FailIsReal
=============================================================================
