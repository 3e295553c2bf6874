------------------------------ MODULE Webhook -------------------------------
(***************************************************************************)
(* The webhook goroutine that the output writer starts for a result, and   *)
(* the receiver of the jetstream harness. The goroutine holds its slot     *)
(* (Delivery's `sending`) until it returns; it makes up to HookAttempts    *)
(* attempts with a back-off between them.                                  *)
(***************************************************************************)
EXTENDS Delivery

CONSTANTS
    HookAttempts,   \* attempts per result (3)
    VerdictOf       \* the final verdict of each request's result

VARIABLES
    hook,           \* per request: pc, attempt, and whether an answer was lost
    got,            \* history: times the receiver counted the request's result
    recv,           \* the receiver's counters
    pipeCancelled   \* pipeCtx is cancelled

hookVars == <<hook, got, recv, pipeCancelled>>

Verdicts == {"approve", "review", "block"}

ASSUME HookAssumption ==
    /\ HookAttempts \in Nat \ {0}
    /\ VerdictOf \in [Requests -> Verdicts]

HookInit ==
    /\ hook = [r \in Requests |-> [pc |-> "post", n |-> 1, unsure |-> FALSE]]
    /\ got = [r \in Requests |-> 0]
    /\ recv = [x \in Verdicts \cup {"total"} |-> 0]
    /\ pipeCancelled = FALSE

\* The receiver parses a result, counts it and its verdict, and answers 200.
handleWebhook(r) ==
    /\ got' = [got EXCEPT ![r] = @ + 1]
    /\ recv' = [x \in DOMAIN recv |->
                   IF x \in {"total", VerdictOf[r]} THEN recv[x] + 1 ELSE recv[x]]

\* The goroutine returns and gives its slot back.
Return(r, lost) ==
    /\ hook' = [hook EXCEPT ![r] = [pc |-> "post", n |-> 1, unsure |-> @.unsure \/ lost]]
    /\ HookEnd(r)

\* After an attempt that may be repeated: the back-off; after the last attempt
\* there is none, the delivery has failed.
Again(r, lost) ==
    \/ /\ hook[r].n < HookAttempts
       /\ hook' = [hook EXCEPT ![r].pc = "back", ![r].unsure = @ \/ lost]
       /\ UNCHANGED deliveryVars
    \/ /\ hook[r].n = HookAttempts
       /\ Return(r, lost)

\* A defect: success does not end the loop.
AttemptNoReturn(r) ==
    /\ up
    /\ r \in sending
    /\ hook[r].pc = "post"
    /\ handleWebhook(r)
    /\ Again(r, FALSE)
    /\ UNCHANGED pipeCancelled

\* The receiver answers below 300: the goroutine returns.
HookDelivered(r) ==
    /\ up
    /\ r \in sending
    /\ hook[r].pc = "post"
    /\ handleWebhook(r)
    /\ Return(r, FALSE)
    /\ UNCHANGED pipeCancelled

\* A 4xx other than 429: not counted by the receiver and not repeated.
HookRefused(r) ==
    /\ up
    /\ r \in sending
    /\ hook[r].pc = "post"
    /\ Return(r, FALSE)
    /\ UNCHANGED <<got, recv, pipeCancelled>>

\* A defect: an attempt that fails is not counted.
HookFailedUncounted(r) ==
    /\ up
    /\ r \in sending
    /\ hook[r].pc = "post"
    /\ hook' = [hook EXCEPT ![r].pc = "back", ![r].n = @ - 1]
    /\ UNCHANGED <<deliveryVars, got, recv, pipeCancelled>>

\* A 429, a 5xx, or a transport error before the receiver has the body.
HookFailed(r) ==
    /\ up
    /\ r \in sending
    /\ hook[r].pc = "post"
    /\ Again(r, FALSE)
    /\ UNCHANGED <<got, recv, pipeCancelled>>

\* The receiver counts the result, but its answer does not reach the writer: the
\* client's timeout, a broken connection, ctx cancelled meanwhile.
HookAnswerLost(r) ==
    /\ up
    /\ r \in sending
    /\ hook[r].pc = "post"
    /\ handleWebhook(r)
    /\ Again(r, TRUE)
    /\ UNCHANGED pipeCancelled

\* The back-off ends. Under a cancelled context the goroutine returns; a further
\* attempt it may make instead fails before it reaches the receiver.
HookBackoffOver(r) ==
    /\ up
    /\ r \in sending
    /\ hook[r].pc = "back"
    /\ \/ /\ ~pipeCancelled
          /\ hook' = [hook EXCEPT ![r].pc = "post", ![r].n = @ + 1]
          /\ UNCHANGED deliveryVars
       \/ /\ pipeCancelled
          /\ Return(r, FALSE)
    /\ UNCHANGED <<got, recv, pipeCancelled>>

Hook(r) ==
    \/ HookDelivered(r) \/ HookRefused(r) \/ HookFailed(r)
    \/ HookAnswerLost(r) \/ HookBackoffOver(r)

-----------------------------------------------------------------------------
(* Properties.                                                             *)

\* The receiver counts a result at most HookAttempts times, more than once only
\* after an answer was lost, and never a result the writer has not taken or the
\* emission policy has dropped.
HookOnceUnlessUnsure ==
    \A r \in Requests :
        /\ got[r] <= IF hook[r].unsure THEN HookAttempts ELSE 1
        /\ got[r] > 0 => r \in taken /\ fate[r] # "skipped"

\* A full semaphore does not stay full, whatever the receiver does: the results
\* that meanwhile lose their webhook are those of one burst.
SlotsReturn == Cardinality(sending) = MaxWebhooks
                   ~> (Cardinality(sending) < MaxWebhooks \/ ~up)
=============================================================================
