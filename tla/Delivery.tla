------------------------------ MODULE Delivery ------------------------------
(***************************************************************************)
(* What a fruitfly process promises its clients, without goroutines,       *)
(* channels or timers. A request is answered once. An event answered 202   *)
(* is taken once by the writer, which skips it, or offers it to a webhook  *)
(* or not, and settles it in one transaction with others it has taken. The *)
(* process may end at any moment, with events unsettled.                   *)
(*                                                                         *)
(* Pipeline implements this module; the jetstream harness is composed with *)
(* it in place of the whole process.                                       *)
(***************************************************************************)
EXTENDS Naturals, FiniteSets

CONSTANTS
    Requests,        \* HTTP requests POST /events, one event each
    IdOf,            \* the event_id each request's event carries
    MaxWebhooks,     \* webhooks in flight at a time
    MaySkip,         \* the emission policy may drop a result
    DbMayFail        \* a transaction may fail

VARIABLES
    up,      \* the process is running
    answer,  \* per request: what the client was, or would be, told
    taken,   \* requests whose result the writer has received
    fate,    \* per request: what became of its result
    sending  \* requests with a webhook goroutine

deliveryVars == <<up, answer, taken, fate, sending>>

Answers == {"none", "accepted", "busy", "failed"}

DInit ==
    /\ up = TRUE
    /\ answer = [r \in Requests |-> "none"]
    /\ taken = {}
    /\ fate = [r \in Requests |-> "none"]
    /\ sending = {}

\* The requests whose results wait for a transaction.
Waiting == {r \in taken : fate[r] = "none"}
HasRow(id) == \E r \in Requests : fate[r] = "stored" /\ IdOf[r] = id

\* A request is answered 202, 429, or another error.
Answer(r) ==
    /\ up
    /\ answer[r] = "none"
    /\ \E a \in Answers \ {"none"} : answer' = [answer EXCEPT ![r] = a]
    /\ UNCHANGED <<up, taken, fate, sending>>

\* One transaction over the results of S: all of them are lost, or one for each
\* event_id that has no row is stored and the others are ignored.
Settle(S) ==
    \/ \E new \in SUBSET S :
          /\ \A r \in new : ~HasRow(IdOf[r])
          /\ \A r, q \in new : IdOf[r] = IdOf[q] => r = q
          /\ \A r \in S \ new : HasRow(IdOf[r]) \/ \E q \in new : IdOf[q] = IdOf[r]
          /\ fate' = [r \in Requests |-> IF r \in new THEN "stored"
                                         ELSE IF r \in S THEN "ignored" ELSE fate[r]]
    \/ /\ DbMayFail
       /\ fate' = [r \in Requests |-> IF r \in S THEN "lost" ELSE fate[r]]

\* The writer receives the result of r: it is skipped, or it joins the ones that
\* wait, which may be settled at once, and its webhook is started or dropped.
Take(r) ==
    /\ up
    /\ answer[r] = "accepted"
    /\ r \notin taken
    /\ taken' = taken \cup {r}
    /\ \/ /\ MaySkip
          /\ fate' = [fate EXCEPT ![r] = "skipped"]
          /\ UNCHANGED sending
       \/ /\ UNCHANGED fate \/ Settle(Waiting \cup {r})
          /\ \/ UNCHANGED sending
             \/ Cardinality(sending) < MaxWebhooks /\ sending' = sending \cup {r}
    /\ UNCHANGED <<up, answer>>

\* Everything that waits is settled.
Flushed ==
    /\ up
    /\ Waiting # {}
    /\ Settle(Waiting)
    /\ UNCHANGED <<up, answer, taken, sending>>

\* Rows reach the retention age.
Expire ==
    /\ up
    /\ \E old \in (SUBSET {r \in Requests : fate[r] = "stored"}) \ {{}} :
          fate' = [r \in Requests |-> IF r \in old THEN "expired" ELSE fate[r]]
    /\ UNCHANGED <<up, answer, taken, sending>>

HookEnd(r) ==
    /\ up
    /\ r \in sending
    /\ sending' = sending \ {r}
    /\ UNCHANGED <<up, answer, taken, fate>>

End ==
    /\ up
    /\ up' = FALSE
    /\ UNCHANGED <<answer, taken, fate, sending>>

DNext ==
    \/ \E r \in Requests : Answer(r) \/ Take(r) \/ HookEnd(r)
    \/ Flushed
    \/ Expire
    \/ End

DSpec == DInit /\ [][DNext]_deliveryVars
=============================================================================
