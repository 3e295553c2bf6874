-------------------------------- MODULE Shim --------------------------------
(***************************************************************************)
(* The input shim of the jetstream harness: a reader goroutine takes       *)
(* messages off a WebSocket, filters them, and hands each event to a       *)
(* goroutine that posts it to fruitfly, retrying on 429; a semaphore       *)
(* bounds those goroutines and main waits for them when it leaves.         *)
(*                                                                         *)
(* Every attempt is a request of its own to the process that Delivery      *)
(* describes; attempts of one message carry the same event_id.             *)
(***************************************************************************)
EXTENDS Delivery, Integers, Sequences

CONSTANTS
    Stream,        \* the messages of the stream, in order: see Message
    PostAttempts,  \* attempts per event (3)
    Concurrency,   \* capacity of the semaphore
    MaxEvents,     \* -max-events, 0 for no limit
    NoMessage      \* what the reader holds between messages

VARIABLES
    reader,    \* where the reader goroutine stands
    cur,       \* the message it is about to hand over
    unread,    \* messages the stream will still deliver
    post,      \* per message: where its goroutine stands
    att,       \* per message: requests sent
    count,     \* sent, skipped, dropped, dispatched
    smain,     \* where main() stands
    cancelled  \* ctx is cancelled

shimVars == <<reader, cur, unread, post, att, count, smain, cancelled>>

Message == [did : STRING, coll : STRING, rkey : STRING, op : STRING, nr : Nat]

\* Only creations of posts and likes are forwarded.
Wanted(m) == m.op = "create" /\ m.coll \in {"post", "like"}
\* The event_id is did/collection/rkey.
EventId(m) == <<m.did, m.coll, m.rkey>>
Events == {Stream[i] : i \in {k \in DOMAIN Stream : Wanted(Stream[k])}}

\* nr tells two messages of the same record apart.
ASSUME ShimAssumption ==
    /\ Stream \in Seq(Message)
    /\ \A i, j \in DOMAIN Stream : Stream[i] = Stream[j] => i = j
    /\ NoMessage \notin Events
    /\ PostAttempts \in Nat \ {0}
    /\ Concurrency \in Nat \ {0}
    /\ MaxEvents \in Nat
    /\ Requests = Events \X (1..PostAttempts)
    /\ IdOf = [r \in Requests |-> EventId(r[1])]

ShimInit ==
    /\ reader = "dial"
    /\ cur = NoMessage
    /\ unread = Stream
    /\ post = [m \in Events |-> "none"]
    /\ att = [m \in Events |-> 0]
    /\ count = [sent |-> 0, skipped |-> 0, dropped |-> 0, dispatched |-> 0]
    /\ smain = "wait"
    /\ cancelled = FALSE

\* Goroutines that hold a slot of the semaphore and are in the wait group.
Running == {m \in Events : post[m] \in {"post", "back"}}
ShimUp == smain # "exited"

-----------------------------------------------------------------------------
(* The reader goroutine.                                                   *)

\* A failed dial is tried again after a second.
Connect ==
    /\ ShimUp
    /\ reader = "dial"
    /\ reader' = IF cancelled THEN "done" ELSE "loop"
    /\ UNCHANGED <<cur, unread, post, att, count, smain, cancelled>>

\* A defect: the limit is compared with the events that were sent.
CheckSent ==
    /\ ShimUp
    /\ reader = "loop"
    /\ reader' = IF \/ MaxEvents > 0 /\ count.sent >= MaxEvents
                    \/ cancelled
                 THEN "done" ELSE "read"
    /\ UNCHANGED <<cur, unread, post, att, count, smain, cancelled>>

\* The head of the loop; after it the reader blocks in ReadMessage, which a
\* cancelled context does not interrupt.
Check ==
    /\ ShimUp
    /\ reader = "loop"
    /\ reader' = IF \/ MaxEvents > 0 /\ count.dispatched >= MaxEvents
                    \/ cancelled
                 THEN "done" ELSE "read"
    /\ UNCHANGED <<cur, unread, post, att, count, smain, cancelled>>

\* The connection breaks; the reader dials again after a second. (The count of
\* such errors is only printed.)
ReadError ==
    /\ ShimUp
    /\ reader = "read"
    /\ reader' = "dial"
    /\ UNCHANGED <<cur, unread, post, att, count, smain, cancelled>>

ReadMessage ==
    /\ ShimUp
    /\ reader = "read"
    /\ unread # <<>>
    /\ unread' = Tail(unread)
    /\ \/ /\ ~Wanted(Head(unread))
          /\ count' = [count EXCEPT !.skipped = @ + 1]
          /\ reader' = "loop"
          /\ UNCHANGED cur
       \/ /\ Wanted(Head(unread))
          /\ count' = [count EXCEPT !.dispatched = @ + 1]
          /\ reader' = "acquire"
          /\ cur' = Head(unread)
    /\ UNCHANGED <<post, att, smain, cancelled>>

\* A slot is free: the goroutine starts, and sends its first request unless ctx
\* is cancelled already.
Acquire ==
    /\ ShimUp
    /\ reader = "acquire"
    /\ Cardinality(Running) < Concurrency
    /\ post' = [post EXCEPT ![cur] = "post"]
    /\ att' = [att EXCEPT ![cur] = IF cancelled THEN 0 ELSE 1]
    /\ reader' = "loop"
    /\ cur' = NoMessage
    /\ UNCHANGED <<unread, count, smain, cancelled>>

-----------------------------------------------------------------------------
(* postToFruitfly and the goroutine around it.                             *)

Told(m) == IF att[m] = 0 THEN "none" ELSE answer[<<m, att[m]>>]

\* 202.
PostAccepted(m) ==
    /\ ShimUp
    /\ post[m] = "post"
    /\ Told(m) = "accepted"
    /\ post' = [post EXCEPT ![m] = "sent"]
    /\ count' = [count EXCEPT !.sent = @ + 1]
    /\ UNCHANGED <<reader, cur, unread, att, smain, cancelled>>

\* 429: back off, also after the last attempt.
PostBusy(m) ==
    /\ ShimUp
    /\ post[m] = "post"
    /\ Told(m) = "busy"
    /\ post' = [post EXCEPT ![m] = "back"]
    /\ UNCHANGED <<reader, cur, unread, att, count, smain, cancelled>>

Drop(m) ==
    /\ post' = [post EXCEPT ![m] = "dropped"]
    /\ count' = [count EXCEPT !.dropped = @ + 1]
    /\ UNCHANGED <<reader, cur, unread, att, smain, cancelled>>

\* A defect: an attempt that failed without an answer is tried again.
PostErrorRetry(m) ==
    /\ ShimUp
    /\ post[m] = "post"
    /\ IF att[m] < PostAttempts
       THEN /\ att' = [att EXCEPT ![m] = @ + 1]
            /\ UNCHANGED <<reader, cur, unread, post, count, smain, cancelled>>
       ELSE Drop(m)

\* Another status, or no answer at all: a broken connection, the client's 10 s
\* timeout, ctx cancelled. The event may have been accepted nevertheless.
PostError(m) ==
    /\ ShimUp
    /\ post[m] = "post"
    /\ Drop(m)

\* The back-off has passed: the next attempt, or the end of the attempts. Under
\* a cancelled ctx the wait ends at once.
BackoffOver(m) ==
    /\ ShimUp
    /\ post[m] = "back"
    /\ \/ /\ att[m] < PostAttempts
          /\ ~cancelled
          /\ att' = [att EXCEPT ![m] = @ + 1]
          /\ post' = [post EXCEPT ![m] = "post"]
          /\ UNCHANGED <<reader, cur, unread, count, smain, cancelled>>
       \/ /\ att[m] = PostAttempts \/ cancelled
          /\ Drop(m)

-----------------------------------------------------------------------------
(* main.                                                                   *)

Signal ==
    /\ smain = "wait"
    /\ cancelled' = TRUE
    /\ smain' = "waitPosts"
    /\ UNCHANGED <<reader, cur, unread, post, att, count>>

ReaderDone ==
    /\ smain = "wait"
    /\ reader = "done"
    /\ smain' = "waitPosts"
    /\ UNCHANGED <<reader, cur, unread, post, att, count, cancelled>>

\* A defect: main waits for the reader as well, which may sit in ReadMessage.
PostsDoneReader ==
    /\ smain = "waitPosts"
    /\ Running = {}
    /\ reader = "done"
    /\ smain' = "exited"
    /\ UNCHANGED <<reader, cur, unread, post, att, count, cancelled>>

\* The wait group is empty: the stats file is written.
PostsDone ==
    /\ smain = "waitPosts"
    /\ Running = {}
    /\ smain' = "exited"
    /\ UNCHANGED <<reader, cur, unread, post, att, count, cancelled>>

\* Five seconds have passed: the stats file is written with posts in flight.
PostsTimeout ==
    /\ smain = "waitPosts"
    /\ Running # {}
    /\ smain' = "exited"
    /\ UNCHANGED <<reader, cur, unread, post, att, count, cancelled>>

-----------------------------------------------------------------------------
Reader == Connect \/ Check \/ ReadMessage \/ Acquire
Poster(m) == PostAccepted(m) \/ PostBusy(m) \/ PostError(m) \/ BackoffOver(m)
ShimMain == ReaderDone \/ PostsDone \/ PostsTimeout

ShimNext ==
    \/ Reader
    \/ ReadError
    \/ \E m \in Running : Poster(m)
    \/ Signal
    \/ ShimMain

-----------------------------------------------------------------------------
(* Properties.                                                             *)

Count(st) == Cardinality({m \in Events : post[m] = st})
AcceptedFor(m) == {k \in 1..PostAttempts : answer[<<m, k>>] = "accepted"}

\* Every event the reader let through is counted once, as sent or dropped, or is
\* still with its goroutine or waiting for a slot; the slots are never exceeded
\* and the reader stops at -max-events, however late posts and a signal come.
ShimAccounts ==
    /\ count.dispatched = count.sent + count.dropped + Cardinality(Running)
                             + (IF reader = "acquire" THEN 1 ELSE 0)
    /\ count.sent = Count("sent") /\ count.dropped = Count("dropped")
    /\ Cardinality(Running) <= Concurrency
    /\ MaxEvents > 0 => count.dispatched <= MaxEvents

\* Retries never make a second event: a message is accepted at most once over
\* all its attempts, exactly once if the shim counts it as sent.
AcceptedOnce ==
    \A m \in Events : /\ Cardinality(AcceptedFor(m)) <= 1
                      /\ post[m] = "sent" => AcceptedFor(m) # {}

\* The shim comes to its end once it has let -max-events events through, or was
\* told to stop: neither a full semaphore nor a silent server holds it.
ShimEnds ==
    (cancelled \/ (MaxEvents > 0 /\ count.dispatched >= MaxEvents)) ~> ~ShimUp
=============================================================================
