------------------------------ MODULE Cluster -------------------------------
(***************************************************************************)
(* Ingest in cluster mode: a node reads a request line by line, queues the *)
(* events whose key it owns, forwards the others to their owners, one      *)
(* request per peer, and answers the client with the counts.               *)
(*                                                                         *)
(* POST /events is a batch of one line: the two handlers differ only in    *)
(* how the counts become a status. All nodes run the same code, so a peer  *)
(* answers a forwarded request with 202 or 429. The handler means to tell  *)
(* a 429 from a failure in transport, but does not: see peerStatus. What   *)
(* happens to an event after eventChan is the business of Pipeline.        *)
(***************************************************************************)
EXTENDS Naturals, Sequences, FiniteSets, SequencesExt

CONSTANTS
    Nodes,       \* the peers of the ring
    Requests,    \* client requests
    Batches,     \* the ones to POST /events/batch
    At,          \* the node each request is sent to
    Body,        \* the lines of each request: a routing key, or BadLine
    Keys,        \* routing keys, the entities of events: sequences of symbols
    CounterKeys, \* keys that rules pass to counter(), likewise
    BadLine,     \* a line that is too long or does not parse
    View,        \* per node, the owner it computes for each key
    Cap          \* capacity of a node's eventChan

ASSUME RequestAssumption ==
    /\ IsFiniteSet(Requests) /\ Batches \subseteq Requests
    /\ At \in [Requests -> Nodes]
    /\ Body \in [Requests -> Seq(Keys \cup {BadLine})]
    /\ \A r \in Requests \ Batches : Len(Body[r]) = 1
ASSUME RingAssumption ==
    /\ BadLine \notin Keys
    /\ View \in [Nodes -> [Keys -> Nodes]]
ASSUME ClusterCapAssumption == Cap \in Nat \ {0}

\* An event is a line of a request.
Events == UNION {{r} \X (1..Len(Body[r])) : r \in Requests}
KeyOf(e) == Body[e[1]][e[2]]
\* Router.Owner as the node that reads the request sees it.
Owner(e) == View[At[e[1]]][KeyOf(e)]

\* In cluster mode counter() takes only the event's entity as key, or a derivation
\* "<entity>:<scope>" of it; another key is a rule error.
affineKey(key, entity) ==
    \/ key = entity
    \/ Len(key) > Len(entity) + 1 /\ IsPrefix(Append(entity, ":"), key)

\* Whether the owner is the node itself.
Self(e) == Owner(e) = At[e[1]]

VARIABLES
    queue,   \* per node: eventChan
    copies,  \* history: how often an event was queued at a node
    h,       \* per request: its handler, with the counts of its answer
    remote,  \* per request and peer: the events staged for the peer
    rpc,     \* per request and peer: the forwarded request at the peer
    broke    \* history: the forwards that ended without an answer

vars == <<queue, copies, h, remote, rpc, broke>>

NoRpc == [st |-> "none", i |-> 0, over |-> FALSE]

Init ==
    /\ queue = [n \in Nodes |-> <<>>]
    /\ copies = [e \in Events |-> [n \in Nodes |-> 0]]
    /\ h = [r \in Requests |-> [pc |-> "read", i |-> 0, acc |-> 0, fwd |-> 0, rej |-> 0,
                                over |-> FALSE, cut |-> FALSE, peer |-> At[r]]]
    /\ remote = [r \in Requests |-> [p \in Nodes |-> <<>>]]
    /\ rpc = [r \in Requests |-> [p \in Nodes |-> NoRpc]]
    /\ broke = {}

-----------------------------------------------------------------------------
Room(n) == Len(queue[n]) < Cap

\* A defect: a blocking send.
OfferBlocks(n, e) ==
    /\ Room(n)
    /\ queue' = [queue EXCEPT ![n] = Append(@, e)]
    /\ copies' = [copies EXCEPT ![e][n] = @ + 1]

\* enqueue: offered without blocking, taken only if there is room.
Offer(n, e) ==
    IF Room(n)
    THEN /\ queue' = [queue EXCEPT ![n] = Append(@, e)]
         /\ copies' = [copies EXCEPT ![e][n] = @ + 1]
    ELSE UNCHANGED <<queue, copies>>

\* The counts after an offer at node n.
Counted(c, n) ==
    IF Room(n) THEN [c EXCEPT !.acc = @ + 1] ELSE [c EXCEPT !.rej = @ + 1, !.over = TRUE]

\* A worker takes an event.
Drain(n) ==
    /\ queue[n] # <<>>
    /\ queue' = [queue EXCEPT ![n] = Tail(@)]
    /\ UNCHANGED <<copies, h, remote, rpc, broke>>

-----------------------------------------------------------------------------
(* The node the client talks to.                                           *)

\* batchLine: refused, staged for its owner, or offered to the own pipeline.
ReadLine(r) ==
    LET c == [h[r] EXCEPT !.i = @ + 1]
        e == <<r, c.i>>
    IN /\ h[r].pc = "read"
       /\ h[r].i < Len(Body[r])
       /\ \/ /\ KeyOf(e) = BadLine \/ h[r].over
             /\ h' = [h EXCEPT ![r] = [c EXCEPT !.rej = @ + 1]]
             /\ UNCHANGED <<queue, copies, remote>>
          \/ /\ KeyOf(e) # BadLine /\ ~h[r].over
             /\ ~Self(e)
             /\ remote' = [remote EXCEPT ![r][Owner(e)] = Append(@, e)]
             /\ h' = [h EXCEPT ![r] = c]
             /\ UNCHANGED <<queue, copies>>
          \/ /\ KeyOf(e) # BadLine /\ ~h[r].over
             /\ Self(e)
             /\ Offer(At[r], e)
             /\ h' = [h EXCEPT ![r] = Counted(c, At[r])]
             /\ UNCHANGED remote
       /\ UNCHANGED <<rpc, broke>>

\* The body ends, or cannot be read further: what was read is dealt with.
EndOfBody(r) ==
    /\ h[r].pc = "read"
    /\ \E cut \in BOOLEAN :
          /\ ~cut => h[r].i = Len(Body[r])
          /\ cut => h[r].i < Len(Body[r])
          /\ h' = [h EXCEPT ![r].pc = "next", ![r].cut = cut]
    /\ UNCHANGED <<queue, copies, remote, rpc, broke>>

\* Forward: the staged lines go to the next peer, in any order of peers.
Forward(r, p) ==
    /\ h[r].pc = "next"
    /\ remote[r][p] # <<>>
    /\ rpc[r][p].st = "none"
    /\ rpc' = [rpc EXCEPT ![r][p].st = "sent"]
    /\ h' = [h EXCEPT ![r].pc = "wait", ![r].peer = p]
    /\ UNCHANGED <<queue, copies, remote, broke>>

\* A defect: lines the peer took are processed locally as well.
ForwardOKFallsThrough(r) ==
    LET p == h[r].peer
    IN /\ h[r].pc = "wait"
       /\ rpc[r][p].st = "answered"
       /\ ~rpc[r][p].over
       /\ h' = [h EXCEPT ![r].pc = "local", ![r].i = 0]
       /\ UNCHANGED <<queue, copies, remote, rpc, broke>>

\* The peer took all of it.
ForwardOK(r) ==
    LET p == h[r].peer
    IN /\ h[r].pc = "wait"
       /\ rpc[r][p].st = "answered"
       /\ ~rpc[r][p].over
       /\ h' = [h EXCEPT ![r].pc = "next", ![r].fwd = @ + Len(remote[r][p])]
       /\ UNCHANGED <<queue, copies, remote, rpc, broke>>

\* What Forward returns for a status of 300 or more: the code is a field, and Error
\* the only method.
StatusError == [Code |-> 429, methods |-> {"Error"}]

\* Whether an error tells the status that the peer answered with: errors.As looks for
\* an error with a method StatusCode.
peerStatus(err) == "StatusCode" \in err.methods

\* A defect: lines the peer refused are counted as forwarded.
ForwardRefusedCounted(r) ==
    LET p == h[r].peer
    IN /\ h[r].pc = "wait"
       /\ rpc[r][p].st = "answered"
       /\ rpc[r][p].over
       /\ h' = [h EXCEPT ![r].pc = "next", ![r].fwd = @ + Len(remote[r][p])]
       /\ UNCHANGED <<queue, copies, remote, rpc, broke>>

\* The peer answered 429, perhaps after taking some of the lines. With a status they
\* would all count as rejected; without one this is a failed forward like any other,
\* and all of them are processed locally.
ForwardRefused(r) ==
    LET p == h[r].peer
    IN /\ h[r].pc = "wait"
       /\ rpc[r][p].st = "answered"
       /\ rpc[r][p].over
       /\ h' = IF peerStatus(StatusError)
               THEN [h EXCEPT ![r].pc = "next", ![r].rej = @ + Len(remote[r][p]),
                              ![r].over = TRUE]
               ELSE [h EXCEPT ![r].pc = "local", ![r].i = 0]
       /\ UNCHANGED <<queue, copies, remote, rpc, broke>>

\* client.Do fails without an answer: the peer was not reached, or the timeout,
\* the loss of the connection or the client's own departure (r.Context) comes
\* later, and the peer goes on. The lines are processed locally.
ForwardFails(r) ==
    LET p == h[r].peer
    IN /\ h[r].pc = "wait"
       /\ \E arrives \in BOOLEAN :
             /\ ~arrives => rpc[r][p] = [NoRpc EXCEPT !.st = "sent"]
             /\ rpc' = IF arrives THEN rpc ELSE [rpc EXCEPT ![r][p].st = "lost"]
       /\ h' = [h EXCEPT ![r].pc = "local", ![r].i = 0]
       /\ broke' = broke \cup {<<r, p>>}
       /\ UNCHANGED <<queue, copies, remote>>

\* The next event of the group whose forward failed or was refused.
ProcessLocally(r) ==
    LET g == remote[r][h[r].peer]
        c == [h[r] EXCEPT !.i = @ + 1]
    IN /\ h[r].pc = "local"
       /\ h[r].i < Len(g)
       /\ Offer(At[r], g[c.i])
       /\ h' = [h EXCEPT ![r] = Counted(c, At[r])]
       /\ UNCHANGED <<remote, rpc, broke>>

LocalDone(r) ==
    /\ h[r].pc = "local"
    /\ h[r].i = Len(remote[r][h[r].peer])
    /\ h' = [h EXCEPT ![r].pc = "next"]
    /\ UNCHANGED <<queue, copies, remote, rpc, broke>>

\* All groups are dealt with: the answer.
Answer(r) ==
    /\ h[r].pc = "next"
    /\ \A p \in Nodes : remote[r][p] = <<>> \/ rpc[r][p].st # "none"
    /\ h' = [h EXCEPT ![r].pc = "done"]
    /\ UNCHANGED <<queue, copies, remote, rpc, broke>>

\* The status of an answer with counts c. A batch that was cut is answered 400
\* or 413; a single event that was not read or did not parse 400, 413 or 415.
Status(r, c) ==
    IF c.cut THEN "error"
    ELSE IF c.over THEN "429"
    ELSE IF r \in Batches \/ c.acc + c.fwd = 1 THEN "202" ELSE "error"

-----------------------------------------------------------------------------
(* The peer: the same handler on a request marked as forwarded.            *)

\* A defect: the mark is ignored and the peer routes the line once more.
PeerLineRouted(r, p) ==
    LET c == rpc[r][p]
        e == remote[r][p][c.i + 1]
        n == View[p][KeyOf(e)]
    IN /\ c.st = "sent"
       /\ c.i < Len(remote[r][p])
       /\ IF c.over THEN UNCHANGED <<queue, copies>> ELSE Offer(n, e)
       /\ rpc' = [rpc EXCEPT ![r][p].i = @ + 1, ![r][p].over = @ \/ ~Room(n)]
       /\ UNCHANGED <<h, remote, broke>>

\* A forwarded line is offered to the peer's own pipeline, whatever its own view
\* of the ring; after the first refusal the rest is refused.
PeerLine(r, p) ==
    LET c == rpc[r][p]
    IN /\ c.st = "sent"
       /\ c.i < Len(remote[r][p])
       /\ IF c.over THEN UNCHANGED <<queue, copies>> ELSE Offer(p, remote[r][p][c.i + 1])
       /\ rpc' = [rpc EXCEPT ![r][p].i = @ + 1, ![r][p].over = @ \/ ~Room(p)]
       /\ UNCHANGED <<h, remote, broke>>

PeerAnswer(r, p) ==
    /\ rpc[r][p].st = "sent"
    /\ rpc[r][p].i = Len(remote[r][p])
    /\ rpc[r][p].i > 0
    /\ rpc' = [rpc EXCEPT ![r][p].st = "answered"]
    /\ UNCHANGED <<queue, copies, h, remote, broke>>

-----------------------------------------------------------------------------
Handler(r) ==
    \/ ReadLine(r) \/ EndOfBody(r)
    \/ \E p \in Nodes : Forward(r, p)
    \/ ForwardOK(r) \/ ForwardRefused(r) \/ ForwardFails(r)
    \/ ProcessLocally(r) \/ LocalDone(r) \/ Answer(r)

Peer(r, p) == PeerLine(r, p) \/ PeerAnswer(r, p)

Next ==
    \/ \E r \in Requests : Handler(r)
    \/ \E r \in Requests, p \in Nodes : Peer(r, p)
    \/ \E n \in Nodes : Drain(n)

Spec == Init /\ [][Next]_vars

\* Handlers run, and a forward ends with an answer or with its 5 s timeout.
\* The workers need not make room.
FairSpec == Spec /\ \A r \in Requests : WF_vars(Handler(r))

-----------------------------------------------------------------------------
(* Properties.                                                             *)

EventsOf(r) == {e \in Events : e[1] = r}
\* The nodes that have queued an event.
Holders(e) == {n \in Nodes : copies[e][n] > 0}

\* What the variables hold: no queue overflows, a forwarded request never runs
\* past its lines, and nothing is staged for the node itself.
TypeOK ==
    /\ \A n \in Nodes : queue[n] \in Seq(Events) /\ Len(queue[n]) <= Cap
    /\ \A r \in Requests :
          /\ h[r].pc \in {"read", "next", "wait", "local", "done"}
          /\ {h[r].i, h[r].acc, h[r].fwd, h[r].rej} \subseteq 0..Len(Body[r])
          /\ remote[r][At[r]] = <<>>
          /\ \A p \in Nodes :
                /\ rpc[r][p].st \in {"none", "sent", "answered", "lost"}
                /\ rpc[r][p].i \in 0..Len(remote[r][p])
    /\ broke \subseteq Requests \X Nodes

\* Every line that was read is in exactly one of the counts of the answer, on
\* every path through forwards, refusals and local fallback.
CountsAddUp ==
    \A r \in Requests : h[r].pc = "done" =>
        /\ h[r].acc + h[r].fwd + h[r].rej <= Len(Body[r])
        /\ ~h[r].cut => h[r].acc + h[r].fwd + h[r].rej = Len(Body[r])

\* What a client is told is true: the counts of the answer add up, what they call
\* accepted or forwarded is in some node's pipeline, and a 202 for a batch leaves
\* none of its valid lines out. (TypeOK: on the way no queue overflows and no
\* handler runs past its lines.)
ToldIsQueued ==
    /\ TypeOK
    /\ CountsAddUp
    /\ \A r \in Requests : h[r].pc = "done" =>
          LET in == {e \in EventsOf(r) : Holders(e) # {}}
          IN /\ h[r].acc + h[r].fwd <= Cardinality(in)
             /\ Status(r, h[r]) = "202" => in = {e \in EventsOf(r) : KeyOf(e) # BadLine}

\* The peer refused a forwarded request, or at least the end of it.
Refused(r, p) == rpc[r][p].st = "answered" /\ rpc[r][p].over

\* No node queues an event twice. On a second node an event is only if its forward ended
\* without an answer after the peer was reached, or as a line of a batch that the peer
\* took before it refused a later one: a refused POST /events makes no copy, and
\* neither does a line of a batch from the first refused one on.
OneCopy ==
    \A e \in Events :
        /\ \A n \in Nodes : copies[e][n] <= 1
        /\ \A n, m \in Holders(e) : n # m =>
              \/ /\ <<e[1], Owner(e)>> \in broke
                 /\ rpc[e[1]][Owner(e)].st # "lost"
              \/ /\ Refused(e[1], Owner(e))
                 /\ \E f \in EventsOf(e[1]) :
                       /\ f[2] > e[2] /\ KeyOf(f) # BadLine
                       /\ Owner(f) = Owner(e) /\ Owner(e) \notin Holders(f)

\* What a client's node does with an event is its peer's business once the peer has
\* answered: it is not processed again, nor away from its owner (StatusError: "Callers
\* must NOT replay the payload locally").
AnswerIsFinal ==
    \A e \in Events : \A n \in Holders(e) :
        /\ rpc[e[1]][Owner(e)].st = "answered"
        /\ <<e[1], Owner(e)>> \notin broke
        => n = Owner(e)

\* The nodes that may have incremented a counter key.
CounterNodes(c) ==
    {n \in Nodes : \E e \in Events : n \in Holders(e) /\ affineKey(c, KeyOf(e))}

\* A counter() key is incremented on one node only, so that its count is exact
\* (affineKey's comment): as long as the key is affine to one entity k, the nodes
\* agree that o owns k, and every forward to o was answered and not refused.
CountedOnOneNode ==
    \A c \in CounterKeys, k \in Keys, o \in Nodes :
        /\ \A j \in Keys : affineKey(c, j) => j = k
        /\ \A n \in Nodes : View[n][k] = o
        /\ \A r \in Requests : <<r, o>> \notin broke /\ ~Refused(r, o)
        => CounterNodes(c) \subseteq {o}

\* An event leaves its owner's node only when its forward to the owner ended without
\* an answer or was refused, and then it is at the client's node: disagreeing views of
\* the ring never scatter an entity's events, and what its rules count stays on one
\* node.
AtHome ==
    /\ \A e \in Events : \A n \in Holders(e) :
          \/ n = Owner(e)
          \/ /\ n = At[e[1]]
             /\ <<e[1], Owner(e)>> \in broke \/ Refused(e[1], Owner(e))
    /\ CountedOnOneNode

\* Every request is answered, however long the pipelines stay full and whatever
\* the peers do.
AlwaysAnswered == \A r \in Requests : <>(h[r].pc = "done")

=============================================================================
