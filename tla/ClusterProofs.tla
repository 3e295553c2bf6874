---------------------------- MODULE ClusterProofs ----------------------------
(***************************************************************************)
(* Machine-checked proofs about Cluster, for every number of nodes and     *)
(* requests, every view of the ring and every capacity.                    *)
(***************************************************************************)
EXTENDS Cluster, FiniteSetTheorems, FunctionTheorems, TLAPS

-----------------------------------------------------------------------------
(* The inductive invariant. All of it but the shape of the variables is    *)
(* about one request at a time: no handler touches another one's counts.   *)

HandlerState == [pc : {"read", "next", "wait", "local", "done"}, i : Nat, acc : Nat,
                 fwd : Nat, rej : Nat, over : BOOLEAN, cut : BOOLEAN, peer : Nodes]
RpcState == [st : {"none", "sent", "answered", "lost"}, i : Nat, over : BOOLEAN]

\* What each variable holds.
Shape ==
    /\ queue \in [Nodes -> Seq(Events)]
    /\ copies \in [Events -> [Nodes -> Nat]]
    /\ h \in [Requests -> HandlerState]
    /\ remote \in [Requests -> [Nodes -> Seq(Events)]]
    /\ rpc \in [Requests -> [Nodes -> RpcState]]
    /\ broke \subseteq Requests \X Nodes
    /\ \A n \in Nodes : Len(queue[n]) <= Cap

\* The lines of a request that parse.
Valid(r) == {e \in EventsOf(r) : KeyOf(e) # BadLine}

\* What is staged for a peer: valid lines of the request that the peer owns, each
\* once, and while the body is read only lines that were read.
Staged(r) ==
    /\ \A p \in Nodes : \A k \in 1..Len(remote[r][p]) :
          /\ remote[r][p][k] \in Valid(r)
          /\ Owner(remote[r][p][k]) = p
          /\ p # At[r]
          /\ h[r].pc = "read" => remote[r][p][k][2] <= h[r].i
    /\ \A p \in Nodes : \A k, m \in 1..Len(remote[r][p]) :
          remote[r][p][k] = remote[r][p][m] => k = m
    /\ h[r].i <= Len(Body[r])

\* The handler has taken back what it forwarded to a peer: no answer came, or a
\* refusal did.
Fallback(r, p) ==
    \/ <<r, p>> \in broke
    \/ Refused(r, p) /\ ~(h[r].pc = "wait" /\ h[r].peer = p)

\* How far the forwarded requests are: none before the body ends, one that is not
\* over is being waited for or has failed, and one that failed or was refused is the
\* reason for processing lines locally.
Forwarded(r) ==
    /\ \A p \in Nodes :
          /\ rpc[r][p].i <= Len(remote[r][p])
          /\ h[r].pc = "read" => rpc[r][p].st = "none"
          /\ rpc[r][p].st = "none" => rpc[r][p] = NoRpc /\ <<r, p>> \notin broke
          /\ rpc[r][p].st = "sent" =>
                <<r, p>> \in broke \/ (h[r].pc = "wait" /\ h[r].peer = p)
          /\ rpc[r][p].st = "answered" => rpc[r][p].i = Len(remote[r][p])
          /\ rpc[r][p].st = "lost" => rpc[r][p].i = 0
    /\ h[r].pc = "wait" =>
          /\ rpc[r][h[r].peer].st \in {"sent", "answered"}
          /\ <<r, h[r].peer>> \notin broke
    /\ h[r].pc = "local" =>
          /\ rpc[r][h[r].peer].st # "none"
          /\ Fallback(r, h[r].peer)
          /\ h[r].i <= Len(remote[r][h[r].peer])

\* Where copies are: at the owner, or at the node the client talks to after the
\* forward failed or was refused; none before its line is read, forwarded or processed.
Copied(r) ==
    /\ \A e \in EventsOf(r), n \in Nodes :
          /\ copies[e][n] \in {0, 1}
          /\ copies[e][n] = 1 =>
                /\ e \in Valid(r)
                /\ n = Owner(e) \/ (n = At[r] /\ Fallback(r, Owner(e)))
    /\ \A e \in Valid(r) :
          /\ Self(e) /\ h[r].pc = "read" /\ copies[e][At[r]] = 1 => e[2] <= h[r].i
          /\ ~Self(e) /\ copies[e][Owner(e)] = 1 =>
                \E k \in 1..rpc[r][Owner(e)].i : remote[r][Owner(e)][k] = e
          /\ ~Self(e) /\ h[r].pc = "local" /\ h[r].peer = Owner(e) /\ copies[e][At[r]] = 1 =>
                \E k \in 1..h[r].i : remote[r][Owner(e)][k] = e
    /\ \A p \in Nodes : ~rpc[r][p].over =>
          \A k \in 1..rpc[r][p].i : copies[remote[r][p][k]][p] = 1

\* The events of a request that its own node has queued, those a peer has queued
\* and confirmed, and those that are still to be dealt with.
Own(r) == {e \in EventsOf(r) : copies[e][At[r]] = 1}
Confirmed(r, p) ==
    /\ rpc[r][p].st = "answered" /\ ~rpc[r][p].over
    /\ <<r, p>> \notin broke
    /\ ~(h[r].pc = "wait" /\ h[r].peer = p)
Away(r) == {e \in EventsOf(r) : \E p \in Nodes :
                /\ Confirmed(r, p)
                /\ \E k \in 1..Len(remote[r][p]) : remote[r][p][k] = e}
Open(r, p, k) ==
    \/ rpc[r][p].st = "none"
    \/ h[r].pc = "wait" /\ h[r].peer = p
    \/ h[r].pc = "local" /\ h[r].peer = p /\ k > h[r].i
Pending(r) == {e \in EventsOf(r) : \E p \in Nodes : \E k \in 1..Len(remote[r][p]) :
                   Open(r, p, k) /\ remote[r][p][k] = e}

\* The counts of the answer count these sets, and every line that was read is in
\* one of them or rejected.
Total(r) == h[r].acc + h[r].fwd + h[r].rej + Cardinality(Pending(r))
Tallied(r) ==
    /\ h[r].acc = Cardinality(Own(r))
    /\ h[r].fwd = Cardinality(Away(r))
    /\ h[r].pc = "read" => Total(r) = h[r].i
    /\ h[r].pc # "read" => /\ Total(r) <= Len(Body[r])
                           /\ ~h[r].cut => Total(r) = Len(Body[r])
    /\ h[r].pc = "done" => Pending(r) = {}

\* As long as nothing was refused, no valid line that was read is left out.
WasRead(r, e) == IF h[r].pc = "read" THEN e[2] <= h[r].i ELSE ~h[r].cut
Complete(r) ==
    ~h[r].over => \A e \in Valid(r) :
        WasRead(r, e) => e \in Own(r) \cup Away(r) \cup Pending(r)

Kept(r) == Staged(r) /\ Forwarded(r) /\ Copied(r) /\ Tallied(r) /\ Complete(r)
IInv == Shape /\ \A r \in Requests : Kept(r)

-----------------------------------------------------------------------------
(* Events and staged lines.                                                *)

\* An event is a line of a request, by its number.
LEMMA EventFacts ==
    /\ \A r \in Requests : \A j \in 1..Len(Body[r]) :
          <<r, j>> \in EventsOf(r) /\ <<r, j>>[1] = r /\ <<r, j>>[2] = j
    /\ \A r \in Requests : EventsOf(r) \subseteq Events
    /\ \A r \in Requests : \A e \in EventsOf(r) :
          e[1] = r /\ e[2] \in 1..Len(Body[r]) /\ e = <<r, e[2]>>
    /\ \A e \in Events : e[1] \in Requests /\ e \in EventsOf(e[1])
    /\ \A r \in Requests : Len(Body[r]) \in Nat
BY RequestAssumption DEF EventsOf, Events

\* A valid line has an owner, the node itself or a peer.
LEMMA ValidFacts ==
    ASSUME NEW r \in Requests
    PROVE  /\ Valid(r) \subseteq EventsOf(r)
           /\ At[r] \in Nodes
           /\ \A e \in Valid(r) : Owner(e) \in Nodes /\ (Self(e) <=> Owner(e) = At[r])
<1>1. Valid(r) \subseteq EventsOf(r) /\ At[r] \in Nodes
  BY RequestAssumption DEF Valid
<1>2. ASSUME NEW e \in Valid(r) PROVE Owner(e) \in Nodes /\ (Self(e) <=> Owner(e) = At[r])
  <2>1. e[1] = r /\ e[2] \in 1..Len(Body[r])
    BY <1>1, EventFacts
  <2>2. KeyOf(e) \in Keys
    BY <2>1, RequestAssumption DEF Valid, KeyOf
  <2> QED BY <1>1, <2>1, <2>2, RingAssumption DEF Owner, Self
<1> QED BY <1>1, <1>2

\* A request has finitely many events.
LEMMA EventsFinite ==
    ASSUME NEW r \in Requests
    PROVE  /\ IsFiniteSet(EventsOf(r))
           /\ \A S \in SUBSET EventsOf(r) : IsFiniteSet(S) /\ Cardinality(S) \in Nat
<1>1. IsFiniteSet({r}) /\ IsFiniteSet(1..Len(Body[r]))
  <2>1. Len(Body[r]) \in Nat
    BY EventFacts
  <2>2. IsFiniteSet(1..Len(Body[r]))
    BY <2>1, FS_Interval
  <2> QED BY <2>2, FS_Singleton
<1>2. IsFiniteSet({r} \X (1..Len(Body[r])))
  BY <1>1, FS_Product
<1>3. EventsOf(r) \subseteq {r} \X (1..Len(Body[r]))
  BY EventFacts
<1>4. IsFiniteSet(EventsOf(r))
  BY <1>2, <1>3, FS_Subset
<1> QED BY <1>4, FS_Subset, FS_CardinalityType

\* The lines staged for a peer.
Group(r, p) == {remote[r][p][k] : k \in 1..Len(remote[r][p])}

\* A group has as many lines as were staged, all of the request.
LEMMA GroupSize ==
    ASSUME Shape, NEW r \in Requests, Staged(r), NEW p \in Nodes
    PROVE  /\ Group(r, p) \subseteq Valid(r)
           /\ IsFiniteSet(Group(r, p))
           /\ Cardinality(Group(r, p)) = Len(remote[r][p])
           /\ Len(remote[r][p]) \in Nat
<1> DEFINE g == remote[r][p]
           V == Group(r, p)
<1>1. g \in Seq(Events)
  BY DEF Shape
<1>2. Len(g) \in Nat /\ g \in [1..Len(g) -> V]
  BY <1>1 DEF Group
<1>3. IsFiniteSet(1..Len(g)) /\ Cardinality(1..Len(g)) = Len(g)
  <2> HIDE DEF g
  <2> QED BY <1>2, FS_Interval
<1>4. g \in Bijection(1..Len(g), V)
  <2>1. \A k, m \in 1..Len(g) : g[k] = g[m] => k = m
    BY DEF Staged
  <2>2. \A v \in V : \E k \in 1..Len(g) : g[k] = v
    BY DEF Group
  <2> HIDE DEF g, V
  <2> QED BY <1>2, <2>1, <2>2, Fun_IsBij
<1>5. IsFiniteSet(V) /\ Cardinality(V) = Len(g)
  <2> HIDE DEF g, V
  <2> QED BY <1>3, <1>4, FS_Bijection DEF ExistsBijection
<1>6. V \subseteq Valid(r)
  BY DEF Group, Staged
<1> QED BY <1>2, <1>5, <1>6

-----------------------------------------------------------------------------
(* The shape of the variables.                                             *)

\* Offering an event to a node keeps its queue within capacity.
LEMMA ShapeOffer ==
    ASSUME Shape, NEW n \in Nodes, NEW e \in Events, Offer(n, e)
    PROVE  /\ queue' \in [Nodes -> Seq(Events)]
           /\ copies' \in [Events -> [Nodes -> Nat]]
           /\ \A m \in Nodes : Len(queue'[m]) <= Cap
<1>1. CASE ~Room(n)
  BY <1>1 DEF Offer, Shape
<1>2. CASE Room(n)
  <2>1. /\ queue[n] \in Seq(Events) /\ Append(queue[n], e) \in Seq(Events)
        /\ Len(Append(queue[n], e)) = Len(queue[n]) + 1
        /\ Len(queue[n]) \in Nat
    BY DEF Shape
  <2>2. Len(Append(queue[n], e)) <= Cap
    BY <1>2, <2>1, ClusterCapAssumption DEF Room
  <2>3. queue' = [queue EXCEPT ![n] = Append(queue[n], e)]
    BY <1>2 DEF Offer
  <2>4. copies' = [copies EXCEPT ![e][n] = copies[e][n] + 1]
    BY <1>2 DEF Offer
  <2>5. copies' \in [Events -> [Nodes -> Nat]]
    BY <2>4 DEF Shape
  <2>6. queue' \in [Nodes -> Seq(Events)] /\ \A m \in Nodes : Len(queue'[m]) <= Cap
    BY <2>1, <2>2, <2>3 DEF Shape
  <2> QED BY <2>5, <2>6
<1> QED BY <1>1, <1>2

\* What a step of request r's handler or of its peers leaves alone: everything
\* about the other requests.
Same(q) ==
    /\ h'[q] = h[q] /\ remote'[q] = remote[q] /\ rpc'[q] = rpc[q]
    /\ \A e \in EventsOf(q) : copies'[e] = copies[e]
    /\ \A p \in Nodes : <<q, p>> \in broke' <=> <<q, p>> \in broke
Others(r) == \A q \in Requests \ {r} : Same(q)

\* An offer adds one copy of the event at the node, or none when there is no room.
LEMMA OfferEffect ==
    ASSUME Shape, NEW r \in Requests, NEW n \in Nodes, NEW e \in EventsOf(r), Offer(n, e)
    PROVE  /\ \A f \in Events, m \in Nodes :
                 copies'[f][m] = IF Room(n) /\ f = e /\ m = n
                                 THEN copies[f][m] + 1 ELSE copies[f][m]
           /\ \A f \in Events \ {e} : copies'[f] = copies[f]
           /\ ~Room(n) => copies' = copies
           /\ \A q \in Requests \ {r} : \A f \in EventsOf(q) : copies'[f] = copies[f]
<1>1. e \in Events /\ \A q \in Requests \ {r} : EventsOf(q) \subseteq Events \ {e}
  BY EventFacts
<1>2. /\ \A f \in Events, m \in Nodes :
            copies'[f][m] = IF Room(n) /\ f = e /\ m = n
                            THEN copies[f][m] + 1 ELSE copies[f][m]
      /\ \A f \in Events \ {e} : copies'[f] = copies[f]
      /\ ~Room(n) => copies' = copies
  BY <1>1 DEF Offer, Shape
<1> QED BY <1>1, <1>2

\* The counts after an offer are well formed and say what happened.
LEMMA CountedEffect ==
    ASSUME NEW x \in HandlerState, NEW n \in Nodes
    PROVE  LET c == [x EXCEPT !.i = @ + 1]
               y == Counted(c, n)
           IN /\ c \in HandlerState /\ y \in HandlerState
              /\ c.i = x.i + 1 /\ y.i = x.i + 1
              /\ c.pc = x.pc /\ c.acc = x.acc /\ c.fwd = x.fwd /\ c.rej = x.rej
              /\ c.over = x.over /\ c.cut = x.cut /\ c.peer = x.peer
              /\ y.pc = x.pc /\ y.fwd = x.fwd /\ y.cut = x.cut /\ y.peer = x.peer
              /\ Room(n) => y.acc = x.acc + 1 /\ y.rej = x.rej /\ y.over = x.over
              /\ ~Room(n) => y.acc = x.acc /\ y.rej = x.rej + 1 /\ y.over = TRUE
<1> DEFINE c == [x EXCEPT !.i = @ + 1]
           a == c.acc + 1
           b == c.rej + 1
<1>1. /\ c \in HandlerState
      /\ c.i = x.i + 1
      /\ c.pc = x.pc /\ c.acc = x.acc /\ c.fwd = x.fwd /\ c.rej = x.rej
      /\ c.over = x.over /\ c.cut = x.cut /\ c.peer = x.peer
  BY DEF HandlerState
<1> HIDE DEF c
<1>2. a \in Nat /\ b \in Nat
  BY <1>1 DEF HandlerState
<1>3. a = x.acc + 1 /\ b = x.rej + 1
  BY <1>1
<1> HIDE DEF a, b
<1>4. CASE Room(n)
  <2> DEFINE y == [c EXCEPT !.acc = a]
  <2>1. /\ y \in HandlerState
        /\ y.i = c.i /\ y.pc = c.pc /\ y.acc = a /\ y.fwd = c.fwd /\ y.rej = c.rej
        /\ y.over = c.over /\ y.cut = c.cut /\ y.peer = c.peer
    BY <1>1, <1>2 DEF HandlerState
  <2>2. Counted(c, n) = y
    BY <1>4 DEF Counted, a
  <2> HIDE DEF y
  <2> QED BY <1>1, <1>3, <1>4, <2>1, <2>2 DEF c
<1>5. CASE ~Room(n)
  <2> DEFINE y == [c EXCEPT !.rej = b, !.over = TRUE]
  <2>1. /\ y \in HandlerState
        /\ y.i = c.i /\ y.pc = c.pc /\ y.acc = c.acc /\ y.fwd = c.fwd /\ y.rej = b
        /\ y.over = TRUE /\ y.cut = c.cut /\ y.peer = c.peer
    BY <1>1, <1>2 DEF HandlerState
  <2>2. Counted(c, n) = y
    BY <1>5 DEF Counted, b
  <2> HIDE DEF y
  <2> QED BY <1>1, <1>3, <1>5, <2>1, <2>2 DEF c
<1> QED BY <1>4, <1>5

-----------------------------------------------------------------------------
(* The steps, one request at a time.                                       *)

\* A request that a step leaves alone stays accounted for.
LEMMA KeptSame == ASSUME Shape, NEW q \in Requests, Kept(q), Same(q) PROVE Kept(q)'
<1>1. At[q] \in Nodes
  BY RequestAssumption
<1>2. Staged(q)'
  BY DEF Kept, Same, Staged
<1>3. Forwarded(q)'
  <2>1. h[q].peer \in Nodes
    BY DEF Shape, HandlerState
  <2>2. \A p \in Nodes : Fallback(q, p) => Fallback(q, p)'
    BY DEF Same, Fallback, Refused
  <2> QED BY <2>1, <2>2 DEF Kept, Same, Forwarded
<1>4. \A p \in Nodes : \A k \in 1..Len(remote[q][p]) : remote[q][p][k] \in EventsOf(q)
  BY DEF Kept, Staged, Valid
<1>5. Copied(q)'
  <2>1. ASSUME NEW p \in Nodes, ~rpc'[q][p].over, NEW k \in 1..rpc'[q][p].i
        PROVE  copies'[remote'[q][p][k]][p] = 1
    <3>1. rpc[q][p].i \in Nat /\ Len(remote[q][p]) \in Nat
      BY DEF Shape, RpcState
    <3>2. rpc[q][p].i <= Len(remote[q][p]) /\ k \in 1..rpc[q][p].i
      BY DEF Kept, Forwarded, Same
    <3>3. k \in 1..Len(remote[q][p])
      BY <3>1, <3>2
    <3> QED BY <1>4, <2>1, <3>2, <3>3 DEF Kept, Copied, Same
  <2>2. \A p \in Nodes : Fallback(q, p) => Fallback(q, p)'
    BY DEF Same, Fallback, Refused
  <2> QED BY <2>1, <2>2, ValidFacts DEF Kept, Copied, Same
<1>6. Own(q)' = Own(q) /\ Away(q)' = Away(q) /\ Pending(q)' = Pending(q)
  <2>1. Own(q)' = Own(q)
    BY <1>1 DEF Same, Own
  <2>2. Away(q)' = Away(q)
    BY DEF Same, Away, Confirmed
  <2>3. Pending(q)' = Pending(q)
    BY DEF Same, Pending, Open
  <2> QED BY <2>1, <2>2, <2>3
<1>7. Tallied(q)' /\ Complete(q)'
  BY <1>6 DEF Kept, Same, Tallied, Total, Complete, WasRead
<1> QED BY <1>2, <1>3, <1>5, <1>7 DEF Kept

\* The three sets are sets of the request's events.
LEMMA SetsFinite ==
    ASSUME NEW r \in Requests
    PROVE  /\ Own(r) \subseteq EventsOf(r) /\ IsFiniteSet(Own(r))
           /\ Away(r) \subseteq EventsOf(r) /\ IsFiniteSet(Away(r))
           /\ Pending(r) \subseteq EventsOf(r) /\ IsFiniteSet(Pending(r))
           /\ Cardinality(Own(r)) \in Nat /\ Cardinality(Away(r)) \in Nat
           /\ Cardinality(Pending(r)) \in Nat
<1>1. /\ Own(r) \subseteq EventsOf(r) /\ Away(r) \subseteq EventsOf(r)
      /\ Pending(r) \subseteq EventsOf(r)
  BY DEF Own, Away, Pending
<1> QED BY <1>1, EventsFinite

\* The types of the fields, for the arithmetic below.
LEMMA FieldTypes ==
    ASSUME Shape, NEW r \in Requests
    PROVE  /\ h[r] \in HandlerState /\ h[r].peer \in Nodes
           /\ h[r].i \in Nat /\ h[r].acc \in Nat /\ h[r].fwd \in Nat /\ h[r].rej \in Nat
           /\ h[r].over \in BOOLEAN /\ h[r].cut \in BOOLEAN
           /\ \A p \in Nodes : /\ rpc[r][p] \in RpcState /\ rpc[r][p].i \in Nat
                               /\ rpc[r][p].over \in BOOLEAN
                               /\ remote[r][p] \in Seq(Events) /\ Len(remote[r][p]) \in Nat
           /\ At[r] \in Nodes /\ Len(Body[r]) \in Nat
BY RequestAssumption, EventFacts DEF Shape, HandlerState, RpcState

\* The body ends.
LEMMA KeptEnd ==
    ASSUME Shape, NEW r \in Requests, Kept(r), EndOfBody(r)
    PROVE  Shape' /\ Others(r) /\ Kept(r)'
<1>1. PICK cut \in BOOLEAN :
         /\ ~cut => h[r].i = Len(Body[r])
         /\ cut => h[r].i < Len(Body[r])
         /\ h' = [h EXCEPT ![r].pc = "next", ![r].cut = cut]
  BY DEF EndOfBody
<1>2. /\ h[r].pc = "read" /\ h'[r].pc = "next" /\ h'[r].cut = cut
      /\ h'[r].i = h[r].i /\ h'[r].acc = h[r].acc /\ h'[r].fwd = h[r].fwd
      /\ h'[r].rej = h[r].rej /\ h'[r].over = h[r].over /\ h'[r].peer = h[r].peer
      /\ UNCHANGED <<queue, copies, remote, rpc, broke>>
  BY <1>1 DEF EndOfBody, Shape, HandlerState
<1>3. Shape'
  BY <1>1, <1>2 DEF Shape, HandlerState
<1>4. Others(r)
  BY <1>1, <1>2 DEF Others, Same, Shape
<1>5. \A p \in Nodes : rpc[r][p].st = "none"
  BY <1>2 DEF Kept, Forwarded
<1>6. Staged(r)' /\ Forwarded(r)'
  BY <1>2, <1>5 DEF Kept, Staged, Forwarded
<1>7. Copied(r)'
  <2>1. \A p \in Nodes : Fallback(r, p) => Fallback(r, p)'
    BY <1>2 DEF Fallback, Refused
  <2> QED BY <1>2, <2>1, ValidFacts DEF Kept, Copied
<1>8. Own(r)' = Own(r) /\ Away(r)' = Away(r) /\ Pending(r)' = Pending(r)
  <2>1. Own(r)' = Own(r)
    BY <1>2 DEF Own
  <2>2. Away(r)' = Away(r)
    BY <1>2, <1>5 DEF Away, Confirmed
  <2>3. Pending(r)' = Pending(r)
    BY <1>2, <1>5 DEF Pending, Open
  <2> QED BY <2>1, <2>2, <2>3
<1>9. Tallied(r)'
  <2>1. Total(r)' = Total(r)
    BY <1>2, <1>8 DEF Total
  <2> QED BY <1>1, <1>2, <1>8, <2>1, FieldTypes DEF Kept, Tallied
<1>10. Complete(r)'
  <2>1. \A e \in Valid(r) : WasRead(r, e)' => WasRead(r, e)
    BY <1>1, <1>2, EventFacts, ValidFacts DEF WasRead
  <2> QED BY <1>2, <1>8, <2>1 DEF Kept, Complete
<1> QED BY <1>3, <1>4, <1>6, <1>7, <1>9, <1>10 DEF Kept

\* The answer, or the end of a local fallback.
LEMMA KeptDone ==
    ASSUME Shape, NEW r \in Requests, Kept(r), Answer(r) \/ LocalDone(r)
    PROVE  Shape' /\ Others(r) /\ Kept(r)'
<1>1. PICK s \in {"next", "done"} :
         /\ h' = [h EXCEPT ![r].pc = s]
         /\ s = "done" <=> Answer(r)
         /\ s = "next" <=> LocalDone(r)
  BY DEF Answer, LocalDone
<1>2. /\ h[r].pc \in {"next", "local"} /\ h'[r].pc = s /\ h'[r].cut = h[r].cut
      /\ h'[r].i = h[r].i /\ h'[r].acc = h[r].acc /\ h'[r].fwd = h[r].fwd
      /\ h'[r].rej = h[r].rej /\ h'[r].over = h[r].over /\ h'[r].peer = h[r].peer
      /\ UNCHANGED <<queue, copies, remote, rpc, broke>>
  BY <1>1 DEF Answer, LocalDone, Shape, HandlerState
<1>3. Shape'
  BY <1>1, <1>2 DEF Shape, HandlerState
<1>4. Others(r)
  BY <1>1, <1>2 DEF Others, Same, Shape
<1>5. Staged(r)' /\ Forwarded(r)'
  BY <1>2 DEF Kept, Staged, Forwarded
<1>6. Copied(r)'
  <2>1. \A p \in Nodes : Fallback(r, p) => Fallback(r, p)'
    BY <1>2 DEF Fallback, Refused
  <2> QED BY <1>2, <2>1, ValidFacts DEF Kept, Copied
<1>7. Own(r)' = Own(r) /\ Away(r)' = Away(r) /\ Pending(r)' = Pending(r)
  <2>1. Own(r)' = Own(r)
    BY <1>2 DEF Own
  <2>2. Away(r)' = Away(r)
    BY <1>2 DEF Away, Confirmed
  <2>3. ASSUME NEW p \in Nodes, NEW k \in 1..Len(remote[r][p])
        PROVE  Open(r, p, k)' <=> Open(r, p, k)
    <3>1. CASE Answer(r)
      BY <1>1, <1>2, <3>1 DEF Open, Answer
    <3>2. CASE LocalDone(r)
      <4>1. h[r].pc = "local" /\ h[r].i = Len(remote[r][h[r].peer])
        BY <3>2 DEF LocalDone
      <4>2. p = h[r].peer => ~(k > h[r].i)
        BY <4>1, FieldTypes
      <4> QED BY <1>1, <1>2, <3>2, <4>1, <4>2 DEF Open
    <3> QED BY <3>1, <3>2
  <2>4. Pending(r)' = Pending(r)
    BY <1>2, <2>3 DEF Pending
  <2> QED BY <2>1, <2>2, <2>4
<1>8. Tallied(r)'
  <2>1. Total(r)' = Total(r)
    BY <1>2, <1>7 DEF Total
  <2>2. s = "done" => Pending(r) = {}
    <3> SUFFICES ASSUME Answer(r), NEW p \in Nodes, NEW k \in 1..Len(remote[r][p]),
                        Open(r, p, k)
                 PROVE  FALSE
      BY <1>1 DEF Pending
    <3>1. remote[r][p] # <<>>
      OBVIOUS
    <3> QED BY <3>1 DEF Answer, Open
  <2> QED BY <1>2, <1>7, <2>1, <2>2 DEF Kept, Tallied
<1>9. Complete(r)'
  BY <1>2, <1>7 DEF Kept, Complete, WasRead
<1> QED BY <1>3, <1>4, <1>5, <1>6, <1>8, <1>9 DEF Kept

\* A forward begins.
LEMMA KeptForward ==
    ASSUME Shape, NEW r \in Requests, Kept(r), NEW t \in Nodes, Forward(r, t)
    PROVE  Shape' /\ Others(r) /\ Kept(r)'
<1>1. /\ h[r].pc = "next" /\ h'[r].pc = "wait" /\ h'[r].peer = t
      /\ h'[r].cut = h[r].cut /\ h'[r].i = h[r].i /\ h'[r].acc = h[r].acc
      /\ h'[r].fwd = h[r].fwd /\ h'[r].rej = h[r].rej /\ h'[r].over = h[r].over
      /\ UNCHANGED <<queue, copies, remote, broke>>
  BY DEF Forward, Shape, HandlerState
<1>2. /\ rpc[r][t].st = "none" /\ rpc'[r][t].st = "sent"
      /\ rpc'[r][t].i = rpc[r][t].i /\ rpc'[r][t].over = rpc[r][t].over
      /\ \A p \in Nodes \ {t} : rpc'[r][p] = rpc[r][p]
  BY DEF Forward, Shape, RpcState
<1>3. Shape'
  <2>1. h' \in [Requests -> HandlerState]
    <3> DEFINE x == [h[r] EXCEPT !.pc = "wait", !.peer = t]
    <3>1. x \in HandlerState
      BY FieldTypes DEF HandlerState
    <3>2. h' = [h EXCEPT ![r] = x]
      BY DEF Forward
    <3> HIDE DEF x
    <3> QED BY <3>1, <3>2 DEF Shape
  <2>2. rpc' \in [Requests -> [Nodes -> RpcState]]
    <3> DEFINE x == [rpc[r][t] EXCEPT !.st = "sent"]
    <3>1. x \in RpcState
      BY FieldTypes DEF RpcState
    <3>2. rpc' = [rpc EXCEPT ![r][t] = x]
      BY DEF Forward
    <3> HIDE DEF x
    <3> QED BY <3>1, <3>2 DEF Shape
  <2> QED BY <1>1, <2>1, <2>2 DEF Shape
<1>4. Others(r)
  BY <1>1 DEF Forward, Others, Same, Shape
<1>5. Staged(r)'
  BY <1>1 DEF Kept, Staged
<1>6. Forwarded(r)'
  <2>1. ASSUME NEW p \in Nodes
        PROVE  /\ rpc'[r][p].i <= Len(remote[r][p])
               /\ rpc'[r][p].st = "none" => rpc'[r][p] = NoRpc /\ <<r, p>> \notin broke
               /\ rpc'[r][p].st = "sent" => <<r, p>> \in broke \/ t = p
               /\ rpc'[r][p].st = "answered" => rpc'[r][p].i = Len(remote[r][p])
               /\ rpc'[r][p].st = "lost" => rpc'[r][p].i = 0
    <3>1. CASE p = t
      BY <1>2, <3>1 DEF Kept, Forwarded
    <3>2. CASE p # t
      BY <1>1, <1>2, <3>2 DEF Kept, Forwarded
    <3> QED BY <3>1, <3>2
  <2>2. <<r, t>> \notin broke
    BY <1>2 DEF Kept, Forwarded
  <2> QED BY <1>1, <1>2, <2>1, <2>2 DEF Forwarded
<1>7. Copied(r)'
  <2>1. \A p \in Nodes : rpc'[r][p].i = rpc[r][p].i /\ rpc'[r][p].over = rpc[r][p].over
    BY <1>2
  <2>2. \A p \in Nodes : Fallback(r, p) => Fallback(r, p)'
    <3>1. <<r, t>> \notin broke /\ ~Refused(r, t)
      BY <1>2 DEF Kept, Forwarded, Refused
    <3> QED BY <1>1, <1>2, <3>1 DEF Fallback, Refused
  <2> QED BY <1>1, <2>1, <2>2, ValidFacts DEF Kept, Copied
<1>8. Own(r)' = Own(r) /\ Away(r)' = Away(r) /\ Pending(r)' = Pending(r)
  <2>1. Own(r)' = Own(r)
    BY <1>1 DEF Own
  <2>2. ASSUME NEW p \in Nodes
        PROVE  /\ Confirmed(r, p)' <=> Confirmed(r, p)
               /\ \A k \in 1..Len(remote[r][p]) : Open(r, p, k)' <=> Open(r, p, k)
    BY <1>1, <1>2 DEF Confirmed, Open
  <2>3. Away(r)' = Away(r)
    BY <1>1, <2>2 DEF Away
  <2>4. Pending(r)' = Pending(r)
    BY <1>1, <2>2 DEF Pending
  <2> QED BY <2>1, <2>3, <2>4
<1>9. Tallied(r)' /\ Complete(r)'
  BY <1>1, <1>8 DEF Kept, Tallied, Total, Complete, WasRead
<1> QED BY <1>3, <1>4, <1>5, <1>6, <1>7, <1>9 DEF Kept

\* The peer took its group: it leaves the pending lines and is confirmed.
LEMMA KeptTaken ==
    ASSUME Shape, NEW r \in Requests, Kept(r), ForwardOK(r)
    PROVE  Shape' /\ Others(r) /\ Kept(r)'
<1> DEFINE t == h[r].peer
           n == Len(remote[r][t])
           f == h[r].fwd + n
<1>1. /\ h[r].pc = "wait" /\ rpc[r][t].st = "answered" /\ ~rpc[r][t].over
      /\ t \in Nodes /\ n \in Nat /\ f \in Nat
      /\ UNCHANGED <<queue, copies, remote, rpc, broke>>
      /\ h' = [h EXCEPT ![r].pc = "next", ![r].fwd = f]
  BY FieldTypes DEF ForwardOK
<1>2. /\ h'[r].pc = "next" /\ h'[r].peer = t
      /\ h'[r].cut = h[r].cut /\ h'[r].i = h[r].i /\ h'[r].acc = h[r].acc
      /\ h'[r].fwd = f /\ h'[r].rej = h[r].rej /\ h'[r].over = h[r].over
  <2> HIDE DEF f
  <2> QED BY <1>1 DEF Shape, HandlerState
<1>3. Shape'
  <2>1. h' \in [Requests -> HandlerState]
    <3> HIDE DEF f
    <3> DEFINE x == [h[r] EXCEPT !.pc = "next", !.fwd = f]
    <3>1. x \in HandlerState
      BY <1>1, FieldTypes DEF HandlerState
    <3>2. h' = [h EXCEPT ![r] = x]
      BY <1>1
    <3> HIDE DEF x
    <3> QED BY <3>1, <3>2 DEF Shape
  <2> QED BY <1>1, <2>1 DEF Shape
<1>4. Others(r)
  <2>1. \A q \in Requests \ {r} : h'[q] = h[q]
    BY <1>1 DEF Shape
  <2> QED BY <1>1, <2>1 DEF Others, Same
<1>5. Staged(r)' /\ Forwarded(r)' /\ Copied(r)'
  <2>1. Staged(r)'
    BY <1>1, <1>2 DEF Kept, Staged
  <2>2. \A p \in Nodes : rpc[r][p].st = "sent" => <<r, p>> \in broke
    BY <1>1 DEF Kept, Forwarded
  <2>3. Forwarded(r)'
    BY <1>1, <1>2, <2>2 DEF Kept, Forwarded
  <2>4. Copied(r)'
    <3>1. \A p \in Nodes : Fallback(r, p) => Fallback(r, p)'
      BY <1>1, <1>2 DEF Fallback, Refused
    <3> QED BY <1>1, <1>2, <3>1, ValidFacts DEF Kept, Copied
  <2> QED BY <2>1, <2>3, <2>4
<1>6. Own(r)' = Own(r)
  BY <1>1 DEF Own
<1>7. Group(r, t) \subseteq Pending(r) /\ Pending(r)' = Pending(r) \ Group(r, t)
  <2>1. Group(r, t) \subseteq EventsOf(r) /\ \A e \in Group(r, t) : Owner(e) = t
    BY <1>1 DEF Kept, Staged, Group, Valid
  <2>2. Group(r, t) \subseteq Pending(r)
    BY <1>1, <2>1 DEF Group, Pending, Open
  <2>3. ASSUME NEW p \in Nodes, NEW k \in 1..Len(remote[r][p])
        PROVE  Open(r, p, k)' <=> Open(r, p, k) /\ p # t
    BY <1>1, <1>2 DEF Open
  <2>4. \A p \in Nodes \ {t} : \A k \in 1..Len(remote[r][p]) : remote[r][p][k] \notin Group(r, t)
    BY <2>1 DEF Kept, Staged
  <2>5. ASSUME NEW e \in EventsOf(r) PROVE e \in Pending(r)' <=> e \in Pending(r) \ Group(r, t)
    <3>1. ASSUME e \in Pending(r)' PROVE e \in Pending(r) \ Group(r, t)
      BY <1>1, <2>3, <2>4, <3>1 DEF Pending
    <3>2. ASSUME e \in Pending(r) \ Group(r, t) PROVE e \in Pending(r)'
      <4>1. PICK p \in Nodes : \E k \in 1..Len(remote[r][p]) :
               Open(r, p, k) /\ remote[r][p][k] = e
        BY <3>2 DEF Pending
      <4>2. p # t
        BY <3>2, <4>1 DEF Group
      <4> QED BY <1>1, <2>3, <4>1, <4>2 DEF Pending
    <3> QED BY <3>1, <3>2
  <2> QED BY <2>2, <2>5, SetsFinite DEF Pending
<1>8. Cardinality(Pending(r)') = Cardinality(Pending(r)) - n
  <2>1. IsFiniteSet(Pending(r)) /\ Cardinality(Group(r, t)) = n
    BY <1>1, SetsFinite, GroupSize DEF Kept
  <2>2. Pending(r) \cap Group(r, t) = Group(r, t)
    BY <1>7
  <2> HIDE DEF n
  <2> QED BY <1>7, <2>1, <2>2, FS_Difference
<1>9. Away(r)' = Away(r) \cup Group(r, t) /\ Away(r) \cap Group(r, t) = {}
  <2>1. Group(r, t) \subseteq EventsOf(r)
    BY <1>1 DEF Kept, Staged, Group, Valid
  <2>2. <<r, t>> \notin broke
    BY <1>1 DEF Kept, Forwarded
  <2>3. ASSUME NEW p \in Nodes PROVE Confirmed(r, p)' <=> Confirmed(r, p) \/ p = t
    BY <1>1, <1>2, <2>2 DEF Confirmed
  <2>4. ~Confirmed(r, t)
    BY <1>1 DEF Confirmed
  <2>5. \A p \in Nodes \ {t} : \A k \in 1..Len(remote[r][p]) : remote[r][p][k] \notin Group(r, t)
    BY <1>1 DEF Kept, Staged, Group
  <2>6. Away(r)' = Away(r) \cup Group(r, t)
    BY <1>1, <2>1, <2>3 DEF Away, Group
  <2>7. Away(r) \cap Group(r, t) = {}
    BY <2>4, <2>5 DEF Away
  <2> QED BY <2>6, <2>7
<1>10. Cardinality(Away(r)') = Cardinality(Away(r)) + n
  <2>1. IsFiniteSet(Away(r)) /\ IsFiniteSet(Group(r, t)) /\ Cardinality(Group(r, t)) = n
        /\ Cardinality(Away(r)) \in Nat
    BY <1>1, SetsFinite, GroupSize DEF Kept
  <2> HIDE DEF n
  <2>2. Cardinality(Away(r) \cup Group(r, t)) = Cardinality(Away(r)) + n - Cardinality({})
    BY <1>9, <2>1, FS_Union
  <2> QED BY <1>1, <1>9, <2>1, <2>2, FS_EmptySet
<1>11. Tallied(r)'
  <2>1. Total(r)' = Total(r)
    <3> DEFINE card == Cardinality(Pending(r))
    <3>1. card \in Nat /\ card' = card - n
      BY <1>8, SetsFinite
    <3>2. /\ Total(r) = h[r].acc + h[r].fwd + h[r].rej + card
          /\ Total(r)' = h'[r].acc + h'[r].fwd + h'[r].rej + card'
      BY DEF Total
    <3>3. h[r].acc \in Nat /\ h[r].fwd \in Nat /\ h[r].rej \in Nat
      BY FieldTypes
    <3> HIDE DEF n, card
    <3> QED BY <1>1, <1>2, <3>1, <3>2, <3>3
  <2>2. h'[r].fwd = Cardinality(Away(r)')
    <3> HIDE DEF n
    <3> QED BY <1>2, <1>10, FieldTypes DEF Kept, Tallied
  <2> QED BY <1>1, <1>2, <1>6, <2>1, <2>2 DEF Kept, Tallied
<1>12. Complete(r)'
  BY <1>1, <1>2, <1>6, <1>7, <1>9 DEF Kept, Complete, WasRead
<1> QED BY <1>3, <1>4, <1>5, <1>11, <1>12 DEF Kept


\* The peer refused the end of its group: like a failed forward, it is now to be
\* processed locally, since StatusError tells no status.
LEMMA KeptRefused ==
    ASSUME Shape, NEW r \in Requests, Kept(r), ForwardRefused(r)
    PROVE  Shape' /\ Others(r) /\ Kept(r)'
<1> DEFINE t == h[r].peer
<1>0. ~peerStatus(StatusError)
  BY DEF peerStatus, StatusError
<1>1. /\ h[r].pc = "wait" /\ t \in Nodes /\ rpc[r][t].st = "answered" /\ rpc[r][t].over
      /\ h' = [h EXCEPT ![r].pc = "local", ![r].i = 0]
      /\ UNCHANGED <<queue, copies, remote, rpc, broke>>
  BY <1>0, FieldTypes DEF ForwardRefused
<1>2. /\ h'[r].pc = "local" /\ h'[r].peer = t /\ h'[r].i = 0
      /\ h'[r].cut = h[r].cut /\ h'[r].acc = h[r].acc
      /\ h'[r].fwd = h[r].fwd /\ h'[r].rej = h[r].rej /\ h'[r].over = h[r].over
  BY <1>1 DEF Shape, HandlerState
<1>3. Shape'
  <2> DEFINE x == [h[r] EXCEPT !.pc = "local", !.i = 0]
  <2>1. x \in HandlerState
    BY FieldTypes DEF HandlerState
  <2>2. h' = [h EXCEPT ![r] = x]
    BY <1>1
  <2>3. h' \in [Requests -> HandlerState]
    <3> HIDE DEF x
    <3> QED BY <2>1, <2>2 DEF Shape
  <2> QED BY <1>1, <2>3 DEF Shape
<1>4. Others(r)
  BY <1>1 DEF Others, Same, Shape
<1>5. /\ ~Fallback(r, t) /\ Fallback(r, t)'
      /\ \A p \in Nodes : Fallback(r, p) => Fallback(r, p)'
  BY <1>1, <1>2 DEF Kept, Forwarded, Fallback, Refused
<1>6. Staged(r)'
  BY <1>1, <1>2 DEF Kept, Staged
<1>7. Forwarded(r)'
  <2>1. \A p \in Nodes : rpc[r][p].st = "sent" => <<r, p>> \in broke
    BY <1>1 DEF Kept, Forwarded
  <2>2. 0 <= Len(remote[r][t])
    BY <1>1, FieldTypes
  <2> QED BY <1>1, <1>2, <1>5, <2>1, <2>2 DEF Kept, Forwarded
<1>8. Copied(r)'
  <2>1. ASSUME NEW e \in Valid(r), ~Self(e), Owner(e) = t PROVE copies[e][At[r]] # 1
    BY <1>5, <2>1, ValidFacts DEF Kept, Copied
  <2> QED BY <1>1, <1>2, <1>5, <2>1, ValidFacts DEF Kept, Copied
<1>9. Own(r)' = Own(r) /\ Away(r)' = Away(r) /\ Pending(r)' = Pending(r)
  <2>1. Own(r)' = Own(r)
    BY <1>1 DEF Own
  <2>2. ASSUME NEW p \in Nodes PROVE Confirmed(r, p)' <=> Confirmed(r, p)
    BY <1>1, <1>2 DEF Confirmed
  <2>3. ASSUME NEW p \in Nodes, NEW k \in 1..Len(remote[r][p])
        PROVE  Open(r, p, k)' <=> Open(r, p, k)
    BY <1>1, <1>2, FieldTypes DEF Open
  <2>4. Away(r)' = Away(r)
    BY <1>1, <2>2 DEF Away
  <2>5. Pending(r)' = Pending(r)
    BY <1>1, <2>3 DEF Pending
  <2> QED BY <2>1, <2>4, <2>5
<1>10. Tallied(r)' /\ Complete(r)'
  BY <1>1, <1>2, <1>9 DEF Kept, Tallied, Total, Complete, WasRead
<1> QED BY <1>3, <1>4, <1>6, <1>7, <1>8, <1>10 DEF Kept
\* A forward fails in transport: its group is now to be processed locally.
LEMMA KeptFails ==
    ASSUME Shape, NEW r \in Requests, Kept(r), ForwardFails(r)
    PROVE  Shape' /\ Others(r) /\ Kept(r)'
<1> DEFINE t == h[r].peer
<1>1. /\ h[r].pc = "wait" /\ t \in Nodes
      /\ h' = [h EXCEPT ![r].pc = "local", ![r].i = 0]
      /\ broke' = broke \cup {<<r, t>>}
      /\ UNCHANGED <<queue, copies, remote>>
  BY FieldTypes DEF ForwardFails
<1>2. /\ h'[r].pc = "local" /\ h'[r].peer = t /\ h'[r].i = 0
      /\ h'[r].cut = h[r].cut /\ h'[r].acc = h[r].acc
      /\ h'[r].fwd = h[r].fwd /\ h'[r].rej = h[r].rej /\ h'[r].over = h[r].over
  BY <1>1 DEF Shape, HandlerState
<1>3. /\ rpc'[r][t].i = rpc[r][t].i /\ rpc'[r][t].over = rpc[r][t].over
      /\ \/ rpc'[r][t].st = rpc[r][t].st
         \/ rpc'[r][t].st = "lost" /\ rpc[r][t].i = 0
      /\ \A p \in Nodes \ {t} : rpc'[r][p] = rpc[r][p]
      /\ \A q \in Requests \ {r} : rpc'[q] = rpc[q]
      /\ rpc' \in [Requests -> [Nodes -> RpcState]]
  <2>1. CASE rpc' = rpc
    BY <2>1 DEF Shape
  <2>2. CASE /\ rpc[r][t] = [NoRpc EXCEPT !.st = "sent"]
             /\ rpc' = [rpc EXCEPT ![r][t].st = "lost"]
    <3> DEFINE x == [rpc[r][t] EXCEPT !.st = "lost"]
    <3>1. /\ x \in RpcState /\ x.i = rpc[r][t].i /\ x.over = rpc[r][t].over
          /\ x.st = "lost"
      BY <1>1, FieldTypes DEF RpcState
    <3>2. rpc' = [rpc EXCEPT ![r][t] = x]
      BY <2>2
    <3>3. rpc[r][t].i = 0
      BY <2>2 DEF NoRpc
    <3> HIDE DEF x
    <3> QED BY <1>1, <3>1, <3>2, <3>3 DEF Shape
  <2> QED BY <2>1, <2>2 DEF ForwardFails
<1>4. Shape'
  <2> DEFINE x == [h[r] EXCEPT !.pc = "local", !.i = 0]
  <2>1. x \in HandlerState
    BY FieldTypes DEF HandlerState
  <2>2. h' = [h EXCEPT ![r] = x]
    BY <1>1
  <2>3. broke' \subseteq Requests \X Nodes
    BY <1>1 DEF Shape
  <2>4. h' \in [Requests -> HandlerState]
    <3> HIDE DEF x
    <3> QED BY <2>1, <2>2 DEF Shape
  <2> QED BY <1>1, <1>3, <2>3, <2>4 DEF Shape
<1>5. Others(r)
  BY <1>1, <1>3 DEF Others, Same, Shape
<1>6. /\ <<r, t>> \notin broke /\ rpc[r][t].st # "none"
      /\ \A p \in Nodes \ {t} : <<r, p>> \in broke' <=> <<r, p>> \in broke
      /\ \A p \in Nodes : <<r, p>> \in broke => <<r, p>> \in broke'
      /\ <<r, t>> \in broke'
  BY <1>1 DEF Kept, Forwarded
<1>7. Staged(r)'
  BY <1>1, <1>2 DEF Kept, Staged
<1>8. Forwarded(r)'
  <2>1. ASSUME NEW p \in Nodes
        PROVE  /\ rpc'[r][p].i <= Len(remote[r][p])
               /\ rpc'[r][p].st = "none" => rpc'[r][p] = NoRpc /\ <<r, p>> \notin broke'
               /\ rpc'[r][p].st = "sent" => <<r, p>> \in broke'
               /\ rpc'[r][p].st = "answered" => rpc'[r][p].i = Len(remote[r][p])
               /\ rpc'[r][p].st = "lost" => rpc'[r][p].i = 0
    <3>1. CASE p = t
      BY <1>3, <1>6, <3>1 DEF Kept, Forwarded
    <3>2. CASE p # t
      BY <1>1, <1>3, <1>6, <3>2 DEF Kept, Forwarded
    <3> QED BY <3>1, <3>2
  <2>2. rpc'[r][t].st # "none" /\ 0 <= Len(remote[r][t])
    BY <1>1, <1>3, <1>6, FieldTypes
  <2>3. Fallback(r, t)'
    BY <1>2, <1>6 DEF Fallback
  <2> QED BY <1>1, <1>2, <1>6, <2>1, <2>2, <2>3 DEF Forwarded
<1>9. Copied(r)'
  <2>1. \A p \in Nodes : rpc'[r][p].i = rpc[r][p].i /\ rpc'[r][p].over = rpc[r][p].over
    BY <1>3
  <2>2. ASSUME NEW e \in Valid(r), ~Self(e), Owner(e) = t PROVE copies[e][At[r]] # 1
    <3>1. ~Fallback(r, t)
      BY <1>1, <1>6 DEF Fallback
    <3> QED BY <2>2, <3>1, ValidFacts DEF Kept, Copied
  <2>3. ASSUME NEW e \in EventsOf(r), NEW n \in Nodes
        PROVE  /\ copies[e][n] \in {0, 1}
               /\ copies[e][n] = 1 =>
                     /\ e \in Valid(r)
                     /\ n = Owner(e) \/ (n = At[r] /\ Fallback(r, Owner(e))')
    <3>1. \A p \in Nodes : Fallback(r, p) => Fallback(r, p)'
      BY <1>2, <1>3, <1>6 DEF Fallback, Refused
    <3> QED BY <3>1, ValidFacts DEF Kept, Copied
  <2> QED BY <1>1, <1>2, <2>1, <2>2, <2>3, ValidFacts DEF Kept, Copied
<1>10. Own(r)' = Own(r) /\ Away(r)' = Away(r) /\ Pending(r)' = Pending(r)
  <2>1. Own(r)' = Own(r)
    BY <1>1 DEF Own
  <2>2. ASSUME NEW p \in Nodes PROVE Confirmed(r, p)' <=> Confirmed(r, p)
    BY <1>1, <1>2, <1>3, <1>6 DEF Confirmed
  <2>3. ASSUME NEW p \in Nodes, NEW k \in 1..Len(remote[r][p])
        PROVE  Open(r, p, k)' <=> Open(r, p, k)
    BY <1>1, <1>2, <1>3, FieldTypes DEF Open
  <2>4. Away(r)' = Away(r)
    BY <1>1, <2>2 DEF Away
  <2>5. Pending(r)' = Pending(r)
    BY <1>1, <2>3 DEF Pending
  <2> QED BY <2>1, <2>4, <2>5
<1>11. Tallied(r)' /\ Complete(r)'
  BY <1>1, <1>2, <1>10 DEF Kept, Tallied, Total, Complete, WasRead
<1> QED BY <1>4, <1>5, <1>7, <1>8, <1>9, <1>11 DEF Kept

\* The peer deals with the next forwarded line.
LEMMA KeptPeerLine ==
    ASSUME Shape, NEW r \in Requests, Kept(r), NEW t \in Nodes, PeerLine(r, t)
    PROVE  Shape' /\ Others(r) /\ Kept(r)'
<1> DEFINE c == rpc[r][t]
           g == remote[r][t]
           m == c.i + 1
           e == g[m]
           taken == ~c.over /\ Room(t)
<1>1. /\ c.st = "sent" /\ c.i \in Nat /\ c.i < Len(g) /\ Len(g) \in Nat
      /\ m \in 1..Len(g) /\ g \in Seq(Events) /\ c.over \in BOOLEAN
      /\ UNCHANGED <<h, remote, broke>>
  BY FieldTypes DEF PeerLine
<1>2. e \in Valid(r) /\ e \in EventsOf(r) /\ e \in Events /\ Owner(e) = t /\ t # At[r]
  BY <1>1, ValidFacts, EventFacts DEF Kept, Staged
<1>3. /\ queue' \in [Nodes -> Seq(Events)]
      /\ copies' \in [Events -> [Nodes -> Nat]]
      /\ \A n \in Nodes : Len(queue'[n]) <= Cap
      /\ \A f \in Events, n \in Nodes :
            copies'[f][n] = IF taken /\ f = e /\ n = t THEN copies[f][n] + 1 ELSE copies[f][n]
      /\ \A q \in Requests \ {r} : \A f \in EventsOf(q) : copies'[f] = copies[f]
  <2>1. CASE c.over
    BY <2>1 DEF PeerLine, Shape
  <2>2. CASE ~c.over
    <3>1. Offer(t, e)
      BY <2>2 DEF PeerLine
    <3> HIDE DEF e
    <3> QED BY <1>2, <2>2, <3>1, OfferEffect, ShapeOffer
  <2> QED BY <1>1, <2>1, <2>2
<1>4. /\ rpc'[r][t].st = "sent" /\ rpc'[r][t].i = m
      /\ ~rpc'[r][t].over => taken
      /\ \A p \in Nodes \ {t} : rpc'[r][p] = rpc[r][p]
      /\ \A q \in Requests \ {r} : rpc'[q] = rpc[q]
      /\ rpc' \in [Requests -> [Nodes -> RpcState]]
  <2> DEFINE o == c.over \/ ~Room(t)
             x == [c EXCEPT !.i = m, !.over = o]
  <2>1. m \in Nat /\ o \in BOOLEAN /\ (~o => taken)
    BY <1>1
  <2>2. rpc' = [rpc EXCEPT ![r][t] = x]
    BY DEF PeerLine
  <2> HIDE DEF m, o
  <2>3. x \in RpcState /\ x.st = c.st /\ x.i = m /\ x.over = o
    <3>1. c \in RpcState
      BY FieldTypes
    <3> HIDE DEF c
    <3> QED BY <2>1, <3>1 DEF RpcState
  <2> HIDE DEF x
  <2> QED BY <1>1, <2>1, <2>2, <2>3 DEF Shape
<1>5. Shape' /\ Others(r)
  BY <1>1, <1>3, <1>4 DEF Shape, Others, Same
<1>6. copies[e][t] = 0
  <2>1. copies[e][t] \in {0, 1}
    BY <1>2 DEF Kept, Copied
  <2>2. ASSUME copies[e][t] = 1 PROVE FALSE
    <3>1. ~Self(e)
      BY <1>2, ValidFacts
    <3>2. PICK k \in 1..c.i : g[k] = e
      BY <1>2, <2>2, <3>1 DEF Kept, Copied
    <3>3. k \in 1..Len(g) /\ k # m
      BY <1>1
    <3> QED BY <1>1, <3>2, <3>3 DEF Kept, Staged
  <2> QED BY <2>1, <2>2
<1>7. Staged(r)'
  BY <1>1 DEF Kept, Staged
<1>8. Forwarded(r)'
  <2>1. ASSUME NEW p \in Nodes
        PROVE  /\ rpc'[r][p].i <= Len(remote[r][p])
               /\ h[r].pc = "read" => rpc'[r][p].st = "none"
               /\ rpc'[r][p].st = "none" => rpc'[r][p] = NoRpc /\ <<r, p>> \notin broke
               /\ rpc'[r][p].st = "sent" =>
                     <<r, p>> \in broke \/ (h[r].pc = "wait" /\ h[r].peer = p)
               /\ rpc'[r][p].st = "answered" => rpc'[r][p].i = Len(remote[r][p])
               /\ rpc'[r][p].st = "lost" => rpc'[r][p].i = 0
    <3>1. CASE p = t
      BY <1>1, <1>4, <3>1 DEF Kept, Forwarded
    <3>2. CASE p # t
      BY <1>4, <3>2 DEF Kept, Forwarded
    <3> QED BY <3>1, <3>2
  <2>2. \A p \in Nodes : rpc'[r][p].st = rpc[r][p].st
    BY <1>1, <1>4
  <2>3. h[r].peer \in Nodes
    BY FieldTypes
  <2>4. \A p \in Nodes : Fallback(r, p) => Fallback(r, p)'
    BY <1>1, <1>4 DEF Fallback, Refused
  <2> QED BY <1>1, <2>1, <2>2, <2>3, <2>4 DEF Kept, Forwarded
<1>9. Copied(r)'
  <2>1. ASSUME NEW f \in EventsOf(r), NEW n \in Nodes
        PROVE  /\ copies'[f][n] \in {0, 1}
               /\ copies'[f][n] = 1 =>
                     /\ f \in Valid(r)
                     /\ n = Owner(f) \/ (n = At[r] /\ Fallback(r, Owner(f)))
    <3>1. CASE taken /\ f = e /\ n = t
      <4> HIDE DEF e, taken
      <4>1. copies'[f][n] = 1
        BY <1>2, <1>3, <1>6, <3>1
      <4> QED BY <1>2, <3>1, <4>1
    <3>2. CASE ~(taken /\ f = e /\ n = t)
      <4>1. copies'[f][n] = copies[f][n]
        BY <1>3, <3>2, EventFacts
      <4> QED BY <4>1 DEF Kept, Copied
    <3> QED BY <3>1, <3>2
  <2>2. \A f \in EventsOf(r) : copies'[f][At[r]] = copies[f][At[r]]
    <3>1. At[r] \in Nodes /\ EventsOf(r) \subseteq Events
      BY EventFacts, FieldTypes
    <3> HIDE DEF e, taken
    <3> QED BY <1>2, <1>3, <3>1
  <2>3. ASSUME NEW f \in Valid(r), ~Self(f), copies'[f][Owner(f)] = 1
        PROVE  \E k \in 1..rpc'[r][Owner(f)].i : remote[r][Owner(f)][k] = f
    <3>1. CASE f = e
      <4>1. Owner(f) = t /\ remote[r][t][m] = f /\ rpc'[r][t].i = m
        BY <1>2, <1>4, <3>1
      <4>2. m \in 1..m
        BY <1>1
      <4> HIDE DEF m
      <4> QED BY <4>1, <4>2
    <3>2. CASE f # e
      <4>1. copies[f][Owner(f)] = 1
        BY <1>3, <2>3, <3>2, EventFacts, ValidFacts
      <4>2. PICK k \in 1..rpc[r][Owner(f)].i : remote[r][Owner(f)][k] = f
        BY <2>3, <4>1 DEF Kept, Copied
      <4>3. k \in 1..rpc'[r][Owner(f)].i
        BY <1>1, <1>4, ValidFacts
      <4> QED BY <4>2, <4>3
    <3> QED BY <3>1, <3>2
  <2>4. ASSUME NEW p \in Nodes, ~rpc'[r][p].over, NEW k \in 1..rpc'[r][p].i
        PROVE  copies'[remote[r][p][k]][p] = 1
    <3>1. CASE p = t /\ k = m
      <4>1. taken
        BY <1>4, <2>4, <3>1
      <4> QED BY <1>2, <1>3, <1>6, <3>1, <4>1
    <3>2. CASE ~(p = t /\ k = m)
      <4>1. k \in 1..rpc[r][p].i /\ ~rpc[r][p].over
        BY <1>1, <1>4, <2>4, <3>2
      <4>2. copies[remote[r][p][k]][p] = 1
        BY <4>1 DEF Kept, Copied
      <4>3. k \in 1..Len(remote[r][p])
        <5>1. rpc[r][p].i \in Nat /\ Len(remote[r][p]) \in Nat
          BY FieldTypes
        <5>2. rpc[r][p].i <= Len(remote[r][p])
          BY DEF Kept, Forwarded
        <5> QED BY <4>1, <5>1, <5>2
      <4>4. remote[r][p][k] \in Events
        BY <4>3, ValidFacts, EventFacts DEF Kept, Staged
      <4>5. ~(remote[r][p][k] = e /\ p = t)
        BY <1>1, <3>2, <4>3 DEF Kept, Staged
      <4> QED BY <1>3, <4>2, <4>4, <4>5
    <3> QED BY <3>1, <3>2
  <2>5. \A p \in Nodes : Fallback(r, p) => Fallback(r, p)'
    BY <1>1, <1>4 DEF Fallback, Refused
  <2> QED BY <1>1, <2>1, <2>2, <2>3, <2>4, <2>5, ValidFacts DEF Kept, Copied
<1>10. Own(r)' = Own(r) /\ Away(r)' = Away(r) /\ Pending(r)' = Pending(r)
  <2>1. Own(r)' = Own(r)
    <3>1. At[r] \in Nodes /\ EventsOf(r) \subseteq Events
      BY EventFacts, FieldTypes
    <3> HIDE DEF e, taken
    <3> QED BY <1>2, <1>3, <3>1 DEF Own
  <2>2. ASSUME NEW p \in Nodes
        PROVE  /\ Confirmed(r, p)' <=> Confirmed(r, p)
               /\ \A k \in 1..Len(remote[r][p]) : Open(r, p, k)' <=> Open(r, p, k)
    BY <1>1, <1>4 DEF Confirmed, Open
  <2>3. Away(r)' = Away(r)
    BY <1>1, <2>2 DEF Away
  <2>4. Pending(r)' = Pending(r)
    BY <1>1, <2>2 DEF Pending
  <2> QED BY <2>1, <2>3, <2>4
<1>11. Tallied(r)' /\ Complete(r)'
  BY <1>1, <1>10 DEF Kept, Tallied, Total, Complete, WasRead
<1> QED BY <1>5, <1>7, <1>8, <1>9, <1>11 DEF Kept

\* The peer answers.
LEMMA KeptPeerAnswer ==
    ASSUME Shape, NEW r \in Requests, Kept(r), NEW t \in Nodes, PeerAnswer(r, t)
    PROVE  Shape' /\ Others(r) /\ Kept(r)'
<1>1. /\ rpc[r][t].st = "sent" /\ rpc[r][t].i = Len(remote[r][t])
      /\ UNCHANGED <<queue, copies, h, remote, broke>>
  BY DEF PeerAnswer
<1>2. /\ rpc'[r][t].st = "answered" /\ rpc'[r][t].i = rpc[r][t].i
      /\ rpc'[r][t].over = rpc[r][t].over
      /\ \A p \in Nodes \ {t} : rpc'[r][p] = rpc[r][p]
      /\ \A q \in Requests \ {r} : rpc'[q] = rpc[q]
      /\ rpc' \in [Requests -> [Nodes -> RpcState]]
  <2> DEFINE x == [rpc[r][t] EXCEPT !.st = "answered"]
  <2>1. rpc' = [rpc EXCEPT ![r][t] = x]
    BY DEF PeerAnswer
  <2>2. /\ x \in RpcState /\ x.st = "answered" /\ x.i = rpc[r][t].i
        /\ x.over = rpc[r][t].over
    BY FieldTypes DEF RpcState
  <2> HIDE DEF x
  <2> QED BY <2>1, <2>2 DEF Shape
<1>3. Shape' /\ Others(r)
  BY <1>1, <1>2 DEF Shape, Others, Same
<1>4. Staged(r)'
  BY <1>1 DEF Kept, Staged
<1>5. <<r, t>> \in broke \/ (h[r].pc = "wait" /\ h[r].peer = t)
  BY <1>1 DEF Kept, Forwarded
<1>6. Forwarded(r)'
  <2>1. ASSUME NEW p \in Nodes
        PROVE  /\ rpc'[r][p].i <= Len(remote[r][p])
               /\ h[r].pc = "read" => rpc'[r][p].st = "none"
               /\ rpc'[r][p].st = "none" => rpc'[r][p] = NoRpc /\ <<r, p>> \notin broke
               /\ rpc'[r][p].st = "sent" =>
                     <<r, p>> \in broke \/ (h[r].pc = "wait" /\ h[r].peer = p)
               /\ rpc'[r][p].st = "answered" => rpc'[r][p].i = Len(remote[r][p])
               /\ rpc'[r][p].st = "lost" => rpc'[r][p].i = 0
    <3>1. CASE p = t
      BY <1>1, <1>2, <3>1 DEF Kept, Forwarded
    <3>2. CASE p # t
      BY <1>2, <3>2 DEF Kept, Forwarded
    <3> QED BY <3>1, <3>2
  <2>2. h[r].peer \in Nodes
    BY FieldTypes
  <2>3. \A p \in Nodes : Fallback(r, p) => Fallback(r, p)'
    BY <1>1, <1>2 DEF Fallback, Refused
  <2> QED BY <1>1, <1>2, <2>1, <2>2, <2>3 DEF Kept, Forwarded
<1>7. Copied(r)'
  <2>1. \A p \in Nodes : rpc'[r][p].i = rpc[r][p].i /\ rpc'[r][p].over = rpc[r][p].over
    BY <1>2
  <2>2. \A p \in Nodes : Fallback(r, p) => Fallback(r, p)'
    BY <1>1, <1>2 DEF Fallback, Refused
  <2> QED BY <1>1, <2>1, <2>2, ValidFacts DEF Kept, Copied
<1>8. Own(r)' = Own(r) /\ Away(r)' = Away(r) /\ Pending(r)' = Pending(r)
  <2>1. Own(r)' = Own(r)
    BY <1>1 DEF Own
  <2>2. ASSUME NEW p \in Nodes
        PROVE  /\ Confirmed(r, p)' <=> Confirmed(r, p)
               /\ \A k \in 1..Len(remote[r][p]) : Open(r, p, k)' <=> Open(r, p, k)
    BY <1>1, <1>2, <1>5 DEF Confirmed, Open
  <2>3. Away(r)' = Away(r)
    BY <1>1, <2>2 DEF Away
  <2>4. Pending(r)' = Pending(r)
    BY <1>1, <2>2 DEF Pending
  <2> QED BY <2>1, <2>3, <2>4
<1>9. Tallied(r)' /\ Complete(r)'
  BY <1>1, <1>8 DEF Kept, Tallied, Total, Complete, WasRead
<1> QED BY <1>3, <1>4, <1>6, <1>7, <1>9 DEF Kept

\* A request has as many events as lines, and no group has more.
LEMMA GroupBound ==
    ASSUME Shape, NEW r \in Requests, Staged(r), NEW p \in Nodes
    PROVE  /\ Cardinality(EventsOf(r)) = Len(Body[r])
           /\ Len(remote[r][p]) <= Len(Body[r])
<1> DEFINE n == Len(Body[r])
           f == [j \in 1..n |-> <<r, j>>]
           E == EventsOf(r)
<1>1. n \in Nat
  BY EventFacts
<1>2. f \in Bijection(1..n, E)
  <2>1. f \in [1..n -> E]
    BY EventFacts
  <2>2. \A j, k \in 1..n : f[j] = f[k] => j = k
    OBVIOUS
  <2>3. \A v \in E : \E k \in 1..n : f[k] = v
    BY EventFacts
  <2> HIDE DEF f, n, E
  <2> QED BY <2>1, <2>2, <2>3, Fun_IsBij
<1>3. Cardinality(E) = n
  <2> HIDE DEF f, n, E
  <2>1. IsFiniteSet(1..n) /\ Cardinality(1..n) = n
    BY <1>1, FS_Interval
  <2> QED BY <1>2, <2>1, FS_Bijection DEF ExistsBijection
<1>4. Group(r, p) \subseteq E
  BY GroupSize, ValidFacts
<1>5. Cardinality(Group(r, p)) <= Cardinality(E)
  BY <1>4, EventsFinite, FS_Subset
<1> QED BY <1>3, <1>5, GroupSize

\* The next line of a group whose forward failed is offered to the own pipeline.
LEMMA KeptLocal ==
    ASSUME Shape, NEW r \in Requests, Kept(r), ProcessLocally(r)
    PROVE  Shape' /\ Others(r) /\ Kept(r)'
<1> DEFINE t == h[r].peer
           g == remote[r][t]
           m == h[r].i + 1
           e == g[m]
           taken == Room(At[r])
           y == Counted([h[r] EXCEPT !.i = @ + 1], At[r])
<1>1. /\ h[r].pc = "local" /\ t \in Nodes /\ At[r] \in Nodes
      /\ h[r].i \in Nat /\ h[r].i < Len(g) /\ Len(g) \in Nat
      /\ m \in Nat /\ m \in 1..Len(g) /\ g \in Seq(Events)
      /\ UNCHANGED <<remote, rpc, broke>>
  BY FieldTypes DEF ProcessLocally
<1>2. /\ e \in Valid(r) /\ e \in EventsOf(r) /\ e \in Events
      /\ Owner(e) = t /\ t # At[r] /\ ~Self(e)
  BY <1>1, ValidFacts, EventFacts DEF Kept, Staged
<1>3. Offer(At[r], e) /\ h' = [h EXCEPT ![r] = y]
  <2>1. [h[r] EXCEPT !.i = @ + 1].i = m
    BY FieldTypes DEF HandlerState
  <2> QED BY <2>1 DEF ProcessLocally
<1>4. /\ y \in HandlerState /\ y.i = m
      /\ y.pc = "local" /\ y.fwd = h[r].fwd /\ y.cut = h[r].cut /\ y.peer = t
      /\ taken => y.acc = h[r].acc + 1 /\ y.rej = h[r].rej /\ y.over = h[r].over
      /\ ~taken => y.acc = h[r].acc /\ y.rej = h[r].rej + 1 /\ y.over = TRUE
  <2>1. h[r] \in HandlerState
    BY FieldTypes
  <2> HIDE DEF taken
  <2> QED BY <1>1, <2>1, CountedEffect DEF taken
<1> HIDE DEF y
<1>5. h'[r] = y /\ h' \in [Requests -> HandlerState] /\ \A q \in Requests \ {r} : h'[q] = h[q]
  BY <1>3, <1>4 DEF Shape
<1>6. /\ queue' \in [Nodes -> Seq(Events)]
      /\ copies' \in [Events -> [Nodes -> Nat]]
      /\ \A n \in Nodes : Len(queue'[n]) <= Cap
      /\ \A f \in Events, n \in Nodes :
            copies'[f][n] = IF taken /\ f = e /\ n = At[r]
                            THEN copies[f][n] + 1 ELSE copies[f][n]
      /\ \A q \in Requests \ {r} : \A f \in EventsOf(q) : copies'[f] = copies[f]
  <2> HIDE DEF e
  <2> QED BY <1>1, <1>2, <1>3, OfferEffect, ShapeOffer
<1>7. Shape' /\ Others(r)
  BY <1>1, <1>5, <1>6 DEF Shape, Others, Same
<1>8. copies[e][At[r]] = 0
  <2>1. copies[e][At[r]] \in {0, 1}
    BY <1>1, <1>2 DEF Kept, Copied
  <2>2. ASSUME copies[e][At[r]] = 1 PROVE FALSE
    <3>1. PICK k \in 1..h[r].i : g[k] = e
      BY <1>1, <1>2, <2>2 DEF Kept, Copied
    <3>2. k \in 1..Len(g) /\ k # m
      BY <1>1
    <3> QED BY <1>1, <3>1, <3>2 DEF Kept, Staged
  <2> QED BY <2>1, <2>2
<1>9. Staged(r)'
  <2>1. m <= Len(Body[r])
    <3>1. Len(g) <= Len(Body[r])
      BY <1>1, GroupBound DEF Kept
    <3> HIDE DEF g
    <3> QED BY <1>1, <3>1, FieldTypes
  <2> QED BY <1>1, <1>4, <1>5, <2>1 DEF Kept, Staged
<1>f. \A p \in Nodes : Fallback(r, p)' <=> Fallback(r, p)
  BY <1>1, <1>4, <1>5 DEF Fallback, Refused
<1>10. Forwarded(r)'
  BY <1>1, <1>4, <1>5, <1>f DEF Kept, Forwarded
<1>11. \A f \in EventsOf(r), n \in Nodes :
          n # At[r] \/ f # e \/ ~taken => copies'[f][n] = copies[f][n]
  BY <1>6, EventFacts
<1>12. taken => copies'[e][At[r]] = 1
  <2> HIDE DEF e, taken
  <2> QED BY <1>1, <1>2, <1>6, <1>8
<1>13. Copied(r)'
  <2>1. ASSUME NEW f \in EventsOf(r), NEW n \in Nodes
        PROVE  /\ copies'[f][n] \in {0, 1}
               /\ copies'[f][n] = 1 =>
                     /\ f \in Valid(r)
                     /\ n = Owner(f) \/ (n = At[r] /\ Fallback(r, Owner(f)))
    <3>1. CASE taken /\ f = e /\ n = At[r]
      <4>1. Fallback(r, t)
        BY <1>1 DEF Kept, Forwarded
      <4> QED BY <1>2, <1>12, <3>1, <4>1
    <3>2. CASE ~(taken /\ f = e /\ n = At[r])
      <4>1. copies'[f][n] = copies[f][n]
        BY <1>11, <3>2
      <4> QED BY <4>1 DEF Kept, Copied
    <3> QED BY <3>1, <3>2
  <2>2. ASSUME NEW f \in Valid(r), ~Self(f), copies'[f][Owner(f)] = 1
        PROVE  \E k \in 1..rpc[r][Owner(f)].i : remote[r][Owner(f)][k] = f
    <3>1. copies[f][Owner(f)] = 1
      BY <1>11, <2>2, ValidFacts
    <3> QED BY <2>2, <3>1 DEF Kept, Copied
  <2>3. ASSUME NEW f \in Valid(r), ~Self(f), Owner(f) = t, copies'[f][At[r]] = 1
        PROVE  \E k \in 1..m : remote[r][t][k] = f
    <3>1. CASE f = e
      <4>1. m \in 1..m
        BY <1>1
      <4> QED BY <3>1, <4>1
    <3>2. CASE f # e
      <4>1. copies[f][At[r]] = 1
        BY <1>1, <1>11, <2>3, <3>2, ValidFacts
      <4>2. PICK k \in 1..h[r].i : remote[r][t][k] = f
        BY <1>1, <2>3, <4>1 DEF Kept, Copied
      <4>3. k \in 1..m
        BY <1>1
      <4> QED BY <4>2, <4>3
    <3> QED BY <3>1, <3>2
  <2>4. ASSUME NEW p \in Nodes, ~rpc[r][p].over, NEW k \in 1..rpc[r][p].i
        PROVE  copies'[remote[r][p][k]][p] = 1
    <3>1. rpc[r][p].i \in Nat /\ rpc[r][p].i <= Len(remote[r][p]) /\ Len(remote[r][p]) \in Nat
      BY FieldTypes DEF Kept, Forwarded
    <3>2. k \in 1..Len(remote[r][p])
      BY <3>1
    <3>3. remote[r][p][k] \in EventsOf(r) /\ p # At[r]
      BY <3>2, ValidFacts DEF Kept, Staged
    <3>4. copies[remote[r][p][k]][p] = 1
      BY <2>4 DEF Kept, Copied
    <3> QED BY <1>11, <3>3, <3>4
  <2>5. \A f \in Valid(r) : ~(Self(f) /\ y.pc = "read" /\ copies'[f][At[r]] = 1)
    BY <1>4
  <2> HIDE DEF e, taken, m, g
  <2> QED BY <1>1, <1>4, <1>5, <1>f, <2>1, <2>2, <2>3, <2>4, <2>5, ValidFacts DEF Copied, m
<1>14. /\ taken => Own(r)' = Own(r) \cup {e}
       /\ ~taken => Own(r)' = Own(r)
       /\ e \notin Own(r)
  <2>1. e \notin Own(r)
    BY <1>8 DEF Own
  <2>2. CASE taken
    <3>1. \A f \in EventsOf(r) : copies'[f][At[r]] = 1 <=> (copies[f][At[r]] = 1 \/ f = e)
      BY <1>1, <1>11, <1>12, <2>2
    <3> HIDE DEF e, taken
    <3> QED BY <1>2, <2>1, <2>2, <3>1 DEF Own
  <2>3. CASE ~taken
    <3>1. \A f \in EventsOf(r) : copies'[f][At[r]] = copies[f][At[r]]
      BY <1>1, <1>11, <2>3
    <3> QED BY <2>1, <2>3, <3>1 DEF Own
  <2> QED BY <2>2, <2>3
<1>15. Away(r)' = Away(r)
  <2>1. \A p \in Nodes : Confirmed(r, p)' <=> Confirmed(r, p)
    BY <1>1, <1>4, <1>5 DEF Confirmed
  <2> QED BY <1>1, <2>1 DEF Away
<1>16. Pending(r)' = Pending(r) \ {e} /\ e \in Pending(r)
  <2>1. ASSUME NEW p \in Nodes, NEW k \in 1..Len(remote[r][p])
        PROVE  Open(r, p, k)' <=> Open(r, p, k) /\ ~(p = t /\ k = m)
    <3>1. rpc[r][t].st # "none"
      BY <1>1 DEF Kept, Forwarded
    <3>2. k \in Nat
      BY FieldTypes
    <3> QED BY <1>1, <1>4, <1>5, <3>1, <3>2 DEF Open
  <2>2. Open(r, t, m)
    BY <1>1 DEF Open
  <2>3. ASSUME NEW p \in Nodes, NEW k \in 1..Len(remote[r][p])
        PROVE  remote[r][p][k] = e <=> p = t /\ k = m
    BY <1>1, <1>2 DEF Kept, Staged
  <2>4. e \in Pending(r)
    BY <1>1, <1>2, <2>2 DEF Pending
  <2>5. Pending(r)' \subseteq Pending(r) \ {e}
    <3> HIDE DEF e, m, t
    <3> QED BY <1>1, <2>1, <2>3 DEF Pending
  <2>6. Pending(r) \ {e} \subseteq Pending(r)'
    <3> HIDE DEF e, m, t
    <3> QED BY <1>1, <2>1, <2>3 DEF Pending
  <2> QED BY <2>4, <2>5, <2>6
<1>17. Tallied(r)'
  <2> DEFINE own == Cardinality(Own(r))
             card == Cardinality(Pending(r))
  <2>1. /\ own \in Nat /\ card \in Nat /\ IsFiniteSet(Own(r)) /\ IsFiniteSet(Pending(r))
    BY SetsFinite
  <2>2. card' = card - 1
    <3> HIDE DEF e
    <3> QED BY <1>16, <2>1, FS_RemoveElement
  <2>3. taken => own' = own + 1
    <3> HIDE DEF e
    <3> QED BY <1>14, <2>1, FS_AddElement
  <2>4. ~taken => own' = own
    BY <1>14
  <2>5. /\ Total(r) = h[r].acc + h[r].fwd + h[r].rej + card
        /\ Total(r)' = y.acc + y.fwd + y.rej + card'
    BY <1>5 DEF Total
  <2>6. h[r].acc \in Nat /\ h[r].fwd \in Nat /\ h[r].rej \in Nat /\ h[r].acc = own
    BY FieldTypes DEF Kept, Tallied
  <2>7. Total(r)' = Total(r) /\ y.acc = own'
    <3> HIDE DEF own, card, taken
    <3>1. CASE taken
      <4>1. y.acc = h[r].acc + 1 /\ y.rej = h[r].rej /\ y.fwd = h[r].fwd
        BY <1>4, <3>1
      <4>2. own' = own + 1
        BY <2>3, <3>1
      <4>3. y.acc = own'
        BY <2>6, <4>1, <4>2
      <4>4. Total(r)' = (h[r].acc + 1) + h[r].fwd + h[r].rej + (card - 1)
        BY <2>2, <2>5, <4>1
      <4>5. Total(r)' = Total(r)
        BY <2>1, <2>5, <2>6, <4>4
      <4> QED BY <4>3, <4>5
    <3>2. CASE ~taken
      <4>1. y.acc = h[r].acc /\ y.rej = h[r].rej + 1 /\ y.fwd = h[r].fwd
        BY <1>4, <3>2
      <4>2. own' = own
        BY <2>4, <3>2
      <4>3. y.acc = own'
        BY <2>6, <4>1, <4>2
      <4>4. Total(r)' = h[r].acc + h[r].fwd + (h[r].rej + 1) + (card - 1)
        BY <2>2, <2>5, <4>1
      <4>5. Total(r)' = Total(r)
        BY <2>1, <2>5, <2>6, <4>4
      <4> QED BY <4>3, <4>5
    <3> QED BY <3>1, <3>2
  <2> QED BY <1>1, <1>4, <1>5, <1>15, <2>7 DEF Kept, Tallied
<1>18. Complete(r)'
  <2>1. CASE taken
    <3> HIDE DEF e, taken
    <3> QED BY <1>1, <1>4, <1>5, <1>14, <1>15, <1>16, <2>1 DEF Kept, Complete, WasRead
  <2>2. CASE ~taken
    BY <1>4, <1>5, <2>2 DEF Complete
  <2> QED BY <2>1, <2>2
<1> QED BY <1>7, <1>9, <1>10, <1>13, <1>17, <1>18 DEF Kept

\* Reading a line, in three ways; y is the handler's state after it.
Reads(r, y) ==
    /\ h[r].pc = "read" /\ h[r].i < Len(Body[r])
    /\ y \in HandlerState /\ y.i = h[r].i + 1
    /\ y.pc = "read" /\ y.fwd = h[r].fwd /\ y.cut = h[r].cut
    /\ h' = [h EXCEPT ![r] = y]
    /\ UNCHANGED <<rpc, broke>>
\* The line is bad, or an earlier one met a full queue.
ReadRefused(r, y) ==
    /\ Reads(r, y)
    /\ KeyOf(<<r, y.i>>) = BadLine \/ h[r].over
    /\ y.acc = h[r].acc /\ y.rej = h[r].rej + 1 /\ y.over = h[r].over
    /\ UNCHANGED <<queue, copies, remote>>
\* The line is staged for its owner.
ReadStaged(r, y) ==
    /\ Reads(r, y)
    /\ KeyOf(<<r, y.i>>) # BadLine /\ ~Self(<<r, y.i>>)
    /\ y.acc = h[r].acc /\ y.rej = h[r].rej /\ y.over = h[r].over
    /\ remote' = [remote EXCEPT ![r][Owner(<<r, y.i>>)] = Append(@, <<r, y.i>>)]
    /\ UNCHANGED <<queue, copies>>
\* The line is offered to the own pipeline.
ReadOwn(r, y) ==
    /\ Reads(r, y)
    /\ KeyOf(<<r, y.i>>) # BadLine /\ Self(<<r, y.i>>)
    /\ Room(At[r]) => y.acc = h[r].acc + 1 /\ y.rej = h[r].rej /\ y.over = h[r].over
    /\ ~Room(At[r]) => y.acc = h[r].acc /\ y.rej = h[r].rej + 1 /\ y.over = TRUE
    /\ Offer(At[r], <<r, y.i>>)
    /\ UNCHANGED remote

\* What they have in common: the line is an event that is neither staged nor
\* queued, nothing was forwarded, and the line is now one that was read.
ReadKeeps(r, y) ==
    /\ h[r].pc = "read" /\ y.pc = "read"
    /\ <<r, y.i>> \in EventsOf(r) /\ <<r, y.i>> \in Events
    /\ <<r, y.i>>[2] = y.i
    /\ y.i \in Nat /\ h[r].i \in Nat /\ y.i = h[r].i + 1 /\ y.i <= Len(Body[r])
    /\ h'[r] = y /\ h' \in [Requests -> HandlerState]
    /\ \A q \in Requests \ {r} : h'[q] = h[q]
    /\ \A p \in Nodes : rpc[r][p] = NoRpc /\ <<r, p>> \notin broke
    /\ \A p \in Nodes : \A k \in 1..Len(remote[r][p]) : remote[r][p][k] # <<r, y.i>>
    /\ \A p \in Nodes : <<r, y.i>> \in Valid(r) => copies[<<r, y.i>>][p] = 0
    /\ Away(r) = {} /\ Away(r)' = {}
    /\ \A f \in EventsOf(r) : WasRead(r, f)' <=> WasRead(r, f) \/ f = <<r, y.i>>
    /\ UNCHANGED <<rpc, broke>>

\* While the body is read nothing is forwarded; the next line is an event that is
\* neither staged nor queued, and reading it leaves the forwards alone.
LEMMA ReadFacts ==
    ASSUME Shape, NEW r \in Requests, Kept(r), NEW y, Reads(r, y)
    PROVE  ReadKeeps(r, y)
<1> DEFINE e == <<r, y.i>>
<1>0. /\ h[r].pc = "read" /\ h[r].i < Len(Body[r])
      /\ y \in HandlerState /\ y.i = h[r].i + 1 /\ y.pc = "read"
      /\ h' = [h EXCEPT ![r] = y] /\ UNCHANGED <<rpc, broke>>
  BY DEF Reads
<1>1. h[r].i \in Nat /\ Len(Body[r]) \in Nat /\ y.i \in 1..Len(Body[r]) /\ y.i \in Nat
      /\ y.i <= Len(Body[r])
  BY <1>0, FieldTypes
<1>2. e \in EventsOf(r) /\ e \in Events /\ e[1] = r /\ e[2] = y.i
  BY <1>1, EventFacts
<1>3. /\ h'[r] = y /\ h' \in [Requests -> HandlerState]
      /\ \A q \in Requests \ {r} : h'[q] = h[q]
  BY <1>0 DEF Shape
<1>4. \A p \in Nodes : rpc[r][p] = NoRpc /\ <<r, p>> \notin broke
  BY <1>0 DEF Kept, Forwarded
<1>5. \A p \in Nodes : \A k \in 1..Len(remote[r][p]) : remote[r][p][k] # e
  BY <1>0, <1>1, <1>2 DEF Kept, Staged
<1>6. ASSUME NEW p \in Nodes, e \in Valid(r) PROVE copies[e][p] = 0
  <2>1. copies[e][p] \in {0, 1}
    BY <1>2 DEF Kept, Copied
  <2>2. ASSUME copies[e][p] = 1 PROVE FALSE
    <3>1. p = Owner(e)
      <4>1. Owner(e) \in Nodes
        BY <1>6, ValidFacts
      <4>2. ~Fallback(r, Owner(e))
        BY <1>4, <4>1 DEF Fallback, Refused, NoRpc
      <4> QED BY <1>2, <1>6, <2>2, <4>2 DEF Kept, Copied
    <3>2. CASE Self(e)
      <4>1. p = At[r]
        BY <1>6, <3>1, <3>2, ValidFacts
      <4>2. e[2] <= h[r].i
        BY <1>0, <1>6, <2>2, <3>2, <4>1 DEF Kept, Copied
      <4> QED BY <1>0, <1>1, <1>2, <4>2
    <3>3. CASE ~Self(e)
      <4>1. \E k \in 1..rpc[r][p].i : remote[r][p][k] = e
        BY <1>6, <2>2, <3>1, <3>3 DEF Kept, Copied
      <4>2. rpc[r][p].i = 0
        <5>1. NoRpc.i = 0
          BY DEF NoRpc
        <5> QED BY <1>4, <5>1
      <4> QED BY <4>1, <4>2
    <3> QED BY <3>2, <3>3
  <2> QED BY <2>1, <2>2
<1>7. Away(r) = {} /\ Away(r)' = {}
  <2>1. \A p \in Nodes : ~Confirmed(r, p) /\ ~Confirmed(r, p)'
    BY <1>0, <1>4 DEF Confirmed, NoRpc
  <2> QED BY <2>1 DEF Away
<1>8. ASSUME NEW f \in EventsOf(r) PROVE WasRead(r, f)' <=> WasRead(r, f) \/ f = e
  <2>1. WasRead(r, f)' <=> f[2] <= y.i
    BY <1>0, <1>3 DEF WasRead
  <2>2. WasRead(r, f) <=> f[2] <= h[r].i
    BY <1>0 DEF WasRead
  <2>3. f[2] \in Nat /\ (f = e <=> f[2] = y.i)
    BY <1>1, EventFacts
  <2> QED BY <1>0, <1>1, <2>1, <2>2, <2>3
<1> QED BY <1>0, <1>1, <1>2, <1>3, <1>4, <1>5, <1>6, <1>7, <1>8 DEF ReadKeeps

\* A line is refused: it is bad, or an earlier one met a full queue.
LEMMA KeptReadRefused ==
    ASSUME Shape, NEW r \in Requests, Kept(r), NEW y, ReadRefused(r, y)
    PROVE  Shape' /\ Others(r) /\ Kept(r)'
<1> DEFINE e == <<r, y.i>>
<1>0. /\ h[r].pc = "read" /\ y.pc = "read" /\ y.i = h[r].i + 1
      /\ y.fwd = h[r].fwd /\ y.cut = h[r].cut
      /\ y.acc = h[r].acc /\ y.rej = h[r].rej + 1 /\ y.over = h[r].over
      /\ KeyOf(e) = BadLine \/ h[r].over
      /\ UNCHANGED <<queue, copies, remote, rpc, broke>>
  BY DEF ReadRefused, Reads
<1>k. ReadKeeps(r, y)
  BY ReadFacts DEF ReadRefused
<1>1. Shape' /\ Others(r)
  BY <1>0, <1>k DEF ReadKeeps, Shape, Others, Same
<1>2. h'[r] = y /\ y.i \in Nat /\ h[r].i \in Nat /\ y.i <= Len(Body[r])
  BY <1>k DEF ReadKeeps
<1>3. Staged(r)'
  <2>1. \A p \in Nodes : \A k \in 1..Len(remote[r][p]) :
           remote[r][p][k] \in Valid(r) /\ remote[r][p][k][2] \in Nat
    BY EventFacts, ValidFacts DEF Kept, Staged
  <2> QED BY <1>0, <1>2, <2>1 DEF Kept, Staged
<1>4. Forwarded(r)'
  BY <1>0, <1>2 DEF Kept, Forwarded
<1>5. Copied(r)'
  <2>1. \A f \in Valid(r) : f[2] \in Nat
    BY EventFacts, ValidFacts
  <2>2. \A p \in Nodes : Fallback(r, p) => Fallback(r, p)'
    BY <1>0, <1>2 DEF Fallback, Refused
  <2> QED BY <1>0, <1>2, <2>1, <2>2, ValidFacts DEF Kept, Copied
<1>6. Own(r)' = Own(r) /\ Away(r)' = Away(r)
  BY <1>0, <1>k DEF Own, ReadKeeps
<1>7. Pending(r)' = Pending(r)
  <2>1. NoRpc.st = "none"
    BY DEF NoRpc
  <2>2. \A p \in Nodes : rpc[r][p].st = "none"
    BY <1>k, <2>1 DEF ReadKeeps
  <2> QED BY <1>0, <2>2 DEF Pending, Open
<1>8. Tallied(r)'
  <2> DEFINE card == Cardinality(Pending(r))
  <2>1. card \in Nat /\ card' = card
    BY <1>7, SetsFinite
  <2>2. Total(r) = h[r].acc + h[r].fwd + h[r].rej + card
    BY DEF Total
  <2>3. h[r].acc \in Nat /\ h[r].fwd \in Nat /\ h[r].rej \in Nat
    BY FieldTypes
  <2>4. Total(r)' = h[r].acc + h[r].fwd + (h[r].rej + 1) + card
    <3> HIDE DEF card
    <3>1. Total(r)' = y.acc + y.fwd + y.rej + card'
      BY <1>2 DEF Total, card
    <3> QED BY <1>0, <2>1, <3>1
  <2>5. Total(r)' = Total(r) + 1
    <3> HIDE DEF card
    <3> QED BY <2>1, <2>2, <2>3, <2>4
  <2> QED BY <1>0, <1>2, <1>6, <2>5 DEF Kept, Tallied
<1>9. Complete(r)'
  <2>1. CASE h[r].over
    BY <1>0, <1>2, <2>1 DEF Complete
  <2>2. CASE ~h[r].over
    <3>1. e \notin Valid(r)
      BY <1>0, <2>2 DEF Valid
    <3>2. \A f \in Valid(r) : WasRead(r, f)' => WasRead(r, f)
      <4>1. \A f \in EventsOf(r) : WasRead(r, f)' <=> WasRead(r, f) \/ f = e
        BY <1>k DEF ReadKeeps
      <4> HIDE DEF e
      <4> QED BY <3>1, <4>1, ValidFacts
    <3> QED BY <1>0, <1>2, <1>6, <1>7, <3>2 DEF Kept, Complete
  <2> QED BY <2>1, <2>2
<1> QED BY <1>1, <1>3, <1>4, <1>5, <1>8, <1>9 DEF Kept

\* A line is staged for its owner.
LEMMA KeptReadStaged ==
    ASSUME Shape, NEW r \in Requests, Kept(r), NEW y, ReadStaged(r, y)
    PROVE  Shape' /\ Others(r) /\ Kept(r)'
<1> DEFINE e == <<r, y.i>>
           t == Owner(e)
           g == remote[r][t]
<1>0. /\ h[r].pc = "read" /\ y.pc = "read" /\ y.i = h[r].i + 1
      /\ y.fwd = h[r].fwd /\ y.cut = h[r].cut
      /\ y.acc = h[r].acc /\ y.rej = h[r].rej /\ y.over = h[r].over
      /\ KeyOf(e) # BadLine /\ ~Self(e)
      /\ remote' = [remote EXCEPT ![r][t] = Append(g, e)]
      /\ UNCHANGED <<queue, copies, rpc, broke>>
  BY DEF ReadStaged, Reads
<1>k. ReadKeeps(r, y)
  BY ReadFacts DEF ReadStaged
<1>1. /\ e \in Valid(r) /\ e \in EventsOf(r) /\ e \in Events /\ t \in Nodes /\ t # At[r]
      /\ e[2] = y.i
  <2>1. e \in EventsOf(r) /\ e \in Events /\ e[2] = y.i
    BY <1>k DEF ReadKeeps
  <2>2. e \in Valid(r)
    BY <1>0, <2>1 DEF Valid
  <2> HIDE DEF e
  <2> QED BY <1>0, <2>1, <2>2, ValidFacts DEF t
<1>2. h'[r] = y /\ y.i \in Nat /\ h[r].i \in Nat /\ y.i <= Len(Body[r])
  BY <1>k DEF ReadKeeps
<1>3. g \in Seq(Events) /\ Len(g) \in Nat
  BY <1>1, FieldTypes
<1>n. \A p \in Nodes : \A k \in 1..Len(remote[r][p]) : remote[r][p][k] # e
  BY <1>k DEF ReadKeeps
<1>w. \A f \in EventsOf(r) : WasRead(r, f)' <=> WasRead(r, f) \/ f = e
  BY <1>k DEF ReadKeeps
<1> HIDE DEF e, t
<1>4. /\ remote'[r][t] = Append(g, e)
      /\ \A p \in Nodes \ {t} : remote'[r][p] = remote[r][p]
      /\ \A q \in Requests \ {r} : remote'[q] = remote[q]
      /\ remote' \in [Requests -> [Nodes -> Seq(Events)]]
  <2>1. Append(g, e) \in Seq(Events)
    BY <1>1, <1>3
  <2> DEFINE x == Append(g, e)
  <2>2. remote' = [remote EXCEPT ![r][t] = x]
    BY <1>0
  <2> HIDE DEF x, g
  <2>3. remote \in [Requests -> [Nodes -> Seq(Events)]] /\ x \in Seq(Events)
    BY <2>1 DEF Shape, x
  <2>4. /\ remote'[r][t] = x
        /\ \A p \in Nodes \ {t} : remote'[r][p] = remote[r][p]
        /\ \A q \in Requests \ {r} : remote'[q] = remote[q]
        /\ remote' \in [Requests -> [Nodes -> Seq(Events)]]
    BY <1>1, <2>2, <2>3
  <2> QED BY <2>4 DEF x
<1>5. /\ Len(remote'[r][t]) = Len(g) + 1
      /\ remote'[r][t][Len(g) + 1] = e
      /\ \A k \in 1..Len(g) : remote'[r][t][k] = g[k]
  <2> HIDE DEF g
  <2> QED BY <1>1, <1>3, <1>4
<1>6. Shape' /\ Others(r)
  <2>1. h' \in [Requests -> HandlerState] /\ \A q \in Requests \ {r} : h'[q] = h[q]
    BY <1>k DEF ReadKeeps
  <2>2. UNCHANGED <<queue, copies, rpc, broke>>
    BY <1>0
  <2> QED BY <1>4, <2>1, <2>2 DEF Shape, Others, Same
<1>7. ASSUME NEW p \in Nodes, NEW k \in 1..Len(remote'[r][p])
      PROVE  \/ k \in 1..Len(remote[r][p]) /\ remote'[r][p][k] = remote[r][p][k]
             \/ p = t /\ k = Len(g) + 1 /\ remote'[r][p][k] = e
  <2>1. CASE p = t
    BY <1>3, <1>5, <2>1
  <2>2. CASE p # t
    BY <1>4, <2>2
  <2> QED BY <2>1, <2>2
<1>8. \A p \in Nodes : \A k \in 1..Len(remote[r][p]) :
         /\ k \in 1..Len(remote'[r][p]) /\ remote'[r][p][k] = remote[r][p][k]
         /\ remote[r][p][k] # e
         /\ remote[r][p][k] \in Valid(r) /\ remote[r][p][k][2] \in Nat
         /\ Owner(remote[r][p][k]) = p /\ p # At[r] /\ remote[r][p][k][2] <= h[r].i
  <2>1. ASSUME NEW p \in Nodes, NEW k \in 1..Len(remote[r][p])
        PROVE  k \in 1..Len(remote'[r][p]) /\ remote'[r][p][k] = remote[r][p][k]
    <3>1. CASE p = t
      BY <1>3, <1>5, <3>1
    <3>2. CASE p # t
      BY <1>4, <3>2
    <3> QED BY <3>1, <3>2
  <2>2. h[r].pc = "read"
    BY <1>0
  <2>3. \A p \in Nodes : \A k \in 1..Len(remote[r][p]) :
           /\ remote[r][p][k] \in Valid(r) /\ remote[r][p][k][2] \in Nat
           /\ Owner(remote[r][p][k]) = p /\ p # At[r] /\ remote[r][p][k][2] <= h[r].i
    BY <2>2, EventFacts, ValidFacts DEF Kept, Staged
  <2> QED BY <1>n, <2>1, <2>3
<1>9. Staged(r)'
  <2>0. y.i = h[r].i + 1
    BY <1>0
  <2>1. ASSUME NEW p \in Nodes, NEW k \in 1..Len(remote'[r][p])
        PROVE  /\ remote'[r][p][k] \in Valid(r)
               /\ Owner(remote'[r][p][k]) = p
               /\ p # At[r]
               /\ remote'[r][p][k][2] <= y.i
    <3>1. CASE k \in 1..Len(remote[r][p]) /\ remote'[r][p][k] = remote[r][p][k]
      BY <1>2, <1>8, <2>0, <3>1
    <3>2. CASE p = t /\ remote'[r][p][k] = e
      BY <1>1, <1>2, <3>2 DEF t
    <3> QED BY <1>7, <3>1, <3>2
  <2>2. ASSUME NEW p \in Nodes, NEW k \in 1..Len(remote'[r][p]),
               NEW m \in 1..Len(remote'[r][p]), remote'[r][p][k] = remote'[r][p][m]
        PROVE  k = m
    <3>1. CASE remote'[r][p][k] = e
      <4>1. k = Len(g) + 1
        BY <1>7, <1>8, <3>1
      <4>2. m = Len(g) + 1
        <5>1. remote'[r][p][m] = e
          BY <2>2, <3>1
        <5> QED BY <1>7, <1>8, <5>1
      <4> QED BY <4>1, <4>2
    <3>2. CASE remote'[r][p][k] # e
      <4>1. /\ k \in 1..Len(remote[r][p]) /\ m \in 1..Len(remote[r][p])
            /\ remote[r][p][k] = remote[r][p][m]
        BY <1>7, <2>2, <3>2
      <4> QED BY <4>1 DEF Kept, Staged
    <3> QED BY <3>1, <3>2
  <2> QED BY <1>2, <2>1, <2>2 DEF Staged
<1>10. /\ \A p \in Nodes : /\ rpc[r][p] = NoRpc /\ rpc[r][p].i = 0 /\ rpc[r][p].st = "none"
                           /\ <<r, p>> \notin broke
       /\ UNCHANGED <<queue, copies, rpc, broke>>
  BY <1>k, <1>0 DEF NoRpc, ReadKeeps
<1>11. Forwarded(r)'
  <2>1. \A p \in Nodes : 0 <= Len(remote'[r][p])
    BY <1>4
  <2>2. h'[r].pc = "read"
    BY <1>0, <1>2
  <2> QED BY <1>10, <2>1, <2>2 DEF Forwarded
<1>12. Copied(r)'
  <2>0. y.i = h[r].i + 1 /\ h'[r].pc = "read" /\ h'[r].i = y.i /\ h[r].pc = "read"
    BY <1>0, <1>2
  <2>1. \A f \in Valid(r) : f[2] \in Nat /\ Owner(f) \in Nodes
    BY EventFacts, ValidFacts
  <2>2. ASSUME NEW f \in Valid(r), ~Self(f) PROVE copies[f][Owner(f)] # 1
    <3>1. rpc[r][Owner(f)].i = 0
      BY <1>10, <2>1
    <3> QED BY <2>2, <3>1 DEF Kept, Copied
  <2>3. \A f \in Valid(r) : Self(f) /\ copies[f][At[r]] = 1 => f[2] <= y.i
    BY <1>2, <2>0, <2>1 DEF Kept, Copied
  <2>4. \A f \in EventsOf(r), n \in Nodes :
          /\ copies[f][n] \in {0, 1}
          /\ copies[f][n] = 1 =>
                /\ f \in Valid(r)
                /\ n = Owner(f) \/ (n = At[r] /\ Fallback(r, Owner(f)))
    BY DEF Kept, Copied
  <2>5. ASSUME NEW p \in Nodes, NEW k \in 1..rpc[r][p].i PROVE FALSE
    <3>1. rpc[r][p].i = 0
      BY <1>10
    <3> QED BY <3>1
  <2>6. copies' = copies /\ rpc' = rpc /\ broke' = broke
    BY <1>10
  <2>7. \A p \in Nodes : Fallback(r, p) => Fallback(r, p)'
    BY <2>0, <2>6 DEF Fallback, Refused
  <2> QED BY <1>10, <2>0, <2>1, <2>2, <2>3, <2>4, <2>5, <2>6, <2>7 DEF Copied
<1>13. Own(r)' = Own(r) /\ Away(r)' = Away(r)
  <2>1. Away(r)' = Away(r)
    BY <1>k DEF ReadKeeps
  <2> QED BY <1>10, <2>1 DEF Own
<1>14. Pending(r)' = Pending(r) \cup {e} /\ e \notin Pending(r)
  <2>1. \A p \in Nodes : /\ \A k \in 1..Len(remote[r][p]) : Open(r, p, k)
                         /\ \A k \in 1..Len(remote'[r][p]) : Open(r, p, k)'
    BY <1>10 DEF Open
  <2>2. e \notin Pending(r)
    BY <1>8 DEF Pending
  <2>3. e \in Pending(r)'
    <3>1. Len(g) + 1 \in 1..Len(remote'[r][t])
      BY <1>3, <1>5
    <3> QED BY <1>1, <1>5, <2>1, <3>1 DEF Pending
  <2>4. Pending(r) \subseteq Pending(r)'
    BY <1>8, <2>1 DEF Pending
  <2>5. Pending(r)' \subseteq Pending(r) \cup {e}
    <3> SUFFICES ASSUME NEW f \in Pending(r)' PROVE f \in Pending(r) \cup {e}
      OBVIOUS
    <3>1. f \in EventsOf(r)
      BY DEF Pending
    <3>2. PICK p \in Nodes : \E k \in 1..Len(remote'[r][p]) : remote'[r][p][k] = f
      BY DEF Pending
    <3>3. PICK k \in 1..Len(remote'[r][p]) : remote'[r][p][k] = f
      BY <3>2
    <3>4. CASE k \in 1..Len(remote[r][p]) /\ remote'[r][p][k] = remote[r][p][k]
      BY <2>1, <3>1, <3>3, <3>4 DEF Pending
    <3> QED BY <1>7, <3>3, <3>4
  <2> QED BY <2>2, <2>3, <2>4, <2>5
<1>15. Tallied(r)'
  <2> DEFINE card == Cardinality(Pending(r))
  <2>1. card \in Nat /\ card' = card + 1
    BY <1>14, SetsFinite, FS_AddElement
  <2>2. Total(r) = h[r].acc + h[r].fwd + h[r].rej + card
    BY DEF Total
  <2>3. h[r].acc \in Nat /\ h[r].fwd \in Nat /\ h[r].rej \in Nat
    BY FieldTypes
  <2>4. Total(r)' = h[r].acc + h[r].fwd + h[r].rej + (card + 1)
    <3> HIDE DEF card
    <3>1. Total(r)' = y.acc + y.fwd + y.rej + card'
      BY <1>2 DEF Total, card
    <3> QED BY <1>0, <2>1, <3>1
  <2>5. Total(r)' = Total(r) + 1
    <3> HIDE DEF card
    <3> QED BY <2>1, <2>2, <2>3, <2>4
  <2>6. /\ y.i = h[r].i + 1 /\ h[r].pc = "read" /\ y.pc = "read"
        /\ y.acc = h[r].acc /\ y.fwd = h[r].fwd
    BY <1>0
  <2> QED BY <1>2, <1>13, <2>5, <2>6 DEF Kept, Tallied
<1>16. Complete(r)'
  <2>1. \A f \in Valid(r) : WasRead(r, f)' => WasRead(r, f) \/ f = e
    BY <1>w, ValidFacts
  <2>2. y.over = h[r].over
    BY <1>0
  <2> QED BY <1>2, <1>13, <1>14, <2>1, <2>2 DEF Kept, Complete
<1> QED BY <1>6, <1>9, <1>11, <1>12, <1>15, <1>16 DEF Kept

\* A line is offered to the own pipeline.
LEMMA KeptReadOwn ==
    ASSUME Shape, NEW r \in Requests, Kept(r), NEW y, ReadOwn(r, y)
    PROVE  Shape' /\ Others(r) /\ Kept(r)'
<1> DEFINE e == <<r, y.i>>
           taken == Room(At[r])
<1>0. /\ h[r].pc = "read" /\ y.pc = "read" /\ y.i = h[r].i + 1
      /\ y.fwd = h[r].fwd /\ y.cut = h[r].cut
      /\ KeyOf(e) # BadLine /\ Self(e)
      /\ taken => y.acc = h[r].acc + 1 /\ y.rej = h[r].rej /\ y.over = h[r].over
      /\ ~taken => y.acc = h[r].acc /\ y.rej = h[r].rej + 1 /\ y.over = TRUE
      /\ Offer(At[r], e)
      /\ UNCHANGED <<remote, rpc, broke>>
  BY DEF ReadOwn, Reads
<1>k. ReadKeeps(r, y)
  BY ReadFacts DEF ReadOwn
<1>1. /\ e \in Valid(r) /\ e \in EventsOf(r) /\ e \in Events /\ At[r] \in Nodes
      /\ Owner(e) = At[r] /\ e[2] = y.i
  <2>1. e \in EventsOf(r) /\ e \in Events /\ e[2] = y.i
    BY <1>k DEF ReadKeeps
  <2>2. e \in Valid(r)
    BY <1>0, <2>1 DEF Valid
  <2> HIDE DEF e
  <2> QED BY <1>0, <2>1, <2>2, ValidFacts
<1>2. h'[r] = y /\ y.i \in Nat /\ h[r].i \in Nat /\ y.i <= Len(Body[r])
  BY <1>k DEF ReadKeeps
<1>3. copies[e][At[r]] = 0
  BY <1>1, <1>k DEF ReadKeeps
<1>w. \A f \in EventsOf(r) : WasRead(r, f)' <=> WasRead(r, f) \/ f = e
  BY <1>k DEF ReadKeeps
<1> HIDE DEF e
<1>4. /\ queue' \in [Nodes -> Seq(Events)]
      /\ copies' \in [Events -> [Nodes -> Nat]]
      /\ \A n \in Nodes : Len(queue'[n]) <= Cap
      /\ \A f \in Events, n \in Nodes :
            copies'[f][n] = IF taken /\ f = e /\ n = At[r]
                            THEN copies[f][n] + 1 ELSE copies[f][n]
      /\ \A q \in Requests \ {r} : \A f \in EventsOf(q) : copies'[f] = copies[f]
  <2>1. Offer(At[r], e)
    BY <1>0
  <2> QED BY <1>1, <2>1, OfferEffect, ShapeOffer
<1>5. /\ \A p \in Nodes : /\ rpc[r][p] = NoRpc /\ rpc[r][p].i = 0 /\ rpc[r][p].st = "none"
                          /\ <<r, p>> \notin broke
      /\ UNCHANGED <<remote, rpc, broke>>
  BY <1>0, <1>k DEF NoRpc, ReadKeeps
<1>6. /\ \A f \in EventsOf(r), n \in Nodes :
            n # At[r] \/ f # e \/ ~taken => copies'[f][n] = copies[f][n]
      /\ taken => copies'[e][At[r]] = 1
  <2> HIDE DEF taken
  <2> QED BY <1>1, <1>3, <1>4, EventFacts
<1>7. Shape' /\ Others(r)
  <2>1. h' \in [Requests -> HandlerState] /\ \A q \in Requests \ {r} : h'[q] = h[q]
    BY <1>k DEF ReadKeeps
  <2> QED BY <1>4, <1>5, <2>1 DEF Shape, Others, Same
<1>p. y.i = h[r].i + 1 /\ y.pc = "read" /\ h[r].pc = "read"
  BY <1>0
<1>8. Staged(r)'
  <2>1. \A p \in Nodes : \A k \in 1..Len(remote[r][p]) :
           remote[r][p][k] \in Valid(r) /\ remote[r][p][k][2] \in Nat
    BY EventFacts, ValidFacts DEF Kept, Staged
  <2>2. \A p \in Nodes : \A k \in 1..Len(remote[r][p]) : remote[r][p][k][2] <= y.i
    BY <1>2, <1>p, <2>1 DEF Kept, Staged
  <2>3. remote' = remote
    BY <1>5
  <2> QED BY <1>2, <2>2, <2>3 DEF Kept, Staged
<1>9. Forwarded(r)'
  BY <1>2, <1>5, <1>p DEF Kept, Forwarded
<1>10. Copied(r)'
  <2>1. ASSUME NEW f \in EventsOf(r), NEW n \in Nodes
        PROVE  /\ copies'[f][n] \in {0, 1}
               /\ copies'[f][n] = 1 =>
                     /\ f \in Valid(r)
                     /\ n = Owner(f) \/ (n = At[r] /\ Fallback(r, Owner(f)))
    <3>1. CASE taken /\ f = e /\ n = At[r]
      BY <1>1, <1>6, <3>1
    <3>2. CASE ~(taken /\ f = e /\ n = At[r])
      <4>1. copies'[f][n] = copies[f][n]
        BY <1>6, <3>2
      <4> QED BY <4>1 DEF Kept, Copied
    <3> QED BY <3>1, <3>2
  <2>2. ASSUME NEW f \in Valid(r), ~Self(f) PROVE copies'[f][Owner(f)] # 1
    <3>1. Owner(f) \in Nodes /\ Owner(f) # At[r] /\ f \in EventsOf(r)
      BY <2>2, ValidFacts
    <3>2. rpc[r][Owner(f)].i = 0
      BY <1>5, <3>1
    <3>3. copies[f][Owner(f)] # 1
      BY <2>2, <3>2 DEF Kept, Copied
    <3> QED BY <1>6, <3>1, <3>3
  <2>3. ASSUME NEW f \in Valid(r), Self(f), copies'[f][At[r]] = 1 PROVE f[2] <= y.i
    <3>1. f[2] \in Nat /\ f \in EventsOf(r)
      BY EventFacts, ValidFacts
    <3>2. CASE f = e
      BY <1>1, <1>2, <3>2
    <3>3. CASE f # e
      <4>1. copies[f][At[r]] = 1
        BY <1>1, <1>6, <2>3, <3>1, <3>3
      <4>2. f[2] <= h[r].i
        BY <1>p, <2>3, <4>1 DEF Kept, Copied
      <4> QED BY <1>2, <1>p, <3>1, <4>2
    <3> QED BY <3>2, <3>3
  <2>4. h'[r].pc = "read" /\ h'[r].i = y.i
    BY <1>2, <1>p
  <2>5. ASSUME NEW p \in Nodes, NEW k \in 1..rpc[r][p].i PROVE FALSE
    <3>1. rpc[r][p].i = 0
      BY <1>5
    <3> QED BY <3>1
  <2>6. rpc' = rpc /\ broke' = broke
    BY <1>5
  <2>7. \A p \in Nodes : Fallback(r, p) => Fallback(r, p)'
    BY <2>4, <2>6 DEF Fallback, Refused
  <2> QED BY <1>5, <2>1, <2>2, <2>3, <2>4, <2>5, <2>6, <2>7, ValidFacts DEF Copied
<1>11. /\ taken => Own(r)' = Own(r) \cup {e}
       /\ ~taken => Own(r)' = Own(r)
       /\ e \notin Own(r)
  <2>1. e \notin Own(r)
    BY <1>3 DEF Own
  <2>2. CASE taken
    <3>1. \A f \in EventsOf(r) : copies'[f][At[r]] = 1 <=> (copies[f][At[r]] = 1 \/ f = e)
      BY <1>1, <1>6, <2>2
    <3> HIDE DEF taken
    <3> QED BY <1>1, <2>1, <2>2, <3>1 DEF Own
  <2>3. CASE ~taken
    <3>1. \A f \in EventsOf(r) : copies'[f][At[r]] = copies[f][At[r]]
      BY <1>1, <1>6, <2>3
    <3> QED BY <2>1, <2>3, <3>1 DEF Own
  <2> QED BY <2>2, <2>3
<1>12. Away(r)' = Away(r)
  BY <1>k DEF ReadKeeps
<1>13. Pending(r)' = Pending(r)
  BY <1>5 DEF Pending, Open
<1>14. Tallied(r)'
  <2> DEFINE own == Cardinality(Own(r))
             card == Cardinality(Pending(r))
  <2>1. own \in Nat /\ card \in Nat /\ card' = card /\ IsFiniteSet(Own(r))
    BY <1>13, SetsFinite
  <2>2. taken => own' = own + 1
    BY <1>11, <2>1, FS_AddElement
  <2>3. ~taken => own' = own
    BY <1>11
  <2>4. Total(r) = h[r].acc + h[r].fwd + h[r].rej + card
    BY DEF Total
  <2>5. h[r].acc \in Nat /\ h[r].fwd \in Nat /\ h[r].rej \in Nat /\ h[r].acc = own
    BY FieldTypes DEF Kept, Tallied
  <2>6. Total(r)' = y.acc + y.fwd + y.rej + card
    <3>1. Total(r)' = y.acc + y.fwd + y.rej + card'
      BY <1>2 DEF Total
    <3> HIDE DEF card
    <3> QED BY <2>1, <3>1
  <2>7. Total(r)' = Total(r) + 1 /\ y.acc = own'
    <3> HIDE DEF own, card
    <3>1. CASE taken
      <4>1. y.acc = h[r].acc + 1 /\ y.rej = h[r].rej /\ y.fwd = h[r].fwd /\ own' = own + 1
        BY <1>0, <2>2, <3>1
      <4>2. Total(r)' = (h[r].acc + 1) + h[r].fwd + h[r].rej + card
        BY <2>6, <4>1
      <4>3. Total(r)' = Total(r) + 1
        BY <2>1, <2>4, <2>5, <4>2
      <4> QED BY <2>5, <4>1, <4>3
    <3>2. CASE ~taken
      <4>1. y.acc = h[r].acc /\ y.rej = h[r].rej + 1 /\ y.fwd = h[r].fwd /\ own' = own
        BY <1>0, <2>3, <3>2
      <4>2. Total(r)' = h[r].acc + h[r].fwd + (h[r].rej + 1) + card
        BY <2>6, <4>1
      <4>3. Total(r)' = Total(r) + 1
        BY <2>1, <2>4, <2>5, <4>2
      <4> QED BY <2>5, <4>1, <4>3
    <3> QED BY <3>1, <3>2
  <2>8. y.fwd = h[r].fwd
    BY <1>0
  <2> QED BY <1>2, <1>p, <1>12, <2>7, <2>8 DEF Kept, Tallied
<1>15. Complete(r)'
  <2>1. CASE taken
    <3>1. \A f \in Valid(r) : WasRead(r, f)' => WasRead(r, f) \/ f = e
      BY <1>w, ValidFacts
    <3>2. y.over = h[r].over /\ Own(r)' = Own(r) \cup {e}
      BY <1>0, <1>11, <2>1
    <3> HIDE DEF taken
    <3> QED BY <1>2, <1>12, <1>13, <3>1, <3>2 DEF Kept, Complete
  <2>2. CASE ~taken
    BY <1>0, <1>2, <2>2 DEF Complete
  <2> QED BY <2>1, <2>2
<1> QED BY <1>7, <1>8, <1>9, <1>10, <1>14, <1>15 DEF Kept

\* Reading a line does one of the three.
LEMMA KeptRead ==
    ASSUME Shape, NEW r \in Requests, Kept(r), ReadLine(r)
    PROVE  Shape' /\ Others(r) /\ Kept(r)'
<1> DEFINE c == [h[r] EXCEPT !.i = @ + 1]
           e == <<r, c.i>>
<1>1. /\ c \in HandlerState /\ c.i = h[r].i + 1
      /\ c.pc = h[r].pc /\ c.acc = h[r].acc /\ c.fwd = h[r].fwd /\ c.rej = h[r].rej
      /\ c.over = h[r].over /\ c.cut = h[r].cut
  BY FieldTypes DEF HandlerState
<1>2. h[r].pc = "read" /\ h[r].i < Len(Body[r]) /\ UNCHANGED <<rpc, broke>>
  BY DEF ReadLine
<1>3. CASE /\ KeyOf(e) = BadLine \/ h[r].over
           /\ h' = [h EXCEPT ![r] = [c EXCEPT !.rej = @ + 1]]
           /\ UNCHANGED <<queue, copies, remote>>
  <2> DEFINE n == c.rej + 1
             y == [c EXCEPT !.rej = n]
  <2>1. n \in Nat /\ n = h[r].rej + 1
    BY <1>1, FieldTypes
  <2>2. h' = [h EXCEPT ![r] = y] /\ y.i = c.i
    BY <1>1, <1>3 DEF HandlerState
  <2> HIDE DEF n, c
  <2>3. /\ y \in HandlerState /\ y.i = c.i /\ y.pc = c.pc /\ y.acc = c.acc
        /\ y.fwd = c.fwd /\ y.rej = n /\ y.over = c.over /\ y.cut = c.cut
    BY <1>1, <2>1 DEF HandlerState
  <2> HIDE DEF y
  <2>4. ReadRefused(r, y)
    BY <1>1, <1>2, <1>3, <2>1, <2>2, <2>3 DEF ReadRefused, Reads
  <2> QED BY <2>4, KeptReadRefused
<1>4. CASE /\ KeyOf(e) # BadLine /\ ~h[r].over
           /\ ~Self(e)
           /\ remote' = [remote EXCEPT ![r][Owner(e)] = Append(@, e)]
           /\ h' = [h EXCEPT ![r] = c]
           /\ UNCHANGED <<queue, copies>>
  <2> HIDE DEF c
  <2>1. ReadStaged(r, c)
    BY <1>1, <1>2, <1>4 DEF ReadStaged, Reads
  <2> QED BY <2>1, KeptReadStaged
<1>5. CASE /\ KeyOf(e) # BadLine /\ ~h[r].over
           /\ Self(e)
           /\ Offer(At[r], e)
           /\ h' = [h EXCEPT ![r] = Counted(c, At[r])]
           /\ UNCHANGED remote
  <2> DEFINE y == Counted(c, At[r])
             taken == Room(At[r])
  <2>1. /\ y \in HandlerState /\ y.i = c.i
        /\ y.pc = h[r].pc /\ y.fwd = h[r].fwd /\ y.cut = h[r].cut
        /\ taken => y.acc = h[r].acc + 1 /\ y.rej = h[r].rej /\ y.over = h[r].over
        /\ ~taken => y.acc = h[r].acc /\ y.rej = h[r].rej + 1 /\ y.over = TRUE
    <3>1. h[r] \in HandlerState /\ At[r] \in Nodes
      BY FieldTypes
    <3> HIDE DEF taken
    <3> QED BY <1>1, <3>1, CountedEffect DEF taken
  <2>2. h' = [h EXCEPT ![r] = y]
    BY <1>5
  <2> HIDE DEF c, y
  <2>3. ReadOwn(r, y)
    BY <1>1, <1>2, <1>5, <2>1, <2>2 DEF ReadOwn, Reads
  <2> QED BY <2>3, KeptReadOwn
<1>6. \/ /\ KeyOf(e) = BadLine \/ h[r].over
         /\ h' = [h EXCEPT ![r] = [c EXCEPT !.rej = @ + 1]]
         /\ UNCHANGED <<queue, copies, remote>>
      \/ /\ KeyOf(e) # BadLine /\ ~h[r].over
         /\ ~Self(e)
         /\ remote' = [remote EXCEPT ![r][Owner(e)] = Append(@, e)]
         /\ h' = [h EXCEPT ![r] = c]
         /\ UNCHANGED <<queue, copies>>
      \/ /\ KeyOf(e) # BadLine /\ ~h[r].over
         /\ Self(e)
         /\ Offer(At[r], e)
         /\ h' = [h EXCEPT ![r] = Counted(c, At[r])]
         /\ UNCHANGED remote
  BY DEF ReadLine
<1> QED BY <1>3, <1>4, <1>5, <1>6

-----------------------------------------------------------------------------
(* The invariant.                                                          *)

\* It holds at the start: nothing was read.
LEMMA IInvInit == Init => IInv
<1> SUFFICES ASSUME Init PROVE IInv
  OBVIOUS
<1>1. Shape
  <2>1. h \in [Requests -> HandlerState]
    BY RequestAssumption DEF Init, HandlerState
  <2>2. NoRpc \in RpcState
    BY DEF NoRpc, RpcState
  <2>3. /\ queue \in [Nodes -> Seq(Events)] /\ \A n \in Nodes : Len(queue[n]) <= Cap
        /\ copies \in [Events -> [Nodes -> Nat]]
        /\ remote \in [Requests -> [Nodes -> Seq(Events)]]
        /\ broke \subseteq Requests \X Nodes
    BY ClusterCapAssumption DEF Init
  <2>4. rpc \in [Requests -> [Nodes -> RpcState]]
    BY <2>2 DEF Init
  <2> QED BY <2>1, <2>3, <2>4 DEF Shape
<1>2. ASSUME NEW r \in Requests PROVE Kept(r)
  <2>1. /\ h[r].pc = "read" /\ h[r].i = 0 /\ h[r].acc = 0 /\ h[r].fwd = 0 /\ h[r].rej = 0
        /\ \A p \in Nodes : /\ remote[r][p] = <<>> /\ rpc[r][p] = NoRpc
                            /\ rpc[r][p].st = "none" /\ rpc[r][p].i = 0
        /\ broke = {}
        /\ \A e \in EventsOf(r), n \in Nodes : copies[e][n] = 0
    BY EventFacts DEF Init, NoRpc
  <2>2. At[r] \in Nodes /\ Len(Body[r]) \in Nat
    BY RequestAssumption, EventFacts
  <2>3. Staged(r) /\ Forwarded(r)
    BY <2>1, <2>2 DEF Staged, Forwarded
  <2>4. Copied(r)
    BY <2>1, <2>2, ValidFacts DEF Copied
  <2>5. Own(r) = {} /\ Away(r) = {} /\ Pending(r) = {}
    BY <2>1, <2>2 DEF Own, Away, Pending, Confirmed
  <2>6. Tallied(r)
    BY <2>1, <2>5, FS_EmptySet DEF Tallied, Total
  <2>7. Complete(r)
    <3>1. \A e \in Valid(r) : ~WasRead(r, e)
      BY <2>1, <2>2, EventFacts, ValidFacts DEF WasRead
    <3> QED BY <3>1 DEF Complete
  <2> QED BY <2>3, <2>4, <2>6, <2>7 DEF Kept
<1> QED BY <1>1, <1>2 DEF IInv

\* Every step keeps it: a handler and the peers that work for it keep the accounts
\* of their own request and leave the others' alone.
LEMMA IInvNext == IInv /\ [Next]_vars => IInv'
<1> SUFFICES ASSUME Shape, \A r \in Requests : Kept(r), [Next]_vars PROVE IInv'
  BY DEF IInv
<1>1. ASSUME NEW r \in Requests, Shape' /\ Others(r) /\ Kept(r)' PROVE IInv'
  <2>1. ASSUME NEW q \in Requests PROVE Kept(q)'
    <3>1. CASE q = r
      BY <1>1, <3>1
    <3>2. CASE q # r
      BY <1>1, <3>2, KeptSame DEF Others
    <3> QED BY <3>1, <3>2
  <2> QED BY <1>1, <2>1 DEF IInv
<1>2. ASSUME NEW r \in Requests, Handler(r) PROVE IInv'
  <2>1. CASE ReadLine(r)
    BY <1>1, <2>1, KeptRead
  <2>2. CASE EndOfBody(r)
    BY <1>1, <2>2, KeptEnd
  <2>3. ASSUME NEW p \in Nodes, Forward(r, p) PROVE IInv'
    BY <1>1, <2>3, KeptForward
  <2>4. CASE ForwardOK(r)
    BY <1>1, <2>4, KeptTaken
  <2>8. CASE ForwardRefused(r)
    BY <1>1, <2>8, KeptRefused
  <2>5. CASE ForwardFails(r)
    BY <1>1, <2>5, KeptFails
  <2>6. CASE ProcessLocally(r)
    BY <1>1, <2>6, KeptLocal
  <2>7. CASE LocalDone(r) \/ Answer(r)
    BY <1>1, <2>7, KeptDone
  <2> QED BY <1>2, <2>1, <2>2, <2>3, <2>4, <2>5, <2>6, <2>7, <2>8 DEF Handler
<1>3. ASSUME NEW r \in Requests, NEW p \in Nodes, Peer(r, p) PROVE IInv'
  <2>1. CASE PeerLine(r, p)
    BY <1>1, <2>1, KeptPeerLine
  <2>2. CASE PeerAnswer(r, p)
    BY <1>1, <2>2, KeptPeerAnswer
  <2> QED BY <1>3, <2>1, <2>2 DEF Peer
<1>4. ASSUME Shape', UNCHANGED <<copies, h, remote, rpc, broke>> PROVE IInv'
  <2>1. \A q \in Requests : Same(q)
    BY <1>4 DEF Same
  <2> QED BY <1>4, <2>1, KeptSame DEF IInv
<1>5. ASSUME NEW n \in Nodes, Drain(n) PROVE IInv'
  <2>1. queue[n] \in Seq(Events) /\ queue[n] # <<>> /\ Len(queue[n]) <= Cap
    BY <1>5 DEF Drain, Shape
  <2>2. Tail(queue[n]) \in Seq(Events) /\ Len(Tail(queue[n])) <= Cap
    <3>1. /\ Tail(queue[n]) \in Seq(Events) /\ Len(queue[n]) \in Nat
          /\ Len(Tail(queue[n])) = Len(queue[n]) - 1
      BY <2>1
    <3> QED BY <2>1, <3>1, ClusterCapAssumption
  <2>3. Shape'
    BY <1>5, <2>2 DEF Drain, Shape
  <2> QED BY <1>4, <1>5, <2>3 DEF Drain
<1>6. CASE UNCHANGED vars
  <2>1. Shape'
    BY <1>6 DEF Shape, vars
  <2> QED BY <1>4, <1>6, <2>1 DEF vars
<1> QED BY <1>2, <1>3, <1>5, <1>6 DEF Next

\* So it holds throughout.
THEOREM IInvCorrect == Spec => []IInv
BY IInvInit, IInvNext, PTL DEF Spec

-----------------------------------------------------------------------------
(* What a refusal leaves at the peer.                                      *)

\* Lines are staged in the order of the body.
Ordered(r) ==
    \A p \in Nodes : \A k, m \in 1..Len(remote[r][p]) :
        k < m => remote[r][p][k][2] < remote[r][p][m][2]

\* The peer has taken the lines before the first one it refused, and no other.
TakenPrefix(r, p) ==
    \E k \in 1..rpc[r][p].i : \A m \in 1..rpc[r][p].i :
        copies[remote[r][p][m]][p] = 1 <=> m < k

\* A peer that is over has taken a prefix of its group.
Partial(r) == \A p \in Nodes : rpc[r][p].over => TakenPrefix(r, p)

Refusals == \A r \in Requests : Ordered(r) /\ Partial(r)

\* A step that leaves staged lines, forwarded requests and the copies at peers alone
\* keeps both.
LEMMA RefusalsSame ==
    ASSUME IInv, NEW q \in Requests, Ordered(q), Partial(q), remote'[q] = remote[q],
           \A p \in Nodes : rpc'[q][p].i = rpc[q][p].i /\ rpc'[q][p].over = rpc[q][p].over,
           \A p \in Nodes : \A k \in 1..Len(remote[q][p]) :
              copies'[remote[q][p][k]][p] = copies[remote[q][p][k]][p]
    PROVE  Ordered(q)' /\ Partial(q)'
<1>1. Ordered(q)'
  BY DEF Ordered
<1>2. ASSUME NEW p \in Nodes, rpc'[q][p].over PROVE TakenPrefix(q, p)'
  <2>1. PICK k \in 1..rpc[q][p].i : \A m \in 1..rpc[q][p].i :
           copies[remote[q][p][m]][p] = 1 <=> m < k
    BY <1>2 DEF Partial, TakenPrefix
  <2>2. \A m \in 1..rpc[q][p].i : m \in 1..Len(remote[q][p])
    <3>1. rpc[q][p].i \in Nat /\ Len(remote[q][p]) \in Nat
      BY FieldTypes DEF IInv
    <3>2. rpc[q][p].i <= Len(remote[q][p])
      BY DEF IInv, Kept, Forwarded
    <3> QED BY <3>1, <3>2
  <2>3. \A m \in 1..rpc'[q][p].i : copies'[remote'[q][p][m]][p] = 1 <=> m < k
    BY <2>1, <2>2
  <2> QED BY <2>3 DEF TakenPrefix
<1> QED BY <1>1, <1>2 DEF Partial

\* While the body is read nothing is over.
LEMMA RefusalsReading ==
    ASSUME IInv, NEW r \in Requests, h[r].pc = "read", rpc' = rpc
    PROVE  Partial(r)'
<1>1. \A p \in Nodes : rpc[r][p] = NoRpc
  BY DEF IInv, Kept, Forwarded
<1> QED BY <1>1 DEF Partial, NoRpc

\* Reading a line stages it behind all that were read before.
LEMMA RefusalsRead ==
    ASSUME IInv, NEW r \in Requests, Ordered(r), ReadLine(r)
    PROVE  Ordered(r)' /\ Partial(r)'
<1> DEFINE j == h[r].i + 1
           e == <<r, j>>
           t == Owner(e)
           g == remote[r][t]
<1>1. h[r].pc = "read" /\ rpc' = rpc
  BY DEF ReadLine
<1>2. /\ h[r].i \in Nat /\ Len(Body[r]) \in Nat /\ h[r].i < Len(Body[r])
      /\ Staged(r) /\ Shape
  BY FieldTypes DEF IInv, Kept, ReadLine
<1>3. e \in EventsOf(r) /\ e[2] = j /\ e \in Events
  BY <1>2, EventFacts
<1>4. CASE remote' = remote
  BY <1>1, <1>4, RefusalsReading DEF Ordered
<1>5. CASE KeyOf(e) # BadLine /\ remote' = [remote EXCEPT ![r][t] = Append(@, e)]
  <2>1. t \in Nodes
    <3>1. e \in Valid(r)
      BY <1>3, <1>5 DEF Valid
    <3> QED BY <3>1, ValidFacts
  <2>2. g \in Seq(Events) /\ Len(g) \in Nat
    BY <1>2, <2>1, FieldTypes
  <2>3. /\ remote'[r][t] = Append(g, e)
        /\ \A p \in Nodes \ {t} : remote'[r][p] = remote[r][p]
    <3>1. remote \in [Requests -> [Nodes -> Seq(Events)]]
      BY <1>2 DEF Shape
    <3>2. /\ remote' = [remote EXCEPT ![r] = [remote[r] EXCEPT ![t] = Append(g, e)]]
          /\ remote[r] \in [Nodes -> Seq(Events)]
      BY <1>5, <3>1
    <3> HIDE DEF e, t, g
    <3>3. remote'[r] = [remote[r] EXCEPT ![t] = Append(g, e)]
      BY <3>1, <3>2
    <3> QED BY <2>1, <3>2, <3>3
  <2>4. /\ Len(remote'[r][t]) = Len(g) + 1 /\ remote'[r][t][Len(g) + 1] = e
        /\ \A k \in 1..Len(g) : remote'[r][t][k] = g[k]
    <3> HIDE DEF g, e, t
    <3> QED BY <1>3, <2>2, <2>3
  <2>5. \A k \in 1..Len(g) : g[k][2] <= h[r].i /\ g[k][2] \in Nat
    BY <1>1, <1>2, <2>1, EventFacts, ValidFacts DEF Staged
  <2>6. ASSUME NEW p \in Nodes, NEW k \in 1..Len(remote'[r][p]),
               NEW m \in 1..Len(remote'[r][p]), k < m
        PROVE  remote'[r][p][k][2] < remote'[r][p][m][2]
    <3>1. CASE p # t
      BY <2>3, <2>6, <3>1 DEF Ordered
    <3>2. CASE p = t /\ m \in 1..Len(g)
      <4>1. k \in 1..Len(g)
        BY <2>2, <2>4, <2>6, <3>2
      <4>2. g[k][2] < g[m][2]
        BY <2>1, <2>6, <3>2, <4>1 DEF Ordered
      <4> QED BY <2>4, <3>2, <4>1, <4>2
    <3>3. CASE p = t /\ m \notin 1..Len(g)
      <4>1. m = Len(g) + 1 /\ k \in 1..Len(g)
        <5>1. m \in 1..(Len(g) + 1) /\ k \in 1..(Len(g) + 1) /\ k < m /\ m \notin 1..Len(g)
          BY <2>4, <2>6, <3>3
        <5>2. Len(g) \in Nat
          BY <2>2
        <5> HIDE DEF g
        <5> QED BY <5>1, <5>2
      <4>2. remote'[r][p][m][2] = j /\ remote'[r][p][k][2] = g[k][2]
        BY <1>3, <2>4, <3>3, <4>1
      <4>3. g[k][2] <= h[r].i /\ g[k][2] \in Nat
        BY <2>5, <4>1
      <4>4. g[k][2] < j
        BY <1>2, <4>3
      <4> QED BY <4>2, <4>4
    <3> QED BY <3>1, <3>2, <3>3
  <2> QED BY <1>1, <2>6, RefusalsReading DEF Ordered
<1>6. remote' = remote \/ (KeyOf(e) # BadLine /\ remote' = [remote EXCEPT ![r][t] = Append(@, e)])
  <2>1. [h[r] EXCEPT !.i = @ + 1].i = j
    BY <1>2 DEF Shape, HandlerState
  <2> QED BY <2>1 DEF ReadLine
<1> QED BY <1>4, <1>5, <1>6

\* The first refused line is where the prefix ends.
LEMMA RefusalsPeerLine ==
    ASSUME IInv, NEW r \in Requests, NEW t \in Nodes, Ordered(r), Partial(r), PeerLine(r, t)
    PROVE  Ordered(r)' /\ Partial(r)'
<1> DEFINE c == rpc[r][t]
           g == remote[r][t]
           m == c.i + 1
           e == g[m]
<1>1. /\ c.i \in Nat /\ c.i < Len(g) /\ Len(g) \in Nat /\ m \in 1..Len(g)
      /\ c.over \in BOOLEAN /\ UNCHANGED <<h, remote, broke>> /\ Shape /\ Kept(r)
  BY FieldTypes DEF PeerLine, IInv
<1>2. e \in Valid(r) /\ e \in EventsOf(r) /\ e \in Events /\ Owner(e) = t /\ t # At[r]
  BY <1>1, ValidFacts, EventFacts DEF Kept, Staged
<1>3. /\ rpc'[r][t].i = m /\ rpc'[r][t].over = (c.over \/ ~Room(t))
      /\ \A p \in Nodes \ {t} : rpc'[r][p] = rpc[r][p]
  <2> DEFINE o == c.over \/ ~Room(t)
             x == [c EXCEPT !.i = m, !.over = o]
  <2>1. rpc' = [rpc EXCEPT ![r][t] = x]
    BY DEF PeerLine
  <2>2. m \in Nat /\ o \in BOOLEAN /\ c \in RpcState
    BY <1>1, FieldTypes
  <2> HIDE DEF m, o, c
  <2>3. x.i = m /\ x.over = o
    BY <2>2 DEF RpcState
  <2> HIDE DEF x
  <2> QED BY <1>1, <2>1, <2>3 DEF Shape, o
<1>4. /\ \A f \in Events, n \in Nodes : f # e \/ n # t => copies'[f][n] = copies[f][n]
      /\ c.over \/ ~Room(t) => copies' = copies
  <2>1. CASE c.over
    BY <2>1 DEF PeerLine
  <2>2. CASE ~c.over
    <3>1. Offer(t, e)
      BY <2>2 DEF PeerLine
    <3> HIDE DEF e
    <3> QED BY <1>1, <1>2, <2>2, <3>1, OfferEffect
  <2> QED BY <1>1, <2>1, <2>2
<1>5. \A p \in Nodes : \A k \in 1..Len(remote[r][p]) :
         remote[r][p][k] \in Events /\ (p # t \/ k # m => remote[r][p][k] # e \/ p # t)
  <2>1. \A p \in Nodes : \A k \in 1..Len(remote[r][p]) : remote[r][p][k] \in Events
    BY <1>1, ValidFacts, EventFacts DEF Kept, Staged
  <2>2. \A k \in 1..Len(g) : g[k] = e => k = m
    BY <1>1 DEF Kept, Staged
  <2> QED BY <2>1, <2>2
<1>6. copies[e][t] # 1
  <2>1. ~Self(e)
    BY <1>2, ValidFacts
  <2>2. ASSUME NEW k \in 1..c.i, g[k] = e PROVE FALSE
    <3>1. k \in 1..Len(g) /\ k # m
      BY <1>1
    <3> QED BY <1>1, <2>2, <3>1 DEF Kept, Staged
  <2>3. copies[e][t] = 1 => \E k \in 1..c.i : g[k] = e
    <3> HIDE DEF e
    <3>1. copies[e][Owner(e)] = 1 => \E k \in 1..rpc[r][Owner(e)].i : remote[r][Owner(e)][k] = e
      BY <1>1, <1>2, <2>1 DEF Kept, Copied
    <3> QED BY <1>2, <3>1
  <2> QED BY <2>2, <2>3
<1>7. ASSUME NEW p \in Nodes, rpc'[r][p].over PROVE TakenPrefix(r, p)'
  <2>1. CASE p # t
    <3>1. PICK k \in 1..rpc[r][p].i : \A l \in 1..rpc[r][p].i :
             copies[remote[r][p][l]][p] = 1 <=> l < k
      BY <1>3, <1>7, <2>1 DEF Partial, TakenPrefix
    <3>2. \A l \in 1..rpc[r][p].i : l \in 1..Len(remote[r][p])
      <4>1. rpc[r][p].i \in Nat /\ Len(remote[r][p]) \in Nat
        BY <1>1, FieldTypes
      <4>2. rpc[r][p].i <= Len(remote[r][p])
        BY <1>1 DEF Kept, Forwarded
      <4> QED BY <4>1, <4>2
    <3>3. \A l \in 1..rpc'[r][p].i : copies'[remote'[r][p][l]][p] = 1 <=> l < k
      BY <1>1, <1>3, <1>4, <1>5, <2>1, <3>1, <3>2
    <3> QED BY <1>3, <2>1, <3>3 DEF TakenPrefix
  <2>2. CASE p = t /\ c.over
    <3>1. PICK k \in 1..c.i : \A l \in 1..c.i : copies[g[l]][t] = 1 <=> l < k
      BY <2>2 DEF Partial, TakenPrefix
    <3>2. ASSUME NEW l \in 1..m PROVE copies[g[l]][t] = 1 <=> l < k
      <4>1. CASE l = m
        BY <1>1, <1>6, <4>1
      <4>2. CASE l # m
        BY <1>1, <3>1, <4>2
      <4> QED BY <4>1, <4>2
    <3>3. k \in 1..m
      BY <1>1
    <3>4. copies' = copies /\ remote' = remote /\ rpc'[r][p].i = m
      BY <1>1, <1>3, <1>4, <2>2
    <3> HIDE DEF m
    <3> QED BY <2>2, <3>2, <3>3, <3>4 DEF TakenPrefix
  <2>3. CASE p = t /\ ~c.over
    <3>1. copies' = copies /\ remote' = remote /\ rpc'[r][p].i = m
      BY <1>1, <1>3, <1>4, <1>7, <2>3
    <3>2. \A l \in 1..c.i : copies[g[l]][t] = 1
      BY <1>1, <2>3 DEF Kept, Copied
    <3>3. ASSUME NEW l \in 1..m PROVE copies[g[l]][t] = 1 <=> l < m
      <4>1. CASE l = m
        BY <1>1, <1>6, <4>1
      <4>2. CASE l # m
        BY <1>1, <3>2, <4>2
      <4> QED BY <4>1, <4>2
    <3>4. m \in 1..m
      BY <1>1
    <3> HIDE DEF m
    <3> QED BY <2>3, <3>1, <3>3, <3>4 DEF TakenPrefix
  <2> QED BY <1>1, <2>1, <2>2, <2>3
<1>8. Ordered(r)'
  BY <1>1 DEF Ordered
<1> QED BY <1>7, <1>8 DEF Partial

\* Lines processed locally leave the copies at peers alone.
LEMMA RefusalsLocal ==
    ASSUME IInv, NEW r \in Requests, Ordered(r), Partial(r), ProcessLocally(r)
    PROVE  Ordered(r)' /\ Partial(r)'
<1> DEFINE t == h[r].peer
           g == remote[r][t]
           m == h[r].i + 1
           e == g[m]
<1>1. /\ Shape /\ Kept(r) /\ t \in Nodes /\ At[r] \in Nodes /\ m \in 1..Len(g)
      /\ UNCHANGED <<remote, rpc>>
  BY FieldTypes DEF IInv, ProcessLocally
<1>2. e \in EventsOf(r)
  BY <1>1, ValidFacts DEF Kept, Staged
<1>3. Offer(At[r], e)
  <2>1. [h[r] EXCEPT !.i = @ + 1].i = m
    BY <1>1, FieldTypes DEF HandlerState
  <2> QED BY <2>1 DEF ProcessLocally
<1>4. \A f \in Events, n \in Nodes : n # At[r] => copies'[f][n] = copies[f][n]
  <2> HIDE DEF e
  <2> QED BY <1>1, <1>2, <1>3, OfferEffect
<1>5. \A p \in Nodes : \A k \in 1..Len(remote[r][p]) : remote[r][p][k] \in Events /\ p # At[r]
  BY <1>1, ValidFacts, EventFacts DEF Kept, Staged
<1> QED BY <1>1, <1>4, <1>5, RefusalsSame

\* Every step keeps both.
LEMMA RefusalsNext == IInv /\ Refusals /\ [Next]_vars => Refusals'
<1> SUFFICES ASSUME IInv, \A r \in Requests : Ordered(r) /\ Partial(r), [Next]_vars
             PROVE  Refusals'
  BY DEF Refusals
<1>0. Shape /\ \A r \in Requests : Kept(r)
  BY DEF IInv
<1>1. ASSUME NEW r \in Requests, Others(r), Ordered(r)' /\ Partial(r)' PROVE Refusals'
  <2>1. ASSUME NEW q \in Requests, q # r PROVE Ordered(q)' /\ Partial(q)'
    <3>1. Same(q)
      BY <1>1, <2>1 DEF Others
    <3>2. \A p \in Nodes : \A k \in 1..Len(remote[q][p]) : remote[q][p][k] \in EventsOf(q)
      BY <1>0, ValidFacts DEF Kept, Staged
    <3> QED BY <3>1, <3>2, RefusalsSame DEF Same
  <2> QED BY <1>1, <2>1 DEF Refusals
<1>2. ASSUME NEW r \in Requests, Others(r), UNCHANGED <<copies, remote>>,
             \A p \in Nodes : rpc'[r][p].i = rpc[r][p].i /\ rpc'[r][p].over = rpc[r][p].over
      PROVE  Refusals'
  <2>1. Ordered(r)' /\ Partial(r)'
    BY <1>2, RefusalsSame
  <2> QED BY <1>1, <1>2, <2>1
<1>3. ASSUME NEW r \in Requests, Handler(r) PROVE Refusals'
  <2>1. CASE ReadLine(r)
    BY <1>0, <1>1, <2>1, KeptRead, RefusalsRead
  <2>2. CASE EndOfBody(r)
    <3>1. Others(r)
      BY <1>0, <2>2, KeptEnd
    <3> QED BY <1>2, <2>2, <3>1 DEF EndOfBody
  <2>3. ASSUME NEW p \in Nodes, Forward(r, p) PROVE Refusals'
    <3>1. Others(r)
      BY <1>0, <2>3, KeptForward
    <3>2. \A q \in Nodes : rpc'[r][q].i = rpc[r][q].i /\ rpc'[r][q].over = rpc[r][q].over
      BY <1>0, <2>3 DEF Forward, Shape, RpcState
    <3> QED BY <1>2, <2>3, <3>1, <3>2 DEF Forward
  <2>4. CASE ForwardOK(r)
    <3>1. Others(r)
      BY <1>0, <2>4, KeptTaken
    <3> QED BY <1>2, <2>4, <3>1 DEF ForwardOK
  <2>5. CASE ForwardRefused(r)
    <3>1. Others(r)
      BY <1>0, <2>5, KeptRefused
    <3> QED BY <1>2, <2>5, <3>1 DEF ForwardRefused
  <2>6. CASE ForwardFails(r)
    <3>1. Others(r)
      BY <1>0, <2>6, KeptFails
    <3>2. \A q \in Nodes : rpc'[r][q].i = rpc[r][q].i /\ rpc'[r][q].over = rpc[r][q].over
      BY <1>0, <2>6 DEF ForwardFails, Shape, RpcState
    <3> QED BY <1>2, <2>6, <3>1, <3>2 DEF ForwardFails
  <2>7. CASE ProcessLocally(r)
    BY <1>0, <1>1, <2>7, KeptLocal, RefusalsLocal
  <2>8. CASE LocalDone(r) \/ Answer(r)
    <3>1. Others(r)
      BY <1>0, <2>8, KeptDone
    <3> QED BY <1>2, <2>8, <3>1 DEF LocalDone, Answer
  <2> QED BY <1>3, <2>1, <2>2, <2>3, <2>4, <2>5, <2>6, <2>7, <2>8 DEF Handler
<1>4. ASSUME NEW r \in Requests, NEW p \in Nodes, Peer(r, p) PROVE Refusals'
  <2>1. CASE PeerLine(r, p)
    BY <1>0, <1>1, <2>1, KeptPeerLine, RefusalsPeerLine
  <2>2. CASE PeerAnswer(r, p)
    <3>1. Others(r)
      BY <1>0, <2>2, KeptPeerAnswer
    <3>2. \A q \in Nodes : rpc'[r][q].i = rpc[r][q].i /\ rpc'[r][q].over = rpc[r][q].over
      BY <1>0, <2>2 DEF PeerAnswer, Shape, RpcState
    <3> QED BY <1>2, <2>2, <3>1, <3>2 DEF PeerAnswer
  <2> QED BY <1>4, <2>1, <2>2 DEF Peer
<1>5. ASSUME UNCHANGED <<copies, remote, rpc>> PROVE Refusals'
  <2>1. ASSUME NEW q \in Requests PROVE Ordered(q)' /\ Partial(q)'
    BY <1>5, RefusalsSame
  <2> QED BY <2>1 DEF Refusals
<1>6. ASSUME NEW n \in Nodes, Drain(n) PROVE Refusals'
  BY <1>5, <1>6 DEF Drain
<1>7. CASE UNCHANGED vars
  BY <1>5, <1>7 DEF vars
<1> QED BY <1>3, <1>4, <1>6, <1>7 DEF Next

\* So a peer that refused holds a prefix of its group, throughout.
THEOREM RefusalsCorrect == Spec => []Refusals
<1>1. Init => Refusals
  <2> SUFFICES ASSUME Init, NEW r \in Requests PROVE Ordered(r) /\ Partial(r)
    BY DEF Refusals
  <2>1. \A p \in Nodes : remote[r][p] = <<>> /\ rpc[r][p] = NoRpc
    BY DEF Init
  <2> QED BY <2>1 DEF Ordered, Partial, NoRpc
<1> QED BY <1>1, RefusalsNext, IInvCorrect, PTL DEF Spec

-----------------------------------------------------------------------------
(* What follows from it.                                                   *)

\* A node that has queued an event has done so once; the event is valid, and the
\* node is its owner or the node the client talks to, after the forward failed
\* or was refused.
LEMMA HolderFacts ==
    ASSUME IInv, NEW e \in Events, NEW n \in Holders(e)
    PROVE  /\ e[1] \in Requests /\ e \in Valid(e[1]) /\ n \in Nodes /\ copies[e][n] = 1
           /\ n = Owner(e) \/ (n = At[e[1]] /\ Fallback(e[1], Owner(e)))
<1>1. e[1] \in Requests /\ e \in EventsOf(e[1]) /\ n \in Nodes /\ copies[e][n] > 0
  BY EventFacts DEF Holders
<1>2. Copied(e[1])
  BY <1>1 DEF IInv, Kept
<1>3. copies[e][n] = 1
  <2>1. copies[e][n] \in {0, 1}
    BY <1>1, <1>2 DEF Copied
  <2> QED BY <1>1, <2>1
<1> QED BY <1>1, <1>2, <1>3 DEF Copied

\* An event that its own node or a peer is counted to have is held.
LEMMA CountedIsHeld ==
    ASSUME IInv, NEW r \in Requests
    PROVE  /\ \A e \in Own(r) \cup Away(r) : Holders(e) # {}
           /\ Own(r) \cap Away(r) = {}
<1>0. Kept(r) /\ At[r] \in Nodes
  BY FieldTypes DEF IInv
<1>1. \A e \in Own(r) : At[r] \in Holders(e)
  BY <1>0 DEF Own, Holders
<1>2. ASSUME NEW e \in Away(r) PROVE Holders(e) # {} /\ e \notin Own(r)
  <2>1. e \in EventsOf(r)
    BY DEF Away
  <2>2. PICK p \in Nodes : Confirmed(r, p) /\ \E k \in 1..Len(remote[r][p]) : remote[r][p][k] = e
    BY DEF Away
  <2>3. PICK k \in 1..Len(remote[r][p]) : remote[r][p][k] = e
    BY <2>2
  <2>4. rpc[r][p].i = Len(remote[r][p]) /\ ~rpc[r][p].over /\ <<r, p>> \notin broke
    BY <1>0, <2>2 DEF Kept, Forwarded, Confirmed
  <2>5. copies[e][p] = 1
    BY <1>0, <2>3, <2>4 DEF Kept, Copied
  <2>6. Owner(e) = p /\ p # At[r]
    BY <1>0, <2>3 DEF Kept, Staged
  <2>7. copies[e][At[r]] # 1
    <3>1. ~Fallback(r, p)
      BY <2>4 DEF Fallback, Refused
    <3> QED BY <1>0, <2>1, <2>6, <3>1 DEF Kept, Copied
  <2> QED BY <2>5, <2>7 DEF Holders, Own
<1> QED BY <1>1, <1>2

\* No queue overflows, no handler or forwarded request runs past its lines.
LEMMA TypeFacts == IInv => TypeOK
<1> SUFFICES ASSUME IInv PROVE TypeOK
  OBVIOUS
<1>1. \A n \in Nodes : queue[n] \in Seq(Events) /\ Len(queue[n]) <= Cap
  BY DEF IInv, Shape
<1>2. broke \subseteq Requests \X Nodes
  BY DEF IInv, Shape
<1>3. ASSUME NEW r \in Requests
      PROVE  /\ h[r].pc \in {"read", "next", "wait", "local", "done"}
             /\ {h[r].i, h[r].acc, h[r].fwd, h[r].rej} \subseteq 0..Len(Body[r])
             /\ remote[r][At[r]] = <<>>
             /\ \A p \in Nodes :
                   /\ rpc[r][p].st \in {"none", "sent", "answered", "lost"}
                   /\ rpc[r][p].i \in 0..Len(remote[r][p])
  <2>0. Shape /\ Kept(r)
    BY DEF IInv
  <2>1. /\ h[r].i \in Nat /\ h[r].acc \in Nat /\ h[r].fwd \in Nat /\ h[r].rej \in Nat
        /\ Len(Body[r]) \in Nat
    BY <2>0, FieldTypes
  <2>2. h[r].i <= Len(Body[r])
    BY <2>0 DEF Kept, Staged
  <2>3. Total(r) <= Len(Body[r])
    BY <2>0, <2>1, <2>2 DEF Kept, Tallied
  <2>4. {h[r].i, h[r].acc, h[r].fwd, h[r].rej} \subseteq 0..Len(Body[r])
    <3> DEFINE card == Cardinality(Pending(r))
    <3>1. Total(r) = h[r].acc + h[r].fwd + h[r].rej + card /\ card \in Nat
      BY SetsFinite DEF Total
    <3> HIDE DEF card
    <3> QED BY <2>1, <2>2, <2>3, <3>1
  <2>5. remote[r][At[r]] = <<>>
    <3>1. At[r] \in Nodes /\ remote[r][At[r]] \in Seq(Events) /\ Len(remote[r][At[r]]) \in Nat
      BY <2>0, FieldTypes
    <3>2. ~(1 \in 1..Len(remote[r][At[r]]))
      BY <2>0, <3>1 DEF Kept, Staged
    <3>3. Len(remote[r][At[r]]) = 0
      BY <3>1, <3>2
    <3> QED BY <3>1, <3>3
  <2>6. h[r].pc \in {"read", "next", "wait", "local", "done"}
    BY <2>0 DEF Shape, HandlerState
  <2>7. ASSUME NEW p \in Nodes
        PROVE  /\ rpc[r][p].st \in {"none", "sent", "answered", "lost"}
               /\ rpc[r][p].i \in 0..Len(remote[r][p])
    <3>1. rpc[r][p].i <= Len(remote[r][p])
      BY <2>0 DEF Kept, Forwarded
    <3>2. rpc[r][p].st \in {"none", "sent", "answered", "lost"}
      BY <2>0 DEF Shape, RpcState
    <3> QED BY <2>0, <3>1, <3>2, FieldTypes
  <2> QED BY <2>4, <2>5, <2>6, <2>7
<1> QED BY <1>1, <1>2, <1>3 DEF TypeOK

\* The counts of an answer are the sizes of disjoint sets of queued events, and a
\* 202 leaves no valid line out.
LEMMA ToldFacts ==
    ASSUME IInv, NEW r \in Requests, h[r].pc = "done"
    PROVE  /\ h[r].acc + h[r].fwd + h[r].rej <= Len(Body[r])
           /\ ~h[r].cut => h[r].acc + h[r].fwd + h[r].rej = Len(Body[r])
           /\ LET in == {e \in EventsOf(r) : Holders(e) # {}}
              IN /\ h[r].acc + h[r].fwd <= Cardinality(in)
                 /\ Status(r, h[r]) = "202" => in = {e \in EventsOf(r) : KeyOf(e) # BadLine}
<1> DEFINE in == {e \in EventsOf(r) : Holders(e) # {}}
<1>0. Shape /\ Kept(r)
  BY DEF IInv
<1>1. /\ h[r].acc \in Nat /\ h[r].fwd \in Nat /\ h[r].rej \in Nat /\ Len(Body[r]) \in Nat
      /\ h[r].cut \in BOOLEAN /\ h[r].over \in BOOLEAN
  BY <1>0, FieldTypes
<1>2. Pending(r) = {} /\ Total(r) = h[r].acc + h[r].fwd + h[r].rej
  <2>1. Pending(r) = {}
    BY <1>0 DEF Kept, Tallied
  <2>2. Cardinality(Pending(r)) = 0
    BY <2>1, FS_EmptySet
  <2> QED BY <1>1, <2>1, <2>2 DEF Total
<1>3. /\ h[r].acc + h[r].fwd + h[r].rej <= Len(Body[r])
      /\ ~h[r].cut => h[r].acc + h[r].fwd + h[r].rej = Len(Body[r])
  BY <1>0, <1>2 DEF Kept, Tallied
<1>4. Own(r) \cup Away(r) \subseteq in
  BY CountedIsHeld, SetsFinite
<1>5. h[r].acc + h[r].fwd <= Cardinality(in)
  <2>1. h[r].acc = Cardinality(Own(r)) /\ h[r].fwd = Cardinality(Away(r))
    BY <1>0 DEF Kept, Tallied
  <2>2. IsFiniteSet(in) /\ Cardinality(in) \in Nat
    BY EventsFinite
  <2>3. Cardinality(Own(r) \cup Away(r)) = Cardinality(Own(r)) + Cardinality(Away(r))
    <3>1. IsFiniteSet(Own(r)) /\ IsFiniteSet(Away(r)) /\ Own(r) \cap Away(r) = {}
      BY SetsFinite, CountedIsHeld
    <3>2. Cardinality(Own(r) \cup Away(r)) =
             Cardinality(Own(r)) + Cardinality(Away(r)) - Cardinality(Own(r) \cap Away(r))
      BY <3>1, FS_Union
    <3>3. Cardinality(Own(r) \cap Away(r)) = 0
      BY <3>1, FS_EmptySet
    <3> QED BY <3>2, <3>3, SetsFinite
  <2>4. Cardinality(Own(r) \cup Away(r)) <= Cardinality(in)
    BY <1>4, <2>2, FS_Subset
  <2> QED BY <2>1, <2>3, <2>4
<1>6. ASSUME Status(r, h[r]) = "202" PROVE in = {e \in EventsOf(r) : KeyOf(e) # BadLine}
  <2>1. ~h[r].cut /\ ~h[r].over
    BY <1>1, <1>6 DEF Status
  <2>2. Valid(r) \subseteq in
    <3>1. \A e \in Valid(r) : e \in Own(r) \cup Away(r) \cup Pending(r)
      BY <1>0, <2>1 DEF Kept, Complete, WasRead
    <3> QED BY <1>2, <1>4, <3>1
  <2>3. in \subseteq Valid(r)
    BY HolderFacts, EventFacts
  <2> QED BY <2>2, <2>3 DEF Valid
<1> QED BY <1>3, <1>5, <1>6

\* What a client is told is true: the counts of its answer add up, what they call
\* accepted or forwarded is in some node's pipeline, and a 202 leaves no valid line
\* of a batch out.
THEOREM ToldIsQueuedCorrect == Spec => []ToldIsQueued
<1>1. IInv => ToldIsQueued
  BY TypeFacts, ToldFacts DEF ToldIsQueued, CountsAddUp
<1> QED BY <1>1, IInvCorrect, PTL

\* A second copy of an event needs a forward that ended without an answer after it
\* reached the peer, or a refusal of a later line of the batch it came with.
THEOREM OneCopyCorrect == Spec => []OneCopy
<1>1. ASSUME IInv, Refusals, NEW e \in Events
      PROVE  /\ \A n \in Nodes : copies[e][n] <= 1
             /\ \A n, m \in Holders(e) : n # m =>
                   \/ /\ <<e[1], Owner(e)>> \in broke
                      /\ rpc[e[1]][Owner(e)].st # "lost"
                   \/ /\ Refused(e[1], Owner(e))
                      /\ \E f \in EventsOf(e[1]) :
                            /\ f[2] > e[2] /\ KeyOf(f) # BadLine
                            /\ Owner(f) = Owner(e) /\ Owner(e) \notin Holders(f)
  <2>0. e[1] \in Requests /\ e \in EventsOf(e[1]) /\ Shape /\ Kept(e[1])
    BY <1>1, EventFacts DEF IInv
  <2>1. \A n \in Nodes : copies[e][n] <= 1
    <3>1. \A n \in Nodes : copies[e][n] \in {0, 1}
      BY <2>0 DEF Kept, Copied
    <3> QED BY <3>1
  <2>2. ASSUME NEW n \in Holders(e), NEW m \in Holders(e), n # m
        PROVE  \/ /\ <<e[1], Owner(e)>> \in broke
                  /\ rpc[e[1]][Owner(e)].st # "lost"
               \/ /\ Refused(e[1], Owner(e))
                  /\ \E f \in EventsOf(e[1]) :
                        /\ f[2] > e[2] /\ KeyOf(f) # BadLine
                        /\ Owner(f) = Owner(e) /\ Owner(e) \notin Holders(f)
    <3> DEFINE r == e[1]
               t == Owner(e)
               g == remote[r][t]
    <3>1. /\ e \in Valid(r) /\ copies[e][n] = 1 /\ copies[e][m] = 1
          /\ n = t \/ (n = At[r] /\ Fallback(r, t))
          /\ m = t \/ (m = At[r] /\ Fallback(r, t))
      BY <1>1, <2>2, HolderFacts
    <3>2. Fallback(r, t) /\ t # At[r] /\ copies[e][t] = 1
      BY <2>2, <3>1
    <3>3. t \in Nodes /\ ~Self(e)
      BY <2>0, <3>1, <3>2, ValidFacts
    <3>4. PICK j \in 1..rpc[r][t].i : g[j] = e
      BY <2>0, <3>1, <3>2, <3>3 DEF Kept, Copied
    <3>5. rpc[r][t].st # "lost"
      <4>1. rpc[r][t].i # 0
        BY <3>4
      <4> QED BY <2>0, <3>3, <4>1 DEF Kept, Forwarded
    <3>6. CASE <<r, t>> \in broke
      BY <3>5, <3>6
    <3>7. CASE Refused(r, t)
      <4>1. Ordered(r) /\ TakenPrefix(r, t)
        BY <1>1, <2>0, <3>3, <3>7 DEF Refusals, Partial, Refused
      <4>2. PICK k \in 1..rpc[r][t].i : \A l \in 1..rpc[r][t].i : copies[g[l]][t] = 1 <=> l < k
        BY <4>1 DEF TakenPrefix
      <4>3. /\ rpc[r][t].i \in Nat /\ Len(g) \in Nat /\ rpc[r][t].i <= Len(g)
            /\ j \in 1..Len(g) /\ k \in 1..Len(g)
        <5>1. rpc[r][t].i \in Nat /\ Len(g) \in Nat
          BY <2>0, <3>3, FieldTypes
        <5>2. rpc[r][t].i <= Len(g)
          BY <2>0, <3>3 DEF Kept, Forwarded
        <5> QED BY <5>1, <5>2
      <4>4. j < k /\ copies[g[k]][t] # 1
        BY <3>2, <3>4, <4>2, <4>3
      <4>5. /\ g[k] \in Valid(r) /\ g[k] \in EventsOf(r) /\ Owner(g[k]) = t
            /\ KeyOf(g[k]) # BadLine
        BY <2>0, <3>3, <4>3, ValidFacts DEF Kept, Staged, Valid
      <4>6. g[j][2] < g[k][2] /\ g[j][2] \in Nat /\ g[k][2] \in Nat
        BY <2>0, <3>3, <3>4, <4>1, <4>3, <4>4, <4>5, EventFacts DEF Ordered
      <4>7. t \notin Holders(g[k])
        <5>1. copies[g[k]][t] = 0
          BY <2>0, <3>3, <4>4, <4>5 DEF Kept, Copied
        <5> QED BY <5>1 DEF Holders
      <4>8. g[k][2] > e[2]
        BY <3>4, <4>6
      <4> HIDE DEF g
      <4> QED BY <3>7, <4>5, <4>7, <4>8
    <3> QED BY <3>2, <3>6, <3>7 DEF Fallback
  <2> QED BY <2>1, <2>2
<1>2. IInv /\ Refusals => OneCopy
  BY <1>1 DEF OneCopy
<1> QED BY <1>2, IInvCorrect, RefusalsCorrect, PTL

\* Disagreeing views never scatter an entity's events: as long as forwards are answered
\* and not refused, its counter keys are incremented on its owner's node only.
THEOREM AtHomeCorrect == Spec => []AtHome
<1>1. ASSUME IInv, NEW e \in Events, NEW n \in Holders(e)
      PROVE  \/ n = Owner(e)
             \/ /\ n = At[e[1]]
                /\ <<e[1], Owner(e)>> \in broke \/ Refused(e[1], Owner(e))
  BY <1>1, HolderFacts DEF Fallback
<1>2. ASSUME IInv, NEW c \in CounterKeys, NEW k \in Keys, NEW o \in Nodes,
             \A j \in Keys : affineKey(c, j) => j = k,
             \A n \in Nodes : View[n][k] = o,
             \A r \in Requests : <<r, o>> \notin broke /\ ~Refused(r, o)
      PROVE  CounterNodes(c) \subseteq {o}
  <2> SUFFICES ASSUME NEW n \in CounterNodes(c) PROVE n = o
    OBVIOUS
  <2>1. PICK e \in Events : n \in Holders(e) /\ affineKey(c, KeyOf(e))
    BY DEF CounterNodes
  <2>2. /\ e[1] \in Requests /\ e \in Valid(e[1])
        /\ n = Owner(e) \/ <<e[1], Owner(e)>> \in broke \/ Refused(e[1], Owner(e))
    BY <1>1, <1>2, <2>1, HolderFacts
  <2>3. KeyOf(e) \in Keys
    <3>1. e[2] \in 1..Len(Body[e[1]]) /\ KeyOf(e) # BadLine
      BY <2>1, <2>2, EventFacts DEF Valid
    <3> QED BY <2>2, <3>1, RequestAssumption DEF KeyOf
  <2>4. KeyOf(e) = k
    BY <1>2, <2>1, <2>3
  <2>5. Owner(e) = o
    BY <1>2, <2>2, <2>4, RequestAssumption DEF Owner
  <2> QED BY <1>2, <2>2, <2>5
<1>3. IInv => AtHome
  <2> SUFFICES ASSUME IInv PROVE AtHome
    OBVIOUS
  <2>1. CountedOnOneNode
    BY <1>2 DEF CountedOnOneNode
  <2> QED BY <1>1, <2>1 DEF AtHome
<1> QED BY <1>3, IInvCorrect, PTL
==============================================================================
