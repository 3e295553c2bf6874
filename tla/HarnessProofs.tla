--------------------------- MODULE HarnessProofs ----------------------------
(***************************************************************************)
(* Machine-checked proofs about Harness: the shim's accounts, what its     *)
(* retries and the writer's webhooks may repeat, and what validate's       *)
(* report is worth, for every stream and every limit.                      *)
(***************************************************************************)
EXTENDS Harness, FunctionTheorems, SequenceTheorems, FiniteSetTheorems, TLAPS

-----------------------------------------------------------------------------
(* Finite sets and their sizes.                                            *)

\* A stream has finitely many events, and an event finitely many attempts.
LEMMA Finite ==
    /\ IsFiniteSet(Events)
    /\ IsFiniteSet(Requests)
<1> DEFINE n == Len(Stream)
           R == {Stream[i] : i \in 1..n}
           f == [i \in 1..n |-> Stream[i]]
<1>1. n \in Nat /\ DOMAIN Stream = 1..n
  BY ShimAssumption
<1>2. IsFiniteSet(1..n)
  BY <1>1, FS_Interval
<1>3. f \in Surjection(1..n, R)
  BY Fun_IsSurj
<1>4. IsFiniteSet(R)
  BY <1>2, <1>3, FS_Surjection
<1>5. Events \in SUBSET R
  BY <1>1 DEF Events
<1>6. IsFiniteSet(Events)
  BY <1>4, <1>5, FS_Subset
<1>7. IsFiniteSet(1..PostAttempts)
  BY FS_Interval, ShimAssumption
<1> QED BY <1>6, <1>7, FS_Product, ShimAssumption

\* The members whose value lies in V.
With(f, D, V) == {x \in D : f[x] \in V}

\* Changing one value changes the number of members with a value in V by that one.
LEMMA OneMoves ==
    ASSUME NEW D, IsFiniteSet(D), NEW f, NEW g, NEW V,
           NEW m \in D, \A x \in D : x # m => g[x] = f[x]
    PROVE  /\ IsFiniteSet(With(f, D, V)) /\ Cardinality(With(f, D, V)) \in Nat
           /\ Cardinality(With(g, D, V)) =
                Cardinality(With(f, D, V)) + (IF g[m] \in V THEN 1 ELSE 0)
                                           - (IF f[m] \in V THEN 1 ELSE 0)
<1> DEFINE S == With(f, D, V)
           U == With(g, D, V)
           y == g[m]
<1>1. S \in SUBSET D
  BY DEF With
<1>2. IsFiniteSet(S) /\ Cardinality(S) \in Nat
  BY <1>1, FS_Subset, FS_CardinalityType
<1>3. m \in S <=> f[m] \in V
  BY DEF With
<1>4. U = IF y \in V THEN S \cup {m} ELSE S \ {m}
  BY DEF With
<1>5. Cardinality(S \cup {m}) = IF m \in S THEN Cardinality(S) ELSE Cardinality(S) + 1
  BY <1>2, FS_AddElement
<1>6. Cardinality(S \ {m}) = IF m \in S THEN Cardinality(S) - 1 ELSE Cardinality(S)
  BY <1>2, FS_RemoveElement
<1> HIDE DEF S, U, y
<1>7. Cardinality(U) = Cardinality(S) + (IF y \in V THEN 1 ELSE 0)
                                      - (IF f[m] \in V THEN 1 ELSE 0)
  <2>1. CASE y \in V
    BY <1>2, <1>3, <1>4, <1>5, <2>1
  <2>2. CASE y \notin V
    BY <1>2, <1>3, <1>4, <1>6, <2>2
  <2> QED BY <2>1, <2>2
<1> QED BY <1>2, <1>7 DEF S, U, y

\* The same of the posters.
LEMMA PostCounts ==
    ASSUME NEW V, NEW m \in Events, \A x \in Events : x # m => post'[x] = post[x]
    PROVE  /\ Cardinality(With(post, Events, V)) \in Nat
           /\ Cardinality(With(post', Events, V)) =
                Cardinality(With(post, Events, V)) + (IF post'[m] \in V THEN 1 ELSE 0)
                                                   - (IF post[m] \in V THEN 1 ELSE 0)
  BY Finite, OneMoves

\* The rows of a finite set, counted verdict by verdict, are all of them.
LEMMA ByVerdict ==
    ASSUME NEW S \in SUBSET Requests
    PROVE  Cardinality({r \in S : VerdictOf[r] = "approve"})
             + Cardinality({r \in S : VerdictOf[r] = "block"})
             + Cardinality({r \in S : VerdictOf[r] = "review"}) = Cardinality(S)
<1> DEFINE P(v) == {r \in S : VerdictOf[r] = v}
<1>1. IsFiniteSet(S)
  BY Finite, FS_Subset
<1>2. \A v : IsFiniteSet(P(v)) /\ Cardinality(P(v)) \in Nat
  <2> SUFFICES ASSUME NEW v PROVE IsFiniteSet(P(v)) /\ Cardinality(P(v)) \in Nat
    OBVIOUS
  <2>1. P(v) \in SUBSET S
    OBVIOUS
  <2> QED BY <1>1, <2>1, FS_Subset, FS_CardinalityType
<1>3. S = (P("approve") \cup P("block")) \cup P("review")
  BY HookAssumption DEF Verdicts
<1>4. /\ P("approve") \cap P("block") = {}
      /\ (P("approve") \cup P("block")) \cap P("review") = {}
  OBVIOUS
<1> HIDE DEF P
<1> DEFINE A == P("approve") \cup P("block")
<1>5. IsFiniteSet(A) /\ Cardinality(A) =
          Cardinality(P("approve")) + Cardinality(P("block")) - Cardinality({})
  BY <1>2, <1>4, FS_Union
<1>6. Cardinality({}) = 0
  BY FS_EmptySet
<1>7. Cardinality(S) = Cardinality(A) + Cardinality(P("review")) - Cardinality({})
  <2>1. S = A \cup P("review") /\ A \cap P("review") = {}
    BY <1>3, <1>4
  <2> HIDE DEF A
  <2> QED BY <1>2, <1>5, <2>1, FS_Union
<1>8. Cardinality(P("approve")) + Cardinality(P("block")) + Cardinality(P("review"))
        = Cardinality(S)
  <2> HIDE DEF A
  <2> QED BY <1>2, <1>5, <1>6, <1>7
<1> QED BY <1>8 DEF P

-----------------------------------------------------------------------------
(* The inductive invariant.                                                *)

PostPC == {"none", "post", "back", "sent", "dropped"}
Fates == {"none", "skipped", "stored", "ignored", "lost"}
HookState == [pc : {"post", "back"}, n : 1..HookAttempts, unsure : BOOLEAN]
Counts == [sent : Nat, skipped : Nat, dropped : Nat, dispatched : Nat]

\* What the shim's variables hold.
ShimType ==
    /\ reader \in ReaderPC
    /\ cur \in Events \cup {NoMessage}
    /\ post \in [Events -> PostPC]
    /\ att \in [Events -> 0..PostAttempts]
    /\ count \in Counts
    /\ smain \in {"wait", "waitPosts", "exited"}
    /\ cancelled \in BOOLEAN

\* The events that were handed over are ones the stream has delivered, so that none
\* is handed over again, and the one in hand has no goroutine yet.
HandedOver(i) ==
    /\ unread = SubSeq(Stream, i + 1, Len(Stream))
    /\ \A m \in Events : post[m] # "none" \/ cur = m => \E j \in 1..i : Stream[j] = m
InHand ==
    /\ \E i \in 0..Len(Stream) : HandedOver(i)
    /\ reader = "acquire" <=> cur # NoMessage
    /\ cur # NoMessage => post[cur] = "none"
    /\ \A m \in Events : post[m] = "none" => att[m] = 0

\* The counters against the goroutines; past the head of the loop, the limit leaves
\* room for one event more.
Books ==
    /\ count.dispatched = count.sent + count.dropped
                             + Cardinality(With(post, Events, {"post", "back"}))
                             + (IF reader = "acquire" THEN 1 ELSE 0)
    /\ count.sent = Cardinality(With(post, Events, {"sent"}))
    /\ count.dropped = Cardinality(With(post, Events, {"dropped"}))
    /\ Cardinality(With(post, Events, {"post", "back"})) <= Concurrency
    /\ MaxEvents > 0 => count.dispatched <= MaxEvents
    /\ MaxEvents > 0 /\ reader = "read" => count.dispatched < MaxEvents

ShimInv == ShimType /\ InHand /\ Books

\* Attempts before the last were told to come back, later ones were not sent.
Attempts(m) ==
    /\ \A k \in 1..PostAttempts : k < att[m] => answer[<<m, k>>] = "busy"
    /\ \A k \in 1..PostAttempts : k > att[m] => answer[<<m, k>>] = "none"
    /\ post[m] = "back" => att[m] >= 1 /\ answer[<<m, att[m]>>] = "busy"
    /\ post[m] = "sent" => att[m] >= 1 /\ answer[<<m, att[m]>>] = "accepted"

\* The process takes what it has accepted, and decides about what it has taken.
Process ==
    /\ up \in BOOLEAN
    /\ answer \in [Requests -> Answers]
    /\ taken \subseteq Requests
    /\ fate \in [Requests -> Fates]
    /\ sending \subseteq taken
    /\ \A r \in taken : answer[r] = "accepted"
    /\ \A r \in Requests : fate[r] # "none" => r \in taken
    /\ \A r \in sending : fate[r] # "skipped"

\* A webhook goroutine: what the receiver has counted of its result, per attempt.
\* Without a lost answer nothing is counted while it still tries.
Tried(h, g, active) ==
    /\ h \in HookState /\ g \in 0..HookAttempts
    /\ ~h.unsure => g <= 1
    /\ active => g <= IF h.pc = "post" THEN h.n - 1 ELSE h.n
    /\ active /\ ~h.unsure => g = 0
    /\ h.pc = "back" => h.n < HookAttempts
    /\ ~active => h.pc = "post" /\ h.n = 1
HookInv ==
    /\ hook \in [Requests -> HookState]
    /\ got \in [Requests -> 0..HookAttempts]
    /\ \A r \in Requests : /\ Tried(hook[r], got[r], r \in sending)
                           /\ got[r] > 0 => r \in taken /\ fate[r] # "skipped"

\* While every answer has arrived, the receiver's counters are the results that
\* were counted once.
Sure == \A r \in Requests : ~hook[r].unsure
Once == With(got, Requests, {1})
OnceBy(v) == {r \in Once : VerdictOf[r] = v}
Receiver ==
    /\ recv \in [Verdicts \cup {"total"} -> Nat]
    /\ pipeCancelled \in BOOLEAN
    /\ Sure => /\ recv["total"] = Cardinality(Once)
               /\ \A v \in Verdicts : recv[v] = Cardinality(OnceBy(v))

\* The script: the shim has left before fruitfly is stopped, and the report was made
\* of the state that fruitfly left, which nothing changes any more.
Outcome == IF count.sent = 0 THEN "error" ELSE IF printReport THEN "pass" ELSE "fail"
ScriptInv ==
    /\ stage \in Stages
    /\ stage # "shim" => smain = "exited"
    /\ Reported <=> ~up
    /\ Reported => stage = Outcome

IInv ==
    /\ ShimInv
    /\ \A m \in Events : Attempts(m)
    /\ Process
    /\ HookInv
    /\ Receiver
    /\ ScriptInv

-----------------------------------------------------------------------------
(* The initial state.                                                      *)

\* Nothing was read, sent, answered or counted.
LEMMA IInvInit == Init => IInv
<1> SUFFICES ASSUME Init PROVE IInv
  OBVIOUS
<1> USE DEF Init, DInit, ShimInit, HookInit
<1>1. ShimType
  <2>1. PostAttempts \in Nat
    BY ShimAssumption
  <2>2. 0 \in 0..PostAttempts
    BY <2>1
  <2>3. count \in Counts
    BY DEF Counts
  <2>4. att \in [Events -> 0..PostAttempts] /\ post \in [Events -> PostPC]
    BY <2>2 DEF PostPC
  <2> QED BY <2>3, <2>4 DEF ShimType, ReaderPC
<1>2. InHand
  <2>1. unread = SubSeq(Stream, 1, Len(Stream)) /\ Len(Stream) \in Nat
    BY ShimAssumption, SubSeqFull
  <2>2. HandedOver(0)
    BY <2>1, ShimAssumption DEF HandedOver
  <2> QED BY <2>1, <2>2 DEF InHand
<1>3. Books
  <2>1. /\ With(post, Events, {"post", "back"}) = {} /\ With(post, Events, {"sent"}) = {}
        /\ With(post, Events, {"dropped"}) = {}
    BY DEF With
  <2>2. Cardinality({}) = 0
    BY FS_EmptySet
  <2>3. count.sent = 0 /\ count.dropped = 0 /\ count.dispatched = 0 /\ reader = "dial"
    OBVIOUS
  <2>4. MaxEvents \in Nat /\ Concurrency \in Nat
    BY ShimAssumption
  <2> HIDE DEF Init, DInit, ShimInit, HookInit
  <2> QED BY <2>1, <2>2, <2>3, <2>4 DEF Books
<1>4. \A m \in Events : Attempts(m)
  <2> SUFFICES ASSUME NEW m \in Events PROVE Attempts(m)
    OBVIOUS
  <2>1. \A k \in 1..PostAttempts : <<m, k>> \in Requests
    BY ShimAssumption
  <2> QED BY <2>1, ShimAssumption DEF Attempts
<1>5. Process
  BY DEF Process, Answers, Fates
<1>6. HookInv
  <2>1. HookAttempts \in Nat /\ HookAttempts >= 1
    BY HookAssumption
  <2>2. [pc |-> "post", n |-> 1, unsure |-> FALSE] \in HookState
    BY <2>1 DEF HookState
  <2> QED BY <2>1, <2>2 DEF HookInv, Tried
<1>7. Receiver
  <2>1. Once = {} /\ \A v : OnceBy(v) = {}
    BY DEF Once, OnceBy, With
  <2> QED BY <2>1, FS_EmptySet DEF Receiver
<1>8. ScriptInv
  BY DEF ScriptInv, Stages, Reported
<1> QED BY <1>1, <1>2, <1>3, <1>4, <1>5, <1>6, <1>7, <1>8 DEF IInv, ShimInv

-----------------------------------------------------------------------------
(* The shim's steps.                                                       *)

Others == <<deliveryVars, hookVars, stage>>

\* While the shim runs there is no report: its steps touch its own part only.
LEMMA ShimFrame ==
    ASSUME IInv, smain # "exited", UNCHANGED Others,
           ShimInv', \A m \in Events : Attempts(m)'
    PROVE  IInv'
<1>1. stage = "shim" /\ up /\ stage' = "shim" /\ up'
  BY DEF IInv, ScriptInv, Reported, Stages, Others, deliveryVars, Process
<1>2. ScriptInv'
  BY <1>1 DEF ScriptInv, Reported, Stages
<1>3. Process' /\ HookInv' /\ Receiver'
  BY DEF IInv, Process, HookInv, Receiver, Sure, Once, OnceBy, Others, deliveryVars, hookVars
<1> QED BY <1>2, <1>3 DEF IInv

\* The reader and main move without touching a message.
LEMMA ShimMoves ==
    ASSUME IInv, smain # "exited", UNCHANGED Others,
           UNCHANGED <<cur, unread, post, att, count>>,
           smain' \in {"wait", "waitPosts", "exited"}, cancelled' \in BOOLEAN,
           reader' \in ReaderPC, reader' = "acquire" <=> reader = "acquire",
           MaxEvents > 0 /\ reader' = "read" => count.dispatched < MaxEvents
    PROVE  IInv'
<1>1. ShimType'
  BY DEF IInv, ShimInv, ShimType
<1>2. InHand'
  BY DEF IInv, ShimInv, InHand, HandedOver
<1>3. Books'
  <2>1. Books
    BY DEF IInv, ShimInv
  <2> QED BY <2>1 DEF Books
<1>4. \A m \in Events : Attempts(m)'
  BY DEF IInv, Attempts, Others, deliveryVars
<1> QED BY <1>1, <1>2, <1>3, <1>4, ShimFrame DEF ShimInv

\* The reader dials, checks the limit, or loses the connection.
LEMMA ReaderSteps ==
    ASSUME IInv, Connect \/ Check \/ ReadError, UNCHANGED Others
    PROVE  IInv'
<1>1. smain # "exited" /\ UNCHANGED <<cur, unread, post, att, count, smain, cancelled>>
      /\ reader \in {"dial", "loop", "read"} /\ reader' \in {"dial", "loop", "read", "done"}
  BY DEF Connect, Check, ReadError, ShimUp
<1>2. MaxEvents > 0 /\ reader' = "read" => count.dispatched < MaxEvents
  <2>1. MaxEvents \in Nat /\ count.dispatched \in Nat
    BY ShimAssumption DEF IInv, ShimInv, ShimType, Counts
  <2> QED BY <2>1 DEF Connect, Check, ReadError
<1>3. smain \in {"wait", "waitPosts", "exited"} /\ cancelled \in BOOLEAN
  BY DEF IInv, ShimInv, ShimType
<1> QED BY <1>1, <1>2, <1>3, ShimMoves DEF ReaderPC

\* main is told to stop, or leaves.
LEMMA MainSteps ==
    ASSUME IInv, Signal \/ ShimMain, UNCHANGED Others
    PROVE  IInv'
<1>1. /\ smain # "exited" /\ UNCHANGED <<cur, unread, post, att, count, reader>>
      /\ smain' \in {"wait", "waitPosts", "exited"} /\ cancelled' \in BOOLEAN
  BY DEF Signal, ShimMain, ReaderDone, PostsDone, PostsTimeout, IInv, ShimInv, ShimType
<1>2. reader \in ReaderPC /\ (MaxEvents > 0 /\ reader = "read" => count.dispatched < MaxEvents)
  BY DEF IInv, ShimInv, ShimType, Books
<1> QED BY <1>1, <1>2, ShimMoves

\* What the stream delivers next was not delivered before.
LEMMA NextMessage ==
    ASSUME NEW i \in 0..Len(Stream), unread = SubSeq(Stream, i + 1, Len(Stream)),
           unread # <<>>
    PROVE  /\ i + 1 \in 1..Len(Stream)
           /\ Head(unread) = Stream[i + 1]
           /\ Tail(unread) = SubSeq(Stream, i + 2, Len(Stream))
           /\ \A j \in 1..i : Stream[j] # Head(unread)
<1>1. Stream \in Seq(Message) /\ Len(Stream) \in Nat /\ DOMAIN Stream = 1..Len(Stream)
  BY ShimAssumption
<1>2. i + 1 \in 1..Len(Stream)
  <2>1. i + 1 > Len(Stream) => SubSeq(Stream, i + 1, Len(Stream)) = <<>>
    BY <1>1, SubSeqEmpty
  <2> QED BY <1>1, <2>1
<1>3. Head(unread) = Stream[i + 1] /\ Tail(unread) = SubSeq(Stream, (i + 1) + 1, Len(Stream))
  BY <1>1, <1>2, HeadTailOfSubSeq
<1>4. \A j \in 1..i : Stream[j] # Stream[i + 1]
  BY <1>1, <1>2, ShimAssumption
<1>5. (i + 1) + 1 = i + 2
  OBVIOUS
<1> QED BY <1>2, <1>3, <1>4, <1>5

\* The reader takes the next message; an event it wants is in its hand.
LEMMA ReadMessageStep ==
    ASSUME IInv, ReadMessage, UNCHANGED Others
    PROVE  IInv'
<1>1. /\ smain # "exited" /\ reader = "read" /\ unread # <<>> /\ unread' = Tail(unread)
      /\ UNCHANGED <<post, att, smain, cancelled>>
  BY DEF ReadMessage, ShimUp
<1>2. ShimType /\ InHand /\ Books
  BY DEF IInv, ShimInv
<1>3. PICK i \in 0..Len(Stream) : HandedOver(i)
  BY <1>2 DEF InHand
<1>4. /\ i + 1 \in 1..Len(Stream) /\ Head(unread) = Stream[i + 1]
      /\ unread' = SubSeq(Stream, i + 2, Len(Stream))
      /\ \A j \in 1..i : Stream[j] # Head(unread)
  BY <1>1, <1>3, NextMessage DEF HandedOver
<1>5. cur = NoMessage
  BY <1>1, <1>2 DEF InHand
<1>6. \A m \in Events : Attempts(m)'
  BY <1>1 DEF IInv, Attempts, Others, deliveryVars
<1>7. /\ count.dispatched \in Nat /\ count.skipped \in Nat /\ MaxEvents \in Nat
      /\ count.sent \in Nat /\ count.dropped \in Nat
      /\ MaxEvents > 0 => count.dispatched < MaxEvents
  BY <1>1, <1>2, ShimAssumption DEF ShimType, Counts, Books
<1>8. i \in Nat /\ Len(Stream) \in Nat /\ (i + 1) + 1 = i + 2
  BY ShimAssumption
<1>9. i + 1 \in 0..Len(Stream) /\ unread' = SubSeq(Stream, (i + 1) + 1, Len(Stream))
  BY <1>4, <1>8
<1>10. CASE ~Wanted(Head(unread))
  <2>1. /\ count' = [count EXCEPT !.skipped = @ + 1] /\ reader' = "loop" /\ cur' = NoMessage
    BY <1>5, <1>10 DEF ReadMessage
  <2>2. count' \in Counts /\ count'.dispatched = count.dispatched /\ count'.sent = count.sent
        /\ count'.dropped = count.dropped
    BY <1>2, <1>7, <2>1 DEF ShimType, Counts
  <2>3. ShimType'
    BY <1>1, <1>2, <2>1, <2>2 DEF ShimType, ReaderPC
  <2>4. HandedOver(i + 1)'
    <3>1. \A m \in Events : post'[m] # "none" \/ cur' = m => \E j \in 1..i : Stream[j] = m
      BY <1>1, <1>3, <1>5, <2>1 DEF HandedOver
    <3>2. 1..i \subseteq 1..(i + 1)
      BY <1>8
    <3> QED BY <1>9, <3>1, <3>2 DEF HandedOver
  <2>5. InHand'
    BY <1>1, <1>2, <1>5, <1>9, <2>1, <2>4 DEF InHand
  <2>6. Books'
    BY <1>1, <1>2, <2>1, <2>2 DEF Books
  <2> QED BY <1>1, <1>6, <2>3, <2>5, <2>6, ShimFrame DEF ShimInv
<1>11. CASE Wanted(Head(unread))
  <2>1. PICK e : e = Head(unread)
    OBVIOUS
  <2>2. /\ count' = [count EXCEPT !.dispatched = @ + 1] /\ reader' = "acquire" /\ cur' = e
    BY <1>11, <2>1 DEF ReadMessage
  <2>3. e \in Events /\ e # NoMessage
    BY <1>4, <1>11, <2>1, ShimAssumption DEF Events
  <2>4. count' \in Counts /\ count'.dispatched = count.dispatched + 1
        /\ count'.sent = count.sent /\ count'.dropped = count.dropped
    BY <1>2, <1>7, <2>2 DEF ShimType, Counts
  <2>5. ShimType'
    BY <1>1, <1>2, <2>2, <2>3, <2>4 DEF ShimType, ReaderPC
  <2>6. post[e] = "none"
    BY <1>3, <1>4, <2>1, <2>3 DEF HandedOver
  <2>7. HandedOver(i + 1)'
    <3>1. ASSUME NEW m \in Events, post'[m] # "none" \/ cur' = m
          PROVE  \E j \in 1..(i + 1) : Stream[j] = m
      <4>1. CASE m = e
        <5>1. i + 1 \in 1..(i + 1) /\ Stream[i + 1] = e
          BY <1>4, <1>8, <2>1
        <5> QED BY <4>1, <5>1
      <4>2. CASE m # e
        <5>1. \E j \in 1..i : Stream[j] = m
          BY <1>1, <1>3, <2>2, <3>1, <4>2 DEF HandedOver
        <5> QED BY <1>8, <5>1
      <4> QED BY <4>1, <4>2
    <3> QED BY <1>9, <3>1 DEF HandedOver
  <2>8. InHand'
    BY <1>1, <1>2, <1>9, <2>2, <2>3, <2>6, <2>7 DEF InHand
  <2>9. Books'
    <3> DEFINE R == Cardinality(With(post, Events, {"post", "back"}))
    <3>1. post' = post /\ Books
      BY <1>1, <1>2
    <3>2. R \in Nat
      <4>1. With(post, Events, {"post", "back"}) \in SUBSET Events
        BY DEF With
      <4> QED BY <4>1, Finite, FS_Subset, FS_CardinalityType
    <3>3. count.dispatched = count.sent + count.dropped + R
      <4>1. count.dispatched = count.sent + count.dropped + R + 0
        BY <1>1, <3>1 DEF Books
      <4> HIDE DEF R
      <4> QED BY <1>7, <3>2, <4>1
    <3> HIDE DEF R
    <3>4. count'.dispatched = count'.sent + count'.dropped + R + 1
      BY <1>7, <2>4, <3>2, <3>3
    <3>5. MaxEvents > 0 => count'.dispatched <= MaxEvents
      BY <1>7, <2>4
    <3> QED BY <2>2, <2>4, <3>1, <3>4, <3>5 DEF Books, R
  <2> QED BY <1>1, <1>6, <2>5, <2>8, <2>9, ShimFrame DEF ShimInv
<1> QED BY <1>10, <1>11

\* A slot is free: the event's goroutine starts.
LEMMA AcquireStep ==
    ASSUME IInv, Acquire, UNCHANGED Others
    PROVE  IInv'
<1>1. /\ smain # "exited" /\ reader = "acquire" /\ reader' = "loop" /\ cur' = NoMessage
      /\ Cardinality(Running) < Concurrency
      /\ UNCHANGED <<unread, count, smain, cancelled>>
  BY DEF Acquire, ShimUp
<1>2. ShimType /\ InHand /\ Books
  BY DEF IInv, ShimInv
<1>3. PICK m \in Events : m = cur
  BY <1>1, <1>2 DEF ShimType, InHand
<1>4. post[m] = "none" /\ att[m] = 0 /\ m # NoMessage
  BY <1>1, <1>2, <1>3 DEF InHand
<1>5. PICK a \in {0, 1} : att' = [att EXCEPT ![m] = a]
  BY <1>3 DEF Acquire
<1>6. post' = [post EXCEPT ![m] = "post"]
  BY <1>3 DEF Acquire
<1>7. PostAttempts \in Nat \ {0} /\ a \in 0..PostAttempts
  BY ShimAssumption
<1>8. ShimType'
  BY <1>1, <1>2, <1>5, <1>6, <1>7 DEF ShimType, ReaderPC, PostPC
<1>9. /\ post'[m] = "post" /\ att'[m] = a
      /\ \A x \in Events : x # m => post'[x] = post[x] /\ att'[x] = att[x]
  BY <1>2, <1>5, <1>6 DEF ShimType
<1>10. InHand'
  <2>1. PICK i \in 0..Len(Stream) : HandedOver(i)
    BY <1>2 DEF InHand
  <2>2. HandedOver(i)'
    BY <1>1, <1>3, <1>9, <2>1, ShimAssumption DEF HandedOver
  <2>3. \A x \in Events : post'[x] = "none" => att'[x] = 0
    BY <1>2, <1>9 DEF InHand
  <2> QED BY <1>1, <2>2, <2>3 DEF InHand
<1>11. Books'
  <2> DEFINE C(V) == Cardinality(With(post, Events, V))
             D(V) == Cardinality(With(post', Events, V))
  <2>1. ASSUME NEW V
        PROVE  C(V) \in Nat /\ D(V) = C(V) + (IF "post" \in V THEN 1 ELSE 0)
                                           - (IF post[m] \in V THEN 1 ELSE 0)
    <3>1. m \in Events /\ post'[m] = "post" /\ \A x \in Events : x # m => post'[x] = post[x]
      BY <1>1, <1>9
    <3>2. /\ Cardinality(With(post, Events, V)) \in Nat
          /\ Cardinality(With(post', Events, V)) =
               Cardinality(With(post, Events, V)) + (IF post'[m] \in V THEN 1 ELSE 0)
                                                  - (IF post[m] \in V THEN 1 ELSE 0)
      BY <3>1, PostCounts, Zenon
    <3> QED BY <3>1, <3>2
  <2>2. /\ C({"post", "back"}) \in Nat /\ D({"post", "back"}) = C({"post", "back"}) + 1
        /\ D({"sent"}) = C({"sent"}) /\ D({"dropped"}) = C({"dropped"})
    <3> HIDE DEF C, D
    <3>1. C({"post", "back"}) \in Nat /\ C({"sent"}) \in Nat /\ C({"dropped"}) \in Nat
      BY <2>1
    <3>2. D({"post", "back"}) = C({"post", "back"}) + 1 - 0
      BY <1>4, <2>1
    <3>3. D({"sent"}) = C({"sent"}) + 0 - 0 /\ D({"dropped"}) = C({"dropped"}) + 0 - 0
      BY <1>4, <2>1
    <3> QED BY <3>1, <3>2, <3>3
  <2>3. C({"post", "back"}) < Concurrency
    BY <1>1 DEF Running, With
  <2>4. /\ count.dispatched = count.sent + count.dropped + C({"post", "back"}) + 1
        /\ count.sent = C({"sent"}) /\ count.dropped = C({"dropped"})
        /\ MaxEvents > 0 => count.dispatched <= MaxEvents
    BY <1>1, <1>2 DEF Books
  <2>5. count.sent \in Nat /\ count.dropped \in Nat /\ Concurrency \in Nat
    BY <1>2, ShimAssumption DEF ShimType, Counts
  <2> HIDE DEF C, D
  <2>6. count.dispatched = count.sent + count.dropped + D({"post", "back"}) + 0
    BY <2>2, <2>4, <2>5
  <2>7. D({"post", "back"}) <= Concurrency
    BY <2>2, <2>3, <2>5
  <2> QED BY <1>1, <2>2, <2>4, <2>6, <2>7 DEF Books, D
<1>12. \A x \in Events : Attempts(x)'
  <2> SUFFICES ASSUME NEW x \in Events PROVE Attempts(x)'
    OBVIOUS
  <2>1. answer' = answer /\ Attempts(x)
    BY DEF Others, deliveryVars, IInv
  <2>2. CASE x # m
    BY <1>9, <2>1, <2>2 DEF Attempts
  <2>3. CASE x = m
    BY <1>4, <1>7, <1>9, <2>1, <2>3 DEF Attempts
  <2> QED BY <2>2, <2>3
<1> QED BY <1>1, <1>8, <1>10, <1>11, <1>12, ShimFrame DEF ShimInv

\* A poster moves on: it keeps its slot, or gives it back and is counted.
LEMMA PosterMoves ==
    ASSUME IInv, smain # "exited", NEW m \in Running,
           NEW y \in {"post", "back", "sent", "dropped"}, NEW a \in 0..PostAttempts,
           post' = [post EXCEPT ![m] = y], att' = [att EXCEPT ![m] = a],
           count' \in Counts, count'.dispatched = count.dispatched,
           count'.sent = count.sent + (IF y = "sent" THEN 1 ELSE 0),
           count'.dropped = count.dropped + (IF y = "dropped" THEN 1 ELSE 0),
           Attempts(m)',
           UNCHANGED <<reader, cur, unread, smain, cancelled>>, UNCHANGED Others
    PROVE  IInv'
<1>1. m \in Events /\ post[m] \in {"post", "back"}
  BY DEF Running
<1>2. ShimType /\ InHand /\ Books
  BY DEF IInv, ShimInv
<1>3. ShimType'
  BY <1>1, <1>2 DEF ShimType, PostPC
<1>4. /\ post'[m] = y /\ att'[m] = a
      /\ \A x \in Events : x # m => post'[x] = post[x] /\ att'[x] = att[x]
  BY <1>1, <1>2 DEF ShimType
<1>5. InHand'
  <2>1. PICK i \in 0..Len(Stream) : HandedOver(i)
    BY <1>2 DEF InHand
  <2>2. HandedOver(i)'
    BY <1>1, <1>4, <2>1 DEF HandedOver
  <2>3. \A x \in Events : post'[x] = "none" => att'[x] = 0
    BY <1>2, <1>4 DEF InHand
  <2>4. cur # NoMessage => post'[cur] = "none"
    BY <1>1, <1>2, <1>4 DEF InHand, ShimType
  <2> QED BY <1>2, <2>2, <2>3, <2>4 DEF InHand
<1>6. Books'
  <2> DEFINE C(V) == Cardinality(With(post, Events, V))
             D(V) == Cardinality(With(post', Events, V))
             PB == {"post", "back"}
  <2>1. ASSUME NEW V
        PROVE  C(V) \in Nat /\ D(V) = C(V) + (IF y \in V THEN 1 ELSE 0)
                                           - (IF post[m] \in V THEN 1 ELSE 0)
    <3>1. m \in Events /\ post'[m] = y /\ \A x \in Events : x # m => post'[x] = post[x]
      BY <1>1, <1>4
    <3>2. /\ Cardinality(With(post, Events, V)) \in Nat
          /\ Cardinality(With(post', Events, V)) =
               Cardinality(With(post, Events, V)) + (IF post'[m] \in V THEN 1 ELSE 0)
                                                  - (IF post[m] \in V THEN 1 ELSE 0)
      BY <3>1, PostCounts, Zenon
    <3> QED BY <3>1, <3>2
  <2>2. /\ count.dispatched = count.sent + count.dropped + C(PB)
                                + (IF reader = "acquire" THEN 1 ELSE 0)
        /\ count.sent = C({"sent"}) /\ count.dropped = C({"dropped"})
        /\ C(PB) <= Concurrency
        /\ MaxEvents > 0 => count.dispatched <= MaxEvents
        /\ MaxEvents > 0 /\ reader = "read" => count.dispatched < MaxEvents
    BY <1>2 DEF Books
  <2>3. count.sent \in Nat /\ count.dropped \in Nat /\ Concurrency \in Nat
    BY <1>2, ShimAssumption DEF ShimType, Counts
  <2> HIDE DEF C, D
  <2>4. C(PB) \in Nat /\ D(PB) = C(PB) + (IF y \in PB THEN 1 ELSE 0) - 1
    BY <1>1, <2>1
  <2>5. D({"sent"}) = count'.sent
    <3>1. C({"sent"}) \in Nat /\ D({"sent"}) = C({"sent"}) + (IF y = "sent" THEN 1 ELSE 0) - 0
      BY <1>1, <2>1
    <3> QED BY <2>2, <3>1
  <2>6. D({"dropped"}) = count'.dropped
    <3>1. /\ C({"dropped"}) \in Nat
          /\ D({"dropped"}) = C({"dropped"}) + (IF y = "dropped" THEN 1 ELSE 0) - 0
      BY <1>1, <2>1
    <3> QED BY <2>2, <3>1
  <2>7. count'.dispatched = count'.sent + count'.dropped + D(PB)
                              + (IF reader' = "acquire" THEN 1 ELSE 0)
    <3>1. CASE y \in PB
      BY <2>2, <2>3, <2>4, <3>1
    <3>2. CASE y = "sent"
      BY <2>2, <2>3, <2>4, <3>2
    <3>3. CASE y = "dropped"
      BY <2>2, <2>3, <2>4, <3>3
    <3> QED BY <3>1, <3>2, <3>3
  <2>8. D(PB) <= Concurrency
    BY <2>2, <2>3, <2>4
  <2> QED BY <2>2, <2>5, <2>6, <2>7, <2>8 DEF Books, D
<1>7. \A x \in Events : Attempts(x)'
  <2> SUFFICES ASSUME NEW x \in Events PROVE Attempts(x)'
    OBVIOUS
  <2>1. answer' = answer /\ Attempts(x)
    BY DEF Others, deliveryVars, IInv
  <2>2. CASE x # m
    BY <1>4, <2>1, <2>2 DEF Attempts
  <2>3. CASE x = m
    BY <2>3
  <2> QED BY <2>2, <2>3
<1> QED BY <1>3, <1>5, <1>6, <1>7, ShimFrame DEF ShimInv

\* A poster reads its answer, gives up, or tries again: a further attempt is made
\* only after the one before it was told to come back.
LEMMA PosterStep ==
    ASSUME IInv, NEW m \in Running, Poster(m), UNCHANGED Others
    PROVE  IInv'
<1>1. m \in Events /\ post[m] \in {"post", "back"}
  BY DEF Running
<1>2. ShimType /\ Attempts(m) /\ answer' = answer
  BY <1>1 DEF IInv, ShimInv, Others, deliveryVars
<1>3. att[m] \in 0..PostAttempts /\ att \in [Events -> 0..PostAttempts]
      /\ post \in [Events -> PostPC] /\ PostAttempts \in Nat
  BY <1>1, <1>2, ShimAssumption DEF ShimType
<1>4. smain # "exited" /\ UNCHANGED <<reader, cur, unread, smain, cancelled>>
  BY DEF Poster, PostAccepted, PostBusy, PostError, BackoffOver, Drop, ShimUp
<1>5. count \in Counts /\ count.sent \in Nat /\ count.dropped \in Nat
  BY <1>2 DEF ShimType, Counts
<1>6. att = [att EXCEPT ![m] = att[m]]
  BY <1>1, <1>3
<1>7. CASE PostAccepted(m)
  <2>1. /\ post' = [post EXCEPT ![m] = "sent"] /\ att' = att /\ count' \in Counts
        /\ count'.dispatched = count.dispatched /\ count'.sent = count.sent + 1
        /\ count'.dropped = count.dropped + 0
    BY <1>5, <1>7 DEF PostAccepted, Counts
  <2>2. att[m] >= 1 /\ answer[<<m, att[m]>>] = "accepted"
    BY <1>3, <1>7 DEF PostAccepted, Told
  <2>3. Attempts(m)'
    BY <1>1, <1>2, <1>3, <2>1, <2>2 DEF Attempts
  <2> QED BY <1>3, <1>4, <1>6, <2>1, <2>3, PosterMoves
<1>8. CASE PostBusy(m)
  <2>1. post' = [post EXCEPT ![m] = "back"] /\ att' = att /\ count' = count
    BY <1>8 DEF PostBusy
  <2>2. att[m] >= 1 /\ answer[<<m, att[m]>>] = "busy"
    BY <1>3, <1>8 DEF PostBusy, Told
  <2>3. Attempts(m)'
    BY <1>1, <1>2, <1>3, <2>1, <2>2 DEF Attempts
  <2>4. count'.sent = count.sent + 0 /\ count'.dropped = count.dropped + 0
    BY <1>5, <2>1
  <2> QED BY <1>3, <1>4, <1>5, <1>6, <2>1, <2>3, <2>4, PosterMoves
<1>9. CASE Drop(m)
  <2>1. /\ post' = [post EXCEPT ![m] = "dropped"] /\ att' = att /\ count' \in Counts
        /\ count'.dispatched = count.dispatched /\ count'.dropped = count.dropped + 1
        /\ count'.sent = count.sent + 0
    BY <1>5, <1>9 DEF Drop, Counts
  <2>2. Attempts(m)'
    BY <1>1, <1>2, <1>3, <2>1 DEF Attempts
  <2> QED BY <1>3, <1>4, <1>6, <2>1, <2>2, PosterMoves
<1>10. CASE /\ post[m] = "back" /\ att[m] < PostAttempts /\ att' = [att EXCEPT ![m] = @ + 1]
            /\ post' = [post EXCEPT ![m] = "post"] /\ count' = count
  <2>1. PICK a \in 0..PostAttempts : a = att[m] + 1
    BY <1>3, <1>10
  <2>2. att' = [att EXCEPT ![m] = a]
    BY <1>10, <2>1
  <2>3. Attempts(m)'
    <3>1. att'[m] = a /\ post'[m] = "post"
      BY <1>1, <1>3, <1>10, <2>2
    <3>2. answer[<<m, att[m]>>] = "busy" /\ att[m] \in 1..PostAttempts
      BY <1>2, <1>3, <1>10 DEF Attempts
    <3>3. \A k \in 1..PostAttempts : k < a => answer[<<m, k>>] = "busy"
      <4> SUFFICES ASSUME NEW k \in 1..PostAttempts, k < a PROVE answer[<<m, k>>] = "busy"
        OBVIOUS
      <4>1. k < att[m] \/ k = att[m]
        BY <1>3, <2>1
      <4> QED BY <1>2, <3>2, <4>1 DEF Attempts
    <3>4. \A k \in 1..PostAttempts : k > a => k > att[m]
      BY <1>3, <2>1
    <3> QED BY <1>2, <3>1, <3>3, <3>4 DEF Attempts
  <2>4. count'.sent = count.sent + 0 /\ count'.dropped = count.dropped + 0
    BY <1>5, <1>10
  <2> QED BY <1>4, <1>5, <1>10, <2>2, <2>3, <2>4, PosterMoves
<1> QED BY <1>7, <1>8, <1>9, <1>10 DEF Poster, PostError, BackoffOver

\* Every step of the shim.
LEMMA ShimStep ==
    ASSUME IInv, ShimNext, UNCHANGED Others
    PROVE  IInv'
  BY ReaderSteps, ReadMessageStep, AcquireStep, PosterStep, MainSteps DEF ShimNext, Reader

-----------------------------------------------------------------------------
(* The process's steps.                                                    *)

\* A step of the process or of a webhook leaves the shim alone, and a process that
\* runs was not reported on.
LEMMA ProcessFrame ==
    ASSUME IInv, up, up' = up, stage' = stage, UNCHANGED shimVars,
           \A m \in Events : Attempts(m)', Process', HookInv', Receiver'
    PROVE  IInv'
<1>1. ShimInv'
  BY DEF IInv, ShimInv, ShimType, InHand, HandedOver, Books, shimVars
<1>2. ScriptInv'
  BY DEF IInv, ScriptInv, Reported, shimVars
<1> QED BY <1>1, <1>2 DEF IInv

\* The last attempt that was sent is answered.
LEMMA ServeStep ==
    ASSUME IInv, NEW r \in Requests, Serve(r)
    PROVE  IInv'
<1>1. /\ up /\ answer[r] = "none" /\ att[r[1]] >= r[2]
      /\ UNCHANGED <<up, taken, fate, sending>> /\ UNCHANGED <<shimVars, hookVars, stage>>
  BY DEF Serve, Answer
<1>2. PICK a \in Answers \ {"none"} : answer' = [answer EXCEPT ![r] = a]
  BY DEF Serve, Answer
<1>3. Process
  BY DEF IInv
<1>4. /\ answer'[r] = a /\ answer' \in [Requests -> Answers]
      /\ \A q \in Requests : q # r => answer'[q] = answer[q]
  BY <1>2, <1>3 DEF Process
<1>5. Process'
  BY <1>1, <1>3, <1>4 DEF Process
<1>6. \A m \in Events : Attempts(m)'
  <2> SUFFICES ASSUME NEW m \in Events PROVE Attempts(m)'
    OBVIOUS
  <2>1. Attempts(m) /\ att' = att /\ post' = post
    BY <1>1 DEF IInv, shimVars
  <2>2. att[m] \in 0..PostAttempts /\ PostAttempts \in Nat
    BY ShimAssumption DEF IInv, ShimInv, ShimType
  <2>3. /\ r \in Events \X (1..PostAttempts)
        /\ \A k \in 1..PostAttempts : <<m, k>> \in Requests
    BY ShimAssumption
  <2>4. \A k \in 1..PostAttempts : answer[<<m, k>>] # "none" =>
                                     answer'[<<m, k>>] = answer[<<m, k>>]
    BY <1>1, <1>4, <2>3
  <2>5. \A k \in 1..PostAttempts : k > att[m] => <<m, k>> # r
    BY <1>1, <2>2, <2>3
  <2>6. \A k \in 1..PostAttempts : k > att[m] => answer'[<<m, k>>] = "none"
    BY <1>4, <2>1, <2>3, <2>5 DEF Attempts
  <2>7. \A k \in 1..PostAttempts : k < att[m] => answer'[<<m, k>>] = "busy"
    BY <2>1, <2>4 DEF Attempts
  <2>8. att[m] >= 1 => att[m] \in 1..PostAttempts
    BY <2>2
  <2> QED BY <2>1, <2>4, <2>6, <2>7, <2>8 DEF Attempts
<1>7. HookInv' /\ Receiver'
  BY <1>1 DEF IInv, HookInv, Receiver, Sure, Once, OnceBy, hookVars
<1> QED BY <1>1, <1>5, <1>6, <1>7, ProcessFrame

\* A transaction decides about the results it is given and no others.
LEMMA SettleFacts ==
    ASSUME Process, NEW S \in SUBSET Requests, Settle(S)
    PROVE  /\ fate' \in [Requests -> Fates]
           /\ \A r \in Requests : r \notin S => fate'[r] = fate[r]
           /\ \A r \in S : fate'[r] \in {"stored", "ignored", "lost"}
<1>1. CASE fate' = [r \in Requests |-> IF r \in S THEN "lost" ELSE fate[r]]
  BY <1>1 DEF Process, Fates
<1>2. ASSUME NEW new \in SUBSET S,
             fate' = [r \in Requests |-> IF r \in new THEN "stored"
                                         ELSE IF r \in S THEN "ignored" ELSE fate[r]]
      PROVE  /\ fate' \in [Requests -> Fates]
             /\ \A r \in Requests : r \notin S => fate'[r] = fate[r]
             /\ \A r \in S : fate'[r] \in {"stored", "ignored", "lost"}
  BY <1>2 DEF Process, Fates
<1> QED BY <1>1, <1>2 DEF Settle

\* What the writer decides keeps the webhooks' facts: a result that is skipped has
\* no goroutine and was not counted; a goroutine that starts finds nothing counted.
LEMMA WriterKeeps ==
    ASSUME IInv, Process', UNCHANGED hookVars, taken \subseteq taken',
           \A r \in taken : fate[r] # "skipped" => fate'[r] # "skipped",
           \A r \in Requests : (r \in sending') # (r \in sending) =>
                                  r \notin taken /\ r \in sending'
    PROVE  HookInv' /\ Receiver'
<1>1. HookInv /\ Process
  BY DEF IInv
<1>2. hook' = hook /\ got' = got /\ recv' = recv /\ pipeCancelled' = pipeCancelled
  BY DEF hookVars
<1>3. Receiver'
  BY <1>2 DEF IInv, Receiver, Sure, Once, OnceBy
<1>4. ASSUME NEW r \in Requests
      PROVE  /\ Tried(hook[r], got[r], r \in sending')
             /\ got[r] > 0 => r \in taken' /\ fate'[r] # "skipped"
  <2>1. /\ Tried(hook[r], got[r], r \in sending)
        /\ got[r] > 0 => r \in taken /\ fate[r] # "skipped"
    BY <1>1 DEF HookInv
  <2>2. got[r] > 0 => r \in taken' /\ fate'[r] # "skipped"
    BY <2>1
  <2>3. CASE (r \in sending') = (r \in sending)
    BY <2>1, <2>2, <2>3
  <2>4. CASE (r \in sending') # (r \in sending)
    <3>1. r \notin taken /\ r \in sending' /\ r \notin sending
      BY <1>1, <2>4 DEF Process
    <3>2. got[r] = 0
      BY <1>1, <2>1, <3>1, HookAssumption DEF HookInv
    <3> QED BY <2>1, <2>2, <3>1, <3>2 DEF Tried, HookState
  <2> QED BY <2>3, <2>4
<1> QED BY <1>1, <1>2, <1>3, <1>4 DEF HookInv

\* The writer takes a result, or settles those that wait.
LEMMA WriteStep ==
    ASSUME IInv, Write
    PROVE  IInv'
<1>1. up /\ up' = up /\ answer' = answer /\ UNCHANGED <<shimVars, hookVars, stage>>
  BY DEF Write, Flushed, Take
<1>2. Process
  BY DEF IInv
<1>3. \A m \in Events : Attempts(m)'
  BY <1>1 DEF IInv, Attempts, shimVars
<1>4. CASE Flushed
  <2>1. Waiting \in SUBSET Requests
    BY <1>2 DEF Waiting, Process
  <2>2. /\ fate' \in [Requests -> Fates]
        /\ \A r \in Requests : r \notin Waiting => fate'[r] = fate[r]
        /\ \A r \in Waiting : fate'[r] \in {"stored", "ignored", "lost"}
    BY <1>2, <1>4, <2>1, SettleFacts DEF Flushed
  <2>3. taken' = taken /\ sending' = sending
    BY <1>4 DEF Flushed
  <2>4. Process'
    BY <1>1, <1>2, <2>1, <2>2, <2>3 DEF Process, Waiting
  <2>5. \A r \in taken : fate[r] # "skipped" => fate'[r] # "skipped"
    BY <1>2, <2>2 DEF Process
  <2>6. HookInv' /\ Receiver'
    BY <1>1, <2>3, <2>4, <2>5, WriterKeeps
  <2> QED BY <1>1, <1>3, <2>4, <2>6, ProcessFrame
<1>5. ASSUME NEW r \in Requests, Take(r) PROVE IInv'
  <2>1. answer[r] = "accepted" /\ r \notin taken /\ taken' = taken \cup {r} /\ fate[r] = "none"
    BY <1>2, <1>5 DEF Take, Process
  <2>2. sending' = sending \/ sending' = sending \cup {r}
    BY <1>5 DEF Take
  <2>3. CASE fate' = [fate EXCEPT ![r] = "skipped"] /\ sending' = sending
    <3>1. /\ fate' \in [Requests -> Fates] /\ fate'[r] = "skipped"
          /\ \A q \in Requests : q # r => fate'[q] = fate[q]
      BY <1>2, <2>3 DEF Process, Fates
    <3>2. Process'
      BY <1>1, <1>2, <2>1, <2>3, <3>1 DEF Process
    <3>3. \A q \in taken : fate[q] # "skipped" => fate'[q] # "skipped"
      BY <1>2, <2>1, <3>1 DEF Process
    <3>4. HookInv' /\ Receiver'
      BY <1>1, <2>1, <2>3, <3>2, <3>3, WriterKeeps
    <3> QED BY <1>1, <1>3, <3>2, <3>4, ProcessFrame
  <2>4. CASE fate' = fate \/ Settle(Waiting \cup {r})
    <3> DEFINE W == Waiting \cup {r}
    <3>1. W \in SUBSET Requests /\ W \subseteq taken'
      BY <1>2, <2>1 DEF Waiting, Process
    <3>2. /\ fate' \in [Requests -> Fates]
          /\ \A q \in Requests : q \notin W => fate'[q] = fate[q]
          /\ \A q \in W : fate'[q] \in {"none", "stored", "ignored", "lost"}
      <4>1. CASE fate' = fate
        BY <1>2, <2>1, <4>1 DEF Waiting, Process
      <4>2. CASE Settle(W)
        BY <1>2, <3>1, <4>2, SettleFacts
      <4> QED BY <2>4, <4>1, <4>2
    <3> HIDE DEF W
    <3>3. \A q \in Requests : fate'[q] # "skipped" \/ fate'[q] = fate[q]
      BY <3>2
    <3>4. Process'
      <4>1. sending' \subseteq taken' /\ taken' \subseteq Requests
        BY <1>2, <2>1, <2>2 DEF Process
      <4>2. \A q \in taken' : answer'[q] = "accepted"
        BY <1>1, <1>2, <2>1 DEF Process
      <4>3. \A q \in Requests : fate'[q] # "none" => q \in taken'
        BY <1>2, <2>1, <3>1, <3>2 DEF Process
      <4>4. \A q \in sending' : fate'[q] # "skipped"
        BY <1>2, <2>1, <2>2, <3>3 DEF Process
      <4> QED BY <1>1, <1>2, <3>2, <4>1, <4>2, <4>3, <4>4 DEF Process
    <3>5. \A q \in taken : fate[q] # "skipped" => fate'[q] # "skipped"
      BY <1>2, <3>3 DEF Process
    <3>6. HookInv' /\ Receiver'
      BY <1>1, <2>1, <2>2, <3>4, <3>5, WriterKeeps
    <3> QED BY <1>1, <1>3, <3>4, <3>6, ProcessFrame
  <2> QED BY <1>5, <2>3, <2>4 DEF Take
<1> QED BY <1>4, <1>5 DEF Write

-----------------------------------------------------------------------------
(* The webhooks' steps.                                                    *)

\* The receiver counts a result: if no answer was lost, it is one it had not counted.
LEMMA Counted ==
    ASSUME IInv, NEW r \in Requests, handleWebhook(r), Sure,
           got[r] = 0
    PROVE  /\ recv'["total"] = Cardinality(Once')
           /\ \A v \in Verdicts : recv'[v] = Cardinality(OnceBy(v)')
<1>1. got \in [Requests -> 0..HookAttempts] /\ recv \in [Verdicts \cup {"total"} -> Nat]
  BY DEF IInv, HookInv, Receiver
<1>2. /\ recv["total"] = Cardinality(Once)
      /\ \A v \in Verdicts : recv[v] = Cardinality(OnceBy(v))
  BY DEF IInv, Receiver
<1>3. VerdictOf[r] \in Verdicts /\ HookAttempts \in Nat \ {0}
  BY HookAssumption
<1>4. got'[r] = 1 /\ \A q \in Requests : q # r => got'[q] = got[q]
  BY <1>1 DEF handleWebhook
<1>5. Once' = Once \cup {r} /\ r \notin Once /\ Once \in SUBSET Requests
  BY <1>4 DEF Once, With
<1>6. IsFiniteSet(Once)
  BY <1>5, Finite, FS_Subset
<1>7. Cardinality(Once') = Cardinality(Once) + 1
  BY <1>5, <1>6, FS_AddElement
<1>8. /\ recv'["total"] = recv["total"] + 1
      /\ \A v \in Verdicts : recv'[v] = IF v = VerdictOf[r] THEN recv[v] + 1 ELSE recv[v]
  BY <1>1 DEF handleWebhook, Verdicts
<1>9. ASSUME NEW v \in Verdicts PROVE recv'[v] = Cardinality(OnceBy(v)')
  <2>1. OnceBy(v)' = IF v = VerdictOf[r] THEN OnceBy(v) \cup {r} ELSE OnceBy(v)
    BY <1>5 DEF OnceBy
  <2>2. OnceBy(v) \in SUBSET Once /\ r \notin OnceBy(v)
    BY <1>5 DEF OnceBy
  <2>3. Cardinality(OnceBy(v) \cup {r}) = Cardinality(OnceBy(v)) + 1
    BY <1>6, <2>2, FS_Subset, FS_AddElement
  <2> QED BY <1>2, <1>8, <2>1, <2>3
<1> QED BY <1>2, <1>7, <1>8, <1>9

\* A webhook goroutine moves on or returns.
LEMMA HookMoves ==
    ASSUME IInv, up, NEW r \in sending, NEW h, NEW g,
           hook' = [hook EXCEPT ![r] = h], got' = [got EXCEPT ![r] = g],
           sending' = sending \/ sending' = sending \ {r},
           Tried(h, g, r \in sending'), hook[r].unsure => h.unsure,
           UNCHANGED <<up, answer, taken, fate, pipeCancelled>>, UNCHANGED <<shimVars, stage>>,
           \/ g = got[r] /\ recv' = recv
           \/ handleWebhook(r) /\ (h.unsure \/ got[r] = 0)
    PROVE  IInv'
<1>1. Process /\ HookInv /\ Receiver
  BY DEF IInv
<1>2. r \in Requests /\ r \in taken /\ fate[r] # "skipped"
  BY <1>1 DEF Process
<1>3. Process'
  BY <1>1 DEF Process
<1>4. \A m \in Events : Attempts(m)'
  BY DEF IInv, Attempts, shimVars
<1>5. /\ hook'[r] = h /\ got'[r] = g /\ h \in HookState /\ g \in 0..HookAttempts
      /\ \A q \in Requests : q # r => /\ hook'[q] = hook[q] /\ got'[q] = got[q]
                                      /\ (q \in sending') = (q \in sending)
  BY <1>1, <1>2 DEF HookInv, Tried
<1>6. HookInv'
  <2>1. hook' \in [Requests -> HookState] /\ got' \in [Requests -> 0..HookAttempts]
    BY <1>1, <1>2, <1>5 DEF HookInv
  <2>2. ASSUME NEW q \in Requests
        PROVE  /\ Tried(hook'[q], got'[q], q \in sending')
               /\ got'[q] > 0 => q \in taken' /\ fate'[q] # "skipped"
    <3>1. CASE q = r
      BY <1>2, <1>5, <3>1
    <3>2. CASE q # r
      BY <1>1, <1>5, <3>2 DEF HookInv
    <3> QED BY <3>1, <3>2
  <2> QED BY <2>1, <2>2 DEF HookInv
<1>7. Receiver'
  <2>1. Sure' => Sure /\ ~h.unsure
    BY <1>2, <1>5 DEF Sure
  <2>2. CASE g = got[r] /\ recv' = recv
    <3>1. got' = got
      BY <1>1, <1>2, <2>2 DEF HookInv
    <3> QED BY <1>1, <2>1, <2>2, <3>1 DEF Receiver, Once, OnceBy
  <2>3. CASE handleWebhook(r) /\ (h.unsure \/ got[r] = 0)
    <3>1. recv' \in [Verdicts \cup {"total"} -> Nat]
      BY <1>1, <2>3 DEF handleWebhook, Receiver
    <3>2. Sure' => /\ recv'["total"] = Cardinality(Once')
                   /\ \A v \in Verdicts : recv'[v] = Cardinality(OnceBy(v)')
      BY <1>2, <2>1, <2>3, Counted
    <3> QED BY <1>1, <3>1, <3>2 DEF Receiver
  <2> QED BY <2>2, <2>3
<1> QED BY <1>3, <1>4, <1>6, <1>7, ProcessFrame

\* Every step of a webhook goroutine.
LEMMA HookStep ==
    ASSUME IInv, NEW r \in sending, Hook(r), UNCHANGED <<shimVars, stage>>
    PROVE  IInv'
<1>1. Process /\ HookInv
  BY DEF IInv
<1>2. r \in Requests
  BY <1>1 DEF Process
<1>3. PICK b \in HookState, g \in 0..HookAttempts : b = hook[r] /\ g = got[r]
  BY <1>1, <1>2 DEF HookInv, Tried
<1>4. Tried(b, g, TRUE)
  BY <1>1, <1>2, <1>3 DEF HookInv
<1>5. /\ HookAttempts \in Nat \ {0} /\ b.n \in 1..HookAttempts /\ g \in Nat
      /\ b.pc \in {"post", "back"} /\ b.unsure \in BOOLEAN
      /\ b = [pc |-> b.pc, n |-> b.n, unsure |-> b.unsure]
  BY <1>3, HookAssumption DEF HookState
<1>6. hook \in [Requests -> HookState] /\ got \in [Requests -> 0..HookAttempts]
  BY <1>1 DEF HookInv
<1> DEFINE back(u) == [pc |-> "post", n |-> 1, unsure |-> b.unsure \/ u]
<1>7. up /\ UNCHANGED <<up, answer, taken, fate, pipeCancelled>>
  BY DEF Hook, HookDelivered, HookRefused, HookFailed, HookAnswerLost, HookBackoffOver,
         Again, Return, HookEnd, deliveryVars
<1>8. /\ handleWebhook(r) => got' = [got EXCEPT ![r] = g + 1]
      /\ got' = got => got' = [got EXCEPT ![r] = g]
  BY <1>2, <1>3, <1>6 DEF handleWebhook
<1>9. ASSUME NEW u \in BOOLEAN, Return(r, u)
      PROVE  hook' = [hook EXCEPT ![r] = back(u)] /\ sending' = sending \ {r}
  BY <1>2, <1>3, <1>6, <1>9 DEF Return, HookEnd
<1>10. ASSUME NEW u \in BOOLEAN, NEW c \in 0..HookAttempts, ~(b.unsure \/ u) => c <= 1
       PROVE  Tried(back(u), c, FALSE)
  BY <1>5, <1>10 DEF Tried, HookState
<1>11. CASE HookDelivered(r)
  <2>1. b.pc = "post" /\ handleWebhook(r) /\ Return(r, FALSE)
    BY <1>3, <1>11 DEF HookDelivered
  <2>2. g + 1 \in 0..HookAttempts /\ (~b.unsure => g + 1 <= 1 /\ g = 0)
    BY <1>4, <1>5, <2>1 DEF Tried
  <2>3. hook' = [hook EXCEPT ![r] = back(FALSE)] /\ sending' = sending \ {r}
    BY <1>9, <2>1
  <2>4. Tried(back(FALSE), g + 1, r \in sending')
    <3>1. Tried(back(FALSE), g + 1, FALSE) /\ ~(r \in sending')
      BY <1>10, <2>2, <2>3
    <3> HIDE DEF back
    <3> QED BY <3>1 DEF Tried
  <2>5. back(FALSE).unsure = b.unsure
    BY <1>5
  <2> HIDE DEF back
  <2> QED BY <1>3, <1>5, <1>7, <1>8, <2>1, <2>2, <2>3, <2>4, <2>5, HookMoves
<1>12. ASSUME NEW u \in BOOLEAN, Return(r, u), got' = got, recv' = recv
       PROVE  IInv'
  <2>1. hook' = [hook EXCEPT ![r] = back(u)] /\ sending' = sending \ {r}
    BY <1>9, <1>12
  <2>2. Tried(back(u), g, r \in sending')
    BY <1>4, <1>5, <1>10, <2>1 DEF Tried
  <2>3. b.unsure => back(u).unsure
    OBVIOUS
  <2>4. got' = [got EXCEPT ![r] = g] /\ g = got[r] /\ recv' = recv
    BY <1>3, <1>8, <1>12
  <2> HIDE DEF back
  <2> QED BY <1>3, <1>7, <2>1, <2>2, <2>3, <2>4, HookMoves
<1>13. CASE HookRefused(r)
  BY <1>12, <1>13 DEF HookRefused
<1>14. CASE HookFailed(r)
  <2>1. b.pc = "post" /\ got' = got /\ recv' = recv /\ Again(r, FALSE)
    BY <1>3, <1>14 DEF HookFailed
  <2>2. CASE Return(r, FALSE)
    BY <1>12, <2>1, <2>2
  <2>3. CASE /\ hook[r].n < HookAttempts /\ UNCHANGED deliveryVars
             /\ hook' = [hook EXCEPT ![r].pc = "back", ![r].unsure = @ \/ FALSE]
    <3> DEFINE y == b.unsure \/ FALSE
               x == [b EXCEPT !.pc = "back", !.unsure = y]
    <3>0. y \in BOOLEAN /\ y = b.unsure
      BY <1>5
    <3> HIDE DEF y
    <3>1. hook' = [hook EXCEPT ![r] = x]
      BY <1>2, <1>3, <1>6, <2>3 DEF y
    <3>2. sending' = sending
      BY <2>3 DEF deliveryVars
    <3>3. x \in HookState /\ x.pc = "back" /\ x.n = b.n /\ x.unsure = y
      BY <3>0 DEF HookState
    <3>4. Tried(x, g, r \in sending')
      BY <1>3, <1>4, <1>5, <2>1, <2>3, <3>0, <3>2, <3>3 DEF Tried, HookState
    <3>5. x.unsure = b.unsure
      BY <3>0, <3>3
    <3>6. got' = [got EXCEPT ![r] = g] /\ g = got[r] /\ recv' = recv
      BY <1>3, <1>8, <2>1
    <3> HIDE DEF x
    <3> QED BY <1>3, <1>7, <3>1, <3>2, <3>4, <3>5, <3>6, HookMoves
  <2> QED BY <2>1, <2>2, <2>3 DEF Again
<1>15. CASE HookAnswerLost(r)
  <2>1. b.pc = "post" /\ handleWebhook(r) /\ Again(r, TRUE)
    BY <1>3, <1>15 DEF HookAnswerLost
  <2>2. g + 1 \in 0..HookAttempts /\ g + 1 <= b.n
    BY <1>4, <1>5, <2>1 DEF Tried
  <2>3. CASE Return(r, TRUE)
    <3>1. hook' = [hook EXCEPT ![r] = back(TRUE)] /\ sending' = sending \ {r}
      BY <1>9, <2>3
    <3>2. Tried(back(TRUE), g + 1, r \in sending')
      <4>1. Tried(back(TRUE), g + 1, FALSE) /\ ~(r \in sending')
        BY <1>10, <2>2, <3>1
      <4> HIDE DEF back
      <4> QED BY <4>1 DEF Tried
    <3>3. back(TRUE).unsure
      OBVIOUS
    <3> HIDE DEF back
    <3> QED BY <1>3, <1>7, <1>8, <2>1, <3>1, <3>2, <3>3, HookMoves
  <2>4. CASE /\ hook[r].n < HookAttempts /\ UNCHANGED deliveryVars
             /\ hook' = [hook EXCEPT ![r].pc = "back", ![r].unsure = @ \/ TRUE]
    <3> DEFINE y == b.unsure \/ TRUE
               x == [b EXCEPT !.pc = "back", !.unsure = y]
    <3>0. y \in BOOLEAN /\ y = TRUE
      BY <1>5
    <3> HIDE DEF y
    <3>1. hook' = [hook EXCEPT ![r] = x]
      BY <1>2, <1>3, <1>6, <2>4 DEF y
    <3>2. sending' = sending
      BY <2>4 DEF deliveryVars
    <3>3. x \in HookState /\ x.pc = "back" /\ x.n = b.n /\ x.unsure = y
      BY <3>0 DEF HookState
    <3>4. Tried(x, g + 1, r \in sending')
      BY <1>3, <1>5, <2>2, <2>4, <3>0, <3>2, <3>3 DEF Tried, HookState
    <3>5. x.unsure
      BY <3>0, <3>3
    <3> HIDE DEF x
    <3> QED BY <1>3, <1>7, <1>8, <2>1, <3>1, <3>2, <3>4, <3>5, HookMoves
  <2> QED BY <2>1, <2>3, <2>4 DEF Again
<1>16. CASE HookBackoffOver(r)
  <2>1. b.pc = "back" /\ got' = got /\ recv' = recv
    BY <1>3, <1>16 DEF HookBackoffOver
  <2>2. CASE Return(r, FALSE)
    BY <1>12, <2>1, <2>2
  <2>3. CASE /\ UNCHANGED deliveryVars
             /\ hook' = [hook EXCEPT ![r].pc = "post", ![r].n = @ + 1]
    <3> DEFINE x == [pc |-> "post", n |-> b.n + 1, unsure |-> b.unsure]
    <3>1. hook' = [hook EXCEPT ![r] = x]
      BY <1>2, <1>3, <1>5, <1>6, <2>3
    <3>2. sending' = sending
      BY <2>3 DEF deliveryVars
    <3>3. Tried(x, g, r \in sending')
      BY <1>4, <1>5, <2>1, <3>2 DEF Tried, HookState
    <3>4. x.unsure = b.unsure
      OBVIOUS
    <3>5. got' = [got EXCEPT ![r] = g] /\ g = got[r] /\ recv' = recv
      BY <1>3, <1>8, <2>1
    <3> HIDE DEF x
    <3> QED BY <1>3, <1>7, <3>1, <3>2, <3>3, <3>4, <3>5, HookMoves
  <2> QED BY <1>16, <2>2, <2>3 DEF HookBackoffOver
<1> QED BY <1>11, <1>13, <1>14, <1>15, <1>16 DEF Hook

-----------------------------------------------------------------------------
(* The script's steps, and all of them.                                    *)

\* The shutdown budget ends, the shim has left, and fruitfly ends and is reported on.
LEMMA ScriptStep ==
    ASSUME IInv, ForceCancel \/ ShimExits \/ Validate
    PROVE  IInv'
<1>1. UNCHANGED <<answer, taken, fate, sending, shimVars, hook, got, recv>>
      /\ pipeCancelled' \in BOOLEAN
  BY DEF ForceCancel, ShimExits, Validate, End, deliveryVars, hookVars, IInv, Receiver
<1>2. ShimInv'
  BY <1>1 DEF IInv, ShimInv, ShimType, InHand, HandedOver, Books, shimVars
<1>3. \A m \in Events : Attempts(m)'
  BY <1>1 DEF IInv, Attempts, shimVars
<1>4. up' \in BOOLEAN
  BY DEF ForceCancel, ShimExits, Validate, End, deliveryVars, IInv, Process
<1>5. Process'
  BY <1>1, <1>4 DEF IInv, Process
<1>6. HookInv' /\ Receiver'
  BY <1>1 DEF IInv, HookInv, Receiver, Sure, Once, OnceBy
<1>7. smain' = smain /\ Outcome' = Outcome
  BY <1>1 DEF shimVars, Outcome, printReport, Rows, RowsBy
<1>8. ScriptInv'
  <2>1. ScriptInv
    BY DEF IInv
  <2>2. CASE ForceCancel
    BY <1>7, <2>1, <2>2 DEF ForceCancel, ScriptInv, Reported, deliveryVars
  <2>3. CASE ShimExits
    BY <1>7, <2>1, <2>3 DEF ShimExits, ScriptInv, Reported, deliveryVars, ShimUp, Stages
  <2>4. CASE Validate
    <3>1. stage = "stopping" /\ ~up' /\ stage' = Outcome /\ smain = "exited"
      BY <2>1, <2>4 DEF Validate, End, Outcome, ScriptInv
    <3>2. Outcome \in {"error", "pass", "fail"}
      BY DEF Outcome
    <3> QED BY <1>7, <3>1, <3>2 DEF ScriptInv, Reported, Stages
  <2> QED BY <2>2, <2>3, <2>4
<1> QED BY <1>2, <1>3, <1>5, <1>6, <1>8 DEF IInv

\* Every step keeps the invariant.
LEMMA IInvNext == IInv /\ [Next]_vars => IInv'
<1> SUFFICES ASSUME IInv, [Next]_vars PROVE IInv'
  OBVIOUS
<1>1. CASE ShimNext /\ UNCHANGED Others
  BY <1>1, ShimStep
<1>2. ASSUME NEW r \in Requests, Serve(r) PROVE IInv'
  BY <1>2, ServeStep
<1>3. CASE Write
  BY <1>3, WriteStep
<1>4. ASSUME NEW r \in sending, Hook(r), UNCHANGED <<shimVars, stage>> PROVE IInv'
  BY <1>4, HookStep
<1>5. CASE ForceCancel \/ Script
  BY <1>5, ScriptStep DEF Script
<1>6. CASE UNCHANGED vars
  <2>1. ShimInv'
    BY <1>6 DEF vars, IInv, ShimInv, ShimType, InHand, HandedOver, Books, shimVars
  <2>2. \A m \in Events : Attempts(m)'
    BY <1>6 DEF vars, IInv, Attempts, shimVars, deliveryVars
  <2>3. Process' /\ HookInv' /\ Receiver'
    BY <1>6 DEF vars, IInv, Process, HookInv, Receiver, Sure, Once, OnceBy, hookVars,
                deliveryVars
  <2>4. ScriptInv'
    BY <1>6 DEF vars, IInv, ScriptInv, Reported, Outcome, printReport, Rows, RowsBy,
                shimVars, deliveryVars, hookVars
  <2> QED BY <2>1, <2>2, <2>3, <2>4 DEF IInv
<1> QED BY <1>1, <1>2, <1>3, <1>4, <1>5, <1>6 DEF Next, Finished, Others

\* The inductive invariant holds in every reachable state, whatever the stream and
\* the limits are.
THEOREM IInvCorrect == Spec => []IInv
  BY IInvInit, IInvNext, PTL DEF Spec

\* Every event the reader let through is in one place: counted as sent or dropped,
\* with its goroutine, or waiting for a slot; the semaphore and -max-events hold.
THEOREM ShimAccountsCorrect == Spec => []ShimAccounts
<1>1. IInv => ShimAccounts
  <2> SUFFICES ASSUME IInv PROVE ShimAccounts
    OBVIOUS
  <2>1. /\ Running = With(post, Events, {"post", "back"})
        /\ {m \in Events : post[m] = "sent"} = With(post, Events, {"sent"})
        /\ {m \in Events : post[m] = "dropped"} = With(post, Events, {"dropped"})
    BY DEF Running, With
  <2>2. Books
    BY DEF IInv, ShimInv
  <2> QED BY <2>1, <2>2 DEF Books, ShimAccounts, Count
<1> QED BY <1>1, IInvCorrect, PTL

\* Only the last attempt that was sent can have been accepted.
LEMMA LastAttempt ==
    ASSUME IInv, NEW m \in Events, NEW k \in AcceptedFor(m)
    PROVE  k = att[m] /\ k \in 1..PostAttempts /\ <<m, k>> \in Requests
<1>1. Attempts(m) /\ k \in 1..PostAttempts /\ answer[<<m, k>>] = "accepted"
  BY DEF IInv, AcceptedFor
<1>2. att[m] \in Nat /\ k \in Nat
  BY <1>1, ShimAssumption DEF IInv, ShimInv, ShimType
<1>3. ~(k < att[m]) /\ ~(k > att[m])
  BY <1>1 DEF Attempts
<1> QED BY <1>1, <1>2, <1>3, ShimAssumption

\* Retries after 429 never make a second event: over all attempts one message is
\* accepted at most once, and it is if the shim counts it as sent.
THEOREM AcceptedOnceCorrect == Spec => []AcceptedOnce
<1>1. IInv => AcceptedOnce
  <2> SUFFICES ASSUME IInv, NEW m \in Events
               PROVE  /\ Cardinality(AcceptedFor(m)) <= 1
                      /\ post[m] = "sent" => AcceptedFor(m) # {}
    BY DEF AcceptedOnce
  <2>1. AcceptedFor(m) \in SUBSET {att[m]}
    BY LastAttempt
  <2>2. IsFiniteSet({att[m]}) /\ Cardinality({att[m]}) = 1
    BY FS_Singleton
  <2>3. Cardinality(AcceptedFor(m)) <= 1
    BY <2>1, <2>2, FS_Subset
  <2>4. ASSUME post[m] = "sent" PROVE AcceptedFor(m) # {}
    <3>1. att[m] \in 0..PostAttempts /\ PostAttempts \in Nat
      BY ShimAssumption DEF IInv, ShimInv, ShimType
    <3>2. att[m] \in 1..PostAttempts /\ answer[<<m, att[m]>>] = "accepted"
      BY <2>4, <3>1 DEF IInv, Attempts
    <3> QED BY <3>2 DEF AcceptedFor
  <2> QED BY <2>3, <2>4
<1> QED BY <1>1, IInvCorrect, PTL

\* The receiver counts a result once, unless an answer of its was lost, and then at
\* most once per attempt of the writer's retry loop.
THEOREM HookOnceUnlessUnsureCorrect == Spec => []HookOnceUnlessUnsure
<1>1. IInv => HookOnceUnlessUnsure
  <2> SUFFICES ASSUME IInv, NEW r \in Requests
               PROVE  /\ got[r] <= IF hook[r].unsure THEN HookAttempts ELSE 1
                      /\ got[r] > 0 => r \in taken /\ fate[r] # "skipped"
    BY DEF HookOnceUnlessUnsure
  <2>1. /\ Tried(hook[r], got[r], r \in sending)
        /\ got[r] > 0 => r \in taken /\ fate[r] # "skipped"
    BY DEF IInv, HookInv
  <2> QED BY <2>1, HookAssumption DEF Tried
<1> QED BY <1>1, IInvCorrect, PTL

-----------------------------------------------------------------------------
(* The report.                                                             *)

Sent == With(post, Events, {"sent"})

\* A row is the last attempt of an accepted message: a message has one at most.
LEMMA RowFacts ==
    ASSUME IInv
    PROVE  /\ Rows \in SUBSET Requests
           /\ \A r \in taken : /\ r[1] \in Events /\ r = <<r[1], att[r[1]]>>
                               /\ r[2] \in AcceptedFor(r[1])
           /\ Rows \subseteq taken
           /\ IsFiniteSet(Rows) /\ Cardinality(Rows) \in Nat
           /\ IsFiniteSet(Sent) /\ count.sent = Cardinality(Sent)
           /\ \A m \in Events : OwnRow(m) => <<m, att[m]>> \in Rows
<1>1. Process
  BY DEF IInv
<1>2. Rows \in SUBSET Requests /\ Rows \subseteq taken
  BY <1>1 DEF Rows, Process
<1>3. ASSUME NEW r \in taken
      PROVE  /\ r[1] \in Events /\ r = <<r[1], att[r[1]]>>
             /\ r[2] \in AcceptedFor(r[1])
  <2>1. r \in Events \X (1..PostAttempts) /\ answer[r] = "accepted"
    BY <1>1, ShimAssumption DEF Process
  <2>2. r[1] \in Events /\ r[2] \in 1..PostAttempts /\ r = <<r[1], r[2]>>
    BY <2>1
  <2>3. r[2] \in AcceptedFor(r[1])
    BY <2>1, <2>2 DEF AcceptedFor
  <2> QED BY <2>2, <2>3, LastAttempt
<1>4. IsFiniteSet(Rows) /\ Cardinality(Rows) \in Nat
  BY <1>2, Finite, FS_Subset, FS_CardinalityType
<1>5. IsFiniteSet(Sent) /\ count.sent = Cardinality(Sent)
  <2>1. Sent \in SUBSET Events
    BY DEF Sent, With
  <2> QED BY <2>1, Finite, FS_Subset DEF IInv, ShimInv, Books, Sent
<1>6. \A m \in Events : OwnRow(m) => <<m, att[m]>> \in Rows
  BY LastAttempt DEF OwnRow
<1> QED BY <1>2, <1>3, <1>4, <1>5, <1>6

\* If the shim knows what it sent, each row belongs to an event it counted, another
\* for each row: as many rows as events means a row for each.
LEMMA RowsAndSent ==
    ASSUME IInv, Uncounted = {}
    PROVE  /\ Cardinality(Rows) = Cardinality(Sent) => \A m \in Sent : OwnRow(m)
           /\ (\A m \in Sent : OwnRow(m)) => Cardinality(Rows) = Cardinality(Sent)
<1> DEFINE f == [r \in Rows |-> r[1]]
<1>1. f \in [Rows -> Sent]
  <2> SUFFICES ASSUME NEW r \in Rows PROVE r[1] \in Sent
    OBVIOUS
  <2>1. r[1] \in Events /\ AcceptedFor(r[1]) # {}
    BY RowFacts
  <2> QED BY <2>1 DEF Uncounted, Sent, With
<1>2. \A r, q \in Rows : f[r] = f[q] => r = q
  <2> SUFFICES ASSUME NEW r \in Rows, NEW q \in Rows, r[1] = q[1] PROVE r = q
    OBVIOUS
  <2>1. r = <<r[1], att[r[1]]>> /\ q = <<q[1], att[q[1]]>>
    BY RowFacts
  <2> QED BY <2>1
<1>3. f \in Injection(Rows, Sent)
  BY <1>1, <1>2, Fun_IsInj
<1>4. IsFiniteSet(Rows) /\ IsFiniteSet(Sent) /\ Sent \subseteq Events
  BY RowFacts DEF Sent, With
<1>5. Cardinality(Rows) = Cardinality(Sent) <=> f \in Surjection(Rows, Sent)
  BY <1>3, <1>4, FS_Injection
<1>6. ASSUME f \in Surjection(Rows, Sent), NEW m \in Sent PROVE OwnRow(m)
  <2>1. PICK r \in Rows : f[r] = m
    BY <1>6, Fun_SurjectionProperties
  <2>2. r[1] = m /\ r = <<m, att[m]>> /\ r[2] \in AcceptedFor(m)
    BY <2>1, RowFacts
  <2>3. r[2] = att[m]
    BY <2>2
  <2> QED BY <2>2, <2>3 DEF OwnRow
<1>7. ASSUME \A m \in Sent : OwnRow(m) PROVE f \in Surjection(Rows, Sent)
  <2>1. ASSUME NEW m \in Sent PROVE \E r \in Rows : f[r] = m
    <3>1. <<m, att[m]>> \in Rows
      BY <1>4, <1>7, RowFacts
    <3> QED BY <3>1
  <2> QED BY <1>1, <2>1, Fun_IsSurj
<1> QED BY <1>5, <1>6, <1>7

\* What each variable holds.
LEMMA TypeHolds == IInv => TypeOK
<1> SUFFICES ASSUME IInv PROVE TypeOK
  OBVIOUS
<1>1. /\ up \in BOOLEAN /\ answer \in [Requests -> Answers] /\ taken \subseteq Requests
      /\ fate \in [Requests -> Fates] /\ sending \subseteq taken
  BY DEF IInv, Process
<1>2. /\ reader \in ReaderPC /\ cur \in Events \cup {NoMessage}
      /\ post \in [Events -> PostPC] /\ att \in [Events -> 0..PostAttempts]
      /\ smain \in {"wait", "waitPosts", "exited"} /\ cancelled \in BOOLEAN
  BY DEF IInv, ShimInv, ShimType
<1>3. /\ reader = "acquire" <=> cur # NoMessage
      /\ \E i \in 0..Len(Stream) : unread = SubSeq(Stream, i + 1, Len(Stream))
  BY DEF IInv, ShimInv, InHand, HandedOver
<1>4. \A r \in Requests : hook[r].pc \in {"post", "back"} /\ hook[r].n \in 1..HookAttempts
  BY DEF IInv, HookInv, HookState
<1>5. stage \in Stages
  BY DEF IInv, ScriptInv
<1> QED BY <1>1, <1>2, <1>3, <1>4, <1>5 DEF TypeOK, Fates, PostPC

\* A report that passed: the numbers it compared are the sets it stands for.
LEMMA PassHolds == IInv => PassIsSound
<1> SUFFICES ASSUME IInv, stage = "pass", Uncounted = {}
             PROVE  /\ \A m \in Events : post[m] = "sent" => OwnRow(m)
                    /\ Sure /\ Cardinality(Rows) < 100 =>
                          \A v \in Verdicts : recv[v] = RowsBy(v)
  BY DEF PassIsSound, Sure
<1>1. printReport
  BY DEF IInv, ScriptInv, Reported, Outcome
<1> DEFINE total == Cardinality(Rows)
<1>2. total \in Nat /\ count.sent = Cardinality(Sent) /\ count.sent \in Nat
  BY RowFacts DEF IInv, ShimInv, ShimType, Counts
<1>3. total = Cardinality(Sent)
  <2>1. count.sent - total = 0
    BY <1>1 DEF printReport
  <2> HIDE DEF total
  <2> QED BY <1>2, <2>1
<1>4. \A m \in Sent : OwnRow(m)
  BY <1>3, RowsAndSent
<1>5. \A m \in Events : post[m] = "sent" => OwnRow(m)
  BY <1>4 DEF Sent, With
<1>6. ASSUME Sure, total < 100, NEW v \in Verdicts PROVE recv[v] = RowsBy(v)
  <2>1. recv["total"] = Cardinality(Once) /\ recv[v] = Cardinality(OnceBy(v))
    BY <1>6 DEF IInv, Receiver
  <2>2. Once \in SUBSET Rows
    <3> SUFFICES ASSUME NEW r \in Once PROVE r \in Rows
      OBVIOUS
    <3>1. r \in Requests /\ got[r] = 1
      BY DEF Once, With
    <3>2. r \in taken
      BY <3>1 DEF IInv, HookInv
    <3>3. r[1] \in Events /\ r = <<r[1], att[r[1]]>> /\ AcceptedFor(r[1]) # {}
      BY <3>2, RowFacts
    <3>4. OwnRow(r[1])
      BY <1>5, <3>3 DEF Uncounted
    <3> QED BY <3>3, <3>4, RowFacts
  <2>3. IsFiniteSet(Rows) /\ Cardinality(Once) <= total
        /\ (total = Cardinality(Once) => Rows = Once)
    BY <2>2, RowFacts, FS_Subset
  <2>4. Cardinality(Once) \in Nat
    BY <2>2, RowFacts, FS_Subset, FS_CardinalityType
  <2>5. ~(total > 0 /\ 100 * (total - recv["total"]) > total)
    BY <1>1 DEF printReport
  <2>6. total = Cardinality(Once)
    <3> DEFINE c == Cardinality(Once)
    <3>1. c \in Nat /\ c <= total /\ ~(total > 0 /\ 100 * (total - c) > total)
      BY <2>1, <2>3, <2>4, <2>5
    <3> HIDE DEF c, total
    <3>2. total = c
      BY <1>2, <1>6, <3>1
    <3> QED BY <3>2 DEF c
  <2>7. OnceBy(v) = {r \in Rows : VerdictOf[r] = v}
    BY <2>3, <2>6 DEF OnceBy
  <2> QED BY <2>1, <2>7 DEF RowsBy
<1> QED BY <1>5, <1>6

\* A report that failed has a cause: the sum over the verdicts is never one.
LEMMA FailHolds == IInv => FailIsReal
<1> SUFFICES ASSUME IInv, stage = "fail", Uncounted = {},
                    \A m \in Events : AcceptedFor(m) # {} => OwnRow(m),
                    ~(recv["total"] < Cardinality(Rows))
             PROVE  FALSE
  BY DEF FailIsReal
<1> DEFINE total == Cardinality(Rows)
<1>1. ~printReport
  BY DEF IInv, ScriptInv, Reported, Outcome
<1>2. total \in Nat /\ count.sent = Cardinality(Sent) /\ recv["total"] \in Nat
  BY RowFacts DEF IInv, Receiver
<1>3. \A m \in Sent : OwnRow(m)
  <2> SUFFICES ASSUME NEW m \in Sent PROVE AcceptedFor(m) # {}
    BY DEF Sent, With
  <2>1. m \in Events /\ post[m] = "sent"
    BY DEF Sent, With
  <2>2. att[m] \in 0..PostAttempts /\ PostAttempts \in Nat
    BY <2>1, ShimAssumption DEF IInv, ShimInv, ShimType
  <2>3. att[m] \in 1..PostAttempts /\ answer[<<m, att[m]>>] = "accepted"
    BY <2>1, <2>2 DEF IInv, Attempts
  <2> QED BY <2>3 DEF AcceptedFor
<1>4. total = count.sent
  BY <1>2, <1>3, RowsAndSent
<1>5. RowsBy("approve") + RowsBy("block") + RowsBy("review") = total
  BY RowFacts, ByVerdict DEF RowsBy
<1>6. count.sent - total = 0
  <2> HIDE DEF total
  <2> QED BY <1>2, <1>4
<1>7. ~(total > 0 /\ 100 * (total - recv["total"]) > total)
  <2> DEFINE c == recv["total"]
  <2>1. c \in Nat /\ c >= total
    BY <1>2
  <2> HIDE DEF c, total
  <2>2. ~(total > 0 /\ 100 * (total - c) > total)
    BY <1>2, <2>1
  <2> QED BY <2>2 DEF c
<1> QED BY <1>1, <1>5, <1>6, <1>7 DEF printReport

\* What validate prints is right whatever the shim, the process, the webhooks and
\* the script did before: PASS where the shim knows what it sent, FAIL always.
THEOREM ReportIsRightCorrect == Spec => []ReportIsRight
<1>1. IInv => ReportIsRight
  BY TypeHolds, PassHolds, FailHolds DEF ReportIsRight
<1> QED BY <1>1, IInvCorrect, PTL
=============================================================================
