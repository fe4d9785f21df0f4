--------------------------- MODULE EventBusProofs ---------------------------
(***************************************************************************)
(* Proofs about the event bus, for any subscribers, policies, ceiling and   *)
(* publishers and any number of frames.                                     *)
(***************************************************************************)
EXTENDS EventBusProps, TLAPS

\* Taking the head of a non-empty queue: the head is a frame, one fewer is left.
LEMMA HeadOff ==
    ASSUME NEW q \in Seq(Frames), q # <<>>
    PROVE  /\ Head(q) \in Frames
           /\ Tail(q) \in Seq(Frames)
           /\ Len(Tail(q)) = Len(q) - 1
           /\ Len(q) \in Nat \ {0}
  OBVIOUS

\* A full queue is not empty.
LEMMA FullHasHead ==
    ASSUME TypeOK, NEW s \in Subs, Full(s)
    PROVE  queue[s] \in Seq(Frames) /\ queue[s] # <<>>
  BY BusAssumption DEF TypeOK, Full

\* While a publish is at a subscriber, the subscriber is one of SubOrder and
\* moving on keeps the types of at and running (broadcast's for loop).
LEMMA AdvanceKeepsType ==
    ASSUME TypeOK, NEW f \in Frames, at[f] \in 1..Len(SubOrder), Advance(f)
    PROVE  /\ at' \in [Frames -> 0..Done]
           /\ running' \in {Idle} \cup Frames
           /\ running' \in Frames => at'[running'] \in 1..Len(SubOrder)
<1>1. Len(SubOrder) \in Nat /\ at \in [Frames -> 0..Done] /\ at[f] + 1 \in 0..Done
  BY BusAssumption DEF TypeOK, Done
<1>2. at' \in [Frames -> 0..Done] /\ at'[f] = at[f] + 1
  BY <1>1 DEF Advance
<1>3. CASE at[f] = Len(SubOrder)
  <2>1. running' = Idle /\ Idle \notin Frames
    BY <1>3, BusAssumption DEF Advance, Idle, Frames
  <2>. QED
    BY <1>2, <2>1
<1>4. CASE at[f] # Len(SubOrder)
  <2>1. running' = f /\ at[f] + 1 \in 1..Len(SubOrder)
    BY <1>1, <1>4 DEF Advance
  <2>. QED
    BY <1>2, <2>1
<1>. QED
  BY <1>3, <1>4

\* The place of a publish in the loop names a subscriber.
LEMMA PlaceIsSub ==
    ASSUME NEW k \in 1..Len(SubOrder)
    PROVE  SubOrder[k] \in Subs
  BY BusAssumption DEF Subs

-----------------------------------------------------------------------------
(* One frame put in one queue.                                              *)

\* put_nowait on a queue that is not full keeps the bound.
LEMMA PutKeepsBound ==
    ASSUME TypeOK, QueuesBounded, NEW f \in Frames, NEW s \in Subs, ~Full(s), Put(f, s)
    PROVE  /\ queue' \in [Subs -> Seq(Frames)]
           /\ \A t \in Subs : Len(queue'[t]) <= Ceiling
<1>1. queue[s] \in Seq(Frames) /\ Ceiling \in Nat /\ Len(queue[s]) < Ceiling
  BY BusAssumption DEF TypeOK, Full
<1>2. Append(queue[s], f) \in Seq(Frames) /\ Len(Append(queue[s], f)) <= Ceiling
  BY <1>1
<1>. QED
  BY <1>2 DEF TypeOK, QueuesBounded, Put

\* DROP_OLDEST takes one out before it puts one in.
LEMMA DropKeepsBound ==
    ASSUME TypeOK, QueuesBounded, NEW f \in Frames, NEW s \in Subs, OfferDropping(f, s)
    PROVE  /\ queue' \in [Subs -> Seq(Frames)]
           /\ \A t \in Subs : Len(queue'[t]) <= Ceiling
           /\ dropped' \in [Subs -> SUBSET Frames]
<1>1. queue[s] \in Seq(Frames) /\ queue[s] # <<>>
  BY FullHasHead DEF OfferDropping
<1>2. /\ Tail(queue[s]) \in Seq(Frames) /\ Len(Tail(queue[s])) = Len(queue[s]) - 1
      /\ Head(queue[s]) \in Frames /\ Len(queue[s]) \in Nat
  BY <1>1, HeadOff
<1>3. Len(queue[s]) <= Ceiling /\ Ceiling \in Nat
  BY BusAssumption DEF QueuesBounded
<1>4. Append(Tail(queue[s]), f) \in Seq(Frames) /\ Len(Append(Tail(queue[s]), f)) <= Ceiling
  BY <1>2, <1>3
<1>. QED
  BY <1>2, <1>4 DEF TypeOK, QueuesBounded, OfferDropping

\* A worker's get() takes one out.
LEMMA TakeKeepsBound ==
    ASSUME TypeOK, QueuesBounded, NEW s \in Subs, queue[s] # <<>>,
           queue' = [queue EXCEPT ![s] = Tail(@)]
    PROVE  /\ queue' \in [Subs -> Seq(Frames)]
           /\ \A t \in Subs : Len(queue'[t]) <= Ceiling
           /\ Head(queue[s]) \in Frames
<1>1. queue[s] \in Seq(Frames)
  BY DEF TypeOK
<1>2. /\ Tail(queue[s]) \in Seq(Frames) /\ Len(Tail(queue[s])) = Len(queue[s]) - 1
      /\ Head(queue[s]) \in Frames /\ Len(queue[s]) \in Nat
  BY <1>1, HeadOff
<1>3. Len(queue[s]) <= Ceiling /\ Ceiling \in Nat
  BY BusAssumption DEF QueuesBounded
<1>. QED
  BY <1>2, <1>3 DEF TypeOK, QueuesBounded

-----------------------------------------------------------------------------
(* The invariant and its steps.                                             *)

Bounded == TypeOK /\ QueuesBounded

LEMMA InitBounded == Init => Bounded
<1> SUFFICES ASSUME Init PROVE Bounded
  OBVIOUS
<1>1. TypeOK
  <2>1. /\ Unstarted \in 0..Done /\ arrived \in 0..MaxFrames
        /\ Idle \notin Frames
    BY BusAssumption DEF Init, Idle, Unstarted, Done, Frames
  <2>2. at \in [Frames -> 0..Done]
    BY <2>1 DEF Init
  <2>3. /\ queue \in [Subs -> Seq(Frames)] /\ handled \in [Subs -> Seq(Frames)]
        /\ dropped \in [Subs -> SUBSET Frames]
        /\ busy \in [Subs -> {None} \cup Frames]
    <3>1. <<>> \in Seq(Frames)
      OBVIOUS
    <3>. QED
      BY <3>1 DEF Init
  <2>. QED
    BY <2>1, <2>2, <2>3 DEF Init, TypeOK
<1>2. QueuesBounded
  BY BusAssumption DEF Init, QueuesBounded
<1>. QED
  BY <1>1, <1>2 DEF Bounded

\* A frame arrives, or its task starts: the queues are not touched.
LEMMA ArrivalKeepsBounded ==
    ASSUME Bounded,
           ReceiveAndPublish \/ ReceiveAndSpawn \/ (\E f \in Frames : StartTask(f))
    PROVE  Bounded'
<1>1. TypeOK /\ QueuesBounded /\ Len(SubOrder) \in Nat \ {0} /\ MaxFrames \in Nat
  BY BusAssumption DEF Bounded
<1>2. 1 \in 1..Len(SubOrder) /\ 1 \in 0..Done
  BY <1>1 DEF Done
<1>3. CASE ReceiveAndPublish
  <2>1. arrived + 1 \in Frames /\ arrived' \in 0..MaxFrames
    BY <1>1, <1>3 DEF TypeOK, ReceiveAndPublish, Frames
  <2>2. at' \in [Frames -> 0..Done] /\ at'[running'] = 1 /\ running' \in Frames
    BY <1>1, <1>2, <1>3, <2>1 DEF TypeOK, ReceiveAndPublish
  <2>. QED
    BY <1>1, <1>2, <1>3, <2>1, <2>2 DEF Bounded, TypeOK, QueuesBounded, ReceiveAndPublish
<1>4. CASE ReceiveAndSpawn
  <2>1. arrived' \in 0..MaxFrames
    BY <1>1, <1>4 DEF TypeOK, ReceiveAndSpawn
  <2>. QED
    BY <1>1, <1>4, <2>1 DEF Bounded, TypeOK, QueuesBounded, ReceiveAndSpawn
<1>5. ASSUME NEW f \in Frames, StartTask(f) PROVE Bounded'
  <2>1. at' \in [Frames -> 0..Done] /\ at'[f] = 1 /\ running' = f
    BY <1>1, <1>2, <1>5 DEF TypeOK, StartTask
  <2>. QED
    BY <1>1, <1>2, <1>5, <2>1 DEF Bounded, TypeOK, QueuesBounded, StartTask
<1>. QED
  BY <1>3, <1>4, <1>5

\* A publish at a subscriber: it puts, drops and puts, or goes to sleep.
LEMMA OfferKeepsBounded ==
    ASSUME Bounded, NEW f \in Frames, Offer(f)
    PROVE  Bounded'
<1> DEFINE s == SubOrder[at[f]]
<1>1. TypeOK /\ QueuesBounded /\ running = f
  BY DEF Bounded, Offer
<1>2. at[f] \in 1..Len(SubOrder)
  BY <1>1 DEF TypeOK
<1>3. s \in Subs
  BY <1>2, PlaceIsSub
<1>4. UNCHANGED <<publisher, arrived, busy, handled, closed>>
  BY DEF Offer
<1>5. CASE OfferFree(f, s)
  <2>1. ~Full(s) /\ Put(f, s) /\ Advance(f) /\ dropped' = dropped
    BY <1>5 DEF OfferFree
  <2>2. queue' \in [Subs -> Seq(Frames)] /\ \A t \in Subs : Len(queue'[t]) <= Ceiling
    BY <1>1, <1>3, <2>1, PutKeepsBound
  <2>3. /\ at' \in [Frames -> 0..Done] /\ running' \in {Idle} \cup Frames
        /\ running' \in Frames => at'[running'] \in 1..Len(SubOrder)
    BY <1>1, <1>2, <2>1, AdvanceKeepsType
  <2>. QED
    BY <1>1, <1>4, <2>1, <2>2, <2>3 DEF Bounded, TypeOK, QueuesBounded
<1>6. CASE OfferDropping(f, s)
  <2>1. /\ queue' \in [Subs -> Seq(Frames)] /\ \A t \in Subs : Len(queue'[t]) <= Ceiling
        /\ dropped' \in [Subs -> SUBSET Frames]
    BY <1>1, <1>3, <1>6, DropKeepsBound
  <2>2. Advance(f)
    BY <1>6 DEF OfferDropping
  <2>3. /\ at' \in [Frames -> 0..Done] /\ running' \in {Idle} \cup Frames
        /\ running' \in Frames => at'[running'] \in 1..Len(SubOrder)
    BY <1>1, <1>2, <2>2, AdvanceKeepsType
  <2>. QED
    BY <1>1, <1>4, <2>1, <2>3 DEF Bounded, TypeOK, QueuesBounded
<1>7. CASE Park(f, s)
  <2>1. Idle \notin Frames
    BY DEF Idle, Frames
  <2>. QED
    BY <1>1, <1>4, <1>7, <2>1 DEF Park, Bounded, TypeOK, QueuesBounded
<1>. QED
  BY <1>5, <1>6, <1>7 DEF Offer

\* A sleep ends and the queue has room, at that moment and not earlier.
LEMMA ResumeKeepsBounded ==
    ASSUME Bounded, NEW f \in Frames, Resume(f)
    PROVE  Bounded'
<1> DEFINE s == SubOrder[at[f]]
<1>1. TypeOK /\ QueuesBounded /\ at[f] \in 1..Len(SubOrder)
  BY DEF Bounded, Resume, Parked
<1>2. s \in Subs
  BY <1>1, PlaceIsSub
<1>3. /\ ~Full(s) /\ Put(f, s) /\ Advance(f)
      /\ UNCHANGED <<publisher, arrived, busy, handled, dropped, closed>>
  BY DEF Resume
<1>4. queue' \in [Subs -> Seq(Frames)] /\ \A t \in Subs : Len(queue'[t]) <= Ceiling
  BY <1>1, <1>2, <1>3, PutKeepsBound
<1>5. /\ at' \in [Frames -> 0..Done] /\ running' \in {Idle} \cup Frames
      /\ running' \in Frames => at'[running'] \in 1..Len(SubOrder)
  BY <1>1, <1>3, AdvanceKeepsType
<1>. QED
  BY <1>1, <1>3, <1>4, <1>5 DEF Bounded, TypeOK, QueuesBounded

\* A worker takes a frame, is done with one, or does both at once.
LEMMA WorkerKeepsBounded ==
    ASSUME Bounded, NEW s \in Subs, Take(s) \/ Finish(s) \/ Work(s)
    PROVE  Bounded'
<1>1. TypeOK /\ QueuesBounded
  BY DEF Bounded
<1>2. Idle \notin Frames /\ s \notin Frames
  BY BusAssumption DEF Idle, Frames
<1>3. CASE Take(s)
  <2>1. queue[s] # <<>> /\ queue' = [queue EXCEPT ![s] = Tail(@)]
    BY <1>3 DEF Take
  <2>2. /\ queue' \in [Subs -> Seq(Frames)] /\ \A t \in Subs : Len(queue'[t]) <= Ceiling
        /\ Head(queue[s]) \in Frames
    BY <1>1, <2>1, TakeKeepsBound
  <2>. QED
    BY <1>1, <1>3, <2>2 DEF Take, Bounded, TypeOK, QueuesBounded
<1>4. CASE Finish(s)
  <2>1. busy[s] \in Frames /\ handled[s] \in Seq(Frames)
    BY <1>1, <1>4 DEF Finish, TypeOK
  <2>2. handled' \in [Subs -> Seq(Frames)] /\ busy' \in [Subs -> {None} \cup Frames]
    BY <1>1, <1>4, <2>1 DEF Finish, TypeOK
  <2>. QED
    BY <1>1, <1>4, <2>2 DEF Finish, Bounded, TypeOK, QueuesBounded
<1>5. CASE Work(s)
  <2>1. queue[s] # <<>> /\ queue' = [queue EXCEPT ![s] = Tail(@)]
    BY <1>5 DEF Work
  <2>2. /\ queue' \in [Subs -> Seq(Frames)] /\ \A t \in Subs : Len(queue'[t]) <= Ceiling
        /\ Head(queue[s]) \in Frames
    BY <1>1, <2>1, TakeKeepsBound
  <2>3. handled' \in [Subs -> Seq(Frames)]
    BY <1>1, <1>5, <2>2 DEF Work, TypeOK
  <2>4. running' \in {Idle} \cup Subs /\ running' \notin Frames
    BY <1>2, <1>5 DEF Work
  <2>. QED
    BY <1>1, <1>5, <2>2, <2>3, <2>4 DEF Work, Bounded, TypeOK, QueuesBounded
<1>. QED
  BY <1>3, <1>4, <1>5

\* No step of a publish, a worker or shutdown breaks the bound.
LEMMA StepKeepsBounded ==
    ASSUME Bounded, [Next]_vars
    PROVE  Bounded'
<1>1. CASE UNCHANGED vars
  BY <1>1 DEF vars, Bounded, TypeOK, QueuesBounded
<1>2. CASE Shutdown
  BY <1>2 DEF Shutdown, Bounded, TypeOK, QueuesBounded
<1>3. CASE PublisherStep
  BY <1>3, ArrivalKeepsBounded, OfferKeepsBounded, ResumeKeepsBounded DEF PublisherStep
<1>4. CASE WorkerStep
  BY <1>4, WorkerKeepsBounded DEF WorkerStep
<1>. QED
  BY <1>1, <1>2, <1>3, <1>4 DEF Next

LEMMA AlwaysBounded == Spec => []Bounded
  BY InitBounded, StepKeepsBounded, PTL DEF Spec

\* The types of the bus, and the coroutine that holds the loop has a subscriber
\* to serve (broadcast, _worker_loop).
THEOREM BusTypeCorrect == Spec => []TypeOK
  BY AlwaysBounded, PTL DEF Bounded

\* put_nowait never meets a full queue, however many publishes sleep on it
\* (the "while" of broadcast's backpressure branch).
THEOREM QueueFullNeverRaised == Spec => []QueuesBounded
  BY AlwaysBounded, PTL DEF Bounded

-----------------------------------------------------------------------------
(* Sequences without repetition.                                           *)

Distinct(seq) == \A j, k \in DOMAIN seq : seq[j] = seq[k] => j = k

\* What is put at the end of a queue is at the end of the track.
LEMMA AppendConcat ==
    ASSUME NEW S, NEW a \in Seq(S), NEW q \in Seq(S), NEW x \in S
    PROVE  a \o Append(q, x) = Append(a \o q, x)
  OBVIOUS
\* What a worker takes from its queue stays at its place in the track.
LEMMA HeadMoves ==
    ASSUME NEW S, NEW a \in Seq(S), NEW q \in Seq(S), q # <<>>
    PROVE  Append(a, Head(q)) \o Tail(q) = a \o q
  OBVIOUS
\* Joining one element is appending it.
LEMMA ConcatOne ==
    ASSUME NEW S, NEW a \in Seq(S), NEW x \in S
    PROVE  a \o <<x>> = Append(a, x)
  OBVIOUS
\* Joining nothing changes nothing.
LEMMA ConcatNone ==
    ASSUME NEW S, NEW a \in Seq(S), NEW x \in S
    PROVE  a \o <<>> = a
  OBVIOUS
\* An element that is not there yet can be appended without doubling any.
LEMMA AppendNew ==
    ASSUME NEW S, NEW a \in Seq(S), NEW x \in S, Distinct(a), x \notin Elements(a)
    PROVE  Distinct(Append(a,x)) /\ Elements(Append(a,x)) = Elements(a) \cup {x}
  BY DEF Distinct, Elements
\* The length and the elements of a track.
LEMMA ConcatLen ==
    ASSUME NEW S, NEW a \in Seq(S), NEW q \in Seq(S)
    PROVE  /\ a \o q \in Seq(S) /\ Len(a \o q) = Len(a) + Len(q)
           /\ \A k \in 1..Len(a) : (a \o q)[k] = a[k]
           /\ \A k \in 1..Len(q) : (a \o q)[Len(a) + k] = q[k]
  OBVIOUS
\* Taking the oldest queued frame out and a new one in leaves no frame twice.
LEMMA DropOldest ==
    ASSUME NEW S, NEW a \in Seq(S), NEW q \in Seq(S), q # <<>>, NEW x \in S,
           Distinct(a \o q), x \notin Elements(a \o q)
    PROVE  /\ Distinct(a \o Append(Tail(q), x))
           /\ Elements(a \o Append(Tail(q), x)) = (Elements(a \o q) \ {Head(q)}) \cup {x}
<1> DEFINE n == Len(a)
           t == a \o q
           u == a \o Append(Tail(q), x)
           Old(k) == IF k <= n THEN k ELSE k + 1
<1>1. /\ n \in Nat /\ Len(q) \in Nat \ {0} /\ Len(t) = n + Len(q) /\ Len(u) = n + Len(q)
      /\ t \in Seq(S) /\ u \in Seq(S)
      /\ t[n + 1] = Head(q)
  OBVIOUS
<1>2. u[Len(u)] = x /\ \A k \in 1..(Len(u) - 1) : Old(k) \in 1..Len(t) /\ u[k] = t[Old(k)]
  OBVIOUS
<1>3. DOMAIN t = 1..Len(t) /\ DOMAIN u = 1..Len(u) /\ Len(t) \in Nat
  BY <1>1
<1>4. \A k \in DOMAIN t : t[k] # x
  BY DEF Elements
<1>5. \A k \in 1..(Len(u) - 1) : Old(k) \in DOMAIN t /\ u[k] = t[Old(k)] /\ Old(k) # n + 1
  BY <1>1, <1>2, <1>3
<1>6. \A j, k \in 1..(Len(u) - 1) : Old(j) = Old(k) => j = k
  BY <1>1
<1>7. \A k \in DOMAIN t : k = n + 1 \/ \E j \in 1..(Len(u) - 1) : Old(j) = k
  <2> SUFFICES ASSUME NEW k \in DOMAIN t, k # n + 1 PROVE \E j \in 1..(Len(u) - 1) : Old(j) = k
    OBVIOUS
  <2>1. k <= n => k \in 1..(Len(u) - 1) /\ Old(k) = k
    BY <1>1, <1>3
  <2>2. k > n => k - 1 \in 1..(Len(u) - 1) /\ Old(k - 1) = k
    BY <1>1, <1>3
  <2>. QED
    BY <1>1, <1>3, <2>1, <2>2
<1>8. \A k \in DOMAIN u : k = Len(u) \/ k \in 1..(Len(u) - 1)
  BY <1>1, <1>3
<1>9. Distinct(t)
  OBVIOUS
<1> HIDE DEF n, t, u, Old
<1>10. Distinct(u)
  BY <1>2, <1>4, <1>5, <1>6, <1>8, <1>9 DEF Distinct
<1>11. n + 1 \in DOMAIN t /\ Len(u) \in DOMAIN u /\ 1..(Len(u) - 1) \subseteq DOMAIN u
  BY <1>1, <1>3
<1>12. ASSUME NEW y \in Elements(u) PROVE y \in (Elements(t) \ {t[n + 1]}) \cup {x}
  BY <1>2, <1>5, <1>8, <1>9, <1>11 DEF Distinct, Elements
<1>13. ASSUME NEW y \in (Elements(t) \ {t[n + 1]}) \cup {x} PROVE y \in Elements(u)
  <2>1. CASE y = x
    BY <1>2, <1>11, <2>1 DEF Elements
  <2>2. CASE y # x
    <3>1. PICK k \in DOMAIN t : t[k] = y
      BY <1>13, <2>2 DEF Elements
    <3>2. k # n + 1
      BY <1>13, <2>2, <3>1
    <3>3. PICK j \in 1..(Len(u) - 1) : Old(j) = k
      BY <1>7, <3>2
    <3>. QED
      BY <1>5, <1>11, <3>1, <3>3 DEF Elements
  <2>. QED
    BY <2>1, <2>2
<1>14. Elements(u) = (Elements(t) \ {t[n + 1]}) \cup {x}
  BY <1>12, <1>13
<1>. QED
  BY <1>1, <1>10, <1>14 DEF t, u, n

-----------------------------------------------------------------------------
(* What one step does to one subscriber's track.                            *)

Given(s) == handled[s] \o HeldBy(s)

\* The newest frame of an awaited publish that has come to the subscriber.
Newest(s) == IF arrived = 0 \/ arrived \in Offered(s) THEN arrived ELSE arrived - 1

NotYetReceived == \A f \in Frames : f > arrived => at[f] = Unstarted
NeverBusy == \A s \in Subs \ Suspending : busy[s] = None

\* Awaited publishes: only the last frame received can still be on its way.
OneAtATime ==
    publisher = "awaits_each" =>
        /\ \A f \in Frames : f < arrived => at[f] = Done
        /\ arrived > 0 => at[arrived] # Unstarted

Basic == Bounded /\ NotYetReceived /\ NeverBusy /\ OneAtATime

Still(s) ==
    /\ Given(s)' = Given(s) /\ queue'[s] = queue[s]
    /\ Offered(s)' = Offered(s) /\ dropped'[s] = dropped[s]
    /\ publisher = "awaits_each" => Newest(s)' = Newest(s)

Moves(s) ==
    /\ queue[s] # <<>>
    /\ Given(s)' = Append(Given(s), Head(queue[s])) /\ queue'[s] = Tail(queue[s])
    /\ Offered(s)' = Offered(s) /\ dropped'[s] = dropped[s]
    /\ publisher = "awaits_each" => Newest(s)' = Newest(s)

Arrives(s, f) ==
    /\ f \notin Offered(s) /\ Offered(s)' = Offered(s) \cup {f}
    /\ Given(s)' = Given(s)
    /\ publisher = "awaits_each" => f = Newest(s) + 1 /\ Newest(s)' = f

Joins(s, f) ==
    /\ Arrives(s, f)
    /\ queue'[s] = Append(queue[s], f) /\ dropped'[s] = dropped[s]

Replaces(s, f) ==
    /\ Arrives(s, f)
    /\ Len(queue[s]) = Ceiling /\ ~Lossless(s)
    /\ queue'[s] = Append(Tail(queue[s]), f)
    /\ dropped'[s] = dropped[s] \cup {Head(queue[s])}

StepOf(s) == Still(s) \/ Moves(s) \/ (\E f \in Frames : Joins(s, f) \/ Replaces(s, f))

\* Given is a sequence of frames, as long as what it joins.
LEMMA GivenType ==
    ASSUME TypeOK, NEW s \in Subs
    PROVE  /\ Given(s) \in Seq(Frames) /\ Track(s) = Given(s) \o queue[s]
           /\ queue[s] \in Seq(Frames) /\ handled[s] \in Seq(Frames)
           /\ busy[s] = None => Given(s) = handled[s]
           /\ busy[s] # None => busy[s] \in Frames /\ Given(s) = Append(handled[s], busy[s])
<1>1. /\ handled[s] \in Seq(Frames) /\ queue[s] \in Seq(Frames)
      /\ busy[s] \in {None} \cup Frames
  BY DEF TypeOK
<1>2. CASE busy[s] = None
  BY <1>1, <1>2, ConcatNone DEF Given, HeldBy, Track
<1>3. CASE busy[s] # None
  BY <1>1, <1>3, ConcatOne DEF Given, HeldBy, Track
<1>. QED
  BY <1>1, <1>2, <1>3

\* A frame that no publish has come with has been offered to nobody.
LEMMA OfferedBefore ==
    ASSUME TypeOK, NotYetReceived, NEW s \in Subs, NEW f \in Offered(s)
    PROVE  f \in Frames /\ f <= arrived /\ at[f] # Unstarted
<1>1. PICK k \in DOMAIN SubOrder : SubOrder[k] = s /\ k < at[f]
  BY DEF Offered
<1>2. f \in Frames /\ at[f] \in 0..Done /\ k \in 1..Len(SubOrder) /\ arrived \in 0..MaxFrames
  BY BusAssumption DEF Offered, TypeOK
<1>3. Done \in Nat
  BY BusAssumption DEF Done
<1>4. at[f] # Unstarted
  BY <1>1, <1>2, <1>3 DEF Unstarted
<1>. QED
  BY <1>2, <1>4, BusAssumption DEF NotYetReceived, Frames

\* A frame whose publish has returned has been offered to everybody.
LEMMA OfferedAfter ==
    ASSUME NEW s \in Subs, NEW f \in Frames, at[f] = Done
    PROVE  f \in Offered(s)
<1>1. PICK k \in DOMAIN SubOrder : SubOrder[k] = s
  BY DEF Subs
<1>2. k \in 1..Len(SubOrder) /\ Len(SubOrder) \in Nat
  BY <1>1, BusAssumption
<1>. QED
  BY <1>1, <1>2 DEF Offered, Done

\* A publish that begins has not been offered to anybody.
LEMMA OfferedAtStart ==
    ASSUME TypeOK, NEW g \in Frames, at[g] = Unstarted, at' = [at EXCEPT ![g] = 1],
           NEW s \in Subs
    PROVE  Offered(s)' = Offered(s)
<1>1. at \in [Frames -> 0..Done] /\ DOMAIN SubOrder = 1..Len(SubOrder) /\ Len(SubOrder) \in Nat
  BY BusAssumption DEF TypeOK
<1>2. \A f \in Frames, k \in DOMAIN SubOrder : k < at[f] <=> k < at'[f]
  BY <1>1 DEF Unstarted, Done
<1>. QED
  BY <1>2 DEF Offered

\* Going on to the next subscriber offers the frame to the one it leaves.
LEMMA OfferedByAdvance ==
    ASSUME TypeOK, NEW f \in Frames, at[f] \in 1..Len(SubOrder), Advance(f), NEW s \in Subs
    PROVE  /\ s = SubOrder[at[f]] => f \notin Offered(s) /\ Offered(s)' = Offered(s) \cup {f}
           /\ s # SubOrder[at[f]] => Offered(s)' = Offered(s)
<1>1. /\ at \in [Frames -> 0..Done] /\ DOMAIN SubOrder = 1..Len(SubOrder) /\ Len(SubOrder) \in Nat
      /\ \A j, k \in DOMAIN SubOrder : SubOrder[j] = SubOrder[k] => j = k
  BY BusAssumption DEF TypeOK
<1>2. at' = [at EXCEPT ![f] = at[f] + 1]
  BY DEF Advance
<1>3. \A g \in Frames, k \in DOMAIN SubOrder :
          k < at'[g] <=> k < at[g] \/ (g = f /\ k = at[f])
  BY <1>1, <1>2 DEF Done
<1>4. CASE s = SubOrder[at[f]]
  <2>1. \A k \in DOMAIN SubOrder : SubOrder[k] = s => k = at[f]
    BY <1>1, <1>4
  <2>2. f \notin Offered(s)
    BY <1>1, <2>1 DEF Offered
  <2>3. \A g \in Frames : g \in Offered(s)' <=> g \in Offered(s) \/ g = f
    BY <1>1, <1>3, <1>4 DEF Offered
  <2>4. Offered(s)' \subseteq Frames /\ Offered(s) \subseteq Frames
    BY DEF Offered
  <2>. QED
    BY <1>4, <2>2, <2>3, <2>4
<1>5. CASE s # SubOrder[at[f]]
  BY <1>1, <1>3, <1>5 DEF Offered
<1>. QED
  BY <1>4, <1>5

\* Under awaited publishes the frame a publish comes with is the last received.
LEMMA AwaitedIsLast ==
    ASSUME Basic, publisher = "awaits_each",
           NEW f \in Frames, at[f] \in 1..Len(SubOrder), Advance(f), arrived' = arrived
    PROVE  /\ f = arrived
           /\ \A s \in Subs : s = SubOrder[at[f]] => f = Newest(s) + 1 /\ Newest(s)' = f
<1>1. TypeOK /\ NotYetReceived /\ Len(SubOrder) \in Nat
  BY BusAssumption DEF Basic, Bounded
<1>2. at[f] # Unstarted /\ at[f] # Done
  BY <1>1 DEF Unstarted, Done
<1>3. arrived \in Nat /\ f \in Nat \ {0}
  BY <1>1, BusAssumption DEF TypeOK, Frames
<1>4. f = arrived
  BY <1>1, <1>2, <1>3 DEF Basic, OneAtATime, NotYetReceived
<1>5. ASSUME NEW s \in Subs, s = SubOrder[at[f]] PROVE f = Newest(s) + 1 /\ Newest(s)' = f
  <2>1. f \notin Offered(s) /\ f \in Offered(s)'
    BY <1>1, <1>5, OfferedByAdvance
  <2>. QED
    BY <1>3, <1>4, <2>1 DEF Newest
<1>. QED
  BY <1>4, <1>5

-----------------------------------------------------------------------------
(* Every step is one of those, for every subscriber.                        *)

LEMMA ArrivalStep ==
    ASSUME Basic, ReceiveAndPublish \/ ReceiveAndSpawn \/ (\E f \in Frames : StartTask(f)),
           NEW s \in Subs
    PROVE  Still(s)
<1>1. TypeOK /\ NotYetReceived /\ MaxFrames \in Nat
  BY BusAssumption DEF Basic, Bounded
<1>2. UNCHANGED <<publisher, queue, busy, handled, dropped>>
  BY DEF ReceiveAndPublish, ReceiveAndSpawn, StartTask
<1>3. Given(s)' = Given(s)
  BY <1>2 DEF Given, HeldBy
<1>4. CASE ReceiveAndPublish
  <2>1. arrived + 1 \in Frames /\ arrived \in 0..MaxFrames /\ arrived' = arrived + 1
    BY <1>1, <1>4 DEF TypeOK, ReceiveAndPublish, Frames
  <2>2. at[arrived + 1] = Unstarted
    BY <1>1, <2>1 DEF NotYetReceived
  <2>3. Offered(s)' = Offered(s)
    BY <1>1, <1>4, <2>1, <2>2, OfferedAtStart DEF ReceiveAndPublish
  <2>4. arrived + 1 \notin Offered(s)
    BY <1>1, <2>2, OfferedBefore
  <2>5. arrived = 0 \/ arrived \in Offered(s)
    <3>1. arrived = 0 \/ arrived \in Frames
      BY <2>1 DEF Frames
    <3>2. arrived \in Frames => at[arrived] = Done
      BY <1>4, <2>1 DEF ReceiveAndPublish, InFlight
    <3>. QED
      BY <3>1, <3>2, OfferedAfter
  <2>6. Newest(s)' = Newest(s)
    BY <2>1, <2>3, <2>4, <2>5 DEF Newest
  <2>. QED
    BY <1>2, <1>3, <2>3, <2>6 DEF Still
<1>5. CASE ReceiveAndSpawn
  <2>1. Offered(s)' = Offered(s) /\ publisher # "awaits_each"
    BY <1>5 DEF ReceiveAndSpawn, Offered
  <2>. QED
    BY <1>2, <1>3, <2>1 DEF Still
<1>6. ASSUME NEW f \in Frames, StartTask(f) PROVE Still(s)
  <2>1. Offered(s)' = Offered(s) /\ publisher # "awaits_each"
    BY <1>1, <1>6, OfferedAtStart DEF StartTask
  <2>. QED
    BY <1>2, <1>3, <2>1 DEF Still
<1>. QED
  BY <1>4, <1>5, <1>6

\* A publish that goes on to the next subscriber has given the one it leaves its
\* frame, and the others nothing.
LEMMA PublishStep ==
    ASSUME Basic, NEW f \in Frames, at[f] \in 1..Len(SubOrder), Advance(f),
           UNCHANGED <<publisher, arrived, busy, handled>>, NEW s \in Subs
    PROVE  /\ s = SubOrder[at[f]] => Arrives(s, f)
           /\ s # SubOrder[at[f]] /\ queue'[s] = queue[s] /\ dropped'[s] = dropped[s] => Still(s)
<1>1. TypeOK
  BY DEF Basic, Bounded
<1>2. Given(s)' = Given(s)
  BY DEF Given, HeldBy
<1>3. CASE s = SubOrder[at[f]]
  <2>1. f \notin Offered(s) /\ Offered(s)' = Offered(s) \cup {f}
    BY <1>1, <1>3, OfferedByAdvance
  <2>2. publisher = "awaits_each" => f = Newest(s) + 1 /\ Newest(s)' = f
    BY <1>3, AwaitedIsLast
  <2>. QED
    BY <1>2, <1>3, <2>1, <2>2 DEF Arrives
<1>4. CASE s # SubOrder[at[f]] /\ queue'[s] = queue[s] /\ dropped'[s] = dropped[s]
  <2>1. Offered(s)' = Offered(s)
    BY <1>1, <1>4, OfferedByAdvance
  <2>2. Newest(s)' = Newest(s)
    BY <2>1 DEF Newest
  <2>. QED
    BY <1>2, <1>4, <2>1, <2>2 DEF Still
<1>. QED
  BY <1>3, <1>4

LEMMA OfferStep ==
    ASSUME Basic, NEW f \in Frames, Offer(f) \/ Resume(f), NEW s \in Subs
    PROVE  StepOf(s)
<1> DEFINE t == SubOrder[at[f]]
<1>1. TypeOK /\ QueuesBounded /\ at[f] \in 1..Len(SubOrder)
  BY DEF Basic, Bounded, TypeOK, Offer, Resume, Parked
<1>2. UNCHANGED <<publisher, arrived, busy, handled>>
  BY DEF Offer, Resume
<1>3. t \in Subs /\ queue \in [Subs -> Seq(Frames)] /\ dropped \in [Subs -> SUBSET Frames]
  BY <1>1, PlaceIsSub DEF TypeOK
<1>4. CASE Put(f, t) /\ Advance(f) /\ dropped' = dropped
  <2>1. s = t => queue'[s] = Append(queue[s], f)
    BY <1>3, <1>4 DEF Put
  <2>2. s # t => queue'[s] = queue[s]
    BY <1>3, <1>4 DEF Put
  <2>. QED
    BY <1>1, <1>2, <1>4, <2>1, <2>2, PublishStep DEF StepOf, Joins
<1>5. CASE OfferDropping(f, t)
  <2>1. Advance(f) /\ ~Lossless(t) /\ Full(t)
    BY <1>5 DEF OfferDropping
  <2>2. Len(queue[t]) = Ceiling
    BY <1>1, <1>3, <2>1, BusAssumption DEF Full, QueuesBounded
  <2>3. s = t => /\ queue'[s] = Append(Tail(queue[s]), f)
                 /\ dropped'[s] = dropped[s] \cup {Head(queue[s])}
    BY <1>3, <1>5 DEF OfferDropping
  <2>4. s # t => queue'[s] = queue[s] /\ dropped'[s] = dropped[s]
    BY <1>3, <1>5 DEF OfferDropping
  <2>. QED
    BY <1>1, <1>2, <2>1, <2>2, <2>3, <2>4, PublishStep DEF StepOf, Replaces
<1>6. CASE Park(f, t)
  <2>1. UNCHANGED <<at, queue, dropped>>
    BY <1>6 DEF Park
  <2>2. Offered(s)' = Offered(s) /\ Given(s)' = Given(s)
    BY <1>2, <2>1 DEF Offered, Given, HeldBy
  <2>3. Newest(s)' = Newest(s)
    BY <1>2, <2>2 DEF Newest
  <2>. QED
    BY <2>1, <2>2, <2>3 DEF StepOf, Still
<1>7. CASE Offer(f)
  BY <1>4, <1>5, <1>6, <1>7 DEF Offer, OfferFree
<1>8. CASE Resume(f)
  BY <1>4, <1>8 DEF Resume
<1>. QED
  BY <1>7, <1>8

\* What a worker takes from a queue, or is done with, stays in the track.
LEMMA WorkerStepOf ==
    ASSUME Basic, NEW t \in Subs, Take(t) \/ Finish(t) \/ Work(t), NEW s \in Subs
    PROVE  StepOf(s)
<1>1. TypeOK /\ TypeOK' /\ NeverBusy
  <2>1. Bounded'
    BY WorkerKeepsBounded DEF Basic
  <2>. QED
    BY <2>1 DEF Basic, Bounded
<1>2. UNCHANGED <<publisher, arrived, at, dropped>>
  BY DEF Take, Finish, Work
<1>3. Offered(s)' = Offered(s)
  BY <1>2 DEF Offered
<1>4. Newest(s)' = Newest(s)
  BY <1>2, <1>3 DEF Newest
<1>5. /\ queue[t] \in Seq(Frames) /\ handled[t] \in Seq(Frames) /\ None \notin Frames
      /\ queue \in [Subs -> Seq(Frames)] /\ handled \in [Subs -> Seq(Frames)]
      /\ busy \in [Subs -> {None} \cup Frames]
  BY <1>1 DEF TypeOK, None, Frames
<1>6. CASE s # t
  <2>1. queue'[s] = queue[s] /\ busy'[s] = busy[s] /\ handled'[s] = handled[s]
    BY <1>5, <1>6 DEF Take, Finish, Work
  <2>2. Given(s)' = Given(s)
    BY <2>1 DEF Given, HeldBy
  <2>. QED
    BY <1>2, <1>3, <1>4, <2>1, <2>2 DEF StepOf, Still
<1>7. CASE s = t /\ Take(t)
  <2>1. /\ queue[s] # <<>> /\ queue'[s] = Tail(queue[s]) /\ Head(queue[s]) \in Frames
        /\ busy[s] = None /\ busy'[s] = Head(queue[s]) /\ handled'[s] = handled[s]
    BY <1>5, <1>7, HeadOff DEF Take
  <2>2. Given(s)' = handled[s] \o <<Head(queue[s])>> /\ Given(s) = handled[s]
    BY <1>1, <1>5, <2>1, GivenType DEF Given, HeldBy
  <2>3. Given(s)' = Append(Given(s), Head(queue[s]))
    BY <1>5, <1>7, <2>1, <2>2, ConcatOne
  <2>. QED
    BY <1>2, <1>3, <1>4, <2>1, <2>3 DEF StepOf, Moves
<1>8. CASE s = t /\ Finish(t)
  <2>1. /\ queue'[s] = queue[s] /\ busy[s] # None /\ busy'[s] = None
        /\ handled'[s] = Append(handled[s], busy[s])
    BY <1>5, <1>8 DEF Finish
  <2>2. busy[s] \in Frames /\ Given(s) = Append(handled[s], busy[s])
    BY <1>1, <2>1, GivenType
  <2>3. Append(handled[s], busy[s]) \in Seq(Frames)
    BY <1>5, <1>8, <2>2
  <2>4. Given(s)' = Append(handled[s], busy[s]) \o <<>>
    BY <2>1 DEF Given, HeldBy
  <2>5. Given(s)' = Given(s)
    BY <2>2, <2>3, <2>4, ConcatNone
  <2>. QED
    BY <1>2, <1>3, <1>4, <2>1, <2>5 DEF StepOf, Still
<1>9. CASE s = t /\ Work(t)
  <2>1. /\ queue[s] # <<>> /\ queue'[s] = Tail(queue[s]) /\ Head(queue[s]) \in Frames
        /\ busy'[s] = busy[s] /\ handled'[s] = Append(handled[s], Head(queue[s]))
    BY <1>5, <1>9, HeadOff DEF Work
  <2>2. busy[s] = None
    BY <1>1, <1>9 DEF Work, NeverBusy
  <2>3. Append(handled[s], Head(queue[s])) \in Seq(Frames)
    BY <1>5, <1>9, <2>1
  <2>4. Given(s)' = Append(handled[s], Head(queue[s])) \o <<>> /\ Given(s) = handled[s]
    BY <1>1, <2>1, <2>2, GivenType DEF Given, HeldBy
  <2>5. Given(s)' = Append(Given(s), Head(queue[s]))
    BY <2>3, <2>4, ConcatNone
  <2>. QED
    BY <1>2, <1>3, <1>4, <2>1, <2>5 DEF StepOf, Moves
<1>. QED
  BY <1>6, <1>7, <1>8, <1>9

LEMMA EveryStep ==
    ASSUME Basic, [Next]_vars, NEW s \in Subs
    PROVE  StepOf(s)
<1>1. CASE UNCHANGED vars \/ Shutdown
  <2>1. UNCHANGED <<publisher, arrived, at, queue, busy, handled, dropped>>
    BY <1>1 DEF vars, Shutdown
  <2>. QED
    BY <2>1 DEF StepOf, Still, Given, HeldBy, Newest, Offered
<1>2. CASE PublisherStep
  BY <1>2, ArrivalStep, OfferStep DEF PublisherStep, StepOf
<1>3. CASE WorkerStep
  BY <1>3, WorkerStepOf DEF WorkerStep
<1>. QED
  BY <1>1, <1>2, <1>3 DEF Next

-----------------------------------------------------------------------------
(* Each frame once: Accounted.                                              *)

AccountedOf(s) ==
    /\ Distinct(Track(s))
    /\ Elements(Track(s)) \cup dropped[s] = Offered(s)
    /\ Elements(Track(s)) \cap dropped[s] = {}
    /\ Lossless(s) => dropped[s] = {}

LEMMA StepKeepsAccounted ==
    ASSUME Basic, Basic', NEW s \in Subs, AccountedOf(s), StepOf(s)
    PROVE  AccountedOf(s)'
<1> DEFINE a == Given(s)
           q == queue[s]
           t == Track(s)
<1>1. TypeOK /\ TypeOK'
  BY DEF Basic, Bounded
<1>2. a \in Seq(Frames) /\ q \in Seq(Frames) /\ t = a \o q
  BY <1>1, GivenType
<1>3. t' = Given(s)' \o queue'[s]
  <2>1. handled'[s] \in Seq(Frames) /\ queue'[s] \in Seq(Frames) /\ busy'[s] \in {None} \cup Frames
    BY <1>1 DEF TypeOK
  <2>. QED
    BY DEF Track, Given
<1>4. Elements(t) \subseteq Offered(s) /\ dropped[s] \subseteq Offered(s)
  BY DEF AccountedOf
<1>5. t \in Seq(Frames)
  BY <1>2, ConcatLen
<1> HIDE DEF a, q, t
<1>6. CASE Still(s)
  BY <1>2, <1>3, <1>6 DEF Still, AccountedOf, a, q, t
<1>7. CASE Moves(s)
  <2>1. t' = t
    BY <1>2, <1>3, <1>7, HeadMoves DEF Moves, a, q
  <2>. QED
    BY <1>7, <2>1 DEF Moves, AccountedOf, t
<1>8. ASSUME NEW f \in Frames, Joins(s, f) PROVE AccountedOf(s)'
  <2>1. t' = a \o Append(q, f) /\ f \notin Offered(s)
    BY <1>3, <1>8 DEF Joins, Arrives, a, q
  <2>2. t' = Append(t, f)
    BY <1>2, <2>1, AppendConcat
  <2>3. Distinct(t) /\ f \notin Elements(t) /\ f \notin dropped[s]
    BY <1>4, <2>1 DEF AccountedOf, t
  <2>4. Distinct(t') /\ Elements(t') = Elements(t) \cup {f}
    BY <1>5, <2>2, <2>3, AppendNew
  <2>. QED
    BY <1>8, <2>3, <2>4 DEF Joins, Arrives, AccountedOf, t
<1>9. ASSUME NEW f \in Frames, Replaces(s, f) PROVE AccountedOf(s)'
  <2>1. t' = a \o Append(Tail(q), f) /\ f \notin Offered(s)
    BY <1>3, <1>9 DEF Replaces, Arrives, a, q
  <2>2. q # <<>>
    BY <1>9, BusAssumption DEF Replaces, q
  <2>3. Distinct(t) /\ f \notin Elements(t) /\ f \notin dropped[s]
    BY <1>4, <2>1 DEF AccountedOf, t
  <2>4. Distinct(t') /\ Elements(t') = (Elements(t) \ {Head(q)}) \cup {f}
    BY <1>2, <2>1, <2>2, <2>3, DropOldest
  <2>5. Head(q) \in Elements(t)
    <3>1. t[Len(a) + 1] = Head(q) /\ Len(a) + 1 \in DOMAIN t
      BY <1>2, <2>2
    <3>. QED
      BY <3>1 DEF Elements
  <2>. QED
    BY <1>9, <2>3, <2>4, <2>5 DEF Replaces, Arrives, AccountedOf, t, q
<1>. QED
  BY <1>6, <1>7, <1>8, <1>9 DEF StepOf

-----------------------------------------------------------------------------
(* What is received, started and under way.                                 *)

LEMMA StepKeepsBasic ==
    ASSUME Basic, [Next]_vars
    PROVE  Basic'
<1>1. TypeOK /\ NotYetReceived /\ NeverBusy /\ OneAtATime
  BY DEF Basic, Bounded
<1>2. Bounded'
  BY StepKeepsBounded DEF Basic
<1>3. /\ at \in [Frames -> 0..Done] /\ arrived \in 0..MaxFrames /\ MaxFrames \in Nat
      /\ Len(SubOrder) \in Nat \ {0} /\ \A f \in Frames : f \in Nat \ {0}
  BY <1>1, BusAssumption DEF TypeOK, Frames
<1>4. NotYetReceived'
  <2>1. CASE ReceiveAndPublish \/ ReceiveAndSpawn
    BY <1>1, <1>3, <2>1 DEF ReceiveAndPublish, ReceiveAndSpawn, NotYetReceived
  <2>2. ASSUME NEW f \in Frames, StartTask(f) PROVE NotYetReceived'
    BY <1>1, <1>3, <2>2 DEF StartTask, NotYetReceived
  <2>3. ASSUME NEW f \in Frames, Offer(f) \/ Resume(f) PROVE NotYetReceived'
    <3>1. at[f] \in 1..Len(SubOrder) /\ arrived' = arrived
      BY <1>1, <2>3 DEF TypeOK, Offer, Resume, Parked
    <3>2. at' = at \/ at' = [at EXCEPT ![f] = @ + 1]
      BY <2>3 DEF Offer, OfferFree, OfferDropping, Park, Resume, Advance
    <3>. QED
      BY <1>1, <1>3, <3>1, <3>2 DEF NotYetReceived, Unstarted
  <2>4. CASE UNCHANGED <<at, arrived>>
    BY <1>1, <2>4 DEF NotYetReceived
  <2>5. WorkerStep \/ Shutdown \/ UNCHANGED vars => UNCHANGED <<at, arrived>>
    BY DEF WorkerStep, Take, Finish, Work, Shutdown, vars
  <2>. QED
    BY <2>1, <2>2, <2>3, <2>4, <2>5 DEF Next, PublisherStep
<1>5. NeverBusy'
  <2>1. ASSUME NEW s \in Subs \ Suspending PROVE busy'[s] = busy[s]
    <3>1. busy \in [Subs -> {None} \cup Frames] /\ busy[s] = None
      BY <1>1 DEF TypeOK, NeverBusy
    <3>2. ASSUME NEW t \in Subs, Take(t) \/ Finish(t) \/ Work(t) PROVE busy'[s] = busy[s]
      BY <2>1, <3>1, <3>2 DEF Take, Finish, Work
    <3>3. PublisherStep \/ Shutdown \/ UNCHANGED vars => busy' = busy
      BY DEF PublisherStep, ReceiveAndPublish, ReceiveAndSpawn, StartTask, Offer, Resume, Shutdown, vars
    <3>. QED
      BY <3>2, <3>3 DEF Next, WorkerStep
  <2>. QED
    BY <1>1, <2>1 DEF NeverBusy
<1>6. OneAtATime'
  <2> SUFFICES ASSUME publisher' = "awaits_each"
               PROVE  /\ \A f \in Frames : f < arrived' => at'[f] = Done
                      /\ arrived' > 0 => at'[arrived'] # Unstarted
    BY DEF OneAtATime, Done, Unstarted
  <2>1. publisher' = publisher
    BY DEF Next, PublisherStep, WorkerStep, Shutdown, vars, ReceiveAndPublish, ReceiveAndSpawn,
           StartTask, Offer, Resume, Take, Finish, Work
  <2>2. /\ \A f \in Frames : f < arrived => at[f] = Done
        /\ arrived > 0 => at[arrived] # Unstarted
    BY <1>1, <2>1 DEF OneAtATime
  <2>3. CASE ReceiveAndPublish
    <3>1. arrived + 1 \in Frames /\ arrived' = arrived + 1 /\ at' = [at EXCEPT ![arrived + 1] = 1]
      BY <1>3, <2>3 DEF ReceiveAndPublish, Frames
    <3>2. \A f \in Frames : f <= arrived => at[f] = Done
      BY <2>3 DEF ReceiveAndPublish, InFlight
    <3>. QED
      BY <1>3, <3>1, <3>2 DEF Unstarted
  <2>4. CASE ReceiveAndSpawn \/ \E f \in Frames : StartTask(f)
    BY <2>1, <2>4 DEF ReceiveAndSpawn, StartTask
  <2>5. ASSUME NEW f \in Frames, Offer(f) \/ Resume(f)
        PROVE  /\ \A g \in Frames : g < arrived' => at'[g] = Done
               /\ arrived' > 0 => at'[arrived'] # Unstarted
    <3>1. at[f] \in 1..Len(SubOrder) /\ arrived' = arrived
      BY <1>1, <2>5 DEF TypeOK, Offer, Resume, Parked
    <3>2. at' = at \/ at' = [at EXCEPT ![f] = @ + 1]
      BY <2>5 DEF Offer, OfferFree, OfferDropping, Park, Resume, Advance
    <3>3. f >= arrived
      BY <1>3, <2>2, <3>1 DEF Done
    <3>. QED
      BY <1>3, <2>2, <3>1, <3>2, <3>3 DEF Unstarted, Frames
  <2>6. CASE UNCHANGED <<at, arrived>>
    BY <2>2, <2>6
  <2>7. WorkerStep \/ Shutdown \/ UNCHANGED vars => UNCHANGED <<at, arrived>>
    BY DEF WorkerStep, Take, Finish, Work, Shutdown, vars
  <2>. QED
    BY <2>3, <2>4, <2>5, <2>6, <2>7 DEF Next, PublisherStep
<1>. QED
  BY <1>2, <1>4, <1>5, <1>6 DEF Basic

-----------------------------------------------------------------------------
(* Awaited publishes: the queue holds the last frames, without a gap, and   *)
(* what was given before them came in order.                                *)

Ascending(seq) == \A j, k \in DOMAIN seq : j < k => seq[j] < seq[k]

ContiguousOf(s) ==
    /\ \A k \in DOMAIN queue[s] : queue[s][k] = Newest(s) - Len(queue[s]) + k
    /\ Ascending(Given(s))
    /\ \A k \in DOMAIN Given(s) : Given(s)[k] <= Newest(s) - Len(queue[s])
    /\ Lossless(s) => /\ Len(Given(s)) = Newest(s) - Len(queue[s])
                      /\ \A k \in DOMAIN Given(s) : Given(s)[k] = k

RecentOf(s) == \A f \in dropped[s] : \A g \in f..(f + Ceiling) : g \in Offered(s)

\* Under awaited publishes the subscriber has been offered all frames up to the
\* newest.
LEMMA OfferedAll ==
    ASSUME Basic, publisher = "awaits_each", NEW s \in Subs,
           NEW g \in Nat \ {0}, g <= Newest(s)
    PROVE  g \in Offered(s)
<1>1. arrived \in 0..MaxFrames /\ MaxFrames \in Nat
  BY BusAssumption DEF Basic, Bounded, TypeOK
<1>2. CASE g = arrived
  <2>1. arrived \in Offered(s)
    BY <1>1, <1>2 DEF Newest
  <2>. QED
    BY <1>2, <2>1
<1>3. CASE g < arrived
  <2>1. g \in Frames
    BY <1>1, <1>3 DEF Frames
  <2>. QED
    BY <1>3, <2>1, OfferedAfter DEF Basic, OneAtATime
<1>. QED
  BY <1>1, <1>2, <1>3 DEF Newest

\* The sequence facts of a step: a queue without gaps stays without, and what it
\* gives up comes after all that was given.
LEMMA TailContiguous ==
    ASSUME NEW q \in Seq(Frames), q # <<>>, NEW n \in Int,
           \A k \in DOMAIN q : q[k] = n - Len(q) + k
    PROVE  /\ Tail(q) \in Seq(Frames) /\ Len(Tail(q)) = Len(q) - 1 /\ Len(q) \in Nat
           /\ \A k \in DOMAIN Tail(q) : Tail(q)[k] = n - Len(Tail(q)) + k
           /\ Head(q) = n - Len(Tail(q)) /\ Head(q) \in Frames
  OBVIOUS

LEMMA AppendContiguous ==
    ASSUME NEW q \in Seq(Frames), NEW n \in Int, NEW f \in Frames, f = n + 1,
           \A k \in DOMAIN q : q[k] = n - Len(q) + k
    PROVE  /\ Append(q, f) \in Seq(Frames) /\ Len(Append(q, f)) = Len(q) + 1 /\ Len(q) \in Nat
           /\ \A k \in DOMAIN Append(q, f) : Append(q, f)[k] = f - Len(Append(q, f)) + k
  BY DEF Frames

LEMMA AppendAscending ==
    ASSUME NEW a \in Seq(Frames), NEW f \in Frames, Ascending(a),
           \A k \in DOMAIN a : a[k] < f
    PROVE  /\ Append(a, f) \in Seq(Frames) /\ Len(Append(a, f)) = Len(a) + 1 /\ Len(a) \in Nat
           /\ Ascending(Append(a, f))
           /\ \A k \in DOMAIN Append(a, f) : Append(a, f)[k] <= f
           /\ \A k \in DOMAIN Append(a, f) :
                  Append(a, f)[k] = IF k = Len(a) + 1 THEN f ELSE a[k]
           /\ \A k \in DOMAIN Append(a, f) : k = Len(a) + 1 \/ k \in DOMAIN a
<1> DEFINE b == Append(a, f)
<1>1. b \in Seq(Frames) /\ Len(b) = Len(a) + 1 /\ Len(a) \in Nat
  OBVIOUS
<1>2. /\ DOMAIN a = 1..Len(a) /\ DOMAIN b = 1..Len(b)
      /\ \A k \in DOMAIN b : b[k] = IF k = Len(a) + 1 THEN f ELSE a[k]
  OBVIOUS
<1>3. f \in Int /\ \A k \in DOMAIN a : a[k] \in Int
  <2>1. \A k \in DOMAIN a : a[k] \in Frames
    OBVIOUS
  <2>2. Frames \subseteq Int
    BY DEF Frames
  <2>. QED
    BY <2>1, <2>2
<1> HIDE DEF b
<1>4. \A k \in DOMAIN b : k = Len(a) + 1 \/ k \in DOMAIN a
  BY <1>1, <1>2
<1>5. \A k \in DOMAIN b : b[k] <= f
  BY <1>2, <1>3, <1>4
<1>6. Ascending(b)
  <2> SUFFICES ASSUME NEW j \in DOMAIN b, NEW k \in DOMAIN b, j < k PROVE b[j] < b[k]
    BY DEF Ascending
  <2>1. j \in DOMAIN a /\ j # Len(a) + 1 /\ b[j] = a[j]
    BY <1>1, <1>2
  <2>2. CASE k = Len(a) + 1
    BY <1>2, <2>1, <2>2
  <2>3. CASE k # Len(a) + 1
    BY <1>2, <1>4, <2>1, <2>3 DEF Ascending
  <2>. QED
    BY <2>2, <2>3
<1>. QED
  BY <1>1, <1>2, <1>4, <1>5, <1>6 DEF b

LEMMA StepKeepsContiguous ==
    ASSUME Basic, Basic', publisher = "awaits_each", NEW s \in Subs,
           ContiguousOf(s), StepOf(s)
    PROVE  ContiguousOf(s)'
<1> DEFINE a == Given(s)
           q == queue[s]
           n == Newest(s)
<1>1. TypeOK /\ a \in Seq(Frames) /\ q \in Seq(Frames) /\ n \in Int /\ Len(q) \in Nat
  <2>1. TypeOK
    BY DEF Basic, Bounded
  <2>. QED
    BY <2>1, GivenType DEF TypeOK, Newest
<1>2. /\ \A k \in DOMAIN q : q[k] = n - Len(q) + k
      /\ Ascending(a)
      /\ \A k \in DOMAIN a : a[k] <= n - Len(q)
      /\ Lossless(s) => Len(a) = n - Len(q) /\ \A k \in DOMAIN a : a[k] = k
      /\ \A k \in DOMAIN a : a[k] \in Frames
  BY <1>1 DEF ContiguousOf
<1>3. /\ ContiguousOf(s)' <=>
            /\ \A k \in DOMAIN q' : q'[k] = n' - Len(q') + k
            /\ Ascending(a')
            /\ \A k \in DOMAIN a' : a'[k] <= n' - Len(q')
            /\ Lossless(s) => Len(a') = n' - Len(q') /\ \A k \in DOMAIN a' : a'[k] = k
  BY DEF ContiguousOf, Ascending, Lossless
<1>4. CASE Still(s)
  <2>1. a' = a /\ q' = q /\ n' = n
    BY <1>4 DEF Still
  <2>. QED
    BY <1>2, <1>3, <2>1
<1>5. CASE Moves(s)
  <2>1. q # <<>> /\ a' = Append(a, Head(q)) /\ q' = Tail(q) /\ n' = n
    BY <1>5 DEF Moves
  <2> HIDE DEF a, q, n
  <2>2. /\ Len(q') = Len(q) - 1 /\ \A k \in DOMAIN q' : q'[k] = n - Len(q') + k
        /\ Head(q) = n - Len(q') /\ Head(q) \in Frames
    BY <1>1, <1>2, <2>1, TailContiguous
  <2>3. \A k \in DOMAIN a : a[k] < Head(q)
    BY <1>1, <1>2, <2>2 DEF Frames
  <2>4. /\ Ascending(a') /\ \A k \in DOMAIN a' : a'[k] <= Head(q)
        /\ Len(a') = Len(a) + 1
        /\ \A k \in DOMAIN a' : a'[k] = IF k = Len(a) + 1 THEN Head(q) ELSE a[k]
        /\ \A k \in DOMAIN a' : k = Len(a) + 1 \/ k \in DOMAIN a
    BY <1>1, <1>2, <2>1, <2>2, <2>3, AppendAscending
  <2>5. Lossless(s) => Len(a') = n - Len(q') /\ \A k \in DOMAIN a' : a'[k] = k
    BY <1>1, <1>2, <2>2, <2>4
  <2>. QED
    BY <1>3, <2>1, <2>2, <2>4, <2>5
<1>6. ASSUME NEW f \in Frames, Joins(s, f) PROVE ContiguousOf(s)'
  <2>1. a' = a /\ q' = Append(q, f) /\ f = n + 1 /\ n' = f
    BY <1>6 DEF Joins, Arrives
  <2> HIDE DEF a, q, n
  <2>2. Len(q') = Len(q) + 1 /\ \A k \in DOMAIN q' : q'[k] = n' - Len(q') + k
    BY <1>1, <1>2, <2>1, AppendContiguous
  <2>3. n' - Len(q') = n - Len(q)
    BY <1>1, <2>1, <2>2
  <2>. QED
    BY <1>2, <1>3, <2>1, <2>2, <2>3
<1>7. ASSUME NEW f \in Frames, Replaces(s, f) PROVE ContiguousOf(s)'
  <2>1. a' = a /\ q' = Append(Tail(q), f) /\ f = n + 1 /\ n' = f /\ q # <<>> /\ ~Lossless(s)
    BY <1>7, BusAssumption DEF Replaces, Arrives
  <2> HIDE DEF a, q, n
  <2>2. /\ Tail(q) \in Seq(Frames) /\ Len(Tail(q)) = Len(q) - 1
        /\ \A k \in DOMAIN Tail(q) : Tail(q)[k] = n - Len(Tail(q)) + k
    BY <1>1, <1>2, <2>1, TailContiguous
  <2>3. Len(q') = Len(q) /\ \A k \in DOMAIN q' : q'[k] = n' - Len(q') + k
    BY <1>1, <2>1, <2>2, AppendContiguous
  <2>4. n' - Len(q') = n - Len(q) + 1 /\ \A k \in DOMAIN a : a[k] \in Int
    BY <1>1, <1>2, <2>1, <2>3 DEF Frames
  <2>. QED
    BY <1>1, <1>2, <1>3, <2>1, <2>3, <2>4
<1>. QED
  BY <1>4, <1>5, <1>6, <1>7 DEF StepOf

\* A frame is dropped from the front of a full queue without gaps, so Ceiling
\* newer ones are there.
LEMMA StepKeepsRecent ==
    ASSUME Basic, Basic', publisher = "awaits_each", publisher' = publisher, NEW s \in Subs,
           ContiguousOf(s), RecentOf(s), StepOf(s)
    PROVE  RecentOf(s)'
<1>1. CASE Still(s) \/ Moves(s) \/ \E f \in Frames : Joins(s, f)
  BY <1>1 DEF Still, Moves, Joins, Arrives, RecentOf
<1>2. ASSUME NEW f \in Frames, Replaces(s, f) PROVE RecentOf(s)'
  <2>1. /\ Len(queue[s]) = Ceiling /\ Ceiling \in Nat \ {0}
        /\ queue[s] \in Seq(Frames) /\ queue[s] # <<>>
        /\ f = Newest(s) + 1 /\ Newest(s)' = f
        /\ dropped'[s] = dropped[s] \cup {Head(queue[s])}
        /\ Offered(s) \subseteq Offered(s)'
    BY <1>2, BusAssumption DEF Replaces, Arrives, Basic, Bounded, TypeOK
  <2>2. Newest(s) \in Int
    BY DEF Basic, Bounded, TypeOK, Newest
  <2>3. Head(queue[s]) + Ceiling = f /\ Head(queue[s]) \in Frames
    BY <2>1, <2>2, TailContiguous DEF ContiguousOf
  <2>4. ASSUME NEW g \in Head(queue[s])..(Head(queue[s]) + Ceiling) PROVE g \in Offered(s)'
    <3>1. g \in Nat \ {0} /\ g <= f
      BY <2>1, <2>3, <2>4 DEF Frames
    <3>2. CASE g = f
      BY <1>2, <3>2 DEF Replaces, Arrives
    <3>3. CASE g # f
      <4>1. g <= Newest(s)
        BY <2>1, <2>2, <3>1, <3>3
      <4>. QED
        BY <2>1, <3>1, <4>1, OfferedAll
    <3>. QED
      BY <3>2, <3>3
  <2>. QED
    BY <2>1, <2>4 DEF RecentOf
<1>. QED
  BY <1>1, <1>2 DEF StepOf

-----------------------------------------------------------------------------
(* The inductive invariant, and what follows from it.                       *)

BusInv ==
    /\ Basic
    /\ \A s \in Subs : AccountedOf(s)
    /\ publisher = "awaits_each" => \A s \in Subs : ContiguousOf(s) /\ RecentOf(s)

LEMMA InitBusInv == Init => BusInv
<1> SUFFICES ASSUME Init PROVE BusInv
  OBVIOUS
<1>1. Bounded
  BY InitBounded
<1>2. Basic
  <2>1. \A f \in Frames : at[f] = Unstarted /\ f > 0
    BY DEF Init, Frames
  <2>. QED
    BY <1>1, <2>1 DEF Init, Basic, NotYetReceived, NeverBusy, OneAtATime
<1>3. ASSUME NEW s \in Subs
      PROVE  /\ AccountedOf(s) /\ ContiguousOf(s) /\ RecentOf(s)
  <2>1. handled[s] = <<>> /\ queue[s] = <<>> /\ busy[s] = None /\ dropped[s] = {}
    BY DEF Init
  <2>2. TypeOK
    BY <1>1 DEF Bounded
  <2>3. Given(s) = <<>> /\ Track(s) = <<>> \o <<>>
    BY <2>1, <2>2, GivenType
  <2>4. Track(s) = <<>> /\ DOMAIN Track(s) = {} /\ DOMAIN Given(s) = {} /\ Len(Given(s)) = 0
    BY <2>3
  <2>5. Offered(s) = {} /\ Newest(s) = 0
    <3>1. \A k \in DOMAIN SubOrder : ~(k < 0)
      BY BusAssumption
    <3>. QED
      BY <3>1 DEF Init, Offered, Newest, Unstarted
  <2>6. AccountedOf(s)
    BY <2>1, <2>4, <2>5 DEF AccountedOf, Distinct, Elements
  <2>7. ContiguousOf(s)
    <3>1. Len(queue[s]) = 0 /\ DOMAIN queue[s] = {}
      BY <2>1
    <3>. QED
      BY <2>4, <2>5, <3>1 DEF ContiguousOf, Ascending
  <2>8. RecentOf(s)
    BY <2>1 DEF RecentOf
  <2>. QED
    BY <2>6, <2>7, <2>8
<1>. QED
  BY <1>2, <1>3 DEF BusInv

LEMMA StepKeepsBusInv ==
    ASSUME BusInv, [Next]_vars
    PROVE  BusInv'
<1>1. Basic /\ Basic' /\ \A s \in Subs : StepOf(s)
  BY StepKeepsBasic, EveryStep DEF BusInv
<1>2. publisher' = publisher
  BY DEF Next, PublisherStep, WorkerStep, Shutdown, vars, ReceiveAndPublish, ReceiveAndSpawn,
         StartTask, Offer, Resume, Take, Finish, Work
<1>3. \A s \in Subs : AccountedOf(s)'
  BY <1>1, StepKeepsAccounted DEF BusInv
<1>4. ASSUME publisher' = "awaits_each", NEW s \in Subs
      PROVE  ContiguousOf(s)' /\ RecentOf(s)'
  BY <1>1, <1>2, <1>4, StepKeepsContiguous, StepKeepsRecent DEF BusInv
<1>. QED
  BY <1>1, <1>3, <1>4 DEF BusInv

LEMMA AlwaysBusInv == Spec => []BusInv
  BY InitBusInv, StepKeepsBusInv, PTL DEF Spec

\* Between a publish and a callback every frame is in one place, once: in the
\* queue, in the callback, handled or dropped, and backpressure drops nothing
\* (broadcast, _worker_loop).
THEOREM NothingLostOrDoubled == Spec => []Accounted
<1>1. BusInv => Accounted
  BY DEF BusInv, AccountedOf, Accounted, Distinct
<1>. QED
  BY <1>1, AlwaysBusInv, PTL

\* With awaited publishes DROP_OLDEST drops a frame only once Ceiling newer ones
\* have been offered (the get_nowait of broadcast).
THEOREM OnlyTheOldestDropped == Spec => []RecentKept
<1>1. BusInv => RecentKept
  BY DEF BusInv, RecentOf, RecentKept
<1>. QED
  BY <1>1, AlwaysBusInv, PTL

-----------------------------------------------------------------------------
(* The refinement of OrderedFeed, for every subscriber.                     *)

Feed(s) == INSTANCE OrderedFeed WITH
    NoLoss <- Lossless(s),
    ordered <- (publisher = "awaits_each"), sent <- arrived, given <- handled[s]

\* The frame a callback is done with next: nobody was given it before, and in
\* order if publishes are awaited.
LEMMA GivenNext ==
    ASSUME BusInv, NEW s \in Subs, NEW f \in Frames,
           \/ busy[s] = f
           \/ busy[s] = None /\ queue[s] # <<>> /\ f = Head(queue[s])
    PROVE  /\ f \in 1..arrived
           /\ \A k \in DOMAIN handled[s] : handled[s][k] # f
           /\ publisher = "awaits_each" =>
                  /\ \A k \in DOMAIN handled[s] : handled[s][k] < f
                  /\ Lossless(s) => f = Len(handled[s]) + 1
<1> DEFINE h == handled[s]
           n == Len(h)
           t == Track(s)
<1>1. /\ TypeOK /\ NotYetReceived /\ Distinct(t) /\ Elements(t) \subseteq Offered(s)
      /\ publisher = "awaits_each" => ContiguousOf(s)
  BY DEF BusInv, Basic, Bounded, AccountedOf
<1>2. /\ h \in Seq(Frames) /\ queue[s] \in Seq(Frames) /\ None \notin Frames
      /\ Given(s) \in Seq(Frames) /\ t = Given(s) \o queue[s] /\ n \in Nat
      /\ busy[s] = None => Given(s) = h
      /\ busy[s] # None => Given(s) = Append(h, busy[s])
  BY <1>1, GivenType DEF None, Frames
<1>3. /\ n + 1 \in DOMAIN t /\ t[n + 1] = f
      /\ \A k \in DOMAIN h : k \in DOMAIN t /\ t[k] = h[k] /\ k # n + 1 /\ h[k] \in Frames
  <2>1. CASE busy[s] = f
    BY <1>2, <2>1
  <2>2. CASE busy[s] = None /\ queue[s] # <<>> /\ f = Head(queue[s])
    BY <1>2, <2>2
  <2>. QED
    BY <2>1, <2>2
<1>4. f \in 1..arrived
  <2>1. f \in Offered(s)
    BY <1>1, <1>3 DEF Elements
  <2>. QED
    BY <1>1, <2>1, OfferedBefore DEF Frames, TypeOK
<1>5. \A k \in DOMAIN h : h[k] # f
  BY <1>1, <1>3 DEF Distinct
<1>6. ASSUME publisher = "awaits_each"
      PROVE  /\ \A k \in DOMAIN h : h[k] < f
             /\ Lossless(s) => f = n + 1
  <2>1. ContiguousOf(s)
    BY <1>1, <1>6
  <2>2. CASE busy[s] = f
    <3>1. Given(s) = Append(h, f) /\ n + 1 \in DOMAIN Given(s) /\ Given(s)[n + 1] = f
      BY <1>2, <2>2
    <3>2. \A k \in DOMAIN h : k \in DOMAIN Given(s) /\ Given(s)[k] = h[k] /\ k < n + 1
      BY <1>2, <3>1
    <3>. QED
      BY <2>1, <3>1, <3>2 DEF ContiguousOf, Ascending
  <2>3. CASE busy[s] = None /\ queue[s] # <<>> /\ f = Head(queue[s])
    <3>1. Given(s) = h /\ 1 \in DOMAIN queue[s] /\ f = queue[s][1] /\ Newest(s) \in Int
      BY <1>1, <1>2, <2>3 DEF TypeOK, Newest
    <3>2. f = Newest(s) - Len(queue[s]) + 1
      BY <2>1, <3>1 DEF ContiguousOf
    <3>3. \A k \in DOMAIN h : h[k] <= Newest(s) - Len(queue[s]) /\ h[k] \in Frames
      BY <1>3, <2>1, <3>1 DEF ContiguousOf
    <3>4. Lossless(s) => n = Newest(s) - Len(queue[s])
      BY <2>1, <3>1 DEF ContiguousOf
    <3>5. Len(queue[s]) \in Nat /\ \A k \in DOMAIN h : h[k] \in Int
      BY <1>2, <1>3 DEF Frames
    <3>. QED
      BY <3>1, <3>2, <3>3, <3>4, <3>5
  <2>. QED
    BY <2>2, <2>3
<1>. QED
  BY <1>4, <1>5, <1>6

LEMMA StepFeeds ==
    ASSUME BusInv, [Next]_vars, NEW s \in Subs
    PROVE  [Feed(s)!Next]_(Feed(s)!vars)
<1>1. TypeOK
  BY DEF BusInv, Basic, Bounded
<1>2. publisher' = publisher
  BY DEF Next, PublisherStep, WorkerStep, Shutdown, vars, ReceiveAndPublish, ReceiveAndSpawn,
         StartTask, Offer, Resume, Take, Finish, Work
<1>3. CASE PublisherStep \/ Shutdown \/ UNCHANGED vars
  <2>1. handled' = handled /\ (arrived' = arrived \/ arrived' = arrived + 1)
    BY <1>3 DEF PublisherStep, Shutdown, vars, ReceiveAndPublish, ReceiveAndSpawn,
                StartTask, Offer, Resume
  <2>. QED
    BY <1>2, <2>1 DEF Feed!Next, Feed!vars, Feed!Receive
<1>4. ASSUME NEW t \in Subs, Take(t) \/ Finish(t) \/ Work(t)
      PROVE  [Feed(s)!Next]_(Feed(s)!vars)
  <2>1. arrived' = arrived /\ handled \in [Subs -> Seq(Frames)]
    BY <1>1, <1>4 DEF TypeOK, Take, Finish, Work
  <2>2. CASE t # s \/ Take(t)
    <3>1. handled'[s] = handled[s]
      BY <1>4, <2>1, <2>2 DEF Take, Finish, Work
    <3>. QED
      BY <1>2, <2>1, <3>1 DEF Feed!vars
  <2>3. CASE t = s /\ (Finish(t) \/ Work(t))
    <3>1. PICK f \in Frames : /\ handled'[s] = Append(handled[s], f)
                              /\ \/ busy[s] = f
                                 \/ busy[s] = None /\ queue[s] # <<>> /\ f = Head(queue[s])
      <4>1. CASE Finish(s)
        BY <1>1, <2>1, <4>1 DEF TypeOK, Finish
      <4>2. CASE Work(s)
        <5>1. busy[s] = None
          BY <4>2 DEF BusInv, Basic, NeverBusy, Work
        <5>2. Head(queue[s]) \in Frames
          BY <1>1, <4>2, HeadOff DEF TypeOK, Work
        <5>. QED
          BY <2>1, <4>2, <5>1, <5>2 DEF Work
      <4>. QED
        BY <2>3, <4>1, <4>2
    <3>2. f \in 1..arrived /\ arrived \in Nat
      BY <1>1, <3>1, GivenNext DEF TypeOK
    <3>3. Feed(s)!Give(f)
      BY <1>2, <2>1, <3>1, <3>2, GivenNext DEF Feed!Give
    <3>. QED
      BY <3>2, <3>3 DEF Feed!Next
  <2>. QED
    BY <1>4, <2>2, <2>3
<1>. QED
  BY <1>3, <1>4 DEF Next, WorkerStep

\* The bus is an OrderedFeed to each of its subscribers: no frame given twice,
\* in order when publishes are awaited, and then without gaps under backpressure
\* (broadcast, _worker_loop).
THEOREM BusImplementsFeed ==
    ASSUME NEW s \in Subs
    PROVE  Spec => Feed(s)!Spec
<1>1. Init => Feed(s)!Init
  BY DEF Init, Feed!Init
<1>2. BusInv /\ [Next]_vars => [Feed(s)!Next]_(Feed(s)!vars)
  BY StepFeeds
<1>. QED
  BY <1>1, <1>2, AlwaysBusInv, PTL DEF Spec, Feed!Spec
=============================================================================
