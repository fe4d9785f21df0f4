------------------------------ MODULE EventBus ------------------------------
(***************************************************************************)
(* The asyncio event bus (ProductionEventBus in                            *)
(* research/operational_hardening.py and, line for line, in                *)
(* data_pipeline/live_platform_harness.py and extended_soak_tester.py) with *)
(* its two kinds of publisher: the harness loops await one publish at a     *)
(* time, HighSpeedWebSocketConsumer starts a task per received frame.       *)
(*                                                                         *)
(* One thread runs everything, so a coroutine keeps the loop from one await *)
(* that suspends to the next: running says which one has it.  A frame is    *)
(* its arrival number.                                                      *)
(***************************************************************************)
EXTENDS Integers, Sequences

CONSTANTS
    SubOrder,     \* the subscribers, in registration order
    Policy,       \* per subscriber, "DROP_OLDEST" or "CRITICAL_BACKPRESSURE"
    Suspending,   \* subscribers whose callback awaits something that suspends
    Ceiling,      \* queue_ceiling
    Publishers,   \* which publishers to consider: a subset of PublisherKinds
    MaxFrames     \* bound: frames received

PublisherKinds == {"awaits_each", "task_per_frame"}
Subs == {SubOrder[k] : k \in DOMAIN SubOrder}
Frames == 1..MaxFrames

ASSUME BusAssumption ==
    /\ DOMAIN SubOrder = 1..Len(SubOrder)
    /\ Len(SubOrder) \in Nat \ {0}
    /\ \A j, k \in DOMAIN SubOrder : SubOrder[j] = SubOrder[k] => j = k
    /\ Subs \cap Int = {}
    /\ Policy \in [Subs -> {"DROP_OLDEST", "CRITICAL_BACKPRESSURE"}]
    /\ Suspending \subseteq Subs
    /\ Ceiling \in Nat \ {0}
    /\ Publishers \subseteq PublisherKinds
    /\ MaxFrames \in Nat

VARIABLES
    publisher,  \* the kind of publisher this bus is wired to
    arrived,    \* frames received from the socket so far
    at,         \* per frame, which subscriber its publish comes to next
    running,    \* who holds the loop: a frame's publish, a worker, or Idle
    queue,      \* per subscriber, its bounded queue
    busy,       \* per subscriber, the frame in its suspended callback, or None
    handled,    \* per subscriber, the frames its callback is done with, in order
    dropped,    \* per subscriber, the frames pushed out of its queue
    closed      \* has shutdown() cancelled the workers

vars == <<publisher, arrived, at, running, queue, busy, handled, dropped, closed>>

None == 0
Idle == 0
Unstarted == 0
Done == Len(SubOrder) + 1

Lossless(s) == Policy[s] = "CRITICAL_BACKPRESSURE"
Full(s) == Len(queue[s]) >= Ceiling
InFlight(f) == f <= arrived /\ at[f] # Done
Parked(f) == f <= arrived /\ at[f] \in 1..Len(SubOrder) /\ running # f

Init ==
    /\ publisher \in Publishers
    /\ arrived = 0
    /\ at = [f \in Frames |-> Unstarted]
    /\ running = Idle
    /\ queue = [s \in Subs |-> <<>>]
    /\ busy = [s \in Subs |-> None]
    /\ handled = [s \in Subs |-> <<>>]
    /\ dropped = [s \in Subs |-> {}]
    /\ closed = FALSE

-----------------------------------------------------------------------------
(* The socket side.                                                        *)

\* Faulty variant: the loop does not wait for the publish it has started.
ReceiveAndPublish_NoAwait ==
    /\ publisher = "awaits_each"
    /\ running = Idle /\ ~closed /\ arrived < MaxFrames
    /\ arrived' = arrived + 1
    /\ at' = [at EXCEPT ![arrived + 1] = 1]
    /\ running' = arrived + 1
    /\ UNCHANGED <<publisher, queue, busy, handled, dropped, closed>>

\* The loop of LivePlatformHarness and ExtendedSoakHarness: the next recv() is
\* only reached when the publish of the last frame has returned.
ReceiveAndPublish ==
    /\ publisher = "awaits_each"
    /\ running = Idle /\ ~closed /\ arrived < MaxFrames
    /\ \A f \in Frames : ~InFlight(f)
    /\ arrived' = arrived + 1
    /\ at' = [at EXCEPT ![arrived + 1] = 1]
    /\ running' = arrived + 1
    /\ UNCHANGED <<publisher, queue, busy, handled, dropped, closed>>

\* launch_stream_listener: create_task and back to recv().
ReceiveAndSpawn ==
    /\ publisher = "task_per_frame"
    /\ running = Idle /\ ~closed /\ arrived < MaxFrames
    /\ arrived' = arrived + 1
    /\ UNCHANGED <<publisher, at, running, queue, busy, handled, dropped, closed>>

\* _process_stream_frame begins.  New tasks first run in the order they were
\* created.
StartTask(f) ==
    /\ publisher = "task_per_frame"
    /\ running = Idle
    /\ f <= arrived /\ at[f] = Unstarted
    /\ \A g \in Frames : g < f => at[g] # Unstarted
    /\ at' = [at EXCEPT ![f] = 1]
    /\ running' = f
    /\ UNCHANGED <<publisher, arrived, queue, busy, handled, dropped, closed>>

-----------------------------------------------------------------------------
(* broadcast / publish: one subscriber after the other.                    *)

\* Faulty variant: one subscriber too far.
Advance_Overruns(f) ==
    /\ at' = [at EXCEPT ![f] = @ + 1]
    /\ running' = IF at[f] = Done THEN Idle ELSE f

\* On to the next subscriber; after the last one the publish returns.
Advance(f) ==
    /\ at' = [at EXCEPT ![f] = @ + 1]
    /\ running' = IF at[f] = Len(SubOrder) THEN Idle ELSE f

\* put_nowait.
Put(f, s) == queue' = [queue EXCEPT ![s] = Append(@, f)]

OfferFree(f, s) ==
    /\ ~Full(s)
    /\ Put(f, s)
    /\ Advance(f)
    /\ UNCHANGED dropped

\* Faulty variant: the newest queued frame is dropped.
OfferDropping_Newest(f, s) ==
    /\ Full(s) /\ ~Lossless(s)
    /\ queue' = [queue EXCEPT ![s][Ceiling] = f]
    /\ dropped' = [dropped EXCEPT ![s] = @ \cup {queue[s][Ceiling]}]
    /\ Advance(f)

\* Faulty variant: the frame is not put after the oldest one has been dropped.
OfferDropping_NoPut(f, s) ==
    /\ Full(s) /\ ~Lossless(s)
    /\ queue' = [queue EXCEPT ![s] = Tail(@)]
    /\ dropped' = [dropped EXCEPT ![s] = @ \cup {Head(queue[s])}]
    /\ Advance(f)

\* DROP_OLDEST: get_nowait and task_done, then put_nowait.
OfferDropping(f, s) ==
    /\ Full(s) /\ ~Lossless(s)
    /\ queue' = [queue EXCEPT ![s] = Append(Tail(@), f)]
    /\ dropped' = [dropped EXCEPT ![s] = @ \cup {Head(queue[s])}]
    /\ Advance(f)

\* CRITICAL_BACKPRESSURE: the publish sleeps, on this subscriber, and gives the
\* loop away.
Park(f, s) ==
    /\ Full(s) /\ Lossless(s)
    /\ running' = Idle
    /\ UNCHANGED <<at, queue, dropped>>

Offer(f) ==
    /\ running = f
    /\ LET s == SubOrder[at[f]] IN OfferFree(f, s) \/ OfferDropping(f, s) \/ Park(f, s)
    /\ UNCHANGED <<publisher, arrived, busy, handled, closed>>

\* Faulty variant: the fullness is checked once, before the sleep ("if", not
\* "while").
Resume_NoRecheck(f) ==
    /\ running = Idle
    /\ Parked(f)
    /\ Put(f, SubOrder[at[f]])
    /\ Advance(f)
    /\ UNCHANGED <<publisher, arrived, busy, handled, dropped, closed>>

\* A sleep ends and finds the queue no longer full (one that finds it full only
\* sleeps again).  Which of several sleepers looks first is up to their timers.
Resume(f) ==
    /\ running = Idle
    /\ Parked(f)
    /\ ~Full(SubOrder[at[f]])
    /\ Put(f, SubOrder[at[f]])
    /\ Advance(f)
    /\ UNCHANGED <<publisher, arrived, busy, handled, dropped, closed>>

-----------------------------------------------------------------------------
(* _worker_loop.  An exception of the callback is swallowed and the frame   *)
(* counts as done.                                                          *)

\* Faulty variant: no loop, the worker ends after its first frame.
Take_Once(s) ==
    /\ running = Idle /\ ~closed
    /\ s \in Suspending
    /\ busy[s] = None /\ queue[s] # <<>> /\ handled[s] = <<>>
    /\ busy' = [busy EXCEPT ![s] = Head(queue[s])]
    /\ queue' = [queue EXCEPT ![s] = Tail(@)]
    /\ UNCHANGED <<publisher, arrived, at, running, handled, dropped, closed>>

\* queue.get() returns and the callback suspends.
Take(s) ==
    /\ running = Idle /\ ~closed
    /\ s \in Suspending
    /\ busy[s] = None /\ queue[s] # <<>>
    /\ busy' = [busy EXCEPT ![s] = Head(queue[s])]
    /\ queue' = [queue EXCEPT ![s] = Tail(@)]
    /\ UNCHANGED <<publisher, arrived, at, running, handled, dropped, closed>>

\* The callback returns.
Finish(s) ==
    /\ running = Idle /\ ~closed
    /\ busy[s] # None
    /\ handled' = [handled EXCEPT ![s] = Append(@, busy[s])]
    /\ busy' = [busy EXCEPT ![s] = None]
    /\ UNCHANGED <<publisher, arrived, at, running, queue, dropped, closed>>

\* A callback that never suspends, such as the database sinks: get() does not
\* suspend either while there are frames, so the worker keeps the loop until its
\* queue is empty.
Work(s) ==
    /\ running \in {Idle, s} /\ ~closed
    /\ s \notin Suspending
    /\ queue[s] # <<>>
    /\ handled' = [handled EXCEPT ![s] = Append(@, Head(queue[s]))]
    /\ queue' = [queue EXCEPT ![s] = Tail(@)]
    /\ running' = IF Len(queue[s]) = 1 THEN Idle ELSE s
    /\ UNCHANGED <<publisher, arrived, at, busy, dropped, closed>>

\* shutdown() after the publishing loop of ExtendedSoakHarness has ended: the
\* workers are cancelled, with what they hold and what is still queued.
Shutdown ==
    /\ publisher = "awaits_each"
    /\ running = Idle /\ ~closed
    /\ \A f \in Frames : ~InFlight(f)
    /\ closed' = TRUE
    /\ UNCHANGED <<publisher, arrived, at, running, queue, busy, handled, dropped>>

PublisherStep ==
    \/ ReceiveAndPublish \/ ReceiveAndSpawn
    \/ \E f \in Frames : StartTask(f) \/ Offer(f) \/ Resume(f)

WorkerStep == \E s \in Subs : Take(s) \/ Finish(s) \/ Work(s)

Next == PublisherStep \/ WorkerStep \/ Shutdown

Spec == Init /\ [][Next]_vars

-----------------------------------------------------------------------------
(* Fairness: a coroutine that is ready is run, a sleep of a millisecond      *)
(* ends, a callback returns.                                                *)

PublishersRun == \A f \in Frames : WF_vars(StartTask(f)) /\ WF_vars(Offer(f)) /\ WF_vars(Resume(f))
WorkersRun(S) == \A s \in S : WF_vars(Take(s)) /\ WF_vars(Finish(s)) /\ WF_vars(Work(s))

FairSpec == Spec /\ PublishersRun /\ WorkersRun(Subs)
=============================================================================
