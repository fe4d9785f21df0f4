---------------------------- MODULE EventBusProps ---------------------------
(***************************************************************************)
(* What the event bus promises.                                             *)
(***************************************************************************)
EXTENDS EventBus

\* Every variable has its type, and the coroutine that holds the loop has
\* something to do with it.
TypeOK ==
    /\ publisher \in Publishers
    /\ arrived \in 0..MaxFrames
    /\ at \in [Frames -> 0..Done]
    /\ running \in {Idle} \cup Frames \cup Subs
    /\ running \in Frames => at[running] \in 1..Len(SubOrder)
    /\ queue \in [Subs -> Seq(Frames)]
    /\ busy \in [Subs -> {None} \cup Frames]
    /\ handled \in [Subs -> Seq(Frames)]
    /\ dropped \in [Subs -> SUBSET Frames]
    /\ closed \in BOOLEAN

\* put_nowait never raises QueueFull, however many publishes sleep on the same
\* full queue and find room in it at the same time (the "while" of broadcast).
QueuesBounded == \A s \in Subs : Len(queue[s]) <= Ceiling

Elements(seq) == {seq[k] : k \in DOMAIN seq}
HeldBy(s) == IF busy[s] = None THEN <<>> ELSE <<busy[s]>>
Track(s) == handled[s] \o HeldBy(s) \o queue[s]
Offered(s) == {f \in Frames : \E k \in DOMAIN SubOrder : SubOrder[k] = s /\ k < at[f]}

\* Nothing is lost or doubled between a publish and a callback: every frame a
\* publish has offered to a subscriber is queued, in its callback, handled or
\* dropped, exactly once, and backpressure drops nothing.
Accounted ==
    \A s \in Subs :
        /\ \A j, k \in DOMAIN Track(s) : Track(s)[j] = Track(s)[k] => j = k
        /\ Elements(Track(s)) \cup dropped[s] = Offered(s)
        /\ Elements(Track(s)) \cap dropped[s] = {}
        /\ Lossless(s) => dropped[s] = {}

\* DROP_OLDEST keeps what is recent: with awaited publishes, a frame is only
\* ever dropped when Ceiling newer ones have been offered to the subscriber.
RecentKept ==
    publisher = "awaits_each" =>
        \A s \in Subs : \A f \in dropped[s] : \A g \in f..(f + Ceiling) : g \in Offered(s)

Settled(f, s) == f \in Elements(handled[s]) \cup dropped[s]

\* Every frame received is in the end handled or dropped by every subscriber, in
\* spite of the publishes that sleep on each other's full queues, unless the bus
\* is shut down.
EverythingSettled ==
    \A f \in Frames, s \in Subs : (arrived >= f) ~> (Settled(f, s) \/ closed)
-----------------------------------------------------------------------------
(* What a docstring says and the code does not do.                          *)

\* "Strict subscriber isolation": a subscriber with a worker that runs is served
\* whatever the callbacks of the others do.
IsolatedFrom(t) ==
    \A f \in Frames, s \in Subs \ {t} : (arrived >= f) ~> (Settled(f, s) \/ closed)
=============================================================================
