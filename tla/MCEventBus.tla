----------------------------- MODULE MCEventBus -----------------------------
(* The two subscribers of the live harness, with its policies.              *)
EXTENDS EventBusProps

CONSTANTS strategy, db

MCOrder == <<strategy, db>>
MCPolicy == [s \in {strategy, db} |->
                IF s = db THEN "DROP_OLDEST" ELSE "CRITICAL_BACKPRESSURE"]

StrategyFeed == INSTANCE OrderedFeed WITH
    NoLoss <- Lossless(strategy),
    ordered <- (publisher = "awaits_each"), sent <- arrived, given <- handled[strategy]

DatabaseFeed == INSTANCE OrderedFeed WITH
    NoLoss <- Lossless(db),
    ordered <- (publisher = "awaits_each"), sent <- arrived, given <- handled[db]

\* The bus implements OrderedFeed for each subscriber (broadcast and _worker_loop):
\* at most once always, and in order, without gaps for the strategy, when the
\* publishes are awaited.
FeedsImplemented == StrategyFeed!Spec /\ DatabaseFeed!Spec

\* All coroutines run, but the strategy's callback may never return.
StrategyHangsSpec ==
    Spec /\ PublishersRun /\ WorkersRun(Subs \ {strategy}) /\ WF_vars(Take(strategy))

\* "Strict subscriber isolation" (ProductionEventBus): the database is served even
\* if the strategy's callback never returns.
IsolatedFromStrategy == IsolatedFrom(strategy)
=============================================================================
