SPECIFICATION FairSpec
CONSTANTS
    strategy = strategy
    db = db
    SubOrder <- MCOrder
    Policy <- MCPolicy
    Suspending = {strategy}
    Ceiling = 2
    Publishers = {"awaits_each", "task_per_frame"}
    MaxFrames = 6
INVARIANTS TypeOK QueuesBounded Accounted RecentKept
PROPERTIES FeedsImplemented EverythingSettled
CHECK_DEADLOCK FALSE
