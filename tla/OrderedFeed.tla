---------------------------- MODULE OrderedFeed -----------------------------
(***************************************************************************)
(* What the event bus promises one subscriber: the frames it is given were *)
(* received, none is given twice, and when each publish is awaited before   *)
(* the next frame is received they come in order, without gaps if the       *)
(* subscriber has backpressure.                                             *)
(***************************************************************************)
EXTENDS Naturals, Sequences

CONSTANT NoLoss   \* is the subscriber's policy CRITICAL_BACKPRESSURE

VARIABLES
    ordered,   \* are publishes awaited one by one
    sent,      \* frames received
    given      \* frames given to the subscriber, in that order

vars == <<ordered, sent, given>>

Init ==
    /\ ordered \in BOOLEAN
    /\ sent = 0
    /\ given = <<>>

Receive ==
    /\ sent' = sent + 1
    /\ UNCHANGED <<ordered, given>>

Give(f) ==
    /\ f <= sent
    /\ \A k \in DOMAIN given : IF ordered THEN given[k] < f ELSE given[k] # f
    /\ ordered /\ NoLoss => f = Len(given) + 1
    /\ given' = Append(given, f)
    /\ UNCHANGED <<ordered, sent>>

Next == Receive \/ \E f \in 1..sent : Give(f)

Spec == Init /\ [][Next]_vars
=============================================================================
