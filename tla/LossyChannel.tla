---------------------------- MODULE LossyChannel ----------------------------
(***************************************************************************)
(* What the event buffer promises, with no threads, locks or latches in    *)
(* it: a bounded channel that takes events in order, hands them out in     *)
(* batches, oldest first and each at most once, and loses an event only    *)
(* in the ways the buffer documents: the oldest when the channel is full,  *)
(* a whole batch when its delivery fails, and whatever is offered after    *)
(* the channel has been closed.                                            *)
(***************************************************************************)
EXTENDS Integers, FiniteSets, FiniteSetsExt

CONSTANTS
    Event,       \* event numbers
    Capacity,    \* how many events may be pending
    BatchLimit   \* how many events a batch may hold

VARIABLES
    offered,    \* how many events were offered, numbered from 1
    pending,    \* events waiting in the channel
    sending,    \* the batches being delivered: a set of sets of events
    delivered,
    lost,
    closed

channelVars == <<offered, pending, sending, delivered, lost, closed>>

Init ==
    /\ offered = 0
    /\ pending = {}
    /\ sending = {}
    /\ delivered = {}
    /\ lost = {}
    /\ closed = FALSE

\* The k oldest pending events.
Oldest(k) == {e \in pending : Cardinality({x \in pending : x <= e}) <= k}

Accept ==
    LET excess == IF Cardinality(pending) = Capacity THEN Oldest(1) ELSE {}
    IN  /\ ~closed
        /\ offered + 1 \in Event
        /\ offered' = offered + 1
        /\ pending' = (pending \ excess) \cup {offered + 1}
        /\ lost' = lost \cup excess
        /\ UNCHANGED <<sending, delivered, closed>>

Refuse ==
    /\ closed
    /\ offered + 1 \in Event
    /\ offered' = offered + 1
    /\ lost' = lost \cup {offered + 1}
    /\ UNCHANGED <<pending, sending, delivered, closed>>

Take ==
    LET b == Oldest(BatchLimit)
    IN  /\ pending # {}
        /\ pending' = pending \ b
        /\ sending' = sending \cup {b}
        /\ UNCHANGED <<offered, delivered, lost, closed>>

Deliver(b) ==
    /\ sending' = sending \ {b}
    /\ delivered' = delivered \cup b
    /\ UNCHANGED <<offered, pending, lost, closed>>

Lose(b) ==
    /\ sending' = sending \ {b}
    /\ lost' = lost \cup b
    /\ UNCHANGED <<offered, pending, delivered, closed>>

Close ==
    /\ ~closed
    /\ closed' = TRUE
    /\ UNCHANGED <<offered, pending, sending, delivered, lost>>

Next == Accept \/ Refuse \/ Take \/ Close \/ \E b \in sending : Deliver(b) \/ Lose(b)

Spec == Init /\ [][Next]_channelVars

=============================================================================
