----------------------- MODULE EventBufferProperties -----------------------
(***************************************************************************)
(* What EventBuffer is checked for: safety, the inductive invariant, the   *)
(* refinement of LossyChannel, liveness, and two claims of docstrings that *)
(* the code does not keep.                                                 *)
(***************************************************************************)
EXTENDS EventBuffer

-----------------------------------------------------------------------------
(* Safety.                                                                 *)

Settled == {"delivered", "failed", "overflowed", "refused"}

Increasing(q) == \A i, j \in DOMAIN q : i < j => q[i] < q[j]

Holders(e) == {d \in Drainers : e \in ToSet(batch[d])}

\* An offered event is in exactly one place: in the queue, in the batch of
\* one thread, or settled.  add(), _take_batch() and _send() hand it on
\* under different locks and on different threads without losing it or
\* sending it twice.
EveryEventInOnePlace ==
    /\ Increasing(queue)
    /\ Len(queue) <= MaxSize
    /\ \A e \in Event :
        /\ (fate[e] = "none") <=> (e > offered)
        /\ (fate[e] = "queued") <=> (e \in ToSet(queue))
        /\ (fate[e] = "inflight") <=> (Holders(e) # {})
        /\ \A c, d \in Holders(e) : c = d

Sending == {d \in Drainers : batch[d] # <<>> \/ pc[d] = "sent"}

\* _in_flight counts the threads between _take_batch() and _batch_done(),
\* whatever their sends did and whichever thread they ran on.
InFlightCountsBatches == inFlight = Cardinality(Sending)

\* A waiter in wait_until_idle() never sleeps through the moment it waits
\* for: when nothing is queued or in flight, nobody is still asleep.
NoLostIdle == \A c \in Callers : pc[c] = "parked" => ~Idle

\* flush_once() and wait_until_idle() return True only when every event
\* offered before the call has been delivered, or lost in a way the
\* counters show: none of them is queued or still being sent, by any thread.
FlushMeansSettled ==
    [][\A c \in Callers :
          result[c] # "flushed" /\ result'[c] = "flushed"
              => \A e \in 1..mark[c] : fate'[e] \in Settled]_vars

\* The flush thread ends on an empty queue unless it ran out of time: the
\* shutdown latch is read before the drain, and add() accepts nothing after
\* it, so no event is queued behind the last drain.
NoStranding ==
    \A f \in Flushers :
        pc[f] = "dead" /\ result[f] = "drained" => shutdown /\ queue = <<>>

\* No second flush thread has been created.  Two calls of start() at once can
\* create two, and then the one clears the wake-up that was meant for the other.
OnlyThread(f) == \A g \in Flushers : g # f => pc[g] = "unborn"

\* The wake-up of add() is never lost: while the only flush thread waits
\* with flush_at events queued, the flag is set or somebody is about to.
NoMissedFlushAt ==
    \A f \in Flushers :
        OnlyThread(f) /\ pc[f] = "wait" /\ Len(queue) >= FlushAt
            => wake \/ \E d \in Drainers : pc[d] \in {"wakeup", "latch", "signal"}

\* Stats.healthy
Healthy == dropped = 0 /\ ~failed

\* No event is lost behind the counters: while they read healthy, no batch
\* has failed and no event was dropped, on overflow or after shutdown().
LossIsCounted ==
    Healthy => \A e \in Event : fate[e] \notin {"failed", "overflowed", "refused"}

-----------------------------------------------------------------------------
(* The inductive invariant behind the invariants above.                    *)

\* A thread holds a batch exactly while it sends it, through every call the
\* flush target makes; the flush thread shuts down only from inside a send.
BatchesHeld ==
    /\ \A d \in Drainers :
        batch[d] # <<>> => pc[d] \in {"send", "latch", "signal", "join"}
    /\ \A d \in Drainers : pc[d] = "send" => batch[d] # <<>>
    /\ \A f \in Flushers : pc[f] \in {"latch", "signal", "join"} => batch[f] # <<>>

\* Between the two halves of start() the new thread belongs to one caller and
\* does nothing.
ThreadsStartedOnce ==
    /\ \A c \in Callers :
        pc[c] \in {"register", "spawn"}
            => starting[c] \in Flushers /\ pc[starting[c]] = "created"
    /\ \A c, x \in Callers :
        /\ pc[c] \in {"register", "spawn"}
        /\ pc[x] \in {"register", "spawn"}
        /\ starting[c] = starting[x]
        => c = x

\* A flush thread leaves its loop only after it has read the latch as set.
LatchWasSet ==
    \A f \in Flushers :
        /\ shuttingDown[f] => shutdown
        /\ pc[f] = "dead" => shuttingDown[f]

BufferInv ==
    /\ TypeOK
    /\ ThreadsStartedOnce
    /\ BatchesHeld
    /\ InFlightCountsBatches
    /\ LatchWasSet
    /\ NoStranding
    /\ NoLostIdle

\* A drain runs out of time only once a shutdown() is on its way to the latch.
ArmedBeforeLatch ==
    deadline # "unarmed" => shutdown \/ \E d \in Drainers : pc[d] = "latch"

\* A flush thread that has read the latch as set does not wait again.
LatchReadLast ==
    \A f \in Flushers :
        shuttingDown[f] => pc[f] \notin {"unborn", "created", "wait", "clear", "read"}

\* The only flush thread is woken for what it has not seen: for a shutdown
\* after it read the latch, and for a full batch after its last drain.
OnlyThreadIsWoken ==
    \A f \in Flushers :
        OnlyThread(f) =>
            /\ shutdown /\ ~shuttingDown[f] /\ pc[f] \notin {"clear", "read"}
                => wake \/ \E d \in Drainers : pc[d] = "signal"
            /\ pc[f] \in {"unborn", "created", "wait"} /\ Len(queue) >= FlushAt
                => wake \/ \E d \in Drainers : pc[d] \in {"wakeup", "latch", "signal"}

WakeInv == ArmedBeforeLatch /\ LatchReadLast /\ OnlyThreadIsWoken

-----------------------------------------------------------------------------
(* The buffer implements the channel.                                      *)

Channel == INSTANCE LossyChannel WITH
    Capacity  <- MaxSize,
    BatchLimit <- FlushAt,
    pending   <- ToSet(queue),
    sending   <- {ToSet(batch[d]) : d \in {x \in Drainers : batch[x] # <<>>}},
    delivered <- {e \in Event : fate[e] = "delivered"},
    lost      <- {e \in Event : fate[e] \in {"failed", "overflowed", "refused"}},
    closed    <- shutdown

\* Whatever the interleaving of add(), the flush thread, flushes and
\* shutdowns, the buffer behaves as the channel: first in, first out in
\* batches, at most once, with only the documented losses.
ImplementsChannel == Channel!Spec

-----------------------------------------------------------------------------
(* Liveness, under FairSpec.  Whether the flush target returns and whether  *)
(* the flush interval elapses is an assumption of its own, made only where  *)
(* a property needs it.                                                     *)

InFlush(c) == pc[c] \in {"drain", "take", "send", "sent", "check", "parked"}

InShutdown(d) == pc[d] \in {"latch", "signal", "join"}

\* shutdown() returns even when the flush target never does: the join is
\* bounded, and a target that shuts its own thread down does not join it.
ShutdownReturns == \A d \in Drainers : InShutdown(d) ~> ~InShutdown(d)

\* After shutdown() the flush thread ends without waiting for the interval
\* to elapse, as long as its target returns.
ShutdownIsPrompt ==
    TargetReturns => \A f \in Flushers : shutdown /\ Alive(f) ~> ~Alive(f)

\* With a flush thread running, a queued event does not stay queued: it is
\* taken or overflows, unless the shutdown deadline passes first.
QueuedEventsLeave ==
    TargetReturns /\ IntervalElapses =>
        \A e \in Event :
            fate[e] = "queued" /\ Alive(thread)
                ~> fate[e] # "queued" \/ deadline = "expired"

\* With a flush thread running, a flush without a timeout returns, unless
\* the shutdown deadline passes with events still queued.
FlushReturnsUnlessAbandoned ==
    TargetReturns /\ IntervalElapses =>
        \A c \in Callers :
            InFlush(c) /\ Alive(thread)
                ~> pc[c] = "idle" \/ (deadline = "expired" /\ queue # <<>>)

-----------------------------------------------------------------------------
(* What comments and docstrings say, and the code does not do.             *)

\* _runtime.flush(): "this cannot hang forever even without a timeout".
FlushAlwaysReturns ==
    TargetReturns /\ IntervalElapses =>
        \A c \in Patient : InFlush(c) ~> pc[c] = "idle"

\* shutdown(): False "if it was abandoned with events still queued", and the
\* comment in _drain() that abandonment is reported honestly.
ShutdownReportsAbandonment ==
    [][\A c \in Callers :
          result[c] # "joined" /\ result'[c] = "joined" => queue = <<>>]_vars

=============================================================================
