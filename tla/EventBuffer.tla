---------------------------- MODULE EventBuffer ----------------------------
(***************************************************************************)
(* llm_metrics/buffer.py: the in-memory buffer between the instrumented    *)
(* application and the transport.                                          *)
(*                                                                         *)
(* Application threads (Callers) offer events, flush, and shut down; a     *)
(* daemon thread (one of Flushers) takes batches off the queue and hands   *)
(* them to the flush target.  One lock guards the queue and the count of   *)
(* batches in flight; two threading.Event latches and one Deadline are     *)
(* read and written without it.  One action is one stretch of code that    *)
(* runs under the lock, or one access to a latch: everything between two   *)
(* actions of a thread may be interleaved with the other threads.          *)
(***************************************************************************)
EXTENDS Integers, Sequences, FiniteSets, SequencesExt

CONSTANTS
    Callers,    \* application threads
    Flushers,   \* identities of the threads start() may create
    Patient,    \* the callers that flush with timeout=None
    Starts,     \* the values of the constructor's start argument to consider
    MaxSize,    \* max_size: capacity of the queue
    FlushAt,    \* flush_at: wake threshold and batch size
    MaxEvents,  \* bound: how many events the application offers
    None        \* no thread

Drainers == Callers \cup Flushers

Event == 1..MaxEvents    \* events are numbered in the order they are offered

ASSUME BufferAssumption ==
    /\ MaxSize \in Nat \ {0}
    /\ FlushAt \in Nat \ {0}
    /\ MaxEvents \in Nat
    /\ Patient \subseteq Callers
    /\ Starts \subseteq BOOLEAN
    /\ IsFiniteSet(Callers) /\ IsFiniteSet(Flushers)
    /\ Callers \cap Flushers = {}
    /\ None \notin Drainers

VARIABLES
    queue,         \* _queue
    inFlight,      \* _in_flight
    wake,          \* _wake
    shutdown,      \* _shutdown
    deadline,      \* _deadline: "unarmed", "armed" or "expired"
    armedBy,       \* the thread whose shutdown() armed the deadline last
    thread,        \* _thread
    hook,          \* _atexit_hook is not None
    forkReset,     \* _fork_registered
    dropped,       \* stats.dropped
    failed,        \* stats.failed_batches > 0
    pc,            \* where each thread is
    batch,         \* the batch a thread is sending
    shuttingDown,  \* _run's local: the latch as read before the drain
    starting,      \* start()'s local: the thread object a caller created
    offered,       \* history: events offered so far
    fate,          \* history: what became of each event
    mark,          \* history: events offered when a caller's flush began, else 0
    result         \* history: what a thread's last call returned, or how it ended

storeVars == <<queue, inFlight, batch, fate, dropped, failed>>
signalVars == <<wake, shutdown, deadline, armedBy>>
threadVars == <<thread, hook, forkReset, shuttingDown, starting>>
callVars == <<offered, mark, result>>

vars == <<storeVars, signalVars, threadVars, callVars, pc>>

-----------------------------------------------------------------------------
CallerLabels == {"idle", "wakeup", "register", "spawn", "check", "parked"}

FlusherLabels == {"unborn", "created", "wait", "clear", "read", "dead"}

SharedLabels == {"drain", "take", "send", "sent", "latch", "signal", "join"}

Fates == {"none", "queued", "inflight",
          "delivered", "failed", "overflowed", "refused"}

Results == {"none", "flushed", "late", "joined", "abandoned",
            "drained", "gaveup"}

\* Type invariant.
TypeOK ==
    /\ queue \in Seq(Event)
    /\ inFlight \in Nat
    /\ wake \in BOOLEAN
    /\ shutdown \in BOOLEAN
    /\ deadline \in {"unarmed", "armed", "expired"}
    /\ armedBy \in Drainers \cup {None}
    /\ thread \in Flushers \cup {None}
    /\ hook \in BOOLEAN
    /\ forkReset \in BOOLEAN
    /\ dropped \in Nat
    /\ failed \in BOOLEAN
    /\ pc \in [Drainers -> CallerLabels \cup FlusherLabels \cup SharedLabels]
    /\ \A c \in Callers : pc[c] \in CallerLabels \cup SharedLabels
    /\ \A f \in Flushers : pc[f] \in FlusherLabels \cup SharedLabels
    /\ batch \in [Drainers -> Seq(Event)]
    /\ shuttingDown \in [Flushers -> BOOLEAN]
    /\ starting \in [Callers -> Flushers \cup {None}]
    /\ offered \in 0..MaxEvents
    /\ fate \in [Event -> Fates]
    /\ mark \in [Callers -> 0..MaxEvents]
    /\ result \in [Drainers -> Results]

-----------------------------------------------------------------------------
(* State functions of the code. *)

\* Thread.is_alive(): a thread object that was created but not yet started
\* is not alive.
Alive(f) == f # None /\ pc[f] \notin {"unborn", "created", "dead"}

\* deque(maxlen=max_size).append() discards from the left when it is full.
Overflowing(q) == Len(q) = MaxSize

\* Variant: the newest is discarded.
MakeRoomDroppingNewest(q) == IF Overflowing(q) THEN Front(q) ELSE q

MakeRoom(q) == IF Overflowing(q) THEN Tail(q) ELSE q

\* Variant: off by one.
ReachesFlushAtLate(q) == Len(q) > FlushAt

\* Variant: add() does not look at the latch.
RefusesNothing == FALSE

\* add() refuses events once the shutdown latch is set.
Refuses == shutdown

\* add()'s should_wake
ReachesFlushAt(q) == Len(q) >= FlushAt

\* What a batch takes off the queue, and what it leaves.
BatchSize == IF Len(queue) < FlushAt THEN Len(queue) ELSE FlushAt

\* Variant: the last event of the batch stays in the queue.
OverlappingRest(n) == SubSeq(queue, n, Len(queue))

Rest(n) == SubSeq(queue, n + 1, Len(queue))

\* wait_until_idle()'s predicate: the queue alone says nothing about the
\* batch that left it and is still being sent.
\* Variant: version 0.2.0, where an empty queue meant idle.
IdleOnEmptyQueue(sending, q) == q = <<>>

IdleWith(sending, q) == sending = 0 /\ q = <<>>

Idle == IdleWith(inFlight, queue)

\* _run leaves its loop on the latch as it was read before the drain.
ExitsLoop(f) == shuttingDown[f]

Goto(d, label) == pc' = [pc EXCEPT ![d] = label]

\* A thread's result is kept until its next call.
NewCall(d) == result' = [result EXCEPT ![d] = "none"]

Settle(b, what) ==
    fate' = [e \in Event |-> IF e \in ToSet(b) THEN what ELSE fate[e]]

-----------------------------------------------------------------------------
(* The constructor: with start=True a flush thread runs from the beginning. *)

Init ==
    /\ queue = <<>>
    /\ inFlight = 0
    /\ wake = FALSE
    /\ shutdown = FALSE
    /\ deadline = "unarmed"
    /\ armedBy = None
    /\ dropped = 0
    /\ failed = FALSE
    /\ batch = [d \in Drainers |-> <<>>]
    /\ shuttingDown = [f \in Flushers |-> FALSE]
    /\ starting = [c \in Callers |-> None]
    /\ offered = 0
    /\ fate = [e \in Event |-> "none"]
    /\ mark = [c \in Callers |-> 0]
    /\ result = [d \in Drainers |-> "none"]
    /\ \E start \in Starts :
        /\ hook = start
        /\ forkReset = start
        /\ thread \in IF start THEN Flushers ELSE {None}
    /\ pc = [d \in Drainers |->
                IF d = thread THEN "wait"
                ELSE IF d \in Flushers THEN "unborn" ELSE "idle"]

-----------------------------------------------------------------------------
(* start() *)

\* Under the lock: returns when a thread is alive, raises after shutdown().
StartCreate(c, f) ==
    /\ pc[c] = "idle"
    /\ ~Alive(thread)
    /\ ~shutdown
    /\ pc[f] = "unborn"
    /\ thread' = f
    /\ starting' = [starting EXCEPT ![c] = f]
    /\ pc' = [pc EXCEPT ![c] = "register", ![f] = "created"]
    /\ NewCall(c)
    /\ UNCHANGED <<storeVars, signalVars, hook, forkReset, shuttingDown, offered, mark>>

\* Outside the lock: the atexit hook and the fork handler.
StartRegister(c) ==
    /\ pc[c] = "register"
    /\ hook' = TRUE
    /\ forkReset' = TRUE
    /\ Goto(c, "spawn")
    /\ UNCHANGED <<storeVars, signalVars, callVars, thread, shuttingDown, starting>>

\* Thread.start() returns once the new thread runs.
StartSpawn(c) ==
    /\ pc[c] = "spawn"
    /\ pc' = [pc EXCEPT ![c] = "idle", ![starting[c]] = "wait"]
    /\ starting' = [starting EXCEPT ![c] = None]
    /\ UNCHANGED <<storeVars, signalVars, callVars, thread, hook, forkReset, shuttingDown>>

-----------------------------------------------------------------------------
(* add() *)

\* Under the lock, after shutdown(): the event is counted and dropped.
AddRefused(c) ==
    /\ pc[c] = "idle"
    /\ offered < MaxEvents
    /\ Refuses
    /\ offered' = offered + 1
    /\ fate' = [fate EXCEPT ![offered + 1] = "refused"]
    /\ dropped' = dropped + 1
    /\ NewCall(c)
    /\ UNCHANGED <<queue, inFlight, batch, failed, signalVars, threadVars, mark, pc>>

\* Under the lock: the event is queued, in place of the oldest one when the
\* queue is full.
AddAccepted(c) ==
    /\ pc[c] = "idle"
    /\ offered < MaxEvents
    /\ ~Refuses
    /\ LET room == MakeRoom(queue)
           e == offered + 1
       IN  /\ queue' = Append(room, e)
           /\ fate' = [x \in Event |->
                          IF x = e THEN "queued"
                          ELSE IF x \in ToSet(queue) \ ToSet(room) THEN "overflowed"
                          ELSE fate[x]]
    /\ offered' = offered + 1
    /\ dropped' = IF Overflowing(queue) THEN dropped + 1 ELSE dropped
    /\ Goto(c, IF ReachesFlushAt(queue') THEN "wakeup" ELSE "idle")
    /\ NewCall(c)
    /\ UNCHANGED <<inFlight, batch, failed, signalVars, threadVars, mark>>

\* Outside the lock: the flush thread is woken.
AddWake(c) ==
    /\ pc[c] = "wakeup"
    /\ wake' = TRUE
    /\ Goto(c, "idle")
    /\ UNCHANGED <<storeVars, shutdown, deadline, armedBy, threadVars, callVars>>

-----------------------------------------------------------------------------
(* _run(): the flush thread's loop *)

\* _wake.wait(flush_interval) returns because the latch is set ...
FlusherWoken(f) ==
    /\ pc[f] = "wait"
    /\ wake
    /\ Goto(f, "clear")
    /\ UNCHANGED <<storeVars, signalVars, threadVars, callVars>>

\* ... or because the interval has elapsed.
FlusherNoInterval(f) == FALSE    \* variant: the wait has no timeout

FlusherInterval(f) ==
    /\ pc[f] = "wait"
    /\ ~wake
    /\ Goto(f, "clear")
    /\ UNCHANGED <<storeVars, signalVars, threadVars, callVars>>

FlusherClear(f) ==
    /\ pc[f] = "clear"
    /\ wake' = FALSE
    /\ Goto(f, "read")
    /\ UNCHANGED <<storeVars, shutdown, deadline, armedBy, threadVars, callVars>>

FlusherReadsLatch(f) ==
    /\ pc[f] = "read"
    /\ shuttingDown' = [shuttingDown EXCEPT ![f] = shutdown]
    /\ Goto(f, "drain")
    /\ UNCHANGED <<storeVars, signalVars, thread, hook, forkReset, starting, callVars>>

-----------------------------------------------------------------------------
(* _drain(), on the flush thread or on a caller's thread *)

\* The thread leaves _drain(): a caller goes on to wait_until_idle(), the
\* flush thread ends or waits for the next wake-up.
LeaveDrain(d, how) ==
    \/ /\ d \in Callers
       /\ Goto(d, "check")
       /\ result' = result
    \/ /\ d \in Flushers
       /\ ExitsLoop(d)
       /\ Goto(d, "dead")
       /\ result' = [result EXCEPT ![d] = how]
    \/ /\ d \in Flushers
       /\ ~ExitsLoop(d)
       /\ Goto(d, "wait")
       /\ result' = result

\* Out of time: whatever is still queued is abandoned.
DrainGivesUp(d) ==
    /\ pc[d] = "drain"
    /\ deadline = "expired"
    /\ LeaveDrain(d, "gaveup")
    /\ UNCHANGED <<storeVars, signalVars, threadVars, offered, mark>>

DrainGoesOn(d) ==
    /\ pc[d] = "drain"
    /\ deadline # "expired"
    /\ Goto(d, "take")
    /\ UNCHANGED <<storeVars, signalVars, threadVars, callVars>>

\* Variant: _batch_done() runs for the empty batch too.
TakeNothingUncounted(d) ==
    /\ pc[d] = "take"
    /\ queue = <<>>
    /\ inFlight' = inFlight - 1
    /\ LeaveDrain(d, "drained")
    /\ UNCHANGED <<queue, batch, fate, dropped, failed, signalVars, threadVars, offered, mark>>

\* _take_batch() finds the queue empty.
TakeNothing(d) ==
    /\ pc[d] = "take"
    /\ queue = <<>>
    /\ LeaveDrain(d, "drained")
    /\ UNCHANGED <<storeVars, signalVars, threadVars, offered, mark>>

\* _take_batch(): pop up to flush_at events and count the batch as in flight,
\* one atomic step under the lock.
TakeBatch(d) ==
    /\ pc[d] = "take"
    /\ queue # <<>>
    /\ queue' = Rest(BatchSize)
    /\ batch' = [batch EXCEPT ![d] = SubSeq(queue, 1, BatchSize)]
    /\ inFlight' = inFlight + 1
    /\ Settle(SubSeq(queue, 1, BatchSize), "inflight")
    /\ Goto(d, "send")
    /\ UNCHANGED <<dropped, failed, signalVars, threadVars, callVars>>

\* _send(): the flush target returns.
SendOk(d) ==
    /\ pc[d] = "send"
    /\ Settle(batch[d], "delivered")
    /\ batch' = [batch EXCEPT ![d] = <<>>]
    /\ Goto(d, "sent")
    /\ UNCHANGED <<queue, inFlight, dropped, failed, signalVars, threadVars, callVars>>

\* Variant: a failure is not counted.
SendFailsSilently(d) ==
    /\ pc[d] = "send"
    /\ Settle(batch[d], "failed")
    /\ batch' = [batch EXCEPT ![d] = <<>>]
    /\ Goto(d, "sent")
    /\ UNCHANGED <<queue, inFlight, dropped, failed, signalVars, threadVars, callVars>>

\* Variant: _batch_done() is not in a finally clause.
SendFailsUnfinished(d) ==
    /\ pc[d] = "send"
    /\ Settle(batch[d], "failed")
    /\ failed' = TRUE
    /\ batch' = [batch EXCEPT ![d] = <<>>]
    /\ Goto(d, "drain")
    /\ UNCHANGED <<queue, inFlight, dropped, signalVars, threadVars, callVars>>

\* _send(): an event cannot be serialised, or the flush target raises.
SendFails(d) ==
    /\ pc[d] = "send"
    /\ Settle(batch[d], "failed")
    /\ failed' = TRUE
    /\ batch' = [batch EXCEPT ![d] = <<>>]
    /\ Goto(d, "sent")
    /\ UNCHANGED <<queue, inFlight, dropped, signalVars, threadVars, callVars>>

\* Variant: nobody is notified.
BatchDoneSilently(d) ==
    /\ pc[d] = "sent"
    /\ inFlight' = inFlight - 1
    /\ Goto(d, "drain")
    /\ UNCHANGED <<queue, batch, fate, dropped, failed, signalVars, threadVars, callVars>>

\* _batch_done(): under the lock, with the waiters notified when nothing is
\* queued or in flight any more.
BatchDone(d) ==
    /\ pc[d] = "sent"
    /\ inFlight' = inFlight - 1
    /\ pc' = [t \in Drainers |->
                 IF t = d THEN "drain"
                 ELSE IF pc[t] = "parked" /\ IdleWith(inFlight - 1, queue) THEN "check"
                 ELSE pc[t]]
    /\ UNCHANGED <<queue, batch, fate, dropped, failed, signalVars, threadVars, callVars>>

-----------------------------------------------------------------------------
(* flush_once() and wait_until_idle() *)

FlushOnce(c) ==
    /\ pc[c] = "idle"
    /\ mark' = [mark EXCEPT ![c] = offered]
    /\ NewCall(c)
    /\ Goto(c, "drain")
    /\ UNCHANGED <<storeVars, signalVars, threadVars, offered>>

WaitUntilIdle(c) ==
    /\ pc[c] = "idle"
    /\ mark' = [mark EXCEPT ![c] = offered]
    /\ NewCall(c)
    /\ Goto(c, "check")
    /\ UNCHANGED <<storeVars, signalVars, threadVars, offered>>

ReturnFromWait(c, what) ==
    /\ result' = [result EXCEPT ![c] = what]
    /\ mark' = [mark EXCEPT ![c] = 0]
    /\ Goto(c, "idle")

\* Condition.wait_for(): under the lock, return or go to sleep.
WaitCheck(c) ==
    /\ pc[c] = "check"
    /\ \/ /\ Idle
          /\ ReturnFromWait(c, "flushed")
       \/ /\ ~Idle
          /\ Goto(c, "parked")
          /\ UNCHANGED <<mark, result>>
    /\ UNCHANGED <<storeVars, signalVars, threadVars, offered>>

\* The timeout of a sleeping waiter: the predicate is evaluated once more.
WaitTimeout(c) ==
    /\ pc[c] = "parked"
    /\ c \notin Patient
    /\ ReturnFromWait(c, IF Idle THEN "flushed" ELSE "late")
    /\ UNCHANGED <<storeVars, signalVars, threadVars, offered>>

-----------------------------------------------------------------------------
(* shutdown(), called by the application or, on whatever thread it runs, by *)
(* the flush target itself.                                                 *)

\* Bound: a target shuts the buffer down only once.
CallsShutdown(d) ==
    \/ d \in Callers /\ pc[d] = "idle"
    \/ pc[d] = "send" /\ ~shutdown

\* The call returns to where it came from.
ReturnFromShutdown(d, what) ==
    /\ Goto(d, IF batch[d] # <<>> THEN "send" ELSE "idle")
    /\ result' = [result EXCEPT ![d] = what]

\* The atexit hook is taken back and the deadline armed, again if it was
\* armed before.
ShutdownArm(d) ==
    /\ CallsShutdown(d)
    /\ hook' = FALSE
    /\ deadline' = "armed"
    /\ armedBy' = d
    /\ NewCall(d)
    /\ Goto(d, "latch")
    /\ UNCHANGED <<storeVars, wake, shutdown, thread, forkReset, shuttingDown,
                   starting, offered, mark>>

ShutdownLatch(d) ==
    /\ pc[d] = "latch"
    /\ shutdown' = TRUE
    /\ Goto(d, "signal")
    /\ UNCHANGED <<storeVars, wake, deadline, armedBy, threadVars, callVars>>

\* Variant: the flush thread is left to find the latch by itself.
ShutdownWithoutWake(d) ==
    /\ pc[d] = "signal"
    /\ Goto(d, "join")
    /\ UNCHANGED <<storeVars, signalVars, threadVars, callVars>>

ShutdownWake(d) ==
    /\ pc[d] = "signal"
    /\ wake' = TRUE
    /\ Goto(d, "join")
    /\ UNCHANGED <<storeVars, shutdown, deadline, armedBy, threadVars, callVars>>

\* No thread to join, or the thread has ended: True.
ShutdownJoined(d) ==
    /\ pc[d] = "join"
    /\ ~Alive(thread)
    /\ ReturnFromShutdown(d, "joined")
    /\ UNCHANGED <<storeVars, signalVars, threadVars, offered, mark>>

\* The flush target shut its own thread down: joining would deadlock.
ShutdownOnFlushThread(d) ==
    /\ pc[d] = "join"
    /\ d = thread
    /\ ReturnFromShutdown(d, "abandoned")
    /\ UNCHANGED <<storeVars, signalVars, threadVars, offered, mark>>

ShutdownJoinsForever(d) == FALSE    \* variant: join() without a timeout

\* join(timeout) gives up.  The deadline is armed for 90% of the timeout, so
\* it has expired by then unless another call has armed it again.
ShutdownJoinTimeout(d) ==
    /\ pc[d] = "join"
    /\ Alive(thread) /\ d # thread
    /\ deadline = "expired" \/ armedBy # d
    /\ ReturnFromShutdown(d, "abandoned")
    /\ UNCHANGED <<storeVars, signalVars, threadVars, offered, mark>>

DeadlineExpires ==
    /\ deadline = "armed"
    /\ deadline' = "expired"
    /\ UNCHANGED <<storeVars, wake, shutdown, armedBy, threadVars, callVars, pc>>

-----------------------------------------------------------------------------
Start(c) == (\E f \in Flushers : StartCreate(c, f)) \/ StartRegister(c) \/ StartSpawn(c)

Add(c) == AddRefused(c) \/ AddAccepted(c) \/ AddWake(c)

Run(f) == FlusherWoken(f) \/ FlusherInterval(f) \/ FlusherClear(f) \/ FlusherReadsLatch(f)

Send(d) == SendOk(d) \/ SendFails(d)

Drain(d) == DrainGivesUp(d) \/ DrainGoesOn(d) \/ TakeNothing(d) \/ TakeBatch(d)
            \/ Send(d) \/ BatchDone(d)

Flush(c) == FlushOnce(c) \/ WaitUntilIdle(c) \/ WaitCheck(c) \/ WaitTimeout(c)

Shutdown(d) == ShutdownArm(d) \/ ShutdownLatch(d) \/ ShutdownWake(d) \/ ShutdownJoined(d)
               \/ ShutdownOnFlushThread(d) \/ ShutdownJoinTimeout(d)

Next ==
    \/ \E c \in Callers : Start(c) \/ Add(c) \/ Flush(c)
    \/ \E f \in Flushers : Run(f)
    \/ \E d \in Drainers : Drain(d) \/ Shutdown(d)
    \/ DeadlineExpires

Spec == Init /\ [][Next]_vars

-----------------------------------------------------------------------------
(* Fairness.                                                               *)

\* The steps a thread takes by itself, with nobody to wait for.
OwnStep(d) ==
    \/ d \in Callers /\ (StartRegister(d) \/ StartSpawn(d) \/ AddWake(d) \/ WaitCheck(d))
    \/ d \in Flushers /\ (FlusherWoken(d) \/ FlusherClear(d) \/ FlusherReadsLatch(d))
    \/ DrainGivesUp(d) \/ DrainGoesOn(d) \/ TakeNothing(d) \/ TakeBatch(d) \/ BatchDone(d)
    \/ ShutdownLatch(d) \/ ShutdownWake(d) \/ ShutdownJoined(d) \/ ShutdownOnFlushThread(d)

\* The scheduler runs every thread, and the clock of every timeout runs.
ThreadsRun ==
    /\ \A d \in Drainers : WF_vars(OwnStep(d)) /\ WF_vars(ShutdownJoinTimeout(d))
    /\ \A c \in Callers : WF_vars(WaitTimeout(c))
    /\ WF_vars(DeadlineExpires)

\* The flush interval elapses.
IntervalElapses == \A f \in Flushers : WF_vars(FlusherInterval(f))

\* The flush target returns or raises.
TargetReturns == \A d \in Drainers : WF_vars(Send(d))

FairSpec == Spec /\ ThreadsRun

=============================================================================
