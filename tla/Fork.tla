--------------------------------- MODULE Fork ---------------------------------
(***************************************************************************)
(* _runtime.py and buffer.py across os.fork(): the default pipeline of a   *)
(* process and of the child that one of its threads forks.                 *)
(*                                                                         *)
(* The child has a copy of everything and none of the other threads.  The  *)
(* handler that EventBuffer registers resets the buffer in it; the lock    *)
(* of _runtime has no handler.  Both locks are held over several steps     *)
(* here, for a fork may come between any two.  Overflow, wake-ups,         *)
(* deadlines and retries are the subject of EventBuffer and IngestClient.  *)
(***************************************************************************)
EXTENDS Integers, Sequences, FiniteSets, SequencesExt

CONSTANTS
    Threads,   \* application threads of the first process
    Flusher,   \* the flush thread of a process
    FlushAt,   \* flush_at: batch size
    MaxCalls,  \* bound: calls of emit() and flush()
    None       \* no thread

ASSUME ForkAssumption ==
    /\ FlushAt \in Nat \ {0}
    /\ MaxCalls \in Nat
    /\ Flusher \notin Threads /\ None \notin Threads \cup {Flusher}

\* Bound: one fork, by the first process.
Proc == {"parent", "child"}

Actors == Threads \cup {Flusher}

\* Events are numbered in the order in which they are queued.
Event == 1..MaxCalls

VARIABLES
    proc,      \* the memory and the threads of each process
    forked,    \* there is a child
    calls,     \* calls so far
    accepted,  \* history: the events that each process has queued
    handed     \* history: how often each event was given to a flush target

vars == <<proc, forked, calls, accepted, handed>>

Labels == {"absent", "idle", "sink", "install", "publish", "add", "append",
           "drain", "take", "send", "sent", "await", "wait", "dead"}

\* sink: _runtime._lock; lock: the buffer's _lock; built: the buffer exists and
\* its fork handler is registered; installed: it is _runtime._buffer.
Process == [sink : Actors \cup {None}, lock : Actors \cup {None},
            built : BOOLEAN, installed : BOOLEAN, shutdown : BOOLEAN,
            queue : Seq(Event), inFlight : Nat,
            pc : [Actors -> Labels], batch : [Actors -> Seq(Event)]]

Fresh == [sink |-> None, lock |-> None, built |-> FALSE, installed |-> FALSE,
          shutdown |-> FALSE, queue |-> <<>>, inFlight |-> 0,
          pc |-> [a \in Actors |-> IF a = Flusher THEN "absent" ELSE "idle"],
          batch |-> [a \in Actors |-> <<>>]]

Unborn == [Fresh EXCEPT !.pc = [a \in Actors |-> "absent"]]

Init ==
    /\ proc = [p \in Proc |-> IF p = "parent" THEN Fresh ELSE Unborn]
    /\ forked = FALSE
    /\ calls = 0
    /\ accepted = [p \in Proc |-> {}]
    /\ handed = [e \in Event |-> 0]

At(p, a, label) == proc[p].pc[a] = label

Accepted == accepted["parent"] \cup accepted["child"]

LockFree(p) == proc[p].lock = None

-----------------------------------------------------------------------------
(* emit()                                                                  *)

\* It reads _buffer without the lock.
EmitBegin(p, t) ==
    /\ At(p, t, "idle")
    /\ calls < MaxCalls
    /\ calls' = calls + 1
    /\ proc' = [proc EXCEPT ![p].pc[t] = IF proc[p].installed THEN "add" ELSE "sink"]
    /\ UNCHANGED <<forked, accepted, handed>>

\* _sink(): under the lock, it looks again.
SinkLock(p, t) ==
    /\ At(p, t, "sink")
    /\ proc[p].sink = None
    /\ IF proc[p].installed
       THEN proc' = [proc EXCEPT ![p].pc[t] = "add"]
       ELSE proc' = [proc EXCEPT ![p].pc[t] = "install", ![p].sink = t]
    /\ UNCHANGED <<forked, calls, accepted, handed>>

\* EventBuffer(), whose start() registers the handler and starts a thread.
InstallBuffer(p, t) ==
    /\ At(p, t, "install")
    /\ proc' = [proc EXCEPT ![p].built = TRUE, ![p].pc[t] = "publish",
                            ![p].pc[Flusher] = "wait"]
    /\ UNCHANGED <<forked, calls, accepted, handed>>

SinkUnlock(p, t) ==
    /\ At(p, t, "publish")
    /\ proc' = [proc EXCEPT ![p].installed = TRUE, ![p].sink = None,
                            ![p].pc[t] = "add"]
    /\ UNCHANGED <<forked, calls, accepted, handed>>

\* add()
AddLock(p, t) ==
    /\ At(p, t, "add")
    /\ LockFree(p)
    /\ proc' = [proc EXCEPT ![p].lock = t, ![p].pc[t] = "append"]
    /\ UNCHANGED <<forked, calls, accepted, handed>>

AddAppend(p, t) ==
    /\ At(p, t, "append")
    /\ IF proc[p].shutdown
       THEN /\ proc' = [proc EXCEPT ![p].lock = None, ![p].pc[t] = "idle"]
            /\ UNCHANGED accepted
       ELSE LET e == Cardinality(Accepted) + 1
            IN  /\ proc' = [proc EXCEPT ![p].queue = Append(@, e),
                                        ![p].lock = None, ![p].pc[t] = "idle"]
                /\ accepted' = [accepted EXCEPT ![p] = @ \cup {e}]
    /\ UNCHANGED <<forked, calls, handed>>

Emit(p, t) ==
    \/ EmitBegin(p, t) \/ SinkLock(p, t) \/ InstallBuffer(p, t)
    \/ SinkUnlock(p, t) \/ AddLock(p, t) \/ AddAppend(p, t)

-----------------------------------------------------------------------------
(* The flush thread, and flush()                                           *)

\* _take_batch().  A wake-up of the flush thread that finds nothing queued
\* changes nothing, and is not a step.
TakeLock(p, a) ==
    /\ At(p, a, "drain") \/ At(p, a, "wait")
    /\ LockFree(p)
    /\ proc[p].queue # <<>>
    /\ proc' = [proc EXCEPT ![p].lock = a, ![p].pc[a] = "take"]
    /\ UNCHANGED <<forked, calls, accepted, handed>>

TakeBatch(p, a) ==
    LET queue == proc[p].queue
        n == Min({FlushAt, Len(queue)})
    IN  /\ At(p, a, "take")
        /\ proc' = [proc EXCEPT ![p].queue = SubSeq(queue, n + 1, Len(queue)),
                                ![p].batch[a] = SubSeq(queue, 1, n),
                                ![p].inFlight = @ + 1,
                                ![p].lock = None, ![p].pc[a] = "send"]
        /\ UNCHANGED <<forked, calls, accepted, handed>>

\* The flush target returns or raises.
Send(p, a) ==
    /\ At(p, a, "send")
    /\ handed' = [e \in Event |->
                     handed[e] + IF e \in Range(proc[p].batch[a]) THEN 1 ELSE 0]
    /\ proc' = [proc EXCEPT ![p].batch[a] = <<>>, ![p].pc[a] = "sent"]
    /\ UNCHANGED <<forked, calls, accepted>>

BatchDone(p, a) ==
    /\ At(p, a, "sent")
    /\ LockFree(p)
    /\ proc' = [proc EXCEPT ![p].inFlight = @ - 1,
                            ![p].pc[a] = IF a = Flusher THEN "wait" ELSE "drain"]
    /\ UNCHANGED <<forked, calls, accepted, handed>>

FlushOnce(p, t) ==
    /\ At(p, t, "idle")
    /\ proc[p].installed
    /\ calls < MaxCalls
    /\ calls' = calls + 1
    /\ proc' = [proc EXCEPT ![p].pc[t] = "drain"]
    /\ UNCHANGED <<forked, accepted, handed>>

DrainEnds(p, t) ==
    /\ At(p, t, "drain")
    /\ LockFree(p)
    /\ proc[p].queue = <<>>
    /\ proc' = [proc EXCEPT ![p].pc[t] = "await"]
    /\ UNCHANGED <<forked, calls, accepted, handed>>

\* wait_until_idle(), without a timeout.
WaitUntilIdle(p, t) ==
    /\ At(p, t, "await")
    /\ LockFree(p)
    /\ proc[p].inFlight = 0 /\ proc[p].queue = <<>>
    /\ proc' = [proc EXCEPT ![p].pc[t] = "idle"]
    /\ UNCHANGED <<forked, calls, accepted, handed>>

Drain(p, a) == TakeLock(p, a) \/ TakeBatch(p, a) \/ Send(p, a) \/ BatchDone(p, a)

Flush(p, t) == FlushOnce(p, t) \/ DrainEnds(p, t) \/ WaitUntilIdle(p, t)

-----------------------------------------------------------------------------
(* Shutdown, and fork                                                      *)

\* shutdown() of the buffer, by its owner or at exit.
Shutdown(p, t) ==
    /\ At(p, t, "idle")
    /\ proc[p].installed /\ ~proc[p].shutdown
    /\ proc' = [proc EXCEPT ![p].shutdown = TRUE]
    /\ UNCHANGED <<forked, calls, accepted, handed>>

\* _run() ends after the drain that found nothing more.
FlusherEnds(p) ==
    /\ At(p, Flusher, "wait")
    /\ proc[p].shutdown
    /\ proc[p].queue = <<>> /\ LockFree(p)
    /\ proc' = [proc EXCEPT ![p].pc[Flusher] = "dead"]
    /\ UNCHANGED <<forked, calls, accepted, handed>>

\* What a child of thread t begins with.
Copied(m, t) ==
    [m EXCEPT !.pc = [a \in Actors |-> IF a = t THEN m.pc[t] ELSE "absent"],
              !.batch = [a \in Actors |-> <<>>]]

\* Variants: the queue, the lock or the thread is forgotten.
ResetButQueue(m) ==
    [m EXCEPT !.lock = None, !.shutdown = FALSE, !.inFlight = 0,
              !.pc[Flusher] = "wait"]

ResetButLock(m) ==
    [m EXCEPT !.queue = <<>>, !.shutdown = FALSE, !.inFlight = 0,
              !.pc[Flusher] = "wait"]

ResetButThread(m) ==
    [m EXCEPT !.lock = None, !.queue = <<>>, !.shutdown = FALSE, !.inFlight = 0]

\* _reset_after_fork(), with its start().
ResetAfterFork(m) ==
    [m EXCEPT !.lock = None, !.queue = <<>>, !.shutdown = FALSE, !.inFlight = 0,
              !.pc[Flusher] = "wait"]

\* The forking thread is in the application, not in a call of the SDK.
OsFork(t) ==
    /\ ~forked
    /\ At("parent", t, "idle")
    /\ forked' = TRUE
    /\ LET m == Copied(proc["parent"], t)
       IN  proc' = [proc EXCEPT !["child"] = IF m.built THEN ResetAfterFork(m) ELSE m]
    /\ UNCHANGED <<calls, accepted, handed>>

-----------------------------------------------------------------------------
Next ==
    \/ \E p \in Proc :
        \/ \E t \in Threads : Emit(p, t) \/ Flush(p, t) \/ Shutdown(p, t)
        \/ \E a \in Actors : Drain(p, a)
        \/ FlusherEnds(p)
    \/ \E t \in Threads : OsFork(t)

Spec == Init /\ [][Next]_vars

\* The steps of an actor inside a call, or of a flush thread.
OwnStep(p, a) ==
    \/ Drain(p, a)
    \/ a \in Threads /\ (\/ SinkLock(p, a) \/ InstallBuffer(p, a) \/ SinkUnlock(p, a)
                         \/ AddLock(p, a) \/ AddAppend(p, a)
                         \/ DrainEnds(p, a) \/ WaitUntilIdle(p, a))
    \/ a = Flusher /\ FlusherEnds(p)

\* The scheduler runs every thread of both processes, the interval elapses, and
\* flush targets return.  Calls are bounded, so nobody is kept from a lock for
\* ever by others that take turns with it.
FairSpec == Spec /\ \A p \in Proc, a \in Actors : WF_vars(OwnStep(p, a))

-----------------------------------------------------------------------------
(* Properties                                                              *)

TypeOK ==
    /\ proc \in [Proc -> Process]
    /\ forked \in BOOLEAN
    /\ calls \in 0..MaxCalls
    /\ accepted \in [Proc -> SUBSET Event]
    /\ handed \in [Event -> Nat]

\* The copies of event e: in a queue, in a batch, or handed over.
Copies(e) ==
    handed[e]
    + Cardinality({p \in Proc : e \in Range(proc[p].queue)})
    + Cardinality({x \in Proc \X Actors : e \in Range(proc[x[1]].batch[x[2]])})

\* Fork or not, an event is queued, being sent, or handed over once, and before
\* that only by the process that emitted it: the child sends nothing of what the
\* parent had queued (buffer.py:239, "duplicates on the dashboard").
EachEventOnce ==
    /\ TypeOK
    /\ \A e \in Event :
        Copies(e) = IF e \in Accepted THEN 1 ELSE 0
    /\ \A p \in Proc : Range(proc[p].queue) \subseteq accepted[p]

\* The buffer's lock and its count of batches in flight are those of threads
\* that the process has: nobody there waits for a thread that only the parent
\* has (buffer.py:248).
NobodyWaitsForTheParent ==
    \A p \in Proc :
        /\ proc[p].lock # None => proc[p].pc[proc[p].lock] \in {"append", "take"}
        /\ proc[p].inFlight =
               Cardinality({a \in Actors : proc[p].pc[a] \in {"send", "sent"}})

\* _runtime._lock is held by a thread that the process does not have.
SinkOrphaned(p) == proc[p].sink # None /\ At(p, proc[p].sink, "absent")

InCall(p, t) == proc[p].pc[t] \notin {"absent", "idle"}

\* In the parent and in the child every event that was accepted is handed over,
\* also when the parent's flush thread was sending, or had ended, at the fork;
\* and every call returns, unless another thread held _runtime._lock.
ForkedWorkGoesOn ==
    []<>(/\ \A e \in Accepted : handed[e] = 1
         /\ \A p \in Proc, t \in Threads : InCall(p, t) => SinkOrphaned(p))

\* emit() "never blocks" (_runtime.py:256), and the handler replaces a lock that
\* "may have been held by a thread that does not exist in this process".
EmitReturnsInChild == \A t \in Threads : InCall("child", t) ~> ~InCall("child", t)

=============================================================================
