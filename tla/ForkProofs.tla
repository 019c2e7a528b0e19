----------------------------- MODULE ForkProofs -----------------------------
(***************************************************************************)
(* Theorems about Fork, for any threads and batch size, and any number of  *)
(* calls.                                                                  *)
(***************************************************************************)
EXTENDS Fork, TLAPS, FiniteSetTheorems

-----------------------------------------------------------------------------
(* The inductive invariant.                                                *)

\* A thread that is on its way to append an event.
Emitting == {x \in Proc \X Actors :
                proc[x[1]].pc[x[2]] \in {"sink", "install", "publish", "add", "append"}}

\* A thread that has a batch in flight.
Senders(p) == {a \in Actors : proc[p].pc[a] \in {"send", "sent"}}

\* Numbers are left for the events that are still to be queued.
NumbersSuffice ==
    /\ IsFiniteSet(Accepted) /\ IsFiniteSet(Emitting)
    /\ Accepted = 1..Cardinality(Accepted)
    /\ Cardinality(Accepted) + Cardinality(Emitting) <= calls

BeforeFork == ~forked => proc["child"] = Unborn

\* Whoever is in _install_default_locked() holds the lock of _runtime, and a
\* buffer that is built and not yet installed is that of such a thread, or of one
\* that the process does not have.
Installation ==
    \A p \in Proc :
        LET m == proc[p]
        IN  /\ m.sink \in Threads \cup {None}
            /\ \A t \in Actors : m.pc[t] \in {"install", "publish"}
                    => m.sink = t /\ ~m.installed
            /\ m.installed => m.built
            /\ m.built /\ ~m.installed
                    => m.sink \in Threads /\ m.pc[m.sink] \in {"publish", "absent"}

\* Without a buffer there is nothing to do but to install one.
Unbuilt ==
    \A p \in Proc :
        LET m == proc[p]
        IN  ~m.built => /\ \A a \in Actors : m.pc[a] \in {"absent", "idle", "sink", "install"}
                        /\ m.queue = <<>> /\ ~m.shutdown

FlusherFlushes ==
    \A p \in Proc :
        proc[p].pc[Flusher] \in {"absent", "wait", "take", "send", "sent", "dead"}

LockHeld ==
    \A p \in Proc, a \in Actors :
        proc[p].pc[a] \in {"append", "take"} => proc[p].lock = a

LockReleased ==
    \A p \in Proc :
        proc[p].lock # None => /\ proc[p].lock \in Actors
                               /\ proc[p].pc[proc[p].lock] \in {"append", "take"}

InFlightIsSenders ==
    \A p \in Proc : IsFiniteSet(Senders(p)) /\ proc[p].inFlight = Cardinality(Senders(p))

BatchesAreSent ==
    \A p \in Proc, a \in Actors : proc[p].batch[a] # <<>> => proc[p].pc[a] = "send"

\* An accepted event is handed over, or in one queue, or in one batch.
PlacedOnce(e) ==
    /\ handed[e] \in 0..1
    /\ e \in Accepted <=>
          \/ handed[e] = 1
          \/ \E p \in Proc : e \in Range(proc[p].queue)
          \/ \E p \in Proc, a \in Actors : e \in Range(proc[p].batch[a])
    /\ \A p, q \in Proc :
        e \in Range(proc[p].queue) =>
            /\ handed[e] = 0
            /\ e \in Range(proc[q].queue) => p = q
            /\ \A a \in Actors : e \notin Range(proc[q].batch[a])
    /\ \A p, q \in Proc, a, b \in Actors :
        e \in Range(proc[p].batch[a]) =>
            /\ handed[e] = 0
            /\ e \in Range(proc[q].batch[b]) => p = q /\ a = b

Placed ==
    /\ \A p \in Proc : /\ IsInjective(proc[p].queue)
                       /\ Range(proc[p].queue) \subseteq accepted[p]
    /\ \A e \in Event : PlacedOnce(e)

ForkInv ==
    /\ TypeOK /\ NumbersSuffice /\ BeforeFork /\ Installation /\ Unbuilt
    /\ FlusherFlushes /\ LockHeld /\ LockReleased /\ InFlightIsSenders /\ BatchesAreSent
    /\ Placed

-----------------------------------------------------------------------------
(* What the steps change, field by field.                                  *)

OnlyIn(p) == \A q \in Proc \ {p} : proc'[q] = proc[q]

OnlyPc(p, a, label) ==
    /\ OnlyIn(p)
    /\ proc'[p].sink = proc[p].sink /\ proc'[p].lock = proc[p].lock
    /\ proc'[p].built = proc[p].built /\ proc'[p].installed = proc[p].installed
    /\ proc'[p].shutdown = proc[p].shutdown /\ proc'[p].queue = proc[p].queue
    /\ proc'[p].inFlight = proc[p].inFlight /\ proc'[p].batch = proc[p].batch
    /\ \A b \in Actors : proc'[p].pc[b] = IF b = a THEN label ELSE proc[p].pc[b]

EmitBeginMoves(p, t) ==
    /\ proc[p].pc[t] = "idle"
    /\ calls' = calls + 1 /\ calls < MaxCalls /\ UNCHANGED <<forked, accepted, handed>>
    /\ OnlyPc(p, t, IF proc[p].installed THEN "add" ELSE "sink")

SinkLockMoves(p, t) ==
    /\ proc[p].pc[t] = "sink" /\ proc[p].sink = None
    /\ UNCHANGED <<forked, calls, accepted, handed>>
    /\ OnlyIn(p)
    /\ proc'[p].lock = proc[p].lock /\ proc'[p].built = proc[p].built
    /\ proc'[p].installed = proc[p].installed /\ proc'[p].shutdown = proc[p].shutdown
    /\ proc'[p].queue = proc[p].queue /\ proc'[p].inFlight = proc[p].inFlight
    /\ proc'[p].sink = IF proc[p].installed THEN None ELSE t
    /\ \A b \in Actors : proc'[p].pc[b] = IF b = t THEN (IF proc[p].installed THEN "add" ELSE "install")
                                   ELSE proc[p].pc[b]
    /\ proc'[p].batch = proc[p].batch

InstallBufferMoves(p, t) ==
    /\ proc[p].pc[t] = "install"
    /\ UNCHANGED <<forked, calls, accepted, handed>>
    /\ OnlyIn(p)
    /\ proc'[p].sink = proc[p].sink /\ proc'[p].lock = proc[p].lock
    /\ proc'[p].installed = proc[p].installed /\ proc'[p].shutdown = proc[p].shutdown
    /\ proc'[p].queue = proc[p].queue /\ proc'[p].inFlight = proc[p].inFlight
    /\ proc'[p].built = TRUE
    /\ \A b \in Actors : proc'[p].pc[b] = IF b = t THEN "publish"
                                   ELSE IF b = Flusher THEN "wait"
                                   ELSE proc[p].pc[b]
    /\ proc'[p].batch = proc[p].batch

SinkUnlockMoves(p, t) ==
    /\ proc[p].pc[t] = "publish"
    /\ UNCHANGED <<forked, calls, accepted, handed>>
    /\ OnlyIn(p)
    /\ proc'[p].lock = proc[p].lock /\ proc'[p].built = proc[p].built
    /\ proc'[p].shutdown = proc[p].shutdown /\ proc'[p].queue = proc[p].queue
    /\ proc'[p].inFlight = proc[p].inFlight
    /\ proc'[p].sink = None
    /\ proc'[p].installed = TRUE
    /\ \A b \in Actors : proc'[p].pc[b] = IF b = t THEN "add"
                                   ELSE proc[p].pc[b]
    /\ proc'[p].batch = proc[p].batch

AddLockMoves(p, t) ==
    /\ proc[p].pc[t] = "add" /\ proc[p].lock = None
    /\ UNCHANGED <<forked, calls, accepted, handed>>
    /\ OnlyIn(p)
    /\ proc'[p].sink = proc[p].sink /\ proc'[p].built = proc[p].built
    /\ proc'[p].installed = proc[p].installed /\ proc'[p].shutdown = proc[p].shutdown
    /\ proc'[p].queue = proc[p].queue /\ proc'[p].inFlight = proc[p].inFlight
    /\ proc'[p].lock = t
    /\ \A b \in Actors : proc'[p].pc[b] = IF b = t THEN "append"
                                   ELSE proc[p].pc[b]
    /\ proc'[p].batch = proc[p].batch

AddAppendMoves(p, t) ==
    /\ proc[p].pc[t] = "append"
    /\ accepted' = IF proc[p].shutdown THEN accepted
                    ELSE [accepted EXCEPT ![p] = @ \cup {Cardinality(Accepted) + 1}]
    /\ UNCHANGED <<forked, calls, handed>>
    /\ OnlyIn(p)
    /\ proc'[p].sink = proc[p].sink /\ proc'[p].built = proc[p].built
    /\ proc'[p].installed = proc[p].installed /\ proc'[p].shutdown = proc[p].shutdown
    /\ proc'[p].inFlight = proc[p].inFlight
    /\ proc'[p].lock = None
    /\ proc'[p].queue = IF proc[p].shutdown THEN proc[p].queue
                               ELSE Append(proc[p].queue, Cardinality(Accepted) + 1)
    /\ \A b \in Actors : proc'[p].pc[b] = IF b = t THEN "idle"
                                   ELSE proc[p].pc[b]
    /\ proc'[p].batch = proc[p].batch

FlushOnceMoves(p, t) ==
    /\ proc[p].pc[t] = "idle" /\ proc[p].installed
    /\ calls' = calls + 1 /\ calls < MaxCalls /\ UNCHANGED <<forked, accepted, handed>>
    /\ OnlyPc(p, t, "drain")

DrainEndsMoves(p, t) ==
    /\ proc[p].pc[t] = "drain"
    /\ UNCHANGED <<forked, calls, accepted, handed>>
    /\ OnlyPc(p, t, "await")

WaitUntilIdleMoves(p, t) ==
    /\ proc[p].pc[t] = "await"
    /\ UNCHANGED <<forked, calls, accepted, handed>>
    /\ OnlyPc(p, t, "idle")

ShutdownMoves(p, t) ==
    /\ proc[p].pc[t] = "idle" /\ proc[p].installed
    /\ UNCHANGED <<forked, calls, accepted, handed>>
    /\ OnlyIn(p)
    /\ proc'[p].sink = proc[p].sink /\ proc'[p].lock = proc[p].lock
    /\ proc'[p].built = proc[p].built /\ proc'[p].installed = proc[p].installed
    /\ proc'[p].queue = proc[p].queue /\ proc'[p].inFlight = proc[p].inFlight
    /\ proc'[p].shutdown = TRUE
    /\ proc'[p].pc = proc[p].pc
    /\ proc'[p].batch = proc[p].batch

TakeLockMoves(p, a) ==
    /\ proc[p].pc[a] \in {"drain", "wait"} /\ proc[p].lock = None
    /\ UNCHANGED <<forked, calls, accepted, handed>>
    /\ OnlyIn(p)
    /\ proc'[p].sink = proc[p].sink /\ proc'[p].built = proc[p].built
    /\ proc'[p].installed = proc[p].installed /\ proc'[p].shutdown = proc[p].shutdown
    /\ proc'[p].queue = proc[p].queue /\ proc'[p].inFlight = proc[p].inFlight
    /\ proc'[p].lock = a
    /\ \A b \in Actors : proc'[p].pc[b] = IF b = a THEN "take"
                                   ELSE proc[p].pc[b]
    /\ proc'[p].batch = proc[p].batch

TakeBatchMoves(p, a) ==
    /\ proc[p].pc[a] = "take"
    /\ UNCHANGED <<forked, calls, accepted, handed>>
    /\ OnlyIn(p)
    /\ proc'[p].sink = proc[p].sink /\ proc'[p].built = proc[p].built
    /\ proc'[p].installed = proc[p].installed /\ proc'[p].shutdown = proc[p].shutdown
    /\ proc'[p].lock = None
    /\ proc'[p].queue = SubSeq(proc[p].queue, Min({FlushAt, Len(proc[p].queue)}) + 1,
                                        Len(proc[p].queue))
    /\ proc'[p].inFlight = proc[p].inFlight + 1
    /\ \A b \in Actors : proc'[p].pc[b] = IF b = a THEN "send"
                                   ELSE proc[p].pc[b]
    /\ \A b \in Actors : proc'[p].batch[b] = IF b = a THEN SubSeq(proc[p].queue, 1, Min({FlushAt, Len(proc[p].queue)}))
                                      ELSE proc[p].batch[b]

SendMoves(p, a) ==
    /\ proc[p].pc[a] = "send"
    /\ handed' = [e \in Event |->
                     handed[e] + IF e \in Range(proc[p].batch[a]) THEN 1 ELSE 0]
    /\ UNCHANGED <<forked, calls, accepted>>
    /\ OnlyIn(p)
    /\ proc'[p].sink = proc[p].sink /\ proc'[p].lock = proc[p].lock
    /\ proc'[p].built = proc[p].built /\ proc'[p].installed = proc[p].installed
    /\ proc'[p].shutdown = proc[p].shutdown /\ proc'[p].queue = proc[p].queue
    /\ proc'[p].inFlight = proc[p].inFlight
    /\ \A b \in Actors : proc'[p].pc[b] = IF b = a THEN "sent"
                                   ELSE proc[p].pc[b]
    /\ \A b \in Actors : proc'[p].batch[b] = IF b = a THEN <<>>
                                      ELSE proc[p].batch[b]

BatchDoneMoves(p, a) ==
    /\ proc[p].pc[a] = "sent"
    /\ UNCHANGED <<forked, calls, accepted, handed>>
    /\ OnlyIn(p)
    /\ proc'[p].sink = proc[p].sink /\ proc'[p].lock = proc[p].lock
    /\ proc'[p].built = proc[p].built /\ proc'[p].installed = proc[p].installed
    /\ proc'[p].shutdown = proc[p].shutdown /\ proc'[p].queue = proc[p].queue
    /\ proc'[p].inFlight = proc[p].inFlight - 1
    /\ \A b \in Actors : proc'[p].pc[b] = IF b = a THEN (IF a = Flusher THEN "wait" ELSE "drain")
                                   ELSE proc[p].pc[b]
    /\ proc'[p].batch = proc[p].batch

FlusherEndsMoves(p) ==
    /\ proc[p].pc[Flusher] = "wait"
    /\ UNCHANGED <<forked, calls, accepted, handed>>
    /\ OnlyPc(p, Flusher, "dead")

\* The child begins with nothing to send, and nobody to wait for.
OsForkMoves(t) ==
    /\ proc["parent"].pc[t] = "idle"
    /\ ~forked /\ forked'
    /\ UNCHANGED <<calls, accepted, handed>>
    /\ proc'["parent"] = proc["parent"]
    /\ proc'["child"].sink = proc["parent"].sink
    /\ proc'["child"].built = proc["parent"].built
    /\ proc'["child"].installed = proc["parent"].installed
    /\ proc'["child"].lock = None
    /\ proc'["child"].shutdown = FALSE
    /\ proc'["child"].queue = <<>>
    /\ proc'["child"].inFlight = 0
    /\ \A b \in Actors :
        proc'["child"].pc[b] = IF b = t THEN "idle"
                               ELSE IF b = Flusher /\ proc["parent"].built THEN "wait"
                               ELSE "absent"
    /\ \A b \in Actors : proc'["child"].batch[b] = <<>>

\* The thread begins emit(), and nothing else changes.
LEMMA EmitBeginEffect ==
    ASSUME TypeOK, NEW p \in Proc, NEW t \in Threads, EmitBegin(p, t)
    PROVE  EmitBeginMoves(p, t)
BY ForkAssumption
DEF TypeOK, Process, EmitBegin, EmitBeginMoves, OnlyIn, OnlyPc, At, Actors

\* The thread looks at the buffer again under the lock, and nothing else
\* changes.
LEMMA SinkLockEffect ==
    ASSUME TypeOK, NEW p \in Proc, NEW t \in Threads, SinkLock(p, t)
    PROVE  SinkLockMoves(p, t)
<1>1. CASE proc[p].installed
    <2>1. proc' = [proc EXCEPT ![p].pc[t] = "add"]
        BY <1>1 DEF SinkLock
    <2>2. QED
        BY <1>1, <2>1, ForkAssumption DEF TypeOK, Process, SinkLock, SinkLockMoves, OnlyIn, At, Actors
<1>2. CASE ~proc[p].installed
    BY <1>2, ForkAssumption DEF TypeOK, Process, SinkLock, SinkLockMoves, OnlyIn, At, Actors
<1>3. QED
    BY <1>1, <1>2

\* The thread builds a buffer and its flush thread, and nothing else changes.
LEMMA InstallBufferEffect ==
    ASSUME TypeOK, NEW p \in Proc, NEW t \in Threads, InstallBuffer(p, t)
    PROVE  InstallBufferMoves(p, t)
BY ForkAssumption
DEF TypeOK, Process, InstallBuffer, InstallBufferMoves, OnlyIn, At, Actors

\* The thread installs the buffer, and nothing else changes.
LEMMA SinkUnlockEffect ==
    ASSUME TypeOK, NEW p \in Proc, NEW t \in Threads, SinkUnlock(p, t)
    PROVE  SinkUnlockMoves(p, t)
BY ForkAssumption
DEF TypeOK, Process, SinkUnlock, SinkUnlockMoves, OnlyIn, At, Actors

\* The thread takes the buffer's lock in add(), and nothing else changes.
LEMMA AddLockEffect ==
    ASSUME TypeOK, NEW p \in Proc, NEW t \in Threads, AddLock(p, t)
    PROVE  AddLockMoves(p, t)
BY ForkAssumption
DEF TypeOK, Process, AddLock, AddLockMoves, OnlyIn, At, Actors, LockFree

\* The thread appends an event, unless the buffer was shut down, and nothing
\* else changes.
LEMMA AddAppendEffect ==
    ASSUME TypeOK, NEW p \in Proc, NEW t \in Threads, AddAppend(p, t)
    PROVE  AddAppendMoves(p, t)
<1>1. CASE proc[p].shutdown
    <2>1. proc' = [proc EXCEPT ![p].lock = None, ![p].pc[t] = "idle"]
        BY <1>1 DEF AddAppend
    <2>2. accepted' = accepted
        BY <1>1 DEF AddAppend
    <2>3. QED
        BY <1>1, <2>1, <2>2, ForkAssumption DEF TypeOK, Process, AddAppend, AddAppendMoves,
           OnlyIn, At, Actors
<1>2. CASE ~proc[p].shutdown
    <2> DEFINE r == Append(proc[p].queue, Cardinality(Accepted) + 1)
    <2>1. proc' = [proc EXCEPT ![p].queue = r, ![p].lock = None, ![p].pc[t] = "idle"]
        BY <1>2 DEF AddAppend
    <2>2. /\ accepted' = [accepted EXCEPT ![p] = @ \cup {Cardinality(Accepted) + 1}]
          /\ UNCHANGED <<forked, calls, handed>>
          /\ proc[p].pc[t] = "append"
        BY <1>2 DEF AddAppend, At
    <2> HIDE DEF r
    <2>3. QED
        BY <1>2, <2>1, <2>2, ForkAssumption DEF TypeOK, Process, Actors, AddAppendMoves, OnlyIn, r
<1>3. QED
    BY <1>1, <1>2

\* The thread begins flush(), and nothing else changes.
LEMMA FlushOnceEffect ==
    ASSUME TypeOK, NEW p \in Proc, NEW t \in Threads, FlushOnce(p, t)
    PROVE  FlushOnceMoves(p, t)
BY ForkAssumption
DEF TypeOK, Process, FlushOnce, FlushOnceMoves, OnlyIn, OnlyPc, At, Actors

\* The thread finds the queue empty, and nothing else changes.
LEMMA DrainEndsEffect ==
    ASSUME TypeOK, NEW p \in Proc, NEW t \in Threads, DrainEnds(p, t)
    PROVE  DrainEndsMoves(p, t)
BY ForkAssumption
DEF TypeOK, Process, DrainEnds, DrainEndsMoves, OnlyIn, OnlyPc, At, Actors

\* The thread finds the buffer idle, and nothing else changes.
LEMMA WaitUntilIdleEffect ==
    ASSUME TypeOK, NEW p \in Proc, NEW t \in Threads, WaitUntilIdle(p, t)
    PROVE  WaitUntilIdleMoves(p, t)
BY ForkAssumption
DEF TypeOK, Process, WaitUntilIdle, WaitUntilIdleMoves, OnlyIn, OnlyPc, At, Actors

\* The thread shuts the buffer down, and nothing else changes.
LEMMA ShutdownEffect ==
    ASSUME TypeOK, NEW p \in Proc, NEW t \in Threads, Shutdown(p, t)
    PROVE  ShutdownMoves(p, t)
BY ForkAssumption
DEF TypeOK, Process, Shutdown, ShutdownMoves, OnlyIn, At, Actors

\* The thread takes the buffer's lock for a batch, and nothing else changes.
LEMMA TakeLockEffect ==
    ASSUME TypeOK, NEW p \in Proc, NEW a \in Actors, TakeLock(p, a)
    PROVE  TakeLockMoves(p, a)
BY ForkAssumption
DEF TypeOK, Process, TakeLock, TakeLockMoves, OnlyIn, At, Actors, LockFree

\* The thread takes a batch and counts it in flight, and nothing else changes.
LEMMA TakeBatchEffect ==
    ASSUME TypeOK, NEW p \in Proc, NEW a \in Actors, TakeBatch(p, a)
    PROVE  TakeBatchMoves(p, a)
<1> DEFINE n == Min({FlushAt, Len(proc[p].queue)})
           front == SubSeq(proc[p].queue, 1, n)
           rest == SubSeq(proc[p].queue, n + 1, Len(proc[p].queue))
<1>1. /\ proc[p].pc[a] = "take"
      /\ UNCHANGED <<forked, calls, accepted, handed>>
      /\ proc' = [proc EXCEPT ![p].queue = rest, ![p].batch[a] = front,
                              ![p].inFlight = @ + 1, ![p].lock = None, ![p].pc[a] = "send"]
    BY DEF TakeBatch, At
<1> HIDE DEF front, rest
<1>2. /\ \A q \in Proc \ {p} : proc'[q] = proc[q]
      /\ proc'[p].sink = proc[p].sink /\ proc'[p].built = proc[p].built
      /\ proc'[p].installed = proc[p].installed /\ proc'[p].shutdown = proc[p].shutdown
      /\ proc'[p].lock = None /\ proc'[p].queue = rest
      /\ proc'[p].inFlight = proc[p].inFlight + 1
      /\ proc'[p].pc = [proc[p].pc EXCEPT ![a] = "send"]
      /\ proc'[p].batch = [proc[p].batch EXCEPT ![a] = front]
    BY <1>1 DEF TypeOK, Process
<1>3. QED
    <2>1. /\ \A b \in Actors : proc'[p].pc[b] = IF b = a THEN "send" ELSE proc[p].pc[b]
          /\ \A b \in Actors : proc'[p].batch[b] = IF b = a THEN front ELSE proc[p].batch[b]
        BY <1>2 DEF TypeOK, Process
    <2>2. QED
        BY <1>1, <1>2, <2>1 DEF TakeBatchMoves, OnlyIn, front, rest

\* The thread hands its batch to the flush target, and nothing else changes.
LEMMA SendEffect ==
    ASSUME TypeOK, NEW p \in Proc, NEW a \in Actors, Send(p, a)
    PROVE  SendMoves(p, a)
<1>1. /\ proc[p].pc[a] = "send"
      /\ handed' = [e \in Event |->
                       handed[e] + IF e \in Range(proc[p].batch[a]) THEN 1 ELSE 0]
      /\ UNCHANGED <<forked, calls, accepted>>
      /\ proc' = [proc EXCEPT ![p].batch[a] = <<>>, ![p].pc[a] = "sent"]
    BY DEF Send, At
<1>2. /\ \A q \in Proc \ {p} : proc'[q] = proc[q]
      /\ proc'[p].sink = proc[p].sink /\ proc'[p].built = proc[p].built
      /\ proc'[p].installed = proc[p].installed /\ proc'[p].shutdown = proc[p].shutdown
      /\ proc'[p].lock = proc[p].lock /\ proc'[p].queue = proc[p].queue
      /\ proc'[p].inFlight = proc[p].inFlight
      /\ proc'[p].pc = [proc[p].pc EXCEPT ![a] = "sent"]
      /\ proc'[p].batch = [proc[p].batch EXCEPT ![a] = <<>>]
    BY <1>1 DEF TypeOK, Process
<1>3. QED
    BY <1>1, <1>2 DEF TypeOK, Process, SendMoves, OnlyIn

\* The thread counts its batch out, and nothing else changes.
LEMMA BatchDoneEffect ==
    ASSUME TypeOK, NEW p \in Proc, NEW a \in Actors, BatchDone(p, a)
    PROVE  BatchDoneMoves(p, a)
BY ForkAssumption
DEF TypeOK, Process, BatchDone, BatchDoneMoves, OnlyIn, At, Actors

\* The flush thread ends, and nothing else changes.
LEMMA FlusherEndsEffect ==
    ASSUME TypeOK, NEW p \in Proc, FlusherEnds(p)
    PROVE  FlusherEndsMoves(p)
BY ForkAssumption
DEF TypeOK, Process, FlusherEnds, FlusherEndsMoves, OnlyIn, OnlyPc, At, Actors

\* The child gets a copy, reset if a buffer was built, and the parent keeps all.
LEMMA OsForkEffect ==
    ASSUME ForkInv, NEW t \in Threads, OsFork(t)
    PROVE  OsForkMoves(t)
<1>1. CASE proc["parent"].built
    BY <1>1, ForkAssumption
    DEF ForkInv, TypeOK, Process, Proc, OsFork, Copied, ResetAfterFork, At, Actors,
        OsForkMoves
<1>2. CASE ~proc["parent"].built
    <2>1. Senders("parent") = {}
        BY <1>2 DEF ForkInv, Unbuilt, Senders, Proc
    <2>2. proc["parent"].inFlight = 0
        BY <2>1, FS_EmptySet DEF ForkInv, InFlightIsSenders, Proc
    <2>3. /\ proc["parent"].lock = None /\ proc["parent"].queue = <<>>
          /\ ~proc["parent"].shutdown
        BY <1>2 DEF ForkInv, Unbuilt, LockReleased, TypeOK, Process, Proc
    <2>4. QED
        BY <1>2, <2>2, <2>3, ForkAssumption
        DEF ForkInv, TypeOK, Process, Proc, OsFork, Copied, At, Actors, OsForkMoves
<1>3. QED
    BY <1>1, <1>2

\* Every step has the effect that its action is named for.
LEMMA ForkCases ==
    ASSUME ForkInv, [Next]_vars
    PROVE  \/ \E p \in Proc, t \in Threads :
                \/ EmitBeginMoves(p, t) \/ SinkLockMoves(p, t) \/ InstallBufferMoves(p, t)
                \/ SinkUnlockMoves(p, t) \/ AddLockMoves(p, t) \/ AddAppendMoves(p, t)
                \/ FlushOnceMoves(p, t) \/ DrainEndsMoves(p, t) \/ WaitUntilIdleMoves(p, t)
                \/ ShutdownMoves(p, t)
           \/ \E p \in Proc, a \in Actors :
                \/ TakeLockMoves(p, a) \/ TakeBatchMoves(p, a) \/ SendMoves(p, a)
                \/ BatchDoneMoves(p, a)
           \/ \E p \in Proc : FlusherEndsMoves(p)
           \/ \E t \in Threads : OsForkMoves(t)
           \/ UNCHANGED vars
<1>1. TypeOK
    BY DEF ForkInv
<1>2. ASSUME NEW p \in Proc, NEW t \in Threads, Emit(p, t)
      PROVE  \/ EmitBeginMoves(p, t) \/ SinkLockMoves(p, t) \/ InstallBufferMoves(p, t)
             \/ SinkUnlockMoves(p, t) \/ AddLockMoves(p, t) \/ AddAppendMoves(p, t)
    BY <1>1, <1>2, EmitBeginEffect, SinkLockEffect, InstallBufferEffect, SinkUnlockEffect,
       AddLockEffect, AddAppendEffect DEF Emit
<1>3. ASSUME NEW p \in Proc, NEW t \in Threads, Flush(p, t)
      PROVE  FlushOnceMoves(p, t) \/ DrainEndsMoves(p, t) \/ WaitUntilIdleMoves(p, t)
    BY <1>1, <1>3, FlushOnceEffect, DrainEndsEffect, WaitUntilIdleEffect DEF Flush
<1>4. ASSUME NEW p \in Proc, NEW a \in Actors, Drain(p, a)
      PROVE  \/ TakeLockMoves(p, a) \/ TakeBatchMoves(p, a) \/ SendMoves(p, a)
             \/ BatchDoneMoves(p, a)
    BY <1>1, <1>4, TakeLockEffect, TakeBatchEffect, SendEffect, BatchDoneEffect DEF Drain
<1>5. QED
    BY <1>1, <1>2, <1>3, <1>4, ShutdownEffect, FlusherEndsEffect, OsForkEffect DEF Next

\* Nothing happens in the child before the fork.
LEMMA BeforeForkStep ==
    ASSUME ForkInv, [Next]_vars
    PROVE  BeforeFork'
<1> USE ForkAssumption
        DEF ForkInv, Actors, Proc, BeforeFork, Unborn, Fresh, OnlyIn
<1>1. ASSUME NEW p \in Proc, NEW t \in Threads, EmitBeginMoves(p, t)
      PROVE  BeforeFork'
    BY <1>1 DEF EmitBeginMoves, OnlyPc
<1>2. ASSUME NEW p \in Proc, NEW t \in Threads, SinkLockMoves(p, t)
      PROVE  BeforeFork'
    BY <1>2 DEF SinkLockMoves
<1>3. ASSUME NEW p \in Proc, NEW t \in Threads, InstallBufferMoves(p, t)
      PROVE  BeforeFork'
    BY <1>3 DEF InstallBufferMoves
<1>4. ASSUME NEW p \in Proc, NEW t \in Threads, SinkUnlockMoves(p, t)
      PROVE  BeforeFork'
    BY <1>4 DEF SinkUnlockMoves
<1>5. ASSUME NEW p \in Proc, NEW t \in Threads, AddLockMoves(p, t)
      PROVE  BeforeFork'
    BY <1>5 DEF AddLockMoves
<1>6. ASSUME NEW p \in Proc, NEW t \in Threads, AddAppendMoves(p, t)
      PROVE  BeforeFork'
    BY <1>6 DEF AddAppendMoves
<1>7. ASSUME NEW p \in Proc, NEW t \in Threads, FlushOnceMoves(p, t)
      PROVE  BeforeFork'
    BY <1>7 DEF FlushOnceMoves, OnlyPc
<1>8. ASSUME NEW p \in Proc, NEW t \in Threads, DrainEndsMoves(p, t)
      PROVE  BeforeFork'
    BY <1>8 DEF DrainEndsMoves, OnlyPc
<1>9. ASSUME NEW p \in Proc, NEW t \in Threads, WaitUntilIdleMoves(p, t)
      PROVE  BeforeFork'
    BY <1>9 DEF WaitUntilIdleMoves, OnlyPc
<1>10. ASSUME NEW p \in Proc, NEW t \in Threads, ShutdownMoves(p, t)
      PROVE  BeforeFork'
    BY <1>10 DEF ShutdownMoves
<1>11. ASSUME NEW p \in Proc, NEW a \in Actors, TakeLockMoves(p, a)
      PROVE  BeforeFork'
    BY <1>11 DEF TakeLockMoves
<1>12. ASSUME NEW p \in Proc, NEW a \in Actors, TakeBatchMoves(p, a)
      PROVE  BeforeFork'
    BY <1>12 DEF TakeBatchMoves
<1>13. ASSUME NEW p \in Proc, NEW a \in Actors, SendMoves(p, a)
      PROVE  BeforeFork'
    BY <1>13 DEF SendMoves
<1>14. ASSUME NEW p \in Proc, NEW a \in Actors, BatchDoneMoves(p, a)
      PROVE  BeforeFork'
    BY <1>14 DEF BatchDoneMoves
<1>15. ASSUME NEW p \in Proc, FlusherEndsMoves(p)
      PROVE  BeforeFork'
    BY <1>15 DEF FlusherEndsMoves, OnlyPc
<1>16. ASSUME NEW t \in Threads, OsForkMoves(t)
      PROVE  BeforeFork'
    BY <1>16 DEF OsForkMoves
<1>17. ASSUME UNCHANGED vars
      PROVE  BeforeFork'
    BY <1>17 DEF vars
<1>18. QED
    BY ForkCases, <1>1, <1>2, <1>3, <1>4, <1>5, <1>6, <1>7, <1>8, <1>9, <1>10,
       <1>11, <1>12, <1>13, <1>14, <1>15, <1>16, <1>17

\* A buffer is installed by the thread that holds the lock of _runtime.
LEMMA InstallationStep ==
    ASSUME ForkInv, [Next]_vars
    PROVE  Installation'
<1> USE ForkAssumption
        DEF ForkInv, Actors, Proc, BeforeFork, Unborn, Fresh, OnlyIn,
            Installation
<1>1. ASSUME NEW p \in Proc, NEW t \in Threads, EmitBeginMoves(p, t)
      PROVE  Installation'
    BY <1>1 DEF EmitBeginMoves, OnlyPc
<1>2. ASSUME NEW p \in Proc, NEW t \in Threads, SinkLockMoves(p, t)
      PROVE  Installation'
    BY <1>2 DEF SinkLockMoves
<1>3. ASSUME NEW p \in Proc, NEW t \in Threads, InstallBufferMoves(p, t)
      PROVE  Installation'
    BY <1>3 DEF InstallBufferMoves
<1>4. ASSUME NEW p \in Proc, NEW t \in Threads, SinkUnlockMoves(p, t)
      PROVE  Installation'
    <2>1. proc'[p].installed /\ proc'[p].built /\ proc'[p].sink \in Threads \cup {None}
        BY <1>4 DEF SinkUnlockMoves, Installation, Unbuilt, Unbuilt
    <2>2. \A b \in Actors : proc'[p].pc[b] \notin {"install", "publish"}
        BY <1>4 DEF SinkUnlockMoves, Installation
    <2>3. QED
        BY <1>4, <2>1, <2>2 DEF SinkUnlockMoves, Installation
<1>5. ASSUME NEW p \in Proc, NEW t \in Threads, AddLockMoves(p, t)
      PROVE  Installation'
    BY <1>5 DEF AddLockMoves
<1>6. ASSUME NEW p \in Proc, NEW t \in Threads, AddAppendMoves(p, t)
      PROVE  Installation'
    BY <1>6 DEF AddAppendMoves
<1>7. ASSUME NEW p \in Proc, NEW t \in Threads, FlushOnceMoves(p, t)
      PROVE  Installation'
    <2>1. proc'[p].installed /\ proc'[p].built /\ proc'[p].sink \in Threads \cup {None}
        BY <1>7 DEF FlushOnceMoves, Installation, OnlyPc
    <2>2. \A b \in Actors : proc'[p].pc[b] \notin {"install", "publish"}
        BY <1>7 DEF FlushOnceMoves, Installation, OnlyPc
    <2>3. QED
        BY <1>7, <2>1, <2>2 DEF FlushOnceMoves, Installation, OnlyPc
<1>8. ASSUME NEW p \in Proc, NEW t \in Threads, DrainEndsMoves(p, t)
      PROVE  Installation'
    BY <1>8 DEF DrainEndsMoves, OnlyPc
<1>9. ASSUME NEW p \in Proc, NEW t \in Threads, WaitUntilIdleMoves(p, t)
      PROVE  Installation'
    BY <1>9 DEF WaitUntilIdleMoves, OnlyPc
<1>10. ASSUME NEW p \in Proc, NEW t \in Threads, ShutdownMoves(p, t)
      PROVE  Installation'
    <2>1. proc'[p].installed /\ proc'[p].built /\ proc'[p].sink \in Threads \cup {None}
        BY <1>10 DEF ShutdownMoves, Installation
    <2>2. \A b \in Actors : proc'[p].pc[b] \notin {"install", "publish"}
        BY <1>10 DEF ShutdownMoves, Installation
    <2>3. QED
        BY <1>10, <2>1, <2>2 DEF ShutdownMoves, Installation
<1>11. ASSUME NEW p \in Proc, NEW a \in Actors, TakeLockMoves(p, a)
      PROVE  Installation'
    BY <1>11 DEF TakeLockMoves
<1>12. ASSUME NEW p \in Proc, NEW a \in Actors, TakeBatchMoves(p, a)
      PROVE  Installation'
    BY <1>12 DEF TakeBatchMoves
<1>13. ASSUME NEW p \in Proc, NEW a \in Actors, SendMoves(p, a)
      PROVE  Installation'
    BY <1>13 DEF SendMoves
<1>14. ASSUME NEW p \in Proc, NEW a \in Actors, BatchDoneMoves(p, a)
      PROVE  Installation'
    BY <1>14 DEF BatchDoneMoves
<1>15. ASSUME NEW p \in Proc, FlusherEndsMoves(p)
      PROVE  Installation'
    BY <1>15 DEF FlusherEndsMoves, OnlyPc
<1>16. ASSUME NEW t \in Threads, OsForkMoves(t)
      PROVE  Installation'
    BY <1>16 DEF OsForkMoves
<1>17. ASSUME UNCHANGED vars
      PROVE  Installation'
    BY <1>17 DEF vars
<1>18. QED
    BY ForkCases, <1>1, <1>2, <1>3, <1>4, <1>5, <1>6, <1>7, <1>8, <1>9, <1>10,
       <1>11, <1>12, <1>13, <1>14, <1>15, <1>16, <1>17

\* Nobody uses a buffer that does not exist.
LEMMA UnbuiltStep ==
    ASSUME ForkInv, [Next]_vars
    PROVE  Unbuilt'
<1> USE ForkAssumption
        DEF ForkInv, Actors, Proc, BeforeFork, Unborn, Fresh, OnlyIn,
            Installation, Unbuilt
<1>1. ASSUME NEW p \in Proc, NEW t \in Threads, EmitBeginMoves(p, t)
      PROVE  Unbuilt'
    BY <1>1 DEF EmitBeginMoves, OnlyPc
<1>2. ASSUME NEW p \in Proc, NEW t \in Threads, SinkLockMoves(p, t)
      PROVE  Unbuilt'
    BY <1>2 DEF SinkLockMoves
<1>3. ASSUME NEW p \in Proc, NEW t \in Threads, InstallBufferMoves(p, t)
      PROVE  Unbuilt'
    BY <1>3 DEF InstallBufferMoves
<1>4. ASSUME NEW p \in Proc, NEW t \in Threads, SinkUnlockMoves(p, t)
      PROVE  Unbuilt'
    BY <1>4 DEF SinkUnlockMoves
<1>5. ASSUME NEW p \in Proc, NEW t \in Threads, AddLockMoves(p, t)
      PROVE  Unbuilt'
    BY <1>5 DEF AddLockMoves
<1>6. ASSUME NEW p \in Proc, NEW t \in Threads, AddAppendMoves(p, t)
      PROVE  Unbuilt'
    BY <1>6 DEF AddAppendMoves
<1>7. ASSUME NEW p \in Proc, NEW t \in Threads, FlushOnceMoves(p, t)
      PROVE  Unbuilt'
    BY <1>7 DEF FlushOnceMoves, OnlyPc
<1>8. ASSUME NEW p \in Proc, NEW t \in Threads, DrainEndsMoves(p, t)
      PROVE  Unbuilt'
    BY <1>8 DEF DrainEndsMoves, OnlyPc
<1>9. ASSUME NEW p \in Proc, NEW t \in Threads, WaitUntilIdleMoves(p, t)
      PROVE  Unbuilt'
    BY <1>9 DEF WaitUntilIdleMoves, OnlyPc
<1>10. ASSUME NEW p \in Proc, NEW t \in Threads, ShutdownMoves(p, t)
      PROVE  Unbuilt'
    BY <1>10 DEF ShutdownMoves
<1>11. ASSUME NEW p \in Proc, NEW a \in Actors, TakeLockMoves(p, a)
      PROVE  Unbuilt'
    BY <1>11 DEF TakeLockMoves
<1>12. ASSUME NEW p \in Proc, NEW a \in Actors, TakeBatchMoves(p, a)
      PROVE  Unbuilt'
    BY <1>12 DEF TakeBatchMoves
<1>13. ASSUME NEW p \in Proc, NEW a \in Actors, SendMoves(p, a)
      PROVE  Unbuilt'
    BY <1>13 DEF SendMoves
<1>14. ASSUME NEW p \in Proc, NEW a \in Actors, BatchDoneMoves(p, a)
      PROVE  Unbuilt'
    BY <1>14 DEF BatchDoneMoves
<1>15. ASSUME NEW p \in Proc, FlusherEndsMoves(p)
      PROVE  Unbuilt'
    BY <1>15 DEF FlusherEndsMoves, OnlyPc
<1>16. ASSUME NEW t \in Threads, OsForkMoves(t)
      PROVE  Unbuilt'
    BY <1>16 DEF OsForkMoves
<1>17. ASSUME UNCHANGED vars
      PROVE  Unbuilt'
    BY <1>17 DEF vars
<1>18. QED
    BY ForkCases, <1>1, <1>2, <1>3, <1>4, <1>5, <1>6, <1>7, <1>8, <1>9, <1>10,
       <1>11, <1>12, <1>13, <1>14, <1>15, <1>16, <1>17

\* The flush thread emits nothing.
LEMMA FlusherStep ==
    ASSUME ForkInv, [Next]_vars
    PROVE  FlusherFlushes'
<1> USE ForkAssumption
        DEF ForkInv, Actors, Proc, BeforeFork, Unborn, Fresh, OnlyIn,
            FlusherFlushes
<1>1. ASSUME NEW p \in Proc, NEW t \in Threads, EmitBeginMoves(p, t)
      PROVE  FlusherFlushes'
    BY <1>1 DEF EmitBeginMoves, OnlyPc
<1>2. ASSUME NEW p \in Proc, NEW t \in Threads, SinkLockMoves(p, t)
      PROVE  FlusherFlushes'
    BY <1>2 DEF SinkLockMoves
<1>3. ASSUME NEW p \in Proc, NEW t \in Threads, InstallBufferMoves(p, t)
      PROVE  FlusherFlushes'
    BY <1>3 DEF InstallBufferMoves
<1>4. ASSUME NEW p \in Proc, NEW t \in Threads, SinkUnlockMoves(p, t)
      PROVE  FlusherFlushes'
    BY <1>4 DEF SinkUnlockMoves
<1>5. ASSUME NEW p \in Proc, NEW t \in Threads, AddLockMoves(p, t)
      PROVE  FlusherFlushes'
    BY <1>5 DEF AddLockMoves
<1>6. ASSUME NEW p \in Proc, NEW t \in Threads, AddAppendMoves(p, t)
      PROVE  FlusherFlushes'
    BY <1>6 DEF AddAppendMoves
<1>7. ASSUME NEW p \in Proc, NEW t \in Threads, FlushOnceMoves(p, t)
      PROVE  FlusherFlushes'
    BY <1>7 DEF FlushOnceMoves, OnlyPc
<1>8. ASSUME NEW p \in Proc, NEW t \in Threads, DrainEndsMoves(p, t)
      PROVE  FlusherFlushes'
    BY <1>8 DEF DrainEndsMoves, OnlyPc
<1>9. ASSUME NEW p \in Proc, NEW t \in Threads, WaitUntilIdleMoves(p, t)
      PROVE  FlusherFlushes'
    BY <1>9 DEF WaitUntilIdleMoves, OnlyPc
<1>10. ASSUME NEW p \in Proc, NEW t \in Threads, ShutdownMoves(p, t)
      PROVE  FlusherFlushes'
    BY <1>10 DEF ShutdownMoves
<1>11. ASSUME NEW p \in Proc, NEW a \in Actors, TakeLockMoves(p, a)
      PROVE  FlusherFlushes'
    BY <1>11 DEF TakeLockMoves
<1>12. ASSUME NEW p \in Proc, NEW a \in Actors, TakeBatchMoves(p, a)
      PROVE  FlusherFlushes'
    BY <1>12 DEF TakeBatchMoves
<1>13. ASSUME NEW p \in Proc, NEW a \in Actors, SendMoves(p, a)
      PROVE  FlusherFlushes'
    BY <1>13 DEF SendMoves
<1>14. ASSUME NEW p \in Proc, NEW a \in Actors, BatchDoneMoves(p, a)
      PROVE  FlusherFlushes'
    BY <1>14 DEF BatchDoneMoves
<1>15. ASSUME NEW p \in Proc, FlusherEndsMoves(p)
      PROVE  FlusherFlushes'
    BY <1>15 DEF FlusherEndsMoves, OnlyPc
<1>16. ASSUME NEW t \in Threads, OsForkMoves(t)
      PROVE  FlusherFlushes'
    BY <1>16 DEF OsForkMoves
<1>17. ASSUME UNCHANGED vars
      PROVE  FlusherFlushes'
    BY <1>17 DEF vars
<1>18. QED
    BY ForkCases, <1>1, <1>2, <1>3, <1>4, <1>5, <1>6, <1>7, <1>8, <1>9, <1>10,
       <1>11, <1>12, <1>13, <1>14, <1>15, <1>16, <1>17

\* A thread keeps the buffer's lock while it appends or takes.
LEMMA LockHeldStep ==
    ASSUME ForkInv, [Next]_vars
    PROVE  LockHeld'
<1> USE ForkAssumption
        DEF ForkInv, Actors, Proc, BeforeFork, Unborn, Fresh, OnlyIn, LockHeld,
            LockReleased
<1>1. ASSUME NEW p \in Proc, NEW t \in Threads, EmitBeginMoves(p, t)
      PROVE  LockHeld'
    BY <1>1 DEF EmitBeginMoves, OnlyPc
<1>2. ASSUME NEW p \in Proc, NEW t \in Threads, SinkLockMoves(p, t)
      PROVE  LockHeld'
    BY <1>2 DEF SinkLockMoves
<1>3. ASSUME NEW p \in Proc, NEW t \in Threads, InstallBufferMoves(p, t)
      PROVE  LockHeld'
    BY <1>3 DEF InstallBufferMoves
<1>4. ASSUME NEW p \in Proc, NEW t \in Threads, SinkUnlockMoves(p, t)
      PROVE  LockHeld'
    BY <1>4 DEF SinkUnlockMoves
<1>5. ASSUME NEW p \in Proc, NEW t \in Threads, AddLockMoves(p, t)
      PROVE  LockHeld'
    BY <1>5 DEF AddLockMoves
<1>6. ASSUME NEW p \in Proc, NEW t \in Threads, AddAppendMoves(p, t)
      PROVE  LockHeld'
    BY <1>6 DEF AddAppendMoves
<1>7. ASSUME NEW p \in Proc, NEW t \in Threads, FlushOnceMoves(p, t)
      PROVE  LockHeld'
    BY <1>7 DEF FlushOnceMoves, OnlyPc
<1>8. ASSUME NEW p \in Proc, NEW t \in Threads, DrainEndsMoves(p, t)
      PROVE  LockHeld'
    BY <1>8 DEF DrainEndsMoves, OnlyPc
<1>9. ASSUME NEW p \in Proc, NEW t \in Threads, WaitUntilIdleMoves(p, t)
      PROVE  LockHeld'
    BY <1>9 DEF WaitUntilIdleMoves, OnlyPc
<1>10. ASSUME NEW p \in Proc, NEW t \in Threads, ShutdownMoves(p, t)
      PROVE  LockHeld'
    BY <1>10 DEF ShutdownMoves
<1>11. ASSUME NEW p \in Proc, NEW a \in Actors, TakeLockMoves(p, a)
      PROVE  LockHeld'
    BY <1>11 DEF TakeLockMoves
<1>12. ASSUME NEW p \in Proc, NEW a \in Actors, TakeBatchMoves(p, a)
      PROVE  LockHeld'
    BY <1>12 DEF TakeBatchMoves
<1>13. ASSUME NEW p \in Proc, NEW a \in Actors, SendMoves(p, a)
      PROVE  LockHeld'
    BY <1>13 DEF SendMoves
<1>14. ASSUME NEW p \in Proc, NEW a \in Actors, BatchDoneMoves(p, a)
      PROVE  LockHeld'
    BY <1>14 DEF BatchDoneMoves
<1>15. ASSUME NEW p \in Proc, FlusherEndsMoves(p)
      PROVE  LockHeld'
    BY <1>15 DEF FlusherEndsMoves, OnlyPc
<1>16. ASSUME NEW t \in Threads, OsForkMoves(t)
      PROVE  LockHeld'
    BY <1>16 DEF OsForkMoves
<1>17. ASSUME UNCHANGED vars
      PROVE  LockHeld'
    BY <1>17 DEF vars
<1>18. QED
    BY ForkCases, <1>1, <1>2, <1>3, <1>4, <1>5, <1>6, <1>7, <1>8, <1>9, <1>10,
       <1>11, <1>12, <1>13, <1>14, <1>15, <1>16, <1>17

\* Only a thread of the process that appends or takes holds its lock.
LEMMA LockReleasedStep ==
    ASSUME ForkInv, [Next]_vars
    PROVE  LockReleased'
<1> USE ForkAssumption
        DEF ForkInv, Actors, Proc, BeforeFork, Unborn, Fresh, OnlyIn, LockHeld,
            LockReleased, Installation
<1>1. ASSUME NEW p \in Proc, NEW t \in Threads, EmitBeginMoves(p, t)
      PROVE  LockReleased'
    BY <1>1 DEF EmitBeginMoves, OnlyPc
<1>2. ASSUME NEW p \in Proc, NEW t \in Threads, SinkLockMoves(p, t)
      PROVE  LockReleased'
    BY <1>2 DEF SinkLockMoves
<1>3. ASSUME NEW p \in Proc, NEW t \in Threads, InstallBufferMoves(p, t)
      PROVE  LockReleased'
    BY <1>3 DEF InstallBufferMoves, Unbuilt
<1>4. ASSUME NEW p \in Proc, NEW t \in Threads, SinkUnlockMoves(p, t)
      PROVE  LockReleased'
    BY <1>4 DEF SinkUnlockMoves
<1>5. ASSUME NEW p \in Proc, NEW t \in Threads, AddLockMoves(p, t)
      PROVE  LockReleased'
    BY <1>5 DEF AddLockMoves
<1>6. ASSUME NEW p \in Proc, NEW t \in Threads, AddAppendMoves(p, t)
      PROVE  LockReleased'
    BY <1>6 DEF AddAppendMoves
<1>7. ASSUME NEW p \in Proc, NEW t \in Threads, FlushOnceMoves(p, t)
      PROVE  LockReleased'
    BY <1>7 DEF FlushOnceMoves, OnlyPc
<1>8. ASSUME NEW p \in Proc, NEW t \in Threads, DrainEndsMoves(p, t)
      PROVE  LockReleased'
    BY <1>8 DEF DrainEndsMoves, OnlyPc
<1>9. ASSUME NEW p \in Proc, NEW t \in Threads, WaitUntilIdleMoves(p, t)
      PROVE  LockReleased'
    BY <1>9 DEF WaitUntilIdleMoves, OnlyPc
<1>10. ASSUME NEW p \in Proc, NEW t \in Threads, ShutdownMoves(p, t)
      PROVE  LockReleased'
    BY <1>10 DEF ShutdownMoves
<1>11. ASSUME NEW p \in Proc, NEW a \in Actors, TakeLockMoves(p, a)
      PROVE  LockReleased'
    BY <1>11 DEF TakeLockMoves
<1>12. ASSUME NEW p \in Proc, NEW a \in Actors, TakeBatchMoves(p, a)
      PROVE  LockReleased'
    BY <1>12 DEF TakeBatchMoves
<1>13. ASSUME NEW p \in Proc, NEW a \in Actors, SendMoves(p, a)
      PROVE  LockReleased'
    BY <1>13 DEF SendMoves
<1>14. ASSUME NEW p \in Proc, NEW a \in Actors, BatchDoneMoves(p, a)
      PROVE  LockReleased'
    BY <1>14 DEF BatchDoneMoves
<1>15. ASSUME NEW p \in Proc, FlusherEndsMoves(p)
      PROVE  LockReleased'
    BY <1>15 DEF FlusherEndsMoves, OnlyPc
<1>16. ASSUME NEW t \in Threads, OsForkMoves(t)
      PROVE  LockReleased'
    BY <1>16 DEF OsForkMoves
<1>17. ASSUME UNCHANGED vars
      PROVE  LockReleased'
    BY <1>17 DEF vars
<1>18. QED
    BY ForkCases, <1>1, <1>2, <1>3, <1>4, <1>5, <1>6, <1>7, <1>8, <1>9, <1>10,
       <1>11, <1>12, <1>13, <1>14, <1>15, <1>16, <1>17

\* Batches are with the threads that send them.
LEMMA BatchesStep ==
    ASSUME ForkInv, [Next]_vars
    PROVE  BatchesAreSent'
<1> USE ForkAssumption
        DEF ForkInv, Actors, Proc, BeforeFork, Unborn, Fresh, OnlyIn,
            BatchesAreSent, Installation, Unbuilt
<1>1. ASSUME NEW p \in Proc, NEW t \in Threads, EmitBeginMoves(p, t)
      PROVE  BatchesAreSent'
    BY <1>1 DEF EmitBeginMoves, OnlyPc
<1>2. ASSUME NEW p \in Proc, NEW t \in Threads, SinkLockMoves(p, t)
      PROVE  BatchesAreSent'
    BY <1>2 DEF SinkLockMoves
<1>3. ASSUME NEW p \in Proc, NEW t \in Threads, InstallBufferMoves(p, t)
      PROVE  BatchesAreSent'
    BY <1>3 DEF InstallBufferMoves
<1>4. ASSUME NEW p \in Proc, NEW t \in Threads, SinkUnlockMoves(p, t)
      PROVE  BatchesAreSent'
    BY <1>4 DEF SinkUnlockMoves
<1>5. ASSUME NEW p \in Proc, NEW t \in Threads, AddLockMoves(p, t)
      PROVE  BatchesAreSent'
    BY <1>5 DEF AddLockMoves
<1>6. ASSUME NEW p \in Proc, NEW t \in Threads, AddAppendMoves(p, t)
      PROVE  BatchesAreSent'
    BY <1>6 DEF AddAppendMoves
<1>7. ASSUME NEW p \in Proc, NEW t \in Threads, FlushOnceMoves(p, t)
      PROVE  BatchesAreSent'
    BY <1>7 DEF FlushOnceMoves, OnlyPc
<1>8. ASSUME NEW p \in Proc, NEW t \in Threads, DrainEndsMoves(p, t)
      PROVE  BatchesAreSent'
    BY <1>8 DEF DrainEndsMoves, OnlyPc
<1>9. ASSUME NEW p \in Proc, NEW t \in Threads, WaitUntilIdleMoves(p, t)
      PROVE  BatchesAreSent'
    BY <1>9 DEF WaitUntilIdleMoves, OnlyPc
<1>10. ASSUME NEW p \in Proc, NEW t \in Threads, ShutdownMoves(p, t)
      PROVE  BatchesAreSent'
    BY <1>10 DEF ShutdownMoves
<1>11. ASSUME NEW p \in Proc, NEW a \in Actors, TakeLockMoves(p, a)
      PROVE  BatchesAreSent'
    BY <1>11 DEF TakeLockMoves
<1>12. ASSUME NEW p \in Proc, NEW a \in Actors, TakeBatchMoves(p, a)
      PROVE  BatchesAreSent'
    BY <1>12 DEF TakeBatchMoves
<1>13. ASSUME NEW p \in Proc, NEW a \in Actors, SendMoves(p, a)
      PROVE  BatchesAreSent'
    BY <1>13 DEF SendMoves
<1>14. ASSUME NEW p \in Proc, NEW a \in Actors, BatchDoneMoves(p, a)
      PROVE  BatchesAreSent'
    BY <1>14 DEF BatchDoneMoves
<1>15. ASSUME NEW p \in Proc, FlusherEndsMoves(p)
      PROVE  BatchesAreSent'
    BY <1>15 DEF FlusherEndsMoves, OnlyPc
<1>16. ASSUME NEW t \in Threads, OsForkMoves(t)
      PROVE  BatchesAreSent'
    BY <1>16 DEF OsForkMoves
<1>17. ASSUME UNCHANGED vars
      PROVE  BatchesAreSent'
    BY <1>17 DEF vars
<1>18. QED
    BY ForkCases, <1>1, <1>2, <1>3, <1>4, <1>5, <1>6, <1>7, <1>8, <1>9, <1>10,
       <1>11, <1>12, <1>13, <1>14, <1>15, <1>16, <1>17

\* in_flight is the number of threads of the process that send.
LEMMA InFlightStep ==
    ASSUME ForkInv, [Next]_vars
    PROVE  InFlightIsSenders'
<1> USE ForkAssumption
        DEF ForkInv, Actors, Proc, BeforeFork, Unborn, Fresh, OnlyIn
<1>1. ASSUME NEW p \in Proc, NEW t \in Threads, EmitBeginMoves(p, t)
      PROVE  InFlightIsSenders'
    <2>1. \A q \in Proc : Senders(q)' = Senders(q)
        BY <1>1 DEF EmitBeginMoves, Senders, OnlyPc
    <2>2. QED
        BY <1>1, <2>1 DEF EmitBeginMoves, InFlightIsSenders, OnlyPc
<1>2. ASSUME NEW p \in Proc, NEW t \in Threads, SinkLockMoves(p, t)
      PROVE  InFlightIsSenders'
    <2>1. \A q \in Proc : Senders(q)' = Senders(q)
        BY <1>2 DEF SinkLockMoves, Senders
    <2>2. QED
        BY <1>2, <2>1 DEF SinkLockMoves, InFlightIsSenders
<1>3. ASSUME NEW p \in Proc, NEW t \in Threads, InstallBufferMoves(p, t)
      PROVE  InFlightIsSenders'
    <2>1. \A q \in Proc : Senders(q)' = Senders(q)
        BY <1>3 DEF InstallBufferMoves, Senders, Installation, Unbuilt
    <2>2. QED
        BY <1>3, <2>1 DEF InstallBufferMoves, InFlightIsSenders
<1>4. ASSUME NEW p \in Proc, NEW t \in Threads, SinkUnlockMoves(p, t)
      PROVE  InFlightIsSenders'
    <2>1. \A q \in Proc : Senders(q)' = Senders(q)
        BY <1>4 DEF SinkUnlockMoves, Senders
    <2>2. QED
        BY <1>4, <2>1 DEF SinkUnlockMoves, InFlightIsSenders
<1>5. ASSUME NEW p \in Proc, NEW t \in Threads, AddLockMoves(p, t)
      PROVE  InFlightIsSenders'
    <2>1. \A q \in Proc : Senders(q)' = Senders(q)
        BY <1>5 DEF AddLockMoves, Senders
    <2>2. QED
        BY <1>5, <2>1 DEF AddLockMoves, InFlightIsSenders
<1>6. ASSUME NEW p \in Proc, NEW t \in Threads, AddAppendMoves(p, t)
      PROVE  InFlightIsSenders'
    <2>1. \A q \in Proc : Senders(q)' = Senders(q)
        BY <1>6 DEF AddAppendMoves, Senders
    <2>2. QED
        BY <1>6, <2>1 DEF AddAppendMoves, InFlightIsSenders
<1>7. ASSUME NEW p \in Proc, NEW t \in Threads, FlushOnceMoves(p, t)
      PROVE  InFlightIsSenders'
    <2>1. \A q \in Proc : Senders(q)' = Senders(q)
        BY <1>7 DEF FlushOnceMoves, Senders, OnlyPc
    <2>2. QED
        BY <1>7, <2>1 DEF FlushOnceMoves, InFlightIsSenders, OnlyPc
<1>8. ASSUME NEW p \in Proc, NEW t \in Threads, DrainEndsMoves(p, t)
      PROVE  InFlightIsSenders'
    <2>1. \A q \in Proc : Senders(q)' = Senders(q)
        BY <1>8 DEF DrainEndsMoves, Senders, OnlyPc
    <2>2. QED
        BY <1>8, <2>1 DEF DrainEndsMoves, InFlightIsSenders, OnlyPc
<1>9. ASSUME NEW p \in Proc, NEW t \in Threads, WaitUntilIdleMoves(p, t)
      PROVE  InFlightIsSenders'
    <2>1. \A q \in Proc : Senders(q)' = Senders(q)
        BY <1>9 DEF WaitUntilIdleMoves, Senders, OnlyPc
    <2>2. QED
        BY <1>9, <2>1 DEF WaitUntilIdleMoves, InFlightIsSenders, OnlyPc
<1>10. ASSUME NEW p \in Proc, NEW t \in Threads, ShutdownMoves(p, t)
      PROVE  InFlightIsSenders'
    <2>1. \A q \in Proc : Senders(q)' = Senders(q)
        BY <1>10 DEF ShutdownMoves, Senders
    <2>2. QED
        BY <1>10, <2>1 DEF ShutdownMoves, InFlightIsSenders
<1>11. ASSUME NEW p \in Proc, NEW a \in Actors, TakeLockMoves(p, a)
      PROVE  InFlightIsSenders'
    <2>1. \A q \in Proc : Senders(q)' = Senders(q)
        BY <1>11 DEF TakeLockMoves, Senders
    <2>2. QED
        BY <1>11, <2>1 DEF TakeLockMoves, InFlightIsSenders
<1>12. ASSUME NEW p \in Proc, NEW a \in Actors, TakeBatchMoves(p, a)
      PROVE  InFlightIsSenders'
    <2>1. \A q \in Proc \ {p} : Senders(q)' = Senders(q)
        BY <1>12 DEF TakeBatchMoves, Senders
    <2>2. Senders(p)' = Senders(p) \cup {a} /\ a \notin Senders(p)
        BY <1>12 DEF TakeBatchMoves, Senders
    <2>3. IsFiniteSet(Senders(p)') /\ Cardinality(Senders(p)') = Cardinality(Senders(p)) + 1
        <3>1. IsFiniteSet(Senders(p))
            BY DEF InFlightIsSenders
        <3>2. /\ IsFiniteSet(Senders(p) \cup {a})
              /\ Cardinality(Senders(p) \cup {a}) = Cardinality(Senders(p)) + 1
            BY <2>2, <3>1, FS_AddElement
        <3>3. QED
            BY <2>2, <3>2
    <2>4. QED
        BY <1>12, <2>1, <2>3 DEF TakeBatchMoves, InFlightIsSenders
<1>13. ASSUME NEW p \in Proc, NEW a \in Actors, SendMoves(p, a)
      PROVE  InFlightIsSenders'
    <2>1. \A q \in Proc : Senders(q)' = Senders(q)
        BY <1>13 DEF SendMoves, Senders
    <2>2. QED
        BY <1>13, <2>1 DEF SendMoves, InFlightIsSenders
<1>14. ASSUME NEW p \in Proc, NEW a \in Actors, BatchDoneMoves(p, a)
      PROVE  InFlightIsSenders'
    <2>1. \A q \in Proc \ {p} : Senders(q)' = Senders(q)
        BY <1>14 DEF BatchDoneMoves, Senders
    <2>2. Senders(p)' = Senders(p) \ {a} /\ a \in Senders(p)
        BY <1>14 DEF BatchDoneMoves, Senders
    <2>3. IsFiniteSet(Senders(p)') /\ Cardinality(Senders(p)') = Cardinality(Senders(p)) - 1
        BY <2>2, FS_RemoveElement DEF InFlightIsSenders
    <2>4. QED
        BY <1>14, <2>1, <2>3 DEF BatchDoneMoves, InFlightIsSenders
<1>15. ASSUME NEW p \in Proc, FlusherEndsMoves(p)
      PROVE  InFlightIsSenders'
    <2>1. \A q \in Proc : Senders(q)' = Senders(q)
        BY <1>15 DEF FlusherEndsMoves, Senders, OnlyPc
    <2>2. QED
        BY <1>15, <2>1 DEF FlusherEndsMoves, InFlightIsSenders, OnlyPc
<1>16. ASSUME NEW t \in Threads, OsForkMoves(t)
      PROVE  InFlightIsSenders'
    <2>1. Senders("parent")' = Senders("parent") /\ Senders("child")' = {}
        BY <1>16 DEF OsForkMoves, Senders
    <2>2. proc'["parent"].inFlight = proc["parent"].inFlight /\ proc'["child"].inFlight = 0
        BY <1>16 DEF OsForkMoves
    <2>3. IsFiniteSet(Senders("parent")) /\ proc["parent"].inFlight = Cardinality(Senders("parent"))
        BY DEF InFlightIsSenders
    <2>4. ASSUME NEW q \in Proc
          PROVE  (IsFiniteSet(Senders(q)) /\ proc[q].inFlight = Cardinality(Senders(q)))'
        <3>1. CASE q = "parent"
            BY <2>1, <2>2, <2>3, <3>1
        <3>2. CASE q = "child"
            BY <2>1, <2>2, <3>2, FS_EmptySet
        <3>3. QED
            BY <3>1, <3>2
    <2>5. QED
        BY <2>4 DEF InFlightIsSenders
<1>17. ASSUME UNCHANGED vars
      PROVE  InFlightIsSenders'
    <2>1. \A q \in Proc : Senders(q)' = Senders(q)
        BY <1>17 DEF vars, Senders
    <2>2. QED
        BY <1>17, <2>1 DEF vars, InFlightIsSenders
<1>18. QED
    BY ForkCases, <1>1, <1>2, <1>3, <1>4, <1>5, <1>6, <1>7, <1>8, <1>9, <1>10,
       <1>11, <1>12, <1>13, <1>14, <1>15, <1>16, <1>17

\* The bound on the calls leaves a number for every event.
LEMMA NumbersStep ==
    ASSUME ForkInv, [Next]_vars
    PROVE  NumbersSuffice'
<1> USE ForkAssumption
        DEF ForkInv, Actors, Proc, BeforeFork, Unborn, Fresh, OnlyIn
<1>1. ASSUME NEW p \in Proc, NEW t \in Threads, EmitBeginMoves(p, t)
      PROVE  NumbersSuffice'
    <2>1. Emitting' = Emitting \cup {<<p, t>>} /\ <<p, t>> \notin Emitting
        BY <1>1 DEF EmitBeginMoves, Emitting, OnlyPc
    <2>2. IsFiniteSet(Emitting') /\ Cardinality(Emitting') = Cardinality(Emitting) + 1
        BY <2>1, FS_AddElement DEF NumbersSuffice
    <2>3. calls \in Nat /\ Cardinality(Accepted) \in Nat /\ Cardinality(Emitting) \in Nat
        BY FS_CardinalityType DEF TypeOK, NumbersSuffice
    <2>4. Accepted' = Accepted /\ calls' = calls + 1
        BY <1>1 DEF EmitBeginMoves, Accepted
    <2>5. QED
        BY <2>2, <2>3, <2>4 DEF NumbersSuffice
<1>2. ASSUME NEW p \in Proc, NEW t \in Threads, SinkLockMoves(p, t)
      PROVE  NumbersSuffice'
    <2>1. Emitting' = Emitting
        BY <1>2 DEF SinkLockMoves, Emitting
    <2>2. QED
        BY <1>2, <2>1 DEF SinkLockMoves, NumbersSuffice, Accepted
<1>3. ASSUME NEW p \in Proc, NEW t \in Threads, InstallBufferMoves(p, t)
      PROVE  NumbersSuffice'
    <2>1. proc[p].pc[Flusher] \in {"absent", "idle", "sink", "install"}
        BY <1>3 DEF InstallBufferMoves, Installation, Unbuilt
    <2>2. proc[p].pc[Flusher] \notin {"sink", "install"}
        BY <1>3 DEF InstallBufferMoves, FlusherFlushes
    <2>3. Emitting' = Emitting
        BY <1>3, <2>1, <2>2 DEF InstallBufferMoves, Emitting
    <2>4. QED
        BY <1>3, <2>3 DEF InstallBufferMoves, NumbersSuffice, Accepted
<1>4. ASSUME NEW p \in Proc, NEW t \in Threads, SinkUnlockMoves(p, t)
      PROVE  NumbersSuffice'
    <2>1. Emitting' = Emitting
        BY <1>4 DEF SinkUnlockMoves, Emitting
    <2>2. QED
        BY <1>4, <2>1 DEF SinkUnlockMoves, NumbersSuffice, Accepted
<1>5. ASSUME NEW p \in Proc, NEW t \in Threads, AddLockMoves(p, t)
      PROVE  NumbersSuffice'
    <2>1. Emitting' = Emitting
        BY <1>5 DEF AddLockMoves, Emitting
    <2>2. QED
        BY <1>5, <2>1 DEF AddLockMoves, NumbersSuffice, Accepted
<1>6. ASSUME NEW p \in Proc, NEW t \in Threads, AddAppendMoves(p, t)
      PROVE  NumbersSuffice'
    <2>1. Emitting' = Emitting \ {<<p, t>>} /\ <<p, t>> \in Emitting
        BY <1>6 DEF AddAppendMoves, Emitting
    <2>2. IsFiniteSet(Emitting') /\ Cardinality(Emitting') = Cardinality(Emitting) - 1
        BY <2>1, FS_RemoveElement DEF NumbersSuffice
    <2>3. calls \in Nat /\ Cardinality(Accepted) \in Nat /\ Cardinality(Emitting) \in Nat
        BY FS_CardinalityType DEF TypeOK, NumbersSuffice
    <2>4. calls' = calls
        BY <1>6 DEF AddAppendMoves
    <2>5. CASE proc[p].shutdown
        <3>1. Accepted' = Accepted
            BY <1>6, <2>5 DEF AddAppendMoves, Accepted
        <3>2. QED
            BY <2>2, <2>3, <2>4, <3>1 DEF NumbersSuffice
    <2>6. CASE ~proc[p].shutdown
        <3> DEFINE n == Cardinality(Accepted)
        <3>1. Accepted' = Accepted \cup {n + 1}
            BY <1>6, <2>6 DEF AddAppendMoves, Accepted, TypeOK
        <3>2. n + 1 \notin Accepted /\ Accepted \cup {n + 1} = 1..(n + 1)
            BY <2>3 DEF NumbersSuffice
        <3>3. IsFiniteSet(Accepted') /\ Cardinality(Accepted') = n + 1
            BY <3>1, <3>2, FS_AddElement DEF NumbersSuffice
        <3>4. QED
            <4>1. Accepted' = 1..Cardinality(Accepted')
                BY <3>1, <3>2, <3>3
            <4>2. Cardinality(Accepted') + Cardinality(Emitting') <= calls'
                BY <2>2, <2>3, <2>4, <3>3 DEF NumbersSuffice
            <4>3. QED
                BY <2>2, <3>3, <4>1, <4>2 DEF NumbersSuffice
    <2>7. QED
        BY <2>5, <2>6
<1>7. ASSUME NEW p \in Proc, NEW t \in Threads, FlushOnceMoves(p, t)
      PROVE  NumbersSuffice'
    <2>1. Emitting' = Emitting
        BY <1>7 DEF FlushOnceMoves, Emitting, OnlyPc
    <2>2. calls \in Nat /\ Cardinality(Accepted) \in Nat /\ Cardinality(Emitting) \in Nat
        BY FS_CardinalityType DEF TypeOK, NumbersSuffice
    <2>3. Accepted' = Accepted /\ calls' = calls + 1
        BY <1>7 DEF FlushOnceMoves, Accepted
    <2>4. QED
        BY <2>1, <2>2, <2>3 DEF NumbersSuffice
<1>8. ASSUME NEW p \in Proc, NEW t \in Threads, DrainEndsMoves(p, t)
      PROVE  NumbersSuffice'
    <2>1. Emitting' = Emitting
        BY <1>8 DEF DrainEndsMoves, Emitting, OnlyPc
    <2>2. QED
        BY <1>8, <2>1 DEF DrainEndsMoves, NumbersSuffice, Accepted, OnlyPc
<1>9. ASSUME NEW p \in Proc, NEW t \in Threads, WaitUntilIdleMoves(p, t)
      PROVE  NumbersSuffice'
    <2>1. Emitting' = Emitting
        BY <1>9 DEF WaitUntilIdleMoves, Emitting, OnlyPc
    <2>2. QED
        BY <1>9, <2>1 DEF WaitUntilIdleMoves, NumbersSuffice, Accepted, OnlyPc
<1>10. ASSUME NEW p \in Proc, NEW t \in Threads, ShutdownMoves(p, t)
      PROVE  NumbersSuffice'
    <2>1. Emitting' = Emitting
        BY <1>10 DEF ShutdownMoves, Emitting
    <2>2. QED
        BY <1>10, <2>1 DEF ShutdownMoves, NumbersSuffice, Accepted
<1>11. ASSUME NEW p \in Proc, NEW a \in Actors, TakeLockMoves(p, a)
      PROVE  NumbersSuffice'
    <2>1. Emitting' = Emitting
        BY <1>11 DEF TakeLockMoves, Emitting
    <2>2. QED
        BY <1>11, <2>1 DEF TakeLockMoves, NumbersSuffice, Accepted
<1>12. ASSUME NEW p \in Proc, NEW a \in Actors, TakeBatchMoves(p, a)
      PROVE  NumbersSuffice'
    <2>1. Emitting' = Emitting
        BY <1>12 DEF TakeBatchMoves, Emitting
    <2>2. QED
        BY <1>12, <2>1 DEF TakeBatchMoves, NumbersSuffice, Accepted
<1>13. ASSUME NEW p \in Proc, NEW a \in Actors, SendMoves(p, a)
      PROVE  NumbersSuffice'
    <2>1. Emitting' = Emitting
        BY <1>13 DEF SendMoves, Emitting
    <2>2. QED
        BY <1>13, <2>1 DEF SendMoves, NumbersSuffice, Accepted
<1>14. ASSUME NEW p \in Proc, NEW a \in Actors, BatchDoneMoves(p, a)
      PROVE  NumbersSuffice'
    <2>1. Emitting' = Emitting
        BY <1>14 DEF BatchDoneMoves, Emitting
    <2>2. QED
        BY <1>14, <2>1 DEF BatchDoneMoves, NumbersSuffice, Accepted
<1>15. ASSUME NEW p \in Proc, FlusherEndsMoves(p)
      PROVE  NumbersSuffice'
    <2>1. Emitting' = Emitting
        BY <1>15 DEF FlusherEndsMoves, Emitting, OnlyPc
    <2>2. QED
        BY <1>15, <2>1 DEF FlusherEndsMoves, NumbersSuffice, Accepted, OnlyPc
<1>16. ASSUME NEW t \in Threads, OsForkMoves(t)
      PROVE  NumbersSuffice'
    <2>1. Emitting' = Emitting
        BY <1>16 DEF OsForkMoves, Emitting
    <2>2. QED
        BY <1>16, <2>1 DEF OsForkMoves, NumbersSuffice, Accepted
<1>17. ASSUME UNCHANGED vars
      PROVE  NumbersSuffice'
    <2>1. Emitting' = Emitting
        BY <1>17 DEF vars, Emitting
    <2>2. QED
        BY <1>17, <2>1 DEF vars, NumbersSuffice, Accepted
<1>18. QED
    BY ForkCases, <1>1, <1>2, <1>3, <1>4, <1>5, <1>6, <1>7, <1>8, <1>9, <1>10,
       <1>11, <1>12, <1>13, <1>14, <1>15, <1>16, <1>17

\* The number of the next event is a number of an event, and a new one.
LEMMA NextNumber ==
    ASSUME ForkInv, NEW p \in Proc, NEW t \in Threads, proc[p].pc[t] = "append"
    PROVE  Cardinality(Accepted) + 1 \in Event \ Accepted
<1>1. Emitting # {}
    <2>1. <<p, t>> \in Emitting
        BY DEF Emitting, Actors
    <2>2. QED
        BY <2>1
<1>2. Cardinality(Emitting) \in Nat \ {0} /\ Cardinality(Accepted) \in Nat
    BY <1>1, FS_CardinalityType, FS_EmptySet DEF ForkInv, NumbersSuffice
<1>3. QED
    BY <1>2, ForkAssumption DEF ForkInv, NumbersSuffice, TypeOK, Event

-----------------------------------------------------------------------------
(* Queues.                                                                 *)

\* The smaller of two numbers.
LEMMA MinOfTwo ==
    ASSUME NEW m \in Nat, NEW n \in Nat
    PROVE  Min({m, n}) = IF m <= n THEN m ELSE n
<1> DEFINE k == IF m <= n THEN m ELSE n
<1>1. k \in {m, n} /\ \A y \in {m, n} : k <= y
    OBVIOUS
<1>2. \A x \in {m, n} : (\A y \in {m, n} : x <= y) => x = k
    OBVIOUS
<1>3. QED
    BY <1>1, <1>2 DEF Min

\* The members of a queue are what stands at its indices.
LEMMA RangeMembers ==
    ASSUME NEW s \in Seq(Event)
    PROVE  \A x : x \in Range(s) <=> \E i \in 1..Len(s) : x = s[i]
BY DEF Range

\* Nothing is in an empty queue.
LEMMA EmptyRange == Range(<<>>) = {}
BY DEF Range

\* A new event behind the others.
LEMMA AppendSeparates ==
    ASSUME NEW s \in Seq(Event), IsInjective(s), NEW e \in Event, e \notin Range(s)
    PROVE  /\ IsInjective(Append(s, e))
           /\ Range(Append(s, e)) = Range(s) \cup {e}
<1> DEFINE r == Append(s, e)
<1>1. /\ r \in Seq(Event) /\ DOMAIN r = 1..(Len(s) + 1)
      /\ r[Len(s) + 1] = e
      /\ \A i \in 1..Len(s) : r[i] = s[i]
    OBVIOUS
<1>2. \A i \in 1..Len(s) : s[i] \in Range(s)
    BY RangeMembers
<1>3. IsInjective(r)
    <2>1. ASSUME NEW i \in 1..(Len(s) + 1), NEW j \in 1..(Len(s) + 1), r[i] = r[j]
          PROVE  i = j
        <3>1. CASE i \in 1..Len(s) /\ j \in 1..Len(s)
            BY <1>1, <2>1, <3>1 DEF IsInjective
        <3>2. CASE i = Len(s) + 1 \/ j = Len(s) + 1
            BY <1>1, <1>2, <2>1, <3>2
        <3>3. QED
            BY <3>1, <3>2
    <2>2. QED
        BY <1>1, <2>1 DEF IsInjective
<1>4. Range(r) = Range(s) \cup {e}
    <2>1. \A x : x \in Range(r) <=> \E i \in 1..(Len(s) + 1) : x = r[i]
        BY <1>1 DEF Range
    <2>2. \A x : x \in Range(s) <=> \E i \in 1..Len(s) : x = r[i]
        BY <1>1, RangeMembers
    <2>3. \A i : i \in 1..(Len(s) + 1) <=> i \in 1..Len(s) \/ i = Len(s) + 1
        OBVIOUS
    <2>4. \A x : x \in Range(r) <=> x \in Range(s) \/ x = e
        BY <1>1, <2>1, <2>2, <2>3
    <2>5. QED
        BY <2>4
<1>5. QED
    BY <1>3, <1>4

\* Cutting a queue in two separates its events.
LEMMA CutInjective ==
    ASSUME NEW s \in Seq(Event), IsInjective(s), NEW n \in 0..Len(s)
    PROVE  /\ SubSeq(s, 1, n) \in Seq(Event) /\ SubSeq(s, n + 1, Len(s)) \in Seq(Event)
           /\ IsInjective(SubSeq(s, n + 1, Len(s)))
           /\ Range(s) = Range(SubSeq(s, 1, n)) \cup Range(SubSeq(s, n + 1, Len(s)))
           /\ Range(SubSeq(s, 1, n)) \cap Range(SubSeq(s, n + 1, Len(s))) = {}
<1> DEFINE a == SubSeq(s, 1, n)
           b == SubSeq(s, n + 1, Len(s))
<1>1. /\ a \in Seq(Event) /\ Len(a) = n
      /\ b \in Seq(Event) /\ Len(b) = Len(s) - n
    OBVIOUS
<1>2. \A i \in 1..n : a[i] = s[i]
    BY <1>1
<1>3. \A i \in 1..(Len(s) - n) : b[i] = s[n + i]
    BY <1>1
<1> HIDE DEF a, b
<1>4. \A x : x \in Range(a) <=> \E i \in 1..n : x = s[i]
    BY <1>1, <1>2, RangeMembers
<1>5. \A x : x \in Range(b) <=> \E i \in (n + 1)..Len(s) : x = s[i]
    <2>1. \A i \in (n + 1)..Len(s) : i - n \in 1..(Len(s) - n) /\ b[i - n] = s[i]
        BY <1>3
    <2>2. \A i \in 1..(Len(s) - n) : n + i \in (n + 1)..Len(s)
        OBVIOUS
    <2>3. \A x : x \in Range(b) <=> \E i \in 1..(Len(s) - n) : x = b[i]
        BY <1>1, RangeMembers
    <2>4. ASSUME NEW x, x \in Range(b)
          PROVE  \E i \in (n + 1)..Len(s) : x = s[i]
        BY <1>3, <2>2, <2>3, <2>4
    <2>5. ASSUME NEW x, NEW i \in (n + 1)..Len(s), x = s[i]
          PROVE  x \in Range(b)
        BY <2>1, <2>3, <2>5
    <2>6. QED
        BY <2>4, <2>5
<1>6. Range(s) = Range(a) \cup Range(b)
    <2>1. \A i : i \in 1..Len(s) <=> i \in 1..n \/ i \in (n + 1)..Len(s)
        OBVIOUS
    <2>2. \A x : x \in Range(s) <=> \E i \in 1..Len(s) : x = s[i]
        BY RangeMembers
    <2>3. \A x : x \in Range(s) <=> x \in Range(a) \/ x \in Range(b)
        BY <1>4, <1>5, <2>1, <2>2
    <2>4. QED
        BY <2>3
<1>7. Range(a) \cap Range(b) = {}
    <2>1. ASSUME NEW i \in 1..n, NEW j \in (n + 1)..Len(s)
          PROVE  s[i] # s[j]
        BY DEF IsInjective
    <2>2. QED
        BY <1>4, <1>5, <2>1
<1>8. IsInjective(b)
    <2>1. ASSUME NEW i \in 1..(Len(s) - n), NEW j \in 1..(Len(s) - n), b[i] = b[j]
          PROVE  i = j
        <3>1. s[n + i] = s[n + j]
            BY <1>3, <2>1
        <3>2. n + i \in 1..Len(s) /\ n + j \in 1..Len(s)
            OBVIOUS
        <3>3. n + i = n + j
            BY <3>1, <3>2 DEF IsInjective
        <3>4. QED
            BY <3>3
    <2>2. DOMAIN b = 1..(Len(s) - n)
        BY <1>1
    <2>3. QED
        BY <2>1, <2>2 DEF IsInjective
<1>9. QED
    BY <1>1, <1>6, <1>7, <1>8 DEF a, b

-----------------------------------------------------------------------------
(* Types.                                                                  *)

\* A step is one of these actions, or none.
LEMMA ForkActions ==
    ASSUME [Next]_vars
    PROVE  \/ \E p \in Proc, t \in Threads :
                \/ EmitBegin(p, t) \/ SinkLock(p, t) \/ InstallBuffer(p, t)
                \/ SinkUnlock(p, t) \/ AddLock(p, t) \/ AddAppend(p, t)
                \/ FlushOnce(p, t) \/ DrainEnds(p, t) \/ WaitUntilIdle(p, t)
                \/ Shutdown(p, t)
           \/ \E p \in Proc, a \in Actors :
                TakeLock(p, a) \/ TakeBatch(p, a) \/ Send(p, a) \/ BatchDone(p, a)
           \/ \E p \in Proc : FlusherEnds(p)
           \/ \E t \in Threads : OsFork(t)
           \/ UNCHANGED vars
BY DEF Next, Emit, Flush, Drain

\* Writing a field of a process keeps it a process.
LEMMA Updates ==
    ASSUME NEW f \in [Proc -> Process], NEW p \in Proc
    PROVE  /\ \A a \in Actors \cup {None} :
                /\ [f EXCEPT ![p].sink = a] \in [Proc -> Process]
                /\ [f EXCEPT ![p].lock = a] \in [Proc -> Process]
           /\ \A v \in BOOLEAN :
                /\ [f EXCEPT ![p].built = v] \in [Proc -> Process]
                /\ [f EXCEPT ![p].installed = v] \in [Proc -> Process]
                /\ [f EXCEPT ![p].shutdown = v] \in [Proc -> Process]
           /\ \A s \in Seq(Event) :
                /\ [f EXCEPT ![p].queue = s] \in [Proc -> Process]
                /\ \A a \in Actors : [f EXCEPT ![p].batch[a] = s] \in [Proc -> Process]
           /\ \A n \in Nat : [f EXCEPT ![p].inFlight = n] \in [Proc -> Process]
           /\ \A a \in Actors, l \in Labels : [f EXCEPT ![p].pc[a] = l] \in [Proc -> Process]
<1>1. \A m \in Process : [f EXCEPT ![p] = m] \in [Proc -> Process]
    OBVIOUS
<1>2. f[p] \in Process
    OBVIOUS
<1>3. ASSUME NEW a \in Actors \cup {None}
      PROVE  /\ [f EXCEPT ![p].sink = a] \in [Proc -> Process]
             /\ [f EXCEPT ![p].lock = a] \in [Proc -> Process]
    BY <1>2 DEF Process
<1>4. ASSUME NEW v \in BOOLEAN
      PROVE  /\ [f EXCEPT ![p].built = v] \in [Proc -> Process]
             /\ [f EXCEPT ![p].installed = v] \in [Proc -> Process]
             /\ [f EXCEPT ![p].shutdown = v] \in [Proc -> Process]
    BY <1>2 DEF Process
<1>5. ASSUME NEW s \in Seq(Event)
      PROVE  /\ [f EXCEPT ![p].queue = s] \in [Proc -> Process]
             /\ \A a \in Actors : [f EXCEPT ![p].batch[a] = s] \in [Proc -> Process]
    <2>1. [f EXCEPT ![p].queue = s] \in [Proc -> Process]
        BY <1>2 DEF Process
    <2>2. ASSUME NEW a \in Actors
          PROVE  [f EXCEPT ![p].batch[a] = s] \in [Proc -> Process]
        BY <1>2 DEF Process
    <2>3. QED
        BY <2>1, <2>2
<1>6. ASSUME NEW n \in Nat
      PROVE  [f EXCEPT ![p].inFlight = n] \in [Proc -> Process]
    BY <1>2 DEF Process
<1>7. ASSUME NEW a \in Actors, NEW l \in Labels
      PROVE  [f EXCEPT ![p].pc[a] = l] \in [Proc -> Process]
    BY <1>2 DEF Process
<1>8. QED
    BY <1>3, <1>4, <1>5, <1>6, <1>7

\* Every step preserves the type of the state.
LEMMA TypingStep ==
    ASSUME ForkInv, TypeOK, [Next]_vars
    PROVE  TypeOK'
<1> USE ForkAssumption
        DEF TypeOK, Actors
<1>1. ASSUME NEW p \in Proc, NEW t \in Threads, EmitBegin(p, t)
      PROVE  TypeOK'
    <2>1. proc' \in [Proc -> Process]
        BY <1>1, Updates DEF EmitBegin, Labels
    <2>2. calls' \in 0..MaxCalls /\ UNCHANGED <<forked, accepted, handed>>
        BY <1>1 DEF EmitBegin
    <2>3. QED
        BY <2>1, <2>2
<1>2. ASSUME NEW p \in Proc, NEW t \in Threads, SinkLock(p, t)
      PROVE  TypeOK'
    <2>1. CASE proc[p].installed
        <3>1. proc' = [proc EXCEPT ![p].pc[t] = "add"]
            BY <1>2, <2>1 DEF SinkLock
        <3>2. proc' \in [Proc -> Process]
            BY <3>1, Updates DEF Labels
        <3>3. QED
            BY <1>2, <3>2 DEF SinkLock
    <2>2. CASE ~proc[p].installed
        <3> DEFINE m1 == [proc EXCEPT ![p].pc[t] = "install"]
        <3>1. m1 \in [Proc -> Process]
            BY Updates DEF Labels
        <3>2. proc' = [m1 EXCEPT ![p].sink = t]
            BY <1>2, <2>2 DEF SinkLock
        <3> HIDE DEF m1
        <3>3. proc' \in [Proc -> Process]
            BY <3>1, <3>2, Updates DEF Labels
        <3>4. QED
            BY <1>2, <3>3 DEF SinkLock
    <2>3. QED
        BY <2>1, <2>2
<1>3. ASSUME NEW p \in Proc, NEW t \in Threads, InstallBuffer(p, t)
      PROVE  TypeOK'
    <2> DEFINE m1 == [proc EXCEPT ![p].built = TRUE]
               m2 == [m1 EXCEPT ![p].pc[t] = "publish"]
    <2>1. m1 \in [Proc -> Process]
        BY Updates
    <2>2. m2 \in [Proc -> Process]
        BY <2>1, Updates DEF Labels
    <2>3. proc' = [m2 EXCEPT ![p].pc[Flusher] = "wait"]
        BY <1>3 DEF InstallBuffer
    <2> HIDE DEF m1, m2
    <2>4. proc' \in [Proc -> Process]
        BY <2>2, <2>3, Updates DEF Labels
    <2>5. UNCHANGED <<forked, calls, accepted, handed>>
        BY <1>3 DEF InstallBuffer
    <2>6. QED
        BY <2>4, <2>5
<1>4. ASSUME NEW p \in Proc, NEW t \in Threads, SinkUnlock(p, t)
      PROVE  TypeOK'
    <2> DEFINE m1 == [proc EXCEPT ![p].installed = TRUE]
               m2 == [m1 EXCEPT ![p].sink = None]
    <2>1. m1 \in [Proc -> Process]
        BY Updates
    <2>2. m2 \in [Proc -> Process]
        BY <2>1, Updates
    <2>3. proc' = [m2 EXCEPT ![p].pc[t] = "add"]
        BY <1>4 DEF SinkUnlock
    <2> HIDE DEF m1, m2
    <2>4. proc' \in [Proc -> Process]
        BY <2>2, <2>3, Updates DEF Labels
    <2>5. UNCHANGED <<forked, calls, accepted, handed>>
        BY <1>4 DEF SinkUnlock
    <2>6. QED
        BY <2>4, <2>5
<1>5. ASSUME NEW p \in Proc, NEW t \in Threads, AddLock(p, t)
      PROVE  TypeOK'
    <2> DEFINE m1 == [proc EXCEPT ![p].lock = t]
    <2>1. m1 \in [Proc -> Process]
        BY Updates
    <2>2. proc' = [m1 EXCEPT ![p].pc[t] = "append"]
        BY <1>5 DEF AddLock
    <2> HIDE DEF m1
    <2>3. proc' \in [Proc -> Process]
        BY <2>1, <2>2, Updates DEF Labels
    <2>4. UNCHANGED <<forked, calls, accepted, handed>>
        BY <1>5 DEF AddLock
    <2>5. QED
        BY <2>3, <2>4
<1>6. ASSUME NEW p \in Proc, NEW t \in Threads, AddAppend(p, t)
      PROVE  TypeOK'
    <2>1. CASE proc[p].shutdown
        <3> DEFINE m1 == [proc EXCEPT ![p].lock = None]
        <3>1. m1 \in [Proc -> Process]
            BY Updates
        <3>2. proc' = [m1 EXCEPT ![p].pc[t] = "idle"]
            BY <1>6, <2>1 DEF AddAppend
        <3> HIDE DEF m1
        <3>3. proc' \in [Proc -> Process]
            BY <3>1, <3>2, Updates DEF Labels
        <3>4. UNCHANGED <<forked, calls, accepted, handed>>
            BY <1>6, <2>1 DEF AddAppend
        <3>5. QED
            BY <3>3, <3>4
    <2>2. CASE ~proc[p].shutdown
        <3> DEFINE e == Cardinality(Accepted) + 1
                   s == Append(proc[p].queue, e)
                   m1 == [proc EXCEPT ![p].queue = s]
                   m2 == [m1 EXCEPT ![p].lock = None]
        <3>1. e \in Event
            BY <1>6, NextNumber DEF AddAppend, At
        <3>2. s \in Seq(Event)
            BY <3>1 DEF Process
        <3>3. m1 \in [Proc -> Process]
            BY <3>2, Updates
        <3>4. m2 \in [Proc -> Process]
            BY <3>3, Updates
        <3>5. /\ proc' = [m2 EXCEPT ![p].pc[t] = "idle"]
              /\ accepted' = [accepted EXCEPT ![p] = @ \cup {e}]
              /\ UNCHANGED <<forked, calls, handed>>
            BY <1>6, <2>2 DEF AddAppend
        <3> HIDE DEF e, m2
        <3>6. proc' \in [Proc -> Process]
            BY <3>4, <3>5, Updates DEF Labels
        <3>7. QED
            BY <3>1, <3>5, <3>6
    <2>3. QED
        BY <2>1, <2>2
<1>7. ASSUME NEW p \in Proc, NEW t \in Threads, FlushOnce(p, t)
      PROVE  TypeOK'
    <2>1. proc' \in [Proc -> Process]
        BY <1>7, Updates DEF FlushOnce, Labels
    <2>2. calls' \in 0..MaxCalls /\ UNCHANGED <<forked, accepted, handed>>
        BY <1>7 DEF FlushOnce
    <2>3. QED
        BY <2>1, <2>2
<1>8. ASSUME NEW p \in Proc, NEW t \in Threads, DrainEnds(p, t)
      PROVE  TypeOK'
    <2>1. proc' \in [Proc -> Process]
        BY <1>8, Updates DEF DrainEnds, Labels
    <2>2. UNCHANGED <<forked, calls, accepted, handed>>
        BY <1>8 DEF DrainEnds
    <2>3. QED
        BY <2>1, <2>2
<1>9. ASSUME NEW p \in Proc, NEW t \in Threads, WaitUntilIdle(p, t)
      PROVE  TypeOK'
    <2>1. proc' \in [Proc -> Process]
        BY <1>9, Updates DEF WaitUntilIdle, Labels
    <2>2. UNCHANGED <<forked, calls, accepted, handed>>
        BY <1>9 DEF WaitUntilIdle
    <2>3. QED
        BY <2>1, <2>2
<1>10. ASSUME NEW p \in Proc, NEW t \in Threads, Shutdown(p, t)
      PROVE  TypeOK'
    <2>1. proc' \in [Proc -> Process]
        BY <1>10, Updates DEF Shutdown, Labels
    <2>2. UNCHANGED <<forked, calls, accepted, handed>>
        BY <1>10 DEF Shutdown
    <2>3. QED
        BY <2>1, <2>2
<1>11. ASSUME NEW p \in Proc, NEW a \in Actors, TakeLock(p, a)
      PROVE  TypeOK'
    <2> DEFINE m1 == [proc EXCEPT ![p].lock = a]
    <2>1. m1 \in [Proc -> Process]
        BY Updates
    <2>2. proc' = [m1 EXCEPT ![p].pc[a] = "take"]
        BY <1>11 DEF TakeLock
    <2> HIDE DEF m1
    <2>3. proc' \in [Proc -> Process]
        BY <2>1, <2>2, Updates DEF Labels
    <2>4. UNCHANGED <<forked, calls, accepted, handed>>
        BY <1>11 DEF TakeLock
    <2>5. QED
        BY <2>3, <2>4
<1>12. ASSUME NEW p \in Proc, NEW a \in Actors, TakeBatch(p, a)
      PROVE  TypeOK'
    <2> DEFINE queue == proc[p].queue
               n == Min({FlushAt, Len(queue)})
               front == SubSeq(queue, 1, n)
               rest == SubSeq(queue, n + 1, Len(queue))
               m1 == [proc EXCEPT ![p].queue = rest]
               m2 == [m1 EXCEPT ![p].batch[a] = front]
               m3 == [m2 EXCEPT ![p].inFlight = @ + 1]
               m4 == [m3 EXCEPT ![p].lock = None]
    <2>1. queue \in Seq(Event)
        BY DEF Process
    <2>2. n \in 0..Len(queue)
        <3>1. Len(queue) \in Nat /\ FlushAt \in Nat
            BY <2>1, ForkAssumption
        <3>2. n = IF FlushAt <= Len(queue) THEN FlushAt ELSE Len(queue)
            BY <3>1, MinOfTwo
        <3> HIDE DEF n
        <3>3. QED
            BY <3>1, <3>2
    <2>3. front \in Seq(Event) /\ rest \in Seq(Event)
        <3> HIDE DEF queue, n
        <3>1. QED
            BY <2>1, <2>2
    <2>4. proc' = [m4 EXCEPT ![p].pc[a] = "send"]
        BY <1>12 DEF TakeBatch
    <2> HIDE DEF front, rest
    <2>5. m1 \in [Proc -> Process]
        BY <2>3, Updates
    <2> HIDE DEF m1
    <2>6. m2 \in [Proc -> Process]
        BY <2>3, <2>5, Updates
    <2> HIDE DEF m2
    <2>7. m3 \in [Proc -> Process]
        <3>1. m2[p].inFlight \in Nat
            BY <2>6 DEF Process
        <3>2. m2[p].inFlight + 1 \in Nat /\ m3 = [m2 EXCEPT ![p].inFlight = m2[p].inFlight + 1]
            BY <3>1
        <3>3. QED
            BY <2>6, <3>2, Updates
    <2> HIDE DEF m3
    <2>8. m4 \in [Proc -> Process]
        BY <2>7, Updates
    <2> HIDE DEF m4
    <2>9. proc' \in [Proc -> Process]
        BY <2>4, <2>8, Updates DEF Labels
    <2>10. UNCHANGED <<forked, calls, accepted, handed>>
        BY <1>12 DEF TakeBatch
    <2>11. QED
        BY <2>9, <2>10
<1>13. ASSUME NEW p \in Proc, NEW a \in Actors, Send(p, a)
      PROVE  TypeOK'
    <2> DEFINE m1 == [proc EXCEPT ![p].batch[a] = <<>>]
    <2>1. <<>> \in Seq(Event)
        OBVIOUS
    <2>2. m1 \in [Proc -> Process]
        BY <2>1, Updates
    <2>3. proc' = [m1 EXCEPT ![p].pc[a] = "sent"]
        BY <1>13 DEF Send
    <2> HIDE DEF m1
    <2>4. proc' \in [Proc -> Process]
        BY <2>2, <2>3, Updates DEF Labels
    <2>5. handed' \in [Event -> Nat] /\ UNCHANGED <<forked, calls, accepted>>
        BY <1>13 DEF Send
    <2>6. QED
        BY <2>4, <2>5
<1>14. ASSUME NEW p \in Proc, NEW a \in Actors, BatchDone(p, a)
      PROVE  TypeOK'
    <2> DEFINE m1 == [proc EXCEPT ![p].inFlight = @ - 1]
    <2>1. proc[p].inFlight - 1 \in Nat
        <3>1. a \in Senders(p)
            BY <1>14 DEF BatchDone, At, Senders
        <3>2. proc[p].inFlight # 0
            BY <3>1, FS_EmptySet DEF ForkInv, InFlightIsSenders
        <3>3. proc[p].inFlight \in Nat
            BY DEF Process
        <3>4. QED
            BY <3>2, <3>3
    <2>2. m1 = [proc EXCEPT ![p].inFlight = proc[p].inFlight - 1]
        OBVIOUS
    <2>3. m1 \in [Proc -> Process]
        BY <2>1, <2>2, Updates
    <2>4. proc' = [m1 EXCEPT ![p].pc[a] = IF a = Flusher THEN "wait" ELSE "drain"]
        BY <1>14 DEF BatchDone
    <2> HIDE DEF m1
    <2>5. proc' \in [Proc -> Process]
        BY <2>3, <2>4, Updates DEF Labels
    <2>6. UNCHANGED <<forked, calls, accepted, handed>>
        BY <1>14 DEF BatchDone
    <2>7. QED
        BY <2>5, <2>6
<1>15. ASSUME NEW p \in Proc, FlusherEnds(p)
      PROVE  TypeOK'
    <2>1. proc' \in [Proc -> Process]
        BY <1>15, Updates DEF FlusherEnds, Labels
    <2>2. UNCHANGED <<forked, calls, accepted, handed>>
        BY <1>15 DEF FlusherEnds
    <2>3. QED
        BY <2>1, <2>2
<1>16. ASSUME NEW t \in Threads, OsFork(t)
      PROVE  TypeOK'
    <2> DEFINE m == Copied(proc["parent"], t)
    <2>1. m \in Process
        <3>1. proc["parent"] \in Process
            BY DEF Proc
        <3>2. [a \in Actors |-> IF a = t THEN proc["parent"].pc[t] ELSE "absent"] \in [Actors -> Labels]
            BY <3>1 DEF Process, Labels
        <3>3. [a \in Actors |-> <<>>] \in [Actors -> Seq(Event)]
            OBVIOUS
        <3>4. QED
            BY <3>1, <3>2, <3>3 DEF Copied, Process
    <2>2. ResetAfterFork(m) \in Process
        <3> HIDE DEF m
        <3> DEFINE m1 == [m EXCEPT !.lock = None, !.queue = <<>>]
                   m2 == [m1 EXCEPT !.shutdown = FALSE, !.inFlight = 0]
        <3>1. m1 \in Process
            <4>1. <<>> \in Seq(Event) /\ None \in Actors \cup {None}
                OBVIOUS
            <4>2. QED
                BY <2>1, <4>1 DEF Process
        <3>2. m2 \in Process
            BY <3>1 DEF Process
        <3>3. ResetAfterFork(m) = [m2 EXCEPT !.pc[Flusher] = "wait"]
            BY DEF ResetAfterFork
        <3> HIDE DEF m2
        <3>4. [m2 EXCEPT !.pc[Flusher] = "wait"] \in Process
            BY <3>2 DEF Process, Labels
        <3>5. QED
            BY <3>3, <3>4
    <2>3. proc' \in [Proc -> Process]
        BY <1>16, <2>1, <2>2 DEF OsFork
    <2>4. QED
        BY <1>16, <2>3 DEF OsFork
<1>17. ASSUME UNCHANGED vars
      PROVE  TypeOK'
    BY <1>17 DEF vars
<1>18. QED
    BY ForkActions, <1>1, <1>2, <1>3, <1>4, <1>5, <1>6, <1>7, <1>8, <1>9, <1>10,
       <1>11, <1>12, <1>13, <1>14, <1>15, <1>16, <1>17

-----------------------------------------------------------------------------
(* Where the events are.                                                   *)

\* Steps that move no event.
LEMMA NothingMoves ==
    ASSUME Placed, accepted' = accepted, handed' = handed,
           \A p \in Proc : proc'[p].queue = proc[p].queue,
           \A p \in Proc, a \in Actors : proc'[p].batch[a] = proc[p].batch[a]
    PROVE  Placed'
BY DEF Placed, PlacedOnce, Accepted

\* No step puts an event in two places, or in none.
LEMMA PlacedStep ==
    ASSUME ForkInv, [Next]_vars
    PROVE  Placed'
<1> USE ForkAssumption
        DEF ForkInv
<1>1. ASSUME NEW p \in Proc, NEW t \in Threads, EmitBeginMoves(p, t)
      PROVE  Placed'
    <2>1. /\ accepted' = accepted /\ handed' = handed
          /\ \A q \in Proc : proc'[q].queue = proc[q].queue /\ proc'[q].batch = proc[q].batch
        BY <1>1 DEF EmitBeginMoves, OnlyIn, OnlyPc
    <2>2. QED
        BY <2>1, NothingMoves
<1>2. ASSUME NEW p \in Proc, NEW t \in Threads, SinkLockMoves(p, t)
      PROVE  Placed'
    <2>1. /\ accepted' = accepted /\ handed' = handed
          /\ \A q \in Proc : proc'[q].queue = proc[q].queue /\ proc'[q].batch = proc[q].batch
        BY <1>2 DEF SinkLockMoves, OnlyIn
    <2>2. QED
        BY <2>1, NothingMoves
<1>3. ASSUME NEW p \in Proc, NEW t \in Threads, InstallBufferMoves(p, t)
      PROVE  Placed'
    <2>1. /\ accepted' = accepted /\ handed' = handed
          /\ \A q \in Proc : proc'[q].queue = proc[q].queue /\ proc'[q].batch = proc[q].batch
        BY <1>3 DEF InstallBufferMoves, OnlyIn
    <2>2. QED
        BY <2>1, NothingMoves
<1>4. ASSUME NEW p \in Proc, NEW t \in Threads, SinkUnlockMoves(p, t)
      PROVE  Placed'
    <2>1. /\ accepted' = accepted /\ handed' = handed
          /\ \A q \in Proc : proc'[q].queue = proc[q].queue /\ proc'[q].batch = proc[q].batch
        BY <1>4 DEF SinkUnlockMoves, OnlyIn
    <2>2. QED
        BY <2>1, NothingMoves
<1>5. ASSUME NEW p \in Proc, NEW t \in Threads, AddLockMoves(p, t)
      PROVE  Placed'
    <2>1. /\ accepted' = accepted /\ handed' = handed
          /\ \A q \in Proc : proc'[q].queue = proc[q].queue /\ proc'[q].batch = proc[q].batch
        BY <1>5 DEF AddLockMoves, OnlyIn
    <2>2. QED
        BY <2>1, NothingMoves
<1>6. ASSUME NEW p \in Proc, NEW t \in Threads, AddAppendMoves(p, t)
      PROVE  Placed'
    <2>1. CASE proc[p].shutdown
        <3>1. /\ accepted' = accepted /\ handed' = handed
              /\ \A q \in Proc : proc'[q].queue = proc[q].queue /\ proc'[q].batch = proc[q].batch
            BY <1>6, <2>1 DEF AddAppendMoves, OnlyIn
        <3>2. QED
            BY <3>1, NothingMoves
    <2>2. CASE ~proc[p].shutdown
        <3> DEFINE n == Cardinality(Accepted) + 1
        <3>1. n \in Event /\ n \notin Accepted
            BY <1>6, NextNumber DEF AddAppendMoves
        <3>2. /\ handed[n] = 0
              /\ \A q \in Proc : n \notin Range(proc[q].queue)
              /\ \A q \in Proc, a \in Actors : n \notin Range(proc[q].batch[a])
            BY <3>1 DEF Placed, PlacedOnce
        <3>3. /\ IsInjective(proc'[p].queue)
              /\ Range(proc'[p].queue) = Range(proc[p].queue) \cup {n}
            <4>1. proc[p].queue \in Seq(Event) /\ IsInjective(proc[p].queue)
                BY DEF TypeOK, Process, Placed
            <4>2. proc'[p].queue = Append(proc[p].queue, n)
                BY <1>6, <2>2 DEF AddAppendMoves
            <4>3. n \in Event /\ n \notin Range(proc[p].queue)
                BY <3>1, <3>2
            <4> HIDE DEF n
            <4>4. QED
                BY <4>1, <4>2, <4>3, AppendSeparates
        <3>4. /\ \A q \in Proc \ {p} : proc'[q].queue = proc[q].queue
              /\ \A q \in Proc : proc'[q].batch = proc[q].batch
              /\ handed' = handed
              /\ accepted' = [accepted EXCEPT ![p] = accepted[p] \cup {n}]
            BY <1>6, <2>2 DEF AddAppendMoves, OnlyIn
        <3> HIDE DEF n
        <3>5. /\ accepted'[p] = accepted[p] \cup {n}
              /\ \A q \in Proc \ {p} : accepted'[q] = accepted[q]
              /\ Accepted' = Accepted \cup {n}
            BY <3>4 DEF TypeOK, Accepted, Proc
        <3>6. \A q \in Proc, e \in Event :
                e \in Range(proc'[q].queue) <=> e \in Range(proc[q].queue) \/ (q = p /\ e = n)
            BY <3>3, <3>4
        <3>7. \A q \in Proc : IsInjective(proc'[q].queue) /\ Range(proc'[q].queue) \subseteq accepted'[q]
            BY <3>3, <3>4, <3>5 DEF Placed
        <3>8. ASSUME NEW e \in Event
              PROVE  PlacedOnce(e)'
            <4>1. CASE e = n
                BY <3>1, <3>2, <3>4, <3>5, <3>6, <4>1 DEF PlacedOnce
            <4>2. CASE e # n
                BY <3>4, <3>5, <3>6, <4>2 DEF PlacedOnce, Placed
            <4>3. QED
                BY <4>1, <4>2
        <3>9. QED
            BY <3>7, <3>8 DEF Placed
    <2>3. QED
        BY <2>1, <2>2
<1>7. ASSUME NEW p \in Proc, NEW t \in Threads, FlushOnceMoves(p, t)
      PROVE  Placed'
    <2>1. /\ accepted' = accepted /\ handed' = handed
          /\ \A q \in Proc : proc'[q].queue = proc[q].queue /\ proc'[q].batch = proc[q].batch
        BY <1>7 DEF FlushOnceMoves, OnlyIn, OnlyPc
    <2>2. QED
        BY <2>1, NothingMoves
<1>8. ASSUME NEW p \in Proc, NEW t \in Threads, DrainEndsMoves(p, t)
      PROVE  Placed'
    <2>1. /\ accepted' = accepted /\ handed' = handed
          /\ \A q \in Proc : proc'[q].queue = proc[q].queue /\ proc'[q].batch = proc[q].batch
        BY <1>8 DEF DrainEndsMoves, OnlyIn, OnlyPc
    <2>2. QED
        BY <2>1, NothingMoves
<1>9. ASSUME NEW p \in Proc, NEW t \in Threads, WaitUntilIdleMoves(p, t)
      PROVE  Placed'
    <2>1. /\ accepted' = accepted /\ handed' = handed
          /\ \A q \in Proc : proc'[q].queue = proc[q].queue /\ proc'[q].batch = proc[q].batch
        BY <1>9 DEF WaitUntilIdleMoves, OnlyIn, OnlyPc
    <2>2. QED
        BY <2>1, NothingMoves
<1>10. ASSUME NEW p \in Proc, NEW t \in Threads, ShutdownMoves(p, t)
      PROVE  Placed'
    <2>1. /\ accepted' = accepted /\ handed' = handed
          /\ \A q \in Proc : proc'[q].queue = proc[q].queue /\ proc'[q].batch = proc[q].batch
        BY <1>10 DEF ShutdownMoves, OnlyIn
    <2>2. QED
        BY <2>1, NothingMoves
<1>11. ASSUME NEW p \in Proc, NEW a \in Actors, TakeLockMoves(p, a)
      PROVE  Placed'
    <2>1. /\ accepted' = accepted /\ handed' = handed
          /\ \A q \in Proc : proc'[q].queue = proc[q].queue /\ proc'[q].batch = proc[q].batch
        BY <1>11 DEF TakeLockMoves, OnlyIn
    <2>2. QED
        BY <2>1, NothingMoves
<1>12. ASSUME NEW p \in Proc, NEW a \in Actors, TakeBatchMoves(p, a)
      PROVE  Placed'
    <2> DEFINE queue == proc[p].queue
               n == Min({FlushAt, Len(queue)})
               front == SubSeq(queue, 1, n)
               rest == SubSeq(queue, n + 1, Len(queue))
    <2>1. queue \in Seq(Event) /\ IsInjective(queue)
        BY DEF TypeOK, Process, Placed
    <2>2. n \in 0..Len(queue)
        <3>1. Len(queue) \in Nat /\ FlushAt \in Nat
            BY <2>1
        <3>2. n = IF FlushAt <= Len(queue) THEN FlushAt ELSE Len(queue)
            BY <3>1, MinOfTwo
        <3> HIDE DEF n
        <3>3. QED
            BY <3>1, <3>2
    <2>3. /\ IsInjective(rest)
          /\ Range(queue) = Range(front) \cup Range(rest)
          /\ Range(front) \cap Range(rest) = {}
        <3> HIDE DEF queue, n
        <3>1. QED
            BY <2>1, <2>2, CutInjective
    <2>4. proc[p].batch[a] = <<>>
        BY <1>12 DEF TakeBatchMoves, BatchesAreSent
    <2>5. /\ UNCHANGED <<accepted, handed>>
          /\ \A q \in Proc \ {p} : proc'[q].queue = proc[q].queue /\ proc'[q].batch = proc[q].batch
          /\ proc'[p].queue = rest
          /\ \A b \in Actors : proc'[p].batch[b] = IF b = a THEN front ELSE proc[p].batch[b]
        BY <1>12 DEF TakeBatchMoves, OnlyIn
    <2> HIDE DEF front, rest
    <2>6. \A q \in Proc, e \in Event :
            e \in Range(proc'[q].queue) <=>
                IF q = p THEN e \in Range(rest) ELSE e \in Range(proc[q].queue)
        BY <2>5
    <2>7. \A q \in Proc, b \in Actors, e \in Event :
            e \in Range(proc'[q].batch[b]) <=>
                IF q = p /\ b = a THEN e \in Range(front) ELSE e \in Range(proc[q].batch[b])
        BY <2>5
    <2>8. \A e \in Event : e \notin Range(proc[p].batch[a])
        BY <2>4, EmptyRange
    <2>9. \A q \in Proc : IsInjective(proc'[q].queue) /\ Range(proc'[q].queue) \subseteq accepted'[q]
        BY <2>3, <2>5 DEF Placed
    <2>10. Accepted' = Accepted
        BY <2>5 DEF Accepted
    <2>11. ASSUME NEW e \in Event
           PROVE  PlacedOnce(e)'
        <3>1. CASE e \in Range(front)
            BY <2>3, <2>5, <2>6, <2>7, <2>8, <2>10, <3>1 DEF PlacedOnce, Placed
        <3>2. CASE e \notin Range(front)
            BY <2>3, <2>5, <2>6, <2>7, <2>8, <2>10, <3>2 DEF PlacedOnce, Placed
        <3>3. QED
            BY <3>1, <3>2
    <2>12. QED
        BY <2>9, <2>11 DEF Placed
<1>13. ASSUME NEW p \in Proc, NEW a \in Actors, SendMoves(p, a)
      PROVE  Placed'
    <2>1. /\ \A q \in Proc : proc'[q].queue = proc[q].queue
          /\ \A q \in Proc \ {p} : proc'[q].batch = proc[q].batch
          /\ \A b \in Actors : proc'[p].batch[b] = IF b = a THEN <<>> ELSE proc[p].batch[b]
          /\ accepted' = accepted
        BY <1>13 DEF SendMoves, OnlyIn
    <2>2. \A q \in Proc, b \in Actors, e \in Event :
            e \in Range(proc'[q].batch[b]) <=>
                ~(q = p /\ b = a) /\ e \in Range(proc[q].batch[b])
        BY <2>1, EmptyRange
    <2>3. \A e \in Event :
            handed'[e] = IF e \in Range(proc[p].batch[a]) THEN handed[e] + 1 ELSE handed[e]
        BY <1>13 DEF SendMoves, TypeOK
    <2>4. \A q \in Proc : IsInjective(proc'[q].queue) /\ Range(proc'[q].queue) \subseteq accepted'[q]
        BY <2>1 DEF Placed
    <2>5. Accepted' = Accepted
        BY <2>1 DEF Accepted
    <2>6. ASSUME NEW e \in Event
          PROVE  PlacedOnce(e)'
        <3>1. CASE e \in Range(proc[p].batch[a])
            BY <2>1, <2>2, <2>3, <2>5, <3>1 DEF PlacedOnce, Placed
        <3>2. CASE e \notin Range(proc[p].batch[a])
            BY <2>1, <2>2, <2>3, <2>5, <3>2 DEF PlacedOnce, Placed
        <3>3. QED
            BY <3>1, <3>2
    <2>7. QED
        BY <2>4, <2>6 DEF Placed
<1>14. ASSUME NEW p \in Proc, NEW a \in Actors, BatchDoneMoves(p, a)
      PROVE  Placed'
    <2>1. /\ accepted' = accepted /\ handed' = handed
          /\ \A q \in Proc : proc'[q].queue = proc[q].queue /\ proc'[q].batch = proc[q].batch
        BY <1>14 DEF BatchDoneMoves, OnlyIn
    <2>2. QED
        BY <2>1, NothingMoves
<1>15. ASSUME NEW p \in Proc, FlusherEndsMoves(p)
      PROVE  Placed'
    <2>1. /\ accepted' = accepted /\ handed' = handed
          /\ \A q \in Proc : proc'[q].queue = proc[q].queue /\ proc'[q].batch = proc[q].batch
        BY <1>15 DEF FlusherEndsMoves, OnlyIn, OnlyPc
    <2>2. QED
        BY <2>1, NothingMoves
<1>16. ASSUME NEW t \in Threads, OsForkMoves(t)
      PROVE  Placed'
    <2>1. proc["child"] = Unborn
        BY <1>16 DEF OsForkMoves, BeforeFork
    <2>2. proc["child"].queue = <<>> /\ \A a \in Actors : proc["child"].batch[a] = <<>>
        BY <2>1 DEF Unborn, Fresh
    <2>3. \A q \in Proc : proc'[q].queue = proc[q].queue
        BY <1>16, <2>2 DEF OsForkMoves, Proc
    <2>4. \A q \in Proc, a \in Actors : proc'[q].batch[a] = proc[q].batch[a]
        BY <1>16, <2>2 DEF OsForkMoves, Proc
    <2>5. QED
        BY <1>16, <2>3, <2>4, NothingMoves DEF OsForkMoves
<1>17. ASSUME UNCHANGED vars
      PROVE  Placed'
    BY <1>17, NothingMoves DEF vars
<1>18. QED
    BY ForkCases, <1>1, <1>2, <1>3, <1>4, <1>5, <1>6, <1>7, <1>8, <1>9, <1>10,
       <1>11, <1>12, <1>13, <1>14, <1>15, <1>16, <1>17

-----------------------------------------------------------------------------
(* The invariant holds.                                                    *)

\* Both processes begin with what a process can hold.
LEMMA FreshMembers ==
    /\ Fresh \in Process /\ Unborn \in Process
    /\ \A p \in Proc : (p = "parent" \/ p = "child") /\ "parent" # "child"
<1>1. Fresh \in Process
    <2>1. <<>> \in Seq(Event)
        OBVIOUS
    <2>2. [a \in Actors |-> IF a = Flusher THEN "absent" ELSE "idle"] \in [Actors -> Labels]
        BY DEF Labels
    <2>3. QED
        BY <2>1, <2>2 DEF Fresh, Process
<1>2. Unborn \in Process
    <2>1. [a \in Actors |-> "absent"] \in [Actors -> Labels]
        BY DEF Labels
    <2>2. QED
        BY <1>1, <2>1 DEF Unborn, Process
<1>3. QED
    BY <1>1, <1>2 DEF Proc

\* What each process begins with.
LEMMA InitialState ==
    ASSUME Init
    PROVE  \A p \in Proc :
             LET m == proc[p]
             IN  /\ m \in Process
                 /\ m.sink = None /\ m.lock = None
                 /\ ~m.built /\ ~m.installed /\ ~m.shutdown
                 /\ m.queue = <<>> /\ m.inFlight = 0
                 /\ \A a \in Actors : m.pc[a] \in {"absent", "idle"} /\ m.batch[a] = <<>>
                 /\ m.pc[Flusher] = "absent"
                 /\ accepted[p] = {}
<1>1. ASSUME NEW p \in Proc
      PROVE  proc[p] = Fresh \/ proc[p] = Unborn
    BY DEF Init
<1>2. QED
    BY <1>1, FreshMembers DEF Init, Fresh, Unborn, Actors

\* The invariant holds at first.
LEMMA ForkInit ==
    ASSUME Init
    PROVE  ForkInv
<1> USE ForkAssumption
<1>1. Accepted = {}
    BY InitialState DEF Accepted, Proc
<1>2. Emitting = {}
    BY InitialState DEF Emitting
<1>3. TypeOK
    <2>1. proc \in [Proc -> Process]
        BY InitialState DEF Init
    <2>2. calls \in 0..MaxCalls /\ accepted \in [Proc -> SUBSET Event] /\ handed \in [Event -> Nat]
        BY DEF Init
    <2>3. forked \in BOOLEAN
        BY DEF Init
    <2>4. QED
        BY <2>1, <2>2, <2>3 DEF TypeOK
<1>4. NumbersSuffice
    BY <1>1, <1>2, FS_EmptySet DEF NumbersSuffice, Init
<1>5. BeforeFork
    BY DEF BeforeFork, Init, Proc
<1>6. Installation /\ Unbuilt /\ FlusherFlushes /\ LockHeld /\ LockReleased /\ BatchesAreSent
    BY InitialState DEF Installation, Unbuilt, FlusherFlushes, LockHeld, LockReleased,
       BatchesAreSent, Actors
<1>7. InFlightIsSenders
    <2>1. \A p \in Proc : Senders(p) = {}
        BY InitialState DEF Senders
    <2>2. QED
        BY <2>1, InitialState, FS_EmptySet DEF InFlightIsSenders
<1>8. Placed
    <2>1. \A p \in Proc : IsInjective(proc[p].queue) /\ Range(proc[p].queue) = {}
        BY InitialState, EmptyRange DEF IsInjective
    <2>2. \A p \in Proc, a \in Actors : Range(proc[p].batch[a]) = {}
        BY InitialState, EmptyRange
    <2>3. \A e \in Event : handed[e] = 0
        BY DEF Init
    <2>4. ASSUME NEW e \in Event
          PROVE  PlacedOnce(e)
        <3>1. e \notin Accepted /\ handed[e] = 0
            BY <1>1, <2>3
        <3>2. \A p \in Proc : e \notin Range(proc[p].queue)
            BY <2>1
        <3>3. \A p \in Proc, a \in Actors : e \notin Range(proc[p].batch[a])
            BY <2>2
        <3>4. QED
            BY <3>1, <3>2, <3>3 DEF PlacedOnce
    <2>5. QED
        BY <2>1, <2>4 DEF Placed
<1>9. QED
    BY <1>3, <1>4, <1>5, <1>6, <1>7, <1>8 DEF ForkInv

\* Every step preserves the invariant.
LEMMA ForkStep ==
    ASSUME ForkInv, [Next]_vars
    PROVE  ForkInv'
<1>1. TypeOK' /\ NumbersSuffice' /\ BeforeFork' /\ Installation'
    <2>1. TypeOK
        BY DEF ForkInv
    <2>2. QED
        BY <2>1, TypingStep, NumbersStep, BeforeForkStep, InstallationStep
<1>2. Unbuilt' /\ FlusherFlushes' /\ LockHeld' /\ LockReleased'
    BY UnbuiltStep, FlusherStep, LockHeldStep, LockReleasedStep
<1>3. InFlightIsSenders' /\ BatchesAreSent' /\ Placed'
    BY InFlightStep, BatchesStep, PlacedStep
<1>4. QED
    BY <1>1, <1>2, <1>3 DEF ForkInv

\* The invariant holds in every reachable state.
LEMMA ForkInvariance == Spec => []ForkInv
<1>1. Init => ForkInv
    BY ForkInit
<1>2. ForkInv /\ [Next]_vars => ForkInv'
    BY ForkStep
<1>3. QED
    BY <1>1, <1>2, PTL DEF Spec

-----------------------------------------------------------------------------
(* Theorems                                                                *)

\* In the parent and in the child, the buffer's lock is held, and the batches in
\* flight are sent, by threads of that process: a child's first lock and its
\* wait_until_idle() never wait for a thread that os.fork() did not copy
\* (EventBuffer._reset_after_fork).
THEOREM NobodyWaits == Spec => []NobodyWaitsForTheParent
<1>1. ForkInv => NobodyWaitsForTheParent
    BY DEF ForkInv, NobodyWaitsForTheParent, LockReleased, InFlightIsSenders, Senders
<1>2. QED
    BY <1>1, ForkInvariance, PTL

\* A set in which only one thing can be has one member or none.
LEMMA AtMostOne ==
    ASSUME NEW S, \A x, y \in S : x = y
    PROVE  Cardinality(S) = IF S = {} THEN 0 ELSE 1
<1>1. CASE S = {}
    BY <1>1, FS_EmptySet
<1>2. CASE S # {}
    <2>1. PICK x \in S : TRUE
        BY <1>2
    <2>2. S = {x}
        BY <2>1
    <2>3. QED
        BY <1>2, <2>2, FS_Singleton
<1>3. QED
    BY <1>1, <1>2

\* Under the invariant, an accepted event is counted once and another not at
\* all.
LEMMA OneCopy ==
    ASSUME ForkInv, NEW e \in Event
    PROVE  Copies(e) = IF e \in Accepted THEN 1 ELSE 0
<1> DEFINE Queues == {p \in Proc : e \in Range(proc[p].queue)}
           Batches == {x \in Proc \X Actors : e \in Range(proc[x[1]].batch[x[2]])}
<1>1. PlacedOnce(e)
    BY DEF ForkInv, Placed
<1>2. \A p, q \in Queues : p = q
    BY <1>1 DEF PlacedOnce
<1>3. \A x, y \in Batches : x = y
    <2>1. SUFFICES ASSUME NEW x \in Batches, NEW y \in Batches
                   PROVE  x = y
        OBVIOUS
    <2>2. x[1] = y[1] /\ x[2] = y[2]
        BY <1>1 DEF PlacedOnce
    <2>3. QED
        BY <2>2
<1>4. Queues # {} => handed[e] = 0 /\ Batches = {} /\ e \in Accepted
    BY <1>1 DEF PlacedOnce
<1>5. Batches # {} => handed[e] = 0 /\ e \in Accepted
    BY <1>1 DEF PlacedOnce
<1>6. Queues = {} /\ Batches = {} => (e \in Accepted <=> handed[e] = 1)
    <2>1. ASSUME Batches = {}, NEW p \in Proc, NEW a \in Actors
          PROVE  e \notin Range(proc[p].batch[a])
        <3>1. <<p, a>> \notin Batches
            BY <2>1
        <3>2. QED
            BY <3>1
    <2>2. QED
        BY <1>1, <2>1 DEF PlacedOnce
<1>7. /\ Cardinality(Queues) = IF Queues = {} THEN 0 ELSE 1
      /\ Cardinality(Batches) = IF Batches = {} THEN 0 ELSE 1
    <2> HIDE DEF Queues, Batches
    <2>1. QED
        BY <1>2, <1>3, AtMostOne
<1>8. Copies(e) = handed[e] + Cardinality(Queues) + Cardinality(Batches)
    BY DEF Copies
<1>9. handed[e] \in 0..1
    BY <1>1 DEF PlacedOnce
<1> HIDE DEF Queues, Batches
<1>10. QED
    BY <1>4, <1>5, <1>6, <1>7, <1>8, <1>9

\* An event is queued, being sent, or handed over in one process and once, and
\* until it is sent it is with the process that emitted it: the child does not
\* send again what the parent had queued when it forked.
THEOREM NoDuplicates == Spec => []EachEventOnce
<1>1. ForkInv => EachEventOnce
    BY OneCopy DEF ForkInv, EachEventOnce, Placed
<1>2. QED
    BY <1>1, ForkInvariance, PTL

=============================================================================
