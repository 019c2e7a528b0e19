----------------------- MODULE EventBufferFateProofs -----------------------
(***************************************************************************)
(* Theorems about what becomes of every event of EventBuffer, for every    *)
(* value of its constants.                                                 *)
(***************************************************************************)
EXTENDS EventBufferProofs

-----------------------------------------------------------------------------
(* Sequences of events in increasing order.                                *)

\* Events are compared as numbers.
LEMMA EventsAreNumbers == Event \subseteq Nat
BY BufferAssumption DEF Event

\* The members of a queue are what stands at its indices.
LEMMA ToSetMembers ==
    ASSUME NEW s \in Seq(Event)
    PROVE  \A x : x \in ToSet(s) <=> \E i \in 1..Len(s) : x = s[i]
BY DEF ToSet

\* A queue of events holds events.
LEMMA ToSetTyping ==
    ASSUME NEW s \in Seq(Event)
    PROVE  ToSet(s) \subseteq Event
BY DEF ToSet

\* Events are natural numbers in their order.
LEMMA EventsInOrder ==
    ASSUME NEW s \in Seq(Event)
    PROVE  \A i \in 1..Len(s) : s[i] \in Event /\ s[i] \in Nat
<1>1. \A i \in 1..Len(s) : s[i] \in Event
    OBVIOUS
<1>2. QED
    BY <1>1, EventsAreNumbers

\* A part of an increasing sequence is increasing.
LEMMA SubSeqIncreasing ==
    ASSUME NEW s \in Seq(Event), Increasing(s), NEW m \in 1..(Len(s) + 1), NEW n \in 0..Len(s)
    PROVE  Increasing(SubSeq(s, m, n))
<1> DEFINE r == SubSeq(s, m, n)
<1>1. r \in Seq(Event) /\ Len(r) = IF m <= n THEN n - m + 1 ELSE 0
    OBVIOUS
<1>2. \A i \in 1..Len(r) : r[i] = s[m + i - 1] /\ m + i - 1 \in 1..Len(s)
    BY <1>1
<1>3. QED
    BY <1>1, <1>2 DEF Increasing

\* Cutting an increasing sequence in two separates its elements: the smaller
\* ones are in the front.
LEMMA CutIncreasing ==
    ASSUME NEW s \in Seq(Event), Increasing(s), NEW n \in 0..Len(s)
    PROVE  /\ ToSet(s) = ToSet(SubSeq(s, 1, n)) \cup ToSet(SubSeq(s, n + 1, Len(s)))
           /\ ToSet(SubSeq(s, 1, n)) \cap ToSet(SubSeq(s, n + 1, Len(s))) = {}
<1> DEFINE a == SubSeq(s, 1, n)
           b == SubSeq(s, n + 1, Len(s))
<1>1. /\ a \in Seq(Event) /\ Len(a) = n
      /\ b \in Seq(Event) /\ Len(b) = Len(s) - n
    OBVIOUS
<1>2. \A i \in 1..n : a[i] = s[i]
    BY <1>1
<1>3. \A i \in 1..(Len(s) - n) : b[i] = s[n + i]
    BY <1>1
<1> HIDE DEF a, b
<1>4. \A x : x \in ToSet(a) <=> \E i \in 1..n : x = s[i]
    <2>1. \A x : x \in ToSet(a) <=> \E i \in 1..n : x = a[i]
        BY <1>1 DEF ToSet
    <2>2. QED
        BY <1>2, <2>1
<1>5. \A x : x \in ToSet(b) <=> \E i \in (n + 1)..Len(s) : x = s[i]
    <2>1. \A i \in (n + 1)..Len(s) : i - n \in 1..(Len(s) - n) /\ b[i - n] = s[i]
        BY <1>3
    <2>2. \A i \in 1..(Len(s) - n) : n + i \in (n + 1)..Len(s)
        OBVIOUS
    <2>3. \A x : x \in ToSet(b) <=> \E i \in 1..(Len(s) - n) : x = b[i]
        BY <1>1 DEF ToSet
    <2>4. ASSUME NEW x, x \in ToSet(b)
          PROVE  \E i \in (n + 1)..Len(s) : x = s[i]
        BY <1>3, <2>2, <2>3, <2>4
    <2>5. ASSUME NEW x, NEW i \in (n + 1)..Len(s), x = s[i]
          PROVE  x \in ToSet(b)
        BY <2>1, <2>3, <2>5
    <2>6. QED
        BY <2>4, <2>5
<1>6. ToSet(s) = ToSet(a) \cup ToSet(b)
    <2>1. \A i \in 1..Len(s) : i \in 1..n \/ i \in (n + 1)..Len(s)
        OBVIOUS
    <2>2. 1..n \subseteq 1..Len(s) /\ (n + 1)..Len(s) \subseteq 1..Len(s)
        OBVIOUS
    <2>3. \A x : x \in ToSet(s) <=> \E i \in 1..Len(s) : x = s[i]
        BY ToSetMembers
    <2>4. \A x : x \in ToSet(s) <=> x \in ToSet(a) \/ x \in ToSet(b)
        BY <1>4, <1>5, <2>1, <2>2, <2>3
    <2>5. QED
        BY <2>4
<1>7. ToSet(a) \cap ToSet(b) = {}
    <2>1. ASSUME NEW i \in 1..n, NEW j \in (n + 1)..Len(s)
          PROVE  s[i] # s[j]
        <3>1. i \in 1..Len(s) /\ j \in 1..Len(s) /\ i < j
            OBVIOUS
        <3>2. s[i] < s[j]
            BY <3>1 DEF Increasing
        <3>3. s[i] \in Nat /\ s[j] \in Nat
            BY <3>1, EventsInOrder
        <3>4. QED
            BY <3>2, <3>3
    <2>2. QED
        BY <1>4, <1>5, <2>1
<1>8. QED
    BY <1>6, <1>7 DEF a, b

\* An event behind all the others keeps the order.
LEMMA AppendIncreasing ==
    ASSUME NEW s \in Seq(Event), Increasing(s), NEW e \in Event, \A x \in ToSet(s) : x < e
    PROVE  /\ Increasing(Append(s, e))
           /\ ToSet(Append(s, e)) = ToSet(s) \cup {e}
<1> DEFINE r == Append(s, e)
<1>1. /\ r \in Seq(Event) /\ Len(r) = Len(s) + 1
      /\ r[Len(s) + 1] = e
      /\ \A i \in 1..Len(s) : r[i] = s[i]
    OBVIOUS
<1>2. \A i \in 1..Len(s) : s[i] < e
    BY ToSetMembers
<1>3. Increasing(r)
    <2>1. ASSUME NEW i \in 1..Len(r), NEW j \in 1..Len(r), i < j
          PROVE  r[i] < r[j]
        <3>1. CASE j = Len(s) + 1
            BY <1>1, <1>2, <2>1, <3>1
        <3>2. CASE j \in 1..Len(s)
            BY <1>1, <2>1, <3>2 DEF Increasing
        <3>3. QED
            BY <1>1, <3>1, <3>2
    <2>2. DOMAIN r = 1..Len(r)
        BY <1>1
    <2>3. QED
        BY <2>1, <2>2 DEF Increasing
<1>4. ToSet(r) = ToSet(s) \cup {e}
    <2>1. \A x : x \in ToSet(r) <=> \E i \in 1..(Len(s) + 1) : x = r[i]
        BY <1>1 DEF ToSet
    <2>2. \A x : x \in ToSet(s) <=> \E i \in 1..Len(s) : x = r[i]
        BY <1>1 DEF ToSet
    <2>3. \A i : i \in 1..(Len(s) + 1) <=> i \in 1..Len(s) \/ i = Len(s) + 1
        OBVIOUS
    <2>4. \A x : x \in ToSet(r) <=> x \in ToSet(s) \/ x = e
        BY <1>1, <2>1, <2>2, <2>3
    <2>5. QED
        BY <2>4
<1>5. QED
    BY <1>3, <1>4

\* An increasing sequence holds no event twice.
LEMMA IncreasingCounts ==
    ASSUME NEW s \in Seq(Event), Increasing(s)
    PROVE  IsFiniteSet(ToSet(s)) /\ Cardinality(ToSet(s)) = Len(s)
<1>1. Len(s) \in Nat /\ DOMAIN s = 1..Len(s) /\ s \in [1..Len(s) -> Event]
    OBVIOUS
<1>2. s \in [1..Len(s) -> ToSet(s)]
    BY <1>1 DEF ToSet
<1>3. ASSUME NEW i \in 1..Len(s), NEW j \in 1..Len(s), s[i] = s[j]
      PROVE  i = j
    <2>1. ~(s[i] < s[j]) /\ ~(s[j] < s[i])
        BY <1>3, EventsInOrder
    <2>2. ~(i < j) /\ ~(j < i)
        BY <1>1, <2>1 DEF Increasing
    <2>3. QED
        BY <2>2
<1>4. s \in Injection(1..Len(s), ToSet(s))
    BY <1>1, <1>2, <1>3 DEF Injection, IsInjective
<1>5. s \in Surjection(1..Len(s), ToSet(s))
    BY <1>2, ToSetMembers DEF Surjection
<1>6. ExistsBijection(1..Len(s), ToSet(s))
    BY <1>4, <1>5 DEF ExistsBijection, Bijection
<1>7. QED
    BY <1>1, <1>6, FS_CountingElements, FS_NatBijection

-----------------------------------------------------------------------------
(* Where every event is.                                                   *)

\* The actions that move an event: every other one leaves the queue, the
\* batches, the fates and the counters of loss alone.
LEMMA FateCases ==
    ASSUME [Next]_vars
    PROVE  \/ \E c \in Callers : AddRefused(c) \/ AddAccepted(c)
           \/ \E d \in Drainers : TakeBatch(d) \/ SendOk(d) \/ SendFails(d)
           \/ UNCHANGED <<queue, batch, fate, offered, dropped, failed>>
BY NextCases DEF vars, storeVars, callVars, signalVars, threadVars,
    StartCreate, StartRegister, StartSpawn, AddWake, FlushOnce, WaitUntilIdle, WaitCheck, WaitTimeout,
    FlusherWoken, FlusherInterval, FlusherClear, FlusherReadsLatch,
    DrainGivesUp, DrainGoesOn, TakeNothing, BatchDone,
    ShutdownArm, ShutdownLatch, ShutdownWake, ShutdownJoined, ShutdownOnFlushThread,
    ShutdownJoinTimeout, DeadlineExpires

\* What add() discards: the oldest event of a full queue.
Excess == IF Overflowing(queue) THEN ToSet(SubSeq(queue, 1, 1)) ELSE {}

\* What add() leaves of the queue before it appends: room for one event, and
\* the oldest event gone if there was none.
LEMMA RoomIsMade ==
    ASSUME queue \in Seq(Event), Increasing(queue), Len(queue) <= MaxSize
    PROVE  /\ MakeRoom(queue) \in Seq(Event)
           /\ Increasing(MakeRoom(queue))
           /\ Len(MakeRoom(queue)) < MaxSize
           /\ ToSet(MakeRoom(queue)) \subseteq ToSet(queue)
           /\ ToSet(queue) \ ToSet(MakeRoom(queue)) = Excess
<1>1. Len(queue) \in Nat /\ MaxSize \in Nat \ {0}
    BY BufferAssumption
<1>2. CASE Overflowing(queue)
    <2>1. MakeRoom(queue) = Tail(queue) /\ Tail(queue) = SubSeq(queue, 1 + 1, Len(queue))
        BY <1>1, <1>2 DEF MakeRoom, Overflowing
    <2>2. Len(queue) > 0
        BY <1>1, <1>2 DEF Overflowing
    <2>3. Tail(queue) \in Seq(Event) /\ Len(Tail(queue)) = Len(queue) - 1
        BY <1>1, <2>2
    <2>4. 1 + 1 \in 1..(Len(queue) + 1) /\ Len(queue) \in 0..Len(queue) /\ 1 \in 0..Len(queue)
        BY <1>1, <2>2
    <2>5. Increasing(SubSeq(queue, 1 + 1, Len(queue)))
        BY <2>4, SubSeqIncreasing
    <2>6. /\ ToSet(SubSeq(queue, 1 + 1, Len(queue))) \subseteq ToSet(queue)
          /\ ToSet(queue) \ ToSet(SubSeq(queue, 1 + 1, Len(queue))) = ToSet(SubSeq(queue, 1, 1))
        BY <2>4, CutIncreasing
    <2>7. /\ Increasing(Tail(queue)) /\ ToSet(Tail(queue)) \subseteq ToSet(queue)
          /\ ToSet(queue) \ ToSet(Tail(queue)) = ToSet(SubSeq(queue, 1, 1))
        BY <2>1, <2>5, <2>6, Zenon
    <2>8. Len(Tail(queue)) < MaxSize
        BY <1>1, <2>3
    <2>9. QED
        BY <1>2, <2>1, <2>3, <2>7, <2>8, Zenon DEF Excess
<1>3. CASE ~Overflowing(queue)
    BY <1>1, <1>3 DEF MakeRoom, Overflowing, Excess
<1>4. QED
    BY <1>2, <1>3

\* A batch takes the oldest events off the queue, and leaves the others.
LEMMA BatchCut ==
    ASSUME TypeOK, Increasing(queue)
    PROVE  /\ Increasing(Rest(BatchSize))
           /\ Increasing(SubSeq(queue, 1, BatchSize))
           /\ Len(Rest(BatchSize)) <= Len(queue)
           /\ ToSet(queue) = ToSet(SubSeq(queue, 1, BatchSize)) \cup ToSet(Rest(BatchSize))
           /\ ToSet(SubSeq(queue, 1, BatchSize)) \cap ToSet(Rest(BatchSize)) = {}
<1>1. queue \in Seq(Event) /\ Len(queue) \in Nat /\ BatchSize \in 0..Len(queue)
    BY BatchTyping DEF TypeOK
<1>2. BatchSize + 1 \in 1..(Len(queue) + 1) /\ 1 \in 1..(Len(queue) + 1) /\ Len(queue) \in 0..Len(queue)
    BY <1>1
<1>3. Increasing(Rest(BatchSize))
    BY <1>1, <1>2, SubSeqIncreasing DEF Rest
<1>4. Increasing(SubSeq(queue, 1, BatchSize))
    BY <1>1, <1>2, SubSeqIncreasing
<1>5. Len(Rest(BatchSize)) <= Len(queue)
    BY <1>1 DEF Rest
<1>6. QED
    BY <1>1, <1>3, <1>4, <1>5, CutIncreasing DEF Rest

\* Every queued event was offered before the next one.
LEMMA QueuedBefore ==
    ASSUME TypeOK, EveryEventInOnePlace, NEW e \in ToSet(queue)
    PROVE  e \in Event /\ e < offered + 1
<1>1. e \in Event
    BY ToSetTyping DEF TypeOK
<1>2. fate[e] = "queued"
    BY <1>1 DEF EveryEventInOnePlace
<1>3. ~(e > offered)
    BY <1>1, <1>2 DEF EveryEventInOnePlace
<1>4. QED
    BY <1>1, <1>3, EventsAreNumbers DEF TypeOK

\* A refused event is dropped, and all others stay where they are.
LEMMA PlacesAfterRefusal ==
    ASSUME TypeOK, EveryEventInOnePlace, NEW c \in Callers, AddRefused(c)
    PROVE  EveryEventInOnePlace'
<1>1. offered \in Nat /\ offered + 1 \in Event
    BY BufferAssumption DEF AddRefused, TypeOK, Event
<1>2. /\ queue' = queue /\ batch' = batch /\ offered' = offered + 1
      /\ fate' = [fate EXCEPT ![offered + 1] = "refused"]
    BY DEF AddRefused
<1>3. ASSUME NEW e \in Event
      PROVE  /\ (fate'[e] = "none") <=> (e > offered')
             /\ (fate'[e] = "queued") <=> (e \in ToSet(queue'))
             /\ (fate'[e] = "inflight") <=> (Holders(e)' # {})
             /\ \A x, d \in Holders(e)' : x = d
    <2>1. e \in Nat
        BY EventsAreNumbers
    <2>2. Holders(e)' = Holders(e)
        BY <1>2 DEF Holders
    <2>3. CASE e = offered + 1
        <3>1. fate[e] = "none"
            BY <1>1, <2>1, <2>3 DEF EveryEventInOnePlace
        <3>2. fate'[e] = "refused"
            BY <1>1, <1>2, <2>3 DEF TypeOK
        <3>3. e \notin ToSet(queue) /\ Holders(e) = {}
            BY <3>1 DEF EveryEventInOnePlace
        <3>4. QED
            BY <1>1, <1>2, <2>1, <2>2, <2>3, <3>2, <3>3
    <2>4. CASE e # offered + 1
        <3>1. fate'[e] = fate[e]
            BY <1>2, <2>4 DEF TypeOK
        <3>2. (e > offered') <=> (e > offered)
            BY <1>1, <1>2, <2>1, <2>4
        <3>3. QED
            BY <1>2, <2>2, <3>1, <3>2 DEF EveryEventInOnePlace
    <2>5. QED
        BY <2>3, <2>4
<1>4. QED
    BY <1>2, <1>3 DEF EveryEventInOnePlace

\* An accepted event is queued, and the one it evicts is dropped.
LEMMA PlacesAfterAdd ==
    ASSUME TypeOK, EveryEventInOnePlace, NEW c \in Callers, AddAccepted(c)
    PROVE  EveryEventInOnePlace'
<1> DEFINE room == MakeRoom(queue)
           new == offered + 1
<1>1. offered \in Nat /\ new \in Event
    BY BufferAssumption DEF AddAccepted, TypeOK, Event
<1>2. /\ queue' = Append(room, new) /\ batch' = batch /\ offered' = new
      /\ fate' = [x \in Event |-> IF x = new THEN "queued"
                                  ELSE IF x \in ToSet(queue) \ ToSet(room) THEN "overflowed"
                                  ELSE fate[x]]
    BY DEF AddAccepted
<1>3. queue \in Seq(Event) /\ Increasing(queue) /\ Len(queue) <= MaxSize
    BY DEF TypeOK, EveryEventInOnePlace
<1>4. /\ room \in Seq(Event) /\ Increasing(room) /\ Len(room) < MaxSize
      /\ ToSet(room) \subseteq ToSet(queue)
    BY <1>3, RoomIsMade
<1> HIDE DEF room
<1>5. \A x \in ToSet(room) : x < new
    BY <1>4, QueuedBefore
<1>6. Increasing(queue') /\ ToSet(queue') = ToSet(room) \cup {new}
    BY <1>1, <1>2, <1>4, <1>5, AppendIncreasing
<1>7. Len(queue') <= MaxSize
    BY <1>1, <1>2, <1>4, BufferAssumption
<1>8. ASSUME NEW e \in Event
      PROVE  /\ (fate'[e] = "none") <=> (e > offered')
             /\ (fate'[e] = "queued") <=> (e \in ToSet(queue'))
             /\ (fate'[e] = "inflight") <=> (Holders(e)' # {})
             /\ \A x, d \in Holders(e)' : x = d
    <2>1. e \in Nat
        BY EventsAreNumbers
    <2>2. Holders(e)' = Holders(e)
        BY <1>2 DEF Holders
    <2>3. CASE e = new
        <3>1. fate[e] = "none"
            BY <1>1, <2>1, <2>3 DEF EveryEventInOnePlace
        <3>2. fate'[e] = "queued"
            BY <1>1, <1>2, <2>3
        <3>3. Holders(e) = {}
            BY <3>1 DEF EveryEventInOnePlace
        <3>4. QED
            BY <1>1, <1>2, <1>6, <2>1, <2>2, <2>3, <3>2, <3>3
    <2>4. CASE e \in ToSet(queue) \ ToSet(room)
        <3>1. fate[e] = "queued"
            BY <2>4 DEF EveryEventInOnePlace
        <3>2. e < new
            BY <2>4, QueuedBefore
        <3>3. fate'[e] = "overflowed"
            BY <1>1, <1>2, <2>1, <2>4, <3>2
        <3>4. Holders(e) = {}
            BY <3>1 DEF EveryEventInOnePlace
        <3>5. QED
            BY <1>1, <1>2, <1>6, <2>1, <2>2, <2>4, <3>2, <3>3, <3>4
    <2>5. CASE e # new /\ e \notin ToSet(queue) \ ToSet(room)
        <3>1. fate'[e] = fate[e]
            BY <1>2, <2>5
        <3>2. (e > offered') <=> (e > offered)
            BY <1>1, <1>2, <2>1, <2>5
        <3>3. e \in ToSet(queue') <=> e \in ToSet(queue)
            BY <1>4, <1>6, <2>5
        <3>4. QED
            BY <2>2, <3>1, <3>2, <3>3 DEF EveryEventInOnePlace
    <2>6. QED
        BY <2>3, <2>4, <2>5
<1>9. QED
    BY <1>6, <1>7, <1>8 DEF EveryEventInOnePlace

\* A batch goes from the queue to the thread that took it, in flight.
LEMMA PlacesAfterTake ==
    ASSUME TypeOK, BatchesHeld, EveryEventInOnePlace, NEW d \in Drainers, TakeBatch(d)
    PROVE  EveryEventInOnePlace'
<1> DEFINE taken == SubSeq(queue, 1, BatchSize)
<1>1. /\ queue' = Rest(BatchSize) /\ offered' = offered
      /\ batch' = [batch EXCEPT ![d] = taken]
      /\ fate' = [e \in Event |-> IF e \in ToSet(taken) THEN "inflight" ELSE fate[e]]
    BY DEF TakeBatch, Settle, callVars
<1>2. batch[d] = <<>> /\ batch \in [Drainers -> Seq(Event)]
    BY DEF TakeBatch, BatchesHeld, TypeOK
<1>3. /\ Increasing(queue') /\ Len(queue') <= Len(queue) /\ queue' \in Seq(Event)
      /\ ToSet(queue) = ToSet(taken) \cup ToSet(queue')
      /\ ToSet(taken) \cap ToSet(queue') = {}
    BY <1>1, BatchCut, BatchTyping DEF EveryEventInOnePlace
<1> HIDE DEF taken
<1>4. Len(queue') <= MaxSize
    BY <1>3, BufferAssumption DEF EveryEventInOnePlace, TypeOK
<1>5. ASSUME NEW e \in Event
      PROVE  /\ (fate'[e] = "none") <=> (e > offered')
             /\ (fate'[e] = "queued") <=> (e \in ToSet(queue'))
             /\ (fate'[e] = "inflight") <=> (Holders(e)' # {})
             /\ \A x, y \in Holders(e)' : x = y
    <2>1. CASE e \in ToSet(taken)
        <3>1. fate[e] = "queued"
            BY <1>3, <2>1 DEF EveryEventInOnePlace
        <3>2. Holders(e) = {}
            BY <3>1 DEF EveryEventInOnePlace
        <3>3. Holders(e)' = {d}
            BY <1>1, <1>2, <2>1, <3>2 DEF Holders
        <3>4. fate'[e] = "inflight"
            BY <1>1, <2>1
        <3>5. ~(e > offered')
            BY <1>1, <3>1 DEF EveryEventInOnePlace
        <3>6. QED
            BY <1>3, <2>1, <3>3, <3>4, <3>5
    <2>2. CASE e \notin ToSet(taken)
        <3>1. fate'[e] = fate[e]
            BY <1>1, <2>2
        <3>2. e \notin ToSet(<<>>)
            BY DEF ToSet
        <3>3. Holders(e)' = Holders(e)
            BY <1>1, <1>2, <2>2, <3>2 DEF Holders
        <3>4. e \in ToSet(queue') <=> e \in ToSet(queue)
            BY <1>3, <2>2
        <3>5. QED
            BY <1>1, <3>1, <3>3, <3>4 DEF EveryEventInOnePlace
    <2>3. QED
        BY <2>1, <2>2
<1>6. QED
    BY <1>3, <1>4, <1>5 DEF EveryEventInOnePlace

\* A send that returns or fails settles the batch of its thread and of no
\* other.
LEMMA PlacesAfterSend ==
    ASSUME TypeOK, EveryEventInOnePlace, NEW d \in Drainers, NEW what \in Settled,
           Settle(batch[d], what), batch' = [batch EXCEPT ![d] = <<>>],
           UNCHANGED <<queue, offered>>
    PROVE  EveryEventInOnePlace'
<1>1. fate' = [e \in Event |-> IF e \in ToSet(batch[d]) THEN what ELSE fate[e]]
    BY DEF Settle
<1>2. ASSUME NEW e \in Event
      PROVE  /\ (fate'[e] = "none") <=> (e > offered')
             /\ (fate'[e] = "queued") <=> (e \in ToSet(queue'))
             /\ (fate'[e] = "inflight") <=> (Holders(e)' # {})
             /\ \A x, y \in Holders(e)' : x = y
    <2>1. Holders(e)' = Holders(e) \ {d}
        <3>1. e \notin ToSet(<<>>)
            BY DEF ToSet
        <3>2. QED
            BY <3>1 DEF Holders, TypeOK
    <2>2. CASE e \in ToSet(batch[d])
        <3>1. d \in Holders(e)
            BY <2>2 DEF Holders
        <3>2. fate[e] = "inflight" /\ Holders(e) = {d}
            BY <3>1 DEF EveryEventInOnePlace
        <3>3. fate'[e] = what
            BY <1>1, <2>2
        <3>4. Holders(e)' = {}
            BY <2>1, <3>2
        <3>5. e \notin ToSet(queue) /\ ~(e > offered)
            BY <3>2 DEF EveryEventInOnePlace
        <3>6. what \notin {"none", "queued", "inflight"}
            BY DEF Settled
        <3>7. QED
            BY <3>3, <3>4, <3>5, <3>6
    <2>3. CASE e \notin ToSet(batch[d])
        <3>1. fate'[e] = fate[e]
            BY <1>1, <2>3
        <3>2. Holders(e)' = Holders(e)
            BY <2>1, <2>3 DEF Holders
        <3>3. QED
            BY <3>1, <3>2 DEF EveryEventInOnePlace
    <2>4. QED
        BY <2>2, <2>3
<1>3. QED
    BY <1>2 DEF EveryEventInOnePlace

\* No step puts an event in two places, or in none.
LEMMA PlacesStep ==
    ASSUME TypeOK, BatchesHeld, EveryEventInOnePlace, [Next]_vars
    PROVE  EveryEventInOnePlace'
<1>1. ASSUME NEW d \in Drainers, SendOk(d)
      PROVE  EveryEventInOnePlace'
    BY <1>1, PlacesAfterSend DEF SendOk, Settled, callVars
<1>2. ASSUME NEW d \in Drainers, SendFails(d)
      PROVE  EveryEventInOnePlace'
    BY <1>2, PlacesAfterSend DEF SendFails, Settled, callVars
<1>3. CASE UNCHANGED <<queue, batch, fate, offered, dropped, failed>>
    BY <1>3 DEF EveryEventInOnePlace, Holders
<1>4. QED
    BY <1>1, <1>2, <1>3, FateCases, PlacesAfterRefusal, PlacesAfterAdd, PlacesAfterTake

-----------------------------------------------------------------------------
(* Losses, and what a flush may claim.                                     *)

\* Every step that loses an event counts it.
LEMMA LossStep ==
    ASSUME TypeOK, EveryEventInOnePlace, LossIsCounted, [Next]_vars
    PROVE  LossIsCounted'
<1> USE DEF LossIsCounted, Healthy, TypeOK
<1>1. ASSUME NEW c \in Callers, AddRefused(c)
      PROVE  LossIsCounted'
    BY <1>1 DEF AddRefused
<1>2. ASSUME NEW c \in Callers, AddAccepted(c)
      PROVE  LossIsCounted'
    <2>1. CASE Overflowing(queue)
        BY <1>2, <2>1 DEF AddAccepted
    <2>2. CASE ~Overflowing(queue)
        <3>1. MakeRoom(queue) = queue /\ dropped' = dropped
            BY <1>2, <2>2 DEF AddAccepted, MakeRoom
        <3>2. \A x \in Event : fate'[x] = IF x = offered + 1 THEN "queued" ELSE fate[x]
            BY <1>2, <3>1 DEF AddAccepted
        <3>3. QED
            BY <1>2, <3>1, <3>2 DEF AddAccepted
    <2>3. QED
        BY <2>1, <2>2
<1>3. ASSUME NEW d \in Drainers, TakeBatch(d)
      PROVE  LossIsCounted'
    BY <1>3 DEF TakeBatch, Settle
<1>4. ASSUME NEW d \in Drainers, SendOk(d)
      PROVE  LossIsCounted'
    BY <1>4 DEF SendOk, Settle
<1>5. ASSUME NEW d \in Drainers, SendFails(d)
      PROVE  LossIsCounted'
    BY <1>5 DEF SendFails, Settle
<1>6. CASE UNCHANGED <<queue, batch, fate, offered, dropped, failed>>
    BY <1>6
<1>7. QED
    BY <1>1, <1>2, <1>3, <1>4, <1>5, <1>6, FateCases

\* A flush waits for no event that was not offered before it.
MarksAreOffered == \A c \in Callers : mark[c] <= offered

\* Only the calls that return True to a flusher change the mark or say so.
LEMMA FlushReturns ==
    ASSUME TypeOK, [Next]_vars, NEW c \in Callers, result[c] # "flushed", result'[c] = "flushed"
    PROVE  Idle /\ UNCHANGED <<storeVars, offered>>
<1> USE DEF TypeOK, Drainers
<1>1. ASSUME NEW x \in Callers, \/ (\E f \in Flushers : StartCreate(x, f))
                                \/ AddRefused(x) \/ AddAccepted(x)
                                \/ FlushOnce(x) \/ WaitUntilIdle(x)
      PROVE  FALSE
    BY <1>1 DEF StartCreate, AddRefused, AddAccepted, FlushOnce, WaitUntilIdle, NewCall
<1>2. ASSUME NEW x \in Callers, StartRegister(x) \/ StartSpawn(x) \/ AddWake(x)
      PROVE  FALSE
    BY <1>2 DEF StartRegister, StartSpawn, AddWake, callVars
<1>3. ASSUME NEW f \in Flushers,
             FlusherWoken(f) \/ FlusherInterval(f) \/ FlusherClear(f) \/ FlusherReadsLatch(f)
      PROVE  FALSE
    BY <1>3 DEF FlusherWoken, FlusherInterval, FlusherClear, FlusherReadsLatch, callVars
<1>4. ASSUME NEW d \in Drainers, DrainGivesUp(d) \/ TakeNothing(d)
      PROVE  FALSE
    BY <1>4 DEF DrainGivesUp, TakeNothing, LeaveDrain
<1>5. ASSUME NEW d \in Drainers,
             DrainGoesOn(d) \/ TakeBatch(d) \/ SendOk(d) \/ SendFails(d) \/ BatchDone(d)
      PROVE  FALSE
    BY <1>5 DEF DrainGoesOn, TakeBatch, SendOk, SendFails, BatchDone, callVars
<1>6. ASSUME NEW d \in Drainers,
             \/ ShutdownArm(d) \/ ShutdownLatch(d) \/ ShutdownWake(d) \/ ShutdownJoined(d)
             \/ ShutdownOnFlushThread(d) \/ ShutdownJoinTimeout(d)
      PROVE  FALSE
    BY <1>6 DEF ShutdownArm, ShutdownLatch, ShutdownWake, ShutdownJoined, ShutdownOnFlushThread,
        ShutdownJoinTimeout, ReturnFromShutdown, NewCall, callVars
<1>7. ASSUME NEW x \in Callers, WaitCheck(x)
      PROVE  Idle /\ UNCHANGED <<storeVars, offered>>
    BY <1>7 DEF WaitCheck, ReturnFromWait
<1>8. ASSUME NEW x \in Callers, WaitTimeout(x)
      PROVE  Idle /\ UNCHANGED <<storeVars, offered>>
    BY <1>8 DEF WaitTimeout, ReturnFromWait
<1>9. CASE DeadlineExpires \/ UNCHANGED vars
    BY <1>9 DEF DeadlineExpires, vars, callVars
<1>10. QED
    BY NextCases, <1>1, <1>2, <1>3, <1>4, <1>5, <1>6, <1>7, <1>8, <1>9

\* What a thread waits for stays among the events offered.
LEMMA MarksStep ==
    ASSUME TypeOK, MarksAreOffered, [Next]_vars
    PROVE  MarksAreOffered'
<1> USE DEF TypeOK, MarksAreOffered
<1>1. CASE UNCHANGED <<mark, offered>>
    BY <1>1
<1>2. ASSUME NEW c \in Callers, AddRefused(c) \/ AddAccepted(c)
      PROVE  MarksAreOffered'
    BY <1>2, BufferAssumption DEF AddRefused, AddAccepted
<1>3. ASSUME NEW c \in Callers, FlushOnce(c) \/ WaitUntilIdle(c)
      PROVE  MarksAreOffered'
    <2>1. offered' = offered /\ mark' = [mark EXCEPT ![c] = offered]
        BY <1>3 DEF FlushOnce, WaitUntilIdle
    <2>2. \A x \in Callers : mark'[x] = mark[x] \/ mark'[x] = offered
        BY <2>1
    <2>3. offered \in Int
        BY BufferAssumption
    <2>4. QED
        BY <2>1, <2>2, <2>3
<1>4. ASSUME NEW c \in Callers, WaitCheck(c) \/ WaitTimeout(c)
      PROVE  MarksAreOffered'
    <2>1. offered' = offered /\ (mark' = mark \/ mark' = [mark EXCEPT ![c] = 0])
        BY <1>4 DEF WaitCheck, WaitTimeout, ReturnFromWait
    <2>2. QED
        BY <2>1, BufferAssumption
<1>5. QED
    BY NextCases, <1>1, <1>2, <1>3, <1>4 DEF vars, callVars,
        StartCreate, StartRegister, StartSpawn, AddWake,
        FlusherWoken, FlusherInterval, FlusherClear, FlusherReadsLatch,
        DrainGivesUp, DrainGoesOn, TakeNothing, TakeBatch, SendOk, SendFails, BatchDone,
        ShutdownArm, ShutdownLatch, ShutdownWake, ShutdownJoined, ShutdownOnFlushThread,
        ShutdownJoinTimeout, DeadlineExpires

\* When the buffer is idle every event that was offered is settled: none is
\* queued, and none is in the batch of a thread.
LEMMA IdleMeansSettled ==
    ASSUME TypeOK, InFlightCountsBatches, EveryEventInOnePlace, Idle,
           NEW e \in Event, e <= offered
    PROVE  fate[e] \in Settled
<1>1. inFlight = 0 /\ queue = <<>>
    BY DEF Idle, IdleWith
<1>2. Sending = {}
    BY <1>1, SendingFinite, FS_EmptySet DEF InFlightCountsBatches
<1>3. Holders(e) = {}
    <2>1. ASSUME NEW d \in Drainers
          PROVE  e \notin ToSet(batch[d])
        <3>1. batch[d] = <<>>
            BY <1>2 DEF Sending
        <3>2. QED
            BY <3>1 DEF ToSet
    <2>2. QED
        BY <2>1 DEF Holders
<1>4. fate[e] # "inflight"
    BY <1>3 DEF EveryEventInOnePlace
<1>5. fate[e] # "queued"
    <2>1. e \notin ToSet(queue)
        BY <1>1 DEF ToSet
    <2>2. QED
        BY <2>1 DEF EveryEventInOnePlace
<1>6. fate[e] # "none"
    <2>1. ~(e > offered)
        BY EventsAreNumbers DEF TypeOK
    <2>2. QED
        BY <2>1 DEF EveryEventInOnePlace
<1>7. QED
    BY <1>4, <1>5, <1>6 DEF TypeOK, Fates, Settled

-----------------------------------------------------------------------------
\* The inductive invariant of this module.
FateInv ==
    /\ BufferInv
    /\ EveryEventInOnePlace
    /\ LossIsCounted
    /\ MarksAreOffered

\* At first nothing was offered.
LEMMA FateInit == Init => FateInv
<1> SUFFICES ASSUME Init
             PROVE  FateInv
    OBVIOUS
<1>1. BufferInv
    BY InitInv
<1>2. EveryEventInOnePlace
    <2>1. /\ queue = <<>> /\ offered = 0 /\ fate = [e \in Event |-> "none"]
          /\ batch = [d \in Drainers |-> <<>>]
        BY DEF Init
    <2>2. ToSet(queue) = {}
        BY <2>1 DEF ToSet
    <2>3. ASSUME NEW e \in Event
          PROVE  Holders(e) = {}
        <3>1. \A d \in Drainers : e \notin ToSet(batch[d])
            BY <2>1 DEF ToSet
        <3>2. QED
            BY <3>1 DEF Holders
    <2>4. \A e \in Event : e > offered
        BY <2>1, BufferAssumption DEF Event
    <2>5. Increasing(queue) /\ Len(queue) <= MaxSize
        BY <2>1, BufferAssumption DEF Increasing
    <2>6. QED
        BY <2>1, <2>2, <2>3, <2>4, <2>5 DEF EveryEventInOnePlace
<1>3. LossIsCounted /\ MarksAreOffered
    BY BufferAssumption DEF Init, LossIsCounted, MarksAreOffered
<1>4. QED
    BY <1>1, <1>2, <1>3 DEF FateInv

\* Every step preserves the invariant.
LEMMA FateStep ==
    ASSUME FateInv, [Next]_vars
    PROVE  FateInv'
BY BufferInvStep, PlacesStep, LossStep, MarksStep DEF FateInv, BufferInv

\* The invariant holds in every reachable state.
LEMMA FateInvariance == Spec => []FateInv
<1>1. FateInv /\ [Next]_vars => FateInv'
    BY FateStep
<1>2. QED
    BY FateInit, <1>1, PTL DEF Spec

\* add(), _take_batch() and _send() lose no event and send none twice, with
\* any number of threads, and the queue never outgrows max_size.
THEOREM EventsInOnePlace == Spec => []EveryEventInOnePlace
BY FateInvariance, PTL DEF FateInv

\* No event is lost behind the counters.
THEOREM LossesShow == Spec => []LossIsCounted
BY FateInvariance, PTL DEF FateInv

\* A flush that returns True has seen every event offered before it settled,
\* whichever threads sent them.
THEOREM FlushesAreHonest == Spec => FlushMeansSettled
<1> DEFINE Honest(c) ==
        result[c] # "flushed" /\ result'[c] = "flushed"
            => \A e \in 1..mark[c] : fate'[e] \in Settled
<1>1. ASSUME FateInv, [Next]_vars
      PROVE  \A c \in Callers : Honest(c)
    <2>1. SUFFICES ASSUME NEW c \in Callers, result[c] # "flushed", result'[c] = "flushed",
                          NEW e \in 1..mark[c]
                   PROVE  fate'[e] \in Settled
        OBVIOUS
    <2>2. Idle /\ fate' = fate
        BY <1>1, <2>1, FlushReturns DEF FateInv, BufferInv, storeVars
    <2>3. e \in Event /\ e <= offered
        BY <1>1, <2>1, BufferAssumption DEF FateInv, BufferInv, MarksAreOffered, TypeOK, Event
    <2>4. QED
        BY <1>1, <2>2, <2>3, IdleMeansSettled DEF FateInv, BufferInv
<1>2. FateInv /\ [Next]_vars => [\A c \in Callers : Honest(c)]_vars
    BY <1>1
<1>3. QED
    BY FateInvariance, <1>2, PTL DEF Spec, FlushMeansSettled

-----------------------------------------------------------------------------
(* The buffer implements the channel, step by step.                        *)

Batches == {ToSet(batch[d]) : d \in {x \in Drainers : batch[x] # <<>>}}

Delivered == {e \in Event : fate[e] = "delivered"}

Lost == {e \in Event : fate[e] \in {"failed", "overflowed", "refused"}}

\* The channel counts as everybody does.
LEMMA SameCount ==
    ASSUME NEW S
    PROVE  Channel!Cardinality(S) = Cardinality(S)
BY DEF Cardinality, Channel!Cardinality

\* The channel evicts the oldest event when the buffer drops the head of its
\* queue.
LEMMA OldestByCount ==
    ASSUME NEW k, NEW x
    PROVE  x \in Channel!Oldest(k)
            <=> x \in ToSet(queue) /\ Cardinality({y \in ToSet(queue) : y <= x}) <= k
<1>1. Channel!Cardinality({y \in ToSet(queue) : y <= x}) = Cardinality({y \in ToSet(queue) : y <= x})
    BY SameCount
<1>2. QED
    BY <1>1 DEF Channel!Oldest

\* In an increasing sequence the elements up to the i-th are the i first.
LEMMA PrefixOfIncreasing ==
    ASSUME NEW s \in Seq(Event), Increasing(s), NEW i \in 1..Len(s)
    PROVE  Cardinality({x \in ToSet(s) : x <= s[i]}) = i
<1> DEFINE front == SubSeq(s, 1, i)
<1>1. front \in Seq(Event) /\ Len(front) = i
    OBVIOUS
<1>2. Increasing(front)
    BY SubSeqIncreasing
<1>3. \A j \in 1..i : front[j] = s[j]
    BY <1>1
<1> HIDE DEF front
<1>4. ASSUME NEW x
      PROVE  x \in ToSet(front) <=> x \in ToSet(s) /\ x <= s[i]
    <2>1. ASSUME x \in ToSet(front)
          PROVE  x \in ToSet(s) /\ x <= s[i]
        <3>1. PICK j \in 1..i : x = s[j]
            BY <1>1, <1>3, <2>1, ToSetMembers
        <3>2. j < i \/ j = i
            BY <3>1
        <3>3. j \in 1..Len(s) /\ s[j] \in Nat /\ s[i] \in Nat
            BY <3>1, EventsInOrder
        <3>4. s[j] <= s[i]
            BY <3>2, <3>3 DEF Increasing
        <3>5. QED
            BY <3>1, <3>3, <3>4, ToSetMembers
    <2>2. ASSUME x \in ToSet(s), x <= s[i]
          PROVE  x \in ToSet(front)
        <3>1. PICK j \in 1..Len(s) : x = s[j]
            BY <2>2, ToSetMembers
        <3>2. s[j] \in Nat /\ s[i] \in Nat
            BY EventsInOrder
        <3>3. ~(i < j)
            BY <2>2, <3>1, <3>2 DEF Increasing
        <3>4. j \in 1..i
            BY <3>3
        <3>5. QED
            BY <1>1, <1>3, <3>1, <3>4, ToSetMembers
    <2>3. QED
        BY <2>1, <2>2
<1>5. {x \in ToSet(s) : x <= s[i]} = ToSet(front)
    BY <1>4
<1>6. QED
    BY <1>1, <1>2, <1>5, IncreasingCounts

\* The oldest k pending events of the channel are the first k of the queue.
LEMMA OldestIsFront ==
    ASSUME queue \in Seq(Event), Increasing(queue), NEW k \in Nat,
           NEW n \in 0..Len(queue), n = IF Len(queue) < k THEN Len(queue) ELSE k
    PROVE  Channel!Oldest(k) = ToSet(SubSeq(queue, 1, n))
<1> DEFINE front == SubSeq(queue, 1, n)
<1>1. front \in Seq(Event) /\ Len(front) = n
    OBVIOUS
<1>2. \A j \in 1..n : front[j] = queue[j]
    BY <1>1
<1> HIDE DEF front
<1>3. \A i \in 1..Len(queue) : i <= k <=> i \in 1..n
    OBVIOUS
<1>4. ASSUME NEW x
      PROVE  x \in Channel!Oldest(k) <=> x \in ToSet(front)
    <2>1. ASSUME x \in Channel!Oldest(k)
          PROVE  x \in ToSet(front)
        <3>1. x \in ToSet(queue) /\ Cardinality({y \in ToSet(queue) : y <= x}) <= k
            BY <2>1, OldestByCount
        <3>2. PICK i \in 1..Len(queue) : x = queue[i]
            BY <3>1, ToSetMembers
        <3>3. Cardinality({y \in ToSet(queue) : y <= x}) = i
            BY <3>2, PrefixOfIncreasing
        <3>4. i \in 1..n
            BY <1>3, <3>1, <3>3
        <3>5. QED
            BY <1>1, <1>2, <3>2, <3>4, ToSetMembers
    <2>2. ASSUME x \in ToSet(front)
          PROVE  x \in Channel!Oldest(k)
        <3>1. PICK i \in 1..n : x = queue[i]
            BY <1>1, <1>2, <2>2, ToSetMembers
        <3>2. i \in 1..Len(queue)
            BY <3>1
        <3>3. Cardinality({y \in ToSet(queue) : y <= x}) = i
            BY <3>1, <3>2, PrefixOfIncreasing
        <3>4. x \in ToSet(queue)
            BY <3>1, <3>2, ToSetMembers
        <3>5. i <= k
            BY <1>3, <3>2
        <3>6. QED
            BY <3>3, <3>4, <3>5, OldestByCount
    <2>3. QED
        BY <2>1, <2>2
<1>5. QED
    BY <1>4 DEF front

\* What the channel shows of the buffer: a step that leaves all of this
\* alone is one the channel does not see.
LEMMA UnseenStep ==
    ASSUME UNCHANGED <<queue, batch, fate, offered, shutdown>>
    PROVE  UNCHANGED Channel!channelVars
BY DEF Channel!channelVars

\* A refusal is one of the channel.
LEMMA AddRefusedRefuses ==
    ASSUME FateInv, NEW c \in Callers, AddRefused(c)
    PROVE  Channel!Refuse
<1>1. TypeOK /\ EveryEventInOnePlace
    BY DEF FateInv, BufferInv
<1>2. offered + 1 \in Event
    BY <1>1, BufferAssumption DEF AddRefused, TypeOK, Event
<1>3. /\ UNCHANGED <<queue, batch, shutdown>> /\ shutdown /\ offered' = offered + 1
      /\ fate' = [fate EXCEPT ![offered + 1] = "refused"]
    BY DEF AddRefused, Refuses, signalVars
<1>4. \A e \in Event : fate'[e] = IF e = offered + 1 THEN "refused" ELSE fate[e]
    BY <1>1, <1>2, <1>3 DEF TypeOK
<1>5. fate[offered + 1] = "none"
    <2>1. offered + 1 > offered
        BY <1>1, BufferAssumption DEF TypeOK
    <2>2. QED
        BY <1>1, <1>2, <2>1 DEF EveryEventInOnePlace
<1>6. Lost' = Lost \cup {offered + 1}
    BY <1>2, <1>4, <1>5 DEF Lost
<1>7. Delivered' = Delivered
    BY <1>2, <1>4, <1>5 DEF Delivered
<1>8. QED
    BY <1>2, <1>3, <1>6, <1>7 DEF Channel!Refuse, Lost, Delivered

\* An add is one of the channel, with the same eviction.
LEMMA AddAcceptedAccepts ==
    ASSUME FateInv, NEW c \in Callers, AddAccepted(c)
    PROVE  Channel!Accept
<1> DEFINE room == MakeRoom(queue)
           new == offered + 1
<1>1. TypeOK /\ EveryEventInOnePlace /\ queue \in Seq(Event) /\ Increasing(queue) /\ Len(queue) <= MaxSize
    BY DEF FateInv, BufferInv, TypeOK, EveryEventInOnePlace
<1>2. new \in Event
    BY <1>1, BufferAssumption DEF AddAccepted, TypeOK, Event
<1>3. /\ UNCHANGED <<batch, shutdown>> /\ ~shutdown /\ offered' = new
      /\ queue' = Append(room, new)
      /\ fate' = [x \in Event |-> IF x = new THEN "queued"
                                  ELSE IF x \in ToSet(queue) \ ToSet(room) THEN "overflowed"
                                  ELSE fate[x]]
    BY DEF AddAccepted, Refuses, signalVars
<1>4. /\ room \in Seq(Event) /\ Increasing(room) /\ ToSet(room) \subseteq ToSet(queue)
      /\ ToSet(queue) \ ToSet(room) = Excess
    BY <1>1, RoomIsMade
<1> HIDE DEF room
<1>5. \A x \in ToSet(queue) : x \in Event /\ x < new
    BY <1>1, QueuedBefore
<1>6. ToSet(queue') = (ToSet(queue) \ Excess) \cup {new}
    <2>1. ToSet(queue') = ToSet(room) \cup {new}
        BY <1>2, <1>3, <1>4, <1>5, AppendIncreasing
    <2>2. QED
        BY <1>4, <2>1
<1>7. fate[new] = "none" /\ new \notin Excess
    <2>1. new > offered
        BY <1>1, BufferAssumption DEF TypeOK
    <2>2. fate[new] = "none"
        BY <1>1, <1>2, <2>1 DEF EveryEventInOnePlace
    <2>3. QED
        BY <1>1, <1>2, <1>4, <2>2 DEF EveryEventInOnePlace
<1>8. \A e \in Event : fate'[e] = IF e = new THEN "queued"
                                  ELSE IF e \in Excess THEN "overflowed" ELSE fate[e]
    BY <1>3, <1>4
<1>9. \A e \in Excess : e \in Event /\ fate[e] = "queued"
    BY <1>1, <1>4, <1>5 DEF EveryEventInOnePlace
<1>10. Lost' = Lost \cup Excess
    BY <1>2, <1>7, <1>8, <1>9 DEF Lost
<1>11. Delivered' = Delivered
    BY <1>2, <1>7, <1>8, <1>9 DEF Delivered
<1>12. Excess = IF Cardinality(ToSet(queue)) = MaxSize THEN Channel!Oldest(1) ELSE {}
    <2>1. Cardinality(ToSet(queue)) = Len(queue)
        BY <1>1, IncreasingCounts
    <2>2. CASE Overflowing(queue)
        <3>1. 1 \in 0..Len(queue) /\ 1 = IF Len(queue) < 1 THEN Len(queue) ELSE 1
            BY <1>1, <2>2, BufferAssumption DEF Overflowing
        <3>2. Channel!Oldest(1) = ToSet(SubSeq(queue, 1, 1))
            BY <1>1, <3>1, OldestIsFront
        <3>3. QED
            BY <2>1, <2>2, <3>2 DEF Excess, Overflowing
    <2>3. CASE ~Overflowing(queue)
        BY <2>1, <2>3 DEF Excess, Overflowing
    <2>4. QED
        BY <2>2, <2>3
<1>13. Channel!Cardinality(ToSet(queue)) = Cardinality(ToSet(queue))
    BY SameCount
<1>14. QED
    BY <1>2, <1>3, <1>6, <1>10, <1>11, <1>12, <1>13 DEF Channel!Accept, Lost, Delivered

\* A batch taken is taken from the channel.
LEMMA TakeBatchTakes ==
    ASSUME FateInv, NEW d \in Drainers, TakeBatch(d)
    PROVE  Channel!Take
<1> DEFINE taken == SubSeq(queue, 1, BatchSize)
<1>1. /\ TypeOK /\ BatchesHeld /\ EveryEventInOnePlace
      /\ queue \in Seq(Event) /\ Increasing(queue) /\ Len(queue) \in Nat
    BY DEF FateInv, BufferInv, TypeOK, EveryEventInOnePlace
<1>2. /\ queue # <<>> /\ queue' = Rest(BatchSize) /\ UNCHANGED <<offered, shutdown>>
      /\ batch' = [batch EXCEPT ![d] = taken]
      /\ fate' = [e \in Event |-> IF e \in ToSet(taken) THEN "inflight" ELSE fate[e]]
    BY DEF TakeBatch, Settle, callVars, signalVars
<1>3. batch[d] = <<>> /\ batch \in [Drainers -> Seq(Event)] /\ taken # <<>>
    BY <1>1, <1>2, BatchTyping DEF TakeBatch, BatchesHeld, TypeOK
<1>4. /\ ToSet(queue) = ToSet(taken) \cup ToSet(queue')
      /\ ToSet(taken) \cap ToSet(queue') = {}
    BY <1>1, <1>2, BatchCut
<1>5. Channel!Oldest(FlushAt) = ToSet(taken)
    <2>1. BatchSize \in 0..Len(queue) /\ FlushAt \in Nat
        BY <1>1, BatchTyping, BufferAssumption
    <2>2. QED
        BY <1>1, <2>1, OldestIsFront DEF BatchSize
<1> HIDE DEF taken
<1>6. ToSet(queue) # {}
    <2>1. Len(queue) > 0
        BY <1>1, <1>2
    <2>2. queue[1] \in ToSet(queue)
        BY <1>1, <2>1, ToSetMembers
    <2>3. QED
        BY <2>2
<1>7. ToSet(queue') = ToSet(queue) \ ToSet(taken)
    BY <1>4
<1>8. Batches' = Batches \cup {ToSet(taken)}
    BY <1>2, <1>3 DEF Batches
<1>9. \A e \in Event : fate'[e] = IF e \in ToSet(taken) THEN "inflight" ELSE fate[e]
    BY <1>2
<1>10. \A e \in Event : e \in ToSet(taken) => fate[e] = "queued"
    BY <1>1, <1>4 DEF EveryEventInOnePlace
<1>11. Lost' = Lost
    BY <1>9, <1>10 DEF Lost
<1>12. Delivered' = Delivered
    BY <1>9, <1>10 DEF Delivered
<1>13. QED
    BY <1>2, <1>5, <1>6, <1>7, <1>8, <1>11, <1>12 DEF Channel!Take, Lost, Delivered, Batches

\* No two threads hold the same batch, so a send takes its own batch out of
\* the channel and no other.
LEMMA BatchLeaves ==
    ASSUME TypeOK, EveryEventInOnePlace, NEW d \in Drainers, batch[d] # <<>>,
           batch' = [batch EXCEPT ![d] = <<>>]
    PROVE  ToSet(batch[d]) \in Batches /\ Batches' = Batches \ {ToSet(batch[d])}
<1>1. \A x \in Drainers : batch'[x] = IF x = d THEN <<>> ELSE batch[x]
    BY DEF TypeOK
<1>2. ASSUME NEW x \in Drainers, x # d, batch[x] # <<>>
      PROVE  ToSet(batch[x]) # ToSet(batch[d])
    <2>1. batch[x] \in Seq(Event)
        BY DEF TypeOK
    <2>2. Len(batch[x]) > 0
        BY <1>2, <2>1
    <2>3. batch[x][1] \in ToSet(batch[x]) /\ batch[x][1] \in Event
        BY <2>1, <2>2, ToSetMembers
    <2>4. x \in Holders(batch[x][1])
        BY <2>3 DEF Holders
    <2>5. d \notin Holders(batch[x][1])
        BY <1>2, <2>3, <2>4 DEF EveryEventInOnePlace
    <2>6. batch[x][1] \notin ToSet(batch[d])
        BY <2>5 DEF Holders
    <2>7. QED
        BY <2>3, <2>6
<1>3. QED
    BY <1>1, <1>2 DEF Batches

\* A batch that leaves a thread is delivered or lost in the channel.
LEMMA SendLeavesChannel ==
    ASSUME FateInv, NEW d \in Drainers, SendOk(d) \/ SendFails(d)
    PROVE  \E b \in Batches : Channel!Deliver(b) \/ Channel!Lose(b)
<1>1. TypeOK /\ BatchesHeld /\ EveryEventInOnePlace
    BY DEF FateInv, BufferInv
<1>2. /\ pc[d] = "send" /\ batch' = [batch EXCEPT ![d] = <<>>]
      /\ UNCHANGED <<queue, offered, shutdown>>
    BY DEF SendOk, SendFails, callVars, signalVars
<1>3. batch[d] # <<>> /\ batch[d] \in Seq(Event)
    BY <1>1, <1>2 DEF BatchesHeld, TypeOK
<1>4. ToSet(batch[d]) \in Batches /\ Batches' = Batches \ {ToSet(batch[d])}
    BY <1>1, <1>2, <1>3, BatchLeaves
<1>5. \A e \in ToSet(batch[d]) : e \in Event /\ fate[e] = "inflight"
    <2>1. ToSet(batch[d]) \subseteq Event
        BY <1>3, ToSetTyping
    <2>2. \A e \in ToSet(batch[d]) : d \in Holders(e)
        BY DEF Holders
    <2>3. QED
        BY <1>1, <2>1, <2>2 DEF EveryEventInOnePlace
<1>6. CASE SendOk(d)
    <2>1. \A e \in Event : fate'[e] = IF e \in ToSet(batch[d]) THEN "delivered" ELSE fate[e]
        BY <1>6 DEF SendOk, Settle
    <2>2. Delivered' = Delivered \cup ToSet(batch[d])
        BY <1>5, <2>1 DEF Delivered
    <2>3. Lost' = Lost
        BY <1>5, <2>1 DEF Lost
    <2>4. Channel!Deliver(ToSet(batch[d]))
        BY <1>2, <1>4, <2>2, <2>3 DEF Channel!Deliver, Lost, Delivered, Batches
    <2>5. QED
        BY <1>4, <2>4 DEF Channel!Deliver
<1>7. CASE SendFails(d)
    <2>1. \A e \in Event : fate'[e] = IF e \in ToSet(batch[d]) THEN "failed" ELSE fate[e]
        BY <1>7 DEF SendFails, Settle
    <2>2. Lost' = Lost \cup ToSet(batch[d])
        BY <1>5, <2>1 DEF Lost
    <2>3. Delivered' = Delivered
        BY <1>5, <2>1 DEF Delivered
    <2>4. Channel!Lose(ToSet(batch[d]))
        BY <1>2, <1>4, <2>2, <2>3 DEF Channel!Lose, Lost, Delivered, Batches
    <2>5. QED
        BY <1>4, <2>4 DEF Channel!Lose
<1>8. QED
    BY <1>6, <1>7

\* A buffer that is shut down twice closes the channel once.
LEMMA LatchCloses ==
    ASSUME TypeOK, NEW d \in Drainers, ShutdownLatch(d)
    PROVE  Channel!Close \/ UNCHANGED Channel!channelVars
<1>1. UNCHANGED <<queue, batch, fate, offered>> /\ shutdown' = TRUE /\ shutdown \in BOOLEAN
    BY DEF ShutdownLatch, storeVars, callVars, TypeOK
<1>2. CASE shutdown
    BY <1>1, <1>2, UnseenStep
<1>3. CASE ~shutdown
    BY <1>1, <1>3 DEF Channel!Close
<1>4. QED
    BY <1>1, <1>2, <1>3

\* The steps the channel sees.
LEMMA ChannelCases ==
    ASSUME [Next]_vars
    PROVE  \/ \E c \in Callers : AddRefused(c) \/ AddAccepted(c)
           \/ \E d \in Drainers : TakeBatch(d) \/ SendOk(d) \/ SendFails(d) \/ ShutdownLatch(d)
           \/ UNCHANGED <<queue, batch, fate, offered, shutdown>>
BY NextCases DEF vars, storeVars, callVars, signalVars, threadVars,
    StartCreate, StartRegister, StartSpawn, AddWake, FlushOnce, WaitUntilIdle, WaitCheck, WaitTimeout,
    FlusherWoken, FlusherInterval, FlusherClear, FlusherReadsLatch,
    DrainGivesUp, DrainGoesOn, TakeNothing, BatchDone,
    ShutdownArm, ShutdownWake, ShutdownJoined, ShutdownOnFlushThread,
    ShutdownJoinTimeout, DeadlineExpires

\* Every step is one of the channel, or none of them.
LEMMA ChannelStep ==
    ASSUME FateInv, [Next]_vars
    PROVE  [Channel!Next]_Channel!channelVars
<1>1. ASSUME NEW c \in Callers, AddRefused(c)
      PROVE  Channel!Next
    BY <1>1, AddRefusedRefuses DEF Channel!Next
<1>2. ASSUME NEW c \in Callers, AddAccepted(c)
      PROVE  Channel!Next
    BY <1>2, AddAcceptedAccepts DEF Channel!Next
<1>3. ASSUME NEW d \in Drainers, TakeBatch(d)
      PROVE  Channel!Next
    BY <1>3, TakeBatchTakes DEF Channel!Next
<1>4. ASSUME NEW d \in Drainers, SendOk(d) \/ SendFails(d)
      PROVE  Channel!Next
    BY <1>4, SendLeavesChannel DEF Channel!Next, Batches
<1>5. ASSUME NEW d \in Drainers, ShutdownLatch(d)
      PROVE  [Channel!Next]_Channel!channelVars
    BY <1>5, LatchCloses DEF Channel!Next, FateInv, BufferInv
<1>6. CASE UNCHANGED <<queue, batch, fate, offered, shutdown>>
    BY <1>6, UnseenStep
<1>7. QED
    BY <1>1, <1>2, <1>3, <1>4, <1>5, <1>6, ChannelCases

\* The buffer begins as the channel does.
LEMMA ChannelInit == Init => Channel!Init
<1> SUFFICES ASSUME Init
             PROVE  Channel!Init
    OBVIOUS
<1>1. /\ queue = <<>> /\ offered = 0 /\ fate = [e \in Event |-> "none"]
      /\ batch = [d \in Drainers |-> <<>>] /\ shutdown = FALSE
    BY DEF Init
<1>2. ToSet(queue) = {}
    BY <1>1 DEF ToSet
<1>3. Batches = {} /\ Delivered = {} /\ Lost = {}
    BY <1>1 DEF Batches, Delivered, Lost
<1>4. QED
    BY <1>1, <1>2, <1>3 DEF Channel!Init, Batches, Delivered, Lost

\* The buffer is the lossy channel: first in, first out in batches, each
\* event handed out at most once and lost only in the ways it documents, for
\* any number of threads, any capacity and any batch size.
THEOREM BufferImplementsChannel == Spec => ImplementsChannel
<1>1. FateInv /\ [Next]_vars => [Channel!Next]_Channel!channelVars
    BY ChannelStep
<1>2. QED
    BY ChannelInit, FateInvariance, <1>1, PTL DEF Spec, ImplementsChannel, Channel!Spec

=============================================================================
