------------------------- MODULE EventBufferProofs -------------------------
(* Theorems about EventBuffer, for every value of its constants. *)
EXTENDS EventBufferProperties, TLAPS, FiniteSetTheorems

\* A sequence other than the empty one has a head.
LEMMA NonEmpty ==
    ASSUME NEW s, Len(s) # 0
    PROVE  s # <<>>
BY Len(<<>>) = 0

\* What is left of the queue and what a batch takes are sequences of events,
\* and a batch taken off a queue that is not empty is not empty.
LEMMA BatchTyping ==
    ASSUME TypeOK
    PROVE  /\ BatchSize \in 0..Len(queue)
           /\ Rest(BatchSize) \in Seq(Event)
           /\ SubSeq(queue, 1, BatchSize) \in Seq(Event)
           /\ queue # <<>> => SubSeq(queue, 1, BatchSize) # <<>>
<1>1. FlushAt \in Nat \ {0} /\ queue \in Seq(Event) /\ Len(queue) \in Nat
    BY BufferAssumption DEF TypeOK
<1>2. BatchSize \in 0..Len(queue)
    BY <1>1 DEF BatchSize
<1>3. Rest(BatchSize) \in Seq(Event) /\ SubSeq(queue, 1, BatchSize) \in Seq(Event)
    BY <1>1, <1>2 DEF Rest
<1>4. ASSUME queue # <<>>
      PROVE  SubSeq(queue, 1, BatchSize) # <<>>
    <2>1. Len(queue) > 0
        BY <1>1, <1>4
    <2>2. BatchSize > 0
        BY <1>1, <2>1 DEF BatchSize
    <2>3. Len(SubSeq(queue, 1, BatchSize)) = BatchSize
        BY <1>1, <1>2
    <2>4. Len(SubSeq(queue, 1, BatchSize)) # 0
        BY <1>2, <2>2, <2>3
    <2>5. QED
        BY <2>4, NonEmpty
<1>5. QED
    BY <1>2, <1>3, <1>4

\* An event that is accepted goes behind what is left of the queue.
LEMMA RoomTyping ==
    ASSUME TypeOK
    PROVE  MakeRoom(queue) \in Seq(Event)
<1>1. MaxSize \in Nat \ {0} /\ queue \in Seq(Event) /\ Len(queue) \in Nat
    BY BufferAssumption DEF TypeOK
<1>2. CASE Overflowing(queue)
    <2>1. queue # <<>>
        BY <1>1, <1>2 DEF Overflowing
    <2>2. QED
        BY <1>1, <1>2, <2>1 DEF MakeRoom
<1>3. CASE ~Overflowing(queue)
    BY <1>1, <1>3 DEF MakeRoom
<1>4. QED
    BY <1>2, <1>3

-----------------------------------------------------------------------------
\* What every leaf about a step expands: the grouping of the variables and
\* the program counter.
LEMMA NextCases ==
    ASSUME [Next]_vars
    PROVE  \/ \E c \in Callers :
                \/ (\E f \in Flushers : StartCreate(c, f))
                \/ StartRegister(c) \/ StartSpawn(c)
                \/ AddRefused(c) \/ AddAccepted(c) \/ AddWake(c)
                \/ FlushOnce(c) \/ WaitUntilIdle(c) \/ WaitCheck(c) \/ WaitTimeout(c)
           \/ \E f \in Flushers :
                FlusherWoken(f) \/ FlusherInterval(f) \/ FlusherClear(f) \/ FlusherReadsLatch(f)
           \/ \E d \in Drainers :
                \/ DrainGivesUp(d) \/ DrainGoesOn(d) \/ TakeNothing(d) \/ TakeBatch(d)
                \/ SendOk(d) \/ SendFails(d) \/ BatchDone(d)
                \/ ShutdownArm(d) \/ ShutdownLatch(d) \/ ShutdownWake(d) \/ ShutdownJoined(d)
                \/ ShutdownOnFlushThread(d) \/ ShutdownJoinTimeout(d)
           \/ DeadlineExpires
           \/ UNCHANGED vars
BY DEF Next, Start, Add, Run, Send, Drain, Flush, Shutdown

\* The threads are finitely many.
LEMMA DrainersFinite == IsFiniteSet(Drainers)
BY BufferAssumption, FS_Union DEF Drainers

\* Finitely many threads have a batch in flight.
LEMMA SendingFinite == IsFiniteSet(Sending)
BY DrainersFinite, FS_Subset, Sending \in SUBSET Drainers DEF Sending

\* A thread that is about to call _batch_done() is counted.
LEMMA SentIsCounted ==
    ASSUME InFlightCountsBatches, NEW d \in Drainers, pc[d] = "sent"
    PROVE  inFlight \in Nat /\ inFlight > 0
<1>1. d \in Sending
    BY DEF Sending
<1>2. QED
    BY <1>1, SendingFinite, FS_EmptySet, FS_CardinalityType DEF InFlightCountsBatches

\* A drain ends in a label of the thread's own kind.
LEMMA LeaveDrainTyping ==
    ASSUME TypeOK, NEW d \in Drainers, NEW how \in Results, LeaveDrain(d, how)
    PROVE  /\ pc' \in [Drainers -> CallerLabels \cup FlusherLabels \cup SharedLabels]
           /\ \A c \in Callers : pc'[c] \in CallerLabels \cup SharedLabels
           /\ \A f \in Flushers : pc'[f] \in FlusherLabels \cup SharedLabels
           /\ result' \in [Drainers -> Results]
<1> USE BufferAssumption DEF TypeOK, Drainers, CallerLabels, FlusherLabels, SharedLabels, Goto
<1>1. CASE d \in Callers /\ Goto(d, "check") /\ result' = result
    BY <1>1
<1>2. CASE d \in Flushers /\ Goto(d, "dead") /\ result' = [result EXCEPT ![d] = how]
    BY <1>2
<1>3. CASE d \in Flushers /\ Goto(d, "wait") /\ result' = result
    BY <1>3
<1>4. QED
    BY <1>1, <1>2, <1>3 DEF LeaveDrain

\* Every step preserves the type of the state.
LEMMA TypingStep ==
    ASSUME TypeOK, BatchesHeld, InFlightCountsBatches, [Next]_vars
    PROVE  TypeOK'
<1> USE DEF TypeOK, CallerLabels, FlusherLabels, SharedLabels, Fates, Results, Drainers,
            storeVars, signalVars, threadVars, callVars
<1>1. ASSUME NEW c \in Callers, NEW f \in Flushers, StartCreate(c, f)
      PROVE  TypeOK'
    BY <1>1, BufferAssumption DEF StartCreate, NewCall
<1>2. ASSUME NEW c \in Callers, StartRegister(c)
      PROVE  TypeOK'
    BY <1>2 DEF StartRegister, Goto
<1>3. ASSUME NEW c \in Callers, StartSpawn(c)
      PROVE  TypeOK'
    <2>1. pc' \in [Drainers -> CallerLabels \cup FlusherLabels \cup SharedLabels]
        BY <1>3 DEF StartSpawn
    <2>2. starting[c] \notin Callers
        BY BufferAssumption
    <2>3. \A x \in Callers : pc'[x] \in CallerLabels \cup SharedLabels
        BY <1>3, <2>2 DEF StartSpawn
    <2>4. \A x \in Flushers : pc'[x] \in FlusherLabels \cup SharedLabels
        BY <1>3, BufferAssumption DEF StartSpawn
    <2>5. starting' \in [Callers -> Flushers \cup {None}]
        BY <1>3 DEF StartSpawn
    <2>6. QED
        BY <1>3, <2>1, <2>3, <2>4, <2>5 DEF StartSpawn
<1>4. ASSUME NEW c \in Callers, AddRefused(c)
      PROVE  TypeOK'
    BY <1>4, BufferAssumption DEF AddRefused, NewCall, Event
<1>5. ASSUME NEW c \in Callers, AddAccepted(c)
      PROVE  TypeOK'
    <2>1. offered + 1 \in Event /\ offered' \in 0..MaxEvents
        BY <1>5, BufferAssumption DEF AddAccepted, Event
    <2>2. queue' \in Seq(Event)
        BY <1>5, <2>1, RoomTyping DEF AddAccepted
    <2>3. fate' \in [Event -> Fates]
        BY <1>5 DEF AddAccepted
    <2>4. dropped' \in Nat
        BY <1>5 DEF AddAccepted
    <2>5. QED
        BY <1>5, <2>1, <2>2, <2>3, <2>4, BufferAssumption DEF AddAccepted, NewCall, Goto
<1>6. ASSUME NEW c \in Callers, AddWake(c)
      PROVE  TypeOK'
    BY <1>6 DEF AddWake, Goto
<1>7. ASSUME NEW c \in Callers, FlushOnce(c)
      PROVE  TypeOK'
    BY <1>7 DEF FlushOnce, NewCall, Goto
<1>8. ASSUME NEW c \in Callers, WaitUntilIdle(c)
      PROVE  TypeOK'
    BY <1>8 DEF WaitUntilIdle, NewCall, Goto
<1>9. ASSUME NEW c \in Callers, WaitCheck(c)
      PROVE  TypeOK'
    <2>1. CASE Idle /\ ReturnFromWait(c, "flushed")
        BY <1>9, <2>1, BufferAssumption DEF WaitCheck, ReturnFromWait, Goto
    <2>2. CASE Goto(c, "parked") /\ UNCHANGED <<mark, result>>
        BY <1>9, <2>2, BufferAssumption DEF WaitCheck, Goto
    <2>3. QED
        BY <1>9, <2>1, <2>2 DEF WaitCheck
<1>10. ASSUME NEW c \in Callers, WaitTimeout(c)
       PROVE  TypeOK'
    BY <1>10, BufferAssumption DEF WaitTimeout, ReturnFromWait, Goto
<1>11. ASSUME NEW f \in Flushers, FlusherWoken(f)
       PROVE  TypeOK'
    BY <1>11 DEF FlusherWoken, Goto
<1>12. ASSUME NEW f \in Flushers, FlusherInterval(f)
       PROVE  TypeOK'
    BY <1>12 DEF FlusherInterval, Goto
<1>13. ASSUME NEW f \in Flushers, FlusherClear(f)
       PROVE  TypeOK'
    BY <1>13 DEF FlusherClear, Goto
<1>14. ASSUME NEW f \in Flushers, FlusherReadsLatch(f)
       PROVE  TypeOK'
    BY <1>14 DEF FlusherReadsLatch, Goto
<1>15. ASSUME NEW d \in Drainers, DrainGivesUp(d)
       PROVE  TypeOK'
    BY <1>15, LeaveDrainTyping DEF DrainGivesUp
<1>16. ASSUME NEW d \in Drainers, DrainGoesOn(d)
       PROVE  TypeOK'
    BY <1>16 DEF DrainGoesOn, Goto
<1>17. ASSUME NEW d \in Drainers, TakeNothing(d)
       PROVE  TypeOK'
    BY <1>17, LeaveDrainTyping DEF TakeNothing
<1>18. ASSUME NEW d \in Drainers, TakeBatch(d)
       PROVE  TypeOK'
    BY <1>18, BatchTyping DEF TakeBatch, Goto, Settle
<1>19. ASSUME NEW d \in Drainers, SendOk(d)
       PROVE  TypeOK'
    BY <1>19 DEF SendOk, Goto, Settle
<1>20. ASSUME NEW d \in Drainers, SendFails(d)
       PROVE  TypeOK'
    BY <1>20 DEF SendFails, Goto, Settle
<1>21. ASSUME NEW d \in Drainers, BatchDone(d)
       PROVE  TypeOK'
    <2>1. inFlight' \in Nat
        BY <1>21, SentIsCounted DEF BatchDone
    <2>2. QED
        BY <1>21, <2>1, BufferAssumption DEF BatchDone
<1>22. ASSUME NEW d \in Drainers, ShutdownArm(d)
       PROVE  TypeOK'
    BY <1>22 DEF ShutdownArm, CallsShutdown, NewCall, Goto
<1>23. ASSUME NEW d \in Drainers, ShutdownLatch(d)
       PROVE  TypeOK'
    BY <1>23 DEF ShutdownLatch, Goto
<1>24. ASSUME NEW d \in Drainers, ShutdownWake(d)
       PROVE  TypeOK'
    BY <1>24 DEF ShutdownWake, Goto
<1>25. ASSUME NEW d \in Drainers, ShutdownJoined(d)
       PROVE  TypeOK'
    BY <1>25 DEF ShutdownJoined, ReturnFromShutdown, Goto, BatchesHeld
<1>26. ASSUME NEW d \in Drainers, ShutdownOnFlushThread(d)
       PROVE  TypeOK'
    BY <1>26 DEF ShutdownOnFlushThread, ReturnFromShutdown, Goto, BatchesHeld
<1>27. ASSUME NEW d \in Drainers, ShutdownJoinTimeout(d)
       PROVE  TypeOK'
    BY <1>27 DEF ShutdownJoinTimeout, ReturnFromShutdown, Goto, BatchesHeld
<1>28. ASSUME DeadlineExpires
       PROVE  TypeOK'
    BY <1>28 DEF DeadlineExpires
<1>29. CASE UNCHANGED vars
    BY <1>29 DEF vars
<1>30. QED
    BY NextCases, <1>1, <1>2, <1>3, <1>4, <1>5, <1>6, <1>7, <1>8, <1>9, <1>10, <1>11, <1>12,
       <1>13, <1>14, <1>15, <1>16, <1>17, <1>18, <1>19, <1>20, <1>21, <1>22, <1>23, <1>24,
       <1>25, <1>26, <1>27, <1>28, <1>29

\* A thread object is started by the caller that created it, and by no other.
LEMMA ThreadsStartedStep ==
    ASSUME TypeOK, BatchesHeld, ThreadsStartedOnce, [Next]_vars
    PROVE  ThreadsStartedOnce'
<1> USE BufferAssumption DEF ThreadsStartedOnce, TypeOK, Drainers, CallerLabels,
   FlusherLabels, SharedLabels,
            storeVars, signalVars, threadVars, callVars
<1>1. ASSUME NEW c \in Callers, NEW f \in Flushers, StartCreate(c, f)
      PROVE  ThreadsStartedOnce'
    BY <1>1 DEF StartCreate, NewCall
<1>2. ASSUME NEW c \in Callers, StartRegister(c)
      PROVE  ThreadsStartedOnce'
    BY <1>2 DEF StartRegister, Goto
<1>3. ASSUME NEW c \in Callers, StartSpawn(c)
      PROVE  ThreadsStartedOnce'
    BY <1>3 DEF StartSpawn
<1>4. ASSUME NEW c \in Callers, AddRefused(c)
      PROVE  ThreadsStartedOnce'
    BY <1>4 DEF AddRefused, NewCall
<1>5. ASSUME NEW c \in Callers, AddAccepted(c)
      PROVE  ThreadsStartedOnce'
    BY <1>5 DEF AddAccepted, NewCall, Goto
<1>6. ASSUME NEW c \in Callers, AddWake(c)
      PROVE  ThreadsStartedOnce'
    BY <1>6 DEF AddWake, Goto
<1>7. ASSUME NEW c \in Callers, FlushOnce(c)
      PROVE  ThreadsStartedOnce'
    BY <1>7 DEF FlushOnce, NewCall, Goto
<1>8. ASSUME NEW c \in Callers, WaitUntilIdle(c)
      PROVE  ThreadsStartedOnce'
    BY <1>8 DEF WaitUntilIdle, NewCall, Goto
<1>9. ASSUME NEW c \in Callers, WaitCheck(c)
      PROVE  ThreadsStartedOnce'
    BY <1>9 DEF WaitCheck, ReturnFromWait, Goto
<1>10. ASSUME NEW c \in Callers, WaitTimeout(c)
       PROVE  ThreadsStartedOnce'
    BY <1>10 DEF WaitTimeout, ReturnFromWait, Goto
<1>11. ASSUME NEW f \in Flushers, FlusherWoken(f)
       PROVE  ThreadsStartedOnce'
    BY <1>11 DEF FlusherWoken, Goto
<1>12. ASSUME NEW f \in Flushers, FlusherInterval(f)
       PROVE  ThreadsStartedOnce'
    BY <1>12 DEF FlusherInterval, Goto
<1>13. ASSUME NEW f \in Flushers, FlusherClear(f)
       PROVE  ThreadsStartedOnce'
    BY <1>13 DEF FlusherClear, Goto
<1>14. ASSUME NEW f \in Flushers, FlusherReadsLatch(f)
       PROVE  ThreadsStartedOnce'
    BY <1>14 DEF FlusherReadsLatch, Goto
<1>15. ASSUME NEW d \in Drainers, DrainGivesUp(d)
       PROVE  ThreadsStartedOnce'
    <2>1. PICK label \in {"check", "dead", "wait"} : Goto(d, label)
        BY <1>15 DEF DrainGivesUp, LeaveDrain
    <2>2. QED
        BY <1>15, <2>1 DEF DrainGivesUp, Goto
<1>16. ASSUME NEW d \in Drainers, DrainGoesOn(d)
       PROVE  ThreadsStartedOnce'
    BY <1>16 DEF DrainGoesOn, Goto
<1>17. ASSUME NEW d \in Drainers, TakeNothing(d)
       PROVE  ThreadsStartedOnce'
    <2>1. PICK label \in {"check", "dead", "wait"} : Goto(d, label)
        BY <1>17 DEF TakeNothing, LeaveDrain
    <2>2. QED
        BY <1>17, <2>1 DEF TakeNothing, Goto
<1>18. ASSUME NEW d \in Drainers, TakeBatch(d)
       PROVE  ThreadsStartedOnce'
    BY <1>18 DEF TakeBatch, Goto, Settle
<1>19. ASSUME NEW d \in Drainers, SendOk(d)
       PROVE  ThreadsStartedOnce'
    BY <1>19 DEF SendOk, Goto, Settle
<1>20. ASSUME NEW d \in Drainers, SendFails(d)
       PROVE  ThreadsStartedOnce'
    BY <1>20 DEF SendFails, Goto, Settle
<1>21. ASSUME NEW d \in Drainers, BatchDone(d)
       PROVE  ThreadsStartedOnce'
    BY <1>21 DEF BatchDone
<1>22. ASSUME NEW d \in Drainers, ShutdownArm(d)
       PROVE  ThreadsStartedOnce'
    BY <1>22 DEF ShutdownArm, CallsShutdown, NewCall, Goto
<1>23. ASSUME NEW d \in Drainers, ShutdownLatch(d)
       PROVE  ThreadsStartedOnce'
    BY <1>23 DEF ShutdownLatch, Goto
<1>24. ASSUME NEW d \in Drainers, ShutdownWake(d)
       PROVE  ThreadsStartedOnce'
    BY <1>24 DEF ShutdownWake, Goto
<1>25. ASSUME NEW d \in Drainers, ShutdownJoined(d)
       PROVE  ThreadsStartedOnce'
    BY <1>25 DEF ShutdownJoined, ReturnFromShutdown, Goto, BatchesHeld
<1>26. ASSUME NEW d \in Drainers, ShutdownOnFlushThread(d)
       PROVE  ThreadsStartedOnce'
    BY <1>26 DEF ShutdownOnFlushThread, ReturnFromShutdown, Goto, BatchesHeld
<1>27. ASSUME NEW d \in Drainers, ShutdownJoinTimeout(d)
       PROVE  ThreadsStartedOnce'
    BY <1>27 DEF ShutdownJoinTimeout, ReturnFromShutdown, Goto, BatchesHeld
<1>28. ASSUME DeadlineExpires
       PROVE  ThreadsStartedOnce'
    BY <1>28 DEF DeadlineExpires
<1>29. CASE UNCHANGED vars
    BY <1>29 DEF vars
<1>30. QED
    BY NextCases, <1>1, <1>2, <1>3, <1>4, <1>5, <1>6, <1>7, <1>8, <1>9, <1>10, <1>11, <1>12,
       <1>13, <1>14, <1>15, <1>16, <1>17, <1>18, <1>19, <1>20, <1>21, <1>22, <1>23, <1>24,
       <1>25, <1>26, <1>27, <1>28, <1>29

\* Batches are held exactly while they are sent.
LEMMA BatchesHeldStep ==
    ASSUME TypeOK, ThreadsStartedOnce, BatchesHeld, [Next]_vars
    PROVE  BatchesHeld'
<1> USE BufferAssumption DEF BatchesHeld, TypeOK, Drainers, CallerLabels, FlusherLabels, SharedLabels,
            storeVars, signalVars, threadVars, callVars
<1>1. ASSUME NEW c \in Callers, NEW f \in Flushers, StartCreate(c, f)
      PROVE  BatchesHeld'
    BY <1>1 DEF StartCreate, NewCall
<1>2. ASSUME NEW c \in Callers, StartRegister(c)
      PROVE  BatchesHeld'
    BY <1>2 DEF StartRegister, Goto
<1>3. ASSUME NEW c \in Callers, StartSpawn(c)
      PROVE  BatchesHeld'
    BY <1>3 DEF StartSpawn, ThreadsStartedOnce
<1>4. ASSUME NEW c \in Callers, AddRefused(c)
      PROVE  BatchesHeld'
    BY <1>4 DEF AddRefused, NewCall
<1>5. ASSUME NEW c \in Callers, AddAccepted(c)
      PROVE  BatchesHeld'
    BY <1>5 DEF AddAccepted, NewCall, Goto
<1>6. ASSUME NEW c \in Callers, AddWake(c)
      PROVE  BatchesHeld'
    BY <1>6 DEF AddWake, Goto
<1>7. ASSUME NEW c \in Callers, FlushOnce(c)
      PROVE  BatchesHeld'
    BY <1>7 DEF FlushOnce, NewCall, Goto
<1>8. ASSUME NEW c \in Callers, WaitUntilIdle(c)
      PROVE  BatchesHeld'
    BY <1>8 DEF WaitUntilIdle, NewCall, Goto
<1>9. ASSUME NEW c \in Callers, WaitCheck(c)
      PROVE  BatchesHeld'
    BY <1>9 DEF WaitCheck, ReturnFromWait, Goto
<1>10. ASSUME NEW c \in Callers, WaitTimeout(c)
       PROVE  BatchesHeld'
    BY <1>10 DEF WaitTimeout, ReturnFromWait, Goto
<1>11. ASSUME NEW f \in Flushers, FlusherWoken(f)
       PROVE  BatchesHeld'
    BY <1>11 DEF FlusherWoken, Goto
<1>12. ASSUME NEW f \in Flushers, FlusherInterval(f)
       PROVE  BatchesHeld'
    BY <1>12 DEF FlusherInterval, Goto
<1>13. ASSUME NEW f \in Flushers, FlusherClear(f)
       PROVE  BatchesHeld'
    BY <1>13 DEF FlusherClear, Goto
<1>14. ASSUME NEW f \in Flushers, FlusherReadsLatch(f)
       PROVE  BatchesHeld'
    BY <1>14 DEF FlusherReadsLatch, Goto
<1>15. ASSUME NEW d \in Drainers, DrainGivesUp(d)
       PROVE  BatchesHeld'
    BY <1>15 DEF DrainGivesUp, LeaveDrain, Goto
<1>16. ASSUME NEW d \in Drainers, DrainGoesOn(d)
       PROVE  BatchesHeld'
    BY <1>16 DEF DrainGoesOn, Goto
<1>17. ASSUME NEW d \in Drainers, TakeNothing(d)
       PROVE  BatchesHeld'
    BY <1>17 DEF TakeNothing, LeaveDrain, Goto
<1>18. ASSUME NEW d \in Drainers, TakeBatch(d)
       PROVE  BatchesHeld'
    BY <1>18, BatchTyping DEF TakeBatch, Goto, Settle
<1>19. ASSUME NEW d \in Drainers, SendOk(d)
       PROVE  BatchesHeld'
    BY <1>19 DEF SendOk, Goto, Settle
<1>20. ASSUME NEW d \in Drainers, SendFails(d)
       PROVE  BatchesHeld'
    BY <1>20 DEF SendFails, Goto, Settle
<1>21. ASSUME NEW d \in Drainers, BatchDone(d)
       PROVE  BatchesHeld'
    BY <1>21 DEF BatchDone
<1>22. ASSUME NEW d \in Drainers, ShutdownArm(d)
       PROVE  BatchesHeld'
    BY <1>22 DEF ShutdownArm, CallsShutdown, NewCall, Goto
<1>23. ASSUME NEW d \in Drainers, ShutdownLatch(d)
       PROVE  BatchesHeld'
    BY <1>23 DEF ShutdownLatch, Goto
<1>24. ASSUME NEW d \in Drainers, ShutdownWake(d)
       PROVE  BatchesHeld'
    BY <1>24 DEF ShutdownWake, Goto
<1>25. ASSUME NEW d \in Drainers, ShutdownJoined(d)
       PROVE  BatchesHeld'
    BY <1>25 DEF ShutdownJoined, ReturnFromShutdown, Goto
<1>26. ASSUME NEW d \in Drainers, ShutdownOnFlushThread(d)
       PROVE  BatchesHeld'
    BY <1>26 DEF ShutdownOnFlushThread, ReturnFromShutdown, Goto
<1>27. ASSUME NEW d \in Drainers, ShutdownJoinTimeout(d)
       PROVE  BatchesHeld'
    BY <1>27 DEF ShutdownJoinTimeout, ReturnFromShutdown, Goto
<1>28. ASSUME DeadlineExpires
       PROVE  BatchesHeld'
    BY <1>28 DEF DeadlineExpires
<1>29. CASE UNCHANGED vars
    BY <1>29 DEF vars
<1>30. QED
    BY NextCases, <1>1, <1>2, <1>3, <1>4, <1>5, <1>6, <1>7, <1>8, <1>9, <1>10, <1>11, <1>12,
       <1>13, <1>14, <1>15, <1>16, <1>17, <1>18, <1>19, <1>20, <1>21, <1>22, <1>23, <1>24,
       <1>25, <1>26, <1>27, <1>28, <1>29

\* The latch is never cleared, and only the loop's exit kills a thread.
LEMMA LatchStep ==
    ASSUME TypeOK, LatchWasSet, [Next]_vars
    PROVE  LatchWasSet'
<1> USE BufferAssumption DEF LatchWasSet, TypeOK, Drainers, CallerLabels, FlusherLabels, SharedLabels,
            storeVars, signalVars, threadVars, callVars
<1>1. ASSUME NEW c \in Callers, NEW f \in Flushers, StartCreate(c, f)
      PROVE  LatchWasSet'
    BY <1>1 DEF StartCreate, NewCall
<1>2. ASSUME NEW c \in Callers, StartRegister(c)
      PROVE  LatchWasSet'
    BY <1>2 DEF StartRegister, Goto
<1>3. ASSUME NEW c \in Callers, StartSpawn(c)
      PROVE  LatchWasSet'
    BY <1>3 DEF StartSpawn
<1>4. ASSUME NEW c \in Callers, AddRefused(c)
      PROVE  LatchWasSet'
    BY <1>4 DEF AddRefused, NewCall
<1>5. ASSUME NEW c \in Callers, AddAccepted(c)
      PROVE  LatchWasSet'
    BY <1>5 DEF AddAccepted, NewCall, Goto
<1>6. ASSUME NEW c \in Callers, AddWake(c)
      PROVE  LatchWasSet'
    BY <1>6 DEF AddWake, Goto
<1>7. ASSUME NEW c \in Callers, FlushOnce(c)
      PROVE  LatchWasSet'
    BY <1>7 DEF FlushOnce, NewCall, Goto
<1>8. ASSUME NEW c \in Callers, WaitUntilIdle(c)
      PROVE  LatchWasSet'
    BY <1>8 DEF WaitUntilIdle, NewCall, Goto
<1>9. ASSUME NEW c \in Callers, WaitCheck(c)
      PROVE  LatchWasSet'
    BY <1>9 DEF WaitCheck, ReturnFromWait, Goto
<1>10. ASSUME NEW c \in Callers, WaitTimeout(c)
       PROVE  LatchWasSet'
    BY <1>10 DEF WaitTimeout, ReturnFromWait, Goto
<1>11. ASSUME NEW f \in Flushers, FlusherWoken(f)
       PROVE  LatchWasSet'
    BY <1>11 DEF FlusherWoken, Goto
<1>12. ASSUME NEW f \in Flushers, FlusherInterval(f)
       PROVE  LatchWasSet'
    BY <1>12 DEF FlusherInterval, Goto
<1>13. ASSUME NEW f \in Flushers, FlusherClear(f)
       PROVE  LatchWasSet'
    BY <1>13 DEF FlusherClear, Goto
<1>14. ASSUME NEW f \in Flushers, FlusherReadsLatch(f)
       PROVE  LatchWasSet'
    BY <1>14 DEF FlusherReadsLatch, Goto
<1>15. ASSUME NEW d \in Drainers, DrainGivesUp(d)
       PROVE  LatchWasSet'
    BY <1>15 DEF DrainGivesUp, LeaveDrain, Goto, ExitsLoop
<1>16. ASSUME NEW d \in Drainers, DrainGoesOn(d)
       PROVE  LatchWasSet'
    BY <1>16 DEF DrainGoesOn, Goto
<1>17. ASSUME NEW d \in Drainers, TakeNothing(d)
       PROVE  LatchWasSet'
    BY <1>17 DEF TakeNothing, LeaveDrain, Goto, ExitsLoop
<1>18. ASSUME NEW d \in Drainers, TakeBatch(d)
       PROVE  LatchWasSet'
    BY <1>18 DEF TakeBatch, Goto, Settle
<1>19. ASSUME NEW d \in Drainers, SendOk(d)
       PROVE  LatchWasSet'
    BY <1>19 DEF SendOk, Goto, Settle
<1>20. ASSUME NEW d \in Drainers, SendFails(d)
       PROVE  LatchWasSet'
    BY <1>20 DEF SendFails, Goto, Settle
<1>21. ASSUME NEW d \in Drainers, BatchDone(d)
       PROVE  LatchWasSet'
    BY <1>21 DEF BatchDone
<1>22. ASSUME NEW d \in Drainers, ShutdownArm(d)
       PROVE  LatchWasSet'
    BY <1>22 DEF ShutdownArm, CallsShutdown, NewCall, Goto
<1>23. ASSUME NEW d \in Drainers, ShutdownLatch(d)
       PROVE  LatchWasSet'
    BY <1>23 DEF ShutdownLatch, Goto
<1>24. ASSUME NEW d \in Drainers, ShutdownWake(d)
       PROVE  LatchWasSet'
    BY <1>24 DEF ShutdownWake, Goto
<1>25. ASSUME NEW d \in Drainers, ShutdownJoined(d)
       PROVE  LatchWasSet'
    BY <1>25 DEF ShutdownJoined, ReturnFromShutdown, Goto
<1>26. ASSUME NEW d \in Drainers, ShutdownOnFlushThread(d)
       PROVE  LatchWasSet'
    BY <1>26 DEF ShutdownOnFlushThread, ReturnFromShutdown, Goto
<1>27. ASSUME NEW d \in Drainers, ShutdownJoinTimeout(d)
       PROVE  LatchWasSet'
    BY <1>27 DEF ShutdownJoinTimeout, ReturnFromShutdown, Goto
<1>28. ASSUME DeadlineExpires
       PROVE  LatchWasSet'
    BY <1>28 DEF DeadlineExpires
<1>29. CASE UNCHANGED vars
    BY <1>29 DEF vars
<1>30. QED
    BY NextCases, <1>1, <1>2, <1>3, <1>4, <1>5, <1>6, <1>7, <1>8, <1>9, <1>10, <1>11, <1>12,
       <1>13, <1>14, <1>15, <1>16, <1>17, <1>18, <1>19, <1>20, <1>21, <1>22, <1>23, <1>24,
       <1>25, <1>26, <1>27, <1>28, <1>29

\* A thread that ended on an empty queue leaves it empty.
LEMMA StrandingStep ==
    ASSUME TypeOK, BatchesHeld, LatchWasSet, NoStranding, [Next]_vars
    PROVE  NoStranding'
<1> USE BufferAssumption DEF LatchWasSet, NoStranding, TypeOK, Drainers, CallerLabels, FlusherLabels,
            SharedLabels, storeVars, signalVars, threadVars, callVars
<1>1. ASSUME NEW c \in Callers, NEW f \in Flushers, StartCreate(c, f)
      PROVE  NoStranding'
    BY <1>1 DEF StartCreate, NewCall
<1>2. ASSUME NEW c \in Callers, StartRegister(c)
      PROVE  NoStranding'
    BY <1>2 DEF StartRegister, Goto
<1>3. ASSUME NEW c \in Callers, StartSpawn(c)
      PROVE  NoStranding'
    BY <1>3 DEF StartSpawn
<1>4. ASSUME NEW c \in Callers, AddRefused(c)
      PROVE  NoStranding'
    BY <1>4 DEF AddRefused, NewCall
<1>5. ASSUME NEW c \in Callers, AddAccepted(c)
      PROVE  NoStranding'
    BY <1>5 DEF AddAccepted, Refuses, NewCall, Goto
<1>6. ASSUME NEW c \in Callers, AddWake(c)
      PROVE  NoStranding'
    BY <1>6 DEF AddWake, Goto
<1>7. ASSUME NEW c \in Callers, FlushOnce(c)
      PROVE  NoStranding'
    BY <1>7 DEF FlushOnce, NewCall, Goto
<1>8. ASSUME NEW c \in Callers, WaitUntilIdle(c)
      PROVE  NoStranding'
    BY <1>8 DEF WaitUntilIdle, NewCall, Goto
<1>9. ASSUME NEW c \in Callers, WaitCheck(c)
      PROVE  NoStranding'
    BY <1>9 DEF WaitCheck, ReturnFromWait, Goto
<1>10. ASSUME NEW c \in Callers, WaitTimeout(c)
       PROVE  NoStranding'
    BY <1>10 DEF WaitTimeout, ReturnFromWait, Goto
<1>11. ASSUME NEW f \in Flushers, FlusherWoken(f)
       PROVE  NoStranding'
    BY <1>11 DEF FlusherWoken, Goto
<1>12. ASSUME NEW f \in Flushers, FlusherInterval(f)
       PROVE  NoStranding'
    BY <1>12 DEF FlusherInterval, Goto
<1>13. ASSUME NEW f \in Flushers, FlusherClear(f)
       PROVE  NoStranding'
    BY <1>13 DEF FlusherClear, Goto
<1>14. ASSUME NEW f \in Flushers, FlusherReadsLatch(f)
       PROVE  NoStranding'
    BY <1>14 DEF FlusherReadsLatch, Goto
<1>15. ASSUME NEW d \in Drainers, DrainGivesUp(d)
       PROVE  NoStranding'
    BY <1>15 DEF DrainGivesUp, LeaveDrain, Goto, ExitsLoop
<1>16. ASSUME NEW d \in Drainers, DrainGoesOn(d)
       PROVE  NoStranding'
    BY <1>16 DEF DrainGoesOn, Goto
<1>17. ASSUME NEW d \in Drainers, TakeNothing(d)
       PROVE  NoStranding'
    BY <1>17 DEF TakeNothing, LeaveDrain, Goto, ExitsLoop
<1>18. ASSUME NEW d \in Drainers, TakeBatch(d)
       PROVE  NoStranding'
    BY <1>18 DEF TakeBatch, Goto, Settle
<1>19. ASSUME NEW d \in Drainers, SendOk(d)
       PROVE  NoStranding'
    BY <1>19 DEF SendOk, Goto, Settle
<1>20. ASSUME NEW d \in Drainers, SendFails(d)
       PROVE  NoStranding'
    BY <1>20 DEF SendFails, Goto, Settle
<1>21. ASSUME NEW d \in Drainers, BatchDone(d)
       PROVE  NoStranding'
    BY <1>21 DEF BatchDone
<1>22. ASSUME NEW d \in Drainers, ShutdownArm(d)
       PROVE  NoStranding'
    BY <1>22 DEF ShutdownArm, CallsShutdown, NewCall, Goto
<1>23. ASSUME NEW d \in Drainers, ShutdownLatch(d)
       PROVE  NoStranding'
    BY <1>23 DEF ShutdownLatch, Goto
<1>24. ASSUME NEW d \in Drainers, ShutdownWake(d)
       PROVE  NoStranding'
    BY <1>24 DEF ShutdownWake, Goto
<1>25. ASSUME NEW d \in Drainers, ShutdownJoined(d)
       PROVE  NoStranding'
    BY <1>25 DEF ShutdownJoined, ReturnFromShutdown, Goto
<1>26. ASSUME NEW d \in Drainers, ShutdownOnFlushThread(d)
       PROVE  NoStranding'
    BY <1>26 DEF ShutdownOnFlushThread, ReturnFromShutdown, Goto
<1>27. ASSUME NEW d \in Drainers, ShutdownJoinTimeout(d)
       PROVE  NoStranding'
    BY <1>27 DEF ShutdownJoinTimeout, ReturnFromShutdown, Goto
<1>28. ASSUME DeadlineExpires
       PROVE  NoStranding'
    BY <1>28 DEF DeadlineExpires
<1>29. CASE UNCHANGED vars
    BY <1>29 DEF vars
<1>30. QED
    BY NextCases, <1>1, <1>2, <1>3, <1>4, <1>5, <1>6, <1>7, <1>8, <1>9, <1>10, <1>11, <1>12,
       <1>13, <1>14, <1>15, <1>16, <1>17, <1>18, <1>19, <1>20, <1>21, <1>22, <1>23, <1>24,
       <1>25, <1>26, <1>27, <1>28, <1>29

\* Only _batch_done() makes the buffer idle, and it wakes every waiter.
LEMMA LostIdleStep ==
    ASSUME TypeOK, InFlightCountsBatches, NoLostIdle, [Next]_vars
    PROVE  NoLostIdle'
<1> USE BufferAssumption DEF NoLostIdle, Idle, IdleWith, TypeOK, Drainers, CallerLabels, FlusherLabels,
            SharedLabels, storeVars, signalVars, threadVars, callVars
<1>1. ASSUME NEW c \in Callers, NEW f \in Flushers, StartCreate(c, f)
      PROVE  NoLostIdle'
    BY <1>1 DEF StartCreate, NewCall
<1>2. ASSUME NEW c \in Callers, StartRegister(c)
      PROVE  NoLostIdle'
    BY <1>2 DEF StartRegister, Goto
<1>3. ASSUME NEW c \in Callers, StartSpawn(c)
      PROVE  NoLostIdle'
    BY <1>3 DEF StartSpawn
<1>4. ASSUME NEW c \in Callers, AddRefused(c)
      PROVE  NoLostIdle'
    BY <1>4 DEF AddRefused, NewCall
<1>5. ASSUME NEW c \in Callers, AddAccepted(c)
      PROVE  NoLostIdle'
    BY <1>5 DEF AddAccepted, NewCall, Goto
<1>6. ASSUME NEW c \in Callers, AddWake(c)
      PROVE  NoLostIdle'
    BY <1>6 DEF AddWake, Goto
<1>7. ASSUME NEW c \in Callers, FlushOnce(c)
      PROVE  NoLostIdle'
    BY <1>7 DEF FlushOnce, NewCall, Goto
<1>8. ASSUME NEW c \in Callers, WaitUntilIdle(c)
      PROVE  NoLostIdle'
    BY <1>8 DEF WaitUntilIdle, NewCall, Goto
<1>9. ASSUME NEW c \in Callers, WaitCheck(c)
      PROVE  NoLostIdle'
    BY <1>9 DEF WaitCheck, ReturnFromWait, Goto
<1>10. ASSUME NEW c \in Callers, WaitTimeout(c)
       PROVE  NoLostIdle'
    BY <1>10 DEF WaitTimeout, ReturnFromWait, Goto
<1>11. ASSUME NEW f \in Flushers, FlusherWoken(f)
       PROVE  NoLostIdle'
    BY <1>11 DEF FlusherWoken, Goto
<1>12. ASSUME NEW f \in Flushers, FlusherInterval(f)
       PROVE  NoLostIdle'
    BY <1>12 DEF FlusherInterval, Goto
<1>13. ASSUME NEW f \in Flushers, FlusherClear(f)
       PROVE  NoLostIdle'
    BY <1>13 DEF FlusherClear, Goto
<1>14. ASSUME NEW f \in Flushers, FlusherReadsLatch(f)
       PROVE  NoLostIdle'
    BY <1>14 DEF FlusherReadsLatch, Goto
<1>15. ASSUME NEW d \in Drainers, DrainGivesUp(d)
       PROVE  NoLostIdle'
    BY <1>15 DEF DrainGivesUp, LeaveDrain, Goto
<1>16. ASSUME NEW d \in Drainers, DrainGoesOn(d)
       PROVE  NoLostIdle'
    BY <1>16 DEF DrainGoesOn, Goto
<1>17. ASSUME NEW d \in Drainers, TakeNothing(d)
       PROVE  NoLostIdle'
    BY <1>17 DEF TakeNothing, LeaveDrain, Goto
<1>18. ASSUME NEW d \in Drainers, TakeBatch(d)
       PROVE  NoLostIdle'
    BY <1>18 DEF TakeBatch, Goto, Settle
<1>19. ASSUME NEW d \in Drainers, SendOk(d)
       PROVE  NoLostIdle'
    BY <1>19 DEF SendOk, Goto, Settle
<1>20. ASSUME NEW d \in Drainers, SendFails(d)
       PROVE  NoLostIdle'
    BY <1>20 DEF SendFails, Goto, Settle
<1>21. ASSUME NEW d \in Drainers, BatchDone(d)
       PROVE  NoLostIdle'
    BY <1>21, SentIsCounted DEF BatchDone
<1>22. ASSUME NEW d \in Drainers, ShutdownArm(d)
       PROVE  NoLostIdle'
    BY <1>22 DEF ShutdownArm, CallsShutdown, NewCall, Goto
<1>23. ASSUME NEW d \in Drainers, ShutdownLatch(d)
       PROVE  NoLostIdle'
    BY <1>23 DEF ShutdownLatch, Goto
<1>24. ASSUME NEW d \in Drainers, ShutdownWake(d)
       PROVE  NoLostIdle'
    BY <1>24 DEF ShutdownWake, Goto
<1>25. ASSUME NEW d \in Drainers, ShutdownJoined(d)
       PROVE  NoLostIdle'
    BY <1>25 DEF ShutdownJoined, ReturnFromShutdown, Goto
<1>26. ASSUME NEW d \in Drainers, ShutdownOnFlushThread(d)
       PROVE  NoLostIdle'
    BY <1>26 DEF ShutdownOnFlushThread, ReturnFromShutdown, Goto
<1>27. ASSUME NEW d \in Drainers, ShutdownJoinTimeout(d)
       PROVE  NoLostIdle'
    BY <1>27 DEF ShutdownJoinTimeout, ReturnFromShutdown, Goto
<1>28. ASSUME DeadlineExpires
       PROVE  NoLostIdle'
    BY <1>28 DEF DeadlineExpires
<1>29. CASE UNCHANGED vars
    BY <1>29 DEF vars
<1>30. QED
    BY NextCases, <1>1, <1>2, <1>3, <1>4, <1>5, <1>6, <1>7, <1>8, <1>9, <1>10, <1>11, <1>12,
       <1>13, <1>14, <1>15, <1>16, <1>17, <1>18, <1>19, <1>20, <1>21, <1>22, <1>23, <1>24,
       <1>25, <1>26, <1>27, <1>28, <1>29


\* Only _take_batch() and _batch_done() change the set of threads that send,
\* and each of them counts the one thread it adds or removes.
LEMMA InFlightStep ==
    ASSUME TypeOK, ThreadsStartedOnce, BatchesHeld, InFlightCountsBatches, [Next]_vars
    PROVE  InFlightCountsBatches'
<1> USE DEF TypeOK, BatchesHeld, Drainers, storeVars, signalVars, threadVars, callVars
<1>1. ASSUME NEW c \in Callers, NEW f \in Flushers, StartCreate(c, f)
      PROVE  InFlightCountsBatches'
    <2>1. Sending' = Sending
        BY <1>1 DEF StartCreate, NewCall, Sending
    <2>2. QED
        BY <1>1, <2>1 DEF StartCreate, InFlightCountsBatches
<1>2. ASSUME NEW c \in Callers, StartRegister(c)
      PROVE  InFlightCountsBatches'
    <2>1. Sending' = Sending
        BY <1>2 DEF StartRegister, Goto, Sending
    <2>2. QED
        BY <1>2, <2>1 DEF StartRegister, InFlightCountsBatches
<1>3. ASSUME NEW c \in Callers, StartSpawn(c)
      PROVE  InFlightCountsBatches'
    <2>1. Sending' = Sending
        BY <1>3 DEF StartSpawn, Sending, ThreadsStartedOnce
    <2>2. QED
        BY <1>3, <2>1 DEF StartSpawn, InFlightCountsBatches
<1>4. ASSUME NEW c \in Callers, AddRefused(c)
      PROVE  InFlightCountsBatches'
    <2>1. Sending' = Sending
        BY <1>4 DEF AddRefused, NewCall, Sending
    <2>2. QED
        BY <1>4, <2>1 DEF AddRefused, InFlightCountsBatches
<1>5. ASSUME NEW c \in Callers, AddAccepted(c)
      PROVE  InFlightCountsBatches'
    <2>1. Sending' = Sending
        BY <1>5 DEF AddAccepted, NewCall, Goto, Sending
    <2>2. QED
        BY <1>5, <2>1 DEF AddAccepted, InFlightCountsBatches
<1>6. ASSUME NEW c \in Callers, AddWake(c)
      PROVE  InFlightCountsBatches'
    <2>1. Sending' = Sending
        BY <1>6 DEF AddWake, Goto, Sending
    <2>2. QED
        BY <1>6, <2>1 DEF AddWake, InFlightCountsBatches
<1>7. ASSUME NEW c \in Callers, FlushOnce(c)
      PROVE  InFlightCountsBatches'
    <2>1. Sending' = Sending
        BY <1>7 DEF FlushOnce, NewCall, Goto, Sending
    <2>2. QED
        BY <1>7, <2>1 DEF FlushOnce, InFlightCountsBatches
<1>8. ASSUME NEW c \in Callers, WaitUntilIdle(c)
      PROVE  InFlightCountsBatches'
    <2>1. Sending' = Sending
        BY <1>8 DEF WaitUntilIdle, NewCall, Goto, Sending
    <2>2. QED
        BY <1>8, <2>1 DEF WaitUntilIdle, InFlightCountsBatches
<1>9. ASSUME NEW c \in Callers, WaitCheck(c)
      PROVE  InFlightCountsBatches'
    <2>1. Sending' = Sending
        BY <1>9 DEF WaitCheck, ReturnFromWait, Goto, Sending
    <2>2. QED
        BY <1>9, <2>1 DEF WaitCheck, InFlightCountsBatches
<1>10. ASSUME NEW c \in Callers, WaitTimeout(c)
       PROVE  InFlightCountsBatches'
    <2>1. Sending' = Sending
        BY <1>10 DEF WaitTimeout, ReturnFromWait, Goto, Sending
    <2>2. QED
        BY <1>10, <2>1 DEF WaitTimeout, InFlightCountsBatches
<1>11. ASSUME NEW f \in Flushers, FlusherWoken(f)
       PROVE  InFlightCountsBatches'
    <2>1. Sending' = Sending
        BY <1>11 DEF FlusherWoken, Goto, Sending
    <2>2. QED
        BY <1>11, <2>1 DEF FlusherWoken, InFlightCountsBatches
<1>12. ASSUME NEW f \in Flushers, FlusherInterval(f)
       PROVE  InFlightCountsBatches'
    <2>1. Sending' = Sending
        BY <1>12 DEF FlusherInterval, Goto, Sending
    <2>2. QED
        BY <1>12, <2>1 DEF FlusherInterval, InFlightCountsBatches
<1>13. ASSUME NEW f \in Flushers, FlusherClear(f)
       PROVE  InFlightCountsBatches'
    <2>1. Sending' = Sending
        BY <1>13 DEF FlusherClear, Goto, Sending
    <2>2. QED
        BY <1>13, <2>1 DEF FlusherClear, InFlightCountsBatches
<1>14. ASSUME NEW f \in Flushers, FlusherReadsLatch(f)
       PROVE  InFlightCountsBatches'
    <2>1. Sending' = Sending
        BY <1>14 DEF FlusherReadsLatch, Goto, Sending
    <2>2. QED
        BY <1>14, <2>1 DEF FlusherReadsLatch, InFlightCountsBatches
<1>15. ASSUME NEW d \in Drainers, DrainGivesUp(d)
       PROVE  InFlightCountsBatches'
    <2>1. PICK label \in {"check", "dead", "wait"} : Goto(d, label)
        BY <1>15 DEF DrainGivesUp, LeaveDrain
    <2>2. Sending' = Sending
        BY <1>15, <2>1 DEF DrainGivesUp, Goto, Sending
    <2>3. QED
        BY <1>15, <2>2 DEF DrainGivesUp, InFlightCountsBatches
<1>16. ASSUME NEW d \in Drainers, DrainGoesOn(d)
       PROVE  InFlightCountsBatches'
    <2>1. Sending' = Sending
        BY <1>16 DEF DrainGoesOn, Goto, Sending
    <2>2. QED
        BY <1>16, <2>1 DEF DrainGoesOn, InFlightCountsBatches
<1>17. ASSUME NEW d \in Drainers, TakeNothing(d)
       PROVE  InFlightCountsBatches'
    <2>1. PICK label \in {"check", "dead", "wait"} : Goto(d, label)
        BY <1>17 DEF TakeNothing, LeaveDrain
    <2>2. Sending' = Sending
        BY <1>17, <2>1 DEF TakeNothing, Goto, Sending
    <2>3. QED
        BY <1>17, <2>2 DEF TakeNothing, InFlightCountsBatches
<1>18. ASSUME NEW d \in Drainers, TakeBatch(d)
       PROVE  InFlightCountsBatches'
    <2>1. d \notin Sending
        BY <1>18 DEF TakeBatch, Sending
    <2>2. Sending' = Sending \cup {d}
        BY <1>18, BatchTyping DEF TakeBatch, Goto, Sending
    <2>3. Cardinality(Sending') = Cardinality(Sending) + 1
        BY <2>1, <2>2, SendingFinite, FS_AddElement
    <2>4. QED
        BY <1>18, <2>3 DEF TakeBatch, InFlightCountsBatches
<1>19. ASSUME NEW d \in Drainers, SendOk(d)
       PROVE  InFlightCountsBatches'
    <2>1. Sending' = Sending
        BY <1>19 DEF SendOk, Goto, Settle, Sending
    <2>2. QED
        BY <1>19, <2>1 DEF SendOk, InFlightCountsBatches
<1>20. ASSUME NEW d \in Drainers, SendFails(d)
       PROVE  InFlightCountsBatches'
    <2>1. Sending' = Sending
        BY <1>20 DEF SendFails, Goto, Settle, Sending
    <2>2. QED
        BY <1>20, <2>1 DEF SendFails, InFlightCountsBatches
<1>21. ASSUME NEW d \in Drainers, BatchDone(d)
       PROVE  InFlightCountsBatches'
    <2>1. d \in Sending
        BY <1>21 DEF BatchDone, Sending
    <2>2. Sending' = Sending \ {d}
        BY <1>21 DEF BatchDone, Sending
    <2>3. Cardinality(Sending') = Cardinality(Sending) - 1
        BY <2>1, <2>2, SendingFinite, FS_RemoveElement
    <2>4. QED
        BY <1>21, <2>3 DEF BatchDone, InFlightCountsBatches
<1>22. ASSUME NEW d \in Drainers, ShutdownArm(d)
       PROVE  InFlightCountsBatches'
    <2>1. Sending' = Sending
        BY <1>22 DEF ShutdownArm, CallsShutdown, NewCall, Goto, Sending
    <2>2. QED
        BY <1>22, <2>1 DEF ShutdownArm, InFlightCountsBatches
<1>23. ASSUME NEW d \in Drainers, ShutdownLatch(d)
       PROVE  InFlightCountsBatches'
    <2>1. Sending' = Sending
        BY <1>23 DEF ShutdownLatch, Goto, Sending
    <2>2. QED
        BY <1>23, <2>1 DEF ShutdownLatch, InFlightCountsBatches
<1>24. ASSUME NEW d \in Drainers, ShutdownWake(d)
       PROVE  InFlightCountsBatches'
    <2>1. Sending' = Sending
        BY <1>24 DEF ShutdownWake, Goto, Sending
    <2>2. QED
        BY <1>24, <2>1 DEF ShutdownWake, InFlightCountsBatches
<1>25. ASSUME NEW d \in Drainers, ShutdownJoined(d)
       PROVE  InFlightCountsBatches'
    <2>1. Sending' = Sending
        BY <1>25 DEF ShutdownJoined, ReturnFromShutdown, Goto, Sending
    <2>2. QED
        BY <1>25, <2>1 DEF ShutdownJoined, InFlightCountsBatches
<1>26. ASSUME NEW d \in Drainers, ShutdownOnFlushThread(d)
       PROVE  InFlightCountsBatches'
    <2>1. Sending' = Sending
        BY <1>26 DEF ShutdownOnFlushThread, ReturnFromShutdown, Goto, Sending
    <2>2. QED
        BY <1>26, <2>1 DEF ShutdownOnFlushThread, InFlightCountsBatches
<1>27. ASSUME NEW d \in Drainers, ShutdownJoinTimeout(d)
       PROVE  InFlightCountsBatches'
    <2>1. Sending' = Sending
        BY <1>27 DEF ShutdownJoinTimeout, ReturnFromShutdown, Goto, Sending
    <2>2. QED
        BY <1>27, <2>1 DEF ShutdownJoinTimeout, InFlightCountsBatches
<1>28. ASSUME DeadlineExpires
       PROVE  InFlightCountsBatches'
    <2>1. Sending' = Sending
        BY <1>28 DEF DeadlineExpires, Sending
    <2>2. QED
        BY <1>28, <2>1 DEF DeadlineExpires, InFlightCountsBatches
<1>29. CASE UNCHANGED vars
    BY <1>29 DEF vars, Sending, InFlightCountsBatches
<1>30. QED
    BY NextCases, <1>1, <1>2, <1>3, <1>4, <1>5, <1>6, <1>7, <1>8, <1>9, <1>10, <1>11, <1>12,
       <1>13, <1>14, <1>15, <1>16, <1>17, <1>18, <1>19, <1>20, <1>21, <1>22, <1>23, <1>24,
       <1>25, <1>26, <1>27, <1>28, <1>29

-----------------------------------------------------------------------------
\* The invariant holds at first.
LEMMA InitInv == Init => BufferInv
<1> SUFFICES ASSUME Init
             PROVE  BufferInv
    OBVIOUS
<1> USE BufferAssumption DEF Init
<1>1. TypeOK
    <2>1. thread \in Flushers \cup {None} /\ hook \in BOOLEAN /\ forkReset \in BOOLEAN
        OBVIOUS
    <2>2. /\ pc \in [Drainers -> CallerLabels \cup FlusherLabels \cup SharedLabels]
          /\ \A c \in Callers : pc[c] \in CallerLabels \cup SharedLabels
          /\ \A f \in Flushers : pc[f] \in FlusherLabels \cup SharedLabels
        BY <2>1 DEF Drainers, CallerLabels, FlusherLabels, SharedLabels
    <2>3. queue \in Seq(Event) /\ batch \in [Drainers -> Seq(Event)]
        OBVIOUS
    <2>4. offered \in 0..MaxEvents /\ mark \in [Callers -> 0..MaxEvents]
        OBVIOUS
    <2>5. fate \in [Event -> Fates] /\ result \in [Drainers -> Results]
        BY DEF Fates, Results
    <2>6. /\ inFlight \in Nat /\ dropped \in Nat
          /\ deadline \in {"unarmed", "armed", "expired"}
          /\ armedBy \in Drainers \cup {None}
          /\ wake \in BOOLEAN /\ shutdown \in BOOLEAN /\ failed \in BOOLEAN
          /\ shuttingDown \in [Flushers -> BOOLEAN]
          /\ starting \in [Callers -> Flushers \cup {None}]
        OBVIOUS
    <2>7. QED
        BY <2>1, <2>2, <2>3, <2>4, <2>5, <2>6 DEF TypeOK
<1>2. ThreadsStartedOnce /\ BatchesHeld /\ LatchWasSet /\ NoStranding /\ NoLostIdle
    BY DEF ThreadsStartedOnce, BatchesHeld, LatchWasSet, NoStranding, NoLostIdle, Drainers
<1>3. InFlightCountsBatches
    <2>1. Sending = {}
        BY DEF Sending
    <2>2. QED
        BY <2>1, FS_EmptySet DEF InFlightCountsBatches
<1>4. QED
    BY <1>1, <1>2, <1>3 DEF BufferInv

\* Every step preserves the invariant.
LEMMA BufferInvStep ==
    ASSUME BufferInv, [Next]_vars
    PROVE  BufferInv'
BY TypingStep, ThreadsStartedStep, BatchesHeldStep, InFlightStep, LatchStep, StrandingStep,
   LostIdleStep DEF BufferInv

\* The invariant holds in every reachable state.
LEMMA Invariance == Spec => []BufferInv
<1>1. BufferInv /\ [Next]_vars => BufferInv'
    BY BufferInvStep
<1>2. QED
    BY InitInv, <1>1, PTL DEF Spec

-----------------------------------------------------------------------------
(* The wake-ups of the flush thread.                                       *)

\* A step that the latches do not notice: no flag changes, nobody gets to or
\* from a label that announces a wake-up, and the queue does not grow.
Unnoticed ==
    /\ UNCHANGED <<wake, shutdown, shuttingDown>>
    /\ deadline' # "unarmed" => deadline # "unarmed"
    /\ Len(queue') <= Len(queue)
    /\ \A d \in Drainers : pc[d] \in {"wakeup", "latch", "signal"} => pc'[d] = pc[d]
    /\ \A f \in Flushers :
        /\ pc[f] \in {"clear", "read"} => pc'[f] = pc[f]
        /\ pc[f] # "unborn" => pc'[f] # "unborn"
        /\ pc'[f] \in {"unborn", "created", "wait"} => pc[f] \in {"unborn", "created", "wait"}
        /\ shuttingDown[f] /\ pc[f] \notin {"unborn", "created", "wait", "clear", "read"}
            => pc'[f] \notin {"unborn", "created", "wait", "clear", "read"}

\* What is left of a queue is shorter.
LEMMA ShorterRest ==
    ASSUME TypeOK
    PROVE  Len(Rest(BatchSize)) <= Len(queue)
BY BatchTyping DEF TypeOK, Rest

\* The steps that have to do with the wake-up, and the others.
LEMMA WakeCases ==
    ASSUME BufferInv, [Next]_vars
    PROVE  \/ \E c \in Callers : AddAccepted(c) \/ AddWake(c)
           \/ \E f \in Flushers : FlusherClear(f) \/ FlusherReadsLatch(f)
           \/ \E d \in Drainers : \/ DrainGivesUp(d) \/ TakeNothing(d)
                                  \/ ShutdownArm(d) \/ ShutdownLatch(d) \/ ShutdownWake(d)
           \/ Unnoticed
<1> USE BufferAssumption DEF BufferInv, TypeOK, Drainers, CallerLabels, FlusherLabels, SharedLabels,
            storeVars, signalVars, threadVars, callVars, Unnoticed
<1>1. ASSUME NEW c \in Callers, NEW f \in Flushers, StartCreate(c, f)
      PROVE  Unnoticed
    BY <1>1 DEF StartCreate
<1>2. ASSUME NEW c \in Callers, StartRegister(c)
      PROVE  Unnoticed
    BY <1>2 DEF StartRegister, Goto
<1>3. ASSUME NEW c \in Callers, StartSpawn(c)
      PROVE  Unnoticed
    BY <1>3 DEF StartSpawn, ThreadsStartedOnce
<1>4. ASSUME NEW c \in Callers, AddRefused(c)
      PROVE  Unnoticed
    BY <1>4 DEF AddRefused
<1>5. ASSUME NEW c \in Callers, FlushOnce(c) \/ WaitUntilIdle(c)
      PROVE  Unnoticed
    BY <1>5 DEF FlushOnce, WaitUntilIdle, Goto
<1>6. ASSUME NEW c \in Callers, WaitCheck(c) \/ WaitTimeout(c)
      PROVE  Unnoticed
    <2>1. PICK label \in {"idle", "parked"} : Goto(c, label)
        BY <1>6 DEF WaitCheck, WaitTimeout, ReturnFromWait
    <2>2. pc[c] \in {"check", "parked"} /\ UNCHANGED <<storeVars, signalVars, threadVars>>
        BY <1>6 DEF WaitCheck, WaitTimeout
    <2>3. QED
        BY <2>1, <2>2 DEF Goto
<1>7. ASSUME NEW f \in Flushers, FlusherWoken(f) \/ FlusherInterval(f)
      PROVE  Unnoticed
    BY <1>7 DEF FlusherWoken, FlusherInterval, Goto
<1>8. ASSUME NEW d \in Drainers, DrainGoesOn(d)
      PROVE  Unnoticed
    BY <1>8 DEF DrainGoesOn, Goto
<1>9. ASSUME NEW d \in Drainers, TakeBatch(d)
      PROVE  Unnoticed
    BY <1>9, ShorterRest DEF TakeBatch, Goto
<1>10. ASSUME NEW d \in Drainers, SendOk(d) \/ SendFails(d)
       PROVE  Unnoticed
    BY <1>10 DEF SendOk, SendFails, Goto
<1>11. ASSUME NEW d \in Drainers, BatchDone(d)
       PROVE  Unnoticed
    BY <1>11 DEF BatchDone
<1>12. ASSUME NEW d \in Drainers,
              ShutdownJoined(d) \/ ShutdownOnFlushThread(d) \/ ShutdownJoinTimeout(d)
       PROVE  Unnoticed
    <2>1. PICK label \in {"send", "idle"} : Goto(d, label)
        BY <1>12 DEF ShutdownJoined, ShutdownOnFlushThread, ShutdownJoinTimeout, ReturnFromShutdown
    <2>2. pc[d] = "join" /\ UNCHANGED <<storeVars, signalVars, threadVars>>
        BY <1>12 DEF ShutdownJoined, ShutdownOnFlushThread, ShutdownJoinTimeout
    <2>3. QED
        BY <2>1, <2>2 DEF Goto
<1>13. ASSUME DeadlineExpires
       PROVE  Unnoticed
    BY <1>13 DEF DeadlineExpires
<1>14. CASE UNCHANGED vars
    BY <1>14 DEF vars
<1>15. QED
    BY NextCases, <1>1, <1>2, <1>3, <1>4, <1>5, <1>6, <1>7, <1>8, <1>9, <1>10, <1>11, <1>12, <1>13, <1>14

\* A thread that has been created is never forgotten.
LEMMA OnlyThreadBefore ==
    ASSUME BufferInv, [Next]_vars, NEW f \in Flushers, OnlyThread(f)'
    PROVE  OnlyThread(f)
<1> USE BufferAssumption DEF BufferInv, TypeOK, Drainers, OnlyThread
<1>1. CASE Unnoticed
    BY <1>1 DEF Unnoticed
<1>2. ASSUME NEW c \in Callers, AddAccepted(c) \/ AddWake(c)
      PROVE  OnlyThread(f)
    BY <1>2 DEF AddAccepted, AddWake, Goto
<1>3. ASSUME NEW x \in Flushers, FlusherClear(x) \/ FlusherReadsLatch(x)
      PROVE  OnlyThread(f)
    BY <1>3 DEF FlusherClear, FlusherReadsLatch, Goto
<1>4. ASSUME NEW d \in Drainers, DrainGivesUp(d) \/ TakeNothing(d)
      PROVE  OnlyThread(f)
    BY <1>4 DEF DrainGivesUp, TakeNothing, LeaveDrain, Goto
<1>5. ASSUME NEW d \in Drainers, ShutdownArm(d) \/ ShutdownLatch(d) \/ ShutdownWake(d)
      PROVE  OnlyThread(f)
    BY <1>5 DEF ShutdownArm, ShutdownLatch, ShutdownWake, Goto
<1>6. QED
    BY <1>1, <1>2, <1>3, <1>4, <1>5, WakeCases

\* Every step preserves that a wake-up is armed before the latch is read.
LEMMA ArmedStep ==
    ASSUME BufferInv, ArmedBeforeLatch, [Next]_vars
    PROVE  ArmedBeforeLatch'
<1> USE BufferAssumption DEF BufferInv, TypeOK, Drainers, ArmedBeforeLatch, storeVars, signalVars
<1>1. CASE Unnoticed
    BY <1>1 DEF Unnoticed
<1>2. ASSUME NEW c \in Callers, AddAccepted(c) \/ AddWake(c)
      PROVE  ArmedBeforeLatch'
    BY <1>2 DEF AddAccepted, AddWake, Goto
<1>3. ASSUME NEW x \in Flushers, FlusherClear(x) \/ FlusherReadsLatch(x)
      PROVE  ArmedBeforeLatch'
    BY <1>3 DEF FlusherClear, FlusherReadsLatch, Goto
<1>4. ASSUME NEW d \in Drainers, DrainGivesUp(d) \/ TakeNothing(d)
      PROVE  ArmedBeforeLatch'
    BY <1>4 DEF DrainGivesUp, TakeNothing, LeaveDrain, Goto
<1>5. ASSUME NEW d \in Drainers, ShutdownArm(d)
      PROVE  ArmedBeforeLatch'
    BY <1>5 DEF ShutdownArm, Goto
<1>6. ASSUME NEW d \in Drainers, ShutdownLatch(d) \/ ShutdownWake(d)
      PROVE  ArmedBeforeLatch'
    BY <1>6 DEF ShutdownLatch, ShutdownWake, Goto
<1>7. QED
    BY <1>1, <1>2, <1>3, <1>4, <1>5, <1>6, WakeCases

\* Every step preserves that the latch is read last.
LEMMA LatchReadStep ==
    ASSUME BufferInv, LatchReadLast, [Next]_vars
    PROVE  LatchReadLast'
<1> USE BufferAssumption DEF BufferInv, TypeOK, Drainers, LatchReadLast, storeVars, signalVars, threadVars
<1>1. CASE Unnoticed
    BY <1>1 DEF Unnoticed
<1>2. ASSUME NEW c \in Callers, AddAccepted(c) \/ AddWake(c)
      PROVE  LatchReadLast'
    BY <1>2 DEF AddAccepted, AddWake, Goto
<1>3. ASSUME NEW x \in Flushers, FlusherClear(x) \/ FlusherReadsLatch(x)
      PROVE  LatchReadLast'
    BY <1>3 DEF FlusherClear, FlusherReadsLatch, Goto
<1>4. ASSUME NEW d \in Drainers, DrainGivesUp(d) \/ TakeNothing(d)
      PROVE  LatchReadLast'
    BY <1>4 DEF DrainGivesUp, TakeNothing, LeaveDrain, ExitsLoop, Goto
<1>5. ASSUME NEW d \in Drainers, ShutdownArm(d) \/ ShutdownLatch(d) \/ ShutdownWake(d)
      PROVE  LatchReadLast'
    BY <1>5 DEF ShutdownArm, ShutdownLatch, ShutdownWake, Goto
<1>6. QED
    BY <1>1, <1>2, <1>3, <1>4, <1>5, WakeCases

\* Only the flush thread itself clears the flag, and what it has not seen by
\* then it sees before it waits again.
LEMMA OnlyThreadStep ==
    ASSUME BufferInv, WakeInv, [Next]_vars
    PROVE  OnlyThreadIsWoken'
<1> DEFINE Woken == wake \/ \E d \in Drainers : pc[d] = "signal"
           Waking == wake \/ \E d \in Drainers : pc[d] \in {"wakeup", "latch", "signal"}
           AfterLatch(f) == shutdown /\ ~shuttingDown[f] /\ pc[f] \notin {"clear", "read"} => Woken
           AfterBatch(f) == pc[f] \in {"unborn", "created", "wait"} /\ Len(queue) >= FlushAt => Waking
<1>1. SUFFICES ASSUME NEW f \in Flushers, OnlyThread(f)'
               PROVE  (AfterLatch(f) /\ AfterBatch(f))'
    BY DEF OnlyThreadIsWoken
<1>2. OnlyThread(f) /\ AfterLatch(f) /\ AfterBatch(f)
    BY <1>1, OnlyThreadBefore DEF WakeInv, OnlyThreadIsWoken
<1> USE BufferAssumption DEF BufferInv, TypeOK, Drainers, storeVars, signalVars, threadVars
<1>3. CASE Unnoticed
    <2>1. Len(queue) \in Nat /\ Len(queue') \in Nat /\ FlushAt \in Nat
        BY BufferInvStep
    <2>2. Woken => Woken'
        BY <1>3 DEF Unnoticed
    <2>3. Waking => Waking'
        BY <1>3 DEF Unnoticed
    <2>4. AfterLatch(f)'
        BY <1>2, <1>3, <2>2 DEF Unnoticed
    <2>5. AfterBatch(f)'
        BY <1>2, <1>3, <2>1, <2>3 DEF Unnoticed
    <2>6. QED
        BY <2>4, <2>5
<1>4. ASSUME NEW c \in Callers, AddAccepted(c)
      PROVE  (AfterLatch(f) /\ AfterBatch(f))'
    <2>1. Len(queue') >= FlushAt => pc'[c] = "wakeup"
        BY <1>4 DEF AddAccepted, Goto, ReachesFlushAt
    <2>2. /\ UNCHANGED <<wake, shutdown, shuttingDown>> /\ pc[c] = "idle"
          /\ \A d \in Drainers : d # c => pc'[d] = pc[d]
        BY <1>4 DEF AddAccepted, Goto
    <2>3. QED
        BY <1>2, <2>1, <2>2
<1>5. ASSUME NEW c \in Callers, AddWake(c)
      PROVE  (AfterLatch(f) /\ AfterBatch(f))'
    BY <1>5 DEF AddWake
<1>6. ASSUME NEW x \in Flushers, FlusherClear(x)
      PROVE  (AfterLatch(f) /\ AfterBatch(f))'
    <2>1. x = f
        BY <1>2, <1>6 DEF OnlyThread, FlusherClear
    <2>2. QED
        BY <1>6, <2>1 DEF FlusherClear, Goto
<1>7. ASSUME NEW x \in Flushers, FlusherReadsLatch(x)
      PROVE  (AfterLatch(f) /\ AfterBatch(f))'
    <2>1. x = f
        BY <1>2, <1>7 DEF OnlyThread, FlusherReadsLatch
    <2>2. QED
        BY <1>7, <2>1 DEF FlusherReadsLatch, Goto
<1>8. ASSUME NEW d \in Drainers, DrainGivesUp(d)
      PROVE  (AfterLatch(f) /\ AfterBatch(f))'
    <2>1. shutdown \/ \E t \in Drainers : pc[t] = "latch"
        BY <1>8 DEF DrainGivesUp, WakeInv, ArmedBeforeLatch
    <2>2. PICK label \in {"check", "dead", "wait"} :
              Goto(d, label) /\ (label = "wait" => d \in Flushers /\ ~shuttingDown[d])
        BY <1>8 DEF DrainGivesUp, LeaveDrain, ExitsLoop
    <2>3. pc[d] = "drain" /\ UNCHANGED <<queue, wake, shutdown, shuttingDown>>
        BY <1>8 DEF DrainGivesUp
    <2>4. \A t \in Drainers : t # d => pc'[t] = pc[t]
        BY <2>2 DEF Goto
    <2>5. AfterLatch(f)'
        BY <1>2, <2>2, <2>3, <2>4 DEF Goto
    <2>6. AfterBatch(f)'
        BY <1>2, <2>1, <2>2, <2>3, <2>4 DEF Goto
    <2>7. QED
        BY <2>5, <2>6
<1>9. ASSUME NEW d \in Drainers, TakeNothing(d)
      PROVE  (AfterLatch(f) /\ AfterBatch(f))'
    <2>1. PICK label \in {"check", "dead", "wait"} : Goto(d, label)
        BY <1>9 DEF TakeNothing, LeaveDrain
    <2>2. /\ pc[d] = "take" /\ queue = <<>>
          /\ UNCHANGED <<queue, wake, shutdown, shuttingDown>>
        BY <1>9 DEF TakeNothing
    <2>3. \A t \in Drainers : t # d => pc'[t] = pc[t]
        BY <2>1 DEF Goto
    <2>4. AfterLatch(f)'
        BY <1>2, <2>1, <2>2, <2>3 DEF Goto
    <2>5. ~(Len(queue') >= FlushAt)
        BY <2>2
    <2>6. QED
        BY <2>4, <2>5
<1>10. ASSUME NEW d \in Drainers, ShutdownArm(d)
       PROVE  (AfterLatch(f) /\ AfterBatch(f))'
    <2>1. /\ pc[d] \in {"idle", "send"} /\ pc' = [pc EXCEPT ![d] = "latch"]
          /\ UNCHANGED <<queue, wake, shutdown, shuttingDown>>
        BY <1>10 DEF ShutdownArm, CallsShutdown, Goto
    <2>2. QED
        BY <1>2, <2>1
<1>11. ASSUME NEW d \in Drainers, ShutdownLatch(d)
       PROVE  (AfterLatch(f) /\ AfterBatch(f))'
    BY <1>11 DEF ShutdownLatch, Goto
<1>12. ASSUME NEW d \in Drainers, ShutdownWake(d)
       PROVE  (AfterLatch(f) /\ AfterBatch(f))'
    BY <1>12 DEF ShutdownWake
<1>13. QED
    BY <1>3, <1>4, <1>5, <1>6, <1>7, <1>8, <1>9, <1>10, <1>11, <1>12, WakeCases

\* Nobody is woken at first.
LEMMA WakeInit == Init => WakeInv
BY BufferAssumption DEF Init, WakeInv, ArmedBeforeLatch, LatchReadLast, OnlyThreadIsWoken, Drainers

\* The invariant of the wake-up holds in every reachable state.
LEMMA WakeInvariance == Spec => [](BufferInv /\ WakeInv)
<1>1. BufferInv /\ WakeInv /\ [Next]_vars => (BufferInv /\ WakeInv)'
    BY BufferInvStep, ArmedStep, LatchReadStep, OnlyThreadStep DEF WakeInv
<1>2. QED
    BY InitInv, WakeInit, <1>1, PTL DEF Spec

-----------------------------------------------------------------------------
\* Every variable keeps its type, whatever the number of threads, the
\* capacity and the batch size.
THEOREM Typing == Spec => []TypeOK
BY Invariance, PTL DEF BufferInv

\* _in_flight is the number of threads between _take_batch() and
\* _batch_done(), for any number of threads that drain at once.
THEOREM InFlightIsExact == Spec => []InFlightCountsBatches
BY Invariance, PTL DEF BufferInv

\* A flush thread that ends without having run out of time leaves nothing in
\* the queue, and nothing is queued after it.
THEOREM NothingStranded == Spec => []NoStranding
BY Invariance, PTL DEF BufferInv

\* No waiter of wait_until_idle() sleeps while nothing is queued or in flight.
THEOREM NoSleepingWaiter == Spec => []NoLostIdle
BY Invariance, PTL DEF BufferInv

\* While the only flush thread waits with a full batch queued, its wake-up is
\* set or on its way, with any number of callers.
THEOREM WakeUpsArrive == Spec => []NoMissedFlushAt
<1>1. WakeInv => NoMissedFlushAt
    BY DEF WakeInv, OnlyThreadIsWoken, NoMissedFlushAt
<1>2. QED
    BY WakeInvariance, <1>1, PTL

=============================================================================
