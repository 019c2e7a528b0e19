------------------------- MODULE IngestClientProofs -------------------------
(***************************************************************************)
(* Theorems about IngestClient, for every value of its constants: any      *)
(* timeouts, backoffs and budgets, any answers of the server, and any      *)
(* number of sending threads where nothing else is said.                   *)
(***************************************************************************)
EXTENDS IngestClient, TLAPS, FiniteSetTheorems

-----------------------------------------------------------------------------
(* The inductive invariants.                                               *)

\* A send has not ended, and a backoff has a retry to come.
SendsInBounds ==
    \A s \in Senders :
        /\ pc[s] # "idle" => finished[s] < MaxSends
        /\ pc[s] \in {"backoff", "wait", "sleep"} => attempt[s] < MaxAttempts - 1

\* Whatever was started on the budget of the deadline ends with it.
BudgetIsKept ==
    /\ armed => left # None
    /\ \A s \in Senders :
        /\ pc[s] \in {"client", "build", "fetch", "request"} /\ budgeted[s]
            => left # None /\ timer[s] <= left
        /\ pc[s] = "sleep" => left # None /\ timer[s] <= left

\* What the child inherited is open, and out of reach of its close().
ParentsPools ==
    /\ inherited \subseteq open
    /\ http \notin inherited
    /\ closing \notin inherited

ClientInv == TypeOK /\ SendsInBounds /\ BudgetIsKept /\ ParentsPools

-----------------------------------------------------------------------------
\* The steps of the client.
LEMMA ClientCases ==
    ASSUME [Next]_vars
    PROVE  \/ \E s \in Senders :
                \/ SendBegin(s) \/ SendRefused(s)
                \/ AttemptRefused(s) \/ AttemptBegin(s)
                \/ ClientCheck(s) \/ ClientBuild(s) \/ ClientPost(s) \/ ClientGone(s)
                \/ ResponseFinal(s) \/ ResponseRetry(s)
                \/ SleepUnarmed(s) \/ SleepArmed(s) \/ SleepEnds(s)
                \/ CountRead(s) \/ CountWrite(s)
           \/ ArmTime \/ ArmFlag \/ CloseLatch \/ CloseSwap \/ ClosePool \/ Fork \/ Tick
           \/ UNCHANGED vars
BY DEF Next, Attempt, Respond, Sleep, Count, Close

\* A backoff is a delay of at most backoff_max.
LEMMA DelaysTyping ==
    ASSUME NEW n \in Nat
    PROVE  Delays(n) \subseteq 0..BackoffMax
<1>1. ASSUME NEW r \in RetryAfter
      PROVE  Shorter(r, BackoffMax) \in 0..BackoffMax
    BY ClientAssumption DEF Shorter
<1>2. QED
    BY <1>1 DEF Delays

\* Every step preserves the type of the state.
LEMMA TypingStep ==
    ASSUME ClientInv, [Next]_vars
    PROVE  TypeOK'
<1> USE ClientAssumption DEF ClientInv, TypeOK, Labels, LongestWait, senderVars,
   deadlineVars, poolVars, Goto
<1>1. ASSUME NEW s \in Senders, SendBegin(s)
      PROVE  TypeOK'
    BY <1>1 DEF SendBegin
<1>2. ASSUME NEW s \in Senders, SendRefused(s)
      PROVE  TypeOK'
    BY <1>2 DEF SendRefused
<1>3. ASSUME NEW s \in Senders, AttemptRefused(s)
      PROVE  TypeOK'
    BY <1>3 DEF AttemptRefused
<1>4. ASSUME NEW s \in Senders, AttemptBegin(s)
      PROVE  TypeOK'
    <2>1. RequestTimeout \in 0..LongestWait
        BY DEF RequestTimeout, Shorter
    <2>2. QED
        BY <1>4, <2>1 DEF AttemptBegin
<1>5. ASSUME NEW s \in Senders, ClientCheck(s)
      PROVE  TypeOK'
    BY <1>5 DEF ClientCheck
<1>6. ASSUME NEW s \in Senders, ClientBuild(s)
      PROVE  TypeOK'
    BY <1>6 DEF ClientBuild
<1>7. ASSUME NEW s \in Senders, ClientPost(s)
      PROVE  TypeOK'
    BY <1>7 DEF ClientPost
<1>8. ASSUME NEW s \in Senders, ClientGone(s)
      PROVE  TypeOK'
    BY <1>8 DEF ClientGone
<1>9. ASSUME NEW s \in Senders, ResponseFinal(s)
      PROVE  TypeOK'
    <2>1. PICK label \in {"sent", "dropped"} : EndRequest(s, label)
        BY <1>9 DEF ResponseFinal
    <2>2. QED
        BY <1>9, <2>1 DEF ResponseFinal, EndRequest
<1>10. ASSUME NEW s \in Senders, ResponseRetry(s)
       PROVE  TypeOK'
    <2>1. PICK label \in {"dropped", "backoff"} : EndRequest(s, label)
        BY <1>10 DEF ResponseRetry
    <2>2. delay' \in [Senders -> 0..BackoffMax]
        <3>1. CASE UNCHANGED delay
            BY <3>1
        <3>2. CASE HasTime /\ \E d \in Delays(attempt[s]) :
                        delay' = [delay EXCEPT ![s] = IF left = None THEN d ELSE Shorter(d, left)]
            <4>1. PICK d \in Delays(attempt[s]) :
                        delay' = [delay EXCEPT ![s] = IF left = None THEN d ELSE Shorter(d, left)]
                BY <3>2
            <4>2. d \in 0..BackoffMax
                BY DelaysTyping
            <4>3. (IF left = None THEN d ELSE Shorter(d, left)) \in 0..BackoffMax
                BY <4>2 DEF Shorter
            <4>4. QED
                BY <4>1, <4>3
        <3>3. QED
            BY <1>10, <3>1, <3>2 DEF ResponseRetry
    <2>3. QED
        <3>1. pc' \in [Senders -> Labels]
            BY <2>1 DEF EndRequest
        <3>2. using' \in [Senders -> Pools \cup {None}]
            BY <2>1 DEF EndRequest
        <3>3. timer' \in [Senders -> 0..LongestWait]
            BY <2>1 DEF EndRequest
        <3>4. UNCHANGED <<attempt, budgeted, seen, finished, elapsed, deadlineVars, poolVars, stats>>
            BY <2>1 DEF EndRequest
        <3>5. QED
            BY <2>2, <3>1, <3>2, <3>3, <3>4
<1>11. ASSUME NEW s \in Senders, SleepUnarmed(s)
       PROVE  TypeOK'
    <2>1. delay[s] \in 0..LongestWait
        OBVIOUS
    <2>2. QED
        BY <1>11, <2>1 DEF SleepUnarmed
<1>12. ASSUME NEW s \in Senders, SleepArmed(s)
       PROVE  TypeOK'
    <2>1. Shorter(delay[s], left) \in 0..LongestWait
        BY <1>12 DEF SleepArmed, Shorter, BudgetIsKept
    <2>2. QED
        BY <1>12, <2>1 DEF SleepArmed
<1>13. ASSUME NEW s \in Senders, SleepEnds(s)
       PROVE  TypeOK'
    <2>1. NextAttempt(attempt[s]) \in 0..(MaxAttempts - 1)
        BY <1>13 DEF SleepEnds, NextAttempt, SendsInBounds
    <2>2. QED
        BY <1>13, <2>1 DEF SleepEnds
<1>14. ASSUME NEW s \in Senders, CountRead(s)
       PROVE  TypeOK'
    BY <1>14 DEF CountRead
<1>15. ASSUME NEW s \in Senders, CountWrite(s)
       PROVE  TypeOK'
    <2>1. Counted(s) \in [{"sent", "dropped"} -> Nat]
        BY DEF Counted
    <2>2. finished[s] + 1 \in 0..MaxSends
        BY <1>15 DEF CountWrite, SendsInBounds
    <2>3. QED
        BY <1>15, <2>1, <2>2 DEF CountWrite
<1>16. ASSUME ArmTime
       PROVE  TypeOK'
    BY <1>16 DEF ArmTime
<1>17. ASSUME ArmFlag
       PROVE  TypeOK'
    BY <1>17 DEF ArmFlag
<1>18. ASSUME CloseLatch
       PROVE  TypeOK'
    BY <1>18 DEF CloseLatch
<1>19. ASSUME CloseSwap
       PROVE  TypeOK'
    BY <1>19 DEF CloseSwap
<1>20. ASSUME ClosePool
       PROVE  TypeOK'
    BY <1>20 DEF ClosePool
<1>21. ASSUME Fork
       PROVE  TypeOK'
    <2>1. /\ pc' \in [Senders -> Labels] /\ timer' \in [Senders -> 0..LongestWait]
          /\ delay' \in [Senders -> 0..BackoffMax] /\ using' \in [Senders -> Pools \cup {None}]
          /\ seen' \in [Senders -> Nat] /\ finished' \in [Senders -> 0..MaxSends]
          /\ elapsed' \in [Senders -> Nat]
        BY <1>21 DEF Fork
    <2>2. stats' \in [{"sent", "dropped"} -> Nat]
        BY <1>21 DEF Fork
    <2>3. closer' \in {"open", "latched", "swapped", "done"}
        BY <1>21 DEF Fork
    <2>4. /\ left' \in Nat \cup {None} /\ armed' \in BOOLEAN
          /\ http' \in Pools \cup {None} /\ closing' \in Pools \cup {None}
          /\ open' \subseteq Pools /\ inherited' \subseteq Pools
        BY <1>21 DEF Fork, ForgetsPool
    <2>5. attempt' = attempt /\ budgeted' = budgeted
        BY <1>21 DEF Fork
    <2>6. QED
        BY <2>1, <2>2, <2>3, <2>4, <2>5
<1>22. ASSUME Tick
       PROVE  TypeOK'
    <2>1. \A s \in Senders : Waiting(s) => timer[s] > 0
        BY <1>22 DEF Tick, Quiet, Waiting, Blocking, Woken
    <2>2. timer' \in [Senders -> 0..LongestWait]
        BY <1>22, <2>1 DEF Tick
    <2>3. left' \in Nat \cup {None}
        BY <1>22 DEF Tick
    <2>4. elapsed' \in [Senders -> Nat]
        BY <1>22 DEF Tick
    <2>5. QED
        BY <1>22, <2>2, <2>3, <2>4 DEF Tick
<1>23. CASE UNCHANGED vars
    BY <1>23 DEF vars
<1>24. QED
    BY ClientCases, <1>1, <1>2, <1>3, <1>4, <1>5, <1>6, <1>7, <1>8, <1>9, <1>10, <1>11,
       <1>12, <1>13, <1>14, <1>15, <1>16, <1>17, <1>18, <1>19, <1>20, <1>21, <1>22, <1>23

\* Every send ends before the next begins, and every backoff before a retry.
LEMMA BoundsStep ==
    ASSUME ClientInv, [Next]_vars
    PROVE  SendsInBounds'
<1> USE ClientAssumption DEF ClientInv, TypeOK, senderVars, deadlineVars, poolVars, Goto, SendsInBounds
<1>1. ASSUME NEW s \in Senders, SendBegin(s)
      PROVE  SendsInBounds'
    BY <1>1 DEF SendBegin
<1>2. ASSUME NEW s \in Senders, SendRefused(s)
      PROVE  SendsInBounds'
    BY <1>2 DEF SendRefused
<1>3. ASSUME NEW s \in Senders, AttemptRefused(s)
      PROVE  SendsInBounds'
    BY <1>3 DEF AttemptRefused
<1>4. ASSUME NEW s \in Senders, AttemptBegin(s)
      PROVE  SendsInBounds'
    BY <1>4 DEF AttemptBegin
<1>5. ASSUME NEW s \in Senders, ClientCheck(s)
      PROVE  SendsInBounds'
    BY <1>5 DEF ClientCheck
<1>6. ASSUME NEW s \in Senders, ClientBuild(s)
      PROVE  SendsInBounds'
    BY <1>6 DEF ClientBuild
<1>7. ASSUME NEW s \in Senders, ClientPost(s)
      PROVE  SendsInBounds'
    BY <1>7 DEF ClientPost
<1>8. ASSUME NEW s \in Senders, ClientGone(s)
      PROVE  SendsInBounds'
    BY <1>8 DEF ClientGone
<1>9. ASSUME NEW s \in Senders, ResponseFinal(s)
      PROVE  SendsInBounds'
    BY <1>9 DEF ResponseFinal, EndRequest
<1>10. ASSUME NEW s \in Senders, ResponseRetry(s)
       PROVE  SendsInBounds'
    <2>1. CASE LastAttempt(attempt[s]) \/ ~HasTime
        BY <1>10, <2>1 DEF ResponseRetry, EndRequest
    <2>2. CASE ~LastAttempt(attempt[s]) /\ HasTime
        <3>1. EndRequest(s, "backoff")
            BY <1>10, <2>2 DEF ResponseRetry
        <3>2. attempt[s] < MaxAttempts - 1
            BY <2>2 DEF LastAttempt
        <3>3. pc[s] = "request"
            BY <1>10 DEF ResponseRetry
        <3>4. QED
            BY <3>1, <3>2, <3>3 DEF EndRequest
    <2>3. QED
        BY <2>1, <2>2
<1>11. ASSUME NEW s \in Senders, SleepUnarmed(s)
       PROVE  SendsInBounds'
    BY <1>11 DEF SleepUnarmed
<1>12. ASSUME NEW s \in Senders, SleepArmed(s)
       PROVE  SendsInBounds'
    BY <1>12 DEF SleepArmed
<1>13. ASSUME NEW s \in Senders, SleepEnds(s)
       PROVE  SendsInBounds'
    BY <1>13 DEF SleepEnds
<1>14. ASSUME NEW s \in Senders, CountRead(s)
       PROVE  SendsInBounds'
    BY <1>14 DEF CountRead
<1>15. ASSUME NEW s \in Senders, CountWrite(s)
       PROVE  SendsInBounds'
    BY <1>15 DEF CountWrite
<1>16. ASSUME ArmTime
       PROVE  SendsInBounds'
    BY <1>16 DEF ArmTime
<1>17. ASSUME ArmFlag
       PROVE  SendsInBounds'
    BY <1>17 DEF ArmFlag
<1>18. ASSUME CloseLatch
       PROVE  SendsInBounds'
    BY <1>18 DEF CloseLatch
<1>19. ASSUME CloseSwap
       PROVE  SendsInBounds'
    BY <1>19 DEF CloseSwap
<1>20. ASSUME ClosePool
       PROVE  SendsInBounds'
    BY <1>20 DEF ClosePool
<1>21. ASSUME Fork
       PROVE  SendsInBounds'
    BY <1>21 DEF Fork
<1>22. ASSUME Tick
       PROVE  SendsInBounds'
    BY <1>22 DEF Tick
<1>23. CASE UNCHANGED vars
    BY <1>23 DEF vars
<1>24. QED
    BY ClientCases, <1>1, <1>2, <1>3, <1>4, <1>5, <1>6, <1>7, <1>8, <1>9, <1>10, <1>11,
       <1>12, <1>13, <1>14, <1>15, <1>16, <1>17, <1>18, <1>19, <1>20, <1>21, <1>22, <1>23

\* The time left of the deadline and of what it bounds pass together.
LEMMA BudgetStep ==
    ASSUME ClientInv, [Next]_vars
    PROVE  BudgetIsKept'
<1> USE ClientAssumption DEF ClientInv, TypeOK, senderVars, deadlineVars, poolVars, Goto, BudgetIsKept
<1>1. ASSUME NEW s \in Senders, SendBegin(s)
      PROVE  BudgetIsKept'
    BY <1>1 DEF SendBegin
<1>2. ASSUME NEW s \in Senders, SendRefused(s)
      PROVE  BudgetIsKept'
    BY <1>2 DEF SendRefused
<1>3. ASSUME NEW s \in Senders, AttemptRefused(s)
      PROVE  BudgetIsKept'
    BY <1>3 DEF AttemptRefused
<1>4. ASSUME NEW s \in Senders, AttemptBegin(s)
      PROVE  BudgetIsKept'
    BY <1>4 DEF AttemptBegin, RequestTimeout, Shorter
<1>5. ASSUME NEW s \in Senders, ClientCheck(s)
      PROVE  BudgetIsKept'
    BY <1>5 DEF ClientCheck
<1>6. ASSUME NEW s \in Senders, ClientBuild(s)
      PROVE  BudgetIsKept'
    BY <1>6 DEF ClientBuild
<1>7. ASSUME NEW s \in Senders, ClientPost(s)
      PROVE  BudgetIsKept'
    BY <1>7 DEF ClientPost
<1>8. ASSUME NEW s \in Senders, ClientGone(s)
      PROVE  BudgetIsKept'
    BY <1>8 DEF ClientGone
<1>9. ASSUME NEW s \in Senders, ResponseFinal(s)
      PROVE  BudgetIsKept'
    BY <1>9 DEF ResponseFinal, EndRequest
<1>10. ASSUME NEW s \in Senders, ResponseRetry(s)
       PROVE  BudgetIsKept'
    BY <1>10 DEF ResponseRetry, EndRequest
<1>11. ASSUME NEW s \in Senders, SleepUnarmed(s)
       PROVE  BudgetIsKept'
    BY <1>11 DEF SleepUnarmed
<1>12. ASSUME NEW s \in Senders, SleepArmed(s)
       PROVE  BudgetIsKept'
    BY <1>12 DEF SleepArmed, Shorter
<1>13. ASSUME NEW s \in Senders, SleepEnds(s)
       PROVE  BudgetIsKept'
    BY <1>13 DEF SleepEnds
<1>14. ASSUME NEW s \in Senders, CountRead(s)
       PROVE  BudgetIsKept'
    BY <1>14 DEF CountRead
<1>15. ASSUME NEW s \in Senders, CountWrite(s)
       PROVE  BudgetIsKept'
    BY <1>15 DEF CountWrite
<1>16. ASSUME ArmTime
       PROVE  BudgetIsKept'
    BY <1>16 DEF ArmTime
<1>17. ASSUME ArmFlag
       PROVE  BudgetIsKept'
    BY <1>17 DEF ArmFlag
<1>18. ASSUME CloseLatch
       PROVE  BudgetIsKept'
    BY <1>18 DEF CloseLatch
<1>19. ASSUME CloseSwap
       PROVE  BudgetIsKept'
    BY <1>19 DEF CloseSwap
<1>20. ASSUME ClosePool
       PROVE  BudgetIsKept'
    BY <1>20 DEF ClosePool
<1>21. ASSUME Fork
       PROVE  BudgetIsKept'
    BY <1>21 DEF Fork
<1>22. ASSUME Tick
       PROVE  BudgetIsKept'
    <2>1. \A s \in Senders : timer'[s] = IF Waiting(s) THEN timer[s] - 1 ELSE timer[s]
        BY <1>22 DEF Tick
    <2>2. ASSUME NEW s \in Senders, pc[s] \in {"client", "build", "fetch", "request"}, budgeted[s]
          PROVE  left' # None /\ timer'[s] <= left'
        <3>1. pc[s] = "request" /\ timer[s] > 0
            BY <1>22, <2>2 DEF Tick, Quiet, Blocking
        <3>2. left # None /\ timer[s] <= left /\ left \in Nat /\ timer[s] \in Nat
            BY <2>2
        <3>3. left' = left - 1
            BY <1>22, <3>1, <3>2 DEF Tick
        <3>4. timer'[s] = timer[s] - 1
            BY <2>1, <3>1 DEF Waiting, Blocking
        <3>5. QED
            BY <3>2, <3>3, <3>4
    <2>3. ASSUME NEW s \in Senders, pc[s] = "sleep"
          PROVE  left' # None /\ timer'[s] <= left'
        <3>1. timer[s] # 0
            BY <1>22, <2>3 DEF Tick, Quiet, Woken
        <3>2. left # None /\ timer[s] <= left /\ left \in Nat /\ timer[s] \in Nat
            BY <2>3
        <3>3. left' = left - 1
            BY <1>22, <3>1, <3>2 DEF Tick
        <3>4. timer'[s] = timer[s] - 1
            BY <2>1, <2>3 DEF Waiting, Blocking
        <3>5. QED
            BY <3>2, <3>3, <3>4
    <2>4. armed' => left' # None
        BY <1>22 DEF Tick
    <2>5. pc' = pc /\ budgeted' = budgeted
        BY <1>22 DEF Tick
    <2>6. QED
        BY <2>2, <2>3, <2>4, <2>5
<1>23. CASE UNCHANGED vars
    BY <1>23 DEF vars
<1>24. QED
    BY ClientCases, <1>1, <1>2, <1>3, <1>4, <1>5, <1>6, <1>7, <1>8, <1>9, <1>10, <1>11,
       <1>12, <1>13, <1>14, <1>15, <1>16, <1>17, <1>18, <1>19, <1>20, <1>21, <1>22, <1>23

\* The pools of the parent are neither built, nor swapped, nor closed again.
LEMMA ParentsStep ==
    ASSUME ClientInv, [Next]_vars
    PROVE  ParentsPools'
<1> USE ClientAssumption DEF ClientInv, TypeOK, senderVars, deadlineVars, poolVars, Goto, ParentsPools
<1>1. ASSUME NEW s \in Senders, SendBegin(s)
      PROVE  ParentsPools'
    BY <1>1 DEF SendBegin
<1>2. ASSUME NEW s \in Senders, SendRefused(s)
      PROVE  ParentsPools'
    BY <1>2 DEF SendRefused
<1>3. ASSUME NEW s \in Senders, AttemptRefused(s)
      PROVE  ParentsPools'
    BY <1>3 DEF AttemptRefused
<1>4. ASSUME NEW s \in Senders, AttemptBegin(s)
      PROVE  ParentsPools'
    BY <1>4 DEF AttemptBegin
<1>5. ASSUME NEW s \in Senders, ClientCheck(s)
      PROVE  ParentsPools'
    BY <1>5 DEF ClientCheck
<1>6. ASSUME NEW s \in Senders, ClientBuild(s)
      PROVE  ParentsPools'
    BY <1>6 DEF ClientBuild
<1>7. ASSUME NEW s \in Senders, ClientPost(s)
      PROVE  ParentsPools'
    BY <1>7 DEF ClientPost
<1>8. ASSUME NEW s \in Senders, ClientGone(s)
      PROVE  ParentsPools'
    BY <1>8 DEF ClientGone
<1>9. ASSUME NEW s \in Senders, ResponseFinal(s)
      PROVE  ParentsPools'
    BY <1>9 DEF ResponseFinal, EndRequest
<1>10. ASSUME NEW s \in Senders, ResponseRetry(s)
       PROVE  ParentsPools'
    BY <1>10 DEF ResponseRetry, EndRequest
<1>11. ASSUME NEW s \in Senders, SleepUnarmed(s)
       PROVE  ParentsPools'
    BY <1>11 DEF SleepUnarmed
<1>12. ASSUME NEW s \in Senders, SleepArmed(s)
       PROVE  ParentsPools'
    BY <1>12 DEF SleepArmed
<1>13. ASSUME NEW s \in Senders, SleepEnds(s)
       PROVE  ParentsPools'
    BY <1>13 DEF SleepEnds
<1>14. ASSUME NEW s \in Senders, CountRead(s)
       PROVE  ParentsPools'
    BY <1>14 DEF CountRead
<1>15. ASSUME NEW s \in Senders, CountWrite(s)
       PROVE  ParentsPools'
    BY <1>15 DEF CountWrite
<1>16. ASSUME ArmTime
       PROVE  ParentsPools'
    BY <1>16 DEF ArmTime
<1>17. ASSUME ArmFlag
       PROVE  ParentsPools'
    BY <1>17 DEF ArmFlag
<1>18. ASSUME CloseLatch
       PROVE  ParentsPools'
    BY <1>18 DEF CloseLatch
<1>19. ASSUME CloseSwap
       PROVE  ParentsPools'
    BY <1>19 DEF CloseSwap
<1>20. ASSUME ClosePool
       PROVE  ParentsPools'
    BY <1>20 DEF ClosePool
<1>21. ASSUME Fork
       PROVE  ParentsPools'
    BY <1>21 DEF Fork, ForgetsPool
<1>22. ASSUME Tick
       PROVE  ParentsPools'
    BY <1>22 DEF Tick
<1>23. CASE UNCHANGED vars
    BY <1>23 DEF vars
<1>24. QED
    BY ClientCases, <1>1, <1>2, <1>3, <1>4, <1>5, <1>6, <1>7, <1>8, <1>9, <1>10, <1>11,
       <1>12, <1>13, <1>14, <1>15, <1>16, <1>17, <1>18, <1>19, <1>20, <1>21, <1>22, <1>23

-----------------------------------------------------------------------------
\* The invariant holds at first.
LEMMA ClientInit == Init => ClientInv
<1> SUFFICES ASSUME Init
             PROVE  ClientInv
    OBVIOUS
<1>1. TypeOK
    <2>1. /\ pc \in [Senders -> Labels] /\ attempt \in [Senders -> 0..(MaxAttempts - 1)]
          /\ budgeted \in [Senders -> BOOLEAN] /\ delay \in [Senders -> 0..BackoffMax]
          /\ timer \in [Senders -> 0..LongestWait] /\ using \in [Senders -> Pools \cup {None}]
          /\ seen \in [Senders -> Nat] /\ finished \in [Senders -> 0..MaxSends]
          /\ elapsed \in [Senders -> Nat]
        BY ClientAssumption DEF Init, Labels, LongestWait
    <2>2. stats \in [{"sent", "dropped"} -> Nat]
        BY DEF Init
    <2>3. /\ left \in Nat \cup {None} /\ armed \in BOOLEAN
          /\ http \in Pools \cup {None} /\ closing \in Pools \cup {None}
          /\ closer \in {"open", "latched", "swapped", "done"}
          /\ open \subseteq Pools /\ inherited \subseteq Pools
        BY DEF Init
    <2>4. QED
        BY <2>1, <2>2, <2>3 DEF TypeOK
<1>2. SendsInBounds /\ BudgetIsKept /\ ParentsPools
    BY DEF Init, SendsInBounds, BudgetIsKept, ParentsPools
<1>3. QED
    BY <1>1, <1>2 DEF ClientInv

\* Every step preserves the invariant.
LEMMA ClientInvStep ==
    ASSUME ClientInv, [Next]_vars
    PROVE  ClientInv'
BY TypingStep, BoundsStep, BudgetStep, ParentsStep DEF ClientInv

\* The invariant holds in every reachable state.
LEMMA ClientInvariance == Spec => []ClientInv
<1>1. ClientInv /\ [Next]_vars => ClientInv'
    BY ClientInvStep
<1>2. QED
    BY ClientInit, <1>1, PTL DEF Spec

\* A forked child never closes a connection of its parent, whatever its own
\* senders and its close() do, and however close() of the parent was going.
THEOREM ParentsPoolsStayOpen == Spec => []InheritedPoolsStayOpen
<1>1. ClientInv => InheritedPoolsStayOpen
    BY DEF ClientInv, ParentsPools, InheritedPoolsStayOpen
<1>2. QED
    BY ClientInvariance, <1>1, PTL

\* Time passes on a spent budget only for a request that was posted before
\* the deadline was armed, whatever the timeouts and the backoffs are.
THEOREM DeadlineBounds == Spec => NothingOutlivesTheDeadline
<1> DEFINE InTime(s) == Waiting(s) => pc[s] = "request" /\ ~budgeted[s]
<1>1. ASSUME ClientInv, Tick, left = 0, NEW s \in Senders, Waiting(s)
      PROVE  pc[s] = "request" /\ ~budgeted[s]
    <2> USE DEF ClientInv, TypeOK, BudgetIsKept
    <2>1. armed
        BY <1>1, ClientAssumption DEF Tick, Quiet
    <2>2. pc[s] # "wait"
        BY <1>1, <2>1 DEF Tick, Quiet, Woken
    <2>3. pc[s] # "sleep"
        <3>1. SUFFICES ASSUME pc[s] = "sleep"
                       PROVE  FALSE
            OBVIOUS
        <3>2. timer[s] # 0
            BY <1>1, <3>1 DEF Tick, Quiet, Woken
        <3>3. timer[s] <= 0 /\ timer[s] \in Nat
            BY <1>1, <3>1
        <3>4. QED
            BY <3>2, <3>3
    <2>4. pc[s] = "request"
        BY <1>1, <2>2, <2>3 DEF Waiting, Blocking
    <2>5. timer[s] > 0 /\ timer[s] \in Nat
        BY <1>1, <2>4 DEF Tick, Quiet
    <2>6. ~budgeted[s]
        BY <1>1, <2>4, <2>5
    <2>7. QED
        BY <2>4, <2>6
<1>2. ClientInv /\ [Next]_vars => [Tick /\ left = 0 => \A s \in Senders : InTime(s)]_vars
    BY <1>1
<1>3. QED
    BY ClientInvariance, <1>2, PTL DEF Spec, NothingOutlivesTheDeadline

-----------------------------------------------------------------------------
(* How long a send lasts.                                                  *)

\* The time that n attempts and the backoffs after them take at most.
Spent(n) == n * (Timeout + BackoffMax)

\* Each attempt adds a request and a backoff, and the last one a request only.
LEMMA SpentSums ==
    ASSUME NEW n \in 0..(MaxAttempts - 1)
    PROVE  /\ Spent(n) \in Nat
           /\ Spent(n + 1) = Spent(n) + Timeout + BackoffMax
           /\ Spent(n) + Timeout <= LongestSend
           /\ LongestSend \in Nat
<1> DEFINE m == MaxAttempts - 1
<1>1. /\ Timeout \in Nat /\ BackoffMax \in Nat /\ m \in Nat /\ n \in Nat
      /\ MaxAttempts = m + 1 /\ n <= m
    BY ClientAssumption
<1>2. PICK k \in Nat : m = n + k
    <2>1. m - n \in Nat /\ m = n + (m - n)
        BY <1>1
    <2>2. QED
        BY <2>1
<1>3. LongestSend = Spent(n) + k * (Timeout + BackoffMax) + Timeout
    BY <1>1, <1>2 DEF LongestSend, Spent
<1>4. k * (Timeout + BackoffMax) \in Nat /\ Spent(n) \in Nat
    BY <1>1, <1>2 DEF Spent
<1>5. Spent(n + 1) = Spent(n) + Timeout + BackoffMax
    BY <1>1 DEF Spent
<1>6. QED
    BY <1>1, <1>3, <1>4, <1>5

\* What a sender has spent, with what its request or its sleep may still
\* take, is what its attempts account for.
TimeIsKept ==
    \A s \in Senders :
        /\ pc[s] = "idle" => elapsed[s] = 0
        /\ pc[s] = "attempt" => elapsed[s] <= Spent(attempt[s])
        /\ pc[s] \in {"client", "build", "fetch", "request"}
            => elapsed[s] + timer[s] <= Spent(attempt[s]) + Timeout
        /\ pc[s] = "backoff" => elapsed[s] <= Spent(attempt[s]) + Timeout
        /\ pc[s] \in {"wait", "sleep"} => elapsed[s] + timer[s] <= Spent(attempt[s] + 1)
        /\ pc[s] \in {"sent", "dropped", "storeSent", "storeDropped"}
            => elapsed[s] <= LongestSend

\* Nobody has spent anything at first.
LEMMA TimeInit == Init => TimeIsKept
BY DEF Init, TimeIsKept

\* Every step accounts for the time it takes.
LEMMA TimeStep ==
    ASSUME ClientInv, TimeIsKept, [Next]_vars
    PROVE  TimeIsKept'
<1> USE ClientAssumption DEF ClientInv, TypeOK, senderVars, deadlineVars, poolVars, Goto, TimeIsKept
<1>0. /\ \A n \in 0..(MaxAttempts - 1) :
            /\ Spent(n) \in Nat /\ Spent(n + 1) = Spent(n) + Timeout + BackoffMax
            /\ Spent(n) + Timeout <= LongestSend
      /\ LongestSend \in Nat
    <2>1. 0 \in 0..(MaxAttempts - 1)
        OBVIOUS
    <2>2. QED
        BY <2>1, SpentSums
<1>1. ASSUME NEW s \in Senders, SendBegin(s)
      PROVE  TimeIsKept'
    BY <1>0, <1>1 DEF SendBegin
<1>2. ASSUME NEW s \in Senders, SendRefused(s)
      PROVE  TimeIsKept'
    BY <1>0, <1>2 DEF SendRefused
<1>3. ASSUME NEW s \in Senders, AttemptRefused(s)
      PROVE  TimeIsKept'
    BY <1>0, <1>3 DEF AttemptRefused
<1>4. ASSUME NEW s \in Senders, AttemptBegin(s)
      PROVE  TimeIsKept'
    BY <1>0, <1>4 DEF AttemptBegin, RequestTimeout, Shorter
<1>5. ASSUME NEW s \in Senders, ClientCheck(s)
      PROVE  TimeIsKept'
    BY <1>0, <1>5 DEF ClientCheck
<1>6. ASSUME NEW s \in Senders, ClientBuild(s)
      PROVE  TimeIsKept'
    BY <1>0, <1>6 DEF ClientBuild
<1>7. ASSUME NEW s \in Senders, ClientPost(s)
      PROVE  TimeIsKept'
    BY <1>0, <1>7 DEF ClientPost
<1>8. ASSUME NEW s \in Senders, ClientGone(s)
      PROVE  TimeIsKept'
    BY <1>0, <1>8 DEF ClientGone
<1>9. ASSUME NEW s \in Senders, ResponseFinal(s)
      PROVE  TimeIsKept'
    BY <1>0, <1>9 DEF ResponseFinal, EndRequest
<1>10. ASSUME NEW s \in Senders, ResponseRetry(s)
       PROVE  TimeIsKept'
    BY <1>0, <1>10 DEF ResponseRetry, EndRequest
<1>11. ASSUME NEW s \in Senders, SleepUnarmed(s)
       PROVE  TimeIsKept'
    BY <1>0, <1>11 DEF SleepUnarmed
<1>12. ASSUME NEW s \in Senders, SleepArmed(s)
       PROVE  TimeIsKept'
    BY <1>0, <1>12 DEF SleepArmed, Shorter
<1>13. ASSUME NEW s \in Senders, SleepEnds(s)
       PROVE  TimeIsKept'
    BY <1>0, <1>13 DEF SleepEnds, NextAttempt, SendsInBounds
<1>14. ASSUME NEW s \in Senders, CountRead(s)
       PROVE  TimeIsKept'
    BY <1>0, <1>14 DEF CountRead
<1>15. ASSUME NEW s \in Senders, CountWrite(s)
       PROVE  TimeIsKept'
    BY <1>0, <1>15 DEF CountWrite
<1>16. ASSUME ArmTime
       PROVE  TimeIsKept'
    BY <1>0, <1>16 DEF ArmTime
<1>17. ASSUME ArmFlag
       PROVE  TimeIsKept'
    BY <1>0, <1>17 DEF ArmFlag
<1>18. ASSUME CloseLatch
       PROVE  TimeIsKept'
    BY <1>0, <1>18 DEF CloseLatch
<1>19. ASSUME CloseSwap
       PROVE  TimeIsKept'
    BY <1>0, <1>19 DEF CloseSwap
<1>20. ASSUME ClosePool
       PROVE  TimeIsKept'
    BY <1>0, <1>20 DEF ClosePool
<1>21. ASSUME Fork
       PROVE  TimeIsKept'
    BY <1>0, <1>21 DEF Fork
<1>22. ASSUME Tick
       PROVE  TimeIsKept'
    <2>1. /\ \A s \in Senders : timer'[s] = IF Waiting(s) THEN timer[s] - 1 ELSE timer[s]
          /\ \A s \in Senders : elapsed'[s] = IF Waiting(s) THEN elapsed[s] + 1 ELSE elapsed[s]
        BY <1>22 DEF Tick
    <2>2. \A s \in Senders : pc[s] \in Blocking
        BY <1>22 DEF Tick, Quiet
    <2>3. pc' = pc /\ attempt' = attempt
        BY <1>22 DEF Tick
    <2>4. QED
        BY <2>1, <2>2, <2>3, <1>0 DEF Waiting, Blocking
<1>23. CASE UNCHANGED vars
    BY <1>23 DEF vars
<1>24. QED
    BY ClientCases, <1>1, <1>2, <1>3, <1>4, <1>5, <1>6, <1>7, <1>8, <1>9, <1>10, <1>11,
       <1>12, <1>13, <1>14, <1>15, <1>16, <1>17, <1>18, <1>19, <1>20, <1>21, <1>22, <1>23

\* No batch occupies its sender for longer than max_attempts requests and the
\* backoffs between them, whatever Retry-After the server asks for.
THEOREM SendsAreBounded == Spec => []SendIsBounded
<1>1. ClientInv /\ TimeIsKept => SendIsBounded
    <2>1. SUFFICES ASSUME ClientInv, TimeIsKept, NEW s \in Senders
                   PROVE  elapsed[s] <= LongestSend
        BY DEF SendIsBounded
    <2>2. /\ pc[s] \in Labels /\ elapsed[s] \in Nat /\ timer[s] \in Nat
          /\ attempt[s] \in 0..(MaxAttempts - 1) /\ Timeout \in Nat /\ BackoffMax \in Nat
        BY <2>1, ClientAssumption DEF ClientInv, TypeOK
    <2>3. /\ Spent(attempt[s]) \in Nat
          /\ Spent(attempt[s]) + Timeout <= LongestSend
          /\ LongestSend \in Nat
        BY <2>2, SpentSums
    <2>4. CASE pc[s] \in {"wait", "sleep"}
        <3>1. attempt[s] + 1 \in 0..(MaxAttempts - 1)
            BY <2>1, <2>2, <2>4, ClientAssumption DEF ClientInv, SendsInBounds
        <3>2. Spent(attempt[s] + 1) \in Nat /\ Spent(attempt[s] + 1) + Timeout <= LongestSend
            BY <3>1, SpentSums
        <3>3. elapsed[s] + timer[s] <= Spent(attempt[s] + 1)
            BY <2>1, <2>4 DEF TimeIsKept
        <3>4. QED
            BY <2>2, <2>3, <3>2, <3>3
    <2>5. CASE pc[s] \notin {"wait", "sleep"}
        BY <2>1, <2>2, <2>3, <2>5 DEF TimeIsKept, Labels
    <2>6. QED
        BY <2>4, <2>5
<1>2. ClientInv /\ TimeIsKept /\ [Next]_vars => TimeIsKept'
    BY TimeStep
<1>3. QED
    BY ClientInvariance, TimeInit, <1>1, <1>2, PTL DEF Spec

-----------------------------------------------------------------------------
(* With one sender: _client() and the counters have no lock, and two       *)
(* senders may build two pools and lose a count.                           *)

OneSender == \A s, t \in Senders : s = t

\* The pools that are open are the parent's, the one in use and the one that
\* close() has taken.
PoolsInHand ==
    /\ closer \in {"open", "latched"} => closing = None
    /\ open \subseteq inherited \cup {closing, http}
    /\ \A s \in Senders : pc[s] = "build" => http = None

\* There is no pool at first.
LEMMA PoolsInit == Init => PoolsInHand
BY DEF Init, PoolsInHand

\* With one sender, every step keeps the pool with who opened it.
LEMMA PoolsStep ==
    ASSUME OneSender, ClientInv, PoolsInHand, [Next]_vars
    PROVE  PoolsInHand'
<1> USE ClientAssumption DEF ClientInv, TypeOK, senderVars, deadlineVars, poolVars, Goto,
   OneSender, PoolsInHand
<1>1. ASSUME NEW s \in Senders, SendBegin(s)
      PROVE  PoolsInHand'
    BY <1>1 DEF SendBegin
<1>2. ASSUME NEW s \in Senders, SendRefused(s)
      PROVE  PoolsInHand'
    BY <1>2 DEF SendRefused
<1>3. ASSUME NEW s \in Senders, AttemptRefused(s)
      PROVE  PoolsInHand'
    BY <1>3 DEF AttemptRefused
<1>4. ASSUME NEW s \in Senders, AttemptBegin(s)
      PROVE  PoolsInHand'
    BY <1>4 DEF AttemptBegin
<1>5. ASSUME NEW s \in Senders, ClientCheck(s)
      PROVE  PoolsInHand'
    BY <1>5 DEF ClientCheck, NeedsPool
<1>6. ASSUME NEW s \in Senders, ClientBuild(s)
      PROVE  PoolsInHand'
    BY <1>6 DEF ClientBuild
<1>7. ASSUME NEW s \in Senders, ClientPost(s)
      PROVE  PoolsInHand'
    BY <1>7 DEF ClientPost
<1>8. ASSUME NEW s \in Senders, ClientGone(s)
      PROVE  PoolsInHand'
    BY <1>8 DEF ClientGone
<1>9. ASSUME NEW s \in Senders, ResponseFinal(s)
      PROVE  PoolsInHand'
    BY <1>9 DEF ResponseFinal, EndRequest
<1>10. ASSUME NEW s \in Senders, ResponseRetry(s)
       PROVE  PoolsInHand'
    BY <1>10 DEF ResponseRetry, EndRequest
<1>11. ASSUME NEW s \in Senders, SleepUnarmed(s)
       PROVE  PoolsInHand'
    BY <1>11 DEF SleepUnarmed
<1>12. ASSUME NEW s \in Senders, SleepArmed(s)
       PROVE  PoolsInHand'
    BY <1>12 DEF SleepArmed
<1>13. ASSUME NEW s \in Senders, SleepEnds(s)
       PROVE  PoolsInHand'
    BY <1>13 DEF SleepEnds
<1>14. ASSUME NEW s \in Senders, CountRead(s)
       PROVE  PoolsInHand'
    BY <1>14 DEF CountRead
<1>15. ASSUME NEW s \in Senders, CountWrite(s)
       PROVE  PoolsInHand'
    BY <1>15 DEF CountWrite
<1>16. ASSUME ArmTime
       PROVE  PoolsInHand'
    BY <1>16 DEF ArmTime
<1>17. ASSUME ArmFlag
       PROVE  PoolsInHand'
    BY <1>17 DEF ArmFlag
<1>18. ASSUME CloseLatch
       PROVE  PoolsInHand'
    BY <1>18 DEF CloseLatch
<1>19. ASSUME CloseSwap
       PROVE  PoolsInHand'
    BY <1>19 DEF CloseSwap
<1>20. ASSUME ClosePool
       PROVE  PoolsInHand'
    BY <1>20 DEF ClosePool
<1>21. ASSUME Fork
       PROVE  PoolsInHand'
    BY <1>21 DEF Fork, ForgetsPool
<1>22. ASSUME Tick
       PROVE  PoolsInHand'
    BY <1>22 DEF Tick
<1>23. CASE UNCHANGED vars
    BY <1>23 DEF vars
<1>24. QED
    BY ClientCases, <1>1, <1>2, <1>3, <1>4, <1>5, <1>6, <1>7, <1>8, <1>9, <1>10, <1>11,
       <1>12, <1>13, <1>14, <1>15, <1>16, <1>17, <1>18, <1>19, <1>20, <1>21, <1>22, <1>23

\* However often send() retries and whenever close() and a fork come, one
\* sender has at most one connection pool.
THEOREM OnePool ==
    ASSUME OneSender
    PROVE  Spec => []AtMostOnePool
<1>1. ClientInv /\ PoolsInHand => AtMostOnePool
    <2>1. SUFFICES ASSUME ClientInv, PoolsInHand
                   PROVE  AtMostOnePool
        OBVIOUS
    <2>2. open \ (inherited \cup {closing}) \subseteq {http}
        BY <2>1 DEF PoolsInHand
    <2>3. /\ IsFiniteSet(open \ (inherited \cup {closing}))
          /\ Cardinality(open \ (inherited \cup {closing})) <= Cardinality({http})
        BY <2>2, FS_Singleton, FS_Subset
    <2>4. Cardinality({http}) = 1
        BY FS_Singleton
    <2>5. QED
        BY <2>3, <2>4 DEF AtMostOnePool
<1>2. ClientInv /\ PoolsInHand /\ [Next]_vars => PoolsInHand'
    BY PoolsStep
<1>3. QED
    BY ClientInvariance, PoolsInit, <1>1, <1>2, PTL DEF Spec

\* What a sender has read of a counter is what the counter says until it
\* writes it back.
CountsInHand ==
    \A s \in Senders :
        /\ stats.sent + stats.dropped = finished[s]
        /\ pc[s] = "storeSent" => seen[s] = stats.sent
        /\ pc[s] = "storeDropped" => seen[s] = stats.dropped

\* Nothing is counted at first.
LEMMA CountsInit == Init => CountsInHand
BY DEF Init, CountsInHand

\* With one sender, every step counts what happened to a batch.
LEMMA CountsStep ==
    ASSUME OneSender, ClientInv, CountsInHand, [Next]_vars
    PROVE  CountsInHand'
<1> USE ClientAssumption DEF ClientInv, TypeOK, senderVars, deadlineVars, poolVars, Goto,
   OneSender, CountsInHand
<1>1. ASSUME NEW s \in Senders, SendBegin(s)
      PROVE  CountsInHand'
    BY <1>1 DEF SendBegin
<1>2. ASSUME NEW s \in Senders, SendRefused(s)
      PROVE  CountsInHand'
    BY <1>2 DEF SendRefused
<1>3. ASSUME NEW s \in Senders, AttemptRefused(s)
      PROVE  CountsInHand'
    BY <1>3 DEF AttemptRefused
<1>4. ASSUME NEW s \in Senders, AttemptBegin(s)
      PROVE  CountsInHand'
    BY <1>4 DEF AttemptBegin
<1>5. ASSUME NEW s \in Senders, ClientCheck(s)
      PROVE  CountsInHand'
    BY <1>5 DEF ClientCheck
<1>6. ASSUME NEW s \in Senders, ClientBuild(s)
      PROVE  CountsInHand'
    BY <1>6 DEF ClientBuild
<1>7. ASSUME NEW s \in Senders, ClientPost(s)
      PROVE  CountsInHand'
    BY <1>7 DEF ClientPost
<1>8. ASSUME NEW s \in Senders, ClientGone(s)
      PROVE  CountsInHand'
    BY <1>8 DEF ClientGone
<1>9. ASSUME NEW s \in Senders, ResponseFinal(s)
      PROVE  CountsInHand'
    BY <1>9 DEF ResponseFinal, EndRequest
<1>10. ASSUME NEW s \in Senders, ResponseRetry(s)
       PROVE  CountsInHand'
    BY <1>10 DEF ResponseRetry, EndRequest
<1>11. ASSUME NEW s \in Senders, SleepUnarmed(s)
       PROVE  CountsInHand'
    BY <1>11 DEF SleepUnarmed
<1>12. ASSUME NEW s \in Senders, SleepArmed(s)
       PROVE  CountsInHand'
    BY <1>12 DEF SleepArmed
<1>13. ASSUME NEW s \in Senders, SleepEnds(s)
       PROVE  CountsInHand'
    BY <1>13 DEF SleepEnds
<1>14. ASSUME NEW s \in Senders, CountRead(s)
       PROVE  CountsInHand'
    BY <1>14 DEF CountRead
<1>15. ASSUME NEW s \in Senders, CountWrite(s)
       PROVE  CountsInHand'
    <2>1. pc[s] \in {"storeSent", "storeDropped"} /\ stats' = Counted(s)
          /\ finished' = [finished EXCEPT ![s] = finished[s] + 1] /\ pc' = [pc EXCEPT ![s] = "idle"]
        BY <1>15 DEF CountWrite
    <2>2. stats.sent \in Nat /\ stats.dropped \in Nat
        OBVIOUS
    <2>3. stats'.sent + stats'.dropped = stats.sent + stats.dropped + 1
        <3>1. CASE pc[s] = "storeSent"
            BY <2>1, <2>2, <3>1 DEF Counted
        <3>2. CASE pc[s] = "storeDropped"
            BY <2>1, <2>2, <3>2 DEF Counted
        <3>3. QED
            BY <2>1, <3>1, <3>2
    <2>4. finished'[s] = finished[s] + 1 /\ pc'[s] = "idle"
        BY <2>1
    <2>5. \A t \in Senders : t = s
        OBVIOUS
    <2>6. QED
        BY <2>2, <2>3, <2>4, <2>5
<1>16. ASSUME ArmTime
       PROVE  CountsInHand'
    BY <1>16 DEF ArmTime
<1>17. ASSUME ArmFlag
       PROVE  CountsInHand'
    BY <1>17 DEF ArmFlag
<1>18. ASSUME CloseLatch
       PROVE  CountsInHand'
    BY <1>18 DEF CloseLatch
<1>19. ASSUME CloseSwap
       PROVE  CountsInHand'
    BY <1>19 DEF CloseSwap
<1>20. ASSUME ClosePool
       PROVE  CountsInHand'
    BY <1>20 DEF ClosePool
<1>21. ASSUME Fork
       PROVE  CountsInHand'
    BY <1>21 DEF Fork
<1>22. ASSUME Tick
       PROVE  CountsInHand'
    BY <1>22 DEF Tick
<1>23. CASE UNCHANGED vars
    BY <1>23 DEF vars
<1>24. QED
    BY ClientCases, <1>1, <1>2, <1>3, <1>4, <1>5, <1>6, <1>7, <1>8, <1>9, <1>10, <1>11,
       <1>12, <1>13, <1>14, <1>15, <1>16, <1>17, <1>18, <1>19, <1>20, <1>21, <1>22, <1>23

\* With one sender every batch is counted once, as sent or as dropped,
\* whatever the server answers and whenever close() and the deadline come.
THEOREM BatchesAreCounted ==
    ASSUME OneSender
    PROVE  Spec => []EveryBatchAccounted
<1>1. ClientInv /\ CountsInHand => EveryBatchAccounted
    BY DEF ClientInv, CountsInHand, EveryBatchAccounted
<1>2. ClientInv /\ CountsInHand /\ [Next]_vars => CountsInHand'
    BY CountsStep
<1>3. QED
    BY ClientInvariance, CountsInit, <1>1, <1>2, PTL DEF Spec

=============================================================================
