--------------------------- MODULE RuntimeProofs ---------------------------
(* Theorems about Runtime, for any finite set of threads, any sinks and any number of calls. *)
EXTENDS Runtime, TLAPS, FiniteSetTheorems

\* A step is one of the actions, or changes nothing.
LEMMA NextCases ==
    ASSUME [Next]_vars
    PROVE  \/ \E t \in Threads :
                \/ EmitBegin(t) \/ EmitRead(t) \/ SinkLock(t) \/ SinkFound(t)
                \/ InstallClient(t) \/ InstallBuffer(t) \/ EmitAdd(t)
                \/ ConfigureSettings(t) \/ ConfigureRebuild(t)
                \/ \E s \in Sinks : ConfigureSink(t, s)
                \/ RebuildClient(t) \/ RebuildBuffer(t) \/ RebuildRaises(t) \/ DropClient(t)
                \/ ShutdownSwap(t) \/ RetireBuffer(t) \/ RetireClient(t)
           \/ UNCHANGED vars
BY DEF Next, Emit, Configure, Swap

\* An installation is counted for one buffer.
LEMMA InstallsFacts ==
    ASSUME TypeOK, NEW b \in Buffer, Installs(b)
    PROVE  /\ installs' \in [Buffer -> Nat]
           /\ installs'[b] = installs[b] + 1
           /\ \A c \in Buffer \ {b} : installs'[c] = installs[c]
BY DEF TypeOK, Installs

\* Whoever enters takes the lock, and whoever leaves gives it back.
LEMMA MutexStep ==
    ASSUME TypeOK, Mutex, [Next]_vars
    PROVE  Mutex'
<1> USE RuntimeAssumption DEF Mutex, TypeOK, Pair, Nothing, Labels, globalVars, resourceVars, historyVars
<1>1. ASSUME NEW t \in Threads, EmitBegin(t)
      PROVE  Mutex'
    BY <1>1 DEF EmitBegin, Goto
<1>2. ASSUME NEW t \in Threads, EmitRead(t)
      PROVE  Mutex'
    BY <1>2 DEF EmitRead, Goto
<1>3. ASSUME NEW t \in Threads, SinkLock(t)
      PROVE  Mutex'
    BY <1>3 DEF SinkLock, Goto, Acquire
<1>4. ASSUME NEW t \in Threads, SinkFound(t)
      PROVE  Mutex'
    BY <1>4 DEF SinkFound, Goto, Release
<1>5. ASSUME NEW t \in Threads, InstallClient(t)
      PROVE  Mutex'
    BY <1>5 DEF InstallClient, Goto, Missing
<1>6. ASSUME NEW t \in Threads, InstallBuffer(t)
      PROVE  Mutex'
    BY <1>6 DEF InstallBuffer, Installs, Goto, Release
<1>7. ASSUME NEW t \in Threads, EmitAdd(t)
      PROVE  Mutex'
    BY <1>7 DEF EmitAdd, Goto
<1>8. ASSUME NEW t \in Threads, ConfigureSettings(t)
      PROVE  Mutex'
    BY <1>8 DEF ConfigureSettings, Call
<1>9. ASSUME NEW t \in Threads, ConfigureRebuild(t)
      PROVE  Mutex'
    BY <1>9 DEF ConfigureRebuild, Goto, Acquire, Call
<1>10. ASSUME NEW t \in Threads, NEW s \in Sinks, ConfigureSink(t, s)
       PROVE  Mutex'
    BY <1>10 DEF ConfigureSink, Installs, Goto, Acquire, Call, Outgoing
<1>11. ASSUME NEW t \in Threads, RebuildClient(t)
       PROVE  Mutex'
    BY <1>11 DEF RebuildClient, Goto
<1>12. ASSUME NEW t \in Threads, RebuildBuffer(t)
       PROVE  Mutex'
    BY <1>12 DEF RebuildBuffer, Installs, Goto, Release
<1>13. ASSUME NEW t \in Threads, RebuildRaises(t)
       PROVE  Mutex'
    BY <1>13 DEF RebuildRaises, Goto, Release
<1>14. ASSUME NEW t \in Threads, DropClient(t)
       PROVE  Mutex'
    BY <1>14 DEF DropClient, Goto, Release
<1>15. ASSUME NEW t \in Threads, ShutdownSwap(t)
       PROVE  Mutex'
    BY <1>15 DEF ShutdownSwap, Goto, Acquire, Call
<1>16. ASSUME NEW t \in Threads, RetireBuffer(t)
       PROVE  Mutex'
    BY <1>16 DEF RetireBuffer, Goto
<1>17. ASSUME NEW t \in Threads, RetireClient(t)
       PROVE  Mutex'
    BY <1>17 DEF RetireClient, Goto
<1>18. CASE UNCHANGED vars
    BY <1>18 DEF vars
<1>19. QED
    BY NextCases, <1>1, <1>2, <1>3, <1>4, <1>5, <1>6, <1>7, <1>8, <1>9,
       <1>10, <1>11, <1>12, <1>13, <1>14, <1>15, <1>16, <1>17, <1>18

\* The number of the next pipeline is in range because the calls so far pay
\* for it.
LEMMA TypingStep ==
    ASSUME TypeOK, Mutex, Affordable, Numbered, [Next]_vars
    PROVE  TypeOK'
<1> USE RuntimeAssumption DEF TypeOK, Pair, Nothing, Labels, globalVars, resourceVars, historyVars, Pipeline, Buffer
<1>1. ASSUME NEW t \in Threads, EmitBegin(t)
      PROVE  TypeOK'
    BY <1>1 DEF EmitBegin, Goto
<1>2. ASSUME NEW t \in Threads, EmitRead(t)
      PROVE  TypeOK'
    BY <1>2 DEF EmitRead, Goto
<1>3. ASSUME NEW t \in Threads, SinkLock(t)
      PROVE  TypeOK'
    BY <1>3 DEF SinkLock, Goto, Acquire
<1>4. ASSUME NEW t \in Threads, SinkFound(t)
      PROVE  TypeOK'
    BY <1>4 DEF SinkFound, Goto, Release
<1>5. ASSUME NEW t \in Threads, InstallClient(t)
      PROVE  TypeOK'
    BY <1>5 DEF InstallClient, Goto, Missing, Mutex, Affordable
<1>6. ASSUME NEW t \in Threads, InstallBuffer(t)
      PROVE  TypeOK'
    BY <1>6 DEF InstallBuffer, Installs, Goto, Release, Numbered, Mutex
<1>7. ASSUME NEW t \in Threads, EmitAdd(t)
      PROVE  TypeOK'
    BY <1>7 DEF EmitAdd, Goto
<1>8. ASSUME NEW t \in Threads, ConfigureSettings(t)
      PROVE  TypeOK'
    BY <1>8 DEF ConfigureSettings, Call
<1>9. ASSUME NEW t \in Threads, ConfigureRebuild(t)
      PROVE  TypeOK'
    BY <1>9 DEF ConfigureRebuild, Goto, Acquire, Call
<1>10. ASSUME NEW t \in Threads, NEW s \in Sinks, ConfigureSink(t, s)
       PROVE  TypeOK'
    <2>1. s \in Buffer
        OBVIOUS
    <2>2. installs' \in [Buffer -> Nat]
        BY <1>10, <2>1, InstallsFacts DEF ConfigureSink
    <2>3. QED
        BY <1>10, <2>2 DEF ConfigureSink, Goto, Acquire, Call, Outgoing
<1>11. ASSUME NEW t \in Threads, RebuildClient(t)
       PROVE  TypeOK'
    BY <1>11 DEF RebuildClient, Goto, Mutex, Affordable
<1>12. ASSUME NEW t \in Threads, RebuildBuffer(t)
       PROVE  TypeOK'
    BY <1>12 DEF RebuildBuffer, Installs, Goto, Release, Numbered, Mutex
<1>13. ASSUME NEW t \in Threads, RebuildRaises(t)
       PROVE  TypeOK'
    BY <1>13 DEF RebuildRaises, Goto, Release
<1>14. ASSUME NEW t \in Threads, DropClient(t)
       PROVE  TypeOK'
    BY <1>14 DEF DropClient, Goto, Release
<1>15. ASSUME NEW t \in Threads, ShutdownSwap(t)
       PROVE  TypeOK'
    BY <1>15 DEF ShutdownSwap, Goto, Acquire, Call
<1>16. ASSUME NEW t \in Threads, RetireBuffer(t)
       PROVE  TypeOK'
    <2>1. shut' \in [Buffer -> Nat]
        <3>1. CASE retiring[t].buffer = None
            BY <1>16, <3>1 DEF RetireBuffer
        <3>2. CASE retiring[t].buffer # None
            <4>1. retiring[t].buffer \in Buffer
                BY <3>2
            <4>2. shut[retiring[t].buffer] + 1 \in Nat
                BY <4>1
            <4>3. shut' = [shut EXCEPT ![retiring[t].buffer] = shut[retiring[t].buffer] + 1]
                BY <1>16, <3>2 DEF RetireBuffer
            <4>4. QED
                BY <4>2, <4>3
        <3>3. QED
            BY <3>1, <3>2
    <2>2. QED
        BY <1>16, <2>1 DEF RetireBuffer, Goto
<1>17. ASSUME NEW t \in Threads, RetireClient(t)
       PROVE  TypeOK'
    BY <1>17 DEF RetireClient, Goto
<1>18. CASE UNCHANGED vars
    BY <1>18 DEF vars
<1>19. QED
    BY NextCases, <1>1, <1>2, <1>3, <1>4, <1>5, <1>6, <1>7, <1>8, <1>9,
       <1>10, <1>11, <1>12, <1>13, <1>14, <1>15, <1>16, <1>17, <1>18

\* Only a call, or an emit() that finds nothing installed, builds a pipeline.
LEMMA AffordableStep ==
    ASSUME TypeOK, Mutex, Affordable, [Next]_vars
    PROVE  Affordable'
<1> USE RuntimeAssumption DEF Affordable, Mutex, TypeOK, Pair, Nothing, Labels, globalVars,
   resourceVars, historyVars, Pipeline
<1>1. ASSUME NEW t \in Threads, EmitBegin(t)
      PROVE  Affordable'
    BY <1>1 DEF EmitBegin, Goto
<1>2. ASSUME NEW t \in Threads, EmitRead(t)
      PROVE  Affordable'
    BY <1>2 DEF EmitRead, Goto
<1>3. ASSUME NEW t \in Threads, SinkLock(t)
      PROVE  Affordable'
    BY <1>3 DEF SinkLock, Goto, Acquire
<1>4. ASSUME NEW t \in Threads, SinkFound(t)
      PROVE  Affordable'
    BY <1>4 DEF SinkFound, Goto, Release
<1>5. ASSUME NEW t \in Threads, InstallClient(t)
      PROVE  Affordable'
    BY <1>5 DEF InstallClient, Goto, Missing
<1>6. ASSUME NEW t \in Threads, InstallBuffer(t)
      PROVE  Affordable'
    BY <1>6 DEF InstallBuffer, Installs, Goto, Release
<1>7. ASSUME NEW t \in Threads, EmitAdd(t)
      PROVE  Affordable'
    BY <1>7 DEF EmitAdd, Goto
<1>8. ASSUME NEW t \in Threads, ConfigureSettings(t)
      PROVE  Affordable'
    BY <1>8 DEF ConfigureSettings, Call
<1>9. ASSUME NEW t \in Threads, ConfigureRebuild(t)
      PROVE  Affordable'
    BY <1>9 DEF ConfigureRebuild, Goto, Acquire, Call
<1>10. ASSUME NEW t \in Threads, NEW s \in Sinks, ConfigureSink(t, s)
       PROVE  Affordable'
    BY <1>10 DEF ConfigureSink, Installs, Goto, Acquire, Call, Outgoing
<1>11. ASSUME NEW t \in Threads, RebuildClient(t)
       PROVE  Affordable'
    BY <1>11 DEF RebuildClient, Goto
<1>12. ASSUME NEW t \in Threads, RebuildBuffer(t)
       PROVE  Affordable'
    BY <1>12 DEF RebuildBuffer, Installs, Goto, Release
<1>13. ASSUME NEW t \in Threads, RebuildRaises(t)
       PROVE  Affordable'
    BY <1>13 DEF RebuildRaises, Goto, Release
<1>14. ASSUME NEW t \in Threads, DropClient(t)
       PROVE  Affordable'
    BY <1>14 DEF DropClient, Goto, Release
<1>15. ASSUME NEW t \in Threads, ShutdownSwap(t)
       PROVE  Affordable'
    BY <1>15 DEF ShutdownSwap, Goto, Acquire, Call
<1>16. ASSUME NEW t \in Threads, RetireBuffer(t)
       PROVE  Affordable'
    BY <1>16 DEF RetireBuffer, Goto
<1>17. ASSUME NEW t \in Threads, RetireClient(t)
       PROVE  Affordable'
    BY <1>17 DEF RetireClient, Goto
<1>18. CASE UNCHANGED vars
    BY <1>18 DEF vars
<1>19. QED
    BY NextCases, <1>1, <1>2, <1>3, <1>4, <1>5, <1>6, <1>7, <1>8, <1>9,
       <1>10, <1>11, <1>12, <1>13, <1>14, <1>15, <1>16, <1>17, <1>18

\* A new pipeline has the next number, which nothing has used.
LEMMA NumberedStep ==
    ASSUME TypeOK, Mutex, Affordable, Numbered, [Next]_vars
    PROVE  Numbered'
<1> USE RuntimeAssumption DEF Numbered, Known, Mutex, TypeOK, Pair, Nothing, Labels,
   globalVars, resourceVars, historyVars, Pipeline, Buffer
<1>1. ASSUME NEW t \in Threads, EmitBegin(t)
      PROVE  Numbered'
    BY <1>1 DEF EmitBegin, Goto
<1>2. ASSUME NEW t \in Threads, EmitRead(t)
      PROVE  Numbered'
    BY <1>2 DEF EmitRead, Goto
<1>3. ASSUME NEW t \in Threads, SinkLock(t)
      PROVE  Numbered'
    BY <1>3 DEF SinkLock, Goto, Acquire
<1>4. ASSUME NEW t \in Threads, SinkFound(t)
      PROVE  Numbered'
    BY <1>4 DEF SinkFound, Goto, Release
<1>5. ASSUME NEW t \in Threads, InstallClient(t)
      PROVE  Numbered'
    BY <1>5 DEF InstallClient, Goto, Missing
<1>6. ASSUME NEW t \in Threads, InstallBuffer(t)
      PROVE  Numbered'
    BY <1>6 DEF InstallBuffer, Installs, Goto, Release
<1>7. ASSUME NEW t \in Threads, EmitAdd(t)
      PROVE  Numbered'
    BY <1>7 DEF EmitAdd, Goto
<1>8. ASSUME NEW t \in Threads, ConfigureSettings(t)
      PROVE  Numbered'
    BY <1>8 DEF ConfigureSettings, Call
<1>9. ASSUME NEW t \in Threads, ConfigureRebuild(t)
      PROVE  Numbered'
    BY <1>9 DEF ConfigureRebuild, Goto, Acquire, Call
<1>10. ASSUME NEW t \in Threads, NEW s \in Sinks, ConfigureSink(t, s)
       PROVE  Numbered'
    <2>1. s \in Buffer /\ s \notin Pipeline
        OBVIOUS
    <2>2. \A c \in Pipeline : installs'[c] = installs[c]
        <3>1. CASE s = buffer
            BY <1>10, <3>1 DEF ConfigureSink
        <3>2. CASE s # buffer
            BY <1>10, <2>1, <3>2, InstallsFacts DEF ConfigureSink
        <3>3. QED
            BY <3>1, <3>2
    <2>3. /\ made' = made /\ client' = client /\ running' = running
          /\ lock = None
          /\ buffer' = s /\ pc' = [pc EXCEPT ![t] = "swapSink"]
          /\ retiring' = [retiring EXCEPT ![t] = Outgoing(s)]
        BY <1>10 DEF ConfigureSink, Goto, Acquire
    <2>4. Outgoing(s).buffer \in {buffer, None}
        BY DEF Outgoing
    <2>5. \A c \in Pipeline : Known(c)' => Known(c)
        BY <2>1, <2>2, <2>3, <2>4
    <2>6. \A x \in Threads : pc'[x] \notin {"installBuffer", "rebuildBuffer"}
        BY <2>3
    <2>7. ASSUME NEW c \in Pipeline, Known(c)'
          PROVE  c <= made'
        <3>1. Known(c)
            BY <2>5, <2>7
        <3>2. QED
            BY <2>3, <3>1
    <2>8. QED
        BY <2>6, <2>7
<1>11. ASSUME NEW t \in Threads, RebuildClient(t)
       PROVE  Numbered'
    <2>1. made \in Nat /\ made' = made + 1 /\ client' = made + 1 /\ lock = t
        BY <1>11 DEF RebuildClient
    <2>2. made + 1 \in Pipeline
        BY <1>11, <2>1 DEF RebuildClient, Affordable
    <2>3. \A b : Known(b)' <=> Known(b)
        BY <1>11 DEF RebuildClient
    <2>4. ~Known(made + 1)
        BY <2>1, <2>2
    <2>5. ASSUME NEW b \in Pipeline, Known(b)'
          PROVE  b <= made'
        <3>1. Known(b)
            BY <2>3, <2>5
        <3>2. b <= made
            BY <3>1
        <3>3. QED
            BY <2>1, <3>2
    <2>6. ASSUME NEW x \in Threads, pc'[x] \in {"installBuffer", "rebuildBuffer"}
          PROVE  x = t
        BY <1>11, <2>1, <2>6 DEF RebuildClient, Goto
    <2>7. QED
        BY <2>1, <2>3, <2>4, <2>5, <2>6
<1>12. ASSUME NEW t \in Threads, RebuildBuffer(t)
       PROVE  Numbered'
    BY <1>12 DEF RebuildBuffer, Installs, Goto, Release
<1>13. ASSUME NEW t \in Threads, RebuildRaises(t)
       PROVE  Numbered'
    BY <1>13 DEF RebuildRaises, Goto, Release
<1>14. ASSUME NEW t \in Threads, DropClient(t)
       PROVE  Numbered'
    BY <1>14 DEF DropClient, Goto, Release
<1>15. ASSUME NEW t \in Threads, ShutdownSwap(t)
       PROVE  Numbered'
    BY <1>15 DEF ShutdownSwap, Goto, Acquire, Call
<1>16. ASSUME NEW t \in Threads, RetireBuffer(t)
       PROVE  Numbered'
    BY <1>16 DEF RetireBuffer, Goto
<1>17. ASSUME NEW t \in Threads, RetireClient(t)
       PROVE  Numbered'
    BY <1>17 DEF RetireClient, Goto
<1>18. CASE UNCHANGED vars
    BY <1>18 DEF vars
<1>19. QED
    BY NextCases, <1>1, <1>2, <1>3, <1>4, <1>5, <1>6, <1>7, <1>8, <1>9,
       <1>10, <1>11, <1>12, <1>13, <1>14, <1>15, <1>16, <1>17, <1>18

\* The pair that is taken out of use leaves the globals in the same call.
LEMMA InHandStep ==
    ASSUME TypeOK, Mutex, Numbered, InHand, [Next]_vars
    PROVE  InHand'
<1> USE RuntimeAssumption DEF InHand, Mutex, TypeOK, Pair, Nothing, Labels, globalVars,
   resourceVars, historyVars, Pipeline, Buffer
<1>1. ASSUME NEW t \in Threads, EmitBegin(t)
      PROVE  InHand'
    BY <1>1 DEF EmitBegin, Goto
<1>2. ASSUME NEW t \in Threads, EmitRead(t)
      PROVE  InHand'
    BY <1>2 DEF EmitRead, Goto
<1>3. ASSUME NEW t \in Threads, SinkLock(t)
      PROVE  InHand'
    BY <1>3 DEF SinkLock, Goto, Acquire
<1>4. ASSUME NEW t \in Threads, SinkFound(t)
      PROVE  InHand'
    BY <1>4 DEF SinkFound, Goto, Release
<1>5. ASSUME NEW t \in Threads, InstallClient(t)
      PROVE  InHand'
    BY <1>5 DEF InstallClient, Goto, Missing
<1>6. ASSUME NEW t \in Threads, InstallBuffer(t)
      PROVE  InHand'
    BY <1>6 DEF InstallBuffer, Installs, Goto, Release, Numbered, Known
<1>7. ASSUME NEW t \in Threads, EmitAdd(t)
      PROVE  InHand'
    BY <1>7 DEF EmitAdd, Goto
<1>8. ASSUME NEW t \in Threads, ConfigureSettings(t)
      PROVE  InHand'
    BY <1>8 DEF ConfigureSettings, Call
<1>9. ASSUME NEW t \in Threads, ConfigureRebuild(t)
      PROVE  InHand'
    BY <1>9 DEF ConfigureRebuild, Goto, Acquire, Call
<1>10. ASSUME NEW t \in Threads, NEW s \in Sinks, ConfigureSink(t, s)
       PROVE  InHand'
    BY <1>10 DEF ConfigureSink, Installs, Goto, Acquire, Call, Outgoing
<1>11. ASSUME NEW t \in Threads, RebuildClient(t)
       PROVE  InHand'
    BY <1>11 DEF RebuildClient, Goto
<1>12. ASSUME NEW t \in Threads, RebuildBuffer(t)
       PROVE  InHand'
    BY <1>12 DEF RebuildBuffer, Installs, Goto, Release, Numbered, Known
<1>13. ASSUME NEW t \in Threads, RebuildRaises(t)
       PROVE  InHand'
    BY <1>13 DEF RebuildRaises, Goto, Release
<1>14. ASSUME NEW t \in Threads, DropClient(t)
       PROVE  InHand'
    BY <1>14 DEF DropClient, Goto, Release
<1>15. ASSUME NEW t \in Threads, ShutdownSwap(t)
       PROVE  InHand'
    BY <1>15 DEF ShutdownSwap, Goto, Acquire, Call
<1>16. ASSUME NEW t \in Threads, RetireBuffer(t)
       PROVE  InHand'
    BY <1>16 DEF RetireBuffer, Goto
<1>17. ASSUME NEW t \in Threads, RetireClient(t)
       PROVE  InHand'
    BY <1>17 DEF RetireClient, Goto
<1>18. CASE UNCHANGED vars
    BY <1>18 DEF vars
<1>19. QED
    BY NextCases, <1>1, <1>2, <1>3, <1>4, <1>5, <1>6, <1>7, <1>8, <1>9,
       <1>10, <1>11, <1>12, <1>13, <1>14, <1>15, <1>16, <1>17, <1>18

\* Counting the callers that have yet to shut a buffer down.
LEMMA RetirersCount ==
    ASSUME TypeOK, NEW b, NEW t \in Threads
    PROVE  /\ IsFiniteSet(Retirers(b)) /\ Cardinality(Retirers(b)) \in Nat
           /\ t \notin Retirers(b) /\ Retirers(b)' = Retirers(b) \cup {t}
                => Cardinality(Retirers(b)') = Cardinality(Retirers(b)) + 1
           /\ t \in Retirers(b) /\ Retirers(b)' = Retirers(b) \ {t}
                => Cardinality(Retirers(b)') = Cardinality(Retirers(b)) - 1
           /\ t \in Retirers(b) => Cardinality(Retirers(b)) # 0
<1>1. IsFiniteSet(Retirers(b))
    BY RuntimeAssumption, FS_Subset DEF Retirers
<1>2. Cardinality(Retirers(b)) \in Nat
    BY <1>1, FS_CardinalityType
<1>3. t \in Retirers(b) => Cardinality(Retirers(b)) # 0
    BY <1>1, FS_EmptySet
<1>4. QED
    BY <1>1, <1>2, <1>3, FS_AddElement, FS_RemoveElement

\* What is shut down has left the globals before.
LEMMA OpenStep ==
    ASSUME TypeOK, Mutex, Numbered, InHand, SinksRun, RetiredOnce, InstalledIsOpen, [Next]_vars
    PROVE  InstalledIsOpen'
<1> USE RuntimeAssumption DEF InstalledIsOpen, TypeOK, Pair, Nothing, Labels, globalVars, resourceVars, historyVars
<1>1. ASSUME NEW t \in Threads, EmitBegin(t)
      PROVE  InstalledIsOpen'
    BY <1>1 DEF EmitBegin, Goto
<1>2. ASSUME NEW t \in Threads, EmitRead(t)
      PROVE  InstalledIsOpen'
    BY <1>2 DEF EmitRead, Goto
<1>3. ASSUME NEW t \in Threads, SinkLock(t)
      PROVE  InstalledIsOpen'
    BY <1>3 DEF SinkLock, Goto, Acquire
<1>4. ASSUME NEW t \in Threads, SinkFound(t)
      PROVE  InstalledIsOpen'
    BY <1>4 DEF SinkFound, Goto, Release
<1>5. ASSUME NEW t \in Threads, InstallClient(t)
      PROVE  InstalledIsOpen'
    BY <1>5 DEF InstallClient, Goto, Missing
<1>6. ASSUME NEW t \in Threads, InstallBuffer(t)
      PROVE  InstalledIsOpen'
    BY <1>6 DEF InstallBuffer, Installs, Goto, Release
<1>7. ASSUME NEW t \in Threads, EmitAdd(t)
      PROVE  InstalledIsOpen'
    BY <1>7 DEF EmitAdd, Goto
<1>8. ASSUME NEW t \in Threads, ConfigureSettings(t)
      PROVE  InstalledIsOpen'
    BY <1>8 DEF ConfigureSettings, Call
<1>9. ASSUME NEW t \in Threads, ConfigureRebuild(t)
      PROVE  InstalledIsOpen'
    BY <1>9 DEF ConfigureRebuild, Goto, Acquire, Call
<1>10. ASSUME NEW t \in Threads, NEW s \in Sinks, ConfigureSink(t, s)
       PROVE  InstalledIsOpen'
    <2>1. s \in Buffer /\ buffer' = s /\ running' = running
        BY <1>10 DEF ConfigureSink, Buffer
    <2>2. CASE s = buffer
        BY <1>10, <2>1, <2>2 DEF ConfigureSink
    <2>3. CASE s # buffer /\ installs'[s] = 1
        <3>1. installs[s] = 0 /\ shut[s] \in Nat
            BY <1>10, <2>1, <2>3, InstallsFacts DEF ConfigureSink
        <3>2. shut[s] + Cardinality(Retirers(s)) + (IF buffer = s THEN 1 ELSE 0) = installs[s]
            BY <2>1 DEF RetiredOnce
        <3>3. Cardinality(Retirers(s)) \in Nat
            BY RetirersCount
        <3>4. shut[s] = 0
            BY <2>3, <3>1, <3>2, <3>3
        <3>5. QED
            BY <2>1, <3>4 DEF SinksRun
    <2>4. QED
        BY <2>1, <2>2, <2>3
<1>11. ASSUME NEW t \in Threads, RebuildClient(t)
       PROVE  InstalledIsOpen'
    BY <1>11 DEF RebuildClient, Goto
<1>12. ASSUME NEW t \in Threads, RebuildBuffer(t)
       PROVE  InstalledIsOpen'
    BY <1>12 DEF RebuildBuffer, Installs, Goto, Release
<1>13. ASSUME NEW t \in Threads, RebuildRaises(t)
       PROVE  InstalledIsOpen'
    BY <1>13 DEF RebuildRaises, Goto, Release
<1>14. ASSUME NEW t \in Threads, DropClient(t)
       PROVE  InstalledIsOpen'
    BY <1>14 DEF DropClient, Goto, Release
<1>15. ASSUME NEW t \in Threads, ShutdownSwap(t)
       PROVE  InstalledIsOpen'
    BY <1>15 DEF ShutdownSwap, Goto, Acquire, Call
<1>16. ASSUME NEW t \in Threads, RetireBuffer(t)
       PROVE  InstalledIsOpen'
    <2>1. SUFFICES ASSUME buffer # None, installs[buffer] = 1, retiring[t].buffer = buffer
                   PROVE  FALSE
        BY <1>16 DEF RetireBuffer
    <2>2. t \in Retirers(buffer)
        BY <1>16, <2>1 DEF RetireBuffer, Retirers
    <2>3. Cardinality(Retirers(buffer)) \in Nat /\ Cardinality(Retirers(buffer)) # 0
        BY <2>2, RetirersCount
    <2>4. shut[buffer] + Cardinality(Retirers(buffer)) + 1 = installs[buffer] /\ shut[buffer] \in Nat
        BY <2>1 DEF RetiredOnce
    <2>5. QED
        BY <2>1, <2>3, <2>4
<1>17. ASSUME NEW t \in Threads, RetireClient(t)
       PROVE  InstalledIsOpen'
    BY <1>17 DEF RetireClient, Goto
<1>18. CASE UNCHANGED vars
    BY <1>18 DEF vars
<1>19. QED
    BY NextCases, <1>1, <1>2, <1>3, <1>4, <1>5, <1>6, <1>7, <1>8, <1>9,
       <1>10, <1>11, <1>12, <1>13, <1>14, <1>15, <1>16, <1>17, <1>18

\* A buffer leaves the globals only into somebody's hands, and leaves those
\* only shut down.
LEMMA AccountedStep ==
    ASSUME TypeOK, Mutex, Affordable, Numbered, InHand, PipelinesAccounted, [Next]_vars
    PROVE  PipelinesAccounted'
<1> USE RuntimeAssumption DEF PipelinesAccounted, TypeOK, Pair, Nothing, Labels, globalVars,
   resourceVars, historyVars, Pipeline
<1>1. ASSUME NEW t \in Threads, EmitBegin(t)
      PROVE  PipelinesAccounted'
    BY <1>1 DEF EmitBegin, Goto
<1>2. ASSUME NEW t \in Threads, EmitRead(t)
      PROVE  PipelinesAccounted'
    BY <1>2 DEF EmitRead, Goto
<1>3. ASSUME NEW t \in Threads, SinkLock(t)
      PROVE  PipelinesAccounted'
    BY <1>3 DEF SinkLock, Goto, Acquire
<1>4. ASSUME NEW t \in Threads, SinkFound(t)
      PROVE  PipelinesAccounted'
    BY <1>4 DEF SinkFound, Goto, Release
<1>5. ASSUME NEW t \in Threads, InstallClient(t)
      PROVE  PipelinesAccounted'
    BY <1>5 DEF InstallClient, Goto, Missing
<1>6. ASSUME NEW t \in Threads, InstallBuffer(t)
      PROVE  PipelinesAccounted'
    BY <1>6 DEF InstallBuffer, Installs, Goto, Release, Affordable
<1>7. ASSUME NEW t \in Threads, EmitAdd(t)
      PROVE  PipelinesAccounted'
    BY <1>7 DEF EmitAdd, Goto
<1>8. ASSUME NEW t \in Threads, ConfigureSettings(t)
      PROVE  PipelinesAccounted'
    BY <1>8 DEF ConfigureSettings, Call
<1>9. ASSUME NEW t \in Threads, ConfigureRebuild(t)
      PROVE  PipelinesAccounted'
    BY <1>9 DEF ConfigureRebuild, Goto, Acquire, Call, InHand, Mutex
<1>10. ASSUME NEW t \in Threads, NEW s \in Sinks, ConfigureSink(t, s)
       PROVE  PipelinesAccounted'
    BY <1>10 DEF ConfigureSink, Installs, Goto, Acquire, Call, Outgoing, InHand, Mutex
<1>11. ASSUME NEW t \in Threads, RebuildClient(t)
       PROVE  PipelinesAccounted'
    BY <1>11 DEF RebuildClient, Goto
<1>12. ASSUME NEW t \in Threads, RebuildBuffer(t)
       PROVE  PipelinesAccounted'
    BY <1>12 DEF RebuildBuffer, Installs, Goto, Release, InHand, Mutex
<1>13. ASSUME NEW t \in Threads, RebuildRaises(t)
       PROVE  PipelinesAccounted'
    BY <1>13 DEF RebuildRaises, Goto, Release, InHand, Mutex
<1>14. ASSUME NEW t \in Threads, DropClient(t)
       PROVE  PipelinesAccounted'
    BY <1>14 DEF DropClient, Goto, Release
<1>15. ASSUME NEW t \in Threads, ShutdownSwap(t)
       PROVE  PipelinesAccounted'
    BY <1>15 DEF ShutdownSwap, Goto, Acquire, Call, InHand, Mutex
<1>16. ASSUME NEW t \in Threads, RetireBuffer(t)
       PROVE  PipelinesAccounted'
    BY <1>16 DEF RetireBuffer, Goto, InHand, Mutex
<1>17. ASSUME NEW t \in Threads, RetireClient(t)
       PROVE  PipelinesAccounted'
    BY <1>17 DEF RetireClient, Goto, InHand, Mutex
<1>18. CASE UNCHANGED vars
    BY <1>18 DEF vars
<1>19. QED
    BY NextCases, <1>1, <1>2, <1>3, <1>4, <1>5, <1>6, <1>7, <1>8, <1>9,
       <1>10, <1>11, <1>12, <1>13, <1>14, <1>15, <1>16, <1>17, <1>18

\* A sink that nobody has shut down runs.
LEMMA SinksStep ==
    ASSUME TypeOK, SinksRun, [Next]_vars
    PROVE  SinksRun'
<1> USE RuntimeAssumption DEF SinksRun, TypeOK, Pair, Nothing, Labels, globalVars, resourceVars,
   historyVars, Buffer
<1>1. ASSUME NEW t \in Threads, EmitBegin(t)
      PROVE  SinksRun'
    BY <1>1 DEF EmitBegin
<1>2. ASSUME NEW t \in Threads, EmitRead(t)
      PROVE  SinksRun'
    BY <1>2 DEF EmitRead
<1>3. ASSUME NEW t \in Threads, SinkLock(t)
      PROVE  SinksRun'
    BY <1>3 DEF SinkLock
<1>4. ASSUME NEW t \in Threads, SinkFound(t)
      PROVE  SinksRun'
    BY <1>4 DEF SinkFound
<1>5. ASSUME NEW t \in Threads, InstallClient(t)
      PROVE  SinksRun'
    BY <1>5 DEF InstallClient
<1>6. ASSUME NEW t \in Threads, InstallBuffer(t)
      PROVE  SinksRun'
    BY <1>6 DEF InstallBuffer
<1>7. ASSUME NEW t \in Threads, EmitAdd(t)
      PROVE  SinksRun'
    BY <1>7 DEF EmitAdd
<1>8. ASSUME NEW t \in Threads, ConfigureSettings(t)
      PROVE  SinksRun'
    BY <1>8 DEF ConfigureSettings
<1>9. ASSUME NEW t \in Threads, ConfigureRebuild(t)
      PROVE  SinksRun'
    BY <1>9 DEF ConfigureRebuild
<1>10. ASSUME NEW t \in Threads, NEW s \in Sinks, ConfigureSink(t, s)
       PROVE  SinksRun'
    BY <1>10 DEF ConfigureSink
<1>11. ASSUME NEW t \in Threads, RebuildClient(t)
       PROVE  SinksRun'
    BY <1>11 DEF RebuildClient
<1>12. ASSUME NEW t \in Threads, RebuildBuffer(t)
       PROVE  SinksRun'
    BY <1>12 DEF RebuildBuffer
<1>13. ASSUME NEW t \in Threads, RebuildRaises(t)
       PROVE  SinksRun'
    BY <1>13 DEF RebuildRaises
<1>14. ASSUME NEW t \in Threads, DropClient(t)
       PROVE  SinksRun'
    BY <1>14 DEF DropClient
<1>15. ASSUME NEW t \in Threads, ShutdownSwap(t)
       PROVE  SinksRun'
    BY <1>15 DEF ShutdownSwap
<1>16. ASSUME NEW t \in Threads, RetireBuffer(t)
       PROVE  SinksRun'
    BY <1>16 DEF RetireBuffer
<1>17. ASSUME NEW t \in Threads, RetireClient(t)
       PROVE  SinksRun'
    BY <1>17 DEF RetireClient
<1>18. CASE UNCHANGED vars
    BY <1>18 DEF vars
<1>19. QED
    BY NextCases, <1>1, <1>2, <1>3, <1>4, <1>5, <1>6, <1>7, <1>8, <1>9,
       <1>10, <1>11, <1>12, <1>13, <1>14, <1>15, <1>16, <1>17, <1>18

\* Each installation is paid for by one shutdown, one caller that has still to
\* do it, or the buffer's being the installed one.
LEMMA RetiredOnceStep ==
    ASSUME TypeOK, Mutex, Affordable, Numbered, InHand, RetiredOnce, [Next]_vars
    PROVE  RetiredOnce'
<1> USE RuntimeAssumption DEF TypeOK, Pair, Nothing, Labels, globalVars, resourceVars, historyVars,
   Pipeline, Buffer
<1> DEFINE Paid(b) == shut[b] + Cardinality(Retirers(b)) + (IF buffer = b THEN 1 ELSE 0) = installs[b]
<1>0. /\ \A b \in Buffer : Paid(b)
      /\ \A b : Cardinality(Retirers(b)) \in Nat
    <2>1. CASE Threads = {}
        BY <2>1, FS_EmptySet DEF Retirers, RetiredOnce
    <2>2. CASE Threads # {}
        BY <2>2, RetirersCount DEF RetiredOnce
    <2>3. QED
        BY <2>1, <2>2
<1> HIDE DEF Paid
<1>1. ASSUME NEW t \in Threads, EmitBegin(t)
      PROVE  RetiredOnce'
    <2>1. \A b \in Buffer : Retirers(b)' = Retirers(b)
        BY <1>1 DEF EmitBegin, Goto, Retirers
    <2>2. buffer' = buffer /\ installs' = installs /\ shut' = shut
        BY <1>1 DEF EmitBegin
    <2>3. QED
        BY <2>1, <2>2 DEF RetiredOnce
<1>2. ASSUME NEW t \in Threads, EmitRead(t)
      PROVE  RetiredOnce'
    <2>1. \A b \in Buffer : Retirers(b)' = Retirers(b)
        BY <1>2 DEF EmitRead, Goto, Retirers
    <2>2. buffer' = buffer /\ installs' = installs /\ shut' = shut
        BY <1>2 DEF EmitRead
    <2>3. QED
        BY <2>1, <2>2 DEF RetiredOnce
<1>3. ASSUME NEW t \in Threads, SinkLock(t)
      PROVE  RetiredOnce'
    <2>1. \A b \in Buffer : Retirers(b)' = Retirers(b)
        BY <1>3 DEF SinkLock, Goto, Retirers
    <2>2. buffer' = buffer /\ installs' = installs /\ shut' = shut
        BY <1>3 DEF SinkLock
    <2>3. QED
        BY <2>1, <2>2 DEF RetiredOnce
<1>4. ASSUME NEW t \in Threads, SinkFound(t)
      PROVE  RetiredOnce'
    <2>1. \A b \in Buffer : Retirers(b)' = Retirers(b)
        BY <1>4 DEF SinkFound, Goto, Retirers
    <2>2. buffer' = buffer /\ installs' = installs /\ shut' = shut
        BY <1>4 DEF SinkFound
    <2>3. QED
        BY <2>1, <2>2 DEF RetiredOnce
<1>5. ASSUME NEW t \in Threads, InstallClient(t)
      PROVE  RetiredOnce'
    <2>1. \A b \in Buffer : Retirers(b)' = Retirers(b)
        BY <1>5 DEF InstallClient, Goto, Retirers
    <2>2. buffer' = buffer /\ installs' = installs /\ shut' = shut
        BY <1>5 DEF InstallClient
    <2>3. QED
        BY <2>1, <2>2 DEF RetiredOnce
<1>6. ASSUME NEW t \in Threads, InstallBuffer(t)
      PROVE  RetiredOnce'
    <2>1. \A b \in Buffer : Retirers(b)' = Retirers(b)
        BY <1>6 DEF InstallBuffer, Goto, Retirers
    <2>2. /\ buffer = None /\ buffer' = client /\ shut' = shut
          /\ client = made /\ client \in Pipeline /\ installs[client] = 0
          /\ installs' = [installs EXCEPT ![client] = 1]
        BY <1>6 DEF InstallBuffer, Installs, Affordable, Numbered, Known
    <2>3. QED
        BY <1>0, <2>1, <2>2 DEF RetiredOnce, Paid
<1>7. ASSUME NEW t \in Threads, EmitAdd(t)
      PROVE  RetiredOnce'
    <2>1. \A b \in Buffer : Retirers(b)' = Retirers(b)
        BY <1>7 DEF EmitAdd, Goto, Retirers
    <2>2. buffer' = buffer /\ installs' = installs /\ shut' = shut
        BY <1>7 DEF EmitAdd
    <2>3. QED
        BY <2>1, <2>2 DEF RetiredOnce
<1>8. ASSUME NEW t \in Threads, ConfigureSettings(t)
      PROVE  RetiredOnce'
    <2>1. \A b \in Buffer : Retirers(b)' = Retirers(b)
        BY <1>8 DEF ConfigureSettings, Goto, Retirers
    <2>2. buffer' = buffer /\ installs' = installs /\ shut' = shut
        BY <1>8 DEF ConfigureSettings
    <2>3. QED
        BY <2>1, <2>2 DEF RetiredOnce
<1>9. ASSUME NEW t \in Threads, ConfigureRebuild(t)
      PROVE  RetiredOnce'
    <2>1. \A b \in Buffer : Retirers(b)' = Retirers(b)
        BY <1>9 DEF ConfigureRebuild, Goto, Retirers, InHand
    <2>2. buffer' = buffer /\ installs' = installs /\ shut' = shut
        BY <1>9 DEF ConfigureRebuild
    <2>3. QED
        BY <2>1, <2>2 DEF RetiredOnce
<1>10. ASSUME NEW t \in Threads, NEW s \in Sinks, ConfigureSink(t, s)
       PROVE  RetiredOnce'
    <2>1. s \in Buffer /\ s # None /\ s \notin Pipeline
        OBVIOUS
    <2>2. CASE s = buffer
        <3>1. \A b \in Buffer : Retirers(b)' = Retirers(b)
            BY <1>10, <2>2 DEF ConfigureSink, Goto, Retirers, Outgoing
        <3>2. buffer' = buffer /\ installs' = installs /\ shut' = shut
            BY <1>10, <2>2 DEF ConfigureSink
        <3>3. QED
            BY <3>1, <3>2 DEF RetiredOnce
    <2>3. CASE s # buffer
        <3>1. /\ buffer' = s /\ shut' = shut
              /\ installs' = [installs EXCEPT ![s] = installs[s] + 1]
              /\ retiring' = [retiring EXCEPT ![t] = [buffer |-> buffer, client |-> client]]
              /\ pc[t] = "idle" /\ pc' = [pc EXCEPT ![t] = "swapSink"]
            BY <1>10, <2>3 DEF ConfigureSink, Installs, Outgoing, Goto
        <3>2. \A b \in Buffer \ {buffer} : Retirers(b)' = Retirers(b)
            BY <3>1 DEF Retirers
        <3>3. t \notin Retirers(buffer)
            BY <3>1 DEF Retirers
        <3>4. \A b \in Buffer : b = buffer => Retirers(b)' = Retirers(b) \cup {t}
            BY <3>1 DEF Retirers
        <3>5. \A b \in Buffer : b = buffer => Cardinality(Retirers(b)') = Cardinality(Retirers(b)) + 1
            BY <3>3, <3>4, RetirersCount
        <3>6. QED
            BY <1>0, <2>1, <2>3, <3>1, <3>2, <3>5 DEF RetiredOnce, Paid
    <2>4. QED
        BY <2>2, <2>3
<1>11. ASSUME NEW t \in Threads, RebuildClient(t)
       PROVE  RetiredOnce'
    <2>1. \A b \in Buffer : Retirers(b)' = Retirers(b)
        BY <1>11 DEF RebuildClient, Goto, Retirers
    <2>2. buffer' = buffer /\ installs' = installs /\ shut' = shut
        BY <1>11 DEF RebuildClient
    <2>3. QED
        BY <2>1, <2>2 DEF RetiredOnce
<1>12. ASSUME NEW t \in Threads, RebuildBuffer(t)
       PROVE  RetiredOnce'
    <2>1. /\ retiring[t].buffer = buffer /\ buffer' = client /\ shut' = shut
          /\ client = made /\ client \in Pipeline /\ installs[client] = 0 /\ client # buffer
          /\ installs' = [installs EXCEPT ![client] = 1]
        <3>1. /\ pc[t] = "rebuildBuffer" /\ buffer' = client /\ shut' = shut /\ Installs(client)
            BY <1>12 DEF RebuildBuffer
        <3>2. retiring[t].buffer = buffer
            BY <3>1 DEF InHand
        <3>3. client = made /\ made # 0 /\ ~Known(made)
            BY <3>1 DEF Numbered
        <3>4. client \in Pipeline /\ installs[client] = 0 /\ client # buffer
            BY <3>3 DEF Known
        <3>5. QED
            BY <3>1, <3>2, <3>3, <3>4 DEF Installs
    <2>2. \A b \in Buffer \ {buffer} : Retirers(b)' = Retirers(b)
        BY <1>12, <2>1 DEF RebuildBuffer, Goto, Retirers
    <2>3. t \notin Retirers(buffer)
        BY <1>12 DEF RebuildBuffer, Retirers
    <2>4. \A b \in Buffer : b = buffer => Retirers(b)' = Retirers(b) \cup {t}
        BY <1>12, <2>1 DEF RebuildBuffer, Goto, Retirers
    <2>5. \A b \in Buffer : b = buffer => Cardinality(Retirers(b)') = Cardinality(Retirers(b)) + 1
        BY <2>3, <2>4, RetirersCount
    <2>6. QED
        BY <1>0, <2>1, <2>2, <2>5 DEF RetiredOnce, Paid
<1>13. ASSUME NEW t \in Threads, RebuildRaises(t)
       PROVE  RetiredOnce'
    <2>1. \A b \in Buffer : Retirers(b)' = Retirers(b)
        BY <1>13 DEF RebuildRaises, Goto, Retirers, InHand
    <2>2. buffer' = buffer /\ installs' = installs /\ shut' = shut
        BY <1>13 DEF RebuildRaises
    <2>3. QED
        BY <2>1, <2>2 DEF RetiredOnce
<1>14. ASSUME NEW t \in Threads, DropClient(t)
       PROVE  RetiredOnce'
    <2>1. \A b \in Buffer : Retirers(b)' = Retirers(b)
        BY <1>14 DEF DropClient, Goto, Retirers
    <2>2. buffer' = buffer /\ installs' = installs /\ shut' = shut
        BY <1>14 DEF DropClient
    <2>3. QED
        BY <2>1, <2>2 DEF RetiredOnce
<1>15. ASSUME NEW t \in Threads, ShutdownSwap(t)
       PROVE  RetiredOnce'
    <2>1. /\ buffer' = None /\ shut' = shut /\ installs' = installs
          /\ retiring' = [retiring EXCEPT ![t] = [buffer |-> buffer, client |-> client]]
          /\ pc[t] = "idle" /\ pc' = [pc EXCEPT ![t] = "swapSink"]
        BY <1>15 DEF ShutdownSwap, Goto
    <2>2. \A b \in Buffer \ {buffer} : Retirers(b)' = Retirers(b)
        BY <2>1 DEF Retirers
    <2>3. t \notin Retirers(buffer)
        BY <2>1 DEF Retirers
    <2>4. \A b \in Buffer : b = buffer => Retirers(b)' = Retirers(b) \cup {t}
        BY <2>1 DEF Retirers
    <2>5. \A b \in Buffer : b = buffer => Cardinality(Retirers(b)') = Cardinality(Retirers(b)) + 1
        BY <2>3, <2>4, RetirersCount
    <2>6. QED
        BY <1>0, <2>1, <2>2, <2>5 DEF RetiredOnce, Paid
<1>16. ASSUME NEW t \in Threads, RetireBuffer(t)
       PROVE  RetiredOnce'
    <2> DEFINE old == retiring[t].buffer
    <2>1. /\ buffer' = buffer /\ installs' = installs /\ retiring' = retiring
          /\ pc[t] = "retireBuffer" /\ pc' = [pc EXCEPT ![t] = "retireClient"]
          /\ old \in Buffer \cup {None} /\ None \notin Buffer
        BY <1>16 DEF RetireBuffer, Goto
    <2>2. CASE old = None
        <3>1. \A b \in Buffer : Retirers(b)' = Retirers(b)
            BY <2>1, <2>2 DEF Retirers
        <3>2. shut' = shut
            BY <1>16, <2>2 DEF RetireBuffer
        <3>3. QED
            BY <2>1, <3>1, <3>2 DEF RetiredOnce
    <2>3. CASE old # None
        <3>1. shut' = [shut EXCEPT ![old] = shut[old] + 1] /\ old \in Buffer
            BY <1>16, <2>1, <2>3 DEF RetireBuffer
        <3>2. \A b \in Buffer \ {old} : Retirers(b)' = Retirers(b)
            BY <2>1 DEF Retirers
        <3>3. \A b \in Buffer : b = old => t \in Retirers(b) /\ Retirers(b)' = Retirers(b) \ {t}
            BY <2>1 DEF Retirers
        <3>4. \A b \in Buffer : b = old => Cardinality(Retirers(b)') = Cardinality(Retirers(b)) - 1
            BY <3>3, RetirersCount
        <3>5. QED
            BY <1>0, <2>1, <3>1, <3>2, <3>4 DEF RetiredOnce, Paid
    <2>4. QED
        BY <2>2, <2>3
<1>17. ASSUME NEW t \in Threads, RetireClient(t)
       PROVE  RetiredOnce'
    <2>1. \A b \in Buffer : Retirers(b)' = Retirers(b)
        BY <1>17 DEF RetireClient, Goto, Retirers, InHand
    <2>2. buffer' = buffer /\ installs' = installs /\ shut' = shut
        BY <1>17 DEF RetireClient
    <2>3. QED
        BY <2>1, <2>2 DEF RetiredOnce
<1>18. CASE UNCHANGED vars
    BY <1>18 DEF vars, RetiredOnce, Retirers
<1>19. QED
    BY NextCases, <1>1, <1>2, <1>3, <1>4, <1>5, <1>6, <1>7, <1>8, <1>9,
       <1>10, <1>11, <1>12, <1>13, <1>14, <1>15, <1>16, <1>17, <1>18

-----------------------------------------------------------------------------
\* The invariant holds at first.
LEMMA InitInv == Init => RuntimeInv
<1> SUFFICES ASSUME Init
             PROVE  RuntimeInv
    OBVIOUS
<1> USE RuntimeAssumption DEF Init, TypeOK, Pair, Nothing, Labels, Pipeline, Buffer
<1>1. TypeOK /\ Mutex /\ Affordable /\ Numbered /\ InHand /\ SinksRun
    BY DEF Mutex, Affordable, Numbered, Known, InHand, SinksRun
<1>2. InstalledIsOpen /\ PipelinesAccounted
    BY DEF InstalledIsOpen, PipelinesAccounted
<1>3. \A b \in Buffer : Retirers(b) = {}
    BY DEF Retirers
<1>4. Cardinality({}) = 0
    BY FS_EmptySet
<1>5. RetiredOnce
    BY <1>3, <1>4 DEF RetiredOnce
<1>6. QED
    BY <1>1, <1>2, <1>5 DEF RuntimeInv

\* Every step preserves the invariant.
LEMMA RuntimeInvStep ==
    ASSUME RuntimeInv, [Next]_vars
    PROVE  RuntimeInv'
BY TypingStep, MutexStep, AffordableStep, NumberedStep, InHandStep, SinksStep, OpenStep,
   AccountedStep, RetiredOnceStep DEF RuntimeInv

\* The invariant holds in every reachable state.
LEMMA Invariance == Spec => []RuntimeInv
<1>1. RuntimeInv /\ [Next]_vars => RuntimeInv'
    BY RuntimeInvStep
<1>2. QED
    BY InitInv, <1>1, PTL DEF Spec

-----------------------------------------------------------------------------
\* Every variable keeps its type; in particular no more pipelines are built
\* than the first emit() and the calls since account for.
THEOREM Typing == Spec => []TypeOK
BY Invariance, PTL DEF RuntimeInv

\* However many threads emit, configure and shut down, a default buffer that
\* runs is installed or about to be shut down by somebody.
THEOREM NoneForgotten == Spec => []PipelinesAccounted
BY Invariance, PTL DEF RuntimeInv

\* The installed buffer has not been shut down, unless it is a sink that was
\* installed again after a call had taken it out of use.
THEOREM InstalledRuns == Spec => []InstalledIsOpen
BY Invariance, PTL DEF RuntimeInv

\* Each time a buffer was installed, one caller shuts it down, and a default
\* pipeline is never shut down twice.
THEOREM NoneRetiredTwice == Spec => []RetiredOnce
BY Invariance, PTL DEF RuntimeInv

=============================================================================
