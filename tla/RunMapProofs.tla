---------------------------- MODULE RunMapProofs ----------------------------
(* Theorems about RunMap, for any threads, any tree of runs and any bound on *)
(* the map.                                                                  *)
EXTENDS RunMap, FiniteSetTheorems, TLAPS

-----------------------------------------------------------------------------
(* The map as a sequence.                                                  *)

\* What is in the map, by position.
LEMMA InMapAt ==
    ASSUME NEW r
    PROVE  InMap(r) <=> \E i \in DOMAIN runs : runs[i] = r
BY DEF InMap, Range

NoneTwice(s) == \A i, j \in DOMAIN s : s[i] = s[j] => i = j

\* Taking position i out of a sequence that has nothing twice takes out just
\* the element at i.
LEMMA RemoveAtFacts ==
    ASSUME NEW S, NEW s \in Seq(S), NEW i \in DOMAIN s, NoneTwice(s)
    PROVE  /\ RemoveAt(s, i) \in Seq(S)
           /\ Len(RemoveAt(s, i)) = Len(s) - 1
           /\ NoneTwice(RemoveAt(s, i))
           /\ Range(RemoveAt(s, i)) = Range(s) \ {s[i]}
<1> DEFINE q == RemoveAt(s, i)
<1>1. /\ q \in Seq(S) /\ Len(q) = Len(s) - 1
      /\ \A k \in 1..Len(q) : q[k] = IF k < i THEN s[k] ELSE s[k + 1]
  <2> DEFINE a == SubSeq(s, 1, i - 1)
             b == SubSeq(s, i + 1, Len(s))
  <2>1. i \in 1..Len(s) /\ Len(s) \in Nat
      OBVIOUS
  <2>2. /\ a \in Seq(S) /\ Len(a) = i - 1
        /\ \A k \in 1..(i - 1) : a[k] = s[k]
      BY <2>1
  <2>3. /\ b \in Seq(S) /\ Len(b) = Len(s) - i
        /\ \A k \in 1..(Len(s) - i) : b[k] = s[k + i]
      BY <2>1
  <2>4. q = a \o b
      BY DEF RemoveAt
  <2> HIDE DEF a, b, q
  <2>5. /\ q \in Seq(S) /\ Len(q) = Len(s) - 1
        /\ \A k \in 1..Len(q) : q[k] = IF k <= Len(a) THEN a[k] ELSE b[k - Len(a)]
      BY <2>1, <2>2, <2>3, <2>4
  <2>6. \A k \in 1..Len(q) : q[k] = IF k < i THEN s[k] ELSE s[k + 1]
    <3> SUFFICES ASSUME NEW k \in 1..Len(q)
                 PROVE  q[k] = IF k < i THEN s[k] ELSE s[k + 1]
        OBVIOUS
    <3>1. CASE k < i
        BY <2>1, <2>2, <2>5, <3>1
    <3>2. CASE ~(k < i)
      <4>1. k - (i - 1) \in 1..(Len(s) - i) /\ (k - (i - 1)) + i = k + 1
          BY <2>1, <2>5, <3>2
      <4>2. b[k - (i - 1)] = s[k + 1]
          BY <2>3, <4>1
      <4>3. q[k] = b[k - (i - 1)]
          BY <2>1, <2>2, <2>5, <3>2
      <4>4. QED
          BY <3>2, <4>2, <4>3
    <3>3. QED
        BY <3>1, <3>2
  <2>7. QED
      BY <2>5, <2>6
<1>2. NoneTwice(q)
    BY <1>1 DEF NoneTwice
<1>3. Range(q) \subseteq Range(s) \ {s[i]}
    BY <1>1 DEF NoneTwice, Range
<1>4. ASSUME NEW x \in Range(s) \ {s[i]}
      PROVE  x \in Range(q)
  <2>1. PICK k \in 1..Len(s) : s[k] = x /\ k # i
      BY DEF Range
  <2>2. CASE k < i
      BY <2>1, <2>2, <1>1 DEF Range
  <2>3. CASE k > i
    <3>1. k - 1 \in 1..Len(q) /\ q[k - 1] = x
        BY <2>1, <2>3, <1>1
    <3>2. QED
        BY <3>1, <1>1 DEF Range
  <2>4. QED
      BY <2>1, <2>2, <2>3
<1>5. QED
    BY <1>1, <1>2, <1>3, <1>4

\* A run that is put in a map with room joins the others; in a full map it
\* takes the place of one of them.
LEMMA EvictFacts ==
    ASSUME NEW r \in Runs, runs \in Seq(Runs), Len(runs) <= MaxRuns, dropped \in Nat,
           NoneTwice(runs), ~InMap(r), Evict(Append(runs, r))
    PROVE  /\ runs' \in Seq(Runs) /\ Len(runs') <= MaxRuns
           /\ NoneTwice(runs')
           /\ \/ dropped' = dropped /\ Range(runs') = Range(runs) \cup {r}
              \/ \E e \in Range(runs) :
                    dropped' = dropped + 1 /\ Range(runs') = (Range(runs) \ {e}) \cup {r}
<1> DEFINE g == Append(runs, r)
<1>0. MaxRuns \in Nat \ {0}
    BY RunMapAssumption
<1>1. /\ g \in Seq(Runs) /\ Len(g) = Len(runs) + 1
      /\ \A k \in 1..Len(runs) : g[k] = runs[k]
      /\ g[Len(runs) + 1] = r
    OBVIOUS
<1>2. Range(g) = Range(runs) \cup {r} /\ NoneTwice(g)
  <2>1. \A k \in 1..Len(runs) : runs[k] # r
      BY InMapAt
  <2>2. Range(g) = Range(runs) \cup {r}
      BY <1>1 DEF Range
  <2>3. QED
      BY <1>1, <2>1, <2>2 DEF NoneTwice
<1>3. CASE Len(g) <= MaxRuns
  <2>1. Excess(g) = 0
      BY <1>0, <1>1, <1>3 DEF Excess
  <2>2. runs' = g /\ dropped' = dropped
      BY <1>1, <2>1 DEF Evict
  <2>3. QED
      BY <1>1, <1>2, <1>3, <2>2
<1>4. CASE Len(g) > MaxRuns
  <2>1. Excess(g) = 1 /\ Len(runs) = MaxRuns
      BY <1>0, <1>1, <1>4 DEF Excess
  <2>2. runs' = RemoveAt(g, 1) /\ dropped' = dropped + 1
    <3>1. runs' = SubSeq(g, 2, Len(g)) /\ dropped' = dropped + 1
        BY <2>1 DEF Evict
    <3>2. SubSeq(g, 1, 0) \o SubSeq(g, 2, Len(g)) = SubSeq(g, 2, Len(g))
        BY <1>1
    <3>3. QED
        BY <3>1, <3>2 DEF RemoveAt
  <2>3. 1 \in DOMAIN g /\ g[1] \in Range(runs) /\ g[1] # r
    <3>1. 1 \in DOMAIN g /\ 1 \in DOMAIN runs /\ g[1] = runs[1]
        BY <1>0, <1>1, <2>1
    <3>2. QED
        BY <3>1, InMapAt DEF Range
  <2>4. /\ runs' \in Seq(Runs) /\ Len(runs') = Len(g) - 1 /\ NoneTwice(runs')
        /\ Range(runs') = Range(g) \ {g[1]}
      BY <1>1, <1>2, <2>2, <2>3, RemoveAtFacts
  <2>5. Range(runs') = (Range(runs) \ {g[1]}) \cup {r}
      BY <1>2, <2>3, <2>4
  <2>6. QED
      BY <1>0, <1>1, <2>1, <2>2, <2>3, <2>4, <2>5
<1>5. QED
    BY <1>0, <1>1, <1>3, <1>4

-----------------------------------------------------------------------------
(* The steps.                                                              *)

\* A step is one of the actions, or changes nothing.
LEMMA NextCases ==
    ASSUME [Next]_vars
    PROVE  \/ Disable
           \/ \E t \in Threads :
                \/ Open(t) \/ Put(t) \/ Get(t) \/ Pop(t)
                \/ Finish(t) \/ EmitTrace(t) \/ EmitObservation(t)
                \/ \E r \in Runs : Start(t, r) \/ \E looks \in BOOLEAN : End(t, r, looks)
           \/ UNCHANGED vars
BY DEF Next

\* What the invariant and the map's own code say of a step that changes the map.
LEMMA PutFacts ==
    ASSUME RunMapInv, NEW t \in Threads, Put(t)
    PROVE  LET r == pc[t].run
           IN  /\ r \in Runs /\ ~InMap(r)
               /\ runs' \in Seq(Runs) /\ Len(runs') <= MaxRuns
               /\ NoneTwice(runs')
               /\ \/ dropped' = dropped /\ Range(runs') = Range(runs) \cup {r}
                  \/ \E e \in Range(runs) :
                        dropped' = dropped + 1 /\ Range(runs') = (Range(runs) \ {e}) \cup {r}
<1>1. /\ pc[t].run \in Runs /\ runs \in Seq(Runs) /\ Len(runs) <= MaxRuns
      /\ dropped \in Nat /\ NoneTwice(runs)
    BY RunMapAssumption, FS_CardinalityType DEF RunMapInv, EveryRunAccounted, TypeOK, Put, Idle, NoneTwice
<1>2. ~InMap(pc[t].run)
    BY <1>1 DEF RunMapInv, OneCallback, SpansFollow, Put, Idle
<1>3. Evict(Append(runs, pc[t].run))
    BY DEF Put
<1>4. QED
    BY <1>1, <1>2, <1>3, EvictFacts

\* What _pop() leaves of the map.
LEMMA PopFacts ==
    ASSUME RunMapInv, NEW t \in Threads, Pop(t)
    PROVE  LET r == pc[t].run
           IN  /\ r \in Runs
               /\ runs' \in Seq(Runs) /\ Len(runs') <= MaxRuns
               /\ NoneTwice(runs')
               /\ Range(runs') = Range(runs) \ {r}
<1>1. /\ pc[t].run \in Runs /\ runs \in Seq(Runs) /\ Len(runs) <= MaxRuns
      /\ NoneTwice(runs)
    BY DEF RunMapInv, EveryRunAccounted, TypeOK, Pop, Idle, NoneTwice
<1>2. CASE InMap(pc[t].run)
  <2>1. PICK i \in DOMAIN runs : runs[i] = pc[t].run /\ runs' = RemoveAt(runs, i)
      BY <1>2 DEF Pop
  <2>2. /\ runs' \in Seq(Runs) /\ Len(runs') = Len(runs) - 1 /\ NoneTwice(runs')
        /\ Range(runs') = Range(runs) \ {pc[t].run}
      BY <1>1, <2>1, RemoveAtFacts
  <2>3. QED
      BY <1>1, <2>2, RunMapAssumption
<1>3. CASE ~InMap(pc[t].run)
    BY <1>1, <1>3 DEF Pop, InMap
<1>4. QED
    BY <1>2, <1>3

\* A thread starts a callback only for a run that nobody is in a callback for.
LEMMA OneCallbackStep ==
    ASSUME RunMapInv, [Next]_vars
    PROVE  OneCallback'
<1> USE RunMapAssumption DEF RunMapInv, EveryRunAccounted, TypeOK, Idle, Steps, threadVars,
   Goto, Done, OneCallback
<1>1. ASSUME Disable
      PROVE  OneCallback'
    BY <1>1 DEF Disable
<1>2. ASSUME NEW t \in Threads, NEW r \in Runs, Start(t, r)
      PROVE  OneCallback'
    BY <1>2 DEF Start
<1>3. ASSUME NEW t \in Threads, Open(t)
      PROVE  OneCallback'
    BY <1>3 DEF Open
<1>4. ASSUME NEW t \in Threads, Put(t)
      PROVE  OneCallback'
    BY <1>4 DEF Put
<1>5. ASSUME NEW t \in Threads, NEW r \in Runs, NEW looks \in BOOLEAN, End(t, r, looks)
      PROVE  OneCallback'
    BY <1>5 DEF End
<1>6. ASSUME NEW t \in Threads, Get(t)
      PROVE  OneCallback'
    BY <1>6 DEF Get
<1>7. ASSUME NEW t \in Threads, Pop(t)
      PROVE  OneCallback'
    BY <1>7 DEF Pop
<1>8. ASSUME NEW t \in Threads, Finish(t)
      PROVE  OneCallback'
  <2> DEFINE r == pc[t].run
  <2>1. CASE ~spans[r].sampled
      BY <1>8, <2>1 DEF Finish
  <2>2. CASE spans[r].sampled
    <3>1. PICK s \in {"trace", "observation"} : Goto(t, s)
        BY <1>8, <2>2 DEF Finish
    <3>2. QED
        BY <1>8, <2>2, <3>1 DEF Finish
  <2>3. QED
      BY <2>1, <2>2
<1>9. ASSUME NEW t \in Threads, EmitTrace(t)
      PROVE  OneCallback'
    BY <1>9 DEF EmitTrace
<1>10. ASSUME NEW t \in Threads, EmitObservation(t)
      PROVE  OneCallback'
    BY <1>10 DEF EmitObservation
<1>11. CASE UNCHANGED vars
    BY <1>11 DEF vars, threadVars
<1>12. QED
    BY NextCases, <1>1, <1>2, <1>3, <1>4, <1>5, <1>6, <1>7, <1>8, <1>9, <1>10, <1>11

Callback == {Idle} \cup [at : Steps, run : Runs, parent : Runs \cup {None}]

Holding == {"put", "finish", "trace", "observation"}

\* Moving one thread's callback changes nothing about the other runs: whether
\* its own run is in hand follows from where the callback has come.
LEMMA HandStep ==
    ASSUME TypeOK, NEW t \in Threads, NEW r \in Runs, NEW c \in Callback,
           pc' = [pc EXCEPT ![t] = c],
           pc[t] = Idle \/ pc[t].run = r,
           c = Idle \/ c.run = r,
           \A u \in Threads : u # t /\ pc[u] # Idle => pc[u].run # r
    PROVE  InHand' = IF c.at \in Holding THEN InHand \cup {r} ELSE InHand \ {r}
<1>1. pc \in [Threads -> Callback] /\ None \notin Runs
    BY RunMapAssumption DEF TypeOK, Callback
<1>2. /\ pc' \in [Threads -> Callback] /\ pc'[t] = c
      /\ \A u \in Threads : u # t => pc'[u] = pc[u]
    BY <1>1
<1>3. Idle.at \notin Holding /\ Idle.run = None
    BY DEF Idle, Holding
<1>4. /\ InHand = {q \in Runs : \E u \in Threads : pc[u].run = q /\ pc[u].at \in Holding}
      /\ InHand' = {q \in Runs : \E u \in Threads : pc'[u].run = q /\ pc'[u].at \in Holding}
    BY DEF InHand, Holding
<1>5. ASSUME NEW q \in Runs, q # r
      PROVE  q \in InHand' <=> q \in InHand
    BY <1>1, <1>2, <1>3, <1>4, <1>5
<1>6. r \in InHand' <=> c.at \in Holding
    BY <1>1, <1>2, <1>3, <1>4
<1>7. QED
    BY <1>4, <1>5, <1>6

\* The callback that a step is in, as one record.
LEMMA GotoIs ==
    ASSUME TypeOK, NEW t \in Threads, pc[t] # Idle, NEW s \in Steps, Goto(t, s)
    PROVE  LET c == [at |-> s, run |-> pc[t].run, parent |-> pc[t].parent]
           IN  c \in Callback /\ pc' = [pc EXCEPT ![t] = c]
<1> DEFINE c == [at |-> s, run |-> pc[t].run, parent |-> pc[t].parent]
<1>1. pc[t] \in [at : Steps, run : Runs, parent : Runs \cup {None}] /\ DOMAIN pc = Threads
    BY DEF TypeOK
<1>2. c \in Callback
    BY <1>1 DEF Callback
<1>3. [pc[t] EXCEPT !.at = s] = c
    BY <1>1
<1>4. [pc EXCEPT ![t].at = s] = [pc EXCEPT ![t] = [pc[t] EXCEPT !.at = s]]
    OBVIOUS
<1>5. QED
    BY <1>2, <1>3, <1>4 DEF Goto

\* What the invariant says of a thread that is in a callback.
LEMMA InCallback ==
    ASSUME RunMapInv, NEW t \in Threads, pc[t] # Idle
    PROVE  /\ TypeOK /\ Idle \in Callback
           /\ pc[t].run \in Runs /\ pc[t].at \in Steps /\ pc[t].parent \in Runs \cup {None}
           /\ \A u \in Threads : u # t /\ pc[u] # Idle => pc[u].run # pc[t].run
           /\ pc[t].run \in InHand <=> pc[t].at \in Holding
<1>1. /\ TypeOK /\ pc \in [Threads -> Callback] /\ Idle \in Callback
      /\ pc[t] \in [at : Steps, run : Runs, parent : Runs \cup {None}]
    BY DEF RunMapInv, EveryRunAccounted, TypeOK, Callback
<1>2. \A u \in Threads : u # t /\ pc[u] # Idle => pc[u].run # pc[t].run
    BY DEF RunMapInv, OneCallback
<1>3. pc[t].run \in InHand <=> pc[t].at \in Holding
  <2>1. Idle.run = None /\ None \notin Runs
      BY RunMapAssumption DEF Idle
  <2>2. QED
      BY <1>1, <1>2, <2>1 DEF InHand, Holding
<1>4. QED
    BY <1>1, <1>2, <1>3

\* The same, by its step and its run.
LEMMA GotoTo ==
    ASSUME TypeOK, NEW t \in Threads, pc[t] # Idle, NEW s \in Steps, Goto(t, s)
    PROVE  \E c \in Callback : c.run = pc[t].run /\ c.at = s /\ pc' = [pc EXCEPT ![t] = c]
<1> DEFINE d == [at |-> s, run |-> pc[t].run, parent |-> pc[t].parent]
<1>1. d \in Callback /\ pc' = [pc EXCEPT ![t] = d]
    BY GotoIs
<1>2. d.run = pc[t].run /\ d.at = s
    OBVIOUS
<1>3. QED
    BY <1>1, <1>2

\* Going on to another step of the callback.
LEMMA GotoHand ==
    ASSUME RunMapInv, NEW t \in Threads, pc[t] # Idle, NEW s \in Steps, Goto(t, s),
           NEW r \in Runs, r = pc[t].run
    PROVE  InHand' = IF s \in Holding THEN InHand \cup {r} ELSE InHand \ {r}
<1>1. TypeOK /\ \A u \in Threads : u # t /\ pc[u] # Idle => pc[u].run # r
    BY InCallback
<1>2. PICK c \in Callback : c.at = s /\ c.run = r /\ pc' = [pc EXCEPT ![t] = c]
    BY <1>1, GotoTo
<1>3. QED
    BY <1>1, <1>2, HandStep

\* Returning from the callback.
LEMMA DoneHand ==
    ASSUME RunMapInv, NEW t \in Threads, pc[t] # Idle, Done(t),
           NEW r \in Runs, r = pc[t].run
    PROVE  InHand' = InHand \ {r}
<1>1. pc' = [pc EXCEPT ![t] = Idle] /\ Idle.at \notin Holding
    BY DEF Done, Idle, Holding
<1>2. QED
    BY <1>1, InCallback, HandStep

\* A run that starts, or begins to end, is not in hand.
LEMMA BeginHand ==
    ASSUME RunMapInv, NEW t \in Threads, NEW r \in Runs, NEW c \in Callback,
           pc[t] = Idle, reported[r] \in {"new", "started"},
           pc' = [pc EXCEPT ![t] = c], c.run = r, c.at \notin Holding
    PROVE  InHand' = InHand
<1>1. \A u \in Threads : pc[u] # Idle => pc[u].run # r
    BY DEF RunMapInv, OneCallback
<1>2. TypeOK /\ r \notin InHand
  <2>1. Idle.at \notin Holding
      BY DEF Idle, Holding
  <2>2. QED
      BY <1>1, <2>1 DEF RunMapInv, EveryRunAccounted, InHand, Holding
<1>3. InHand' = InHand \ {r}
    BY <1>1, <1>2, HandStep
<1>4. QED
    BY <1>2, <1>3

\* The open runs that are accounted for without a count.
Placed == Range(runs) \cup InHand

\* Starting and ending a run moves nothing, and neither does looking one up.
LEMMA PlacedStays ==
    ASSUME RunMapInv, NEW t \in Threads, NEW r \in Runs, NEW looks \in BOOLEAN,
           Start(t, r) \/ End(t, r, looks) \/ Get(t) \/ EmitTrace(t)
    PROVE  Placed' = Placed
<1>1. CASE Start(t, r)
  <2> DEFINE c == [at |-> "open", run |-> r, parent |-> Parent(r)]
  <2>1. c \in Callback /\ c.run = r /\ c.at \notin Holding
      BY RunMapAssumption DEF Callback, Steps, Parent, Holding
  <2>2. pc[t] = Idle /\ reported[r] = "new" /\ pc' = [pc EXCEPT ![t] = c]
      BY <1>1 DEF Start
  <2>3. InHand' = InHand
      BY <2>1, <2>2, BeginHand
  <2>4. QED
      BY <1>1, <2>3 DEF Start, Placed
<1>2. CASE End(t, r, looks)
  <2> DEFINE c == [at |-> IF looks THEN "get" ELSE "pop", run |-> r, parent |-> None]
  <2>1. c \in Callback /\ c.run = r /\ c.at \notin Holding
      BY DEF Callback, Steps, Holding
  <2>2. pc[t] = Idle /\ reported[r] = "started" /\ pc' = [pc EXCEPT ![t] = c]
      BY <1>2 DEF End
  <2>3. InHand' = InHand
      BY <2>1, <2>2, BeginHand
  <2>4. QED
      BY <1>2, <2>3 DEF End, Placed
<1>3. CASE Get(t)
  <2>1. PICK q \in Runs : q = pc[t].run /\ pc[t] # Idle /\ q \notin InHand
    <3>1. pc[t] # Idle /\ pc[t].at \notin Holding
        BY <1>3 DEF Get, Idle, Holding
    <3>2. QED
        BY <3>1, InCallback
  <2>2. "pop" \in Steps /\ "pop" \notin Holding
      BY DEF Steps, Holding
  <2>3. InHand' = InHand \ {q}
    <3>1. Goto(t, "pop") => InHand' = InHand \ {q}
        BY <2>1, <2>2, GotoHand
    <3>2. Done(t) => InHand' = InHand \ {q}
        BY <2>1, DoneHand
    <3>3. QED
        BY <1>3, <3>1, <3>2 DEF Get
  <2>4. InHand' = InHand
      BY <2>1, <2>3
  <2>5. QED
      BY <1>3, <2>4 DEF Get, Placed
<1>4. CASE EmitTrace(t)
  <2>1. PICK q \in Runs : q = pc[t].run /\ pc[t] # Idle /\ q \in InHand
    <3>1. pc[t] # Idle /\ pc[t].at \in Holding
        BY <1>4 DEF EmitTrace, Idle, Holding
    <3>2. QED
        BY <3>1, InCallback
  <2>2. "observation" \in Steps /\ "observation" \in Holding
      BY DEF Steps, Holding
  <2>3. InHand' = InHand \cup {q}
      BY <1>4, <2>1, <2>2, GotoHand DEF EmitTrace
  <2>4. InHand' = InHand
      BY <2>1, <2>3
  <2>5. QED
      BY <1>4, <2>4 DEF EmitTrace, Placed
<1>5. QED
    BY <1>1, <1>2, <1>3, <1>4

\* A span that opens is in its callback's hands.
LEMMA PlacedOpens ==
    ASSUME RunMapInv, NEW t \in Threads, NEW r \in Runs, r = pc[t].run, Open(t)
    PROVE  Placed' = IF enabled THEN Placed \cup {r} ELSE Placed
<1>1. pc[t] # Idle /\ r \notin InHand
  <2>1. pc[t] # Idle /\ pc[t].at \notin Holding
      BY DEF Open, Idle, Holding
  <2>2. QED
      BY <2>1, InCallback
<1>2. CASE enabled
  <2>1. "put" \in Steps /\ "put" \in Holding /\ Goto(t, "put")
      BY <1>2 DEF Open, Steps, Holding
  <2>2. InHand' = InHand \cup {r}
      BY <1>1, <2>1, GotoHand
  <2>3. QED
      BY <1>2, <2>2 DEF Open, Placed
<1>3. CASE ~enabled
  <2>1. InHand' = InHand \ {r}
      BY <1>1, <1>3, DoneHand DEF Open
  <2>2. InHand' = InHand
      BY <1>1, <2>1
  <2>3. QED
      BY <1>3, <2>2 DEF Open, Placed
<1>4. QED
    BY <1>2, <1>3

\* What goes into the map is still accounted for, and what falls out for it is
\* counted.
LEMMA PlacedPuts ==
    ASSUME RunMapInv, NEW t \in Threads, Put(t)
    PROVE  \/ dropped' = dropped /\ Placed' = Placed
           \/ \E e \in Runs : /\ dropped' = dropped + 1 /\ e \in Placed /\ Placed' = Placed \ {e}
                             /\ spans[e].open /\ ~spans[e].finished
<1>1. PICK r \in Runs : /\ r = pc[t].run /\ pc[t] # Idle
                        /\ r \in InHand /\ r \notin Range(runs)
  <2>1. pc[t] # Idle /\ pc[t].at \in Holding
      BY DEF Put, Idle, Holding
  <2>2. QED
      BY <2>1, InCallback, PutFacts DEF InMap
<1>2. InHand' = InHand \ {r}
    BY <1>1, DoneHand DEF Put
<1>3. CASE dropped' = dropped /\ Range(runs') = Range(runs) \cup {r}
    BY <1>1, <1>2, <1>3 DEF Placed
<1>4. ASSUME NEW e \in Range(runs),
             dropped' = dropped + 1, Range(runs') = (Range(runs) \ {e}) \cup {r}
      PROVE  /\ e \in Runs /\ e \in Placed /\ Placed' = Placed \ {e}
             /\ spans[e].open /\ ~spans[e].finished
  <2>1. e \in Runs
      BY DEF RunMapInv, EveryRunAccounted, TypeOK, Range
  <2>2. spans[e].open /\ ~spans[e].finished /\ e \notin InHand
      BY <2>1 DEF RunMapInv, EveryRunAccounted, InMap
  <2>3. QED
      BY <1>1, <1>2, <1>4, <2>1, <2>2 DEF Placed
<1>5. QED
    BY <1>1, <1>3, <1>4, PutFacts

\* Only a run that is in the map is taken in hand.
LEMMA PlacedPops ==
    ASSUME RunMapInv, NEW t \in Threads, Pop(t)
    PROVE  Placed' = Placed
<1>1. PICK r \in Runs : /\ r = pc[t].run /\ pc[t] # Idle /\ r \notin InHand
                        /\ Range(runs') = Range(runs) \ {r}
  <2>1. pc[t] # Idle /\ pc[t].at \notin Holding
      BY DEF Pop, Idle, Holding
  <2>2. QED
      BY <2>1, InCallback, PopFacts
<1>2. CASE r \in Range(runs)
  <2>1. "finish" \in Steps /\ "finish" \in Holding /\ Goto(t, "finish")
      BY <1>1, <1>2 DEF Steps, Holding, Pop, Popped, InMap
  <2>2. InHand' = InHand \cup {r}
      BY <1>1, <2>1, GotoHand
  <2>3. QED
      BY <1>1, <1>2, <2>2 DEF Placed
<1>3. CASE r \notin Range(runs)
  <2>1. InHand' = InHand \ {r}
      BY <1>1, <1>3, DoneHand DEF Pop, Popped, InMap
  <2>2. InHand' = InHand
      BY <1>1, <2>1
  <2>3. QED
      BY <1>1, <1>3, <2>2 DEF Placed
<1>4. QED
    BY <1>2, <1>3

\* A run in a callback's hands leaves them as one that is sent, or withheld.
LEMMA PlacedEnds ==
    ASSUME RunMapInv, NEW t \in Threads, NEW r \in Runs, r = pc[t].run,
           Finish(t) \/ EmitObservation(t)
    PROVE  /\ r \in Placed
           /\ Placed' = IF Finish(t) /\ spans[r].sampled THEN Placed ELSE Placed \ {r}
<1>1. pc[t] # Idle /\ r \in InHand /\ r \notin Range(runs)
  <2>1. pc[t] # Idle /\ pc[t].at \in Holding /\ pc[t].at \in {"finish", "observation"}
      BY DEF Finish, EmitObservation, Idle, Holding
  <2>2. QED
      BY <2>1, InCallback DEF RunMapInv, SpansFollow, InMap
<1>2. CASE Finish(t) /\ spans[r].sampled
  <2>1. PICK s \in {"trace", "observation"} : Goto(t, s)
      BY <1>2 DEF Finish
  <2>2. s \in Steps /\ s \in Holding
      BY DEF Steps, Holding
  <2>3. InHand' = InHand \cup {r}
      BY <1>1, <2>1, <2>2, GotoHand
  <2>4. QED
      BY <1>1, <1>2, <2>3 DEF Finish, Placed
<1>3. CASE ~(Finish(t) /\ spans[r].sampled)
  <2>1. Done(t) /\ runs' = runs
      BY <1>3 DEF Finish, EmitObservation
  <2>2. InHand' = InHand \ {r}
      BY <1>1, <2>1, DoneHand
  <2>3. QED
      BY <1>1, <1>3, <2>1, <2>2 DEF Placed
<1>4. QED
    BY <1>1, <1>2, <1>3 DEF Placed

\* dropped_runs grows by one for the run that falls out of the map: every other
\* step leaves each open run where it was, or takes it from the map to a
\* callback's hands and back, or finishes it there.
LEMMA DroppedStep ==
    ASSUME RunMapInv, [Next]_vars
    PROVE  dropped' = Cardinality(Lost')
<1> DEFINE Misses == {r \in Runs : spans[r].open /\ ~spans[r].finished}
<1>0. /\ TypeOK /\ Lost = Misses \ Placed /\ Lost' = Misses' \ Placed'
      /\ dropped = Cardinality(Lost)
    BY DEF RunMapInv, EveryRunAccounted, Lost, Placed
<1>1. ASSUME NEW t \in Threads, NEW r \in Runs, NEW looks \in BOOLEAN,
             Start(t, r) \/ End(t, r, looks) \/ Get(t)
      PROVE  dropped' = Cardinality(Lost')
  <2>1. Placed' = Placed
      BY <1>1, PlacedStays
  <2>2. spans' = spans /\ dropped' = dropped
      BY <1>1 DEF Start, End, Get
  <2>3. QED
      BY <1>0, <2>1, <2>2
<1>2. ASSUME NEW t \in Threads, NEW r \in Runs, r = pc[t].run, Open(t)
      PROVE  dropped' = Cardinality(Lost')
  <2>1. ~spans[r].open
      BY <1>2 DEF Open, RunMapInv, SpansFollow
  <2>2. \A q \in Runs \ {r} : spans'[q] = spans[q]
      BY <1>0, <1>2 DEF Open, TypeOK
  <2>3. ~enabled => spans' = spans
      BY <1>2 DEF Open
  <2>4. Lost' = Lost
      BY <1>0, <1>2, <2>1, <2>2, <2>3, PlacedOpens
  <2>5. QED
      BY <1>0, <1>2, <2>4 DEF Open
<1>3. ASSUME NEW t \in Threads, Put(t)
      PROVE  dropped' = Cardinality(Lost')
  <2>1. Misses' = Misses
      BY <1>3 DEF Put
  <2>2. CASE dropped' = dropped /\ Placed' = Placed
      BY <1>0, <2>1, <2>2
  <2>3. ASSUME NEW e \in Runs, dropped' = dropped + 1, e \in Placed, Placed' = Placed \ {e},
               spans[e].open, ~spans[e].finished
        PROVE  dropped' = Cardinality(Lost')
    <3>1. Lost' = Lost \cup {e} /\ e \notin Lost
        BY <1>0, <2>1, <2>3
    <3>2. IsFiniteSet(Lost)
        BY RunMapAssumption, FS_Subset DEF Lost
    <3>3. QED
        BY <1>0, <2>3, <3>1, <3>2, FS_AddElement
  <2>4. QED
      BY <1>3, <2>2, <2>3, PlacedPuts
<1>4. ASSUME NEW t \in Threads, Pop(t)
      PROVE  dropped' = Cardinality(Lost')
    BY <1>0, <1>4, PlacedPops DEF Pop
<1>5. ASSUME NEW t \in Threads, NEW r \in Runs, r = pc[t].run, Finish(t)
      PROVE  dropped' = Cardinality(Lost')
  <2>1. Misses' = Misses \ {r}
      BY <1>0, <1>5 DEF Finish, TypeOK, SpanRecord
  <2>2. Lost' = Lost
      BY <1>0, <1>5, <2>1, PlacedEnds
  <2>3. QED
      BY <1>0, <1>5, <2>2 DEF Finish
<1>6. ASSUME NEW t \in Threads, EmitTrace(t)
      PROVE  dropped' = Cardinality(Lost')
  <2>1. Misses' = Misses
      BY <1>0, <1>6 DEF EmitTrace, TypeOK, SpanRecord
  <2>2. Placed' = Placed
    <3>1. PICK r \in Runs : TRUE
      <4>1. pc[t] # Idle
          BY <1>6 DEF EmitTrace, Idle
      <4>2. QED
          BY <4>1, InCallback
    <3>2. QED
        BY <1>6, <3>1, PlacedStays
  <2>3. QED
      BY <1>0, <1>6, <2>1, <2>2 DEF EmitTrace
<1>7. ASSUME NEW t \in Threads, NEW r \in Runs, r = pc[t].run, EmitObservation(t)
      PROVE  dropped' = Cardinality(Lost')
  <2>1. Misses' = Misses /\ r \notin Misses
      BY <1>0, <1>7 DEF EmitObservation, TypeOK, SpanRecord, RunMapInv, SpansFollow
  <2>2. Placed' = Placed \ {r}
      BY <1>7, PlacedEnds DEF EmitObservation, Finish
  <2>3. QED
      BY <1>0, <1>7, <2>1, <2>2 DEF EmitObservation
<1>8. CASE Disable \/ UNCHANGED vars
    BY <1>0, <1>8 DEF Disable, vars, threadVars, Lost, InHand
<1>9. QED
  <2>1. ASSUME NEW t \in Threads,
               Open(t) \/ Get(t) \/ Finish(t) \/ EmitObservation(t)
        PROVE  pc[t].run \in Runs
    <3>1. pc[t] # Idle
        BY <2>1 DEF Open, Get, Finish, EmitObservation, Idle
    <3>2. QED
        BY <3>1, InCallback
  <2>2. QED
      BY NextCases, <1>1, <1>2, <1>3, <1>4, <1>5, <1>6, <1>7, <1>8, <2>1

\* Where a run's new span is: in the trace of its parent, which is open and so
\* another run's, or where the thread is, or in a trace of its own.
LEMMA OpenedFacts ==
    ASSUME RunMapInv, NEW t \in Threads, NEW r \in Runs, NEW keep \in BOOLEAN,
           pc[t].at = "open", r = pc[t].run
    PROVE  LET o == Opened(t, r, keep)
               p == pc[t].parent
           IN  /\ o \in SpanRecord /\ o.open /\ ~o.finished
               /\ o.sends = 0 /\ o.traceSends = 0 /\ ~spans[r].open
               /\ \/ /\ p \in Runs /\ p = ParentRun[r] /\ spans[p].open
                     /\ o.parent = p /\ o.trace = spans[p].trace
                     /\ o.sampled = spans[p].sampled
                  \/ o.parent = Outer /\ o.trace = Outer /\ o.sampled = outerSampled
                  \/ o.parent = None /\ o.trace = r
<1> DEFINE o == Opened(t, r, keep)
           p == pc[t].parent
           trace == IF p # None THEN spans[p].trace
                    ELSE IF ambient[t] # None THEN ambient[t] ELSE r
           parent == IF p # None THEN p ELSE ambient[t]
           sampled == IF trace = r THEN keep
                      ELSE IF trace = Outer THEN outerSampled
                      ELSE spans[trace].sampled
<1>1. /\ TypeOK /\ ~spans[r].open /\ p \in Runs \cup {None}
      /\ ambient[t] \in {Outer, None}
      /\ Outer \notin Runs /\ None \notin Runs /\ None # Outer
  <2>1. pc[t] # Idle
      BY DEF Idle
  <2>2. TypeOK /\ p \in Runs \cup {None}
      BY <2>1, InCallback
  <2>3. QED
      BY <2>2, RunMapAssumption DEF RunMapInv, SpansFollow, TypeOK
<1>2. /\ o = [open |-> TRUE, trace |-> trace, parent |-> parent, sampled |-> sampled,
              finished |-> FALSE, sends |-> 0, traceSends |-> 0]
  <2>1. o = [Unopened EXCEPT !.open = TRUE, !.trace = trace, !.parent = parent,
                             !.sampled = sampled]
      BY DEF Opened
  <2> HIDE DEF trace, parent, sampled
  <2>2. QED
      BY <2>1 DEF Unopened
<1>3. CASE p \in Runs
  <2>1. p = ParentRun[r] /\ spans[p].open
      BY <1>1, <1>3 DEF RunMapInv, ParentFound
  <2>2. \/ trace = Outer /\ spans[p].sampled = outerSampled
        \/ trace \in Runs /\ spans[trace].open /\ spans[p].sampled = spans[trace].sampled
      BY <1>1, <1>3, <2>1 DEF RunMapInv, VerdictsShared
  <2>3. parent = p /\ trace = spans[p].trace /\ sampled = spans[p].sampled
      BY <1>1, <1>3, <2>2
  <2>4. spans[p].sampled \in BOOLEAN
      BY <1>1, <1>3 DEF TypeOK, SpanRecord
  <2>5. o \in SpanRecord
      BY <1>1, <1>2, <1>3, <2>2, <2>3, <2>4 DEF SpanRecord, Trace
  <2>6. o.open /\ ~o.finished /\ o.sends = 0 /\ o.traceSends = 0
      BY <1>2
  <2>7. o.parent = p /\ o.trace = spans[p].trace /\ o.sampled = spans[p].sampled
      BY <1>2, <2>3
  <2> HIDE DEF o, trace, parent, sampled
  <2>8. QED
      BY <1>1, <1>3, <2>1, <2>5, <2>6, <2>7 DEF o
<1>4. CASE p = None
  <2>1. \/ parent = Outer /\ trace = Outer /\ sampled = outerSampled
        \/ parent = None /\ trace = r /\ sampled = keep
      BY <1>1, <1>4
  <2>2. outerSampled \in BOOLEAN
      BY <1>1 DEF TypeOK
  <2>3. o \in SpanRecord
      BY <1>2, <2>1, <2>2 DEF SpanRecord, Trace
  <2>4. QED
      BY <1>1, <1>2, <2>1, <2>3
<1>5. QED
    BY <1>1, <1>3, <1>4

\* A step opens the span of one run, or leaves every span where it is.
LEMMA SpanMoves ==
    ASSUME RunMapInv, [Next]_vars
    PROVE  /\ outerSampled' = outerSampled
           /\ \/ \E t \in Threads, r \in Runs, keep \in BOOLEAN :
                   /\ pc[t].at = "open" /\ r = pc[t].run
                   /\ spans' = [spans EXCEPT ![r] = Opened(t, r, keep)]
              \/ \A q \in Runs : /\ spans'[q].open = spans[q].open
                                 /\ spans'[q].trace = spans[q].trace
                                 /\ spans'[q].parent = spans[q].parent
                                 /\ spans'[q].sampled = spans[q].sampled
<1> DEFINE Still == \A q \in Runs : /\ spans'[q].open = spans[q].open
                                    /\ spans'[q].trace = spans[q].trace
                                    /\ spans'[q].parent = spans[q].parent
                                    /\ spans'[q].sampled = spans[q].sampled
<1>1. spans \in [Runs -> SpanRecord]
    BY DEF RunMapInv, EveryRunAccounted, TypeOK
<1>2. outerSampled' = outerSampled
    BY NextCases DEF Disable, Open, Put, Get, Pop, Finish, EmitTrace, EmitObservation,
                     Start, End, vars, threadVars
<1>3. ASSUME NEW t \in Threads, Open(t), enabled
      PROVE  \E r \in Runs, keep \in BOOLEAN :
                /\ pc[t].at = "open" /\ r = pc[t].run
                /\ spans' = [spans EXCEPT ![r] = Opened(t, r, keep)]
  <2>1. pc[t] # Idle
      BY <1>3 DEF Open, Idle
  <2>2. QED
      BY <1>3, <2>1, InCallback DEF Open
<1>4. ASSUME NEW t \in Threads, Open(t), ~enabled
      PROVE  Still
    BY <1>4 DEF Open
<1>5. ASSUME NEW t \in Threads, Finish(t)
      PROVE  Still
    BY <1>1, <1>5 DEF Finish, SpanRecord
<1>6. ASSUME NEW t \in Threads, EmitTrace(t)
      PROVE  Still
    BY <1>1, <1>6 DEF EmitTrace, SpanRecord
<1>7. ASSUME NEW t \in Threads, EmitObservation(t)
      PROVE  Still
    BY <1>1, <1>7 DEF EmitObservation, SpanRecord
<1>8. ASSUME NEW t \in Threads, \/ Put(t) \/ Get(t) \/ Pop(t)
                                \/ \E r \in Runs : Start(t, r) \/ \E looks \in BOOLEAN : End(t, r, looks)
      PROVE  Still
    BY <1>8 DEF Put, Get, Pop, Start, End
<1>9. ASSUME Disable \/ UNCHANGED vars
      PROVE  Still
    BY <1>9 DEF Disable, vars
<1>10. QED
    BY NextCases, <1>2, <1>3, <1>4, <1>5, <1>6, <1>7, <1>8, <1>9

\* An open run's trace is open and is not the one that opens.
LEMMA VerdictsSharedStep ==
    ASSUME RunMapInv, [Next]_vars
    PROVE  VerdictsShared'
<1>1. CASE \A q \in Runs : /\ spans'[q].open = spans[q].open
                           /\ spans'[q].trace = spans[q].trace
                           /\ spans'[q].sampled = spans[q].sampled
    BY <1>1, SpanMoves DEF RunMapInv, VerdictsShared
<1>2. ASSUME NEW t \in Threads, NEW r \in Runs, NEW keep \in BOOLEAN,
             pc[t].at = "open", r = pc[t].run,
             spans' = [spans EXCEPT ![r] = Opened(t, r, keep)]
      PROVE  VerdictsShared'
  <2> DEFINE o == Opened(t, r, keep)
  <2>1. /\ ~spans[r].open /\ o.open
        /\ \/ \E p \in Runs : /\ spans[p].open /\ o.trace = spans[p].trace
                               /\ o.sampled = spans[p].sampled
           \/ o.trace = Outer /\ o.sampled = outerSampled
           \/ o.trace = r
      BY <1>2, OpenedFacts
  <2>2. DOMAIN spans = Runs
      BY DEF RunMapInv, EveryRunAccounted, TypeOK
  <2> HIDE DEF o
  <2>3. spans'[r] = o /\ \A q \in Runs : q # r => spans'[q] = spans[q]
      BY <1>2, <2>2 DEF o
  <2>4. QED
      BY <2>1, <2>3, SpanMoves DEF RunMapInv, VerdictsShared
<1>3. QED
    BY <1>1, <1>2, SpanMoves

\* A run nests in the trace of its parent when it opens, and neither moves.
LEMMA NestsStep ==
    ASSUME RunMapInv, [Next]_vars
    PROVE  NestsInOneTrace'
<1>0. Outer \notin Runs /\ None \notin Runs /\ None # Outer
    BY RunMapAssumption
<1>1. CASE \A q \in Runs : /\ spans'[q].open = spans[q].open
                           /\ spans'[q].trace = spans[q].trace
                           /\ spans'[q].parent = spans[q].parent
                           /\ spans'[q].sampled = spans[q].sampled
  <2>1. \A q \in Runs : spans[q].parent \in Runs \cup {Outer, None}
      BY DEF RunMapInv, EveryRunAccounted, TypeOK, SpanRecord, Trace
  <2>2. QED
      BY <1>0, <1>1, <2>1, SpanMoves DEF RunMapInv, NestsInOneTrace
<1>2. ASSUME NEW t \in Threads, NEW r \in Runs, NEW keep \in BOOLEAN,
             pc[t].at = "open", r = pc[t].run,
             spans' = [spans EXCEPT ![r] = Opened(t, r, keep)]
      PROVE  NestsInOneTrace'
  <2> DEFINE o == Opened(t, r, keep)
  <2>1. /\ ~spans[r].open
        /\ \/ \E p \in Runs : /\ spans[p].open /\ p = ParentRun[r] /\ o.parent = p
                               /\ o.trace = spans[p].trace /\ o.sampled = spans[p].sampled
           \/ o.parent = Outer /\ o.trace = Outer /\ o.sampled = outerSampled
           \/ o.parent = None /\ o.trace = r
      BY <1>2, OpenedFacts
  <2>2. DOMAIN spans = Runs /\ \A q \in Runs : spans[q].parent \in Runs \cup {Outer, None}
      BY DEF RunMapInv, EveryRunAccounted, TypeOK, SpanRecord, Trace
  <2> HIDE DEF o
  <2>3. spans'[r] = o /\ \A q \in Runs : q # r => spans'[q] = spans[q]
      BY <1>2, <2>2 DEF o
  <2>4. QED
      BY <1>0, <2>1, <2>2, <2>3, SpanMoves DEF RunMapInv, NestsInOneTrace
<1>3. QED
    BY <1>1, <1>2, SpanMoves

\* A start looks its parent up in a map of open runs, and a span stays open.
LEMMA ParentFoundStep ==
    ASSUME RunMapInv, [Next]_vars
    PROVE  ParentFound'
<1>0. /\ TypeOK /\ None \notin Runs
      /\ \A r \in Runs : spans[r].open => spans'[r].open
  <2>1. TypeOK
      BY DEF RunMapInv, EveryRunAccounted
  <2>2. ASSUME NEW t \in Threads, NEW r \in Runs, NEW keep \in BOOLEAN,
               pc[t].at = "open", r = pc[t].run,
               spans' = [spans EXCEPT ![r] = Opened(t, r, keep)]
        PROVE  \A q \in Runs : spans[q].open => spans'[q].open
    <3>1. Opened(t, r, keep).open
        BY <2>2, OpenedFacts
    <3>2. QED
        BY <2>1, <2>2, <3>1 DEF TypeOK
  <2>3. QED
      BY <2>1, <2>2, SpanMoves, RunMapAssumption
<1>1. SUFFICES \A u \in Threads : pc'[u].at = "open" /\ pc'[u].parent # None =>
                   /\ pc'[u].parent \in Runs /\ spans[pc'[u].parent].open
                   /\ pc'[u].parent = ParentRun[pc'[u].run]
    BY <1>0 DEF ParentFound
<1> DEFINE Found(c) == c.at = "open" /\ c.parent # None =>
                           /\ c.parent \in Runs /\ spans[c.parent].open
                           /\ c.parent = ParentRun[c.run]
<1>2. DOMAIN pc = Threads /\ \A u \in Threads : Found(pc[u])
    BY <1>0 DEF RunMapInv, ParentFound, TypeOK, Idle
<1>3. ASSUME NEW t \in Threads, NEW r \in Runs, Start(t, r)
      PROVE  \A u \in Threads : Found(pc'[u])
  <2>1. Parent(r) # None => /\ Parent(r) \in Runs /\ spans[Parent(r)].open
                            /\ Parent(r) = ParentRun[r]
      BY RunMapAssumption DEF Parent, RunMapInv, SpansFollow
  <2>2. QED
      BY <1>2, <1>3, <2>1 DEF Start
<1>4. ASSUME NEW t \in Threads, NEW s \in Steps, Goto(t, s), s # "open"
      PROVE  \A u \in Threads : Found(pc'[u])
  <2>1. \A u \in Threads : u # t => pc'[u] = pc[u]
      BY <1>2, <1>4 DEF Goto
  <2>2. pc'[t].at # "open"
      BY <1>0, <1>4 DEF TypeOK, Goto, Idle
  <2>3. QED
      BY <1>2, <2>1, <2>2
<1>5. ASSUME NEW t \in Threads, Done(t)
      PROVE  \A u \in Threads : Found(pc'[u])
    BY <1>2, <1>5 DEF Done, Idle
<1>6. ASSUME NEW t \in Threads, NEW r \in Runs, NEW looks \in BOOLEAN, End(t, r, looks)
      PROVE  \A u \in Threads : Found(pc'[u])
    BY <1>2, <1>6 DEF End
<1>7. ASSUME NEW t \in Threads,
             Open(t) \/ Put(t) \/ Get(t) \/ Pop(t) \/ Finish(t) \/ EmitTrace(t) \/ EmitObservation(t)
      PROVE  Done(t) \/ \E s \in Steps \ {"open"} : Goto(t, s)
    BY <1>7 DEF Open, Put, Get, Pop, Finish, EmitTrace, EmitObservation, Steps
<1>8. CASE UNCHANGED pc
    BY <1>2, <1>8
<1>9. QED
    BY NextCases, <1>3, <1>4, <1>5, <1>6, <1>7, <1>8 DEF Disable, vars

\* Every step keeps the types: the map within its bound, and what it has
\* dropped within the number of runs.
LEMMA TypeStep ==
    ASSUME RunMapInv, [Next]_vars
    PROVE  TypeOK'
<1>0. TypeOK /\ RunMapAssumption
    BY RunMapAssumption DEF RunMapInv, EveryRunAccounted
<1>1. dropped' \in 0..Cardinality(Runs)
  <2>1. Lost' \subseteq Runs
      BY DEF Lost
  <2>2. QED
      BY <1>0, <2>1, DroppedStep, FS_Subset, FS_CardinalityType
<1>2. runs' \in Seq(Runs) /\ Len(runs') <= MaxRuns
  <2>1. ASSUME NEW t \in Threads, Put(t)
        PROVE  runs' \in Seq(Runs) /\ Len(runs') <= MaxRuns
      BY <2>1, PutFacts
  <2>2. ASSUME NEW t \in Threads, Pop(t)
        PROVE  runs' \in Seq(Runs) /\ Len(runs') <= MaxRuns
      BY <2>2, PopFacts
  <2>3. CASE UNCHANGED runs
      BY <1>0, <2>3 DEF TypeOK
  <2>4. QED
      BY NextCases, <2>1, <2>2, <2>3 DEF Disable, Open, Get, Finish, EmitTrace,
                                         EmitObservation, Start, End, vars
<1>3. enabled' \in BOOLEAN /\ outerSampled' \in BOOLEAN /\ ambient' \in [Threads -> {Outer, None}]
    BY <1>0, NextCases DEF TypeOK, Disable, Open, Put, Get, Pop, Finish, EmitTrace,
                           EmitObservation, Start, End, vars, threadVars
<1>4. spans' \in [Runs -> SpanRecord]
  <2>1. ASSUME NEW t \in Threads, Open(t)
        PROVE  spans' \in [Runs -> SpanRecord]
    <3>1. CASE enabled
      <4>1. PICK keep \in BOOLEAN : spans' = [spans EXCEPT ![pc[t].run] = Opened(t, pc[t].run, keep)]
          BY <2>1, <3>1 DEF Open
      <4>2. pc[t] # Idle /\ pc[t].at = "open"
          BY <2>1 DEF Open, Idle
      <4>3. pc[t].run \in Runs
          BY <4>2, InCallback
      <4>4. Opened(t, pc[t].run, keep) \in SpanRecord
          BY <4>2, <4>3, OpenedFacts
      <4>5. QED
          BY <1>0, <4>1, <4>3, <4>4 DEF TypeOK
    <3>2. CASE ~enabled
        BY <1>0, <2>1, <3>2 DEF Open, TypeOK
    <3>3. QED
        BY <3>1, <3>2
  <2>2. ASSUME NEW t \in Threads, Finish(t)
        PROVE  spans' \in [Runs -> SpanRecord]
    <3>1. pc[t] # Idle
        BY <2>2 DEF Finish, Idle
    <3>2. pc[t].run \in Runs
        BY <3>1, InCallback
    <3>3. [spans[pc[t].run] EXCEPT !.finished = TRUE] \in SpanRecord
      <4>1. spans[pc[t].run] \in SpanRecord
          BY <1>0, <3>2 DEF TypeOK
      <4>2. QED
          BY <4>1 DEF SpanRecord
    <3>4. QED
        BY <1>0, <2>2, <3>2, <3>3 DEF Finish, TypeOK
  <2>3. ASSUME NEW t \in Threads, EmitTrace(t)
        PROVE  spans' \in [Runs -> SpanRecord]
    <3>1. pc[t] # Idle /\ spans[pc[t].run].traceSends = 0
        BY <2>3 DEF EmitTrace, Idle, RunMapInv, SpansFollow
    <3>2. pc[t].run \in Runs
        BY <3>1, InCallback
    <3>3. [spans[pc[t].run] EXCEPT !.traceSends = IF enabled THEN @ + 1 ELSE @] \in SpanRecord
      <4>1. spans[pc[t].run] \in SpanRecord
          BY <1>0, <3>2 DEF TypeOK
      <4>2. QED
          BY <3>1, <4>1 DEF SpanRecord
    <3>4. QED
        BY <1>0, <2>3, <3>2, <3>3 DEF EmitTrace, TypeOK
  <2>4. ASSUME NEW t \in Threads, EmitObservation(t)
        PROVE  spans' \in [Runs -> SpanRecord]
    <3>1. pc[t] # Idle /\ spans[pc[t].run].sends = 0
        BY <2>4 DEF EmitObservation, Idle, RunMapInv, SpansFollow
    <3>2. pc[t].run \in Runs
        BY <3>1, InCallback
    <3>3. [spans[pc[t].run] EXCEPT !.sends = IF enabled THEN @ + 1 ELSE @] \in SpanRecord
        BY <1>0, <3>1, <3>2 DEF TypeOK, SpanRecord
    <3>4. QED
        BY <1>0, <2>4, <3>2, <3>3 DEF EmitObservation, TypeOK
  <2>5. CASE UNCHANGED spans
      BY <1>0, <2>5 DEF TypeOK
  <2>6. QED
      BY NextCases, <2>1, <2>2, <2>3, <2>4, <2>5 DEF Disable, Put, Get, Pop, Start, End, vars
<1>5. /\ pc' \in [Threads -> {Idle} \cup [at : Steps, run : Runs, parent : Runs \cup {None}]]
      /\ reported' \in [Runs -> {"new", "starting", "started", "ending", "ended"}]
  <2> DEFINE Reports == {"new", "starting", "started", "ending", "ended"}
  <2>1. pc \in [Threads -> Callback] /\ reported \in [Runs -> Reports]
      BY <1>0 DEF TypeOK, Callback
  <2>2. ASSUME NEW t \in Threads, NEW r \in Runs, Start(t, r)
        PROVE  pc' \in [Threads -> Callback] /\ reported' \in [Runs -> Reports]
    <3>1. [at |-> "open", run |-> r, parent |-> Parent(r)] \in Callback
        BY <1>0 DEF Callback, Parent, Steps
    <3>2. QED
        BY <2>1, <2>2, <3>1 DEF Start
  <2>3. ASSUME NEW t \in Threads, NEW r \in Runs, NEW looks \in BOOLEAN, End(t, r, looks)
        PROVE  pc' \in [Threads -> Callback] /\ reported' \in [Runs -> Reports]
    <3>1. [at |-> IF looks THEN "get" ELSE "pop", run |-> r, parent |-> None] \in Callback
        BY DEF Callback, Steps
    <3>2. QED
        BY <2>1, <2>3, <3>1 DEF End
  <2>4. ASSUME NEW t \in Threads,
               Open(t) \/ Put(t) \/ Get(t) \/ Pop(t) \/ Finish(t) \/ EmitTrace(t) \/ EmitObservation(t)
        PROVE  pc' \in [Threads -> Callback] /\ reported' \in [Runs -> Reports]
    <3>1. pc[t] # Idle
        BY <2>4 DEF Open, Put, Get, Pop, Finish, EmitTrace, EmitObservation, Idle
    <3>2. Done(t) \/ \E s \in Steps : Goto(t, s)
        BY <2>4 DEF Open, Put, Get, Pop, Finish, EmitTrace, EmitObservation, Steps
    <3>3. ASSUME NEW s \in Steps, Goto(t, s)
          PROVE  pc' \in [Threads -> Callback]
        BY <1>0, <2>1, <3>1, <3>3, GotoIs
    <3>4. Done(t) => pc' \in [Threads -> Callback]
        BY <2>1 DEF Done, Callback
    <3>5. reported' \in [Runs -> Reports]
        BY <2>1, <2>4 DEF Open, Put, Get, Pop, Finish, EmitTrace, EmitObservation
    <3>6. QED
        BY <3>2, <3>3, <3>4, <3>5
  <2>5. ASSUME UNCHANGED <<pc, reported>>
        PROVE  pc' \in [Threads -> Callback] /\ reported' \in [Runs -> Reports]
      BY <2>1, <2>5
  <2>6. pc' \in [Threads -> Callback] /\ reported' \in [Runs -> Reports]
      BY NextCases, <2>2, <2>3, <2>4, <2>5 DEF Disable, vars
  <2>7. QED
      BY <2>6 DEF Callback
<1>6. QED
    BY <1>1, <1>2, <1>3, <1>4, <1>5 DEF TypeOK

-----------------------------------------------------------------------------
(* How far a run's span has come.                                          *)

\* SpansFollow, for a run with span s and report rep, in the map or not...
RunFollows(s, rep, mapped) ==
    /\ s.open => rep # "new"
    /\ mapped => s.open /\ ~s.finished /\ rep \in {"started", "ending"}
    /\ rep \in {"new", "starting", "started"} => ~s.finished /\ s.sends = 0 /\ s.traceSends = 0

\* ... and for a callback that has come to the step at, for such a run.
CallFollows(at, s, mapped) ==
    /\ at = "open" => ~s.open
    /\ at \in Holding => s.open
    /\ at \in {"finish", "trace", "observation"} => ~mapped
    /\ at \in {"get", "pop", "finish", "trace"} => s.sends = 0 /\ s.traceSends = 0
    /\ at = "observation" => s.sends = 0
    /\ at \in {"trace", "observation"} => s.finished

\* What SpansFollow says of one run and of the callback that is on it.
LEMMA FollowsNow ==
    ASSUME RunMapInv, NEW r \in Runs
    PROVE  /\ RunFollows(spans[r], reported[r], r \in Range(runs))
           /\ \A t \in Threads : pc[t].run = r => CallFollows(pc[t].at, spans[r], r \in Range(runs))
BY DEF RunMapInv, SpansFollow, InMap, RunFollows, CallFollows, Holding

\* What a callback in progress says of its run.
LEMMA CallNow ==
    ASSUME TypeOK, RunMapInv, NEW t \in Threads, pc[t] # Idle, NEW r \in Runs, r = pc[t].run
    PROVE  /\ RunFollows(spans[r], reported[r], r \in Range(runs))
           /\ CallFollows(pc[t].at, spans[r], r \in Range(runs))
           /\ reported[r] = IF pc[t].at \in {"open", "put"} THEN "starting" ELSE "ending"
           /\ spans[r] \in SpanRecord
<1>1. /\ RunFollows(spans[r], reported[r], r \in Range(runs))
      /\ CallFollows(pc[t].at, spans[r], r \in Range(runs))
    BY FollowsNow
<1>2. reported[r] = IF pc[t].at \in {"open", "put"} THEN "starting" ELSE "ending"
    BY DEF RunMapInv, OneCallback
<1>3. spans[r] \in SpanRecord
    BY DEF TypeOK
<1>4. QED
    BY <1>1, <1>2, <1>3

\* A step of thread t on run r need only be looked at there.
LEMMA FollowsLocally ==
    ASSUME RunMapInv, NEW t \in Threads, NEW r \in Runs,
           NEW c, c = Idle \/ c.run = r, pc' = [pc EXCEPT ![t] = c],
           \A u \in Threads : u # t /\ pc[u] # Idle => pc[u].run # r,
           \A q \in Runs \ {r} : /\ spans'[q] = spans[q] /\ reported'[q] = reported[q]
                                 /\ q \in Range(runs') => q \in Range(runs),
           RunFollows(spans'[r], reported'[r], r \in Range(runs')),
           c # Idle => CallFollows(c.at, spans'[r], r \in Range(runs'))
    PROVE  SpansFollow'
<1>1. /\ pc \in [Threads -> Callback] /\ Idle.at \notin Steps
    BY DEF RunMapInv, EveryRunAccounted, TypeOK, Callback, Idle, Steps
<1>2. pc'[t] = c /\ \A u \in Threads : u # t => pc'[u] = pc[u]
    BY <1>1
<1>3. \A q \in Runs : RunFollows(spans'[q], reported'[q], q \in Range(runs'))
  <2>1. SUFFICES ASSUME NEW q \in Runs \ {r}
                 PROVE  RunFollows(spans'[q], reported'[q], q \in Range(runs'))
      OBVIOUS
  <2>2. RunFollows(spans[q], reported[q], q \in Range(runs))
      BY FollowsNow
  <2>3. QED
      BY <2>2 DEF RunFollows
<1>4. ASSUME NEW u \in Threads, pc'[u] # Idle
      PROVE  CallFollows(pc'[u].at, spans'[pc'[u].run], pc'[u].run \in Range(runs'))
  <2>1. CASE u = t
      BY <1>2, <1>4, <2>1
  <2>2. CASE u # t
    <3>1. PICK q \in Runs \ {r} : q = pc[u].run /\ pc'[u] = pc[u]
        BY <1>2, <1>4, <2>2, InCallback
    <3>2. CallFollows(pc[u].at, spans[q], q \in Range(runs))
        BY <3>1, FollowsNow
    <3>3. QED
        BY <3>1, <3>2 DEF CallFollows
  <2>3. QED
      BY <2>1, <2>2
<1>5. ASSUME NEW u \in Threads
      PROVE  CallFollows(pc'[u].at, spans'[pc'[u].run], pc'[u].run \in Range(runs'))
  <2>1. CASE pc'[u] = Idle
      BY <2>1 DEF CallFollows, Idle, Holding
  <2>2. QED
      BY <1>4, <2>1
<1>6. QED
    BY <1>3, <1>5 DEF SpansFollow, InMap, RunFollows, CallFollows, Holding

\* How far a run's span has come follows the callbacks, step by step.
LEMMA SpansFollowStep ==
    ASSUME RunMapInv, [Next]_vars
    PROVE  SpansFollow'
<1>0. TypeOK
    BY DEF RunMapInv, EveryRunAccounted
<1>1. ASSUME NEW t \in Threads, NEW r \in Runs, Start(t, r)
      PROVE  SpansFollow'
  <2>1. PICK c : c.run = r /\ c.at = "open" /\ pc' = [pc EXCEPT ![t] = c]
    <3> DEFINE d == [at |-> "open", run |-> r, parent |-> Parent(r)]
    <3>1. d.run = r /\ d.at = "open" /\ pc' = [pc EXCEPT ![t] = d]
        BY <1>1 DEF Start
    <3> HIDE DEF d
    <3>2. QED
        BY <3>1
  <2>2. /\ reported[r] = "new" /\ reported' = [reported EXCEPT ![r] = "starting"]
        /\ spans' = spans /\ runs' = runs
      BY <1>1 DEF Start
  <2>3. \A u \in Threads : u # t /\ pc[u] # Idle => pc[u].run # r
      BY <2>2 DEF RunMapInv, OneCallback
  <2>4. RunFollows(spans[r], reported[r], r \in Range(runs))
      BY FollowsNow
  <2>5. /\ RunFollows(spans'[r], reported'[r], r \in Range(runs'))
        /\ CallFollows(c.at, spans'[r], r \in Range(runs'))
      BY <1>0, <2>1, <2>2, <2>4 DEF RunFollows, CallFollows, Holding, TypeOK
  <2>6. \A q \in Runs \ {r} : /\ spans'[q] = spans[q] /\ reported'[q] = reported[q]
                              /\ q \in Range(runs') => q \in Range(runs)
      BY <1>0, <2>2 DEF TypeOK
  <2>7. QED
      BY <2>1, <2>3, <2>5, <2>6, FollowsLocally
<1>2. ASSUME NEW t \in Threads, NEW r \in Runs, NEW looks \in BOOLEAN, End(t, r, looks)
      PROVE  SpansFollow'
  <2>1. PICK c : c.run = r /\ c.at \in {"get", "pop"} /\ pc' = [pc EXCEPT ![t] = c]
    <3> DEFINE d == [at |-> IF looks THEN "get" ELSE "pop", run |-> r, parent |-> None]
    <3>1. d.run = r /\ d.at \in {"get", "pop"} /\ pc' = [pc EXCEPT ![t] = d]
        BY <1>2 DEF End
    <3> HIDE DEF d
    <3>2. QED
        BY <3>1
  <2>2. /\ reported[r] = "started" /\ reported' = [reported EXCEPT ![r] = "ending"]
        /\ spans' = spans /\ runs' = runs
      BY <1>2 DEF End
  <2>3. \A u \in Threads : u # t /\ pc[u] # Idle => pc[u].run # r
      BY <2>2 DEF RunMapInv, OneCallback
  <2>4. RunFollows(spans[r], reported[r], r \in Range(runs))
      BY FollowsNow
  <2>5. /\ RunFollows(spans'[r], reported'[r], r \in Range(runs'))
        /\ CallFollows(c.at, spans'[r], r \in Range(runs'))
      BY <1>0, <2>1, <2>2, <2>4 DEF RunFollows, CallFollows, Holding, TypeOK
  <2>6. \A q \in Runs \ {r} : /\ spans'[q] = spans[q] /\ reported'[q] = reported[q]
                              /\ q \in Range(runs') => q \in Range(runs)
      BY <1>0, <2>2 DEF TypeOK
  <2>7. QED
      BY <2>1, <2>3, <2>5, <2>6, FollowsLocally
<1>3. ASSUME NEW t \in Threads, Open(t)
      PROVE  SpansFollow'
  <2>1. PICK r \in Runs : /\ r = pc[t].run /\ pc[t] # Idle
                          /\ \A u \in Threads : u # t /\ pc[u] # Idle => pc[u].run # r
    <3>1. pc[t] # Idle
        BY <1>3 DEF Open, Idle
    <3>2. QED
        BY <3>1, InCallback
  <2>2. /\ RunFollows(spans[r], reported[r], r \in Range(runs))
        /\ CallFollows("open", spans[r], r \in Range(runs))
        /\ reported[r] = "starting" /\ spans[r] \in SpanRecord
    <3>1. pc[t].at = "open"
        BY <1>3 DEF Open
    <3>2. QED
        BY <1>0, <2>1, <3>1, CallNow
  <2>3. CASE enabled
    <3>1. PICK keep \in BOOLEAN : spans' = [spans EXCEPT ![r] = Opened(t, r, keep)]
        BY <1>3, <2>1, <2>3 DEF Open
    <3>2. PICK s \in SpanRecord : /\ spans' = [spans EXCEPT ![r] = s]
                                  /\ s.open /\ ~s.finished /\ s.sends = 0 /\ s.traceSends = 0
      <4> DEFINE o == Opened(t, r, keep)
      <4>1. o \in SpanRecord /\ o.open /\ ~o.finished /\ o.sends = 0 /\ o.traceSends = 0
          BY <1>3, <2>1, OpenedFacts DEF Open
      <4> HIDE DEF o
      <4>2. spans' = [spans EXCEPT ![r] = o]
          BY <3>1 DEF o
      <4>3. QED
          BY <4>1, <4>2
    <3>3. PICK c \in Callback : c.run = r /\ c.at = "put" /\ pc' = [pc EXCEPT ![t] = c]
        BY <1>0, <1>3, <2>1, <2>3, GotoTo DEF Open, Steps
    <3>4. reported' = reported /\ runs' = runs
        BY <1>3, <2>3 DEF Open
    <3>5. r \notin Range(runs)
        BY <2>2 DEF RunFollows
    <3>6. /\ RunFollows(spans'[r], reported'[r], r \in Range(runs'))
          /\ CallFollows(c.at, spans'[r], r \in Range(runs'))
        BY <1>0, <2>2, <3>2, <3>3, <3>4, <3>5 DEF RunFollows, CallFollows, Holding, TypeOK
    <3>7. \A q \in Runs \ {r} : spans'[q] = spans[q]
        BY <1>0, <3>2 DEF TypeOK
    <3>8. QED
        BY <2>1, <3>3, <3>4, <3>6, <3>7, FollowsLocally
  <2>4. CASE ~enabled
    <3>1. /\ pc' = [pc EXCEPT ![t] = Idle] /\ reported' = [reported EXCEPT ![r] = "started"]
          /\ spans' = spans /\ runs' = runs
        BY <1>3, <2>1, <2>4 DEF Open, Done
    <3>2. RunFollows(spans'[r], reported'[r], r \in Range(runs'))
        BY <1>0, <2>2, <3>1 DEF RunFollows, TypeOK
    <3>3. \A q \in Runs \ {r} : reported'[q] = reported[q]
        BY <1>0, <3>1 DEF TypeOK
    <3>4. QED
        BY <2>1, <3>1, <3>2, <3>3, FollowsLocally
  <2>5. QED
      BY <2>3, <2>4
<1>4. ASSUME NEW t \in Threads, Put(t)
      PROVE  SpansFollow'
  <2>1. PICK r \in Runs : /\ r = pc[t].run /\ pc[t] # Idle
                          /\ \A u \in Threads : u # t /\ pc[u] # Idle => pc[u].run # r
    <3>1. pc[t] # Idle
        BY <1>4 DEF Put, Idle
    <3>2. QED
        BY <3>1, InCallback
  <2>2. /\ RunFollows(spans[r], reported[r], r \in Range(runs))
        /\ CallFollows("put", spans[r], r \in Range(runs))
        /\ reported[r] = "starting" /\ spans[r] \in SpanRecord
    <3>1. pc[t].at = "put"
        BY <1>4 DEF Put
    <3>2. QED
        BY <1>0, <2>1, <3>1, CallNow
  <2>3. /\ pc' = [pc EXCEPT ![t] = Idle] /\ reported' = [reported EXCEPT ![r] = "started"]
        /\ spans' = spans
      BY <1>4, <2>1 DEF Put, Done
  <2>4. \A q \in Runs \ {r} : q \in Range(runs') => q \in Range(runs)
      BY <1>4, <2>1, PutFacts
  <2>5. RunFollows(spans'[r], reported'[r], r \in Range(runs'))
      BY <1>0, <2>2, <2>3 DEF RunFollows, CallFollows, Holding, TypeOK
  <2>6. \A q \in Runs \ {r} : reported'[q] = reported[q]
      BY <1>0, <2>3 DEF TypeOK
  <2>7. QED
      BY <2>1, <2>3, <2>4, <2>5, <2>6, FollowsLocally
<1>5. ASSUME NEW t \in Threads, Get(t)
      PROVE  SpansFollow'
  <2>1. PICK r \in Runs : /\ r = pc[t].run /\ pc[t] # Idle
                          /\ \A u \in Threads : u # t /\ pc[u] # Idle => pc[u].run # r
    <3>1. pc[t] # Idle
        BY <1>5 DEF Get, Idle
    <3>2. QED
        BY <3>1, InCallback
  <2>2. /\ RunFollows(spans[r], reported[r], r \in Range(runs))
        /\ CallFollows("get", spans[r], r \in Range(runs))
        /\ reported[r] = "ending" /\ spans[r] \in SpanRecord
    <3>1. pc[t].at = "get"
        BY <1>5 DEF Get
    <3>2. QED
        BY <1>0, <2>1, <3>1, CallNow
  <2>3. spans' = spans /\ runs' = runs
      BY <1>5 DEF Get
  <2>4. CASE r \in Range(runs)
    <3>1. reported' = reported /\ Goto(t, "pop") /\ "pop" \in Steps
        BY <1>5, <2>1, <2>4 DEF Get, InMap, Steps
    <3>2. PICK c \in Callback : c.run = r /\ c.at = "pop" /\ pc' = [pc EXCEPT ![t] = c]
        BY <1>0, <2>1, <3>1, GotoTo
    <3>3. /\ RunFollows(spans'[r], reported'[r], r \in Range(runs'))
          /\ CallFollows(c.at, spans'[r], r \in Range(runs'))
        BY <2>2, <2>3, <2>4, <3>1, <3>2 DEF RunFollows, CallFollows, Holding
    <3>4. QED
        BY <2>1, <2>3, <3>1, <3>2, <3>3, FollowsLocally
  <2>5. CASE r \notin Range(runs)
    <3>1. pc' = [pc EXCEPT ![t] = Idle] /\ reported' = [reported EXCEPT ![r] = "ended"]
        BY <1>5, <2>1, <2>5 DEF Get, InMap, Done
    <3>2. RunFollows(spans'[r], reported'[r], r \in Range(runs'))
        BY <1>0, <2>2, <2>3, <2>5, <3>1 DEF RunFollows, TypeOK
    <3>3. \A q \in Runs \ {r} : reported'[q] = reported[q]
        BY <1>0, <3>1 DEF TypeOK
    <3>4. QED
        BY <2>1, <2>3, <3>1, <3>2, <3>3, FollowsLocally
  <2>6. QED
      BY <2>4, <2>5
<1>6. ASSUME NEW t \in Threads, Pop(t)
      PROVE  SpansFollow'
  <2>1. PICK r \in Runs : /\ r = pc[t].run /\ pc[t] # Idle
                          /\ \A u \in Threads : u # t /\ pc[u] # Idle => pc[u].run # r
    <3>1. pc[t] # Idle
        BY <1>6 DEF Pop, Idle
    <3>2. QED
        BY <3>1, InCallback
  <2>2. /\ RunFollows(spans[r], reported[r], r \in Range(runs))
        /\ CallFollows("pop", spans[r], r \in Range(runs))
        /\ reported[r] = "ending" /\ spans[r] \in SpanRecord
    <3>1. pc[t].at = "pop"
        BY <1>6 DEF Pop
    <3>2. QED
        BY <1>0, <2>1, <3>1, CallNow
  <2>3. /\ spans' = spans /\ r \notin Range(runs')
        /\ \A q \in Runs \ {r} : q \in Range(runs') => q \in Range(runs)
      BY <1>6, <2>1, PopFacts DEF Pop
  <2>4. CASE r \in Range(runs)
    <3>1. reported' = reported /\ Goto(t, "finish") /\ "finish" \in Steps
        BY <1>6, <2>1, <2>4 DEF Pop, Popped, InMap, Steps
    <3>2. PICK c \in Callback : c.run = r /\ c.at = "finish" /\ pc' = [pc EXCEPT ![t] = c]
        BY <1>0, <2>1, <3>1, GotoTo
    <3>3. /\ RunFollows(spans'[r], reported'[r], r \in Range(runs'))
          /\ CallFollows(c.at, spans'[r], r \in Range(runs'))
        BY <2>2, <2>3, <2>4, <3>1, <3>2 DEF RunFollows, CallFollows, Holding
    <3>4. QED
        BY <2>1, <2>3, <3>1, <3>2, <3>3, FollowsLocally
  <2>5. CASE r \notin Range(runs)
    <3>1. pc' = [pc EXCEPT ![t] = Idle] /\ reported' = [reported EXCEPT ![r] = "ended"]
        BY <1>6, <2>1, <2>5 DEF Pop, Popped, InMap, Done
    <3>2. RunFollows(spans'[r], reported'[r], r \in Range(runs'))
        BY <1>0, <2>2, <2>3, <2>5, <3>1 DEF RunFollows, TypeOK
    <3>3. \A q \in Runs \ {r} : /\ spans'[q] = spans[q] /\ reported'[q] = reported[q]
                                /\ q \in Range(runs') => q \in Range(runs)
        BY <1>0, <2>3, <3>1 DEF TypeOK
    <3>4. QED
        BY <2>1, <3>1, <3>2, <3>3, FollowsLocally
  <2>6. QED
      BY <2>4, <2>5
<1>7. ASSUME NEW t \in Threads, Finish(t)
      PROVE  SpansFollow'
  <2>1. PICK r \in Runs : /\ r = pc[t].run /\ pc[t] # Idle
                          /\ \A u \in Threads : u # t /\ pc[u] # Idle => pc[u].run # r
    <3>1. pc[t] # Idle
        BY <1>7 DEF Finish, Idle
    <3>2. QED
        BY <3>1, InCallback
  <2>2. /\ RunFollows(spans[r], reported[r], r \in Range(runs))
        /\ CallFollows("finish", spans[r], r \in Range(runs))
        /\ reported[r] = "ending" /\ spans[r] \in SpanRecord
    <3>1. pc[t].at = "finish"
        BY <1>7 DEF Finish
    <3>2. QED
        BY <1>0, <2>1, <3>1, CallNow
  <2>3. PICK s \in SpanRecord : /\ s.open /\ s.finished /\ s.sends = 0 /\ s.traceSends = 0
                                /\ spans' = [spans EXCEPT ![r] = s] /\ runs' = runs
    <3> DEFINE s == [spans[r] EXCEPT !.finished = TRUE]
    <3>1. /\ s \in SpanRecord /\ s.open /\ s.finished /\ s.sends = 0 /\ s.traceSends = 0
        BY <2>2 DEF SpanRecord, CallFollows, Holding
    <3>2. spans' = [spans EXCEPT ![r] = s] /\ runs' = runs
        BY <1>7, <2>1 DEF Finish
    <3> HIDE DEF s
    <3>3. QED
        BY <3>1, <3>2
  <2>4. spans'[r] = s /\ \A q \in Runs \ {r} : spans'[q] = spans[q]
      BY <1>0, <2>3 DEF TypeOK
  <2>5. CASE ~spans[r].sampled
    <3>1. pc' = [pc EXCEPT ![t] = Idle] /\ reported' = [reported EXCEPT ![r] = "ended"]
        BY <1>7, <2>1, <2>5 DEF Finish, Done
    <3>2. RunFollows(spans'[r], reported'[r], r \in Range(runs'))
        BY <1>0, <2>2, <2>3, <2>4, <3>1 DEF RunFollows, CallFollows, TypeOK
    <3>3. \A q \in Runs \ {r} : reported'[q] = reported[q]
        BY <1>0, <3>1 DEF TypeOK
    <3>4. QED
        BY <2>1, <2>3, <2>4, <3>1, <3>2, <3>3, FollowsLocally
  <2>6. CASE spans[r].sampled
    <3>1. PICK step \in {"trace", "observation"} : reported' = reported /\ Goto(t, step) /\ step \in Steps
        BY <1>7, <2>1, <2>6 DEF Finish, Steps
    <3>2. PICK c \in Callback : c.run = r /\ c.at = step /\ pc' = [pc EXCEPT ![t] = c]
        BY <1>0, <2>1, <3>1, GotoTo
    <3>3. /\ RunFollows(spans'[r], reported'[r], r \in Range(runs'))
          /\ CallFollows(c.at, spans'[r], r \in Range(runs'))
        BY <2>2, <2>3, <2>4, <3>1, <3>2 DEF RunFollows, CallFollows, Holding
    <3>4. QED
        BY <2>1, <2>3, <2>4, <3>1, <3>2, <3>3, FollowsLocally
  <2>7. QED
      BY <2>5, <2>6
<1>8. ASSUME NEW t \in Threads, EmitTrace(t)
      PROVE  SpansFollow'
  <2>1. PICK r \in Runs : /\ r = pc[t].run /\ pc[t] # Idle
                          /\ \A u \in Threads : u # t /\ pc[u] # Idle => pc[u].run # r
    <3>1. pc[t] # Idle
        BY <1>8 DEF EmitTrace, Idle
    <3>2. QED
        BY <3>1, InCallback
  <2>2. /\ RunFollows(spans[r], reported[r], r \in Range(runs))
        /\ CallFollows("trace", spans[r], r \in Range(runs))
        /\ reported[r] = "ending" /\ spans[r] \in SpanRecord
    <3>1. pc[t].at = "trace"
        BY <1>8 DEF EmitTrace
    <3>2. QED
        BY <1>0, <2>1, <3>1, CallNow
  <2>3. PICK s \in SpanRecord : /\ s.open /\ s.finished /\ s.sends = 0
                                /\ spans' = [spans EXCEPT ![r] = s] /\ runs' = runs
    <3> DEFINE s == [spans[r] EXCEPT !.traceSends = IF enabled THEN @ + 1 ELSE @]
    <3>1. /\ s \in SpanRecord /\ s.open /\ s.finished /\ s.sends = 0
        BY <2>2 DEF SpanRecord, CallFollows, Holding
    <3>2. spans' = [spans EXCEPT ![r] = s] /\ runs' = runs
        BY <1>8, <2>1 DEF EmitTrace
    <3> HIDE DEF s
    <3>3. QED
        BY <3>1, <3>2
  <2>4. spans'[r] = s /\ \A q \in Runs \ {r} : spans'[q] = spans[q]
      BY <1>0, <2>3 DEF TypeOK
  <2>5. PICK c \in Callback : c.run = r /\ c.at = "observation" /\ pc' = [pc EXCEPT ![t] = c]
      BY <1>0, <1>8, <2>1, GotoTo DEF EmitTrace, Steps
  <2>6. reported' = reported
      BY <1>8 DEF EmitTrace
  <2>7. /\ RunFollows(spans'[r], reported'[r], r \in Range(runs'))
        /\ CallFollows(c.at, spans'[r], r \in Range(runs'))
      BY <2>2, <2>3, <2>4, <2>5, <2>6 DEF RunFollows, CallFollows, Holding
  <2>8. QED
      BY <2>1, <2>3, <2>4, <2>5, <2>6, <2>7, FollowsLocally
<1>9. ASSUME NEW t \in Threads, EmitObservation(t)
      PROVE  SpansFollow'
  <2>1. PICK r \in Runs : /\ r = pc[t].run /\ pc[t] # Idle
                          /\ \A u \in Threads : u # t /\ pc[u] # Idle => pc[u].run # r
    <3>1. pc[t] # Idle
        BY <1>9 DEF EmitObservation, Idle
    <3>2. QED
        BY <3>1, InCallback
  <2>2. /\ RunFollows(spans[r], reported[r], r \in Range(runs))
        /\ CallFollows("observation", spans[r], r \in Range(runs))
        /\ reported[r] = "ending" /\ spans[r] \in SpanRecord
    <3>1. pc[t].at = "observation"
        BY <1>9 DEF EmitObservation
    <3>2. QED
        BY <1>0, <2>1, <3>1, CallNow
  <2>3. PICK s \in SpanRecord : /\ s.open /\ s.finished
                                /\ spans' = [spans EXCEPT ![r] = s] /\ runs' = runs
    <3> DEFINE s == [spans[r] EXCEPT !.sends = IF enabled THEN @ + 1 ELSE @]
    <3>1. /\ s \in SpanRecord /\ s.open /\ s.finished
        BY <2>2 DEF SpanRecord, CallFollows, Holding
    <3>2. spans' = [spans EXCEPT ![r] = s] /\ runs' = runs
        BY <1>9, <2>1 DEF EmitObservation
    <3> HIDE DEF s
    <3>3. QED
        BY <3>1, <3>2
  <2>4. spans'[r] = s /\ \A q \in Runs \ {r} : spans'[q] = spans[q]
      BY <1>0, <2>3 DEF TypeOK
  <2>5. pc' = [pc EXCEPT ![t] = Idle] /\ reported' = [reported EXCEPT ![r] = "ended"]
      BY <1>9, <2>1 DEF EmitObservation, Done
  <2>6. RunFollows(spans'[r], reported'[r], r \in Range(runs'))
      BY <1>0, <2>2, <2>3, <2>4, <2>5 DEF RunFollows, CallFollows, TypeOK
  <2>7. \A q \in Runs \ {r} : reported'[q] = reported[q]
      BY <1>0, <2>5 DEF TypeOK
  <2>8. QED
      BY <2>1, <2>3, <2>4, <2>5, <2>6, <2>7, FollowsLocally
<1>10. CASE UNCHANGED <<pc, runs, reported, spans>>
    BY <1>10 DEF RunMapInv, SpansFollow, InMap
<1>11. QED
    BY NextCases, <1>1, <1>2, <1>3, <1>4, <1>5, <1>6, <1>7, <1>8, <1>9, <1>10 DEF Disable, vars

\* The places a run can be in exclude one another, and each is accounted for.
LEMMA AccountedStep ==
    ASSUME RunMapInv, SpansFollow', OneCallback', [Next]_vars
    PROVE  EveryRunAccounted'
<1>1. TypeOK' /\ dropped' = Cardinality(Lost')
    BY TypeStep, DroppedStep
<1>2. \A i, j \in DOMAIN runs' : runs'[i] = runs'[j] => i = j
  <2>1. ASSUME NEW t \in Threads, Put(t)
        PROVE  NoneTwice(runs')
      BY <2>1, PutFacts
  <2>2. ASSUME NEW t \in Threads, Pop(t)
        PROVE  NoneTwice(runs')
      BY <2>2, PopFacts
  <2>3. ASSUME runs' = runs
        PROVE  NoneTwice(runs')
      BY <2>3 DEF RunMapInv, EveryRunAccounted, NoneTwice
  <2>4. NoneTwice(runs')
      BY NextCases, <2>1, <2>2, <2>3 DEF Disable, Open, Get, Finish, EmitTrace,
                                         EmitObservation, Start, End, vars
  <2>5. QED
      BY <2>4 DEF NoneTwice
<1>3. \A r \in Runs :
        /\ r \in Range(runs') => spans'[r].open /\ ~spans'[r].finished /\ r \notin InHand'
        /\ r \in InHand' => spans'[r].open
  <2>1. \A r \in Runs : r \in Range(runs') =>
            /\ spans'[r].open /\ ~spans'[r].finished
            /\ reported'[r] \in {"started", "ending"}
      BY DEF SpansFollow, InMap
  <2>2. ASSUME NEW r \in Runs, NEW t \in Threads, pc'[t].run = r, pc'[t].at \in Holding
        PROVE  spans'[r].open /\ r \notin Range(runs')
    <3>1. CASE pc'[t].at = "put"
      <4>1. reported'[r] = "starting"
          BY <2>2, <3>1 DEF OneCallback, Idle
      <4>2. QED
          BY <2>1, <2>2, <3>1, <4>1 DEF SpansFollow
    <3>2. CASE pc'[t].at # "put"
        BY <2>2, <3>2 DEF SpansFollow, InMap, Holding
    <3>3. QED
        BY <3>1, <3>2
  <2>3. QED
      BY <2>1, <2>2 DEF InHand, Holding
<1>4. QED
    BY <1>1, <1>2, <1>3 DEF EveryRunAccounted, InMap

-----------------------------------------------------------------------------
(* The invariant, and what it is for.                                      *)

\* The invariant holds at first.
LEMMA InitInv == Init => RunMapInv
<1> SUFFICES ASSUME Init
             PROVE  RunMapInv
    OBVIOUS
<1>1. /\ \A t \in Threads : pc[t] = Idle
      /\ \A r \in Runs : spans[r] = Unopened /\ reported[r] = "new"
      /\ Range(runs) = {} /\ InHand = {} /\ Lost = {}
    BY RunMapAssumption DEF Init, Range, Idle, InHand, Lost, Unopened
<1>2. TypeOK
  <2>1. dropped \in 0..Cardinality(Runs)
      BY RunMapAssumption, FS_CardinalityType DEF Init
  <2>2. Unopened \in SpanRecord
      BY DEF Unopened, SpanRecord
  <2>3. runs \in Seq(Runs) /\ Len(runs) <= MaxRuns
      BY RunMapAssumption DEF Init
  <2>4. QED
      BY <2>1, <2>2, <2>3 DEF Init, TypeOK
<1>3. EveryRunAccounted
    BY <1>1, <1>2, FS_EmptySet DEF EveryRunAccounted, InMap, Init
<1>4. OneCallback /\ ParentFound
    BY <1>1 DEF OneCallback, ParentFound, Idle
<1>5. SpansFollow
    BY <1>1 DEF SpansFollow, InMap, Idle, Unopened
<1>6. VerdictsShared /\ NestsInOneTrace
    BY <1>1 DEF VerdictsShared, NestsInOneTrace, Unopened
<1>7. QED
    BY <1>3, <1>4, <1>5, <1>6 DEF RunMapInv

\* RunMapInv is inductive.
THEOREM Invariance == Spec => []RunMapInv
<1>1. RunMapInv /\ [Next]_vars => RunMapInv'
    BY OneCallbackStep, SpansFollowStep, ParentFoundStep, VerdictsSharedStep, NestsStep,
       AccountedStep DEF RunMapInv
<1>2. QED
    BY InitInv, <1>1, PTL DEF Spec

\* However many runs are open at once, on however many threads, an open run is
\* in the map, in a callback's hands, finished, or counted in dropped_runs.
THEOREM RunsAccounted == Spec => []EveryRunAccounted
<1>1. RunMapInv => EveryRunAccounted
    BY DEF RunMapInv
<1>2. QED
    BY <1>1, Invariance, PTL

\* Whatever the shape of the tree, what is evicted and which thread a callback
\* comes on, an observation is in the trace of the one it nests under and has
\* its sampling verdict.
THEOREM RunsNest == Spec => []NestsInOneTrace
<1>1. RunMapInv => NestsInOneTrace
    BY DEF RunMapInv
<1>2. QED
    BY <1>1, Invariance, PTL

-----------------------------------------------------------------------------
(* A run's span lives as every span does.                                  *)

FateOf(s, placed) ==
    IF ~s.open THEN "unopened"
    ELSE IF s.sends = 1 THEN "sent"
    ELSE IF placed THEN "open" ELSE "withheld"

FateMap == [r \in Runs |-> FateOf(spans[r], r \in Placed)]

Traced == {r \in Runs : spans[r].traceSends > 0}

\* A step that moves one run changes no other run's fate.
LEMMA FateMoves ==
    ASSUME NEW r \in Runs,
           \A q \in Runs \ {r} : spans'[q] = spans[q] /\ (q \in Placed' <=> q \in Placed)
    PROVE  /\ FateMap' = [FateMap EXCEPT ![r] = FateOf(spans'[r], r \in Placed')]
           /\ Traced' \ {r} = Traced \ {r}
<1>1. FateMap' = [q \in Runs |-> FateOf(spans'[q], q \in Placed')]
    BY DEF FateMap
<1>2. \A q \in Runs \ {r} : FateOf(spans'[q], q \in Placed') = FateOf(spans[q], q \in Placed)
    BY DEF FateOf
<1>3. FateMap' = [FateMap EXCEPT ![r] = FateOf(spans'[r], r \in Placed')]
    BY <1>1, <1>2 DEF FateMap
<1>4. Traced' \ {r} = Traced \ {r}
    BY DEF Traced
<1>5. QED
    BY <1>3, <1>4

FateStays == FateMap' = FateMap /\ Traced' = Traced

FateBecomes(r, from, to) ==
    FateMap[r] = from /\ FateMap' = [FateMap EXCEPT ![r] = to] /\ Traced' = Traced

\* A step opens a span, or hands it or its trace over, or withholds it; or it
\* does nothing that the server would ever know of.
LEMMA FateStep ==
    ASSUME RunMapInv, [Next]_vars
    PROVE  \/ FateStays
           \/ \E r \in Runs : \/ FateBecomes(r, "unopened", "open")
                             \/ FateBecomes(r, "open", "sent")
                             \/ FateBecomes(r, "open", "withheld")
                             \/ /\ FateMap[r] = "open" /\ r \notin Traced
                                /\ FateMap' = FateMap /\ Traced' = Traced \cup {r}
<1>0. TypeOK
    BY DEF RunMapInv, EveryRunAccounted
<1>1. ASSUME spans' = spans, Placed' = Placed
      PROVE  FateStays
    BY <1>1 DEF FateStays, FateMap, Traced
<1>2. ASSUME NEW t \in Threads, NEW r \in Runs, NEW looks \in BOOLEAN,
             Start(t, r) \/ End(t, r, looks) \/ Get(t)
      PROVE  FateStays
  <2>1. spans' = spans
      BY <1>2 DEF Start, End, Get
  <2>2. Placed' = Placed
      BY <1>2, PlacedStays
  <2>3. QED
      BY <1>1, <2>1, <2>2
<1>3. ASSUME NEW t \in Threads, NEW r \in Runs, r = pc[t].run, Open(t)
      PROVE  FateStays \/ FateBecomes(r, "unopened", "open")
  <2>1. CASE enabled
    <3>1. PICK s \in SpanRecord : /\ spans' = [spans EXCEPT ![r] = s]
                                  /\ s.open /\ s.sends = 0 /\ s.traceSends = 0
      <4>1. PICK keep \in BOOLEAN : spans' = [spans EXCEPT ![r] = Opened(t, r, keep)]
          BY <1>3, <2>1 DEF Open
      <4> DEFINE o == Opened(t, r, keep)
      <4>2. o \in SpanRecord /\ o.open /\ o.sends = 0 /\ o.traceSends = 0
          BY <1>3, OpenedFacts DEF Open
      <4> HIDE DEF o
      <4>3. spans' = [spans EXCEPT ![r] = o]
          BY <4>1 DEF o
      <4>4. QED
          BY <4>2, <4>3
    <3>2. Placed' = Placed \cup {r} /\ ~spans[r].open /\ spans[r].traceSends = 0
        BY <1>3, <2>1, PlacedOpens, FollowsNow DEF Open, RunFollows, CallFollows, RunMapInv,
           OneCallback, Idle
    <3>3. spans'[r] = s /\ \A q \in Runs \ {r} : spans'[q] = spans[q]
        BY <1>0, <3>1 DEF TypeOK
    <3>4. /\ FateMap' = [FateMap EXCEPT ![r] = FateOf(spans'[r], r \in Placed')]
          /\ Traced' \ {r} = Traced \ {r}
        BY <3>2, <3>3, FateMoves
    <3>5. FateOf(spans'[r], r \in Placed') = "open" /\ FateMap[r] = "unopened"
        BY <3>1, <3>2, <3>3 DEF FateOf, FateMap
    <3>6. r \notin Traced /\ r \notin Traced'
        BY <3>1, <3>2, <3>3 DEF Traced
    <3>7. Traced' = Traced
        BY <3>4, <3>6
    <3>8. QED
        BY <3>4, <3>5, <3>7 DEF FateBecomes
  <2>2. CASE ~enabled
    <3>1. spans' = spans /\ Placed' = Placed
        BY <1>3, <2>2, PlacedOpens DEF Open
    <3>2. QED
        BY <1>1, <3>1
  <2>3. QED
      BY <2>1, <2>2
<1>4. ASSUME NEW t \in Threads, Put(t)
      PROVE  FateStays \/ \E r \in Runs : FateBecomes(r, "open", "withheld")
  <2>1. spans' = spans
      BY <1>4 DEF Put
  <2>2. CASE Placed' = Placed
      BY <1>1, <2>1, <2>2
  <2>3. ASSUME NEW e \in Runs, e \in Placed, Placed' = Placed \ {e}, spans[e].open
        PROVE  FateStays \/ FateBecomes(e, "open", "withheld")
    <3>1. FateMap' = [FateMap EXCEPT ![e] = FateOf(spans'[e], e \in Placed')] /\ Traced' = Traced
        BY <2>1, <2>3, FateMoves DEF Traced
    <3>2. CASE spans[e].sends = 1
      <4>1. FateOf(spans'[e], e \in Placed') = FateMap[e]
          BY <2>1, <2>3, <3>2 DEF FateOf, FateMap
      <4>2. QED
          BY <3>1, <4>1 DEF FateStays, FateMap
    <3>3. CASE spans[e].sends # 1
        BY <2>1, <2>3, <3>1, <3>3 DEF FateBecomes, FateOf, FateMap
    <3>4. QED
        BY <3>2, <3>3
  <2>4. QED
      BY <1>4, <2>2, <2>3, PlacedPuts
<1>5. ASSUME NEW t \in Threads, Pop(t)
      PROVE  FateStays
    BY <1>1, <1>5, PlacedPops DEF Pop
<1>6. ASSUME NEW t \in Threads, NEW r \in Runs, r = pc[t].run, Finish(t)
      PROVE  FateStays \/ FateBecomes(r, "open", "withheld")
  <2>1. /\ r \in Placed /\ spans[r].open /\ spans[r].sends = 0
        /\ Placed' = IF spans[r].sampled THEN Placed ELSE Placed \ {r}
      BY <1>6, PlacedEnds, FollowsNow DEF Finish, CallFollows, Holding
  <2>2. /\ spans'[r].open /\ spans'[r].sends = 0 /\ spans'[r].traceSends = spans[r].traceSends
        /\ \A q \in Runs \ {r} : spans'[q] = spans[q]
      BY <1>0, <1>6, <2>1 DEF Finish, TypeOK, SpanRecord
  <2>3. /\ FateMap' = [FateMap EXCEPT ![r] = FateOf(spans'[r], r \in Placed')]
        /\ Traced' = Traced /\ FateMap[r] = "open"
      BY <2>1, <2>2, FateMoves DEF Traced, FateMap, FateOf
  <2>4. CASE spans[r].sampled
    <3>1. FateOf(spans'[r], r \in Placed') = "open"
        BY <2>1, <2>2, <2>4 DEF FateOf
    <3>2. QED
        BY <2>3, <3>1 DEF FateStays, FateMap
  <2>5. CASE ~spans[r].sampled
    <3>1. FateOf(spans'[r], r \in Placed') = "withheld"
        BY <2>1, <2>2, <2>5 DEF FateOf
    <3>2. QED
        BY <2>3, <3>1 DEF FateBecomes
  <2>6. QED
      BY <2>4, <2>5
<1>7. ASSUME NEW t \in Threads, NEW r \in Runs, r = pc[t].run, EmitTrace(t)
      PROVE  \/ FateStays
             \/ /\ FateMap[r] = "open" /\ r \notin Traced
                /\ FateMap' = FateMap /\ Traced' = Traced \cup {r}
  <2>1. /\ Placed' = Placed /\ r \in Placed
        /\ spans[r].open /\ spans[r].sends = 0 /\ spans[r].traceSends = 0
    <3>1. pc[t] # Idle /\ pc[t].at \in Holding
        BY <1>7 DEF EmitTrace, Idle, Holding
    <3>2. QED
        BY <1>7, <3>1, PlacedStays, InCallback, FollowsNow DEF EmitTrace, CallFollows, Placed
  <2>2. /\ spans'[r].open /\ spans'[r].sends = 0
        /\ spans'[r].traceSends = IF enabled THEN 1 ELSE 0
        /\ \A q \in Runs \ {r} : spans'[q] = spans[q]
      BY <1>0, <1>7, <2>1 DEF EmitTrace, TypeOK, SpanRecord
  <2>3. FateMap' = FateMap /\ FateMap[r] = "open" /\ Traced' \ {r} = Traced \ {r}
    <3>1. /\ FateMap' = [FateMap EXCEPT ![r] = FateOf(spans'[r], r \in Placed')]
          /\ Traced' \ {r} = Traced \ {r}
        BY <2>1, <2>2, FateMoves
    <3>2. FateOf(spans'[r], r \in Placed') = "open" /\ FateMap[r] = "open"
        BY <2>1, <2>2 DEF FateOf, FateMap
    <3>3. QED
        BY <3>1, <3>2 DEF FateMap
  <2>4. r \notin Traced /\ (r \in Traced' <=> enabled)
      BY <2>1, <2>2 DEF Traced
  <2>5. QED
      BY <2>3, <2>4 DEF FateStays
<1>8. ASSUME NEW t \in Threads, NEW r \in Runs, r = pc[t].run, EmitObservation(t)
      PROVE  FateBecomes(r, "open", "sent") \/ FateBecomes(r, "open", "withheld")
  <2>1. /\ Placed' = Placed \ {r} /\ r \in Placed /\ spans[r].open /\ spans[r].sends = 0
      BY <1>8, PlacedEnds, FollowsNow DEF EmitObservation, Finish, CallFollows, Holding
  <2>2. /\ spans'[r].open /\ spans'[r].sends = (IF enabled THEN 1 ELSE 0)
        /\ spans'[r].traceSends = spans[r].traceSends
        /\ \A q \in Runs \ {r} : spans'[q] = spans[q]
      BY <1>0, <1>8, <2>1 DEF EmitObservation, TypeOK, SpanRecord
  <2>3. /\ FateMap' = [FateMap EXCEPT ![r] = FateOf(spans'[r], r \in Placed')]
        /\ Traced' = Traced /\ FateMap[r] = "open"
      BY <2>1, <2>2, FateMoves DEF Traced, FateMap, FateOf
  <2>4. FateOf(spans'[r], r \in Placed') = IF enabled THEN "sent" ELSE "withheld"
      BY <2>1, <2>2 DEF FateOf
  <2>5. QED
      BY <2>3, <2>4 DEF FateBecomes
<1>9. CASE Disable \/ UNCHANGED vars
    BY <1>1, <1>9 DEF Disable, vars, Placed, InHand
<1>10. QED
  <2>1. ASSUME NEW t \in Threads,
               Open(t) \/ Get(t) \/ Finish(t) \/ EmitTrace(t) \/ EmitObservation(t)
        PROVE  pc[t].run \in Runs
    <3>1. pc[t] # Idle
        BY <2>1 DEF Open, Get, Finish, EmitTrace, EmitObservation, Idle
    <3>2. QED
        BY <3>1, InCallback
  <2>2. QED
      BY NextCases, <1>2, <1>3, <1>4, <1>5, <1>6, <1>7, <1>8, <1>9, <2>1

\* The handler implements SpanLifecycle: whatever it evicts and in whatever
\* order runs end, a span is opened once, and then sent once or withheld, its
\* own trace before it.
THEOREM RunsImplementLifecycle == Spec => ImplementsLifecycle
<1>1. Init => Lifecycle!Init
    BY DEF Init, Lifecycle!Init, Fate, Unopened
<1>2. [r \in Runs |-> Fate(r)] = FateMap
    BY DEF Fate, FateMap, FateOf, Placed
<1>3. [r \in Runs |-> Fate(r)]' = FateMap'
    BY DEF Fate, FateMap, FateOf, Placed
<1>4. RunMapInv /\ [Next]_vars => [Lifecycle!Next]_(Lifecycle!lifecycleVars)
    BY <1>2, <1>3, FateStep DEF FateStays, FateBecomes, Traced, Lifecycle!Next, Lifecycle!Open,
       Lifecycle!Send, Lifecycle!Withhold, Lifecycle!SendTrace, Lifecycle!Become,
       Lifecycle!lifecycleVars
<1>5. QED
    BY <1>1, <1>4, Invariance, PTL DEF Spec, ImplementsLifecycle, Lifecycle!Spec

-----------------------------------------------------------------------------
(* Once every run has ended, what was sent refers to nothing that was not. *)

\* The run that a trace is named after is in it.
TracesOwned ==
    \A r \in Runs : spans[r].open /\ spans[r].trace \in Runs => OwnsTrace(spans[r].trace)

\* A callback that emits does so for a sampled span, and for the trace first...
CallSends(at, s, own) ==
    /\ at \in {"get", "pop"} => ~s.finished
    /\ at \in {"trace", "observation"} => s.sampled
    /\ at = "trace" => own
    /\ at = "observation" /\ own => s.traceSends = 1

\* ... and has sent both when it returns.
RunSent(rep, s, own) ==
    rep = "ended" /\ s.finished =>
        /\ s.sends = (IF s.sampled THEN 1 ELSE 0)
        /\ own => s.traceSends = s.sends

SentOnEnd ==
    enabled =>
        /\ \A r \in Runs : RunSent(reported[r], spans[r], OwnsTrace(r))
        /\ \A t \in Threads : pc[t] # Idle =>
            CallSends(pc[t].at, spans[pc[t].run], OwnsTrace(pc[t].run))

\* A span that opens joins an open trace, or begins one.
LEMMA TracesOwnedStep ==
    ASSUME RunMapInv, TracesOwned, [Next]_vars
    PROVE  TracesOwned'
<1>0. /\ DOMAIN spans = Runs
      /\ \A q \in Runs : spans[q].open => spans[q].trace = Outer \/ spans[q].trace \in Runs
      /\ \A q \in Runs : spans[q].open /\ spans[q].trace \in Runs => spans[spans[q].trace].open
      /\ Outer \notin Runs
    BY RunMapAssumption DEF RunMapInv, EveryRunAccounted, TypeOK, VerdictsShared
<1>1. CASE \A q \in Runs : /\ spans'[q].open = spans[q].open
                           /\ spans'[q].trace = spans[q].trace
    BY <1>1 DEF TracesOwned, OwnsTrace
<1>2. ASSUME NEW t \in Threads, NEW r \in Runs, NEW keep \in BOOLEAN,
             pc[t].at = "open", r = pc[t].run,
             spans' = [spans EXCEPT ![r] = Opened(t, r, keep)]
      PROVE  TracesOwned'
  <2> DEFINE o == Opened(t, r, keep)
  <2>1. /\ ~spans[r].open /\ o.open
        /\ \/ \E p \in Runs : spans[p].open /\ o.trace = spans[p].trace
           \/ o.trace = Outer
           \/ o.trace = r
      BY <1>2, OpenedFacts
  <2> HIDE DEF o
  <2>2. spans'[r] = o /\ \A q \in Runs : q # r => spans'[q] = spans[q]
      BY <1>0, <1>2 DEF o
  <2>3. ASSUME NEW q \in Runs, spans[q].open, spans[q].trace \in Runs
        PROVE  spans[q].trace # r /\ spans'[spans[q].trace].trace = spans[q].trace
      BY <1>0, <2>1, <2>2, <2>3 DEF TracesOwned, OwnsTrace
  <2>4. SUFFICES ASSUME NEW q \in Runs, spans'[q].open, spans'[q].trace \in Runs
                 PROVE  spans'[spans'[q].trace].trace = spans'[q].trace
      BY DEF TracesOwned, OwnsTrace
  <2>5. CASE q # r
      BY <2>2, <2>3, <2>4, <2>5
  <2>6. CASE q = r
      BY <1>0, <2>1, <2>2, <2>3, <2>4, <2>6
  <2>7. QED
      BY <2>5, <2>6
<1>3. QED
    BY <1>1, <1>2, SpanMoves

\* A step of thread t on run r need only be looked at there.
LEMMA SendsLocally ==
    ASSUME RunMapInv, SentOnEnd, enabled, NEW t \in Threads, NEW r \in Runs,
           NEW c, c = Idle \/ c.run = r, pc' = [pc EXCEPT ![t] = c],
           \A u \in Threads : u # t /\ pc[u] # Idle => pc[u].run # r,
           \A q \in Runs \ {r} : spans'[q] = spans[q] /\ reported'[q] = reported[q],
           RunSent(reported'[r], spans'[r], OwnsTrace(r)'),
           c # Idle => CallSends(c.at, spans'[r], OwnsTrace(r)')
    PROVE  SentOnEnd'
<1>1. DOMAIN pc = Threads
    BY DEF RunMapInv, EveryRunAccounted, TypeOK
<1>2. pc'[t] = c /\ \A u \in Threads : u # t => pc'[u] = pc[u]
    BY <1>1
<1>3. \A q \in Runs : RunSent(reported'[q], spans'[q], spans'[q].trace = q)
    BY DEF SentOnEnd, OwnsTrace
<1>4. ASSUME NEW u \in Threads, pc'[u] # Idle
      PROVE  CallSends(pc'[u].at, spans'[pc'[u].run], spans'[pc'[u].run].trace = pc'[u].run)
  <2>1. CASE u = t
      BY <1>2, <1>4, <2>1 DEF OwnsTrace
  <2>2. CASE u # t
    <3>1. PICK q \in Runs \ {r} : q = pc[u].run /\ pc'[u] = pc[u]
        BY <1>2, <1>4, <2>2, InCallback
    <3>2. CallSends(pc[u].at, spans[q], spans[q].trace = q)
        BY <1>2, <1>4, <2>2, <3>1 DEF SentOnEnd, OwnsTrace
    <3>3. QED
        BY <3>1, <3>2
  <2>3. QED
      BY <2>1, <2>2
<1>5. QED
    BY <1>3, <1>4 DEF SentOnEnd, OwnsTrace


\* Every callback that emits sends what it has to.
LEMMA SentOnEndStep ==
    ASSUME RunMapInv, SentOnEnd, enabled, [Next]_vars
    PROVE  SentOnEnd'
<1>0. TypeOK
    BY DEF RunMapInv, EveryRunAccounted
<1>1. ASSUME NEW t \in Threads, NEW r \in Runs, Start(t, r)
      PROVE  SentOnEnd'
  <2>1. PICK c : c.run = r /\ c.at \in {"open"} /\ pc' = [pc EXCEPT ![t] = c]
    <3> DEFINE d == [at |-> "open", run |-> r, parent |-> Parent(r)]
    <3>1. d.run = r /\ d.at \in {"open"} /\ pc' = [pc EXCEPT ![t] = d]
        BY <1>1 DEF Start
    <3> HIDE DEF d
    <3>2. QED
        BY <3>1
  <2>2. /\ reported' = [reported EXCEPT ![r] = "starting"] /\ reported[r] = "new"
        /\ spans' = spans
      BY <1>1 DEF Start
  <2>3. \A u \in Threads : u # t /\ pc[u] # Idle => pc[u].run # r
      BY <2>2 DEF RunMapInv, OneCallback
  <2>4. RunFollows(spans[r], reported[r], r \in Range(runs))
      BY FollowsNow
  <2>5. RunSent(reported'[r], spans'[r], OwnsTrace(r)') /\ CallSends(c.at, spans'[r], OwnsTrace(r)')
      BY <1>0, <2>1, <2>2, <2>4 DEF RunFollows, RunSent, CallSends, TypeOK
  <2>6. \A q \in Runs \ {r} : spans'[q] = spans[q] /\ reported'[q] = reported[q]
      BY <1>0, <2>2 DEF TypeOK
  <2>7. QED
      BY <2>1, <2>3, <2>5, <2>6, SendsLocally
<1>2. ASSUME NEW t \in Threads, NEW r \in Runs, NEW looks \in BOOLEAN, End(t, r, looks)
      PROVE  SentOnEnd'
  <2>1. PICK c : c.run = r /\ c.at \in {"get", "pop"} /\ pc' = [pc EXCEPT ![t] = c]
    <3> DEFINE d == [at |-> IF looks THEN "get" ELSE "pop", run |-> r, parent |-> None]
    <3>1. d.run = r /\ d.at \in {"get", "pop"} /\ pc' = [pc EXCEPT ![t] = d]
        BY <1>2 DEF End
    <3> HIDE DEF d
    <3>2. QED
        BY <3>1
  <2>2. /\ reported' = [reported EXCEPT ![r] = "ending"] /\ reported[r] = "started"
        /\ spans' = spans
      BY <1>2 DEF End
  <2>3. \A u \in Threads : u # t /\ pc[u] # Idle => pc[u].run # r
      BY <2>2 DEF RunMapInv, OneCallback
  <2>4. RunFollows(spans[r], reported[r], r \in Range(runs))
      BY FollowsNow
  <2>5. RunSent(reported'[r], spans'[r], OwnsTrace(r)') /\ CallSends(c.at, spans'[r], OwnsTrace(r)')
      BY <1>0, <2>1, <2>2, <2>4 DEF RunFollows, RunSent, CallSends, TypeOK
  <2>6. \A q \in Runs \ {r} : spans'[q] = spans[q] /\ reported'[q] = reported[q]
      BY <1>0, <2>2 DEF TypeOK
  <2>7. QED
      BY <2>1, <2>3, <2>5, <2>6, SendsLocally
<1>3. ASSUME NEW t \in Threads, Open(t)
      PROVE  SentOnEnd'
  <2>1. PICK r \in Runs : /\ r = pc[t].run /\ pc[t] # Idle
                          /\ \A u \in Threads : u # t /\ pc[u] # Idle => pc[u].run # r
    <3>1. pc[t] # Idle
        BY <1>3 DEF Open, Idle
    <3>2. QED
        BY <3>1, InCallback
  <2>2. /\ CallFollows("open", spans[r], r \in Range(runs))
        /\ CallSends("open", spans[r], OwnsTrace(r))
        /\ reported[r] = "starting" /\ spans[r] \in SpanRecord
    <3>1. pc[t].at = "open"
        BY <1>3 DEF Open
    <3>2. CallSends(pc[t].at, spans[r], OwnsTrace(r))
        BY <1>0, <2>1 DEF SentOnEnd
    <3>3. QED
        BY <1>0, <2>1, <3>1, <3>2, CallNow
  <2>3. reported' = reported
      BY <1>3 DEF Open
  <2>4. PICK c \in Callback : c.run = r /\ c.at = "put" /\ pc' = [pc EXCEPT ![t] = c]
      BY <1>0, <1>3, <2>1, GotoTo DEF Open, Steps
  <2>5. \A q \in Runs \ {r} : spans'[q] = spans[q]
      BY <1>0, <1>3, <2>1 DEF Open, TypeOK
  <2>6. RunSent(reported'[r], spans'[r], OwnsTrace(r)') /\ CallSends(c.at, spans'[r], OwnsTrace(r)')
      BY <2>2, <2>3, <2>4 DEF RunSent, CallSends
  <2>7. QED
      BY <2>1, <2>3, <2>4, <2>5, <2>6, SendsLocally
<1>4. ASSUME NEW t \in Threads, Put(t)
      PROVE  SentOnEnd'
  <2>1. PICK r \in Runs : /\ r = pc[t].run /\ pc[t] # Idle
                          /\ \A u \in Threads : u # t /\ pc[u] # Idle => pc[u].run # r
    <3>1. pc[t] # Idle
        BY <1>4 DEF Put, Idle
    <3>2. QED
        BY <3>1, InCallback
  <2>2. /\ CallFollows("put", spans[r], r \in Range(runs))
        /\ CallSends("put", spans[r], OwnsTrace(r))
        /\ reported[r] = "starting" /\ spans[r] \in SpanRecord
    <3>1. pc[t].at = "put"
        BY <1>4 DEF Put
    <3>2. CallSends(pc[t].at, spans[r], OwnsTrace(r))
        BY <1>0, <2>1 DEF SentOnEnd
    <3>3. QED
        BY <1>0, <2>1, <3>1, <3>2, CallNow
  <2>3. /\ pc' = [pc EXCEPT ![t] = Idle] /\ reported' = [reported EXCEPT ![r] = "started"]
        /\ spans' = spans
      BY <1>4, <2>1 DEF Put, Done
  <2>4. RunSent(reported'[r], spans'[r], OwnsTrace(r)')
      BY <1>0, <2>3 DEF RunSent, TypeOK
  <2>5. \A q \in Runs \ {r} : reported'[q] = reported[q]
      BY <1>0, <2>3 DEF TypeOK
  <2>6. QED
      BY <2>1, <2>3, <2>4, <2>5, SendsLocally
<1>5. ASSUME NEW t \in Threads, Get(t)
      PROVE  SentOnEnd'
  <2>1. PICK r \in Runs : /\ r = pc[t].run /\ pc[t] # Idle
                          /\ \A u \in Threads : u # t /\ pc[u] # Idle => pc[u].run # r
    <3>1. pc[t] # Idle
        BY <1>5 DEF Get, Idle
    <3>2. QED
        BY <3>1, InCallback
  <2>2. /\ CallFollows("get", spans[r], r \in Range(runs))
        /\ CallSends("get", spans[r], OwnsTrace(r))
        /\ reported[r] = "ending" /\ spans[r] \in SpanRecord
    <3>1. pc[t].at = "get"
        BY <1>5 DEF Get
    <3>2. CallSends(pc[t].at, spans[r], OwnsTrace(r))
        BY <1>0, <2>1 DEF SentOnEnd
    <3>3. QED
        BY <1>0, <2>1, <3>1, <3>2, CallNow
  <2>3. spans' = spans
      BY <1>5 DEF Get
  <2>4. CASE InMap(r)
    <3>1. reported' = reported /\ Goto(t, "pop") /\ "pop" \in Steps
        BY <1>5, <2>1, <2>4 DEF Get, Steps
    <3>2. PICK c \in Callback : c.run = r /\ c.at = "pop" /\ pc' = [pc EXCEPT ![t] = c]
        BY <1>0, <2>1, <3>1, GotoTo
    <3>3. RunSent(reported'[r], spans'[r], OwnsTrace(r)') /\ CallSends(c.at, spans'[r], OwnsTrace(r)')
        BY <2>2, <2>3, <3>1, <3>2 DEF RunSent, CallSends
    <3>4. QED
        BY <2>1, <2>3, <3>1, <3>2, <3>3, SendsLocally
  <2>5. CASE ~InMap(r)
    <3>1. pc' = [pc EXCEPT ![t] = Idle] /\ reported' = [reported EXCEPT ![r] = "ended"]
        BY <1>5, <2>1, <2>5 DEF Get, Done
    <3>2. RunSent(reported'[r], spans'[r], OwnsTrace(r)')
        BY <2>2, <2>3 DEF RunSent, CallSends
    <3>3. \A q \in Runs \ {r} : reported'[q] = reported[q]
        BY <1>0, <3>1 DEF TypeOK
    <3>4. QED
        BY <2>1, <2>3, <3>1, <3>2, <3>3, SendsLocally
  <2>6. QED
      BY <2>4, <2>5
<1>6. ASSUME NEW t \in Threads, Pop(t)
      PROVE  SentOnEnd'
  <2>1. PICK r \in Runs : /\ r = pc[t].run /\ pc[t] # Idle
                          /\ \A u \in Threads : u # t /\ pc[u] # Idle => pc[u].run # r
    <3>1. pc[t] # Idle
        BY <1>6 DEF Pop, Idle
    <3>2. QED
        BY <3>1, InCallback
  <2>2. /\ CallFollows("pop", spans[r], r \in Range(runs))
        /\ CallSends("pop", spans[r], OwnsTrace(r))
        /\ reported[r] = "ending" /\ spans[r] \in SpanRecord
    <3>1. pc[t].at = "pop"
        BY <1>6 DEF Pop
    <3>2. CallSends(pc[t].at, spans[r], OwnsTrace(r))
        BY <1>0, <2>1 DEF SentOnEnd
    <3>3. QED
        BY <1>0, <2>1, <3>1, <3>2, CallNow
  <2>3. spans' = spans
      BY <1>6 DEF Pop
  <2>4. CASE InMap(r)
    <3>1. reported' = reported /\ Goto(t, "finish") /\ "finish" \in Steps
        BY <1>6, <2>1, <2>4 DEF Pop, Popped, Steps
    <3>2. PICK c \in Callback : c.run = r /\ c.at = "finish" /\ pc' = [pc EXCEPT ![t] = c]
        BY <1>0, <2>1, <3>1, GotoTo
    <3>3. RunSent(reported'[r], spans'[r], OwnsTrace(r)') /\ CallSends(c.at, spans'[r], OwnsTrace(r)')
        BY <2>2, <2>3, <3>1, <3>2 DEF RunSent, CallSends
    <3>4. QED
        BY <2>1, <2>3, <3>1, <3>2, <3>3, SendsLocally
  <2>5. CASE ~InMap(r)
    <3>1. pc' = [pc EXCEPT ![t] = Idle] /\ reported' = [reported EXCEPT ![r] = "ended"]
        BY <1>6, <2>1, <2>5 DEF Pop, Popped, Done
    <3>2. RunSent(reported'[r], spans'[r], OwnsTrace(r)')
        BY <2>2, <2>3 DEF RunSent, CallSends
    <3>3. \A q \in Runs \ {r} : reported'[q] = reported[q]
        BY <1>0, <3>1 DEF TypeOK
    <3>4. QED
        BY <2>1, <2>3, <3>1, <3>2, <3>3, SendsLocally
  <2>6. QED
      BY <2>4, <2>5
<1>7. ASSUME NEW t \in Threads, Finish(t)
      PROVE  SentOnEnd'
  <2>1. PICK r \in Runs : /\ r = pc[t].run /\ pc[t] # Idle
                          /\ \A u \in Threads : u # t /\ pc[u] # Idle => pc[u].run # r
    <3>1. pc[t] # Idle
        BY <1>7 DEF Finish, Idle
    <3>2. QED
        BY <3>1, InCallback
  <2>2. /\ CallFollows("finish", spans[r], r \in Range(runs))
        /\ CallSends("finish", spans[r], OwnsTrace(r))
        /\ reported[r] = "ending" /\ spans[r] \in SpanRecord
    <3>1. pc[t].at = "finish"
        BY <1>7 DEF Finish
    <3>2. CallSends(pc[t].at, spans[r], OwnsTrace(r))
        BY <1>0, <2>1 DEF SentOnEnd
    <3>3. QED
        BY <1>0, <2>1, <3>1, <3>2, CallNow
  <2>3. PICK s \in SpanRecord : /\ s.sends = 0 /\ s.traceSends = 0
                                /\ s.trace = spans[r].trace /\ s.sampled = spans[r].sampled
                                /\ spans' = [spans EXCEPT ![r] = s]
    <3> DEFINE s == [spans[r] EXCEPT !.finished = TRUE]
    <3>1. /\ s \in SpanRecord /\ s.sends = 0 /\ s.traceSends = 0
          /\ s.trace = spans[r].trace /\ s.sampled = spans[r].sampled
        BY <2>2 DEF SpanRecord, CallFollows, Holding, CallSends
    <3>2. spans' = [spans EXCEPT ![r] = s]
        BY <1>7, <2>1 DEF Finish
    <3> HIDE DEF s
    <3>3. QED
        BY <3>1, <3>2
  <2>4. /\ spans'[r] = s /\ \A q \in Runs \ {r} : spans'[q] = spans[q]
        /\ OwnsTrace(r)' = OwnsTrace(r)
      BY <1>0, <2>3 DEF TypeOK, OwnsTrace
  <2>5. CASE ~spans[r].sampled
    <3>1. pc' = [pc EXCEPT ![t] = Idle] /\ reported' = [reported EXCEPT ![r] = "ended"]
        BY <1>7, <2>1, <2>5 DEF Finish, Done
    <3>2. RunSent(reported'[r], spans'[r], OwnsTrace(r)')
        BY <2>3, <2>4, <2>5 DEF RunSent
    <3>3. \A q \in Runs \ {r} : reported'[q] = reported[q]
        BY <1>0, <3>1 DEF TypeOK
    <3>4. QED
        BY <2>1, <2>4, <3>1, <3>2, <3>3, SendsLocally
  <2>6. CASE spans[r].sampled
    <3>1. PICK step \in {"trace", "observation"} :
            /\ reported' = reported /\ Goto(t, step) /\ step \in Steps
            /\ (step = "trace") <=> OwnsTrace(r)
        BY <1>7, <2>1, <2>6 DEF Finish, Steps
    <3>2. PICK c \in Callback : c.run = r /\ c.at = step /\ pc' = [pc EXCEPT ![t] = c]
        BY <1>0, <2>1, <3>1, GotoTo
    <3>3. RunSent(reported'[r], spans'[r], OwnsTrace(r)') /\ CallSends(c.at, spans'[r], OwnsTrace(r)')
        BY <2>2, <2>3, <2>4, <2>6, <3>1, <3>2 DEF RunSent, CallSends
    <3>4. QED
        BY <2>1, <2>4, <3>1, <3>2, <3>3, SendsLocally
  <2>7. QED
      BY <2>5, <2>6
<1>8. ASSUME NEW t \in Threads, EmitTrace(t)
      PROVE  SentOnEnd'
  <2>1. PICK r \in Runs : /\ r = pc[t].run /\ pc[t] # Idle
                          /\ \A u \in Threads : u # t /\ pc[u] # Idle => pc[u].run # r
    <3>1. pc[t] # Idle
        BY <1>8 DEF EmitTrace, Idle
    <3>2. QED
        BY <3>1, InCallback
  <2>2. /\ CallFollows("trace", spans[r], r \in Range(runs))
        /\ CallSends("trace", spans[r], OwnsTrace(r))
        /\ reported[r] = "ending" /\ spans[r] \in SpanRecord
    <3>1. pc[t].at = "trace"
        BY <1>8 DEF EmitTrace
    <3>2. CallSends(pc[t].at, spans[r], OwnsTrace(r))
        BY <1>0, <2>1 DEF SentOnEnd
    <3>3. QED
        BY <1>0, <2>1, <3>1, <3>2, CallNow
  <2>3. PICK s \in SpanRecord : /\ s.traceSends = 1
                                /\ s.trace = spans[r].trace /\ s.sampled = spans[r].sampled
                                /\ spans' = [spans EXCEPT ![r] = s]
    <3> DEFINE s == [spans[r] EXCEPT !.traceSends = IF enabled THEN @ + 1 ELSE @]
    <3>1. /\ s \in SpanRecord /\ s.traceSends = 1
          /\ s.trace = spans[r].trace /\ s.sampled = spans[r].sampled
        BY <2>2 DEF SpanRecord, CallFollows, Holding, CallSends
    <3>2. spans' = [spans EXCEPT ![r] = s]
        BY <1>8, <2>1 DEF EmitTrace
    <3> HIDE DEF s
    <3>3. QED
        BY <3>1, <3>2
  <2>4. /\ spans'[r] = s /\ \A q \in Runs \ {r} : spans'[q] = spans[q]
        /\ OwnsTrace(r)' = OwnsTrace(r)
      BY <1>0, <2>3 DEF TypeOK, OwnsTrace
  <2>5. PICK c \in Callback : c.run = r /\ c.at = "observation" /\ pc' = [pc EXCEPT ![t] = c]
      BY <1>0, <1>8, <2>1, GotoTo DEF EmitTrace, Steps
  <2>6. reported' = reported
      BY <1>8 DEF EmitTrace
  <2>7. RunSent(reported'[r], spans'[r], OwnsTrace(r)') /\ CallSends(c.at, spans'[r], OwnsTrace(r)')
      BY <2>2, <2>3, <2>4, <2>5, <2>6 DEF RunSent, CallSends
  <2>8. QED
      BY <2>1, <2>4, <2>5, <2>6, <2>7, SendsLocally
<1>9. ASSUME NEW t \in Threads, EmitObservation(t)
      PROVE  SentOnEnd'
  <2>1. PICK r \in Runs : /\ r = pc[t].run /\ pc[t] # Idle
                          /\ \A u \in Threads : u # t /\ pc[u] # Idle => pc[u].run # r
    <3>1. pc[t] # Idle
        BY <1>9 DEF EmitObservation, Idle
    <3>2. QED
        BY <3>1, InCallback
  <2>2. /\ CallFollows("observation", spans[r], r \in Range(runs))
        /\ CallSends("observation", spans[r], OwnsTrace(r))
        /\ reported[r] = "ending" /\ spans[r] \in SpanRecord
    <3>1. pc[t].at = "observation"
        BY <1>9 DEF EmitObservation
    <3>2. CallSends(pc[t].at, spans[r], OwnsTrace(r))
        BY <1>0, <2>1 DEF SentOnEnd
    <3>3. QED
        BY <1>0, <2>1, <3>1, <3>2, CallNow
  <2>3. PICK s \in SpanRecord : /\ s.sends = 1 /\ s.traceSends = spans[r].traceSends
                                /\ s.trace = spans[r].trace /\ s.sampled = spans[r].sampled
                                /\ spans' = [spans EXCEPT ![r] = s]
    <3> DEFINE s == [spans[r] EXCEPT !.sends = IF enabled THEN @ + 1 ELSE @]
    <3>1. /\ s \in SpanRecord /\ s.sends = 1 /\ s.traceSends = spans[r].traceSends
          /\ s.trace = spans[r].trace /\ s.sampled = spans[r].sampled
        BY <2>2 DEF SpanRecord, CallFollows, Holding, CallSends
    <3>2. spans' = [spans EXCEPT ![r] = s]
        BY <1>9, <2>1 DEF EmitObservation
    <3> HIDE DEF s
    <3>3. QED
        BY <3>1, <3>2
  <2>4. /\ spans'[r] = s /\ \A q \in Runs \ {r} : spans'[q] = spans[q]
        /\ OwnsTrace(r)' = OwnsTrace(r)
      BY <1>0, <2>3 DEF TypeOK, OwnsTrace
  <2>5. pc' = [pc EXCEPT ![t] = Idle] /\ reported' = [reported EXCEPT ![r] = "ended"]
      BY <1>9, <2>1 DEF EmitObservation, Done
  <2>6. RunSent(reported'[r], spans'[r], OwnsTrace(r)')
      BY <2>2, <2>3, <2>4 DEF RunSent, CallSends
  <2>7. \A q \in Runs \ {r} : reported'[q] = reported[q]
      BY <1>0, <2>5 DEF TypeOK
  <2>8. QED
      BY <2>1, <2>4, <2>5, <2>6, <2>7, SendsLocally
<1>10. CASE Disable
    BY <1>10 DEF Disable, SentOnEnd
<1>11. CASE UNCHANGED vars
    BY <1>11 DEF vars, threadVars, SentOnEnd, OwnsTrace
<1>12. QED
    BY NextCases, <1>1, <1>2, <1>3, <1>4, <1>5, <1>6, <1>7, <1>8, <1>9, <1>10, <1>11

ReferenceInv == RunMapInv /\ TracesOwned /\ SentOnEnd

\* The invariant of what is sent holds in every reachable state.
LEMMA ReferenceInvariance == Spec => []ReferenceInv
<1>1. Init => TracesOwned /\ SentOnEnd
  <2>1. SUFFICES ASSUME Init
                 PROVE  TracesOwned /\ SentOnEnd
      OBVIOUS
  <2>2. /\ \A r \in Runs : spans[r].open = FALSE /\ spans[r].finished = FALSE
        /\ \A t \in Threads : pc[t] = Idle
      BY <2>1 DEF Init, Unopened
  <2>3. QED
      BY <2>2 DEF TracesOwned, SentOnEnd, RunSent
<1>2. RunMapInv /\ TracesOwned /\ SentOnEnd /\ [Next]_vars => TracesOwned' /\ SentOnEnd'
  <2>1. ASSUME [Next]_vars, enabled'
        PROVE  enabled
      BY <2>1, NextCases DEF Disable, Open, Put, Get, Pop, Finish, EmitTrace, EmitObservation,
         Start, End, vars, threadVars
  <2>2. ASSUME ~enabled'
        PROVE  SentOnEnd'
      BY <2>2 DEF SentOnEnd
  <2>3. QED
      BY <2>1, <2>2, TracesOwnedStep, SentOnEndStep
<1>3. QED
    BY <1>1, <1>2, Invariance, PTL DEF Spec, ReferenceInv

\* Nothing is lost while dropped_runs is zero.
LEMMA NothingLost ==
    ASSUME RunMapInv, dropped = 0
    PROVE  Lost = {}
<1>1. IsFiniteSet(Lost)
    BY RunMapAssumption, FS_Subset DEF Lost
<1>2. Cardinality(Lost) = 0
    BY DEF RunMapInv, EveryRunAccounted
<1>3. QED
    BY <1>1, <1>2, FS_EmptySet

\* When all is over, and nothing was dropped, every open span was finished.
LEMMA AllFinished ==
    ASSUME RunMapInv, AllOver, dropped = 0, NEW r \in Runs, spans[r].open
    PROVE  spans[r].finished /\ reported[r] = "ended"
<1>1. reported[r] = "ended"
    BY FollowsNow DEF AllOver, RunFollows
<1>2. r \notin Range(runs)
    BY <1>1, FollowsNow DEF RunFollows
<1>3. r \notin InHand
  <2>1. SUFFICES ASSUME NEW t \in Threads, pc[t].run = r, pc[t].at \in Holding
                 PROVE  FALSE
      BY DEF InHand, Holding
  <2>2. pc[t] # Idle
      BY <2>1 DEF Idle, Holding
  <2>3. reported[r] \in {"starting", "ending"}
      BY <2>1, <2>2 DEF RunMapInv, OneCallback
  <2>4. QED
      BY <1>1, <2>3
<1>4. QED
    BY <1>1, <1>2, <1>3, NothingLost DEF Lost

\* Once on_chain_end() was called for every run and if dropped_runs is zero,
\* finish_span() has sent the trace and the parent of every observation it has
\* sent, whatever threads ended the runs in whatever order.
THEOREM ReferencesAreSent == Spec => []ReferencesResolve
<1>1. ASSUME ReferenceInv
      PROVE  ReferencesResolve
  <2> SUFFICES ASSUME AllOver, enabled, dropped = 0, NEW r \in Runs, spans[r].open
               PROVE  /\ spans[r].sends = (IF spans[r].sampled THEN 1 ELSE 0)
                      /\ OwnsTrace(r) => spans[r].traceSends = spans[r].sends
                      /\ spans[r].sends = 1 /\ spans[r].parent \in Runs
                           => spans[spans[r].parent].sends = 1
                      /\ spans[r].sends = 1 /\ spans[r].trace \in Runs
                           => spans[spans[r].trace].traceSends = 1
      BY DEF ReferencesResolve
  <2>1. RunMapInv /\ TracesOwned /\ SentOnEnd
      BY <1>1 DEF ReferenceInv
  <2>2. ASSUME NEW q \in Runs, spans[q].open
        PROVE  /\ spans[q].sends = (IF spans[q].sampled THEN 1 ELSE 0)
               /\ OwnsTrace(q) => spans[q].traceSends = spans[q].sends
      BY <2>1, <2>2, AllFinished DEF SentOnEnd, RunSent
  <2>3. spans[r].parent \in Runs
          => spans[spans[r].parent].open /\ spans[spans[r].parent].sampled = spans[r].sampled
      BY <2>1, RunMapAssumption DEF RunMapInv, NestsInOneTrace
  <2>4. spans[r].trace \in Runs
          => /\ spans[spans[r].trace].open /\ spans[spans[r].trace].sampled = spans[r].sampled
             /\ OwnsTrace(spans[r].trace)
      BY <2>1, RunMapAssumption DEF RunMapInv, VerdictsShared, TracesOwned
  <2>5. QED
      BY <2>2, <2>3, <2>4
<1>2. QED
    BY <1>1, ReferenceInvariance, PTL

=============================================================================
