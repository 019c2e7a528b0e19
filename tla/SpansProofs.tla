----------------------------- MODULE SpansProofs -----------------------------
(***************************************************************************)
(* Theorems about Spans, for any tasks and generators, and any number and  *)
(* depth of spans.                                                         *)
(***************************************************************************)
EXTENDS Spans, TLAPS

-----------------------------------------------------------------------------
(* The inductive invariant.                                                *)

\* The numbers of the spans that were opened.
Known == 1..NumSpans

\* A context names spans that were opened, and one observation to nest under
\* and to annotate.
KnownContext(c) ==
    /\ c.trace \in Known \cup {None}
    /\ c.parent \in Known \cup {None}
    /\ c.observation = c.parent

ContextsAreKnown ==
    /\ KnownContext(snap)
    /\ \A t \in Tasks : /\ KnownContext(context[t]) /\ KnownContext(base[t])
                        /\ \A i \in DOMAIN stack[t] : KnownContext(stack[t][i].saved)

\* What task t was in, and is again when it has left all but i of its scopes.
Level(t, i) == IF i < Len(stack[t]) THEN stack[t][i + 1].saved ELSE context[t]

\* A scope that makes a trace current: an adopted one, or a trace's own span.
Sets(f) == f.kind = "adopt" \/ Owns(f.span)

TraceSet(f) == IF f.kind = "adopt" THEN f.trace ELSE f.span

\* The trace at a level is that of the innermost scope below it that sets one.
LevelTrace(t, i) ==
    \E j \in 0..i :
        /\ \A k \in 1..i : k > j => ~Sets(stack[t][k])
        /\ j > 0 => Sets(stack[t][j])
        /\ Level(t, i).trace = IF j = 0 THEN base[t].trace ELSE TraceSet(stack[t][j])

LevelsFollowScopes ==
    \A t \in Tasks : \A i \in 0..Len(stack[t]) :
        /\ Level(t, i).parent = IF i = 0 THEN base[t].parent ELSE stack[t][i].span
        /\ LevelTrace(t, i)

\* A scope is in use: its span was opened and has not ended.
InUse(f) ==
    IF f.kind = "adopt" THEN {f.span, f.trace} \subseteq Known \cup {None}
    ELSE /\ f.span \in Known /\ ~spans[f.span].ended
         /\ IF f.kind = "call" THEN \A g \in Gens : gens[g].span # f.span
            ELSE f.gen \in Gens /\ gens[f.gen] = [state |-> "running", span |-> f.span]

ScopesAreInUse ==
    \A t \in Tasks : \A i \in DOMAIN stack[t] : InUse(stack[t][i])

\* Scope i of task t is that of a call or a generator with span s.
Holds(t, i, s) ==
    i \in DOMAIN stack[t] /\ stack[t][i].kind # "adopt" /\ stack[t][i].span = s

\* A span is entered by one scope at a time.
EnteredOnce ==
    \A t, u \in Tasks : \A i \in DOMAIN stack[t], k \in DOMAIN stack[u] :
        Holds(t, i, stack[u][k].span) /\ Holds(u, k, stack[u][k].span) => t = u /\ i = k

\* Each generator that was started instrumented has a span of its own.
GeneratorsOwnSpans ==
    /\ \A g \in Gens :
        /\ gens[g].state \in {"fresh", "bare"} => gens[g].span = None
        /\ gens[g].state \notin {"fresh", "bare"} => gens[g].span \in Known
        /\ gens[g].state \in {"running", "suspended"} => ~spans[gens[g].span].ended
    /\ \A g, h \in Gens : gens[g].span = gens[h].span /\ gens[g].span # None => g = h

\* Somebody will end a span that has not ended.
SomebodyEnds ==
    \A s \in Known : ~spans[s].ended =>
        \/ \E t \in Tasks : \E i \in DOMAIN stack[t] : Holds(t, i, s)
        \/ \E g \in Gens : gens[g] = [state |-> "suspended", span |-> s]

NothingBeforeBegin ==
    \A t \in Tasks : t \notin begun => stack[t] = <<>> /\ closing[t] = <<>>

\* The root of a trace decides for all of it.
OneVerdict ==
    \A s \in Known : spans[s].sampled = spans[spans[s].trace].sampled

\* Task t is about to hand over the observation of span s, maybe after its trace.
Closes(t, s) ==
    \/ closing[t] = <<<<"observation", s>>>>
    \/ closing[t] = <<<<"trace", s>>, <<"observation", s>>>>

ClosingIsDue ==
    /\ \A t \in Tasks : closing[t] # <<>> =>
        \E s \in Known :
            /\ spans[s].ended /\ spans[s].sampled /\ spans[s].sends = 0
            /\ \/ closing[t] = <<<<"observation", s>>>>
               \/ /\ closing[t] = <<<<"trace", s>>, <<"observation", s>>>>
                  /\ Owns(s) /\ spans[s].traceSends = 0
    /\ \A t, u \in Tasks : \A s \in Known : Closes(t, s) /\ Closes(u, s) => t = u

\* What was sent of a span follows from whether it has ended and its verdict.
SentOfSpan(s) ==
    LET due == enabled /\ spans[s].ended /\ spans[s].sampled
    IN  /\ ~spans[s].ended \/ ~spans[s].sampled => spans[s].sends = 0 /\ spans[s].traceSends = 0
        /\ ~Owns(s) => spans[s].traceSends = 0
        /\ due /\ Owns(s) =>
            \/ spans[s].traceSends = 1
            \/ \E t \in Tasks : closing[t] = <<<<"trace", s>>, <<"observation", s>>>>
        /\ due => spans[s].sends = 1 \/ \E t \in Tasks : Closes(t, s)

SentOnEnd == \A s \in Known : SentOfSpan(s)

\* A context is coherent: its observation is in its trace.
Coherent(c) ==
    IF c.parent = None THEN c.trace = None
    ELSE c.parent \in Known /\ c.trace = spans[c.parent].trace

ContextsCohere ==
    ~wandered =>
        /\ NestsInOneTrace
        /\ Coherent(snap)
        /\ \A t \in Tasks : /\ Coherent(context[t]) /\ Coherent(base[t])
                            /\ \A i \in DOMAIN stack[t] : Coherent(stack[t][i].saved)

SpansInv ==
    /\ TypeOK /\ ContextsAreKnown /\ LevelsFollowScopes /\ ScopesAreInUse /\ EnteredOnce
    /\ GeneratorsOwnSpans /\ SomebodyEnds /\ NothingBeforeBegin /\ OneVerdict
    /\ ClosingIsDue /\ SentOnEnd /\ ContextsCohere

-----------------------------------------------------------------------------
(* What the steps change: the spans.                                       *)

\* Leaving a sequence, all but the last element stays where it was.
LEMMA FrontFacts ==
    ASSUME NEW S, NEW q \in Seq(S), q # <<>>
    PROVE  /\ Front(q) \in Seq(S) /\ Len(q) \in Nat \ {0} /\ Len(Front(q)) = Len(q) - 1
           /\ \A i \in 1..(Len(q) - 1) : Front(q)[i] = q[i]
           /\ Last(q) = q[Len(q)] /\ Last(q) \in S
<1>1. Len(q) \in Nat /\ Len(q) > 0
    OBVIOUS
<1>2. /\ Front(q) \in Seq(S)
      /\ \A i \in 1..(Len(q) - 1) : Front(q)[i] = q[i]
    BY <1>1 DEF Front
<1>3. Len(Front(q)) = Len(q) - 1
  <2>1. ASSUME NEW n, n = Len(q)
        PROVE  Len(Front(q)) = n - 1
    <3>1. n \in Nat /\ n > 0
        BY <2>1
    <3>2. CASE n = 1
        BY <2>1, <3>2 DEF Front
    <3>3. CASE n # 1
      <4>1. n >= 2 /\ n - 1 \in Nat
          BY <3>1, <3>3
      <4>2. QED
          BY <2>1, <4>1 DEF Front
    <3>4. QED
        BY <3>2, <3>3
  <2>2. QED
      BY <2>1
<1>4. Last(q) = q[Len(q)] /\ Last(q) \in S
    BY <1>1 DEF Last
<1>5. QED
    BY <1>1, <1>2, <1>3, <1>4

\* Entering it, every element does.
LEMMA AppendFacts ==
    ASSUME NEW S, NEW q \in Seq(S), NEW e \in S
    PROVE  /\ Append(q, e) \in Seq(S) /\ Len(q) \in Nat /\ Len(Append(q, e)) = Len(q) + 1
           /\ \A i \in 1..Len(q) : Append(q, e)[i] = q[i]
           /\ Append(q, e)[Len(q) + 1] = e
OBVIOUS

\* The span that a call or a generator opens in task t.
NewSpan(t) ==
    LET s == NumSpans + 1
        trace == context[t].trace
    IN  /\ s \in Id /\ spans' \in Seq(SpanRecord) /\ NumSpans' = s
        /\ \A r \in Known : spans'[r] = spans[r]
        /\ ~spans'[s].ended /\ spans'[s].sends = 0 /\ spans'[s].traceSends = 0
        /\ spans'[s].parent = context[t].parent
        /\ spans'[s].trace = IF trace = None THEN s ELSE trace
        /\ trace # None => spans'[s].sampled = spans[trace].sampled

\* open_span() makes it a new one, and leaves the others alone.
LEMMA SpanOpens ==
    ASSUME TypeOK, ContextsAreKnown, NEW t \in Tasks, NEW keep \in Verdicts(t), OpenSpan(t, keep)
    PROVE  NewSpan(t)
<1> DEFINE o == Opened(t, keep)
<1>1. /\ NumSpans \in Nat /\ spans \in Seq(SpanRecord) /\ MaxSpans \in Nat /\ None \notin Int
      /\ NumSpans < MaxSpans /\ spans' = Append(spans, o)
    BY SpansAssumption DEF TypeOK, OpenSpan, NumSpans
<1>2. KnownContext(context[t])
    BY DEF ContextsAreKnown
<1>3. keep \in BOOLEAN
    BY DEF Verdicts
<1>4. /\ o.trace = IF context[t].trace = None THEN NumSpans + 1 ELSE context[t].trace
      /\ o.parent = context[t].parent
      /\ ~o.ended /\ o.sends = 0 /\ o.traceSends = 0
      /\ o.sampled = IF context[t].trace = None THEN keep ELSE spans[context[t].trace].sampled
      /\ o = [trace |-> o.trace, parent |-> o.parent, sampled |-> o.sampled,
              ended |-> o.ended, sends |-> o.sends, traceSends |-> o.traceSends]
    BY DEF Opened
<1>5. o.sampled \in BOOLEAN
  <2>1. CASE context[t].trace = None
      BY <1>3, <1>4, <2>1
  <2>2. CASE context[t].trace # None
    <3>1. context[t].trace \in 1..Len(spans)
        BY <1>2, <2>2 DEF KnownContext, Known, NumSpans
    <3>2. spans[context[t].trace] \in SpanRecord
        BY <1>1, <3>1
    <3>3. QED
        BY <1>4, <2>2, <3>2 DEF SpanRecord
  <2>3. QED
      BY <2>1, <2>2
<1>6. o.trace \in Id /\ o.parent \in Id \cup {None} /\ NumSpans + 1 \in Id
    BY <1>1, <1>2, <1>4 DEF KnownContext, Known, Id
<1>7. o.ended = FALSE /\ o.sends = 0 /\ o.traceSends = 0
    BY DEF Opened
<1> HIDE DEF o
<1>8. o \in SpanRecord
  <2>1. o.sends \in 0..1 /\ o.traceSends \in 0..1
      BY <1>7
  <2>2. o.ended \in BOOLEAN
      BY <1>7
  <2>3. o.trace \in Id
      BY <1>4, <1>6
  <2>4. o.parent \in Id \cup {None}
      BY <1>4, <1>6
  <2>5. QED
      BY <1>4, <1>5, <2>1, <2>2, <2>3, <2>4 DEF SpanRecord
<1>9. /\ spans' \in Seq(SpanRecord) /\ Len(spans') = Len(spans) + 1
      /\ \A r \in 1..Len(spans) : spans'[r] = spans[r]
      /\ spans'[Len(spans) + 1] = o
    BY <1>1, <1>8, AppendFacts
<1>10. QED
    BY <1>1, <1>4, <1>6, <1>9 DEF NewSpan, Known, NumSpans

\* finish_span() in task t: span s has ended.
Finishes(t, s) ==
    /\ t \in begun /\ closing[t] = <<>> /\ s \in Known /\ ~spans[s].ended
    /\ closing' = [closing EXCEPT ![t] = Events(s)]
    /\ spans' \in Seq(SpanRecord) /\ NumSpans' = NumSpans
    /\ \A r \in Known \ {s} : spans'[r] = spans[r]
    /\ spans'[s] = [spans[s] EXCEPT !.ended = TRUE]

\* finish_span() ends a span that is open, and lines its events up.
LEMMA SpanFinishes ==
    ASSUME TypeOK, NEW t \in Tasks, NEW s \in Known, Free(t), ~spans[s].ended, FinishSpan(t, s)
    PROVE  Finishes(t, s)
<1>1. spans \in Seq(SpanRecord) /\ s \in 1..Len(spans) /\ NumSpans = Len(spans)
    BY DEF TypeOK, Known, NumSpans
<1> DEFINE e == [spans[s] EXCEPT !.ended = TRUE]
<1>2. e \in SpanRecord
  <2>1. spans[s] \in SpanRecord
      BY <1>1
  <2>2. QED
      BY <2>1 DEF SpanRecord
<1>3. spans' = [spans EXCEPT ![s] = e] /\ closing' = [closing EXCEPT ![t] = Events(s)]
    BY DEF FinishSpan
<1> HIDE DEF e
<1>4. /\ spans' \in Seq(SpanRecord) /\ Len(spans') = Len(spans) /\ spans'[s] = e
      /\ \A r \in 1..Len(spans) : r # s => spans'[r] = spans[r]
    BY <1>1, <1>2, <1>3
<1>5. QED
    BY <1>1, <1>3, <1>4 DEF Finishes, Free, e, Known, NumSpans

-----------------------------------------------------------------------------
(* What the steps change: the scopes.                                      *)

\* Task t enters the scope f, and is in context c then.
Entered(t, f, c) ==
    /\ Len(stack[t]) < MaxDepth /\ f.saved = context[t]
    /\ stack' = [stack EXCEPT ![t] = Append(@, f)]
    /\ context' = [context EXCEPT ![t] = c]
    /\ UNCHANGED <<base, begun, snap>>
    /\ t \in begun
    /\ IF f.kind = "adopt"
       THEN c = snap /\ f.span = snap.parent /\ f.trace = snap.trace
       ELSE /\ f.span \in Known' /\ c = Activate(context[t], f.span, Owns(f.span)')
            /\ ~wandered' /\ ~Owns(f.span)' => context[t].trace = spans'[f.span].trace

\* It leaves the innermost one.
Left(t) ==
    /\ stack[t] # <<>> /\ t \in begun
    /\ Exit(t)
    /\ snap' = snap

\* Every other task stays as it is, and in this one every other level.
LEMMA EnteredFacts ==
    ASSUME TypeOK, NEW t \in Tasks, NEW f \in Frame, NEW c \in Context, Entered(t, f, c)
    PROVE  /\ stack' \in [Tasks -> Seq(Frame)] /\ context' \in [Tasks -> Context]
           /\ \A u \in Tasks \ {t} : stack'[u] = stack[u] /\ context'[u] = context[u]
           /\ Len(stack[t]) \in Nat /\ Len(stack'[t]) = Len(stack[t]) + 1
           /\ Len(stack'[t]) <= MaxDepth
           /\ \A i \in 1..Len(stack[t]) : stack'[t][i] = stack[t][i]
           /\ stack'[t][Len(stack[t]) + 1] = f
           /\ context'[t] = c
<1>1. /\ stack \in [Tasks -> Seq(Frame)] /\ context \in [Tasks -> Context]
      /\ stack[t] \in Seq(Frame) /\ MaxDepth \in Nat
    BY SpansAssumption DEF TypeOK
<1> DEFINE q == Append(stack[t], f)
<1>2. /\ q \in Seq(Frame) /\ Len(stack[t]) \in Nat /\ Len(q) = Len(stack[t]) + 1
      /\ \A i \in 1..Len(stack[t]) : q[i] = stack[t][i]
      /\ q[Len(stack[t]) + 1] = f
    BY <1>1, AppendFacts
<1> HIDE DEF q
<1>3. stack' = [stack EXCEPT ![t] = q] /\ context' = [context EXCEPT ![t] = c]
    BY DEF Entered, q
<1>4. Len(stack[t]) < MaxDepth
    BY DEF Entered
<1>5. /\ stack' \in [Tasks -> Seq(Frame)] /\ context' \in [Tasks -> Context]
      /\ \A u \in Tasks \ {t} : stack'[u] = stack[u] /\ context'[u] = context[u]
      /\ stack'[t] = q /\ context'[t] = c
    BY <1>1, <1>2, <1>3
<1>6. Len(q) <= MaxDepth
    BY <1>1, <1>2, <1>4
<1>7. QED
    BY <1>2, <1>5, <1>6

\* The same of leaving one: the context is what it was before the scope.
LEMMA LeftFacts ==
    ASSUME TypeOK, NEW t \in Tasks, Left(t)
    PROVE  /\ stack' \in [Tasks -> Seq(Frame)] /\ context' \in [Tasks -> Context]
           /\ \A u \in Tasks \ {t} : stack'[u] = stack[u] /\ context'[u] = context[u]
           /\ Len(stack[t]) \in Nat /\ Len(stack[t]) > 0 /\ Len(stack'[t]) = Len(stack[t]) - 1
           /\ Len(stack'[t]) <= MaxDepth
           /\ \A i \in 1..Len(stack'[t]) : stack'[t][i] = stack[t][i]
           /\ context'[t] = stack[t][Len(stack[t])].saved
           /\ Last(stack[t]) = stack[t][Len(stack[t])] /\ Last(stack[t]) \in Frame
<1>1. /\ stack \in [Tasks -> Seq(Frame)] /\ context \in [Tasks -> Context]
      /\ stack[t] \in Seq(Frame) /\ stack[t] # <<>> /\ MaxDepth \in Nat
      /\ Len(stack[t]) <= MaxDepth
    BY SpansAssumption DEF TypeOK, Left
<1> DEFINE q == Front(stack[t])
           f == Last(stack[t])
<1>2. /\ q \in Seq(Frame) /\ Len(stack[t]) \in Nat \ {0} /\ Len(q) = Len(stack[t]) - 1
      /\ \A i \in 1..(Len(stack[t]) - 1) : q[i] = stack[t][i]
      /\ f = stack[t][Len(stack[t])] /\ f \in Frame
    BY <1>1, FrontFacts
<1>3. stack' = [stack EXCEPT ![t] = q] /\ context' = [context EXCEPT ![t] = f.saved]
    BY DEF Left, Exit, Restored
<1> HIDE DEF q, f
<1>4. f.saved \in Context
    BY <1>2 DEF Frame
<1>5. /\ stack' \in [Tasks -> Seq(Frame)] /\ context' \in [Tasks -> Context]
      /\ \A u \in Tasks \ {t} : stack'[u] = stack[u] /\ context'[u] = context[u]
      /\ stack'[t] = q /\ context'[t] = f.saved
    BY <1>1, <1>2, <1>3, <1>4
<1>6. /\ Len(stack[t]) \in Nat /\ Len(stack[t]) > 0 /\ Len(q) = Len(stack[t]) - 1
      /\ Len(q) <= MaxDepth
    BY <1>1, <1>2
<1>7. \A i \in 1..Len(q) : q[i] = stack[t][i]
    BY <1>2
<1>8. QED
    BY <1>2, <1>5, <1>6, <1>7 DEF f

\* A context in which a span is activated is one, too.
LEMMA ActivateFacts ==
    ASSUME NEW c \in Context, NEW s \in Id, NEW owns \in BOOLEAN
    PROVE  /\ Activate(c, s, owns) \in Context
           /\ Activate(c, s, owns).parent = s /\ Activate(c, s, owns).observation = s
           /\ Activate(c, s, owns).trace = IF owns THEN s ELSE c.trace
BY DEF Activate, UseTrace, UseObservation, Context

-----------------------------------------------------------------------------
(* What each action does, in these terms.                                  *)

\* The actions, one by one.
LEMMA NextCases ==
    ASSUME [Next]_vars
    PROVE  \/ \E t \in Tasks : \/ Call(t) \/ Return(t) \/ Adopt(t) \/ EndAdopt(t)
                               \/ Yield(t) \/ EndGenerator(t) \/ Emit(t) \/ Snapshot(t)
           \/ \E t \in Tasks, g \in Gens : \/ StartGenerator(t, g) \/ Resume(t, g)
                                           \/ CloseGenerator(t, g) \/ StartBare(t, g)
           \/ \E t, u \in Tasks, copies \in BOOLEAN : Spawn(t, u, copies)
           \/ Configure
           \/ UNCHANGED vars
BY DEF Next

\* A call or a generator's first step: a new span, and its scope.
LEMMA FirstScope ==
    ASSUME TypeOK, ContextsAreKnown, NEW t \in Tasks, NewSpan(t), NEW f \in Frame,
           f.kind # "adopt", f.span = NumSpans + 1, f.saved = context[t], t \in begun,
           Enter(t, f, Activate(context[t], f.span, context[t].trace = None)),
           snap' = snap
    PROVE  \E c \in Context : Entered(t, f, c)
<1>1. /\ NumSpans \in Nat /\ None \notin Int /\ context[t] \in Context /\ f.span \in Id
    BY SpansAssumption DEF TypeOK, NewSpan, NumSpans
<1>2. KnownContext(context[t])
    BY DEF ContextsAreKnown
<1>3. Owns(f.span)' <=> context[t].trace = None
    BY <1>1, <1>2 DEF NewSpan, Owns, KnownContext, Known
<1>4. ~Owns(f.span)' => context[t].trace = spans'[f.span].trace
    BY <1>3 DEF NewSpan
<1> DEFINE c == Activate(context[t], f.span, context[t].trace = None)
<1>5. c \in Context
    BY <1>1, ActivateFacts
<1>6. c = Activate(context[t], f.span, Owns(f.span)')
  <2>1. CASE context[t].trace = None
      BY <1>3, <2>1
  <2>2. CASE context[t].trace # None
      BY <1>3, <2>2 DEF Activate
  <2>3. QED
      BY <2>1, <2>2
<1>7. /\ Len(stack[t]) < MaxDepth
      /\ stack' = [stack EXCEPT ![t] = Append(@, f)]
      /\ context' = [context EXCEPT ![t] = c]
      /\ UNCHANGED <<base, begun>>
    BY DEF Enter
<1>8. f.span \in Known'
    BY <1>1 DEF NewSpan, Known
<1> HIDE DEF c
<1>9. Entered(t, f, c)
    BY <1>4, <1>6, <1>7, <1>8 DEF Entered
<1>10. QED
    BY <1>5, <1>9

\* _wrap_sync and _wrap_async, up to the call.
LEMMA CallDoes ==
    ASSUME SpansInv, NEW t \in Tasks, Call(t)
    PROVE  /\ NewSpan(t)
           /\ \E f \in Frame, c \in Context :
                Entered(t, f, c) /\ f.kind = "call" /\ f.span = NumSpans + 1
           /\ UNCHANGED <<enabled, gens, closing, wandered>>
<1>1. TypeOK /\ ContextsAreKnown
    BY DEF SpansInv
<1>2. PICK keep \in Verdicts(t) : OpenSpan(t, keep)
    BY DEF Call
<1>3. NewSpan(t)
    BY <1>1, <1>2, SpanOpens
<1>4. PICK f \in Frame : f = [kind |-> "call", span |-> NumSpans + 1, gen |-> None,
                              trace |-> None, saved |-> context[t]]
  <2>1. context[t] \in Context
      BY <1>1 DEF TypeOK
  <2>2. QED
      BY <1>3, <2>1 DEF Frame, NewSpan
<1>5. /\ f.kind = "call" /\ f.span = NumSpans + 1 /\ f.saved = context[t]
      /\ Enter(t, f, Activate(context[t], f.span, context[t].trace = None))
      /\ snap' = snap /\ t \in begun
    BY <1>4 DEF Call, Free
<1>6. PICK c \in Context : Entered(t, f, c)
    BY <1>1, <1>3, <1>4, <1>5, FirstScope
<1>7. UNCHANGED <<enabled, gens, closing, wandered>>
    BY DEF Call
<1>8. QED
    BY <1>3, <1>4, <1>5, <1>6, <1>7

\* The first next() of a generator opens its span.
LEMMA StartGeneratorDoes ==
    ASSUME SpansInv, NEW t \in Tasks, NEW g \in Gens, StartGenerator(t, g)
    PROVE  /\ NewSpan(t)
           /\ \E f \in Frame, c \in Context :
                /\ Entered(t, f, c) /\ f.kind = "generator" /\ f.span = NumSpans + 1
                /\ f.gen = g
           /\ gens[g].state = "fresh"
           /\ gens' = [gens EXCEPT ![g] = [state |-> "running", span |-> NumSpans + 1]]
           /\ UNCHANGED <<enabled, closing, wandered>>
<1>1. TypeOK /\ ContextsAreKnown
    BY DEF SpansInv
<1>2. PICK keep \in Verdicts(t) : OpenSpan(t, keep)
    BY DEF StartGenerator
<1>3. NewSpan(t)
    BY <1>1, <1>2, SpanOpens
<1>4. PICK f \in Frame : f = GeneratorFrame(t, g, NumSpans + 1)
  <2>1. context[t] \in Context
      BY <1>1 DEF TypeOK
  <2>2. QED
      BY <1>3, <2>1 DEF Frame, NewSpan, GeneratorFrame
<1>5. /\ f.kind = "generator" /\ f.span = NumSpans + 1 /\ f.saved = context[t] /\ f.gen = g
    BY <1>4 DEF GeneratorFrame
<1>6. /\ Enter(t, f, Activate(context[t], NumSpans + 1, context[t].trace = None))
      /\ snap' = snap /\ t \in begun
    BY <1>4 DEF StartGenerator, Free
<1>7. /\ gens[g].state = "fresh"
      /\ gens' = [gens EXCEPT ![g] = [state |-> "running", span |-> NumSpans + 1]]
      /\ UNCHANGED <<enabled, closing, wandered>>
    BY DEF StartGenerator
<1>8. PICK c \in Context : Entered(t, f, c)
    BY <1>1, <1>3, <1>4, <1>5, <1>6, FirstScope
<1>9. QED
    BY <1>3, <1>4, <1>5, <1>7, <1>8

\* A later one enters the span again, which is still open.
LEMMA ResumeDoes ==
    ASSUME SpansInv, NEW t \in Tasks, NEW g \in Gens, Resume(t, g)
    PROVE  /\ \E f \in Frame, c \in Context :
                /\ Entered(t, f, c) /\ f.kind = "generator" /\ f.span = gens[g].span
                /\ f.gen = g
           /\ gens[g] = [state |-> "suspended", span |-> gens[g].span]
           /\ gens' = [gens EXCEPT ![g].state = "running"]
           /\ UNCHANGED <<enabled, spans, closing>>
           /\ wandered => wandered'
<1>1. /\ TypeOK /\ GeneratorsOwnSpans /\ context[t] \in Context /\ gens[g] \in Generator
      /\ gens[g].state = "suspended"
    BY DEF SpansInv, TypeOK, Resume
<1>2. gens[g].span \in Known /\ gens[g] = [state |-> "suspended", span |-> gens[g].span]
    BY <1>1 DEF GeneratorsOwnSpans, Generator
<1>3. gens[g].span \in Id
  <2>1. NumSpans \in Nat /\ NumSpans <= MaxSpans /\ MaxSpans \in Nat
      BY <1>1, SpansAssumption DEF TypeOK, NumSpans
  <2>2. QED
      BY <1>2, <2>1 DEF Known, Id
<1>4. PICK f \in Frame : f = GeneratorFrame(t, g, gens[g].span)
    BY <1>1, <1>3 DEF Frame, GeneratorFrame
<1>5. PICK c \in Context : c = Activate(context[t], gens[g].span, Owns(gens[g].span))
    BY <1>1, <1>3, ActivateFacts DEF Owns
<1>6. f.kind = "generator" /\ f.span = gens[g].span /\ f.gen = g /\ f.saved = context[t]
    BY <1>4 DEF GeneratorFrame
<1>7. /\ Len(stack[t]) < MaxDepth
      /\ stack' = [stack EXCEPT ![t] = Append(@, f)]
      /\ context' = [context EXCEPT ![t] = c]
      /\ UNCHANGED <<base, begun, snap, enabled, spans, closing>> /\ t \in begun
      /\ gens' = [gens EXCEPT ![g].state = "running"]
    BY <1>4, <1>5 DEF Resume, Enter, Free
<1>8. wandered' =
        (wandered \/ (~Owns(gens[g].span) /\ context[t].trace # spans[gens[g].span].trace))
    BY DEF Resume
<1>9. Known' = Known /\ \A s \in Known : Owns(s)' = Owns(s)
    BY <1>7 DEF Known, NumSpans, Owns
<1>10. c = Activate(context[t], f.span, Owns(f.span)') /\ f.span \in Known'
  <2>1. Owns(f.span)' = Owns(gens[g].span)
      BY <1>2, <1>6, <1>7 DEF Owns
  <2>2. QED
      BY <1>2, <1>5, <1>6, <1>9, <2>1
<1>11. ~wandered' /\ ~Owns(f.span)' => context[t].trace = spans'[f.span].trace
    BY <1>6, <1>7, <1>8 DEF Owns
<1>12. Entered(t, f, c)
    BY <1>6, <1>7, <1>10, <1>11 DEF Entered
<1>13. QED
    BY <1>2, <1>4, <1>5, <1>6, <1>7, <1>8, <1>12

\* adopt() enters the snapshot, and opens nothing.
LEMMA AdoptDoes ==
    ASSUME SpansInv, NEW t \in Tasks, Adopt(t)
    PROVE  /\ \E f \in Frame, c \in Context : Entered(t, f, c) /\ f.kind = "adopt"
           /\ UNCHANGED <<enabled, spans, gens, closing, wandered>>
<1>1. TypeOK /\ context[t] \in Context /\ snap \in Context
    BY DEF SpansInv, TypeOK
<1>2. PICK f \in Frame : f = [kind |-> "adopt", span |-> snap.parent, gen |-> None,
                              trace |-> snap.trace, saved |-> context[t]]
    BY <1>1 DEF Frame, Context
<1>3. /\ Len(stack[t]) < MaxDepth
      /\ stack' = [stack EXCEPT ![t] = Append(@, f)]
      /\ context' = [context EXCEPT ![t] = snap]
      /\ UNCHANGED <<base, begun, snap, enabled, spans, gens, closing, wandered>> /\ t \in begun
    BY <1>2 DEF Adopt, Enter, Free
<1>4. f.kind = "adopt" /\ f.span = snap.parent /\ f.trace = snap.trace /\ f.saved = context[t]
    BY <1>2
<1>5. PICK c \in Context : c = snap
    BY <1>1
<1>6. Entered(t, f, c)
    BY <1>3, <1>4, <1>5 DEF Entered
<1>7. QED
    BY <1>3, <1>4, <1>6

\* A call or a generator in progress: the innermost scope is in use.
LEMMA InnermostInUse ==
    ASSUME SpansInv, NEW t \in Tasks, stack[t] # <<>>
    PROVE  Len(stack[t]) \in DOMAIN stack[t] /\ Last(stack[t]) = stack[t][Len(stack[t])]
           /\ InUse(Last(stack[t]))
<1>1. stack[t] \in Seq(Frame)
    BY DEF SpansInv, TypeOK
<1>2. Len(stack[t]) \in DOMAIN stack[t]
    BY <1>1
<1>3. QED
    BY <1>2 DEF Last, SpansInv, ScopesAreInUse

\* A call that returns leaves its scope, and its span ends.
LEMMA ReturnDoes ==
    ASSUME SpansInv, NEW t \in Tasks, Return(t)
    PROVE  /\ Left(t) /\ Last(stack[t]).kind = "call"
           /\ Finishes(t, Last(stack[t]).span)
           /\ UNCHANGED <<enabled, gens, wandered>>
<1>1. /\ stack[t] # <<>> /\ Last(stack[t]).kind = "call" /\ Free(t)
      /\ FinishSpan(t, Last(stack[t]).span)
    BY DEF Return
<1>2. Last(stack[t]).span \in Known /\ ~spans[Last(stack[t]).span].ended
    BY <1>1, InnermostInUse DEF InUse
<1>3. Finishes(t, Last(stack[t]).span)
    BY <1>1, <1>2, SpanFinishes DEF SpansInv
<1>4. QED
    BY <1>1, <1>3 DEF Return, Left, Free

\* So does a generator's body; the generator is done for good.
LEMMA EndGeneratorDoes ==
    ASSUME SpansInv, NEW t \in Tasks, EndGenerator(t)
    PROVE  /\ Left(t) /\ Last(stack[t]).kind = "generator"
           /\ Finishes(t, Last(stack[t]).span)
           /\ gens' = [gens EXCEPT ![Last(stack[t]).gen].state = "done"]
           /\ UNCHANGED <<enabled, wandered>>
<1>1. /\ stack[t] # <<>> /\ Last(stack[t]).kind = "generator" /\ Free(t)
      /\ FinishSpan(t, Last(stack[t]).span)
    BY DEF EndGenerator, InGenerator
<1>2. Last(stack[t]).span \in Known /\ ~spans[Last(stack[t]).span].ended
    BY <1>1, InnermostInUse DEF InUse
<1>3. Finishes(t, Last(stack[t]).span)
    BY <1>1, <1>2, SpanFinishes DEF SpansInv
<1>4. QED
    BY <1>1, <1>3 DEF EndGenerator, Left, Free, AfterBody

\* A body that yields leaves its scope, and its span stays open.
LEMMA YieldDoes ==
    ASSUME SpansInv, NEW t \in Tasks, Yield(t)
    PROVE  /\ Left(t) /\ Last(stack[t]).kind = "generator"
           /\ gens' = [gens EXCEPT ![Last(stack[t]).gen].state = "suspended"]
           /\ UNCHANGED <<enabled, spans, closing, wandered>>
BY DEF Yield, InGenerator, Left, Free

\* Leaving an adopted snapshot ends nothing.
LEMMA EndAdoptDoes ==
    ASSUME SpansInv, NEW t \in Tasks, EndAdopt(t)
    PROVE  /\ Left(t) /\ Last(stack[t]).kind = "adopt"
           /\ UNCHANGED <<enabled, spans, gens, closing, wandered>>
BY DEF EndAdopt, Left, Free

\* close() ends the span of a suspended generator, in no scope.
LEMMA CloseGeneratorDoes ==
    ASSUME SpansInv, NEW t \in Tasks, NEW g \in Gens, CloseGenerator(t, g)
    PROVE  /\ Finishes(t, gens[g].span)
           /\ gens[g] = [state |-> "suspended", span |-> gens[g].span]
           /\ gens' = [gens EXCEPT ![g].state = "done"]
           /\ UNCHANGED <<enabled, taskVars, snap, wandered>>
<1>1. /\ gens[g].state = "suspended" /\ gens[g] \in Generator
      /\ Free(t) /\ FinishSpan(t, gens[g].span)
    BY DEF CloseGenerator, SpansInv, TypeOK
<1>2. gens[g].span \in Known /\ ~spans[gens[g].span].ended
    BY <1>1 DEF SpansInv, GeneratorsOwnSpans
<1>3. Finishes(t, gens[g].span)
    BY <1>1, <1>2, SpanFinishes DEF SpansInv
<1>4. gens[g] = [state |-> "suspended", span |-> gens[g].span]
    BY <1>1 DEF Generator
<1>5. QED
    BY <1>3, <1>4 DEF CloseGenerator

\* emit(): the next event of the span that task t has finished.
Hands(t, s) ==
    /\ s \in Known /\ spans[s].ended /\ spans[s].sampled /\ spans[s].sends = 0
    /\ spans' \in Seq(SpanRecord) /\ NumSpans' = NumSpans
    /\ \A r \in Known \ {s} : spans'[r] = spans[r]
    /\ \/ /\ closing[t] = <<<<"observation", s>>>>
          /\ closing' = [closing EXCEPT ![t] = <<>>]
          /\ spans'[s] = IF enabled THEN [spans[s] EXCEPT !.sends = 1] ELSE spans[s]
       \/ /\ closing[t] = <<<<"trace", s>>, <<"observation", s>>>>
          /\ Owns(s) /\ spans[s].traceSends = 0
          /\ closing' = [closing EXCEPT ![t] = <<<<"observation", s>>>>]
          /\ spans'[s] = IF enabled THEN [spans[s] EXCEPT !.traceSends = 1] ELSE spans[s]

\* What a task hands over is due, so it is handed over once.
LEMMA EmitDoes ==
    ASSUME SpansInv, NEW t \in Tasks, Emit(t)
    PROVE  /\ \E s \in Known : Hands(t, s)
           /\ UNCHANGED <<enabled, taskVars, gens, snap, wandered>>
<1>1. /\ closing[t] # <<>> /\ TypeOK /\ ClosingIsDue
      /\ UNCHANGED <<enabled, taskVars, gens, snap, wandered>>
    BY DEF Emit, SpansInv
<1>2. PICK s \in Known :
        /\ spans[s].ended /\ spans[s].sampled /\ spans[s].sends = 0
        /\ \/ closing[t] = <<<<"observation", s>>>>
           \/ /\ closing[t] = <<<<"trace", s>>, <<"observation", s>>>>
              /\ Owns(s) /\ spans[s].traceSends = 0
    BY <1>1 DEF ClosingIsDue
<1>3. /\ spans \in Seq(SpanRecord) /\ s \in 1..Len(spans) /\ NumSpans = Len(spans)
      /\ spans[s] \in SpanRecord
    BY <1>1 DEF TypeOK, Known, NumSpans
<1>4. ASSUME NEW r \in SpanRecord, spans' = [spans EXCEPT ![s] = r]
      PROVE  /\ spans' \in Seq(SpanRecord) /\ NumSpans' = NumSpans
             /\ \A q \in Known \ {s} : spans'[q] = spans[q]
             /\ spans'[s] = r
    BY <1>3, <1>4 DEF NumSpans, Known
<1>5. CASE closing[t] = <<<<"observation", s>>>>
  <2>1. Head(closing[t])[1] = "observation" /\ Head(closing[t])[2] = s /\ Tail(closing[t]) = <<>>
      BY <1>5
  <2>2. PICK r \in SpanRecord : r = IF enabled THEN [spans[s] EXCEPT !.sends = 1] ELSE spans[s]
    <3>1. [spans[s] EXCEPT !.sends = 1] \in SpanRecord
        BY <1>3 DEF SpanRecord
    <3>2. QED
        BY <1>3, <3>1
  <2>3. spans' = [spans EXCEPT ![s] = r]
    <3>1. CASE enabled
      <4>1. spans' = [spans EXCEPT ![s].sends = @ + 1]
          BY <2>1, <3>1 DEF Emit
      <4>2. spans[s].sends + 1 = 1
          BY <1>2
      <4>3. QED
          BY <1>3, <2>2, <3>1, <4>1, <4>2
    <3>2. CASE ~enabled
      <4>1. spans' = spans
          BY <2>1, <3>2 DEF Emit
      <4>2. QED
          BY <1>3, <2>2, <3>2, <4>1
    <3>3. QED
        BY <3>1, <3>2
  <2>4. closing' = [closing EXCEPT ![t] = <<>>]
      BY <2>1 DEF Emit
  <2>5. Hands(t, s)
      BY <1>2, <1>4, <1>5, <2>2, <2>3, <2>4 DEF Hands
  <2>6. QED
      BY <1>1, <2>5
<1>6. CASE /\ closing[t] = <<<<"trace", s>>, <<"observation", s>>>>
           /\ Owns(s) /\ spans[s].traceSends = 0
  <2>1. /\ Head(closing[t])[1] = "trace" /\ Head(closing[t])[2] = s
        /\ Tail(closing[t]) = <<<<"observation", s>>>>
      BY <1>6
  <2>2. PICK r \in SpanRecord : r = IF enabled THEN [spans[s] EXCEPT !.traceSends = 1] ELSE spans[s]
    <3>1. [spans[s] EXCEPT !.traceSends = 1] \in SpanRecord
        BY <1>3 DEF SpanRecord
    <3>2. QED
        BY <1>3, <3>1
  <2>3. spans' = [spans EXCEPT ![s] = r]
    <3>1. CASE enabled
      <4>1. spans' = [spans EXCEPT ![s].traceSends = @ + 1]
          BY <2>1, <3>1 DEF Emit
      <4>2. spans[s].traceSends + 1 = 1
          BY <1>6
      <4>3. QED
          BY <1>3, <2>2, <3>1, <4>1, <4>2
    <3>2. CASE ~enabled
      <4>1. spans' = spans
          BY <2>1, <3>2 DEF Emit
      <4>2. QED
          BY <1>3, <2>2, <3>2, <4>1
    <3>3. QED
        BY <3>1, <3>2
  <2>4. closing' = [closing EXCEPT ![t] = <<<<"observation", s>>>>]
      BY <2>1 DEF Emit
  <2>5. Hands(t, s)
      BY <1>2, <1>4, <1>6, <2>2, <2>3, <2>4 DEF Hands
  <2>6. QED
      BY <1>1, <2>5
<1>7. QED
    BY <1>2, <1>5, <1>6

\* No step forgets a span, or changes what it is part of.
Kept(r) ==
    /\ spans'[r].trace = spans[r].trace /\ spans'[r].parent = spans[r].parent
    /\ spans'[r].sampled = spans[r].sampled
    /\ spans[r].ended => spans'[r].ended

\* What a step may do to the spans.
SpansStep ==
    \/ \E t \in Tasks : NewSpan(t) /\ closing' = closing
    \/ \E t \in Tasks, s \in Known : Finishes(t, s)
    \/ \E t \in Tasks, s \in Known : Hands(t, s)
    \/ spans' = spans /\ closing' = closing

\* Every step does one of these, and only configure() touches enabled.
LEMMA SpansCases ==
    ASSUME SpansInv, [Next]_vars
    PROVE  SpansStep /\ ((spans' = spans /\ closing' = closing) \/ enabled' = enabled)
<1>1. ASSUME NEW t \in Tasks, Call(t)
      PROVE  SpansStep /\ enabled' = enabled
    BY <1>1, CallDoes DEF SpansStep
<1>2. ASSUME NEW t \in Tasks, NEW g \in Gens, StartGenerator(t, g)
      PROVE  SpansStep /\ enabled' = enabled
    BY <1>2, StartGeneratorDoes DEF SpansStep
<1>3. ASSUME NEW t \in Tasks, Return(t) \/ EndGenerator(t)
      PROVE  SpansStep /\ enabled' = enabled
  <2>1. PICK s : s = Last(stack[t]).span
      OBVIOUS
  <2>2. Finishes(t, s) /\ enabled' = enabled
      BY <1>3, <2>1, ReturnDoes, EndGeneratorDoes
  <2>3. s \in Known
      BY <2>2 DEF Finishes
  <2>4. QED
      BY <2>2, <2>3 DEF SpansStep
<1>4. ASSUME NEW t \in Tasks, NEW g \in Gens, CloseGenerator(t, g)
      PROVE  SpansStep /\ enabled' = enabled
  <2>1. PICK s : s = gens[g].span
      OBVIOUS
  <2>2. Finishes(t, s) /\ enabled' = enabled
      BY <1>4, <2>1, CloseGeneratorDoes
  <2>3. s \in Known
      BY <2>2 DEF Finishes
  <2>4. QED
      BY <2>2, <2>3 DEF SpansStep
<1>5. ASSUME NEW t \in Tasks, Emit(t)
      PROVE  SpansStep /\ enabled' = enabled
    BY <1>5, EmitDoes DEF SpansStep
<1>6. ASSUME NEW t \in Tasks, Yield(t) \/ Adopt(t) \/ EndAdopt(t) \/ Snapshot(t)
      PROVE  spans' = spans /\ closing' = closing
    BY <1>6 DEF Yield, Adopt, EndAdopt, Snapshot
<1>7. ASSUME NEW t \in Tasks, NEW g \in Gens, Resume(t, g) \/ StartBare(t, g)
      PROVE  spans' = spans /\ closing' = closing
    BY <1>7 DEF Resume, StartBare
<1>8. ASSUME NEW t \in Tasks, NEW u \in Tasks, NEW copies \in BOOLEAN, Spawn(t, u, copies)
      PROVE  spans' = spans /\ closing' = closing
    BY <1>8 DEF Spawn
<1>9. Configure \/ UNCHANGED vars => spans' = spans /\ closing' = closing
    BY DEF Configure, vars
<1>10. QED
    BY <1>1, <1>2, <1>3, <1>4, <1>5, <1>6, <1>7, <1>8, <1>9, NextCases DEF SpansStep

\* What is known of a span stays so.
LEMMA SpansAreKept ==
    ASSUME SpansInv, [Next]_vars
    PROVE  /\ NumSpans \in Nat /\ NumSpans' \in Nat /\ NumSpans <= NumSpans'
           /\ Known \subseteq Known'
           /\ \A r \in Known : Kept(r)
<1>1. /\ spans \in Seq(SpanRecord) /\ NumSpans \in Nat
      /\ \A r \in Known : spans[r] \in SpanRecord
    BY DEF SpansInv, TypeOK, NumSpans, Known
<1>2. ASSUME NEW t \in Tasks, NewSpan(t)
      PROVE  NumSpans' = NumSpans + 1 /\ \A r \in Known : Kept(r)
    BY <1>2 DEF NewSpan, Kept
<1>3. ASSUME NEW t \in Tasks, NEW s \in Known, Finishes(t, s)
      PROVE  NumSpans' = NumSpans /\ \A r \in Known : Kept(r)
    BY <1>1, <1>3 DEF Finishes, Kept, SpanRecord
<1>4. ASSUME NEW t \in Tasks, NEW s \in Known, Hands(t, s)
      PROVE  NumSpans' = NumSpans /\ \A r \in Known : Kept(r)
    BY <1>1, <1>4 DEF Hands, Kept, SpanRecord
<1>5. spans' = spans => NumSpans' = NumSpans /\ \A r \in Known : Kept(r)
    BY DEF Kept, NumSpans
<1>6. /\ NumSpans' = NumSpans \/ NumSpans' = NumSpans + 1
      /\ \A r \in Known : Kept(r)
    BY <1>2, <1>3, <1>4, <1>5, SpansCases DEF SpansStep
<1>7. QED
    BY <1>1, <1>6 DEF Known

\* What a step may do to the scopes and contexts.
ScopesStep ==
    \/ \E t \in Tasks, f \in Frame, c \in Context : Entered(t, f, c)
    \/ \E t \in Tasks : Left(t)
    \/ \E t, u \in Tasks, copies \in BOOLEAN : Spawn(t, u, copies)
    \/ UNCHANGED taskVars /\ (snap' = snap \/ \E t \in Tasks : t \in begun /\ snap' = context[t])

\* Every step does one of these.
LEMMA ScopesCases ==
    ASSUME SpansInv, [Next]_vars
    PROVE  ScopesStep
<1>1. ASSUME NEW t \in Tasks, Call(t) \/ Adopt(t)
      PROVE  ScopesStep
    BY <1>1, CallDoes, AdoptDoes DEF ScopesStep
<1>2. ASSUME NEW t \in Tasks, NEW g \in Gens, StartGenerator(t, g) \/ Resume(t, g)
      PROVE  ScopesStep
    BY <1>2, StartGeneratorDoes, ResumeDoes DEF ScopesStep
<1>3. ASSUME NEW t \in Tasks, Return(t) \/ EndGenerator(t) \/ Yield(t) \/ EndAdopt(t)
      PROVE  ScopesStep
    BY <1>3, ReturnDoes, EndGeneratorDoes, YieldDoes, EndAdoptDoes DEF ScopesStep
<1>4. ASSUME NEW t \in Tasks, Emit(t) \/ Snapshot(t)
      PROVE  ScopesStep
    BY <1>4 DEF Emit, Snapshot, Free, ScopesStep
<1>5. ASSUME NEW t \in Tasks, NEW g \in Gens, CloseGenerator(t, g) \/ StartBare(t, g)
      PROVE  ScopesStep
    BY <1>5 DEF CloseGenerator, StartBare, ScopesStep
<1>6. Configure \/ UNCHANGED vars => ScopesStep
    BY DEF Configure, vars, ScopesStep
<1>7. QED
    BY <1>1, <1>2, <1>3, <1>4, <1>5, <1>6, NextCases DEF ScopesStep

\* What remains of wandering, a step remembers.
LEMMA WanderedStays ==
    ASSUME SpansInv, [Next]_vars
    PROVE  wandered => wandered'
<1>1. ASSUME NEW t \in Tasks, Call(t) \/ Adopt(t)
      PROVE  wandered => wandered'
    BY <1>1, CallDoes, AdoptDoes
<1>2. ASSUME NEW t \in Tasks, NEW g \in Gens,
             StartGenerator(t, g) \/ Resume(t, g) \/ CloseGenerator(t, g) \/ StartBare(t, g)
      PROVE  wandered => wandered'
    BY <1>2, StartGeneratorDoes, ResumeDoes DEF CloseGenerator, StartBare
<1>3. ASSUME NEW t \in Tasks,
             Return(t) \/ EndGenerator(t) \/ Yield(t) \/ EndAdopt(t) \/ Emit(t) \/ Snapshot(t)
      PROVE  wandered => wandered'
    BY <1>3 DEF Return, EndGenerator, Yield, EndAdopt, Emit, Snapshot
<1>4. ASSUME NEW t \in Tasks, NEW u \in Tasks, NEW copies \in BOOLEAN, Spawn(t, u, copies)
      PROVE  wandered => wandered'
    BY <1>4 DEF Spawn
<1>5. ASSUME Configure \/ UNCHANGED vars
      PROVE  wandered => wandered'
  <2>1. wandered' = wandered
      BY <1>5 DEF Configure, vars
  <2>2. QED
      BY <2>1
<1>6. QED
    BY <1>1, <1>2, <1>3, <1>4, <1>5, NextCases

\* A task that spawns another leaves all but that one's context alone.
LEMMA SpawnFacts ==
    ASSUME SpansInv, NEW t \in Tasks, NEW u \in Tasks, NEW copies \in BOOLEAN, Spawn(t, u, copies)
    PROVE  /\ t # u /\ stack' = stack /\ snap' = snap /\ spans' = spans /\ gens' = gens
           /\ stack[u] = <<>>
           /\ \A w \in Tasks \ {u} : context'[w] = context[w] /\ base'[w] = base[w]
           /\ context'[u] = base'[u]
           /\ context'[u] = context[t] \/ context'[u] = Empty
           /\ context' \in [Tasks -> Context] /\ base' \in [Tasks -> Context]
<1>1. /\ context \in [Tasks -> Context] /\ base \in [Tasks -> Context] /\ Empty \in Context
      /\ stack[t] \in Seq(Frame)
    BY DEF SpansInv, TypeOK, Empty, Context
<1>2. /\ t \in begun /\ u \notin begun /\ stack' = stack /\ snap' = snap /\ spans' = spans
      /\ gens' = gens
      /\ context' = [context EXCEPT ![u] = IF copies THEN context[t] ELSE Empty]
      /\ base' = [base EXCEPT ![u] =
                     IF copies THEN [context[t] EXCEPT !.parent = Innermost(t),
                                                       !.observation = Innermost(t)]
                     ELSE Empty]
    BY DEF Spawn, Free
<1>3. stack[u] = <<>>
    BY <1>2 DEF SpansInv, NothingBeforeBegin
<1>4. context[t].parent = Innermost(t)
  <2>1. Level(t, Len(stack[t])) = context[t] /\ Len(stack[t]) \in 0..Len(stack[t])
      BY <1>1 DEF Level
  <2>2. context[t].parent =
          IF Len(stack[t]) = 0 THEN base[t].parent ELSE stack[t][Len(stack[t])].span
      BY <2>1 DEF SpansInv, LevelsFollowScopes
  <2>3. Len(stack[t]) = 0 <=> stack[t] = <<>>
      BY <1>1
  <2>4. QED
      BY <2>2, <2>3 DEF Innermost, Last
<1>5. context[t].observation = context[t].parent
    BY DEF SpansInv, ContextsAreKnown, KnownContext
<1>6. [context[t] EXCEPT !.parent = Innermost(t), !.observation = Innermost(t)] = context[t]
    BY <1>1, <1>4, <1>5 DEF Context
<1>7. base' = [base EXCEPT ![u] = IF copies THEN context[t] ELSE Empty]
    BY <1>2, <1>6
<1>8. (IF copies THEN context[t] ELSE Empty) \in Context
    BY <1>1
<1>9. QED
    BY <1>1, <1>2, <1>3, <1>7, <1>8

-----------------------------------------------------------------------------
(* Each part of the invariant is preserved.                                *)

\* What was known stays known, in a context too.
LEMMA KnownStays ==
    ASSUME SpansInv, [Next]_vars, NEW c, KnownContext(c)
    PROVE  /\ c.trace \in Known' \cup {None} /\ c.parent \in Known' \cup {None}
           /\ c.observation = c.parent
BY SpansAreKept DEF KnownContext

\* The same of every context that a step leaves as it was.
LEMMA ContextsAreKnownStep ==
    ASSUME SpansInv, [Next]_vars
    PROVE  ContextsAreKnown'
<1> DEFINE OK(c) == /\ c.trace \in Known' \cup {None} /\ c.parent \in Known' \cup {None}
                    /\ c.observation = c.parent
<1>1. /\ OK(snap)
      /\ \A t \in Tasks : /\ OK(context[t]) /\ OK(base[t])
                          /\ \A i \in DOMAIN stack[t] : OK(stack[t][i].saved)
    BY KnownStays DEF SpansInv, ContextsAreKnown
<1>2. OK(Empty)
    BY DEF Empty
<1>3. TypeOK /\ stack \in [Tasks -> Seq(Frame)]
    BY DEF SpansInv, TypeOK
<1>4. /\ OK(snap')
      /\ \A t \in Tasks : /\ OK(context'[t]) /\ OK(base'[t])
                          /\ \A i \in DOMAIN stack'[t] : OK(stack'[t][i].saved)
  <2>1. ASSUME NEW t \in Tasks, NEW f \in Frame, NEW c \in Context, Entered(t, f, c)
        PROVE  <1>4
    <3>1. /\ stack' \in [Tasks -> Seq(Frame)]
          /\ \A u \in Tasks \ {t} : stack'[u] = stack[u] /\ context'[u] = context[u]
          /\ Len(stack[t]) \in Nat /\ Len(stack'[t]) = Len(stack[t]) + 1
          /\ \A i \in 1..Len(stack[t]) : stack'[t][i] = stack[t][i]
          /\ stack'[t][Len(stack[t]) + 1] = f
          /\ context'[t] = c
        BY <1>3, <2>1, EnteredFacts
    <3>2. OK(c)
      <4>1. CASE f.kind = "adopt"
          BY <1>1, <2>1, <4>1 DEF Entered
      <4>2. CASE f.kind # "adopt"
        <5>1. f.span \in Known' /\ c = Activate(context[t], f.span, Owns(f.span)')
            BY <2>1, <4>2 DEF Entered
        <5>2. /\ c.parent = f.span /\ c.observation = f.span
              /\ c.trace = f.span \/ c.trace = context[t].trace
            BY <5>1 DEF Activate, UseTrace, UseObservation, OK
        <5>3. QED
            BY <1>1, <5>1, <5>2
      <4>3. QED
          BY <4>1, <4>2
    <3>3. ASSUME NEW u \in Tasks, NEW i \in DOMAIN stack'[u]
          PROVE  OK(stack'[u][i].saved)
      <4>1. CASE u # t
          BY <1>1, <3>1, <4>1
      <4>2. CASE u = t
        <5>1. i \in 1..Len(stack[t]) \/ i = Len(stack[t]) + 1
            BY <3>1, <4>2
        <5>2. f.saved = context[t]
            BY <2>1 DEF Entered
        <5>3. 1..Len(stack[t]) = DOMAIN stack[t]
            BY <1>3
        <5>4. QED
            BY <1>1, <3>1, <4>2, <5>1, <5>2, <5>3
      <4>3. QED
          BY <4>1, <4>2
    <3>4. snap' = snap /\ base' = base
        BY <2>1 DEF Entered
    <3>5. \A u \in Tasks : OK(context'[u])
        BY <1>1, <3>1, <3>2
    <3> HIDE DEF OK
    <3>6. QED
        BY <1>1, <3>3, <3>4, <3>5
  <2>2. ASSUME NEW t \in Tasks, Left(t)
        PROVE  <1>4
    <3>1. /\ stack' \in [Tasks -> Seq(Frame)]
          /\ \A u \in Tasks \ {t} : stack'[u] = stack[u] /\ context'[u] = context[u]
          /\ Len(stack[t]) \in Nat /\ Len(stack[t]) > 0 /\ Len(stack'[t]) = Len(stack[t]) - 1
          /\ \A i \in 1..Len(stack'[t]) : stack'[t][i] = stack[t][i]
          /\ context'[t] = stack[t][Len(stack[t])].saved
        BY <1>3, <2>2, LeftFacts
    <3>2. 1..Len(stack[t]) = DOMAIN stack[t] /\ Len(stack[t]) \in 1..Len(stack[t])
        BY <1>3, <3>1
    <3>3. ASSUME NEW u \in Tasks, NEW i \in DOMAIN stack'[u]
          PROVE  OK(stack'[u][i].saved)
      <4>1. CASE u # t
          BY <1>1, <3>1, <4>1
      <4>2. CASE u = t
        <5>1. i \in 1..Len(stack'[t]) /\ i \in 1..Len(stack[t])
            BY <3>1, <4>2
        <5>2. QED
            BY <1>1, <3>1, <3>2, <4>2, <5>1
      <4>3. QED
          BY <4>1, <4>2
    <3>4. snap' = snap /\ base' = base
        BY <2>2 DEF Left, Exit
    <3> HIDE DEF OK
    <3>5. \A u \in Tasks : OK(context'[u])
        BY <1>1, <3>1, <3>2
    <3>6. QED
        BY <1>1, <3>3, <3>4, <3>5
  <2>3. ASSUME NEW t \in Tasks, NEW u \in Tasks, NEW copies \in BOOLEAN, Spawn(t, u, copies)
        PROVE  <1>4
    <3>1. /\ stack' = stack /\ snap' = snap
          /\ \A w \in Tasks \ {u} : context'[w] = context[w] /\ base'[w] = base[w]
          /\ context'[u] = base'[u]
          /\ context'[u] = context[t] \/ context'[u] = Empty
        BY <2>3, SpawnFacts
    <3> HIDE DEF OK
    <3>2. QED
        BY <1>1, <1>2, <3>1
  <2>4. ASSUME UNCHANGED taskVars,
               snap' = snap \/ \E t \in Tasks : t \in begun /\ snap' = context[t]
        PROVE  <1>4
    <3> HIDE DEF OK
    <3>1. QED
        BY <1>1, <2>4 DEF taskVars
  <2>5. QED
      BY <2>1, <2>2, <2>3, <2>4, ScopesCases DEF ScopesStep
<1>5. QED
    BY <1>4 DEF ContextsAreKnown, KnownContext

\* Every variable keeps its type; a new span comes after its trace and parent.
LEMMA TypingStep ==
    ASSUME SpansInv, [Next]_vars
    PROVE  TypeOK'
<1>1. TypeOK /\ ContextsAreKnown
    BY DEF SpansInv
<1>2. /\ context' \in [Tasks -> Context] /\ base' \in [Tasks -> Context] /\ begun' \subseteq Tasks
      /\ stack' \in [Tasks -> Seq(Frame)] /\ \A t \in Tasks : Len(stack'[t]) <= MaxDepth
      /\ snap' \in Context
  <2>0. /\ context \in [Tasks -> Context] /\ base \in [Tasks -> Context] /\ begun \subseteq Tasks
        /\ stack \in [Tasks -> Seq(Frame)] /\ \A t \in Tasks : Len(stack[t]) <= MaxDepth
        /\ snap \in Context
      BY <1>1 DEF TypeOK
  <2>1. ASSUME NEW t \in Tasks, NEW f \in Frame, NEW c \in Context, Entered(t, f, c)
        PROVE  <1>2
    <3>1. /\ stack' \in [Tasks -> Seq(Frame)] /\ context' \in [Tasks -> Context]
          /\ \A u \in Tasks \ {t} : stack'[u] = stack[u] /\ context'[u] = context[u]
          /\ Len(stack'[t]) <= MaxDepth
        BY <1>1, <2>1, EnteredFacts
    <3>2. base' = base /\ begun' = begun /\ snap' = snap
        BY <2>1 DEF Entered
    <3>3. QED
        BY <2>0, <3>1, <3>2
  <2>2. ASSUME NEW t \in Tasks, Left(t)
        PROVE  <1>2
    <3>1. /\ stack' \in [Tasks -> Seq(Frame)] /\ context' \in [Tasks -> Context]
          /\ \A u \in Tasks \ {t} : stack'[u] = stack[u] /\ context'[u] = context[u]
          /\ Len(stack'[t]) <= MaxDepth
        BY <1>1, <2>2, LeftFacts
    <3>2. base' = base /\ begun' = begun /\ snap' = snap
        BY <2>2 DEF Left, Exit
    <3>3. QED
        BY <2>0, <3>1, <3>2
  <2>3. ASSUME NEW t \in Tasks, NEW u \in Tasks, NEW copies \in BOOLEAN, Spawn(t, u, copies)
        PROVE  <1>2
    <3>1. /\ stack' = stack /\ snap' = snap
          /\ context' \in [Tasks -> Context] /\ base' \in [Tasks -> Context]
        BY <2>3, SpawnFacts
    <3>2. begun' = begun \cup {u}
        BY <2>3 DEF Spawn
    <3>3. QED
        BY <2>0, <3>1, <3>2
  <2>4. ASSUME UNCHANGED taskVars,
               snap' = snap \/ \E t \in Tasks : t \in begun /\ snap' = context[t]
        PROVE  <1>2
      BY <2>0, <2>4 DEF taskVars
  <2>5. QED
      BY <2>1, <2>2, <2>3, <2>4, ScopesCases DEF ScopesStep
<1>3. /\ spans' \in Seq(SpanRecord) /\ NumSpans' <= MaxSpans
      /\ \A s \in Known' : /\ spans'[s].trace <= s
                           /\ spans'[s].parent # None => spans'[s].parent < s
  <2>0. /\ spans \in Seq(SpanRecord) /\ NumSpans \in Nat /\ NumSpans <= MaxSpans /\ MaxSpans \in Nat
        /\ \A s \in Known : /\ spans[s].trace <= s
                            /\ spans[s].parent # None => spans[s].parent < s
        /\ None \notin Int
      BY <1>1, SpansAssumption DEF TypeOK, Known, NumSpans
  <2>1. ASSUME NEW t \in Tasks, NewSpan(t)
        PROVE  <1>3
    <3>1. KnownContext(context[t])
        BY <1>1 DEF ContextsAreKnown
    <3>2. /\ Known' = Known \cup {NumSpans + 1} /\ NumSpans + 1 \in Id
          /\ spans' \in Seq(SpanRecord) /\ NumSpans' = NumSpans + 1
          /\ \A r \in Known : spans'[r] = spans[r]
        BY <2>0, <2>1 DEF NewSpan, Known
    <3>3. LET s == NumSpans + 1
          IN  spans'[s].trace <= s /\ (spans'[s].parent # None => spans'[s].parent < s)
        BY <2>0, <2>1, <3>1 DEF NewSpan, KnownContext, Known
    <3>4. NumSpans' <= MaxSpans
        BY <2>0, <3>2 DEF Id
    <3>5. QED
        BY <2>0, <3>2, <3>3, <3>4
  <2>2. ASSUME spans' \in Seq(SpanRecord), NumSpans' = NumSpans
        PROVE  <1>3
    <3>1. Known' = Known
        BY <2>2 DEF Known
    <3>2. \A r \in Known : spans'[r].trace = spans[r].trace /\ spans'[r].parent = spans[r].parent
        BY SpansAreKept DEF Kept
    <3>3. QED
        BY <2>0, <2>2, <3>1, <3>2
  <2>3. spans' = spans => NumSpans' = NumSpans
      BY DEF NumSpans
  <2>4. \/ \E t \in Tasks : NewSpan(t)
        \/ spans' \in Seq(SpanRecord) /\ NumSpans' = NumSpans
      BY <2>0, <2>3, SpansCases DEF SpansStep, Finishes, Hands
  <2>5. QED
      BY <2>1, <2>2, <2>4
<1>4. closing' \in [Tasks -> Seq(Event)]
  <2>0. closing \in [Tasks -> Seq(Event)] /\ Known \subseteq Id
    <3>1. NumSpans \in Nat /\ NumSpans <= MaxSpans /\ MaxSpans \in Nat
        BY <1>1, SpansAssumption DEF TypeOK, NumSpans
    <3>2. QED
        BY <1>1, <3>1 DEF TypeOK, Known, Id
  <2>1. ASSUME NEW s \in Known
        PROVE  /\ <<>> \in Seq(Event) /\ <<<<"observation", s>>>> \in Seq(Event)
               /\ Events(s) \in Seq(Event)
    <3>1. <<"trace", s>> \in Event /\ <<"observation", s>> \in Event
        BY <2>0 DEF Event
    <3>2. \A e, f \in Event : <<>> \in Seq(Event) /\ <<e>> \in Seq(Event) /\ <<e, f>> \in Seq(Event)
        OBVIOUS
    <3>3. QED
        BY <3>1, <3>2 DEF Events
  <2>2. ASSUME NEW t \in Tasks, NEW s \in Known, Finishes(t, s)
        PROVE  closing' \in [Tasks -> Seq(Event)]
      BY <2>0, <2>1, <2>2 DEF Finishes
  <2>3. ASSUME NEW t \in Tasks, NEW s \in Known, Hands(t, s)
        PROVE  closing' \in [Tasks -> Seq(Event)]
      BY <2>0, <2>1, <2>3 DEF Hands
  <2>4. QED
      BY <2>0, <2>2, <2>3, SpansCases DEF SpansStep
<1>5. gens' \in [Gens -> Generator]
  <2>0. gens \in [Gens -> Generator] /\ Known \subseteq Id
    <3>1. NumSpans \in Nat /\ NumSpans <= MaxSpans /\ MaxSpans \in Nat
        BY <1>1, SpansAssumption DEF TypeOK, NumSpans
    <3>2. QED
        BY <1>1, <3>1 DEF TypeOK, Known, Id
  <2>1. ASSUME NEW g, NEW state \in {"running", "suspended", "bare", "done"},
               gens' = [gens EXCEPT ![g].state = state]
        PROVE  gens' \in [Gens -> Generator]
      BY <2>0, <2>1 DEF Generator
  <2>2. ASSUME NEW t \in Tasks, NEW g \in Gens, StartGenerator(t, g)
        PROVE  gens' \in [Gens -> Generator]
    <3>1. /\ NumSpans + 1 \in Id
          /\ gens' = [gens EXCEPT ![g] = [state |-> "running", span |-> NumSpans + 1]]
        BY <2>2, StartGeneratorDoes DEF NewSpan
    <3>2. QED
        BY <2>0, <3>1 DEF Generator
  <2>3. ASSUME NEW t \in Tasks, NEW g \in Gens,
               Resume(t, g) \/ CloseGenerator(t, g) \/ StartBare(t, g)
        PROVE  gens' \in [Gens -> Generator]
      BY <2>1, <2>3 DEF Resume, CloseGenerator, StartBare
  <2>4. ASSUME NEW t \in Tasks, Yield(t) \/ EndGenerator(t)
        PROVE  gens' \in [Gens -> Generator]
    <3>1. PICK g : g = Last(stack[t]).gen
        OBVIOUS
    <3>2. \/ gens' = [gens EXCEPT ![g].state = "suspended"]
          \/ gens' = [gens EXCEPT ![g].state = "done"]
        BY <2>4, <3>1 DEF Yield, EndGenerator, AfterBody
    <3>3. QED
        BY <2>1, <3>2
  <2>5. ASSUME NEW t \in Tasks,
               Call(t) \/ Return(t) \/ Adopt(t) \/ EndAdopt(t) \/ Emit(t) \/ Snapshot(t)
        PROVE  gens' = gens
      BY <2>5 DEF Call, Return, Adopt, EndAdopt, Emit, Snapshot
  <2>6. ASSUME NEW t \in Tasks, NEW u \in Tasks, NEW copies \in BOOLEAN, Spawn(t, u, copies)
        PROVE  gens' = gens
      BY <2>6 DEF Spawn
  <2>7. Configure \/ UNCHANGED vars => gens' = gens
      BY DEF Configure, vars
  <2>8. QED
      BY <2>0, <2>2, <2>3, <2>4, <2>5, <2>6, <2>7, NextCases
<1>6. enabled' \in BOOLEAN /\ wandered' \in BOOLEAN
  <2>0. enabled \in BOOLEAN /\ wandered \in BOOLEAN
      BY <1>1 DEF TypeOK
  <2>1. ASSUME NEW t \in Tasks, Call(t) \/ Return(t) \/ Adopt(t) \/ EndAdopt(t)
                                \/ Yield(t) \/ EndGenerator(t) \/ Emit(t) \/ Snapshot(t)
        PROVE  enabled' = enabled /\ wandered' = wandered
      BY <2>1 DEF Call, Return, Adopt, EndAdopt, Yield, EndGenerator, Emit, Snapshot
  <2>2. ASSUME NEW t \in Tasks, NEW g \in Gens,
               StartGenerator(t, g) \/ CloseGenerator(t, g) \/ StartBare(t, g)
        PROVE  enabled' = enabled /\ wandered' = wandered
      BY <2>2 DEF StartGenerator, CloseGenerator, StartBare
  <2>3. ASSUME NEW t \in Tasks, NEW g \in Gens, Resume(t, g)
        PROVE  enabled' = enabled /\ wandered' \in BOOLEAN
      BY <2>0, <2>3 DEF Resume
  <2>4. ASSUME NEW t \in Tasks, NEW u \in Tasks, NEW copies \in BOOLEAN, Spawn(t, u, copies)
        PROVE  enabled' = enabled /\ wandered' = wandered
      BY <2>4 DEF Spawn
  <2>5. /\ Configure => enabled' = FALSE /\ wandered' = wandered
        /\ UNCHANGED vars => enabled' = enabled /\ wandered' = wandered
      BY DEF Configure, vars
  <2>6. QED
      BY <2>0, <2>1, <2>2, <2>3, <2>4, <2>5, NextCases
<1>7. QED
    BY <1>2, <1>3, <1>4, <1>5, <1>6 DEF TypeOK, Known

\* The invariant of one level.
LevelFollows(t, i) ==
    /\ Level(t, i).parent = IF i = 0 THEN base[t].parent ELSE stack[t][i].span
    /\ LevelTrace(t, i)

\* Whether a scope sets the trace does not change while it is in use.
LEMMA SetsStays ==
    ASSUME SpansInv, [Next]_vars, NEW f, InUse(f)
    PROVE  Sets(f)' <=> Sets(f)
<1>1. CASE f.kind = "adopt"
    BY <1>1 DEF Sets
<1>2. CASE f.kind # "adopt"
  <2>1. f.span \in Known
      BY <1>2 DEF InUse
  <2>2. spans'[f.span].trace = spans[f.span].trace
      BY <2>1, SpansAreKept DEF Kept
  <2>3. QED
      BY <1>2, <2>2 DEF Sets, Owns
<1>3. QED
    BY <1>1, <1>2

\* What a call or a generator makes current is its span, and its trace if that is new.
LEMMA EnteredContext ==
    ASSUME SpansInv, [Next]_vars, NEW t \in Tasks, NEW f \in Frame, NEW c \in Context,
           Entered(t, f, c), f.kind # "adopt"
    PROVE  /\ c.parent = f.span /\ c.observation = f.span /\ f.span \in Known'
           /\ c.trace = IF Owns(f.span)' THEN f.span ELSE context[t].trace
<1>1. /\ f.span \in Known' /\ c = Activate(context[t], f.span, Owns(f.span)')
      /\ context[t] \in Context
    BY DEF Entered, SpansInv, TypeOK
<1>2. f.span \in Id
  <2>1. NumSpans' <= MaxSpans /\ MaxSpans \in Nat
      BY TypingStep, SpansAssumption DEF TypeOK
  <2>2. QED
      BY <1>1, <2>1, SpansAreKept DEF Known, Id
<1>3. PICK owns \in BOOLEAN : owns = Owns(f.span)'
    BY DEF Owns
<1>4. QED
    BY <1>1, <1>2, <1>3, ActivateFacts

\* A level that a step leaves as it was follows its scopes as it did.
LEMMA LevelStays ==
    ASSUME SpansInv, [Next]_vars, NEW t \in Tasks, NEW i \in 0..Len(stack[t]),
           base'[t] = base[t], \A k \in 1..i : stack'[t][k] = stack[t][k],
           Level(t, i)' = Level(t, i)
    PROVE  LevelFollows(t, i)'
<1>1. /\ Level(t, i).parent = IF i = 0 THEN base[t].parent ELSE stack[t][i].span
      /\ LevelTrace(t, i)
    BY DEF SpansInv, LevelsFollowScopes
<1>2. stack[t] \in Seq(Frame) /\ Len(stack[t]) \in Nat /\ DOMAIN stack[t] = 1..Len(stack[t])
    BY DEF SpansInv, TypeOK
<1>3. \A k \in 1..i : InUse(stack[t][k])
    BY <1>2 DEF SpansInv, ScopesAreInUse
<1>4. ASSUME NEW k \in 1..i
      PROVE  Sets(stack[t][k])' <=> Sets(stack[t][k])
  <2>1. PICK f : f = stack[t][k]
      OBVIOUS
  <2>2. (Sets(f)' <=> Sets(f)) /\ stack'[t][k] = f
      BY <1>3, <2>1, SetsStays
  <2>3. Sets(stack[t][k])' <=> Sets(f)'
      BY <2>2 DEF Sets, Owns
  <2>4. QED
      BY <2>1, <2>2, <2>3
<1>5. PICK j \in 0..i :
        /\ \A k \in 1..i : k > j => ~Sets(stack[t][k])
        /\ j > 0 => Sets(stack[t][j])
        /\ Level(t, i).trace = IF j = 0 THEN base[t].trace ELSE TraceSet(stack[t][j])
    BY <1>1 DEF LevelTrace
<1>6. /\ \A k \in 1..i : k > j => ~Sets(stack[t][k])'
      /\ j > 0 => Sets(stack[t][j])'
    BY <1>2, <1>4, <1>5
<1>7. Level(t, i)'.trace = IF j = 0 THEN base'[t].trace ELSE TraceSet(stack[t][j])'
    BY <1>2, <1>5 DEF TraceSet
<1>8. LevelTrace(t, i)'
    BY <1>6, <1>7 DEF LevelTrace
<1>9. (Level(t, i).parent = IF i = 0 THEN base[t].parent ELSE stack[t][i].span)'
    BY <1>1, <1>2
<1>10. QED
    BY <1>8, <1>9 DEF LevelFollows

\* Every level of every task follows its scopes, after any step.
LEMMA LevelsStep ==
    ASSUME SpansInv, [Next]_vars
    PROVE  LevelsFollowScopes'
<1>1. /\ TypeOK /\ stack \in [Tasks -> Seq(Frame)]
      /\ \A t \in Tasks : Len(stack[t]) \in Nat /\ DOMAIN stack[t] = 1..Len(stack[t])
    BY DEF SpansInv, TypeOK
<1>2. ASSUME NEW t \in Tasks, base'[t] = base[t], stack'[t] = stack[t], context'[t] = context[t],
             NEW i \in 0..Len(stack[t])
      PROVE  LevelFollows(t, i)'
  <2>1. Level(t, i)' = Level(t, i)
      BY <1>2 DEF Level
  <2>2. QED
      BY <1>2, <2>1, LevelStays
<1>3. ASSUME NEW t \in Tasks, NEW f \in Frame, NEW c \in Context, Entered(t, f, c)
      PROVE  \A u \in Tasks : \A i \in 0..Len(stack'[u]) : LevelFollows(u, i)'
  <2>1. /\ stack' \in [Tasks -> Seq(Frame)]
        /\ \A u \in Tasks \ {t} : stack'[u] = stack[u] /\ context'[u] = context[u]
        /\ Len(stack[t]) \in Nat /\ Len(stack'[t]) = Len(stack[t]) + 1
        /\ \A i \in 1..Len(stack[t]) : stack'[t][i] = stack[t][i]
        /\ stack'[t][Len(stack[t]) + 1] = f
        /\ context'[t] = c
      BY <1>1, <1>3, EnteredFacts
  <2>2. base' = base /\ f.saved = context[t]
      BY <1>3 DEF Entered
  <2>3. PICK n \in Nat : n = Len(stack[t])
      BY <2>1
  <2>4. ASSUME NEW i \in 0..n
        PROVE  LevelFollows(t, i)'
    <3>1. Level(t, i)' = Level(t, i)
      <4>1. CASE i < n
          BY <2>1, <2>3, <4>1 DEF Level
      <4>2. CASE i = n
          BY <2>1, <2>2, <2>3, <4>2 DEF Level
      <4>3. QED
          BY <2>3, <4>1, <4>2
    <3>2. \A k \in 1..i : stack'[t][k] = stack[t][k]
        BY <2>1, <2>3
    <3>3. QED
        BY <2>2, <2>3, <3>1, <3>2, LevelStays
  <2>5. LevelFollows(t, n + 1)'
    <3>1. Level(t, n + 1)' = c /\ stack'[t][n + 1] = f
        BY <2>1, <2>3 DEF Level
    <3>2. c.parent = f.span
      <4>1. CASE f.kind = "adopt"
          BY <1>3, <4>1 DEF Entered
      <4>2. CASE f.kind # "adopt"
          BY <1>3, <4>2, EnteredContext
      <4>3. QED
          BY <4>1, <4>2
    <3>3. CASE Sets(f)'
      <4>1. c.trace = TraceSet(f)
        <5>1. CASE f.kind = "adopt"
            BY <1>3, <5>1 DEF Entered, TraceSet
        <5>2. CASE f.kind # "adopt"
          <6>1. Owns(f.span)'
              BY <3>3, <5>2 DEF Sets
          <6>2. QED
              BY <1>3, <5>2, <6>1, EnteredContext DEF TraceSet
        <5>3. QED
            BY <5>1, <5>2
      <4>2. /\ \A k \in 1..(n + 1) : k > n + 1 => ~Sets(stack[t][k])'
            /\ Sets(stack[t][n + 1])'
            /\ Level(t, n + 1)'.trace = TraceSet(stack[t][n + 1])'
          BY <2>3, <3>1, <3>3, <4>1 DEF Sets, Owns, TraceSet
      <4>3. n + 1 \in 0..(n + 1) /\ n + 1 # 0
          BY <2>3
      <4>4. LevelTrace(t, n + 1)'
          BY <4>2, <4>3 DEF LevelTrace
      <4>5. QED
          BY <2>3, <3>1, <3>2, <4>3, <4>4 DEF LevelFollows
    <3>4. CASE ~Sets(f)'
      <4>1. LevelTrace(t, n)'
          BY <2>3, <2>4 DEF LevelFollows
      <4>2. PICK j \in 0..n :
              /\ \A k \in 1..n : k > j => ~Sets(stack[t][k])'
              /\ j > 0 => Sets(stack[t][j])'
              /\ Level(t, n)'.trace = IF j = 0 THEN base'[t].trace ELSE TraceSet(stack[t][j])'
          BY <4>1 DEF LevelTrace
      <4>3. Level(t, n)' = context[t]
          BY <2>1, <2>2, <2>3 DEF Level
      <4>4. c.trace = context[t].trace
        <5>1. f.kind # "adopt" /\ ~Owns(f.span)'
            BY <3>4 DEF Sets
        <5>2. QED
            BY <1>3, <5>1, EnteredContext
      <4>5. ~Sets(stack[t][n + 1])'
          BY <3>1, <3>4 DEF Sets, Owns
      <4>6. j \in 0..(n + 1) /\ \A k \in 1..(n + 1) : k \in 1..n \/ k = n + 1
          BY <2>3
      <4>7. \A k \in 1..(n + 1) : k > j => ~Sets(stack[t][k])'
          BY <4>2, <4>5, <4>6
      <4>8. Level(t, n + 1)'.trace = IF j = 0 THEN base'[t].trace ELSE TraceSet(stack[t][j])'
          BY <3>1, <4>2, <4>3, <4>4
      <4>9. LevelTrace(t, n + 1)'
          BY <4>2, <4>6, <4>7, <4>8 DEF LevelTrace
      <4>10. QED
          BY <2>3, <3>1, <3>2, <4>9 DEF LevelFollows
    <3>5. QED
        BY <3>3, <3>4
  <2>6. ASSUME NEW u \in Tasks, NEW i \in 0..Len(stack'[u])
        PROVE  LevelFollows(u, i)'
    <3>1. CASE u # t
        BY <1>2, <2>1, <2>2, <3>1
    <3>2. CASE u = t
      <4>1. i \in 0..n \/ i = n + 1
          BY <2>1, <2>3, <3>2
      <4>2. QED
          BY <2>4, <2>5, <3>2, <4>1
    <3>3. QED
        BY <3>1, <3>2
  <2>7. QED
      BY <2>6
<1>4. ASSUME NEW t \in Tasks, Left(t)
      PROVE  \A u \in Tasks : \A i \in 0..Len(stack'[u]) : LevelFollows(u, i)'
  <2>1. /\ stack' \in [Tasks -> Seq(Frame)]
        /\ \A u \in Tasks \ {t} : stack'[u] = stack[u] /\ context'[u] = context[u]
        /\ Len(stack[t]) \in Nat /\ Len(stack[t]) > 0 /\ Len(stack'[t]) = Len(stack[t]) - 1
        /\ \A i \in 1..Len(stack'[t]) : stack'[t][i] = stack[t][i]
        /\ context'[t] = stack[t][Len(stack[t])].saved
      BY <1>1, <1>4, LeftFacts
  <2>2. base' = base
      BY <1>4 DEF Left, Exit
  <2>3. PICK n \in Nat : n = Len(stack'[t]) /\ Len(stack[t]) = n + 1
      BY <2>1
  <2>4. ASSUME NEW i \in 0..n
        PROVE  LevelFollows(t, i)'
    <3>1. Level(t, i)' = Level(t, i)
      <4>1. CASE i < n
          BY <2>1, <2>3, <4>1 DEF Level
      <4>2. CASE i = n
          BY <2>1, <2>3, <4>2 DEF Level
      <4>3. QED
          BY <2>3, <4>1, <4>2
    <3>2. i \in 0..Len(stack[t]) /\ \A k \in 1..i : stack'[t][k] = stack[t][k]
        BY <2>1, <2>3
    <3>3. QED
        BY <2>2, <3>1, <3>2, LevelStays
  <2>5. ASSUME NEW u \in Tasks, NEW i \in 0..Len(stack'[u])
        PROVE  LevelFollows(u, i)'
    <3>1. CASE u # t
        BY <1>2, <2>1, <2>2, <3>1
    <3>2. CASE u = t
        BY <2>3, <2>4, <3>2
    <3>3. QED
        BY <3>1, <3>2
  <2>6. QED
      BY <2>5
<1>5. ASSUME NEW t \in Tasks, NEW u \in Tasks, NEW copies \in BOOLEAN, Spawn(t, u, copies)
      PROVE  \A w \in Tasks : \A i \in 0..Len(stack'[w]) : LevelFollows(w, i)'
  <2>1. /\ stack' = stack /\ stack[u] = <<>>
        /\ \A w \in Tasks \ {u} : context'[w] = context[w] /\ base'[w] = base[w]
        /\ context'[u] = base'[u]
      BY <1>5, SpawnFacts
  <2>2. Len(stack'[u]) = 0 /\ Level(u, 0)' = base'[u]
      BY <2>1 DEF Level
  <2>3. LevelTrace(u, 0)'
      BY <2>2 DEF LevelTrace
  <2>4. LevelFollows(u, 0)'
      BY <2>2, <2>3 DEF LevelFollows
  <2>5. ASSUME NEW w \in Tasks, NEW i \in 0..Len(stack'[w])
        PROVE  LevelFollows(w, i)'
    <3>1. CASE w # u
        BY <1>2, <2>1, <3>1
    <3>2. CASE w = u
      <4>1. i = 0
          BY <2>2, <3>2
      <4>2. QED
          BY <2>4, <3>2, <4>1
    <3>3. QED
        BY <3>1, <3>2
  <2>6. QED
      BY <2>5
<1>6. ASSUME UNCHANGED taskVars
      PROVE  \A u \in Tasks : \A i \in 0..Len(stack'[u]) : LevelFollows(u, i)'
    BY <1>2, <1>6 DEF taskVars
<1>7. \A u \in Tasks : \A i \in 0..Len(stack'[u]) : LevelFollows(u, i)'
    BY <1>3, <1>4, <1>5, <1>6, ScopesCases DEF ScopesStep
<1>8. QED
    BY <1>7 DEF LevelFollows, LevelsFollowScopes

\* Only a task that has begun does anything.
LEMMA BeginStep ==
    ASSUME SpansInv, [Next]_vars
    PROVE  NothingBeforeBegin'
<1>1. /\ NothingBeforeBegin /\ closing \in [Tasks -> Seq(Event)] /\ TypeOK
    BY DEF SpansInv, TypeOK
<1>2. /\ begun \subseteq begun'
      /\ \A u \in Tasks : u \notin begun' => stack'[u] = <<>>
  <2>1. ASSUME NEW t \in Tasks, NEW f \in Frame, NEW c \in Context, Entered(t, f, c)
        PROVE  <1>2
    <3>1. begun' = begun /\ t \in begun
        BY <2>1 DEF Entered
    <3>2. \A u \in Tasks \ {t} : stack'[u] = stack[u]
        BY <1>1, <2>1, EnteredFacts
    <3>3. QED
        BY <1>1, <3>1, <3>2 DEF NothingBeforeBegin
  <2>2. ASSUME NEW t \in Tasks, Left(t)
        PROVE  <1>2
    <3>1. begun' = begun /\ t \in begun
        BY <2>2 DEF Left, Exit
    <3>2. \A u \in Tasks \ {t} : stack'[u] = stack[u]
        BY <1>1, <2>2, LeftFacts
    <3>3. QED
        BY <1>1, <3>1, <3>2 DEF NothingBeforeBegin
  <2>3. ASSUME NEW t \in Tasks, NEW u \in Tasks, NEW copies \in BOOLEAN, Spawn(t, u, copies)
        PROVE  <1>2
      BY <1>1, <2>3 DEF Spawn, NothingBeforeBegin
  <2>4. UNCHANGED taskVars => <1>2
      BY <1>1 DEF taskVars, NothingBeforeBegin
  <2>5. QED
      BY <2>1, <2>2, <2>3, <2>4, ScopesCases DEF ScopesStep
<1>3. \A u \in Tasks : u \notin begun => closing'[u] = <<>>
  <2>1. ASSUME NEW t \in Tasks, NEW s \in Known, Finishes(t, s)
        PROVE  <1>3
      BY <1>1, <2>1 DEF Finishes, NothingBeforeBegin
  <2>2. ASSUME NEW t \in Tasks, NEW s \in Known, Hands(t, s)
        PROVE  <1>3
    <3>1. closing[t] # <<>>
        BY <2>2 DEF Hands
    <3>2. t \in begun
        BY <1>1, <3>1 DEF NothingBeforeBegin
    <3>3. \A u \in Tasks \ {t} : closing'[u] = closing[u]
        BY <1>1, <2>2 DEF Hands
    <3>4. QED
        BY <1>1, <3>2, <3>3 DEF NothingBeforeBegin
  <2>3. closing' = closing => <1>3
      BY <1>1 DEF NothingBeforeBegin
  <2>4. QED
      BY <2>1, <2>2, <2>3, SpansCases DEF SpansStep
<1>4. QED
    BY <1>2, <1>3 DEF NothingBeforeBegin

\* A context stays coherent.
LEMMA CoherentStays ==
    ASSUME SpansInv, [Next]_vars, NEW c, Coherent(c)
    PROVE  Coherent(c)'
<1>1. CASE c.parent = None
    BY <1>1 DEF Coherent
<1>2. CASE c.parent # None
    BY <1>2, SpansAreKept DEF Coherent, Kept
<1>3. QED
    BY <1>1, <1>2

\* A span that opens in a coherent context nests in its trace.
LEMMA NestingStep ==
    ASSUME SpansInv, [Next]_vars, ~wandered
    PROVE  NestsInOneTrace'
<1>1. /\ NestsInOneTrace /\ \A t \in Tasks : Coherent(context[t]) /\ KnownContext(context[t])
      /\ NumSpans \in Nat /\ None \notin Int
    BY SpansAreKept, SpansAssumption DEF SpansInv, ContextsCohere, ContextsAreKnown
<1>2. ASSUME NEW s \in Known
      PROVE  /\ Owns(s)' => spans'[s].parent = None
             /\ ~Owns(s)' => /\ spans'[s].parent # None
                             /\ spans'[spans'[s].parent].trace = spans'[s].trace
  <2>1. Kept(s) /\ (Owns(s)' <=> Owns(s))
      BY SpansAreKept DEF Kept, Owns
  <2>2. CASE Owns(s)
      BY <1>1, <2>1, <2>2 DEF NestsInOneTrace, Known, Kept
  <2>3. CASE ~Owns(s)
    <3>1. spans[s].parent # None /\ spans[spans[s].parent].trace = spans[s].trace
        BY <1>1, <2>3 DEF NestsInOneTrace, Known
    <3>2. spans[s].parent \in Known
      <4>1. spans[s] \in SpanRecord /\ spans[s].parent < s
          BY <3>1 DEF SpansInv, TypeOK, Known, NumSpans
      <4>2. QED
          BY <1>1, <3>1, <4>1 DEF SpanRecord, Id, Known
    <3>3. spans'[spans[s].parent].trace = spans[spans[s].parent].trace
        BY <3>2, SpansAreKept DEF Kept
    <3>4. QED
        BY <2>1, <2>3, <3>1, <3>3 DEF Kept
  <2>4. QED
      BY <2>2, <2>3
<1>3. ASSUME NEW t \in Tasks, NewSpan(t), NEW s, s = NumSpans + 1
      PROVE  /\ Owns(s)' => spans'[s].parent = None
             /\ ~Owns(s)' => /\ spans'[s].parent # None
                             /\ spans'[spans'[s].parent].trace = spans'[s].trace
  <2>1. /\ spans'[s].parent = context[t].parent
        /\ spans'[s].trace = IF context[t].trace = None THEN s ELSE context[t].trace
        /\ s \notin Known
      BY <1>1, <1>3 DEF NewSpan, Known
  <2>2. CASE context[t].trace = None
    <3>1. Owns(s)'
        BY <2>1, <2>2 DEF Owns
    <3>2. context[t].parent = None
      <4>1. context[t].parent \in Known => FALSE
        <5>1. SUFFICES ASSUME context[t].parent \in Known
                       PROVE  FALSE
            OBVIOUS
        <5>2. context[t].parent # None
            BY <1>1, <5>1 DEF Known
        <5>3. spans[context[t].parent] \in SpanRecord /\ spans[context[t].parent].trace = None
            BY <1>1, <2>2, <5>1, <5>2 DEF Coherent, SpansInv, TypeOK, Known, NumSpans
        <5>4. QED
            BY <1>1, <5>3 DEF SpanRecord, Id
      <4>2. QED
          BY <1>1, <4>1 DEF KnownContext
    <3>3. QED
        BY <2>1, <3>1, <3>2
  <2>3. CASE context[t].trace # None
    <3>1. context[t].parent # None /\ context[t].parent \in Known
          /\ spans[context[t].parent].trace = context[t].trace
        BY <1>1, <2>3 DEF Coherent
    <3>2. spans'[context[t].parent].trace = context[t].trace
        BY <3>1, SpansAreKept DEF Kept
    <3>3. ~Owns(s)'
        BY <1>1, <2>1, <2>3 DEF Owns, KnownContext
    <3>4. QED
        BY <2>1, <2>3, <3>1, <3>2, <3>3
  <2>4. QED
      BY <2>2, <2>3
<1>4. QED
  <2>1. CASE Known' = Known
      BY <1>2, <2>1 DEF NestsInOneTrace, Known
  <2>2. ASSUME NEW t \in Tasks, NewSpan(t)
        PROVE  NestsInOneTrace'
    <3>1. Known' = Known \cup {NumSpans + 1}
        BY <1>1, <2>2 DEF NewSpan, Known
    <3>2. PICK n : n = NumSpans + 1
        OBVIOUS
    <3>3. ASSUME NEW s \in Known'
          PROVE  /\ Owns(s)' => spans'[s].parent = None
                 /\ ~Owns(s)' => /\ spans'[s].parent # None
                                 /\ spans'[spans'[s].parent].trace = spans'[s].trace
        BY <1>2, <1>3, <2>2, <3>1, <3>2
    <3>4. QED
        BY <3>3 DEF NestsInOneTrace, Known
  <2>3. NumSpans' = NumSpans => Known' = Known
      BY DEF Known
  <2>4. spans' = spans => NumSpans' = NumSpans
      BY DEF NumSpans
  <2>5. QED
      BY <2>1, <2>2, <2>3, <2>4, SpansCases DEF SpansStep, Finishes, Hands

\* While nothing wanders, every context stays in one trace.
LEMMA CohereStep ==
    ASSUME SpansInv, [Next]_vars
    PROVE  ContextsCohere'
<1> SUFFICES ASSUME ~wandered'
             PROVE  /\ NestsInOneTrace'
                    /\ Coherent(snap)'
                    /\ \A t \in Tasks : /\ Coherent(context[t])' /\ Coherent(base[t])'
                                        /\ \A i \in DOMAIN stack'[t] : Coherent(stack[t][i].saved)'
    BY DEF ContextsCohere
<1>1. ~wandered
    BY WanderedStays
<1> DEFINE OK(c) == IF c.parent = None THEN c.trace = None
                    ELSE c.parent \in Known' /\ c.trace = spans'[c.parent].trace
<1>2. ASSUME NEW c, Coherent(c)
      PROVE  OK(c)
    BY <1>2, CoherentStays DEF Coherent
<1>3. /\ OK(snap)
      /\ \A t \in Tasks : /\ OK(context[t]) /\ OK(base[t])
                          /\ \A i \in DOMAIN stack[t] : OK(stack[t][i].saved)
  <2> HIDE DEF OK
  <2>1. QED
      BY <1>1, <1>2 DEF SpansInv, ContextsCohere
<1>4. OK(Empty)
    BY DEF Empty
<1>5. /\ TypeOK /\ stack \in [Tasks -> Seq(Frame)]
      /\ \A t \in Tasks : DOMAIN stack[t] = 1..Len(stack[t])
    BY DEF SpansInv, TypeOK
<1>6. None \notin Known'
    BY SpansAreKept, SpansAssumption DEF Known
<1>7. /\ OK(snap')
      /\ \A t \in Tasks : /\ OK(context'[t]) /\ OK(base'[t])
                          /\ \A i \in DOMAIN stack'[t] : OK(stack'[t][i].saved)
  <2>1. ASSUME NEW t \in Tasks, NEW f \in Frame, NEW c \in Context, Entered(t, f, c)
        PROVE  <1>7
    <3>1. /\ stack' \in [Tasks -> Seq(Frame)]
          /\ \A u \in Tasks \ {t} : stack'[u] = stack[u] /\ context'[u] = context[u]
          /\ Len(stack[t]) \in Nat /\ Len(stack'[t]) = Len(stack[t]) + 1
          /\ \A i \in 1..Len(stack[t]) : stack'[t][i] = stack[t][i]
          /\ stack'[t][Len(stack[t]) + 1] = f
          /\ context'[t] = c
        BY <1>5, <2>1, EnteredFacts
    <3>2. OK(c)
      <4>1. CASE f.kind = "adopt"
          BY <1>3, <2>1, <4>1 DEF Entered
      <4>2. CASE f.kind # "adopt"
        <5>1. /\ c.parent = f.span /\ f.span \in Known'
              /\ c.trace = IF Owns(f.span)' THEN f.span ELSE context[t].trace
            BY <2>1, <4>2, EnteredContext
        <5>2. CASE Owns(f.span)'
            BY <1>6, <5>1, <5>2 DEF Owns
        <5>3. CASE ~Owns(f.span)'
          <6>1. context[t].trace = spans'[f.span].trace
              BY <2>1, <4>2, <5>3 DEF Entered
          <6>2. QED
              BY <1>6, <5>1, <5>3, <6>1
        <5>4. QED
            BY <5>2, <5>3
      <4>3. QED
          BY <4>1, <4>2
    <3>3. snap' = snap /\ base' = base /\ f.saved = context[t]
        BY <2>1 DEF Entered
    <3> HIDE DEF OK
    <3>4. ASSUME NEW u \in Tasks, NEW i \in DOMAIN stack'[u]
          PROVE  OK(stack'[u][i].saved)
      <4>1. CASE u # t
          BY <1>3, <3>1, <4>1
      <4>2. CASE u = t
        <5>1. i \in DOMAIN stack[t] \/ i = Len(stack[t]) + 1
            BY <1>5, <3>1, <4>2
        <5>2. QED
            BY <1>3, <1>5, <3>1, <3>3, <4>2, <5>1
      <4>3. QED
          BY <4>1, <4>2
    <3>5. \A u \in Tasks : OK(context'[u])
        BY <1>3, <3>1, <3>2
    <3>6. QED
        BY <1>3, <3>3, <3>4, <3>5
  <2>2. ASSUME NEW t \in Tasks, Left(t)
        PROVE  <1>7
    <3>1. /\ stack' \in [Tasks -> Seq(Frame)]
          /\ \A u \in Tasks \ {t} : stack'[u] = stack[u] /\ context'[u] = context[u]
          /\ Len(stack[t]) \in Nat /\ Len(stack[t]) > 0 /\ Len(stack'[t]) = Len(stack[t]) - 1
          /\ \A i \in 1..Len(stack'[t]) : stack'[t][i] = stack[t][i]
          /\ context'[t] = stack[t][Len(stack[t])].saved
        BY <1>5, <2>2, LeftFacts
    <3>2. Len(stack[t]) \in DOMAIN stack[t] /\ snap' = snap /\ base' = base
        BY <1>5, <2>2, <3>1 DEF Left, Exit
    <3> HIDE DEF OK
    <3>3. ASSUME NEW u \in Tasks, NEW i \in DOMAIN stack'[u]
          PROVE  OK(stack'[u][i].saved)
      <4>1. CASE u # t
          BY <1>3, <3>1, <4>1
      <4>2. CASE u = t
        <5>1. i \in 1..Len(stack'[t]) /\ i \in DOMAIN stack[t]
            BY <1>5, <3>1, <4>2
        <5>2. QED
            BY <1>3, <3>1, <4>2, <5>1
      <4>3. QED
          BY <4>1, <4>2
    <3>4. \A u \in Tasks : OK(context'[u])
        BY <1>3, <3>1, <3>2
    <3>5. QED
        BY <1>3, <3>2, <3>3, <3>4
  <2>3. ASSUME NEW t \in Tasks, NEW u \in Tasks, NEW copies \in BOOLEAN, Spawn(t, u, copies)
        PROVE  <1>7
    <3>1. /\ stack' = stack /\ snap' = snap
          /\ \A w \in Tasks \ {u} : context'[w] = context[w] /\ base'[w] = base[w]
          /\ context'[u] = base'[u]
          /\ context'[u] = context[t] \/ context'[u] = Empty
        BY <2>3, SpawnFacts
    <3> HIDE DEF OK
    <3>2. QED
        BY <1>3, <1>4, <3>1
  <2>4. ASSUME UNCHANGED taskVars,
               snap' = snap \/ \E t \in Tasks : t \in begun /\ snap' = context[t]
        PROVE  <1>7
    <3> HIDE DEF OK
    <3>1. QED
        BY <1>3, <2>4 DEF taskVars
  <2>5. QED
      BY <2>1, <2>2, <2>3, <2>4, ScopesCases DEF ScopesStep
<1>8. NestsInOneTrace'
    BY <1>1, NestingStep
<1>9. QED
    BY <1>7, <1>8 DEF Coherent

-----------------------------------------------------------------------------
(* Who is in which scope.                                                  *)

\* Entering adds one scope, in one place ...
LEMMA EnteredScopes ==
    ASSUME TypeOK, NEW t \in Tasks, NEW f \in Frame, NEW c \in Context, Entered(t, f, c)
    PROVE  \E n \in Nat :
             /\ n \in DOMAIN stack'[t] /\ stack'[t][n] = f /\ n \notin DOMAIN stack[t]
             /\ \A u \in Tasks : \A i \in DOMAIN stack[u] :
                  i \in DOMAIN stack'[u] /\ stack'[u][i] = stack[u][i]
             /\ \A u \in Tasks : \A i \in DOMAIN stack'[u] :
                  i \in DOMAIN stack[u] \/ (u = t /\ i = n)
<1>1. /\ stack \in [Tasks -> Seq(Frame)] /\ stack' \in [Tasks -> Seq(Frame)]
      /\ \A u \in Tasks \ {t} : stack'[u] = stack[u]
      /\ Len(stack[t]) \in Nat /\ Len(stack'[t]) = Len(stack[t]) + 1
      /\ \A i \in 1..Len(stack[t]) : stack'[t][i] = stack[t][i]
      /\ stack'[t][Len(stack[t]) + 1] = f
    BY EnteredFacts DEF TypeOK
<1>2. PICK m \in Nat : m = Len(stack[t])
    BY <1>1
<1>3. DOMAIN stack[t] = 1..m /\ DOMAIN stack'[t] = 1..(m + 1)
    BY <1>1, <1>2
<1>4. m + 1 \in DOMAIN stack'[t] /\ stack'[t][m + 1] = f /\ m + 1 \notin DOMAIN stack[t]
    BY <1>1, <1>2, <1>3
<1>5. \A i \in DOMAIN stack[t] : i \in DOMAIN stack'[t] /\ stack'[t][i] = stack[t][i]
    BY <1>1, <1>2, <1>3
<1>6. \A i \in DOMAIN stack'[t] : i \in DOMAIN stack[t] \/ i = m + 1
    BY <1>2, <1>3
<1>7. PICK n \in Nat : n = m + 1
    BY <1>2
<1>8. \A u \in Tasks : \A i \in DOMAIN stack[u] :
        i \in DOMAIN stack'[u] /\ stack'[u][i] = stack[u][i]
    BY <1>1, <1>5
<1>9. \A u \in Tasks : \A i \in DOMAIN stack'[u] : i \in DOMAIN stack[u] \/ (u = t /\ i = n)
    BY <1>1, <1>6, <1>7
<1>10. QED
    BY <1>4, <1>7, <1>8, <1>9

\* ... and leaving takes it away.
LEMMA LeftScopes ==
    ASSUME TypeOK, NEW t \in Tasks, Left(t)
    PROVE  \E n \in Nat :
             /\ n \in DOMAIN stack[t] /\ stack[t][n] = Last(stack[t]) /\ n \notin DOMAIN stack'[t]
             /\ \A u \in Tasks : \A i \in DOMAIN stack'[u] :
                  i \in DOMAIN stack[u] /\ stack'[u][i] = stack[u][i]
             /\ \A u \in Tasks : \A i \in DOMAIN stack[u] :
                  i \in DOMAIN stack'[u] \/ (u = t /\ i = n)
<1>1. /\ stack \in [Tasks -> Seq(Frame)] /\ stack' \in [Tasks -> Seq(Frame)]
      /\ \A u \in Tasks \ {t} : stack'[u] = stack[u]
      /\ Len(stack[t]) \in Nat /\ Len(stack[t]) > 0 /\ Len(stack'[t]) = Len(stack[t]) - 1
      /\ \A i \in 1..Len(stack'[t]) : stack'[t][i] = stack[t][i]
      /\ Last(stack[t]) = stack[t][Len(stack[t])]
    BY LeftFacts DEF TypeOK
<1>2. PICK m \in Nat : m = Len(stack'[t])
    BY <1>1
<1>3. DOMAIN stack'[t] = 1..m /\ DOMAIN stack[t] = 1..(m + 1)
    BY <1>1, <1>2
<1>4. m + 1 \in DOMAIN stack[t] /\ stack[t][m + 1] = Last(stack[t]) /\ m + 1 \notin DOMAIN stack'[t]
    BY <1>1, <1>2, <1>3
<1>5. \A i \in DOMAIN stack'[t] : i \in DOMAIN stack[t] /\ stack'[t][i] = stack[t][i]
    BY <1>1, <1>2, <1>3
<1>6. \A i \in DOMAIN stack[t] : i \in DOMAIN stack'[t] \/ i = m + 1
    BY <1>2, <1>3
<1>7. PICK n \in Nat : n = m + 1
    BY <1>2
<1>8. \A u \in Tasks : \A i \in DOMAIN stack'[u] :
        i \in DOMAIN stack[u] /\ stack'[u][i] = stack[u][i]
    BY <1>1, <1>5
<1>9. \A u \in Tasks : \A i \in DOMAIN stack[u] : i \in DOMAIN stack'[u] \/ (u = t /\ i = n)
    BY <1>1, <1>6, <1>7
<1>10. QED
    BY <1>4, <1>7, <1>8, <1>9

\* A scope stays in use if its span does not end and its generator runs on.
LEMMA InUseStays ==
    ASSUME SpansInv, [Next]_vars, NEW f \in Frame, InUse(f),
           f.kind # "adopt" => ~spans'[f.span].ended,
           \A g \in Gens : \/ gens'[g] = gens[g]
                           \/ /\ f.kind = "generator" => f.gen # g
                              /\ f.kind = "call" => gens'[g].span # f.span
    PROVE  InUse(f)'
<1>1. Known \subseteq Known'
    BY SpansAreKept
<1>2. CASE f.kind = "adopt"
    BY <1>1, <1>2 DEF InUse
<1>3. CASE f.kind = "call"
    BY <1>1, <1>3 DEF InUse
<1>4. CASE f.kind # "adopt" /\ f.kind # "call"
  <2>1. /\ f.span \in Known /\ f.gen \in Gens
        /\ gens[f.gen] = [state |-> "running", span |-> f.span]
      BY <1>4 DEF InUse
  <2>2. ASSUME f.kind = "generator"
        PROVE  gens'[f.gen] = gens[f.gen]
      BY <2>1, <2>2
  <2>3. QED
      BY <1>1, <1>4, <2>1, <2>2 DEF InUse, Frame
<1>5. QED
    BY <1>2, <1>3, <1>4

\* The steps that enter and leave no scope, and end no span.
Bystanding ==
    /\ stack' = stack /\ Known' = Known
    /\ \A s \in Known : spans'[s].ended <=> spans[s].ended
    /\ \/ gens' = gens
       \/ \E g \in Gens : gens[g].state = "fresh" /\ gens' = [gens EXCEPT ![g].state = "bare"]

\* Handing over, annotating, spawning and configuring are among them.
LEMMA BystandingSteps ==
    ASSUME SpansInv,
           \/ \E t \in Tasks : Emit(t) \/ Snapshot(t)
           \/ \E t \in Tasks, g \in Gens : StartBare(t, g)
           \/ \E t, u \in Tasks, copies \in BOOLEAN : Spawn(t, u, copies)
           \/ Configure
           \/ UNCHANGED vars
    PROVE  Bystanding
<1>1. ASSUME NEW t \in Tasks, Emit(t)
      PROVE  Bystanding
  <2>1. PICK s \in Known : Hands(t, s)
      BY <1>1, EmitDoes
  <2>2. stack' = stack /\ gens' = gens
      BY <1>1, EmitDoes DEF taskVars
  <2>3. spans[s] \in SpanRecord
      BY DEF SpansInv, TypeOK, Known, NumSpans
  <2>4. spans'[s].ended <=> spans[s].ended
      BY <2>1, <2>3 DEF Hands, SpanRecord
  <2>5. Known' = Known /\ \A r \in Known \ {s} : spans'[r] = spans[r]
      BY <2>1 DEF Hands, Known
  <2>6. QED
      BY <2>2, <2>4, <2>5 DEF Bystanding
<1>2. spans' = spans => Known' = Known
    BY DEF Known, NumSpans
<1>3. ASSUME stack' = stack, spans' = spans, gens' = gens
      PROVE  Bystanding
    BY <1>2, <1>3 DEF Bystanding
<1>4. ASSUME NEW t \in Tasks, NEW g \in Gens, StartBare(t, g)
      PROVE  Bystanding
    BY <1>2, <1>4 DEF StartBare, taskVars, Bystanding
<1>5. ASSUME NEW t \in Tasks, Snapshot(t)
      PROVE  Bystanding
    BY <1>3, <1>5 DEF Snapshot, taskVars
<1>6. ASSUME NEW t \in Tasks, NEW u \in Tasks, NEW copies \in BOOLEAN, Spawn(t, u, copies)
      PROVE  Bystanding
    BY <1>3, <1>6, SpawnFacts
<1>7. Configure \/ UNCHANGED vars => Bystanding
    BY <1>3 DEF Configure, vars, taskVars
<1>8. QED
    BY <1>1, <1>4, <1>5, <1>6, <1>7

\* A new span is nobody's yet.
LEMMA NewIsNobodys ==
    ASSUME SpansInv, NEW t \in Tasks, NewSpan(t), NEW n, n = NumSpans + 1
    PROVE  /\ Known' = Known \cup {n} /\ n \notin Known /\ n # None /\ ~spans'[n].ended
           /\ \A g \in Gens : gens[g].span # n
           /\ \A r \in Known : spans'[r] = spans[r]
<1>1. NumSpans \in Nat /\ None \notin Int
    BY SpansAssumption DEF SpansInv, TypeOK, NumSpans
<1>2. Known' = Known \cup {n} /\ n \notin Known /\ n # None
    BY <1>1 DEF NewSpan, Known
<1>3. ~spans'[n].ended /\ \A r \in Known : spans'[r] = spans[r]
    BY DEF NewSpan
<1>4. \A g \in Gens : gens[g].span # n
    BY <1>2 DEF SpansInv, GeneratorsOwnSpans
<1>5. QED
    BY <1>2, <1>3, <1>4

\* The generators' spans stay theirs, and open while they run or wait.
LEMMA GeneratorsStep ==
    ASSUME SpansInv, [Next]_vars
    PROVE  GeneratorsOwnSpans'
<1>0. /\ gens \in [Gens -> Generator] /\ TypeOK
      /\ \A g \in Gens :
           /\ gens[g].state \in {"fresh", "bare"} => gens[g].span = None
           /\ gens[g].state \notin {"fresh", "bare"} => gens[g].span \in Known
           /\ gens[g].state \in {"running", "suspended"} => ~spans[gens[g].span].ended
      /\ \A g, h \in Gens : gens[g].span = gens[h].span /\ gens[g].span # None => g = h
      /\ None \notin Known
    BY SpansAssumption DEF SpansInv, TypeOK, GeneratorsOwnSpans, Known
<1>1. ASSUME NEW t \in Tasks, Call(t)
      PROVE  GeneratorsOwnSpans'
  <2>1. PICK n : n = NumSpans + 1
      OBVIOUS
  <2>2. /\ Known' = Known \cup {n} /\ \A r \in Known : spans'[r] = spans[r]
        /\ gens' = gens
      BY <1>1, <2>1, CallDoes, NewIsNobodys
  <2>3. QED
      BY <1>0, <2>2 DEF GeneratorsOwnSpans
<1>2. ASSUME NEW t \in Tasks, NEW g \in Gens, StartGenerator(t, g)
      PROVE  GeneratorsOwnSpans'
  <2>1. PICK n : n = NumSpans + 1
      OBVIOUS
  <2>2. /\ Known' = Known \cup {n} /\ n \notin Known /\ n # None /\ ~spans'[n].ended
        /\ \A r \in Known : spans'[r] = spans[r]
        /\ \A h \in Gens : gens[h].span # n
        /\ gens' = [gens EXCEPT ![g] = [state |-> "running", span |-> n]]
      BY <1>2, <2>1, StartGeneratorDoes, NewIsNobodys
  <2>3. /\ gens'[g] = [state |-> "running", span |-> n]
        /\ \A h \in Gens \ {g} : gens'[h] = gens[h]
      BY <1>0, <2>2
  <2>4. QED
      BY <1>0, <2>2, <2>3 DEF GeneratorsOwnSpans
<1>3. ASSUME NEW g \in Gens, NEW state \in {"running", "suspended"},
             gens' = [gens EXCEPT ![g].state = state],
             gens[g].state \in {"running", "suspended"}, spans' = spans
      PROVE  GeneratorsOwnSpans'
  <2>1. /\ gens'[g].state = state /\ gens'[g].span = gens[g].span
        /\ \A h \in Gens \ {g} : gens'[h] = gens[h]
      BY <1>0, <1>3 DEF Generator
  <2>2. Known' = Known
      BY <1>3 DEF Known, NumSpans
  <2>3. \A h \in Gens : gens'[h].span = gens[h].span
      BY <2>1
  <2>4. QED
      BY <1>0, <1>3, <2>1, <2>2, <2>3 DEF GeneratorsOwnSpans
<1>4. ASSUME NEW t \in Tasks, NEW g \in Gens, NEW s \in Known, s = gens[g].span,
             Finishes(t, s), gens' = [gens EXCEPT ![g].state = "done"]
      PROVE  GeneratorsOwnSpans'
  <2>1. /\ gens'[g].state = "done" /\ gens'[g].span = s
        /\ \A h \in Gens \ {g} : gens'[h] = gens[h]
      BY <1>0, <1>4 DEF Generator
  <2>2. Known' = Known /\ \A r \in Known \ {s} : spans'[r] = spans[r]
      BY <1>4 DEF Finishes, Known
  <2>3. \A h \in Gens : gens'[h].span = gens[h].span
      BY <1>4, <2>1
  <2>4. \A h \in Gens \ {g} : gens[h].span # s
      BY <1>0, <1>4
  <2>5. QED
      BY <1>0, <1>4, <2>1, <2>2, <2>3, <2>4 DEF GeneratorsOwnSpans
<1>5. ASSUME NEW t \in Tasks, Return(t)
      PROVE  GeneratorsOwnSpans'
  <2>1. PICK s : s = Last(stack[t]).span
      OBVIOUS
  <2>2. /\ Finishes(t, s) /\ s \in Known /\ gens' = gens
        /\ \A g \in Gens : gens[g].span # s
      BY <1>5, <2>1, ReturnDoes, InnermostInUse DEF InUse, Left, Finishes
  <2>3. Known' = Known /\ \A r \in Known \ {s} : spans'[r] = spans[r]
      BY <2>2 DEF Finishes, Known
  <2>4. QED
      BY <1>0, <2>2, <2>3 DEF GeneratorsOwnSpans
<1>6. ASSUME NEW t \in Tasks, Left(t), Last(stack[t]).kind = "generator"
      PROVE  \E g \in Gens : /\ g = Last(stack[t]).gen
                             /\ gens[g].state = "running" /\ gens[g].span = Last(stack[t]).span
  <2>1. PICK f : f = Last(stack[t])
      OBVIOUS
  <2>2. f.gen \in Gens /\ gens[f.gen] = [state |-> "running", span |-> f.span]
      BY <1>6, <2>1, InnermostInUse DEF InUse, Left
  <2>3. gens[f.gen].state = "running" /\ gens[f.gen].span = f.span
      BY <2>2
  <2>4. QED
      BY <2>1, <2>2, <2>3
<1>7. ASSUME NEW t \in Tasks, Yield(t)
      PROVE  GeneratorsOwnSpans'
  <2>1. /\ Left(t) /\ Last(stack[t]).kind = "generator" /\ spans' = spans
        /\ gens' = [gens EXCEPT ![Last(stack[t]).gen].state = "suspended"]
      BY <1>7, YieldDoes
  <2>2. PICK g \in Gens : g = Last(stack[t]).gen /\ gens[g].state = "running"
      BY <1>6, <2>1
  <2>3. QED
      BY <1>3, <2>1, <2>2
<1>8. ASSUME NEW t \in Tasks, EndGenerator(t)
      PROVE  GeneratorsOwnSpans'
  <2>1. PICK s : s = Last(stack[t]).span
      OBVIOUS
  <2>2. Left(t) /\ Last(stack[t]).kind = "generator"
      BY <1>8, EndGeneratorDoes
  <2>3. PICK g \in Gens : g = Last(stack[t]).gen /\ gens[g].span = s
      BY <1>6, <2>1, <2>2
  <2>4. Finishes(t, s) /\ s \in Known /\ gens' = [gens EXCEPT ![g].state = "done"]
      BY <1>8, <2>1, <2>3, EndGeneratorDoes DEF Finishes
  <2>5. QED
      BY <1>4, <2>3, <2>4
<1>9. ASSUME NEW t \in Tasks, NEW g \in Gens, CloseGenerator(t, g)
      PROVE  GeneratorsOwnSpans'
  <2>1. PICK s : s = gens[g].span
      OBVIOUS
  <2>2. Finishes(t, s) /\ s \in Known /\ gens' = [gens EXCEPT ![g].state = "done"]
      BY <1>9, <2>1, CloseGeneratorDoes DEF Finishes
  <2>3. QED
      BY <1>4, <2>1, <2>2
<1>10. ASSUME NEW t \in Tasks, NEW g \in Gens, Resume(t, g)
      PROVE  GeneratorsOwnSpans'
  <2>1. /\ gens[g].state = "suspended" /\ gens' = [gens EXCEPT ![g].state = "running"]
        /\ spans' = spans
      BY <1>10 DEF Resume
  <2>2. QED
      BY <1>3, <2>1
<1>11. ASSUME NEW t \in Tasks, Adopt(t) \/ EndAdopt(t)
      PROVE  GeneratorsOwnSpans'
  <2>1. spans' = spans /\ gens' = gens
      BY <1>11, AdoptDoes, EndAdoptDoes
  <2>2. QED
      BY <1>0, <2>1 DEF GeneratorsOwnSpans, Known, NumSpans
<1>12. ASSUME Bystanding
      PROVE  GeneratorsOwnSpans'
  <2>1. CASE gens' = gens
      BY <1>0, <1>12, <2>1 DEF Bystanding, GeneratorsOwnSpans
  <2>2. ASSUME NEW g \in Gens, gens[g].state = "fresh", gens' = [gens EXCEPT ![g].state = "bare"]
        PROVE  GeneratorsOwnSpans'
    <3>1. /\ gens'[g].state = "bare" /\ gens'[g].span = gens[g].span
          /\ \A h \in Gens \ {g} : gens'[h] = gens[h]
        BY <1>0, <2>2 DEF Generator
    <3>2. \A h \in Gens : gens'[h].span = gens[h].span
        BY <3>1
    <3>3. QED
        BY <1>0, <1>12, <2>2, <3>1, <3>2 DEF Bystanding, GeneratorsOwnSpans
  <2>3. QED
      BY <1>12, <2>1, <2>2 DEF Bystanding
<1>13. QED
    BY <1>1, <1>2, <1>5, <1>7, <1>8, <1>9, <1>10, <1>11, <1>12, NextCases, BystandingSteps

\* After entering a scope, each is that one or an old one ...
LEMMA AfterEntering ==
    ASSUME SpansInv, NEW t \in Tasks, NEW f \in Frame, NEW c \in Context, Entered(t, f, c),
           NEW u \in Tasks, NEW i \in DOMAIN stack'[u], NEW b, b = stack'[u][i]
    PROVE  b = f \/ (b \in Frame /\ InUse(b) /\ i \in DOMAIN stack[u] /\ stack[u][i] = b)
<1>1. TypeOK
    BY DEF SpansInv
<1>2. PICK n \in Nat :
        /\ stack'[t][n] = f
        /\ \A w \in Tasks : \A j \in DOMAIN stack[w] : stack'[w][j] = stack[w][j]
        /\ \A w \in Tasks : \A j \in DOMAIN stack'[w] : j \in DOMAIN stack[w] \/ (w = t /\ j = n)
    BY <1>1, EnteredScopes
<1>3. CASE i \in DOMAIN stack[u]
    BY <1>1, <1>2, <1>3 DEF SpansInv, ScopesAreInUse, TypeOK
<1>4. CASE i \notin DOMAIN stack[u]
    BY <1>2, <1>4
<1>5. QED
    BY <1>3, <1>4

\* ... and after leaving one, each is an old one, of another span.
LEMMA AfterLeaving ==
    ASSUME SpansInv, NEW t \in Tasks, Left(t),
           NEW u \in Tasks, NEW i \in DOMAIN stack'[u], NEW b, b = stack'[u][i]
    PROVE  /\ b \in Frame /\ InUse(b) /\ i \in DOMAIN stack[u] /\ stack[u][i] = b
           /\ b.kind # "adopt" /\ Last(stack[t]).kind # "adopt" => b.span # Last(stack[t]).span
<1>1. TypeOK
    BY DEF SpansInv
<1>2. PICK n \in Nat :
        /\ n \in DOMAIN stack[t] /\ stack[t][n] = Last(stack[t]) /\ n \notin DOMAIN stack'[t]
        /\ \A w \in Tasks : \A j \in DOMAIN stack'[w] :
             j \in DOMAIN stack[w] /\ stack'[w][j] = stack[w][j]
    BY <1>1, LeftScopes
<1>3. /\ b \in Frame /\ InUse(b) /\ i \in DOMAIN stack[u] /\ stack[u][i] = b
      /\ ~(u = t /\ i = n)
    BY <1>1, <1>2 DEF SpansInv, ScopesAreInUse, TypeOK
<1>4. ASSUME b.kind # "adopt", stack[t][n].kind # "adopt", b.span = stack[t][n].span
      PROVE  FALSE
  <2>1. Holds(u, i, stack[t][n].span) /\ Holds(t, n, stack[t][n].span)
      BY <1>2, <1>3, <1>4 DEF Holds
  <2>2. u = t /\ i = n
      BY <1>2, <1>3, <2>1 DEF SpansInv, EnteredOnce
  <2>3. QED
      BY <1>3, <2>2
<1>5. QED
    BY <1>2, <1>3, <1>4

\* A scope stays in use until it is left.
LEMMA ScopesInUseStep ==
    ASSUME SpansInv, [Next]_vars
    PROVE  ScopesAreInUse'
<1> SUFFICES ASSUME NEW u \in Tasks, NEW i \in DOMAIN stack'[u], NEW b, b = stack'[u][i]
             PROVE  InUse(b)'
  <2>1. ASSUME NEW u \in Tasks, NEW i \in DOMAIN stack'[u]
        PROVE  InUse(stack[u][i])'
    <3>1. PICK b : b = stack'[u][i]
        OBVIOUS
    <3>2. InUse(b)'
        BY <3>1
    <3>3. QED
        BY <3>1, <3>2 DEF InUse
  <2>2. QED
      BY <2>1 DEF ScopesAreInUse
<1>0. /\ gens \in [Gens -> Generator]
      /\ \A g \in Gens : gens[g].span \in Known \cup {None}
      /\ \A g, h \in Gens : gens[g].span = gens[h].span /\ gens[g].span # None => g = h
      /\ None \notin Known /\ KnownContext(snap)
  <2>1. None \notin Known
      BY SpansAssumption DEF Known
  <2>2. QED
      BY <2>1 DEF SpansInv, TypeOK, GeneratorsOwnSpans, ContextsAreKnown
<1>1. ASSUME b \in Frame, InUse(b),
             b.kind # "adopt" => spans'[b.span] = spans[b.span],
             \A g \in Gens : \/ gens'[g] = gens[g]
                             \/ /\ b.kind = "generator" => b.gen # g
                                /\ b.kind = "call" => gens'[g].span # b.span
      PROVE  InUse(b)'
  <2>1. b.kind # "adopt" => ~spans'[b.span].ended
      BY <1>1 DEF InUse
  <2>2. QED
      BY <1>1, <2>1, InUseStays
<1>2. b \in Frame /\ InUse(b) => /\ b.kind # "adopt" => b.span \in Known
                                 /\ b.kind = "generator" => gens[b.gen].state = "running"
                                 /\ b.kind = "call" => \A g \in Gens : gens[g].span # b.span
    BY DEF InUse
<1>3. ASSUME NEW t \in Tasks, Call(t)
      PROVE  InUse(b)'
  <2>1. PICK n : n = NumSpans + 1
      OBVIOUS
  <2>2. PICK f \in Frame, c \in Context : Entered(t, f, c) /\ f.kind = "call" /\ f.span = n
      BY <1>3, <2>1, CallDoes
  <2>3. /\ Known' = Known \cup {n} /\ ~spans'[n].ended /\ gens' = gens
        /\ \A g \in Gens : gens[g].span # n
        /\ \A r \in Known : spans'[r] = spans[r]
      BY <1>3, <2>1, CallDoes, NewIsNobodys
  <2>4. CASE b = f
      BY <2>2, <2>3, <2>4 DEF InUse
  <2>5. CASE b # f
      BY <1>1, <1>2, <2>2, <2>3, <2>5, AfterEntering
  <2>6. QED
      BY <2>4, <2>5
<1>4. ASSUME NEW t \in Tasks, NEW g \in Gens, StartGenerator(t, g)
      PROVE  InUse(b)'
  <2>1. PICK n : n = NumSpans + 1
      OBVIOUS
  <2>2. PICK f \in Frame, c \in Context :
          Entered(t, f, c) /\ f.kind = "generator" /\ f.span = n /\ f.gen = g
      BY <1>4, <2>1, StartGeneratorDoes
  <2>3. /\ Known' = Known \cup {n} /\ n \notin Known /\ ~spans'[n].ended
        /\ gens[g].state = "fresh"
        /\ gens' = [gens EXCEPT ![g] = [state |-> "running", span |-> n]]
        /\ \A r \in Known : spans'[r] = spans[r]
      BY <1>4, <2>1, StartGeneratorDoes, NewIsNobodys
  <2>4. gens'[g] = [state |-> "running", span |-> n] /\ \A h \in Gens \ {g} : gens'[h] = gens[h]
      BY <1>0, <2>3
  <2>5. CASE b = f
      BY <2>2, <2>3, <2>4, <2>5 DEF InUse
  <2>6. CASE b # f
    <3>1. b \in Frame /\ InUse(b)
        BY <2>2, <2>6, AfterEntering
    <3>2. /\ b.kind = "generator" => b.gen # g
          /\ b.kind = "call" => gens'[g].span # b.span
        BY <1>2, <2>3, <2>4, <3>1
    <3>3. QED
        BY <1>1, <1>2, <2>3, <2>4, <3>1, <3>2
  <2>7. QED
      BY <2>5, <2>6
<1>5. ASSUME NEW t \in Tasks, NEW g \in Gens, Resume(t, g)
      PROVE  InUse(b)'
  <2>1. PICK f \in Frame, c \in Context :
          Entered(t, f, c) /\ f.kind = "generator" /\ f.span = gens[g].span /\ f.gen = g
      BY <1>5, ResumeDoes
  <2>2. /\ gens[g] = [state |-> "suspended", span |-> gens[g].span]
        /\ gens' = [gens EXCEPT ![g].state = "running"] /\ spans' = spans
      BY <1>5, ResumeDoes
  <2>3. /\ gens'[g] = [state |-> "running", span |-> gens[g].span]
        /\ \A h \in Gens \ {g} : gens'[h] = gens[h]
      BY <1>0, <2>2 DEF Generator
  <2>4. gens[g].state = "suspended" /\ gens'[g].span = gens[g].span
      BY <2>2, <2>3
  <2>5. CASE b = f
    <3>1. gens[g].span \in Known /\ ~spans[gens[g].span].ended
        BY <2>4 DEF SpansInv, GeneratorsOwnSpans
    <3>2. QED
        BY <2>1, <2>2, <2>3, <2>5, <3>1, SpansAreKept DEF InUse
  <2>6. CASE b # f
    <3>1. b \in Frame /\ InUse(b)
        BY <2>1, <2>6, AfterEntering
    <3>2. /\ b.kind = "generator" => b.gen # g
          /\ b.kind = "call" => gens'[g].span # b.span
        BY <1>2, <2>4, <3>1
    <3>3. QED
        BY <1>1, <2>2, <2>3, <3>1, <3>2
  <2>7. QED
      BY <2>5, <2>6
<1>6. ASSUME NEW t \in Tasks, Adopt(t)
      PROVE  InUse(b)'
  <2>1. PICK f \in Frame, c \in Context : Entered(t, f, c) /\ f.kind = "adopt"
      BY <1>6, AdoptDoes
  <2>2. spans' = spans /\ gens' = gens
      BY <1>6, AdoptDoes
  <2>3. CASE b = f
    <3>1. f.span = snap.parent /\ f.trace = snap.trace
        BY <2>1 DEF Entered
    <3>2. {f.span, f.trace} \subseteq Known' \cup {None}
        BY <1>0, <3>1, SpansAreKept DEF KnownContext
    <3>3. QED
        BY <2>1, <2>3, <3>2 DEF InUse
  <2>4. CASE b # f
      BY <1>1, <2>1, <2>2, <2>4, AfterEntering
  <2>5. QED
      BY <2>3, <2>4
<1>7. ASSUME NEW t \in Tasks, Return(t)
      PROVE  InUse(b)'
  <2>1. PICK s : s = Last(stack[t]).span
      OBVIOUS
  <2>2. Left(t) /\ Last(stack[t]).kind = "call" /\ Finishes(t, s) /\ gens' = gens
      BY <1>7, <2>1, ReturnDoes
  <2>3. b \in Frame /\ InUse(b) /\ (b.kind # "adopt" => b.span # s)
      BY <2>1, <2>2, AfterLeaving
  <2>4. b.kind # "adopt" => spans'[b.span] = spans[b.span]
      BY <1>2, <2>2, <2>3 DEF Finishes
  <2>5. QED
      BY <1>1, <2>2, <2>3, <2>4
<1>8. ASSUME NEW t \in Tasks, Left(t), Last(stack[t]).kind = "generator",
             NEW g, g = Last(stack[t]).gen
      PROVE  /\ b \in Frame /\ InUse(b) /\ (b.kind # "adopt" => b.span # Last(stack[t]).span)
             /\ g \in Gens /\ gens[g].state = "running" /\ gens[g].span = Last(stack[t]).span
             /\ b.kind = "generator" => b.gen # g
             /\ b.kind = "call" => gens[g].span # b.span
  <2>1. b \in Frame /\ InUse(b) /\ (b.kind # "adopt" => b.span # Last(stack[t]).span)
      BY <1>8, AfterLeaving
  <2>2. PICK f : f = Last(stack[t])
      OBVIOUS
  <2>3. g \in Gens /\ gens[g] = [state |-> "running", span |-> f.span]
      BY <1>8, <2>2, InnermostInUse DEF InUse, Left
  <2>4. gens[g].state = "running" /\ gens[g].span = f.span
      BY <2>3
  <2>5. b.kind = "generator" => gens[b.gen].span = b.span
      BY <2>1 DEF InUse
  <2>6. QED
      BY <1>2, <2>1, <2>2, <2>3, <2>4, <2>5
<1>9. ASSUME NEW g \in Gens, NEW state, gens' = [gens EXCEPT ![g].state = state]
      PROVE  gens'[g].span = gens[g].span /\ \A h \in Gens \ {g} : gens'[h] = gens[h]
    BY <1>0, <1>9 DEF Generator
<1>10. ASSUME NEW t \in Tasks, Yield(t)
      PROVE  InUse(b)'
  <2>1. PICK g : g = Last(stack[t]).gen
      OBVIOUS
  <2>2. /\ Left(t) /\ Last(stack[t]).kind = "generator" /\ spans' = spans
        /\ gens' = [gens EXCEPT ![g].state = "suspended"]
      BY <1>10, <2>1, YieldDoes
  <2>3. /\ b \in Frame /\ InUse(b) /\ g \in Gens
        /\ b.kind = "generator" => b.gen # g
        /\ b.kind = "call" => gens[g].span # b.span
      BY <1>8, <2>1, <2>2
  <2>4. gens'[g].span = gens[g].span /\ \A h \in Gens \ {g} : gens'[h] = gens[h]
      BY <1>9, <2>2, <2>3
  <2>5. QED
      BY <1>1, <2>2, <2>3, <2>4
<1>11. ASSUME NEW t \in Tasks, EndGenerator(t)
      PROVE  InUse(b)'
  <2>1. PICK g, s : g = Last(stack[t]).gen /\ s = Last(stack[t]).span
      OBVIOUS
  <2>2. /\ Left(t) /\ Last(stack[t]).kind = "generator" /\ Finishes(t, s)
        /\ gens' = [gens EXCEPT ![g].state = "done"]
      BY <1>11, <2>1, EndGeneratorDoes
  <2>3. /\ b \in Frame /\ InUse(b) /\ g \in Gens
        /\ b.kind # "adopt" => b.span # s
        /\ b.kind = "generator" => b.gen # g
        /\ b.kind = "call" => gens[g].span # b.span
      BY <1>8, <2>1, <2>2
  <2>4. gens'[g].span = gens[g].span /\ \A h \in Gens \ {g} : gens'[h] = gens[h]
      BY <1>9, <2>2, <2>3
  <2>5. b.kind # "adopt" => spans'[b.span] = spans[b.span]
      BY <1>2, <2>2, <2>3 DEF Finishes
  <2>6. QED
      BY <1>1, <2>3, <2>4, <2>5
<1>12. ASSUME NEW t \in Tasks, NEW g \in Gens, CloseGenerator(t, g)
      PROVE  InUse(b)'
  <2>1. PICK s : s = gens[g].span
      OBVIOUS
  <2>2. /\ Finishes(t, s) /\ s \in Known /\ gens[g].state = "suspended"
        /\ gens' = [gens EXCEPT ![g].state = "done"] /\ stack' = stack
    <3>1. gens[g] = [state |-> "suspended", span |-> s]
        BY <1>12, <2>1, CloseGeneratorDoes
    <3>2. gens[g].state = "suspended"
        BY <3>1
    <3>3. QED
        BY <1>12, <2>1, <3>2, CloseGeneratorDoes DEF taskVars, Finishes
  <2>3. b \in Frame /\ InUse(b)
      BY <2>2 DEF SpansInv, ScopesAreInUse, TypeOK
  <2>4. gens'[g].span = gens[g].span /\ \A h \in Gens \ {g} : gens'[h] = gens[h]
      BY <1>9, <2>2
  <2>5. /\ b.kind = "generator" => b.gen # g
        /\ b.kind = "call" => gens'[g].span # b.span
      BY <1>2, <2>2, <2>3, <2>4
  <2>6. b.kind # "adopt" => b.span # s
    <3>1. CASE b.kind = "call"
        BY <1>2, <2>1, <2>3, <3>1
    <3>2. CASE b.kind = "generator"
      <4>1. b.gen \in Gens /\ gens[b.gen].span = b.span
          BY <2>3, <3>2 DEF InUse
      <4>2. QED
          BY <1>0, <2>1, <2>2, <2>5, <3>2, <4>1
    <3>3. QED
        BY <2>3, <3>1, <3>2 DEF Frame
  <2>7. b.kind # "adopt" => spans'[b.span] = spans[b.span]
      BY <1>2, <2>2, <2>3, <2>6 DEF Finishes
  <2>8. QED
      BY <1>1, <2>3, <2>4, <2>5, <2>7
<1>13. ASSUME NEW t \in Tasks, EndAdopt(t)
      PROVE  InUse(b)'
  <2>1. Left(t) /\ spans' = spans /\ gens' = gens
      BY <1>13, EndAdoptDoes
  <2>2. QED
      BY <1>1, <2>1, AfterLeaving
<1>14. ASSUME Bystanding
      PROVE  InUse(b)'
  <2>1. b \in Frame /\ InUse(b)
      BY <1>14 DEF Bystanding, SpansInv, ScopesAreInUse, TypeOK
  <2>2. b.kind # "adopt" => ~spans'[b.span].ended
      BY <1>2, <1>14, <2>1 DEF Bystanding, InUse
  <2>3. CASE gens' = gens
      BY <2>1, <2>2, <2>3, InUseStays
  <2>4. ASSUME NEW g \in Gens, gens[g].state = "fresh", gens' = [gens EXCEPT ![g].state = "bare"]
        PROVE  InUse(b)'
    <3>1. gens'[g].span = gens[g].span /\ \A h \in Gens \ {g} : gens'[h] = gens[h]
        BY <1>9, <2>4
    <3>2. /\ b.kind = "generator" => b.gen # g
          /\ b.kind = "call" => gens'[g].span # b.span
        BY <1>2, <2>1, <2>4, <3>1
    <3>3. QED
        BY <2>1, <2>2, <3>1, <3>2, InUseStays
  <2>5. QED
      BY <1>14, <2>3, <2>4 DEF Bystanding
<1>15. QED
    BY <1>3, <1>4, <1>5, <1>6, <1>7, <1>10, <1>11, <1>12, <1>13, <1>14, NextCases, BystandingSteps

\* What is entered is a span that nobody is in.
LEMMA EntersFree ==
    ASSUME SpansInv, NEW f \in Frame,
           \/ \E t \in Tasks : NewSpan(t) /\ f.span = NumSpans + 1
           \/ \E g \in Gens : gens[g].state = "suspended" /\ f.span = gens[g].span,
           NEW u \in Tasks, NEW i \in DOMAIN stack[u], stack[u][i].kind # "adopt"
    PROVE  stack[u][i].span # f.span
<1> DEFINE b == stack[u][i]
<1>1. b \in Frame /\ InUse(b)
    BY DEF SpansInv, TypeOK, ScopesAreInUse
<1> HIDE DEF b
<1>2. b.kind # "adopt"
    BY DEF b
<1>3. b.span \in Known
    BY <1>1, <1>2 DEF InUse
<1>4. ASSUME NEW t \in Tasks, NewSpan(t), f.span = NumSpans + 1
      PROVE  b.span # f.span
    BY <1>3, <1>4, NewIsNobodys
<1>5. ASSUME NEW g \in Gens, gens[g].state = "suspended", f.span = gens[g].span, b.span = f.span
      PROVE  FALSE
  <2>1. CASE b.kind = "call"
      BY <1>1, <1>5, <2>1 DEF InUse
  <2>2. CASE b.kind = "generator"
    <3>1. b.gen \in Gens /\ gens[b.gen] = [state |-> "running", span |-> b.span]
        BY <1>1, <2>2 DEF InUse
    <3>2. gens[b.gen].state = "running" /\ gens[b.gen].span = gens[g].span
        BY <1>5, <3>1
    <3>3. gens[g].span # None
      <4>1. gens[g].span \in Known
          BY <1>5 DEF SpansInv, GeneratorsOwnSpans
      <4>2. QED
          BY <4>1, SpansAssumption DEF Known
    <3>4. b.gen = g
        BY <3>1, <3>2, <3>3 DEF SpansInv, GeneratorsOwnSpans
    <3>5. QED
        BY <1>5, <3>2, <3>4
  <2>3. QED
      BY <1>1, <1>2, <2>1, <2>2 DEF Frame
<1>6. QED
    BY <1>4, <1>5 DEF b

\* Who enters what a step enters.
LEMMA EnteredCases ==
    ASSUME SpansInv, [Next]_vars
    PROVE  \/ \E t \in Tasks, f \in Frame, c \in Context :
                /\ Entered(t, f, c)
                /\ \/ f.kind = "adopt"
                   \/ \E u \in Tasks : NewSpan(u) /\ f.span = NumSpans + 1
                   \/ \E g \in Gens : gens[g].state = "suspended" /\ f.span = gens[g].span
           \/ \E t \in Tasks : Left(t)
           \/ stack' = stack
<1>1. ASSUME NEW t \in Tasks, Call(t)
      PROVE  \E f \in Frame, c \in Context : /\ Entered(t, f, c) /\ NewSpan(t)
                                             /\ f.span = NumSpans + 1
    BY <1>1, CallDoes
<1>2. ASSUME NEW t \in Tasks, NEW g \in Gens, StartGenerator(t, g)
      PROVE  \E f \in Frame, c \in Context : /\ Entered(t, f, c) /\ NewSpan(t)
                                             /\ f.span = NumSpans + 1
    BY <1>2, StartGeneratorDoes
<1>3. ASSUME NEW t \in Tasks, NEW g \in Gens, Resume(t, g)
      PROVE  /\ \E f \in Frame, c \in Context : Entered(t, f, c) /\ f.span = gens[g].span
             /\ gens[g].state = "suspended"
  <2>1. gens[g].state = "suspended"
      BY <1>3 DEF Resume
  <2>2. PICK f \in Frame, c \in Context : Entered(t, f, c) /\ f.span = gens[g].span
    <3>1. \E f \in Frame, c \in Context :
            /\ Entered(t, f, c) /\ f.kind = "generator" /\ f.span = gens[g].span
            /\ f.gen = g
        BY <1>3, ResumeDoes
    <3>2. QED
        BY <3>1
  <2>3. QED
      BY <2>1, <2>2
<1>4. ASSUME NEW t \in Tasks, Adopt(t)
      PROVE  \E f \in Frame, c \in Context : Entered(t, f, c) /\ f.kind = "adopt"
    BY <1>4, AdoptDoes
<1>5. ASSUME NEW t \in Tasks, Return(t) \/ EndGenerator(t) \/ Yield(t) \/ EndAdopt(t)
      PROVE  Left(t)
    BY <1>5, ReturnDoes, EndGeneratorDoes, YieldDoes, EndAdoptDoes
<1>6. ASSUME NEW t \in Tasks, NEW g \in Gens, CloseGenerator(t, g)
      PROVE  stack' = stack
    BY <1>6 DEF CloseGenerator, taskVars
<1>7. Bystanding => stack' = stack
    BY DEF Bystanding
<1>8. QED
    BY <1>1, <1>2, <1>3, <1>4, <1>5, <1>6, <1>7, NextCases, BystandingSteps

\* Two scopes are never of the same span.
LEMMA EnteredOnceStep ==
    ASSUME SpansInv, [Next]_vars
    PROVE  EnteredOnce'
<1>0. TypeOK
    BY DEF SpansInv
<1> SUFFICES ASSUME NEW u \in Tasks, NEW w \in Tasks,
                    NEW i \in DOMAIN stack'[u], NEW k \in DOMAIN stack'[w],
                    stack'[u][i].kind # "adopt", stack'[w][k].kind # "adopt",
                    stack'[u][i].span = stack'[w][k].span
             PROVE  u = w /\ i = k
    BY DEF EnteredOnce, Holds
<1>1. ASSUME i \in DOMAIN stack[u], stack'[u][i] = stack[u][i],
             k \in DOMAIN stack[w], stack'[w][k] = stack[w][k]
      PROVE  u = w /\ i = k
    BY <1>1 DEF SpansInv, EnteredOnce, Holds
<1>2. ASSUME NEW t \in Tasks, NEW f \in Frame, NEW c \in Context, Entered(t, f, c),
             \/ f.kind = "adopt"
             \/ \E v \in Tasks : NewSpan(v) /\ f.span = NumSpans + 1
             \/ \E g \in Gens : gens[g].state = "suspended" /\ f.span = gens[g].span
      PROVE  u = w /\ i = k
  <2>1. PICK n \in Nat :
          /\ n \in DOMAIN stack'[t] /\ stack'[t][n] = f /\ n \notin DOMAIN stack[t]
          /\ \A v \in Tasks : \A j \in DOMAIN stack[v] : stack'[v][j] = stack[v][j]
          /\ \A v \in Tasks : \A j \in DOMAIN stack'[v] :
               j \in DOMAIN stack[v] \/ (v = t /\ j = n)
      BY <1>0, <1>2, EnteredScopes
  <2>2. CASE i \in DOMAIN stack[u] /\ k \in DOMAIN stack[w]
      BY <1>1, <2>1, <2>2
  <2>3. CASE i \in DOMAIN stack[u] /\ k \notin DOMAIN stack[w]
    <3>1. stack'[w][k] = f /\ stack'[u][i] = stack[u][i]
        BY <2>1, <2>3
    <3>2. stack[u][i].span # f.span
        BY <1>2, <2>3, <3>1, EntersFree
    <3>3. QED
        BY <3>1, <3>2
  <2>4. CASE i \notin DOMAIN stack[u] /\ k \in DOMAIN stack[w]
    <3>1. stack'[u][i] = f /\ stack'[w][k] = stack[w][k]
        BY <2>1, <2>4
    <3>2. stack[w][k].span # f.span
        BY <1>2, <2>4, <3>1, EntersFree
    <3>3. QED
        BY <3>1, <3>2
  <2>5. CASE i \notin DOMAIN stack[u] /\ k \notin DOMAIN stack[w]
      BY <2>1, <2>5
  <2>6. QED
      BY <2>2, <2>3, <2>4, <2>5
<1>3. ASSUME NEW t \in Tasks, Left(t)
      PROVE  u = w /\ i = k
  <2>1. /\ i \in DOMAIN stack[u] /\ stack'[u][i] = stack[u][i]
        /\ k \in DOMAIN stack[w] /\ stack'[w][k] = stack[w][k]
      BY <1>3, AfterLeaving
  <2>2. QED
      BY <1>1, <2>1
<1>4. CASE stack' = stack
    BY <1>1, <1>4
<1>5. QED
    BY <1>2, <1>3, <1>4, EnteredCases

\* Whoever is in a span, or holds its generator, will end it.
LEMMA SomebodyEndsStep ==
    ASSUME SpansInv, [Next]_vars
    PROVE  SomebodyEnds'
<1> DEFINE InScope(s) == \E t \in Tasks : \E i \in DOMAIN stack[t] :
                            stack[t][i].kind # "adopt" /\ stack[t][i].span = s
           Will(s) == \E t \in Tasks : \E i \in DOMAIN stack'[t] :
                            stack'[t][i].kind # "adopt" /\ stack'[t][i].span = s
           Waits(g, s) == gens'[g] = [state |-> "suspended", span |-> s]
<1> SUFFICES ASSUME NEW s \in Known', ~spans'[s].ended
             PROVE  Will(s) \/ \E g \in Gens : Waits(g, s)
  <2>1. SomebodyEnds' <=>
          \A s \in Known' : ~spans'[s].ended => Will(s) \/ \E g \in Gens : Waits(g, s)
      BY DEF SomebodyEnds, Holds
  <2>2. QED
      BY <2>1
<1>0. TypeOK /\ gens \in [Gens -> Generator] /\ None \notin Known
    BY SpansAssumption DEF SpansInv, TypeOK, Known
<1>1. s \in Known => InScope(s) \/ \E g \in Gens : gens[g] = [state |-> "suspended", span |-> s]
    BY SpansAreKept DEF SpansInv, SomebodyEnds, Holds, Kept
<1>2. ASSUME NEW t \in Tasks, NEW f \in Frame, NEW c \in Context, Entered(t, f, c)
      PROVE  /\ InScope(s) => Will(s)
             /\ f.kind # "adopt" /\ f.span = s => Will(s)
  <2>1. PICK n \in Nat :
          /\ n \in DOMAIN stack'[t] /\ stack'[t][n] = f
          /\ \A v \in Tasks : \A j \in DOMAIN stack[v] :
               j \in DOMAIN stack'[v] /\ stack'[v][j] = stack[v][j]
      BY <1>0, <1>2, EnteredScopes
  <2>2. QED
      BY <2>1
<1>3. ASSUME NEW t \in Tasks, Left(t), Last(stack[t]).kind = "adopt" \/ Last(stack[t]).span # s
      PROVE  InScope(s) => Will(s)
  <2>1. PICK n \in Nat :
          /\ n \in DOMAIN stack[t] /\ stack[t][n] = Last(stack[t])
          /\ \A v \in Tasks : \A j \in DOMAIN stack'[v] : stack'[v][j] = stack[v][j]
          /\ \A v \in Tasks : \A j \in DOMAIN stack[v] :
               j \in DOMAIN stack'[v] \/ (v = t /\ j = n)
      BY <1>0, <1>3, LeftScopes
  <2>2. ASSUME NEW v \in Tasks, NEW j \in DOMAIN stack[v],
               stack[v][j].kind # "adopt", stack[v][j].span = s
        PROVE  j \in DOMAIN stack'[v] /\ stack'[v][j] = stack[v][j]
      BY <1>3, <2>1, <2>2
  <2>3. QED
      BY <2>2
<1> HIDE DEF InScope, Will
<1>4. ASSUME NEW t \in Tasks, Call(t)
      PROVE  Will(s) \/ \E g \in Gens : Waits(g, s)
  <2>1. PICK n : n = NumSpans + 1
      OBVIOUS
  <2>2. PICK f \in Frame, c \in Context : Entered(t, f, c) /\ f.kind = "call" /\ f.span = n
      BY <1>4, <2>1, CallDoes
  <2>3. Known' = Known \cup {n} /\ gens' = gens
      BY <1>4, <2>1, CallDoes, NewIsNobodys
  <2>4. QED
      BY <1>1, <1>2, <2>2, <2>3
<1>5. ASSUME NEW t \in Tasks, NEW g \in Gens, StartGenerator(t, g)
      PROVE  Will(s) \/ \E h \in Gens : Waits(h, s)
  <2>1. PICK n : n = NumSpans + 1
      OBVIOUS
  <2>2. PICK f \in Frame, c \in Context : Entered(t, f, c) /\ f.kind = "generator" /\ f.span = n
      BY <1>5, <2>1, StartGeneratorDoes
  <2>3. /\ Known' = Known \cup {n} /\ gens[g].state = "fresh"
        /\ gens' = [gens EXCEPT ![g] = [state |-> "running", span |-> n]]
      BY <1>5, <2>1, StartGeneratorDoes, NewIsNobodys
  <2>4. \A h \in Gens \ {g} : gens'[h] = gens[h]
      BY <1>0, <2>3
  <2>5. gens[g] # [state |-> "suspended", span |-> s]
      BY <2>3
  <2>6. QED
      BY <1>1, <1>2, <2>2, <2>3, <2>4, <2>5
<1>6. ASSUME NEW t \in Tasks, NEW g \in Gens, Resume(t, g)
      PROVE  Will(s) \/ \E h \in Gens : Waits(h, s)
  <2>1. PICK f \in Frame, c \in Context :
          Entered(t, f, c) /\ f.kind = "generator" /\ f.span = gens[g].span
    <3>1. \E f \in Frame, c \in Context :
            /\ Entered(t, f, c) /\ f.kind = "generator" /\ f.span = gens[g].span
            /\ f.gen = g
        BY <1>6, ResumeDoes
    <3>2. QED
        BY <3>1
  <2>2. gens' = [gens EXCEPT ![g].state = "running"] /\ spans' = spans
      BY <1>6 DEF Resume
  <2>3. (\A h \in Gens \ {g} : gens'[h] = gens[h]) /\ s \in Known
      BY <1>0, <2>2 DEF Known, NumSpans
  <2>4. gens[g] = [state |-> "suspended", span |-> s] => gens[g].span = s
      OBVIOUS
  <2>5. QED
      BY <1>1, <1>2, <2>1, <2>3, <2>4
<1>7. ASSUME NEW t \in Tasks, Adopt(t)
      PROVE  Will(s) \/ \E g \in Gens : Waits(g, s)
  <2>1. PICK f \in Frame, c \in Context : Entered(t, f, c)
      BY <1>7, AdoptDoes
  <2>2. spans' = spans /\ gens' = gens
      BY <1>7, AdoptDoes
  <2>3. s \in Known
      BY <2>2 DEF Known, NumSpans
  <2>4. QED
      BY <1>1, <1>2, <2>1, <2>2, <2>3
<1>8. ASSUME NEW t \in Tasks, NEW r \in Known, Finishes(t, r)
      PROVE  s \in Known /\ s # r
  <2>1. Known' = Known /\ spans'[r] = [spans[r] EXCEPT !.ended = TRUE] /\ spans[r] \in SpanRecord
      BY <1>8 DEF Finishes, Known, SpansInv, TypeOK, NumSpans
  <2>2. spans'[r].ended
      BY <2>1 DEF SpanRecord
  <2>3. QED
      BY <2>1, <2>2
<1>9. ASSUME NEW t \in Tasks, Return(t)
      PROVE  Will(s) \/ \E g \in Gens : Waits(g, s)
  <2>1. PICK r : r = Last(stack[t]).span
      OBVIOUS
  <2>2. Left(t) /\ Finishes(t, r) /\ r \in Known /\ gens' = gens
      BY <1>9, <2>1, ReturnDoes DEF Finishes
  <2>3. s \in Known /\ s # r
      BY <1>8, <2>2
  <2>4. QED
      BY <1>1, <1>3, <2>1, <2>2, <2>3
<1>10. ASSUME NEW t \in Tasks, Left(t), Last(stack[t]).kind = "generator",
              NEW g, g = Last(stack[t]).gen
      PROVE  g \in Gens /\ gens[g] = [state |-> "running", span |-> Last(stack[t]).span]
    BY <1>10, InnermostInUse DEF InUse, Left
<1>11. ASSUME NEW t \in Tasks, EndGenerator(t)
      PROVE  Will(s) \/ \E h \in Gens : Waits(h, s)
  <2>1. PICK g, r : g = Last(stack[t]).gen /\ r = Last(stack[t]).span
      OBVIOUS
  <2>2. /\ Left(t) /\ Finishes(t, r) /\ r \in Known
        /\ gens' = [gens EXCEPT ![g].state = "done"]
      BY <1>11, <2>1, EndGeneratorDoes DEF Finishes
  <2>3. s \in Known /\ s # r
      BY <1>8, <2>2
  <2>4. g \in Gens /\ gens[g] = [state |-> "running", span |-> r]
      BY <1>10, <1>11, <2>1, EndGeneratorDoes
  <2>5. gens[g].state = "running" /\ \A h \in Gens \ {g} : gens'[h] = gens[h]
      BY <1>0, <2>2, <2>4
  <2>6. gens[g] # [state |-> "suspended", span |-> s]
      BY <2>5
  <2>7. QED
      BY <1>1, <1>3, <2>1, <2>2, <2>3, <2>5, <2>6
<1>12. ASSUME NEW t \in Tasks, Yield(t)
      PROVE  Will(s) \/ \E h \in Gens : Waits(h, s)
  <2>1. PICK g, r : g = Last(stack[t]).gen /\ r = Last(stack[t]).span
      OBVIOUS
  <2>2. /\ Left(t) /\ spans' = spans
        /\ gens' = [gens EXCEPT ![g].state = "suspended"]
      BY <1>12, <2>1, YieldDoes
  <2>3. s \in Known
      BY <2>2 DEF Known, NumSpans
  <2>4. g \in Gens /\ gens[g] = [state |-> "running", span |-> r]
      BY <1>10, <1>12, <2>1, YieldDoes
  <2>5. /\ \A h \in Gens \ {g} : gens'[h] = gens[h]
        /\ gens'[g] = [state |-> "suspended", span |-> r]
        /\ gens[g].state = "running"
      BY <1>0, <2>2, <2>4
  <2>6. CASE r = s
      BY <2>4, <2>5, <2>6
  <2>7. CASE r # s
    <3>1. gens[g] # [state |-> "suspended", span |-> s]
        BY <2>5
    <3>2. QED
        BY <1>1, <1>3, <2>1, <2>2, <2>3, <2>5, <2>7, <3>1
  <2>8. QED
      BY <2>6, <2>7
<1>13. ASSUME NEW t \in Tasks, NEW g \in Gens, CloseGenerator(t, g)
      PROVE  Will(s) \/ \E h \in Gens : Waits(h, s)
  <2>1. PICK r : r = gens[g].span
      OBVIOUS
  <2>2. /\ Finishes(t, r) /\ r \in Known /\ stack' = stack
        /\ gens' = [gens EXCEPT ![g].state = "done"]
      BY <1>13, <2>1, CloseGeneratorDoes DEF Finishes, taskVars
  <2>3. s \in Known /\ s # r
      BY <1>8, <2>2
  <2>4. \A h \in Gens \ {g} : gens'[h] = gens[h]
      BY <1>0, <2>2
  <2>5. gens[g] # [state |-> "suspended", span |-> s]
      BY <2>1, <2>3
  <2>6. InScope(s) => Will(s)
      BY <2>2 DEF InScope, Will
  <2>7. QED
      BY <1>1, <2>3, <2>4, <2>5, <2>6
<1>14. ASSUME NEW t \in Tasks, EndAdopt(t)
      PROVE  Will(s) \/ \E g \in Gens : Waits(g, s)
  <2>1. Left(t) /\ Last(stack[t]).kind = "adopt" /\ spans' = spans /\ gens' = gens
      BY <1>14, EndAdoptDoes
  <2>2. s \in Known
      BY <2>1 DEF Known, NumSpans
  <2>3. QED
      BY <1>1, <1>3, <2>1, <2>2
<1>15. ASSUME Bystanding
      PROVE  Will(s) \/ \E g \in Gens : Waits(g, s)
  <2>1. s \in Known /\ (InScope(s) => Will(s))
      BY <1>15 DEF Bystanding, InScope, Will
  <2>2. \A g \in Gens : gens[g] = [state |-> "suspended", span |-> s] => gens'[g] = gens[g]
    <3>1. CASE gens' = gens
        BY <3>1
    <3>2. ASSUME NEW g \in Gens, gens[g].state = "fresh", gens' = [gens EXCEPT ![g].state = "bare"]
          PROVE  <2>2
      <4>1. \A h \in Gens \ {g} : gens'[h] = gens[h]
          BY <1>0, <3>2
      <4>2. gens[g] # [state |-> "suspended", span |-> s]
          BY <3>2
      <4>3. QED
          BY <4>1, <4>2
    <3>3. QED
        BY <1>15, <3>1, <3>2 DEF Bystanding
  <2>3. QED
      BY <1>1, <2>1, <2>2
<1>16. QED
    BY <1>4, <1>5, <1>6, <1>7, <1>9, <1>11, <1>12, <1>13, <1>14, <1>15, NextCases, BystandingSteps

-----------------------------------------------------------------------------
(* What is decided of a span, and what is sent of it.                      *)

\* A new span takes over the verdict of its trace.
LEMMA VerdictStep ==
    ASSUME SpansInv, [Next]_vars
    PROVE  OneVerdict'
<1>1. /\ TypeOK /\ OneVerdict /\ ContextsAreKnown /\ NumSpans \in Nat
      /\ \A r \in Known : Kept(r)
    BY SpansAreKept DEF SpansInv
<1>2. \A s \in Known : spans[s].trace \in Known
  <2>1. ASSUME NEW s \in Known
        PROVE  spans[s].trace \in Known
    <3>1. spans[s] \in SpanRecord /\ spans[s].trace <= s /\ s \in 1..NumSpans
        BY <1>1 DEF TypeOK, Known, NumSpans
    <3>2. spans[s].trace \in Nat \ {0}
        BY <3>1 DEF SpanRecord, Id
    <3>3. QED
        BY <1>1, <3>1, <3>2 DEF Known
  <2>2. QED
      BY <2>1
<1>3. ASSUME NEW s \in Known
      PROVE  spans'[s].sampled = spans'[spans'[s].trace].sampled
  <2>1. spans'[s].trace = spans[s].trace /\ spans'[s].sampled = spans[s].sampled
      BY <1>1 DEF Kept
  <2>2. PICK r \in Known : r = spans[s].trace
      BY <1>2
  <2>3. spans'[r].sampled = spans[r].sampled /\ spans[s].sampled = spans[r].sampled
      BY <1>1, <2>2 DEF Kept, OneVerdict
  <2>4. QED
      BY <2>1, <2>2, <2>3
<1>4. ASSUME NEW t \in Tasks, NewSpan(t), NEW n, n = NumSpans + 1
      PROVE  spans'[n].sampled = spans'[spans'[n].trace].sampled
  <2>1. PICK r : r = context[t].trace
      OBVIOUS
  <2>2. /\ spans'[n].trace = IF r = None THEN n ELSE r
        /\ r # None => spans'[n].sampled = spans[r].sampled
      BY <1>4, <2>1 DEF NewSpan
  <2>3. CASE r = None
      BY <2>2, <2>3
  <2>4. CASE r # None
    <3>1. r \in Known
        BY <1>1, <2>1, <2>4 DEF ContextsAreKnown, KnownContext
    <3>2. spans'[r].sampled = spans[r].sampled
        BY <1>1, <3>1 DEF Kept
    <3>3. QED
        BY <2>2, <2>4, <3>2
  <2>5. QED
      BY <2>3, <2>4
<1>5. ASSUME NEW t \in Tasks, NewSpan(t)
      PROVE  OneVerdict'
  <2>1. PICK n : n = NumSpans + 1
      OBVIOUS
  <2>2. Known' = Known \cup {n}
      BY <1>5, <2>1, NewIsNobodys
  <2>3. spans'[n].sampled = spans'[spans'[n].trace].sampled
      BY <1>4, <1>5, <2>1
  <2>4. QED
      BY <1>3, <2>2, <2>3 DEF OneVerdict
<1>6. ASSUME Known' = Known
      PROVE  OneVerdict'
    BY <1>3, <1>6 DEF OneVerdict
<1>7. \/ \E t \in Tasks : NewSpan(t)
      \/ Known' = Known
    BY SpansCases DEF SpansStep, Finishes, Hands, Known, NumSpans
<1>8. QED
    BY <1>5, <1>6, <1>7

\* Two spans have no event in common.
LEMMA EventsDiffer ==
    ASSUME NEW r, NEW s
    PROVE  /\ <<<<"observation", r>>>> = <<<<"observation", s>>>> => r = s
           /\ <<<<"trace", r>>, <<"observation", r>>>> = <<<<"trace", s>>, <<"observation", s>>>>
              => r = s
           /\ <<<<"observation", r>>>> # <<<<"trace", s>>, <<"observation", s>>>>
           /\ <<<<"observation", r>>>> # <<>> /\ <<<<"trace", r>>, <<"observation", r>>>> # <<>>
<1>1. Len(<<<<"observation", r>>>>) = 1 /\ Len(<<<<"trace", s>>, <<"observation", s>>>>) = 2
    OBVIOUS
<1>2. Len(<<>>) = 0 /\ Len(<<<<"trace", r>>, <<"observation", r>>>>) = 2
    OBVIOUS
<1>3. /\ <<<<"observation", r>>>>[1][2] = r /\ <<<<"observation", s>>>>[1][2] = s
      /\ <<<<"trace", r>>, <<"observation", r>>>>[1][2] = r
      /\ <<<<"trace", s>>, <<"observation", s>>>>[1][2] = s
    OBVIOUS
<1>4. QED
    BY <1>1, <1>2, <1>3

\* Task t has the observation of span s to hand over, and maybe its trace first.
Due(t, s) ==
    /\ s \in Known /\ spans[s].ended /\ spans[s].sampled /\ spans[s].sends = 0
    /\ \/ closing[t] = <<<<"observation", s>>>>
       \/ /\ closing[t] = <<<<"trace", s>>, <<"observation", s>>>>
          /\ Owns(s) /\ spans[s].traceSends = 0

\* What a task has to hand over is due, and it alone has that.
LEMMA DueFacts ==
    ASSUME SpansInv, NEW t \in Tasks
    PROVE  /\ closing[t] # <<>> => \E s : Due(t, s)
           /\ \A s \in Known : Closes(t, s) => Due(t, s)
           /\ \A s : Due(t, s) => Closes(t, s) /\ closing[t] # <<>>
           /\ \A u \in Tasks : \A s : Due(t, s) /\ Due(u, s) => t = u
           /\ \A r, s : Due(t, s) /\ Closes(t, r) => r = s
<1>1. closing[t] # <<>> => \E s : Due(t, s)
    BY DEF SpansInv, ClosingIsDue, Due
<1>2. ASSUME NEW s, Due(t, s)
      PROVE  Closes(t, s) /\ closing[t] # <<>>
    BY <1>2, EventsDiffer DEF Due, Closes
<1>3. ASSUME NEW r, NEW s, Due(t, s), Closes(t, r)
      PROVE  r = s
    BY <1>3, EventsDiffer DEF Due, Closes
<1>4. ASSUME NEW s \in Known, Closes(t, s)
      PROVE  Due(t, s)
  <2>1. closing[t] # <<>>
      BY <1>4, EventsDiffer DEF Closes
  <2>2. PICK r : Due(t, r)
      BY <1>1, <2>1
  <2>3. QED
      BY <1>3, <1>4, <2>2
<1>5. ASSUME NEW u \in Tasks, NEW s, Due(t, s), Due(u, s)
      PROVE  t = u
  <2>1. s \in Known /\ Closes(t, s) /\ Closes(u, s)
      BY <1>5 DEF Due, Closes
  <2>2. QED
      BY <2>1 DEF SpansInv, ClosingIsDue
<1>6. QED
    BY <1>1, <1>2, <1>3, <1>4, <1>5

\* What was due to be handed over still is, unless it was handed over.
LEMMA DueStays ==
    ASSUME SpansInv, [Next]_vars, NEW u \in Tasks, NEW r, Due(u, r),
           closing'[u] = closing[u], spans'[r] = spans[r]
    PROVE  Due(u, r)'
<1>1. r \in Known'
    BY SpansAreKept DEF Due
<1>2. QED
    BY <1>1 DEF Due, Owns

\* finish_span() leaves one task with a span's events to hand over ...
LEMMA FinishedIsDue ==
    ASSUME SpansInv, NEW t \in Tasks, NEW s \in Known, Finishes(t, s), NEW u \in Tasks
    PROVE  /\ u # t => closing'[u] = closing[u]
           /\ closing'[t] = Events(s) /\ ~Due(u, s)
           /\ closing'[t] = <<>> \/ Due(t, s)'
           /\ \A r : Due(u, r) => r # s /\ u # t /\ spans'[r] = spans[r]
<1>1. /\ closing \in [Tasks -> Seq(Event)] /\ spans[s] \in SpanRecord /\ Known' = Known
      /\ ~spans[s].ended /\ closing[t] = <<>>
    BY DEF SpansInv, TypeOK, Finishes, Known, NumSpans
<1>2. closing'[t] = Events(s) /\ (u # t => closing'[u] = closing[u])
    BY <1>1 DEF Finishes
<1>3. ~Due(u, s)
    BY <1>1 DEF Due
<1>4. spans[s].sends = 0 /\ spans[s].traceSends = 0
    BY <1>1 DEF SpansInv, SentOnEnd, SentOfSpan
<1>5. /\ spans'[s].ended /\ spans'[s].sampled = spans[s].sampled /\ spans'[s].sends = 0
      /\ spans'[s].traceSends = 0 /\ spans'[s].trace = spans[s].trace
    BY <1>1, <1>4 DEF Finishes, SpanRecord
<1>6. CASE ~spans[s].sampled
  <2>1. closing'[t] = <<>>
      BY <1>2, <1>6 DEF Events
  <2>2. QED
      BY <1>2, <1>3, <2>1, DueFacts DEF Finishes, Due
<1>7. CASE spans[s].sampled
  <2>1. closing'[t] = IF Owns(s) THEN <<<<"trace", s>>, <<"observation", s>>>>
                      ELSE <<<<"observation", s>>>>
      BY <1>2, <1>7 DEF Events
  <2>2. Owns(s)' <=> Owns(s)
      BY <1>5 DEF Owns
  <2>3. Due(t, s)'
      BY <1>1, <1>5, <1>7, <2>1, <2>2 DEF Due
  <2>4. QED
      BY <1>2, <1>3, <2>3, DueFacts DEF Finishes, Due
<1>8. QED
    BY <1>6, <1>7

\* ... and emit() takes one of them.
LEMMA HandedIsDue ==
    ASSUME SpansInv, NEW t \in Tasks, NEW s \in Known, Hands(t, s), NEW u \in Tasks
    PROVE  /\ Due(t, s)
           /\ u # t => closing'[u] = closing[u]
           /\ closing'[t] = <<>> \/ Due(t, s)'
           /\ \A r : Due(u, r) /\ u # t => r # s /\ spans'[r] = spans[r]
<1>1. closing \in [Tasks -> Seq(Event)] /\ spans[s] \in SpanRecord /\ Known' = Known
    BY DEF SpansInv, TypeOK, Hands, Known, NumSpans
<1>2. Due(t, s)
    BY DEF Hands, Due
<1>3. u # t => closing'[u] = closing[u]
    BY <1>1 DEF Hands
<1>4. \A r : Due(u, r) /\ u # t => r # s /\ spans'[r] = spans[r]
    BY <1>2, DueFacts DEF Due, Hands
<1>5. closing'[t] = <<>> \/ Due(t, s)'
  <2>1. CASE closing' = [closing EXCEPT ![t] = <<>>]
      BY <1>1, <2>1
  <2>2. CASE closing' = [closing EXCEPT ![t] = <<<<"observation", s>>>>]
    <3>1. closing'[t] = <<<<"observation", s>>>>
        BY <1>1, <2>2
    <3>2. closing[t] # <<<<"observation", s>>>>
      <4>1. ASSUME closing[t] = <<<<"observation", s>>>>
            PROVE  FALSE
        <5>1. closing' = [closing EXCEPT ![t] = <<>>]
            BY <4>1, EventsDiffer DEF Hands
        <5>2. closing'[t] = <<>>
            BY <1>1, <5>1
        <5>3. QED
            BY <3>1, <5>2, EventsDiffer
      <4>2. QED
          BY <4>1
    <3>3. spans'[s] = IF enabled THEN [spans[s] EXCEPT !.traceSends = 1] ELSE spans[s]
        BY <3>2 DEF Hands
    <3>4. spans'[s].ended /\ spans'[s].sampled /\ spans'[s].sends = 0
      <4>1. spans[s].ended /\ spans[s].sampled /\ spans[s].sends = 0
          BY DEF Hands
      <4>2. CASE enabled
          BY <1>1, <3>3, <4>1, <4>2 DEF SpanRecord
      <4>3. CASE ~enabled
          BY <3>3, <4>1, <4>3
      <4>4. QED
          BY <4>2, <4>3
    <3>5. QED
        BY <1>1, <3>1, <3>4 DEF Due
  <2>3. QED
      BY <2>1, <2>2 DEF Hands
<1>6. QED
    BY <1>2, <1>3, <1>4, <1>5

\* What is to be handed over is due, and nobody else has it.
LEMMA ClosingStep ==
    ASSUME SpansInv, [Next]_vars
    PROVE  ClosingIsDue'
<1>1. ASSUME \A u \in Tasks : closing'[u] # <<>> => \E s : Due(u, s)',
             \A u, w \in Tasks : \A s : Due(u, s)' /\ Due(w, s)' => u = w
      PROVE  ClosingIsDue'
  <2>1. ASSUME NEW u \in Tasks, NEW s \in Known', Closes(u, s)'
        PROVE  Due(u, s)'
    <3>1. closing'[u] # <<>>
        BY <2>1, EventsDiffer DEF Closes
    <3>2. PICK r : Due(u, r)'
        BY <1>1, <3>1
    <3>3. r = s
        BY <2>1, <3>2, EventsDiffer DEF Closes, Due
    <3>4. QED
        BY <3>2, <3>3
  <2>2. \A u \in Tasks : closing'[u] # <<>> => \E s \in Known' : Due(u, s)'
      BY <1>1 DEF Due
  <2>3. QED
      BY <1>1, <2>1, <2>2 DEF ClosingIsDue, Due
<1>2. CASE closing' = closing /\ \A s \in Known : spans'[s] = spans[s]
  <2>1. ASSUME NEW u \in Tasks, closing'[u] # <<>>
        PROVE  \E s : Due(u, s)'
      BY <1>2, <2>1, DueFacts, DueStays DEF Due
  <2>2. ASSUME NEW u \in Tasks, NEW s, Due(u, s)'
        PROVE  Due(u, s)
    <3>1. closing[u] # <<>>
        BY <1>2, <2>2, EventsDiffer DEF Due
    <3>2. PICK r : Due(u, r)
        BY <3>1, DueFacts
    <3>3. r = s
        BY <1>2, <2>2, <3>2, EventsDiffer DEF Due
    <3>4. QED
        BY <3>2, <3>3
  <2>3. QED
      BY <1>1, <2>1, <2>2, DueFacts
<1>3. ASSUME NEW t \in Tasks, NEW s \in Known,
             Due(t, s)' \/ closing'[t] = <<>>,
             \A u \in Tasks \ {t} : /\ closing'[u] = closing[u] /\ ~Due(u, s)
                                    /\ \A r : Due(u, r) => spans'[r] = spans[r]
      PROVE  ClosingIsDue'
  <2>1. ASSUME NEW u \in Tasks, closing'[u] # <<>>
        PROVE  \E r : Due(u, r)'
    <3>1. CASE u = t
        BY <1>3, <2>1, <3>1
    <3>2. CASE u # t
        BY <1>3, <2>1, <3>2, DueFacts, DueStays
    <3>3. QED
        BY <3>1, <3>2
  <2>2. ASSUME NEW u \in Tasks \ {t}, NEW r, Due(u, r)'
        PROVE  Due(u, r) /\ r # s
    <3>1. closing'[u] # <<>> /\ closing'[u] = closing[u]
        BY <1>3, <2>2, EventsDiffer DEF Due
    <3>2. PICK q : Due(u, q)
        BY <3>1, DueFacts
    <3>3. q = r
        BY <2>2, <3>1, <3>2, EventsDiffer DEF Due
    <3>4. QED
        BY <1>3, <3>2, <3>3
  <2>3. ASSUME NEW r, Due(t, r)'
        PROVE  r = s
    <3>1. closing'[t] # <<>>
        BY <2>3, EventsDiffer DEF Due
    <3>2. Due(t, s)'
        BY <1>3, <3>1
    <3>3. QED
        BY <2>3, <3>2, EventsDiffer DEF Due
  <2>4. ASSUME NEW u \in Tasks, NEW w \in Tasks, NEW r, Due(u, r)', Due(w, r)'
        PROVE  u = w
    <3>1. CASE u # t /\ w # t
        BY <2>2, <2>4, <3>1, DueFacts
    <3>2. CASE u = t \/ w = t
        BY <2>2, <2>3, <2>4, <3>2
    <3>3. QED
        BY <3>1, <3>2
  <2>5. QED
      BY <1>1, <2>1, <2>4
<1>4. ASSUME NEW t \in Tasks, NewSpan(t), closing' = closing
      PROVE  ClosingIsDue'
    BY <1>2, <1>4 DEF NewSpan
<1>5. ASSUME NEW t \in Tasks, NEW s \in Known, Finishes(t, s)
      PROVE  ClosingIsDue'
    BY <1>3, <1>5, FinishedIsDue
<1>6. ASSUME NEW t \in Tasks, NEW s \in Known, Hands(t, s)
      PROVE  ClosingIsDue'
    BY <1>3, <1>6, HandedIsDue
<1>7. QED
    BY <1>2, <1>4, <1>5, <1>6, SpansCases DEF SpansStep

\* Nothing switches the SDK on again.
LEMMA EnabledFalls ==
    ASSUME SpansInv, [Next]_vars
    PROVE  enabled' => enabled
<1>1. ASSUME NEW t \in Tasks, \/ Call(t) \/ Return(t) \/ Adopt(t) \/ EndAdopt(t)
                              \/ Yield(t) \/ EndGenerator(t) \/ Emit(t) \/ Snapshot(t)
      PROVE  enabled' = enabled
    BY <1>1 DEF Call, Return, Adopt, EndAdopt, Yield, EndGenerator, Emit, Snapshot
<1>2. ASSUME NEW t \in Tasks, NEW g \in Gens, \/ StartGenerator(t, g) \/ Resume(t, g)
                                              \/ CloseGenerator(t, g) \/ StartBare(t, g)
      PROVE  enabled' = enabled
    BY <1>2 DEF StartGenerator, Resume, CloseGenerator, StartBare
<1>3. ASSUME NEW t \in Tasks, NEW u \in Tasks, NEW copies \in BOOLEAN, Spawn(t, u, copies)
      PROVE  enabled' = enabled
    BY <1>3 DEF Spawn
<1>4. Configure => ~enabled'
    BY DEF Configure
<1>5. UNCHANGED vars => enabled' = enabled
    BY DEF vars
<1>6. QED
    BY <1>1, <1>2, <1>3, <1>4, <1>5, NextCases

\* SentOfSpan, by who has what to hand over.
LEMMA SentByDue ==
    ASSUME SpansInv, NEW s \in Known
    PROVE  LET due == enabled /\ spans[s].ended /\ spans[s].sampled
           IN  /\ ~spans[s].ended \/ ~spans[s].sampled =>
                    spans[s].sends = 0 /\ spans[s].traceSends = 0
               /\ ~Owns(s) => spans[s].traceSends = 0
               /\ due /\ Owns(s) =>
                    \/ spans[s].traceSends = 1
                    \/ \E t \in Tasks : Due(t, s) /\ closing[t] # <<<<"observation", s>>>>
               /\ due => spans[s].sends = 1 \/ \E t \in Tasks : Due(t, s)
<1>1. SentOfSpan(s)
    BY DEF SpansInv, SentOnEnd
<1>2. ASSUME NEW t \in Tasks
      PROVE  /\ Closes(t, s) => Due(t, s)
             /\ closing[t] = <<<<"trace", s>>, <<"observation", s>>>> =>
                  Due(t, s) /\ closing[t] # <<<<"observation", s>>>>
    BY DueFacts, EventsDiffer DEF Closes
<1>3. QED
    BY <1>1, <1>2 DEF SentOfSpan

\* The same of a span that a step leaves alone, with the events of it.
LEMMA SentStays ==
    ASSUME SpansInv, [Next]_vars, NEW s \in Known, spans'[s] = spans[s],
           \A t \in Tasks : Due(t, s) => closing'[t] = closing[t]
    PROVE  SentOfSpan(s)'
<1>1. /\ Owns(s)' <=> Owns(s)
      /\ enabled' => enabled
    BY EnabledFalls DEF Owns
<1>2. ASSUME NEW t \in Tasks, Due(t, s)
      PROVE  /\ Closes(t, s)'
             /\ closing[t] # <<<<"observation", s>>>> =>
                  closing'[t] = <<<<"trace", s>>, <<"observation", s>>>>
    BY <1>2 DEF Due, Closes
<1>3. /\ ~spans[s].ended \/ ~spans[s].sampled => spans[s].sends = 0 /\ spans[s].traceSends = 0
      /\ ~Owns(s) => spans[s].traceSends = 0
      /\ enabled /\ spans[s].ended /\ spans[s].sampled /\ Owns(s) =>
            \/ spans[s].traceSends = 1
            \/ \E t \in Tasks : Due(t, s) /\ closing[t] # <<<<"observation", s>>>>
      /\ enabled /\ spans[s].ended /\ spans[s].sampled =>
            spans[s].sends = 1 \/ \E t \in Tasks : Due(t, s)
    BY SentByDue
<1>4. /\ ~spans'[s].ended \/ ~spans'[s].sampled => spans'[s].sends = 0 /\ spans'[s].traceSends = 0
      /\ ~Owns(s)' => spans'[s].traceSends = 0
    BY <1>1, <1>3
<1>5. enabled' /\ spans'[s].ended /\ spans'[s].sampled /\ Owns(s)' =>
            \/ spans'[s].traceSends = 1
            \/ \E t \in Tasks : closing'[t] = <<<<"trace", s>>, <<"observation", s>>>>
    BY <1>1, <1>2, <1>3
<1>6. enabled' /\ spans'[s].ended /\ spans'[s].sampled =>
            spans'[s].sends = 1 \/ \E t \in Tasks : Closes(t, s)'
    BY <1>1, <1>2, <1>3
<1>7. QED
    BY <1>4, <1>5, <1>6 DEF SentOfSpan

\* A span's events are sent when it ends, if its trace is kept.
LEMMA SentStep ==
    ASSUME SpansInv, [Next]_vars
    PROVE  SentOnEnd'
<1>1. /\ \A r \in Known : spans[r] \in SpanRecord
      /\ closing \in [Tasks -> Seq(Event)]
    BY DEF SpansInv, TypeOK, Known, NumSpans
<1>2. ASSUME NEW t \in Tasks, NewSpan(t), closing' = closing
      PROVE  SentOnEnd'
  <2>1. PICK n : n = NumSpans + 1
      OBVIOUS
  <2>2. /\ Known' = Known \cup {n} /\ ~spans'[n].ended
        /\ \A r \in Known : spans'[r] = spans[r]
      BY <1>2, <2>1, NewIsNobodys
  <2>3. spans'[n].sends = 0 /\ spans'[n].traceSends = 0
      BY <1>2, <2>1 DEF NewSpan
  <2>4. SentOfSpan(n)'
      BY <2>2, <2>3 DEF SentOfSpan
  <2>5. \A r \in Known : SentOfSpan(r)'
      BY <1>2, <2>2, SentStays
  <2>6. QED
      BY <2>2, <2>4, <2>5 DEF SentOnEnd
<1>3. ASSUME NEW t \in Tasks, NEW s \in Known, Finishes(t, s)
      PROVE  SentOnEnd'
  <2>1. Known' = Known /\ \A r \in Known \ {s} : spans'[r] = spans[r]
      BY <1>3 DEF Finishes, Known
  <2>2. \A r \in Known \ {s} : SentOfSpan(r)'
      BY <1>3, <2>1, FinishedIsDue, SentStays
  <2>3. spans'[s] = [spans[s] EXCEPT !.ended = TRUE] /\ ~spans[s].ended
      BY <1>3 DEF Finishes
  <2>4. spans[s].sends = 0 /\ spans[s].traceSends = 0
      BY <2>3, SentByDue
  <2>5. /\ spans'[s].ended /\ spans'[s].sampled = spans[s].sampled
        /\ spans'[s].sends = 0 /\ spans'[s].traceSends = 0 /\ spans'[s].trace = spans[s].trace
      BY <1>1, <2>3, <2>4 DEF SpanRecord
  <2>6. closing'[t] = Events(s)
      BY <1>3, FinishedIsDue
  <2>7. Owns(s)' <=> Owns(s)
      BY <2>5 DEF Owns
  <2>8. spans[s].sampled => /\ Closes(t, s)'
                            /\ Owns(s) => closing'[t] = <<<<"trace", s>>, <<"observation", s>>>>
      BY <2>6 DEF Events, Closes
  <2>9. SentOfSpan(s)'
      BY <2>5, <2>7, <2>8 DEF SentOfSpan
  <2>10. QED
      BY <2>1, <2>2, <2>9 DEF SentOnEnd
<1>4. ASSUME NEW t \in Tasks, NEW s \in Known, Hands(t, s)
      PROVE  SentOnEnd'
  <2>1. Known' = Known /\ \A r \in Known \ {s} : spans'[r] = spans[r]
      BY <1>4 DEF Hands, Known
  <2>2. ASSUME NEW r \in Known \ {s}
        PROVE  SentOfSpan(r)'
    <3>1. ASSUME NEW u \in Tasks, Due(u, r)
          PROVE  closing'[u] = closing[u]
      <4>1. Due(t, s)
          BY <1>4, HandedIsDue
      <4>2. u # t
          BY <3>1, <4>1, DueFacts
      <4>3. QED
          BY <1>4, <4>2, HandedIsDue
    <3>2. QED
        BY <2>1, <3>1, SentStays
  <2>3. spans[s].ended /\ spans[s].sampled /\ spans[s].sends = 0
      BY <1>4 DEF Hands
  <2>4. \A u \in Tasks : Due(u, s) => u = t
      BY <1>4, HandedIsDue, DueFacts
  <2>5. enabled /\ Owns(s) /\ closing[t] = <<<<"observation", s>>>> => spans[s].traceSends = 1
      BY <2>3, <2>4, SentByDue
  <2>6. ~Owns(s) => spans[s].traceSends = 0
      BY SentByDue
  <2>7. enabled' => enabled
      BY <1>4, EnabledFalls
  <2>8. CASE /\ closing[t] = <<<<"observation", s>>>>
             /\ spans'[s] = IF enabled THEN [spans[s] EXCEPT !.sends = 1] ELSE spans[s]
    <3>1. /\ spans'[s].ended /\ spans'[s].sampled /\ spans'[s].trace = spans[s].trace
          /\ spans'[s].traceSends = spans[s].traceSends
          /\ enabled => spans'[s].sends = 1
      <4>1. CASE enabled
          BY <1>1, <2>3, <2>8, <4>1 DEF SpanRecord
      <4>2. CASE ~enabled
          BY <2>3, <2>8, <4>2
      <4>3. QED
          BY <4>1, <4>2
    <3>2. Owns(s)' <=> Owns(s)
        BY <3>1 DEF Owns
    <3>3. QED
        BY <2>5, <2>6, <2>7, <2>8, <3>1, <3>2, <2>1, <2>2 DEF SentOfSpan, SentOnEnd
  <2>9. CASE /\ Owns(s) /\ closing' = [closing EXCEPT ![t] = <<<<"observation", s>>>>]
             /\ spans'[s] = IF enabled THEN [spans[s] EXCEPT !.traceSends = 1] ELSE spans[s]
    <3>1. /\ spans'[s].ended /\ spans'[s].sampled /\ spans'[s].trace = spans[s].trace
          /\ enabled => spans'[s].traceSends = 1
      <4>1. CASE enabled
          BY <1>1, <2>3, <2>9, <4>1 DEF SpanRecord
      <4>2. CASE ~enabled
          BY <2>3, <2>9, <4>2
      <4>3. QED
          BY <4>1, <4>2
    <3>2. Owns(s)' <=> Owns(s)
        BY <3>1 DEF Owns
    <3>3. Closes(t, s)'
        BY <1>1, <2>9 DEF Closes
    <3>4. SentOfSpan(s)'
        BY <2>7, <2>9, <3>1, <3>2, <3>3 DEF SentOfSpan
    <3>5. QED
        BY <2>1, <2>2, <3>4 DEF SentOnEnd
  <2>10. QED
      BY <1>4, <2>8, <2>9 DEF Hands
<1>5. ASSUME spans' = spans, closing' = closing
      PROVE  SentOnEnd'
  <2>1. Known' = Known
      BY <1>5 DEF Known, NumSpans
  <2>2. \A s \in Known : SentOfSpan(s)'
      BY <1>5, SentStays
  <2>3. QED
      BY <2>1, <2>2 DEF SentOnEnd
<1>6. QED
    BY <1>2, <1>3, <1>4, <1>5, SpansCases DEF SpansStep

-----------------------------------------------------------------------------
(* The invariant holds.                                                    *)

\* At first nothing was called, and nothing opened.
LEMMA SpansInit == Init => SpansInv
<1> SUFFICES ASSUME Init
             PROVE  SpansInv
    OBVIOUS
<1>1. /\ NumSpans = 0 /\ Known = {} /\ Empty \in Context /\ None \notin Int
      /\ Len(<<>>) = 0 /\ DOMAIN <<>> = {}
    BY SpansAssumption DEF Init, NumSpans, Known, Empty, Context
<1>2. /\ \A t \in Tasks : /\ context[t] = Empty /\ base[t] = Empty
                          /\ stack[t] = <<>> /\ closing[t] = <<>>
      /\ \A g \in Gens : gens[g] = [state |-> "fresh", span |-> None]
      /\ snap = Empty
    BY DEF Init
<1>3. TypeOK
  <2>1. context \in [Tasks -> Context] /\ base \in [Tasks -> Context] /\ snap \in Context
      BY <1>1 DEF Init
  <2>2. gens \in [Gens -> Generator]
      BY DEF Init, Generator
  <2>3. stack \in [Tasks -> Seq(Frame)] /\ \A t \in Tasks : Len(stack[t]) <= MaxDepth
      BY <1>2, SpansAssumption DEF Init
  <2>4. closing \in [Tasks -> Seq(Event)]
      BY DEF Init
  <2>5. spans \in Seq(SpanRecord) /\ NumSpans <= MaxSpans
      BY <1>1, SpansAssumption DEF Init
  <2>6. enabled \in BOOLEAN /\ wandered \in BOOLEAN /\ begun \subseteq Tasks
      BY DEF Init
  <2>7. QED
      BY <1>1, <2>1, <2>2, <2>3, <2>4, <2>5, <2>6 DEF TypeOK
<1>4. ContextsAreKnown
    BY <1>1, <1>2 DEF ContextsAreKnown, KnownContext, Empty
<1>5. LevelsFollowScopes
  <2>1. ASSUME NEW t \in Tasks, NEW i \in 0..Len(stack[t])
        PROVE  /\ Level(t, i).parent = IF i = 0 THEN base[t].parent ELSE stack[t][i].span
               /\ LevelTrace(t, i)
    <3>1. i = 0 /\ Level(t, i) = Empty /\ base[t] = Empty
        BY <1>1, <1>2, <2>1 DEF Level
    <3>2. LevelTrace(t, 0)
        BY <3>1 DEF LevelTrace
    <3>3. QED
        BY <3>1, <3>2
  <2>2. QED
      BY <2>1 DEF LevelsFollowScopes
<1>6. ScopesAreInUse /\ EnteredOnce /\ NothingBeforeBegin
    BY <1>1, <1>2 DEF ScopesAreInUse, EnteredOnce, NothingBeforeBegin
<1>7. GeneratorsOwnSpans
    BY <1>2 DEF GeneratorsOwnSpans
<1>8. SomebodyEnds /\ OneVerdict /\ SentOnEnd
    BY <1>1 DEF SomebodyEnds, OneVerdict, SentOnEnd
<1>9. ClosingIsDue
    BY <1>1, <1>2 DEF ClosingIsDue
<1>10. ContextsCohere
  <2>1. Coherent(Empty)
      BY DEF Coherent, Empty
  <2>2. NestsInOneTrace
      BY <1>1 DEF NestsInOneTrace
  <2>3. QED
      BY <1>1, <1>2, <2>1, <2>2 DEF ContextsCohere
<1>11. QED
    BY <1>3, <1>4, <1>5, <1>6, <1>7, <1>8, <1>9, <1>10 DEF SpansInv

\* Every step keeps all of its parts.
LEMMA SpansNext == SpansInv /\ [Next]_vars => SpansInv'
BY TypingStep, ContextsAreKnownStep, LevelsStep, ScopesInUseStep, EnteredOnceStep,
   GeneratorsStep, SomebodyEndsStep, BeginStep, VerdictStep, ClosingStep, SentStep, CohereStep
DEF SpansInv

\* It holds in every reachable state.
LEMMA SpansInvariance == Spec => []SpansInv
BY SpansInit, SpansNext, PTL DEF Spec

-----------------------------------------------------------------------------
(* The properties that the runs check.                                     *)

\* However generators, tasks and adopted snapshots interleave, the context
\* variables of a task are what the calls it is inside of make them: no scope
\* is left open, and none is closed that another call is in (decorator.py:119).
THEOREM ContextsFollowCalls == Spec => []AmbientFollowsCalls
<1>1. ASSUME SpansInv, NEW t \in Tasks
      PROVE  /\ context[t].parent = Innermost(t)
             /\ context[t].observation = Innermost(t)
             /\ context[t].trace = ScopedTrace(t)
  <2>1. PICK n \in Nat : n = Len(stack[t]) /\ DOMAIN stack[t] = 1..n
      BY <1>1 DEF SpansInv, TypeOK
  <2>2. Level(t, n) = context[t]
      BY <2>1 DEF Level
  <2>3. /\ context[t].parent = IF n = 0 THEN base[t].parent ELSE stack[t][n].span
        /\ LevelTrace(t, n)
      BY <1>1, <2>1, <2>2 DEF SpansInv, LevelsFollowScopes
  <2>4. /\ n = 0 <=> stack[t] = <<>>
        /\ n # 0 => Last(stack[t]) = stack[t][n]
      BY <1>1, <2>1 DEF SpansInv, TypeOK, Last
  <2>5. context[t].parent = Innermost(t)
      BY <2>3, <2>4 DEF Innermost
  <2>6. context[t].observation = context[t].parent
      BY <1>1 DEF SpansInv, ContextsAreKnown, KnownContext
  <2>7. PICK j \in 0..n :
          /\ \A k \in 1..n : k > j => ~Sets(stack[t][k])
          /\ j > 0 => Sets(stack[t][j])
          /\ context[t].trace = IF j = 0 THEN base[t].trace ELSE TraceSet(stack[t][j])
      BY <2>2, <2>3 DEF LevelTrace
  <2>8. PICK sets : sets = {i \in DOMAIN stack[t] : Sets(stack[t][i])}
      OBVIOUS
  <2>9. ScopedTrace(t) =
          IF sets = {} THEN base[t].trace
          ELSE TraceSet(stack[t][CHOOSE i \in sets : \A k \in sets : k <= i])
      BY <2>8 DEF ScopedTrace, Sets, TraceSet
  <2>10. CASE j = 0
    <3>1. sets = {}
        BY <2>1, <2>7, <2>8, <2>10
    <3>2. QED
        BY <2>5, <2>6, <2>7, <2>9, <2>10, <3>1
  <2>11. CASE j # 0
    <3>1. j \in sets /\ \A k \in sets : k <= j /\ k \in Nat
        BY <2>1, <2>7, <2>8, <2>11
    <3>2. PICK i : i = CHOOSE h \in sets : \A k \in sets : k <= h
        OBVIOUS
    <3>3. i \in sets /\ \A k \in sets : k <= i
        BY <3>1, <3>2
    <3>4. i = j
        BY <3>1, <3>3
    <3>5. QED
        BY <2>5, <2>6, <2>7, <2>9, <2>11, <3>1, <3>2, <3>4
  <2>12. QED
      BY <2>10, <2>11
<1>2. SpansInv => AmbientFollowsCalls
    BY <1>1 DEF SpansInv, AmbientFollowsCalls
<1>3. QED
    BY <1>2, SpansInvariance, PTL

\* An observation belongs to the trace of the one it nests under, for as long
\* as each generator is consumed in the trace it was started in.
THEOREM SpansNest == Spec => []NestsUnlessWandering
<1>1. SpansInv => NestsUnlessWandering
    BY DEF SpansInv, ContextsCohere, NestsUnlessWandering
<1>2. QED
    BY <1>1, SpansInvariance, PTL

\* "A kept trace is whole and a dropped one is silent" (decorator.py:273):
\* silent in every state, and whole once every call has ended if the SDK was
\* not disabled.
THEOREM TracesAreWhole == Spec => []KeptTracesAreWhole
<1>1. ASSUME SpansInv, Quiet, enabled, NEW s \in Known, spans[spans[s].trace].sampled
      PROVE  spans[s].sends = 1 /\ (Owns(s) => spans[s].traceSends = 1)
  <2>1. spans[s].ended
    <3>1. /\ \A t \in Tasks : \A i : ~Holds(t, i, s)
          /\ \A g \in Gens : gens[g] # [state |-> "suspended", span |-> s]
        BY <1>1 DEF Quiet, Holds
    <3>2. QED
        BY <1>1, <3>1 DEF SpansInv, SomebodyEnds
  <2>2. spans[s].sampled
      BY <1>1 DEF SpansInv, OneVerdict
  <2>3. \A t \in Tasks : ~Due(t, s)
      BY <1>1, DueFacts DEF Quiet
  <2>4. QED
      BY <1>1, <2>1, <2>2, <2>3, SentByDue
<1>2. ASSUME SpansInv, NEW s \in Known
      PROVE  /\ ~spans[spans[s].trace].sampled => spans[s].sends = 0 /\ spans[s].traceSends = 0
             /\ ~Owns(s) => spans[s].traceSends = 0
  <2>1. spans[s].sampled = spans[spans[s].trace].sampled
      BY <1>2 DEF SpansInv, OneVerdict
  <2>2. SentOfSpan(s)
      BY <1>2 DEF SpansInv, SentOnEnd
  <2>3. QED
      BY <2>1, <2>2 DEF SentOfSpan
<1>3. SpansInv => KeptTracesAreWhole
    BY <1>1, <1>2 DEF KeptTracesAreWhole, Known
<1>4. QED
    BY <1>3, SpansInvariance, PTL

\* What a task annotates or scores is the call that it is in: an observation
\* that has not ended, in a trace that is kept (annotate.py:148).
THEOREM AnnotationsLand == Spec => []AnnotationsHitTheCaller
<1>1. ASSUME SpansInv, NEW t \in Tasks
      PROVE  /\ KnownContext(context[t]) /\ context[t].parent = Innermost(t)
             /\ ~wandered => Coherent(context[t])
  <2>1. PICK n \in Nat : n = Len(stack[t]) /\ DOMAIN stack[t] = 1..n
      BY <1>1 DEF SpansInv, TypeOK
  <2>2. Level(t, n) = context[t]
      BY <2>1 DEF Level
  <2>3. context[t].parent = IF n = 0 THEN base[t].parent ELSE stack[t][n].span
      BY <1>1, <2>1, <2>2 DEF SpansInv, LevelsFollowScopes
  <2>4. /\ n = 0 <=> stack[t] = <<>>
        /\ n # 0 => Last(stack[t]) = stack[t][n]
      BY <1>1, <2>1 DEF SpansInv, TypeOK, Last
  <2>5. context[t].parent = Innermost(t)
      BY <2>3, <2>4 DEF Innermost
  <2>6. KnownContext(context[t])
      BY <1>1 DEF SpansInv, ContextsAreKnown
  <2>7. ~wandered => Coherent(context[t])
      BY <1>1 DEF SpansInv, ContextsCohere
  <2>8. QED
      BY <2>5, <2>6, <2>7
<1>2. ASSUME SpansInv, NEW t \in Tasks, stack[t] # <<>>, Last(stack[t]).kind # "adopt"
      PROVE  /\ ~spans[UpdateObservation(t)].ended
             /\ ~wandered => UpdateTrace(t) = spans[Innermost(t)].trace
  <2>1. Innermost(t) = Last(stack[t]).span
      BY <1>2 DEF Innermost
  <2>2. Innermost(t) \in Known /\ ~spans[Innermost(t)].ended
      BY <1>2, <2>1, InnermostInUse DEF InUse
  <2>3. UpdateObservation(t) = Innermost(t)
      BY <1>1, <1>2 DEF KnownContext, UpdateObservation
  <2>4. Innermost(t) # None
      BY <2>2, SpansAssumption DEF Known
  <2>5. ~wandered => context[t].trace = spans[Innermost(t)].trace
      BY <1>1, <1>2, <2>4 DEF Coherent
  <2>6. QED
      BY <2>2, <2>3, <2>5 DEF UpdateTrace
<1>3. ASSUME SpansInv, NEW t \in Tasks, Score(t) # None
      PROVE  /\ spans[Score(t).trace].sampled
             /\ ~wandered /\ Score(t).observation # None =>
                  spans[Score(t).observation].trace = Score(t).trace
  <2>1. /\ Scorable(context[t].trace)
        /\ Score(t) = [trace |-> context[t].trace, observation |-> context[t].observation]
      BY <1>3 DEF Score
  <2>2. /\ Score(t).trace = context[t].trace
        /\ Score(t).observation = context[t].parent
      BY <1>1, <1>3, <2>1 DEF KnownContext
  <2>3. spans[Score(t).trace].sampled
      BY <2>1, <2>2 DEF Scorable
  <2>4. ~wandered /\ context[t].parent # None => spans[context[t].parent].trace = context[t].trace
      BY <1>1, <1>3 DEF Coherent
  <2>5. QED
      BY <2>2, <2>3, <2>4
<1>4. ASSUME SpansInv, NEW t \in Tasks
      PROVE  UpdateObservation(t) = Innermost(t)
    BY <1>1, <1>4 DEF KnownContext, UpdateObservation
<1>5. SpansInv => AnnotationsHitTheCaller
    BY <1>2, <1>3, <1>4 DEF AnnotationsHitTheCaller
<1>6. QED
    BY <1>5, SpansInvariance, PTL

-----------------------------------------------------------------------------
(* The lifecycle of a span.                                                *)

\* The fate of a span, by who has its observation to hand over.
FateByDue(s) ==
    IF s > NumSpans THEN "unopened"
    ELSE IF spans[s].sends = 1 THEN "sent"
    ELSE IF ~spans[s].ended \/ \E t \in Tasks : Due(t, s) THEN "open"
    ELSE "withheld"

FatesByDue == \A s \in Id : Fate(s) = FateByDue(s)

\* The spans whose trace was handed over.
TracedSpans == {s \in 1..NumSpans : spans[s].traceSends > 0}

\* An observation is among the events of a task if it is due there.
LEMMA FateIs == SpansInv => FatesByDue
<1> SUFFICES ASSUME SpansInv, NEW s \in Id
             PROVE  Fate(s) = FateByDue(s)
    BY DEF FatesByDue
<1>1. ASSUME NEW t \in Tasks, <<"observation", s>> \in Range(closing[t])
      PROVE  Due(t, s)
  <2>1. PICK i \in DOMAIN closing[t] : closing[t][i] = <<"observation", s>>
      BY <1>1 DEF Range
  <2>2. closing[t] # <<>>
      BY <2>1
  <2>3. PICK r : Due(t, r)
      BY <2>2, DueFacts
  <2>4. CASE closing[t] = <<<<"observation", r>>>>
      BY <2>1, <2>3, <2>4
  <2>5. CASE closing[t] = <<<<"trace", r>>, <<"observation", r>>>>
      BY <2>1, <2>3, <2>5
  <2>6. QED
      BY <2>3, <2>4, <2>5 DEF Due
<1>2. ASSUME NEW t \in Tasks, Due(t, s)
      PROVE  <<"observation", s>> \in Range(closing[t])
  <2>1. CASE closing[t] = <<<<"observation", s>>>>
    <3>1. 1 \in DOMAIN closing[t] /\ closing[t][1] = <<"observation", s>>
        BY <2>1
    <3>2. QED
        BY <3>1 DEF Range
  <2>2. CASE closing[t] = <<<<"trace", s>>, <<"observation", s>>>>
    <3>1. 2 \in DOMAIN closing[t] /\ closing[t][2] = <<"observation", s>>
        BY <2>2
    <3>2. QED
        BY <3>1 DEF Range
  <2>3. QED
      BY <1>2, <2>1, <2>2 DEF Due
<1>3. QED
    BY <1>1, <1>2 DEF Fate, FateByDue

\* It holds after a step as well.
LEMMA FateIsNext == SpansInv /\ [Next]_vars => FatesByDue'
BY FateIs, SpansNext, PTL

\* A step that finishes or hands over one span leaves the fate of the others.
LEMMA FateStays ==
    ASSUME SpansInv, [Next]_vars, NEW r \in Known, spans'[r] = spans[r],
           NEW t \in Tasks, NEW s, s # r,
           closing[t] = <<>> \/ Due(t, s), closing'[t] = <<>> \/ Due(t, s)',
           \A u \in Tasks \ {t} : closing'[u] = closing[u]
    PROVE  Fate(r)' = Fate(r)
<1>1. /\ Fate(r)' = FateByDue(r)' /\ Fate(r) = FateByDue(r)
      /\ r \in Known' /\ ~(r > NumSpans) /\ ~(r > NumSpans')
  <2>1. r \in Id /\ r \in Known' /\ ~(r > NumSpans) /\ ~(r > NumSpans')
      BY SpansAssumption, SpansAreKept DEF SpansInv, TypeOK, Known, Id
  <2>2. QED
      BY <2>1, FateIs, FateIsNext DEF FatesByDue
<1>2. ~Due(t, r) /\ ~Due(t, r)'
  <2>1. ~Due(t, r)
      BY EventsDiffer DEF Due
  <2>2. ~Due(t, r)'
      BY EventsDiffer DEF Due
  <2>3. QED
      BY <2>1, <2>2
<1>3. \A u \in Tasks \ {t} : Due(u, r)' <=> Due(u, r)
    BY <1>1 DEF Due, Owns
<1>4. (\E u \in Tasks : Due(u, r)') <=> \E u \in Tasks : Due(u, r)
    BY <1>2, <1>3
<1>5. QED
    BY <1>1, <1>4 DEF FateByDue


\* What may become of a span in a step of the lifecycle.
FateMoves(s) ==
    /\ \A r \in Id \ {s} : Fate(r)' = Fate(r)
    /\ \/ /\ Fate(s) = "unopened" /\ Fate(s)' = "open" /\ TracedSpans' = TracedSpans
       \/ /\ Fate(s) = "open" /\ Fate(s)' \in {"open", "sent", "withheld"}
          /\ TracedSpans' = TracedSpans
       \/ /\ Fate(s) = "open" /\ Fate(s)' = "open"
          /\ s \notin TracedSpans /\ TracedSpans' = TracedSpans \cup {s}

\* A new span is open.
LEMMA OpeningMoves ==
    ASSUME SpansInv, [Next]_vars, NEW t \in Tasks, NewSpan(t), closing' = closing
    PROVE  \E s \in Id : FateMoves(s)
<1>1. PICK n : n = NumSpans + 1
    OBVIOUS
<1>2. /\ Known' = Known \cup {n} /\ n \notin Known /\ ~spans'[n].ended
      /\ \A r \in Known : spans'[r] = spans[r]
    BY <1>1, NewIsNobodys
<1>3. /\ n \in Id /\ spans'[n].sends = 0 /\ spans'[n].traceSends = 0
      /\ NumSpans' = n /\ NumSpans \in Nat
    BY <1>1, SpansAreKept DEF NewSpan
<1>4. \A s \in Id : Fate(s)' = FateByDue(s)' /\ Fate(s) = FateByDue(s)
    BY FateIs, FateIsNext DEF FatesByDue
<1>5. n > NumSpans /\ ~(n > NumSpans')
    BY <1>1, <1>3
<1>6. Fate(n) = "unopened" /\ Fate(n)' = "open"
    BY <1>2, <1>3, <1>4, <1>5 DEF FateByDue
<1>7. ASSUME NEW r \in Id \ {n}
      PROVE  Fate(r)' = Fate(r)
  <2>1. CASE r \in Known
    <3>1. spans'[r] = spans[r] /\ r \in Known' /\ ~(r > NumSpans) /\ ~(r > NumSpans')
        BY <1>1, <1>2, <1>3, <2>1 DEF Known
    <3>2. \A u \in Tasks : Due(u, r)' <=> Due(u, r)
        BY <2>1, <3>1 DEF Due, Owns
    <3>3. QED
        BY <1>4, <3>1, <3>2 DEF FateByDue
  <2>2. CASE r \notin Known
    <3>1. r > NumSpans /\ r > NumSpans'
        BY <1>1, <1>3, <2>2 DEF Known, Id
    <3>2. QED
        BY <1>4, <3>1 DEF FateByDue
  <2>3. QED
      BY <2>1, <2>2
<1>8. TracedSpans' = TracedSpans
    BY <1>2, <1>3 DEF TracedSpans, Known
<1>9. QED
    BY <1>3, <1>6, <1>7, <1>8 DEF FateMoves

\* Steps that open no span: what is unopened stays so.
LEMMA UnopenedStays ==
    ASSUME SpansInv, [Next]_vars, Known' = Known, NumSpans' = NumSpans, NEW r \in Id, r \notin Known
    PROVE  Fate(r)' = Fate(r)
<1>1. r > NumSpans /\ r > NumSpans'
    BY SpansAreKept DEF Known, Id
<1>2. QED
    BY <1>1, FateIs, FateIsNext DEF FatesByDue, FateByDue

\* A span that ends stays open until its observation was handed over, and is
\* withheld if its trace is dropped.
LEMMA FinishingMoves ==
    ASSUME SpansInv, [Next]_vars, NEW t \in Tasks, NEW s \in Known, Finishes(t, s)
    PROVE  FateMoves(s)
<1>1. /\ closing[t] = <<>> /\ ~spans[s].ended /\ NumSpans' = NumSpans /\ Known' = Known
      /\ \A r \in Known \ {s} : spans'[r] = spans[r]
    BY DEF Finishes, Known
<1>2. /\ s \in Id /\ spans[s] \in SpanRecord /\ ~(s > NumSpans)
      /\ spans'[s] = [spans[s] EXCEPT !.ended = TRUE]
    BY SpansAreKept, SpansAssumption DEF SpansInv, TypeOK, Known, Id, Finishes, NumSpans
<1>3. spans[s].sends = 0
    BY <1>1, SentByDue
<1>4. spans'[s].sends = 0 /\ spans'[s].traceSends = spans[s].traceSends
    BY <1>2, <1>3 DEF SpanRecord
<1>5. Fate(s) = "open"
    BY <1>1, <1>2, <1>3, FateIs DEF FatesByDue, FateByDue
<1>6. Fate(s)' = FateByDue(s)'
    BY <1>2, FateIsNext DEF FatesByDue
<1>7. Fate(s)' \in {"open", "withheld"}
    BY <1>1, <1>2, <1>4, <1>6 DEF FateByDue
<1>8. ASSUME NEW r \in Id \ {s}
      PROVE  Fate(r)' = Fate(r)
  <2>1. CASE r \in Known
      BY <1>1, <2>1, FinishedIsDue, FateStays
  <2>2. CASE r \notin Known
      BY <1>1, <2>2, UnopenedStays
  <2>3. QED
      BY <2>1, <2>2
<1>9. TracedSpans' = TracedSpans
    BY <1>1, <1>4 DEF TracedSpans, Known
<1>10. QED
    BY <1>5, <1>7, <1>8, <1>9 DEF FateMoves

\* What emit() hands over was open, and goes at most once.
LEMMA HandingMoves ==
    ASSUME SpansInv, [Next]_vars, NEW t \in Tasks, NEW s \in Known, Hands(t, s)
    PROVE  FateMoves(s)
<1>1. /\ NumSpans' = NumSpans /\ Known' = Known /\ spans[s].ended /\ spans[s].sends = 0
      /\ \A r \in Known \ {s} : spans'[r] = spans[r]
    BY DEF Hands, Known
<1>2. s \in Id /\ spans[s] \in SpanRecord /\ ~(s > NumSpans)
    BY SpansAreKept, SpansAssumption DEF SpansInv, TypeOK, Known, Id, NumSpans
<1>3. Due(t, s)
    BY HandedIsDue
<1>4. Fate(s) = "open"
    BY <1>1, <1>2, <1>3, FateIs DEF FatesByDue, FateByDue
<1>5. Fate(s)' = FateByDue(s)'
    BY <1>2, FateIsNext DEF FatesByDue
<1>6. Fate(s)' \in {"open", "sent", "withheld"}
    BY <1>1, <1>2, <1>5 DEF FateByDue
<1>7. ASSUME NEW r \in Id \ {s}
      PROVE  Fate(r)' = Fate(r)
  <2>1. CASE r \in Known
      BY <1>1, <1>3, <2>1, HandedIsDue, FateStays
  <2>2. CASE r \notin Known
      BY <1>1, <2>2, UnopenedStays
  <2>3. QED
      BY <2>1, <2>2
<1>8. CASE spans'[s].traceSends = spans[s].traceSends
  <2>1. TracedSpans' = TracedSpans
      BY <1>1, <1>8 DEF TracedSpans, Known
  <2>2. QED
      BY <1>4, <1>6, <1>7, <2>1 DEF FateMoves
<1>9. CASE /\ closing[t] = <<<<"observation", s>>>>
           /\ spans'[s] = IF enabled THEN [spans[s] EXCEPT !.sends = 1] ELSE spans[s]
    BY <1>2, <1>8, <1>9 DEF SpanRecord
<1>10. CASE /\ spans[s].traceSends = 0 /\ enabled
            /\ closing[t] = <<<<"trace", s>>, <<"observation", s>>>>
            /\ closing' = [closing EXCEPT ![t] = <<<<"observation", s>>>>]
            /\ spans'[s] = IF enabled THEN [spans[s] EXCEPT !.traceSends = 1] ELSE spans[s]
  <2>1. spans'[s].traceSends = 1 /\ spans'[s].sends = 0
      BY <1>1, <1>2, <1>10 DEF SpanRecord
  <2>2. closing'[t] = <<<<"observation", s>>>>
      BY <1>10 DEF SpansInv, TypeOK
  <2>3. Due(t, s)'
      BY <2>2, HandedIsDue, EventsDiffer
  <2>4. Fate(s)' = "open"
      BY <1>1, <1>2, <1>5, <2>1, <2>3 DEF FateByDue
  <2>5. s \notin TracedSpans /\ TracedSpans' = TracedSpans \cup {s}
    <3>1. /\ TracedSpans = {r \in Known : spans[r].traceSends > 0}
          /\ TracedSpans' = {r \in Known : spans'[r].traceSends > 0}
        BY <1>1 DEF TracedSpans, Known
    <3>2. spans[s].traceSends = 0
        BY <1>10
    <3>3. s \notin TracedSpans /\ s \in TracedSpans'
        BY <2>1, <3>1, <3>2
    <3>4. \A r \in Known \ {s} : r \in TracedSpans' <=> r \in TracedSpans
        BY <1>1, <3>1
    <3>5. QED
        BY <3>1, <3>3, <3>4
  <2>6. QED
      BY <1>4, <1>7, <2>4, <2>5 DEF FateMoves
<1>11. QED
    BY <1>8, <1>9, <1>10 DEF Hands

\* A step changes the fate of at most one span.
LEMMA FateStep ==
    ASSUME SpansInv, [Next]_vars
    PROVE  \/ \E s \in Id : FateMoves(s)
           \/ (\A s \in Id : Fate(s)' = Fate(s)) /\ TracedSpans' = TracedSpans
<1>1. Known \subseteq Id
    BY SpansAreKept, SpansAssumption DEF SpansInv, TypeOK, Known, Id
<1>2. CASE spans' = spans /\ closing' = closing
    BY <1>2 DEF Fate, NumSpans, TracedSpans
<1>3. QED
    BY <1>1, <1>2, SpansCases, OpeningMoves, FinishingMoves, HandingMoves DEF SpansStep

\* At first no span is open.
LEMMA LifecycleInit == Init => Lifecycle!Init
<1>1. Init => NumSpans = 0
    BY DEF Init, NumSpans
<1>2. Init => \A s \in Id : Fate(s) = "unopened"
    BY <1>1 DEF Fate, Id
<1>3. QED
    BY <1>1, <1>2 DEF Lifecycle!Init

\* It changes as the lifecycle allows.
LEMMA LifecycleStep ==
    ASSUME SpansInv, [Next]_vars
    PROVE  [Lifecycle!Next]_(Lifecycle!lifecycleVars)
<1>1. CASE (\A s \in Id : Fate(s)' = Fate(s)) /\ TracedSpans' = TracedSpans
    BY <1>1 DEF Lifecycle!lifecycleVars, TracedSpans
<1>2. ASSUME NEW s \in Id, FateMoves(s)
      PROVE  [Lifecycle!Next]_(Lifecycle!lifecycleVars)
  <2> DEFINE fate == [r \in Id |-> Fate(r)]
  <2>1. ASSUME NEW to, Fate(s)' = to
        PROVE  fate' = [fate EXCEPT ![s] = to]
      BY <1>2, <2>1 DEF FateMoves
  <2>2. CASE Fate(s)' = Fate(s) /\ TracedSpans' = TracedSpans
    <3>1. \A r \in Id : Fate(r)' = Fate(r)
        BY <1>2, <2>2 DEF FateMoves
    <3>2. QED
        BY <1>1, <2>2, <3>1
  <2>3. CASE Fate(s) = "unopened" /\ Fate(s)' = "open" /\ TracedSpans' = TracedSpans
      BY <2>1, <2>3 DEF Lifecycle!Next, Lifecycle!Open, Lifecycle!Become, TracedSpans
  <2>4. CASE Fate(s) = "open" /\ Fate(s)' = "sent" /\ TracedSpans' = TracedSpans
      BY <2>1, <2>4 DEF Lifecycle!Next, Lifecycle!Send, Lifecycle!Become, TracedSpans
  <2>5. CASE Fate(s) = "open" /\ Fate(s)' = "withheld" /\ TracedSpans' = TracedSpans
      BY <2>1, <2>5 DEF Lifecycle!Next, Lifecycle!Withhold, Lifecycle!Become, TracedSpans
  <2>6. CASE /\ Fate(s) = "open" /\ Fate(s)' = "open"
             /\ s \notin TracedSpans /\ TracedSpans' = TracedSpans \cup {s}
    <3>1. fate' = fate
        BY <1>2, <2>6 DEF FateMoves
    <3>2. QED
        BY <2>6, <3>1 DEF Lifecycle!Next, Lifecycle!SendTrace, TracedSpans
  <2>7. QED
      BY <1>2, <2>2, <2>3, <2>4, <2>5, <2>6 DEF FateMoves
<1>3. QED
    BY <1>1, <1>2, FateStep

\* Every span of the decorator goes through the lifecycle: it opens once, its
\* observation is sent or withheld once, and its own trace at most once before.
THEOREM SpansImplementLifecycle == Spec => ImplementsLifecycle
BY LifecycleInit, LifecycleStep, SpansInvariance, PTL
DEF Spec, ImplementsLifecycle, Lifecycle!Spec

=============================================================================
