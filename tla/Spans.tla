-------------------------------- MODULE Spans --------------------------------
(***************************************************************************)
(* llm_metrics/decorator.py, context.py and annotate.py: the spans that    *)
(* @observe opens around calls and generators, and the context variables   *)
(* they nest by.                                                           *)
(*                                                                         *)
(* A task is an asyncio task or a thread: each has a context of its own.   *)
(* Between two steps of a task any other may run, so a coroutine may be    *)
(* suspended in the middle of its call.  An uninstrumented call (the SDK   *)
(* is disabled) touches none of this state and is not a step.  Captured    *)
(* values and timings are left out.                                        *)
(***************************************************************************)
EXTENDS Integers, Sequences, SequencesExt

CONSTANTS
    Tasks,     \* asyncio tasks and threads; one of them is running at first
    Gens,      \* generators and async generators of observed functions
    MaxSpans,  \* bound: spans opened
    MaxDepth,  \* bound: calls within calls
    None       \* no span, no trace

ASSUME SpansAssumption ==
    /\ MaxSpans \in Nat \ {0}
    /\ MaxDepth \in Nat
    /\ None \notin Int

\* Spans are numbered in the order in which they are opened, and a trace has
\* the number of the span that created it.
Id == 1..MaxSpans

VARIABLES
    enabled,   \* _settings.enabled
    context,   \* the context variables of each task
    stack,     \* the scopes each task is in, innermost last
    spans,     \* the spans opened so far
    gens,      \* the generators
    closing,   \* the events finish_span() has yet to emit, per task
    snap,      \* a ContextSnapshot that any task may adopt
    base,      \* history: the context each task began with
    begun,     \* tasks that have begun
    wandered   \* history: a generator was resumed away from its trace

taskVars == <<context, stack, base, begun>>

vars == <<enabled, taskVars, spans, gens, closing, snap, wandered>>

Context == [trace : Id \cup {None}, parent : Id \cup {None},
            observation : Id \cup {None}]

Empty == [trace |-> None, parent |-> None, observation |-> None]

\* What one "with" block of the code puts on the stack.  "saved" stands for
\* the tokens the context variables are reset with.
Frame == [kind : {"call", "generator", "adopt"}, span : Id \cup {None},
          gen : Gens \cup {None}, trace : Id \cup {None}, saved : Context]

SpanRecord == [trace : Id, parent : Id \cup {None}, sampled : BOOLEAN,
               ended : BOOLEAN,
               sends : 0..1, traceSends : 0..1]

Generator == [state : {"fresh", "running", "suspended", "bare", "done"},
              span : Id \cup {None}]

\* An event is a trace or an observation, by the number of its span.
Event == {"trace", "observation"} \X Id

NumSpans == Len(spans)

Owns(s) == spans[s].trace = s

TypeOK ==
    /\ enabled \in BOOLEAN
    /\ context \in [Tasks -> Context]
    /\ base \in [Tasks -> Context]
    /\ begun \subseteq Tasks
    /\ stack \in [Tasks -> Seq(Frame)]
    /\ \A t \in Tasks : Len(stack[t]) <= MaxDepth
    /\ spans \in Seq(SpanRecord) /\ NumSpans <= MaxSpans
    /\ \A s \in 1..NumSpans :
        /\ spans[s].trace <= s
        /\ spans[s].parent # None => spans[s].parent < s
    /\ gens \in [Gens -> Generator]
    /\ closing \in [Tasks -> Seq(Event)]
    /\ snap \in Context
    /\ wandered \in BOOLEAN

Init ==
    /\ enabled = TRUE
    /\ context = [t \in Tasks |-> Empty]
    /\ base = [t \in Tasks |-> Empty]
    /\ \E t \in Tasks : begun = {t}
    /\ stack = [t \in Tasks |-> <<>>]
    /\ spans = <<>>
    /\ gens = [g \in Gens |-> [state |-> "fresh", span |-> None]]
    /\ closing = [t \in Tasks |-> <<>>]
    /\ snap = Empty
    /\ wandered = FALSE

\* finish_span() runs to its end before its task does anything else.
Free(t) == t \in begun /\ closing[t] = <<>>

-----------------------------------------------------------------------------
(* Scopes                                                                  *)

UseTrace(c, s) == [trace |-> s, parent |-> None, observation |-> None]

UseObservation(c, s) == [c EXCEPT !.parent = s, !.observation = s]

\* Variant: the trace a root span created is not made current.
ActivateWithoutTrace(c, s, owns) == UseObservation(c, s)

\* "owns": the span created the trace.
Activate(c, s, owns) == UseObservation(IF owns THEN UseTrace(c, s) ELSE c, s)

Enter(t, frame, inside) ==
    /\ Len(stack[t]) < MaxDepth
    /\ stack' = [stack EXCEPT ![t] = Append(@, frame)]
    /\ context' = [context EXCEPT ![t] = inside]
    /\ UNCHANGED <<base, begun>>

\* Variant: the tokens are not used.
LeftOpen(t) == context[t]

Restored(t) == Last(stack[t]).saved

Exit(t) ==
    /\ stack' = [stack EXCEPT ![t] = Front(@)]
    /\ context' = [context EXCEPT ![t] = Restored(t)]
    /\ UNCHANGED <<base, begun>>

\* The span whose body task t is running, by the calls alone.
Innermost(t) == IF stack[t] = <<>> THEN base[t].parent ELSE Last(stack[t]).span

-----------------------------------------------------------------------------
(* Opening and finishing a span                                            *)

\* Variant: every span is sampled for itself.
OpenedSampledAlone(t, keep) ==
    LET root == context[t].trace = None
        trace == IF root THEN NumSpans + 1 ELSE context[t].trace
    IN  [trace |-> trace, parent |-> context[t].parent, sampled |-> keep,
         ended |-> FALSE, sends |-> 0, traceSends |-> 0]

\* The span open_span() makes in task t; "keep" is the sampler's verdict.
Opened(t, keep) ==
    LET root == context[t].trace = None
        trace == IF root THEN NumSpans + 1 ELSE context[t].trace
    IN  [trace |-> trace, parent |-> context[t].parent,
         sampled |-> IF root THEN keep ELSE spans[trace].sampled,
         ended |-> FALSE, sends |-> 0, traceSends |-> 0]

OpenSpan(t, keep) ==
    /\ enabled
    /\ NumSpans < MaxSpans
    /\ spans' = Append(spans, Opened(t, keep))

\* The sampler decides only where a trace is created.
Verdicts(t) == IF context[t].trace = None THEN BOOLEAN ELSE {TRUE}

\* Trace first: "the buffer preserves order".
Events(s) ==
    IF ~spans[s].sampled THEN <<>>
    ELSE IF Owns(s) THEN <<<<"trace", s>>, <<"observation", s>>>>
    ELSE <<<<"observation", s>>>>

FinishSpan(t, s) ==
    /\ spans' = [spans EXCEPT ![s].ended = TRUE]
    /\ closing' = [closing EXCEPT ![t] = Events(s)]

\* _runtime.emit(), which looks at enabled once more.
Emit(t) ==
    /\ closing[t] # <<>>
    /\ LET kind == Head(closing[t])[1]
           s == Head(closing[t])[2]
       IN  spans' = IF ~enabled THEN spans
                    ELSE IF kind = "trace" THEN [spans EXCEPT ![s].traceSends = @ + 1]
                    ELSE [spans EXCEPT ![s].sends = @ + 1]
    /\ closing' = [closing EXCEPT ![t] = Tail(@)]
    /\ UNCHANGED <<enabled, taskVars, gens, snap, wandered>>

-----------------------------------------------------------------------------
(* The wrappers                                                            *)

\* _wrap_sync and _wrap_async up to the call of the function.
Call(t) ==
    /\ Free(t)
    /\ \E keep \in Verdicts(t) : OpenSpan(t, keep)
    /\ LET s == NumSpans + 1
       IN  Enter(t, [kind |-> "call", span |-> s, gen |-> None, trace |-> None,
                     saved |-> context[t]],
                 Activate(context[t], s, context[t].trace = None))
    /\ UNCHANGED <<enabled, gens, closing, snap, wandered>>

\* The function returns, raises or is cancelled.
Return(t) ==
    /\ Free(t)
    /\ stack[t] # <<>>
    /\ Last(stack[t]).kind = "call"
    /\ Exit(t)
    /\ FinishSpan(t, Last(stack[t]).span)
    /\ UNCHANGED <<enabled, gens, snap, wandered>>

GeneratorFrame(t, g, s) ==
    [kind |-> "generator", span |-> s, gen |-> g, trace |-> None,
     saved |-> context[t]]

\* The first next(): only now does the wrapper's own body run.
StartGenerator(t, g) ==
    /\ Free(t)
    /\ gens[g].state = "fresh"
    /\ \E keep \in Verdicts(t) : OpenSpan(t, keep)
    /\ LET s == NumSpans + 1
       IN  /\ gens' = [gens EXCEPT ![g] = [state |-> "running", span |-> s]]
           /\ Enter(t, GeneratorFrame(t, g, s),
                    Activate(context[t], s, context[t].trace = None))
    /\ UNCHANGED <<enabled, closing, snap, wandered>>

\* Started while the SDK is disabled, a generator stays uninstrumented.
StartBare(t, g) ==
    /\ Free(t)
    /\ gens[g].state = "fresh"
    /\ ~enabled
    /\ gens' = [gens EXCEPT ![g].state = "bare"]
    /\ UNCHANGED <<enabled, taskVars, spans, closing, snap, wandered>>

\* Any later next(), by whoever holds the generator.
Resume(t, g) ==
    /\ Free(t)
    /\ gens[g].state = "suspended"
    /\ gens' = [gens EXCEPT ![g].state = "running"]
    /\ LET s == gens[g].span
       IN  /\ Enter(t, GeneratorFrame(t, g, s), Activate(context[t], s, Owns(s)))
           /\ wandered' = (wandered \/ (~Owns(s) /\ context[t].trace # spans[s].trace))
    /\ UNCHANGED <<enabled, spans, closing, snap>>

InGenerator(t) ==
    Free(t) /\ stack[t] # <<>> /\ Last(stack[t]).kind = "generator"

\* The body yields: its scope is closed before the consumer sees the chunk.
Yield(t) ==
    /\ InGenerator(t)
    /\ Exit(t)
    /\ gens' = [gens EXCEPT ![Last(stack[t]).gen].state = "suspended"]
    /\ UNCHANGED <<enabled, spans, closing, snap, wandered>>

\* Variant: an exhausted generator can be closed once more.
AfterBodyResumable == "suspended"

AfterBody == "done"

\* The body is exhausted, or raises.
EndGenerator(t) ==
    /\ InGenerator(t)
    /\ Exit(t)
    /\ gens' = [gens EXCEPT ![Last(stack[t]).gen].state = AfterBody]
    /\ FinishSpan(t, Last(stack[t]).span)
    /\ UNCHANGED <<enabled, snap, wandered>>

\* close(), or the last reference goes (GeneratorExit, an ordinary end), or
\* throw(): the wrapper ends where it yielded, outside the span's scope.
CloseGenerator(t, g) ==
    /\ Free(t)
    /\ gens[g].state = "suspended"
    /\ gens' = [gens EXCEPT ![g].state = "done"]
    /\ FinishSpan(t, gens[g].span)
    /\ UNCHANGED <<enabled, taskVars, snap, wandered>>

-----------------------------------------------------------------------------
(* Crossing tasks                                                          *)

\* An asyncio task copies the context; a thread starts with an empty one.
Spawn(t, u, copies) ==
    /\ Free(t)
    /\ u \notin begun
    /\ begun' = begun \cup {u}
    /\ context' = [context EXCEPT ![u] = IF copies THEN context[t] ELSE Empty]
    /\ base' = [base EXCEPT ![u] =
                   IF copies THEN [context[t] EXCEPT !.parent = Innermost(t),
                                                     !.observation = Innermost(t)]
                   ELSE Empty]
    /\ UNCHANGED <<enabled, stack, spans, gens, closing, snap, wandered>>

\* Bound: once in a run.
Snapshot(t) ==
    /\ Free(t)
    /\ snap = Empty
    /\ snap' = context[t]
    /\ UNCHANGED <<enabled, taskVars, spans, gens, closing, wandered>>

\* A worker adopts what it was handed before it does anything else; with an
\* empty snapshot any call may detach from its own trace.
Adopt(t) ==
    /\ Free(t)
    /\ \/ stack[t] = <<>> /\ snap # Empty
       \/ stack[t] # <<>> /\ snap = Empty
    /\ Enter(t, [kind |-> "adopt", span |-> snap.parent, gen |-> None,
                 trace |-> snap.trace, saved |-> context[t]], snap)
    /\ UNCHANGED <<enabled, spans, gens, closing, snap, wandered>>

EndAdopt(t) ==
    /\ Free(t)
    /\ stack[t] # <<>>
    /\ Last(stack[t]).kind = "adopt"
    /\ Exit(t)
    /\ UNCHANGED <<enabled, spans, gens, closing, snap, wandered>>

-----------------------------------------------------------------------------
(* Annotations, and configure(enabled=...)                                 *)

\* What update_trace() and update_observation() change when task t calls them;
\* None: they return False.
UpdateTrace(t) == context[t].trace
UpdateObservation(t) == context[t].observation

\* Variant: a score is sent for a trace that was sampled out.
ScorableAnyway(trace) == trace # None

Scorable(trace) == trace # None /\ spans[trace].sampled

\* What score() attaches to when task t gives it no ids.
Score(t) ==
    IF enabled /\ Scorable(context[t].trace)
    THEN [trace |-> context[t].trace, observation |-> context[t].observation]
    ELSE None

\* Bound: once in a run.
Configure ==
    /\ enabled
    /\ enabled' = FALSE
    /\ UNCHANGED <<taskVars, spans, gens, closing, snap, wandered>>

-----------------------------------------------------------------------------
Next ==
    \/ \E t \in Tasks :
        \/ Call(t) \/ Emit(t) \/ Yield(t) \/ Snapshot(t) \/ Adopt(t)
        \/ EndAdopt(t) \/ Return(t) \/ EndGenerator(t)
        \/ \E g \in Gens :
            \/ StartGenerator(t, g) \/ StartBare(t, g) \/ Resume(t, g)
            \/ CloseGenerator(t, g)
        \/ \E u \in Tasks, copies \in BOOLEAN : Spawn(t, u, copies)
    \/ Configure

Spec == Init /\ [][Next]_vars

-----------------------------------------------------------------------------
(* Properties                                                              *)

\* The trace that the scopes of task t, read from the outside in, make current.
ScopedTrace(t) ==
    LET sets == {i \in DOMAIN stack[t] :
                    stack[t][i].kind = "adopt" \/ Owns(stack[t][i].span)}
    IN  IF sets = {} THEN base[t].trace
        ELSE LET f == stack[t][CHOOSE i \in sets : \A j \in sets : j <= i]
             IN  IF f.kind = "adopt" THEN f.trace ELSE f.span

\* A task's context variables are what the calls it is inside of make them,
\* however generators, tasks and adopted snapshots interleave: no scope is left
\* open and none is closed that another call is still in (decorator.py:119).
AmbientFollowsCalls ==
    /\ TypeOK
    /\ \A t \in Tasks :
        /\ context[t].parent = Innermost(t)
        /\ context[t].observation = Innermost(t)
        /\ context[t].trace = ScopedTrace(t)

\* An observation belongs to the trace of the observation it nests under, and
\* the root of a trace nests under nothing.
NestsInOneTrace ==
    \A s \in 1..NumSpans :
        IF Owns(s) THEN spans[s].parent = None
        ELSE spans[s].parent # None
             /\ spans[spans[s].parent].trace = spans[s].trace

\* That holds as long as each generator is consumed in the trace that it was
\* started in: the scope of a resumption brings back the observation but not
\* the trace, unless the generator's span created it (decorator.py:128).
NestsUnlessWandering == ~wandered => NestsInOneTrace

Quiet ==
    /\ \A t \in Tasks : stack[t] = <<>> /\ closing[t] = <<>>
    /\ \A g \in Gens : gens[g].state \notin {"running", "suspended"}

\* "A kept trace is whole and a dropped one is silent" (decorator.py:273).
\* Silent without exception: nothing of a trace that was sampled out is ever
\* sent, and a trace only by the span that created it.  Whole once every call
\* has ended, and only if the SDK was not disabled meanwhile: emit() looks at
\* enabled again (_runtime.py:258), so a kept trace that is disabled halfway loses
\* its second half, the trace and the root among it.
KeptTracesAreWhole ==
    \A s \in 1..NumSpans :
        LET kept == spans[spans[s].trace].sampled
        IN  /\ ~kept => spans[s].sends = 0 /\ spans[s].traceSends = 0
            /\ ~Owns(s) => spans[s].traceSends = 0
            /\ Quiet /\ enabled /\ kept =>
                /\ spans[s].sends = 1
                /\ Owns(s) => spans[s].traceSends = 1

\* An annotation or a score lands on the call that makes it: on the innermost
\* observation, which its own call has not sent yet, and in that one's trace;
\* nothing is scored in a trace that was sampled out (annotate.py:148).
AnnotationsHitTheCaller ==
    \A t \in Tasks :
        /\ UpdateObservation(t) = Innermost(t)
        /\ stack[t] # <<>> /\ Last(stack[t]).kind # "adopt" =>
            /\ ~spans[UpdateObservation(t)].ended
            /\ ~wandered => UpdateTrace(t) = spans[Innermost(t)].trace
        /\ Score(t) # None =>
            /\ spans[Score(t).trace].sampled
            /\ ~wandered /\ Score(t).observation # None =>
                spans[Score(t).observation].trace = Score(t).trace

Fate(s) ==
    IF s > NumSpans THEN "unopened"
    ELSE IF spans[s].sends = 1 THEN "sent"
    ELSE IF \/ ~spans[s].ended
            \/ \E t \in Tasks : <<"observation", s>> \in Range(closing[t])
         THEN "open" ELSE "withheld"

Lifecycle == INSTANCE SpanLifecycle WITH
    Span <- Id,
    fate <- [s \in Id |-> Fate(s)],
    traced <- {s \in 1..NumSpans : spans[s].traceSends > 0}

\* The decorator's spans live and end as every span does.
ImplementsLifecycle == Lifecycle!Spec

=============================================================================
