-------------------------------- MODULE RunMap --------------------------------
(***************************************************************************)
(* integrations/langchain.py: the callback handler and its bounded map of  *)
(* open runs.                                                              *)
(*                                                                         *)
(* LangChain reports each run's start and end on whatever thread it likes: *)
(* a run starts after its parent has, and ends after it has started, and   *)
(* that is all the order there is.  A run has the span of the same name.   *)
(* The lock is held across one access to the map, so an access is a step.  *)
(* Names, user ids, token counts and captured values are left out.         *)
(***************************************************************************)
EXTENDS Integers, Sequences, FiniteSets, SequencesExt

CONSTANTS
    Threads,
    Runs,
    ParentRun,   \* parent_run_id of each run, None for the root of a tree
    MaxRuns,     \* max_runs, once clamped to at least 1
    Outer,       \* an @observe trace that some of the callbacks run in
    None

ASSUME RunMapAssumption ==
    /\ MaxRuns \in Nat \ {0}
    /\ IsFiniteSet(Runs)
    /\ ParentRun \in [Runs -> Runs \cup {None}]
    /\ Outer \notin Runs /\ None \notin Runs \cup {Outer}

VARIABLES
    enabled,       \* _settings.enabled
    ambient,       \* the trace that is current on each thread: Outer or None
    outerSampled,  \* whether the trace Outer is sampled
    pc,            \* the callback that each thread is in
    runs,          \* _runs: the open runs, oldest first
    dropped,       \* dropped_runs
    reported,      \* LangChain's view of each run
    spans          \* the span of each run

threadVars == <<enabled, ambient, outerSampled>>
vars == <<threadVars, pc, runs, dropped, reported, spans>>

\* A trace has the name of the run that created it.
Trace == Runs \cup {Outer}

\* "parent" is the observation a span nests under; Outer stands for the one
\* that is current where the trace Outer is.
SpanRecord == [open : BOOLEAN, trace : Trace \cup {None}, parent : Trace \cup {None},
               sampled : BOOLEAN, finished : BOOLEAN,
               sends : 0..1, traceSends : 0..1]

Unopened == [open |-> FALSE, trace |-> None, parent |-> None, sampled |-> FALSE,
             finished |-> FALSE, sends |-> 0, traceSends |-> 0]

Idle == [at |-> "idle", run |-> None, parent |-> None]

Steps == {"open", "put", "get", "pop", "finish", "trace", "observation"}

TypeOK ==
    /\ enabled \in BOOLEAN /\ outerSampled \in BOOLEAN
    /\ ambient \in [Threads -> {Outer, None}]
    /\ pc \in [Threads -> {Idle} \cup [at : Steps, run : Runs, parent : Runs \cup {None}]]
    /\ runs \in Seq(Runs) /\ Len(runs) <= MaxRuns
    /\ dropped \in 0..Cardinality(Runs)
    /\ reported \in [Runs -> {"new", "starting", "started", "ending", "ended"}]
    /\ spans \in [Runs -> SpanRecord]

Init ==
    /\ enabled = TRUE
    /\ ambient \in [Threads -> {Outer, None}]
    /\ outerSampled \in BOOLEAN
    /\ pc = [t \in Threads |-> Idle]
    /\ runs = <<>>
    /\ dropped = 0
    /\ reported = [r \in Runs |-> "new"]
    /\ spans = [r \in Runs |-> Unopened]

InMap(r) == r \in Range(runs)

Goto(t, step) == pc' = [pc EXCEPT ![t].at = step]

Done(t) == pc' = [pc EXCEPT ![t] = Idle]

-----------------------------------------------------------------------------
(* _open()                                                                 *)

\* _get(parent_run_id)
Parent(r) == IF ParentRun[r] # None /\ InMap(ParentRun[r]) THEN ParentRun[r] ELSE None

\* on_chain_start() and its like.
Start(t, r) ==
    /\ pc[t] = Idle
    /\ reported[r] = "new"
    /\ ParentRun[r] # None => reported[ParentRun[r]] \notin {"new", "starting"}
    /\ reported' = [reported EXCEPT ![r] = "starting"]
    /\ pc' = [pc EXCEPT ![t] = [at |-> "open", run |-> r, parent |-> Parent(r)]]
    /\ UNCHANGED <<threadVars, runs, dropped, spans>>

\* Variant: the parent's trace is not passed on.
OpenedInOwnTrace(t, r, keep) ==
    LET trace == IF ambient[t] # None THEN ambient[t] ELSE r
    IN  [Unopened EXCEPT
            !.open = TRUE,
            !.trace = trace,
            !.parent = IF pc[t].parent # None THEN pc[t].parent ELSE ambient[t],
            !.sampled = IF trace = r THEN keep ELSE outerSampled]

\* What open_span() makes of run r: under the parent that was found, in its
\* trace, or else where the calling thread is.
Opened(t, r, keep) ==
    LET p == pc[t].parent
        trace == IF p # None THEN spans[p].trace
                 ELSE IF ambient[t] # None THEN ambient[t] ELSE r
    IN  [Unopened EXCEPT
            !.open = TRUE,
            !.trace = trace,
            !.parent = IF p # None THEN p ELSE ambient[t],
            !.sampled = IF trace = r THEN keep
                        ELSE IF trace = Outer THEN outerSampled
                        ELSE spans[trace].sampled]

Open(t) ==
    LET r == pc[t].run
    IN  /\ pc[t].at = "open"
        /\ IF enabled
           THEN /\ \E keep \in BOOLEAN : spans' = [spans EXCEPT ![r] = Opened(t, r, keep)]
                /\ Goto(t, "put")
                /\ UNCHANGED reported
           ELSE /\ Done(t)
                /\ reported' = [reported EXCEPT ![r] = "started"]
                /\ UNCHANGED spans
        /\ UNCHANGED <<threadVars, runs, dropped>>

Excess(grown) == IF Len(grown) > MaxRuns THEN Len(grown) - MaxRuns ELSE 0

\* Variant: what falls out of the map is not counted.
EvictUncounted(grown) ==
    LET extra == Excess(grown)
    IN  /\ runs' = SubSeq(grown, extra + 1, Len(grown))
        /\ UNCHANGED dropped

\* popitem(last=False) until the map is within its bound.
Evict(grown) ==
    LET extra == Excess(grown)
    IN  /\ runs' = SubSeq(grown, extra + 1, Len(grown))
        /\ dropped' = dropped + extra

\* _put(), and the return of the callback.
Put(t) ==
    LET r == pc[t].run
    IN  /\ pc[t].at = "put"
        /\ Evict(Append(runs, r))
        /\ reported' = [reported EXCEPT ![r] = "started"]
        /\ Done(t)
        /\ UNCHANGED <<threadVars, spans>>

-----------------------------------------------------------------------------
(* The end of a run                                                        *)

\* on_chain_end() and its like go straight to _close(); on_llm_end() and
\* on_retriever_end() look the run up before that.
End(t, r, looks) ==
    /\ pc[t] = Idle
    /\ reported[r] = "started"
    /\ reported' = [reported EXCEPT ![r] = "ending"]
    /\ pc' = [pc EXCEPT ![t] = [at |-> IF looks THEN "get" ELSE "pop", run |-> r,
                                parent |-> None]]
    /\ UNCHANGED <<threadVars, runs, dropped, spans>>

Get(t) ==
    LET r == pc[t].run
    IN  /\ pc[t].at = "get"
        /\ IF InMap(r) THEN Goto(t, "pop") /\ UNCHANGED reported
           ELSE Done(t) /\ reported' = [reported EXCEPT ![r] = "ended"]
        /\ UNCHANGED <<threadVars, runs, dropped, spans>>

\* Variant: the run that _get() found is finished, whatever _pop() finds.
PoppedAnyway(r) == spans[r].open

Popped(r) == InMap(r)

\* _pop(): whoever gets the run finishes its span.
Pop(t) ==
    LET r == pc[t].run
    IN  /\ pc[t].at = "pop"
        /\ IF InMap(r) THEN \E i \in DOMAIN runs : runs[i] = r /\ runs' = RemoveAt(runs, i)
           ELSE UNCHANGED runs
        /\ IF Popped(r) THEN Goto(t, "finish") /\ UNCHANGED reported
           ELSE Done(t) /\ reported' = [reported EXCEPT ![r] = "ended"]
        /\ UNCHANGED <<threadVars, dropped, spans>>

OwnsTrace(r) == spans[r].trace = r

\* finish_span() up to its first emit().
Finish(t) ==
    LET r == pc[t].run
    IN  /\ pc[t].at = "finish"
        /\ spans' = [spans EXCEPT ![r].finished = TRUE]
        /\ IF ~spans[r].sampled
           THEN Done(t) /\ reported' = [reported EXCEPT ![r] = "ended"]
           ELSE /\ Goto(t, IF OwnsTrace(r) THEN "trace" ELSE "observation")
                /\ UNCHANGED reported
        /\ UNCHANGED <<threadVars, runs, dropped>>

EmitTrace(t) ==
    LET r == pc[t].run
    IN  /\ pc[t].at = "trace"
        /\ spans' = [spans EXCEPT ![r].traceSends = IF enabled THEN @ + 1 ELSE @]
        /\ Goto(t, "observation")
        /\ UNCHANGED <<threadVars, runs, dropped, reported>>

EmitObservation(t) ==
    LET r == pc[t].run
    IN  /\ pc[t].at = "observation"
        /\ spans' = [spans EXCEPT ![r].sends = IF enabled THEN @ + 1 ELSE @]
        /\ reported' = [reported EXCEPT ![r] = "ended"]
        /\ Done(t)
        /\ UNCHANGED <<threadVars, runs, dropped>>

\* configure(enabled=False). Bound: once, and never back.
Disable ==
    /\ enabled
    /\ enabled' = FALSE
    /\ UNCHANGED <<ambient, outerSampled, pc, runs, dropped, reported, spans>>

-----------------------------------------------------------------------------
Next ==
    \/ Disable
    \/ \E t \in Threads :
        \/ Open(t) \/ Put(t) \/ Get(t) \/ Pop(t)
        \/ Finish(t) \/ EmitTrace(t) \/ EmitObservation(t)
        \/ \E r \in Runs : Start(t, r) \/ \E looks \in BOOLEAN : End(t, r, looks)

Spec == Init /\ [][Next]_vars

-----------------------------------------------------------------------------
(* Properties                                                              *)

\* The open runs that a callback has taken out of the map, or not put there yet.
InHand ==
    {r \in Runs : \E t \in Threads :
        pc[t].run = r /\ pc[t].at \in {"put", "finish", "trace", "observation"}}

Lost == {r \in Runs : /\ spans[r].open /\ ~spans[r].finished
                      /\ r \notin Range(runs) \cup InHand}

\* An open run is in exactly one place: on the way into the map, in it, on the
\* way out, finished, or counted in dropped_runs (langchain.py:194-197).
EveryRunAccounted ==
    /\ TypeOK
    /\ \A i, j \in DOMAIN runs : runs[i] = runs[j] => i = j
    /\ \A r \in Runs :
        /\ InMap(r) => spans[r].open /\ ~spans[r].finished /\ r \notin InHand
        /\ r \in InHand => spans[r].open
    /\ dropped = Cardinality(Lost)

\* Whatever threads the callbacks come on, and whatever has ended or been
\* dropped in between, an observation is in the trace of the one that it nests
\* under, and shares its sampling verdict (langchain.py:145).
NestsInOneTrace ==
    \A r \in Runs : spans[r].open =>
        LET p == spans[r].parent
        IN  CASE p = None -> spans[r].trace = r
              [] p = Outer -> spans[r].trace = Outer /\ spans[r].sampled = outerSampled
              [] OTHER -> /\ p = ParentRun[r]
                          /\ spans[p].open
                          /\ spans[r].trace = spans[p].trace
                          /\ spans[r].sampled = spans[p].sampled

-----------------------------------------------------------------------------
(* The inductive invariant behind the two invariants above.                *)

\* LangChain reports each end of a run once, so no two threads are in a
\* callback for the same run.
OneCallback ==
    /\ \A t \in Threads : pc[t] # Idle =>
        reported[pc[t].run] = IF pc[t].at \in {"open", "put"} THEN "starting" ELSE "ending"
    /\ \A t, u \in Threads :
        pc[t] # Idle /\ pc[u] # Idle /\ pc[t].run = pc[u].run => t = u

\* How far a run's span has come follows from where its callbacks are.
SpansFollow ==
    /\ \A r \in Runs :
        /\ spans[r].open => reported[r] # "new"
        /\ InMap(r) => /\ spans[r].open /\ ~spans[r].finished
                       /\ reported[r] \in {"started", "ending"}
        /\ reported[r] \in {"new", "starting", "started"} =>
            ~spans[r].finished /\ spans[r].sends = 0 /\ spans[r].traceSends = 0
    /\ \A t \in Threads :
        LET s == spans[pc[t].run]
        IN  /\ pc[t].at = "open" => ~s.open
            /\ pc[t].at \in {"put", "finish", "trace", "observation"} => s.open
            /\ pc[t].at \in {"finish", "trace", "observation"} => ~InMap(pc[t].run)
            /\ pc[t].at \in {"get", "pop", "finish", "trace"} => s.sends = 0 /\ s.traceSends = 0
            /\ pc[t].at = "observation" => s.sends = 0
            /\ pc[t].at \in {"trace", "observation"} => s.finished

\* The parent that _open() found is open, if only until it ends: its span stays.
ParentFound ==
    \A t \in Threads : pc[t].at = "open" /\ pc[t].parent # None =>
        pc[t].parent = ParentRun[pc[t].run] /\ spans[pc[t].parent].open

\* A span has the sampling verdict of its trace.
VerdictsShared ==
    \A r \in Runs : spans[r].open =>
        LET trace == spans[r].trace
        IN  \/ trace = Outer /\ spans[r].sampled = outerSampled
            \/ trace \in Runs /\ spans[trace].open /\ spans[r].sampled = spans[trace].sampled

RunMapInv ==
    /\ OneCallback
    /\ SpansFollow
    /\ ParentFound
    /\ VerdictsShared
    /\ EveryRunAccounted
    /\ NestsInOneTrace

-----------------------------------------------------------------------------
AllOver == \A r \in Runs : reported[r] \in {"new", "ended"}

\* Once every run has ended, and if none was dropped, the server has the trace
\* and the parent of every observation that it has: the order in which threads
\* ended them does not matter, nor does a parent that ended before its children.
ReferencesResolve ==
    AllOver /\ enabled /\ dropped = 0 =>
        \A r \in Runs : spans[r].open =>
            /\ spans[r].sends = (IF spans[r].sampled THEN 1 ELSE 0)
            /\ OwnsTrace(r) => spans[r].traceSends = spans[r].sends
            /\ spans[r].sends = 1 /\ spans[r].parent \in Runs
                 => spans[spans[r].parent].sends = 1
            /\ spans[r].sends = 1 /\ spans[r].trace \in Runs
                 => spans[spans[r].trace].traceSends = 1

Fate(r) ==
    IF ~spans[r].open THEN "unopened"
    ELSE IF spans[r].sends = 1 THEN "sent"
    ELSE IF r \in Range(runs) \cup InHand THEN "open" ELSE "withheld"

Lifecycle == INSTANCE SpanLifecycle WITH
    Span <- Runs,
    fate <- [r \in Runs |-> Fate(r)],
    traced <- {r \in Runs : spans[r].traceSends > 0}

\* A run's span lives and ends as every span does; a dropped one is withheld.
ImplementsLifecycle == Lifecycle!Spec

=============================================================================
