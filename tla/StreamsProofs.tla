---------------------------- MODULE StreamsProofs ----------------------------
(***************************************************************************)
(* Theorems about Streams, for any tasks, calls, clients and replies, and  *)
(* any number of HTTP attempts of a call.                                  *)
(*                                                                         *)
(* The first three do not depend on what Replies makes of a reply.  The    *)
(* last one is about just that: what was gathered after n chunks has a     *)
(* closed form, each chunk takes it from n to n + 1, and so the induction  *)
(* over the chunks is the one over the steps that read them.               *)
(***************************************************************************)
EXTENDS Streams, FiniteSetTheorems, TLAPS

-----------------------------------------------------------------------------
(* The inductive invariant.                                                *)

\* The records keep their fields.
Shapes ==
    /\ DOMAIN calls = CallIds /\ DOMAIN observation = CallIds
    /\ DOMAIN ended = CallIds
    /\ DOMAIN attempts = CallIds /\ DOMAIN responses = CallIds
    /\ pc \in [Tasks -> {Idle} \cup [at : {"request", "read"}, call : CallIds]]
    /\ \A c \in CallIds : /\ DOMAIN calls[c] = DOMAIN Unused
                          /\ DOMAIN observation[c] = DOMAIN Blank

\* Whoever has a span has a hook of ours under it, and only one, if the HTTP client
\* takes any.
HooksAreInstalled ==
    IF hookable
    THEN /\ wrapped # {} => hooks = 1
         /\ \A c \in CallIds : calls[c].span => hooks = 1
    ELSE hooks = 0

\* Whether a span has ended can be told from the call: not while its reply is
\* awaited, and afterwards only if the stream is finished or the call is over.
SettledOnce ==
    \A c \in CallIds :
        LET call == calls[c]
        IN  /\ call.phase \in {"unused", "raised", "made", "asked"}
                => ended[c] = 0 /\ ~call.finished
            /\ ended[c] > 0 => call.span /\ (call.finished \/ call.phase = "over")
            /\ call.phase = "open" => call.span /\ call.kind \in {"stream", "manager"}
            /\ call.phase = "open" /\ call.kind = "manager" => ~call.finished

\* The caller has seen the end of a stream that is finished, and of a call that is
\* over, and of no other.
EndIsSeen ==
    \A c \in CallIds :
        c \in over <=>
            IF calls[c].phase = "open" THEN calls[c].finished
            ELSE calls[c].phase \in {"raised", "over"}

\* A call that was not made has no span, and one that sent no request no responses.
CallsBegin ==
    \A c \in CallIds :
        /\ IF calls[c].phase = "unused" THEN ~calls[c].span
           ELSE calls[c].kind \in Kinds
        /\ calls[c].phase \in {"unused", "made"} => responses[c] = 0

\* The contextvar of a task is the call whose request it awaits, if it has a
\* span; and a proxy is read only while it is open.
TasksKnowTheirCall ==
    \A t \in Tasks :
        LET call == calls[pc[t].call]
        IN  /\ active[t] = IF pc[t].at = "request" /\ call.span THEN pc[t].call ELSE None
            /\ pc[t].at = "request" => call.phase = "asked"
            /\ pc[t].at = "read" => /\ call.phase \in {"open", "over"}
                                    /\ call.kind = "stream" => call.phase = "open"

\* A call's request is awaited by one task.
OneTaskAsks ==
    \A t, u \in Tasks : pc[t].at = "request" /\ pc[u] = pc[t] => u = t

StreamsInv ==
    /\ AttemptsFollowTheirCall /\ Shapes /\ HooksAreInstalled /\ SettledOnce
    /\ EndIsSeen /\ SpansCloseOnce /\ CallsBegin /\ TasksKnowTheirCall /\ OneTaskAsks

-----------------------------------------------------------------------------
(* The steps.  A chunk, the end of a stream and a close() leave most of a  *)
(* call as it is, and are one case.                                        *)

\* What a step of a reader, or a close(), leaves of the calls: at most one more
\* stream is settled, and that one was open.
ReadingStep(t) ==
    /\ UNCHANGED <<enabled, wrapped, hookable, hooks, active, answered, attempts, responses>>
    /\ \/ pc' = pc
       \/ pc[t].at = "read" /\ pc' = [pc EXCEPT ![t] = Idle]
    /\ DOMAIN calls' = CallIds /\ DOMAIN observation' = CallIds /\ DOMAIN ended' = CallIds
    /\ over' \subseteq CallIds
    /\ \A c \in CallIds :
        /\ DOMAIN calls'[c] = DOMAIN Unused
        /\ calls'[c].kind = calls[c].kind /\ calls'[c].phase = calls[c].phase
        /\ calls'[c].span = calls[c].span /\ calls'[c].reply = calls[c].reply
        /\ calls'[c].read \in Nat
        /\ DOMAIN observation'[c] = DOMAIN Blank
        /\ observation'[c].attempts = observation[c].attempts
        /\ observation'[c].status \in {"ok", "error"}
        /\ observation'[c].completed \in BOOLEAN \cup {None}
        /\ \/ /\ calls'[c].finished = calls[c].finished
              /\ observation'[c] = observation[c]
              /\ ended'[c] = ended[c] /\ (c \in over' <=> c \in over)
           \/ /\ calls[c].phase = "open" /\ calls[c].kind = "stream"
              /\ ~calls[c].finished /\ calls'[c].finished
              /\ ended'[c] = ended[c] + 1 /\ c \in over'

\* A chunk changes only what its call has read and seen.
LEMMA ChunkArrives ==
    ASSUME StreamsInv, NEW t \in Tasks, Arrives(t)
    PROVE  ReadingStep(t)
<1> DEFINE c == pc[t].call
           reply == calls[c].reply
           read == calls[c].read + 1
           state == Observe(reply, calls[c].state, Chunks(reply)[read])
<1> USE DEF StreamsInv, Shapes, AttemptsFollowTheirCall, TypeOK
<1>1. c \in CallIds /\ read \in Nat /\ calls[c].read \in Nat
    BY DEF Arrives, Idle
<1>2. /\ \/ calls' = calls
         \/ calls' = [calls EXCEPT ![c].read = read, ![c].state = state]
      /\ pc[t].at = "read" /\ pc' = [pc EXCEPT ![t] = Idle]
      /\ UNCHANGED <<enabled, wrapped, hookable, hooks, active,
                     answered, attempts, responses, observation, ended, over>>
    BY DEF Arrives, clientVars, recordVars, httpVars
<1> HIDE DEF c, read, state
<1>3. QED
    BY <1>1, <1>2 DEF ReadingStep, Unused, Blank

\* What is recorded at the end of a stream keeps the count of attempts.
LEMMA RecordsKeepAttempts ==
    ASSUME StreamsInv, NEW c \in CallIds, NEW completed \in BOOLEAN,
           NEW record \in {Failed(c), Gathered(c, completed)}
    PROVE  /\ DOMAIN record = DOMAIN Blank
           /\ record.attempts = observation[c].attempts
           /\ record.status \in {"ok", "error"}
           /\ record.completed \in BOOLEAN \cup {None}
<1> USE DEF StreamsInv, Shapes, AttemptsFollowTheirCall, TypeOK, Blank
<1>1. CASE record = Failed(c)
    BY <1>1 DEF Failed
<1>2. CASE record = Gathered(c, completed)
    <2> DEFINE facts == Apply(calls[c].reply, calls[c].state)
    <2>1. record = [[observation[c] EXCEPT !.facts = facts] EXCEPT
                        !.completed = completed, !.chunks = calls[c].read]
        BY <1>2 DEF Gathered, Complete
    <2> HIDE DEF facts
    <2>2. QED
        BY <2>1
<1>3. QED
    BY <1>1, <1>2

\* A reader that settles nothing leaves every call as it is.
LEMMA NothingSettled ==
    ASSUME StreamsInv, NEW t \in Tasks, NEW d \in CallIds,
           UNCHANGED <<enabled, wrapped, hookable, hooks, active,
                       answered, attempts, responses, calls, observation, ended, over>>,
           \/ pc' = pc
           \/ pc[t].at = "read" /\ pc' = [pc EXCEPT ![t] = Idle]
    PROVE  ReadingStep(t)
<1>1. /\ DOMAIN calls = CallIds /\ DOMAIN observation = CallIds /\ DOMAIN ended = CallIds
      /\ over \subseteq CallIds
    BY DEF StreamsInv, Shapes, AttemptsFollowTheirCall, TypeOK
<1>2. ASSUME NEW c \in CallIds
      PROVE  /\ DOMAIN calls[c] = DOMAIN Unused /\ calls[c].read \in Nat
             /\ DOMAIN observation[c] = DOMAIN Blank
             /\ observation[c].status \in {"ok", "error"}
             /\ observation[c].completed \in BOOLEAN \cup {None}
    BY DEF StreamsInv, Shapes, AttemptsFollowTheirCall, TypeOK
<1>3. QED
    BY <1>1, <1>2 DEF ReadingStep

\* _settle() of a proxy settles an open stream once, and a finished one not again.
LEMMA Settling ==
    ASSUME StreamsInv, NEW t \in Tasks, NEW c \in CallIds, NEW completed \in BOOLEAN,
           NEW record \in {Failed(c), Gathered(c, completed)},
           calls[c].phase = "open", IsProxy(c), Settle(c, record), over' = over \cup {c},
           UNCHANGED <<enabled, wrapped, hookable, hooks, active, answered, attempts, responses>>,
           \/ pc' = pc
           \/ pc[t].at = "read" /\ pc' = [pc EXCEPT ![t] = Idle]
    PROVE  ReadingStep(t)
<1>1. /\ DOMAIN record = DOMAIN Blank
      /\ record.attempts = observation[c].attempts
      /\ record.status \in {"ok", "error"}
      /\ record.completed \in BOOLEAN \cup {None}
    BY RecordsKeepAttempts
<1> USE DEF StreamsInv, Shapes, AttemptsFollowTheirCall, TypeOK
<1>2. CASE calls[c].finished
    <2>1. calls' = [calls EXCEPT ![c].finished = TRUE] /\ UNCHANGED <<observation, ended>>
        BY <1>2 DEF Settle, recordVars
    <2>6. over' = over
        BY <1>2 DEF EndIsSeen
    <2>2. ASSUME NEW d \in CallIds
          PROVE  /\ DOMAIN calls'[d] = DOMAIN Unused
                 /\ calls'[d].kind = calls[d].kind /\ calls'[d].phase = calls[d].phase
                 /\ calls'[d].span = calls[d].span /\ calls'[d].reply = calls[d].reply
                 /\ calls'[d].read \in Nat
                 /\ calls'[d].finished = calls[d].finished
        <3>1. /\ DOMAIN calls = CallIds /\ DOMAIN calls[d] = DOMAIN Unused
              /\ calls[d].read \in Nat /\ calls[c].finished = TRUE
            BY <1>2
        <3> HIDE DEF StreamsInv, Shapes, AttemptsFollowTheirCall, TypeOK
        <3>2. QED
            BY <2>1, <3>1 DEF Unused
    <2>3. ASSUME NEW d \in CallIds
          PROVE  /\ DOMAIN observation[d] = DOMAIN Blank
                 /\ observation[d].status \in {"ok", "error"}
                 /\ observation[d].completed \in BOOLEAN \cup {None}
        OBVIOUS
    <2>4. DOMAIN calls' = CallIds /\ DOMAIN observation = CallIds /\ DOMAIN ended = CallIds
        BY <2>1
    <2> HIDE DEF StreamsInv, Shapes, AttemptsFollowTheirCall, TypeOK
    <2>5. QED
        BY <2>1, <2>2, <2>3, <2>4, <2>6 DEF ReadingStep, StreamsInv, AttemptsFollowTheirCall, TypeOK
<1>3. CASE ~calls[c].finished
    <2>1. /\ calls' = [calls EXCEPT ![c].finished = TRUE]
          /\ observation' = [observation EXCEPT ![c] = record]
          /\ ended' = [ended EXCEPT ![c] = @ + 1] /\ over' = over \cup {c}
        BY <1>3 DEF Settle, Finish
    <2>2. ASSUME NEW d \in CallIds
          PROVE  /\ DOMAIN calls'[d] = DOMAIN Unused
                 /\ calls'[d].kind = calls[d].kind /\ calls'[d].phase = calls[d].phase
                 /\ calls'[d].span = calls[d].span /\ calls'[d].reply = calls[d].reply
                 /\ calls'[d].read \in Nat
                 /\ d = c => calls'[d].finished
                 /\ d # c => calls'[d].finished = calls[d].finished
        <3>1. DOMAIN calls = CallIds /\ DOMAIN calls[d] = DOMAIN Unused /\ calls[d].read \in Nat
            OBVIOUS
        <3> HIDE DEF StreamsInv, Shapes, AttemptsFollowTheirCall, TypeOK
        <3>2. QED
            BY <2>1, <3>1 DEF Unused
    <2>3. ASSUME NEW d \in CallIds
          PROVE  /\ d = c => observation'[d] = record /\ ended'[d] = ended[d] + 1
                 /\ d # c => observation'[d] = observation[d] /\ ended'[d] = ended[d]
        BY <2>1
    <2>4. DOMAIN calls' = CallIds /\ DOMAIN observation' = CallIds /\ DOMAIN ended' = CallIds
        BY <2>1
    <2>5. /\ over' \subseteq CallIds /\ c \in over'
          /\ \A d \in CallIds \ {c} : d \in over' <=> d \in over
        BY <2>1
    <2>6. QED
        BY <1>1, <1>3, <2>2, <2>3, <2>4, <2>5 DEF ReadingStep, IsProxy, Blank
<1>4. QED
    BY <1>2, <1>3

\* Every step of a reader, and a close(), is such a step.
LEMMA Reading ==
    ASSUME StreamsInv, NEW t \in Tasks,
           \/ Arrives(t) \/ Ends(t) \/ ReadFails(t)
           \/ \E c \in CallIds : Close(t, c)
    PROVE  ReadingStep(t)
<1>1. pc[t].at = "read" => /\ pc[t].call \in CallIds
                           /\ IsProxy(pc[t].call) => calls[pc[t].call].phase = "open"
    BY DEF StreamsInv, Shapes, TasksKnowTheirCall, IsProxy, Idle
<1>2. ASSUME UNCHANGED <<enabled, wrapped, hookable, hooks, active,
                         answered, attempts, responses, calls, observation, ended, over>>,
             pc[t].at = "read", pc' = [pc EXCEPT ![t] = Idle]
      PROVE  ReadingStep(t)
    BY <1>1, <1>2, NothingSettled
<1>3. CASE Ends(t)
    <2>1. CASE IsProxy(pc[t].call)
        BY <1>1, <1>3, <2>1, Settling DEF Ends, Leave, clientVars, recordVars, httpVars
    <2>2. CASE ~IsProxy(pc[t].call)
        BY <1>2, <1>3, <2>2 DEF Ends, Leave, clientVars, recordVars, httpVars
    <2>3. QED
        BY <2>1, <2>2
<1>4. CASE ReadFails(t)
    <2>1. CASE IsProxy(pc[t].call)
        BY <1>1, <1>4, <2>1, Settling DEF ReadFails, Leave, clientVars, recordVars, httpVars
    <2>2. CASE ~IsProxy(pc[t].call)
        BY <1>2, <1>4, <2>2 DEF ReadFails, Leave, clientVars, recordVars, httpVars
    <2>3. QED
        BY <2>1, <2>2
<1>5. CASE \E c \in CallIds : Close(t, c)
    BY <1>5, Settling DEF Close, Leave, clientVars, recordVars, httpVars
<1>6. QED
    BY <1>3, <1>4, <1>5, ChunkArrives

\* The steps, those of the readers taken together.
LEMMA StreamsCases ==
    ASSUME StreamsInv, [Next]_vars
    PROVE  \/ Disable
           \/ \E k \in Clients : Wrap(k)
           \/ \E t \in Tasks :
                \/ \E responds \in BOOLEAN : Attempt(t, responds)
                \/ Responds(t) \/ RequestFails(t)
                \/ ReadingStep(t)
           \/ \E t \in Tasks, c \in CallIds :
                EnterManager(t, c) \/ Pull(t, c)
           \/ \E t \in Tasks, c \in CallIds, raises \in BOOLEAN : ExitManager(t, c, raises)
           \/ \E t \in Tasks, c \in CallIds, kind \in {"create", "stream"},
                 k \in Clients, reply \in Answers : Create(t, c, kind, k, reply)
           \/ \E t \in Tasks, c \in CallIds, k \in Clients, reply \in Answers :
                MakeManager(t, c, k, reply)
           \/ UNCHANGED vars
BY Reading DEF Next

\* Records keep their fields.
LEMMA ShapesStep ==
    ASSUME StreamsInv, [Next]_vars
    PROVE  Shapes'
<1> USE StreamsAssumption
        DEF StreamsInv, Shapes, AttemptsFollowTheirCall, Unused, Blank, Idle, TypeOK
<1>1. ASSUME Disable
      PROVE  Shapes'
    BY <1>1 DEF Disable, callVars, recordVars, httpVars
<1>2. ASSUME NEW k \in Clients, Wrap(k)
      PROVE  Shapes'
    BY <1>2 DEF Wrap, Installed, callVars, recordVars, httpVars
<1>3. ASSUME NEW t \in Tasks, NEW c \in CallIds, NEW kind \in {"create", "stream"},
             NEW k \in Clients, NEW reply \in Answers,
             Create(t, c, kind, k, reply)
      PROVE  Shapes'
    BY <1>3 DEF Create, Request, Begun, Unused, clientVars, recordVars, httpVars
<1>4. ASSUME NEW t \in Tasks, NEW c \in CallIds, NEW k \in Clients, NEW reply \in Answers,
             MakeManager(t, c, k, reply)
      PROVE  Shapes'
    BY <1>4 DEF MakeManager, Begun, Unused, clientVars, recordVars, httpVars
<1>5. ASSUME NEW t \in Tasks, NEW c \in CallIds, EnterManager(t, c)
      PROVE  Shapes'
    BY <1>5 DEF EnterManager, Request, Unused, clientVars, recordVars, httpVars
<1>6. ASSUME NEW t \in Tasks, NEW responds \in BOOLEAN, Attempt(t, responds)
      PROVE  Shapes'
    BY <1>6 DEF Attempt, CountResponse, Blank, clientVars, recordVars, httpVars
<1>7. ASSUME NEW t \in Tasks, Responds(t)
      PROVE  Shapes'
    BY <1>7
    DEF Responds, Return, Deactivate, Finish, Complete, Unused, Blank, clientVars, recordVars, httpVars
<1>8. ASSUME NEW t \in Tasks, RequestFails(t)
      PROVE  Shapes'
    BY <1>8
    DEF RequestFails, Return, Deactivate, Finish, Failed, Unused, Blank, clientVars, recordVars, httpVars
<1>9. ASSUME NEW t \in Tasks, NEW c \in CallIds, Pull(t, c)
      PROVE  Shapes'
    BY <1>9 DEF Pull, clientVars, callVars, recordVars, httpVars
<1>10. ASSUME NEW t \in Tasks, ReadingStep(t)
      PROVE  Shapes'
    BY <1>10 DEF ReadingStep
<1>11. ASSUME NEW t \in Tasks, NEW c \in CallIds, NEW raises \in BOOLEAN,
             ExitManager(t, c, raises)
      PROVE  Shapes'
    BY <1>11
    DEF ExitManager, ExitRecord, Finish, Failed, Complete, Unused, Blank, clientVars, recordVars, httpVars
<1>12. ASSUME UNCHANGED vars
      PROVE  Shapes'
    BY <1>12 DEF vars, clientVars, callVars, recordVars, httpVars
<1>13. QED
    BY StreamsCases, <1>1, <1>2, <1>3, <1>4, <1>5, <1>6, <1>7, <1>8, <1>9, <1>10, <1>11, <1>12

\* Every step keeps the types.
LEMMA TypingStep ==
    ASSUME StreamsInv, [Next]_vars
    PROVE  TypeOK'
<1> USE StreamsAssumption
        DEF StreamsInv, Shapes, AttemptsFollowTheirCall, Unused, Blank, Idle, TypeOK,
            SettledOnce, CallsBegin, TasksKnowTheirCall, Kinds
<1>1. ASSUME Disable
      PROVE  TypeOK'
    BY <1>1 DEF Disable, callVars, recordVars, httpVars
<1>2. ASSUME NEW k \in Clients, Wrap(k)
      PROVE  TypeOK'
    BY <1>2 DEF Wrap, Installed, callVars, recordVars, httpVars
<1>3. ASSUME NEW t \in Tasks, NEW c \in CallIds, NEW kind \in {"create", "stream"},
             NEW k \in Clients, NEW reply \in Answers,
             Create(t, c, kind, k, reply)
      PROVE  TypeOK'
    <2>1. /\ \A d \in CallIds \ {c} : calls'[d] = calls[d]
          /\ calls'[c].kind \in Kinds \cup {None}
          /\ calls'[c].phase \in {"unused", "raised", "made", "asked", "open", "over"}
          /\ calls'[c].span \in BOOLEAN /\ calls'[c].finished \in BOOLEAN
          /\ calls'[c].reply \in Answers \cup {None}
          /\ calls'[c].read \in Nat
        BY <1>3 DEF Create, Begun
    <2>2. UNCHANGED <<clientVars, over, recordVars, httpVars>>
        BY <1>3 DEF Create, clientVars, recordVars, httpVars
    <2>3. /\ active' \in [Tasks -> CallIds \cup {None}]
          /\ \A u \in Tasks :
                pc'[u] = Idle \/ pc'[u] \in [at : {"request", "read"}, call : CallIds]
        BY <1>3 DEF Create, Request
    <2>4. QED
        <3>1. ASSUME NEW d \in CallIds
              PROVE  /\ calls'[d].kind \in Kinds \cup {None}
                     /\ calls'[d].phase \in {"unused", "raised", "made", "asked", "open", "over"}
                     /\ calls'[d].span \in BOOLEAN /\ calls'[d].finished \in BOOLEAN
                     /\ calls'[d].reply \in Answers \cup {None}
                     /\ calls'[d].read \in Nat
            <4>1. CASE d = c
                BY <2>1, <4>1, Zenon
            <4>2. CASE d # c
                BY <2>1, <4>2
            <4>3. QED
                BY <4>1, <4>2
        <3>2. QED
            BY <2>2, <2>3, <3>1 DEF clientVars, recordVars, httpVars
<1>4. ASSUME NEW t \in Tasks, NEW c \in CallIds, NEW k \in Clients, NEW reply \in Answers,
             MakeManager(t, c, k, reply)
      PROVE  TypeOK'
    <2>1. CASE /\ calls' = [calls EXCEPT ![c] = Begun("manager", "made", k, reply)]
               /\ over' = over
        BY <1>4, <2>1 DEF MakeManager, Begun, Unused, clientVars, recordVars, httpVars
    <2>2. CASE /\ calls' = [calls EXCEPT ![c] = Begun("manager", "raised", k, reply)]
               /\ over' = over \cup {c}
        <3>1. UNCHANGED <<clientVars, recordVars, httpVars, active, pc>>
            BY <1>4 DEF MakeManager
        <3>2. ASSUME NEW d \in CallIds
              PROVE  /\ calls'[d].kind \in Kinds \cup {None}
                     /\ calls'[d].phase \in {"unused", "raised", "made", "asked", "open", "over"}
                     /\ calls'[d].span \in BOOLEAN /\ calls'[d].finished \in BOOLEAN
                     /\ calls'[d].reply \in Answers \cup {None}
                     /\ calls'[d].read \in Nat
            BY <2>2 DEF Begun, Unused, Kinds
        <3>3. over' \subseteq CallIds
            BY <2>2
        <3>4. QED
            BY <3>1, <3>2, <3>3 DEF clientVars, recordVars, httpVars
    <2>3. QED
        BY <1>4, <2>1, <2>2 DEF MakeManager
<1>5. ASSUME NEW t \in Tasks, NEW c \in CallIds, EnterManager(t, c)
      PROVE  TypeOK'
    BY <1>5 DEF EnterManager, Request, Unused, clientVars, recordVars, httpVars
<1>6. ASSUME NEW t \in Tasks, NEW responds \in BOOLEAN, Attempt(t, responds)
      PROVE  TypeOK'
    BY <1>6 DEF Attempt, CountResponse, Blank, clientVars, recordVars, httpVars
<1>7. ASSUME NEW t \in Tasks, Responds(t)
      PROVE  TypeOK'
    BY <1>7
    DEF Responds, Return, Deactivate, Finish, Complete, Unused, Blank, clientVars, recordVars, httpVars
<1>8. ASSUME NEW t \in Tasks, RequestFails(t)
      PROVE  TypeOK'
    BY <1>8
    DEF RequestFails, Return, Deactivate, Finish, Failed, Unused, Blank, clientVars, recordVars, httpVars
<1>9. ASSUME NEW t \in Tasks, NEW c \in CallIds, Pull(t, c)
      PROVE  TypeOK'
    BY <1>9 DEF Pull, clientVars, callVars, recordVars, httpVars
<1>10. ASSUME NEW t \in Tasks, ReadingStep(t)
      PROVE  TypeOK'
    <2>1. \A c \in CallIds : ended'[c] \in Nat
        BY <1>10 DEF ReadingStep
    <2>2. /\ enabled' \in BOOLEAN /\ wrapped' \subseteq Clients /\ hookable' \in BOOLEAN /\ hooks' \in 0..1
          /\ active' \in [Tasks -> CallIds \cup {None}]
          /\ \A u \in Tasks :
                pc'[u] = Idle \/ pc'[u] \in [at : {"request", "read"}, call : CallIds]
        BY <1>10 DEF ReadingStep
    <2>3. QED
        BY <1>10, <2>1, <2>2 DEF ReadingStep
<1>11. ASSUME NEW t \in Tasks, NEW c \in CallIds, NEW raises \in BOOLEAN,
             ExitManager(t, c, raises)
      PROVE  TypeOK'
    BY <1>11
    DEF ExitManager, ExitRecord, Finish, Failed, Complete, Unused, Blank, clientVars, recordVars, httpVars
<1>12. ASSUME UNCHANGED vars
      PROVE  TypeOK'
    BY <1>12 DEF vars, clientVars, callVars, recordVars, httpVars
<1>13. QED
    BY StreamsCases, <1>1, <1>2, <1>3, <1>4, <1>5, <1>6, <1>7, <1>8, <1>9, <1>10, <1>11, <1>12

\* Whoever has a span has a hook of ours, and only one.
LEMMA HooksStep ==
    ASSUME StreamsInv, [Next]_vars
    PROVE  HooksAreInstalled'
<1> USE StreamsAssumption
        DEF StreamsInv, Shapes, AttemptsFollowTheirCall, Unused, Blank, Idle, TypeOK,
            HooksAreInstalled
<1>1. ASSUME Disable
      PROVE  HooksAreInstalled'
    BY <1>1 DEF Disable, callVars, recordVars, httpVars
<1>2. ASSUME NEW k \in Clients, Wrap(k)
      PROVE  HooksAreInstalled'
    BY <1>2 DEF Wrap, Installed, callVars, recordVars, httpVars
<1>3. ASSUME NEW t \in Tasks, NEW c \in CallIds, NEW kind \in {"create", "stream"},
             NEW k \in Clients, NEW reply \in Answers,
             Create(t, c, kind, k, reply)
      PROVE  HooksAreInstalled'
    BY <1>3 DEF Create, Request, Begun, Unused, clientVars, recordVars, httpVars
<1>4. ASSUME NEW t \in Tasks, NEW c \in CallIds, NEW k \in Clients, NEW reply \in Answers,
             MakeManager(t, c, k, reply)
      PROVE  HooksAreInstalled'
    <2>1. CASE /\ calls' = [calls EXCEPT ![c] = Begun("manager", "made", k, reply)]
               /\ over' = over
        BY <1>4, <2>1 DEF MakeManager, Begun, Unused, clientVars, recordVars, httpVars
    <2>2. CASE /\ calls' = [calls EXCEPT ![c] = Begun("manager", "raised", k, reply)]
               /\ over' = over \cup {c}
        BY <1>4, <2>2 DEF MakeManager, Begun, Unused, clientVars, recordVars, httpVars
    <2>3. QED
        BY <1>4, <2>1, <2>2 DEF MakeManager
<1>5. ASSUME NEW t \in Tasks, NEW c \in CallIds, EnterManager(t, c)
      PROVE  HooksAreInstalled'
    BY <1>5 DEF EnterManager, Request, Unused, clientVars, recordVars, httpVars
<1>6. ASSUME NEW t \in Tasks, NEW responds \in BOOLEAN, Attempt(t, responds)
      PROVE  HooksAreInstalled'
    BY <1>6 DEF Attempt, CountResponse, Blank, clientVars, recordVars, httpVars
<1>7. ASSUME NEW t \in Tasks, Responds(t)
      PROVE  HooksAreInstalled'
    BY <1>7
    DEF Responds, Return, Deactivate, Finish, Complete, Unused, Blank, clientVars, recordVars, httpVars
<1>8. ASSUME NEW t \in Tasks, RequestFails(t)
      PROVE  HooksAreInstalled'
    BY <1>8
    DEF RequestFails, Return, Deactivate, Finish, Failed, Unused, Blank, clientVars, recordVars, httpVars
<1>9. ASSUME NEW t \in Tasks, NEW c \in CallIds, Pull(t, c)
      PROVE  HooksAreInstalled'
    BY <1>9 DEF Pull, clientVars, callVars, recordVars, httpVars
<1>10. ASSUME NEW t \in Tasks, ReadingStep(t)
      PROVE  HooksAreInstalled'
    BY <1>10 DEF ReadingStep
<1>11. ASSUME NEW t \in Tasks, NEW c \in CallIds, NEW raises \in BOOLEAN,
             ExitManager(t, c, raises)
      PROVE  HooksAreInstalled'
    BY <1>11
    DEF ExitManager, ExitRecord, Finish, Failed, Complete, Unused, Blank, clientVars, recordVars, httpVars
<1>12. ASSUME UNCHANGED vars
      PROVE  HooksAreInstalled'
    BY <1>12 DEF vars, clientVars, callVars, recordVars, httpVars
<1>13. QED
    BY StreamsCases, <1>1, <1>2, <1>3, <1>4, <1>5, <1>6, <1>7, <1>8, <1>9, <1>10, <1>11, <1>12

\* What is settled is not settled again, and nobody settles what still waits for its reply.
LEMMA SettledStep ==
    ASSUME StreamsInv, [Next]_vars
    PROVE  SettledOnce'
<1> USE StreamsAssumption
        DEF StreamsInv, Shapes, AttemptsFollowTheirCall, Unused, Blank, Idle, TypeOK,
            SettledOnce, CallsBegin, Kinds, TasksKnowTheirCall
<1>1. ASSUME Disable
      PROVE  SettledOnce'
    BY <1>1 DEF Disable, callVars, recordVars, httpVars
<1>2. ASSUME NEW k \in Clients, Wrap(k)
      PROVE  SettledOnce'
    BY <1>2 DEF Wrap, Installed, callVars, recordVars, httpVars
<1>3. ASSUME NEW t \in Tasks, NEW c \in CallIds, NEW kind \in {"create", "stream"},
             NEW k \in Clients, NEW reply \in Answers,
             Create(t, c, kind, k, reply)
      PROVE  SettledOnce'
    BY <1>3 DEF Create, Request, Begun, Unused, clientVars, recordVars, httpVars
<1>4. ASSUME NEW t \in Tasks, NEW c \in CallIds, NEW k \in Clients, NEW reply \in Answers,
             MakeManager(t, c, k, reply)
      PROVE  SettledOnce'
    <2>1. CASE /\ calls' = [calls EXCEPT ![c] = Begun("manager", "made", k, reply)]
               /\ over' = over
        BY <1>4, <2>1 DEF MakeManager, Begun, Unused, clientVars, recordVars, httpVars
    <2>2. CASE /\ calls' = [calls EXCEPT ![c] = Begun("manager", "raised", k, reply)]
               /\ over' = over \cup {c}
        BY <1>4, <2>2 DEF MakeManager, Begun, Unused, clientVars, recordVars, httpVars
    <2>3. QED
        BY <1>4, <2>1, <2>2 DEF MakeManager
<1>5. ASSUME NEW t \in Tasks, NEW c \in CallIds, EnterManager(t, c)
      PROVE  SettledOnce'
    BY <1>5 DEF EnterManager, Request, Unused, clientVars, recordVars, httpVars
<1>6. ASSUME NEW t \in Tasks, NEW responds \in BOOLEAN, Attempt(t, responds)
      PROVE  SettledOnce'
    BY <1>6 DEF Attempt, CountResponse, Blank, clientVars, recordVars, httpVars
<1>7. ASSUME NEW t \in Tasks, Responds(t)
      PROVE  SettledOnce'
    <2> DEFINE c == pc[t].call
    <2>1. c \in CallIds /\ calls[c].phase = "asked"
        BY <1>7 DEF Responds
    <2>2. \A d \in CallIds \ {c} : calls'[d] = calls[d] /\ ended'[d] = ended[d]
        BY <1>7, <2>1 DEF Responds, Finish, recordVars
    <2>3. CASE calls[c].span
        <3>1. CASE calls[c].kind = "create"
            BY <1>7, <2>1, <2>2, <2>3, <3>1 DEF Responds, Finish, recordVars
        <3>2. CASE calls[c].kind # "create"
            BY <1>7, <2>1, <2>2, <2>3, <3>2 DEF Responds, recordVars
        <3>3. QED
            BY <3>1, <3>2
    <2>4. CASE ~calls[c].span
        BY <1>7, <2>1, <2>2, <2>4 DEF Responds, recordVars
    <2>5. QED
        BY <2>3, <2>4
<1>8. ASSUME NEW t \in Tasks, RequestFails(t)
      PROVE  SettledOnce'
    BY <1>8
    DEF RequestFails, Return, Deactivate, Finish, Failed, Unused, Blank, clientVars, recordVars, httpVars
<1>9. ASSUME NEW t \in Tasks, NEW c \in CallIds, Pull(t, c)
      PROVE  SettledOnce'
    BY <1>9 DEF Pull, clientVars, callVars, recordVars, httpVars
<1>10. ASSUME NEW t \in Tasks, ReadingStep(t)
      PROVE  SettledOnce'
    BY <1>10 DEF ReadingStep
<1>11. ASSUME NEW t \in Tasks, NEW c \in CallIds, NEW raises \in BOOLEAN,
             ExitManager(t, c, raises)
      PROVE  SettledOnce'
    BY <1>11
    DEF ExitManager, ExitRecord, Finish, Failed, Complete, Unused, Blank, clientVars, recordVars, httpVars
<1>12. ASSUME UNCHANGED vars
      PROVE  SettledOnce'
    BY <1>12 DEF vars, clientVars, callVars, recordVars, httpVars
<1>13. QED
    BY StreamsCases, <1>1, <1>2, <1>3, <1>4, <1>5, <1>6, <1>7, <1>8, <1>9, <1>10, <1>11, <1>12

\* The end of a call is seen when its span ends, and not a second time.
LEMMA EndStep ==
    ASSUME StreamsInv, [Next]_vars
    PROVE  EndIsSeen' /\ SpansCloseOnce'
<1> USE StreamsAssumption
        DEF StreamsInv, Shapes, AttemptsFollowTheirCall, Unused, Blank, Idle, TypeOK,
            TasksKnowTheirCall, CallsBegin, Kinds, SettledOnce, EndIsSeen, SpansCloseOnce
<1>1. ASSUME Disable
      PROVE  EndIsSeen' /\ SpansCloseOnce'
    BY <1>1 DEF Disable, callVars, recordVars, httpVars
<1>2. ASSUME NEW k \in Clients, Wrap(k)
      PROVE  EndIsSeen' /\ SpansCloseOnce'
    BY <1>2 DEF Wrap, Installed, callVars, recordVars, httpVars
<1>3. ASSUME NEW t \in Tasks, NEW c \in CallIds, NEW kind \in {"create", "stream"},
             NEW k \in Clients, NEW reply \in Answers,
             Create(t, c, kind, k, reply)
      PROVE  EndIsSeen' /\ SpansCloseOnce'
    BY <1>3 DEF Create, Request, Begun, Unused, clientVars, recordVars, httpVars
<1>4. ASSUME NEW t \in Tasks, NEW c \in CallIds, NEW k \in Clients, NEW reply \in Answers,
             MakeManager(t, c, k, reply)
      PROVE  EndIsSeen' /\ SpansCloseOnce'
    <2>1. CASE /\ calls' = [calls EXCEPT ![c] = Begun("manager", "made", k, reply)]
               /\ over' = over
        BY <1>4, <2>1 DEF MakeManager, Begun, Unused, clientVars, recordVars, httpVars
    <2>2. CASE /\ calls' = [calls EXCEPT ![c] = Begun("manager", "raised", k, reply)]
               /\ over' = over \cup {c}
        BY <1>4, <2>2 DEF MakeManager, Begun, Unused, clientVars, recordVars, httpVars
    <2>3. QED
        BY <1>4, <2>1, <2>2 DEF MakeManager
<1>5. ASSUME NEW t \in Tasks, NEW c \in CallIds, EnterManager(t, c)
      PROVE  EndIsSeen' /\ SpansCloseOnce'
    BY <1>5 DEF EnterManager, Request, Unused, clientVars, recordVars, httpVars
<1>6. ASSUME NEW t \in Tasks, NEW responds \in BOOLEAN, Attempt(t, responds)
      PROVE  EndIsSeen' /\ SpansCloseOnce'
    BY <1>6 DEF Attempt, CountResponse, Blank, clientVars, recordVars, httpVars
<1>7. ASSUME NEW t \in Tasks, Responds(t)
      PROVE  EndIsSeen' /\ SpansCloseOnce'
    BY <1>7
    DEF Responds, Return, Deactivate, Finish, Complete, Unused, Blank, clientVars, recordVars, httpVars
<1>8. ASSUME NEW t \in Tasks, RequestFails(t)
      PROVE  EndIsSeen' /\ SpansCloseOnce'
    BY <1>8
    DEF RequestFails, Return, Deactivate, Finish, Failed, Unused, Blank, clientVars, recordVars, httpVars
<1>9. ASSUME NEW t \in Tasks, NEW c \in CallIds, Pull(t, c)
      PROVE  EndIsSeen' /\ SpansCloseOnce'
    BY <1>9 DEF Pull, clientVars, callVars, recordVars, httpVars
<1>10. ASSUME NEW t \in Tasks, ReadingStep(t)
      PROVE  EndIsSeen' /\ SpansCloseOnce'
    BY <1>10 DEF ReadingStep
<1>11. ASSUME NEW t \in Tasks, NEW c \in CallIds, NEW raises \in BOOLEAN,
             ExitManager(t, c, raises)
      PROVE  EndIsSeen' /\ SpansCloseOnce'
    BY <1>11
    DEF ExitManager, ExitRecord, Finish, Failed, Complete, Unused, Blank, clientVars, recordVars, httpVars
<1>12. ASSUME UNCHANGED vars
      PROVE  EndIsSeen' /\ SpansCloseOnce'
    BY <1>12 DEF vars, clientVars, callVars, recordVars, httpVars
<1>13. QED
    BY StreamsCases, <1>1, <1>2, <1>3, <1>4, <1>5, <1>6, <1>7, <1>8, <1>9, <1>10, <1>11, <1>12

\* Nothing is answered before the request.
LEMMA BeginStep ==
    ASSUME StreamsInv, [Next]_vars
    PROVE  CallsBegin'
<1> USE StreamsAssumption
        DEF StreamsInv, Shapes, AttemptsFollowTheirCall, Kinds, Unused, Blank, Idle,
            TypeOK, CallsBegin, TasksKnowTheirCall
<1>1. ASSUME Disable
      PROVE  CallsBegin'
    BY <1>1 DEF Disable, callVars, recordVars, httpVars
<1>2. ASSUME NEW k \in Clients, Wrap(k)
      PROVE  CallsBegin'
    BY <1>2 DEF Wrap, Installed, callVars, recordVars, httpVars
<1>3. ASSUME NEW t \in Tasks, NEW c \in CallIds, NEW kind \in {"create", "stream"},
             NEW k \in Clients, NEW reply \in Answers,
             Create(t, c, kind, k, reply)
      PROVE  CallsBegin'
    BY <1>3 DEF Create, Request, Begun, Unused, clientVars, recordVars, httpVars
<1>4. ASSUME NEW t \in Tasks, NEW c \in CallIds, NEW k \in Clients, NEW reply \in Answers,
             MakeManager(t, c, k, reply)
      PROVE  CallsBegin'
    <2>1. CASE /\ calls' = [calls EXCEPT ![c] = Begun("manager", "made", k, reply)]
               /\ over' = over
        BY <1>4, <2>1 DEF MakeManager, Begun, Unused, clientVars, recordVars, httpVars
    <2>2. CASE /\ calls' = [calls EXCEPT ![c] = Begun("manager", "raised", k, reply)]
               /\ over' = over \cup {c}
        BY <1>4, <2>2 DEF MakeManager, Begun, Unused, clientVars, recordVars, httpVars
    <2>3. QED
        BY <1>4, <2>1, <2>2 DEF MakeManager
<1>5. ASSUME NEW t \in Tasks, NEW c \in CallIds, EnterManager(t, c)
      PROVE  CallsBegin'
    BY <1>5 DEF EnterManager, Request, Unused, clientVars, recordVars, httpVars
<1>6. ASSUME NEW t \in Tasks, NEW responds \in BOOLEAN, Attempt(t, responds)
      PROVE  CallsBegin'
    BY <1>6 DEF Attempt, CountResponse, Blank, clientVars, recordVars, httpVars
<1>7. ASSUME NEW t \in Tasks, Responds(t)
      PROVE  CallsBegin'
    BY <1>7
    DEF Responds, Return, Deactivate, Finish, Complete, Unused, Blank, clientVars, recordVars, httpVars
<1>8. ASSUME NEW t \in Tasks, RequestFails(t)
      PROVE  CallsBegin'
    BY <1>8
    DEF RequestFails, Return, Deactivate, Finish, Failed, Unused, Blank, clientVars, recordVars, httpVars
<1>9. ASSUME NEW t \in Tasks, NEW c \in CallIds, Pull(t, c)
      PROVE  CallsBegin'
    BY <1>9 DEF Pull, clientVars, callVars, recordVars, httpVars
<1>10. ASSUME NEW t \in Tasks, ReadingStep(t)
      PROVE  CallsBegin'
    BY <1>10 DEF ReadingStep
<1>11. ASSUME NEW t \in Tasks, NEW c \in CallIds, NEW raises \in BOOLEAN,
             ExitManager(t, c, raises)
      PROVE  CallsBegin'
    BY <1>11
    DEF ExitManager, ExitRecord, Finish, Failed, Complete, Unused, Blank, clientVars, recordVars, httpVars
<1>12. ASSUME UNCHANGED vars
      PROVE  CallsBegin'
    BY <1>12 DEF vars, clientVars, callVars, recordVars, httpVars
<1>13. QED
    BY StreamsCases, <1>1, <1>2, <1>3, <1>4, <1>5, <1>6, <1>7, <1>8, <1>9, <1>10, <1>11, <1>12

\* A task's contextvar is that of the request it awaits.
LEMMA TasksStep ==
    ASSUME StreamsInv, [Next]_vars
    PROVE  TasksKnowTheirCall'
<1> USE StreamsAssumption
        DEF StreamsInv, Shapes, AttemptsFollowTheirCall, Unused, Blank, Idle, TypeOK,
            TasksKnowTheirCall, OneTaskAsks, SettledOnce
<1>1. ASSUME Disable
      PROVE  TasksKnowTheirCall'
    BY <1>1 DEF Disable, callVars, recordVars, httpVars
<1>2. ASSUME NEW k \in Clients, Wrap(k)
      PROVE  TasksKnowTheirCall'
    BY <1>2 DEF Wrap, Installed, callVars, recordVars, httpVars
<1>3. ASSUME NEW t \in Tasks, NEW c \in CallIds, NEW kind \in {"create", "stream"},
             NEW k \in Clients, NEW reply \in Answers,
             Create(t, c, kind, k, reply)
      PROVE  TasksKnowTheirCall'
    BY <1>3 DEF Create, Request, Begun, Unused, clientVars, recordVars, httpVars
<1>4. ASSUME NEW t \in Tasks, NEW c \in CallIds, NEW k \in Clients, NEW reply \in Answers,
             MakeManager(t, c, k, reply)
      PROVE  TasksKnowTheirCall'
    BY <1>4 DEF MakeManager, Begun, Unused, clientVars, recordVars, httpVars
<1>5. ASSUME NEW t \in Tasks, NEW c \in CallIds, EnterManager(t, c)
      PROVE  TasksKnowTheirCall'
    BY <1>5 DEF EnterManager, Request, Unused, clientVars, recordVars, httpVars
<1>6. ASSUME NEW t \in Tasks, NEW responds \in BOOLEAN, Attempt(t, responds)
      PROVE  TasksKnowTheirCall'
    BY <1>6 DEF Attempt, CountResponse, Blank, clientVars, recordVars, httpVars
<1>7. ASSUME NEW t \in Tasks, Responds(t)
      PROVE  TasksKnowTheirCall'
    BY <1>7
    DEF Responds, Return, Deactivate, Finish, Complete, Unused, Blank, clientVars, recordVars, httpVars
<1>8. ASSUME NEW t \in Tasks, RequestFails(t)
      PROVE  TasksKnowTheirCall'
    BY <1>8
    DEF RequestFails, Return, Deactivate, Finish, Failed, Unused, Blank, clientVars, recordVars, httpVars
<1>9. ASSUME NEW t \in Tasks, NEW c \in CallIds, Pull(t, c)
      PROVE  TasksKnowTheirCall'
    BY <1>9 DEF Pull, clientVars, callVars, recordVars, httpVars
<1>10. ASSUME NEW t \in Tasks, ReadingStep(t)
      PROVE  TasksKnowTheirCall'
    BY <1>10 DEF ReadingStep
<1>11. ASSUME NEW t \in Tasks, NEW c \in CallIds, NEW raises \in BOOLEAN,
             ExitManager(t, c, raises)
      PROVE  TasksKnowTheirCall'
    BY <1>11
    DEF ExitManager, ExitRecord, Finish, Failed, Complete, Unused, Blank, clientVars, recordVars, httpVars
<1>12. ASSUME UNCHANGED vars
      PROVE  TasksKnowTheirCall'
    BY <1>12 DEF vars, clientVars, callVars, recordVars, httpVars
<1>13. QED
    BY StreamsCases, <1>1, <1>2, <1>3, <1>4, <1>5, <1>6, <1>7, <1>8, <1>9, <1>10, <1>11, <1>12

\* No two tasks await the same request.
LEMMA OneTaskStep ==
    ASSUME StreamsInv, [Next]_vars
    PROVE  OneTaskAsks'
<1> USE StreamsAssumption
        DEF StreamsInv, Shapes, AttemptsFollowTheirCall, Unused, Blank, Idle, TypeOK,
            TasksKnowTheirCall, OneTaskAsks
<1>1. ASSUME Disable
      PROVE  OneTaskAsks'
    BY <1>1 DEF Disable, callVars, recordVars, httpVars
<1>2. ASSUME NEW k \in Clients, Wrap(k)
      PROVE  OneTaskAsks'
    BY <1>2 DEF Wrap, Installed, callVars, recordVars, httpVars
<1>3. ASSUME NEW t \in Tasks, NEW c \in CallIds, NEW kind \in {"create", "stream"},
             NEW k \in Clients, NEW reply \in Answers,
             Create(t, c, kind, k, reply)
      PROVE  OneTaskAsks'
    BY <1>3 DEF Create, Request, Begun, Unused, clientVars, recordVars, httpVars
<1>4. ASSUME NEW t \in Tasks, NEW c \in CallIds, NEW k \in Clients, NEW reply \in Answers,
             MakeManager(t, c, k, reply)
      PROVE  OneTaskAsks'
    BY <1>4 DEF MakeManager, Begun, Unused, clientVars, recordVars, httpVars
<1>5. ASSUME NEW t \in Tasks, NEW c \in CallIds, EnterManager(t, c)
      PROVE  OneTaskAsks'
    BY <1>5 DEF EnterManager, Request, Unused, clientVars, recordVars, httpVars
<1>6. ASSUME NEW t \in Tasks, NEW responds \in BOOLEAN, Attempt(t, responds)
      PROVE  OneTaskAsks'
    BY <1>6 DEF Attempt, CountResponse, Blank, clientVars, recordVars, httpVars
<1>7. ASSUME NEW t \in Tasks, Responds(t)
      PROVE  OneTaskAsks'
    BY <1>7
    DEF Responds, Return, Deactivate, Finish, Complete, Unused, Blank, clientVars, recordVars, httpVars
<1>8. ASSUME NEW t \in Tasks, RequestFails(t)
      PROVE  OneTaskAsks'
    BY <1>8
    DEF RequestFails, Return, Deactivate, Finish, Failed, Unused, Blank, clientVars, recordVars, httpVars
<1>9. ASSUME NEW t \in Tasks, NEW c \in CallIds, Pull(t, c)
      PROVE  OneTaskAsks'
    BY <1>9 DEF Pull, clientVars, callVars, recordVars, httpVars
<1>10. ASSUME NEW t \in Tasks, ReadingStep(t)
      PROVE  OneTaskAsks'
    BY <1>10 DEF ReadingStep
<1>11. ASSUME NEW t \in Tasks, NEW c \in CallIds, NEW raises \in BOOLEAN,
             ExitManager(t, c, raises)
      PROVE  OneTaskAsks'
    BY <1>11
    DEF ExitManager, ExitRecord, Finish, Failed, Complete, Unused, Blank, clientVars, recordVars, httpVars
<1>12. ASSUME UNCHANGED vars
      PROVE  OneTaskAsks'
    BY <1>12 DEF vars, clientVars, callVars, recordVars, httpVars
<1>13. QED
    BY StreamsCases, <1>1, <1>2, <1>3, <1>4, <1>5, <1>6, <1>7, <1>8, <1>9, <1>10, <1>11, <1>12

AttemptsCounted ==
    \A c \in CallIds : observation[c].attempts = IF calls[c].span /\ hookable THEN responses[c] ELSE 0

\* An attempt is the only step that counts, and it counts on the call it is made for.
LEMMA CountStep ==
    ASSUME StreamsInv, [Next]_vars
    PROVE  AttemptsCounted'
<1> USE StreamsAssumption
        DEF AttemptsCounted, StreamsInv, Shapes, AttemptsFollowTheirCall, Unused, Blank, Idle, TypeOK,
            TasksKnowTheirCall, CallsBegin, SettledOnce, HooksAreInstalled
<1>1. ASSUME Disable
      PROVE  AttemptsCounted'
    BY <1>1 DEF Disable, callVars, recordVars, httpVars
<1>2. ASSUME NEW k \in Clients, Wrap(k)
      PROVE  AttemptsCounted'
    BY <1>2 DEF Wrap, Installed, callVars, recordVars, httpVars
<1>3. ASSUME NEW t \in Tasks, NEW c \in CallIds, NEW kind \in {"create", "stream"},
             NEW k \in Clients, NEW reply \in Answers,
             Create(t, c, kind, k, reply)
      PROVE  AttemptsCounted'
    BY <1>3 DEF Create, Request, Begun, Unused, clientVars, recordVars, httpVars
<1>4. ASSUME NEW t \in Tasks, NEW c \in CallIds, NEW k \in Clients, NEW reply \in Answers,
             MakeManager(t, c, k, reply)
      PROVE  AttemptsCounted'
    BY <1>4 DEF MakeManager, Begun, Unused, clientVars, recordVars, httpVars
<1>5. ASSUME NEW t \in Tasks, NEW c \in CallIds, EnterManager(t, c)
      PROVE  AttemptsCounted'
    BY <1>5 DEF EnterManager, Request, Unused, clientVars, recordVars, httpVars
<1>6. ASSUME NEW t \in Tasks, NEW responds \in BOOLEAN, Attempt(t, responds)
      PROVE  AttemptsCounted'
    BY <1>6 DEF Attempt, CountResponse, Blank, clientVars, recordVars, httpVars
<1>7. ASSUME NEW t \in Tasks, Responds(t)
      PROVE  AttemptsCounted'
    BY <1>7
    DEF Responds, Return, Deactivate, Finish, Complete, Unused, Blank, clientVars, recordVars, httpVars
<1>8. ASSUME NEW t \in Tasks, RequestFails(t)
      PROVE  AttemptsCounted'
    BY <1>8
    DEF RequestFails, Return, Deactivate, Finish, Failed, Unused, Blank, clientVars, recordVars, httpVars
<1>9. ASSUME NEW t \in Tasks, NEW c \in CallIds, Pull(t, c)
      PROVE  AttemptsCounted'
    BY <1>9 DEF Pull, clientVars, callVars, recordVars, httpVars
<1>10. ASSUME NEW t \in Tasks, ReadingStep(t)
      PROVE  AttemptsCounted'
    BY <1>10 DEF ReadingStep
<1>11. ASSUME NEW t \in Tasks, NEW c \in CallIds, NEW raises \in BOOLEAN,
             ExitManager(t, c, raises)
      PROVE  AttemptsCounted'
    BY <1>11
    DEF ExitManager, ExitRecord, Finish, Failed, Complete, Unused, Blank, clientVars, recordVars, httpVars
<1>12. ASSUME UNCHANGED vars
      PROVE  AttemptsCounted'
    BY <1>12 DEF vars, clientVars, callVars, recordVars, httpVars
<1>13. QED
    BY StreamsCases, <1>1, <1>2, <1>3, <1>4, <1>5, <1>6, <1>7, <1>8, <1>9, <1>10, <1>11, <1>12

SentStays ==
    \A c \in CallIds :
        ended[c] > 0 => observation'[c] = observation[c] /\ ended'[c] = ended[c]

\* A step that records something of a call does so before its observation is sent.
LEMMA FinalStep ==
    ASSUME StreamsInv, [Next]_vars
    PROVE  SentStays
<1> USE StreamsAssumption
        DEF SentStays, StreamsInv, Shapes, AttemptsFollowTheirCall, Unused, Blank, Idle, TypeOK,
            Kinds, TasksKnowTheirCall, CallsBegin, SettledOnce
<1>1. ASSUME Disable
      PROVE  SentStays
    BY <1>1 DEF Disable, callVars, recordVars, httpVars
<1>2. ASSUME NEW k \in Clients, Wrap(k)
      PROVE  SentStays
    BY <1>2 DEF Wrap, Installed, callVars, recordVars, httpVars
<1>3. ASSUME NEW t \in Tasks, NEW c \in CallIds, NEW kind \in {"create", "stream"},
             NEW k \in Clients, NEW reply \in Answers,
             Create(t, c, kind, k, reply)
      PROVE  SentStays
    BY <1>3 DEF Create, Request, Begun, Unused, clientVars, recordVars, httpVars
<1>4. ASSUME NEW t \in Tasks, NEW c \in CallIds, NEW k \in Clients, NEW reply \in Answers,
             MakeManager(t, c, k, reply)
      PROVE  SentStays
    BY <1>4 DEF MakeManager, Begun, Unused, clientVars, recordVars, httpVars
<1>5. ASSUME NEW t \in Tasks, NEW c \in CallIds, EnterManager(t, c)
      PROVE  SentStays
    BY <1>5 DEF EnterManager, Request, Unused, clientVars, recordVars, httpVars
<1>6. ASSUME NEW t \in Tasks, NEW responds \in BOOLEAN, Attempt(t, responds)
      PROVE  SentStays
    BY <1>6 DEF Attempt, CountResponse, Blank, clientVars, recordVars, httpVars
<1>7. ASSUME NEW t \in Tasks, Responds(t)
      PROVE  SentStays
    BY <1>7
    DEF Responds, Return, Deactivate, Finish, Complete, Unused, Blank, clientVars, recordVars, httpVars
<1>8. ASSUME NEW t \in Tasks, RequestFails(t)
      PROVE  SentStays
    BY <1>8
    DEF RequestFails, Return, Deactivate, Finish, Failed, Unused, Blank, clientVars, recordVars, httpVars
<1>9. ASSUME NEW t \in Tasks, NEW c \in CallIds, Pull(t, c)
      PROVE  SentStays
    BY <1>9 DEF Pull, clientVars, callVars, recordVars, httpVars
<1>10. ASSUME NEW t \in Tasks, ReadingStep(t)
      PROVE  SentStays
    BY <1>10 DEF ReadingStep
<1>11. ASSUME NEW t \in Tasks, NEW c \in CallIds, NEW raises \in BOOLEAN,
             ExitManager(t, c, raises)
      PROVE  SentStays
    BY <1>11
    DEF ExitManager, ExitRecord, Finish, Failed, Complete, Unused, Blank, clientVars, recordVars, httpVars
<1>12. ASSUME UNCHANGED vars
      PROVE  SentStays
    BY <1>12 DEF vars, clientVars, callVars, recordVars, httpVars
<1>13. QED
    BY StreamsCases, <1>1, <1>2, <1>3, <1>4, <1>5, <1>6, <1>7, <1>8, <1>9, <1>10, <1>11, <1>12

\* The invariant holds at first.
LEMMA StreamsInit == Init => StreamsInv
<1> SUFFICES ASSUME Init
             PROVE  StreamsInv
    OBVIOUS
<1> USE StreamsAssumption DEF Init, Unused, Blank, Idle
<1>1. AttemptsFollowTheirCall
    <2>1. ASSUME NEW c \in CallIds
          PROVE  /\ calls[c].kind = None /\ calls[c].phase = "unused"
                 /\ calls[c].span = FALSE /\ calls[c].finished = FALSE
                 /\ calls[c].reply = None /\ calls[c].read = 0
                 /\ observation[c].status = "ok" /\ observation[c].completed = None
                 /\ observation[c].attempts = 0 /\ ended[c] = 0
                 /\ attempts[c] = 0 /\ responses[c] = 0
        OBVIOUS
    <2>2. TypeOK
        <3>1. enabled \in BOOLEAN /\ wrapped \subseteq Clients /\ hookable \in BOOLEAN /\ hooks \in 0..1
            OBVIOUS
        <3>2. /\ active \in [Tasks -> CallIds \cup {None}]
              /\ \A t \in Tasks : pc[t] = Idle
            OBVIOUS
        <3>3. ASSUME NEW c \in CallIds
              PROVE  /\ calls[c].kind \in Kinds \cup {None}
                     /\ calls[c].phase \in {"unused", "raised", "made", "asked", "open", "over"}
                     /\ calls[c].span \in BOOLEAN /\ calls[c].finished \in BOOLEAN
                     /\ calls[c].reply \in Answers \cup {None}
                     /\ calls[c].read \in Nat
                     /\ observation[c].status \in {"ok", "error"}
                     /\ observation[c].completed \in BOOLEAN \cup {None}
                     /\ ended[c] \in Nat /\ responses[c] \in Nat
                     /\ attempts[c] \in 0..MaxAttempts
            <4>1. calls[c].span \in BOOLEAN /\ calls[c].finished \in BOOLEAN
                BY <2>1, Zenon
            <4>2. QED
                BY <2>1, <4>1
        <3>4. QED
            BY <3>1, <3>2, <3>3 DEF TypeOK
    <2>3. QED
        BY <2>1, <2>2 DEF AttemptsFollowTheirCall
<1>2. Shapes
    BY DEF Shapes
<1>3. HooksAreInstalled /\ SettledOnce /\ EndIsSeen /\ SpansCloseOnce /\ CallsBegin
    BY DEF HooksAreInstalled, SettledOnce, EndIsSeen, SpansCloseOnce, CallsBegin
<1>4. TasksKnowTheirCall /\ OneTaskAsks
    BY DEF TasksKnowTheirCall, OneTaskAsks
<1>5. QED
    BY <1>1, <1>2, <1>3, <1>4 DEF StreamsInv

\* Every step preserves the invariant.
LEMMA StreamsStep ==
    ASSUME StreamsInv, [Next]_vars
    PROVE  StreamsInv'
BY TypingStep, CountStep, ShapesStep, HooksStep, SettledStep, EndStep, BeginStep, TasksStep, OneTaskStep
DEF StreamsInv, AttemptsFollowTheirCall, AttemptsCounted

\* The invariant holds in every reachable state.
LEMMA StreamsInvariance == Spec => []StreamsInv
BY StreamsInit, StreamsStep, PTL DEF Spec

\* The attempts that an observation reports are the responses to its own call, by
\* the hook on the client's transport and through whichever task's contextvar it
\* found: never those of another task, of a client of no wrapper, or of a call
\* before it; and none where install() found no place for the hook
\* (_transport.active, install and the response hook).
THEOREM AttemptsAreCounted == Spec => []AttemptsFollowTheirCall
<1>1. StreamsInv => AttemptsFollowTheirCall
    BY DEF StreamsInv
<1>2. QED
    BY <1>1, StreamsInvariance, PTL

\* An observation whose span has ended is never ended again, nor written to: not by
\* a close() after the end, a failing read after a close(), or a manager that is
\* left after its stream was read (StreamState.finish, _TracedStreamManager._settle).
THEOREM QueuedObservationsStay == Spec => SettledIsFinal
<1>1. StreamsInv /\ [Next]_vars
        => [SentStays]_vars
    BY FinalStep
<1>2. QED
    BY <1>1, StreamsInvariance, PTL DEF Spec, SettledIsFinal, SentStays

\* The span of a call ends once, and not before the caller has seen the call end:
\* by a reply, an exception or a cancellation, by the end, the failure or the
\* close() of its stream in whichever task comes first, or by the exit of its
\* manager (finish_span() in the wrappers, TracedAsyncStream._settle and
\* _TracedStreamManager._settle).
THEOREM SpansEndWithTheirCall == Spec => []SpansCloseOnce
<1>1. StreamsInv => SpansCloseOnce
    BY DEF StreamsInv
<1>2. QED
    BY <1>1, StreamsInvariance, PTL

-----------------------------------------------------------------------------
(* What a reply's chunks tell.                                             *)

\* What is gathered of the first n chunks of a reply of one choice: a name every
\* other chunk, then how the choice ended, and then the usage.
OpenAISeen(reply, n) ==
    LET choice == reply.choices[1]
        k == Len(choice.calls)
    IN  [usage |-> IF n > 2 * k + 1 THEN reply.usage ELSE None,
         finish |-> IF n > 2 * k THEN choice.finish ELSE None,
         refused |-> n > 2 * k /\ choice.refused,
         calls |-> [i \in 1..(IF n > 2 * k THEN k ELSE (n + 1) \div 2) |-> choice.calls[i]]]

\* The same for Anthropic's events, which begin and end with the usage.
AnthropicSeen(reply, n) ==
    LET choice == reply.choices[1]
        k == Len(choice.calls)
    IN  [usage |-> [x \in DOMAIN reply.usage |->
                     IF n > k + 1 THEN reply.usage[x]
                     ELSE IF n = 0 THEN None
                     ELSE IF x = "out" THEN 1 ELSE reply.usage[x]],
         finish |-> IF n > k + 1 THEN choice.finish ELSE None,
         refused |-> FALSE,
         calls |-> [i \in 1..(IF n = 0 THEN 0 ELSE IF n > k + 1 THEN k ELSE n - 1)
                       |-> choice.calls[i]]]

\* And of the events of a Responses API reply, of which only the last one counts.
ResponseSeen(reply, n) ==
    IF reply.status = "completed" /\ n = Len(reply.calls) + 2
    THEN [usage |-> reply.usage, finish |-> "stop", refused |-> reply.refused,
          calls |-> reply.calls]
    ELSE Unread(reply)

\* Either provider's.
Seen(reply, n) ==
    CASE IsResponse(reply) -> ResponseSeen(reply, n)
      [] reply.provider = "openai" -> OpenAISeen(reply, n)
      [] OTHER -> AnthropicSeen(reply, n)

\* A reply whose chunks are not merged with those of another choice.
Single(reply) == IsResponse(reply) \/ Len(reply.choices) = 1

\* A sequence of one sequence is flattened to that one.
LEMMA FlattenOne ==
    ASSUME NEW q
    PROVE  FlattenSeq(<<q>>) = q
<1> DEFINE Body(f) == [i \in 1..1 |-> IF i = 1 THEN <<q>>[i] ELSE f[i-1] \o <<q>>[i]]
           flatten == CHOOSE f : f = Body(f)
           g == [i \in 1..1 |-> q]
<1>1. Len(<<q>>) = 1
    OBVIOUS
<1>2. FlattenSeq(<<q>>) = flatten[1]
    BY <1>1 DEF FlattenSeq
<1>3. g = Body(g)
    OBVIOUS
<1>4. \A f : Body(f)[1] = q
    OBVIOUS
<1> HIDE DEF Body
<1>5. flatten = Body(flatten)
    BY <1>3
<1> HIDE DEF flatten
<1>6. QED
    BY <1>2, <1>4, <1>5

\* The one choice of a reply, and its calls.
LEMMA OneChoice ==
    ASSUME NEW reply, reply.choices \in Seq(ChoiceRecords), Len(reply.choices) = 1
    PROVE  /\ DOMAIN reply.choices = {1}
           /\ reply.choices[1] \in ChoiceRecords
           /\ Calls(reply) = reply.choices[1].calls
<1>1. /\ DOMAIN reply.choices = 1..1
      /\ reply.choices[1] \in ChoiceRecords
    OBVIOUS
<1> DEFINE q == reply.choices[1].calls
           s == [i \in DOMAIN reply.choices |-> reply.choices[i].calls]
<1>2. s = <<q>>
    BY <1>1
<1>3. FlattenSeq(s) = q
    <2> HIDE DEF q, s
    <2>1. QED
        BY <1>2, FlattenOne
<1>4. QED
    BY <1>1, <1>3 DEF Calls

\* The chunks of an OpenAI reply of one choice, with k calls.
OpenAIStreams(usage, choice, k, chunks) ==
    /\ Len(chunks) = IF usage = None THEN 2 * k + 1 ELSE 2 * k + 2
    /\ \A i \in 1..2 * k : chunks[i] = OpenAIDelta(choice, i)
    /\ chunks[2 * k + 1] = OpenAILast(choice)
    /\ usage # None => chunks[2 * k + 2] = [Chunk EXCEPT !.usage = usage]

\* They are what OpenAIChunks says.
LEMMA OpenAIChunksOfOne ==
    ASSUME NEW reply \in OpenAIReplies, Len(reply.choices) = 1,
           NEW choice, choice = reply.choices[1], NEW k \in Nat, k = Len(choice.calls)
    PROVE  OpenAIStreams(reply.usage, choice, k, OpenAIChunks(reply))
<1>1. PICK report : report = [Chunk EXCEPT !.usage = reply.usage]
    OBVIOUS
<1>2. PICK last : last = OpenAILast(choice)
    OBVIOUS
<1>3. PICK deltas : deltas = [i \in 1..2 * k |-> OpenAIDelta(choice, i)]
    OBVIOUS
<1>4. PICK E : E = {OpenAIDelta(choice, i) : i \in 1..2 * k} \cup {last, report}
    OBVIOUS
<1>5. /\ deltas \in Seq(E) /\ Len(deltas) = 2 * k
      /\ \A i \in 1..2 * k : deltas[i] = OpenAIDelta(choice, i)
    BY <1>3, <1>4
<1>6. last \in E /\ report \in E
    BY <1>4
<1>7. PICK first : first = Append(deltas, last)
    OBVIOUS
<1>8. /\ first \in Seq(E) /\ Len(first) = 2 * k + 1
      /\ \A i \in 1..2 * k : first[i] = OpenAIDelta(choice, i)
      /\ first[2 * k + 1] = last
    BY SMTT(30), <1>5, <1>6, <1>7
<1>9. OpenAIChunks(reply) = first \o (IF reply.usage = None THEN <<>> ELSE <<report>>)
    <2>1. reply.choices \in Seq(ChoiceRecords)
        BY DEF OpenAIReplies
    <2>2. [i \in DOMAIN reply.choices |-> OpenAIChoice(reply.choices[i])]
            = <<OpenAIChoice(choice)>>
        BY <2>1
    <2>3. OpenAIChoice(choice) = first
        BY <1>2, <1>3, <1>7 DEF OpenAIChoice
    <2>4. FlattenSeq([i \in DOMAIN reply.choices |-> OpenAIChoice(reply.choices[i])]) = first
        BY <2>2, <2>3, FlattenOne
    <2>5. QED
        BY <1>1, <2>4 DEF OpenAIChunks
<1>10. CASE reply.usage = None
    <2>1. OpenAIChunks(reply) = first
        BY <1>8, <1>9, <1>10
    <2>2. QED
        BY <1>2, <1>8, <1>10, <2>1 DEF OpenAIStreams
<1>11. CASE reply.usage # None
    <2>1. OpenAIChunks(reply) = Append(first, report)
        BY <1>6, <1>8, <1>9, <1>11
    <2>2. QED
        BY <1>1, <1>2, <1>6, <1>8, <1>11, <2>1 DEF OpenAIStreams
<1>12. QED
    BY <1>10, <1>11

\* Each chunk of an OpenAI reply of one choice takes the state to the next one.
LEMMA OpenAIObserved ==
    ASSUME NEW reply \in OpenAIReplies, Len(reply.choices) = 1,
           NEW n \in Nat, n < Len(OpenAIChunks(reply))
    PROVE  OpenAIObserve(OpenAISeen(reply, n), OpenAIChunks(reply)[n+1])
               = OpenAISeen(reply, n + 1)
<1>1. PICK choice : choice = reply.choices[1]
    OBVIOUS
<1>2. choice \in ChoiceRecords /\ choice.calls \in Seq(STRING) /\ choice.refused \in BOOLEAN
    <2>1. reply.choices \in Seq(ChoiceRecords)
        BY DEF OpenAIReplies
    <2>2. choice \in ChoiceRecords
        BY <1>1, <2>1
    <2>3. QED
        BY <2>2 DEF ChoiceRecords
<1>3. PICK k \in Nat : k = Len(choice.calls)
    BY <1>2
<1>4. \A i \in 1..k : choice.calls[i] # None
    BY <1>2, <1>3, AnswersAssumption
<1>5. PICK chunk : chunk = OpenAIChunks(reply)[n+1]
    OBVIOUS
<1> DEFINE Named(m) == IF m > 2 * k THEN k ELSE (m + 1) \div 2
           First(m) == [i \in 1..m |-> choice.calls[i]]
           State(m) == [usage |-> IF m > 2 * k + 1 THEN reply.usage ELSE None,
                        finish |-> IF m > 2 * k THEN choice.finish ELSE None,
                        refused |-> m > 2 * k /\ choice.refused,
                        calls |-> First(Named(m))]
<1>6. /\ n < IF reply.usage = None THEN 2 * k + 1 ELSE 2 * k + 2
      /\ n < 2 * k => chunk = OpenAIDelta(choice, n + 1)
      /\ n = 2 * k => chunk = OpenAILast(choice)
      /\ n = 2 * k + 1 => chunk = [Chunk EXCEPT !.usage = reply.usage]
    <2>1. n < 2 * k => n + 1 \in 1..2 * k
        OBVIOUS
    <2>2. PICK chunks : chunks = OpenAIChunks(reply)
        OBVIOUS
    <2>3. OpenAIStreams(reply.usage, choice, k, chunks)
        BY <1>1, <1>3, <2>2, OpenAIChunksOfOne
    <2>4. n < Len(chunks) /\ chunk = chunks[n + 1]
        BY <1>5, <2>2
    <2>5. QED
        BY <2>1, <2>3, <2>4 DEF OpenAIStreams
<1>7. \A m : OpenAISeen(reply, m) = State(m)
    BY <1>1, <1>3 DEF OpenAISeen
<1>13. chunk.type # "response.completed"
    <2>1. chunk.type = None
        <3>1. CASE n < 2 * k
            BY <1>6, <3>1 DEF OpenAIDelta, Chunk
        <3>2. CASE n = 2 * k
            BY <1>6, <3>2 DEF OpenAILast, Chunk
        <3>3. CASE n = 2 * k + 1
            BY <1>6, <3>3 DEF Chunk
        <3>4. QED
            BY <1>6, <3>1, <3>2, <3>3
    <2>2. QED
        BY <2>1, AnswersAssumption
<1>14. \A s : OpenAIObserve(s, chunk) = ReadChunk(s, chunk)
    BY <1>13 DEF OpenAIObserve
<1> HIDE DEF State
<1> SUFFICES ReadChunk(State(n), chunk) = State(n + 1)
    BY <1>5, <1>7, <1>14
<1> USE DEF State
<1>8. CASE n < 2 * k
    <2> DEFINE j == (n + 1 + 1) \div 2
    <2>1. chunk = [Chunk EXCEPT !.index = j,
                                !.name = IF n + 1 = 2 * j THEN None ELSE choice.calls[j]]
        BY <1>6, <1>8 DEF OpenAIDelta
    <2>2. /\ ~(n > 2 * k) /\ ~(n > 2 * k + 1) /\ ~(n + 1 > 2 * k) /\ ~(n + 1 > 2 * k + 1)
          /\ Named(n) = (n + 1) \div 2 /\ Named(n + 1) = j
        BY <1>8
    <2> HIDE DEF Named, First, j
    <2>3. State(n) = [usage |-> None, finish |-> None, refused |-> FALSE,
                      calls |-> First((n + 1) \div 2)]
        BY <2>2
    <2>4. State(n + 1) = [usage |-> None, finish |-> None, refused |-> FALSE,
                          calls |-> First(j)]
        BY <2>2
    <2>5. OpenAICalls(First((n + 1) \div 2), chunk) = First(j)
        <3>1. CASE n + 1 = 2 * j
            <4>1. (n + 1) \div 2 = j
                BY <3>1 DEF j
            <4>2. chunk.name = None
                BY <3>1, <2>1 DEF Chunk
            <4>3. QED
                BY <4>1, <4>2 DEF OpenAICalls
        <3>2. CASE n + 1 # 2 * j
            <4>1. n = 2 * j - 2 /\ j \in 1..k /\ (n + 1) \div 2 = j - 1
                BY <3>2, <1>8 DEF j
            <4>2. chunk.name = choice.calls[j] /\ chunk.index = j /\ chunk.name # None
                BY <3>2, <4>1, <2>1, <1>4 DEF Chunk
            <4>3. PICK old : old = First(j - 1)
                OBVIOUS
            <4>4. DOMAIN old = 1..(j - 1) /\ \A i \in 1..(j - 1) : old[i] = choice.calls[i]
                BY <4>1, <4>3 DEF First
            <4>5. chunk.index \notin DOMAIN old /\ 1..(j - 1) \cup {j} = 1..j
                BY <4>1, <4>2, <4>4
            <4>6. OpenAICalls(old, chunk)
                    = [i \in 1..j |-> IF i = j THEN choice.calls[j] ELSE old[i]]
                BY <4>2, <4>4, <4>5 DEF OpenAICalls
            <4>7. OpenAICalls(old, chunk) = [i \in 1..j |-> choice.calls[i]]
                BY <4>1, <4>4, <4>6
            <4>8. QED
                BY <4>1, <4>3, <4>7 DEF First
        <3>3. QED
            BY <3>1, <3>2
    <2>6. chunk.usage = None /\ chunk.finish = None /\ chunk.refused = FALSE
        BY <2>1 DEF Chunk
    <2>7. (FALSE \/ chunk.refused) = FALSE
        BY <2>6
    <2>8. PICK old : old = State(n)
        OBVIOUS
    <2>9. ReadChunk(old, chunk) = [usage |-> None, finish |-> None, refused |-> FALSE,
                                   calls |-> OpenAICalls(First((n + 1) \div 2), chunk)]
        BY <2>3, <2>6, <2>7, <2>8 DEF ReadChunk
    <2>10. QED
        BY <2>4, <2>5, <2>8, <2>9
<1>9. CASE n = 2 * k
    <2>1. /\ chunk.usage = None /\ chunk.finish = choice.finish
          /\ chunk.refused = choice.refused /\ chunk.name = None
        BY <1>6, <1>9 DEF OpenAILast, Chunk
    <2>2. /\ ~(n > 2 * k) /\ ~(n > 2 * k + 1) /\ n + 1 > 2 * k /\ ~(n + 1 > 2 * k + 1)
          /\ Named(n) = k /\ Named(n + 1) = k
        BY <1>9
    <2> HIDE DEF Named, First
    <2>3. State(n) = [usage |-> None, finish |-> None, refused |-> FALSE,
                      calls |-> First(k)]
        BY <2>2
    <2>4. State(n + 1) = [usage |-> None, finish |-> choice.finish,
                          refused |-> choice.refused, calls |-> First(k)]
        BY <1>2, <2>2
    <2>5. (FALSE \/ choice.refused) = choice.refused
        BY <1>2
    <2> HIDE DEF State
    <2>6. QED
        BY <2>1, <2>3, <2>4, <2>5 DEF ReadChunk, OpenAICalls
<1>10. CASE n = 2 * k + 1
    <2>1. reply.usage # None
        BY <1>6, <1>10
    <2>2. /\ chunk.usage = reply.usage /\ chunk.finish = None
          /\ chunk.refused = FALSE /\ chunk.name = None
        BY <1>6, <1>10 DEF Chunk
    <2>3. /\ n > 2 * k /\ ~(n > 2 * k + 1) /\ n + 1 > 2 * k /\ n + 1 > 2 * k + 1
          /\ Named(n) = k /\ Named(n + 1) = k
        BY <1>10
    <2> HIDE DEF Named, First
    <2>4. State(n) = [usage |-> None, finish |-> choice.finish,
                      refused |-> choice.refused, calls |-> First(k)]
        BY <1>2, <2>3
    <2>5. State(n + 1) = [usage |-> reply.usage, finish |-> choice.finish,
                          refused |-> choice.refused, calls |-> First(k)]
        BY <1>2, <2>3
    <2>6. (choice.refused \/ FALSE) = choice.refused
        BY <1>2
    <2> HIDE DEF State
    <2>7. QED
        BY <2>1, <2>2, <2>4, <2>5, <2>6 DEF ReadChunk, OpenAICalls
<1>11. n < 2 * k \/ n = 2 * k \/ n = 2 * k + 1
    BY <1>6
<1>12. QED
    BY <1>8, <1>9, <1>10, <1>11

\* A part of the facts of a whole reply.
PartOf(facts, whole) ==
    /\ IsPrefix(facts.calls, whole.calls)
    /\ facts.finish \in {None, whole.finish}
    /\ facts.prompt \in {None, whole.prompt}

\* The first m elements of a sequence are a prefix of it, and all of them are it.
LEMMA PrefixOfSeq ==
    ASSUME NEW S, NEW s \in Seq(S), NEW m \in 0..Len(s)
    PROVE  /\ IsPrefix([i \in 1..m |-> s[i]], s)
           /\ [i \in 1..Len(s) |-> s[i]] = s
<1> DEFINE p == [i \in 1..m |-> s[i]]
<1>1. p \in Seq(S) /\ Len(p) = m /\ \A i \in 1..m : p[i] = s[i]
    OBVIOUS
<1> HIDE DEF p
<1>2. SubSeq(p, 1, m) = SubSeq(s, 1, m)
    BY <1>1
<1>3. QED
    BY <1>1, <1>2 DEF IsPrefix, p

\* Before the first chunk nothing is known of an OpenAI reply.
LEMMA OpenAIStarts ==
    ASSUME NEW reply \in OpenAIReplies, Len(reply.choices) = 1
    PROVE  OpenAISeen(reply, 0) = Unread(reply)
<1>1. PICK k \in Nat : k = Len(reply.choices[1].calls)
    <2>1. reply.choices[1] \in ChoiceRecords
        BY DEF OpenAIReplies
    <2>2. reply.choices[1].calls \in Seq(STRING)
        BY <2>1 DEF ChoiceRecords
    <2>3. QED
        BY <2>2
<1>2. ~(0 > 2 * k) /\ ~(0 > 2 * k + 1) /\ (0 + 1) \div 2 = 0
    OBVIOUS
<1>3. OpenAISeen(reply, 0) = [usage |-> None, finish |-> None, refused |-> FALSE,
                              calls |-> [i \in 1..0 |-> reply.choices[1].calls[i]]]
    BY <1>1, <1>2 DEF OpenAISeen
<1>4. [i \in 1..0 |-> reply.choices[1].calls[i]] = <<>>
    OBVIOUS
<1>5. IsOpenAI(reply)
    BY DEF IsOpenAI, IsResponse, OpenAIReplies
<1>6. QED
    BY <1>3, <1>4, <1>5 DEF Unread

\* What is recorded of an OpenAI reply of one choice that is read whole.
LEMMA OpenAIOfOne ==
    ASSUME NEW reply \in OpenAIReplies, Len(reply.choices) = 1,
           NEW choice, choice = reply.choices[1]
    PROVE  OpenAIFacts(reply) = [OpenAIUsage(reply.usage) EXCEPT !.finish = choice.finish,
                                     !.refused = choice.refused, !.calls = choice.calls]
<1>1. reply.choices \in Seq(ChoiceRecords)
    BY DEF OpenAIReplies
<1>2. choice \in ChoiceRecords /\ DOMAIN reply.choices = {1}
    BY <1>1
<1>3. choice.refused \in BOOLEAN
    BY <1>2 DEF ChoiceRecords
<1>4. Calls(reply) = choice.calls
    BY <1>1, OneChoice
<1>5. Refused(reply) = choice.refused
    BY <1>2, <1>3 DEF Refused
<1>6. PICK reasons : reasons = Reasons(reply)
    OBVIOUS
<1>7. DOMAIN reasons = {1} /\ reasons[1] = choice.finish
    BY <1>2, <1>6 DEF Reasons
<1>8. Range(reasons) = {choice.finish}
    BY <1>7 DEF Range
<1>9. Ending(reasons) = choice.finish
    <2>1. CASE choice.finish = None
        <3>1. Range(reasons) \ {None} = {}
            BY <1>8, <2>1
        <3>2. QED
            BY <2>1, <3>1 DEF Ending
    <2>2. CASE choice.finish # None
        <3>1. Range(reasons) \ {None} = {choice.finish}
            BY <1>8, <2>2
        <3>2. Cardinality({choice.finish}) = 1
            BY FS_Singleton
        <3>3. (CHOOSE reason \in {choice.finish} : TRUE) = choice.finish
            OBVIOUS
        <3>4. {choice.finish} # {}
            OBVIOUS
        <3>5. QED
            BY <3>1, <3>2, <3>3, <3>4 DEF Ending
    <2>3. QED
        BY <2>1, <2>2
<1>10. ~IsResponse(reply)
    BY DEF OpenAIReplies, IsResponse
<1>11. QED
    BY <1>4, <1>5, <1>6, <1>9, <1>10 DEF OpenAIFacts

\* What is recorded of the state after n chunks is a part of the whole reply, and
\* after the last one all of it.
LEMMA OpenAIGathers ==
    ASSUME NEW reply \in OpenAIReplies, Len(reply.choices) = 1,
           NEW n \in 0..Len(OpenAIChunks(reply)),
           NEW facts, facts = OpenAIApply(OpenAISeen(reply, n))
    PROVE  /\ PartOf(facts, OpenAIFacts(reply))
           /\ n = Len(OpenAIChunks(reply)) => facts = OpenAIFacts(reply)
<1>1. PICK choice : choice = reply.choices[1]
    OBVIOUS
<1>2. choice \in ChoiceRecords /\ choice.calls \in Seq(STRING) /\ choice.refused \in BOOLEAN
    <2>1. reply.choices \in Seq(ChoiceRecords)
        BY DEF OpenAIReplies
    <2>2. choice \in ChoiceRecords
        BY <1>1, <2>1
    <2>3. QED
        BY <2>2 DEF ChoiceRecords
<1>3. PICK k \in Nat : k = Len(choice.calls)
    BY <1>2
<1>4. PICK whole : whole = OpenAIFacts(reply)
    OBVIOUS
<1>5. whole = [OpenAIUsage(reply.usage) EXCEPT !.finish = choice.finish,
                  !.refused = choice.refused, !.calls = choice.calls]
    BY <1>1, <1>4, OpenAIOfOne
<1>6. PICK m : m = IF n > 2 * k THEN k ELSE (n + 1) \div 2
    OBVIOUS
<1>7. m \in 0..k
    BY <1>6
<1>8. PICK usage : usage = IF n > 2 * k + 1 THEN reply.usage ELSE None
    OBVIOUS
<1>9. PICK finish : finish = IF n > 2 * k THEN choice.finish ELSE None
    OBVIOUS
<1>10. PICK refused : refused = (n > 2 * k /\ choice.refused)
    OBVIOUS
<1>11. PICK named : named = [i \in 1..m |-> choice.calls[i]]
    OBVIOUS
<1>12. OpenAISeen(reply, n) = [usage |-> usage, finish |-> finish, refused |-> refused,
                               calls |-> named]
    BY <1>1, <1>3, <1>6, <1>8, <1>9, <1>10, <1>11 DEF OpenAISeen
<1>13. facts = [OpenAIUsage(usage) EXCEPT !.finish = finish, !.refused = refused, !.calls = named]
    BY <1>12 DEF OpenAIApply
<1>14. PartOf(facts, whole)
    <2>1. IsPrefix(named, choice.calls)
        BY <1>2, <1>3, <1>7, <1>11, PrefixOfSeq
    <2>2. usage \in {None, reply.usage} /\ finish \in {None, choice.finish}
        BY <1>8, <1>9
    <2>3. OpenAIUsage(usage).prompt \in {None, OpenAIUsage(reply.usage).prompt}
        BY <2>2 DEF OpenAIUsage, NoFacts, Facts
    <2>4. /\ facts.calls = named /\ facts.finish = finish
          /\ facts.prompt = OpenAIUsage(usage).prompt
        BY <1>13 DEF OpenAIUsage, NoFacts, Facts
    <2>5. /\ whole.calls = choice.calls /\ whole.finish = choice.finish
          /\ whole.prompt = OpenAIUsage(reply.usage).prompt
        BY <1>5 DEF OpenAIUsage, NoFacts, Facts
    <2>6. QED
        BY <2>1, <2>2, <2>3, <2>4, <2>5 DEF PartOf
<1>15. ASSUME n = Len(OpenAIChunks(reply))
       PROVE  facts = whole
    <2>1. PICK chunks : chunks = OpenAIChunks(reply)
        OBVIOUS
    <2>2. OpenAIStreams(reply.usage, choice, k, chunks)
        BY <1>1, <1>3, <2>1, OpenAIChunksOfOne
    <2>3. n = IF reply.usage = None THEN 2 * k + 1 ELSE 2 * k + 2
        BY <1>15, <2>1, <2>2 DEF OpenAIStreams
    <2>4. n > 2 * k /\ (n > 2 * k + 1 \/ reply.usage = None)
        BY <2>3
    <2>5. usage = reply.usage /\ finish = choice.finish /\ m = k
        BY <1>6, <1>8, <1>9, <2>4
    <2>6. refused = choice.refused
        BY <1>2, <1>10, <2>4
    <2>7. named = choice.calls
        BY <1>2, <1>3, <1>7, <1>11, <2>5, PrefixOfSeq
    <2>8. QED
        BY <1>5, <1>13, <2>5, <2>6, <2>7
<1>16. QED
    BY <1>4, <1>14, <1>15

\* The events of an Anthropic reply with k calls.
AnthropicStreams(reply, choice, k, events) ==
    /\ Len(events) = k + 2
    /\ events[1] = MessageStart(reply)
    /\ \A j \in 1..k : events[j + 1] = ToolUse(choice, j)
    /\ events[k + 2] = MessageDelta(reply)

\* Its choice, and the names of its calls.
LEMMA AnthropicChoice ==
    ASSUME NEW reply \in AnthropicReplies, NEW choice, choice = reply.choices[1]
    PROVE  /\ reply.choices \in Seq(ChoiceRecords) /\ Len(reply.choices) = 1
           /\ choice \in ChoiceRecords /\ choice.calls \in Seq(STRING)
           /\ \A j \in 1..Len(choice.calls) : choice.calls[j] # None
           /\ Calls(reply) = choice.calls
           /\ ~IsOpenAI(reply)
<1>1. reply.choices \in [1..1 -> ChoiceRecords]
    BY DEF AnthropicReplies
<1>2. reply.choices \in Seq(ChoiceRecords) /\ Len(reply.choices) = 1
    <2>1. choice \in ChoiceRecords /\ reply.choices = <<choice>>
        BY <1>1
    <2>2. QED
        BY <2>1
<1>3. choice \in ChoiceRecords
    BY <1>1
<1>4. choice.calls \in Seq(STRING)
    BY <1>3 DEF ChoiceRecords
<1>5. \A j \in 1..Len(choice.calls) : choice.calls[j] # None
    BY <1>4, AnswersAssumption
<1>6. Calls(reply) = choice.calls
    BY <1>2, OneChoice
<1>7. ~IsOpenAI(reply)
    BY DEF AnthropicReplies, IsOpenAI, IsResponse
<1>8. QED
    BY <1>2, <1>3, <1>4, <1>5, <1>6, <1>7

\* They are what AnthropicEvents says.
LEMMA AnthropicEventsOfOne ==
    ASSUME NEW reply \in AnthropicReplies, NEW choice, choice = reply.choices[1],
           NEW k \in Nat, k = Len(choice.calls)
    PROVE  AnthropicStreams(reply, choice, k, AnthropicEvents(reply))
<1>1. PICK start : start = MessageStart(reply)
    OBVIOUS
<1>2. PICK last : last = MessageDelta(reply)
    OBVIOUS
<1>3. choice.calls \in Seq(STRING)
    BY AnthropicChoice
<1>4. DOMAIN choice.calls = 1..k
    BY <1>3
<1>5. PICK uses : uses = [j \in 1..k |-> ToolUse(choice, j)]
    OBVIOUS
<1>6. PICK E : E = {ToolUse(choice, j) : j \in 1..k} \cup {start, last}
    OBVIOUS
<1>7. /\ uses \in Seq(E) /\ Len(uses) = k
      /\ \A j \in 1..k : uses[j] = ToolUse(choice, j)
    BY <1>5, <1>6
<1>8. start \in E /\ last \in E
    BY <1>6
<1>9. PICK first : first = <<start>> \o uses
    OBVIOUS
<1>10. /\ first \in Seq(E) /\ Len(first) = k + 1 /\ first[1] = start
       /\ \A j \in 1..k : first[j + 1] = ToolUse(choice, j)
    BY <1>7, <1>8, <1>9, SMTT(30)
<1>11. AnthropicEvents(reply) = first \o <<last>>
    BY <1>1, <1>2, <1>4, <1>5, <1>9 DEF AnthropicEvents
<1>12. PICK events : events = first \o <<last>>
    OBVIOUS
<1>13. /\ Len(events) = k + 2 /\ events[k + 2] = last
       /\ \A i \in 1..(k + 1) : events[i] = first[i]
    BY <1>8, <1>10, <1>12, SMTT(30)
<1>14. QED
    BY <1>1, <1>2, <1>10, <1>11, <1>12, <1>13 DEF AnthropicStreams

\* None comes out of FinishReason only if it goes in.
LEMMA NoReason == FinishReason(None) = None
<1>1. /\ None # "end_turn" /\ None # "stop_sequence" /\ None # "max_tokens"
      /\ None # "tool_use" /\ None # "refusal"
    BY AnswersAssumption DEF StopReasons
<1>2. QED
    BY <1>1 DEF FinishReason

\* Before the first event nothing is known of an Anthropic reply.
LEMMA AnthropicStarts ==
    ASSUME NEW reply \in AnthropicReplies
    PROVE  AnthropicSeen(reply, 0) = Unread(reply)
<1>1. PICK k \in Nat : k = Len(reply.choices[1].calls)
    <2>1. reply.choices[1].calls \in Seq(STRING)
        BY AnthropicChoice
    <2>2. QED
        BY <2>1
<1>2. ~(0 > k + 1)
    OBVIOUS
<1>3. AnthropicSeen(reply, 0) =
        [usage |-> [x \in DOMAIN reply.usage |-> None], finish |-> None, refused |-> FALSE,
         calls |-> [i \in 1..0 |-> reply.choices[1].calls[i]]]
    BY <1>1, <1>2 DEF AnthropicSeen
<1>4. [i \in 1..0 |-> reply.choices[1].calls[i]] = <<>>
    OBVIOUS
<1>5. ~IsOpenAI(reply)
    BY DEF IsOpenAI, IsResponse, AnthropicReplies
<1>6. QED
    BY <1>3, <1>4, <1>5 DEF Unread

\* Each event of an Anthropic reply takes the state to the next one.
LEMMA AnthropicObserved ==
    ASSUME NEW reply \in AnthropicReplies,
           NEW n \in Nat, n < Len(AnthropicEvents(reply))
    PROVE  AnthropicObserve(AnthropicSeen(reply, n), AnthropicEvents(reply)[n+1])
               = AnthropicSeen(reply, n + 1)
<1>1. PICK choice : choice = reply.choices[1]
    OBVIOUS
<1>2. choice \in ChoiceRecords /\ choice.calls \in Seq(STRING)
    BY <1>1, AnthropicChoice
<1>3. PICK k \in Nat : k = Len(choice.calls)
    BY <1>2
<1>4. \A j \in 1..k : choice.calls[j] # None
    BY <1>1, <1>3, AnthropicChoice
<1>5. PICK event : event = AnthropicEvents(reply)[n+1]
    OBVIOUS
<1>6. PICK usage \in AnthropicUsages : usage = reply.usage /\ usage.out # None
    BY DEF AnthropicReplies
<1> DEFINE first == [usage EXCEPT !.out = 1]
           final == [fresh |-> None, read |-> None, write |-> None, out |-> usage.out]
           none == [fresh |-> None, read |-> None, write |-> None, out |-> None]
           Named(m) == IF m = 0 THEN 0 ELSE IF m > k + 1 THEN k ELSE m - 1
           First(m) == [i \in 1..m |-> choice.calls[i]]
           Usage(m) == IF m > k + 1 THEN usage ELSE IF m = 0 THEN none ELSE first
           State(m) == [usage |-> Usage(m),
                        finish |-> IF m > k + 1 THEN choice.finish ELSE None,
                        refused |-> FALSE,
                        calls |-> First(Named(m))]
<1>7. /\ first \in AnthropicUsages /\ final \in AnthropicUsages /\ none \in AnthropicUsages
      /\ first # None /\ final # None
    <2>1. /\ first \in AnthropicUsages /\ final \in AnthropicUsages /\ none \in AnthropicUsages
        BY <1>6 DEF AnthropicUsages, Counts
    <2>2. QED
        BY <2>1, AnswersAssumption
<1>8. /\ MergeUsage(none, first) = first
      /\ MergeUsage(first, final) = usage
    BY <1>6, <1>7, StreamsAssumption DEF MergeUsage, AnthropicUsages
<1>9. /\ n < k + 2
      /\ n = 0 => event = MessageStart(reply)
      /\ n \in 1..k => event = ToolUse(choice, n)
      /\ n = k + 1 => event = MessageDelta(reply)
    <2>1. PICK events : events = AnthropicEvents(reply)
        OBVIOUS
    <2>2. AnthropicStreams(reply, choice, k, events)
        BY <1>1, <1>3, <2>1, AnthropicEventsOfOne
    <2>3. n < Len(events) /\ event = events[n + 1]
        BY <1>5, <2>1
    <2>4. QED
        BY <2>2, <2>3 DEF AnthropicStreams
<1>10. \A m : AnthropicSeen(reply, m) = State(m)
    <2> TAKE m
    <2>1. [x \in DOMAIN reply.usage |-> IF m > k + 1 THEN reply.usage[x]
                     ELSE IF m = 0 THEN None
                     ELSE IF x = "out" THEN 1 ELSE reply.usage[x]] = Usage(m)
        BY <1>6 DEF AnthropicUsages
    <2>2. QED
        BY <1>1, <1>3, <2>1 DEF AnthropicSeen
<1> HIDE DEF first, final, none
<1> SUFFICES AnthropicObserve(State(n), event) = State(n + 1)
    BY <1>5, <1>10
<1>11. CASE n = 0
    <2>1. event.usage = first /\ event.finish = None /\ event.name = None
        BY <1>6, <1>9, <1>11 DEF MessageStart, Chunk, first
    <2>2. /\ ~(n > k + 1) /\ ~(n + 1 > k + 1) /\ n + 1 # 0
          /\ Named(n) = 0 /\ Named(n + 1) = 0
        BY <1>11
    <2> HIDE DEF Named, First
    <2>3. State(n) = [usage |-> none, finish |-> None, refused |-> FALSE, calls |-> First(0)]
        BY <1>11, <2>2
    <2>4. State(n + 1) = [usage |-> first, finish |-> None, refused |-> FALSE, calls |-> First(0)]
        BY <2>2
    <2> HIDE DEF State
    <2>5. QED
        BY <1>8, <2>1, <2>3, <2>4 DEF AnthropicObserve
<1>12. CASE n \in 1..k
    <2>1. event.usage = None /\ event.finish = None /\ event.name = choice.calls[n]
        BY <1>9, <1>12 DEF ToolUse, Chunk
    <2>2. /\ ~(n > k + 1) /\ ~(n + 1 > k + 1) /\ n # 0 /\ n + 1 # 0
          /\ Named(n) = n - 1 /\ Named(n + 1) = n
        BY <1>12
    <2>3. Append(First(n - 1), choice.calls[n]) = First(n)
        <3>1. First(n - 1) \in Seq(STRING) /\ First(n) \in Seq(STRING) /\ choice.calls[n] \in STRING
            <4>1. \A i \in 1..n : choice.calls[i] \in STRING
                BY <1>2, <1>3, <1>12
            <4>2. n \in Nat /\ n - 1 \in Nat /\ n \in 1..n
                BY <1>12
            <4>3. QED
                BY <4>1, <4>2
        <3>2. /\ Len(First(n - 1)) = n - 1 /\ Len(First(n)) = n
              /\ \A i \in 1..n - 1 : First(n - 1)[i] = choice.calls[i]
              /\ \A i \in 1..n : First(n)[i] = choice.calls[i]
            BY <1>12
        <3> HIDE DEF First
        <3>3. QED
            BY <1>12, <3>1, <3>2
    <2>4. choice.calls[n] # None
        BY <1>4, <1>12
    <2> HIDE DEF Named, First
    <2>5. State(n) = [usage |-> first, finish |-> None, refused |-> FALSE, calls |-> First(n - 1)]
        BY <2>2
    <2>6. State(n + 1) = [usage |-> first, finish |-> None, refused |-> FALSE, calls |-> First(n)]
        BY <2>2
    <2>7. MergeUsage(first, None) = first
        BY DEF MergeUsage
    <2>8. PICK old : old = State(n)
        OBVIOUS
    <2> HIDE DEF State
    <2>9. AnthropicObserve(old, event) = [usage |-> first, finish |-> None, refused |-> FALSE,
                                          calls |-> First(n)]
        <3>1. MergeUsage(old.usage, event.usage) = first
            BY <2>1, <2>5, <2>7, <2>8
        <3>2. (IF event.finish = None THEN old.finish ELSE event.finish) = None
            BY <2>1, <2>5, <2>8
        <3>3. (IF event.name = None THEN old.calls ELSE Append(old.calls, event.name)) = First(n)
            BY <2>1, <2>3, <2>4, <2>5, <2>8
        <3>4. QED
            BY <3>1, <3>2, <3>3 DEF AnthropicObserve
    <2>10. QED
        BY <2>6, <2>8, <2>9
<1>13. CASE n = k + 1
    <2>1. event.usage = final /\ event.finish = choice.finish /\ event.name = None
        BY <1>1, <1>6, <1>9, <1>13 DEF MessageDelta, Chunk, final
    <2>2. /\ ~(n > k + 1) /\ n + 1 > k + 1 /\ n # 0
          /\ Named(n) = k /\ Named(n + 1) = k
        BY <1>13
    <2> HIDE DEF Named, First
    <2>3. State(n) = [usage |-> first, finish |-> None, refused |-> FALSE, calls |-> First(k)]
        BY <2>2
    <2>4. State(n + 1) = [usage |-> usage, finish |-> choice.finish, refused |-> FALSE,
                          calls |-> First(k)]
        BY <2>2
    <2>5. PICK old : old = State(n)
        OBVIOUS
    <2> HIDE DEF State
    <2>6. AnthropicObserve(old, event) = [usage |-> usage, finish |-> choice.finish,
                                          refused |-> FALSE, calls |-> First(k)]
        <3>1. MergeUsage(old.usage, event.usage) = usage
            BY <1>8, <2>1, <2>3, <2>5
        <3>2. (IF event.finish = None THEN old.finish ELSE event.finish) = choice.finish
            BY <2>1, <2>3, <2>5
        <3>3. (IF event.name = None THEN old.calls ELSE Append(old.calls, event.name)) = First(k)
            BY <2>1, <2>3, <2>5
        <3>4. QED
            BY <3>1, <3>2, <3>3 DEF AnthropicObserve
    <2>7. QED
        BY <2>4, <2>5, <2>6
<1>14. n = 0 \/ n \in 1..k \/ n = k + 1
    BY <1>9
<1>15. QED
    BY <1>11, <1>12, <1>13, <1>14

\* What is recorded of the state after n events is a part of the whole reply, and
\* after the last one all of it, but for a refusal; the snapshot tells that too.
LEMMA AnthropicGathers ==
    ASSUME NEW reply \in AnthropicReplies,
           NEW n \in 0..Len(AnthropicEvents(reply)),
           NEW facts, facts = AnthropicApply(AnthropicSeen(reply, n)),
           NEW snapshot, snapshot = Snapshot(AnthropicSeen(reply, n), n)
    PROVE  /\ PartOf(facts, AnthropicFacts(reply))
           /\ n # 0 => PartOf(snapshot, AnthropicFacts(reply))
           /\ n = 0 => snapshot = NoFacts
           /\ n = Len(AnthropicEvents(reply)) =>
                /\ n # 0
                /\ snapshot = AnthropicFacts(reply)
                /\ reply.choices[1].finish # "refusal" => facts = AnthropicFacts(reply)
<1>1. PICK choice : choice = reply.choices[1]
    OBVIOUS
<1>2. choice \in ChoiceRecords /\ choice.calls \in Seq(STRING) /\ Calls(reply) = choice.calls
    BY <1>1, AnthropicChoice
<1>3. PICK k \in Nat : k = Len(choice.calls)
    BY <1>2
<1>4. PICK whole : whole = AnthropicFacts(reply)
    OBVIOUS
<1>5. whole = [AnthropicUsage(reply.usage) EXCEPT !.finish = FinishReason(choice.finish),
                  !.refused = (choice.finish = "refusal"), !.calls = choice.calls]
    BY <1>1, <1>2, <1>4 DEF AnthropicFacts
<1>6. n \in 0..(k + 2) /\ Len(AnthropicEvents(reply)) = k + 2
    <2>1. AnthropicStreams(reply, choice, k, AnthropicEvents(reply))
        BY <1>1, <1>3, AnthropicEventsOfOne
    <2>2. QED
        BY <2>1 DEF AnthropicStreams
<1>7. PICK m : m = IF n = 0 THEN 0 ELSE IF n > k + 1 THEN k ELSE n - 1
    OBVIOUS
<1>8. m \in 0..k
    BY <1>6, <1>7
<1>9. PICK usage : usage = [x \in DOMAIN reply.usage |->
                     IF n > k + 1 THEN reply.usage[x]
                     ELSE IF n = 0 THEN None
                     ELSE IF x = "out" THEN 1 ELSE reply.usage[x]]
    OBVIOUS
<1>10. PICK finish : finish = IF n > k + 1 THEN choice.finish ELSE None
    OBVIOUS
<1>11. PICK named : named = [i \in 1..m |-> choice.calls[i]]
    OBVIOUS
<1>12. PICK state : state = AnthropicSeen(reply, n)
    OBVIOUS
<1>13. state = [usage |-> usage, finish |-> finish, refused |-> FALSE, calls |-> named]
    BY <1>1, <1>3, <1>7, <1>9, <1>10, <1>11, <1>12 DEF AnthropicSeen
<1>14. facts = [AnthropicUsage(usage) EXCEPT !.finish = FinishReason(finish), !.calls = named]
    BY <1>12, <1>13 DEF AnthropicApply
<1>15. n # 0 => snapshot = [facts EXCEPT !.refused = (finish = "refusal")]
    BY <1>12, <1>13 DEF Snapshot
<1>16. n = 0 => snapshot = NoFacts
    BY DEF Snapshot
<1>17. PartOf(facts, whole)
    <2>1. IsPrefix(named, choice.calls)
        BY <1>2, <1>3, <1>8, <1>11, PrefixOfSeq
    <2>2. FinishReason(finish) \in {None, FinishReason(choice.finish)}
        BY <1>10, NoReason
    <2>3. AnthropicUsage(usage).prompt \in {None, AnthropicUsage(reply.usage).prompt}
        <3>1. usage.fresh = None \/ /\ usage.fresh = reply.usage.fresh
                                    /\ usage.read = reply.usage.read
                                    /\ usage.write = reply.usage.write
            BY <1>9 DEF AnthropicReplies, AnthropicUsages
        <3>2. QED
            BY <3>1 DEF AnthropicUsage, NoFacts, Facts
    <2>4. /\ facts.calls = named /\ facts.finish = FinishReason(finish)
          /\ facts.prompt = AnthropicUsage(usage).prompt
        BY <1>14 DEF AnthropicUsage, NoFacts, Facts
    <2>5. /\ whole.calls = choice.calls /\ whole.finish = FinishReason(choice.finish)
          /\ whole.prompt = AnthropicUsage(reply.usage).prompt
        BY <1>5 DEF AnthropicUsage, NoFacts, Facts
    <2>6. QED
        BY <2>1, <2>2, <2>3, <2>4, <2>5 DEF PartOf
<1>18. n # 0 => PartOf(snapshot, whole)
    <2>1. n # 0 => /\ snapshot.calls = facts.calls /\ snapshot.finish = facts.finish
                   /\ snapshot.prompt = facts.prompt
        BY <1>14, <1>15 DEF AnthropicUsage, NoFacts, Facts
    <2>2. QED
        BY <1>17, <2>1 DEF PartOf
<1>19. ASSUME n = Len(AnthropicEvents(reply))
       PROVE  /\ n # 0 /\ snapshot = whole
              /\ choice.finish # "refusal" => facts = whole
    <2>1. n > k + 1 /\ n # 0
        BY <1>6, <1>19
    <2>2. finish = choice.finish /\ m = k
        BY <1>7, <1>10, <2>1
    <2>3. usage = reply.usage
        BY <1>9, <2>1 DEF AnthropicReplies, AnthropicUsages
    <2>4. named = choice.calls
        BY <1>2, <1>3, <1>8, <1>11, <2>2, PrefixOfSeq
    <2>5. snapshot = whole
        BY <1>5, <1>14, <1>15, <2>1, <2>2, <2>3, <2>4 DEF AnthropicUsage, NoFacts, Facts
    <2>6. ASSUME choice.finish # "refusal"
          PROVE  facts = whole
        <3>1. (choice.finish = "refusal") = FALSE
            BY <2>6
        <3>2. QED
            BY <1>5, <1>14, <2>2, <2>3, <2>4, <3>1 DEF AnthropicUsage, NoFacts, Facts
    <2>7. QED
        BY <2>1, <2>5, <2>6
<1>20. QED
    BY <1>1, <1>4, <1>16, <1>17, <1>18, <1>19

\* A chunk that OpenAIObserve finds nothing in.
Silent(chunk) ==
    /\ chunk.type # "response.completed"
    /\ chunk.usage = None /\ chunk.finish = None
    /\ chunk.refused = FALSE /\ chunk.name = None

\* The events of a Responses API reply with k calls: all but the last are silent.
ResponseStreams(reply, k, events) ==
    /\ Len(events) = k + 2
    /\ \A i \in 1..k + 1 : Silent(events[i])
    /\ events[k + 2] = ResponseEvent(ResponseEnd(reply.status), reply)

\* They are what ResponseEvents says.
LEMMA ResponseEventsOf ==
    ASSUME NEW reply \in ResponsesReplies, NEW k \in Nat, k = Len(reply.calls)
    PROVE  ResponseStreams(reply, k, ResponseEvents(reply))
<1>1. PICK start : start = ResponseEvent("response.created",
                    [reply EXCEPT !.status = "in_progress", !.usage = None, !.calls = <<>>])
    OBVIOUS
<1>2. PICK last : last = ResponseEvent(ResponseEnd(reply.status), reply)
    OBVIOUS
<1>3. PICK item : item = [Chunk EXCEPT !.type = "response.output_item.added"]
    OBVIOUS
<1>4. DOMAIN reply.calls = 1..k
    BY DEF ResponsesReplies
<1>5. PICK items : items = [j \in 1..k |-> item]
    OBVIOUS
<1>6. PICK E : E = {start, item, last}
    OBVIOUS
<1>7. items \in Seq(E) /\ Len(items) = k /\ \A j \in 1..k : items[j] = item
    BY <1>5, <1>6
<1>8. start \in E /\ last \in E
    BY <1>6
<1>9. PICK first : first = <<start>> \o items
    OBVIOUS
<1>10. /\ first \in Seq(E) /\ Len(first) = k + 1
       /\ \A i \in 1..(k + 1) : first[i] \in {start, item}
    <2>1. /\ first \in Seq(E) /\ Len(first) = k + 1 /\ first[1] = start
          /\ \A j \in 1..k : first[j + 1] = item
        BY <1>7, <1>8, <1>9, SMTT(30)
    <2>2. ASSUME NEW i \in 1..(k + 1)
          PROVE  first[i] \in {start, item}
        <3>1. CASE i = 1
            BY <2>1, <3>1
        <3>2. CASE i # 1
            <4>1. i - 1 \in 1..k /\ (i - 1) + 1 = i
                BY <3>2
            <4>2. QED
                BY <2>1, <4>1
        <3>3. QED
            BY <3>1, <3>2
    <2>3. QED
        BY <2>1, <2>2
<1>11. ResponseEvents(reply) = first \o <<last>>
    BY <1>1, <1>2, <1>3, <1>4, <1>5, <1>9 DEF ResponseEvents
<1>12. PICK events : events = first \o <<last>>
    OBVIOUS
<1>13. /\ Len(events) = k + 2 /\ events[k + 2] = last
       /\ \A i \in 1..(k + 1) : events[i] = first[i]
    BY <1>8, <1>10, <1>12, SMTT(30)
<1>14. Silent(start) /\ Silent(item)
    <2>1. Silent(start)
        BY <1>1 DEF Silent, ResponseEvent, Chunk
    <2>2. Silent(item)
        BY <1>3 DEF Silent, Chunk
    <2>3. QED
        BY <2>1, <2>2
<1>15. \A i \in 1..(k + 1) : Silent(events[i])
    BY <1>10, <1>13, <1>14
<1>16. QED
    BY <1>2, <1>11, <1>12, <1>13, <1>15 DEF ResponseStreams

\* Nothing is known of a Responses API reply before its last event, and that tells
\* all of it if the reply is complete, and nothing if not.
LEMMA ResponseObserved ==
    ASSUME NEW reply \in ResponsesReplies,
           NEW n \in Nat, n < Len(ResponseEvents(reply))
    PROVE  OpenAIObserve(ResponseSeen(reply, n), ResponseEvents(reply)[n + 1])
               = ResponseSeen(reply, n + 1)
<1>1. PICK k \in Nat : k = Len(reply.calls)
    BY DEF ResponsesReplies
<1>2. PICK events : events = ResponseEvents(reply)
    OBVIOUS
<1>3. ResponseStreams(reply, k, events)
    BY <1>1, <1>2, ResponseEventsOf
<1>4. n < k + 2
    BY <1>2, <1>3 DEF ResponseStreams
<1>5. PICK chunk : chunk = events[n + 1]
    OBVIOUS
<1>6. PICK blank : blank = [usage |-> None, finish |-> None, refused |-> FALSE, calls |-> <<>>]
    OBVIOUS
<1>7. Unread(reply) = blank
    BY <1>6 DEF Unread, IsOpenAI, IsResponse, ResponsesReplies
<1>8. ResponseSeen(reply, n) = blank
    BY <1>1, <1>4, <1>7 DEF ResponseSeen
<1>9. chunk.usage = None /\ chunk.finish = None /\ chunk.refused = FALSE /\ chunk.name = None
    <2>1. CASE n < k + 1
        <3>1. n + 1 \in 1..k + 1
            BY <2>1
        <3>2. QED
            BY <1>3, <1>5, <3>1 DEF ResponseStreams, Silent
    <2>2. CASE n = k + 1
        <3>1. chunk = ResponseEvent(ResponseEnd(reply.status), reply)
            BY <1>3, <1>5, <2>2 DEF ResponseStreams
        <3>2. QED
            BY <3>1 DEF ResponseEvent, Chunk
    <2>3. n < k + 1 \/ n = k + 1
        BY <1>4
    <2>4. QED
        BY <2>1, <2>2, <2>3
<1>10. ReadChunk(blank, chunk) = blank
    <2>1. (FALSE \/ chunk.refused) = FALSE
        BY <1>9
    <2>2. QED
        BY <1>6, <1>9, <2>1 DEF ReadChunk, OpenAICalls
<1>11. CASE chunk.type # "response.completed"
    <2>1. OpenAIObserve(blank, chunk) = blank
        BY <1>10, <1>11 DEF OpenAIObserve
    <2>2. ResponseSeen(reply, n + 1) = blank
        <3>1. CASE n + 1 # k + 2
            BY <1>1, <1>7, <3>1 DEF ResponseSeen
        <3>2. CASE n + 1 = k + 2
            <4>1. chunk = ResponseEvent(ResponseEnd(reply.status), reply)
                BY <1>3, <1>5, <3>2 DEF ResponseStreams
            <4>2. chunk.type = ResponseEnd(reply.status)
                BY <4>1 DEF ResponseEvent, Chunk
            <4>3. reply.status # "completed"
                BY <1>11, <4>2 DEF ResponseEnd
            <4>4. QED
                BY <1>7, <4>3 DEF ResponseSeen
        <3>3. QED
            BY <3>1, <3>2
    <2>3. QED
        BY <1>2, <1>5, <1>8, <2>1, <2>2
<1>12. CASE chunk.type = "response.completed"
    <2>1. n + 1 = k + 2
        <3>1. ASSUME n < k + 1
              PROVE  FALSE
            <4>1. n + 1 \in 1..k + 1
                BY <3>1
            <4>2. QED
                BY <1>3, <1>5, <1>12, <4>1 DEF ResponseStreams, Silent
        <3>2. QED
            BY <1>4, <3>1
    <2>2. chunk = ResponseEvent(ResponseEnd(reply.status), reply)
        BY <1>3, <1>5, <2>1 DEF ResponseStreams
    <2>3. chunk.type = ResponseEnd(reply.status) /\ chunk.response = reply
        BY <2>2 DEF ResponseEvent, Chunk
    <2>4. reply.status = "completed"
        <3>1. "response.incomplete" # "response.completed"
            OBVIOUS
        <3>2. "response.failed" # "response.completed"
            OBVIOUS
        <3>3. QED
            BY <1>12, <2>3, <3>1, <3>2 DEF ResponseEnd
    <2>5. StatusReason(reply) = "stop" /\ reply.status # None
        BY <2>4, AnswersAssumption DEF StatusReason
    <2>6. reply.refused \in BOOLEAN
        BY DEF ResponsesReplies
    <2>7. (FALSE \/ reply.refused) = reply.refused
        BY <2>6
    <2>8. CollectResponse(blank, reply)
            = [usage |-> None, finish |-> "stop", refused |-> reply.refused,
               calls |-> reply.calls]
        <3>1. (IF reply.calls = <<>> THEN blank.calls ELSE reply.calls) = reply.calls
            BY <1>6
        <3>2. (blank.refused \/ reply.refused) = reply.refused
            BY <1>6, <2>7
        <3>3. CollectResponse(blank, reply)
                = [[[blank EXCEPT !.finish = "stop"] EXCEPT !.refused = reply.refused]
                    EXCEPT !.calls = reply.calls]
            BY <2>5, <3>1, <3>2 DEF CollectResponse
        <3>4. QED
            BY <1>6, <3>3
    <2>9. OpenAIObserve(blank, chunk)
            = [CollectResponse(blank, reply) EXCEPT
                 !.usage = IF reply.usage = None THEN @ ELSE reply.usage]
        BY <1>10, <1>12, <2>3 DEF OpenAIObserve
    <2>10. OpenAIObserve(blank, chunk)
            = [usage |-> reply.usage, finish |-> "stop", refused |-> reply.refused,
               calls |-> reply.calls]
        BY <2>8, <2>9
    <2>11. ResponseSeen(reply, n + 1)
            = [usage |-> reply.usage, finish |-> "stop", refused |-> reply.refused,
               calls |-> reply.calls]
        BY <1>1, <2>1, <2>4 DEF ResponseSeen
    <2>12. QED
        BY <1>2, <1>5, <1>8, <2>10, <2>11
<1>13. QED
    BY <1>11, <1>12

\* Of a complete reply of the Responses API nothing is recorded before the end, and
\* then all of it.
LEMMA ResponseGathers ==
    ASSUME NEW reply \in ResponsesReplies, reply.status = "completed",
           NEW n \in 0..Len(ResponseEvents(reply)),
           NEW facts, facts = OpenAIApply(ResponseSeen(reply, n))
    PROVE  /\ PartOf(facts, OpenAIFacts(reply))
           /\ n = Len(ResponseEvents(reply)) => facts = OpenAIFacts(reply)
<1>1. PICK k \in Nat : k = Len(reply.calls)
    BY DEF ResponsesReplies
<1>2. Len(ResponseEvents(reply)) = k + 2
    BY <1>1, ResponseEventsOf DEF ResponseStreams
<1>3. reply.calls \in Seq(STRING) /\ reply.refused \in BOOLEAN
    BY DEF ResponsesReplies
<1>4. PICK whole : whole = OpenAIFacts(reply)
    OBVIOUS
<1>5. whole = [OpenAIUsage(reply.usage) EXCEPT !.finish = "stop",
                  !.refused = reply.refused, !.calls = reply.calls]
    <2>1. StatusReason(reply) = "stop" /\ reply.status # None
        BY AnswersAssumption DEF StatusReason
    <2>2. PICK told : told = OpenAIUsage(reply.usage)
        OBVIOUS
    <2>3. /\ DOMAIN told = DOMAIN NoFacts
          /\ told.refused = FALSE /\ told.calls = <<>>
        BY <2>2 DEF OpenAIUsage, NoFacts, Facts
    <2>4. (FALSE \/ reply.refused) = reply.refused
        BY <1>3
    <2>5. IsResponse(reply)
        BY DEF ResponsesReplies, IsResponse
    <2>6. whole = CollectResponse(told, reply)
        BY <1>4, <2>2, <2>5 DEF OpenAIFacts
    <2>7. CollectResponse(told, reply) = [told EXCEPT !.finish = "stop",
                  !.refused = reply.refused, !.calls = reply.calls]
        BY <2>1, <2>3, <2>4 DEF CollectResponse
    <2>8. QED
        BY <2>2, <2>6, <2>7
<1>6. CASE n = k + 2
    <2>1. PICK state : state = [usage |-> reply.usage, finish |-> "stop",
                                refused |-> reply.refused, calls |-> reply.calls]
        OBVIOUS
    <2>2. facts = OpenAIApply(state)
        BY <1>1, <1>6, <2>1 DEF ResponseSeen
    <2>3. facts = whole
        BY <1>5, <2>1, <2>2 DEF OpenAIApply
    <2>4. PartOf(whole, whole)
        <3>1. whole.calls = reply.calls
            BY <1>5 DEF OpenAIUsage, NoFacts, Facts
        <3>2. IsPrefix(reply.calls, reply.calls)
            <4>1. Len(reply.calls) \in 0..Len(reply.calls)
                BY <1>3
            <4>2. QED
                BY <1>3, <4>1, PrefixOfSeq
        <3>3. QED
            BY <3>1, <3>2 DEF PartOf
    <2>5. QED
        BY <1>4, <2>3, <2>4
<1>7. CASE n # k + 2
    <2>1. Unread(reply) = [usage |-> None, finish |-> None, refused |-> FALSE, calls |-> <<>>]
        BY DEF Unread, IsOpenAI, IsResponse, ResponsesReplies
    <2>2. facts = OpenAIApply(Unread(reply))
        BY <1>1, <1>7 DEF ResponseSeen
    <2>3. facts.calls = <<>> /\ facts.finish = None /\ facts.prompt = None
        <3>1. PICK blank : blank = Unread(reply)
            OBVIOUS
        <3>2. blank = [usage |-> None, finish |-> None, refused |-> FALSE, calls |-> <<>>]
            BY <2>1, <3>1
        <3>3. facts = [[[NoFacts EXCEPT !.finish = None] EXCEPT !.refused = FALSE]
                         EXCEPT !.calls = <<>>]
            BY <2>2, <3>1, <3>2 DEF OpenAIApply, OpenAIUsage
        <3>4. QED
            BY <3>3 DEF NoFacts, Facts
    <2>4. whole.calls = reply.calls
        BY <1>5 DEF OpenAIUsage, NoFacts, Facts
    <2>5. IsPrefix(<<>>, reply.calls)
        <3>1. [i \in 1..0 |-> reply.calls[i]] = <<>> /\ 0 \in 0..Len(reply.calls)
            BY <1>3
        <3>2. QED
            BY <1>3, <3>1, PrefixOfSeq
    <2>6. QED
        BY <1>2, <1>4, <1>7, <2>3, <2>4, <2>5 DEF PartOf
<1>8. QED
    BY <1>6, <1>7

\* Whatever the provider, each chunk takes what is gathered to what is gathered of
\* one chunk more.
LEMMA SeenGathers ==
    ASSUME NEW reply \in Answers, Single(reply),
           NEW n \in Nat
    PROVE  /\ n = 0 => Seen(reply, n) = Unread(reply)
           /\ n < Len(Chunks(reply))
                => Observe(reply, Seen(reply, n), Chunks(reply)[n + 1]) = Seen(reply, n + 1)
           /\ Len(Chunks(reply)) \in Nat
<1>1. \/ reply \in OpenAIReplies \/ reply \in ResponsesReplies
      \/ reply \in AnthropicReplies
    BY AnswersAssumption
<1>2. CASE reply \in OpenAIReplies
    <2>1. IsOpenAI(reply) /\ ~IsResponse(reply) /\ reply.provider = "openai"
        BY <1>2 DEF IsOpenAI, IsResponse, OpenAIReplies
    <2>4. Len(reply.choices) = 1
        BY <2>1 DEF Single
    <2>2. Len(OpenAIChunks(reply)) \in Nat
        <3>1. PICK choice : choice = reply.choices[1]
            OBVIOUS
        <3>2. reply.choices \in Seq(ChoiceRecords)
            BY <1>2 DEF OpenAIReplies
        <3>3. choice \in ChoiceRecords
            BY <2>4, <3>1, <3>2
        <3>4. choice.calls \in Seq(STRING)
            BY <3>3 DEF ChoiceRecords
        <3>5. PICK k \in Nat : k = Len(choice.calls)
            BY <3>4
        <3>6. OpenAIStreams(reply.usage, choice, k, OpenAIChunks(reply))
            BY <1>2, <2>4, <3>1, <3>5, OpenAIChunksOfOne
        <3>7. QED
            BY <3>6 DEF OpenAIStreams
    <2>3. QED
        BY <1>2, <2>1, <2>2, <2>4, OpenAIStarts, OpenAIObserved DEF Seen, Observe, Chunks
<1>3. CASE reply \in AnthropicReplies
    <2>1. ~IsOpenAI(reply) /\ ~IsResponse(reply) /\ reply.provider # "openai"
        BY <1>3 DEF IsOpenAI, IsResponse, AnthropicReplies
    <2>2. Len(AnthropicEvents(reply)) \in Nat
        <3>1. PICK choice : choice = reply.choices[1]
            OBVIOUS
        <3>2. choice.calls \in Seq(STRING)
            BY <1>3, <3>1, AnthropicChoice
        <3>3. PICK k \in Nat : k = Len(choice.calls)
            BY <3>2
        <3>4. AnthropicStreams(reply, choice, k, AnthropicEvents(reply))
            BY <1>3, <3>1, <3>3, AnthropicEventsOfOne
        <3>5. QED
            BY <3>4 DEF AnthropicStreams
    <2>3. QED
        BY <1>3, <2>1, <2>2, AnthropicStarts, AnthropicObserved DEF Seen, Observe, Chunks
<1>4. CASE reply \in ResponsesReplies
    <2>1. IsOpenAI(reply) /\ IsResponse(reply)
        BY <1>4 DEF IsOpenAI, IsResponse, ResponsesReplies
    <2>6. reply.provider # "openai"
        BY <1>4 DEF ResponsesReplies
    <2>2. PICK k \in Nat : k = Len(reply.calls)
        BY <1>4 DEF ResponsesReplies
    <2>3. Len(ResponseEvents(reply)) = k + 2
        BY <1>4, <2>2, ResponseEventsOf DEF ResponseStreams
    <2>4. ResponseSeen(reply, 0) = Unread(reply)
        BY <2>2 DEF ResponseSeen
    <2>5. /\ Chunks(reply) = ResponseEvents(reply)
          /\ \A m : Seen(reply, m) = ResponseSeen(reply, m)
          /\ \A s, chunk : Observe(reply, s, chunk) = OpenAIObserve(s, chunk)
        BY <2>1, <2>6 DEF Seen, Observe, Chunks
    <2>7. QED
        BY <1>4, <2>3, <2>4, <2>5, ResponseObserved
<1>5. QED
    BY <1>1, <1>2, <1>3, <1>4

\* What is no reply of OpenAI's has one choice.
LEMMA NotOpenAI ==
    ASSUME NEW reply \in Answers, ~IsOpenAI(reply)
    PROVE  reply \in AnthropicReplies /\ Single(reply)
<1>1. reply \in AnthropicReplies
    BY AnswersAssumption DEF IsOpenAI, IsResponse, OpenAIReplies, ResponsesReplies
<1>2. QED
    BY <1>1, AnthropicChoice DEF Single

\* A reply that can be told in full has one choice.
LEMMA ComparableIsSingle ==
    ASSUME NEW reply \in Answers, Comparable(reply)
    PROVE  Single(reply)
<1>1. CASE IsOpenAI(reply)
    <2>1. CASE IsResponse(reply)
        BY <2>1 DEF Single
    <2>2. CASE ~IsResponse(reply)
        BY <1>1, <2>2 DEF Comparable, IsOpenAI, Single
    <2>3. QED
        BY <2>1, <2>2
<1>2. CASE ~IsOpenAI(reply)
    BY <1>2, NotOpenAI
<1>3. QED
    BY <1>1, <1>2

\* What a proxy records is a part of the whole reply, and all of it after the last
\* chunk.
LEMMA SeenTells ==
    ASSUME NEW reply \in Answers, Comparable(reply),
           NEW n \in Nat, n <= Len(Chunks(reply)),
           NEW facts, facts = Apply(reply, Seen(reply, n))
    PROVE  /\ PartOf(facts, Whole(reply))
           /\ n = Len(Chunks(reply)) => facts = Whole(reply)
<1>1. n \in 0..Len(Chunks(reply))
    BY ComparableIsSingle, SeenGathers
<1>2. CASE reply \in OpenAIReplies
    <2>1. IsOpenAI(reply) /\ ~IsResponse(reply) /\ reply.provider = "openai"
        BY <1>2 DEF IsOpenAI, IsResponse, OpenAIReplies
    <2>2. Len(reply.choices) = 1
        BY <2>1 DEF Comparable
    <2>3. QED
        BY <1>1, <1>2, <2>1, <2>2, OpenAIGathers DEF Seen, Apply, Chunks, Whole
<1>3. CASE reply \in ResponsesReplies
    <2>1. IsOpenAI(reply) /\ IsResponse(reply)
        BY <1>3 DEF IsOpenAI, IsResponse, ResponsesReplies
    <2>2. reply.provider # "openai"
        BY <1>3 DEF ResponsesReplies
    <2>3. reply.status = "completed"
        BY <2>1, <2>2 DEF Comparable
    <2>4. /\ Chunks(reply) = ResponseEvents(reply) /\ Seen(reply, n) = ResponseSeen(reply, n)
          /\ Whole(reply) = OpenAIFacts(reply)
          /\ facts = OpenAIApply(ResponseSeen(reply, n))
        BY <2>1, <2>2 DEF Seen, Apply, Chunks, Whole
    <2>5. QED
        BY <1>1, <1>3, <2>3, <2>4, ResponseGathers
<1>4. CASE reply \in AnthropicReplies
    <2>1. ~IsOpenAI(reply) /\ ~IsResponse(reply) /\ reply.provider # "openai"
        BY <1>4 DEF IsOpenAI, IsResponse, AnthropicReplies
    <2>2. PICK snapshot : snapshot = Snapshot(AnthropicSeen(reply, n), n)
        OBVIOUS
    <2>3. reply.choices[1].finish # "refusal"
        BY <2>1 DEF Comparable
    <2>4. QED
        BY <1>1, <1>4, <2>1, <2>2, <2>3, AnthropicGathers DEF Seen, Apply, Chunks, Whole
<1>5. QED
    BY <1>2, <1>3, <1>4, AnswersAssumption

\* So is what a manager records at its exit, a refusal included.
LEMMA SnapshotTells ==
    ASSUME NEW reply \in Answers, ~IsOpenAI(reply),
           NEW n \in Nat, n <= Len(Chunks(reply)),
           NEW facts, facts = Snapshot(Seen(reply, n), n)
    PROVE  /\ facts # NoFacts => PartOf(facts, Whole(reply))
           /\ n = Len(Chunks(reply)) => facts = Whole(reply)
<1>1. reply \in AnthropicReplies
    BY NotOpenAI
<1>2. ~IsResponse(reply) /\ reply.provider # "openai"
    BY DEF IsOpenAI
<1>3. n \in 0..Len(Chunks(reply))
    BY NotOpenAI, SeenGathers
<1>4. PICK told : told = AnthropicApply(AnthropicSeen(reply, n))
    OBVIOUS
<1>5. QED
    BY <1>1, <1>2, <1>3, <1>4, AnthropicGathers DEF Seen, Chunks, Whole

\* The whole is a part of itself.
LEMMA WholeIsPart ==
    ASSUME NEW reply \in Answers, Comparable(reply)
    PROVE  PartOf(Whole(reply), Whole(reply))
<1>1. PICK n \in Nat : n = Len(Chunks(reply))
    BY ComparableIsSingle, SeenGathers
<1>2. QED
    BY <1>1, SeenTells

-----------------------------------------------------------------------------
(* The inductive invariant of what is recorded.                            *)

\* A call has gathered what it has read of its reply.
Gathers(call) ==
    call.phase # "unused" =>
        /\ call.reply \in Answers
        /\ call.kind = "manager" => ~IsOpenAI(call.reply)
        /\ Single(call.reply) => /\ call.read <= Len(Chunks(call.reply))
                                 /\ call.state = Seen(call.reply, call.read)

\* Nothing has been recorded of its reply yet.
Untold(call) ==
    \/ call.phase \in {"unused", "raised", "made", "asked"}
    \/ call.phase = "open" /\ ~call.finished

\* StreamedLikeWhole, of one call and its observation.
ToldLikeWhole(call, record) ==
    LET facts == record.facts
        reply == call.reply
    IN  /\ record.completed = TRUE /\ Comparable(reply) => facts = Whole(reply)
        /\ facts # NoFacts /\ Comparable(reply) => PartOf(facts, Whole(reply))
        /\ /\ call.kind = "manager" /\ call.finished /\ record.status = "ok"
           /\ call.read = Len(Chunks(reply))
           => facts = Whole(reply)

\* What a call has gathered, and what is recorded of it.
Told(call, record) ==
    /\ Gathers(call)
    /\ Untold(call) => record.facts = NoFacts /\ record.completed = None
    /\ ToldLikeWhole(call, record)

\* StreamedLikeWhole is not inductive: what is recorded at the end is what was
\* gathered up to there.
AllTold == \A c \in CallIds : Told(calls[c], observation[c])

\* A step of a call that records nothing of its reply.
LEMMA NothingTold ==
    ASSUME NEW call, NEW new, NEW record, NEW after, Told(call, record),
           new.reply = call.reply, new.kind = call.kind, new.read = call.read,
           new.state = call.state, new.finished = call.finished,
           new.phase = "unused" <=> call.phase = "unused", Untold(new) => Untold(call),
           after.facts = record.facts, after.completed = record.completed,
           after.status = record.status
    PROVE  Told(new, after)
<1>1. Gathers(new)
    BY DEF Told, Gathers
<1>2. Untold(new) => after.facts = NoFacts /\ after.completed = None
    BY DEF Told
<1>3. ToldLikeWhole(new, after)
    BY DEF Told, ToldLikeWhole
<1>4. QED
    BY <1>1, <1>2, <1>3 DEF Told

\* A call that fails records nothing of its reply either.
LEMMA FailureTold ==
    ASSUME NEW call, NEW new, NEW after, Gathers(call),
           new.reply = call.reply, new.kind = call.kind, new.read = call.read,
           new.state = call.state, call.phase # "unused",
           after.facts = NoFacts, after.completed = None, after.status = "error"
    PROVE  Told(new, after)
<1>1. Gathers(new)
    BY DEF Gathers
<1>2. ToldLikeWhole(new, after)
    BY StreamsAssumption DEF ToldLikeWhole
<1>3. QED
    BY <1>1, <1>2 DEF Told

\* A proxy that ends, is closed or is left records what it has gathered.
LEMMA StreamTold ==
    ASSUME NEW call, NEW new, NEW after, Gathers(call), call.kind = "stream",
           new.reply = call.reply, new.kind = call.kind, new.read = call.read,
           new.state = call.state, call.read \in Nat, call.phase = "open",
           new.phase = "open", new.finished = TRUE,
           after.facts = Apply(call.reply, call.state),
           after.completed = TRUE => call.read = Len(Chunks(call.reply))
    PROVE  Told(new, after)
<1>1. Gathers(new)
    BY DEF Gathers
<1>2. ~Untold(new)
    BY DEF Untold
<1>3. call.reply \in Answers
    BY DEF Gathers
<1>4. ASSUME Comparable(call.reply)
      PROVE  /\ PartOf(after.facts, Whole(call.reply))
             /\ after.completed = TRUE => after.facts = Whole(call.reply)
    <2>1. call.read <= Len(Chunks(call.reply)) /\ call.state = Seen(call.reply, call.read)
        BY <1>3, <1>4, ComparableIsSingle DEF Gathers
    <2>2. QED
        BY <1>3, <1>4, <2>1, SeenTells
<1>5. ToldLikeWhole(new, after)
    BY <1>4 DEF ToldLikeWhole
<1>6. QED
    BY <1>1, <1>2, <1>5 DEF Told

\* A manager that is left without an exception records the snapshot.
LEMMA SnapshotTold ==
    ASSUME NEW call, NEW new, NEW after, Gathers(call), call.kind = "manager",
           new.reply = call.reply, new.kind = call.kind, new.read = call.read,
           new.state = call.state, call.read \in Nat, call.phase = "open",
           new.phase = "over",
           after.facts = Snapshot(call.state, call.read), after.completed = None
    PROVE  Told(new, after)
<1>1. Gathers(new)
    BY DEF Gathers
<1>2. ~Untold(new)
    BY DEF Untold
<1>3. call.reply \in Answers /\ ~IsOpenAI(call.reply)
    BY DEF Gathers
<1>4. Single(call.reply)
    BY <1>3, NotOpenAI
<1>5. call.read <= Len(Chunks(call.reply)) /\ call.state = Seen(call.reply, call.read)
    BY <1>4 DEF Gathers
<1>6. /\ after.facts # NoFacts => PartOf(after.facts, Whole(call.reply))
      /\ call.read = Len(Chunks(call.reply)) => after.facts = Whole(call.reply)
    BY <1>3, <1>5, SnapshotTells
<1>7. ToldLikeWhole(new, after)
    BY <1>6, StreamsAssumption DEF ToldLikeWhole
<1>8. QED
    BY <1>1, <1>2, <1>7 DEF Told

\* A call that does not stream records the whole reply.
LEMMA WholeTold ==
    ASSUME NEW call, NEW new, NEW after, Gathers(call), call.kind = "create",
           new.reply = call.reply, new.kind = call.kind, new.read = call.read,
           new.state = call.state, call.phase = "asked", new.phase = "over",
           after.facts = Whole(call.reply), after.completed = None
    PROVE  Told(new, after)
<1>1. Gathers(new)
    BY DEF Gathers
<1>2. ~Untold(new)
    BY DEF Untold
<1>3. call.reply \in Answers
    BY DEF Gathers
<1>4. ToldLikeWhole(new, after)
    BY <1>3, WholeIsPart DEF ToldLikeWhole
<1>5. QED
    BY <1>1, <1>2, <1>4 DEF Told

\* A chunk is gathered, and records nothing.
LEMMA ChunkTold ==
    ASSUME NEW call, NEW new, NEW record, Told(call, record), call.phase = "open",
           call.read \in Nat, call.read + 1 <= Len(Chunks(call.reply)),
           call.kind = "manager" => ~call.finished,
           new.reply = call.reply, new.kind = call.kind, new.phase = call.phase,
           new.finished = call.finished, new.read = call.read + 1,
           new.state = Observe(call.reply, call.state, Chunks(call.reply)[call.read + 1])
    PROVE  Told(new, record)
<1>1. call.reply \in Answers
    BY DEF Told, Gathers
<1>2. Gathers(new)
    <2>1. ASSUME Single(call.reply)
          PROVE  /\ call.state = Seen(call.reply, call.read)
                 /\ new.state = Seen(call.reply, call.read + 1)
        <3>1. call.state = Seen(call.reply, call.read)
            BY <2>1 DEF Told, Gathers
        <3>2. Len(Chunks(call.reply)) \in Nat
            BY <1>1, <2>1, SeenGathers
        <3>3. call.read < Len(Chunks(call.reply))
            BY <3>2
        <3>4. QED
            BY <1>1, <2>1, <3>1, <3>3, SeenGathers
    <2>2. QED
        BY <1>1, <2>1 DEF Told, Gathers
<1>3. Untold(new) => Untold(call)
    BY DEF Untold
<1>4. ToldLikeWhole(new, record)
    BY DEF Told, ToldLikeWhole
<1>5. QED
    BY <1>2, <1>3, <1>4 DEF Told

\* A call begins with nothing gathered.
LEMMA BeginningTold ==
    ASSUME NEW reply \in Answers, NEW kind \in Kinds, kind = "manager" => ~IsOpenAI(reply),
           NEW phase \in {"raised", "made", "asked"}, NEW k,
           NEW record, record.facts = NoFacts, record.completed = None
    PROVE  Told(Begun(kind, phase, k, reply), record)
<1>1. PICK new : new = Begun(kind, phase, k, reply)
    OBVIOUS
<1>2. /\ new.reply = reply /\ new.kind = kind /\ new.phase = phase /\ new.read = 0
      /\ new.state = Unread(reply) /\ new.finished = FALSE
    BY <1>1 DEF Begun, Unused
<1>3. Gathers(new)
    <2>1. ASSUME Single(reply)
          PROVE  0 <= Len(Chunks(reply)) /\ Unread(reply) = Seen(reply, 0)
        <3>1. 0 \in Nat
            OBVIOUS
        <3>2. Len(Chunks(reply)) \in Nat /\ Seen(reply, 0) = Unread(reply)
            BY <2>1, <3>1, SeenGathers
        <3>3. QED
            BY <3>2
    <2>2. QED
        BY <1>2, <2>1 DEF Gathers
<1>4. ToldLikeWhole(new, record)
    BY <1>2, StreamsAssumption DEF ToldLikeWhole
<1>5. QED
    BY <1>1, <1>3, <1>4 DEF Told

\* A step that neither reads of call c nor records what was read.
Keeps(c) ==
    /\ calls'[c].reply = calls[c].reply /\ calls'[c].kind = calls[c].kind
    /\ calls'[c].read = calls[c].read /\ calls'[c].state = calls[c].state
    /\ calls'[c].finished = calls[c].finished
    /\ calls'[c].phase = "unused" <=> calls[c].phase = "unused"
    /\ Untold(calls'[c]) => Untold(calls[c])
    /\ observation'[c].facts = observation[c].facts
    /\ observation'[c].completed = observation[c].completed
    /\ observation'[c].status = observation[c].status

\* It keeps what holds of the call.
LEMMA KeepsTold ==
    ASSUME AllTold, NEW c \in CallIds, Keeps(c)
    PROVE  Told(calls'[c], observation'[c])
<1>1. PICK call : call = calls[c]
    OBVIOUS
<1>2. PICK new : new = calls'[c]
    OBVIOUS
<1>3. PICK record : record = observation[c]
    OBVIOUS
<1>4. PICK after : after = observation'[c]
    OBVIOUS
<1>5. Told(call, record)
    BY <1>1, <1>3 DEF AllTold
<1>6. /\ new.reply = call.reply /\ new.kind = call.kind
      /\ new.read = call.read /\ new.state = call.state
      /\ new.finished = call.finished
      /\ new.phase = "unused" <=> call.phase = "unused"
      /\ Untold(new) => Untold(call)
      /\ after.facts = record.facts
      /\ after.completed = record.completed
      /\ after.status = record.status
    BY <1>1, <1>2, <1>3, <1>4 DEF Keeps
<1>7. Told(new, after)
    BY <1>5, <1>6, NothingTold
<1>8. QED
    BY <1>2, <1>4, <1>7

\* A step of another call is such a step.
LEMMA UnchangedKeeps ==
    ASSUME NEW c, calls'[c] = calls[c], observation'[c] = observation[c]
    PROVE  Keeps(c)
BY DEF Keeps

\* Every step keeps what holds of every call.
LEMMA ToldStep ==
    ASSUME StreamsInv, AllTold, [Next]_vars
    PROVE  AllTold'
<1> SUFFICES ASSUME NEW d \in CallIds
             PROVE  Told(calls'[d], observation'[d])
    BY DEF AllTold
<1>1. Keeps(d) => Told(calls'[d], observation'[d])
    BY KeepsTold
<1>2. calls'[d] = calls[d] /\ observation'[d] = observation[d] => Keeps(d)
    BY UnchangedKeeps
<1>3. Told(calls[d], observation[d]) /\ Gathers(calls[d])
    BY DEF AllTold, Told
<1>4. /\ DOMAIN calls = CallIds /\ DOMAIN observation = CallIds
      /\ DOMAIN calls[d] = DOMAIN Unused /\ DOMAIN observation[d] = DOMAIN Blank
      /\ calls[d].read \in Nat /\ calls[d].finished \in BOOLEAN
      /\ calls[d].phase \in {"unused", "raised", "made", "asked", "open", "over"}
      /\ \A t \in Tasks : pc[t].at \in {"request", "read"} => pc[t].call \in CallIds
      /\ observation[d].completed \in BOOLEAN \cup {None}
    BY DEF StreamsInv, Shapes, AttemptsFollowTheirCall, TypeOK, Idle
<1>5. ASSUME UNCHANGED <<calls, observation>>
      PROVE  Told(calls'[d], observation'[d])
    BY <1>1, <1>2, <1>5
<1>6. ASSUME NEW t \in Tasks, NEW c \in CallIds, NEW kind \in Kinds,
             NEW phase \in {"raised", "made", "asked"}, NEW k \in Clients, NEW reply \in Answers,
             kind = "manager" => ~IsOpenAI(reply),
             calls[c].phase = "unused", observation' = observation,
             calls' = [calls EXCEPT ![c] = Begun(kind, phase, k, reply)]
      PROVE  Told(calls'[d], observation'[d])
    <2>1. CASE c = d
        <3>1. calls'[d] = Begun(kind, phase, k, reply)
            BY <1>4, <1>6, <2>1
        <3>2. observation'[d].facts = NoFacts /\ observation'[d].completed = None
            BY <1>3, <1>6, <2>1 DEF Told, Untold
        <3>3. PICK after : after = observation'[d]
            OBVIOUS
        <3>4. Told(Begun(kind, phase, k, reply), after)
            BY <1>6, <3>2, <3>3, BeginningTold
        <3>5. QED
            BY <3>1, <3>3, <3>4
    <2>2. CASE c # d
        BY <1>1, <1>2, <1>4, <1>6, <2>2
    <2>3. QED
        BY <2>1, <2>2
<1>7. ASSUME NEW t \in Tasks, NEW c \in CallIds, EnterManager(t, c)
      PROVE  Told(calls'[d], observation'[d])
    <2>1. calls' = [calls EXCEPT ![c].phase = "asked"] /\ observation' = observation
          /\ calls[c].phase = "made"
        BY <1>7 DEF EnterManager, recordVars
    <2>2. Keeps(d)
        BY <1>4, <2>1 DEF Keeps, Untold, Unused
    <2>3. QED
        BY <1>1, <2>2
<1>8. ASSUME NEW t \in Tasks, NEW responds \in BOOLEAN, Attempt(t, responds)
      PROVE  Told(calls'[d], observation'[d])
    <2>1. PICK c : \/ observation' = observation
                   \/ observation' = [observation EXCEPT ![c].attempts = @ + hooks]
        BY <1>8 DEF Attempt, CountResponse
    <2>2. calls' = calls
        BY <1>8 DEF Attempt, CountResponse
    <2>3. Keeps(d)
        BY <1>4, <2>1, <2>2 DEF Keeps, Blank
    <2>4. QED
        BY <1>1, <2>3
<1>9. ASSUME NEW t \in Tasks, Responds(t)
      PROVE  Told(calls'[d], observation'[d])
    <2>1. PICK c \in CallIds : c = pc[t].call /\ calls[c].phase = "asked" /\ ~calls[c].finished
        BY <1>4, <1>9 DEF Responds, StreamsInv, TasksKnowTheirCall, SettledOnce
    <2>2. PICK to : to = IF calls[c].kind # "create" /\ calls[c].span THEN "open" ELSE "over"
        OBVIOUS
    <2>3. calls' = [calls EXCEPT ![c].phase = to] /\ to \in {"open", "over"}
        BY <1>9, <2>1, <2>2 DEF Responds
    <2>4. CASE observation' = observation
        <3>1. Keeps(d)
            BY <1>4, <2>1, <2>3, <2>4 DEF Keeps, Untold, Unused
        <3>2. QED
            BY <1>1, <3>1
    <2>5. CASE observation' # observation
        <3>1. calls[c].kind = "create" /\ to = "over"
            BY <1>9, <2>1, <2>2, <2>5 DEF Responds, recordVars
        <3>2. observation' = [observation EXCEPT ![c] = Complete(c, Whole(calls[c].reply))]
            BY <1>9, <2>1, <2>5 DEF Responds, Finish, recordVars
        <3>3. CASE c = d
            <4>1. PICK call : call = calls[d]
                OBVIOUS
            <4>2. PICK new : new = calls'[d]
                OBVIOUS
            <4>3. PICK after : after = observation'[d]
                OBVIOUS
            <4>4. PICK whole : whole = Whole(call.reply)
                OBVIOUS
            <4>5. /\ new.reply = call.reply /\ new.kind = call.kind /\ new.read = call.read
                  /\ new.state = call.state /\ new.phase = "over"
                BY <1>4, <2>3, <3>1, <3>3, <4>1, <4>2 DEF Unused
            <4>6. after = [observation[d] EXCEPT !.facts = whole]
                BY <1>4, <3>2, <3>3, <4>1, <4>3, <4>4 DEF Complete
            <4>7. observation[d].completed = None
                BY <1>3, <2>1, <3>3 DEF Told, Untold
            <4>8. after.facts = whole /\ after.completed = None
                BY <1>4, <4>6, <4>7 DEF Blank
            <4>9. Told(new, after)
                BY <1>3, <2>1, <3>1, <3>3, <4>1, <4>4, <4>5, <4>8, WholeTold
            <4>10. QED
                BY <4>2, <4>3, <4>9
        <3>4. CASE c # d
            BY <1>1, <1>2, <1>4, <2>3, <3>2, <3>4
        <3>5. QED
            BY <3>3, <3>4
    <2>6. QED
        BY <2>4, <2>5
<1>10. ASSUME NEW c \in CallIds, NEW phase, NEW finished,
              Untold(calls[c]), calls[c].phase # "unused",
              calls' = [calls EXCEPT ![c].phase = phase, ![c].finished = finished],
              observation' = [observation EXCEPT ![c] = Failed(c)]
      PROVE  Told(calls'[d], observation'[d])
    <2>1. CASE c = d
        <3>1. PICK call : call = calls[d]
            OBVIOUS
        <3>2. PICK new : new = calls'[d]
            OBVIOUS
        <3>3. PICK after : after = observation'[d]
            OBVIOUS
        <3>4. /\ new.reply = call.reply /\ new.kind = call.kind /\ new.read = call.read
              /\ new.state = call.state
            BY <1>4, <1>10, <2>1, <3>1, <3>2 DEF Unused
        <3>5. observation[d].facts = NoFacts /\ observation[d].completed = None
            BY <1>3, <1>10, <2>1 DEF Told
        <3>6. after = [observation[d] EXCEPT !.status = "error"]
            BY <1>4, <1>10, <2>1, <3>3 DEF Failed
        <3>7. after.facts = NoFacts /\ after.completed = None /\ after.status = "error"
            BY <1>4, <3>5, <3>6 DEF Blank
        <3>8. Told(new, after)
            BY <1>3, <1>10, <2>1, <3>1, <3>4, <3>7, FailureTold
        <3>9. QED
            BY <3>2, <3>3, <3>8
    <2>2. CASE c # d
        BY <1>1, <1>2, <1>4, <1>10, <2>2
    <2>3. QED
        BY <2>1, <2>2
<1>11. ASSUME NEW t \in Tasks, RequestFails(t)
      PROVE  Told(calls'[d], observation'[d])
    <2>1. PICK c \in CallIds : c = pc[t].call /\ calls[c].phase = "asked"
        BY <1>4, <1>11 DEF RequestFails, StreamsInv, TasksKnowTheirCall
    <2>2. calls' = [calls EXCEPT ![c].phase = "over"]
        BY <1>11, <2>1 DEF RequestFails
    <2>3. CASE observation' = observation
        <3>1. Keeps(d)
            BY <1>4, <2>1, <2>2, <2>3 DEF Keeps, Untold, Unused
        <3>2. QED
            BY <1>1, <3>1
    <2>4. CASE observation' # observation
        <3>1. observation' = [observation EXCEPT ![c] = Failed(c)]
            BY <1>11, <2>1, <2>4 DEF RequestFails, Finish, recordVars
        <3>2. calls' = [calls EXCEPT ![c].phase = "over", ![c].finished = calls[c].finished]
            BY <2>1, <2>2 DEF StreamsInv, Shapes, Unused
        <3>3. Untold(calls[c]) /\ calls[c].phase # "unused"
            BY <2>1 DEF Untold
        <3>4. QED
            BY <1>10, <3>1, <3>2, <3>3
    <2>5. QED
        BY <2>3, <2>4
<1>12. ASSUME NEW t \in Tasks, Arrives(t)
      PROVE  Told(calls'[d], observation'[d])
    <2>1. PICK c \in CallIds : c = pc[t].call
        BY <1>4, <1>12 DEF Arrives
    <2>2. observation' = observation
        BY <1>12 DEF Arrives, recordVars
    <2>3. CASE calls[c].phase = "open" /\ c = d
        <3>1. PICK call : call = calls[d]
            OBVIOUS
        <3>2. PICK new : new = calls'[d]
            OBVIOUS
        <3>3. PICK record : record = observation[d]
            OBVIOUS
        <3>4. PICK state : state = Observe(call.reply, call.state, Chunks(call.reply)[call.read + 1])
            OBVIOUS
        <3>5. calls' = [calls EXCEPT ![d].read = call.read + 1, ![d].state = state]
            BY <1>4, <1>12, <2>1, <2>3, <3>1, <3>4 DEF Arrives, Unused
        <3>6. /\ new.reply = call.reply /\ new.kind = call.kind /\ new.phase = call.phase
              /\ new.finished = call.finished /\ new.read = call.read + 1
              /\ new.state = state
            BY <1>4, <3>1, <3>2, <3>5 DEF Unused
        <3>7. call.read + 1 <= Len(Chunks(call.reply))
            BY <1>12, <2>1, <2>3, <3>1 DEF Arrives
        <3>8. call.kind = "manager" => ~call.finished
            BY <2>3, <3>1 DEF StreamsInv, SettledOnce
        <3>9. Told(new, record)
            BY <1>3, <1>4, <2>3, <3>1, <3>3, <3>4, <3>6, <3>7, <3>8, ChunkTold
        <3>10. QED
            BY <2>2, <3>2, <3>3, <3>9
    <2>4. CASE ~(calls[c].phase = "open" /\ c = d)
        <3>1. calls'[d] = calls[d]
            BY <1>4, <1>12, <2>1, <2>4 DEF Arrives
        <3>2. QED
            BY <1>1, <1>2, <2>2, <3>1
    <2>5. QED
        BY <2>3, <2>4
<1>13. ASSUME NEW c \in CallIds, IsProxy(c), calls[c].phase = "open",
              \/ Settle(c, Failed(c))
              \/ \E completed \in BOOLEAN :
                    /\ Settle(c, Gathered(c, completed))
                    /\ completed => \/ calls[c].read = Len(Chunks(calls[c].reply))
                                    \/ calls[c].finished
       PROVE  Told(calls'[d], observation'[d])
    <2>1. calls' = [calls EXCEPT ![c].finished = TRUE]
        BY <1>13 DEF Settle
    <2>2. CASE calls[c].finished
        <3>1. observation' = observation
            BY <1>13, <2>2 DEF Settle, recordVars
        <3>2. Keeps(d)
            BY <1>4, <2>1, <2>2, <3>1 DEF Keeps, Untold, Unused
        <3>3. QED
            BY <1>1, <3>2
    <2>3. CASE ~calls[c].finished /\ Settle(c, Failed(c))
        <3>1. observation' = [observation EXCEPT ![c] = Failed(c)]
            BY <2>3 DEF Settle, Finish
        <3>2. calls' = [calls EXCEPT ![c].phase = calls[c].phase, ![c].finished = TRUE]
            BY <2>1 DEF StreamsInv, Shapes, Unused
        <3>3. Untold(calls[c]) /\ calls[c].phase # "unused"
            BY <1>13, <2>3 DEF Untold
        <3>4. QED
            BY <1>10, <3>1, <3>2, <3>3
    <2>4. ASSUME ~calls[c].finished, NEW completed \in BOOLEAN, Settle(c, Gathered(c, completed)),
                 completed => calls[c].read = Len(Chunks(calls[c].reply))
          PROVE  Told(calls'[d], observation'[d])
        <3>1. observation' = [observation EXCEPT ![c] = Gathered(c, completed)]
            BY <2>4 DEF Settle, Finish
        <3>2. CASE c = d
            <4>1. PICK call : call = calls[d]
                OBVIOUS
            <4>2. PICK new : new = calls'[d]
                OBVIOUS
            <4>3. PICK after : after = observation'[d]
                OBVIOUS
            <4>4. PICK facts : facts = Apply(call.reply, call.state)
                OBVIOUS
            <4>5. /\ new.reply = call.reply /\ new.kind = call.kind /\ new.read = call.read
                  /\ new.state = call.state /\ new.phase = call.phase /\ new.finished = TRUE
                BY <1>4, <2>1, <3>2, <4>1, <4>2 DEF Unused
            <4>6. after = [[observation[d] EXCEPT !.facts = facts]
                              EXCEPT !.completed = completed, !.chunks = call.read]
                BY <1>4, <3>1, <3>2, <4>1, <4>3, <4>4 DEF Gathered, Complete
            <4>7. after.facts = facts /\ after.completed = completed
                BY <1>4, <4>6 DEF Blank
            <4>8. call.kind = "stream" /\ call.phase = "open" /\ call.read \in Nat
                BY <1>4, <1>13, <3>2, <4>1 DEF IsProxy
            <4>9. after.completed = TRUE => call.read = Len(Chunks(call.reply))
                BY <2>4, <3>2, <4>1, <4>7
            <4>10. Told(new, after)
                BY <1>3, <4>1, <4>4, <4>5, <4>7, <4>8, <4>9, StreamTold
            <4>11. QED
                BY <4>2, <4>3, <4>10
        <3>3. CASE c # d
            BY <1>1, <1>2, <1>4, <2>1, <3>1, <3>3
        <3>4. QED
            BY <3>2, <3>3
    <2>5. QED
        BY <1>13, <2>2, <2>3, <2>4
<1>14. ASSUME NEW t \in Tasks, Ends(t) \/ ReadFails(t) \/ \E c \in CallIds : Close(t, c)
       PROVE  Told(calls'[d], observation'[d])
    <2>1. pc[t].at = "read" => /\ pc[t].call \in CallIds
                               /\ IsProxy(pc[t].call) => calls[pc[t].call].phase = "open"
        BY <1>4 DEF StreamsInv, TasksKnowTheirCall, IsProxy
    <2>2. CASE Ends(t)
        <3>1. CASE IsProxy(pc[t].call)
            BY <1>13, <2>1, <2>2, <3>1 DEF Ends, Leave
        <3>2. CASE ~IsProxy(pc[t].call)
            BY <1>5, <2>2, <3>2 DEF Ends, Leave, recordVars
        <3>3. QED
            BY <3>1, <3>2
    <2>3. CASE ReadFails(t)
        <3>1. CASE IsProxy(pc[t].call)
            BY <1>13, <2>1, <2>3, <3>1 DEF ReadFails, Leave
        <3>2. CASE ~IsProxy(pc[t].call)
            BY <1>5, <2>3, <3>2 DEF ReadFails, Leave, recordVars
        <3>3. QED
            BY <3>1, <3>2
    <2>4. ASSUME NEW c \in CallIds, Close(t, c)
          PROVE  Told(calls'[d], observation'[d])
        BY <1>13, <2>4 DEF Close, Leave, IsProxy
    <2>5. QED
        BY <1>14, <2>2, <2>3, <2>4
<1>15. ASSUME NEW t \in Tasks, NEW c \in CallIds, NEW raises \in BOOLEAN,
             ExitManager(t, c, raises)
      PROVE  Told(calls'[d], observation'[d])
    <2>1. /\ calls[c].phase = "open" /\ calls[c].kind = "manager" /\ ~calls[c].finished
          /\ calls' = [calls EXCEPT ![c].finished = TRUE, ![c].phase = "over"]
          /\ observation' = [observation EXCEPT ![c] = ExitRecord(c, raises)]
        BY <1>15 DEF ExitManager, Finish, StreamsInv, SettledOnce
    <2>2. CASE raises
        <3>1. observation' = [observation EXCEPT ![c] = Failed(c)]
            BY <2>1, <2>2 DEF ExitRecord
        <3>2. calls' = [calls EXCEPT ![c].phase = "over", ![c].finished = TRUE]
            BY <2>1 DEF StreamsInv, Shapes, Unused
        <3>3. Untold(calls[c]) /\ calls[c].phase # "unused"
            BY <2>1 DEF Untold
        <3>4. QED
            BY <1>10, <3>1, <3>2, <3>3
    <2>3. CASE ~raises
        <3>1. CASE c = d
            <4>1. PICK call : call = calls[d]
                OBVIOUS
            <4>2. PICK new : new = calls'[d]
                OBVIOUS
            <4>3. PICK after : after = observation'[d]
                OBVIOUS
            <4>4. PICK facts : facts = Snapshot(call.state, call.read)
                OBVIOUS
            <4>5. /\ new.reply = call.reply /\ new.kind = call.kind /\ new.read = call.read
                  /\ new.state = call.state /\ new.phase = "over"
                BY <1>4, <2>1, <3>1, <4>1, <4>2 DEF Unused
            <4>6. after = [observation[d] EXCEPT !.facts = facts]
                BY <1>4, <2>1, <2>3, <3>1, <4>1, <4>3, <4>4 DEF ExitRecord, Complete
            <4>7. observation[d].completed = None
                BY <1>3, <2>1, <3>1 DEF Told, Untold
            <4>8. after.facts = facts /\ after.completed = None
                BY <1>4, <4>6, <4>7 DEF Blank
            <4>9. Told(new, after)
                BY <1>3, <1>4, <2>1, <3>1, <4>1, <4>4, <4>5, <4>8, SnapshotTold
            <4>10. QED
                BY <4>2, <4>3, <4>9
        <3>2. CASE c # d
            BY <1>1, <1>2, <1>4, <2>1, <3>2
        <3>3. QED
            BY <3>1, <3>2
    <2>4. QED
        BY <2>2, <2>3
<1>16. ASSUME NEW t \in Tasks, NEW c \in CallIds, NEW kind \in {"create", "stream"},
             NEW k \in Clients, NEW reply \in Answers,
             Create(t, c, kind, k, reply)
      PROVE  Told(calls'[d], observation'[d])
    BY <1>6, <1>16 DEF Create, Kinds, recordVars
<1>17. ASSUME NEW t \in Tasks, NEW c \in CallIds, NEW k \in Clients, NEW reply \in Answers,
             MakeManager(t, c, k, reply)
      PROVE  Told(calls'[d], observation'[d])
    <2>1. /\ calls[c].phase = "unused" /\ ~IsOpenAI(reply) /\ observation' = observation
          /\ \E phase \in {"raised", "made", "asked"} :
                calls' = [calls EXCEPT ![c] = Begun("manager", phase, k, reply)]
        BY <1>17 DEF MakeManager, recordVars
    <2>2. QED
        BY <1>6, <2>1 DEF Kinds
<1>18. (\/ Disable \/ UNCHANGED vars
        \/ \E k \in Clients : Wrap(k)
        \/ \E t \in Tasks, c \in CallIds : Pull(t, c))
       => UNCHANGED <<calls, observation>>
    BY DEF Disable, Wrap, Pull, vars, callVars, recordVars, httpVars
<1>19. QED
    BY <1>5, <1>7, <1>8, <1>9, <1>11, <1>12, <1>14, <1>15, <1>16, <1>17, <1>18 DEF Next

\* At first nothing is gathered nor recorded.
LEMMA ToldInit == Init => AllTold
<1> SUFFICES ASSUME Init, NEW c \in CallIds
             PROVE  Told(calls[c], observation[c])
    BY DEF AllTold
<1>1. PICK call : call = calls[c]
    OBVIOUS
<1>2. PICK record : record = observation[c]
    OBVIOUS
<1>3. call.phase = "unused" /\ call.kind = None /\ call.finished = FALSE
    BY <1>1 DEF Init, Unused
<1>4. record.facts = NoFacts /\ record.completed = None
    BY <1>2 DEF Init, Blank
<1>5. Told(call, record)
    BY <1>3, <1>4, StreamsAssumption DEF Told, Gathers, ToldLikeWhole
<1>6. QED
    BY <1>1, <1>2, <1>5

\* A stream that is read to its end is recorded like the same reply read whole, and
\* one that ended early like a part of it, for replies with any number of calls
\* and whoever reads, closes or leaves the stream meanwhile (_observe, _apply and
\* _merge_usage against _apply_response_facts and _apply_facts).
THEOREM StreamsReadAlike == Spec => []StreamedLikeWhole
<1>1. StreamsInv /\ AllTold /\ [Next]_vars => AllTold'
    BY ToldStep
<1>2. AllTold => StreamedLikeWhole
    <2> SUFFICES ASSUME AllTold
                 PROVE  StreamedLikeWhole
        OBVIOUS
    <2>1. ASSUME NEW c \in CallIds
          PROVE  ToldLikeWhole(calls[c], observation[c])
        BY DEF AllTold, Told
    <2>2. QED
        BY <2>1 DEF StreamedLikeWhole, ToldLikeWhole, PartOf
<1>3. QED
    BY <1>1, <1>2, ToldInit, StreamsInvariance, PTL DEF Spec

=============================================================================
