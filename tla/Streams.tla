------------------------------- MODULE Streams -------------------------------
(***************************************************************************)
(* The wrapped provider clients (integrations/openai.py, anthropic.py),    *)
(* the stream proxies (_stream.py) and the transport hook (_transport.py). *)
(*                                                                         *)
(* Asyncio tasks call the wrapped methods, and share what they return: at  *)
(* each await of one task any other may run.  A call is one call of        *)
(* create(), of create(stream=True), or of Anthropic's stream() helper; it *)
(* has the span of the same name.  How finish_span() emits is the subject  *)
(* of Spans; here it is one step.                                          *)
(***************************************************************************)
EXTENDS Replies

CONSTANTS
    Tasks,
    CallIds,
    Clients,      \* provider clients that share one HTTP client
    Answers,      \* the replies that the providers may give
    MaxAttempts   \* bound: HTTP attempts of a call

ASSUME StreamsAssumption ==
    /\ MaxAttempts \in Nat \ {0}
    /\ None \notin Int /\ None \notin BOOLEAN
    /\ None \notin Tasks /\ None \notin CallIds

\* What the providers' clients hand out.  (The provers have to be told that a
\* literal is not None either.)
ASSUME AnswersAssumption ==
    /\ None \notin STRING \cup StopReasons \cup {"completed", "response.completed"}
    /\ None \notin AnthropicUsages
    /\ Answers \subseteq OpenAIReplies \cup ResponsesReplies \cup AnthropicReplies

VARIABLES
    enabled,      \* _settings.enabled
    wrapped,      \* the clients whose methods are wrapped
    hookable,     \* whether the HTTP client has the event hooks of httpx
    hooks,        \* how many hooks of ours the HTTP client has
    active,       \* _ACTIVE of each task
    pc,           \* what each task awaits, and for which call
    calls,        \* the calls, with their proxies
    observation,  \* what is recorded of each call
    ended,        \* history: how often finish_span() was called for each call
    over,         \* history: the calls whose end their caller has seen
    answered,     \* the calls whose last attempt got a response
    attempts,     \* history: the HTTP attempts of each call
    responses     \* history: those of them that got a response

clientVars == <<enabled, wrapped, hookable, hooks>>
recordVars == <<observation, ended>>
httpVars == <<answered, attempts, responses>>
callVars == <<calls, over, recordVars, httpVars>>
vars == <<clientVars, callVars, active, pc>>

Kinds == {"create", "stream", "manager"}

\* The request of a call is awaited in phase "asked"; its result can be read
\* from in phase "open"; in phase "raised" the provider's own stream() has raised
\* and there is no manager.  "state" is the StreamState's, or for a manager what the
\* stream itself gathers; "read" counts the chunks that have been delivered.
Unused == [kind |-> None, phase |-> "unused", span |-> FALSE, finished |-> FALSE,
           reply |-> None, state |-> None, read |-> 0]

Blank == [status |-> "ok", completed |-> None, chunks |-> None, facts |-> NoFacts,
          attempts |-> 0]

Idle == [at |-> "idle", call |-> None]

TypeOK ==
    /\ enabled \in BOOLEAN
    /\ wrapped \subseteq Clients
    /\ hookable \in BOOLEAN
    /\ hooks \in 0..1
    /\ active \in [Tasks -> CallIds \cup {None}]
    /\ \A t \in Tasks : pc[t] = Idle \/ pc[t] \in [at : {"request", "read"}, call : CallIds]
    /\ \A c \in CallIds :
        /\ calls[c].kind \in Kinds \cup {None}
        /\ calls[c].phase \in {"unused", "raised", "made", "asked", "open", "over"}
        /\ calls[c].span \in BOOLEAN /\ calls[c].finished \in BOOLEAN
        /\ calls[c].reply \in Answers \cup {None}
        /\ calls[c].read \in Nat
        /\ observation[c].status \in {"ok", "error"}
        /\ observation[c].completed \in BOOLEAN \cup {None}
        /\ ended[c] \in Nat /\ responses[c] \in Nat
        /\ attempts[c] \in 0..MaxAttempts
    /\ over \subseteq CallIds /\ answered \subseteq CallIds

Init ==
    /\ enabled = TRUE
    /\ wrapped = {}
    /\ hookable \in BOOLEAN
    /\ hooks = 0
    /\ active = [t \in Tasks |-> None]
    /\ pc = [t \in Tasks |-> Idle]
    /\ calls = [c \in CallIds |-> Unused]
    /\ observation = [c \in CallIds |-> Blank]
    /\ ended = [c \in CallIds |-> 0]
    /\ over = {}
    /\ answered = {}
    /\ attempts = [c \in CallIds |-> 0]
    /\ responses = [c \in CallIds |-> 0]

-----------------------------------------------------------------------------
(* Wrapping a client                                                       *)

\* install(): the HTTP client may be another wrapped client's too, and a client that
\* has no httpx client under it, or one without event hooks, gets no hook.
Installed == IF hookable /\ hooks = 0 THEN 1 ELSE hooks

Wrap(k) ==
    /\ wrapped' = wrapped \cup {k}
    /\ hooks' = Installed
    /\ UNCHANGED <<enabled, hookable, callVars, active, pc>>

\* Bound: only once, and never back.
Disable ==
    /\ enabled
    /\ enabled' = FALSE
    /\ UNCHANGED <<wrapped, hookable, hooks, callVars, active, pc>>

-----------------------------------------------------------------------------
(* Finishing                                                               *)

\* finish_span(), with what its caller has put on the observation.
Finish(c, record) ==
    /\ observation' = [observation EXCEPT ![c] = record]
    /\ ended' = [ended EXCEPT ![c] = @ + 1]

Failed(c) == [observation[c] EXCEPT !.status = "error"]

Complete(c, facts) == [observation[c] EXCEPT !.facts = facts]

\* StreamState.finish() without an exception.
Gathered(c, completed) ==
    [Complete(c, Apply(calls[c].reply, calls[c].state)) EXCEPT
        !.completed = completed, !.chunks = calls[c].read]

\* Variant: the stream is settled however often it ends.
SettleAgain(c, record) ==
    /\ calls' = [calls EXCEPT ![c].finished = TRUE]
    /\ Finish(c, record)

\* _settle(): there is no await in it.
Settle(c, record) ==
    /\ calls' = [calls EXCEPT ![c].finished = TRUE]
    /\ IF calls[c].finished THEN UNCHANGED recordVars
       ELSE Finish(c, record)

-----------------------------------------------------------------------------
(* The request                                                             *)

Begun(kind, phase, k, reply) ==
    [Unused EXCEPT !.kind = kind, !.phase = phase, !.span = enabled /\ k \in wrapped,
                   !.reply = reply, !.state = Unread(reply)]

Request(t, c, span) ==
    /\ pc' = [pc EXCEPT ![t] = [at |-> "request", call |-> c]]
    /\ active' = [active EXCEPT ![t] = IF span THEN c ELSE @]

\* Variant: the token is not used.
LeaveActive(t) == active

\* The observation that was current before is None: requests do not nest.
Deactivate(t) == [active EXCEPT ![t] = None]

Create(t, c, kind, k, reply) ==
    /\ pc[t] = Idle
    /\ calls[c].phase = "unused"
    /\ calls' = [calls EXCEPT ![c] = Begun(kind, "asked", k, reply)]
    /\ Request(t, c, enabled /\ k \in wrapped)
    /\ UNCHANGED <<clientVars, over, recordVars, httpVars>>

\* messages.stream() opens the span and requests nothing yet.  The provider's own
\* stream(), called next, may raise, and the span is then left as it is.
MakeManager(t, c, k, reply) ==
    /\ pc[t] = Idle
    /\ calls[c].phase = "unused"
    /\ ~IsOpenAI(reply)
    /\ \/ /\ calls' = [calls EXCEPT ![c] = Begun("manager", "made", k, reply)]
          /\ over' = over
       \/ /\ calls' = [calls EXCEPT ![c] = Begun("manager", "raised", k, reply)]
          /\ over' = over \cup {c}
    /\ UNCHANGED <<clientVars, recordVars, httpVars, active, pc>>

EnterManager(t, c) ==
    /\ pc[t] = Idle
    /\ calls[c].phase = "made"
    /\ calls' = [calls EXCEPT ![c].phase = "asked"]
    /\ Request(t, c, calls[c].span)
    /\ UNCHANGED <<clientVars, over, recordVars, httpVars>>

\* The hook runs on a response, in the task that called the provider.
CountResponse(t) ==
    observation' = IF active[t] = None THEN observation
                   ELSE [observation EXCEPT ![active[t]].attempts = @ + hooks]

\* The provider's client tries, and may try again: after a response that it does
\* not accept (429, 5xx), and after a try that got none (a timeout, no connection).
Attempt(t, responds) ==
    LET c == pc[t].call
    IN  /\ pc[t].at = "request"
        /\ attempts[c] < MaxAttempts
        /\ attempts' = [attempts EXCEPT ![c] = @ + 1]
        /\ IF responds
           THEN /\ responses' = [responses EXCEPT ![c] = @ + 1]
                /\ answered' = answered \cup {c}
                /\ CountResponse(t)
           ELSE /\ answered' = answered \ {c}
                /\ UNCHANGED <<responses, observation>>
        /\ UNCHANGED <<clientVars, calls, over, ended, active, pc>>

Return(t) ==
    /\ pc' = [pc EXCEPT ![t] = Idle]
    /\ active' = Deactivate(t)

Responds(t) ==
    LET c == pc[t].call
        kept == calls[c].kind # "create" /\ calls[c].span
    IN  /\ pc[t].at = "request"
        /\ c \in answered
        /\ Return(t)
        /\ calls' = [calls EXCEPT ![c].phase = IF kept THEN "open" ELSE "over"]
        /\ over' = IF kept THEN over ELSE over \cup {c}
        /\ IF calls[c].kind = "create" /\ calls[c].span
           THEN Finish(c, Complete(c, Whole(calls[c].reply)))
           ELSE UNCHANGED recordVars
        /\ UNCHANGED <<clientVars, httpVars>>

\* Variant: a cancellation is not an Exception, and passes by.
RequestFailsUncaught(t) ==
    LET c == pc[t].call
    IN  /\ pc[t].at = "request"
        /\ Return(t)
        /\ calls' = [calls EXCEPT ![c].phase = "over"]
        /\ over' = over \cup {c}
        /\ \/ calls[c].span /\ Finish(c, Failed(c))
           \/ UNCHANGED recordVars
        /\ UNCHANGED <<clientVars, httpVars>>

\* It raises, or is cancelled.
RequestFails(t) ==
    LET c == pc[t].call
    IN  /\ pc[t].at = "request"
        /\ Return(t)
        /\ calls' = [calls EXCEPT ![c].phase = "over"]
        /\ over' = over \cup {c}
        /\ IF calls[c].span THEN Finish(c, Failed(c)) ELSE UNCHANGED recordVars
        /\ UNCHANGED <<clientVars, httpVars>>

-----------------------------------------------------------------------------
(* Reading, closing and leaving a stream                                   *)

IsProxy(c) == calls[c].kind = "stream"

Pull(t, c) ==
    /\ pc[t] = Idle
    /\ calls[c].phase = "open"
    /\ pc' = [pc EXCEPT ![t] = [at |-> "read", call |-> c]]
    /\ UNCHANGED <<clientVars, callVars, active>>

\* observe_chunk(), also for a chunk that a close() could not hold up; nobody
\* looks at what a manager reads after its exit.
Arrives(t) ==
    LET c == pc[t].call
        chunks == Chunks(calls[c].reply)
        next == calls[c].read + 1
    IN  /\ pc[t].at = "read"
        /\ next <= Len(chunks)
        /\ calls' = IF calls[c].phase # "open" THEN calls
                    ELSE [calls EXCEPT
                            ![c].read = next,
                            ![c].state = Observe(calls[c].reply, @, chunks[next])]
        /\ pc' = [pc EXCEPT ![t] = Idle]
        /\ UNCHANGED <<clientVars, over, recordVars, httpVars, active>>

\* A proxy's reader has seen it end.  A manager's call ends with its exit.
Leave(c, record) ==
    IF IsProxy(c) THEN Settle(c, record) /\ over' = over \cup {c}
    ELSE UNCHANGED <<calls, recordVars, over>>

\* Exhausted: after the last chunk, or because it was closed or has failed.
Ends(t) ==
    LET c == pc[t].call
    IN  /\ pc[t].at = "read"
        /\ \/ calls[c].read = Len(Chunks(calls[c].reply))
           \/ calls[c].finished
        /\ Leave(c, Gathered(c, TRUE))
        /\ pc' = [pc EXCEPT ![t] = Idle]
        /\ UNCHANGED <<clientVars, httpVars, active>>

\* The connection breaks, the task is cancelled, or another is reading already.
ReadFails(t) ==
    LET c == pc[t].call
    IN  /\ pc[t].at = "read"
        /\ Leave(c, Failed(c))
        /\ pc' = [pc EXCEPT ![t] = Idle]
        /\ UNCHANGED <<clientVars, httpVars, active>>

\* close(), or __exit__() with or without an exception.
Close(t, c) ==
    /\ pc[t] = Idle
    /\ calls[c].phase = "open"
    /\ IsProxy(c)
    /\ Leave(c, Gathered(c, FALSE))
    /\ UNCHANGED <<clientVars, httpVars, active, pc>>

ExitRecord(c, raises) ==
    IF raises THEN Failed(c) ELSE Complete(c, Snapshot(calls[c].state, calls[c].read))

ExitManager(t, c, raises) ==
    /\ pc[t] = Idle
    /\ calls[c].phase = "open"
    /\ calls[c].kind = "manager"
    /\ calls' = [calls EXCEPT ![c].finished = TRUE, ![c].phase = "over"]
    /\ over' = over \cup {c}
    /\ Finish(c, ExitRecord(c, raises))
    /\ UNCHANGED <<clientVars, httpVars, active, pc>>

-----------------------------------------------------------------------------
Next ==
    \/ Disable
    \/ \E k \in Clients : Wrap(k)
    \/ \E t \in Tasks :
        \/ \E responds \in BOOLEAN : Attempt(t, responds)
        \/ Responds(t) \/ RequestFails(t)
        \/ Arrives(t) \/ Ends(t) \/ ReadFails(t)
        \/ \E c \in CallIds :
            \/ EnterManager(t, c) \/ Pull(t, c) \/ Close(t, c)
            \/ \E raises \in BOOLEAN : ExitManager(t, c, raises)
            \/ \E k \in Clients, reply \in Answers :
                \/ \E kind \in {"create", "stream"} : Create(t, c, kind, k, reply)
                \/ MakeManager(t, c, k, reply)

Spec == Init /\ [][Next]_vars

-----------------------------------------------------------------------------
(* Properties                                                              *)

\* Every response is counted once, on the observation of the call it answers,
\* whatever other calls are awaited meanwhile and however many clients share the
\* HTTP client; "the contextvar is exactly right" (_transport.py:23).  Where no hook
\* can be installed nothing is counted (_transport.py:71).  An attempt that gets no
\* response fires no hook and is not counted either, although an observation is to
\* say "how many HTTP attempts the SDK made" (_transport.py:11).
AttemptsFollowTheirCall ==
    /\ TypeOK
    /\ \A c \in CallIds :
        observation[c].attempts = IF calls[c].span /\ hookable THEN responses[c] ELSE 0

\* Once its span has ended nothing touches an observation: it is the live object
\* that is queued, while its stream may still be read, closed and left by several
\* tasks (_stream.py:167).
SettledIsFinal ==
    [][\A c \in CallIds :
         ended[c] > 0 => observation'[c] = observation[c] /\ ended'[c] = ended[c]]_vars

\* A call's span ends once and not before the caller has seen the call end, by
\* whichever way: a reply, an exception, a cancellation, the last chunk, a close()
\* or an exit, by any of the tasks that share the stream ("close exactly once",
\* _stream.py:5).  It leaves out a messages.stream() whose original() raises
\* (anthropic.py:166): the span opened before it never ends.
SpansCloseOnce ==
    \A c \in CallIds :
        calls[c].phase # "raised" =>
            ended[c] = IF calls[c].span /\ c \in over THEN 1 ELSE 0

\* A reply that both ways of reading can tell in full.  With several choices OpenAI's
\* chunks of one are merged into the others'; Anthropic's stream does not flag a
\* refusal; and of the Responses API's events only the one of a completed reply is
\* read (openai.py:279), so that of one which ends otherwise neither its end nor its
\* usage is recorded, though of the whole reply they are.
Comparable(reply) ==
    CASE IsResponse(reply) -> reply.status = "completed"
      [] reply.provider = "openai" -> Len(reply.choices) = 1
      [] OTHER -> reply.choices[1].finish # "refusal"

\* A drained stream is recorded like the whole reply, and one that ended early
\* like a part of it: calls in order, usage counted once, one finish_reason
\* (openai.py:242, anthropic.py:284, anthropic.py:312).
StreamedLikeWhole ==
    \A c \in CallIds :
        LET facts == observation[c].facts
            reply == calls[c].reply
        IN  /\ observation[c].completed = TRUE /\ Comparable(reply)
               => facts = Whole(reply)
            /\ facts # NoFacts /\ Comparable(reply)
               => /\ IsPrefix(facts.calls, Whole(reply).calls)
                  /\ facts.finish \in {None, Whole(reply).finish}
                  /\ facts.prompt \in {None, Whole(reply).prompt}
            /\ /\ calls[c].kind = "manager" /\ calls[c].finished
               /\ observation[c].status = "ok"
               /\ calls[c].read = Len(Chunks(reply))
               => facts = Whole(reply)

=============================================================================
