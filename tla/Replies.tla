------------------------------- MODULE Replies -------------------------------
(***************************************************************************)
(* integrations/openai.py and integrations/anthropic.py: what they record  *)
(* of a provider's reply, read whole or chunk by chunk as it is streamed.  *)
(*                                                                         *)
(* A reply is a record of its provider, its choices (Anthropic has one)    *)
(* and the usage it reports.  A choice has the reason it ended for, the    *)
(* tools it called, in order, and whether it is a refusal.  OpenAI has two *)
(* kinds: a chat completion, and the reply of the Responses API, which has *)
(* a status instead of choices.  Text, ids, models and timings are left    *)
(* out.                                                                    *)
(***************************************************************************)
EXTENDS Integers, Sequences, SequencesExt, FiniteSets

CONSTANT None   \* Python's None: the reply does not say

ChoiceRecords == [finish : STRING \cup {None}, refused : BOOLEAN, calls : Seq(STRING)]

Counts == Nat \cup {None}

OpenAIUsages == [prompt : Counts, completion : Counts, cached : Counts]

OpenAIReplies ==
    [provider : {"openai"}, choices : Seq(ChoiceRecords), usage : OpenAIUsages \cup {None}]

\* "reason" is why it is incomplete.
ResponsesReplies ==
    [provider : {"responses"}, status : STRING \cup {None}, reason : STRING \cup {None},
     refused : BOOLEAN, calls : Seq(STRING), usage : OpenAIUsages \cup {None}]

AnthropicUsages == [fresh : Counts, read : Counts, write : Counts, out : Counts]

\* The final count of the output is always there.
AnthropicReplies ==
    [provider : {"anthropic"}, choices : [1..1 -> ChoiceRecords],
     usage : {u \in AnthropicUsages : u.out # None}]

\* What an observation records of a reply.
Facts(prompt, completion, cached, finish, refused, calls) ==
    [prompt |-> prompt, completion |-> completion, cached |-> cached,
     finish |-> finish, refused |-> refused, calls |-> calls]

NoFacts == Facts(None, None, None, None, FALSE, <<>>)

Calls(reply) == FlattenSeq([i \in DOMAIN reply.choices |-> reply.choices[i].calls])

Reasons(reply) == [i \in DOMAIN reply.choices |-> reply.choices[i].finish]

Refused(reply) == \E i \in DOMAIN reply.choices : reply.choices[i].refused

IsResponse(reply) == reply.provider = "responses"

IsOpenAI(reply) == reply.provider = "openai" \/ IsResponse(reply)

-----------------------------------------------------------------------------
(* OpenAI: usage is [prompt, completion, cached], or None when the caller  *)
(* did not ask a stream for it.                                            *)

OpenAIUsage(u) == IF u = None THEN NoFacts
                  ELSE [NoFacts EXCEPT !.prompt = u.prompt,
                                       !.completion = u.completion,
                                       !.cached = u.cached]

\* One reason, or all that are given when the choices differ.
Given(reasons) == SelectSeq(reasons, LAMBDA reason : reason # None)

Ending(reasons) ==
    LET given == Range(reasons) \ {None}
    IN  CASE given = {} -> None
          [] Cardinality(given) = 1 -> CHOOSE reason \in given : TRUE
          [] OTHER -> Given(reasons)

\* How a reply of the Responses API ended.
StatusReason(reply) ==
    CASE reply.status = "incomplete" /\ reply.reason # None -> reply.reason
      [] reply.status = "completed" -> "stop"
      [] OTHER -> reply.status

\* Read of a reply of the Responses API, into what is known already.
CollectResponse(facts, reply) ==
    [facts EXCEPT
        !.finish = IF reply.status = None THEN @ ELSE StatusReason(reply),
        !.refused = @ \/ reply.refused,
        !.calls = IF reply.calls = <<>> THEN @ ELSE reply.calls]

\* A chat completion without choices is looked at like a Responses reply, and says
\* nothing there.
OpenAIFacts(reply) ==
    LET told == OpenAIUsage(reply.usage)
    IN  IF IsResponse(reply) THEN CollectResponse(told, reply)
        ELSE [told EXCEPT !.finish = Ending(Reasons(reply)),
                          !.refused = Refused(reply),
                          !.calls = Calls(reply)]

\* Variant: an argument fragment counts as a call of its own.
OpenAICallsPerDelta(calls, chunk) ==
    IF chunk.index = None THEN calls ELSE Append(calls, chunk.name)

\* The name comes with the first delta of an index.
OpenAICalls(calls, chunk) ==
    IF chunk.name = None \/ chunk.index \in DOMAIN calls THEN calls
    ELSE [i \in DOMAIN calls \cup {chunk.index} |->
             IF i = chunk.index THEN chunk.name ELSE calls[i]]

ReadChunk(state, chunk) ==
    [usage |-> IF chunk.usage = None THEN state.usage ELSE chunk.usage,
     finish |-> IF chunk.finish = None THEN state.finish ELSE chunk.finish,
     refused |-> state.refused \/ chunk.refused,
     calls |-> OpenAICalls(state.calls, chunk)]

\* Of the events that carry a response only the one of a completed reply is read.
OpenAIObserve(state, chunk) ==
    LET read == ReadChunk(state, chunk)
        final == chunk.response
    IN  IF chunk.type # "response.completed" THEN read
        ELSE [CollectResponse(read, final) EXCEPT
                !.usage = IF final.usage = None THEN @ ELSE final.usage]

OpenAIApply(state) ==
    [OpenAIUsage(state.usage) EXCEPT !.finish = state.finish,
                                     !.refused = state.refused,
                                     !.calls = state.calls]

-----------------------------------------------------------------------------
(* Anthropic: usage is [fresh, read, write, out], any of them None.        *)

OrZero(n) == IF n = None THEN 0 ELSE n

AnthropicUsage(u) ==
    [NoFacts EXCEPT !.prompt = IF u.fresh = None THEN None
                               ELSE u.fresh + OrZero(u.read) + OrZero(u.write),
                    !.completion = u.out,
                    !.cached = u.read]

StopReasons == {"end_turn", "stop_sequence", "max_tokens", "tool_use", "refusal"}

FinishReason(stop) ==
    CASE stop \in {"end_turn", "stop_sequence"} -> "stop"
      [] stop = "max_tokens" -> "length"
      [] stop = "tool_use" -> "tool_calls"
      [] stop = "refusal" -> "content_filter"
      [] OTHER -> stop

AnthropicFacts(reply) ==
    LET stop == reply.choices[1].finish
    IN  [AnthropicUsage(reply.usage) EXCEPT
            !.finish = FinishReason(stop),
            !.refused = stop = "refusal",
            !.calls = Calls(reply)]

MergeUsage(old, new) ==
    IF new = None THEN old
    ELSE [k \in DOMAIN old |-> IF new[k] = None THEN old[k] ELSE new[k]]

AnthropicObserve(state, event) ==
    [usage |-> MergeUsage(state.usage, event.usage),
     finish |-> IF event.finish = None THEN state.finish ELSE event.finish,
     refused |-> FALSE,
     calls |-> IF event.name = None THEN state.calls
               ELSE Append(state.calls, event.name)]

AnthropicApply(state) ==
    [AnthropicUsage(state.usage) EXCEPT !.finish = FinishReason(state.finish),
                                        !.calls = state.calls]

-----------------------------------------------------------------------------
(* How the providers stream a reply.                                       *)

Chunk == [index |-> None, name |-> None, finish |-> None, refused |-> FALSE,
          usage |-> None, type |-> None, response |-> None]

\* A call comes in two deltas, one with its name and one with its arguments.
OpenAIDelta(choice, i) ==
    LET j == (i + 1) \div 2
    IN  [Chunk EXCEPT !.index = j, !.name = IF i = 2 * j THEN None ELSE choice.calls[j]]

OpenAILast(choice) == [Chunk EXCEPT !.refused = choice.refused, !.finish = choice.finish]

OpenAIChoice(choice) ==
    Append([i \in 1..2 * Len(choice.calls) |-> OpenAIDelta(choice, i)], OpenAILast(choice))

OpenAIChunks(reply) ==
    FlattenSeq([i \in DOMAIN reply.choices |-> OpenAIChoice(reply.choices[i])])
    \o (IF reply.usage = None THEN <<>> ELSE <<[Chunk EXCEPT !.usage = reply.usage]>>)

\* The type of the last event goes by how the reply ended.
ResponseEnd(status) ==
    CASE status = "completed" -> "response.completed"
      [] status = "incomplete" -> "response.incomplete"
      [] OTHER -> "response.failed"

ResponseEvent(type, reply) == [Chunk EXCEPT !.type = type, !.response = reply]

\* It has just begun, its items follow one by one, and the last event has all of it.
ResponseEvents(reply) ==
    <<ResponseEvent("response.created",
                    [reply EXCEPT !.status = "in_progress", !.usage = None, !.calls = <<>>])>>
    \o [j \in DOMAIN reply.calls |-> [Chunk EXCEPT !.type = "response.output_item.added"]]
    \o <<ResponseEvent(ResponseEnd(reply.status), reply)>>

\* message_start reports the input and a first count of the output, and
\* message_delta the final one.
MessageStart(reply) == [Chunk EXCEPT !.usage = [reply.usage EXCEPT !.out = 1]]

ToolUse(choice, j) == [Chunk EXCEPT !.index = j, !.name = choice.calls[j]]

MessageDelta(reply) ==
    [Chunk EXCEPT !.finish = reply.choices[1].finish,
                  !.usage = [fresh |-> None, read |-> None, write |-> None,
                             out |-> reply.usage.out]]

AnthropicEvents(reply) ==
    <<MessageStart(reply)>>
    \o [j \in DOMAIN reply.choices[1].calls |-> ToolUse(reply.choices[1], j)]
    \o <<MessageDelta(reply)>>

-----------------------------------------------------------------------------
(* For either provider                                                     *)

Chunks(reply) ==
    CASE IsResponse(reply) -> ResponseEvents(reply)
      [] reply.provider = "openai" -> OpenAIChunks(reply)
      [] OTHER -> AnthropicEvents(reply)

Unread(reply) ==
    [usage |-> IF IsOpenAI(reply) THEN None
               ELSE [k \in DOMAIN reply.usage |-> None],
     finish |-> None, refused |-> FALSE, calls |-> <<>>]

Observe(reply, state, chunk) ==
    IF IsOpenAI(reply) THEN OpenAIObserve(state, chunk) ELSE AnthropicObserve(state, chunk)

Apply(reply, state) ==
    IF IsOpenAI(reply) THEN OpenAIApply(state) ELSE AnthropicApply(state)

Whole(reply) ==
    IF IsOpenAI(reply) THEN OpenAIFacts(reply) ELSE AnthropicFacts(reply)

\* What _complete() records of the snapshot that Anthropic's own MessageStream has
\* built of the first n events.
Snapshot(state, n) ==
    IF n = 0 THEN NoFacts
    ELSE [AnthropicApply(state) EXCEPT !.refused = state.finish = "refusal"]

=============================================================================
