------------------------------ MODULE MCStreams ------------------------------
(***************************************************************************)
(* For calls that are made together, a short reply of each provider.  For  *)
(* what is recorded of a reply, which does not depend on other calls, many *)
(* more: with calls of tools, a cached prompt or no usage, with two        *)
(* choices or none, refused, and replies of the Responses API that are     *)
(* complete, were cut off or have failed.                                  *)
(***************************************************************************)
EXTENDS Streams

Choice(finish, refused, tools) == [finish |-> finish, refused |-> refused, calls |-> tools]

OpenAI(usage, choices) == [provider |-> "openai", usage |-> usage, choices |-> choices]

Response(status, reason, refused, tools, usage) ==
    [provider |-> "responses", status |-> status, reason |-> reason, refused |-> refused,
     calls |-> tools, usage |-> usage]

Anthropic(usage, choice) ==
    [provider |-> "anthropic", usage |-> usage, choices |-> <<choice>>]

Tokens == [prompt |-> 5, completion |-> 3, cached |-> 2]

Tool == OpenAI(Tokens, <<Choice("tool_calls", FALSE, <<"search">>)>>)

CachedPrompt ==
    Anthropic([fresh |-> 2, read |-> 3, write |-> None, out |-> 4],
              Choice("tool_use", FALSE, <<"search">>))

Refusal ==
    Anthropic([fresh |-> 2, read |-> None, write |-> 1, out |-> 2],
              Choice("refusal", FALSE, <<>>))

Short == {OpenAI(None, <<Choice("stop", FALSE, <<>>)>>), Refusal}

Others ==
    { Tool, CachedPrompt,
      OpenAI(None, <<Choice("tool_calls", FALSE, <<"search", "fetch">>)>>),
      OpenAI(Tokens, <<Choice("stop", TRUE, <<>>)>>),
      OpenAI(Tokens, <<Choice("stop", FALSE, <<>>), Choice("length", FALSE, <<>>)>>),
      OpenAI(Tokens, <<>>),
      Response("completed", None, FALSE, <<"search", "fetch">>, Tokens),
      Response("completed", None, TRUE, <<>>, None),
      Response("incomplete", "max_output_tokens", FALSE, <<>>, Tokens),
      Response("failed", None, FALSE, <<>>, None) }

MCAnswers == Short \cup Others

\* Bound: a call that gets one of the others is the only call.
OthersAlone ==
    \A c, d \in CallIds :
        calls[c].reply \in Others /\ d # c => calls[d].phase = "unused"

Symmetry == Permutations(Tasks) \cup Permutations(CallIds) \cup Permutations(Clients)

=============================================================================
