---------------------------- MODULE SpanLifecycle ----------------------------
(***************************************************************************)
(* What every instrumentation path promises of a span, whoever opened it:  *)
(* it is opened once; at most once, and only while it is open, its         *)
(* observation is handed to the buffer or withheld for good; the trace it  *)
(* owns, if it owns one, is handed over at most once and before that.      *)
(***************************************************************************)
CONSTANT Span

VARIABLES
    fate,    \* what has become of each span
    traced   \* spans whose own trace was handed to the buffer

lifecycleVars == <<fate, traced>>

Fates == {"unopened", "open", "sent", "withheld"}

Init ==
    /\ fate = [s \in Span |-> "unopened"]
    /\ traced = {}

Become(s, from, to) ==
    /\ fate[s] = from
    /\ fate' = [fate EXCEPT ![s] = to]
    /\ UNCHANGED traced

Open(s) == Become(s, "unopened", "open")

SendTrace(s) ==
    /\ fate[s] = "open"
    /\ s \notin traced
    /\ traced' = traced \cup {s}
    /\ UNCHANGED fate

Send(s) == Become(s, "open", "sent")

Withhold(s) == Become(s, "open", "withheld")

Next == \E s \in Span : Open(s) \/ SendTrace(s) \/ Send(s) \/ Withhold(s)

Spec == Init /\ [][Next]_lifecycleVars

=============================================================================
