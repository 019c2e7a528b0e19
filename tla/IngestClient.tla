---------------------------- MODULE IngestClient ----------------------------
(***************************************************************************)
(* llm_metrics/client.py, the transport: IngestClient.send() with its      *)
(* retries, the live Deadline of llm_metrics/buffer.py it sleeps against,  *)
(* the lazily built connection pool, close(), and the reset in a forked    *)
(* child.                                                                  *)
(*                                                                         *)
(* Senders are the threads that run EventBuffer._drain(): the flush        *)
(* thread, and callers of flush_once().  Time is discrete: every pending   *)
(* request, sleep and the deadline counts down, and a tick happens only    *)
(* when no thread has anything else to do, so computation takes no time.   *)
(* A batch counts as one event.                                            *)
(***************************************************************************)
EXTENDS Integers, FiniteSets

CONSTANTS
    Senders,      \* threads that send
    MaxSends,     \* bound: batches each of them sends
    MaxAttempts,  \* max_attempts
    Timeout,      \* timeout: per request
    BackoffBase,  \* backoff_base
    BackoffMax,   \* backoff_max
    RetryAfter,   \* the Retry-After values the server may answer with
    Budgets,      \* the values arm() may be called with
    Pools,        \* bound: identities of the httpx.Client objects built
    None          \* no pool, no deadline

ASSUME ClientAssumption ==
    /\ IsFiniteSet(Senders)
    /\ MaxSends \in Nat
    /\ MaxAttempts \in Nat \ {0}
    /\ Timeout \in Nat \ {0}
    /\ BackoffBase \in Nat /\ BackoffMax \in Nat
    /\ RetryAfter \subseteq Nat
    /\ Budgets \subseteq Nat
    /\ None \notin Pools /\ None \notin Int

VARIABLES
    pc,         \* where each sender is
    attempt,    \* _send()'s loop counter
    budgeted,   \* the request was posted with a timeout cut to the deadline
    delay,      \* _send()'s local: the sleep before the next attempt
    timer,      \* time left of the request or the sleep
    left,       \* Deadline._at: time left, None while unarmed
    armed,      \* Deadline._armed
    http,       \* _http
    using,      \* the pool a sender posts to
    open,       \* pools whose sockets are open
    closer,     \* how far close() has come; _closed from "latched" on
    closing,    \* close()'s local: the pool it still has to close
    stats,      \* stats.sent_batches, stats.dropped_events
    seen,       \* the counter a sender has read and not yet written back
    finished,   \* history: how many sends have ended
    elapsed,    \* history: the time since a sender called send()
    inherited   \* history: the pools that were open when this process forked

senderVars == <<pc, attempt, budgeted, delay, timer, using, seen, finished, elapsed>>
deadlineVars == <<left, armed>>
poolVars == <<http, open, closer, closing, inherited>>

vars == <<senderVars, deadlineVars, poolVars, stats>>

Shorter(a, b) == IF a < b THEN a ELSE b

LongestWait == IF Timeout > BackoffMax THEN Timeout ELSE BackoffMax

Labels == {"idle", "attempt", "client", "build", "fetch", "request", "backoff",
           "wait", "sleep", "sent", "dropped", "storeSent", "storeDropped"}

Blocking == {"idle", "request", "wait", "sleep"}

TypeOK ==
    /\ pc \in [Senders -> Labels]
    /\ attempt \in [Senders -> 0..(MaxAttempts - 1)]
    /\ budgeted \in [Senders -> BOOLEAN]
    /\ delay \in [Senders -> 0..BackoffMax]
    /\ timer \in [Senders -> 0..LongestWait]
    /\ left \in Nat \cup {None}
    /\ armed \in BOOLEAN
    /\ http \in Pools \cup {None}
    /\ using \in [Senders -> Pools \cup {None}]
    /\ open \subseteq Pools
    /\ closer \in {"open", "latched", "swapped", "done"}
    /\ closing \in Pools \cup {None}
    /\ stats \in [{"sent", "dropped"} -> Nat]
    /\ seen \in [Senders -> Nat]
    /\ finished \in [Senders -> 0..MaxSends]
    /\ elapsed \in [Senders -> Nat]
    /\ inherited \subseteq Pools

Init ==
    /\ pc = [s \in Senders |-> "idle"]
    /\ attempt = [s \in Senders |-> 0]
    /\ budgeted = [s \in Senders |-> FALSE]
    /\ delay = [s \in Senders |-> 0]
    /\ timer = [s \in Senders |-> 0]
    /\ left = None
    /\ armed = FALSE
    /\ http = None
    /\ using = [s \in Senders |-> None]
    /\ open = {}
    /\ closer = "open"
    /\ closing = None
    /\ stats = [sent |-> 0, dropped |-> 0]
    /\ seen = [s \in Senders |-> 0]
    /\ finished = [s \in Senders |-> 0]
    /\ elapsed = [s \in Senders |-> 0]
    /\ inherited = {}

Goto(s, label) == pc' = [pc EXCEPT ![s] = label]

-----------------------------------------------------------------------------
(* _send() *)

\* A batch that can be encoded, for a client that is enabled.
SendBegin(s) ==
    /\ pc[s] = "idle" /\ finished[s] < MaxSends
    /\ closer = "open"
    /\ attempt' = [attempt EXCEPT ![s] = 0]
    /\ Goto(s, "attempt")
    /\ UNCHANGED <<budgeted, delay, timer, using, seen, finished, elapsed,
                   deadlineVars, poolVars, stats>>

\* The client is closed, or the batch cannot be encoded.
SendRefused(s) ==
    /\ pc[s] = "idle" /\ finished[s] < MaxSends
    /\ Goto(s, "dropped")
    /\ UNCHANGED <<attempt, budgeted, delay, timer, using, seen, finished, elapsed,
                   deadlineVars, poolVars, stats>>

\* Deadline.remaining() is None or positive.
HasTime == left # 0

AttemptRefused(s) ==
    /\ pc[s] = "attempt"
    /\ ~HasTime
    /\ Goto(s, "dropped")
    /\ UNCHANGED <<attempt, budgeted, delay, timer, using, seen, finished, elapsed,
                   deadlineVars, poolVars, stats>>

WholeTimeout == Timeout    \* variant: the request timeout is not shortened

RequestTimeout == IF left = None THEN Timeout ELSE Shorter(Timeout, left)

\* The timeout of the request is computed from the remaining budget.
AttemptBegin(s) ==
    /\ pc[s] = "attempt"
    /\ HasTime
    /\ timer' = [timer EXCEPT ![s] = RequestTimeout]
    /\ budgeted' = [budgeted EXCEPT ![s] = left # None]
    /\ Goto(s, "client")
    /\ UNCHANGED <<attempt, delay, using, seen, finished, elapsed, deadlineVars, poolVars, stats>>

-----------------------------------------------------------------------------
(* _client(): check, build and read _http without a lock.                  *)

\* Variant: a pool per request.
NeedsPoolAlways == TRUE

NeedsPool == http = None

ClientCheck(s) ==
    /\ pc[s] = "client"
    /\ Goto(s, IF NeedsPool THEN "build" ELSE "fetch")
    /\ UNCHANGED <<attempt, budgeted, delay, timer, using, seen, finished, elapsed,
                   deadlineVars, poolVars, stats>>

ClientBuild(s) ==
    /\ pc[s] = "build"
    /\ \E p \in Pools \ (open \cup inherited) :
        /\ \A t \in Senders : using[t] # p
        /\ p # closing
        /\ http' = p
        /\ open' = open \cup {p}
    /\ Goto(s, "fetch")
    /\ UNCHANGED <<attempt, budgeted, delay, timer, using, seen, finished, elapsed,
                   deadlineVars, closer, closing, inherited, stats>>

\* The request is posted to what _http is by now.
ClientPost(s) ==
    /\ pc[s] = "fetch"
    /\ http \in open
    /\ using' = [using EXCEPT ![s] = http]
    /\ Goto(s, "request")
    /\ UNCHANGED <<attempt, budgeted, delay, timer, seen, finished, elapsed,
                   deadlineVars, poolVars, stats>>

\* close() has taken or closed the pool in between: the exception is not one
\* of httpx's, and send() drops the batch.
ClientGone(s) ==
    /\ pc[s] = "fetch"
    /\ http \notin open
    /\ Goto(s, "dropped")
    /\ UNCHANGED <<attempt, budgeted, delay, timer, using, seen, finished, elapsed,
                   deadlineVars, poolVars, stats>>

-----------------------------------------------------------------------------
(* _attempt(): what comes back from the server or from httpx.              *)

EndRequest(s, label) ==
    /\ using' = [using EXCEPT ![s] = None]
    /\ timer' = [timer EXCEPT ![s] = 0]
    /\ Goto(s, label)
    /\ UNCHANGED <<attempt, budgeted, seen, finished, elapsed, deadlineVars, poolVars, stats>>

\* 2xx, and everything that is not worth a retry.
ResponseFinal(s) ==
    /\ pc[s] = "request"
    /\ \/ using[s] \in open /\ EndRequest(s, "sent")
       \/ EndRequest(s, "dropped")
    /\ UNCHANGED delay

\* Variant: a Retry-After is obeyed to the letter.
DelaysUncapped(n) == RetryAfter \cup {d \in 0..BackoffMax : d <= BackoffBase * 2^n}

\* _backoff(): the server's Retry-After, or exponential with full jitter.
Delays(n) ==
    {Shorter(r, BackoffMax) : r \in RetryAfter}
        \cup {d \in 0..BackoffMax : d <= BackoffBase * 2^n}

LastAttempt(n) == n = MaxAttempts - 1

\* A transport error, which a timeout is, or a status worth a retry.
ResponseRetry(s) ==
    /\ pc[s] = "request"
    /\ \/ /\ LastAttempt(attempt[s])
          /\ EndRequest(s, "dropped")
          /\ UNCHANGED delay
       \/ /\ ~LastAttempt(attempt[s])
          /\ ~HasTime
          /\ EndRequest(s, "dropped")
          /\ UNCHANGED delay
       \/ /\ ~LastAttempt(attempt[s])
          /\ HasTime
          /\ \E d \in Delays(attempt[s]) :
                delay' = [delay EXCEPT ![s] = IF left = None THEN d ELSE Shorter(d, left)]
          /\ EndRequest(s, "backoff")

-----------------------------------------------------------------------------
(* Deadline.sleep() and Deadline.arm()                                     *)

\* While unarmed, a wait that arming cuts short.
SleepUnarmed(s) ==
    /\ pc[s] = "backoff"
    /\ ~armed
    /\ timer' = [timer EXCEPT ![s] = delay[s]]
    /\ Goto(s, "wait")
    /\ UNCHANGED <<attempt, budgeted, delay, using, seen, finished, elapsed,
                   deadlineVars, poolVars, stats>>

\* Once armed, a sleep that ends with the budget at the latest.
SleepArmed(s) ==
    /\ pc[s] = "backoff"
    /\ armed
    /\ timer' = [timer EXCEPT ![s] = Shorter(delay[s], left)]
    /\ Goto(s, "sleep")
    /\ UNCHANGED <<attempt, budgeted, delay, using, seen, finished, elapsed,
                   deadlineVars, poolVars, stats>>

NextAttemptSame(n) == n    \* variant: the retries are not counted

NextAttempt(n) == n + 1

Woken(s) == timer[s] = 0 \/ (pc[s] = "wait" /\ armed)

SleepEnds(s) ==
    /\ pc[s] \in {"wait", "sleep"}
    /\ Woken(s)
    /\ attempt' = [attempt EXCEPT ![s] = NextAttempt(@)]
    /\ timer' = [timer EXCEPT ![s] = 0]
    /\ delay' = [delay EXCEPT ![s] = 0]
    /\ Goto(s, "attempt")
    /\ UNCHANGED <<budgeted, using, seen, finished, elapsed, deadlineVars, poolVars, stats>>

\* arm() sets the time and then the flag.  Bound: the deadline is armed once.
ArmTime ==
    /\ left = None
    /\ left' \in Budgets
    /\ UNCHANGED <<senderVars, armed, poolVars, stats>>

ArmFlag ==
    /\ left # None /\ ~armed
    /\ armed' = TRUE
    /\ UNCHANGED <<senderVars, left, poolVars, stats>>

-----------------------------------------------------------------------------
(* The counters: read, then written back, by whichever thread sends.       *)

CountRead(s) ==
    /\ \/ /\ pc[s] = "sent"
          /\ seen' = [seen EXCEPT ![s] = stats.sent]
          /\ Goto(s, "storeSent")
       \/ /\ pc[s] = "dropped"
          /\ seen' = [seen EXCEPT ![s] = stats.dropped]
          /\ Goto(s, "storeDropped")
    /\ UNCHANGED <<attempt, budgeted, delay, timer, using, finished, elapsed,
                   deadlineVars, poolVars, stats>>

\* Variant: only what was sent is counted.
CountOnlySent(s) == IF pc[s] = "storeSent" THEN [stats EXCEPT !.sent = seen[s] + 1] ELSE stats

Counted(s) ==
    IF pc[s] = "storeSent" THEN [stats EXCEPT !.sent = seen[s] + 1]
    ELSE [stats EXCEPT !.dropped = seen[s] + 1]

\* send() returns.
CountWrite(s) ==
    /\ pc[s] \in {"storeSent", "storeDropped"}
    /\ stats' = Counted(s)
    /\ seen' = [seen EXCEPT ![s] = 0]
    /\ finished' = [finished EXCEPT ![s] = @ + 1]
    /\ elapsed' = [elapsed EXCEPT ![s] = 0]
    /\ Goto(s, "idle")
    /\ UNCHANGED <<attempt, budgeted, delay, timer, using, deadlineVars, poolVars>>

-----------------------------------------------------------------------------
(* close(), and the reset in a forked child.  Bounds: each happens once.   *)

CloseLatch ==
    /\ closer = "open"
    /\ closer' = "latched"
    /\ UNCHANGED <<senderVars, deadlineVars, http, open, closing, inherited, stats>>

\* The pool is swapped out ...
CloseSwap ==
    /\ closer = "latched"
    /\ closing' = http
    /\ http' = None
    /\ closer' = "swapped"
    /\ UNCHANGED <<senderVars, deadlineVars, open, inherited, stats>>

\* ... and then closed, if there was one.
ClosePool ==
    /\ closer = "swapped"
    /\ open' = open \ {closing}
    /\ closing' = None
    /\ closer' = "done"
    /\ UNCHANGED <<senderVars, deadlineVars, http, inherited, stats>>

\* Variant: the child keeps the pool it inherited.
ForgetsNothing == http

\* _reset_after_fork(): the child drops the pool it inherited without closing
\* it.
ForgetsPool == None

\* From here on the state is the child's.  The threads of the parent do not
\* exist in it, and its buffer has a new Deadline.
Fork ==
    /\ inherited = {} /\ open # {}
    /\ inherited' = open
    /\ http' = ForgetsPool
    /\ stats' = [sent |-> 0, dropped |-> 0]
    /\ pc' = [s \in Senders |-> "idle"]
    /\ timer' = [s \in Senders |-> 0]
    /\ delay' = [s \in Senders |-> 0]
    /\ using' = [s \in Senders |-> None]
    /\ seen' = [s \in Senders |-> 0]
    /\ finished' = [s \in Senders |-> 0]
    /\ elapsed' = [s \in Senders |-> 0]
    /\ left' = None
    /\ armed' = FALSE
    /\ closing' = None
    /\ closer' = IF closer \in {"latched", "swapped"} THEN "done" ELSE closer
    /\ UNCHANGED <<attempt, budgeted, open>>

-----------------------------------------------------------------------------
(* The clock                                                               *)

Waiting(s) == pc[s] \in Blocking \ {"idle"}

Quiet ==
    /\ \A s \in Senders :
        /\ pc[s] \in Blocking
        /\ pc[s] = "request" => timer[s] > 0
        /\ pc[s] \in {"wait", "sleep"} => ~Woken(s)
    /\ left # None => armed

Tick ==
    /\ Quiet
    /\ left \notin {None, 0} \/ \E s \in Senders : Waiting(s)
    /\ timer' = [s \in Senders |-> IF Waiting(s) THEN timer[s] - 1 ELSE timer[s]]
    /\ elapsed' = [s \in Senders |-> IF Waiting(s) THEN elapsed[s] + 1 ELSE elapsed[s]]
    /\ left' = IF left = None \/ left = 0 THEN left ELSE left - 1
    /\ UNCHANGED <<pc, attempt, budgeted, delay, using, seen, finished,
                   armed, poolVars, stats>>

-----------------------------------------------------------------------------
Attempt(s) == AttemptRefused(s) \/ AttemptBegin(s) \/ ClientCheck(s) \/ ClientBuild(s)
              \/ ClientPost(s) \/ ClientGone(s)

Respond(s) == ResponseFinal(s) \/ ResponseRetry(s)

Sleep(s) == SleepUnarmed(s) \/ SleepArmed(s) \/ SleepEnds(s)

Count(s) == CountRead(s) \/ CountWrite(s)

Close == CloseLatch \/ CloseSwap \/ ClosePool

Next ==
    \/ \E s \in Senders : SendBegin(s) \/ SendRefused(s) \/ Attempt(s) \/ Respond(s)
                          \/ Sleep(s) \/ Count(s)
    \/ ArmTime \/ ArmFlag
    \/ Close
    \/ Fork
    \/ Tick

Spec == Init /\ [][Next]_vars

\* The threads run and time passes; a server may never answer, and then the
\* request ends with its timeout.
FairSpec ==
    /\ Spec
    /\ \A s \in Senders :
        /\ WF_vars(Attempt(s)) /\ WF_vars(Sleep(s)) /\ WF_vars(Count(s))
        /\ WF_vars(timer[s] = 0 /\ ResponseRetry(s))
    /\ WF_vars(ArmFlag)
    /\ WF_vars(Tick)

-----------------------------------------------------------------------------
(* Safety.                                                                 *)

\* Time never passes on a spent budget, except for a request that was posted
\* before the deadline was armed: no attempt, no retry and no sleep of send()
\* outlasts Deadline.remaining().
NothingOutlivesTheDeadline ==
    [][Tick /\ left = 0
          => \A s \in Senders : Waiting(s) => pc[s] = "request" /\ ~budgeted[s]]_vars

\* Whatever the server answers, and however long the Retry-After it asks for,
\* send() is over after max_attempts requests that time out and the backoffs
\* between them, none longer than backoff_max: a batch cannot occupy the
\* flush thread for longer than that.
LongestSend == MaxAttempts * Timeout + (MaxAttempts - 1) * BackoffMax

SendIsBounded == \A s \in Senders : elapsed[s] <= LongestSend

\* Every batch that send() was given is counted, as sent or as dropped, when
\* it returns: whatever the server answers and whenever close() or the
\* deadline gets in the way.  With one sender: the counters have no lock.
EveryBatchAccounted ==
    /\ TypeOK
    /\ \A s \in Senders : stats.sent + stats.dropped = finished[s]

\* One connection pool is reused for every request and every retry.  With one
\* sender: _client() has no lock either.
AtMostOnePool == Cardinality(open \ (inherited \cup {closing})) <= 1

\* A forked child never closes the connections its parent is using, neither
\* by close() nor by the reset itself.
InheritedPoolsStayOpen == inherited \subseteq open

\* Liveness: send() returns, whatever the server does and without a deadline:
\* "the transport has its own bounded retries".
SendReturns == \A s \in Senders : pc[s] # "idle" ~> pc[s] = "idle"

=============================================================================
