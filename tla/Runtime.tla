------------------------------- MODULE Runtime -------------------------------
(***************************************************************************)
(* llm_metrics/_runtime.py: the default pipeline, a buffer and a client in *)
(* two module globals, built on the first emit() and replaced by           *)
(* configure() and shutdown().                                             *)
(*                                                                         *)
(* The writers hold _lock; emit() first reads the buffer without it, so    *)
(* every store to a global is a step of its own.                           *)
(* A pipeline's buffer and client carry the same number.                   *)
(***************************************************************************)
EXTENDS Integers, FiniteSets

CONSTANTS
    Threads,   \* application threads
    Sinks,     \* buffers an embedder may install with configure(sink=...)
    MaxCalls,  \* bound: calls of configure() and shutdown()
    None       \* no buffer, no client, no thread

ASSUME RuntimeAssumption ==
    /\ IsFiniteSet(Threads)
    /\ MaxCalls \in Nat
    /\ None \notin Threads \cup Sinks \cup Int
    /\ Sinks \cap Int = {}

\* The first emit() builds one, configure() one, and the emit() after a
\* shutdown() one.
Pipeline == 1..(MaxCalls + 1)

Buffer == Pipeline \cup Sinks

VARIABLES
    enabled,   \* _settings.enabled
    buffer,    \* _buffer
    client,    \* _client
    lock,      \* who holds _lock
    pc,        \* where each thread is
    local,     \* the buffer emit() has read
    retiring,  \* the buffer and client a thread has taken out of use
    made,      \* pipelines begun so far
    running,   \* buffers that accept events
    connected, \* clients that are not closed
    calls,     \* bound: calls made so far
    installs,  \* history: how often a buffer became the installed one
    shut       \* history: how often a buffer was shut down by a call

globalVars == <<enabled, buffer, client>>
resourceVars == <<made, running, connected>>
historyVars == <<installs, shut>>

vars == <<globalVars, resourceVars, historyVars, lock, pc, local, retiring, calls>>

Nothing == [buffer |-> None, client |-> None]

Pair == [buffer : Buffer \cup {None}, client : Pipeline \cup {None}]

Labels == {"idle", "read", "lockSink", "inSink", "installBuffer", "add",
           "rebuildClient", "rebuildBuffer", "swapSink", "dropClient",
           "retireBuffer", "retireClient"}

TypeOK ==
    /\ enabled \in BOOLEAN
    /\ buffer \in Buffer \cup {None}
    /\ client \in Pipeline \cup {None}
    /\ lock \in Threads \cup {None}
    /\ pc \in [Threads -> Labels]
    /\ local \in [Threads -> Buffer \cup {None}]
    /\ retiring \in [Threads -> Pair]
    /\ made \in Pipeline \cup {0}
    /\ running \subseteq Buffer
    /\ connected \subseteq Pipeline
    /\ calls \in 0..MaxCalls
    /\ installs \in [Buffer -> Nat]
    /\ shut \in [Buffer -> Nat]

Init ==
    /\ enabled = TRUE
    /\ buffer = None
    /\ client = None
    /\ lock = None
    /\ pc = [t \in Threads |-> "idle"]
    /\ local = [t \in Threads |-> None]
    /\ retiring = [t \in Threads |-> Nothing]
    /\ made = 0
    /\ running = Sinks
    /\ connected = {}
    /\ calls = 0
    /\ installs = [b \in Buffer |-> 0]
    /\ shut = [b \in Buffer |-> 0]

Goto(t, label) == pc' = [pc EXCEPT ![t] = label]

\* Variant: the writers do not exclude each other.
AcquireWithoutWaiting(t) == lock' = t

Acquire(t) == lock = None /\ lock' = t

\* Variant: the old pipeline is retired inside the "with" block.
ReleaseUnlessRetiring(t) ==
    lock' = IF lock = t /\ retiring[t] = Nothing THEN None ELSE lock

\* Of the lock that t holds, if writers exclude each other.
Release(t) == lock' = IF lock = t THEN None ELSE lock

Installs(b) == installs' = [installs EXCEPT ![b] = @ + 1]

-----------------------------------------------------------------------------
(* emit() and _sink()                                                      *)

EmitBegin(t) ==
    /\ pc[t] = "idle"
    /\ enabled
    /\ Goto(t, "read")
    /\ UNCHANGED <<globalVars, resourceVars, lock, local, retiring, calls, historyVars>>

\* Without the lock.
EmitRead(t) ==
    /\ pc[t] = "read"
    /\ local' = [local EXCEPT ![t] = buffer]
    /\ Goto(t, IF buffer = None THEN "lockSink" ELSE "add")
    /\ UNCHANGED <<globalVars, resourceVars, lock, retiring, calls, historyVars>>

SinkLock(t) ==
    /\ pc[t] = "lockSink"
    /\ Acquire(t)
    /\ Goto(t, "inSink")
    /\ UNCHANGED <<globalVars, resourceVars, local, retiring, calls, historyVars>>

\* Another thread has built the pipeline, or the SDK was disabled, meanwhile.
SinkFound(t) ==
    /\ pc[t] = "inSink"
    /\ buffer # None \/ ~enabled
    /\ local' = [local EXCEPT ![t] = buffer]
    /\ Release(t)
    /\ Goto(t, IF buffer = None THEN "idle" ELSE "add")
    /\ UNCHANGED <<globalVars, resourceVars, retiring, calls, historyVars>>

\* Variant: the global is not looked at again under the lock.
MissingUnchecked == enabled

Missing == buffer = None /\ enabled

\* _install_default_locked(): the client first ...
InstallClient(t) ==
    /\ pc[t] = "inSink"
    /\ Missing
    /\ made' = made + 1
    /\ client' = made'
    /\ connected' = connected \cup {made'}
    /\ Goto(t, "installBuffer")
    /\ UNCHANGED <<enabled, buffer, running, lock, local, retiring, calls, historyVars>>

\* ... and then the buffer that sends through it.
InstallBuffer(t) ==
    /\ pc[t] = "installBuffer"
    /\ buffer' = client
    /\ Installs(client)
    /\ running' = running \cup {client}
    /\ local' = [local EXCEPT ![t] = client]
    /\ Release(t)
    /\ Goto(t, "add")
    /\ UNCHANGED <<enabled, client, made, connected, retiring, calls, shut>>

\* buffer.add(event): kept if the buffer runs, dropped if it has been retired
\* since it was read.
EmitAdd(t) ==
    /\ pc[t] = "add"
    /\ local' = [local EXCEPT ![t] = None]
    /\ Goto(t, "idle")
    /\ UNCHANGED <<globalVars, resourceVars, lock, retiring, calls, historyVars>>

-----------------------------------------------------------------------------
(* configure()                                                             *)

Call == calls < MaxCalls /\ calls' = calls + 1

\* Settings alone: nothing is built or retired.
ConfigureSettings(t) ==
    /\ pc[t] = "idle"
    /\ Call
    /\ lock = None
    /\ enabled' \in BOOLEAN
    /\ UNCHANGED <<buffer, client, resourceVars, lock, pc, local, retiring, historyVars>>

\* Transport arguments: the outgoing pair is remembered ...
ConfigureRebuild(t) ==
    /\ pc[t] = "idle"
    /\ Call
    /\ Acquire(t)
    /\ retiring' = [retiring EXCEPT ![t] = [buffer |-> buffer, client |-> client]]
    /\ Goto(t, "rebuildClient")
    /\ UNCHANGED <<globalVars, resourceVars, local, historyVars>>

\* ... and replaced, the client first.
RebuildClient(t) ==
    /\ pc[t] = "rebuildClient"
    /\ made' = made + 1
    /\ client' = made'
    /\ connected' = connected \cup {made'}
    /\ Goto(t, "rebuildBuffer")
    /\ UNCHANGED <<enabled, buffer, running, lock, local, retiring, calls, historyVars>>

RebuildBuffer(t) ==
    /\ pc[t] = "rebuildBuffer"
    /\ buffer' = client
    /\ Installs(client)
    /\ running' = running \cup {client}
    /\ Release(t)
    /\ Goto(t, "retireBuffer")
    /\ UNCHANGED <<enabled, client, made, connected, local, retiring, calls, shut>>

\* EventBuffer() raises ValueError for its max_size, flush_at or
\* flush_interval: the call ends there.
RebuildRaises(t) ==
    /\ pc[t] = "rebuildBuffer"
    /\ retiring' = [retiring EXCEPT ![t] = Nothing]
    /\ Release(t)
    /\ Goto(t, "idle")
    /\ UNCHANGED <<globalVars, resourceVars, local, calls, historyVars>>

\* Variant: the running buffer is retired also when it is passed back.
OutgoingAlways(s) == [buffer |-> buffer, client |-> client]

Outgoing(s) ==
    IF s = buffer THEN Nothing ELSE [buffer |-> buffer, client |-> client]

\* sink=...: it may be the installed one, or one that was replaced before and
\* is shut down, or about to be.
ConfigureSink(t, s) ==
    /\ pc[t] = "idle"
    /\ Call
    /\ Acquire(t)
    /\ retiring' = [retiring EXCEPT ![t] = Outgoing(s)]
    /\ buffer' = s
    /\ IF s = buffer THEN UNCHANGED installs ELSE Installs(s)
    /\ Goto(t, "swapSink")
    /\ UNCHANGED <<enabled, client, resourceVars, local, shut>>

\* The client is forgotten, and the lock released: also the end of shutdown().
DropClient(t) ==
    /\ pc[t] = "swapSink"
    /\ client' = None
    /\ Release(t)
    /\ Goto(t, "retireBuffer")
    /\ UNCHANGED <<enabled, buffer, resourceVars, local, retiring, calls, historyVars>>

-----------------------------------------------------------------------------
(* shutdown() and _retire()                                                *)

ShutdownSwap(t) ==
    /\ pc[t] = "idle"
    /\ Call
    /\ Acquire(t)
    /\ retiring' = [retiring EXCEPT ![t] = [buffer |-> buffer, client |-> client]]
    /\ buffer' = None
    /\ Goto(t, "swapSink")
    /\ UNCHANGED <<enabled, client, resourceVars, local, historyVars>>

\* buffer.shutdown(), which may block on the network, without the lock.
RetireBuffer(t) ==
    /\ pc[t] = "retireBuffer"
    /\ running' = running \ {retiring[t].buffer}
    /\ shut' = IF retiring[t].buffer = None THEN shut
               ELSE [shut EXCEPT ![retiring[t].buffer] = @ + 1]
    /\ Goto(t, "retireClient")
    /\ UNCHANGED <<globalVars, made, connected, lock, local, retiring, calls, installs>>

RetireClient(t) ==
    /\ pc[t] = "retireClient"
    /\ connected' = connected \ {retiring[t].client}
    /\ retiring' = [retiring EXCEPT ![t] = Nothing]
    /\ Goto(t, "idle")
    /\ UNCHANGED <<globalVars, made, running, lock, local, calls, historyVars>>

-----------------------------------------------------------------------------

Emit(t) ==
    \/ EmitRead(t)
    \/ SinkLock(t)
    \/ SinkFound(t)
    \/ InstallClient(t)
    \/ InstallBuffer(t)
    \/ EmitAdd(t)

Configure(t) ==
    \/ ConfigureSettings(t)
    \/ ConfigureRebuild(t)
    \/ \E s \in Sinks : ConfigureSink(t, s)

\* The rest of a call that holds the lock.
Swap(t) ==
    \/ RebuildClient(t)
    \/ RebuildBuffer(t)
    \/ RebuildRaises(t)
    \/ DropClient(t)

Next ==
    \E t \in Threads :
        \/ EmitBegin(t)
        \/ Emit(t)
        \/ Configure(t)
        \/ Swap(t)
        \/ ShutdownSwap(t)
        \/ RetireBuffer(t)
        \/ RetireClient(t)

Spec == Init /\ [][Next]_vars

\* Threads that have begun go on. Nobody has to call anything, and the old
\* buffer's shutdown need not return: its thread may be inside the transport.
FairSpec ==
    Spec /\ \A t \in Threads : WF_vars(Emit(t)) /\ WF_vars(Swap(t))

-----------------------------------------------------------------------------
(* Properties                                                              *)

\* No pipeline is left running where nobody would ever shut it down: a default
\* buffer whose flush thread runs is the installed one, or some caller of
\* configure() or shutdown() has it in hand (the second look at _buffer under
\* the lock in _sink(), the swap in configure() and shutdown()).
PipelinesAccounted ==
    \A b \in running \cap Pipeline :
        b = buffer \/ \E t \in Threads : retiring[t].buffer = b

\* emit() is never sent to a buffer that has been shut down while the global
\* still names it: "Passing back the buffer that is already installed keeps it
\* running", whatever the other threads replace meanwhile.  Except for a sink
\* that is installed anew after a call has taken it out of use: that call shuts
\* it down all the same, before or after.
InstalledIsOpen == buffer # None /\ installs[buffer] = 1 => buffer \in running

\* The callers that have taken a buffer out of use and not yet shut it down.
Retirers(b) == {t \in Threads : retiring[t].buffer = b /\ pc[t] \in {"swapSink", "retireBuffer"}}

\* Each time a buffer was installed it is shut down once, by one caller: two
\* concurrent calls of configure() or shutdown() never both get hold of the
\* same pair, and none of it is left behind.  A default pipeline is installed
\* once, so it is never shut down twice; a sink that is installed again is.
RetiredOnce ==
    /\ \A b \in Buffer :
        shut[b] + Cardinality(Retirers(b)) + (IF buffer = b THEN 1 ELSE 0) = installs[b]
    /\ \A b \in Pipeline : installs[b] <= 1

-----------------------------------------------------------------------------
(* The inductive invariant behind the invariants above.                    *)

\* The steps that run under _lock are those of its holder.
Mutex ==
    \A t \in Threads :
        pc[t] \in {"inSink", "installBuffer", "rebuildClient", "rebuildBuffer", "swapSink"}
            <=> lock = t

\* A pair that was taken out of use is in the hands of its caller.  While the
\* new pair is built it is still the installed one, and never again unless it
\* is a sink; once its buffer has been shut down it does not run.
InHand ==
    \A t \in Threads :
        /\ retiring[t].buffer # None
            => pc[t] \in {"rebuildClient", "rebuildBuffer", "swapSink",
                          "retireBuffer", "retireClient"}
        /\ IF pc[t] \in {"rebuildClient", "rebuildBuffer"}
           THEN retiring[t].buffer = buffer
           ELSE retiring[t].buffer \in Pipeline => retiring[t].buffer # buffer
        /\ pc[t] = "retireClient" => retiring[t].buffer \notin running

\* A sink runs until a call has shut it down.
SinksRun == \A s \in Sinks : shut[s] = 0 => s \in running

Known(b) ==
    \/ b \in running \/ b = buffer \/ installs[b] # 0
    \/ \E t \in Threads : retiring[t].buffer = b

\* Pipelines are numbered as they are begun, and one whose client was just
\* built has no buffer yet.
Numbered ==
    /\ \A b \in Pipeline : Known(b) => b <= made
    /\ \A t \in Threads :
        pc[t] \in {"installBuffer", "rebuildBuffer"}
            => client = made /\ made # 0 /\ ~Known(made)

\* A call builds one pipeline, or takes one away that emit() builds again;
\* emit() builds only where nothing is installed.
Affordable ==
    /\ made <= calls + 1
    /\ (buffer = None /\ \A t \in Threads : pc[t] # "installBuffer") => made <= calls
    /\ \A t \in Threads :
        /\ pc[t] = "rebuildClient" => made <= calls /\ (buffer = None => made < calls)
        /\ pc[t] = "installBuffer" => buffer = None

RuntimeInv ==
    /\ TypeOK
    /\ Mutex
    /\ Affordable
    /\ Numbered
    /\ InHand
    /\ SinksRun
    /\ InstalledIsOpen
    /\ PipelinesAccounted
    /\ RetiredOnce

-----------------------------------------------------------------------------
\* emit() "never blocks on I/O": it returns even if the shutdown of a replaced
\* pipeline, which another thread runs, never does.
EmitReturns ==
    \A t \in Threads :
        pc[t] \in {"read", "lockSink", "inSink", "installBuffer", "add"} ~> pc[t] = "idle"

=============================================================================
