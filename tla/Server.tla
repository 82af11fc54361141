------------------------------- MODULE Server -------------------------------
(***************************************************************************)
(* core/Server.py: the threads that serve the messages of the inbound      *)
(* queue.  Each takes a worker from the pool (module WorkerPool, with the  *)
(* messages as its clients), registers it under the idempotency key of the *)
(* submission, runs the workflow on it, and gives it back.  The list of    *)
(* active workers and the workers themselves are shared without a lock.    *)
(*                                                                         *)
(* Of a worker (core/workflows/WorkflowExecutor.py) this module keeps what *)
(* one run can leave to the next: its key, can_start, the context, the     *)
(* flags terminating and terminated, and whether its hooks still run       *)
(* (ReactiveState._called_externally, which an error in a hook leaves      *)
(* down).  The run itself is one step (module WorkflowExecutor).           *)
(***************************************************************************)
EXTENDS WorkerPool

CONSTANTS
    Batches,  \* sets of submissions that may arrive
    NoKey,    \* a worker has no key
    NoMessage \* a worker has no context

Message == Client

(***************************************************************************)
(* A submission: its idempotency key, its policy (defer is handled as      *)
(* allow), and what will go wrong with it:                                 *)
(*   undecodable  the body is not JSON                                     *)
(*   invalid      it does not fit the schema                               *)
(*   plugin       a request middleware raises                              *)
(*   key          a part of its idempotency key has no dot, or two         *)
(*   staging      staging fails before the run has a logger, without which *)
(*                the failure cannot be handled: start() raises            *)
(***************************************************************************)
Policy == {"deny", "terminate", "allow"}
Fault == {"none", "undecodable", "invalid", "plugin", "key", "staging"}
KeysOf(batch) == {batch[m].key : m \in Message}

ASSUME BatchAssumption ==
    \A b \in Batches : \A m \in Message :
        /\ b[m].key # NoKey
        /\ b[m].policy \in Policy
        /\ b[m].fault \in Fault
ASSUME NoMessageAssumption == NoMessage \notin Message

VARIABLES
    request,        \* the submission in each message
    pc,             \* per message: the statement its thread is about to execute
    acked,          \* per message: _start_worker's variable
    settled,        \* per message: how often it was acked, nacked or rejected
    active_workers, \* Server.active_workers; order and repetitions do not matter
    found,          \* per message: the active workers still to be terminated
    victim,         \* per message: the one that is being terminated
    filtered,       \* per message: the copy _deregister_worker has made
    key, can_start, ctx, terminating, terminated, hooked, \* per worker
    overlapped      \* history: two threads were in the registry at once

registry == <<active_workers, found, victim, filtered, overlapped>>
workers == <<key, can_start, ctx, terminating, terminated, hooked>>
mail == <<acked, settled>>
serverVars == <<request, pc, mail, registry, workers>>
vars == <<poolVars, serverVars>>

PcLabel == {"check_out", "lookup", "terminate", "append", "start", "deregister",
            "rewrite", "check_in", "over"}

TypeOK ==
    /\ PoolTypeOK
    /\ request \in Batches
    /\ pc \in [Message -> PcLabel]
    /\ acked \in [Message -> BOOLEAN]
    /\ settled \in [Message -> 0 .. 1]
    /\ active_workers \subseteq Worker
    /\ found \in [Message -> SUBSET Worker]
    /\ victim \in [Message -> Worker \cup {NoWorker}]
    /\ filtered \in [Message -> SUBSET Worker]
    /\ key \in [Worker -> KeysOf(request) \cup {NoKey}]
    /\ can_start \in [Worker -> BOOLEAN]
    /\ ctx \in [Worker -> Message \cup {NoMessage}]
    /\ terminating \in [Worker -> BOOLEAN]
    /\ terminated \in [Worker -> BOOLEAN]
    /\ hooked \in [Worker -> BOOLEAN]
    /\ overlapped \in BOOLEAN

Init ==
    /\ PoolInit
    /\ request \in Batches
    /\ pc = [m \in Message |-> "check_out"]
    /\ acked = [m \in Message |-> FALSE]
    /\ settled = [m \in Message |-> 0]
    /\ active_workers = {}
    /\ found = [m \in Message |-> {}]
    /\ victim = [m \in Message |-> NoWorker]
    /\ filtered = [m \in Message |-> {}]
    /\ key = [w \in Worker |-> NoKey]
    /\ can_start = [w \in Worker |-> FALSE]
    /\ ctx = [w \in Worker |-> NoMessage]
    /\ terminating = [w \in Worker |-> FALSE]
    /\ terminated = [w \in Worker |-> FALSE]
    /\ hooked = [w \in Worker |-> TRUE]
    /\ overlapped = FALSE

Goto(m, label) == pc' = [pc EXCEPT ![m] = label]

\* A thread is in the registry from its lookup to its append, and from its
\* copy of the list to the assignment.
InRegistry(m) ==
    \/ pc[m] \in {"terminate", "append", "rewrite"}
    \/ pc[m] = "deregister" /\ victim[m] # NoWorker
Enters(m) == overlapped' = (overlapped \/ \E n \in Message \ {m} : InRegistry(n))
-----------------------------------------------------------------------------
(***************************************************************************)
(* The message                                                             *)
(***************************************************************************)

\* Each of the three is handed to the channel once; acks and nacks by way of
\* the connection's thread, which executes them in turn.
Settle(m) == settled' = [settled EXCEPT ![m] = @ + 1]

\* except Exception: nack, unless the message has been acked, and raise.  The
\* worker, if there is one, is not checked in.
Raise(m) ==
    /\ IF acked[m] THEN UNCHANGED settled ELSE Settle(m)
    /\ Goto(m, "over")

\* A body that is not JSON is rejected; one that is not a submission is nacked.
Unreadable(m) == request[m].fault \in {"undecodable", "invalid"}

Reject(m) ==
    /\ pc[m] = "check_out" /\ Unreadable(m)
    /\ Settle(m)
    /\ Goto(m, "over")
    /\ UNCHANGED <<poolVars, request, acked, registry, workers>>

CheckOutWorker(m) ==
    /\ pc[m] = "check_out" /\ ~Unreadable(m)
    /\ CheckOut(m)
    /\ UNCHANGED serverVars

\* NoAvailableWorkers: nack after a delay, without requeueing.
NoneAvailable(m) ==
    /\ pc[m] = "check_out" /\ place[m] = "refused"
    /\ Settle(m)
    /\ Goto(m, "over")
    /\ UNCHANGED <<poolVars, request, acked, registry, workers>>

\* An IndexError in check_out, or an error in a request middleware.
RaisesEarly(m) ==
    /\ pc[m] = "check_out"
    /\ \/ place[m] = "failed"
       \/ place[m] = "held" /\ request[m].fault = "plugin"
    /\ Raise(m)
    /\ UNCHANGED <<poolVars, request, acked, registry, workers>>

\* Fault: the thread forgets that it has acked.
Acked_Forgotten == FALSE
Acked == TRUE

\* The ack, and the first statement of _register_worker.
Accept(m) ==
    /\ pc[m] = "check_out" /\ place[m] = "held" /\ request[m].fault \notin {"plugin", "key"}
    /\ Settle(m)
    /\ acked' = [acked EXCEPT ![m] = Acked]
    /\ key' = [key EXCEPT ![mine[m]] = request[m].key]
    /\ Goto(m, "lookup")
    /\ UNCHANGED <<poolVars, request, registry, can_start, ctx, terminating, terminated,
                   hooked>>

\* _resolve_idempotency_key raises after the ack: the worker has no key and is not listed,
\* and nobody will check it in.
KeyRaises(m) ==
    /\ pc[m] = "check_out" /\ place[m] = "held" /\ request[m].fault = "key"
    /\ Settle(m)
    /\ acked' = [acked EXCEPT ![m] = Acked]
    /\ Goto(m, "over")
    /\ UNCHANGED <<poolVars, request, registry, workers>>
-----------------------------------------------------------------------------
(***************************************************************************)
(* _register_worker                                                        *)
(***************************************************************************)

\* Fault: every active worker is taken for a duplicate.
Matching_All(m) == active_workers

\* The key is read back from the worker, where another thread that terminates
\* the worker for an earlier submission may have cleared it.
Matching(m) == {w \in active_workers : key[w] = key[mine[m]]}

Lookup(m) ==
    /\ pc[m] = "lookup"
    /\ Enters(m)
    /\ \/ /\ request[m].policy = "deny" /\ Matching(m) # {}
          /\ Goto(m, "deregister")
          /\ UNCHANGED found
       \/ /\ request[m].policy = "terminate" /\ Matching(m) # {}
          /\ found' = [found EXCEPT ![m] = Matching(m)]
          /\ Goto(m, "terminate")
       \/ /\ request[m].policy = "allow" \/ Matching(m) = {}
          /\ Goto(m, "append")
          /\ UNCHANGED found
    /\ UNCHANGED <<poolVars, request, mail, active_workers, victim, filtered, workers>>

\* terminate() sets state.terminating; unless the hooks are off, or the worker
\* is terminated already, the hook on_change_state writes to the logger of the run ...
HookActs(w) == hooked[w] /\ ~terminated[w]
Logging(w) == ctx[w] # NoMessage /\ request[ctx[w]].fault # "staging"

Terminate(m, w) ==
    /\ pc[m] = "terminate" /\ w \in found[m]
    /\ HookActs(w) => Logging(w)
    /\ terminating' = [terminating EXCEPT ![w] = TRUE]
    /\ victim' = [victim EXCEPT ![m] = w]
    /\ Goto(m, "deregister")
    /\ UNCHANGED <<poolVars, request, mail, active_workers, found, filtered, overlapped,
                   key, can_start, ctx, terminated, hooked>>

\* ... which a worker does not have that is registered and not yet staged, or was left
\* in the list when its staging failed: the error leaves the flag of its reactive
\* state down and ends this thread.
TerminateRaises(m, w) ==
    /\ pc[m] = "terminate" /\ w \in found[m]
    /\ HookActs(w) /\ ~Logging(w)
    /\ terminating' = [terminating EXCEPT ![w] = TRUE]
    /\ hooked' = [hooked EXCEPT ![w] = FALSE]
    /\ Raise(m)
    /\ UNCHANGED <<poolVars, request, acked, registry, key, can_start, ctx,
                   terminated>>

\* Fault: the worker is not entered in the list.
Listed_Not(m) == active_workers
Listed(m) == active_workers \cup {mine[m]}

Register(m) ==
    /\ pc[m] = "append"
    /\ can_start' = [can_start EXCEPT ![mine[m]] = TRUE]
    /\ active_workers' = Listed(m)
    /\ Goto(m, "start")
    /\ UNCHANGED <<poolVars, request, mail, found, victim, filtered, overlapped, key, ctx,
                   terminating, terminated, hooked>>
-----------------------------------------------------------------------------
(***************************************************************************)
(* The run, and _deregister_worker                                         *)
(***************************************************************************)
SkipStart(m) ==
    /\ pc[m] = "start" /\ ~can_start[mine[m]]
    /\ Goto(m, "deregister")
    /\ UNCHANGED <<poolVars, request, mail, registry, workers>>

\* Staging clears can_start and sets the context.  Without hooks no task
\* thread is ever started.
Stages(m) ==
    /\ pc[m] = "start" /\ can_start[mine[m]]
    /\ can_start' = [can_start EXCEPT ![mine[m]] = FALSE]
    /\ ctx' = [ctx EXCEPT ![mine[m]] = m]
    /\ UNCHANGED <<poolVars, request, acked, registry, key, terminating, terminated, hooked>>

Start(m) ==
    /\ Stages(m) /\ request[m].fault # "staging"
    /\ Goto(m, "deregister")
    /\ UNCHANGED settled

\* An error in start() is swallowed by interruptable if the worker is
\* terminating or terminated.
StartRaises(m) ==
    /\ Stages(m) /\ request[m].fault = "staging"
    /\ IF terminating[mine[m]] \/ terminated[mine[m]]
       THEN Goto(m, "deregister") /\ UNCHANGED settled
       ELSE Raise(m)

\* The worker a thread is deregistering: one it has terminated, or its own
\* after the threads of the run have ended.
Target(m) == IF victim[m] = NoWorker THEN mine[m] ELSE victim[m]

\* Fault: the key stays.
ClearedKey_Kept(w) == key[w]
ClearedKey(w) == NoKey

Remaining(w) == active_workers \ {w}

\* worker.key = None and the copy of the list.
Deregister(m) ==
    /\ pc[m] = "deregister"
    /\ Enters(m)
    /\ key' = [key EXCEPT ![Target(m)] = ClearedKey(Target(m))]
    /\ filtered' = [filtered EXCEPT ![m] = Remaining(Target(m))]
    /\ Goto(m, "rewrite")
    /\ UNCHANGED <<poolVars, request, mail, active_workers, found, victim, can_start, ctx,
                   terminating, terminated, hooked>>

\* The assignment of the copy, and worker.reset(terminated).
Rewrite(m) ==
    /\ pc[m] = "rewrite"
    /\ active_workers' = filtered[m]
    /\ filtered' = [filtered EXCEPT ![m] = {}]
    /\ can_start' = [can_start EXCEPT ![Target(m)] = FALSE]
    /\ ctx' = [ctx EXCEPT ![Target(m)] = NoMessage]
    /\ terminating' = [terminating EXCEPT ![Target(m)] = FALSE]
    /\ terminated' = [terminated EXCEPT ![Target(m)] = victim[m] # NoWorker]
    /\ found' = [found EXCEPT ![m] = @ \ {victim[m]}]
    /\ victim' = [victim EXCEPT ![m] = NoWorker]
    /\ Goto(m, IF victim[m] = NoWorker THEN "check_in"
               ELSE IF found[m] \subseteq {victim[m]} THEN "append" ELSE "terminate")
    /\ UNCHANGED <<poolVars, request, mail, overlapped, key, hooked>>

CheckInWorker(m) ==
    /\ pc[m] = "check_in"
    /\ CheckIn(m)
    /\ UNCHANGED serverVars
-----------------------------------------------------------------------------
Serve(m) ==
    \/ Reject(m) \/ CheckOutWorker(m) \/ NoneAvailable(m) \/ RaisesEarly(m) \/ Accept(m)
    \/ KeyRaises(m) \/ Lookup(m) \/ Register(m)
    \/ \E w \in Worker : Terminate(m, w) \/ TerminateRaises(m, w)
    \/ SkipStart(m) \/ Start(m) \/ StartRaises(m)
    \/ Deregister(m) \/ Rewrite(m) \/ CheckInWorker(m)

Next == \E m \in Message : Serve(m)

\* Threads run, and workflows end.
Spec == Init /\ [][Next]_vars /\ \A m \in Message : WF_vars(Serve(m))
-----------------------------------------------------------------------------
(***************************************************************************)
(* Properties                                                              *)
(***************************************************************************)

\* check_out has died with the lock: every later one waits for ever.
LockLost == \E c \in Client : place[c] = "failed"

\* The thread has come to its end, regular or not.
Ended(m) ==
    \/ pc[m] = "over"
    \/ pc[m] = "check_in" /\ place[m] \in {"away", "exceeded"}

\* Every message is acked, nacked or rejected exactly once (the flag acked of
\* _start_worker), and every thread comes to its end.
SettledOnce ==
    \A m \in Message : <>[](LockLost \/ (Ended(m) /\ settled[m] = 1))

\* A key on a worker is the key of the submission that has the worker, even
\* while other threads terminate and deregister it.
KeyOfHolder ==
    \A w \in Worker : key[w] # NoKey =>
        \E m \in Message : Holding(m) /\ mine[m] = w /\ key[w] = request[m].key

\* The submission's workflow is running, and nobody has terminated it.
Serving(m) ==
    /\ pc[m] = "deregister" /\ victim[m] = NoWorker
    /\ ctx[mine[m]] = m /\ ~terminating[mine[m]]

\* With the policy deny, no submission is registered while another one with
\* its key is served (_register_worker), as long as no two threads are in the
\* registry at once.
DenyExcludes ==
    [][\A m \in Message :
          pc[m] = "append" /\ pc'[m] = "start" /\ request[m].policy = "deny" /\ ~overlapped
             => \A n \in Message \ {m} : Serving(n) => request[n].key # request[m].key]_vars

\* On the same condition, a run is terminated only by another submission with
\* its key, and one that has the policy terminate.
TerminatesDuplicates ==
    [][\A m \in Message, w \in Worker :
          victim[m] = NoWorker /\ victim'[m] = w /\ ctx[w] # NoMessage /\ ~overlapped
             => /\ ctx[w] # m
                /\ request[ctx[w]].key = request[m].key
                /\ request[m].policy = "terminate"]_vars

\* "After each run of a workflow, the WorkflowExecutor and its EventExchange
\* are reset" (WorkflowExecutor.py:78-79): a worker in the pool has nothing
\* left of an earlier run.
IdleIsFresh ==
    \A w \in ToSet(pool) :
        /\ key[w] = NoKey /\ ctx[w] = NoMessage
        /\ ~can_start[w] /\ ~terminating[w] /\ ~terminated[w]
        /\ hooked[w]
=============================================================================
