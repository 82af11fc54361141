--------------------------- MODULE ReactiveState ---------------------------
(***************************************************************************)
(* core/state/ReactiveState.py under the use WorkflowExecutor makes of it  *)
(* to start task threads: a task thread that ends executes                 *)
(*     self.state.ready_tasks += unstarted_threads                         *)
(* that is, one get, an extension of the list in place, and one set.  Gets *)
(* and sets from outside take the lock and run the hooks; the hook on      *)
(* ready_tasks starts every thread of the list and empties it.  Code that  *)
(* runs in a hook is told from code outside by one flag, which all threads *)
(* share: an access of another thread that falls into a hook is taken for  *)
(* the hook's own, and gets neither the lock nor the hooks.                *)
(*                                                                         *)
(* "peek" stands for the accesses to all other attributes.  They run the   *)
(* hook on_change_state, which returns at once in a run nobody terminates. *)
(***************************************************************************)
EXTENDS Naturals, Sequences, SequencesExt

CONSTANTS
    Caller,    \* threads that end
    Child,     \* task threads that are not started yet
    Handed,    \* the children each caller has fetched
    NoCaller,  \* the lock is free
    MaxPeeks   \* bound: accesses to other attributes, of all callers

\* Every thread object is made by one _fetch_ready_tasks and handed over once.
ASSUME HandedAssumption ==
    /\ Handed \in [Caller -> Seq(Child)]
    /\ \A c, d \in Caller : \A i \in DOMAIN Handed[c], j \in DOMAIN Handed[d] :
          Handed[c][i] = Handed[d][j] => c = d /\ i = j
    /\ NoCaller \notin Caller
    /\ MaxPeeks \in Nat

VARIABLES
    called_externally, \* the flag
    lock,              \* the holder of self._lock
    lists,             \* the list objects created so far
    ready_tasks,       \* which of them is self._state["ready_tasks"]
    started,           \* the children whose start() was called
    pc,                \* per caller: the statement it is about to execute
    access,            \* per caller: the access it is making
    held,              \* per caller: the list its get returned
    iterated,          \* per caller: the list the loop of its hook runs over
    cursor,            \* per caller: position in that loop
    peeks,             \* accesses to other attributes so far
    bypassed           \* history: some access was taken for a hook's own

heap == <<lists, ready_tasks, started>>
locals == <<held, iterated, cursor>>
vars == <<called_externally, lock, heap, pc, access, locals, peeks, bypassed>>

Inside == {"hooks", "iterate", "loop", "drain", "leave"}  \* _run_hooks
PcLabel == {"call", "extend", "assign", "acquire", "internal", "release", "done", "dead"} \cup Inside

TypeOK ==
    /\ called_externally \in BOOLEAN
    /\ lock \in Caller \cup {NoCaller}
    /\ lists \in Seq(Seq(Child))
    /\ ready_tasks \in 1 .. Len(lists)
    /\ started \subseteq Child
    /\ pc \in [Caller -> PcLabel]
    /\ access \in [Caller -> {"peek", "get", "set"}]
    /\ held \in [Caller -> 1 .. Len(lists)]
    /\ iterated \in [Caller -> 1 .. Len(lists)]
    /\ cursor \in [Caller -> Nat \ {0}]
    /\ peeks \in 0 .. MaxPeeks
    /\ bypassed \in BOOLEAN

Init ==
    /\ called_externally = TRUE
    /\ lock = NoCaller
    /\ lists = << <<>> >>
    /\ ready_tasks = 1
    /\ started = {}
    /\ pc = [c \in Caller |-> "call"]
    /\ access = [c \in Caller |-> "peek"]
    /\ held = [c \in Caller |-> 1]
    /\ iterated = [c \in Caller |-> 1]
    /\ cursor = [c \in Caller |-> 1]
    /\ peeks = 0
    /\ bypassed = FALSE

Goto(c, label) == pc' = [pc EXCEPT ![c] = label]
-----------------------------------------------------------------------------
(***************************************************************************)
(* The statement of the caller                                             *)
(***************************************************************************)

\* __getattr__ and __setattr__ ask the flag, without the lock.
Dispatch(c, kind) ==
    /\ Goto(c, IF called_externally THEN "acquire" ELSE "internal")
    /\ access' = [access EXCEPT ![c] = kind]
    /\ bypassed' = (bypassed \/ ~called_externally)
    /\ UNCHANGED <<called_externally, lock, started, ready_tasks, locals>>

Peek(c) ==
    /\ pc[c] = "call" /\ peeks < MaxPeeks
    /\ peeks' = peeks + 1
    /\ Dispatch(c, "peek")
    /\ UNCHANGED lists

Get(c) == pc[c] = "call" /\ Dispatch(c, "get") /\ UNCHANGED <<lists, peeks>>

\* += extends the list the get returned, in place ...
Extend(c) ==
    /\ pc[c] = "extend"
    /\ lists' = [lists EXCEPT ![held[c]] = @ \o Handed[c]]
    /\ Goto(c, "assign")
    /\ UNCHANGED <<called_externally, lock, ready_tasks, started, access, locals,
                   peeks, bypassed>>

\* ... and then sets the attribute to it.
Set(c) == pc[c] = "assign" /\ Dispatch(c, "set") /\ UNCHANGED <<lists, peeks>>

\* The statement after the access.
Continue(c) ==
    \/ access[c] = "peek" /\ Goto(c, "call")
    \/ access[c] = "get" /\ Goto(c, "extend")
    \/ access[c] = "set" /\ Goto(c, "done")

\* The effect of an access on _state.
ReadOrWrite(c) ==
    /\ held' = IF access[c] = "get" THEN [held EXCEPT ![c] = ready_tasks] ELSE held
    /\ ready_tasks' = IF access[c] = "set" THEN held[c] ELSE ready_tasks
-----------------------------------------------------------------------------
(***************************************************************************)
(* _get_internal, _set_internal, _get_external, _set_external, _run_hooks  *)
(***************************************************************************)
Internal(c) ==
    /\ pc[c] = "internal"
    /\ ReadOrWrite(c)
    /\ Continue(c)
    /\ UNCHANGED <<called_externally, lock, lists, started, access, iterated,
                   cursor, peeks, bypassed>>

\* Fault: the lock is not waited for.
Free_Always == TRUE
Free == lock = NoCaller

Acquire(c) ==
    /\ pc[c] = "acquire" /\ Free
    /\ lock' = c
    /\ ReadOrWrite(c)
    /\ Goto(c, "hooks")
    /\ UNCHANGED <<called_externally, lists, started, access, iterated, cursor,
                   peeks, bypassed>>

\* Only ready_tasks has a hook that does something.
RunHooks(c) ==
    /\ pc[c] = "hooks"
    /\ called_externally' = FALSE
    /\ Goto(c, IF access[c] = "peek" THEN "leave" ELSE "iterate")
    /\ UNCHANGED <<lock, heap, access, locals, peeks, bypassed>>

\* Fault: the loop starts one before the first thread.
FirstPosition_Zero == 0
FirstPosition == 1

\* _on_change_ready_task: for t in state.ready_tasks
Iterate(c) ==
    /\ pc[c] = "iterate"
    /\ iterated' = [iterated EXCEPT ![c] = ready_tasks]
    /\ cursor' = [cursor EXCEPT ![c] = FirstPosition]
    /\ Goto(c, "loop")
    /\ UNCHANGED <<called_externally, lock, heap, access, held, peeks, bypassed>>

\* t.start() for a thread that was not started before.
StartThread(c) ==
    LET list == lists[iterated[c]] IN
      /\ pc[c] = "loop" /\ cursor[c] <= Len(list)
      /\ list[cursor[c]] \notin started
      /\ started' = started \cup {list[cursor[c]]}
      /\ cursor' = [cursor EXCEPT ![c] = @ + 1]
      /\ UNCHANGED <<called_externally, lock, lists, ready_tasks, pc, access, held,
                     iterated, peeks, bypassed>>

\* Fault: an error in a hook keeps the lock.
LockAfterError_Kept == lock
LockAfterError == NoCaller

\* For one that was, it raises: the lock is released, the flag stays as it is,
\* and the error ends the caller.
StartAgain(c) ==
    LET list == lists[iterated[c]] IN
      /\ pc[c] = "loop" /\ cursor[c] <= Len(list)
      /\ list[cursor[c]] \in started
      /\ lock' = LockAfterError
      /\ Goto(c, "dead")
      /\ UNCHANGED <<called_externally, heap, access, locals, peeks, bypassed>>

EndLoop(c) ==
    /\ pc[c] = "loop" /\ cursor[c] > Len(lists[iterated[c]])
    /\ Goto(c, "drain")
    /\ UNCHANGED <<called_externally, lock, heap, access, locals, peeks, bypassed>>

\* Fault: the threads that were started stay in the list.
Emptied_Never(c) == lists[iterated[c]]
Emptied(c) == <<>>

\* state.ready_tasks = []: a new list; the loop's variables go out of scope.
Drain(c) ==
    /\ pc[c] = "drain"
    /\ lists' = Append(lists, Emptied(c))
    /\ ready_tasks' = Len(lists) + 1
    /\ iterated' = [iterated EXCEPT ![c] = 1]
    /\ cursor' = [cursor EXCEPT ![c] = 1]
    /\ Goto(c, "leave")
    /\ UNCHANGED <<called_externally, lock, started, access, held, peeks, bypassed>>

LeaveHooks(c) ==
    /\ pc[c] = "leave"
    /\ called_externally' = TRUE
    /\ Goto(c, "release")
    /\ UNCHANGED <<lock, heap, access, locals, peeks, bypassed>>

Release(c) ==
    /\ pc[c] = "release"
    /\ lock' = NoCaller
    /\ Continue(c)
    /\ UNCHANGED <<called_externally, heap, access, locals, peeks, bypassed>>
-----------------------------------------------------------------------------
Step(c) ==
    \/ Peek(c) \/ Get(c) \/ Extend(c) \/ Set(c)
    \/ Internal(c) \/ Acquire(c) \/ RunHooks(c) \/ Iterate(c) \/ StartThread(c)
    \/ StartAgain(c) \/ EndLoop(c) \/ Drain(c) \/ LeaveHooks(c) \/ Release(c)

Next == \E c \in Caller : Step(c)

\* The callers are running threads.
Spec == Init /\ [][Next]_vars /\ \A c \in Caller : WF_vars(Step(c))
-----------------------------------------------------------------------------
(***************************************************************************)
(* Properties                                                              *)
(***************************************************************************)

\* Hooks run one at a time, and the flag is only ever down while somebody is
\* in a hook, or after an error in one (_run_hooks under self._lock).
HooksExclusive ==
    /\ \A c, d \in Caller : pc[c] \in Inside /\ pc[d] \in Inside => c = d
    /\ ~called_externally =>
          \E c \in Caller : pc[c] \in Inside \cup {"dead"}

\* The flag is the only thing that can go wrong: as long as no access of one
\* thread fell into a hook of another, every thread that was handed over has
\* been started by the time += returns, and no start() raised.
HandedIsStarted ==
    ~bypassed =>
        \A c \in Caller :
            /\ pc[c] # "dead"
            /\ pc[c] = "done" => ToSet(Handed[c]) \subseteq started

\* Every caller gets through its statement, or dies of an error in a hook: no
\* access waits for ever, in particular not after such an error.
AccessesReturn == \A c \in Caller : <>(pc[c] \in {"done", "dead"})

\* "NOTE Triggers hook _on_change_ready_task" (WorkflowExecutor.py:364): what
\* has been added to ready_tasks is started.
HandedOverIsStarted ==
    \A c \in Caller : (pc[c] = "done") ~> (ToSet(Handed[c]) \subseteq started)
=============================================================================
