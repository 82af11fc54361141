----------------------------- MODULE WorkerPool -----------------------------
(***************************************************************************)
(* core/workers/WorkerPool.py: check_out under the pool's lock, check_in   *)
(* without it.  One action is one access to pool or checked_out.           *)
(***************************************************************************)
EXTENDS Integers, Sequences, SequencesExt

CONSTANTS
    Client,       \* the threads that use the pool
    Worker,       \* all workers that may ever be made
    StartingPool, \* the workers made in __init__
    Limits,       \* the values of max_workers
    NoClient,     \* the lock is free
    NoWorker      \* a client has no worker

ASSUME PoolAssumption ==
    /\ StartingPool \in Seq(Worker)
    /\ \A i, j \in DOMAIN StartingPool : StartingPool[i] = StartingPool[j] => i = j
    /\ Limits \subseteq Nat
    /\ NoClient \notin Client
    /\ NoWorker \notin Worker

VARIABLES
    max_workers,
    pool,        \* the deque, from left to right
    checked_out,
    lock,        \* the holder of self.lock
    place,       \* per client: where it is in check_out or check_in
    mine,        \* per client: the worker it is given or gives back
    total        \* per client: the first half of the count it is making

poolVars == <<max_workers, pool, checked_out, lock, place, mine, total>>

Place == {"away", "pop", "count", "lend", "held", "refused", "failed",  \* check_out
          "return", "recount", "recheck", "expel", "exceeded"}          \* check_in

PoolTypeOK ==
    /\ max_workers \in Limits
    /\ pool \in Seq(Worker)
    /\ checked_out \in Seq(Worker)
    /\ lock \in Client \cup {NoClient}
    /\ place \in [Client -> Place]
    /\ mine \in [Client -> Worker \cup {NoWorker}]
    /\ total \in [Client -> Nat]

PoolInit ==
    /\ max_workers \in Limits
    /\ pool = StartingPool
    /\ checked_out = <<>>
    /\ lock = NoClient
    /\ place = [c \in Client |-> "away"]
    /\ mine = [c \in Client |-> NoWorker]
    /\ total = [c \in Client |-> 0]

Move(c, label) == place' = [place EXCEPT ![c] = label]

\* The client has the worker to itself, from the pop or the construction on
\* until the worker is back in the deque.
Holding(c) == place[c] \in {"lend", "held", "return"}
-----------------------------------------------------------------------------
(***************************************************************************)
(* check_out                                                               *)
(***************************************************************************)

\* The lock, the first test of the length, and the first half of the count.
Acquire(c) ==
    /\ place[c] = "away" /\ lock = NoClient
    /\ lock' = c
    /\ Move(c, IF Len(pool) > 0 THEN "pop" ELSE "count")
    /\ total' = [total EXCEPT ![c] = IF Len(pool) > 0 THEN 0 ELSE Len(checked_out)]
    /\ UNCHANGED <<max_workers, pool, checked_out, mine>>

\* Fault: the worker that is handed out stays in the deque.
Popped_Kept == pool
Popped == Front(pool)

Pop(c) ==
    /\ place[c] = "pop" /\ pool # <<>>
    /\ mine' = [mine EXCEPT ![c] = Last(pool)]
    /\ pool' = Popped
    /\ Move(c, "lend")
    /\ UNCHANGED <<max_workers, checked_out, lock, total>>

\* A check_in has emptied the deque after the test: IndexError, and the lock
\* is never released.
PopFails(c) ==
    /\ place[c] = "pop" /\ pool = <<>>
    /\ Move(c, "failed")
    /\ UNCHANGED <<max_workers, pool, checked_out, lock, mine, total>>

\* A worker nobody has seen before.
Create(c) ==
    /\ place[c] = "count" /\ total[c] + Len(pool) < max_workers
    /\ \E w \in Worker :
          /\ w \notin ToSet(pool)
          /\ \A d \in Client : mine[d] # w
          /\ mine' = [mine EXCEPT ![c] = w]
    /\ total' = [total EXCEPT ![c] = 0]
    /\ Move(c, "lend")
    /\ UNCHANGED <<max_workers, pool, checked_out, lock>>

Lend(c) ==
    /\ place[c] = "lend"
    /\ checked_out' = Append(checked_out, mine[c])
    /\ lock' = NoClient
    /\ Move(c, "held")
    /\ UNCHANGED <<max_workers, pool, mine, total>>

\* Fault: a refusal keeps the lock.
LockAfterRefusal_Kept == lock
LockAfterRefusal == NoClient

\* NoAvailableWorkers.
Refuse(c) ==
    /\ place[c] = "count" /\ total[c] + Len(pool) >= max_workers
    /\ lock' = LockAfterRefusal
    /\ total' = [total EXCEPT ![c] = 0]
    /\ Move(c, "refused")
    /\ UNCHANGED <<max_workers, pool, checked_out, mine>>
-----------------------------------------------------------------------------
(***************************************************************************)
(* check_in                                                                *)
(***************************************************************************)

\* checked_out.remove, if it is listed.
TakeOff(c) ==
    /\ place[c] = "held"
    /\ checked_out' = RemoveFirst(checked_out, mine[c])
    /\ Move(c, "return")
    /\ UNCHANGED <<max_workers, pool, lock, mine, total>>

Return(c) ==
    /\ place[c] = "return"
    /\ pool' = <<mine[c]>> \o pool
    /\ Move(c, "recount")
    /\ UNCHANGED <<max_workers, checked_out, lock, mine, total>>

\* count() reads the two lengths one after the other.
Recount(c) ==
    /\ place[c] = "recount"
    /\ total' = [total EXCEPT ![c] = Len(checked_out)]
    /\ Move(c, "recheck")
    /\ UNCHANGED <<max_workers, pool, checked_out, lock, mine>>

Recheck(c) ==
    /\ place[c] = "recheck"
    /\ Move(c, IF total[c] + Len(pool) > max_workers THEN "expel" ELSE "away")
    /\ mine' = IF total[c] + Len(pool) > max_workers THEN mine
               ELSE [mine EXCEPT ![c] = NoWorker]
    /\ total' = [total EXCEPT ![c] = 0]
    /\ UNCHANGED <<max_workers, pool, checked_out, lock>>

\* pool.remove, which raises if another client has taken the worker meanwhile;
\* if not, WorkerLimitExceed is raised.
Expel(c) ==
    /\ place[c] = "expel"
    /\ pool' = RemoveFirst(pool, mine[c])
    /\ mine' = [mine EXCEPT ![c] = NoWorker]
    /\ Move(c, "exceeded")
    /\ UNCHANGED <<max_workers, checked_out, lock, total>>
-----------------------------------------------------------------------------
CheckOut(c) == Acquire(c) \/ Pop(c) \/ PopFails(c) \/ Create(c) \/ Lend(c) \/ Refuse(c)
CheckIn(c) == TakeOff(c) \/ Return(c) \/ Recount(c) \/ Recheck(c) \/ Expel(c)

PoolNext == \E c \in Client : CheckOut(c) \/ CheckIn(c)
PoolSpec == PoolInit /\ [][PoolNext]_poolVars
-----------------------------------------------------------------------------
Lease == INSTANCE WorkerLease
           WITH idle <- ToSet(pool),
                lent <- [c \in Client |-> IF Holding(c) THEN mine[c] ELSE NoWorker]

\* The pool lends a worker to one client at a time, although check_in takes no
\* lock: no worker is ever both in the deque and in use, or in use twice.
ImplementsLease == Lease!Spec
=============================================================================
