---------------------------- MODULE WorkerLease ----------------------------
(***************************************************************************)
(* What a pool of workers promises to the threads that use it: a worker is *)
(* lent to one client at a time, and is idle only when no client has it.   *)
(* A client may be refused, and an idle worker may be dropped; nothing is  *)
(* promised about when.                                                    *)
(***************************************************************************)
CONSTANTS Client, Worker, NoWorker

VARIABLES
    idle, \* the workers in the pool
    lent  \* per client: the worker it has been given

vars == <<idle, lent>>

Init ==
    /\ idle \subseteq Worker
    /\ lent = [c \in Client |-> NoWorker]

\* An idle worker, or a new one.
Borrow(c, w) ==
    /\ lent[c] = NoWorker
    /\ \A d \in Client : lent[d] # w
    /\ lent' = [lent EXCEPT ![c] = w]
    /\ idle' = idle \ {w}

GiveBack(c) ==
    /\ lent[c] # NoWorker
    /\ idle' = idle \cup {lent[c]}
    /\ lent' = [lent EXCEPT ![c] = NoWorker]

Drop(w) ==
    /\ idle' = idle \ {w}
    /\ UNCHANGED lent

Next ==
    \/ \E c \in Client, w \in Worker : Borrow(c, w)
    \/ \E c \in Client : GiveBack(c)
    \/ \E w \in Worker : Drop(w)

Spec == Init /\ [][Next]_vars
=============================================================================
