---------------------------- MODULE DagScheduler ----------------------------
(***************************************************************************)
(* What the workflow engine promises about the order of a run, and nothing *)
(* else: a task is started only after every task it depends on is done,    *)
(* and only started tasks become done.  Tasks may be started several at a  *)
(* time.  Whether a task is started more than once, and whether the run    *)
(* ever ends, is not part of this promise.                                 *)
(***************************************************************************)
CONSTANT Task

VARIABLES
    deps,     \* the tasks each task depends on, fixed by the submission
    started,  \* the tasks that have been handed to a thread
    done      \* the tasks that are finished, in whatever way

vars == <<deps, started, done>>

Init ==
    /\ deps \in [Task -> SUBSET Task]
    /\ started = {}
    /\ done = {}

Start(S) ==
    /\ \A t \in S : deps[t] \subseteq done
    /\ started' = started \cup S
    /\ UNCHANGED <<deps, done>>

Finish(t) ==
    /\ t \in started
    /\ done' = done \cup {t}
    /\ UNCHANGED <<deps, started>>

Next == (\E S \in SUBSET Task : Start(S)) \/ (\E t \in Task : Finish(t))

Spec == Init /\ [][Next]_vars
=============================================================================
