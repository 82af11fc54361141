--------------------------- MODULE TaskExecutors ---------------------------
(***************************************************************************)
(* The task executors (core/tasks/executors, contrib/tapis/executors) and  *)
(* what they share with Kubernetes: the resources of a task, from their    *)
(* creation to the clean-up of TaskExecutor.py.                            *)
(*                                                                         *)
(* An executor belongs to a task of a run; it is executed by a task        *)
(* thread, normally the one of that task.  TaskRuns composes these actions *)
(* with the threads of the workflow executor and with termination.         *)
(***************************************************************************)
EXTENDS Values, FiniteSets

CONSTANTS
    Task,         \* the tasks a pipeline can have
    Runs,         \* how many times a worker is given a pipeline at most
    MaxFaults,    \* how many calls of Kubernetes, git or Tapis may fail at most
    Submissions   \* what is submitted: a pipeline, its arguments and the bounds
                  \* under which it is looked at (runs, faults)

\* The tasks that the schema lets through.  The kind of an image build is its
\* builder.  A private context has credentials or the identity they are taken
\* from, and so has a destination at Dockerhub.  A context at Dockerhub, where
\* nothing has to be built, is for Singularity and a local destination.
TaskKind == {"function", "kaniko", "singularity", "request", "application",
             "tapis_job", "tapis_actor"}
ContextKind == {"public", "credentials", "identity", "dockerhub"}
DestinationKind == {"none", "local", "dockerhub", "identity"}

Accepted(d) ==
    /\ d.kind \in TaskKind /\ d.context \in ContextKind /\ d.destination \in DestinationKind
    /\ d.context = "dockerhub" => d.kind = "singularity" /\ d.destination = "local"

ASSUME TaskAssumption == IsFiniteSet(Task)
ASSUME RunsAssumption == Runs \in Nat \ {0}
ASSUME FaultsAssumption == MaxFaults \in Nat
ASSUME SubmissionsAssumption ==
    \A s \in Submissions :
        /\ s.runs \in 1 .. Runs /\ s.faults \in 0 .. MaxFaults
        /\ DOMAIN s.tasks \subseteq Task
        /\ \A k \in DOMAIN s.tasks : Accepted(s.tasks[k])

Thread == (1 .. Runs) \X Task
Executor == (1 .. Runs) \X Task
Resource == {"job", "configmap"} \X Thread

VARIABLES
    submission,  \* what every run of the worker is given
    pc,          \* pc[t]: where thread t is
    using,       \* using[t]: the executor that t has looked up last
    answer,      \* answer[t]: the result of the task, as t has it
    flagged,     \* the executors whose flag terminating is set
    registered,  \* registered[e]: the resources executor e has to delete
    job,         \* job[t]: the status of the job that t created
    configmaps,  \* the threads whose configmap is in the cluster
    undeleted,   \* the resources whose deletion failed
    faults       \* how many calls have failed

executorVars == <<submission, pc, using, answer, flagged, registered, job,
                  configmaps, undeleted, faults>>

JobStatus == {"none", "new", "active", "retrying", "active_again", "failed", "succeeded"}
Answer == {"none", "ok", "error", "raised", "terminated", "skipped"}

ExecutorInit ==
    /\ submission \in Submissions
    /\ pc = [t \in Thread |-> "none"]
    /\ using = [t \in Thread |-> t]
    /\ answer = [t \in Thread |-> "none"]
    /\ flagged = {}
    /\ registered = [e \in Executor |-> {}]
    /\ job = [t \in Thread |-> "none"]
    /\ configmaps = {}
    /\ undeleted = {}
    /\ faults = 0

\* Where a thread can be: in the code of the workflow executor or in execute().
Place == {"none", "begin", "announcing", "enter", "execute", "configmap", "create", "poll",
          "logs", "request", "submit", "follow", "report", "reporting", "append", "cleanup",
          "conclude", "complete", "fail", "handover", "done", "dead"}

ExecutorTypeOK ==
    /\ submission \in Submissions
    /\ pc \in [Thread -> Place]
    /\ using \in [Thread -> Executor]
    /\ answer \in [Thread -> Answer]
    /\ flagged \subseteq Executor
    /\ registered \in [Executor -> SUBSET Resource]
    /\ job \in [Thread -> JobStatus]
    /\ configmaps \subseteq Thread
    /\ undeleted \subseteq Resource
    /\ faults \in 0 .. MaxFaults

TasksOf(s) == DOMAIN s.tasks
Def(t) == submission.tasks[t[2]]

\* Kinds whose executors wait for a job and look at their flag meanwhile.
JobKind == {"function", "kaniko", "singularity"}

\* A call that fails, within the bound.
Fault == faults < submission.faults /\ faults' = faults + 1

\* Thread t leaves execute() with an answer.
Answers(t, a) ==
    /\ answer' = [answer EXCEPT ![t] = a]
    /\ pc' = [pc EXCEPT ![t] = "report"]

(***************************************************************************)
(* The preparation of a task, up to its first call of somebody else.       *)
(***************************************************************************)

Raises(b) == IF b THEN "raised" ELSE "none"
Errs(b) == IF b THEN "error" ELSE "none"

\* The container of a function exists for the known runtimes only.
FunctionRefusal(d) == Raises(~d.runtime_known)

\* The credentials of a private context are read where they are not, the tag
\* of a destination whether it has one or not, and the credentials of a
\* destination, which may have an identity in their place.  Kaniko's
\* execute() answers every exception with an error ...
ContextRefused(d) == d.context # "public"
DestinationRefused(d) == d.destination \in {"local", "identity"}
KanikoRefusal(d) == Errs(ContextRefused(d) \/ DestinationRefused(d))

\* ... and Singularity's lets all but those of the Kubernetes client through.
\* Only a local destination has a file name.  The credentials of a context at
\* Dockerhub are not looked at.
SingularityRefusal(d) == Raises(d.context = "identity" \/ d.destination # "local")

\* The method is tested in upper case and called as it is written; the
\* message that refuses it reads an attribute that the task does not have.
HTTPRefusal(d) ==
    IF d.method = "unknown" THEN "raised" ELSE Errs(d.method = "upper")

\* An application calls a method that does not exist; an actor reads an
\* attribute of a dictionary, in its try.
ApplicationRefusal == "raised"
ActorRefusal == "error"

Refusal(d) ==
    [function |-> FunctionRefusal(d), kaniko |-> KanikoRefusal(d),
     singularity |-> SingularityRefusal(d), request |-> HTTPRefusal(d),
     application |-> ApplicationRefusal, tapis_actor |-> ActorRefusal,
     tapis_job |-> "none"][d.kind]

FirstCall(d) ==
    IF d.kind = "request" THEN "request"
    ELSE IF d.kind = "tapis_job" THEN "submit"
    ELSE IF d.kind = "kaniko" /\ d.destination = "dockerhub" THEN "configmap"
    ELSE "create"

Prepare(t) ==
    LET refusal == Refusal(Def(t)) IN
    /\ pc[t] = "execute"
    /\ \/ /\ refusal = "none"
          /\ pc' = [pc EXCEPT ![t] = FirstCall(Def(t))]
          /\ UNCHANGED <<answer, faults>>
       \/ /\ refusal # "none"
          /\ Answers(t, refusal)
          /\ UNCHANGED faults
       \/ /\ refusal = "none"                 \* a repository cannot be cloned
          /\ Def(t).kind \in {"function", "singularity"} /\ Def(t).context # "dockerhub"
          /\ Fault
          /\ Answers(t, IF Def(t).kind = "function" THEN "error" ELSE "raised")
    /\ UNCHANGED <<submission, using, flagged, registered, job, configmaps, undeleted>>

(***************************************************************************)
(* Executors that start a job                                              *)
(***************************************************************************)
Register(t, type) ==
    registered' = [registered EXCEPT ![using[t]] = @ \cup {<<type, t>>}]

\* The directory for the credentials belongs to the task and is made once.
CreateConfigMap(t) ==
    LET made_before == \E u \in Thread : <<"configmap", u>> \in registered[using[t]] IN
    /\ pc[t] = "configmap"
    /\ \/ /\ ~made_before
          /\ configmaps' = configmaps \cup {t}
          /\ Register(t, "configmap")
          /\ pc' = [pc EXCEPT ![t] = "create"]
          /\ UNCHANGED <<answer, faults>>
       \/ /\ made_before
          /\ Answers(t, "error")
          /\ UNCHANGED <<configmaps, registered, faults>>
       \/ /\ Fault
          /\ Answers(t, "error")
          /\ UNCHANGED <<configmaps, registered>>
    /\ UNCHANGED <<submission, using, flagged, job, undeleted>>

\* Fault: the job is left for Kubernetes to delete.
Created_Unregistered(t) ==
    /\ job' = [job EXCEPT ![t] = "new"]
    /\ pc' = [pc EXCEPT ![t] = "poll"]
    /\ UNCHANGED <<registered, answer, faults>>

\* The job is registered for deletion right after it was created.
Created(t) ==
    /\ job' = [job EXCEPT ![t] = "new"]
    /\ Register(t, "job")
    /\ pc' = [pc EXCEPT ![t] = "poll"]
    /\ UNCHANGED <<answer, faults>>

\* A call of Kubernetes fails.  Singularity's execute() catches the exceptions
\* of the client only, and not, say, that nobody can be reached.
CallFails(t) ==
    \E a \in {"error"} \cup (IF Def(t).kind = "singularity" THEN {"raised"} ELSE {}) :
        Fault /\ Answers(t, a)

NotCreated(t) == CallFails(t) /\ UNCHANGED <<job, registered>>

CreateFunctionJob(t) ==
    /\ pc[t] = "create" /\ Def(t).kind = "function"
    /\ Created(t) \/ NotCreated(t)
    /\ UNCHANGED <<submission, using, flagged, configmaps, undeleted>>

CreateKanikoJob(t) ==
    /\ pc[t] = "create" /\ Def(t).kind = "kaniko"
    /\ Created(t) \/ NotCreated(t)
    /\ UNCHANGED <<submission, using, flagged, configmaps, undeleted>>

CreateSingularityJob(t) ==
    /\ pc[t] = "create" /\ Def(t).kind = "singularity"
    /\ Created(t) \/ NotCreated(t)
    /\ UNCHANGED <<submission, using, flagged, configmaps, undeleted>>

\* A pod has failed or succeeded and none is active: so, too, while
\* Kubernetes waits before it tries a failed pod once more.
InTerminalState(status) == status \in {"retrying", "failed", "succeeded"}

\* The read of the job and the test of what has been read.  The loop looks at
\* its flag before, and so may read once more when the flag is set in between.
\* Builders fetch the logs before they answer.
Poll(t) ==
    LET verdict == IF job[t] = "succeeded" THEN "ok" ELSE "error" IN
    /\ pc[t] = "poll"
    /\ \/ /\ InTerminalState(job[t])
          /\ answer' = [answer EXCEPT ![t] = verdict]
          /\ pc' = [pc EXCEPT ![t] = IF Def(t).kind = "function" THEN "report" ELSE "logs"]
          /\ UNCHANGED faults
       \/ job[t] = "none" /\ Answers(t, "error") /\ UNCHANGED faults
       \/ CallFails(t)
    /\ UNCHANGED <<submission, using, flagged, registered, job, configmaps, undeleted>>

\* The cluster has the resource of a type that thread t created.
InCluster(type, t) == IF type = "job" THEN job[t] # "none" ELSE t \in configmaps

\* cleanup() of executor e: every registered resource that is still there is
\* deleted, but those whose deletion fails, which nobody tries again.
DeleteResources(e) ==
    \E kept \in SUBSET registered[e] :
        /\ \A r \in kept : InCluster(r[1], r[2])
        /\ faults + Cardinality(kept) <= submission.faults
        /\ faults' = faults + Cardinality(kept)
        /\ undeleted' = undeleted \cup kept
        /\ job' = [t \in Thread |-> IF <<"job", t>> \in registered[e] \ kept
                                    THEN "none" ELSE job[t]]
        /\ configmaps' = {t \in configmaps : <<"configmap", t>> \notin registered[e] \ kept}

\* The loop finds the flag set.
StopCleanup(t) ==
    /\ pc[t] = "poll"
    /\ using[t] \in flagged
    /\ DeleteResources(using[t])
    /\ Answers(t, "terminated")
    /\ UNCHANGED <<submission, using, flagged, registered>>

\* The pods of a deleted job are gone too: the first of none raises, outside
\* every try.
NoPods(t) ==
    \/ job[t] = "none" /\ Answers(t, "raised") /\ UNCHANGED faults
    \/ Fault /\ Answers(t, "raised")

KanikoLogs(t) ==
    /\ pc[t] = "logs" /\ Def(t).kind = "kaniko"
    /\ \/ job[t] # "none" /\ Answers(t, answer[t]) /\ UNCHANGED faults
       \/ NoPods(t)
       \/ Fault /\ Answers(t, "error")
    /\ UNCHANGED <<submission, using, flagged, registered, job, configmaps, undeleted>>

\* A log that cannot be read is ignored.
SingularityLogs(t) ==
    /\ pc[t] = "logs" /\ Def(t).kind = "singularity"
    /\ \/ job[t] # "none" /\ Answers(t, answer[t]) /\ UNCHANGED faults
       \/ NoPods(t)
       \/ Fault /\ Answers(t, answer[t])
    /\ UNCHANGED <<submission, using, flagged, registered, job, configmaps, undeleted>>

(***************************************************************************)
(* Executors that wait for somebody else, whatever their flag says         *)
(***************************************************************************)
Request(t) ==
    /\ pc[t] = "request"
    /\ \E a \in {"ok", "error"} : Answers(t, a)
    /\ UNCHANGED <<submission, using, flagged, registered, job, configmaps, undeleted, faults>>

Submit(t) ==
    /\ pc[t] = "submit"
    /\ \/ Def(t).poll /\ pc' = [pc EXCEPT ![t] = "follow"] /\ UNCHANGED <<answer, faults>>
       \/ ~Def(t).poll /\ Answers(t, "ok") /\ UNCHANGED faults
       \/ Fault /\ Answers(t, "error")
    /\ UNCHANGED <<submission, using, flagged, registered, job, configmaps, undeleted>>

Follow(t) ==
    /\ pc[t] = "follow"
    /\ \E a \in {"ok", "error"} : Answers(t, a)
    /\ UNCHANGED <<submission, using, flagged, registered, job, configmaps, undeleted, faults>>

\* The steps of execute() that end whatever others do, and those that wait.
Executing(t) ==
    \/ Prepare(t) \/ CreateConfigMap(t)
    \/ CreateFunctionJob(t) \/ CreateKanikoJob(t) \/ CreateSingularityJob(t)
    \/ Poll(t) \/ StopCleanup(t) \/ KanikoLogs(t) \/ SingularityLogs(t) \/ Submit(t)
Waiting(t) == Request(t) \/ Follow(t)

(***************************************************************************)
(* Kubernetes: a job runs, fails or succeeds, and is tried again.          *)
(***************************************************************************)
JobMoves(d) ==
    {<<"new", "active">>, <<"active", "succeeded">>,
     <<"active", IF d.retries THEN "retrying" ELSE "failed">>,
     <<"retrying", "active_again">>,
     <<"active_again", "succeeded">>, <<"active_again", "failed">>}

JobStep(t) ==
    /\ job[t] # "none"
    /\ \E move \in JobMoves(Def(t)) :
          move[1] = job[t] /\ job' = [job EXCEPT ![t] = move[2]]
    /\ UNCHANGED <<submission, pc, using, answer, flagged, registered, configmaps,
                   undeleted, faults>>
=============================================================================
