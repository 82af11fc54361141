--------------------------- MODULE TaskRuns_proofs ---------------------------
(***************************************************************************)
(* Theorems about module TaskRuns for every set of tasks, every number of  *)
(* runs and every submission.                                              *)
(***************************************************************************)
EXTENDS TaskRuns, FiniteSetTheorems, TLAPS

-----------------------------------------------------------------------------
(***************************************************************************)
(* Type correctness                                                        *)
(***************************************************************************)

\* Thread t was started or may be; such a thread has a task of the pipeline.
Met(t) == \/ pc[t] # "none"
          \/ t \in queue \cup ready
          \/ \E u \in Thread : t \in handed[u]
OfPipeline == \A t \in Thread : Met(t) => t[2] \in TasksOf(submission)

\* Whoever runs the hook is held up in an access meanwhile.
Active(t) == pc[t] \notin {"none", "done", "dead"}
HookOwner == /\ hook.by = Worker => server = "launch"
             /\ \A t \in Thread : hook.by = t => pc[t] \in AccessPlace

LEMMA AccessActive == \A t \in Thread : pc[t] \in AccessPlace => Active(t)
  BY DEF AccessPlace, Active

TypeInv == TypeOK /\ OfPipeline /\ HookOwner

LEMMA Names == /\ Worker \notin Thread /\ NoOne \notin Thread /\ B \notin Thread
               /\ Worker # NoOne /\ Worker # B /\ B # NoOne
<1>1. Worker \notin Thread /\ NoOne \notin Thread /\ B \notin Thread
  <2>1. \A t \in Thread : t[1] # 0
    BY RunsAssumption DEF Thread
  <2>2. Worker[1] = 0 /\ NoOne[1] = 0 /\ B[1] = 0
    BY DEF Worker, NoOne, B
  <2> QED
    BY <2>1, <2>2
<1>2. Worker[2] = "server" /\ NoOne[2] = "no one" /\ B[2] = "terminator"
  BY DEF Worker, NoOne, B
<1> QED
  BY <1>1, <1>2

LEMMA InitType == Init => TypeInv
<1> SUFFICES ASSUME Init PROVE TypeInv
  OBVIOUS
<1> USE DEF Init, ExecutorInit
<1>1. ExecutorTypeOK
  BY FaultsAssumption DEF ExecutorTypeOK, Thread, Executor, Place, Answer, JobStatus
<1>2. StateTypeOK
  <2>1. ctx \in 0 .. Runs /\ finished \subseteq Thread
    BY RunsAssumption
  <2> QED
    BY <2>1 DEF StateTypeOK
<1>3. ControlTypeOK
  BY RunsAssumption DEF ControlTypeOK, Idle
<1>4. ThreadTypeOK
  BY DEF ThreadTypeOK
<1>5. OfPipeline
  BY DEF OfPipeline, Met
<1>6. HookOwner
  BY Names DEF HookOwner, Idle
<1> QED
  BY <1>1, <1>2, <1>3, <1>4, <1>5, <1>6 DEF TypeInv, TypeOK

LEMMA ExecutorsKeepType == ExecutorTypeOK /\ UNCHANGED executorVars => ExecutorTypeOK'
  BY DEF ExecutorTypeOK, executorVars
LEMMA StateKeepsType == StateTypeOK /\ UNCHANGED stateVars => StateTypeOK'
  BY DEF StateTypeOK, stateVars
LEMMA ControlKeepsType == ControlTypeOK /\ UNCHANGED controlVars => ControlTypeOK'
  BY DEF ControlTypeOK, controlVars
LEMMA ThreadsKeepType == ThreadTypeOK /\ UNCHANGED <<threadVars, exchangeVars>> => ThreadTypeOK'
  BY DEF ThreadTypeOK, threadVars, exchangeVars

LEMMA BoundsOfSubmission ==
  ASSUME ExecutorTypeOK
  PROVE  /\ submission.runs \in 1 .. Runs
         /\ submission.faults \in 0 .. MaxFaults
         /\ TasksOf(submission) \subseteq Task
  BY SubmissionsAssumption DEF ExecutorTypeOK, TasksOf

LEMMA FaultType == ExecutorTypeOK /\ Fault => faults' \in 0 .. MaxFaults
  BY BoundsOfSubmission, FaultsAssumption DEF ExecutorTypeOK, Fault

\* The number of resources whose deletion fails is a natural number.
LEMMA ThreadFinite == IsFiniteSet(Thread) /\ IsFiniteSet(Resource)
<1>1. IsFiniteSet(1 .. Runs)
  BY FS_Interval, RunsAssumption
<1>2. IsFiniteSet(Thread)
  BY <1>1, TaskAssumption, FS_Product DEF Thread
<1>3. IsFiniteSet({"job", "configmap"})
  <2>1. IsFiniteSet({} \cup {"job"})
    BY FS_AddElement, FS_EmptySet
  <2>2. IsFiniteSet(({} \cup {"job"}) \cup {"configmap"})
    BY <2>1, FS_AddElement
  <2>3. ({} \cup {"job"}) \cup {"configmap"} = {"job", "configmap"}
    OBVIOUS
  <2> QED
    BY <2>2, <2>3
<1> QED
  BY <1>2, <1>3, FS_Product DEF Resource

LEMMA DeletionType ==
  ASSUME ExecutorTypeOK, NEW e \in Executor, DeleteResources(e)
  PROVE  /\ faults' \in 0 .. MaxFaults
         /\ undeleted' \subseteq Resource
         /\ job' \in [Thread -> JobStatus]
         /\ configmaps' \subseteq Thread
<1>1. PICK kept \in SUBSET registered[e] :
        /\ faults + Cardinality(kept) <= submission.faults
        /\ faults' = faults + Cardinality(kept)
        /\ undeleted' = undeleted \cup kept
        /\ job' = [t \in Thread |-> IF <<"job", t>> \in registered[e] \ kept
                                    THEN "none" ELSE job[t]]
        /\ configmaps' = {t \in configmaps : <<"configmap", t>> \notin registered[e] \ kept}
  BY DEF DeleteResources
<1>2. kept \subseteq Resource /\ Cardinality(kept) \in Nat
  BY <1>1, ThreadFinite, FS_Subset, FS_CardinalityType DEF ExecutorTypeOK
<1>3. faults' \in 0 .. MaxFaults
  BY <1>1, <1>2, BoundsOfSubmission, FaultsAssumption DEF ExecutorTypeOK
<1>4. job' \in [Thread -> JobStatus]
  BY <1>1 DEF ExecutorTypeOK, JobStatus
<1> QED
  BY <1>1, <1>2, <1>3, <1>4 DEF ExecutorTypeOK

LEMMA RefusalType ==
  ASSUME NEW d, Accepted(d)
  PROVE  Refusal(d) \in {"none", "raised", "error"}
  BY DEF Accepted, TaskKind, Refusal, FunctionRefusal, KanikoRefusal, SingularityRefusal,
    HTTPRefusal, ApplicationRefusal, ActorRefusal, Raises, Errs

LEMMA RegisterType ==
  ASSUME ExecutorTypeOK, NEW t \in Thread, NEW type \in {"job", "configmap"},
         Register(t, type)
  PROVE  registered' \in [Executor -> SUBSET Resource]
<1>1. using[t] \in Executor /\ <<type, t>> \in Resource
  BY DEF ExecutorTypeOK, Resource
<1> QED
  BY <1>1 DEF ExecutorTypeOK, Register

LEMMA TypeExecuting ==
  ASSUME TypeInv, NEW t \in Thread, Executing(t)
  PROVE  ExecutorTypeOK'
<1> USE DEF TypeInv, TypeOK, ExecutorTypeOK
<1> USE DEF Answers, Place, Answer
<1>1. CASE Prepare(t)
  <2>1. Refusal(Def(t)) \in {"none", "raised", "error"}
    BY <1>1, RefusalType, SubmissionsAssumption DEF Prepare, OfPipeline, Met, TasksOf, Def
  <2> QED
    BY <1>1, <2>1, FaultType DEF Prepare, FirstCall
<1>2. CASE CreateConfigMap(t)
  <2>1. registered' \in [Executor -> SUBSET Resource]
    BY <1>2, RegisterType DEF CreateConfigMap
  <2> QED
    BY <1>2, <2>1, FaultType DEF CreateConfigMap
<1>3. CASE CreateFunctionJob(t) \/ CreateKanikoJob(t) \/ CreateSingularityJob(t)
  <2>1. \/ Created(t)
        \/ NotCreated(t)
    BY <1>3 DEF CreateFunctionJob, CreateKanikoJob, CreateSingularityJob
  <2>2. registered' \in [Executor -> SUBSET Resource]
    BY <2>1, RegisterType DEF Created, NotCreated
  <2> QED
    BY <1>3, <2>1, <2>2, FaultType DEF CreateFunctionJob, CreateKanikoJob,
      CreateSingularityJob, Created, NotCreated, CallFails, JobStatus
<1>4. CASE Poll(t)
  BY <1>4, FaultType DEF Poll, CallFails
<1>5. CASE StopCleanup(t)
  BY <1>5, DeletionType DEF StopCleanup
<1>6. CASE KanikoLogs(t) \/ SingularityLogs(t)
  BY <1>6, FaultType DEF KanikoLogs, SingularityLogs, NoPods
<1>7. CASE Submit(t)
  BY <1>7, FaultType DEF Submit
<1> QED
  BY <1>1, <1>2, <1>3, <1>4, <1>5, <1>6, <1>7 DEF Executing

LEMMA TypeOutside ==
  ASSUME ExecutorTypeOK, NEW t \in Thread, Waiting(t) \/ JobStep(t)
  PROVE  ExecutorTypeOK'
<1>1. CASE Waiting(t)
  BY <1>1 DEF ExecutorTypeOK, Waiting, Request, Follow, Answers, Place, Answer
<1>2. CASE JobStep(t)
  <2>1. \A move \in JobMoves(Def(t)) : move[2] \in JobStatus
    BY DEF JobMoves, JobStatus
  <2> QED
    BY <1>2, <2>1 DEF ExecutorTypeOK, JobStep
<1> QED
  BY <1>1, <1>2

LEMMA ResetType ==
  ASSUME StateTypeOK, ControlTypeOK, ResetState
  PROVE  /\ StateTypeOK'
         /\ hook' \in [by : Thread \cup {B, Worker, NoOne},
                       at : {"idle", "context", "publish", "loop"},
                       left : SUBSET Executor, size : Nat, same : BOOLEAN]
<1>1. ctx' \in 0 .. Runs /\ finished' \subseteq Thread
  BY RunsAssumption DEF ResetState
<1>2. hook' \in [by : Thread \cup {B, Worker, NoOne},
                at : {"idle", "context", "publish", "loop"},
                left : SUBSET Executor, size : Nat, same : BOOLEAN]
  BY DEF ResetState, ControlTypeOK
<1> QED
  BY <1>1, <1>2 DEF ResetState, StateTypeOK

LEMMA ExecutorsFinite == StateTypeOK => Cardinality(executors) \in Nat
<1>1. Executor = Thread
  BY DEF Executor, Thread
<1> QED
  BY <1>1, ThreadFinite, FS_Subset, FS_CardinalityType DEF StateTypeOK

LEMMA HookRaisesType ==
  ASSUME ControlTypeOK, ExecutorTypeOK, HookRaises
  PROVE  /\ hooked' \in BOOLEAN
         /\ hook' = Idle
         /\ terminator' \in {"waiting", "chosen", "hook", "reset", "mark", "over", "dead"}
         /\ server' \in {"idle", "launch", "join", "reset", "lost"}
         /\ pc' \in [Thread -> Place]
  BY DEF ControlTypeOK, ExecutorTypeOK, HookRaises, Place

LEMMA TypeHook ==
  ASSUME TypeInv, HookStep
  PROVE  TypeOK'
<1> USE DEF TypeInv, TypeOK
<1>0. Idle \in [by : Thread \cup {B, Worker, NoOne},
               at : {"idle", "context", "publish", "loop"},
               left : SUBSET Executor, size : Nat, same : BOOLEAN]
  BY DEF Idle
<1>1. ASSUME NEW who \in Thread \cup {Worker}, HookStart(who)
      PROVE  TypeOK'
  <2>1. ControlTypeOK'
    BY <1>1 DEF HookStart, ControlTypeOK, Idle
  <2> QED
    BY <1>1, <2>1, ExecutorsKeepType, StateKeepsType, ThreadsKeepType DEF HookStart
<1>2. CASE HookContext
  <2>1. StateTypeOK' /\ ThreadTypeOK'
    BY <1>2, StateKeepsType, ThreadsKeepType DEF HookContext
  <2>2. CASE HookRaises
    BY <1>2, <2>1, <2>2, <1>0, HookRaisesType
      DEF HookContext, ExecutorTypeOK, ControlTypeOK
  <2>3. CASE HookLoops
    <3>1. ControlTypeOK'
      BY <1>2, <2>3, ExecutorsFinite DEF HookContext, HookLoops, ControlTypeOK, StateTypeOK
    <3> QED
      BY <1>2, <2>1, <2>3, <3>1 DEF HookContext, HookLoops, ExecutorTypeOK
  <2>4. CASE hook' = [hook EXCEPT !.at = "publish"] /\ UNCHANGED <<hooked, terminator, server, pc>>
    <3>1. ControlTypeOK'
      BY <1>2, <2>4 DEF HookContext, ControlTypeOK
    <3> QED
      BY <1>2, <2>1, <2>4, <3>1 DEF HookContext, ExecutorTypeOK
  <2> QED
    BY <1>2, <2>2, <2>3, <2>4 DEF HookContext
<1>6. CASE HookPublish
  <2>1. StateTypeOK' /\ ThreadTypeOK'
    BY <1>6, StateKeepsType DEF HookPublish, ResetExchange, Disturb, ThreadTypeOK, threadVars
  <2>2. CASE HookRaises
    BY <1>6, <2>1, <2>2, <1>0, HookRaisesType
      DEF HookPublish, ExecutorTypeOK, ControlTypeOK
  <2>3. CASE HookLoops
    <3>1. ControlTypeOK'
      BY <1>6, <2>3, ExecutorsFinite DEF HookPublish, HookLoops, ControlTypeOK, StateTypeOK
    <3> QED
      BY <1>6, <2>1, <2>3, <3>1 DEF HookPublish, HookLoops, ExecutorTypeOK
  <2> QED
    BY <1>6, <2>2, <2>3 DEF HookPublish
<1>3. CASE StopExecutor
  <2>1. PICK e \in hook.left :
          /\ flagged' = flagged \cup {e}
          /\ hook' = [hook EXCEPT !.left = @ \ {e}]
    BY <1>3 DEF StopExecutor
  <2>2. ControlTypeOK' /\ e \in Executor
    BY <1>3, <2>1 DEF StopExecutor, ControlTypeOK
  <2>3. ExecutorTypeOK'
    BY <1>3, <2>1, <2>2 DEF StopExecutor, ExecutorTypeOK
  <2> QED
    BY <1>3, <2>2, <2>3, StateKeepsType, ThreadsKeepType DEF StopExecutor
<1>4. CASE StopFails
  BY <1>4, <1>0, HookRaisesType, StateKeepsType, ThreadsKeepType
    DEF StopFails, ExecutorTypeOK, ControlTypeOK
<1>5. CASE HookEnd
  <2>1. ControlTypeOK'
    BY <1>5, <1>0 DEF HookEnd, ControlTypeOK
  <2> QED
    BY <1>5, <2>1, ExecutorsKeepType, StateKeepsType, ThreadsKeepType DEF HookEnd
<1> QED
  BY <1>1, <1>2, <1>3, <1>4, <1>5, <1>6 DEF HookStep

LEMMA TypeTerminator ==
  ASSUME TypeInv, TerminatorStep \/ Choose
  PROVE  TypeOK'
<1> USE DEF TypeInv, TypeOK
<1>1. CASE Choose
  <2>1. ControlTypeOK'
    BY <1>1 DEF Choose, ControlTypeOK
  <2> QED
    BY <1>1, <2>1, ExecutorsKeepType, StateKeepsType, ThreadsKeepType DEF Choose
<1>2. CASE Signal
  <2>1. ControlTypeOK'
    BY <1>2 DEF Signal, ControlTypeOK, StateTypeOK, Idle
  <2>2. StateTypeOK'
    BY <1>2 DEF Signal, StateTypeOK
  <2> QED
    BY <1>2, <2>1, <2>2, ExecutorsKeepType, ThreadsKeepType DEF Signal
<1>3. CASE ResetByTerminator
  <2>1. ControlTypeOK' /\ StateTypeOK'
    BY <1>3, ResetType DEF ResetByTerminator, ControlTypeOK
  <2> QED
    BY <1>3, <2>1, ExecutorsKeepType, ThreadsKeepType DEF ResetByTerminator
<1>4. CASE Mark
  <2>1. ControlTypeOK'
    BY <1>4 DEF Mark, ControlTypeOK
  <2>2. StateTypeOK'
    BY <1>4 DEF Mark, StateTypeOK
  <2> QED
    BY <1>4, <2>1, <2>2, ExecutorsKeepType, ThreadsKeepType DEF Mark
<1> QED
  BY <1>1, <1>2, <1>3, <1>4 DEF TerminatorStep

\* Threads start with the place "begin", in one of the two lists.
LEMMA StartType ==
  ASSUME TypeOK, NEW threads \in SUBSET Thread, NEW at \in [Thread -> Place],
         StartThreads(threads, at)
  PROVE  /\ ready' \subseteq Thread
         /\ pc' \in [Thread -> Place]
         /\ joined' \subseteq Thread
         /\ late' \subseteq Thread
  BY DEF TypeOK, StateTypeOK, ThreadTypeOK, StartThreads, Place

LEMMA TypeServer ==
  ASSUME TypeInv, ServerStep
  PROVE  TypeOK'
<1> USE DEF TypeInv, TypeOK
<1>1. CASE Stage
  <2>1. run + 1 \in 1 .. Runs
    BY <1>1, BoundsOfSubmission, RunsAssumption DEF Stage, ControlTypeOK
  <2>2. {run + 1} \X TasksOf(submission) \subseteq Thread
    BY <2>1, BoundsOfSubmission DEF Thread
  <2>3. StateTypeOK'
    BY <1>1, <2>1, <2>2, BoundsOfSubmission DEF Stage, StateTypeOK, Executor, Thread
  <2>4. ControlTypeOK'
    BY <1>1, <2>1 DEF Stage, ControlTypeOK
  <2>5. ThreadTypeOK'
    BY <1>1 DEF Stage, ThreadTypeOK, Disturb, exchangeVars
  <2> QED
    BY <1>1, <2>3, <2>4, <2>5, ExecutorsKeepType DEF Stage
<1>2. CASE Launch
  <2>1. ControlTypeOK'
    BY <1>2 DEF Launch, ControlTypeOK
  <2>2. /\ queue' \subseteq Thread /\ ready' \subseteq Thread
        /\ pc' \in [Thread -> Place]
        /\ joined' \subseteq Thread /\ late' \subseteq Thread
    <3>1. ReadyTasks(finished) \in SUBSET Thread /\ pc \in [Thread -> Place]
      BY DEF ReadyTasks, StateTypeOK, ExecutorTypeOK
    <3> QED
      BY <1>2, <3>1, StartType DEF Launch, StateTypeOK, ThreadTypeOK
  <2>3. subscribed' \in BOOLEAN /\ disturbed' \subseteq Thread
    BY <1>2 DEF Launch, ResetExchange, Disturb, ThreadTypeOK, exchangeVars
  <2> QED
    BY <1>2, <2>1, <2>2, <2>3 DEF Launch, ExecutorTypeOK, StateTypeOK, ThreadTypeOK
<1>3. CASE Join
  <2>1. ControlTypeOK'
    BY <1>3 DEF Join, ControlTypeOK
  <2> QED
    BY <1>3, <2>1, ExecutorsKeepType, StateKeepsType, ThreadsKeepType DEF Join
<1>4. CASE ResetByServer
  <2>1. ControlTypeOK' /\ StateTypeOK'
    BY <1>4, ResetType DEF ResetByServer, ControlTypeOK
  <2> QED
    BY <1>4, <2>1, ExecutorsKeepType, ThreadsKeepType DEF ResetByServer
<1> QED
  BY <1>1, <1>2, <1>3, <1>4 DEF ServerStep

LEMMA TypeThread ==
  ASSUME TypeInv, NEW t \in Thread, ThreadStep(t)
  PROVE  TypeOK'
<1> USE DEF TypeInv, TypeOK
<1>1. CASE Begin(t)
  <2>1. ExecutorTypeOK'
    BY <1>1 DEF Begin, At, Goes, Answers, ExecutorsUnchanged, ExecutorTypeOK, Place, Answer
  <2> QED
    BY <1>1, <2>1, StateKeepsType, ControlKeepsType, ThreadsKeepType DEF Begin
<1>2. CASE Enter(t)
  <2>1. executors \subseteq Executor
    BY DEF StateTypeOK
  <2>2. ExecutorTypeOK'
    BY <1>2, <2>1 DEF Enter, At, Goes, Answers, ExecutorsUnchanged, ExecutorTypeOK, Place,
      Answer
  <2> QED
    BY <1>2, <2>2, StateKeepsType, ControlKeepsType, ThreadsKeepType DEF Enter
<1>3. CASE Execute(t)
  BY <1>3, TypeExecuting, StateKeepsType, ControlKeepsType, ThreadsKeepType DEF Execute
<1>4. CASE Report(t) \/ AppendFinished(t)
  <2>1. t[2] \in Task
    BY DEF Thread
  <2>2. ExecutorTypeOK'
    BY <1>4 DEF Report, AppendFinished, Goes, ExecutorsUnchanged, ExecutorTypeOK, Place
  <2>3. StateTypeOK'
    BY <1>4, <2>1 DEF Report, AppendFinished, StateTypeOK
  <2> QED
    BY <1>4, <2>2, <2>3, ControlKeepsType, ThreadsKeepType DEF Report, AppendFinished
<1>8. CASE Announce(t) \/ Reporting(t) \/ EndRun(t)
  <2>1. ExecutorTypeOK'
    BY <1>8 DEF Announce, Reporting, EndRun, Goes, ExecutorsUnchanged, ExecutorTypeOK, Place
  <2>2. ThreadTypeOK'
    BY <1>8 DEF Announce, Reporting, EndRun, Published, ThreadTypeOK, threadVars
  <2> QED
    BY <1>8, <2>1, <2>2, StateKeepsType, ControlKeepsType DEF Announce, Reporting, EndRun
<1>5. CASE Cleanup(t)
  <2>1. ctx # 0 => <<ctx, t[2]>> \in Executor
    BY DEF StateTypeOK, Thread, Executor
  <2>2. /\ job' \in [Thread -> JobStatus] /\ configmaps' \subseteq Thread
        /\ undeleted' \subseteq Resource /\ faults' \in 0 .. MaxFaults
    BY <1>5, <2>1, DeletionType DEF Cleanup, ExecutorTypeOK
  <2>3. ExecutorTypeOK'
    BY <1>5, <2>1, <2>2 DEF Cleanup, Goes, ExecutorTypeOK, Place
  <2> QED
    BY <1>5, <2>3, StateKeepsType, ControlKeepsType, ThreadsKeepType DEF Cleanup
<1>6. CASE Conclude(t)
  <2>1. ExecutorTypeOK'
    BY <1>6 DEF Conclude, Goes, ExecutorsUnchanged, ExecutorTypeOK, Place
  <2>2. StateTypeOK' /\ ThreadTypeOK'
    BY <1>6 DEF Conclude, StateTypeOK, ThreadTypeOK, ReadyTasks, exchangeVars
  <2> QED
    BY <1>6, <2>1, <2>2, ControlKeepsType DEF Conclude
<1>7. CASE HandOver(t)
  <2>1. handed[t] \in SUBSET Thread /\ [pc EXCEPT ![t] = "done"] \in [Thread -> Place]
    BY DEF ThreadTypeOK, ExecutorTypeOK, Place
  <2>2. /\ ready' \subseteq Thread /\ pc' \in [Thread -> Place]
        /\ joined' \subseteq Thread /\ late' \subseteq Thread
    BY <1>7, <2>1, StartType DEF HandOver
  <2>3. ExecutorTypeOK'
    BY <1>7, <2>2 DEF HandOver, ExecutorsUnchanged, ExecutorTypeOK
  <2>4. StateTypeOK' /\ ThreadTypeOK'
    BY <1>7, <2>2 DEF HandOver, StateTypeOK, ThreadTypeOK, exchangeVars
  <2> QED
    BY <1>7, <2>3, <2>4, ControlKeepsType DEF HandOver
<1> QED
  BY <1>1, <1>2, <1>3, <1>4, <1>5, <1>6, <1>7, <1>8 DEF ThreadStep

-----------------------------------------------------------------------------
(***************************************************************************)
(* The steps that start no thread and do not move the server thread        *)
(***************************************************************************)
\* What such a step may change of the threads: those that run go on or end,
\* and what they hand over they have from the queue.
Quiet ==
    /\ UNCHANGED <<submission, run, server, joined, late>>
    /\ queue' \subseteq queue /\ ready' \subseteq ready
    /\ \A t \in Thread :
          /\ Active(t)' => Active(t)
          /\ pc'[t] = "none" <=> pc[t] = "none"
          /\ Over(t) => Over(t)'
          /\ handed'[t] \subseteq handed[t] \cup queue
          /\ pc'[t] = "handover" =>
                \/ pc[t] = "handover" /\ handed'[t] = handed[t]
                \/ /\ handed'[t] \subseteq queue \ queue'
                   /\ \A u \in Thread \ {t} : pc'[u] = "handover" =>
                         pc[u] = "handover" /\ handed'[u] = handed[u]
    /\ hook'.by = Worker => hook.by = Worker
    /\ \A t \in Thread : hook'.by = t => pc'[t] \in AccessPlace

LEMMA QuietMove ==
  ASSUME TypeInv, NEW t \in Thread, Active(t),
         NEW p \in Place \ {"none"}, pc' = [pc EXCEPT ![t] = p],
         UNCHANGED <<submission, run, server, joined, late, ready, hook>>,
         hook.by # t,
         \/ p # "handover" /\ UNCHANGED <<queue, handed>>
         \/ /\ queue' = queue \ ReadyTasks(finished)
            /\ handed' = [handed EXCEPT ![t] = ReadyTasks(finished)]
  PROVE  Quiet
<1>1. \A u \in Thread : pc'[u] = IF u = t THEN p ELSE pc[u]
  BY DEF TypeInv, TypeOK, ExecutorTypeOK
<1>2. ReadyTasks(finished) \subseteq queue
  BY DEF ReadyTasks
<1> QED
  BY <1>1, <1>2 DEF Quiet, Active, Over, TypeInv, TypeOK, ThreadTypeOK, HookOwner

LEMMA QuietThread ==
  ASSUME TypeInv, NEW t \in Thread,
         \/ Begin(t) \/ Announce(t) \/ Enter(t) \/ Execute(t) \/ Wait(t)
         \/ Report(t) \/ Reporting(t) \/ AppendFinished(t)
         \/ Cleanup(t) \/ Conclude(t) \/ EndRun(t)
  PROVE  Quiet
<1>1. SUFFICES Active(t) /\ hook.by # t /\ \E p \in Place \ {"none"} :
         /\ pc' = [pc EXCEPT ![t] = p]
         /\ UNCHANGED <<submission, run, server, joined, late, ready, hook>>
         /\ \/ p # "handover" /\ UNCHANGED <<queue, handed>>
            \/ /\ queue' = queue \ ReadyTasks(finished)
               /\ handed' = [handed EXCEPT ![t] = ReadyTasks(finished)]
  BY QuietMove
<1>0. pc[t] \notin AccessPlace => hook.by # t
  BY DEF TypeInv, HookOwner
<1> USE DEF Active, Place, At, Passes, Goes, Answers, ExecutorsUnchanged, stateVars, controlVars,
          threadVars
<1>2. CASE Begin(t) \/ Enter(t)
  BY <1>2 DEF Begin, Enter
<1>8. CASE Announce(t) \/ Reporting(t) \/ EndRun(t)
  <2>1. pc[t] \notin AccessPlace
    BY <1>8 DEF Announce, Reporting, EndRun, AccessPlace
  <2> QED
    BY <1>0, <1>8, <2>1 DEF Announce, Reporting, EndRun
<1>3. CASE Execute(t)
  <2> SUFFICES ASSUME Executing(t), UNCHANGED <<stateVars, controlVars, threadVars>>
               PROVE  /\ Active(t) /\ submission' = submission /\ pc[t] \notin AccessPlace
                      /\ \E p \in Place \ {"none", "handover", "done", "dead"} :
                              pc' = [pc EXCEPT ![t] = p]
    BY <1>0, <1>3 DEF Execute
  <2> USE DEF AccessPlace
  <2>1. CASE Prepare(t) \/ CreateConfigMap(t) \/ Poll(t) \/ StopCleanup(t) \/ Submit(t)
    BY <2>1 DEF Prepare, FirstCall, CreateConfigMap, Poll, CallFails, StopCleanup,
      Submit
  <2>2. CASE CreateFunctionJob(t) \/ CreateKanikoJob(t) \/ CreateSingularityJob(t)
    BY <2>2 DEF CreateFunctionJob, CreateKanikoJob, CreateSingularityJob, Created, NotCreated,
      CallFails
  <2>3. CASE KanikoLogs(t) \/ SingularityLogs(t)
    BY <2>3 DEF KanikoLogs, SingularityLogs, NoPods
  <2> QED
    BY <2>1, <2>2, <2>3 DEF Executing
<1>4. CASE Report(t) \/ AppendFinished(t)
  BY <1>4 DEF Report, AppendFinished
<1>5. CASE Cleanup(t)
  BY <1>5 DEF Cleanup
<1>6. CASE Conclude(t)
  BY <1>6 DEF Conclude
<1>7. CASE Wait(t)
  BY <1>0, <1>7 DEF Wait, Waiting, Request, Follow, AccessPlace
<1> QED
  BY <1>2, <1>3, <1>4, <1>5, <1>6, <1>7, <1>8

LEMMA QuietOthers ==
  ASSUME TypeInv,
         \/ TerminatorStep \/ Choose
         \/ \E who \in Thread : HookStart(who)
         \/ StopExecutor \/ HookEnd
         \/ (HookContext \/ HookPublish \/ StopFails) /\ hook.by # Worker
         \/ \E t \in Thread : Job(t)
  PROVE  Quiet
<1>1. SUFFICES /\ UNCHANGED <<submission, run, server, joined, late, handed>>
               /\ queue' \subseteq queue /\ ready' \subseteq ready
               /\ \/ UNCHANGED pc
                  \/ \E t \in Thread : /\ Active(t) /\ pc' = [pc EXCEPT ![t] = "dead"]
                                      /\ hook'.by = NoOne
               /\ \/ hook'.by = hook.by
                  \/ hook'.by \in {NoOne, B}
                  \/ hook'.by \in Thread /\ pc[hook'.by] \in AccessPlace /\ UNCHANGED pc
  BY Names, AccessActive DEF Quiet, Active, Over, TypeInv, TypeOK, ExecutorTypeOK, HookOwner
<1> USE DEF executorVars, stateVars, controlVars, threadVars
<1>2. CASE TerminatorStep \/ Choose
  <2>1. CASE Choose \/ Mark
    BY <2>1 DEF Choose, Mark
  <2>2. CASE Signal
    BY <2>2 DEF Signal, Idle
  <2>3. CASE ResetByTerminator
    <3>1. hook'.by = hook.by
      BY <2>3 DEF ResetByTerminator, ResetState, TypeInv, TypeOK, ControlTypeOK
    <3> QED
      BY <2>3, <3>1 DEF ResetByTerminator, ResetState
  <2> QED
    BY <1>2, <2>1, <2>2, <2>3 DEF TerminatorStep
<1>3. CASE \E who \in Thread : HookStart(who)
  <2>1. PICK who \in Thread : HookStart(who)
    BY <1>3
  <2>2. pc[who] \in AccessPlace
    BY <2>1, Names DEF HookStart, AtAccess
  <2> QED
    BY <2>1, <2>2 DEF HookStart, Idle
<1>4. CASE StopExecutor \/ HookEnd
  BY <1>4 DEF StopExecutor, HookEnd, Idle, TypeInv, TypeOK, ControlTypeOK
<1>5. CASE (HookContext \/ HookPublish \/ StopFails) /\ hook.by # Worker
  <2>1. CASE HookRaises
    <3>1. server' = server /\ hook'.by = NoOne
      BY <1>5, <2>1 DEF HookRaises, Idle
    <3>2. pc' = IF hook.by \in Thread THEN [pc EXCEPT ![hook.by] = "dead"] ELSE pc
      BY <2>1 DEF HookRaises
    <3>3. hook.by \in Thread => Active(hook.by)
      BY AccessActive DEF TypeInv, HookOwner
    <3> QED
      BY <1>5, <3>1, <3>2, <3>3 DEF HookContext, HookPublish, StopFails
  <2>2. CASE ~HookRaises
    BY <1>5, <2>2 DEF HookContext, HookPublish, StopFails, HookLoops, TypeInv, TypeOK, ControlTypeOK
  <2> QED
    BY <2>1, <2>2
<1>6. CASE \E t \in Thread : Job(t)
  BY <1>6 DEF Job, JobStep
<1> QED
  BY <1>2, <1>3, <1>4, <1>5, <1>6

-----------------------------------------------------------------------------
(***************************************************************************)
(* The threads of a run                                                    *)
(***************************************************************************)

\* Nobody runs but the threads of the two lists; the joined ones have ended
\* when the server thread stops joining.
ActiveListed == \A t \in Thread : Active(t) => t \in joined \cup late
JoinedOver == server \in {"reset", "idle"} => \A t \in joined : Over(t)

\* As long as no thread was late, all that has been started or can be belongs
\* to the present run.
OneRun ==
    late = {} =>
        /\ \A t \in joined \cup queue \cup ready : t[1] = run
        /\ \A u \in Thread : pc[u] = "handover" => \A t \in handed[u] : t[1] = run
        /\ server = "idle" => ready = {}

\* A thread that is still to be started is in one place, from which it is
\* taken once.
StartOnce ==
    /\ \A t \in queue \cup ready : pc[t] = "none" /\ t[1] <= run
    /\ \A u \in Thread : pc[u] = "handover" =>
          \A t \in handed[u] :
             /\ pc[t] = "none" /\ t[1] <= run /\ t \notin queue \cup ready
             /\ \A v \in Thread \ {u} : pc[v] = "handover" => t \notin handed[v]
    /\ queue \cap ready = {}
    /\ \A t \in Thread : t[1] > run => pc[t] = "none"
    /\ \A t \in joined \cup late : pc[t] # "none"

Separate == ActiveListed /\ JoinedOver /\ OneRun /\ StartOnce

\* What holds of the threads besides the type.
ThreadInv == OfPipeline /\ HookOwner /\ Separate

LEMMA InitThreads == Init => ThreadInv
<1> SUFFICES ASSUME Init PROVE ThreadInv
  OBVIOUS
<1>1. Separate
  BY DEF Init, ExecutorInit, Separate, ActiveListed, JoinedOver, OneRun, StartOnce, Active
<1> QED
  BY <1>1, InitType DEF ThreadInv, TypeInv

LEMMA QuietThreads ==
  ASSUME TypeInv, Separate, Quiet
  PROVE  ThreadInv'
<1> USE DEF Quiet, TypeInv
<1>1. OfPipeline'
  <2>1. \A t \in Thread : Met(t)' => Met(t)
    BY DEF Met
  <2> QED
    BY <2>1 DEF OfPipeline
<1>2. HookOwner'
  BY DEF HookOwner
<1>3. ActiveListed' /\ JoinedOver'
  BY DEF Separate, ActiveListed, JoinedOver, TypeOK, ThreadTypeOK
<1>4. OneRun'
  BY DEF Separate, OneRun
<1>5. StartOnce'
  <2>1. handed \in [Thread -> SUBSET Thread] /\ ready \subseteq Thread /\ queue \subseteq Thread
        /\ joined \subseteq Thread /\ late \subseteq Thread
    BY DEF TypeOK, ThreadTypeOK, StateTypeOK
  <2> QED
    BY <2>1 DEF Separate, StartOnce
<1> QED
  BY <1>1, <1>2, <1>3, <1>4, <1>5 DEF ThreadInv, Separate

\* Threads start while the server thread launches or joins them, or late.
\* Those that start are in "begin", and nothing else changes.
LEMMA StartedThreads ==
  ASSUME TypeOK, NEW threads \in SUBSET Thread, NEW at \in [Thread -> Place],
         StartThreads(threads, at)
  PROVE  \/ pc' = at /\ ready' = ready \cup threads /\ UNCHANGED <<joined, late>>
         \/ /\ \A t \in Thread :
                  pc'[t] = IF t \in ready \cup threads THEN "begin" ELSE at[t]
            /\ ready' = {}
            /\ \/ /\ server \in {"launch", "join"}
                  /\ joined' = joined \cup (ready \cup threads) /\ late' = late
               \/ late' = late \cup (ready \cup threads) /\ joined' = joined
  BY DEF StartThreads, TypeOK, ExecutorTypeOK

\* The threads of a set start, all of them waiting for it.
Starts(starting) ==
    /\ \A t \in starting : pc[t] = "none" /\ t[1] <= run
    /\ \A t \in Thread : \/ t \in starting /\ pc'[t] = "begin"
                         \/ t \notin starting /\ pc'[t] = pc[t]
                         \/ t \notin starting /\ pc[t] # "none" /\ pc'[t] = "done"
    /\ \A u \in Thread : pc'[u] = "handover" =>
          pc[u] = "handover" /\ handed'[u] = handed[u] /\ handed[u] \cap starting = {}
    /\ queue' \subseteq queue \ starting /\ ready' \subseteq ready \ starting /\ run' = run
    /\ joined' \cup late' \subseteq joined \cup late \cup starting

LEMMA StartedOnce ==
  ASSUME TypeOK, StartOnce, NEW starting \in SUBSET Thread, Starts(starting)
  PROVE  StartOnce'
<1> USE DEF Starts
<1>1. /\ queue \subseteq Thread /\ ready \subseteq Thread /\ joined \cup late \subseteq Thread
      /\ handed \in [Thread -> SUBSET Thread]
  BY DEF TypeOK, StateTypeOK, ThreadTypeOK
<1>2. \A t \in queue' \cup ready' : pc'[t] = "none" /\ t[1] <= run'
  BY <1>1 DEF StartOnce
<1>3. \A u \in Thread : pc'[u] = "handover" =>
          \A t \in handed'[u] :
             /\ pc'[t] = "none" /\ t[1] <= run' /\ t \notin queue' \cup ready'
             /\ \A v \in Thread \ {u} : pc'[v] = "handover" => t \notin handed'[v]
  BY <1>1 DEF StartOnce
<1>4. queue' \cap ready' = {}
  BY DEF StartOnce
<1>5. \A t \in Thread : t[1] > run' => pc'[t] = "none"
  <2>1. \A t \in Thread : t[1] \in Int /\ run \in Int
    BY RunsAssumption DEF Thread, TypeOK, ControlTypeOK
  <2> QED
    BY <2>1 DEF StartOnce
<1>6. \A t \in joined' \cup late' : pc'[t] # "none"
  BY <1>1 DEF StartOnce
<1> QED
  BY <1>2, <1>3, <1>4, <1>5, <1>6 DEF StartOnce

LEMMA HandOverThreads ==
  ASSUME TypeInv, Separate, NEW t \in Thread, HandOver(t)
  PROVE  ThreadInv'
<1> USE DEF TypeInv
<1>1. /\ handed[t] \in SUBSET Thread /\ [pc EXCEPT ![t] = "done"] \in [Thread -> Place]
      /\ ready \subseteq Thread /\ pc \in [Thread -> Place]
      /\ handed \in [Thread -> SUBSET Thread]
  BY DEF TypeOK, ThreadTypeOK, StateTypeOK, ExecutorTypeOK, Place
<1>2. /\ StartThreads(handed[t], [pc EXCEPT ![t] = "done"])
      /\ pc[t] = "handover" /\ hook.by # t
      /\ handed' = [handed EXCEPT ![t] = {}]
      /\ UNCHANGED <<submission, run, server, hook, queue>>
  BY DEF HandOver, At, Passes, ExecutorsUnchanged, controlVars
<1>3. t \in joined \cup late /\ Active(t)
  BY <1>2 DEF Separate, ActiveListed, Active
<1>4. CASE /\ pc' = [pc EXCEPT ![t] = "done"] /\ ready' = ready \cup handed[t]
           /\ UNCHANGED <<joined, late>>
  <2>1. OfPipeline'
    BY <1>1, <1>2, <1>4 DEF OfPipeline, Met
  <2>2. HookOwner'
    BY <1>1, <1>2, <1>4 DEF HookOwner, Active
  <2>3. ActiveListed' /\ JoinedOver'
    BY <1>1, <1>2, <1>4 DEF Separate, ActiveListed, JoinedOver, Active, Over, TypeOK,
      ThreadTypeOK
  <2>4. OneRun'
    BY <1>1, <1>2, <1>3, <1>4 DEF Separate, OneRun, JoinedOver, Over, Active
  <2>5. StartOnce'
    BY <1>1, <1>2, <1>4 DEF Separate, StartOnce, TypeOK, ThreadTypeOK, StateTypeOK
  <2> QED
    BY <2>1, <2>2, <2>3, <2>4, <2>5 DEF ThreadInv, Separate
<1>5. CASE /\ \A u \in Thread : pc'[u] = IF u \in ready \cup handed[t] THEN "begin"
                                        ELSE [pc EXCEPT ![t] = "done"][u]
           /\ ready' = {}
           /\ \/ /\ server \in {"launch", "join"}
                 /\ joined' = joined \cup (ready \cup handed[t]) /\ late' = late
              \/ late' = late \cup (ready \cup handed[t]) /\ joined' = joined
  <2>0. \A u \in Thread : pc'[u] = IF u \in ready \cup handed[t] THEN "begin"
                                  ELSE IF u = t THEN "done" ELSE pc[u]
    BY <1>1, <1>5
  <2>1. OfPipeline'
    BY <1>1, <1>2, <1>5, <2>0 DEF OfPipeline, Met
  <2>2. HookOwner'
    BY <1>2, <2>0 DEF HookOwner, AccessPlace
  <2>3. ActiveListed' /\ JoinedOver'
    BY <1>1, <1>2, <1>5, <2>0 DEF Separate, ActiveListed, JoinedOver, StartOnce, Active, Over,
      TypeOK, ThreadTypeOK
  <2>4. OneRun'
    BY <1>1, <1>2, <1>5, <2>0 DEF Separate, OneRun
  <2>5. StartOnce'
    <3> DEFINE starting == ready \cup handed[t]
    <3>1. \A u \in starting : pc[u] = "none" /\ u[1] <= run
      BY <1>2 DEF Separate, StartOnce
    <3>2. \A u \in Thread : pc'[u] = "handover" =>
             pc[u] = "handover" /\ handed'[u] = handed[u] /\ handed[u] \cap starting = {}
      BY <1>1, <1>2, <2>0 DEF Separate, StartOnce
    <3>3. queue' \subseteq queue \ starting /\ ready' \subseteq ready \ starting /\ run' = run
      BY <1>2, <1>5 DEF Separate, StartOnce
    <3>4. starting \in SUBSET Thread
      BY <1>1
    <3>5. joined' \cup late' \subseteq joined \cup late \cup starting
      BY <1>5
    <3>6. pc[t] = "handover"
      BY <1>2
    <3>7. \A u \in Thread : \/ u \in starting /\ pc'[u] = "begin"
                            \/ u \notin starting /\ pc'[u] = pc[u]
                            \/ u \notin starting /\ pc[u] # "none" /\ pc'[u] = "done"
      BY <2>0, <3>6
    <3>8. Starts(starting)
      BY <3>1, <3>2, <3>3, <3>5, <3>7 DEF Starts
    <3> HIDE DEF starting
    <3> QED
      BY <3>4, <3>8, StartedOnce DEF Separate
  <2> QED
    BY <2>1, <2>2, <2>3, <2>4, <2>5 DEF ThreadInv, Separate
<1>6. ASSUME NEW at, at = [pc EXCEPT ![t] = "done"]
      PROVE  \/ pc' = at /\ ready' = ready \cup handed[t] /\ UNCHANGED <<joined, late>>
             \/ /\ \A u \in Thread :
                      pc'[u] = IF u \in ready \cup handed[t] THEN "begin" ELSE at[u]
                /\ ready' = {}
                /\ \/ /\ server \in {"launch", "join"}
                      /\ joined' = joined \cup (ready \cup handed[t]) /\ late' = late
                   \/ late' = late \cup (ready \cup handed[t]) /\ joined' = joined
  <2>1. at \in [Thread -> Place] /\ StartThreads(handed[t], at)
    BY <1>1, <1>2, <1>6
  <2> QED
    BY <1>1, <2>1, StartedThreads
<1> QED
  BY <1>4, <1>5, <1>6

LEMMA StageThreads ==
  ASSUME TypeInv, Separate, Stage
  PROVE  ThreadInv'
<1> USE DEF TypeInv, Stage, executorVars
<1>1. late = {} => \A t \in Thread : ~Active(t)
  BY DEF Separate, ActiveListed, JoinedOver, Active, Over
<1>2. OfPipeline'
  BY DEF OfPipeline, Met
<1>3. HookOwner'
  BY DEF HookOwner, Active
<1>4. ActiveListed' /\ JoinedOver'
  BY DEF Separate, ActiveListed, JoinedOver, Active, Over
<1>5. OneRun'
  BY <1>1 DEF Separate, OneRun, Active
<1>6. StartOnce'
  <2>1. \A t \in {run + 1} \X TasksOf(submission) : t \in Thread /\ t[1] = run + 1
    BY BoundsOfSubmission, RunsAssumption DEF TypeOK, ControlTypeOK, Thread
  <2>2. run \in Nat /\ \A t \in Thread : t[1] \in Nat
    BY RunsAssumption DEF TypeOK, ControlTypeOK, Thread
  <2>3. handed \in [Thread -> SUBSET Thread] /\ late \subseteq Thread /\ ready \subseteq Thread
    BY DEF TypeOK, ThreadTypeOK, StateTypeOK
  <2> QED
    BY <2>1, <2>2, <2>3 DEF Separate, StartOnce
<1> QED
  BY <1>2, <1>3, <1>4, <1>5, <1>6 DEF ThreadInv, Separate

LEMMA LaunchThreads ==
  ASSUME TypeInv, Separate, Launch
  PROVE  ThreadInv'
<1> USE DEF TypeInv
<1>1. /\ server = "launch" /\ server' \in {"join", "lost"} /\ hook.by # Worker
      /\ UNCHANGED <<submission, run, hook, handed>>
  BY DEF Launch, Passes
<1>2. CASE UNCHANGED <<pc, queue, ready, joined, late>>
  <2>1. OfPipeline' /\ HookOwner'
    BY <1>1, <1>2 DEF OfPipeline, Met, HookOwner, Active
  <2>2. Separate'
    BY <1>1, <1>2 DEF Separate, ActiveListed, JoinedOver, OneRun, StartOnce, Active, Over
  <2> QED
    BY <2>1, <2>2 DEF ThreadInv
<1>3. CASE queue' = queue \ ReadyTasks(finished) /\ StartThreads(ReadyTasks(finished), pc)
  <2>1. /\ ReadyTasks(finished) \in SUBSET Thread /\ pc \in [Thread -> Place]
        /\ ReadyTasks(finished) \subseteq queue
    BY DEF ReadyTasks, TypeOK, StateTypeOK, ExecutorTypeOK
  <2>2. \/ pc' = pc /\ ready' = ready \cup ReadyTasks(finished) /\ UNCHANGED <<joined, late>>
        \/ /\ \A t \in Thread :
                 pc'[t] = IF t \in ready \cup ReadyTasks(finished) THEN "begin" ELSE pc[t]
           /\ ready' = {}
           /\ \/ /\ joined' = joined \cup (ready \cup ReadyTasks(finished))
                 /\ late' = late
              \/ /\ late' = late \cup (ready \cup ReadyTasks(finished))
                 /\ joined' = joined
    BY <1>3, <2>1, StartedThreads
  <2>3. OfPipeline' /\ HookOwner'
    BY <1>1, <1>3, <2>1, <2>2 DEF OfPipeline, Met, HookOwner, AccessPlace
  <2>4. ActiveListed' /\ JoinedOver'
    BY <1>1, <2>1, <2>2 DEF Separate, ActiveListed, JoinedOver, Active
  <2>5. OneRun'
    BY <1>1, <1>3, <2>1, <2>2 DEF Separate, OneRun
  <2>6. StartOnce'
    <3>1. CASE pc' = pc /\ ready' = ready \cup ReadyTasks(finished) /\ UNCHANGED <<joined, late>>
      BY <1>1, <1>3, <2>1, <3>1 DEF Separate, StartOnce, TypeOK, ThreadTypeOK, StateTypeOK
    <3>2. CASE /\ \A t \in Thread :
                    pc'[t] = IF t \in ready \cup ReadyTasks(finished) THEN "begin" ELSE pc[t]
               /\ ready' = {}
               /\ joined' \cup late'
                     \subseteq joined \cup late \cup (ready \cup ReadyTasks(finished))
      <4> DEFINE starting == ready \cup ReadyTasks(finished)
      <4>1. starting \in SUBSET Thread
        BY <2>1 DEF TypeOK, StateTypeOK
      <4>2. \A u \in starting : pc[u] = "none" /\ u[1] <= run
        BY <2>1 DEF Separate, StartOnce
      <4>3. \A u \in Thread : pc'[u] = "handover" =>
               pc[u] = "handover" /\ handed'[u] = handed[u] /\ handed[u] \cap starting = {}
        BY <1>1, <2>1, <3>2 DEF Separate, StartOnce
      <4>4. queue' \subseteq queue \ starting /\ ready' \subseteq ready \ starting /\ run' = run
        BY <1>1, <1>3, <3>2 DEF Separate, StartOnce
      <4>5. joined' \cup late' \subseteq joined \cup late \cup starting
        BY <3>2
      <4>6. \A u \in Thread : \/ u \in starting /\ pc'[u] = "begin"
                              \/ u \notin starting /\ pc'[u] = pc[u]
        BY <3>2
      <4>7. Starts(starting)
        BY <4>2, <4>3, <4>4, <4>5, <4>6 DEF Starts
      <4> HIDE DEF starting
      <4> QED
        BY <4>1, <4>7, StartedOnce DEF Separate
    <3> QED
      BY <2>2, <3>1, <3>2
  <2> QED
    BY <2>3, <2>4, <2>5, <2>6 DEF ThreadInv, Separate
<1> QED
  BY <1>2, <1>3 DEF Launch

\* The other steps of the server thread, and its hook.
LEMMA ServerThreads ==
  ASSUME TypeInv, Separate,
         \/ Join \/ ResetByServer \/ HookStart(Worker)
         \/ (HookContext \/ HookPublish \/ StopFails) /\ hook.by = Worker
  PROVE  ThreadInv'
<1> USE DEF TypeInv, executorVars, stateVars, controlVars, threadVars
<1>0. UNCHANGED <<submission, pc, handed, joined, late, run>>
  BY Names DEF Join, ResetByServer, HookStart, HookContext, HookPublish, HookLoops, StopFails,
    HookRaises
<1>1. queue' \subseteq queue /\ ready' \subseteq ready
  BY DEF Join, ResetByServer, ResetState, HookStart, HookContext, HookPublish, StopFails
<1>2. OfPipeline'
  BY <1>0, <1>1 DEF OfPipeline, Met
<1>3. HookOwner' /\ Separate'
  <2>1. CASE Join
    BY <1>0, <2>1 DEF Join, HookOwner, Separate, ActiveListed, JoinedOver, OneRun, StartOnce,
      Active, Over
  <2>2. CASE ResetByServer
    <3>1. hook'.by = hook.by
      BY <2>2 DEF ResetByServer, ResetState, TypeOK, ControlTypeOK
    <3> QED
      BY <1>0, <2>2, <3>1 DEF ResetByServer, ResetState, HookOwner, Separate, ActiveListed,
        JoinedOver, OneRun, StartOnce, Active, Over
  <2>3. CASE HookStart(Worker)
    BY <1>0, <2>3, Names DEF HookStart, AtAccess, Idle, HookOwner, Separate, ActiveListed,
      JoinedOver, OneRun, StartOnce, Active, Over
  <2>4. CASE (HookContext \/ HookPublish \/ StopFails) /\ hook.by = Worker
    <3>1. server = "launch" /\ server' \in {"launch", "join", "lost"}
      BY <2>4 DEF HookOwner, HookContext, HookPublish, HookLoops, StopFails, HookRaises
    <3>2. \/ hook'.by = NoOne
          \/ hook'.by = Worker /\ server' = "launch"
      <4>1. CASE HookRaises
        BY <4>1 DEF HookRaises, Idle
      <4>2. CASE ~HookRaises
        BY <2>4, <3>1, <4>2 DEF HookContext, HookPublish, HookLoops, StopFails, TypeOK,
          ControlTypeOK
      <4> QED
        BY <4>1, <4>2
    <3>3. HookOwner'
      BY <3>2, Names DEF HookOwner
    <3>4. Separate'
      BY <1>0, <1>1, <3>1 DEF Separate, ActiveListed, JoinedOver, OneRun, StartOnce, Active, Over
    <3> QED
      BY <3>3, <3>4
  <2> QED
    BY <2>1, <2>2, <2>3, <2>4
<1> QED
  BY <1>2, <1>3 DEF ThreadInv

LEMMA StepThreads ==
  ASSUME TypeInv, Separate, [Next]_vars
  PROVE  TypeOK' /\ ThreadInv'
<1>1. CASE UNCHANGED vars
  <2>1. TypeOK'
    BY <1>1, ExecutorsKeepType, StateKeepsType, ControlKeepsType, ThreadsKeepType
      DEF TypeInv, TypeOK, vars
  <2>2. OfPipeline' /\ HookOwner'
    BY <1>1 DEF vars, executorVars, stateVars, controlVars, threadVars, TypeInv, OfPipeline,
      Met, HookOwner, Active
  <2>3. Separate'
    BY <1>1 DEF vars, executorVars, stateVars, controlVars, threadVars, Separate, ActiveListed,
      JoinedOver, OneRun, StartOnce, Active, Over
  <2> QED
    BY <2>1, <2>2, <2>3 DEF ThreadInv
<1>2. CASE ServerStep
  BY <1>2, TypeServer, StageThreads, LaunchThreads, ServerThreads DEF ServerStep
<1>3. CASE HookStep
  <2>1. TypeOK'
    BY <1>3, TypeHook
  <2> QED
    BY <1>3, <2>1, QuietOthers, QuietThreads, ServerThreads DEF HookStep
<1>4. CASE TerminatorStep \/ Choose
  BY <1>4, TypeTerminator, QuietOthers, QuietThreads
<1>5. CASE \E t \in Thread : ThreadStep(t)
  <2>1. PICK t \in Thread : ThreadStep(t)
    BY <1>5
  <2> QED
    BY <2>1, TypeThread, QuietThread, QuietThreads, HandOverThreads DEF ThreadStep
<1>6. CASE \E t \in Thread : Wait(t) \/ Job(t)
  <2>1. PICK t \in Thread : Wait(t) \/ Job(t)
    BY <1>6
  <2>2. TypeOK'
    BY <2>1, TypeOutside, StateKeepsType, ControlKeepsType, ThreadsKeepType
      DEF Wait, Job, TypeInv, TypeOK
  <2> QED
    BY <2>1, <2>2, QuietThread, QuietOthers, QuietThreads
<1> QED
  BY <1>1, <1>2, <1>3, <1>4, <1>5, <1>6 DEF Next, Running

\* Executors, threads, resources and everything in the state are those of the
\* runs that the worker was given, whatever the tasks, the number of runs and
\* the submission.
THEOREM TypeCorrect == Spec => []TypeOK
<1>1. Init => TypeOK /\ ThreadInv
  BY InitType, InitThreads DEF TypeInv
<1>2. TypeOK /\ ThreadInv /\ [Next]_vars => (TypeOK /\ ThreadInv)'
  BY StepThreads DEF TypeInv, ThreadInv
<1> QED
  BY <1>1, <1>2, PTL DEF Spec

-----------------------------------------------------------------------------
(***************************************************************************)
(* The resources of a run                                                  *)
(***************************************************************************)
Type == {"job", "configmap"}

\* What a thread has created and still has to have deleted.
Left(type, t) == InCluster(type, t) /\ <<type, t>> \notin undeleted

Inside == {"execute", "configmap", "create", "poll", "logs", "request", "submit", "follow"}
Outside == {"none", "begin", "announcing", "enter"}
Unfinished == Outside \cup Inside \cup {"report", "reporting", "append"}
Past == {"conclude", "complete", "fail", "handover", "done", "dead"}
Concluded(t) == pc[t] \in {"complete", "fail", "handover", "done", "dead"}

\* A run loses its context to a terminator only.
Flags ==
    /\ terminating \/ hook.at # "idle" => terminator # "waiting"
    /\ server \in {"launch", "join"} => ctx = run \/ (ctx = 0 /\ terminator # "waiting")
    /\ server # "idle" => run # 0

\* Without one no thread is late, and every thread uses its own executor.
Calm ==
    terminator = "waiting" =>
        /\ late = {} /\ server # "lost"
        /\ server \in {"launch", "join"} => attached /\ ctx = run
        /\ server = "launch" => joined = {}
        /\ \A t \in Thread : using[t] = t

\* Nor is a thread that publishes disturbed but by a failure beside it: the run
\* is complete when all its threads have appended their tasks to finished.
Heard ==
    terminator = "waiting" =>
        /\ server = "idle" => finished = {}
        /\ server \in {"launch", "join"} => tasks = TasksOf(submission)
        /\ \A t \in finished : t[1] = run /\ pc[t] \notin Unfinished
        /\ \A t \in Thread : pc[t] = "fail" => answer[t] \notin {"ok", "skipped"}
        /\ \A t \in Thread : pc[t] = "complete" =>
              \A u \in {run} \X TasksOf(submission) : pc[u] \notin Unfinished
        /\ \A t \in disturbed :
              Publishing(t) /\ (pc[t] \in Unfinished => FailedBeside(t))

\* An executor of the context is in the state until a thread concludes it.
ExecutorsKept ==
    ctx # 0 =>
        \A k \in TasksOf(submission) :
            \/ <<ctx, k>> \in executors
            \/ \E u \in Thread : using[u] = <<ctx, k>> /\ Concluded(u)

\* A thread creates nothing before it executes its task ...
NothingYet ==
    \A t \in Thread : pc[t] \in Outside => \A type \in Type : ~Left(type, t)

\* ... and what it creates is registered with the executor of its task in this
\* run, until that is cleaned up.
Entered(t) == pc[t] \in Inside => using[t] = <<run, t[2]>>
Track(type, t) ==
    Left(type, t) =>
        /\ using[t] = <<run, t[2]>>
        /\ pc[t] \notin Past => <<type, t>> \in registered[using[t]]
        /\ pc[t] \in Past =>
              \/ terminator # "waiting" /\ (pc[t] = "dead" \/ Shares(t))
              \/ pc[t] = "dead" /\ FailedBeside(t)
Tracked ==
    server \in {"launch", "join", "reset"} =>
        \A t \in joined : Entered(t) /\ \A type \in Type : Track(type, t)

ReleaseInv == Flags /\ Calm /\ Heard /\ ExecutorsKept /\ NothingYet /\ Tracked

LEMMA InitResources == Init => ReleaseInv
<1> SUFFICES ASSUME Init PROVE ReleaseInv
  OBVIOUS
<1> USE DEF Init, ExecutorInit
<1>1. Flags /\ Calm /\ Heard /\ ExecutorsKept /\ Tracked
  BY DEF Flags, Calm, Heard, Idle, ExecutorsKept, Tracked
<1>2. NothingYet
  BY DEF NothingYet, Left, InCluster, Type
<1> QED
  BY <1>1, <1>2 DEF ReleaseInv

\* In a worker that is not terminated a thread that runs is one of this run,
\* which the server thread launches or joins.
LEMMA CalmRuns ==
  ASSUME TypeInv, Separate, Calm, terminator = "waiting", NEW t \in Thread, Active(t)
  PROVE  server \in {"launch", "join"} /\ attached /\ <<ctx, t[2]>> = t
<1>1. t \in joined /\ t[1] = run
  BY DEF Separate, ActiveListed, OneRun, Calm
<1>2. server \in {"launch", "join"}
  BY <1>1 DEF Separate, JoinedOver, Calm, Over, Active, TypeInv, TypeOK, ControlTypeOK
<1>3. t = <<t[1], t[2]>>
  BY DEF Thread
<1> QED
  BY <1>1, <1>2, <1>3 DEF Calm

LEMMA ExecutingUses ==
  ASSUME NEW u \in Thread, Executing(u) \/ Waiting(u)
  PROVE  submission' = submission /\ using' = using
  BY DEF Executing, Prepare, CreateConfigMap, CreateFunctionJob, CreateKanikoJob,
    CreateSingularityJob, Poll, StopCleanup, KanikoLogs, SingularityLogs, Submit, Waiting,
    Request, Follow

LEMMA CalmStep ==
  ASSUME TypeInv, Separate, Flags, Calm, [Next]_vars
  PROVE  Calm'
<1> SUFFICES ASSUME terminator' = "waiting" PROVE Calm'
  BY DEF Calm
<1>1. CASE UNCHANGED vars
  BY <1>1 DEF vars, executorVars, stateVars, controlVars, threadVars, Calm
<1>2. CASE HookStep \/ TerminatorStep \/ Choose
  BY <1>2 DEF HookStep, HookStart, Intercepts, HookContext, HookPublish, HookLoops, HookRaises,
    StopExecutor, StopFails, HookEnd, TerminatorStep, Signal, ResetByTerminator, Mark, Choose, Flags
<1>3. CASE Stage \/ Join \/ ResetByServer
  BY <1>3 DEF Stage, Join, ResetByServer, ResetState, executorVars, stateVars, threadVars, Calm
<1>4. CASE Launch
  <2>1. /\ server = "launch" /\ terminator = "waiting" /\ server' \in {"join", "lost"}
        /\ UNCHANGED <<using, ctx, run, attached>>
    BY <1>4 DEF Launch
  <2>2. ctx # 0
    BY <2>1 DEF Calm, Flags
  <2> QED
    BY <1>4, <2>1, <2>2 DEF Launch, StartThreads, Calm
<1>5. CASE \E t \in Thread : HandOver(t)
  <2>1. PICK t \in Thread : HandOver(t)
    BY <1>5
  <2>2. terminator = "waiting" /\ UNCHANGED <<using, ctx, run, server, attached>>
    BY <2>1 DEF HandOver, controlVars
  <2>3. server \in {"launch", "join"} /\ attached
    BY <2>1, <2>2, CalmRuns DEF HandOver, At, Active
  <2>4. late' = late
    BY <2>1, <2>3 DEF HandOver, StartThreads
  <2>5. server # "launch"
    BY <2>1, <2>2 DEF HandOver, At, Active, Calm, Separate, ActiveListed
  <2> QED
    BY <2>2, <2>4, <2>5 DEF Calm
<1>6. CASE \E t \in Thread : \/ Begin(t) \/ Announce(t) \/ Execute(t) \/ Report(t) \/ Reporting(t)
                            \/ AppendFinished(t) \/ Conclude(t) \/ EndRun(t) \/ Wait(t)
                            \/ Job(t)
  <2>1. UNCHANGED <<using, terminator, late, joined, ctx, run, server, attached>>
    BY <1>6, ExecutingUses DEF Begin, Announce, ExecutorsUnchanged, Execute, Report, Reporting,
      AppendFinished, Conclude, EndRun, Wait, Job, JobStep, stateVars, controlVars, threadVars
  <2> QED
    BY <2>1 DEF Calm
<1>7. CASE \E t \in Thread : Enter(t) \/ Cleanup(t)
  <2>1. PICK t \in Thread : Enter(t) \/ Cleanup(t)
    BY <1>7
  <2>2. UNCHANGED <<terminator, late, joined, ctx, run, server, attached>>
    BY <2>1 DEF Enter, Cleanup, stateVars, controlVars, threadVars
  <2>3. <<ctx, t[2]>> = t
    BY <2>1, <2>2, CalmRuns DEF Enter, Cleanup, At, Active
  <2>4. using' = using \/ using' = [using EXCEPT ![t] = <<ctx, t[2]>>]
    BY <2>1 DEF Enter, Cleanup, Answers
  <2> QED
    BY <2>2, <2>3, <2>4 DEF Calm, TypeInv, TypeOK, ExecutorTypeOK
<1> QED
  BY <1>1, <1>2, <1>3, <1>4, <1>5, <1>6, <1>7 DEF Next, Running, ServerStep, ThreadStep

LEMMA ConcludedSharers ==
  ASSUME NEW t \in Thread, Shares(t), using'[t] = using[t],
         \A u \in Thread : Concluded(u) => Concluded(u)' /\ using'[u] = using[u]
  PROVE  Shares(t)'
  BY DEF Shares, Concluded

LEMMA ExecutorsStayKept ==
  ASSUME ExecutorsKept, submission' = submission,
         \A u \in Thread : Concluded(u) => Concluded(u)' /\ using'[u] = using[u],
         \/ ctx' = 0
         \/ /\ ctx' = ctx
            /\ \A e \in executors : \/ e \in executors'
                                    \/ \E u \in Thread : using'[u] = e /\ Concluded(u)'
  PROVE  ExecutorsKept'
  BY DEF ExecutorsKept, Concluded, TasksOf

\* A step that leaves the cluster and the executors alone: threads start, hand
\* over or are ended by the hook.
Untouched ==
    /\ UNCHANGED <<submission, run, using, answer, registered, job, configmaps, undeleted>>
    /\ \A t \in Thread : \/ pc'[t] = pc[t]
                         \/ pc[t] = "none" /\ pc'[t] = "begin"
                         \/ pc[t] = "handover" /\ pc'[t] = "done"
                         \/ pc[t] # "none" /\ pc'[t] = "dead" /\ terminator' # "waiting"
    /\ joined' \subseteq Thread
    /\ \A t \in joined' \ joined : pc[t] = "none" /\ pc'[t] = "begin"
    /\ terminator # "waiting" => terminator' # "waiting"
    /\ server' \in {"launch", "join", "reset"} => server \in {"launch", "join", "reset"}
    /\ ctx' = 0 \/ UNCHANGED <<ctx, executors>>

LEMMA UntouchedResources ==
  ASSUME TypeInv, ReleaseInv, Untouched
  PROVE  ExecutorsKept' /\ NothingYet' /\ Tracked'
<1> USE DEF ReleaseInv
<1>1. \A u \in Thread : Concluded(u) => Concluded(u)' /\ using'[u] = using[u]
  BY DEF Untouched, Concluded
<1>2. \A t \in Thread, type \in Type : Left(type, t)' <=> Left(type, t)
  BY DEF Untouched, Left, InCluster
<1>3. ExecutorsKept'
  BY <1>1, ExecutorsStayKept DEF Untouched
<1>4. NothingYet'
  BY <1>2 DEF NothingYet, Outside, Untouched
<1>5. Tracked'
  <2> SUFFICES ASSUME NEW t \in joined', server' \in {"launch", "join", "reset"}
               PROVE  Entered(t)' /\ \A type \in Type : Track(type, t)'
    BY DEF Tracked
  <2>1. t \in Thread /\ server \in {"launch", "join", "reset"}
    BY DEF Untouched
  <2>2. CASE t \notin joined
    BY <1>2, <2>1, <2>2 DEF Untouched, NothingYet, Outside, Entered, Track, Inside
  <2>3. CASE t \in joined
    <3>1. Entered(t) /\ \A type \in Type : Track(type, t)
      BY <2>1, <2>3 DEF Tracked
    <3>2. Entered(t)'
      BY <2>1, <3>1 DEF Untouched, Entered, Inside
    <3>3. Shares(t) => Shares(t)'
      BY <1>1, <2>1, ConcludedSharers DEF Untouched
    <3>5. terminator' = "waiting" /\ FailedBeside(t) => FailedBeside(t)'
      BY DEF Untouched, FailedBeside
    <3>4. ASSUME NEW type \in Type PROVE Track(type, t)'
      BY <1>2, <2>1, <3>1, <3>3, <3>5 DEF Untouched, Track, Past, Outside, NothingYet
    <3> QED
      BY <3>2, <3>4
  <2> QED
    BY <2>2, <2>3
<1> QED
  BY <1>3, <1>4, <1>5

LEMMA HookUntouched ==
  ASSUME TypeInv, Separate, Flags, HookStep
  PROVE  Untouched /\ Flags'
<1> USE DEF TypeInv, Untouched, executorVars, stateVars, threadVars
<1>0. joined \subseteq Thread
  BY DEF TypeOK, ThreadTypeOK
<1>1. CASE \E who \in Thread \cup {Worker} : HookStart(who)
  BY <1>0, <1>1 DEF HookStart, Intercepts, Flags
<1>2. CASE StopExecutor \/ HookEnd
  <2>1. \/ hook'.at = hook.at /\ terminator' = terminator
        \/ hook'.at = "idle" /\ terminator' \in {"reset", terminator}
    BY <1>2 DEF StopExecutor, HookEnd, Idle, TypeOK, ControlTypeOK
  <2> QED
    BY <1>0, <1>2, <2>1 DEF StopExecutor, HookEnd, Flags
<1>3. CASE HookContext \/ HookPublish \/ StopFails
  <2>1. hook.at # "idle"
    BY <1>3 DEF HookContext, HookPublish, StopFails
  <2>2. CASE HookRaises
    <3>1. /\ terminator # "waiting" /\ terminator' # "waiting" /\ hook'.at = "idle"
          /\ server' \in {"join", "lost", server} /\ (server' # server => server = "launch")
      BY <2>1, <2>2 DEF HookRaises, Idle, Flags, HookOwner
    <3>2. \A t \in Thread : \/ pc'[t] = pc[t]
                            \/ pc[t] # "none" /\ pc'[t] = "dead"
      BY <2>2 DEF HookRaises, HookOwner, AccessPlace, TypeOK, ExecutorTypeOK
    <3> QED
      BY <1>0, <1>3, <3>1, <3>2 DEF HookContext, HookPublish, StopFails, Flags
  <2>3. CASE ~HookRaises
    <3>1. UNCHANGED <<terminator, server, pc>>
      BY <1>3, <2>3 DEF HookContext, HookPublish, HookLoops, StopFails
    <3> QED
      BY <1>0, <1>3, <2>1, <3>1 DEF HookContext, HookPublish, StopFails, Flags
  <2> QED
    BY <2>2, <2>3
<1> QED
  BY <1>1, <1>2, <1>3 DEF HookStep

LEMMA TerminatorUntouched ==
  ASSUME TypeInv, Flags, TerminatorStep \/ Choose
  PROVE  Untouched /\ Flags'
<1> USE DEF TypeInv, Untouched, executorVars, stateVars, threadVars
<1>0. joined \subseteq Thread
  BY DEF TypeOK, ThreadTypeOK
<1>1. CASE Choose \/ Mark
  BY <1>0, <1>1 DEF Choose, Mark, Flags
<1>2. CASE Signal
  BY <1>0, <1>2 DEF Signal, Flags
<1>3. CASE ResetByTerminator
  BY <1>0, <1>3 DEF ResetByTerminator, ResetState, Flags
<1> QED
  BY <1>1, <1>2, <1>3 DEF TerminatorStep

LEMMA ServerUntouched ==
  ASSUME TypeInv, Separate, Flags, Launch \/ Join \/ ResetByServer
  PROVE  Untouched /\ Flags'
<1> USE DEF TypeInv, Untouched, executorVars, stateVars, threadVars
<1>0. joined \subseteq Thread
  BY DEF TypeOK, ThreadTypeOK
<1>1. CASE Launch
  <2>1. CASE UNCHANGED <<pc, queue, ready, joined, late>>
    BY <1>0, <1>1, <2>1 DEF Launch, Flags
  <2>2. CASE StartThreads(ReadyTasks(finished), pc)
    <3>1. ReadyTasks(finished) \in SUBSET Thread /\ pc \in [Thread -> Place]
      BY DEF ReadyTasks, TypeOK, StateTypeOK, ExecutorTypeOK
    <3>2. \A t \in ready \cup ReadyTasks(finished) : t \in Thread /\ pc[t] = "none"
      BY DEF ReadyTasks, Separate, StartOnce, TypeOK, StateTypeOK
    <3>3. /\ \A t \in Thread : pc'[t] = pc[t] \/ (pc[t] = "none" /\ pc'[t] = "begin")
          /\ joined' \subseteq Thread
          /\ \A t \in joined' \ joined : pc[t] = "none" /\ pc'[t] = "begin"
      <4>1. \/ pc' = pc /\ joined' = joined
            \/ /\ \A t \in Thread :
                     pc'[t] = IF t \in ready \cup ReadyTasks(finished) THEN "begin" ELSE pc[t]
               /\ joined' = joined \/ joined' = joined \cup (ready \cup ReadyTasks(finished))
        BY <2>2, <3>1, StartedThreads
      <4> QED
        BY <1>0, <3>2, <4>1
    <3> QED
      BY <1>1, <3>3 DEF Launch, Flags
  <2> QED
    BY <1>1, <2>1, <2>2 DEF Launch
<1>2. CASE Join
  BY <1>0, <1>2 DEF Join, Flags
<1>3. CASE ResetByServer
  <2>1. hook'.at = hook.at
    BY <1>3 DEF ResetByServer, ResetState, TypeOK, ControlTypeOK
  <2> QED
    BY <1>0, <1>3, <2>1 DEF ResetByServer, ResetState, Flags
<1> QED
  BY <1>1, <1>2, <1>3

LEMMA HandOverUntouched ==
  ASSUME TypeInv, Separate, Flags, NEW t \in Thread, HandOver(t)
  PROVE  Untouched /\ Flags'
<1> USE DEF TypeInv
<1> DEFINE at == [pc EXCEPT ![t] = "done"]
<1>1. /\ pc[t] = "handover" /\ StartThreads(handed[t], at)
      /\ UNCHANGED <<submission, run, using, answer, registered, job, configmaps, undeleted,
                     terminator, server, ctx, executors, terminating, hook>>
  BY DEF HandOver, At, ExecutorsUnchanged, controlVars
<1>2. /\ handed[t] \in SUBSET Thread /\ at \in [Thread -> Place] /\ joined \subseteq Thread
      /\ \A u \in Thread : at[u] = IF u = t THEN "done" ELSE pc[u]
  BY DEF TypeOK, ThreadTypeOK, ExecutorTypeOK, Place
<1>3. \A u \in ready \cup handed[t] : u \in Thread /\ pc[u] = "none"
  BY <1>1, <1>2 DEF Separate, StartOnce, TypeOK, StateTypeOK
<1> HIDE DEF at
<1>4. \/ pc' = at /\ joined' = joined
      \/ /\ \A u \in Thread : pc'[u] = IF u \in ready \cup handed[t] THEN "begin" ELSE at[u]
         /\ joined' = joined \/ joined' = joined \cup (ready \cup handed[t])
  <2>1. ASSUME NEW a \in [Thread -> Place], StartThreads(handed[t], a)
        PROVE  \/ pc' = a /\ joined' = joined
               \/ /\ \A u \in Thread :
                        pc'[u] = IF u \in ready \cup handed[t] THEN "begin" ELSE a[u]
                  /\ joined' = joined \/ joined' = joined \cup (ready \cup handed[t])
    <3>1. handed[t] \in SUBSET Thread
      BY <1>2
    <3>2. \/ pc' = a /\ ready' = ready \cup handed[t] /\ UNCHANGED <<joined, late>>
          \/ /\ \A u \in Thread : pc'[u] = IF u \in ready \cup handed[t] THEN "begin" ELSE a[u]
             /\ ready' = {}
             /\ \/ /\ server \in {"launch", "join"}
                   /\ joined' = joined \cup (ready \cup handed[t]) /\ late' = late
                \/ late' = late \cup (ready \cup handed[t]) /\ joined' = joined
      BY <2>1, <3>1, StartedThreads
    <3> QED
      BY <3>2
  <2> QED
    BY <1>1, <1>2, <2>1
<1>5. \A u \in Thread : \/ pc'[u] = pc[u]
                        \/ pc[u] = "none" /\ pc'[u] = "begin"
                        \/ pc[u] = "handover" /\ pc'[u] = "done"
  BY <1>1, <1>2, <1>3, <1>4
<1>6. joined' \subseteq Thread /\ \A u \in joined' \ joined : pc[u] = "none" /\ pc'[u] = "begin"
  BY <1>2, <1>3, <1>4
<1> QED
  BY <1>1, <1>5, <1>6 DEF Untouched, Flags

\* What a deletion leaves was there before, and was not to be deleted.
LEMMA DeletionLeft ==
  ASSUME TypeOK, NEW e \in Executor, DeleteResources(e),
         NEW t \in Thread, NEW type \in Type, Left(type, t)'
  PROVE  Left(type, t) /\ <<type, t>> \notin registered[e]
<1>1. PICK kept \in SUBSET registered[e] :
        /\ undeleted' = undeleted \cup kept
        /\ job' = [u \in Thread |-> IF <<"job", u>> \in registered[e] \ kept
                                    THEN "none" ELSE job[u]]
        /\ configmaps' = {u \in configmaps : <<"configmap", u>> \notin registered[e] \ kept}
  BY DEF DeleteResources
<1>2. <<type, t>> \notin registered[e]
  BY <1>1 DEF Left, InCluster, Type
<1> QED
  BY <1>1, <1>2 DEF Left, InCluster, Type

\* A step of thread u, for the resources of the others.
Moves(u) ==
    /\ UNCHANGED <<submission, run, server, terminator, joined, ctx>>
    /\ \A t \in Thread \ {u} :
          /\ pc'[t] = pc[t] /\ using'[t] = using[t] /\ answer'[t] = answer[t]
          /\ \A type \in Type : Left(type, t)' => Left(type, t)
    /\ pc[u] = "done" => pc'[u] = "done" /\ answer'[u] = answer[u]
    /\ \A e \in Executor : registered[e] \subseteq registered'[e]
    /\ Concluded(u) => Concluded(u)' /\ using'[u] = using[u]
    /\ \A e \in executors : e \in executors' \/ (using'[u] = e /\ Concluded(u)')

\* What it has to keep of its own.
Keeps(u) ==
    /\ pc'[u] \in Outside => \A type \in Type : ~Left(type, u)'
    /\ u \in joined /\ server \in {"launch", "join", "reset"} =>
          Entered(u)' /\ \A type \in Type : Track(type, u)'

LEMMA MovesResources ==
  ASSUME TypeInv, ReleaseInv, NEW u \in Thread, Moves(u), Keeps(u)
  PROVE  ExecutorsKept' /\ NothingYet' /\ Tracked'
<1> USE DEF ReleaseInv, Moves, Keeps
<1>1. \A t \in Thread : Concluded(t) => Concluded(t)' /\ using'[t] = using[t]
  BY DEF Concluded
<1>2. ExecutorsKept'
  BY <1>1, ExecutorsStayKept
<1>3. NothingYet'
  BY DEF NothingYet
<1>4. ASSUME NEW t \in joined', server' \in {"launch", "join", "reset"}
      PROVE  Entered(t)' /\ \A type \in Type : Track(type, t)'
  <2>1. CASE t = u
    BY <1>4, <2>1
  <2>2. CASE t # u
    <3>1. t \in Thread \ {u} /\ Entered(t) /\ \A type \in Type : Track(type, t)
      BY <1>4, <2>2 DEF Tracked, TypeInv, TypeOK, ThreadTypeOK
    <3>2. Shares(t) => Shares(t)'
      BY <1>1, <3>1, ConcludedSharers
    <3>3. using[t] \in Executor
      BY <3>1 DEF TypeInv, TypeOK, ExecutorTypeOK
    <3>4. FailedBeside(t) => FailedBeside(t)'
      BY DEF FailedBeside
    <3> QED
      BY <3>1, <3>2, <3>3, <3>4 DEF Entered, Track
  <2> QED
    BY <2>1, <2>2
<1> QED
  BY <1>2, <1>3, <1>4 DEF Tracked

\* What is known of a thread of the list that still runs.
LEMMA JoinedRuns ==
  ASSUME TypeInv, Separate, ReleaseInv, NEW u \in joined, Active(u),
         server \in {"launch", "join", "reset"}
  PROVE  /\ ctx = run \/ (ctx = 0 /\ terminator # "waiting")
         /\ run # 0
         /\ Entered(u) /\ \A type \in Type : Track(type, u)
<1>1. run # 0
  <2>1. u \in Thread /\ ~(u[1] > run)
    BY DEF Separate, StartOnce, Active, TypeInv, TypeOK, ThreadTypeOK
  <2> QED
    BY <2>1, RunsAssumption DEF Thread, TypeInv, TypeOK, ControlTypeOK
<1> QED
  BY <1>1 DEF ReleaseInv, Flags, Tracked, Separate, JoinedOver, Over, Active

LEMMA LeftAlone ==
  UNCHANGED <<job, configmaps, undeleted>> =>
    \A t \in Thread, type \in Type : Left(type, t)' <=> Left(type, t)
  BY DEF Left, InCluster

LEMMA BeginResources ==
  ASSUME TypeInv, Separate, ReleaseInv, NEW u \in Thread, Begin(u) \/ Announce(u) \/ Enter(u)
  PROVE  Moves(u) /\ Keeps(u)
<1>1. /\ pc[u] \in {"begin", "announcing", "enter"}
      /\ UNCHANGED <<submission, run, server, terminator, joined, ctx, executors, registered,
                     job, configmaps, undeleted>>
  BY DEF Begin, Announce, Enter, At, ExecutorsUnchanged, stateVars, controlVars, threadVars
<1>2. \E p \in {"announcing", "enter", "execute", "report", "dead"} : pc' = [pc EXCEPT ![u] = p]
  BY DEF Begin, Announce, Enter, Answers, Goes
<1>3. \/ using' = using /\ pc'[u] # "execute"
      \/ ctx # 0 /\ using' = [using EXCEPT ![u] = <<ctx, u[2]>>]
  BY DEF Begin, Announce, Enter, Answers, Goes, TypeInv, TypeOK, ExecutorTypeOK
<1>4. /\ \A t \in Thread \ {u} : pc'[t] = pc[t] /\ using'[t] = using[t]
      /\ pc'[u] \in {"announcing", "enter", "execute", "report", "dead"}
  BY <1>2, <1>3 DEF TypeInv, TypeOK, ExecutorTypeOK
<1>9. \A t \in Thread \ {u} : answer'[t] = answer[t]
  BY DEF Begin, Announce, Enter, Answers, TypeInv, TypeOK, ExecutorTypeOK
<1>5. \A t \in Thread, type \in Type : Left(type, t)' <=> Left(type, t)
  BY <1>1, LeftAlone
<1>6. \A type \in Type : ~Left(type, u)
  BY <1>1 DEF ReleaseInv, NothingYet, Outside
<1>7. Moves(u)
  BY <1>1, <1>4, <1>5, <1>9 DEF Moves, Concluded
<1>8. ASSUME u \in joined, server \in {"launch", "join", "reset"}
      PROVE  Entered(u)'
  <2>1. ctx # 0 => ctx = run
    BY <1>1, <1>8, JoinedRuns DEF Active
  <2>2. pc'[u] \in Inside => using'[u] = <<ctx, u[2]>> /\ ctx # 0
    BY <1>3, <1>4 DEF Inside, TypeInv, TypeOK, ExecutorTypeOK
  <2> QED
    BY <1>1, <2>1, <2>2 DEF Entered
<1> QED
  BY <1>5, <1>6, <1>7, <1>8 DEF Keeps, Track

\* Inside execute() a thread may create something, with the executor it uses.
InsideMove(u) ==
    /\ pc[u] \in Inside /\ pc'[u] \in Inside \cup {"report"}
    /\ UNCHANGED using
    /\ \A t \in Thread \ {u} : pc'[t] = pc[t] /\ answer'[t] = answer[t]
    /\ \A t \in Thread, type \in Type : Left(type, t)' =>
          Left(type, t) \/ (t = u /\ <<type, u>> \in registered'[using[u]])
    /\ \A e \in Executor : registered[e] \subseteq registered'[e]

LEMMA InsideResources ==
  ASSUME TypeInv, Separate, ReleaseInv, NEW u \in Thread, InsideMove(u),
         UNCHANGED <<submission, run, server, terminator, joined, ctx, executors>>
  PROVE  Moves(u) /\ Keeps(u)
<1> USE DEF InsideMove
<1>1. Moves(u)
  BY DEF Moves, Concluded, Inside
<1>2. ASSUME u \in joined, server \in {"launch", "join", "reset"}
      PROVE  Entered(u)' /\ \A type \in Type : Track(type, u)'
  <2>1. Entered(u) /\ \A type \in Type : Track(type, u)
    BY <1>2, JoinedRuns DEF Inside, Active
  <2>2. using[u] = <<run, u[2]>> /\ using[u] \in Executor
    BY <2>1 DEF Entered, TypeInv, TypeOK, ExecutorTypeOK
  <2> QED
    BY <2>1, <2>2 DEF Entered, Track, Inside, Past
<1> QED
  BY <1>1, <1>2 DEF Keeps, Inside, Outside

LEMMA RegisterGrows ==
  ASSUME TypeOK, NEW u \in Thread, NEW type \in Type, Register(u, type)
  PROVE  /\ <<type, u>> \in registered'[using[u]]
         /\ \A e \in Executor : registered[e] \subseteq registered'[e]
  BY DEF TypeOK, ExecutorTypeOK, Register

LEMMA OthersAnswer ==
  ASSUME TypeInv, NEW u \in Thread, Executing(u) \/ Waiting(u)
  PROVE  \A t \in Thread \ {u} : answer'[t] = answer[t]
<1> USE DEF TypeInv, TypeOK, ExecutorTypeOK, Answers
<1>1. CASE Prepare(u) \/ CreateConfigMap(u) \/ Submit(u) \/ StopCleanup(u) \/ Waiting(u)
  BY <1>1 DEF Prepare, CreateConfigMap, Submit, StopCleanup, Waiting, Request, Follow
<1>2. CASE CreateFunctionJob(u) \/ CreateKanikoJob(u) \/ CreateSingularityJob(u)
  BY <1>2 DEF CreateFunctionJob, CreateKanikoJob, CreateSingularityJob, Created, NotCreated,
    CallFails
<1>3. CASE Poll(u)
  BY <1>3 DEF Poll, CallFails
<1>4. CASE KanikoLogs(u) \/ SingularityLogs(u)
  BY <1>4 DEF KanikoLogs, SingularityLogs, NoPods
<1> QED
  BY <1>1, <1>2, <1>3, <1>4 DEF Executing

LEMMA CreationResources ==
  ASSUME TypeInv, NEW u \in Thread,
         \/ CreateConfigMap(u)
         \/ CreateFunctionJob(u) \/ CreateKanikoJob(u) \/ CreateSingularityJob(u)
  PROVE  InsideMove(u)
<1>0. \A t \in Thread \ {u} : answer'[t] = answer[t]
  BY OthersAnswer DEF Executing
<1> USE DEF TypeInv, TypeOK, ExecutorTypeOK
<1>1. CASE CreateConfigMap(u)
  <2>1. /\ pc[u] = "configmap" /\ UNCHANGED <<using, job, undeleted>>
        /\ \E p \in {"create", "report"} : pc' = [pc EXCEPT ![u] = p]
        /\ \/ UNCHANGED <<configmaps, registered>>
           \/ configmaps' = configmaps \cup {u} /\ Register(u, "configmap")
    BY <1>1 DEF CreateConfigMap, Answers
  <2>2. \A e \in Executor : registered[e] \subseteq registered'[e]
    BY <2>1, RegisterGrows DEF Type
  <2>3. \A t \in Thread, type \in Type : Left(type, t)' =>
          Left(type, t) \/ (t = u /\ <<type, u>> \in registered'[using[u]])
    BY <2>1, RegisterGrows DEF Left, InCluster, Type
  <2> QED
    BY <1>0, <2>1, <2>2, <2>3 DEF InsideMove, Inside
<1>2. CASE CreateFunctionJob(u) \/ CreateKanikoJob(u) \/ CreateSingularityJob(u)
  <2>1. /\ pc[u] = "create" /\ UNCHANGED <<using, configmaps, undeleted>>
        /\ \E p \in {"poll", "report"} : pc' = [pc EXCEPT ![u] = p]
        /\ \/ UNCHANGED <<job, registered>>
           \/ job' = [job EXCEPT ![u] = "new"] /\ Register(u, "job")
    BY <1>2 DEF CreateFunctionJob, CreateKanikoJob, CreateSingularityJob, Created, NotCreated,
      CallFails, Answers
  <2>2. \A e \in Executor : registered[e] \subseteq registered'[e]
    BY <2>1, RegisterGrows DEF Type
  <2>3. \A t \in Thread, type \in Type : Left(type, t)' =>
          Left(type, t) \/ (t = u /\ <<type, u>> \in registered'[using[u]])
    BY <2>1, RegisterGrows DEF Left, InCluster, Type
  <2> QED
    BY <1>0, <2>1, <2>2, <2>3 DEF InsideMove, Inside
<1> QED
  BY <1>1, <1>2

LEMMA ExecuteResources ==
  ASSUME TypeInv, NEW u \in Thread, Executing(u) \/ Waiting(u)
  PROVE  InsideMove(u)
<1>0. \A t \in Thread \ {u} : answer'[t] = answer[t]
  BY OthersAnswer DEF Executing
<1> USE DEF TypeInv, TypeOK, ExecutorTypeOK
<1>1. CASE \/ Prepare(u) \/ Poll(u) \/ KanikoLogs(u) \/ SingularityLogs(u) \/ Submit(u)
           \/ Waiting(u)
  <2>1. UNCHANGED <<using, registered, job, configmaps, undeleted>>
    BY <1>1 DEF Prepare, Poll, KanikoLogs, SingularityLogs, Submit, Waiting, Request, Follow
  <2>2. pc[u] \in Inside /\ \E p \in Inside \cup {"report"} : pc' = [pc EXCEPT ![u] = p]
    BY <1>1 DEF Prepare, FirstCall, Poll, CallFails, KanikoLogs, SingularityLogs, NoPods, Submit,
      Waiting, Request, Follow, Answers, Inside
  <2> QED
    BY <1>0, <2>1, <2>2, LeftAlone DEF InsideMove
<1>2. CASE StopCleanup(u)
  <2>1. /\ pc[u] = "poll" /\ pc' = [pc EXCEPT ![u] = "report"] /\ UNCHANGED <<using, registered>>
        /\ using[u] \in Executor /\ DeleteResources(using[u])
    BY <1>2 DEF StopCleanup, Answers
  <2>2. \A t \in Thread, type \in Type : Left(type, t)' => Left(type, t)
    BY <2>1, DeletionLeft
  <2> QED
    BY <1>0, <2>1, <2>2 DEF InsideMove, Inside
<1> QED
  BY <1>1, <1>2, CreationResources DEF Executing

LEMMA ReportResources ==
  ASSUME TypeInv, Separate, ReleaseInv, NEW u \in Thread,
         Report(u) \/ Reporting(u) \/ AppendFinished(u)
  PROVE  Moves(u) /\ Keeps(u)
<1>1. /\ pc[u] \in {"report", "reporting", "append"}
      /\ \E p \in {"reporting", "append", "cleanup", "dead"} : pc' = [pc EXCEPT ![u] = p]
      /\ UNCHANGED <<submission, run, server, terminator, joined, ctx, executors, using, answer,
                     registered, job, configmaps, undeleted>>
  BY DEF Report, Reporting, AppendFinished, At, Goes, ExecutorsUnchanged, stateVars, controlVars,
    threadVars
<1>2. /\ \A t \in Thread \ {u} : pc'[t] = pc[t]
      /\ pc'[u] \in {"reporting", "append", "cleanup", "dead"}
  BY <1>1 DEF TypeInv, TypeOK, ExecutorTypeOK
<1>6. pc'[u] = "dead" => ctx = 0 \/ (pc[u] = "reporting" /\ u \in disturbed)
  BY <1>2 DEF Report, Reporting, AppendFinished, Goes, TypeInv, TypeOK, ExecutorTypeOK
<1>3. \A t \in Thread, type \in Type : Left(type, t)' <=> Left(type, t)
  BY <1>1, LeftAlone
<1>4. Moves(u)
  BY <1>1, <1>2, <1>3 DEF Moves, Concluded
<1>5. ASSUME u \in joined, server \in {"launch", "join", "reset"}
      PROVE  Entered(u)' /\ \A type \in Type : Track(type, u)'
  <2>1. /\ ctx = run \/ (ctx = 0 /\ terminator # "waiting")
        /\ run # 0 /\ \A type \in Type : Track(type, u)
    BY <1>1, <1>5, JoinedRuns DEF Active
  <2>2. pc'[u] = "dead" => terminator' # "waiting" \/ FailedBeside(u)
    BY <1>1, <1>6, <2>1 DEF ReleaseInv, Heard, Unfinished
  <2>3. FailedBeside(u) => FailedBeside(u)'
    BY <1>1, <1>2 DEF FailedBeside
  <2> QED
    BY <1>1, <1>2, <1>3, <2>1, <2>2, <2>3 DEF Entered, Track, Inside, Past
<1> QED
  BY <1>2, <1>4, <1>5 DEF Keeps, Outside

LEMMA CleanupResources ==
  ASSUME TypeInv, Separate, ReleaseInv, NEW u \in Thread, Cleanup(u)
  PROVE  Moves(u) /\ Keeps(u)
<1> DEFINE e == <<ctx, u[2]>>
<1>1. /\ pc[u] = "cleanup"
      /\ UNCHANGED <<submission, run, server, terminator, joined, ctx, executors, registered>>
  BY DEF Cleanup, At, stateVars, controlVars, threadVars
<1>2. \/ /\ ctx # 0 /\ e \in executors /\ DeleteResources(e)
         /\ using' = [using EXCEPT ![u] = e] /\ pc' = [pc EXCEPT ![u] = "conclude"]
      \/ /\ ctx # 0 /\ e \notin executors
         /\ \E p \in {"conclude", "dead"} : pc' = [pc EXCEPT ![u] = p]
         /\ using' = [using EXCEPT ![u] = e] /\ UNCHANGED <<job, configmaps, undeleted>>
      \/ /\ ctx = 0 /\ pc' = [pc EXCEPT ![u] = "dead"]
         /\ UNCHANGED <<using, job, configmaps, undeleted>>
  BY DEF Cleanup, Goes
<1>3. /\ \A t \in Thread \ {u} : pc'[t] = pc[t] /\ using'[t] = using[t]
      /\ pc'[u] \in {"conclude", "dead"} /\ (ctx = 0 => pc'[u] = "dead" /\ using'[u] = using[u])
      /\ ctx # 0 => using'[u] = e
  BY <1>2 DEF TypeInv, TypeOK, ExecutorTypeOK
<1>4. e \in executors => e \in Executor
  BY DEF TypeInv, TypeOK, StateTypeOK
<1>5. \A t \in Thread, type \in Type : Left(type, t)' =>
        Left(type, t) /\ (e \in executors /\ ctx # 0 => <<type, t>> \notin registered[e])
  BY <1>2, <1>4, LeftAlone, DeletionLeft DEF TypeInv
<1>6. Moves(u)
  BY <1>1, <1>3, <1>5 DEF Moves, Concluded, Cleanup
<1>7. ASSUME u \in joined, server \in {"launch", "join", "reset"}, NEW type \in Type,
             Left(type, u)'
      PROVE  /\ using'[u] = <<run, u[2]>>
             /\ terminator' # "waiting" /\ (pc'[u] = "dead" \/ Shares(u)')
  <2>1. /\ ctx = run \/ (ctx = 0 /\ terminator # "waiting")
        /\ run # 0 /\ using[u] = <<run, u[2]>> /\ <<type, u>> \in registered[using[u]]
    BY <1>1, <1>5, <1>7, JoinedRuns DEF Active, Track, Past
  <2>2. CASE ctx = 0 /\ terminator # "waiting"
    BY <1>1, <1>3, <2>1, <2>2
  <2>3. CASE ctx = run /\ ctx # 0
    <3>0. terminator = "waiting" => using[u] = u /\ u = e
      BY <2>1, <2>3 DEF ReleaseInv, Calm
    <3>1. e \notin executors
      BY <1>5, <1>7, <2>1, <2>3
    <3>2. u[2] \in TasksOf(submission)
      BY <1>1 DEF TypeInv, OfPipeline, Met
    <3>3. PICK v \in Thread : using[v] = e /\ Concluded(v)
      BY <2>3, <3>1, <3>2 DEF ReleaseInv, ExecutorsKept
    <3>4. v # u
      BY <1>1, <3>3 DEF Concluded
    <3>5. terminator # "waiting"
      BY <3>0, <3>3, <3>4 DEF ReleaseInv, Calm
    <3> QED
      BY <1>1, <1>3, <2>3, <3>3, <3>4, <3>5 DEF Shares, Concluded
  <2> QED
    BY <2>1, <2>2, <2>3
<1> QED
  BY <1>1, <1>3, <1>6, <1>7 DEF Keeps, Entered, Track, Inside, Outside, Past

LEMMA ConcludeResources ==
  ASSUME TypeInv, Separate, ReleaseInv, NEW u \in Thread, Conclude(u) \/ EndRun(u)
  PROVE  Moves(u) /\ Keeps(u)
<1>1. /\ pc[u] \in {"conclude", "complete", "fail"}
      /\ \E p \in {"complete", "fail", "handover", "done", "dead"} : pc' = [pc EXCEPT ![u] = p]
      /\ executors' \in {executors, executors \ {using[u]}}
      /\ pc[u] # "conclude" => pc' = [pc EXCEPT ![u] = "done"] /\ UNCHANGED executors
      /\ UNCHANGED <<submission, run, server, terminator, joined, ctx, using, answer, registered,
                     job, configmaps, undeleted>>
  BY DEF Conclude, EndRun, At, Goes, ExecutorsUnchanged, stateVars, controlVars, threadVars
<1>2. /\ \A t \in Thread \ {u} : pc'[t] = pc[t]
      /\ pc'[u] \in {"complete", "fail", "handover", "done", "dead"}
  BY <1>1 DEF TypeInv, TypeOK, ExecutorTypeOK
<1>3. \A t \in Thread, type \in Type : Left(type, t)' <=> Left(type, t)
  BY <1>1, LeftAlone
<1>4. Moves(u)
  BY <1>1, <1>2, <1>3 DEF Moves, Concluded
<1>5. ASSUME u \in joined, server \in {"launch", "join", "reset"}
      PROVE  Entered(u)' /\ \A type \in Type : Track(type, u)'
  <2>1. \A type \in Type : Track(type, u)
    BY <1>1, <1>5, JoinedRuns DEF Active
  <2>2. Shares(u) => Shares(u)'
    BY <1>1, <1>2, ConcludedSharers DEF Concluded
  <2> QED
    BY <1>1, <1>2, <1>3, <2>1, <2>2 DEF Entered, Track, Inside, Past
<1> QED
  BY <1>2, <1>4, <1>5 DEF Keeps, Outside

LEMMA JobResources ==
  ASSUME TypeInv, ReleaseInv, NEW u \in Thread, Job(u)
  PROVE  Moves(u) /\ Keeps(u)
<1>1. /\ UNCHANGED <<pc, using, submission, run, server, terminator, joined, ctx, executors,
                     registered, configmaps, undeleted>>
      /\ job[u] # "none" /\ \E status : job' = [job EXCEPT ![u] = status]
  BY DEF Job, JobStep, stateVars, controlVars, threadVars
<1>5. UNCHANGED answer
  BY DEF Job, JobStep
<1>2. \A t \in Thread, type \in Type : Left(type, t)' => Left(type, t)
  BY <1>1 DEF Left, InCluster, TypeInv, TypeOK, ExecutorTypeOK
<1>3. Moves(u)
  BY <1>1, <1>2, <1>5 DEF Moves, Concluded
<1>4. (Shares(u) => Shares(u)') /\ (FailedBeside(u) => FailedBeside(u)')
  BY <1>1, <1>5 DEF Shares, FailedBeside
<1> QED
  BY <1>1, <1>2, <1>3, <1>4 DEF Keeps, ReleaseInv, NothingYet, Tracked, Entered, Track

\* When all tasks are in finished, no thread of the run has yet to append its.
LEMMA LastComplete ==
  ASSUME TypeInv, Separate, Calm, Heard, terminator = "waiting", NEW t \in Thread, Active(t),
         Complete
  PROVE  \A u \in {run} \X TasksOf(submission) : pc[u] \notin Unfinished
<1> DEFINE S == {run} \X TasksOf(submission)
<1>1. tasks = TasksOf(submission) /\ IsFiniteSet(tasks)
  <2>1. TasksOf(submission) \subseteq Task
    BY BoundsOfSubmission DEF TypeInv, TypeOK
  <2> QED
    BY <2>1, CalmRuns, FS_Subset, TaskAssumption DEF Heard
<1>2. IsFiniteSet(S) /\ Cardinality(S) = Cardinality(tasks)
  <2>1. IsFiniteSet({run}) /\ Cardinality({run}) = 1
    BY FS_Singleton
  <2>2. Cardinality(S) = 1 * Cardinality(tasks) /\ IsFiniteSet(S)
    BY <1>1, <2>1, FS_Product
  <2> QED
    BY <1>1, <2>2, FS_CardinalityType
<1>3. finished \subseteq S
  <2>1. ASSUME NEW u \in finished PROVE u \in S
    <3>1. u \in Thread /\ u[1] = run /\ pc[u] # "none"
      BY DEF TypeInv, TypeOK, StateTypeOK, Heard, Unfinished, Outside
    <3>2. u[2] \in TasksOf(submission)
      BY <3>1 DEF TypeInv, OfPipeline, Met
    <3>3. u = <<u[1], u[2]>>
      BY <3>1 DEF Thread
    <3> QED
      BY <3>1, <3>2, <3>3
  <2> QED
    BY <2>1
<1>4. finished = S
  <2>1. Cardinality(S) = Cardinality(finished)
    BY <1>2 DEF Complete
  <2> HIDE DEF S
  <2> QED
    BY <1>2, <1>3, <2>1, FS_Subset
<1> QED
  BY <1>4 DEF Heard

\* What a thread does in a worker that is not terminated, as far as the others
\* hear of it.
Told(u) ==
    /\ UNCHANGED <<submission, run, server, terminator, tasks>>
    /\ \A t \in Thread \ {u} :
          /\ pc'[t] = pc[t] \/ (pc[t] = "none" /\ pc'[t] = "begin")
          /\ answer'[t] = answer[t]
    /\ pc[u] = "done" => pc'[u] = "done" /\ answer'[u] = answer[u]
    /\ pc'[u] \in Unfinished => pc[u] \in Unfinished
    /\ finished' = finished \/ (finished' = finished \cup {u} /\ pc'[u] = "cleanup")
    /\ pc'[u] = "fail" => answer'[u] \notin {"ok", "skipped"}
    /\ pc'[u] = "complete" => pc[u] = "complete" \/ Complete
    /\ \/ disturbed' = disturbed /\ (u \in disturbed => pc'[u] = pc[u])
       \/ disturbed' = disturbed \ {u}
       \/ /\ disturbed' = {t \in Thread \ {u} : Publishing(t)}
          /\ pc[u] \in {"complete", "fail"} /\ pc'[u] = "done" /\ UNCHANGED answer

LEMMA ToldHeard ==
  ASSUME TypeInv, Separate, Calm, Heard, terminator = "waiting", NEW u \in Thread,
         Active(u), Told(u)
  PROVE  Heard'
<1>1. server \in {"launch", "join"} /\ u[1] = run
  BY CalmRuns DEF Calm
<1>2. \A t \in Thread : pc'[t] \in Unfinished => pc[t] \in Unfinished
  BY DEF Told, Unfinished, Outside
<1>3. ASSUME NEW t \in finished' PROVE t[1] = run /\ pc'[t] \notin Unfinished
  <2>1. CASE t \in finished
    BY <1>2, <2>1 DEF Heard, TypeInv, TypeOK, StateTypeOK
  <2>2. CASE t = u /\ pc'[u] = "cleanup"
    BY <1>1, <2>2 DEF Unfinished, Outside, Inside
  <2> QED
    BY <1>3, <2>1, <2>2 DEF Told
<1>4. ASSUME NEW t \in Thread, pc'[t] = "fail" PROVE answer'[t] \notin {"ok", "skipped"}
  BY <1>4 DEF Told, Heard
<1>5. ASSUME NEW t \in Thread, pc'[t] = "complete", NEW v \in {run} \X TasksOf(submission)
      PROVE  pc'[v] \notin Unfinished
  <2>1. pc[v] \notin Unfinished
    <3>1. CASE t # u
      BY <1>5, <3>1 DEF Told, Heard
    <3>2. CASE t = u
      BY <1>5, <3>2, LastComplete DEF Told, Heard
    <3> QED
      BY <3>1, <3>2
  <2>2. v \in Thread
    BY BoundsOfSubmission, <1>1 DEF Thread, TypeInv, TypeOK
  <2> QED
    BY <1>2, <2>1, <2>2
<1>6. ASSUME NEW t \in disturbed' PROVE t \in Thread /\ Publishing(t)'
  BY DEF Told, Heard, Publishing, TypeInv, TypeOK, ThreadTypeOK
<1>7. ASSUME NEW t \in disturbed', pc'[t] \in Unfinished PROVE FailedBeside(t)'
  <2>1. t \in Thread /\ pc[t] \in Unfinished
    BY <1>2, <1>6, <1>7
  <2>2. CASE t \in disturbed
    BY <2>1, <2>2 DEF Heard, FailedBeside, Told
  <2>3. CASE /\ t # u /\ Publishing(t)
             /\ pc[u] \in {"complete", "fail"} /\ pc'[u] = "done" /\ UNCHANGED answer
    <3>1. Active(t)
      BY <2>3 DEF Publishing, Active
    <3>2. t[1] = run /\ t \in {run} \X TasksOf(submission)
      <4>1. <<run, t[2]>> = t
        BY <2>1, <3>1, CalmRuns DEF Calm
      <4>2. t[2] \in TasksOf(submission)
        BY <2>1, <3>1 DEF TypeInv, OfPipeline, Met, Active
      <4> QED
        BY <4>1, <4>2
    <3>3. pc[u] = "fail"
      BY <2>1, <2>3, <3>2 DEF Heard
    <3> QED
      BY <1>1, <2>3, <3>2, <3>3 DEF Heard, FailedBeside
  <2> QED
    BY <2>2, <2>3 DEF Told
<1> QED
  BY <1>1, <1>3, <1>4, <1>5, <1>6, <1>7 DEF Heard, Told

LEMMA StepTold ==
  ASSUME TypeInv, Separate, Calm, Heard, terminator = "waiting", NEW u \in Thread,
         ThreadStep(u) \/ Wait(u)
  PROVE  Active(u) /\ Told(u)
<1> USE DEF Active, Told, Goes, Answers, At, ExecutorsUnchanged, stateVars, controlVars,
          threadVars, exchangeVars, TypeInv, TypeOK, ExecutorTypeOK
<1>0. pc[u] \notin {"announcing", "reporting", "complete", "fail"} => u \notin disturbed
  BY DEF Heard, Publishing
<1>1. CASE Begin(u) \/ Enter(u)
  BY <1>0, <1>1 DEF Begin, Enter, Unfinished, Outside, Inside
<1>2. CASE Announce(u) \/ Reporting(u)
  BY <1>2 DEF Announce, Reporting, Published, Unfinished, Outside, Inside
<1>3. CASE Execute(u) \/ Wait(u)
  <2>1. Executing(u) \/ Waiting(u)
    BY <1>3 DEF Execute, Wait
  <2>2. InsideMove(u)
    BY <2>1, ExecuteResources
  <2>3. \A t \in Thread \ {u} : answer'[t] = answer[t]
    BY <2>1, OthersAnswer
  <2>4. UNCHANGED <<submission, stateVars, controlVars, threadVars, exchangeVars>>
    BY <1>3, <2>1, ExecutingUses DEF Execute, Wait
  <2> QED
    BY <1>0, <2>2, <2>3, <2>4 DEF InsideMove, Unfinished, Outside, Inside
<1>4. CASE Report(u) \/ AppendFinished(u)
  BY <1>0, <1>4 DEF Report, AppendFinished, Unfinished, Outside, Inside
<1>5. CASE Cleanup(u)
  BY <1>0, <1>5 DEF Cleanup, Unfinished, Outside, Inside
<1>6. CASE Conclude(u)
  BY <1>0, <1>6 DEF Conclude, Unfinished, Outside, Inside
<1>7. CASE EndRun(u)
  BY <1>7 DEF EndRun, Published, Unfinished, Outside, Inside
<1>8. CASE HandOver(u)
  <2>1. /\ pc[u] = "handover" /\ StartThreads(handed[u], [pc EXCEPT ![u] = "done"])
        /\ UNCHANGED <<submission, run, server, terminator, tasks, finished, disturbed, answer>>
    BY <1>8 DEF HandOver
  <2>2. \A v \in ready \cup handed[u] : pc[v] = "none"
    BY <2>1 DEF Separate, StartOnce
  <2>3. /\ pc'[u] = "done"
        /\ \A t \in Thread \ {u} : pc'[t] = pc[t] \/ (pc[t] = "none" /\ pc'[t] = "begin")
    BY <2>1, <2>2 DEF StartThreads
  <2> QED
    BY <1>0, <2>1, <2>3 DEF Unfinished, Outside, Inside
<1> QED
  BY <1>1, <1>2, <1>3, <1>4, <1>5, <1>6, <1>7, <1>8 DEF ThreadStep

LEMMA HeardStep ==
  ASSUME TypeInv, Separate, Flags, Calm, Heard, [Next]_vars
  PROVE  Heard'
<1> SUFFICES ASSUME terminator' = "waiting" PROVE Heard'
  BY DEF Heard
<1> USE DEF executorVars, stateVars, controlVars, threadVars, exchangeVars
<1>1. CASE UNCHANGED vars
  BY <1>1 DEF vars, Heard, Publishing, FailedBeside, TasksOf
<1>2. CASE HookStep \/ TerminatorStep \/ Choose
  BY <1>2 DEF HookStep, HookStart, Intercepts, HookContext, HookPublish, HookLoops, HookRaises,
    StopExecutor, StopFails, HookEnd, TerminatorStep, Signal, ResetByTerminator, Mark, Choose, Flags
<1>3. CASE Stage \/ Launch
  <2>1. terminator = "waiting" /\ UNCHANGED <<submission, answer, finished>>
    BY <1>3 DEF Stage, Launch
  <2>2. \A t \in Thread : ~Active(t)
    BY <1>3, <2>1 DEF Stage, Launch, Calm, Separate, ActiveListed, JoinedOver, Active, Over
  <2>3. disturbed' = {}
    BY <1>3, <2>1, <2>2 DEF Stage, Launch, ResetExchange, Disturb, Heard, Publishing, Active,
      TypeInv, TypeOK, ThreadTypeOK
  <2>4. \A t \in Thread :
           /\ pc'[t] \in {"none", "begin", "done", "dead"}
           /\ pc'[t] \in Unfinished => pc[t] \in Unfinished
    <3>1. CASE pc' = pc
      BY <2>2, <3>1 DEF Active
    <3>2. CASE Launch /\ StartThreads(ReadyTasks(finished), pc)
      <4>1. \A t \in ready \cup ReadyTasks(finished) : pc[t] = "none"
        BY DEF ReadyTasks, Separate, StartOnce
      <4>2. \A t \in Thread : pc'[t] = pc[t] \/ (pc[t] = "none" /\ pc'[t] = "begin")
        BY <3>2, <4>1 DEF StartThreads
      <4> QED
        BY <2>2, <4>2 DEF Active, Unfinished, Outside
    <3> QED
      BY <1>3, <3>1, <3>2 DEF Stage, Launch
  <2>5. CASE Stage
    BY <2>1, <2>3, <2>4, <2>5 DEF Stage, Heard
  <2>6. CASE Launch
    <3>1. UNCHANGED <<run, tasks>> /\ server' # "idle" /\ server = "launch"
      BY <2>6 DEF Launch
    <3> QED
      BY <2>1, <2>3, <2>4, <3>1 DEF Heard, TypeInv, TypeOK, StateTypeOK
  <2> QED
    BY <1>3, <2>5, <2>6
<1>4. CASE Join \/ ResetByServer
  <2>1. /\ terminator = "waiting" /\ UNCHANGED <<submission, answer, pc, run, disturbed>>
        /\ \/ UNCHANGED <<finished, tasks>> /\ server' = "reset"
           \/ finished' = {} /\ server' = "idle"
    BY <1>4 DEF Join, ResetByServer, ResetState
  <2>2. \A t \in Thread : FailedBeside(t)' <=> FailedBeside(t)
    BY <2>1 DEF FailedBeside
  <2> QED
    BY <2>1, <2>2 DEF Heard, Publishing, TypeInv, TypeOK, ThreadTypeOK
<1>5. CASE \E t \in Thread : ThreadStep(t) \/ Wait(t)
  <2>1. PICK t \in Thread : ThreadStep(t) \/ Wait(t)
    BY <1>5
  <2>2. terminator = "waiting"
    BY <2>1 DEF ThreadStep, Begin, Announce, Enter, Execute, Report, Reporting, AppendFinished,
      Cleanup, Conclude, EndRun, HandOver, Wait
  <2> QED
    BY <2>1, <2>2, StepTold, ToldHeard
<1>6. CASE \E t \in Thread : Job(t)
  <2>1. UNCHANGED <<submission, answer, pc, stateVars, controlVars, exchangeVars>>
    BY <1>6 DEF Job, JobStep
  <2> QED
    BY <2>1 DEF Heard, Publishing, FailedBeside, TasksOf
<1> QED
  BY <1>1, <1>2, <1>3, <1>4, <1>5, <1>6 DEF Next, Running, ServerStep

LEMMA StepResources ==
  ASSUME TypeInv, Separate, ReleaseInv, [Next]_vars
  PROVE  ReleaseInv'
<1> USE DEF ReleaseInv
<1>0. Calm' /\ Heard'
  BY CalmStep, HeardStep
<1>1. CASE UNCHANGED vars
  BY <1>0, <1>1 DEF vars, executorVars, stateVars, controlVars, threadVars, Flags, ExecutorsKept,
    Concluded, NothingYet, Tracked, Entered, Track, Shares, FailedBeside, Left, InCluster
<1>2. CASE HookStep \/ TerminatorStep \/ Choose \/ Launch \/ Join \/ ResetByServer
  BY <1>0, <1>2, HookUntouched, TerminatorUntouched, ServerUntouched, UntouchedResources
<1>3. CASE Stage
  <2>1. UNCHANGED executorVars /\ ctx' = run + 1 /\ run' = run + 1 /\ joined' = {}
    BY <1>3 DEF Stage
  <2>2. Flags' /\ Tracked'
    <3>1. run + 1 # 0
      BY RunsAssumption DEF TypeInv, TypeOK, ControlTypeOK
    <3> QED
      BY <1>3, <2>1, <3>1 DEF Stage, Flags, Tracked
  <2>3. ExecutorsKept'
    <3>1. {run + 1} \X TasksOf(submission) \subseteq executors' /\ submission' = submission
      BY <1>3 DEF Stage, executorVars
    <3> QED
      BY <2>1, <3>1 DEF ExecutorsKept, TasksOf
  <2>4. NothingYet'
    BY <2>1 DEF NothingYet, Left, InCluster, executorVars
  <2> QED
    BY <1>0, <2>2, <2>3, <2>4
<1>4. CASE \E u \in Thread : ThreadStep(u) \/ Wait(u) \/ Job(u)
  <2>1. PICK u \in Thread : ThreadStep(u) \/ Wait(u) \/ Job(u)
    BY <1>4
  <2>2. CASE HandOver(u)
    BY <1>0, <2>2, HandOverUntouched, UntouchedResources
  <2>3. CASE ~HandOver(u)
    <3>1. Flags'
      BY <2>1, <2>3 DEF ThreadStep, Begin, Announce, Enter, Execute, Report, Reporting,
        AppendFinished, Cleanup, Conclude, EndRun, Wait, Job, stateVars, controlVars, Flags
    <3>2. Moves(u) /\ Keeps(u)
      <4>1. CASE Execute(u) \/ Wait(u)
        BY <4>1, ExecuteResources, InsideResources, ExecutingUses
          DEF Execute, Wait, stateVars, controlVars, threadVars
      <4>2. CASE Begin(u) \/ Announce(u) \/ Enter(u)
        BY <4>2, BeginResources
      <4>3. CASE \/ Report(u) \/ Reporting(u) \/ AppendFinished(u)
                 \/ Cleanup(u) \/ Conclude(u) \/ EndRun(u)
        BY <4>3, ReportResources, CleanupResources, ConcludeResources
      <4>4. CASE Job(u)
        BY <4>4, JobResources
      <4> QED
        BY <2>1, <2>3, <4>1, <4>2, <4>3, <4>4 DEF ThreadStep
    <3> QED
      BY <1>0, <3>1, <3>2, MovesResources
  <2> QED
    BY <2>2, <2>3
<1> QED
  BY <1>1, <1>2, <1>3, <1>4 DEF Next, Running, ServerStep

LEMMA Invariant == Spec => [](TypeOK /\ ThreadInv /\ ReleaseInv)
<1>1. Init => TypeOK /\ ThreadInv /\ ReleaseInv
  BY InitType, InitThreads, InitResources DEF TypeInv
<1>2. TypeOK /\ ThreadInv /\ ReleaseInv /\ [Next]_vars => (TypeOK /\ ThreadInv /\ ReleaseInv)'
  BY StepThreads, StepResources DEF TypeInv, ThreadInv
<1> QED
  BY <1>1, <1>2, PTL DEF Spec

\* A worker that nobody terminates is given a run when all threads of the
\* earlier ones have ended.  In one that was terminated a thread of an earlier
\* run that still runs was started late, or by a thread that was.
THEOREM ThreadsSeparate == Spec => []RunsSeparate
<1>1. TypeOK /\ ThreadInv /\ ReleaseInv => RunsSeparate
  <2> SUFFICES ASSUME TypeOK, ThreadInv, ReleaseInv, NEW t \in Thread, t[1] < run, Active(t)
               PROVE  terminator # "waiting" /\ (t \in late \/ (t \in joined /\ late # {}))
    BY DEF RunsSeparate, Active
  <2>1. t \in joined \cup late
    BY DEF ThreadInv, Separate, ActiveListed
  <2>2. late = {} => t \notin joined
    <3>1. t[1] \in Int /\ run \in Int /\ t[1] # run
      BY RunsAssumption DEF Thread, TypeOK, ControlTypeOK
    <3> QED
      BY <3>1 DEF ThreadInv, Separate, OneRun
  <2> QED
    BY <2>1, <2>2 DEF ReleaseInv, Calm
<1> QED
  BY <1>1, Invariant, PTL

\* When the server thread has joined the threads of a run that was not
\* terminated, all they created has been deleted, or a deletion failed, or a
\* thread beside the one that created it has failed and took the subscribers
\* away in whose midst it was; a termination can leave behind what a thread
\* created that lost the context, or its executor to a thread of another run.
THEOREM ClusterReleased == Spec => []ResourcesReleased
<1>1. TypeOK /\ ThreadInv /\ ReleaseInv => ResourcesReleased
  <2> SUFFICES ASSUME TypeOK, ThreadInv, ReleaseInv, server = "reset", NEW t \in joined,
                      NEW type \in Type, Left(type, t)
               PROVE  \/ pc[t] = "dead" /\ FailedBeside(t)
                      \/ terminator # "waiting" /\ (pc[t] = "dead" \/ Shares(t))
    BY DEF ResourcesReleased, Type, Left
  <2>1. pc[t] \in Past
    BY DEF ThreadInv, Separate, JoinedOver, Over, Past
  <2> QED
    BY <2>1 DEF ReleaseInv, Tracked, Track
<1> QED
  BY <1>1, Invariant, PTL
=============================================================================
