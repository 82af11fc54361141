---------------------- MODULE WorkflowExecutor_proofs ----------------------
(***************************************************************************)
(* Theorems about module WorkflowExecutor for every set of tasks, every    *)
(* submission and every number of threads: types, the order of a run, the  *)
(* refinement of DagScheduler, the executors of unfinished tasks, and the  *)
(* events of the pipeline; and for the workflows in which only leaves run  *)
(* side by side: single starts, failures, skips and outputs.               *)
(***************************************************************************)
EXTENDS WorkflowExecutor, WellFoundedInduction, TLAPS

-----------------------------------------------------------------------------
(***************************************************************************)
(* Sequences                                                               *)
(***************************************************************************)
LEMMA RemoveAtType ==
  ASSUME NEW S, NEW s \in Seq(S), NEW n \in 1 .. Len(s)
  PROVE  RemoveAt(s, n) \in Seq(S)
  BY DEF RemoveAt

LEMMA LeastElement ==
  ASSUME NEW T \in SUBSET Nat, T # {}
  PROVE  \E i \in T : \A j \in T : i <= j
<1>1. PICK i \in T : \A j \in T : ~(<<j, i>> \in OpToRel(<, Nat))
  BY WFMin, NatLessThanWellFounded, Zenon
<1>2. \A j \in T : ~(j < i)
  BY <1>1 DEF OpToRel
<1> QED  BY <1>2

LEMMA PositionInType ==
  ASSUME NEW S, NEW s \in Seq(S), NEW e \in ToSet(s)
  PROVE  PositionIn(s, e) \in 1 .. Len(s) /\ s[PositionIn(s, e)] = e
<1> DEFINE T == {i \in 1 .. Len(s) : s[i] = e}
<1>1. T # {} /\ T \in SUBSET Nat
  BY DEF ToSet
<1>2. PICK i \in T : \A j \in T : i <= j
  BY <1>1, LeastElement
<1>3. i \in 1 .. Len(s) /\ s[i] = e /\ \A j \in 1 .. i - 1 : s[j] # e
  BY <1>2
<1> QED  BY <1>3 DEF PositionIn

LEMMA ToSetOfAppend ==
  ASSUME NEW S, NEW s \in Seq(S), NEW x \in S
  PROVE  ToSet(Append(s, x)) = ToSet(s) \cup {x}
<1>1. DOMAIN Append(s, x) = 1 .. Len(s) + 1 /\ DOMAIN s = 1 .. Len(s) /\ Len(s) \in Nat
  OBVIOUS
<1>2. \A i \in 1 .. Len(s) + 1 : Append(s, x)[i] = IF i <= Len(s) THEN s[i] ELSE x
  OBVIOUS
<1>3. ToSet(Append(s, x)) \subseteq ToSet(s) \cup {x}
  BY <1>1, <1>2 DEF ToSet
<1>4. x = Append(s, x)[Len(s) + 1] /\ Len(s) + 1 \in 1 .. Len(s) + 1
  BY <1>1, <1>2
<1>5. \A i \in 1 .. Len(s) : s[i] = Append(s, x)[i] /\ i \in 1 .. Len(s) + 1
  BY <1>1, <1>2
<1>6. ToSet(s) \cup {x} \subseteq ToSet(Append(s, x))
  BY <1>1, <1>4, <1>5 DEF ToSet
<1> QED  BY <1>3, <1>6

LEMMA InjectiveAppend ==
  ASSUME NEW S, NEW s \in Seq(S), NEW x \in S, x \notin ToSet(s), IsInjective(s)
  PROVE  IsInjective(Append(s, x))
<1>1. DOMAIN Append(s, x) = 1 .. Len(s) + 1 /\ DOMAIN s = 1 .. Len(s) /\ Len(s) \in Nat
  OBVIOUS
<1>2. \A i \in 1 .. Len(s) + 1 : Append(s, x)[i] = IF i <= Len(s) THEN s[i] ELSE x
  OBVIOUS
<1>3. \A i, j \in 1 .. Len(s) : s[i] = s[j] => i = j
  BY <1>1 DEF IsInjective
<1>4. \A i \in 1 .. Len(s) : s[i] # x
  BY <1>1 DEF ToSet
<1> QED  BY <1>1, <1>2, <1>3, <1>4 DEF IsInjective

LEMMA Concatenation ==
  ASSUME NEW S, NEW a \in Seq(S), NEW b \in Seq(S)
  PROVE  /\ a \o b \in Seq(S) /\ Len(a \o b) = Len(a) + Len(b)
         /\ \A i \in 1 .. Len(a) + Len(b) : (a \o b)[i] = IF i <= Len(a) THEN a[i] ELSE b[i - Len(a)]
  OBVIOUS

LEMMA RemoveAtElements ==
  ASSUME NEW S, NEW s \in Seq(S), NEW n \in 1 .. Len(s)
  PROVE  /\ DOMAIN RemoveAt(s, n) = 1 .. Len(s) - 1
         /\ \A i \in 1 .. Len(s) - 1 : RemoveAt(s, n)[i] = IF i < n THEN s[i] ELSE s[i + 1]
<1> DEFINE a == SubSeq(s, 1, n - 1)
           b == SubSeq(s, n + 1, Len(s))
<1>1. a \in Seq(S) /\ Len(a) = n - 1 /\ \A i \in 1 .. n - 1 : a[i] = s[i]
  OBVIOUS
<1>2. b \in Seq(S) /\ Len(b) = Len(s) - n /\ \A i \in 1 .. Len(s) - n : b[i] = s[i + n]
  OBVIOUS
<1>3. RemoveAt(s, n) = a \o b
  BY DEF RemoveAt
<1> HIDE DEF a, b
<1>4. DOMAIN (a \o b) = 1 .. Len(s) - 1
  <2>1. a \o b \in Seq(S) /\ Len(a \o b) = Len(a) + Len(b)
    BY <1>1, <1>2, Concatenation
  <2>2. Len(a) + Len(b) = Len(s) - 1
    BY <1>1, <1>2
  <2> QED  BY <2>1, <2>2
<1>5. ASSUME NEW i \in 1 .. Len(s) - 1
      PROVE  (a \o b)[i] = IF i < n THEN s[i] ELSE s[i + 1]
  <2>1. CASE i < n
    BY <1>1, <1>2, <2>1
  <2>2. CASE ~(i < n)
    <3>1. (a \o b)[i] = b[i - (n - 1)]
      BY <1>1, <1>2, <2>2
    <3>2. i - (n - 1) \in 1 .. Len(s) - n
      BY <2>2
    <3>3. b[i - (n - 1)] = s[i - (n - 1) + n] /\ i - (n - 1) + n = i + 1
      BY <1>2, <3>2
    <3> QED  BY <2>2, <3>1, <3>3
  <2> QED  BY <2>1, <2>2
<1> QED  BY <1>3, <1>4, <1>5

LEMMA RemoveAtInjective ==
  ASSUME NEW S, NEW s \in Seq(S), NEW n \in 1 .. Len(s), IsInjective(s)
  PROVE  /\ IsInjective(RemoveAt(s, n))
         /\ ToSet(RemoveAt(s, n)) = ToSet(s) \ {s[n]}
<1> DEFINE r == RemoveAt(s, n)
<1>1. /\ DOMAIN r = 1 .. Len(s) - 1
      /\ \A i \in 1 .. Len(s) - 1 : r[i] = IF i < n THEN s[i] ELSE s[i + 1]
  BY RemoveAtElements
<1>2. \A i, j \in 1 .. Len(s) : s[i] = s[j] => i = j
  BY DEF IsInjective
<1> HIDE DEF r
<1>3. \A i, j \in 1 .. Len(s) - 1 : r[i] = r[j] => i = j
  BY <1>1, <1>2
<1>4. \A i \in 1 .. Len(s) - 1 : r[i] \in ToSet(s) \ {s[n]}
  BY <1>1, <1>2 DEF ToSet
<1>5. ASSUME NEW i \in 1 .. Len(s), i # n PROVE \E j \in 1 .. Len(s) - 1 : r[j] = s[i]
  <2>1. CASE i < n
    BY <1>1, <2>1
  <2>2. CASE i > n
    <3>1. i - 1 \in 1 .. Len(s) - 1 /\ ~(i - 1 < n) /\ i - 1 + 1 = i
      BY <2>2
    <3> QED  BY <1>1, <3>1
  <2> QED  BY <1>5, <2>1, <2>2
<1>6. ToSet(r) = ToSet(s) \ {s[n]}
  <2>1. ToSet(r) = {r[i] : i \in 1 .. Len(s) - 1} /\ ToSet(s) = {s[i] : i \in 1 .. Len(s)}
    BY <1>1 DEF ToSet
  <2>2. ToSet(r) \subseteq ToSet(s) \ {s[n]}
    BY <1>4, <2>1
  <2>3. ToSet(s) \ {s[n]} \subseteq ToSet(r)
    BY <1>5, <2>1
  <2> QED  BY <2>2, <2>3
<1>7. IsInjective(r)
  BY <1>1, <1>3 DEF IsInjective
<1> QED  BY <1>6, <1>7 DEF r

LEMMA RemoveAtWithin ==
  ASSUME NEW S, NEW s \in Seq(S), NEW n \in 1 .. Len(s)
  PROVE  ToSet(RemoveAt(s, n)) \subseteq ToSet(s)
<1>1. /\ DOMAIN RemoveAt(s, n) = 1 .. Len(s) - 1
      /\ \A i \in 1 .. Len(s) - 1 : RemoveAt(s, n)[i] = IF i < n THEN s[i] ELSE s[i + 1]
  BY RemoveAtElements
<1>2. \A i \in 1 .. Len(s) - 1 : RemoveAt(s, n)[i] \in ToSet(s)
  BY <1>1 DEF ToSet
<1> QED  BY <1>1, <1>2 DEF ToSet
-----------------------------------------------------------------------------
(***************************************************************************)
(* Type correctness                                                        *)
(***************************************************************************)
LEMMA TypeInit == Init => TypeOK
<1> SUFFICES ASSUME Init PROVE TypeOK
  OBVIOUS
<1> USE DEF Init, PcLabel, Caller
<1>1. request \in Request
  BY RequestsAssumption
<1>2. queue \in Seq(Task) /\ delivered \in Seq({"ACTIVE", "COMPLETED", "FAILED"})
  OBVIOUS
<1>3. /\ finished \in [Task -> Nat]
      /\ reported \in [Task -> SUBSET {"active", "completed", "failed", "skipped"}]
  OBVIOUS
<1>4. pc \in [Caller -> PcLabel] /\ \A self \in Caller : pc[self] # "pop"
  OBVIOUS
<1>5. /\ result \in [Thread -> {"none", "completed", "failed", "skipped"}]
      /\ snapshot \in [Thread -> SUBSET Task]
  OBVIOUS
<1>6. /\ ready \in [Caller -> Seq(Task)]
      /\ cursor \in [Caller -> Nat \ {0}]
      /\ position \in [Caller -> Nat] /\ \A self \in Caller : position[self] = 0
  OBVIOUS
<1>7. /\ succeeded = {} /\ failed = {} /\ skipped = {} /\ executors = {}
      /\ output = {} /\ handled = {} /\ subscribed = FALSE
  OBVIOUS
<1>8. \A self \in Caller : position[self] > 0 <=> pc[self] = "pop"
  BY <1>4, <1>6
<1> HIDE DEF Init
<1> QED  BY <1>1, <1>2, <1>3, <1>4, <1>5, <1>6, <1>7, <1>8 DEF TypeOK

LEMMA GraphType ==
  ASSUME TypeOK
  PROVE  /\ graph \in Pipeline
         /\ graph.tasks \in Seq(Task) /\ Tasks \subseteq Task
         /\ graph.depends_on \in [Task -> SUBSET Dependency]
<1>1. graph \in Pipeline
  BY DEF TypeOK, Request, graph
<1>2. graph.tasks \in Seq(Task)
  BY <1>1 DEF Pipeline
<1> QED  BY <1>1, <1>2 DEF Pipeline, Tasks, ToSet

\* A step to another label than "pop" that leaves the position alone.
LEMMA MoveType ==
  ASSUME TypeOK, NEW self \in Caller, NEW label \in PcLabel \ {"pop"},
         pc[self] # "pop", pc' = [pc EXCEPT ![self] = label], position' = position
  PROVE  /\ pc' \in [Caller -> PcLabel]
         /\ \A other \in Caller : position'[other] > 0 <=> pc'[other] = "pop"
  BY DEF TypeOK

LEMMA TypeFetch ==
  ASSUME TypeOK, NEW self \in Caller, Fetch(self)
  PROVE  TypeOK'
<1> USE DEF TypeOK, PcLabel, Goto, state, exchange
<1>1. CASE Scan(self)
  <2>1. CASE cursor[self] <= Len(queue)
    <3>1. queue[cursor[self]] \in Task
      BY <2>1
    <3>2. Append(ready[self], queue[cursor[self]]) \in Seq(Task)
      BY <3>1
    <3>3. cursor' \in [Caller -> Nat \ {0}]
      BY <1>1, <2>1 DEF Scan
    <3>4. ready' \in [Caller -> Seq(Task)]
      BY <1>1, <2>1, <3>2 DEF Scan
    <3> QED  BY <1>1, <2>1, <3>3, <3>4 DEF Scan
  <2>2. CASE ~(cursor[self] <= Len(queue))
    <3>1. AfterFetch(self) \in {"join", "ended"}
      BY DEF AfterFetch
    <3>2. cursor' \in [Caller -> Nat \ {0}]
      BY <1>1, <2>2 DEF Scan
    <3>3. /\ pc' \in [Caller -> PcLabel]
          /\ \A other \in Caller : position'[other] > 0 <=> pc'[other] = "pop"
      BY <1>1, <2>2, <3>1 DEF Scan
    <3> QED  BY <1>1, <2>2, <3>2, <3>3 DEF Scan
  <2> QED  BY <2>1, <2>2
<1>2. CASE RemoveFromQueue(self)
  <2>1. cursor' \in [Caller -> Nat \ {0}]
    BY <1>2 DEF RemoveFromQueue
  <2>2. /\ pc' \in [Caller -> PcLabel]
        /\ \A other \in Caller : position'[other] > 0 <=> pc'[other] = "pop"
    BY <1>2 DEF RemoveFromQueue
  <2> QED  BY <1>2, <2>1, <2>2 DEF RemoveFromQueue
<1>3. CASE QueueIndex(self)
  <2> DEFINE task == ready[self][cursor[self]]
  <2>1. CASE task \in ToSet(queue)
    <3>1. PositionIn(queue, task) \in Nat /\ PositionIn(queue, task) > 0
      BY <2>1, PositionInType
    <3>2. /\ pc' = [pc EXCEPT ![self] = "pop"]
          /\ position' = [position EXCEPT ![self] = PositionIn(queue, task)]
      BY <1>3, <2>1 DEF QueueIndex
    <3>3. /\ pc' \in [Caller -> PcLabel] /\ position' \in [Caller -> Nat]
          /\ \A other \in Caller : position'[other] > 0 <=> pc'[other] = "pop"
      BY <3>1, <3>2
    <3> QED  BY <1>3, <3>3 DEF QueueIndex
  <2>2. CASE task \notin ToSet(queue)
    BY <1>3, <2>2 DEF QueueIndex
  <2> QED  BY <2>1, <2>2
<1>4. CASE QueuePop(self)
  <2>1. CASE position[self] <= Len(queue)
    <3>1. position[self] \in 1 .. Len(queue)
      BY <1>4, <2>1 DEF QueuePop
    <3>2. RemoveAt(queue, position[self]) \in Seq(Task)
      BY <3>1, RemoveAtType
    <3>3. queue' \in Seq(Task)
      BY <1>4, <2>1, <3>2 DEF QueuePop, Popped
    <3>4. cursor' \in [Caller -> Nat \ {0}]
      <4>1. cursor' = [cursor EXCEPT ![self] = cursor[self] + 1]
        BY <1>4, <2>1 DEF QueuePop
      <4>2. cursor[self] + 1 \in Nat \ {0}
        OBVIOUS
      <4> QED  BY <4>1, <4>2
    <3>5. /\ pc' \in [Caller -> PcLabel] /\ position' \in [Caller -> Nat]
          /\ \A other \in Caller : position'[other] > 0 <=> pc'[other] = "pop"
      BY <1>4, <2>1 DEF QueuePop
    <3> QED  BY <1>4, <3>3, <3>4, <3>5 DEF QueuePop
  <2>2. CASE ~(position[self] <= Len(queue))
    <3>1. queue' = queue /\ cursor' = cursor
      BY <1>4, <2>2 DEF QueuePop
    <3>2. /\ pc' \in [Caller -> PcLabel] /\ position' \in [Caller -> Nat]
          /\ \A other \in Caller : position'[other] > 0 <=> pc'[other] = "pop"
      BY <1>4, <2>2 DEF QueuePop
    <3> QED  BY <1>4, <3>1, <3>2 DEF QueuePop
  <2> QED  BY <2>1, <2>2
<1> QED  BY <1>1, <1>2, <1>3, <1>4 DEF Fetch

LEMMA TypeStartThreads ==
  ASSUME TypeOK, NEW self \in Caller, StartThreads(self),
         delivered' \in Seq({"ACTIVE", "COMPLETED", "FAILED"})
  PROVE  TypeOK'
<1> USE DEF TypeOK, PcLabel, state
<1>1. AfterFetch(self) \in {"join", "ended"}
  BY DEF AfterFetch
<1>2. pc' \in [Caller -> PcLabel]
  BY <1>1 DEF StartThreads
<1>3. ready' \in [Caller -> Seq(Task)]
  BY DEF StartThreads
<1>4. \A other \in Caller : pc'[other] = "pop" <=> pc[other] = "pop"
  <2> SUFFICES ASSUME NEW other \in Caller
               PROVE  pc'[other] = "pop" <=> pc[other] = "pop"
    OBVIOUS
  <2>1. CASE other = self
    BY <1>1, <2>1 DEF StartThreads
  <2>2. CASE other # self
    BY <2>2 DEF StartThreads, IsNextStart
  <2> QED  BY <2>1, <2>2
<1> QED  BY <1>2, <1>3, <1>4 DEF StartThreads

LEMMA TypeMain == TypeOK /\ Main => TypeOK'
<1> SUFFICES ASSUME TypeOK, Main PROVE TypeOK'
  OBVIOUS
<1> USE DEF TypeOK, PcLabel, Goto, state, exchange, locals, Caller
<1>0. graph.tasks \in Seq(Task) /\ Registered \subseteq Task
  BY GraphType DEF Registered
<1>1. CASE StartUnbuildable
  BY <1>1 DEF StartUnbuildable
<1>2. CASE StartRejected
  <2>1. delivered' \in Seq({"ACTIVE", "COMPLETED", "FAILED"})
    <3>1. CASE request.notified
      BY <1>2, <3>1 DEF StartRejected, Delivery
    <3>2. CASE ~request.notified
      BY <1>2, <3>2 DEF StartRejected, Delivery
    <3> QED  BY <3>1, <3>2
  <2> QED  BY <1>0, <1>2, <2>1 DEF StartRejected
<1>3. CASE StartInvalidArgs
  <2>1. delivered' \in Seq({"ACTIVE", "COMPLETED", "FAILED"})
    <3>1. CASE request.notified
      BY <1>3, <3>1 DEF StartInvalidArgs, Delivery
    <3>2. CASE ~request.notified
      BY <1>3, <3>2 DEF StartInvalidArgs, Delivery
    <3> QED  BY <3>1, <3>2
  <2> QED  BY <1>0, <1>3, <2>1 DEF StartInvalidArgs
<1>4. CASE StartRun
  BY <1>0, <1>4 DEF StartRun, Request
<1>5. CASE Join
  BY <1>5 DEF Join
<1>6. CASE LaunchFirst
  <2>1. delivered' \in Seq({"ACTIVE", "COMPLETED", "FAILED"})
    <3>1. <<"ACTIVE">> \in Seq({"ACTIVE", "COMPLETED", "FAILED"})
      OBVIOUS
    <3>2. CASE request.notified
      BY <1>6, <3>1, <3>2 DEF LaunchFirst, Delivery
    <3>3. CASE ~request.notified
      BY <1>6, <3>3 DEF LaunchFirst, Delivery
    <3> QED  BY <3>2, <3>3
  <2> QED  BY <1>6, <2>1, TypeStartThreads DEF LaunchFirst
<1> QED
  BY <1>1, <1>2, <1>3, <1>4, <1>5, <1>6, TypeFetch DEF Main

\* A thread that reports its task knows the result.
ResultKnown ==
    \A self \in Thread :
        pc[self] \in {"store", "report", "reporting"} =>
            result[self] \in {"completed", "failed", "skipped"}

LEMMA TypeStep ==
  ASSUME TypeOK, ResultKnown, NEW self \in Thread, Step(self)
  PROVE  TypeOK'
<1> USE DEF TypeOK, PcLabel, Goto, state, exchange, locals, Caller
<1>0. TaskOf(self) \in Task
  BY DEF Thread, TaskOf
<1>1. CASE Begin(self)
  BY <1>1 DEF Begin
<1>2. CASE Announce(self)
  BY <1>2 DEF Announce
<1>3. CASE Announcing(self)
  BY <1>0, <1>3 DEF Announcing
<1>4. CASE Execute(self)
  BY <1>4 DEF Execute
<1>5. CASE Executing(self)
  <2>1. PICK o \in {"ok", "error", "exception"} :
          /\ result' = [result EXCEPT ![self] =
                          IF o = "ok" THEN "completed" ELSE "failed"]
          /\ \/ /\ pc' = [pc EXCEPT ![self] = "report"]
                /\ snapshot' = snapshot
             \/ /\ pc' = [pc EXCEPT ![self] = "store"]
                /\ snapshot' = [snapshot EXCEPT ![self] = Merged(TaskOf(self))]
    BY <1>5 DEF Executing
  <2>2. result' \in [Thread -> {"none", "completed", "failed", "skipped"}]
    BY <2>1
  <2>3. Merged(TaskOf(self)) \subseteq Task
    BY <1>0 DEF Merged
  <2>4. snapshot' \in [Thread -> SUBSET Task]
    BY <2>1, <2>3
  <2>5. /\ pc' \in [Caller -> PcLabel] /\ position' = position
        /\ \A other \in Caller : position'[other] > 0 <=> pc'[other] = "pop"
    BY <1>5, <2>1 DEF Executing
  <2> QED  BY <1>5, <2>2, <2>4, <2>5 DEF Executing
<1>6. CASE Store(self)
  BY <1>6 DEF Store
<1>7. CASE Report(self)
  BY <1>7 DEF Report
<1>8. CASE Reporting(self)
  <2>1. reported' \in [Task -> SUBSET {"active", "completed", "failed", "skipped"}]
    <3>1. result[self] \in {"completed", "failed", "skipped"}
      BY <1>8 DEF Reporting, ResultKnown
    <3> QED  BY <1>0, <1>8, <3>1 DEF Reporting
  <2> QED  BY <1>8, <2>1 DEF Reporting
<1>9. CASE Finish(self)
  BY <1>0, <1>9 DEF Finish
<1>10. CASE Record(self)
  BY <1>0, <1>10 DEF Record
<1>11. CASE Cleanup(self)
  BY <1>11 DEF Cleanup
<1>12. CASE Deregister(self)
  BY <1>12 DEF Deregister
<1>13. CASE Check(self)
  BY <1>13 DEF Check
<1>14. CASE PublishTerminal(self)
  BY <1>14 DEF PublishTerminal, EventAt
<1>15. CASE DeliverTerminal(self)
  BY <1>15 DEF DeliverTerminal, EventAt
<1>16. CASE ResetExchange(self)
  BY <1>16 DEF ResetExchange
<1>17. CASE Launch(self)
  BY <1>17, TypeStartThreads DEF Launch
<1>18. CASE LaunchLost(self)
  BY <1>18 DEF LaunchLost
<1> QED
  BY <1>1, <1>2, <1>3, <1>4, <1>5, <1>6, <1>7, <1>8, <1>9, <1>10, <1>11, <1>12,
     <1>13, <1>14, <1>15, <1>16, <1>17, <1>18, TypeFetch DEF Step

\* Where a thread can go to when it fetches, and when threads are started.
LEMMA FetchMoves ==
  ASSUME TypeOK, NEW self \in Caller, Fetch(self)
  PROVE  /\ result' = result
         /\ \A other \in Caller \ {self} : pc'[other] = pc[other]
         /\ pc[self] \in {"scan", "remove", "locate", "pop"}
         /\ pc'[self] \in {"scan", "remove", "locate", "pop", "launch", "ended", "join", "dead"}
         /\ pc'[self] \in {"ended", "join"} => pc'[self] = AfterFetch(self)
<1> USE DEF TypeOK, Goto, AfterFetch
<1>1. CASE Scan(self)
  BY <1>1 DEF Scan
<1>2. CASE RemoveFromQueue(self)
  BY <1>2 DEF RemoveFromQueue
<1>3. CASE QueueIndex(self)
  BY <1>3 DEF QueueIndex
<1>4. CASE QueuePop(self)
  BY <1>4 DEF QueuePop
<1> QED  BY <1>1, <1>2, <1>3, <1>4 DEF Fetch

LEMMA StartMoves ==
  ASSUME TypeOK, NEW self \in Caller, StartThreads(self)
  PROVE  /\ result' = result
         /\ pc[self] = "launch" /\ pc'[self] = AfterFetch(self)
         /\ \A other \in Caller \ {self} :
               \/ pc'[other] = pc[other]
               \/ /\ pc[other] = "unborn" /\ pc'[other] = "begin"
                  /\ other \in Thread /\ other[1] \in ToSet(ready[self])
  BY DEF TypeOK, StartThreads, IsNextStart

LEMMA KnownNext == TypeOK /\ ResultKnown /\ [Next]_vars => ResultKnown'
<1> SUFFICES ASSUME TypeOK, ResultKnown, [Next]_vars PROVE ResultKnown'
  OBVIOUS
<1> USE DEF ResultKnown, TypeOK, Goto
<1>1. ASSUME NEW self \in Caller, Fetch(self) PROVE ResultKnown'
  BY <1>1, FetchMoves DEF Caller
<1>2. ASSUME NEW self \in Caller, StartThreads(self) PROVE ResultKnown'
  BY <1>2, StartMoves DEF Caller, AfterFetch
<1>3. CASE Main
  <2>1. ASSUME NEW label, pc' = [pc EXCEPT ![Server] = label], result' = result
        PROVE  ResultKnown'
    BY <2>1, ServerAssumption DEF Caller
  <2> QED
    BY <1>1, <1>2, <1>3, <2>1
    DEF Main, StartUnbuildable, StartRejected, StartInvalidArgs, StartRun, Join, locals,
        LaunchFirst, Caller
<1>4. ASSUME NEW self \in Thread, Step(self) PROVE ResultKnown'
  <2> USE DEF Caller, locals
  <2>1. CASE Begin(self)
    BY <1>4, <2>1 DEF Begin
  <2>2. CASE Announce(self) \/ Announcing(self)
    BY <1>4, <2>2 DEF Announce, Announcing
  <2>3. CASE Execute(self)
    BY <1>4, <2>3 DEF Execute
  <2>4. CASE Executing(self)
    BY <1>4, <2>4 DEF Executing
  <2>5. CASE Store(self) \/ Report(self) \/ Reporting(self)
    BY <1>4, <2>5 DEF Store, Report, Reporting
  <2>6. CASE Finish(self) \/ Record(self)
    BY <1>4, <2>6 DEF Finish, Record
  <2>7. CASE Cleanup(self) \/ Deregister(self) \/ Check(self)
    BY <1>4, <2>7 DEF Cleanup, Deregister, Check
  <2>8. CASE PublishTerminal(self) \/ DeliverTerminal(self) \/ ResetExchange(self)
        \/ LaunchLost(self)
    BY <1>4, <2>8 DEF PublishTerminal, DeliverTerminal, ResetExchange, LaunchLost
  <2> QED
    BY <1>1, <1>2, <1>4, <2>1, <2>2, <2>3, <2>4, <2>5, <2>6, <2>7, <2>8
    DEF Step, Launch
<1>5. CASE UNCHANGED vars
  BY <1>5 DEF vars, locals
<1> QED  BY <1>3, <1>4, <1>5 DEF Next

LEMMA TypeNext == TypeOK /\ ResultKnown /\ [Next]_vars => TypeOK' /\ ResultKnown'
<1>1. TypeOK /\ UNCHANGED vars => TypeOK'
  BY DEF TypeOK, vars, state, exchange, locals
<1> QED  BY <1>1, TypeMain, TypeStep, KnownNext DEF Next

LEMMA KnownInit == Init => ResultKnown
  BY DEF Init, ResultKnown, Caller

\* Every variable of a run keeps its type, and a thread holds a position of
\* the queue exactly between queue.index and queue.pop.
THEOREM TypeCorrect == Spec => []TypeOK
  BY TypeInit, KnownInit, TypeNext, PTL DEF Spec
-----------------------------------------------------------------------------
(***************************************************************************)
(* The order of a run                                                      *)
(*                                                                         *)
(* A thread is born from a list of ready tasks, which is older than the    *)
(* birth: DependencyOrder needs that what _fetch_ready_tasks has collected *)
(* stays ready (ReadyInOrder), and, for the branch of _task_is_ready that  *)
(* only looks at the failed list, that a task is appended to the finished  *)
(* list before it is appended to any other (RecordedIsFinished).           *)
(***************************************************************************)
DependenciesFinished(t) == \A d \in graph.depends_on[t] : finished[d.id] > 0

ReadyInOrder ==
    \A self \in Caller : \A t \in ToSet(ready[self]) : DependenciesFinished(t)

RecordedIsFinished ==
    /\ \A t \in failed : finished[t] > 0
    /\ \A self \in Thread :
           pc[self] \in {"record", "cleanup", "deregister"} => finished[TaskOf(self)] > 0

OrderInv ==
    TypeOK /\ ResultKnown /\ ReadyInOrder /\ RecordedIsFinished /\ DependencyOrder

\* What a step of a thread, other than the start of threads, does to labels.
LEMMA StepMoves ==
  ASSUME TypeOK, NEW self \in Thread, Step(self), ~Launch(self)
  PROVE  /\ pc[self] \notin {"unborn", "ended", "dead"} /\ pc'[self] # "unborn"
         /\ \A other \in Caller \ {self} : pc'[other] = pc[other]
<1> USE DEF TypeOK, Goto, Caller
<1>1. CASE Begin(self)
  BY <1>1 DEF Begin
<1>2. CASE Announce(self) \/ Announcing(self)
  BY <1>2 DEF Announce, Announcing
<1>3. CASE Execute(self)
  BY <1>3 DEF Execute
<1>4. CASE Executing(self)
  BY <1>4 DEF Executing
<1>5. CASE Store(self) \/ Report(self) \/ Reporting(self)
  BY <1>5 DEF Store, Report, Reporting
<1>6. CASE Finish(self) \/ Record(self)
  BY <1>6 DEF Finish, Record
<1>7. CASE Cleanup(self) \/ Deregister(self) \/ Check(self)
  BY <1>7 DEF Cleanup, Deregister, Check
<1>8. CASE PublishTerminal(self) \/ DeliverTerminal(self) \/ ResetExchange(self)
        \/ LaunchLost(self)
  BY <1>8 DEF PublishTerminal, DeliverTerminal, ResetExchange, LaunchLost
<1>9. CASE Fetch(self)
  BY <1>9, FetchMoves
<1> QED  BY <1>1, <1>2, <1>3, <1>4, <1>5, <1>6, <1>7, <1>8, <1>9 DEF Step

\* The submission is fixed, and no task leaves the finished list: it is only
\* extended, by the task of the thread that takes the step.
LEMMA FinishedGrows ==
  ASSUME TypeOK, [Next]_vars
  PROVE  /\ request' = request
         /\ \/ finished' = finished
            \/ \E self \in Thread :
                  /\ pc[self] = "finish" /\ pc'[self] = "record"
                  /\ finished' = [finished EXCEPT ![TaskOf(self)] = @ + 1]
<1> USE DEF state, exchange, locals
<1>1. ASSUME NEW self \in Caller, Fetch(self)
      PROVE  request' = request /\ finished' = finished
  BY <1>1 DEF Fetch, Scan, RemoveFromQueue, QueueIndex, QueuePop
<1>2. ASSUME NEW self \in Caller, StartThreads(self)
      PROVE  request' = request /\ finished' = finished
  BY <1>2 DEF StartThreads
<1>3. CASE Main
  BY <1>1, <1>2, <1>3
  DEF Main, StartUnbuildable, StartRejected, StartInvalidArgs, StartRun, Join,
      LaunchFirst, Caller
<1>4. ASSUME NEW self \in Thread, Step(self), ~Finish(self)
      PROVE  request' = request /\ finished' = finished
  <2>1. CASE Begin(self) \/ Announce(self) \/ Announcing(self) \/ Execute(self)
    BY <2>1 DEF Begin, Announce, Announcing, Execute
  <2>2. CASE Executing(self) \/ Store(self) \/ Report(self) \/ Reporting(self)
    BY <2>2 DEF Executing, Store, Report, Reporting
  <2>3. CASE Record(self) \/ Cleanup(self) \/ Deregister(self) \/ Check(self)
    BY <2>3 DEF Record, Cleanup, Deregister, Check
  <2>4. CASE PublishTerminal(self) \/ DeliverTerminal(self) \/ ResetExchange(self)
        \/ LaunchLost(self)
    BY <2>4 DEF PublishTerminal, DeliverTerminal, ResetExchange, LaunchLost
  <2> QED
    BY <1>1, <1>2, <1>4, <2>1, <2>2, <2>3, <2>4 DEF Step, Launch, Caller
<1>5. ASSUME NEW self \in Thread, Finish(self)
      PROVE  /\ request' = request
             /\ pc[self] = "finish" /\ pc'[self] = "record"
             /\ finished' = [finished EXCEPT ![TaskOf(self)] = @ + 1]
  BY <1>5 DEF Finish, Goto, TypeOK, Caller
<1>6. CASE UNCHANGED vars
  BY <1>6 DEF vars
<1> QED  BY <1>3, <1>4, <1>5, <1>6 DEF Next

LEMMA StaysFinished ==
  ASSUME TypeOK, [Next]_vars
  PROVE  /\ graph' = graph
         /\ \A t \in Task : finished[t] > 0 => finished'[t] > 0
         /\ \A t \in Task : DependenciesFinished(t) => DependenciesFinished(t)'
<1>1. graph' = graph
  BY FinishedGrows DEF graph
<1>2. ASSUME NEW t \in Task, finished[t] > 0 PROVE finished'[t] > 0
  <2>1. finished[t] \in Nat /\ finished[t] + 1 > 0
    BY <1>2 DEF TypeOK
  <2> QED  BY <1>2, <2>1, FinishedGrows DEF TypeOK
<1>3. ASSUME NEW t \in Task, NEW d \in graph.depends_on[t] PROVE d.id \in Task
  BY <1>3, GraphType DEF Dependency
<1> QED  BY <1>1, <1>2, <1>3 DEF DependenciesFinished

\* How a list of ready tasks can change.
LEMMA ReadyChanges ==
  ASSUME TypeOK, [Next]_vars, NEW c \in Caller
  PROVE  \/ ready'[c] = ready[c] \/ ready'[c] = <<>>
         \/ \E t \in Task \cap ToSet(queue) : Ready(t) /\ ready'[c] = Append(ready[c], t)
<1> USE DEF TypeOK, state, exchange, locals
<1>1. ASSUME NEW self \in Caller, Fetch(self)
      PROVE  \/ ready' = ready
             \/ \E t \in Task \cap ToSet(queue) :
                   Ready(t) /\ ready' = [ready EXCEPT ![self] = Append(@, t)]
  <2>1. CASE Scan(self)
    <3>1. CASE cursor[self] <= Len(queue)
      <4>1. queue[cursor[self]] \in Task \cap ToSet(queue)
        BY <3>1 DEF ToSet
      <4> QED  BY <2>1, <3>1, <4>1 DEF Scan
    <3>2. CASE ~(cursor[self] <= Len(queue))
      BY <2>1, <3>2 DEF Scan
    <3> QED  BY <3>1, <3>2
  <2>2. CASE RemoveFromQueue(self) \/ QueueIndex(self) \/ QueuePop(self)
    BY <2>2 DEF RemoveFromQueue, QueueIndex, QueuePop
  <2> QED  BY <1>1, <2>1, <2>2 DEF Fetch
<1>2. ASSUME NEW self \in Caller, StartThreads(self)
      PROVE  ready'[c] = ready[c] \/ ready'[c] = <<>>
  <2>1. ready' = [ready EXCEPT ![self] = <<>>]
    BY <1>2 DEF StartThreads
  <2> QED  BY <2>1
<1>3. CASE Main
  <2>0. Server \in Caller
    BY DEF Caller
  <2>1. CASE Fetch(Server) \/ LaunchFirst
    BY <1>1, <1>2, <2>0, <2>1 DEF LaunchFirst
  <2>2. CASE ~(Fetch(Server) \/ LaunchFirst)
    <3>1. ready' = ready
      BY <1>3, <2>2
      DEF Main, StartUnbuildable, StartRejected, StartInvalidArgs, StartRun, Join
    <3> QED  BY <3>1
  <2> QED  BY <2>1, <2>2
<1>4. ASSUME NEW self \in Thread, Step(self), ~Fetch(self), ~Launch(self)
      PROVE  ready' = ready
  <2>1. CASE Begin(self) \/ Announce(self) \/ Announcing(self) \/ Execute(self)
    BY <2>1 DEF Begin, Announce, Announcing, Execute
  <2>2. CASE Executing(self) \/ Store(self) \/ Report(self) \/ Reporting(self)
    BY <2>2 DEF Executing, Store, Report, Reporting
  <2>3. CASE Finish(self) \/ Record(self) \/ Cleanup(self) \/ Deregister(self) \/ Check(self)
    BY <2>3 DEF Finish, Record, Cleanup, Deregister, Check
  <2>4. CASE PublishTerminal(self) \/ DeliverTerminal(self) \/ ResetExchange(self)
        \/ LaunchLost(self)
    BY <2>4 DEF PublishTerminal, DeliverTerminal, ResetExchange, LaunchLost
  <2> QED  BY <1>4, <2>1, <2>2, <2>3, <2>4 DEF Step
<1>5. CASE UNCHANGED vars
  BY <1>5 DEF vars
<1>6. ASSUME NEW self \in Thread, Step(self)
      PROVE  \/ ready'[c] = ready[c] \/ ready'[c] = <<>>
             \/ \E t \in Task \cap ToSet(queue) : Ready(t) /\ ready'[c] = Append(ready[c], t)
  <2>0. self \in Caller
    BY DEF Caller
  <2>1. CASE Fetch(self)
    BY <1>1, <2>0, <2>1
  <2>2. CASE Launch(self)
    BY <1>2, <2>0, <2>2 DEF Launch
  <2> QED  BY <1>4, <1>6, <2>1, <2>2
<1> QED  BY <1>3, <1>5, <1>6 DEF Next

LEMMA ReadyMeansFinished ==
  ASSUME TypeOK, RecordedIsFinished, NEW t \in Task, Ready(t)
  PROVE  DependenciesFinished(t)
  BY GraphType DEF Ready, DependenciesFinished, RecordedIsFinished

LEMMA ReadyInOrderNext ==
  ASSUME OrderInv, [Next]_vars
  PROVE  ReadyInOrder'
<1> USE DEF OrderInv
<1> SUFFICES ASSUME NEW c \in Caller, NEW t \in ToSet(ready'[c])
             PROVE  DependenciesFinished(t)'
  BY DEF ReadyInOrder
<1>1. ready[c] \in Seq(Task) /\ ToSet(ready[c]) \subseteq Task
  BY DEF TypeOK, ToSet
<1>2. \A u \in ToSet(ready[c]) : DependenciesFinished(u)
  BY DEF ReadyInOrder
<1>3. CASE ready'[c] = ready[c]
  BY <1>1, <1>2, <1>3, StaysFinished
<1>4. CASE ready'[c] = <<>>
  BY <1>4 DEF ToSet
<1>5. ASSUME NEW u \in Task, Ready(u), ready'[c] = Append(ready[c], u)
      PROVE  DependenciesFinished(t)'
  <2>1. t \in ToSet(ready[c]) \/ t = u
    BY <1>1, <1>5, ToSetOfAppend
  <2>2. t \in Task /\ DependenciesFinished(t)
    BY <1>1, <1>2, <1>5, <2>1, ReadyMeansFinished
  <2> QED  BY <2>2, StaysFinished
<1> QED  BY <1>3, <1>4, <1>5, ReadyChanges

\* A failure is recorded by a thread whose task is in the finished list.
LEMMA FailedChanges ==
  ASSUME TypeOK, [Next]_vars
  PROVE  \/ failed' = failed
         \/ \E self \in Thread :
               pc[self] = "record" /\ failed' \subseteq failed \cup {TaskOf(self)}
<1> USE DEF state, exchange, locals
<1>1. ASSUME NEW self \in Caller, Fetch(self) \/ StartThreads(self)
      PROVE  failed' = failed
  BY <1>1 DEF Fetch, Scan, RemoveFromQueue, QueueIndex, QueuePop, StartThreads
<1>2. CASE Main
  BY <1>1, <1>2
  DEF Main, StartUnbuildable, StartRejected, StartInvalidArgs, StartRun, Join,
      LaunchFirst, Caller
<1>3. ASSUME NEW self \in Thread, Step(self), ~Record(self)
      PROVE  failed' = failed
  <2>1. CASE Begin(self) \/ Announce(self) \/ Announcing(self) \/ Execute(self)
    BY <2>1 DEF Begin, Announce, Announcing, Execute
  <2>2. CASE Executing(self) \/ Store(self) \/ Report(self) \/ Reporting(self)
    BY <2>2 DEF Executing, Store, Report, Reporting
  <2>3. CASE Finish(self) \/ Cleanup(self) \/ Deregister(self) \/ Check(self)
    BY <2>3 DEF Finish, Cleanup, Deregister, Check
  <2>4. CASE PublishTerminal(self) \/ DeliverTerminal(self) \/ ResetExchange(self)
        \/ LaunchLost(self)
    BY <2>4 DEF PublishTerminal, DeliverTerminal, ResetExchange, LaunchLost
  <2> QED
    BY <1>1, <1>3, <2>1, <2>2, <2>3, <2>4 DEF Step, Launch, Caller
<1>4. ASSUME NEW self \in Thread, Record(self)
      PROVE  pc[self] = "record" /\ failed' \subseteq failed \cup {TaskOf(self)}
  BY <1>4 DEF Record
<1>5. CASE UNCHANGED vars
  BY <1>5 DEF vars
<1> QED  BY <1>2, <1>3, <1>4, <1>5 DEF Next

\* The threads between the finished list and the end of their cleanup.
LEMMA RecordingMoves ==
  ASSUME TypeOK, [Next]_vars, NEW self \in Thread,
         pc'[self] \in {"record", "cleanup", "deregister"}
  PROVE  \/ pc[self] \in {"record", "cleanup", "deregister"}
         \/ /\ pc[self] = "finish" /\ pc'[self] = "record"
            /\ finished' = [finished EXCEPT ![TaskOf(self)] = @ + 1]
<1> USE DEF TypeOK, Goto, Caller
<1>1. ASSUME NEW other \in Caller, Fetch(other) \/ StartThreads(other)
      PROVE  pc[self] \in {"record", "cleanup", "deregister"}
  BY <1>1, FetchMoves, StartMoves DEF AfterFetch
<1>2. CASE Main
  <2>1. CASE Fetch(Server) \/ LaunchFirst
    BY <1>1, <2>1 DEF LaunchFirst
  <2>2. CASE ~(Fetch(Server) \/ LaunchFirst)
    <3>1. pc'[self] = pc[self]
      BY <1>2, <2>2, ServerAssumption
      DEF Main, StartUnbuildable, StartRejected, StartInvalidArgs, StartRun, Join
    <3> QED  BY <3>1
  <2> QED  BY <2>1, <2>2
<1>3. ASSUME NEW other \in Thread, other # self, Step(other), ~Launch(other)
      PROVE  pc[self] \in {"record", "cleanup", "deregister"}
  BY <1>3, StepMoves
<1>4. CASE Step(self) /\ ~Launch(self) /\ ~Fetch(self) /\ ~Finish(self)
  <2>1. CASE Begin(self)
    BY <2>1 DEF Begin
  <2>2. CASE Announce(self) \/ Announcing(self) \/ Execute(self)
    BY <2>2 DEF Announce, Announcing, Execute
  <2>3. CASE Executing(self) \/ Store(self) \/ Report(self) \/ Reporting(self)
    BY <2>3 DEF Executing, Store, Report, Reporting
  <2>4. CASE Record(self) \/ Cleanup(self) \/ Deregister(self) \/ Check(self)
    BY <2>4 DEF Record, Cleanup, Deregister, Check
  <2>5. CASE PublishTerminal(self) \/ DeliverTerminal(self) \/ ResetExchange(self)
        \/ LaunchLost(self)
    BY <2>5 DEF PublishTerminal, DeliverTerminal, ResetExchange, LaunchLost
  <2> QED  BY <1>4, <2>1, <2>2, <2>3, <2>4, <2>5 DEF Step
<1>5. CASE Finish(self)
  BY <1>5 DEF Finish
<1>6. CASE UNCHANGED vars
  BY <1>6 DEF vars
<1> QED
  BY <1>1, <1>2, <1>3, <1>4, <1>5, <1>6 DEF Next, Step, Launch

LEMMA RecordedIsFinishedNext ==
  ASSUME OrderInv, [Next]_vars
  PROVE  RecordedIsFinished'
<1> USE DEF OrderInv
<1>1. ASSUME NEW t \in failed' PROVE finished'[t] > 0
  <2>1. t \in Task /\ finished[t] > 0
    BY <1>1, FailedChanges DEF RecordedIsFinished, TypeOK, Thread, TaskOf
  <2> QED  BY <2>1, StaysFinished
<1>2. ASSUME NEW self \in Thread, pc'[self] \in {"record", "cleanup", "deregister"}
      PROVE  finished'[TaskOf(self)] > 0
  <2>0. TaskOf(self) \in Task
    BY DEF Thread, TaskOf
  <2>1. CASE pc[self] \in {"record", "cleanup", "deregister"}
    BY <2>0, <2>1, StaysFinished DEF RecordedIsFinished
  <2>2. CASE finished' = [finished EXCEPT ![TaskOf(self)] = @ + 1]
    <3>1. finished'[TaskOf(self)] = finished[TaskOf(self)] + 1
      BY <2>0, <2>2 DEF TypeOK
    <3>2. finished[TaskOf(self)] \in Nat
      BY <2>0 DEF TypeOK
    <3> QED  BY <3>1, <3>2
  <2> QED  BY <1>2, <2>1, <2>2, RecordingMoves
<1> QED  BY <1>1, <1>2 DEF RecordedIsFinished

\* A thread is only born from a list of ready tasks, and never unborn again.
LEMMA Births ==
  ASSUME TypeOK, [Next]_vars, NEW self \in Thread
  PROVE  /\ pc[self] # "unborn" => pc'[self] # "unborn"
         /\ pc[self] = "unborn" /\ pc'[self] # "unborn" =>
                \E c \in Caller : StartThreads(c) /\ TaskOf(self) \in ToSet(ready[c])
<1> USE DEF Caller
<1>1. ASSUME NEW c \in Caller, StartThreads(c)
      PROVE  /\ pc[self] # "unborn" => pc'[self] # "unborn"
             /\ pc[self] = "unborn" /\ pc'[self] # "unborn" =>
                   TaskOf(self) \in ToSet(ready[c])
  BY <1>1, StartMoves DEF AfterFetch, TaskOf
<1>2. ASSUME NEW c \in Caller, Fetch(c)
      PROVE  (pc'[self] = "unborn") = (pc[self] = "unborn")
  BY <1>2, FetchMoves
<1>3. CASE Main
  <2>1. CASE Fetch(Server) \/ LaunchFirst
    BY <1>1, <1>2, <2>1 DEF LaunchFirst
  <2>2. CASE ~(Fetch(Server) \/ LaunchFirst)
    <3>1. pc'[self] = pc[self]
      BY <1>3, <2>2, ServerAssumption
      DEF Main, StartUnbuildable, StartRejected, StartInvalidArgs, StartRun, Join,
          TypeOK, Goto
    <3> QED  BY <3>1
  <2> QED  BY <2>1, <2>2
<1>4. ASSUME NEW other \in Thread, Step(other), ~Launch(other)
      PROVE  (pc'[self] = "unborn") = (pc[self] = "unborn")
  BY <1>4, StepMoves
<1>5. CASE UNCHANGED vars
  BY <1>5 DEF vars
<1> QED  BY <1>1, <1>3, <1>4, <1>5 DEF Next, Launch

LEMMA OrderNext == OrderInv /\ [Next]_vars => OrderInv'
<1> SUFFICES ASSUME OrderInv, [Next]_vars PROVE OrderInv'
  OBVIOUS
<1>1. TypeOK' /\ ResultKnown'
  BY TypeNext DEF OrderInv
<1>2. ReadyInOrder' /\ RecordedIsFinished'
  BY ReadyInOrderNext, RecordedIsFinishedNext
<1>3. ASSUME NEW self \in Thread, pc'[self] # "unborn"
      PROVE  DependenciesFinished(TaskOf(self))'
  <2>1. TaskOf(self) \in Task
    BY DEF Thread, TaskOf
  <2>2. CASE pc[self] # "unborn"
    <3>1. DependenciesFinished(TaskOf(self))
      BY <2>2 DEF OrderInv, DependencyOrder, DependenciesFinished
    <3> QED  BY <2>1, <3>1, StaysFinished DEF OrderInv
  <2>3. CASE pc[self] = "unborn"
    <3>1. DependenciesFinished(TaskOf(self))
      BY <1>3, <2>3, Births DEF OrderInv, ReadyInOrder
    <3> QED  BY <2>1, <3>1, StaysFinished DEF OrderInv
  <2> QED  BY <2>2, <2>3
<1>4. DependencyOrder'
  BY <1>3 DEF DependencyOrder, DependenciesFinished
<1> QED  BY <1>1, <1>2, <1>4 DEF OrderInv

LEMMA OrderInit == Init => OrderInv
<1> SUFFICES ASSUME Init PROVE OrderInv
  OBVIOUS
<1>1. ReadyInOrder
  BY DEF Init, ReadyInOrder, ToSet
<1>2. RecordedIsFinished /\ DependencyOrder
  BY ServerAssumption DEF Init, RecordedIsFinished, DependencyOrder, Caller
<1> QED  BY <1>1, <1>2, TypeInit, KnownInit DEF OrderInv

\* Whatever the graph, the outcomes and the interleaving of the unlocked list
\* accesses, a thread only exists for a task whose dependencies are all in the
\* finished list (_task_is_ready, _fetch_ready_tasks, _start_task).
THEOREM RunsInOrder == Spec => []DependencyOrder
<1>1. OrderInv => DependencyOrder
  BY DEF OrderInv
<1> QED  BY <1>1, OrderInit, OrderNext, PTL DEF Spec
-----------------------------------------------------------------------------
(***************************************************************************)
(* WorkflowExecutor implements DagScheduler: a start of threads is a Start *)
(* of the tasks that are started afterwards, an append to the finished     *)
(* list is a Finish, and everything else is a stutter.                     *)
(***************************************************************************)
StartedTasks == {t \in Task : Started(t)}
DoneTasks == {t \in Task : finished[t] > 0}
Deps == [t \in Task |-> DependencyIds(graph, t)]

LEMMA DepsType ==
  ASSUME TypeOK
  PROVE  Deps \in [Task -> SUBSET Task]
<1>1. \A t \in Task : DependencyIds(graph, t) \subseteq Task
  BY GraphType DEF DependencyIds, Dependency
<1> QED  BY <1>1 DEF Deps

LEMMA StartedGrows ==
  ASSUME TypeOK, [Next]_vars
  PROVE  StartedTasks \subseteq StartedTasks'
<1>1. ASSUME NEW t \in Task, NEW n \in 1 .. MaxStarts, pc[<<t, n>>] # "unborn"
      PROVE  pc'[<<t, n>>] # "unborn"
  <2>1. <<t, n>> \in Thread
    BY DEF Thread
  <2> QED  BY <1>1, <2>1, Births
<1> QED  BY <1>1 DEF StartedTasks, Started

InOrder == \A t \in StartedTasks : Deps[t] \subseteq DoneTasks

LEMMA StartedInOrder == TypeOK /\ DependencyOrder => InOrder
<1> SUFFICES ASSUME TypeOK, DependencyOrder,
                    NEW t \in StartedTasks, NEW u \in Deps[t]
             PROVE  u \in DoneTasks
  BY DEF InOrder
<1>1. t \in Task
  BY DEF StartedTasks
<1>2. PICK n \in 1 .. MaxStarts : pc[<<t, n>>] # "unborn"
  BY DEF StartedTasks, Started
<1>3. PICK d \in graph.depends_on[t] : u = d.id
  BY <1>1 DEF Deps, DependencyIds
<1>4. finished[u] > 0
  BY <1>1, <1>2, <1>3 DEF DependencyOrder, Thread, TaskOf
<1>5. u \in Task
  BY <1>1, DepsType
<1> QED  BY <1>4, <1>5 DEF DoneTasks

LEMMA DagInit == Init => Dag!Init
<1> SUFFICES ASSUME Init PROVE Dag!Init
  OBVIOUS
<1>1. Deps \in [Task -> SUBSET Task]
  BY TypeInit, DepsType
<1>2. StartedTasks = {}
  <2>1. \A self \in Thread : pc[self] = "unborn"
    BY ServerAssumption DEF Init, Caller
  <2>2. \A t \in Task, n \in 1 .. MaxStarts : <<t, n>> \in Thread
    BY DEF Thread
  <2> QED  BY <2>1, <2>2 DEF StartedTasks, Started
<1>3. DoneTasks = {}
  BY DEF Init, DoneTasks
<1> QED  BY <1>1, <1>2, <1>3 DEF Dag!Init, Deps, StartedTasks, DoneTasks

LEMMA DagStep == OrderInv /\ OrderInv' /\ [Next]_vars => [Dag!Next]_(Dag!vars)
<1> SUFFICES ASSUME OrderInv, OrderInv', [Next]_vars PROVE Dag!Next
  OBVIOUS
<1> USE DEF OrderInv
<1>1. Deps' = Deps
  BY StaysFinished DEF Deps
<1>2. CASE finished' = finished
  <2>1. DoneTasks' = DoneTasks
    BY <1>2 DEF DoneTasks
  <2>2. \A t \in StartedTasks' : Deps[t] \subseteq DoneTasks
    <3>1. InOrder'
      BY StartedInOrder, PTL
    <3> QED  BY <1>1, <2>1, <3>1 DEF InOrder
  <2>3. StartedTasks' = StartedTasks \cup StartedTasks' /\ StartedTasks' \subseteq Task
    BY StartedGrows DEF StartedTasks
  <2>4. Dag!Start(StartedTasks')
    BY <1>1, <2>1, <2>2, <2>3 DEF Dag!Start, Deps, StartedTasks, DoneTasks
  <2> QED  BY <2>3, <2>4 DEF Dag!Next
<1>3. ASSUME NEW self \in Thread, pc[self] = "finish",
             finished' = [finished EXCEPT ![TaskOf(self)] = @ + 1]
      PROVE  Dag!Next
  <2>1. TaskOf(self) \in Task /\ self = <<TaskOf(self), self[2]>> /\ self[2] \in 1 .. MaxStarts
    BY DEF Thread, TaskOf
  <2>2. TaskOf(self) \in StartedTasks
    BY <1>3, <2>1 DEF StartedTasks, Started
  <2>3. finished[TaskOf(self)] \in Nat
    BY <2>1 DEF TypeOK
  <2>4. finished'[TaskOf(self)] = finished[TaskOf(self)] + 1
    BY <1>3, <2>1 DEF TypeOK
  <2>5. DoneTasks' = DoneTasks \cup {TaskOf(self)}
    BY <1>3, <2>1, <2>3, <2>4 DEF DoneTasks, TypeOK
  <2>6. finished' # finished
    BY <2>3, <2>4
  <2>7. \A c \in Caller : ~StartThreads(c)
    BY <2>6 DEF StartThreads, state
  <2>8. StartedTasks' = StartedTasks
    <3>1. ASSUME NEW t \in Task, NEW n \in 1 .. MaxStarts
          PROVE  (pc'[<<t, n>>] # "unborn") <=> (pc[<<t, n>>] # "unborn")
      <4>1. <<t, n>> \in Thread
        BY DEF Thread
      <4> QED  BY <2>7, <4>1, Births
    <3> QED  BY <3>1 DEF StartedTasks, Started
  <2>9. Dag!Finish(TaskOf(self))
    BY <1>1, <2>2, <2>5, <2>8 DEF Dag!Finish, Deps, StartedTasks, DoneTasks
  <2> QED  BY <2>1, <2>9 DEF Dag!Next
<1> QED  BY <1>2, <1>3, FinishedGrows

\* Every run of every workflow is a run of the abstract scheduler: tasks are
\* started only when what they depend on is done, and become done only when
\* started, however the threads of the executor interleave.
THEOREM RefinesDag == Spec => ImplementsDag
  BY DagInit, DagStep, OrderInit, OrderNext, PTL DEF Spec, Dag!Spec, ImplementsDag
-----------------------------------------------------------------------------
(***************************************************************************)
(* Executors                                                               *)
(***************************************************************************)

\* Threads are only born in a run that start() has staged completely.
ThreadsAreStaged ==
    /\ ~request.buildable => pc[Server] \in {"submitted", "join", "joined"}
    /\ \A self \in Thread :
           pc[self] # "unborn" => request.buildable /\ pc[Server] # "submitted"

\* From then on, an executor is only removed for a task that is finished.
StagedKeepsExecutors ==
    request.buildable /\ pc[Server] # "submitted" =>
        \A t \in Tasks : finished[t] = 0 => t \in executors

ExecutorInv == OrderInv /\ ThreadsAreStaged /\ StagedKeepsExecutors

\* What a step does to the registry of executors.
LEMMA ExecutorChanges ==
  ASSUME TypeOK, [Next]_vars
  PROVE  \/ executors' = executors /\ (pc[Server] = "submitted" /\ request.buildable
                                           => pc'[Server] = "submitted")
         \/ executors' = Tasks
         \/ \E self \in Thread :
               pc[self] = "deregister" /\ executors' = executors \ {TaskOf(self)}
                   /\ pc'[Server] = pc[Server]
<1> USE DEF state, exchange, locals
<1>0. Server \in Caller
  BY DEF Caller
<1>1. ASSUME NEW self \in Caller, Fetch(self) \/ StartThreads(self)
      PROVE  /\ executors' = executors
             /\ pc[Server] = "submitted" => pc'[Server] = "submitted"
  <2>1. executors' = executors
    BY <1>1 DEF Fetch, Scan, RemoveFromQueue, QueueIndex, QueuePop, StartThreads
  <2> QED  BY <1>0, <1>1, <2>1, FetchMoves, StartMoves
<1>2. CASE Main
  BY <1>0, <1>1, <1>2
  DEF Main, StartUnbuildable, StartRejected, StartInvalidArgs, StartRun, Join,
      LaunchFirst, Registered
<1>3. ASSUME NEW self \in Thread, Step(self), ~Deregister(self)
      PROVE  executors' = executors
  <2>1. CASE Begin(self) \/ Announce(self) \/ Announcing(self) \/ Execute(self)
    BY <2>1 DEF Begin, Announce, Announcing, Execute
  <2>2. CASE Executing(self) \/ Store(self) \/ Report(self) \/ Reporting(self)
    BY <2>2 DEF Executing, Store, Report, Reporting
  <2>3. CASE Finish(self) \/ Record(self) \/ Cleanup(self) \/ Check(self)
    BY <2>3 DEF Finish, Record, Cleanup, Check
  <2>4. CASE PublishTerminal(self) \/ DeliverTerminal(self) \/ ResetExchange(self)
        \/ LaunchLost(self)
    BY <2>4 DEF PublishTerminal, DeliverTerminal, ResetExchange, LaunchLost
  <2> QED
    BY <1>1, <1>3, <2>1, <2>2, <2>3, <2>4 DEF Step, Launch, Caller
<1>4. ASSUME NEW self \in Thread, Step(self), ~Launch(self)
      PROVE  pc'[Server] = pc[Server]
  BY <1>0, <1>4, StepMoves, ServerAssumption
<1>5. ASSUME NEW self \in Thread, Deregister(self)
      PROVE  /\ pc[self] = "deregister" /\ executors' = executors \ {TaskOf(self)}
             /\ pc'[Server] = pc[Server]
  <2>1. pc[self] = "deregister" /\ executors' = executors \ {TaskOf(self)}
    BY <1>5 DEF Deregister
  <2>2. ~Launch(self)
    BY <2>1 DEF Launch, StartThreads
  <2> QED  BY <1>4, <1>5, <2>1, <2>2 DEF Step
<1>6. ASSUME NEW self \in Thread, Launch(self)
      PROVE  /\ executors' = executors
             /\ pc[Server] = "submitted" => pc'[Server] = "submitted"
  BY <1>1, <1>6 DEF Launch, Caller
<1>7. CASE UNCHANGED vars
  BY <1>7 DEF vars
<1> QED  BY <1>2, <1>3, <1>4, <1>5, <1>6, <1>7 DEF Next

LEMMA ServerMoves ==
  ASSUME TypeOK, [Next]_vars
  PROVE  /\ pc[Server] # "submitted" => pc'[Server] # "submitted"
         /\ pc[Server] \in {"join", "joined"} => pc'[Server] \in {"join", "joined"}
         /\ pc[Server] = "submitted" /\ ~request.buildable =>
                pc'[Server] \in {"submitted", "join"}
<1> USE DEF TypeOK, Goto, Caller
<1>1. ASSUME NEW self \in Caller, Fetch(self) \/ StartThreads(self)
      PROVE  /\ pc[Server] # "submitted" => pc'[Server] # "submitted"
             /\ pc[Server] \in {"submitted", "join", "joined"} => pc'[Server] = pc[Server]
  <2>1. CASE self = Server
    BY <1>1, <2>1, FetchMoves, StartMoves DEF AfterFetch
  <2>2. CASE self # Server
    BY <1>1, <2>2, FetchMoves, StartMoves
  <2> QED  BY <2>1, <2>2
<1>2. CASE Main
  <2>1. CASE Fetch(Server) \/ LaunchFirst
    BY <1>1, <2>1 DEF LaunchFirst
  <2>2. CASE StartUnbuildable \/ StartRejected \/ StartInvalidArgs \/ StartRun \/ Join
    BY <2>2 DEF StartUnbuildable, StartRejected, StartInvalidArgs, StartRun, Join
  <2> QED  BY <1>2, <2>1, <2>2 DEF Main
<1>3. ASSUME NEW self \in Thread, Step(self)
      PROVE  /\ pc[Server] # "submitted" => pc'[Server] # "submitted"
             /\ pc[Server] \in {"submitted", "join", "joined"} => pc'[Server] = pc[Server]
  <2>1. CASE Launch(self)
    BY <1>1, <2>1 DEF Launch
  <2>2. CASE ~Launch(self)
    BY <1>3, <2>2, StepMoves, ServerAssumption
  <2> QED  BY <2>1, <2>2
<1>4. CASE UNCHANGED vars
  BY <1>4 DEF vars
<1> QED  BY <1>2, <1>3, <1>4 DEF Next

LEMMA ExecutorNext == ExecutorInv /\ [Next]_vars => ExecutorInv'
<1> SUFFICES ASSUME ExecutorInv, [Next]_vars PROVE ExecutorInv'
  OBVIOUS
<1>0. TypeOK /\ OrderInv /\ OrderInv' /\ request' = request /\ Tasks' = Tasks
  BY OrderNext, FinishedGrows DEF ExecutorInv, OrderInv, Tasks, graph
<1>1. ASSUME ~request'.buildable
      PROVE  pc'[Server] \in {"submitted", "join", "joined"}
  BY <1>0, <1>1, ServerMoves DEF ExecutorInv, ThreadsAreStaged
<1>2. ASSUME NEW self \in Thread, pc'[self] # "unborn"
      PROVE  request'.buildable /\ pc'[Server] # "submitted"
  <2>1. CASE pc[self] # "unborn"
    BY <1>0, <2>1, ServerMoves DEF ExecutorInv, ThreadsAreStaged
  <2>2. CASE pc[self] = "unborn"
    <3>1. PICK c \in Caller : StartThreads(c)
      BY <1>0, <1>2, <2>2, Births
    <3>2. pc[c] = "launch"
      BY <3>1 DEF StartThreads
    <3>3. request.buildable /\ pc[Server] # "submitted"
      BY <3>2 DEF ExecutorInv, ThreadsAreStaged, Caller
    <3> QED  BY <1>0, <3>3, ServerMoves
  <2> QED  BY <2>1, <2>2
<1>3. ThreadsAreStaged'
  BY <1>1, <1>2 DEF ThreadsAreStaged
<1>4. ASSUME request.buildable, pc'[Server] # "submitted",
             NEW t \in Tasks, finished'[t] = 0
      PROVE  t \in executors'
  <2>1. t \in Task /\ finished[t] \in Nat
    BY <1>0, GraphType DEF TypeOK
  <2>2. finished[t] = 0
    BY <1>0, <1>4, <2>1, StaysFinished
  <2>3. CASE executors' = Tasks
    BY <2>3
  <2>4. CASE executors' = executors /\ pc[Server] # "submitted"
    BY <1>4, <2>2, <2>4 DEF ExecutorInv, StagedKeepsExecutors
  <2>5. ASSUME NEW self \in Thread, pc[self] = "deregister",
               executors' = executors \ {TaskOf(self)}, pc'[Server] = pc[Server]
        PROVE  t \in executors'
    <3>1. finished[TaskOf(self)] > 0
      BY <2>5 DEF ExecutorInv, OrderInv, RecordedIsFinished
    <3>2. t # TaskOf(self)
      BY <2>2, <3>1
    <3> QED  BY <1>4, <2>2, <2>5, <3>2 DEF ExecutorInv, StagedKeepsExecutors
  <2> QED  BY <1>0, <1>4, <2>3, <2>4, <2>5, ExecutorChanges
<1>5. StagedKeepsExecutors'
  BY <1>0, <1>4 DEF StagedKeepsExecutors
<1> QED  BY <1>0, <1>3, <1>5 DEF ExecutorInv

LEMMA ExecutorInit == Init => ExecutorInv
<1> SUFFICES ASSUME Init PROVE ExecutorInv
  OBVIOUS
<1>1. pc[Server] = "submitted" /\ \A self \in Thread : pc[self] = "unborn"
  BY ServerAssumption DEF Init, Caller
<1> QED
  BY <1>1, OrderInit DEF ExecutorInv, ThreadsAreStaged, StagedKeepsExecutors

\* In a run that has a task thread, every task that is not in the finished list
\* has its executor: the first thread of a task never fails for want of one,
\* however many threads of other tasks deregister theirs meanwhile
\* (_prepare_tasks, _deregister_executor).
THEOREM ExecutorsAreKept == Spec => []ExecutorKept
<1>1. ExecutorInv => ExecutorKept
  BY DEF ExecutorInv, ThreadsAreStaged, StagedKeepsExecutors, ExecutorKept
<1> QED  BY <1>1, ExecutorInit, ExecutorNext, PTL DEF Spec
-----------------------------------------------------------------------------
(***************************************************************************)
(* The events of the pipeline                                              *)
(***************************************************************************)
Staging == {"submitted", "scan", "remove", "locate", "pop", "launch"}

\* Until the server has handed over the first tasks there are no threads.
ServerFirst == pc[Server] \in Staging => \A self \in Thread : pc[self] = "unborn"

\* Until then nothing has been published, unless the submission was rejected:
\* then there is nothing to hand over.
FirstFetch ==
    /\ pc[Server] = "submitted" =>
           ~subscribed /\ handled = {} /\ delivered = <<>> /\ queue = <<>> /\ ready[Server] = <<>>
    /\ pc[Server] \in Staging \ {"submitted"} =>
           \/ handled = {} /\ delivered = <<>>
           \/ pc[Server] = "scan" /\ ~subscribed /\ queue = <<>> /\ ready[Server] = <<>>

InDelivery(self, event) == pc[self] \in {"completing", "failing"} /\ EventAt(pc[self]) = event

\* While the handler is attached, a terminal event is handled before it is
\* delivered, and at most one thread has it to deliver.
Marked ==
    subscribed =>
        /\ \A e \in {"COMPLETED", "FAILED"} : e \in ToSet(delivered) =>
               e \in handled /\ \A self \in Thread : ~InDelivery(self, e)
        /\ \A e \in {"COMPLETED", "FAILED"}, self \in Thread : InDelivery(self, e) => e \in handled
        /\ \A e \in {"COMPLETED", "FAILED"}, self, other \in Thread :
               InDelivery(self, e) /\ InDelivery(other, e) => self = other

EventInv == TypeOK /\ ResultKnown /\ ServerFirst /\ FirstFetch /\ Marked /\ PipelineEventsOnce

LEMMA EventInit == Init => EventInv
<1> SUFFICES ASSUME Init PROVE EventInv
  OBVIOUS
<1>1. pc[Server] = "submitted" /\ \A self \in Thread : pc[self] = "unborn"
  BY ServerAssumption DEF Init, Caller
<1>2. /\ ~subscribed /\ handled = {} /\ delivered = <<>> /\ queue = <<>> /\ ready[Server] = <<>>
  BY DEF Init, Caller
<1>3. ServerFirst /\ FirstFetch /\ Marked
  BY <1>1, <1>2 DEF ServerFirst, FirstFetch, Marked
<1>4. PipelineEventsOnce
  BY <1>2 DEF PipelineEventsOnce
<1> QED  BY <1>3, <1>4, TypeInit, KnownInit DEF EventInv

\* What happens to the exchange and to the threads that publish.
Quiet ==
    /\ UNCHANGED <<subscribed, handled, delivered>>
    /\ \A self \in Thread : pc'[self] \in {"completing", "failing"} => pc'[self] = pc[self]

LEMMA QuietStep ==
  ASSUME TypeOK, NEW self \in Thread, Step(self),
         ~PublishTerminal(self), ~DeliverTerminal(self), ~ResetExchange(self)
  PROVE  Quiet
<1> USE DEF Goto, exchange
<1>1. CASE Fetch(self) \/ Launch(self)
  <2>1. UNCHANGED <<subscribed, handled, delivered>>
    BY <1>1 DEF Fetch, Scan, RemoveFromQueue, QueueIndex, QueuePop, Launch, StartThreads
  <2>2. \A other \in Thread : pc'[other] \in {"completing", "failing"} => pc'[other] = pc[other]
    BY <1>1, FetchMoves, StartMoves DEF Launch, AfterFetch, Caller
  <2> QED  BY <2>1, <2>2 DEF Quiet
<1>3. CASE LaunchLost(self)
  BY <1>3 DEF LaunchLost, Quiet, TypeOK, Caller
<1>2. CASE ~Fetch(self) /\ ~Launch(self) /\ ~LaunchLost(self)
  <2>1. \A other \in Thread \ {self} : pc'[other] = pc[other]
    BY <1>2, StepMoves DEF Caller
  <2>2. UNCHANGED <<subscribed, handled, delivered>> /\ pc'[self] \notin {"completing", "failing"}
    <3> USE DEF TypeOK, Caller
    <3>1. CASE Begin(self)
      BY <3>1 DEF Begin
    <3>2. CASE Announce(self) \/ Announcing(self) \/ Execute(self)
      BY <3>2 DEF Announce, Announcing, Execute
    <3>3. CASE Executing(self)
      BY <3>3 DEF Executing
    <3>4. CASE Store(self) \/ Report(self) \/ Reporting(self)
      BY <3>4 DEF Store, Report, Reporting
    <3>5. CASE Finish(self) \/ Record(self)
      BY <3>5 DEF Finish, Record
    <3>6. CASE Cleanup(self) \/ Deregister(self) \/ Check(self)
      BY <3>6 DEF Cleanup, Deregister, Check
    <3> QED  BY <1>2, <3>1, <3>2, <3>3, <3>4, <3>5, <3>6 DEF Step
  <2> QED  BY <2>1, <2>2 DEF Quiet
<1> QED  BY <1>1, <1>2, <1>3

LEMMA QuietKeeps ==
  ASSUME Quiet, Marked, PipelineEventsOnce
  PROVE  Marked' /\ PipelineEventsOnce'
  BY DEF Quiet, Marked, PipelineEventsOnce, InDelivery, EventAt

\* The server leaves the staging for good, and threads are born only then.
LEMMA ServerFirstNext ==
  ASSUME TypeOK, ServerFirst, [Next]_vars
  PROVE  ServerFirst'
<1>0. Server \in Caller /\ Server \notin Thread
  BY ServerAssumption DEF Caller
<1>1. CASE UNCHANGED vars
  BY <1>1 DEF ServerFirst, vars
<1>2. CASE Fetch(Server)
  BY <1>0, <1>2, FetchMoves DEF ServerFirst, Caller, Staging
<1>3. CASE LaunchFirst
  BY <1>0, <1>3, StartMoves DEF LaunchFirst, ServerFirst, AfterFetch, Staging
<1>4. CASE StartUnbuildable \/ StartRejected \/ StartInvalidArgs \/ StartRun \/ Join
  BY <1>0, <1>4 DEF StartUnbuildable, StartRejected, StartInvalidArgs, StartRun, Join, Goto,
     ServerFirst, Staging, Caller, TypeOK
<1>5. ASSUME NEW self \in Thread, Step(self) PROVE ServerFirst'
  <2>1. self \in Caller /\ pc[self] # "unborn"
    BY <1>5, StepMoves DEF Launch, StartThreads, Caller
  <2>2. pc[Server] \notin Staging
    BY <2>1 DEF ServerFirst
  <2>3. pc'[Server] = pc[Server]
    BY <1>0, <1>5, <2>1, StepMoves, StartMoves DEF Launch
  <2> QED  BY <2>2, <2>3 DEF ServerFirst
<1> QED  BY <1>1, <1>2, <1>3, <1>4, <1>5 DEF Next, Main

LEMMA EventNext == EventInv /\ [Next]_vars => EventInv'
<1> SUFFICES ASSUME EventInv, [Next]_vars PROVE EventInv'
  OBVIOUS
<1>0. Server \in Caller /\ Server \notin Thread
  BY ServerAssumption DEF Caller
<1>1. TypeOK /\ TypeOK' /\ ResultKnown' /\ ServerFirst'
  BY TypeNext, ServerFirstNext DEF EventInv
<1>2. CASE UNCHANGED vars
  <2>1. Quiet /\ FirstFetch'
    BY <1>2 DEF vars, state, exchange, locals, Quiet, FirstFetch, EventInv
  <2> QED  BY <1>1, <2>1, QuietKeeps DEF EventInv
<1>3. CASE Main
  <2> USE DEF EventInv
  <2>1. CASE Fetch(Server)
    <3>1. Quiet
      <4>1. UNCHANGED <<subscribed, handled, delivered>>
        BY <2>1 DEF Fetch, Scan, RemoveFromQueue, QueueIndex, QueuePop, exchange
      <4> QED  BY <1>0, <1>1, <2>1, <4>1, FetchMoves DEF Quiet, Caller
    <3>2. FirstFetch'
      <4>1. CASE handled = {} /\ delivered = <<>>
        BY <1>0, <1>1, <2>1, <3>1, <4>1, FetchMoves DEF FirstFetch, Quiet, Staging
      <4>2. CASE ~(handled = {} /\ delivered = <<>>)
        <5>1. pc[Server] = "scan" /\ queue = <<>> /\ ready[Server] = <<>>
          BY <1>0, <1>1, <2>1, <4>2, FetchMoves DEF FirstFetch, Staging
        <5>2. Scan(Server)
          BY <2>1, <5>1 DEF Fetch, RemoveFromQueue, QueueIndex, QueuePop
        <5>3. pc'[Server] = "join"
          BY <1>0, <1>1, <5>1, <5>2 DEF Scan, Goto, AfterFetch, TypeOK
        <5> QED  BY <5>3 DEF FirstFetch, Staging
      <4> QED  BY <4>1, <4>2
    <3> QED  BY <1>1, <3>1, <3>2, QuietKeeps
  <2>2. CASE LaunchFirst
    <3>1. pc[Server] = "launch" /\ pc'[Server] = "join" /\ UNCHANGED <<subscribed, handled>>
      BY <1>0, <1>1, <2>2, StartMoves DEF LaunchFirst, StartThreads, AfterFetch
    <3>2. delivered' = <<"ACTIVE">> \/ delivered' = <<>>
      <4>1. delivered = <<>> /\ delivered' = delivered \o Delivery("ACTIVE")
        BY <2>2, <3>1 DEF LaunchFirst, FirstFetch, Staging
      <4>2. CASE request.notified
        BY <4>1, <4>2 DEF Delivery
      <4>3. CASE ~request.notified
        BY <4>1, <4>3 DEF Delivery
      <4> QED  BY <4>2, <4>3
    <3>3. \A self \in Thread : pc'[self] \notin {"completing", "failing"}
      BY <1>0, <1>1, <2>2, <3>1, StartMoves DEF LaunchFirst, ServerFirst, Staging, Caller
    <3>4. Marked' /\ PipelineEventsOnce' /\ FirstFetch'
      BY <3>1, <3>2, <3>3 DEF Marked, PipelineEventsOnce, FirstFetch, InDelivery, ToSet, Staging
    <3> QED  BY <1>1, <3>4
  <2>3. CASE StartUnbuildable \/ Join
    <3>1. Quiet /\ pc'[Server] \in {"join", "joined"}
      BY <1>0, <1>1, <2>3 DEF StartUnbuildable, Join, Goto, exchange, Quiet, TypeOK, Caller
    <3> QED  BY <1>1, <3>1, QuietKeeps DEF FirstFetch, Staging
  <2>4. CASE StartRejected \/ StartInvalidArgs
    <3>1. /\ pc[Server] = "submitted" /\ ~subscribed'
          /\ delivered' = <<"FAILED">> \/ delivered' = <<>>
          /\ pc'[Server] \in {"scan", "join"}
          /\ pc'[Server] = "scan" => queue' = queue /\ ready' = ready
      BY <1>0, <1>1, <2>4 DEF StartRejected, StartInvalidArgs, Delivery, Goto, TypeOK, FirstFetch, locals
    <3>2. Marked' /\ PipelineEventsOnce' /\ FirstFetch'
      BY <3>1 DEF Marked, PipelineEventsOnce, FirstFetch, Staging
    <3> QED  BY <1>1, <3>2
  <2>5. CASE StartRun
    <3>1. /\ pc[Server] = "submitted" /\ pc'[Server] = "scan" /\ UNCHANGED <<handled, delivered>>
          /\ \A self \in Thread : pc'[self] = pc[self]
      BY <1>0, <1>1, <2>5 DEF StartRun, Goto, TypeOK, Caller
    <3>2. handled' = {} /\ delivered' = <<>> /\ \A self \in Thread : pc'[self] = "unborn"
      BY <3>1 DEF FirstFetch, ServerFirst, Staging
    <3>3. Marked' /\ PipelineEventsOnce' /\ FirstFetch'
      BY <3>1, <3>2 DEF Marked, PipelineEventsOnce, FirstFetch, InDelivery, ToSet, Staging
    <3> QED  BY <1>1, <3>3
  <2> QED  BY <1>3, <2>1, <2>2, <2>3, <2>4, <2>5 DEF Main
<1>4. ASSUME NEW self \in Thread, Step(self) PROVE EventInv'
  <2> USE DEF EventInv
  <2>1. self \in Caller /\ pc[self] # "unborn"
    BY <1>1, <1>4, StepMoves DEF Launch, StartThreads, Caller
  <2>2. pc[Server] \notin Staging /\ pc'[Server] = pc[Server]
    BY <1>0, <1>1, <1>4, <2>1, StepMoves, StartMoves DEF Launch, ServerFirst
  <2>3. FirstFetch'
    BY <2>2 DEF FirstFetch, Staging
  <2>4. CASE PublishTerminal(self)
    <3>1. /\ pc[self] \in {"complete", "fail"} /\ UNCHANGED <<subscribed, delivered>>
          /\ \A other \in Thread \ {self} : pc'[other] = pc[other]
      BY <1>1, <2>1, <2>4 DEF PublishTerminal, Goto, TypeOK, Caller
    <3>2. \/ handled' = handled /\ pc'[self] \in {"reset", "ended"}
          \/ /\ EventAt(pc[self]) \notin handled
             /\ handled' = handled \cup {EventAt(pc[self])}
             /\ pc'[self] = IF EventAt(pc[self]) = "COMPLETED" THEN "completing" ELSE "failing"
      BY <1>1, <2>1, <2>4 DEF PublishTerminal, AlreadyHandled, Goto, TypeOK
    <3>3. Marked'
      BY <3>1, <3>2 DEF Marked, InDelivery, EventAt
    <3> QED  BY <1>1, <2>3, <3>1, <3>3 DEF PipelineEventsOnce
  <2>5. CASE DeliverTerminal(self)
    <3>1. /\ pc[self] \in {"completing", "failing"} /\ UNCHANGED <<subscribed, handled>>
          /\ pc'[self] \in {"reset", "dead"}
          /\ \A other \in Thread \ {self} : pc'[other] = pc[other]
          /\ delivered' = IF subscribed THEN Append(delivered, EventAt(pc[self])) ELSE delivered
      BY <1>1, <2>1, <2>5 DEF DeliverTerminal, Goto, TypeOK, Caller
    <3>2. CASE ~subscribed
      BY <1>1, <2>3, <3>1, <3>2 DEF Marked, PipelineEventsOnce
    <3>3. CASE subscribed
      <4> DEFINE e == EventAt(pc[self])
      <4>1. /\ e \in {"COMPLETED", "FAILED"} /\ InDelivery(self, e) /\ e \notin ToSet(delivered)
            /\ e \in handled
        BY <3>1, <3>3 DEF Marked, InDelivery, EventAt
      <4>2. /\ delivered' = Append(delivered, e)
            /\ delivered \in Seq({"ACTIVE", "COMPLETED", "FAILED"})
        BY <1>1, <3>1, <3>3 DEF TypeOK
      <4> HIDE DEF e
      <4>3. ToSet(delivered') \subseteq ToSet(delivered) \cup {e}
        BY <4>1, <4>2, ToSetOfAppend
      <4>4. Marked'
        BY <3>1, <3>3, <4>1, <4>3 DEF Marked, InDelivery, EventAt
      <4>5. PipelineEventsOnce'
        BY <4>1, <4>2 DEF PipelineEventsOnce, ToSet
      <4> QED  BY <1>1, <2>3, <4>4, <4>5
    <3> QED  BY <3>2, <3>3
  <2>6. CASE ResetExchange(self)
    BY <1>1, <2>3, <2>6 DEF ResetExchange, Marked, PipelineEventsOnce
  <2>7. CASE ~PublishTerminal(self) /\ ~DeliverTerminal(self) /\ ~ResetExchange(self)
    BY <1>1, <1>4, <2>3, <2>7, QuietStep, QuietKeeps
  <2> QED  BY <2>4, <2>5, <2>6, <2>7
<1> QED  BY <1>2, <1>3, <1>4 DEF Next

\* Whoever finds the run over, and however often: the handler is given ACTIVE
\* before any terminal event, and neither of the two twice, since a terminal
\* event is marked before it is delivered and the marks are only cleared with
\* the handler gone (_on_pipeline_terminal_state, EventExchange.publish).
THEOREM EventsDeliveredOnce == Spec => []PipelineEventsOnce
<1>1. EventInv => PipelineEventsOnce
  BY DEF EventInv
<1> QED  BY <1>1, EventInit, EventNext, PTL DEF Spec
-----------------------------------------------------------------------------
(***************************************************************************)
(* Ancestors.  They are computed level by level; a recursive function is a *)
(* CHOOSE, so that its equations have a solution has to be shown first.    *)
(***************************************************************************)
Higher(p, S) == S \cup UNION {DependencyIds(p, u) : u \in S}

Levels(p, t, f, n) ==
    f = [i \in 0 .. n |-> IF i = 0 THEN DependencyIds(p, t) ELSE Higher(p, f[i - 1])]

LEMMA LevelsExist ==
  ASSUME NEW p, NEW t, NEW n \in Nat
  PROVE  \E f : Levels(p, t, f, n)
<1> DEFINE T == {i \in Nat : ~ \E f : Levels(p, t, f, i)}
<1> SUFFICES ASSUME T # {} PROVE FALSE
  OBVIOUS
<1>1. PICK k \in T : \A j \in T : k <= j
  BY LeastElement
<1>2. k \in Nat /\ ~ \E f : Levels(p, t, f, k)
  BY <1>1
<1>3. \A j \in Nat : j < k => \E f : Levels(p, t, f, j)
  BY <1>1
<1> HIDE DEF T
<1>4. CASE k = 0
  <2> DEFINE g == [i \in 0 .. 0 |-> DependencyIds(p, t)]
  <2>1. Levels(p, t, g, 0)
    BY DEF Levels
  <2> QED  BY <1>2, <1>4, <2>1
<1>5. CASE k # 0
  <2>1. PICK f : Levels(p, t, f, k - 1)
    BY <1>2, <1>3, <1>5
  <2> DEFINE g == [i \in 0 .. k |-> IF i = 0 THEN DependencyIds(p, t) ELSE Higher(p, f[i - 1])]
  <2>2. \A i \in 0 .. k - 1 : f[i] = IF i = 0 THEN DependencyIds(p, t) ELSE Higher(p, f[i - 1])
    BY <2>1 DEF Levels
  <2>3. \A i \in 0 .. k - 1 : g[i] = f[i]
    BY <1>2, <1>5, <2>2
  <2>4. \A i \in 0 .. k : g[i] = IF i = 0 THEN DependencyIds(p, t) ELSE Higher(p, g[i - 1])
    <3>1. \A i \in 0 .. k : i # 0 => i - 1 \in 0 .. k - 1
      BY <1>2
    <3>2. \A i \in 0 .. k : g[i] = IF i = 0 THEN DependencyIds(p, t) ELSE Higher(p, f[i - 1])
      OBVIOUS
    <3> HIDE DEF g
    <3> QED  BY <2>3, <3>1, <3>2
  <2>5. Levels(p, t, g, k)
    <3>1. g = [i \in 0 .. k |-> g[i]]
      OBVIOUS
    <3> HIDE DEF g
    <3> QED  BY <2>4, <3>1 DEF Levels
  <2> QED  BY <1>2, <2>5
<1> QED  BY <1>4, <1>5

LEMMA AncestorLevels ==
  ASSUME NEW p, NEW t, Len(p.tasks) \in Nat
  PROVE  \E f : Levels(p, t, f, Len(p.tasks)) /\ Ancestors(p, t) = f[Len(p.tasks)]
<1> DEFINE N == Len(p.tasks)
           f == CHOOSE f : f = [i \in 0 .. N |-> IF i = 0 THEN DependencyIds(p, t)
                                                 ELSE Higher(p, f[i - 1])]
<1>1. Ancestors(p, t) = f[N]
  BY DEF Ancestors, Higher
<1>2. \E g : Levels(p, t, g, N)
  <2> HIDE DEF f
  <2> QED  BY LevelsExist
<1>3. \E g : g = [i \in 0 .. N |-> IF i = 0 THEN DependencyIds(p, t) ELSE Higher(p, g[i - 1])]
  <2> HIDE DEF f
  <2> QED  BY <1>2, Zenon DEF Levels
<1>4. f = [i \in 0 .. N |-> IF i = 0 THEN DependencyIds(p, t) ELSE Higher(p, f[i - 1])]
  BY <1>3
<1> HIDE DEF f
<1> QED  BY <1>1, <1>4 DEF Levels

\* A set with the dependencies of a task and of its own elements has all
\* ancestors of the task.
LEMMA AncestorsWithin ==
  ASSUME NEW p, NEW t, NEW S, Len(p.tasks) \in Nat,
         DependencyIds(p, t) \subseteq S, \A u \in S : DependencyIds(p, u) \subseteq S
  PROVE  Ancestors(p, t) \subseteq S
<1>1. PICK f : Levels(p, t, f, Len(p.tasks)) /\ Ancestors(p, t) = f[Len(p.tasks)]
  BY AncestorLevels
<1>2. \A i \in 0 .. Len(p.tasks) :
         f[i] = IF i = 0 THEN DependencyIds(p, t) ELSE Higher(p, f[i - 1])
  BY <1>1 DEF Levels
<1> DEFINE T == {i \in 0 .. Len(p.tasks) : ~(f[i] \subseteq S)}
<1>3. CASE T = {}
  BY <1>1, <1>3
<1>4. CASE T # {}
  <2>1. T \in SUBSET Nat
    OBVIOUS
  <2>2. PICK k \in T : \A j \in T : k <= j
    BY <1>4, <2>1, LeastElement
  <2>3. k \in 0 .. Len(p.tasks) /\ k # 0
    BY <1>2, <2>2
  <2>4. k - 1 \in 0 .. Len(p.tasks) /\ k - 1 \notin T
    BY <2>2, <2>3
  <2>5. f[k - 1] \subseteq S /\ f[k] = Higher(p, f[k - 1])
    BY <1>2, <2>3, <2>4
  <2>6. f[k] \subseteq S
    BY <2>5 DEF Higher
  <2> QED  BY <2>2, <2>6
<1> QED  BY <1>3, <1>4

-----------------------------------------------------------------------------
(***************************************************************************)
(* The workflows in which only leaves run side by side.  No two threads    *)
(* are in the shared lists at the same time, as long as a thread of a task *)
(* with dependents is alone; and by the time a leaf is started there is    *)
(* nothing left to fetch.                                                  *)
(***************************************************************************)
InnerTasks == {t \in Task : Children(graph, t) # {}}
FreeTasks == {t \in Task : DependenciesFinished(t)}
Born(self) == pc[self] # "unborn"
Alive(self) == pc[self] \notin {"unborn", "ended", "dead"}
Fetching(c) == pc[c] \in {"scan", "remove", "locate", "pop", "launch"}

\* What is queued, ready or started is a task of an accepted pipeline.
Accepted ==
    queue # <<>> \/ (\E c \in Caller : ready[c] # <<>>) \/ (\E self \in Thread : Born(self))
        => ~InvalidDependencies(graph)

OfPipeline ==
    /\ ToSet(queue) \subseteq Tasks
    /\ \A c \in Caller : ToSet(ready[c]) \subseteq Tasks
    /\ \A self \in Thread : Born(self) => TaskOf(self) \in Tasks

\* Only what was started is finished, and never before its dependencies.
FinishedInOrder == DoneTasks \subseteq FreeTasks \cap StartedTasks

NothingReady ==
    \A c \in Caller :
        pc[c] \notin {"scan", "remove", "locate", "pop", "launch", "ended", "join", "joined", "dead"}
            => ready[c] = <<>> /\ cursor[c] = 1

\* A fetch has taken the free tasks among those it has looked at ...
Collecting(c) ==
    /\ \A i \in 1 .. Len(ready[c]) :
          \E j \in 1 .. Len(queue) : j < cursor[c] /\ queue[j] = ready[c][i]
    /\ \A j \in 1 .. Len(queue) :
          j < cursor[c] /\ queue[j] \in FreeTasks => queue[j] \in ToSet(ready[c])

\* ... removes them one by one ...
Removing(c) ==
    /\ ready[c] # <<>>
    /\ \A i \in 1 .. Len(ready[c]) : i >= cursor[c] <=> ready[c][i] \in ToSet(queue)
    /\ ToSet(queue) \cap FreeTasks \subseteq ToSet(ready[c])
    /\ pc[c] \in {"locate", "pop"} => cursor[c] <= Len(ready[c])
    /\ pc[c] = "pop" => position[c] \in 1 .. Len(queue) /\ queue[position[c]] = ready[c][cursor[c]]

\* ... and leaves no free task behind.
Launching(c) == ready[c] # <<>> /\ ToSet(queue) \cap FreeTasks = {}

FetchIs(c) ==
    Fetching(c) =>
        /\ IsInjective(ready[c]) /\ ToSet(ready[c]) \cap StartedTasks = {}
        /\ pc[c] = "scan" => Collecting(c)
        /\ pc[c] \in {"remove", "locate", "pop"} => Removing(c)
        /\ pc[c] = "launch" => Launching(c)

Fetches == \A c \in Caller : FetchIs(c)

QueueFresh == IsInjective(queue) /\ ToSet(queue) \cap StartedTasks = {}

Once == \A self \in Thread : self[2] > 1 => ~Born(self)

Alone ==
    \A self, other \in Thread :
        self # other /\ Alive(self) /\ Alive(other) => TaskOf(self) \notin InnerTasks

LeavesLast ==
    (\E self \in Thread : Born(self) /\ TaskOf(self) \notin InnerTasks) =>
        queue = <<>> /\ \A c \in Caller : Fetching(c) => ready[c] = <<>>

Serial == Fetches /\ QueueFresh /\ Once /\ Alone /\ LeavesLast

SerialInv ==
    /\ OrderInv /\ ServerFirst /\ Accepted /\ OfPipeline /\ FinishedInOrder /\ NothingReady
    /\ OnlyLeavesOverlap => Serial

LEMMA GraphFixed ==
  ASSUME TypeOK, [Next]_vars
  PROVE  /\ graph' = graph /\ Tasks' = Tasks /\ InnerTasks' = InnerTasks
         /\ OnlyLeavesOverlap' = OnlyLeavesOverlap
         /\ FreeTasks \subseteq FreeTasks' /\ DoneTasks \subseteq DoneTasks'
         /\ StartedTasks \subseteq StartedTasks'
<1>1. graph' = graph
  BY StaysFinished
<1>2. FreeTasks \subseteq FreeTasks' /\ DoneTasks \subseteq DoneTasks'
  BY StaysFinished DEF FreeTasks, DoneTasks
<1> QED
  BY <1>1, <1>2, StartedGrows DEF Tasks, InnerTasks, OnlyLeavesOverlap, SideBySide

LEMMA GraphLength ==
  ASSUME TypeOK
  PROVE  Len(graph.tasks) \in Nat
<1>1. graph.tasks \in Seq(Task)
  BY GraphType
<1> QED  BY <1>1

\* All ancestors of a free task are finished.
LEMMA AncestorsFinished ==
  ASSUME TypeOK, FinishedInOrder, NEW t \in FreeTasks
  PROVE  Ancestors(graph, t) \subseteq DoneTasks
<1>1. \A u \in FreeTasks : DependencyIds(graph, u) \subseteq DoneTasks
  BY GraphType DEF FreeTasks, DependenciesFinished, DependencyIds, DoneTasks, Dependency
<1>2. \A u \in DoneTasks : DependencyIds(graph, u) \subseteq DoneTasks
  BY <1>1 DEF FinishedInOrder
<1> QED  BY <1>1, <1>2, GraphLength, AncestorsWithin

\* Of two free tasks that are not finished, neither has dependents.
LEMMA FreeTogether ==
  ASSUME TypeOK, FinishedInOrder, OnlyLeavesOverlap,
         NEW t \in FreeTasks \cap Tasks, NEW u \in FreeTasks \cap Tasks,
         t # u, t \notin DoneTasks, u \notin DoneTasks
  PROVE  t \notin InnerTasks /\ u \notin InnerTasks
<1>1. t \notin Ancestors(graph, u) /\ u \notin Ancestors(graph, t)
  BY AncestorsFinished
<1> QED  BY <1>1 DEF OnlyLeavesOverlap, SideBySide, InnerTasks

\* Dependencies are tasks with dependents.
LEMMA DependenciesAreInner ==
  ASSUME TypeOK, ~InvalidDependencies(graph), NEW t \in Tasks
  PROVE  DependencyIds(graph, t) \subseteq InnerTasks \cap Tasks
<1> SUFFICES ASSUME NEW u \in DependencyIds(graph, t) PROVE u \in InnerTasks /\ u \in Tasks
  OBVIOUS
<1>1. u \in Tasks /\ u \in Task
  BY GraphType DEF InvalidDependencies, DependencyIds, Tasks
<1>2. t \in Children(graph, u)
  BY DEF Children, Tasks
<1> QED  BY <1>1, <1>2 DEF InnerTasks

\* When a leaf is free, every task with dependents is finished, and so every
\* task is free.
LEMMA LeafFreesAll ==
  ASSUME TypeOK, FinishedInOrder, OnlyLeavesOverlap, ~InvalidDependencies(graph),
         NEW t \in FreeTasks \cap Tasks, t \notin InnerTasks
  PROVE  Tasks \subseteq FreeTasks
<1>1. ASSUME NEW u \in InnerTasks \cap Tasks
      PROVE  u \in DoneTasks
  <2>1. u # t
    OBVIOUS
  <2>2. Ancestors(graph, u) \subseteq InnerTasks \cap Tasks
    <3>1. \A v \in InnerTasks \cap Tasks : DependencyIds(graph, v) \subseteq InnerTasks \cap Tasks
      BY DependenciesAreInner
    <3> QED  BY <3>1, GraphLength, AncestorsWithin
  <2>3. t \notin Ancestors(graph, u)
    BY <2>2
  <2>4. Children(graph, u) # {}
    BY DEF InnerTasks
  <2>5. u \in Ancestors(graph, t)
    BY <2>1, <2>3, <2>4 DEF OnlyLeavesOverlap, SideBySide
  <2> QED  BY <2>5, AncestorsFinished
<1>2. ASSUME NEW u \in Tasks PROVE u \in FreeTasks
  <2>1. u \in Task /\ DependencyIds(graph, u) \subseteq DoneTasks
    BY <1>1, DependenciesAreInner, GraphType
  <2> QED  BY <2>1 DEF FreeTasks, DependenciesFinished, DependencyIds, DoneTasks
<1> QED  BY <1>2

\* A task is ready exactly when it is free.
LEMMA ReadyIsFree ==
  ASSUME OrderInv, NEW t \in Task
  PROVE  Ready(t) <=> t \in FreeTasks
<1>1. Ready(t) => t \in FreeTasks
  BY ReadyMeansFinished DEF OrderInv, FreeTasks
<1>2. t \in FreeTasks => Ready(t)
  BY DEF FreeTasks, DependenciesFinished, Ready
<1> QED  BY <1>1, <1>2
-----------------------------------------------------------------------------
\* The steps of a thread between its start and its fetch leave the lists alone.
Idle == {"ended", "join", "joined", "dead"}

LEMMA OwnStep ==
  ASSUME TypeOK, NEW self \in Thread, Step(self), ~Fetch(self), ~Launch(self)
  PROVE  /\ UNCHANGED <<queue, ready, cursor, position>>
         /\ \A other \in Caller \ {self} : pc'[other] = pc[other]
         /\ Born(self) /\ Alive(self) /\ pc[self] \notin Idle
         /\ Fetching(self) => pc[self] = "launch" /\ pc'[self] = "ended"
         /\ pc'[self] # "unborn"
         /\ pc'[self] \in {"scan", "remove", "locate", "pop", "launch"} =>
                pc[self] = "check" /\ pc'[self] = "scan" /\ ~FailsRun(self)
<1> USE DEF TypeOK, Goto, Caller, state, exchange, locals, Born, Alive, Fetching, Idle
<1>1. CASE Begin(self)
  BY <1>1 DEF Begin
<1>2. CASE Announce(self) \/ Announcing(self)
  BY <1>2 DEF Announce, Announcing
<1>3. CASE Execute(self)
  BY <1>3 DEF Execute
<1>4. CASE Executing(self)
  BY <1>4 DEF Executing
<1>5. CASE Store(self) \/ Report(self) \/ Reporting(self)
  BY <1>5 DEF Store, Report, Reporting
<1>6. CASE Finish(self) \/ Record(self)
  BY <1>6 DEF Finish, Record
<1>7. CASE Cleanup(self) \/ Deregister(self)
  BY <1>7 DEF Cleanup, Deregister
<1>8. CASE Check(self)
  BY <1>8 DEF Check
<1>9. CASE PublishTerminal(self) \/ DeliverTerminal(self) \/ ResetExchange(self)
        \/ LaunchLost(self)
  BY <1>9 DEF PublishTerminal, DeliverTerminal, ResetExchange, LaunchLost
<1> QED  BY <1>1, <1>2, <1>3, <1>4, <1>5, <1>6, <1>7, <1>8, <1>9 DEF Step

\* The other steps of the server.
ServerStep ==
    StartUnbuildable \/ StartRejected \/ StartInvalidArgs \/ StartRun \/ Join

LEMMA NobodyFetches ==
  ASSUME TypeOK, ServerFirst, ServerStep
  PROVE  /\ UNCHANGED <<ready, cursor, position>> /\ \A self \in Thread : pc'[self] = pc[self]
         /\ \A self \in Thread : ~Alive(self)
         /\ pc[Server] \in {"submitted", "join"}
         /\ \/ queue' = queue
            \/ /\ queue' = graph.tasks /\ ~InvalidDependencies(graph)
               /\ \A self \in Thread : ~Born(self)
         /\ \/ pc'[Server] \in {"join", "joined"}
            \/ pc[Server] = "submitted" /\ pc'[Server] = "scan"
<1>0. Server \in Caller /\ Server \notin Thread
  BY ServerAssumption DEF Caller
<1>1. ASSUME NEW l, pc' = [pc EXCEPT ![Server] = l]
      PROVE  (\A self \in Thread : pc'[self] = pc[self]) /\ pc'[Server] = l
  BY <1>0, <1>1 DEF TypeOK, Caller
<1>2. pc[Server] = "submitted" => \A self \in Thread : ~Born(self) /\ ~Alive(self)
  BY DEF ServerFirst, Staging, Born, Alive
<1> USE DEF Goto, state, locals
<1>3. CASE StartUnbuildable
  BY <1>1, <1>2, <1>3 DEF StartUnbuildable
<1>4. CASE StartRejected
  BY <1>1, <1>2, <1>4 DEF StartRejected
<1>5. CASE StartInvalidArgs \/ StartRun
  BY <1>1, <1>2, <1>5 DEF StartInvalidArgs, StartRun, Rejected
<1>6. CASE Join
  BY <1>1, <1>6 DEF Join, Alive
<1> QED  BY <1>3, <1>4, <1>5, <1>6 DEF ServerStep

\* A fetch only touches the queue and the caller's own variables.
LEMMA FetchStep ==
  ASSUME TypeOK, NEW c \in Caller, Fetch(c)
  PROVE  /\ Fetching(c) /\ pc[c] # "launch"
         /\ \A other \in Caller \ {c} :
               /\ pc'[other] = pc[other] /\ ready'[other] = ready[other]
               /\ cursor'[other] = cursor[other] /\ position'[other] = position[other]
         /\ UNCHANGED <<request, finished, failed>>
         /\ pc'[c] \in {"scan", "remove", "locate", "pop", "launch"} \cup Idle
         /\ FreeTasks' = FreeTasks /\ DoneTasks' = DoneTasks /\ StartedTasks' = StartedTasks
<1> USE DEF TypeOK, state, exchange, locals, Goto
<1>0. UNCHANGED <<request, finished, failed>>
  BY DEF Fetch, Scan, RemoveFromQueue, QueueIndex, QueuePop
<1>1. /\ Fetching(c) /\ pc[c] # "launch" /\ \A other \in Caller \ {c} : pc'[other] = pc[other]
      /\ pc'[c] \in {"scan", "remove", "locate", "pop", "launch"} \cup Idle
  BY FetchMoves DEF Fetching, Idle
<1>2. FreeTasks' = FreeTasks /\ DoneTasks' = DoneTasks
  BY <1>0 DEF FreeTasks, DoneTasks, DependenciesFinished, graph
<1>3. StartedTasks' = StartedTasks
  <2>1. \A self \in Thread : pc'[self] = "unborn" <=> pc[self] = "unborn"
    BY FetchMoves DEF Caller
  <2>2. \A t \in Task, n \in 1 .. MaxStarts : <<t, n>> \in Thread
    BY DEF Thread
  <2> QED  BY <2>1, <2>2 DEF StartedTasks, Started
<1>4. \A other \in Caller \ {c} :
        /\ ready'[other] = ready[other]
        /\ cursor'[other] = cursor[other] /\ position'[other] = position[other]
  BY DEF Fetch, Scan, RemoveFromQueue, QueueIndex, QueuePop
<1> QED  BY <1>0, <1>1, <1>2, <1>3, <1>4

\* What starts the threads of a list, and which those are.
LEMMA StartStep ==
  ASSUME TypeOK, NEW c \in Caller, StartThreads(c)
  PROVE  /\ pc[c] = "launch" /\ pc'[c] = AfterFetch(c)
         /\ UNCHANGED <<request, queue, finished, failed, cursor, position>>
         /\ ready' = [ready EXCEPT ![c] = <<>>]
         /\ FreeTasks' = FreeTasks /\ DoneTasks' = DoneTasks
         /\ \A other \in Caller \ {c} :
               \/ pc'[other] = pc[other]
               \/ /\ pc[other] = "unborn" /\ pc'[other] = "begin" /\ other \in Thread
                  /\ TaskOf(other) \in ToSet(ready[c])
                  /\ \A n \in 1 .. other[2] - 1 : pc[<<other[1], n>>] # "unborn"
<1>1. UNCHANGED <<request, queue, finished, failed, cursor, position>>
  BY DEF StartThreads, state
<1>2. pc[c] = "launch" /\ pc'[c] = AfterFetch(c)
  BY StartMoves
<1>3. \A other \in Caller \ {c} :
         \/ pc'[other] = pc[other]
         \/ /\ pc[other] = "unborn" /\ pc'[other] = "begin" /\ other \in Thread
            /\ TaskOf(other) \in ToSet(ready[c])
            /\ \A n \in 1 .. other[2] - 1 : pc[<<other[1], n>>] # "unborn"
  BY DEF StartThreads, IsNextStart, TaskOf
<1>4. FreeTasks' = FreeTasks /\ DoneTasks' = DoneTasks
  BY <1>1 DEF FreeTasks, DoneTasks, DependenciesFinished, graph
<1>5. ready' = [ready EXCEPT ![c] = <<>>]
  BY DEF StartThreads
<1> QED  BY <1>1, <1>2, <1>3, <1>4, <1>5

\* The kinds of a step.
LEMMA StepKinds ==
  ASSUME [Next]_vars
  PROVE  \/ UNCHANGED vars
         \/ ServerStep
         \/ \E c \in Caller : Fetch(c) \/ StartThreads(c)
         \/ \E self \in Thread : Step(self) /\ ~Fetch(self) /\ ~Launch(self)
  BY DEF Next, Main, ServerStep, LaunchFirst, Launch, Caller, Step

LEMMA FetchQueue ==
  ASSUME TypeOK, NEW c \in Caller, Fetch(c)
  PROVE  queue' = queue \/ (queue # <<>> /\ ToSet(queue') \subseteq ToSet(queue))
<1>1. CASE Scan(c) \/ RemoveFromQueue(c) \/ QueueIndex(c)
  BY <1>1 DEF Scan, RemoveFromQueue, QueueIndex, state
<1>2. CASE QueuePop(c)
  <2>1. CASE position[c] \in 1 .. Len(queue)
    BY <1>2, <2>1, RemoveAtWithin DEF QueuePop, Popped, TypeOK
  <2>2. CASE ~(position[c] \in 1 .. Len(queue))
    BY <1>2, <2>2 DEF QueuePop, TypeOK
  <2> QED  BY <2>1, <2>2
<1> QED  BY <1>1, <1>2 DEF Fetch

LEMMA QueueChanges ==
  ASSUME TypeOK, ServerFirst, [Next]_vars
  PROVE  \/ queue' = queue
         \/ queue' = graph.tasks /\ ~InvalidDependencies(graph)
         \/ queue # <<>> /\ ToSet(queue') \subseteq ToSet(queue)
  BY FetchQueue, StepKinds, NobodyFetches, OwnStep, StartStep DEF vars, state

LEMMA HasElement ==
  ASSUME NEW S, NEW s \in Seq(S), NEW x \in ToSet(s)
  PROVE  s # <<>>
<1>1. PICK i \in DOMAIN s : x = s[i]
  BY DEF ToSet
<1>2. DOMAIN s = 1 .. Len(s) /\ Len(s) # 0
  BY <1>1
<1> QED  BY <1>2

LEMMA AcceptedNext ==
  ASSUME SerialInv, [Next]_vars
  PROVE  Accepted' /\ OfPipeline'
<1> USE DEF SerialInv, OrderInv
<1>0. graph' = graph /\ Tasks' = Tasks /\ TypeOK /\ TypeOK'
  BY GraphFixed, TypeNext
<1> queue \in Seq(Task) /\ ready \in [Caller -> Seq(Task)]
  BY <1>0 DEF TypeOK
<1>1. queue' # <<>> => ~InvalidDependencies(graph)
  BY QueueChanges DEF Accepted
<1>2. ASSUME NEW c \in Caller
      PROVE  (ready'[c] # <<>> => ~InvalidDependencies(graph)) /\ ToSet(ready'[c]) \subseteq Tasks
  <2>1. CASE ready'[c] = ready[c]
    BY <2>1 DEF Accepted, OfPipeline
  <2>2. CASE ready'[c] = <<>>
    BY <2>2 DEF ToSet
  <2>3. ASSUME NEW t \in Task \cap ToSet(queue), ready'[c] = Append(ready[c], t)
        PROVE  ~InvalidDependencies(graph) /\ ToSet(ready'[c]) \subseteq Tasks
    <3>1. queue # <<>>
      BY HasElement
    <3>2. ToSet(ready'[c]) = ToSet(ready[c]) \cup {t}
      BY <1>0, <2>3, ToSetOfAppend DEF TypeOK
    <3> QED  BY <3>1, <3>2 DEF Accepted, OfPipeline
  <2> QED  BY <1>0, <2>1, <2>2, <2>3, ReadyChanges
<1>3. ASSUME NEW self \in Thread, Born(self)'
      PROVE  ~InvalidDependencies(graph) /\ TaskOf(self) \in Tasks
  <2>1. CASE Born(self)
    BY <2>1 DEF Accepted, OfPipeline
  <2>2. CASE ~Born(self)
    <3>1. PICK c \in Caller : TaskOf(self) \in ToSet(ready[c])
      BY <1>0, <1>3, <2>2, Births DEF Born
    <3>2. ready[c] # <<>>
      BY <3>1, HasElement
    <3> QED  BY <3>1, <3>2 DEF Accepted, OfPipeline
  <2> QED  BY <2>1, <2>2
<1>4. Accepted'
  BY <1>0, <1>1, <1>2, <1>3 DEF Accepted, InvalidDependencies
<1>5. ToSet(queue') \subseteq Tasks
  BY QueueChanges DEF OfPipeline, Tasks
<1>6. OfPipeline'
  BY <1>0, <1>2, <1>3, <1>5 DEF OfPipeline
<1> QED  BY <1>4, <1>6

LEMMA FinishedInOrderNext ==
  ASSUME SerialInv, [Next]_vars
  PROVE  FinishedInOrder'
<1> USE DEF SerialInv, OrderInv
<1>0. TypeOK /\ OrderInv' /\ FreeTasks \subseteq FreeTasks' /\ StartedTasks \subseteq StartedTasks'
  BY GraphFixed, OrderNext
<1>1. CASE finished' = finished
  BY <1>0, <1>1 DEF FinishedInOrder, DoneTasks
<1>2. ASSUME NEW self \in Thread, pc[self] = "finish", pc'[self] = "record",
             finished' = [finished EXCEPT ![TaskOf(self)] = @ + 1]
      PROVE  FinishedInOrder'
  <2>1. DoneTasks' \subseteq DoneTasks \cup {TaskOf(self)}
    BY <1>0, <1>2 DEF TypeOK, DoneTasks
  <2>2. TaskOf(self) \in Task /\ self = <<TaskOf(self), self[2]>> /\ self[2] \in 1 .. MaxStarts
    BY DEF Thread, TaskOf
  <2>3. TaskOf(self) \in FreeTasks'
    BY <1>0, <1>2, <2>2 DEF OrderInv, DependencyOrder, FreeTasks, DependenciesFinished
  <2>4. TaskOf(self) \in StartedTasks'
    BY <1>2, <2>2 DEF StartedTasks, Started
  <2> QED  BY <1>0, <2>1, <2>3, <2>4 DEF FinishedInOrder
<1> QED  BY <1>0, <1>1, <1>2, FinishedGrows

Away == {"scan", "remove", "locate", "pop", "launch"} \cup Idle

LEMMA NothingReadyNext ==
  ASSUME SerialInv, [Next]_vars
  PROVE  NothingReady'
<1> USE DEF SerialInv, OrderInv, Idle
<1> SUFFICES ASSUME NEW c \in Caller, pc'[c] \notin Away
             PROVE  ready'[c] = <<>> /\ cursor'[c] = 1
  BY DEF NothingReady, Away
<1>0. TypeOK /\ (pc[c] \notin Away => ready[c] = <<>> /\ cursor[c] = 1)
  BY DEF NothingReady, Away
<1>1. CASE UNCHANGED vars
  BY <1>0, <1>1 DEF vars, locals
<1>2. CASE ServerStep
  BY <1>0, <1>2, NobodyFetches DEF Caller, Away
<1>3. ASSUME NEW x \in Caller, Fetch(x) PROVE ready'[c] = <<>> /\ cursor'[c] = 1
  BY <1>0, <1>3, FetchStep DEF Away
<1>4. ASSUME NEW x \in Caller, StartThreads(x) PROVE ready'[c] = <<>> /\ cursor'[c] = 1
  <2>1. c # x
    BY <1>0, <1>4, StartStep DEF AfterFetch, Away
  <2>2. pc[c] \notin Away
    BY <1>0, <1>4, <2>1, StartStep DEF Away
  <2>3. ready' = [ready EXCEPT ![x] = <<>>] /\ cursor' = cursor
    BY <1>0, <1>4, StartStep
  <2> QED  BY <1>0, <2>1, <2>2, <2>3 DEF TypeOK
<1>5. ASSUME NEW self \in Thread, Step(self), ~Fetch(self), ~Launch(self)
      PROVE  ready'[c] = <<>> /\ cursor'[c] = 1
  BY <1>0, <1>5, OwnStep DEF Away, Fetching, Caller
<1> QED  BY <1>1, <1>2, <1>3, <1>4, <1>5, StepKinds

\* A caller in front of an empty loop.
LEMMA EmptyFetch ==
  ASSUME NEW c \in Caller, TypeOK', ready'[c] = <<>>, pc'[c] = "scan",
         queue' = <<>> \/ cursor'[c] = 1
  PROVE  FetchIs(c)'
<1>1. \A j \in 1 .. Len(queue') : ~(j < cursor'[c])
  BY DEF TypeOK
<1>2. Len(ready'[c]) = 0 /\ DOMAIN ready'[c] = {} /\ ToSet(ready'[c]) = {}
  BY DEF ToSet
<1>3. Collecting(c)' /\ IsInjective(ready'[c])
  BY <1>1, <1>2 DEF Collecting, IsInjective
<1> QED  BY <1>2, <1>3 DEF FetchIs

\* Whoever else fetches while a thread is alive finds nothing.
LEMMA Bystander ==
  ASSUME SerialInv, OnlyLeavesOverlap, NEW x \in Thread, Alive(x),
         NEW c \in Caller, c # x, Fetching(c)
  PROVE  queue = <<>> /\ ready[c] = <<>> /\ pc[c] = "scan"
<1> USE DEF SerialInv, Serial
<1>1. c \in Thread
  BY DEF ServerFirst, Staging, Fetching, Alive, Caller
<1>2. Alive(c) /\ Born(c)
  BY DEF Alive, Born, Fetching
<1>3. TaskOf(c) \notin InnerTasks
  BY <1>1, <1>2 DEF Alone
<1>4. queue = <<>> /\ ready[c] = <<>>
  BY <1>1, <1>2, <1>3 DEF LeavesLast
<1> QED  BY <1>4 DEF Fetches, FetchIs, Removing, Launching, Fetching

LEMMA OtherFetches ==
  ASSUME SerialInv, OnlyLeavesOverlap, NEW x \in Caller, Fetching(x),
         NEW c \in Caller, c # x, Fetching(c)
  PROVE  queue = <<>> /\ ready[c] = <<>> /\ pc[c] = "scan"
<1>1. CASE x \in Thread
  BY <1>1, Bystander DEF Fetching, Alive
<1>2. CASE x = Server
  <2>1. c \in Thread /\ Born(c)
    BY <1>2 DEF Caller, Born, Fetching
  <2> QED  BY <1>2, <2>1 DEF SerialInv, ServerFirst, Staging, Fetching, Born
<1> QED  BY <1>1, <1>2 DEF Caller

LEMMA ScanKeeps ==
  ASSUME SerialInv, OnlyLeavesOverlap, NEW c \in Caller, Scan(c)
  PROVE  FetchIs(c)'
<1> USE DEF SerialInv, Serial, OrderInv
<1>0. /\ TypeOK /\ pc[c] = "scan" /\ Fetching(c) /\ queue' = queue
      /\ FreeTasks' = FreeTasks /\ StartedTasks' = StartedTasks
  BY FetchStep DEF Scan, Fetching, Fetch, state
<1>1. /\ IsInjective(ready[c]) /\ ToSet(ready[c]) \cap StartedTasks = {} /\ Collecting(c)
  BY <1>0 DEF Fetches, FetchIs
<1>2. /\ ready[c] \in Seq(Task) /\ queue \in Seq(Task) /\ cursor[c] \in Nat \ {0}
      /\ IsInjective(queue) /\ ToSet(queue) \cap StartedTasks = {}
  BY <1>0 DEF TypeOK, QueueFresh
<1>3. ToSet(ready[c]) = {ready[c][i] : i \in 1 .. Len(ready[c])}
      /\ ToSet(queue) = {queue[i] : i \in 1 .. Len(queue)}
  BY <1>2 DEF ToSet
<1>4. CASE cursor[c] <= Len(queue)
  <2> DEFINE e == queue[cursor[c]]
  <2>1. e \in Task /\ e \in ToSet(queue) /\ (Ready(e) <=> e \in FreeTasks)
    BY <1>2, <1>3, <1>4, ReadyIsFree
  <2>2. pc'[c] = "scan" /\ cursor'[c] = cursor[c] + 1
    BY <1>0, <1>4 DEF Scan, TypeOK
  <2>3. ready'[c] = IF e \in FreeTasks THEN Append(ready[c], e) ELSE ready[c]
    BY <1>0, <1>4, <2>1 DEF Scan, TypeOK
  <2>4. e \notin ToSet(ready[c])
    BY <1>1, <1>2, <1>3, <1>4 DEF Collecting, IsInjective
  <2>5. CASE e \notin FreeTasks
    <3>1. \A i \in 1 .. Len(ready[c]) : \E j \in 1 .. Len(queue) :
              j < cursor'[c] /\ queue[j] = ready[c][i]
      BY <1>1, <1>2, <2>2 DEF Collecting
    <3>2. \A j \in 1 .. Len(queue) :
              j < cursor'[c] /\ queue[j] \in FreeTasks => queue[j] \in ToSet(ready[c])
      BY <1>1, <1>2, <2>2, <2>5 DEF Collecting
    <3>3. Collecting(c)'
      BY <1>0, <2>3, <2>5, <3>1, <3>2 DEF Collecting
    <3> QED  BY <1>0, <1>1, <2>2, <2>3, <2>5, <3>3 DEF FetchIs
  <2>6. CASE e \in FreeTasks
    <3>1. ready'[c] = Append(ready[c], e) /\ IsInjective(ready'[c])
      BY <1>1, <1>2, <2>1, <2>3, <2>4, <2>6, InjectiveAppend
    <3>2. ToSet(ready'[c]) = ToSet(ready[c]) \cup {e}
      BY <1>2, <2>1, <3>1, ToSetOfAppend
    <3>3. /\ Len(ready'[c]) = Len(ready[c]) + 1
          /\ \A i \in 1 .. Len(ready[c]) + 1 :
                ready'[c][i] = IF i <= Len(ready[c]) THEN ready[c][i] ELSE e
      BY <1>2, <2>1, <3>1
    <3>4. \A i \in 1 .. Len(ready'[c]) : \E j \in 1 .. Len(queue) :
              j < cursor'[c] /\ queue[j] = ready'[c][i]
      <4> SUFFICES ASSUME NEW i \in 1 .. Len(ready'[c])
                   PROVE  \E j \in 1 .. Len(queue) : j < cursor'[c] /\ queue[j] = ready'[c][i]
        OBVIOUS
      <4>1. CASE i <= Len(ready[c])
        BY <1>1, <1>2, <2>2, <3>3, <4>1 DEF Collecting
      <4>2. CASE ~(i <= Len(ready[c]))
        <5>1. ready'[c][i] = queue[cursor[c]] /\ cursor[c] < cursor'[c]
              /\ cursor[c] \in 1 .. Len(queue)
          BY <1>2, <1>4, <2>2, <3>3, <4>2
        <5> QED  BY <5>1
      <4> QED  BY <4>1, <4>2
    <3>5. \A j \in 1 .. Len(queue) :
              j < cursor'[c] /\ queue[j] \in FreeTasks => queue[j] \in ToSet(ready'[c])
      BY <1>1, <1>2, <2>2, <3>2 DEF Collecting
    <3>6. Collecting(c)'
      BY <1>0, <3>4, <3>5 DEF Collecting
    <3> QED  BY <1>0, <1>1, <1>2, <2>1, <2>2, <3>1, <3>2, <3>6 DEF FetchIs
  <2> QED  BY <2>5, <2>6
<1>5. CASE ~(cursor[c] <= Len(queue))
  <2>1. ready' = ready /\ cursor'[c] = 1
        /\ pc'[c] = IF ready[c] = <<>> THEN AfterFetch(c) ELSE "remove"
    BY <1>0, <1>5 DEF Scan, Goto, TypeOK
  <2>2. CASE ready[c] = <<>>
    BY <2>1, <2>2 DEF FetchIs, Fetching, AfterFetch
  <2>3. CASE ready[c] # <<>>
    <3>1. ToSet(queue) \cap FreeTasks \subseteq ToSet(ready[c])
      BY <1>1, <1>2, <1>3, <1>5 DEF Collecting
    <3>2. \A i \in 1 .. Len(ready[c]) : ready[c][i] \in ToSet(queue)
      BY <1>1, <1>3 DEF Collecting
    <3>3. Removing(c)'
      BY <1>0, <1>2, <2>1, <2>3, <3>1, <3>2 DEF Removing
    <3> QED  BY <1>0, <1>1, <2>1, <2>3, <3>3 DEF FetchIs
  <2> QED  BY <2>2, <2>3
<1> QED  BY <1>4, <1>5

LEMMA RemoveKeeps ==
  ASSUME SerialInv, OnlyLeavesOverlap, NEW c \in Caller, RemoveFromQueue(c)
  PROVE  FetchIs(c)'
<1> USE DEF SerialInv, Serial, OrderInv
<1>0. /\ TypeOK /\ pc[c] = "remove" /\ Fetching(c) /\ queue' = queue /\ ready' = ready
      /\ FreeTasks' = FreeTasks /\ StartedTasks' = StartedTasks
  BY FetchStep DEF RemoveFromQueue, Fetching, Fetch, state
<1>1. /\ IsInjective(ready[c]) /\ ToSet(ready[c]) \cap StartedTasks = {} /\ Removing(c)
  BY <1>0 DEF Fetches, FetchIs
<1>2. /\ ready[c] \in Seq(Task) /\ queue \in Seq(Task) /\ cursor[c] \in Nat \ {0}
  BY <1>0 DEF TypeOK
<1>3. CASE cursor[c] > Len(ready[c])
  <2>1. pc'[c] = "launch"
    BY <1>0, <1>2, <1>3 DEF RemoveFromQueue, Goto, TypeOK
  <2>2. ASSUME NEW t \in ToSet(queue) \cap FreeTasks PROVE FALSE
    <3>1. PICK i \in 1 .. Len(ready[c]) : t = ready[c][i]
      BY <1>1, <1>2, <2>2 DEF Removing, ToSet
    <3> QED  BY <1>1, <1>2, <1>3, <2>2, <3>1 DEF Removing
  <2>3. Launching(c)'
    BY <1>0, <1>1, <2>2 DEF Launching, Removing
  <2> QED  BY <1>0, <1>1, <2>1, <2>3 DEF FetchIs
<1>4. CASE cursor[c] <= Len(ready[c])
  <2>1. ready[c][cursor[c]] \in ToSet(queue)
    BY <1>1, <1>2, <1>4 DEF Removing
  <2>2. queue # <<>>
    BY <1>2, <2>1, HasElement
  <2>3. pc'[c] = "locate" /\ cursor' = cursor
    BY <1>0, <1>2, <1>4, <2>2 DEF RemoveFromQueue, Goto, TypeOK
  <2>4. Removing(c)'
    BY <1>0, <1>1, <1>4, <2>3 DEF Removing
  <2> QED  BY <1>0, <1>1, <2>3, <2>4 DEF FetchIs
<1> QED  BY <1>2, <1>3, <1>4

LEMMA IndexKeeps ==
  ASSUME SerialInv, OnlyLeavesOverlap, NEW c \in Caller, QueueIndex(c)
  PROVE  FetchIs(c)'
<1> USE DEF SerialInv, Serial, OrderInv
<1>0. /\ TypeOK /\ pc[c] = "locate" /\ Fetching(c) /\ UNCHANGED <<queue, ready, cursor>>
      /\ FreeTasks' = FreeTasks /\ StartedTasks' = StartedTasks
  BY FetchStep DEF QueueIndex, Fetching, Fetch, state
<1>1. /\ IsInjective(ready[c]) /\ ToSet(ready[c]) \cap StartedTasks = {} /\ Removing(c)
  BY <1>0 DEF Fetches, FetchIs
<1>2. /\ ready[c] \in Seq(Task) /\ queue \in Seq(Task) /\ cursor[c] \in Nat \ {0}
  BY <1>0 DEF TypeOK
<1> DEFINE e == ready[c][cursor[c]]
<1>3. e \in ToSet(queue) /\ cursor[c] <= Len(ready[c])
  BY <1>0, <1>1, <1>2 DEF Removing
<1>4. pc'[c] = "pop" /\ position'[c] = PositionIn(queue, e)
  BY <1>0, <1>3 DEF QueueIndex, Goto, TypeOK
<1>5. position'[c] \in 1 .. Len(queue) /\ queue[position'[c]] = e
  BY <1>2, <1>3, <1>4, PositionInType
<1>6. Removing(c)'
  BY <1>0, <1>1, <1>3, <1>5 DEF Removing
<1> QED  BY <1>0, <1>1, <1>4, <1>6 DEF FetchIs

\* The position a fetch holds is that of the task it removes.
LEMMA PopRemoves ==
  ASSUME SerialInv, OnlyLeavesOverlap, NEW c \in Caller, QueuePop(c)
  PROVE  /\ pc'[c] = "remove" /\ cursor'[c] = cursor[c] + 1 /\ cursor[c] <= Len(ready[c])
         /\ ready' = ready /\ IsInjective(queue')
         /\ ToSet(queue') = ToSet(queue) \ {ready[c][cursor[c]]}
<1> USE DEF SerialInv, Serial, OrderInv
<1>0. TypeOK /\ pc[c] = "pop"
  BY DEF QueuePop
<1>1. Removing(c)
  BY <1>0 DEF Fetches, FetchIs, Fetching
<1>2. /\ position[c] \in 1 .. Len(queue) /\ queue[position[c]] = ready[c][cursor[c]]
      /\ cursor[c] <= Len(ready[c])
  BY <1>0, <1>1 DEF Removing
<1>3. queue' = RemoveAt(queue, position[c])
  BY <1>2 DEF QueuePop, Popped
<1>4. IsInjective(queue') /\ ToSet(queue') = ToSet(queue) \ {ready[c][cursor[c]]}
  <2>1. queue \in Seq(Task) /\ IsInjective(queue)
    BY DEF TypeOK, QueueFresh
  <2> QED  BY <1>2, <1>3, <2>1, RemoveAtInjective
<1>5. pc'[c] = "remove" /\ cursor'[c] = cursor[c] + 1 /\ ready' = ready
  BY <1>0, <1>2 DEF QueuePop, Goto, TypeOK
<1> QED  BY <1>2, <1>4, <1>5

LEMMA PopKeeps ==
  ASSUME SerialInv, OnlyLeavesOverlap, NEW c \in Caller, QueuePop(c)
  PROVE  FetchIs(c)'
<1> USE DEF SerialInv, Serial, OrderInv
<1>0. /\ TypeOK /\ pc[c] = "pop" /\ Fetching(c)
      /\ FreeTasks' = FreeTasks /\ StartedTasks' = StartedTasks
  BY FetchStep DEF QueuePop, Fetching, Fetch
<1>1. /\ IsInjective(ready[c]) /\ ToSet(ready[c]) \cap StartedTasks = {} /\ Removing(c)
  BY <1>0 DEF Fetches, FetchIs
<1>2. /\ ready[c] \in Seq(Task) /\ cursor[c] \in Nat \ {0}
  BY <1>0 DEF TypeOK
<1>3. /\ pc'[c] = "remove" /\ cursor'[c] = cursor[c] + 1 /\ cursor[c] <= Len(ready[c])
      /\ ready' = ready /\ ToSet(queue') = ToSet(queue) \ {ready[c][cursor[c]]}
  BY PopRemoves
<1>4. \A i \in 1 .. Len(ready[c]) : i >= cursor[c] + 1 <=> ready[c][i] \in ToSet(queue')
  <2> SUFFICES ASSUME NEW i \in 1 .. Len(ready[c])
               PROVE  i >= cursor[c] + 1 <=> ready[c][i] \in ToSet(queue')
    OBVIOUS
  <2>1. i >= cursor[c] <=> ready[c][i] \in ToSet(queue)
    BY <1>1 DEF Removing
  <2>2. ready[c][i] = ready[c][cursor[c]] <=> i = cursor[c]
    BY <1>1, <1>2, <1>3 DEF IsInjective
  <2> QED  BY <1>2, <1>3, <2>1, <2>2
<1>5. ToSet(queue') \cap FreeTasks \subseteq ToSet(ready[c])
  BY <1>1, <1>3 DEF Removing
<1>6. Removing(c)'
  BY <1>0, <1>1, <1>3, <1>4, <1>5 DEF Removing
<1> QED  BY <1>0, <1>1, <1>3, <1>6 DEF FetchIs

LEMMA SerialFetch ==
  ASSUME SerialInv, OnlyLeavesOverlap, [Next]_vars, NEW c \in Caller, Fetch(c)
  PROVE  Serial'
<1> USE DEF SerialInv
<1>0. TypeOK /\ TypeOK' /\ Serial /\ InnerTasks' = InnerTasks
  BY TypeNext, GraphFixed DEF OrderInv
<1>1. /\ Fetching(c) /\ StartedTasks' = StartedTasks
      /\ \A other \in Caller \ {c} : pc'[other] = pc[other] /\ ready'[other] = ready[other]
  BY <1>0, FetchStep
<1>2. queue = <<>> => queue' = <<>>
  BY <1>0, FetchQueue
<1>3. Fetches'
  <2>1. FetchIs(c)'
    BY ScanKeeps, RemoveKeeps, IndexKeeps, PopKeeps DEF Fetch
  <2>2. ASSUME NEW other \in Caller \ {c}, Fetching(other)'
        PROVE  FetchIs(other)'
    <3>1. Fetching(other)
      BY <1>1, <2>2 DEF Fetching
    <3>2. queue = <<>> /\ ready[other] = <<>> /\ pc[other] = "scan"
      BY <1>1, <3>1, OtherFetches
    <3> QED  BY <1>0, <1>1, <1>2, <3>2, EmptyFetch
  <2> QED  BY <2>1, <2>2 DEF Fetches, FetchIs
<1>4. QueueFresh'
  <2>1. CASE QueuePop(c)
    <3>1. IsInjective(queue') /\ ToSet(queue') \subseteq ToSet(queue)
      BY <2>1, PopRemoves
    <3> QED  BY <1>0, <1>1, <3>1 DEF QueueFresh, Serial
  <2>2. CASE ~QueuePop(c)
    <3>1. queue' = queue
      BY <2>2 DEF Fetch, Scan, RemoveFromQueue, QueueIndex, state
    <3> QED  BY <1>0, <1>1, <3>1 DEF QueueFresh, Serial
  <2> QED  BY <2>1, <2>2
<1>5. ASSUME NEW self \in Thread
      PROVE  (Born(self)' <=> Born(self)) /\ (Alive(self)' => Alive(self))
  BY <1>0, FetchMoves DEF Born, Alive, Caller
<1>6. Once' /\ Alone'
  BY <1>0, <1>5 DEF Once, Alone, Serial
<1>7. LeavesLast'
  <2> SUFFICES ASSUME NEW self \in Thread, Born(self)', TaskOf(self) \notin InnerTasks'
               PROVE  queue' = <<>> /\ \A x \in Caller : Fetching(x)' => ready'[x] = <<>>
    BY DEF LeavesLast
  <2>1. queue = <<>> /\ \A x \in Caller : Fetching(x) => ready[x] = <<>>
    BY <1>0, <1>5 DEF LeavesLast, Serial
  <2>2. ASSUME NEW x \in Caller, Fetching(x)' PROVE ready'[x] = <<>>
    <3>1. Fetching(x)
      BY <1>1, <2>2 DEF Fetching
    <3>2. \/ ready'[x] = ready[x] \/ ready'[x] = <<>> \/ \E t \in ToSet(queue) : TRUE
      BY <1>0, ReadyChanges
    <3> QED  BY <2>1, <3>1, <3>2 DEF ToSet
  <2> QED  BY <1>2, <2>1, <2>2
<1> QED  BY <1>3, <1>4, <1>6, <1>7 DEF Serial

LEMMA SerialOwn ==
  ASSUME SerialInv, OnlyLeavesOverlap, [Next]_vars,
         NEW self \in Thread, Step(self), ~Fetch(self), ~Launch(self)
  PROVE  Serial'
<1> USE DEF SerialInv
<1>0. TypeOK /\ TypeOK' /\ Serial /\ InnerTasks' = InnerTasks
  BY TypeNext, GraphFixed DEF OrderInv
<1>1. /\ UNCHANGED <<queue, ready, cursor, position>>
      /\ \A other \in Caller \ {self} : pc'[other] = pc[other]
      /\ Born(self) /\ Alive(self) /\ Born(self)'
      /\ Fetching(self)' => pc[self] = "check" /\ pc'[self] = "scan"
  BY <1>0, OwnStep DEF Fetching, Born
<1>2. self \in Caller
  BY DEF Caller
<1>3. ASSUME NEW other \in Thread
      PROVE  (Born(other)' <=> Born(other)) /\ (Alive(other)' => Alive(other))
  BY <1>1 DEF Born, Alive, Caller
<1>4. StartedTasks' = StartedTasks
  <2>1. \A t \in Task, n \in 1 .. MaxStarts : <<t, n>> \in Thread
    BY DEF Thread
  <2> QED  BY <1>3, <2>1 DEF StartedTasks, Started, Born
<1>5. Fetching(self)' => pc'[self] = "scan" /\ ready[self] = <<>> /\ cursor[self] = 1
  BY <1>1, <1>2 DEF NothingReady
<1>6. Fetches'
  <2>1. FetchIs(self)'
    <3>1. CASE Fetching(self)'
      BY <1>0, <1>1, <1>2, <1>5, <3>1, EmptyFetch
    <3>2. CASE ~Fetching(self)'
      BY <3>2 DEF FetchIs
    <3> QED  BY <3>1, <3>2
  <2>2. ASSUME NEW other \in Caller \ {self}, Fetching(other)'
        PROVE  FetchIs(other)'
    <3>1. Fetching(other)
      BY <1>1, <2>2 DEF Fetching
    <3>2. queue = <<>> /\ ready[other] = <<>> /\ pc[other] = "scan"
      BY <1>1, <3>1, Bystander
    <3> QED  BY <1>0, <1>1, <3>2, EmptyFetch
  <2> QED  BY <2>1, <2>2 DEF Fetches, FetchIs
<1>7. QueueFresh' /\ Once' /\ Alone'
  BY <1>0, <1>1, <1>3, <1>4 DEF QueueFresh, Once, Alone, Serial
<1>8. ASSUME NEW x \in Caller, Fetching(x)', Fetching(x) => ready[x] = <<>>
      PROVE  ready'[x] = <<>>
  BY <1>1, <1>5, <1>8 DEF Fetching
<1>9. LeavesLast'
  BY <1>0, <1>1, <1>3, <1>8 DEF LeavesLast, Serial
<1> QED  BY <1>6, <1>7, <1>9 DEF Serial

LEMMA SerialServer ==
  ASSUME SerialInv, OnlyLeavesOverlap, [Next]_vars, ServerStep
  PROVE  Serial'
<1> USE DEF SerialInv
<1>0. /\ TypeOK /\ TypeOK' /\ Serial /\ InnerTasks' = InnerTasks
      /\ Server \in Caller /\ Server \notin Thread
  BY TypeNext, GraphFixed, ServerAssumption DEF OrderInv, Caller
<1>1. /\ UNCHANGED <<ready, cursor, position>> /\ \A self \in Thread : pc'[self] = pc[self]
      /\ \A self \in Thread : ~Alive(self)
      /\ \/ queue' = queue
         \/ queue' = graph.tasks /\ \A self \in Thread : ~Born(self)
      /\ \/ pc'[Server] \in {"join", "joined"}
         \/ pc[Server] = "submitted" /\ pc'[Server] = "scan"
  BY <1>0, NobodyFetches
<1>2. ASSUME NEW self \in Thread
      PROVE  (Born(self)' <=> Born(self)) /\ ~Alive(self)'
  BY <1>1 DEF Born, Alive
<1>3. StartedTasks' = StartedTasks
  <2>1. \A t \in Task, n \in 1 .. MaxStarts : <<t, n>> \in Thread
    BY DEF Thread
  <2> QED  BY <1>1, <2>1 DEF StartedTasks, Started
<1>4. ASSUME NEW c \in Caller, Fetching(c)'
      PROVE  c = Server /\ pc'[c] = "scan" /\ ready'[c] = <<>> /\ cursor'[c] = 1
  <2>1. c = Server
    BY <1>2, <1>4 DEF Alive, Fetching, Caller
  <2>2. pc[c] = "submitted" /\ pc'[c] = "scan"
    BY <1>1, <1>4, <2>1 DEF Fetching
  <2> QED  BY <1>0, <1>1, <2>1, <2>2 DEF NothingReady
<1>5. Fetches'
  <2>1. ASSUME NEW c \in Caller, Fetching(c)' PROVE FetchIs(c)'
    BY <1>0, <1>4, <2>1, EmptyFetch
  <2> QED  BY <2>1 DEF Fetches, FetchIs
<1>6. QueueFresh'
  <2>1. CASE queue' = queue
    BY <1>0, <1>3, <2>1 DEF QueueFresh, Serial
  <2>2. CASE queue' = graph.tasks /\ \A self \in Thread : ~Born(self)
    <3>1. IsInjective(graph.tasks)
      BY <1>0, GraphType DEF Pipeline
    <3>2. StartedTasks = {}
      BY <2>2 DEF StartedTasks, Started, Born, Thread
    <3> QED  BY <1>3, <2>2, <3>1, <3>2 DEF QueueFresh
  <2> QED  BY <1>1, <2>1, <2>2
<1>7. Once' /\ Alone'
  BY <1>0, <1>2 DEF Once, Alone, Serial
<1>8. LeavesLast'
  BY <1>0, <1>1, <1>2, <1>4 DEF LeavesLast, Serial
<1> QED  BY <1>5, <1>6, <1>7, <1>8 DEF Serial

\* A launch leaves the threads it starts alone in the run, and nobody fetching.
LEMMA LaunchAlone ==
  ASSUME SerialInv, OnlyLeavesOverlap, NEW c \in Caller, StartThreads(c)
  PROVE  /\ Launching(c) /\ ~InvalidDependencies(graph)
         /\ ToSet(ready[c]) \subseteq Tasks \cap FreeTasks
         /\ ToSet(ready[c]) \cap StartedTasks = {}
         /\ c = Server \/ TaskOf(c) \in InnerTasks
         /\ \A other \in Thread : other # c => ~Alive(other)
         /\ \A x \in Caller : ~Fetching(x)'
<1> USE DEF SerialInv, Serial
<1>0. TypeOK /\ pc[c] = "launch" /\ Fetching(c) /\ Server \in Caller /\ Server \notin Thread
  BY StartStep, ServerAssumption DEF OrderInv, Fetching, Caller
<1>1. Launching(c) /\ ToSet(ready[c]) \cap StartedTasks = {}
  BY <1>0 DEF Fetches, FetchIs
<1>2. ~InvalidDependencies(graph) /\ ToSet(ready[c]) \subseteq Tasks
  BY <1>1 DEF Launching, Accepted, OfPipeline
<1>3. ToSet(ready[c]) \subseteq FreeTasks
  BY <1>0, <1>2, GraphType DEF OrderInv, ReadyInOrder, FreeTasks
<1>4. c = Server \/ (Born(c) /\ Alive(c) /\ TaskOf(c) \in InnerTasks)
  <2>1. CASE c \in Thread
    <3>1. Born(c) /\ Alive(c)
      BY <1>0 DEF Born, Alive
    <3>2. TaskOf(c) \in InnerTasks
      BY <1>0, <1>1, <2>1, <3>1 DEF LeavesLast, Launching
    <3> QED  BY <3>1, <3>2
  <2> QED  BY <2>1 DEF Caller
<1>5. ASSUME NEW other \in Thread, other # c PROVE ~Alive(other)
  <2>1. CASE c = Server
    BY <1>0, <2>1 DEF ServerFirst, Staging, Alive
  <2>2. CASE c \in Thread
    BY <1>0, <1>4, <1>5, <2>2 DEF Alone
  <2> QED  BY <2>1, <2>2 DEF Caller
<1>6. ASSUME NEW x \in Caller, Fetching(x)' PROVE FALSE
  <2>1. x # c
    BY <1>0, <1>6, StartStep DEF Fetching, AfterFetch
  <2>2. Fetching(x)
    BY <1>0, <1>6, <2>1, StartStep DEF Fetching
  <2>3. x = Server
    BY <1>5, <2>1, <2>2 DEF Alive, Fetching, Caller
  <2>4. c \in Thread /\ Born(c)
    BY <1>4, <2>1, <2>3 DEF Caller
  <2> QED  BY <2>2, <2>3, <2>4 DEF ServerFirst, Staging, Fetching, Born
<1> QED  BY <1>1, <1>2, <1>3, <1>4, <1>5, <1>6

\* The threads it starts are the first of their tasks.
LEMMA Newborns ==
  ASSUME SerialInv, OnlyLeavesOverlap, NEW c \in Caller, StartThreads(c), NEW self \in Thread
  PROVE  /\ Born(self) => Born(self)' /\ ~Alive(self)'
         /\ ~Born(self) /\ Born(self)' =>
                TaskOf(self) \in ToSet(ready[c]) /\ self = <<TaskOf(self), 1>>
<1>0. TypeOK /\ self \in Caller /\ Server \notin Thread
  BY ServerAssumption DEF SerialInv, OrderInv, Caller
<1>1. CASE self = c
  BY <1>0, <1>1, StartStep DEF Born, Alive, AfterFetch
<1>2. CASE self # c
  <2>1. \/ pc'[self] = pc[self]
        \/ /\ pc[self] = "unborn" /\ TaskOf(self) \in ToSet(ready[c])
           /\ \A n \in 1 .. self[2] - 1 : pc[<<self[1], n>>] # "unborn"
    BY <1>0, <1>2, StartStep
  <2>2. CASE pc'[self] = pc[self]
    BY <1>2, <2>2, LaunchAlone DEF Born, Alive
  <2>3. CASE /\ pc[self] = "unborn" /\ TaskOf(self) \in ToSet(ready[c])
             /\ \A n \in 1 .. self[2] - 1 : pc[<<self[1], n>>] # "unborn"
    <3>1. self = <<TaskOf(self), self[2]>> /\ TaskOf(self) \in Task /\ self[2] \in 1 .. MaxStarts
      BY DEF Thread, TaskOf
    <3>2. TaskOf(self) \notin StartedTasks
      BY <2>3, LaunchAlone
    <3>3. pc[<<TaskOf(self), 1>>] = "unborn"
      BY <3>1, <3>2, MaxStartsAssumption DEF StartedTasks, Started
    <3>4. self[2] = 1
      BY <2>3, <3>1, <3>3 DEF TaskOf
    <3> QED  BY <2>3, <3>1, <3>4 DEF Born
  <2> QED  BY <2>1, <2>2, <2>3
<1> QED  BY <1>1, <1>2

LEMMA SerialStart ==
  ASSUME SerialInv, OnlyLeavesOverlap, [Next]_vars, NEW c \in Caller, StartThreads(c)
  PROVE  Serial'
<1> USE DEF SerialInv
<1>0. TypeOK /\ Serial /\ InnerTasks' = InnerTasks /\ queue \in Seq(Task) /\ queue' = queue
  BY GraphFixed, StartStep DEF OrderInv, TypeOK
<1>1. /\ ToSet(queue) \cap FreeTasks = {} /\ ~InvalidDependencies(graph)
      /\ ToSet(ready[c]) \subseteq Tasks \cap FreeTasks
      /\ ToSet(ready[c]) \cap StartedTasks = {}
      /\ \A x \in Caller : ~Fetching(x)'
  BY LaunchAlone DEF Launching
<1>2. Fetches'
  BY <1>1 DEF Fetches, FetchIs
<1>3. QueueFresh'
  <2>1. StartedTasks' \subseteq StartedTasks \cup ToSet(ready[c])
    <3> SUFFICES ASSUME NEW t \in Task, NEW n \in 1 .. MaxStarts, pc'[<<t, n>>] # "unborn",
                        pc[<<t, n>>] = "unborn"
                 PROVE  t \in ToSet(ready[c])
      BY DEF StartedTasks, Started
    <3>1. <<t, n>> \in Thread /\ TaskOf(<<t, n>>) = t
      BY DEF Thread, TaskOf
    <3> QED  BY <3>1, Newborns DEF Born
  <2> QED  BY <1>0, <1>1, <2>1 DEF QueueFresh, Serial
<1>4. Once'
  BY <1>0, Newborns DEF Once, Serial
<1>5. Alone'
  <2> SUFFICES ASSUME NEW self \in Thread, NEW other \in Thread, self # other,
                      Alive(self)', Alive(other)'
               PROVE  TaskOf(self) \notin InnerTasks
    BY <1>0 DEF Alone
  <2>1. Born(self)' /\ ~Born(self) /\ Born(other)' /\ ~Born(other)
    BY Newborns DEF Born, Alive
  <2> DEFINE t == TaskOf(self)
             u == TaskOf(other)
  <2>2. /\ t \in ToSet(ready[c]) /\ self = <<t, 1>>
        /\ u \in ToSet(ready[c]) /\ other = <<u, 1>>
    BY <2>1, Newborns
  <2>3. t # u /\ t \notin DoneTasks /\ u \notin DoneTasks
    BY <1>1, <2>2 DEF FinishedInOrder
  <2>4. t \in FreeTasks \cap Tasks /\ u \in FreeTasks \cap Tasks
    BY <1>1, <2>2
  <2> HIDE DEF t, u
  <2> QED  BY <1>0, <2>3, <2>4, FreeTogether DEF t
<1>6. ASSUME NEW self \in Thread, Born(self)', TaskOf(self) \notin InnerTasks
      PROVE  queue = <<>>
  <2>1. CASE Born(self)
    BY <1>0, <1>6, <2>1 DEF LeavesLast, Serial
  <2>2. CASE ~Born(self)
    <3>1. TaskOf(self) \in FreeTasks \cap Tasks
      BY <1>1, <1>6, <2>2, Newborns
    <3>2. Tasks \subseteq FreeTasks
      BY <1>0, <1>1, <1>6, <3>1, LeafFreesAll
    <3>3. ToSet(queue) = {}
      BY <1>1, <3>2 DEF OfPipeline
    <3>4. queue # <<>> => queue[1] \in ToSet(queue)
      BY <1>0 DEF ToSet
    <3> QED  BY <3>3, <3>4
  <2> QED  BY <2>1, <2>2
<1>7. LeavesLast'
  BY <1>0, <1>1, <1>6 DEF LeavesLast
<1> QED  BY <1>2, <1>3, <1>4, <1>5, <1>7 DEF Serial

LEMMA SerialInit == Init => SerialInv
<1> SUFFICES ASSUME Init PROVE SerialInv
  OBVIOUS
<1>1. /\ pc[Server] = "submitted" /\ queue = <<>>
      /\ \A c \in Caller : ready[c] = <<>> /\ cursor[c] = 1
      /\ \A self \in Thread : pc[self] = "unborn"
      /\ \A t \in Task : finished[t] = 0
  BY ServerAssumption DEF Init, Caller
<1>2. \A c \in Caller : ~Fetching(c)
  BY <1>1 DEF Fetching, Caller
<1>3. ToSet(queue) = {} /\ (\A c \in Caller : ToSet(ready[c]) = {}) /\ DoneTasks = {}
  BY <1>1 DEF ToSet, DoneTasks
<1>4. ServerFirst /\ Accepted /\ OfPipeline /\ FinishedInOrder /\ NothingReady
  BY <1>1, <1>3 DEF ServerFirst, Accepted, OfPipeline, FinishedInOrder, NothingReady, Born
<1>5. IsInjective(queue)
  BY <1>1 DEF IsInjective
<1>6. Serial
  BY <1>1, <1>2, <1>3, <1>5
  DEF Serial, Fetches, FetchIs, QueueFresh, Once, Alone, LeavesLast, Born, Alive
<1> QED  BY <1>4, <1>6, OrderInit DEF SerialInv

LEMMA SerialNext == SerialInv /\ [Next]_vars => SerialInv'
<1> SUFFICES ASSUME SerialInv, [Next]_vars PROVE SerialInv'
  OBVIOUS
<1>1. TypeOK /\ OrderInv' /\ OnlyLeavesOverlap' = OnlyLeavesOverlap
  BY OrderNext, GraphFixed DEF SerialInv, OrderInv
<1>2. ServerFirst' /\ Accepted' /\ OfPipeline' /\ FinishedInOrder' /\ NothingReady'
  BY <1>1, ServerFirstNext, AcceptedNext, FinishedInOrderNext, NothingReadyNext DEF SerialInv
<1>3. ASSUME OnlyLeavesOverlap, UNCHANGED vars PROVE Serial'
  BY <1>3
  DEF SerialInv, Serial, vars, state, locals, Fetches, FetchIs, Collecting, Removing, Launching,
      QueueFresh, Once, Alone, LeavesLast, Fetching, Born, Alive, StartedTasks, Started,
      FreeTasks, DependenciesFinished, InnerTasks, graph
<1>4. ASSUME OnlyLeavesOverlap PROVE Serial'
  BY <1>3, <1>4, StepKinds, SerialServer, SerialFetch, SerialStart, SerialOwn
<1> QED  BY <1>1, <1>2, <1>4 DEF SerialInv

\* In a workflow in which only leaves run side by side no task is started
\* twice, although queue and ready lists are shared without a lock: a thread
\* that fetches something is the only one alive, and before the first leaf is
\* started the queue is empty (_fetch_ready_tasks, _remove_from_queue).
THEOREM StartsOnce == Spec => []StartedOnce
<1>1. SerialInv => StartedOnce
  BY DEF SerialInv, Serial, Once, Born, StartedOnce
<1> QED  BY <1>1, SerialInit, SerialNext, PTL DEF Spec
-----------------------------------------------------------------------------
(***************************************************************************)
(* What becomes of the tasks of such a workflow                            *)
(***************************************************************************)
BeforeFinish ==
    {"begin", "announce", "announcing", "execute", "executing", "store",
     "report", "reporting", "finish"}
Executions == {"announce", "announcing", "execute", "executing", "store"}

Unfinished == \A self \in Thread : pc[self] \in BeforeFinish => finished[TaskOf(self)] = 0

\* When a task is started, the threads of its dependencies have ended.
ParentsOver ==
    \A t \in StartedTasks, self \in Thread :
        TaskOf(self) \in DependencyIds(graph, t) => ~Alive(self)

\* The lists agree with what the thread of the task has found out.
Recorded ==
    \A t \in succeeded \cup failed \cup skipped :
        /\ pc[<<t, 1>>] \notin BeforeFinish \cup {"unborn", "record"}
        /\ t \in succeeded => result[<<t, 1>>] = "completed"
        /\ t \in failed => result[<<t, 1>>] = "failed"

\* From the moment a thread knows of a failure nobody permits, it is alone, and
\* it will not fetch the dependents.
FailureStops ==
    \A self \in Thread : FailsRun(self) /\ TaskOf(self) \in InnerTasks =>
        /\ Born(self) /\ ~Fetching(self)
        /\ Children(graph, TaskOf(self)) \cap StartedTasks = {}
        /\ \A other \in Thread : other # self => ~Alive(other)

\* No dependency of a task is skipped after the task has looked.
SkipsSeen ==
    /\ \A t \in Task : Executed(t) => t \in StartedTasks /\ ~SkippedByDependency(t)
    /\ \A self \in Thread : pc[self] \in Executions => ~SkippedByDependency(TaskOf(self))

\* Two merges of outputs may overwrite each other, but only those of leaves.
OutputsKept ==
    \A self \in Thread :
        /\ result[self] = "completed" /\ pc[self] # "store" /\ TaskOf(self) \in InnerTasks
               => TaskOf(self) \in output
        /\ pc[self] = "store" =>
               \A t \in InnerTasks : t \in snapshot[self] <=> t \in output \/ t = TaskOf(self)

Fates ==
    Unfinished /\ ParentsOver /\ Recorded /\ FailureStops /\ SkipsSeen /\ OutputsKept

FatesInv == SerialInv /\ (OnlyLeavesOverlap => Fates)

LEMMA ThreadOfTask ==
  ASSUME NEW self \in Thread
  PROVE  TaskOf(self) \in Task /\ self = <<TaskOf(self), self[2]>> /\ self[2] \in 1 .. MaxStarts
  BY DEF Thread, TaskOf

LEMMA FirstThread ==
  ASSUME NEW t \in Task
  PROVE  <<t, 1>> \in Thread /\ TaskOf(<<t, 1>>) = t
  BY MaxStartsAssumption DEF Thread, TaskOf

LEMMA OnlyThread ==
  ASSUME Once, NEW self \in Thread, Born(self)
  PROVE  self = <<TaskOf(self), 1>> /\ TaskOf(self) \in StartedTasks
  BY ThreadOfTask DEF Once, Born, StartedTasks, Started

\* The properties of the graph do not change.
LEMMA GraphOperators ==
  ASSUME TypeOK, [Next]_vars
  PROVE  /\ \A self \in Thread : FailsRun(self)' <=>
                result'[self] = "failed" /\ ~CanFail(graph, TaskOf(self))
         /\ \A t \in Task : Children(graph, t)' = Children(graph, t)
         /\ \A t \in Task : DependencyIds(graph, t)' = DependencyIds(graph, t)
<1>1. graph' = graph
  BY GraphFixed
<1> QED  BY <1>1 DEF FailsRun, CanFail, Children, DependencyIds

\* Steps after which every thread is where it was, or further in its fetch.
Records == <<finished, succeeded, failed, skipped, output, reported, result, snapshot>>

LEMMA FatesElsewhere ==
  ASSUME SerialInv, Fates, [Next]_vars, UNCHANGED Records,
         \A self \in Thread :
            \/ pc'[self] = pc[self]
            \/ Fetching(self) /\ (Fetching(self)' \/ pc'[self] \in Idle)
  PROVE  Fates'
<1> USE DEF Records
<1>0. /\ TypeOK /\ graph' = graph /\ InnerTasks' = InnerTasks
      /\ \A self \in Thread : FailsRun(self)' <=> FailsRun(self)
      /\ \A t \in Task : Children(graph, t)' = Children(graph, t)
      /\ \A t \in Task : DependencyIds(graph, t)' = DependencyIds(graph, t)
  BY GraphFixed, GraphOperators DEF SerialInv, OrderInv, FailsRun
<1>1. ASSUME NEW self \in Thread
      PROVE  /\ Born(self)' <=> Born(self)
             /\ Alive(self)' => Alive(self)
             /\ Fetching(self)' => Fetching(self)
             /\ pc'[self] \in BeforeFinish \cup {"unborn", "record"} => pc'[self] = pc[self]
             /\ pc[self] \in BeforeFinish \cup {"unborn", "record"} => pc'[self] = pc[self]
  BY DEF Born, Alive, Fetching, Idle, BeforeFinish
<1>2. StartedTasks' = StartedTasks
  <2>1. \A t \in Task, n \in 1 .. MaxStarts : <<t, n>> \in Thread
    BY DEF Thread
  <2> QED  BY <1>1, <2>1 DEF StartedTasks, Started, Born
<1>3. Unfinished'
  BY <1>1 DEF Fates, Unfinished
<1>4. ParentsOver'
  BY <1>0, <1>1, <1>2 DEF Fates, ParentsOver, StartedTasks
<1>5. Recorded'
  <2>1. succeeded \cup failed \cup skipped \subseteq Task
    BY <1>0 DEF TypeOK
  <2>2. \A t \in succeeded \cup failed \cup skipped : <<t, 1>> \in Thread
    BY <2>1, FirstThread
  <2> QED  BY <1>1, <2>2 DEF Fates, Recorded
<1>6. FailureStops'
  BY <1>0, <1>1, <1>2, ThreadOfTask DEF Fates, FailureStops
<1>7. SkipsSeen'
  BY <1>0, <1>1, <1>2 DEF Fates, SkipsSeen, Executed, SkippedByDependency, Executions, BeforeFinish
<1>8. OutputsKept'
  BY <1>0, <1>1 DEF Fates, OutputsKept, BeforeFinish
<1> QED  BY <1>3, <1>4, <1>5, <1>6, <1>7, <1>8 DEF Fates

LEMMA RecordsFixed ==
  ASSUME NEW c \in Caller, Fetch(c) \/ StartThreads(c) \/ ServerStep
  PROVE  UNCHANGED Records
  BY DEF Records, Fetch, Scan, RemoveFromQueue, QueueIndex, QueuePop, StartThreads, ServerStep,
     StartUnbuildable, StartRejected, StartInvalidArgs, StartRun, Join, state, exchange, locals

LEMMA FatesFetch ==
  ASSUME SerialInv, Fates, [Next]_vars, NEW c \in Caller, Fetch(c)
  PROVE  Fates'
<1>1. UNCHANGED Records
  BY RecordsFixed
<1>2. ASSUME NEW self \in Thread
      PROVE  pc'[self] = pc[self] \/ (Fetching(self) /\ (Fetching(self)' \/ pc'[self] \in Idle))
  BY FetchStep DEF SerialInv, OrderInv, Fetching, Caller
<1> QED  BY <1>1, <1>2, FatesElsewhere

LEMMA FatesServer ==
  ASSUME SerialInv, Fates, [Next]_vars, ServerStep
  PROVE  Fates'
<1>1. UNCHANGED Records
  BY RecordsFixed DEF Caller
<1>2. \A self \in Thread : pc'[self] = pc[self]
  BY NobodyFetches DEF SerialInv, OrderInv
<1> QED  BY <1>1, <1>2, FatesElsewhere

LEMMA FatesStart ==
  ASSUME SerialInv, OnlyLeavesOverlap, Fates, [Next]_vars, NEW c \in Caller, StartThreads(c)
  PROVE  Fates'
<1> USE DEF SerialInv
<1>0. /\ TypeOK /\ OrderInv' /\ Once /\ graph' = graph /\ InnerTasks' = InnerTasks
      /\ UNCHANGED Records /\ StartedTasks \subseteq StartedTasks'
      /\ \A self \in Thread : FailsRun(self)' <=> FailsRun(self)
      /\ \A t \in Task : DependencyIds(graph, t)' = DependencyIds(graph, t)
  BY GraphFixed, GraphOperators, OrderNext, RecordsFixed DEF OrderInv, FailsRun, Records, Serial
<1>1. ASSUME NEW self \in Thread
      PROVE  \/ pc'[self] = pc[self]
             \/ self = c /\ pc[self] = "launch" /\ pc'[self] = "ended"
             \/ /\ pc[self] = "unborn" /\ pc'[self] = "begin"
                /\ TaskOf(self) \notin StartedTasks /\ TaskOf(self) \notin DoneTasks
  <2>1. c \in Thread => AfterFetch(c) = "ended"
    BY ServerAssumption DEF AfterFetch
  <2>2. ToSet(ready[c]) \cap StartedTasks = {} /\ DoneTasks \subseteq StartedTasks
    BY LaunchAlone DEF FinishedInOrder
  <2> QED  BY <1>0, <2>1, <2>2, StartStep DEF Caller
<1>2. DoneTasks' = DoneTasks /\ \A t \in Task : t \notin DoneTasks => finished[t] = 0
  BY <1>0 DEF Records, DoneTasks, TypeOK
<1>3. Unfinished'
  BY <1>0, <1>1, <1>2, ThreadOfTask DEF Fates, Unfinished, BeforeFinish, Records
<1>4. ParentsOver'
  <2> SUFFICES ASSUME NEW t \in Task, t \in StartedTasks', NEW self \in Thread,
                      TaskOf(self) \in DependencyIds(graph, t), Alive(self)'
               PROVE  FALSE
    BY <1>0 DEF ParentsOver, StartedTasks
  <2>1. TaskOf(self) \in DoneTasks
    <3>1. PICK n \in 1 .. MaxStarts : pc'[<<t, n>>] # "unborn"
      BY DEF StartedTasks, Started
    <3>2. <<t, n>> \in Thread /\ TaskOf(<<t, n>>) = t
      BY DEF Thread, TaskOf
    <3>3. \A d \in graph.depends_on[t] : finished'[d.id] > 0
      BY <1>0, <3>1, <3>2 DEF OrderInv, DependencyOrder
    <3> QED  BY <1>2, <3>3, ThreadOfTask DEF DependencyIds, DoneTasks
  <2>2. ~Born(self) /\ Born(self)'
    BY Newborns DEF Born, Alive
  <2> QED  BY <1>1, <2>1, <2>2 DEF Born
<1>5. Recorded'
  <2>1. succeeded \cup failed \cup skipped \subseteq Task
    BY <1>0 DEF TypeOK
  <2>2. \A t \in succeeded \cup failed \cup skipped : <<t, 1>> \in Thread
    BY <2>1, FirstThread
  <2> QED  BY <1>0, <1>1, <2>2 DEF Fates, Recorded, Records, BeforeFinish
<1>6. FailureStops'
  <2> SUFFICES ASSUME NEW self \in Thread, FailsRun(self), TaskOf(self) \in InnerTasks
               PROVE  FALSE
    BY <1>0 DEF FailureStops
  <2>1. Born(self) /\ ~Fetching(self) /\ \A other \in Thread : other # self => ~Alive(other)
    BY DEF Fates, FailureStops
  <2>2. pc[c] = "launch"
    BY <1>0, StartStep
  <2>3. c # self /\ c \notin Thread
    BY <2>1, <2>2 DEF Fetching, Alive
  <2> QED  BY <2>1, <2>2, <2>3 DEF ServerFirst, Staging, Born, Caller
<1>7. SkipsSeen'
  BY <1>0, <1>1 DEF Fates, SkipsSeen, Executed, SkippedByDependency, Executions, Records
<1>8. OutputsKept'
  BY <1>0, <1>1 DEF Fates, OutputsKept, Records
<1> QED  BY <1>3, <1>4, <1>5, <1>6, <1>7, <1>8 DEF Fates

\* A thread whose handover is lost ends like one that had nothing to hand over.
LEMMA FatesLost ==
  ASSUME SerialInv, Fates, [Next]_vars, NEW self \in Thread, LaunchLost(self)
  PROVE  Fates'
<1>1. TypeOK
  BY DEF SerialInv, OrderInv
<1>2. UNCHANGED Records
  BY DEF LaunchLost, Records, state, exchange, locals
<1>3. ASSUME NEW other \in Thread
      PROVE  pc'[other] = pc[other] \/ (Fetching(other) /\ (Fetching(other)' \/ pc'[other] \in Idle))
  BY <1>1 DEF LaunchLost, Goto, TypeOK, Caller, Fetching, Idle
<1> QED  BY <1>2, <1>3, FatesElsewhere

\* A step of a thread that is not a fetch, and what it leaves behind.
LEMMA FatesOwn ==
  ASSUME SerialInv, OnlyLeavesOverlap, Fates, [Next]_vars,
         NEW self \in Thread, Step(self), ~Fetch(self), ~Launch(self), ~LaunchLost(self)
  PROVE  Fates'
<1> USE DEF SerialInv
<1>0. /\ TypeOK /\ OrderInv /\ Once /\ Alone /\ graph' = graph /\ InnerTasks' = InnerTasks
      /\ \A t \in Task : Children(graph, t)' = Children(graph, t)
      /\ \A t \in Task : DependencyIds(graph, t)' = DependencyIds(graph, t)
      /\ \A other \in Thread : FailsRun(other)' <=>
            result'[other] = "failed" /\ ~CanFail(graph, TaskOf(other))
  BY GraphFixed, GraphOperators DEF OrderInv, Serial
<1>1. /\ \A other \in Thread : other # self => pc'[other] = pc[other]
      /\ Born(self) /\ Alive(self) /\ ~Fetching(self) /\ Born(self)'
      /\ Fetching(self)' => pc[self] = "check" /\ ~FailsRun(self)
  <2>1. ~Fetching(self)
    BY DEF Step, Begin, Announce, Announcing, Execute, Executing, Store, Report, Reporting, Finish,
       Record, Cleanup, Deregister, Check, PublishTerminal, DeliverTerminal, ResetExchange, Fetching
  <2> QED  BY <1>0, <2>1, OwnStep DEF Fetching, Born, Caller
<1>2. self = <<TaskOf(self), 1>> /\ TaskOf(self) \in Task /\ TaskOf(self) \in StartedTasks
  BY <1>0, <1>1, OnlyThread, ThreadOfTask
<1>3. ASSUME NEW other \in Thread
      PROVE  (Born(other)' <=> Born(other)) /\ (Alive(other)' => Alive(other))
  BY <1>1 DEF Born, Alive
<1>4. StartedTasks' = StartedTasks
  <2>1. \A t \in Task, n \in 1 .. MaxStarts : <<t, n>> \in Thread
    BY DEF Thread
  <2> QED  BY <1>3, <2>1 DEF StartedTasks, Started, Born
<1>5. /\ \A other \in Thread : other # self =>
             result'[other] = result[other] /\ snapshot'[other] = snapshot[other]
      /\ pc'[self] \in BeforeFinish => pc[self] \in BeforeFinish \ {"finish"}
      /\ pc'[self] = "record" => pc[self] = "finish"
      /\ result'[self] = result[self]
            \/ (pc[self] \in {"begin", "execute", "executing"} /\ pc'[self] \in {"report", "store"})
      /\ \/ UNCHANGED <<succeeded, failed, skipped>>
         \/ /\ pc[self] = "record" /\ pc'[self] = "cleanup" /\ result' = result
            /\ succeeded' = IF result[self] = "completed" THEN succeeded \cup {TaskOf(self)} ELSE succeeded
            /\ failed' = IF result[self] = "failed" THEN failed \cup {TaskOf(self)} ELSE failed
            /\ skipped' \subseteq skipped \cup {TaskOf(self)}
      /\ reported' = reported
            \/ (pc[self] = "announcing"
                   /\ reported' = [reported EXCEPT ![TaskOf(self)] = @ \cup {"active"}])
            \/ \E r \in {"completed", "failed", "skipped"} :
                   reported' = [reported EXCEPT ![TaskOf(self)] = @ \cup {r}]
      /\ pc'[self] \in Executions => pc[self] \in Executions
            \/ (pc[self] = "begin" /\ ~SkippedByDependency(TaskOf(self)))
      /\ output' = output
            \/ /\ pc[self] = "store" /\ pc'[self] = "report"
               /\ output' = snapshot[self] /\ result' = result
      /\ pc'[self] = "store" => output' = output /\ snapshot'[self] = output \cup {TaskOf(self)}
      /\ pc'[self] # "store" /\ pc[self] # "store" /\ result'[self] = "completed"
            => result[self] = "completed"
      /\ pc[self] = "store" => output' = snapshot[self]
  <2> USE <1>1 DEF TypeOK, Goto, Caller, state, exchange, locals, BeforeFinish, Executions
  <2>1. CASE Begin(self)
    BY <1>0, <2>1 DEF Begin
  <2>2. CASE Announce(self)
    BY <1>0, <2>2 DEF Announce
  <2>3. CASE Announcing(self)
    BY <1>0, <2>3 DEF Announcing
  <2>4. CASE Execute(self)
    BY <1>0, <2>4 DEF Execute
  <2>5. CASE Executing(self)
    BY <1>0, <2>5 DEF Executing, Merged
  <2>6. CASE Store(self)
    BY <1>0, <2>6 DEF Store
  <2>7. CASE Report(self)
    BY <1>0, <2>7 DEF Report
  <2>8. CASE Reporting(self)
    BY <1>0, <2>8 DEF Reporting, OrderInv, ResultKnown
  <2>9. CASE Finish(self)
    BY <1>0, <2>9 DEF Finish
  <2>10. CASE Record(self)
    BY <1>0, <2>10 DEF Record
  <2>11. CASE Cleanup(self) \/ Deregister(self) \/ Check(self)
    BY <1>0, <2>11 DEF Cleanup, Deregister, Check
  <2>12. CASE PublishTerminal(self)
    BY <1>0, <2>12 DEF PublishTerminal
  <2>13. CASE DeliverTerminal(self) \/ ResetExchange(self)
    BY <1>0, <2>13 DEF DeliverTerminal, ResetExchange
  <2> QED
    BY <2>1, <2>2, <2>3, <2>4, <2>5, <2>6, <2>7, <2>8, <2>9, <2>10, <2>11, <2>12, <2>13 DEF Step
<1>6. Unfinished'
  <2> SUFFICES ASSUME NEW other \in Thread, pc'[other] \in BeforeFinish
               PROVE  finished'[TaskOf(other)] = 0
    BY DEF Unfinished
  <2>1. pc[other] \in BeforeFinish /\ (other = self => pc[other] # "finish")
    BY <1>1, <1>5
  <2>2. finished[TaskOf(other)] = 0
    BY <2>1 DEF Fates, Unfinished
  <2>3. other = <<TaskOf(other), 1>>
    BY <1>0, <2>1, OnlyThread DEF Born, BeforeFinish
  <2>4. ASSUME NEW x \in Thread, pc[x] = "finish", pc'[x] = "record",
               finished' = [finished EXCEPT ![TaskOf(x)] = @ + 1]
        PROVE  finished'[TaskOf(other)] = 0
    <3>1. x = self /\ x # other
      BY <1>1, <2>1, <2>4
    <3>2. TaskOf(x) # TaskOf(other)
      BY <1>2, <2>3, <3>1
    <3> QED  BY <1>0, <2>2, <2>4, <3>2, ThreadOfTask DEF TypeOK
  <2> QED  BY <1>0, <2>2, <2>4, FinishedGrows
<1>7. ParentsOver'
  BY <1>0, <1>3, <1>4 DEF Fates, ParentsOver, StartedTasks
<1>8. Recorded'
  <2>1. succeeded \cup failed \cup skipped \subseteq Task
    BY <1>0 DEF TypeOK
  <2>2. ASSUME NEW t \in succeeded \cup failed \cup skipped
        PROVE  /\ pc'[<<t, 1>>] \notin BeforeFinish \cup {"unborn", "record"}
               /\ result'[<<t, 1>>] = result[<<t, 1>>]
    <3>1. <<t, 1>> \in Thread /\ pc[<<t, 1>>] \notin BeforeFinish \cup {"unborn", "record"}
      BY <2>1, FirstThread DEF Fates, Recorded
    <3>2. CASE <<t, 1>> = self
      BY <1>1, <1>5, <3>1, <3>2 DEF BeforeFinish, Born
    <3>3. CASE <<t, 1>> # self
      BY <1>1, <1>5, <3>1, <3>3
    <3> QED  BY <3>2, <3>3
  <2>3. CASE UNCHANGED <<succeeded, failed, skipped>>
    BY <2>2, <2>3 DEF Fates, Recorded
  <2>4. CASE /\ pc[self] = "record" /\ pc'[self] = "cleanup" /\ result' = result
             /\ succeeded' = IF result[self] = "completed" THEN succeeded \cup {TaskOf(self)} ELSE succeeded
             /\ failed' = IF result[self] = "failed" THEN failed \cup {TaskOf(self)} ELSE failed
             /\ skipped' \subseteq skipped \cup {TaskOf(self)}
    <3>1. pc'[<<TaskOf(self), 1>>] = "cleanup" /\ result'[<<TaskOf(self), 1>>] = result[self]
      BY <1>2, <2>4
    <3>2. TaskOf(self) \notin succeeded \cup failed \cup skipped
      BY <1>2, <2>4 DEF Fates, Recorded
    <3> HIDE DEF TaskOf
    <3> QED  BY <2>2, <2>4, <3>1, <3>2 DEF Fates, Recorded, BeforeFinish
  <2> QED  BY <1>5, <2>3, <2>4
<1>9. FailureStops'
  <2> SUFFICES ASSUME NEW x \in Thread, FailsRun(x)', TaskOf(x) \in InnerTasks
               PROVE  /\ Born(x)' /\ ~Fetching(x)'
                      /\ Children(graph, TaskOf(x)) \cap StartedTasks = {}
                      /\ \A other \in Thread : other # x => ~Alive(other)'
    BY <1>0, <1>4, ThreadOfTask DEF FailureStops
  <2>1. result'[x] = "failed" /\ ~CanFail(graph, TaskOf(x))
    BY <1>0
  <2>2. CASE result[x] = "failed"
    <3>1. FailsRun(x)
      BY <2>1, <2>2 DEF FailsRun
    <3>2. /\ Born(x) /\ ~Fetching(x)
          /\ Children(graph, TaskOf(x)) \cap StartedTasks = {}
          /\ \A other \in Thread : other # x => ~Alive(other)
      BY <3>1 DEF Fates, FailureStops
    <3>3. ~Fetching(x)'
      BY <1>1, <3>1, <3>2 DEF Fetching
    <3> QED  BY <1>3, <3>2, <3>3
  <2>3. CASE result[x] # "failed"
    <3>1. /\ x = self /\ pc[self] \in {"begin", "execute", "executing"}
          /\ pc'[self] \in {"report", "store"}
      BY <1>5, <2>1, <2>3
    <3>2. \A other \in Thread : other # self => ~Alive(other)
      BY <1>0, <1>1, <3>1 DEF Alone
    <3>3. finished[TaskOf(self)] = 0
      BY <3>1 DEF Fates, Unfinished, BeforeFinish
    <3>4. ASSUME NEW u \in Children(graph, TaskOf(self)) \cap StartedTasks PROVE FALSE
      <4>1. PICK n \in 1 .. MaxStarts : u \in Task /\ pc[<<u, n>>] # "unborn"
        BY DEF StartedTasks, Started
      <4>2. <<u, n>> \in Thread /\ TaskOf(<<u, n>>) = u
        BY <4>1 DEF Thread, TaskOf
      <4>3. \A d \in graph.depends_on[u] : finished[d.id] > 0
        BY <1>0, <4>1, <4>2 DEF OrderInv, DependencyOrder
      <4>4. TaskOf(self) \in DependencyIds(graph, u)
        BY DEF Children
      <4> QED  BY <3>3, <4>3, <4>4 DEF DependencyIds
    <3> QED  BY <1>1, <1>3, <3>1, <3>2, <3>4 DEF Fetching
  <2> QED  BY <2>2, <2>3
<1>10. SkipsSeen'
  <2>1. ASSUME NEW t \in StartedTasks, ~SkippedByDependency(t)
        PROVE  ~SkippedByDependency(t)'
    <3> SUFFICES ASSUME NEW d \in graph.depends_on[t], d.id \in skipped', d.id \notin skipped
                 PROVE  FALSE
      BY <1>0, <2>1 DEF SkippedByDependency
    <3>1. d.id = TaskOf(self)
      BY <1>5
    <3>2. TaskOf(self) \in DependencyIds(graph, t)
      BY <3>1 DEF DependencyIds
    <3> QED  BY <1>1, <3>2 DEF Fates, ParentsOver
  <2>2. ASSUME NEW t \in Task, Executed(t)'
        PROVE  t \in StartedTasks' /\ ~SkippedByDependency(t)'
    <3>1. CASE Executed(t)
      BY <1>4, <2>1, <3>1 DEF Fates, SkipsSeen
    <3>2. CASE ~Executed(t)
      <4>1. pc[self] = "announcing" /\ t = TaskOf(self)
        BY <1>0, <1>2, <1>5, <2>2, <3>2 DEF Executed, TypeOK
      <4> QED  BY <1>2, <1>4, <2>1, <4>1 DEF Fates, SkipsSeen, Executions
    <3> QED  BY <3>1, <3>2
  <2>3. ASSUME NEW other \in Thread, pc'[other] \in Executions
        PROVE  ~SkippedByDependency(TaskOf(other))'
    <3>1. TaskOf(other) \in StartedTasks
      BY <1>0, <1>3, <2>3, OnlyThread DEF Born, Executions
    <3>2. ~SkippedByDependency(TaskOf(other))
      BY <1>1, <1>5, <2>3 DEF Fates, SkipsSeen
    <3> QED  BY <2>1, <3>1, <3>2
  <2> QED  BY <2>2, <2>3 DEF SkipsSeen
<1>11. OutputsKept'
  <2>1. ASSUME pc[self] = "store", NEW t \in InnerTasks
        PROVE  t \in snapshot[self] <=> t \in output \/ t = TaskOf(self)
    BY <2>1 DEF Fates, OutputsKept
  <2>2. output \cap InnerTasks \subseteq output'
    BY <1>5, <2>1
  <2>3. ASSUME NEW other \in Thread, result'[other] = "completed", pc'[other] # "store",
               TaskOf(other) \in InnerTasks
        PROVE  TaskOf(other) \in output'
    <3>1. CASE other = self /\ pc[self] = "store"
      BY <1>5, <2>1, <2>3, <3>1
    <3>2. CASE other = self /\ pc[self] # "store"
      BY <1>5, <2>2, <2>3, <3>2 DEF Fates, OutputsKept
    <3>3. CASE other # self
      BY <1>1, <1>5, <2>2, <2>3, <3>3 DEF Fates, OutputsKept
    <3> QED  BY <3>1, <3>2, <3>3
  <2>4. ASSUME NEW other \in Thread, pc'[other] = "store", NEW t \in InnerTasks
        PROVE  t \in snapshot'[other] <=> t \in output' \/ t = TaskOf(other)
    <3>1. CASE other = self
      BY <1>5, <2>4, <3>1
    <3>2. CASE other # self
      <4>1. pc[other] = "store" /\ snapshot'[other] = snapshot[other]
        BY <1>1, <1>5, <2>4, <3>2
      <4>2. TaskOf(self) \notin InnerTasks
        BY <1>0, <1>1, <3>2, <4>1 DEF Alone, Alive
      <4>3. t \in output' <=> t \in output
        BY <1>5, <2>1, <4>2
      <4> QED  BY <4>1, <4>3 DEF Fates, OutputsKept
    <3> QED  BY <3>1, <3>2
  <2> QED  BY <1>0, <2>3, <2>4 DEF OutputsKept
<1> QED  BY <1>6, <1>7, <1>8, <1>9, <1>10, <1>11 DEF Fates

LEMMA FatesInit == Init => FatesInv
<1> SUFFICES ASSUME Init PROVE FatesInv
  OBVIOUS
<1>1. /\ \A self \in Thread : pc[self] = "unborn" /\ result[self] = "none"
      /\ succeeded = {} /\ failed = {} /\ skipped = {} /\ \A t \in Task : ~Executed(t)
  BY ServerAssumption DEF Init, Caller, Executed
<1>2. StartedTasks = {}
  BY <1>1 DEF StartedTasks, Started, Thread
<1>3. Unfinished /\ ParentsOver /\ Recorded
  BY <1>1, <1>2 DEF Unfinished, ParentsOver, Recorded, BeforeFinish
<1>4. FailureStops /\ SkipsSeen /\ OutputsKept
  BY <1>1, <1>2 DEF FailureStops, FailsRun, SkipsSeen, Executions, OutputsKept
<1> QED  BY <1>3, <1>4, SerialInit DEF FatesInv, Fates

LEMMA FatesNext == FatesInv /\ [Next]_vars => FatesInv'
<1> SUFFICES ASSUME FatesInv, [Next]_vars PROVE FatesInv'
  OBVIOUS
<1>1. TypeOK /\ SerialInv /\ SerialInv' /\ OnlyLeavesOverlap' = OnlyLeavesOverlap
  BY SerialNext, GraphFixed DEF FatesInv, SerialInv, OrderInv
<1>2. ASSUME OnlyLeavesOverlap PROVE Fates'
  <2>1. Fates
    BY <1>2 DEF FatesInv
  <2>2. CASE UNCHANGED vars
    <3>1. UNCHANGED Records /\ \A self \in Thread : pc'[self] = pc[self]
      BY <2>2 DEF vars, state, exchange, locals, Records
    <3> QED  BY <1>1, <2>1, <3>1, FatesElsewhere
  <2> QED
    BY <1>1, <1>2, <2>1, <2>2, StepKinds, FatesServer, FatesFetch, FatesStart, FatesLost, FatesOwn
<1> QED  BY <1>1, <1>2 DEF FatesInv

\* A failure that not every dependent permits stops them all, in these
\* workflows: the thread that knows of it is the only one left, and it does not
\* fetch (_on_task_terminal_state).
THEOREM FailuresStop == Spec => []FailureStopsDependents
<1>1. FatesInv => FailureStopsDependents
  <2> SUFFICES ASSUME FatesInv, OnlyLeavesOverlap, NEW t \in failed, ~CanFail(graph, t),
                      NEW u \in Children(graph, t)
               PROVE  ~Started(u)
    BY DEF FailureStopsDependents
  <2> USE DEF FatesInv, SerialInv, OrderInv
  <2>1. t \in InnerTasks /\ <<t, 1>> \in Thread /\ TaskOf(<<t, 1>>) = t
    BY FirstThread DEF TypeOK, InnerTasks
  <2>2. FailsRun(<<t, 1>>)
    BY <2>1 DEF Fates, Recorded, FailsRun
  <2>3. u \notin StartedTasks /\ u \in Task
    BY <2>1, <2>2, GraphType DEF Fates, FailureStops, Children, Tasks
  <2> QED  BY <2>3 DEF StartedTasks
<1> QED  BY <1>1, FatesInit, FatesNext, PTL DEF Spec

\* A task that has been executed, and does not accept that a dependency of it is
\* skipped, has not had one skipped, then or later (_start_task).
THEOREM SkipsStop == Spec => []SkipStopsDependents
<1>1. FatesInv => SkipStopsDependents
  <2> SUFFICES ASSUME FatesInv, OnlyLeavesOverlap, NEW t \in Tasks, Executed(t),
                      NEW d \in graph.depends_on[t], d.id \in skipped
               PROVE  d.can_skip
    BY DEF SkipStopsDependents
  <2>1. t \in Task
    BY GraphType DEF FatesInv, SerialInv, OrderInv
  <2>2. ~SkippedByDependency(t)
    BY <2>1 DEF FatesInv, Fates, SkipsSeen
  <2> QED  BY <2>2 DEF SkippedByDependency
<1> QED  BY <1>1, FatesInit, FatesNext, PTL DEF Spec

\* The output of a dependency that succeeded is there when its dependent is
\* started and stays there, although the merge of outputs is not atomic: the
\* merges that meet are those of leaves (_start_task, self.state.ctx.output).
THEOREM OutputsKeptForDependents == Spec => []OutputsArrive
<1>1. FatesInv => OutputsArrive
  <2> SUFFICES ASSUME FatesInv, OnlyLeavesOverlap, NEW t \in Tasks, Started(t),
                      NEW u \in DependencyIds(graph, t), u \in succeeded
               PROVE  u \in output
    BY DEF OutputsArrive
  <2> USE DEF FatesInv, SerialInv, OrderInv
  <2>1. u \in Task /\ t \in Task /\ <<u, 1>> \in Thread /\ TaskOf(<<u, 1>>) = u
    BY FirstThread, GraphType DEF TypeOK
  <2>2. u \in InnerTasks
    BY <2>1 DEF InnerTasks, Children, Tasks
  <2>3. result[<<u, 1>>] = "completed" /\ pc[<<u, 1>>] # "store"
    BY DEF Fates, Recorded, BeforeFinish
  <2> QED  BY <2>1, <2>2, <2>3 DEF Fates, OutputsKept
<1> QED  BY <1>1, FatesInit, FatesNext, PTL DEF Spec
=============================================================================
