------------------------ MODULE ReactiveState_proofs ------------------------
(***************************************************************************)
(* Theorems about module ReactiveState for every number of callers and     *)
(* every list of threads they hand over: types, one hook at a time, and    *)
(* the hand-over as long as no access falls into a hook of another thread. *)
(***************************************************************************)
EXTENDS ReactiveState, TLAPS

-----------------------------------------------------------------------------
(***************************************************************************)
(* The inductive invariants                                                *)
(***************************************************************************)

\* Who is in a hook, or has just left it, holds the lock; the flag is down
\* only between RunHooks and LeaveHooks, or after an error.
LockInv ==
    /\ \A c \in Caller : pc[c] \in Inside \cup {"release"} => lock = c
    /\ ~called_externally =>
          \E c \in Caller : pc[c] \in (Inside \ {"hooks"}) \cup {"dead"}

\* The caller runs the hook on ready_tasks, and has not emptied the list yet.
Busy(c) == access[c] \in {"get", "set"} /\ pc[c] \in {"hooks", "iterate", "loop", "drain"}

\* The caller has a list that nobody else can reach.
Owner(c) ==
    \/ access[c] = "get" /\ pc[c] \in {"leave", "release", "extend", "assign"}
    \/ access[c] = "set" /\ pc[c] = "acquire"

\* It has extended it.
Extended(c) == pc[c] \in {"assign", "acquire"}

\* Its children are being started, or have been.
Starting(c) == access[c] = "set" /\ pc[c] \in {"loop", "drain", "leave", "release", "done"}

ChildStarted(c, i) ==
    \/ pc[c] \in {"drain", "leave", "release", "done"}
    \/ pc[c] = "loop" /\ i < cursor[c]

\* Access and program counter fit.
ProgramInv ==
    \A c \in Caller :
        /\ pc[c] \notin {"internal", "dead"}
        /\ pc[c] \in {"extend", "assign"} => access[c] = "get"
        /\ pc[c] = "done" => access[c] = "set"
        /\ pc[c] \in {"iterate", "loop", "drain"} => access[c] # "peek"

\* Whoever runs the hook on ready_tasks has that list to itself: its own
\* children after a set, nothing after a get.
HookList ==
    \A c \in Caller : Busy(c) =>
        /\ held[c] = ready_tasks
        /\ pc[c] \in {"loop", "drain"} => iterated[c] = ready_tasks
        /\ lists[ready_tasks] = IF access[c] = "set" THEN Handed[c] ELSE <<>>

\* Otherwise the list is empty.
IdleList == (\A c \in Caller : ~Busy(c)) => lists[ready_tasks] = <<>>

\* Between its get and its set a caller has a list of its own.
Private ==
    /\ \A c \in Caller : Owner(c) =>
          /\ held[c] # ready_tasks
          /\ lists[held[c]] = IF Extended(c) THEN Handed[c] ELSE <<>>
    /\ \A c, d \in Caller : Owner(c) /\ Owner(d) /\ held[c] = held[d] => c = d

ListInv == HookList /\ IdleList /\ Private

\* Exactly those children are started whose caller has come so far.
StartedInv ==
    \A c \in Caller : \A i \in DOMAIN Handed[c] :
        Handed[c][i] \in started <=> Starting(c) /\ ChildStarted(c, i)

HandOver == ProgramInv /\ ListInv /\ StartedInv
HandOverInv == ~bypassed => HandOver
-----------------------------------------------------------------------------
(***************************************************************************)
(* Type correctness                                                        *)
(***************************************************************************)
LEMMA TypeInit == Init => TypeOK
<1> SUFFICES ASSUME Init PROVE TypeOK
  OBVIOUS
<1>1. lists \in Seq(Seq(Child)) /\ Len(lists) = 1
  <2>1. <<>> \in Seq(Child)
    OBVIOUS
  <2> QED  BY <2>1 DEF Init
<1>2. pc \in [Caller -> PcLabel]
  BY DEF Init, PcLabel
<1>3. /\ ready_tasks \in 1 .. Len(lists)
      /\ held \in [Caller -> 1 .. Len(lists)]
      /\ iterated \in [Caller -> 1 .. Len(lists)]
      /\ cursor \in [Caller -> Nat \ {0}]
  BY <1>1 DEF Init
<1>4. peeks \in 0 .. MaxPeeks
  BY HandedAssumption DEF Init
<1> QED  BY <1>1, <1>2, <1>3, <1>4 DEF Init, TypeOK

\* Whatever an access does to _state, it stays within the lists there are.
LEMMA ReadOrWriteType ==
  ASSUME TypeOK, NEW c \in Caller, ReadOrWrite(c)
  PROVE  held' \in [Caller -> 1 .. Len(lists)] /\ ready_tasks' \in 1 .. Len(lists)
  BY DEF TypeOK, ReadOrWrite

LEMMA ContinueType ==
  ASSUME TypeOK, NEW c \in Caller, Continue(c)
  PROVE  pc' \in [Caller -> PcLabel]
<1>1. access[c] \in {"peek", "get", "set"}
  BY DEF TypeOK
<1> QED  BY <1>1 DEF TypeOK, Continue, Goto, PcLabel

LEMMA DispatchType ==
  ASSUME TypeOK, NEW c \in Caller, NEW kind \in {"peek", "get", "set"},
         Dispatch(c, kind), lists' = lists, peeks' \in 0 .. MaxPeeks
  PROVE  TypeOK'
<1>1. pc' \in [Caller -> PcLabel]
  BY DEF TypeOK, Dispatch, Goto, PcLabel
<1>2. access' \in [Caller -> {"peek", "get", "set"}] /\ bypassed' \in BOOLEAN
  BY DEF TypeOK, Dispatch
<1> QED  BY <1>1, <1>2 DEF TypeOK, Dispatch, locals

LEMMA TypeStep ==
  ASSUME TypeOK, NEW c \in Caller, Step(c)
  PROVE  TypeOK'
<1> USE DEF Goto, heap, locals
<1>1. CASE Peek(c)
  <2>1. peeks' \in 0 .. MaxPeeks
    BY <1>1, HandedAssumption DEF Peek, TypeOK
  <2> QED  BY <1>1, <2>1, DispatchType DEF Peek
<1>2. CASE Get(c)
  BY <1>2, DispatchType DEF Get, TypeOK
<1>3. CASE Extend(c)
  <2>1. lists[held[c]] \o Handed[c] \in Seq(Child)
    BY HandedAssumption DEF TypeOK
  <2>2. lists' \in Seq(Seq(Child)) /\ Len(lists') = Len(lists)
    BY <1>3, <2>1 DEF Extend, TypeOK
  <2>3. pc' \in [Caller -> PcLabel]
    BY <1>3 DEF Extend, TypeOK, PcLabel
  <2> QED  BY <1>3, <2>2, <2>3 DEF Extend, TypeOK
<1>4. CASE Set(c)
  BY <1>4, DispatchType DEF Set, TypeOK
<1>5. CASE Internal(c)
  BY <1>5, ReadOrWriteType, ContinueType DEF Internal, TypeOK
<1>6. CASE Acquire(c)
  <2>1. pc' \in [Caller -> PcLabel]
    BY <1>6 DEF Acquire, TypeOK, PcLabel, Inside
  <2> QED  BY <1>6, <2>1, ReadOrWriteType DEF Acquire, TypeOK
<1>7. CASE RunHooks(c)
  <2>1. pc' \in [Caller -> PcLabel]
    BY <1>7 DEF RunHooks, TypeOK, PcLabel, Inside
  <2> QED  BY <1>7, <2>1 DEF RunHooks, TypeOK
<1>8. CASE Iterate(c)
  <2>1. pc' \in [Caller -> PcLabel]
    BY <1>8 DEF Iterate, TypeOK, PcLabel, Inside
  <2> QED  BY <1>8, <2>1 DEF Iterate, TypeOK, FirstPosition
<1>9. CASE StartThread(c)
  <2>1. lists[iterated[c]] \in Seq(Child) /\ cursor[c] \in Nat \ {0}
    BY DEF TypeOK
  <2>2. lists[iterated[c]][cursor[c]] \in Child
    BY <1>9, <2>1 DEF StartThread
  <2>3. started' \subseteq Child /\ cursor' \in [Caller -> Nat \ {0}]
    BY <1>9, <2>1, <2>2 DEF StartThread, TypeOK
  <2> QED  BY <1>9, <2>3 DEF StartThread, TypeOK
<1>10. CASE StartAgain(c)
  <2>1. pc' \in [Caller -> PcLabel]
    BY <1>10 DEF StartAgain, TypeOK, PcLabel
  <2> QED  BY <1>10, <2>1 DEF StartAgain, TypeOK, LockAfterError
<1>11. CASE EndLoop(c)
  <2>1. pc' \in [Caller -> PcLabel]
    BY <1>11 DEF EndLoop, TypeOK, PcLabel, Inside
  <2> QED  BY <1>11, <2>1 DEF EndLoop, TypeOK
<1>12. CASE Drain(c)
  <2>1. lists' \in Seq(Seq(Child)) /\ Len(lists') = Len(lists) + 1 /\ Len(lists) \in Nat
    BY <1>12 DEF Drain, TypeOK, Emptied
  <2>2. pc' \in [Caller -> PcLabel]
    BY <1>12 DEF Drain, TypeOK, PcLabel, Inside
  <2>3. ready_tasks' \in 1 .. Len(lists')
    BY <1>12, <2>1 DEF Drain
  <2>4. 1 .. Len(lists) \subseteq 1 .. Len(lists') /\ 1 \in 1 .. Len(lists')
    BY <2>1
  <2>5. held' \in [Caller -> 1 .. Len(lists')]
    BY <1>12, <2>4 DEF Drain, TypeOK
  <2>6. iterated' \in [Caller -> 1 .. Len(lists')]
    <3>1. iterated \in [Caller -> 1 .. Len(lists')]
      BY <2>4 DEF TypeOK
    <3> QED  BY <1>12, <2>4, <3>1 DEF Drain
  <2>7. cursor' \in [Caller -> Nat \ {0}]
    <3>1. cursor \in [Caller -> Nat \ {0}]
      BY DEF TypeOK
    <3> QED  BY <1>12, <3>1 DEF Drain
  <2> QED  BY <1>12, <2>1, <2>2, <2>3, <2>5, <2>6, <2>7 DEF Drain, TypeOK
<1>13. CASE LeaveHooks(c)
  <2>1. pc' \in [Caller -> PcLabel]
    BY <1>13 DEF LeaveHooks, TypeOK, PcLabel
  <2> QED  BY <1>13, <2>1 DEF LeaveHooks, TypeOK
<1>14. CASE Release(c)
  BY <1>14, ContinueType DEF Release, TypeOK
<1> QED
  BY <1>1, <1>2, <1>3, <1>4, <1>5, <1>6, <1>7, <1>8, <1>9, <1>10, <1>11, <1>12,
     <1>13, <1>14 DEF Step

LEMMA TypeNext == TypeOK /\ [Next]_vars => TypeOK'
<1>1. TypeOK /\ Next => TypeOK'
  BY TypeStep DEF Next
<1>2. TypeOK /\ UNCHANGED vars => TypeOK'
  BY DEF TypeOK, vars, heap, locals
<1> QED  BY <1>1, <1>2

\* Every variable keeps its type; in particular no caller ever holds or
\* iterates over a list object that does not exist.
THEOREM TypeCorrect == Spec => []TypeOK
  BY TypeInit, TypeNext, PTL DEF Spec
-----------------------------------------------------------------------------
(***************************************************************************)
(* One hook at a time                                                      *)
(***************************************************************************)

\* The steps that leave the lock and the flag alone, and keep the caller on
\* its side of the lock.
Aside(c) ==
    /\ UNCHANGED <<lock, called_externally>>
    /\ \A d \in Caller \ {c} : pc'[d] = pc[d]
    /\ pc'[c] \in Inside \cup {"release"} => pc[c] \in Inside \cup {"release"}
    /\ pc[c] \in (Inside \ {"hooks"}) \cup {"dead"} =>
          pc'[c] \in (Inside \ {"hooks"}) \cup {"dead"}

LEMMA LockAside ==
  ASSUME LockInv, NEW c \in Caller, Aside(c)
  PROVE  LockInv'
<1>1. ASSUME NEW d \in Caller, pc'[d] \in Inside \cup {"release"}
      PROVE  lock' = d
  BY <1>1 DEF LockInv, Aside
<1>2. ASSUME ~called_externally'
      PROVE  \E d \in Caller : pc'[d] \in (Inside \ {"hooks"}) \cup {"dead"}
  <2>1. PICK d \in Caller : pc[d] \in (Inside \ {"hooks"}) \cup {"dead"}
    BY <1>2 DEF LockInv, Aside
  <2> QED  BY <2>1 DEF Aside
<1> QED  BY <1>1, <1>2 DEF LockInv

LEMMA LockStep ==
  ASSUME TypeOK, LockInv, NEW c \in Caller, Step(c)
  PROVE  LockInv'
<1> USE DEF Goto, Inside
<1>0. DOMAIN pc = Caller /\ NoCaller \notin Caller
  BY HandedAssumption DEF TypeOK
<1>1. CASE Peek(c)
  BY <1>1, <1>0, LockAside DEF Peek, Dispatch, Aside
<1>2. CASE Get(c)
  BY <1>2, <1>0, LockAside DEF Get, Dispatch, Aside
<1>3. CASE Extend(c)
  BY <1>3, <1>0, LockAside DEF Extend, Aside
<1>4. CASE Set(c)
  BY <1>4, <1>0, LockAside DEF Set, Dispatch, Aside
<1>5. CASE Internal(c)
  BY <1>5, <1>0, LockAside DEF Internal, Continue, Aside
<1>6. CASE Acquire(c)
  <2>1. \A d \in Caller : pc[d] \notin Inside \cup {"release"}
    BY <1>6, <1>0 DEF Acquire, Free, LockInv
  <2>2. \A d \in Caller : pc'[d] \in Inside \cup {"release"} => lock' = d
    BY <1>6, <1>0, <2>1 DEF Acquire
  <2>3. ~called_externally' =>
           \E d \in Caller : pc'[d] \in (Inside \ {"hooks"}) \cup {"dead"}
    BY <1>6, <1>0 DEF Acquire, LockInv
  <2> QED  BY <2>2, <2>3 DEF LockInv
<1>7. CASE RunHooks(c)
  <2>1. lock = c /\ lock' = lock
    BY <1>7 DEF RunHooks, LockInv
  <2>2. pc'[c] \in Inside \ {"hooks"} /\ \A d \in Caller \ {c} : pc'[d] = pc[d]
    BY <1>7, <1>0 DEF RunHooks
  <2> QED  BY <2>1, <2>2 DEF LockInv
<1>8. CASE Iterate(c)
  BY <1>8, <1>0, LockAside DEF Iterate, Aside
<1>9. CASE StartThread(c)
  BY <1>9, <1>0, LockAside DEF StartThread, Aside
<1>10. CASE StartAgain(c)
  <2>1. lock = c
    BY <1>10 DEF StartAgain, LockInv
  <2>2. pc'[c] = "dead" /\ \A d \in Caller \ {c} : pc'[d] = pc[d]
    BY <1>10, <1>0 DEF StartAgain
  <2>3. \A d \in Caller : pc'[d] \notin Inside \cup {"release"}
    BY <2>1, <2>2 DEF LockInv
  <2> QED  BY <2>2, <2>3 DEF LockInv
<1>11. CASE EndLoop(c)
  BY <1>11, <1>0, LockAside DEF EndLoop, Aside
<1>12. CASE Drain(c)
  BY <1>12, <1>0, LockAside DEF Drain, Aside
<1>13. CASE LeaveHooks(c)
  <2>1. called_externally' /\ lock = c /\ lock' = lock
    BY <1>13 DEF LeaveHooks, LockInv
  <2>2. \A d \in Caller \ {c} : pc'[d] = pc[d]
    BY <1>13, <1>0 DEF LeaveHooks
  <2> QED  BY <2>1, <2>2 DEF LockInv
<1>14. CASE Release(c)
  <2>1. lock = c
    BY <1>14 DEF Release, LockInv
  <2>2. /\ pc'[c] \in {"call", "extend", "done"}
        /\ \A d \in Caller \ {c} : pc'[d] = pc[d]
    BY <1>14, <1>0 DEF Release, Continue
  <2>3. \A d \in Caller : pc'[d] \notin Inside \cup {"release"}
    BY <2>1, <2>2 DEF LockInv
  <2>4. ~called_externally' =>
           \E d \in Caller : pc'[d] \in (Inside \ {"hooks"}) \cup {"dead"}
    BY <1>14, <2>2 DEF Release, LockInv
  <2> QED  BY <2>3, <2>4 DEF LockInv
<1> QED
  BY <1>1, <1>2, <1>3, <1>4, <1>5, <1>6, <1>7, <1>8, <1>9, <1>10, <1>11, <1>12,
     <1>13, <1>14 DEF Step

LEMMA LockNext == TypeOK /\ LockInv /\ [Next]_vars => LockInv'
<1>1. TypeOK /\ LockInv /\ Next => LockInv'
  BY LockStep DEF Next
<1>2. LockInv /\ UNCHANGED vars => LockInv'
  BY DEF LockInv, vars
<1> QED  BY <1>1, <1>2

\* The lock does what it is for, whatever the flag says: no two threads run
\* hooks at once, and the flag is down only for a reason.
THEOREM HooksAreExclusive == Spec => []HooksExclusive
<1>1. Init => LockInv
  BY DEF Init, LockInv, Inside
<1>2. LockInv => HooksExclusive
  BY DEF LockInv, HooksExclusive, Inside
<1> QED  BY <1>1, <1>2, LockNext, TypeCorrect, PTL DEF Spec
-----------------------------------------------------------------------------
(***************************************************************************)
(* The hand-over                                                           *)
(***************************************************************************)

\* Only one caller is in a hook.
LEMMA OneInside ==
  ASSUME LockInv, NEW c \in Caller, NEW d \in Caller,
         pc[c] \in Inside, pc[d] \in Inside \cup {"release"}
  PROVE  c = d
  BY DEF LockInv

LEMMA HandOverDispatch ==
  ASSUME TypeOK, HandOver, ~bypassed', NEW c \in Caller,
         NEW kind \in {"peek", "get", "set"},
         Dispatch(c, kind), lists' = lists,
         \/ pc[c] = "call" /\ kind \in {"peek", "get"}
         \/ pc[c] = "assign" /\ kind = "set"
  PROVE  HandOver'
<1>1. /\ pc' = [pc EXCEPT ![c] = "acquire"]
      /\ access' = [access EXCEPT ![c] = kind]
      /\ UNCHANGED <<ready_tasks, started, held, iterated, cursor>>
  BY DEF Dispatch, Goto, locals, TypeOK
<1>2. /\ pc'[c] = "acquire" /\ access'[c] = kind
      /\ \A d \in Caller \ {c} : pc'[d] = pc[d] /\ access'[d] = access[d]
  BY <1>1 DEF TypeOK
<1>3. ProgramInv'
  BY <1>2 DEF HandOver, ProgramInv
<1>4. \A d \in Caller : Busy(d)' <=> Busy(d)
  BY <1>2 DEF Busy
<1>5. /\ \A d \in Caller : Owner(d)' <=> Owner(d)
      /\ \A d \in Caller : Owner(d) => (Extended(d)' <=> Extended(d))
  BY <1>2 DEF Owner, Extended, HandOver, ProgramInv
<1>6. HookList' /\ IdleList'
  BY <1>1, <1>2, <1>4 DEF HookList, IdleList, HandOver, ListInv, Busy
<1>7. Private'
  BY <1>1, <1>5 DEF Private, HandOver, ListInv
<1>8. StartedInv'
  BY <1>1, <1>2 DEF StartedInv, HandOver, Starting, ChildStarted
<1> QED  BY <1>3, <1>6, <1>7, <1>8 DEF HandOver, ListInv
LEMMA HandOverExtend ==
  ASSUME TypeOK, HandOver, NEW c \in Caller, Extend(c)
  PROVE  HandOver'
<1>1. /\ lists' = [lists EXCEPT ![held[c]] = @ \o Handed[c]]
      /\ UNCHANGED <<ready_tasks, started, held, iterated, cursor, access>>
  BY DEF Extend, locals
<1>2. /\ pc[c] = "extend" /\ pc'[c] = "assign" /\ access[c] = "get"
      /\ \A d \in Caller \ {c} : pc'[d] = pc[d]
  BY DEF Extend, Goto, TypeOK, HandOver, ProgramInv
<1>3. Owner(c) /\ ~Extended(c) /\ lists[held[c]] = <<>> /\ held[c] # ready_tasks
  BY <1>2 DEF Owner, Extended, HandOver, ListInv, Private
<1>4. /\ lists'[held[c]] = Handed[c]
      /\ \A i \in (1 .. Len(lists)) \ {held[c]} : lists'[i] = lists[i]
  <2>1. <<>> \o Handed[c] = Handed[c]
    BY HandedAssumption
  <2> QED  BY <1>1, <1>3, <2>1 DEF TypeOK
<1>5. \A d \in Caller : (Busy(d)' <=> Busy(d)) /\ (Owner(d)' <=> Owner(d))
  BY <1>1, <1>2 DEF Busy, Owner
<1>6. Extended(c)' /\ \A d \in Caller \ {c} : Extended(d)' <=> Extended(d)
  BY <1>2 DEF Extended
<1>7. ProgramInv'
  BY <1>1, <1>2 DEF HandOver, ProgramInv
<1>8. lists'[ready_tasks'] = lists[ready_tasks]
  BY <1>1, <1>3, <1>4 DEF TypeOK
<1>9. HookList' /\ IdleList'
  BY <1>1, <1>2, <1>5, <1>8 DEF HookList, IdleList, HandOver, ListInv, Busy
<1>10. ASSUME NEW d \in Caller, Owner(d)
       PROVE  lists'[held[d]] = IF Extended(d)' THEN Handed[d] ELSE <<>>
  <2>1. CASE d = c
    BY <2>1, <1>4, <1>6
  <2>2. CASE d # c
    <3>1. held[d] # held[c] /\ held[d] \in 1 .. Len(lists)
      BY <2>2, <1>3, <1>10 DEF HandOver, ListInv, Private, TypeOK
    <3> QED  BY <2>2, <3>1, <1>4, <1>6, <1>10 DEF HandOver, ListInv, Private
  <2> QED  BY <2>1, <2>2
<1>11. Private'
  BY <1>1, <1>5, <1>10 DEF Private, HandOver, ListInv
<1>12. StartedInv'
  BY <1>1, <1>2 DEF StartedInv, HandOver, Starting, ChildStarted
<1> QED  BY <1>7, <1>9, <1>11, <1>12 DEF HandOver, ListInv

LEMMA HandOverAcquire ==
  ASSUME TypeOK, LockInv, HandOver, NEW c \in Caller, Acquire(c)
  PROVE  HandOver'
<1> DEFINE get == access[c] = "get"
           set == access[c] = "set"
<1>1. /\ UNCHANGED <<lists, started, iterated, cursor, access>>
      /\ held' = IF get THEN [held EXCEPT ![c] = ready_tasks] ELSE held
      /\ ready_tasks' = IF set THEN held[c] ELSE ready_tasks
  BY DEF Acquire, ReadOrWrite
<1>2. /\ pc[c] = "acquire" /\ pc'[c] = "hooks" /\ access[c] \in {"peek", "get", "set"}
      /\ \A d \in Caller \ {c} : pc'[d] = pc[d] /\ held'[d] = held[d]
      /\ held'[c] = IF get THEN ready_tasks ELSE held[c]
  BY <1>1 DEF Acquire, Goto, TypeOK
<1>3. \A d \in Caller : pc[d] \notin Inside \cup {"release"}
  BY HandedAssumption DEF Acquire, Free, LockInv
<1>4. lists[ready_tasks] = <<>>
  BY <1>3 DEF HandOver, ListInv, IdleList, Busy, Inside
<1>5. \A d \in Caller : ~Busy(d)
  BY <1>3 DEF Busy, Inside
<1>6. set => Owner(c) /\ lists[held[c]] = Handed[c]
  BY <1>2 DEF Owner, Extended, HandOver, ListInv, Private
<1>7. ProgramInv'
  BY <1>1, <1>2 DEF HandOver, ProgramInv
<1>8. \A d \in Caller \ {c} : ~Busy(d)' /\ (Owner(d)' <=> Owner(d)) /\ (Extended(d)' <=> Extended(d))
  BY <1>1, <1>2, <1>5 DEF Busy, Owner, Extended
<1>9. ~Owner(c)' /\ (Busy(c)' <=> get \/ set)
  BY <1>1, <1>2 DEF Owner, Busy
<1>10. HookList'
  BY <1>1, <1>2, <1>4, <1>6, <1>8, <1>9 DEF HookList
<1>11. IdleList'
  BY <1>1, <1>4, <1>9 DEF IdleList
<1>12. \A d \in Caller \ {c} : Owner(d) => held[d] # ready_tasks'
  BY <1>1, <1>6 DEF HandOver, ListInv, Private
<1>13. Private'
  BY <1>1, <1>2, <1>8, <1>9, <1>12 DEF Private, HandOver, ListInv
<1>14. StartedInv'
  BY <1>1, <1>2 DEF StartedInv, HandOver, Starting, ChildStarted
<1> QED  BY <1>7, <1>10, <1>11, <1>13, <1>14 DEF HandOver, ListInv

\* The steps of a hook that move the caller on and change no list.
LEMMA HandOverMove ==
  ASSUME TypeOK, LockInv, HandOver, NEW c \in Caller,
         \/ RunHooks(c) \/ Iterate(c) \/ EndLoop(c) \/ LeaveHooks(c) \/ Release(c)
  PROVE  HandOver'
<1> USE DEF Goto
<1>1. /\ UNCHANGED <<lists, ready_tasks, started, held, access>>
      /\ \A d \in Caller \ {c} :
            pc'[d] = pc[d] /\ iterated'[d] = iterated[d] /\ cursor'[d] = cursor[d]
      /\ access[c] \in {"peek", "get", "set"}
  BY DEF RunHooks, Iterate, EndLoop, LeaveHooks, Release, Continue, heap, locals, TypeOK
<1>2. \/ pc[c] = "hooks" /\ pc'[c] = (IF access[c] = "peek" THEN "leave" ELSE "iterate")
      \/ pc[c] = "iterate" /\ pc'[c] = "loop" /\ iterated'[c] = ready_tasks /\ cursor'[c] = 1
      \/ /\ pc[c] = "loop" /\ pc'[c] = "drain"
         /\ cursor[c] > Len(lists[iterated[c]]) /\ iterated'[c] = iterated[c]
      \/ pc[c] = "leave" /\ pc'[c] = "release"
      \/ pc[c] = "release" /\ access[c] = "peek" /\ pc'[c] = "call"
      \/ pc[c] = "release" /\ access[c] = "get" /\ pc'[c] = "extend"
      \/ pc[c] = "release" /\ access[c] = "set" /\ pc'[c] = "done"
  BY DEF RunHooks, Iterate, EndLoop, LeaveHooks, Release, Continue, FirstPosition,
         locals, TypeOK
<1>3. ProgramInv'
  BY <1>1, <1>2 DEF HandOver, ProgramInv
<1>4. \A d \in Caller : Busy(d)' <=> Busy(d)
  BY <1>1, <1>2 DEF Busy, HandOver, ProgramInv
<1>5. \A d \in Caller : (Owner(d)' <=> Owner(d)) /\ (Owner(d) => (Extended(d)' <=> Extended(d)))
  BY <1>1, <1>2 DEF Owner, Extended, HandOver, ProgramInv
<1>6. HookList' /\ IdleList'
  BY <1>1, <1>2, <1>4 DEF HookList, IdleList, HandOver, ListInv
<1>7. Private'
  BY <1>1, <1>5 DEF Private, HandOver, ListInv
<1>8. ASSUME NEW i \in DOMAIN Handed[c]
      PROVE  (Starting(c) /\ ChildStarted(c, i)) <=> (Starting(c) /\ ChildStarted(c, i))'
  <2>1. CASE access[c] # "set"
    BY <1>1, <2>1 DEF Starting
  <2>2. CASE access[c] = "set" /\ pc[c] = "loop" /\ pc'[c] = "drain"
    <3>1. lists[iterated[c]] = Handed[c]
      BY <2>2 DEF HandOver, ListInv, HookList, Busy
    <3>2. i < cursor[c]
      BY <1>2, <2>2, <3>1, HandedAssumption DEF TypeOK
    <3> QED  BY <1>1, <2>2, <3>2 DEF Starting, ChildStarted
  <2>3. CASE access[c] = "set" /\ ~(pc[c] = "loop" /\ pc'[c] = "drain")
    <3>1. i \in Nat /\ i >= 1
      BY HandedAssumption
    <3> QED  BY <1>1, <1>2, <2>3, <3>1 DEF Starting, ChildStarted
  <2> QED  BY <2>1, <2>2, <2>3
<1>9. \A d \in Caller \ {c} : \A i \in DOMAIN Handed[d] :
         (Starting(d) /\ ChildStarted(d, i)) <=> (Starting(d) /\ ChildStarted(d, i))'
  BY <1>1 DEF Starting, ChildStarted
<1>10. StartedInv'
  BY <1>1, <1>8, <1>9 DEF StartedInv, HandOver
<1> QED  BY <1>3, <1>6, <1>7, <1>10 DEF HandOver, ListInv
\* In the loop of a hook that has something to start, the list is the caller's
\* own, and the thread at the cursor is not started yet.
LEMMA AtCursor ==
  ASSUME TypeOK, HandOver, NEW c \in Caller,
         pc[c] = "loop", cursor[c] <= Len(lists[iterated[c]])
  PROVE  /\ access[c] = "set"
         /\ lists[iterated[c]] = Handed[c]
         /\ cursor[c] \in DOMAIN Handed[c]
         /\ Handed[c][cursor[c]] \notin started
<1>1. access[c] \in {"get", "set"}
  BY DEF TypeOK, HandOver, ProgramInv
<1>2. lists[iterated[c]] = IF access[c] = "set" THEN Handed[c] ELSE <<>>
  BY <1>1 DEF HandOver, ListInv, HookList, Busy
<1>3. cursor[c] \in Nat \ {0}
  BY DEF TypeOK
<1>4. access[c] = "set"
  BY <1>1, <1>2, <1>3
<1>5. cursor[c] \in DOMAIN Handed[c]
  BY <1>2, <1>3, <1>4, HandedAssumption
<1>6. ~ChildStarted(c, cursor[c])
  BY <1>3 DEF ChildStarted
<1> QED  BY <1>2, <1>4, <1>5, <1>6 DEF HandOver, StartedInv

LEMMA HandOverStart ==
  ASSUME TypeOK, HandOver, NEW c \in Caller, StartThread(c)
  PROVE  HandOver'
<1> DEFINE k == cursor[c]
<1>1. /\ UNCHANGED <<lists, ready_tasks, held, iterated, access, pc>>
      /\ cursor' = [cursor EXCEPT ![c] = @ + 1]
      /\ pc[c] = "loop" /\ k <= Len(lists[iterated[c]])
      /\ started' = started \cup {lists[iterated[c]][k]}
  BY DEF StartThread
<1>2. /\ access[c] = "set" /\ k \in DOMAIN Handed[c]
      /\ started' = started \cup {Handed[c][k]}
  BY <1>1, AtCursor
<1>3. ProgramInv' /\ ListInv'
  BY <1>1 DEF HandOver, ProgramInv, ListInv, HookList, IdleList, Private, Busy,
              Owner, Extended
<1>4. ASSUME NEW d \in Caller, NEW i \in DOMAIN Handed[d]
      PROVE  Handed[d][i] \in started' <=> (Starting(d) /\ ChildStarted(d, i))'
  <2>1. Handed[d][i] \in started <=> Starting(d) /\ ChildStarted(d, i)
    BY DEF HandOver, StartedInv
  <2>2. CASE d = c
    <3>1. Handed[c][i] = Handed[c][k] <=> i = k
      BY <1>2, <2>2, HandedAssumption
    <3>2. i \in Nat /\ k \in Nat /\ cursor'[c] = k + 1
      <4>1. i \in Nat
        BY HandedAssumption
      <4>2. k \in Nat /\ cursor'[c] = k + 1
        BY <1>1 DEF TypeOK
      <4> QED  BY <4>1, <4>2
    <3>3. Starting(c)' /\ (ChildStarted(c, i)' <=> i < k + 1)
      BY <1>1, <1>2, <3>2 DEF Starting, ChildStarted
    <3>4. ChildStarted(c, i) <=> i < k
      BY <1>1 DEF ChildStarted
    <3> QED  BY <1>1, <1>2, <2>1, <2>2, <3>1, <3>2, <3>3, <3>4 DEF Starting
  <2>3. CASE d # c
    <3>1. Handed[d][i] # Handed[c][k]
      BY <1>2, <2>3, HandedAssumption
    <3>2. cursor'[d] = cursor[d]
      BY <1>1, <2>3 DEF TypeOK
    <3> QED  BY <1>1, <1>2, <2>1, <3>1, <3>2 DEF Starting, ChildStarted
  <2> QED  BY <2>2, <2>3
<1> QED  BY <1>3, <1>4 DEF HandOver, StartedInv

LEMMA HandOverDrain ==
  ASSUME TypeOK, LockInv, HandOver, NEW c \in Caller, Drain(c)
  PROVE  HandOver'
<1>1. /\ lists' = Append(lists, <<>>) /\ ready_tasks' = Len(lists) + 1
      /\ UNCHANGED <<started, access, held>>
      /\ \A d \in Caller \ {c} :
            pc'[d] = pc[d] /\ iterated'[d] = iterated[d] /\ cursor'[d] = cursor[d]
      /\ pc[c] = "drain" /\ pc'[c] = "leave"
  BY DEF Drain, Emptied, Goto, TypeOK
<1>2. /\ Len(lists) \in Nat
      /\ lists'[ready_tasks'] = <<>>
      /\ \A i \in 1 .. Len(lists) : lists'[i] = lists[i] /\ i # ready_tasks'
  BY <1>1 DEF TypeOK
<1>3. /\ Busy(c) /\ access[c] \in {"get", "set"} /\ held[c] = ready_tasks
      /\ access[c] = "get" => lists[held[c]] = <<>>
  BY <1>1 DEF HandOver, ProgramInv, ListInv, HookList, Busy, TypeOK
<1>4. \A d \in Caller : ~Busy(d)'
  <2>1. \A d \in Caller \ {c} : ~Busy(d)
    BY <1>1, OneInside DEF Busy, Inside
  <2> QED  BY <1>1, <2>1 DEF Busy
<1>5. \A d \in Caller \ {c} : (Owner(d)' <=> Owner(d)) /\ (Extended(d)' <=> Extended(d))
  BY <1>1 DEF Owner, Extended
<1>6. (Owner(c)' <=> access[c] = "get") /\ ~Extended(c)'
  BY <1>1, <1>3 DEF Owner, Extended
<1>7. ProgramInv'
  BY <1>1 DEF HandOver, ProgramInv
<1>8. HookList' /\ IdleList'
  BY <1>2, <1>4 DEF HookList, IdleList
<1>9. \A d \in Caller : held'[d] = held[d] /\ held[d] \in 1 .. Len(lists)
  BY <1>1 DEF TypeOK
<1>10. ASSUME NEW d \in Caller, Owner(d)'
       PROVE  /\ held'[d] # ready_tasks'
              /\ lists'[held'[d]] = IF Extended(d)' THEN Handed[d] ELSE <<>>
  <2>1. CASE d = c
    BY <2>1, <1>2, <1>3, <1>6, <1>9, <1>10
  <2>2. CASE d # c
    BY <2>2, <1>2, <1>5, <1>9, <1>10 DEF HandOver, ListInv, Private
  <2> QED  BY <2>1, <2>2
<1>11. ASSUME NEW d \in Caller, NEW e \in Caller, Owner(d)', Owner(e)', held'[d] = held'[e]
       PROVE  d = e
  BY <1>3, <1>5, <1>9, <1>11 DEF HandOver, ListInv, Private
<1>12. Private'
  BY <1>10, <1>11 DEF Private
<1>13. StartedInv'
  BY <1>1 DEF StartedInv, HandOver, Starting, ChildStarted
<1> QED  BY <1>7, <1>8, <1>12, <1>13 DEF HandOver, ListInv

LEMMA HandOverStep ==
  ASSUME TypeOK, LockInv, HandOverInv, NEW c \in Caller, Step(c)
  PROVE  HandOverInv'
<1> SUFFICES ASSUME ~bypassed' PROVE HandOver'
  BY DEF HandOverInv
<1>1. ~bypassed
  BY DEF Step, Peek, Get, Set, Dispatch, Extend, Internal, Acquire, RunHooks, Iterate,
         StartThread, StartAgain, EndLoop, Drain, LeaveHooks, Release, TypeOK
<1>2. HandOver
  BY <1>1 DEF HandOverInv
<1>3. CASE Peek(c) \/ Get(c) \/ Set(c)
  BY <1>2, <1>3, HandOverDispatch DEF Peek, Get, Set
<1>4. CASE Extend(c)
  BY <1>2, <1>4, HandOverExtend
<1>5. CASE Internal(c)
  BY <1>2, <1>5 DEF Internal, HandOver, ProgramInv
<1>6. CASE Acquire(c)
  BY <1>2, <1>6, HandOverAcquire
<1>7. CASE RunHooks(c) \/ Iterate(c) \/ EndLoop(c) \/ LeaveHooks(c) \/ Release(c)
  BY <1>2, <1>7, HandOverMove
<1>8. CASE StartThread(c)
  BY <1>2, <1>8, HandOverStart
<1>9. CASE StartAgain(c)
  BY <1>2, <1>9, AtCursor DEF StartAgain
<1>10. CASE Drain(c)
  BY <1>2, <1>10, HandOverDrain
<1> QED  BY <1>3, <1>4, <1>5, <1>6, <1>7, <1>8, <1>9, <1>10 DEF Step

LEMMA HandOverNext == TypeOK /\ LockInv /\ HandOverInv /\ [Next]_vars => HandOverInv'
<1>1. TypeOK /\ LockInv /\ HandOverInv /\ Next => HandOverInv'
  BY HandOverStep DEF Next
<1>2. HandOverInv /\ UNCHANGED vars => HandOverInv'
  BY DEF HandOverInv, HandOver, ProgramInv, ListInv, HookList, IdleList, Private,
         StartedInv, Busy, Owner, Extended, Starting, ChildStarted, vars, heap, locals
<1> QED  BY <1>1, <1>2

LEMMA HandOverInit == Init => HandOverInv
<1> SUFFICES ASSUME Init PROVE HandOver
  BY DEF HandOverInv
<1>1. /\ \A c \in Caller : pc[c] = "call" /\ access[c] = "peek"
      /\ started = {} /\ lists[ready_tasks] = <<>>
  BY DEF Init
<1>2. ProgramInv /\ StartedInv
  BY <1>1 DEF ProgramInv, StartedInv, Starting
<1>3. \A c \in Caller : ~Busy(c) /\ ~Owner(c)
  BY <1>1 DEF Busy, Owner
<1> QED  BY <1>1, <1>2, <1>3 DEF HandOver, ListInv, HookList, IdleList, Private

LEMMA HandOverMeaning == TypeOK /\ HandOverInv => HandedIsStarted
<1> SUFFICES ASSUME TypeOK, HandOverInv, ~bypassed, NEW c \in Caller
             PROVE  /\ pc[c] # "dead"
                    /\ pc[c] = "done" => ToSet(Handed[c]) \subseteq started
  BY DEF HandedIsStarted
<1>1. HandOver
  BY DEF HandOverInv
<1>2. ASSUME pc[c] = "done", NEW x \in ToSet(Handed[c])
      PROVE  x \in started
  <2>1. PICK i \in DOMAIN Handed[c] : x = Handed[c][i]
    BY <1>2 DEF ToSet
  <2>2. Starting(c) /\ ChildStarted(c, i)
    BY <1>1, <1>2 DEF HandOver, ProgramInv, Starting, ChildStarted
  <2> QED  BY <1>1, <2>1, <2>2 DEF HandOver, StartedInv
<1> QED  BY <1>1, <1>2 DEF HandOver, ProgramInv

\* As long as no access falls into a hook of another thread, += starts every
\* thread that was handed over, and none twice.
THEOREM HandedOverAreStarted == Spec => []HandedIsStarted
<1>1. Init => LockInv
  BY DEF Init, LockInv, Inside
<1> QED
  BY <1>1, LockNext, HandOverInit, HandOverNext, HandOverMeaning, TypeCorrect, PTL DEF Spec
=============================================================================
