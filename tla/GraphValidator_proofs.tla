------------------------ MODULE GraphValidator_proofs ------------------------
(***************************************************************************)
(* The walk of has_cycle answers what the closed form HasCycle says, on    *)
(* every task graph.  First come the operators of TaskGraph, which compute *)
(* by recursion over lists and levels, then the machine.                   *)
(***************************************************************************)
EXTENDS GraphValidator, FiniteSetTheorems, SequenceTheorems, WellFoundedInduction, TLAPS

\* A non-empty set of naturals has a least element.
LEMMA LeastOf ==
  ASSUME NEW T \in SUBSET Nat, T # {}
  PROVE  \E i \in T : \A j \in T : i <= j
<1>1. PICK i \in T : \A j \in T : ~(<<j, i>> \in OpToRel(<, Nat))
  BY WFMin, NatLessThanWellFounded, Zenon
<1>2. \A j \in T : ~(j < i)
  BY <1>1 DEF OpToRel
<1> QED
  BY <1>2
-----------------------------------------------------------------------------
(***************************************************************************)
(* InListOrder.  A recursive function is a CHOOSE, so that its equations have  *)
(* a solution has to be shown first.                                       *)
(***************************************************************************)
Takes(s, S, f, n) ==
    f = [i \in 0 .. n |->
           IF i = 0 THEN <<>>
           ELSE IF s[i] \in S THEN Append(f[i - 1], s[i]) ELSE f[i - 1]]

LEMMA TakesExist ==
  ASSUME NEW s, NEW S, NEW n \in Nat
  PROVE  \E f : Takes(s, S, f, n)
<1> DEFINE T == {i \in Nat : ~ \E f : Takes(s, S, f, i)}
<1> SUFFICES ASSUME T # {} PROVE FALSE
  OBVIOUS
<1>1. PICK k \in T : \A j \in T : k <= j
  BY LeastOf
<1>2. k \in Nat /\ ~ \E f : Takes(s, S, f, k)
  BY <1>1
<1>3. \A j \in Nat : j < k => \E f : Takes(s, S, f, j)
  BY <1>1
<1> HIDE DEF T
<1>4. CASE k = 0
  <2> DEFINE g == [i \in 0 .. 0 |-> <<>>]
  <2>1. Takes(s, S, g, 0)
    BY DEF Takes
  <2> QED
    BY <1>2, <1>4, <2>1
<1>5. CASE k # 0
  <2>1. PICK f : Takes(s, S, f, k - 1)
    BY <1>2, <1>3, <1>5
  <2> DEFINE Taken(h, i) == IF i = 0 THEN <<>>
                            ELSE IF s[i] \in S THEN Append(h[i - 1], s[i]) ELSE h[i - 1]
             g == [i \in 0 .. k |-> Taken(f, i)]
  <2>2. \A i \in 0 .. k - 1 : f[i] = Taken(f, i)
    BY <2>1 DEF Takes
  <2>3. \A i \in 0 .. k : g[i] = Taken(f, i)
    OBVIOUS
  <2>4. g = [i \in 0 .. k |-> g[i]]
    OBVIOUS
  <2>5. \A i \in 0 .. k - 1 : g[i] = f[i]
    <3> HIDE DEF g, Taken
    <3> QED
      BY <1>2, <1>5, <2>2, <2>3
  <2> HIDE DEF g
  <2>6. \A i \in 0 .. k : g[i] = Taken(g, i)
    <3>1. \A i \in 0 .. k : i # 0 => i - 1 \in 0 .. k - 1
      BY <1>2
    <3> QED
      BY <2>3, <2>5, <3>1
  <2>7. Takes(s, S, g, k)
    BY <2>4, <2>6 DEF Takes
  <2> QED
    BY <1>2, <2>7
<1> QED
  BY <1>4, <1>5

LEMMA InListOrderTakes ==
  ASSUME NEW s, NEW S, Len(s) \in Nat
  PROVE  \E f : Takes(s, S, f, Len(s)) /\ InListOrder(s, S) = f[Len(s)]
<1> DEFINE N == Len(s)
           f == CHOOSE f : f = [i \in 0 .. N |->
                  IF i = 0 THEN <<>>
                  ELSE IF s[i] \in S THEN Append(f[i - 1], s[i]) ELSE f[i - 1]]
<1>1. InListOrder(s, S) = f[N]
  BY DEF InListOrder
<1>2. \E g : Takes(s, S, g, N)
  <2> HIDE DEF f
  <2> QED
    BY TakesExist
<1>3. \E g : g = [i \in 0 .. N |->
                  IF i = 0 THEN <<>>
                  ELSE IF s[i] \in S THEN Append(g[i - 1], s[i]) ELSE g[i - 1]]
  <2> HIDE DEF f
  <2> QED
    BY <1>2, Zenon DEF Takes
<1>4. f = [i \in 0 .. N |->
                  IF i = 0 THEN <<>>
                  ELSE IF s[i] \in S THEN Append(f[i - 1], s[i]) ELSE f[i - 1]]
  BY <1>3
<1> HIDE DEF f
<1> QED
  BY <1>1, <1>4 DEF Takes

\* What is taken from a list without repetitions has none, and has what the
\* list has of S.
LEMMA InListOrderSound ==
  ASSUME NEW X, NEW s \in Seq(X), NEW S, IsInjective(s)
  PROVE  /\ InListOrder(s, S) \in Seq(X)
         /\ ToSet(InListOrder(s, S)) = ToSet(s) \cap S
         /\ IsInjective(InListOrder(s, S))
<1> DEFINE N == Len(s)
           Part(n) == {s[i] : i \in 1 .. n} \cap S
           Good(q, n) == q \in Seq(X) /\ ToSet(q) = Part(n) /\ IsInjective(q)
<1>1. N \in Nat
  OBVIOUS
<1>2. PICK f : Takes(s, S, f, N) /\ InListOrder(s, S) = f[N]
  BY InListOrderTakes
<1>3. /\ f[0] = <<>>
      /\ \A i \in 1 .. N : f[i] = IF s[i] \in S THEN Append(f[i - 1], s[i]) ELSE f[i - 1]
  <2>1. \A i \in 0 .. N : f[i] = IF i = 0 THEN <<>>
                                 ELSE IF s[i] \in S THEN Append(f[i - 1], s[i]) ELSE f[i - 1]
    BY <1>2 DEF Takes
  <2> QED
    BY <1>1, <2>1
<1>4. Good(f[0], 0)
  BY <1>3 DEF ToSet, IsInjective
<1>5. ASSUME NEW i \in 1 .. N, Good(f[i - 1], i - 1)
      PROVE  Good(f[i], i)
  <2>1. s[i] \in X /\ Part(i) = Part(i - 1) \cup ({s[i]} \cap S)
    BY <1>1
  <2>2. CASE s[i] \in S
    <3> DEFINE q == f[i - 1]
    <3>1. q \in Seq(X) /\ ToSet(q) = Part(i - 1) /\ IsInjective(q) /\ f[i] = Append(q, s[i])
      BY <1>3, <1>5, <2>2
    <3>2. DOMAIN q = 1 .. Len(q)
      <4> HIDE DEF q
      <4> QED
        BY <3>1
    <3>3. \A k \in 1 .. Len(q) : \E j \in 1 .. i - 1 : q[k] = s[j]
      <4> HIDE DEF q
      <4>1. \A k \in 1 .. Len(q) : q[k] \in ToSet(q)
        BY <3>2 DEF ToSet
      <4> QED
        BY <3>1, <4>1
    <3>4. \A k \in 1 .. Len(q) : q[k] # s[i]
      BY <1>1, <3>3 DEF IsInjective
    <3> HIDE DEF q
    <3>5. /\ f[i] \in Seq(X) /\ Len(f[i]) = Len(q) + 1 /\ f[i][Len(q) + 1] = s[i]
          /\ \A k \in 1 .. Len(q) : f[i][k] = q[k]
      BY <2>1, <3>1
    <3>6. ToSet(f[i]) = ToSet(q) \cup {s[i]}
      BY <3>1, <3>5 DEF ToSet
    <3>7. IsInjective(f[i])
      BY <3>1, <3>4, <3>5 DEF IsInjective
    <3> QED
      BY <2>1, <2>2, <3>1, <3>5, <3>6, <3>7
  <2>3. CASE s[i] \notin S
    BY <1>3, <1>5, <2>1, <2>3
  <2> QED
    BY <2>2, <2>3
<1>6. Good(f[N], N)
  <2> DEFINE T == {n \in 0 .. N : ~Good(f[n], n)}
  <2> HIDE DEF Good
  <2> SUFFICES ASSUME T # {} PROVE FALSE
    BY <1>1
  <2>1. T \in SUBSET Nat
    BY <1>1
  <2>2. PICK k \in T : \A j \in T : k <= j
    BY <2>1, LeastOf
  <2>3. k \in 1 .. N /\ ~Good(f[k], k)
    BY <1>4, <2>2
  <2>4. k - 1 \in 0 .. N /\ k - 1 \notin T
    BY <2>2, <2>3
  <2>5. Good(f[k - 1], k - 1)
    BY <2>4
  <2> QED
    BY <1>5, <2>3, <2>5
<1> QED
  BY <1>2, <1>6 DEF ToSet
-----------------------------------------------------------------------------
(***************************************************************************)
(* The graph of a submission that has passed the checks before has_cycle.  *)
(***************************************************************************)
Validated(p) == p \in Pipeline /\ ~InvalidDependencies(p) /\ InitialTasks(p) # <<>>

LEMMA Neighbours ==
  ASSUME NEW p, Validated(p), NEW v
  PROVE  /\ \A c \in Children(p, v) :
               /\ v \in ToSet(p.tasks) /\ c \in ToSet(p.tasks) /\ c # v
               /\ c \notin ToSet(InitialTasks(p))
         /\ Dependents(p, v) \in Seq(Task)
         /\ ToSet(Dependents(p, v)) = Children(p, v)
         /\ IsInjective(Dependents(p, v))
<1>1. p.tasks \in Seq(Task) /\ IsInjective(p.tasks)
  BY DEF Validated, Pipeline
<1>2. ToSet(InitialTasks(p)) \subseteq {t \in ToSet(p.tasks) : p.depends_on[t] = {}}
  BY <1>1, InListOrderSound DEF InitialTasks
<1>3. ASSUME NEW c \in Children(p, v)
      PROVE  /\ v \in ToSet(p.tasks) /\ c \in ToSet(p.tasks) /\ c # v
             /\ c \notin ToSet(InitialTasks(p))
  <2>1. c \in ToSet(p.tasks) /\ \E d \in p.depends_on[c] : d.id = v
    BY DEF Children, DependencyIds
  <2> QED
    BY <1>2, <2>1 DEF Validated, InvalidDependencies
<1>4. ToSet(p.tasks) \cap Children(p, v) = Children(p, v)
  BY DEF Children
<1> QED
  BY <1>1, <1>3, <1>4, InListOrderSound DEF Dependents

LEMMA Initials ==
  ASSUME NEW p, Validated(p)
  PROVE  /\ InitialTasks(p) \in Seq(Task) /\ IsInjective(InitialTasks(p))
         /\ ToSet(InitialTasks(p)) \subseteq ToSet(p.tasks)
<1>1. p.tasks \in Seq(Task) /\ IsInjective(p.tasks)
  BY DEF Validated, Pipeline
<1> QED
  BY <1>1, InListOrderSound DEF InitialTasks
-----------------------------------------------------------------------------
(***************************************************************************)
(* WalkedEdges.  Each level adds the edges that leave the targets of the   *)
(* one before.  As long as a level adds a target, the levels have at least *)
(* as many targets as their number says; so by the number of tasks there   *)
(* is nothing left to add.                                                 *)
(***************************************************************************)
Targets(E) == {e[2] : e \in E}
Onward(p, W) == W \cup EdgesFrom(p, Targets(W))

Rounds(p, f, n) ==
    f = [i \in 0 .. n |-> IF i = 0 THEN EntryEdges(p) ELSE Onward(p, f[i - 1])]

LEMMA RoundsExist ==
  ASSUME NEW p, NEW n \in Nat
  PROVE  \E f : Rounds(p, f, n)
<1> DEFINE T == {i \in Nat : ~ \E f : Rounds(p, f, i)}
<1> SUFFICES ASSUME T # {} PROVE FALSE
  OBVIOUS
<1>1. PICK k \in T : \A j \in T : k <= j
  BY LeastOf
<1>2. k \in Nat /\ ~ \E f : Rounds(p, f, k)
  BY <1>1
<1>3. \A j \in Nat : j < k => \E f : Rounds(p, f, j)
  BY <1>1
<1> HIDE DEF T
<1>4. CASE k = 0
  <2> DEFINE g == [i \in 0 .. 0 |-> EntryEdges(p)]
  <2>1. Rounds(p, g, 0)
    BY DEF Rounds
  <2> QED
    BY <1>2, <1>4, <2>1
<1>5. CASE k # 0
  <2>1. PICK f : Rounds(p, f, k - 1)
    BY <1>2, <1>3, <1>5
  <2> DEFINE Round(h, i) == IF i = 0 THEN EntryEdges(p) ELSE Onward(p, h[i - 1])
             g == [i \in 0 .. k |-> Round(f, i)]
  <2>2. \A i \in 0 .. k - 1 : f[i] = Round(f, i)
    BY <2>1 DEF Rounds
  <2>3. \A i \in 0 .. k : g[i] = Round(f, i)
    OBVIOUS
  <2>4. g = [i \in 0 .. k |-> g[i]]
    OBVIOUS
  <2>5. \A i \in 0 .. k - 1 : g[i] = f[i]
    <3> HIDE DEF g, Round
    <3> QED
      BY <1>2, <1>5, <2>2, <2>3
  <2> HIDE DEF g
  <2>6. \A i \in 0 .. k : g[i] = Round(g, i)
    <3>1. \A i \in 0 .. k : i # 0 => i - 1 \in 0 .. k - 1
      BY <1>2
    <3> QED
      BY <2>3, <2>5, <3>1
  <2>7. Rounds(p, g, k)
    BY <2>4, <2>6 DEF Rounds
  <2> QED
    BY <1>2, <2>7
<1> QED
  BY <1>4, <1>5

LEMMA WalkedRounds ==
  ASSUME NEW p, Len(p.tasks) \in Nat
  PROVE  \E f : /\ WalkedEdges(p) = f[Len(p.tasks)]
               /\ f[0] = EntryEdges(p)
               /\ \A i \in 1 .. Len(p.tasks) : f[i] = Onward(p, f[i - 1])
<1> DEFINE N == Len(p.tasks)
           f == CHOOSE f : f = [i \in 0 .. N |-> IF i = 0 THEN EntryEdges(p)
                                                 ELSE Onward(p, f[i - 1])]
<1>1. WalkedEdges(p) = f[N]
  BY DEF WalkedEdges, Onward, Targets
<1>2. \E g : Rounds(p, g, N)
  <2> HIDE DEF f
  <2> QED
    BY RoundsExist
<1>3. \E g : g = [i \in 0 .. N |-> IF i = 0 THEN EntryEdges(p) ELSE Onward(p, g[i - 1])]
  <2> HIDE DEF f
  <2> QED
    BY <1>2, Zenon DEF Rounds
<1>4. f = [i \in 0 .. N |-> IF i = 0 THEN EntryEdges(p) ELSE Onward(p, f[i - 1])]
  BY <1>3
<1> HIDE DEF f
<1>5. \A i \in 0 .. N : f[i] = IF i = 0 THEN EntryEdges(p) ELSE Onward(p, f[i - 1])
  BY <1>4
<1> QED
  BY <1>1, <1>5

\* The walked edges are in every set with the entry edges that is closed ...
LEMMA WalkedWithin ==
  ASSUME NEW p, Len(p.tasks) \in Nat, NEW S, EntryEdges(p) \subseteq S, Onward(p, S) \subseteq S
  PROVE  WalkedEdges(p) \subseteq S
<1> DEFINE N == Len(p.tasks)
<1>1. PICK f : /\ WalkedEdges(p) = f[N] /\ f[0] = EntryEdges(p)
               /\ \A i \in 1 .. N : f[i] = Onward(p, f[i - 1])
  BY WalkedRounds
<1> DEFINE T == {i \in 0 .. N : ~(f[i] \subseteq S)}
<1> SUFFICES ASSUME T # {} PROVE FALSE
  BY <1>1
<1>2. T \in SUBSET Nat
  OBVIOUS
<1>3. PICK k \in T : \A j \in T : k <= j
  BY <1>2, LeastOf
<1>4. k \in 1 .. N
  BY <1>1, <1>3
<1>5. f[k - 1] \subseteq S
  BY <1>3, <1>4
<1>6. f[k] = Onward(p, f[k - 1])
  BY <1>1, <1>4
<1>7. Onward(p, f[k - 1]) \subseteq Onward(p, S)
  BY <1>5 DEF Onward, EdgesFrom, Targets
<1> QED
  BY <1>3, <1>6, <1>7

LEMMA NumberOfTasks ==
  ASSUME NEW s \in Seq(Task)
  PROVE  IsFiniteSet(ToSet(s)) /\ Cardinality(ToSet(s)) <= Len(s)
<1>1. Len(s) \in Nat /\ s \in [1 .. Len(s) -> ToSet(s)] /\ ToSet(s) = {s[i] : i \in 1 .. Len(s)}
  BY DEF ToSet
<1>2. IsFiniteSet(1 .. Len(s)) /\ Cardinality(1 .. Len(s)) = Len(s)
  BY <1>1, FS_Interval
<1>3. s \in Surjection(1 .. Len(s), ToSet(s))
  BY <1>1 DEF Surjection
<1> QED
  BY <1>2, <1>3, FS_Surjection

LEMMA EdgeOnward ==
  ASSUME NEW p, NEW W, NEW e \in W, NEW c \in Children(p, e[2])
  PROVE  <<e[2], c>> \in Onward(p, W)
<1>1. e[2] \in Targets(W)
  BY DEF Targets
<1>2. <<e[2], c>> \in {<<e[2], d>> : d \in Children(p, e[2])}
  OBVIOUS
<1>3. <<e[2], c>> \in EdgesFrom(p, Targets(W))
  BY <1>1, <1>2 DEF EdgesFrom
<1> QED
  BY <1>3 DEF Onward

\* ... and closed themselves.
LEMMA WalkedClosed ==
  ASSUME NEW p, Validated(p)
  PROVE  EntryEdges(p) \subseteq WalkedEdges(p) /\ Onward(p, WalkedEdges(p)) = WalkedEdges(p)
<1> DEFINE N == Len(p.tasks)
           Inner == ToSet(p.tasks) \ ToSet(InitialTasks(p))
<1>1. p.tasks \in Seq(Task) /\ N \in Nat
  BY DEF Validated, Pipeline
<1>2. PICK f : /\ WalkedEdges(p) = f[N] /\ f[0] = EntryEdges(p)
               /\ \A i \in 1 .. N : f[i] = Onward(p, f[i - 1])
  BY <1>1, WalkedRounds
<1> HIDE DEF N
<1>3. IsFiniteSet(Inner) /\ Cardinality(Inner) \in Nat /\ Cardinality(Inner) < N
  <2>1. IsFiniteSet(ToSet(p.tasks)) /\ Cardinality(ToSet(p.tasks)) <= N
    BY <1>1, NumberOfTasks DEF N
  <2>2. PICK t \in ToSet(InitialTasks(p)) : t \in ToSet(p.tasks)
    <3>1. InitialTasks(p) \in Seq(Task) /\ InitialTasks(p) # <<>>
      BY Initials DEF Validated
    <3>2. 1 \in DOMAIN InitialTasks(p)
      BY <3>1
    <3>3. InitialTasks(p)[1] \in ToSet(InitialTasks(p))
      BY <3>2 DEF ToSet
    <3> QED
      BY <3>3, Initials
  <2>3. /\ IsFiniteSet(ToSet(p.tasks) \ {t})
        /\ Cardinality(ToSet(p.tasks) \ {t}) = Cardinality(ToSet(p.tasks)) - 1
    BY <2>1, <2>2, FS_RemoveElement
  <2>4. Inner \in SUBSET (ToSet(p.tasks) \ {t})
    BY <2>2
  <2>5. IsFiniteSet(Inner) /\ Cardinality(Inner) <= Cardinality(ToSet(p.tasks) \ {t})
    BY <2>3, <2>4, FS_Subset
  <2>6. Cardinality(Inner) \in Nat /\ Cardinality(ToSet(p.tasks)) \in Nat
    BY <2>1, <2>5, FS_CardinalityType
  <2> QED
    BY <1>1, <2>1, <2>3, <2>5, <2>6
<1> HIDE DEF Inner
<1> DEFINE Good(i) ==
      /\ EntryEdges(p) \subseteq f[i] /\ Targets(f[i]) \subseteq Inner
      /\ Onward(p, f[i]) = f[i] \/ i <= Cardinality(Targets(f[i]))
<1>4. \A S : Targets(EdgesFrom(p, S)) \subseteq Inner
  BY Neighbours DEF Targets, EdgesFrom, Inner
<1>5. Targets(EntryEdges(p)) \subseteq Inner
  <2>1. ASSUME NEW t, Dependents(p, t) # <<>>
        PROVE  Dependents(p, t)[1] \in Inner
    <3>1. Dependents(p, t) \in Seq(Task) /\ ToSet(Dependents(p, t)) = Children(p, t)
      BY Neighbours
    <3>2. Dependents(p, t)[1] \in Children(p, t)
      BY <2>1, <3>1 DEF ToSet
    <3> QED
      BY <3>2, Neighbours DEF Inner
  <2> QED
    BY <2>1 DEF Targets, EntryEdges
<1>6. Good(0)
  <2>1. IsFiniteSet(Targets(f[0]))
    BY <1>2, <1>3, <1>5, FS_Subset
  <2> QED
    BY <1>2, <1>5, <2>1, FS_CardinalityType
<1>7. ASSUME NEW i \in 1 .. N, Good(i - 1)
      PROVE  Good(i)
  <2> DEFINE A == f[i - 1]
             B == f[i]
  <2>1. B = A \cup EdgesFrom(p, Targets(A)) /\ Onward(p, A) = B
    BY <1>2 DEF Onward
  <2>2. EntryEdges(p) \subseteq A /\ Targets(A) \subseteq Inner
    BY <1>7
  <2>3. Onward(p, A) = A \/ i - 1 <= Cardinality(Targets(A))
    BY <1>7
  <2> SUFFICES /\ EntryEdges(p) \subseteq B /\ Targets(B) \subseteq Inner
               /\ Onward(p, B) = B \/ i <= Cardinality(Targets(B))
    OBVIOUS
  <2> HIDE DEF A, B
  <2>4. Targets(B) = Targets(A) \cup Targets(EdgesFrom(p, Targets(A)))
    BY <2>1 DEF Targets
  <2>5. Targets(B) \subseteq Inner
    BY <1>4, <2>2, <2>4
  <2>6. CASE Onward(p, A) = A
    BY <2>1, <2>2, <2>5, <2>6
  <2>7. CASE Targets(B) = Targets(A)
    BY <2>1, <2>2, <2>5, <2>7 DEF Onward
  <2>8. CASE Targets(B) # Targets(A) /\ i - 1 <= Cardinality(Targets(A))
    <3>1. IsFiniteSet(Targets(B)) /\ Targets(A) \in SUBSET Targets(B)
      BY <1>3, <2>4, <2>5, FS_Subset
    <3>2. /\ IsFiniteSet(Targets(A)) /\ Cardinality(Targets(A)) <= Cardinality(Targets(B))
          /\ Cardinality(Targets(A)) # Cardinality(Targets(B))
      BY <2>8, <3>1, FS_Subset
    <3>3. Cardinality(Targets(A)) \in Nat /\ Cardinality(Targets(B)) \in Nat
      BY <3>1, <3>2, FS_CardinalityType
    <3>4. i <= Cardinality(Targets(B))
      BY <1>1, <2>8, <3>2, <3>3
    <3> QED
      BY <2>1, <2>2, <2>5, <3>4
  <2> QED
    BY <2>3, <2>6, <2>7, <2>8
<1>8. Good(N)
  <2> DEFINE T == {n \in 0 .. N : ~Good(n)}
  <2> HIDE DEF Good
  <2> SUFFICES ASSUME T # {} PROVE FALSE
    BY <1>1
  <2>1. T \in SUBSET Nat
    BY <1>1
  <2>2. PICK k \in T : \A j \in T : k <= j
    BY <2>1, LeastOf
  <2>3. k \in 1 .. N /\ ~Good(k)
    BY <1>6, <2>2
  <2>4. k - 1 \in 0 .. N /\ k - 1 \notin T
    BY <1>1, <2>2, <2>3
  <2> QED
    BY <1>7, <2>3, <2>4
<1>9. Cardinality(Targets(f[N])) <= Cardinality(Inner) /\ Cardinality(Targets(f[N])) \in Nat
  BY <1>3, <1>8, FS_Subset, FS_CardinalityType
<1>10. Onward(p, f[N]) = f[N]
  BY <1>1, <1>3, <1>8, <1>9
<1> QED
  BY <1>2, <1>8, <1>10
-----------------------------------------------------------------------------
(***************************************************************************)
(* The machine.  What its stack and its marks say while it has not         *)
(* answered; the vertex of the top frame is where it walks on.             *)
(***************************************************************************)
Frame == [vertex : Task, next : Nat \ {0}]
Into(E, v) == {e \in E : e[2] = v}
Joined(E, v) == \E e, f \in Into(E, v) : e # f
Leads(p, v) == Children(p, v) # {}
First(p, v) == <<v, Dependents(p, v)[1]>>
AtStart(frames, v) == frames # <<>> /\ Last(frames) = Call(v)
Left(p, frame) == frame.next .. Len(Dependents(p, frame.vertex))
Exit(p, frame, k) == <<frame.vertex, Dependents(p, frame.vertex)[k]>>
Turn(p, j, v) == j <= Len(InitialTasks(p)) /\ v = InitialTasks(p)[j]

Shape ==
    /\ root \in Nat \ {0}
    /\ stack \in Seq(Frame)
    /\ traversed_edges \subseteq WalkedEdges(pipeline)
    /\ \A e \in traversed_edges : e = <<e[1], e[2]>> /\ e[2] \in Children(pipeline, e[1])

\* Every edge starts at a root that has had its turn, or where another one ends.
Origins ==
    \A e \in traversed_edges :
        \/ Into(traversed_edges, e[1]) # {}
        \/ \E j \in 1 .. root - 1 : Turn(pipeline, j, e[1])

\* A frame was pushed with an edge into its vertex, and each one with its own.
Frames ==
    /\ \A i \in 1 .. Len(stack) : Into(traversed_edges, stack[i].vertex) # {}
    /\ \A i, j \in 1 .. Len(stack) :
          i # j /\ stack[i].vertex = stack[j].vertex => Joined(traversed_edges, stack[i].vertex)

\* What a frame has still to follow was not followed before, unless its vertex
\* has been reached along two edges.
Untaken ==
    \A i \in 1 .. Len(stack) : \A k \in Left(pipeline, stack[i]) :
        Exit(pipeline, stack[i], k) \in traversed_edges => Joined(traversed_edges, stack[i].vertex)

\* What is to be walked has been, or a frame is to follow it.
Unfinished ==
    /\ \A e \in traversed_edges : \A c \in Children(pipeline, e[2]) :
          \/ <<e[2], c>> \in traversed_edges
          \/ \E i \in 1 .. Len(stack) : \E k \in Left(pipeline, stack[i]) :
                 Exit(pipeline, stack[i], k) = <<e[2], c>>
    /\ \A j \in 1 .. root - 1 :
          j <= Len(InitialTasks(pipeline)) /\ Dependents(pipeline, InitialTasks(pipeline)[j]) # <<>> =>
              First(pipeline, InitialTasks(pipeline)[j]) \in traversed_edges

\* Whoever reaches a vertex goes on at once along its first edge: so a second
\* edge into the vertex is noticed at the next step.
AtOnce ==
    \A v \in Task : Leads(pipeline, v) =>
        /\ Into(traversed_edges, v) # {} => First(pipeline, v) \in traversed_edges \/ AtStart(stack, v)
        /\ Joined(traversed_edges, v) => First(pipeline, v) \in traversed_edges /\ AtStart(stack, v)

Walking == Shape /\ Origins /\ Frames /\ Untaken /\ Unfinished /\ AtOnce

IInv ==
    /\ Validated(pipeline) /\ pipeline \in Pipelines
    /\ verdict \in {"running", "cycle", "acyclic"}
    /\ verdict = "running" => Walking
    /\ VerdictIsHasCycle

LEMMA WalkInit == Init => IInv
<1> SUFFICES ASSUME Init PROVE IInv
  OBVIOUS
<1>1. /\ pipeline \in Pipelines /\ ~InvalidDependencies(pipeline) /\ InitialTasks(pipeline) # <<>>
      /\ root = 1 /\ stack = <<>> /\ traversed_edges = {} /\ verdict = "running"
  BY DEF Init
<1>2. Validated(pipeline)
  BY <1>1, PipelinesAssumption DEF Validated
<1>3. Shape /\ Origins /\ Frames /\ Untaken /\ Unfinished
  BY <1>1 DEF Shape, Origins, Frames, Untaken, Unfinished
<1>4. AtOnce
  BY <1>1 DEF AtOnce, Into, Joined
<1> QED
  BY <1>1, <1>2, <1>3, <1>4 DEF IInv, Walking, VerdictIsHasCycle
-----------------------------------------------------------------------------
(***************************************************************************)
(* A step that follows the edge from v to c for the first time.            *)
(***************************************************************************)
FromRoot(v, c) ==
    /\ stack = <<>> /\ root <= Len(InitialTasks(pipeline)) /\ v = InitialTasks(pipeline)[root]
    /\ c = Dependents(pipeline, v)[1] /\ root' = root + 1

FromTop(v, c) ==
    /\ Len(stack) \in Nat \ {0} /\ v = stack[Len(stack)].vertex
    /\ stack[Len(stack)].next \in 1 .. Len(Dependents(pipeline, v))
    /\ c = Dependents(pipeline, v)[stack[Len(stack)].next]
    /\ root' = root
    /\ stack'[Len(stack)].vertex = v /\ stack'[Len(stack)].next = stack[Len(stack)].next + 1
    /\ \A i \in 1 .. Len(stack) - 1 : stack'[i] = stack[i]

Follows(v, c) ==
    /\ pipeline' = pipeline
    /\ c \in Children(pipeline, v) /\ <<v, c>> \notin traversed_edges
    /\ traversed_edges' = traversed_edges \cup {<<v, c>>}
    /\ stack' \in Seq(Frame)
    /\ Len(stack') = Len(stack) + 1 /\ stack'[Len(stack) + 1] = Call(c)
    /\ FromRoot(v, c) \/ FromTop(v, c)

\* A root has not been walked from before its turn.
LEMMA RootUntouched ==
  ASSUME Validated(pipeline), Walking, root <= Len(InitialTasks(pipeline)),
         NEW e \in traversed_edges
  PROVE  e[1] # InitialTasks(pipeline)[root] /\ e[2] # InitialTasks(pipeline)[root]
<1> DEFINE I == InitialTasks(pipeline)
<1>1. I \in Seq(Task) /\ IsInjective(I) /\ root \in Nat \ {0}
  BY Initials DEF Walking, Shape
<1>2. root \in DOMAIN I /\ DOMAIN I = 1 .. Len(I)
  BY <1>1
<1>3. I[root] \in ToSet(I)
  BY <1>2 DEF ToSet
<1>4. \A f \in traversed_edges : f[2] # I[root]
  BY <1>3, Neighbours DEF Walking, Shape
<1>5. ASSUME NEW j \in 1 .. root - 1, j <= Len(I)
      PROVE  I[j] # I[root]
  BY <1>1, <1>2, <1>5 DEF IsInjective
<1> HIDE DEF I
<1>6. Into(traversed_edges, I[root]) = {}
  BY <1>4 DEF Into
<1> QED
  BY <1>4, <1>5, <1>6 DEF Walking, Origins, Turn, I

LEMMA FollowsFacts ==
  ASSUME Validated(pipeline), Walking, NEW v, NEW c, Follows(v, c)
  PROVE  /\ v # c /\ c \in Task /\ Len(stack) \in Nat
         /\ \A w : Into(traversed_edges', w) = IF w = c THEN Into(traversed_edges, w) \cup {<<v, c>>}
                           ELSE Into(traversed_edges, w)
         /\ \A w : Joined(traversed_edges, w) => Joined(traversed_edges', w)
         /\ Into(traversed_edges, c) # {} => Joined(traversed_edges', c)
         /\ \A i \in 1 .. Len(stack) :
               /\ stack'[i].vertex = stack[i].vertex /\ stack[i].next \in Nat \ {0}
               /\ \/ stack'[i].next = stack[i].next
                  \/ /\ stack'[i].next = stack[i].next + 1
                     /\ i = Len(stack) /\ Exit(pipeline, stack[i], stack[i].next) = <<v, c>>
<1>1. stack \in Seq(Frame) /\ Len(stack) \in Nat
  BY DEF Walking, Shape
<1>2. v # c /\ c \in Task
  <2>1. c \in ToSet(pipeline.tasks) /\ pipeline.tasks \in Seq(Task)
    BY Neighbours DEF Follows, Validated, Pipeline
  <2>2. c # v
    BY Neighbours DEF Follows
  <2> QED
    BY <2>1, <2>2 DEF ToSet
<1>3. \A w : Into(traversed_edges', w) = IF w = c THEN Into(traversed_edges, w) \cup {<<v, c>>}
                  ELSE Into(traversed_edges, w)
  BY DEF Into, Follows
<1>4. <<v, c>> \notin Into(traversed_edges, c)
  BY DEF Into, Follows
<1>5. \A w : Joined(traversed_edges, w) => Joined(traversed_edges', w)
  BY <1>3 DEF Joined
<1>6. Into(traversed_edges, c) # {} => Joined(traversed_edges', c)
  BY <1>3, <1>4 DEF Joined
<1>7. ASSUME NEW i \in 1 .. Len(stack)
      PROVE  /\ stack'[i].vertex = stack[i].vertex /\ stack[i].next \in Nat \ {0}
             /\ \/ stack'[i].next = stack[i].next
                \/ /\ stack'[i].next = stack[i].next + 1
                   /\ i = Len(stack) /\ Exit(pipeline, stack[i], stack[i].next) = <<v, c>>
  <2>1. FromTop(v, c)
    BY <1>1 DEF Follows, FromRoot
  <2>2. stack[i] \in Frame
    BY <1>1
  <2>3. stack[i].next \in Nat \ {0}
    BY <2>2 DEF Frame
  <2>4. CASE i = Len(stack)
    BY <2>1, <2>3, <2>4 DEF FromTop, Exit
  <2>5. CASE i # Len(stack)
    <3>1. stack'[i] = stack[i]
      BY <1>1, <2>1, <2>5 DEF FromTop
    <3> QED
      BY <2>3, <3>1
  <2> QED
    BY <2>4, <2>5
<1> QED
  BY <1>1, <1>2, <1>3, <1>5, <1>6, <1>7

\* The walk is still in order after such a step.
LEMMA FollowsKeeps ==
  ASSUME Validated(pipeline), Walking, NEW v, NEW c, Follows(v, c)
  PROVE  Walking'
<1> DEFINE n == Len(stack)
<1>1. /\ v # c /\ c \in Task /\ n \in Nat /\ Len(stack') = n + 1
      /\ stack'[n + 1].vertex = c /\ stack'[n + 1].next = 1 /\ stack'[n + 1] = Call(c)
      /\ pipeline' = pipeline /\ root \in Nat \ {0} /\ root' \in {root, root + 1}
  BY FollowsFacts DEF Follows, FromRoot, FromTop, Call, Walking, Shape
<1>2. \A w : Into(traversed_edges', w) = IF w = c THEN Into(traversed_edges, w) \cup {<<v, c>>}
                  ELSE Into(traversed_edges, w)
  BY FollowsFacts
<1>3. /\ \A w : Joined(traversed_edges, w) => Joined(traversed_edges', w)
      /\ Into(traversed_edges, c) # {} => Joined(traversed_edges', c)
  BY FollowsFacts
<1>4. \A i \in 1 .. n :
        /\ stack'[i].vertex = stack[i].vertex /\ stack[i].next \in Nat \ {0}
        /\ \/ stack'[i].next = stack[i].next
           \/ /\ stack'[i].next = stack[i].next + 1 /\ i = n
              /\ Exit(pipeline, stack[i], stack[i].next) = <<v, c>>
  BY FollowsFacts
<1>5. /\ traversed_edges' = traversed_edges \cup {<<v, c>>} /\ <<v, c>> \notin traversed_edges
      /\ c \in Children(pipeline, v)
      /\ FromRoot(v, c) \/ FromTop(v, c)
  BY DEF Follows
<1>6. \A w : /\ Dependents(pipeline, w) \in Seq(Task) /\ IsInjective(Dependents(pipeline, w))
             /\ ToSet(Dependents(pipeline, w)) = Children(pipeline, w)
  BY Neighbours
<1>7. FromTop(v, c) => n \in 1 .. n /\ v = stack[n].vertex /\ Into(traversed_edges, v) # {}
  BY <1>1 DEF FromTop, Walking, Frames
<1> HIDE DEF n
<1>8. Shape'
  <2>1. stack' \in Seq(Frame)
    BY DEF Follows
  <2>2. <<v, c>> \in WalkedEdges(pipeline)
    <3>1. EntryEdges(pipeline) \subseteq WalkedEdges(pipeline) /\
          Onward(pipeline, WalkedEdges(pipeline)) = WalkedEdges(pipeline)
      BY WalkedClosed
    <3>2. CASE FromRoot(v, c)
      <4>1. InitialTasks(pipeline) \in Seq(Task) /\ root \in 1 .. Len(InitialTasks(pipeline))
        BY <1>1, <3>2, Initials DEF FromRoot
      <4>2. v \in ToSet(InitialTasks(pipeline))
        BY <3>2, <4>1 DEF FromRoot, ToSet
      <4>3. Dependents(pipeline, v) # <<>>
        <5>1. c \in ToSet(Dependents(pipeline, v))
          BY <1>5, <1>6
        <5>2. ToSet(<<>>) = {}
          BY DEF ToSet
        <5> QED
          BY <5>1, <5>2
      <4> QED
        BY <3>1, <3>2, <4>2, <4>3 DEF FromRoot, EntryEdges
    <3>3. CASE FromTop(v, c)
      <4>1. PICK e \in traversed_edges : e[2] = v
        BY <1>7, <3>3 DEF Into
      <4>2. e \in WalkedEdges(pipeline)
        BY <4>1 DEF Walking, Shape
      <4> QED
        BY <1>5, <3>1, <4>1, <4>2, EdgeOnward
    <3> QED
      BY <1>5, <3>2, <3>3
  <2>3. ASSUME NEW e \in traversed_edges'
        PROVE  e \in WalkedEdges(pipeline) /\ e = <<e[1], e[2]>> /\ e[2] \in Children(pipeline, e[1])
    <3>1. CASE e = <<v, c>>
      BY <1>5, <2>2, <3>1
    <3>2. CASE e \in traversed_edges
      BY <3>2 DEF Walking, Shape
    <3> QED
      BY <1>5, <3>1, <3>2
  <2> QED
    BY <1>1, <2>1, <2>3 DEF Shape
<1>9. Origins'
  <2>1. ASSUME NEW e \in traversed_edges
        PROVE  \/ Into(traversed_edges', e[1]) # {}
               \/ \E j \in 1 .. root' - 1 : Turn(pipeline, j, e[1])
    <3>1. CASE Into(traversed_edges, e[1]) # {}
      BY <1>2, <3>1
    <3>2. CASE \E j \in 1 .. root - 1 : Turn(pipeline, j, e[1])
      <4>1. PICK j \in 1 .. root - 1 : Turn(pipeline, j, e[1])
        BY <3>2
      <4>2. j \in 1 .. root' - 1
        BY <1>1
      <4> QED
        BY <4>1, <4>2
    <3> QED
      BY <3>1, <3>2 DEF Walking, Origins
  <2>2. \/ Into(traversed_edges', v) # {}
        \/ \E j \in 1 .. root' - 1 : Turn(pipeline, j, v)
    <3>1. CASE FromRoot(v, c)
      <4>1. Turn(pipeline, root, v) /\ root' = root + 1
        BY <3>1 DEF FromRoot, Turn
      <4> QED
        BY <1>1, <4>1
    <3>2. CASE FromTop(v, c)
      BY <1>2, <1>7, <3>2
    <3> QED
      BY <1>5, <3>1, <3>2
  <2>3. ASSUME NEW e \in traversed_edges'
        PROVE  \/ Into(traversed_edges', e[1]) # {}
               \/ \E j \in 1 .. root' - 1 : Turn(pipeline, j, e[1])
    <3>1. CASE e = <<v, c>>
      BY <2>2, <3>1
    <3> QED
      BY <1>5, <2>1, <3>1
  <2> QED
    BY <1>1, <2>3 DEF Origins
<1>10. Frames'
  <2>1. ASSUME NEW i \in 1 .. n
        PROVE  Into(traversed_edges, stack[i].vertex) # {} /\ Into(traversed_edges', stack'[i].vertex) # {}
    BY <1>2, <1>4 DEF Walking, Frames, n
  <2>2. Into(traversed_edges', stack'[n + 1].vertex) # {}
    BY <1>1, <1>2
  <2>3. ASSUME NEW i \in 1 .. n, NEW j \in 1 .. n, i # j, stack'[i].vertex = stack'[j].vertex
        PROVE  Joined(traversed_edges', stack'[i].vertex)
    BY <1>3, <1>4, <2>3 DEF Walking, Frames, n
  <2>4. ASSUME NEW i \in 1 .. n, stack'[i].vertex = c
        PROVE  Joined(traversed_edges', c)
    BY <1>3, <1>4, <2>1, <2>4
  <2> QED
    BY <1>1, <2>1, <2>2, <2>3, <2>4 DEF Frames
<1>11. Untaken'
  <2> SUFFICES ASSUME NEW i \in 1 .. n + 1, NEW k \in Left(pipeline, stack'[i]),
                      Exit(pipeline, stack'[i], k) \in traversed_edges'
               PROVE  Joined(traversed_edges', stack'[i].vertex)
    BY <1>1 DEF Untaken
  <2>1. /\ k \in stack'[i].next .. Len(Dependents(pipeline, stack'[i].vertex))
        /\ <<stack'[i].vertex, Dependents(pipeline, stack'[i].vertex)[k]>> \in traversed_edges'
    BY <1>1 DEF Left, Exit
  <2>2. CASE i = n + 1
    <3>1. <<c, Dependents(pipeline, c)[k]>> \in traversed_edges
      BY <1>1, <1>5, <2>1, <2>2
    <3>2. Into(traversed_edges, c) # {} \/ c \in ToSet(InitialTasks(pipeline))
      <4>1. InitialTasks(pipeline) \in Seq(Task)
        BY Initials
      <4>2. \/ Into(traversed_edges, c) # {}
            \/ \E j \in 1 .. root - 1 : Turn(pipeline, j, c)
        BY <3>1 DEF Walking, Origins
      <4> QED
        BY <4>1, <4>2, <1>1 DEF ToSet, Turn
    <3>3. c \notin ToSet(InitialTasks(pipeline))
      <4>1. c \in Children(pipeline, v)
        BY <1>5
      <4> QED
        BY <4>1, Neighbours
    <3> QED
      BY <1>1, <1>3, <2>2, <3>2, <3>3
  <2>3. CASE i \in 1 .. n
    <3> DEFINE w == stack[i].vertex
               D == Dependents(pipeline, w)
    <3>1. stack'[i].vertex = w
      BY <1>4, <2>3
    <3>2. k \in Nat /\ k \in 1 .. Len(D) /\ k \in Left(pipeline, stack[i])
      <4>1. /\ D \in Seq(Task) /\ stack[i].next \in Nat \ {0}
            /\ stack'[i].next \in {stack[i].next, stack[i].next + 1}
        BY <1>4, <1>6, <2>3
      <4> QED
        BY <2>1, <3>1, <4>1 DEF Left
    <3>3. CASE <<w, D[k]>> \in traversed_edges
      <4>1. Joined(traversed_edges, w)
        BY <2>3, <3>2, <3>3 DEF Walking, Untaken, Exit, n
      <4> QED
        BY <1>3, <3>1, <4>1
    <3>4. CASE <<w, D[k]>> = <<v, c>>
      <4>1. FromTop(v, c) /\ w = v /\ D[k] = c
        BY <1>1, <1>5, <2>3, <3>4 DEF FromRoot, n
      <4>2. CASE i = n
        <5>1. /\ D[stack[n].next] = c /\ stack'[n].next = stack[n].next + 1
              /\ stack[n].next \in 1 .. Len(D)
          BY <4>1, <4>2 DEF FromTop, n
        <5>2. k # stack[n].next
          BY <2>1, <3>2, <4>2, <5>1
        <5>3. D \in Seq(Task) /\ IsInjective(D)
          BY <1>6
        <5> HIDE DEF D
        <5>4. FALSE
          BY <3>2, <4>1, <5>1, <5>2, <5>3 DEF IsInjective
        <5> QED
          BY <5>4
      <4>3. CASE i # n
        <5>1. Joined(traversed_edges, w)
          BY <1>7, <2>3, <4>1, <4>3 DEF Walking, Frames, n
        <5> QED
          BY <1>3, <3>1, <5>1
      <4> QED
        BY <4>2, <4>3
    <3> QED
      BY <1>5, <2>1, <3>1, <3>3, <3>4
  <2> QED
    BY <1>1, <2>2, <2>3
<1>12. Unfinished'
  <2>1. ASSUME NEW e \in traversed_edges', NEW d \in Children(pipeline, e[2])
        PROVE  \/ <<e[2], d>> \in traversed_edges'
               \/ \E i \in 1 .. n + 1 : \E k \in Left(pipeline, stack'[i]) :
                     Exit(pipeline, stack'[i], k) = <<e[2], d>>
    <3>1. CASE e = <<v, c>>
      <4>1. PICK k \in 1 .. Len(Dependents(pipeline, c)) : Dependents(pipeline, c)[k] = d
        <5>1. d \in ToSet(Dependents(pipeline, c)) /\ Dependents(pipeline, c) \in Seq(Task)
          BY <1>6, <2>1, <3>1
        <5> QED
          BY <5>1 DEF ToSet
      <4>2. k \in Left(pipeline, stack'[n + 1]) /\ Exit(pipeline, stack'[n + 1], k) = <<e[2], d>>
        BY <1>1, <3>1, <4>1 DEF Left, Exit
      <4>3. n + 1 \in 1 .. n + 1
        BY <1>1
      <4> QED
        BY <4>2, <4>3, Zenon
    <3>2. CASE e \in traversed_edges /\ <<e[2], d>> \notin traversed_edges
      <4>1. PICK i \in 1 .. n : \E k \in Left(pipeline, stack[i]) :
                    Exit(pipeline, stack[i], k) = <<e[2], d>>
        BY <2>1, <3>2 DEF Walking, Unfinished, n
      <4>2. PICK k \in Left(pipeline, stack[i]) : Exit(pipeline, stack[i], k) = <<e[2], d>>
        BY <4>1
      <4>3. Exit(pipeline, stack'[i], k) = <<e[2], d>>
        BY <1>1, <1>4, <4>2 DEF Exit
      <4>4. Dependents(pipeline, stack[i].vertex) \in Seq(Task)
        BY <1>6
      <4>5. CASE k \in Left(pipeline, stack'[i])
        <5>1. i \in 1 .. n + 1
          BY <1>1
        <5> QED
          BY <4>3, <4>5, <5>1, Zenon
      <4>6. CASE k \notin Left(pipeline, stack'[i])
        <5>1. k = stack[i].next /\ Exit(pipeline, stack[i], stack[i].next) = <<v, c>>
          BY <1>1, <1>4, <4>4, <4>6 DEF Left
        <5> QED
          BY <1>5, <4>2, <5>1
      <4> QED
        BY <4>5, <4>6
    <3> QED
      BY <1>5, <3>1, <3>2
  <2>2. ASSUME NEW j \in 1 .. root' - 1, j <= Len(InitialTasks(pipeline)),
               Dependents(pipeline, InitialTasks(pipeline)[j]) # <<>>
        PROVE  First(pipeline, InitialTasks(pipeline)[j]) \in traversed_edges'
    <3>1. CASE j \in 1 .. root - 1
      BY <1>5, <2>2, <3>1 DEF Walking, Unfinished
    <3>2. CASE j \notin 1 .. root - 1
      <4>1. root' # root
        BY <1>1, <3>2
      <4>2. FromRoot(v, c) /\ root' = root + 1
        BY <1>5, <4>1 DEF FromTop, FromRoot
      <4>3. j = root
        BY <1>1, <3>2, <4>2
      <4> QED
        BY <1>5, <4>2, <4>3 DEF FromRoot, First
    <3> QED
      BY <3>1, <3>2
  <2> QED
    BY <1>1, <2>1, <2>2 DEF Unfinished, First
<1>13. AtOnce'
  <2> SUFFICES ASSUME NEW w \in Task, Leads(pipeline, w)
               PROVE  /\ Into(traversed_edges', w) # {} =>
                            First(pipeline, w) \in traversed_edges' \/ AtStart(stack', w)
                      /\ Joined(traversed_edges', w) =>
                            First(pipeline, w) \in traversed_edges' /\ AtStart(stack', w)
    BY <1>1 DEF AtOnce, Leads, First
  <2>1. /\ Into(traversed_edges, w) # {} => First(pipeline, w) \in traversed_edges \/ AtStart(stack, w)
        /\ Joined(traversed_edges, w) => First(pipeline, w) \in traversed_edges /\ AtStart(stack, w)
    BY DEF Walking, AtOnce
  <2>2. AtStart(stack, w) => w = v /\ First(pipeline, w) = <<v, c>>
    <3> SUFFICES ASSUME AtStart(stack, w) PROVE w = v /\ First(pipeline, w) = <<v, c>>
      OBVIOUS
    <3>1. stack # <<>> /\ stack[n].vertex = w /\ stack[n].next = 1
      BY DEF AtStart, Last, Call, n
    <3>2. FromTop(v, c)
      BY <1>5, <3>1 DEF FromRoot
    <3> QED
      BY <3>1, <3>2 DEF FromTop, First, n
  <2>3. AtStart(stack', c)
    BY <1>1 DEF AtStart, Last
  <2>4. CASE w # c
    <3>1. /\ Into(traversed_edges', w) = Into(traversed_edges, w)
          /\ Joined(traversed_edges', w) <=> Joined(traversed_edges, w)
      BY <1>2, <2>4 DEF Joined
    <3> QED
      BY <1>5, <2>1, <2>2, <3>1
  <2>5. CASE w = c
    <3>1. Joined(traversed_edges', c) => Into(traversed_edges, c) # {}
      BY <1>2 DEF Joined
    <3> QED
      BY <1>1, <1>5, <2>1, <2>2, <2>3, <2>5, <3>1
  <2> QED
    BY <2>4, <2>5
<1> QED
  BY <1>8, <1>9, <1>10, <1>11, <1>12, <1>13 DEF Walking
-----------------------------------------------------------------------------
(***************************************************************************)
(* The steps.                                                              *)
(***************************************************************************)
\* A vertex with dependents that was reached twice is what HasCycle looks for.
LEMMA JoinedIsCycle ==
  ASSUME Walking, NEW v, NEW c \in Children(pipeline, v), Joined(traversed_edges, v)
  PROVE  HasCycle(pipeline)
<1>1. PICK e, f \in traversed_edges : e # f /\ e[2] = v /\ f[2] = v
  BY DEF Joined, Into
<1>2. e \in WalkedEdges(pipeline) /\ f \in WalkedEdges(pipeline)
  BY DEF Walking, Shape
<1>3. Children(pipeline, e[2]) # {}
  BY <1>1
<1> QED
  BY <1>1, <1>2, <1>3 DEF HasCycle

LEMMA AfterFollowing ==
  ASSUME IInv, Walking, NEW v, NEW c, Follows(v, c), verdict' = "running"
  PROVE  IInv'
<1>1. Walking'
  BY FollowsKeeps DEF IInv
<1>2. pipeline' = pipeline
  BY DEF Follows
<1> QED
  BY <1>1, <1>2 DEF IInv, VerdictIsHasCycle, Validated

LEMMA AfterCycle ==
  ASSUME IInv, HasCycle(pipeline), pipeline' = pipeline, verdict' = "cycle"
  PROVE  IInv'
  BY DEF IInv, VerdictIsHasCycle, Validated

LEMMA RootStep ==
  ASSUME IInv, NextRoot
  PROVE  IInv'
<1> DEFINE t == InitialTasks(pipeline)[root]
           D == Dependents(pipeline, t)
<1>1. Walking /\ Validated(pipeline) /\ verdict = "running" /\ stack = <<>>
      /\ root <= Len(InitialTasks(pipeline)) /\ root' = root + 1 /\ pipeline' = pipeline
  BY DEF IInv, NextRoot
<1>2. D \in Seq(Task) /\ ToSet(D) = Children(pipeline, t)
  BY <1>1, Neighbours
<1>3. CASE D # <<>>
  <2>1. Traverse(t, D[1], <<>>)
    BY <1>3 DEF NextRoot
  <2>2. D[1] \in Children(pipeline, t) /\ D[1] \in Task
    <3> HIDE DEF D
    <3>1. 1 \in DOMAIN D
      BY <1>2, <1>3
    <3> QED
      BY <1>2, <3>1 DEF ToSet
  <2>3. <<t, D[1]>> \notin traversed_edges
    <3>1. \A e \in traversed_edges : e[1] # t
      BY <1>1, RootUntouched
    <3> QED
      BY <3>1
  <2>4. /\ traversed_edges' = traversed_edges \cup {<<t, D[1]>>}
        /\ stack' = Append(<<>>, Call(D[1])) /\ verdict' = verdict
    BY <2>1, <2>3 DEF Traverse
  <2>5. stack' \in Seq(Frame) /\ Len(stack') = Len(stack) + 1 /\ stack'[Len(stack) + 1] = Call(D[1])
    <3>1. Call(D[1]) \in Frame
      BY <2>2 DEF Call, Frame
    <3> HIDE DEF D
    <3> QED
      BY <1>1, <2>4, <3>1
  <2>6. Follows(t, D[1])
    BY <1>1, <2>2, <2>3, <2>4, <2>5 DEF Follows, FromRoot
  <2> QED
    BY <1>1, <2>4, <2>6, AfterFollowing
<1>4. CASE D = <<>>
  <2>1. UNCHANGED <<stack, traversed_edges, verdict>>
    BY <1>4 DEF NextRoot
  <2>2. root \in Nat \ {0}
    BY <1>1 DEF Walking, Shape
  <2>3. Shape' /\ Frames' /\ Untaken' /\ AtOnce'
    BY <1>1, <2>1, <2>2 DEF Walking, Shape, Frames, Untaken, AtOnce
  <2>4. Origins'
    <3>1. \A j \in 1 .. root - 1 : j \in 1 .. root' - 1
      BY <1>1, <2>2
    <3>2. Origins
      BY <1>1 DEF Walking
    <3> QED
      BY <1>1, <2>1, <3>1, <3>2 DEF Origins
  <2>5. Unfinished'
    <3>1. \A j \in 1 .. root' - 1 : j \in 1 .. root - 1 \/ j = root
      BY <1>1, <2>2
    <3>2. Unfinished
      BY <1>1 DEF Walking
    <3>3. ASSUME NEW j \in 1 .. root' - 1, j <= Len(InitialTasks(pipeline)),
                 Dependents(pipeline, InitialTasks(pipeline)[j]) # <<>>
          PROVE  First(pipeline, InitialTasks(pipeline)[j]) \in traversed_edges
      BY <1>4, <3>1, <3>2, <3>3 DEF Unfinished
    <3> QED
      BY <1>1, <2>1, <3>2, <3>3 DEF Unfinished
  <2> QED
    BY <1>1, <2>1, <2>3, <2>4, <2>5 DEF IInv, Walking, VerdictIsHasCycle, Validated
<1> QED
  BY <1>3, <1>4

LEMMA FrontOf ==
  ASSUME NEW S, NEW s \in Seq(S), s # <<>>
  PROVE  /\ Front(s) \in Seq(S) /\ Len(Front(s)) = Len(s) - 1
         /\ \A i \in 1 .. Len(s) - 1 : Front(s)[i] = s[i]
<1>1. PICK b \in Nat : b = Len(s) - 1 /\ Len(s) \in Nat
  <2>1. Len(s) \in Nat /\ Len(s) # 0
    OBVIOUS
  <2> QED
    BY <2>1
<1>2. \A i \in 1 .. b : s[i] \in S
  BY <1>1
<1>3. /\ SubSeq(s, 1, b) \in Seq(S) /\ Len(SubSeq(s, 1, b)) = IF 1 <= b THEN b - 1 + 1 ELSE 0
      /\ \A i \in 1 .. b - 1 + 1 : SubSeq(s, 1, b)[i] = s[1 + i - 1]
  BY <1>2, SubSeqProperties
<1>4. Front(s) = SubSeq(s, 1, b)
  BY <1>1 DEF Front
<1> QED
  BY <1>1, <1>3, <1>4

LEMMA DescendStep ==
  ASSUME IInv, Descend
  PROVE  IInv'
<1> DEFINE n == Len(stack)
           v == stack[n].vertex
           k == stack[n].next
           D == Dependents(pipeline, v)
           top == [stack[n] EXCEPT !.next = k + 1]
           frames == Append(Front(stack), top)
<1>1. /\ Walking /\ Validated(pipeline) /\ verdict = "running" /\ stack # <<>>
      /\ root' = root /\ pipeline' = pipeline /\ k <= Len(D) /\ Traverse(v, D[k], frames)
  BY DEF IInv, Descend, Last
<1>2. stack \in Seq(Frame) /\ n \in Nat \ {0} /\ stack[n] \in Frame
  BY <1>1 DEF Walking, Shape
<1>3. v \in Task /\ k \in Nat \ {0}
  BY <1>2 DEF Frame
<1>4. D \in Seq(Task) /\ ToSet(D) = Children(pipeline, v)
  BY <1>1, Neighbours
<1>5. k \in 1 .. Len(D) /\ D[k] \in Children(pipeline, v) /\ D[k] \in Task
  <2> HIDE DEF D, k
  <2>1. k \in 1 .. Len(D) /\ k \in DOMAIN D
    BY <1>1, <1>3, <1>4
  <2> QED
    BY <1>4, <2>1 DEF ToSet
<1>6. CASE <<v, D[k]>> \in traversed_edges
  <2>1. verdict' = "cycle"
    BY <1>1, <1>6 DEF Traverse
  <2>2. k \in Left(pipeline, stack[n]) /\ Exit(pipeline, stack[n], k) = <<v, D[k]>> /\ n \in 1 .. n
    BY <1>2, <1>3, <1>5 DEF Left, Exit
  <2>3. Joined(traversed_edges, v)
    BY <1>1, <1>6, <2>2 DEF Walking, Untaken
  <2>4. HasCycle(pipeline)
    BY <1>1, <1>5, <2>3, JoinedIsCycle
  <2> QED
    BY <1>1, <2>1, <2>4, AfterCycle
<1>7. CASE <<v, D[k]>> \notin traversed_edges
  <2>1. /\ traversed_edges' = traversed_edges \cup {<<v, D[k]>>}
        /\ stack' = Append(frames, Call(D[k])) /\ verdict' = verdict
    BY <1>1, <1>7 DEF Traverse
  <2>2. Call(D[k]) \in Frame /\ top \in Frame /\ top.vertex = v /\ top.next = k + 1
    BY <1>2, <1>3, <1>5 DEF Call, Frame
  <2>3. /\ frames \in Seq(Frame) /\ Len(frames) = n /\ frames[n] = top
        /\ \A i \in 1 .. n - 1 : frames[i] = stack[i]
    <3> HIDE DEF top, n
    <3>1. /\ Front(stack) \in Seq(Frame) /\ Len(Front(stack)) = n - 1
          /\ \A i \in 1 .. n - 1 : Front(stack)[i] = stack[i]
      BY <1>1, <1>2, FrontOf DEF n
    <3> QED
      BY <1>2, <2>2, <3>1
  <2> HIDE DEF frames, top
  <2>4. /\ stack' \in Seq(Frame) /\ Len(stack') = n + 1 /\ stack'[n + 1] = Call(D[k])
        /\ stack'[n] = top /\ \A i \in 1 .. n - 1 : stack'[i] = stack[i]
    <3> HIDE DEF D, k, n
    <3> QED
      BY <1>2, <2>1, <2>2, <2>3
  <2>5. FromTop(v, D[k])
    BY <1>1, <1>2, <1>5, <2>2, <2>4 DEF FromTop
  <2>6. Follows(v, D[k])
    BY <1>1, <1>5, <1>7, <2>1, <2>4, <2>5 DEF Follows
  <2> HIDE DEF D, k, v
  <2> QED
    BY <1>1, <2>1, <2>6, AfterFollowing
<1> QED
  BY <1>6, <1>7

LEMMA ReturnStep ==
  ASSUME IInv, Return
  PROVE  IInv'
<1> DEFINE n == Len(stack)
           D == Dependents(pipeline, stack[n].vertex)
<1>1. /\ Walking /\ Validated(pipeline) /\ verdict = "running" /\ stack # <<>>
      /\ UNCHANGED <<pipeline, root, traversed_edges, verdict>>
      /\ stack[n].next > Len(D) /\ stack' = Front(stack)
  BY DEF IInv, Return, Last, Resumed
<1>2. stack \in Seq(Frame) /\ n \in Nat \ {0} /\ stack[n] \in Frame
  BY <1>1 DEF Walking, Shape
<1>3. /\ stack' \in Seq(Frame) /\ Len(stack') = n - 1
      /\ \A i \in 1 .. n - 1 : stack'[i] = stack[i]
  BY <1>1, <1>2, FrontOf
<1>4. D \in Seq(Task) /\ ToSet(D) = Children(pipeline, stack[n].vertex)
  BY <1>1, Neighbours
<1>5. \A i \in 1 .. Len(stack') : i \in 1 .. Len(stack) /\ stack'[i] = stack[i]
  BY <1>2, <1>3
<1>6. Shape' /\ Origins'
  BY <1>1, <1>3 DEF Walking, Shape, Origins
<1>7. Frames'
  BY <1>1, <1>5 DEF Walking, Frames
<1>8. Untaken'
  BY <1>1, <1>5 DEF Walking, Untaken
<1>9. Unfinished'
  <2>1. \A k : k \notin Left(pipeline, stack[n])
    <3>1. Len(D) \in Nat /\ stack[n].next \in Nat
      BY <1>2, <1>4 DEF Frame
    <3> QED
      BY <1>1, <3>1 DEF Left
  <2>2. \A i \in 1 .. n : i # n => i \in 1 .. Len(stack') /\ stack'[i] = stack[i]
    BY <1>2, <1>3
  <2>3. ASSUME NEW e \in traversed_edges, NEW c \in Children(pipeline, e[2]),
               <<e[2], c>> \notin traversed_edges
        PROVE  \E i \in 1 .. Len(stack') : \E k \in Left(pipeline, stack'[i]) :
                  Exit(pipeline, stack'[i], k) = <<e[2], c>>
    <3>1. PICK i \in 1 .. n : \E k \in Left(pipeline, stack[i]) : Exit(pipeline, stack[i], k) = <<e[2], c>>
      BY <1>1, <2>3 DEF Walking, Unfinished
    <3>2. i # n
      BY <2>1, <3>1
    <3> QED
      BY <2>2, <3>1, <3>2
  <2>4. Unfinished
    BY <1>1 DEF Walking
  <2> QED
    BY <1>1, <2>3, <2>4 DEF Unfinished
<1>10. AtOnce'
  <2>1. ASSUME NEW v \in Task, Leads(pipeline, v)
        PROVE  ~AtStart(stack, v)
    <3> SUFFICES ASSUME AtStart(stack, v) PROVE FALSE
      OBVIOUS
    <3>1. stack[n].vertex = v /\ stack[n].next = 1
      BY DEF AtStart, Last, Call
    <3>2. ToSet(<<>>) = {} /\ ToSet(D) # {}
      BY <1>4, <2>1, <3>1 DEF Leads, ToSet
    <3>3. Len(D) # 0
      <4> HIDE DEF D
      <4> QED
        BY <1>4, <3>2
    <3> HIDE DEF D
    <3> QED
      BY <1>1, <1>4, <3>1, <3>3
  <2>2. AtOnce
    BY <1>1 DEF Walking
  <2> QED
    BY <1>1, <2>1, <2>2 DEF AtOnce
<1> QED
  BY <1>1, <1>6, <1>7, <1>8, <1>9, <1>10 DEF IInv, Walking, VerdictIsHasCycle, Validated

\* When all roots have had their turn and nothing is on the stack, the marks are
\* exactly the walked edges, and no vertex with dependents was reached twice.
LEMMA AnswerStep ==
  ASSUME IInv, AnswerNoCycle
  PROVE  IInv'
<1>1. /\ Walking /\ Validated(pipeline) /\ stack = <<>> /\ root > Len(InitialTasks(pipeline))
      /\ verdict' = "acyclic" /\ pipeline' = pipeline
  BY DEF IInv, AnswerNoCycle
<1>2. /\ InitialTasks(pipeline) \in Seq(Task) /\ root \in Nat /\ pipeline.tasks \in Seq(Task)
      /\ ToSet(InitialTasks(pipeline)) \subseteq ToSet(pipeline.tasks)
  BY <1>1, Initials DEF Walking, Shape, Validated, Pipeline
<1>3. EntryEdges(pipeline) \subseteq traversed_edges
  <2>1. ASSUME NEW t \in ToSet(InitialTasks(pipeline)), Dependents(pipeline, t) # <<>>
        PROVE  <<t, Dependents(pipeline, t)[1]>> \in traversed_edges
    <3>1. PICK j \in 1 .. Len(InitialTasks(pipeline)) : t = InitialTasks(pipeline)[j]
      BY <1>2 DEF ToSet
    <3>2. j \in 1 .. root - 1 /\ j <= Len(InitialTasks(pipeline))
      BY <1>1, <1>2, <3>1
    <3> QED
      BY <1>1, <2>1, <3>1, <3>2 DEF Walking, Unfinished, First
  <2> QED
    BY <2>1 DEF EntryEdges
<1>4. Onward(pipeline, traversed_edges) \subseteq traversed_edges
  <2>1. ASSUME NEW e \in traversed_edges, NEW c \in Children(pipeline, e[2])
        PROVE  <<e[2], c>> \in traversed_edges
    BY <1>1 DEF Walking, Unfinished
  <2> QED
    BY <2>1 DEF Onward, EdgesFrom, Targets
<1>5. traversed_edges = WalkedEdges(pipeline)
  <2>1. Len(pipeline.tasks) \in Nat
    BY <1>2
  <2>2. WalkedEdges(pipeline) \subseteq traversed_edges
    BY <1>3, <1>4, <2>1, WalkedWithin
  <2> QED
    BY <1>1, <2>2 DEF Walking, Shape
<1>6. ~HasCycle(pipeline)
  <2> SUFFICES ASSUME HasCycle(pipeline) PROVE FALSE
    OBVIOUS
  <2>1. PICK e, f \in traversed_edges : e # f /\ e[2] = f[2] /\ Children(pipeline, e[2]) # {}
    BY <1>5 DEF HasCycle
  <2>2. e[2] \in Task
    <3>1. e[2] \in Children(pipeline, e[1])
      BY <1>1 DEF Walking, Shape
    <3>2. e[2] \in ToSet(pipeline.tasks)
      BY <3>1 DEF Children
    <3> QED
      BY <1>2, <3>2 DEF ToSet
  <2>3. Joined(traversed_edges, e[2]) /\ Leads(pipeline, e[2])
    BY <2>1 DEF Joined, Into, Leads
  <2>4. AtStart(stack, e[2])
    BY <1>1, <2>2, <2>3 DEF Walking, AtOnce
  <2> QED
    BY <1>1, <2>4 DEF AtStart
<1>7. HasCycle(pipeline) = FALSE
  BY <1>6 DEF HasCycle
<1> QED
  BY <1>1, <1>7 DEF IInv, VerdictIsHasCycle, Validated

LEMMA WalkNext == IInv /\ [Next]_vars => IInv'
<1> SUFFICES ASSUME IInv, [Next]_vars PROVE IInv'
  OBVIOUS
<1>1. CASE NextRoot
  BY <1>1, RootStep
<1>2. CASE Descend
  BY <1>2, DescendStep
<1>3. CASE Return
  BY <1>3, ReturnStep
<1>4. CASE AnswerNoCycle
  BY <1>4, AnswerStep
<1>5. CASE UNCHANGED vars
  <2>1. UNCHANGED <<pipeline, root, stack, traversed_edges, verdict>>
    BY <1>5 DEF vars
  <2>2. (Shape <=> Shape') /\ (Origins <=> Origins') /\ (Frames <=> Frames')
    BY <2>1 DEF Shape, Origins, Frames
  <2>3. (Untaken <=> Untaken') /\ (AtOnce <=> AtOnce')
    BY <2>1 DEF Untaken, AtOnce
  <2>4. Unfinished <=> Unfinished'
    BY <2>1 DEF Unfinished
  <2>5. Walking <=> Walking'
    BY <2>2, <2>3, <2>4 DEF Walking
  <2> QED
    BY <2>1, <2>5 DEF IInv, VerdictIsHasCycle
<1> QED
  BY <1>1, <1>2, <1>3, <1>4, <1>5 DEF Next

\* On every graph has_cycle answers "cycle" exactly when some task with dependents
\* is reached along two of the edges it walks, whichever edge it stops at: so the
\* closed form stands for the recursion wherever a submission is staged
\* (GraphValidator.has_cycle, traverse).
THEOREM ClosedFormIsExact == Spec => []VerdictIsHasCycle
<1>1. IInv => VerdictIsHasCycle
  BY DEF IInv
<1> QED
  BY <1>1, WalkInit, WalkNext, PTL DEF Spec
-----------------------------------------------------------------------------
(***************************************************************************)
(* What acceptance means for the graph.                                    *)
(***************************************************************************)
\* Whichever of these edges one takes, some edge among them is preceded by none
\* of them: they hold no cycle.
NoLoopAmong(E) == \A S \in SUBSET E : S # {} => \E e \in S : \A f \in S : f[2] # e[1]

\* No edge that is walked leads to an initial task.
Away(p) == {e \in WalkedEdges(p) : e[2] \notin ToSet(InitialTasks(p))}

LEMMA WalkedAway ==
  ASSUME NEW p, Validated(p), NEW e \in WalkedEdges(p)
  PROVE  e[2] \notin ToSet(InitialTasks(p))
<1>1. EntryEdges(p) \subseteq WalkedEdges(p) /\ Onward(p, WalkedEdges(p)) = WalkedEdges(p)
  BY WalkedClosed
<1>2. \A v : \A c \in Children(p, v) : c \notin ToSet(InitialTasks(p))
  BY Neighbours
<1>3. EntryEdges(p) \subseteq Away(p)
  <2>1. ASSUME NEW t, Dependents(p, t) # <<>>
        PROVE  Dependents(p, t)[1] \notin ToSet(InitialTasks(p))
    <3>1. Dependents(p, t) \in Seq(Task) /\ ToSet(Dependents(p, t)) = Children(p, t)
      BY Neighbours
    <3>2. Dependents(p, t)[1] \in Children(p, t)
      BY <2>1, <3>1 DEF ToSet
    <3> QED
      BY <1>2, <3>2
  <2> QED
    BY <1>1, <2>1 DEF Away, EntryEdges
<1>4. Onward(p, Away(p)) \subseteq Away(p)
  <2>1. Onward(p, Away(p)) \subseteq WalkedEdges(p)
    <3>1. Onward(p, Away(p)) \subseteq Onward(p, WalkedEdges(p))
      BY DEF Onward, EdgesFrom, Targets, Away
    <3> QED
      BY <1>1, <3>1
  <2>2. \A d \in EdgesFrom(p, Targets(Away(p))) : d[2] \notin ToSet(InitialTasks(p))
    BY <1>2 DEF EdgesFrom
  <2> QED
    BY <2>1, <2>2 DEF Onward, Away
<1>5. Len(p.tasks) \in Nat
  <2>1. p.tasks \in Seq(Task)
    BY DEF Validated, Pipeline
  <2> QED
    BY <2>1
<1>6. WalkedEdges(p) \subseteq Away(p)
  BY <1>3, <1>4, <1>5, WalkedWithin
<1> QED
  BY <1>6 DEF Away

\* Each round is in the last one.
LEMMA RoundsGrow ==
  ASSUME NEW p, NEW N \in Nat, NEW f, \A i \in 1 .. N : f[i] = Onward(p, f[i - 1]),
         NEW k \in 0 .. N
  PROVE  f[k] \subseteq f[N]
<1> DEFINE T == {j \in 0 .. N : k <= N - j /\ ~(f[N - j] \subseteq f[N])}
<1> SUFFICES ASSUME T # {} PROVE FALSE
  <2>1. PICK j \in 0 .. N : j = N - k /\ N - j = k
    <3>1. N - k \in 0 .. N /\ N - (N - k) = k
      OBVIOUS
    <3> QED
      BY <3>1
  <2>2. j \notin T
    OBVIOUS
  <2>3. f[N - j] \subseteq f[N]
    BY <2>1, <2>2
  <2> QED
    BY <2>1, <2>3
<1>1. T \in SUBSET Nat
  OBVIOUS
<1>2. PICK j \in T : \A l \in T : j <= l
  BY <1>1, LeastOf
<1>3. j \in 0 .. N /\ k <= N - j /\ ~(f[N - j] \subseteq f[N]) /\ j # 0
  BY <1>2
<1>4. j - 1 \in 0 .. N /\ k <= N - (j - 1) /\ j - 1 \notin T
  BY <1>2, <1>3
<1>5. f[N - (j - 1)] \subseteq f[N]
  BY <1>4
<1>6. N - (j - 1) \in 1 .. N /\ N - (j - 1) - 1 = N - j
  BY <1>3
<1>7. f[N - j] \subseteq f[N - (j - 1)]
  BY <1>6 DEF Onward
<1> QED
  BY <1>3, <1>5, <1>7

LEMMA WalkHasNoLoop ==
  ASSUME NEW p, Validated(p), ~HasCycle(p)
  PROVE  NoLoopAmong(WalkedEdges(p))
<1> DEFINE N == Len(p.tasks)
           W == WalkedEdges(p)
<1> SUFFICES ASSUME NEW S \in SUBSET W, S # {}, \A e \in S : \E f \in S : f[2] = e[1]
             PROVE  FALSE
  BY DEF NoLoopAmong
<1>1. N \in Nat
  <2>1. p.tasks \in Seq(Task)
    BY DEF Validated, Pipeline
  <2> QED
    BY <2>1
<1>2. PICK f : /\ W = f[N] /\ f[0] = EntryEdges(p)
               /\ \A i \in 1 .. N : f[i] = Onward(p, f[i - 1])
  BY <1>1, WalkedRounds
<1> HIDE DEF N, W
<1> DEFINE T == {i \in 0 .. N : f[i] \cap S # {}}
<1>3. T # {} /\ T \in SUBSET Nat
  BY <1>1, <1>2
<1>4. PICK k \in T : \A j \in T : k <= j
  BY <1>3, LeastOf
<1>5. PICK e \in S : e \in f[k]
  BY <1>4
<1>6. PICK before \in S : before[2] = e[1]
  OBVIOUS
<1>7. before \in W /\ k \in 0 .. N
  BY <1>4
<1>8. CASE k = 0
  <2>1. e[1] \in ToSet(InitialTasks(p))
    BY <1>2, <1>5, <1>8 DEF EntryEdges
  <2>2. before[2] \notin ToSet(InitialTasks(p))
    BY <1>7, WalkedAway DEF W
  <2> QED
    BY <1>6, <2>1, <2>2
<1>9. CASE k # 0
  <2>1. k \in 1 .. N /\ k - 1 \in 0 .. N /\ k - 1 \notin T
    BY <1>1, <1>4, <1>7, <1>9
  <2>2. f[k] = Onward(p, f[k - 1]) /\ f[k - 1] \cap S = {}
    BY <1>2, <2>1
  <2>3. e \in EdgesFrom(p, Targets(f[k - 1]))
    BY <1>5, <2>2 DEF Onward
  <2>4. PICK g \in f[k - 1] : g[2] = e[1] /\ e[2] \in Children(p, e[1])
    BY <2>3 DEF EdgesFrom, Targets
  <2>5. g \in W
    <3>1. PICK l \in 0 .. N : l = k - 1
      BY <2>1
    <3>2. f[l] \subseteq f[N]
      <4>1. \A i \in 1 .. N : f[i] = Onward(p, f[i - 1])
        BY <1>2
      <4> QED
        BY <1>1, <4>1, RoundsGrow
    <3> QED
      BY <1>2, <2>4, <3>1, <3>2
  <2>6. g # before
    BY <2>2, <2>4
  <2> QED
    BY <1>6, <1>7, <2>4, <2>5, <2>6 DEF HasCycle, W
<1> QED
  BY <1>8, <1>9

\* A submission that has_cycle lets through has no cycle among the edges it has
\* walked, and these are all that can be reached from the first dependent of each
\* initial task: a cycle it misses is beyond another dependent of an initial
\* task, or out of reach of all of them (GraphValidator.has_cycle).
THEOREM AcceptedHasNoLoop ==
  Spec => [](verdict = "acyclic" => NoLoopAmong(WalkedEdges(pipeline)))
<1>1. IInv => (verdict = "acyclic" => NoLoopAmong(WalkedEdges(pipeline)))
  <2> SUFFICES ASSUME IInv, verdict = "acyclic" PROVE NoLoopAmong(WalkedEdges(pipeline))
    OBVIOUS
  <2>1. Validated(pipeline) /\ ~HasCycle(pipeline)
    BY DEF IInv, VerdictIsHasCycle
  <2> QED
    BY <2>1, WalkHasNoLoop
<1> QED
  BY <1>1, WalkInit, WalkNext, PTL DEF Spec
=============================================================================
