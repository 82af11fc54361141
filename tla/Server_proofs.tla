--------------------------- MODULE Server_proofs ---------------------------
(***************************************************************************)
(* Theorems about modules WorkerPool and Server, for every number of       *)
(* threads and workers: the pool lends a worker to one thread at a time,   *)
(* although check_in takes no lock and whatever the threads of the server  *)
(* do to each other's workers.                                             *)
(***************************************************************************)
EXTENDS Server, SequenceTheorems, WellFoundedInduction, TLAPS

-----------------------------------------------------------------------------
(***************************************************************************)
(* Removing an element from a list                                         *)
(***************************************************************************)

\* A non-empty set of naturals has a least element.
LEMMA HasLeast ==
  ASSUME NEW T \in SUBSET Nat, T # {}
  PROVE  \E i \in T : \A j \in T : i <= j
<1>1. PICK i \in T : \A j \in T : ~(<<j, i>> \in OpToRel(<, Nat))
  BY WFMin, NatLessThanWellFounded, Zenon
<1>2. \A j \in T : ~(j < i)
  BY <1>1 DEF OpToRel
<1> QED  BY <1>2

\* RemoveFirst takes out one position at which the element is.
LEMMA RemoveFirstPosition ==
  ASSUME NEW S, NEW s \in Seq(S), NEW e
  PROVE  \/ RemoveFirst(s, e) = s /\ e \notin ToSet(s)
         \/ \E i \in 1 .. Len(s) : s[i] = e /\ RemoveFirst(s, e) = RemoveAt(s, i)
<1>1. CASE \E i \in 1 .. Len(s) : s[i] = e
  <2> DEFINE T == {i \in 1 .. Len(s) : s[i] = e}
  <2>1. T # {} /\ T \in SUBSET Nat
    BY <1>1
  <2>2. \E i \in T : \A j \in T : i <= j
    BY <2>1, HasLeast
  <2>3. Min(T) \in T
    BY <2>2 DEF Min
  <2>4. RemoveFirst(s, e) = RemoveAt(s, Min(T))
    BY <1>1, <2>1 DEF RemoveFirst, SelectInSeq
  <2> QED  BY <2>3, <2>4
<1>2. CASE ~\E i \in 1 .. Len(s) : s[i] = e
  BY <1>2 DEF RemoveFirst, ToSet
<1> QED  BY <1>1, <1>2

\* No element twice.
Distinct(s) == \A i, j \in DOMAIN s : s[i] = s[j] => i = j

LEMMA RemoveAtDistinct ==
  ASSUME NEW S, NEW s \in Seq(S), NEW i \in 1 .. Len(s), Distinct(s)
  PROVE  /\ RemoveAt(s, i) \in Seq(S)
         /\ Distinct(RemoveAt(s, i))
         /\ ToSet(RemoveAt(s, i)) = ToSet(s) \ {s[i]}
<1> DEFINE r == RemoveAt(s, i)
<1>1. /\ r \in Seq(S) /\ Len(r) = Len(s) - 1
      /\ \A j \in 1 .. Len(r) : r[j] = IF j < i THEN s[j] ELSE s[j + 1]
  <2> DEFINE a == SubSeq(s, 1, i - 1)
             b == SubSeq(s, i + 1, Len(s))
  <2>1. a \in Seq(S) /\ Len(a) = i - 1 /\ \A j \in 1 .. i - 1 : a[j] = s[j]
    OBVIOUS
  <2>2. b \in Seq(S) /\ Len(b) = Len(s) - i /\ \A j \in 1 .. Len(s) - i : b[j] = s[i + j]
    OBVIOUS
  <2>3. r = a \o b
    BY DEF RemoveAt
  <2> HIDE DEF a, b, r
  <2>4. r \in Seq(S) /\ Len(r) = Len(s) - 1
    BY <2>1, <2>2, <2>3
  <2>5. ASSUME NEW j \in 1 .. Len(r)
        PROVE  r[j] = IF j < i THEN s[j] ELSE s[j + 1]
    <3>1. CASE j < i
      BY <2>1, <2>2, <2>3, <2>4, <3>1
    <3>2. CASE j >= i
      <4>1. r[j] = b[j - (i - 1)] /\ j - (i - 1) \in 1 .. Len(s) - i
        BY <2>1, <2>2, <2>3, <2>4, <3>2
      <4>2. b[j - (i - 1)] = s[i + (j - (i - 1))] /\ i + (j - (i - 1)) = j + 1 /\ ~(j < i)
        BY <2>2, <2>4, <3>2, <4>1
      <4> QED  BY <4>1, <4>2
    <3>3. j < i \/ j >= i
      BY <2>4
    <3> QED  BY <3>1, <3>2, <3>3
  <2> QED  BY <2>4, <2>5
<1> HIDE DEF r
<1>2. Distinct(r)
  <2> SUFFICES ASSUME NEW a \in 1 .. Len(r), NEW b \in 1 .. Len(r), r[a] = r[b] PROVE a = b
    BY <1>1 DEF Distinct
  <2>1. PICK x, y : /\ x = IF a < i THEN a ELSE a + 1
                    /\ y = IF b < i THEN b ELSE b + 1
    OBVIOUS
  <2>2. x \in 1 .. Len(s) /\ y \in 1 .. Len(s) /\ s[x] = r[a] /\ s[y] = r[b]
    BY <1>1, <2>1
  <2>3. x = y
    BY <2>2 DEF Distinct
  <2>4. a \in Int /\ b \in Int /\ i \in Int
    BY <1>1
  <2> QED  BY <2>1, <2>3, <2>4
<1>3. ASSUME NEW x PROVE x \in ToSet(r) <=> x \in ToSet(s) \ {s[i]}
  <2>1. ASSUME x \in ToSet(r) PROVE x \in ToSet(s) \ {s[i]}
    <3>1. PICK j \in 1 .. Len(r) : x = r[j]
      BY <1>1, <2>1 DEF ToSet
    <3>2. PICK y : y = IF j < i THEN j ELSE j + 1
      OBVIOUS
    <3>3. y \in 1 .. Len(s) /\ y # i /\ s[y] = x
      BY <1>1, <3>1, <3>2
    <3>4. s[y] # s[i]
      BY <3>3 DEF Distinct
    <3> QED  BY <3>3, <3>4 DEF ToSet
  <2>2. ASSUME x \in ToSet(s), x # s[i] PROVE x \in ToSet(r)
    <3>1. PICK j \in 1 .. Len(s) : x = s[j]
      BY <2>2 DEF ToSet
    <3>2. CASE j < i
      BY <1>1, <3>1, <3>2 DEF ToSet
    <3>3. CASE j > i
      <4>1. r[j - 1] = x /\ j - 1 \in 1 .. Len(r)
        BY <1>1, <3>1, <3>3
      <4> QED  BY <1>1, <4>1 DEF ToSet
    <3> QED  BY <2>2, <3>1, <3>2, <3>3
  <2> QED  BY <2>1, <2>2
<1> QED  BY <1>1, <1>2, <1>3 DEF r

LEMMA RemoveFirstDistinct ==
  ASSUME NEW S, NEW s \in Seq(S), NEW e, Distinct(s)
  PROVE  /\ RemoveFirst(s, e) \in Seq(S)
         /\ Distinct(RemoveFirst(s, e))
         /\ ToSet(RemoveFirst(s, e)) = ToSet(s) \ {e}
<1>1. CASE RemoveFirst(s, e) = s /\ e \notin ToSet(s)
  BY <1>1
<1>2. CASE \E i \in 1 .. Len(s) : s[i] = e /\ RemoveFirst(s, e) = RemoveAt(s, i)
  BY <1>2, RemoveAtDistinct
<1> QED  BY <1>1, <1>2, RemoveFirstPosition

LEMMA RemoveFirstType ==
  ASSUME NEW S, NEW s \in Seq(S), NEW e
  PROVE  RemoveFirst(s, e) \in Seq(S)
<1>1. ASSUME NEW i \in 1 .. Len(s) PROVE RemoveAt(s, i) \in Seq(S)
  BY DEF RemoveAt
<1> QED  BY <1>1, RemoveFirstPosition

LEMMA FrontDistinct ==
  ASSUME NEW S, NEW s \in Seq(S), s # <<>>, Distinct(s)
  PROVE  /\ Front(s) \in Seq(S)
         /\ Distinct(Front(s))
         /\ Last(s) \in ToSet(s)
         /\ ToSet(Front(s)) = ToSet(s) \ {Last(s)}
<1> DEFINE f == Front(s)
<1>1. /\ f \in Seq(S) /\ Len(f) = Len(s) - 1 /\ Len(s) >= 1
      /\ \A j \in 1 .. Len(f) : f[j] = s[j]
  <2>1. Len(s) \in Nat /\ Len(s) >= 1
    BY EmptySeq
  <2> DEFINE n == Len(s) - 1
  <2>2. n \in 0 .. Len(s)
    BY <2>1
  <2>3. f = SubSeq(s, 1, n)
    BY DEF Front
  <2> HIDE DEF n
  <2>4. f \in Seq(S) /\ Len(f) = n /\ \A j \in 1 .. n : f[j] = s[j]
    BY <2>1, <2>2, <2>3
  <2> QED  BY <2>1, <2>4 DEF n
<1>2. Last(s) = s[Len(s)] /\ Len(s) \in DOMAIN s
  BY <1>1 DEF Last
<1>3. ToSet(f) = ToSet(s) \ {Last(s)}
  <2>1. \A x : x \in ToSet(f) => x \in ToSet(s) \ {Last(s)}
    BY <1>1, <1>2 DEF ToSet, Distinct
  <2>2. ASSUME NEW x \in ToSet(s), x # Last(s) PROVE x \in ToSet(f)
    <3>1. PICK j \in 1 .. Len(s) : x = s[j]
      BY DEF ToSet
    <3>2. j \in 1 .. Len(f) /\ x = f[j]
      BY <1>1, <1>2, <2>2, <3>1
    <3> QED  BY <1>1, <3>2 DEF ToSet
  <2> QED  BY <2>1, <2>2
<1> QED  BY <1>1, <1>2, <1>3 DEF Distinct, ToSet

LEMMA PrependDistinct ==
  ASSUME NEW S, NEW s \in Seq(S), NEW e \in S, Distinct(s), e \notin ToSet(s)
  PROVE  /\ <<e>> \o s \in Seq(S)
         /\ Distinct(<<e>> \o s)
         /\ ToSet(<<e>> \o s) = ToSet(s) \cup {e}
<1> DEFINE p == <<e>> \o s
<1>1. /\ p \in Seq(S) /\ Len(p) = Len(s) + 1 /\ p[1] = e
      /\ \A j \in 1 .. Len(s) : p[j + 1] = s[j]
  OBVIOUS
<1>2. \A j \in 2 .. Len(p) : j - 1 \in DOMAIN s /\ p[j] = s[j - 1] /\ p[j] # e
  <2>1. \A j \in 2 .. Len(p) : j - 1 \in DOMAIN s /\ p[j] = s[j - 1]
    BY <1>1
  <2> QED  BY <2>1 DEF ToSet
<1>3. Distinct(p)
  BY <1>1, <1>2 DEF Distinct
<1>4. ASSUME NEW x PROVE x \in ToSet(p) <=> x \in ToSet(s) \cup {e}
  <2>1. ASSUME x \in ToSet(p) PROVE x \in ToSet(s) \cup {e}
    <3>1. PICK j \in 1 .. Len(p) : x = p[j]
      BY <1>1, <2>1 DEF ToSet
    <3> QED  BY <1>1, <1>2, <3>1 DEF ToSet
  <2>2. ASSUME x \in ToSet(s) PROVE x \in ToSet(p)
    <3>1. PICK j \in 1 .. Len(s) : x = s[j]
      BY <2>2 DEF ToSet
    <3>2. j + 1 \in DOMAIN p /\ p[j + 1] = x
      BY <1>1, <3>1
    <3> QED  BY <3>2 DEF ToSet
  <2>3. e \in ToSet(p)
    BY <1>1 DEF ToSet
  <2> QED  BY <2>1, <2>2, <2>3
<1> QED  BY <1>1, <1>3, <1>4
-----------------------------------------------------------------------------
(***************************************************************************)
(* The pool                                                                *)
(***************************************************************************)

\* A worker in the deque is there once and in nobody's hands; one that is in
\* somebody's hands is in nobody else's.
LentOnce ==
    /\ Distinct(pool)
    /\ \A c \in Client : Holding(c) => mine[c] \in Worker /\ mine[c] \notin ToSet(pool)
    /\ \A c, d \in Client : Holding(c) /\ Holding(d) /\ mine[c] = mine[d] => c = d

PoolInv == PoolTypeOK /\ LentOnce

PoolStep(c) == CheckOut(c) \/ CheckIn(c)

LEMMA PoolInitInv == PoolInit => PoolInv
<1> SUFFICES ASSUME PoolInit PROVE PoolInv
  OBVIOUS
<1>1. PoolTypeOK
  BY PoolAssumption DEF PoolInit, PoolTypeOK, Place
<1>2. \A c \in Client : ~Holding(c)
  BY DEF PoolInit, Holding
<1>3. Distinct(pool)
  BY PoolAssumption DEF PoolInit, Distinct
<1> QED  BY <1>1, <1>2, <1>3 DEF PoolInv, LentOnce

LEMMA PoolTypeStep ==
  ASSUME PoolTypeOK, LentOnce, NEW c \in Client, PoolStep(c)
  PROVE  PoolTypeOK'
<1> USE DEF Move, Place
<1>1. Len(pool) \in Nat /\ Len(checked_out) \in Nat
  BY DEF PoolTypeOK
<1>2. CASE Acquire(c)
  <2>1. total' \in [Client -> Nat] /\ place' \in [Client -> Place]
    BY <1>1, <1>2 DEF Acquire, PoolTypeOK
  <2> QED  BY <1>2, <2>1 DEF Acquire, PoolTypeOK
<1>3. CASE Pop(c)
  <2>1. Last(pool) \in Worker /\ Front(pool) \in Seq(Worker)
    <3>1. Len(pool) \in Nat \ {0}
      BY <1>3, EmptySeq DEF Pop, PoolTypeOK
    <3> QED  BY <3>1 DEF Last, Front, PoolTypeOK
  <2>2. place' \in [Client -> Place]
    BY <1>3 DEF Pop, PoolTypeOK
  <2> QED  BY <1>3, <2>1, <2>2 DEF Pop, Popped, PoolTypeOK
<1>4. CASE PopFails(c)
  <2>1. place' \in [Client -> Place]
    BY <1>4 DEF PopFails, PoolTypeOK
  <2> QED  BY <1>4, <2>1 DEF PopFails, PoolTypeOK
<1>5. CASE Create(c)
  <2>1. place' \in [Client -> Place]
    BY <1>5 DEF Create, PoolTypeOK
  <2>2. mine' \in [Client -> Worker \cup {NoWorker}]
    BY <1>5 DEF Create, PoolTypeOK
  <2> QED  BY <1>5, <2>1, <2>2 DEF Create, PoolTypeOK
<1>6. CASE Lend(c)
  <2>1. place' \in [Client -> Place]
    BY <1>6 DEF Lend, PoolTypeOK
  <2>2. mine[c] \in Worker
    BY <1>6 DEF Lend, LentOnce, Holding
  <2>3. checked_out' \in Seq(Worker)
    BY <1>6, <2>2 DEF Lend, PoolTypeOK
  <2> QED  BY <1>6, <2>1, <2>3 DEF Lend, PoolTypeOK
<1>7. CASE Refuse(c)
  <2>1. place' \in [Client -> Place]
    BY <1>7 DEF Refuse, PoolTypeOK
  <2> QED  BY <1>7, <2>1 DEF Refuse, LockAfterRefusal, PoolTypeOK
<1>8. CASE TakeOff(c)
  BY <1>8, RemoveFirstType DEF TakeOff, PoolTypeOK
<1>9. CASE Return(c)
  <2>1. place' \in [Client -> Place]
    BY <1>9 DEF Return, PoolTypeOK
  <2>2. mine[c] \in Worker
    BY <1>9 DEF Return, LentOnce, Holding
  <2>3. pool' \in Seq(Worker)
    BY <1>9, <2>2 DEF Return, PoolTypeOK
  <2> QED  BY <1>9, <2>1, <2>3 DEF Return, PoolTypeOK
<1>10. CASE Recount(c)
  <2>1. place' \in [Client -> Place]
    BY <1>10 DEF Recount, PoolTypeOK
  <2> QED  BY <1>1, <1>10, <2>1 DEF Recount, PoolTypeOK
<1>11. CASE Recheck(c)
  <2>1. place' \in [Client -> Place]
    BY <1>11 DEF Recheck, PoolTypeOK
  <2>2. mine' \in [Client -> Worker \cup {NoWorker}] /\ total' \in [Client -> Nat]
    BY <1>11 DEF Recheck, PoolTypeOK
  <2> QED  BY <1>11, <2>1, <2>2 DEF Recheck, PoolTypeOK
<1>12. CASE Expel(c)
  <2>1. place' \in [Client -> Place]
    BY <1>12 DEF Expel, PoolTypeOK
  <2> QED  BY <1>12, <2>1, RemoveFirstType DEF Expel, PoolTypeOK
<1> QED
  BY <1>2, <1>3, <1>4, <1>5, <1>6, <1>7, <1>8, <1>9, <1>10, <1>11, <1>12
  DEF PoolStep, CheckOut, CheckIn

\* The refinement mapping.
LentTo(c) == IF Holding(c) THEN mine[c] ELSE NoWorker

\* Steps that change neither the deque nor who holds what.
LEMMA PoolAside ==
  ASSUME PoolInv, NEW c \in Client, pool' = pool,
         Holding(c)' <=> Holding(c), Holding(c) => mine'[c] = mine[c],
         \A d \in Client \ {c} : place'[d] = place[d] /\ mine'[d] = mine[d]
  PROVE  LentOnce' /\ UNCHANGED Lease!vars
<1>1. \A d \in Client : (Holding(d)' <=> Holding(d)) /\ (Holding(d) => mine'[d] = mine[d])
  BY DEF Holding
<1>2. LentOnce'
  BY <1>1 DEF LentOnce, PoolInv
<1>3. \A d \in Client : LentTo(d)' = LentTo(d)
  BY <1>1 DEF LentTo
<1>4. [d \in Client |-> LentTo(d)]' = [d \in Client |-> LentTo(d)]
  BY <1>3
<1> QED  BY <1>2, <1>4 DEF Lease!vars, LentTo

\* Steps by which a client gets a worker.
LEMMA PoolBorrow ==
  ASSUME PoolInv, PoolTypeOK', NEW c \in Client, NEW w \in Worker,
         place[c] \in {"pop", "count"}, place'[c] = "lend", mine'[c] = w,
         \A d \in Client \ {c} : place'[d] = place[d] /\ mine'[d] = mine[d],
         \A d \in Client \ {c} : Holding(d) => mine[d] # w,
         Distinct(pool'), ToSet(pool') = ToSet(pool) \ {w}
  PROVE  LentOnce' /\ Lease!Borrow(c, w)
<1>1. ~Holding(c) /\ Holding(c)' /\ \A d \in Client \ {c} : Holding(d)' <=> Holding(d)
  BY DEF Holding
<1>2. LentOnce'
  BY <1>1 DEF LentOnce, PoolInv
<1>3. LentTo(c) = NoWorker /\ LentTo(c)' = w
  BY <1>1 DEF LentTo
<1>4. \A d \in Client \ {c} : LentTo(d)' = LentTo(d) /\ LentTo(d) # w
  BY <1>1, PoolAssumption DEF LentTo
<1>5. [d \in Client |-> LentTo(d)]' = [[d \in Client |-> LentTo(d)] EXCEPT ![c] = w]
  BY <1>3, <1>4
<1>6. \A d \in Client : LentTo(d) # w
  BY <1>3, <1>4, PoolAssumption
<1> QED  BY <1>2, <1>3, <1>5, <1>6 DEF Lease!Borrow, LentTo

LEMMA PoolGiveBack ==
  ASSUME PoolInv, NEW c \in Client, Return(c)
  PROVE  LentOnce' /\ Lease!GiveBack(c)
<1>1. /\ place[c] = "return" /\ place'[c] = "recount" /\ mine' = mine
      /\ \A d \in Client \ {c} : place'[d] = place[d]
      /\ pool' = <<mine[c]>> \o pool
  BY DEF Return, Move, PoolInv, PoolTypeOK
<1>2. Holding(c) /\ ~Holding(c)' /\ \A d \in Client \ {c} : Holding(d)' <=> Holding(d)
  BY <1>1 DEF Holding
<1>3. mine[c] \in Worker /\ mine[c] \notin ToSet(pool) /\ Distinct(pool) /\ pool \in Seq(Worker)
  BY <1>2 DEF PoolInv, LentOnce, PoolTypeOK
<1>4. Distinct(pool') /\ ToSet(pool') = ToSet(pool) \cup {mine[c]}
  BY <1>1, <1>3, PrependDistinct
<1>5. LentOnce'
  BY <1>1, <1>2, <1>4 DEF LentOnce, PoolInv
<1>6. LentTo(c) = mine[c] /\ LentTo(c) # NoWorker
  BY <1>2, <1>3, PoolAssumption DEF LentTo
<1>7. LentTo(c)' = NoWorker
  BY <1>2 DEF LentTo
<1>8. \A d \in Client \ {c} : LentTo(d)' = LentTo(d)
  BY <1>1, <1>2 DEF LentTo
<1>9. [d \in Client |-> LentTo(d)]' = [[d \in Client |-> LentTo(d)] EXCEPT ![c] = NoWorker]
  BY <1>7, <1>8
<1> QED  BY <1>4, <1>5, <1>6, <1>9 DEF Lease!GiveBack, LentTo

LEMMA PoolDrop ==
  ASSUME PoolInv, NEW c \in Client, Expel(c)
  PROVE  LentOnce' /\ [Lease!Next]_(Lease!vars)
<1>1. /\ place[c] = "expel" /\ place'[c] = "exceeded"
      /\ \A d \in Client \ {c} : place'[d] = place[d] /\ mine'[d] = mine[d]
      /\ pool' = RemoveFirst(pool, mine[c])
  BY DEF Expel, Move, PoolInv, PoolTypeOK
<1>2. ~Holding(c) /\ \A d \in Client : Holding(d)' <=> Holding(d)
  BY <1>1 DEF Holding
<1>3. Distinct(pool') /\ ToSet(pool') = ToSet(pool) \ {mine[c]}
  BY <1>1, RemoveFirstDistinct DEF PoolInv, PoolTypeOK, LentOnce
<1>4. LentOnce'
  BY <1>1, <1>2, <1>3 DEF LentOnce, PoolInv
<1>5. \A d \in Client : LentTo(d)' = LentTo(d)
  BY <1>1, <1>2 DEF LentTo
<1>6. [d \in Client |-> LentTo(d)]' = [d \in Client |-> LentTo(d)]
  BY <1>5
<1>7. CASE mine[c] \in Worker
  <2>1. Lease!Drop(mine[c])
    BY <1>3, <1>6 DEF Lease!Drop, LentTo
  <2> QED  BY <1>4, <1>7, <2>1 DEF Lease!Next
<1>8. CASE mine[c] \notin Worker
  <2>1. mine[c] \notin ToSet(pool)
    BY <1>8 DEF PoolInv, PoolTypeOK, ToSet
  <2>2. ToSet(pool') = ToSet(pool)
    BY <1>3, <2>1
  <2> QED  BY <1>4, <1>6, <2>2 DEF Lease!vars, LentTo
<1> QED  BY <1>7, <1>8

LEMMA PoolLeaseStep ==
  ASSUME PoolInv, NEW c \in Client, PoolStep(c)
  PROVE  PoolInv' /\ [Lease!Next]_(Lease!vars)
<1> USE DEF Move
<1>0. PoolTypeOK'
  BY PoolTypeStep DEF PoolInv
<1>1. SUFFICES LentOnce' /\ [Lease!Next]_(Lease!vars)
  BY <1>0 DEF PoolInv
<1>2. CASE Acquire(c) \/ PopFails(c) \/ Lend(c) \/ Refuse(c) \/ TakeOff(c) \/ Recount(c) \/ Recheck(c)
  <2>1. /\ pool' = pool
        /\ Holding(c)' <=> Holding(c)
        /\ Holding(c) => mine'[c] = mine[c]
        /\ \A d \in Client \ {c} : place'[d] = place[d] /\ mine'[d] = mine[d]
    BY <1>2 DEF Acquire, PopFails, Lend, Refuse, TakeOff, Recount, Recheck, Holding,
                PoolInv, PoolTypeOK
  <2> QED  BY <2>1, PoolAside
<1>3. CASE Pop(c)
  <2>0. Last(pool) \in ToSet(pool) /\ Distinct(pool')
        /\ ToSet(pool') = ToSet(pool) \ {Last(pool)}
    BY <1>3, FrontDistinct DEF Pop, Popped, PoolInv, PoolTypeOK, LentOnce
  <2>1. PICK w \in Worker : w = Last(pool)
    BY <2>0 DEF PoolInv, PoolTypeOK, ToSet
  <2>3. \A d \in Client : Holding(d) => mine[d] # w
    BY <2>0, <2>1 DEF PoolInv, LentOnce
  <2>4. /\ place[c] = "pop" /\ place'[c] = "lend" /\ mine'[c] = w
        /\ \A d \in Client \ {c} : place'[d] = place[d] /\ mine'[d] = mine[d]
    BY <1>3, <2>1 DEF Pop, PoolInv, PoolTypeOK
  <2>5. LentOnce' /\ Lease!Borrow(c, w)
    BY <1>0, <2>0, <2>1, <2>3, <2>4, PoolBorrow
  <2> QED  BY <2>5 DEF Lease!Next
<1>4. CASE Create(c)
  <2>1. PICK w \in Worker : /\ w \notin ToSet(pool)
                            /\ \A d \in Client : mine[d] # w
                            /\ mine' = [mine EXCEPT ![c] = w]
    BY <1>4 DEF Create
  <2>2. /\ place[c] = "count" /\ place'[c] = "lend" /\ mine'[c] = w /\ pool' = pool
        /\ \A d \in Client \ {c} : place'[d] = place[d] /\ mine'[d] = mine[d]
    BY <1>4, <2>1 DEF Create, PoolInv, PoolTypeOK
  <2>3. Distinct(pool') /\ ToSet(pool') = ToSet(pool) \ {w}
    BY <2>1, <2>2 DEF PoolInv, LentOnce
  <2>4. LentOnce' /\ Lease!Borrow(c, w)
    BY <1>0, <2>1, <2>2, <2>3, PoolBorrow
  <2> QED  BY <2>4 DEF Lease!Next
<1>5. CASE Return(c)
  BY <1>5, PoolGiveBack DEF Lease!Next
<1>6. CASE Expel(c)
  BY <1>6, PoolDrop
<1> QED
  BY <1>2, <1>3, <1>4, <1>5, <1>6 DEF PoolStep, CheckOut, CheckIn

LEMMA PoolAsideStep ==
  ASSUME PoolInv, UNCHANGED poolVars
  PROVE  PoolInv' /\ UNCHANGED Lease!vars
<1>1. PoolTypeOK'
  BY DEF PoolInv, PoolTypeOK, poolVars
<1>2. LentOnce'
  BY DEF PoolInv, LentOnce, Holding, poolVars
<1>3. UNCHANGED Lease!vars
  BY DEF Lease!vars, Holding, poolVars
<1> QED  BY <1>1, <1>2, <1>3 DEF PoolInv

LEMMA PoolLeaseInit ==
  ASSUME PoolInit  PROVE Lease!Init
<1>1. ToSet(pool) \subseteq Worker
  BY PoolAssumption DEF PoolInit, ToSet
<1>2. \A c \in Client : ~Holding(c)
  BY DEF PoolInit, Holding
<1> QED  BY <1>1, <1>2 DEF Lease!Init

\* WorkerPool.py: whatever the threads do with it, the pool lends a worker to
\* one client at a time, although check_in takes no lock.
THEOREM PoolLendsOnce == PoolSpec => ImplementsLease
<1>1. ASSUME PoolInv, [PoolNext]_poolVars  PROVE PoolInv' /\ [Lease!Next]_(Lease!vars)
  <2>1. CASE PoolNext
    BY <1>1, <2>1, PoolLeaseStep DEF PoolNext, PoolStep
  <2>2. CASE UNCHANGED poolVars
    BY <1>1, <2>2, PoolAsideStep
  <2> QED  BY <1>1, <2>1, <2>2
<1> QED  BY <1>1, PoolInitInv, PoolLeaseInit, PTL DEF PoolSpec, ImplementsLease, Lease!Spec

LEMMA ServerPoolStep ==
  ASSUME PoolInv, [Next]_vars  PROVE PoolInv' /\ [Lease!Next]_(Lease!vars)
<1>1. ASSUME NEW m \in Message, Serve(m)
      PROVE  PoolInv' /\ [Lease!Next]_(Lease!vars)
  <2>1. PoolStep(m) \/ UNCHANGED poolVars
    BY <1>1 DEF Serve, PoolStep, Reject, CheckOutWorker, NoneAvailable, RaisesEarly, KeyRaises, Accept,
                Lookup, Terminate, TerminateRaises, Register, SkipStart, Stages, Start,
                StartRaises, Deregister, Rewrite, CheckInWorker
  <2> QED  BY <1>1, <2>1, PoolLeaseStep, PoolAsideStep DEF Message
<1>2. CASE UNCHANGED vars
  BY <1>2, PoolAsideStep DEF vars
<1> QED  BY <1>1, <1>2 DEF Next

\* Server.py and WorkerPool.py: so it is for the threads of the server, however
\* their runs and registrations end: no two of them are on one worker.
THEOREM ServerLendsOnce == Spec => ImplementsLease
<1>1. Init => PoolInv /\ Lease!Init
  BY PoolInitInv, PoolLeaseInit DEF Init
<1> QED  BY <1>1, ServerPoolStep, PTL DEF Spec, ImplementsLease, Lease!Spec
-----------------------------------------------------------------------------
(***************************************************************************)
(* The keys                                                                *)
(***************************************************************************)
KeyTypes ==
    /\ pc \in [Message -> PcLabel]
    /\ victim \in [Message -> Worker \cup {NoWorker}]
    /\ key \in [Worker -> KeysOf(request) \cup {NoKey}]

\* From the ack to the end of its own deregistration a thread holds its worker,
\* and a worker that is given back has no key.
HeldWhileServing ==
    \A m \in Message :
        pc[m] \in {"lookup", "terminate", "append", "start", "deregister", "rewrite"}
            => place[m] = "held"

Leaving(m) == pc[m] = "check_in" \/ (pc[m] = "rewrite" /\ victim[m] = NoWorker)

LeavesWithoutKey ==
    \A m \in Message : Leaving(m) /\ Holding(m) => key[mine[m]] = NoKey

KeyInv == KeyTypes /\ HeldWhileServing /\ LeavesWithoutKey /\ KeyOfHolder

LEMMA KeyInit == Init => KeyInv
<1> SUFFICES ASSUME Init PROVE KeyInv
  OBVIOUS
<1>1. KeyTypes
  BY DEF Init, KeyTypes, PcLabel
<1>2. HeldWhileServing /\ LeavesWithoutKey
  BY DEF Init, HeldWhileServing, LeavesWithoutKey, Leaving
<1>3. KeyOfHolder
  BY DEF Init, KeyOfHolder
<1> QED  BY <1>1, <1>2, <1>3 DEF KeyInv

\* A step of the pool changes the place and the worker of one client.
LEMMA PoolStepOfOne ==
  ASSUME PoolTypeOK, NEW c \in Client, PoolStep(c)
  PROVE  \A d \in Client \ {c} : place'[d] = place[d] /\ mine'[d] = mine[d]
<1> USE DEF Move
<1>1. CASE Acquire(c) \/ Pop(c) \/ PopFails(c) \/ Create(c) \/ Lend(c) \/ Refuse(c)
  BY <1>1 DEF Acquire, Pop, PopFails, Create, Lend, Refuse, PoolTypeOK
<1>2. CASE TakeOff(c) \/ Return(c) \/ Recount(c) \/ Recheck(c) \/ Expel(c)
  BY <1>2 DEF TakeOff, Return, Recount, Recheck, Expel, PoolTypeOK
<1> QED  BY <1>1, <1>2 DEF PoolStep, CheckOut, CheckIn

LEMMA KeyCheckOut ==
  ASSUME PoolInv, KeyInv, NEW m \in Message, CheckOutWorker(m)
  PROVE  KeyInv'
<1>1. /\ pc[m] = "check_out"
      /\ UNCHANGED <<pc, victim, key, request>>
  BY DEF CheckOutWorker, serverVars, registry, workers
<1>2. \A n \in Message \ {m} : place'[n] = place[n] /\ mine'[n] = mine[n]
  BY PoolStepOfOne DEF CheckOutWorker, PoolStep, PoolInv, Message
<1>3. Holding(m) => Holding(m)' /\ mine'[m] = mine[m]
  BY DEF CheckOutWorker, CheckOut, Acquire, Pop, PopFails, Create, Lend, Refuse, Move, Holding,
         PoolInv, PoolTypeOK, Message
<1>4. \A n \in Message : Holding(n) => Holding(n)' /\ mine'[n] = mine[n]
  BY <1>2, <1>3 DEF Holding
<1>5. KeyTypes'
  BY <1>1 DEF KeyInv, KeyTypes, KeysOf
<1>6. HeldWhileServing'
  BY <1>1, <1>2 DEF KeyInv, HeldWhileServing
<1>7. LeavesWithoutKey'
  BY <1>1, <1>2 DEF KeyInv, LeavesWithoutKey, Leaving, Holding
<1>8. KeyOfHolder'
  BY <1>1, <1>4 DEF KeyInv, KeyOfHolder
<1> QED  BY <1>5, <1>6, <1>7, <1>8 DEF KeyInv

LEMMA KeyCheckIn ==
  ASSUME PoolInv, KeyInv, NEW m \in Message, CheckInWorker(m)
  PROVE  KeyInv'
<1>1. /\ pc[m] = "check_in"
      /\ UNCHANGED <<pc, victim, key, request>>
  BY DEF CheckInWorker, serverVars, registry, workers
<1>2. \A n \in Message \ {m} : place'[n] = place[n] /\ mine'[n] = mine[n]
  BY PoolStepOfOne DEF CheckInWorker, PoolStep, PoolInv, Message
<1>3. Holding(m)' => Holding(m) /\ mine'[m] = mine[m]
  BY DEF CheckInWorker, CheckIn, TakeOff, Return, Recount, Recheck, Expel, Move, Holding,
         PoolInv, PoolTypeOK, Message
<1>4. KeyTypes'
  BY <1>1 DEF KeyInv, KeyTypes, KeysOf
<1>5. HeldWhileServing'
  BY <1>1, <1>2 DEF KeyInv, HeldWhileServing
<1>6. LeavesWithoutKey'
  BY <1>1, <1>2, <1>3 DEF KeyInv, LeavesWithoutKey, Leaving, Holding
<1>7. KeyOfHolder'
  <2> SUFFICES ASSUME NEW w \in Worker, key[w] # NoKey
               PROVE  \E n \in Message : Holding(n)' /\ mine'[n] = w /\ key[w] = request[n].key
    BY <1>1 DEF KeyOfHolder
  <2>1. PICK n \in Message : Holding(n) /\ mine[n] = w /\ key[w] = request[n].key
    BY DEF KeyInv, KeyOfHolder
  <2>2. n # m
    BY <1>1, <2>1 DEF KeyInv, LeavesWithoutKey, Leaving
  <2> QED  BY <1>2, <2>1, <2>2 DEF Holding
<1> QED  BY <1>4, <1>5, <1>6, <1>7 DEF KeyInv

LEMMA KeyAccept ==
  ASSUME PoolInv, KeyInv, NEW m \in Message, Accept(m)
  PROVE  KeyInv'
<1>1. /\ pc[m] = "check_out" /\ place[m] = "held" /\ Holding(m) /\ mine[m] \in Worker
      /\ UNCHANGED <<place, mine, victim, request>>
      /\ key' = [key EXCEPT ![mine[m]] = request[m].key]
      /\ pc' = [pc EXCEPT ![m] = "lookup"]
  BY DEF Accept, Goto, registry, poolVars, PoolInv, LentOnce, Holding, Message
<1>2. pc' \in [Message -> PcLabel] /\ pc'[m] = "lookup" /\ \A n \in Message \ {m} : pc'[n] = pc[n]
  BY <1>1 DEF KeyInv, KeyTypes, PcLabel
<1>3. /\ key' \in [Worker -> KeysOf(request) \cup {NoKey}]
      /\ key'[mine[m]] = request[m].key
      /\ \A w \in Worker \ {mine[m]} : key'[w] = key[w]
  BY <1>1 DEF KeyInv, KeyTypes, KeysOf
<1>4. KeyTypes'
  BY <1>1, <1>2, <1>3 DEF KeyInv, KeyTypes, KeysOf
<1>5. HeldWhileServing'
  BY <1>1, <1>2 DEF KeyInv, HeldWhileServing
<1>6. LeavesWithoutKey'
  <2> SUFFICES ASSUME NEW n \in Message, Leaving(n)', Holding(n)'
               PROVE  key'[mine'[n]] = NoKey
    BY DEF LeavesWithoutKey
  <2>1. n # m /\ Leaving(n) /\ Holding(n)
    BY <1>1, <1>2 DEF Leaving, Holding
  <2>2. mine[n] # mine[m] /\ mine[n] \in Worker
    BY <1>1, <2>1 DEF PoolInv, LentOnce, Message
  <2> QED  BY <1>1, <1>3, <2>1, <2>2 DEF KeyInv, LeavesWithoutKey
<1>7. KeyOfHolder'
  BY <1>1, <1>3 DEF KeyInv, KeyOfHolder, Holding
<1> QED  BY <1>4, <1>5, <1>6, <1>7 DEF KeyInv

LEMMA KeyDeregister ==
  ASSUME PoolInv, KeyInv, NEW m \in Message, Deregister(m)
  PROVE  KeyInv'
<1>1. /\ pc[m] = "deregister" /\ place[m] = "held"
      /\ UNCHANGED <<place, mine, victim, request>>
      /\ key' = [key EXCEPT ![Target(m)] = NoKey]
      /\ pc' = [pc EXCEPT ![m] = "rewrite"]
  BY DEF Deregister, ClearedKey, Goto, poolVars, KeyInv, HeldWhileServing
<1>2. pc' \in [Message -> PcLabel] /\ pc'[m] = "rewrite" /\ \A n \in Message \ {m} : pc'[n] = pc[n]
  BY <1>1 DEF KeyInv, KeyTypes, PcLabel
<1>3. /\ key' \in [Worker -> KeysOf(request) \cup {NoKey}]
      /\ \A w \in Worker : key'[w] = NoKey \/ (key'[w] = key[w] /\ w # Target(m))
  BY <1>1 DEF KeyInv, KeyTypes
<1>4. KeyTypes'
  BY <1>1, <1>2, <1>3 DEF KeyInv, KeyTypes, KeysOf
<1>5. HeldWhileServing'
  BY <1>1, <1>2 DEF KeyInv, HeldWhileServing
<1>6. LeavesWithoutKey'
  <2> SUFFICES ASSUME NEW n \in Message, Leaving(n)', Holding(n)'
               PROVE  key'[mine'[n]] = NoKey
    BY DEF LeavesWithoutKey
  <2>1. Holding(n) /\ mine'[n] = mine[n] /\ mine[n] \in Worker
    BY <1>1 DEF Holding, PoolInv, LentOnce, Message
  <2>2. CASE n = m
    BY <1>1, <1>2, <1>3, <2>1, <2>2 DEF Leaving, Target
  <2>3. CASE n # m
    BY <1>1, <1>2, <1>3, <2>1, <2>3 DEF Leaving, KeyInv, LeavesWithoutKey
  <2> QED  BY <2>2, <2>3
<1>7. KeyOfHolder'
  BY <1>1, <1>3 DEF KeyInv, KeyOfHolder, Holding
<1> QED  BY <1>4, <1>5, <1>6, <1>7 DEF KeyInv

\* Every other step of the server leaves keys, workers and the pool alone, and
\* only the assignment of the copy takes a thread to check_in.
LEMMA KeyOther ==
  ASSUME PoolInv, KeyInv, NEW m \in Message, Serve(m),
         ~CheckOutWorker(m), ~CheckInWorker(m), ~Accept(m), ~Deregister(m)
  PROVE  KeyInv'
<1>1. UNCHANGED <<place, mine, key, request>>
  BY DEF Serve, Reject, NoneAvailable, RaisesEarly, KeyRaises, Lookup, Terminate,
         TerminateRaises,
         Register, SkipStart, Stages, Start, StartRaises, Rewrite, poolVars, workers
<1>2. PICK l \in PcLabel \ {"lookup", "rewrite", "check_out"} : pc' = [pc EXCEPT ![m] = l]
  BY DEF Serve, Reject, NoneAvailable, RaisesEarly, KeyRaises, Lookup, Terminate,
         TerminateRaises,
         Register, SkipStart, Stages, Start, StartRaises, Rewrite, Goto, Raise, PcLabel
<1>3. l \in {"terminate", "append", "start", "deregister", "check_in"} =>
        pc[m] \in {"lookup", "terminate", "append", "start", "deregister", "rewrite"}
  BY <1>2 DEF Serve, Reject, NoneAvailable, RaisesEarly, KeyRaises, Lookup, Terminate,
         TerminateRaises,
         Register, SkipStart, Stages, Start, StartRaises, Rewrite, Goto, Raise, PcLabel,
         KeyInv, KeyTypes
<1>4. l = "check_in" => pc[m] = "rewrite" /\ victim[m] = NoWorker
  BY <1>2 DEF Serve, Reject, NoneAvailable, RaisesEarly, KeyRaises, Lookup, Terminate,
         TerminateRaises,
         Register, SkipStart, Stages, Start, StartRaises, Rewrite, Goto, Raise, PcLabel,
         KeyInv, KeyTypes
<1>5. /\ victim' \in [Message -> Worker \cup {NoWorker}]
      /\ \A n \in Message \ {m} : victim'[n] = victim[n]
  BY DEF Serve, Reject, NoneAvailable, RaisesEarly, KeyRaises, Lookup, Terminate,
         TerminateRaises,
         Register, SkipStart, Stages, Start, StartRaises, Rewrite, registry, KeyInv, KeyTypes
<1>6. pc' \in [Message -> PcLabel] /\ pc'[m] = l /\ \A n \in Message \ {m} : pc'[n] = pc[n]
  BY <1>2 DEF KeyInv, KeyTypes
<1>7. KeyTypes'
  BY <1>1, <1>5, <1>6 DEF KeyInv, KeyTypes, KeysOf
<1>8. HeldWhileServing'
  BY <1>1, <1>2, <1>3, <1>6 DEF KeyInv, HeldWhileServing, PcLabel
<1>9. LeavesWithoutKey'
  BY <1>1, <1>2, <1>4, <1>5, <1>6 DEF KeyInv, LeavesWithoutKey, Leaving, Holding
<1>10. KeyOfHolder'
  BY <1>1 DEF KeyInv, KeyOfHolder, Holding
<1> QED  BY <1>7, <1>8, <1>9, <1>10 DEF KeyInv

LEMMA KeyStep ==
  ASSUME PoolInv, KeyInv, [Next]_vars  PROVE KeyInv'
<1>1. ASSUME NEW m \in Message, Serve(m) PROVE KeyInv'
  BY <1>1, KeyCheckOut, KeyCheckIn, KeyAccept, KeyDeregister, KeyOther
<1>2. CASE UNCHANGED vars
  BY <1>2 DEF KeyInv, KeyTypes, KeysOf, HeldWhileServing, LeavesWithoutKey, Leaving,
     KeyOfHolder, Holding, vars, poolVars, serverVars, registry, workers
<1> QED  BY <1>1, <1>2 DEF Next

\* Server.py: whichever threads terminate and deregister a worker, a key on it
\* is the key of the one submission that holds it.
THEOREM KeysBelong == Spec => []KeyOfHolder
<1>1. ASSUME PoolInv, [Next]_vars  PROVE PoolInv'
  BY <1>1, ServerPoolStep
<1>2. Init => PoolInv /\ KeyInv
  BY PoolInitInv, KeyInit DEF Init
<1> QED  BY <1>1, <1>2, KeyStep, PTL DEF Spec, KeyInv
-----------------------------------------------------------------------------
(***************************************************************************)
(* The messages, and the types of the server                               *)
(***************************************************************************)

\* A thread that has acked remembers it, and one that has not is still to
\* settle its message, unless it is over.
Settling ==
    \A m \in Message :
        /\ pc[m] = "check_out" => ~acked[m]
        /\ acked[m] => settled[m] = 1
        /\ ~acked[m] /\ pc[m] # "over" => settled[m] = 0

TypeInv == TypeOK /\ Settling /\ PoolInv /\ KeyInv

LEMMA TypeInitial == Init => TypeOK /\ Settling
<1> SUFFICES ASSUME Init PROVE TypeOK /\ Settling
  OBVIOUS
<1>1. PoolTypeOK
  BY PoolInitInv DEF Init, PoolInv
<1>2. /\ pc \in [Message -> PcLabel] /\ acked \in [Message -> BOOLEAN]
      /\ settled \in [Message -> 0 .. 1] /\ found \in [Message -> SUBSET Worker]
      /\ victim \in [Message -> Worker \cup {NoWorker}]
      /\ filtered \in [Message -> SUBSET Worker]
  BY DEF Init, PcLabel
<1>3. /\ key \in [Worker -> KeysOf(request) \cup {NoKey}]
      /\ ctx \in [Worker -> Message \cup {NoMessage}]
  BY DEF Init
<1>4. /\ can_start \in [Worker -> BOOLEAN] /\ terminating \in [Worker -> BOOLEAN]
      /\ terminated \in [Worker -> BOOLEAN] /\ hooked \in [Worker -> BOOLEAN]
  BY DEF Init
<1>5. TypeOK
  BY <1>1, <1>2, <1>3, <1>4 DEF Init, TypeOK
<1>6. Settling
  BY DEF Init, Settling
<1> QED  BY <1>5, <1>6

\* The worker of a thread that has acked its message.
LEMMA Serves ==
  ASSUME TypeInv, NEW m \in Message,
         pc[m] \in {"lookup", "terminate", "append", "start", "deregister", "rewrite"}
  PROVE  /\ Holding(m) /\ mine[m] \in Worker
         /\ \A n \in Message \ {m} : Holding(n) => mine[n] # mine[m]
<1>1. Holding(m)
  BY DEF TypeInv, KeyInv, HeldWhileServing, Holding
<1> QED  BY <1>1 DEF TypeInv, PoolInv, LentOnce, Message

\* Raising in a thread that is not over yet.
LEMMA RaiseTypes ==
  ASSUME TypeInv, NEW m \in Message, Raise(m), acked' = acked, pc[m] # "over"
  PROVE  /\ pc' \in [Message -> PcLabel] /\ settled' \in [Message -> 0 .. 1]
         /\ Settling'
<1>1. pc' = [pc EXCEPT ![m] = "over"] /\ pc \in [Message -> PcLabel]
  BY DEF Raise, Goto, TypeInv, TypeOK
<1>2. settled \in [Message -> 0 .. 1] /\ Settling
  BY DEF TypeInv, TypeOK
<1>3. CASE acked[m]
  BY <1>1, <1>2, <1>3 DEF Raise, Settling, PcLabel
<1>4. CASE ~acked[m]
  <2>1. settled[m] = 0 /\ settled' = [settled EXCEPT ![m] = @ + 1]
    BY <1>2, <1>4 DEF Raise, Settle, Settling
  <2> QED
    BY <1>1, <1>2, <1>4, <2>1 DEF Settling, PcLabel
<1> QED  BY <1>3, <1>4

\* Each of the three ways to settle a message at check_out.
LEMMA SettleTypes ==
  ASSUME TypeInv, NEW m \in Message, Settle(m), pc[m] = "check_out",
         NEW l \in PcLabel \ {"check_out"}, Goto(m, l),
         \/ acked' = acked /\ l = "over"
         \/ acked' = [acked EXCEPT ![m] = TRUE]
  PROVE  /\ pc' \in [Message -> PcLabel] /\ settled' \in [Message -> 0 .. 1]
         /\ acked' \in [Message -> BOOLEAN] /\ Settling'
<1>1. pc' = [pc EXCEPT ![m] = l] /\ pc \in [Message -> PcLabel]
  BY DEF Goto, TypeInv, TypeOK
<1>2. settled \in [Message -> 0 .. 1] /\ Settling /\ acked \in [Message -> BOOLEAN]
  BY DEF TypeInv, TypeOK
<1>3. settled[m] = 0 /\ settled' = [settled EXCEPT ![m] = @ + 1]
  BY <1>2 DEF Settle, Settling
<1>4. settled' \in [Message -> 0 .. 1] /\ settled'[m] = 1
      /\ \A n \in Message \ {m} : settled'[n] = settled[n]
  BY <1>2, <1>3
<1>5. pc' \in [Message -> PcLabel] /\ pc'[m] = l /\ \A n \in Message \ {m} : pc'[n] = pc[n]
  BY <1>1
<1>6. /\ acked' \in [Message -> BOOLEAN] /\ \A n \in Message \ {m} : acked'[n] = acked[n]
      /\ ~acked'[m] => l = "over"
  BY <1>2
<1> QED  BY <1>2, <1>4, <1>5, <1>6 DEF Settling

\* Steps between the ack and the end of the thread.
LEMMA GotoTypes ==
  ASSUME TypeInv, NEW m \in Message, NEW l \in PcLabel \ {"check_out"}, Goto(m, l),
         pc[m] # "over", UNCHANGED mail
  PROVE  /\ pc' \in [Message -> PcLabel] /\ settled' \in [Message -> 0 .. 1]
         /\ acked' \in [Message -> BOOLEAN] /\ Settling'
<1>1. pc' = [pc EXCEPT ![m] = l] /\ pc \in [Message -> PcLabel]
  BY DEF Goto, TypeInv, TypeOK
<1> QED  BY <1>1 DEF TypeInv, TypeOK, Settling, mail

LEMMA TypeStep ==
  ASSUME TypeInv, NEW m \in Message, Serve(m)
  PROVE  TypeOK' /\ Settling'
<1>0. PoolTypeOK' /\ Message = Client
  BY ServerPoolStep DEF TypeInv, Next, PoolInv, Message
<1>1. CASE CheckOutWorker(m) \/ CheckInWorker(m)
  <2>1. UNCHANGED serverVars
    BY <1>1 DEF CheckOutWorker, CheckInWorker
  <2> QED  BY <1>0, <2>1 DEF TypeInv, TypeOK, Settling, KeysOf, serverVars, registry, workers, mail
<1>2. CASE Reject(m) \/ NoneAvailable(m)
  <2>1. /\ Settle(m) /\ Goto(m, "over") /\ pc[m] = "check_out" /\ acked' = acked
        /\ UNCHANGED <<request, registry, workers>> /\ "over" \in PcLabel
    BY <1>2 DEF Reject, NoneAvailable, PcLabel
  <2>2. /\ pc' \in [Message -> PcLabel] /\ settled' \in [Message -> 0 .. 1]
        /\ acked' \in [Message -> BOOLEAN] /\ Settling'
    BY <2>1, SettleTypes
  <2> QED  BY <1>0, <2>1, <2>2 DEF TypeInv, TypeOK, KeysOf, registry, workers
<1>3. CASE RaisesEarly(m)
  <2>1. /\ Raise(m) /\ pc[m] # "over" /\ acked' = acked
        /\ UNCHANGED <<request, registry, workers>>
    BY <1>3 DEF RaisesEarly
  <2>2. pc' \in [Message -> PcLabel] /\ settled' \in [Message -> 0 .. 1] /\ Settling'
    BY <2>1, RaiseTypes
  <2> QED  BY <1>0, <2>1, <2>2 DEF TypeInv, TypeOK, KeysOf, registry, workers
<1>4. CASE Accept(m)
  <2>1. /\ Settle(m) /\ Goto(m, "lookup") /\ pc[m] = "check_out" /\ "lookup" \in PcLabel
        /\ acked' = [acked EXCEPT ![m] = TRUE]
        /\ key' = [key EXCEPT ![mine[m]] = request[m].key]
        /\ UNCHANGED <<request, registry, can_start, ctx, terminating, terminated, hooked>>
    BY <1>4 DEF Accept, Acked, PcLabel
  <2>2. /\ pc' \in [Message -> PcLabel] /\ settled' \in [Message -> 0 .. 1]
        /\ acked' \in [Message -> BOOLEAN] /\ Settling'
    BY <2>1, SettleTypes
  <2>3. key' \in [Worker -> KeysOf(request) \cup {NoKey}]
    BY <2>1 DEF TypeInv, TypeOK, KeysOf
  <2> QED  BY <1>0, <2>1, <2>2, <2>3 DEF TypeInv, TypeOK, KeysOf, registry
<1>5. CASE Lookup(m)
  <2>1. PICK l \in PcLabel \ {"check_out"} : Goto(m, l)
    BY <1>5 DEF Lookup, PcLabel
  <2>2. /\ pc' \in [Message -> PcLabel] /\ settled' \in [Message -> 0 .. 1]
        /\ acked' \in [Message -> BOOLEAN] /\ Settling'
    BY <1>5, <2>1, GotoTypes DEF Lookup
  <2>3. found' \in [Message -> SUBSET Worker]
    BY <1>5 DEF Lookup, Matching, TypeInv, TypeOK
  <2>4. overlapped' \in BOOLEAN
    BY <1>5 DEF Lookup, Enters
  <2> QED  BY <1>0, <1>5, <2>2, <2>3, <2>4 DEF Lookup, TypeInv, TypeOK, KeysOf, workers
<1>6. ASSUME NEW w \in Worker, Terminate(m, w) PROVE TypeOK' /\ Settling'
  <2>1. /\ pc' \in [Message -> PcLabel] /\ settled' \in [Message -> 0 .. 1]
        /\ acked' \in [Message -> BOOLEAN] /\ Settling'
    BY <1>6, GotoTypes DEF Terminate, PcLabel
  <2>2. terminating' \in [Worker -> BOOLEAN] /\ victim' \in [Message -> Worker \cup {NoWorker}]
    BY <1>6 DEF Terminate, TypeInv, TypeOK
  <2> QED  BY <1>0, <1>6, <2>1, <2>2 DEF Terminate, TypeInv, TypeOK, KeysOf
<1>7. ASSUME NEW w \in Worker, TerminateRaises(m, w) PROVE TypeOK' /\ Settling'
  <2>1. pc' \in [Message -> PcLabel] /\ settled' \in [Message -> 0 .. 1] /\ Settling'
    BY <1>7, RaiseTypes DEF TerminateRaises
  <2> QED  BY <1>0, <1>7, <2>1 DEF TerminateRaises, TypeInv, TypeOK, KeysOf, registry
<1>8. CASE Register(m)
  <2>1. /\ pc' \in [Message -> PcLabel] /\ settled' \in [Message -> 0 .. 1]
        /\ acked' \in [Message -> BOOLEAN] /\ Settling'
    BY <1>8, GotoTypes DEF Register, PcLabel
  <2>2. mine[m] \in Worker
    BY <1>8, Serves DEF Register
  <2> QED  BY <1>0, <1>8, <2>1, <2>2 DEF Register, Listed, TypeInv, TypeOK, KeysOf
<1>9. CASE SkipStart(m)
  <2>1. /\ pc' \in [Message -> PcLabel] /\ settled' \in [Message -> 0 .. 1]
        /\ acked' \in [Message -> BOOLEAN] /\ Settling'
    BY <1>9, GotoTypes DEF SkipStart, PcLabel
  <2> QED  BY <1>0, <1>9, <2>1 DEF SkipStart, TypeInv, TypeOK, KeysOf, registry, workers
<1>10. CASE Start(m) \/ StartRaises(m)
  <2>1. pc' \in [Message -> PcLabel] /\ settled' \in [Message -> 0 .. 1] /\ Settling'
    <3>1. CASE Goto(m, "deregister") /\ UNCHANGED settled
      BY <1>10, <3>1, GotoTypes DEF Start, StartRaises, Stages, mail, PcLabel
    <3>2. CASE Raise(m)
      BY <1>10, <3>2, RaiseTypes DEF Start, StartRaises, Stages
    <3> QED  BY <1>10, <3>1, <3>2 DEF Start, StartRaises
  <2>2. Stages(m)
    BY <1>10 DEF Start, StartRaises
  <2>3. can_start' \in [Worker -> BOOLEAN] /\ ctx' \in [Worker -> Message \cup {NoMessage}]
    BY <2>2 DEF Stages, TypeInv, TypeOK
  <2> QED  BY <1>0, <2>1, <2>2, <2>3 DEF Stages, TypeInv, TypeOK, KeysOf, registry
<1>11. CASE Deregister(m)
  <2>1. /\ pc' \in [Message -> PcLabel] /\ settled' \in [Message -> 0 .. 1]
        /\ acked' \in [Message -> BOOLEAN] /\ Settling'
    BY <1>11, GotoTypes DEF Deregister, PcLabel
  <2>2. key' \in [Worker -> KeysOf(request) \cup {NoKey}]
    BY <1>11 DEF Deregister, ClearedKey, TypeInv, TypeOK
  <2>3. filtered' \in [Message -> SUBSET Worker] /\ overlapped' \in BOOLEAN
    BY <1>11 DEF Deregister, Remaining, Enters, TypeInv, TypeOK
  <2> QED  BY <1>0, <1>11, <2>1, <2>2, <2>3 DEF Deregister, TypeInv, TypeOK, KeysOf
<1>12. CASE Rewrite(m)
  <2>1. PICK l \in PcLabel \ {"check_out"} : Goto(m, l)
    BY <1>12 DEF Rewrite, PcLabel
  <2>2. /\ pc' \in [Message -> PcLabel] /\ settled' \in [Message -> 0 .. 1]
        /\ acked' \in [Message -> BOOLEAN] /\ Settling'
    BY <1>12, <2>1, GotoTypes DEF Rewrite
  <2>3. /\ can_start' \in [Worker -> BOOLEAN] /\ terminating' \in [Worker -> BOOLEAN]
        /\ terminated' \in [Worker -> BOOLEAN] /\ ctx' \in [Worker -> Message \cup {NoMessage}]
    BY <1>12 DEF Rewrite, TypeInv, TypeOK
  <2>4. /\ active_workers' \subseteq Worker /\ found' \in [Message -> SUBSET Worker]
        /\ filtered' \in [Message -> SUBSET Worker]
        /\ victim' \in [Message -> Worker \cup {NoWorker}]
    BY <1>12 DEF Rewrite, TypeInv, TypeOK
  <2> QED  BY <1>0, <1>12, <2>2, <2>3, <2>4 DEF Rewrite, TypeInv, TypeOK, KeysOf
<1>13. CASE KeyRaises(m)
  <2>1. /\ Settle(m) /\ Goto(m, "over") /\ pc[m] = "check_out" /\ "over" \in PcLabel
        /\ acked' = [acked EXCEPT ![m] = TRUE]
        /\ UNCHANGED <<request, registry, workers>>
    BY <1>13 DEF KeyRaises, Acked, PcLabel
  <2>2. /\ pc' \in [Message -> PcLabel] /\ settled' \in [Message -> 0 .. 1]
        /\ acked' \in [Message -> BOOLEAN] /\ Settling'
    BY <2>1, SettleTypes
  <2> QED  BY <1>0, <2>1, <2>2 DEF TypeInv, TypeOK, KeysOf, registry, workers
<1> QED
  BY <1>1, <1>2, <1>3, <1>4, <1>5, <1>6, <1>7, <1>8, <1>9, <1>10, <1>11, <1>12, <1>13 DEF Serve

LEMMA TypeInvStep == TypeInv /\ [Next]_vars => TypeInv'
<1> SUFFICES ASSUME TypeInv, [Next]_vars PROVE TypeInv'
  OBVIOUS
<1>1. PoolInv' /\ KeyInv'
  BY ServerPoolStep, KeyStep DEF TypeInv
<1>2. TypeOK' /\ Settling'
  <2>1. ASSUME NEW m \in Message, Serve(m) PROVE TypeOK' /\ Settling'
    BY <2>1, TypeStep
  <2>2. CASE UNCHANGED vars
    BY <2>2 DEF TypeInv, TypeOK, PoolTypeOK, Settling, KeysOf, vars, poolVars, serverVars,
                registry, workers, mail
  <2> QED  BY <2>1, <2>2 DEF Next
<1> QED  BY <1>1, <1>2 DEF TypeInv

\* Server.py and WorkerPool.py: every variable keeps its type, and no message is settled
\* twice: a thread that raises after its ack remembers that it has acked.
THEOREM TypeCorrect == Spec => []TypeOK
<1>1. Init => TypeInv
  BY TypeInitial, PoolInitInv, KeyInit DEF Init, TypeInv
<1> QED  BY <1>1, TypeInvStep, PTL DEF Spec, TypeInv
-----------------------------------------------------------------------------
(***************************************************************************)
(* The registry                                                            *)
(***************************************************************************)

\* A thread has a victim while it deregisters it, and has none but with the
\* policy terminate.
Victims ==
    \A m \in Message :
        /\ victim[m] # NoWorker => pc[m] \in {"deregister", "rewrite"} /\ victim[m] \in found[m]
        /\ pc[m] = "terminate" \/ victim[m] # NoWorker => request[m].policy = "terminate"

\* The context of a worker is that of the thread that has it and has started.
Contexts ==
    \A w \in Worker : ctx[w] # NoMessage =>
        /\ Holding(ctx[w]) /\ mine[ctx[w]] = w
        /\ pc[ctx[w]] \in {"deregister", "rewrite", "over"} /\ victim[ctx[w]] = NoWorker

Alone == \A m, n \in Message : InRegistry(m) /\ InRegistry(n) => m = n

\* An active worker belongs to a thread that has appended it.
ListedHeld ==
    \A w \in active_workers : \E n \in Message :
        /\ Holding(n) /\ mine[n] = w
        /\ pc[n] \in {"start", "deregister", "rewrite", "over"} /\ victim[n] = NoWorker

\* The copy a thread is about to assign lacks its target and nothing else.
CopyCurrent == \A m \in Message : pc[m] = "rewrite" => filtered[m] = active_workers \ {Target(m)}

\* What a thread is about to terminate is active and has its key.
Duplicates ==
    \A m \in Message : pc[m] = "terminate" \/ victim[m] # NoWorker =>
        /\ found[m] \subseteq active_workers
        /\ \A w \in found[m] \ {victim[m]} : key[w] = request[m].key
        /\ victim[m] # NoWorker => terminating[victim[m]]

OwnKey ==
    \A m \in Message : pc[m] \in {"lookup", "terminate", "append"} \/ victim[m] # NoWorker =>
        key[mine[m]] = request[m].key

\* A worker that is to run, or runs, and is not terminated is active under the
\* key of its submission.
Served ==
    \A n \in Message :
        (/\ \/ pc[n] = "start" /\ can_start[mine[n]]
            \/ pc[n] = "deregister" /\ victim[n] = NoWorker /\ ctx[mine[n]] = n
         /\ ~terminating[mine[n]])
        => mine[n] \in active_workers /\ key[mine[n]] = request[n].key

\* What made the policy deny let a submission pass still holds when it is
\* appended.
NoTwin ==
    \A m \in Message : pc[m] = "append" /\ request[m].policy = "deny" =>
        \A w \in active_workers : key[w] # request[m].key

Ordered == Alone /\ ListedHeld /\ CopyCurrent /\ Duplicates /\ OwnKey /\ Served /\ NoTwin
RegistryInv == Victims /\ Contexts /\ (~overlapped => Ordered)

LEMMA RegistryInit == Init => RegistryInv
<1> SUFFICES ASSUME Init PROVE RegistryInv
  OBVIOUS
<1>1. \A m \in Message : pc[m] = "check_out" /\ victim[m] = NoWorker
  BY DEF Init
<1>2. \A w \in Worker : ctx[w] = NoMessage
  BY DEF Init
<1>3. active_workers = {}
  BY DEF Init
<1> QED
  BY <1>1, <1>2, <1>3 DEF RegistryInv, Victims, Contexts, Ordered, Alone, ListedHeld, CopyCurrent,
     Duplicates, OwnKey, Served, NoTwin, InRegistry

\* A step of one thread leaves the others where they are.
Apart(m) ==
    /\ request' = request
    /\ \A n \in Message \ {m} :
          /\ pc'[n] = pc[n] /\ victim'[n] = victim[n] /\ found'[n] = found[n]
          /\ filtered'[n] = filtered[n] /\ place'[n] = place[n] /\ mine'[n] = mine[n]

LEMMA StepApart ==
  ASSUME TypeInv, NEW m \in Message, Serve(m)
  PROVE  Apart(m)
<1>1. CASE CheckOutWorker(m) \/ CheckInWorker(m)
  <2>1. \A n \in Message \ {m} : place'[n] = place[n] /\ mine'[n] = mine[n]
    BY <1>1, PoolStepOfOne DEF CheckOutWorker, CheckInWorker, PoolStep, TypeInv, PoolInv, Message
  <2> QED  BY <1>1, <2>1 DEF CheckOutWorker, CheckInWorker, Apart, serverVars, registry
<1>2. CASE ~CheckOutWorker(m) /\ ~CheckInWorker(m)
  <2>1. UNCHANGED <<place, mine, request>>
    BY <1>2 DEF Serve, Reject, NoneAvailable, RaisesEarly, KeyRaises, Accept, Lookup, Terminate,
       TerminateRaises, Register, SkipStart, Stages, Start, StartRaises, Deregister, Rewrite,
       poolVars
  <2>2. \E l : pc' = [pc EXCEPT ![m] = l]
    BY <1>2 DEF Serve, Reject, NoneAvailable, RaisesEarly, KeyRaises, Accept, Lookup, Terminate,
       TerminateRaises, Register, SkipStart, Stages, Start, StartRaises, Deregister, Rewrite,
       Goto, Raise
  <2>3. \A n \in Message \ {m} : pc'[n] = pc[n]
    BY <2>2 DEF TypeInv, TypeOK
  <2>4. \A n \in Message \ {m} :
           victim'[n] = victim[n] /\ found'[n] = found[n] /\ filtered'[n] = filtered[n]
    BY <1>2 DEF Serve, Reject, NoneAvailable, RaisesEarly, KeyRaises, Accept, Lookup, Terminate,
       TerminateRaises, Register, SkipStart, Stages, Start, StartRaises, Deregister, Rewrite,
       registry, TypeInv, TypeOK
  <2> QED  BY <2>1, <2>3, <2>4 DEF Apart
<1> QED  BY <1>1, <1>2

\* Who is in the middle of its work has a worker, and no two have the same.
LEMMA OwnWorkers ==
  ASSUME TypeInv
  PROVE  /\ \A n \in Message :
              pc[n] \in {"lookup", "terminate", "append", "start", "deregister", "rewrite"} => Holding(n)
         /\ \A n \in Message : Holding(n) => mine[n] \in Worker
         /\ \A n, l \in Message : Holding(n) /\ Holding(l) /\ mine[n] = mine[l] => n = l
  BY DEF TypeInv, KeyInv, HeldWhileServing, Holding, PoolInv, LentOnce, Message

\* Steps before the registration and after the deregistration.
LEMMA RegistryQuiet ==
  ASSUME TypeInv, RegistryInv, NEW m \in Message, Apart(m),
         UNCHANGED <<registry, workers>>, pc[m] \in {"check_out", "check_in"},
         pc'[m] \in {pc[m], "over"}
  PROVE  RegistryInv'
<1>1. victim' = victim /\ found' = found /\ filtered' = filtered /\ active_workers' = active_workers
      /\ overlapped' = overlapped /\ key' = key /\ can_start' = can_start /\ ctx' = ctx
      /\ terminating' = terminating /\ request' = request
  BY DEF registry, workers, Apart
<1>2. victim[m] = NoWorker
  BY DEF RegistryInv, Victims
<1>3. \A n \in Message \ {m} : /\ pc'[n] = pc[n] /\ mine'[n] = mine[n]
                                /\ (Holding(n)' <=> Holding(n)) /\ (InRegistry(n)' <=> InRegistry(n))
  BY <1>1 DEF Apart, Holding, InRegistry
<1>4. ~InRegistry(m)'
  BY <1>1, <1>2 DEF InRegistry
<1>5. Victims'
  BY <1>1, <1>2, <1>3 DEF RegistryInv, Victims
<1>6. Contexts'
  BY <1>1, <1>3 DEF RegistryInv, Contexts, TypeInv, TypeOK
<1>7. ASSUME ~overlapped PROVE Ordered'
  <2>1. Alone'
    BY <1>3, <1>4, <1>7 DEF RegistryInv, Ordered, Alone
  <2>2. ListedHeld'
    BY <1>1, <1>3, <1>7 DEF RegistryInv, Ordered, ListedHeld
  <2>3. CopyCurrent'
    BY <1>1, <1>3, <1>7 DEF RegistryInv, Ordered, CopyCurrent, Target
  <2>4. Duplicates' /\ OwnKey'
    BY <1>1, <1>2, <1>3, <1>7 DEF RegistryInv, Ordered, Duplicates, OwnKey
  <2>5. Served' /\ NoTwin'
    BY <1>1, <1>3, <1>7 DEF RegistryInv, Ordered, Served, NoTwin
  <2> QED  BY <2>1, <2>2, <2>3, <2>4, <2>5 DEF Ordered
<1> QED  BY <1>1, <1>5, <1>6, <1>7 DEF RegistryInv

\* What stays when a thread that has a worker makes a step of its own.
LEMMA OwnStep ==
  ASSUME TypeInv, NEW m \in Message, Serve(m), ~CheckOutWorker(m), ~CheckInWorker(m)
  PROVE  /\ Apart(m) /\ mine' = mine /\ request' = request
         /\ \A n \in Message : Holding(n)' <=> Holding(n)
<1>1. UNCHANGED <<place, mine>>
  BY DEF Serve, Reject, NoneAvailable, RaisesEarly, KeyRaises, Accept, Lookup, Terminate,
     TerminateRaises, Register, SkipStart, Stages, Start, StartRaises, Deregister, Rewrite,
     poolVars
<1> QED  BY <1>1, StepApart DEF Apart, Holding

LEMMA RegistryAccept ==
  ASSUME TypeInv, RegistryInv, NEW m \in Message, Accept(m)
  PROVE  RegistryInv'
<1>1. /\ pc[m] = "check_out" /\ place[m] = "held" /\ Holding(m)
      /\ UNCHANGED <<active_workers, found, victim, filtered, overlapped>>
      /\ UNCHANGED <<can_start, ctx, terminating>>
      /\ key' = [key EXCEPT ![mine[m]] = request[m].key]
      /\ pc'[m] = "lookup"
  BY DEF Accept, Goto, registry, Holding, TypeInv, TypeOK
<1>2. /\ Apart(m) /\ mine' = mine /\ request' = request
      /\ \A n \in Message : Holding(n)' <=> Holding(n)
  BY <1>1, OwnStep DEF Serve, Accept, CheckOutWorker, CheckInWorker, serverVars
<1>3. victim[m] = NoWorker
  BY <1>1 DEF RegistryInv, Victims
<1>4. \A n \in Message \ {m} : pc'[n] = pc[n] /\ (InRegistry(n)' <=> InRegistry(n))
  BY <1>1, <1>2 DEF Apart, InRegistry
<1>5. ~InRegistry(m)' /\ mine[m] \in Worker
  BY <1>1, <1>3, OwnWorkers DEF InRegistry
<1>6. /\ key'[mine[m]] = request[m].key
      /\ \A w \in Worker \ {mine[m]} : key'[w] = key[w]
  BY <1>1, <1>5 DEF TypeInv, TypeOK
<1>7. Victims' /\ Contexts'
  BY <1>1, <1>2, <1>3, <1>4 DEF RegistryInv, Victims, Contexts, TypeInv, TypeOK
<1>8. ASSUME ~overlapped PROVE Ordered'
  <2>1. Alone'
    BY <1>4, <1>5, <1>8 DEF RegistryInv, Ordered, Alone
  <2>2. ListedHeld'
    BY <1>1, <1>2, <1>4, <1>8 DEF RegistryInv, Ordered, ListedHeld
  <2>3. CopyCurrent'
    BY <1>1, <1>2, <1>4, <1>8 DEF RegistryInv, Ordered, CopyCurrent, Target
  <2>4. \A w \in active_workers : w \in Worker /\ w # mine[m] /\ key'[w] = key[w]
    <3>1. \A w \in active_workers : w \in Worker /\ w # mine[m]
      BY <1>1, <1>8, OwnWorkers DEF RegistryInv, Ordered, ListedHeld
    <3> QED  BY <1>6, <3>1
  <2>5. Duplicates'
    BY <1>1, <1>2, <1>3, <1>4, <1>8, <2>4 DEF RegistryInv, Ordered, Duplicates
  <2>6. \A n \in Message \ {m} : Holding(n) => key'[mine[n]] = key[mine[n]]
    BY <1>1, <1>6, OwnWorkers
  <2>7. OwnKey'
    BY <1>1, <1>2, <1>3, <1>4, <1>6, <1>8, <2>6, OwnWorkers
    DEF RegistryInv, Ordered, OwnKey, Victims
  <2>8. Served'
    BY <1>1, <1>2, <1>4, <1>8, <2>6, OwnWorkers DEF RegistryInv, Ordered, Served
  <2>9. NoTwin'
    BY <1>1, <1>2, <1>4, <1>8, <2>4 DEF RegistryInv, Ordered, NoTwin
  <2> QED  BY <2>1, <2>2, <2>3, <2>5, <2>7, <2>8, <2>9 DEF Ordered
<1> QED  BY <1>1, <1>7, <1>8 DEF RegistryInv

LEMMA RegistryLookup ==
  ASSUME TypeInv, RegistryInv, NEW m \in Message, Lookup(m)
  PROVE  RegistryInv'
<1>1. /\ pc[m] = "lookup" /\ pc'[m] \in {"deregister", "terminate", "append"}
      /\ UNCHANGED <<active_workers, victim, filtered>>
      /\ UNCHANGED <<key, can_start, ctx, terminating>>
      /\ overlapped' = (overlapped \/ \E n \in Message \ {m} : InRegistry(n))
  BY DEF Lookup, Enters, Goto, workers, TypeInv, TypeOK
<1>2. /\ Apart(m) /\ mine' = mine /\ request' = request
      /\ \A n \in Message : Holding(n)' <=> Holding(n)
  BY <1>1, OwnStep DEF Serve, CheckOutWorker, CheckInWorker, serverVars
<1>3. victim[m] = NoWorker
  BY <1>1 DEF RegistryInv, Victims
<1>4. \A n \in Message \ {m} : /\ pc'[n] = pc[n] /\ found'[n] = found[n]
                                /\ (InRegistry(n)' <=> InRegistry(n))
  BY <1>1, <1>2 DEF Apart, InRegistry
<1>5. /\ pc'[m] = "terminate" => request[m].policy = "terminate" /\ found'[m] = Matching(m)
      /\ pc'[m] = "append" => request[m].policy = "allow" \/ Matching(m) = {}
  BY DEF Lookup, Goto, TypeInv, TypeOK
<1>6. Victims'
  BY <1>1, <1>2, <1>3, <1>4, <1>5 DEF RegistryInv, Victims
<1>7. Contexts'
  BY <1>1, <1>2, <1>4 DEF RegistryInv, Contexts, TypeInv, TypeOK
<1>8. ASSUME ~overlapped, \A n \in Message \ {m} : ~InRegistry(n) PROVE Ordered'
  <2>1. \A n \in Message \ {m} : ~InRegistry(n)' /\ victim[n] = NoWorker
    BY <1>4, <1>8 DEF InRegistry, RegistryInv, Victims
  <2>2. Alone'
    BY <2>1 DEF Alone
  <2>3. ListedHeld'
    BY <1>1, <1>2, <1>4, <1>8 DEF RegistryInv, Ordered, ListedHeld
  <2>4. CopyCurrent'
    BY <1>1, <1>4, <2>1 DEF CopyCurrent, InRegistry
  <2>5. key[mine[m]] = request[m].key
    BY <1>1, <1>8 DEF RegistryInv, Ordered, OwnKey
  <2>6. Duplicates'
    BY <1>1, <1>2, <1>3, <1>4, <1>5, <2>1, <2>5 DEF Duplicates, Matching, InRegistry
  <2>7. OwnKey'
    BY <1>1, <1>2, <1>4, <1>8, <2>1, <2>5 DEF RegistryInv, Ordered, OwnKey
  <2>8. ctx[mine[m]] # m
    BY <1>1, OwnWorkers, NoMessageAssumption DEF RegistryInv, Contexts
  <2>9. Served'
    BY <1>1, <1>2, <1>4, <1>8, <2>8 DEF RegistryInv, Ordered, Served
  <2>10. NoTwin'
    BY <1>1, <1>2, <1>4, <1>5, <2>1, <2>5 DEF NoTwin, Matching, InRegistry
  <2> QED  BY <2>2, <2>3, <2>4, <2>6, <2>7, <2>9, <2>10 DEF Ordered
<1> QED  BY <1>1, <1>6, <1>7, <1>8 DEF RegistryInv

LEMMA RegistryTerminate ==
  ASSUME TypeInv, RegistryInv, NEW m \in Message, NEW w \in Worker, Terminate(m, w)
  PROVE  RegistryInv'
<1>1. /\ pc[m] = "terminate" /\ w \in found[m] /\ pc'[m] = "deregister" /\ victim'[m] = w
      /\ UNCHANGED <<active_workers, found, filtered, overlapped>>
      /\ UNCHANGED <<key, can_start, ctx>>
      /\ terminating' = [terminating EXCEPT ![w] = TRUE]
  BY DEF Terminate, Goto, TypeInv, TypeOK
<1>2. /\ Apart(m) /\ mine' = mine /\ request' = request
      /\ \A n \in Message : Holding(n)' <=> Holding(n)
  BY <1>1, OwnStep DEF Serve, CheckOutWorker, CheckInWorker, serverVars
<1>3. victim[m] = NoWorker /\ w # NoWorker /\ request[m].policy = "terminate"
  BY <1>1, PoolAssumption DEF RegistryInv, Victims
<1>4. \A n \in Message \ {m} : /\ pc'[n] = pc[n] /\ victim'[n] = victim[n]
                                /\ (InRegistry(n)' <=> InRegistry(n))
  BY <1>1, <1>2 DEF Apart, InRegistry
<1>5. InRegistry(m)
  BY <1>1 DEF InRegistry
<1>6. terminating'[w] /\ \A x \in Worker : terminating[x] => terminating'[x]
  BY <1>1 DEF TypeInv, TypeOK
<1>7. Victims'
  BY <1>1, <1>2, <1>3, <1>4 DEF RegistryInv, Victims
<1>8. Contexts'
  BY <1>1, <1>2, <1>4 DEF RegistryInv, Contexts, TypeInv, TypeOK
<1>9. ASSUME ~overlapped PROVE Ordered'
  <2>1. Alone'
    BY <1>4, <1>5, <1>9 DEF RegistryInv, Ordered, Alone
  <2>2. ListedHeld'
    BY <1>1, <1>2, <1>4, <1>9 DEF RegistryInv, Ordered, ListedHeld
  <2>3. CopyCurrent'
    BY <1>1, <1>2, <1>4, <1>9 DEF RegistryInv, Ordered, CopyCurrent, Target
  <2>4. \A n \in Message \ {m} : pc[n] # "terminate" /\ victim[n] = NoWorker
    BY <1>5, <1>9 DEF RegistryInv, Ordered, Alone, InRegistry, Victims
  <2>5. Duplicates'
    <3>1. found[m] \subseteq active_workers /\ \A x \in found[m] : key[x] = request[m].key
      BY <1>1, <1>3, <1>9, PoolAssumption DEF RegistryInv, Ordered, Duplicates, TypeInv, TypeOK
    <3>2. \A n \in Message \ {m} : pc'[n] # "terminate" /\ victim'[n] = NoWorker
      BY <1>4, <2>4
    <3> QED  BY <1>1, <1>2, <1>6, <3>1, <3>2 DEF Duplicates
  <2>6. OwnKey'
    BY <1>1, <1>2, <1>4, <1>9 DEF RegistryInv, Ordered, OwnKey
  <2>7. Served'
    <3> SUFFICES ASSUME NEW n \in Message,
                        \/ pc'[n] = "start" /\ can_start[mine[n]]
                        \/ pc'[n] = "deregister" /\ victim'[n] = NoWorker /\ ctx[mine[n]] = n,
                        ~terminating'[mine[n]]
                 PROVE  mine[n] \in active_workers /\ key[mine[n]] = request[n].key
      BY <1>1, <1>2 DEF Served
    <3>1. n # m
      BY <1>1, <1>3
    <3>2. pc[n] \in {"start", "deregister"} /\ mine[n] \in Worker
      BY <1>4, <3>1, OwnWorkers
    <3>3. ~terminating[mine[n]]
      BY <1>6, <3>2
    <3> QED  BY <1>4, <1>9, <3>1, <3>3 DEF RegistryInv, Ordered, Served
  <2>8. NoTwin'
    BY <1>1, <1>2, <1>4, <1>9 DEF RegistryInv, Ordered, NoTwin
  <2> QED  BY <2>1, <2>2, <2>3, <2>5, <2>6, <2>7, <2>8 DEF Ordered
<1> QED  BY <1>1, <1>7, <1>8, <1>9 DEF RegistryInv

LEMMA RegistryTerminateRaises ==
  ASSUME TypeInv, RegistryInv, NEW m \in Message, NEW w \in Worker, TerminateRaises(m, w)
  PROVE  RegistryInv'
<1>1. /\ pc[m] = "terminate" /\ pc'[m] = "over"
      /\ UNCHANGED <<active_workers, found, victim, filtered, overlapped>>
      /\ UNCHANGED <<key, can_start, ctx>>
      /\ terminating' = [terminating EXCEPT ![w] = TRUE]
  BY DEF TerminateRaises, Raise, Goto, registry, TypeInv, TypeOK
<1>2. /\ Apart(m) /\ mine' = mine /\ request' = request
      /\ \A n \in Message : Holding(n)' <=> Holding(n)
  BY <1>1, OwnStep DEF Serve, CheckOutWorker, CheckInWorker, serverVars
<1>3. victim[m] = NoWorker
  BY <1>1 DEF RegistryInv, Victims
<1>4. /\ \A n \in Message \ {m} : pc'[n] = pc[n] /\ (InRegistry(n)' <=> InRegistry(n))
      /\ ~InRegistry(m)'
  BY <1>1, <1>2 DEF Apart, InRegistry
<1>5. \A x \in Worker : terminating[x] => terminating'[x]
  BY <1>1 DEF TypeInv, TypeOK
<1>6. Victims' /\ Contexts'
  BY <1>1, <1>2, <1>3, <1>4 DEF RegistryInv, Victims, Contexts, TypeInv, TypeOK
<1>7. ASSUME ~overlapped PROVE Ordered'
  <2>1. Alone'
    BY <1>4, <1>7 DEF RegistryInv, Ordered, Alone
  <2>2. ListedHeld'
    BY <1>1, <1>2, <1>4, <1>7 DEF RegistryInv, Ordered, ListedHeld
  <2>3. CopyCurrent'
    BY <1>1, <1>2, <1>4, <1>7 DEF RegistryInv, Ordered, CopyCurrent, Target
  <2>4. Duplicates'
    <3>1. \A n \in Message : victim[n] # NoWorker => victim[n] \in Worker
      BY DEF TypeInv, TypeOK
    <3> QED  BY <1>1, <1>2, <1>3, <1>4, <1>5, <1>7, <3>1 DEF RegistryInv, Ordered, Duplicates
  <2>5. OwnKey'
    BY <1>1, <1>2, <1>3, <1>4, <1>7 DEF RegistryInv, Ordered, OwnKey
  <2>6. Served'
    BY <1>1, <1>2, <1>4, <1>5, <1>7, OwnWorkers DEF RegistryInv, Ordered, Served
  <2>7. NoTwin'
    BY <1>1, <1>2, <1>4, <1>7 DEF RegistryInv, Ordered, NoTwin
  <2> QED  BY <2>1, <2>2, <2>3, <2>4, <2>5, <2>6, <2>7 DEF Ordered
<1> QED  BY <1>1, <1>6, <1>7 DEF RegistryInv

LEMMA RegistryRegister ==
  ASSUME TypeInv, RegistryInv, NEW m \in Message, Register(m)
  PROVE  RegistryInv'
<1>1. /\ pc[m] = "append" /\ pc'[m] = "start"
      /\ UNCHANGED <<found, victim, filtered, overlapped>>
      /\ UNCHANGED <<key, ctx, terminating>>
      /\ active_workers' = active_workers \cup {mine[m]}
      /\ can_start' = [can_start EXCEPT ![mine[m]] = TRUE]
  BY DEF Register, Listed, Goto, TypeInv, TypeOK
<1>2. /\ Apart(m) /\ mine' = mine /\ request' = request
      /\ \A n \in Message : Holding(n)' <=> Holding(n)
  BY <1>1, OwnStep DEF Serve, CheckOutWorker, CheckInWorker, serverVars
<1>3. victim[m] = NoWorker /\ InRegistry(m)
  BY <1>1 DEF RegistryInv, Victims, InRegistry
<1>4. /\ \A n \in Message \ {m} : pc'[n] = pc[n] /\ (InRegistry(n)' <=> InRegistry(n))
      /\ ~InRegistry(m)'
  BY <1>1, <1>2 DEF Apart, InRegistry
<1>5. Victims' /\ Contexts'
  BY <1>1, <1>2, <1>3, <1>4 DEF RegistryInv, Victims, Contexts, TypeInv, TypeOK
<1>6. ASSUME ~overlapped PROVE Ordered'
  <2>1. \A n \in Message \ {m} : ~InRegistry(n) /\ victim[n] = NoWorker
    BY <1>3, <1>6 DEF RegistryInv, Ordered, Alone, InRegistry, Victims
  <2>2. Alone'
    BY <1>4, <2>1 DEF Alone
  <2>3. Holding(m) /\ mine[m] \in Worker
    BY <1>1, OwnWorkers
  <2>4. ListedHeld'
    BY <1>1, <1>2, <1>3, <1>4, <1>6, <2>3 DEF RegistryInv, Ordered, ListedHeld
  <2>5. CopyCurrent' /\ NoTwin'
    BY <1>1, <1>4, <2>1 DEF CopyCurrent, NoTwin, InRegistry
  <2>6. Duplicates'
    BY <1>1, <1>3, <1>4, <2>1 DEF Duplicates, InRegistry
  <2>7. OwnKey'
    BY <1>1, <1>2, <1>3, <1>4, <1>6 DEF RegistryInv, Ordered, OwnKey
  <2>8. key[mine[m]] = request[m].key
    BY <1>1, <1>6 DEF RegistryInv, Ordered, OwnKey
  <2>9. \A n \in Message \ {m} : Holding(n) => can_start'[mine[n]] = can_start[mine[n]]
    <3>1. \A n \in Message \ {m} : Holding(n) => mine[n] # mine[m]
      BY <2>3, OwnWorkers
    <3> QED  BY <1>1, <3>1, OwnWorkers DEF TypeInv, TypeOK
  <2>10. Served'
    BY <1>1, <1>2, <1>4, <1>6, <2>8, <2>9, OwnWorkers DEF RegistryInv, Ordered, Served
  <2> QED  BY <2>2, <2>4, <2>5, <2>6, <2>7, <2>10 DEF Ordered
<1> QED  BY <1>1, <1>5, <1>6 DEF RegistryInv

LEMMA RegistrySkipStart ==
  ASSUME TypeInv, RegistryInv, NEW m \in Message, SkipStart(m)
  PROVE  RegistryInv'
<1>1. /\ pc[m] = "start" /\ pc'[m] = "deregister"
      /\ UNCHANGED <<active_workers, found, victim, filtered, overlapped>>
      /\ UNCHANGED <<key, can_start, ctx, terminating>>
  BY DEF SkipStart, Goto, registry, workers, TypeInv, TypeOK
<1>2. /\ Apart(m) /\ mine' = mine /\ request' = request
      /\ \A n \in Message : Holding(n)' <=> Holding(n)
  BY <1>1, OwnStep DEF Serve, CheckOutWorker, CheckInWorker, serverVars
<1>3. victim[m] = NoWorker
  BY <1>1 DEF RegistryInv, Victims
<1>4. /\ \A n \in Message \ {m} : pc'[n] = pc[n] /\ (InRegistry(n)' <=> InRegistry(n))
      /\ ~InRegistry(m)'
  BY <1>1, <1>2, <1>3 DEF Apart, InRegistry
<1>5. Victims' /\ Contexts'
  BY <1>1, <1>2, <1>3, <1>4 DEF RegistryInv, Victims, Contexts, TypeInv, TypeOK
<1>6. ctx[mine[m]] # m
  BY <1>1, OwnWorkers, NoMessageAssumption DEF RegistryInv, Contexts
<1>7. ASSUME ~overlapped PROVE Ordered'
  <2>1. Alone'
    BY <1>4, <1>7 DEF RegistryInv, Ordered, Alone
  <2>2. ListedHeld' /\ CopyCurrent'
    BY <1>1, <1>2, <1>4, <1>7 DEF RegistryInv, Ordered, ListedHeld, CopyCurrent, Target
  <2>3. Duplicates' /\ OwnKey'
    BY <1>1, <1>2, <1>3, <1>4, <1>7 DEF RegistryInv, Ordered, Duplicates, OwnKey
  <2>4. Served' /\ NoTwin'
    BY <1>1, <1>2, <1>4, <1>6, <1>7 DEF RegistryInv, Ordered, Served, NoTwin
  <2> QED  BY <2>1, <2>2, <2>3, <2>4 DEF Ordered
<1> QED  BY <1>1, <1>5, <1>7 DEF RegistryInv

LEMMA RegistryStart ==
  ASSUME TypeInv, RegistryInv, NEW m \in Message, Start(m) \/ StartRaises(m)
  PROVE  RegistryInv'
<1>1. /\ pc[m] = "start" /\ pc'[m] \in {"deregister", "over"} /\ can_start[mine[m]]
      /\ UNCHANGED <<active_workers, found, victim, filtered, overlapped>>
      /\ UNCHANGED <<key, terminating>>
      /\ can_start' = [can_start EXCEPT ![mine[m]] = FALSE]
      /\ ctx' = [ctx EXCEPT ![mine[m]] = m]
  BY DEF Start, StartRaises, Stages, Raise, Goto, registry, TypeInv, TypeOK
<1>2. /\ Apart(m) /\ mine' = mine /\ request' = request
      /\ \A n \in Message : Holding(n)' <=> Holding(n)
  BY <1>1, OwnStep DEF Serve, CheckOutWorker, CheckInWorker, serverVars
<1>3. victim[m] = NoWorker /\ Holding(m) /\ mine[m] \in Worker
  BY <1>1, OwnWorkers DEF RegistryInv, Victims
<1>4. /\ \A n \in Message \ {m} : pc'[n] = pc[n] /\ (InRegistry(n)' <=> InRegistry(n))
      /\ ~InRegistry(m)'
  BY <1>1, <1>2, <1>3 DEF Apart, InRegistry
<1>5. /\ ctx'[mine[m]] = m /\ ~can_start'[mine[m]]
      /\ \A w \in Worker \ {mine[m]} : ctx'[w] = ctx[w] /\ can_start'[w] = can_start[w]
  BY <1>1, <1>3 DEF TypeInv, TypeOK
<1>6. Victims'
  BY <1>1, <1>2, <1>3, <1>4 DEF RegistryInv, Victims
<1>7. Contexts'
  BY <1>1, <1>2, <1>3, <1>4, <1>5 DEF RegistryInv, Contexts, TypeInv, TypeOK
<1>8. ASSUME ~overlapped PROVE Ordered'
  <2>1. Alone'
    BY <1>4, <1>8 DEF RegistryInv, Ordered, Alone
  <2>2. ListedHeld' /\ CopyCurrent'
    BY <1>1, <1>2, <1>4, <1>8 DEF RegistryInv, Ordered, ListedHeld, CopyCurrent, Target
  <2>3. Duplicates' /\ OwnKey'
    BY <1>1, <1>2, <1>3, <1>4, <1>8 DEF RegistryInv, Ordered, Duplicates, OwnKey
  <2>4. NoTwin'
    BY <1>1, <1>2, <1>4, <1>8 DEF RegistryInv, Ordered, NoTwin
  <2>5. \A n \in Message \ {m} : Holding(n) =>
           ctx'[mine[n]] = ctx[mine[n]] /\ can_start'[mine[n]] = can_start[mine[n]]
    BY <1>3, <1>5, OwnWorkers
  <2>6. Served'
    BY <1>1, <1>2, <1>4, <1>8, <2>5, OwnWorkers DEF RegistryInv, Ordered, Served
  <2> QED  BY <2>1, <2>2, <2>3, <2>4, <2>6 DEF Ordered
<1> QED  BY <1>1, <1>6, <1>7, <1>8 DEF RegistryInv

LEMMA RegistryDeregister ==
  ASSUME TypeInv, RegistryInv, NEW m \in Message, Deregister(m)
  PROVE  RegistryInv'
<1>1. /\ pc[m] = "deregister" /\ pc'[m] = "rewrite"
      /\ UNCHANGED <<active_workers, found, victim>>
      /\ UNCHANGED <<can_start, ctx, terminating>>
      /\ overlapped' = (overlapped \/ \E n \in Message \ {m} : InRegistry(n))
      /\ key' = [key EXCEPT ![Target(m)] = NoKey]
      /\ filtered' = [filtered EXCEPT ![m] = active_workers \ {Target(m)}]
  BY DEF Deregister, Enters, Goto, ClearedKey, Remaining, TypeInv, TypeOK
<1>2. /\ Apart(m) /\ mine' = mine /\ request' = request
      /\ \A n \in Message : Holding(n)' <=> Holding(n)
  BY <1>1, OwnStep DEF Serve, CheckOutWorker, CheckInWorker, serverVars
<1>3. Holding(m) /\ mine[m] \in Worker /\ Target(m) \in Worker
  BY <1>1, OwnWorkers DEF Target, TypeInv, TypeOK
<1>4. \A n \in Message \ {m} : pc'[n] = pc[n] /\ (InRegistry(n)' <=> InRegistry(n))
  BY <1>1, <1>2 DEF Apart, InRegistry
<1>5. \A w \in Worker \ {Target(m)} : key'[w] = key[w]
  BY <1>1, <1>3 DEF TypeInv, TypeOK
<1>6. filtered'[m] = active_workers \ {Target(m)} /\ Target(m)' = Target(m)
  BY <1>1, <1>2 DEF Target, TypeInv, TypeOK
<1>7. Victims'
  BY <1>1, <1>2, <1>4 DEF RegistryInv, Victims
<1>8. Contexts'
  BY <1>1, <1>2, <1>4 DEF RegistryInv, Contexts, TypeInv, TypeOK
<1>9. ASSUME ~overlapped, \A n \in Message \ {m} : ~InRegistry(n) PROVE Ordered'
  <2>1. \A n \in Message \ {m} : ~InRegistry(n)' /\ victim[n] = NoWorker
    BY <1>4, <1>9 DEF InRegistry, RegistryInv, Victims
  <2>2. Alone'
    BY <2>1 DEF Alone
  <2>3. ListedHeld'
    BY <1>1, <1>2, <1>4, <1>9 DEF RegistryInv, Ordered, ListedHeld
  <2>4. CopyCurrent' /\ NoTwin'
    BY <1>1, <1>4, <1>6, <2>1 DEF CopyCurrent, NoTwin, InRegistry
  <2>5. victim[m] # NoWorker =>
           /\ Target(m) = victim[m] /\ terminating[victim[m]]
           /\ found[m] \subseteq active_workers /\ victim[m] \in active_workers
           /\ \A w \in found[m] \ {victim[m]} : key[w] = request[m].key
    BY <1>9 DEF RegistryInv, Ordered, Duplicates, Victims, Target
  <2>6. Duplicates'
    <3>1. \A n \in Message \ {m} : pc'[n] # "terminate" /\ victim'[n] = NoWorker
      BY <1>1, <1>4, <2>1 DEF InRegistry
    <3>2. victim[m] # NoWorker => \A w \in found[m] \ {victim[m]} : key'[w] = request[m].key
      BY <1>5, <2>5 DEF TypeInv, TypeOK
    <3> QED  BY <1>1, <1>2, <2>5, <3>1, <3>2 DEF Duplicates
  \* Who is before its registration does not have the target.
  <2>7. \A n \in Message : pc[n] = "lookup" \/ (n = m /\ victim[m] # NoWorker) =>
           mine[n] \in Worker \ {Target(m)}
    <3>1. CASE victim[m] = NoWorker
      BY <1>1, <1>3, <3>1, OwnWorkers DEF Target
    <3>2. CASE victim[m] # NoWorker
      <4>1. PICK l \in Message : Holding(l) /\ mine[l] = Target(m) /\ victim[l] = NoWorker
                                 /\ pc[l] \in {"start", "deregister", "rewrite", "over"}
        BY <1>9, <2>5, <3>2 DEF RegistryInv, Ordered, ListedHeld
      <4> QED  BY <1>3, <3>2, <4>1, OwnWorkers
    <3> QED  BY <3>1, <3>2
  <2>8. OwnKey'
    <3>1. \A n \in Message \ {m} : pc'[n] \notin {"terminate", "append"} /\ victim'[n] = NoWorker
      BY <1>1, <1>4, <2>1 DEF InRegistry
    <3>2. \A n \in Message : pc[n] = "lookup" \/ (n = m /\ victim[m] # NoWorker) =>
             key'[mine[n]] = request[n].key
      BY <1>5, <1>9, <2>7 DEF RegistryInv, Ordered, OwnKey
    <3> QED  BY <1>1, <1>2, <1>4, <3>1, <3>2 DEF OwnKey
  <2>9. Served'
    <3> SUFFICES ASSUME NEW n \in Message,
                        \/ pc'[n] = "start" /\ can_start[mine[n]]
                        \/ pc'[n] = "deregister" /\ victim[n] = NoWorker /\ ctx[mine[n]] = n,
                        ~terminating[mine[n]]
                 PROVE  mine[n] \in active_workers /\ key'[mine[n]] = request[n].key
      BY <1>1, <1>2 DEF Served
    <3>1. n # m
      BY <1>1
    <3>2. pc[n] \in {"start", "deregister"} /\ pc[n] = pc'[n] /\ Holding(n) /\ mine[n] \in Worker
      BY <1>4, <3>1, OwnWorkers
    <3>3. mine[n] # Target(m)
      BY <1>3, <2>5, <3>1, <3>2, OwnWorkers DEF Target
    <3> QED  BY <1>5, <1>9, <3>2, <3>3 DEF RegistryInv, Ordered, Served
  <2> QED  BY <2>2, <2>3, <2>4, <2>6, <2>8, <2>9 DEF Ordered
<1> QED  BY <1>1, <1>7, <1>8, <1>9 DEF RegistryInv

LEMMA RegistryRewrite ==
  ASSUME TypeInv, RegistryInv, NEW m \in Message, Rewrite(m)
  PROVE  RegistryInv'
<1>1. /\ pc[m] = "rewrite" /\ active_workers' = filtered[m]
      /\ UNCHANGED <<overlapped, key>>
      /\ filtered' = [filtered EXCEPT ![m] = {}]
      /\ can_start' = [can_start EXCEPT ![Target(m)] = FALSE]
      /\ ctx' = [ctx EXCEPT ![Target(m)] = NoMessage]
      /\ terminating' = [terminating EXCEPT ![Target(m)] = FALSE]
      /\ found'[m] = found[m] \ {victim[m]} /\ victim'[m] = NoWorker
      /\ pc'[m] \in {"check_in", "append", "terminate"}
      /\ victim[m] = NoWorker => pc'[m] = "check_in"
  BY DEF Rewrite, Goto, TypeInv, TypeOK
<1>2. /\ Apart(m) /\ mine' = mine /\ request' = request
      /\ \A n \in Message : Holding(n)' <=> Holding(n)
  BY <1>1, OwnStep DEF Serve, CheckOutWorker, CheckInWorker, serverVars
<1>3. Holding(m) /\ mine[m] \in Worker /\ Target(m) \in Worker /\ InRegistry(m)
  BY <1>1, OwnWorkers DEF Target, InRegistry, TypeInv, TypeOK
<1>4. \A n \in Message \ {m} : /\ pc'[n] = pc[n] /\ victim'[n] = victim[n]
                                /\ (InRegistry(n)' <=> InRegistry(n))
  BY <1>1, <1>2 DEF Apart, InRegistry
<1>5. /\ ~can_start'[Target(m)] /\ ctx'[Target(m)] = NoMessage
      /\ \A w \in Worker \ {Target(m)} :
            can_start'[w] = can_start[w] /\ ctx'[w] = ctx[w] /\ terminating'[w] = terminating[w]
  BY <1>1, <1>3 DEF TypeInv, TypeOK
<1>6. Victims'
  BY <1>1, <1>2, <1>4 DEF RegistryInv, Victims, Apart
<1>7. Contexts'
  <2> SUFFICES ASSUME NEW w \in Worker, NEW l, l = ctx'[w], l # NoMessage
               PROVE  /\ Holding(l)' /\ mine'[l] = w
                      /\ pc'[l] \in {"deregister", "rewrite", "over"} /\ victim'[l] = NoWorker
    BY DEF Contexts, Holding
  <2>1. w # Target(m) /\ ctx[w] = l /\ l \in Message
    BY <1>5 DEF TypeInv, TypeOK
  <2>2. /\ Holding(l) /\ mine[l] = w
        /\ pc[l] \in {"deregister", "rewrite", "over"} /\ victim[l] = NoWorker
    BY <2>1 DEF RegistryInv, Contexts
  <2>3. l # m
    BY <2>1, <2>2 DEF Target
  <2> QED  BY <1>2, <1>4, <2>1, <2>2, <2>3
<1>8. ASSUME ~overlapped PROVE Ordered'
  <2>1. \A n \in Message \ {m} : ~InRegistry(n)' /\ victim[n] = NoWorker /\ ~InRegistry(n)
    BY <1>3, <1>4, <1>8 DEF InRegistry, RegistryInv, Victims, Ordered, Alone
  <2>2. active_workers' = active_workers \ {Target(m)}
    BY <1>1, <1>8 DEF RegistryInv, Ordered, CopyCurrent
  <2>3. Alone'
    BY <2>1 DEF Alone
  <2>4. ListedHeld'
    <3> SUFFICES ASSUME NEW w \in active_workers, w # Target(m)
                 PROVE  \E n \in Message :
                           /\ Holding(n)' /\ mine'[n] = w
                           /\ pc'[n] \in {"start", "deregister", "rewrite", "over"}
                           /\ victim'[n] = NoWorker
      BY <2>2 DEF ListedHeld
    <3>1. PICK n \in Message : Holding(n) /\ mine[n] = w /\ victim[n] = NoWorker
                               /\ pc[n] \in {"start", "deregister", "rewrite", "over"}
      BY <1>8 DEF RegistryInv, Ordered, ListedHeld
    <3>2. n # m
      BY <3>1 DEF Target
    <3> QED  BY <1>2, <1>4, <3>1, <3>2
  <2>5. CopyCurrent' /\ NoTwin'
    <3>1. \A n \in Message \ {m} : pc'[n] \notin {"rewrite", "append"}
      BY <2>1 DEF InRegistry
    <3>2. pc'[m] = "append" => request[m].policy = "terminate"
      BY <1>1 DEF RegistryInv, Victims
    <3> QED  BY <1>1, <1>2, <3>1, <3>2 DEF CopyCurrent, NoTwin
  <2>6. Duplicates'
    <3>1. \A n \in Message \ {m} : pc'[n] # "terminate" /\ victim'[n] = NoWorker
      BY <1>4, <2>1 DEF InRegistry
    <3>2. victim[m] # NoWorker =>
             /\ Target(m) = victim[m] /\ found[m] \subseteq active_workers
             /\ \A w \in found[m] \ {victim[m]} : key[w] = request[m].key
      BY <1>8 DEF RegistryInv, Ordered, Duplicates, Target
    <3> QED  BY <1>1, <1>2, <2>2, <3>1, <3>2 DEF Duplicates
  <2>7. OwnKey'
    <3>1. \A n \in Message \ {m} : pc'[n] \notin {"terminate", "append"} /\ victim'[n] = NoWorker
      BY <1>4, <2>1 DEF InRegistry
    <3> QED  BY <1>1, <1>2, <1>4, <1>8, <3>1 DEF RegistryInv, Ordered, OwnKey
  <2>8. Served'
    <3> SUFFICES ASSUME NEW n \in Message,
                        \/ pc'[n] = "start" /\ can_start'[mine[n]]
                        \/ pc'[n] = "deregister" /\ victim'[n] = NoWorker /\ ctx'[mine[n]] = n,
                        ~terminating'[mine[n]]
                 PROVE  mine[n] \in active_workers' /\ key[mine[n]] = request[n].key
      BY <1>1, <1>2 DEF Served
    <3>1. n # m
      BY <1>1
    <3>2. /\ pc[n] \in {"start", "deregister"} /\ pc[n] = pc'[n] /\ mine[n] \in Worker
          /\ victim'[n] = victim[n]
      BY <1>4, <3>1, OwnWorkers
    <3>3. mine[n] # Target(m)
      BY <1>5, <3>1, <3>2, NoMessageAssumption
    <3> QED  BY <1>5, <1>8, <2>2, <3>2, <3>3 DEF RegistryInv, Ordered, Served
  <2> QED  BY <2>3, <2>4, <2>5, <2>6, <2>7, <2>8 DEF Ordered
<1> QED  BY <1>1, <1>6, <1>7, <1>8 DEF RegistryInv

LEMMA RegistryNext ==
  ASSUME TypeInv, RegistryInv, [Next]_vars
  PROVE  RegistryInv'
<1>1. CASE UNCHANGED vars
  BY <1>1 DEF vars, poolVars, serverVars, mail, registry, workers, RegistryInv, Victims, Contexts,
     Ordered, Alone, ListedHeld, CopyCurrent, Duplicates, OwnKey, Served, NoTwin, InRegistry,
     Target, Holding
<1>2. ASSUME NEW m \in Message, Serve(m) PROVE RegistryInv'
  <2>1. Apart(m)
    BY <1>2, StepApart
  <2>2. CASE Reject(m) \/ CheckOutWorker(m) \/ NoneAvailable(m) \/ RaisesEarly(m)
             \/ KeyRaises(m) \/ CheckInWorker(m)
    <3>1. /\ UNCHANGED <<registry, workers>> /\ pc[m] \in {"check_out", "check_in"}
          /\ pc'[m] \in {pc[m], "over"}
      BY <2>2 DEF Reject, CheckOutWorker, NoneAvailable, RaisesEarly, KeyRaises, CheckInWorker,
         Raise, Goto, serverVars, TypeInv, TypeOK
    <3> QED  BY <2>1, <3>1, RegistryQuiet
  <2>3. CASE Accept(m)
    BY <2>3, RegistryAccept
  <2>4. CASE Lookup(m)
    BY <2>4, RegistryLookup
  <2>5. CASE Register(m)
    BY <2>5, RegistryRegister
  <2>6. ASSUME NEW w \in Worker, Terminate(m, w) \/ TerminateRaises(m, w) PROVE RegistryInv'
    BY <2>6, RegistryTerminate, RegistryTerminateRaises
  <2>7. CASE SkipStart(m)
    BY <2>7, RegistrySkipStart
  <2>8. CASE Start(m) \/ StartRaises(m)
    BY <2>8, RegistryStart
  <2>9. CASE Deregister(m)
    BY <2>9, RegistryDeregister
  <2>10. CASE Rewrite(m)
    BY <2>10, RegistryRewrite
  <2> QED
    BY <1>2, <2>2, <2>3, <2>4, <2>5, <2>6, <2>7, <2>8, <2>9, <2>10 DEF Serve
<1> QED  BY <1>1, <1>2 DEF Next

LEMMA RegistryAlways == Spec => [](TypeInv /\ RegistryInv)
<1>1. Init => TypeInv /\ RegistryInv
  BY TypeInitial, PoolInitInv, KeyInit, RegistryInit DEF Init, TypeInv
<1>2. TypeInv /\ RegistryInv /\ [Next]_vars => TypeInv' /\ RegistryInv'
  BY TypeInvStep, RegistryNext
<1> QED  BY <1>1, <1>2, PTL DEF Spec

\* The policy deny keeps two submissions with one key from running together:
\* what _register_worker found in the list is still so when it appends its own
\* worker, unless another thread was in the registry meanwhile.
THEOREM DenyKeepsApart == Spec => DenyExcludes
<1> DEFINE Excludes(m) ==
       pc[m] = "append" /\ pc'[m] = "start" /\ request[m].policy = "deny" /\ ~overlapped
          => \A n \in Message \ {m} : Serving(n) => request[n].key # request[m].key
<1>1. ASSUME RegistryInv, NEW m \in Message, pc[m] = "append", request[m].policy = "deny",
             ~overlapped, NEW n \in Message, Serving(n)
      PROVE  request[n].key # request[m].key
  <2>1. \A w \in active_workers : key[w] # request[m].key
    BY <1>1 DEF RegistryInv, Ordered, NoTwin
  <2>2. mine[n] \in active_workers /\ key[mine[n]] = request[n].key
    BY <1>1 DEF RegistryInv, Ordered, Served, Serving
  <2> QED  BY <2>1, <2>2
<1>2. TypeInv /\ RegistryInv => \A m \in Message : Excludes(m)
  BY <1>1
<1>3. TypeInv /\ RegistryInv => [\A m \in Message : Excludes(m)]_vars
  BY <1>2
<1> QED  BY <1>3, RegistryAlways, PTL DEF DenyExcludes

\* Only a submission with the policy terminate ends a run, and only one of
\* another submission with its key: a worker in the list it has searched still
\* serves the submission whose key it has.
THEOREM TerminationJustified == Spec => TerminatesDuplicates
<1> DEFINE Justified(m, w) ==
       victim[m] = NoWorker /\ victim'[m] = w /\ ctx[w] # NoMessage /\ ~overlapped
          => /\ ctx[w] # m
             /\ request[ctx[w]].key = request[m].key
             /\ request[m].policy = "terminate"
<1>1. ASSUME TypeInv, RegistryInv, Next, NEW m \in Message, NEW w \in Worker,
             victim[m] = NoWorker, victim'[m] = w, ctx[w] # NoMessage, ~overlapped
      PROVE  /\ ctx[w] # m
             /\ request[ctx[w]].key = request[m].key
             /\ request[m].policy = "terminate"
  <2>1. PICK n \in Message : Serve(n)
    BY <1>1 DEF Next
  <2>2. w # NoWorker
    BY PoolAssumption
  <2>3. n = m
    BY <1>1, <2>1, <2>2, StepApart DEF Apart
  <2>4. pc[m] = "terminate" /\ w \in found[m]
    <3>1. \E x \in Worker : Terminate(m, x)
      BY <1>1, <2>1, <2>2, <2>3 DEF Serve, Reject, CheckOutWorker, NoneAvailable, RaisesEarly, KeyRaises,
         Accept, Lookup, TerminateRaises, Register, SkipStart, Stages, Start, StartRaises,
         Deregister, Rewrite, CheckInWorker, serverVars, registry, TypeInv, TypeOK
    <3> QED  BY <1>1, <3>1 DEF Terminate, TypeInv, TypeOK
  <2>5. request[m].policy = "terminate" /\ key[w] = request[m].key
    BY <1>1, <2>2, <2>4 DEF RegistryInv, Victims, Ordered, Duplicates
  <2>6. /\ ctx[w] \in Message /\ Holding(ctx[w]) /\ mine[ctx[w]] = w
        /\ pc[ctx[w]] \in {"deregister", "rewrite", "over"}
    BY <1>1 DEF RegistryInv, Contexts, TypeInv, TypeOK
  <2>7. PICK l \in Message : Holding(l) /\ mine[l] = w /\ key[w] = request[l].key
    BY <1>1, <2>5, <2>4, BatchAssumption DEF TypeInv, TypeOK, KeyInv, KeyOfHolder
  <2>8. l = ctx[w]
    BY <1>1, <2>6, <2>7, OwnWorkers
  <2> QED  BY <2>4, <2>5, <2>6, <2>7, <2>8
<1>2. TypeInv /\ RegistryInv /\ [Next]_vars => [\A m \in Message, w \in Worker : Justified(m, w)]_vars
  BY <1>1
<1> QED  BY <1>2, RegistryAlways, PTL DEF TerminatesDuplicates, Spec
====
