------------------------ MODULE EventExchange_proofs ------------------------
(***************************************************************************)
(* Type correctness and at-most-once delivery of module EventExchange, and *)
(* what a reset has behind it, for every set of publishers and subscribers *)
(* and every configuration.                                                *)
(*                                                                         *)
(* AtMostOnce is not inductive.  What makes it hold is that handled_events *)
(* covers, for every handler that is subscribed, whatever is being or has  *)
(* been handed to it (Covered), that the lock leaves one thread at a time  *)
(* between the test and the append (LockHeld, Fresh), and that a handler   *)
(* a reset has removed can only be handed what a thread had already looked *)
(* up: at most one thread holds such a delivery (LookupAlone, HandleAlone).*)
(***************************************************************************)
EXTENDS EventExchange, TLAPS

Pair(p) == <<Key(p), event[p]>>
Acting(p) == pc[p] \in {"lookup", "handle"}
Once(p) == event[p] \in AllowOnce
Subscribed(p) == Key(p) \in ToSet(subscribers)

\* The lock is held exactly between the test and the append.
LockHeld == \A p \in Publisher : (lock = p) = (pc[p] = "mark")

\* Between the two assignments of reset nobody is subscribed.
ResetIsEmpty == \A p \in Publisher : pc[p] = "resetting" => subscribers = <<>>

\* A thread that is about to append has found nothing.
Fresh ==
    \A p \in Publisher :
        pc[p] = "mark" /\ Once(p) /\ Subscribed(p) => Pair(p) \notin handled_events

\* What is being handed, or has been, is marked.
Covered ==
    /\ \A p \in Publisher : Acting(p) /\ Subscribed(p) => Pair(p) \in handled_events
    /\ \A s \in ToSet(subscribers) : \A e \in AllowOnce :
           delivered[<<s, e>>] > 0 => <<s, e>> \in handled_events

\* A thread between its append and its lookup is the only one for its pair.
LookupAlone ==
    \A p \in Publisher :
        pc[p] = "lookup" /\ Once(p) /\ Subscribed(p) =>
            /\ delivered[Pair(p)] = 0
            /\ \A q \in Publisher : Acting(q) /\ Pair(q) = Pair(p) => q = p

\* So is a thread that is about to call the handler.
HandleAlone ==
    \A p \in Publisher :
        pc[p] = "handle" /\ Once(p) =>
            /\ delivered[Pair(p)] = 0
            /\ \A q \in Publisher : pc[q] = "handle" /\ Pair(q) = Pair(p) => q = p

IInv ==
    /\ TypeOK /\ AtMostOnce
    /\ LockHeld /\ ResetIsEmpty /\ Fresh /\ Covered /\ LookupAlone /\ HandleAlone
-----------------------------------------------------------------------------
LEMMA ToSetOfEmpty == ToSet(<<>>) = {}
  BY DEF ToSet

LEMMA ToSetOfAppend ==
  ASSUME NEW S, NEW seq \in Seq(S), NEW x \in S
  PROVE  ToSet(Append(seq, x)) = ToSet(seq) \cup {x}
<1>1. Append(seq, x) \in Seq(S) /\ Len(Append(seq, x)) = Len(seq) + 1
  OBVIOUS
<1>2. \A i \in 1 .. Len(seq) + 1 :
         Append(seq, x)[i] = IF i <= Len(seq) THEN seq[i] ELSE x
  OBVIOUS
<1>3. DOMAIN seq = 1 .. Len(seq) /\ DOMAIN Append(seq, x) = 1 .. Len(seq) + 1
  BY <1>1
<1>4. Len(seq) \in Nat
  OBVIOUS
<1>5. ToSet(Append(seq, x)) \subseteq ToSet(seq) \cup {x}
  BY <1>2, <1>3, <1>4 DEF ToSet
<1>6. ToSet(seq) \subseteq ToSet(Append(seq, x))
  BY <1>2, <1>3, <1>4 DEF ToSet
<1>7. x \in ToSet(Append(seq, x))
  <2>1. Len(seq) + 1 \in DOMAIN Append(seq, x) /\ Append(seq, x)[Len(seq) + 1] = x
    BY <1>2, <1>3, <1>4
  <2> QED  BY <2>1 DEF ToSet
<1> QED  BY <1>5, <1>6, <1>7

LEMMA ToSetOfSubscribers == TypeOK => ToSet(subscribers) \subseteq Subscriber
  BY DEF TypeOK, ToSet

\* The key of a thread that is past the test of its loop is a subscriber.
LEMMA KeyType ==
  ASSUME TypeOK, NEW p \in Publisher,
         \/ pc[p] \in {"mark", "lookup", "handle"}
         \/ pc[p] = "iterate" /\ index[p] <= Len(keys[p])
  PROVE  Key(p) \in Subscriber
<1>1. index[p] \in 1 .. Len(keys[p]) /\ keys[p] \in Seq(Subscriber)
  BY DEF TypeOK
<1> QED  BY <1>1 DEF Key
-----------------------------------------------------------------------------
(***************************************************************************)
(* Type correctness                                                        *)
(***************************************************************************)
LEMMA TypeInit == Init => TypeOK
  BY ConfigAssumption DEF Init, TypeOK, PcLabel

LEMMA TypeNext == TypeOK /\ [Next]_vars => TypeOK'
<1> SUFFICES ASSUME TypeOK, [Next]_vars PROVE TypeOK'
  OBVIOUS
<1> USE DEF TypeOK, PcLabel
<1>1. ASSUME NEW s \in Subscriber, AddSubscriber(s) PROVE TypeOK'
  <2>1. Append(subscribers, s) \in Seq(Subscriber)
    OBVIOUS
  <2>2. delivered' \in [Subscriber \X EventType -> Nat]
    BY <1>1 DEF AddSubscriber
  <2> QED  BY <1>1, <2>1, <2>2 DEF AddSubscriber
<1>2. ASSUME NEW p \in Publisher, NEW e \in EventType, Publish(p, e) PROVE TypeOK'
  BY <1>2, ConfigAssumption DEF Publish, Start
<1>3. ASSUME NEW p \in Publisher, CheckHandled(p) PROVE TypeOK'
  BY <1>3 DEF CheckHandled
<1>4. ASSUME NEW p \in Publisher, MarkHandled(p) PROVE TypeOK'
  <2>1. Key(p) \in Subscriber
    BY <1>4, KeyType DEF MarkHandled
  <2> QED  BY <1>4, <2>1 DEF MarkHandled
<1>5. ASSUME NEW p \in Publisher, LookupSubscriber(p) PROVE TypeOK'
  <2>1. index[p] \in Nat /\ index[p] >= 1 /\ index[p] <= Len(keys[p])
    BY <1>5 DEF LookupSubscriber
  <2>2. CASE pc' = [pc EXCEPT ![p] = "idle"] /\ index' = index
    BY <1>5, <2>2 DEF LookupSubscriber
  <2>3. CASE pc' = [pc EXCEPT ![p] = "iterate"] /\ index' = [index EXCEPT ![p] = @ + 1]
    BY <1>5, <2>1, <2>3 DEF LookupSubscriber
  <2>4. CASE pc' = [pc EXCEPT ![p] = "handle"] /\ index' = index
    BY <1>5, <2>1, <2>4 DEF LookupSubscriber
  <2> QED  BY <1>5, <2>2, <2>3, <2>4 DEF LookupSubscriber
<1>6. ASSUME NEW p \in Publisher, Handle(p) PROVE TypeOK'
  <2>1. Key(p) \in Subscriber
    BY <1>6, KeyType DEF Handle
  <2>2. delivered' \in [Subscriber \X EventType -> Nat]
    BY <1>6, <2>1 DEF Handle
  <2> QED  BY <1>6, <2>2 DEF Handle
<1>7. ASSUME NEW p \in Publisher, EndLoop(p) PROVE TypeOK'
  <2>1. CASE subscribers' = <<>> /\ pc' = [pc EXCEPT ![p] = "resetting"]
    <3>1. <<>> \in Seq(Subscriber)
      OBVIOUS
    <3> QED  BY <1>7, <2>1, <3>1 DEF EndLoop
  <2>2. CASE subscribers' = subscribers /\ pc' = [pc EXCEPT ![p] = "idle"]
    BY <1>7, <2>2 DEF EndLoop
  <2> QED  BY <1>7, <2>1, <2>2 DEF EndLoop
<1>8. ASSUME NEW p \in Publisher, ResetHandled(p) PROVE TypeOK'
  BY <1>8 DEF ResetHandled
<1>9. CASE UNCHANGED vars
  BY <1>9 DEF vars
<1> QED
  BY <1>1, <1>2, <1>3, <1>4, <1>5, <1>6, <1>7, <1>8, <1>9 DEF Next, Step

\* Every variable of the exchange keeps its type, and a thread that acts on a
\* key is at a position its dictionary has (publish).
THEOREM TypeCorrect == Spec => []TypeOK
  BY TypeInit, TypeNext, PTL DEF Spec
-----------------------------------------------------------------------------
(***************************************************************************)
(* At most once                                                            *)
(***************************************************************************)
LEMMA InvInit == Init => IInv
<1> SUFFICES ASSUME Init PROVE IInv
  OBVIOUS
<1>1. TypeOK /\ ToSet(subscribers) = {}
  BY TypeInit, ToSetOfEmpty DEF Init
<1>2. AtMostOnce
  BY ConfigAssumption DEF Init, AtMostOnce
<1> QED
  BY <1>1, <1>2, ConfigAssumption
  DEF Init, IInv, LockHeld, ResetIsEmpty, Fresh, Covered, LookupAlone, HandleAlone, Acting

\* What a step of p leaves alone of the other threads.
LEMMA OthersKept ==
  ASSUME NEW p \in Publisher, Step(p) \/ \E e \in EventType : Publish(p, e), TypeOK
  PROVE  /\ \A q \in Publisher \ {p} :
               /\ pc'[q] = pc[q] /\ event'[q] = event[q]
               /\ Key(q)' = Key(q) /\ Pair(q)' = Pair(q) /\ Acting(q)' = Acting(q)
<1> USE DEF TypeOK
<1>1. CASE \E e \in EventType : Publish(p, e)
  BY <1>1 DEF Publish, Start, Key, Pair, Acting
<1>2. CASE CheckHandled(p)
  BY <1>2 DEF CheckHandled, Key, Pair, Acting
<1>3. CASE MarkHandled(p)
  BY <1>3 DEF MarkHandled, Key, Pair, Acting
<1>4. CASE LookupSubscriber(p)
  BY <1>4 DEF LookupSubscriber, Key, Pair, Acting
<1>5. CASE Handle(p)
  BY <1>5 DEF Handle, Key, Pair, Acting
<1>6. CASE EndLoop(p)
  BY <1>6 DEF EndLoop, Key, Pair, Acting
<1>7. CASE ResetHandled(p)
  BY <1>7 DEF ResetHandled, Key, Pair, Acting
<1> QED
  BY <1>1, <1>2, <1>3, <1>4, <1>5, <1>6, <1>7 DEF Step

\* A step after which its thread neither holds the lock nor acts on a pair.
LEMMA QuietStep ==
  ASSUME IInv, TypeOK', NEW p \in Publisher,
         Step(p) \/ \E e \in EventType : Publish(p, e),
         pc[p] # "mark", pc'[p] \in {"idle", "iterate"},
         UNCHANGED <<subscribers, handled_events, lock, delivered>>
  PROVE  IInv'
<1> USE OthersKept DEF IInv
<1>1. AtMostOnce'
  BY DEF AtMostOnce
<1>2. LockHeld'
  BY DEF LockHeld
<1>3. ResetIsEmpty'
  BY DEF ResetIsEmpty
<1>4. ~Acting(p)'
  BY DEF Acting
<1>5. Fresh'
  BY DEF Fresh, Subscribed, Once
<1>6. Covered'
  BY <1>4 DEF Covered, Subscribed
<1>7. LookupAlone'
  BY <1>4 DEF LookupAlone, Subscribed, Once
<1>8. HandleAlone'
  BY <1>4 DEF HandleAlone, Once
<1> QED  BY <1>1, <1>2, <1>3, <1>5, <1>6, <1>7, <1>8

LEMMA InvAddSubscriber ==
  ASSUME IInv, TypeOK', NEW s \in Subscriber, AddSubscriber(s)
  PROVE  IInv'
<1> USE DEF IInv, AddSubscriber
<1>1. ToSet(subscribers') = ToSet(subscribers) \cup {s}
  BY ToSetOfAppend DEF TypeOK
<1>2. \A u \in Subscriber, e \in EventType :
         delivered'[<<u, e>>] = IF u = s THEN 0 ELSE delivered[<<u, e>>]
  BY DEF TypeOK
<1>3. AtMostOnce'
  <2> SUFFICES ASSUME NEW u \in Subscriber, NEW e \in AllowOnce
               PROVE  delivered'[<<u, e>>] <= 1
    BY DEF AtMostOnce
  <2>1. e \in EventType
    BY ConfigAssumption
  <2>2. delivered[<<u, e>>] <= 1
    BY DEF AtMostOnce
  <2> QED  BY <1>2, <2>1, <2>2
<1>4. \A p \in Publisher : pc'[p] = "idle"
  OBVIOUS
<1>5. Covered'
  BY <1>1, <1>2, <1>4, ToSetOfSubscribers, ConfigAssumption DEF Covered, Acting
<1>6. LockHeld' /\ ResetIsEmpty' /\ Fresh' /\ LookupAlone' /\ HandleAlone'
  BY <1>4 DEF LockHeld, ResetIsEmpty, Fresh, LookupAlone, HandleAlone
<1> QED  BY <1>3, <1>5, <1>6

LEMMA InvCheckHandled ==
  ASSUME IInv, TypeOK', NEW p \in Publisher, CheckHandled(p)
  PROVE  IInv'
<1> USE DEF IInv
<1>1. CASE AlreadyHandled(p)
  <2>1. pc[p] # "mark" /\ pc'[p] = "idle"
    BY <1>1 DEF CheckHandled, TypeOK
  <2> QED  BY <1>1, <2>1, QuietStep DEF CheckHandled, Step
<1>2. CASE ~AlreadyHandled(p)
  <2>1. /\ lock = NoPublisher /\ lock' = p /\ pc'[p] = "mark"
        /\ Key(p)' = Key(p) /\ event' = event
        /\ UNCHANGED <<subscribers, handled_events, delivered>>
    BY <1>2 DEF CheckHandled, TypeOK, Key
  <2>2. \A q \in Publisher \ {p} :
            /\ pc'[q] = pc[q] /\ event'[q] = event[q]
            /\ Key(q)' = Key(q) /\ Pair(q)' = Pair(q) /\ Acting(q)' = Acting(q)
    BY OthersKept DEF Step
  <2>3. AtMostOnce'
    BY <2>1 DEF AtMostOnce
  <2>4. LockHeld'
    BY <2>1, <2>2, ConfigAssumption DEF LockHeld
  <2>5. ResetIsEmpty'
    BY <2>1, <2>2 DEF ResetIsEmpty
  <2>6. ~Acting(p)'
    BY <2>1 DEF Acting
  <2>7. Fresh'
    BY <1>2, <2>1, <2>2 DEF Fresh, AlreadyHandled, Once, Pair, Subscribed
  <2>8. Covered'
    BY <2>1, <2>2, <2>6 DEF Covered, Subscribed
  <2>9. LookupAlone'
    BY <2>1, <2>2, <2>6 DEF LookupAlone, Once, Subscribed
  <2>10. HandleAlone'
    BY <2>1, <2>2, <2>6 DEF HandleAlone, Once
  <2> QED  BY <2>3, <2>4, <2>5, <2>7, <2>8, <2>9, <2>10
<1> QED  BY <1>1, <1>2

LEMMA InvMarkHandled ==
  ASSUME IInv, TypeOK', NEW p \in Publisher, MarkHandled(p)
  PROVE  IInv'
<1> USE DEF IInv
<1>1. /\ pc[p] = "mark" /\ pc'[p] = "lookup" /\ lock' = NoPublisher
      /\ handled_events' = handled_events \cup {Pair(p)}
      /\ Pair(p)' = Pair(p) /\ Key(p)' = Key(p) /\ event' = event
      /\ UNCHANGED <<subscribers, delivered>>
  BY DEF MarkHandled, TypeOK, Key, Pair
<1>2. \A q \in Publisher \ {p} :
          /\ pc'[q] = pc[q] /\ event'[q] = event[q]
          /\ Key(q)' = Key(q) /\ Pair(q)' = Pair(q) /\ Acting(q)' = Acting(q)
  BY OthersKept DEF Step
<1>3. lock = p /\ \A q \in Publisher \ {p} : pc[q] # "mark"
  BY <1>1 DEF LockHeld
<1>4. AtMostOnce'
  BY <1>1 DEF AtMostOnce
<1>5. LockHeld'
  BY <1>1, <1>2, <1>3, ConfigAssumption DEF LockHeld
<1>6. ResetIsEmpty'
  BY <1>1, <1>2 DEF ResetIsEmpty
<1>7. Fresh'
  BY <1>1, <1>2, <1>3 DEF Fresh
<1>8. Covered'
  BY <1>1, <1>2 DEF Covered, Subscribed
<1>9. LookupAlone'
  \* Nobody acts on the pair that is being appended: it was not marked.
  <2>1. ASSUME Once(p), Subscribed(p)
        PROVE  /\ delivered[Pair(p)] = 0
               /\ \A q \in Publisher : Acting(q) => Pair(q) # Pair(p)
    <3>1. Pair(p) \notin handled_events
      BY <1>1, <2>1 DEF Fresh
    <3>2. Key(p) \in Subscriber /\ event[p] \in EventType
      BY <1>1, KeyType DEF TypeOK
    <3>3. delivered[Pair(p)] = 0
      <4>1. delivered[Pair(p)] \in Nat /\ ~ (delivered[Pair(p)] > 0)
        BY <2>1, <3>1, <3>2 DEF Covered, Pair, Once, Subscribed, TypeOK
      <4> QED  BY <4>1
    <3>4. ASSUME NEW q \in Publisher, Acting(q), Pair(q) = Pair(p) PROVE FALSE
      <4>1. Subscribed(q)
        BY <2>1, <3>4 DEF Subscribed, Pair
      <4> QED  BY <3>1, <3>4, <4>1 DEF Covered
    <3> QED  BY <3>3, <3>4
  <2>2. Once(p)' = Once(p) /\ Subscribed(p)' = Subscribed(p)
    BY <1>1 DEF Once, Subscribed
  <2>3. \A q \in Publisher \ {p} : Once(q)' = Once(q) /\ Subscribed(q)' = Subscribed(q)
    BY <1>1, <1>2 DEF Once, Subscribed
  <2>4. ASSUME NEW q \in Publisher, pc'[q] = "lookup", Once(q)', Subscribed(q)'
        PROVE  /\ delivered[Pair(q)'] = 0
               /\ \A r \in Publisher : Acting(r)' /\ Pair(r)' = Pair(q)' => r = q
    <3>1. CASE q = p
      BY <1>1, <1>2, <2>1, <2>2, <2>4, <3>1
    <3>2. CASE q # p
      <4>1. pc[q] = "lookup" /\ Once(q) /\ Subscribed(q) /\ Pair(q)' = Pair(q) /\ Acting(q)
        BY <1>2, <2>3, <2>4, <3>2 DEF Acting
      <4>2. /\ delivered[Pair(q)] = 0
            /\ \A r \in Publisher : Acting(r) /\ Pair(r) = Pair(q) => r = q
        BY <4>1 DEF LookupAlone
      <4>3. Pair(p) # Pair(q)
        <5>1. ASSUME Pair(p) = Pair(q) PROVE Once(p) /\ Subscribed(p)
          BY <4>1, <5>1 DEF Pair, Once, Subscribed
        <5> QED  BY <2>1, <4>1, <5>1
      <4> QED  BY <1>1, <1>2, <4>1, <4>2, <4>3
    <3> QED  BY <3>1, <3>2
  <2> QED  BY <1>1, <2>4 DEF LookupAlone
<1>10. HandleAlone'
  BY <1>1, <1>2 DEF HandleAlone, Once
<1> QED  BY <1>4, <1>5, <1>6, <1>7, <1>8, <1>9, <1>10

LEMMA InvLookupSubscriber ==
  ASSUME IInv, TypeOK', NEW p \in Publisher, LookupSubscriber(p)
  PROVE  IInv'
<1> USE DEF IInv
<1>1. CASE ~Subscribed(p) \/ event[p] \notin Wants[Key(p)]
  <2>1. pc[p] = "lookup" /\ pc'[p] \in {"idle", "iterate"}
    BY <1>1 DEF LookupSubscriber, TypeOK, Subscribed
  <2> QED  BY <2>1, QuietStep DEF LookupSubscriber, Step
<1>2. CASE Subscribed(p) /\ event[p] \in Wants[Key(p)]
  <2>1. /\ pc[p] = "lookup" /\ pc'[p] = "handle"
        /\ Pair(p)' = Pair(p) /\ Key(p)' = Key(p) /\ event' = event
        /\ UNCHANGED <<subscribers, handled_events, lock, delivered>>
    BY <1>2 DEF LookupSubscriber, TypeOK, Key, Pair, Subscribed
  <2>2. \A q \in Publisher \ {p} :
            /\ pc'[q] = pc[q] /\ event'[q] = event[q]
            /\ Key(q)' = Key(q) /\ Pair(q)' = Pair(q) /\ Acting(q)' = Acting(q)
    BY OthersKept DEF Step
  <2>3. Acting(p) /\ Acting(p)'
    BY <2>1 DEF Acting
  <2>4. AtMostOnce'
    BY <2>1 DEF AtMostOnce
  <2>5. LockHeld'
    BY <2>1, <2>2 DEF LockHeld
  <2>6. ResetIsEmpty'
    BY <2>1, <2>2 DEF ResetIsEmpty
  <2>7. Fresh'
    BY <2>1, <2>2 DEF Fresh, Once, Subscribed
  <2>8. Covered'
    BY <2>1, <2>2, <2>3 DEF Covered, Subscribed
  <2>9. LookupAlone'
    BY <2>1, <2>2, <2>3 DEF LookupAlone, Once, Subscribed
  <2>10. HandleAlone'
    <3>1. Once(p) => /\ delivered[Pair(p)] = 0
                     /\ \A q \in Publisher : Acting(q) /\ Pair(q) = Pair(p) => q = p
      BY <1>2, <2>1 DEF LookupAlone
    <3>2. \A q \in Publisher : pc[q] = "handle" => Acting(q)
      BY DEF Acting
    <3>3. \A q \in Publisher : Pair(q) = Pair(p) /\ Once(q) => Once(p)
      BY DEF Pair, Once
    <3> QED  BY <2>1, <2>2, <3>1, <3>2, <3>3 DEF HandleAlone, Once
  <2> QED  BY <2>4, <2>5, <2>6, <2>7, <2>8, <2>9, <2>10
<1> QED  BY <1>1, <1>2

LEMMA InvHandle ==
  ASSUME IInv, TypeOK', NEW p \in Publisher, Handle(p)
  PROVE  IInv'
<1> USE DEF IInv
<1>1. /\ pc[p] = "handle" /\ pc'[p] = "iterate"
      /\ event' = event
      /\ UNCHANGED <<subscribers, handled_events, lock>>
  BY DEF Handle, TypeOK
<1>2. \A q \in Publisher \ {p} :
          /\ pc'[q] = pc[q] /\ event'[q] = event[q]
          /\ Key(q)' = Key(q) /\ Pair(q)' = Pair(q) /\ Acting(q)' = Acting(q)
  BY OthersKept DEF Step
<1>3. Acting(p) /\ ~Acting(p)'
  BY <1>1 DEF Acting
<1>4. Key(p) \in Subscriber /\ event[p] \in EventType
  BY <1>1, KeyType DEF TypeOK
<1>5. \A s \in Subscriber, e \in EventType :
          delivered'[<<s, e>>] = IF <<s, e>> = Pair(p) THEN delivered[Pair(p)] + 1
                                                       ELSE delivered[<<s, e>>]
  BY <1>4 DEF Handle, TypeOK, Pair
<1>6. AtMostOnce'
  <2> SUFFICES ASSUME NEW s \in Subscriber, NEW e \in AllowOnce
               PROVE  delivered'[<<s, e>>] <= 1
    BY DEF AtMostOnce
  <2>1. e \in EventType
    BY ConfigAssumption
  <2>2. CASE <<s, e>> = Pair(p)
    <3>1. Once(p)
      BY <2>2 DEF Pair, Once
    <3>2. delivered[Pair(p)] = 0
      BY <1>1, <3>1 DEF HandleAlone
    <3> QED  BY <1>5, <2>1, <2>2, <3>2
  <2>3. CASE <<s, e>> # Pair(p)
    <3>1. delivered[<<s, e>>] <= 1
      BY DEF AtMostOnce
    <3> QED  BY <1>5, <2>1, <2>3, <3>1
  <2> QED  BY <2>2, <2>3
<1>7. LockHeld'
  BY <1>1, <1>2 DEF LockHeld
<1>8. ResetIsEmpty'
  BY <1>1, <1>2 DEF ResetIsEmpty
<1>9. Fresh'
  BY <1>1, <1>2 DEF Fresh, Once, Subscribed
<1>10. Covered'
  <2>1. \A q \in Publisher : Acting(q)' /\ Subscribed(q)' => Pair(q)' \in handled_events'
    BY <1>1, <1>2, <1>3 DEF Covered, Subscribed
  <2>2. ASSUME NEW s \in ToSet(subscribers), NEW e \in AllowOnce, delivered'[<<s, e>>] > 0
        PROVE  <<s, e>> \in handled_events
    <3>1. CASE <<s, e>> = Pair(p)
      BY <1>3, <3>1 DEF Covered, Pair, Subscribed
    <3>2. CASE <<s, e>> # Pair(p)
      <4>1. delivered[<<s, e>>] > 0
        BY <1>5, <2>2, <3>2, ToSetOfSubscribers, ConfigAssumption
      <4> QED  BY <4>1 DEF Covered
    <3> QED  BY <3>1, <3>2
  <2> QED  BY <1>1, <2>1, <2>2 DEF Covered
<1>11. ASSUME NEW q \in Publisher \ {p}, Acting(q), Pair(q) # Pair(p)
       PROVE  delivered'[Pair(q)] = delivered[Pair(q)]
  <2>1. Key(q) \in Subscriber /\ event[q] \in EventType
    BY <1>11, KeyType DEF Acting, TypeOK
  <2> QED  BY <1>5, <1>11, <2>1 DEF Pair
<1>12. LookupAlone'
  <2> SUFFICES ASSUME NEW q \in Publisher, pc'[q] = "lookup", Once(q)', Subscribed(q)'
               PROVE  /\ delivered'[Pair(q)'] = 0
                      /\ \A r \in Publisher : Acting(r)' /\ Pair(r)' = Pair(q)' => r = q
    BY DEF LookupAlone
  <2>1. q # p /\ pc[q] = "lookup" /\ Once(q) /\ Subscribed(q) /\ Acting(q)
    BY <1>1, <1>2 DEF Once, Subscribed, Acting
  <2>2. /\ delivered[Pair(q)] = 0
        /\ \A r \in Publisher : Acting(r) /\ Pair(r) = Pair(q) => r = q
    BY <2>1 DEF LookupAlone
  <2>3. Pair(q) # Pair(p)
    BY <1>3, <2>1, <2>2
  <2> QED  BY <1>2, <1>3, <1>11, <2>1, <2>2, <2>3
<1>13. HandleAlone'
  <2> SUFFICES ASSUME NEW q \in Publisher, pc'[q] = "handle", Once(q)'
               PROVE  /\ delivered'[Pair(q)'] = 0
                      /\ \A r \in Publisher : pc'[r] = "handle" /\ Pair(r)' = Pair(q)' => r = q
    BY DEF HandleAlone
  <2>1. q # p /\ pc[q] = "handle" /\ Once(q) /\ Acting(q)
    BY <1>1, <1>2 DEF Once, Acting
  <2>2. /\ delivered[Pair(q)] = 0
        /\ \A r \in Publisher : pc[r] = "handle" /\ Pair(r) = Pair(q) => r = q
    BY <2>1 DEF HandleAlone
  <2>3. Pair(q) # Pair(p)
    BY <1>1, <2>1, <2>2
  <2> QED  BY <1>1, <1>2, <1>11, <2>1, <2>2, <2>3
<1> QED  BY <1>6, <1>7, <1>8, <1>9, <1>10, <1>12, <1>13

LEMMA InvEndLoop ==
  ASSUME IInv, TypeOK', NEW p \in Publisher, EndLoop(p)
  PROVE  IInv'
<1> USE DEF IInv
<1>1. CASE ~Resets(event[p])
  <2>1. pc[p] # "mark" /\ pc'[p] = "idle"
    BY <1>1 DEF EndLoop, TypeOK
  <2> QED  BY <1>1, <2>1, QuietStep DEF EndLoop, Step
<1>2. CASE Resets(event[p])
  <2>1. /\ pc[p] = "iterate" /\ pc'[p] = "resetting" /\ subscribers' = <<>>
        /\ UNCHANGED <<handled_events, lock, event, delivered>>
    BY <1>2 DEF EndLoop, TypeOK
  <2>2. \A q \in Publisher \ {p} :
            /\ pc'[q] = pc[q] /\ event'[q] = event[q]
            /\ Key(q)' = Key(q) /\ Pair(q)' = Pair(q) /\ Acting(q)' = Acting(q)
    BY OthersKept DEF Step
  <2>3. ToSet(subscribers') = {}
    BY <2>1, ToSetOfEmpty
  <2>4. AtMostOnce' /\ ResetIsEmpty'
    BY <2>1 DEF AtMostOnce, ResetIsEmpty
  <2>5. LockHeld'
    BY <2>1, <2>2 DEF LockHeld
  <2>6. Fresh' /\ Covered' /\ LookupAlone'
    BY <2>3 DEF Fresh, Covered, LookupAlone, Subscribed
  <2>7. HandleAlone'
    BY <2>1, <2>2 DEF HandleAlone, Once
  <2> QED  BY <2>4, <2>5, <2>6, <2>7
<1> QED  BY <1>1, <1>2

LEMMA InvResetHandled ==
  ASSUME IInv, TypeOK', NEW p \in Publisher, ResetHandled(p)
  PROVE  IInv'
<1> USE DEF IInv
<1>1. /\ pc[p] = "resetting" /\ pc'[p] = "idle"
      /\ UNCHANGED <<subscribers, lock, event, delivered>>
  BY DEF ResetHandled, TypeOK
<1>2. \A q \in Publisher \ {p} :
          /\ pc'[q] = pc[q] /\ event'[q] = event[q]
          /\ Key(q)' = Key(q) /\ Pair(q)' = Pair(q) /\ Acting(q)' = Acting(q)
  BY OthersKept DEF Step
<1>3. subscribers' = <<>> /\ ToSet(subscribers') = {}
  BY <1>1, ToSetOfEmpty DEF ResetIsEmpty
<1>4. AtMostOnce' /\ ResetIsEmpty'
  BY <1>1, <1>3 DEF AtMostOnce, ResetIsEmpty
<1>5. LockHeld'
  BY <1>1, <1>2 DEF LockHeld
<1>6. Fresh' /\ Covered' /\ LookupAlone'
  BY <1>3 DEF Fresh, Covered, LookupAlone, Subscribed
<1>7. HandleAlone'
  BY <1>1, <1>2 DEF HandleAlone, Once
<1> QED  BY <1>4, <1>5, <1>6, <1>7

LEMMA InvNext == IInv /\ [Next]_vars => IInv'
<1> SUFFICES ASSUME IInv, [Next]_vars PROVE IInv'
  OBVIOUS
<1>1. TypeOK'
  BY TypeNext DEF IInv
<1>2. CASE \E s \in Subscriber : AddSubscriber(s)
  BY <1>1, <1>2, InvAddSubscriber
<1>3. ASSUME NEW p \in Publisher, NEW e \in EventType, Publish(p, e) PROVE IInv'
  <2>1. pc[p] # "mark" /\ pc'[p] = "iterate"
    BY <1>3 DEF Publish, Start, IInv, TypeOK
  <2> QED  BY <1>1, <1>3, <2>1, QuietStep DEF Publish, Start
<1>4. ASSUME NEW p \in Publisher, Step(p) PROVE IInv'
  BY <1>1, <1>4, InvCheckHandled, InvMarkHandled, InvLookupSubscriber, InvHandle,
     InvEndLoop, InvResetHandled DEF Step
<1>5. CASE UNCHANGED vars
  BY <1>5 DEF vars, IInv, TypeOK, AtMostOnce, LockHeld, ResetIsEmpty, Fresh, Covered,
     LookupAlone, HandleAlone, Once, Subscribed, Acting, Pair, Key
<1> QED  BY <1>2, <1>3, <1>4, <1>5 DEF Next

\* "Ensure allow_once events are only handled once" (EventExchange.py:46), for
\* any number of threads that publish and of handlers, with any configuration,
\* and with resets between any two steps of a publisher.
THEOREM DeliveredAtMostOnce == Spec => []AtMostOnce
<1>1. IInv => AtMostOnce
  BY DEF IInv
<1> QED  BY <1>1, InvInit, InvNext, PTL DEF Spec

\* The lock of the exchange is held by a thread exactly while that thread is
\* between the test and the append, so every way out of publish releases it.
THEOREM LockIsReleased == Spec => []LockHeld
<1>1. IInv => LockHeld
  BY DEF IInv
<1> QED  BY <1>1, InvInit, InvNext, PTL DEF Spec
-----------------------------------------------------------------------------
(***************************************************************************)
(* What a reset has behind it                                              *)
(*                                                                         *)
(* Nobody subscribes while somebody publishes, so a publisher's dictionary *)
(* has all who are still subscribed (KeysComplete); and a publisher only   *)
(* gets past a handler by calling it, or because it was not added for the  *)
(* event (Walked): a handler that is gone ends the call.                   *)
(***************************************************************************)
KeysComplete ==
    \A p \in Publisher : pc[p] # "idle" => ToSet(subscribers) \subseteq ToSet(keys[p])

Walked ==
    \A p \in Publisher : pc[p] # "idle" =>
        \A i \in 1 .. Len(keys[p]) :
            i < index[p] /\ event[p] \in Wants[keys[p][i]] =>
                delivered[<<keys[p][i], event[p]>>] > 0

ResetInv == TypeOK /\ KeysComplete /\ Walked

LEMMA ResetInit == Init => ResetInv
  BY TypeInit DEF Init, ResetInv, KeysComplete, Walked

\* A step in which subscribers and deliveries stay, and p goes nowhere in its loop.
LEMMA StandingStep ==
  ASSUME ResetInv, NEW p \in Publisher, pc[p] # "idle",
         \A q \in Publisher \ {p} : pc'[q] = pc[q],
         ToSet(subscribers') \subseteq ToSet(subscribers),
         UNCHANGED <<event, keys, index, delivered>>
  PROVE  KeysComplete' /\ Walked'
  BY DEF ResetInv, KeysComplete, Walked

LEMMA ResetNext == ResetInv /\ [Next]_vars => ResetInv'
<1> SUFFICES ASSUME ResetInv, [Next]_vars PROVE KeysComplete' /\ Walked'
  BY TypeNext DEF ResetInv
<1> USE DEF ResetInv
<1>1. ASSUME NEW s \in Subscriber, AddSubscriber(s) PROVE KeysComplete' /\ Walked'
  BY <1>1 DEF AddSubscriber, KeysComplete, Walked
<1>2. ASSUME NEW p \in Publisher, NEW e \in EventType, Publish(p, e)
      PROVE  KeysComplete' /\ Walked'
  <2>1. keys'[p] = subscribers /\ index'[p] = 1
    BY <1>2 DEF Publish, Start, TypeOK
  <2>2. \A q \in Publisher \ {p} :
           /\ pc'[q] = pc[q] /\ event'[q] = event[q]
           /\ keys'[q] = keys[q] /\ index'[q] = index[q]
    BY <1>2 DEF Publish, Start, TypeOK
  <2>3. UNCHANGED <<subscribers, delivered>>
    BY <1>2 DEF Publish, Start
  <2>4. KeysComplete'
    BY <2>1, <2>2, <2>3 DEF KeysComplete
  <2>5. Walked'
    <3> SUFFICES ASSUME NEW q \in Publisher, pc'[q] # "idle",
                        NEW i \in 1 .. Len(keys'[q]), i < index'[q],
                        event'[q] \in Wants[keys'[q][i]]
                 PROVE  delivered'[<<keys'[q][i], event'[q]>>] > 0
      BY DEF Walked
    <3>1. q # p
      BY <2>1
    <3> QED  BY <2>2, <2>3, <3>1 DEF Walked
  <2> QED  BY <2>4, <2>5
<1>3. ASSUME NEW p \in Publisher, CheckHandled(p) PROVE KeysComplete' /\ Walked'
  <2>1. pc[p] # "idle" /\ \A q \in Publisher \ {p} : pc'[q] = pc[q]
    BY <1>3 DEF CheckHandled, TypeOK
  <2> QED  BY <1>3, <2>1, StandingStep DEF CheckHandled
<1>4. ASSUME NEW p \in Publisher, MarkHandled(p) PROVE KeysComplete' /\ Walked'
  <2>1. pc[p] # "idle" /\ \A q \in Publisher \ {p} : pc'[q] = pc[q]
    BY <1>4 DEF MarkHandled, TypeOK
  <2> QED  BY <1>4, <2>1, StandingStep DEF MarkHandled
<1>5. ASSUME NEW p \in Publisher, LookupSubscriber(p) PROVE KeysComplete' /\ Walked'
  <2>1. pc[p] # "idle" /\ \A q \in Publisher \ {p} : pc'[q] = pc[q]
    BY <1>5 DEF LookupSubscriber, TypeOK
  <2>2. CASE UNCHANGED index
    BY <1>5, <2>1, <2>2, StandingStep DEF LookupSubscriber
  <2>3. CASE event[p] \notin Wants[Key(p)] /\ index' = [index EXCEPT ![p] = @ + 1]
    <3>1. \A q \in Publisher : index'[q] = IF q = p THEN index[p] + 1 ELSE index[q]
      BY <2>3 DEF TypeOK
    <3>2. UNCHANGED <<subscribers, event, keys, delivered>>
      BY <1>5 DEF LookupSubscriber
    <3>3. KeysComplete'
      BY <2>1, <3>2 DEF KeysComplete
    <3>4. \A i \in 1 .. Len(keys[p]) : i < index[p] + 1 => i < index[p] \/ i = index[p]
      BY DEF TypeOK
    <3>5. Walked'
      BY <2>1, <2>3, <3>1, <3>2, <3>4 DEF Walked, Key
    <3> QED  BY <3>3, <3>5
  <2> QED  BY <1>5, <2>2, <2>3 DEF LookupSubscriber
<1>6. ASSUME NEW p \in Publisher, Handle(p) PROVE KeysComplete' /\ Walked'
  <2>1. pc[p] # "idle" /\ \A q \in Publisher \ {p} : pc'[q] = pc[q]
    BY <1>6 DEF Handle, TypeOK
  <2>2. \A q \in Publisher : index'[q] = IF q = p THEN index[p] + 1 ELSE index[q]
    BY <1>6 DEF Handle, TypeOK
  <2>3. UNCHANGED <<subscribers, event, keys>>
    BY <1>6 DEF Handle
  <2>4. Key(p) \in Subscriber /\ event[p] \in EventType
    BY <1>6, KeyType DEF Handle, TypeOK
  <2>5. /\ \A k \in Subscriber \X EventType : delivered[k] \in Nat /\ delivered'[k] \in Nat
        /\ \A k \in Subscriber \X EventType : delivered'[k] >= delivered[k]
        /\ delivered'[<<Key(p), event[p]>>] > 0
    <3> DEFINE pair == <<Key(p), event[p]>>
    <3>1. pair \in Subscriber \X EventType
      BY <2>4
    <3>2. \A k \in Subscriber \X EventType : delivered[k] \in Nat
      BY DEF TypeOK
    <3>3. delivered' = [delivered EXCEPT ![pair] = @ + 1]
      BY <1>6 DEF Handle
    <3>4. delivered \in [Subscriber \X EventType -> Nat]
      BY DEF TypeOK
    <3> HIDE DEF pair
    <3>5. \A k \in Subscriber \X EventType :
             delivered'[k] = IF k = pair THEN delivered[k] + 1 ELSE delivered[k]
      BY <3>3, <3>4
    <3>6. delivered'[pair] > 0
      BY <3>1, <3>2, <3>5
    <3>7. \A k \in Subscriber \X EventType : delivered'[k] >= delivered[k]
      BY <3>2, <3>5
    <3>8. \A k \in Subscriber \X EventType : delivered'[k] \in Nat
      BY <3>2, <3>5
    <3> QED  BY <3>2, <3>6, <3>7, <3>8 DEF pair
  <2>6. KeysComplete'
    BY <2>1, <2>3 DEF KeysComplete
  <2>7. Walked'
    <3> SUFFICES ASSUME NEW q \in Publisher, pc'[q] # "idle",
                        NEW i \in 1 .. Len(keys[q]), i < index'[q],
                        event[q] \in Wants[keys[q][i]]
                 PROVE  delivered'[<<keys[q][i], event[q]>>] > 0
      BY <2>3 DEF Walked
    <3>1. keys[q][i] \in Subscriber /\ event[q] \in EventType /\ index[q] \in Nat
      BY DEF TypeOK
    <3>2. CASE i < index[q]
      <4>1. pc[q] # "idle"
        BY <2>1
      <4>2. delivered[<<keys[q][i], event[q]>>] > 0
        BY <3>2, <4>1 DEF Walked
      <4>3. <<keys[q][i], event[q]>> \in Subscriber \X EventType
        BY <3>1
      <4> QED  BY <2>5, <4>2, <4>3
    <3>3. CASE ~(i < index[q])
      <4>1. q = p /\ i = index[p]
        BY <2>2, <3>1, <3>3
      <4> QED  BY <2>5, <4>1 DEF Key
    <3> QED  BY <3>2, <3>3
  <2> QED  BY <2>6, <2>7
<1>7. ASSUME NEW p \in Publisher, EndLoop(p) PROVE KeysComplete' /\ Walked'
  <2>1. pc[p] # "idle" /\ \A q \in Publisher \ {p} : pc'[q] = pc[q]
    BY <1>7 DEF EndLoop, TypeOK
  <2>2. ToSet(subscribers') \subseteq ToSet(subscribers)
    BY <1>7, ToSetOfEmpty DEF EndLoop
  <2> QED  BY <1>7, <2>1, <2>2, StandingStep DEF EndLoop
<1>8. ASSUME NEW p \in Publisher, ResetHandled(p) PROVE KeysComplete' /\ Walked'
  <2>1. pc[p] # "idle" /\ \A q \in Publisher \ {p} : pc'[q] = pc[q]
    BY <1>8 DEF ResetHandled, TypeOK
  <2> QED  BY <1>8, <2>1, StandingStep DEF ResetHandled
<1>9. CASE UNCHANGED vars
  BY <1>9 DEF vars, KeysComplete, Walked
<1> QED
  BY <1>1, <1>2, <1>3, <1>4, <1>5, <1>6, <1>7, <1>8, <1>9 DEF Next, Step

\* When a publisher empties the exchange, everybody it throws out has been handed the event
\* it publishes, if added for it (publish, reset): the loop of the publisher that resets has
\* come past all of them.
THEOREM ResetFollowsDelivery == Spec => ResetReachesAll
<1> DEFINE Reached ==
      subscribers # <<>> /\ subscribers' = <<>> =>
          \E e \in ResetOn : \A s \in ToSet(subscribers) :
              e \in Wants[s] => delivered[<<s, e>>] > 0
<1>1. ResetInv /\ [Next]_vars => [Reached]_vars
  <2> SUFFICES ASSUME ResetInv, [Next]_vars, subscribers # <<>>, subscribers' = <<>>
               PROVE  \E e \in ResetOn : \A s \in ToSet(subscribers) :
                          e \in Wants[s] => delivered[<<s, e>>] > 0
    OBVIOUS
  <2>1. \A s \in Subscriber : ~AddSubscriber(s)
    <3> SUFFICES ASSUME NEW s \in Subscriber, AddSubscriber(s) PROVE FALSE
      OBVIOUS
    <3>1. subscribers' = Append(subscribers, s) /\ subscribers \in Seq(Subscriber)
      BY DEF AddSubscriber, ResetInv, TypeOK
    <3> QED  BY <3>1
  <2>2. PICK p \in Publisher : EndLoop(p) /\ Resets(event[p])
    BY <2>1 DEF Next, Step, Publish, Start, CheckHandled, MarkHandled, LookupSubscriber,
       Handle, EndLoop, ResetHandled, vars
  <2>3. event[p] \in ResetOn /\ pc[p] # "idle" /\ index[p] > Len(keys[p])
    BY <2>2 DEF Resets, EndLoop
  <2>4. keys[p] \in Seq(Subscriber) /\ index[p] \in Nat
    BY DEF ResetInv, TypeOK
  <2>5. ASSUME NEW s \in ToSet(subscribers), event[p] \in Wants[s]
        PROVE  delivered[<<s, event[p]>>] > 0
    <3>0. s \in ToSet(keys[p]) /\ DOMAIN keys[p] = 1 .. Len(keys[p])
      BY <2>3, <2>4 DEF ResetInv, KeysComplete
    <3>1. PICK i \in 1 .. Len(keys[p]) : keys[p][i] = s
      BY <3>0 DEF ToSet
    <3>2. i < index[p]
      BY <2>3, <2>4
    <3> QED  BY <2>3, <2>5, <3>1, <3>2 DEF ResetInv, Walked
  <2> QED  BY <2>3, <2>5
<1> QED  BY <1>1, ResetInit, ResetNext, PTL DEF Spec, ResetReachesAll
=============================================================================
