--------------------------- MODULE EventExchange ---------------------------
(***************************************************************************)
(* owe_python_sdk/events/EventExchange.py: the exchange over which the     *)
(* threads of a run publish events to the notification handler and to the  *)
(* archiver.                                                               *)
(*                                                                         *)
(* publish() is called by any task thread at any time.  Its lock only      *)
(* covers the test-and-append on handled_events; the loop over             *)
(* subscribers, the second lookup of the subscriber, the handler (an HTTP  *)
(* call) and reset() run outside of it.  reset() replaces subscribers and  *)
(* handled_events one after the other; a loop that is under way keeps      *)
(* iterating over the dictionary it started with.                          *)
(***************************************************************************)
EXTENDS Naturals, Sequences, SequencesExt

CONSTANTS
    Publisher,   \* the threads that publish
    Subscriber,  \* event handlers, by the key id(subscriber)
    EventType,
    AllowOnce,   \* config.allow_once
    ResetOn,     \* config.reset_on
    Wants,       \* the events each subscriber is added for
    NoPublisher, \* the lock is free
    MaxPublish   \* bound: calls of publish

ASSUME ConfigAssumption ==
    /\ AllowOnce \subseteq EventType
    /\ ResetOn \subseteq EventType
    /\ Wants \in [Subscriber -> SUBSET EventType]
    /\ NoPublisher \notin Publisher
    /\ MaxPublish \in Nat

VARIABLES
    subscribers,     \* the keys of self.subscribers, in insertion order
    handled_events,  \* self.handled_events: pairs of a key and a type
    lock,            \* the holder of self.lock
    pc,              \* per publisher: where in publish() it is
    event,           \* per publisher: the type of the event it publishes
    keys,            \* per publisher: the dictionary its loop iterates over
    index,           \* per publisher: the position of its loop
    delivered,       \* events each subscriber was handed since it was added
    published        \* calls of publish so far

vars == <<subscribers, handled_events, lock, pc, event, keys, index,
          delivered, published>>

PcLabel == {"idle", "iterate", "mark", "lookup", "handle", "resetting"}

TypeOK ==
    /\ subscribers \in Seq(Subscriber)
    /\ handled_events \subseteq Subscriber \X EventType
    /\ lock \in Publisher \cup {NoPublisher}
    /\ pc \in [Publisher -> PcLabel]
    /\ event \in [Publisher -> EventType]
    /\ keys \in [Publisher -> Seq(Subscriber)]
    /\ index \in [Publisher -> Nat]
    /\ \A p \in Publisher :
          /\ pc[p] \in {"iterate", "mark", "lookup", "handle"} => index[p] >= 1
          /\ pc[p] \in {"mark", "lookup", "handle"} => index[p] <= Len(keys[p])
    /\ delivered \in [Subscriber \X EventType -> Nat]
    /\ published \in 0 .. MaxPublish

Key(p) == keys[p][index[p]]

Init ==
    /\ subscribers = <<>>
    /\ handled_events = {}
    /\ lock = NoPublisher
    /\ pc = [p \in Publisher |-> "idle"]
    /\ event \in [Publisher -> EventType]
    /\ \A p, q \in Publisher : event[p] = event[q]
    /\ keys = [p \in Publisher |-> <<>>]
    /\ index = [p \in Publisher |-> 0]
    /\ delivered = [k \in Subscriber \X EventType |-> 0]
    /\ published = 0

\* A run adds its handlers while it is staged, before it has a task thread,
\* and after the server has joined the threads of the run before.  The key may
\* be the id() of a handler that is gone.
AddSubscriber(s) ==
    /\ \A p \in Publisher : pc[p] = "idle"
    /\ s \notin ToSet(subscribers)
    /\ subscribers' = Append(subscribers, s)
    /\ delivered' = [k \in Subscriber \X EventType |->
                       IF k[1] = s THEN 0 ELSE delivered[k]]
    /\ UNCHANGED <<handled_events, lock, pc, event, keys, index, published>>
-----------------------------------------------------------------------------
(***************************************************************************)
(* publish(event)                                                          *)
(***************************************************************************)
Start(p, e, position) ==
    /\ pc[p] = "idle"
    /\ published < MaxPublish
    /\ published' = published + 1
    /\ event' = [event EXCEPT ![p] = e]
    /\ keys' = [keys EXCEPT ![p] = subscribers]
    /\ index' = [index EXCEPT ![p] = position]
    /\ pc' = [pc EXCEPT ![p] = "iterate"]
    /\ UNCHANGED <<subscribers, handled_events, lock, delivered>>

\* Fault: the loop starts one before the first subscriber.
Publish_FromZero(p, e) == Start(p, e, 0)
Publish(p, e) == Start(p, e, 1)

\* Fault: the handled events are not consulted.
AlreadyHandled_Never(p) == FALSE
AlreadyHandled(p) ==
    event[p] \in AllowOnce /\ <<Key(p), event[p]>> \in handled_events

\* Fault: the loop goes on to the next subscriber without the lock.
CheckHandled_Held(p) ==
    /\ pc[p] = "iterate" /\ index[p] <= Len(keys[p])
    /\ lock = NoPublisher
    /\ IF AlreadyHandled(p)
         THEN pc' = [pc EXCEPT ![p] = "idle"] /\ lock' = p
         ELSE pc' = [pc EXCEPT ![p] = "mark"] /\ lock' = p
    /\ UNCHANGED <<subscribers, handled_events, event, keys, index, delivered, published>>

\* lock.acquire(), and the test.  A handled event ends the whole call: the
\* lock is released, and neither the other subscribers nor the reset follow.
CheckHandled(p) ==
    /\ pc[p] = "iterate" /\ index[p] <= Len(keys[p])
    /\ lock = NoPublisher
    /\ IF AlreadyHandled(p)
         THEN pc' = [pc EXCEPT ![p] = "idle"] /\ UNCHANGED lock
         ELSE pc' = [pc EXCEPT ![p] = "mark"] /\ lock' = p
    /\ UNCHANGED <<subscribers, handled_events, event, keys, index, delivered, published>>

\* handled_events.append, lock.release()
MarkHandled(p) ==
    /\ pc[p] = "mark"
    /\ handled_events' = handled_events \cup {<<Key(p), event[p]>>}
    /\ lock' = NoPublisher
    /\ pc' = [pc EXCEPT ![p] = "lookup"]
    /\ UNCHANGED <<subscribers, event, keys, index, delivered, published>>

\* self.subscribers[key]: a KeyError, raised to the publisher, if the exchange
\* was reset meanwhile; an event the subscriber was not added for is skipped.
LookupSubscriber(p) ==
    /\ pc[p] = "lookup"
    /\ \/ /\ Key(p) \notin ToSet(subscribers)
          /\ pc' = [pc EXCEPT ![p] = "idle"]
          /\ UNCHANGED index
       \/ /\ Key(p) \in ToSet(subscribers) /\ event[p] \notin Wants[Key(p)]
          /\ pc' = [pc EXCEPT ![p] = "iterate"]
          /\ index' = [index EXCEPT ![p] = @ + 1]
       \/ /\ Key(p) \in ToSet(subscribers) /\ event[p] \in Wants[Key(p)]
          /\ pc' = [pc EXCEPT ![p] = "handle"]
          /\ UNCHANGED index
    /\ UNCHANGED <<subscribers, handled_events, lock, event, keys, delivered, published>>

\* handler.handle(event); an exception of the handler is logged and dropped.
Handle(p) ==
    /\ pc[p] = "handle"
    /\ delivered' = [delivered EXCEPT ![<<Key(p), event[p]>>] = @ + 1]
    /\ pc' = [pc EXCEPT ![p] = "iterate"]
    /\ index' = [index EXCEPT ![p] = @ + 1]
    /\ UNCHANGED <<subscribers, handled_events, lock, event, keys, published>>

\* Faults: no event, or every event, resets the exchange.
Resets_Never(e) == FALSE
Resets_Always(e) == TRUE
Resets(e) == e \in ResetOn

\* The loop is over.  On a reset event, subscribers becomes empty ...
EndLoop(p) ==
    /\ pc[p] = "iterate" /\ index[p] > Len(keys[p])
    /\ \/ /\ Resets(event[p])
          /\ subscribers' = <<>>
          /\ pc' = [pc EXCEPT ![p] = "resetting"]
       \/ /\ ~Resets(event[p])
          /\ pc' = [pc EXCEPT ![p] = "idle"]
          /\ UNCHANGED subscribers
    /\ UNCHANGED <<handled_events, lock, event, keys, index, delivered, published>>

\* ... and then handled_events does.
ResetHandled(p) ==
    /\ pc[p] = "resetting"
    /\ handled_events' = {}
    /\ pc' = [pc EXCEPT ![p] = "idle"]
    /\ UNCHANGED <<subscribers, lock, event, keys, index, delivered, published>>

Step(p) ==
    \/ CheckHandled(p) \/ MarkHandled(p) \/ LookupSubscriber(p)
    \/ Handle(p) \/ EndLoop(p) \/ ResetHandled(p)

Next ==
    \/ \E s \in Subscriber : AddSubscriber(s)
    \/ \E p \in Publisher : Step(p) \/ \E e \in EventType : Publish(p, e)

\* A publisher that is inside publish() is a running thread; nobody is
\* obliged to publish or to subscribe.
Spec == Init /\ [][Next]_vars /\ \A p \in Publisher : WF_vars(Step(p))
-----------------------------------------------------------------------------
(***************************************************************************)
(* Properties                                                              *)
(***************************************************************************)

\* "Ensure allow_once events are only handled once" (EventExchange.py:46):
\* no subscriber is handed the same terminal event twice, whoever publishes it
\* and however resets fall between the steps of other publishers.
AtMostOnce ==
    \A s \in Subscriber : \A e \in AllowOnce : delivered[<<s, e>>] <= 1

\* When a reset throws the subscribers out, each of them has been handed the
\* run-ending event it was added for: the archiver behind the notification
\* handler in the dictionary is not starved by a reset in between.
ResetReachesAll ==
    [][subscribers # <<>> /\ subscribers' = <<>> =>
          \E e \in ResetOn : \A s \in ToSet(subscribers) :
              e \in Wants[s] => delivered[<<s, e>>] > 0]_vars

\* A mark that nobody is acting on and that did not come with a delivery: some
\* earlier handler with the same id() left it, marked after a reset.
LeftOver(s, e) ==
    /\ <<s, e>> \in handled_events
    /\ delivered[<<s, e>>] = 0
    /\ \A p \in Publisher : pc[p] \in {"lookup", "handle"} => <<Key(p), event[p]>> # <<s, e>>

\* A subscriber that has seen the end of a run does not stay subscribed, even
\* though a publish that finds the event handled returns without resetting;
\* only a left-over mark of another subscriber can keep it (publish, reset).
EndIsFollowedByReset ==
    \A s \in Subscriber : \A e \in ResetOn :
        (/\ s \in ToSet(subscribers)
         /\ delivered[<<s, e>>] > 0
         /\ \A u \in ToSet(subscribers) : ~LeftOver(u, e))
            ~> (s \notin ToSet(subscribers))

\* publish() returns on every path, so no thread is stuck on the lock.
PublishReturns == \A p \in Publisher : (pc[p] # "idle") ~> (pc[p] = "idle")
=============================================================================
