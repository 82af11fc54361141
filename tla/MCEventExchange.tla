-------------------------- MODULE MCEventExchange --------------------------
(***************************************************************************)
(* Two threads, the notification handler and the archiver, the two         *)
(* terminal events of a run and one task event.  Four calls of publish are *)
(* enough for the second run of the worker to meet what the first one left *)
(* in handled_events.                                                      *)
(***************************************************************************)
EXTENDS EventExchange, TLC

CONSTANTS p1, p2, notifier, archiver

MCPublisher == {p1, p2}
MCSubscriber == {notifier, archiver}
Terminal == {"COMPLETED", "FAILED"}
MCEventType == Terminal \cup {"TASK"}
MCWants == (notifier :> MCEventType) @@ (archiver :> Terminal)
=============================================================================
