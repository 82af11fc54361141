-------------------------- MODULE MCReactiveState --------------------------
(***************************************************************************)
(* Three task threads that end at about the same time: two have fetched a  *)
(* dependent, one has not and executes += with the empty list.             *)
(***************************************************************************)
EXTENDS ReactiveState, TLC

CONSTANTS c1, c2, c3, x, y

MCCaller == {c1, c2, c3}
MCChild == {x, y}
MCHanded == c1 :> <<x>> @@ c2 :> <<y>> @@ c3 :> <<>>
=============================================================================
