------------------------- MODULE MCWorkflowExecutor -------------------------
(***************************************************************************)
(* Small workflows, one per way in which task threads can meet.            *)
(***************************************************************************)
EXTENDS WorkflowExecutor

MCTask == {"a", "b", "c", "d"}

\* A dependency on each of ids, with the same two flags.
On(ids, can_fail, can_skip) ==
    {[id |-> i, can_fail |-> can_fail, can_skip |-> can_skip] : i \in ids}

\* The submission of a workflow whose tasks all have the same outcomes.
Submit(tasks, depends_on, outcomes) ==
    [pipeline   |-> [tasks |-> tasks,
                     depends_on |-> [t \in MCTask |->
                         IF t \in DOMAIN depends_on THEN depends_on[t] ELSE {}]],
     buildable  |-> TRUE,
     notified   |-> TRUE,
     args_valid |-> TRUE,
     outcomes   |-> [t \in MCTask |-> outcomes]]

\* a, then b, then c: every flag, every outcome.
Chains ==
    {Submit(<<"a", "b", "c">>,
            [b |-> On({"a"}, f, s), c |-> On({"b"}, f, s)], Outcome) :
        f, s \in BOOLEAN}

\* a, then b, then c, which depends on both.
Ladder == Submit(<<"a", "b", "c">>,
                 [b |-> On({"a"}, FALSE, FALSE), c |-> On({"a", "b"}, FALSE, FALSE)],
                 {"ok"})

\* a, then b and c side by side.
Star(f, s, outcomes) ==
    Submit(<<"a", "b", "c">>,
           [b |-> On({"a"}, f, s), c |-> On({"a"}, f, s)], outcomes)

\* a, then b and c side by side, then d.
Diamond(f, outcomes) ==
    Submit(<<"a", "b", "c", "d">>,
           [b |-> On({"a"}, f, TRUE), c |-> On({"a"}, f, TRUE),
            d |-> On({"b", "c"}, f, TRUE)], outcomes)

\* a and b side by side, then c.
Join2(f, s, outcomes) ==
    Submit(<<"a", "b", "c">>, [c |-> On({"a", "b"}, f, s)], outcomes)

\* a and b side by side, c after a alone.
Stray(f, s, outcomes) ==
    Submit(<<"a", "b", "c">>, [c |-> On({"a"}, f, s)], outcomes)

\* A run that nobody is told about.
Silent == [Star(FALSE, FALSE, {"ok", "error"}) EXCEPT !.notified = FALSE]

\* Submissions that never get as far as a task.
Refused ==
    LET single == Submit(<<"a">>, <<>>, {"ok"}) IN
      {[single EXCEPT !.buildable = FALSE], [single EXCEPT !.args_valid = FALSE],
       [single EXCEPT !.args_valid = FALSE, !.notified = FALSE],
       Submit(<<"a", "b">>, [b |-> On({"b"}, FALSE, FALSE)], {"ok"}),
       Submit(<<"a", "b", "c", "d">>,
              [c |-> On({"a", "b"}, FALSE, FALSE), d |-> On({"c"}, FALSE, FALSE)], {"ok"})}

MCRequests ==
    Chains \cup Refused \cup {Ladder, Silent}
    \cup {Star(f, s, {"ok", "error", "condition_false"}) : f, s \in BOOLEAN}
    \cup {Join2(f, s, {"ok", "error"}) : f, s \in BOOLEAN}
    \cup {Stray(f, s, {"ok", "error", "condition_false"}) : f, s \in BOOLEAN}
    \cup {Diamond(FALSE, {"ok"}), Diamond(TRUE, {"ok", "error"})}

HangRequests == {Diamond(FALSE, {"ok"})}
=============================================================================
