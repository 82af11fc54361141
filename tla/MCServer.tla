------------------------------ MODULE MCServer ------------------------------
(***************************************************************************)
(* Three messages at once on a pool of one starting worker that may grow   *)
(* to one or two.                                                          *)
(***************************************************************************)
EXTENDS Server

CONSTANTS m1, m2, m3, w1, w2, w3, k, l

MCMessage == {m1, m2, m3}
MCWorker == {w1, w2, w3}
MCStartingPool == <<w1>>
MCLimits == {1, 2}

Submission(a, p, f) == [key |-> a, policy |-> p, fault |-> f]
Batch(a, b, c) == [m \in MCMessage |-> IF m = m1 THEN a ELSE IF m = m2 THEN b ELSE c]

\* Duplicates under each policy, a bystander, and something going wrong before,
\* in and after the registration.
MCBatches ==
    { Batch(Submission(k, "allow", "none"), Submission(k, "deny", "none"),
            Submission(k, "deny", "none")),
      Batch(Submission(k, "deny", "none"), Submission(k, "terminate", "none"),
            Submission(l, "terminate", "none")),
      Batch(Submission(k, "terminate", "staging"), Submission(k, "terminate", "none"),
            Submission(l, "allow", "plugin")),
      Batch(Submission(k, "allow", "undecodable"), Submission(l, "deny", "invalid"),
            Submission(k, "terminate", "none")),
      Batch(Submission(k, "allow", "key"), Submission(k, "terminate", "none"),
            Submission(k, "terminate", "invalid")) }
=============================================================================
