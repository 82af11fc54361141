------------------------------- MODULE Values -------------------------------
(***************************************************************************)
(* Where the values of a task come from: conditions                        *)
(* (core/expressions), inputs (core/tasks/TaskInputFileStagingService.py)  *)
(* and parameters (core/workflows/params_validator.py).                    *)
(*                                                                         *)
(* A world is what the repositories can see when they are asked: whether   *)
(* the worker has a context, the arguments and the environment of the      *)
(* submission (None where a key is not given), and the output file of each *)
(* task (Unresolved where there is none).                                  *)
(***************************************************************************)
EXTENDS Integers, Sequences

\* A value is a text, by its place in the order of the texts, or None.
Text(n) == [type |-> "text", of |-> n]

\* The schema makes a text of a number, wherever one is submitted: texts have
\* the order of their digits, in which 10 comes before 9.  For n < 100, which
\* stands before the texts that begin with it.
Number(n) == Text(IF n < 10 THEN 11 * n ELSE 11 * (n \div 10) + (n % 10) + 1)

None == [type |-> "none", of |-> 0]
Unresolved == [type |-> "unresolved", of |-> 0]

\* ArgMapper and EnvMapper answer None for a key that is not given, which is
\* no error; TaskOutputMapper raises when the file is not there, and so does
\* everybody without a context.
Resolve(operand, world) ==
    IF operand.from = "value" THEN operand.value
    ELSE IF ~world.ctx THEN Unresolved
    ELSE world[operand.from][operand.key]

(***************************************************************************)
(* Conditions.  The verdicts besides true and false: an operand cannot be  *)
(* resolved (ConditionalExpressionEvalError, which the task thread         *)
(* catches), or Python cannot compare the two values (TypeError, which it  *)
(* does not).                                                              *)
(***************************************************************************)
Truth(b) == IF b THEN "true" ELSE "false"

Ordered(op, a, b) ==
    \/ op = "gt" /\ a > b
    \/ op = "lt" /\ a < b
    \/ op = "ge" /\ a >= b
    \/ op = "le" /\ a <= b

Comparison(op, a, b) ==
    IF op \in {"eq", "ne"} THEN Truth((a = b) <=> (op = "eq"))
    ELSE IF a # None /\ b # None THEN Truth(Ordered(op, a.of, b.of))
    ELSE "type_error"

\* A comparison of two operands, or "in": the first among the others.
EvaluateOperation(condition, world) ==
    LET resolved == [i \in DOMAIN condition.operands |-> Resolve(condition.operands[i], world)]
    IN IF \E i \in DOMAIN resolved : resolved[i] = Unresolved THEN "unresolved"
       ELSE IF condition.op = "in"
       THEN Truth(\E i \in 2 .. Len(resolved) : resolved[i] = resolved[1])
       ELSE Comparison(condition.op, resolved[1], resolved[2])

\* Every operand is evaluated, in order, until one raises.
Raised(verdicts) == SelectSeq(verdicts, LAMBDA v : v \notin {"true", "false"})

Logical(op, verdicts) ==
    LET all == \A i \in DOMAIN verdicts : verdicts[i] = "true"
        none == \A i \in DOMAIN verdicts : verdicts[i] = "false"
    IN IF Raised(verdicts) # <<>> THEN Raised(verdicts)[1]
       ELSE Truth(\/ op = "and" /\ all
                  \/ op = "or" /\ ~none
                  \/ op = "xor" /\ ~all /\ ~none
                  \/ op = "nand" /\ ~all
                  \/ op = "nor" /\ none
                  \/ op = "xnor" /\ (all \/ none))

\* The schema nests conditions once, and lets no "not" through.
Evaluate(condition, world) ==
    IF condition.op \in {"and", "or", "xor", "nand", "nor", "xnor"}
    THEN Logical(condition.op, [i \in DOMAIN condition.operands |->
                                  EvaluateOperation(condition.operands[i], world)])
    ELSE EvaluateOperation(condition, world)

EvaluateAll(conditions, world) ==
    Logical("and", [i \in DOMAIN conditions |-> Evaluate(conditions[i], world)])

(***************************************************************************)
(* Inputs and parameters                                                   *)
(***************************************************************************)

\* Staging a required input raises when its value cannot be resolved, and an
\* input that says nothing about its value, which the schema lets through,
\* raises in any case.  A value that is None, or that comes from a host or a
\* secret, which nobody asks, becomes an empty file, required or not.
StagingFails(inputs, world) ==
    \E i \in DOMAIN inputs :
        \/ inputs[i].from = "nothing"
        \/ /\ inputs[i].from \notin {"nothing", "host", "secret"}
           /\ inputs[i].required
           /\ Resolve(inputs[i], world) = Unresolved

ParamsValid(required, args) == \A p \in required : args[p] # None
=============================================================================
