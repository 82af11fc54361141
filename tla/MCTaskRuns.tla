----------------------------- MODULE MCTaskRuns -----------------------------
(***************************************************************************)
(* Pipelines of two tasks, side by side or one after the other, with each  *)
(* kind of task, condition and input.                                      *)
(***************************************************************************)
EXTENDS TaskRuns

MCTask == {"a", "b"}

MCArgs == [x |-> Number(10), y |-> None]

Task0 == [kind |-> "function", runtime_known |-> TRUE, context |-> "public",
          destination |-> "none", method |-> "lower", poll |-> TRUE, retries |-> FALSE,
          produces |-> TRUE, conditions |-> <<>>, input |-> <<>>]

From(from, key) == [from |-> from, key |-> key, value |-> None]
Literal(v) == [from |-> "value", key |-> "x", value |-> v]
Compare(op, a, b) == [op |-> op, operands |-> <<a, b>>]
Input(from, key, required) ==
    [from |-> from, key |-> key, value |-> None, required |-> required]

Given(defs, deps, runs, max) ==
    [tasks |-> defs, depends_on |-> deps, required |-> {"x"}, args |-> MCArgs,
     env |-> MCArgs, runs |-> runs, faults |-> max, notified |-> TRUE]

Single(a, runs, max) == Given([a |-> a], [a |-> {}], runs, max)
Chain(a, b, runs, max) == Given([a |-> a, b |-> b], [a |-> {}, b |-> {"a"}], runs, max)
Both(a, b, runs, max) == Given([a |-> a, b |-> b], [a |-> {}, b |-> {}], runs, max)

\* The notification handler cannot be constructed.
Unheard(s) == [s EXCEPT !.notified = FALSE]

Kind(kind) == [Task0 EXCEPT !.kind = kind]
Kaniko(context, destination) ==
    [Kind("kaniko") EXCEPT !.context = context, !.destination = destination]
Singularity(context, destination) ==
    [Kind("singularity") EXCEPT !.context = context, !.destination = destination]
HTTP(method) == [Kind("request") EXCEPT !.method = method]
Conditional(c) == [Kind("application") EXCEPT !.conditions = <<c>>]
Reads(d, i) == [d EXCEPT !.input = <<i>>]
Retried == [Task0 EXCEPT !.retries = TRUE]
Reader(d) == Reads(d, Input("task_output", "a", TRUE))

Brief == [Kind("tapis_job") EXCEPT !.poll = FALSE]

\* Every kind of task, by itself; a call fails.
Kinds ==
    {Kind("function"), Retried, [Task0 EXCEPT !.runtime_known = FALSE], Kind("application"),
     Kind("tapis_job"), Brief, Kind("tapis_actor")}
    \cup {HTTP(m) : m \in {"lower", "upper", "unknown"}}
    \cup {Kaniko("public", d) : d \in {"none", "local", "dockerhub", "identity"}}
    \cup {Kaniko("credentials", "none")}
    \cup {Singularity(c, "local") : c \in {"public", "credentials", "identity", "dockerhub"}}
    \cup {Singularity("public", d) : d \in {"none", "dockerhub"}}

\* Conditions and inputs of each kind, with every verdict.
X == From("args", "x")
Conditions ==
    {Compare(op, X, Literal(Number(n))) :
        op \in {"eq", "ne", "gt", "lt", "ge", "le", "in"}, n \in 9 .. 10}
    \cup {Compare("gt", X, Literal(None)), Compare("eq", X, From("task_output", "a"))}
Nested ==
    {[op |-> op, operands |-> <<Compare("eq", X, Literal(Number(m))),
                                Compare("le", From("env", "x"), Literal(Number(10)))>>] :
        op \in {"and", "or", "xor", "nand", "nor", "xnor"}, m \in 9 .. 10}
Inputs == {Input(from, key, required) : from \in {"args", "env"}, key \in {"x", "y"},
                                        required \in BOOLEAN}
          \cup {Input("task_output", "a", required) : required \in BOOLEAN}
          \cup {Input(from, "x", required) : from \in {"nothing", "secret"},
                                              required \in BOOLEAN}

\* Two runs, in which threads of the first can outlive it, and three, in which
\* they take threads of the second into the third (and nobody is notified); two
\* threads side by side, of which one fails and resets the exchange; every kind
\* of task; every condition and input.
MCSubmissions ==
    {Chain(Kaniko("public", "dockerhub"), Reader(Singularity("public", "local")), 2, 0),
     Unheard(Chain(Brief, Brief, 3, 0)),
     Both(Task0, Kind("application"), 1, 0),
     [Single(Task0, 2, 0) EXCEPT !.required = {"y"}]}
    \cup {Single(d, 1, 1) : d \in Kinds}
    \cup {Single(Conditional(c), 1, 0) : c \in Conditions \cup Nested}
    \cup {Single(Reads(Kind("application"), i), 1, 0) : i \in Inputs}
=============================================================================
