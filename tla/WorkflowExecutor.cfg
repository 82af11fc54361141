\* One run of each small workflow.
CONSTANTS
    Task <- MCTask
    Requests <- MCRequests
    Server = Server
    MaxStarts = 2

SPECIFICATION Spec

INVARIANTS
    TypeOK
    DependencyOrder
    ExecutorKept
    PipelineEventsOnce
    StartedOnce
    FailureStopsDependents
    SkipStopsDependents
    OutputsArrive

PROPERTIES
    ImplementsDag
    ServerThreadReturns
    TerminalEventDelivered

\* A run is over when the server has joined its threads.
CHECK_DEADLOCK FALSE
