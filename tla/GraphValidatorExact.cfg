\* The answer against the graph itself.
CONSTANTS
    Task <- MCTasks
    Pipelines <- MCPipelines

SPECIFICATION Spec

INVARIANT VerdictIsExact

CHECK_DEADLOCK FALSE
