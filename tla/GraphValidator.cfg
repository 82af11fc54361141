\* has_cycle on every graph of four tasks.
CONSTANTS
    Task <- MCTasks
    Pipelines <- MCPipelines

SPECIFICATION Spec

INVARIANTS
    VerdictIsHasCycle

PROPERTY WalkEnds

\* The validator stops when it has answered.
CHECK_DEADLOCK FALSE
