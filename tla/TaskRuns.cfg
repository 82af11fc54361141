SPECIFICATION Spec
CONSTANTS
    Task <- MCTask
    Runs = 3
    MaxFaults = 1
    Submissions <- MCSubmissions
INVARIANTS
    ResourcesReleased
    RunsSeparate
PROPERTIES
    TerminationEndsRun
CHECK_DEADLOCK FALSE
