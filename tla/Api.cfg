\* Batches of three requests on a small database.
CONSTANTS
    NoRow <- MCNoRow
    Request <- MCRequest
    Worker <- MCWorker
    Batches <- MCBatches
    Seed <- MCSeed

SPECIFICATION Spec

INVARIANTS
    TypeOK
    CredentialsResolve
    RefusedLeavesNothing
    OwnerStaysAdmin
    ChainKept
    ExecutionsReported

PROPERTIES
    DamageStaysInProcess
    FinalStatusStays
    Answered

\* The batch is served and its runs are over.
CHECK_DEADLOCK FALSE
