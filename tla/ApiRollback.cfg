\* What becomes of the tasks that other requests have created.
CONSTANTS
    NoRow <- MCNoRow
    Request <- MCRequest
    Worker <- MCWorker
    Batches <- TaskBatches
    Seed <- MCSeed

SPECIFICATION Spec

PROPERTIES
    AcknowledgedTasksStay

CHECK_DEADLOCK FALSE
