\* A worker that goes back to the pool with something left of a run.
CONSTANTS
    m1 = m1
    m2 = m2
    m3 = m3
    w1 = w1
    w2 = w2
    w3 = w3
    k = k
    l = l
    NoClient = NoClient
    NoWorker = NoWorker
    NoKey = NoKey
    NoMessage = NoMessage
    Client <- MCMessage
    Worker <- MCWorker
    StartingPool <- MCStartingPool
    Limits <- MCLimits
    Batches <- MCBatches

SPECIFICATION Spec

INVARIANT IdleIsFresh

CHECK_DEADLOCK FALSE
