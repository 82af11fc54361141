\* Three submissions served at once.
CONSTANTS
    m1 = m1
    m2 = m2
    m3 = m3
    w1 = w1
    w2 = w2
    w3 = w3
    k = k
    l = l
    NoClient = NoClient
    NoWorker = NoWorker
    NoKey = NoKey
    NoMessage = NoMessage
    Client <- MCMessage
    Worker <- MCWorker
    StartingPool <- MCStartingPool
    Limits <- MCLimits
    Batches <- MCBatches

SPECIFICATION Spec

INVARIANTS
    TypeOK
    KeyOfHolder

PROPERTIES
    SettledOnce
    DenyExcludes
    TerminatesDuplicates
    ImplementsLease

\* All messages are settled, or the lock of the pool is lost.
CHECK_DEADLOCK FALSE
