\* Concurrent publishers on one exchange.
CONSTANTS
    p1 = p1
    p2 = p2
    notifier = notifier
    archiver = archiver
    NoPublisher = NoPublisher
    Publisher <- MCPublisher
    Subscriber <- MCSubscriber
    EventType <- MCEventType
    AllowOnce <- Terminal
    ResetOn <- Terminal
    Wants <- MCWants
    MaxPublish = 4

SPECIFICATION Spec

INVARIANTS
    TypeOK
    AtMostOnce

PROPERTIES
    ResetReachesAll
    EndIsFollowedByReset
    PublishReturns

\* Nothing obliges anybody to publish again.
CHECK_DEADLOCK FALSE
