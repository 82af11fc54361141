\* A join of two tasks that end at the same time.
CONSTANTS
    Task <- MCTask
    Requests <- HangRequests
    Server = Server
    MaxStarts = 2

SPECIFICATION Spec

PROPERTY CompleteIsReported

CHECK_DEADLOCK FALSE
