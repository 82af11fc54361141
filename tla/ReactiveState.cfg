\* Three threads that hand over what they have fetched.
CONSTANTS
    c1 = c1
    c2 = c2
    c3 = c3
    x = x
    y = y
    NoCaller = NoCaller
    Caller <- MCCaller
    Child <- MCChild
    Handed <- MCHanded
    MaxPeeks = 1

SPECIFICATION Spec

INVARIANTS
    TypeOK
    HooksExclusive
    HandedIsStarted

PROPERTY AccessesReturn

\* Every caller comes to its end.
CHECK_DEADLOCK FALSE
