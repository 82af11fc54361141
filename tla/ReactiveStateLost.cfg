\* A thread that is handed over and never started.
CONSTANTS
    c1 = c1
    c2 = c2
    c3 = c3
    x = x
    y = y
    NoCaller = NoCaller
    Caller <- MCCaller
    Child <- MCChild
    Handed <- MCHanded
    MaxPeeks = 1

SPECIFICATION Spec

PROPERTY HandedOverIsStarted

CHECK_DEADLOCK FALSE
