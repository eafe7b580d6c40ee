CONSTANTS
    p1 = p1
    p2 = p2
    vtep = vtep
    Mac = {m}
    Phy = {p1, p2}
    Tunnel = vtep
    OtherVlans = {p2}
    Mlag = {p2}
    Requests <- MCRequests
    MaxEvents = 5
    MaxBridge = 2
    MaxSaved = 1
    MaxFull = 1
    MaxChanges = 4
    MaxAsic = 5
    MaxSteps = 8
SPECIFICATION Spec
INVARIANTS Consistent Agreement StaticSurvives
CONSTRAINT OneExcuse
CHECK_DEADLOCK FALSE
