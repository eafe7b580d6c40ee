CONSTANTS
    p1 = p1
    p2 = p2
    Port = {p1, p2}
    Nbr = {1, 2}
    Server <- MCServer
    Route = {r1, r2}
    MaxChanges = 9
    MaxFailures = 1
SPECIFICATION Spec
INVARIANTS Consistent Steered RoutesFollow RefExact
CHECK_DEADLOCK FALSE
