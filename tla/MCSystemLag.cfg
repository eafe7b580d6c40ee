CONSTANTS
    c1 = c1
    c2 = c2
    l1 = l1
    l2 = l2
    Card = {c1, c2}
    Lag = {l1, l2}
    Owner <- MCOwner
    MaxId = 2
    OldLags = 1
    MaxChanges = 5
    MaxFailures = 1
SPECIFICATION FairSpec
INVARIANTS Consistent IdsUnique RowsTruthful
PROPERTIES Converges
CHECK_DEADLOCK FALSE
