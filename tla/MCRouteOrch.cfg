CONSTANTS
    d = d
    r1 = r1
    r2 = r2
    n1 = n1
    n2 = n2
    n3 = n3
    global = global
    blue = blue
    Order <- OrderDef
    VrfOf <- VrfOfDef
    GlobalVrf = global
    Default = d
    NextHops <- NextHopsDef
    NhgsOf <- NhgsDef
    Fallback = {}
    Refusals <- SomeRefusals
    MaxGroups = 1
    MaxBulk = 2
    MaxRef = 6
    MaxKeys = 2
    MaxTasks = 3
    Flapping = {n1}
SPECIFICATION Spec
INVARIANTS AsicAsBelieved Settled NothingDangles Consistent
