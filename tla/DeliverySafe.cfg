SPECIFICATION LoadsSpec
CONSTANTS
    o1 = o1
    o2 = o2
    d1 = d1
    d2 = d2
    r1 = r1
    r2 = r2
    None = None
    Orders = {o1, o2}
    Drivers = {d1, d2}
    Requests = {r1}
    Handlers = {"accept", "reject", "prepare", "package", "ready", "claim", "arrive", "pickup", "start", "deliver", "report", "resume", "availability"}
SYMMETRY Symmetry
INVARIANTS
    TaskFollowsOrder
    SerialMissionsAgree
PROPERTIES
    OrderStepsOnly
CHECK_DEADLOCK FALSE
