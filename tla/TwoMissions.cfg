SPECIFICATION Spec
CONSTANTS
    o1 = o1
    o2 = o2
    d1 = d1
    d2 = d2
    r1 = r1
    r2 = r2
    None = None
    Orders = {o1, o2}
    Drivers = {d1}
    Requests = {r1, r2}
    Handlers = {"prepare", "ready", "claim", "availability"}
SYMMETRY Symmetry
INVARIANTS
    OneMissionPerDriver
CHECK_DEADLOCK FALSE
