SPECIFICATION Spec
CONSTANTS
    o1 = o1
    o2 = o2
    o3 = o3
    r1 = r1
    r2 = r2
    r3 = r3
    Orders = {o1, o2, o3}
    Requests = {r1, r2}
    Handlers = {"checkout", "cancel", "sweep"}
    Total = 1
    CouponLimit = 3
SYMMETRY Symmetry
INVARIANTS
    NoOversell
CHECK_DEADLOCK FALSE
