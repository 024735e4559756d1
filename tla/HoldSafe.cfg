SPECIFICATION LoadsSpec
CONSTANTS
    o1 = o1
    o2 = o2
    o3 = o3
    r1 = r1
    r2 = r2
    r3 = r3
    Orders = {o1, o2, o3}
    Requests = {r1}
    Handlers = {"checkout", "intent", "succeed", "cancel", "fail", "sweep"}
    Total = 2
    CouponLimit = 3
    Rivals = {r1, r2, r3}
    Scarce = 2
    Plenty = 3
INVARIANTS
    SerialCountersExact
    CheckoutsNeverOversell
    PaidOrderStands
CHECK_DEADLOCK FALSE
