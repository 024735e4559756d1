SPECIFICATION LoadsSpec
CONSTANTS
    s1 = s1
    s2 = s2
    d1 = d1
    d2 = d2
    o1 = o1
    p1 = p1
    p2 = p2
    None = None
    Rows = {s1, s2}
    Dates = {d1, d2}
    OverrideDates = {d2}
    WeekdayOf <- SameWeekday
    MaxCapacity = 1
    OrderIds = {o1}
    Keys = {p1, p2}
    Clients = {"worker"}
    OfferWindow = 1
    Horizon = 1
    Items = {"i1", "i2"}
    KitchenOf <- TwoKitchens
    CartIds = {"c1"}
    CartRequests = {"q1", "q2"}
    MaxPerOrder = 1
    MaxOrders = 1
    Callers = {"q1"}
    Addresses = {1, 2, 3, 4}
    Admins = {"a1", "a2"}
    Reviewed = {"o1", "o2"}
    Stars = {1, 2}
    Bought = {"o1", "o2", "o3"}
    Points = {0, 1}
    Earned = {1, 2}
    Assets = {"m1", "m2"}
INVARIANTS
    PaidRequestScheduled
    CustomerRowsAgree
PROPERTIES
    CapacityKept
CHECK_DEADLOCK FALSE
