SPECIFICATION LoadsSpec
CONSTANTS
    i1 = i1
    i2 = i2
    o1 = o1
    o2 = o2
    p1 = p1
    p2 = p2
    p3 = p3
    alice = alice
    k1 = k1
    kChef = kChef
    NoHold = NoHold
    Items = {i1, i2}
    Orders = {o1, o2}
    Customers = {alice}
    OwnerOf <- Owners
    Payments = {p1, p2, p3}
    PaymentOrder <- Keys
    RefundKeys = {k1, kChef}
    Total <- Portions1
    MaxPerOrder = 2
    OrderTotal <- Prices
    CouponLimit = 1
    CouponPerCustomer = 1
    InitialPoints = 2
    MaxPoints = 2
    EditableItems = {i1}
    SentTypes = {"payment.succeeded", "payment.failed", "payment.cancelled"}
    ChefRejectKey = kChef
    HoldTTL = 1
    PaymentTTL = 1
    MaxTime = 2
INVARIANTS
    TypeOK
    StockExact
    PendingOrderHeld
    ConfirmedOrderPaidOnce
    ClosedOrderHoldsNothing
    RefundsAddUp
    BenefitsExact
PROPERTIES
    SuccessIsFinal
    KeepsContract
SYMMETRY SameOrderKeys
CHECK_DEADLOCK FALSE
