SPECIFICATION Spec
CONSTANTS
    i1 = i1
    o1 = o1
    p1 = p1
    alice = alice
    k1 = k1
    kChef = kChef
    NoHold = NoHold
    Items = {i1}
    Orders = {o1}
    Customers = {alice}
    OwnerOf <- OneOwner
    Payments = {p1}
    PaymentOrder <- OneForO1
    RefundKeys = {k1, kChef}
    Total <- OneItem
    MaxPerOrder = 1
    OrderTotal <- MoneyTotal
    CouponLimit = 0
    CouponPerCustomer = 0
    InitialPoints = 0
    MaxPoints = 0
    EditableItems = {}
    SentTypes = {"payment.succeeded", "payment.failed"}
    ChefRejectKey = kChef
    HoldTTL = 1
    PaymentTTL = 1
    MaxTime = 2
INVARIANTS
    RejectedOrderRefunded
CHECK_DEADLOCK FALSE
