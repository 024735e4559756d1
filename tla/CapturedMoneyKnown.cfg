SPECIFICATION Spec
CONSTANTS
    o1 = o1
    p1 = p1
    t1 = t1
    k1 = k1
    Nobody = Nobody
    Payments = {p1}
    OrderOf <- OneOrder
    Price <- TwoPounds
    Txs = {t1}
    Kind <- APayment
    PaymentOf <- OfP1
    Amount <- AllOfIt
    OtherCurrency = {}
    OrderRefAtIntent = FALSE
    Keys = {k1}
    Answers = {"succeeded"}
INVARIANTS
    CapturedMoneyKnown
CHECK_DEADLOCK FALSE
