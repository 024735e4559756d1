SPECIFICATION LoadsSpec
CONSTANTS
    o1 = o1
    p1 = p1
    t1 = t1
    t2 = t2
    r1 = r1
    r2 = r2
    v1 = v1
    x1 = x1
    k1 = k1
    k2 = k2
    Nobody = Nobody
    Payments = {p1}
    OrderOf <- OneOrder
    Price <- TwoPounds
    Txs = {t1, r1, r2, v1, x1}
    Kind <- Kinds
    PaymentOf <- Abouts
    Amount <- Amounts
    OtherCurrency = {x1}
    OrderRefAtIntent = FALSE
    Keys = {k1, k2}
    Answers = {"succeeded", "submitted", "declined", "lost"}
    Paid = {t1, t2}
    Batches = {"b1"}
    Lines <- BothLines
    BadLines = {}
    Age <- OneAge
    JobLimit = 1
    Imports = {"f1"}
    ImportTx <- FirstTx
    FinanceAdmins = {"a1", "a2"}
    DualControl = TRUE
    MaxAmount = 3
    Deliveries = {"n1"}
    Workers = {"w1", "w2"}
    Messages = {"m1", "m2", "m3"}
    MaxAttempts = 2
    MaxCrashes = 1
    MaxRetries = 1
    Nothing = "Nothing"
INVARIANTS
    RefundedWasReturned
    BooksHonest
PROPERTIES
    DeliveredNotResent
CHECK_DEADLOCK FALSE
