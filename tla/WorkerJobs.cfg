SPECIFICATION LoadsSpec
CONSTANTS
    i1 = i1
    i2 = i2
    w1 = w1
    w2 = w2
    NoWorker = NoWorker
    NoHold = NoHold
    Items = {i1, i2}
    Workers = {w1, w2}
    MaxAttempts = 2
    Rereads = FALSE
    SlowWorkers = FALSE
    RetriedStatuses = {"succeeded", "dead_letter"}
    MaxCrashes = 1
    MaxRetries = 1
INVARIANTS
    OneWorkerPerItem
    ClosedTruthfully
PROPERTIES
    DeliversAtLeastOnce
    EveryItemCloses
    SucceededIsFinal
    PendingSettles
    OfferSettles
    EarlyReceiptApplied
    DiscrepancyReopens
    LateLedgerReconciles
    SloPausesZone
    UnattendedEscalates
CHECK_DEADLOCK FALSE
