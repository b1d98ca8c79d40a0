SPECIFICATION Spec
CONSTANTS
    w1 = w1
    w2 = w2
    Workers = {w1, w2}
    Fare = 2
    Discount = 1
    MaxWallet = 1
    MaxRows = 2
    MaxFaults = 1
    Faults = {"inputs", "lookup", "mark", "insert", "claim", "wallet", "cash", "credit", "paid", "intent", "redis", "switch", "close"}
INVARIANTS
    TypeOK
    LegsComeFromTheCapturedRow
    CreditIsCollected
    NoSettlementDrift
SYMMETRY WorkerSymmetry
CHECK_DEADLOCK FALSE
