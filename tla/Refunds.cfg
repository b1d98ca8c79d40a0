SPECIFICATION Spec
CONSTANTS
    w1 = w1
    w2 = w2
    Workers = {w1, w2}
    Keys = {"k1", "k2"}
    Intents <- MCIntents
    GatewayPool = 4
    WalletPool = 6
    Credits <- MCCredits
    StrayRow = FALSE
    MaxFaults = 1
    Faults = {"die", "refuse", "timeout"}
SYMMETRY RequestSymmetry
INVARIANTS
    TypeOK
    ReturnedWithinPaid
    ReversedWithinCredit
    RefundedMeansReturned
    
CHECK_DEADLOCK FALSE
