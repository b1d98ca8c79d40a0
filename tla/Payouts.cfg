SPECIFICATION FairSpec
CONSTANTS
    Owners = {o1}
    Keys = {k1, k2}
    Amounts = {1, 2, 3}
    InitialBalance = 2
    AutoApproveMax = 1
    Deaths = {"approved", "calling", "rejecting", "sweeping"}
    AnswersGetLost = FALSE
    FinanceLooks = TRUE
    FinanceRaces = FALSE
INVARIANTS
    VerdictsAgree
PROPERTIES
    ImplementsEscrow
    FundsSettle
CHECK_DEADLOCK FALSE
