SPECIFICATION FairSpec
CONSTANTS
    Owners = {o1}
    Keys = {k1, k2}
    Amounts = {1, 2, 3}
    InitialBalance = 2
    AutoApproveMax = 1
    Deaths = {"holding", "approved", "calling", "accepted", "rejecting", "reversing", "sweeping"}
    AnswersGetLost = TRUE
    FinanceLooks = FALSE
    FinanceRaces = TRUE
INVARIANTS
    TypeOK
    OneEnd
PROPERTIES
    PayoutsEnd
CHECK_DEADLOCK FALSE
