SPECIFICATION Spec
CONSTANTS
    Drivers = {d1}
    NoDriver = NoDriver
    Operator = Operator
    Customer = Customer
    Screens = {s1}
    MaxTime = 2
    FreeWindow = 0
    PartialWindow = 1
    PartialFee = 2
    BaseFare = 4
    CompPct = 50
    FreeMinutes = 0
    PerMinute = 1
    LockedTotal = 5
    OtpWindow = 1
    MaxAttempts = 1
    MaxRenewals = 1
    MaxCodes = 2
    MaxCalls = 1
    MaxPayments = 1
    Deaths = {}
    MaxFaults = 0
    Faults = {}
INVARIANTS
    FeeIsNotASettlement
CHECK_DEADLOCK FALSE
