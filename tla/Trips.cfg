SPECIFICATION Spec
CONSTANTS
    d1 = d1
    d2 = d2
    Drivers = {d1, d2}
    NoDriver = NoDriver
    Operator = Operator
    Customer = Customer
    Screens = {s1}
    MaxTime = 2
    FreeWindow = 0
    PartialWindow = 1
    PartialFee = 2
    BaseFare = 4
    CompPct = 50
    FreeMinutes = 0
    PerMinute = 1
    LockedTotal = 5
    OtpWindow = 1
    MaxAttempts = 1
    MaxRenewals = 1
    MaxCodes = 2
    MaxCalls = 2
    MaxPayments = 1
    Deaths = {"start", "compensate"}
    MaxFaults = 0
    Faults = {}
SYMMETRY DriverSymmetry
INVARIANTS
    TypeOK
    GuessesAreCapped
    ShownCodeOpens
    CancellationIsPaidFor
PROPERTIES
    BillIsTheTrip
    ImplementsLifecycle
CHECK_DEADLOCK FALSE
