SPECIFICATION Spec
CONSTANTS
    Bookings = {b1}
    Drivers = {d1, d2}
    NoBooking = NoBooking
    NoDriver = NoDriver
    Scheduled = {}
    OffersPerWave = 1
    MaxWave = 2
    MaxReopen = 1
    UnableReasons = {1}
    CustomerRetries = FALSE
    AdminReassigns = FALSE
    AdminOverrides = FALSE
    ZonesPause = FALSE
    QueueCanFail = FALSE
    WorkersCrash = TRUE
    LateWorkers = FALSE
SYMMETRY DriverSymmetry
INVARIANTS
    HolderAcceptedAndStayed
    SearchPendingUnlessLost
PROPERTIES
    NeverAskedTwice
CHECK_DEADLOCK FALSE
