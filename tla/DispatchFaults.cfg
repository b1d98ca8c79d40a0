SPECIFICATION Spec
CONSTANTS
    Bookings = {b1}
    Drivers = {d1}
    NoBooking = NoBooking
    NoDriver = NoDriver
    Scheduled = {}
    OffersPerWave = 1
    MaxWave = 2
    MaxReopen = 1
    UnableReasons = {1}
    CustomerRetries = TRUE
    AdminReassigns = TRUE
    AdminOverrides = TRUE
    ZonesPause = FALSE
    QueueCanFail = TRUE
    WorkersCrash = FALSE
    LateWorkers = TRUE
INVARIANTS
    SearchPendingUnlessLost
PROPERTIES
    ImplementsLifecycle
CHECK_DEADLOCK FALSE
