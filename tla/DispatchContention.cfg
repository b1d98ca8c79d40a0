SPECIFICATION Spec
CONSTANTS
    Bookings = {b1, b2}
    Drivers = {d1}
    NoBooking = NoBooking
    NoDriver = NoDriver
    Scheduled = {}
    OffersPerWave = 1
    MaxWave = 1
    MaxReopen = 0
    UnableReasons = {1}
    CustomerRetries = FALSE
    AdminReassigns = FALSE
    AdminOverrides = FALSE
    ZonesPause = FALSE
    QueueCanFail = FALSE
    WorkersCrash = FALSE
    LateWorkers = FALSE
INVARIANTS
    OneLiveOfferPerDriver
PROPERTIES
    ImplementsLifecycle
CHECK_DEADLOCK FALSE
