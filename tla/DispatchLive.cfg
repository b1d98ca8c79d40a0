SPECIFICATION FairSpec
CONSTANTS
    Bookings = {b1}
    Drivers = {d1}
    NoBooking = NoBooking
    NoDriver = NoDriver
    Scheduled = {b1}
    OffersPerWave = 1
    MaxWave = 2
    MaxReopen = 1
    UnableReasons = {1}
    CustomerRetries = TRUE
    AdminReassigns = FALSE
    AdminOverrides = FALSE
    ZonesPause = TRUE
    QueueCanFail = FALSE
    WorkersCrash = FALSE
    LateWorkers = FALSE
PROPERTIES
    SearchesEnd
    OffersEnd
CHECK_DEADLOCK FALSE
