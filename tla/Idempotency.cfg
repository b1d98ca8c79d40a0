SPECIFICATION FairSpec
CONSTANTS
    Requests = {r1, r2, r3}
    Payloads = {p1, p2}
    None = None
    MaxTries = 2
INVARIANTS
    OneAtATime
    EffectOnce
    ReplayIsOwn
PROPERTIES
    NotClobbered
    KeyComesBack
CHECK_DEADLOCK FALSE
