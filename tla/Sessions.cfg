SPECIFICATION Spec
CONSTANTS
    Tabs = {t1, t2}
    Realms = {"admin", "driver"}
    Limited = {"admin"}
    Routes <- MCRoutes
    IdleLimit = 2
    AbsoluteLimit = 4
    RefreshTtl = 3
    MaxTokens = 3
    MaxTime = 3
    Deaths = {"claimed", "minting", "parking"}
    GraceFails = TRUE
    AnswersGetLost = TRUE
    LogoutRaces = FALSE
SYMMETRY TabSymmetry
INVARIANTS
    OneLiveToken
    TogetherIsNotReuse
    SuspensionIsFinal
    LogoutIsFinal
CHECK_DEADLOCK FALSE
