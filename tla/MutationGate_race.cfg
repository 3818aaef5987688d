CONSTANTS
    Requests = {r1, r2}
    Users = {u1, u2}
    Targets = {t1}
    TTL = 1
    Cooldown = 1
    Window = 1
    MaxPreviews = 2
    PurgeCap = 1
    MaxClock = 1
    MaxTokens = 3
SPECIFICATION Spec
SYMMETRY Symmetry
VIEW Live
CHECK_DEADLOCK FALSE
INVARIANTS
    SingleUse
    WrittenAsPreviewed
    CooldownHolds
    RateHolds
PROPERTIES
    WritesWhileOpen
