CONSTANTS
    Serves = {s1}
    Workers = {w1, w2}
    CLIs = {t1, t2}
    MaxCommands = 2
    MaxTokens = 3
    MaxFaults = 1
SPECIFICATION Spec
VIEW Live
SYMMETRY Symmetry
CHECK_DEADLOCK FALSE
INVARIANTS
    LogoutStopsServe
    DurableBeforeUse
    NoSelfReuse
