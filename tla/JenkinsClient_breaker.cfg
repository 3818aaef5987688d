CONSTANTS
    Callers = {c1, c2, c3}
    Threshold = 2
    MaxRetries = 1
    MaxConcurrent = 2
    MaxOutages = 1
    MaxCancels = 1
SPECIFICATION ClientFairSpec
PROPERTIES
    CallReturns
    Recovers
