CONSTANTS
    w1 = w1
    w2 = w2
    l1 = l1
    l2 = l2
    Waiters <- MCWaiters
    Loops <- MCLoops
    Callers <- MCCallers
    Threshold = 1
    MaxRetries = 0
    MaxConcurrent = 1
    MaxOutages = 0
    MaxCancels = 1
SPECIFICATION FairSpec
INVARIANTS
    NoForeignCancel
    PollsForSomeone
PROPERTY WaitReturns
