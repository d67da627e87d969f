\* two workers, one caller and the sweep on one generation of two dispatches
CONSTANTS
    Procs = {p1, p2}
    Users = {u1}
    Sweeper = sweeper
    Tokens = {t1, t2, t3, t4, t5, t6}
    NoToken = NoToken
    MaxFailures = 2
    MaxGenerations = 1
    MaxDispatches = 2
    QueueAttempts = 2
    RearmAt = 1
    MaxFaults = 1
SPECIFICATION FreshFairSpec
INVARIANTS AtMostOnePaidRun ReadyLeavesNoActor WorkIsReachable
PROPERTIES AdmissionEnds

\* a settled or expired admission has nothing left to do
CHECK_DEADLOCK FALSE
