CONSTANTS
    boot = boot  mid = mid  left1 = left1  right1 = right1  fin = fin
    p1 = p1  p2 = p2
    Jobs <- ChainJobs
    Requires <- ChainRequires
    Bootstrap = boot
    Finalizer = fin
    PaidJobs = {mid}
    Tokens = {1, 2, 3, 4, 5}
    NoToken = 0
    NoJob = NoJob
    MaxAttempts = 2
    FinalizerMaxAttempts = 2
    MaxGen = 3
    Procs = {p1, p2}
    MaxCrashes = 1
    MaxDrops = 1
    MaxStalls = 0
    MaxFaults = 1
    MaxWaits = 0
SPECIFICATION FairPipelineSpec
PROPERTIES RequestEnds

\* a request ends, and then nothing is left to do
CHECK_DEADLOCK FALSE
