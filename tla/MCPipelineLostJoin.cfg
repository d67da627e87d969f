CONSTANTS
    boot = boot  mid = mid  left1 = left1  right1 = right1  fin = fin
    p1 = p1  p2 = p2
    Jobs <- DiamondJobs
    Requires <- DiamondRequires
    Bootstrap = boot
    Finalizer = fin
    PaidJobs = {}
    Tokens = {1, 2, 3, 4, 5}
    NoToken = 0
    NoJob = NoJob
    MaxAttempts = 1
    FinalizerMaxAttempts = 1
    MaxGen = 1
    Procs = {p1, p2}
    MaxCrashes = 0
    MaxDrops = 0
    MaxStalls = 0
    MaxFaults = 0
    MaxWaits = 0
SPECIFICATION PipelineSpec
SYMMETRY ProcSymmetry
INVARIANTS SomeJobIsLeft

\* a request ends, and then nothing is left to do
CHECK_DEADLOCK FALSE
