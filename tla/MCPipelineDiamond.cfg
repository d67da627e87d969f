CONSTANTS
    boot = boot  mid = mid  left1 = left1  right1 = right1  fin = fin
    p1 = p1  p2 = p2
    Jobs <- DiamondJobs
    Requires <- DiamondRequires
    Bootstrap = boot
    Finalizer = fin
    PaidJobs = {left1}
    Tokens = {1, 2, 3, 4, 5}
    NoToken = 0
    NoJob = NoJob
    MaxAttempts = 2
    FinalizerMaxAttempts = 2
    MaxGen = 2
    Procs = {p1, p2}
    MaxCrashes = 0
    MaxDrops = 0
    MaxStalls = 1
    MaxFaults = 1
    MaxWaits = 1
SPECIFICATION PipelineSpec
CONSTRAINT FewMishaps
SYMMETRY ProcSymmetry
INVARIANTS DependencyOrder AtMostOnePaidStart NoActorOutlivesRequest OwnerNeverCompletes PublishedIsWhole OutboxAgreesWithQueue AttemptsAreForFailures

\* a request ends, and then nothing is left to do
CHECK_DEADLOCK FALSE
