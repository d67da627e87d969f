CONSTANTS
    boot = boot  mid = mid  fin = fin
    t1 = t1  t2 = t2
    Jobs <- ChainJobs
    Requires <- ChainRequires
    Bootstrap = boot
    Finalizer = fin
    PaidJobs = {mid}
    Tokens = {t1, t2}
    NoToken = NoToken
    NoJob = NoJob
    MaxAttempts = 2
    FinalizerMaxAttempts = 3
    MaxGen = 2
SPECIFICATION Spec
INVARIANTS RowChecks OutcomeAgrees NothingChargesAfterTheEnd
PROPERTIES SettledStaysSettled FailureChargedOnce ImplementsLifecycle

\* a request ends, and then nothing is left to do
CHECK_DEADLOCK FALSE
