\* Two runs, three stages with one slot each, two slots in all.
SPECIFICATION SchedulerSpec
CONSTANTS
    r1 = r1
    r2 = r2
    Runs <- MCRuns
    NStages = 3
    SharedCap = 2
    StageCap <- MCStageCap
    Need <- MCNeed
INVARIANTS
    CountersAgree
    NextWaiterIsAwake
    NoEarlyContinuation
PROPERTIES
    NoStageStarves
    RunsEnd
\* The runs end.
CHECK_DEADLOCK FALSE
