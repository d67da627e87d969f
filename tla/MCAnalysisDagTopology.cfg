CONSTANTS
    MaxBatches = 3
SPECIFICATION Spec
INVARIANTS GraphIsAssumed ProposalsFollowRequirements
PROPERTIES PlanOnlyGrows FinalizerIsReached

\* the graph is finite: it stops when every manifest is checkpointed
CHECK_DEADLOCK FALSE
