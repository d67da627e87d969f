\* two operations that compete for one place, one of them in a slot budget
CONSTANTS
    relation = relation  profile = profile  global = global  slot = slot
    Ops <- TwoOps
    Budgets <- OneBudget
    Covers <- OneCovers
    MaxActive <- OneActive
    Procs = {p1, p2}
    Tokens = {t1, t2, t3, t4}
    NoToken = NoToken
    NoOp = NoOp
    MaxAttempts <- TwoAttempts
    MaxFaults = 2
SPECIFICATION FairSpec
INVARIANTS WithinBudgets ActorsAreCounted OneHolder
PROPERTIES ImplementsPool CapacityComesBack

\* every job ends, and then nothing is left to do
CHECK_DEADLOCK FALSE
