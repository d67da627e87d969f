\* nothing goes wrong: two operations wait for one place
CONSTANTS
    relation = relation  profile = profile  global = global  slot = slot
    Ops <- TwoOps
    Budgets <- OneBudget
    Covers <- OneCovers
    MaxActive <- OneActive
    Procs = {p1, p2}
    Tokens = {t1, t2, t3, t4}
    NoToken = NoToken
    NoOp = NoOp
    MaxAttempts <- EqualAttempts
    MaxFaults = 0
SPECIFICATION AdmissionSpec
INVARIANTS NoJobFailsOfWaiting

\* every job ends, and then nothing is left to do
CHECK_DEADLOCK FALSE
