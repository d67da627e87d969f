\* A handler whose claim ran out shares a reservation with the next one.
SPECIFICATION AiSpec
CONSTANTS
    o1 = o1
    o2 = o2
    NoHandler = NoHandler
    NoSlotOwner = NoSlotOwner
    Ops <- MCOps
    Others <- MCOthers
    Resolver <- MCResolver
    Handlers = {h1, h2}
    Slots = {s1, s2}
    Costs = {2}
    MaxResolver = 1
    MaxAttempts = 2
    Limit = 2
    MaxFaults = 1
INVARIANTS
    CallsAreCharged
\* Handlers end, and there is a last one.
CHECK_DEADLOCK FALSE
