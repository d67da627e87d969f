----------------------------- MODULE AiScheduler -----------------------------
(***************************************************************************)
(* The scheduler of AI operations.  Every job of an instance runs one of   *)
(* its own, and all of them ask one arbiter for the slots of the process.  *)
(* A run has a queue and a waiter for each stage; the arbiter remembers    *)
(* who waits and grants a slot to the next waiter when it asks again.      *)
(* JavaScript interleaves the runs at every await, and only there: a step  *)
(* is the code between two of them.  The store of the operations answers a *)
(* claim in any of its ways.                                               *)
(***************************************************************************)
EXTENDS Integers, FiniteSets

CONSTANTS
    Runs,        \* the runs of the scheduler in one process
    NStages,     \* the stages, in the order of their rotation
    StageCap,    \* slots of each stage
    SharedCap,   \* slots of the process
    Need         \* how many operations a run has in each stage

StageIds == 0..(NStages - 1)

ASSUME SchedulerAssumption ==
    /\ NStages \in Nat \ {0} /\ SharedCap \in Nat
    /\ StageCap \in [StageIds -> Nat]
    /\ Need \in [Runs -> [StageIds -> Nat]]

Waiters == Runs \X StageIds
Tasks == UNION {{<<r, s, i>> : i \in 1..Need[r][s]} : r \in Runs, s \in StageIds}

VARIABLES
    (* the arbiter *)
    activeTotal,
    activeByStage,
    stageCursor,
    pending,      \* for each waiter, those with a lower sequence
    (* a run *)
    pc,
    queue,        \* how many operations are left in each queue
    cursor,
    unchanged,    \* the generation is the one at which it was refused
    late,         \* too late to admit an operation
    fatalError,
    remaining,    \* operations without a result
    outcome,
    (* the operations that hold a slot *)
    claimed,      \* those whose claim is under way
    active        \* those under way

arbiterVars == <<activeTotal, activeByStage, stageCursor, pending>>
runVars == <<pc, queue, cursor, unchanged, late, fatalError, remaining, outcome>>
slotVars == <<claimed, active>>
vars == <<arbiterVars, runVars, slotVars>>

SchedulerInit ==
    /\ activeTotal = 0 /\ activeByStage = [s \in StageIds |-> 0]
    /\ stageCursor = 0 /\ pending = [w \in {} |-> {}]
    /\ pc = [r \in Runs |-> "top"] /\ queue = Need
    /\ cursor = [r \in Runs |-> 0] /\ unchanged = [r \in Runs |-> FALSE]
    /\ late = [r \in Runs |-> FALSE] /\ fatalError = [r \in Runs |-> FALSE]
    /\ remaining = [r \in Runs |-> {t \in Tasks : t[1] = r}]
    /\ outcome = [r \in Runs |-> "none"]
    /\ claimed = {} /\ active = {}

-----------------------------------------------------------------------------
(* The arbiter.                                                            *)

Slots == claimed \cup active

CanAcquire(s) == activeTotal < SharedCap /\ activeByStage[s] < StageCap[s]

(* How far a stage is from the one whose turn it is.                       *)
Offset(from, s) == (s + NStages - from) % NStages

(* The waiter that is served next: the oldest one of the first stage that  *)
(* has a waiter and a slot.                                                *)
IsNext(w, p) ==
    /\ w \in DOMAIN p /\ CanAcquire(w[2])
    /\ \A v \in p[w] : v[2] # w[2]
    /\ \A v \in DOMAIN p :
          CanAcquire(v[2]) => Offset(stageCursor, w[2]) <= Offset(stageCursor, v[2])

(* signalChange: a new generation, and the sleepers go on.                 *)
Signalled == [r \in Runs |-> IF pc[r] = "asleep" THEN "top" ELSE pc[r]]
Changed == [r \in Runs |-> FALSE]

Without(p, W) == [w \in DOMAIN p \ W |-> p[w] \ W]

(* Broken: the turn stays with the stage that had it.                      *)
AfterGrantInPlace(s) == s

AfterGrant(s) == (s + 1) % NStages

(* Broken: the slots of a stage are not given back.                        *)
ReleaseShared(s) == activeTotal' = activeTotal - 1 /\ UNCHANGED activeByStage

Release(s) ==
    /\ activeTotal' = activeTotal - 1
    /\ activeByStage' = [activeByStage EXCEPT ![s] = @ - 1]

Cancelled(r) == Without(pending, {r} \X StageIds)

-----------------------------------------------------------------------------
(* A run.                                                                  *)

Points == {"top", "admit", "claim", "refused", "handled", "race", "park", "asleep", "over"}
At(r, point) == pc[r] = point
First(r, s) == <<r, s, queue[r][s]>>
ActiveOf(r) == {t \in active : t[1] = r}

(* The stages in which it has something, and those it asks for before s    *)
(* and with s: it goes from its cursor.                                    *)
Tries(r) == {s \in StageIds : queue[r][s] > 0}
Asks(r, s) == {x \in Tries(r) : Offset(cursor[r], x) <= Offset(cursor[r], s)}

(* It has asked for these stages: its waiters are added one after another. *)
Asked(r, stages) ==
    LET waiting == DOMAIN pending
    IN [w \in waiting \cup ({r} \X stages) |->
           IF w \in waiting THEN pending[w]
           ELSE waiting \cup ({r} \X (Asks(r, w[2]) \ {w[2]}))]

(* The stages that it would be granted, if it came so far.                 *)
Grants(r) ==
    {s \in Tries(r) : CanAcquire(s) /\ IsNext(<<r, s>>, Asked(r, Asks(r, s)))}

(* At "top" the round of admissions begins, at "admit" it has handled one. *)
Trying(r) == At(r, "admit") \/ (At(r, "top") /\ remaining[r] # {})
MayAdmit(r) == ~late[r] /\ ~fatalError[r]

(* admitOne, up to the claim of the operation.                             *)
Acquire(r) ==
    /\ Trying(r) /\ MayAdmit(r)
    /\ \E s \in Grants(r) :
          /\ \A x \in Grants(r) : Offset(cursor[r], s) <= Offset(cursor[r], x)
          /\ pending' = Without(Asked(r, Asks(r, s)), {<<r, s>>})
          /\ activeTotal' = activeTotal + 1
          /\ activeByStage' = [activeByStage EXCEPT ![s] = @ + 1]
          /\ stageCursor' = AfterGrant(s)
          /\ claimed' = claimed \cup {First(r, s)}
    /\ pc' = [Signalled EXCEPT ![r] = "claim"] /\ unchanged' = Changed
    /\ UNCHANGED <<queue, cursor, late, fatalError, remaining, outcome, active>>

(* A waiter that is new wakes the others, and the run itself is refused at *)
(* the generation that this makes.                                         *)
Refused(r) ==
    /\ Trying(r) /\ MayAdmit(r) /\ Grants(r) = {}
    /\ pending' = Asked(r, Tries(r))
    /\ LET points == IF pending' = pending THEN pc ELSE Signalled
           marks == IF pending' = pending THEN unchanged ELSE Changed
       IN /\ pc' = [points EXCEPT ![r] = IF At(r, "top") THEN "refused" ELSE "handled"]
          /\ unchanged' = [marks EXCEPT ![r] = At(r, "top")]
    /\ UNCHANGED <<activeTotal, activeByStage, stageCursor, queue, cursor, late, fatalError,
                   remaining, outcome, slotVars>>

(* Broken: the waiters of a run that is over stay.                         *)
EndKeepingWaiters(r, result) ==
    /\ pc' = [pc EXCEPT ![r] = "over"] /\ outcome' = [outcome EXCEPT ![r] = result]
    /\ UNCHANGED <<pending, unchanged>>

(* The finally block: the waiters are cancelled.                           *)
End(r, result) ==
    /\ pending' = Cancelled(r)
    /\ IF pending' = pending
       THEN pc' = [pc EXCEPT ![r] = "over"] /\ unchanged' = [unchanged EXCEPT ![r] = FALSE]
       ELSE pc' = [Signalled EXCEPT ![r] = "over"] /\ unchanged' = Changed
    /\ outcome' = [outcome EXCEPT ![r] = result]

(* What the store makes of the claim: it fails, and with it the run, ...   *)
ClaimFails(t) ==
    /\ t \in claimed /\ claimed' = claimed \ {t} /\ Release(t[2])
    /\ pending' = Cancelled(t[1]) /\ unchanged' = Changed
    /\ pc' = [Signalled EXCEPT ![t[1]] = "over"]
    /\ outcome' = [outcome EXCEPT ![t[1]] = "failed"]
    /\ UNCHANGED <<stageCursor, queue, cursor, late, fatalError, remaining, active>>

Handled(t) ==
    /\ t \in claimed /\ claimed' = claimed \ {t}
    /\ queue' = [queue EXCEPT ![t[1]][t[2]] = @ - 1]

(* ... it is under way elsewhere, and is left for a later delivery, ...    *)
ClaimDeferred(t) ==
    /\ Handled(t) /\ Release(t[2])
    /\ pc' = [Signalled EXCEPT ![t[1]] = "admit"] /\ unchanged' = Changed
    /\ UNCHANGED <<stageCursor, pending, cursor, late, fatalError, remaining, outcome, active>>

(* ... it has its result already, ...                                      *)
ClaimReady(t) ==
    /\ Handled(t) /\ Release(t[2])
    /\ cursor' = [cursor EXCEPT ![t[1]] = (t[2] + 1) % NStages]
    /\ remaining' = [remaining EXCEPT ![t[1]] = @ \ {t}]
    /\ pc' = [Signalled EXCEPT ![t[1]] = "admit"] /\ unchanged' = Changed
    /\ UNCHANGED <<stageCursor, pending, late, fatalError, outcome, active>>

(* ... or it is executed: run, recovered, or given its fallback.           *)
ClaimExecute(t) ==
    /\ Handled(t)
    /\ cursor' = [cursor EXCEPT ![t[1]] = (t[2] + 1) % NStages]
    /\ active' = active \cup {t}
    /\ pc' = [pc EXCEPT ![t[1]] = "admit"]
    /\ UNCHANGED <<arbiterVars, unchanged, late, fatalError, remaining, outcome>>

(* Broken: a run that cannot be served at once gives up.                   *)
NothingLeftNow(r) == Grants(r) = {}

(* blockedGeneration is null when there was nothing to ask for.            *)
NothingLeft(r) == Tries(r) = {}

Result(r) == IF remaining[r] = {} THEN "completed" ELSE "continuation"

(* The run cannot admit more: it waits for an operation of its own, ...    *)
Race(r) ==
    /\ At(r, "refused") \/ At(r, "handled") \/ (Trying(r) /\ ~MayAdmit(r))
    /\ ActiveOf(r) # {}
    /\ pc' = [pc EXCEPT ![r] = "race"] /\ unchanged' = [unchanged EXCEPT ![r] = FALSE]
    /\ UNCHANGED <<arbiterVars, queue, cursor, late, fatalError, remaining, outcome, slotVars>>

(* ... it ends, with an error, or because it is too late, or because there *)
(* is nothing left, ...                                                    *)
GiveUp(r) ==
    /\ At(r, "refused") \/ At(r, "handled") \/ (Trying(r) /\ ~MayAdmit(r))
    /\ ActiveOf(r) = {}
    /\ ~MayAdmit(r) \/ (At(r, "refused") /\ NothingLeft(r))
    /\ End(r, IF fatalError[r] THEN "failed" ELSE Result(r))
    /\ UNCHANGED <<activeTotal, activeByStage, stageCursor, queue, cursor, late, fatalError,
                   remaining, slotVars>>

(* ... it begins another round, or waits for the arbiter.                  *)
GoOn(r) ==
    /\ MayAdmit(r) /\ ActiveOf(r) = {}
    /\ \/ At(r, "handled") /\ pc' = [pc EXCEPT ![r] = "top"]
       \/ At(r, "refused") /\ ~NothingLeft(r) /\ pc' = [pc EXCEPT ![r] = "park"]
    /\ UNCHANGED <<arbiterVars, queue, cursor, unchanged, late, fatalError, remaining, outcome,
                   slotVars>>

Complete(r) ==
    /\ At(r, "top") /\ remaining[r] = {} /\ End(r, "completed")
    /\ UNCHANGED <<activeTotal, activeByStage, stageCursor, queue, cursor, late, fatalError,
                   remaining, slotVars>>

(* Broken: the run goes to sleep although the generation has changed.      *)
ParkUnchecked(r) ==
    /\ At(r, "park") /\ pc' = [pc EXCEPT ![r] = "asleep"]
    /\ UNCHANGED <<arbiterVars, queue, cursor, unchanged, late, fatalError, remaining, outcome,
                   slotVars>>

(* waitForChange: it sleeps only while the generation is the same.         *)
Park(r) ==
    /\ At(r, "park") /\ pc' = [pc EXCEPT ![r] = IF unchanged[r] THEN "asleep" ELSE "top"]
    /\ UNCHANGED <<arbiterVars, queue, cursor, unchanged, late, fatalError, remaining, outcome,
                   slotVars>>

(* The timer of the sleeper.                                               *)
Cutoff(r) ==
    /\ At(r, "asleep") /\ late[r] /\ End(r, Result(r))
    /\ UNCHANGED <<activeTotal, activeByStage, stageCursor, queue, cursor, late, fatalError,
                   remaining, slotVars>>

-----------------------------------------------------------------------------
(* An operation, and the clock.                                            *)

Settle(t) ==
    /\ t \in active /\ active' = active \ {t} /\ Release(t[2]) /\ unchanged' = Changed
    /\ UNCHANGED <<stageCursor, queue, cursor, late, claimed>>

(* It has a result or is unavailable for good; or it fails, or is put off. *)
(* Nobody reads what a run that is over would still learn.                 *)
Finish(t) ==
    /\ Settle(t)
    /\ pc' = [Signalled EXCEPT ![t[1]] = IF @ = "race" THEN "top" ELSE @]
    /\ \/ /\ ~At(t[1], "over") /\ remaining' = [remaining EXCEPT ![t[1]] = @ \ {t}]
          /\ UNCHANGED fatalError
       \/ /\ ~At(t[1], "over") /\ fatalError' = [fatalError EXCEPT ![t[1]] = TRUE]
          /\ UNCHANGED remaining
       \/ At(t[1], "over") /\ UNCHANGED <<remaining, fatalError>>
    /\ UNCHANGED <<pending, outcome>>

(* Even putting it off fails: only a run that waits for it sees the error. *)
FinishRejected(t) ==
    /\ Settle(t)
    /\ IF At(t[1], "race")
       THEN /\ pending' = Cancelled(t[1])
            /\ pc' = [Signalled EXCEPT ![t[1]] = "over"]
            /\ outcome' = [outcome EXCEPT ![t[1]] = "failed"]
       ELSE pc' = Signalled /\ UNCHANGED <<pending, outcome>>
    /\ UNCHANGED <<fatalError, remaining>>

TimePasses(r) ==
    /\ ~late[r] /\ ~At(r, "over") /\ late' = [late EXCEPT ![r] = TRUE]
    /\ UNCHANGED <<arbiterVars, pc, queue, cursor, unchanged, fatalError, remaining, outcome,
                   slotVars>>

-----------------------------------------------------------------------------
RunStep(r) ==
    \/ Acquire(r) \/ Refused(r) \/ Race(r) \/ GiveUp(r) \/ GoOn(r) \/ Complete(r) \/ Park(r)
    \/ Cutoff(r)

ClaimAnswer(t) == ClaimFails(t) \/ ClaimDeferred(t) \/ ClaimReady(t) \/ ClaimExecute(t)
OperationEnds(t) == Finish(t) \/ FinishRejected(t)

SchedulerNext ==
    \/ \E r \in Runs : RunStep(r) \/ TimePasses(r)
    \/ \E t \in claimed : ClaimAnswer(t)
    \/ \E t \in active : OperationEnds(t)

(* The event loop serves every run, claims are answered, and calls end.    *)
(* No deadline is needed.                                                  *)
SchedulerFairness ==
    /\ \A r \in Runs : WF_vars(RunStep(r))
    /\ \A t \in Tasks : WF_vars(ClaimAnswer(t)) /\ WF_vars(OperationEnds(t))

SchedulerSpec == SchedulerInit /\ [][SchedulerNext]_vars /\ SchedulerFairness

-----------------------------------------------------------------------------
(* Types of the arbiter and of the runs; of two waiters one was first.     *)
SchedulerTypeOK ==
    /\ activeTotal \in Nat /\ activeByStage \in [StageIds -> Nat] /\ stageCursor \in StageIds
    /\ DOMAIN pending \subseteq Waiters
    /\ \A w \in DOMAIN pending : pending[w] \subseteq DOMAIN pending \ {w}
    /\ \A v, w \in DOMAIN pending : v \in pending[w] <=> w # v /\ w \notin pending[v]
    /\ pc \in [Runs -> Points]
    /\ queue \in [Runs -> [StageIds -> Nat]]
    /\ cursor \in [Runs -> StageIds]
    /\ {unchanged, late, fatalError} \subseteq [Runs -> BOOLEAN]
    /\ remaining \in [Runs -> SUBSET Tasks]
    /\ outcome \in [Runs -> {"none", "completed", "continuation", "failed"}]
    /\ claimed \subseteq Tasks /\ active \subseteq Tasks

HeldIn(s) == {t \in Slots : t[2] = s}

(* The counters of the arbiter are the slots that are held, those of       *)
(* claims that fail and of operations whose run ended without them too,    *)
(* and neither the process nor a stage exceeds its limit.                  *)
CountersAgree ==
    /\ activeTotal = Cardinality(Slots) /\ activeTotal <= SharedCap
    /\ \A s \in StageIds :
          activeByStage[s] = Cardinality(HeldIn(s)) /\ activeByStage[s] <= StageCap[s]

(* No wake-up is lost: the run whose waiter is served next is neither      *)
(* asleep nor about to be, nor is it over: it asks, now or when an         *)
(* operation of its own has ended.  (As long as the arbiter waits for a    *)
(* run, it serves no other; in vain would be for ever.)                    *)
NextWaiterIsAwake ==
    \A w \in Waiters : IsNext(w, pending) =>
        /\ pc[w[1]] \notin {"asleep", "over"}
        /\ pc[w[1]] \in {"refused", "park"} /\ ActiveOf(w[1]) = {} => ~unchanged[w[1]]

(* A run gives up before its time only when it has tried everything: what  *)
(* it leaves for a continuation was claimed, and put off by the store.     *)
NoEarlyContinuation ==
    \A r \in Runs : outcome[r] = "continuation" /\ ~late[r] =>
        \A s \in StageIds : queue[r][s] = 0

(* A slot that goes to another stage brings the turn of every stage that   *)
(* could have had it nearer: no stage is passed over twice by another.     *)
NoStageStarves ==
    [][\A s \in StageIds :
          /\ activeTotal' > activeTotal /\ activeByStage'[s] = activeByStage[s]
          /\ CanAcquire(s) /\ \E w \in DOMAIN pending : w[2] = s
          => Offset(stageCursor', s) < Offset(stageCursor, s)]_vars

(* Every run ends, without the help of its deadline, as long as operations *)
(* end: the runs cannot wait for each other for ever.                      *)
RunsEnd == \A r \in Runs : <>At(r, "over")
=============================================================================
