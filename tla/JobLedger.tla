------------------------------ MODULE JobLedger ------------------------------
(***************************************************************************)
(* The rows Postgres keeps for one V2 analysis request and the functions   *)
(* that change them.  Every function runs in one transaction and holds the *)
(* locks of the rows it decides on, so each is one atomic action here (the *)
(* order in which the locks are taken is not modelled).  A guard is the    *)
(* function's conditions; a call whose guard is false raises or replays an *)
(* answer and changes nothing.                                             *)
(*                                                                         *)
(* The callers are arbitrary: any job, any claim token, any generation and *)
(* any part of a job's proposals.  AnalysisPipeline adds the callers the   *)
(* code has.  A dispatch reservation token is only ever compared together  *)
(* with the generation it was drawn for, so the generation stands for both.*)
(***************************************************************************)
EXTENDS AnalysisDag, Integers

CONSTANTS
    PaidJobs,              \* the jobs whose stage starts a paid provider run
    Tokens,                \* claim tokens
    NoToken,
    NoJob,
    MaxAttempts,           \* the claim limit, 7 for every job
    FinalizerMaxAttempts,  \* the release limit of the finalizer, 20
    MaxGen                 \* dispatch_generation <= 1000

ASSUME LedgerAssumption ==
    /\ PaidJobs \subseteq Jobs \ {Bootstrap, Finalizer}
    /\ NoToken \notin Tokens
    /\ NoJob \notin Jobs
    /\ MaxAttempts \in Nat \ {0}
    /\ FinalizerMaxAttempts \in Nat \ {0}
    /\ MaxGen \in Nat \ {0}

VARIABLES
    outcome,     \* analysis_requests.status; pending and processing are "active"
    status,      \* analysis_pipeline_jobs.status, "absent" before the insert
    dispatch,    \* dispatch_state
    gen,         \* dispatch_generation and its reservation token
    attempts,    \* attempt_count
    lease,       \* lease_token
    live,        \* lease_expires_at > now
    intent,      \* the row of analysis_v2_provider_cleanup_intents
    runStatus,   \* the provider run of each job; "none" before the insert
    runToken,    \* its job_claim_token
    resolved,    \* the jobs whose unconfirmed start an operator resolved
    manifests,   \* the jobs with a persisted checkpoint
    fanout       \* what each completed job proposed (completion_fanout_hash)

rowVars == <<status, dispatch, gen, attempts, lease, live>>
runVars == <<runStatus, runToken, resolved>>
ledgerVars == <<outcome, rowVars, intent, runVars, manifests, fanout>>

-----------------------------------------------------------------------------
Statuses == {"absent", "pending", "processing", "completed", "failed", "cancelled"}
Dispatches == {"pending", "reserved", "enqueued", "delivered"}
RunStatuses == {"none", "starting", "running", "terminal", "rejected"}
Codes == {"stage", "exhausted"}

NoIntent ==
    [job |-> NoJob, token |-> NoToken, code |-> "stage", open |-> FALSE, taken |-> FALSE]
Intents ==
    [job : Jobs, token : Tokens, code : Codes, open : BOOLEAN, taken : BOOLEAN]

Active == outcome = "active"
Completed == {j \in Jobs : status[j] = "completed"}
Holds(j, t) == status[j] = "processing" /\ lease[j] = t /\ live[j]
OwnIntent(j) == intent.open /\ intent.job = j
(* Definitions whose comment begins with "Broken" are never used: each is  *)
(* a plausible bug in the definition that follows, put in its place to see *)
(* that TLC reports it.                                                    *)

(* Broken: a start without an answer is forgotten.                         *)
UnsettledRunning(j) == runStatus[j] = "running"

(* A paid run that may still be charging: running, or started without an   *)
(* answer and without an operator's confirmation that nothing runs.        *)
Unsettled(j) ==
    runStatus[j] = "running" \/ (runStatus[j] = "starting" /\ j \notin resolved)
ReleaseLimit(j) == IF j = Finalizer THEN FinalizerMaxAttempts ELSE MaxAttempts

-----------------------------------------------------------------------------
Init ==
    /\ outcome = "active"
    /\ status = [j \in Jobs |-> IF j = Bootstrap THEN "pending" ELSE "absent"]
    /\ dispatch = [j \in Jobs |-> "pending"]
    /\ gen = [j \in Jobs |-> 0]
    /\ attempts = [j \in Jobs |-> 0]
    /\ lease = [j \in Jobs |-> NoToken]
    /\ live = [j \in Jobs |-> FALSE]
    /\ intent = NoIntent
    /\ runStatus = [j \in Jobs |-> "none"]
    /\ runToken = [j \in Jobs |-> NoToken]
    /\ resolved = {}
    /\ manifests = {}
    /\ fanout = [j \in Jobs |-> {}]

-----------------------------------------------------------------------------
(* Dispatch: the transactional outbox of Cloud Tasks deliveries.           *)

Reserve(j) ==
    /\ Active /\ status[j] = "pending" /\ dispatch[j] = "pending"
    /\ dispatch' = [dispatch EXCEPT ![j] = "reserved"]
    /\ gen' = [gen EXCEPT ![j] = 1]
    /\ UNCHANGED <<outcome, status, attempts, lease, live, intent, runVars, manifests, fanout>>

MarkDispatched(j, g) ==
    /\ Active /\ status[j] = "pending" /\ dispatch[j] = "reserved" /\ gen[j] = g
    /\ dispatch' = [dispatch EXCEPT ![j] = "enqueued"]
    /\ UNCHANGED <<outcome, status, gen, attempts, lease, live, intent, runVars, manifests, fanout>>

(* Broken: the old lease token stays on the row.                           *)
UnclaimKeepingLease(j) ==
    /\ status' = [status EXCEPT ![j] = "pending"]
    /\ live' = [live EXCEPT ![j] = FALSE]
    /\ UNCHANGED lease

(* The row goes back to pending without a lease.                           *)
Unclaim(j) ==
    /\ status' = [status EXCEPT ![j] = "pending"]
    /\ lease' = [lease EXCEPT ![j] = NoToken]
    /\ live' = [live EXCEPT ![j] = FALSE]

NextGeneration(j) ==
    /\ gen[j] < MaxGen
    /\ gen' = [gen EXCEPT ![j] = @ + 1]
    /\ dispatch' = [dispatch EXCEPT ![j] = "reserved"]

(* Broken: the status of the job is not looked at.                         *)
ClaimableInAnyStatus(j, g) ==
    Active /\ gen[j] = g /\ dispatch[j] \in {"enqueued", "delivered"} /\ ~live[j]

(* Broken: an expired lease is not claimed again.                          *)
ClaimableWhenPending(j, g) ==
    Active /\ gen[j] = g /\ dispatch[j] \in {"enqueued", "delivered"} /\ status[j] = "pending"

(* The task was delivered or should have been, and nobody holds the job.   *)
Claimable(j, g) ==
    /\ Active /\ gen[j] = g
    /\ dispatch[j] \in {"enqueued", "delivered"}
    /\ status[j] = "pending" \/ (status[j] = "processing" /\ ~live[j])

Rearm(j, g) ==
    /\ Claimable(j, g)
    /\ NextGeneration(j) /\ Unclaim(j)
    /\ UNCHANGED <<outcome, attempts, intent, runVars, manifests, fanout>>

-----------------------------------------------------------------------------
(* Claims and leases.                                                      *)

Lease(j, t) ==
    /\ status' = [status EXCEPT ![j] = "processing"]
    /\ dispatch' = [dispatch EXCEPT ![j] = "delivered"]
    /\ lease' = [lease EXCEPT ![j] = t]
    /\ live' = [live EXCEPT ![j] = TRUE]

AttemptsLeft(j) == attempts[j] < MaxAttempts

ClaimAttempt(j, t, g) ==
    /\ Claimable(j, g) /\ AttemptsLeft(j)
    /\ Lease(j, t)
    /\ attempts' = [attempts EXCEPT ![j] = @ + 1]
    /\ UNCHANGED <<outcome, gen, intent, runVars, manifests, fanout>>

(* The last attempt died without an answer: the claim itself opens the     *)
(* failure intent.  With an open intent of its own the job is not claimed  *)
(* (20260830102000 returns claimed = FALSE); with any other intent the     *)
(* insert conflicts and the whole claim rolls back.                        *)
ClaimExhausted(j, t, g) ==
    /\ Claimable(j, g) /\ ~AttemptsLeft(j)
    /\ intent = NoIntent
    /\ Lease(j, t)
    /\ intent' = [job |-> j, token |-> t, code |-> "exhausted", open |-> TRUE, taken |-> FALSE]
    /\ UNCHANGED <<outcome, gen, attempts, runVars, manifests, fanout>>

(* A delivery that finds the lease busy may replace the lease of a failure *)
(* owner that crashed, if no paid run is left to settle.                   *)
Takeover(j, t, g) ==
    /\ Active /\ gen[j] = g /\ OwnIntent(j)
    /\ status[j] = "processing" /\ lease[j] = intent.token /\ lease[j] # t
    /\ \A k \in Jobs : ~Unsettled(k)
    /\ ~(intent.taken /\ live[j])
    /\ lease' = [lease EXCEPT ![j] = t]
    /\ live' = [live EXCEPT ![j] = TRUE]
    /\ intent' = [intent EXCEPT !.token = t, !.taken = TRUE]
    /\ UNCHANGED <<outcome, status, dispatch, gen, attempts, runVars, manifests, fanout>>

Release(j, t) ==
    /\ Holds(j, t) /\ attempts[j] < ReleaseLimit(j)
    /\ Unclaim(j)
    /\ UNCHANGED <<outcome, dispatch, gen, attempts, intent, runVars, manifests, fanout>>

DeferCleanup(j, t) ==
    /\ Active /\ Holds(j, t) /\ intent.open
    /\ Unclaim(j)
    /\ UNCHANGED <<outcome, dispatch, gen, attempts, intent, runVars, manifests, fanout>>

(* Broken: a wait is charged as an attempt.                                *)
RefundNothing(j) == UNCHANGED attempts

(* A wait gives back the attempt that its claim took.                      *)
Refund(j) ==
    /\ attempts[j] >= 1
    /\ attempts' = [attempts EXCEPT ![j] = @ - 1]

DeferAiCapacity(j, t) ==
    /\ Active /\ Holds(j, t)
    /\ Unclaim(j) /\ Refund(j)
    /\ UNCHANGED <<outcome, dispatch, gen, intent, runVars, manifests, fanout>>

ContinueScheduler(j, t) ==
    /\ Active /\ Holds(j, t)
    /\ NextGeneration(j) /\ Unclaim(j) /\ Refund(j)
    /\ UNCHANGED <<outcome, intent, runVars, manifests, fanout>>

(* lease_expires_at passes.                                                *)
ExpireLease(j) ==
    /\ live[j]
    /\ live' = [live EXCEPT ![j] = FALSE]
    /\ UNCHANGED <<outcome, status, dispatch, gen, attempts, lease, intent, runVars, manifests, fanout>>

-----------------------------------------------------------------------------
(* Completion.                                                             *)

Checkpoint(j, t) ==
    /\ Active /\ Holds(j, t) /\ j # Finalizer
    /\ j = Bootstrap \/ Bootstrap \in manifests
    /\ manifests' = manifests \cup {j}
    /\ UNCHANGED <<outcome, rowVars, intent, runVars, fanout>>

(* Broken: the dependencies of a proposed job are not checked.             *)
InsertedUnchecked(j, proposed) == {k \in proposed : status[k] = "absent"}

(* The proposed rows that this completion of j inserts.                    *)
Inserted(j, proposed) ==
    {k \in proposed : status[k] = "absent" /\ Requires[k] \subseteq Completed \cup {j}}

(* The finalizer completes through CompleteResult only: its executor calls *)
(* that before the worker calls complete_and_fanout, which then replays.   *)
CompleteAndFanout(j, t, proposed) ==
    /\ Active /\ Holds(j, t) /\ j # Finalizer
    /\ status' = [k \in Jobs |->
           IF k = j THEN "completed"
           ELSE IF k \in Inserted(j, proposed) THEN "pending" ELSE status[k]]
    /\ lease' = [lease EXCEPT ![j] = NoToken]
    /\ live' = [live EXCEPT ![j] = FALSE]
    /\ fanout' = [fanout EXCEPT ![j] = proposed]
    /\ UNCHANGED <<outcome, dispatch, gen, attempts, intent, runVars, manifests>>

(* The same call again, with the same claim token and the same proposals:  *)
(* it looks at the dependencies again, and may insert what it could not    *)
(* the first time.                                                         *)
ReplayFanout(j) ==
    /\ Active /\ status[j] = "completed"
    /\ status' = [k \in Jobs |->
           IF k \in Inserted(j, fanout[j]) THEN "pending" ELSE status[k]]
    /\ UNCHANGED <<outcome, dispatch, gen, attempts, lease, live, intent, runVars, manifests,
                   fanout>>

JobsReady ==
    /\ \A j \in Jobs \ {Finalizer} : status[j] \in {"absent", "completed"}
    /\ Requires[Finalizer] \subseteq Completed
NoRunIsOpen == \A j \in Jobs : runStatus[j] \notin {"starting", "running"}

(* Broken: a failure that is being cleaned up is not looked at.            *)
ResultReadyDespiteIntent == JobsReady /\ NoRunIsOpen

(* Broken: paid runs are not looked at.                                    *)
ResultReadyDespiteRuns == JobsReady /\ ~intent.open

ResultReady == JobsReady /\ NoRunIsOpen /\ ~intent.open

CompleteResult(t) ==
    /\ Active /\ Holds(Finalizer, t) /\ ResultReady
    /\ outcome' = "completed"
    /\ status' = [status EXCEPT ![Finalizer] = "completed"]
    /\ lease' = [lease EXCEPT ![Finalizer] = NoToken]
    /\ live' = [live EXCEPT ![Finalizer] = FALSE]
    /\ UNCHANGED <<dispatch, gen, attempts, intent, runVars, manifests, fanout>>

-----------------------------------------------------------------------------
(* Terminal failure.                                                       *)

(* Broken: a later failure replaces the code of the first.                 *)
RequestCleanupAnew(j, t, c) ==
    /\ Active /\ Holds(j, t)
    /\ intent = NoIntent \/ OwnIntent(j)
    /\ intent' = [job |-> j, token |-> t, code |-> c, open |-> TRUE, taken |-> intent.taken]
    /\ UNCHANGED <<outcome, rowVars, runVars, manifests, fanout>>

RequestCleanup(j, t, c) ==
    /\ Active /\ Holds(j, t)
    /\ \/ /\ intent = NoIntent
          /\ intent' = [job |-> j, token |-> t, code |-> c, open |-> TRUE, taken |-> FALSE]
       \/ /\ OwnIntent(j) /\ intent.code = c
          /\ intent' = [intent EXCEPT !.token = t]
    /\ UNCHANGED <<outcome, rowVars, runVars, manifests, fanout>>

FailRequest(j, t) ==
    /\ Active /\ Holds(j, t)
    /\ OwnIntent(j) /\ intent.token = t
    /\ \A k \in Jobs : ~Unsettled(k)
    /\ outcome' = "failed"
    /\ status' = [k \in Jobs |->
           IF k = j THEN "failed"
           ELSE IF status[k] \in {"pending", "processing"} THEN "cancelled" ELSE status[k]]
    /\ lease' = [k \in Jobs |-> NoToken]
    /\ live' = [k \in Jobs |-> FALSE]
    /\ intent' = [intent EXCEPT !.open = FALSE]
    /\ UNCHANGED <<dispatch, gen, attempts, runVars, manifests, fanout>>

-----------------------------------------------------------------------------
(* Paid provider runs, one operation for each job.                         *)

(* The first call inserts the run, a later one hands it to the new claim.  *)
ReserveRun(j, t) ==
    /\ j \in PaidJobs
    /\ Active /\ Holds(j, t) /\ ~intent.open
    /\ runStatus' = [runStatus EXCEPT ![j] = IF @ = "none" THEN "starting" ELSE @]
    /\ runToken' = [runToken EXCEPT ![j] = t]
    /\ UNCHANGED <<outcome, rowVars, intent, resolved, manifests, fanout>>

StartRun(j, t) ==
    /\ Active /\ Holds(j, t)
    /\ runStatus[j] = "starting" /\ runToken[j] = t
    /\ runStatus' = [runStatus EXCEPT ![j] = "running"]
    /\ UNCHANGED <<outcome, rowVars, intent, runToken, resolved, manifests, fanout>>

(* Needs the claim that is written on the run, not a live lease.           *)
FinishRun(j, t) ==
    /\ runStatus[j] = "running" /\ runToken[j] = t
    /\ runStatus' = [runStatus EXCEPT ![j] = "terminal"]
    /\ UNCHANGED <<outcome, rowVars, intent, runToken, resolved, manifests, fanout>>

RejectRun(j, t) ==
    /\ Active
    /\ runStatus[j] = "starting" /\ runToken[j] = t
    /\ runStatus' = [runStatus EXCEPT ![j] = "rejected"]
    /\ UNCHANGED <<outcome, rowVars, intent, runToken, resolved, manifests, fanout>>

SettleRun(j) ==
    /\ intent.open /\ runStatus[j] = "running"
    /\ runStatus' = [runStatus EXCEPT ![j] = "terminal"]
    /\ UNCHANGED <<outcome, rowVars, intent, runToken, resolved, manifests, fanout>>

(* Everything is quiet: the job that failed still holds the claim written  *)
(* on the intent, and that claim and every other one have run out.         *)
ResolutionReady ==
    /\ Active /\ intent.open
    /\ status[intent.job] = "processing" /\ lease[intent.job] = intent.token
    /\ \A k \in Jobs : ~live[k]

(* The database owner records that an unconfirmed start left no run.       *)
ResolveStart(j) ==
    /\ ResolutionReady /\ runStatus[j] = "starting"
    /\ resolved' = resolved \cup {j}
    /\ UNCHANGED <<outcome, rowVars, intent, runStatus, runToken, manifests, fanout>>

-----------------------------------------------------------------------------
DispatchStep(j) ==
    \/ Reserve(j)
    \/ \E g \in 1..MaxGen : MarkDispatched(j, g) \/ Rearm(j, g)

ClaimStep(j) ==
    \/ ExpireLease(j)
    \/ \E t \in Tokens :
          \/ \E g \in 1..MaxGen :
                ClaimAttempt(j, t, g) \/ ClaimExhausted(j, t, g) \/ Takeover(j, t, g)
          \/ Release(j, t) \/ DeferCleanup(j, t)
          \/ DeferAiCapacity(j, t) \/ ContinueScheduler(j, t)

SettleStep(j) ==
    \/ ReplayFanout(j)
    \/ \E t \in Tokens :
          \/ Checkpoint(j, t)
          \/ \E proposed \in SUBSET Proposals(j) : CompleteAndFanout(j, t, proposed)
          \/ \E c \in Codes : RequestCleanup(j, t, c)
          \/ FailRequest(j, t)

RunStep(j) ==
    \/ SettleRun(j) \/ ResolveStart(j)
    \/ \E t \in Tokens : ReserveRun(j, t) \/ StartRun(j, t) \/ FinishRun(j, t) \/ RejectRun(j, t)

Next ==
    \/ \E j \in Jobs : DispatchStep(j) \/ ClaimStep(j) \/ SettleStep(j) \/ RunStep(j)
    \/ \E t \in Tokens : CompleteResult(t)

Spec == Init /\ [][Next]_ledgerVars

-----------------------------------------------------------------------------
(* Every variable has the values its column may take.                      *)
TypeOK ==
    /\ outcome \in {"active", "completed", "failed"}
    /\ status \in [Jobs -> Statuses]
    /\ dispatch \in [Jobs -> Dispatches]
    /\ gen \in [Jobs -> 0..MaxGen]
    /\ attempts \in [Jobs -> 0..MaxAttempts]
    /\ lease \in [Jobs -> Tokens \cup {NoToken}]
    /\ live \in [Jobs -> BOOLEAN]
    /\ intent \in Intents \cup {NoIntent}
    /\ runStatus \in [Jobs -> RunStatuses]
    /\ runToken \in [Jobs -> Tokens \cup {NoToken}]
    /\ resolved \subseteq Jobs
    /\ manifests \subseteq Jobs
    /\ fanout \in [Jobs -> SUBSET Jobs]

(* No sequence of calls drives a row into the constraints on its lease or  *)
(* its dispatch (lease_check and dispatch_pair_check of                    *)
(* analysis_pipeline_jobs), which would turn a legal call into a database  *)
(* error: a lease exactly while the job is processing, and only on a       *)
(* delivered dispatch; generation 0 exactly before the first reservation;  *)
(* a row that does not exist yet carries nothing.  The constraints on      *)
(* timestamps, hashes and error codes are abstracted with these columns;   *)
(* the one on attempt_count is part of TypeOK.                             *)
RowChecks ==
    \A j \in Jobs :
       /\ (status[j] = "processing") = (lease[j] # NoToken)
       /\ status[j] = "processing" => dispatch[j] = "delivered"
       /\ live[j] => status[j] = "processing"
       /\ (dispatch[j] = "pending") = (gen[j] = 0)
       /\ status[j] = "absent" => dispatch[j] = "pending" /\ attempts[j] = 0

(* A job exists only after every job it requires has completed, whichever  *)
(* part of its proposals each predecessor sent and in whatever order they  *)
(* completed.                                                              *)
DependencyOrder ==
    \A j \in Jobs : status[j] # "absent" => Requires[j] \subseteq Completed

(* The request row and its job rows agree on how the request ended: it is  *)
(* completed exactly when the finalizer is, it failed exactly when the     *)
(* owner of the closed intent failed, and nothing is left to run.          *)
OutcomeAgrees ==
    /\ (outcome = "completed") = (status[Finalizer] = "completed")
    /\ outcome = "completed" => intent = NoIntent
    /\ (outcome = "failed") = (intent # NoIntent /\ ~intent.open)
    /\ \A j \in Jobs : status[j] = "failed" => outcome = "failed" /\ intent.job = j
    /\ outcome = "failed" => status[intent.job] = "failed"
    /\ ~Active => \A j \in Jobs : status[j] \notin {"pending", "processing"}

(* Once the request is over no paid run of it can still be charging: no    *)
(* run is running, and none is starting without an operator's word.        *)
NothingChargesAfterTheEnd ==
    ~Active => \A j \in Jobs : ~Unsettled(j)

(* A settled job is never touched again, and a paid run that reached a     *)
(* terminal state is never reopened by a retry of its job.                 *)
SettledKept ==
    \A j \in Jobs :
       /\ status[j] \in {"completed", "failed", "cancelled"} => status'[j] = status[j]
       /\ runStatus[j] \in {"terminal", "rejected"} => runStatus'[j] = runStatus[j]

SettledStaysSettled == [][SettledKept]_ledgerVars

(* A failure is charged once: whoever cleans up later, the intent keeps    *)
(* its job and its error code, and a closed intent is never reopened.      *)
FailureKept ==
    intent # NoIntent =>
       /\ intent'.job = intent.job /\ intent'.code = intent.code
       /\ ~intent.open => intent' = intent

FailureChargedOnce == [][FailureKept]_ledgerVars

(* The ledger keeps the promises of RequestLifecycle.                      *)
Phase ==
    CASE outcome = "completed" -> "published"
      [] outcome = "failed" -> "failed"
      [] Active /\ intent.open -> "failing"
      [] OTHER -> "running"

Lifecycle == INSTANCE RequestLifecycle WITH
    phase <- Phase, done <- Completed, owner <- intent.job

ImplementsLifecycle == Lifecycle!Spec
=============================================================================
