-------------------------- MODULE ProviderAdmission --------------------------
(***************************************************************************)
(* The database-global admission of provider starts: one lease row for     *)
(* each durable operation, counted against every budget that covers it,    *)
(* and the workers that wrap it around the provider-run ledger of the      *)
(* operation.  Each step is one database function or one remote call.      *)
(*                                                                         *)
(* An operation belongs to a durable job whose claim can expire and be     *)
(* claimed again, so several workers may act for it at once, all but one   *)
(* with a claim that is gone.  A lease token is drawn anew exactly when    *)
(* the fence advances, so the fence stands for both.  Time is abstract: a  *)
(* lease that is renewed is one that does not expire unless its holder     *)
(* stalls.  The rate window is a refusal that may happen.                  *)
(***************************************************************************)
EXTENDS Integers, FiniteSets

CONSTANTS
    Ops,          \* durable provider operations, one of each job
    Budgets,      \* the budget rows of a workload role and provider
    Covers,       \* the operations that each budget counts
    MaxActive,    \* the ceiling of each budget
    Procs,        \* concurrently running workers
    Tokens,       \* claim tokens
    NoToken,
    NoOp,
    MaxAttempts,  \* handler attempts of each job
    MaxFaults     \* bound: crashes, stalls, errors and lost answers

ASSUME AdmissionAssumption ==
    /\ IsFiniteSet(Ops) /\ NoOp \notin Ops /\ NoToken \notin Tokens
    /\ Covers \in [Budgets -> SUBSET Ops] /\ MaxActive \in [Budgets -> Nat]
    /\ MaxAttempts \in [Ops -> Nat] /\ MaxFaults \in Nat

VARIABLES
    (* analysis_provider_admission_leases *)
    state,     \* "none" when there is no row
    fence,
    holder,    \* the claim it was acquired with
    live,      \* it has not expired
    reason,    \* why it was released
    (* analysis_v2_provider_runs *)
    status,    \* "none" when there is no row
    runner,    \* the claim written on the run
    (* the job of the operation *)
    claim,     \* its live claim
    attempts,  \* its charged attempts
    open,      \* it may still be claimed and start paid work
    (* the workers *)
    pc,
    op,        \* the operation it works on
    token,     \* its claim
    known,     \* the fence of the lease it has, or 0
    next,      \* what follows an acquire or a release
    (* the rest of the world *)
    actor,     \* operations whose Actor is running at the provider
    faults     \* what is left of MaxFaults

rowVars == <<state, fence, holder, live, reason>>
runVars == <<status, runner>>
jobVars == <<claim, attempts, open>>
workVars == <<pc, op, token, known, next>>
vars == <<rowVars, runVars, jobVars, workVars, actor, faults>>

-----------------------------------------------------------------------------
AdmissionInit ==
    /\ state = [o \in Ops |-> "none"] /\ fence = [o \in Ops |-> 0]
    /\ holder = [o \in Ops |-> NoToken] /\ live = [o \in Ops |-> FALSE]
    /\ reason = [o \in Ops |-> "none"]
    /\ status = [o \in Ops |-> "none"] /\ runner = [o \in Ops |-> NoToken]
    /\ claim = [o \in Ops |-> NoToken] /\ attempts = [o \in Ops |-> 0]
    /\ open = [o \in Ops |-> TRUE]
    /\ pc = [p \in Procs |-> "idle"] /\ op = [p \in Procs |-> NoOp]
    /\ token = [p \in Procs |-> NoToken] /\ known = [p \in Procs |-> 0]
    /\ next = [p \in Procs |-> "none"]
    /\ actor = {} /\ faults = MaxFaults

At(p, point) == pc[p] = point

Step(p, point, k, n) ==
    /\ pc' = [pc EXCEPT ![p] = point]
    /\ known' = [known EXCEPT ![p] = k]
    /\ next' = [next EXCEPT ![p] = n]
    /\ UNCHANGED <<op, token>>

Stop(p) ==
    /\ pc' = [pc EXCEPT ![p] = "idle"]
    /\ known' = [known EXCEPT ![p] = 0]
    /\ next' = [next EXCEPT ![p] = "none"]
    /\ op' = [op EXCEPT ![p] = NoOp]
    /\ token' = [token EXCEPT ![p] = NoToken]

Fault == faults > 0 /\ faults' = faults - 1

(* The job row is processing under this claim and its lease has not run out. *)
Holds(o, t) == claim[o] = t /\ t # NoToken
Owns(p) == Holds(op[p], token[p])

(* A token that nothing remembers: claims draw random UUIDs.               *)
UsedTokens(o) == {holder[o], runner[o]} \cup {token[p] : p \in {q \in Procs : op[q] = o}}
FreshToken(o) == CHOOSE t \in Tokens : t \notin UsedTokens(o)

-----------------------------------------------------------------------------
(* The lease row.                                                          *)

(* An expired lease keeps its place until the ledger proves that the       *)
(* provider stopped.                                                       *)
Held == {o \in Ops : state[o] \in {"leased", "recovery_required"}}

(* Broken: a lease that waits for recovery is not counted.                 *)
HasCapacityUnexpired(o) ==
    \A b \in Budgets : o \in Covers[b] =>
        Cardinality({x \in Covers[b] : state[x] = "leased"}) < MaxActive[b]

HasCapacity(o) ==
    \A b \in Budgets : o \in Covers[b] => Cardinality(Held \cap Covers[b]) < MaxActive[b]

(* Broken: a missing run is taken as proof whatever the claim.             *)
LedgerStateUnclaimed(o) ==
    CASE status[o] = "none" -> "missing"
      [] status[o] = "running" -> "running"
      [] status[o] \in {"terminal", "rejected"} -> "terminal"
      [] OTHER -> "pending"

(* Broken: a reserved start counts as one that never happened.             *)
LedgerStateUnstarted(o) ==
    CASE status[o] = "none" -> IF Holds(o, holder[o]) THEN "pending" ELSE "missing"
      [] status[o] = "running" -> "running"
      [] status[o] \in {"terminal", "rejected"} -> "terminal"
      [] OTHER -> "missing"

(* Without a run the operation cannot start any more once the claim that   *)
(* was admitted is gone.                                                   *)
LedgerState(o) ==
    CASE status[o] = "none" -> IF Holds(o, holder[o]) THEN "pending" ELSE "missing"
      [] status[o] = "running" -> "running"
      [] status[o] \in {"terminal", "rejected"} -> "terminal"
      [] OTHER -> "pending"

Settled(o) == LedgerState(o) \in {"terminal", "missing"}

Live(o) == state[o] = "leased" /\ live[o]
Expired(o) == state[o] = "leased" /\ ~live[o]

(* The operation's run is taken over with the place it already has.        *)
CanAdopt(o, t) ==
    /\ LedgerState(o) = "running"
    /\ state[o] = "recovery_required" \/ (Live(o) /\ holder[o] # t)

(* A place nobody has had, or one given back before the start.             *)
CanInsert(o) ==
    \/ state[o] = "none"
    \/ state[o] = "released" /\ reason[o] = "prestart_rejected" /\ Settled(o)

AcquireAnswer(o, t) ==
    IF ~Holds(o, t) THEN "conflict"
    ELSE IF Live(o) /\ holder[o] = t THEN "again"
    ELSE IF CanAdopt(o, t) THEN "adopted"
    ELSE IF CanInsert(o) THEN IF HasCapacity(o) THEN "acquired" ELSE "capacity"
    ELSE IF o \in Held THEN IF Live(o) THEN "conflict" ELSE "capacity"
    ELSE IF reason[o] = "prestart_rejected" THEN "conflict" ELSE "identity"

(* Broken: an adopted lease keeps the fence of its former owner.           *)
InstallUnfenced(o, t) ==
    /\ state' = [state EXCEPT ![o] = "leased"]
    /\ fence' = [fence EXCEPT ![o] = IF @ = 0 THEN 1 ELSE @]
    /\ holder' = [holder EXCEPT ![o] = t]
    /\ live' = [live EXCEPT ![o] = TRUE]
    /\ reason' = [reason EXCEPT ![o] = "none"]

Install(o, t) ==
    /\ state' = [state EXCEPT ![o] = "leased"]
    /\ fence' = [fence EXCEPT ![o] = @ + 1]
    /\ holder' = [holder EXCEPT ![o] = t]
    /\ live' = [live EXCEPT ![o] = TRUE]
    /\ reason' = [reason EXCEPT ![o] = "none"]

AcquireRow(o, t) ==
    IF AcquireAnswer(o, t) \in {"acquired", "adopted"} THEN Install(o, t) ELSE UNCHANGED rowVars

(* A release by its owner: "fence" when the lease is somebody else's now.  *)
ReleaseAnswer(o, k) ==
    IF fence[o] # k \/ state[o] = "recovery_required" THEN "fence"
    ELSE IF state[o] = "released" \/ Settled(o) THEN "released" ELSE "conflict"

FreeRow(o, why) ==
    /\ state' = [state EXCEPT ![o] = "released"]
    /\ live' = [live EXCEPT ![o] = FALSE]
    /\ reason' = [reason EXCEPT ![o] = why]
    /\ UNCHANGED <<fence, holder>>

ReleaseRow(o, k, why) ==
    IF ReleaseAnswer(o, k) = "released" /\ state[o] = "leased"
    THEN FreeRow(o, why) ELSE UNCHANGED rowVars

(* recover_expired: the fence of the holder is taken away.                 *)
RecoverRow(o) ==
    /\ Expired(o)
    /\ state' = [state EXCEPT ![o] = "recovery_required"]
    /\ fence' = [fence EXCEPT ![o] = @ + 1]
    /\ UNCHANGED <<holder, live, reason>>

CanResolve(o) == state[o] = "recovery_required" /\ Settled(o)

(* Broken: an operation that never got a run is not resolved.              *)
ResolveRowWithRun(o) ==
    CanResolve(o) /\ LedgerState(o) = "terminal" /\ FreeRow(o, "ledger_resolved")

(* resolve: the ledger proves that the place is free.                      *)
ResolveRow(o) == CanResolve(o) /\ FreeRow(o, "ledger_resolved")

-----------------------------------------------------------------------------
(* The job of an operation.                                                *)

DropClaim(p) ==
    claim' = IF Owns(p) THEN [claim EXCEPT ![op[p]] = NoToken] ELSE claim

(* A retryable error: the claim is given back and its attempt is spent.    *)
Retry(p) ==
    /\ DropClaim(p) /\ Stop(p)
    /\ UNCHANGED <<attempts, open>>

(* A capacity wait: the attempt is given back too.                         *)
Defer(p) ==
    /\ DropClaim(p) /\ Stop(p)
    /\ attempts' = IF Owns(p) THEN [attempts EXCEPT ![op[p]] = @ - 1] ELSE attempts
    /\ UNCHANGED open

(* A permanent error, or the result: the job starts no more work.          *)
EndJob(p) ==
    /\ DropClaim(p) /\ Stop(p)
    /\ open' = IF Owns(p) THEN [open EXCEPT ![op[p]] = FALSE] ELSE open
    /\ UNCHANGED attempts

ClaimJob(p, o) ==
    LET t == FreshToken(o) IN
    /\ At(p, "idle") /\ open[o] /\ claim[o] = NoToken /\ attempts[o] < MaxAttempts[o]
    /\ t \in Tokens \ UsedTokens(o)
    /\ claim' = [claim EXCEPT ![o] = t]
    /\ attempts' = [attempts EXCEPT ![o] = @ + 1]
    /\ pc' = [pc EXCEPT ![p] = "bind"]
    /\ op' = [op EXCEPT ![p] = o]
    /\ token' = [token EXCEPT ![p] = t]
    /\ UNCHANGED <<rowVars, runVars, open, known, next, actor, faults>>

(* The attempts are used up: the job fails.                                *)
ExhaustJob(o) ==
    /\ open[o] /\ claim[o] = NoToken /\ attempts[o] >= MaxAttempts[o]
    /\ open' = [open EXCEPT ![o] = FALSE]
    /\ UNCHANGED <<rowVars, runVars, claim, attempts, actor, workVars, faults>>

(* Another job of the request fails: no paid start any more.               *)
RequestFails(o) ==
    /\ open[o] /\ Fault
    /\ open' = [open EXCEPT ![o] = FALSE]
    /\ UNCHANGED <<rowVars, runVars, claim, attempts, actor, workVars>>

-----------------------------------------------------------------------------
(* A worker: the provider-run binding and the admission wrapped around it. *)

(* reserve: creates the run, or writes the caller's claim on it.           *)
ReserveRun(o, t) ==
    /\ Holds(o, t) /\ open[o]
    /\ status' = [status EXCEPT ![o] = IF @ = "none" THEN "starting" ELSE @]
    /\ runner' = [runner EXCEPT ![o] = t]

(* The claim on the run is the worker's: its status may be written.        *)
WriteStatus(p, from, to) ==
    /\ status[op[p]] = from /\ runner[op[p]] = token[p]
    /\ status' = [status EXCEPT ![op[p]] = to]
    /\ UNCHANGED runner

(* bindAdapterCheckpoint: a run that is there already is reserved again, and *)
(* one that did not end is admitted before anything else.  A start without *)
(* an answer is never repeated.                                            *)
Bind(p) ==
    LET s == status[op[p]] IN
    /\ At(p, "bind")
    /\ IF s = "none" THEN UNCHANGED runVars ELSE ReserveRun(op[p], token[p])
    /\ \/ s = "none" /\ Step(p, "acquire", 0, "reserve")
       \/ s = "starting" /\ Step(p, "acquire", 0, "fail")
       \/ s = "running" /\ Step(p, "acquire", 0, "poll")
       \/ s = "terminal" /\ Step(p, "save", 0, "none")
       \/ s = "rejected" /\ Step(p, "fail", 0, "none")
    /\ UNCHANGED <<rowVars, jobVars, actor, faults>>

Acquire(p) ==
    /\ At(p, "acquire")
    /\ AcquireAnswer(op[p], token[p]) \in {"acquired", "again", "adopted"}
    /\ AcquireRow(op[p], token[p])
    /\ Step(p, next[p], fence'[op[p]], "none")
    /\ UNCHANGED <<runVars, jobVars, actor, faults>>

(* The admission is given, the answer is lost: it is asked for once more,  *)
(* and if that answer is lost too the error is retryable.                  *)
AcquireUnanswered(p) ==
    /\ At(p, "acquire") /\ Fault
    /\ AcquireRow(op[p], token[p])
    /\ Retry(p) \/ UNCHANGED <<workVars, jobVars>>
    /\ UNCHANGED <<runVars, actor>>

(* The rate window is full: some operation was admitted in this minute.    *)
RateLimited(o) ==
    AcquireAnswer(o, claim[o]) = "acquired" /\ \E x \in Ops : state[x] # "none"

(* No place, or too many starts in this minute.  Before a start the Actor  *)
(* adapter reports every refusal as a failed reservation, which is         *)
(* retryable; when a run is resumed a refusal keeps its own meaning.       *)
AcquireWaits(p) ==
    /\ At(p, "acquire")
    /\ AcquireAnswer(op[p], token[p]) = "capacity" \/ (Owns(p) /\ RateLimited(op[p]))
    /\ IF next[p] = "reserve" THEN Retry(p) ELSE Defer(p)
    /\ UNCHANGED <<rowVars, runVars, actor, faults>>

AcquireRefused(p) ==
    /\ At(p, "acquire") /\ AcquireAnswer(op[p], token[p]) \in {"conflict", "identity"}
    /\ IF next[p] = "reserve" THEN Retry(p) ELSE EndJob(p)
    /\ UNCHANGED <<rowVars, runVars, actor, faults>>

(* Only the worker whose reservation made the run starts the Actor.        *)
Reserve(p) ==
    /\ At(p, "reserve")
    /\ ReserveRun(op[p], token[p])
    /\ IF status[op[p]] = "none"
       THEN Step(p, "post", known[p], "none") ELSE Step(p, "release", known[p], "retry")
    /\ UNCHANGED <<rowVars, jobVars, actor, faults>>

(* The claim is gone, or the reservation is not answered, made or not.     *)
ReserveFails(p) ==
    /\ At(p, "reserve")
    /\ \/ ~(Owns(p) /\ open[op[p]]) /\ UNCHANGED <<runVars, faults>>
       \/ Fault /\ (ReserveRun(op[p], token[p]) \/ UNCHANGED runVars)
    /\ Step(p, "release", known[p], "retry")
    /\ UNCHANGED <<rowVars, jobVars, actor>>

PostAccepted(p) ==
    /\ At(p, "post")
    /\ actor' = actor \cup {op[p]}
    /\ Step(p, "attach", known[p], "none")
    /\ UNCHANGED <<rowVars, runVars, jobVars, faults>>

(* The lease is kept, and no longer renewed.                               *)
PostUnanswered(p) ==
    /\ At(p, "post") /\ Fault
    /\ actor' \in {actor, actor \cup {op[p]}}
    /\ Step(p, "fail", 0, "none")
    /\ UNCHANGED <<rowVars, runVars, jobVars>>

(* rejectStart needs the claim on the run.  The place is given back        *)
(* whether or not the rejection could be written, and without an answer    *)
(* the error is retryable.                                                 *)
PostRejected(p) ==
    /\ At(p, "post") /\ Fault
    /\ \/ /\ WriteStatus(p, "starting", "rejected")
          /\ Step(p, "release", known[p], "fail") \/ Step(p, "release", known[p], "retry")
       \/ UNCHANGED runVars /\ Step(p, "release", known[p], "retry")
    /\ UNCHANGED <<rowVars, jobVars, actor>>

StartRun(p) == Owns(p) /\ WriteStatus(p, "starting", "running")

Attach(p) ==
    /\ At(p, "attach")
    /\ StartRun(p)
    /\ Step(p, "poll", known[p], "none")
    /\ UNCHANGED <<rowVars, jobVars, actor, faults>>

(* The run id cannot be written, or nobody says that it was: the Actor is  *)
(* aborted as well as we can, the lease is kept and no longer renewed.     *)
AttachFails(p) ==
    /\ At(p, "attach")
    /\ \/ ~(Owns(p) /\ runner[op[p]] = token[p]) /\ UNCHANGED <<runVars, faults>>
       \/ Fault /\ (StartRun(p) \/ UNCHANGED runVars)
    /\ actor' \in {actor, actor \ {op[p]}}
    /\ Step(p, "fail", 0, "none")
    /\ UNCHANGED <<rowVars, jobVars>>

(* checkpointTerminal needs the claim on the run, not a live lease.        *)
FinishRun(p) == op[p] \notin actor /\ WriteStatus(p, "running", "terminal")

(* The Actor ended and its status is written, or is there already.         *)
Finish(p) ==
    /\ At(p, "poll") /\ op[p] \notin actor
    /\ FinishRun(p) \/ (status[op[p]] = "terminal" /\ UNCHANGED runVars)
    /\ Step(p, "release", known[p], "save")
    /\ UNCHANGED <<rowVars, jobVars, actor, faults>>

(* The Actor is still running when the handler's time is up, its status    *)
(* cannot be written, or the lease could not be renewed.  The lease stays. *)
PollAgain(p) ==
    /\ At(p, "poll")
    /\ \/ (op[p] \in actor \/ runner[op[p]] # token[p]) /\ UNCHANGED <<runVars, faults>>
       \/ Fault /\ (FinishRun(p) \/ UNCHANGED runVars)
    /\ Retry(p)
    /\ UNCHANGED <<rowVars, actor>>

-----------------------------------------------------------------------------
(* releaseHeld, and what comes after it.                                   *)

AfterRelease(p) ==
    IF next[p] = "retry" THEN Retry(p) ELSE Step(p, next[p], 0, "none") /\ UNCHANGED jobVars

Reason(p) == IF next[p] = "save" THEN "terminal" ELSE "prestart_rejected"

Release(p) ==
    LET answer == ReleaseAnswer(op[p], known[p]) IN
    /\ At(p, "release")
    /\ ReleaseRow(op[p], known[p], Reason(p))
    /\ \/ answer = "released" /\ AfterRelease(p)
       \/ answer = "fence" /\ Step(p, "recover", 0, next[p]) /\ UNCHANGED jobVars
       \/ answer = "conflict" /\ Retry(p)
    /\ UNCHANGED <<runVars, actor, faults>>

ReleaseUnanswered(p) ==
    /\ At(p, "release") /\ Fault
    /\ ReleaseRow(op[p], known[p], Reason(p))
    /\ Retry(p)
    /\ UNCHANGED <<runVars, actor>>

(* The release was fenced off: rotate an expired lease, then ask the ledger. *)
Recover(p) ==
    LET o == op[p] IN
    /\ At(p, "recover")
    /\ IF Expired(o) THEN RecoverRow(o) ELSE UNCHANGED rowVars
    /\ IF Expired(o) \/ state[o] = "recovery_required"
       THEN Step(p, "resolve", 0, next[p]) /\ UNCHANGED jobVars
       ELSE Retry(p)
    /\ UNCHANGED <<runVars, actor, faults>>

Resolve(p) ==
    /\ At(p, "resolve")
    /\ \/ ResolveRow(op[p]) /\ AfterRelease(p)
       \/ ~CanResolve(op[p]) /\ UNCHANGED rowVars /\ Retry(p)
    /\ UNCHANGED <<runVars, actor, faults>>

EndHandler(p) ==
    /\ pc[p] \in {"save", "fail"}
    /\ EndJob(p)
    /\ UNCHANGED <<rowVars, runVars, actor, faults>>

(* A worker whose claim is gone finds out at its next write.               *)
LostClaim(p) ==
    /\ pc[p] \in {"bind", "save"} /\ ~(Owns(p) /\ open[op[p]])
    /\ Retry(p)
    /\ UNCHANGED <<rowVars, runVars, actor, faults>>

-----------------------------------------------------------------------------
(* The recovery sweep, the cleanup of a failed request, and time.          *)

Sweep(o) ==
    /\ RecoverRow(o) \/ ResolveRow(o)
    /\ UNCHANGED <<runVars, jobVars, actor, workVars, faults>>

(* Abort a confirmed run of a job that is over, and write its status.      *)
SettleRun(o) ==
    /\ ~open[o] /\ status[o] = "running"
    /\ status' = [status EXCEPT ![o] = "terminal"]
    /\ actor' = actor \ {o}
    /\ UNCHANGED <<rowVars, runner, jobVars, workVars, faults>>

(* The operator looked at the provider after every pending start had timed *)
(* out, and records that there is no run.                                  *)
OperatorResolves(o) ==
    /\ ~open[o] /\ claim[o] = NoToken /\ status[o] = "starting" /\ o \notin actor
    /\ \A p \in Procs : op[p] = o => pc[p] \notin {"post", "attach"}
    /\ status' = [status EXCEPT ![o] = "terminal"]
    /\ UNCHANGED <<rowVars, runner, jobVars, actor, workVars, faults>>

ActorEnds(o) ==
    /\ o \in actor
    /\ actor' = actor \ {o}
    /\ UNCHANGED <<rowVars, runVars, jobVars, workVars, faults>>

(* A lease runs out when nobody renews it, when the renewal is refused     *)
(* because the claim is gone, or under a holder that stalls.               *)
Renewed(o) ==
    \E p \in Procs : op[p] = o /\ ~At(p, "release") /\ known[p] = fence[o] /\ Owns(p)

ExpireRow(o) ==
    /\ Live(o)
    /\ IF Renewed(o) THEN Fault ELSE UNCHANGED faults
    /\ live' = [live EXCEPT ![o] = FALSE]
    /\ UNCHANGED <<state, fence, holder, reason, runVars, jobVars, actor, workVars>>

(* A claim outlives the handler that has it, unless that one stalls.       *)
ExpireClaim(o) ==
    /\ claim[o] # NoToken
    /\ IF \E p \in Procs : op[p] = o /\ Owns(p) THEN Fault ELSE UNCHANGED faults
    /\ claim' = [claim EXCEPT ![o] = NoToken]
    /\ UNCHANGED <<rowVars, runVars, attempts, open, actor, workVars>>

Crash(p) ==
    /\ ~At(p, "idle") /\ Fault
    /\ Stop(p)
    /\ UNCHANGED <<rowVars, runVars, jobVars, actor>>

-----------------------------------------------------------------------------
Work(p) ==
    \/ Bind(p) \/ Acquire(p) \/ AcquireWaits(p) \/ AcquireRefused(p)
    \/ Reserve(p) \/ ReserveFails(p) \/ PostAccepted(p)
    \/ Attach(p) \/ AttachFails(p) \/ Finish(p) \/ PollAgain(p)
    \/ Release(p) \/ Recover(p) \/ Resolve(p) \/ EndHandler(p) \/ LostClaim(p)

Mishap(p) ==
    \/ AcquireUnanswered(p) \/ PostUnanswered(p) \/ PostRejected(p) \/ ReleaseUnanswered(p)
    \/ Crash(p)

Elsewhere(o) ==
    \/ ExhaustJob(o) \/ RequestFails(o) \/ Sweep(o) \/ SettleRun(o) \/ OperatorResolves(o)
    \/ ActorEnds(o) \/ ExpireRow(o) \/ ExpireClaim(o)

Next ==
    \/ \E p \in Procs : Work(p) \/ Mishap(p) \/ \E o \in Ops : ClaimJob(p, o)
    \/ \E o \in Ops : Elsewhere(o)

AdmissionSpec == AdmissionInit /\ [][Next]_vars

(* The sweep runs again and again, a failed request is cleaned up, time    *)
(* passes, and an Actor ends within its timeout.                           *)
Background ==
    \E o \in Ops :
        \/ Sweep(o) \/ SettleRun(o) \/ ExhaustJob(o) \/ ActorEnds(o)
        \/ UNCHANGED faults /\ (ExpireClaim(o) \/ ExpireRow(o))

(* Besides, a worker that does not crash goes on, and a job that can be    *)
(* claimed is redelivered.  Nothing is assumed of the operator.            *)
FairSpec ==
    /\ AdmissionSpec /\ WF_vars(Background)
    /\ \A o \in Ops : WF_vars(\E p \in Procs : ClaimJob(p, o))
    /\ \A p \in Procs : WF_vars(Work(p))

-----------------------------------------------------------------------------
(* Every column and every worker has its type.                             *)
Points == {"idle", "bind", "acquire", "reserve", "post", "attach", "poll",
           "release", "recover", "resolve", "save", "fail"}

Answers == {"none", "reserve", "poll", "fail", "retry", "save"}

RowTypeOK ==
    /\ state \in [Ops -> {"none", "leased", "recovery_required", "released"}]
    /\ fence \in [Ops -> Nat] /\ holder \in [Ops -> Tokens \cup {NoToken}]
    /\ live \in [Ops -> BOOLEAN]
    /\ reason \in [Ops -> {"none", "terminal", "prestart_rejected", "ledger_resolved"}]

RunTypeOK ==
    /\ status \in [Ops -> {"none", "starting", "running", "terminal", "rejected"}]
    /\ runner \in [Ops -> Tokens \cup {NoToken}]

JobTypeOK ==
    /\ claim \in [Ops -> Tokens \cup {NoToken}]
    /\ attempts \in [Ops -> Nat] /\ \A o \in Ops : attempts[o] <= MaxAttempts[o]
    /\ open \in [Ops -> BOOLEAN]

WorkTypeOK ==
    /\ pc \in [Procs -> Points] /\ op \in [Procs -> Ops \cup {NoOp}]
    /\ token \in [Procs -> Tokens \cup {NoToken}] /\ known \in [Procs -> Nat]
    /\ next \in [Procs -> Answers]

AdmissionTypeOK ==
    /\ RowTypeOK /\ RunTypeOK /\ JobTypeOK /\ WorkTypeOK
    /\ actor \subseteq Ops /\ faults \in 0..MaxFaults

(* No budget is ever exceeded, whatever expires, crashes or is taken over: *)
(* a takeover reuses the place, and an expired lease keeps it.             *)
WithinBudgets ==
    \A b \in Budgets : Cardinality(Held \cap Covers[b]) <= MaxActive[b]

(* Every Actor that runs at the provider is counted, whoever started it    *)
(* and whatever became of that worker's claim and lease.                   *)
ActorsAreCounted == actor \subseteq Held

(* Two workers never both believe in the current lease of an operation.    *)
OneHolder ==
    \A p, q \in Procs :
        /\ op[p] = op[q] /\ op[p] \in Held
        /\ known[p] = fence[op[p]] /\ known[q] = fence[op[q]]
        => p = q

(* The ledger shows the pool: places are taken within the budgets, used by *)
(* an Actor only while they are taken, and given back after it stopped.    *)
Pool == INSTANCE CapacityPool WITH holders <- Held, using <- actor
ImplementsPool == Pool!PoolSpec

(* Capacity is not lost for good: every job ends and gives its place back, *)
(* whatever its workers leave behind, unless a start without an answer     *)
(* keeps it until somebody looks at the provider.                          *)
CapacityComesBack ==
    \A o \in Ops : <>[](~open[o] /\ o \notin Held) \/ <>[](status[o] = "starting")

-----------------------------------------------------------------------------
(* 2026-08-31-automatic-analysis-capacity-stabilization-design.md: "excess *)
(* provider starts remain `capacity_pending` until the database-global     *)
(* admission becomes available".  So as long as nothing goes wrong no job  *)
(* is given up.                                                            *)
NoJobFailsOfWaiting ==
    faults = MaxFaults => \A o \in Ops : open[o] \/ status[o] = "terminal"
=============================================================================
