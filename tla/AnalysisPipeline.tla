--------------------------- MODULE AnalysisPipeline ---------------------------
(***************************************************************************)
(* The processes that call the job ledger: Cloud Run workers that handle a *)
(* Cloud Tasks delivery step by step, the dispatch choreography and the    *)
(* recovery sweep, with the task queue and the paid Apify Actors they      *)
(* start.  Every step is one database function of JobLedger, or one remote *)
(* call, so two processes interleave exactly where the code awaits.        *)
(*                                                                         *)
(* A process may crash at any step, a delivery may be repeated, run twice  *)
(* at once or dropped by the queue, a lease may expire while its holder is *)
(* still running, and an Actor start may be answered, rejected, or left    *)
(* without an answer.                                                      *)
(***************************************************************************)
EXTENDS JobLedger

CONSTANTS
    Procs,        \* concurrently running processes
    MaxCrashes,   \* bound: processes killed
    MaxDrops,     \* bound: tasks the queue gives up
    MaxStalls,    \* bound: leases that expire under a running holder
    MaxFaults,    \* bound: handler errors and lost Actor answers
    MaxWaits      \* bound: AI capacity waits and continuations

(* A claim draws a UUID that nobody has seen, and the finalizer needs every *)
(* job but the bootstrap, directly or through others.                      *)
ASSUME PipelineAssumption ==
    /\ {MaxCrashes, MaxDrops, MaxStalls, MaxFaults, MaxWaits} \subseteq Nat
    /\ IsFiniteSet(Procs)
    /\ IsFiniteSet(Tokens) => Cardinality(Tokens) >= Cardinality(Procs) + 3
    /\ \A S \in SUBSET Jobs :
          Finalizer \in S /\ (\A j \in S : Requires[j] \subseteq S) => Jobs \ {Bootstrap} \subseteq S

VARIABLES
    tasks,    \* <<job, generation>> of every task in the queue
    named,    \* every task name ever created; Cloud Tasks refuses to reuse one
    proc,     \* what each process is doing
    started,  \* Actor starts that Apify accepted, for each job
    alive,    \* an Actor of the job is running
    left      \* what is left of the bounds

pipelineVars == <<ledgerVars, tasks, named, proc, started, alive, left>>

-----------------------------------------------------------------------------
HandlerPoints == {"bootstrap", "bind", "poll", "save", "reload", "publish"}
Points ==
    HandlerPoints \cup {"idle", "claimed", "post", "attach", "fanout", "cleanup", "settle",
                        "ack", "rearm", "create", "mark"}

Doing(point, j, g, t) ==
    [pc |-> point, job |-> j, gen |-> g, token |-> t, plan |-> {}, code |-> "stage"]
Idle == Doing("idle", NoJob, 0, NoToken)

At(p, point) == proc[p].pc = point
Goto(p, point) == proc' = [proc EXCEPT ![p].pc = point]
Stop(p) == proc' = [proc EXCEPT ![p] = Idle]

(* A token that nothing remembers for this job: claims draw random UUIDs.  *)
UsedTokens(j) ==
    {lease[j], runToken[j]}
        \cup (IF intent.job = j THEN {intent.token} ELSE {})
        \cup {proc[q].token : q \in {q \in Procs : proc[q].job = j}}
Fresh(j) == CHOOSE t \in Tokens : t \notin UsedTokens(j)

Spend(bound) == left[bound] > 0 /\ left' = [left EXCEPT ![bound] = @ - 1]

PipelineInit ==
    /\ Init
    /\ tasks = {} /\ named = {}
    /\ proc = [p \in Procs |-> Idle]
    /\ started = [j \in Jobs |-> 0]
    /\ alive = [j \in Jobs |-> FALSE]
    /\ left = [crashes |-> MaxCrashes, drops |-> MaxDrops, stalls |-> MaxStalls,
               faults |-> MaxFaults, waits |-> MaxWaits]

-----------------------------------------------------------------------------
(* A delivery: processAnalysisV2TaskDelivery up to the claim.              *)

Claimed(p, j, g, t) ==
    proc' = [proc EXCEPT ![p] = Doing("claimed", j, g, t)]

DeliverClaim(p, j, g) ==
    /\ At(p, "idle") /\ <<j, g>> \in tasks
    /\ LET t == Fresh(j) IN
          /\ ClaimAttempt(j, t, g) \/ ClaimExhausted(j, t, g)
          /\ Claimed(p, j, g, t)
    /\ UNCHANGED <<tasks, named, started, alive, left>>

(* The claim answered "processing" without claiming.                       *)
LeaseBusy(j, g) ==
    /\ status[j] = "processing" /\ gen[j] = g
    /\ live[j] \/ (attempts[j] >= MaxAttempts /\ OwnIntent(j))

DeliverTakeover(p, j, g) ==
    /\ At(p, "idle") /\ <<j, g>> \in tasks /\ LeaseBusy(j, g)
    /\ LET t == Fresh(j) IN Takeover(j, t, g) /\ Claimed(p, j, g, t)
    /\ UNCHANGED <<tasks, named, started, alive, left>>

(* A delivery of a settled job or of an old generation is acknowledged;    *)
(* any other answer to the claim leaves the task for a redelivery.         *)
DeliverStale(j, g) ==
    /\ <<j, g>> \in tasks
    /\ ~Active \/ status[j] \in {"completed", "failed", "cancelled"} \/ gen[j] # g
    /\ tasks' = tasks \ {<<j, g>>}
    /\ UNCHANGED <<ledgerVars, named, proc, started, alive, left>>

(* Where the handler of a job begins: a checkpoint that is already there   *)
(* is not made again.                                                      *)
EntryPoint(j) ==
    CASE j = Bootstrap -> "bootstrap"
      [] j = Finalizer -> "publish"
      [] j \notin {Bootstrap, Finalizer} /\ j \in manifests -> "fanout"
      [] j \in PaidJobs \ manifests -> "bind"
      [] OTHER -> "save"

ResumePoint(j) == IF OwnIntent(j) THEN "cleanup" ELSE EntryPoint(j)

(* The claimed job: clean up if it owns a failure, else enter the handler. *)
(* The manifests are read here without a lock.                             *)
Resume(p) ==
    LET j == proc[p].job IN
    /\ At(p, "claimed")
    /\ proc' = [proc EXCEPT
           ![p].pc = ResumePoint(j),
           ![p].code = IF OwnIntent(j) THEN intent.code ELSE @,
           ![p].plan = IF ResumePoint(j) = "fanout" THEN Successors(j, manifests) ELSE @]
    /\ UNCHANGED <<ledgerVars, tasks, named, started, alive, left>>

-----------------------------------------------------------------------------
(* The handler of a job.                                                   *)

(* initializeScope returns the state it wrote under the row locks.         *)
RunBootstrap(p) ==
    /\ At(p, "bootstrap")
    /\ Checkpoint(Bootstrap, proc[p].token)
    /\ proc' = [proc EXCEPT ![p].pc = "fanout",
                            ![p].plan = Successors(Bootstrap, manifests')]
    /\ UNCHANGED <<tasks, named, started, alive, left>>

(* Broken: a start without an answer is tried again.                       *)
AfterBindAgain(j) ==
    CASE runStatus[j] \in {"none", "starting"} -> "post"
      [] runStatus[j] = "running" -> "poll"
      [] runStatus[j] = "terminal" -> "save"
      [] OTHER -> "cleanup"

(* Broken: a rejected run counts as done.                                  *)
AfterBindDone(j) ==
    CASE runStatus[j] = "none" -> "post"
      [] runStatus[j] = "running" -> "poll"
      [] OTHER -> "save"

(* Only the process whose reservation inserted the run goes on to start    *)
(* the Actor.  A later claim resumes the run that is known, and treats a   *)
(* start without an answer, or a rejected one, as a permanent failure.     *)
AfterBind(j) ==
    CASE runStatus[j] = "none" -> "post"
      [] runStatus[j] = "running" -> "poll"
      [] runStatus[j] = "terminal" -> "save"
      [] OTHER -> "cleanup"

Bind(p) ==
    LET j == proc[p].job IN
    /\ At(p, "bind")
    /\ ReserveRun(j, proc[p].token)
    /\ Goto(p, AfterBind(j))
    /\ UNCHANGED <<tasks, named, started, alive, left>>

(* Apify accepts the start and its answer arrives.                         *)
PostAccepted(p) ==
    LET j == proc[p].job IN
    /\ At(p, "post")
    /\ started' = [started EXCEPT ![j] = @ + 1]
    /\ alive' = [alive EXCEPT ![j] = TRUE]
    /\ Goto(p, "attach")
    /\ UNCHANGED <<ledgerVars, tasks, named, left>>

(* The answer is lost: the Actor may or may not be running.                *)
PostUnanswered(p) ==
    LET j == proc[p].job IN
    /\ At(p, "post") /\ Spend("faults")
    /\ \/ /\ started' = [started EXCEPT ![j] = @ + 1]
          /\ alive' = [alive EXCEPT ![j] = TRUE]
       \/ UNCHANGED <<started, alive>>
    /\ Goto(p, "cleanup")
    /\ UNCHANGED <<ledgerVars, tasks, named>>

PostRejected(p) ==
    /\ At(p, "post") /\ Spend("faults")
    /\ RejectRun(proc[p].job, proc[p].token)
    /\ Goto(p, "cleanup")
    /\ UNCHANGED <<tasks, named, started, alive>>

Attach(p) ==
    /\ At(p, "attach")
    /\ StartRun(proc[p].job, proc[p].token)
    /\ Goto(p, "poll")
    /\ UNCHANGED <<tasks, named, started, alive, left>>

(* The run id could not be written, because the claim is gone or the write *)
(* failed: abort the Actor as well as we can, and fail for good.           *)
AbandonRun(p) ==
    /\ At(p, "attach")
    /\ alive' \in {alive, [alive EXCEPT ![proc[p].job] = FALSE]}
    /\ Goto(p, "cleanup")
    /\ UNCHANGED <<ledgerVars, tasks, named, started>>

AttachFenced(p) ==
    /\ AbandonRun(p)
    /\ ~(Active /\ Holds(proc[p].job, proc[p].token))
    /\ UNCHANGED left

AttachFails(p) == Spend("faults") /\ AbandonRun(p)

(* The Actor ended; its final status is written on the run, or is already  *)
(* there because the sweep settled the run first.                          *)
Poll(p) ==
    LET j == proc[p].job IN
    /\ At(p, "poll") /\ ~alive[j]
    /\ \/ FinishRun(j, proc[p].token) /\ Goto(p, "save")
       \/ /\ runStatus[j] = "terminal"
          /\ Goto(p, "save") \/ Goto(p, "cleanup")
          /\ UNCHANGED ledgerVars
    /\ UNCHANGED <<tasks, named, started, alive, left>>

Save(p) ==
    /\ At(p, "save")
    /\ Checkpoint(proc[p].job, proc[p].token)
    /\ Goto(p, "reload")
    /\ UNCHANGED <<tasks, named, started, alive, left>>

(* The successors are planned from an unlocked read of the manifests.      *)
Reload(p) ==
    /\ At(p, "reload")
    /\ proc' = [proc EXCEPT ![p].pc = "fanout",
                            ![p].plan = Successors(proc[p].job, manifests)]
    /\ UNCHANGED <<ledgerVars, tasks, named, started, alive, left>>

Fanout(p) ==
    /\ At(p, "fanout")
    /\ CompleteAndFanout(proc[p].job, proc[p].token, proc[p].plan)
    /\ proc' = [proc EXCEPT ![p].pc = "ack", ![p].plan = {}]
    /\ UNCHANGED <<tasks, named, started, alive, left>>

Publish(p) ==
    /\ At(p, "publish")
    /\ CompleteResult(proc[p].token)
    /\ Goto(p, "ack")
    /\ UNCHANGED <<tasks, named, started, alive, left>>

Ack(p) ==
    /\ At(p, "ack")
    /\ tasks' = tasks \ {<<proc[p].job, proc[p].gen>>}
    /\ Stop(p)
    /\ UNCHANGED <<ledgerVars, named, started, alive, left>>

-----------------------------------------------------------------------------
(* The handler fails.                                                      *)

(* A retryable error: give the claim back, or own the failure when the     *)
(* attempts are used up.  500 leaves the task for a redelivery.            *)
Retry(p) ==
    LET j == proc[p].job IN
    \/ /\ Release(j, proc[p].token)
       /\ Stop(p)
    \/ /\ attempts[j] >= ReleaseLimit(j)
       /\ proc' = [proc EXCEPT ![p].pc = "cleanup", ![p].code = "exhausted"]
       /\ UNCHANGED ledgerVars

TransientError(p) ==
    /\ proc[p].pc \in HandlerPoints /\ Spend("faults")
    /\ Retry(p)
    /\ UNCHANGED <<tasks, named, started, alive>>

PermanentError(p) ==
    /\ proc[p].pc \in HandlerPoints /\ Spend("faults")
    /\ Goto(p, "cleanup")
    /\ UNCHANGED <<ledgerVars, tasks, named, started, alive>>

(* While another job's failure is cleaned up, a paid start and the         *)
(* publication are refused with a retryable error.                         *)
Refused(p) ==
    /\ proc[p].pc \in {"bind", "publish"} /\ intent.open
    /\ Retry(p)
    /\ UNCHANGED <<tasks, named, started, alive, left>>

CapacityWait(p) ==
    /\ proc[p].pc \in {"bind", "save"} /\ Spend("waits")
    /\ DeferAiCapacity(proc[p].job, proc[p].token)
    /\ Stop(p) \/ Goto(p, "rearm")
    /\ UNCHANGED <<tasks, named, started, alive>>

(* The continuation's own dispatch is DispatchReserved.                    *)
Continuation(p) ==
    /\ At(p, "save") /\ Spend("waits")
    /\ ContinueScheduler(proc[p].job, proc[p].token)
    /\ Goto(p, "ack")
    /\ UNCHANGED <<tasks, named, started, alive>>

(* The claim is gone: a fence error is acknowledged, other errors are not. *)
LostClaim(p) ==
    /\ proc[p].pc \in HandlerPoints \cup {"fanout"}
    /\ ~(Active /\ Holds(proc[p].job, proc[p].token))
    /\ tasks' \in {tasks, tasks \ {<<proc[p].job, proc[p].gen>>}}
    /\ Stop(p)
    /\ UNCHANGED <<ledgerVars, named, started, alive, left>>

-----------------------------------------------------------------------------
(* Terminal failure: finalizeAnalysisV2TerminalFailure.                    *)

Cleanup(p) ==
    /\ At(p, "cleanup")
    /\ RequestCleanup(proc[p].job, proc[p].token, proc[p].code)
    /\ Goto(p, "settle")
    /\ UNCHANGED <<tasks, named, started, alive, left>>

(* Broken: the final status is written although the abort was not asked.   *)
AbortRunOnPaper(k) == SettleRun(k) /\ UNCHANGED alive

(* Abort a confirmed run and write its final status.                       *)
AbortRun(k) ==
    /\ SettleRun(k)
    /\ alive' = [alive EXCEPT ![k] = FALSE]

SettleRuns(p, k) ==
    /\ At(p, "settle")
    /\ AbortRun(k)
    /\ UNCHANGED <<tasks, named, proc, started, left>>

FinishFailure(p) ==
    /\ At(p, "settle")
    /\ FailRequest(proc[p].job, proc[p].token)
    /\ Goto(p, "ack")
    /\ UNCHANGED <<tasks, named, started, alive, left>>

(* Another job owns the failure, a start nobody confirmed blocks it, or an *)
(* abort failed.                                                           *)
CleanupBlocked(p) ==
    /\ \/ At(p, "cleanup") /\ intent.open /\ ~OwnIntent(proc[p].job) /\ UNCHANGED left
       \/ At(p, "settle") /\ UNCHANGED left
          /\ \E k \in Jobs : runStatus[k] = "starting" /\ Unsettled(k)
       \/ At(p, "settle") /\ Spend("faults")
          /\ \E k \in Jobs : runStatus[k] = "running"
    /\ DeferCleanup(proc[p].job, proc[p].token)
    /\ Stop(p)
    /\ UNCHANGED <<tasks, named, started, alive>>

CleanupFenced(p) ==
    /\ proc[p].pc \in {"cleanup", "settle"}
    /\ ~(Active /\ Holds(proc[p].job, proc[p].token))
    /\ tasks' \in {tasks, tasks \ {<<proc[p].job, proc[p].gen>>}}
    /\ Stop(p)
    /\ UNCHANGED <<ledgerVars, named, started, alive, left>>

-----------------------------------------------------------------------------
(* Dispatch, by the process that completed a predecessor or by the sweep,  *)
(* and the recovery of lost deliveries by the sweep.                       *)

(* Broken: the row is marked as dispatched before the task is created.     *)
DispatchingMarkFirst(p, point, j, g) ==
    proc' = [proc EXCEPT
        ![p] = Doing(IF point = "create" THEN "mark" ELSE point, j, g, NoToken)]

Dispatching(p, point, j, g) ==
    proc' = [proc EXCEPT ![p] = Doing(point, j, g, NoToken)]

DispatchNew(p, j) ==
    /\ At(p, "idle")
    /\ Reserve(j)
    /\ Dispatching(p, "create", j, 1)
    /\ UNCHANGED <<tasks, named, started, alive, left>>

DispatchReserved(p, j) ==
    /\ At(p, "idle")
    /\ Active /\ status[j] = "pending" /\ dispatch[j] = "reserved"
    /\ Dispatching(p, "create", j, gen[j])
    /\ UNCHANGED <<ledgerVars, tasks, named, started, alive, left>>

(* ALREADY_EXISTS counts as created.                                       *)
Create(p) ==
    LET name == <<proc[p].job, proc[p].gen>> IN
    /\ At(p, "create")
    /\ tasks' = IF name \in named THEN tasks ELSE tasks \cup {name}
    /\ named' = named \cup {name}
    /\ Goto(p, "mark")
    /\ UNCHANGED <<ledgerVars, started, alive, left>>

Mark(p) ==
    LET j == proc[p].job  g == proc[p].gen IN
    /\ At(p, "mark")
    /\ \/ MarkDispatched(j, g)
       \/ ~(Active /\ status[j] = "pending" /\ dispatch[j] = "reserved" /\ gen[j] = g)
          /\ UNCHANGED ledgerVars
    /\ Stop(p)
    /\ UNCHANGED <<tasks, named, started, alive, left>>

(* The sweep asks Cloud Tasks for the task of an undelivered or expired    *)
(* job and finds none.                                                     *)
SweepLookup(p, j) ==
    /\ At(p, "idle")
    /\ Claimable(j, gen[j]) /\ <<j, gen[j]>> \notin tasks
    /\ Dispatching(p, "rearm", j, gen[j])
    /\ UNCHANGED <<ledgerVars, tasks, named, started, alive, left>>

RearmLost(p) ==
    LET j == proc[p].job  g == proc[p].gen IN
    /\ At(p, "rearm")
    /\ \/ Rearm(j, g) /\ Dispatching(p, "create", j, g + 1)
       \/ ~(Claimable(j, g) /\ g < MaxGen) /\ Stop(p) /\ UNCHANGED ledgerVars
    /\ UNCHANGED <<tasks, named, started, alive, left>>

SweepSettle(k) ==
    /\ AbortRun(k)
    /\ UNCHANGED <<tasks, named, proc, started, left>>

-----------------------------------------------------------------------------
(* The environment.                                                        *)

Crash(p) ==
    /\ ~At(p, "idle") /\ Spend("crashes")
    /\ Stop(p)
    /\ UNCHANGED <<ledgerVars, tasks, named, started, alive>>

(* The queue drops a task whose deliveries are used up.                    *)
DropTask(name) ==
    /\ name \in tasks /\ Spend("drops")
    /\ tasks' = tasks \ {name}
    /\ UNCHANGED <<ledgerVars, named, proc, started, alive>>

ActorEnds(j) ==
    /\ alive[j]
    /\ alive' = [alive EXCEPT ![j] = FALSE]
    /\ UNCHANGED <<ledgerVars, tasks, named, proc, started, left>>

(* Lease windows outlive handler windows, so a lease runs out after its    *)
(* holder is gone; the bounded stalls let it run out earlier.              *)
Expire(j) ==
    /\ ExpireLease(j)
    /\ \/ (\A p \in Procs : proc[p].token # lease[j] \/ proc[p].job # j) /\ UNCHANGED left
       \/ (\E p \in Procs : proc[p].token = lease[j] /\ proc[p].job = j) /\ Spend("stalls")
    /\ UNCHANGED <<tasks, named, proc, started, alive>>

(* The operator looked at Apify after every pending start had timed out.   *)
OperatorResolves(j) ==
    /\ ~alive[j] /\ j \notin resolved
    /\ \A p \in Procs : proc[p].job = j => proc[p].pc \notin {"post", "attach"}
    /\ ResolveStart(j)
    /\ UNCHANGED <<tasks, named, proc, started, alive, left>>

-----------------------------------------------------------------------------
Delivery(p) ==
    \E name \in tasks : DeliverClaim(p, name[1], name[2]) \/ DeliverTakeover(p, name[1], name[2])

Handler(p) ==
    \/ Resume(p) \/ RunBootstrap(p) \/ Bind(p) \/ PostAccepted(p) \/ Attach(p) \/ AttachFenced(p)
    \/ Poll(p) \/ Save(p) \/ Reload(p) \/ Fanout(p) \/ Publish(p) \/ Ack(p)
    \/ Refused(p) \/ LostClaim(p)
    \/ Cleanup(p) \/ (\E k \in Jobs : SettleRuns(p, k)) \/ FinishFailure(p)
    \/ CleanupBlocked(p) \/ CleanupFenced(p)

Dispatcher(p) ==
    \/ \E j \in Jobs : DispatchNew(p, j) \/ DispatchReserved(p, j) \/ SweepLookup(p, j)
    \/ Create(p) \/ Mark(p) \/ RearmLost(p)

Faults(p) ==
    \/ PostUnanswered(p) \/ PostRejected(p) \/ AttachFails(p)
    \/ TransientError(p) \/ PermanentError(p)
    \/ CapacityWait(p) \/ Continuation(p) \/ Crash(p)

PipelineNext ==
    \/ \E p \in Procs : Delivery(p) \/ Handler(p) \/ Dispatcher(p) \/ Faults(p)
    \/ \E name \in tasks : DeliverStale(name[1], name[2]) \/ DropTask(name)
    \/ \E j \in Jobs : SweepSettle(j) \/ ActorEnds(j) \/ Expire(j) \/ OperatorResolves(j)

PipelineSpec == PipelineInit /\ [][PipelineNext]_pipelineVars

(* Cloud Tasks redelivers, the sweep is scheduled, time passes and a       *)
(* process that does not crash goes on: something that can happen happens. *)
(* Nothing is assumed of the faults, nor of the operator.                  *)
Progress ==
    \/ \E p \in Procs : Delivery(p) \/ Handler(p) \/ Dispatcher(p)
    \/ \E name \in tasks : DeliverStale(name[1], name[2])
    \/ \E j \in Jobs : SweepSettle(j) \/ ActorEnds(j) \/ (Expire(j) /\ UNCHANGED left)

FairPipelineSpec == PipelineSpec /\ WF_pipelineVars(Progress)

-----------------------------------------------------------------------------
(* Every variable of a process, the queue and the Actors has its type.     *)
PipelineTypeOK ==
    /\ TypeOK
    /\ tasks \subseteq Jobs \X (1..MaxGen) /\ named \subseteq Jobs \X (1..MaxGen)
    /\ proc \in [Procs -> [pc : Points, job : Jobs \cup {NoJob}, gen : 0..MaxGen,
                           token : Tokens \cup {NoToken}, plan : SUBSET Jobs, code : Codes]]
    /\ started \in [Jobs -> Nat]
    /\ alive \in [Jobs -> BOOLEAN]

(* Apify accepts at most one paid start of an operation, whatever crashes, *)
(* expired leases, concurrent deliveries and retries do to its job.        *)
AtMostOnePaidStart ==
    \A j \in Jobs : started[j] <= 1

(* When the request is over no Actor of it is running.                     *)
NoActorOutlivesRequest ==
    ~Active => \A j \in Jobs : ~alive[j]

(* A job never settles as completed after it became the owner of a         *)
(* failure: a slow handler of the same job cannot overtake the cleanup.    *)
OwnerNeverCompletes ==
    \A j \in Jobs : OwnIntent(j) => status[j] # "completed"

(* What is published is whole: every job of the graph completed with its   *)
(* manifest, and the paid run of every paid job ended.                     *)
PublishedIsWhole ==
    outcome = "completed" =>
        /\ Completed = Jobs
        /\ manifests = Jobs \ {Finalizer}
        /\ \A j \in PaidJobs : runStatus[j] = "terminal"

(* The outbox and the queue agree: a row that counts as enqueued has had   *)
(* its task created, and no task is ahead of its row.                      *)
OutboxAgreesWithQueue ==
    /\ \A j \in Jobs : dispatch[j] \in {"enqueued", "delivered"} => <<j, gen[j]>> \in named
    /\ \A name \in named : name[2] <= gen[name[1]]

Used(bound, total) == total - left[bound]

(* Until a failure is charged, a job pays one attempt for the work itself  *)
(* and one for each crash, stall or error; a wait for AI capacity, a       *)
(* continuation, a lost task and a duplicate delivery cost it none.        *)
AttemptsAreForFailures ==
    intent = NoIntent =>
        \A j \in Jobs : attempts[j] <= 1 + Used("crashes", MaxCrashes)
                                         + Used("stalls", MaxStalls)
                                         + Used("faults", MaxFaults)

-----------------------------------------------------------------------------
(* The failure waits for an operator to confirm that a start left no run.  *)
AwaitsOperator ==
    intent.open /\ \E j \in Jobs : runStatus[j] = "starting" /\ Unsettled(j)

(* The owner of the failure has used up its claims while it waited, and    *)
(* cannot be taken over: it is pending, or its last claim expired before   *)
(* it was written on the intent.                                           *)
Stranded ==
    \E j \in Jobs :
       /\ OwnIntent(j) /\ attempts[j] >= MaxAttempts
       /\ status[j] = "pending" \/ (~live[j] /\ lease[j] # intent.token)

(* The request ends, unless it stays with a failure whose paid start       *)
(* nobody confirmed, or with an owner that cannot be claimed again.        *)
RequestEnds ==
    <>(~Active) \/ <>[](AwaitsOperator \/ Stranded)

-----------------------------------------------------------------------------
(* What comments and tests of the repository say, and the code does not do *)
(* (see the findings in the README).                                       *)

(* 20260714055611: "The second of two concurrent completions therefore     *)
(* observes the first commit and opens a join exactly once."  So as long   *)
(* as the request is active, some job of it is left to run.                *)
SomeJobIsLeft ==
    Active => \E j \in Jobs : status[j] \in {"pending", "processing"}

(* 20260830102000: the claim of an exhausted owner is answered with "the   *)
(* still-processing job so the worker can invoke the tightly fenced        *)
(* takeover RPC".                                                          *)
ExhaustedOwnerIsProcessing ==
    \A j \in Jobs : Claimable(j, gen[j]) /\ attempts[j] >= MaxAttempts /\ OwnIntent(j)
        => status[j] = "processing"
=============================================================================
