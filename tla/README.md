# Verification of the V2 analysis pipeline

TLA+ models of the durable core of this repository: the Postgres functions that
keep the jobs, leases, cleanup intents and paid provider runs of one analysis
request; the planner that decides which jobs exist; the Cloud Run workers, Cloud
Tasks queue and recovery sweep that drive them; the leases that ration the
provider's capacity between requests; the fresh admission that looks at the target
account once more before a request is made; the ledgers around a paid AI call; and
the arbiter by which the AI stages of one process share its slots.  TLC checks small
instances for safety and liveness, TLAPS proves the safety properties for every
instance.

Paths below are relative to the repository.  `A/` stands for
`lib/services/analysis/`, and a migration is named by its timestamp in
`supabase/migrations/`.

## 1. Inventory

### The system

A paying user's request is one row of `analysis_requests`.  Its work is a DAG of
jobs (bootstrap, relationships, target evidence, batches of profiles and of
private names, a join, screening, scores, narrative, finalizer), one row of
`analysis_pipeline_jobs` for each.  A job becomes a Cloud Task, a Cloud Run
worker claims it with a lease, starts paid Apify Actors or AI calls, writes a
checkpoint ("manifest"), and completes the job together with the insertion of
its successors.  The finalizer publishes.  Any job may fail the whole request,
which is only allowed after every paid Actor has been stopped.  A scheduled
sweep repairs what crashes and lost tasks leave behind.

| Component | State | Operations | Meets |
|---|---|---|---|
| **Job ledger** (`A/v2-job-store.ts`; 20260713155145, 20260714031500, 20260714055611, 20260715175739, 20260727034000, 20260830102000, 20260831100000) | request status, job status, dispatch state and generation, attempts, lease, fanout hash | reserve, mark, rearm, claim, release, defer (cleanup, AI capacity), continue, complete and fan out, publish, request cleanup, fail, take over | called by worker, dispatcher, sweep |
| **DAG planner, checkpoints** (`A/v2-dag-planner.ts`, 20260713183106) | the manifests of a request | plan, readiness, successors; checkpoint | worker reads the manifests *unlocked*, plans, then calls the ledger |
| **Provider-run ledger** (`A/v2-provider-run-store.ts`, 20260713171647, 20260714011500, 20260722110000, 20260724220000, 20260802030000) | one row for each paid Actor operation; the cleanup intent | reserve, started, rejected, terminal, settle; operator resolution | Apify; publication and failure are guarded by it |
| **Worker, dispatch, sweep** (`A/v2-worker.ts`, `A/v2-tasks.ts`, `A/v2-recovery.ts`, `A/v2-provider-lifecycle.ts`, `app/api/analysis/v2/worker/route.ts`) | program counters only; the queue | deliver, handle, dispatch, look up, rearm, settle | everything above |
| **Provider admission** (`A/provider-admission-*.ts`, 20260831100000) | one lease row for each provider run; budgets with ceilings | acquire, renew, release, recover, resolve | paid starts of every request; a refusal is to put a job off |
| **AI calls** (`A/v2-ai-result-store.ts`, `A/v2-ai-attempt-store.ts`, `A/v2-gemini-lease-store.ts`, `lib/services/ai/gemini.ts`, `lib/services/ai/vertex-ai-budget-store.ts`, 20260713170859, 20260724123200, 20260725010000, 20260902090000) | budget reservations, slot leases, attempt rows, results | reserve, acquire, dispatch, settle, cancel, cut off, recover | Vertex AI; run by handlers of AI jobs |
| **AI scheduler** (`A/v2-ai-scheduler-runtime.ts`, `A/v2-ai-scheduler-operation-store.ts`) | slots of a process, its queue of waiters, the stages of each run | grant, claim, finish, defer, continue, abort | starts AI calls; a continuation puts a job off |
| **Fresh admission, capacity dispatch recovery** (`A/fresh-plan-admission.ts`, `A/preflight-provider-run.ts`, `A/capacity-dispatch-recovery.ts`, `app/api/analysis/preflight/[preflightId]/entitle/route.ts`, 20260714030000, 20260715002600, 20260831100000) | the admission columns of a preflight: status, generation, dispatch, claim, failures; one provider run for each generation | reserve, mark, claim, release, fail, block, complete, defer, rearm, consume | starts a paid profile Actor under provider admission; creates the request |
| Preflight (`A/preflight.ts`, `A/preflight-tasks.ts`) | preflight rows with an outbox and a lease of their own | reserve, claim, defer, rearm | precedes the fresh admission |
| Beta Apify credit pool (`A/beta-apify-*.ts`) | credit reservations | reserve, settle, release | preflight, paid starts |
| Earlybird commerce (`lib/services/earlybird/`, `lib/services/groble/`) | orders, webhooks, fulfillment outbox | record, claim, fulfil | creates preflights and requests |
| Result authority, media, sharing | result revisions, artifacts, share tokens | publish, purge, share | after publication |
| Others: legacy step pipeline, account deletion, leads, precheckout inference, scoring policies, Instagram auth worker, UI, scripts | | | listed in `PROJECT.json` with reasons |

### What is hard

* Every `await` in a worker is a point where another worker, the sweep or a
  crash may step in; the lease of a handler may expire while it still runs.
* The successors of a job are planned from a read that is older than the
  transaction that inserts them.
* An Actor start has no idempotency key, so an answer that is lost must never
  lead to a second start, and must block the end of the request until a human
  has looked at Apify.
* A failure is a protocol of several transactions and remote calls: record the
  intent, abort and settle every run, fail the request.  Whoever claims the
  owner of the failure later must finish the same failure.
* The outbox: reserve a generation, create the task, mark the row; a task name
  can never be used again, so a lost task needs a new generation.
* Attempts are a budget: some returns of a claim refund it, some do not.
* Places in a capacity are given to operations, not to workers: a redelivered job
  takes over the place of its predecessor while that one may still be alive, and
  a place may only be freed when no Actor can be running behind it.
* A redelivered admission may take another route to the profile than the delivery
  before it, which may have started a paid Actor; a capacity wait replaces the
  dispatch while the task that carries it is still being answered.
* One AI call is recorded in four ledgers that are keyed differently (operation
  and attempt, token, claim) and written in separate transactions.
* The arbiter runs in one thread, but every `await` of one run lets the others
  change the slots, the queue and its own flags.

### What makes it correct

Legal rows (no call sequence runs into a CHECK constraint); jobs only after
their requirements; the request, its jobs, its intent and its runs agree at the
end; at most one paid start for each operation; no Actor outlives its request;
settled things stay settled; a failure is charged once; plans from different
reads agree; and every request ends.  Every Actor has a place in each budget that
covers it, and every place comes back.  No AI attempt is sent twice, and what was
sent is charged.  A fresh admission starts one paid Actor, is never ready while
it runs, and no answer, rotation or repair loses its dispatch.  Every slot of a process is given back once, no wake-up is lost
and no stage is passed over for ever.  The hazards behind these, each at its
line, are in `PROJECT.json`.

## 2. Modules

```
RequestLifecycle          what the ledger promises: a request runs, then is
   ^  refinement          published whole, or is failed once by one owner
   |
JobLedger  --extends-->  AnalysisDag   the abstract DAG: Requires, Proposals, Successors
   ^   ^                     ^
   |   |                     | instance
   |   JobLedgerProofs    AnalysisDagTopology   the production graph of the planner
   |   ^                     ^
   |   |                  AnalysisDagTopologyProofs
AnalysisPipeline          workers, queue, sweep, Actors, crashes
   ^   |
   |   |
AnalysisPipelineProofs <-- AnalysisAttemptsProofs

CapacityPool  <--refinement--  ProviderAdmission  <-- ProviderAdmissionProofs
places that are counted        leases, workers, provider

FreshAdmission  <-- FreshAdmissionProofs
one preflight's outbox, claim, paid run and sweep

AiCalls  <-- AiCallsProofs     AiScheduler  <-- AiSchedulerProofs
```

**`AnalysisDag`** has the parameters of a request graph: jobs, their required
keys, the bootstrap and the finalizer, and `DagAssumption` (nothing requires
itself or the finalizer, the bootstrap requires nothing).  `Successors(j, seen)`
is the rule by which a job that sees the manifests `seen` proposes successors.

**`AnalysisDagTopology`** translates `buildAnalysisV2DagPlan` for the production
graph, with batches that are only known once the relationships job has run.  It
instantiates `AnalysisDag` and shows that the graph is one the ledger assumes
and that the planner's hand-written proposals are exactly that rule.

**`JobLedger`** has one action for each database function, with *arbitrary*
callers: any job, token, generation and any part of the possible proposals.

| Action | Function |
|---|---|
| `Reserve`, `MarkDispatched`, `Rearm` | `reserve_/mark_/rearm_analysis_v2_job_dispatch` |
| `ClaimAttempt`, `ClaimExhausted` | `claim_analysis_v2_job`; the second is the branch that opens the `JOB_ATTEMPTS_EXHAUSTED` intent |
| `Takeover` | `takeover_analysis_v2_terminal_failure` |
| `Release`, `DeferCleanup`, `DeferAiCapacity`, `ContinueScheduler` | the four ways of giving a claim back |
| `Checkpoint` | `checkpoint_analysis_v2_dag_manifest` |
| `CompleteAndFanout`, `ReplayFanout` | `complete_analysis_v2_job_and_fanout`, first call and replay |
| `CompleteResult` | `complete_analysis_v2_result_and_purge` |
| `RequestCleanup`, `FailRequest` | `request_analysis_v2_provider_run_cleanup`, `fail_analysis_v2_result_and_purge` |
| `ReserveRun`, `StartRun`, `RejectRun`, `FinishRun`, `SettleRun`, `ResolveStart` | the provider-run functions and the operator's marker |
| `ExpireLease` | `lease_expires_at` passes |

The variables are the columns these functions read or write (see the comments
at `VARIABLES`); `live` stands for `lease_expires_at > now`.  A dispatch
reservation token is only compared together with its generation, so `gen` stands
for both.  A claim token is a value of `Tokens`.  Since each function locks the
rows it decides on, each is atomic here.

**`AnalysisPipeline`** extends `JobLedger` with the callers the code has: `proc`
is the program counter of each process (a point for each `await` that matters),
`tasks` and `named` are the queue and the names it has seen, `started` and
`alive` are the Actors.  `Deliver*` is `processAnalysisV2TaskDelivery` up to the
claim, `Resume ... Publish` the stage handlers, `TransientError`,
`PermanentError`, `Refused`, `CapacityWait`, `Continuation`, `LostClaim` the
branches of its error handling (the rearm at the delivery ceiling is in the
worker route), `Cleanup ... CleanupFenced` the terminal failure, `Dispatch*`,
`Create`, `Mark` the choreography of `A/v2-tasks.ts`, `SweepLookup`, `RearmLost`,
`SweepSettle` the sweep of `A/v2-recovery.ts`.  `Crash`, `DropTask`, `ActorEnds`
and `OperatorResolves` are the environment, known from how the code uses it.

**`CapacityPool`** is what admission promises: an operation takes a place in every
budget that covers it or in none, and leaves it.  **`ProviderAdmission`** is how:
`lease` is the row of `analysis_provider_admission_leases`, `run` the provider-run
row, `pc`/`token` the worker that holds the job, `actor` what runs at the
provider.

| Action | Code |
|---|---|
| `ClaimJob`, `ExhaustJob`, `Retry`, `Defer`, `EndJob`, `LostClaim`, `EndHandler` | deliveries of the job and the ways a handler gives its claim back |
| `Bind` | the run store finds what is known of the run of this operation |
| `Acquire`, `AcquireWaits`, `AcquireRefused` | `acquire_analysis_provider_admission`: granted, adopted or replayed; refused for want of capacity; conflict |
| `Reserve`, `ReserveFails` | reservation of the provider run under the claim |
| `PostAccepted`, `PostRejected`, `PostUnanswered` | the paid start, and a start whose answer is lost |
| `Attach`, `AttachFails`, `Finish`, `PollAgain` | the run id is written; the Actor is polled |
| `Release`, `Recover`, `Resolve` | `release_`, `recover_`, `resolve_analysis_provider_admission` by a handler |
| `Sweep`, `SettleRun`, `OperatorResolves` | `A/provider-admission-recovery.ts`, the settlement of runs of failed requests, the operator |
| `ExpireRow`, `ExpireClaim` | `expires_at` and `lease_expires_at` pass; a renewal is a lease that does not expire |
| `...Unanswered`, `Crash` | the answer of a function is lost; the process dies |

**`FreshAdmission`** is the last look at the target account, with the outbox,
queue and claim of its own that it has before a request exists.  `status`, `gen`,
`dgen`, `dstate`, `claim`, `failures` are the admission columns of
`analysis_preflights`; `live` and `current` stand for the lease and the freshness
of the row; `run` and `lease` are the provider run and the admission lease of each
generation, and `holder` the claim that the lease was acquired with; `queue` has
one deterministic task for each dispatch; `pc`, `token`, `try` and `attached` are
the workers, and `attached` tells whether the queue still waits for their answer.

| Action | Code |
|---|---|
| `Reserve` (`TakeBack`, `Redispatch`, `Regenerate`) | `reserve_analysis_v2_preflight_admission`, its branches: take a lapsed claim back, dispatch again what has stayed reserved, begin a new generation, hand out a ready one |
| `Sweep`, `EnqueueTask`, `Mark`, `...Unanswered` | the caller's choreography in the entitle route and the fulfillment, and the sweep of `A/capacity-dispatch-recovery.ts`: create the task, mark the row, keep the fence whatever is not answered |
| `ClaimAdmission`, `ClaimNothing`, `Load` | claim (taken, busy, nothing to do) and the choice of the route by the stored run |
| `Acquire`, `ReserveRun`, `StartActor`, `CheckStarted`, `CheckRejected`, their failures | the paid start inside `withAnalysisProviderAdmissionCheckpoint` |
| `Adopt`, `ResumeRefused`, `WaitLonger`, `Finish`, `FinishFails`, `Attest` | a stored run is admitted again, polled, recorded, read |
| `Complete`, `Block`, `Count`, `Release`, `Defer`, `SettleFails` | the ways the row is left |
| `Rearm`, `RearmTask`, `RearmMark`, `RearmFails` | the rotation of a dispatch after a capacity wait, in the worker route |
| `Consume` | the request is made of the admission |
| `Deliver`, `Detach`, `Crash`, `ActorEnds`, `ClaimLapses`, `LeaseLapses`, `Age`, `Expire` | the queue, the instances, Apify and the clock |

**`AiCalls`** follows the operations of an AI stage with their retries through
four ledgers: `budget` (by operation and attempt), `slot` (by lease token),
`attempts` (by claim) and the results (under a live claim).

| Action | Code |
|---|---|
| `Reserve`, `Settle`, `Cancel` | `reserve_`, `settle_`, `cancel_vertex_ai_budget` |
| `Acquire`, `Release`, `Unlease` | the slot leases of `A/v2-gemini-lease-store.ts` |
| `Attempt`, `Record` | the attempt row is reserved and terminalized |
| `Prepare`, `Dispatch`, `Answer`, `AbortCall` | the loop of `lib/services/ai/gemini.ts`, a step for each `await` |
| `CutOff`, `WriteCutoff` | the stage's deadline, and the rows it closes |
| `RecoverCutoff`, `ReapCutoff`, `SlotExpires` | the sweep of the slot leases, the clock |
| `Claim`, `Leave`, `LoseClaim`, `Crash` | the handlers of the job |
| `ProviderEnds`, `OtherBegins`, `OtherEnds` | Vertex AI works on after a client gave up; a call of another job |
| `...Unanswered` | the answer of a function is lost |

**`AiScheduler`** has one action for each stretch of code between two `await`s of
`A/v2-ai-scheduler-runtime.ts`: the rounds of a run, the answers of claims, the
ends of operations, aborts and deadlines.  The generation counter by which the
arbiter tells a run that something changed is `unchanged[r]`.  `pending` maps each
waiter, a run and a stage, to the waiters whose sequence number is lower: only the
order of these numbers is ever looked at (`nextPending`), and a map can be reasoned
about where a sequence that is filtered cannot.

Definitions whose comment begins with "Broken" are not part of the models.  Each
is a plausible bug in the definition that follows it; put in its place, TLC must
report the property named for it in `PROJECT.json`.

## 3. Runs

| Run | Instance | Shows |
|---|---|---|
| `ledger_chain` | boot, paid mid, finalizer; 2 tokens; claim limit 2; 356k states | legal rows, agreement at the end, what no step may do, and the refinement |
| `dag_topology` | 0 to 3 profile and 0 to 3 private-name batches; 1.6k states | the planner's graph and proposals; that the graph is one the ledger and the pipeline assume |
| `pipeline_diamond` | two branches at once, one paid; 2 processes, two of a wait, a fault and a stall; 436k states | dependencies, paid starts, Actors, outbox, publication; failure of one branch while the other starts an Actor; attempts are only spent on failures |
| `pipeline_ends` | a chain with one paid job; 2 processes, one each of crash, dropped task and fault, fair; 129k states | `RequestEnds` |
| `admission` | 2 operations, a global budget of 1 and a slot budget of 1 that covers one of them, 2 workers, 4 tokens, 2 mishaps; fair | ceilings, Actors, holders, refinement, places come back |
| `ai_calls` | one operation with 2 attempts, 2 handlers, 2 slots, a budget of 2 against estimates of 1 and a cost of 2, one call of another job, one mishap; fair; 227k states | paid once, charged, slots, outcomes, ends |
| `ai_scheduler` | 2 runs, 3 stages of one slot, 2 slots in the process; fair; 133k states | slots, wake-ups, starvation, ends |
| `fresh_admission` | one generation of 2 dispatches with 2 deliveries each, 2 workers, a caller and the sweep, 2 failures, a mishap; fair; 66k states | one paid run, none left behind, no lost dispatch, every admission is settled |
| `lost_join`, `stranded_owner`, `admission_wait`, `cancelled_call` | the smallest instance that shows each | the findings of section 5 |

**Properties.** `RowChecks`, `DependencyOrder`, `OutcomeAgrees`,
`NothingChargesAfterTheEnd` are state invariants of the ledger (`RowChecks` is the
table's `lease_check` and `dispatch_pair_check`; the attempt bound is in `TypeOK`);
`SettledStaysSettled` and `FailureChargedOnce` say what no step may do;
`ImplementsLifecycle` is the refinement. In the pipeline, `AtMostOnePaidStart` and
`NoActorOutlivesRequest` relate the Actors at Apify to the rows,
`OwnerNeverCompletes` a slow handler to a cleanup of its own job, `PublishedIsWhole`
the publication to all manifests and runs, `OutboxAgreesWithQueue` the rows to the
queue and `AttemptsAreForFailures` the budget to the faults that happened. In
admission, `WithinBudgets` bounds the Actors, `ActorsAreCounted` says that an Actor
always has its place, `OneHolder` that a fence has one holder, `CapacityComesBack`
that a place is free again unless a start stays unconfirmed. In the fresh admission,
`AtMostOnePaidRun` and `ReadyLeavesNoActor` relate the Actors of a generation to the
row over all its deliveries, `WorkIsReachable` the marked dispatch to its task, and
`AdmissionEnds` is what the sweep, the rotation and the redelivery add up to. For AI
calls, `PaidOnce` and `OwnCallsAreCharged` relate what Vertex AI did to the ledgers,
`SlotsCoverCalls` the calls at the provider to the slots (a client that gave up does
not end a call), `ResultsAreOfTheClaim` that only the handler that has the job
writes a result, and only for an attempt of its own that was still open,
`OutcomesAreFinal` the late answers to the cutoffs, `ResolverSlotsComeBack` and
`ResolversEnd` say that an optional stage gives back what a dead handler held. For
the arbiter, `CountersAgree` relates its counters to the operations under way,
`NextWaiterIsAwake` forbids a lost wake-up, `NoEarlyContinuation` a run that gives
up because another was next, `NoStageStarves` that a slot that goes to another stage
brings the turn of every stage that could have had it nearer; `RunsEnd` is liveness.

**Bounds.** Two tokens are enough for the ledger, where a property only
distinguishes the holder from someone else; the pipeline has five so that every
claim can draw a fresh one.  Two processes give every pair of concurrent
handlers, dispatchers and sweeps.  A chain of three has a job before and after a
paid one; the diamond adds a join.  `MaxAttempts` 1 to 3 stands for 7 and
`MaxGen` 1 to 4 for 1000: a claim below the limit, at the limit and after it
exist, and generations that are old, current and exhausted.  `MaxCrashes`,
`MaxDrops`, `MaxStalls`, `MaxFaults` and `MaxWaits` bound how often the
environment misbehaves in one behaviour, not when.  The diamond has no crash and
no dropped task, and at most two of its stall, its fault and its wait (the
constraint `FewMishaps`), for its size; the chain has both under `RequestEnds`, and the
invariants are proved for any number of each.  The batches of the topology
go from none (`MaxBatches` is 3): zero, one and several behave differently, and
more of them only repeat the same rows.  Processes and tokens are symmetric where the run
checks no liveness.

The admission run has two operations for one place, which is the smallest
contention there is, and one of them in a second budget, so that a place can be
full in one budget and free in the other.  Four tokens are enough for every claim
the attempts allow.  `MaxFaults` is 2 there because the interesting cases pair
two mishaps (a worker stalls after a crash, an answer is lost after a stall), and
1 for AI calls, where the second handler already overlaps with the first.  Two
slots for two calls and a resolver limit of 1 make every acquire able to fail
for want of a slot of its stage, of any slot, or of budget.  In the arbiter two
runs and three stages are needed to tell "no slot", "no slot for this stage"
and "another run is next" from each other.

The fresh admission run has one generation and one mishap, because two of either
with liveness take longer than the other runs together; its safety properties are
proved for any number of them.  Two dispatches are a first
one and one that replaces it, two deliveries a task that comes back and one that
is given up, `RearmAt` 1 a rotation at the last delivery, and two failures the
counted one and the one that blocks.

Types are in no run: the theorems `LedgerTypeOK`, `TypesHold`, `FreshTypes` and
`AiTypesHold` say what the run of an instance could.

**Deadlock** is not checked where a run comes to an end: a request that is
over has no next step, and the bounds stop a behaviour in the same way.  What a
deadlock check would look for is what `RequestEnds`, `CapacityComesBack`,
`ResolversEnd`, `RunsEnd`, `AdmissionEnds` and `SomeJobIsLeft` say.

**Fairness.** `FairPipelineSpec` assumes weak fairness of `Progress`: as long as
*something* that the system does by itself can happen, something does.  The code
justifies it: Cloud Tasks redelivers a task that was not acknowledged, the sweep
is a scheduled job, an Actor has a timeout, leases run out with the clock, and a
process that has not crashed goes on.  No fairness is assumed of faults, stalls,
crashes, capacity waits or the operator.  `Progress` holds no action that can
be repeated for ever without an effect, so one weak fairness condition is
enough and is weaker than one for each action.
`dag_topology` assumes that jobs that can checkpoint do.

`ProviderAdmission` assumes weak fairness of the clock, the sweep and the
background cleanup, of redelivery, and of a worker that has not crashed; of the
operator it assumes nothing, and `CapacityComesBack` names the start that waits
for one.  `AiCalls` assumes weak fairness of each call's next step, of leases
running out, of the sweep and of the provider.  `AiScheduler` assumes weak
fairness of each run, of claims being answered and of operations ending, and
none of time: that a deadline passes is allowed to end a run and never needed,
so `RunsEnd` shows that runs end by themselves.

`FreshAdmission` assumes weak fairness of `Progress`: workers that have not
crashed go on, the queue delivers, callers finish what they began, the sweep is a
scheduled job, Actors end, and a lease or claim nobody works under runs out.  It
assumes nothing of users asking again or of the expiry.  Repetition is bounded by
deliveries and dispatches, so every behaviour of `Progress` is finite and one
condition is enough.  `AdmissionEnds` names the two ways out besides a settled
row: the preflight has expired, or the queue has used up the deliveries of the
present dispatch (`GivenUp`).

`RequestEnds` lets a request stay open in two ways, and names them:
`AwaitsOperator`, an unconfirmed paid start, which is the design, and
`Stranded`, the owner of a failure that can be neither claimed nor taken over,
which is the second finding below.

## 4. Proofs

`JobLedgerProofs` proves, for every graph that satisfies `DagAssumption`, every
set of tokens and every bound of `LedgerAssumption`:

| Theorem | Property |
|---|---|
| `LedgerTypeOK`, `LedgerRowChecks`, `LedgerDependencyOrder`, `LedgerOutcomeAgrees`, `LedgerNothingCharges` | the state invariants |
| `LedgerSettledStaysSettled`, `LedgerFailureChargedOnce` | the action properties |
| `LedgerImplementsLifecycle` | the refinement of `RequestLifecycle` |
| `LedgerInvariant` | the inductive invariant they rest on |

`IInv` is the conjunction of the five state properties, and they lean on each
other.  All of them need `TypeOK`: the owner of an intent is a job, an inserted
row is one of the job's proposals.  `NothingChargesAfterTheEnd` also needs
`OutcomeAgrees`: a function that reserves or starts a run wants a lease on a
processing job, and a request that is over has none.  The action properties need
it too (a job that owns a closed failure has failed, so no claim can open another
one), and the refinement needs `DependencyOrder` and `OutcomeAgrees` to show that
a job settles after its requirements and an owner fails once.  There is one lemma for each
conjunct, and in it one step for each function of the ledger; the action
properties and the refinement step follow from `IInv` before the step.

The proofs assume nothing of the callers, so they hold for the workers of
`AnalysisPipeline` and for any other client of these functions.

`AnalysisPipelineProofs` builds on them.  It assumes `PipelineAssumption`: the
bounds are natural numbers, the processes are finitely many, there are tokens
enough for every claim to draw one that nobody holds (the code draws a random
UUID for each), and every job but the bootstrap is required, directly or through
others, by the finalizer, which `GraphAlwaysAssumed` proves of the production graph.

| Theorem | Property |
|---|---|
| `PipelineImplementsLedger` | `PipelineSpec => Spec`: every step of a worker, a dispatcher or the sweep is a step of the ledger or leaves it alone, so all of the theorems above hold for the pipeline |
| `PipelineAtMostOnePaidStart`, `PipelineNoActorOutlivesRequest`, `PipelineOwnerNeverCompletes`, `PipelinePublishedIsWhole`, `PipelineOutboxAgreesWithQueue`, `PipelineDependencyOrder` | the safety properties of the pipeline runs |
| `PipelineAttemptsAreForFailures` (`AnalysisAttemptsProofs`) | the budget of attempts |
| `PipelineInvariant` | the inductive invariant `IInv /\ PInv` |

The conjuncts of `PInv`, beside shapes and types, are what the code relies on
without saying so:

* `StartsInv`: between the reservation of a run and the record of its start there
  is one process that may post the start, and as long as it has not, nothing was
  started.  Needed because the row alone cannot tell a start that was never made
  from one whose answer was lost.
* `ClaimsInv`: no two processes hold the same claim, and a live claim on the owner
  of a failure does not work on its stage.  Needed for `OwnerNeverCompletes`.
* `WholeInv`: a handler that is about to complete has checkpointed and its run is
  terminal, and publication has the closure of the finalizer behind it.  Needed
  for `PublishedIsWhole`, where the assumption on the graph is used.
* `OutboxInv`: what a dispatcher remembers is never ahead of its row.

`AttemptsInv` says that, while no failure has been charged, each job's attempts
are at most what mishaps account for and one more, and no more at all if nobody
holds a live claim on it.

`ProviderAdmissionProofs` proves, for all operations, budgets, ceilings, workers
and tokens, the types, `WithinBudgets`, `ActorsAreCounted`, `OneHolder` and the
refinement of `CapacityPool`.  The inductive invariant is
`AdmissionTypeOK /\ WorkersAgree /\ ClaimsAreOwn /\ RunsAreCounted /\
ActorsHaveRuns /\ StartsAreSingle /\ ReserverIsCounted /\ FencesAreOwn /\
WithinBudgets`.  A release is safe because a run row that may still start keeps
its place (`RunsAreCounted`), an Actor has a run row (`ActorsHaveRuns`) and a
worker between acquire and reserve is the only one that may start it
(`ReserverIsCounted`, `StartsAreSingle`).  The ceiling is a statement on the
cardinality of the counted leases.

`AiSchedulerProofs` proves the safety of the arbiter for any number of runs,
stages and slots; its only assumptions are the types of `SchedulerAssumption`.

* `CountersHold` (`CountersAgree`), from `SlotTypes /\ SlotsAreTaken /\
  CountersAgree`: an operation is named by its place in the queue of its stage, so
  a granted one is new to the slots, and each end takes out one that is there.
* `NextWaiterAwake` (`NextWaiterIsAwake`) and `ContinuationsAreNotEarly`
  (`NoEarlyContinuation`), from `RunInv`.  `RefusalStands` is what the generation
  counter is for: as long as nothing has changed since a run was refused, none of
  its waiters is next, and only such a run sleeps.  So every step that makes a
  waiter of a sleeping run the next one (a slot is given back, a waiter before it
  is cancelled or served) must be one that wakes it.  `WaitersHaveWork` says that
  who waits has an operation to start, `OverIsOver` that a run leaves no waiter
  behind.
* `StagesTakeTurns` (`NoStageStarves`): the offset of a stage from the cursor goes
  down when another stage is served before it, an argument on remainders.

`AiCallsProofs` proves the safety of the AI calls for any operations, handlers,
slots, attempts, costs, limits and mishaps.  `AiAssumption` asks that operations
and slots are finitely many, that the names for "nobody" name nobody, and that
the bounds and costs are natural numbers.

| Theorem | Property |
|---|---|
| `AiTypesHold` | the types |
| `AttemptsArePaidOnce`, `ChargesStay`, `BudgetHolds` | `PaidOnce`, `OwnCallsAreCharged`, `WithinBudget` |
| `ResultsAreTheHolders`, `OutcomesStay` | `ResultsAreOfTheClaim`, `OutcomesAreFinal` |
| `SlotsCover` | `SlotsCoverCalls` |

`AiInv` says, ledger by ledger, what a call that is somewhere in its loop may count
on while other handlers work on the same operation:

* `CallsAgree`: which attempt a call is at, and that it has sent this one or none;
* `RowsAgree`: every row but the last was turned away, and who is about to send an
  attempt, or sent it, opened its row.  A row has one opener and none is opened
  after an answer, which is why no attempt is paid twice;
* `ResultsAgree`: a result is that of the last row, which succeeded and was sent;
* `ChargesAgree`, `EstimatesAgree`: a reservation that a call has passed is charged,
  or belongs to another handler, and is charged at the estimate until it is settled;
* `SlotsAgree`: a call has a live slot while it sets up its attempt and while the
  provider works on it; resolvers have no more than their share;
* `WithinBudget`: the charges exceed the limit by no more than the calls cost above
  their estimates.  It is its own strengthening, given the others.

`WithinBudget` is about sums over all reservations.  That such a sum exists, and
what changing one reservation does to it (`SumsExist`, `SumUpdate`), is proved by
taking a smallest set for which it fails.

`AnalysisDagTopologyProofs` proves the properties of the planner for any number of
batches, with no assumption.

| Theorem | Property |
|---|---|
| `GraphAlwaysAssumed` | `GraphIsAssumed` |
| `ProposalsAlwaysFollow` | `ProposalsFollowRequirements` |
| `PlansGrow` | `PlanOnlyGrows` |
| `PlanInvariant` | the inductive invariant `PlanInv` |

`PlanInv` says that manifests come in the order of the requirements and that no
batch is known before the relationships job.  With it, `PlanIsReadiness` shows that
the hand-written readiness rules of the planner are "all required keys are there"
and `DependentsAreInverse` that its hand-written lists of dependents are the
inverse of its required keys; the proposals follow from the two.  `NeededIsReached`
solves the recursive definition of what the finalizer needs, one layer of the graph
at a time.  So what `DagAssumption` and `PipelineAssumption` ask of the graph holds
of the one the planner makes, whatever the relationships job finds.

`FreshAdmissionProofs` proves `AtMostOnePaidRun`, `ReadyLeavesNoActor`,
`WorkIsReachable` and `LateWorkersChangeNothing` for any number of workers,
callers, generations, dispatches and mishaps; its only assumptions are the bounds
of `FreshAdmissionAssumption`.  `FInv` is the conjunction of

* `WorkersAgree`: a claim belongs to one worker, so what is written under a live
  claim is written by its owner;
* `RowAgrees`: what the columns say together (a processing row has a claim and is
  enqueued, a consumed one is ready);
* `StartsAreSingle`: only the reservation that found no run may start an Actor,
  it is the only one of its generation that is about to, and nothing has been
  started before it; the row alone cannot tell this, because "starting" also
  stands for a start whose answer was lost;
* `CompletionIsQuiet`: the worker that may complete found no run or wrote its end,
  and nobody can reopen one as long as it is named on the row;
* `DispatchesAgree`: the queue knows every dispatch that was marked and none that
  is still to come, so a new one is never born acknowledged.

`LateWorkersChangeNothing` is an action property and has no run: it is proved
from `WorkersAgree`, and says that a detached or overtaken worker leaves the
status, the failures and the runs alone.

**Only model-checked:** liveness (`RequestEnds`, `FinalizerIsReached`,
`CapacityComesBack`, `AdmissionEnds`, `ResolverSlotsComeBack`, `ResolversEnd`,
`RunsEnd`), because fairness and ENABLED are out of the prover's reach.  Every
invariant and every action property of the runs that pass is the subject of a
theorem.

What shaped the models: the provers cannot instantiate the library's induction
theorems, which have an operator as a parameter, and see nothing in `SelectSeq` or
in a RECURSIVE operator.  Recursion is therefore written as functions, the waiters
of the arbiter are a map and not a sequence, and where an argument by induction is
needed it is made by hand, on the smallest counterexample.

## 5. Findings

Each is a run that TLC ends with a counterexample to a sentence of the
repository.

1. **`lost_join`** (`A/v2-worker.ts:735`).  One predecessor of a join checkpoints,
   reads the manifests and plans before the other has checkpointed, so its plan has
   no join.  The other checkpoints, sees both manifests and proposes the join, but
   completes first: a requirement of the join is still processing, so the join is
   not inserted.  The first then completes last, with its old plan, and the request
   stays active without a job.  20260714055611:58 says "The second of two concurrent
   completions therefore observes the first commit and opens a join exactly once":
   it observes the commit, but opens only what its caller planned before it.
2. **`stranded_owner`** (`A/v2-job-store.ts:431`).  A failure owner that waits for
   its cleanup goes back to pending and is claimed again and again, each time at
   the cost of an attempt.  At the limit the claim answers "not claimed,
   pending", which the store rejects; the takeover wants "processing".
   20260830102000:32 says "Return the still-processing job".
3. **`admission_wait`** (`lib/services/instagram/providers/apify-relationship.ts:459`).
   A refused admission is turned into a failed reservation by the Actor adapter,
   so the worker charges the attempt and a job that only waits for capacity
   fails.  docs/superpowers/specs/2026-08-31-automatic-analysis-capacity-stabilization-design.md:91
   says that such starts "remain `capacity_pending`".
4. **`cancelled_call`** (`lib/services/ai/gemini.ts:1200`).  Two handlers of one job
   share the reservation of an attempt.  When the claim of one has run out and it
   is refused its slot, it cancels the reservation under which the other has sent
   its call: the call is not charged and its answer is dropped.
   20260902090000:183 says "A cancelled reservation never reached the provider."

The following were met while modelling and have no run.

* The claim is given 7 as the limit for every job, so the 20 of
  `A/v2-worker.ts:104` is never reached (20260714031500:407;
  `tests/analysis/execution/v2-worker.test.ts:1688` expects a retry beyond 7).
* A wait for cleanup costs the owner of the failure an attempt
  (20260714031500:464), where 20260715175739:1 says it must not.
* An operator's resolution wants the failed job to be processing
  (20260714031500:805), which the wait for the cleanup undoes
  (`docs/analysis-v2-provider-lifecycle-runbook.md:91` asks to wait until all is
  quiet).
* A crash between acquiring a place and reserving the run: while the claim lives
  the release is refused, later the sweep closes the row as resolved, and from
  then on an acquire of the same run answers IDENTITY_CONFLICT, although
  docs/operations/automatic-analysis-capacity-stabilization.md:89 calls repeated
  delivery safe.  `admission` has this: the job fails.
* With a run stored as starting, redeliveries are put off with a refunded
  attempt and never open the cleanup intent that the operator's resolution needs.
* An answer that is lost when an AI attempt is reserved leaves the row reserved and
  its slot released, so later handlers answer "recovery pending" for ever.
* An operator who resolves the slot of a resolver before the recovery of cutoffs
  has run strands its open attempt.
* An acquire by a handler whose claim has run out quarantines the slot of the
  handler that has the claim now.
* In the fresh admission, too, a capacity wait before the start is a counted
  failure, for the reason of finding 3: `isProviderCapacityPending`
  (`A/fresh-plan-admission.ts:858`) looks for an error the adapter has replaced,
  while 20260831100000:2585 says that a denial spends no failure.
* A row that is pending and enqueued is not listed by the sweep, so once the queue
  has given its task up it waits for the expiry of the preflight.
* On the free credential pool a refused admission rejects the run it has just
  created, and the deliveries that follow end the admission as blocked.
* A run of the arbiter that awaits its own last operations leaves its waiters at
  the head of the queue, so other runs of the process get no slot though some are
  free; a rejected `defer` is only noticed by a run that is racing; a failing
  claim ends the run without awaiting what it admitted.

One more difference is not counted as a finding.  20260713155145:648 says of
`rearm_analysis_v2_job_dispatch` that "the caller must first prove Cloud Tasks
NOT_FOUND", and the rearm after a capacity wait is made by the delivery of the
very task it replaces.  The model has it (`CapacityWait` goes on to `rearm` with
its task still in the queue), and `AttemptsAreForFailures` and
`OutboxAgreesWithQueue` hold all the same: the generation fences the old task.

## 6. What is not modelled

Payload contents, hashes (equal inputs have equal hashes), cost figures,
progress and telemetry.  The order of row locks inside a function, and with it
database deadlocks (the hazard at 20260831100000:4489).  The two kinds of several
operations for one job: a paid job has one operation here.  Adopted runs.
Entitlements.  Purging after the end.  That `v_now` is read before a row lock is
waited for.  The limits of the planner on dependencies and successors, and the
limit of 1000 on generations.  The constraints on timestamps, hashes and error
codes.  Aborting a run at Apify and writing its final status are one step
(`AbortRun`): a crash between the two leaves an aborted run open, which the next
delivery or the sweep settles.

Of the fresh admission, the free credential pool, the beta hold, the settlement of
strict revenue cohorts, the self-hosted login route (it fails or answers like the
free one, and has no paid fallback) and the drain of tasks without a workload role
are left out; provider admission is enabled.  The renewal of a lease is one that
does not lapse, the second try of an unanswered acquire is an answer, and the
lookups around a task creation are folded into whether the creation is known to
have worked.  Of the sweep, only the loop over fresh admissions is modelled.

In admission, the rate window is a refusal that may happen at any time, and the
leases for AI calls and preflights that share the tables are not modelled
separately.  For AI calls, the semaphores of a process only delay a call or refuse
it earlier and are left out; the three scopes of the budget are one; a retry after
a rejected response ends in an error; a slot does not run out between its acquire
and the end of the call (240 s against at most 210 s,
`lib/services/ai/stage-policy.ts:77`); the global cache and the admission attached
to leases are left out.  A claim runs out under its handler (`LoseClaim`) where
the scheduler ends without awaiting what it admitted.  In the arbiter, claims
and operations end as the environment likes, and where a failure gives a slot back
and ends the run, the release and the cancellation of the run's waiters are one step.

The components marked `not_modelled` in `PROJECT.json`, each with its reason.

## 7. Plan

Done: `AnalysisDag`, `JobLedger`, `RequestLifecycle`, `AnalysisDagTopology`,
`AnalysisPipeline`, `ProviderAdmission`, `CapacityPool`, `FreshAdmission`,
`AiCalls`, `AiScheduler`, and the proofs of section 4.

1. **`Preflight`** - the first look of a preflight, on the same queue and with the
   same rotation as `FreshAdmission`, composed with it; an abstract outbox that
   both and `JobLedger` implement, with the refinement proved.
2. **`CreditPool`** - the reservations of the test credits, and with them the free
   pool of the fresh admission.
3. **`LockOrder`** - the row locks of the functions of `JobLedger` and of the
   role-checking wrappers around them, checked for deadlock.
4. The commerce outboxes, then the legacy step pipeline.
