---------------------------- MODULE FreshAdmission ----------------------------
(***************************************************************************)
(* The fresh admission of one paid preflight: the row that says how far    *)
(* the last look at the target account has come, the callers that reserve  *)
(* and dispatch it, the Cloud Tasks queue, the worker that runs the paid   *)
(* profile Actor under its claim, the rotation of a dispatch after a       *)
(* capacity wait and the sweep that repairs what a caller left reserved.   *)
(* Each step is one database function, one remote call or one queue event. *)
(*                                                                         *)
(* A preflight of the production access mode tries the free profile        *)
(* sources first, one with a test entitlement goes to the Actor at once;   *)
(* the free credential pool, the beta hold and the drain of tasks without  *)
(* a workload role are left out, and provider admission is enabled.  Time  *)
(* is abstract: what needs a delay may happen at any step, but a lease that *)
(* its owner works under, or a reservation that somebody dispatches, gets  *)
(* old only when they stall, and a stall is one of the bounded faults.     *)
(***************************************************************************)
EXTENDS Integers, FiniteSets

CONSTANTS
    Procs,          \* concurrently running worker invocations
    Users,          \* callers of the entitle route or of the fulfillment
    Sweeper,        \* the dispatch recovery sweep
    Tokens,         \* claim tokens
    NoToken,
    MaxFailures,    \* counted failures that block a generation
    MaxGenerations, \* refreshes of one preflight
    MaxDispatches,  \* dispatches of one generation
    QueueAttempts,  \* deliveries of one task
    RearmAt,        \* the retry count at which a dispatch is rotated
    MaxFaults       \* bound: crashes, stalls, errors, lost answers, the expiry

ASSUME FreshAdmissionAssumption ==
    /\ NoToken \notin Tokens /\ Sweeper \notin Users
    /\ MaxFailures \in Nat \ {0} /\ QueueAttempts \in Nat \ {0}
    /\ MaxGenerations \in Nat \ {0} /\ MaxDispatches \in Nat \ {0}
    /\ RearmAt \in Nat /\ MaxFaults \in Nat

VARIABLES
    (* the admission columns of analysis_preflights *)
    status, gen, dgen,
    dstate,     \* admission_dispatch_state
    claim,      \* admission_claim_token
    live,       \* the lease of the claim has not run out
    failures,
    current,    \* settled less than two minutes ago
    consumed, expired,
    (* per generation: the provider run and the admission lease *)
    run, lease,
    holder,     \* the claim that the lease was acquired with, until it is free
    (* Cloud Tasks: one deterministic task for each dispatch *)
    queue, retry,
    (* the workers *)
    pc, fence,
    token,      \* the claim it drew
    try,        \* the retry count it was delivered with
    attached,   \* the queue still waits for its answer
    (* the callers *)
    cpc, cfence,
    (* the rest of the world *)
    starts,     \* Actors started for a generation
    actor, faults

rowVars == <<status, gen, dgen, dstate, claim, live, failures, current, consumed, expired>>
runVars == <<run, lease, holder>>
queueVars == <<queue, retry>>
workVars == <<pc, fence, token, try, attached>>
callVars == <<cpc, cfence>>
worldVars == <<starts, actor>>
vars == <<rowVars, runVars, queueVars, workVars, callVars, worldVars, faults>>

Gens == 1..MaxGenerations
Fences == Gens \X (1..MaxDispatches)
NoFence == <<0, 0>>
Clients == Users \cup {Sweeper}

-----------------------------------------------------------------------------
FreshInit ==
    /\ status = "idle" /\ gen = 0 /\ dgen = 0 /\ dstate = "idle"
    /\ claim = NoToken /\ live = FALSE /\ failures = 0
    /\ current = FALSE /\ consumed = FALSE /\ expired = FALSE
    /\ run = [g \in Gens |-> "none"] /\ lease = [g \in Gens |-> "none"]
    /\ holder = [g \in Gens |-> NoToken]
    /\ queue = [f \in Fences |-> "none"] /\ retry = [f \in Fences |-> 0]
    /\ pc = [p \in Procs |-> "idle"] /\ fence = [p \in Procs |-> NoFence]
    /\ token = [p \in Procs |-> NoToken] /\ try = [p \in Procs |-> 0]
    /\ attached = [p \in Procs |-> FALSE]
    /\ cpc = [c \in Clients |-> "idle"] /\ cfence = [c \in Clients |-> NoFence]
    /\ starts = [g \in Gens |-> 0] /\ actor = [g \in Gens |-> "none"]
    /\ faults = MaxFaults

Fault == faults > 0 /\ faults' = faults - 1

Settled == status \in {"ready", "blocked"}
Open == ~consumed /\ ~expired
Present == <<gen, dgen>>

(* The generation that a worker was sent for.                              *)
G(p) == fence[p][1]

(* The dispatch that follows the one it was sent with.                     *)
Rotated(p) == <<G(p), fence[p][2] + 1>>

(* The row is processing under this worker's claim.                        *)
Named(p) == status = "processing" /\ gen = G(p) /\ claim = token[p]

(* What the provider-run functions ask for besides.                        *)
Owns(p) == Named(p) /\ live /\ Open

At(p, point) == pc[p] = point

Goto(p, point) ==
    /\ pc' = [pc EXCEPT ![p] = point]
    /\ UNCHANGED <<fence, token, try, attached>>

(* A token that nothing remembers: claims draw random UUIDs.               *)
UsedTokens == {claim} \cup {holder[g] : g \in Gens} \cup {token[p] : p \in Procs}
FreshToken == CHOOSE t \in Tokens : t \notin UsedTokens

-----------------------------------------------------------------------------
(* The queue.                                                              *)

(* A task of this name is created once; its name stays taken after it.     *)
Create(f) ==
    /\ queue' = [queue EXCEPT ![f] = IF @ = "none" THEN "queued" ELSE @]
    /\ UNCHANGED retry

(* With an error the task is delivered again, until its deliveries are     *)
(* used up.                                                                *)
TaskAnswered(f, ok) ==
    LET again == ~ok /\ retry[f] + 1 < QueueAttempts IN
    /\ queue' = [queue EXCEPT ![f] = IF ok THEN "done" ELSE IF again THEN "queued" ELSE "dropped"]
    /\ retry' = [retry EXCEPT ![f] = IF again THEN @ + 1 ELSE 0]

(* The worker ends.                                                        *)
Answer(p, ok) ==
    /\ IF attached[p] THEN TaskAnswered(fence[p], ok) ELSE UNCHANGED queueVars
    /\ pc' = [pc EXCEPT ![p] = "idle"] /\ fence' = [fence EXCEPT ![p] = NoFence]
    /\ token' = [token EXCEPT ![p] = NoToken] /\ try' = [try EXCEPT ![p] = 0]
    /\ attached' = [attached EXCEPT ![p] = FALSE]

Deliver(p, f) ==
    /\ At(p, "idle") /\ queue[f] = "queued"
    /\ queue' = [queue EXCEPT ![f] = "flying"]
    /\ pc' = [pc EXCEPT ![p] = "claim"] /\ fence' = [fence EXCEPT ![p] = f]
    /\ try' = [try EXCEPT ![p] = retry[f]] /\ attached' = [attached EXCEPT ![p] = TRUE]
    /\ UNCHANGED <<rowVars, runVars, retry, token, callVars, worldVars, faults>>

(* The instance dies.                                                      *)
Crash(p) ==
    /\ ~At(p, "idle") /\ Fault
    /\ Answer(p, FALSE)
    /\ UNCHANGED <<rowVars, runVars, callVars, worldVars>>

(* The dispatch deadline passes: the task goes back, the worker goes on.   *)
Detach(p) ==
    /\ attached[p] /\ Fault
    /\ attached' = [attached EXCEPT ![p] = FALSE]
    /\ TaskAnswered(fence[p], FALSE)
    /\ UNCHANGED <<rowVars, runVars, pc, fence, token, try, callVars, worldVars>>

-----------------------------------------------------------------------------
(* The callers: reserve, create the task, mark it dispatched.              *)

CGoto(c, point, f) ==
    /\ cpc' = [cpc EXCEPT ![c] = point] /\ cfence' = [cfence EXCEPT ![c] = f]

(* Whoever reserved the present dispatch is still at it: that it stays so  *)
(* for 30 seconds, or for two minutes, is a stall.                         *)
Dispatched ==
    \/ \E c \in Clients : cpc[c] \in {"enqueue", "mark"} /\ cfence[c] = Present
    \/ \E p \in Procs : pc[p] \in {"rearmtask", "rearmmark"} /\ Rotated(p) = Present

(* Broken: a dispatch that was rotated is overlooked.                      *)
OverdueUnlessRotated ==
    /\ status = "pending" /\ dstate = "reserved" /\ dgen = 1
    /\ IF Dispatched THEN Fault ELSE UNCHANGED faults

(* Somebody else may look after it now.                                    *)
Overdue ==
    /\ status = "pending" /\ dstate = "reserved"
    /\ IF Dispatched THEN Fault ELSE UNCHANGED faults

(* Reserved: a new dispatch of the generation, or a new generation.        *)
Redispatch(c) ==
    /\ dgen < MaxDispatches
    /\ dgen' = dgen + 1 /\ dstate' = "reserved"
    /\ CGoto(c, "enqueue", <<gen, dgen + 1>>)
    /\ UNCHANGED <<status, gen, claim, live, failures, current, consumed, expired>>

Regenerate(c) ==
    /\ gen < MaxGenerations
    /\ status' = "pending" /\ gen' = gen + 1 /\ dgen' = 1 /\ dstate' = "reserved"
    /\ claim' = NoToken /\ live' = FALSE /\ failures' = 0 /\ current' = FALSE
    /\ CGoto(c, "enqueue", <<gen + 1, 1>>)
    /\ UNCHANGED <<consumed, expired>>

(* A claim that ran out is taken back; its dispatch stays enqueued.        *)
TakeBack ==
    /\ status' = "pending" /\ claim' = NoToken /\ live' = FALSE
    /\ UNCHANGED <<gen, dgen, dstate, failures, current, consumed, expired, callVars>>

Reserve(c) ==
    /\ cpc[c] = "idle" /\ Open
    /\ \/ status = "processing" /\ ~live /\ TakeBack /\ UNCHANGED faults
       \/ Overdue /\ Redispatch(c)
       \/ (status = "idle" \/ (Settled /\ ~current)) /\ Regenerate(c) /\ UNCHANGED faults
       \/ status = "ready" /\ current /\ CGoto(c, "consume", NoFence) /\ UNCHANGED <<rowVars, faults>>
    /\ UNCHANGED <<runVars, queueVars, workVars, worldVars>>

(* The sweep finds a dispatch that has stayed reserved.                    *)
Sweep ==
    /\ cpc[Sweeper] = "idle" /\ Overdue /\ Open
    /\ CGoto(Sweeper, "enqueue", Present)
    /\ UNCHANGED <<rowVars, runVars, queueVars, workVars, worldVars>>

EnqueueTask(c) ==
    /\ cpc[c] = "enqueue"
    /\ Create(cfence[c])
    /\ CGoto(c, "mark", cfence[c])
    /\ UNCHANGED <<rowVars, runVars, workVars, worldVars, faults>>

(* The creation is not answered, and not looked up: the fence is kept.     *)
EnqueueUnanswered(c) ==
    /\ cpc[c] = "enqueue" /\ Fault
    /\ Create(cfence[c]) \/ UNCHANGED queueVars
    /\ CGoto(c, "idle", NoFence)
    /\ UNCHANGED <<rowVars, runVars, workVars, worldVars>>

(* Only this very dispatch is marked.                                      *)
MarkRow(f) ==
    /\ dstate' = IF Present = f /\ dstate = "reserved" THEN "enqueued" ELSE dstate
    /\ UNCHANGED <<status, gen, dgen, claim, live, failures, current, consumed, expired>>

Mark(c) ==
    /\ cpc[c] = "mark"
    /\ MarkRow(cfence[c])
    /\ CGoto(c, "idle", NoFence)
    /\ UNCHANGED <<runVars, queueVars, workVars, worldVars, faults>>

MarkUnanswered(c) ==
    /\ cpc[c] = "mark" /\ Fault
    /\ CGoto(c, "idle", NoFence)
    /\ UNCHANGED <<rowVars, runVars, queueVars, workVars, worldVars>>

(* The request is made of a ready admission that is still current.         *)
Consume(c) ==
    /\ cpc[c] = "consume"
    /\ consumed' = (consumed \/ (status = "ready" /\ current /\ ~expired))
    /\ CGoto(c, "idle", NoFence)
    /\ UNCHANGED <<status, gen, dgen, dstate, claim, live, failures, current, expired>>
    /\ UNCHANGED <<runVars, queueVars, workVars, worldVars, faults>>

-----------------------------------------------------------------------------
(* The worker: claim, load, and the profile Actor under the admission.     *)

Fails(p) == (~Owns(p) /\ UNCHANGED faults) \/ Fault

(* A delivery for another dispatch, or for what is settled, has nothing to *)
(* do; one that meets a live claim comes back later.                       *)
ClaimAnswer(p) ==
    IF ~Open \/ Present # fence[p] \/ status \notin {"pending", "processing"} THEN "noop"
    ELSE IF status = "processing" /\ live THEN "busy" ELSE "claimed"

(* Broken: a delivery that meets a live claim is done.                     *)
AcknowledgesBusy(p) == ClaimAnswer(p) \in {"noop", "busy"}

Acknowledges(p) == ClaimAnswer(p) = "noop"

ClaimAdmission(p) ==
    LET t == FreshToken IN
    /\ At(p, "claim") /\ ClaimAnswer(p) = "claimed" /\ t \in Tokens \ UsedTokens
    /\ status' = "processing" /\ claim' = t /\ live' = TRUE /\ dstate' = "enqueued"
    /\ token' = [token EXCEPT ![p] = t]
    /\ pc' = [pc EXCEPT ![p] = "load"]
    /\ UNCHANGED <<gen, dgen, failures, current, consumed, expired>>
    /\ UNCHANGED <<runVars, queueVars, fence, try, attached, callVars, worldVars, faults>>

ClaimNothing(p) ==
    /\ At(p, "claim") /\ ClaimAnswer(p) # "claimed"
    /\ Answer(p, Acknowledges(p))
    /\ UNCHANGED <<rowVars, runVars, callVars, worldVars, faults>>

(* Broken: the free profile is looked up although there is a run.          *)
AfterLoadFreeFirst(g) ==
    CASE run[g] = "rejected" -> {"count"}
      [] OTHER -> {"acquire", "complete", "block", "count"}

(* Without a run the free profile is enough, or is not there, or fails,    *)
(* or the Actor has to be started; a run that exists is always resumed.    *)
AfterLoad(g) ==
    CASE run[g] = "none" -> {"acquire", "complete", "block", "count"}
      [] run[g] \in {"starting", "running"} -> {"resume"}
      [] run[g] = "rejected" -> {"count"}
      [] OTHER -> {"wait"}

Load(p) ==
    /\ At(p, "load")
    /\ \/ Owns(p) /\ UNCHANGED faults /\ \E point \in AfterLoad(G(p)) : Goto(p, point)
       \/ Fails(p) /\ Goto(p, "release")
    /\ UNCHANGED <<rowVars, runVars, queueVars, callVars, worldVars>>

Install(p) ==
    /\ lease' = [lease EXCEPT ![G(p)] = "live"]
    /\ holder' = [holder EXCEPT ![G(p)] = token[p]]
    /\ UNCHANGED run

(* A run that did not end is admitted again before it is polled: it takes  *)
(* the place over that it has.                                             *)
Adopt(p) ==
    /\ At(p, "resume") /\ Owns(p)
    /\ run[G(p)] = "running" /\ lease[G(p)] \in {"live", "recovering"}
    /\ Install(p)
    /\ Goto(p, "wait")
    /\ UNCHANGED <<rowVars, queueVars, callVars, worldVars, faults>>

(* The place has lapsed, or no Actor is known to have it: a capacity wait. *)
(* Without a claim, or with a start in another's place, a counted failure. *)
ResumeRefused(p) ==
    /\ At(p, "resume")
    /\ \/ /\ Owns(p) /\ UNCHANGED faults
          /\ \/ lease[G(p)] = "lapsed" /\ Goto(p, "defer")
             \/ run[G(p)] = "starting" /\ lease[G(p)] = "recovering" /\ Goto(p, "defer")
             \/ run[G(p)] = "starting" /\ lease[G(p)] = "live" /\ Goto(p, "count")
       \/ ~Owns(p) /\ UNCHANGED faults /\ Goto(p, "count")
       \/ Fault /\ Goto(p, "release")
    /\ UNCHANGED <<rowVars, runVars, queueVars, callVars, worldVars>>

CanInstall(p) == Owns(p) /\ lease[G(p)] \in {"none", "prestart"}

Acquire(p) ==
    /\ At(p, "acquire") /\ CanInstall(p)
    /\ Install(p)
    /\ Goto(p, "reserve")
    /\ UNCHANGED <<rowVars, queueVars, callVars, worldVars, faults>>

(* Other operations have every place, the place is not to be had, or no    *)
(* answer comes: the adapter makes a counted failure of each of them.      *)
AcquireFails(p) ==
    /\ At(p, "acquire")
    /\ \/ UNCHANGED <<runVars, faults>>
       \/ CanInstall(p) /\ Fault /\ Install(p)
    /\ Goto(p, "count")
    /\ UNCHANGED <<rowVars, queueVars, callVars, worldVars>>

(* The provider-run ledger proves that the place is not needed any more.   *)
LedgerSettled(g, r) ==
    IF r = "none" THEN ~(status = "processing" /\ gen = g /\ claim = holder[g] /\ live /\ Open)
    ELSE r \notin {"starting", "running"}

(* releaseHeld, given the run as it will be: it fails when the lease was   *)
(* taken into recovery or the run is not settled.                          *)
CanGiveBack(p, r) ==
    /\ holder[G(p)] = token[p] /\ lease[G(p)] \in {"live", "lapsed"}
    /\ LedgerSettled(G(p), r)

GiveBack(p, r, why) ==
    /\ lease' = [lease EXCEPT ![G(p)] = IF CanGiveBack(p, r) THEN why ELSE @]
    /\ holder' = [holder EXCEPT ![G(p)] = IF CanGiveBack(p, r) THEN NoToken ELSE @]

SetRun(p, r) == run' = [run EXCEPT ![G(p)] = r]

(* Only the reservation that creates the run goes on to the start.         *)
CreatesRun(p) == Owns(p) /\ run[G(p)] = "none"

ReserveRun(p) ==
    /\ At(p, "reserve") /\ CreatesRun(p)
    /\ SetRun(p, "starting")
    /\ Goto(p, "start")
    /\ UNCHANGED <<rowVars, lease, holder, queueVars, callVars, worldVars, faults>>

ReserveFails(p) ==
    /\ At(p, "reserve")
    /\ \/ ~CreatesRun(p) /\ UNCHANGED <<run, faults>>
       \/ CreatesRun(p) /\ Fault /\ (SetRun(p, "starting") \/ UNCHANGED run)
    /\ GiveBack(p, run'[G(p)], "prestart")
    /\ Goto(p, "count")
    /\ UNCHANGED <<rowVars, queueVars, callVars, worldVars>>

Run(p) ==
    /\ starts' = [starts EXCEPT ![G(p)] = @ + 1]
    /\ actor' = [actor EXCEPT ![G(p)] = "running"]

(* Broken: a start without an answer is sent once more.                    *)
AfterUnansweredAgain == "start"

(* An Actor start has no idempotency key and is never sent twice.          *)
AfterUnanswered == "count"

StartActor(p) ==
    /\ At(p, "start")
    /\ \/ Run(p) /\ Goto(p, "started") /\ UNCHANGED faults
       \/ Goto(p, "rejected") /\ UNCHANGED <<worldVars, faults>>
       \/ Fault /\ (Run(p) \/ UNCHANGED worldVars) /\ Goto(p, AfterUnanswered)
    /\ UNCHANGED <<rowVars, runVars, queueVars, callVars>>

CheckStarted(p) ==
    /\ At(p, "started") /\ Owns(p) /\ run[G(p)] = "starting"
    /\ SetRun(p, "running")
    /\ Goto(p, "wait")
    /\ UNCHANGED <<rowVars, lease, holder, queueVars, callVars, worldVars, faults>>

(* The run id cannot be written: the Actor is aborted as well as we can,   *)
(* and the place is kept.                                                  *)
CheckStartedFails(p) ==
    /\ At(p, "started") /\ Fails(p)
    /\ UNCHANGED run \/ (Owns(p) /\ run[G(p)] = "starting" /\ SetRun(p, "running"))
    /\ UNCHANGED actor \/ (actor[G(p)] = "running" /\ actor' = [actor EXCEPT ![G(p)] = "aborted"])
    /\ Goto(p, "count")
    /\ UNCHANGED <<rowVars, lease, holder, queueVars, callVars, starts>>

(* The refusal is written and the place given back, whatever comes of it.  *)
CheckRejected(p) ==
    /\ At(p, "rejected")
    /\ \/ Owns(p) /\ UNCHANGED faults /\ SetRun(p, "rejected")
       \/ Fails(p) /\ UNCHANGED run
    /\ GiveBack(p, run'[G(p)], "prestart")
    /\ Goto(p, IF run' # run /\ CanGiveBack(p, run'[G(p)]) THEN "count" ELSE "release")
    /\ UNCHANGED <<rowVars, queueVars, callVars, worldVars>>

Ended(g) == actor[g] \in {"succeeded", "failed", "aborted"}

WaitLonger(p) ==
    /\ At(p, "wait")
    /\ (~Ended(G(p)) /\ UNCHANGED faults) \/ Fault
    /\ Goto(p, "release")
    /\ UNCHANGED <<rowVars, runVars, queueVars, callVars, worldVars>>

(* The dataset: a profile, none or a private one, or an error.             *)
Read(g) == IF actor[g] = "succeeded" THEN {"attest", "block", "count"} ELSE {"count"}

(* The outcome is written before the place is given back; a worker that    *)
(* resumed an outcome has no place.  Then the dataset is read.             *)
Finish(p) ==
    /\ At(p, "wait") /\ Ended(G(p)) /\ Owns(p)
    /\ SetRun(p, actor[G(p)])
    /\ GiveBack(p, actor[G(p)], "released")
    /\ \E point \in IF holder[G(p)] = token[p] /\ lease' = lease THEN {"count"} ELSE Read(G(p)) :
          Goto(p, point)
    /\ UNCHANGED <<rowVars, queueVars, callVars, worldVars, faults>>

FinishFails(p) ==
    /\ At(p, "wait") /\ Ended(G(p)) /\ Fails(p)
    /\ UNCHANGED run \/ (Owns(p) /\ SetRun(p, actor[G(p)]))
    /\ Goto(p, "count")
    /\ UNCHANGED <<rowVars, lease, holder, queueVars, callVars, worldVars>>

Attest(p) ==
    /\ At(p, "attest")
    /\ \/ Owns(p) /\ UNCHANGED faults /\ Goto(p, "complete")
       \/ Fails(p) /\ Goto(p, "release")
    /\ UNCHANGED <<rowVars, runVars, queueVars, callVars, worldVars>>

-----------------------------------------------------------------------------
(* How the worker leaves the row.                                          *)

LeaveAs(s) ==
    /\ status' = s /\ claim' = NoToken /\ live' = FALSE
    /\ current' = (s # "pending")
    /\ UNCHANGED <<gen, dgen, dstate, consumed, expired>>

(* Complete: ready, or blocked when no plan holds so many followers.       *)
Complete(p) ==
    /\ At(p, "complete") /\ Named(p) /\ Open
    /\ LeaveAs("ready") \/ LeaveAs("blocked")
    /\ UNCHANGED failures
    /\ \/ Answer(p, TRUE) /\ UNCHANGED faults
       \/ Fault /\ Goto(p, "release") /\ UNCHANGED queueVars
    /\ UNCHANGED <<runVars, callVars, worldVars>>

Block(p) ==
    /\ At(p, "block") /\ Named(p)
    /\ LeaveAs("blocked")
    /\ Answer(p, TRUE)
    /\ UNCHANGED <<failures, runVars, callVars, worldVars, faults>>

(* Without the claim, or without an answer, the claim is released.         *)
SettleFails(p) ==
    /\ pc[p] \in {"complete", "block", "count"}
    /\ \/ ~Named(p) /\ UNCHANGED faults
       \/ At(p, "complete") /\ ~Open /\ UNCHANGED faults
       \/ Fault
    /\ Goto(p, "release")
    /\ UNCHANGED <<rowVars, runVars, queueVars, callVars, worldVars>>

(* A failure is counted; the last one blocks and needs no more deliveries. *)
Count(p) ==
    LET blocks == failures + 1 >= MaxFailures IN
    /\ At(p, "count") /\ Named(p)
    /\ failures' = failures + 1
    /\ LeaveAs(IF blocks THEN "blocked" ELSE "pending")
    /\ Answer(p, blocks)
    /\ UNCHANGED <<runVars, callVars, worldVars, faults>>

(* The row is given back if it is still this worker's; the task returns.   *)
Release(p) ==
    /\ At(p, "release")
    /\ \/ Named(p) /\ LeaveAs("pending") /\ UNCHANGED <<failures, faults>>
       \/ ~Named(p) /\ UNCHANGED <<rowVars, faults>>
       \/ Named(p) /\ Fault /\ UNCHANGED rowVars
    /\ Answer(p, FALSE)
    /\ UNCHANGED <<runVars, callVars, worldVars>>

(* A capacity wait: late deliveries rotate the dispatch.                   *)
Defer(p) ==
    /\ At(p, "defer") /\ Owns(p) /\ dstate = "enqueued"
    /\ LeaveAs("pending")
    /\ IF try[p] >= RearmAt THEN Goto(p, "rearm") /\ UNCHANGED queueVars ELSE Answer(p, FALSE)
    /\ UNCHANGED <<failures, runVars, callVars, worldVars, faults>>

DeferFails(p) ==
    /\ At(p, "defer") /\ Fails(p)
    /\ Goto(p, "release")
    /\ UNCHANGED <<rowVars, runVars, queueVars, callVars, worldVars>>

CanRearm(p) ==
    /\ status = "pending" /\ dstate = "enqueued" /\ Present = fence[p] /\ Open
    /\ dgen < MaxDispatches

Rearm(p) ==
    /\ At(p, "rearm") /\ CanRearm(p)
    /\ dgen' = dgen + 1 /\ dstate' = "reserved"
    /\ Goto(p, "rearmtask")
    /\ UNCHANGED <<status, gen, claim, live, failures, current, consumed, expired>>
    /\ UNCHANGED <<runVars, queueVars, callVars, worldVars, faults>>

RearmTask(p) ==
    /\ At(p, "rearmtask")
    /\ Create(Rotated(p))
    /\ Goto(p, "rearmmark")
    /\ UNCHANGED <<rowVars, runVars, callVars, worldVars, faults>>

RearmMark(p) ==
    /\ At(p, "rearmmark")
    /\ IF status = "pending" THEN MarkRow(Rotated(p)) ELSE UNCHANGED rowVars
    /\ Answer(p, FALSE)
    /\ UNCHANGED <<runVars, callVars, worldVars, faults>>

(* The rotation is refused, or one of its calls is not answered: whatever  *)
(* was reserved stays reserved, and the delivery returns.                  *)
RearmFails(p) ==
    /\ pc[p] \in {"rearm", "rearmtask", "rearmmark"}
    /\ (At(p, "rearm") /\ ~CanRearm(p) /\ UNCHANGED faults) \/ Fault
    /\ Answer(p, FALSE)
    /\ UNCHANGED <<rowVars, runVars, callVars, worldVars>>

-----------------------------------------------------------------------------
(* The rest of the world.                                                  *)

ActorEnds(g) ==
    /\ actor[g] = "running"
    /\ \E s \in {"succeeded", "failed"} : actor' = [actor EXCEPT ![g] = s]
    /\ UNCHANGED <<rowVars, runVars, queueVars, workVars, callVars, starts, faults>>

(* Its worker is within its dispatch deadline.                             *)
Works(t) == t # NoToken /\ \E p \in Procs : token[p] = t /\ attached[p]

ClaimLapses ==
    /\ live
    /\ IF Works(claim) THEN Fault ELSE UNCHANGED faults
    /\ live' = FALSE
    /\ UNCHANGED <<status, gen, dgen, dstate, claim, failures, current, consumed, expired>>
    /\ UNCHANGED <<runVars, queueVars, workVars, callVars, worldVars>>

SetLease(g, s) ==
    /\ lease' = [lease EXCEPT ![g] = s]
    /\ holder' = [holder EXCEPT ![g] = IF s = "released" THEN NoToken ELSE @]
    /\ UNCHANGED <<rowVars, run, queueVars, workVars, callVars, worldVars>>

LeaseLapses(g) ==
    /\ lease[g] = "live"
    /\ IF Works(holder[g]) THEN Fault ELSE UNCHANGED faults
    /\ SetLease(g, "lapsed")

(* The sweep of the admission leases.                                      *)
RecoverLease(g) == lease[g] = "lapsed" /\ SetLease(g, "recovering") /\ UNCHANGED faults

ResolveLease(g) ==
    /\ lease[g] = "recovering" /\ LedgerSettled(g, run[g])
    /\ SetLease(g, "released") /\ UNCHANGED faults

Age ==
    /\ current /\ current' = FALSE
    /\ UNCHANGED <<status, gen, dgen, dstate, claim, live, failures, consumed, expired>>
    /\ UNCHANGED <<runVars, queueVars, workVars, callVars, worldVars, faults>>

Expire ==
    /\ ~expired /\ expired' = TRUE
    /\ Fault
    /\ UNCHANGED <<status, gen, dgen, dstate, claim, live, failures, current, consumed>>
    /\ UNCHANGED <<runVars, queueVars, workVars, callVars, worldVars>>

-----------------------------------------------------------------------------
Work(p) ==
    \/ ClaimAdmission(p) \/ ClaimNothing(p) \/ Load(p)
    \/ Adopt(p) \/ ResumeRefused(p) \/ Acquire(p) \/ AcquireFails(p)
    \/ ReserveRun(p) \/ ReserveFails(p) \/ StartActor(p)
    \/ CheckStarted(p) \/ CheckStartedFails(p) \/ CheckRejected(p)
    \/ WaitLonger(p) \/ Finish(p) \/ FinishFails(p) \/ Attest(p)
    \/ Complete(p) \/ Block(p) \/ SettleFails(p) \/ Count(p) \/ Release(p)
    \/ Defer(p) \/ DeferFails(p)
    \/ Rearm(p) \/ RearmTask(p) \/ RearmMark(p) \/ RearmFails(p)

Dispatch(c) == EnqueueTask(c) \/ EnqueueUnanswered(c) \/ Mark(c) \/ MarkUnanswered(c)

Leases(g) == LeaseLapses(g) \/ RecoverLease(g) \/ ResolveLease(g)

FreshNext ==
    \/ \E p \in Procs : Work(p) \/ Crash(p) \/ Detach(p) \/ \E f \in Fences : Deliver(p, f)
    \/ \E c \in Clients : Dispatch(c)
    \/ \E c \in Users : Reserve(c) \/ Consume(c)
    \/ Sweep
    \/ \E g \in Gens : ActorEnds(g) \/ Leases(g)
    \/ ClaimLapses \/ Age \/ Expire

FreshSpec == FreshInit /\ [][FreshNext]_vars

(* Workers run on, the queue delivers, callers and sweeps finish what they *)
(* began, Actors end and leases that nobody works under lapse.             *)
Progress ==
    \/ \E p \in Procs : Work(p) \/ \E f \in Fences : Deliver(p, f)
    \/ \E c \in Clients : Dispatch(c)
    \/ ~Dispatched /\ Sweep
    \/ \E g \in Gens : ActorEnds(g) \/ RecoverLease(g) \/ ResolveLease(g)
    \/ ~Works(claim) /\ ClaimLapses
    \/ \E g \in Gens : ~Works(holder[g]) /\ LeaseLapses(g)

(* Nobody has to ask again, and the preflight need not expire.  Each kind  *)
(* of step is scheduled by itself; that one of them is taken while any can *)
(* be is less, and enough, because deliveries and dispatches are bounded.  *)
FreshFairness == WF_vars(Progress)

FreshFairSpec == FreshSpec /\ FreshFairness

-----------------------------------------------------------------------------
RunStates == {"none", "starting", "running", "rejected", "succeeded", "failed", "aborted"}
Points == {"idle", "claim", "load", "resume", "acquire", "reserve", "start", "started",
           "rejected", "wait", "attest", "complete", "block", "count", "release",
           "defer", "rearm", "rearmtask", "rearmmark"}

RowTypeOK ==
    /\ status \in {"idle", "pending", "processing", "ready", "blocked"}
    /\ gen \in 0..MaxGenerations /\ dgen \in 0..MaxDispatches
    /\ dstate \in {"idle", "reserved", "enqueued"}
    /\ claim \in Tokens \cup {NoToken} /\ failures \in 0..MaxFailures
    /\ live \in BOOLEAN /\ current \in BOOLEAN
    /\ consumed \in BOOLEAN /\ expired \in BOOLEAN

RunTypeOK ==
    /\ run \in [Gens -> RunStates]
    /\ lease \in [Gens -> {"none", "live", "lapsed", "recovering", "prestart", "released"}]
    /\ holder \in [Gens -> Tokens \cup {NoToken}]

QueueTypeOK ==
    /\ queue \in [Fences -> {"none", "queued", "flying", "done", "dropped"}]
    /\ retry \in [Fences -> Nat]

WorkTypeOK ==
    /\ pc \in [Procs -> Points] /\ fence \in [Procs -> Fences \cup {NoFence}]
    /\ token \in [Procs -> Tokens \cup {NoToken}]
    /\ try \in [Procs -> Nat] /\ attached \in [Procs -> BOOLEAN]

CallTypeOK ==
    /\ cpc \in [Clients -> {"idle", "enqueue", "mark", "consume"}]
    /\ cfence \in [Clients -> Fences \cup {NoFence}]

WorldTypeOK ==
    /\ starts \in [Gens -> Nat]
    /\ actor \in [Gens -> {"none", "running", "succeeded", "failed", "aborted"}]

(* Every variable stays in its range.                                      *)
FreshTypeOK ==
    /\ RowTypeOK /\ RunTypeOK /\ QueueTypeOK
    /\ WorkTypeOK /\ CallTypeOK /\ WorldTypeOK
    /\ faults \in 0..MaxFaults

(* However often a generation is claimed, crashed and dispatched again, it *)
(* starts one paid Actor at most.                                          *)
AtMostOnePaidRun == \A g \in Gens : starts[g] <= 1

(* An admission is ready only when the Actor that its generation started   *)
(* has ended: a later look that finds the profile for free never leaves a  *)
(* paid run behind.                                                        *)
ReadyLeavesNoActor == status = "ready" => actor[gen] # "running"

(* While an admission waits or is worked on and is marked dispatched, the  *)
(* task of that very dispatch is still going to be delivered, or the queue *)
(* itself has given it up; no acknowledgement, rotation or repair loses it.*)
WorkIsReachable ==
    status \in {"pending", "processing"} /\ dstate = "enqueued" /\ ~expired
        => queue[Present] \in {"queued", "flying", "dropped"}

(* A worker whose claim is gone, or was taken over, changes neither the    *)
(* state of the admission nor its failures nor any provider run.           *)
LateWorkersChangeNothing ==
    [][\A p \in Procs :
          pc'[p] # pc[p] /\ token[p] # NoToken /\ token[p] # claim
              => UNCHANGED <<status, failures, run>>]_vars

(* The queue has used up the deliveries of the present dispatch.           *)
GivenUp == \E f \in Fences : f = Present /\ queue[f] = "dropped"

(* Every admission that was asked for is settled, unless the preflight     *)
(* expires or the queue gives the task of the present dispatch up.         *)
AdmissionEnds == status \in {"pending", "processing"} ~> (Settled \/ expired \/ GivenUp)
=============================================================================
