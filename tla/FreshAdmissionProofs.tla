------------------------ MODULE FreshAdmissionProofs ------------------------
(***************************************************************************)
(* Proofs about FreshAdmission, for any number of workers and callers, of  *)
(* generations, dispatches, deliveries and failures.                       *)
(*                                                                         *)
(* The argument: a claim belongs to one worker (WorkersAgree), so what is  *)
(* written under a live claim is written by its owner alone.  Hence only   *)
(* the reservation that found no run starts an Actor, and it is the only   *)
(* one that is about to (StartsAreSingle); and the worker that completes   *)
(* the admission found no run or wrote its end, which nobody can undo as   *)
(* long as it is named on the row (CompletionIsQuiet).  The queue holds a  *)
(* task for every dispatch that was marked, and for none that is still to  *)
(* come (DispatchesAgree), so a new dispatch is never born acknowledged.   *)
(***************************************************************************)
EXTENDS FreshAdmission, TLAPS

InWork == status \in {"pending", "processing"}
Starting(p) == pc[p] \in {"start", "started", "rejected"}
Quiet(g) == run[g] \notin {"starting", "running"}

(* A dispatch that has not been reserved yet. *)
Beyond(f) == f[1] > gen \/ (f[1] = gen /\ f[2] > dgen)

(* Where a worker or a caller is, it has what it needs there, and a claim  *)
(* belongs to the worker that drew it. *)
WorkerAgrees(p) ==
    /\ pc[p] = "idle" => ~attached[p]
    /\ pc[p] # "idle" => fence[p] \in Fences
    /\ pc[p] \in {"idle", "claim"} => token[p] = NoToken
    /\ pc[p] \notin {"idle", "claim"} => token[p] \in Tokens
    /\ pc[p] \in {"rearmtask", "rearmmark"} => Rotated(p) \in Fences

WorkersAgree ==
    /\ \A p \in Procs : WorkerAgrees(p)
    /\ \A p, q \in Procs : p # q /\ token[p] = token[q] => token[p] = NoToken
    /\ \A c \in Clients : cpc[c] \in {"enqueue", "mark"} => cfence[c] \in Fences

RowAgrees ==
    /\ status # "idle" => Present \in Fences
    /\ status = "processing" => claim \in Tokens /\ dstate = "enqueued"
    /\ InWork => failures < MaxFailures
    /\ consumed => status = "ready"

(* A start that is under way is the only one of its generation, and nobody *)
(* started anything before. *)
StartsAreSingle ==
    /\ AtMostOnePaidRun
    /\ \A p \in Procs :
          /\ Starting(p) => run[G(p)] = "starting"
          /\ pc[p] \in {"start", "rejected"} => starts[G(p)] = 0 /\ actor[G(p)] = "none"
          /\ pc[p] = "wait" => run[G(p)] \in {"running", "succeeded", "failed", "aborted"}
    /\ \A p, q \in Procs : Starting(p) /\ Starting(q) /\ G(p) = G(q) => p = q
    /\ \A g \in Gens : run[g] = "none" => starts[g] = 0 /\ actor[g] = "none"
    /\ \A g \in Gens : actor[g] = "running" => run[g] \in {"starting", "running"}

(* Nobody who may complete the admission leaves a run open. *)
CompletionIsQuiet ==
    /\ \A p \in Procs : pc[p] \in {"attest", "complete"} /\ Named(p) => Quiet(G(p))
    /\ status = "ready" => Quiet(gen)

(* The queue knows every dispatch that somebody has seen in it, and none   *)
(* that is still to come; the present one is not acknowledged while there  *)
(* is work. *)
DispatchesAgree ==
    /\ InWork /\ ~expired => queue[Present] # "done"
    /\ InWork /\ dstate = "enqueued" => queue[Present] # "none"
    /\ \A f \in Fences : Beyond(f) => queue[f] = "none"
    /\ \A p \in Procs : pc[p] # "idle" => queue[fence[p]] # "none"
    /\ \A p \in Procs : pc[p] \in {"rearmtask", "rearmmark"} => ~Beyond(Rotated(p))
    /\ \A p \in Procs : pc[p] = "rearmmark" => queue[Rotated(p)] # "none"
    /\ \A c \in Clients : cpc[c] \in {"enqueue", "mark"} => ~Beyond(cfence[c])
    /\ \A c \in Clients : cpc[c] = "mark" => queue[cfence[c]] # "none"

(* The inductive invariant. *)
FInv ==
    /\ FreshTypeOK /\ WorkersAgree /\ RowAgrees
    /\ StartsAreSingle /\ CompletionIsQuiet /\ DispatchesAgree

-----------------------------------------------------------------------------
(* Before anything is asked for the inductive invariant holds.             *)
LEMMA InitFInv == FreshInit => FInv
<1>. SUFFICES ASSUME FreshInit PROVE FInv
  OBVIOUS
<1>. USE FreshAdmissionAssumption DEF FreshInit, Gens, Fences, Clients, NoFence
<1>1. FreshTypeOK
  <2>1. gen \in 0..MaxGenerations /\ dgen \in 0..MaxDispatches /\ failures \in 0..MaxFailures
    OBVIOUS
  <2>2. RowTypeOK
    BY <2>1 DEF RowTypeOK
  <2>3. RunTypeOK /\ QueueTypeOK
    BY DEF RunTypeOK, QueueTypeOK, RunStates
  <2>4. WorkTypeOK /\ CallTypeOK /\ WorldTypeOK
    BY DEF WorkTypeOK, CallTypeOK, WorldTypeOK, Points
  <2>. QED
    BY <2>2, <2>3, <2>4 DEF FreshTypeOK
<1>2. WorkersAgree /\ RowAgrees
  BY DEF WorkersAgree, WorkerAgrees, RowAgrees, InWork
<1>3. StartsAreSingle /\ CompletionIsQuiet
  BY DEF StartsAreSingle, AtMostOnePaidRun, CompletionIsQuiet, Starting, Named
<1>4. DispatchesAgree
  BY DEF DispatchesAgree, InWork
<1>. QED
  BY <1>1, <1>2, <1>3, <1>4 DEF FInv

-----------------------------------------------------------------------------
(* What each kind of write does to the types of its columns.               *)
LEMMA RowTypes ==
    ASSUME RowTypeOK, RowAgrees
    PROVE  /\ UNCHANGED rowVars => RowTypeOK'
           /\ \A s \in {"pending", "ready", "blocked"} :
                 LeaveAs(s) /\ failures' \in 0..MaxFailures => RowTypeOK'
           /\ TakeBack => RowTypeOK'
           /\ \A c : Redispatch(c) \/ Regenerate(c) => RowTypeOK'
           /\ \A f : MarkRow(f) => RowTypeOK'
<1>. USE FreshAdmissionAssumption DEF RowTypeOK
<1>1. UNCHANGED rowVars => RowTypeOK'
  BY DEF rowVars
<1>2. ASSUME NEW s \in {"pending", "ready", "blocked"}, LeaveAs(s), failures' \in 0..MaxFailures
      PROVE  RowTypeOK'
  BY <1>2 DEF LeaveAs
<1>3. TakeBack => RowTypeOK'
  BY DEF TakeBack
<1>4. ASSUME NEW c, Redispatch(c) PROVE RowTypeOK'
  BY <1>4 DEF Redispatch
<1>5. ASSUME NEW c, Regenerate(c) PROVE RowTypeOK'
  <2>1. /\ gen' \in 0..MaxGenerations /\ dgen' \in 0..MaxDispatches
        /\ failures' \in 0..MaxFailures
    BY <1>5 DEF Regenerate
  <2>. QED
    BY <1>5, <2>1 DEF Regenerate
<1>6. ASSUME NEW f, MarkRow(f) PROVE RowTypeOK'
  BY <1>6 DEF MarkRow
<1>. QED
  BY <1>1, <1>2, <1>3, <1>4, <1>5, <1>6

(* The same for the runs and their leases. *)
LEMMA RunTypes ==
    ASSUME RunTypeOK, NEW p \in Procs, token[p] \in Tokens \cup {NoToken}
    PROVE  /\ UNCHANGED runVars => RunTypeOK'
           /\ Install(p) => RunTypeOK'
           /\ \A r \in RunStates : SetRun(p, r) /\ UNCHANGED <<lease, holder>> => RunTypeOK'
           /\ \A r : \A why \in {"prestart", "released"} :
                 GiveBack(p, r, why) /\ run' \in [Gens -> RunStates] => RunTypeOK'
           /\ \A r \in RunStates : SetRun(p, r) => run' \in [Gens -> RunStates]
<1>. USE DEF RunTypeOK
<1>1. UNCHANGED runVars => RunTypeOK'
  BY DEF runVars
<1>2. Install(p) => RunTypeOK'
  BY DEF Install
<1>3. ASSUME NEW r \in RunStates, SetRun(p, r) PROVE run' \in [Gens -> RunStates]
  BY <1>3 DEF SetRun
<1>4. ASSUME NEW r, NEW why \in {"prestart", "released"}, GiveBack(p, r, why)
      PROVE  /\ lease' \in [Gens -> {"none", "live", "lapsed", "recovering", "prestart", "released"}]
             /\ holder' \in [Gens -> Tokens \cup {NoToken}]
  BY <1>4 DEF GiveBack
<1>. QED
  BY <1>1, <1>2, <1>3, <1>4

(* Giving a lease up, or taking one into recovery, keeps the types. *)
LEMMA LeaseTypes ==
    ASSUME RunTypeOK, NEW g \in Gens
    PROVE  \A s \in {"lapsed", "recovering", "released"} : SetLease(g, s) => RunTypeOK'
  BY DEF RunTypeOK, SetLease

(* The same for the queue. *)
LEMMA QueueTypes ==
    ASSUME QueueTypeOK
    PROVE  /\ UNCHANGED queueVars => QueueTypeOK'
           /\ \A f : Create(f) => QueueTypeOK'
           /\ \A f \in Fences : \A ok : TaskAnswered(f, ok) => QueueTypeOK'
<1>. USE DEF QueueTypeOK
<1>1. UNCHANGED queueVars => QueueTypeOK'
  BY DEF queueVars
<1>2. ASSUME NEW f, Create(f) PROVE QueueTypeOK'
  BY <1>2 DEF Create
<1>3. ASSUME NEW f \in Fences, NEW ok, TaskAnswered(f, ok) PROVE QueueTypeOK'
  <2>1. queue' \in [Fences -> {"none", "queued", "flying", "done", "dropped"}]
    BY <1>3 DEF TaskAnswered
  <2>2. retry' \in [Fences -> Nat]
    BY <1>3 DEF TaskAnswered
  <2>. QED
    BY <2>1, <2>2
<1>. QED
  BY <1>1, <1>2, <1>3

(* A worker that goes on or answers keeps its type, and so does the queue. *)
LEMMA WorkTypes ==
    ASSUME WorkTypeOK, QueueTypeOK, NEW p \in Procs, attached[p] => fence[p] \in Fences
    PROVE  /\ UNCHANGED workVars => WorkTypeOK'
           /\ \A point \in Points : Goto(p, point) => WorkTypeOK'
           /\ \A ok : Answer(p, ok) => WorkTypeOK' /\ QueueTypeOK'
<1>1. UNCHANGED workVars => WorkTypeOK'
  BY DEF WorkTypeOK, workVars
<1>2. ASSUME NEW point \in Points, Goto(p, point) PROVE WorkTypeOK'
  BY <1>2 DEF WorkTypeOK, Goto
<1>3. ASSUME NEW ok, Answer(p, ok) PROVE WorkTypeOK' /\ QueueTypeOK'
  <2>1. QueueTypeOK'
    BY <1>3, QueueTypes DEF Answer
  <2>2. WorkTypeOK'
    BY <1>3 DEF Answer, WorkTypeOK, Points
  <2>. QED
    BY <2>1, <2>2
<1>. QED
  BY <1>1, <1>2, <1>3

(* The same for the callers, and for the Actors. *)
LEMMA OtherTypes ==
    ASSUME CallTypeOK, WorldTypeOK
    PROVE  /\ UNCHANGED callVars => CallTypeOK'
           /\ \A c : \A point \in {"idle", "enqueue", "mark", "consume"} :
                 \A f \in Fences \cup {NoFence} : CGoto(c, point, f) => CallTypeOK'
           /\ UNCHANGED worldVars => WorldTypeOK'
           /\ \A p : Run(p) /\ G(p) \in Gens => WorldTypeOK'
<1>1. UNCHANGED callVars => CallTypeOK'
  BY DEF CallTypeOK, callVars
<1>2. ASSUME NEW c, NEW point \in {"idle", "enqueue", "mark", "consume"},
             NEW f \in Fences \cup {NoFence}, CGoto(c, point, f)
      PROVE  CallTypeOK'
  BY <1>2 DEF CallTypeOK, CGoto
<1>3. UNCHANGED worldVars => WorldTypeOK'
  BY DEF WorldTypeOK, worldVars
<1>4. ASSUME NEW p, Run(p), G(p) \in Gens PROVE WorldTypeOK'
  BY <1>4 DEF WorldTypeOK, Run
<1>. QED
  BY <1>1, <1>2, <1>3, <1>4

-----------------------------------------------------------------------------
(* The steps that write the row, the runs, the Actors, the callers, and    *)
(* the ones with which a worker moves. *)
RowWrites ==
    \/ \E p \in Procs :
          \/ ClaimAdmission(p) \/ Complete(p) \/ Block(p) \/ Count(p) \/ Release(p)
          \/ Defer(p) \/ Rearm(p) \/ RearmMark(p)
    \/ \E c \in Clients : Mark(c)
    \/ \E c \in Users : Reserve(c) \/ Consume(c)
    \/ ClaimLapses \/ Age \/ Expire

RunWrites ==
    \/ \E p \in Procs :
          \/ Adopt(p) \/ Acquire(p) \/ AcquireFails(p) \/ ReserveRun(p) \/ ReserveFails(p)
          \/ CheckStarted(p) \/ CheckStartedFails(p) \/ CheckRejected(p)
          \/ Finish(p) \/ FinishFails(p)
    \/ \E g \in Gens : Leases(g)

WorldWrites ==
    \/ \E p \in Procs : StartActor(p) \/ CheckStartedFails(p)
    \/ \E g \in Gens : ActorEnds(g)

CallWrites ==
    \/ \E c \in Clients : Dispatch(c)
    \/ \E c \in Users : Reserve(c) \/ Consume(c)
    \/ Sweep

WorkWrites ==
    \E p \in Procs : Work(p) \/ Crash(p) \/ Detach(p) \/ \E f \in Fences : Deliver(p, f)

(* Everything else leaves them as they are. *)
LEMMA Writers ==
    ASSUME [FreshNext]_vars
    PROVE  /\ UNCHANGED rowVars \/ RowWrites
           /\ UNCHANGED runVars \/ RunWrites
           /\ UNCHANGED worldVars \/ WorldWrites
           /\ UNCHANGED callVars \/ CallWrites
           /\ UNCHANGED workVars \/ WorkWrites
<1>1. ASSUME NEW p \in Procs, Work(p)
      PROVE  /\ UNCHANGED rowVars \/ RowWrites
             /\ UNCHANGED runVars \/ RunWrites
             /\ UNCHANGED worldVars \/ WorldWrites
             /\ UNCHANGED callVars
  <2>1. UNCHANGED rowVars \/ RowWrites
    BY <1>1
    DEF RowWrites, Work, ClaimNothing, Load, Adopt, ResumeRefused, Acquire, AcquireFails,
        ReserveRun, ReserveFails, StartActor, CheckStarted, CheckStartedFails, CheckRejected,
        WaitLonger, Finish, FinishFails, Attest, SettleFails, DeferFails, RearmTask, RearmFails
  <2>2. UNCHANGED runVars \/ RunWrites
    BY <1>1
    DEF RunWrites, Work, ClaimAdmission, ClaimNothing, Load, ResumeRefused, StartActor,
        WaitLonger, Attest, Complete, Block, SettleFails, Count, Release, Defer, DeferFails,
        Rearm, RearmTask, RearmMark, RearmFails
  <2>3. UNCHANGED worldVars \/ WorldWrites
    BY <1>1
    DEF WorldWrites, Work, ClaimAdmission, ClaimNothing, Load, Adopt, ResumeRefused, Acquire,
        AcquireFails, ReserveRun, ReserveFails, CheckStarted, CheckRejected,
        WaitLonger, Finish, FinishFails, Attest, Complete, Block, SettleFails, Count, Release,
        Defer, DeferFails, Rearm, RearmTask, RearmMark, RearmFails
  <2>4. UNCHANGED callVars
    BY <1>1
    DEF Work, ClaimAdmission, ClaimNothing, Load, Adopt, ResumeRefused, Acquire, AcquireFails,
        ReserveRun, ReserveFails, StartActor, CheckStarted, CheckStartedFails, CheckRejected,
        WaitLonger, Finish, FinishFails, Attest, Complete, Block, SettleFails, Count, Release,
        Defer, DeferFails, Rearm, RearmTask, RearmMark, RearmFails
  <2>. QED
    BY <2>1, <2>2, <2>3, <2>4
<1>2. ASSUME NEW p \in Procs, Crash(p) \/ Detach(p) \/ \E f \in Fences : Deliver(p, f)
      PROVE  UNCHANGED <<rowVars, runVars, worldVars, callVars>>
  BY <1>2 DEF Crash, Detach, Deliver
<1>3. ASSUME NEW c \in Clients, Dispatch(c)
      PROVE  (UNCHANGED rowVars \/ RowWrites) /\ UNCHANGED <<runVars, worldVars, workVars>>
  BY <1>3 DEF Dispatch, EnqueueTask, EnqueueUnanswered, Mark, MarkUnanswered, RowWrites
<1>4. ASSUME NEW c \in Users, Reserve(c) \/ Consume(c)
      PROVE  RowWrites /\ UNCHANGED <<runVars, worldVars, workVars>>
  BY <1>4 DEF Reserve, Consume, RowWrites
<1>5. ASSUME Sweep PROVE UNCHANGED <<rowVars, runVars, worldVars, workVars>>
  BY <1>5 DEF Sweep
<1>6. ASSUME NEW g \in Gens, ActorEnds(g) \/ Leases(g)
      PROVE  /\ UNCHANGED <<rowVars, callVars, workVars>>
             /\ UNCHANGED runVars \/ RunWrites
             /\ UNCHANGED worldVars \/ WorldWrites
  BY <1>6
  DEF ActorEnds, Leases, LeaseLapses, RecoverLease, ResolveLease, SetLease, RunWrites,
      WorldWrites
<1>7. ASSUME ClaimLapses \/ Age \/ Expire
      PROVE  RowWrites /\ UNCHANGED <<runVars, worldVars, callVars, workVars>>
  BY <1>7 DEF ClaimLapses, Age, Expire, RowWrites
<1>8. CASE UNCHANGED vars
  BY <1>8 DEF vars
<1>. QED
  BY <1>1, <1>2, <1>3, <1>4, <1>5, <1>6, <1>7, <1>8 DEF FreshNext, CallWrites, WorkWrites

-----------------------------------------------------------------------------
(* A fence that a worker has is one of the fences. *)
LEMMA FencesKnown ==
    ASSUME WorkersAgree, NEW p \in Procs
    PROVE  /\ attached[p] => fence[p] \in Fences
           /\ pc[p] # "idle" => fence[p] \in Fences /\ G(p) \in Gens
<1>1. attached[p] => pc[p] # "idle"
  BY DEF WorkersAgree, WorkerAgrees
<1>2. pc[p] # "idle" => fence[p] \in Fences
  BY DEF WorkersAgree, WorkerAgrees
<1>3. fence[p] \in Fences => G(p) \in Gens
  BY DEF G, Fences
<1>. QED
  BY <1>1, <1>2, <1>3

(* Every step keeps the types of the row. *)
LEMMA RowTypeStep ==
    ASSUME FInv, [FreshNext]_vars
    PROVE  RowTypeOK'
<1>. USE FreshAdmissionAssumption DEF FInv, FreshTypeOK
<1>1. ASSUME NEW p \in Procs, ClaimAdmission(p) PROVE RowTypeOK'
  BY <1>1 DEF ClaimAdmission, RowTypeOK
<1>2. ASSUME NEW p \in Procs, Complete(p) PROVE RowTypeOK'
  BY <1>2, RowTypes DEF Complete, RowTypeOK
<1>3. ASSUME NEW p \in Procs, Block(p) PROVE RowTypeOK'
  BY <1>3, RowTypes DEF Block, RowTypeOK
<1>4. ASSUME NEW p \in Procs, Count(p) PROVE RowTypeOK'
  <2>1. failures' \in 0..MaxFailures
    BY <1>4 DEF Count, Named, RowTypeOK, RowAgrees, InWork
  <2>. QED
    BY <1>4, <2>1, RowTypes DEF Count
<1>5. ASSUME NEW p \in Procs, Release(p) PROVE RowTypeOK'
  <2>1. CASE UNCHANGED rowVars
    BY <2>1, RowTypes
  <2>2. CASE LeaveAs("pending") /\ UNCHANGED failures
    BY <2>2, RowTypes DEF RowTypeOK
  <2>. QED
    BY <1>5, <2>1, <2>2 DEF Release
<1>6. ASSUME NEW p \in Procs, Defer(p) PROVE RowTypeOK'
  BY <1>6, RowTypes DEF Defer, RowTypeOK
<1>7. ASSUME NEW p \in Procs, Rearm(p) PROVE RowTypeOK'
  BY <1>7 DEF Rearm, CanRearm, RowTypeOK
<1>8. ASSUME NEW p \in Procs, RearmMark(p) PROVE RowTypeOK'
  BY <1>8, RowTypes DEF RearmMark
<1>9. ASSUME NEW c \in Clients, Mark(c) PROVE RowTypeOK'
  BY <1>9, RowTypes DEF Mark
<1>10. ASSUME NEW c \in Users, Reserve(c) PROVE RowTypeOK'
  <2>1. TakeBack \/ Redispatch(c) \/ Regenerate(c) \/ UNCHANGED rowVars
    BY <1>10 DEF Reserve
  <2>. QED
    BY <2>1, RowTypes
<1>11. ASSUME NEW c \in Users, Consume(c) PROVE RowTypeOK'
  BY <1>11 DEF Consume, RowTypeOK
<1>12. ASSUME ClaimLapses \/ Age \/ Expire PROVE RowTypeOK'
  BY <1>12 DEF ClaimLapses, Age, Expire, RowTypeOK
<1>13. CASE UNCHANGED rowVars
  BY <1>13, RowTypes
<1>. QED
  BY <1>1, <1>2, <1>3, <1>4, <1>5, <1>6, <1>7, <1>8, <1>9, <1>10, <1>11, <1>12, <1>13, Writers
  DEF RowWrites

(* Every step keeps the types of the runs and their leases. *)
LEMMA RunTypeStep ==
    ASSUME FInv, [FreshNext]_vars
    PROVE  RunTypeOK'
<1>. USE DEF FInv, FreshTypeOK
<1>1. \A p \in Procs : token[p] \in Tokens \cup {NoToken}
  BY DEF WorkTypeOK
<1>2. ASSUME NEW p \in Procs, Adopt(p) \/ Acquire(p) \/ AcquireFails(p) PROVE RunTypeOK'
  <2>1. Install(p) \/ UNCHANGED runVars
    BY <1>2 DEF Adopt, Acquire, AcquireFails
  <2>. QED
    BY <1>1, <2>1, RunTypes
<1>3. ASSUME NEW p \in Procs, ReserveRun(p) \/ CheckStarted(p) \/ CheckStartedFails(p)
      PROVE  RunTypeOK'
  BY <1>1, <1>3, RunTypes
  DEF ReserveRun, CheckStarted, CheckStartedFails, RunStates, RunTypeOK
<1>4. ASSUME NEW p \in Procs, ReserveFails(p) \/ CheckRejected(p) PROVE RunTypeOK'
  <2>1. GiveBack(p, run'[G(p)], "prestart")
    BY <1>4 DEF ReserveFails, CheckRejected
  <2>2. \/ UNCHANGED run
        \/ \E r \in {"starting", "rejected"} : SetRun(p, r)
    BY <1>4 DEF ReserveFails, CheckRejected
  <2>3. run' \in [Gens -> RunStates]
    BY <1>1, <2>2, RunTypes DEF RunStates, RunTypeOK
  <2>. QED
    BY <1>1, <2>1, <2>3, RunTypes
<1>5. ASSUME NEW p \in Procs, Finish(p) \/ FinishFails(p) PROVE RunTypeOK'
  <2>1. SetRun(p, actor[G(p)]) \/ UNCHANGED run
    BY <1>5 DEF Finish, FinishFails
  <2>2. actor[G(p)] \in RunStates
    BY <1>5 DEF Finish, FinishFails, Ended, RunStates
  <2>3. run' \in [Gens -> RunStates]
    BY <1>1, <2>1, <2>2, RunTypes DEF RunTypeOK
  <2>4. GiveBack(p, actor[G(p)], "released") \/ UNCHANGED <<lease, holder>>
    BY <1>5 DEF Finish, FinishFails
  <2>. QED
    BY <1>1, <2>3, <2>4, RunTypes DEF RunTypeOK
<1>6. ASSUME NEW g \in Gens, Leases(g) PROVE RunTypeOK'
  BY <1>6, LeaseTypes DEF Leases, LeaseLapses, RecoverLease, ResolveLease
<1>7. CASE UNCHANGED runVars
  BY <1>7 DEF RunTypeOK, runVars
<1>. QED
  BY <1>2, <1>3, <1>4, <1>5, <1>6, <1>7, Writers DEF RunWrites

(* Every step keeps the types of the Actors. *)
LEMMA WorldTypeStep ==
    ASSUME FInv, [FreshNext]_vars
    PROVE  WorldTypeOK'
<1>. USE DEF FInv, FreshTypeOK, WorldTypeOK
<1>1. ASSUME NEW p \in Procs, StartActor(p) PROVE WorldTypeOK'
  <2>1. G(p) \in Gens
    BY <1>1, FencesKnown DEF StartActor, At
  <2>. QED
    BY <1>1, <2>1 DEF StartActor, Run, worldVars
<1>2. ASSUME NEW p \in Procs, CheckStartedFails(p) PROVE WorldTypeOK'
  BY <1>2 DEF CheckStartedFails
<1>3. ASSUME NEW g \in Gens, ActorEnds(g) PROVE WorldTypeOK'
  BY <1>3 DEF ActorEnds
<1>4. CASE UNCHANGED worldVars
  BY <1>4 DEF worldVars
<1>. QED
  BY <1>1, <1>2, <1>3, <1>4, Writers DEF WorldWrites

(* A fault is one of those that were left. *)
LEMMA FaultStep ==
    ASSUME FInv, [FreshNext]_vars
    PROVE  faults' \in 0..MaxFaults
<1>. USE FreshAdmissionAssumption DEF FInv, FreshTypeOK
<1>1. Fault \/ UNCHANGED faults => faults' \in 0..MaxFaults
  BY DEF Fault
<1>. HIDE DEF FInv, FreshTypeOK
<1>2. ASSUME NEW p \in Procs, Work(p) PROVE Fault \/ UNCHANGED faults
  BY <1>2
  DEF Work, ClaimAdmission, ClaimNothing, Load, Adopt, ResumeRefused, Acquire, AcquireFails,
      ReserveRun, ReserveFails, StartActor, CheckStarted, CheckStartedFails, CheckRejected,
      WaitLonger, Finish, FinishFails, Attest, Complete, Block, SettleFails, Count, Release,
      Defer, DeferFails, Rearm, RearmTask, RearmMark, RearmFails, Fails
<1>3. ASSUME NEW p \in Procs, Crash(p) \/ Detach(p) \/ \E f \in Fences : Deliver(p, f)
      PROVE  Fault \/ UNCHANGED faults
  BY <1>3 DEF Crash, Detach, Deliver
<1>4. ASSUME NEW c \in Clients, Dispatch(c) PROVE Fault \/ UNCHANGED faults
  BY <1>4 DEF Dispatch, EnqueueTask, EnqueueUnanswered, Mark, MarkUnanswered
<1>5. ASSUME NEW c \in Users, Reserve(c) \/ Consume(c) PROVE Fault \/ UNCHANGED faults
  BY <1>5 DEF Reserve, Consume, Overdue
<1>6. ASSUME Sweep PROVE Fault \/ UNCHANGED faults
  BY <1>6 DEF Sweep, Overdue
<1>7. ASSUME NEW g \in Gens, ActorEnds(g) \/ Leases(g) PROVE Fault \/ UNCHANGED faults
  BY <1>7 DEF ActorEnds, Leases, LeaseLapses, RecoverLease, ResolveLease
<1>8. ASSUME ClaimLapses \/ Age \/ Expire PROVE Fault \/ UNCHANGED faults
  BY <1>8 DEF ClaimLapses, Age, Expire
<1>9. UNCHANGED vars => UNCHANGED faults
  BY DEF vars
<1>. QED
  BY <1>1, <1>2, <1>3, <1>4, <1>5, <1>6, <1>7, <1>8, <1>9 DEF FreshNext

(* Every step keeps the types of the callers, and what a caller dispatches *)
(* is one of the fences. *)
LEMMA CallStep ==
    ASSUME FInv, [FreshNext]_vars
    PROVE  /\ CallTypeOK'
           /\ \A c \in Clients : cpc'[c] \in {"enqueue", "mark"} => cfence'[c] \in Fences
<1>. USE FreshAdmissionAssumption DEF FInv, FreshTypeOK, WorkersAgree
<1> DEFINE Good == /\ CallTypeOK'
                   /\ \A c \in Clients : cpc'[c] \in {"enqueue", "mark"} => cfence'[c] \in Fences
<1>1. ASSUME NEW c \in Clients, NEW f \in Fences, NEW point \in {"enqueue", "mark"},
             CGoto(c, point, f)
      PROVE  Good
  BY <1>1 DEF CGoto, CallTypeOK
<1>2. ASSUME NEW c \in Clients, NEW point \in {"idle", "consume"}, CGoto(c, point, NoFence)
      PROVE  Good
  BY <1>2 DEF CGoto, CallTypeOK
<1>3. UNCHANGED callVars => Good
  BY DEF callVars, CallTypeOK
<1>. HIDE DEF Good
<1>4. ASSUME NEW c \in Clients, Dispatch(c) PROVE Good
  BY <1>1, <1>2, <1>4 DEF Dispatch, EnqueueTask, EnqueueUnanswered, Mark, MarkUnanswered
<1>5. ASSUME NEW c \in Users, Reserve(c) PROVE Good
  <2>1. c \in Clients
    BY DEF Clients
  <2>2. CASE Redispatch(c) /\ Overdue
    <3>1. <<gen, dgen + 1>> \in Fences
      BY <2>2 DEF Redispatch, Overdue, RowAgrees, Present, Fences, Gens, RowTypeOK
    <3>. QED
      BY <1>1, <2>1, <2>2, <3>1 DEF Redispatch
  <2>3. CASE Regenerate(c)
    <3>1. <<gen + 1, 1>> \in Fences
      BY <2>3 DEF Regenerate, Fences, Gens, RowTypeOK
    <3>. QED
      BY <1>1, <2>1, <2>3, <3>1 DEF Regenerate
  <2>4. CASE TakeBack
    BY <1>3, <2>4 DEF TakeBack
  <2>5. CASE CGoto(c, "consume", NoFence)
    BY <1>2, <2>1, <2>5
  <2>. QED
    BY <1>5, <2>2, <2>3, <2>4, <2>5 DEF Reserve
<1>6. ASSUME NEW c \in Users, Consume(c) PROVE Good
  BY <1>2, <1>6 DEF Consume, Clients
<1>7. ASSUME Sweep PROVE Good
  <2>1. Present \in Fences /\ Sweeper \in Clients
    BY <1>7 DEF Sweep, Overdue, RowAgrees, Clients
  <2>. QED
    BY <1>1, <1>7, <2>1 DEF Sweep
<1>8. Good
  BY <1>3, <1>4, <1>5, <1>6, <1>7, Writers DEF CallWrites
<1>. QED
  BY <1>8 DEF Good

-----------------------------------------------------------------------------
(* The points of a worker that has a claim and is not about to dispatch.   *)
Inside == Points \ {"idle", "claim", "rearmtask", "rearmmark"}

(* The steps with which a worker ends. *)
LEMMA Answers ==
    ASSUME NEW p \in Procs,
           \/ ClaimNothing(p) \/ Block(p) \/ Count(p) \/ Release(p) \/ RearmMark(p) \/ RearmFails(p)
    PROVE  \E ok : Answer(p, ok)
<1>1. ClaimNothing(p) => \E ok : Answer(p, ok)
  BY Zenon DEF ClaimNothing
<1>2. Count(p) => \E ok : Answer(p, ok)
  BY Zenon DEF Count
<1>. QED
  BY <1>1, <1>2 DEF Block, Release, RearmMark, RearmFails

(* How a worker moves: most of its steps go on or answer. *)
LEMMA Moves ==
    ASSUME FInv, NEW p \in Procs, Work(p)
    PROVE  \/ pc[p] \notin {"idle", "claim"} /\ \E point \in Inside : Goto(p, point)
           \/ \E ok : Answer(p, ok)
           \/ ClaimAdmission(p) \/ Rearm(p) \/ RearmTask(p)
<1> DEFINE Moved == \/ pc[p] \notin {"idle", "claim"} /\ \E point \in Inside : Goto(p, point)
                    \/ \E ok : Answer(p, ok)
<1>. USE DEF At, Inside, Points
<1>1. ClaimNothing(p) \/ Block(p) \/ Count(p) \/ Release(p) \/ RearmMark(p) \/ RearmFails(p)
        => \E ok : Answer(p, ok)
  BY Answers
<1>2. Load(p) => Moved
  BY DEF Load, AfterLoad
<1>3. Adopt(p) \/ ResumeRefused(p) \/ Acquire(p) \/ AcquireFails(p) => Moved
  BY DEF Adopt, ResumeRefused, Acquire, AcquireFails
<1>4. ReserveRun(p) \/ ReserveFails(p) \/ StartActor(p) => Moved
  BY DEF ReserveRun, ReserveFails, StartActor, AfterUnanswered
<1>5. CheckStarted(p) \/ CheckStartedFails(p) \/ CheckRejected(p) \/ WaitLonger(p) => Moved
  BY DEF CheckStarted, CheckStartedFails, CheckRejected, WaitLonger
<1>6. Finish(p) \/ FinishFails(p) \/ Attest(p) => Moved
  BY DEF Finish, FinishFails, Attest, Read
<1>7. Complete(p) \/ SettleFails(p) \/ DeferFails(p) => Moved
  BY DEF Complete, SettleFails, DeferFails
<1>8. Defer(p) => Moved
  BY DEF Defer
<1>. QED
  BY <1>1, <1>2, <1>3, <1>4, <1>5, <1>6, <1>7, <1>8 DEF Work

(* Claims stay with the worker that drew them, and a worker has what it    *)
(* needs where it goes. *)
LEMMA WorkStep ==
    ASSUME FInv, [FreshNext]_vars
    PROVE  /\ WorkTypeOK'
           /\ \A p \in Procs : WorkerAgrees(p)'
           /\ \A p, q \in Procs : p # q /\ token'[p] = token'[q] => token'[p] = NoToken
<1>. USE FreshAdmissionAssumption
<1> DEFINE Good == /\ WorkTypeOK'
                   /\ \A p \in Procs : WorkerAgrees(p)'
                   /\ \A p, q \in Procs : p # q /\ token'[p] = token'[q] => token'[p] = NoToken
<1>0. WorkTypeOK /\ QueueTypeOK /\ WorkersAgree
  BY DEF FInv, FreshTypeOK
<1>1. ASSUME NEW p \in Procs, pc[p] \notin {"idle", "claim"}, NEW point \in Inside, Goto(p, point)
      PROVE  Good
  BY <1>0, <1>1 DEF Goto, Inside, WorkTypeOK, WorkersAgree, WorkerAgrees, Rotated, G
<1>2. ASSUME NEW p \in Procs, NEW ok, Answer(p, ok) PROVE Good
  <2>1. WorkTypeOK'
    BY <1>0, <1>2, WorkTypes, FencesKnown
  <2>. QED
    BY <1>0, <1>2, <2>1 DEF Answer, WorkTypeOK, WorkersAgree, WorkerAgrees, Rotated, G
<1>3. ASSUME NEW p \in Procs, ClaimAdmission(p) PROVE Good
  <2>1. PICK t \in Tokens \ UsedTokens : token' = [token EXCEPT ![p] = t]
    BY <1>3 DEF ClaimAdmission
  <2>2. \A q \in Procs : token[q] # t
    BY <2>1 DEF UsedTokens
  <2>3. /\ pc' = [pc EXCEPT ![p] = "load"] /\ UNCHANGED <<fence, try, attached>>
        /\ pc[p] = "claim"
    BY <1>3 DEF ClaimAdmission, At
  <2>4. WorkTypeOK'
    BY <1>0, <2>1, <2>3 DEF WorkTypeOK, Points
  <2>. QED
    BY <1>0, <2>1, <2>2, <2>3, <2>4 DEF WorkTypeOK, WorkersAgree, WorkerAgrees, Rotated, G
<1>4. ASSUME NEW p \in Procs, Rearm(p) PROVE Good
  <2>1. Rotated(p) \in Fences
    BY <1>0, <1>4, FencesKnown
    DEF Rearm, CanRearm, Rotated, G, Present, Fences, Gens, At
  <2>2. Goto(p, "rearmtask") /\ pc[p] = "rearm"
    BY <1>4 DEF Rearm, At
  <2>3. WorkTypeOK'
    BY <1>0, <2>2 DEF WorkTypeOK, Points, Goto
  <2>. QED
    BY <1>0, <2>1, <2>2, <2>3 DEF Goto, WorkTypeOK, WorkersAgree, WorkerAgrees, Rotated, G
<1>5. ASSUME NEW p \in Procs, RearmTask(p) PROVE Good
  <2>2. Goto(p, "rearmmark") /\ pc[p] = "rearmtask"
    BY <1>5 DEF RearmTask, At
  <2>3. WorkTypeOK'
    BY <1>0, <2>2 DEF WorkTypeOK, Points, Goto
  <2>. QED
    BY <1>0, <2>2, <2>3 DEF Goto, WorkTypeOK, WorkersAgree, WorkerAgrees, Rotated, G
<1>6. ASSUME NEW p \in Procs, Crash(p) PROVE Good
  BY <1>2, <1>6 DEF Crash
<1>7. ASSUME NEW p \in Procs, Detach(p) PROVE Good
  <2>1. attached' = [attached EXCEPT ![p] = FALSE] /\ UNCHANGED <<pc, fence, token, try>>
    BY <1>7 DEF Detach
  <2>. QED
    BY <1>0, <2>1 DEF WorkTypeOK, WorkersAgree, WorkerAgrees, Rotated, G
<1>8. ASSUME NEW p \in Procs, NEW f \in Fences, Deliver(p, f) PROVE Good
  <2>1. /\ pc' = [pc EXCEPT ![p] = "claim"] /\ fence' = [fence EXCEPT ![p] = f]
        /\ try' = [try EXCEPT ![p] = retry[f]] /\ attached' = [attached EXCEPT ![p] = TRUE]
        /\ UNCHANGED token /\ pc[p] = "idle"
    BY <1>8 DEF Deliver, At
  <2>2. retry[f] \in Nat
    BY <1>0 DEF QueueTypeOK
  <2>3. WorkTypeOK'
    BY <1>0, <2>1, <2>2 DEF WorkTypeOK, Points
  <2>. QED
    BY <1>0, <2>1, <2>3 DEF WorkTypeOK, WorkersAgree, WorkerAgrees, Rotated, G
<1>9. UNCHANGED workVars => Good
  BY <1>0 DEF workVars, WorkTypeOK, WorkersAgree, WorkerAgrees, Rotated, G
<1>. HIDE DEF Good
<1>10. ASSUME NEW p \in Procs, Work(p) PROVE Good
  BY <1>1, <1>2, <1>3, <1>4, <1>5, <1>10, Moves
<1>11. Good
  BY <1>6, <1>7, <1>8, <1>9, <1>10, Writers DEF WorkWrites
<1>. QED
  BY <1>11 DEF Good

(* Every step keeps the types of the queue. *)
LEMMA QueueTypeStep ==
    ASSUME FInv, [FreshNext]_vars
    PROVE  QueueTypeOK'
<1>0. QueueTypeOK /\ WorkTypeOK /\ WorkersAgree
  BY DEF FInv, FreshTypeOK
<1>1. ASSUME NEW p \in Procs, NEW ok, Answer(p, ok) PROVE QueueTypeOK'
  BY <1>0, <1>1, WorkTypes, FencesKnown
<1>2. UNCHANGED queueVars => QueueTypeOK'
  BY <1>0, QueueTypes
<1>3. ASSUME NEW f, Create(f) PROVE QueueTypeOK'
  BY <1>0, <1>3, QueueTypes
<1>4. ASSUME NEW p \in Procs, Work(p) PROVE QueueTypeOK'
  <2>1. \/ ClaimNothing(p) \/ Block(p) \/ Complete(p) \/ Count(p) \/ Release(p) \/ RearmMark(p)
        \/ RearmFails(p) \/ Defer(p) \/ RearmTask(p)
        \/ UNCHANGED queueVars
    BY <1>4
    DEF Work, ClaimAdmission, Load, Adopt, ResumeRefused, Acquire, AcquireFails,
        ReserveRun, ReserveFails, StartActor, CheckStarted, CheckStartedFails, CheckRejected,
        WaitLonger, Finish, FinishFails, Attest, SettleFails, DeferFails, Rearm, queueVars
  <2>2. Complete(p) => Answer(p, TRUE) \/ UNCHANGED queueVars
    BY DEF Complete
  <2>3. Defer(p) => Answer(p, FALSE) \/ UNCHANGED queueVars
    BY DEF Defer
  <2>4. RearmTask(p) => Create(Rotated(p))
    BY DEF RearmTask
  <2>. QED
    BY <1>1, <1>2, <1>3, <2>1, <2>2, <2>3, <2>4, Answers
<1>5. ASSUME NEW p \in Procs, Crash(p) PROVE QueueTypeOK'
  BY <1>1, <1>5 DEF Crash
<1>6. ASSUME NEW p \in Procs, Detach(p) PROVE QueueTypeOK'
  BY <1>0, <1>6, QueueTypes, FencesKnown DEF Detach
<1>7. ASSUME NEW p \in Procs, NEW f \in Fences, Deliver(p, f) PROVE QueueTypeOK'
  BY <1>0, <1>7 DEF Deliver, QueueTypeOK
<1>8. ASSUME NEW c \in Clients, Dispatch(c) PROVE QueueTypeOK'
  <2>1. Create(cfence[c]) \/ UNCHANGED queueVars
    BY <1>8 DEF Dispatch, EnqueueTask, EnqueueUnanswered, Mark, MarkUnanswered
  <2>. QED
    BY <1>2, <1>3, <2>1
<1>9. ASSUME NEW c \in Users, Reserve(c) \/ Consume(c) PROVE UNCHANGED queueVars
  BY <1>9 DEF Reserve, Consume
<1>10. ASSUME NEW g \in Gens, ActorEnds(g) \/ Leases(g) PROVE UNCHANGED queueVars
  BY <1>10 DEF ActorEnds, Leases, LeaseLapses, RecoverLease, ResolveLease, SetLease
<1>11. Sweep \/ ClaimLapses \/ Age \/ Expire => UNCHANGED queueVars
  BY DEF Sweep, ClaimLapses, Age, Expire
<1>12. UNCHANGED vars => UNCHANGED queueVars
  BY DEF vars
<1>. QED
  BY <1>2, <1>4, <1>5, <1>6, <1>7, <1>8, <1>9, <1>10, <1>11, <1>12 DEF FreshNext

-----------------------------------------------------------------------------
(* The row keeps what it says about the dispatch, the claim and the        *)
(* failures. *)
LEMMA RowStep ==
    ASSUME FInv, [FreshNext]_vars
    PROVE  RowAgrees'
<1>. USE FreshAdmissionAssumption DEF InWork, Present
<1>0. RowTypeOK /\ RowAgrees /\ WorkersAgree
  BY DEF FInv, FreshTypeOK
<1>1. ASSUME NEW p \in Procs, ClaimAdmission(p) PROVE RowAgrees'
  BY <1>0, <1>1 DEF ClaimAdmission, ClaimAnswer, Open, RowAgrees
<1>2. ASSUME NEW p \in Procs, Named(p), NEW s \in {"pending", "ready", "blocked"}, LeaveAs(s),
             s = "pending" => failures' < MaxFailures
      PROVE  RowAgrees'
  BY <1>0, <1>2 DEF Named, LeaveAs, RowAgrees
<1>3. ASSUME NEW p \in Procs, Complete(p) \/ Block(p) PROVE RowAgrees'
  BY <1>2, <1>3 DEF Complete, Block
<1>4. ASSUME NEW p \in Procs, Count(p) PROVE RowAgrees'
  BY <1>0, <1>2, <1>4 DEF Count, RowTypeOK
<1>5. ASSUME NEW p \in Procs, Named(p), LeaveAs("pending"), UNCHANGED failures
      PROVE  RowAgrees'
  BY <1>0, <1>2, <1>5 DEF Named, RowAgrees
<1>6. UNCHANGED rowVars => RowAgrees'
  BY <1>0 DEF rowVars, RowAgrees
<1>7. ASSUME NEW p \in Procs, Release(p) \/ Defer(p) PROVE RowAgrees'
  BY <1>5, <1>6, <1>7 DEF Release, Defer, Owns
<1>8. ASSUME NEW p \in Procs, Rearm(p) PROVE RowAgrees'
  BY <1>0, <1>8 DEF Rearm, CanRearm, Fences, RowAgrees, RowTypeOK
<1>9. ASSUME NEW f, MarkRow(f) PROVE RowAgrees'
  BY <1>0, <1>9 DEF MarkRow, RowAgrees
<1>10. ASSUME NEW p \in Procs, RearmMark(p) PROVE RowAgrees'
  BY <1>6, <1>9, <1>10 DEF RearmMark
<1>11. ASSUME NEW c \in Clients, Mark(c) PROVE RowAgrees'
  BY <1>9, <1>11 DEF Mark
<1>12. ASSUME NEW c \in Users, Reserve(c) PROVE RowAgrees'
  <2>1. CASE status = "processing" /\ TakeBack
    BY <1>0, <2>1 DEF TakeBack, RowAgrees
  <2>2. CASE Overdue /\ Redispatch(c)
    BY <1>0, <2>2 DEF Overdue, Redispatch, Fences, RowAgrees, RowTypeOK
  <2>3. CASE Regenerate(c) /\ Open
    BY <1>0, <2>3 DEF Regenerate, Open, Fences, Gens, RowAgrees, RowTypeOK
  <2>. QED
    BY <1>6, <1>12, <2>1, <2>2, <2>3 DEF Reserve
<1>13. ASSUME NEW c \in Users, Consume(c) PROVE RowAgrees'
  BY <1>0, <1>13 DEF Consume, RowAgrees
<1>14. ASSUME ClaimLapses \/ Age \/ Expire PROVE RowAgrees'
  BY <1>0, <1>14 DEF ClaimLapses, Age, Expire, RowAgrees
<1>. QED
  BY <1>1, <1>3, <1>4, <1>6, <1>7, <1>8, <1>10, <1>11, <1>12, <1>13, <1>14, Writers
  DEF RowWrites

(* A claim is only ever drawn anew, and only its worker completes. *)
LEMMA ClaimKinds ==
    ASSUME FInv, [FreshNext]_vars
    PROVE  /\ \/ UNCHANGED <<status, gen, claim>>
              \/ \E p \in Procs : ClaimAdmission(p)
              \/ status' # "processing"
           /\ \/ status' # "ready"
              \/ UNCHANGED <<status, gen>>
              \/ \E p \in Procs : Complete(p)
<1> DEFINE Kept == UNCHANGED <<status, gen, claim>>
<1>1. ASSUME NEW p \in Procs, Block(p) \/ Count(p) \/ Release(p) \/ Defer(p)
      PROVE  Kept \/ status' \in {"pending", "blocked"}
  BY <1>1 DEF Block, Count, Release, Defer, LeaveAs, rowVars
<1>2. ASSUME NEW p \in Procs, Complete(p) PROVE status' # "processing"
  BY <1>2 DEF Complete, LeaveAs
<1>3. ASSUME NEW p \in Procs, Rearm(p) \/ RearmMark(p) PROVE Kept
  BY <1>3 DEF Rearm, RearmMark, MarkRow, rowVars
<1>4. ASSUME NEW c \in Clients, Mark(c) PROVE Kept
  BY <1>4 DEF Mark, MarkRow
<1>5. ASSUME NEW c \in Users, Reserve(c) PROVE Kept \/ status' = "pending"
  BY <1>5 DEF Reserve, TakeBack, Redispatch, Regenerate, rowVars
<1>6. ASSUME NEW c \in Users, Consume(c) PROVE Kept
  BY <1>6 DEF Consume
<1>7. ASSUME ClaimLapses \/ Age \/ Expire PROVE Kept
  BY <1>7 DEF ClaimLapses, Age, Expire
<1>8. UNCHANGED rowVars => Kept
  BY DEF rowVars
<1>9. ASSUME NEW p \in Procs, ClaimAdmission(p) PROVE status' # "ready"
  BY <1>9 DEF ClaimAdmission
<1>. QED
  BY <1>1, <1>2, <1>3, <1>4, <1>5, <1>6, <1>7, <1>8, <1>9, Writers DEF RowWrites

-----------------------------------------------------------------------------
(* A run is written only by a worker that owns the admission. *)
LEMMA RunOwner ==
    ASSUME FInv, [FreshNext]_vars
    PROVE  \/ UNCHANGED run
           \/ \E p \in Procs :
                 /\ Owns(p) /\ pc[p] \in {"reserve", "started", "rejected", "wait"}
                 /\ UNCHANGED <<rowVars, fence, token>>
                 /\ \A q \in Procs \ {p} : pc'[q] = pc[q]
                 /\ \A g \in Gens : g # G(p) => run'[g] = run[g]
<1>0. WorkTypeOK /\ RunTypeOK
  BY DEF FInv, FreshTypeOK
<1> DEFINE Written(p) == /\ Owns(p) /\ pc[p] \in {"reserve", "started", "rejected", "wait"}
                         /\ UNCHANGED <<rowVars, fence, token>>
                         /\ \A q \in Procs \ {p} : pc'[q] = pc[q]
                         /\ \A g \in Gens : g # G(p) => run'[g] = run[g]
<1>1. ASSUME NEW p \in Procs, NEW r, SetRun(p, r) PROVE \A g \in Gens : g # G(p) => run'[g] = run[g]
  BY <1>0, <1>1 DEF SetRun, RunTypeOK
<1>2. ASSUME NEW p \in Procs, NEW point, Goto(p, point)
      PROVE  UNCHANGED <<fence, token>> /\ \A q \in Procs \ {p} : pc'[q] = pc[q]
  BY <1>0, <1>2 DEF Goto, WorkTypeOK
<1>3. ASSUME NEW p \in Procs, Adopt(p) \/ Acquire(p) \/ AcquireFails(p) PROVE UNCHANGED run
  BY <1>3 DEF Adopt, Acquire, AcquireFails, Install, runVars
<1>4. ASSUME NEW p \in Procs, ReserveRun(p) \/ ReserveFails(p) PROVE UNCHANGED run \/ Written(p)
  BY <1>1, <1>2, <1>4 DEF ReserveRun, ReserveFails, CreatesRun, At
<1>5. ASSUME NEW p \in Procs, CheckStarted(p) \/ CheckStartedFails(p)
      PROVE  UNCHANGED run \/ Written(p)
  BY <1>1, <1>2, <1>5 DEF CheckStarted, CheckStartedFails, At
<1>6. ASSUME NEW p \in Procs, CheckRejected(p) PROVE UNCHANGED run \/ Written(p)
  <2>1. UNCHANGED run \/ (Owns(p) /\ SetRun(p, "rejected"))
    BY <1>6 DEF CheckRejected
  <2>2. pc[p] = "rejected" /\ UNCHANGED rowVars /\ \E point : Goto(p, point)
    BY <1>6 DEF CheckRejected, At
  <2>. QED
    BY <1>1, <1>2, <2>1, <2>2
<1>7. ASSUME NEW p \in Procs, Finish(p) \/ FinishFails(p) PROVE UNCHANGED run \/ Written(p)
  <2>1. UNCHANGED run \/ (Owns(p) /\ SetRun(p, actor[G(p)]))
    BY <1>7 DEF Finish, FinishFails
  <2>2. pc[p] = "wait" /\ UNCHANGED rowVars /\ \E point : Goto(p, point)
    BY <1>7 DEF Finish, FinishFails, At
  <2>. QED
    BY <1>1, <1>2, <2>1, <2>2
<1>8. ASSUME NEW g \in Gens, Leases(g) PROVE UNCHANGED run
  BY <1>8 DEF Leases, LeaseLapses, RecoverLease, ResolveLease, SetLease
<1>9. UNCHANGED runVars => UNCHANGED run
  BY DEF runVars
<1>. HIDE DEF Written
<1>10. UNCHANGED run \/ \E p \in Procs : Written(p)
  BY <1>3, <1>4, <1>5, <1>6, <1>7, <1>8, <1>9, Writers DEF RunWrites
<1>. QED
  BY <1>10 DEF Written

(* A worker goes to the completion only from a run that is not open. *)
LEMMA CompletionKinds ==
    ASSUME FInv, [FreshNext]_vars, NEW p \in Procs, pc'[p] \in {"attest", "complete"}
    PROVE  \/ pc'[p] = pc[p] /\ fence'[p] = fence[p] /\ token'[p] = token[p]
           \/ Load(p) /\ Quiet(G(p))
           \/ Attest(p)
           \/ Finish(p)
<1>0. WorkTypeOK
  BY DEF FInv, FreshTypeOK
<1> DEFINE Same == pc'[p] = pc[p] /\ fence'[p] = fence[p] /\ token'[p] = token[p]
<1>1. ASSUME NEW q \in Procs, NEW point, Goto(q, point)
      PROVE  Same \/ (q = p /\ pc'[p] = point)
  BY <1>0, <1>1 DEF Goto, WorkTypeOK
<1>2. ASSUME NEW q \in Procs, NEW ok, Answer(q, ok) PROVE Same
  BY <1>0, <1>2 DEF Answer, WorkTypeOK
<1>. HIDE DEF Same
<1>3. ASSUME NEW q \in Procs, Crash(q) \/ Detach(q) \/ \E f \in Fences : Deliver(q, f)
      PROVE  Same
  <2>1. CASE Crash(q)
    BY <1>2, <2>1 DEF Crash
  <2>2. CASE Detach(q)
    BY <2>2 DEF Detach, Same
  <2>3. ASSUME NEW f \in Fences, Deliver(q, f) PROVE Same
    BY <1>0, <2>3 DEF Deliver, Same, WorkTypeOK
  <2>. QED
    BY <1>3, <2>1, <2>2, <2>3
<1>4. UNCHANGED workVars => Same
  BY DEF workVars, Same
<1>5. ASSUME NEW q \in Procs, ClaimAdmission(q) PROVE Same
  BY <1>0, <1>5 DEF ClaimAdmission, Same, WorkTypeOK
<1>6. ASSUME NEW q \in Procs,
             \/ ClaimNothing(q) \/ Block(q) \/ Count(q) \/ Release(q) \/ RearmMark(q) \/ RearmFails(q)
      PROVE  Same
  BY <1>2, <1>6, Answers
<1>7. ASSUME NEW q \in Procs, ResumeRefused(q) \/ Adopt(q) \/ Acquire(q) \/ AcquireFails(q) PROVE Same
  BY <1>1, <1>7 DEF ResumeRefused, Adopt, Acquire, AcquireFails
<1>8. ASSUME NEW q \in Procs, ReserveRun(q) \/ ReserveFails(q) \/ StartActor(q) PROVE Same
  BY <1>1, <1>8 DEF ReserveRun, ReserveFails, StartActor, AfterUnanswered
<1>9. ASSUME NEW q \in Procs,
             CheckStarted(q) \/ CheckStartedFails(q) \/ CheckRejected(q) \/ WaitLonger(q)
      PROVE  Same
  BY <1>1, <1>9 DEF CheckStarted, CheckStartedFails, CheckRejected, WaitLonger
<1>10. ASSUME NEW q \in Procs,
              FinishFails(q) \/ Complete(q) \/ SettleFails(q) \/ DeferFails(q) \/ Defer(q)
       PROVE  Same
  <2>1. Defer(q) => Goto(q, "rearm") \/ Answer(q, FALSE)
    BY DEF Defer
  <2>2. Complete(q) => Goto(q, "release") \/ Answer(q, TRUE)
    BY DEF Complete
  <2>3. FinishFails(q) \/ SettleFails(q) \/ DeferFails(q) =>
           Goto(q, "count") \/ Goto(q, "release")
    BY DEF FinishFails, SettleFails, DeferFails
  <2>4. /\ ~(pc'[p] = "rearm") /\ ~(pc'[p] = "release") /\ ~(pc'[p] = "count")
    OBVIOUS
  <2>5. Goto(q, "rearm") \/ Goto(q, "release") \/ Goto(q, "count") => Same
    BY <1>1, <2>4
  <2>. QED
    BY <1>2, <1>10, <2>1, <2>2, <2>3, <2>5
<1>11. ASSUME NEW q \in Procs, Rearm(q) \/ RearmTask(q) PROVE Same
  BY <1>1, <1>11 DEF Rearm, RearmTask
<1>12. ASSUME NEW q \in Procs, Load(q) PROVE Same \/ (Load(p) /\ Quiet(G(p)))
  BY <1>1, <1>12 DEF Load, AfterLoad, Quiet
<1>13. ASSUME NEW q \in Procs, Attest(q) PROVE Same \/ Attest(p)
  BY <1>1, <1>13 DEF Attest
<1>14. ASSUME NEW q \in Procs, Finish(q) PROVE Same \/ Finish(p)
  BY <1>1, <1>14 DEF Finish
<1>15. ASSUME NEW q \in Procs, Work(q)
       PROVE  Same \/ (Load(p) /\ Quiet(G(p))) \/ Attest(p) \/ Finish(p)
  BY <1>5, <1>6, <1>7, <1>8, <1>9, <1>10, <1>11, <1>12, <1>13, <1>14, <1>15 DEF Work
<1>16. Same \/ (Load(p) /\ Quiet(G(p))) \/ Attest(p) \/ Finish(p)
  BY <1>3, <1>4, <1>15, Writers DEF WorkWrites
<1>. QED
  BY <1>16 DEF Same

(* Nobody who may complete the admission leaves a run open. *)
LEMMA QuietStep ==
    ASSUME FInv, [FreshNext]_vars
    PROVE  CompletionIsQuiet'
<1>0. /\ WorkTypeOK /\ RunTypeOK /\ RowTypeOK /\ WorkersAgree /\ RowAgrees
      /\ CompletionIsQuiet /\ FreshAdmissionAssumption
  BY FreshAdmissionAssumption DEF FInv, FreshTypeOK
<1>1. ASSUME NEW p \in Procs, pc'[p] \in {"attest", "complete"}, Named(p)'
      PROVE  Quiet(G(p))'
  <2>1. CASE Finish(p)
    <3>1. run' = [run EXCEPT ![G(p)] = actor[G(p)]] /\ actor[G(p)] # "running"
      BY <2>1 DEF Finish, SetRun, Ended
    <3>2. fence' = fence /\ G(p) \in Gens
      BY <1>0, <2>1, FencesKnown DEF Finish, Read, Goto, At
    <3>. QED
      BY <1>0, <2>1, <3>1, <3>2 DEF Finish, Ended, Quiet, G, RunTypeOK
  <2>2. CASE Load(p) /\ Quiet(G(p))
    BY <2>2 DEF Load, Goto, Quiet, G, runVars
  <2>3. CASE Attest(p)
    <3>1. pc[p] = "attest" /\ UNCHANGED <<status, gen, claim, run, fence, token>>
      BY <2>3 DEF Attest, Goto, At, rowVars, runVars
    <3>. QED
      BY <1>0, <1>1, <3>1 DEF Quiet, Named, G, CompletionIsQuiet
  <2>4. CASE pc'[p] = pc[p] /\ fence'[p] = fence[p] /\ token'[p] = token[p]
    <3>1. pc[p] \in {"attest", "complete"} /\ token[p] \in Tokens
      BY <1>0, <1>1, <2>4 DEF WorkersAgree, WorkerAgrees
    <3>2. Named(p)
      <4>1. ASSUME NEW q \in Procs, ClaimAdmission(q) PROVE FALSE
        <5>1. claim' = token'[q] /\ claim' \notin UsedTokens
          BY <1>0, <4>1 DEF ClaimAdmission, WorkTypeOK
        <5>2. claim' = token[p]
          BY <1>1, <2>4 DEF Named
        <5>. QED
          BY <5>1, <5>2 DEF UsedTokens
      <4>2. UNCHANGED <<status, gen, claim>>
        BY <1>1, <4>1, ClaimKinds DEF Named
      <4>. QED
        BY <1>1, <2>4, <4>2 DEF Named, G
    <3>3. Quiet(G(p))
      BY <1>0, <3>1, <3>2 DEF CompletionIsQuiet
    <3>4. UNCHANGED run
      <4>1. SUFFICES ASSUME NEW q \in Procs, Owns(q),
                            pc[q] \in {"reserve", "started", "rejected", "wait"}
                     PROVE  FALSE
        BY RunOwner
      <4>2. token[q] = token[p] /\ q # p
        BY <3>1, <3>2, <4>1 DEF Owns, Named
      <4>. QED
        BY <1>0, <3>1, <4>2 DEF WorkersAgree, FreshAdmissionAssumption
    <3>. QED
      BY <2>4, <3>3, <3>4 DEF Quiet, G
  <2>. QED
    BY <1>1, <2>1, <2>2, <2>3, <2>4, CompletionKinds
<1>2. ASSUME status' = "ready" PROVE Quiet(gen)'
  <2>1. CASE UNCHANGED <<status, gen>>
    <3>1. UNCHANGED run
      BY <1>2, <2>1, RunOwner DEF Owns, Named
    <3>. QED
      BY <1>0, <1>2, <2>1, <3>1 DEF CompletionIsQuiet, Quiet
  <2>2. ASSUME NEW p \in Procs, Complete(p) PROVE Quiet(gen)'
    <3>1. Named(p) /\ pc[p] = "complete" /\ UNCHANGED <<gen, run>>
      BY <2>2 DEF Complete, At, LeaveAs, runVars
    <3>. QED
      BY <1>0, <3>1 DEF CompletionIsQuiet, Named, Quiet
  <2>. QED
    BY <1>2, <2>1, <2>2, ClaimKinds
<1>. QED
  BY <1>1, <1>2 DEF CompletionIsQuiet

-----------------------------------------------------------------------------
(* The points between the reservation of a run and its end. *)
Underway == {"start", "started", "rejected", "wait"}

(* A worker that leaves the runs and the Actors alone, and goes nowhere    *)
(* near a start, keeps starts single. *)
LEMMA StartsElsewhere ==
    ASSUME StartsAreSingle, WorkTypeOK, NEW p \in Procs, NEW point,
           point \notin Underway, UNCHANGED <<run, starts, actor>>,
           pc' = [pc EXCEPT ![p] = point], \A q \in Procs \ {p} : fence'[q] = fence[q]
    PROVE  StartsAreSingle'
<1>1. \A q \in Procs : pc'[q] \in Underway => q # p /\ pc'[q] = pc[q] /\ fence'[q] = fence[q]
  BY DEF WorkTypeOK
<1>. QED
  BY <1>1 DEF StartsAreSingle, AtMostOnePaidRun, Starting, G, Underway

(* A generation starts one Actor at most. *)
LEMMA StartsStep ==
    ASSUME FInv, [FreshNext]_vars
    PROVE  StartsAreSingle'
<1>0. /\ WorkTypeOK /\ RunTypeOK /\ WorldTypeOK /\ WorkersAgree /\ StartsAreSingle
  BY DEF FInv, FreshTypeOK
<1>1. ASSUME NEW p \in Procs, NEW point, point \notin Underway, Goto(p, point),
             UNCHANGED <<runVars, worldVars>>
      PROVE  StartsAreSingle'
  BY <1>0, <1>1, StartsElsewhere DEF Goto, runVars, worldVars
<1>2. ASSUME NEW p \in Procs, NEW ok, Answer(p, ok), UNCHANGED <<runVars, worldVars>>
      PROVE  StartsAreSingle'
  <2>1. \A q \in Procs \ {p} : fence'[q] = fence[q]
    BY <1>0, <1>2 DEF Answer, WorkTypeOK
  <2>2. pc' = [pc EXCEPT ![p] = "idle"] /\ UNCHANGED <<run, starts, actor>> /\ "idle" \notin Underway
    BY <1>2 DEF Answer, runVars, worldVars, Underway
  <2>. QED
    BY <1>0, <2>1, <2>2, StartsElsewhere
<1>3. ASSUME NEW p \in Procs,
             \/ ClaimNothing(p) \/ Block(p) \/ Count(p) \/ Release(p) \/ RearmMark(p)
             \/ RearmFails(p) \/ Crash(p)
      PROVE  StartsAreSingle'
  <2>1. UNCHANGED <<runVars, worldVars>>
    BY <1>3 DEF ClaimNothing, Block, Count, Release, RearmMark, RearmFails, Crash
  <2>2. \E ok : Answer(p, ok)
    BY <1>3, Answers DEF Crash
  <2>. QED
    BY <1>2, <2>1, <2>2
<1>4. ASSUME NEW p \in Procs, ClaimAdmission(p) PROVE StartsAreSingle'
  <2>1. /\ pc' = [pc EXCEPT ![p] = "load"] /\ "load" \notin Underway
        /\ UNCHANGED <<run, starts, actor, fence>>
    BY <1>4 DEF ClaimAdmission, runVars, worldVars, Underway
  <2>. QED
    BY <1>0, <2>1, StartsElsewhere
<1>5. ASSUME NEW p \in Procs, NEW f \in Fences, Deliver(p, f) PROVE StartsAreSingle'
  <2>1. /\ pc' = [pc EXCEPT ![p] = "claim"] /\ "claim" \notin Underway
        /\ UNCHANGED <<run, starts, actor>> /\ fence' = [fence EXCEPT ![p] = f]
    BY <1>5 DEF Deliver, runVars, worldVars, Underway
  <2>. QED
    BY <1>0, <2>1, StartsElsewhere DEF WorkTypeOK
<1>6. ASSUME NEW p \in Procs, Load(p) PROVE StartsAreSingle'
  <2>1. PICK point : Goto(p, point) /\ (point \in AfterLoad(G(p)) \/ point = "release")
    BY <1>6 DEF Load
  <2>2. UNCHANGED <<run, starts, actor>> /\ pc[p] = "load"
    BY <1>6 DEF Load, runVars, worldVars, At
  <2>3. CASE point # "wait"
    BY <1>0, <2>1, <2>2, <2>3, StartsElsewhere DEF AfterLoad, Goto, Underway
  <2>4. CASE point = "wait"
    <3>1. run[G(p)] \in {"succeeded", "failed", "aborted"}
      <4>1. G(p) \in Gens
        BY <1>0, <2>2, FencesKnown
      <4>. QED
        BY <1>0, <2>1, <2>4, <4>1 DEF AfterLoad, RunTypeOK, RunStates
    <3>. QED
      BY <1>0, <2>1, <2>2, <2>4, <3>1
      DEF Goto, StartsAreSingle, AtMostOnePaidRun, Starting, G, WorkTypeOK
  <2>. QED
    BY <2>3, <2>4
<1>7. ASSUME NEW p \in Procs, Adopt(p) PROVE StartsAreSingle'
  BY <1>0, <1>7
  DEF Adopt, Install, Goto, StartsAreSingle, AtMostOnePaidRun, Starting, G, WorkTypeOK, worldVars
<1>8. ASSUME NEW p \in Procs, Acquire(p) \/ AcquireFails(p) PROVE StartsAreSingle'
  <2>1. UNCHANGED <<run, starts, actor>>
    BY <1>8 DEF Acquire, AcquireFails, Install, runVars, worldVars
  <2>2. Goto(p, "reserve") \/ Goto(p, "count")
    BY <1>8 DEF Acquire, AcquireFails
  <2>. QED
    BY <1>0, <2>1, <2>2, StartsElsewhere DEF Goto, Underway
<1>9. ASSUME NEW p \in Procs, CreatesRun(p), SetRun(p, "starting"), At(p, "reserve"),
             NEW point, Goto(p, point), point \notin Underway \ {"start"}, UNCHANGED worldVars
      PROVE  StartsAreSingle'
  <2>1. run[G(p)] = "none" /\ G(p) \in Gens
    BY <1>0, <1>9, FencesKnown DEF CreatesRun, At
  <2>2. \A q \in Procs : pc[q] \in Underway => G(q) # G(p)
    BY <1>0, <2>1 DEF StartsAreSingle, Starting, Underway
  <2>3. /\ run' = [run EXCEPT ![G(p)] = "starting"] /\ UNCHANGED <<starts, actor, fence>>
        /\ pc' = [pc EXCEPT ![p] = point] /\ point \notin Underway \ {"start"}
        /\ starts[G(p)] = 0 /\ actor[G(p)] = "none"
    BY <1>0, <1>9, <2>1 DEF SetRun, Goto, worldVars, StartsAreSingle
  <2>4. \A q \in Procs : pc'[q] \in Underway => (q = p /\ pc'[q] = "start") \/ (q # p /\ pc'[q] = pc[q])
    BY <1>0, <2>3 DEF WorkTypeOK
  <2>. QED
    BY <1>0, <2>1, <2>2, <2>3, <2>4
    DEF StartsAreSingle, AtMostOnePaidRun, Starting, G, RunTypeOK, Underway
<1>10. ASSUME NEW p \in Procs, ReserveRun(p) \/ ReserveFails(p) PROVE StartsAreSingle'
  <2>1. CASE ReserveRun(p)
    BY <1>9, <2>1 DEF ReserveRun, Underway
  <2>2. CASE ReserveFails(p) /\ UNCHANGED run
    <3>1. UNCHANGED <<starts, actor, fence>> /\ pc' = [pc EXCEPT ![p] = "count"]
      BY <2>2 DEF ReserveFails, Goto, worldVars
    <3>. QED
      BY <1>0, <2>2, <3>1, StartsElsewhere DEF Underway
  <2>3. CASE ReserveFails(p) /\ CreatesRun(p) /\ SetRun(p, "starting")
    BY <1>9, <2>3 DEF ReserveFails, Underway
  <2>. QED
    BY <1>10, <2>1, <2>2, <2>3 DEF ReserveFails
<1>11. ASSUME NEW p \in Procs, StartActor(p) PROVE StartsAreSingle'
  <2>1. /\ pc[p] = "start" /\ G(p) \in Gens /\ UNCHANGED <<run, fence>>
        /\ run[G(p)] = "starting" /\ starts[G(p)] = 0 /\ actor[G(p)] = "none"
        /\ \A q \in Procs \ {p} : pc[q] \in Underway => G(q) # G(p)
    BY <1>0, <1>11, FencesKnown
    DEF StartActor, At, Goto, runVars, StartsAreSingle, Starting, Underway
  <2>2. \/ Run(p)
        \/ UNCHANGED <<starts, actor>>
    BY <1>11 DEF StartActor, worldVars
  <2>3. PICK point : /\ pc' = [pc EXCEPT ![p] = point]
                     /\ \/ point \in {"started", "count"}
                        \/ point = "rejected" /\ UNCHANGED <<starts, actor>>
    BY <1>11 DEF StartActor, Goto, AfterUnanswered, worldVars
  <2>4. \A q \in Procs : pc'[q] \in Underway => q = p \/ pc'[q] = pc[q]
    BY <1>0, <2>3 DEF WorkTypeOK
  <2>5. CASE UNCHANGED <<starts, actor>>
    BY <1>0, <2>1, <2>3, <2>4, <2>5
    DEF StartsAreSingle, AtMostOnePaidRun, Starting, G, Underway, WorkTypeOK
  <2>6. CASE Run(p) /\ point # "rejected"
    <3>1. starts' = [starts EXCEPT ![G(p)] = 1] /\ actor' = [actor EXCEPT ![G(p)] = "running"]
      BY <2>1, <2>6 DEF Run
    <3>. QED
      BY <1>0, <2>1, <2>3, <2>4, <2>6, <3>1
      DEF StartsAreSingle, AtMostOnePaidRun, Starting, G, Underway, WorkTypeOK, WorldTypeOK
  <2>. QED
    BY <2>2, <2>3, <2>5, <2>6
<1>12. ASSUME NEW p \in Procs, pc[p] \in {"started", "rejected"},
              NEW r \in {"running", "rejected"}, SetRun(p, r), r = "rejected" => pc[p] = "rejected",
              NEW point, Goto(p, point), point \notin Underway \ {"wait"},
              point = "wait" => r = "running", UNCHANGED worldVars
       PROVE  StartsAreSingle'
  <2>1. /\ G(p) \in Gens /\ run[G(p)] = "starting"
        /\ pc[p] = "rejected" => actor[G(p)] = "none"
        /\ \A q \in Procs \ {p} : pc[q] \in Underway => G(q) # G(p)
    BY <1>0, <1>12, FencesKnown DEF StartsAreSingle, Starting, Underway
  <2>2. /\ run' = [run EXCEPT ![G(p)] = r] /\ pc' = [pc EXCEPT ![p] = point]
        /\ UNCHANGED <<starts, actor, fence>>
    BY <1>12 DEF SetRun, Goto, worldVars
  <2>3. \A q \in Procs : pc'[q] \in Underway => (q = p /\ pc'[q] = "wait") \/ (q # p /\ pc'[q] = pc[q])
    BY <1>0, <1>12, <2>2 DEF WorkTypeOK
  <2>. QED
    BY <1>0, <1>12, <2>1, <2>2, <2>3
    DEF StartsAreSingle, AtMostOnePaidRun, Starting, G, RunTypeOK, Underway
<1>13. ASSUME NEW p \in Procs, CheckStarted(p) PROVE StartsAreSingle'
  BY <1>12, <1>13 DEF CheckStarted, At, Underway
<1>14. ASSUME NEW p \in Procs, CheckStartedFails(p) PROVE StartsAreSingle'
  <2>1. /\ pc[p] = "started" /\ UNCHANGED <<starts, fence>> /\ pc' = [pc EXCEPT ![p] = "count"]
        /\ UNCHANGED run \/ run' = [run EXCEPT ![G(p)] = "running"]
        /\ UNCHANGED actor \/ (actor[G(p)] = "running" /\ actor' = [actor EXCEPT ![G(p)] = "aborted"])
    BY <1>14 DEF CheckStartedFails, At, Goto, SetRun
  <2>2. /\ G(p) \in Gens /\ run[G(p)] = "starting"
        /\ \A q \in Procs \ {p} : pc[q] \in Underway => G(q) # G(p)
    BY <1>0, <2>1, FencesKnown DEF StartsAreSingle, Starting, Underway
  <2>3. \A q \in Procs : pc'[q] \in Underway => q # p /\ pc'[q] = pc[q]
    BY <1>0, <2>1 DEF WorkTypeOK, Underway
  <2>4. UNCHANGED actor \/ actor' = [actor EXCEPT ![G(p)] = "aborted"]
    BY <2>1
  <2>. USE <1>0, <2>1, <2>2, <2>3
        DEF StartsAreSingle, AtMostOnePaidRun, Starting, G, RunTypeOK, WorldTypeOK, Underway
  <2>5. CASE UNCHANGED run /\ UNCHANGED actor
    BY <2>5
  <2>6. CASE UNCHANGED run /\ actor' = [actor EXCEPT ![G(p)] = "aborted"]
    BY <2>6
  <2>7. CASE run' = [run EXCEPT ![G(p)] = "running"] /\ UNCHANGED actor
    BY <2>7
  <2>8. CASE /\ run' = [run EXCEPT ![G(p)] = "running"]
             /\ actor' = [actor EXCEPT ![G(p)] = "aborted"]
    BY <2>8
  <2>. QED
    BY <2>4, <2>5, <2>6, <2>7, <2>8
<1>15. ASSUME NEW p \in Procs, CheckRejected(p) PROVE StartsAreSingle'
  <2>1. PICK point \in {"count", "release"} : Goto(p, point)
    BY <1>15 DEF CheckRejected
  <2>2. UNCHANGED <<starts, actor, worldVars>> /\ pc[p] = "rejected"
    BY <1>15 DEF CheckRejected, worldVars, At
  <2>3. CASE UNCHANGED run
    BY <1>0, <2>1, <2>2, <2>3, StartsElsewhere DEF Goto, Underway
  <2>4. CASE SetRun(p, "rejected")
    BY <1>12, <2>1, <2>2, <2>4 DEF Underway
  <2>. QED
    BY <1>15, <2>3, <2>4 DEF CheckRejected
<1>16. ASSUME NEW p \in Procs, Finish(p) \/ FinishFails(p) PROVE StartsAreSingle'
  <2>1. PICK point \in {"attest", "block", "count"} : Goto(p, point)
    BY <1>16 DEF Finish, FinishFails, Read
  <2>2. UNCHANGED <<starts, actor>> /\ pc[p] = "wait"
    BY <1>16 DEF Finish, FinishFails, worldVars, At
  <2>3. CASE UNCHANGED run
    BY <1>0, <2>1, <2>2, <2>3, StartsElsewhere DEF Goto, Underway
  <2>4. CASE SetRun(p, actor[G(p)])
    <3>1. /\ G(p) \in Gens /\ run[G(p)] \in {"running", "succeeded", "failed", "aborted"}
          /\ actor[G(p)] \in {"succeeded", "failed", "aborted"}
      BY <1>0, <1>16, <2>2, FencesKnown DEF StartsAreSingle, Finish, FinishFails, Ended
    <3>2. \A q \in Procs : Starting(q) => G(q) # G(p)
      BY <1>0, <3>1 DEF StartsAreSingle
    <3>3. \A q \in Procs : pc'[q] \in Underway => q # p /\ pc'[q] = pc[q]
      BY <1>0, <2>1 DEF WorkTypeOK, Underway, Goto
    <3>4. run' = [run EXCEPT ![G(p)] = actor[G(p)]] /\ UNCHANGED fence
      BY <2>1, <2>4 DEF SetRun, Goto
    <3>. QED
      BY <1>0, <2>2, <3>1, <3>2, <3>3, <3>4
      DEF StartsAreSingle, AtMostOnePaidRun, Starting, G, RunTypeOK, Underway
  <2>. QED
    BY <1>16, <2>3, <2>4 DEF Finish, FinishFails
<1>17. ASSUME NEW p \in Procs,
              \/ ResumeRefused(p) \/ WaitLonger(p) \/ Attest(p) \/ SettleFails(p)
              \/ DeferFails(p) \/ Rearm(p) \/ RearmTask(p)
       PROVE  StartsAreSingle'
  <2>1. UNCHANGED <<runVars, worldVars>>
    BY <1>17 DEF ResumeRefused, WaitLonger, Attest, SettleFails, DeferFails, Rearm, RearmTask
  <2>2. \E point : point \notin Underway /\ Goto(p, point)
    BY <1>17
    DEF ResumeRefused, WaitLonger, Attest, SettleFails, DeferFails, Rearm, RearmTask, Underway
  <2>. QED
    BY <1>1, <2>1, <2>2
<1>18. ASSUME NEW p \in Procs, Complete(p) \/ Defer(p) PROVE StartsAreSingle'
  <2>1. UNCHANGED <<runVars, worldVars>>
    BY <1>18 DEF Complete, Defer
  <2>2. \/ \E ok : Answer(p, ok)
        \/ \E point \in {"release", "rearm"} : Goto(p, point)
    BY <1>18 DEF Complete, Defer
  <2>. QED
    BY <1>1, <1>2, <2>1, <2>2 DEF Underway
<1>19. ASSUME UNCHANGED <<run, starts, actor, pc, fence>> PROVE StartsAreSingle'
  BY <1>0, <1>19 DEF StartsAreSingle, AtMostOnePaidRun, Starting, G
<1>20. ASSUME NEW p \in Procs, Detach(p) PROVE StartsAreSingle'
  BY <1>19, <1>20 DEF Detach, runVars, worldVars
<1>21. ASSUME NEW g \in Gens, ActorEnds(g) PROVE StartsAreSingle'
  <2>1. PICK s \in {"succeeded", "failed"} : actor' = [actor EXCEPT ![g] = s]
    BY <1>21 DEF ActorEnds
  <2>2. actor[g] = "running" /\ UNCHANGED <<run, starts, pc, fence>>
    BY <1>21 DEF ActorEnds, runVars, workVars
  <2>. QED
    BY <1>0, <2>1, <2>2 DEF StartsAreSingle, AtMostOnePaidRun, Starting, G, WorldTypeOK
<1>22. ASSUME NEW g \in Gens, Leases(g) PROVE StartsAreSingle'
  BY <1>19, <1>22
  DEF Leases, LeaseLapses, RecoverLease, ResolveLease, SetLease, worldVars, workVars
<1>23. ASSUME UNCHANGED <<runVars, worldVars, workVars>> PROVE StartsAreSingle'
  BY <1>19, <1>23 DEF runVars, worldVars, workVars
<1>24. ASSUME NEW p \in Procs, Work(p) PROVE StartsAreSingle'
  BY <1>3, <1>4, <1>6, <1>7, <1>8, <1>10, <1>11, <1>13, <1>14, <1>15, <1>16, <1>17, <1>18, <1>24
  DEF Work
<1>25. ASSUME NEW p \in Procs, Crash(p) PROVE StartsAreSingle'
  BY <1>3, <1>25
<1>26. \/ WorkWrites \/ \E g \in Gens : ActorEnds(g) \/ Leases(g)
       \/ UNCHANGED <<runVars, worldVars, workVars>>
  <2>1. ASSUME NEW c \in Clients, Dispatch(c) PROVE UNCHANGED <<runVars, worldVars, workVars>>
    BY <2>1 DEF Dispatch, EnqueueTask, EnqueueUnanswered, Mark, MarkUnanswered
  <2>2. ASSUME NEW c \in Users, Reserve(c) \/ Consume(c)
        PROVE  UNCHANGED <<runVars, worldVars, workVars>>
    BY <2>2 DEF Reserve, Consume
  <2>3. Sweep \/ ClaimLapses \/ Age \/ Expire => UNCHANGED <<runVars, worldVars, workVars>>
    BY DEF Sweep, ClaimLapses, Age, Expire
  <2>4. UNCHANGED vars => UNCHANGED <<runVars, worldVars, workVars>>
    BY DEF vars
  <2>. QED
    BY <2>1, <2>2, <2>3, <2>4 DEF FreshNext, WorkWrites
<1>. QED
  BY <1>5, <1>20, <1>21, <1>22, <1>23, <1>24, <1>25, <1>26 DEF WorkWrites

-----------------------------------------------------------------------------
(* What an answer to the queue, and the creation of a task, do to it: a    *)
(* name that was taken stays taken, and only a success acknowledges.       *)
LEMMA QueueKinds ==
    ASSUME QueueTypeOK
    PROVE  /\ \A p \in Procs : \A ok : Answer(p, ok) =>
                 \A f \in Fences :
                     /\ queue[f] # "none" => queue'[f] # "none"
                     /\ queue'[f] # queue[f] => f = fence[p] /\ queue'[f] # "none"
                     /\ queue'[f] = "done" /\ queue[f] # "done" => ok
           /\ \A h : Create(h) =>
                 \A f \in Fences :
                     /\ queue[f] # "none" => queue'[f] = queue[f]
                     /\ f = h => queue'[f] # "none"
                     /\ f # h => queue'[f] = queue[f]
                     /\ queue'[f] = "done" => queue[f] = "done"
<1>1. ASSUME NEW p \in Procs, NEW ok, Answer(p, ok), NEW f \in Fences
      PROVE  /\ queue[f] # "none" => queue'[f] # "none"
             /\ queue'[f] # queue[f] => f = fence[p] /\ queue'[f] # "none"
             /\ queue'[f] = "done" /\ queue[f] # "done" => ok
  <2>1. CASE TaskAnswered(fence[p], ok)
    BY <2>1 DEF TaskAnswered, QueueTypeOK
  <2>2. CASE UNCHANGED queueVars
    BY <2>2 DEF queueVars
  <2>. QED
    BY <1>1, <2>1, <2>2 DEF Answer
<1>2. ASSUME NEW h, Create(h), NEW f \in Fences
      PROVE  /\ queue[f] # "none" => queue'[f] = queue[f]
             /\ f = h => queue'[f] # "none"
             /\ f # h => queue'[f] = queue[f]
             /\ queue'[f] = "done" => queue[f] = "done"
  BY <1>2 DEF Create, QueueTypeOK
<1>. QED
  BY <1>1, <1>2

(* A new dispatch is one that was not reserved before; every other step    *)
(* keeps the present one, and starts no work and undoes no expiry.         *)
PresentKept ==
    /\ UNCHANGED <<gen, dgen>>
    /\ InWork' => InWork
    /\ expired => expired'

PresentNew ==
    /\ Beyond(<<gen', dgen'>>) /\ <<gen', dgen'>> \in Fences
    /\ \A f \in Fences : Beyond(f)' => Beyond(f)
    /\ UNCHANGED queueVars
    /\ dstate' = "reserved"

(* Every step keeps the present dispatch or reserves a new one. *)
LEMMA PresentKinds ==
    ASSUME FInv, [FreshNext]_vars
    PROVE  PresentKept \/ PresentNew
<1>. USE FreshAdmissionAssumption
<1>0. RowTypeOK /\ RowAgrees
  BY DEF FInv, FreshTypeOK
<1>1. UNCHANGED rowVars => PresentKept
  BY DEF rowVars, PresentKept, InWork
<1>2. ASSUME NEW p \in Procs, Block(p) \/ Count(p) \/ Release(p) \/ Defer(p) \/ Complete(p)
      PROVE  PresentKept
  <2>1. UNCHANGED rowVars \/ (Named(p) /\ \E s : LeaveAs(s))
    BY <1>2 DEF Block, Count, Release, Defer, Complete, Owns
  <2>2. Named(p) /\ (\E s : LeaveAs(s)) => PresentKept
    BY DEF Named, LeaveAs, PresentKept, InWork
  <2>. QED
    BY <1>1, <2>1, <2>2
<1>3. ASSUME NEW p \in Procs, ClaimAdmission(p) PROVE PresentKept
  BY <1>3 DEF ClaimAdmission, ClaimAnswer, PresentKept, InWork
<1>4. ASSUME NEW f, MarkRow(f) PROVE PresentKept
  BY <1>4 DEF MarkRow, PresentKept, InWork
<1>5. ASSUME NEW p \in Procs, RearmMark(p) PROVE PresentKept
  BY <1>1, <1>4, <1>5 DEF RearmMark
<1>6. ASSUME NEW c \in Clients, Mark(c) PROVE PresentKept
  BY <1>4, <1>6 DEF Mark
<1>7. ASSUME NEW c \in Users, Consume(c) PROVE PresentKept
  BY <1>7 DEF Consume, PresentKept, InWork
<1>8. ASSUME ClaimLapses \/ Age \/ Expire PROVE PresentKept
  BY <1>8 DEF ClaimLapses, Age, Expire, PresentKept, InWork
<1>9. ASSUME status = "pending", dgen < MaxDispatches, gen' = gen, dgen' = dgen + 1,
             dstate' = "reserved", UNCHANGED queueVars
      PROVE  PresentNew
  <2>1. <<gen', dgen'>> \in Fences
    BY <1>0, <1>9 DEF RowAgrees, Present, Fences, RowTypeOK
  <2>2. \A f \in Fences : Beyond(f)' => Beyond(f)
    BY <1>0, <1>9 DEF Beyond, Fences, Gens, RowTypeOK
  <2>3. Beyond(<<gen', dgen'>>)
    BY <1>0, <1>9 DEF Beyond, RowTypeOK
  <2>. QED
    BY <1>9, <2>1, <2>2, <2>3 DEF PresentNew
<1>10. ASSUME NEW p \in Procs, Rearm(p) PROVE PresentNew
  BY <1>9, <1>10 DEF Rearm, CanRearm
<1>11. ASSUME NEW c \in Users, Reserve(c) PROVE PresentKept \/ PresentNew
  <2>1. CASE TakeBack /\ status = "processing"
    BY <2>1 DEF TakeBack, PresentKept, InWork
  <2>2. CASE Overdue /\ Redispatch(c)
    BY <1>9, <1>11, <2>2 DEF Overdue, Redispatch, Reserve
  <2>3. CASE Regenerate(c)
    <3>1. gen' = gen + 1 /\ dgen' = 1 /\ dstate' = "reserved" /\ gen < MaxGenerations
      BY <2>3 DEF Regenerate
    <3>2. <<gen', dgen'>> \in Fences
      BY <1>0, <3>1 DEF Fences, Gens, RowTypeOK
    <3>3. \A f \in Fences : Beyond(f)' => Beyond(f)
      BY <1>0, <3>1 DEF Beyond, Fences, Gens, RowTypeOK
    <3>4. Beyond(<<gen', dgen'>>)
      BY <1>0, <3>1 DEF Beyond, RowTypeOK
    <3>. QED
      BY <1>11, <3>1, <3>2, <3>3, <3>4 DEF PresentNew, Reserve
  <2>. QED
    BY <1>1, <1>11, <2>1, <2>2, <2>3 DEF Reserve
<1>. QED
  BY <1>1, <1>2, <1>3, <1>5, <1>6, <1>7, <1>8, <1>10, <1>11, Writers DEF RowWrites

(* How a step changes the queue: a delivery, an answer or a task created   *)
(* for a dispatch that exists. *)
QueueKept(f) ==
    /\ queue[f] # "none" => queue'[f] # "none"
    /\ queue[f] = "none" /\ queue'[f] # "none" => ~Beyond(f)
    /\ queue'[f] = "done" /\ queue[f] # "done" /\ f = Present => ~InWork' \/ ~Open

(* Every step changes the queue in one of these ways. *)
LEMMA QueueStep ==
    ASSUME FInv, [FreshNext]_vars
    PROVE  \A f \in Fences : QueueKept(f)
<1>0. /\ QueueTypeOK /\ WorkTypeOK /\ WorkersAgree /\ RowAgrees /\ DispatchesAgree
  BY DEF FInv, FreshTypeOK
<1> DEFINE Good == \A f \in Fences : QueueKept(f)
<1>1. UNCHANGED queue => Good
  BY DEF QueueKept
<1>2. UNCHANGED queueVars => Good
  BY <1>1 DEF queueVars
<1>3. ASSUME NEW h \in Fences, ~Beyond(h), Create(h) PROVE Good
  BY <1>0, <1>3, QueueKinds DEF QueueKept
<1>4. ASSUME NEW p \in Procs, NEW ok, Answer(p, ok), pc[p] # "idle",
             ok /\ fence[p] = Present => ~InWork' \/ ~Open
      PROVE  Good
  <2>. SUFFICES ASSUME NEW f \in Fences PROVE QueueKept(f)
    OBVIOUS
  <2>1. /\ queue[f] # "none" => queue'[f] # "none"
        /\ queue'[f] # queue[f] => f = fence[p] /\ queue'[f] # "none"
        /\ queue'[f] = "done" /\ queue[f] # "done" => ok
    BY <1>0, <1>4, QueueKinds
  <2>2. queue[fence[p]] # "none"
    BY <1>0, <1>4 DEF DispatchesAgree
  <2>. QED
    BY <1>4, <2>1, <2>2 DEF QueueKept
<1>. HIDE DEF Good
<1>5. ASSUME NEW p \in Procs, ClaimNothing(p) PROVE Good
  <2>1. Answer(p, Acknowledges(p)) /\ pc[p] # "idle" /\ UNCHANGED status
    BY <1>5 DEF ClaimNothing, At, rowVars
  <2>2. Acknowledges(p) /\ fence[p] = Present => ~InWork \/ ~Open
    BY DEF Acknowledges, ClaimAnswer, InWork
  <2>. QED
    BY <1>4, <2>1, <2>2 DEF InWork
<1>6. ASSUME NEW p \in Procs, Block(p) PROVE Good
  BY <1>4, <1>6 DEF Block, LeaveAs, InWork, At
<1>7. ASSUME NEW p \in Procs, Complete(p) PROVE Good
  <2>1. ~InWork' /\ pc[p] = "complete"
    BY <1>7 DEF Complete, LeaveAs, InWork, At
  <2>2. Answer(p, TRUE) \/ UNCHANGED queueVars
    BY <1>7 DEF Complete
  <2>. QED
    BY <1>2, <1>4, <2>1, <2>2
<1>8. ASSUME NEW p \in Procs, Count(p) PROVE Good
  <2>1. PICK blocks \in BOOLEAN : Answer(p, blocks) /\ LeaveAs(IF blocks THEN "blocked" ELSE "pending")
    <3>1. (failures + 1 >= MaxFailures) \in BOOLEAN
      OBVIOUS
    <3>. QED
      BY <1>8, <3>1, Zenon DEF Count
  <2>2. blocks => ~InWork'
    BY <2>1 DEF LeaveAs, InWork
  <2>. QED
    BY <1>4, <1>8, <2>1, <2>2 DEF Count, At
<1>9. ASSUME NEW p \in Procs, Release(p) \/ RearmMark(p) \/ RearmFails(p) \/ Crash(p) PROVE Good
  <2>1. Answer(p, FALSE) /\ pc[p] # "idle"
    BY <1>9 DEF Release, RearmMark, RearmFails, Crash, At
  <2>. QED
    BY <1>4, <2>1
<1>10. ASSUME NEW p \in Procs, Defer(p) PROVE Good
  <2>1. (Answer(p, FALSE) \/ UNCHANGED queueVars) /\ pc[p] # "idle"
    BY <1>10 DEF Defer, At
  <2>. QED
    BY <1>2, <1>4, <2>1
<1>11. ASSUME NEW p \in Procs, RearmTask(p) PROVE Good
  BY <1>0, <1>3, <1>11 DEF RearmTask, At, WorkersAgree, WorkerAgrees, DispatchesAgree
<1>12. ASSUME NEW c \in Clients, Dispatch(c) PROVE Good
  <2>1. cpc[c] = "enqueue" => cfence[c] \in Fences /\ ~Beyond(cfence[c])
    BY <1>0 DEF WorkersAgree, DispatchesAgree
  <2>2. EnqueueTask(c) \/ EnqueueUnanswered(c) =>
            cpc[c] = "enqueue" /\ (Create(cfence[c]) \/ UNCHANGED queueVars)
    BY DEF EnqueueTask, EnqueueUnanswered
  <2>3. Mark(c) \/ MarkUnanswered(c) => UNCHANGED queueVars
    BY DEF Mark, MarkUnanswered
  <2>. QED
    BY <1>2, <1>3, <1>12, <2>1, <2>2, <2>3 DEF Dispatch
<1>13. ASSUME NEW p \in Procs, NEW f \in Fences, Deliver(p, f) PROVE Good
  BY <1>0, <1>13 DEF Deliver, Good, QueueKept, QueueTypeOK
<1>14. ASSUME NEW p \in Procs, Detach(p) PROVE Good
  <2>1. TaskAnswered(fence[p], FALSE) /\ queue[fence[p]] # "none"
    BY <1>0, <1>14 DEF Detach, DispatchesAgree, WorkersAgree, WorkerAgrees
  <2>. QED
    BY <1>0, <2>1 DEF TaskAnswered, Good, QueueKept, QueueTypeOK
<1>15. ASSUME NEW p \in Procs, Work(p) PROVE Good
  <2>1. \/ ClaimNothing(p) \/ Block(p) \/ Complete(p) \/ Count(p) \/ Release(p) \/ RearmMark(p)
        \/ RearmFails(p) \/ Defer(p) \/ RearmTask(p)
        \/ UNCHANGED queueVars
    BY <1>15
    DEF Work, ClaimAdmission, Load, Adopt, ResumeRefused, Acquire, AcquireFails,
        ReserveRun, ReserveFails, StartActor, CheckStarted, CheckStartedFails, CheckRejected,
        WaitLonger, Finish, FinishFails, Attest, SettleFails, DeferFails, Rearm, queueVars
  <2>. QED
    BY <1>2, <1>5, <1>6, <1>7, <1>8, <1>9, <1>10, <1>11, <2>1
<1>16. ASSUME NEW c \in Users, Reserve(c) \/ Consume(c) PROVE UNCHANGED queueVars
  BY <1>16 DEF Reserve, Consume
<1>17. ASSUME NEW g \in Gens, ActorEnds(g) \/ Leases(g) PROVE UNCHANGED queueVars
  BY <1>17 DEF ActorEnds, Leases, LeaseLapses, RecoverLease, ResolveLease, SetLease
<1>18. Sweep \/ ClaimLapses \/ Age \/ Expire => UNCHANGED queueVars
  BY DEF Sweep, ClaimLapses, Age, Expire
<1>19. UNCHANGED vars => UNCHANGED queueVars
  BY DEF vars
<1>20. Good
  BY <1>2, <1>9, <1>12, <1>13, <1>14, <1>15, <1>16, <1>17, <1>18, <1>19 DEF FreshNext
<1>. QED
  BY <1>20 DEF Good

(* How a worker comes to have a fence, and a rotated one. *)
LEMMA FenceKinds ==
    ASSUME FInv, [FreshNext]_vars, NEW p \in Procs
    PROVE  /\ pc'[p] # "idle" =>
                 \/ pc[p] # "idle" /\ fence'[p] = fence[p]
                 \/ \E f \in Fences : Deliver(p, f)
           /\ pc'[p] \in {"rearmtask", "rearmmark"} => fence'[p] = fence[p]
           /\ pc'[p] = "rearmtask" => pc[p] = "rearmtask" \/ Rearm(p)
           /\ pc'[p] = "rearmmark" => pc[p] = "rearmmark" \/ RearmTask(p)
<1>0. WorkTypeOK
  BY DEF FInv, FreshTypeOK
<1> DEFINE Good ==
      /\ pc'[p] # "idle" =>
            \/ pc[p] # "idle" /\ fence'[p] = fence[p]
            \/ \E f \in Fences : Deliver(p, f)
      /\ pc'[p] \in {"rearmtask", "rearmmark"} => fence'[p] = fence[p]
      /\ pc'[p] = "rearmtask" => pc[p] = "rearmtask" \/ Rearm(p)
      /\ pc'[p] = "rearmmark" => pc[p] = "rearmmark" \/ RearmTask(p)
<1>1. ASSUME NEW q \in Procs, pc[q] # "idle", NEW point \in Inside, Goto(q, point) PROVE Good
  BY <1>0, <1>1 DEF Goto, WorkTypeOK, Inside
<1>2. ASSUME NEW q \in Procs, NEW ok, Answer(q, ok) PROVE Good
  BY <1>0, <1>2 DEF Answer, WorkTypeOK
<1>3. ASSUME NEW q \in Procs, ClaimAdmission(q) PROVE Good
  BY <1>0, <1>3 DEF ClaimAdmission, WorkTypeOK, At
<1>4. ASSUME NEW q \in Procs, Rearm(q) PROVE Good
  <2>1. pc' = [pc EXCEPT ![q] = "rearmtask"] /\ pc[q] = "rearm" /\ UNCHANGED fence
    BY <1>4 DEF Rearm, Goto, At
  <2>. QED
    BY <1>0, <1>4, <2>1 DEF WorkTypeOK
<1>5. ASSUME NEW q \in Procs, RearmTask(q) PROVE Good
  <2>1. pc' = [pc EXCEPT ![q] = "rearmmark"] /\ pc[q] = "rearmtask" /\ UNCHANGED fence
    BY <1>5 DEF RearmTask, Goto, At
  <2>. QED
    BY <1>0, <1>5, <2>1 DEF WorkTypeOK
<1>6. ASSUME NEW q \in Procs, NEW f \in Fences, Deliver(q, f) PROVE Good
  <2>1. /\ pc' = [pc EXCEPT ![q] = "claim"] /\ fence' = [fence EXCEPT ![q] = f]
    BY <1>6 DEF Deliver
  <2>. QED
    BY <1>0, <1>6, <2>1 DEF WorkTypeOK
<1>7. ASSUME UNCHANGED <<pc, fence>> PROVE Good
  BY <1>7
<1>. HIDE DEF Good
<1>8. ASSUME NEW q \in Procs, Work(q) PROVE Good
  BY <1>1, <1>2, <1>3, <1>4, <1>5, <1>8, Moves
<1>9. ASSUME NEW q \in Procs, Crash(q) PROVE Good
  BY <1>2, <1>9 DEF Crash
<1>10. ASSUME NEW q \in Procs, Detach(q) PROVE Good
  BY <1>7, <1>10 DEF Detach
<1>11. UNCHANGED workVars => Good
  BY <1>7 DEF workVars
<1>12. Good
  BY <1>6, <1>8, <1>9, <1>10, <1>11, Writers DEF WorkWrites
<1>. QED
  BY <1>12 DEF Good

(* How a caller comes to have a dispatch. *)
LEMMA CallKinds ==
    ASSUME FInv, [FreshNext]_vars, NEW c \in Clients
    PROVE  /\ cpc'[c] \in {"enqueue", "mark"} =>
                 \/ cpc[c] \in {"enqueue", "mark"} /\ cfence'[c] = cfence[c]
                 \/ cfence'[c] = <<gen', dgen'>>
           /\ cpc'[c] = "mark" => (cpc[c] = "mark" /\ cfence'[c] = cfence[c]) \/ EnqueueTask(c)
<1>0. CallTypeOK
  BY DEF FInv, FreshTypeOK
<1> DEFINE Good ==
      /\ cpc'[c] \in {"enqueue", "mark"} =>
            \/ cpc[c] \in {"enqueue", "mark"} /\ cfence'[c] = cfence[c]
            \/ cfence'[c] = <<gen', dgen'>>
      /\ cpc'[c] = "mark" => (cpc[c] = "mark" /\ cfence'[c] = cfence[c]) \/ EnqueueTask(c)
<1>1. ASSUME NEW d, NEW point \in {"idle", "consume"}, CGoto(d, point, NoFence) PROVE Good
  BY <1>0, <1>1 DEF CGoto, CallTypeOK
<1>2. ASSUME NEW d, CGoto(d, "enqueue", <<gen', dgen'>>) PROVE Good
  BY <1>0, <1>2 DEF CGoto, CallTypeOK
<1>3. ASSUME NEW d \in Clients, EnqueueTask(d) PROVE Good
  <2>1. cpc[d] = "enqueue" /\ CGoto(d, "mark", cfence[d])
    BY <1>3 DEF EnqueueTask
  <2>. QED
    BY <1>0, <1>3, <2>1 DEF CGoto, CallTypeOK
<1>4. UNCHANGED callVars => Good
  BY DEF callVars
<1>. HIDE DEF Good
<1>5. ASSUME NEW d \in Clients, Dispatch(d) PROVE Good
  BY <1>1, <1>3, <1>5 DEF Dispatch, EnqueueUnanswered, Mark, MarkUnanswered
<1>6. ASSUME NEW d \in Users, Reserve(d) PROVE Good
  <2>1. Redispatch(d) => CGoto(d, "enqueue", <<gen', dgen'>>)
    BY DEF Redispatch
  <2>2. Regenerate(d) => CGoto(d, "enqueue", <<gen', dgen'>>)
    BY DEF Regenerate
  <2>3. TakeBack => UNCHANGED callVars
    BY DEF TakeBack
  <2>. QED
    BY <1>1, <1>2, <1>4, <1>6, <2>1, <2>2, <2>3 DEF Reserve
<1>7. ASSUME NEW d \in Users, Consume(d) PROVE Good
  BY <1>1, <1>7 DEF Consume
<1>8. ASSUME Sweep PROVE Good
  <2>1. CGoto(Sweeper, "enqueue", <<gen', dgen'>>)
    BY <1>8 DEF Sweep, Present, rowVars
  <2>. QED
    BY <1>2, <2>1
<1>9. Good
  BY <1>4, <1>5, <1>6, <1>7, <1>8, Writers DEF CallWrites
<1>. QED
  BY <1>9 DEF Good

(* A dispatch is marked only when its task was seen in the queue. *)
LEMMA MarkKinds ==
    ASSUME FInv, [FreshNext]_vars, dstate' = "enqueued"
    PROVE  dstate = "enqueued" \/ queue[Present] # "none"
<1>0. DispatchesAgree
  BY DEF FInv
<1>1. ASSUME NEW f, MarkRow(f), queue[f] # "none"
      PROVE  dstate = "enqueued" \/ queue[Present] # "none"
  BY <1>1 DEF MarkRow
<1>2. UNCHANGED rowVars => dstate = "enqueued"
  BY DEF rowVars
<1>3. ASSUME NEW p \in Procs, ClaimAdmission(p) PROVE queue[Present] # "none"
  BY <1>0, <1>3 DEF ClaimAdmission, ClaimAnswer, DispatchesAgree, At
<1>4. ASSUME NEW p \in Procs, Complete(p) \/ Block(p) \/ Count(p) \/ Release(p) \/ Defer(p)
      PROVE  dstate = "enqueued"
  BY <1>2, <1>4 DEF Complete, Block, Count, Release, Defer, LeaveAs
<1>5. ASSUME NEW p \in Procs, Rearm(p) PROVE FALSE
  BY <1>5 DEF Rearm
<1>6. ASSUME NEW p \in Procs, RearmMark(p)
      PROVE  dstate = "enqueued" \/ queue[Present] # "none"
  BY <1>0, <1>1, <1>2, <1>6 DEF RearmMark, DispatchesAgree, At
<1>7. ASSUME NEW c \in Clients, Mark(c)
      PROVE  dstate = "enqueued" \/ queue[Present] # "none"
  BY <1>0, <1>1, <1>7 DEF Mark, DispatchesAgree
<1>8. ASSUME NEW c \in Users, Reserve(c) \/ Consume(c) PROVE dstate = "enqueued"
  BY <1>2, <1>8 DEF Reserve, Consume, TakeBack, Redispatch, Regenerate
<1>9. ClaimLapses \/ Age \/ Expire => dstate = "enqueued"
  BY DEF ClaimLapses, Age, Expire
<1>. QED
  BY <1>2, <1>3, <1>4, <1>5, <1>6, <1>7, <1>8, <1>9, Writers DEF RowWrites

(* The queue knows what it should, and the present dispatch is not         *)
(* acknowledged while there is work. *)
LEMMA DispatchesStep ==
    ASSUME FInv, [FreshNext]_vars
    PROVE  DispatchesAgree'
<1>0. /\ RowTypeOK /\ QueueTypeOK /\ WorkersAgree /\ RowAgrees /\ DispatchesAgree
      /\ WorkersAgree' /\ RowAgrees'
  <2>1. WorkersAgree'
    BY CallStep, WorkStep DEF WorkersAgree
  <2>. QED
    BY <2>1, RowStep DEF FInv, FreshTypeOK
<1>1. \A f \in Fences : QueueKept(f)
  BY QueueStep
<1>2. PresentKept \/ PresentNew
  BY PresentKinds
<1>3. \A f \in Fences : Beyond(f)' => Beyond(f)
  BY <1>2 DEF PresentKept, PresentNew, Beyond
<1>4. InWork' => Present' \in Fences
  BY <1>0 DEF RowAgrees, InWork
<1>5. ~Beyond(Present)'
  <2>1. gen' \in Int /\ dgen' \in Int
    BY RowTypeStep, FreshAdmissionAssumption DEF RowTypeOK
  <2>. QED
    BY <2>1 DEF Beyond, Present
<1>6. InWork' /\ ~expired' => queue'[Present'] # "done"
  <2>. SUFFICES ASSUME InWork', ~expired' PROVE queue'[Present'] # "done"
    OBVIOUS
  <2>1. CASE PresentKept
    <3>1. InWork /\ ~expired /\ Present' = Present /\ Present \in Fences
      BY <1>4, <2>1 DEF PresentKept, Present
    <3>2. Open
      BY <1>0, <3>1 DEF Open, RowAgrees, InWork
    <3>3. queue[Present] # "done"
      BY <1>0, <3>1 DEF DispatchesAgree
    <3>. QED
      BY <1>1, <3>1, <3>2, <3>3 DEF QueueKept
  <2>2. CASE PresentNew
    <3>1. queue[Present'] = "none" /\ UNCHANGED queue
      BY <1>0, <2>2 DEF PresentNew, DispatchesAgree, Present, queueVars
    <3>. QED
      BY <3>1
  <2>. QED
    BY <1>2, <2>1, <2>2
<1>7. InWork' /\ dstate' = "enqueued" => queue'[Present'] # "none"
  <2>. SUFFICES ASSUME InWork', dstate' = "enqueued" PROVE queue'[Present'] # "none"
    OBVIOUS
  <2>1. PresentKept
    BY <1>2 DEF PresentNew
  <2>2. InWork /\ Present' = Present /\ Present \in Fences
    BY <1>4, <2>1 DEF PresentKept, Present
  <2>3. queue[Present] # "none"
    BY <1>0, <2>2, MarkKinds DEF DispatchesAgree
  <2>. QED
    BY <1>1, <2>2, <2>3 DEF QueueKept
<1>8. \A f \in Fences : Beyond(f)' => queue'[f] = "none"
  BY <1>0, <1>1, <1>3 DEF QueueKept, DispatchesAgree
<1>9. ASSUME NEW p \in Procs, pc'[p] # "idle" PROVE queue'[fence'[p]] # "none"
  <2>1. CASE pc[p] # "idle" /\ fence'[p] = fence[p]
    BY <1>0, <1>1, <2>1 DEF DispatchesAgree, QueueKept, WorkersAgree, WorkerAgrees
  <2>2. ASSUME NEW f \in Fences, Deliver(p, f) PROVE queue'[fence'[p]] # "none"
    <3>1. queue' = [queue EXCEPT ![f] = "flying"] /\ fence' = [fence EXCEPT ![p] = f]
      BY <2>2 DEF Deliver
    <3>. QED
      BY <1>0, <3>1 DEF QueueTypeOK, FInv, FreshTypeOK, WorkTypeOK
  <2>. QED
    BY <1>9, <2>1, <2>2, FenceKinds
<1>10. ASSUME NEW p \in Procs, pc'[p] \in {"rearmtask", "rearmmark"}
       PROVE  ~Beyond(Rotated(p))'
  <2>1. fence'[p] = fence[p]
    BY <1>10, FenceKinds
  <2>2. CASE pc[p] \in {"rearmtask", "rearmmark"}
    <3>1. Rotated(p) \in Fences /\ ~Beyond(Rotated(p)) /\ Rotated(p)' = Rotated(p)
      BY <1>0, <2>1, <2>2 DEF DispatchesAgree, WorkersAgree, WorkerAgrees, Rotated, G
    <3>. QED
      BY <1>3, <3>1 DEF Beyond
  <2>3. CASE Rearm(p)
    <3>1. Rotated(p)' = Present'
      BY <2>1, <2>3 DEF Rearm, CanRearm, Rotated, G, Present
    <3>. QED
      BY <1>5, <3>1 DEF Beyond
  <2>4. CASE RearmTask(p)
    BY <2>2, <2>4 DEF RearmTask, At
  <2>. QED
    BY <1>10, <2>2, <2>3, <2>4, FenceKinds
<1>11. ASSUME NEW p \in Procs, pc'[p] = "rearmmark" PROVE queue'[Rotated(p)'] # "none"
  <2>1. Rotated(p)' = Rotated(p)
    BY <1>11, FenceKinds DEF Rotated, G
  <2>2. CASE pc[p] = "rearmmark"
    BY <1>0, <1>1, <2>1, <2>2 DEF DispatchesAgree, QueueKept, WorkersAgree, WorkerAgrees
  <2>3. CASE RearmTask(p)
    <3>1. Rotated(p) \in Fences /\ Create(Rotated(p))
      BY <1>0, <2>3 DEF RearmTask, At, WorkersAgree, WorkerAgrees
    <3>. QED
      BY <1>0, <2>1, <3>1, QueueKinds
  <2>. QED
    BY <1>11, <2>2, <2>3, FenceKinds
<1>12. ASSUME NEW c \in Clients, cpc'[c] \in {"enqueue", "mark"} PROVE ~Beyond(cfence[c])'
  <2>1. CASE cpc[c] \in {"enqueue", "mark"} /\ cfence'[c] = cfence[c]
    <3>1. cfence[c] \in Fences /\ ~Beyond(cfence[c])
      BY <1>0, <2>1 DEF DispatchesAgree, WorkersAgree
    <3>. QED
      BY <1>3, <2>1, <3>1 DEF Beyond
  <2>2. CASE cfence'[c] = <<gen', dgen'>>
    BY <1>5, <2>2 DEF Beyond, Present
  <2>. QED
    BY <1>12, <2>1, <2>2, CallKinds
<1>13. ASSUME NEW c \in Clients, cpc'[c] = "mark" PROVE queue'[cfence'[c]] # "none"
  <2>1. CASE cpc[c] = "mark" /\ cfence'[c] = cfence[c]
    BY <1>0, <1>1, <2>1 DEF DispatchesAgree, QueueKept, WorkersAgree
  <2>2. CASE EnqueueTask(c)
    <3>1. cfence[c] \in Fences /\ Create(cfence[c]) /\ cfence'[c] = cfence[c]
      BY <1>0, <2>2 DEF EnqueueTask, CGoto, WorkersAgree, FInv, FreshTypeOK, CallTypeOK
    <3>. QED
      BY <1>0, <3>1, QueueKinds
  <2>. QED
    BY <1>13, <2>1, <2>2, CallKinds
<1>. QED
  BY <1>6, <1>7, <1>8, <1>9, <1>10, <1>11, <1>12, <1>13 DEF DispatchesAgree

-----------------------------------------------------------------------------
(* The invariant is inductive.                                             *)
LEMMA NextFInv == FInv /\ [FreshNext]_vars => FInv'
<1>. SUFFICES ASSUME FInv, [FreshNext]_vars PROVE FInv'
  OBVIOUS
<1>1. FreshTypeOK'
  <2>1. RowTypeOK' /\ RunTypeOK' /\ WorldTypeOK'
    BY RowTypeStep, RunTypeStep, WorldTypeStep
  <2>2. WorkTypeOK' /\ CallTypeOK' /\ faults' \in 0..MaxFaults
    BY WorkStep, CallStep, FaultStep
  <2>. QED
    BY <2>1, <2>2, QueueTypeStep DEF FreshTypeOK
<1>2. WorkersAgree'
  BY WorkStep, CallStep DEF WorkersAgree
<1>3. RowAgrees' /\ StartsAreSingle' /\ CompletionIsQuiet' /\ DispatchesAgree'
  BY RowStep, StartsStep, QuietStep, DispatchesStep
<1>. QED
  BY <1>1, <1>2, <1>3 DEF FInv

(* Every reachable state satisfies the inductive invariant.                *)
LEMMA AlwaysFInv == FreshSpec => []FInv
  BY InitFInv, NextFInv, PTL DEF FreshSpec

(* Every variable stays in its range: the claims, leases, fences and       *)
(* delivery counts of the admission have no other values.                  *)
THEOREM FreshTypes == FreshSpec => []FreshTypeOK
<1>1. FInv => FreshTypeOK
  BY DEF FInv
<1>. QED
  BY <1>1, AlwaysFInv, PTL

(* However often a generation is claimed, crashed and dispatched again, it *)
(* starts one paid Actor at most.                                          *)
THEOREM StartsOneActor == FreshSpec => []AtMostOnePaidRun
<1>1. FInv => AtMostOnePaidRun
  BY DEF FInv, StartsAreSingle
<1>. QED
  BY <1>1, AlwaysFInv, PTL

(* A ready admission leaves no Actor of its generation running.            *)
THEOREM ReadyIsQuiet == FreshSpec => []ReadyLeavesNoActor
<1>1. FInv => ReadyLeavesNoActor
  <2>. SUFFICES ASSUME FInv, status = "ready" PROVE actor[gen] # "running"
    BY DEF ReadyLeavesNoActor
  <2>1. Quiet(gen) /\ gen \in Gens
    BY DEF FInv, CompletionIsQuiet, RowAgrees, Present, Fences
  <2>. QED
    BY <2>1 DEF FInv, StartsAreSingle, Quiet
<1>. QED
  BY <1>1, AlwaysFInv, PTL

(* The task of a dispatch that is marked is going to be delivered, or the  *)
(* queue has given it up: nothing else loses the work.                     *)
THEOREM WorkStaysReachable == FreshSpec => []WorkIsReachable
<1>1. FInv => WorkIsReachable
  <2>. SUFFICES ASSUME FInv, InWork, dstate = "enqueued", ~expired
                PROVE  queue[Present] \in {"queued", "flying", "dropped"}
    BY DEF WorkIsReachable, InWork
  <2>1. queue[Present] \notin {"none", "done"} /\ Present \in Fences
    BY DEF FInv, DispatchesAgree, RowAgrees, InWork
  <2>. QED
    BY <2>1 DEF FInv, FreshTypeOK, QueueTypeOK
<1>. QED
  BY <1>1, AlwaysFInv, PTL

(* A worker moves by a step of its own. *)
LEMMA Movers ==
    ASSUME FInv, [FreshNext]_vars, NEW p \in Procs, pc'[p] # pc[p]
    PROVE  Work(p) \/ Crash(p) \/ \E f \in Fences : Deliver(p, f)
<1>0. WorkTypeOK
  BY DEF FInv, FreshTypeOK
<1>1. ASSUME NEW q \in Procs, NEW point, pc' = [pc EXCEPT ![q] = point] PROVE q = p
  BY <1>0, <1>1 DEF WorkTypeOK
<1>2. ASSUME NEW q \in Procs, Work(q) PROVE q = p
  BY <1>1, <1>2, Moves DEF Goto, Answer, ClaimAdmission, Rearm, RearmTask
<1>3. ASSUME NEW q \in Procs, Crash(q) PROVE q = p
  BY <1>1, <1>3 DEF Crash, Answer
<1>4. ASSUME NEW q \in Procs, NEW f \in Fences, Deliver(q, f) PROVE q = p
  BY <1>1, <1>4 DEF Deliver
<1>5. ASSUME NEW q \in Procs, Detach(q) PROVE FALSE
  BY <1>5 DEF Detach
<1>6. ~UNCHANGED workVars
  BY DEF workVars
<1>. QED
  BY <1>2, <1>3, <1>4, <1>5, <1>6, Writers DEF WorkWrites

(* A worker whose claim is gone, or was taken over, changes neither the    *)
(* state of the admission nor its failures nor any provider run.           *)
THEOREM LateWorkersAreHarmless == FreshSpec => LateWorkersChangeNothing
<1>1. FInv /\ [FreshNext]_vars =>
        [\A p \in Procs :
            pc'[p] # pc[p] /\ token[p] # NoToken /\ token[p] # claim
                => UNCHANGED <<status, failures, run>>]_vars
  <2>. SUFFICES ASSUME FInv, [FreshNext]_vars, NEW p \in Procs,
                       pc'[p] # pc[p], token[p] # NoToken, token[p] # claim
                PROVE  UNCHANGED <<status, failures, run>>
    OBVIOUS
  <2>1. ~Named(p) /\ ~Owns(p)
    BY DEF Named, Owns
  <2>2. UNCHANGED run
    BY <2>1, RunOwner
  <2>3. UNCHANGED rowVars => UNCHANGED <<status, failures>>
    BY DEF rowVars
  <2>4. CASE Work(p)
    <3>1. ~ClaimAdmission(p)
      BY DEF ClaimAdmission, At, FInv, WorkersAgree, WorkerAgrees
    <3>2. ~Complete(p) /\ ~Block(p) /\ ~Count(p) /\ ~Defer(p)
      BY <2>1 DEF Complete, Block, Count, Defer
    <3>3. Release(p) \/ Rearm(p) \/ RearmMark(p) => UNCHANGED <<status, failures>>
      BY <2>1, <2>3 DEF Release, Rearm, RearmMark, MarkRow
    <3>4. \/ Release(p) \/ Rearm(p) \/ RearmMark(p)
          \/ UNCHANGED rowVars
      BY <2>4, <3>1, <3>2
      DEF Work, ClaimNothing, Load, Adopt, ResumeRefused, Acquire, AcquireFails,
          ReserveRun, ReserveFails, StartActor, CheckStarted, CheckStartedFails, CheckRejected,
          WaitLonger, Finish, FinishFails, Attest, SettleFails, DeferFails, RearmTask, RearmFails
    <3>. QED
      BY <2>2, <2>3, <3>3, <3>4
  <2>5. CASE Crash(p) \/ \E f \in Fences : Deliver(p, f)
    BY <2>2, <2>3, <2>5 DEF Crash, Deliver
  <2>. QED
    BY <2>4, <2>5, Movers
<1>. QED
  BY <1>1, AlwaysFInv, PTL DEF FreshSpec, LateWorkersChangeNothing
=============================================================================
