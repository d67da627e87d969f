----------------------- MODULE AnalysisPipelineProofs -----------------------
(***************************************************************************)
(* Proofs about AnalysisPipeline, for every graph in which the finalizer   *)
(* needs all jobs but the bootstrap, any number of processes, and any      *)
(* bounds on crashes, stalls, drops, faults and waits.                     *)
(*                                                                         *)
(* The processes call the ledger and nothing else changes its rows, so     *)
(* PipelineSpec implements Spec and inherits IInv.  On top of it come four *)
(* invariants, one for each property that relates the ledger to what is    *)
(* outside of it, and the types of the processes that all of them need.    *)
(***************************************************************************)
EXTENDS AnalysisPipeline, JobLedgerProofs, FiniteSetTheorems

(* The points at which a process acts on a claim of its own.               *)
Working == HandlerPoints \cup {"post", "attach", "fanout"}
Claiming == Working \cup {"claimed", "cleanup", "settle"}

Records ==
    [pc : Points, job : Jobs \cup {NoJob}, gen : 0..MaxGen, token : Tokens \cup {NoToken},
     plan : SUBSET Jobs, code : Codes]

(* A process that is not idle works on a job, and one that has a claim     *)
(* knows its token; what it is about to propose are proposals of its job.  *)
Shaped(r) ==
    /\ r \in Records
    /\ r.pc = "idle" => r.job = NoJob /\ r.token = NoToken
    /\ r.pc # "idle" => r.job \in Jobs /\ r.gen \in 1..MaxGen
    /\ r.pc \in Claiming => r.token \in Tokens
    /\ r.pc = "bootstrap" => r.job = Bootstrap
    /\ r.pc = "fanout" => r.plan \subseteq Proposals(r.job)

ProcShape ==
    /\ proc \in [Procs -> Records]
    /\ \A p \in Procs : Shaped(proc[p])

WorldTypes ==
    /\ tasks \subseteq Jobs \X (1..MaxGen) /\ named \subseteq Jobs \X (1..MaxGen)
    /\ started \in [Jobs -> Nat] /\ alive \in [Jobs -> BOOLEAN]

(* A started Actor is known to the ledger, and one that runs is not        *)
(* settled in it.  The process that is about to start one is the only one, *)
(* and nobody started it before.                                           *)
StartsInv ==
    /\ AtMostOnePaidStart
    /\ \A j \in Jobs :
          /\ runStatus[j] = "none" => started[j] = 0 /\ j \notin resolved
          /\ alive[j] => started[j] = 1 /\ Unsettled(j)
    /\ \A p \in Procs :
          /\ At(p, "post") =>
                /\ started[proc[p].job] = 0
                /\ runStatus[proc[p].job] = "starting" /\ proc[p].job \notin resolved
          /\ At(p, "attach") => started[proc[p].job] = 1
    /\ \A p, q \in Procs :
          At(p, "post") /\ At(q, "post") /\ proc[p].job = proc[q].job => p = q

(* No two processes have the same claim of a job, and one whose claim is   *)
(* live does not work on a job that owns a failure.                        *)
ClaimsInv ==
    /\ OwnerNeverCompletes
    /\ \A p, q \in Procs :
          /\ proc[p].job = proc[q].job /\ proc[p].token = proc[q].token
          /\ proc[p].token \in Tokens
          => p = q
    /\ \A p \in Procs :
          OwnIntent(proc[p].job) /\ Holds(proc[p].job, proc[p].token) => proc[p].pc \notin Working

(* What a process has done before it fans out, and what is left of it when *)
(* its job is completed.                                                   *)
WholeInv ==
    /\ Finalizer \notin manifests
    /\ status[Bootstrap] # "absent"
    /\ outcome = "completed" => status[Bootstrap] = "completed"
    /\ \A j \in Jobs \ {Finalizer} : status[j] = "completed" => j \in manifests
    /\ \A j \in PaidJobs \cap manifests : runStatus[j] = "terminal"
    /\ \A p \in Procs :
          /\ proc[p].pc \in {"reload", "fanout"} => proc[p].job \in manifests
          /\ proc[p].pc \in {"save", "reload", "fanout"} /\ proc[p].job \in PaidJobs
                => runStatus[proc[p].job] = "terminal"

(* A dispatcher is not ahead of its row, and marks only what it created.   *)
OutboxInv ==
    /\ OutboxAgreesWithQueue
    /\ \A p \in Procs :
          /\ proc[p].pc \in {"create", "mark"} => proc[p].gen <= gen[proc[p].job]
          /\ At(p, "mark") => <<proc[p].job, proc[p].gen>> \in named

PInv == ProcShape /\ WorldTypes /\ StartsInv /\ ClaimsInv /\ WholeInv /\ OutboxInv

-----------------------------------------------------------------------------
(* A set with one more element.                                            *)
LEMMA AddOne ==
    ASSUME NEW S, NEW x, IsFiniteSet(S)
    PROVE  /\ IsFiniteSet(S \cup {x}) /\ Cardinality(S) \in Nat
           /\ Cardinality(S \cup {x}) \in Nat
           /\ Cardinality(S \cup {x}) <= Cardinality(S) + 1
<1>1. Cardinality(S) \in Nat
  BY FS_CardinalityType
<1>2. /\ IsFiniteSet(S \cup {x})
      /\ Cardinality(S \cup {x}) = IF x \in S THEN Cardinality(S) ELSE Cardinality(S) + 1
  BY FS_AddElement
<1>. QED
  BY <1>1, <1>2

(* There is always a token that nothing remembers for a job.               *)
LEMMA FreshToken ==
    ASSUME ProcShape, NEW p \in Procs, At(p, "idle"), NEW j \in Jobs
    PROVE  Fresh(j) \in Tokens \ UsedTokens(j)
<1> DEFINE Others == Procs \ {p}
           TokenOf == [q \in Others |-> proc[q].token]
           Remembered == {TokenOf[q] : q \in Others}
           More == Remembered \cup {lease[j]}
           Most == More \cup {runToken[j]}
           All == Most \cup {intent.token}
<1>1. IsFiniteSet(Others) /\ Cardinality(Others) = Cardinality(Procs) - 1
      /\ Cardinality(Procs) \in Nat
  BY PipelineAssumption, FS_RemoveElement, FS_CardinalityType
<1>2. TokenOf \in Surjection(Others, Remembered)
  BY DEF Surjection
<1>3. IsFiniteSet(Remembered) /\ Cardinality(Remembered) <= Cardinality(Procs) - 1
  BY <1>1, <1>2, FS_Surjection
<1>. HIDE DEF Remembered
<1>4. /\ IsFiniteSet(More) /\ Cardinality(More) \in Nat /\ Cardinality(Remembered) \in Nat
      /\ Cardinality(More) <= Cardinality(Remembered) + 1
  BY <1>3, AddOne
<1>5. /\ IsFiniteSet(Most) /\ Cardinality(Most) \in Nat
      /\ Cardinality(Most) <= Cardinality(More) + 1
  <2>. HIDE DEF More
  <2>. QED
    BY <1>4, AddOne
<1>6. IsFiniteSet(All) /\ Cardinality(All) <= Cardinality(Procs) + 2
  <2>. HIDE DEF More, Most
  <2>1. /\ IsFiniteSet(All) /\ Cardinality(All) \in Nat
        /\ Cardinality(All) <= Cardinality(Most) + 1
    BY <1>5, AddOne
  <2>. HIDE DEF All
  <2>. QED
    BY <1>1, <1>3, <1>4, <1>5, <2>1
<1>7. UsedTokens(j) \subseteq All
  <2>1. proc[p].job # j
    BY LedgerAssumption DEF ProcShape, Shaped, At
  <2>2. \A q \in Procs : proc[q].job = j => proc[q].token \in Remembered
    BY <2>1 DEF Remembered
  <2>. QED
    BY <2>2 DEF UsedTokens
<1>8. \E t \in Tokens : t \notin All
  <2>1. SUFFICES ASSUME Tokens \subseteq All PROVE FALSE
    OBVIOUS
  <2>2. IsFiniteSet(Tokens) /\ Cardinality(Tokens) <= Cardinality(All)
    BY <1>6, <2>1, FS_Subset
  <2>. QED
    BY <1>1, <1>6, <2>2, FS_CardinalityType, PipelineAssumption
<1>. QED
  BY <1>7, <1>8 DEF Fresh

-----------------------------------------------------------------------------
(* How a process moves.                                                    *)
LEMMA NewShape ==
    ASSUME ProcShape, NEW p \in Procs, NEW r, Shaped(r), proc' = [proc EXCEPT ![p] = r]
    PROVE  ProcShape'
BY DEF ProcShape, Shaped, Records

(* A process that stops forgets its job and its claim.                     *)
LEMMA StopShape ==
    ASSUME ProcShape, NEW p \in Procs, Stop(p)
    PROVE  ProcShape'
<1>1. Shaped(Idle)
  BY LedgerAssumption
  DEF Shaped, Records, Idle, Doing, Points, HandlerPoints, Claiming, Working, Codes
<1>. QED
  BY <1>1, NewShape DEF Stop

(* One that goes on keeps them.                                            *)
LEMMA GotoShape ==
    ASSUME ProcShape, NEW p \in Procs, ~At(p, "idle"),
           NEW point \in Points \ {"idle", "bootstrap", "fanout"},
           point \in Claiming => proc[p].pc \in Claiming,
           Goto(p, point)
    PROVE  ProcShape'
<1> DEFINE r == [proc[p] EXCEPT !.pc = point]
<1>1. Shaped(r)
  BY DEF ProcShape, Shaped, Records, At
<1>2. proc' = [proc EXCEPT ![p] = r]
  BY DEF Goto
<1>. HIDE DEF r
<1>. QED
  BY <1>1, <1>2, NewShape

(* One that dispatches has a job and a generation, and no claim.           *)
LEMMA DispatchingShape ==
    ASSUME ProcShape, NEW p \in Procs, NEW point \in {"create", "rearm"}, NEW j \in Jobs,
           NEW g \in 1..MaxGen, Dispatching(p, point, j, g)
    PROVE  ProcShape'
<1> DEFINE r == Doing(point, j, g, NoToken)
<1>1. point \in Points /\ point \notin Claiming /\ point \notin {"idle", "bootstrap", "fanout"}
  BY DEF Points, HandlerPoints, Claiming, Working
<1>2. Shaped(r)
  BY <1>1, LedgerAssumption DEF Shaped, Records, Codes, Doing
<1>3. proc' = [proc EXCEPT ![p] = r]
  BY DEF Dispatching
<1>. HIDE DEF r
<1>. QED
  BY <1>2, <1>3, NewShape

(* One that claimed has a job, a generation and a token.                   *)
LEMMA ClaimedShape ==
    ASSUME ProcShape, NEW p \in Procs, NEW j \in Jobs, NEW g \in 1..MaxGen, NEW t \in Tokens,
           Claimed(p, j, g, t)
    PROVE  ProcShape'
<1> DEFINE r == Doing("claimed", j, g, t)
<1>1. "claimed" \in Points
  BY DEF Points
<1>2. Shaped(r)
  BY <1>1, LedgerAssumption DEF Shaped, Records, Codes, Doing
<1>3. proc' = [proc EXCEPT ![p] = r]
  BY DEF Claimed
<1>. HIDE DEF r
<1>. QED
  BY <1>2, <1>3, NewShape

(* A plan is made of proposals, whatever was seen of the manifests.        *)
LEMMA PlansAreProposals ==
    ASSUME NEW j, NEW seen
    PROVE  Successors(j, seen) \subseteq Proposals(j)
BY DagAssumption DEF Successors, Proposals

(* Where a claimed job goes on.                                            *)
LEMMA ResumePoints ==
    ASSUME NEW j \in Jobs
    PROVE  /\ ResumePoint(j) \in {"cleanup", "bootstrap", "publish", "fanout", "bind", "save"}
           /\ ResumePoint(j) \in Points /\ ResumePoint(j) \in Claiming
           /\ ResumePoint(j) # "cleanup" => ~OwnIntent(j)
           /\ ResumePoint(j) = "bootstrap" => j = Bootstrap
           /\ ResumePoint(j) = "fanout" => j \in manifests
           /\ ResumePoint(j) = "save" => j \notin PaidJobs
<1>1. j \in PaidJobs => j \notin {Bootstrap, Finalizer}
  BY LedgerAssumption
<1>2. CASE OwnIntent(j)
  BY <1>2 DEF ResumePoint, Points, HandlerPoints, Claiming
<1>3. CASE ~OwnIntent(j) /\ j = Bootstrap
  <2>1. ResumePoint(j) = "bootstrap"
    BY <1>3, <1>1, DagAssumption DEF ResumePoint, EntryPoint
  <2>. QED
    BY <2>1, <1>3, <1>1 DEF Points, HandlerPoints, Claiming, Working
<1>4. CASE ~OwnIntent(j) /\ j = Finalizer
  <2>1. ResumePoint(j) = "publish"
    BY <1>4, <1>1, DagAssumption DEF ResumePoint, EntryPoint
  <2>. QED
    BY <2>1, <1>4, <1>1 DEF Points, HandlerPoints, Claiming, Working
<1>5. CASE ~OwnIntent(j) /\ j \notin {Bootstrap, Finalizer} /\ j \in manifests
  <2>1. ResumePoint(j) = "fanout"
    BY <1>5, <1>1 DEF ResumePoint, EntryPoint
  <2>. QED
    BY <2>1, <1>5, <1>1 DEF Points, HandlerPoints, Claiming, Working
<1>6. CASE ~OwnIntent(j) /\ j \notin {Bootstrap, Finalizer} /\ j \notin manifests /\ j \in PaidJobs
  <2>1. ResumePoint(j) = "bind"
    BY <1>6, <1>1 DEF ResumePoint, EntryPoint
  <2>. QED
    BY <2>1, <1>6, <1>1 DEF Points, HandlerPoints, Claiming, Working
<1>7. CASE ~OwnIntent(j) /\ j \notin {Bootstrap, Finalizer} /\ j \notin manifests /\ j \notin PaidJobs
  <2>1. ResumePoint(j) = "save"
    BY <1>7, <1>1 DEF ResumePoint, EntryPoint
  <2>. QED
    BY <2>1, <1>7, <1>1 DEF Points, HandlerPoints, Claiming, Working
<1>. QED
  BY <1>2, <1>3, <1>4, <1>5, <1>6, <1>7

(* Every step of a process leaves it in shape.                             *)
LEMMA ShapeStep ==
    ASSUME TypeOK, RowChecks, ProcShape, WorldTypes, PipelineNext
    PROVE  ProcShape'
<1>1. ASSUME NEW p \in Procs, NEW name \in tasks, DeliverClaim(p, name[1], name[2])
      PROVE  ProcShape'
  <2>1. name[1] \in Jobs /\ name[2] \in 1..MaxGen
    BY DEF WorldTypes
  <2>2. Fresh(name[1]) \in Tokens
    BY <2>1, <1>1, FreshToken DEF DeliverClaim
  <2>. QED
    BY <2>1, <2>2, <1>1, ClaimedShape DEF DeliverClaim
<1>2. ASSUME NEW p \in Procs, NEW name \in tasks, DeliverTakeover(p, name[1], name[2])
      PROVE  ProcShape'
  <2>1. name[1] \in Jobs /\ name[2] \in 1..MaxGen
    BY DEF WorldTypes
  <2>2. Fresh(name[1]) \in Tokens
    BY <2>1, <1>2, FreshToken DEF DeliverTakeover
  <2>. QED
    BY <2>1, <2>2, <1>2, ClaimedShape DEF DeliverTakeover
<1>3. ASSUME NEW p \in Procs, Resume(p)
      PROVE  ProcShape'
  <2> DEFINE j == proc[p].job
             r == proc'[p]
  <2>1. j \in Jobs /\ Shaped(proc[p]) /\ proc[p].pc = "claimed"
    BY <1>3 DEF Resume, At, ProcShape, Shaped
  <2>2. proc' = [proc EXCEPT ![p] = r]
    BY <1>3 DEF Resume, ProcShape
  <2>3. /\ r.pc = ResumePoint(j) /\ r.job = j /\ r.gen = proc[p].gen /\ r.token = proc[p].token
        /\ r.code \in Codes /\ r \in Records
        /\ r.plan = IF ResumePoint(j) = "fanout" THEN Successors(j, manifests) ELSE proc[p].plan
    <3>1. OwnIntent(j) => intent.code \in Codes
      BY DEF TypeOK, Intents, OwnIntent, NoIntent
    <3>2. Successors(j, manifests) \subseteq Jobs
      BY DEF Successors
    <3>3. ResumePoint(j) \in Points
      BY <2>1, ResumePoints
    <3>. QED
      BY <1>3, <2>1, <3>1, <3>2, <3>3 DEF Resume, ProcShape, Shaped, Records
  <2>4. Shaped(r)
    BY <2>1, <2>3, ResumePoints, PlansAreProposals
    DEF Shaped, Claiming
  <2>. HIDE DEF r
  <2>. QED
    BY <2>2, <2>4, NewShape
<1>4. ASSUME NEW p \in Procs, ~At(p, "idle"),
             NEW point \in {"ack", "rearm", "mark"}, Goto(p, point)
      PROVE  ProcShape'
  BY <1>4, GotoShape DEF Points, HandlerPoints, Claiming, Working
<1>5. ASSUME NEW p \in Procs, proc[p].pc \in Claiming,
             NEW point \in {"post", "poll", "save", "reload", "attach", "cleanup", "settle"},
             Goto(p, point)
      PROVE  ProcShape'
  <2>1. ~At(p, "idle") /\ point \in Points \ {"idle", "bootstrap", "fanout"}
    BY <1>5 DEF At, Points, HandlerPoints, Claiming, Working
  <2>. QED
    BY <2>1, <1>5, GotoShape
<1>6. ASSUME NEW p \in Procs, Bind(p) \/ PostAccepted(p) \/ PostUnanswered(p) \/ PostRejected(p)
             \/ Attach(p) \/ AttachFenced(p) \/ AttachFails(p) \/ Poll(p) \/ Save(p)
             \/ PermanentError(p) \/ Cleanup(p)
      PROVE  ProcShape'
  <2>1. proc[p].pc \in Claiming
    BY <1>6
    DEF Bind, PostAccepted, PostUnanswered, PostRejected, Attach, AttachFenced, AttachFails,
        AbandonRun, Poll, Save, PermanentError, Cleanup, At, Claiming, Working, HandlerPoints
  <2>2. AfterBind(proc[p].job) \in {"post", "poll", "save", "cleanup"}
    BY DEF AfterBind
  <2>3. \E point \in {"post", "poll", "save", "reload", "attach", "cleanup", "settle"} : Goto(p, point)
    BY <1>6, <2>2
    DEF Bind, PostAccepted, PostUnanswered, PostRejected, Attach, AttachFenced, AttachFails,
        AbandonRun, Poll, Save, PermanentError, Cleanup
  <2>. QED
    BY <2>1, <2>3, <1>5
<1>7. ASSUME NEW p \in Procs, Publish(p) \/ Continuation(p) \/ FinishFailure(p) \/ Create(p)
      PROVE  ProcShape'
  <2>1. ~At(p, "idle")
    BY <1>7 DEF Publish, Continuation, FinishFailure, Create, At
  <2>2. \E point \in {"ack", "rearm", "mark"} : Goto(p, point)
    BY <1>7 DEF Publish, Continuation, FinishFailure, Create
  <2>. QED
    BY <2>1, <2>2, <1>4
<1>8. ASSUME NEW p \in Procs, Stop(p)
      PROVE  ProcShape'
  BY <1>8, StopShape
<1>9. ASSUME NEW p \in Procs, CapacityWait(p)
      PROVE  ProcShape'
  BY <1>9, <1>4, <1>8 DEF CapacityWait, At
<1>10. ASSUME NEW p \in Procs, proc[p].pc \in HandlerPoints, Retry(p)
      PROVE  ProcShape'
  <2>1. CASE Stop(p)
    BY <2>1, <1>8
  <2>2. CASE proc' = [proc EXCEPT ![p].pc = "cleanup", ![p].code = "exhausted"]
    <3> DEFINE r == proc'[p]
    <3>1. proc' = [proc EXCEPT ![p] = r] /\ r \in Records
      BY <2>2 DEF ProcShape, Records, Points, Codes
    <3>2. r.pc = "cleanup" /\ r.job = proc[p].job /\ r.gen = proc[p].gen /\ r.token = proc[p].token
      BY <2>2 DEF ProcShape, Records
    <3>3. Shaped(r)
      BY <1>10, <3>1, <3>2 DEF ProcShape, Shaped, HandlerPoints, Claiming, Working
    <3>. HIDE DEF r
    <3>. QED
      BY <3>1, <3>3, NewShape
  <2>. QED
    BY <2>1, <2>2, <1>10 DEF Retry
<1>11. ASSUME NEW p \in Procs, Refused(p) \/ TransientError(p)
      PROVE  ProcShape'
  BY <1>11, <1>10 DEF Refused, TransientError, HandlerPoints
<1>12. ASSUME NEW p \in Procs, RunBootstrap(p) \/ Reload(p)
      PROVE  ProcShape'
  <2> DEFINE r == proc'[p]
  <2>1. proc[p].pc \in {"bootstrap", "reload"} /\ Shaped(proc[p])
    BY <1>12 DEF RunBootstrap, Reload, At, ProcShape
  <2>2. /\ r.plan = Successors(proc[p].job, manifests')
        /\ proc' = [proc EXCEPT ![p] = r]
        /\ r.pc = "fanout" /\ r.job = proc[p].job /\ r.gen = proc[p].gen
        /\ r.token = proc[p].token /\ r \in Records
    <3>1. /\ Successors(proc[p].job, manifests') \subseteq Jobs
          /\ Successors(proc[p].job, manifests) \subseteq Jobs
      BY DEF Successors
    <3>2. CASE Reload(p)
      BY <3>1, <3>2 DEF Reload, ProcShape, Records, Points, ledgerVars
    <3>3. CASE RunBootstrap(p)
      <4>1. proc[p].job = Bootstrap
        BY <3>3, <2>1 DEF RunBootstrap, At, Shaped
      <4>. QED
        BY <3>1, <3>3, <4>1 DEF RunBootstrap, ProcShape, Records, Points
    <3>. QED
      BY <3>2, <3>3, <1>12
  <2>3. Shaped(r)
    BY <2>1, <2>2, PlansAreProposals DEF Shaped, Claiming, Working, HandlerPoints
  <2>. HIDE DEF r
  <2>. QED
    BY <2>2, <2>3, NewShape
<1>13. ASSUME NEW p \in Procs, Fanout(p)
      PROVE  ProcShape'
  <2> DEFINE r == proc'[p]
  <2>1. proc' = [proc EXCEPT ![p] = r] /\ r \in Records
    BY <1>13 DEF Fanout, ProcShape, Records, Points
  <2>2. Shaped(proc[p]) /\ r.pc = "ack" /\ r.job = proc[p].job /\ r.gen = proc[p].gen
    BY <1>13 DEF Fanout, ProcShape, Records
  <2>3. Shaped(r)
    BY <1>13, <2>1, <2>2 DEF Fanout, At, Shaped, Claiming, Working, HandlerPoints
  <2>. HIDE DEF r
  <2>. QED
    BY <2>1, <2>3, NewShape
<1>14. ASSUME NEW p \in Procs,
              \/ Ack(p) \/ LostClaim(p) \/ CleanupBlocked(p) \/ CleanupFenced(p) \/ Mark(p)
              \/ Crash(p)
       PROVE  ProcShape'
  BY <1>14, <1>8 DEF Ack, LostClaim, CleanupBlocked, CleanupFenced, Mark, Crash
<1>15. ASSUME NEW p \in Procs, NEW j \in Jobs,
              DispatchNew(p, j) \/ DispatchReserved(p, j) \/ SweepLookup(p, j)
       PROVE  ProcShape'
  <2>1. 1 \in 1..MaxGen
    BY LedgerAssumption
  <2>2. gen[j] # 0 => gen[j] \in 1..MaxGen
    BY DEF TypeOK
  <2>3. DispatchReserved(p, j) \/ SweepLookup(p, j) => gen[j] # 0
    BY DEF DispatchReserved, SweepLookup, Claimable, RowChecks, TypeOK
  <2>. QED
    BY <1>15, <2>1, <2>2, <2>3, DispatchingShape DEF DispatchNew, DispatchReserved, SweepLookup
<1>16. ASSUME NEW p \in Procs, RearmLost(p)
       PROVE  ProcShape'
  <2>1. proc[p].job \in Jobs /\ proc[p].gen \in 1..MaxGen
    BY <1>16 DEF RearmLost, At, ProcShape, Shaped
  <2>2. Rearm(proc[p].job, proc[p].gen) => proc[p].gen + 1 \in 1..MaxGen
    BY <2>1, LedgerAssumption DEF Rearm, Claimable, NextGeneration
  <2>. QED
    BY <1>16, <1>8, <2>1, <2>2, DispatchingShape DEF RearmLost
<1>17. ASSUME UNCHANGED proc
       PROVE  ProcShape'
  BY <1>17 DEF ProcShape
<1>18. ASSUME NEW p \in Procs, Delivery(p) \/ Handler(p) \/ Dispatcher(p) \/ Faults(p)
       PROVE  ProcShape'
  <2>1. CASE Delivery(p)
    BY <2>1, <1>1, <1>2 DEF Delivery
  <2>2. CASE Handler(p)
    BY <2>2, <1>3, <1>6, <1>7, <1>11, <1>12, <1>13, <1>14, <1>17 DEF Handler, SettleRuns
  <2>3. CASE Dispatcher(p)
    BY <2>3, <1>7, <1>14, <1>15, <1>16 DEF Dispatcher
  <2>4. CASE Faults(p)
    BY <2>4, <1>6, <1>7, <1>9, <1>11, <1>14 DEF Faults
  <2>. QED
    BY <1>18, <2>1, <2>2, <2>3, <2>4
<1>. QED
  BY <1>17, <1>18
  DEF PipelineNext, DeliverStale, DropTask, SweepSettle, ActorEnds, Expire, OperatorResolves

(* The queue and the Actors keep their types.                              *)
LEMMA WorldStep ==
    ASSUME ProcShape, WorldTypes, PipelineNext
    PROVE  WorldTypes'
<1>. USE DEF WorldTypes
<1>1. ASSUME NEW p \in Procs, Create(p)
      PROVE  WorldTypes'
  <2> DEFINE name == <<proc[p].job, proc[p].gen>>
  <2>1. name \in Jobs \X (1..MaxGen)
    BY <1>1 DEF Create, At, ProcShape, Shaped
  <2>2. tasks' \subseteq tasks \cup {name} /\ named' = named \cup {name}
    BY <1>1 DEF Create
  <2>. HIDE DEF name
  <2>. QED
    BY <1>1, <2>1, <2>2 DEF Create
<1>2. ASSUME NEW p \in Procs, PostAccepted(p) \/ PostUnanswered(p)
      PROVE  WorldTypes'
  <2>1. proc[p].job \in Jobs
    BY <1>2 DEF PostAccepted, PostUnanswered, At, ProcShape, Shaped
  <2>2. /\ UNCHANGED <<tasks, named>>
        /\ started' \in {started, [started EXCEPT ![proc[p].job] = @ + 1]}
        /\ alive' \in {alive, [alive EXCEPT ![proc[p].job] = TRUE]}
    BY <1>2 DEF PostAccepted, PostUnanswered
  <2>3. started' \in [Jobs -> Nat]
    BY <2>1, <2>2
  <2>4. alive' \in [Jobs -> BOOLEAN]
    <3>1. CASE alive' = alive
      BY <3>1
    <3>2. CASE alive' = [alive EXCEPT ![proc[p].job] = TRUE]
      BY <2>1, <3>2
    <3>. QED
      BY <2>2, <3>1, <3>2
  <2>. QED
    BY <2>2, <2>3, <2>4
<1>3. ASSUME tasks' \subseteq tasks, UNCHANGED <<named, started>>,
             alive' \in {alive} \cup {[alive EXCEPT ![j] = FALSE] : j \in Jobs}
      PROVE  WorldTypes'
  BY <1>3
<1>4. ASSUME NEW p \in Procs, AttachFenced(p) \/ AttachFails(p)
      PROVE  WorldTypes'
  <2>1. proc[p].job \in Jobs
    BY <1>4 DEF AttachFenced, AttachFails, AbandonRun, At, ProcShape, Shaped
  <2>. QED
    BY <1>3, <1>4, <2>1 DEF AttachFenced, AttachFails, AbandonRun
<1>5. ASSUME NEW p \in Procs, Delivery(p)
      PROVE  WorldTypes'
  BY <1>3, <1>5 DEF Delivery, DeliverClaim, DeliverTakeover
<1>6. ASSUME NEW p \in Procs, Handler(p)
      PROVE  WorldTypes'
  BY <1>2, <1>3, <1>4, <1>6
  DEF Handler, Resume, RunBootstrap, Bind, Attach, Poll, Save, Reload, Fanout, Publish, Ack,
      Refused, LostClaim, Cleanup, SettleRuns, AbortRun, FinishFailure, CleanupBlocked,
      CleanupFenced
<1>7. ASSUME NEW p \in Procs, Dispatcher(p)
      PROVE  WorldTypes'
  BY <1>1, <1>3, <1>7
  DEF Dispatcher, DispatchNew, DispatchReserved, SweepLookup, Mark, RearmLost
<1>8. ASSUME NEW p \in Procs, Faults(p)
      PROVE  WorldTypes'
  BY <1>2, <1>3, <1>4, <1>8
  DEF Faults, PostRejected, TransientError, PermanentError, CapacityWait, Continuation, Crash
<1>9. ASSUME NEW name \in tasks, DeliverStale(name[1], name[2]) \/ DropTask(name)
      PROVE  WorldTypes'
  BY <1>3, <1>9 DEF DeliverStale, DropTask
<1>10. ASSUME NEW j \in Jobs, SweepSettle(j) \/ ActorEnds(j) \/ Expire(j) \/ OperatorResolves(j)
       PROVE  WorldTypes'
  BY <1>3, <1>10 DEF SweepSettle, AbortRun, ActorEnds, Expire, OperatorResolves
<1>. QED
  BY <1>5, <1>6, <1>7, <1>8, <1>9, <1>10 DEF PipelineNext

-----------------------------------------------------------------------------
(* The processes only call the functions of the ledger.                    *)
LEMMA LedgerStep ==
    ASSUME TypeOK, ProcShape, WorldTypes, [PipelineNext]_pipelineVars
    PROVE  [Next]_ledgerVars
<1>1. ASSUME UNCHANGED ledgerVars PROVE [Next]_ledgerVars
  BY <1>1
<1>2. ASSUME NEW j \in Jobs, DispatchStep(j) \/ ClaimStep(j) \/ SettleStep(j) \/ RunStep(j)
      PROVE  [Next]_ledgerVars
  BY <1>2 DEF Next
<1>3. ASSUME NEW p \in Procs, Delivery(p)
      PROVE  [Next]_ledgerVars
  <2>1. PICK name \in tasks : DeliverClaim(p, name[1], name[2]) \/ DeliverTakeover(p, name[1], name[2])
    BY <1>3 DEF Delivery
  <2>2. name[1] \in Jobs /\ name[2] \in 1..MaxGen
    BY DEF WorldTypes
  <2>3. Fresh(name[1]) \in Tokens
    BY <2>1, <2>2, FreshToken DEF DeliverClaim, DeliverTakeover
  <2>4. ClaimStep(name[1])
    BY <2>1, <2>2, <2>3 DEF DeliverClaim, DeliverTakeover, ClaimStep
  <2>. QED
    BY <2>2, <2>4, <1>2
<1>4. ASSUME NEW p \in Procs, proc[p].pc \in Claiming
      PROVE  proc[p].job \in Jobs /\ proc[p].token \in Tokens /\ proc[p].code \in Codes
  BY <1>4 DEF ProcShape, Shaped, Records, Claiming, Working, HandlerPoints
<1>5. ASSUME NEW p \in Procs, Handler(p)
      PROVE  [Next]_ledgerVars
  <2>1. CASE Resume(p) \/ PostAccepted(p) \/ AttachFenced(p) \/ Reload(p) \/ Ack(p)
             \/ LostClaim(p) \/ CleanupFenced(p)
    BY <1>1, <2>1
    DEF Resume, PostAccepted, AttachFenced, AbandonRun, Reload, Ack, LostClaim, CleanupFenced
  <2>2. CASE RunBootstrap(p) \/ Save(p) \/ Cleanup(p) \/ FinishFailure(p)
    <3>1. proc[p].pc \in Claiming
      BY <2>2
      DEF RunBootstrap, Save, Cleanup, FinishFailure, At, Claiming, Working, HandlerPoints
    <3>2. SettleStep(proc[p].job) \/ SettleStep(Bootstrap)
      BY <2>2, <3>1, <1>4, DagAssumption
      DEF RunBootstrap, Save, Cleanup, FinishFailure, SettleStep
    <3>. QED
      BY <3>1, <3>2, <1>2, <1>4, DagAssumption
  <2>3. CASE Fanout(p)
    <3>1. /\ proc[p].job \in Jobs /\ proc[p].token \in Tokens
          /\ proc[p].plan \in SUBSET Proposals(proc[p].job)
      BY <2>3, <1>4 DEF Fanout, At, ProcShape, Shaped, Claiming, Working
    <3>. QED
      BY <2>3, <3>1, <1>2 DEF Fanout, SettleStep
  <2>4. CASE Publish(p)
    <3>1. proc[p].token \in Tokens
      BY <2>4, <1>4 DEF Publish, At, Claiming, Working, HandlerPoints
    <3>. QED
      BY <2>4, <3>1 DEF Publish, Next
  <2>5. CASE Bind(p) \/ Attach(p) \/ Poll(p)
    <3>1. proc[p].pc \in Claiming
      BY <2>5 DEF Bind, Attach, Poll, At, Claiming, Working, HandlerPoints
    <3>. QED
      BY <2>5, <3>1, <1>1, <1>2, <1>4 DEF Bind, Attach, Poll, RunStep
  <2>6. CASE Refused(p) \/ CleanupBlocked(p)
    <3>1. proc[p].pc \in Claiming
      BY <2>6 DEF Refused, CleanupBlocked, At, Claiming, Working, HandlerPoints
    <3>. QED
      BY <2>6, <3>1, <1>1, <1>2, <1>4 DEF Refused, Retry, CleanupBlocked, ClaimStep
  <2>7. ASSUME NEW k \in Jobs, SettleRuns(p, k) PROVE [Next]_ledgerVars
    BY <2>7, <1>2 DEF SettleRuns, AbortRun, RunStep
  <2>. QED
    BY <1>5, <2>1, <2>2, <2>3, <2>4, <2>5, <2>6, <2>7 DEF Handler
<1>6. ASSUME NEW p \in Procs, Dispatcher(p)
      PROVE  [Next]_ledgerVars
  <2>1. ASSUME NEW j \in Jobs, DispatchNew(p, j) \/ DispatchReserved(p, j) \/ SweepLookup(p, j)
        PROVE  [Next]_ledgerVars
    BY <2>1, <1>1, <1>2 DEF DispatchNew, DispatchReserved, SweepLookup, DispatchStep
  <2>2. CASE Create(p)
    BY <2>2, <1>1 DEF Create
  <2>3. CASE Mark(p) \/ RearmLost(p)
    <3>1. proc[p].job \in Jobs /\ proc[p].gen \in 1..MaxGen
      BY <2>3 DEF Mark, RearmLost, At, ProcShape, Shaped
    <3>. QED
      BY <2>3, <3>1, <1>1, <1>2 DEF Mark, RearmLost, DispatchStep
  <2>. QED
    BY <1>6, <2>1, <2>2, <2>3 DEF Dispatcher
<1>7. ASSUME NEW p \in Procs, Faults(p)
      PROVE  [Next]_ledgerVars
  <2>1. CASE PostUnanswered(p) \/ AttachFails(p) \/ PermanentError(p) \/ Crash(p)
    BY <1>1, <2>1 DEF PostUnanswered, AttachFails, AbandonRun, PermanentError, Crash
  <2>2. CASE PostRejected(p) \/ TransientError(p) \/ CapacityWait(p) \/ Continuation(p)
    <3>1. proc[p].pc \in Claiming
      BY <2>2
      DEF PostRejected, TransientError, CapacityWait, Continuation, At, Claiming, Working,
          HandlerPoints
    <3>. QED
      BY <2>2, <3>1, <1>1, <1>2, <1>4
      DEF PostRejected, TransientError, Retry, CapacityWait, Continuation, RunStep, ClaimStep
  <2>. QED
    BY <1>7, <2>1, <2>2 DEF Faults
<1>8. ASSUME NEW name \in tasks, DeliverStale(name[1], name[2]) \/ DropTask(name)
      PROVE  [Next]_ledgerVars
  BY <1>1, <1>8 DEF DeliverStale, DropTask
<1>9. ASSUME NEW j \in Jobs, SweepSettle(j) \/ ActorEnds(j) \/ Expire(j) \/ OperatorResolves(j)
      PROVE  [Next]_ledgerVars
  BY <1>1, <1>2, <1>9
  DEF SweepSettle, AbortRun, ActorEnds, Expire, OperatorResolves, RunStep, ClaimStep
<1>. QED
  BY <1>1, <1>3, <1>5, <1>6, <1>7, <1>8, <1>9 DEF PipelineNext, pipelineVars

-----------------------------------------------------------------------------
(* Starts.  Most steps leave the runs and the Actors alone, and nobody     *)
(* comes to the point of starting or attaching one.                        *)
LEMMA StartsKept ==
    ASSUME StartsInv, UNCHANGED <<runStatus, resolved, started, alive>>,
           \A q \in Procs : proc'[q].pc \in {"post", "attach"}
               => proc'[q].pc = proc[q].pc /\ proc'[q].job = proc[q].job
    PROVE  StartsInv'
BY DEF StartsInv, AtMostOnePaidStart, At, Unsettled

(* No step of the processes starts an Actor twice or lets one escape.      *)
LEMMA StartsStep ==
    ASSUME TypeOK, ProcShape, WorldTypes, StartsInv, PipelineNext
    PROVE  StartsInv'
<1>1. ASSUME NEW p \in Procs, UNCHANGED <<runStatus, resolved, started, alive>>,
             NEW r, r.pc \notin {"post", "attach"}, proc' = [proc EXCEPT ![p] = r]
      PROVE  StartsInv'
  BY <1>1, StartsKept DEF ProcShape
<1>2. ASSUME NEW p \in Procs, UNCHANGED <<runStatus, resolved, started, alive>>, Stop(p)
      PROVE  StartsInv'
  BY <1>1, <1>2 DEF Stop, Idle, Doing
<1>3. ASSUME NEW p \in Procs, UNCHANGED <<runStatus, resolved, started, alive>>,
             NEW point, point \notin {"post", "attach"}, Goto(p, point)
      PROVE  StartsInv'
  BY <1>3, StartsKept DEF Goto, ProcShape, Records
<1>4. ASSUME NEW p \in Procs, Bind(p)
      PROVE  StartsInv'
  <2> DEFINE j == proc[p].job
  <2>1. /\ j \in Jobs /\ runStatus \in [Jobs -> RunStatuses]
        /\ runStatus' = [runStatus EXCEPT ![j] = IF @ = "none" THEN "starting" ELSE @]
        /\ UNCHANGED <<resolved, started, alive>>
        /\ At(p, "bind")
    BY <1>4 DEF Bind, ReserveRun, At, ProcShape, Shaped, TypeOK
  <2>2. /\ \A q \in Procs : q # p => proc'[q] = proc[q]
        /\ proc'[p].job = j /\ proc'[p].pc = AfterBind(j)
    BY <1>4 DEF Bind, Goto, ProcShape, Records
  <2>3. AfterBind(j) # "attach" /\ (AfterBind(j) = "post" <=> runStatus[j] = "none")
    BY DEF AfterBind
  <2>4. \A k \in Jobs : Unsettled(k) => Unsettled(k)'
    BY <2>1 DEF Unsettled
  <2>5. \A q \in Procs : q # p /\ At(q, "post") => ~(runStatus[j] = "none" /\ proc[q].job = j)
    BY DEF StartsInv
  <2>6. \A q \in Procs : q # p /\ At(q, "post") => proc[q].job \in Jobs
    BY DEF At, ProcShape, Shaped
  <2>. HIDE DEF j
  <2>. QED
    BY <2>1, <2>2, <2>3, <2>4, <2>5, <2>6 DEF StartsInv, AtMostOnePaidStart, At
<1>5. ASSUME NEW p \in Procs, PostAccepted(p) \/ PostUnanswered(p)
      PROVE  StartsInv'
  <2> DEFINE j == proc[p].job
  <2>1. /\ j \in Jobs /\ At(p, "post") /\ UNCHANGED runVars
        /\ \/ started' = [started EXCEPT ![j] = @ + 1] /\ alive' = [alive EXCEPT ![j] = TRUE]
           \/ UNCHANGED <<started, alive>> /\ proc'[p].pc # "attach"
    BY <1>5
    DEF PostAccepted, PostUnanswered, Goto, At, ProcShape, Shaped, Records, ledgerVars
  <2>2. /\ \A q \in Procs : q # p => proc'[q] = proc[q]
        /\ proc'[p].job = j /\ proc'[p].pc \in {"attach", "cleanup"}
    BY <1>5 DEF PostAccepted, PostUnanswered, Goto, ProcShape, Records
  <2>3. /\ started \in [Jobs -> Nat] /\ alive \in [Jobs -> BOOLEAN]
        /\ started[j] = 0 /\ Unsettled(j)
        /\ \A q \in Procs : q # p /\ At(q, "post") => proc[q].job # j
    BY <2>1 DEF StartsInv, WorldTypes, Unsettled
  <2>4. \A k \in Jobs : Unsettled(k)' = Unsettled(k)
    BY <2>1 DEF Unsettled, runVars
  <2>5. \A q \in Procs : At(q, "attach") => started[proc[q].job] = 1 /\ proc[q].job \in Jobs
    BY DEF StartsInv, ProcShape, Shaped, At
  <2>6. CASE UNCHANGED <<started, alive>> /\ proc'[p].pc # "attach"
    BY <2>1, <2>2, <2>6, StartsKept DEF runVars
  <2>7. CASE started' = [started EXCEPT ![j] = @ + 1] /\ alive' = [alive EXCEPT ![j] = TRUE]
    <3>. HIDE DEF j
    <3>1. \A k \in Jobs : started'[k] = IF k = j THEN 1 ELSE started[k]
      BY <2>1, <2>3, <2>7
    <3>2. \A k \in Jobs : alive'[k] => k = j \/ alive[k]
      BY <2>1, <2>3, <2>7
    <3>3. /\ AtMostOnePaidStart'
          /\ \A k \in Jobs :
                /\ runStatus'[k] = "none" => started'[k] = 0 /\ k \notin resolved'
                /\ alive'[k] => started'[k] = 1 /\ Unsettled(k)'
      BY <2>1, <2>3, <2>4, <3>1, <3>2 DEF StartsInv, AtMostOnePaidStart, Unsettled, runVars
    <3>4. \A q \in Procs : At(q, "post")' =>
             /\ q # p /\ At(q, "post") /\ proc'[q] = proc[q]
             /\ proc[q].job \in Jobs /\ proc[q].job # j
      BY <2>2, <2>3 DEF At, ProcShape, Shaped
    <3>5. \A q \in Procs : At(q, "attach")' => started'[proc'[q].job] = 1
      BY <2>1, <2>2, <2>5, <3>1 DEF At
    <3>6. \A q \in Procs : At(q, "post")' =>
             /\ started'[proc'[q].job] = 0
             /\ runStatus'[proc'[q].job] = "starting" /\ proc'[q].job \notin resolved'
      BY <2>1, <3>1, <3>4 DEF StartsInv, runVars
    <3>7. \A q, s \in Procs :
             At(q, "post")' /\ At(s, "post")' /\ proc'[q].job = proc'[s].job => q = s
      BY <3>4 DEF StartsInv
    <3>. QED
      BY <3>3, <3>5, <3>6, <3>7 DEF StartsInv
  <2>. QED
    BY <2>1, <2>6, <2>7
<1>6. ASSUME NEW p \in Procs, PostRejected(p)
      PROVE  StartsInv'
  <2> DEFINE j == proc[p].job
  <2>1. /\ j \in Jobs /\ At(p, "post") /\ runStatus \in [Jobs -> RunStatuses]
        /\ runStatus' = [runStatus EXCEPT ![j] = "rejected"]
        /\ UNCHANGED <<resolved, started, alive>>
    BY <1>6 DEF PostRejected, RejectRun, At, ProcShape, Shaped, TypeOK
  <2>2. /\ \A q \in Procs : q # p => proc'[q] = proc[q]
        /\ proc'[p].pc = "cleanup"
    BY <1>6 DEF PostRejected, Goto, ProcShape, Records
  <2>3. \A k \in Jobs : k # j => Unsettled(k)' = Unsettled(k)
    BY <2>1 DEF Unsettled
  <2>4. \A q \in Procs : q # p /\ At(q, "post") => proc[q].job # j /\ proc[q].job \in Jobs
    BY <2>1 DEF StartsInv, ProcShape, Shaped, At
  <2>5. started[j] = 0
    BY <2>1 DEF StartsInv
  <2>. HIDE DEF j
  <2>. QED
    BY <2>1, <2>2, <2>3, <2>4, <2>5 DEF StartsInv, AtMostOnePaidStart, At
<1>7. ASSUME NEW k \in Jobs, runStatus' = [runStatus EXCEPT ![k] = "running"],
             runStatus[k] = "starting", started[k] = 1, UNCHANGED <<resolved, started, alive>>,
             NEW p \in Procs, Goto(p, "poll")
      PROVE  StartsInv'
  <2>1. \A j \in Jobs : Unsettled(j) => Unsettled(j)'
    BY <1>7 DEF Unsettled, TypeOK
  <2>2. \A q \in Procs : proc'[q].pc \in {"post", "attach"} => proc'[q] = proc[q]
    BY <1>7 DEF Goto, ProcShape, Records
  <2>3. \A q \in Procs : proc[q].pc \in {"post", "attach"} => proc[q].job \in Jobs
    BY DEF ProcShape, Shaped
  <2>. QED
    BY <1>7, <2>1, <2>2, <2>3 DEF StartsInv, AtMostOnePaidStart, At, TypeOK
<1>8. ASSUME NEW p \in Procs, Attach(p)
      PROVE  StartsInv'
  <2>1. proc[p].job \in Jobs /\ started[proc[p].job] = 1
    BY <1>8 DEF Attach, At, ProcShape, Shaped, StartsInv
  <2>. QED
    BY <2>1, <1>7, <1>8 DEF Attach, StartRun
<1>9. ASSUME NEW k \in Jobs, runStatus' = [runStatus EXCEPT ![k] = "terminal"],
             runStatus[k] = "running", UNCHANGED <<resolved, started>>, ~alive'[k],
             \A j \in Jobs : alive'[j] => alive[j],
             \A q \in Procs : proc'[q].pc \in {"post", "attach"} => proc'[q] = proc[q]
      PROVE  StartsInv'
  <2>1. \A j \in Jobs : j # k => Unsettled(j) = Unsettled(j)'
    BY <1>9 DEF Unsettled, TypeOK
  <2>2. \A q \in Procs : proc[q].pc \in {"post", "attach"} => proc[q].job \in Jobs
    BY DEF ProcShape, Shaped
  <2>. QED
    BY <1>9, <2>1, <2>2 DEF StartsInv, AtMostOnePaidStart, At, TypeOK
<1>10. ASSUME NEW p \in Procs, Poll(p)
       PROVE  StartsInv'
  <2>1. proc[p].job \in Jobs /\ ~alive[proc[p].job] /\ UNCHANGED <<started, alive, resolved>>
    BY <1>10 DEF Poll, At, ProcShape, Shaped, FinishRun, ledgerVars, runVars
  <2>2. CASE FinishRun(proc[p].job, proc[p].token) /\ Goto(p, "save")
    <3>1. \A q \in Procs : proc'[q].pc \in {"post", "attach"} => proc'[q] = proc[q]
      BY <2>2 DEF Goto, ProcShape, Records
    <3>. QED
      BY <2>1, <2>2, <3>1, <1>9 DEF FinishRun
  <2>3. CASE (Goto(p, "save") \/ Goto(p, "cleanup")) /\ UNCHANGED ledgerVars
    BY <2>1, <2>3, <1>3 DEF ledgerVars, runVars
  <2>. QED
    BY <1>10, <2>2, <2>3 DEF Poll
<1>11. ASSUME NEW k \in Jobs, AbortRun(k), UNCHANGED <<proc, started>>
       PROVE  StartsInv'
  <2>1. /\ runStatus' = [runStatus EXCEPT ![k] = "terminal"] /\ runStatus[k] = "running"
        /\ UNCHANGED resolved /\ alive' = [alive EXCEPT ![k] = FALSE]
    BY <1>11 DEF AbortRun, SettleRun
  <2>. QED
    BY <1>11, <2>1, <1>9 DEF WorldTypes
<1>12. ASSUME \A j \in Jobs : alive'[j] => alive[j], UNCHANGED <<runStatus, resolved, started>>,
              \A q \in Procs : proc'[q].pc \in {"post", "attach"} => proc'[q] = proc[q]
       PROVE  StartsInv'
  <2>1. \A j \in Jobs : Unsettled(j) = Unsettled(j)'
    BY <1>12 DEF Unsettled
  <2>. QED
    BY <1>12, <2>1 DEF StartsInv, AtMostOnePaidStart, At
<1>13. ASSUME NEW p \in Procs, AttachFenced(p) \/ AttachFails(p)
       PROVE  StartsInv'
  <2>1. proc[p].job \in Jobs
    BY <1>13 DEF AttachFenced, AttachFails, AbandonRun, At, ProcShape, Shaped
  <2>2. \A q \in Procs : proc'[q].pc \in {"post", "attach"} => proc'[q] = proc[q]
    BY <1>13 DEF AttachFenced, AttachFails, AbandonRun, Goto, ProcShape, Records
  <2>3. /\ UNCHANGED <<runStatus, resolved, started>>
        /\ alive' \in {alive, [alive EXCEPT ![proc[p].job] = FALSE]}
    BY <1>13 DEF AttachFenced, AttachFails, AbandonRun, ledgerVars, runVars
  <2>. QED
    BY <2>1, <2>2, <2>3, <1>12 DEF WorldTypes
<1>14. ASSUME NEW j \in Jobs, OperatorResolves(j)
       PROVE  StartsInv'
  <2>1. /\ ~alive[j] /\ \A p \in Procs : proc[p].job = j => proc[p].pc \notin {"post", "attach"}
        /\ resolved' = resolved \cup {j} /\ runStatus[j] = "starting"
        /\ UNCHANGED <<runStatus, proc, started, alive>>
    BY <1>14 DEF OperatorResolves, ResolveStart
  <2>2. \A k \in Jobs : k # j => Unsettled(k)' = Unsettled(k)
    BY <2>1 DEF Unsettled
  <2>. QED
    BY <2>1, <2>2 DEF StartsInv, AtMostOnePaidStart, At
<1>15. ASSUME NEW j \in Jobs, ActorEnds(j)
       PROVE  StartsInv'
  BY <1>12, <1>15 DEF ActorEnds, ledgerVars, runVars, WorldTypes
<1>16. ASSUME NEW p \in Procs, Retry(p)
       PROVE  UNCHANGED <<runStatus, resolved>>
              /\ \A q \in Procs : proc'[q].pc \in {"post", "attach"} => proc'[q] = proc[q]
  BY <1>16 DEF Retry, Release, Stop, Idle, Doing, ProcShape, Records, ledgerVars, runVars
<1>17. ASSUME NEW p \in Procs, Delivery(p)
       PROVE  StartsInv'
  <2>1. PICK name \in tasks : DeliverClaim(p, name[1], name[2]) \/ DeliverTakeover(p, name[1], name[2])
    BY <1>17 DEF Delivery
  <2>2. UNCHANGED <<runStatus, resolved, started, alive>>
    BY <2>1 DEF DeliverClaim, DeliverTakeover, ClaimAttempt, ClaimExhausted, Takeover, runVars
  <2>3. Claimed(p, name[1], name[2], Fresh(name[1]))
    BY <2>1 DEF DeliverClaim, DeliverTakeover
  <2>. QED
    BY <2>2, <2>3, <1>1 DEF Claimed, Doing
<1>18. ASSUME NEW p \in Procs, Handler(p)
       PROVE  StartsInv'
  <2>1. CASE Resume(p)
    <3>1. proc[p].job \in Jobs
      BY <2>1 DEF Resume, At, ProcShape, Shaped
    <3>2. ResumePoint(proc[p].job) \notin {"post", "attach"}
      BY <3>1, ResumePoints
    <3>3. \A q \in Procs : proc'[q].pc \in {"post", "attach"} => proc'[q] = proc[q]
      BY <2>1, <3>2 DEF Resume, ProcShape, Records
    <3>. QED
      BY <2>1, <3>3, <1>12 DEF Resume, ledgerVars, runVars
  <2>2. CASE RunBootstrap(p) \/ Reload(p) \/ Fanout(p)
    <3>1. \A q \in Procs : proc'[q].pc \in {"post", "attach"} => proc'[q] = proc[q]
      BY <2>2 DEF RunBootstrap, Reload, Fanout, ProcShape, Records
    <3>. QED
      BY <2>2, <3>1, <1>12
      DEF RunBootstrap, Reload, Fanout, Checkpoint, CompleteAndFanout, ledgerVars, runVars
  <2>3. CASE Save(p) \/ Publish(p) \/ Cleanup(p) \/ FinishFailure(p)
    BY <2>3, <1>3
    DEF Save, Publish, Cleanup, FinishFailure, Checkpoint, CompleteResult, RequestCleanup,
        FailRequest, runVars
  <2>4. CASE Ack(p) \/ LostClaim(p) \/ CleanupBlocked(p) \/ CleanupFenced(p)
    BY <2>4, <1>2
    DEF Ack, LostClaim, CleanupBlocked, CleanupFenced, DeferCleanup, ledgerVars, runVars
  <2>5. CASE Refused(p)
    BY <2>5, <1>12, <1>16 DEF Refused
  <2>6. ASSUME NEW k \in Jobs, SettleRuns(p, k) PROVE StartsInv'
    BY <2>6, <1>11 DEF SettleRuns
  <2>. QED
    BY <1>18, <1>4, <1>5, <1>8, <1>10, <1>13, <2>1, <2>2, <2>3, <2>4, <2>5, <2>6 DEF Handler
<1>19. ASSUME NEW p \in Procs, Dispatcher(p)
       PROVE  StartsInv'
  <2>1. CASE \E j \in Jobs : DispatchNew(p, j) \/ DispatchReserved(p, j) \/ SweepLookup(p, j)
    BY <2>1, <1>1
    DEF DispatchNew, DispatchReserved, SweepLookup, Dispatching, Doing, Reserve, ledgerVars,
        runVars
  <2>2. CASE Create(p)
    BY <2>2, <1>3 DEF Create, ledgerVars, runVars
  <2>3. CASE Mark(p)
    BY <2>3, <1>2 DEF Mark, MarkDispatched, ledgerVars, runVars
  <2>4. CASE RearmLost(p)
    BY <2>4, <1>1, <1>2 DEF RearmLost, Rearm, Dispatching, Doing, ledgerVars, runVars
  <2>. QED
    BY <1>19, <2>1, <2>2, <2>3, <2>4 DEF Dispatcher
<1>20. ASSUME NEW p \in Procs, Faults(p)
       PROVE  StartsInv'
  <2>1. CASE TransientError(p)
    BY <2>1, <1>12, <1>16 DEF TransientError
  <2>2. CASE PermanentError(p) \/ Crash(p)
    BY <2>2, <1>2, <1>3 DEF PermanentError, Crash, ledgerVars, runVars
  <2>3. CASE CapacityWait(p) \/ Continuation(p)
    BY <2>3, <1>2, <1>3 DEF CapacityWait, Continuation, DeferAiCapacity, ContinueScheduler, runVars
  <2>. QED
    BY <1>20, <1>5, <1>6, <1>13, <2>1, <2>2, <2>3 DEF Faults
<1>21. ASSUME NEW name \in tasks, DeliverStale(name[1], name[2]) \/ DropTask(name)
       PROVE  StartsInv'
  BY <1>21, <1>12 DEF DeliverStale, DropTask, ledgerVars, runVars
<1>22. ASSUME NEW j \in Jobs, SweepSettle(j) \/ Expire(j)
       PROVE  StartsInv'
  BY <1>22, <1>11, <1>12 DEF SweepSettle, Expire, ExpireLease, runVars
<1>. QED
  BY <1>14, <1>15, <1>17, <1>18, <1>19, <1>20, <1>21, <1>22 DEF PipelineNext

-----------------------------------------------------------------------------
(* Claims.  A call gives no claim away and makes nobody the owner of a     *)
(* failure, and what it completes owns none.                               *)
NoNewClaim ==
    \A j \in Jobs :
       /\ OwnIntent(j)' => OwnIntent(j)
       /\ \A t \in Tokens : Holds(j, t)' => Holds(j, t)
       /\ status'[j] = "completed" => status[j] = "completed" \/ ~OwnIntent(j)

(* A process keeps its claim or drops it, and goes to work only from work, *)
(* or as the first thing it does with a job that owns no failure.          *)
Onward(q) ==
    /\ proc'[q].token \in Tokens => proc'[q].token = proc[q].token /\ proc'[q].job = proc[q].job
    /\ proc'[q].pc \in Working => proc[q].pc \in Working \/ ~OwnIntent(proc[q].job)

(* The steps that give no claim away keep the claims apart.                *)
LEMMA ClaimsKept ==
    ASSUME ProcShape, ProcShape', ClaimsInv, NoNewClaim, \A q \in Procs : Onward(q)
    PROVE  ClaimsInv'
<1>1. OwnerNeverCompletes'
  BY DEF ClaimsInv, OwnerNeverCompletes, NoNewClaim
<1>2. \A p, q \in Procs :
         proc'[p].job = proc'[q].job /\ proc'[p].token = proc'[q].token /\ proc'[p].token \in Tokens
         => p = q
  BY DEF ClaimsInv, Onward
<1>3. ASSUME NEW p \in Procs, proc'[p].pc \in Working,
             OwnIntent(proc[p].job)', Holds(proc[p].job, proc[p].token)'
      PROVE  FALSE
  <2>1. proc'[p].token \in Tokens /\ proc'[p].job \in Jobs
    BY <1>3 DEF ProcShape, Shaped, Claiming, Working, HandlerPoints
  <2>2. proc'[p].token = proc[p].token /\ proc'[p].job = proc[p].job
    BY <2>1 DEF Onward
  <2>3. OwnIntent(proc[p].job) /\ Holds(proc[p].job, proc[p].token)
    BY <1>3, <2>1, <2>2 DEF NoNewClaim, OwnIntent, Holds
  <2>. QED
    BY <1>3, <2>3 DEF Onward, ClaimsInv
<1>. QED
  BY <1>1, <1>2, <1>3 DEF ClaimsInv

(* The ledger's rows are left alone.                                       *)
LEMMA NoCallNoClaim ==
    ASSUME UNCHANGED <<intent, status, lease, live>>
    PROVE  NoNewClaim
BY DEF NoNewClaim, OwnIntent, Holds

(* Neither do the calls that give a claim back or act under it.            *)
LEMMA CallsGiveNoClaim ==
    ASSUME TypeOK, NEW j \in Jobs, NEW t \in Tokens,
           \/ Reserve(j) \/ (\E g \in Nat : MarkDispatched(j, g) \/ Rearm(j, g))
           \/ ExpireLease(j) \/ Release(j, t) \/ DeferCleanup(j, t)
           \/ DeferAiCapacity(j, t) \/ ContinueScheduler(j, t)
           \/ Checkpoint(j, t) \/ CompleteResult(t) \/ FailRequest(j, t)
           \/ ReserveRun(j, t) \/ StartRun(j, t) \/ FinishRun(j, t) \/ RejectRun(j, t)
           \/ SettleRun(j) \/ ResolveStart(j)
    PROVE  NoNewClaim
<1>1. CASE Reserve(j) \/ (\E g \in Nat : MarkDispatched(j, g)) \/ Checkpoint(j, t)
           \/ ReserveRun(j, t) \/ StartRun(j, t) \/ FinishRun(j, t) \/ RejectRun(j, t)
           \/ SettleRun(j) \/ ResolveStart(j)
  BY <1>1, NoCallNoClaim
  DEF Reserve, MarkDispatched, Checkpoint, ReserveRun, StartRun, FinishRun, RejectRun,
      SettleRun, ResolveStart, rowVars
<1>2. CASE (\E g \in Nat : Rearm(j, g)) \/ Release(j, t) \/ DeferCleanup(j, t)
           \/ DeferAiCapacity(j, t) \/ ContinueScheduler(j, t)
  <2>1. Unclaim(j) /\ UNCHANGED intent
    BY <1>2 DEF Rearm, Release, DeferCleanup, DeferAiCapacity, ContinueScheduler
  <2>. QED
    BY <2>1 DEF Unclaim, NoNewClaim, OwnIntent, Holds, TypeOK
<1>3. CASE ExpireLease(j)
  BY <1>3 DEF ExpireLease, NoNewClaim, OwnIntent, Holds, TypeOK
<1>4. CASE CompleteResult(t)
  BY <1>4, DagAssumption
  DEF CompleteResult, ResultReady, NoNewClaim, OwnIntent, Holds, TypeOK
<1>5. CASE FailRequest(j, t)
  <2>1. ~intent'.open
    BY <1>5 DEF FailRequest, TypeOK, Intents, NoIntent
  <2>2. /\ \A k \in Jobs : live'[k] = FALSE
        /\ \A k \in Jobs : status'[k] = "completed" => status[k] = "completed"
    BY <1>5 DEF FailRequest
  <2>. QED
    BY <2>1, <2>2 DEF NoNewClaim, OwnIntent, Holds
<1>. QED
  BY <1>1, <1>2, <1>3, <1>4, <1>5

(* Nor do the ways in which a process moves on.                            *)
LEMMA StopOnward ==
    ASSUME ProcShape, NEW p \in Procs, Stop(p)
    PROVE  \A q \in Procs : Onward(q)
BY LedgerAssumption
DEF Stop, Idle, Doing, Onward, ProcShape, Working, HandlerPoints

(* The same when it goes to another point with its claim.                  *)
LEMMA GotoOnward ==
    ASSUME ProcShape, NEW p \in Procs, NEW point, Goto(p, point),
           point \in Working => proc[p].pc \in Working
    PROVE  \A q \in Procs : Onward(q)
BY DEF Goto, Onward, ProcShape, Records

(* A delivery's new claim is held by nobody else, and whoever had the job  *)
(* before has lost it.                                                     *)
LEMMA NewClaimKept ==
    ASSUME TypeOK, ProcShape, ProcShape', ClaimsInv, NEW p \in Procs, At(p, "idle"),
           NEW j \in Jobs, NEW g, Claimed(p, j, g, Fresh(j)),
           status'[j] = "processing", lease'[j] = Fresh(j),
           \A k \in Jobs \ {j} :
              /\ status'[k] = status[k] /\ lease'[k] = lease[k] /\ live'[k] = live[k]
              /\ OwnIntent(k)' => OwnIntent(k)
    PROVE  ClaimsInv'
<1> DEFINE t == Fresh(j)
<1>1. t \in Tokens \ UsedTokens(j)
  BY FreshToken
<1>2. \A q \in Procs : proc[q].job = j => proc[q].token # t
  BY <1>1 DEF UsedTokens
<1>3. /\ \A q \in Procs : q # p => proc'[q] = proc[q]
      /\ proc'[p].job = j /\ proc'[p].token = t /\ proc'[p].pc = "claimed"
  BY DEF Claimed, Doing, ProcShape
<1>4. OwnerNeverCompletes'
  BY DEF ClaimsInv, OwnerNeverCompletes
<1>5. \A q, s \in Procs :
         proc'[q].job = proc'[s].job /\ proc'[q].token = proc'[s].token /\ proc'[q].token \in Tokens
         => q = s
  BY <1>2, <1>3 DEF ClaimsInv
<1>6. ASSUME NEW q \in Procs, proc'[q].pc \in Working,
             OwnIntent(proc[q].job)', Holds(proc[q].job, proc[q].token)'
      PROVE  FALSE
  <2>1. q # p /\ proc'[q] = proc[q]
    BY <1>3, <1>6 DEF Working, HandlerPoints
  <2>2. proc[q].job \in Jobs /\ proc[q].pc \in Working
    BY <1>6, <2>1 DEF ProcShape, Shaped, Working, HandlerPoints
  <2>3. proc[q].job # j
    BY <1>2, <1>6, <2>1 DEF Holds
  <2>4. OwnIntent(proc[q].job) /\ Holds(proc[q].job, proc[q].token)
    BY <1>6, <2>1, <2>2, <2>3 DEF OwnIntent, Holds
  <2>. QED
    BY <2>2, <2>4 DEF ClaimsInv
<1>. QED
  BY <1>4, <1>5, <1>6 DEF ClaimsInv

(* No step of the processes breaks the claims.                             *)
LEMMA ClaimsStep ==
    ASSUME TypeOK, RowChecks, ProcShape, WorldTypes, ClaimsInv, PipelineNext
    PROVE  ClaimsInv'
<1>1. ProcShape'
  BY ShapeStep
<1>2. ASSUME NoNewClaim, \A q \in Procs : Onward(q)
      PROVE  ClaimsInv'
  BY <1>1, <1>2, ClaimsKept
<1>3. ASSUME NEW p \in Procs, proc[p].pc \in Claiming
      PROVE  proc[p].job \in Jobs /\ proc[p].token \in Tokens
  BY <1>3 DEF ProcShape, Shaped, Claiming, Working, HandlerPoints
<1>4. ASSUME NEW p \in Procs, NEW name \in tasks, DeliverClaim(p, name[1], name[2])
      PROVE  ClaimsInv'
  <2>1. name[1] \in Jobs
    BY DEF WorldTypes
  <2>2. /\ status'[name[1]] = "processing" /\ lease'[name[1]] = Fresh(name[1])
        /\ \A k \in Jobs \ {name[1]} :
              /\ status'[k] = status[k] /\ lease'[k] = lease[k] /\ live'[k] = live[k]
              /\ OwnIntent(k)' => OwnIntent(k)
    BY <2>1, <1>4 DEF DeliverClaim, ClaimAttempt, ClaimExhausted, Lease, OwnIntent, TypeOK
  <2>3. At(p, "idle") /\ Claimed(p, name[1], name[2], Fresh(name[1]))
    BY <1>4 DEF DeliverClaim
  <2>. QED
    BY <2>1, <2>2, <2>3, <1>1, NewClaimKept
<1>5. ASSUME NEW p \in Procs, NEW name \in tasks, DeliverTakeover(p, name[1], name[2])
      PROVE  ClaimsInv'
  <2>1. name[1] \in Jobs
    BY DEF WorldTypes
  <2>2. intent \in Intents
    BY <1>5 DEF DeliverTakeover, Takeover, OwnIntent, TypeOK, NoIntent
  <2>3. /\ status'[name[1]] = "processing" /\ lease'[name[1]] = Fresh(name[1])
        /\ \A k \in Jobs \ {name[1]} :
              /\ status'[k] = status[k] /\ lease'[k] = lease[k] /\ live'[k] = live[k]
              /\ OwnIntent(k)' => OwnIntent(k)
    BY <2>1, <2>2, <1>5 DEF DeliverTakeover, Takeover, OwnIntent, TypeOK, Intents
  <2>4. At(p, "idle") /\ Claimed(p, name[1], name[2], Fresh(name[1]))
    BY <1>5 DEF DeliverTakeover
  <2>. QED
    BY <2>1, <2>3, <2>4, <1>1, NewClaimKept
<1>6. ASSUME NEW p \in Procs, Cleanup(p)
      PROVE  ClaimsInv'
  <2> DEFINE j == proc[p].job
  <2>1. /\ j \in Jobs /\ proc[p].token \in Tokens /\ Holds(j, proc[p].token)
        /\ UNCHANGED <<status, lease, live>>
        /\ \A k \in Jobs : OwnIntent(k)' => k = j
    <3>1. j \in Jobs /\ proc[p].token \in Tokens /\ RequestCleanup(j, proc[p].token, proc[p].code)
      BY <1>3, <1>6 DEF Cleanup, At, Claiming
    <3>. HIDE DEF j
    <3>2. CASE intent = NoIntent
      BY <3>1, <3>2 DEF RequestCleanup, OwnIntent, rowVars, NoIntent
    <3>3. CASE OwnIntent(j) /\ intent' = [intent EXCEPT !.token = proc[p].token]
      <4>1. intent \in Intents
        BY <3>3 DEF OwnIntent, TypeOK, NoIntent
      <4>2. intent'.job = j
        BY <3>3, <4>1 DEF OwnIntent, Intents
      <4>. QED
        BY <3>1, <4>2 DEF RequestCleanup, OwnIntent, rowVars
    <3>. QED
      BY <3>1, <3>2, <3>3 DEF RequestCleanup
  <2>2. /\ \A q \in Procs : q # p => proc'[q] = proc[q]
        /\ proc'[p].job = j /\ proc'[p].token = proc[p].token /\ proc'[p].pc = "settle"
    BY <1>6 DEF Cleanup, Goto, ProcShape, Records
  <2>3. OwnerNeverCompletes'
    BY <2>1 DEF ClaimsInv, OwnerNeverCompletes, Holds
  <2>4. \A q, s \in Procs :
           proc'[q].job = proc'[s].job /\ proc'[q].token = proc'[s].token
           /\ proc'[q].token \in Tokens => q = s
    BY <2>2 DEF ClaimsInv
  <2>5. ASSUME NEW q \in Procs, proc'[q].pc \in Working,
               OwnIntent(proc[q].job)', Holds(proc[q].job, proc[q].token)'
        PROVE  FALSE
    <3>1. q # p /\ proc'[q] = proc[q]
      BY <2>2, <2>5 DEF Working, HandlerPoints
    <3>2. proc[q].job \in Jobs
      BY <2>5, <3>1 DEF ProcShape, Shaped, Working, HandlerPoints
    <3>3. proc[q].job = j
      BY <2>1, <2>5, <3>1, <3>2 DEF OwnIntent
    <3>4. proc[q].token = proc[p].token
      BY <2>1, <2>5, <3>1, <3>3 DEF Holds
    <3>. QED
      BY <2>1, <3>1, <3>3, <3>4 DEF ClaimsInv
  <2>. QED
    BY <2>3, <2>4, <2>5 DEF ClaimsInv
<1>7. ASSUME NEW p \in Procs, Resume(p)
      PROVE  ClaimsInv'
  <2>1. proc[p].job \in Jobs
    BY <1>7 DEF Resume, At, ProcShape, Shaped
  <2>2. ResumePoint(proc[p].job) \in Working => ~OwnIntent(proc[p].job)
    BY <2>1, ResumePoints DEF Working, HandlerPoints
  <2>3. \A q \in Procs : Onward(q)
    BY <1>7, <2>2 DEF Resume, Onward, ProcShape, Records
  <2>. QED
    BY <1>7, <2>3, <1>2, NoCallNoClaim DEF Resume, ledgerVars, rowVars
<1>8. ASSUME NEW p \in Procs, Fanout(p)
      PROVE  ClaimsInv'
  <2> DEFINE j == proc[p].job
  <2>1. /\ j \in Jobs /\ proc[p].pc \in Working /\ proc[p].token \in Tokens
        /\ CompleteAndFanout(j, proc[p].token, proc[p].plan)
    BY <1>3, <1>8 DEF Fanout, At, Claiming, Working
  <2>2. ~OwnIntent(j)
    BY <2>1 DEF ClaimsInv, CompleteAndFanout
  <2>. HIDE DEF j
  <2>3. NoNewClaim
    BY <2>1, <2>2 DEF CompleteAndFanout, Inserted, NoNewClaim, OwnIntent, Holds, TypeOK
  <2>4. \A q \in Procs : Onward(q)
    BY <1>8 DEF Fanout, Onward, ProcShape, Records, Working, HandlerPoints
  <2>. QED
    BY <2>3, <2>4, <1>2
<1>9. ASSUME NEW p \in Procs, RunBootstrap(p) \/ Reload(p)
      PROVE  ClaimsInv'
  <2>1. proc[p].pc \in Working
    BY <1>9 DEF RunBootstrap, Reload, At, Working, HandlerPoints
  <2>2. \A q \in Procs : Onward(q)
    BY <1>9, <2>1 DEF RunBootstrap, Reload, Onward, ProcShape, Records
  <2>3. NoNewClaim
    BY <1>9, NoCallNoClaim DEF RunBootstrap, Reload, Checkpoint, ledgerVars, rowVars
  <2>. QED
    BY <2>2, <2>3, <1>2
<1>10. ASSUME NEW p \in Procs, proc[p].pc \in Claiming, Retry(p)
       PROVE  ClaimsInv'
  <2>1. proc[p].job \in Jobs /\ proc[p].token \in Tokens
    BY <1>3, <1>10
  <2>2. CASE Release(proc[p].job, proc[p].token) /\ Stop(p)
    BY <2>1, <2>2, <1>2, CallsGiveNoClaim, StopOnward
  <2>3. CASE /\ proc' = [proc EXCEPT ![p].pc = "cleanup", ![p].code = "exhausted"]
             /\ UNCHANGED ledgerVars
    <3>1. \A q \in Procs : Onward(q)
      BY <2>3 DEF Onward, ProcShape, Records, Working, HandlerPoints
    <3>. QED
      BY <2>3, <3>1, <1>2, NoCallNoClaim DEF ledgerVars, rowVars
  <2>. QED
    BY <2>2, <2>3, <1>10 DEF Retry
<1>11. ASSUME NEW p \in Procs, Delivery(p)
       PROVE  ClaimsInv'
  BY <1>4, <1>5, <1>11 DEF Delivery
<1>12. ASSUME NEW p \in Procs,
              \/ Bind(p) \/ PostAccepted(p) \/ PostUnanswered(p) \/ PostRejected(p) \/ Attach(p)
              \/ AttachFenced(p) \/ AttachFails(p) \/ Poll(p) \/ Save(p) \/ PermanentError(p)
              \/ Publish(p) \/ Continuation(p) \/ FinishFailure(p)
       PROVE  ClaimsInv'
  <2>1. proc[p].pc \in Claiming
    BY <1>12
    DEF Bind, PostAccepted, PostUnanswered, PostRejected, Attach, AttachFenced, AttachFails,
        AbandonRun, Poll, Save, PermanentError, Publish, Continuation, FinishFailure, At,
        Claiming, Working, HandlerPoints
  <2>2. proc[p].job \in Jobs /\ proc[p].token \in Tokens
    BY <1>3, <2>1
  <2>3. \E point : Goto(p, point) /\ (point \in Working => proc[p].pc \in Working)
    <3>1. CASE FinishFailure(p) \/ Continuation(p) \/ PermanentError(p) \/ Publish(p)
      BY <3>1
      DEF FinishFailure, Continuation, PermanentError, Publish, Working, HandlerPoints
    <3>2. CASE ~(FinishFailure(p) \/ Continuation(p) \/ PermanentError(p) \/ Publish(p))
      BY <1>12, <3>2
      DEF Bind, PostAccepted, PostUnanswered, PostRejected, Attach, AttachFenced, AttachFails,
          AbandonRun, Poll, Save, At, Working, HandlerPoints
    <3>. QED
      BY <3>1, <3>2
  <2>4. \A q \in Procs : Onward(q)
    BY <2>3, GotoOnward
  <2>5. NoNewClaim
    <3>1. CASE UNCHANGED ledgerVars
      BY <3>1, NoCallNoClaim DEF ledgerVars, rowVars
    <3>2. CASE ~UNCHANGED ledgerVars
      BY <1>12, <2>2, <3>2, CallsGiveNoClaim
      DEF Bind, PostAccepted, PostUnanswered, PostRejected, Attach, AttachFenced, AttachFails,
          AbandonRun, Poll, Save, PermanentError, Publish, Continuation, FinishFailure
    <3>. QED
      BY <3>1, <3>2
  <2>. QED
    BY <1>2, <2>4, <2>5
<1>13. ASSUME NEW p \in Procs,
              Ack(p) \/ LostClaim(p) \/ CleanupBlocked(p) \/ CleanupFenced(p) \/ Crash(p)
       PROVE  ClaimsInv'
  <2>1. \A q \in Procs : Onward(q)
    BY <1>13, StopOnward DEF Ack, LostClaim, CleanupBlocked, CleanupFenced, Crash
  <2>2. CleanupBlocked(p) => proc[p].job \in Jobs /\ proc[p].token \in Tokens
    BY <1>3 DEF CleanupBlocked, At, Claiming
  <2>3. NoNewClaim
    BY <1>13, <2>2, NoCallNoClaim, CallsGiveNoClaim
    DEF Ack, LostClaim, CleanupBlocked, CleanupFenced, Crash, ledgerVars, rowVars
  <2>. QED
    BY <1>2, <2>1, <2>3
<1>14. ASSUME NEW p \in Procs, CapacityWait(p)
       PROVE  ClaimsInv'
  <2>1. /\ proc[p].job \in Jobs /\ proc[p].token \in Tokens
        /\ DeferAiCapacity(proc[p].job, proc[p].token)
    BY <1>3, <1>14 DEF CapacityWait, Claiming, Working, HandlerPoints
  <2>2. \A q \in Procs : Onward(q)
    BY <1>14, StopOnward, GotoOnward DEF CapacityWait, Working, HandlerPoints
  <2>. QED
    BY <2>1, <2>2, <1>2, CallsGiveNoClaim
<1>15. ASSUME NEW p \in Procs, Handler(p)
       PROVE  ClaimsInv'
  <2>1. CASE Refused(p)
    BY <2>1, <1>10 DEF Refused, Claiming, Working, HandlerPoints
  <2>2. ASSUME NEW k \in Jobs, SettleRuns(p, k) PROVE ClaimsInv'
    <3>1. NoNewClaim
      BY <2>2, NoCallNoClaim DEF SettleRuns, AbortRun, SettleRun, rowVars
    <3>2. \A q \in Procs : Onward(q)
      BY <2>2 DEF SettleRuns, Onward
    <3>. QED
      BY <3>1, <3>2, <1>2
  <2>. QED
    BY <1>15, <1>6, <1>7, <1>8, <1>9, <1>12, <1>13, <2>1, <2>2 DEF Handler
<1>16. ASSUME NEW p \in Procs, Dispatcher(p)
       PROVE  ClaimsInv'
  <2>1. ASSUME NEW j \in Jobs, DispatchNew(p, j) \/ DispatchReserved(p, j) \/ SweepLookup(p, j)
        PROVE  ClaimsInv'
    <3>1. NoNewClaim
      BY <2>1, NoCallNoClaim
      DEF DispatchNew, DispatchReserved, SweepLookup, Reserve, ledgerVars, rowVars
    <3>2. \A q \in Procs : Onward(q)
      BY <2>1, LedgerAssumption
      DEF DispatchNew, DispatchReserved, SweepLookup, Dispatching, Doing, Onward, ProcShape,
          Working, HandlerPoints
    <3>. QED
      BY <3>1, <3>2, <1>2
  <2>2. CASE Create(p)
    BY <2>2, <1>2, NoCallNoClaim, GotoOnward DEF Create, Working, HandlerPoints, ledgerVars, rowVars
  <2>3. CASE Mark(p)
    BY <2>3, <1>2, NoCallNoClaim, StopOnward DEF Mark, MarkDispatched, ledgerVars, rowVars
  <2>4. CASE RearmLost(p)
    <3>1. proc[p].job \in Jobs /\ proc[p].gen \in Nat
      BY <2>4 DEF RearmLost, At, ProcShape, Shaped
    <3>2. \A q \in Procs : Onward(q)
      <4>1. CASE Stop(p)
        BY <4>1, StopOnward
      <4>2. CASE Dispatching(p, "create", proc[p].job, proc[p].gen + 1)
        BY <4>2, LedgerAssumption
        DEF Dispatching, Doing, Onward, ProcShape, Working, HandlerPoints
      <4>. QED
        BY <2>4, <4>1, <4>2 DEF RearmLost
    <3>3. NoNewClaim
      <4>1. CASE UNCHANGED ledgerVars
        BY <4>1, NoCallNoClaim DEF ledgerVars, rowVars
      <4>2. CASE Rearm(proc[p].job, proc[p].gen)
        BY <3>1, <4>2 DEF Rearm, Unclaim, NoNewClaim, OwnIntent, Holds, TypeOK
      <4>. QED
        BY <2>4, <4>1, <4>2 DEF RearmLost
    <3>. QED
      BY <3>2, <3>3, <1>2
  <2>. QED
    BY <1>16, <2>1, <2>2, <2>3, <2>4 DEF Dispatcher
<1>17. ASSUME NEW p \in Procs, Faults(p)
       PROVE  ClaimsInv'
  <2>1. CASE TransientError(p)
    BY <2>1, <1>10 DEF TransientError, Claiming, Working
  <2>. QED
    BY <1>17, <1>12, <1>13, <1>14, <2>1 DEF Faults
<1>18. ASSUME UNCHANGED proc, UNCHANGED <<intent, status, lease, live>>
       PROVE  ClaimsInv'
  BY <1>2, <1>18, NoCallNoClaim DEF Onward
<1>19. ASSUME NEW name \in tasks, DeliverStale(name[1], name[2]) \/ DropTask(name)
       PROVE  ClaimsInv'
  BY <1>18, <1>19 DEF DeliverStale, DropTask, ledgerVars, rowVars
<1>20. ASSUME NEW j \in Jobs, SweepSettle(j) \/ ActorEnds(j) \/ OperatorResolves(j)
       PROVE  ClaimsInv'
  BY <1>18, <1>20
  DEF SweepSettle, AbortRun, SettleRun, ActorEnds, OperatorResolves, ResolveStart, ledgerVars,
      rowVars
<1>21. ASSUME NEW j \in Jobs, Expire(j)
       PROVE  ClaimsInv'
  <2>1. NoNewClaim
    BY <1>21 DEF Expire, ExpireLease, NoNewClaim, OwnIntent, Holds, TypeOK
  <2>2. \A q \in Procs : Onward(q)
    BY <1>21 DEF Expire, Onward
  <2>. QED
    BY <2>1, <2>2, <1>2
<1>. QED
  BY <1>11, <1>15, <1>16, <1>17, <1>19, <1>20, <1>21 DEF PipelineNext

-----------------------------------------------------------------------------
(* The outbox.  A call keeps a generation or begins a new one, and what it *)
(* counts as enqueued counted as such before.                              *)
NoNewTask ==
    \A j \in Jobs :
       /\ gen'[j] \in Nat /\ gen[j] <= gen'[j]
       /\ dispatch'[j] \in {"enqueued", "delivered"} =>
             dispatch[j] \in {"enqueued", "delivered"} /\ gen'[j] = gen[j]

(* Nobody comes to the point of creating a task ahead of its row, or of    *)
(* marking one.                                                            *)
NoNewDispatch(q) ==
    proc'[q].pc \in {"create", "mark"} =>
       proc'[q] = proc[q] \/ (proc'[q].pc = "create" /\ proc'[q].gen <= gen'[proc'[q].job])

(* The steps that create and mark nothing keep outbox and queue together.  *)
LEMMA OutboxKept ==
    ASSUME TypeOK, ProcShape, WorldTypes, OutboxInv, NoNewTask, UNCHANGED named,
           \A q \in Procs : NoNewDispatch(q)
    PROVE  OutboxInv'
<1>1. \A name \in named : name[1] \in Jobs /\ name[2] \in Nat
  BY DEF WorldTypes
<1>2. \A j \in Jobs : gen[j] \in Nat
  BY DEF TypeOK
<1>3. OutboxAgreesWithQueue'
  BY <1>1, <1>2 DEF OutboxInv, OutboxAgreesWithQueue, NoNewTask
<1>4. ASSUME NEW p \in Procs, proc'[p].pc \in {"create", "mark"}
      PROVE  /\ proc'[p].gen <= gen'[proc'[p].job]
             /\ proc'[p].pc = "mark" => <<proc'[p].job, proc'[p].gen>> \in named'
  <2>1. SUFFICES ASSUME proc'[p] = proc[p] /\ proc[p].pc \in {"create", "mark"}
                 PROVE  /\ proc'[p].gen <= gen'[proc'[p].job]
                        /\ proc'[p].pc = "mark" => <<proc'[p].job, proc'[p].gen>> \in named'
    BY <1>4 DEF NoNewDispatch
  <2>2. proc[p].job \in Jobs /\ proc[p].gen \in Nat
    BY <2>1 DEF ProcShape, Shaped
  <2>3. /\ proc[p].gen <= gen[proc[p].job]
        /\ proc[p].pc = "mark" => <<proc[p].job, proc[p].gen>> \in named
    BY <2>1 DEF OutboxInv, At
  <2>. QED
    BY <1>2, <2>1, <2>2, <2>3 DEF NoNewTask
<1>. QED
  BY <1>3, <1>4 DEF OutboxInv, At

(* What the calls other than Reserve and MarkDispatched do to the outbox.  *)
LEMMA CallsMakeNoTask ==
    ASSUME TypeOK, UNCHANGED <<dispatch, gen>>
    PROVE  NoNewTask
BY DEF NoNewTask, TypeOK

(* The same for the calls that change a row's dispatch.                    *)
LEMMA DispatchesKept ==
    ASSUME TypeOK, NEW j \in Jobs, NEW t, NEW g,
           \/ ClaimAttempt(j, t, g) \/ ClaimExhausted(j, t, g)
           \/ Rearm(j, g) \/ ContinueScheduler(j, t)
    PROVE  NoNewTask
<1>1. gen \in [Jobs -> Nat] /\ dispatch \in [Jobs -> Dispatches]
  BY DEF TypeOK
<1>2. CASE ClaimAttempt(j, t, g) \/ ClaimExhausted(j, t, g)
  BY <1>1, <1>2 DEF ClaimAttempt, ClaimExhausted, Claimable, Lease, NoNewTask
<1>3. CASE Rearm(j, g) \/ ContinueScheduler(j, t)
  <2>1. gen' = [gen EXCEPT ![j] = @ + 1] /\ dispatch' = [dispatch EXCEPT ![j] = "reserved"]
    BY <1>3 DEF Rearm, ContinueScheduler, NextGeneration
  <2>. QED
    BY <1>1, <2>1 DEF NoNewTask
<1>. QED
  BY <1>2, <1>3

(* No step of the processes breaks the outbox.                             *)
LEMMA OutboxStep ==
    ASSUME TypeOK, RowChecks, ProcShape, WorldTypes, OutboxInv, PipelineNext
    PROVE  OutboxInv'
<1>0. \A name \in named : name[1] \in Jobs /\ name[2] \in Nat
  BY DEF WorldTypes
<1>1. gen \in [Jobs -> Nat] /\ dispatch \in [Jobs -> Dispatches]
  BY DEF TypeOK
<1>2. ASSUME NoNewTask, UNCHANGED named, \A q \in Procs : NoNewDispatch(q)
      PROVE  OutboxInv'
  BY <1>2, OutboxKept
<1>3. ASSUME NEW p \in Procs, Stop(p)
      PROVE  \A q \in Procs : NoNewDispatch(q)
  BY <1>3 DEF Stop, Idle, Doing, NoNewDispatch, ProcShape
<1>4. ASSUME NEW p \in Procs, NEW point, point \notin {"create", "mark"}, Goto(p, point)
      PROVE  \A q \in Procs : NoNewDispatch(q)
  BY <1>4 DEF Goto, NoNewDispatch, ProcShape, Records
<1>5. ASSUME NEW p \in Procs, NEW r, r.pc \notin {"create", "mark"}, proc' = [proc EXCEPT ![p] = r]
      PROVE  \A q \in Procs : NoNewDispatch(q)
  BY <1>5 DEF NoNewDispatch, ProcShape
<1>6. ASSUME UNCHANGED <<dispatch, gen, named>>, \A q \in Procs : NoNewDispatch(q)
      PROVE  OutboxInv'
  BY <1>2, <1>6, CallsMakeNoTask
<1>7. ASSUME NEW p \in Procs, NEW j \in Jobs, NEW g, g <= gen'[j], Dispatching(p, "create", j, g)
      PROVE  \A q \in Procs : NoNewDispatch(q)
  BY <1>7 DEF Dispatching, Doing, NoNewDispatch, ProcShape
<1>8. ASSUME NEW p \in Procs, NEW j \in Jobs, DispatchNew(p, j)
      PROVE  OutboxInv'
  <2>1. /\ gen[j] = 0 /\ gen' = [gen EXCEPT ![j] = 1]
        /\ dispatch' = [dispatch EXCEPT ![j] = "reserved"]
    BY <1>8 DEF DispatchNew, Reserve, RowChecks
  <2>2. NoNewTask /\ gen'[j] = 1
    BY <1>1, <2>1 DEF NoNewTask
  <2>. QED
    BY <2>2, <1>2, <1>7, <1>8 DEF DispatchNew
<1>9. ASSUME NEW p \in Procs, NEW j \in Jobs, DispatchReserved(p, j)
      PROVE  OutboxInv'
  BY <1>1, <1>6, <1>7, <1>9 DEF DispatchReserved, ledgerVars, rowVars
<1>10. ASSUME NEW p \in Procs, NEW j \in Jobs, SweepLookup(p, j)
       PROVE  OutboxInv'
  BY <1>5, <1>6, <1>10 DEF SweepLookup, Dispatching, Doing, ledgerVars, rowVars
<1>11. ASSUME NEW p \in Procs, Create(p)
       PROVE  OutboxInv'
  <2> DEFINE j == proc[p].job
             g == proc[p].gen
  <2>1. /\ j \in Jobs /\ g \in Nat /\ g <= gen[j]
        /\ named' = named \cup {<<j, g>>} /\ UNCHANGED <<gen, dispatch>>
    BY <1>11 DEF Create, At, ProcShape, Shaped, OutboxInv, ledgerVars, rowVars
  <2>2. /\ \A q \in Procs : q # p => proc'[q] = proc[q]
        /\ proc'[p].job = j /\ proc'[p].gen = g
    BY <1>11 DEF Create, Goto, ProcShape, Records
  <2>. HIDE DEF j, g
  <2>3. OutboxAgreesWithQueue'
    BY <2>1 DEF OutboxInv, OutboxAgreesWithQueue
  <2>4. ASSUME NEW q \in Procs, proc'[q].pc \in {"create", "mark"}
        PROVE  /\ proc'[q].gen <= gen'[proc'[q].job]
               /\ proc'[q].pc = "mark" => <<proc'[q].job, proc'[q].gen>> \in named'
    <3>1. CASE q = p
      BY <2>1, <2>2, <3>1
    <3>2. CASE q # p
      BY <2>1, <2>2, <2>4, <3>2 DEF OutboxInv, At
    <3>. QED
      BY <3>1, <3>2
  <2>. QED
    BY <2>3, <2>4 DEF OutboxInv, At
<1>12. ASSUME NEW p \in Procs, Mark(p)
       PROVE  OutboxInv'
  <2> DEFINE j == proc[p].job
             g == proc[p].gen
  <2>1. j \in Jobs /\ <<j, g>> \in named
    BY <1>12 DEF Mark, At, ProcShape, Shaped, OutboxInv
  <2>2. \A q \in Procs : NoNewDispatch(q)
    BY <1>3, <1>12 DEF Mark
  <2>3. CASE UNCHANGED ledgerVars
    BY <1>6, <1>12, <2>2, <2>3 DEF Mark, ledgerVars, rowVars
  <2>4. CASE MarkDispatched(j, g)
    <3>1. /\ gen[j] = g /\ UNCHANGED <<gen, named>>
          /\ dispatch' = [dispatch EXCEPT ![j] = "enqueued"]
      BY <1>12, <2>4 DEF Mark, MarkDispatched
    <3>. HIDE DEF j, g
    <3>2. OutboxAgreesWithQueue'
      BY <1>1, <2>1, <3>1 DEF OutboxInv, OutboxAgreesWithQueue
    <3>3. \A q \in Procs : proc'[q].pc \in {"create", "mark"} => proc'[q] = proc[q]
      BY <1>12 DEF Mark, Stop, Idle, Doing, ProcShape
    <3>. QED
      BY <3>1, <3>2, <3>3 DEF OutboxInv, At
  <2>. QED
    BY <1>12, <2>3, <2>4 DEF Mark
<1>13. ASSUME NEW p \in Procs, RearmLost(p)
       PROVE  OutboxInv'
  <2> DEFINE j == proc[p].job
             g == proc[p].gen
  <2>1. j \in Jobs /\ UNCHANGED named
    BY <1>13 DEF RearmLost, At, ProcShape, Shaped
  <2>2. CASE Stop(p) /\ UNCHANGED ledgerVars
    BY <1>3, <1>6, <2>1, <2>2 DEF ledgerVars, rowVars
  <2>3. CASE Rearm(j, g) /\ Dispatching(p, "create", j, g + 1)
    <3>1. g + 1 <= gen'[j]
      BY <1>1, <2>1, <2>3 DEF Rearm, Claimable, NextGeneration
    <3>. QED
      BY <1>2, <1>7, <2>1, <2>3, <3>1, DispatchesKept
  <2>. QED
    BY <1>13, <2>2, <2>3 DEF RearmLost
<1>14. ASSUME NEW p \in Procs, Dispatcher(p)
       PROVE  OutboxInv'
  BY <1>8, <1>9, <1>10, <1>11, <1>12, <1>13, <1>14 DEF Dispatcher
<1>15. ASSUME NEW p \in Procs, Delivery(p)
       PROVE  OutboxInv'
  <2>1. PICK name \in tasks : DeliverClaim(p, name[1], name[2]) \/ DeliverTakeover(p, name[1], name[2])
    BY <1>15 DEF Delivery
  <2>2. name[1] \in Jobs
    BY DEF WorldTypes
  <2>3. UNCHANGED named /\ Claimed(p, name[1], name[2], Fresh(name[1]))
    BY <2>1 DEF DeliverClaim, DeliverTakeover
  <2>4. \A q \in Procs : NoNewDispatch(q)
    BY <2>3, <1>5 DEF Claimed, Doing
  <2>5. NoNewTask
    <3>1. CASE DeliverClaim(p, name[1], name[2])
      BY <2>2, <3>1, DispatchesKept DEF DeliverClaim
    <3>2. CASE DeliverTakeover(p, name[1], name[2])
      BY <3>2, CallsMakeNoTask DEF DeliverTakeover, Takeover
    <3>. QED
      BY <2>1, <3>1, <3>2
  <2>. QED
    BY <2>3, <2>4, <2>5, <1>2
<1>16. ASSUME NEW p \in Procs, Retry(p)
       PROVE  UNCHANGED <<dispatch, gen>> /\ \A q \in Procs : NoNewDispatch(q)
  <2>1. CASE Stop(p) /\ Release(proc[p].job, proc[p].token)
    BY <2>1, <1>3 DEF Release
  <2>2. CASE /\ proc' = [proc EXCEPT ![p].pc = "cleanup", ![p].code = "exhausted"]
             /\ UNCHANGED ledgerVars
    BY <2>2 DEF NoNewDispatch, ProcShape, Records, ledgerVars, rowVars
  <2>. QED
    BY <1>16, <2>1, <2>2 DEF Retry
<1>17. ASSUME NEW p \in Procs, Handler(p)
       PROVE  OutboxInv'
  <2>1. CASE Resume(p) \/ RunBootstrap(p) \/ Reload(p) \/ Fanout(p)
    <3>1. Resume(p) => ResumePoint(proc[p].job) \notin {"create", "mark"}
      BY ResumePoints DEF Resume, At, ProcShape, Shaped
    <3>2. \A q \in Procs : NoNewDispatch(q)
      BY <2>1, <3>1 DEF Resume, RunBootstrap, Reload, Fanout, NoNewDispatch, ProcShape, Records
    <3>. QED
      BY <2>1, <3>2, <1>6
      DEF Resume, RunBootstrap, Reload, Fanout, Checkpoint, CompleteAndFanout, ledgerVars, rowVars
  <2>2. CASE Bind(p) \/ PostAccepted(p) \/ Attach(p) \/ AttachFenced(p) \/ Poll(p)
    <3>1. AfterBind(proc[p].job) \notin {"create", "mark"}
      BY DEF AfterBind
    <3>2. \A q \in Procs : NoNewDispatch(q)
      BY <2>2, <3>1, <1>4 DEF Bind, PostAccepted, Attach, AttachFenced, AbandonRun, Poll
    <3>. QED
      BY <2>2, <3>2, <1>6
      DEF Bind, PostAccepted, Attach, AttachFenced, AbandonRun, Poll, ReserveRun, StartRun,
          FinishRun, ledgerVars, rowVars
  <2>3. CASE Save(p) \/ Publish(p) \/ Cleanup(p) \/ FinishFailure(p)
    BY <2>3, <1>4, <1>6
    DEF Save, Publish, Cleanup, FinishFailure, Checkpoint, CompleteResult, RequestCleanup,
        FailRequest, rowVars
  <2>4. CASE Ack(p) \/ LostClaim(p) \/ CleanupBlocked(p) \/ CleanupFenced(p)
    BY <2>4, <1>3, <1>6
    DEF Ack, LostClaim, CleanupBlocked, CleanupFenced, DeferCleanup, ledgerVars, rowVars
  <2>5. CASE Refused(p)
    BY <2>5, <1>6, <1>16 DEF Refused
  <2>6. ASSUME NEW k \in Jobs, SettleRuns(p, k) PROVE OutboxInv'
    BY <2>6, <1>6 DEF SettleRuns, AbortRun, SettleRun, NoNewDispatch, rowVars
  <2>. QED
    BY <1>17, <2>1, <2>2, <2>3, <2>4, <2>5, <2>6 DEF Handler
<1>18. ASSUME NEW p \in Procs, Faults(p)
       PROVE  OutboxInv'
  <2>1. CASE PostUnanswered(p) \/ PostRejected(p) \/ AttachFails(p) \/ PermanentError(p)
    BY <2>1, <1>4, <1>6
    DEF PostUnanswered, PostRejected, AttachFails, AbandonRun, PermanentError, RejectRun,
        ledgerVars, rowVars
  <2>2. CASE TransientError(p)
    BY <2>2, <1>6, <1>16 DEF TransientError
  <2>3. CASE CapacityWait(p) \/ Crash(p)
    BY <2>3, <1>3, <1>4, <1>6 DEF CapacityWait, Crash, DeferAiCapacity, ledgerVars, rowVars
  <2>4. CASE Continuation(p)
    <3>1. proc[p].job \in Jobs
      BY <2>4 DEF Continuation, At, ProcShape, Shaped
    <3>. QED
      BY <2>4, <3>1, <1>2, <1>4, DispatchesKept DEF Continuation
  <2>. QED
    BY <1>18, <2>1, <2>2, <2>3, <2>4 DEF Faults
<1>19. ASSUME UNCHANGED <<dispatch, gen, named, proc>>
       PROVE  OutboxInv'
  BY <1>6, <1>19 DEF NoNewDispatch
<1>20. ASSUME NEW name \in tasks, DeliverStale(name[1], name[2]) \/ DropTask(name)
       PROVE  OutboxInv'
  BY <1>19, <1>20 DEF DeliverStale, DropTask, ledgerVars, rowVars
<1>21. ASSUME NEW j \in Jobs, SweepSettle(j) \/ ActorEnds(j) \/ Expire(j) \/ OperatorResolves(j)
       PROVE  OutboxInv'
  BY <1>19, <1>21
  DEF SweepSettle, AbortRun, SettleRun, ActorEnds, Expire, ExpireLease, OperatorResolves,
      ResolveStart, ledgerVars, rowVars
<1>. QED
  BY <1>14, <1>15, <1>17, <1>18, <1>20, <1>21 DEF PipelineNext

-----------------------------------------------------------------------------
(* Completion.  A call writes no checkpoint and completes nothing.         *)
NothingDone ==
    /\ manifests' = manifests
    /\ outcome' = "completed" => outcome = "completed"
    /\ \A j \in Jobs \ {Finalizer} : status'[j] = "completed" => status[j] = "completed"
    /\ status'[Bootstrap] = "absent" => status[Bootstrap] = "absent"

(* A process is where it was, or at a point that asks for no more than is  *)
(* there.                                                                  *)
Ready(q) ==
    proc'[q] = proc[q] \/
    /\ proc'[q].pc \in {"reload", "fanout"} => proc'[q].job \in manifests'
    /\ proc'[q].pc \in {"save", "reload", "fanout"} /\ proc'[q].job \in PaidJobs
          => runStatus'[proc'[q].job] = "terminal"

(* What was checked before a fanout stays true.                            *)
LEMMA WholeKept ==
    ASSUME TypeOK, SettledKept, WholeInv, NothingDone, \A q \in Procs : Ready(q)
    PROVE  WholeInv'
<1>1. \A j \in PaidJobs : j \in Jobs /\ (runStatus[j] = "terminal" => runStatus'[j] = "terminal")
  BY LedgerAssumption DEF SettledKept
<1>2. ASSUME NEW p \in Procs
      PROVE  /\ proc'[p].pc \in {"reload", "fanout"} => proc'[p].job \in manifests'
             /\ proc'[p].pc \in {"save", "reload", "fanout"} /\ proc'[p].job \in PaidJobs
                   => runStatus'[proc'[p].job] = "terminal"
  BY <1>1 DEF Ready, WholeInv, NothingDone
<1>3. \A j \in PaidJobs \cap manifests' : runStatus'[j] = "terminal"
  BY <1>1 DEF WholeInv, NothingDone
<1>4. outcome' = "completed" => status'[Bootstrap] = "completed"
  BY DagAssumption DEF WholeInv, NothingDone, SettledKept
<1>. QED
  BY <1>2, <1>3, <1>4 DEF WholeInv, NothingDone

(* The calls that complete nothing.                                        *)
LEMMA CallsCompleteNothing ==
    ASSUME TypeOK, NEW j \in Jobs, NEW t, NEW g, NEW c,
           \/ Reserve(j) \/ MarkDispatched(j, g) \/ Rearm(j, g)
           \/ ClaimAttempt(j, t, g) \/ ClaimExhausted(j, t, g) \/ Takeover(j, t, g)
           \/ ExpireLease(j) \/ Release(j, t) \/ DeferCleanup(j, t)
           \/ DeferAiCapacity(j, t) \/ ContinueScheduler(j, t)
           \/ RequestCleanup(j, t, c) \/ FailRequest(j, t)
           \/ ReserveRun(j, t) \/ StartRun(j, t) \/ FinishRun(j, t) \/ RejectRun(j, t)
           \/ SettleRun(j) \/ ResolveStart(j)
    PROVE  NothingDone
<1>1. CASE UNCHANGED <<outcome, status, manifests>>
  BY <1>1 DEF NothingDone
<1>2. CASE Rearm(j, g) \/ Release(j, t) \/ DeferCleanup(j, t) \/ DeferAiCapacity(j, t)
           \/ ContinueScheduler(j, t)
  <2>1. Unclaim(j) /\ UNCHANGED <<outcome, manifests>>
    BY <1>2 DEF Rearm, Release, DeferCleanup, DeferAiCapacity, ContinueScheduler
  <2>. QED
    BY <2>1 DEF Unclaim, NothingDone, TypeOK
<1>3. CASE ClaimAttempt(j, t, g) \/ ClaimExhausted(j, t, g)
  <2>1. status' = [status EXCEPT ![j] = "processing"] /\ UNCHANGED <<outcome, manifests>>
    BY <1>3 DEF ClaimAttempt, ClaimExhausted, Lease
  <2>. QED
    BY <2>1, DagAssumption DEF NothingDone, TypeOK
<1>4. CASE FailRequest(j, t)
  BY <1>4, DagAssumption DEF FailRequest, NothingDone, TypeOK
<1>5. CASE \/ Reserve(j) \/ MarkDispatched(j, g) \/ Takeover(j, t, g) \/ ExpireLease(j)
           \/ RequestCleanup(j, t, c)
           \/ ReserveRun(j, t) \/ StartRun(j, t) \/ FinishRun(j, t) \/ RejectRun(j, t)
           \/ SettleRun(j) \/ ResolveStart(j)
  BY <1>1, <1>5
  DEF Reserve, MarkDispatched, Takeover, ExpireLease, RequestCleanup, ReserveRun, StartRun,
      FinishRun, RejectRun, SettleRun, ResolveStart, rowVars
<1>. QED
  BY <1>2, <1>3, <1>4, <1>5

(* No step of the processes completes a job whose work is not done.        *)
LEMMA WholeStep ==
    ASSUME IInv, ProcShape, WorldTypes, WholeInv, PipelineNext
    PROVE  WholeInv'
<1>1. TypeOK /\ SettledKept
  BY LedgerStep, SettledStep DEF IInv
<1>2. ASSUME NothingDone, \A q \in Procs : Ready(q)
      PROVE  WholeInv'
  BY <1>1, <1>2, WholeKept
<1>3. ASSUME NEW p \in Procs, Stop(p)
      PROVE  \A q \in Procs : Ready(q)
  BY <1>3 DEF Stop, Idle, Doing, Ready, ProcShape
<1>4. ASSUME NEW p \in Procs, NEW point, point \notin {"save", "reload", "fanout"}, Goto(p, point)
      PROVE  \A q \in Procs : Ready(q)
  BY <1>4 DEF Goto, Ready, ProcShape, Records
<1>5. ASSUME NEW p \in Procs, NEW r, r.pc \notin {"save", "reload", "fanout"},
             proc' = [proc EXCEPT ![p] = r]
      PROVE  \A q \in Procs : Ready(q)
  BY <1>5 DEF Ready, ProcShape
<1>6. ASSUME UNCHANGED ledgerVars
      PROVE  NothingDone
  BY <1>6 DEF NothingDone, ledgerVars, rowVars
<1>7. ASSUME NEW p \in Procs, Resume(p)
      PROVE  WholeInv'
  <2> DEFINE j == proc[p].job
  <2>1. j \in Jobs /\ UNCHANGED ledgerVars
    BY <1>7 DEF Resume, At, ProcShape, Shaped
  <2>2. /\ \A q \in Procs : q # p => proc'[q] = proc[q]
        /\ proc'[p].job = j /\ proc'[p].pc = ResumePoint(j)
    BY <1>7 DEF Resume, ProcShape, Records
  <2>3. /\ ResumePoint(j) # "reload"
        /\ ResumePoint(j) = "fanout" => j \in manifests
        /\ ResumePoint(j) = "save" => j \notin PaidJobs
    BY <2>1, ResumePoints
  <2>. HIDE DEF j
  <2>4. \A q \in Procs : Ready(q)
    BY <2>1, <2>2, <2>3 DEF Ready, WholeInv, ledgerVars, runVars
  <2>. QED
    BY <2>1, <2>4, <1>2, <1>6
<1>8. ASSUME NEW p \in Procs, NEW j \in Jobs \ {Finalizer}, NEW t, Checkpoint(j, t),
             j \in PaidJobs => runStatus[j] = "terminal",
             \A q \in Procs : q # p => proc'[q] = proc[q],
             proc'[p].job = j
      PROVE  WholeInv'
  <2>1. manifests' = manifests \cup {j} /\ UNCHANGED <<outcome, status, runStatus>>
    BY <1>8 DEF Checkpoint, rowVars, runVars
  <2>. QED
    BY <1>8, <2>1 DEF WholeInv
<1>9. ASSUME NEW p \in Procs, RunBootstrap(p)
      PROVE  WholeInv'
  <2>1. proc'[p].job = Bootstrap /\ \A q \in Procs : q # p => proc'[q] = proc[q]
    BY <1>9 DEF RunBootstrap, At, ProcShape, Shaped, Records
  <2>. QED
    BY <2>1, <1>8, <1>9, DagAssumption, LedgerAssumption DEF RunBootstrap
<1>10. ASSUME NEW p \in Procs, Save(p)
       PROVE  WholeInv'
  <2> DEFINE j == proc[p].job
  <2>1. /\ j \in Jobs \ {Finalizer} /\ Checkpoint(j, proc[p].token)
        /\ j \in PaidJobs => runStatus[j] = "terminal"
    BY <1>10 DEF Save, Checkpoint, At, ProcShape, Shaped, WholeInv
  <2>2. proc'[p].job = j /\ \A q \in Procs : q # p => proc'[q] = proc[q]
    BY <1>10 DEF Save, Goto, ProcShape, Records
  <2>. HIDE DEF j
  <2>. QED
    BY <2>1, <2>2, <1>8
<1>11. ASSUME NEW p \in Procs, Reload(p)
       PROVE  WholeInv'
  <2>1. UNCHANGED ledgerVars /\ At(p, "reload")
    BY <1>11 DEF Reload
  <2>2. /\ \A q \in Procs : q # p => proc'[q] = proc[q]
        /\ proc'[p].job = proc[p].job
    BY <1>11 DEF Reload, ProcShape, Records
  <2>3. \A q \in Procs : Ready(q)
    BY <2>1, <2>2 DEF Ready, At, WholeInv, ledgerVars, runVars
  <2>. QED
    BY <2>1, <2>3, <1>2, <1>6
<1>12. ASSUME NEW p \in Procs, Fanout(p)
       PROVE  WholeInv'
  <2> DEFINE j == proc[p].job
  <2>1. /\ j \in Jobs /\ j \in manifests
        /\ CompleteAndFanout(j, proc[p].token, proc[p].plan)
    BY <1>12 DEF Fanout, At, ProcShape, Shaped, WholeInv
  <2>2. /\ \A q \in Procs : q # p => proc'[q] = proc[q]
        /\ proc'[p].pc = "ack"
    BY <1>12 DEF Fanout, ProcShape, Records
  <2>. HIDE DEF j
  <2>3. /\ UNCHANGED <<outcome, manifests, runStatus>>
        /\ \A k \in Jobs : k # j /\ status'[k] = "completed" => status[k] = "completed"
        /\ \A k \in Jobs : status'[k] = "absent" => status[k] = "absent"
        /\ status'[j] = "completed"
    BY <2>1 DEF CompleteAndFanout, runVars
  <2>4. outcome' = "completed" => status'[Bootstrap] = "completed"
    BY <1>1, <2>3, DagAssumption DEF WholeInv, SettledKept
  <2>. QED
    BY <2>1, <2>2, <2>3, <2>4, DagAssumption DEF WholeInv
<1>13. ASSUME NEW p \in Procs, Publish(p)
       PROVE  WholeInv'
  <2>1. /\ UNCHANGED <<manifests, runStatus>>
        /\ \A j \in Jobs \ {Finalizer} : status[j] \in {"absent", "completed"}
        /\ \A j \in Jobs \ {Finalizer} : status'[j] = status[j]
    BY <1>1, <1>13 DEF Publish, CompleteResult, ResultReady, JobsReady, TypeOK, runVars
  <2>2. status'[Bootstrap] = "completed"
    BY <2>1, DagAssumption DEF WholeInv
  <2>3. \A q \in Procs : proc'[q].pc \in {"save", "reload", "fanout"} => proc'[q] = proc[q]
    BY <1>13 DEF Publish, Goto, ProcShape, Records
  <2>. QED
    BY <2>1, <2>2, <2>3 DEF WholeInv
<1>14. ASSUME NEW p \in Procs, Bind(p)
       PROVE  WholeInv'
  <2> DEFINE j == proc[p].job
  <2>1. /\ j \in Jobs /\ ReserveRun(j, proc[p].token)
    BY <1>14 DEF Bind, At, ProcShape, Shaped
  <2>2. /\ \A q \in Procs : q # p => proc'[q] = proc[q]
        /\ proc'[p].job = j /\ proc'[p].pc = AfterBind(j)
    BY <1>14 DEF Bind, Goto, ProcShape, Records
  <2>3. /\ AfterBind(j) \in {"post", "poll", "save", "cleanup"}
        /\ AfterBind(j) = "save" => runStatus[j] = "terminal"
    BY DEF AfterBind
  <2>4. NothingDone
    BY <1>1, <2>1, CallsCompleteNothing
  <2>5. runStatus[j] = "terminal" => runStatus'[j] = "terminal"
    BY <1>1, <2>1 DEF SettledKept
  <2>. HIDE DEF j
  <2>6. \A q \in Procs : Ready(q)
    BY <2>2, <2>3, <2>5 DEF Ready
  <2>. QED
    BY <2>4, <2>6, <1>2
<1>15. ASSUME NEW p \in Procs, Poll(p)
       PROVE  WholeInv'
  <2> DEFINE j == proc[p].job
  <2>1. j \in Jobs
    BY <1>15 DEF Poll, At, ProcShape, Shaped
  <2>2. runStatus'[j] = "terminal"
    BY <1>1, <1>15, <2>1 DEF Poll, FinishRun, TypeOK, ledgerVars, runVars
  <2>3. /\ \A q \in Procs : q # p => proc'[q] = proc[q]
        /\ proc'[p].job = j /\ proc'[p].pc \in {"save", "cleanup"}
    BY <1>15 DEF Poll, Goto, ProcShape, Records
  <2>4. NothingDone
    BY <1>1, <1>6, <1>15, <2>1, CallsCompleteNothing DEF Poll
  <2>. HIDE DEF j
  <2>5. \A q \in Procs : Ready(q)
    BY <2>2, <2>3 DEF Ready
  <2>. QED
    BY <2>4, <2>5, <1>2
<1>16. ASSUME NEW p \in Procs, Retry(p), proc[p].job \in Jobs
       PROVE  WholeInv'
  <2>1. CASE Stop(p) /\ Release(proc[p].job, proc[p].token)
    BY <2>1, <1>1, <1>2, <1>3, <1>16, CallsCompleteNothing
  <2>2. CASE /\ proc' = [proc EXCEPT ![p].pc = "cleanup", ![p].code = "exhausted"]
             /\ UNCHANGED ledgerVars
    <3>1. \A q \in Procs : Ready(q)
      BY <2>2 DEF Ready, ProcShape, Records
    <3>. QED
      BY <2>2, <3>1, <1>2, <1>6
  <2>. QED
    BY <1>16, <2>1, <2>2 DEF Retry
<1>17. ASSUME NEW p \in Procs, Delivery(p)
       PROVE  WholeInv'
  <2>1. PICK name \in tasks : DeliverClaim(p, name[1], name[2]) \/ DeliverTakeover(p, name[1], name[2])
    BY <1>17 DEF Delivery
  <2>2. name[1] \in Jobs
    BY DEF WorldTypes
  <2>3. Claimed(p, name[1], name[2], Fresh(name[1]))
    BY <2>1 DEF DeliverClaim, DeliverTakeover
  <2>4. \A q \in Procs : Ready(q)
    BY <2>3, <1>5 DEF Claimed, Doing
  <2>5. NothingDone
    BY <1>1, <2>1, <2>2, CallsCompleteNothing DEF DeliverClaim, DeliverTakeover
  <2>. QED
    BY <2>4, <2>5, <1>2
<1>18. ASSUME NEW p \in Procs, Handler(p)
       PROVE  WholeInv'
  <2>1. CASE PostAccepted(p) \/ AttachFenced(p)
    BY <2>1, <1>2, <1>4, <1>6 DEF PostAccepted, AttachFenced, AbandonRun
  <2>2. CASE Attach(p) \/ Cleanup(p) \/ FinishFailure(p)
    <3>1. proc[p].job \in Jobs
      BY <2>2 DEF Attach, Cleanup, FinishFailure, At, ProcShape, Shaped
    <3>2. \A q \in Procs : Ready(q)
      BY <2>2, <1>4 DEF Attach, Cleanup, FinishFailure
    <3>. QED
      BY <2>2, <3>1, <3>2, <1>1, <1>2, CallsCompleteNothing DEF Attach, Cleanup, FinishFailure
  <2>3. CASE Ack(p) \/ LostClaim(p) \/ CleanupFenced(p)
    BY <2>3, <1>2, <1>3, <1>6 DEF Ack, LostClaim, CleanupFenced
  <2>4. CASE CleanupBlocked(p)
    <3>1. proc[p].job \in Jobs
      BY <2>4 DEF CleanupBlocked, At, ProcShape, Shaped
    <3>. QED
      BY <2>4, <3>1, <1>1, <1>2, <1>3, CallsCompleteNothing DEF CleanupBlocked
  <2>5. CASE Refused(p)
    <3>1. proc[p].job \in Jobs
      BY <2>5 DEF Refused, ProcShape, Shaped
    <3>. QED
      BY <2>5, <3>1, <1>16 DEF Refused
  <2>6. ASSUME NEW k \in Jobs, SettleRuns(p, k) PROVE WholeInv'
    BY <2>6, <1>1, <1>2, CallsCompleteNothing DEF SettleRuns, AbortRun, Ready
  <2>. QED
    BY <1>18, <1>7, <1>9, <1>10, <1>11, <1>12, <1>13, <1>14, <1>15, <2>1, <2>2, <2>3, <2>4, <2>5,
       <2>6
    DEF Handler
<1>19. ASSUME NEW p \in Procs, Dispatcher(p)
       PROVE  WholeInv'
  <2>1. ASSUME NEW j \in Jobs, DispatchNew(p, j) \/ DispatchReserved(p, j) \/ SweepLookup(p, j)
        PROVE  WholeInv'
    <3>1. \A q \in Procs : Ready(q)
      BY <2>1, <1>5 DEF DispatchNew, DispatchReserved, SweepLookup, Dispatching, Doing
    <3>. QED
      BY <2>1, <3>1, <1>1, <1>2, <1>6, CallsCompleteNothing
      DEF DispatchNew, DispatchReserved, SweepLookup
  <2>2. CASE Create(p)
    BY <2>2, <1>2, <1>4, <1>6 DEF Create
  <2>3. CASE Mark(p) \/ RearmLost(p)
    <3>1. proc[p].job \in Jobs
      BY <2>3 DEF Mark, RearmLost, At, ProcShape, Shaped
    <3>2. \A q \in Procs : Ready(q)
      BY <2>3, <1>3, <1>5 DEF Mark, RearmLost, Dispatching, Doing
    <3>3. NothingDone
      BY <2>3, <3>1, <1>1, <1>6, CallsCompleteNothing DEF Mark, RearmLost
    <3>. QED
      BY <3>2, <3>3, <1>2
  <2>. QED
    BY <1>19, <2>1, <2>2, <2>3 DEF Dispatcher
<1>20. ASSUME NEW p \in Procs, Faults(p)
       PROVE  WholeInv'
  <2>1. CASE PostUnanswered(p) \/ AttachFails(p) \/ PermanentError(p) \/ Crash(p)
    BY <2>1, <1>2, <1>3, <1>4, <1>6
    DEF PostUnanswered, AttachFails, AbandonRun, PermanentError, Crash
  <2>2. CASE PostRejected(p) \/ CapacityWait(p) \/ Continuation(p)
    <3>1. proc[p].job \in Jobs
      BY <2>2 DEF PostRejected, CapacityWait, Continuation, At, ProcShape, Shaped
    <3>2. \A q \in Procs : Ready(q)
      BY <2>2, <1>3, <1>4 DEF PostRejected, CapacityWait, Continuation
    <3>. QED
      BY <2>2, <3>1, <3>2, <1>1, <1>2, CallsCompleteNothing
      DEF PostRejected, CapacityWait, Continuation
  <2>3. CASE TransientError(p)
    <3>1. proc[p].job \in Jobs
      BY <2>3 DEF TransientError, HandlerPoints, ProcShape, Shaped
    <3>. QED
      BY <2>3, <3>1, <1>16 DEF TransientError
  <2>. QED
    BY <1>20, <2>1, <2>2, <2>3 DEF Faults
<1>21. ASSUME NEW name \in tasks, DeliverStale(name[1], name[2]) \/ DropTask(name)
       PROVE  WholeInv'
  BY <1>21, <1>2, <1>6 DEF DeliverStale, DropTask, Ready
<1>22. ASSUME NEW j \in Jobs, SweepSettle(j) \/ ActorEnds(j) \/ Expire(j) \/ OperatorResolves(j)
       PROVE  WholeInv'
  BY <1>22, <1>1, <1>2, <1>6, CallsCompleteNothing
  DEF SweepSettle, AbortRun, ActorEnds, Expire, OperatorResolves, Ready
<1>. QED
  BY <1>17, <1>18, <1>19, <1>20, <1>21, <1>22 DEF PipelineNext

-----------------------------------------------------------------------------
(* The invariant of the pipeline, and what follows from it.                *)
LEMMA InitPInv == PipelineInit => PInv
<1>. SUFFICES ASSUME PipelineInit PROVE PInv
  OBVIOUS
<1>1. proc = [p \in Procs |-> Idle] /\ Shaped(Idle)
  BY LedgerAssumption
  DEF PipelineInit, Shaped, Records, Idle, Doing, Points, HandlerPoints, Claiming, Working, Codes
<1>2. ProcShape
  BY <1>1 DEF ProcShape, Shaped
<1>3. \A p \in Procs : proc[p].pc = "idle" /\ proc[p].token = NoToken
  BY <1>1 DEF Idle, Doing
<1>4. WorldTypes
  BY DEF PipelineInit, WorldTypes
<1>5. StartsInv
  BY <1>3 DEF PipelineInit, Init, StartsInv, AtMostOnePaidStart, At
<1>6. ClaimsInv
  BY <1>3, LedgerAssumption
  DEF PipelineInit, Init, ClaimsInv, OwnerNeverCompletes, OwnIntent, NoIntent, Working,
      HandlerPoints
<1>7. WholeInv
  BY <1>3, DagAssumption DEF PipelineInit, Init, WholeInv
<1>8. OutboxInv
  BY <1>3 DEF PipelineInit, Init, OutboxInv, OutboxAgreesWithQueue, At
<1>. QED
  BY <1>2, <1>4, <1>5, <1>6, <1>7, <1>8 DEF PInv

(* Every step of the processes, the sweep and the environment keeps it.    *)
LEMMA PipelineStep ==
    ASSUME IInv, PInv, [PipelineNext]_pipelineVars
    PROVE  IInv' /\ PInv'
<1>1. [Next]_ledgerVars
  BY LedgerStep DEF IInv, PInv
<1>2. IInv'
  BY <1>1, TypeStep, RowChecksStep, DependencyStep, OutcomeStep, ChargesStep DEF IInv
<1>3. CASE PipelineNext
  <2>1. ProcShape' /\ WorldTypes'
    BY <1>3, ShapeStep, WorldStep DEF IInv, PInv
  <2>2. StartsInv' /\ ClaimsInv'
    BY <1>3, StartsStep, ClaimsStep DEF IInv, PInv
  <2>3. WholeInv' /\ OutboxInv'
    BY <1>3, WholeStep, OutboxStep DEF IInv, PInv
  <2>. QED
    BY <1>2, <2>1, <2>2, <2>3 DEF PInv
<1>4. CASE UNCHANGED pipelineVars
  <2>. USE <1>4 DEF pipelineVars, ledgerVars, rowVars, runVars
  <2>1. ProcShape' /\ WorldTypes'
    BY DEF PInv, ProcShape, WorldTypes
  <2>2. StartsInv' /\ ClaimsInv'
    BY DEF PInv, StartsInv, AtMostOnePaidStart, At, Unsettled, ClaimsInv, OwnerNeverCompletes,
           OwnIntent, Holds
  <2>3. WholeInv' /\ OutboxInv'
    BY DEF PInv, WholeInv, OutboxInv, OutboxAgreesWithQueue, At
  <2>. QED
    BY <1>2, <2>1, <2>2, <2>3 DEF PInv
<1>. QED
  BY <1>3, <1>4

(* The processes implement the ledger: what every caller of the database   *)
(* functions may do, they may do and nothing else.                         *)
THEOREM PipelineImplementsLedger == PipelineSpec => Spec
<1>1. PipelineInit => Init /\ IInv /\ PInv
  BY InitIInv, InitPInv DEF PipelineInit
<1>2. IInv /\ PInv /\ [PipelineNext]_pipelineVars => IInv' /\ PInv' /\ [Next]_ledgerVars
  BY PipelineStep, LedgerStep DEF IInv, PInv
<1>. QED
  BY <1>1, <1>2, PTL DEF PipelineSpec, Spec

(* The inductive invariant of the whole pipeline.                          *)
THEOREM PipelineInvariant == PipelineSpec => [](IInv /\ PInv)
<1>1. PipelineInit => IInv /\ PInv
  BY InitIInv, InitPInv DEF PipelineInit
<1>. QED
  BY <1>1, PipelineStep, PTL DEF PipelineSpec

(* Processes, queue and Actors keep their types.                           *)
THEOREM PipelineTypes == PipelineSpec => []PipelineTypeOK
<1>1. IInv /\ PInv => PipelineTypeOK
  BY DEF IInv, PInv, ProcShape, Records, WorldTypes, PipelineTypeOK
<1>. QED
  BY <1>1, PipelineInvariant, PTL

(* Apify accepts at most one start of an operation, however many processes *)
(* deliver, crash and repeat its job.                                      *)
THEOREM PipelineAtMostOnePaidStart == PipelineSpec => []AtMostOnePaidStart
<1>1. PInv => AtMostOnePaidStart
  BY DEF PInv, StartsInv
<1>. QED
  BY <1>1, PipelineInvariant, PTL

(* When complete_result or fail_request ended the request, no Actor of it  *)
(* is running, started by whichever process and answered or not.           *)
THEOREM PipelineNoActorOutlivesRequest == PipelineSpec => []NoActorOutlivesRequest
<1>1. IInv /\ PInv => NoActorOutlivesRequest
  BY DEF IInv, PInv, StartsInv, WorldTypes, NothingChargesAfterTheEnd, NoActorOutlivesRequest
<1>. QED
  BY <1>1, PipelineInvariant, PTL

(* A job that owns a failure is never completed by another handler of it.  *)
THEOREM PipelineOwnerNeverCompletes == PipelineSpec => []OwnerNeverCompletes
<1>1. PInv => OwnerNeverCompletes
  BY DEF PInv, ClaimsInv
<1>. QED
  BY <1>1, PipelineInvariant, PTL

(* What complete_result publishes has every job of the graph, every        *)
(* checkpoint and every paid run behind it: the jobs that are completed    *)
(* contain what they require, so with the finalizer they are all jobs.     *)
THEOREM PipelinePublishedIsWhole == PipelineSpec => []PublishedIsWhole
<1>1. ASSUME IInv, PInv, outcome = "completed"
      PROVE  /\ Completed = Jobs /\ manifests = Jobs \ {Finalizer}
             /\ \A j \in PaidJobs : runStatus[j] = "terminal"
  <2>1. Finalizer \in Completed /\ Bootstrap \in Completed
    BY <1>1, DagAssumption DEF IInv, OutcomeAgrees, PInv, WholeInv, Completed
  <2>2. Completed \in SUBSET Jobs /\ \A j \in Completed : Requires[j] \subseteq Completed
    BY <1>1 DEF IInv, DependencyOrder, Completed
  <2>3. Completed = Jobs
    BY <2>1, <2>2, PipelineAssumption
  <2>4. manifests = Jobs \ {Finalizer}
    BY <1>1, <2>3 DEF IInv, TypeOK, PInv, WholeInv, Completed
  <2>. QED
    BY <1>1, <2>3, <2>4, LedgerAssumption DEF PInv, WholeInv
<1>2. IInv /\ PInv => PublishedIsWhole
  BY <1>1 DEF PublishedIsWhole
<1>. QED
  BY <1>2, PipelineInvariant, PTL

(* A row that counts as enqueued has had its task, and no task is ahead of *)
(* its row, wherever a dispatcher or the sweep crashed.                    *)
THEOREM PipelineOutboxAgreesWithQueue == PipelineSpec => []OutboxAgreesWithQueue
<1>1. PInv => OutboxAgreesWithQueue
  BY DEF PInv, OutboxInv
<1>. QED
  BY <1>1, PipelineInvariant, PTL

(* A job exists only after everything it requires, also with the plans     *)
(* that the processes make of an unlocked read.                            *)
THEOREM PipelineDependencyOrder == PipelineSpec => []DependencyOrder
<1>1. IInv => DependencyOrder
  BY DEF IInv
<1>. QED
  BY <1>1, PipelineInvariant, PTL
=============================================================================
