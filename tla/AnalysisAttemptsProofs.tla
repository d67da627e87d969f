----------------------- MODULE AnalysisAttemptsProofs -----------------------
(***************************************************************************)
(* Proof that attempts are for failures (AttemptsAreForFailures), for any  *)
(* graph, any number of processes and any bounds.                          *)
(*                                                                         *)
(* attempt_count grows with a claim and shrinks with a refund.  While no   *)
(* failure is charged, a claim is lost by a crash, a stall or an error,    *)
(* each counted, or is given back with its attempt, or settles the job; so *)
(* a job whose claim nobody holds has not paid more than what was counted, *)
(* and one more attempt at most is paid for the claim that somebody holds. *)
(***************************************************************************)
EXTENDS AnalysisPipelineProofs

Settled == {"completed", "failed", "cancelled"}

Spent ==
    Used("crashes", MaxCrashes) + Used("stalls", MaxStalls) + Used("faults", MaxFaults)

LeftTypes ==
    /\ left \in [crashes : Nat, drops : Nat, stalls : Nat, faults : Nat, waits : Nat]
    /\ left.crashes <= MaxCrashes /\ left.stalls <= MaxStalls /\ left.faults <= MaxFaults

(* A process acts on the live claim of the job.                            *)
Held(j) ==
    \E p \in Procs :
       proc[p].pc \in Claiming /\ proc[p].job = j /\ Holds(j, proc[p].token)

Paid(j) ==
    /\ attempts[j] <= Spent + 1
    /\ Held(j) \/ status[j] \in Settled \/ attempts[j] <= Spent

AttemptsInv ==
    /\ LeftTypes
    /\ intent = NoIntent => \A j \in Jobs : Paid(j)

(* Crashes, stalls and errors are counted, and nothing else is.            *)
LEMMA SpendCounts ==
    ASSUME LeftTypes
    PROVE  /\ Spent \in Nat
           /\ Spend("crashes") \/ Spend("stalls") \/ Spend("faults")
                 => LeftTypes' /\ Spent' = Spent + 1
           /\ Spend("drops") \/ Spend("waits") \/ UNCHANGED left
                 => LeftTypes' /\ Spent' = Spent
<1>. USE PipelineAssumption DEF LeftTypes, Spent, Used, Spend
<1>1. Spent \in Nat
  OBVIOUS
<1>2. ASSUME Spend("crashes") PROVE LeftTypes' /\ Spent' = Spent + 1
  BY <1>2
<1>3. ASSUME Spend("stalls") PROVE LeftTypes' /\ Spent' = Spent + 1
  BY <1>3
<1>4. ASSUME Spend("faults") PROVE LeftTypes' /\ Spent' = Spent + 1
  BY <1>4
<1>5. ASSUME Spend("drops") \/ Spend("waits") \/ UNCHANGED left PROVE LeftTypes' /\ Spent' = Spent
  BY <1>5
<1>. QED
  BY <1>1, <1>2, <1>3, <1>4, <1>5

(* A claim stays held while its row and its holder stay.                   *)
LEMMA HeldKept ==
    ASSUME UNCHANGED <<status, lease, live>>,
           \A q \in Procs : proc[q].pc \in Claiming =>
              /\ proc'[q].pc \in Claiming
              /\ proc'[q].job = proc[q].job /\ proc'[q].token = proc[q].token
    PROVE  \A j \in Jobs : Held(j) => Held(j)'
BY DEF Held, Holds

(* A step that takes no attempt keeps the account, if a claim that it      *)
(* loses is counted.                                                       *)
LEMMA PaidKept ==
    ASSUME TypeOK, AttemptsInv, intent' = NoIntent => intent = NoIntent,
           LeftTypes', UNCHANGED attempts, Spent \in Nat,
           \/ Spent' = Spent + 1
           \/ /\ Spent' = Spent
              /\ intent = NoIntent =>
                    \A j \in Jobs : Held(j) => Held(j)' \/ status'[j] \in Settled,
           \A j \in Jobs : status[j] \in Settled => status'[j] \in Settled
    PROVE  AttemptsInv'
<1>1. ASSUME intent' = NoIntent, NEW j \in Jobs
      PROVE  Paid(j)'
  <2>1. Paid(j) /\ attempts[j] \in Nat
    BY <1>1 DEF AttemptsInv, TypeOK
  <2>2. CASE Spent' = Spent + 1
    BY <2>1, <2>2 DEF Paid
  <2>3. CASE Spent' = Spent /\ (Held(j) => Held(j)' \/ status'[j] \in Settled)
    BY <2>1, <2>3 DEF Paid
  <2>. QED
    BY <1>1, <2>2, <2>3
<1>. QED
  BY <1>1 DEF AttemptsInv

(* A wait gives back the attempt of the claim that it ends.                *)
LEMMA RefundKept ==
    ASSUME TypeOK, ProcShape, AttemptsInv, intent' = NoIntent => intent = NoIntent,
           LeftTypes', Spent \in Nat, Spent' = Spent,
           NEW p \in Procs, NEW j \in Jobs, proc[p].job = j, Unclaim(j), Refund(j),
           \A q \in Procs : q # p => proc'[q] = proc[q]
    PROVE  AttemptsInv'
<1>1. /\ attempts \in [Jobs -> 0..MaxAttempts] /\ attempts[j] >= 1
      /\ attempts' = [attempts EXCEPT ![j] = attempts[j] - 1]
  BY DEF Refund, TypeOK
<1>2. \A k \in Jobs : k # j => (Held(k) => Held(k)') /\ status'[k] = status[k]
  BY DEF Held, Holds, Unclaim, TypeOK
<1>3. ASSUME intent' = NoIntent, NEW k \in Jobs
      PROVE  Paid(k)'
  <2>1. Paid(k)
    BY <1>3 DEF AttemptsInv
  <2>2. CASE k = j
    <3>1. attempts'[k] = attempts[k] - 1 /\ attempts[k] \in Nat
      BY <1>1, <2>2
    <3>. QED
      BY <2>1, <3>1 DEF Paid
  <2>3. CASE k # j
    <3>1. attempts'[k] = attempts[k]
      BY <1>1, <2>3
    <3>. QED
      BY <2>1, <2>3, <3>1, <1>2 DEF Paid
  <2>. QED
    BY <2>2, <2>3
<1>. QED
  BY <1>3 DEF AttemptsInv

(* A claim is paid by an attempt, and nobody held the job before.          *)
LEMMA ClaimPaid ==
    ASSUME TypeOK, ProcShape, AttemptsInv, intent' = NoIntent => intent = NoIntent,
           LeftTypes', Spent \in Nat, Spent' = Spent,
           NEW p \in Procs, NEW name \in tasks, name[1] \in Jobs, DeliverClaim(p, name[1], name[2])
    PROVE  AttemptsInv'
<1> DEFINE j == name[1]
<1>1. CASE ClaimExhausted(j, Fresh(j), name[2])
  BY <1>1 DEF ClaimExhausted, AttemptsInv, NoIntent
<1>2. CASE ClaimAttempt(j, Fresh(j), name[2])
  <2>1. /\ j \in Jobs
        /\ status[j] = "pending" \/ (status[j] = "processing" /\ ~live[j])
        /\ status' = [status EXCEPT ![j] = "processing"]
        /\ lease' = [lease EXCEPT ![j] = Fresh(j)] /\ live' = [live EXCEPT ![j] = TRUE]
        /\ attempts' = [attempts EXCEPT ![j] = @ + 1]
    BY <1>2 DEF ClaimAttempt, Claimable, Lease
  <2>2. /\ \A q \in Procs : q # p => proc'[q] = proc[q]
        /\ proc'[p].job = j /\ proc'[p].token = Fresh(j) /\ proc'[p].pc = "claimed"
        /\ proc[p].pc = "idle"
    BY DEF DeliverClaim, Claimed, Doing, ProcShape, At
  <2>. HIDE DEF j
  <2>3. ~Held(j) /\ status[j] \notin Settled
    BY <2>1 DEF Held, Holds, Settled
  <2>4. Held(j)'
    BY <2>1, <2>2 DEF Held, Holds, Claiming, TypeOK
  <2>5. \A k \in Jobs : k # j => (Held(k) => Held(k)') /\ status'[k] = status[k]
    <3>1. "idle" \notin Claiming
      BY DEF Claiming, Working, HandlerPoints
    <3>. QED
      BY <2>1, <2>2, <3>1 DEF Held, Holds, TypeOK
  <2>6. ASSUME intent' = NoIntent, NEW k \in Jobs
        PROVE  Paid(k)'
    <3>1. Paid(k) /\ attempts[k] \in Nat
      BY <2>6 DEF AttemptsInv, TypeOK
    <3>2. CASE k = j
      <4>1. attempts'[k] = attempts[k] + 1
        BY <2>1, <3>2 DEF TypeOK
      <4>. QED
        BY <2>3, <2>4, <3>1, <3>2, <4>1 DEF Paid
    <3>3. CASE k # j
      <4>1. attempts'[k] = attempts[k]
        BY <2>1, <3>3 DEF TypeOK
      <4>. QED
        BY <2>5, <3>1, <3>3, <4>1 DEF Paid
    <3>. QED
      BY <3>2, <3>3
  <2>. QED
    BY <2>6 DEF AttemptsInv
<1>. QED
  BY <1>1, <1>2 DEF DeliverClaim

(* No step makes a job pay for anything but a failure.                     *)
LEMMA AttemptsStep ==
    ASSUME IInv, PInv, AttemptsInv, PipelineNext
    PROVE  AttemptsInv'
<1>1. TypeOK /\ RowChecks /\ OutcomeAgrees /\ ProcShape /\ WorldTypes
  BY DEF IInv, PInv
<1>2. [Next]_ledgerVars
  BY <1>1, LedgerStep
<1>3. SettledKept /\ FailureKept
  BY <1>1, <1>2, SettledStep, FailureStep
<1>4. \A j \in Jobs : status[j] \in Settled => status'[j] \in Settled
  BY <1>3 DEF SettledKept, Settled
<1>5. intent' = NoIntent => intent = NoIntent
  BY <1>1, <1>3, LedgerAssumption DEF FailureKept, TypeOK, Intents, NoIntent
<1>6. Spent \in Nat /\ LeftTypes
  BY SpendCounts DEF AttemptsInv
<1>7. ASSUME UNCHANGED attempts, Spend("crashes") \/ Spend("stalls") \/ Spend("faults")
      PROVE  AttemptsInv'
  BY <1>1, <1>4, <1>5, <1>6, <1>7, PaidKept, SpendCounts
<1>8. ASSUME UNCHANGED attempts, UNCHANGED left \/ Spend("drops") \/ Spend("waits"),
             intent = NoIntent => \A j \in Jobs : Held(j) => Held(j)' \/ status'[j] \in Settled
      PROVE  AttemptsInv'
  BY <1>1, <1>4, <1>5, <1>6, <1>8, PaidKept, SpendCounts
<1>9. ASSUME UNCHANGED attempts, UNCHANGED left, intent.open
      PROVE  AttemptsInv'
  BY <1>8, <1>9 DEF NoIntent
<1>10. ASSUME UNCHANGED <<attempts, status, lease, live>>,
              UNCHANGED left \/ Spend("drops") \/ Spend("waits"),
              \A q \in Procs : proc[q].pc \in Claiming =>
                 /\ proc'[q].pc \in Claiming
                 /\ proc'[q].job = proc[q].job /\ proc'[q].token = proc[q].token
       PROVE  AttemptsInv'
  BY <1>8, <1>10, HeldKept
<1>11. ASSUME NEW p \in Procs, proc[p].pc \notin Claiming, \A q \in Procs : q # p => proc'[q] = proc[q]
       PROVE  \A q \in Procs : proc[q].pc \in Claiming =>
                 /\ proc'[q].pc \in Claiming
                 /\ proc'[q].job = proc[q].job /\ proc'[q].token = proc[q].token
  BY <1>11
<1>12. ASSUME NEW p \in Procs, NEW point \in Claiming, Goto(p, point)
       PROVE  \A q \in Procs : proc[q].pc \in Claiming =>
                 /\ proc'[q].pc \in Claiming
                 /\ proc'[q].job = proc[q].job /\ proc'[q].token = proc[q].token
  BY <1>1, <1>12 DEF Goto, ProcShape, Records
<1>13. ASSUME NEW p \in Procs, Delivery(p)
       PROVE  AttemptsInv'
  <2>1. PICK name \in tasks : DeliverClaim(p, name[1], name[2]) \/ DeliverTakeover(p, name[1], name[2])
    BY <1>13 DEF Delivery
  <2>2. name[1] \in Jobs
    BY <1>1 DEF WorldTypes
  <2>3. CASE DeliverClaim(p, name[1], name[2])
    <3>1. LeftTypes' /\ Spent' = Spent
      BY <1>6, <2>3, SpendCounts DEF DeliverClaim
    <3>. QED
      BY <1>1, <1>5, <1>6, <2>2, <2>3, <3>1, ClaimPaid
  <2>4. CASE DeliverTakeover(p, name[1], name[2])
    BY <1>9, <2>4 DEF DeliverTakeover, Takeover, OwnIntent
  <2>. QED
    BY <2>1, <2>3, <2>4
<1>14. ASSUME NEW p \in Procs, LostClaim(p) \/ CleanupFenced(p)
       PROVE  AttemptsInv'
  <2>1. /\ ~(Active /\ Holds(proc[p].job, proc[p].token))
        /\ \A q \in Procs : q # p => proc'[q] = proc[q]
        /\ UNCHANGED ledgerVars /\ UNCHANGED left
    BY <1>1, <1>14 DEF LostClaim, CleanupFenced, Stop, ProcShape
  <2>2. ASSUME NEW j \in Jobs, Held(j)
        PROVE  Held(j)'
    <3>1. PICK q \in Procs : proc[q].pc \in Claiming /\ proc[q].job = j /\ Holds(j, proc[q].token)
      BY <2>2 DEF Held
    <3>2. status[j] = "processing"
      BY <3>1 DEF Holds
    <3>3. Active
      BY <1>1, <3>2 DEF OutcomeAgrees
    <3>4. q # p
      BY <2>1, <3>1, <3>3
    <3>. QED
      BY <2>1, <3>1, <3>4 DEF Held, Holds, ledgerVars, rowVars
  <2>. QED
    BY <1>8, <2>1, <2>2 DEF ledgerVars, rowVars
<1>15. ASSUME NEW p \in Procs, Fanout(p)
       PROVE  AttemptsInv'
  <2> DEFINE j == proc[p].job
  <2>1. j \in Jobs /\ CompleteAndFanout(j, proc[p].token, proc[p].plan)
    BY <1>1, <1>15 DEF Fanout, At, ProcShape, Shaped
  <2>2. \A q \in Procs : q # p => proc'[q] = proc[q]
    BY <1>1, <1>15 DEF Fanout, ProcShape
  <2>. HIDE DEF j
  <2>3. /\ status'[j] = "completed" /\ UNCHANGED attempts
        /\ \A k \in Jobs : k # j => lease'[k] = lease[k] /\ live'[k] = live[k]
        /\ \A k \in Jobs : status[k] = "processing" /\ k # j => status'[k] = "processing"
    BY <1>1, <2>1 DEF CompleteAndFanout, Inserted, TypeOK
  <2>4. ASSUME NEW k \in Jobs, Held(k)
        PROVE  Held(k)' \/ status'[k] \in Settled
    <3>1. CASE k = j
      BY <2>3, <3>1 DEF Settled
    <3>2. CASE k # j
      <4>1. PICK q \in Procs : proc[q].pc \in Claiming /\ proc[q].job = k /\ Holds(k, proc[q].token)
        BY <2>4 DEF Held
      <4>2. q # p
        BY <3>2, <4>1 DEF j
      <4>. QED
        BY <2>2, <2>3, <3>2, <4>1, <4>2 DEF Held, Holds
    <3>. QED
      BY <3>1, <3>2
  <2>. QED
    BY <1>8, <1>15, <2>3, <2>4 DEF Fanout
<1>16. ASSUME NEW p \in Procs, Publish(p)
       PROVE  AttemptsInv'
  <2>1. /\ UNCHANGED attempts /\ UNCHANGED left
        /\ status'[Finalizer] = "completed"
        /\ \A k \in Jobs \ {Finalizer} : status[k] # "processing"
    BY <1>1, <1>16, DagAssumption DEF Publish, CompleteResult, ResultReady, JobsReady, TypeOK
  <2>2. \A k \in Jobs : Held(k) => status'[k] \in Settled
    BY <2>1 DEF Held, Holds, Settled
  <2>. QED
    BY <1>8, <2>1, <2>2
<1>17. ASSUME NEW p \in Procs, CapacityWait(p) \/ Continuation(p)
       PROVE  AttemptsInv'
  <2>1. /\ proc[p].job \in Jobs /\ Unclaim(proc[p].job) /\ Refund(proc[p].job)
        /\ Spend("waits")
    BY <1>1, <1>17
    DEF CapacityWait, Continuation, DeferAiCapacity, ContinueScheduler, At, ProcShape, Shaped
  <2>2. \A q \in Procs : q # p => proc'[q] = proc[q]
    BY <1>1, <1>17 DEF CapacityWait, Continuation, Goto, Stop, ProcShape
  <2>3. LeftTypes' /\ Spent' = Spent
    BY <1>6, <2>1, SpendCounts
  <2>. QED
    BY <1>1, <1>5, <1>6, <2>1, <2>2, <2>3, RefundKept
<1>18. ASSUME NEW p \in Procs, RunBootstrap(p) \/ Reload(p) \/ Resume(p)
       PROVE  AttemptsInv'
  <2>1. Resume(p) => ResumePoint(proc[p].job) \in Claiming
    BY <1>1, ResumePoints DEF Resume, At, ProcShape, Shaped
  <2>2. \A q \in Procs : proc[q].pc \in Claiming =>
           /\ proc'[q].pc \in Claiming
           /\ proc'[q].job = proc[q].job /\ proc'[q].token = proc[q].token
    BY <1>1, <1>18, <2>1
    DEF RunBootstrap, Reload, Resume, ProcShape, Records, Claiming, Working
  <2>. QED
    BY <1>10, <1>18, <2>2 DEF RunBootstrap, Reload, Resume, Checkpoint, ledgerVars, rowVars
<1>19. ASSUME NEW p \in Procs,
              Bind(p) \/ PostAccepted(p) \/ Attach(p) \/ AttachFenced(p) \/ Poll(p) \/ Save(p)
       PROVE  AttemptsInv'
  <2>1. \E point \in Claiming : Goto(p, point)
    BY <1>19
    DEF Bind, AfterBind, PostAccepted, Attach, AttachFenced, AbandonRun, Poll, Save, Claiming,
        Working, HandlerPoints
  <2>. QED
    BY <1>10, <1>12, <1>19, <2>1
    DEF Bind, PostAccepted, Attach, AttachFenced, AbandonRun, Poll, Save, ReserveRun, StartRun,
        FinishRun, Checkpoint, ledgerVars, rowVars
<1>20. ASSUME NEW p \in Procs, Ack(p) \/ Create(p) \/ Mark(p)
       PROVE  AttemptsInv'
  <2>1. proc[p].pc \notin Claiming /\ \A q \in Procs : q # p => proc'[q] = proc[q]
    BY <1>1, <1>20
    DEF Ack, Create, Mark, At, Stop, Goto, ProcShape, Claiming, Working, HandlerPoints
  <2>. QED
    BY <1>10, <1>11, <1>20, <2>1 DEF Ack, Create, Mark, MarkDispatched, ledgerVars, rowVars
<1>21. ASSUME NEW p \in Procs, Cleanup(p) \/ FinishFailure(p) \/ CleanupBlocked(p) \/ Refused(p)
       PROVE  AttemptsInv'
  <2>1. CASE Cleanup(p)
    <3>1. intent' # NoIntent
      BY <1>1, <2>1 DEF Cleanup, RequestCleanup, OwnIntent, NoIntent, TypeOK, Intents
    <3>. QED
      BY <1>6, <2>1, <3>1, SpendCounts DEF Cleanup, AttemptsInv
  <2>2. CASE FinishFailure(p)
    BY <1>9, <2>2 DEF FinishFailure, FailRequest, OwnIntent
  <2>3. CASE CleanupBlocked(p)
    <3>1. intent.open /\ UNCHANGED attempts
      BY <2>3 DEF CleanupBlocked, DeferCleanup
    <3>. QED
      BY <1>7, <1>9, <2>3, <3>1 DEF CleanupBlocked
  <2>4. CASE Refused(p)
    BY <1>9, <2>4 DEF Refused, Retry, Release, ledgerVars, rowVars
  <2>. QED
    BY <1>21, <2>1, <2>2, <2>3, <2>4
<1>22. ASSUME NEW p \in Procs, Handler(p)
       PROVE  AttemptsInv'
  <2>1. ASSUME NEW k \in Jobs, SettleRuns(p, k) PROVE AttemptsInv'
    BY <1>10, <2>1 DEF SettleRuns, AbortRun, SettleRun, rowVars
  <2>. QED
    BY <1>14, <1>15, <1>16, <1>18, <1>19, <1>20, <1>21, <1>22, <2>1 DEF Handler
<1>23. ASSUME NEW p \in Procs, NEW j \in Jobs,
              DispatchNew(p, j) \/ DispatchReserved(p, j) \/ SweepLookup(p, j)
       PROVE  AttemptsInv'
  <2>1. proc[p].pc \notin Claiming /\ \A q \in Procs : q # p => proc'[q] = proc[q]
    BY <1>1, <1>23
    DEF DispatchNew, DispatchReserved, SweepLookup, Dispatching, At, ProcShape, Claiming, Working,
        HandlerPoints
  <2>. QED
    BY <1>10, <1>11, <1>23, <2>1
    DEF DispatchNew, DispatchReserved, SweepLookup, Reserve, ledgerVars, rowVars
<1>24. ASSUME NEW p \in Procs, RearmLost(p)
       PROVE  AttemptsInv'
  <2> DEFINE j == proc[p].job
  <2>1. /\ proc[p].pc \notin Claiming /\ \A q \in Procs : q # p => proc'[q] = proc[q]
        /\ j \in Jobs /\ UNCHANGED left
    BY <1>1, <1>24
    DEF RearmLost, Dispatching, Stop, At, ProcShape, Shaped, Claiming, Working, HandlerPoints
  <2>2. CASE UNCHANGED ledgerVars
    BY <1>10, <1>11, <2>1, <2>2 DEF ledgerVars, rowVars
  <2>3. CASE Rearm(j, proc[p].gen)
    <3>. HIDE DEF j
    <3>1. /\ UNCHANGED attempts /\ ~Held(j)
          /\ \A k \in Jobs : k # j =>
                status'[k] = status[k] /\ lease'[k] = lease[k] /\ live'[k] = live[k]
      BY <1>1, <2>3 DEF Rearm, Claimable, Unclaim, Held, Holds, RowChecks, TypeOK
    <3>2. \A k \in Jobs : Held(k) => Held(k)'
      BY <2>1, <3>1 DEF Held, Holds
    <3>. QED
      BY <1>8, <2>1, <3>1, <3>2
  <2>. QED
    BY <1>24, <2>2, <2>3 DEF RearmLost
<1>25. ASSUME NEW p \in Procs, Faults(p)
       PROVE  AttemptsInv'
  <2>1. CASE PostUnanswered(p) \/ PostRejected(p) \/ AttachFails(p) \/ PermanentError(p)
             \/ TransientError(p) \/ Crash(p)
    <3>1. UNCHANGED attempts
      BY <2>1
      DEF PostUnanswered, PostRejected, RejectRun, AttachFails, AbandonRun, PermanentError,
          TransientError, Retry, Release, Crash, ledgerVars, rowVars
    <3>2. Spend("faults") \/ Spend("crashes")
      BY <2>1
      DEF PostUnanswered, PostRejected, AttachFails, PermanentError, TransientError, Crash
    <3>. QED
      BY <1>7, <3>1, <3>2
  <2>. QED
    BY <1>17, <1>25, <2>1 DEF Faults
<1>26. ASSUME NEW j \in Jobs, Expire(j)
       PROVE  AttemptsInv'
  <2>1. UNCHANGED <<attempts, status, lease, proc>> /\ live' = [live EXCEPT ![j] = FALSE]
    BY <1>26 DEF Expire, ExpireLease
  <2>2. CASE Spend("stalls")
    BY <1>7, <2>1, <2>2
  <2>3. CASE UNCHANGED left /\ \A p \in Procs : proc[p].token # lease[j] \/ proc[p].job # j
    <3>1. ~Held(j)
      BY <2>3 DEF Held, Holds
    <3>2. \A k \in Jobs : Held(k) => Held(k)'
      BY <1>1, <2>1, <3>1 DEF Held, Holds, TypeOK
    <3>. QED
      BY <1>8, <2>1, <2>3, <3>2
  <2>. QED
    BY <1>26, <2>2, <2>3 DEF Expire
<1>27. ASSUME NEW name \in tasks, DeliverStale(name[1], name[2]) \/ DropTask(name)
       PROVE  AttemptsInv'
  BY <1>10, <1>27 DEF DeliverStale, DropTask, ledgerVars, rowVars
<1>28. ASSUME NEW j \in Jobs, SweepSettle(j) \/ ActorEnds(j) \/ OperatorResolves(j)
       PROVE  AttemptsInv'
  BY <1>10, <1>28
  DEF SweepSettle, AbortRun, SettleRun, ActorEnds, OperatorResolves, ResolveStart, ledgerVars,
      rowVars
<1>. QED
  BY <1>13, <1>20, <1>22, <1>23, <1>24, <1>25, <1>26, <1>27, <1>28 DEF PipelineNext, Dispatcher

(* Until a failure is charged, no job has paid for more than the work and  *)
(* the crashes, stalls and errors there were.                              *)
THEOREM PipelineAttemptsAreForFailures == PipelineSpec => []AttemptsAreForFailures
<1>1. PipelineInit => AttemptsInv
  <2>1. ASSUME PipelineInit PROVE LeftTypes /\ \A j \in Jobs : attempts[j] = 0
    BY <2>1, PipelineAssumption DEF PipelineInit, Init, LeftTypes
  <2>2. ASSUME PipelineInit PROVE AttemptsInv
    BY <2>1, <2>2, SpendCounts DEF AttemptsInv, Paid
  <2>. QED
    BY <2>2
<1>2. IInv /\ PInv /\ AttemptsInv /\ [PipelineNext]_pipelineVars => AttemptsInv'
  <2>1. ASSUME AttemptsInv, UNCHANGED pipelineVars PROVE AttemptsInv'
    BY <2>1
    DEF AttemptsInv, LeftTypes, Paid, Spent, Used, Held, Holds, pipelineVars, ledgerVars, rowVars
  <2>. QED
    BY <2>1, AttemptsStep
<1>3. IInv /\ AttemptsInv => AttemptsAreForFailures
  <2>1. ASSUME IInv, AttemptsInv, intent = NoIntent, NEW j \in Jobs
        PROVE  attempts[j] <= Spent + 1
    BY <2>1 DEF AttemptsInv, Paid
  <2>2. ASSUME AttemptsInv
        PROVE  /\ Used("crashes", MaxCrashes) \in Nat /\ Used("stalls", MaxStalls) \in Nat
               /\ Used("faults", MaxFaults) \in Nat
    BY <2>2, PipelineAssumption DEF AttemptsInv, LeftTypes, Used
  <2>3. ASSUME IInv, NEW j \in Jobs PROVE attempts[j] \in Nat
    BY <2>3 DEF IInv, TypeOK
  <2>. QED
    BY <2>1, <2>2, <2>3 DEF AttemptsAreForFailures, Spent
<1>. QED
  BY <1>1, <1>2, <1>3, PipelineInvariant, PTL DEF PipelineSpec
=============================================================================
