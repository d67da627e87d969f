----------------------- MODULE ProviderAdmissionProofs -----------------------
(***************************************************************************)
(* Proofs about ProviderAdmission, for every set of operations, workers    *)
(* and budgets.                                                            *)
(*                                                                         *)
(* The argument: claims are never shared (ClaimsAreOwn), so the worker     *)
(* that is about to reserve a run still has the place it was admitted to   *)
(* as long as its claim is live (ReserverIsCounted), because the ledger    *)
(* says "pending" for exactly that claim.  From the reservation on it is   *)
(* the run that keeps the place (RunsAreCounted), until its status proves  *)
(* that no Actor is running (ActorsHaveRuns).                              *)
(***************************************************************************)
EXTENDS ProviderAdmission, TLAPS, FiniteSetTheorems

Starting(p) == pc[p] \in {"post", "attach"}
Going(o) == status[o] \in {"starting", "running"}

(* Where a worker is, it has what it needs there. *)
WorkersAgree ==
    \A p \in Procs :
        /\ pc[p] = "idle" => op[p] = NoOp /\ known[p] = 0
        /\ pc[p] # "idle" => op[p] \in Ops /\ token[p] \in Tokens
        /\ pc[p] = "acquire" => next[p] \in {"reserve", "poll", "fail"}
        /\ pc[p] \in {"release", "recover", "resolve"} => next[p] \in {"retry", "fail", "save"}

(* The claim of a delivery belongs to that delivery, and was charged. *)
ClaimsAreOwn ==
    /\ \A p, q \in Procs : p # q /\ op[p] = op[q] /\ op[p] \in Ops => token[p] # token[q]
    /\ \A o \in Ops : claim[o] # NoToken => attempts[o] >= 1

RunsAreCounted == \A o \in Ops : Going(o) => o \in Held

ActorsHaveRuns == \A o \in actor : Going(o)

(* A start that is under way is the only one of its operation. *)
StartsAreSingle ==
    /\ \A p \in Procs : Starting(p) => status[op[p]] = "starting"
    /\ \A p \in Procs : pc[p] = "post" => op[p] \notin actor
    /\ \A p, q \in Procs : Starting(p) /\ Starting(q) /\ op[p] = op[q] => p = q

(* Between its admission and its reservation a worker with a live claim    *)
(* has the place. *)
ReserverIsCounted ==
    \A p \in Procs :
        pc[p] = "reserve" /\ Owns(p) /\ status[op[p]] = "none"
            => op[p] \in Held /\ holder[op[p]] = token[p]

(* A fence that a worker knows is not ahead of the row, and is the row's   *)
(* only for the claim on the row. *)
FencesAreOwn ==
    /\ \A o \in Held : fence[o] > 0
    /\ \A p \in Procs : op[p] \in Ops =>
          /\ known[p] <= fence[op[p]]
          /\ known[p] = fence[op[p]] /\ op[p] \in Held => token[p] = holder[op[p]]

(* The inductive invariant. *)
AInv ==
    /\ AdmissionTypeOK /\ WorkersAgree /\ ClaimsAreOwn
    /\ RunsAreCounted /\ ActorsHaveRuns /\ StartsAreSingle /\ ReserverIsCounted
    /\ FencesAreOwn /\ WithinBudgets

(* Before anything is admitted the inductive invariant holds.              *)
LEMMA InitAInv == AdmissionInit => AInv
<1>. SUFFICES ASSUME AdmissionInit PROVE AInv
  OBVIOUS
<1>. USE AdmissionAssumption DEF AdmissionInit
<1>1. AdmissionTypeOK
  BY DEF AdmissionTypeOK, RowTypeOK, RunTypeOK, JobTypeOK, WorkTypeOK, Points, Answers
<1>2. Held = {}
  BY DEF Held
<1>3. WorkersAgree /\ ClaimsAreOwn /\ RunsAreCounted /\ ActorsHaveRuns
  BY DEF WorkersAgree, ClaimsAreOwn, RunsAreCounted, ActorsHaveRuns, Going
<1>4. StartsAreSingle /\ ReserverIsCounted /\ FencesAreOwn
  BY <1>2 DEF StartsAreSingle, ReserverIsCounted, FencesAreOwn, Starting
<1>5. WithinBudgets
  <2>. SUFFICES ASSUME NEW b \in Budgets PROVE Cardinality(Held \cap Covers[b]) <= MaxActive[b]
    BY DEF WithinBudgets
  <2>1. Held \cap Covers[b] = {}
    BY <1>2
  <2>2. Cardinality({}) = 0
    BY FS_EmptySet
  <2>3. Cardinality(Held \cap Covers[b]) = 0
    BY <2>1, <2>2
  <2>. QED
    BY <2>3
<1>. QED
  BY <1>1, <1>3, <1>4, <1>5 DEF AInv

-----------------------------------------------------------------------------
(* An acquisition grants a place that is free or already the operation's.  *)
LEMMA AcquireKinds ==
    ASSUME AdmissionTypeOK, NEW o \in Ops, NEW t
    PROVE  /\ AcquireRow(o, t) =>
                 UNCHANGED rowVars \/ (Holds(o, t) /\ Install(o, t) /\ (o \in Held \/ HasCapacity(o)))
           /\ AcquireAnswer(o, t) \in {"acquired", "again", "adopted"} => Holds(o, t)
           /\ AcquireAnswer(o, t) \in {"acquired", "adopted"} /\ AcquireRow(o, t) => Install(o, t)
           /\ AcquireAnswer(o, t) = "again" => holder[o] = t /\ o \in Held
           /\ AcquireAnswer(o, t) = "again" /\ AcquireRow(o, t) => UNCHANGED rowVars
  BY DEF AcquireRow, AcquireAnswer, CanAdopt, CanInsert, Live, Held, Holds,
         AdmissionTypeOK, RowTypeOK

(* A place is given back only when the ledger proves that the provider     *)
(* stopped.                                                                *)
LEMMA ReleaseKinds ==
    ASSUME NEW o \in Ops, NEW k, NEW why
    PROVE  ReleaseRow(o, k, why) =>
               UNCHANGED rowVars \/ (o \in Held /\ Settled(o) /\ FreeRow(o, why))
  BY DEF ReleaseRow, ReleaseAnswer, Held

(* A settled ledger state is a run that ended, or one that never was.      *)
LEMMA SettledRuns ==
    ASSUME NEW o \in Ops, Settled(o)
    PROVE  ~Going(o) /\ (status[o] = "none" => ~Holds(o, holder[o]))
  BY DEF Settled, LedgerState, Going

(* What each operation on a lease row does to the set of places in use.    *)
LEMMA HeldKinds ==
    ASSUME AdmissionTypeOK, NEW o \in Ops
    PROVE  /\ \A t : Install(o, t) => Held' = Held \cup {o}
           /\ \A why : FreeRow(o, why) => Held' = Held \ {o}
           /\ RecoverRow(o) => Held' = Held /\ o \in Held
           /\ ResolveRow(o) => o \in Held
           /\ UNCHANGED state => Held' = Held
  BY
    DEF AdmissionTypeOK, RowTypeOK, Held, Install, FreeRow, RecoverRow, ResolveRow,
        CanResolve, Expired

-----------------------------------------------------------------------------
(* What each kind of write does to the types of its columns.               *)
LEMMA RowTypes ==
    ASSUME RowTypeOK, NEW o \in Ops
    PROVE  /\ UNCHANGED rowVars => RowTypeOK'
           /\ \A t \in Tokens : Install(o, t) => RowTypeOK'
           /\ \A why \in {"terminal", "prestart_rejected", "ledger_resolved"} :
                 FreeRow(o, why) => RowTypeOK'
           /\ RecoverRow(o) => RowTypeOK'
<1>1. UNCHANGED rowVars => RowTypeOK'
  BY DEF RowTypeOK, rowVars
<1>2. ASSUME NEW t \in Tokens, Install(o, t) PROVE RowTypeOK'
  BY <1>2 DEF RowTypeOK, Install
<1>3. ASSUME NEW why \in {"terminal", "prestart_rejected", "ledger_resolved"}, FreeRow(o, why)
      PROVE  RowTypeOK'
  BY <1>3 DEF RowTypeOK, FreeRow
<1>4. RecoverRow(o) => RowTypeOK'
  BY DEF RowTypeOK, RecoverRow
<1>. QED
  BY <1>1, <1>2, <1>3, <1>4

(* Writing the status or the claim of a run keeps the types of its row.    *)
LEMMA RunTypes ==
    ASSUME RunTypeOK, NEW p \in Procs, op[p] \in Ops, token[p] \in Tokens
    PROVE  /\ UNCHANGED runVars => RunTypeOK'
           /\ ReserveRun(op[p], token[p]) => RunTypeOK'
           /\ \A from : \A to \in {"running", "terminal", "rejected"} :
                 WriteStatus(p, from, to) => RunTypeOK'
  BY DEF RunTypeOK, runVars, ReserveRun, WriteStatus

(* Every way in which a handler gives its claim back keeps the job typed.  *)
LEMMA JobTypes ==
    ASSUME JobTypeOK, ClaimsAreOwn, NEW p \in Procs, op[p] \in Ops
    PROVE  /\ UNCHANGED jobVars => JobTypeOK'
           /\ Retry(p) => JobTypeOK'
           /\ Defer(p) => JobTypeOK'
           /\ EndJob(p) => JobTypeOK'
<1>. USE AdmissionAssumption DEF JobTypeOK, DropClaim
<1>1. UNCHANGED jobVars => JobTypeOK'
  BY DEF jobVars
<1>2. Retry(p) => JobTypeOK'
  BY DEF Retry
<1>3. Defer(p) => JobTypeOK'
  BY DEF Defer, Owns, Holds, ClaimsAreOwn
<1>4. EndJob(p) => JobTypeOK'
  BY DEF EndJob
<1>. QED
  BY <1>1, <1>2, <1>3, <1>4

(* A worker that goes on, stops or claims keeps its type.                  *)
LEMMA WorkTypes ==
    ASSUME WorkTypeOK, NEW p \in Procs
    PROVE  /\ UNCHANGED workVars => WorkTypeOK'
           /\ Stop(p) => WorkTypeOK'
           /\ \A point \in Points : \A k \in Nat : \A n \in Answers :
                 Step(p, point, k, n) => WorkTypeOK'
<1>1. UNCHANGED workVars => WorkTypeOK'
  BY DEF WorkTypeOK, workVars
<1>2. Stop(p) => WorkTypeOK'
  BY DEF WorkTypeOK, Stop, Points, Answers
<1>3. ASSUME NEW point \in Points, NEW k \in Nat, NEW n \in Answers, Step(p, point, k, n)
      PROVE  WorkTypeOK'
  BY <1>3 DEF WorkTypeOK, Step
<1>. QED
  BY <1>1, <1>2, <1>3

-----------------------------------------------------------------------------
(* Every step keeps the types. *)
LEMMA TypeStep ==
    ASSUME AdmissionTypeOK, WorkersAgree, ClaimsAreOwn, [Next]_vars
    PROVE  AdmissionTypeOK'
<1>. USE AdmissionAssumption DEF AdmissionTypeOK, Points, Answers
<1>1. ASSUME NEW p \in Procs, NEW o \in Ops, ClaimJob(p, o)
      PROVE  AdmissionTypeOK'
  BY <1>1 DEF ClaimJob, RowTypeOK, RunTypeOK, JobTypeOK, WorkTypeOK, rowVars, runVars
<1>2. ASSUME NEW p \in Procs, Bind(p)
      PROVE  AdmissionTypeOK'
  <2>1. op[p] \in Ops /\ token[p] \in Tokens
    BY <1>2 DEF WorkersAgree, Bind, At
  <2>. QED
    BY <1>2, <2>1, RowTypes, RunTypes, JobTypes, WorkTypes
    DEF Bind, At
<1>3. ASSUME NEW p \in Procs, Acquire(p)
      PROVE  AdmissionTypeOK'
  <2>1. op[p] \in Ops /\ token[p] \in Tokens /\ next[p] \in Points \cap Answers
    BY <1>3 DEF WorkersAgree, Acquire, At
  <2>. QED
    BY <1>3, <2>1, RowTypes, RunTypes, JobTypes, WorkTypes, AcquireKinds
    DEF Acquire, At, Install, RowTypeOK
<1>4. ASSUME NEW p \in Procs, AcquireWaits(p)
      PROVE  AdmissionTypeOK'
  <2>1. op[p] \in Ops /\ token[p] \in Tokens
    BY <1>4 DEF WorkersAgree, AcquireWaits, At
  <2>. QED
    BY <1>4, <2>1, RowTypes, RunTypes, JobTypes, WorkTypes
    DEF AcquireWaits, At, jobVars, Retry, Defer
<1>5. ASSUME NEW p \in Procs, AcquireRefused(p)
      PROVE  AdmissionTypeOK'
  <2>1. op[p] \in Ops /\ token[p] \in Tokens
    BY <1>5 DEF WorkersAgree, AcquireRefused, At
  <2>. QED
    BY <1>5, <2>1, RowTypes, RunTypes, JobTypes, WorkTypes
    DEF AcquireRefused, At, jobVars, Retry, EndJob
<1>6. ASSUME NEW p \in Procs, Reserve(p)
      PROVE  AdmissionTypeOK'
  <2>1. op[p] \in Ops /\ token[p] \in Tokens /\ known[p] \in Nat
    BY <1>6 DEF WorkersAgree, Reserve, At, WorkTypeOK
  <2>. QED
    BY <1>6, <2>1, RowTypes, RunTypes, JobTypes, WorkTypes
    DEF Reserve, At
<1>7. ASSUME NEW p \in Procs, ReserveFails(p)
      PROVE  AdmissionTypeOK'
  <2>1. op[p] \in Ops /\ token[p] \in Tokens /\ known[p] \in Nat
    BY <1>7 DEF WorkersAgree, ReserveFails, At, WorkTypeOK
  <2>. QED
    BY <1>7, <2>1, RowTypes, RunTypes, JobTypes, WorkTypes
    DEF ReserveFails, At, Fault
<1>8. ASSUME NEW p \in Procs, PostAccepted(p)
      PROVE  AdmissionTypeOK'
  <2>1. op[p] \in Ops /\ token[p] \in Tokens /\ known[p] \in Nat
    BY <1>8 DEF WorkersAgree, PostAccepted, At, WorkTypeOK
  <2>. QED
    BY <1>8, <2>1, RowTypes, RunTypes, JobTypes, WorkTypes
    DEF PostAccepted, At
<1>9. ASSUME NEW p \in Procs, Attach(p)
      PROVE  AdmissionTypeOK'
  <2>1. op[p] \in Ops /\ token[p] \in Tokens /\ known[p] \in Nat
    BY <1>9 DEF WorkersAgree, Attach, At, WorkTypeOK
  <2>. QED
    BY <1>9, <2>1, RowTypes, RunTypes, JobTypes, WorkTypes
    DEF Attach, StartRun, At
<1>10. ASSUME NEW p \in Procs, AttachFails(p)
      PROVE  AdmissionTypeOK'
  <2>1. op[p] \in Ops /\ token[p] \in Tokens
    BY <1>10 DEF WorkersAgree, AttachFails, At
  <2>. QED
    BY <1>10, <2>1, RowTypes, RunTypes, JobTypes, WorkTypes
    DEF AttachFails, StartRun, At, Fault
<1>11. ASSUME NEW p \in Procs, Finish(p)
      PROVE  AdmissionTypeOK'
  <2>1. op[p] \in Ops /\ token[p] \in Tokens /\ known[p] \in Nat
    BY <1>11 DEF WorkersAgree, Finish, At, WorkTypeOK
  <2>. QED
    BY <1>11, <2>1, RowTypes, RunTypes, JobTypes, WorkTypes
    DEF Finish, FinishRun, At
<1>12. ASSUME NEW p \in Procs, PollAgain(p)
      PROVE  AdmissionTypeOK'
  <2>1. op[p] \in Ops /\ token[p] \in Tokens
    BY <1>12 DEF WorkersAgree, PollAgain, At
  <2>. QED
    BY <1>12, <2>1, RowTypes, RunTypes, JobTypes, WorkTypes
    DEF PollAgain, FinishRun, At, Fault, jobVars, Retry
<1>13. ASSUME NEW p \in Procs, Release(p)
      PROVE  AdmissionTypeOK'
  <2>1. op[p] \in Ops /\ token[p] \in Tokens /\ next[p] \in {"retry", "fail", "save"}
    BY <1>13 DEF WorkersAgree, Release, At
  <2>. QED
    BY <1>13, <2>1, RowTypes, RunTypes, JobTypes, WorkTypes, ReleaseKinds
    DEF Release, At, AfterRelease, Reason, jobVars, Retry
<1>14. ASSUME NEW p \in Procs, Recover(p)
      PROVE  AdmissionTypeOK'
  <2>1. op[p] \in Ops /\ token[p] \in Tokens /\ next[p] \in {"retry", "fail", "save"}
    BY <1>14 DEF WorkersAgree, Recover, At
  <2>. QED
    BY <1>14, <2>1, RowTypes, RunTypes, JobTypes, WorkTypes
    DEF Recover, At, jobVars, Retry
<1>15. ASSUME NEW p \in Procs, Resolve(p)
      PROVE  AdmissionTypeOK'
  <2>1. op[p] \in Ops /\ token[p] \in Tokens /\ next[p] \in {"retry", "fail", "save"}
    BY <1>15 DEF WorkersAgree, Resolve, At
  <2>. QED
    BY <1>15, <2>1, RowTypes, RunTypes, JobTypes, WorkTypes
    DEF Resolve, At, AfterRelease, ResolveRow, jobVars, Retry
<1>16. ASSUME NEW p \in Procs, EndHandler(p)
      PROVE  AdmissionTypeOK'
  <2>1. op[p] \in Ops /\ token[p] \in Tokens
    BY <1>16 DEF WorkersAgree, EndHandler, At
  <2>. QED
    BY <1>16, <2>1, RowTypes, RunTypes, JobTypes, WorkTypes
    DEF EndHandler, EndJob
<1>17. ASSUME NEW p \in Procs, LostClaim(p)
      PROVE  AdmissionTypeOK'
  <2>1. op[p] \in Ops /\ token[p] \in Tokens
    BY <1>17 DEF WorkersAgree, LostClaim, At
  <2>. QED
    BY <1>17, <2>1, RowTypes, RunTypes, JobTypes, WorkTypes
    DEF LostClaim, jobVars, Retry
<1>18. ASSUME NEW p \in Procs, AcquireUnanswered(p)
      PROVE  AdmissionTypeOK'
  <2>1. op[p] \in Ops /\ token[p] \in Tokens
    BY <1>18 DEF WorkersAgree, AcquireUnanswered, At
  <2>. QED
    BY <1>18, <2>1, RowTypes, RunTypes, JobTypes, WorkTypes, AcquireKinds
    DEF AcquireUnanswered, At, Fault, jobVars, Retry
<1>19. ASSUME NEW p \in Procs, PostUnanswered(p)
      PROVE  AdmissionTypeOK'
  <2>1. op[p] \in Ops /\ token[p] \in Tokens
    BY <1>19 DEF WorkersAgree, PostUnanswered, At
  <2>. QED
    BY <1>19, <2>1, RowTypes, RunTypes, JobTypes, WorkTypes
    DEF PostUnanswered, At, Fault
<1>20. ASSUME NEW p \in Procs, PostRejected(p)
      PROVE  AdmissionTypeOK'
  <2>1. op[p] \in Ops /\ token[p] \in Tokens /\ known[p] \in Nat
    BY <1>20 DEF WorkersAgree, PostRejected, At, WorkTypeOK
  <2>. QED
    BY <1>20, <2>1, RowTypes, RunTypes, JobTypes, WorkTypes
    DEF PostRejected, At, Fault
<1>21. ASSUME NEW p \in Procs, ReleaseUnanswered(p)
      PROVE  AdmissionTypeOK'
  <2>1. op[p] \in Ops /\ token[p] \in Tokens /\ next[p] \in {"retry", "fail", "save"}
    BY <1>21 DEF WorkersAgree, ReleaseUnanswered, At
  <2>. QED
    BY <1>21, <2>1, RowTypes, RunTypes, JobTypes, WorkTypes, ReleaseKinds
    DEF ReleaseUnanswered, At, Reason, Fault, jobVars, Retry
<1>22. ASSUME NEW p \in Procs, Crash(p)
      PROVE  AdmissionTypeOK'
  <2>1. op[p] \in Ops /\ token[p] \in Tokens
    BY <1>22 DEF WorkersAgree, Crash, At
  <2>. QED
    BY <1>22, <2>1, RowTypes, RunTypes, JobTypes, WorkTypes
    DEF Crash, At, Fault
<1>23. ASSUME NEW o \in Ops, ExhaustJob(o)
      PROVE  AdmissionTypeOK'
  BY <1>23, RowTypes
    DEF ExhaustJob, RowTypeOK, RunTypeOK, JobTypeOK, WorkTypeOK, rowVars, runVars, jobVars,
        workVars
<1>24. ASSUME NEW o \in Ops, RequestFails(o)
      PROVE  AdmissionTypeOK'
  BY <1>24, RowTypes
    DEF RequestFails, Fault, RowTypeOK, RunTypeOK, JobTypeOK, WorkTypeOK, rowVars, runVars,
        jobVars, workVars
<1>25. ASSUME NEW o \in Ops, Sweep(o)
      PROVE  AdmissionTypeOK'
  BY <1>25, RowTypes
    DEF Sweep, ResolveRow, RowTypeOK, RunTypeOK, JobTypeOK, WorkTypeOK, rowVars, runVars,
        jobVars, workVars
<1>26. ASSUME NEW o \in Ops, SettleRun(o)
      PROVE  AdmissionTypeOK'
  BY <1>26, RowTypes
    DEF SettleRun, RowTypeOK, RunTypeOK, JobTypeOK, WorkTypeOK, rowVars, runVars, jobVars,
        workVars
<1>27. ASSUME NEW o \in Ops, OperatorResolves(o)
      PROVE  AdmissionTypeOK'
  BY <1>27, RowTypes
    DEF OperatorResolves, RowTypeOK, RunTypeOK, JobTypeOK, WorkTypeOK, rowVars, runVars,
        jobVars, workVars
<1>28. ASSUME NEW o \in Ops, ActorEnds(o)
      PROVE  AdmissionTypeOK'
  BY <1>28, RowTypes
    DEF ActorEnds, RowTypeOK, RunTypeOK, JobTypeOK, WorkTypeOK, rowVars, runVars, jobVars,
        workVars
<1>29. ASSUME NEW o \in Ops, ExpireRow(o)
      PROVE  AdmissionTypeOK'
  BY <1>29, RowTypes
    DEF ExpireRow, Live, Fault, RowTypeOK, RunTypeOK, JobTypeOK, WorkTypeOK, rowVars,
        runVars, jobVars, workVars
<1>30. ASSUME NEW o \in Ops, ExpireClaim(o)
      PROVE  AdmissionTypeOK'
  BY <1>30, RowTypes
    DEF ExpireClaim, Fault, RowTypeOK, RunTypeOK, JobTypeOK, WorkTypeOK, rowVars, runVars,
        jobVars, workVars
<1>31. ASSUME UNCHANGED vars PROVE AdmissionTypeOK'
  BY <1>31
    DEF vars, RowTypeOK, RunTypeOK, JobTypeOK, WorkTypeOK, rowVars, runVars, jobVars, workVars
<1>. QED
  BY <1>1, <1>2, <1>3, <1>4, <1>5, <1>6, <1>7, <1>8, <1>9, <1>10, <1>11, <1>12,
        <1>13, <1>14, <1>15, <1>16, <1>17, <1>18, <1>19, <1>20, <1>21, <1>22,
        <1>23, <1>24, <1>25, <1>26, <1>27, <1>28, <1>29, <1>30, <1>31
    DEF Next, Work, Mishap, Elsewhere
(* Every worker has what it needs at its next point. *)
LEMMA WorkersStep ==
    ASSUME AdmissionTypeOK, WorkersAgree, [Next]_vars
    PROVE  WorkersAgree'
<1>. USE AdmissionAssumption DEF AdmissionTypeOK, WorkTypeOK, WorkersAgree, workVars
<1>1. ASSUME NEW p \in Procs, NEW o \in Ops, ClaimJob(p, o)
      PROVE  WorkersAgree'
  BY <1>1 DEF ClaimJob, At
<1>2. ASSUME NEW p \in Procs, Bind(p)
      PROVE  WorkersAgree'
  BY <1>2 DEF Bind, At, Step
<1>3. ASSUME NEW p \in Procs, Acquire(p)
      PROVE  WorkersAgree'
  BY <1>3 DEF Acquire, At, Step
<1>4. ASSUME NEW p \in Procs, AcquireWaits(p)
      PROVE  WorkersAgree'
  BY <1>4 DEF AcquireWaits, At, Retry, Defer, Stop
<1>5. ASSUME NEW p \in Procs, AcquireRefused(p)
      PROVE  WorkersAgree'
  BY <1>5 DEF AcquireRefused, At, Retry, EndJob, Stop
<1>6. ASSUME NEW p \in Procs, Reserve(p)
      PROVE  WorkersAgree'
  BY <1>6 DEF Reserve, At, Step
<1>7. ASSUME NEW p \in Procs, ReserveFails(p)
      PROVE  WorkersAgree'
  BY <1>7 DEF ReserveFails, At, Step, Fault
<1>8. ASSUME NEW p \in Procs, PostAccepted(p)
      PROVE  WorkersAgree'
  BY <1>8 DEF PostAccepted, At, Step
<1>9. ASSUME NEW p \in Procs, Attach(p)
      PROVE  WorkersAgree'
  BY <1>9 DEF Attach, StartRun, At, Step
<1>10. ASSUME NEW p \in Procs, AttachFails(p)
      PROVE  WorkersAgree'
  BY <1>10 DEF AttachFails, StartRun, At, Step, Fault
<1>11. ASSUME NEW p \in Procs, Finish(p)
      PROVE  WorkersAgree'
  BY <1>11 DEF Finish, FinishRun, At, Step
<1>12. ASSUME NEW p \in Procs, PollAgain(p)
      PROVE  WorkersAgree'
  BY <1>12
    DEF PollAgain, FinishRun, At, Retry, Stop, Fault
<1>13. ASSUME NEW p \in Procs, Release(p)
      PROVE  WorkersAgree'
  BY <1>13
    DEF Release, At, AfterRelease, Step, Retry, Stop
<1>14. ASSUME NEW p \in Procs, Recover(p)
      PROVE  WorkersAgree'
  BY <1>14 DEF Recover, At, Step, Retry, Stop
<1>15. ASSUME NEW p \in Procs, Resolve(p)
      PROVE  WorkersAgree'
  BY <1>15
    DEF Resolve, At, AfterRelease, Step, Retry, Stop
<1>16. ASSUME NEW p \in Procs, EndHandler(p)
      PROVE  WorkersAgree'
  BY <1>16 DEF EndHandler, EndJob, Stop
<1>17. ASSUME NEW p \in Procs, LostClaim(p)
      PROVE  WorkersAgree'
  BY <1>17 DEF LostClaim, Retry, Stop
<1>18. ASSUME NEW p \in Procs, AcquireUnanswered(p)
      PROVE  WorkersAgree'
  BY <1>18 DEF AcquireUnanswered, At, Retry, Stop, Fault
<1>19. ASSUME NEW p \in Procs, PostUnanswered(p)
      PROVE  WorkersAgree'
  BY <1>19 DEF PostUnanswered, At, Step, Fault
<1>20. ASSUME NEW p \in Procs, PostRejected(p)
      PROVE  WorkersAgree'
  BY <1>20 DEF PostRejected, At, Step, Fault
<1>21. ASSUME NEW p \in Procs, ReleaseUnanswered(p)
      PROVE  WorkersAgree'
  BY <1>21 DEF ReleaseUnanswered, At, Retry, Stop, Fault
<1>22. ASSUME NEW p \in Procs, Crash(p)
      PROVE  WorkersAgree'
  BY <1>22 DEF Crash, At, Stop, Fault
<1>23. ASSUME NEW o \in Ops, ExhaustJob(o)
      PROVE  WorkersAgree'
  BY <1>23 DEF ExhaustJob
<1>24. ASSUME NEW o \in Ops, RequestFails(o)
      PROVE  WorkersAgree'
  BY <1>24 DEF RequestFails, Fault
<1>25. ASSUME NEW o \in Ops, Sweep(o)
      PROVE  WorkersAgree'
  BY <1>25 DEF Sweep
<1>26. ASSUME NEW o \in Ops, SettleRun(o)
      PROVE  WorkersAgree'
  BY <1>26 DEF SettleRun
<1>27. ASSUME NEW o \in Ops, OperatorResolves(o)
      PROVE  WorkersAgree'
  BY <1>27 DEF OperatorResolves
<1>28. ASSUME NEW o \in Ops, ActorEnds(o)
      PROVE  WorkersAgree'
  BY <1>28 DEF ActorEnds
<1>29. ASSUME NEW o \in Ops, ExpireRow(o)
      PROVE  WorkersAgree'
  BY <1>29 DEF ExpireRow, Live, Fault
<1>30. ASSUME NEW o \in Ops, ExpireClaim(o)
      PROVE  WorkersAgree'
  BY <1>30 DEF ExpireClaim, Fault
<1>31. ASSUME UNCHANGED vars PROVE WorkersAgree'
  BY <1>31 DEF vars, workVars
<1>. QED
  BY <1>1, <1>2, <1>3, <1>4, <1>5, <1>6, <1>7, <1>8, <1>9, <1>10, <1>11, <1>12,
        <1>13, <1>14, <1>15, <1>16, <1>17, <1>18, <1>19, <1>20, <1>21, <1>22,
        <1>23, <1>24, <1>25, <1>26, <1>27, <1>28, <1>29, <1>30, <1>31
    DEF Next, Work, Mishap, Elsewhere

(* Every claim draws a token of its own and is charged, and is given up    *)
(* before its attempt is given back. *)
LEMMA ClaimsStep ==
    ASSUME AdmissionTypeOK, WorkersAgree, ClaimsAreOwn, [Next]_vars
    PROVE  ClaimsAreOwn'
<1>. USE AdmissionAssumption DEF AdmissionTypeOK, WorkTypeOK, JobTypeOK, WorkersAgree,
        ClaimsAreOwn, workVars, jobVars
<1>1. ASSUME NEW p \in Procs, NEW o \in Ops, ClaimJob(p, o)
      PROVE  ClaimsAreOwn'
  BY <1>1 DEF ClaimJob, At, UsedTokens
<1>2. ASSUME NEW p \in Procs, Bind(p)
      PROVE  ClaimsAreOwn'
  BY <1>2 DEF Bind, At, Step
<1>3. ASSUME NEW p \in Procs, Acquire(p)
      PROVE  ClaimsAreOwn'
  BY <1>3 DEF Acquire, At, Step
<1>4. ASSUME NEW p \in Procs, AcquireWaits(p)
      PROVE  ClaimsAreOwn'
  BY <1>4
    DEF AcquireWaits, At, Retry, Defer, DropClaim, Stop, Owns, Holds
<1>5. ASSUME NEW p \in Procs, AcquireRefused(p)
      PROVE  ClaimsAreOwn'
  BY <1>5
    DEF AcquireRefused, At, Retry, EndJob, DropClaim, Stop, Owns, Holds
<1>6. ASSUME NEW p \in Procs, Reserve(p)
      PROVE  ClaimsAreOwn'
  BY <1>6 DEF Reserve, At, Step
<1>7. ASSUME NEW p \in Procs, ReserveFails(p)
      PROVE  ClaimsAreOwn'
  BY <1>7 DEF ReserveFails, At, Step, Fault
<1>8. ASSUME NEW p \in Procs, PostAccepted(p)
      PROVE  ClaimsAreOwn'
  BY <1>8 DEF PostAccepted, At, Step
<1>9. ASSUME NEW p \in Procs, Attach(p)
      PROVE  ClaimsAreOwn'
  BY <1>9 DEF Attach, StartRun, At, Step
<1>10. ASSUME NEW p \in Procs, AttachFails(p)
      PROVE  ClaimsAreOwn'
  BY <1>10 DEF AttachFails, StartRun, At, Step, Fault
<1>11. ASSUME NEW p \in Procs, Finish(p)
      PROVE  ClaimsAreOwn'
  BY <1>11 DEF Finish, FinishRun, At, Step
<1>12. ASSUME NEW p \in Procs, PollAgain(p)
      PROVE  ClaimsAreOwn'
  BY <1>12
    DEF PollAgain, FinishRun, At, Retry, DropClaim, Stop, Fault, Owns, Holds
<1>13. ASSUME NEW p \in Procs, Release(p)
      PROVE  ClaimsAreOwn'
  BY <1>13
    DEF Release, At, AfterRelease, Step, Retry, DropClaim, Stop, Owns, Holds
<1>14. ASSUME NEW p \in Procs, Recover(p)
      PROVE  ClaimsAreOwn'
  BY <1>14
    DEF Recover, At, Step, Retry, DropClaim, Stop, Owns, Holds
<1>15. ASSUME NEW p \in Procs, Resolve(p)
      PROVE  ClaimsAreOwn'
  BY <1>15
    DEF Resolve, At, AfterRelease, Step, Retry, DropClaim, Stop, Owns, Holds
<1>16. ASSUME NEW p \in Procs, EndHandler(p)
      PROVE  ClaimsAreOwn'
  BY <1>16
    DEF EndHandler, EndJob, DropClaim, Stop, Owns, Holds
<1>17. ASSUME NEW p \in Procs, LostClaim(p)
      PROVE  ClaimsAreOwn'
  BY <1>17
    DEF LostClaim, Retry, DropClaim, Stop, Owns, Holds
<1>18. ASSUME NEW p \in Procs, AcquireUnanswered(p)
      PROVE  ClaimsAreOwn'
  BY <1>18
    DEF AcquireUnanswered, At, Retry, DropClaim, Stop, Fault, Owns, Holds
<1>19. ASSUME NEW p \in Procs, PostUnanswered(p)
      PROVE  ClaimsAreOwn'
  BY <1>19 DEF PostUnanswered, At, Step, Fault
<1>20. ASSUME NEW p \in Procs, PostRejected(p)
      PROVE  ClaimsAreOwn'
  BY <1>20 DEF PostRejected, At, Step, Fault
<1>21. ASSUME NEW p \in Procs, ReleaseUnanswered(p)
      PROVE  ClaimsAreOwn'
  BY <1>21
    DEF ReleaseUnanswered, At, Retry, DropClaim, Stop, Fault, Owns, Holds
<1>22. ASSUME NEW p \in Procs, Crash(p)
      PROVE  ClaimsAreOwn'
  BY <1>22 DEF Crash, At, Stop, Fault
<1>23. ASSUME NEW o \in Ops, ExhaustJob(o)
      PROVE  ClaimsAreOwn'
  BY <1>23 DEF ExhaustJob
<1>24. ASSUME NEW o \in Ops, RequestFails(o)
      PROVE  ClaimsAreOwn'
  BY <1>24 DEF RequestFails, Fault
<1>25. ASSUME NEW o \in Ops, Sweep(o)
      PROVE  ClaimsAreOwn'
  BY <1>25 DEF Sweep
<1>26. ASSUME NEW o \in Ops, SettleRun(o)
      PROVE  ClaimsAreOwn'
  BY <1>26 DEF SettleRun
<1>27. ASSUME NEW o \in Ops, OperatorResolves(o)
      PROVE  ClaimsAreOwn'
  BY <1>27 DEF OperatorResolves
<1>28. ASSUME NEW o \in Ops, ActorEnds(o)
      PROVE  ClaimsAreOwn'
  BY <1>28 DEF ActorEnds
<1>29. ASSUME NEW o \in Ops, ExpireRow(o)
      PROVE  ClaimsAreOwn'
  BY <1>29 DEF ExpireRow, Live, Fault
<1>30. ASSUME NEW o \in Ops, ExpireClaim(o)
      PROVE  ClaimsAreOwn'
  BY <1>30 DEF ExpireClaim, Fault
<1>31. ASSUME UNCHANGED vars PROVE ClaimsAreOwn'
  BY <1>31 DEF vars, workVars
<1>. QED
  BY <1>1, <1>2, <1>3, <1>4, <1>5, <1>6, <1>7, <1>8, <1>9, <1>10, <1>11, <1>12,
        <1>13, <1>14, <1>15, <1>16, <1>17, <1>18, <1>19, <1>20, <1>21, <1>22,
        <1>23, <1>24, <1>25, <1>26, <1>27, <1>28, <1>29, <1>30, <1>31
    DEF Next, Work, Mishap, Elsewhere

(* A run is reserved in a place that is held, and no place is given up      *)
(* under a run that may still go on. *)
LEMMA RunsStep ==
    ASSUME AdmissionTypeOK, WorkersAgree, RunsAreCounted, ReserverIsCounted, [Next]_vars
    PROVE  RunsAreCounted'
<1>. USE DEF AdmissionTypeOK, RunTypeOK, WorkersAgree, RunsAreCounted, Going, rowVars, runVars
<1>1. ASSUME NEW p \in Procs, NEW o \in Ops, ClaimJob(p, o)
      PROVE  RunsAreCounted'
  BY <1>1, HeldKinds DEF ClaimJob, At
<1>2. ASSUME NEW p \in Procs, Bind(p)
      PROVE  RunsAreCounted'
  BY <1>2, HeldKinds DEF Bind, At, ReserveRun
<1>3. ASSUME NEW p \in Procs, Acquire(p)
      PROVE  RunsAreCounted'
  BY <1>3, HeldKinds, AcquireKinds DEF Acquire, At
<1>4. ASSUME NEW p \in Procs, AcquireWaits(p)
      PROVE  RunsAreCounted'
  BY <1>4, HeldKinds DEF AcquireWaits, At
<1>5. ASSUME NEW p \in Procs, AcquireRefused(p)
      PROVE  RunsAreCounted'
  BY <1>5, HeldKinds DEF AcquireRefused, At
<1>6. ASSUME NEW p \in Procs, Reserve(p)
      PROVE  RunsAreCounted'
  BY <1>6, HeldKinds DEF Reserve, At, ReserveRun, ReserverIsCounted, Owns
<1>7. ASSUME NEW p \in Procs, ReserveFails(p)
      PROVE  RunsAreCounted'
  BY <1>7, HeldKinds DEF ReserveFails, At, ReserveRun, ReserverIsCounted, Owns
<1>8. ASSUME NEW p \in Procs, PostAccepted(p)
      PROVE  RunsAreCounted'
  BY <1>8, HeldKinds DEF PostAccepted, At
<1>9. ASSUME NEW p \in Procs, Attach(p)
      PROVE  RunsAreCounted'
  BY <1>9, HeldKinds DEF Attach, StartRun, At, WriteStatus
<1>10. ASSUME NEW p \in Procs, AttachFails(p)
      PROVE  RunsAreCounted'
  BY <1>10, HeldKinds DEF AttachFails, StartRun, At, WriteStatus
<1>11. ASSUME NEW p \in Procs, Finish(p)
      PROVE  RunsAreCounted'
  BY <1>11, HeldKinds DEF Finish, FinishRun, At, WriteStatus
<1>12. ASSUME NEW p \in Procs, PollAgain(p)
      PROVE  RunsAreCounted'
  BY <1>12, HeldKinds DEF PollAgain, FinishRun, At, WriteStatus
<1>13. ASSUME NEW p \in Procs, Release(p)
      PROVE  RunsAreCounted'
  BY <1>13, HeldKinds, ReleaseKinds, SettledRuns
    DEF Release, At, AfterRelease
<1>14. ASSUME NEW p \in Procs, Recover(p)
      PROVE  RunsAreCounted'
  BY <1>14, HeldKinds DEF Recover, At
<1>15. ASSUME NEW p \in Procs, Resolve(p)
      PROVE  RunsAreCounted'
  BY <1>15, HeldKinds, SettledRuns DEF Resolve, At, AfterRelease, ResolveRow, CanResolve
<1>16. ASSUME NEW p \in Procs, EndHandler(p)
      PROVE  RunsAreCounted'
  BY <1>16, HeldKinds DEF EndHandler
<1>17. ASSUME NEW p \in Procs, LostClaim(p)
      PROVE  RunsAreCounted'
  BY <1>17, HeldKinds DEF LostClaim
<1>18. ASSUME NEW p \in Procs, AcquireUnanswered(p)
      PROVE  RunsAreCounted'
  BY <1>18, HeldKinds, AcquireKinds DEF AcquireUnanswered, At
<1>19. ASSUME NEW p \in Procs, PostUnanswered(p)
      PROVE  RunsAreCounted'
  BY <1>19, HeldKinds DEF PostUnanswered, At
<1>20. ASSUME NEW p \in Procs, PostRejected(p)
      PROVE  RunsAreCounted'
  BY <1>20, HeldKinds DEF PostRejected, At, WriteStatus
<1>21. ASSUME NEW p \in Procs, ReleaseUnanswered(p)
      PROVE  RunsAreCounted'
  BY <1>21, HeldKinds, ReleaseKinds, SettledRuns
    DEF ReleaseUnanswered, At
<1>22. ASSUME NEW p \in Procs, Crash(p)
      PROVE  RunsAreCounted'
  BY <1>22, HeldKinds DEF Crash, At
<1>23. ASSUME NEW o \in Ops, ExhaustJob(o)
      PROVE  RunsAreCounted'
  BY <1>23, HeldKinds DEF ExhaustJob
<1>24. ASSUME NEW o \in Ops, RequestFails(o)
      PROVE  RunsAreCounted'
  BY <1>24, HeldKinds DEF RequestFails
<1>25. ASSUME NEW o \in Ops, Sweep(o)
      PROVE  RunsAreCounted'
  BY <1>25, HeldKinds, SettledRuns DEF Sweep, ResolveRow, CanResolve
<1>26. ASSUME NEW o \in Ops, SettleRun(o)
      PROVE  RunsAreCounted'
  BY <1>26, HeldKinds DEF SettleRun
<1>27. ASSUME NEW o \in Ops, OperatorResolves(o)
      PROVE  RunsAreCounted'
  BY <1>27, HeldKinds DEF OperatorResolves
<1>28. ASSUME NEW o \in Ops, ActorEnds(o)
      PROVE  RunsAreCounted'
  BY <1>28, HeldKinds DEF ActorEnds
<1>29. ASSUME NEW o \in Ops, ExpireRow(o)
      PROVE  RunsAreCounted'
  BY <1>29, HeldKinds DEF ExpireRow, Live
<1>30. ASSUME NEW o \in Ops, ExpireClaim(o)
      PROVE  RunsAreCounted'
  BY <1>30, HeldKinds DEF ExpireClaim
<1>31. ASSUME UNCHANGED vars PROVE RunsAreCounted'
  BY <1>31, HeldKinds DEF vars, runVars
<1>. QED
  BY <1>1, <1>2, <1>3, <1>4, <1>5, <1>6, <1>7, <1>8, <1>9, <1>10, <1>11, <1>12,
        <1>13, <1>14, <1>15, <1>16, <1>17, <1>18, <1>19, <1>20, <1>21, <1>22,
        <1>23, <1>24, <1>25, <1>26, <1>27, <1>28, <1>29, <1>30, <1>31
    DEF Next, Work, Mishap, Elsewhere

(* An Actor is started under a reserved run, and the run outlives it. *)
LEMMA ActorsStep ==
    ASSUME AdmissionTypeOK, WorkersAgree, ActorsHaveRuns, StartsAreSingle, [Next]_vars
    PROVE  ActorsHaveRuns'
<1>. USE DEF AdmissionTypeOK, RunTypeOK, WorkersAgree, ActorsHaveRuns, Going, rowVars, runVars
<1>1. ASSUME NEW p \in Procs, NEW o \in Ops, ClaimJob(p, o)
      PROVE  ActorsHaveRuns'
  BY <1>1 DEF ClaimJob, At
<1>2. ASSUME NEW p \in Procs, Bind(p)
      PROVE  ActorsHaveRuns'
  BY <1>2 DEF Bind, At, ReserveRun
<1>3. ASSUME NEW p \in Procs, Acquire(p)
      PROVE  ActorsHaveRuns'
  BY <1>3 DEF Acquire, At
<1>4. ASSUME NEW p \in Procs, AcquireWaits(p)
      PROVE  ActorsHaveRuns'
  BY <1>4 DEF AcquireWaits, At
<1>5. ASSUME NEW p \in Procs, AcquireRefused(p)
      PROVE  ActorsHaveRuns'
  BY <1>5 DEF AcquireRefused, At
<1>6. ASSUME NEW p \in Procs, Reserve(p)
      PROVE  ActorsHaveRuns'
  BY <1>6 DEF Reserve, At, ReserveRun
<1>7. ASSUME NEW p \in Procs, ReserveFails(p)
      PROVE  ActorsHaveRuns'
  BY <1>7 DEF ReserveFails, At, ReserveRun
<1>8. ASSUME NEW p \in Procs, PostAccepted(p)
      PROVE  ActorsHaveRuns'
  BY <1>8 DEF PostAccepted, At, StartsAreSingle, Starting
<1>9. ASSUME NEW p \in Procs, Attach(p)
      PROVE  ActorsHaveRuns'
  BY <1>9 DEF Attach, StartRun, At, WriteStatus
<1>10. ASSUME NEW p \in Procs, AttachFails(p)
      PROVE  ActorsHaveRuns'
  BY <1>10 DEF AttachFails, StartRun, At, WriteStatus
<1>11. ASSUME NEW p \in Procs, Finish(p)
      PROVE  ActorsHaveRuns'
  BY <1>11 DEF Finish, FinishRun, At, WriteStatus
<1>12. ASSUME NEW p \in Procs, PollAgain(p)
      PROVE  ActorsHaveRuns'
  BY <1>12 DEF PollAgain, FinishRun, At, WriteStatus
<1>13. ASSUME NEW p \in Procs, Release(p)
      PROVE  ActorsHaveRuns'
  BY <1>13 DEF Release, At, AfterRelease
<1>14. ASSUME NEW p \in Procs, Recover(p)
      PROVE  ActorsHaveRuns'
  BY <1>14 DEF Recover, At
<1>15. ASSUME NEW p \in Procs, Resolve(p)
      PROVE  ActorsHaveRuns'
  BY <1>15 DEF Resolve, At, AfterRelease
<1>16. ASSUME NEW p \in Procs, EndHandler(p)
      PROVE  ActorsHaveRuns'
  BY <1>16 DEF EndHandler
<1>17. ASSUME NEW p \in Procs, LostClaim(p)
      PROVE  ActorsHaveRuns'
  BY <1>17 DEF LostClaim
<1>18. ASSUME NEW p \in Procs, AcquireUnanswered(p)
      PROVE  ActorsHaveRuns'
  BY <1>18 DEF AcquireUnanswered, At
<1>19. ASSUME NEW p \in Procs, PostUnanswered(p)
      PROVE  ActorsHaveRuns'
  BY <1>19 DEF PostUnanswered, At, StartsAreSingle, Starting
<1>20. ASSUME NEW p \in Procs, PostRejected(p)
      PROVE  ActorsHaveRuns'
  BY <1>20 DEF PostRejected, At, WriteStatus, StartsAreSingle, Starting
<1>21. ASSUME NEW p \in Procs, ReleaseUnanswered(p)
      PROVE  ActorsHaveRuns'
  BY <1>21 DEF ReleaseUnanswered, At
<1>22. ASSUME NEW p \in Procs, Crash(p)
      PROVE  ActorsHaveRuns'
  BY <1>22 DEF Crash, At
<1>23. ASSUME NEW o \in Ops, ExhaustJob(o)
      PROVE  ActorsHaveRuns'
  BY <1>23 DEF ExhaustJob
<1>24. ASSUME NEW o \in Ops, RequestFails(o)
      PROVE  ActorsHaveRuns'
  BY <1>24 DEF RequestFails
<1>25. ASSUME NEW o \in Ops, Sweep(o)
      PROVE  ActorsHaveRuns'
  BY <1>25 DEF Sweep
<1>26. ASSUME NEW o \in Ops, SettleRun(o)
      PROVE  ActorsHaveRuns'
  BY <1>26 DEF SettleRun
<1>27. ASSUME NEW o \in Ops, OperatorResolves(o)
      PROVE  ActorsHaveRuns'
  BY <1>27 DEF OperatorResolves
<1>28. ASSUME NEW o \in Ops, ActorEnds(o)
      PROVE  ActorsHaveRuns'
  BY <1>28 DEF ActorEnds
<1>29. ASSUME NEW o \in Ops, ExpireRow(o)
      PROVE  ActorsHaveRuns'
  BY <1>29 DEF ExpireRow, Live
<1>30. ASSUME NEW o \in Ops, ExpireClaim(o)
      PROVE  ActorsHaveRuns'
  BY <1>30 DEF ExpireClaim
<1>31. ASSUME UNCHANGED vars PROVE ActorsHaveRuns'
  BY <1>31 DEF vars, runVars
<1>. QED
  BY <1>1, <1>2, <1>3, <1>4, <1>5, <1>6, <1>7, <1>8, <1>9, <1>10, <1>11, <1>12,
        <1>13, <1>14, <1>15, <1>16, <1>17, <1>18, <1>19, <1>20, <1>21, <1>22,
        <1>23, <1>24, <1>25, <1>26, <1>27, <1>28, <1>29, <1>30, <1>31
    DEF Next, Work, Mishap, Elsewhere

(* Only the reservation that made the run leads to a start. *)
LEMMA StartsStep ==
    ASSUME AdmissionTypeOK, WorkersAgree, ActorsHaveRuns, StartsAreSingle, [Next]_vars
    PROVE  StartsAreSingle'
<1>. USE DEF AdmissionTypeOK, RunTypeOK, WorkTypeOK, WorkersAgree, ActorsHaveRuns, Going,
        StartsAreSingle, Starting, runVars, workVars
<1>1. ASSUME NEW p \in Procs, NEW o \in Ops, ClaimJob(p, o)
      PROVE  StartsAreSingle'
  BY <1>1 DEF ClaimJob, At
<1>2. ASSUME NEW p \in Procs, Bind(p)
      PROVE  StartsAreSingle'
  BY <1>2 DEF Bind, At, Step, ReserveRun
<1>3. ASSUME NEW p \in Procs, Acquire(p)
      PROVE  StartsAreSingle'
  BY <1>3 DEF Acquire, At, Step
<1>4. ASSUME NEW p \in Procs, AcquireWaits(p)
      PROVE  StartsAreSingle'
  BY <1>4 DEF AcquireWaits, At, Retry, Defer, Stop
<1>5. ASSUME NEW p \in Procs, AcquireRefused(p)
      PROVE  StartsAreSingle'
  BY <1>5 DEF AcquireRefused, At, Retry, EndJob, Stop
<1>6. ASSUME NEW p \in Procs, Reserve(p)
      PROVE  StartsAreSingle'
  BY <1>6 DEF Reserve, At, Step, ReserveRun
<1>7. ASSUME NEW p \in Procs, ReserveFails(p)
      PROVE  StartsAreSingle'
  BY <1>7 DEF ReserveFails, At, Step, ReserveRun
<1>8. ASSUME NEW p \in Procs, PostAccepted(p)
      PROVE  StartsAreSingle'
  BY <1>8 DEF PostAccepted, At, Step
<1>9. ASSUME NEW p \in Procs, Attach(p)
      PROVE  StartsAreSingle'
  BY <1>9 DEF Attach, StartRun, At, Step, WriteStatus
<1>10. ASSUME NEW p \in Procs, AttachFails(p)
      PROVE  StartsAreSingle'
  BY <1>10 DEF AttachFails, StartRun, At, Step, WriteStatus
<1>11. ASSUME NEW p \in Procs, Finish(p)
      PROVE  StartsAreSingle'
  BY <1>11 DEF Finish, FinishRun, At, Step, WriteStatus
<1>12. ASSUME NEW p \in Procs, PollAgain(p)
      PROVE  StartsAreSingle'
  BY <1>12
    DEF PollAgain, FinishRun, At, Retry, Stop, WriteStatus
<1>13. ASSUME NEW p \in Procs, Release(p)
      PROVE  StartsAreSingle'
  BY <1>13
    DEF Release, At, AfterRelease, Step, Retry, Stop
<1>14. ASSUME NEW p \in Procs, Recover(p)
      PROVE  StartsAreSingle'
  BY <1>14 DEF Recover, At, Step, Retry, Stop
<1>15. ASSUME NEW p \in Procs, Resolve(p)
      PROVE  StartsAreSingle'
  BY <1>15
    DEF Resolve, At, AfterRelease, Step, Retry, Stop
<1>16. ASSUME NEW p \in Procs, EndHandler(p)
      PROVE  StartsAreSingle'
  BY <1>16 DEF EndHandler, EndJob, Stop
<1>17. ASSUME NEW p \in Procs, LostClaim(p)
      PROVE  StartsAreSingle'
  BY <1>17 DEF LostClaim, Retry, Stop
<1>18. ASSUME NEW p \in Procs, AcquireUnanswered(p)
      PROVE  StartsAreSingle'
  BY <1>18 DEF AcquireUnanswered, At, Retry, Stop
<1>19. ASSUME NEW p \in Procs, PostUnanswered(p)
      PROVE  StartsAreSingle'
  BY <1>19 DEF PostUnanswered, At, Step
<1>20. ASSUME NEW p \in Procs, PostRejected(p)
      PROVE  StartsAreSingle'
  BY <1>20 DEF PostRejected, At, Step, WriteStatus
<1>21. ASSUME NEW p \in Procs, ReleaseUnanswered(p)
      PROVE  StartsAreSingle'
  BY <1>21 DEF ReleaseUnanswered, At, Retry, Stop
<1>22. ASSUME NEW p \in Procs, Crash(p)
      PROVE  StartsAreSingle'
  BY <1>22 DEF Crash, At, Stop
<1>23. ASSUME NEW o \in Ops, ExhaustJob(o)
      PROVE  StartsAreSingle'
  BY <1>23 DEF ExhaustJob
<1>24. ASSUME NEW o \in Ops, RequestFails(o)
      PROVE  StartsAreSingle'
  BY <1>24 DEF RequestFails
<1>25. ASSUME NEW o \in Ops, Sweep(o)
      PROVE  StartsAreSingle'
  BY <1>25 DEF Sweep
<1>26. ASSUME NEW o \in Ops, SettleRun(o)
      PROVE  StartsAreSingle'
  BY <1>26 DEF SettleRun
<1>27. ASSUME NEW o \in Ops, OperatorResolves(o)
      PROVE  StartsAreSingle'
  BY <1>27 DEF OperatorResolves
<1>28. ASSUME NEW o \in Ops, ActorEnds(o)
      PROVE  StartsAreSingle'
  BY <1>28 DEF ActorEnds
<1>29. ASSUME NEW o \in Ops, ExpireRow(o)
      PROVE  StartsAreSingle'
  BY <1>29 DEF ExpireRow, Live
<1>30. ASSUME NEW o \in Ops, ExpireClaim(o)
      PROVE  StartsAreSingle'
  BY <1>30 DEF ExpireClaim
<1>31. ASSUME UNCHANGED vars PROVE StartsAreSingle'
  BY <1>31 DEF vars, runVars
<1>. QED
  BY <1>1, <1>2, <1>3, <1>4, <1>5, <1>6, <1>7, <1>8, <1>9, <1>10, <1>11, <1>12,
        <1>13, <1>14, <1>15, <1>16, <1>17, <1>18, <1>19, <1>20, <1>21, <1>22,
        <1>23, <1>24, <1>25, <1>26, <1>27, <1>28, <1>29, <1>30, <1>31
    DEF Next, Work, Mishap, Elsewhere

(* A place is granted with the claim of the worker, and stays with it while  *)
(* that claim is live. *)
LEMMA ReserverStep ==
    ASSUME AdmissionTypeOK, WorkersAgree, ClaimsAreOwn, ReserverIsCounted, [Next]_vars
    PROVE  ReserverIsCounted'
<1>. USE DEF AdmissionTypeOK, RowTypeOK, RunTypeOK, JobTypeOK, WorkTypeOK, WorkersAgree,
        ClaimsAreOwn, ReserverIsCounted, rowVars, runVars, jobVars, workVars
<1>1. ASSUME NEW p \in Procs, NEW o \in Ops, ClaimJob(p, o)
      PROVE  ReserverIsCounted'
  BY <1>1, HeldKinds DEF ClaimJob, At, Owns, Holds, UsedTokens
<1>2. ASSUME NEW p \in Procs, Bind(p)
      PROVE  ReserverIsCounted'
  BY <1>2, HeldKinds
    DEF Bind, At, Step, ReserveRun, Owns, Holds
<1>3. ASSUME NEW p \in Procs, Acquire(p)
      PROVE  ReserverIsCounted'
  <2>1. op[p] \in Ops /\ token[p] \in Tokens /\ Holds(op[p], token[p])
    BY <1>3, AcquireKinds DEF Acquire, At
  <2>2. CASE AcquireAnswer(op[p], token[p]) \in {"acquired", "adopted"}
    <3>1. Install(op[p], token[p]) /\ Held' = Held \cup {op[p]}
      BY <1>3, <2>1, <2>2, AcquireKinds, HeldKinds DEF Acquire
    <3>. QED
      BY <1>3, <2>1, <3>1 DEF Acquire, At, Step, Install, Owns, Holds
  <2>3. CASE AcquireAnswer(op[p], token[p]) = "again"
    <3>1. UNCHANGED rowVars /\ Held' = Held /\ op[p] \in Held /\ holder[op[p]] = token[p]
      BY <1>3, <2>1, <2>3, AcquireKinds, HeldKinds DEF Acquire
    <3>. QED
      BY <1>3, <2>1, <3>1 DEF Acquire, At, Step, Owns, Holds
  <2>. QED
    BY <1>3, <2>2, <2>3 DEF Acquire
<1>4. ASSUME NEW p \in Procs, AcquireWaits(p)
      PROVE  ReserverIsCounted'
  BY <1>4, HeldKinds
    DEF AcquireWaits, At, Retry, Defer, DropClaim, Stop, Owns, Holds
<1>5. ASSUME NEW p \in Procs, AcquireRefused(p)
      PROVE  ReserverIsCounted'
  BY <1>5, HeldKinds
    DEF AcquireRefused, At, Retry, EndJob, DropClaim, Stop, Owns, Holds
<1>6. ASSUME NEW p \in Procs, Reserve(p)
      PROVE  ReserverIsCounted'
  BY <1>6, HeldKinds
    DEF Reserve, At, Step, ReserveRun, Owns, Holds
<1>7. ASSUME NEW p \in Procs, ReserveFails(p)
      PROVE  ReserverIsCounted'
  BY <1>7, HeldKinds
    DEF ReserveFails, At, Step, ReserveRun, Owns, Holds
<1>8. ASSUME NEW p \in Procs, PostAccepted(p)
      PROVE  ReserverIsCounted'
  BY <1>8, HeldKinds DEF PostAccepted, At, Step, Owns, Holds
<1>9. ASSUME NEW p \in Procs, Attach(p)
      PROVE  ReserverIsCounted'
  BY <1>9, HeldKinds
    DEF Attach, StartRun, At, Step, WriteStatus, Owns, Holds
<1>10. ASSUME NEW p \in Procs, AttachFails(p)
      PROVE  ReserverIsCounted'
  BY <1>10, HeldKinds
    DEF AttachFails, StartRun, At, Step, WriteStatus, Owns, Holds
<1>11. ASSUME NEW p \in Procs, Finish(p)
      PROVE  ReserverIsCounted'
  BY <1>11, HeldKinds
    DEF Finish, FinishRun, At, Step, WriteStatus, Owns, Holds
<1>12. ASSUME NEW p \in Procs, PollAgain(p)
      PROVE  ReserverIsCounted'
  BY <1>12, HeldKinds
    DEF PollAgain, FinishRun, At, Retry, DropClaim, Stop, WriteStatus, Owns, Holds
<1>13. ASSUME NEW p \in Procs, Release(p)
      PROVE  ReserverIsCounted'
  BY <1>13, HeldKinds, ReleaseKinds, SettledRuns
    DEF Release, At, AfterRelease, Step, Retry, DropClaim, Stop, Owns, Holds,
        Install, FreeRow, RecoverRow, ResolveRow, CanResolve, Expired
<1>14. ASSUME NEW p \in Procs, Recover(p)
      PROVE  ReserverIsCounted'
  BY <1>14, HeldKinds
    DEF Recover, At, Step, Retry, DropClaim, Stop, Owns, Holds, Install, FreeRow,
        RecoverRow, ResolveRow, CanResolve, Expired
<1>15. ASSUME NEW p \in Procs, Resolve(p)
      PROVE  ReserverIsCounted'
  BY <1>15, HeldKinds, SettledRuns
    DEF Resolve, At, AfterRelease, Step, Retry, DropClaim, Stop, Owns, Holds,
        Install, FreeRow, RecoverRow, ResolveRow, CanResolve, Expired
<1>16. ASSUME NEW p \in Procs, EndHandler(p)
      PROVE  ReserverIsCounted'
  BY <1>16, HeldKinds
    DEF EndHandler, EndJob, DropClaim, Stop, Owns, Holds
<1>17. ASSUME NEW p \in Procs, LostClaim(p)
      PROVE  ReserverIsCounted'
  BY <1>17, HeldKinds
    DEF LostClaim, Retry, DropClaim, Stop, Owns, Holds
<1>18. ASSUME NEW p \in Procs, AcquireUnanswered(p)
      PROVE  ReserverIsCounted'
  <2>1. op[p] \in Ops /\ token[p] \in Tokens
    BY <1>18 DEF AcquireUnanswered, At
  <2>2. CASE UNCHANGED rowVars
    <3>1. Held' = Held
      BY <2>2, HeldKinds, <2>1
    <3>. QED
      BY <1>18, <2>1, <2>2, <3>1 DEF AcquireUnanswered, At, Retry, DropClaim, Stop, Owns, Holds
  <2>3. CASE Holds(op[p], token[p]) /\ Install(op[p], token[p])
    <3>1. Held' = Held \cup {op[p]}
      BY <2>3, HeldKinds, <2>1
    <3>. QED
      BY <1>18, <2>1, <2>3, <3>1
         DEF AcquireUnanswered, At, Retry, DropClaim, Stop, Install, Owns, Holds
  <2>. QED
    BY <1>18, <2>1, <2>2, <2>3, AcquireKinds DEF AcquireUnanswered
<1>19. ASSUME NEW p \in Procs, PostUnanswered(p)
      PROVE  ReserverIsCounted'
  BY <1>19, HeldKinds DEF PostUnanswered, At, Step, Owns, Holds
<1>20. ASSUME NEW p \in Procs, PostRejected(p)
      PROVE  ReserverIsCounted'
  BY <1>20, HeldKinds
    DEF PostRejected, At, Step, WriteStatus, Owns, Holds
<1>21. ASSUME NEW p \in Procs, ReleaseUnanswered(p)
      PROVE  ReserverIsCounted'
  BY <1>21, HeldKinds, ReleaseKinds, SettledRuns
    DEF ReleaseUnanswered, At, Retry, DropClaim, Stop, Owns, Holds, Install,
        FreeRow, RecoverRow, ResolveRow, CanResolve, Expired
<1>22. ASSUME NEW p \in Procs, Crash(p)
      PROVE  ReserverIsCounted'
  BY <1>22, HeldKinds DEF Crash, At, Stop, Owns, Holds
<1>23. ASSUME NEW o \in Ops, ExhaustJob(o)
      PROVE  ReserverIsCounted'
  BY <1>23, HeldKinds DEF ExhaustJob, Owns, Holds
<1>24. ASSUME NEW o \in Ops, RequestFails(o)
      PROVE  ReserverIsCounted'
  BY <1>24, HeldKinds DEF RequestFails, Owns, Holds
<1>25. ASSUME NEW o \in Ops, Sweep(o)
      PROVE  ReserverIsCounted'
  BY <1>25, HeldKinds, SettledRuns
    DEF Sweep, Owns, Holds, Install, FreeRow, RecoverRow, ResolveRow, CanResolve,
        Expired
<1>26. ASSUME NEW o \in Ops, SettleRun(o)
      PROVE  ReserverIsCounted'
  BY <1>26, HeldKinds DEF SettleRun, Owns, Holds
<1>27. ASSUME NEW o \in Ops, OperatorResolves(o)
      PROVE  ReserverIsCounted'
  BY <1>27, HeldKinds DEF OperatorResolves, Owns, Holds
<1>28. ASSUME NEW o \in Ops, ActorEnds(o)
      PROVE  ReserverIsCounted'
  BY <1>28, HeldKinds DEF ActorEnds, Owns, Holds
<1>29. ASSUME NEW o \in Ops, ExpireRow(o)
      PROVE  ReserverIsCounted'
  BY <1>29, HeldKinds
    DEF ExpireRow, Live, Owns, Holds, Install, FreeRow, RecoverRow, ResolveRow,
        CanResolve, Expired
<1>30. ASSUME NEW o \in Ops, ExpireClaim(o)
      PROVE  ReserverIsCounted'
  BY <1>30, HeldKinds DEF ExpireClaim, Owns, Holds
<1>31. ASSUME UNCHANGED vars PROVE ReserverIsCounted'
  BY <1>31, HeldKinds DEF vars, Owns, Holds
<1>. QED
  BY <1>1, <1>2, <1>3, <1>4, <1>5, <1>6, <1>7, <1>8, <1>9, <1>10, <1>11, <1>12,
        <1>13, <1>14, <1>15, <1>16, <1>17, <1>18, <1>19, <1>20, <1>21, <1>22,
        <1>23, <1>24, <1>25, <1>26, <1>27, <1>28, <1>29, <1>30, <1>31
    DEF Next, Work, Mishap, Elsewhere

(* Whoever draws a new fence is the only one who knows it.                 *)
LEMMA FenceMoves ==
    ASSUME WorkTypeOK, RowTypeOK, FencesAreOwn, NEW o \in Ops,
           fence'[o] = fence[o] + 1,
           \A x \in Ops \ {o} : fence'[x] = fence[x] /\ holder'[x] = holder[x],
           Held' \subseteq Held \cup {o},
           \A q \in Procs : op'[q] \in Ops =>
               /\ op'[q] = op[q] /\ token'[q] = token[q]
               /\ \/ known'[q] \in {0, known[q]}
                  \/ op[q] = o /\ known'[q] = fence'[o] /\ token[q] = holder'[o]
    PROVE  FencesAreOwn'
<1>1. Held \subseteq Ops /\ \A x \in Ops : fence[x] \in Nat
  BY DEF Held, RowTypeOK
<1>2. \A x \in Held' : fence'[x] > 0
  BY <1>1 DEF FencesAreOwn
<1>3. ASSUME NEW q \in Procs, op'[q] \in Ops
      PROVE  /\ known'[q] <= fence'[op'[q]]
             /\ known'[q] = fence'[op'[q]] /\ op'[q] \in Held' => token'[q] = holder'[op'[q]]
  <2>1. op'[q] = op[q] /\ token'[q] = token[q] /\ known[q] \in Nat /\ known[q] <= fence[op[q]]
    BY <1>3 DEF FencesAreOwn, WorkTypeOK
  <2>2. CASE op[q] = o
    BY <1>1, <1>3, <2>1, <2>2
  <2>3. CASE op[q] # o
    BY <1>1, <1>2, <1>3, <2>1, <2>3 DEF FencesAreOwn
  <2>. QED
    BY <2>2, <2>3
<1>. QED
  BY <1>2, <1>3 DEF FencesAreOwn

(* A step that changes neither rows nor leases keeps every fence its own.  *)
LEMMA FenceStays ==
    ASSUME WorkTypeOK, RowTypeOK, FencesAreOwn, UNCHANGED <<fence, holder>>, Held' \subseteq Held,
           \A q \in Procs : op'[q] \in Ops =>
               op'[q] = op[q] /\ token'[q] = token[q] /\ known'[q] \in {0, known[q]}
    PROVE  FencesAreOwn'
  BY DEF FencesAreOwn, Held, RowTypeOK, WorkTypeOK

(* A fence only grows, and is drawn for one claim. *)
LEMMA FencesStep ==
    ASSUME AdmissionTypeOK, WorkersAgree, FencesAreOwn, [Next]_vars
    PROVE  FencesAreOwn'
<1>. USE AdmissionAssumption
    DEF AdmissionTypeOK, RowTypeOK, WorkTypeOK, WorkersAgree, FencesAreOwn,
        rowVars, workVars
<1>1. ASSUME NEW p \in Procs, NEW o \in Ops, ClaimJob(p, o)
      PROVE  FencesAreOwn'
  BY <1>1, HeldKinds DEF ClaimJob, At
<1>2. ASSUME NEW p \in Procs, Bind(p)
      PROVE  FencesAreOwn'
  BY <1>2, HeldKinds DEF Bind, At, Step
<1>3. ASSUME NEW p \in Procs, Acquire(p)
      PROVE  FencesAreOwn'
  <2>1. op[p] \in Ops /\ token[p] \in Tokens
    BY <1>3 DEF Acquire, At
  <2>2. /\ op' = op /\ token' = token /\ known'[p] = fence'[op[p]]
        /\ \A q \in Procs \ {p} : known'[q] = known[q]
    BY <1>3 DEF Acquire, Step
  <2>3. CASE AcquireAnswer(op[p], token[p]) \in {"acquired", "adopted"}
    <3>1. Install(op[p], token[p]) /\ Held' = Held \cup {op[p]}
      BY <1>3, <2>1, <2>3, AcquireKinds, HeldKinds DEF Acquire
    <3>. QED
      BY <2>1, <2>2, <3>1, FenceMoves DEF Install
  <2>4. CASE AcquireAnswer(op[p], token[p]) = "again"
    <3>1. UNCHANGED rowVars /\ Held' = Held /\ holder[op[p]] = token[p]
      BY <1>3, <2>1, <2>4, AcquireKinds, HeldKinds DEF Acquire
    <3>. QED
      BY <2>1, <2>2, <3>1
  <2>. QED
    BY <1>3, <2>3, <2>4 DEF Acquire
<1>4. ASSUME NEW p \in Procs, AcquireWaits(p)
      PROVE  FencesAreOwn'
  BY <1>4, HeldKinds DEF AcquireWaits, At, Retry, Defer, Stop
<1>5. ASSUME NEW p \in Procs, AcquireRefused(p)
      PROVE  FencesAreOwn'
  BY <1>5, HeldKinds DEF AcquireRefused, At, Retry, EndJob, Stop
<1>6. ASSUME NEW p \in Procs, Reserve(p)
      PROVE  FencesAreOwn'
  BY <1>6, HeldKinds DEF Reserve, At, Step
<1>7. ASSUME NEW p \in Procs, ReserveFails(p)
      PROVE  FencesAreOwn'
  BY <1>7, HeldKinds DEF ReserveFails, At, Step
<1>8. ASSUME NEW p \in Procs, PostAccepted(p)
      PROVE  FencesAreOwn'
  BY <1>8, HeldKinds DEF PostAccepted, At, Step
<1>9. ASSUME NEW p \in Procs, Attach(p)
      PROVE  FencesAreOwn'
  BY <1>9, HeldKinds DEF Attach, StartRun, At, Step
<1>10. ASSUME NEW p \in Procs, AttachFails(p)
      PROVE  FencesAreOwn'
  BY <1>10, HeldKinds DEF AttachFails, StartRun, At, Step
<1>11. ASSUME NEW p \in Procs, Finish(p)
      PROVE  FencesAreOwn'
  BY <1>11, HeldKinds DEF Finish, FinishRun, At, Step
<1>12. ASSUME NEW p \in Procs, PollAgain(p)
      PROVE  FencesAreOwn'
  BY <1>12, HeldKinds DEF PollAgain, FinishRun, At, Retry, Stop
<1>13. ASSUME NEW p \in Procs, Release(p)
      PROVE  FencesAreOwn'
  BY <1>13, HeldKinds, ReleaseKinds
    DEF Release, At, AfterRelease, Step, Retry, Stop, Install, FreeRow, RecoverRow,
        ResolveRow
<1>14. ASSUME NEW p \in Procs, Recover(p)
      PROVE  FencesAreOwn'
  <2>1. op[p] \in Ops
    BY <1>14 DEF Recover, At
  <2>2. \A q \in Procs : op'[q] \in Ops =>
            op'[q] = op[q] /\ token'[q] = token[q] /\ known'[q] \in {0, known[q]}
    BY <1>14, <2>1 DEF Recover, Retry, Step, Stop
  <2>3. CASE RecoverRow(op[p])
    <3>1. Held' = Held
      BY <2>1, <2>3, HeldKinds
    <3>. QED
      BY <2>1, <2>2, <2>3, <3>1, FenceMoves DEF RecoverRow
  <2>4. CASE UNCHANGED rowVars
    BY <2>1, <2>2, <2>4, HeldKinds, FenceStays
  <2>. QED
    BY <1>14, <2>3, <2>4 DEF Recover
<1>15. ASSUME NEW p \in Procs, Resolve(p)
      PROVE  FencesAreOwn'
  BY <1>15, HeldKinds
    DEF Resolve, At, AfterRelease, Step, Retry, Stop, Install, FreeRow, RecoverRow,
        ResolveRow
<1>16. ASSUME NEW p \in Procs, EndHandler(p)
      PROVE  FencesAreOwn'
  BY <1>16, HeldKinds DEF EndHandler, EndJob, Stop
<1>17. ASSUME NEW p \in Procs, LostClaim(p)
      PROVE  FencesAreOwn'
  BY <1>17, HeldKinds DEF LostClaim, Retry, Stop
<1>18. ASSUME NEW p \in Procs, AcquireUnanswered(p)
      PROVE  FencesAreOwn'
  <2>1. op[p] \in Ops
    BY <1>18 DEF AcquireUnanswered, At
  <2>2. \A q \in Procs : op'[q] \in Ops =>
            op'[q] = op[q] /\ token'[q] = token[q] /\ known'[q] \in {0, known[q]}
    BY <1>18, <2>1 DEF AcquireUnanswered, Retry, Stop
  <2>3. CASE UNCHANGED rowVars
    BY <2>2, <2>3, HeldKinds, FenceStays, <2>1
  <2>4. CASE Install(op[p], token[p])
    <3>1. Held' = Held \cup {op[p]}
      BY <2>1, <2>4, HeldKinds
    <3>. QED
      BY <2>1, <2>2, <2>4, <3>1, FenceMoves DEF Install
  <2>. QED
    BY <1>18, <2>1, <2>3, <2>4, AcquireKinds DEF AcquireUnanswered
<1>19. ASSUME NEW p \in Procs, PostUnanswered(p)
      PROVE  FencesAreOwn'
  BY <1>19, HeldKinds DEF PostUnanswered, At, Step
<1>20. ASSUME NEW p \in Procs, PostRejected(p)
      PROVE  FencesAreOwn'
  BY <1>20, HeldKinds DEF PostRejected, At, Step
<1>21. ASSUME NEW p \in Procs, ReleaseUnanswered(p)
      PROVE  FencesAreOwn'
  BY <1>21, HeldKinds, ReleaseKinds
    DEF ReleaseUnanswered, At, Retry, Stop, Install, FreeRow, RecoverRow, ResolveRow
<1>22. ASSUME NEW p \in Procs, Crash(p)
      PROVE  FencesAreOwn'
  BY <1>22, HeldKinds DEF Crash, At, Stop
<1>23. ASSUME NEW o \in Ops, ExhaustJob(o)
      PROVE  FencesAreOwn'
  BY <1>23, HeldKinds DEF ExhaustJob
<1>24. ASSUME NEW o \in Ops, RequestFails(o)
      PROVE  FencesAreOwn'
  BY <1>24, HeldKinds DEF RequestFails
<1>25. ASSUME NEW o \in Ops, Sweep(o)
      PROVE  FencesAreOwn'
  <2>1. CASE RecoverRow(o)
    <3>1. Held' = Held /\ UNCHANGED workVars
      BY <1>25, <2>1, HeldKinds DEF Sweep
    <3>. QED
      BY <2>1, <3>1, FenceMoves DEF RecoverRow
  <2>2. CASE ResolveRow(o)
    <3>1. Held' \subseteq Held /\ UNCHANGED workVars
      BY <1>25, <2>2, HeldKinds DEF Sweep, ResolveRow
    <3>. QED
      BY <2>2, <3>1, FenceStays DEF ResolveRow, FreeRow
  <2>. QED
    BY <1>25, <2>1, <2>2 DEF Sweep
<1>26. ASSUME NEW o \in Ops, SettleRun(o)
      PROVE  FencesAreOwn'
  BY <1>26, HeldKinds DEF SettleRun
<1>27. ASSUME NEW o \in Ops, OperatorResolves(o)
      PROVE  FencesAreOwn'
  BY <1>27, HeldKinds DEF OperatorResolves
<1>28. ASSUME NEW o \in Ops, ActorEnds(o)
      PROVE  FencesAreOwn'
  BY <1>28, HeldKinds DEF ActorEnds
<1>29. ASSUME NEW o \in Ops, ExpireRow(o)
      PROVE  FencesAreOwn'
  BY <1>29, HeldKinds DEF ExpireRow, Live
<1>30. ASSUME NEW o \in Ops, ExpireClaim(o)
      PROVE  FencesAreOwn'
  BY <1>30, HeldKinds DEF ExpireClaim
<1>31. ASSUME UNCHANGED vars PROVE FencesAreOwn'
  BY <1>31 DEF vars, Held
<1>. QED
  BY <1>1, <1>2, <1>3, <1>4, <1>5, <1>6, <1>7, <1>8, <1>9, <1>10, <1>11, <1>12,
        <1>13, <1>14, <1>15, <1>16, <1>17, <1>18, <1>19, <1>20, <1>21, <1>22,
        <1>23, <1>24, <1>25, <1>26, <1>27, <1>28, <1>29, <1>30, <1>31
    DEF Next, Work, Mishap, Elsewhere

-----------------------------------------------------------------------------
(* A place is only granted where there is room, or to the operation that   *)
(* has it.                                                                 *)
LEMMA MoreHeld ==
    ASSUME AdmissionTypeOK, WithinBudgets, NEW o \in Ops, Held' = Held \cup {o},
           o \in Held \/ HasCapacity(o)
    PROVE  WithinBudgets'
<1>. SUFFICES ASSUME NEW b \in Budgets PROVE Cardinality(Held' \cap Covers[b]) <= MaxActive[b]
  BY DEF WithinBudgets
<1>1. MaxActive[b] \in Nat /\ Cardinality(Held \cap Covers[b]) <= MaxActive[b]
  BY AdmissionAssumption DEF WithinBudgets
<1>2. CASE o \in Held \/ o \notin Covers[b]
  <2>1. Held' \cap Covers[b] = Held \cap Covers[b]
    BY <1>2
  <2>. QED
    BY <1>1, <2>1
<1>3. CASE o \notin Held /\ o \in Covers[b]
  <2>1. IsFiniteSet(Held \cap Covers[b])
    BY AdmissionAssumption, FS_Subset DEF Held
  <2>2. Cardinality(Held \cap Covers[b]) \in Nat /\ Cardinality(Held \cap Covers[b]) < MaxActive[b]
    BY <1>3, <2>1, FS_CardinalityType DEF HasCapacity
  <2>3. Held' \cap Covers[b] = (Held \cap Covers[b]) \cup {o} /\ o \notin Held \cap Covers[b]
    BY <1>3
  <2>4. Cardinality((Held \cap Covers[b]) \cup {o}) = Cardinality(Held \cap Covers[b]) + 1
    BY <2>1, <2>3, FS_AddElement
  <2>5. Cardinality(Held' \cap Covers[b]) = Cardinality(Held \cap Covers[b]) + 1
    BY <2>3, <2>4
  <2>. QED
    BY <1>1, <2>2, <2>5
<1>. QED
  BY <1>2, <1>3

(* Giving places back keeps every budget.                                  *)
LEMMA LessHeld ==
    ASSUME AdmissionTypeOK, WithinBudgets, Held' \subseteq Held
    PROVE  WithinBudgets'
<1>. SUFFICES ASSUME NEW b \in Budgets PROVE Cardinality(Held' \cap Covers[b]) <= MaxActive[b]
  BY DEF WithinBudgets
<1>1. MaxActive[b] \in Nat /\ Cardinality(Held \cap Covers[b]) <= MaxActive[b]
  BY AdmissionAssumption DEF WithinBudgets
<1>2. IsFiniteSet(Held \cap Covers[b])
  BY AdmissionAssumption, FS_Subset DEF Held
<1>3. Held' \cap Covers[b] \subseteq Held \cap Covers[b]
  OBVIOUS
<1>4. /\ IsFiniteSet(Held' \cap Covers[b])
      /\ Cardinality(Held' \cap Covers[b]) <= Cardinality(Held \cap Covers[b])
  BY <1>2, <1>3, FS_Subset
<1>5. Cardinality(Held' \cap Covers[b]) \in Nat /\ Cardinality(Held \cap Covers[b]) \in Nat
  BY <1>2, <1>4, FS_CardinalityType
<1>. QED
  BY <1>1, <1>4, <1>5

(* No step of the system exceeds a budget.                                 *)
LEMMA BudgetsStep ==
    ASSUME AdmissionTypeOK, WorkersAgree, WithinBudgets, [Next]_vars
    PROVE  WithinBudgets'
<1>1. ASSUME NEW o \in Ops, NEW t, AcquireRow(o, t)
      PROVE  WithinBudgets'
  <2>1. CASE UNCHANGED rowVars
    BY <2>1, HeldKinds, LessHeld, <1>1 DEF rowVars
  <2>2. CASE Install(o, t) /\ (o \in Held \/ HasCapacity(o))
    BY <2>2, HeldKinds, MoreHeld
  <2>. QED
    BY <1>1, <2>1, <2>2, AcquireKinds
<1>2. ASSUME Held' \subseteq Held PROVE WithinBudgets'
  BY <1>2, LessHeld
<1>3. \A p \in Procs : pc[p] # "idle" => op[p] \in Ops
  BY DEF WorkersAgree
<1>4. ASSUME NEW p \in Procs, Acquire(p) \/ AcquireUnanswered(p)
      PROVE  WithinBudgets'
  BY <1>1, <1>3, <1>4 DEF Acquire, AcquireUnanswered, At
<1>5. ASSUME NEW p \in Procs, Release(p) \/ ReleaseUnanswered(p)
      PROVE  WithinBudgets'
  BY <1>2, <1>3, <1>5, ReleaseKinds, HeldKinds DEF Release, ReleaseUnanswered, At, rowVars
<1>6. ASSUME NEW p \in Procs, Recover(p) \/ Resolve(p)
      PROVE  WithinBudgets'
  BY <1>2, <1>3, <1>6, HeldKinds DEF Recover, Resolve, At, ResolveRow, rowVars
<1>7. ASSUME NEW o \in Ops, Sweep(o)
      PROVE  WithinBudgets'
  BY <1>2, <1>7, HeldKinds DEF Sweep, ResolveRow
<1>8. ASSUME UNCHANGED state PROVE WithinBudgets'
  BY <1>2, <1>8 DEF Held
<1>9. ASSUME NEW p \in Procs, NEW o \in Ops, ClaimJob(p, o)
      PROVE  WithinBudgets'
  BY <1>8, <1>9 DEF ClaimJob, rowVars
<1>10. ASSUME NEW p \in Procs,
              \/ Bind(p) \/ AcquireWaits(p) \/ AcquireRefused(p)
              \/ Reserve(p) \/ ReserveFails(p) \/ PostAccepted(p)
              \/ Attach(p) \/ AttachFails(p) \/ Finish(p) \/ PollAgain(p)
              \/ EndHandler(p) \/ LostClaim(p)
              \/ PostUnanswered(p) \/ PostRejected(p) \/ Crash(p)
       PROVE  WithinBudgets'
  BY <1>8, <1>10
     DEF Bind, AcquireWaits, AcquireRefused, Reserve, ReserveFails, PostAccepted, Attach,
         AttachFails, Finish, PollAgain, EndHandler, LostClaim, PostUnanswered, PostRejected,
         Crash, rowVars
<1>11. ASSUME NEW o \in Ops,
              \/ ExhaustJob(o) \/ RequestFails(o) \/ SettleRun(o) \/ OperatorResolves(o)
              \/ ActorEnds(o) \/ ExpireRow(o) \/ ExpireClaim(o)
       PROVE  WithinBudgets'
  BY <1>8, <1>11
     DEF ExhaustJob, RequestFails, SettleRun, OperatorResolves, ActorEnds, ExpireRow,
         ExpireClaim, rowVars
<1>12. ASSUME UNCHANGED vars PROVE WithinBudgets'
  BY <1>8, <1>12 DEF vars, rowVars
<1>. QED
  BY <1>4, <1>5, <1>6, <1>7, <1>9, <1>10, <1>11, <1>12 DEF Next, Work, Mishap, Elsewhere

-----------------------------------------------------------------------------
(* The inductive invariant is kept by every step.                          *)
LEMMA AInvStep == AInv /\ [Next]_vars => AInv'
  BY TypeStep, WorkersStep, ClaimsStep, RunsStep, ActorsStep, StartsStep, ReserverStep,
     FencesStep, BudgetsStep DEF AInv

(* So it holds in every reachable state.                                   *)
THEOREM Inductive == AdmissionSpec => []AInv
<1>1. AdmissionInit => AInv
  BY InitAInv
<1>2. AInv /\ [Next]_vars => AInv'
  BY AInvStep
<1>. QED
  BY <1>1, <1>2, PTL DEF AdmissionSpec

(* Every column and every worker has its type, whatever the interleaving   *)
(* of workers, sweeps and timeouts.                                        *)
THEOREM TypesHold == AdmissionSpec => []AdmissionTypeOK
<1>1. AInv => AdmissionTypeOK
  BY DEF AInv
<1>. QED
  BY <1>1, Inductive, PTL

(* However many leases expire, are taken over or recovered, no budget of   *)
(* analysis_provider_admission_budgets is ever exceeded.                   *)
THEOREM BudgetsHold == AdmissionSpec => []WithinBudgets
<1>1. AInv => WithinBudgets
  BY DEF AInv
<1>. QED
  BY <1>1, Inductive, PTL

(* An Actor that runs at the provider has a place, so the budgets bound    *)
(* what really runs and not only what the table says.                      *)
THEOREM ActorsHavePlaces == AdmissionSpec => []ActorsAreCounted
<1>1. AInv => ActorsAreCounted
  BY DEF AInv, AdmissionTypeOK, ActorsAreCounted, ActorsHaveRuns, RunsAreCounted
<1>. QED
  BY <1>1, Inductive, PTL

(* At most one worker knows the current fence of a lease that is held.     *)
THEOREM FenceHasOneHolder == AdmissionSpec => []OneHolder
<1>1. AInv => OneHolder
  <2>. SUFFICES ASSUME AInv, NEW p \in Procs, NEW q \in Procs,
                       op[p] = op[q], op[p] \in Held,
                       known[p] = fence[op[p]], known[q] = fence[op[q]]
                PROVE  p = q
    BY DEF OneHolder
  <2>1. op[p] \in Ops
    BY DEF Held
  <2>2. token[p] = holder[op[p]] /\ token[q] = holder[op[p]]
    BY <2>1 DEF AInv, FencesAreOwn
  <2>. QED
    BY <2>1, <2>2 DEF AInv, ClaimsAreOwn
<1>. QED
  BY <1>1, Inductive, PTL

-----------------------------------------------------------------------------
(* The admission is the counting semaphore of CapacityPool: each step is a  *)
(* step of the pool or leaves it alone.                                    *)
LEMMA PoolAlone ==
    ASSUME Held' = Held, actor' = actor
    PROVE  [Pool!PoolNext]_(Pool!poolVars)
  BY DEF Pool!poolVars

(* The pool counts as the lease table does. *)
LEMMA SameCount == ASSUME NEW S PROVE Pool!Cardinality(S) = Cardinality(S)
  BY DEF Pool!Cardinality, Cardinality

(* An admission with room in the budgets is a take of the pool.            *)
LEMMA PoolTake ==
    ASSUME AInv, NEW o \in Ops, NEW t, AcquireRow(o, t), actor' = actor
    PROVE  [Pool!PoolNext]_(Pool!poolVars)
<1>0. AdmissionTypeOK
  BY DEF AInv
<1>1. CASE UNCHANGED rowVars
  BY <1>0, <1>1, HeldKinds, PoolAlone DEF rowVars
<1>2. CASE Install(o, t) /\ o \in Held
  <2>1. Held' = Held
    BY <1>0, <1>2, HeldKinds
  <2>. QED
    BY <2>1, PoolAlone
<1>3. CASE Install(o, t) /\ o \notin Held /\ HasCapacity(o)
  <2>1. Held' = Held \cup {o}
    BY <1>0, <1>3, HeldKinds
  <2>2. Pool!HasRoom(o)
    BY <1>3, SameCount DEF Pool!HasRoom, HasCapacity
  <2>3. Pool!Take(o)
    BY <1>3, <2>1, <2>2 DEF Pool!Take
  <2>. QED
    BY <2>3 DEF Pool!PoolNext
<1>. QED
  BY <1>0, <1>1, <1>2, <1>3, AcquireKinds

(* A place freed by a settled ledger is a give of the pool: no Actor uses  *)
(* it.                                                                     *)
LEMMA PoolGive ==
    ASSUME AInv, NEW o \in Ops, o \in Held, Settled(o), NEW why, FreeRow(o, why), actor' = actor
    PROVE  [Pool!PoolNext]_(Pool!poolVars)
<1>1. o \notin actor
  BY SettledRuns DEF AInv, ActorsHaveRuns
<1>2. Held' = Held \ {o}
  BY HeldKinds DEF AInv
<1>3. Pool!Give(o)
  BY <1>1, <1>2 DEF Pool!Give
<1>. QED
  BY <1>3 DEF Pool!PoolNext

(* An Actor that ends is a stop of the pool.                               *)
LEMMA PoolStop ==
    ASSUME NEW o \in Ops, Held' = Held, actor' \in {actor, actor \ {o}}
    PROVE  [Pool!PoolNext]_(Pool!poolVars)
<1>1. CASE actor' = actor
  BY <1>1, PoolAlone
<1>2. CASE actor' = actor \ {o} /\ o \in actor
  BY <1>2 DEF Pool!PoolNext, Pool!Stop
<1>3. CASE actor' = actor \ {o} /\ o \notin actor
  <2>1. actor' = actor
    BY <1>3
  <2>. QED
    BY <2>1, PoolAlone
<1>. QED
  BY <1>1, <1>2, <1>3

(* An accepted start uses a place that is taken.                           *)
LEMMA PoolUse ==
    ASSUME AInv, NEW p \in Procs, pc[p] = "post", Held' = Held,
           actor' \in {actor, actor \cup {op[p]}}
    PROVE  [Pool!PoolNext]_(Pool!poolVars)
<1>1. op[p] \in Ops /\ op[p] \notin actor /\ op[p] \in Held
  BY DEF AInv, WorkersAgree, StartsAreSingle, Starting, RunsAreCounted, Going
<1>2. CASE actor' = actor
  BY <1>2, PoolAlone
<1>3. CASE actor' = actor \cup {op[p]}
  <2>1. Pool!Use(op[p])
    BY <1>1, <1>3 DEF Pool!Use
  <2>. QED
    BY <1>1, <2>1 DEF Pool!PoolNext
<1>. QED
  BY <1>2, <1>3

(* Every step of the admission is a step of the pool or a stutter.         *)
LEMMA PoolStep == AInv /\ [Next]_vars => [Pool!PoolNext]_(Pool!poolVars)
<1>. SUFFICES ASSUME AInv, [Next]_vars PROVE [Pool!PoolNext]_(Pool!poolVars)
  OBVIOUS
<1>. DEFINE Goal == [Pool!PoolNext]_(Pool!poolVars)
<1>1. \A p \in Procs : pc[p] # "idle" => op[p] \in Ops
  BY DEF AInv, WorkersAgree
<1>2. UNCHANGED rowVars => Held' = Held
  BY DEF Held, rowVars
<1>. HIDE DEF Goal
<1>3. ASSUME NEW p \in Procs, Acquire(p) \/ AcquireUnanswered(p)
      PROVE  Goal
  BY <1>1, <1>3, PoolTake DEF Acquire, AcquireUnanswered, At, Goal
<1>4. ASSUME NEW p \in Procs, Release(p) \/ ReleaseUnanswered(p)
      PROVE  Goal
  BY <1>1, <1>2, <1>4, ReleaseKinds, PoolGive, PoolAlone
    DEF Release, ReleaseUnanswered, At, Goal
<1>5. ASSUME NEW o \in Ops, RecoverRow(o), UNCHANGED actor
      PROVE  Goal
  BY <1>5, HeldKinds, PoolAlone DEF Goal, AInv
<1>6. ASSUME NEW o \in Ops, ResolveRow(o), UNCHANGED actor
      PROVE  Goal
  BY <1>6, PoolGive DEF ResolveRow, CanResolve, Held, Goal
<1>7. ASSUME NEW p \in Procs, Recover(p) \/ Resolve(p)
      PROVE  Goal
  BY <1>1, <1>2, <1>5, <1>6, <1>7, PoolAlone DEF Recover, Resolve, At, Goal
<1>8. ASSUME NEW o \in Ops, Sweep(o)
      PROVE  Goal
  BY <1>5, <1>6, <1>8 DEF Sweep
<1>9. ASSUME NEW p \in Procs, PostAccepted(p) \/ PostUnanswered(p)
      PROVE  Goal
  BY <1>2, <1>9, PoolUse DEF PostAccepted, PostUnanswered, At, Goal
<1>10. ASSUME NEW p \in Procs, AttachFails(p)
       PROVE  Goal
  BY <1>1, <1>2, <1>10, PoolStop DEF AttachFails, At, Goal
<1>11. ASSUME NEW o \in Ops, SettleRun(o) \/ ActorEnds(o)
       PROVE  Goal
  BY <1>2, <1>11, PoolStop DEF SettleRun, ActorEnds, Goal
<1>12. ASSUME UNCHANGED state, UNCHANGED actor PROVE Goal
  BY <1>12, PoolAlone DEF Held, Goal
<1>13. ASSUME NEW p \in Procs, NEW o \in Ops, ClaimJob(p, o)
       PROVE  Goal
  BY <1>12, <1>13 DEF ClaimJob, rowVars
<1>14. ASSUME NEW p \in Procs,
              \/ Bind(p) \/ AcquireWaits(p) \/ AcquireRefused(p)
              \/ Reserve(p) \/ ReserveFails(p) \/ Attach(p) \/ Finish(p) \/ PollAgain(p)
              \/ EndHandler(p) \/ LostClaim(p) \/ PostRejected(p) \/ Crash(p)
       PROVE  Goal
  BY <1>12, <1>14
     DEF Bind, AcquireWaits, AcquireRefused, Reserve, ReserveFails, Attach, Finish, PollAgain,
         EndHandler, LostClaim, PostRejected, Crash, rowVars
<1>15. ASSUME NEW o \in Ops,
              \/ ExhaustJob(o) \/ RequestFails(o) \/ OperatorResolves(o)
              \/ ExpireRow(o) \/ ExpireClaim(o)
       PROVE  Goal
  BY <1>12, <1>15
    DEF ExhaustJob, RequestFails, OperatorResolves, ExpireRow, ExpireClaim, rowVars
<1>16. ASSUME UNCHANGED vars PROVE Goal
  BY <1>12, <1>16 DEF vars, rowVars
<1>17. Goal
  BY <1>3, <1>4, <1>7, <1>8, <1>9, <1>10, <1>11, <1>13, <1>14, <1>15, <1>16
     DEF Next, Work, Mishap, Elsewhere
<1>. QED
  BY <1>17 DEF Goal

(* The lease table, the run ledger and the workers together implement the  *)
(* pool, for every number of operations, workers and budgets.              *)
THEOREM AdmissionImplementsPool == AdmissionSpec => ImplementsPool
<1>1. AdmissionInit => Pool!PoolInit
  BY DEF AdmissionInit, Pool!PoolInit, Held
<1>2. AInv /\ [Next]_vars => [Pool!PoolNext]_(Pool!poolVars)
  BY PoolStep
<1>. QED
  BY <1>1, <1>2, Inductive, PTL DEF AdmissionSpec, ImplementsPool, Pool!PoolSpec
=============================================================================
