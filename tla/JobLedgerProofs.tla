--------------------------- MODULE JobLedgerProofs ---------------------------
(***************************************************************************)
(* Proofs about JobLedger, for every graph, number of tokens and limit.    *)
(*                                                                         *)
(* The invariants are proved together: IInv is inductive, with one lemma   *)
(* for the part of each conjunct and one step for each function of the     *)
(* ledger.  OutcomeAgrees is what the other parts lean on: a request that  *)
(* is over has no pending or processing job, so no function whose guard    *)
(* needs only a lease can touch it.  The action properties and the         *)
(* refinement of RequestLifecycle follow from the same invariant.          *)
(***************************************************************************)
EXTENDS JobLedger, TLAPS

(* The inductive invariant. *)
IInv ==
    /\ TypeOK
    /\ RowChecks
    /\ DependencyOrder
    /\ OutcomeAgrees
    /\ NothingChargesAfterTheEnd

(* Bootstrap is the only row, nothing is claimed, no run exists. *)
LEMMA InitIInv == Init => IInv
<1>. SUFFICES ASSUME Init PROVE IInv
  OBVIOUS
<1>. USE LedgerAssumption, DagAssumption DEF Init
<1>1. TypeOK
  BY DEF TypeOK, Statuses, Dispatches, RunStatuses
<1>2. RowChecks /\ DependencyOrder
  BY DEF RowChecks, DependencyOrder
<1>3. OutcomeAgrees
  BY DEF OutcomeAgrees, Active, NoIntent
<1>4. NothingChargesAfterTheEnd
  BY DEF NothingChargesAfterTheEnd, Active
<1>. QED
  BY <1>1, <1>2, <1>3, <1>4 DEF IInv

-----------------------------------------------------------------------------
(* Every function keeps the column types. *)
LEMMA TypeStep ==
    ASSUME TypeOK, [Next]_ledgerVars
    PROVE  TypeOK'
<1>. USE LedgerAssumption, DagAssumption
    DEF TypeOK, rowVars, runVars, Statuses, Dispatches, RunStatuses, Codes, Intents, NoIntent,
            Proposals, Successors
<1>1. ASSUME NEW j \in Jobs, Reserve(j)
      PROVE  TypeOK'
  BY <1>1 DEF Reserve
<1>2. ASSUME NEW j \in Jobs, NEW g \in 1..MaxGen, MarkDispatched(j, g)
      PROVE  TypeOK'
  BY <1>2 DEF MarkDispatched
<1>3. ASSUME NEW j \in Jobs, NEW g \in 1..MaxGen, Rearm(j, g)
      PROVE  TypeOK'
  BY <1>3 DEF Rearm, Claimable, NextGeneration, Unclaim
<1>4. ASSUME NEW j \in Jobs, NEW t \in Tokens, NEW g \in 1..MaxGen, ClaimAttempt(j, t, g)
      PROVE  TypeOK'
  BY <1>4 DEF ClaimAttempt, Claimable, AttemptsLeft, Lease
<1>5. ASSUME NEW j \in Jobs, NEW t \in Tokens, NEW g \in 1..MaxGen, ClaimExhausted(j, t, g)
      PROVE  TypeOK'
  BY <1>5 DEF ClaimExhausted, Claimable, AttemptsLeft, Lease
<1>6. ASSUME NEW j \in Jobs, NEW t \in Tokens, NEW g \in 1..MaxGen, Takeover(j, t, g)
      PROVE  TypeOK'
  <2>1. intent \in Intents
    BY <1>6 DEF Takeover, OwnIntent
  <2>2. intent' \in Intents
    BY <2>1, <1>6 DEF Takeover
  <2>. QED
    BY <2>2, <1>6 DEF Takeover
<1>7. ASSUME NEW j \in Jobs, NEW t \in Tokens, Release(j, t)
      PROVE  TypeOK'
  BY <1>7 DEF Release, Unclaim, Holds
<1>8. ASSUME NEW j \in Jobs, NEW t \in Tokens, DeferCleanup(j, t)
      PROVE  TypeOK'
  BY <1>8 DEF DeferCleanup, Unclaim, Holds
<1>9. ASSUME NEW j \in Jobs, NEW t \in Tokens, DeferAiCapacity(j, t)
      PROVE  TypeOK'
  BY <1>9 DEF DeferAiCapacity, Unclaim, Refund, Holds
<1>10. ASSUME NEW j \in Jobs, NEW t \in Tokens, ContinueScheduler(j, t)
      PROVE  TypeOK'
  BY <1>10 DEF ContinueScheduler, NextGeneration, Unclaim, Refund, Holds
<1>11. ASSUME NEW j \in Jobs, ExpireLease(j)
      PROVE  TypeOK'
  BY <1>11 DEF ExpireLease
<1>12. ASSUME NEW j \in Jobs, NEW t \in Tokens, Checkpoint(j, t)
      PROVE  TypeOK'
  BY <1>12 DEF Checkpoint, Holds
<1>13. ASSUME NEW j \in Jobs, NEW t \in Tokens, NEW proposed \in SUBSET Proposals(j),
        CompleteAndFanout(j, t, proposed)
      PROVE  TypeOK'
  BY <1>13 DEF CompleteAndFanout, Holds, Inserted
<1>14. ASSUME NEW j \in Jobs, ReplayFanout(j)
      PROVE  TypeOK'
  BY <1>14 DEF ReplayFanout, Inserted
<1>15. ASSUME NEW j \in Jobs, NEW t \in Tokens, NEW c \in Codes, RequestCleanup(j, t, c)
      PROVE  TypeOK'
  <2>1. CASE intent = NoIntent
    <3>1. intent' = [job |-> j, token |-> t, code |-> c, open |-> TRUE, taken |-> FALSE]
      BY <2>1, <1>15 DEF RequestCleanup, OwnIntent
    <3>2. intent' \in Intents
      BY <3>1
    <3>. QED
      BY <3>2, <1>15 DEF RequestCleanup
  <2>2. CASE OwnIntent(j)
    <3>1. intent \in Intents
      BY <2>2 DEF OwnIntent
    <3>2. intent' = [intent EXCEPT !.token = t]
      BY <2>2, <1>15 DEF RequestCleanup, OwnIntent
    <3>3. intent' \in Intents
      BY <3>1, <3>2
    <3>. QED
      BY <3>3, <1>15 DEF RequestCleanup
  <2>. QED
    BY <2>1, <2>2, <1>15 DEF RequestCleanup
<1>16. ASSUME NEW j \in Jobs, NEW t \in Tokens, FailRequest(j, t)
      PROVE  TypeOK'
  <2>1. intent \in Intents
    BY <1>16 DEF FailRequest, OwnIntent
  <2>2. intent' \in Intents
    BY <2>1, <1>16 DEF FailRequest
  <2>. QED
    BY <2>2, <1>16 DEF FailRequest
<1>17. ASSUME NEW j \in Jobs, NEW t \in Tokens, ReserveRun(j, t)
      PROVE  TypeOK'
  BY <1>17 DEF ReserveRun, Holds
<1>18. ASSUME NEW j \in Jobs, NEW t \in Tokens, StartRun(j, t)
      PROVE  TypeOK'
  BY <1>18 DEF StartRun, Holds
<1>19. ASSUME NEW j \in Jobs, NEW t \in Tokens, FinishRun(j, t)
      PROVE  TypeOK'
  BY <1>19 DEF FinishRun
<1>20. ASSUME NEW j \in Jobs, NEW t \in Tokens, RejectRun(j, t)
      PROVE  TypeOK'
  BY <1>20 DEF RejectRun
<1>21. ASSUME NEW j \in Jobs, SettleRun(j)
      PROVE  TypeOK'
  BY <1>21 DEF SettleRun
<1>22. ASSUME NEW j \in Jobs, ResolveStart(j)
      PROVE  TypeOK'
  BY <1>22 DEF ResolveStart
<1>23. ASSUME NEW t \in Tokens, CompleteResult(t)
      PROVE  TypeOK'
  BY <1>23 DEF CompleteResult, ResultReady, JobsReady, NoRunIsOpen, Holds
<1>24. ASSUME UNCHANGED ledgerVars
      PROVE  TypeOK'
  BY <1>24 DEF ledgerVars, rowVars, runVars
<1>. QED
  <2>1. ASSUME NEW j \in Jobs, DispatchStep(j) PROVE TypeOK'
    BY <2>1, <1>1, <1>2, <1>3
    DEF DispatchStep
  <2>2. ASSUME NEW j \in Jobs, ClaimStep(j) PROVE TypeOK'
    BY <2>2, <1>11, <1>4, <1>5, <1>6, <1>7, <1>8, <1>9, <1>10
    DEF ClaimStep
  <2>3. ASSUME NEW j \in Jobs, SettleStep(j) PROVE TypeOK'
    BY <2>3, <1>14, <1>12, <1>13, <1>15, <1>16
    DEF SettleStep
  <2>4. ASSUME NEW j \in Jobs, RunStep(j) PROVE TypeOK'
    BY <2>4, <1>17, <1>18, <1>19, <1>20, <1>21, <1>22
    DEF RunStep
  <2>5. QED
    BY <2>1, <2>2, <2>3, <2>4, <1>24, <1>23 DEF Next, ledgerVars

(* No function drives a row into a CHECK constraint of its table. *)
LEMMA RowChecksStep ==
    ASSUME TypeOK, RowChecks, [Next]_ledgerVars
    PROVE  RowChecks'
<1>. USE LedgerAssumption, DagAssumption
    DEF TypeOK, RowChecks, Statuses, Dispatches, Proposals, Successors, rowVars, runVars
<1>1. ASSUME NEW j \in Jobs, Reserve(j)
      PROVE  RowChecks'
  BY <1>1 DEF Reserve
<1>2. ASSUME NEW j \in Jobs, NEW g \in 1..MaxGen, MarkDispatched(j, g)
      PROVE  RowChecks'
  BY <1>2 DEF MarkDispatched
<1>3. ASSUME NEW j \in Jobs, NEW g \in 1..MaxGen, Rearm(j, g)
      PROVE  RowChecks'
  BY <1>3 DEF Rearm, Claimable, NextGeneration, Unclaim
<1>4. ASSUME NEW j \in Jobs, NEW t \in Tokens, NEW g \in 1..MaxGen, ClaimAttempt(j, t, g)
      PROVE  RowChecks'
  BY <1>4 DEF ClaimAttempt, Claimable, AttemptsLeft, Lease
<1>5. ASSUME NEW j \in Jobs, NEW t \in Tokens, NEW g \in 1..MaxGen, ClaimExhausted(j, t, g)
      PROVE  RowChecks'
  BY <1>5 DEF ClaimExhausted, Claimable, AttemptsLeft, Lease
<1>6. ASSUME NEW j \in Jobs, NEW t \in Tokens, NEW g \in 1..MaxGen, Takeover(j, t, g)
      PROVE  RowChecks'
  BY <1>6 DEF Takeover, OwnIntent
<1>7. ASSUME NEW j \in Jobs, NEW t \in Tokens, Release(j, t)
      PROVE  RowChecks'
  BY <1>7 DEF Release, Unclaim, Holds
<1>8. ASSUME NEW j \in Jobs, NEW t \in Tokens, DeferCleanup(j, t)
      PROVE  RowChecks'
  BY <1>8 DEF DeferCleanup, Unclaim, Holds
<1>9. ASSUME NEW j \in Jobs, NEW t \in Tokens, DeferAiCapacity(j, t)
      PROVE  RowChecks'
  BY <1>9 DEF DeferAiCapacity, Unclaim, Refund, Holds
<1>10. ASSUME NEW j \in Jobs, NEW t \in Tokens, ContinueScheduler(j, t)
      PROVE  RowChecks'
  BY <1>10 DEF ContinueScheduler, NextGeneration, Unclaim, Refund, Holds
<1>11. ASSUME NEW j \in Jobs, ExpireLease(j)
      PROVE  RowChecks'
  BY <1>11 DEF ExpireLease
<1>12. ASSUME NEW j \in Jobs, NEW t \in Tokens, NEW proposed \in SUBSET Proposals(j),
        CompleteAndFanout(j, t, proposed)
      PROVE  RowChecks'
  BY <1>12 DEF CompleteAndFanout, Holds, Inserted
<1>13. ASSUME NEW j \in Jobs, ReplayFanout(j)
      PROVE  RowChecks'
  BY <1>13 DEF ReplayFanout, Inserted
<1>14. ASSUME NEW j \in Jobs, NEW t \in Tokens, FailRequest(j, t)
      PROVE  RowChecks'
  BY <1>14 DEF FailRequest, OwnIntent, Holds
<1>15. ASSUME NEW t \in Tokens, CompleteResult(t)
      PROVE  RowChecks'
  BY <1>15 DEF CompleteResult, ResultReady, JobsReady, NoRunIsOpen, Holds
<1>16. ASSUME UNCHANGED rowVars
      PROVE  RowChecks'
  BY <1>16 DEF rowVars
<1>. QED
  <2>1. ASSUME NEW j \in Jobs, DispatchStep(j) PROVE RowChecks'
    BY <2>1, <1>1, <1>2, <1>3
    DEF DispatchStep
  <2>2. ASSUME NEW j \in Jobs, ClaimStep(j) PROVE RowChecks'
    BY <2>2, <1>11, <1>4, <1>5, <1>6, <1>7, <1>8, <1>9, <1>10
    DEF ClaimStep
  <2>3. ASSUME NEW j \in Jobs, SettleStep(j) PROVE RowChecks'
    BY <2>3, <1>13, <1>12, <1>14, <1>16
    DEF SettleStep, Checkpoint, RequestCleanup
  <2>4. ASSUME NEW j \in Jobs, RunStep(j) PROVE RowChecks'
    BY <2>4, <1>16
    DEF RunStep, ReserveRun, StartRun, FinishRun, RejectRun, SettleRun, ResolveStart
  <2>5. QED
    BY <2>1, <2>2, <2>3, <2>4, <1>16, <1>15 DEF Next, ledgerVars

(* A job is inserted only when its requirements have completed, and a
   completed job stays completed. *)
LEMMA DependencyStep ==
    ASSUME TypeOK, DependencyOrder, [Next]_ledgerVars
    PROVE  DependencyOrder'
<1>. USE LedgerAssumption, DagAssumption
    DEF TypeOK, DependencyOrder, Completed, Statuses, Dispatches, Proposals, Successors,
            rowVars, runVars
<1>1. ASSUME NEW j \in Jobs, NEW g \in 1..MaxGen, Rearm(j, g)
      PROVE  DependencyOrder'
  BY <1>1 DEF Rearm, Claimable, NextGeneration, Unclaim
<1>2. ASSUME NEW j \in Jobs, NEW t \in Tokens, NEW g \in 1..MaxGen, ClaimAttempt(j, t, g)
      PROVE  DependencyOrder'
  BY <1>2 DEF ClaimAttempt, Claimable, AttemptsLeft, Lease
<1>3. ASSUME NEW j \in Jobs, NEW t \in Tokens, NEW g \in 1..MaxGen, ClaimExhausted(j, t, g)
      PROVE  DependencyOrder'
  BY <1>3 DEF ClaimExhausted, Claimable, AttemptsLeft, Lease
<1>4. ASSUME NEW j \in Jobs, NEW t \in Tokens, Release(j, t)
      PROVE  DependencyOrder'
  BY <1>4 DEF Release, Unclaim, Holds
<1>5. ASSUME NEW j \in Jobs, NEW t \in Tokens, DeferCleanup(j, t)
      PROVE  DependencyOrder'
  BY <1>5 DEF DeferCleanup, Unclaim, Holds
<1>6. ASSUME NEW j \in Jobs, NEW t \in Tokens, DeferAiCapacity(j, t)
      PROVE  DependencyOrder'
  BY <1>6 DEF DeferAiCapacity, Unclaim, Refund, Holds
<1>7. ASSUME NEW j \in Jobs, NEW t \in Tokens, ContinueScheduler(j, t)
      PROVE  DependencyOrder'
  BY <1>7 DEF ContinueScheduler, NextGeneration, Unclaim, Refund, Holds
<1>8. ASSUME NEW j \in Jobs, NEW t \in Tokens, NEW proposed \in SUBSET Proposals(j),
        CompleteAndFanout(j, t, proposed)
      PROVE  DependencyOrder'
  BY <1>8 DEF CompleteAndFanout, Holds, Inserted
<1>9. ASSUME NEW j \in Jobs, ReplayFanout(j)
      PROVE  DependencyOrder'
  BY <1>9 DEF ReplayFanout, Inserted
<1>10. ASSUME NEW j \in Jobs, NEW t \in Tokens, FailRequest(j, t)
      PROVE  DependencyOrder'
  BY <1>10 DEF FailRequest, OwnIntent, Holds
<1>11. ASSUME NEW t \in Tokens, CompleteResult(t)
      PROVE  DependencyOrder'
  BY <1>11 DEF CompleteResult, ResultReady, JobsReady, NoRunIsOpen, Holds
<1>12. ASSUME UNCHANGED status
      PROVE  DependencyOrder'
  BY <1>12 DEF rowVars
<1>. QED
  <2>1. ASSUME NEW j \in Jobs, DispatchStep(j) PROVE DependencyOrder'
    BY <2>1, <1>1, <1>12
    DEF DispatchStep, Reserve, MarkDispatched
  <2>2. ASSUME NEW j \in Jobs, ClaimStep(j) PROVE DependencyOrder'
    BY <2>2, <1>2, <1>3, <1>4, <1>5, <1>6, <1>7, <1>12
    DEF ClaimStep, ExpireLease, Takeover
  <2>3. ASSUME NEW j \in Jobs, SettleStep(j) PROVE DependencyOrder'
    BY <2>3, <1>9, <1>8, <1>10, <1>12
    DEF SettleStep, Checkpoint, RequestCleanup
  <2>4. ASSUME NEW j \in Jobs, RunStep(j) PROVE DependencyOrder'
    BY <2>4, <1>12
    DEF RunStep, ReserveRun, StartRun, FinishRun, RejectRun, SettleRun, ResolveStart
  <2>5. QED
    BY <2>1, <2>2, <2>3, <2>4, <1>12, <1>11 DEF Next, ledgerVars

(* The request row, the job rows and the failure intent end together. *)
LEMMA OutcomeStep ==
    ASSUME TypeOK, OutcomeAgrees, [Next]_ledgerVars
    PROVE  OutcomeAgrees'
<1>. USE LedgerAssumption, DagAssumption
    DEF TypeOK, OutcomeAgrees, Active, Completed, Statuses, Dispatches, Intents, NoIntent,
            Codes, Proposals, Successors, rowVars, runVars
<1>1. ASSUME NEW j \in Jobs, NEW g \in 1..MaxGen, Rearm(j, g)
      PROVE  OutcomeAgrees'
  BY <1>1 DEF Rearm, Claimable, NextGeneration, Unclaim
<1>2. ASSUME NEW j \in Jobs, NEW t \in Tokens, NEW g \in 1..MaxGen, ClaimAttempt(j, t, g)
      PROVE  OutcomeAgrees'
  BY <1>2 DEF ClaimAttempt, Claimable, AttemptsLeft, Lease
<1>3. ASSUME NEW j \in Jobs, NEW t \in Tokens, NEW g \in 1..MaxGen, ClaimExhausted(j, t, g)
      PROVE  OutcomeAgrees'
  BY <1>3 DEF ClaimExhausted, Claimable, AttemptsLeft, Lease
<1>4. ASSUME NEW j \in Jobs, NEW t \in Tokens, NEW g \in 1..MaxGen, Takeover(j, t, g)
      PROVE  OutcomeAgrees'
  BY <1>4 DEF Takeover, OwnIntent
<1>5. ASSUME NEW j \in Jobs, NEW t \in Tokens, Release(j, t)
      PROVE  OutcomeAgrees'
  BY <1>5 DEF Release, Unclaim, Holds
<1>6. ASSUME NEW j \in Jobs, NEW t \in Tokens, DeferCleanup(j, t)
      PROVE  OutcomeAgrees'
  BY <1>6 DEF DeferCleanup, Unclaim, Holds
<1>7. ASSUME NEW j \in Jobs, NEW t \in Tokens, DeferAiCapacity(j, t)
      PROVE  OutcomeAgrees'
  BY <1>7 DEF DeferAiCapacity, Unclaim, Refund, Holds
<1>8. ASSUME NEW j \in Jobs, NEW t \in Tokens, ContinueScheduler(j, t)
      PROVE  OutcomeAgrees'
  BY <1>8 DEF ContinueScheduler, NextGeneration, Unclaim, Refund, Holds
<1>9. ASSUME NEW j \in Jobs, NEW t \in Tokens, NEW proposed \in SUBSET Proposals(j),
        CompleteAndFanout(j, t, proposed)
      PROVE  OutcomeAgrees'
  BY <1>9 DEF CompleteAndFanout, Holds, Inserted
<1>10. ASSUME NEW j \in Jobs, ReplayFanout(j)
      PROVE  OutcomeAgrees'
  BY <1>10 DEF ReplayFanout, Inserted
<1>11. ASSUME NEW j \in Jobs, NEW t \in Tokens, NEW c \in Codes, RequestCleanup(j, t, c)
      PROVE  OutcomeAgrees'
  BY <1>11 DEF RequestCleanup, OwnIntent, Holds
<1>12. ASSUME NEW j \in Jobs, NEW t \in Tokens, FailRequest(j, t)
      PROVE  OutcomeAgrees'
  BY <1>12 DEF FailRequest, OwnIntent, Holds
<1>13. ASSUME NEW t \in Tokens, CompleteResult(t)
      PROVE  OutcomeAgrees'
  BY <1>13 DEF CompleteResult, ResultReady, JobsReady, NoRunIsOpen, Holds
<1>14. ASSUME UNCHANGED <<outcome, status, intent>>
      PROVE  OutcomeAgrees'
  BY <1>14 DEF rowVars
<1>. QED
  <2>1. ASSUME NEW j \in Jobs, DispatchStep(j) PROVE OutcomeAgrees'
    BY <2>1, <1>1, <1>14
    DEF DispatchStep, Reserve, MarkDispatched
  <2>2. ASSUME NEW j \in Jobs, ClaimStep(j) PROVE OutcomeAgrees'
    BY <2>2, <1>2, <1>3, <1>4, <1>5, <1>6, <1>7, <1>8, <1>14
    DEF ClaimStep, ExpireLease
  <2>3. ASSUME NEW j \in Jobs, SettleStep(j) PROVE OutcomeAgrees'
    BY <2>3, <1>10, <1>9, <1>11, <1>12, <1>14
    DEF SettleStep, Checkpoint
  <2>4. ASSUME NEW j \in Jobs, RunStep(j) PROVE OutcomeAgrees'
    BY <2>4, <1>14
    DEF RunStep, ReserveRun, StartRun, FinishRun, RejectRun, SettleRun, ResolveStart
  <2>5. QED
    BY <2>1, <2>2, <2>3, <2>4, <1>14, <1>13 DEF Next, ledgerVars

(* The guards of complete_result and fail_request leave no run behind, and a
   request that is over admits no new one. *)
LEMMA ChargesStep ==
    ASSUME TypeOK, OutcomeAgrees, NothingChargesAfterTheEnd, [Next]_ledgerVars
    PROVE  NothingChargesAfterTheEnd'
<1>. USE LedgerAssumption, DagAssumption
    DEF TypeOK, NothingChargesAfterTheEnd, Active, Unsettled, RunStatuses, rowVars, runVars
<1>1. ASSUME NEW j \in Jobs, NEW t \in Tokens, FailRequest(j, t)
      PROVE  NothingChargesAfterTheEnd'
  BY <1>1 DEF FailRequest, OwnIntent, Holds
<1>2. ASSUME NEW j \in Jobs, NEW t \in Tokens, ReserveRun(j, t)
      PROVE  NothingChargesAfterTheEnd'
  BY <1>2 DEF ReserveRun, Holds
<1>3. ASSUME NEW j \in Jobs, NEW t \in Tokens, StartRun(j, t)
      PROVE  NothingChargesAfterTheEnd'
  BY <1>3 DEF StartRun, Holds
<1>4. ASSUME NEW j \in Jobs, NEW t \in Tokens, FinishRun(j, t)
      PROVE  NothingChargesAfterTheEnd'
  BY <1>4 DEF FinishRun
<1>5. ASSUME NEW j \in Jobs, NEW t \in Tokens, RejectRun(j, t)
      PROVE  NothingChargesAfterTheEnd'
  BY <1>5 DEF RejectRun
<1>6. ASSUME NEW j \in Jobs, SettleRun(j)
      PROVE  NothingChargesAfterTheEnd'
  BY <1>6 DEF SettleRun
<1>7. ASSUME NEW j \in Jobs, ResolveStart(j)
      PROVE  NothingChargesAfterTheEnd'
  BY <1>7 DEF ResolveStart
<1>8. ASSUME NEW t \in Tokens, CompleteResult(t)
      PROVE  NothingChargesAfterTheEnd'
  BY <1>8 DEF CompleteResult, ResultReady, JobsReady, NoRunIsOpen, Holds
<1>9. ASSUME UNCHANGED <<outcome, runVars>>
      PROVE  NothingChargesAfterTheEnd'
  BY <1>9 DEF rowVars
<1>. QED
  <2>1. ASSUME NEW j \in Jobs, DispatchStep(j) PROVE NothingChargesAfterTheEnd'
    BY <2>1, <1>9
    DEF DispatchStep, Reserve, MarkDispatched, Rearm
  <2>2. ASSUME NEW j \in Jobs, ClaimStep(j) PROVE NothingChargesAfterTheEnd'
    BY <2>2, <1>9
    DEF ClaimStep, ExpireLease, ClaimAttempt, ClaimExhausted, Takeover, Release, DeferCleanup,
            DeferAiCapacity, ContinueScheduler
  <2>3. ASSUME NEW j \in Jobs, SettleStep(j) PROVE NothingChargesAfterTheEnd'
    BY <2>3, <1>1, <1>9
    DEF SettleStep, ReplayFanout, Checkpoint, CompleteAndFanout, RequestCleanup
  <2>4. ASSUME NEW j \in Jobs, RunStep(j) PROVE NothingChargesAfterTheEnd'
    BY <2>4, <1>2, <1>3, <1>4, <1>5, <1>6, <1>7
    DEF RunStep
  <2>5. QED
    BY <2>1, <2>2, <2>3, <2>4, <1>9, <1>8 DEF Next, ledgerVars

-----------------------------------------------------------------------------
(* IInv holds in every reachable state of the ledger: the base case and    *)
(* the step lemmas put together.                                           *)
THEOREM LedgerInvariant == Spec => []IInv
<1>1. IInv /\ [Next]_ledgerVars => IInv'
  BY TypeStep, RowChecksStep, DependencyStep, OutcomeStep, ChargesStep DEF IInv
<1>. QED
  BY InitIInv, <1>1, PTL DEF Spec

(* Every column keeps its type, whoever calls which function when.         *)
THEOREM LedgerTypeOK == Spec => []TypeOK
BY LedgerInvariant, PTL DEF IInv

(* No sequence of calls runs into a CHECK constraint of                    *)
(* analysis_pipeline_jobs.                                                 *)
THEOREM LedgerRowChecks == Spec => []RowChecks
BY LedgerInvariant, PTL DEF IInv

(* complete_and_fanout inserts a job only after everything it requires.    *)
THEOREM LedgerDependencyOrder == Spec => []DependencyOrder
BY LedgerInvariant, PTL DEF IInv

(* complete_result and fail_request leave the request and its jobs in      *)
(* agreement, and nothing disturbs it later.                               *)
THEOREM LedgerOutcomeAgrees == Spec => []OutcomeAgrees
BY LedgerInvariant, PTL DEF IInv

(* A request that is over has no paid run that may still be charging.      *)
THEOREM LedgerNothingCharges == Spec => []NothingChargesAfterTheEnd
BY LedgerInvariant, PTL DEF IInv

-----------------------------------------------------------------------------
(* No function changes a settled job or a terminal paid run. *)
LEMMA SettledStep ==
    ASSUME TypeOK, OutcomeAgrees, [Next]_ledgerVars
    PROVE  SettledKept
<1>. USE LedgerAssumption, DagAssumption
    DEF SettledKept, TypeOK, OutcomeAgrees, Active, Statuses, RunStatuses, Proposals,
            Successors, rowVars, runVars
<1>1. ASSUME NEW j \in Jobs, NEW g \in 1..MaxGen, Rearm(j, g)
      PROVE  SettledKept
  BY <1>1 DEF Rearm, Claimable, NextGeneration, Unclaim
<1>2. ASSUME NEW j \in Jobs, NEW t \in Tokens, NEW g \in 1..MaxGen, ClaimAttempt(j, t, g)
      PROVE  SettledKept
  BY <1>2 DEF ClaimAttempt, Claimable, AttemptsLeft, Lease
<1>3. ASSUME NEW j \in Jobs, NEW t \in Tokens, NEW g \in 1..MaxGen, ClaimExhausted(j, t, g)
      PROVE  SettledKept
  BY <1>3 DEF ClaimExhausted, Claimable, AttemptsLeft, Lease
<1>4. ASSUME NEW j \in Jobs, NEW t \in Tokens, Release(j, t)
      PROVE  SettledKept
  BY <1>4 DEF Release, Unclaim, Holds
<1>5. ASSUME NEW j \in Jobs, NEW t \in Tokens, DeferCleanup(j, t)
      PROVE  SettledKept
  BY <1>5 DEF DeferCleanup, Unclaim, Holds
<1>6. ASSUME NEW j \in Jobs, NEW t \in Tokens, DeferAiCapacity(j, t)
      PROVE  SettledKept
  BY <1>6 DEF DeferAiCapacity, Unclaim, Refund, Holds
<1>7. ASSUME NEW j \in Jobs, NEW t \in Tokens, ContinueScheduler(j, t)
      PROVE  SettledKept
  BY <1>7 DEF ContinueScheduler, NextGeneration, Unclaim, Refund, Holds
<1>8. ASSUME NEW j \in Jobs, NEW t \in Tokens, NEW proposed \in SUBSET Proposals(j),
        CompleteAndFanout(j, t, proposed)
      PROVE  SettledKept
  BY <1>8 DEF CompleteAndFanout, Holds, Inserted
<1>9. ASSUME NEW j \in Jobs, ReplayFanout(j)
      PROVE  SettledKept
  BY <1>9 DEF ReplayFanout, Inserted
<1>10. ASSUME NEW j \in Jobs, NEW t \in Tokens, FailRequest(j, t)
      PROVE  SettledKept
  BY <1>10 DEF FailRequest, OwnIntent, Holds
<1>11. ASSUME NEW j \in Jobs, NEW t \in Tokens, ReserveRun(j, t)
      PROVE  SettledKept
  BY <1>11 DEF ReserveRun, Holds
<1>12. ASSUME NEW j \in Jobs, NEW t \in Tokens, StartRun(j, t)
      PROVE  SettledKept
  BY <1>12 DEF StartRun, Holds
<1>13. ASSUME NEW j \in Jobs, NEW t \in Tokens, FinishRun(j, t)
      PROVE  SettledKept
  BY <1>13 DEF FinishRun
<1>14. ASSUME NEW j \in Jobs, NEW t \in Tokens, RejectRun(j, t)
      PROVE  SettledKept
  BY <1>14 DEF RejectRun
<1>15. ASSUME NEW j \in Jobs, SettleRun(j)
      PROVE  SettledKept
  BY <1>15 DEF SettleRun
<1>16. ASSUME NEW j \in Jobs, ResolveStart(j)
      PROVE  SettledKept
  BY <1>16 DEF ResolveStart
<1>17. ASSUME NEW t \in Tokens, CompleteResult(t)
      PROVE  SettledKept
  BY <1>17 DEF CompleteResult, ResultReady, JobsReady, NoRunIsOpen, Holds
<1>18. ASSUME UNCHANGED <<status, runStatus>>
      PROVE  SettledKept
  BY <1>18
<1>. QED
  <2>1. ASSUME NEW j \in Jobs, DispatchStep(j) PROVE SettledKept
    BY <2>1, <1>1, <1>18
    DEF DispatchStep, Reserve, MarkDispatched, rowVars, runVars
  <2>2. ASSUME NEW j \in Jobs, ClaimStep(j) PROVE SettledKept
    BY <2>2, <1>2, <1>3, <1>4, <1>5, <1>6, <1>7, <1>18
    DEF ClaimStep, ExpireLease, Takeover, rowVars, runVars
  <2>3. ASSUME NEW j \in Jobs, SettleStep(j) PROVE SettledKept
    BY <2>3, <1>9, <1>8, <1>10, <1>18
    DEF SettleStep, Checkpoint, RequestCleanup, rowVars, runVars
  <2>4. ASSUME NEW j \in Jobs, RunStep(j) PROVE SettledKept
    BY <2>4, <1>11, <1>12, <1>13, <1>14, <1>15, <1>16
    DEF RunStep, rowVars, runVars
  <2>5. QED
    BY <2>1, <2>2, <2>3, <2>4, <1>18, <1>17
    DEF Next, ledgerVars, rowVars, runVars

(* The intent of a failure keeps its owner and its code. *)
LEMMA FailureStep ==
    ASSUME TypeOK, OutcomeAgrees, [Next]_ledgerVars
    PROVE  FailureKept
<1>. USE LedgerAssumption, DagAssumption
    DEF FailureKept, TypeOK, OutcomeAgrees, Active, Intents, NoIntent
<1>1. ASSUME NEW j \in Jobs, NEW t \in Tokens, NEW g \in 1..MaxGen, ClaimExhausted(j, t, g)
      PROVE  FailureKept
  BY <1>1 DEF ClaimExhausted, Claimable, AttemptsLeft, Lease
<1>2. ASSUME NEW j \in Jobs, NEW t \in Tokens, NEW g \in 1..MaxGen, Takeover(j, t, g)
      PROVE  FailureKept
  BY <1>2 DEF Takeover, OwnIntent
<1>3. ASSUME NEW j \in Jobs, NEW t \in Tokens, NEW c \in Codes, RequestCleanup(j, t, c)
      PROVE  FailureKept
  BY <1>3 DEF RequestCleanup, OwnIntent, Holds
<1>4. ASSUME NEW j \in Jobs, NEW t \in Tokens, FailRequest(j, t)
      PROVE  FailureKept
  BY <1>4 DEF FailRequest, OwnIntent, Holds
<1>5. ASSUME UNCHANGED intent
      PROVE  FailureKept
  BY <1>5
<1>. QED
  <2>1. ASSUME NEW j \in Jobs, DispatchStep(j) PROVE FailureKept
    BY <2>1, <1>5
    DEF DispatchStep, Reserve, MarkDispatched, Rearm, rowVars, runVars
  <2>2. ASSUME NEW j \in Jobs, ClaimStep(j) PROVE FailureKept
    BY <2>2, <1>1, <1>2, <1>5
    DEF ClaimStep, ExpireLease, ClaimAttempt, Release, DeferCleanup, DeferAiCapacity,
            ContinueScheduler, rowVars, runVars
  <2>3. ASSUME NEW j \in Jobs, SettleStep(j) PROVE FailureKept
    BY <2>3, <1>3, <1>4, <1>5
    DEF SettleStep, ReplayFanout, Checkpoint, CompleteAndFanout, rowVars, runVars
  <2>4. ASSUME NEW j \in Jobs, RunStep(j) PROVE FailureKept
    BY <2>4, <1>5
    DEF RunStep, ReserveRun, StartRun, FinishRun, RejectRun, SettleRun, ResolveStart, rowVars,
            runVars
  <2>5. QED
    BY <2>1, <2>2, <2>3, <2>4, <1>5
    DEF Next, ledgerVars, rowVars, runVars, CompleteResult

(* Settled jobs and terminal paid runs stay as they are.                   *)
THEOREM LedgerSettledStaysSettled == Spec => SettledStaysSettled
<1>1. IInv /\ [Next]_ledgerVars => [SettledKept]_ledgerVars
  BY SettledStep DEF IInv
<1>. QED
  BY LedgerInvariant, <1>1, PTL DEF Spec, SettledStaysSettled

(* A failure is charged to one job with one code and is closed for good.   *)
THEOREM LedgerFailureChargedOnce == Spec => FailureChargedOnce
<1>1. IInv /\ [Next]_ledgerVars => [FailureKept]_ledgerVars
  BY FailureStep DEF IInv
<1>. QED
  BY LedgerInvariant, <1>1, PTL DEF Spec, FailureChargedOnce

-----------------------------------------------------------------------------
(* Every function is one abstract step, or none. *)
LEMMA LifecycleStep ==
    ASSUME TypeOK, DependencyOrder, OutcomeAgrees, [Next]_ledgerVars
    PROVE  [Lifecycle!Next]_(Lifecycle!vars)
<1> DEFINE Abstractly == [Lifecycle!Next]_(Lifecycle!vars)
<1>. USE LedgerAssumption, DagAssumption
    DEF TypeOK, OutcomeAgrees, Active, Completed, Statuses, Intents, NoIntent, Codes,
            Proposals, Successors
<1>1. ASSUME UNCHANGED outcome, Completed' = Completed,
             intent'.open = intent.open, intent'.job = intent.job
      PROVE  Abstractly
  BY <1>1 DEF Phase, Lifecycle!vars
<1>2. ASSUME NEW j \in Jobs, NEW g \in 1..MaxGen, Rearm(j, g)
      PROVE  Abstractly
  <2>1. Completed' = Completed
    BY <1>2 DEF Rearm, Claimable, NextGeneration, Unclaim
  <2>. QED
    BY <2>1, <1>1, <1>2 DEF Rearm, Claimable, NextGeneration, Unclaim
<1>3. ASSUME NEW j \in Jobs, NEW t \in Tokens, NEW g \in 1..MaxGen, ClaimAttempt(j, t, g)
      PROVE  Abstractly
  <2>1. Completed' = Completed
    BY <1>3 DEF ClaimAttempt, Claimable, AttemptsLeft, Lease
  <2>. QED
    BY <2>1, <1>1, <1>3 DEF ClaimAttempt, Claimable, AttemptsLeft, Lease
<1>4. ASSUME NEW j \in Jobs, NEW t \in Tokens, NEW g \in 1..MaxGen, ClaimExhausted(j, t, g)
      PROVE  Abstractly
  <2>1. Completed' = Completed
    BY <1>4 DEF ClaimExhausted, Claimable, Lease
  <2>2. Phase = "running" /\ Phase' = "failing" /\ intent'.job = j
    BY <1>4 DEF ClaimExhausted, Claimable, Phase
  <2>. QED
    BY <2>1, <2>2 DEF Lifecycle!Next, Lifecycle!BeginFailure
<1>5. ASSUME NEW j \in Jobs, NEW t \in Tokens, NEW g \in 1..MaxGen, Takeover(j, t, g)
      PROVE  Abstractly
  <2>1. intent'.open = intent.open /\ intent'.job = intent.job
    BY <1>5 DEF Takeover, OwnIntent
  <2>. QED
    BY <2>1, <1>1, <1>5 DEF Takeover
<1>6. ASSUME NEW j \in Jobs, NEW t \in Tokens, Release(j, t)
      PROVE  Abstractly
  <2>1. Completed' = Completed
    BY <1>6 DEF Release, Unclaim, Holds
  <2>. QED
    BY <2>1, <1>1, <1>6 DEF Release, Unclaim, Holds
<1>7. ASSUME NEW j \in Jobs, NEW t \in Tokens, DeferCleanup(j, t)
      PROVE  Abstractly
  <2>1. Completed' = Completed
    BY <1>7 DEF DeferCleanup, Unclaim, Holds
  <2>. QED
    BY <2>1, <1>1, <1>7 DEF DeferCleanup, Unclaim, Holds
<1>8. ASSUME NEW j \in Jobs, NEW t \in Tokens, DeferAiCapacity(j, t)
      PROVE  Abstractly
  <2>1. Completed' = Completed
    BY <1>8 DEF DeferAiCapacity, Unclaim, Refund, Holds
  <2>. QED
    BY <2>1, <1>1, <1>8 DEF DeferAiCapacity, Unclaim, Refund, Holds
<1>9. ASSUME NEW j \in Jobs, NEW t \in Tokens, ContinueScheduler(j, t)
      PROVE  Abstractly
  <2>1. Completed' = Completed
    BY <1>9 DEF ContinueScheduler, NextGeneration, Unclaim, Refund, Holds
  <2>. QED
    BY <2>1, <1>1, <1>9 DEF ContinueScheduler, NextGeneration, Unclaim, Refund, Holds
<1>10. ASSUME NEW j \in Jobs, NEW t \in Tokens, NEW proposed \in SUBSET Proposals(j),
        CompleteAndFanout(j, t, proposed)
      PROVE  Abstractly
  <2>1. Completed' = Completed \cup {j} /\ j \notin Completed
    BY <1>10 DEF CompleteAndFanout, Holds, Inserted
  <2>2. Requires[j] \subseteq Completed
    BY <1>10 DEF CompleteAndFanout, Holds, DependencyOrder
  <2>3. Phase \in {"running", "failing"} /\ Phase' = Phase /\ intent' = intent
    BY <1>10 DEF CompleteAndFanout, Phase
  <2>. QED
    BY <2>1, <2>2, <2>3, <1>10 DEF Lifecycle!Next, Lifecycle!Settle, CompleteAndFanout
<1>11. ASSUME NEW j \in Jobs, ReplayFanout(j)
      PROVE  Abstractly
  <2>1. Completed' = Completed
    BY <1>11 DEF ReplayFanout, Inserted
  <2>. QED
    BY <2>1, <1>1, <1>11 DEF ReplayFanout, Inserted
<1>12. ASSUME NEW j \in Jobs, NEW t \in Tokens, NEW c \in Codes, RequestCleanup(j, t, c)
      PROVE  Abstractly
  <2>1. Completed' = Completed
    BY <1>12 DEF RequestCleanup, rowVars
  <2>2. CASE intent = NoIntent
    <3>1. intent' = [job |-> j, token |-> t, code |-> c, open |-> TRUE, taken |-> FALSE]
      BY <2>2, <1>12 DEF RequestCleanup, OwnIntent
    <3>2. Phase = "running" /\ Phase' = "failing" /\ intent'.job = j
      BY <2>2, <3>1, <1>12 DEF RequestCleanup, Phase
    <3>. QED
      BY <2>1, <3>2 DEF Lifecycle!Next, Lifecycle!BeginFailure
  <2>3. CASE OwnIntent(j)
    <3>1. intent' = [intent EXCEPT !.token = t]
      BY <2>3, <1>12 DEF RequestCleanup, OwnIntent
    <3>2. intent'.open = intent.open /\ intent'.job = intent.job
      BY <3>1, <2>3 DEF OwnIntent
    <3>. QED
      BY <2>1, <3>2, <1>1, <1>12 DEF RequestCleanup
  <2>. QED
    BY <2>2, <2>3, <1>12 DEF RequestCleanup
<1>13. ASSUME NEW j \in Jobs, NEW t \in Tokens, FailRequest(j, t)
      PROVE  Abstractly
  <2>1. Completed' = Completed
    BY <1>13 DEF FailRequest, Holds
  <2>2. intent'.job = intent.job
    BY <1>13 DEF FailRequest
  <2>3. Phase = "failing" /\ Phase' = "failed"
    BY <1>13 DEF FailRequest, OwnIntent, Phase
  <2>. QED
    BY <2>1, <2>2, <2>3 DEF Lifecycle!Next, Lifecycle!Fail
<1>14. ASSUME NEW t \in Tokens, CompleteResult(t)
      PROVE  Abstractly
  <2>1. Completed' = Completed \cup {Finalizer}
    BY <1>14 DEF CompleteResult, Holds
  <2>2. Phase = "running" /\ Phase' = "published" /\ intent' = intent
    BY <1>14 DEF CompleteResult, ResultReady, Phase
  <2>. QED
    BY <2>1, <2>2, <1>14 DEF Lifecycle!Next, Lifecycle!Publish, CompleteResult, ResultReady,
            JobsReady
<1>15. ASSUME UNCHANGED <<outcome, status, intent>>
      PROVE  Abstractly
  BY <1>1, <1>15
<1>. QED
  <2>1. ASSUME NEW j \in Jobs, DispatchStep(j) PROVE Abstractly
    BY <2>1, <1>2, <1>15
    DEF DispatchStep, Reserve, MarkDispatched, rowVars
  <2>2. ASSUME NEW j \in Jobs, ClaimStep(j) PROVE Abstractly
    BY <2>2, <1>3, <1>4, <1>5, <1>6, <1>7, <1>8, <1>9, <1>15
    DEF ClaimStep, ExpireLease, rowVars
  <2>3. ASSUME NEW j \in Jobs, SettleStep(j) PROVE Abstractly
    BY <2>3, <1>11, <1>10, <1>12, <1>13, <1>15
    DEF SettleStep, Checkpoint, rowVars
  <2>4. ASSUME NEW j \in Jobs, RunStep(j) PROVE Abstractly
    BY <2>4, <1>15
    DEF RunStep, ReserveRun, StartRun, FinishRun, RejectRun, SettleRun, ResolveStart, rowVars
  <2>5. QED
    BY <2>1, <2>2, <2>3, <2>4, <1>15, <1>14 DEF Next, ledgerVars, rowVars
(* The ledger implements the life cycle of a request.                      *)
THEOREM LedgerImplementsLifecycle == Spec => ImplementsLifecycle
<1>1. Init => Lifecycle!Init
  BY LedgerAssumption DEF Init, Lifecycle!Init, Phase, Completed, Active, NoIntent
<1>2. IInv /\ [Next]_ledgerVars => [Lifecycle!Next]_(Lifecycle!vars)
  BY LifecycleStep DEF IInv
<1>. QED
  BY LedgerInvariant, <1>1, <1>2, PTL DEF Spec, ImplementsLifecycle, Lifecycle!Spec
=============================================================================
