------------------------------- MODULE AiCalls -------------------------------
(***************************************************************************)
(* The paid calls to the language model: a handler of a job makes one      *)
(* call for each attempt of each operation, and wraps it in four ledgers,  *)
(* each with its own idea of whose it is:                                  *)
(*    the budget reservation, keyed by operation and attempt;              *)
(*    the slot lease, with a token of the caller's own;                    *)
(*    the attempt row, fenced by the claim of the job;                     *)
(*    the result checkpoint, written only under a live claim.              *)
(* Each step is one database function or one remote call.  A handler whose *)
(* claim expired goes on beside the next one.  A handler makes at most one *)
(* call for an attempt, so handler, operation and attempt stand for the    *)
(* token and the fence of a lease.  Other jobs share slots and budget; a   *)
(* call of theirs is seen when it begins and when it is over.              *)
(***************************************************************************)
EXTENDS Integers, Sequences, FiniteSets, FiniteSetsExt

CONSTANTS
    Ops,          \* AI operations of one job
    Others,       \* operations of other jobs
    Resolver,     \* the operations of the optional stage that may be cut off
    Handlers,     \* claims of the job, one after the other
    NoHandler,
    Slots,        \* the pool shared by all instances
    NoSlotOwner,
    MaxResolver,  \* the slots that resolvers may have at once
    MaxAttempts,  \* calls for an operation
    Limit,        \* the ceiling of the budget
    Costs,        \* what a call may cost; it is estimated at 1
    MaxFaults     \* bound: crashes, lost claims and lost answers

ASSUME AiAssumption ==
    /\ Resolver \subseteq Ops \cup Others /\ Ops \cap Others = {}
    /\ NoHandler \notin Handlers
    /\ NoSlotOwner \notin (Handlers \cup {NoHandler}) \X (Ops \cup Others)
    /\ IsFiniteSet(Ops) /\ IsFiniteSet(Others) /\ IsFiniteSet(Slots)
    /\ {MaxResolver, Limit, MaxFaults} \subseteq Nat /\ MaxAttempts \in Nat \ {0}
    /\ Costs \subseteq Nat

Estimate == 1
Calls == Handlers \X Ops
OtherCalls == {NoHandler} \X Others
Keys == (Ops \cup Others) \X (1..MaxAttempts)

VARIABLES
    holder,    \* the live claim of the job
    claimed,   \* the claims there have been
    attempts,  \* analysis_v2_ai_attempts: the rows of each operation
    result,    \* the attempt whose result is checkpointed, or 0
    budget,    \* vertex_ai_budget_reservations, by operation and attempt
    slot,      \* analysis_v2_gemini_leases
    (* the call of a handler for an operation *)
    pc,
    n,         \* its attempt
    paper,     \* the reservation it remembers
    got,       \* what the provider answered
    fenced,    \* it knows its attempt row and its lease
    cut,       \* whether it was cut off, and that was written down
    (* the rest of the world *)
    inFlight,  \* attempts that the provider works on
    sent,      \* attempts that were sent to the provider
    faults     \* what is left of MaxFaults

jobVars == <<holder, claimed>>
ledgerVars == <<attempts, result>>
callVars == <<pc, n, paper, got, fenced, cut>>
worldVars == <<inFlight, sent>>
vars == <<jobVars, ledgerVars, budget, slot, callVars, worldVars, faults>>

-----------------------------------------------------------------------------
NoRow == [state |-> "none", id |-> 0, cost |-> 0, by |-> NoHandler]
Free == [state |-> "available", owner |-> NoSlotOwner, attempt |-> 0, live |-> FALSE]

AiInit ==
    /\ holder = NoHandler /\ claimed = {}
    /\ attempts = [o \in Ops |-> <<>>] /\ result = [o \in Ops |-> 0]
    /\ budget = [key \in Keys |-> NoRow]
    /\ slot = [s \in Slots |-> Free]
    /\ pc = [c \in Calls |-> "idle"] /\ n = [c \in Calls |-> 0]
    /\ paper = [c \in Calls |-> 0] /\ got = [c \in Calls |-> "none"]
    /\ fenced = [c \in Calls |-> FALSE] /\ cut = [c \in Calls |-> "no"]
    /\ inFlight = {} /\ sent = {} /\ faults = MaxFaults

Fault == faults > 0 /\ faults' = faults - 1
NoFault == UNCHANGED faults

At(c, point) == pc[c] = point

Go(c, point) ==
    /\ pc' = [pc EXCEPT ![c] = point]
    /\ UNCHANGED <<n, paper, got, fenced, cut>>

Aborted(c) == cut[c] # "no"

-----------------------------------------------------------------------------
(* The attempt ledger.                                                     *)

(* Broken: an attempt without an answer may be followed by another.        *)
CanRetryUnanswered(o) ==
    \A k \in DOMAIN attempts[o] : attempts[o][k].status \in {"rate_limited", "ambiguous"}

(* Only a call that the provider turned away is repeated.                  *)
CanRetry(o) == \A k \in DOMAIN attempts[o] : attempts[o][k].status = "rate_limited"

(* The attempt after the last one, or 0 when there must be none.           *)
NextAttempt(o) ==
    IF result[o] = 0 /\ CanRetry(o) /\ Len(attempts[o]) < MaxAttempts
    THEN Len(attempts[o]) + 1 ELSE 0

(* reserve: the claim is live, and this is the next attempt.               *)
CanReserveAttempt(h, o, k) ==
    holder = h /\ Len(attempts[o]) = k - 1 /\ CanRetry(o)

ReserveAttempt(h, o) ==
    attempts' = [attempts EXCEPT ![o] = Append(@, [status |-> "reserved", by |-> h])]

(* Broken: a row that was closed may be closed again.                      *)
IsReservedOrClosed(h, o, k) ==
    Len(attempts[o]) >= k /\ k > 0 /\ attempts[o][k].by = h

IsReserved(h, o, k) ==
    Len(attempts[o]) >= k /\ k > 0 /\ attempts[o][k] = [status |-> "reserved", by |-> h]

(* Broken: a handler that has lost the job still writes the result.        *)
TerminalizeLate(h, o, k, answer) ==
    /\ IsReserved(h, o, k)
    /\ attempts' = [attempts EXCEPT ![o][k].status = answer]
    /\ result' = IF answer = "success" THEN [result EXCEPT ![o] = k] ELSE result

(* The row is closed by the claim that opened it, live or not; the result  *)
(* is written only while that claim is live.                               *)
Terminalize(h, o, k, answer) ==
    /\ IsReserved(h, o, k)
    /\ attempts' = [attempts EXCEPT ![o][k].status = answer]
    /\ result' = IF answer = "success" /\ holder = h THEN [result EXCEPT ![o] = k] ELSE result

-----------------------------------------------------------------------------
(* The budget.                                                             *)

IsCharged(row) == row.state \in {"reserved", "settled"}

Charge(row) == IF IsCharged(row) THEN row.cost ELSE 0

Charges == SumFunction([key \in Keys |-> Charge(budget[key])])

(* Broken: what is charged already is not counted.                         *)
InBudgetAlone == Estimate <= Limit

InBudget == Charges + Estimate <= Limit

(* A reservation that is there is handed out again; a cancelled one is     *)
(* replaced by a new one.                                                  *)
CanReserve(key) == IsCharged(budget[key]) \/ InBudget

ReserveBudget(key) ==
    budget' = IF IsCharged(budget[key]) THEN budget
              ELSE [budget EXCEPT ![key] = [state |-> "reserved", id |-> @.id + 1,
                                            cost |-> Estimate, by |-> NoHandler]]

CanSettle(key, id) == budget[key].id = id /\ IsCharged(budget[key])

(* An unknown cost leaves the estimate; a second settlement by the same    *)
(* call changes nothing.                                                   *)
SettleBudget(key, cost) ==
    budget' = IF budget[key].state = "reserved"
              THEN [budget EXCEPT ![key] = [@ EXCEPT !.state = "settled", !.cost = cost]]
              ELSE budget

CancelBudget(key, id, h) ==
    budget' = IF budget[key].id = id /\ budget[key].state = "reserved"
              THEN [budget EXCEPT ![key] = [@ EXCEPT !.state = "cancelled", !.by = h]] ELSE budget

-----------------------------------------------------------------------------
(* The slots.                                                              *)

OpOf(row) == row.owner[2]
Taken(row) == row.state # "available"
OfResolver(row) == Taken(row) /\ OpOf(row) \in Resolver

(* Its attempt was recorded, and nobody has closed it.                     *)
Pending(row) ==
    LET rows == attempts[OpOf(row)] IN
    OpOf(row) \in Ops /\ Len(rows) >= row.attempt /\ rows[row.attempt].status = "reserved"

(* Broken: a quarantined slot is reaped before its lease runs out.         *)
ReapableAtOnce(row) == row.state = "quarantined" /\ OfResolver(row) /\ ~Pending(row)

(* Broken: only the slots of attempts that were cut off are reaped.        *)
ReapableIfCutOff(row) ==
    LET rows == attempts[OpOf(row)] IN
    /\ row.state = "quarantined" /\ OfResolver(row) /\ ~row.live
    /\ OpOf(row) \in Ops /\ Len(rows) >= row.attempt
    /\ rows[row.attempt].status = "cutoff"

Reapable(row) ==
    row.state = "quarantined" /\ OfResolver(row) /\ ~row.live /\ ~Pending(row)

Quarantine(row) == [row EXCEPT !.state = "quarantined"]

(* What every acquire does first with leases that ran out.                 *)
Swept(row) ==
    LET q == IF row.state = "leased" /\ ~row.live THEN Quarantine(row) ELSE row
    IN IF Reapable(q) THEN Free ELSE q

SlotsOf(rows, o, k) == {s \in Slots : Taken(rows[s]) /\ OpOf(rows[s]) = o /\ rows[s].attempt = k}
FreeSlots(rows) == {s \in Slots : ~Taken(rows[s])}

ResolverFull(rows, o) ==
    o \in Resolver /\ Cardinality({s \in Slots : OfResolver(rows[s])}) >= MaxResolver

(* A lease of this attempt under another token is taken away, and the      *)
(* caller is refused as well.                                              *)
AcquireAnswer(o, k) ==
    LET rows == [s \in Slots |-> Swept(slot[s])] IN
    IF SlotsOf(rows, o, k) # {} THEN "quarantine"
    ELSE IF ResolverFull(rows, o) \/ FreeSlots(rows) = {} THEN "capacity"
    ELSE "acquired"

AcquireSlot(c, o, k) ==
    LET rows == [s \in Slots |-> Swept(slot[s])]
        s == CHOOSE s \in FreeSlots(rows) : TRUE IN
    slot' = CASE AcquireAnswer(o, k) = "acquired" ->
                   [rows EXCEPT ![s] = [state |-> "leased", owner |-> c, attempt |-> k, live |-> TRUE]]
              [] AcquireAnswer(o, k) = "quarantine" ->
                   [x \in Slots |-> IF x \in SlotsOf(rows, o, k) THEN Quarantine(rows[x]) ELSE rows[x]]
              [] OTHER -> rows

Mine(c) == {s \in Slots : Taken(slot[s]) /\ slot[s].owner = c /\ slot[s].attempt = n[c]}

ReleaseSlot(c) == slot' = [s \in Slots |-> IF s \in Mine(c) THEN Free ELSE slot[s]]

(* The provider has at most 210 seconds for a call and the lease has 240:  *)
(* it does not run out between its acquisition and the end of the call.    *)
InUse(row) ==
    LET c == row.owner IN
    \/ <<c, row.attempt>> \in inFlight
    \/ c \in Calls /\ n[c] = row.attempt /\ pc[c] \in {"attempt", "dispatch"}

SlotExpires(s) ==
    /\ Taken(slot[s]) /\ slot[s].live /\ ~InUse(slot[s])
    /\ slot' = [slot EXCEPT ![s].live = FALSE]
    /\ UNCHANGED <<jobVars, ledgerVars, budget, callVars, worldVars, faults>>

(* Broken: only a resolver whose slot is quarantined already is cut off.   *)
RecoverCutoffQuarantined(s) ==
    LET row == slot[s] o == OpOf(slot[s]) IN
    /\ OfResolver(row) /\ ~row.live /\ Pending(row) /\ row.state = "quarantined"
    /\ attempts' = [attempts EXCEPT ![o][row.attempt].status = "cutoff"]
    /\ UNCHANGED <<jobVars, result, budget, slot, callVars, worldVars, faults>>

(* recover_cutoffs: a resolver that died with its lease is cut off.        *)
RecoverCutoff(s) ==
    LET row == slot[s] o == OpOf(slot[s]) IN
    /\ OfResolver(row) /\ ~row.live /\ Pending(row)
    /\ slot' = [slot EXCEPT ![s] = Quarantine(row)]
    /\ attempts' = [attempts EXCEPT ![o][row.attempt].status = "cutoff"]
    /\ UNCHANGED <<jobVars, result, budget, callVars, worldVars, faults>>

ReapCutoff(s) ==
    /\ Reapable(slot[s])
    /\ slot' = [slot EXCEPT ![s] = Free]
    /\ UNCHANGED <<jobVars, ledgerVars, budget, callVars, worldVars, faults>>

(* The operator has evidence that nothing of the call is under way.        *)
ResolveQuarantine(s) ==
    /\ slot[s].state = "quarantined" /\ ~slot[s].live
    /\ slot' = [slot EXCEPT ![s] = Free]
    /\ UNCHANGED <<jobVars, ledgerVars, budget, callVars, worldVars, faults>>

-----------------------------------------------------------------------------
(* The call of a handler for an operation.                                 *)

Handler(c) == c[1]
Op(c) == c[2]
Key(c) == <<Op(c), n[c]>>

Prepare(c) ==
    LET k == NextAttempt(Op(c)) IN
    /\ At(c, "prepare")
    /\ IF k = 0 \/ Aborted(c)
       THEN Go(c, "done")
       ELSE /\ pc' = [pc EXCEPT ![c] = "reserve"] /\ n' = [n EXCEPT ![c] = k]
            /\ UNCHANGED <<paper, got, fenced, cut>>
    /\ UNCHANGED <<jobVars, ledgerVars, budget, slot, worldVars, faults>>

Reserve(c) ==
    /\ At(c, "reserve")
    /\ IF Aborted(c) \/ ~CanReserve(Key(c))
       THEN Go(c, "done") /\ UNCHANGED budget
       ELSE /\ ReserveBudget(Key(c))
            /\ pc' = [pc EXCEPT ![c] = "acquire"]
            /\ paper' = [paper EXCEPT ![c] = budget'[Key(c)].id]
            /\ UNCHANGED <<n, got, fenced, cut>>
    /\ UNCHANGED <<jobVars, ledgerVars, slot, worldVars, faults>>

ReserveUnanswered(c) ==
    /\ At(c, "reserve") /\ ~Aborted(c) /\ CanReserve(Key(c)) /\ Fault
    /\ ReserveBudget(Key(c)) /\ Go(c, "done")
    /\ UNCHANGED <<jobVars, ledgerVars, slot, worldVars>>

(* Every refusal, and every failure before the call is sent, gives the     *)
(* reservation back.                                                       *)
Acquire(c) ==
    /\ At(c, "acquire")
    /\ IF Aborted(c) THEN UNCHANGED slot ELSE AcquireSlot(c, Op(c), n[c])
    /\ Go(c, IF ~Aborted(c) /\ AcquireAnswer(Op(c), n[c]) = "acquired" THEN "attempt" ELSE "cancel")
    /\ UNCHANGED <<jobVars, ledgerVars, budget, worldVars, faults>>

(* The lease is given; that answer and the one to the replay are lost.     *)
AcquireUnanswered(c) ==
    /\ At(c, "acquire") /\ ~Aborted(c) /\ Fault
    /\ AcquireSlot(c, Op(c), n[c]) /\ Go(c, "cancel")
    /\ UNCHANGED <<jobVars, ledgerVars, budget, worldVars>>

Attempt(c) ==
    /\ At(c, "attempt")
    /\ IF CanReserveAttempt(Handler(c), Op(c), n[c])
       THEN /\ ReserveAttempt(Handler(c), Op(c))
            /\ pc' = [pc EXCEPT ![c] = "dispatch"] /\ fenced' = [fenced EXCEPT ![c] = TRUE]
            /\ UNCHANGED <<n, paper, got, cut>>
       ELSE Go(c, "unlease") /\ UNCHANGED attempts
    /\ UNCHANGED <<jobVars, result, budget, slot, worldVars, faults>>

AttemptUnanswered(c) ==
    /\ At(c, "attempt") /\ Fault
    /\ CanReserveAttempt(Handler(c), Op(c), n[c]) /\ ReserveAttempt(Handler(c), Op(c))
    /\ Go(c, "unlease")
    /\ UNCHANGED <<jobVars, result, budget, slot, worldVars>>

Unlease(c) ==
    /\ At(c, "unlease") /\ Go(c, "cancel")
    /\ \/ ReleaseSlot(c) /\ NoFault
       \/ UNCHANGED slot /\ Fault
    /\ UNCHANGED <<jobVars, ledgerVars, budget, worldVars>>

Cancel(c) ==
    /\ At(c, "cancel") /\ Go(c, "done")
    /\ \/ CancelBudget(Key(c), paper[c], Handler(c)) /\ NoFault
       \/ UNCHANGED budget /\ Fault
    /\ UNCHANGED <<jobVars, ledgerVars, slot, worldVars>>

Dispatch(c) ==
    /\ At(c, "dispatch")
    /\ IF Aborted(c) THEN Go(c, "cancel") /\ UNCHANGED worldVars
       ELSE /\ Go(c, "call")
            /\ inFlight' = inFlight \cup {<<c, n[c]>>} /\ sent' = sent \cup {<<c, n[c]>>}
    /\ UNCHANGED <<jobVars, ledgerVars, budget, slot, faults>>

(* The answer; a call that the client timed out is over as well.           *)
Answer(c) ==
    /\ At(c, "call")
    /\ \E answer \in {"success", "rate_limited", "ambiguous", "response_rejected"} :
          got' = [got EXCEPT ![c] = answer]
    /\ pc' = [pc EXCEPT ![c] = "settle"]
    /\ inFlight' = inFlight \ {<<c, n[c]>>}
    /\ UNCHANGED <<n, paper, fenced, cut, jobVars, ledgerVars, budget, slot, sent, faults>>

(* Broken: an aborted call is taken for one that was never sent.           *)
AbortCallUnsent(c) ==
    /\ At(c, "call") /\ Aborted(c)
    /\ Go(c, "cancel")
    /\ UNCHANGED <<jobVars, ledgerVars, budget, slot, worldVars, faults>>

(* The client gives up an aborted call, the provider goes on with it.      *)
AbortCall(c) ==
    /\ At(c, "call") /\ Aborted(c)
    /\ Go(c, "settle")
    /\ UNCHANGED <<jobVars, ledgerVars, budget, slot, worldVars, faults>>

ProviderEnds(call) ==
    /\ call \in inFlight /\ call[1] \in Calls /\ ~At(call[1], "call")
    /\ inFlight' = inFlight \ {call}
    /\ UNCHANGED <<jobVars, ledgerVars, budget, slot, callVars, sent, faults>>

(* Only an answer that was generated has a cost of its own.                *)
ActualCosts(c) ==
    IF ~Aborted(c) /\ got[c] \in {"success", "response_rejected"} THEN Costs \cup {Estimate} ELSE {Estimate}

(* Settled before anything else is written: when it cannot be settled, the *)
(* answer is dropped and its attempt stays open.                           *)
Settle(c) ==
    /\ At(c, "settle")
    /\ IF CanSettle(Key(c), paper[c])
       THEN \E cost \in ActualCosts(c) : SettleBudget(Key(c), cost)
       ELSE UNCHANGED budget
    /\ Go(c, IF CanSettle(Key(c), paper[c]) /\ ~Aborted(c) THEN "record" ELSE "done")
    /\ UNCHANGED <<jobVars, ledgerVars, slot, worldVars, faults>>

SettleUnanswered(c) ==
    /\ At(c, "settle") /\ Fault
    /\ \/ /\ CanSettle(Key(c), paper[c])
          /\ \E cost \in ActualCosts(c) : SettleBudget(Key(c), cost)
       \/ UNCHANGED budget
    /\ Go(c, "done")
    /\ UNCHANGED <<jobVars, ledgerVars, slot, worldVars>>

(* After a cutoff the answer is late: only its lease is given back, once   *)
(* the cutoff is written.                                                  *)
Record(c) ==
    /\ At(c, "record")
    /\ \/ /\ ~Aborted(c) /\ Terminalize(Handler(c), Op(c), n[c], got[c])
          /\ Go(c, "release")
       \/ /\ ~Aborted(c) /\ ~IsReserved(Handler(c), Op(c), n[c])
          /\ Go(c, "done") /\ UNCHANGED ledgerVars
       \/ cut[c] = "written" /\ Go(c, "release") /\ UNCHANGED ledgerVars
       \/ cut[c] = "failed" /\ Go(c, "done") /\ UNCHANGED ledgerVars
    /\ UNCHANGED <<jobVars, budget, slot, worldVars, faults>>

RecordUnanswered(c) ==
    /\ At(c, "record") /\ ~Aborted(c) /\ Fault
    /\ Terminalize(Handler(c), Op(c), n[c], got[c]) \/ UNCHANGED ledgerVars
    /\ Go(c, "done")
    /\ UNCHANGED <<jobVars, budget, slot, worldVars>>

Retries(c) == got[c] = "rate_limited" /\ n[c] < MaxAttempts /\ ~Aborted(c)

(* A lease that somebody else has by now is an error, and ends the call.   *)
Release(c) ==
    /\ At(c, "release") /\ ReleaseSlot(c)
    /\ \/ /\ Retries(c)
          /\ pc' = [pc EXCEPT ![c] = "reserve"] /\ n' = [n EXCEPT ![c] = @ + 1]
       \/ /\ ~Retries(c) \/ Mine(c) = {}
          /\ pc' = [pc EXCEPT ![c] = "done"] /\ UNCHANGED n
    /\ fenced' = [fenced EXCEPT ![c] = FALSE]
    /\ UNCHANGED <<paper, got, cut, jobVars, ledgerVars, budget, worldVars, faults>>

ReleaseUnanswered(c) ==
    /\ At(c, "release") /\ Fault
    /\ ReleaseSlot(c) \/ UNCHANGED slot
    /\ Go(c, "done")
    /\ UNCHANGED <<jobVars, ledgerVars, budget, worldVars>>

-----------------------------------------------------------------------------
(* The cutoff of a resolver: its stage is over and nobody waits for it.    *)

CutOff(c) ==
    /\ Op(c) \in Resolver /\ cut[c] = "no" /\ pc[c] \notin {"idle", "done", "gone"}
    /\ cut' = [cut EXCEPT ![c] = "due"]
    /\ UNCHANGED <<pc, n, paper, got, fenced, jobVars, ledgerVars, budget, slot, worldVars, faults>>

(* The attempt is closed, and its slot is not free before its lease ends:  *)
(* the provider may still be working.                                      *)
CutoffRows(c) ==
    /\ attempts' = [attempts EXCEPT ![Op(c)][n[c]].status = "cutoff"]
    /\ slot' = [s \in Slots |-> IF s \in Mine(c) THEN Quarantine(slot[s]) ELSE slot[s]]
    /\ UNCHANGED result

CanCutoff(c) == IsReserved(Handler(c), Op(c), n[c]) /\ Mine(c) # {}

(* Nothing was begun, it is cut off now, or it had succeeded before.       *)
CutoffHolds(c) ==
    ~fenced[c] \/ CanCutoff(c) \/ attempts[Op(c)][n[c]].status = "success"

(* It waits for the preparation and for the attempt that is being set up.  *)
WriteCutoff(c) ==
    /\ cut[c] = "due" /\ pc[c] \notin {"prepare", "acquire", "attempt", "unlease", "gone"}
    /\ IF fenced[c] /\ CanCutoff(c) THEN CutoffRows(c) ELSE UNCHANGED <<ledgerVars, slot>>
    /\ cut' = [cut EXCEPT ![c] = IF CutoffHolds(c) THEN "written" ELSE "failed"]
    /\ UNCHANGED <<pc, n, paper, got, fenced, jobVars, budget, worldVars, faults>>

WriteCutoffUnanswered(c) ==
    /\ cut[c] = "due" /\ pc[c] \notin {"prepare", "acquire", "attempt", "unlease", "gone"}
    /\ fenced[c] /\ Fault
    /\ (CanCutoff(c) /\ CutoffRows(c)) \/ UNCHANGED <<ledgerVars, slot>>
    /\ cut' = [cut EXCEPT ![c] = "failed"]
    /\ UNCHANGED <<pc, n, paper, got, fenced, jobVars, budget, worldVars>>

-----------------------------------------------------------------------------
(* The job: its claims follow each other, its handlers may overlap.        *)

CallsOf(h) == {c \in Calls : Handler(c) = h}

Claim ==
    LET h == CHOOSE x \in Handlers \ claimed : TRUE IN
    /\ holder = NoHandler /\ claimed # Handlers
    /\ holder' = h /\ claimed' = claimed \cup {h}
    /\ pc' = [c \in Calls |-> IF Handler(c) = h THEN "prepare" ELSE pc[c]]
    /\ UNCHANGED <<n, paper, got, fenced, cut, ledgerVars, budget, slot, worldVars, faults>>

(* The handler is done, or dead and its claim ran out; it does not wait    *)
(* for a resolver that it cut off.                                         *)
Leave ==
    /\ \A c \in CallsOf(holder) : pc[c] \in {"done", "gone"} \/ Aborted(c)
    /\ holder # NoHandler /\ holder' = NoHandler
    /\ UNCHANGED <<claimed, ledgerVars, budget, slot, callVars, worldVars, faults>>

(* The claim ends under calls that go on: it runs out, or the scheduler    *)
(* fails to admit an operation and awaits none of those that it admitted.  *)
LoseClaim ==
    /\ holder # NoHandler /\ Fault
    /\ holder' = NoHandler
    /\ UNCHANGED <<claimed, ledgerVars, budget, slot, callVars, worldVars>>

(* What a dead handler knew is gone.                                       *)
Crash(h) ==
    LET forget(f, value) == [c \in Calls |-> IF Handler(c) = h THEN value ELSE f[c]] IN
    /\ \E c \in CallsOf(h) : pc[c] \notin {"idle", "done", "gone"}
    /\ Fault
    /\ pc' = forget(pc, "gone") /\ n' = forget(n, 0) /\ paper' = forget(paper, 0)
    /\ got' = forget(got, "none") /\ fenced' = forget(fenced, FALSE) /\ cut' = forget(cut, "no")
    /\ UNCHANGED <<jobVars, ledgerVars, budget, slot, worldVars>>

-----------------------------------------------------------------------------
(* A call of another job, to which nothing happens.                        *)

OtherBegins(o) ==
    LET c == <<NoHandler, o>> IN
    /\ <<c, 1>> \notin sent /\ CanReserve(<<o, 1>>) /\ AcquireAnswer(o, 1) = "acquired"
    /\ ReserveBudget(<<o, 1>>) /\ AcquireSlot(c, o, 1)
    /\ inFlight' = inFlight \cup {<<c, 1>>} /\ sent' = sent \cup {<<c, 1>>}
    /\ UNCHANGED <<jobVars, ledgerVars, callVars, faults>>

OtherEnds(o) ==
    LET c == <<NoHandler, o>> IN
    /\ <<c, 1>> \in inFlight /\ inFlight' = inFlight \ {<<c, 1>>}
    /\ \E cost \in Costs : SettleBudget(<<o, 1>>, cost)
    /\ slot' = [s \in Slots |-> IF slot[s].owner = c THEN Free ELSE slot[s]]
    /\ UNCHANGED <<jobVars, ledgerVars, callVars, sent, faults>>

-----------------------------------------------------------------------------
(* What a call does when nothing goes wrong.                               *)
CallStep(c) ==
    \/ Prepare(c) \/ Reserve(c) \/ Acquire(c) \/ Attempt(c) \/ Unlease(c) \/ Cancel(c)
    \/ Dispatch(c) \/ Answer(c) \/ AbortCall(c) \/ Settle(c) \/ Record(c) \/ Release(c)
    \/ WriteCutoff(c)

Lost(c) ==
    \/ ReserveUnanswered(c) \/ AcquireUnanswered(c) \/ AttemptUnanswered(c)
    \/ SettleUnanswered(c) \/ RecordUnanswered(c) \/ ReleaseUnanswered(c)
    \/ WriteCutoffUnanswered(c)

Sweep(s) == RecoverCutoff(s) \/ ReapCutoff(s)

AiNext ==
    \/ \E c \in Calls : CallStep(c) \/ CutOff(c) \/ Lost(c)
    \/ \E s \in Slots : SlotExpires(s) \/ Sweep(s) \/ ResolveQuarantine(s)
    \/ \E call \in inFlight : ProviderEnds(call)
    \/ \E o \in Others : OtherBegins(o) \/ OtherEnds(o)
    \/ \E h \in Handlers : Crash(h)
    \/ Claim \/ Leave \/ LoseClaim

(* Handlers that live go on, calls end, leases run out, the sweep is run.  *)
(* Nothing is assumed of the operator.                                     *)
AiFairness ==
    /\ \A c \in Calls : WF_vars(CallStep(c))
    /\ \A s \in Slots : WF_vars(SlotExpires(s)) /\ WF_vars(Sweep(s))
    /\ \A c \in Calls, k \in 1..MaxAttempts : WF_vars(ProviderEnds(<<c, k>>))
    /\ \A o \in Others : WF_vars(OtherEnds(o))

AiSpec == AiInit /\ [][AiNext]_vars /\ AiFairness

-----------------------------------------------------------------------------
(* Types and statuses of every ledger, and of the callers.                 *)
AiTypeOK ==
    /\ holder \in claimed \cup {NoHandler} /\ claimed \subseteq Handlers
    /\ \A o \in Ops : /\ attempts[o] \in Seq([status : {"reserved", "success", "rate_limited",
                                 "ambiguous", "response_rejected", "cutoff"}, by : Handlers])
                      /\ Len(attempts[o]) <= MaxAttempts /\ result[o] \in 0..MaxAttempts
    /\ budget \in [Keys -> [state : {"none", "reserved", "settled", "cancelled"}, id : Nat,
                            cost : Nat, by : Handlers \cup {NoHandler}]]
    /\ slot \in [Slots -> [state : {"available", "leased", "quarantined"},
                           owner : Calls \cup OtherCalls \cup {NoSlotOwner}, attempt : 0..MaxAttempts,
                           live : BOOLEAN]]
    /\ pc \in [Calls -> {"idle", "prepare", "reserve", "acquire", "attempt", "unlease", "cancel",
                         "dispatch", "call", "settle", "record", "release", "done", "gone"}]
    /\ n \in [Calls -> 0..MaxAttempts] /\ paper \in [Calls -> Nat]
    /\ got \in [Calls -> {"none", "success", "rate_limited", "ambiguous", "response_rejected"}]
    /\ fenced \in [Calls -> BOOLEAN] /\ cut \in [Calls -> {"no", "due", "written", "failed"}]
    /\ inFlight \subseteq sent /\ sent \subseteq (Calls \cup OtherCalls) \X (1..MaxAttempts)
    /\ faults \in 0..MaxFaults

(* No attempt is sent to the provider twice, whichever handlers overlap,   *)
(* crash or lose an answer; a further attempt is sent only after the       *)
(* provider turned the one before away (the attempt ledger is the only     *)
(* thing that stands between a redelivered job and a second paid call).    *)
PaidOnce ==
    \A x, y \in sent : Op(x[1]) = Op(y[1]) =>
        /\ x[2] = y[2] => x = y
        /\ x[2] < y[2] => attempts[Op(x[1])][x[2]].status = "rate_limited"

(* A result is written by the handler that has the job at that moment, for *)
(* the attempt that this very handler sent, whose answer is there, and     *)
(* whose row was open until now: a handler that lost the job while it      *)
(* waited for the provider, and a late answer to an attempt that was cut   *)
(* off, leave no result, however they overlap with the next claim.  Once   *)
(* there is a result, no row of the operation is opened or changed.        *)
ResultsAreOfTheClaim ==
    [][\A o \in Ops :
          /\ result'[o] # result[o] =>
                /\ <<<<holder, o>>, result'[o]>> \in sent \ inFlight
                /\ attempts[o][result'[o]] = [status |-> "reserved", by |-> holder]
                /\ attempts'[o][result'[o]].status = "success"
          /\ result[o] # 0 => attempts'[o] = attempts[o] /\ result'[o] = result[o]]_vars

(* What was written of an attempt, and the result of an operation, stay:   *)
(* a late answer and a cutoff, or a cutoff and its recovery by the sweep,  *)
(* cannot overwrite each other, in either order.                           *)
OutcomesAreFinal ==
    [][\A o \in Ops :
          /\ \A k \in DOMAIN attempts[o] :
                /\ k \in DOMAIN attempts'[o] /\ attempts'[o][k].by = attempts[o][k].by
                /\ attempts[o][k].status # "reserved" => attempts'[o][k] = attempts[o][k]
          /\ result[o] # 0 => result'[o] = result[o]]_vars

(* Each attempt the provider works on has a slot of its own, aborted calls *)
(* and those of dead handlers too, so that the pool bounds the calls of    *)
(* all instances together, and its share those of the resolvers.           *)
SlotsCoverCalls ==
    /\ \A x \in inFlight : \E s \in Slots : slot[s].owner = x[1] /\ slot[s].attempt = x[2]
    /\ Cardinality({x \in inFlight : Op(x[1]) \in Resolver}) <= MaxResolver

(* The ceiling is exceeded only by what calls cost above their estimate.   *)
Excess(row) ==
    IF row.state = "settled" /\ row.cost > Estimate THEN row.cost - Estimate ELSE 0

WithinBudget == Charges <= Limit + SumFunction([key \in Keys |-> Excess(budget[key])])

(* The reservation of an attempt that was sent stays charged.              *)
CallsAreCharged == \A x \in sent : IsCharged(budget[<<Op(x[1]), x[2]>>])

(* ... unless it was cancelled by another handler that shared it: none     *)
(* takes back the charge of a call that it sent itself.                    *)
OwnCallsAreCharged ==
    \A x \in sent :
        LET row == budget[<<Op(x[1]), x[2]>>] IN IsCharged(row) \/ row.by # Handler(x[1])

(* Resolvers give their slots back, whatever happens to their handlers:    *)
(* sooner or later the next caller, whoever it is, finds them free.        *)
ResolverSlotsComeBack == \A s \in Slots : []<>(~OfResolver(Swept(slot[s])))

(* No attempt of a resolver is open for ever with a slot to its name: its  *)
(* handler closes it, or the sweep cuts it off (a later delivery that      *)
(* finds an open attempt waits for it).  An open attempt without a slot is *)
(* out of reach of the sweep: the operator may have freed it.              *)
Unresolved(c, k) ==
    IsReserved(Handler(c), Op(c), k)
    /\ \E s \in Slots : OfResolver(slot[s]) /\ OpOf(slot[s]) = Op(c) /\ slot[s].attempt = k

ResolversEnd == \A c \in Calls, k \in 1..MaxAttempts : []<>~Unresolved(c, k)
=============================================================================
