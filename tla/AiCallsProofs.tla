---------------------------- MODULE AiCallsProofs ----------------------------
(***************************************************************************)
(* Proofs about AiCalls, for any number of jobs, operations, handlers,     *)
(* slots and attempts, any limits and any costs.                           *)
(*                                                                         *)
(* The invariant has one part for each ledger, and says what the ledger    *)
(* knows of a call at each point of it:                                    *)
(*    CallsAgree    where a call is, and what it has sent;                 *)
(*    RowsAgree     what was sent, or is about to be, has a row that its   *)
(*                  own handler opened, and only the last row is open;     *)
(*    ResultsAgree  a result is that of the last row;                      *)
(*    ChargesAgree  what was sent is not taken back by who sent it;        *)
(*    EstimatesAgree, WithinBudget   the sum of the charges;               *)
(*    SlotsAgree    who sets up a call, or has one in flight, has a live   *)
(*                  lease, and resolvers have their share at most.         *)
(* Each part is kept by what a step does to its ledger, so the actions are *)
(* first summed up for each of them: LedgerStep, Move, WorldStep,          *)
(* BudgetStep and SlotStep.  The sum of the charges runs along a chain of  *)
(* chosen reservations; its lemmas follow that chain, by well-founded      *)
(* induction on the subsets of a finite set.                               *)
(***************************************************************************)
EXTENDS AiCalls, FiniteSetTheorems, SequenceTheorems, WellFoundedInduction, TLAPS

Statuses == {"reserved", "success", "rate_limited", "ambiguous", "response_rejected", "cutoff"}
Row == [status : Statuses, by : Handlers]
Answers == {"success", "rate_limited", "ambiguous", "response_rejected"}
Callers == Calls \cup OtherCalls

(* What is where: the parts of the state, typed. *)
JobTypes == holder \in claimed \cup {NoHandler} /\ claimed \subseteq Handlers /\ faults \in 0..MaxFaults

LedgerTypes ==
    /\ attempts \in [Ops -> Seq(Row)] /\ result \in [Ops -> Nat]
    /\ \A o \in Ops : Len(attempts[o]) <= MaxAttempts

BudgetRow == [state : {"none", "reserved", "settled", "cancelled"}, id : Nat, cost : Nat,
              by : Handlers \cup {NoHandler}]

BudgetTypes == budget \in [Keys -> BudgetRow]

SlotRow == [state : {"available", "leased", "quarantined"}, owner : Callers \cup {NoSlotOwner},
            attempt : 0..MaxAttempts, live : BOOLEAN]

SlotTypes == slot \in [Slots -> SlotRow]

CallTypes ==
    /\ pc \in [Calls -> {"idle", "prepare", "reserve", "acquire", "attempt", "unlease", "cancel",
                         "dispatch", "call", "settle", "record", "release", "done", "gone"}]
    /\ n \in [Calls -> 0..MaxAttempts] /\ paper \in [Calls -> Nat]
    /\ got \in [Calls -> {"none"} \cup Answers]
    /\ fenced \in [Calls -> BOOLEAN] /\ cut \in [Calls -> {"no", "due", "written", "failed"}]

WorldTypes == inFlight \subseteq sent /\ sent \subseteq Callers \X (1..MaxAttempts)

Types == JobTypes /\ LedgerTypes /\ BudgetTypes /\ SlotTypes /\ CallTypes /\ WorldTypes

(* The points before an attempt is sent, and after. *)
Setup == {"reserve", "acquire", "attempt", "unlease", "cancel", "dispatch"}
Answering == {"call", "settle", "record", "release"}

(* A call that is under way has an attempt, and an answer where it needs   *)
(* one; a claim that nobody drew yet has no call under way. *)
CallAgrees(c) ==
    /\ Handler(c) \notin claimed => pc[c] = "idle"
    /\ pc[c] \in Setup \cup Answering => n[c] > 0
    /\ pc[c] \in {"settle", "record"} /\ ~Aborted(c) => got[c] # "none"

(* What a call sent lies behind it; the provider is done with an attempt   *)
(* before its call goes on to record the answer. *)
SentAgrees(c) ==
    /\ \A k \in 1..MaxAttempts : <<c, k>> \in sent =>
          /\ pc[c] \notin {"idle", "prepare"}
          /\ pc[c] # "gone" => k <= n[c]
          /\ pc[c] \in Setup => k < n[c]
    /\ pc[c] \in Answering => <<c, n[c]>> \in sent
    /\ pc[c] \in {"record", "release"} \/ (pc[c] = "settle" /\ ~Aborted(c)) => <<c, n[c]>> \notin inFlight

CallsAgree ==
    /\ \A c \in Calls : CallAgrees(c) /\ SentAgrees(c)
    /\ \A x \in sent : x[1] \in OtherCalls => x[2] = 1

(* The attempts of an operation that are not the last were turned away;    *)
(* who is about to send an attempt, or sent it, opened its row; and a      *)
(* result is that of the last row, which was sent. *)
Opened(c, k) == k \in 1..Len(attempts[Op(c)]) /\ attempts[Op(c)][k].by = Handler(c)

RowsAgree ==
    /\ \A o \in Ops : \A k \in 1..Len(attempts[o]) :
          k < Len(attempts[o]) => attempts[o][k].status = "rate_limited"
    /\ \A c \in Calls : pc[c] = "dispatch" => Opened(c, n[c])
    /\ \A c \in Calls, k \in 1..MaxAttempts : <<c, k>> \in sent => Opened(c, k)

ResultsAgree ==
    \A o \in Ops : result[o] # 0 =>
        /\ result[o] = Len(attempts[o]) /\ attempts[o][result[o]].status = "success"
        /\ <<<<attempts[o][result[o]].by, o>>, result[o]>> \in sent

(* A handler takes back only what it did not send. *)
NotTakenBack(c, k) ==
    LET row == budget[<<Op(c), k>>] IN IsCharged(row) \/ row.by # Handler(c)

ChargesAgree ==
    /\ \A c \in Calls : pc[c] \in Setup \ {"reserve"} => NotTakenBack(c, n[c])
    /\ \A c \in Calls, k \in 1..MaxAttempts : <<c, k>> \in sent => NotTakenBack(c, k)
    /\ \A o \in Others : <<<<NoHandler, o>>, 1>> \in sent => IsCharged(budget[<<o, 1>>])

(* A reservation is charged at the estimate until it is settled. *)
EstimatesAgree == \A key \in Keys : budget[key].state = "reserved" => budget[key].cost = Estimate

(* A call has a live slot while it sets up its attempt and while the       *)
(* provider works on it. *)
Leased(c, k) == \E s \in Slots :
    Taken(slot[s]) /\ slot[s].owner = c /\ slot[s].attempt = k /\ slot[s].live

SlotsAgree ==
    /\ \A s \in Slots : Taken(slot[s]) => slot[s].owner \in Callers /\ slot[s].attempt > 0
    /\ \A c \in Calls : pc[c] \in {"attempt", "dispatch"} => Leased(c, n[c])
    /\ \A x \in inFlight : Leased(x[1], x[2])
    /\ Cardinality({s \in Slots : OfResolver(slot[s])}) <= MaxResolver

AiInv ==
    /\ Types /\ CallsAgree /\ RowsAgree /\ ResultsAgree /\ ChargesAgree /\ EstimatesAgree
    /\ SlotsAgree /\ WithinBudget
-----------------------------------------------------------------------------
(* What a step does to the attempt ledger: a row is opened by a call that  *)
(* sets up the next attempt, closed by a call that records its answer, or  *)
(* cut off while it is open. *)
Opens(c) ==
    /\ pc[c] = "attempt" /\ Len(attempts[Op(c)]) = n[c] - 1 /\ CanRetry(Op(c))
    /\ ReserveAttempt(Handler(c), Op(c)) /\ UNCHANGED result

Closes(c) ==
    /\ pc[c] = "record" /\ ~Aborted(c) /\ Terminalize(Handler(c), Op(c), n[c], got[c])

CutsOff(o, k) ==
    /\ k \in 1..Len(attempts[o]) /\ attempts[o][k].status = "reserved"
    /\ attempts' = [attempts EXCEPT ![o][k].status = "cutoff"] /\ UNCHANGED result

LedgerStep ==
    \/ UNCHANGED ledgerVars
    \/ \E c \in Calls : Opens(c) \/ Closes(c)
    \/ \E o \in Ops : \E k \in 1..Len(attempts[o]) : CutsOff(o, k)

(* Every step is one of these, for the ledger. *)
LEMMA LedgerSteps ==
    ASSUME Types, CallsAgree, SlotsAgree, [AiNext]_vars
    PROVE  LedgerStep
<1>1. ASSUME NEW c \in Calls, CallStep(c) \/ CutOff(c) \/ Lost(c)
      PROVE  LedgerStep
  <2>1. CASE Attempt(c) \/ AttemptUnanswered(c)
    <3>1. Opens(c) \/ UNCHANGED ledgerVars
      BY <2>1 DEF Attempt, AttemptUnanswered, CanReserveAttempt, Opens, At, ledgerVars
    <3>. QED
      BY <3>1 DEF LedgerStep
  <2>2. CASE Record(c) \/ RecordUnanswered(c)
    <3>1. Closes(c) \/ UNCHANGED ledgerVars
      BY <2>2 DEF Record, RecordUnanswered, Closes, At
    <3>. QED
      BY <3>1 DEF LedgerStep
  <2>3. CASE WriteCutoff(c) \/ WriteCutoffUnanswered(c)
    <3>1. \/ UNCHANGED ledgerVars
          \/ CanCutoff(c) /\ CutoffRows(c)
      BY <2>3 DEF WriteCutoff, WriteCutoffUnanswered, ledgerVars
    <3>2. ASSUME CanCutoff(c), CutoffRows(c) PROVE CutsOff(Op(c), n[c])
      BY <3>2 DEF CanCutoff, CutoffRows, IsReserved, CutsOff, Types, CallTypes
    <3>3. Op(c) \in Ops
      BY DEF Op, Calls
    <3>4. ASSUME CutsOff(Op(c), n[c]) PROVE n[c] \in 1..Len(attempts[Op(c)])
      BY <3>4 DEF CutsOff
    <3>. QED
      BY <3>1, <3>2, <3>3, <3>4 DEF LedgerStep
  <2>4. CASE \/ Prepare(c) \/ Reserve(c) \/ Acquire(c) \/ Unlease(c) \/ Cancel(c) \/ Dispatch(c)
             \/ Answer(c) \/ AbortCall(c) \/ Settle(c) \/ Release(c) \/ CutOff(c)
             \/ ReserveUnanswered(c) \/ AcquireUnanswered(c) \/ SettleUnanswered(c)
             \/ ReleaseUnanswered(c)
    BY <2>4
    DEF Prepare, Reserve, Acquire, Unlease, Cancel, Dispatch, Answer, AbortCall, Settle,
        Release, CutOff, ReserveUnanswered, AcquireUnanswered, SettleUnanswered,
        ReleaseUnanswered, LedgerStep
  <2>. QED
    BY <1>1, <2>1, <2>2, <2>3, <2>4 DEF CallStep, Lost
<1>2. ASSUME NEW s \in Slots, SlotExpires(s) \/ Sweep(s) \/ ResolveQuarantine(s)
      PROVE  LedgerStep
  <2>1. CASE RecoverCutoff(s)
    <3>1. Taken(slot[s]) /\ Pending(slot[s]) /\ OpOf(slot[s]) \in Ops
      BY <2>1 DEF RecoverCutoff, OfResolver, Pending
    <3>2. slot[s].attempt \in 1..Len(attempts[OpOf(slot[s])])
      BY <3>1 DEF SlotsAgree, Pending, Types, SlotTypes, SlotRow, LedgerTypes
    <3>3. CutsOff(OpOf(slot[s]), slot[s].attempt)
      BY <2>1, <3>1, <3>2 DEF RecoverCutoff, Pending, CutsOff
    <3>. QED
      BY <3>1, <3>2, <3>3 DEF LedgerStep
  <2>2. CASE SlotExpires(s) \/ ReapCutoff(s) \/ ResolveQuarantine(s)
    BY <2>2 DEF SlotExpires, ReapCutoff, ResolveQuarantine, LedgerStep
  <2>. QED
    BY <1>2, <2>1, <2>2 DEF Sweep
<1>3. ASSUME \/ \E call \in inFlight : ProviderEnds(call)
             \/ \E o \in Others : OtherBegins(o) \/ OtherEnds(o)
             \/ \E h \in Handlers : Crash(h)
             \/ Claim \/ Leave \/ LoseClaim
      PROVE  LedgerStep
  BY <1>3 DEF ProviderEnds, OtherBegins, OtherEnds, Crash, Claim, Leave, LoseClaim, LedgerStep
<1>4. ASSUME UNCHANGED vars PROVE LedgerStep
  BY <1>4 DEF vars, LedgerStep
<1>. QED
  BY <1>1, <1>2, <1>3, <1>4 DEF AiNext

(* The rows after a row was opened, and after one was closed. *)
LEMMA RowOpened ==
    ASSUME LedgerTypes, NEW o \in Ops, NEW h \in Handlers, ReserveAttempt(h, o)
    PROVE  /\ attempts' \in [Ops -> Seq(Row)]
           /\ \A p \in Ops \ {o} : attempts'[p] = attempts[p]
           /\ Len(attempts'[o]) = Len(attempts[o]) + 1
           /\ \A k \in 1..Len(attempts[o]) : attempts'[o][k] = attempts[o][k]
           /\ attempts'[o][Len(attempts[o]) + 1] = [status |-> "reserved", by |-> h]
<1>1. attempts[o] \in Seq(Row) /\ [status |-> "reserved", by |-> h] \in Row
  BY DEF LedgerTypes, Row, Statuses
<1>2. attempts'[o] = Append(attempts[o], [status |-> "reserved", by |-> h])
  BY DEF ReserveAttempt, LedgerTypes
<1>3. /\ Append(attempts[o], [status |-> "reserved", by |-> h]) \in Seq(Row)
      /\ Len(attempts'[o]) = Len(attempts[o]) + 1
      /\ \A k \in 1..Len(attempts[o]) : attempts'[o][k] = attempts[o][k]
      /\ attempts'[o][Len(attempts[o]) + 1] = [status |-> "reserved", by |-> h]
  BY <1>1, <1>2, AppendProperties
<1>. QED
  BY <1>2, <1>3 DEF ReserveAttempt, LedgerTypes

(* The rows after an open row was closed. *)
LEMMA RowClosed ==
    ASSUME LedgerTypes, NEW o \in Ops, NEW k \in 1..Len(attempts[o]), NEW a \in Statuses,
           attempts' = [attempts EXCEPT ![o][k].status = a]
    PROVE  /\ attempts' \in [Ops -> Seq(Row)]
           /\ \A p \in Ops \ {o} : attempts'[p] = attempts[p]
           /\ Len(attempts'[o]) = Len(attempts[o])
           /\ \A j \in 1..Len(attempts[o]) \ {k} : attempts'[o][j] = attempts[o][j]
           /\ attempts'[o][k] = [status |-> a, by |-> attempts[o][k].by]
<1>1. attempts[o] \in Seq(Row) /\ attempts[o][k] \in Row
  BY DEF LedgerTypes
<1> DEFINE row == [attempts[o][k] EXCEPT !.status = a]
<1>2. row \in Row /\ row = [status |-> a, by |-> attempts[o][k].by]
  BY <1>1 DEF Row
<1>3. attempts'[o] = [attempts[o] EXCEPT ![k] = row]
  BY DEF LedgerTypes
<1>4. [attempts[o] EXCEPT ![k] = row] \in Seq(Row)
  BY <1>1, <1>2, ExceptSeq
<1>5. /\ Len(attempts'[o]) = Len(attempts[o])
      /\ \A j \in 1..Len(attempts[o]) \ {k} : attempts'[o][j] = attempts[o][j]
      /\ attempts'[o][k] = row
  BY <1>1, <1>2, <1>3, ExceptSeq
<1>. QED
  BY <1>2, <1>3, <1>4, <1>5 DEF LedgerTypes
(* Rows stay: whoever opened them, and how they were closed. *)
RowsStay ==
    \A o \in Ops :
        /\ Len(attempts'[o]) >= Len(attempts[o])
        /\ \A k \in 1..Len(attempts[o]) :
              /\ attempts'[o][k].by = attempts[o][k].by
              /\ attempts[o][k].status # "reserved" => attempts'[o][k] = attempts[o][k]

(* The ledger of Opens, Closes and CutsOff is typed, and its rows stay. *)
LEMMA LedgerTypeStep ==
    ASSUME Types, CallsAgree, LedgerStep
    PROVE  LedgerTypes' /\ RowsStay
<1> USE DEF Types
<1>1. CASE UNCHANGED ledgerVars
  BY <1>1 DEF ledgerVars, LedgerTypes, RowsStay
<1>2. ASSUME NEW c \in Calls, Opens(c) PROVE LedgerTypes' /\ RowsStay
  <2>1. Op(c) \in Ops /\ Handler(c) \in Handlers
    BY DEF Op, Handler, Calls
  <2>2. Len(attempts[Op(c)]) \in Nat /\ Len(attempts[Op(c)]) + 1 <= MaxAttempts
    BY <1>2, <2>1, AiAssumption DEF Opens, LedgerTypes, CallTypes
  <2>3. ReserveAttempt(Handler(c), Op(c)) /\ result' = result
    BY <1>2 DEF Opens
  <2>4. LedgerTypes'
    BY <2>1, <2>2, <2>3, RowOpened DEF LedgerTypes
  <2>5. RowsStay
    <3>1. ASSUME NEW o \in Ops, o # Op(c) PROVE attempts'[o] = attempts[o]
      BY <2>1, <2>3, <3>1, RowOpened
    <3>2. /\ Len(attempts'[Op(c)]) = Len(attempts[Op(c)]) + 1
          /\ \A k \in 1..Len(attempts[Op(c)]) : attempts'[Op(c)][k] = attempts[Op(c)][k]
      BY <2>1, <2>3, RowOpened
    <3>3. \A o \in Ops : Len(attempts[o]) \in Nat
      BY DEF LedgerTypes
    <3>. QED
      BY <3>1, <3>2, <3>3 DEF RowsStay
  <2>. QED
    BY <2>4, <2>5
<1>3. ASSUME NEW o \in Ops, NEW k \in 1..Len(attempts[o]), NEW a \in Statuses,
             attempts[o][k].status = "reserved",
             attempts' = [attempts EXCEPT ![o][k].status = a],
             result' \in [Ops -> Nat]
      PROVE  LedgerTypes' /\ RowsStay
  <2>1. ASSUME NEW p \in Ops PROVE Len(attempts[p]) \in Nat
    BY DEF LedgerTypes
  <2>2. LedgerTypes'
    BY <1>3, RowClosed DEF LedgerTypes
  <2>3. RowsStay
    BY <1>3, <2>1, RowClosed DEF RowsStay
  <2>. QED
    BY <2>2, <2>3
<1>4. ASSUME NEW c \in Calls, Closes(c) PROVE LedgerTypes' /\ RowsStay
  <2>1. Op(c) \in Ops /\ n[c] \in Nat
    BY DEF Op, Calls, CallTypes
  <2>2. /\ n[c] \in 1..Len(attempts[Op(c)])
        /\ attempts[Op(c)][n[c]].status = "reserved"
        /\ attempts' = [attempts EXCEPT ![Op(c)][n[c]].status = got[c]]
    BY <1>4, <2>1 DEF Closes, Terminalize, IsReserved, LedgerTypes
  <2>3. got[c] \in Statuses
    BY <1>4 DEF Closes, CallsAgree, CallAgrees, CallTypes, Answers, Statuses
  <2>4. result' \in [Ops -> Nat]
    BY <1>4, <2>1 DEF Closes, Terminalize, LedgerTypes
  <2>. QED
    BY <1>3, <2>1, <2>2, <2>3, <2>4
<1>5. ASSUME NEW o \in Ops, NEW k \in 1..Len(attempts[o]), CutsOff(o, k)
      PROVE  LedgerTypes' /\ RowsStay
  BY <1>3, <1>5 DEF CutsOff, LedgerTypes, Statuses
<1>. QED
  BY <1>1, <1>2, <1>4, <1>5 DEF LedgerStep

-----------------------------------------------------------------------------
(* What a step does to the calls. *)
Stays(c) == pc'[c] = pc[c] /\ n'[c] = n[c] /\ got'[c] = got[c]

Passes(c, from, to) == pc[c] = from /\ pc'[c] = to /\ n'[c] = n[c] /\ got'[c] = got[c]

Numbered(c) ==
    \/ pc[c] = "prepare" /\ n'[c] = Len(attempts[Op(c)]) + 1
    \/ pc[c] = "release" /\ n'[c] = n[c] + 1

Move(c) ==
    \/ Stays(c)
    \/ pc'[c] = "gone" /\ Handler(c) \in claimed
    \/ /\ pc[c] \in Setup \cup Answering \cup {"prepare"} /\ pc'[c] = "done"
       /\ n'[c] = n[c] /\ got'[c] = got[c]
    \/ /\ pc[c] \in Setup /\ pc'[c] = "cancel"
       /\ n'[c] = n[c] /\ got'[c] = got[c]
    \/ Passes(c, "idle", "prepare") /\ Handler(c) \in claimed'
    \/ pc'[c] = "reserve" /\ Numbered(c) /\ n'[c] \in 1..MaxAttempts /\ got'[c] = got[c]
    \/ Passes(c, "reserve", "acquire")
    \/ Passes(c, "acquire", "attempt")
    \/ Passes(c, "attempt", "unlease")
    \/ Passes(c, "attempt", "dispatch") /\ Opens(c)
    \/ Passes(c, "dispatch", "call") /\ <<c, n[c]>> \in sent'
    \/ Passes(c, "call", "settle") /\ Aborted(c)
    \/ /\ pc[c] = "call" /\ pc'[c] = "settle" /\ n'[c] = n[c] /\ got'[c] \in Answers
       /\ <<c, n[c]>> \notin inFlight'
    \/ Passes(c, "settle", "record") /\ ~Aborted(c)
    \/ Passes(c, "record", "release")

(* What was cut off remains so. *)
StaysCutOff(c) == Aborted(c) => Aborted(c)' \/ pc'[c] = "gone"

(* A call of the job that moves leaves the other calls where they are. *)
CallActions(c) ==
    CallStep(c) \/ CutOff(c) \/ Lost(c)

Alone(c) ==
    \A d \in Calls \ {c} : Stays(d) /\ cut'[d] = cut[d]

(* A step of a call is typed, and moves no other call. *)
LEMMA CallMovesAlone ==
    ASSUME Types, CallsAgree, NEW c \in Calls, CallActions(c)
    PROVE  CallTypes' /\ Alone(c)
<1> USE DEF Types, CallTypes, Go, At, Aborted, Alone, Stays
<1>1. Op(c) \in Ops /\ n[c] \in Nat
  BY DEF Op, Calls
<1>2. CASE Prepare(c)
  <2>1. NextAttempt(Op(c)) \in 0..MaxAttempts
    BY <1>1, AiAssumption DEF NextAttempt, LedgerTypes
  <2>. QED
    BY <1>2, <2>1, AiAssumption DEF Prepare
<1>3. CASE Reserve(c) \/ ReserveUnanswered(c)
  <2>1. ASSUME pc[c] = "reserve", ReserveBudget(Key(c)) PROVE budget'[Key(c)].id \in Nat
    <3>1. Key(c) \in Keys
      BY <1>1, <2>1, AiAssumption DEF Key, Keys, CallsAgree, CallAgrees, Setup
    <3>. QED
      BY <2>1, <3>1 DEF ReserveBudget, BudgetTypes, BudgetRow
  <2>2. paper' \in [Calls -> Nat]
    <3>1. \/ paper' = paper
          \/ /\ pc[c] = "reserve" /\ ReserveBudget(Key(c))
             /\ paper' = [paper EXCEPT ![c] = budget'[Key(c)].id]
      BY <1>3 DEF Reserve, ReserveUnanswered
    <3>. QED
      BY <2>1, <3>1
  <2>3. /\ \E point \in {"done", "acquire"} : pc' = [pc EXCEPT ![c] = point]
        /\ UNCHANGED <<n, got, fenced, cut>>
    BY <1>3 DEF Reserve, ReserveUnanswered
  <2>. QED
    BY <2>2, <2>3
<1>4. CASE Acquire(c) \/ Unlease(c) \/ Cancel(c)
  BY <1>4 DEF Acquire, Unlease, Cancel
<1>8. CASE Attempt(c) \/ Dispatch(c)
  BY <1>8 DEF Attempt, Dispatch
<1>9. CASE Answer(c) \/ AbortCall(c)
  BY <1>9 DEF Answer, AbortCall, Answers
<1>10. CASE Settle(c) \/ Record(c)
  BY <1>10 DEF Settle, Record
<1>5. CASE Release(c)
  <2>1. Retries(c) => n[c] + 1 \in 0..MaxAttempts
    BY <1>1, AiAssumption DEF Retries
  <2>. QED
    BY <1>5, <2>1 DEF Release
<1>6. CASE \/ AcquireUnanswered(c) \/ AttemptUnanswered(c) \/ SettleUnanswered(c)
           \/ RecordUnanswered(c) \/ ReleaseUnanswered(c)
  BY <1>6
  DEF AcquireUnanswered, AttemptUnanswered, SettleUnanswered, RecordUnanswered, ReleaseUnanswered
<1>7. CASE CutOff(c) \/ WriteCutoff(c) \/ WriteCutoffUnanswered(c)
  BY <1>7 DEF CutOff, WriteCutoff, WriteCutoffUnanswered
<1>. QED
  BY <1>2, <1>3, <1>4, <1>5, <1>6, <1>7, <1>8, <1>9, <1>10 DEF CallActions, CallStep, Lost

(* It is one of the moves, and undoes no cutoff. *)
LEMMA CallMoves ==
    ASSUME Types, CallsAgree, NEW c \in Calls, CallActions(c)
    PROVE  Move(c) /\ StaysCutOff(c)
<1> USE DEF Types, CallTypes, Go, At, Aborted, Stays, Passes, StaysCutOff, Setup, Answering
<1>1. Op(c) \in Ops /\ n[c] \in Nat
  BY DEF Op, Calls
<1>2. CASE Prepare(c)
  <2>1. \/ NextAttempt(Op(c)) = 0
        \/ NextAttempt(Op(c)) = Len(attempts[Op(c)]) + 1 /\ NextAttempt(Op(c)) \in 1..MaxAttempts
    BY <1>1, AiAssumption DEF NextAttempt, LedgerTypes
  <2>. QED
    BY <1>2, <2>1 DEF Prepare, Move, Numbered
<1>3. CASE Reserve(c) \/ ReserveUnanswered(c)
  BY <1>3 DEF Reserve, ReserveUnanswered, Move
<1>4. CASE Acquire(c) \/ AcquireUnanswered(c) \/ Unlease(c) \/ Cancel(c) \/ Dispatch(c)
  BY <1>4 DEF Acquire, AcquireUnanswered, Unlease, Cancel, Dispatch, Move
<1>5. CASE Attempt(c) \/ AttemptUnanswered(c)
  BY <1>5 DEF Attempt, AttemptUnanswered, CanReserveAttempt, Opens, Move
<1>6. CASE Answer(c)
  BY <1>6 DEF Answer, Answers, Move
<1>7. CASE AbortCall(c) \/ Settle(c) \/ SettleUnanswered(c)
  BY <1>7 DEF AbortCall, Settle, SettleUnanswered, Move
<1>8. CASE Record(c) \/ RecordUnanswered(c) \/ ReleaseUnanswered(c)
  BY <1>8 DEF Record, RecordUnanswered, ReleaseUnanswered, Move
<1>9. CASE Release(c)
  <2>1. Retries(c) => n[c] + 1 \in 1..MaxAttempts
    BY <1>1, AiAssumption DEF Retries
  <2>. QED
    BY <1>9, <2>1 DEF Release, Move, Numbered
<1>10. CASE CutOff(c) \/ WriteCutoff(c) \/ WriteCutoffUnanswered(c)
  BY <1>10 DEF CutOff, WriteCutoff, WriteCutoffUnanswered, Move
<1>. QED
  BY <1>2, <1>3, <1>4, <1>5, <1>6, <1>7, <1>8, <1>9, <1>10 DEF CallActions, CallStep, Lost

(* What a step does to the provider: attempts end, or one is sent. *)
Sends(c, k) == inFlight' = inFlight \cup {<<c, k>>} /\ sent' = sent \cup {<<c, k>>}

WorldStep ==
    \/ inFlight' \subseteq inFlight /\ sent' = sent
    \/ \E c \in Calls : Passes(c, "dispatch", "call") /\ Sends(c, n[c])
    \/ \E o \in Others : Sends(<<NoHandler, o>>, 1) /\ UNCHANGED callVars

(* Every step, for the calls and the claims. *)
LEMMA CallSteps ==
    ASSUME Types, CallsAgree, [AiNext]_vars
    PROVE  /\ CallTypes' /\ JobTypes' /\ claimed \subseteq claimed'
           /\ \A c \in Calls : Move(c) /\ StaysCutOff(c)
<1> DEFINE Claims == JobTypes' /\ claimed \subseteq claimed'
           Moved == CallTypes' /\ \A c \in Calls : Move(c) /\ StaysCutOff(c)
<1>1. ASSUME UNCHANGED callVars PROVE Moved
  BY <1>1 DEF callVars, CallTypes, Types, Move, Stays, StaysCutOff, Aborted
<1>2. ASSUME UNCHANGED <<jobVars, faults>> \/ (UNCHANGED jobVars /\ Fault)
      PROVE  Claims
  BY <1>2, AiAssumption DEF jobVars, Fault, JobTypes, Types
<1>3. ASSUME NEW c \in Calls, CallActions(c) PROVE Claims /\ Moved
  <2>1. UNCHANGED <<jobVars, faults>> \/ (UNCHANGED jobVars /\ Fault)
    <3>1. CASE CallStep(c) \/ CutOff(c)
      BY <3>1
      DEF CallStep, Prepare, Reserve, Acquire, Attempt, Unlease, Cancel, Dispatch, Answer,
          AbortCall, Settle, Record, Release, WriteCutoff, CutOff, NoFault
    <3>2. CASE Lost(c)
      BY <3>2
      DEF Lost, ReserveUnanswered, AcquireUnanswered, AttemptUnanswered, SettleUnanswered,
          RecordUnanswered, ReleaseUnanswered, WriteCutoffUnanswered
    <3>. QED
      BY <1>3, <3>1, <3>2 DEF CallActions
  <2>2. CallTypes' /\ Alone(c)
    BY <1>3, CallMovesAlone
  <2>3. Move(c) /\ StaysCutOff(c)
    BY <1>3, CallMoves
  <2>4. ASSUME NEW d \in Calls, d # c PROVE Move(d) /\ StaysCutOff(d)
    BY <2>2, <2>4 DEF Alone, Move, StaysCutOff, Aborted
  <2>. QED
    BY <1>2, <2>1, <2>2, <2>3, <2>4
<1>4. ASSUME NEW h \in Handlers, Crash(h) PROVE Claims /\ Moved
  <2>1. CallTypes'
    <3>1. /\ pc' = [c \in Calls |-> IF Handler(c) = h THEN "gone" ELSE pc[c]]
          /\ n' = [c \in Calls |-> IF Handler(c) = h THEN 0 ELSE n[c]]
          /\ paper' = [c \in Calls |-> IF Handler(c) = h THEN 0 ELSE paper[c]]
          /\ got' = [c \in Calls |-> IF Handler(c) = h THEN "none" ELSE got[c]]
          /\ fenced' = [c \in Calls |-> IF Handler(c) = h THEN FALSE ELSE fenced[c]]
          /\ cut' = [c \in Calls |-> IF Handler(c) = h THEN "no" ELSE cut[c]]
      BY <1>4 DEF Crash
    <3>2. 0 \in 0..MaxAttempts
      BY AiAssumption
    <3>. QED
      BY <3>1, <3>2 DEF CallTypes, Types
  <2>2. h \in claimed
    BY <1>4 DEF Crash, CallsOf, CallsAgree, CallAgrees
  <2>3. ASSUME NEW d \in Calls PROVE Move(d) /\ StaysCutOff(d)
    BY <1>4, <2>2 DEF Crash, CallTypes, Types, Move, Stays, StaysCutOff, Aborted
  <2>. QED
    BY <1>2, <1>4, <2>1, <2>3 DEF Crash
<1>5. ASSUME Claim PROVE Claims /\ Moved
  <2>1. PICK h \in Handlers \ claimed : /\ holder' = h /\ claimed' = claimed \cup {h}
                                        /\ pc' = [c \in Calls |-> IF Handler(c) = h THEN "prepare" ELSE pc[c]]
                                        /\ UNCHANGED <<n, paper, got, fenced, cut, faults>>
    BY <1>5 DEF Claim, Types, JobTypes
  <2>2. Claims
    BY <2>1 DEF Types, JobTypes
  <2>3. CallTypes'
    BY <2>1 DEF Types, CallTypes
  <2>4. ASSUME NEW d \in Calls PROVE Move(d) /\ StaysCutOff(d)
    <3>1. Handler(d) = h => pc[d] = "idle"
      BY <2>1 DEF CallsAgree, CallAgrees
    <3>. QED
      BY <2>1, <3>1 DEF Types, CallTypes, Move, Stays, Passes, StaysCutOff, Aborted
  <2>. QED
    BY <2>2, <2>3, <2>4
<1>6. ASSUME Leave \/ LoseClaim PROVE Claims /\ Moved
  <2>1. Claims
    BY <1>6, AiAssumption DEF Leave, LoseClaim, Fault, Types, JobTypes
  <2>. QED
    BY <1>1, <1>6, <2>1 DEF Leave, LoseClaim
<1>7. ASSUME NEW s \in Slots, SlotExpires(s) \/ Sweep(s) \/ ResolveQuarantine(s)
      PROVE  Claims /\ Moved
  BY <1>1, <1>2, <1>7 DEF SlotExpires, Sweep, RecoverCutoff, ReapCutoff, ResolveQuarantine
<1>8. ASSUME \/ \E call \in inFlight : ProviderEnds(call)
             \/ \E o \in Others : OtherBegins(o) \/ OtherEnds(o)
      PROVE  Claims /\ Moved
  BY <1>1, <1>2, <1>8 DEF ProviderEnds, OtherBegins, OtherEnds
<1>9. ASSUME UNCHANGED vars PROVE Claims /\ Moved
  BY <1>1, <1>2, <1>9 DEF vars
<1>. QED
  BY <1>3, <1>4, <1>5, <1>6, <1>7, <1>8, <1>9 DEF AiNext, CallActions

(* ... and for the provider. *)
LEMMA WorldSteps ==
    ASSUME Types, [AiNext]_vars
    PROVE  WorldStep
<1> USE DEF WorldStep, worldVars
<1>1. ASSUME NEW c \in Calls, CallActions(c) PROVE WorldStep
  <2>1. CASE Dispatch(c)
    BY <1>1, <2>1 DEF Dispatch, At, Go, Passes, Sends, Types, CallTypes
  <2>2. CASE Answer(c)
    BY <2>2 DEF Answer
  <2>3. CASE \/ Prepare(c) \/ Reserve(c) \/ Acquire(c) \/ Attempt(c) \/ Unlease(c) \/ Cancel(c)
             \/ AbortCall(c) \/ Settle(c) \/ Record(c) \/ Release(c) \/ WriteCutoff(c) \/ CutOff(c)
    BY <2>3
    DEF Prepare, Reserve, Acquire, Attempt, Unlease, Cancel, AbortCall, Settle, Record, Release,
        WriteCutoff, CutOff
  <2>4. CASE Lost(c)
    BY <2>4
    DEF Lost, ReserveUnanswered, AcquireUnanswered, AttemptUnanswered, SettleUnanswered,
        RecordUnanswered, ReleaseUnanswered, WriteCutoffUnanswered
  <2>. QED
    BY <1>1, <2>1, <2>2, <2>3, <2>4 DEF CallActions, CallStep
<1>2. ASSUME NEW s \in Slots, SlotExpires(s) \/ Sweep(s) \/ ResolveQuarantine(s)
      PROVE  WorldStep
  BY <1>2 DEF SlotExpires, Sweep, RecoverCutoff, ReapCutoff, ResolveQuarantine
<1>3. ASSUME NEW o \in Others, OtherBegins(o) \/ OtherEnds(o) PROVE WorldStep
  BY <1>3 DEF OtherBegins, OtherEnds, Sends
<1>4. ASSUME \/ \E call \in inFlight : ProviderEnds(call)
             \/ \E h \in Handlers : Crash(h)
             \/ Claim \/ Leave \/ LoseClaim \/ UNCHANGED vars
      PROVE  WorldStep
  BY <1>4 DEF ProviderEnds, Crash, Claim, Leave, LoseClaim, vars
<1>. QED
  BY <1>1, <1>2, <1>3, <1>4 DEF AiNext, CallActions

(* What is in flight was sent, by somebody who can. *)
LEMMA WorldTypeStep ==
    ASSUME Types, CallsAgree, WorldStep
    PROVE  WorldTypes'
<1>1. ASSUME NEW c \in Callers, NEW k \in 1..MaxAttempts, Sends(c, k) PROVE WorldTypes'
  BY <1>1 DEF Sends, Types, WorldTypes
<1>2. ASSUME NEW c \in Calls, Passes(c, "dispatch", "call"), Sends(c, n[c]) PROVE WorldTypes'
  <2>1. n[c] \in 1..MaxAttempts
    BY <1>2, AiAssumption DEF Types, CallTypes, CallsAgree, CallAgrees, Passes, Setup
  <2>. QED
    BY <1>1, <1>2, <2>1 DEF Callers
<1>3. ASSUME NEW o \in Others, Sends(<<NoHandler, o>>, 1) PROVE WorldTypes'
  <2>1. 1 \in 1..MaxAttempts /\ <<NoHandler, o>> \in Callers
    BY AiAssumption DEF Callers, OtherCalls
  <2>. QED
    BY <1>1, <1>3, <2>1
<1>4. CASE inFlight' \subseteq inFlight /\ sent' = sent
  BY <1>4 DEF Types, WorldTypes
<1>. QED
  BY <1>2, <1>3, <1>4 DEF WorldStep

(* The calls agree after every step. *)
LEMMA CallAgreesStep ==
    ASSUME Types, CallsAgree, [AiNext]_vars, NEW c \in Calls
    PROVE  CallAgrees(c)'
<1> USE DEF Setup, Answering
<1>1. Move(c) /\ StaysCutOff(c) /\ CallTypes' /\ claimed \subseteq claimed'
  BY CallSteps
<1>2. CallAgrees(c) /\ n[c] \in Nat
  BY DEF CallsAgree, Types, CallTypes
<1>3. Handler(c) \notin claimed' => pc'[c] = "idle"
  BY <1>1, <1>2 DEF CallAgrees, Move, Stays, Passes, Numbered
<1>4. pc'[c] \in Setup \cup Answering => n'[c] > 0
  BY <1>1, <1>2, AiAssumption DEF CallAgrees, Move, Stays, Passes
<1>5. pc'[c] \in {"settle", "record"} /\ ~Aborted(c)' => got'[c] # "none"
  BY <1>1, <1>2 DEF CallAgrees, Move, Stays, Passes, StaysCutOff, Aborted, Answers
<1>. QED
  BY <1>3, <1>4, <1>5 DEF CallAgrees, Aborted

(* What a call sent lies behind it after every step. *)
LEMMA SentAgreesStep ==
    ASSUME Types, CallsAgree, [AiNext]_vars, NEW c \in Calls
    PROVE  SentAgrees(c)'
<1> USE DEF Setup, Answering
<1>1. Move(c) /\ StaysCutOff(c) /\ WorldStep
  BY CallSteps, WorldSteps
<1>2. CallAgrees(c) /\ SentAgrees(c) /\ n[c] \in Nat /\ NoHandler \notin Handlers
  BY AiAssumption DEF CallsAgree, Types, CallTypes
<1>3. ASSUME NEW k \in 1..MaxAttempts, <<c, k>> \in sent' \ sent
      PROVE  Passes(c, "dispatch", "call") /\ k = n[c]
  <2>1. c[1] \in Handlers
    BY DEF Calls
  <2>. QED
    BY <1>1, <1>2, <1>3, <2>1 DEF WorldStep, Sends
<1>4. ASSUME NEW k \in 1..MaxAttempts, <<c, k>> \in inFlight' \ inFlight
      PROVE  Passes(c, "dispatch", "call") /\ k = n[c]
  <2>1. c[1] \in Handlers
    BY DEF Calls
  <2>. QED
    BY <1>1, <1>2, <1>4, <2>1 DEF WorldStep, Sends
<1>5. sent \subseteq sent'
  BY <1>1 DEF WorldStep, Sends
<1>6. ASSUME NEW k \in 1..MaxAttempts, <<c, k>> \in sent'
      PROVE  /\ pc'[c] \notin {"idle", "prepare"}
             /\ pc'[c] # "gone" => k <= n'[c]
             /\ pc'[c] \in Setup => k < n'[c]
  <2>1. CASE <<c, k>> \in sent' \ sent
    BY <1>3, <2>1 DEF Passes
  <2>2. CASE <<c, k>> \in sent
    BY <1>1, <1>2, <2>2 DEF SentAgrees, Move, Stays, Passes, Numbered
  <2>. QED
    BY <1>6, <2>1, <2>2
<1>7. pc'[c] \in Answering => <<c, n'[c]>> \in sent'
  BY <1>1, <1>2, <1>5 DEF SentAgrees, Move, Stays, Passes
<1>8. \/ pc'[c] \in {"record", "release"}
      \/ pc'[c] = "settle" /\ ~Aborted(c)'
      => <<c, n'[c]>> \notin inFlight'
  <2>1. ASSUME pc'[c] # "call", <<c, n'[c]>> \in inFlight', n'[c] \in 1..MaxAttempts
        PROVE  <<c, n'[c]>> \in inFlight
    BY <1>4, <2>1 DEF Passes
  <2>2. pc'[c] \in {"settle", "record", "release"} => n'[c] \in 1..MaxAttempts
    BY CallSteps, CallAgreesStep, AiAssumption DEF CallTypes, CallAgrees
  <2>. QED
    BY <1>1, <1>2, <2>1, <2>2 DEF SentAgrees, Move, Stays, Passes, StaysCutOff, Aborted
<1>. QED
  BY <1>6, <1>7, <1>8 DEF SentAgrees, Aborted

(* So the calls agree with what was sent. *)
LEMMA CallsAgreeStep ==
    ASSUME Types, CallsAgree, [AiNext]_vars
    PROVE  CallsAgree'
<1>1. ASSUME NEW c \in Calls PROVE CallAgrees(c)' /\ SentAgrees(c)'
  BY CallAgreesStep, SentAgreesStep
<1>2. ASSUME NEW x \in sent', x[1] \in OtherCalls PROVE x[2] = 1
  <2>1. WorldStep
    BY WorldSteps
  <2>2. x[1] \notin Calls
    BY <1>2, AiAssumption DEF Calls, OtherCalls
  <2>. QED
    BY <1>2, <2>1, <2>2 DEF WorldStep, Sends, CallsAgree
<1>. QED
  BY <1>1, <1>2 DEF CallsAgree

-----------------------------------------------------------------------------
(* The rows of the ledger.  An open row is the last one of its operation,  *)
(* and no result was written for it. *)
LEMMA OpenIsLast ==
    ASSUME Types, RowsAgree, ResultsAgree, NEW o \in Ops, NEW k \in 1..Len(attempts[o]),
           attempts[o][k].status = "reserved"
    PROVE  k = Len(attempts[o]) /\ result[o] = 0
<1>1. Len(attempts[o]) \in Nat /\ k \in Nat /\ k <= Len(attempts[o])
  BY DEF Types, LedgerTypes
<1>2. k < Len(attempts[o]) => attempts[o][k].status = "rate_limited"
  BY DEF RowsAgree
<1>3. k = Len(attempts[o])
  BY <1>1, <1>2
<1>4. result[o] # 0 => attempts[o][k].status = "success"
  BY <1>3 DEF ResultsAgree
<1>. QED
  BY <1>3, <1>4

(* Both ways to close a row: by its call, and by a cutoff. *)
CloseAs(o, k, a) ==
    /\ k \in 1..Len(attempts[o]) /\ attempts[o][k].status = "reserved"
    /\ attempts' = [attempts EXCEPT ![o][k].status = a]

(* The rows after it. *)
LEMMA RowClosedAs ==
    ASSUME LedgerTypes, NEW o \in Ops, NEW k, NEW a \in Statuses, CloseAs(o, k, a)
    PROVE  /\ \A p \in Ops \ {o} : attempts'[p] = attempts[p]
           /\ Len(attempts'[o]) = Len(attempts[o])
           /\ \A j \in 1..Len(attempts[o]) \ {k} : attempts'[o][j] = attempts[o][j]
           /\ attempts'[o][k] = [status |-> a, by |-> attempts[o][k].by]
  BY RowClosed DEF CloseAs

(* A call closes its own open row, and writes a result only for a success. *)
LEMMA ClosesIsCloseAs ==
    ASSUME Types, CallsAgree, NEW c \in Calls, Closes(c)
    PROVE  /\ Op(c) \in Ops /\ got[c] \in Statuses /\ CloseAs(Op(c), n[c], got[c])
           /\ attempts[Op(c)][n[c]].by = Handler(c)
           /\ result' \in {result, [result EXCEPT ![Op(c)] = n[c]]}
           /\ result' # result => got[c] = "success"
<1>1. Op(c) \in Ops /\ n[c] \in Nat
  BY DEF Op, Calls, Types, CallTypes
<1>2. /\ CloseAs(Op(c), n[c], got[c]) /\ attempts[Op(c)][n[c]].by = Handler(c)
      /\ result' \in {result, [result EXCEPT ![Op(c)] = n[c]]}
      /\ result' # result => got[c] = "success"
  BY <1>1 DEF Closes, Terminalize, IsReserved, CloseAs, Types, LedgerTypes
<1>3. got[c] \in Statuses
  BY DEF Closes, CallsAgree, CallAgrees, Types, CallTypes, Answers, Statuses
<1>. QED
  BY <1>1, <1>2, <1>3

(* All rows but the last were turned away, after every step. *)
LEMMA RowsInOrder ==
    ASSUME Types, CallsAgree, RowsAgree, ResultsAgree, LedgerStep
    PROVE  \A o \in Ops : \A k \in 1..Len(attempts'[o]) :
              k < Len(attempts'[o]) => attempts'[o][k].status = "rate_limited"
<1> DEFINE InOrder == \A o \in Ops : \A k \in 1..Len(attempts'[o]) :
                          k < Len(attempts'[o]) => attempts'[o][k].status = "rate_limited"
<1>1. LedgerTypes /\ \A o \in Ops : Len(attempts[o]) \in Nat
  BY DEF Types, LedgerTypes
<1>2. CASE UNCHANGED ledgerVars
  BY <1>2 DEF ledgerVars, RowsAgree
<1>3. ASSUME NEW c \in Calls, Opens(c) PROVE InOrder
  <2>1. Op(c) \in Ops /\ Handler(c) \in Handlers
    BY DEF Op, Handler, Calls
  <2>2. \A k \in 1..Len(attempts[Op(c)]) : attempts[Op(c)][k].status = "rate_limited"
    BY <1>1, <1>3, <2>1 DEF Opens, CanRetry, LedgerTypes
  <2>3. ReserveAttempt(Handler(c), Op(c))
    BY <1>3 DEF Opens
  <2>4. ASSUME NEW o \in Ops, o # Op(c) PROVE attempts'[o] = attempts[o]
    BY <1>1, <2>1, <2>3, <2>4, RowOpened
  <2>5. /\ Len(attempts'[Op(c)]) = Len(attempts[Op(c)]) + 1
        /\ \A k \in 1..Len(attempts[Op(c)]) : attempts'[Op(c)][k] = attempts[Op(c)][k]
    BY <1>1, <2>1, <2>3, RowOpened
  <2>. QED
    BY <1>1, <2>1, <2>2, <2>4, <2>5 DEF RowsAgree
<1>4. ASSUME NEW o \in Ops, NEW k, NEW a \in Statuses, CloseAs(o, k, a) PROVE InOrder
  <2>1. k = Len(attempts[o])
    BY <1>4, OpenIsLast DEF CloseAs
  <2>2. ASSUME NEW p \in Ops, p # o PROVE attempts'[p] = attempts[p]
    BY <1>1, <1>4, <2>2, RowClosed DEF CloseAs
  <2>3. /\ Len(attempts'[o]) = Len(attempts[o])
        /\ \A j \in 1..Len(attempts[o]) \ {k} : attempts'[o][j] = attempts[o][j]
    BY <1>1, <1>4, RowClosed DEF CloseAs
  <2>. QED
    BY <1>1, <2>1, <2>2, <2>3 DEF RowsAgree
<1>5. ASSUME NEW c \in Calls, Closes(c) PROVE InOrder
  BY <1>4, <1>5, ClosesIsCloseAs
<1>6. ASSUME NEW o \in Ops, NEW k \in 1..Len(attempts[o]), CutsOff(o, k) PROVE InOrder
  <2>1. CloseAs(o, k, "cutoff") /\ "cutoff" \in Statuses
    BY <1>6 DEF CutsOff, CloseAs, Statuses
  <2>. QED
    BY <1>4, <2>1
<1>. QED
  BY <1>2, <1>3, <1>5, <1>6 DEF LedgerStep

(* Who opened a row stays its owner. *)
LEMMA RowsAgreeStep ==
    ASSUME Types, CallsAgree, RowsAgree, ResultsAgree, SlotsAgree, [AiNext]_vars
    PROVE  RowsAgree'
<1>1. LedgerStep /\ WorldStep /\ RowsStay /\ \A c \in Calls : Move(c)
  BY LedgerSteps, WorldSteps, LedgerTypeStep, CallSteps
<1>2. \A o \in Ops : \A k \in 1..Len(attempts'[o]) :
         k < Len(attempts'[o]) => attempts'[o][k].status = "rate_limited"
  BY <1>1, RowsInOrder
<1>3. ASSUME NEW c \in Calls, NEW k \in Int, Opened(c, k) PROVE Opened(c, k)'
  <2>1. Op(c) \in Ops /\ Len(attempts[Op(c)]) \in Nat
    BY DEF Op, Calls, Types, LedgerTypes
  <2>2. Len(attempts'[Op(c)]) \in Nat
    BY <1>1, <2>1, LedgerTypeStep DEF LedgerTypes
  <2>. QED
    BY <1>1, <1>3, <2>1, <2>2 DEF RowsStay, Opened
<1>4. ASSUME NEW c \in Calls, pc'[c] = "dispatch" PROVE Opened(c, n[c])'
  <2>1. n[c] \in Int
    BY DEF Types, CallTypes
  <2>2. CASE pc[c] = "dispatch" /\ n'[c] = n[c]
    BY <1>3, <2>1, <2>2 DEF RowsAgree
  <2>3. CASE Opens(c) /\ n'[c] = n[c]
    <3>1. Op(c) \in Ops /\ Handler(c) \in Handlers /\ LedgerTypes /\ Len(attempts[Op(c)]) \in Nat
      BY DEF Op, Handler, Calls, Types, LedgerTypes
    <3>2. ReserveAttempt(Handler(c), Op(c)) /\ n[c] = Len(attempts[Op(c)]) + 1
      BY <2>1, <2>3, <3>1 DEF Opens
    <3>3. /\ Len(attempts'[Op(c)]) = n[c]
          /\ attempts'[Op(c)][n[c]] = [status |-> "reserved", by |-> Handler(c)]
      BY <3>1, <3>2, RowOpened
    <3>. QED
      BY <2>3, <3>1, <3>2, <3>3 DEF Opened
  <2>. QED
    BY <1>1, <1>4, <2>2, <2>3 DEF Move, Stays, Passes
<1>5. ASSUME NEW c \in Calls, NEW k \in 1..MaxAttempts, <<c, k>> \in sent' PROVE Opened(c, k)'
  <2>1. CASE <<c, k>> \in sent
    BY <1>3, <2>1 DEF RowsAgree
  <2>2. CASE pc[c] = "dispatch" /\ k = n[c]
    BY <1>3, <2>2 DEF RowsAgree
  <2>3. c[1] # NoHandler
    BY AiAssumption DEF Calls
  <2>. QED
    BY <1>1, <1>5, <2>1, <2>2, <2>3 DEF WorldStep, Sends, Passes
<1>6. \A c \in Calls : (pc[c] = "dispatch" => Opened(c, n[c]))'
  BY <1>4
<1>7. \A c \in Calls, k \in 1..MaxAttempts : (<<c, k>> \in sent => Opened(c, k))'
  BY <1>5
<1>. QED
  BY <1>2, <1>6, <1>7 DEF RowsAgree

(* A result is written with the close of the last row, and stays. *)
LEMMA ResultsAgreeStep ==
    ASSUME Types, CallsAgree, RowsAgree, ResultsAgree, LedgerStep, WorldStep
    PROVE  ResultsAgree' /\ \A o \in Ops : result[o] # 0 => result'[o] = result[o]
<1> DEFINE ResultAgrees(o) ==
              result[o] # 0 =>
                 /\ result[o] = Len(attempts[o]) /\ attempts[o][result[o]].status = "success"
                 /\ <<<<attempts[o][result[o]].by, o>>, result[o]>> \in sent
           Kept(o) == result[o] # 0 => result'[o] = result[o]
<1>1. LedgerTypes /\ sent \subseteq sent' /\ \A o \in Ops : Len(attempts[o]) \in Nat /\ ResultAgrees(o)
  BY DEF Types, LedgerTypes, WorldStep, Sends, ResultsAgree
<1>2. SUFFICES ASSUME NEW p \in Ops PROVE ResultAgrees(p)' /\ Kept(p)
  BY DEF ResultsAgree
<1>3. ASSUME attempts'[p] = attempts[p], result'[p] = result[p]
      PROVE  ResultAgrees(p)' /\ Kept(p)
  BY <1>1, <1>3
<1>4. ASSUME NEW c \in Calls, Opens(c) PROVE ResultAgrees(p)' /\ Kept(p)
  <2>1. Op(c) \in Ops /\ Handler(c) \in Handlers
    BY DEF Op, Handler, Calls
  <2>2. ReserveAttempt(Handler(c), Op(c)) /\ result' = result
    BY <1>4 DEF Opens
  <2>3. CASE p # Op(c)
    BY <1>1, <1>3, <2>1, <2>2, <2>3, RowOpened
  <2>4. CASE p = Op(c)
    <3>1. result[p] # 0 => result[p] \in DOMAIN attempts[p]
      <4>1. attempts[p] \in Seq(Row) /\ result[p] \in Nat
        BY <1>1 DEF LedgerTypes
      <4>2. DOMAIN attempts[p] = 1..Len(attempts[p]) /\ Len(attempts[p]) \in Nat
        BY <4>1, LenProperties
      <4>3. result[p] # 0 => result[p] = Len(attempts[p])
        BY <1>1
      <4>. QED
        BY <4>1, <4>2, <4>3
    <3>2. result[p] = 0
      BY <1>1, <1>4, <2>4, <3>1 DEF Opens, CanRetry
    <3>. QED
      BY <2>2, <3>2
  <2>. QED
    BY <2>3, <2>4
<1>5. ASSUME NEW o \in Ops, NEW k, NEW a \in Statuses, CloseAs(o, k, a), p = o => result'[p] = result[p]
      PROVE  p # o => attempts'[p] = attempts[p]
  BY <1>1, <1>5, RowClosed DEF CloseAs
<1>6. ASSUME NEW c \in Calls, Closes(c) PROVE ResultAgrees(p)' /\ Kept(p)
  <2>1. /\ Op(c) \in Ops /\ got[c] \in Statuses /\ CloseAs(Op(c), n[c], got[c])
        /\ attempts[Op(c)][n[c]].by = Handler(c)
        /\ result' \in {result, [result EXCEPT ![Op(c)] = n[c]]}
        /\ result' # result => got[c] = "success"
    BY <1>6, ClosesIsCloseAs
  <2>2. CASE p # Op(c)
    <3>1. attempts'[p] = attempts[p] /\ result'[p] = result[p]
      BY <1>1, <2>1, <2>2, RowClosed DEF CloseAs, LedgerTypes
    <3>. QED
      BY <1>3, <3>1
  <2>3. CASE p = Op(c)
    <3>1. result[p] = 0 /\ n[c] = Len(attempts[p]) /\ n[c] \in 1..Len(attempts[p])
      BY <2>1, <2>3, OpenIsLast DEF CloseAs
    <3>2. /\ Len(attempts'[p]) = Len(attempts[p])
          /\ attempts'[p][n[c]] = [status |-> got[c], by |-> attempts[p][n[c]].by]
      BY <1>1, <2>1, <2>3, RowClosedAs
    <3>3. <<c, n[c]>> \in sent /\ c = <<Handler(c), Op(c)>>
      BY <1>6 DEF Closes, CallsAgree, SentAgrees, Answering, Calls, Handler, Op
    <3>4. result'[p] = 0 \/ (result'[p] = n[c] /\ got[c] = "success")
      BY <2>1, <2>3, <3>1 DEF Types, LedgerTypes
    <3>. QED
      BY <1>1, <2>1, <2>3, <3>1, <3>2, <3>3, <3>4
  <2>. QED
    BY <2>2, <2>3
<1>7. ASSUME NEW o \in Ops, NEW k \in 1..Len(attempts[o]), CutsOff(o, k)
      PROVE  ResultAgrees(p)' /\ Kept(p)
  <2>1. CloseAs(o, k, "cutoff") /\ "cutoff" \in Statuses /\ result' = result
    BY <1>7 DEF CutsOff, CloseAs, Statuses
  <2>2. CASE p # o
    BY <1>3, <1>5, <2>1, <2>2
  <2>3. CASE p = o
    BY <2>1, <2>3, OpenIsLast DEF CloseAs
  <2>. QED
    BY <2>2, <2>3
<1>8. ASSUME UNCHANGED ledgerVars PROVE ResultAgrees(p)' /\ Kept(p)
  BY <1>3, <1>8 DEF ledgerVars
<1>. QED
  BY <1>4, <1>6, <1>7, <1>8 DEF LedgerStep
-----------------------------------------------------------------------------
(* Sums over the rows of the budget.  SumFunction adds up a function along *)
(* a chain of chosen elements; these lemmas follow that chain. *)
Pick(s) == CHOOSE x \in s : TRUE

(* The partial sums of f over the subsets of S. *)
IsSums(h, f, S) ==
    h = [s \in SUBSET S |-> IF s = {} THEN 0 ELSE f[Pick(s)] + h[s \ {Pick(s)}]]

(* What holds of a set when it holds of its proper subsets holds of every  *)
(* subset of a finite set. *)
LEMMA SubsetInduction ==
    ASSUME NEW S, IsFiniteSet(S), NEW Good,
           \A T \in SUBSET S : (\A U \in SUBSET T : U # T => U \in Good) => T \in Good
    PROVE  SUBSET S \subseteq Good
<1> DEFINE R == StrictSubsetOrdering(S)
           All == FiniteSubsetsOf(S)
           Bad == {T \in All : T \notin Good}
<1>1. SUFFICES ASSUME Bad # {} PROVE FALSE
  BY FS_FiniteSubsetsOfFinite
<1>2. IsWellFoundedOn(R, All)
  BY FS_StrictSubsetOrderingWellFounded
<1>3. PICK T \in Bad : \A U \in Bad : ~(<<U, T>> \in R)
  <2> Bad \subseteq All
    OBVIOUS
  <2> HIDE DEF R, All, Bad
  <2>. QED
    BY <1>1, <1>2, WFMin
<1>4. T \in SUBSET S /\ T \notin Good
  BY <1>3, FS_FiniteSubsetsOfFinite
<1>5. ASSUME NEW U \in SUBSET T, U # T PROVE U \in Good
  <2>1. <<U, T>> \in R
    BY <1>4, <1>5 DEF StrictSubsetOrdering
  <2>2. U \in All
    BY <1>4, FS_FiniteSubsetsOfFinite
  <2>. QED
    BY <1>3, <2>1, <2>2
<1>. QED
  BY <1>4, <1>5

(* The element that is chosen next, and what is left. *)
LEMMA PickIsIn ==
    ASSUME NEW s, s # {}
    PROVE  Pick(s) \in s /\ s \ {Pick(s)} \subseteq s /\ s \ {Pick(s)} # s
<1>1. Pick(s) \in s
  BY DEF Pick
<1>. QED
  BY <1>1

(* Partial sums are natural numbers, ... *)
LEMMA SumsAreNat ==
    ASSUME NEW K, NEW f \in [K -> Nat], NEW S \in SUBSET K, IsFiniteSet(S),
           NEW h, IsSums(h, f, S)
    PROVE  \A s \in SUBSET S : h[s] \in Nat
<1> DEFINE Good == {s \in SUBSET S : h[s] \in Nat}
<1>1. ASSUME NEW T \in SUBSET S, \A U \in SUBSET T : U # T => U \in Good
      PROVE  T \in Good
  <2>1. CASE T = {}
    BY <2>1 DEF IsSums
  <2>2. CASE T # {}
    <3>1. Pick(T) \in T /\ T \ {Pick(T)} \in Good
      BY <1>1, <2>2, PickIsIn
    <3>2. h[T] = f[Pick(T)] + h[T \ {Pick(T)}]
      BY <2>2 DEF IsSums
    <3>. QED
      BY <3>1, <3>2
  <2>. QED
    BY <2>1, <2>2
<1>2. SUBSET S \subseteq Good
  <2> HIDE DEF Good
  <2>. QED
    BY <1>1, SubsetInduction
<1>. QED
  BY <1>2

(* ... and the same whatever larger set they are taken in. *)
LEMMA SumsAgree ==
    ASSUME NEW f, NEW S, NEW T, IsFiniteSet(S), S \subseteq T,
           NEW g, IsSums(g, f, S), NEW h, IsSums(h, f, T)
    PROVE  \A s \in SUBSET S : g[s] = h[s]
<1> DEFINE Good == {s \in SUBSET S : g[s] = h[s]}
<1>1. ASSUME NEW V \in SUBSET S, \A U \in SUBSET V : U # V => U \in Good
      PROVE  V \in Good
  <2>1. CASE V = {}
    BY <2>1 DEF IsSums
  <2>2. CASE V # {}
    <3>1. V \ {Pick(V)} \in Good
      BY <1>1, <2>2, PickIsIn
    <3>2. /\ g[V] = f[Pick(V)] + g[V \ {Pick(V)}]
          /\ h[V] = f[Pick(V)] + h[V \ {Pick(V)}]
      BY <2>2 DEF IsSums
    <3>. QED
      BY <3>1, <3>2
  <2>. QED
    BY <2>1, <2>2
<1>2. SUBSET S \subseteq Good
  <2> HIDE DEF Good
  <2>. QED
    BY <1>1, SubsetInduction
<1>. QED
  BY <1>2

(* There are partial sums. *)
LEMMA SumsExist ==
    ASSUME NEW K, IsFiniteSet(K), NEW f \in [K -> Nat]
    PROVE  \E h : IsSums(h, f, K)
<1> DEFINE G(T) == CHOOSE h : IsSums(h, f, T)
           Good == {T \in SUBSET K : IsSums(G(T), f, T)}
<1>1. ASSUME NEW T \in SUBSET K, \A U \in SUBSET T : U # T => U \in Good
      PROVE  T \in Good
  <2> DEFINE Rest(s) == s \ {Pick(s)}
             h == [s \in SUBSET T |-> IF s = {} THEN 0 ELSE f[Pick(s)] + G(Rest(s))[Rest(s)]]
  <2>1. ASSUME NEW s \in SUBSET T, s # {} PROVE h[Rest(s)] = G(Rest(s))[Rest(s)]
    <3> DEFINE u == Rest(s)
    <3>1. u \in Good /\ u \in SUBSET T /\ IsSums(G(u), f, u)
      BY <1>1, <2>1, PickIsIn
    <3>2. CASE u = {}
      BY <3>1, <3>2 DEF IsSums
    <3>3. CASE u # {}
      <4>1. Rest(u) \subseteq u /\ Rest(u) \in SUBSET T /\ Rest(u) # u
        BY <3>1, <3>3, PickIsIn
      <4>2. Rest(u) \in Good
        <5>1. Rest(u) # T
          BY <3>1, <4>1
        <5>. QED
          BY <1>1, <4>1, <5>1
      <4>3. IsSums(G(Rest(u)), f, Rest(u)) /\ IsFiniteSet(Rest(u))
        BY <4>1, <4>2, FS_Subset
      <4>4. G(Rest(u))[Rest(u)] = G(u)[Rest(u)]
        <5> HIDE DEF G, Rest, u
        <5>. QED
          BY <3>1, <4>1, <4>3, SumsAgree
      <4>5. h[u] = f[Pick(u)] + G(Rest(u))[Rest(u)]
        BY <3>1, <3>3
      <4>6. G(u)[u] = f[Pick(u)] + G(u)[Rest(u)]
        <5> HIDE DEF G
        <5>. QED
          BY <3>1, <3>3 DEF IsSums
      <4> HIDE DEF G, Rest, h
      <4>. QED
        BY <4>4, <4>5, <4>6
    <3>. QED
      BY <3>2, <3>3
  <2>2. IsSums(h, f, T)
    <3>1. \A s \in SUBSET T : s # {} => Rest(s) \in SUBSET T
      OBVIOUS
    <3>2. h = [s \in SUBSET T |-> IF s = {} THEN 0 ELSE f[Pick(s)] + h[Rest(s)]]
      <4> HIDE DEF G
      <4>. QED
        BY <2>1
    <3>. QED
      BY <3>2 DEF IsSums
  <2>3. IsSums(G(T), f, T)
    <3> HIDE DEF h
    <3>. QED
      BY <2>2
  <2>. QED
    BY <2>3
<1>2. SUBSET K \subseteq Good
  <2> HIDE DEF Good
  <2>. QED
    BY <1>1, SubsetInduction
<1>3. IsSums(G(K), f, K)
  <2> HIDE DEF G
  <2>. QED
    BY <1>2
<1>. QED
  BY <1>3

(* The sum of a function is the last of its partial sums. *)
LEMMA SumIsLast ==
    ASSUME NEW K, IsFiniteSet(K), NEW f \in [K -> Nat]
    PROVE  \E h : IsSums(h, f, K) /\ SumFunction(f) = h[K]
<1>1. DOMAIN f = K
  OBVIOUS
<1>2. SumFunction(f) = (CHOOSE h : IsSums(h, f, DOMAIN f))[DOMAIN f]
  BY DEF SumFunction, SumFunctionOnSet, FoldFunctionOnSet, MapThenFoldSet, IsSums, Pick
<1>3. SumFunction(f) = (CHOOSE h : IsSums(h, f, K))[K]
  BY <1>1, <1>2
<1>4. \E h : IsSums(h, f, K)
  BY SumsExist
<1>5. IsSums(CHOOSE h : IsSums(h, f, K), f, K)
  BY <1>4
<1>. QED
  BY <1>3, <1>5

(* A sum of natural numbers is one. *)
LEMMA SumIsNat ==
    ASSUME NEW K, IsFiniteSet(K), NEW f \in [K -> Nat]
    PROVE  SumFunction(f) \in Nat
  BY SumIsLast, SumsAreNat

(* A function that changes at one argument changes its sum by as much. *)
LEMMA SumUpdate ==
    ASSUME NEW K, IsFiniteSet(K), NEW f \in [K -> Nat], NEW g \in [K -> Nat], NEW k \in K,
           \A x \in K \ {k} : g[x] = f[x]
    PROVE  SumFunction(g) + f[k] = SumFunction(f) + g[k]
<1>1. PICK F : IsSums(F, f, K) /\ SumFunction(f) = F[K]
  BY SumIsLast
<1>2. PICK G : IsSums(G, g, K) /\ SumFunction(g) = G[K]
  BY SumIsLast
<1>3. \A s \in SUBSET K : F[s] \in Nat /\ G[s] \in Nat
  BY <1>1, <1>2, SumsAreNat
<1> DEFINE Moved(s) == IF k \in s THEN G[s] + f[k] = F[s] + g[k] ELSE G[s] = F[s]
           Good == {s \in SUBSET K : Moved(s)}
<1>4. ASSUME NEW T \in SUBSET K, \A U \in SUBSET T : U # T => U \in Good
      PROVE  T \in Good
  <2>1. CASE T = {}
    BY <1>1, <1>2, <2>1 DEF IsSums
  <2>2. CASE T # {}
    <3>1. Pick(T) \in T /\ Pick(T) \in K /\ T \ {Pick(T)} \in Good /\ T \ {Pick(T)} \in SUBSET K
      BY <1>4, <2>2, PickIsIn
    <3>2. F[T] = f[Pick(T)] + F[T \ {Pick(T)}] /\ G[T] = g[Pick(T)] + G[T \ {Pick(T)}]
      BY <1>1, <1>2, <2>2 DEF IsSums
    <3>3. /\ f[Pick(T)] \in Nat /\ g[Pick(T)] \in Nat /\ f[k] \in Nat /\ g[k] \in Nat
          /\ F[T \ {Pick(T)}] \in Nat /\ G[T \ {Pick(T)}] \in Nat
      BY <1>3, <3>1
    <3>4. Moved(T \ {Pick(T)})
      BY <3>1
    <3>5. CASE Pick(T) = k
      BY <3>1, <3>2, <3>3, <3>4, <3>5
    <3>6. CASE Pick(T) # k
      BY <3>1, <3>2, <3>3, <3>4, <3>6
    <3>. QED
      BY <3>5, <3>6
  <2>. QED
    BY <2>1, <2>2
<1>5. SUBSET K \subseteq Good
  <2> HIDE DEF Good
  <2>. QED
    BY <1>4, SubsetInduction
<1>6. Moved(K)
  BY <1>5
<1>. QED
  BY <1>1, <1>2, <1>6

(* Nothing adds up to nothing. *)
LEMMA SumOfZeros ==
    ASSUME NEW K, IsFiniteSet(K), NEW f \in [K -> Nat], \A x \in K : f[x] = 0
    PROVE  SumFunction(f) = 0
<1>1. PICK F : IsSums(F, f, K) /\ SumFunction(f) = F[K]
  BY SumIsLast
<1> DEFINE Good == {s \in SUBSET K : F[s] = 0}
<1>2. ASSUME NEW T \in SUBSET K, \A U \in SUBSET T : U # T => U \in Good
      PROVE  T \in Good
  <2>1. CASE T = {}
    BY <1>1, <2>1 DEF IsSums
  <2>2. CASE T # {}
    <3>1. Pick(T) \in K /\ T \ {Pick(T)} \in Good
      BY <1>2, <2>2, PickIsIn
    <3>2. F[T] = f[Pick(T)] + F[T \ {Pick(T)}]
      BY <1>1, <2>2 DEF IsSums
    <3>. QED
      BY <3>1, <3>2
  <2>. QED
    BY <2>1, <2>2
<1>3. SUBSET K \subseteq Good
  <2> HIDE DEF Good
  <2>. QED
    BY <1>2, SubsetInduction
<1>. QED
  BY <1>1, <1>3
-----------------------------------------------------------------------------
(* What a step does to the budget: it reserves, settles, or takes back.    *)
TakesBack(c) ==
    /\ pc[c] = "cancel" /\ pc'[c] = "done" /\ n[c] > 0
    /\ CancelBudget(Key(c), paper[c], Handler(c))

BudgetStep ==
    \/ UNCHANGED budget
    \/ \E key \in Keys : CanReserve(key) /\ ReserveBudget(key)
    \/ \E key \in Keys : \E cost \in Nat : SettleBudget(key, cost)
    \/ \E c \in Calls : TakesBack(c)

(* There are finitely many reservations to add up. *)
LEMMA KeysAreFinite == IsFiniteSet(Keys)
<1>1. IsFiniteSet(Ops \cup Others)
  BY AiAssumption, FS_Union
<1>2. IsFiniteSet(1..MaxAttempts)
  <2>1. MaxAttempts \in Int /\ 1 \in Int
    BY AiAssumption
  <2>. QED
    BY <2>1, FS_Interval
<1>. QED
  BY <1>1, <1>2, FS_Product DEF Keys

(* The key of a call that has an attempt. *)
LEMMA KeyOfCall ==
    ASSUME Types, NEW c \in Calls, n[c] > 0
    PROVE  Key(c) \in Keys /\ Op(c) \in Ops /\ n[c] \in 1..MaxAttempts
  BY AiAssumption DEF Types, CallTypes, Key, Keys, Op, Calls

(* Every step, for the budget. *)
LEMMA BudgetSteps ==
    ASSUME Types, CallsAgree, [AiNext]_vars
    PROVE  BudgetStep
<1> USE DEF BudgetStep
<1>1. ASSUME NEW c \in Calls, CallActions(c) PROVE BudgetStep
  <2>1. pc[c] \in Setup \cup Answering => Key(c) \in Keys /\ n[c] > 0
    BY KeyOfCall DEF CallsAgree, CallAgrees
  <2>2. ActualCosts(c) \subseteq Nat
    BY AiAssumption DEF ActualCosts, Estimate
  <2>3. CASE Reserve(c) \/ ReserveUnanswered(c)
    BY <2>1, <2>3 DEF Reserve, ReserveUnanswered, At, Setup
  <2>4. CASE Settle(c) \/ SettleUnanswered(c)
    BY <2>1, <2>2, <2>4 DEF Settle, SettleUnanswered, At, Answering
  <2>5. CASE Cancel(c)
    BY <2>1, <2>5 DEF Cancel, At, Go, Setup, TakesBack, Types, CallTypes
  <2>6. CASE \/ Prepare(c) \/ Acquire(c) \/ Attempt(c) \/ Unlease(c) \/ Dispatch(c) \/ Answer(c)
             \/ AbortCall(c) \/ Record(c) \/ Release(c) \/ WriteCutoff(c) \/ CutOff(c)
    BY <2>6
    DEF Prepare, Acquire, Attempt, Unlease, Dispatch, Answer, AbortCall, Record, Release,
        WriteCutoff, CutOff
  <2>7. CASE \/ AcquireUnanswered(c) \/ AttemptUnanswered(c) \/ RecordUnanswered(c)
             \/ ReleaseUnanswered(c) \/ WriteCutoffUnanswered(c)
    BY <2>7
    DEF AcquireUnanswered, AttemptUnanswered, RecordUnanswered, ReleaseUnanswered,
        WriteCutoffUnanswered
  <2>. QED
    BY <1>1, <2>3, <2>4, <2>5, <2>6, <2>7 DEF CallActions, CallStep, Lost
<1>2. ASSUME NEW o \in Others, OtherBegins(o) \/ OtherEnds(o) PROVE BudgetStep
  <2>1. <<o, 1>> \in Keys
    BY AiAssumption DEF Keys
  <2>. QED
    BY <1>2, <2>1, AiAssumption DEF OtherBegins, OtherEnds
<1>3. ASSUME NEW s \in Slots, SlotExpires(s) \/ Sweep(s) \/ ResolveQuarantine(s)
      PROVE  BudgetStep
  BY <1>3 DEF SlotExpires, Sweep, RecoverCutoff, ReapCutoff, ResolveQuarantine
<1>4. ASSUME \/ \E call \in inFlight : ProviderEnds(call)
             \/ \E h \in Handlers : Crash(h)
             \/ Claim \/ Leave \/ LoseClaim \/ UNCHANGED vars
      PROVE  BudgetStep
  BY <1>4 DEF ProviderEnds, Crash, Claim, Leave, LoseClaim, vars
<1>. QED
  BY <1>1, <1>2, <1>3, <1>4 DEF AiNext, CallActions

(* What becomes of one reservation. *)
Reserved(key) ==
    /\ ~IsCharged(budget[key]) /\ InBudget
    /\ budget' = [budget EXCEPT ![key] = [state |-> "reserved", id |-> @.id + 1,
                                          cost |-> Estimate, by |-> NoHandler]]

Settled(key, cost) ==
    /\ budget[key].state = "reserved"
    /\ budget' = [budget EXCEPT ![key] = [@ EXCEPT !.state = "settled", !.cost = cost]]

Cancelled(c) ==
    /\ pc[c] = "cancel" /\ pc'[c] = "done" /\ Key(c) \in Keys /\ budget[Key(c)].state = "reserved"
    /\ budget' = [budget EXCEPT ![Key(c)] = [@ EXCEPT !.state = "cancelled", !.by = Handler(c)]]

(* Each changes one reservation at most. *)
LEMMA BudgetCases ==
    ASSUME Types, BudgetStep
    PROVE  \/ UNCHANGED budget
           \/ \E key \in Keys : Reserved(key)
           \/ \E key \in Keys : \E cost \in Nat : Settled(key, cost)
           \/ \E c \in Calls : Cancelled(c)
<1>1. ASSUME NEW key \in Keys, CanReserve(key), ReserveBudget(key)
      PROVE  UNCHANGED budget \/ Reserved(key)
  BY <1>1 DEF CanReserve, ReserveBudget, Reserved
<1>2. ASSUME NEW key \in Keys, NEW cost \in Nat, SettleBudget(key, cost)
      PROVE  UNCHANGED budget \/ Settled(key, cost)
  BY <1>2 DEF SettleBudget, Settled
<1>3. ASSUME NEW c \in Calls, TakesBack(c)
      PROVE  UNCHANGED budget \/ Cancelled(c)
  <2>1. Key(c) \in Keys
    BY <1>3, KeyOfCall DEF TakesBack
  <2>. QED
    BY <1>3, <2>1 DEF TakesBack, CancelBudget, Cancelled
<1>. QED
  BY <1>1, <1>2, <1>3 DEF BudgetStep

(* The row afterwards. *)
LEMMA BudgetRowAfter ==
    ASSUME Types, NEW key \in Keys
    PROVE  /\ Reserved(key) =>
                budget'[key] = [state |-> "reserved", id |-> budget[key].id + 1,
                                cost |-> Estimate, by |-> NoHandler]
           /\ \A cost \in Nat : Settled(key, cost) =>
                budget'[key] = [state |-> "settled", id |-> budget[key].id,
                                cost |-> cost, by |-> budget[key].by]
           /\ \A c \in Calls : Cancelled(c) /\ Key(c) = key =>
                budget'[key] = [state |-> "cancelled", id |-> budget[key].id,
                                cost |-> budget[key].cost, by |-> Handler(c)]
  BY DEF Types, BudgetTypes, BudgetRow, Reserved, Settled, Cancelled

(* The other rows afterwards. *)
LEMMA OtherRowsAfter ==
    ASSUME Types, NEW key \in Keys, NEW other \in Keys \ {key}
    PROVE  /\ Reserved(key) => budget'[other] = budget[other]
           /\ \A cost \in Nat : Settled(key, cost) => budget'[other] = budget[other]
           /\ \A c \in Calls : Cancelled(c) /\ Key(c) = key => budget'[other] = budget[other]
  BY DEF Types, BudgetTypes, BudgetRow, Reserved, Settled, Cancelled
(* The rows that a settlement and a cancellation leave. *)
SettledRow(row, cost) == [state |-> "settled", id |-> row.id, cost |-> cost, by |-> row.by]
CancelledRow(row, h) == [state |-> "cancelled", id |-> row.id, cost |-> row.cost, by |-> h]

(* They are what the updates of the model make of a row. *)
LEMMA RowExcept ==
    ASSUME NEW row \in BudgetRow, NEW cost \in Nat, NEW h \in Handlers \cup {NoHandler}
    PROVE  /\ [row EXCEPT !.state = "settled", !.cost = cost] = SettledRow(row, cost)
           /\ [row EXCEPT !.state = "cancelled", !.by = h] = CancelledRow(row, h)
           /\ SettledRow(row, cost) \in BudgetRow /\ CancelledRow(row, h) \in BudgetRow
<1> DEFINE settled == [row EXCEPT !.state = "settled", !.cost = cost]
           cancelled == [row EXCEPT !.state = "cancelled", !.by = h]
<1>1. /\ settled \in BudgetRow
      /\ settled.state = "settled" /\ settled.id = row.id
      /\ settled.cost = cost /\ settled.by = row.by
  BY DEF BudgetRow
<1>2. /\ cancelled \in BudgetRow
      /\ cancelled.state = "cancelled" /\ cancelled.id = row.id
      /\ cancelled.cost = row.cost /\ cancelled.by = h
  BY DEF BudgetRow
<1>3. settled = SettledRow(row, cost)
  <2> HIDE DEF settled
  <2>. QED
    BY <1>1 DEF BudgetRow, SettledRow
<1>4. cancelled = CancelledRow(row, h)
  <2> HIDE DEF cancelled
  <2>. QED
    BY <1>2 DEF BudgetRow, CancelledRow
<1>. QED
  BY <1>1, <1>2, <1>3, <1>4

(* Reservations are typed, and charged at the estimate until they are      *)
(* settled. *)
LEMMA BudgetTypeStep ==
    ASSUME Types, EstimatesAgree, BudgetStep
    PROVE  BudgetTypes' /\ EstimatesAgree'
<1> DEFINE Fine == BudgetTypes' /\ EstimatesAgree'
<1>1. budget \in [Keys -> BudgetRow]
  BY DEF Types, BudgetTypes
<1>2. ASSUME NEW key \in Keys, NEW row \in BudgetRow, budget' = [budget EXCEPT ![key] = row],
             row.state = "reserved" => row.cost = Estimate
      PROVE  Fine
  <2>1. budget' \in [Keys -> BudgetRow]
    BY <1>1, <1>2
  <2>2. \A x \in Keys : budget'[x] = IF x = key THEN row ELSE budget[x]
    BY <1>1, <1>2
  <2>. QED
    BY <1>1, <1>2, <2>1, <2>2 DEF BudgetTypes, BudgetRow, EstimatesAgree, Estimate
<1>3. CASE UNCHANGED budget
  BY <1>1, <1>3 DEF BudgetTypes, BudgetRow, EstimatesAgree, Estimate
<1>4. ASSUME NEW key \in Keys, Reserved(key) PROVE Fine
  <2> DEFINE row == [state |-> "reserved", id |-> budget[key].id + 1, cost |-> Estimate,
                     by |-> NoHandler]
  <2>1. row \in BudgetRow /\ row.cost = Estimate
    BY <1>1 DEF Estimate, BudgetRow
  <2>2. budget' = [budget EXCEPT ![key] = row]
    BY <1>1, <1>4 DEF Reserved
  <2>. QED
    BY <1>2, <2>1, <2>2
<1>5. ASSUME NEW key \in Keys, NEW cost \in Nat, Settled(key, cost) PROVE Fine
  <2>1. /\ SettledRow(budget[key], cost) \in BudgetRow
        /\ budget' = [budget EXCEPT ![key] = SettledRow(budget[key], cost)]
    <3>1. NoHandler \in Handlers \cup {NoHandler} /\ budget[key] \in BudgetRow
      BY <1>1
    <3>. QED
      BY <1>5, <3>1, RowExcept DEF Settled
  <2>2. SettledRow(budget[key], cost).state # "reserved"
    BY DEF SettledRow
  <2>. QED
    BY <1>2, <2>1, <2>2
<1>6. ASSUME NEW c \in Calls, Cancelled(c) PROVE Fine
  <2>1. Key(c) \in Keys /\ Handler(c) \in Handlers
    BY <1>6 DEF Cancelled, Handler, Calls
  <2>2. /\ CancelledRow(budget[Key(c)], Handler(c)) \in BudgetRow
        /\ budget' = [budget EXCEPT ![Key(c)] = CancelledRow(budget[Key(c)], Handler(c))]
    BY <1>1, <1>6, <2>1, RowExcept DEF Cancelled
  <2>3. CancelledRow(budget[Key(c)], Handler(c)).state # "reserved"
    BY DEF CancelledRow
  <2>. QED
    BY <1>2, <2>1, <2>2, <2>3
<1>. QED
  BY <1>3, <1>4, <1>5, <1>6, BudgetCases

(* A charge is taken back only by the handler that is noted with it, of    *)
(* an attempt that it did not send. *)
LEMMA StaysCharged ==
    ASSUME Types, BudgetStep, NEW o \in Ops, NEW k \in 1..MaxAttempts, NEW h \in Handlers,
           NotTakenBack(<<h, o>>, k),
           pc[<<h, o>>] = "cancel" /\ pc'[<<h, o>>] = "done" => n[<<h, o>>] # k
    PROVE  NotTakenBack(<<h, o>>, k)'
<1> DEFINE c == <<h, o>>
           key == <<o, k>>
<1>1. /\ Op(c) = o /\ Handler(c) = h /\ key \in Keys
      /\ IsCharged(budget[key]) \/ budget[key].by # h
  BY DEF Op, Handler, Keys, NotTakenBack
<1>2. SUFFICES IsCharged(budget'[key]) \/ budget'[key].by # h
  BY DEF Op, Handler, NotTakenBack, IsCharged
<1>3. CASE UNCHANGED budget
  BY <1>1, <1>3
<1>4. ASSUME NEW x \in Keys, Reserved(x) PROVE IsCharged(budget'[key]) \/ budget'[key].by # h
  <2>1. CASE x = key
    <3>1. budget'[key] = [state |-> "reserved", id |-> budget[key].id + 1,
                          cost |-> Estimate, by |-> NoHandler]
      BY <1>1, <1>4, <2>1, BudgetRowAfter
    <3>. QED
      BY <3>1 DEF IsCharged
  <2>2. CASE x # key
    BY <1>1, <1>4, <2>2, OtherRowsAfter
  <2>. QED
    BY <2>1, <2>2
<1>5. ASSUME NEW x \in Keys, NEW cost \in Nat, Settled(x, cost)
      PROVE  IsCharged(budget'[key]) \/ budget'[key].by # h
  <2>1. CASE x = key
    <3>1. budget'[key] = [state |-> "settled", id |-> budget[key].id,
                          cost |-> cost, by |-> budget[key].by]
      BY <1>1, <1>5, <2>1, BudgetRowAfter
    <3>. QED
      BY <3>1 DEF IsCharged
  <2>2. CASE x # key
    BY <1>1, <1>5, <2>2, OtherRowsAfter
  <2>. QED
    BY <2>1, <2>2
<1>6. ASSUME NEW d \in Calls, Cancelled(d) PROVE IsCharged(budget'[key]) \/ budget'[key].by # h
  <2>1. Key(d) \in Keys /\ d = <<Handler(d), Op(d)>> /\ pc[d] = "cancel" /\ pc'[d] = "done"
    BY <1>6 DEF Cancelled, Handler, Op, Calls
  <2>2. CASE Key(d) = key
    <3>1. Op(d) = o /\ n[d] = k
      BY <2>2 DEF Key
    <3>2. Handler(d) # h
      BY <2>1, <3>1
    <3>3. budget'[key] = [state |-> "cancelled", id |-> budget[key].id,
                          cost |-> budget[key].cost, by |-> Handler(d)]
      BY <1>1, <1>6, <2>2, BudgetRowAfter
    <3>. QED
      BY <3>2, <3>3
  <2>3. CASE Key(d) # key
    BY <1>1, <1>6, <2>1, <2>3, OtherRowsAfter
  <2>. QED
    BY <2>2, <2>3
<1>. QED
  BY <1>3, <1>4, <1>5, <1>6, BudgetCases

(* Operations of other jobs are not taken back at all. *)
LEMMA OthersStayCharged ==
    ASSUME Types, BudgetStep, NEW o \in Others, IsCharged(budget[<<o, 1>>])
    PROVE  IsCharged(budget'[<<o, 1>>])
<1> DEFINE key == <<o, 1>>
<1>1. key \in Keys
  BY AiAssumption DEF Keys
<1>2. ASSUME NEW c \in Calls, Cancelled(c) PROVE Key(c) \in Keys /\ Key(c) # key
  BY <1>2, AiAssumption DEF Cancelled, Key, Op, Calls
<1>3. ASSUME NEW x \in Keys, x # key,
             Reserved(x) \/ (\E cost \in Nat : Settled(x, cost)) \/ (\E c \in Calls : Cancelled(c) /\ Key(c) = x)
      PROVE  budget'[key] = budget[key]
  BY <1>1, <1>3, OtherRowsAfter
<1>4. ASSUME Reserved(key) \/ \E cost \in Nat : Settled(key, cost)
      PROVE  IsCharged(budget'[key])
  <2>1. budget'[key].state \in {"reserved", "settled"}
    <3>1. ASSUME Reserved(key) PROVE budget'[key].state = "reserved"
      <4>1. budget'[key] = [state |-> "reserved", id |-> budget[key].id + 1,
                            cost |-> Estimate, by |-> NoHandler]
        BY <1>1, <3>1, BudgetRowAfter
      <4>. QED
        BY <4>1
    <3>2. ASSUME NEW cost \in Nat, Settled(key, cost)
          PROVE  budget'[key].state = "settled"
      <4>1. budget'[key] = [state |-> "settled", id |-> budget[key].id,
                            cost |-> cost, by |-> budget[key].by]
        BY <1>1, <3>2, BudgetRowAfter
      <4>. QED
        BY <4>1
    <3>. QED
      BY <1>4, <3>1, <3>2
  <2>. QED
    BY <2>1 DEF IsCharged
<1>. QED
  BY <1>2, <1>3, <1>4, BudgetCases

(* Who leaves the point of the reservation with his attempt has reserved;  *)
(* so has an operation of another job that is sent. *)
LEMMA ReservedFirst ==
    ASSUME Types, CallsAgree, [AiNext]_vars
    PROVE  /\ \A c \in Calls : pc[c] = "reserve" /\ pc'[c] \in Setup \ {"reserve"} =>
                 ReserveBudget(Key(c)) /\ n'[c] = n[c]
           /\ \A o \in Others : <<<<NoHandler, o>>, 1>> \in sent' \ sent => ReserveBudget(<<o, 1>>)
<1> DEFINE Calm(c) == pc[c] = "reserve" /\ pc'[c] \in Setup \ {"reserve"} =>
                         ReserveBudget(Key(c)) /\ n'[c] = n[c]
           Fresh(o) == <<<<NoHandler, o>>, 1>> \in sent' \ sent => ReserveBudget(<<o, 1>>)
<1> USE DEF Setup
<1>1. ASSUME NEW c \in Calls, CallActions(c) PROVE \A d \in Calls : Calm(d)
  <2>1. CASE Reserve(c) \/ ReserveUnanswered(c)
    BY <2>1 DEF Reserve, ReserveUnanswered, At, Go, Types, CallTypes
  <2>2. CASE \/ CutOff(c) \/ WriteCutoff(c) \/ WriteCutoffUnanswered(c)
    BY <2>2 DEF CutOff, WriteCutoff, WriteCutoffUnanswered
  <2>3. CASE \/ Prepare(c) \/ Acquire(c) \/ Attempt(c) \/ Unlease(c) \/ Cancel(c) \/ Dispatch(c)
    <3>1. pc[c] # "reserve"
      BY <2>3 DEF Prepare, Acquire, Attempt, Unlease, Cancel, Dispatch, At
    <3>. QED
      BY <1>1, <3>1, CallMovesAlone DEF Alone, Stays
  <2>4. CASE \/ Answer(c) \/ AbortCall(c) \/ Settle(c) \/ Record(c) \/ Release(c)
    <3>1. pc[c] # "reserve"
      BY <2>4 DEF Answer, AbortCall, Settle, Record, Release, At
    <3>. QED
      BY <1>1, <3>1, CallMovesAlone DEF Alone, Stays
  <2>5. CASE \/ AcquireUnanswered(c) \/ AttemptUnanswered(c) \/ SettleUnanswered(c)
             \/ RecordUnanswered(c) \/ ReleaseUnanswered(c)
    <3>1. pc[c] # "reserve"
      BY <2>5
      DEF AcquireUnanswered, AttemptUnanswered, SettleUnanswered, RecordUnanswered,
          ReleaseUnanswered, At
    <3>. QED
      BY <1>1, <3>1, CallMovesAlone DEF Alone, Stays
  <2>. QED
    BY <1>1, <2>1, <2>2, <2>3, <2>4, <2>5 DEF CallActions, CallStep, Lost
<1>2. ASSUME NEW c \in Calls, CallActions(c), NEW o \in Others PROVE Fresh(o)
  <2>1. c[1] # NoHandler
    BY AiAssumption DEF Calls
  <2>2. sent' = sent \/ sent' = sent \cup {<<c, n[c]>>}
    <3>1. CASE Dispatch(c)
      BY <3>1 DEF Dispatch, worldVars
    <3>2. CASE \/ Prepare(c) \/ Reserve(c) \/ Acquire(c) \/ Attempt(c) \/ Unlease(c) \/ Cancel(c)
               \/ Answer(c) \/ AbortCall(c) \/ Settle(c) \/ Record(c) \/ Release(c)
               \/ WriteCutoff(c) \/ CutOff(c)
      BY <3>2
      DEF Prepare, Reserve, Acquire, Attempt, Unlease, Cancel, Answer, AbortCall, Settle, Record,
          Release, WriteCutoff, CutOff, worldVars
    <3>3. CASE Lost(c)
      BY <3>3
      DEF Lost, ReserveUnanswered, AcquireUnanswered, AttemptUnanswered, SettleUnanswered,
          RecordUnanswered, ReleaseUnanswered, WriteCutoffUnanswered, worldVars
    <3>. QED
      BY <1>2, <3>1, <3>2, <3>3 DEF CallActions, CallStep
  <2>. QED
    BY <2>1, <2>2
<1>3. ASSUME NEW h \in Handlers, Crash(h)
      PROVE  (\A c \in Calls : Calm(c)) /\ (\A o \in Others : Fresh(o))
  <2>1. \A c \in Calls : pc'[c] \in {pc[c], "gone"}
    BY <1>3 DEF Crash
  <2>. QED
    BY <1>3, <2>1 DEF Crash, worldVars
<1>4. ASSUME Claim PROVE (\A c \in Calls : Calm(c)) /\ (\A o \in Others : Fresh(o))
  <2>1. \A c \in Calls : pc'[c] \in {pc[c], "prepare"}
    BY <1>4 DEF Claim
  <2>. QED
    BY <1>4, <2>1 DEF Claim, worldVars
<1>5. ASSUME \/ \E s \in Slots : SlotExpires(s) \/ Sweep(s) \/ ResolveQuarantine(s)
             \/ \E call \in inFlight : ProviderEnds(call)
             \/ Leave \/ LoseClaim \/ UNCHANGED vars
      PROVE  (\A c \in Calls : Calm(c)) /\ (\A o \in Others : Fresh(o))
  BY <1>5
  DEF SlotExpires, Sweep, RecoverCutoff, ReapCutoff, ResolveQuarantine, ProviderEnds, Leave,
      LoseClaim, vars, callVars, worldVars
<1>6. ASSUME NEW o \in Others, OtherBegins(o) \/ OtherEnds(o)
      PROVE  (\A c \in Calls : Calm(c)) /\ (\A p \in Others : Fresh(p))
  BY <1>6 DEF OtherBegins, OtherEnds, callVars
<1>. QED
  BY <1>1, <1>2, <1>3, <1>4, <1>5, <1>6 DEF AiNext, CallActions
(* Whoever reserves is charged. *)
LEMMA ReservingCharges ==
    ASSUME Types, NEW key \in Keys, ReserveBudget(key)
    PROVE  IsCharged(budget'[key])
<1>1. CASE IsCharged(budget[key])
  BY <1>1 DEF ReserveBudget
<1>2. CASE ~IsCharged(budget[key])
  <2>1. budget'[key].state = "reserved"
    BY <1>2 DEF ReserveBudget, Types, BudgetTypes
  <2>. QED
    BY <2>1 DEF IsCharged
<1>. QED
  BY <1>1, <1>2

(* The charges agree after every step. *)
LEMMA ChargesAgreeStep ==
    ASSUME Types, CallsAgree, ChargesAgree, [AiNext]_vars
    PROVE  ChargesAgree'
<1>1. BudgetStep /\ WorldStep /\ \A c \in Calls : Move(c)
  BY BudgetSteps, WorldSteps, CallSteps
<1>2. ASSUME NEW c \in Calls, NEW k \in 1..MaxAttempts, NotTakenBack(c, k),
             pc[c] = "cancel" /\ pc'[c] = "done" => n[c] # k
      PROVE  NotTakenBack(c, k)'
  <2>1. PICK h \in Handlers, o \in Ops : c = <<h, o>>
    BY DEF Calls
  <2>. QED
    BY <1>1, <1>2, <2>1, StaysCharged
<1>3. ASSUME NEW c \in Calls, pc'[c] \in Setup \ {"reserve"} PROVE NotTakenBack(c, n[c])'
  <2>1. CASE pc[c] \in Setup \ {"reserve"} /\ n'[c] = n[c]
    <3>1. NotTakenBack(c, n[c]) /\ n[c] \in 1..MaxAttempts
      BY <2>1, KeyOfCall DEF ChargesAgree, CallsAgree, CallAgrees
    <3>2. NotTakenBack(c, n[c])' = (IsCharged(budget'[<<Op(c), n[c]>>]) \/ budget'[<<Op(c), n[c]>>].by # Handler(c))
      BY <2>1 DEF NotTakenBack, IsCharged
    <3>3. ASSUME NEW k \in 1..MaxAttempts, k = n[c]
          PROVE  IsCharged(budget'[<<Op(c), k>>]) \/ budget'[<<Op(c), k>>].by # Handler(c)
      <4>1. NotTakenBack(c, k)'
        BY <1>2, <1>3, <3>1, <3>3 DEF Setup
      <4>. QED
        BY <4>1 DEF NotTakenBack, IsCharged
    <3>. QED
      BY <3>1, <3>2, <3>3
  <2>2. CASE pc[c] = "reserve"
    <3>1. ReserveBudget(Key(c)) /\ n'[c] = n[c]
      BY <1>3, <2>2, ReservedFirst
    <3>2. Key(c) \in Keys
      BY <2>2, KeyOfCall DEF CallsAgree, CallAgrees, Setup
    <3>3. IsCharged(budget'[<<Op(c), n'[c]>>])
      BY <3>1, <3>2, ReservingCharges DEF Key
    <3>. QED
      BY <3>3 DEF NotTakenBack, IsCharged
  <2>. QED
    BY <1>1, <1>3, <2>1, <2>2 DEF Move, Stays, Passes, Setup
<1>4. ASSUME NEW c \in Calls, NEW k \in 1..MaxAttempts, <<c, k>> \in sent'
      PROVE  NotTakenBack(c, k)'
  <2>1. CASE <<c, k>> \in sent
    BY <1>2, <2>1 DEF ChargesAgree, CallsAgree, SentAgrees, Setup
  <2>2. CASE pc[c] = "dispatch" /\ k = n[c]
    <3>1. NotTakenBack(c, k)
      BY <2>2 DEF ChargesAgree, Setup
    <3>. QED
      BY <1>2, <2>2, <3>1
  <2>3. c[1] # NoHandler
    BY AiAssumption DEF Calls
  <2>. QED
    BY <1>1, <1>4, <2>1, <2>2, <2>3 DEF WorldStep, Sends, Passes
<1>5. ASSUME NEW o \in Others, <<<<NoHandler, o>>, 1>> \in sent' PROVE IsCharged(budget'[<<o, 1>>])
  <2>1. <<o, 1>> \in Keys
    BY AiAssumption DEF Keys
  <2>. QED
    BY <1>1, <1>5, <2>1, OthersStayCharged, ReservedFirst, ReservingCharges DEF ChargesAgree
<1>. QED
  BY <1>3, <1>4, <1>5 DEF ChargesAgree, IsCharged
(* One reservation changes the sum of the charges, and of what they exceed *)
(* their estimates by, as much as its own charge and excess. *)
ChargeOf == [key \in Keys |-> Charge(budget[key])]
ExcessOf == [key \in Keys |-> Excess(budget[key])]

(* Charges and excesses are natural numbers, so that they can be added up. *)
LEMMA ChargesAreNat ==
    ASSUME BudgetTypes
    PROVE  ChargeOf \in [Keys -> Nat] /\ ExcessOf \in [Keys -> Nat]
<1>1. ASSUME NEW key \in Keys PROVE Charge(budget[key]) \in Nat /\ Excess(budget[key]) \in Nat
  <2>1. budget[key] \in BudgetRow
    BY DEF BudgetTypes
  <2>2. budget[key].cost \in Nat
    BY <2>1 DEF BudgetRow
  <2>. QED
    BY <2>2 DEF Charge, Excess, Estimate
<1>. QED
  BY <1>1 DEF ChargeOf, ExcessOf

(* When one reservation changes, both sums change by what it changed. *)
LEMMA SumsMove ==
    ASSUME BudgetTypes, BudgetTypes', NEW key \in Keys,
           \A x \in Keys \ {key} : budget'[x] = budget[x]
    PROVE  /\ Charges \in Nat /\ Charges' \in Nat
           /\ SumFunction(ExcessOf) \in Nat /\ SumFunction(ExcessOf)' \in Nat
           /\ Charges' + Charge(budget[key]) = Charges + Charge(budget'[key])
           /\ SumFunction(ExcessOf)' + Excess(budget[key])
                 = SumFunction(ExcessOf) + Excess(budget'[key])
<1>1. ChargeOf \in [Keys -> Nat] /\ ExcessOf \in [Keys -> Nat]
  BY ChargesAreNat
<1>2. (ChargeOf \in [Keys -> Nat] /\ ExcessOf \in [Keys -> Nat])'
  BY ChargesAreNat, PTL
<1>3. Charges = SumFunction(ChargeOf) /\ Charges' = SumFunction(ChargeOf')
  BY DEF Charges, ChargeOf
<1>4. SumFunction(ExcessOf)' = SumFunction(ExcessOf')
  OBVIOUS
<1>5. /\ ChargeOf[key] = Charge(budget[key]) /\ ChargeOf'[key] = Charge(budget'[key])
      /\ \A x \in Keys \ {key} : ChargeOf'[x] = ChargeOf[x]
  BY DEF ChargeOf, Charge, IsCharged
<1>6. /\ ExcessOf[key] = Excess(budget[key]) /\ ExcessOf'[key] = Excess(budget'[key])
      /\ \A x \in Keys \ {key} : ExcessOf'[x] = ExcessOf[x]
  BY DEF ExcessOf, Excess
<1>7. /\ SumFunction(ChargeOf) \in Nat /\ SumFunction(ChargeOf') \in Nat
      /\ SumFunction(ChargeOf') + ChargeOf[key] = SumFunction(ChargeOf) + ChargeOf'[key]
  BY <1>1, <1>2, <1>5, KeysAreFinite, SumIsNat, SumUpdate
<1>8. /\ SumFunction(ExcessOf) \in Nat /\ SumFunction(ExcessOf') \in Nat
      /\ SumFunction(ExcessOf') + ExcessOf[key] = SumFunction(ExcessOf) + ExcessOf'[key]
  BY <1>1, <1>2, <1>6, KeysAreFinite, SumIsNat, SumUpdate
<1>. QED
  BY <1>3, <1>4, <1>5, <1>6, <1>7, <1>8

(* A reservation checks the sum of all charges before it adds its own; a   *)
(* settlement adds to the charges what it adds to the excess. *)
LEMMA WithinBudgetStep ==
    ASSUME Types, EstimatesAgree, WithinBudget, BudgetStep
    PROVE  WithinBudget'
<1>1. BudgetTypes /\ BudgetTypes' /\ Limit \in Nat /\ Estimate = 1
  BY BudgetTypeStep, AiAssumption DEF Types, Estimate
<1>2. /\ Charges <= Limit + SumFunction(ExcessOf)
      /\ Charges' <= Limit + SumFunction(ExcessOf)' => WithinBudget'
  BY DEF WithinBudget, ExcessOf
<1>3. CASE UNCHANGED budget
  BY <1>3 DEF WithinBudget, Charges, Charge, IsCharged, Excess, Estimate
<1>4. ASSUME NEW key \in Keys, Reserved(key) PROVE WithinBudget'
  <2>1. \A x \in Keys \ {key} : budget'[x] = budget[x]
    BY <1>4, OtherRowsAfter
  <2>2. budget'[key] = [state |-> "reserved", id |-> budget[key].id + 1,
                        cost |-> Estimate, by |-> NoHandler]
    BY <1>4, BudgetRowAfter
  <2>3. Charge(budget[key]) = 0 /\ Charge(budget'[key]) = 1
    BY <1>1, <1>4, <2>2 DEF Reserved, Charge, IsCharged
  <2>4. Charges + 1 <= Limit
    BY <1>1, <1>4 DEF Reserved, InBudget
  <2>. QED
    BY <1>1, <1>2, <2>1, <2>3, <2>4, SumsMove
<1>5. ASSUME NEW key \in Keys, NEW cost \in Nat, Settled(key, cost) PROVE WithinBudget'
  <2>1. \A x \in Keys \ {key} : budget'[x] = budget[x]
    BY <1>5, OtherRowsAfter
  <2>2. budget'[key] = [state |-> "settled", id |-> budget[key].id,
                        cost |-> cost, by |-> budget[key].by]
    BY <1>5, BudgetRowAfter
  <2>3. Charge(budget[key]) = 1 /\ Excess(budget[key]) = 0
    BY <1>1, <1>5 DEF Settled, EstimatesAgree, Charge, IsCharged, Excess
  <2>4. Charge(budget'[key]) = cost /\ Excess(budget'[key]) = IF cost > 1 THEN cost - 1 ELSE 0
    BY <1>1, <2>2 DEF Charge, IsCharged, Excess
  <2>5. /\ Charges \in Nat /\ Charges' \in Nat
        /\ SumFunction(ExcessOf) \in Nat /\ SumFunction(ExcessOf)' \in Nat
        /\ Charges' + Charge(budget[key]) = Charges + Charge(budget'[key])
        /\ SumFunction(ExcessOf)' + Excess(budget[key])
              = SumFunction(ExcessOf) + Excess(budget'[key])
    BY <1>1, <2>1, SumsMove
  <2>6. Charges' + 1 = Charges + cost
    BY <2>3, <2>4, <2>5
  <2>7. SumFunction(ExcessOf)' = SumFunction(ExcessOf) + IF cost > 1 THEN cost - 1 ELSE 0
    BY <2>3, <2>4, <2>5
  <2>8. Charges' <= Limit + SumFunction(ExcessOf)'
    BY <1>1, <1>2, <2>5, <2>6, <2>7
  <2>. QED
    BY <1>2, <2>8
<1>6. ASSUME NEW c \in Calls, Cancelled(c) PROVE WithinBudget'
  <2>0. PICK key \in Keys : key = Key(c)
    BY <1>6 DEF Cancelled
  <2>1. \A x \in Keys \ {key} : budget'[x] = budget[x]
    BY <1>6, <2>0, OtherRowsAfter
  <2>2. budget'[key] = [state |-> "cancelled", id |-> budget[key].id,
                        cost |-> budget[key].cost, by |-> Handler(c)]
    BY <1>6, <2>0, BudgetRowAfter
  <2>3. Charge(budget[key]) = 1 /\ Excess(budget[key]) = 0
    BY <1>1, <1>6, <2>0 DEF Cancelled, EstimatesAgree, Charge, IsCharged, Excess
  <2>4. Charge(budget'[key]) = 0 /\ Excess(budget'[key]) = 0
    BY <2>2 DEF Charge, IsCharged, Excess
  <2>5. /\ Charges \in Nat /\ Charges' \in Nat
        /\ SumFunction(ExcessOf) \in Nat /\ SumFunction(ExcessOf)' \in Nat
        /\ Charges' + Charge(budget[key]) = Charges + Charge(budget'[key])
        /\ SumFunction(ExcessOf)' + Excess(budget[key])
              = SumFunction(ExcessOf) + Excess(budget'[key])
    BY <1>1, <2>1, SumsMove
  <2>6. Charges' + 1 = Charges + 0
    BY <2>3, <2>4, <2>5
  <2>7. SumFunction(ExcessOf)' = SumFunction(ExcessOf)
    BY <2>3, <2>4, <2>5
  <2>8. Charges' <= Limit + SumFunction(ExcessOf)'
    BY <1>1, <1>2, <2>5, <2>6, <2>7
  <2>. QED
    BY <1>2, <2>8
<1>. QED
  BY <1>3, <1>4, <1>5, <1>6, BudgetCases

(* Without reservations both sums are zero. *)
LEMMA WithinBudgetInit ==
    ASSUME AiInit
    PROVE  WithinBudget
<1>1. /\ ChargeOf \in [Keys -> Nat] /\ \A key \in Keys : ChargeOf[key] = 0
      /\ ExcessOf \in [Keys -> Nat] /\ \A key \in Keys : ExcessOf[key] = 0
  BY DEF AiInit, NoRow, ChargeOf, ExcessOf, Charge, IsCharged, Excess
<1>2. SumFunction(ChargeOf) = 0 /\ SumFunction(ExcessOf) = 0
  BY <1>1, KeysAreFinite, SumOfZeros
<1>. QED
  BY <1>2, AiAssumption DEF WithinBudget, Charges, ChargeOf, ExcessOf
-----------------------------------------------------------------------------
(* What a step does to a slot: it keeps what it is held for, or it ends    *)
(* the lease of somebody who does not need it any more. *)
Needed(c, k) ==
    \/ <<c, k>> \in inFlight
    \/ c \in Calls /\ n[c] = k /\ pc[c] \in {"attempt", "dispatch"}

NeededAfter(c, k) ==
    \/ <<c, k>> \in inFlight'
    \/ c \in Calls /\ n'[c] = k /\ pc'[c] \in {"attempt", "dispatch"}

Holds(new, row) ==
    /\ Taken(new) <=> Taken(row)
    /\ new.owner = row.owner /\ new.attempt = row.attempt /\ new.live = row.live

Ends(new, row) ==
    \/ ~Taken(new)
    \/ Taken(row) /\ new.owner = row.owner /\ new.attempt = row.attempt /\ ~new.live

Spared(row) == Taken(row) /\ row.live => ~NeededAfter(row.owner, row.attempt)

SlotStays(s) ==
    Holds(slot'[s], slot[s]) \/ (Ends(slot'[s], slot[s]) /\ Spared(slot[s]))

(* A lease in a slot that was free, or was swept free before. *)
SlotLeased(s, c, k) ==
    /\ ~Taken(Swept(slot[s]))
    /\ slot'[s] = [state |-> "leased", owner |-> c, attempt |-> k, live |-> TRUE]
    /\ \A x \in Slots \ {s} : slot'[x] = Swept(slot[x])
    /\ c[2] \in Resolver => Cardinality({x \in Slots : OfResolver(Swept(slot[x]))}) < MaxResolver

SlotStep ==
    \/ \A s \in Slots : SlotStays(s)
    \/ \E s \in Slots, c \in Callers, k \in 1..MaxAttempts : SlotLeased(s, c, k)

(* The operators on rows. *)
LEMMA QuarantineHolds ==
    ASSUME NEW row \in SlotRow
    PROVE  /\ Quarantine(row) \in SlotRow /\ Taken(Quarantine(row))
           /\ Taken(row) => Holds(Quarantine(row), row)
           /\ Quarantine(row).owner = row.owner /\ Quarantine(row).attempt = row.attempt
           /\ Quarantine(row).live = row.live
  BY DEF Quarantine, SlotRow, Taken, Holds

(* The free slot. *)
LEMMA FreeIsRow == Free \in SlotRow /\ ~Taken(Free) /\ ~Free.live
  BY AiAssumption DEF Free, SlotRow, Taken

(* A sweep takes only slots whose lease ran out. *)
LEMMA SweptRow ==
    ASSUME NEW row \in SlotRow
    PROVE  /\ Swept(row) \in SlotRow
           /\ Holds(Swept(row), row) \/ (~row.live /\ ~Taken(Swept(row)))
<1> DEFINE q == IF row.state = "leased" /\ ~row.live THEN Quarantine(row) ELSE row
<1>1. q \in SlotRow /\ Holds(q, row)
  <2>1. CASE row.state = "leased" /\ ~row.live
    BY <2>1, QuarantineHolds DEF Taken
  <2>2. CASE ~(row.state = "leased" /\ ~row.live)
    BY <2>2 DEF Holds
  <2>. QED
    BY <2>1, <2>2
<1>2. Swept(row) = IF Reapable(q) THEN Free ELSE q
  BY DEF Swept
<1> HIDE DEF q
<1>3. CASE Reapable(q)
  <2>1. ~q.live
    BY <1>3 DEF Reapable
  <2>. QED
    BY <1>1, <1>2, <1>3, <2>1, FreeIsRow DEF Holds
<1>4. CASE ~Reapable(q)
  BY <1>1, <1>2, <1>4
<1>. QED
  BY <1>3, <1>4

(* A slot that was only swept. *)
LEMMA SweptStays ==
    ASSUME SlotTypes, NEW s \in Slots, slot'[s] = Swept(slot[s])
    PROVE  SlotStays(s) /\ slot'[s] \in SlotRow
<1>1. slot[s] \in SlotRow
  BY DEF SlotTypes
<1>2. /\ slot'[s] \in SlotRow
      /\ Holds(slot'[s], slot[s]) \/ (~slot[s].live /\ ~Taken(slot'[s]))
  BY <1>1, SweptRow
<1>. QED
  BY <1>2 DEF SlotStays, Ends, Spared

(* An acquire sweeps, and then leases a free slot, quarantines a lease of  *)
(* the same attempt, or does nothing more. *)
LEMMA AcquireSteps ==
    ASSUME SlotTypes, NEW c \in Callers, NEW k \in 1..MaxAttempts, AcquireSlot(c, c[2], k)
    PROVE  /\ SlotStep /\ SlotTypes'
           /\ AcquireAnswer(c[2], k) = "acquired" => \E s \in Slots : SlotLeased(s, c, k)
<1> DEFINE rows == [s \in Slots |-> Swept(slot[s])]
           s0 == CHOOSE s \in FreeSlots(rows) : TRUE
           row == [state |-> "leased", owner |-> c, attempt |-> k, live |-> TRUE]
<1>1. /\ rows \in [Slots -> SlotRow]
      /\ \A s \in Slots : rows[s] = Swept(slot[s])
  BY SweptRow DEF SlotTypes
<1>2. slot' = CASE AcquireAnswer(c[2], k) = "acquired" -> [rows EXCEPT ![s0] = row]
                [] AcquireAnswer(c[2], k) = "quarantine" ->
                     [x \in Slots |-> IF x \in SlotsOf(rows, c[2], k) THEN Quarantine(rows[x]) ELSE rows[x]]
                [] OTHER -> rows
  BY DEF AcquireSlot
<1>3. CASE AcquireAnswer(c[2], k) = "acquired"
  <2>1. /\ FreeSlots(rows) # {}
        /\ c[2] \in Resolver => ~(Cardinality({s \in Slots : OfResolver(rows[s])}) >= MaxResolver)
    BY <1>3 DEF AcquireAnswer, ResolverFull
  <2>2. s0 \in Slots /\ ~Taken(rows[s0])
    BY <2>1 DEF FreeSlots
  <2>3. slot' = [rows EXCEPT ![s0] = row]
    BY <1>2, <1>3
  <2>4. row \in SlotRow
    BY AiAssumption DEF SlotRow
  <2>5. slot' \in [Slots -> SlotRow] /\ slot'[s0] = row /\ \A x \in Slots \ {s0} : slot'[x] = rows[x]
    <3> HIDE DEF rows, s0, row
    <3>. QED
      BY <1>1, <2>2, <2>3, <2>4
  <2>6. {s \in Slots : OfResolver(rows[s])} = {s \in Slots : OfResolver(Swept(slot[s]))}
    BY <1>1
  <2>7. IsFiniteSet({s \in Slots : OfResolver(Swept(slot[s]))})
    <3>1. {s \in Slots : OfResolver(Swept(slot[s]))} \subseteq Slots
      OBVIOUS
    <3>. QED
      BY <3>1, AiAssumption, FS_Subset
  <2>8. c[2] \in Resolver => Cardinality({x \in Slots : OfResolver(Swept(slot[x]))}) < MaxResolver
    <3> DEFINE N == Cardinality({x \in Slots : OfResolver(Swept(slot[x]))})
    <3>1. N \in Nat /\ MaxResolver \in Nat
      BY <2>7, FS_CardinalityType, AiAssumption
    <3>2. c[2] \in Resolver => ~(N >= MaxResolver)
      BY <2>1, <2>6
    <3> HIDE DEF N
    <3>3. c[2] \in Resolver => N < MaxResolver
      BY <3>1, <3>2
    <3>. QED
      BY <3>3 DEF N
  <2>9. SlotLeased(s0, c, k)
    <3> HIDE DEF rows, s0
    <3>. QED
      BY <1>1, <2>2, <2>5, <2>8 DEF SlotLeased
  <2>. QED
    BY <2>2, <2>5, <2>9 DEF SlotStep, SlotTypes
<1>4. CASE AcquireAnswer(c[2], k) = "quarantine"
  <2>1. slot' = [x \in Slots |-> IF x \in SlotsOf(rows, c[2], k) THEN Quarantine(rows[x]) ELSE rows[x]]
    BY <1>2, <1>4
  <2>2. ASSUME NEW s \in Slots PROVE slot'[s] \in SlotRow /\ SlotStays(s)
    <3>1. CASE s \in SlotsOf(rows, c[2], k)
      <4>1. slot'[s] = Quarantine(rows[s]) /\ Taken(rows[s]) /\ rows[s] \in SlotRow
        BY <1>1, <2>1, <3>1 DEF SlotsOf
      <4>2. slot'[s] \in SlotRow /\ Holds(slot'[s], rows[s])
        BY <4>1, QuarantineHolds
      <4>3. Holds(rows[s], slot[s])
        BY <1>1, <4>1, SweptRow DEF SlotTypes
      <4>. QED
        BY <4>2, <4>3 DEF Holds, SlotStays
    <3>2. CASE s \notin SlotsOf(rows, c[2], k)
      BY <2>1, <3>2, SweptStays
    <3>. QED
      BY <3>1, <3>2
  <2>3. slot' \in [Slots -> SlotRow]
    BY <2>1, <2>2
  <2>. QED
    BY <1>4, <2>2, <2>3 DEF SlotStep, SlotTypes
<1>5. CASE AcquireAnswer(c[2], k) \notin {"acquired", "quarantine"}
  <2>1. slot' = rows
    BY <1>2, <1>5
  <2>2. ASSUME NEW s \in Slots PROVE SlotStays(s)
    BY <2>1, SweptStays
  <2>. QED
    BY <1>1, <1>5, <2>1, <2>2 DEF SlotStep, SlotTypes
<1>. QED
  BY <1>3, <1>4, <1>5
(* Steps that leave the slots alone, or only free those that ran out. *)
LEMMA SameSlots ==
    ASSUME SlotTypes, UNCHANGED slot
    PROVE  SlotStep /\ SlotTypes'
  BY DEF SlotTypes, SlotRow, SlotStep, SlotStays, Holds

(* Steps that change one slot. *)
LEMMA OneSlot ==
    ASSUME SlotTypes, NEW s \in Slots, NEW row \in SlotRow, slot' = [slot EXCEPT ![s] = row],
           Holds(row, slot[s]) \/ (Ends(row, slot[s]) /\ Spared(slot[s]))
    PROVE  SlotStep /\ SlotTypes'
<1>1. slot' \in [Slots -> SlotRow] /\ slot'[s] = row /\ \A x \in Slots \ {s} : slot'[x] = slot[x]
  BY DEF SlotTypes
<1>2. ASSUME NEW x \in Slots PROVE SlotStays(x)
  BY <1>1 DEF SlotStays, Holds
<1>. QED
  BY <1>1, <1>2 DEF SlotStep, SlotTypes, SlotRow

(* A call gives its slot back when it does not need it. *)
LEMMA ReleaseSteps ==
    ASSUME Types, NEW c \in Calls, ReleaseSlot(c), ~NeededAfter(c, n[c])
    PROVE  SlotStep /\ SlotTypes'
<1>1. SlotTypes /\ slot' = [s \in Slots |-> IF s \in Mine(c) THEN Free ELSE slot[s]]
  BY DEF Types, ReleaseSlot
<1>2. slot' \in [Slots -> SlotRow]
  BY <1>1, FreeIsRow DEF SlotTypes
<1>3. ASSUME NEW s \in Slots PROVE SlotStays(s)
  <2>1. CASE s \in Mine(c)
    <3>1. slot'[s] = Free /\ slot[s].owner = c /\ slot[s].attempt = n[c]
      BY <1>1, <2>1 DEF Mine
    <3>. QED
      BY <3>1, FreeIsRow DEF SlotStays, Ends, Spared
  <2>2. CASE s \notin Mine(c)
    BY <1>1, <2>2 DEF SlotStays, Holds
  <2>. QED
    BY <2>1, <2>2
<1>. QED
  BY <1>2, <1>3 DEF SlotStep, SlotTypes, SlotRow

(* A cutoff keeps the slot of its call. *)
LEMMA CutoffSteps ==
    ASSUME Types, NEW c \in Calls, CutoffRows(c)
    PROVE  SlotStep /\ SlotTypes'
<1>1. SlotTypes /\ slot' = [s \in Slots |-> IF s \in Mine(c) THEN Quarantine(slot[s]) ELSE slot[s]]
  BY DEF Types, CutoffRows
<1>2. ASSUME NEW s \in Slots PROVE slot'[s] \in SlotRow /\ SlotStays(s)
  <2>1. slot[s] \in SlotRow
    BY <1>1 DEF SlotTypes
  <2>2. CASE s \in Mine(c)
    BY <1>1, <2>1, <2>2, QuarantineHolds DEF Mine, SlotStays
  <2>3. CASE s \notin Mine(c)
    BY <1>1, <2>1, <2>3 DEF SlotStays, Holds
  <2>. QED
    BY <2>2, <2>3
<1>. QED
  BY <1>1, <1>2 DEF SlotStep, SlotTypes, SlotRow

(* Every step of a call, for the slots. *)
LEMMA CallSlotSteps ==
    ASSUME Types, CallsAgree, NEW c \in Calls, CallActions(c)
    PROVE  SlotStep /\ SlotTypes'
<1> USE DEF Types
<1>1. CASE Acquire(c) \/ AcquireUnanswered(c)
  <2>1. \/ UNCHANGED slot
        \/ n[c] \in 1..MaxAttempts /\ AcquireSlot(c, c[2], n[c])
    BY <1>1, KeyOfCall DEF Acquire, AcquireUnanswered, At, CallsAgree, CallAgrees, Setup, Op
  <2>. QED
    BY <2>1, SameSlots, AcquireSteps DEF Callers
<1>2. CASE Unlease(c) \/ Release(c) \/ ReleaseUnanswered(c)
  <2>1. /\ <<c, n[c]>> \notin inFlight'
        /\ pc'[c] \in {"cancel", "reserve", "done"}
    <3>1. CASE Unlease(c)
      <4>1. n[c] \in 1..MaxAttempts
        BY <3>1, KeyOfCall DEF Unlease, At, CallsAgree, CallAgrees, Setup
      <4>2. <<c, n[c]>> \notin sent
        BY <3>1, <4>1 DEF Unlease, At, CallsAgree, SentAgrees, Setup
      <4>. QED
        BY <3>1, <4>2 DEF Unlease, At, Go, CallTypes, WorldTypes, worldVars
    <3>2. CASE Release(c) \/ ReleaseUnanswered(c)
      <4>1. <<c, n[c]>> \notin inFlight
        BY <3>2 DEF Release, ReleaseUnanswered, At, CallsAgree, SentAgrees
      <4>. QED
        BY <3>2, <4>1 DEF Release, ReleaseUnanswered, At, Go, CallTypes, worldVars
    <3>. QED
      BY <1>2, <3>1, <3>2
  <2>2. ~NeededAfter(c, n[c])
    BY <2>1 DEF NeededAfter
  <2>3. ReleaseSlot(c) \/ UNCHANGED slot
    BY <1>2 DEF Unlease, Release, ReleaseUnanswered
  <2>. QED
    BY <2>2, <2>3, SameSlots, ReleaseSteps
<1>3. CASE WriteCutoff(c) \/ WriteCutoffUnanswered(c)
  <2>1. CutoffRows(c) \/ UNCHANGED slot
    BY <1>3 DEF WriteCutoff, WriteCutoffUnanswered
  <2>. QED
    BY <2>1, SameSlots, CutoffSteps
<1>4. CASE \/ Prepare(c) \/ Reserve(c) \/ Attempt(c) \/ Cancel(c) \/ Dispatch(c) \/ Answer(c)
           \/ AbortCall(c) \/ Settle(c) \/ Record(c) \/ CutOff(c)
  <2>1. UNCHANGED slot
    BY <1>4
    DEF Prepare, Reserve, Attempt, Cancel, Dispatch, Answer, AbortCall, Settle, Record, CutOff
  <2>. QED
    BY <2>1, SameSlots
<1>5. CASE \/ ReserveUnanswered(c) \/ AttemptUnanswered(c) \/ SettleUnanswered(c)
           \/ RecordUnanswered(c)
  <2>1. UNCHANGED slot
    BY <1>5 DEF ReserveUnanswered, AttemptUnanswered, SettleUnanswered, RecordUnanswered
  <2>. QED
    BY <2>1, SameSlots
<1>. QED
  BY <1>1, <1>2, <1>3, <1>4, <1>5 DEF CallActions, CallStep, Lost

(* What the database and the operator do to a slot by themselves. *)
LEMMA UpkeepSteps ==
    ASSUME Types, NEW s \in Slots, SlotExpires(s) \/ Sweep(s) \/ ResolveQuarantine(s)
    PROVE  SlotStep /\ SlotTypes'
<1>1. SlotTypes /\ slot[s] \in SlotRow
  BY DEF Types, SlotTypes
<1>2. CASE SlotExpires(s)
  <2> DEFINE row == [slot[s] EXCEPT !.live = FALSE]
  <2>1. row \in SlotRow /\ Ends(row, slot[s])
    BY <1>1, <1>2 DEF SlotExpires, SlotRow, Ends, Taken
  <2>2. slot' = [slot EXCEPT ![s] = row]
    BY <1>1, <1>2 DEF SlotExpires, SlotTypes
  <2>3. Spared(slot[s])
    BY <1>2 DEF SlotExpires, InUse, Spared, NeededAfter, callVars, worldVars
  <2> HIDE DEF row
  <2>. QED
    BY <1>1, <2>1, <2>2, <2>3, OneSlot
<1>3. CASE RecoverCutoff(s)
  BY <1>1, <1>3, QuarantineHolds, OneSlot DEF RecoverCutoff, OfResolver
<1>4. CASE ReapCutoff(s) \/ ResolveQuarantine(s)
  <2>1. slot' = [slot EXCEPT ![s] = Free] /\ ~slot[s].live
    BY <1>4 DEF ReapCutoff, Reapable, ResolveQuarantine
  <2>2. Ends(Free, slot[s]) /\ Spared(slot[s])
    BY <2>1, FreeIsRow DEF Ends, Spared
  <2>. QED
    BY <1>1, <2>1, <2>2, FreeIsRow, OneSlot
<1>. QED
  BY <1>2, <1>3, <1>4 DEF Sweep

(* Calls of other jobs. *)
LEMMA OtherSlotSteps ==
    ASSUME Types, CallsAgree, NEW o \in Others, OtherBegins(o) \/ OtherEnds(o)
    PROVE  SlotStep /\ SlotTypes'
<1> DEFINE c == <<NoHandler, o>>
<1>1. c \in OtherCalls /\ c \in Callers /\ c \notin Calls /\ 1 \in 1..MaxAttempts /\ SlotTypes
  BY AiAssumption DEF OtherCalls, Callers, Calls, Types
<1>2. CASE OtherBegins(o)
  BY <1>1, <1>2, AcquireSteps DEF OtherBegins
<1>3. CASE OtherEnds(o)
  <2>1. /\ slot' = [s \in Slots |-> IF slot[s].owner = c THEN Free ELSE slot[s]]
        /\ inFlight' = inFlight \ {<<c, 1>>}
    BY <1>3 DEF OtherEnds
  <2>2. slot' \in [Slots -> SlotRow]
    BY <1>1, <2>1, FreeIsRow DEF SlotTypes
  <2>3. ASSUME NEW k PROVE ~NeededAfter(c, k)
    <3>1. <<c, k>> \in inFlight => k = 1
      <4>1. inFlight \subseteq sent
        BY DEF Types, WorldTypes
      <4>. QED
        BY <1>1, <4>1 DEF CallsAgree
    <3>. QED
      BY <1>1, <2>1, <3>1 DEF NeededAfter
  <2>4. ASSUME NEW s \in Slots PROVE SlotStays(s)
    <3>1. CASE slot[s].owner = c
      BY <2>1, <2>3, <3>1, FreeIsRow DEF SlotStays, Ends, Spared
    <3>2. CASE slot[s].owner # c
      BY <2>1, <3>2 DEF SlotStays, Holds
    <3>. QED
      BY <3>1, <3>2
  <2>. QED
    BY <2>2, <2>4 DEF SlotStep, SlotTypes, SlotRow
<1>. QED
  BY <1>2, <1>3

(* Every step, for the slots. *)
LEMMA SlotSteps ==
    ASSUME Types, CallsAgree, [AiNext]_vars
    PROVE  SlotStep /\ SlotTypes'
<1>1. SlotTypes
  BY DEF Types
<1>2. ASSUME \/ \E call \in inFlight : ProviderEnds(call)
             \/ \E h \in Handlers : Crash(h)
             \/ Claim \/ Leave \/ LoseClaim \/ UNCHANGED vars
      PROVE  UNCHANGED slot
  BY <1>2 DEF ProviderEnds, Crash, Claim, Leave, LoseClaim, vars
<1>. QED
  BY <1>1, <1>2, SameSlots, CallSlotSteps, UpkeepSteps, OtherSlotSteps DEF AiNext, CallActions
(* Who needs a slot after a step needed it before, or was given one.       *)
LEMMA NeededBefore ==
    ASSUME Types, CallsAgree, [AiNext]_vars,
           NEW c \in Callers, NEW k \in 1..MaxAttempts, NeededAfter(c, k)
    PROVE  Needed(c, k) \/ \E s \in Slots : SlotLeased(s, c, k)
<1> DEFINE Given == \E s \in Slots : SlotLeased(s, c, k)
<1>0. SlotTypes
  BY DEF Types
<1>1. ASSUME NEW d \in Calls, CallActions(d) PROVE Needed(c, k) \/ Given
  <2>1. CASE c # d
    <3>1. inFlight' \subseteq inFlight \cup {<<d, n[d]>>}
      <4>1. CASE Dispatch(d)
        BY <4>1 DEF Dispatch, worldVars
      <4>2. CASE \/ Prepare(d) \/ Reserve(d) \/ Acquire(d) \/ Attempt(d) \/ Unlease(d) \/ Cancel(d)
                 \/ Answer(d) \/ AbortCall(d) \/ Settle(d) \/ Record(d) \/ Release(d)
                 \/ WriteCutoff(d) \/ CutOff(d)
        BY <4>2
        DEF Prepare, Reserve, Acquire, Attempt, Unlease, Cancel, Answer, AbortCall, Settle, Record,
            Release, WriteCutoff, CutOff, worldVars
      <4>3. CASE Lost(d)
        BY <4>3
        DEF Lost, ReserveUnanswered, AcquireUnanswered, AttemptUnanswered, SettleUnanswered,
            RecordUnanswered, ReleaseUnanswered, WriteCutoffUnanswered, worldVars
      <4>. QED
        BY <1>1, <4>1, <4>2, <4>3 DEF CallActions, CallStep
    <3>2. c \in Calls => Stays(c)
      BY <1>1, <2>1, CallMovesAlone DEF Alone
    <3>. QED
      BY <2>1, <3>1, <3>2 DEF NeededAfter, Needed, Stays
  <2>2. CASE c = d /\ (Acquire(d) \/ AcquireUnanswered(d))
    <3>1. /\ pc[c] = "acquire" /\ inFlight' = inFlight /\ n' = n /\ pc'[c] \in {"attempt", "cancel"}
          /\ pc'[c] = "attempt" =>
                AcquireSlot(c, c[2], n[c]) /\ AcquireAnswer(c[2], n[c]) = "acquired"
      BY <2>2 DEF Acquire, AcquireUnanswered, At, Go, Op, Types, CallTypes, worldVars
    <3>2. CASE <<c, k>> \in inFlight'
      BY <3>1, <3>2 DEF Needed
    <3>3. CASE pc'[c] = "attempt" /\ n'[c] = k
      <4>1. AcquireSlot(c, c[2], k) /\ AcquireAnswer(c[2], k) = "acquired"
        BY <3>1, <3>3
      <4>. QED
        BY <1>0, <4>1, AcquireSteps
    <3>. QED
      BY <3>1, <3>2, <3>3 DEF NeededAfter
  <2>3. CASE c = d /\ (Attempt(d) \/ AttemptUnanswered(d))
    BY <2>3 DEF Attempt, AttemptUnanswered, At, Go, Types, CallTypes, worldVars, Needed, NeededAfter
  <2>4. CASE c = d /\ Dispatch(d)
    BY <2>4 DEF Dispatch, At, Go, Types, CallTypes, worldVars, Needed, NeededAfter
  <2>5. CASE /\ c = d
             /\ \/ Prepare(d) \/ Reserve(d) \/ Unlease(d) \/ Cancel(d) \/ Answer(d) \/ AbortCall(d)
                \/ Settle(d)
    BY <2>5
    DEF Prepare, Reserve, Unlease, Cancel, Answer, AbortCall, Settle, At, Go, Types, CallTypes,
        worldVars, Needed, NeededAfter
  <2>6. CASE c = d /\ (Record(d) \/ Release(d) \/ WriteCutoff(d) \/ CutOff(d))
    BY <2>6
    DEF Record, Release, WriteCutoff, CutOff, At, Go, Types, CallTypes, worldVars, Needed, NeededAfter
  <2>7. CASE /\ c = d
             /\ \/ ReserveUnanswered(d) \/ SettleUnanswered(d) \/ RecordUnanswered(d)
                \/ ReleaseUnanswered(d) \/ WriteCutoffUnanswered(d)
    BY <2>7
    DEF ReserveUnanswered, SettleUnanswered, RecordUnanswered, ReleaseUnanswered,
        WriteCutoffUnanswered, At, Go, Types, CallTypes, worldVars, Needed, NeededAfter
  <2>. QED
    BY <1>1, <2>1, <2>2, <2>3, <2>4, <2>5, <2>6, <2>7 DEF CallActions, CallStep, Lost
<1>2. ASSUME NEW o \in Others, OtherBegins(o) PROVE Needed(c, k) \/ Given
  <2>1. /\ inFlight' = inFlight \cup {<<<<NoHandler, o>>, 1>>} /\ n' = n /\ pc' = pc
        /\ AcquireAnswer(o, 1) = "acquired" /\ AcquireSlot(<<NoHandler, o>>, o, 1)
    BY <1>2 DEF OtherBegins, callVars
  <2>2. CASE c = <<NoHandler, o>> /\ k = 1
    BY <1>0, <2>1, <2>2, AcquireSteps
  <2>3. CASE ~(c = <<NoHandler, o>> /\ k = 1)
    BY <2>1, <2>3 DEF Needed, NeededAfter
  <2>. QED
    BY <2>2, <2>3
<1>3. ASSUME NEW o \in Others, OtherEnds(o) PROVE Needed(c, k) \/ Given
  BY <1>3 DEF OtherEnds, callVars, Needed, NeededAfter
<1>4. ASSUME NEW h \in Handlers, Crash(h) PROVE Needed(c, k) \/ Given
  <2>1. /\ inFlight' = inFlight
        /\ c \in Calls => pc'[c] = "gone" \/ (pc'[c] = pc[c] /\ n'[c] = n[c])
    BY <1>4 DEF Crash, worldVars
  <2>. QED
    BY <2>1 DEF Needed, NeededAfter
<1>5. ASSUME Claim PROVE Needed(c, k) \/ Given
  <2>1. inFlight' = inFlight /\ n' = n /\ (c \in Calls => pc'[c] \in {pc[c], "prepare"})
    BY <1>5 DEF Claim, worldVars
  <2>. QED
    BY <2>1 DEF Needed, NeededAfter
<1>6. ASSUME \/ \E s \in Slots : SlotExpires(s) \/ Sweep(s) \/ ResolveQuarantine(s)
             \/ \E call \in inFlight : ProviderEnds(call)
             \/ Leave \/ LoseClaim \/ UNCHANGED vars
      PROVE  Needed(c, k) \/ Given
  <2>1. inFlight' \subseteq inFlight /\ n' = n /\ pc' = pc
    BY <1>6
    DEF SlotExpires, Sweep, RecoverCutoff, ReapCutoff, ResolveQuarantine, ProviderEnds, Leave,
        LoseClaim, vars, callVars, worldVars
  <2>. QED
    BY <2>1 DEF Needed, NeededAfter
<1>. QED
  BY <1>1, <1>2, <1>3, <1>4, <1>5, <1>6 DEF AiNext, CallActions

(* The slots that resolvers have. *)
ResolverSlots == {s \in Slots : OfResolver(slot[s])}

(* Resolvers never have more slots than their share: an acquire counts     *)
(* them after its own sweep. *)
LEMMA ResolverSlotsStep ==
    ASSUME Types, SlotsAgree, SlotStep
    PROVE  Cardinality(ResolverSlots') <= MaxResolver
<1> DEFINE old == ResolverSlots
           swept == {s \in Slots : OfResolver(Swept(slot[s]))}
           new == {s \in Slots : OfResolver(slot'[s])}
<1>1. /\ IsFiniteSet(Slots) /\ IsFiniteSet(old) /\ Cardinality(old) <= MaxResolver
      /\ Cardinality(old) \in Nat /\ MaxResolver \in Nat /\ ResolverSlots' = new
  <2>1. IsFiniteSet(Slots) /\ MaxResolver \in Nat /\ old \in SUBSET Slots
    BY AiAssumption DEF ResolverSlots
  <2>2. IsFiniteSet(old) /\ Cardinality(old) \in Nat
    BY <2>1, FS_Subset, FS_CardinalityType
  <2>. QED
    BY <2>1, <2>2 DEF SlotsAgree, ResolverSlots, OfResolver, Taken, OpOf
<1>2. CASE \A s \in Slots : SlotStays(s)
  <2>1. new \in SUBSET old
    BY <1>2 DEF ResolverSlots, SlotStays, Holds, Ends, OfResolver, OpOf
  <2>2. Cardinality(new) <= Cardinality(old) /\ Cardinality(new) \in Nat
    <3> HIDE DEF old, new
    <3>. QED
      BY <1>1, <2>1, FS_Subset, FS_CardinalityType
  <2>. QED
    BY <1>1, <2>2
<1>3. ASSUME NEW s \in Slots, NEW c \in Callers, NEW k \in 1..MaxAttempts, SlotLeased(s, c, k)
      PROVE  Cardinality(new) <= MaxResolver
  <2>1. swept \in SUBSET old
    BY SweptRow DEF Types, SlotTypes, ResolverSlots, Holds, OfResolver, OpOf
  <2>2. IsFiniteSet(swept) /\ Cardinality(swept) \in Nat /\ Cardinality(swept) <= Cardinality(old)
    <3> HIDE DEF old, swept
    <3>. QED
      BY <1>1, <2>1, FS_Subset, FS_CardinalityType
  <2>3. slot'[s].owner = c /\ (c[2] \in Resolver => Cardinality(swept) < MaxResolver)
    BY <1>3 DEF SlotLeased
  <2>4. CASE c[2] \in Resolver
    <3>1. new \in SUBSET (swept \cup {s})
      BY <1>3 DEF SlotLeased
    <3>2. IsFiniteSet(swept \cup {s}) /\ Cardinality(swept \cup {s}) <= Cardinality(swept) + 1
      <4> HIDE DEF swept
      <4>1. IsFiniteSet(swept \cup {s})
            /\ Cardinality(swept \cup {s}) = IF s \in swept THEN Cardinality(swept) ELSE Cardinality(swept) + 1
        BY <2>2, FS_AddElement
      <4>. QED
        BY <2>2, <4>1
    <3>3. /\ Cardinality(swept \cup {s}) \in Nat /\ Cardinality(new) \in Nat
          /\ Cardinality(new) <= Cardinality(swept \cup {s})
      <4> HIDE DEF swept, new
      <4>. QED
        BY <3>1, <3>2, FS_Subset, FS_CardinalityType
    <3> HIDE DEF swept, new
    <3>. QED
      BY <1>1, <2>2, <2>3, <2>4, <3>2, <3>3
  <2>5. CASE c[2] \notin Resolver
    <3>1. new \in SUBSET swept
      BY <1>3, <2>3, <2>5 DEF SlotLeased, OfResolver, OpOf
    <3>2. Cardinality(new) <= Cardinality(swept) /\ Cardinality(new) \in Nat
      <4> HIDE DEF swept, new
      <4>. QED
        BY <2>2, <3>1, FS_Subset, FS_CardinalityType
    <3> HIDE DEF swept, new
    <3>. QED
      BY <1>1, <2>2, <3>2
  <2>. QED
    BY <2>4, <2>5
<1> HIDE DEF new
<1>. QED
  BY <1>1, <1>2, <1>3 DEF SlotStep

(* A lease that is needed survives, and a new one is live. *)
LEMMA LeasedStays ==
    ASSUME Types, NEW c \in Callers, NEW k \in 1..MaxAttempts, SlotStep, NeededAfter(c, k),
           Leased(c, k) \/ \E s \in Slots : SlotLeased(s, c, k)
    PROVE  \E s \in Slots : Taken(slot'[s]) /\ slot'[s].owner = c /\ slot'[s].attempt = k /\ slot'[s].live
<1>1. ASSUME NEW s \in Slots, SlotLeased(s, c, k)
      PROVE  Taken(slot'[s]) /\ slot'[s].owner = c /\ slot'[s].attempt = k /\ slot'[s].live
  BY <1>1 DEF SlotLeased, Taken
<1>2. ASSUME Leased(c, k)
      PROVE  \E s \in Slots : Taken(slot'[s]) /\ slot'[s].owner = c /\ slot'[s].attempt = k /\ slot'[s].live
  <2>1. PICK s \in Slots : Taken(slot[s]) /\ slot[s].owner = c /\ slot[s].attempt = k /\ slot[s].live
    BY <1>2 DEF Leased
  <2>2. CASE SlotStays(s)
    BY <2>1, <2>2 DEF SlotStays, Holds, Spared
  <2>3. ASSUME NEW t \in Slots, NEW d \in Callers, NEW j \in 1..MaxAttempts, SlotLeased(t, d, j)
        PROVE  SlotStays(s)
    <3>1. slot[s] \in SlotRow
      BY DEF Types, SlotTypes
    <3>2. Holds(Swept(slot[s]), slot[s])
      BY <2>1, <3>1, SweptRow
    <3>3. t # s
      BY <2>1, <2>3, <3>2 DEF SlotLeased, Holds
    <3>. QED
      BY <2>3, <3>2, <3>3 DEF SlotLeased, SlotStays
  <2>. QED
    BY <2>1, <2>2, <2>3 DEF SlotStep
<1>. QED
  BY <1>1, <1>2

(* The slots agree after every step. *)
LEMMA SlotsAgreeStep ==
    ASSUME Types, CallsAgree, SlotsAgree, [AiNext]_vars
    PROVE  SlotsAgree'
<1>1. SlotStep /\ SlotTypes' /\ CallTypes' /\ WorldTypes' /\ CallsAgree'
  BY SlotSteps, CallSteps, WorldSteps, WorldTypeStep, CallsAgreeStep
<1>2. ASSUME NEW s \in Slots, Taken(slot'[s]) PROVE slot'[s].owner \in Callers /\ slot'[s].attempt > 0
  <2>1. CASE SlotStays(s)
    BY <1>2, <2>1 DEF SlotStays, Holds, Ends, SlotsAgree
  <2>2. ASSUME NEW t \in Slots, NEW d \in Callers, NEW j \in 1..MaxAttempts, SlotLeased(t, d, j)
        PROVE  s = t \/ SlotStays(s)
    <3>1. slot[s] \in SlotRow /\ (s # t => slot'[s] = Swept(slot[s]))
      BY <2>2 DEF Types, SlotTypes, SlotLeased
    <3>. QED
      BY <3>1, SweptStays DEF Types
  <2>3. ASSUME NEW t \in Slots, NEW d \in Callers, NEW j \in 1..MaxAttempts, SlotLeased(t, d, j)
        PROVE  slot'[t].owner \in Callers /\ slot'[t].attempt > 0
    BY <2>3, AiAssumption DEF SlotLeased
  <2>. QED
    BY <1>1, <2>1, <2>2, <2>3 DEF SlotStep
<1>3. ASSUME NEW c \in Callers, NEW k \in 1..MaxAttempts, NeededAfter(c, k) PROVE Leased(c, k)'
  <2>1. Needed(c, k) => Leased(c, k)
    BY DEF Needed, SlotsAgree
  <2>2. \E s \in Slots : Taken(slot'[s]) /\ slot'[s].owner = c /\ slot'[s].attempt = k /\ slot'[s].live
    BY <1>1, <1>3, <2>1, NeededBefore, LeasedStays
  <2>. QED
    BY <2>2 DEF Leased, Taken
<1>4. ASSUME NEW c \in Calls, pc'[c] \in {"attempt", "dispatch"} PROVE Leased(c, n[c])'
  <2>1. n'[c] \in 1..MaxAttempts
    BY <1>1, <1>4, AiAssumption DEF CallTypes, CallsAgree, CallAgrees, Setup
  <2>2. PICK k \in 1..MaxAttempts : k = n'[c]
    BY <2>1
  <2>3. Leased(c, k)'
    BY <1>3, <1>4, <2>2 DEF NeededAfter, Callers
  <2>. QED
    BY <2>2, <2>3 DEF Leased
<1>5. ASSUME NEW x \in inFlight' PROVE Leased(x[1], x[2])'
  <2>1. x[1] \in Callers /\ x[2] \in 1..MaxAttempts /\ x = <<x[1], x[2]>>
    BY <1>1, <1>5 DEF WorldTypes
  <2>. QED
    BY <1>3, <1>5, <2>1 DEF NeededAfter
<1>6. Cardinality({s \in Slots : OfResolver(slot'[s])}) <= MaxResolver
  BY <1>1, ResolverSlotsStep DEF ResolverSlots, OfResolver, Taken, OpOf
<1>. QED
  BY <1>2, <1>4, <1>5, <1>6 DEF SlotsAgree, OfResolver, Taken, OpOf
-----------------------------------------------------------------------------
(* The invariant holds at first, and every step keeps it. *)
LEMMA InitAiInv ==
    ASSUME AiInit
    PROVE  AiInv
<1> USE AiAssumption
<1>1. Types
  <2>1. JobTypes /\ LedgerTypes /\ WorldTypes
    BY DEF AiInit, JobTypes, LedgerTypes, WorldTypes, Row
  <2>2. BudgetTypes
    BY DEF AiInit, BudgetTypes, BudgetRow, NoRow
  <2>3. SlotTypes
    BY FreeIsRow DEF AiInit, SlotTypes
  <2>4. CallTypes
    BY DEF AiInit, CallTypes, Answers
  <2>. QED
    BY <2>1, <2>2, <2>3, <2>4 DEF Types
<1>2. CallsAgree
  BY DEF AiInit, CallsAgree, CallAgrees, SentAgrees, Setup, Answering
<1>3. RowsAgree /\ ResultsAgree
  BY DEF AiInit, RowsAgree, ResultsAgree
<1>4. ChargesAgree
  BY DEF AiInit, ChargesAgree, Setup
<1>5. EstimatesAgree
  BY DEF AiInit, EstimatesAgree, NoRow
<1>6. SlotsAgree
  <2>1. /\ \A s \in Slots : ~Taken(slot[s])
        /\ \A c \in Calls : pc[c] \notin {"attempt", "dispatch"}
        /\ inFlight = {}
    BY FreeIsRow DEF AiInit
  <2>2. {s \in Slots : OfResolver(slot[s])} = {}
    BY <2>1 DEF OfResolver
  <2>3. Cardinality({s \in Slots : OfResolver(slot[s])}) = 0
    BY <2>2, FS_EmptySet
  <2>. QED
    BY <2>1, <2>3 DEF SlotsAgree
<1>. QED
  BY <1>1, <1>2, <1>3, <1>4, <1>5, <1>6, WithinBudgetInit DEF AiInv

(* Every step keeps the invariant. *)
LEMMA NextAiInv ==
    ASSUME AiInv, [AiNext]_vars
    PROVE  AiInv'
<1>1. /\ Types /\ CallsAgree /\ RowsAgree /\ ResultsAgree /\ ChargesAgree /\ EstimatesAgree
      /\ SlotsAgree /\ WithinBudget
  BY DEF AiInv
<1>2. LedgerStep /\ WorldStep /\ BudgetStep
  BY <1>1, LedgerSteps, WorldSteps, BudgetSteps
<1>3. Types'
  BY <1>1, <1>2, CallSteps, LedgerTypeStep, BudgetTypeStep, SlotSteps, WorldTypeStep DEF Types
<1>4. CallsAgree' /\ RowsAgree' /\ ResultsAgree'
  BY <1>1, <1>2, CallsAgreeStep, RowsAgreeStep, ResultsAgreeStep
<1>5. ChargesAgree' /\ EstimatesAgree' /\ WithinBudget'
  BY <1>1, <1>2, ChargesAgreeStep, BudgetTypeStep, WithinBudgetStep
<1>6. SlotsAgree'
  BY <1>1, SlotsAgreeStep
<1>. QED
  BY <1>3, <1>4, <1>5, <1>6 DEF AiInv

(* It holds in every state. *)
LEMMA AlwaysAiInv == AiSpec => []AiInv
<1>1. AiInit => AiInv
  BY InitAiInv
<1>2. AiInv /\ [AiNext]_vars => AiInv'
  BY NextAiInv
<1>. QED
  BY <1>1, <1>2, PTL DEF AiSpec

-----------------------------------------------------------------------------
(* Every state of every run has the types of the model: whatever handlers  *)
(* overlap, crash or lose answers, no operation has more than MaxAttempts  *)
(* rows, and nothing is in flight that was not sent. *)
THEOREM AiTypesHold == AiSpec => []AiTypeOK
<1>1. AiInv => AiTypeOK
  <2> SUFFICES ASSUME AiInv PROVE AiTypeOK
    OBVIOUS
  <2>1. Types /\ ResultsAgree
    BY DEF AiInv
  <2>2. \A o \in Ops : attempts[o] \in Seq(Row) /\ Len(attempts[o]) <= MaxAttempts
                       /\ result[o] \in 0..MaxAttempts
    <3> SUFFICES ASSUME NEW o \in Ops
                 PROVE  attempts[o] \in Seq(Row) /\ Len(attempts[o]) <= MaxAttempts
                        /\ result[o] \in 0..MaxAttempts
      OBVIOUS
    <3>1. attempts[o] \in Seq(Row) /\ Len(attempts[o]) <= MaxAttempts /\ result[o] \in Nat
      BY <2>1 DEF Types, LedgerTypes
    <3>2. Len(attempts[o]) \in Nat
      BY <3>1, LenProperties
    <3>3. result[o] # 0 => result[o] = Len(attempts[o])
      BY <2>1 DEF ResultsAgree
    <3>. QED
      BY <3>1, <3>2, <3>3, AiAssumption
  <2>. QED
    BY <2>1, <2>2
    DEF AiTypeOK, Types, JobTypes, BudgetTypes, BudgetRow, SlotTypes, SlotRow, CallTypes, WorldTypes,
        Row, Statuses, Callers, Answers
<1>. QED
  BY <1>1, AlwaysAiInv, PTL

(* No attempt is sent to the provider twice, and a further attempt only    *)
(* after the one before was turned away.  An attempt that was sent has a   *)
(* row that its handler opened; a row has one opener, and there is none    *)
(* after a row that is open or was answered (reserve in the attempt        *)
(* ledger). *)
THEOREM AttemptsArePaidOnce == AiSpec => []PaidOnce
<1>1. AiInv => PaidOnce
  <2> SUFFICES ASSUME AiInv, NEW x \in sent, NEW y \in sent, Op(x[1]) = Op(y[1])
               PROVE  /\ x[2] = y[2] => x = y
                      /\ x[2] < y[2] => attempts[Op(x[1])][x[2]].status = "rate_limited"
    BY DEF PaidOnce
  <2>1. /\ Types /\ CallsAgree /\ RowsAgree
        /\ x = <<x[1], x[2]>> /\ y = <<y[1], y[2]>> /\ x[2] \in 1..MaxAttempts /\ y[2] \in 1..MaxAttempts
        /\ x[1] \in Calls \cup OtherCalls /\ y[1] \in Calls \cup OtherCalls
    BY DEF AiInv, Types, WorldTypes, Callers
  <2>2. CASE x[1] \in OtherCalls
    <3>1. y[1] \in OtherCalls
      BY <2>1, <2>2, AiAssumption DEF OtherCalls, Calls, Op
    <3>2. x[1] = y[1] /\ x[2] = 1 /\ y[2] = 1
      BY <2>1, <2>2, <3>1 DEF OtherCalls, Op, CallsAgree
    <3>. QED
      BY <2>1, <3>2
  <2>3. CASE x[1] \in Calls
    <3>1. y[1] \in Calls
      BY <2>1, <2>3, AiAssumption DEF OtherCalls, Calls, Op
    <3>2. Opened(x[1], x[2]) /\ Opened(y[1], y[2])
      BY <2>1, <2>3, <3>1 DEF RowsAgree
    <3>3. Op(x[1]) \in Ops /\ x[1] = <<Handler(x[1]), Op(x[1])>> /\ y[1] = <<Handler(y[1]), Op(y[1])>>
      BY <2>3, <3>1 DEF Calls, Op, Handler
    <3>4. x[2] = y[2] => x = y
      BY <2>1, <3>2, <3>3 DEF Opened
    <3>5. x[2] < y[2] => x[2] < Len(attempts[Op(x[1])])
      <4>1. Len(attempts[Op(x[1])]) \in Nat /\ y[2] <= Len(attempts[Op(x[1])])
        BY <2>1, <3>2, <3>3 DEF Opened, Types, LedgerTypes
      <4>. QED
        BY <2>1, <4>1
    <3>. QED
      BY <2>1, <3>2, <3>3, <3>4, <3>5 DEF RowsAgree, Opened
  <2>. QED
    BY <2>1, <2>2, <2>3
<1>. QED
  BY <1>1, AlwaysAiInv, PTL

(* A result is written by the claim that has the job, for an attempt that  *)
(* it sent and had an answer to, with the close of the open row; and there *)
(* is no further row after it (terminalizeSuccess). *)
THEOREM ResultsAreTheHolders == AiSpec => ResultsAreOfTheClaim
<1> DEFINE Written(o) ==
              result'[o] # result[o] =>
                 /\ <<<<holder, o>>, result'[o]>> \in sent \ inFlight
                 /\ attempts[o][result'[o]] = [status |-> "reserved", by |-> holder]
                 /\ attempts'[o][result'[o]].status = "success"
           Kept(o) == result[o] # 0 => attempts'[o] = attempts[o] /\ result'[o] = result[o]
           OfTheClaim ==
              \A o \in Ops :
                 /\ result'[o] # result[o] =>
                       /\ <<<<holder, o>>, result'[o]>> \in sent \ inFlight
                       /\ attempts[o][result'[o]] = [status |-> "reserved", by |-> holder]
                       /\ attempts'[o][result'[o]].status = "success"
                 /\ result[o] # 0 => attempts'[o] = attempts[o] /\ result'[o] = result[o]
<1>1. ASSUME AiInv, [AiNext]_vars, NEW p \in Ops PROVE Written(p) /\ Kept(p)
  <2>1. /\ Types /\ CallsAgree /\ RowsAgree /\ ResultsAgree /\ SlotsAgree
    BY <1>1 DEF AiInv
  <2>2. LedgerStep /\ LedgerTypes
    BY <1>1, <2>1, LedgerSteps DEF Types
  <2>3. ASSUME attempts'[p] = attempts[p], result'[p] = result[p] PROVE Written(p) /\ Kept(p)
    BY <2>3
  <2>4. ASSUME NEW c \in Calls, Opens(c) PROVE Written(p) /\ Kept(p)
    <3>1. Op(c) \in Ops /\ Handler(c) \in Handlers
      BY DEF Op, Handler, Calls
    <3>2. ReserveAttempt(Handler(c), Op(c)) /\ result' = result /\ CanRetry(Op(c))
      BY <2>4 DEF Opens
    <3>3. CASE p # Op(c)
      BY <2>2, <2>3, <3>1, <3>2, <3>3, RowOpened
    <3>4. CASE p = Op(c)
      <4>1. attempts[p] \in Seq(Row) /\ result[p] \in Nat
        BY <2>2 DEF LedgerTypes
      <4>2. DOMAIN attempts[p] = 1..Len(attempts[p]) /\ Len(attempts[p]) \in Nat
        BY <4>1, LenProperties
      <4>3. result[p] # 0 => result[p] = Len(attempts[p]) /\ attempts[p][result[p]].status = "success"
        BY <2>1 DEF ResultsAgree
      <4>4. result[p] = 0
        BY <3>2, <3>4, <4>1, <4>2, <4>3 DEF CanRetry
      <4>. QED
        BY <3>2, <4>4
    <3>. QED
      BY <3>3, <3>4
  <2>5. ASSUME NEW c \in Calls, Closes(c) PROVE Written(p) /\ Kept(p)
    <3>1. /\ Op(c) \in Ops /\ got[c] \in Statuses /\ CloseAs(Op(c), n[c], got[c])
          /\ attempts[Op(c)][n[c]].by = Handler(c)
          /\ result' \in {result, [result EXCEPT ![Op(c)] = n[c]]}
          /\ result' # result => got[c] = "success"
      BY <2>1, <2>5, ClosesIsCloseAs
    <3>2. CASE p # Op(c)
      <4>1. attempts'[p] = attempts[p] /\ result'[p] = result[p]
        BY <2>2, <3>1, <3>2, RowClosedAs DEF LedgerTypes
      <4>. QED
        BY <2>3, <4>1
    <3>3. CASE p = Op(c)
      <4>1. result[p] = 0
        BY <2>1, <3>1, <3>3, OpenIsLast DEF CloseAs
      <4>2. ASSUME result'[p] # result[p]
            PROVE  result'[p] = n[c] /\ got[c] = "success" /\ holder = Handler(c)
        <5>1. result' # result
          BY <4>2
        <5>2. result'[p] = n[c] /\ got[c] = "success"
          BY <2>2, <3>1, <3>3, <4>2, <5>1 DEF LedgerTypes
        <5>3. holder = Handler(c)
          BY <2>5, <5>1 DEF Closes, Terminalize
        <5>. QED
          BY <5>2, <5>3
      <4>3. /\ <<c, n[c]>> \in sent /\ <<c, n[c]>> \notin inFlight
            /\ c = <<Handler(c), Op(c)>>
        BY <2>1, <2>5 DEF Closes, CallsAgree, SentAgrees, Answering, Calls, Handler, Op
      <4>4. attempts'[p][n[c]] = [status |-> got[c], by |-> attempts[p][n[c]].by]
        BY <2>2, <3>1, <3>3, RowClosedAs
      <4>5. attempts[p][n[c]] = [status |-> "reserved", by |-> Handler(c)]
        BY <2>5, <3>3 DEF Closes, Terminalize, IsReserved
      <4>. QED
        BY <3>3, <4>1, <4>2, <4>3, <4>4, <4>5
    <3>. QED
      BY <3>2, <3>3
  <2>6. ASSUME NEW o \in Ops, NEW k \in 1..Len(attempts[o]), CutsOff(o, k)
        PROVE  Written(p) /\ Kept(p)
    <3>1. CloseAs(o, k, "cutoff") /\ "cutoff" \in Statuses /\ result' = result
      BY <2>6 DEF CutsOff, CloseAs, Statuses
    <3>2. CASE p # o
      BY <2>2, <2>3, <3>1, <3>2, RowClosedAs
    <3>3. CASE p = o
      <4>1. result[p] = 0
        BY <2>1, <3>1, <3>3, OpenIsLast DEF CloseAs
      <4>. QED
        BY <3>1, <4>1
    <3>. QED
      BY <3>2, <3>3
  <2>7. ASSUME UNCHANGED ledgerVars PROVE Written(p) /\ Kept(p)
    BY <2>3, <2>7 DEF ledgerVars
  <2>. QED
    BY <2>2, <2>4, <2>5, <2>6, <2>7 DEF LedgerStep
<1>2. AiInv /\ [AiNext]_vars => [OfTheClaim]_vars
  BY <1>1
<1>. QED
  BY <1>2, AlwaysAiInv, PTL DEF AiSpec, ResultsAreOfTheClaim

(* What was written of an attempt, and a result, stay: a row is closed     *)
(* only while it is open, and a result is written only with the close. *)
THEOREM OutcomesStay == AiSpec => OutcomesAreFinal
<1> DEFINE Final ==
      \A o \in Ops :
          /\ \A k \in DOMAIN attempts[o] :
                /\ k \in DOMAIN attempts'[o] /\ attempts'[o][k].by = attempts[o][k].by
                /\ attempts[o][k].status # "reserved" => attempts'[o][k] = attempts[o][k]
          /\ result[o] # 0 => result'[o] = result[o]
<1>1. ASSUME AiInv, [AiNext]_vars PROVE Final
  <2>1. /\ Types /\ CallsAgree /\ RowsAgree /\ ResultsAgree /\ SlotsAgree
    BY <1>1 DEF AiInv
  <2>2. LedgerStep /\ WorldStep
    BY <1>1, <2>1, LedgerSteps, WorldSteps
  <2>3. LedgerTypes /\ LedgerTypes' /\ RowsStay
    BY <2>1, <2>2, LedgerTypeStep DEF Types
  <2>4. \A o \in Ops : result[o] # 0 => result'[o] = result[o]
    BY <2>1, <2>2, ResultsAgreeStep
  <2>5. ASSUME NEW o \in Ops
        PROVE  /\ DOMAIN attempts[o] = 1..Len(attempts[o]) /\ DOMAIN attempts'[o] = 1..Len(attempts'[o])
               /\ Len(attempts[o]) \in Nat /\ Len(attempts'[o]) \in Nat
    BY <2>3 DEF LedgerTypes
  <2>. QED
    BY <2>3, <2>4, <2>5 DEF RowsStay
<1>2. AiInv /\ [AiNext]_vars => [Final]_vars
  BY <1>1
<1>. QED
  BY <1>2, AlwaysAiInv, PTL DEF AiSpec, OutcomesAreFinal

(* No handler takes back the charge of an attempt that it sent itself. *)
THEOREM ChargesStay == AiSpec => []OwnCallsAreCharged
<1>1. AiInv => OwnCallsAreCharged
  <2> SUFFICES ASSUME AiInv, NEW x \in sent
               PROVE  \/ IsCharged(budget[<<Op(x[1]), x[2]>>])
                      \/ budget[<<Op(x[1]), x[2]>>].by # Handler(x[1])
    BY DEF OwnCallsAreCharged
  <2>1. /\ x = <<x[1], x[2]>> /\ x[1] \in Calls \cup OtherCalls /\ x[2] \in 1..MaxAttempts
        /\ CallsAgree /\ ChargesAgree
    BY DEF AiInv, Types, WorldTypes, Callers
  <2>2. CASE x[1] \in Calls
    BY <2>1, <2>2 DEF ChargesAgree, NotTakenBack
  <2>3. CASE x[1] \in OtherCalls
    <3>1. PICK o \in Others : x[1] = <<NoHandler, o>>
      BY <2>3 DEF OtherCalls
    <3>2. x[2] = 1
      BY <2>1, <2>3 DEF CallsAgree
    <3>. QED
      BY <2>1, <3>1, <3>2 DEF ChargesAgree, Op
  <2>. QED
    BY <2>1, <2>2, <2>3
<1>. QED
  BY <1>1, AlwaysAiInv, PTL

(* The charges exceed the limit by no more than what calls cost above      *)
(* their estimates, for any costs and any number of operations. *)
THEOREM BudgetHolds == AiSpec => []WithinBudget
<1>1. AiInv => WithinBudget
  BY DEF AiInv
<1>. QED
  BY <1>1, AlwaysAiInv, PTL

(* Each attempt in flight has a slot of its own, and resolvers have no     *)
(* more calls in flight than their share of the slots. *)
THEOREM SlotsCover == AiSpec => []SlotsCoverCalls
<1>1. AiInv => SlotsCoverCalls
  <2> SUFFICES ASSUME AiInv PROVE SlotsCoverCalls
    OBVIOUS
  <2> DEFINE S == {x \in inFlight : Op(x[1]) \in Resolver}
             T == ResolverSlots
             SlotOf(x) == CHOOSE s \in Slots :
                 Taken(slot[s]) /\ slot[s].owner = x[1] /\ slot[s].attempt = x[2] /\ slot[s].live
             f == [x \in S |-> SlotOf(x)]
  <2>1. \A x \in inFlight : Leased(x[1], x[2])
    BY DEF AiInv, SlotsAgree
  <2>2. ASSUME NEW x \in inFlight
        PROVE  /\ SlotOf(x) \in Slots /\ Taken(slot[SlotOf(x)])
               /\ slot[SlotOf(x)].owner = x[1] /\ slot[SlotOf(x)].attempt = x[2]
    BY <2>1 DEF Leased
  <2>3. ASSUME NEW x \in S PROVE f[x] \in T
    BY <2>2 DEF ResolverSlots, OfResolver, OpOf, Op
  <2>4. ASSUME NEW x \in S, NEW y \in S, f[x] = f[y] PROVE x = y
    <3>1. x[1] = y[1] /\ x[2] = y[2]
      BY <2>2, <2>4
    <3>2. x = <<x[1], x[2]>> /\ y = <<y[1], y[2]>>
      BY DEF AiInv, Types, WorldTypes
    <3>. QED
      BY <3>1, <3>2
  <2>5. f \in Injection(S, T)
    <3> HIDE DEF SlotOf, T
    <3>. QED
      BY <2>3, <2>4 DEF Injection, IsInjective
  <2>6. IsFiniteSet(T) /\ Cardinality(T) <= MaxResolver /\ Cardinality(T) \in Nat
    <3>1. IsFiniteSet(T)
      BY AiAssumption, FS_Subset DEF ResolverSlots
    <3>. QED
      BY <3>1, FS_CardinalityType DEF AiInv, SlotsAgree, ResolverSlots
  <2>7. Cardinality(S) <= Cardinality(T) /\ Cardinality(S) \in Nat
    <3> HIDE DEF S, T, f
    <3>. QED
      BY <2>5, <2>6, FS_Injection, FS_CardinalityType
  <2>8. Cardinality(S) <= MaxResolver
    <3> HIDE DEF S, T
    <3>. QED
      BY <2>6, <2>7, AiAssumption
  <2>. QED
    BY <2>2, <2>8 DEF SlotsCoverCalls
<1>. QED
  BY <1>1, AlwaysAiInv, PTL
=============================================================================
