-------------------------- MODULE AiSchedulerProofs --------------------------
(***************************************************************************)
(* Proofs about AiScheduler, for every set of runs, any number of stages   *)
(* and any limits.                                                         *)
(*                                                                         *)
(* The slots: an operation is named by its place in its queue, so the one  *)
(* that is claimed next is new to the slots as long as everything that     *)
(* holds one has left its queue (SlotsAreTaken).  Each grant then adds one *)
(* operation to the slots and one to the counters, and each release takes  *)
(* one from both.                                                          *)
(*                                                                         *)
(* The waiters: a waiter that is served next after the later stages of its *)
(* run have asked too was next when it asked (NextWhenAsked), so a run     *)
(* that was refused has no waiter that is next, and it stays so until a    *)
(* signal (RefusalStands).  This needs that nobody waits in a stage in     *)
(* which nothing is left to do (WaitersHaveWork), and that the waiters of  *)
(* a run that is over are gone (OverIsOver).                               *)
(***************************************************************************)
EXTENDS AiScheduler, TLAPS, FiniteSetTheorems

Operations == Runs \X StageIds \X Int

SlotTypes ==
    /\ activeTotal \in Int /\ activeByStage \in [StageIds -> Int]
    /\ pc \in [Runs -> Points] /\ cursor \in [Runs -> Nat]
    /\ queue \in [Runs -> [StageIds -> Int]]
    /\ claimed \subseteq Operations /\ active \subseteq Operations
    /\ IsFiniteSet(claimed) /\ IsFiniteSet(active)

(* What holds a slot is not in its queue any more, except for the one      *)
(* operation that its run is claiming.                                     *)
SlotsAreTaken ==
    /\ \A t \in active : t[3] > queue[t[1]][t[2]]
    /\ \A t \in claimed : t[3] = queue[t[1]][t[2]] /\ pc[t[1]] = "claim"
    /\ \A t, u \in claimed : t[1] = u[1] => t = u

(* The inductive invariant of the slots. *)
SlotInv == SlotTypes /\ SlotsAreTaken /\ CountersAgree

(* A set gains one element. *)
LEMMA OneMore ==
    ASSUME NEW S, IsFiniteSet(S), NEW t, t \notin S
    PROVE  /\ IsFiniteSet(S \cup {t})
           /\ Cardinality(S \cup {t}) = Cardinality(S) + 1
  BY FS_AddElement

(* A set loses one element. *)
LEMMA OneLess ==
    ASSUME NEW S, IsFiniteSet(S), NEW t \in S
    PROVE  /\ IsFiniteSet(S \ {t})
           /\ Cardinality(S \ {t}) = Cardinality(S) - 1
  BY FS_RemoveElement

(* The slots, and those of a stage, are finitely many. *)
LEMMA SlotsFinite ==
    ASSUME IsFiniteSet(claimed), IsFiniteSet(active)
    PROVE  /\ IsFiniteSet(Slots)
           /\ \A s \in StageIds : IsFiniteSet(HeldIn(s))
  <1>1. IsFiniteSet(Slots)
    BY FS_Union DEF Slots
  <1>2. ASSUME NEW s \in StageIds PROVE IsFiniteSet(HeldIn(s))
    <2>1. HeldIn(s) \subseteq Slots
      BY DEF HeldIn
    <2> QED BY <1>1, <2>1, FS_Subset
  <1> QED BY <1>1, <1>2

(* A grant keeps the counters and the slots together. *)
LEMMA GrantCounts ==
    ASSUME CountersAgree, SlotTypes, SchedulerAssumption,
           NEW s \in StageIds, NEW t, t[2] = s, t \notin Slots, CanAcquire(s),
           activeTotal' = activeTotal + 1,
           activeByStage' = [activeByStage EXCEPT ![s] = @ + 1],
           Slots' = Slots \cup {t}
    PROVE  CountersAgree'
  <1>1. IsFiniteSet(Slots) /\ \A x \in StageIds : IsFiniteSet(HeldIn(x))
    BY SlotsFinite DEF SlotTypes
  <1>2. activeTotal' = Cardinality(Slots)' /\ activeTotal' <= SharedCap
    <2>1. Cardinality(Slots \cup {t}) = Cardinality(Slots) + 1
      BY <1>1, OneMore
    <2> QED BY <2>1 DEF CountersAgree, CanAcquire, SlotTypes, SchedulerAssumption
  <1>3. ASSUME NEW x \in StageIds
        PROVE  activeByStage'[x] = Cardinality(HeldIn(x))' /\ activeByStage'[x] <= StageCap[x]
    <2>1. CASE x = s
      <3>1. HeldIn(x)' = HeldIn(x) \cup {t} /\ t \notin HeldIn(x)
        BY <2>1 DEF HeldIn
      <3>2. Cardinality(HeldIn(x) \cup {t}) = Cardinality(HeldIn(x)) + 1
        BY <1>1, <3>1, OneMore
      <3>3. activeByStage'[x] = activeByStage[x] + 1
        BY <2>1 DEF SlotTypes
      <3>4. activeByStage[x] = Cardinality(HeldIn(x)) /\ activeByStage[x] < StageCap[x]
        BY <2>1 DEF CountersAgree, CanAcquire
      <3>5. activeByStage[x] \in Int /\ StageCap[x] \in Int
        BY DEF SlotTypes, SchedulerAssumption
      <3> QED BY <3>1, <3>2, <3>3, <3>4, <3>5
    <2>2. CASE x # s
      <3>1. HeldIn(x)' = HeldIn(x)
        BY <2>2 DEF HeldIn
      <3>2. activeByStage'[x] = activeByStage[x]
        BY <2>2 DEF SlotTypes
      <3> QED BY <3>1, <3>2 DEF CountersAgree
    <2> QED BY <2>1, <2>2
  <1> QED BY <1>2, <1>3 DEF CountersAgree

(* A release keeps the counters and the slots together. *)
LEMMA ReleaseCounts ==
    ASSUME CountersAgree, SlotTypes, SchedulerAssumption,
           NEW t \in Slots, t[2] \in StageIds, Release(t[2]), Slots' = Slots \ {t}
    PROVE  CountersAgree'
  <1>1. IsFiniteSet(Slots) /\ \A x \in StageIds : IsFiniteSet(HeldIn(x))
    BY SlotsFinite DEF SlotTypes
  <1>2. activeTotal' = Cardinality(Slots)' /\ activeTotal' <= SharedCap
    <2>1. Cardinality(Slots \ {t}) = Cardinality(Slots) - 1
      BY <1>1, OneLess
    <2> QED BY <2>1 DEF CountersAgree, Release, SlotTypes, SchedulerAssumption
  <1>3. ASSUME NEW x \in StageIds
        PROVE  activeByStage'[x] = Cardinality(HeldIn(x))' /\ activeByStage'[x] <= StageCap[x]
    <2>0. /\ activeByStage[x] = Cardinality(HeldIn(x)) /\ activeByStage[x] <= StageCap[x]
          /\ activeByStage[x] \in Int /\ StageCap[x] \in Int
      BY DEF CountersAgree, SlotTypes, SchedulerAssumption
    <2>1. CASE x = t[2]
      <3>1. HeldIn(x)' = HeldIn(x) \ {t} /\ t \in HeldIn(x)
        BY <2>1 DEF HeldIn
      <3>2. Cardinality(HeldIn(x) \ {t}) = Cardinality(HeldIn(x)) - 1
        BY <1>1, <3>1, OneLess
      <3>3. activeByStage'[x] = activeByStage[x] - 1
        BY <2>1 DEF SlotTypes, Release
      <3> QED BY <2>0, <3>1, <3>2, <3>3
    <2>2. CASE x # t[2]
      <3>1. HeldIn(x)' = HeldIn(x)
        BY <2>2 DEF HeldIn
      <3>2. activeByStage'[x] = activeByStage[x]
        BY <2>2 DEF SlotTypes, Release
      <3> QED BY <2>0, <3>1, <3>2
    <2> QED BY <2>1, <2>2
  <1> QED BY <1>2, <1>3 DEF CountersAgree

(* Slots and counters that stay are still together. *)
LEMMA SameCounts ==
    ASSUME CountersAgree, UNCHANGED <<activeTotal, activeByStage>>, Slots' = Slots
    PROVE  CountersAgree'
  BY DEF CountersAgree, HeldIn

(* The stage at an offset from a cursor is one of the stages. *)
LEMMA StagesRotate ==
    ASSUME SchedulerAssumption
    PROVE  /\ \A a \in Nat : a % NStages \in StageIds
           /\ StageIds \subseteq Nat
  BY DEF SchedulerAssumption, StageIds

(* The invariant holds initially. *)
LEMMA SlotInit == ASSUME SchedulerAssumption, SchedulerInit PROVE SlotInv
  <1>1. claimed = {} /\ active = {} /\ Slots = {} /\ IsFiniteSet({}) /\ Cardinality({}) = 0
    BY FS_EmptySet DEF SchedulerInit, Slots
  <1>2. SlotTypes
    <2>1. Need \in [Runs -> [StageIds -> Int]]
      BY DEF SchedulerAssumption
    <2>2. pc \in [Runs -> Points]
      BY DEF SchedulerInit, Points
    <2> QED BY <1>1, <2>1, <2>2 DEF SchedulerInit, SlotTypes
  <1>3. SlotsAreTaken
    BY <1>1 DEF SlotsAreTaken
  <1>4. CountersAgree
    <2>1. \A s \in StageIds : HeldIn(s) = {}
      BY <1>1 DEF HeldIn
    <2>2. \A s \in StageIds : activeByStage[s] = 0 /\ 0 <= StageCap[s]
      BY DEF SchedulerInit, SchedulerAssumption
    <2>3. activeTotal = 0 /\ 0 <= SharedCap
      BY DEF SchedulerInit, SchedulerAssumption
    <2> QED BY <1>1, <2>1, <2>2, <2>3 DEF CountersAgree
  <1> QED BY <1>2, <1>3, <1>4 DEF SlotInv

(* A step that leaves queues and slots alone, and no claim behind. *)
LEMMA SlotsStay ==
    ASSUME SlotInv, UNCHANGED <<activeTotal, activeByStage, queue, cursor, claimed, active>>,
           pc' \in [Runs -> Points], \A r \in Runs : pc[r] = "claim" => pc'[r] = "claim"
    PROVE  SlotInv'
  <1>1. SlotTypes'
    BY DEF SlotInv, SlotTypes
  <1>2. SlotsAreTaken'
    BY DEF SlotInv, SlotTypes, SlotsAreTaken, Operations
  <1>3. CountersAgree'
    BY SameCounts DEF SlotInv, Slots
  <1> QED BY <1>1, <1>2, <1>3 DEF SlotInv

(* Waking the sleepers disturbs no claim. *)
LEMMA SignalKeepsClaims ==
    ASSUME SlotTypes, NEW r \in Runs, NEW point \in Points
    PROVE  /\ Signalled \in [Runs -> Points]
           /\ [Signalled EXCEPT ![r] = point] \in [Runs -> Points]
           /\ [pc EXCEPT ![r] = point] \in [Runs -> Points]
           /\ \A x \in Runs : pc[x] = "claim" => Signalled[x] = "claim"
           /\ \A x \in Runs : x # r /\ pc[x] = "claim" =>
                 [Signalled EXCEPT ![r] = point][x] = "claim" /\ [pc EXCEPT ![r] = point][x] = "claim"
           /\ [Signalled EXCEPT ![r] = point][r] = point /\ [pc EXCEPT ![r] = point][r] = point
  <1>1. pc \in [Runs -> Points]
    BY DEF SlotTypes
  <1>2. Signalled \in [Runs -> Points]
    BY <1>1 DEF Signalled, Points
  <1>3. \A x \in Runs : pc[x] = "claim" => Signalled[x] = "claim"
    BY DEF Signalled
  <1> QED BY <1>1, <1>2, <1>3

(* A grant: the operation is new to the slots. *)
LEMMA AcquireKeeps ==
    ASSUME SchedulerAssumption, SlotInv, NEW r \in Runs, Acquire(r)
    PROVE  SlotInv'
  <1>1. PICK s \in Grants(r) :
            /\ activeTotal' = activeTotal + 1
            /\ activeByStage' = [activeByStage EXCEPT ![s] = @ + 1]
            /\ claimed' = claimed \cup {First(r, s)}
    BY DEF Acquire
  <1> DEFINE t == First(r, s)
  <1>2. s \in StageIds /\ CanAcquire(s)
    BY DEF Grants, Tries
  <1>3. /\ t \in Operations /\ t[1] = r /\ t[2] = s /\ t[3] = queue[r][s]
    BY <1>2 DEF First, Operations, SlotInv, SlotTypes
  <1>4. pc[r] # "claim"
    BY DEF Acquire, Trying, At
  <1>5. /\ pc' = [Signalled EXCEPT ![r] = "claim"]
        /\ active' = active /\ queue' = queue /\ cursor' = cursor
    BY DEF Acquire
  <1>6. t \notin Slots
    <2>1. t \notin active
      <3>1. queue[r][s] \in Int
        BY <1>2 DEF SlotInv, SlotTypes
      <3> QED BY <1>3, <3>1 DEF SlotInv, SlotsAreTaken
    <2>2. t \notin claimed
      BY <1>3, <1>4 DEF SlotInv, SlotsAreTaken
    <2> QED BY <2>1, <2>2 DEF Slots
  <1>7. SlotTypes'
    <2>1. IsFiniteSet(claimed')
      BY <1>1, FS_AddElement DEF SlotInv, SlotTypes
    <2>2. activeTotal' \in Int /\ activeByStage' \in [StageIds -> Int]
      BY <1>1, <1>2 DEF SlotInv, SlotTypes
    <2>3. pc' \in [Runs -> Points]
      BY <1>5, SignalKeepsClaims DEF SlotInv, Points
    <2>4. claimed' \subseteq Operations
      BY <1>1, <1>3 DEF SlotInv, SlotTypes
    <2> QED BY <1>5, <2>1, <2>2, <2>3, <2>4 DEF SlotInv, SlotTypes
  <1>8. SlotsAreTaken'
    <2>1. \A u \in active' : u[3] > queue'[u[1]][u[2]]
      BY <1>5 DEF SlotInv, SlotsAreTaken
    <2>2. \A u \in claimed : u[1] \in Runs /\ u[1] # r
      BY <1>4 DEF SlotInv, SlotTypes, SlotsAreTaken, Operations
    <2>3. \A u \in claimed' : u[3] = queue'[u[1]][u[2]] /\ pc'[u[1]] = "claim"
      <3>1. ASSUME NEW u \in claimed PROVE u[3] = queue'[u[1]][u[2]] /\ pc'[u[1]] = "claim"
        <4>1. pc[u[1]] = "claim" /\ u[3] = queue[u[1]][u[2]]
          BY DEF SlotInv, SlotsAreTaken
        <4> QED BY <4>1, <1>5, <2>2, SignalKeepsClaims DEF SlotInv, Points
      <3>2. t[3] = queue'[t[1]][t[2]] /\ pc'[t[1]] = "claim"
        BY <1>3, <1>5, SignalKeepsClaims DEF SlotInv, Points
      <3> QED BY <1>1, <3>1, <3>2
    <2>4. \A u, v \in claimed' : u[1] = v[1] => u = v
      BY <1>1, <1>3, <2>2 DEF SlotInv, SlotsAreTaken
    <2> QED BY <2>1, <2>3, <2>4 DEF SlotsAreTaken
  <1>9. CountersAgree'
    <2>1. Slots' = Slots \cup {t}
      BY <1>1, <1>5 DEF Slots
    <2> QED BY <1>1, <1>2, <1>3, <1>6, <2>1, GrantCounts DEF SlotInv
  <1> QED BY <1>7, <1>8, <1>9 DEF SlotInv

(* The answer to a claim: the operation leaves its queue, unless the claim *)
(* failed, and its slot, unless it is executed.                            *)
LEMMA ClaimAnswerKeeps ==
    ASSUME SchedulerAssumption, SlotInv, NEW t \in claimed, ClaimAnswer(t)
    PROVE  SlotInv'
  <1>1. /\ t \in Operations /\ t[1] \in Runs /\ t[2] \in StageIds /\ t[3] \in Int
        /\ t[3] = queue[t[1]][t[2]] /\ t \in Slots /\ t \notin active
        /\ \A u \in claimed : u[1] = t[1] => u = t
    <2>1. t \in Operations
      BY DEF SlotInv, SlotTypes
    <2>2. t[1] \in Runs /\ t[2] \in StageIds /\ t[3] \in Int
      BY <2>1 DEF Operations
    <2>3. t[3] = queue[t[1]][t[2]] /\ \A u \in claimed : u[1] = t[1] => u = t
      BY DEF SlotInv, SlotsAreTaken
    <2>4. t \notin active
      <3>1. queue[t[1]][t[2]] \in Int
        BY <2>2 DEF SlotInv, SlotTypes
      <3> QED BY <2>3, <3>1 DEF SlotInv, SlotsAreTaken
    <2> QED BY <2>1, <2>2, <2>3, <2>4 DEF Slots
  <1>2. claimed' = claimed \ {t} /\ IsFiniteSet(claimed')
    <2>1. claimed' = claimed \ {t}
      BY DEF ClaimAnswer, ClaimFails, ClaimDeferred, ClaimReady, ClaimExecute, Handled
    <2> QED BY <2>1, FS_RemoveElement DEF SlotInv, SlotTypes
  <1>3. /\ queue' \in [Runs -> [StageIds -> Int]]
        /\ \A r \in Runs, s \in StageIds : queue'[r][s] <= queue[r][s]
        /\ \A r \in Runs, s \in StageIds : r # t[1] => queue'[r][s] = queue[r][s]
    <2>1. queue' = queue \/ queue' = [queue EXCEPT ![t[1]][t[2]] = @ - 1]
      BY DEF ClaimAnswer, ClaimFails, ClaimDeferred, ClaimReady, ClaimExecute, Handled
    <2>2. queue \in [Runs -> [StageIds -> Int]]
      BY DEF SlotInv, SlotTypes
    <2>3. CASE queue' = queue
      BY <2>2, <2>3
    <2>4. CASE queue' = [queue EXCEPT ![t[1]][t[2]] = @ - 1]
      <3> DEFINE row == [queue[t[1]] EXCEPT ![t[2]] = @ - 1]
      <3>1. row \in [StageIds -> Int] /\ \A s \in StageIds : row[s] <= queue[t[1]][s]
        BY <1>1, <2>2
      <3>2. queue' = [queue EXCEPT ![t[1]] = row]
        BY <2>4
      <3> HIDE DEF row
      <3>3. queue' \in [Runs -> [StageIds -> Int]]
        BY <1>1, <2>2, <3>1, <3>2
      <3>4. ASSUME NEW r \in Runs, NEW s \in StageIds
            PROVE  queue'[r][s] <= queue[r][s] /\ (r # t[1] => queue'[r][s] = queue[r][s])
        <4>1. queue'[r] = IF r = t[1] THEN row ELSE queue[r]
          BY <1>1, <2>2, <3>2
        <4>2. queue[r][s] \in Int
          BY <2>2
        <4> QED BY <3>1, <4>1, <4>2
      <3> QED BY <3>3, <3>4
    <2> QED BY <2>1, <2>3, <2>4
  <1>4. cursor' \in [Runs -> Nat]
    <2>1. (t[2] + 1) % NStages \in Nat
      BY <1>1, StagesRotate DEF SchedulerAssumption
    <2>2. cursor' = cursor \/ cursor' = [cursor EXCEPT ![t[1]] = (t[2] + 1) % NStages]
      BY DEF ClaimAnswer, ClaimFails, ClaimDeferred, ClaimReady, ClaimExecute
    <2> QED BY <1>1, <2>1, <2>2 DEF SlotInv, SlotTypes
  <1>5. pc' \in [Runs -> Points] /\ \A x \in Runs : x # t[1] /\ pc[x] = "claim" => pc'[x] = "claim"
    <2>1. \/ pc' = [Signalled EXCEPT ![t[1]] = "over"]
          \/ pc' = [Signalled EXCEPT ![t[1]] = "admit"]
          \/ pc' = [pc EXCEPT ![t[1]] = "admit"]
      BY DEF ClaimAnswer, ClaimFails, ClaimDeferred, ClaimReady, ClaimExecute
    <2>2. "over" \in Points /\ "admit" \in Points /\ SlotTypes
      BY DEF Points, SlotInv
    <2>3. ASSUME NEW point \in Points,
                 pc' = [Signalled EXCEPT ![t[1]] = point] \/ pc' = [pc EXCEPT ![t[1]] = point]
          PROVE  /\ pc' \in [Runs -> Points]
                 /\ \A x \in Runs : x # t[1] /\ pc[x] = "claim" => pc'[x] = "claim"
      BY <1>1, <2>2, <2>3, SignalKeepsClaims
    <2> QED BY <2>1, <2>2, <2>3
  <1>6. \A u \in claimed' :
            /\ u[3] = queue'[u[1]][u[2]] /\ pc'[u[1]] = "claim"
            /\ \A v \in claimed' : u[1] = v[1] => u = v
    <2> SUFFICES ASSUME NEW u \in claimed'
                 PROVE  /\ u[3] = queue'[u[1]][u[2]] /\ pc'[u[1]] = "claim"
                        /\ \A v \in claimed' : u[1] = v[1] => u = v
      OBVIOUS
    <2>1. u \in claimed /\ u[1] \in Runs /\ u[2] \in StageIds /\ u[1] # t[1]
      BY <1>1, <1>2 DEF SlotInv, SlotTypes, Operations
    <2>2. u[3] = queue[u[1]][u[2]] /\ pc[u[1]] = "claim"
      BY <2>1 DEF SlotInv, SlotsAreTaken
    <2>3. \A v \in claimed' : u[1] = v[1] => u = v
      BY <2>1, <1>2 DEF SlotInv, SlotsAreTaken
    <2> QED BY <1>3, <1>5, <2>1, <2>2, <2>3
  <1>7. CASE ClaimExecute(t)
    <2>1. /\ active' = active \cup {t} /\ UNCHANGED <<activeTotal, activeByStage>>
          /\ queue' = [queue EXCEPT ![t[1]][t[2]] = @ - 1]
      BY <1>7 DEF ClaimExecute, Handled, arbiterVars
    <2>2. SlotTypes'
      <3>1. IsFiniteSet(active')
        BY <2>1, FS_AddElement DEF SlotInv, SlotTypes
      <3>2. claimed' \subseteq Operations /\ active' \subseteq Operations
        BY <1>1, <1>2, <2>1 DEF SlotInv, SlotTypes
      <3> QED BY <1>2, <1>3, <1>4, <1>5, <2>1, <3>1, <3>2 DEF SlotInv, SlotTypes
    <2>3. \A u \in active' : u[3] > queue'[u[1]][u[2]]
      <3>1. t[3] > queue'[t[1]][t[2]]
        BY <1>1, <2>1 DEF SlotInv, SlotTypes
      <3>2. ASSUME NEW u \in active PROVE u[3] > queue'[u[1]][u[2]]
        <4>1. u[1] \in Runs /\ u[2] \in StageIds /\ u[3] \in Int
          BY DEF SlotInv, SlotTypes, Operations
        <4>2. u[3] > queue[u[1]][u[2]] /\ queue[u[1]][u[2]] \in Int /\ queue'[u[1]][u[2]] \in Int
          BY <1>3, <4>1 DEF SlotInv, SlotTypes, SlotsAreTaken
        <4> QED BY <1>3, <4>1, <4>2
      <3> QED BY <2>1, <3>1, <3>2
    <2>4. CountersAgree'
      <3>1. Slots' = Slots
        BY <1>2, <2>1 DEF Slots
      <3> QED BY <2>1, <3>1, SameCounts DEF SlotInv
    <2> QED BY <1>6, <2>2, <2>3, <2>4 DEF SlotInv, SlotsAreTaken
  <1>8. CASE ClaimFails(t) \/ ClaimDeferred(t) \/ ClaimReady(t)
    <2>1. active' = active /\ Release(t[2])
      BY <1>8 DEF ClaimFails, ClaimDeferred, ClaimReady
    <2>2. SlotTypes'
      <3>1. activeTotal' \in Int /\ activeByStage' \in [StageIds -> Int]
        BY <1>1, <2>1 DEF Release, SlotInv, SlotTypes
      <3> QED BY <1>2, <1>3, <1>4, <1>5, <2>1, <3>1 DEF SlotInv, SlotTypes
    <2>3. \A u \in active' : u[3] > queue'[u[1]][u[2]]
      <3> SUFFICES ASSUME NEW u \in active PROVE u[3] > queue'[u[1]][u[2]]
        BY <2>1
      <3>1. u[1] \in Runs /\ u[2] \in StageIds /\ u[3] \in Int
        BY DEF SlotInv, SlotTypes, Operations
      <3>2. u[3] > queue[u[1]][u[2]] /\ queue[u[1]][u[2]] \in Int /\ queue'[u[1]][u[2]] \in Int
        BY <1>3, <3>1 DEF SlotInv, SlotTypes, SlotsAreTaken
      <3> QED BY <1>3, <3>1, <3>2
    <2>4. CountersAgree'
      <3>1. Slots' = Slots \ {t}
        BY <1>1, <1>2, <2>1 DEF Slots
      <3> QED BY <1>1, <2>1, <3>1, ReleaseCounts DEF SlotInv
    <2> QED BY <1>6, <2>2, <2>3, <2>4 DEF SlotInv, SlotsAreTaken
  <1> QED BY <1>7, <1>8 DEF ClaimAnswer

(* The end of an operation gives its slot back. *)
LEMMA OperationEndsKeeps ==
    ASSUME SchedulerAssumption, SlotInv, NEW t \in active, OperationEnds(t)
    PROVE  SlotInv'
  <1>1. /\ active' = active \ {t} /\ Release(t[2])
        /\ UNCHANGED <<queue, cursor, claimed>>
    BY DEF OperationEnds, Finish, FinishRejected, Settle
  <1>2. t \in Operations /\ t[1] \in Runs /\ t[2] \in StageIds /\ t \in Slots /\ t \notin claimed
    <2>1. t \in Operations
      BY DEF SlotInv, SlotTypes
    <2>2. t[1] \in Runs /\ t[2] \in StageIds /\ t[3] \in Int
      BY <2>1 DEF Operations
    <2>3. t \notin claimed
      <3>1. queue[t[1]][t[2]] \in Int
        BY <2>2 DEF SlotInv, SlotTypes
      <3> QED BY <2>2, <3>1 DEF SlotInv, SlotsAreTaken
    <2> QED BY <2>1, <2>2, <2>3 DEF Slots
  <1>3. pc' \in [Runs -> Points] /\ \A x \in Runs : pc[x] = "claim" => pc'[x] = "claim"
    <2>1. /\ Signalled \in [Runs -> Points] /\ {"top", "over"} \subseteq Points
          /\ \A x \in Runs : pc[x] = "claim" => Signalled[x] = "claim"
      BY <1>2, SignalKeepsClaims DEF SlotInv, Points
    <2>2. \/ pc' = Signalled
          \/ pc' = [Signalled EXCEPT ![t[1]] = IF @ = "race" THEN "top" ELSE @]
          \/ pc' = [Signalled EXCEPT ![t[1]] = "over"] /\ pc[t[1]] = "race"
      BY DEF OperationEnds, Finish, FinishRejected, At
    <2> QED BY <1>2, <2>1, <2>2
  <1>4. SlotTypes'
    <2>1. IsFiniteSet(active')
      BY <1>1, FS_RemoveElement DEF SlotInv, SlotTypes
    <2>2. activeTotal' \in Int /\ activeByStage' \in [StageIds -> Int]
      BY <1>1, <1>2 DEF Release, SlotInv, SlotTypes
    <2> QED BY <1>1, <1>3, <2>1, <2>2 DEF SlotInv, SlotTypes
  <1>5. SlotsAreTaken'
    <2>1. \A u \in claimed : u[1] \in Runs
      BY DEF SlotInv, SlotTypes, Operations
    <2> QED BY <1>1, <1>3, <2>1 DEF SlotInv, SlotsAreTaken
  <1>6. CountersAgree'
    <2>1. Slots' = Slots \ {t}
      BY <1>1, <1>2 DEF Slots
    <2> QED BY <1>1, <1>2, <2>1, ReleaseCounts DEF SlotInv
  <1> QED BY <1>4, <1>5, <1>6 DEF SlotInv

(* The other steps of a run move neither slots nor queues. *)
LEMMA OtherStepsKeep ==
    ASSUME SlotInv, NEW r \in Runs,
           \/ Refused(r) \/ Race(r) \/ GiveUp(r) \/ GoOn(r) \/ Complete(r) \/ Park(r) \/ Cutoff(r)
           \/ TimePasses(r)
    PROVE  SlotInv'
  <1>1. UNCHANGED <<activeTotal, activeByStage, queue, cursor, claimed, active>>
    BY DEF Refused, Race, GiveUp, GoOn, Complete, Park, Cutoff, TimePasses, arbiterVars, slotVars
  <1>2. pc[r] # "claim" \/ pc' = pc
    BY DEF Refused, Race, GiveUp, GoOn, Complete, Park, Cutoff, TimePasses, Trying, At
  <1>3. \/ pc' = pc
        \/ \E point \in Points : pc' = [pc EXCEPT ![r] = point] \/ pc' = [Signalled EXCEPT ![r] = point]
    <2>1. CASE Refused(r)
      <3>1. \E points : /\ points = pc \/ points = Signalled
                        /\ pc' = [points EXCEPT ![r] = IF At(r, "top") THEN "refused" ELSE "handled"]
        BY <2>1 DEF Refused
      <3>2. (IF At(r, "top") THEN "refused" ELSE "handled") \in Points
        BY DEF Points
      <3> QED BY <3>1, <3>2
    <2>2. CASE GiveUp(r) \/ Complete(r) \/ Cutoff(r)
      <3>1. pc' = [pc EXCEPT ![r] = "over"] \/ pc' = [Signalled EXCEPT ![r] = "over"]
        BY <2>2 DEF GiveUp, Complete, Cutoff, End
      <3> QED BY <3>1 DEF Points
    <2>3. CASE Race(r)
      BY <2>3 DEF Race, Points
    <2>4. CASE GoOn(r)
      BY <2>4 DEF GoOn, Points
    <2>5. CASE Park(r)
      <3>1. pc' = [pc EXCEPT ![r] = IF unchanged[r] THEN "asleep" ELSE "top"]
        BY <2>5 DEF Park
      <3>2. (IF unchanged[r] THEN "asleep" ELSE "top") \in Points
        BY DEF Points
      <3> QED BY <3>1, <3>2
    <2>6. CASE TimePasses(r)
      BY <2>6 DEF TimePasses
    <2> QED BY <2>1, <2>2, <2>3, <2>4, <2>5, <2>6
  <1>4. pc' \in [Runs -> Points] /\ \A x \in Runs : pc[x] = "claim" => pc'[x] = "claim"
    <2>1. SlotTypes /\ pc \in [Runs -> Points]
      BY DEF SlotInv, SlotTypes
    <2>2. ASSUME NEW point \in Points,
                 pc' = [pc EXCEPT ![r] = point] \/ pc' = [Signalled EXCEPT ![r] = point],
                 pc[r] # "claim"
          PROVE  /\ pc' \in [Runs -> Points]
                 /\ \A x \in Runs : pc[x] = "claim" => pc'[x] = "claim"
      BY <2>1, <2>2, SignalKeepsClaims
    <2> QED BY <1>2, <1>3, <2>1, <2>2
  <1> QED BY <1>1, <1>4, SlotsStay

(* Every step preserves the invariant. *)
LEMMA SlotStep == ASSUME SchedulerAssumption, SlotInv, [SchedulerNext]_vars PROVE SlotInv'
  <1>1. ASSUME NEW r \in Runs, Acquire(r) PROVE SlotInv'
    BY <1>1, AcquireKeeps
  <1>2. ASSUME NEW r \in Runs,
               \/ Refused(r) \/ Race(r) \/ GiveUp(r) \/ GoOn(r) \/ Complete(r) \/ Park(r)
               \/ Cutoff(r) \/ TimePasses(r)
        PROVE  SlotInv'
    BY <1>2, OtherStepsKeep
  <1>3. ASSUME NEW t \in claimed, ClaimAnswer(t) PROVE SlotInv'
    BY <1>3, ClaimAnswerKeeps
  <1>4. ASSUME NEW t \in active, OperationEnds(t) PROVE SlotInv'
    BY <1>4, OperationEndsKeeps
  <1>5. CASE UNCHANGED vars
    <2>1. UNCHANGED <<activeTotal, activeByStage, queue, cursor, claimed, active, pc>>
      BY <1>5 DEF vars, arbiterVars, runVars, slotVars
    <2> QED BY <2>1, SlotsStay DEF SlotInv, SlotTypes
  <1> QED BY <1>1, <1>2, <1>3, <1>4, <1>5 DEF SchedulerNext, RunStep

(* SlotInv holds in every reachable state, for all runs, stages and limits. *)
THEOREM SlotInvariant == SchedulerSpec => []SlotInv
  <1>1. SchedulerInit => SlotInv
    BY SlotInit, SchedulerAssumption
  <1>2. SlotInv /\ [SchedulerNext]_vars => SlotInv'
    BY SlotStep, SchedulerAssumption
  <1> QED BY <1>1, <1>2, PTL DEF SchedulerSpec

(* The counters of the arbiter always agree with the slots that are held,  *)
(* and no limit is exceeded (tryAcquire, release).                         *)
THEOREM CountersHold == SchedulerSpec => []CountersAgree
  <1>1. SlotInv => CountersAgree
    BY DEF SlotInv
  <1> QED BY <1>1, SlotInvariant, PTL

-----------------------------------------------------------------------------
(* The runs and their waiters.                                             *)

RunTypes ==
    /\ queue \in [Runs -> [StageIds -> Nat]] /\ stageCursor \in StageIds
    /\ late \in [Runs -> BOOLEAN] /\ unchanged \in [Runs -> BOOLEAN]
    /\ outcome \in [Runs -> {"none", "completed", "continuation", "failed"}]
    /\ DOMAIN pending \subseteq Waiters

(* Who waits has something to do in the stage; who claims waits no more.   *)
WaitersHaveWork ==
    /\ \A w \in DOMAIN pending : queue[w[1]][w[2]] > 0
    /\ \A t \in claimed : queue[t[1]][t[2]] > 0 /\ <<t[1], t[2]>> \notin DOMAIN pending

(* A run that is over waits for nothing, and only it has an outcome.       *)
OverIsOver ==
    \A r \in Runs :
        /\ pc[r] = "over" => \A s \in StageIds : <<r, s>> \notin DOMAIN pending
        /\ outcome[r] # "none" => pc[r] = "over"

(* As long as nothing has changed since a run was refused, it would be     *)
(* refused again; and only such a run sleeps.                              *)
RefusalStands ==
    \A r \in Runs :
        /\ pc[r] = "asleep" => unchanged[r]
        /\ unchanged[r] => \A s \in StageIds : ~IsNext(<<r, s>>, pending)

(* The inductive invariant of the runs, beside SlotInv. *)
RunInv ==
    RunTypes /\ WaitersHaveWork /\ OverIsOver /\ RefusalStands /\ NoEarlyContinuation

(* What the names of the arbiter's helpers say of a map of waiters.        *)
LEMMA WaitersMove ==
    /\ \A p, W : /\ DOMAIN Without(p, W) = DOMAIN p \ W
                 /\ \A w \in DOMAIN p \ W : Without(p, W)[w] = p[w] \ W
    /\ \A r, stages : DOMAIN Asked(r, stages) = DOMAIN pending \cup ({r} \X stages)
    /\ \A r : DOMAIN Cancelled(r) = DOMAIN pending \ ({r} \X StageIds)
  BY DEF Without, Asked, Cancelled

(* What a run asks for are stages in which it has something to do. *)
LEMMA AsksAreTries ==
    \A r : /\ Tries(r) \subseteq StageIds /\ \A s \in Tries(r) : queue[r][s] > 0
           /\ \A s : Asks(r, s) \subseteq Tries(r)
  BY DEF Asks, Tries

(* The step of one run wakes the sleepers, or leaves the other runs alone. *)
LEMMA PointsMove ==
    ASSUME pc \in [Runs -> Points], NEW r \in Runs, NEW point
    PROVE  /\ \A x \in Runs : /\ Signalled[x] # "asleep"
                              /\ Signalled[x] = "over" <=> pc[x] = "over"
           /\ \A x \in Runs : x # r => /\ [Signalled EXCEPT ![r] = point][x] = Signalled[x]
                                       /\ [pc EXCEPT ![r] = point][x] = pc[x]
           /\ [Signalled EXCEPT ![r] = point][r] = point /\ [pc EXCEPT ![r] = point][r] = point
  BY DEF Signalled

(* A signal: nobody is refused any more, so nobody may sleep. *)
LEMMA SignalRefutes ==
    ASSUME unchanged' = Changed, \A x \in Runs : pc'[x] # "asleep"
    PROVE  RefusalStands'
  BY DEF RefusalStands, Changed

(* Nothing happens at the arbiter, and no run is refused. *)
LEMMA RefusalsStay ==
    ASSUME RefusalStands, UNCHANGED arbiterVars,
           \A x \in Runs : /\ unchanged'[x] => unchanged[x]
                           /\ pc'[x] = "asleep" => unchanged'[x]
    PROVE  RefusalStands'
  <1>1. \A w : IsNext(w, pending)' <=> IsNext(w, pending)
    BY DEF arbiterVars, IsNext, CanAcquire
  <1> QED BY <1>1 DEF RefusalStands

(* The results of the runs stay, and the queues of those that have one. *)
LEMMA ContinuationsStay ==
    ASSUME RunTypes, OverIsOver, NoEarlyContinuation,
           outcome' = outcome,
           \A x \in Runs : pc[x] = "over" => queue'[x] = queue[x] /\ late'[x] = late[x]
    PROVE  NoEarlyContinuation'
  BY DEF OverIsOver, NoEarlyContinuation

(* The invariant holds initially. *)
LEMMA RunInit == ASSUME SchedulerAssumption, SchedulerInit PROVE RunInv
  <1>1. DOMAIN pending = {} /\ claimed = {}
    BY DEF SchedulerInit
  <1>2. RunTypes
    <2>1. 0 \in StageIds /\ Need \in [Runs -> [StageIds -> Nat]]
      BY DEF SchedulerAssumption, StageIds
    <2> QED BY <1>1, <2>1 DEF RunTypes, SchedulerInit
  <1>3. WaitersHaveWork
    BY <1>1 DEF WaitersHaveWork
  <1>4. /\ \A r \in Runs : /\ pc[r] = "top" /\ outcome[r] = "none" /\ ~unchanged[r]
    BY DEF SchedulerInit
  <1>5. OverIsOver /\ RefusalStands /\ NoEarlyContinuation
    BY <1>1, <1>4 DEF OverIsOver, RefusalStands, NoEarlyContinuation
  <1> QED BY <1>2, <1>3, <1>5 DEF RunInv

(* A grant: the waiter leaves the arbiter with the others of its run still *)
(* there, and everybody is woken.                                          *)
LEMMA AcquireKeepsRuns ==
    ASSUME SchedulerAssumption, SlotInv, RunInv, NEW r \in Runs, Acquire(r)
    PROVE  RunInv'
  <1>1. PICK s \in Grants(r) :
            /\ pending' = Without(Asked(r, Asks(r, s)), {<<r, s>>})
            /\ stageCursor' = AfterGrant(s)
            /\ claimed' = claimed \cup {First(r, s)}
    BY DEF Acquire
  <1>2. /\ pc' = [Signalled EXCEPT ![r] = "claim"] /\ unchanged' = Changed
        /\ queue' = queue /\ late' = late /\ outcome' = outcome
        /\ pc[r] # "claim" /\ pc[r] # "over"
    BY DEF Acquire, Trying, At
  <1>3. s \in StageIds /\ queue[r][s] > 0
    BY <1>1, AsksAreTries DEF Grants
  <1>4. DOMAIN pending' = (DOMAIN pending \cup ({r} \X Asks(r, s))) \ {<<r, s>>}
    <2>1. DOMAIN Asked(r, Asks(r, s)) = DOMAIN pending \cup ({r} \X Asks(r, s))
      BY WaitersMove
    <2>2. DOMAIN Without(Asked(r, Asks(r, s)), {<<r, s>>})
            = DOMAIN Asked(r, Asks(r, s)) \ {<<r, s>>}
      BY WaitersMove
    <2> QED BY <1>1, <2>1, <2>2
  <1>5. pc \in [Runs -> Points]
    BY DEF SlotInv, SlotTypes
  <1>6. RunTypes'
    <2>1. stageCursor' \in StageIds
      <3>1. s + 1 \in Nat
        BY <1>3, StagesRotate
      <3> QED BY <1>1, <3>1, StagesRotate DEF AfterGrant
    <2>2. DOMAIN pending' \subseteq Waiters
      BY <1>4, AsksAreTries DEF RunInv, RunTypes, Waiters
    <2>3. unchanged' \in [Runs -> BOOLEAN]
      BY <1>2 DEF Changed
    <2> QED BY <1>2, <2>1, <2>2, <2>3 DEF RunInv, RunTypes
  <1>7. WaitersHaveWork'
    <2>1. ASSUME NEW w \in DOMAIN pending' PROVE queue'[w[1]][w[2]] > 0
      <3>1. CASE w \in DOMAIN pending
        BY <1>2, <3>1 DEF RunInv, WaitersHaveWork
      <3>2. CASE w \in {r} \X Asks(r, s)
        BY <1>2, <3>2, AsksAreTries
      <3> QED BY <1>4, <3>1, <3>2
    <2>2. ASSUME NEW t \in claimed
          PROVE  queue'[t[1]][t[2]] > 0 /\ <<t[1], t[2]>> \notin DOMAIN pending'
      <3>1. t[1] # r
        BY <1>2 DEF SlotInv, SlotsAreTaken
      <3>2. queue[t[1]][t[2]] > 0 /\ <<t[1], t[2]>> \notin DOMAIN pending
        BY DEF RunInv, WaitersHaveWork
      <3> QED BY <1>2, <1>4, <3>1, <3>2
    <2>3. LET t == First(r, s) IN
          queue'[t[1]][t[2]] > 0 /\ <<t[1], t[2]>> \notin DOMAIN pending'
      BY <1>2, <1>3, <1>4 DEF First
    <2> QED BY <1>1, <2>1, <2>2, <2>3 DEF WaitersHaveWork
  <1>8. OverIsOver'
    <2> SUFFICES ASSUME NEW x \in Runs
                 PROVE  /\ pc'[x] = "over" => \A y \in StageIds : <<x, y>> \notin DOMAIN pending'
                        /\ outcome'[x] # "none" => pc'[x] = "over"
      BY DEF OverIsOver
    <2>1. CASE x = r
      BY <1>2, <1>5, <2>1, PointsMove DEF RunInv, OverIsOver
    <2>2. CASE x # r
      <3>1. pc'[x] = "over" <=> pc[x] = "over"
        <4>1. pc'[x] = Signalled[x]
          BY <1>2, <1>5, <2>2, PointsMove
        <4> QED BY <1>5, <4>1, PointsMove
      <3>2. \A y \in StageIds : <<x, y>> \in DOMAIN pending' => <<x, y>> \in DOMAIN pending
        BY <1>4, <2>2
      <3> QED BY <1>2, <3>1, <3>2 DEF RunInv, OverIsOver
    <2> QED BY <2>1, <2>2
  <1>9. RefusalStands'
    <2>1. \A x \in Runs : pc'[x] # "asleep"
      BY <1>2, <1>5, PointsMove
    <2> QED BY <1>2, <2>1, SignalRefutes
  <1>10. NoEarlyContinuation'
    BY <1>2, ContinuationsStay DEF RunInv
  <1> QED BY <1>6, <1>7, <1>8, <1>9, <1>10 DEF RunInv

(* An offset is a number. *)
LEMMA OffsetsAreNumbers ==
    ASSUME SchedulerAssumption, NEW a \in Int, NEW s \in StageIds
    PROVE  Offset(a, s) \in 0..(NStages - 1)
  <1>1. s + NStages - a \in Int /\ NStages \in Int /\ NStages > 0
    BY DEF SchedulerAssumption, StageIds
  <1> QED BY <1>1 DEF Offset

(* Who is next among more waiters was next when it asked: those that came  *)
(* later did not bring it nearer.                                          *)
LEMMA NextWhenAsked ==
    ASSUME SchedulerAssumption, SlotInv, RunInv, NEW r \in Runs, NEW s \in StageIds,
           IsNext(<<r, s>>, Asked(r, Tries(r)))
    PROVE  s \in Grants(r)
  <1> DEFINE w == <<r, s>>
             few == Asked(r, Asks(r, s))
             all == Asked(r, Tries(r))
  <1>1. /\ DOMAIN few = DOMAIN pending \cup ({r} \X Asks(r, s))
        /\ DOMAIN all = DOMAIN pending \cup ({r} \X Tries(r))
    BY WaitersMove
  <1>2. s \in Tries(r)
    <2>1. w \in DOMAIN all
      BY DEF IsNext
    <2>2. CASE w \in DOMAIN pending
      BY <2>2 DEF RunInv, WaitersHaveWork, Tries
    <2>3. CASE w \in {r} \X Tries(r)
      BY <2>3
    <2> QED BY <1>1, <2>1, <2>2, <2>3
  <1>3. s \in Asks(r, s)
    <2>1. cursor[r] \in Int
      BY DEF SlotInv, SlotTypes
    <2>2. Offset(cursor[r], s) \in Int
      BY <2>1, OffsetsAreNumbers
    <2> QED BY <1>2, <2>2 DEF Asks
  <1>4. w \in DOMAIN few /\ DOMAIN few \subseteq DOMAIN all
    BY <1>1, <1>3, AsksAreTries
  <1>5. few[w] = all[w]
    BY <1>2, <1>3 DEF Asked
  <1>6. CanAcquire(s) /\ IsNext(w, few)
    <2>1. /\ CanAcquire(s)
          /\ \A v \in all[w] : v[2] # s
          /\ \A v \in DOMAIN all :
                CanAcquire(v[2]) => Offset(stageCursor, s) <= Offset(stageCursor, v[2])
      BY DEF IsNext
    <2> HIDE DEF few, all
    <2> QED BY <1>4, <1>5, <2>1 DEF IsNext
  <1> QED BY <1>2, <1>6 DEF Grants

(* A refusal: new waiters wake the others, and the run is refused as long  *)
(* as nothing changes.                                                     *)
LEMMA RefusedKeepsRuns ==
    ASSUME SchedulerAssumption, SlotInv, RunInv, NEW r \in Runs, Refused(r)
    PROVE  RunInv'
  <1>1. /\ Grants(r) = {} /\ pending' = Asked(r, Tries(r))
        /\ activeTotal' = activeTotal /\ activeByStage' = activeByStage
        /\ stageCursor' = stageCursor /\ queue' = queue /\ late' = late
        /\ outcome' = outcome /\ claimed' = claimed
        /\ pc[r] # "claim" /\ pc[r] # "over"
    BY DEF Refused, Trying, At, slotVars
  <1> DEFINE points == IF pending' = pending THEN pc ELSE Signalled
             marks == IF pending' = pending THEN unchanged ELSE Changed
             next == IF At(r, "top") THEN "refused" ELSE "handled"
  <1>2. /\ pc' = [points EXCEPT ![r] = next]
        /\ unchanged' = [marks EXCEPT ![r] = At(r, "top")]
    BY DEF Refused
  <1>3. DOMAIN pending' = DOMAIN pending \cup ({r} \X Tries(r))
    BY <1>1, WaitersMove
  <1>4. pc \in [Runs -> Points] /\ unchanged \in [Runs -> BOOLEAN]
    BY DEF SlotInv, SlotTypes, RunInv, RunTypes
  <1>5. /\ pc'[r] = next
        /\ \A x \in Runs \ {r} : pc'[x] = "over" <=> pc[x] = "over"
    <2>1. points = pc \/ points = Signalled
      OBVIOUS
    <2> HIDE DEF points
    <2> QED BY <1>2, <1>4, <2>1 DEF Signalled
  <1>6. RunTypes'
    <2>1. DOMAIN pending' \subseteq Waiters
      BY <1>3, AsksAreTries DEF RunInv, RunTypes, Waiters
    <2>2. marks \in [Runs -> BOOLEAN] /\ At(r, "top") \in BOOLEAN
      BY <1>4 DEF Changed, At
    <2>3. unchanged' \in [Runs -> BOOLEAN]
      BY <1>2, <2>2
    <2> QED BY <1>1, <2>1, <2>3 DEF RunInv, RunTypes
  <1>7. WaitersHaveWork'
    <2>1. ASSUME NEW w \in DOMAIN pending' PROVE queue'[w[1]][w[2]] > 0
      <3>1. CASE w \in DOMAIN pending
        BY <1>1, <3>1 DEF RunInv, WaitersHaveWork
      <3>2. CASE w \in {r} \X Tries(r)
        BY <1>1, <3>2, AsksAreTries
      <3> QED BY <1>3, <3>1, <3>2
    <2>2. ASSUME NEW t \in claimed
          PROVE  queue'[t[1]][t[2]] > 0 /\ <<t[1], t[2]>> \notin DOMAIN pending'
      <3>1. t[1] # r
        BY <1>1 DEF SlotInv, SlotsAreTaken
      <3>2. queue[t[1]][t[2]] > 0 /\ <<t[1], t[2]>> \notin DOMAIN pending
        BY DEF RunInv, WaitersHaveWork
      <3> QED BY <1>1, <1>3, <3>1, <3>2
    <2> QED BY <1>1, <2>1, <2>2 DEF WaitersHaveWork
  <1>8. OverIsOver'
    <2> SUFFICES ASSUME NEW x \in Runs
                 PROVE  /\ pc'[x] = "over" => \A y \in StageIds : <<x, y>> \notin DOMAIN pending'
                        /\ outcome'[x] # "none" => pc'[x] = "over"
      BY DEF OverIsOver
    <2>1. CASE x = r
      BY <1>1, <1>5, <2>1 DEF RunInv, OverIsOver
    <2>2. CASE x # r
      <3>1. \A y \in StageIds : <<x, y>> \in DOMAIN pending' => <<x, y>> \in DOMAIN pending
        BY <1>3, <2>2
      <3> QED BY <1>1, <1>5, <2>2, <3>1 DEF RunInv, OverIsOver
    <2> QED BY <2>1, <2>2
  <1>9. RefusalStands'
    <2>1. \A w : IsNext(w, pending)' <=> IsNext(w, pending')
      BY <1>1 DEF IsNext, CanAcquire
    <2>2. \A s \in StageIds : ~IsNext(<<r, s>>, pending')
      BY <1>1, NextWhenAsked
    <2>3. ASSUME NEW x \in Runs, x # r
          PROVE  /\ pc'[x] = "asleep" => unchanged'[x]
                 /\ unchanged'[x] => \A s \in StageIds : ~IsNext(<<x, s>>, pending')
      <3>1. CASE pending' = pending
        <4>1. pc'[x] = pc[x] /\ unchanged'[x] = unchanged[x]
          BY <1>2, <1>4, <2>3, <3>1
        <4> QED BY <3>1, <4>1 DEF RunInv, RefusalStands
      <3>2. CASE pending' # pending
        <4>1. points = Signalled /\ marks = Changed
          BY <3>2
        <4> HIDE DEF points, marks
        <4>2. pc'[x] = Signalled[x] /\ unchanged'[x] = FALSE
          BY <1>2, <2>3, <4>1 DEF Signalled, Changed
        <4> QED BY <1>4, <4>2, PointsMove
      <3> QED BY <3>1, <3>2
    <2> QED BY <1>5, <2>1, <2>2, <2>3 DEF RefusalStands
  <1>10. NoEarlyContinuation'
    BY <1>1, ContinuationsStay DEF RunInv
  <1> QED BY <1>6, <1>7, <1>8, <1>9, <1>10 DEF RunInv

(* The end of a run, whatever ends it: its waiters are cancelled, and its  *)
(* result is one that it may have.                                         *)
LEMMA EndKeepsRuns ==
    ASSUME SlotInv, RunInv, NEW r \in Runs,
           NEW result \in {"completed", "continuation", "failed"},
           pending' = Cancelled(r), outcome' = [outcome EXCEPT ![r] = result],
           pc'[r] = "over", \A x \in Runs \ {r} : pc'[x] = "over" <=> pc[x] = "over",
           queue' = queue, late' = late, stageCursor' = stageCursor,
           claimed' \subseteq claimed, unchanged' \in [Runs -> BOOLEAN],
           result = "continuation" /\ ~late[r] => \A s \in StageIds : queue[r][s] = 0
    PROVE  RunTypes' /\ WaitersHaveWork' /\ OverIsOver' /\ NoEarlyContinuation'
  <1>1. DOMAIN pending' = DOMAIN pending \ ({r} \X StageIds)
    BY WaitersMove
  <1>2. outcome \in [Runs -> {"none", "completed", "continuation", "failed"}]
    BY DEF RunInv, RunTypes
  <1>3. RunTypes'
    <2>1. outcome' \in [Runs -> {"none", "completed", "continuation", "failed"}]
      BY <1>2
    <2> QED BY <1>1, <2>1 DEF RunInv, RunTypes
  <1>4. WaitersHaveWork'
    BY <1>1 DEF RunInv, WaitersHaveWork
  <1>5. OverIsOver'
    <2> SUFFICES ASSUME NEW x \in Runs
                 PROVE  /\ pc'[x] = "over" => \A y \in StageIds : <<x, y>> \notin DOMAIN pending'
                        /\ outcome'[x] # "none" => pc'[x] = "over"
      BY DEF OverIsOver
    <2>1. CASE x = r
      BY <1>1, <2>1
    <2>2. CASE x # r
      <3>1. outcome'[x] = outcome[x]
        BY <1>2, <2>2
      <3> QED BY <1>1, <2>2, <3>1 DEF RunInv, OverIsOver
    <2> QED BY <2>1, <2>2
  <1>6. NoEarlyContinuation'
    <2> SUFFICES ASSUME NEW x \in Runs, outcome'[x] = "continuation", ~late'[x]
                 PROVE  \A s \in StageIds : queue'[x][s] = 0
      BY DEF NoEarlyContinuation
    <2>1. CASE x = r
      BY <1>2, <2>1
    <2>2. CASE x # r
      <3>1. outcome'[x] = outcome[x]
        BY <1>2, <2>2
      <3> QED BY <3>1 DEF RunInv, NoEarlyContinuation
    <2> QED BY <2>1, <2>2
  <1> QED BY <1>3, <1>4, <1>5, <1>6

(* A run gives up, is complete, or is cut off by its deadline.  It is only *)
(* too late, or has an error, or nothing is left in its queues.            *)
LEMMA OverKeepsRuns ==
    ASSUME SlotInv, RunInv, NEW r \in Runs, GiveUp(r) \/ Complete(r) \/ Cutoff(r)
    PROVE  RunInv'
  <1>1. /\ queue' = queue /\ late' = late /\ stageCursor' = stageCursor /\ claimed' = claimed
        /\ activeTotal' = activeTotal /\ activeByStage' = activeByStage
    BY DEF GiveUp, Complete, Cutoff, slotVars
  <1>2. PICK result \in {"completed", "continuation", "failed"} :
            /\ End(r, result)
            /\ result = "continuation" /\ ~late[r] => \A s \in StageIds : queue[r][s] = 0
    <2>1. CASE GiveUp(r)
      <3> DEFINE result == IF fatalError[r] THEN "failed" ELSE Result(r)
      <3>1. End(r, result) /\ result \in {"completed", "continuation", "failed"}
        BY <2>1 DEF GiveUp, Result
      <3>2. ASSUME result = "continuation", ~late[r], NEW s \in StageIds PROVE queue[r][s] = 0
        <4>1. NothingLeft(r)
          BY <2>1, <3>2 DEF GiveUp, MayAdmit
        <4>2. queue[r][s] \in Nat /\ ~(queue[r][s] > 0)
          BY <4>1 DEF NothingLeft, Tries, RunInv, RunTypes
        <4> QED BY <4>2
      <3> QED BY <3>1, <3>2
    <2>2. CASE Complete(r)
      BY <2>2 DEF Complete
    <2>3. CASE Cutoff(r)
      BY <2>3 DEF Cutoff, Result
    <2> QED BY <2>1, <2>2, <2>3
  <1>3. pc \in [Runs -> Points] /\ unchanged \in [Runs -> BOOLEAN]
    BY DEF SlotInv, SlotTypes, RunInv, RunTypes
  <1>4. /\ pending' = Cancelled(r) /\ outcome' = [outcome EXCEPT ![r] = result]
        /\ \/ /\ pending' = pending /\ pc' = [pc EXCEPT ![r] = "over"]
              /\ unchanged' = [unchanged EXCEPT ![r] = FALSE]
           \/ pc' = [Signalled EXCEPT ![r] = "over"] /\ unchanged' = Changed
    BY <1>2 DEF End
  <1>5. /\ pc'[r] = "over" /\ \A x \in Runs \ {r} : pc'[x] = "over" <=> pc[x] = "over"
        /\ unchanged' \in [Runs -> BOOLEAN]
    BY <1>3, <1>4 DEF Signalled, Changed
  <1>6. RunTypes' /\ WaitersHaveWork' /\ OverIsOver' /\ NoEarlyContinuation'
    BY <1>1, <1>2, <1>4, <1>5, EndKeepsRuns
  <1>7. RefusalStands'
    <2>1. CASE /\ pending' = pending /\ pc' = [pc EXCEPT ![r] = "over"]
               /\ unchanged' = [unchanged EXCEPT ![r] = FALSE]
      <3>1. UNCHANGED arbiterVars
        BY <1>1, <2>1 DEF arbiterVars
      <3>2. ASSUME NEW x \in Runs
            PROVE  (unchanged'[x] => unchanged[x]) /\ (pc'[x] = "asleep" => unchanged'[x])
        BY <1>3, <2>1 DEF RunInv, RefusalStands
      <3> QED BY <3>1, <3>2, RefusalsStay DEF RunInv
    <2>2. CASE pc' = [Signalled EXCEPT ![r] = "over"] /\ unchanged' = Changed
      <3>1. \A x \in Runs : pc'[x] # "asleep"
        BY <1>3, <2>2 DEF Signalled
      <3> QED BY <2>2, <3>1, SignalRefutes
    <2> QED BY <1>4, <2>1, <2>2
  <1> QED BY <1>6, <1>7 DEF RunInv

(* Steps that leave the arbiter, the queues and the results alone: a run   *)
(* sleeps only when nothing has changed since it was refused.              *)
LEMMA QuietKeepsRuns ==
    ASSUME SlotInv, RunInv, NEW r \in Runs,
           Race(r) \/ GoOn(r) \/ Park(r) \/ TimePasses(r)
    PROVE  RunInv'
  <1>1. /\ UNCHANGED arbiterVars /\ pending' = pending /\ stageCursor' = stageCursor
        /\ queue' = queue /\ outcome' = outcome /\ claimed' = claimed
    BY DEF Race, GoOn, Park, TimePasses, arbiterVars, slotVars
  <1>2. pc \in [Runs -> Points] /\ unchanged \in [Runs -> BOOLEAN] /\ late \in [Runs -> BOOLEAN]
    BY DEF SlotInv, SlotTypes, RunInv, RunTypes
  <1>3. /\ \A x \in Runs : pc'[x] = "over" <=> pc[x] = "over"
        /\ \A x \in Runs : (unchanged'[x] => unchanged[x]) /\ (pc'[x] = "asleep" => unchanged'[x])
        /\ unchanged' \in [Runs -> BOOLEAN] /\ late' \in [Runs -> BOOLEAN]
        /\ \A x \in Runs : pc[x] = "over" => late'[x] = late[x]
    <2>1. CASE Race(r)
      BY <1>2, <2>1 DEF Race, At, Trying, RunInv, RefusalStands
    <2>2. CASE GoOn(r)
      <3>1. pc[r] \in {"handled", "refused"} /\ unchanged' = unchanged /\ late' = late
        BY <2>2 DEF GoOn, At
      <3>2. pc' = [pc EXCEPT ![r] = "top"] \/ pc' = [pc EXCEPT ![r] = "park"]
        BY <2>2 DEF GoOn
      <3> QED BY <1>2, <3>1, <3>2 DEF RunInv, RefusalStands
    <2>3. CASE Park(r)
      <3>1. /\ pc[r] = "park" /\ unchanged' = unchanged /\ late' = late
            /\ pc' = [pc EXCEPT ![r] = IF unchanged[r] THEN "asleep" ELSE "top"]
        BY <2>3 DEF Park, At
      <3> QED BY <1>2, <3>1 DEF RunInv, RefusalStands
    <2>4. CASE TimePasses(r)
      BY <1>2, <2>4 DEF TimePasses, At, RunInv, RefusalStands
    <2> QED BY <2>1, <2>2, <2>3, <2>4
  <1>4. RunTypes' /\ WaitersHaveWork' /\ OverIsOver'
    BY <1>1, <1>3 DEF RunInv, RunTypes, WaitersHaveWork, OverIsOver
  <1>5. RefusalStands'
    BY <1>1, <1>3, RefusalsStay DEF RunInv
  <1>6. NoEarlyContinuation'
    BY <1>1, <1>3, ContinuationsStay DEF RunInv
  <1> QED BY <1>4, <1>5, <1>6 DEF RunInv

(* An operation leaves its queue. *)
LEMMA QueueShift ==
    ASSUME queue \in [Runs -> [StageIds -> Nat]], NEW r \in Runs, NEW s \in StageIds,
           queue[r][s] > 0, queue' = [queue EXCEPT ![r][s] = @ - 1]
    PROVE  /\ queue' \in [Runs -> [StageIds -> Nat]]
           /\ \A x \in Runs, y \in StageIds : <<x, y>> # <<r, s>> => queue'[x][y] = queue[x][y]
           /\ \A x \in Runs : x # r => queue'[x] = queue[x]
  <1> DEFINE row == [queue[r] EXCEPT ![s] = @ - 1]
  <1>1. row \in [StageIds -> Nat] /\ \A y \in StageIds : y # s => row[y] = queue[r][y]
    <2>1. queue[r] \in [StageIds -> Nat] /\ queue[r][s] - 1 \in Nat
      OBVIOUS
    <2> QED BY <2>1
  <1>2. queue' = [queue EXCEPT ![r] = row]
    OBVIOUS
  <1> HIDE DEF row
  <1>3. \A x \in Runs : queue'[x] = IF x = r THEN row ELSE queue[x]
    BY <1>2
  <1>4. queue' \in [Runs -> [StageIds -> Nat]]
    BY <1>1, <1>2
  <1> QED BY <1>1, <1>3, <1>4

(* The answer to a claim: the run is over, or the operation leaves its     *)
(* queue, and no waiter of the run is in that stage.                       *)
LEMMA ClaimAnswerKeepsRuns ==
    ASSUME SchedulerAssumption, SlotInv, RunInv, NEW t \in claimed, ClaimAnswer(t)
    PROVE  RunInv'
  <1>1. /\ t[1] \in Runs /\ t[2] \in StageIds /\ pc[t[1]] = "claim"
        /\ \A u \in claimed : u[1] = t[1] => u = t
        /\ queue[t[1]][t[2]] > 0 /\ <<t[1], t[2]>> \notin DOMAIN pending
    <2>1. t \in Operations
      BY DEF SlotInv, SlotTypes
    <2> QED BY <2>1 DEF Operations, SlotInv, SlotsAreTaken, RunInv, WaitersHaveWork
  <1>2. /\ claimed' = claimed \ {t} /\ stageCursor' = stageCursor /\ late' = late
    BY DEF ClaimAnswer, ClaimFails, ClaimDeferred, ClaimReady, ClaimExecute, Handled, arbiterVars
  <1>3. pc \in [Runs -> Points] /\ unchanged \in [Runs -> BOOLEAN]
    BY DEF SlotInv, SlotTypes, RunInv, RunTypes
  <1>4. CASE ClaimFails(t)
    <2>1. /\ pending' = Cancelled(t[1]) /\ unchanged' = Changed /\ queue' = queue
          /\ pc' = [Signalled EXCEPT ![t[1]] = "over"]
          /\ outcome' = [outcome EXCEPT ![t[1]] = "failed"]
      BY <1>4 DEF ClaimFails
    <2>2. /\ pc'[t[1]] = "over" /\ \A x \in Runs \ {t[1]} : pc'[x] = "over" <=> pc[x] = "over"
          /\ \A x \in Runs : pc'[x] # "asleep"
          /\ unchanged' \in [Runs -> BOOLEAN]
      BY <1>1, <1>3, <2>1 DEF Signalled, Changed
    <2>3. RunTypes' /\ WaitersHaveWork' /\ OverIsOver' /\ NoEarlyContinuation'
      BY <1>1, <1>2, <2>1, <2>2, EndKeepsRuns
    <2>4. RefusalStands'
      BY <2>1, <2>2, SignalRefutes
    <2> QED BY <2>3, <2>4 DEF RunInv
  <1>5. CASE ClaimDeferred(t) \/ ClaimReady(t) \/ ClaimExecute(t)
    <2>1. /\ queue' = [queue EXCEPT ![t[1]][t[2]] = @ - 1]
          /\ pending' = pending /\ outcome' = outcome
      BY <1>5 DEF ClaimDeferred, ClaimReady, ClaimExecute, Handled, arbiterVars
    <2>2. /\ queue' \in [Runs -> [StageIds -> Nat]]
          /\ \A x \in Runs, y \in StageIds :
                <<x, y>> # <<t[1], t[2]>> => queue'[x][y] = queue[x][y]
          /\ \A x \in Runs : x # t[1] => queue'[x] = queue[x]
      BY <1>1, <2>1, QueueShift DEF RunInv, RunTypes
    <2>3. \/ pc' = [Signalled EXCEPT ![t[1]] = "admit"] /\ unchanged' = Changed
          \/ /\ pc' = [pc EXCEPT ![t[1]] = "admit"] /\ unchanged' = unchanged
             /\ UNCHANGED arbiterVars
      BY <1>5 DEF ClaimDeferred, ClaimReady, ClaimExecute
    <2>4. \A x \in Runs : pc'[x] = "over" <=> pc[x] = "over"
      BY <1>1, <1>3, <2>3 DEF Signalled
    <2>5. RunTypes'
      <3>1. unchanged' \in [Runs -> BOOLEAN]
        BY <1>3, <2>3 DEF Changed
      <3> QED BY <1>2, <2>1, <2>2, <3>1 DEF RunInv, RunTypes
    <2>6. WaitersHaveWork'
      <3>1. ASSUME NEW w \in DOMAIN pending PROVE queue'[w[1]][w[2]] > 0
        <4>1. w \in Runs \X StageIds /\ w # <<t[1], t[2]>> /\ queue[w[1]][w[2]] > 0
          BY <1>1 DEF RunInv, RunTypes, WaitersHaveWork, Waiters
        <4>2. queue'[w[1]][w[2]] = queue[w[1]][w[2]]
          BY <2>2, <4>1
        <4> QED BY <4>1, <4>2
      <3>2. ASSUME NEW u \in claimed, u # t
            PROVE  queue'[u[1]][u[2]] > 0 /\ <<u[1], u[2]>> \notin DOMAIN pending
        <4>1. u \in Operations
          BY DEF SlotInv, SlotTypes
        <4>2. u[1] \in Runs /\ u[1] # t[1]
          BY <1>1, <3>2, <4>1 DEF Operations
        <4> QED BY <2>2, <4>2 DEF RunInv, WaitersHaveWork
      <3> QED BY <1>2, <2>1, <3>1, <3>2 DEF WaitersHaveWork
    <2>7. OverIsOver'
      BY <2>1, <2>4 DEF RunInv, OverIsOver
    <2>8. RefusalStands'
      <3>1. CASE pc' = [Signalled EXCEPT ![t[1]] = "admit"] /\ unchanged' = Changed
        <4>1. \A x \in Runs : pc'[x] # "asleep"
          BY <1>3, <3>1 DEF Signalled
        <4> QED BY <3>1, <4>1, SignalRefutes
      <3>2. CASE /\ pc' = [pc EXCEPT ![t[1]] = "admit"] /\ unchanged' = unchanged
                 /\ UNCHANGED arbiterVars
        <4>1. \A x \in Runs : pc'[x] = "asleep" => unchanged'[x]
          BY <1>3, <3>2 DEF RunInv, RefusalStands
        <4> QED BY <3>2, <4>1, RefusalsStay DEF RunInv
      <3> QED BY <2>3, <3>1, <3>2
    <2>9. NoEarlyContinuation'
      <3>1. \A x \in Runs : pc[x] = "over" => queue'[x] = queue[x] /\ late'[x] = late[x]
        BY <1>1, <1>2, <2>2
      <3> QED BY <2>1, <3>1, ContinuationsStay DEF RunInv
    <2> QED BY <2>5, <2>6, <2>7, <2>8, <2>9 DEF RunInv
  <1> QED BY <1>4, <1>5 DEF ClaimAnswer

(* The end of an operation wakes everybody; its run is over only if it     *)
(* waited for this operation and putting it off failed.                    *)
LEMMA OperationEndsKeepsRuns ==
    ASSUME SlotInv, RunInv, NEW t \in active, OperationEnds(t)
    PROVE  RunInv'
  <1>1. t[1] \in Runs
    <2>1. t \in Operations
      BY DEF SlotInv, SlotTypes
    <2> QED BY <2>1 DEF Operations
  <1>2. /\ unchanged' = Changed /\ stageCursor' = stageCursor /\ queue' = queue
        /\ late' = late /\ claimed' = claimed
    BY DEF OperationEnds, Finish, FinishRejected, Settle
  <1>3. pc \in [Runs -> Points] /\ unchanged' \in [Runs -> BOOLEAN]
    BY <1>2 DEF SlotInv, SlotTypes, Changed
  <1>4. CASE /\ pending' = Cancelled(t[1]) /\ pc' = [Signalled EXCEPT ![t[1]] = "over"]
             /\ outcome' = [outcome EXCEPT ![t[1]] = "failed"]
    <2>1. /\ pc'[t[1]] = "over" /\ \A x \in Runs \ {t[1]} : pc'[x] = "over" <=> pc[x] = "over"
          /\ \A x \in Runs : pc'[x] # "asleep"
      BY <1>1, <1>3, <1>4 DEF Signalled
    <2>2. RunTypes' /\ WaitersHaveWork' /\ OverIsOver' /\ NoEarlyContinuation'
      BY <1>1, <1>2, <1>3, <1>4, <2>1, EndKeepsRuns
    <2> QED BY <1>2, <2>1, <2>2, SignalRefutes DEF RunInv
  <1>5. CASE /\ pending' = pending /\ outcome' = outcome
             /\ \/ pc' = Signalled
                \/ pc' = [Signalled EXCEPT ![t[1]] = IF @ = "race" THEN "top" ELSE @]
    <2>1. \A x \in Runs : pc'[x] # "asleep" /\ (pc'[x] = "over" <=> pc[x] = "over")
      BY <1>1, <1>3, <1>5 DEF Signalled
    <2>2. RunTypes' /\ WaitersHaveWork' /\ OverIsOver'
      BY <1>2, <1>3, <1>5, <2>1 DEF RunInv, RunTypes, WaitersHaveWork, OverIsOver
    <2>3. NoEarlyContinuation'
      BY <1>2, <1>5, ContinuationsStay DEF RunInv
    <2> QED BY <1>2, <2>1, <2>2, <2>3, SignalRefutes DEF RunInv
  <1> QED BY <1>4, <1>5 DEF OperationEnds, Finish, FinishRejected

(* Every step preserves the invariant of the runs. *)
LEMMA RunStepKeeps ==
    ASSUME SchedulerAssumption, SlotInv, RunInv, [SchedulerNext]_vars
    PROVE  RunInv'
  <1>1. ASSUME NEW r \in Runs, Acquire(r) PROVE RunInv'
    BY <1>1, AcquireKeepsRuns
  <1>2. ASSUME NEW r \in Runs, Refused(r) PROVE RunInv'
    BY <1>2, RefusedKeepsRuns
  <1>3. ASSUME NEW r \in Runs, GiveUp(r) \/ Complete(r) \/ Cutoff(r) PROVE RunInv'
    BY <1>3, OverKeepsRuns
  <1>4. ASSUME NEW r \in Runs, Race(r) \/ GoOn(r) \/ Park(r) \/ TimePasses(r) PROVE RunInv'
    BY <1>4, QuietKeepsRuns
  <1>5. ASSUME NEW t \in claimed, ClaimAnswer(t) PROVE RunInv'
    BY <1>5, ClaimAnswerKeepsRuns
  <1>6. ASSUME NEW t \in active, OperationEnds(t) PROVE RunInv'
    BY <1>6, OperationEndsKeepsRuns
  <1>7. CASE UNCHANGED vars
    <2>1. /\ UNCHANGED arbiterVars /\ pending' = pending /\ stageCursor' = stageCursor
          /\ queue' = queue /\ outcome' = outcome /\ claimed' = claimed /\ pc' = pc
          /\ unchanged' = unchanged /\ late' = late
      BY <1>7 DEF vars, arbiterVars, runVars, slotVars
    <2>2. RunTypes' /\ WaitersHaveWork' /\ OverIsOver'
      BY <2>1 DEF RunInv, RunTypes, WaitersHaveWork, OverIsOver
    <2>3. RefusalStands'
      BY <2>1, RefusalsStay DEF RunInv, RefusalStands
    <2>4. NoEarlyContinuation'
      BY <2>1, ContinuationsStay DEF RunInv
    <2> QED BY <2>2, <2>3, <2>4 DEF RunInv
  <1> QED BY <1>1, <1>2, <1>3, <1>4, <1>5, <1>6, <1>7 DEF SchedulerNext, RunStep

(* RunInv holds in every reachable state, for all runs, stages and limits. *)
THEOREM RunInvariant == SchedulerSpec => []RunInv
  <1>1. SchedulerInit => RunInv
    BY RunInit, SchedulerAssumption
  <1>2. SlotInv /\ RunInv /\ [SchedulerNext]_vars => RunInv'
    BY RunStepKeeps, SchedulerAssumption
  <1> QED BY <1>1, <1>2, SlotInvariant, PTL DEF SchedulerSpec

(* The run whose waiter is served next is awake: waitForChange loses no    *)
(* wake-up, and the finally block leaves no waiter behind.                 *)
THEOREM NextWaiterAwake == SchedulerSpec => []NextWaiterIsAwake
  <1>1. RunInv => NextWaiterIsAwake
    <2> SUFFICES ASSUME RunInv, NEW w \in Waiters, IsNext(w, pending)
                 PROVE  /\ pc[w[1]] \notin {"asleep", "over"}
                        /\ pc[w[1]] \in {"refused", "park"} /\ ActiveOf(w[1]) = {}
                              => ~unchanged[w[1]]
      BY DEF NextWaiterIsAwake
    <2>1. w[1] \in Runs /\ w[2] \in StageIds /\ w = <<w[1], w[2]>> /\ w \in DOMAIN pending
      BY DEF Waiters, IsNext
    <2>2. ~unchanged[w[1]]
      BY <2>1 DEF RunInv, RefusalStands
    <2> QED BY <2>1, <2>2 DEF RunInv, RefusalStands, OverIsOver
  <1> QED BY <1>1, RunInvariant, PTL

(* A run that is not late leaves nothing in its queues for a continuation  *)
(* (blockedGeneration is null only when it had nothing to ask for).        *)
THEOREM ContinuationsAreNotEarly == SchedulerSpec => []NoEarlyContinuation
  <1>1. RunInv => NoEarlyContinuation
    BY DEF RunInv
  <1> QED BY <1>1, RunInvariant, PTL

-----------------------------------------------------------------------------
(* The rotation of the stages.                                             *)

(* The remainder of a number that is less than once, or twice, too large.  *)
LEMMA Remainders ==
    ASSUME SchedulerAssumption, NEW x \in StageIds
    PROVE  x % NStages = x /\ (x + NStages) % NStages = x
  <1>1. NStages \in Nat \ {0} /\ x \in 0..(NStages - 1)
    BY DEF SchedulerAssumption, StageIds
  <1>2. x % NStages = x
    BY <1>1
  <1>3. (x + NStages) % NStages = x
    BY <1>1
  <1> QED BY <1>2, <1>3

(* How far a stage is from the turn. *)
LEMMA OffsetIs ==
    ASSUME SchedulerAssumption, NEW a \in StageIds, NEW s \in StageIds
    PROVE  Offset(a, s) = IF a <= s THEN s - a ELSE s - a + NStages
  <1>1. NStages \in Nat \ {0} /\ s \in 0..(NStages - 1) /\ a \in 0..(NStages - 1)
    BY DEF SchedulerAssumption, StageIds
  <1>2. CASE a <= s
    <2>1. s - a \in StageIds
      BY <1>1, <1>2 DEF StageIds
    <2>2. s + NStages - a = (s - a) + NStages
      BY <1>1
    <2>3. ((s - a) + NStages) % NStages = s - a
      BY <2>1, Remainders
    <2> QED BY <1>2, <2>2, <2>3 DEF Offset
  <1>3. CASE a > s
    <2>1. s - a + NStages \in StageIds
      BY <1>1, <1>3 DEF StageIds
    <2>2. s + NStages - a = s - a + NStages
      BY <1>1
    <2>3. (s - a + NStages) % NStages = s - a + NStages
      BY <2>1, Remainders
    <2> QED BY <1>1, <1>3, <2>2, <2>3 DEF Offset
  <1> QED BY <1>1, <1>2, <1>3

(* A grant to a nearer stage brings the turn of the others nearer. *)
LEMMA TurnComesNearer ==
    ASSUME SchedulerAssumption, NEW from \in StageIds, NEW granted \in StageIds,
           NEW s \in StageIds, s # granted, Offset(from, granted) <= Offset(from, s)
    PROVE  Offset(AfterGrant(granted), s) < Offset(from, s)
  <1>1. /\ NStages \in Nat \ {0} /\ s \in 0..(NStages - 1) /\ from \in 0..(NStages - 1)
        /\ granted \in 0..(NStages - 1)
    BY DEF SchedulerAssumption, StageIds
  <1>2. /\ AfterGrant(granted) \in StageIds
        /\ AfterGrant(granted) = IF granted + 1 = NStages THEN 0 ELSE granted + 1
    <2>1. CASE granted + 1 = NStages
      <3>1. 0 \in StageIds /\ (0 + NStages) % NStages = 0 /\ 0 + NStages = granted + 1
        <4>1. 0 \in StageIds
          BY <1>1 DEF StageIds
        <4> QED BY <1>1, <2>1, <4>1, Remainders
      <3> QED BY <2>1, <3>1 DEF AfterGrant
    <2>2. CASE granted + 1 # NStages
      <3>1. granted + 1 \in StageIds
        BY <1>1, <2>2 DEF StageIds
      <3>2. (granted + 1) % NStages = granted + 1
        BY <3>1, Remainders
      <3> QED BY <2>2, <3>1, <3>2 DEF AfterGrant
    <2> QED BY <2>1, <2>2
  <1>3. /\ Offset(from, s) = IF from <= s THEN s - from ELSE s - from + NStages
        /\ Offset(from, granted) =
              IF from <= granted THEN granted - from ELSE granted - from + NStages
        /\ Offset(AfterGrant(granted), s) =
              IF AfterGrant(granted) <= s THEN s - AfterGrant(granted)
              ELSE s - AfterGrant(granted) + NStages
    BY <1>2, OffsetIs
  <1>4. CASE granted + 1 = NStages
    BY <1>1, <1>2, <1>3, <1>4
  <1>5. CASE granted + 1 # NStages
    BY <1>1, <1>2, <1>3, <1>5
  <1> QED BY <1>4, <1>5

(* Only a grant takes a slot. *)
LEMMA OnlyGrantsTake ==
    ASSUME SlotInv, SchedulerNext, activeTotal' > activeTotal
    PROVE  \E r \in Runs : Acquire(r)
  <1>1. activeTotal \in Int
    BY DEF SlotInv, SlotTypes
  <1>2. ASSUME NEW r \in Runs, RunStep(r) \/ TimePasses(r), ~Acquire(r)
        PROVE  activeTotal' = activeTotal
    BY <1>2 DEF RunStep, TimePasses, Refused, Race, GiveUp, GoOn, Complete, Park, Cutoff, arbiterVars
  <1>3. ASSUME NEW t \in claimed, ClaimAnswer(t)
        PROVE  activeTotal' = activeTotal \/ activeTotal' = activeTotal - 1
    BY <1>3 DEF ClaimAnswer, ClaimFails, ClaimDeferred, ClaimReady, ClaimExecute, Release, arbiterVars
  <1>4. ASSUME NEW t \in active, OperationEnds(t)
        PROVE  activeTotal' = activeTotal - 1
    BY <1>4 DEF OperationEnds, Finish, FinishRejected, Settle, Release
  <1> QED BY <1>1, <1>2, <1>3, <1>4 DEF SchedulerNext

(* A slot that goes to another stage brings the turn of every stage that   *)
(* could have had it nearer (nextPending and the cursor of tryAcquire).    *)
THEOREM StagesTakeTurns == SchedulerSpec => NoStageStarves
  <1> DEFINE Nearer ==
        \A s \in StageIds :
            /\ activeTotal' > activeTotal /\ activeByStage'[s] = activeByStage[s]
            /\ CanAcquire(s) /\ \E w \in DOMAIN pending : w[2] = s
            => Offset(stageCursor', s) < Offset(stageCursor, s)
  <1>1. ASSUME SlotInv, RunInv, [SchedulerNext]_vars PROVE [Nearer]_vars
    <2> SUFFICES ASSUME SchedulerNext, NEW s \in StageIds,
                        activeTotal' > activeTotal, activeByStage'[s] = activeByStage[s],
                        CanAcquire(s), NEW w \in DOMAIN pending, w[2] = s
                 PROVE  Offset(stageCursor', s) < Offset(stageCursor, s)
      BY <1>1
    <2>1. PICK r \in Runs : Acquire(r)
      BY <1>1, OnlyGrantsTake
    <2>2. PICK g \in Grants(r) :
              /\ activeByStage' = [activeByStage EXCEPT ![g] = @ + 1]
              /\ stageCursor' = AfterGrant(g)
      BY <2>1 DEF Acquire
    <2>3. g \in StageIds /\ stageCursor \in StageIds
      BY <1>1, AsksAreTries DEF Grants, RunInv, RunTypes
    <2>4. s # g
      BY <1>1, <2>2, <2>3 DEF SlotInv, SlotTypes
    <2>5. Offset(stageCursor, g) <= Offset(stageCursor, s)
      <3> DEFINE p == Asked(r, Asks(r, g))
      <3>1. IsNext(<<r, g>>, p)
        BY DEF Grants
      <3>2. DOMAIN p = DOMAIN pending \cup ({r} \X Asks(r, g))
        BY WaitersMove
      <3> HIDE DEF p
      <3> QED BY <3>1, <3>2 DEF IsNext
    <2> QED BY <2>2, <2>3, <2>4, <2>5, TurnComesNearer, SchedulerAssumption
  <1>2. SlotInv /\ RunInv /\ [SchedulerNext]_vars => [Nearer]_vars
    BY <1>1
  <1> QED BY <1>2, SlotInvariant, RunInvariant, PTL DEF SchedulerSpec, NoStageStarves
=============================================================================
