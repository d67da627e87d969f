---------------------- MODULE AnalysisDagTopologyProofs ----------------------
(***************************************************************************)
(* Proofs about AnalysisDagTopology, for any number of batches: the graph  *)
(* of the planner is one that the ledger assumes, its proposals follow the *)
(* requirements, and its plans only grow.                                  *)
(*                                                                         *)
(* The argument: manifests come in the order of the requirements           *)
(* (PlanInv), and then the rules of readiness say no more than that every  *)
(* required job has its manifest (PlanIsReadiness).  The list of proposals *)
(* is the inverse of the required keys (DependentsAreInverse).  What the   *)
(* finalizer needs takes ten steps at most, whatever the batches are, so   *)
(* its recursive definition is solved step by step (NeededIsReached).      *)
(***************************************************************************)
EXTENDS AnalysisDagTopology, FiniteSetTheorems, TLAPS

Fetch(b) == [kind |-> "profileFetch", batch |-> b]
Ai(b) == [kind |-> "profileAi", batch |-> b]
Private(b) == [kind |-> "privateName", batch |-> b]

(* Jobs are told apart by their kinds. *)
LEMMA Kinds ==
    /\ bootstrap.kind = "bootstrap" /\ relationships.kind = "relationships"
    /\ targetEvidence.kind = "targetEvidence" /\ primaryJoin.kind = "primaryJoin"
    /\ screening.kind = "screening" /\ reverseLikes.kind = "reverseLikes"
    /\ partnerSafety.kind = "partnerSafety" /\ finalScore.kind = "finalScore"
    /\ narrative.kind = "narrative" /\ finalize.kind = "finalize"
    /\ \A b : /\ Fetch(b).kind = "profileFetch" /\ Ai(b).kind = "profileAi"
              /\ Private(b).kind = "privateName"
  BY DEF bootstrap, relationships, targetEvidence, primaryJoin, screening, reverseLikes,
         partnerSafety, finalScore, narrative, finalize, Single, Fetch, Ai, Private

(* The required keys of every job, one by one. *)
LEMMA RequiredKeys ==
    /\ \A b : /\ RequiredJobKeys(Fetch(b)) = {relationships}
              /\ RequiredJobKeys(Private(b)) = {relationships}
              /\ RequiredJobKeys(Ai(b)) = {Fetch(b)}
    /\ \A j \in {bootstrap, relationships, targetEvidence} : RequiredJobKeys(j) = {}
    /\ RequiredJobKeys(primaryJoin) = {relationships, targetEvidence} \cup ProfileAiJobs
    /\ RequiredJobKeys(screening) = {primaryJoin}
    /\ \A j \in {reverseLikes, partnerSafety} : RequiredJobKeys(j) = {screening}
    /\ RequiredJobKeys(finalScore) = {reverseLikes, partnerSafety}
    /\ RequiredJobKeys(narrative) = {finalScore}
    /\ RequiredJobKeys(finalize) = {narrative} \cup PrivateNameJobs
  <1>1. ASSUME NEW b PROVE RequiredJobKeys(Fetch(b)) = {relationships}
    BY Kinds DEF RequiredJobKeys
  <1>2. ASSUME NEW b PROVE RequiredJobKeys(Private(b)) = {relationships}
    BY Kinds DEF RequiredJobKeys
  <1>3. ASSUME NEW b PROVE RequiredJobKeys(Ai(b)) = {Fetch(b)}
    <2>1. [Ai(b) EXCEPT !.kind = "profileFetch"] = Fetch(b)
      BY DEF Ai, Fetch
    <2> QED BY <2>1, Kinds DEF RequiredJobKeys
  <1>4. \A j \in {bootstrap, relationships, targetEvidence} : RequiredJobKeys(j) = {}
    BY Kinds DEF RequiredJobKeys
  <1>5. RequiredJobKeys(primaryJoin) = {relationships, targetEvidence} \cup ProfileAiJobs
    BY Kinds DEF RequiredJobKeys
  <1>6. RequiredJobKeys(screening) = {primaryJoin}
    BY Kinds DEF RequiredJobKeys
  <1>7. \A j \in {reverseLikes, partnerSafety} : RequiredJobKeys(j) = {screening}
    BY Kinds DEF RequiredJobKeys
  <1>8. RequiredJobKeys(finalScore) = {reverseLikes, partnerSafety}
    BY Kinds DEF RequiredJobKeys
  <1>9. RequiredJobKeys(narrative) = {finalScore}
    BY Kinds DEF RequiredJobKeys
  <1>10. RequiredJobKeys(finalize) = {narrative} \cup PrivateNameJobs
    BY Kinds DEF RequiredJobKeys
  <1> QED BY <1>1, <1>2, <1>3, <1>4, <1>5, <1>6, <1>7, <1>8, <1>9, <1>10

(* A job is one of the single ones or that of a batch. *)
LEMMA JobsOf ==
    /\ ProfileJobs = {Fetch(b) : b \in profiles}
    /\ ProfileAiJobs = {Ai(b) : b \in profiles}
    /\ PrivateNameJobs = {Private(b) : b \in privates}
    /\ \A j \in AllJobs :
          \/ j \in Singles
          \/ \E b \in profiles : j = Fetch(b) \/ j = Ai(b)
          \/ \E b \in privates : j = Private(b)
  BY DEF ProfileJobs, ProfileAiJobs, PrivateNameJobs, BatchJobs, AllJobs, Fetch, Ai, Private

(* Batches are told apart by their numbers; the two jobs of a profile      *)
(* batch belong together.                                                  *)
LEMMA Batches ==
    \A b : /\ [Ai(b) EXCEPT !.kind = "profileFetch"] = Fetch(b)
           /\ [Fetch(b) EXCEPT !.kind = "profileAi"] = Ai(b)
           /\ \A c : /\ Fetch(b) = Fetch(c) => b = c
                     /\ Ai(b) = Ai(c) => b = c
                     /\ Private(b) = Private(c) => b = c
  <1> SUFFICES ASSUME NEW b
               PROVE  /\ [Ai(b) EXCEPT !.kind = "profileFetch"] = Fetch(b)
                      /\ [Fetch(b) EXCEPT !.kind = "profileAi"] = Ai(b)
                      /\ \A c : /\ Fetch(b) = Fetch(c) => b = c
                                /\ Ai(b) = Ai(c) => b = c
                                /\ Private(b) = Private(c) => b = c
    OBVIOUS
  <1>1. /\ [Ai(b) EXCEPT !.kind = "profileFetch"] = Fetch(b)
        /\ [Fetch(b) EXCEPT !.kind = "profileAi"] = Ai(b)
    BY DEF Ai, Fetch
  <1>2. \A c : Fetch(c).batch = c /\ Ai(c).batch = c /\ Private(c).batch = c
    BY DEF Ai, Fetch, Private
  <1> QED BY <1>1, <1>2

(* A job of the graph requires jobs of the graph, and neither itself nor   *)
(* the finalizer.                                                          *)
LEMMA RequiredKeysAreJobs ==
    \A j \in AllJobs : /\ RequiredJobKeys(j) \subseteq AllJobs
                       /\ j \notin RequiredJobKeys(j) /\ finalize \notin RequiredJobKeys(j)
  <1> SUFFICES ASSUME NEW j \in AllJobs
               PROVE  /\ RequiredJobKeys(j) \subseteq AllJobs
                      /\ j \notin RequiredJobKeys(j) /\ finalize \notin RequiredJobKeys(j)
    OBVIOUS
  <1>1. CASE j \in Singles
    BY <1>1, RequiredKeys, Kinds, JobsOf DEF Singles, AllJobs
  <1>2. ASSUME NEW b \in profiles, j = Fetch(b) \/ j = Ai(b)
        PROVE  /\ RequiredJobKeys(j) \subseteq AllJobs
               /\ j \notin RequiredJobKeys(j) /\ finalize \notin RequiredJobKeys(j)
    BY <1>2, RequiredKeys, Kinds, JobsOf DEF Singles, AllJobs
  <1>3. ASSUME NEW b \in privates, j = Private(b)
        PROVE  /\ RequiredJobKeys(j) \subseteq AllJobs
               /\ j \notin RequiredJobKeys(j) /\ finalize \notin RequiredJobKeys(j)
    BY <1>3, RequiredKeys, Kinds, JobsOf DEF Singles, AllJobs
  <1> QED BY <1>1, <1>2, <1>3, JobsOf

(* The graph is one that the ledger may be given. *)
LEMMA DagAssumed == Dag!DagAssumption
  <1>1. bootstrap \in AllJobs /\ finalize \in AllJobs \ {bootstrap}
    BY Kinds DEF AllJobs, Singles
  <1>2. RequiredJobKeys(bootstrap) = {} /\ RequiredJobKeys(finalize) # {}
    BY RequiredKeys
  <1> QED BY <1>1, <1>2, RequiredKeysAreJobs DEF Dag!DagAssumption

-----------------------------------------------------------------------------
(* What the finalizer needs.                                               *)

Behind(S) == S \cup UNION {RequiredJobKeys(j) : j \in S}

(* More jobs have more behind them. *)
LEMMA BehindGrows ==
    ASSUME NEW S, NEW j \in S
    PROVE  j \in Behind(S) /\ RequiredJobKeys(j) \subseteq Behind(S)
  BY DEF Behind

(* Ten jobs are there whatever the batches are. *)
LEMMA TenSingles == IsFiniteSet(Singles) /\ Cardinality(Singles) = 10
  <1> DEFINE A == {bootstrap, relationships}
             B == A \cup {targetEvidence}
             C == B \cup {primaryJoin}
             D == C \cup {screening}
             E == D \cup {reverseLikes}
             F == E \cup {partnerSafety}
             G == F \cup {finalScore}
             H == G \cup {narrative}
             I == H \cup {finalize}
  <1>1. Singles = I
    BY DEF Singles
  <1>2. /\ bootstrap # relationships /\ targetEvidence \notin A /\ primaryJoin \notin B
        /\ screening \notin C /\ reverseLikes \notin D /\ partnerSafety \notin E
        /\ finalScore \notin F /\ narrative \notin G /\ finalize \notin H
    BY Kinds
  <1>3. IsFiniteSet(A) /\ Cardinality(A) = 2
    <2>1. IsFiniteSet({bootstrap}) /\ Cardinality({bootstrap}) = 1
      BY FS_Singleton
    <2>2. A = {bootstrap} \cup {relationships}
      OBVIOUS
    <2> QED BY <1>2, <2>1, <2>2, FS_AddElement
  <1> HIDE DEF A
  <1>4. IsFiniteSet(B) /\ Cardinality(B) = 3
    BY <1>2, <1>3, FS_AddElement
  <1> HIDE DEF B
  <1>5. IsFiniteSet(C) /\ Cardinality(C) = 4
    BY <1>2, <1>4, FS_AddElement
  <1> HIDE DEF C
  <1>6. IsFiniteSet(D) /\ Cardinality(D) = 5
    BY <1>2, <1>5, FS_AddElement
  <1> HIDE DEF D
  <1>7. IsFiniteSet(E) /\ Cardinality(E) = 6
    BY <1>2, <1>6, FS_AddElement
  <1> HIDE DEF E
  <1>8. IsFiniteSet(F) /\ Cardinality(F) = 7
    BY <1>2, <1>7, FS_AddElement
  <1> HIDE DEF F
  <1>9. IsFiniteSet(G) /\ Cardinality(G) = 8
    BY <1>2, <1>8, FS_AddElement
  <1> HIDE DEF G
  <1>10. IsFiniteSet(H) /\ Cardinality(H) = 9
    BY <1>2, <1>9, FS_AddElement
  <1> HIDE DEF H
  <1>11. IsFiniteSet(I) /\ Cardinality(I) = 10
    BY <1>2, <1>10, FS_AddElement
  <1> QED BY <1>1, <1>11

(* What the finalizer needs in at most ten steps.                          *)
Reach0 == {finalize}
Reach1 == Behind(Reach0)
Reach2 == Behind(Reach1)
Reach3 == Behind(Reach2)
Reach4 == Behind(Reach3)
Reach5 == Behind(Reach4)
Reach6 == Behind(Reach5)
Reach7 == Behind(Reach6)
Reach8 == Behind(Reach7)
Reach9 == Behind(Reach8)
Reach10 == Behind(Reach9)

(* The recursive definition of NeededByFinalizer has a solution, so it     *)
(* means what it says.                                                     *)
LEMMA NeededIsReached == NeededByFinalizer = Reach10
  <1> DEFINE Body(f) == [n \in 0..10 |-> IF n = 0 THEN {finalize}
                             ELSE f[n - 1] \cup UNION {RequiredJobKeys(j) : j \in f[n - 1]}]
             g == [n \in 0..10 |->
                     IF n = 0 THEN Reach0 ELSE IF n = 1 THEN Reach1 ELSE
                     IF n = 2 THEN Reach2 ELSE IF n = 3 THEN Reach3 ELSE
                     IF n = 4 THEN Reach4 ELSE IF n = 5 THEN Reach5 ELSE
                     IF n = 6 THEN Reach6 ELSE IF n = 7 THEN Reach7 ELSE
                     IF n = 8 THEN Reach8 ELSE IF n = 9 THEN Reach9 ELSE Reach10]
             need == CHOOSE f : f = Body(f)
  <1>1. g = Body(g)
    <2>1. ASSUME NEW n \in 1..10 PROVE g[n] = Behind(g[n - 1])
      BY DEF Reach1, Reach2, Reach3, Reach4, Reach5, Reach6, Reach7, Reach8, Reach9, Reach10
    <2>2. g[0] = {finalize}
      BY DEF Reach0
    <2> HIDE DEF g
    <2>3. ASSUME NEW n \in 0..10
          PROVE  g[n] = IF n = 0 THEN {finalize}
                        ELSE g[n - 1] \cup UNION {RequiredJobKeys(j) : j \in g[n - 1]}
      <3>1. CASE n = 0
        BY <2>2, <3>1
      <3>2. CASE n # 0
        <4>1. n \in 1..10
          BY <3>2
        <4> QED BY <2>1, <3>2, <4>1 DEF Behind
      <3> QED BY <3>1, <3>2
    <2>4. g = [n \in 0..10 |-> g[n]]
      BY DEF g
    <2> QED BY <2>3, <2>4
  <1>2. need = Body(need)
    <2> HIDE DEF Body, g
    <2>1. \E f : f = Body(f)
      BY <1>1
    <2> QED BY <2>1, Zenon
  <1>3. NeededByFinalizer = need[10]
    BY TenSingles DEF NeededByFinalizer
  <1> HIDE DEF need, g
  <1>4. /\ need[0] = Reach0
        /\ \A n \in 1..10 : need[n] = Behind(need[n - 1])
    <2>1. \A n \in 0..10 :
            Body(need)[n] = IF n = 0 THEN {finalize}
                            ELSE need[n - 1] \cup UNION {RequiredJobKeys(j) : j \in need[n - 1]}
      OBVIOUS
    <2> HIDE DEF Body
    <2>2. \A n \in 0..10 : need[n] = Body(need)[n]
      BY <1>2
    <2>3. need[0] = Reach0
      BY <2>1, <2>2 DEF Reach0
    <2>4. ASSUME NEW n \in 1..10 PROVE need[n] = Behind(need[n - 1])
      <3>1. n \in 0..10 /\ n # 0
        OBVIOUS
      <3> QED BY <2>1, <2>2, <3>1 DEF Behind
    <2> QED BY <2>3, <2>4
  <1> HIDE DEF Body
  <1>5. need[1] = Reach1 /\ need[2] = Reach2 /\ need[3] = Reach3
    BY <1>4 DEF Reach1, Reach2, Reach3
  <1>6. need[4] = Reach4 /\ need[5] = Reach5 /\ need[6] = Reach6
    BY <1>4, <1>5 DEF Reach4, Reach5, Reach6
  <1>7. need[7] = Reach7 /\ need[8] = Reach8 /\ need[9] = Reach9
    BY <1>4, <1>6 DEF Reach7, Reach8, Reach9
  <1>8. need[10] = Reach10
    BY <1>4, <1>7 DEF Reach10
  <1> QED BY <1>3, <1>8

(* The finalizer needs every other job but the bootstrap.                  *)
LEMMA FinalizerNeedsAll == AllJobs \ {bootstrap} \subseteq NeededByFinalizer
  <1>1. finalize \in Reach0
    BY DEF Reach0
  <1>2. finalize \in Reach1 /\ narrative \in Reach1 /\ \A b \in privates : Private(b) \in Reach1
    BY <1>1, BehindGrows, RequiredKeys, JobsOf DEF Reach1
  <1>3. /\ finalize \in Reach2 /\ narrative \in Reach2 /\ finalScore \in Reach2
        /\ \A b \in privates : Private(b) \in Reach2
    BY <1>2, BehindGrows, RequiredKeys DEF Reach2
  <1>4. /\ {finalize, narrative, finalScore, reverseLikes, partnerSafety} \subseteq Reach3
        /\ \A b \in privates : Private(b) \in Reach3
    BY <1>3, BehindGrows, RequiredKeys DEF Reach3
  <1>5. /\ {finalize, narrative, finalScore, reverseLikes, partnerSafety, screening}
              \subseteq Reach4
        /\ \A b \in privates : Private(b) \in Reach4
    BY <1>4, BehindGrows, RequiredKeys DEF Reach4
  <1>6. /\ {finalize, narrative, finalScore, reverseLikes, partnerSafety, screening, primaryJoin}
              \subseteq Reach5
        /\ \A b \in privates : Private(b) \in Reach5
    BY <1>5, BehindGrows, RequiredKeys DEF Reach5
  <1>7. /\ Singles \ {bootstrap} \subseteq Reach6
        /\ \A b \in privates : Private(b) \in Reach6
        /\ \A b \in profiles : Ai(b) \in Reach6
    BY <1>6, BehindGrows, RequiredKeys, JobsOf DEF Reach6, Singles
  <1>8. /\ Singles \ {bootstrap} \subseteq Reach7
        /\ \A b \in privates : Private(b) \in Reach7
        /\ \A b \in profiles : Ai(b) \in Reach7 /\ Fetch(b) \in Reach7
    <2>1. Reach6 \subseteq Reach7
      BY BehindGrows DEF Reach7
    <2>2. ASSUME NEW b \in profiles PROVE Fetch(b) \in Reach7
      <3>1. RequiredJobKeys(Ai(b)) \subseteq Reach7
        BY <1>7, BehindGrows DEF Reach7
      <3> QED BY <3>1, RequiredKeys
    <2> QED BY <1>7, <2>1, <2>2
  <1>9. Reach7 \subseteq Reach10
    BY BehindGrows DEF Reach8, Reach9, Reach10
  <1>10. ASSUME NEW j \in AllJobs, j # bootstrap PROVE j \in Reach7
    BY <1>8, <1>10, JobsOf
  <1> QED BY <1>9, <1>10, NeededIsReached

-----------------------------------------------------------------------------
(* The plan.                                                               *)

(* Manifests are there of jobs whose requirements have theirs; batches are *)
(* only known from the manifest of the relationships job.                  *)
PlanInv ==
    /\ known \subseteq AllJobs \ {finalize} /\ bootstrap \in known
    /\ relationships \notin known => profiles = {} /\ privates = {}
    /\ \A j \in known : RequiredJobKeys(j) \subseteq known

(* The jobs that are planned, one by one, by the rules of readinessFor.    *)
LEMMA PlannedJobs ==
    /\ Planned \subseteq AllJobs
    /\ {bootstrap, relationships, targetEvidence} \subseteq Planned
    /\ \A b \in profiles : /\ Fetch(b) \in Planned <=> relationships \in known
                           /\ Ai(b) \in Planned <=> Fetch(b) \in known
    /\ \A b \in privates : Private(b) \in Planned <=> relationships \in known
    /\ primaryJoin \in Planned <=> PrimaryJoinReady
    /\ screening \in Planned <=> primaryJoin \in known
    /\ \A j \in {reverseLikes, partnerSafety} : j \in Planned <=> screening \in known
    /\ finalScore \in Planned <=> FinalScoreReady
    /\ narrative \in Planned <=> finalScore \in known
    /\ finalize \in Planned <=> FinalizeReady
  <1>1. Planned \subseteq AllJobs
    BY DEF Planned, AllJobs, Singles
  <1>2. {bootstrap, relationships, targetEvidence} \subseteq Planned
    BY DEF Planned
  <1>3. ASSUME NEW b \in profiles
        PROVE  /\ Fetch(b) \in Planned <=> relationships \in known
               /\ Ai(b) \in Planned <=> Fetch(b) \in known
    BY Kinds, JobsOf, Batches DEF Planned
  <1>4. ASSUME NEW b \in privates
        PROVE  Private(b) \in Planned <=> relationships \in known
    BY Kinds, JobsOf, Batches DEF Planned
  <1>5. primaryJoin \in Planned <=> PrimaryJoinReady
    BY Kinds, JobsOf DEF Planned
  <1>6. screening \in Planned <=> primaryJoin \in known
    BY Kinds, JobsOf DEF Planned
  <1>7. \A j \in {reverseLikes, partnerSafety} : j \in Planned <=> screening \in known
    BY Kinds, JobsOf DEF Planned
  <1>8. finalScore \in Planned <=> FinalScoreReady
    BY Kinds, JobsOf DEF Planned
  <1>9. narrative \in Planned <=> finalScore \in known
    BY Kinds, JobsOf DEF Planned
  <1>10. finalize \in Planned <=> FinalizeReady
    BY Kinds, JobsOf DEF Planned
  <1> QED BY <1>1, <1>2, <1>3, <1>4, <1>5, <1>6, <1>7, <1>8, <1>9, <1>10

(* The readiness rules are the required keys: a job is planned when each   *)
(* job it requires has its manifest.  The rules also ask for jobs that are *)
(* not required, and these have theirs as well by then.                    *)
LEMMA PlanIsReadiness ==
    ASSUME PlanInv
    PROVE  Planned = {k \in AllJobs : RequiredJobKeys(k) \subseteq known}
  <1>1. ASSUME NEW k \in Singles PROVE k \in Planned <=> RequiredJobKeys(k) \subseteq known
    <2>1. CASE k \in {bootstrap, relationships, targetEvidence}
      BY <2>1, PlannedJobs, RequiredKeys
    <2>2. CASE k = primaryJoin
      <3>1. ASSUME NEW b \in profiles, Ai(b) \in known PROVE Fetch(b) \in known
        BY <3>1, RequiredKeys DEF PlanInv
      <3> QED BY <2>2, <3>1, PlannedJobs, RequiredKeys, JobsOf DEF PrimaryJoinReady
    <2>3. CASE k \in {screening, reverseLikes, partnerSafety, narrative}
      BY <2>3, PlannedJobs, RequiredKeys
    <2>4. CASE k = finalScore
      <3>1. reverseLikes \in known => screening \in known
        BY RequiredKeys DEF PlanInv
      <3> QED BY <2>4, <3>1, PlannedJobs, RequiredKeys DEF FinalScoreReady
    <2>5. CASE k = finalize
      <3>1. /\ narrative \in known => finalScore \in known
            /\ finalScore \in known => reverseLikes \in known
            /\ reverseLikes \in known => screening \in known
            /\ screening \in known => primaryJoin \in known
            /\ primaryJoin \in known => relationships \in known
        BY RequiredKeys DEF PlanInv
      <3> QED BY <2>5, <3>1, PlannedJobs, RequiredKeys DEF FinalizeReady
    <2> QED BY <2>1, <2>2, <2>3, <2>4, <2>5 DEF Singles
  <1>2. ASSUME NEW b \in profiles
        PROVE  /\ Fetch(b) \in Planned <=> RequiredJobKeys(Fetch(b)) \subseteq known
               /\ Ai(b) \in Planned <=> RequiredJobKeys(Ai(b)) \subseteq known
    BY PlannedJobs, RequiredKeys
  <1>3. ASSUME NEW b \in privates
        PROVE  Private(b) \in Planned <=> RequiredJobKeys(Private(b)) \subseteq known
    BY PlannedJobs, RequiredKeys
  <1>4. \A k \in AllJobs : k \in Planned <=> RequiredJobKeys(k) \subseteq known
    BY <1>1, <1>2, <1>3, JobsOf
  <1> QED BY <1>4, PlannedJobs

(* What the planner proposes for a job, before it looks at what is ready. *)
Dependents(owner) ==
    CASE owner = bootstrap -> {relationships, targetEvidence}
      [] owner = relationships -> ProfileJobs \cup PrivateNameJobs \cup {primaryJoin}
      [] owner.kind = "profileFetch" -> {[owner EXCEPT !.kind = "profileAi"]}
      [] owner = targetEvidence \/ owner.kind = "profileAi" -> {primaryJoin}
      [] owner = primaryJoin -> {screening}
      [] owner = screening -> {reverseLikes, partnerSafety}
      [] owner \in {reverseLikes, partnerSafety} -> {finalScore}
      [] owner = finalScore -> {narrative}
      [] owner = narrative \/ owner.kind = "privateName" -> {finalize}
      [] OTHER -> {}

(* The list of proposals, one by one. *)
LEMMA DependentsOf ==
    /\ \A b : /\ Dependents(Fetch(b)) = {Ai(b)} /\ Dependents(Ai(b)) = {primaryJoin}
              /\ Dependents(Private(b)) = {finalize}
    /\ Dependents(bootstrap) = {relationships, targetEvidence}
    /\ Dependents(relationships) = ProfileJobs \cup PrivateNameJobs \cup {primaryJoin}
    /\ Dependents(targetEvidence) = {primaryJoin}
    /\ Dependents(primaryJoin) = {screening}
    /\ Dependents(screening) = {reverseLikes, partnerSafety}
    /\ \A j \in {reverseLikes, partnerSafety} : Dependents(j) = {finalScore}
    /\ Dependents(finalScore) = {narrative}
    /\ Dependents(narrative) = {finalize}
    /\ Dependents(finalize) = {}
  <1>1. ASSUME NEW b PROVE Dependents(Fetch(b)) = {Ai(b)}
    BY Kinds, Batches DEF Dependents
  <1>2. ASSUME NEW b PROVE Dependents(Ai(b)) = {primaryJoin}
    BY Kinds DEF Dependents
  <1>3. ASSUME NEW b PROVE Dependents(Private(b)) = {finalize}
    BY Kinds DEF Dependents
  <1>4. Dependents(bootstrap) = {relationships, targetEvidence}
    BY Kinds DEF Dependents
  <1>5. Dependents(relationships) = ProfileJobs \cup PrivateNameJobs \cup {primaryJoin}
    BY Kinds DEF Dependents
  <1>6. Dependents(targetEvidence) = {primaryJoin} /\ Dependents(primaryJoin) = {screening}
    BY Kinds DEF Dependents
  <1>7. Dependents(screening) = {reverseLikes, partnerSafety}
    BY Kinds DEF Dependents
  <1>8. \A j \in {reverseLikes, partnerSafety} : Dependents(j) = {finalScore}
    BY Kinds DEF Dependents
  <1>9. Dependents(finalScore) = {narrative} /\ Dependents(narrative) = {finalize}
    BY Kinds DEF Dependents
  <1>10. Dependents(finalize) = {}
    BY Kinds DEF Dependents
  <1> QED BY <1>1, <1>2, <1>3, <1>4, <1>5, <1>6, <1>7, <1>8, <1>9, <1>10

(* The list is the inverse of the requirements. *)
LEMMA DependentsAreInverse ==
    \A j, k \in AllJobs : k \in Dependents(j) <=> j \in Dag!Proposers(k)
  <1>1. \A k \in AllJobs :
            Dag!Proposers(k) = IF k = bootstrap THEN {}
                               ELSE IF RequiredJobKeys(k) = {} THEN {bootstrap}
                               ELSE RequiredJobKeys(k)
    BY DEF Dag!Proposers
  <1> SUFFICES ASSUME NEW j \in AllJobs, NEW k \in AllJobs
               PROVE  k \in Dependents(j) <=> j \in Dag!Proposers(k)
    OBVIOUS
  <1>2. CASE k = bootstrap
    <2>1. CASE j \in Singles
      BY <1>1, <1>2, <2>1, DependentsOf, Kinds, JobsOf DEF Singles
    <2>2. CASE j \notin Singles
      BY <1>1, <1>2, <2>2, DependentsOf, Kinds, JobsOf
    <2> QED BY <2>1, <2>2
  <1>3. CASE k \in {relationships, targetEvidence}
    <2>1. Dag!Proposers(k) = {bootstrap}
      BY <1>1, <1>3, RequiredKeys, Kinds
    <2>2. CASE j \in Singles
      BY <1>3, <2>1, <2>2, DependentsOf, Kinds, JobsOf DEF Singles
    <2>3. CASE j \notin Singles
      BY <1>3, <2>1, <2>3, DependentsOf, Kinds, JobsOf DEF Singles
    <2> QED BY <2>2, <2>3
  <1>4. CASE k \in Singles \ {bootstrap, relationships, targetEvidence}
    <2>1. Dag!Proposers(k) = RequiredJobKeys(k)
      BY <1>1, <1>4, RequiredKeys DEF Singles
    <2>2. CASE j \in Singles
      BY <1>4, <2>1, <2>2, DependentsOf, RequiredKeys, Kinds, JobsOf DEF Singles
    <2>3. ASSUME NEW b \in profiles, j = Fetch(b) \/ j = Ai(b)
          PROVE  k \in Dependents(j) <=> j \in Dag!Proposers(k)
      BY <1>4, <2>1, <2>3, DependentsOf, RequiredKeys, Kinds, JobsOf DEF Singles
    <2>4. ASSUME NEW b \in privates, j = Private(b)
          PROVE  k \in Dependents(j) <=> j \in Dag!Proposers(k)
      BY <1>4, <2>1, <2>4, DependentsOf, RequiredKeys, Kinds, JobsOf DEF Singles
    <2> QED BY <2>2, <2>3, <2>4, JobsOf
  <1>5. ASSUME NEW b \in profiles, k = Fetch(b) \/ k = Ai(b)
        PROVE  k \in Dependents(j) <=> j \in Dag!Proposers(k)
    <2>1. Dag!Proposers(k) = RequiredJobKeys(k)
      BY <1>1, <1>5, RequiredKeys, Kinds
    <2>2. CASE j \in Singles
      BY <1>5, <2>1, <2>2, DependentsOf, RequiredKeys, Kinds, JobsOf DEF Singles
    <2>3. ASSUME NEW c \in profiles, j = Fetch(c) \/ j = Ai(c)
          PROVE  k \in Dependents(j) <=> j \in Dag!Proposers(k)
      BY <1>5, <2>1, <2>3, DependentsOf, RequiredKeys, Kinds, Batches
    <2>4. ASSUME NEW c \in privates, j = Private(c)
          PROVE  k \in Dependents(j) <=> j \in Dag!Proposers(k)
      BY <1>5, <2>1, <2>4, DependentsOf, RequiredKeys, Kinds
    <2> QED BY <2>2, <2>3, <2>4, JobsOf
  <1>6. ASSUME NEW b \in privates, k = Private(b)
        PROVE  k \in Dependents(j) <=> j \in Dag!Proposers(k)
    <2>1. Dag!Proposers(k) = RequiredJobKeys(k)
      BY <1>1, <1>6, RequiredKeys, Kinds
    <2>2. CASE j \in Singles
      BY <1>6, <2>1, <2>2, DependentsOf, RequiredKeys, Kinds, JobsOf DEF Singles
    <2>3. CASE j \notin Singles
      BY <1>6, <2>1, <2>3, DependentsOf, RequiredKeys, Kinds, JobsOf
    <2> QED BY <2>2, <2>3
  <1> QED BY <1>2, <1>3, <1>4, <1>5, <1>6, JobsOf

(* The proposals are the rule of AnalysisDag, in every state of the plan.  *)
LEMMA ProposalsAreTheRule == PlanInv => ProposalsFollowRequirements
  <1> SUFFICES ASSUME PlanInv, NEW j \in known
               PROVE  j \in ProposalOwners /\ Proposed(j) = Dag!Successors(j, known)
    BY DEF ProposalsFollowRequirements
  <1>1. j \in ProposalOwners /\ j \in AllJobs
    BY DEF PlanInv, ProposalOwners
  <1>2. Proposed(j) = Planned \cap Dependents(j)
    BY DEF Proposed, Dependents
  <1>3. \A k \in AllJobs : k \in Proposed(j) <=>
            j \in Dag!Proposers(k) /\ RequiredJobKeys(k) \subseteq known
    BY <1>1, <1>2, PlanIsReadiness, DependentsAreInverse
  <1>4. Proposed(j) \subseteq AllJobs
    BY <1>2, PlannedJobs
  <1>5. Dag!Successors(j, known) =
            {k \in AllJobs : j \in Dag!Proposers(k) /\ RequiredJobKeys(k) \subseteq known}
    BY DEF Dag!Successors
  <1> QED BY <1>1, <1>3, <1>4, <1>5

-----------------------------------------------------------------------------
(* Before the relationships job nothing depends on the batches.            *)
LEMMA BeforeRelationships ==
    ASSUME PlanInv, relationships \notin known
    PROVE  known \subseteq {bootstrap, targetEvidence}
  <1>1. /\ primaryJoin \notin known /\ screening \notin known /\ reverseLikes \notin known
        /\ partnerSafety \notin known /\ finalScore \notin known /\ narrative \notin known
    <2>1. primaryJoin \notin known
      BY RequiredKeys DEF PlanInv
    <2>2. screening \notin known
      BY <2>1, RequiredKeys DEF PlanInv
    <2>3. reverseLikes \notin known /\ partnerSafety \notin known
      BY <2>2, RequiredKeys DEF PlanInv
    <2>4. finalScore \notin known
      BY <2>3, RequiredKeys DEF PlanInv
    <2> QED BY <2>1, <2>2, <2>3, <2>4, RequiredKeys DEF PlanInv
  <1>2. \A j \in known : j \in Singles
    BY JobsOf DEF PlanInv
  <1> QED BY <1>1, <1>2 DEF PlanInv, Singles

(* A checkpoint adds one manifest; the batches change with the first one   *)
(* of the relationships job only.                                          *)
LEMMA PlanStep ==
    ASSUME PlanInv, [Next]_vars
    PROVE  /\ PlanInv'
           /\ Planned \subseteq Planned'
           /\ \A k \in Planned : RequiredJobKeys(k)' = RequiredJobKeys(k)
  <1>1. CASE CheckpointRelationships
    <2>1. /\ known' = known \cup {relationships} /\ relationships \notin known
          /\ known \subseteq {bootstrap, targetEvidence}
          /\ profiles = {} /\ privates = {}
      BY <1>1, BeforeRelationships DEF CheckpointRelationships, PlanInv
    <2>2. \A j \in {bootstrap, relationships, targetEvidence} : RequiredJobKeys(j)' = {}
      BY Kinds DEF RequiredJobKeys
    <2>3. PlanInv'
      <3>1. known' \subseteq {bootstrap, targetEvidence, relationships}
        BY <2>1
      <3>2. known' \subseteq AllJobs' \ {finalize}
        BY <3>1, Kinds DEF AllJobs, Singles
      <3> QED BY <2>1, <2>2, <3>1, <3>2 DEF PlanInv
    <2>4. Planned = {bootstrap, relationships, targetEvidence}
      <3>1. AllJobs = Singles
        BY <2>1, JobsOf DEF AllJobs
      <3>2. ASSUME NEW k \in Singles, RequiredJobKeys(k) \subseteq {bootstrap, targetEvidence}
            PROVE  k \in {bootstrap, relationships, targetEvidence}
        BY <3>2, RequiredKeys, Kinds DEF Singles
      <3> QED BY <2>1, <3>1, <3>2, PlanIsReadiness, PlannedJobs
    <2>5. {bootstrap, relationships, targetEvidence} \subseteq Planned'
      BY DEF Planned
    <2> QED BY <2>2, <2>3, <2>4, <2>5, RequiredKeys
  <1>2. ASSUME NEW j \in AllJobs, CheckpointManifest(j)
        PROVE  /\ PlanInv'
               /\ Planned \subseteq Planned'
               /\ \A k \in Planned : RequiredJobKeys(k)' = RequiredJobKeys(k)
    <2>1. /\ j \in Planned /\ j # finalize /\ j # relationships
          /\ known' = known \cup {j} /\ profiles' = profiles /\ privates' = privates
      BY <1>2 DEF CheckpointManifest
    <2>2. AllJobs' = AllJobs /\ \A k : RequiredJobKeys(k)' = RequiredJobKeys(k)
      BY <2>1 DEF AllJobs, RequiredJobKeys, ProfileJobs, ProfileAiJobs, PrivateNameJobs
    <2>3. RequiredJobKeys(j) \subseteq known
      BY <2>1, PlanIsReadiness
    <2>4. PlanInv'
      BY <2>1, <2>2, <2>3 DEF PlanInv
    <2>5. Planned \subseteq Planned'
      <3>1. known \subseteq known'
        BY <2>1
      <3>2. /\ PrimaryJoinReady => PrimaryJoinReady'
            /\ FinalScoreReady => FinalScoreReady'
            /\ FinalizeReady => FinalizeReady'
        BY <2>1, <3>1 DEF PrimaryJoinReady, FinalScoreReady, FinalizeReady, ProfileJobs,
                          ProfileAiJobs, PrivateNameJobs
      <3>3. /\ ProfileJobs' = ProfileJobs /\ ProfileAiJobs' = ProfileAiJobs
            /\ PrivateNameJobs' = PrivateNameJobs
        BY <2>1 DEF ProfileJobs, ProfileAiJobs, PrivateNameJobs
      <3> SUFFICES ASSUME NEW k \in Planned PROVE k \in Planned'
        OBVIOUS
      <3>4. CASE k \in {bootstrap, relationships, targetEvidence}
        BY <3>4 DEF Planned
      <3>5. CASE k \in ProfileJobs \cup PrivateNameJobs /\ relationships \in known
        BY <3>1, <3>3, <3>5 DEF Planned
      <3>6. CASE k \in ProfileAiJobs /\ [k EXCEPT !.kind = "profileFetch"] \in known
        BY <3>1, <3>3, <3>6 DEF Planned
      <3>7. CASE k \in Singles \ {bootstrap, relationships, targetEvidence}
        <4>1. \/ k = primaryJoin /\ PrimaryJoinReady
              \/ k = screening /\ primaryJoin \in known
              \/ k \in {reverseLikes, partnerSafety} /\ screening \in known
              \/ k = finalScore /\ FinalScoreReady
              \/ k = narrative /\ finalScore \in known
              \/ k = finalize /\ FinalizeReady
          BY <3>7, PlannedJobs DEF Singles
        <4> QED BY <3>1, <3>2, <4>1 DEF Planned
      <3> QED BY <3>4, <3>5, <3>6, <3>7 DEF Planned, Singles
    <2> QED BY <2>2, <2>4, <2>5
  <1>3. CASE UNCHANGED vars
    <2>1. known' = known /\ profiles' = profiles /\ privates' = privates
      BY <1>3 DEF vars
    <2>2. /\ AllJobs' = AllJobs /\ Planned' = Planned
          /\ \A k : RequiredJobKeys(k)' = RequiredJobKeys(k)
      BY <2>1 DEF AllJobs, Planned, RequiredJobKeys, ProfileJobs, ProfileAiJobs, PrivateNameJobs,
                  PrimaryJoinReady, FinalScoreReady, FinalizeReady
    <2> QED BY <2>1, <2>2 DEF PlanInv
  <1> QED BY <1>1, <1>2, <1>3 DEF Next

-----------------------------------------------------------------------------
(* Manifests come in the order of the requirements, and no batch is known  *)
(* before the relationships job: PlanInv holds in every reachable state.   *)
THEOREM PlanInvariant == Spec => []PlanInv
  <1>1. Init => PlanInv
    <2> SUFFICES ASSUME Init PROVE PlanInv
      OBVIOUS
    <2>1. known = {bootstrap} /\ profiles = {} /\ privates = {}
      BY DEF Init
    <2>2. bootstrap \in AllJobs \ {finalize}
      BY Kinds DEF AllJobs, Singles
    <2> QED BY <2>1, <2>2, RequiredKeys DEF PlanInv
  <1>2. PlanInv /\ [Next]_vars => PlanInv'
    BY PlanStep
  <1> QED BY <1>1, <1>2, PTL DEF Spec

(* Whatever batches the relationships job finds, and however many, the     *)
(* graph of the planner is one that the ledger and the pipeline assume,    *)
(* and the finalizer comes after every other job (requiredJobKeys).        *)
THEOREM GraphAlwaysAssumed == Spec => []GraphIsAssumed
  <1>1. GraphIsAssumed
    BY DagAssumed, FinalizerNeedsAll DEF GraphIsAssumed
  <1> QED BY <1>1, PTL

(* The proposals of buildAnalysisV2DagPlan are the rule of AnalysisDag, so *)
(* its readiness rules, required keys and proposals agree.                 *)
THEOREM ProposalsAlwaysFollow == Spec => []ProposalsFollowRequirements
  BY PlanInvariant, ProposalsAreTheRule, PTL

(* Plans made from different manifests agree: what is planned stays        *)
(* planned with its required keys.                                         *)
THEOREM PlansGrow == Spec => PlanOnlyGrows
  <1>1. PlanInv /\ [Next]_vars =>
            [\A k \in Planned : k \in Planned' /\ RequiredJobKeys(k)' = RequiredJobKeys(k)]_vars
    BY PlanStep
  <1> QED BY <1>1, PlanInvariant, PTL DEF Spec, PlanOnlyGrows
=============================================================================
