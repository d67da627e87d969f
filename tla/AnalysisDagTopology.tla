------------------------ MODULE AnalysisDagTopology ------------------------
(***************************************************************************)
(* buildAnalysisV2DagPlan of lib/services/analysis/v2-dag-planner.ts on    *)
(* the production graph: which jobs it plans, with which required keys,    *)
(* and which successors it proposes for each completed job, from the       *)
(* manifests that are checkpointed so far.  The graph itself is only known *)
(* when the relationships job checkpoints the batches it found.            *)
(*                                                                         *)
(* AnalysisDag states the rule the ledger modules are built on; here the   *)
(* planner's own list of proposals is shown to be that rule.               *)
(***************************************************************************)
EXTENDS Naturals, FiniteSets

CONSTANT MaxBatches   \* bound: profile batches and private-name batches

VARIABLES
    known,     \* the jobs with a checkpointed manifest
    profiles,  \* relationships.profileBatches
    privates   \* relationships.privateNameBatches

vars == <<known, profiles, privates>>

Single(kind) == [kind |-> kind, batch |-> 0]
BatchJobs(kind, batches) == {[kind |-> kind, batch |-> b] : b \in batches}

bootstrap == Single("bootstrap")
relationships == Single("relationships")
targetEvidence == Single("targetEvidence")
primaryJoin == Single("primaryJoin")
screening == Single("screening")
reverseLikes == Single("reverseLikes")
partnerSafety == Single("partnerSafety")
finalScore == Single("finalScore")
narrative == Single("narrative")
finalize == Single("finalize")

ProfileJobs == BatchJobs("profileFetch", profiles)
ProfileAiJobs == BatchJobs("profileAi", profiles)
PrivateNameJobs == BatchJobs("privateName", privates)

Singles ==
    {bootstrap, relationships, targetEvidence, primaryJoin, screening, reverseLikes,
     partnerSafety, finalScore, narrative, finalize}
AllJobs == Singles \cup ProfileJobs \cup ProfileAiJobs \cup PrivateNameJobs

(* Definitions whose comment begins with "Broken" are never used: each is  *)
(* a plausible bug in the definition that follows, put in its place to see *)
(* that TLC reports it.                                                    *)

(* Broken: the finalizer only waits for private names.                     *)
RequiredJobKeysForgetful(j) ==
    CASE j.kind \in {"profileFetch", "privateName"} -> {relationships}
      [] j.kind = "profileAi" -> {[j EXCEPT !.kind = "profileFetch"]}
      [] j = primaryJoin -> {relationships, targetEvidence} \cup ProfileAiJobs
      [] j = screening -> {primaryJoin}
      [] j \in {reverseLikes, partnerSafety} -> {screening}
      [] j = finalScore -> {reverseLikes, partnerSafety}
      [] j = narrative -> {finalScore}
      [] j = finalize -> PrivateNameJobs
      [] OTHER -> {}

RequiredJobKeys(j) ==
    CASE j.kind \in {"profileFetch", "privateName"} -> {relationships}
      [] j.kind = "profileAi" -> {[j EXCEPT !.kind = "profileFetch"]}
      [] j = primaryJoin -> {relationships, targetEvidence} \cup ProfileAiJobs
      [] j = screening -> {primaryJoin}
      [] j \in {reverseLikes, partnerSafety} -> {screening}
      [] j = finalScore -> {reverseLikes, partnerSafety}
      [] j = narrative -> {finalScore}
      [] j = finalize -> {narrative} \cup PrivateNameJobs
      [] OTHER -> {}

-----------------------------------------------------------------------------
(* readinessFor *)
(* Broken: a join over the profile batches that were fetched so far.       *)
PrimaryJoinReadyReduced ==
    {relationships, targetEvidence} \cup ProfileJobs \subseteq known

(* Broken: a request without profile batches is never ready.               *)
PrimaryJoinReadyNonEmpty ==
    /\ profiles # {}
    /\ {relationships, targetEvidence} \cup ProfileJobs \cup ProfileAiJobs \subseteq known

PrimaryJoinReady ==
    {relationships, targetEvidence} \cup ProfileJobs \cup ProfileAiJobs \subseteq known
FinalScoreReady == {screening, reverseLikes, partnerSafety} \subseteq known

(* Broken: no private name batch is missing as long as none is known.      *)
FinalizeReadyEarly == PrivateNameJobs \subseteq known

FinalizeReady == {narrative, relationships} \cup PrivateNameJobs \subseteq known

(* The jobs of the plan.                                                   *)
Planned ==
    {bootstrap, relationships, targetEvidence}
        \cup {k \in ProfileJobs \cup PrivateNameJobs : relationships \in known}
        \cup {k \in ProfileAiJobs : [k EXCEPT !.kind = "profileFetch"] \in known}
        \cup {k \in {primaryJoin} : PrimaryJoinReady}
        \cup {k \in {screening} : primaryJoin \in known}
        \cup {k \in {reverseLikes, partnerSafety} : screening \in known}
        \cup {k \in {finalScore} : FinalScoreReady}
        \cup {k \in {narrative} : finalScore \in known}
        \cup {k \in {finalize} : FinalizeReady}

(* The owners the planner adds proposals for, and what it proposes.        *)
ProposalOwners ==
    {bootstrap} \cup (known \ {finalize}) \cup (Planned \cap {finalize})

Proposed(owner) == Planned \cap
    CASE owner = bootstrap -> {relationships, targetEvidence}
      [] owner = relationships -> ProfileJobs \cup PrivateNameJobs \cup {primaryJoin}
      [] owner.kind = "profileFetch" -> {[owner EXCEPT !.kind = "profileAi"]}
      [] owner = targetEvidence \/ owner.kind = "profileAi" -> {primaryJoin}
      [] owner = primaryJoin -> {screening}
      [] owner = screening -> {reverseLikes, partnerSafety}
      [] owner \in {reverseLikes, partnerSafety} -> {finalScore}
      [] owner = finalScore -> {narrative}
      [] owner = narrative \/ owner.kind = "privateName" -> {finalize}
      [] OTHER -> {}

-----------------------------------------------------------------------------
Init ==
    /\ known = {bootstrap}
    /\ profiles = {} /\ privates = {}

(* Some planned job checkpoints its manifest; the relationships job finds  *)
(* the batches, possibly none.                                             *)
CheckpointRelationships ==
    /\ relationships \notin known
    /\ known' = known \cup {relationships}
    /\ \E m, n \in 0..MaxBatches : profiles' = 1..m /\ privates' = 1..n

CheckpointManifest(j) ==
    /\ j \in Planned \ (known \cup {relationships, finalize})
    /\ known' = known \cup {j}
    /\ UNCHANGED <<profiles, privates>>

Next == CheckpointRelationships \/ \E j \in AllJobs : CheckpointManifest(j)

Spec == Init /\ [][Next]_vars /\ WF_vars(Next)

-----------------------------------------------------------------------------
Dag == INSTANCE AnalysisDag WITH
    Jobs <- AllJobs, Bootstrap <- bootstrap, Finalizer <- finalize,
    Requires <- [j \in AllJobs |-> RequiredJobKeys(j)]

(* What the finalizer needs, directly or through others.                   *)
NeededByFinalizer ==
    LET need[n \in 0..Cardinality(Singles)] ==
            IF n = 0 THEN {finalize}
            ELSE need[n - 1] \cup UNION {RequiredJobKeys(j) : j \in need[n - 1]}
    IN  need[Cardinality(Singles)]

(* The production graph is of the kind the ledger and the pipeline assume: *)
(* whatever batches are found, the finalizer comes after every other job,  *)
(* so what is published has all of them behind it.                         *)
GraphIsAssumed ==
    /\ Dag!DagAssumption
    /\ AllJobs \ {bootstrap} \subseteq NeededByFinalizer

(* Whatever manifests a completing job sees, its own included, the planner *)
(* has proposals for it, and they are exactly the jobs that require it and *)
(* whose other requirements it sees too: the planner's readiness rules,    *)
(* its required keys and its list of proposals agree with each other.      *)
ProposalsFollowRequirements ==
    \A j \in known : j \in ProposalOwners /\ Proposed(j) = Dag!Successors(j, known)

(* A planned job stays planned and keeps its required keys when more       *)
(* manifests arrive, also when the batches become known: two processes     *)
(* that saw different manifests never propose the same job differently.    *)
PlanOnlyGrows ==
    [][\A k \in Planned :
          k \in Planned' /\ RequiredJobKeys(k)' = RequiredJobKeys(k)]_vars

(* Whatever batches are found, the finalizer is planned in the end.        *)
FinalizerIsReached == <>(finalize \in Planned)
=============================================================================
