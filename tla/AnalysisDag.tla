---------------------------- MODULE AnalysisDag ----------------------------
(***************************************************************************)
(* The dependency graph of one V2 analysis request, as the planner in      *)
(* lib/services/analysis/v2-dag-planner.ts derives it from the checkpoint  *)
(* manifests.  A job is planned only once every job it requires has        *)
(* checkpointed its manifest, and a completed job proposes the planned     *)
(* jobs that require it.  The jobs that require nothing are proposed by    *)
(* the bootstrap job.  AnalysisDagTopology shows that the planner's own    *)
(* list of proposals is this rule on the production graph.                 *)
(***************************************************************************)
EXTENDS FiniteSets

CONSTANTS
    Jobs,       \* the job keys of the request
    Bootstrap,  \* 'coordinator:bootstrap'
    Finalizer,  \* 'coordinator:finalize'
    Requires    \* requiredJobKeys of every job

ASSUME DagAssumption ==
    /\ Bootstrap \in Jobs
    /\ Finalizer \in Jobs \ {Bootstrap}
    /\ Requires \in [Jobs -> SUBSET Jobs]
    /\ Requires[Bootstrap] = {}
    /\ Requires[Finalizer] # {}
    /\ \A j \in Jobs : j \notin Requires[j] /\ Finalizer \notin Requires[j]

(* The jobs whose completion may insert k. *)
Proposers(k) ==
    IF k = Bootstrap THEN {}
    ELSE IF Requires[k] = {} THEN {Bootstrap}
    ELSE Requires[k]

(* The jobs that the plan built from the manifests of `known` proposes     *)
(* when j completes.                                                       *)
Successors(j, known) ==
    {k \in Jobs : j \in Proposers(k) /\ Requires[k] \subseteq known}

(* Everything j may ever propose, whatever it saw of the other manifests.  *)
Proposals(j) == Successors(j, Jobs)
=============================================================================
