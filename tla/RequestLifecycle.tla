-------------------------- MODULE RequestLifecycle --------------------------
(***************************************************************************)
(* What the job ledger promises of one analysis request, without leases,   *)
(* tasks or retries: jobs settle in dependency order, at most one of them  *)
(* becomes the owner of a terminal failure, a request that has an owner    *)
(* can only fail, and a published or failed request never changes again.   *)
(***************************************************************************)
EXTENDS AnalysisDag

CONSTANT NoJob   \* "no job owns a failure"

VARIABLES
    phase,   \* "running", "failing", "published" or "failed"
    done,    \* the completed jobs
    owner    \* the job the failure is charged to, or NoJob

vars == <<phase, done, owner>>

Init ==
    /\ phase = "running"
    /\ done = {}
    /\ owner = NoJob

(* A job completes; a failure that is being cleaned up does not stop the   *)
(* jobs that still hold a claim.                                           *)
Settle(j) ==
    /\ phase \in {"running", "failing"}
    /\ j \notin done /\ j # Finalizer
    /\ Requires[j] \subseteq done
    /\ done' = done \cup {j}
    /\ UNCHANGED <<phase, owner>>

Publish ==
    /\ phase = "running"
    /\ Requires[Finalizer] \subseteq done
    /\ phase' = "published"
    /\ done' = done \cup {Finalizer}
    /\ UNCHANGED owner

BeginFailure(j) ==
    /\ phase = "running"
    /\ phase' = "failing"
    /\ owner' = j
    /\ UNCHANGED done

Fail ==
    /\ phase = "failing"
    /\ phase' = "failed"
    /\ UNCHANGED <<done, owner>>

Next ==
    \/ \E j \in Jobs : Settle(j) \/ BeginFailure(j)
    \/ Publish
    \/ Fail

Spec == Init /\ [][Next]_vars
=============================================================================
