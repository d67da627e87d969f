------------------------- MODULE MCAnalysisPipeline -------------------------
(* Small instances of AnalysisPipeline for TLC. *)
EXTENDS AnalysisPipeline, TLC

CONSTANTS boot, mid, left1, right1, fin, p1, p2

(* bootstrap -> mid -> finalizer *)
ChainJobs == {boot, mid, fin}
ChainRequires == (boot :> {}) @@ (mid :> {}) @@ (fin :> {mid})

(* bootstrap -> {left, right} -> finalizer: a join *)
DiamondJobs == {boot, left1, right1, fin}
DiamondRequires ==
    (boot :> {}) @@ (left1 :> {}) @@ (right1 :> {}) @@ (fin :> {left1, right1})

(* at most two of the mishaps and waits in a behaviour *)
FewMishaps ==
    Used("stalls", MaxStalls) + Used("faults", MaxFaults) + Used("waits", MaxWaits) <= 2

ProcSymmetry == Permutations(Procs)
=============================================================================
