---------------------------- MODULE MCJobLedger ----------------------------
(* Small instances of JobLedger for TLC. *)
EXTENDS JobLedger, TLC

CONSTANTS boot, mid, fin, t1, t2

(* bootstrap -> mid -> finalizer *)
ChainJobs == {boot, mid, fin}
ChainRequires == (boot :> {}) @@ (mid :> {}) @@ (fin :> {mid})

TokenSymmetry == Permutations(Tokens)
=============================================================================
