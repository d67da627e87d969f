------------------------ MODULE MCProviderAdmission ------------------------
(* Small instances of ProviderAdmission for TLC. *)
EXTENDS ProviderAdmission, TLC

CONSTANTS relation, profile, global, slot

(* A global ceiling of one, and a slot that counts one of two operations.  *)
TwoOps == {relation, profile}
OneBudget == {global, slot}
OneCovers == (global :> TwoOps) @@ (slot :> {relation})
TwoAttempts == (relation :> 2) @@ (profile :> 1)
EqualAttempts == (relation :> 2) @@ (profile :> 2)
OneActive == (global :> 1) @@ (slot :> 1)
=============================================================================
