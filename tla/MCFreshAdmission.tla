-------------------------- MODULE MCFreshAdmission --------------------------
(* Small instances of FreshAdmission for TLC. *)
EXTENDS FreshAdmission, TLC
=============================================================================
