------------------------------ MODULE MCAiCalls ------------------------------
(* The calls of a job for one resolver under two of its claims, and a      *)
(* resolver of another job.                                                *)
EXTENDS AiCalls

CONSTANTS o1, o2

MCOps == {o1}
MCOthers == {o2}
MCResolver == {o1, o2}
=============================================================================
