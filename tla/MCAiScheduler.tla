---------------------------- MODULE MCAiScheduler ----------------------------
(* Runs of two jobs in one process: one has operations of the stages 0 and *)
(* 1, the other of 1 and 2.                                                *)
EXTENDS AiScheduler, TLC

CONSTANTS r1, r2

MCRuns == {r1, r2}
MCStageCap == [s \in StageIds |-> 1]

Once(stages) == [s \in StageIds |-> IF s \in stages THEN 1 ELSE 0]
MCNeed == (r1 :> Once({0, 1})) @@ (r2 :> Once({1, 2}))
=============================================================================
