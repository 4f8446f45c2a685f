------------------------------- MODULE MCAutopilot -------------------------------
(* Autopilots beside managed workflows, for TLC. *)
EXTENDS Autopilot, TLC

CONSTANTS m1, p1, p2, a, b

(* one redraft of an autopilot, one audit retry of a managed workflow *)
Redraft == [r \in Runs |-> IF r \in ManagedRuns THEN 1 ELSE 2]

(* the guard decides at once *)
OneDraft == [r \in Runs |-> 1]

(* contents, and runs of one kind, are only compared with each other *)
Interchangeable == Permutations({a, b}) \cup Permutations({p1, p2})
==================================================================================
