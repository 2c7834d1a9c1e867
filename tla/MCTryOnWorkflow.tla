-------------------------- MODULE MCTryOnWorkflow --------------------------
(* Model values for TryOnWorkflow. *)
EXTENDS TryOnWorkflow, TLC

CONSTANTS e1, e2, c1

TwoExecutions == {e1, e2}
OneClient == {c1}
NoClient == {}

AnyStart == {"complete", "analysis_only", "failed", "repair_acceptance"}
AnyGenerate == {"complete", "failed", "repair_acceptance", "pending"}

\* What the web client asks for.
UsualStart == {"complete", "analysis_only"}
UsualGenerate == {"complete"}

\* Executions are interchangeable; used for safety only.
Symmetry == Permutations(TwoExecutions)
=============================================================================
