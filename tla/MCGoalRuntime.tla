--------------------------- MODULE MCGoalRuntime ---------------------------
(* Instances of GoalRuntime for TLC; the constants are set in the configurations. *)
EXTENDS GoalRuntime
=============================================================================
