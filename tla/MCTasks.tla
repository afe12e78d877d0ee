------------------------------- MODULE MCTasks -------------------------------
(* Model-checking instance of Tasks: see MCTasks.cfg. *)
EXTENDS Tasks
=============================================================================
