------------------------------- MODULE MCTask -------------------------------
(* TaskService with interchangeable threads and tasks, for MCTaskSafety.   *)
EXTENDS TaskService, TLC

Symmetry == Permutations(Thread) \union Permutations(Task)
=============================================================================
