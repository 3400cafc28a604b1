---------------------------- MODULE MCScheduler -----------------------------
(* Instances of Scheduler for TLC: tasks are interchangeable.              *)
EXTENDS Scheduler, TLC

TaskSymmetry == Permutations(Tasks)
=============================================================================
