---------------------------- MODULE MCGoalAlerts ----------------------------
(* GoalAlerts for TLC: members and tasks are interchangeable.              *)
EXTENDS GoalAlerts, TLC

Symmetry == Permutations(Member) \cup Permutations(Task)
=============================================================================
