---------------------------- MODULE MCMatchSync ----------------------------
(* MatchSync on small instances. *)
EXTENDS MatchSync, TLC

MCOnePoint == {1}
MCTopics == Topics

Symmetry == Permutations(Tasks)
=============================================================================
