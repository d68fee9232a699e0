----------------------------- MODULE MCJobRunner -----------------------------
(* Instances of JobRunner for TLC. *)
EXTENDS JobRunner, TLC

CONSTANT t1

\* Every job is a run of the one test.
OneTest == [j \in Jobs |-> t1]

Symmetric == Permutations(Slots)
=============================================================================
