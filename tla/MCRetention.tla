----------------------------- MODULE MCRetention -----------------------------
(* Small instances of Retention. *)
EXTENDS Retention

CONSTANT t1

OneTest == [r \in Runs |-> t1]
=============================================================================
