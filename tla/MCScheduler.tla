----------------------------- MODULE MCScheduler -----------------------------
(* Instances of Scheduler for TLC. *)
EXTENDS Scheduler, TLC

CONSTANTS daily, feb31   \* one expression that matches every instant, one that never does

MCCrons   == {daily, feb31}
MCMatches == (daily :> 1 .. Horizon) @@ (feb31 :> {})
=============================================================================
