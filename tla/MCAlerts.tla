------------------------------ MODULE MCAlerts ------------------------------
(* Instances of Alerts for TLC. *)
EXTENDS Alerts, TLC

CONSTANTS k1, k2

Alert(t, e, w, k) == [threshold |-> t, enabled |-> e, webhook |-> w, key |-> k]

\* Every setting takes two values or more, in combination with an ordinary one.
SomeConfigs ==
    {Alert(1, TRUE, FALSE, k1), Alert(2, TRUE, TRUE, k1), Alert(2, FALSE, TRUE, k1),
     Alert(2, TRUE, TRUE, NoKey), Alert(2, TRUE, FALSE, NoKey), Alert(3, TRUE, FALSE, k2)}

\* Only the threshold may be changed.
ThresholdConfigs == {Alert(1, TRUE, FALSE, k1), Alert(3, TRUE, FALSE, k1)}

Symmetric == Permutations(Runs) \cup Permutations(Clients)
=============================================================================
