------------------------------ MODULE TestStore ------------------------------
(***************************************************************************)
(* Tests, their variables and their artifacts as the callers of the API    *)
(* may think of them: every request takes effect in one step or not at     *)
(* all, and a test goes through its life once, in one direction.           *)
(***************************************************************************)
EXTENDS Naturals, FiniteSets

CONSTANTS Tests, VarNames, MaxVars

VARIABLES
    phase,       \* of a test: "unused", "uploaded", "live", "over"
    env,         \* the names of its variables
    artifacts    \* tests whose artifact is stored

vars == <<phase, env, artifacts>>

Init ==
    /\ phase = [t \in Tests |-> "unused"]
    /\ env = [t \in Tests |-> {}]
    /\ artifacts = {}

\* An upload stores the artifact; it goes on to create the test, or has failed.
Upload(t) ==
    /\ phase[t] = "unused"
    /\ phase' \in {[phase EXCEPT ![t] = p] : p \in {"uploaded", "over"}}
    /\ artifacts' = artifacts \cup {t}
    /\ UNCHANGED env

Create(t) ==
    /\ phase[t] = "uploaded"
    /\ phase' = [phase EXCEPT ![t] = "live"]
    /\ UNCHANGED <<env, artifacts>>

\* Uploads are given up; a restart gives up all of them.
Abandon(S) ==
    /\ \A t \in S : phase[t] = "uploaded"
    /\ phase' = [t \in Tests |-> IF t \in S THEN "over" ELSE phase[t]]
    /\ UNCHANGED <<env, artifacts>>

\* Only a live test takes a variable, and only within the limit.
SetVar(t, n) ==
    /\ phase[t] = "live"
    /\ Cardinality(env[t] \cup {n}) <= MaxVars
    /\ env' = [env EXCEPT ![t] = @ \cup {n}]
    /\ UNCHANGED <<phase, artifacts>>

UnsetVar(t, n) ==
    /\ phase[t] = "live"
    /\ env' = [env EXCEPT ![t] = @ \ {n}]
    /\ UNCHANGED <<phase, artifacts>>

\* The test goes with its variables, for good.
Delete(t) ==
    /\ phase[t] = "live"
    /\ phase' = [phase EXCEPT ![t] = "over"]
    /\ env' = [env EXCEPT ![t] = {}]
    /\ UNCHANGED artifacts

\* Only the artifact of a test that is over is removed.
RemoveArtifact(t) ==
    /\ phase[t] = "over"
    /\ artifacts' = artifacts \ {t}
    /\ UNCHANGED <<phase, env>>

Next ==
    \/ \E t \in Tests :
          \/ Upload(t) \/ Create(t) \/ Delete(t) \/ RemoveArtifact(t)
          \/ \E n \in VarNames : SetVar(t, n) \/ UnsetVar(t, n)
    \/ \E S \in SUBSET Tests : Abandon(S)

Spec == Init /\ [][Next]_vars
=============================================================================
