----------------------------- MODULE MCStorage -----------------------------
(* A small instance of Storage: DELETE on a test's prefix and the sweeper on the
   folder of one of its runs, objects 2 and 3.  In the test's listing Supabase shows
   them as one folder without a name. *)
EXTENDS Storage, TLC

CONSTANTS delete, sweep

TestAndRun == delete :> Names @@ sweep :> {2, 3}

RunsAsFolder ==
    delete :> [n \in Names |-> IF n = 3 THEN 2 ELSE n] @@ sweep :> [n \in Names |-> n]

FolderNameless == delete :> {2} @@ sweep :> {}
=============================================================================
