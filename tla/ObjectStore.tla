----------------------------- MODULE ObjectStore -----------------------------
(***************************************************************************)
(* What the Storage interface promises, without pages, offsets,            *)
(* batches or backends: uploads and removals of single objects, and        *)
(* DeletePrefix as a call that takes time, during which objects its        *)
(* listing names, and no others, disappear at any moment.  Success is a    *)
(* promise about the objects that were there at the beginning and that the *)
(* listing shows: all of the prefix with MinIO, with Supabase not those    *)
(* behind a folder.                                                        *)
(***************************************************************************)

CONSTANTS Names,        \* of objects
          Callers,      \* of DeletePrefix
          PrefixOf,     \* the names under the prefix of each
          Nobody        \* not a caller

VARIABLES
    objs,       \* the objects
    status,     \* a call: "idle", "busy", or how it ended
    shown,      \* objects of its prefix the store shows each caller by name
    returned,   \* names the store may return to it
    owed,       \* objects there since the call began and not uploaded again
    excused     \* whether others removed objects the call may therefore have missed

listing == <<shown, returned>>
vars == <<objs, status, listing, owed, excused>>

Init ==
    /\ objs \in SUBSET Names
    /\ status = [c \in Callers |-> "idle"]
    /\ shown \in [Callers -> SUBSET Names] /\ returned \in [Callers -> SUBSET Names]
    /\ \A c \in Callers : shown[c] \subseteq PrefixOf[c] \cap returned[c]
    /\ owed = [c \in Callers |-> {}] /\ excused = [c \in Callers |-> FALSE]

UploadObject(n) ==
    /\ objs' = objs \cup {n}
    /\ owed' = [c \in Callers |-> owed[c] \ {n}]
    /\ UNCHANGED <<status, listing, excused>>

\* The objects B go, removed by a caller or by somebody else.  It may excuse the other
\* calls that are under way on them, and nothing else does.
Lose(by, B) ==
    /\ objs' = objs \ B
    /\ excused' \in [Callers -> BOOLEAN]
    /\ \A c \in Callers : excused[c] => excused'[c]
    /\ \A c \in Callers : excused'[c] =>
          excused[c] \/ (c # by /\ status[c] = "busy" /\ B \cap objs \cap PrefixOf[c] # {})
    /\ UNCHANGED <<listing, owed>>

RemoveObject(n) == Lose(Nobody, {n}) /\ UNCHANGED status

Call(c) ==
    /\ status[c] # "busy"
    /\ status' = [status EXCEPT ![c] = "busy"]
    /\ owed' = [owed EXCEPT ![c] = objs \cap shown[c]]
    /\ excused' = [excused EXCEPT ![c] = FALSE]
    /\ UNCHANGED <<objs, listing>>

\* The call goes on, succeeds or fails, and removes objects it was named on the way.
Work(c) ==
    /\ status[c] = "busy"
    /\ \E B \in SUBSET returned[c] : Lose(c, B)
    /\ \/ UNCHANGED status
       \/ /\ status' = [status EXCEPT ![c] = "ok"]
          /\ owed[c] \cap objs' = {} \/ excused[c]
       \/ status' = [status EXCEPT ![c] = "error"]

Next ==
    \/ \E n \in Names : UploadObject(n) \/ RemoveObject(n)
    \/ \E c \in Callers : Call(c) \/ Work(c)

Spec == Init /\ [][Next]_vars
=============================================================================
