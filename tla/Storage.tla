------------------------------- MODULE Storage -------------------------------
(***************************************************************************)
(* The object storage as its two clients use it, and the calls on it that  *)
(* overlap: uploads, DeleteObject, and DeletePrefix, which lists and then  *)
(* removes in many requests.  Retention takes DeletePrefix to be one step; *)
(* this module says what it promises when others work on the same prefix,  *)
(* as the sweeper (one run's folder), DELETE (the test's) and the handlers *)
(* (uploading into both) do.                                               *)
(*                                                                         *)
(* An object is its name, and a name its place in the order of names.      *)
(* Requests may fail with or without their effect.  MinIO lists a prefix   *)
(* with all that is below it.  What Supabase's list request answers, which *)
(* asks for no recursion, is a parameter: objects may share an entry (a    *)
(* folder), an entry may have no name, and the name it has goes to the     *)
(* delete request as it is, whatever object that request takes it for.     *)
(***************************************************************************)
EXTENDS Integers, FiniteSets

CONSTANTS NumNames,
          Backends,     \* which clients are checked: "minio", "supabase"
          Callers,      \* the callers of DeletePrefix
          PrefixOf,     \* the names under the prefix of each
          EntryOf,      \* Supabase: the entry that stands for an object in each's listing
          Nameless,     \* Supabase: the entries whose name is empty
          PageSize,     \* entries a list request returns
          BatchSize     \* names a Supabase delete request takes

Names  == 1..NumNames
Nobody == "nobody"

ASSUME SizeAssumption ==
    /\ NumNames \in Nat
    /\ PageSize \in Nat \ {0} /\ BatchSize \in Nat \ {0}
ASSUME PrefixAssumption == PrefixOf \in [Callers -> SUBSET Names] /\ Nobody \notin Callers
ASSUME EntryAssumption ==
    EntryOf \in [Callers -> [Names -> Names]] /\ Nameless \in [Callers -> SUBSET Names]
ASSUME BackendAssumption == Backends \subseteq {"minio", "supabase"}

VARIABLES
    backend,   \* STORAGE_BACKEND
    objs,      \* the objects
    pc,        \* a call of DeletePrefix: its next request, or how it ended
    cursor,    \* Supabase: the offset; MinIO: the last name listed
    more,      \* MinIO: whether the listing goes on after this page
    found,     \* names listed and not removed yet
    owed,      \* history: objects the call is to remove, there since it began and not
               \* uploaded again
    shrunk     \* history: whether someone else removed objects of the prefix while the
               \* call was listing

call == <<pc, cursor, more, found>>
vars == <<backend, objs, call, owed, shrunk>>

\* Mutant: the prefix is not passed on.
EveryObject(c) == objs

UnderPrefix(c) == objs \cap PrefixOf[c]

\* Supabase's listing of a prefix.
Entries(c) == {EntryOf[c][n] : n \in UnderPrefix(c)}

\* The objects a listing shows, each by its own name; with Supabase, not those in a folder.
Shown(c) ==
    IF backend = "minio" THEN PrefixOf[c]
    ELSE {n \in PrefixOf[c] : EntryOf[c][n] = n /\ n \notin Nameless[c]}

\* The names a listing may return.
Returned(c) ==
    IF backend = "minio" THEN PrefixOf[c]
    ELSE {EntryOf[c][n] : n \in PrefixOf[c]} \ Nameless[c]

TypeOK ==
    /\ backend \in Backends
    /\ objs \subseteq Names
    /\ pc \in [Callers -> {"idle", "list", "delete", "ok", "error"}]
    /\ cursor \in [Callers -> Nat] /\ more \in [Callers -> BOOLEAN]
    /\ found \in [Callers -> SUBSET Names] /\ \A c \in Callers : found[c] \subseteq Returned(c)
    /\ owed \in [Callers -> SUBSET Names] /\ shrunk \in [Callers -> BOOLEAN]

Init ==
    /\ backend \in Backends
    /\ objs \in SUBSET Names
    /\ pc = [c \in Callers |-> "idle"]
    /\ cursor = [c \in Callers |-> 0] /\ more = [c \in Callers |-> TRUE]
    /\ found = [c \in Callers |-> {}]
    /\ owed = [c \in Callers |-> {}] /\ shrunk = [c \in Callers |-> FALSE]

-----------------------------------------------------------------------------

\* The objects B go; calls in their listing notice that their prefix shrinks.
Remove(by, B) ==
    /\ objs' = objs \ B
    /\ shrunk' = [c \in Callers |->
                     shrunk[c] \/ (c # by /\ pc[c] = "list" /\ B \cap objs \cap PrefixOf[c] # {})]

\* UploadArtifact, UploadLog, UploadBlob; an existing object is replaced.
Upload(n) ==
    /\ objs' = objs \cup {n}
    /\ owed' = [c \in Callers |-> owed[c] \ {n}]
    /\ UNCHANGED <<backend, call, shrunk>>

\* Removing an object that is not there succeeds.
DeleteObject(n) ==
    /\ Remove(Nobody, {n})
    /\ UNCHANGED <<backend, call, owed>>

-----------------------------------------------------------------------------
(* DeletePrefix. *)

Begin(c) ==
    /\ pc[c] \in {"idle", "ok", "error"}
    /\ pc' = [pc EXCEPT ![c] = "list"]
    /\ cursor' = [cursor EXCEPT ![c] = 0] /\ more' = [more EXCEPT ![c] = TRUE]
    /\ found' = [found EXCEPT ![c] = {}]
    /\ owed' = [owed EXCEPT ![c] = objs \cap Shown(c)]
    /\ shrunk' = [shrunk EXCEPT ![c] = FALSE]
    /\ UNCHANGED <<backend, objs>>

Rank(S, n) == Cardinality({m \in S : m < n})

\* Ranks from off, at most PageSize of them.
Page(S, off) == {n \in S : off <= Rank(S, n) /\ Rank(S, n) < off + PageSize}

\* Mutant: a full page is taken for the last.
LastPageFull(page) == Cardinality(page) <= PageSize

LastPage(page) == Cardinality(page) < PageSize

\* Mutant: the offset does not move on.
SameOffset(off) == off

NextOffset(off) == off + PageSize

\* listObjects: page by page until a page is short.  Entries without a name count, and
\* are skipped.
SupabaseList(c) ==
    LET page == Page(Entries(c), cursor[c])
        all  == found[c] \cup (page \ Nameless[c])
    IN  /\ backend = "supabase" /\ pc[c] = "list"
        /\ found' = [found EXCEPT ![c] = all]
        /\ IF LastPage(page)
           THEN /\ pc' = [pc EXCEPT ![c] = IF all = {} THEN "ok" ELSE "delete"]
                /\ UNCHANGED cursor
           ELSE /\ cursor' = [cursor EXCEPT ![c] = NextOffset(cursor[c])]
                /\ UNCHANGED pc
        /\ UNCHANGED <<backend, objs, more, owed, shrunk>>

\* The names go in batches, in the order they were listed.
Batches(S) == {B \in SUBSET S : Cardinality(B) = BatchSize \/ (B = S /\ Cardinality(B) < BatchSize)}

SupabaseDelete(c) ==
    /\ backend = "supabase" /\ pc[c] = "delete"
    /\ \E B \in Batches(found[c]) :
          /\ Remove(c, B)
          /\ found' = [found EXCEPT ![c] = @ \ B]
          /\ pc' = [pc EXCEPT ![c] = IF found[c] \subseteq B THEN "ok" ELSE "delete"]
    /\ UNCHANGED <<backend, cursor, more, owed>>

\* ListObjects continues after the last name of the previous page.
MinioList(c) ==
    LET rest == {n \in UnderPrefix(c) : n > cursor[c]}
        page == Page(rest, 0)
    IN  /\ backend = "minio" /\ pc[c] = "list"
        /\ found' = [found EXCEPT ![c] = page]
        /\ more' = [more EXCEPT ![c] = rest # page]
        /\ IF page = {}
           THEN pc' = [pc EXCEPT ![c] = "ok"] /\ UNCHANGED cursor
           ELSE /\ pc' = [pc EXCEPT ![c] = "delete"]
                /\ \E m \in page : /\ \A n \in page : n <= m
                                   /\ cursor' = [cursor EXCEPT ![c] = m]
        /\ UNCHANGED <<backend, objs, owed, shrunk>>

\* The range loop removes the names of a page one by one.
MinioRemove(c) ==
    /\ backend = "minio" /\ pc[c] = "delete"
    /\ \E n \in found[c] :
          /\ \A m \in found[c] : n <= m
          /\ Remove(c, {n})
          /\ found' = [found EXCEPT ![c] = @ \ {n}]
          /\ pc' = [pc EXCEPT ![c] = CASE found[c] # {n} -> "delete"
                                       [] found[c] = {n} /\ more[c] -> "list"
                                       [] OTHER -> "ok"]
    /\ UNCHANGED <<backend, cursor, more, owed>>

\* Any request fails, having removed some of what it was to remove; the call returns
\* the error at once.
Fails(c) ==
    /\ pc[c] \in {"list", "delete"}
    /\ \E B \in SUBSET found[c] :
          /\ pc[c] = "list" => B = {}
          /\ Remove(c, B)
    /\ pc' = [pc EXCEPT ![c] = "error"]
    /\ cursor' = [cursor EXCEPT ![c] = 0] /\ found' = [found EXCEPT ![c] = {}]
    /\ UNCHANGED <<backend, more, owed>>

-----------------------------------------------------------------------------

Proceed(c) == SupabaseList(c) \/ SupabaseDelete(c) \/ MinioList(c) \/ MinioRemove(c)

Next ==
    \/ \E c \in Callers : Begin(c) \/ Proceed(c) \/ Fails(c)
    \/ \E n \in Names : Upload(n) \/ DeleteObject(n)

Spec == Init /\ [][Next]_vars

\* A request gets an answer, unless it fails, which ends the call as well.
Fairness == \A c \in Callers : WF_vars(Proceed(c))

FairSpec == Spec /\ Fairness

-----------------------------------------------------------------------------
(* Properties. *)

\* When DeletePrefix reports success, everything its listing shows by name that was
\* there when it was called and has not been uploaded again is gone, although it lists
\* page by page while others upload and remove.  With MinIO that is the whole prefix.
\* With Supabase objects behind a folder entry stay, and pages are offsets into what is
\* there at the moment: the rest holds unless someone else removed objects of the prefix
\* during the listing.
PrefixEmptied ==
    \A c \in Callers :
        pc[c] = "ok" /\ (backend = "minio" \/ ~shrunk[c]) => owed[c] \cap objs = {}

\* What callers may rely on: the call in progress seen from outside, what the listing
\* leaves in its reach, and Supabase's excuse.
Store == INSTANCE ObjectStore WITH
    status   <- [c \in Callers |-> IF pc[c] \in {"list", "delete"} THEN "busy" ELSE pc[c]],
    shown    <- [c \in Callers |-> Shown(c)],
    returned <- [c \in Callers |-> Returned(c)],
    excused  <- [c \in Callers |-> backend = "supabase" /\ shrunk[c]]

\* Page by page, batch by batch and failing in between, both clients keep what module
\* ObjectStore promises: objects appear only by uploads, a call removes only what its
\* listing returns, and it succeeds only when nothing is left of what that shows, or,
\* with Supabase, others have removed objects while it was listing.
ImplementsObjectStore == Store!Spec

\* A call returns: the listing comes to its end however others go on
\* uploading and removing objects.
CallsReturn == \A c \in Callers : pc[c] \in {"list", "delete"} ~> pc[c] \in {"ok", "error"}
=============================================================================
