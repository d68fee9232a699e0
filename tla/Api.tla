--------------------------------- MODULE Api ---------------------------------
(***************************************************************************)
(* The requests that create, configure and delete a test: UploadBinary,    *)
(* PUT and DELETE of an environment variable, DELETE of a test.  Each is   *)
(* verified first (module AuthCache), then proceeds one database statement *)
(* or storage call at a time, interleaved with the others.                 *)
(*                                                                         *)
(* A test is its UUID, which is fresh, and has one artifact.  Values and   *)
(* their encryption are left out; so are jobs and runs, which modules      *)
(* JobRunner and Retention follow through the same DELETE.  Committed rows *)
(* are what other transactions read (READ COMMITTED).                      *)
(***************************************************************************)
EXTENDS AuthCache, FiniteSets

CONSTANTS Tests,      \* UUIDs
          VarNames,   \* names of variables that pass validation
          MaxVars     \* secrets.MaxVars

ASSUME VarsAssumption == MaxVars \in Nat /\ IsFiniteSet(VarNames)

Nobody == "nobody"
ASSUME ClientsAssumption == Nobody \notin Clients

VARIABLES
    test,        \* the test a request is about
    name,        \* the variable it sets
    used,        \* UUIDs drawn
    tests,       \* rows of tests
    env,         \* rows of test_env_vars: the names of a test's variables
    lock,        \* who holds the row of a test FOR UPDATE
    artifacts,   \* tests whose artifact is in the storage
    abandoned    \* history: tests whose request ended before it had stored or removed both
                 \* the artifact and the row

rowVars == <<used, tests, env, lock>>
apiVars == <<test, name, rowVars, artifacts, abandoned>>
vars    == <<authVars, apiVars>>

\* Stages of Upsert, in order; the row is held in the ones after "lock".
Holding   == {"exists", "count", "insert"}
ApiStages == Holding \cup {"lock", "create", "delete", "files"}

TypeOK ==
    /\ now \in Time
    /\ revoked \in [Tokens -> Time \cup {Never}]
    /\ cache \in [Tokens -> 0..(MaxTime + TTL)]
    /\ stage \in [Clients -> AuthStages \cup ApiStages]
    /\ token \in [Clients -> Tokens \cup {NoToken}] /\ clock \in [Clients -> Time]
    /\ test \in [Clients -> Tests] /\ name \in [Clients -> VarNames]
    /\ tests \subseteq used /\ used \subseteq Tests
    /\ env \in [Tests -> SUBSET VarNames] /\ \A t \in Tests \ tests : env[t] = {}
    /\ lock \in [Tests -> Clients \cup {Nobody}]
    /\ artifacts \subseteq used /\ abandoned \subseteq used

Init ==
    /\ AuthInit
    /\ test \in [Clients -> Tests] /\ name \in [Clients -> VarNames]
    /\ used = {} /\ tests = {} /\ artifacts = {} /\ abandoned = {}
    /\ env = [t \in Tests |-> {}] /\ lock = [t \in Tests |-> Nobody]

-----------------------------------------------------------------------------

\* A granted request becomes the handler's.
Accept(c, t, s) ==
    /\ stage[c] = "granted"
    /\ Go(c, s) /\ Forget(c)
    /\ test' = [test EXCEPT ![c] = t]
    /\ UNCHANGED <<now, revoked, cache>>

\* A handler's request moves on.
Move(c, s) ==
    /\ Go(c, s)
    /\ UNCHANGED <<now, revoked, cache, token, clock, test, name>>

\* The transaction of c ends, committed or rolled back.
Unlocked(c) == [t \in Tests |-> IF lock[t] = c THEN Nobody ELSE lock[t]]

\* Validation fails, the test is unknown, or the request only reads.
Refused(c) ==
    /\ Accept(c, test[c], "idle")
    /\ UNCHANGED <<name, rowVars, artifacts, abandoned>>

-----------------------------------------------------------------------------
(* PUT /tests/{id}/env: envRoutes, putEnv and Upsert. *)

PutEnv(c, t, n) ==
    /\ t \in tests
    /\ Accept(c, t, "lock")
    /\ name' = [name EXCEPT ![c] = n]
    /\ UNCHANGED <<rowVars, artifacts, abandoned>>

\* Mutant: the count is read without the row lock.
NoRowLock(c) ==
    /\ stage[c] = "lock"
    /\ Move(c, "exists")
    /\ UNCHANGED <<rowVars, artifacts, abandoned>>

\* SELECT FOR UPDATE waits for the holder; if the test is gone meanwhile it locks
\* nothing, and is no error.
LockTest(c) ==
    /\ stage[c] = "lock"
    /\ test[c] \in tests => lock[test[c]] = Nobody
    /\ lock' = IF test[c] \in tests THEN [lock EXCEPT ![test[c]] = c] ELSE lock
    /\ Move(c, "exists")
    /\ UNCHANGED <<used, tests, env, artifacts, abandoned>>

\* The variable is there: the INSERT will replace it.
CheckExists(c) ==
    /\ stage[c] = "exists"
    /\ Move(c, IF name[c] \in env[test[c]] THEN "insert" ELSE "count")
    /\ UNCHANGED <<rowVars, artifacts, abandoned>>

CheckCount(c) ==
    /\ stage[c] = "count"
    /\ Cardinality(env[test[c]]) < MaxVars
    /\ Move(c, "insert")
    /\ UNCHANGED <<rowVars, artifacts, abandoned>>

\* Mutant: the transaction is not rolled back.
TooManyNoRollback(c) ==
    /\ stage[c] = "count"
    /\ Cardinality(env[test[c]]) >= MaxVars
    /\ Move(c, "idle")
    /\ UNCHANGED <<rowVars, artifacts, abandoned>>

\* ErrTooManyEnvVars.
TooMany(c) ==
    /\ stage[c] = "count"
    /\ Cardinality(env[test[c]]) >= MaxVars
    /\ Move(c, "idle")
    /\ lock' = Unlocked(c)
    /\ UNCHANGED <<used, tests, env, artifacts, abandoned>>

\* Mutant: no foreign key.
InsertUnchecked(c) ==
    /\ stage[c] = "insert"
    /\ env' = [env EXCEPT ![test[c]] = @ \cup {name[c]}]
    /\ lock' = Unlocked(c)
    /\ Move(c, "idle")
    /\ UNCHANGED <<used, tests, artifacts, abandoned>>

\* INSERT ... ON CONFLICT DO UPDATE, and the commit.
InsertVar(c) ==
    /\ stage[c] = "insert"
    /\ test[c] \in tests
    /\ env' = [env EXCEPT ![test[c]] = @ \cup {name[c]}]
    /\ lock' = Unlocked(c)
    /\ Move(c, "idle")
    /\ UNCHANGED <<used, tests, artifacts, abandoned>>

-----------------------------------------------------------------------------

\* DELETE /tests/{id}/env/{name}: one statement, without the lock.
DeleteEnv(c, t, n) ==
    /\ t \in tests
    /\ Accept(c, t, "idle")
    /\ env' = [env EXCEPT ![t] = @ \ {n}]
    /\ UNCHANGED <<name, used, tests, lock, artifacts, abandoned>>

-----------------------------------------------------------------------------
(* POST /uploadBinary: the artifact first, then the row. *)

UploadArtifact(c, t) ==
    /\ t \notin used
    /\ Accept(c, t, "create")
    /\ used' = used \cup {t} /\ artifacts' = artifacts \cup {t}
    /\ UNCHANGED <<name, tests, env, lock, abandoned>>

\* The upload reports an error although the object arrived.
UploadFails(c, t) ==
    /\ t \notin used
    /\ Accept(c, t, "idle")
    /\ used' = used \cup {t} /\ artifacts' = artifacts \cup {t}
    /\ abandoned' = abandoned \cup {t}
    /\ UNCHANGED <<name, tests, env, lock>>

CreateTest(c) ==
    /\ stage[c] = "create"
    /\ tests' = tests \cup {test[c]}
    /\ Move(c, "idle")
    /\ UNCHANGED <<used, env, lock, artifacts, abandoned>>

-----------------------------------------------------------------------------
(* DELETE /tests/{id}: the rows first, then the artifact. *)

DeleteTest(c, t) ==
    /\ t \in tests
    /\ Accept(c, t, "delete")
    /\ UNCHANGED <<name, rowVars, artifacts, abandoned>>

\* Mutant: the handler ends with the rows.
DeleteRowsOnly(c) ==
    /\ stage[c] = "delete" /\ test[c] \in tests /\ lock[test[c]] = Nobody
    /\ tests' = tests \ {test[c]}
    /\ env' = [env EXCEPT ![test[c]] = {}]
    /\ Move(c, "idle")
    /\ UNCHANGED <<used, lock, artifacts, abandoned>>

\* Mutant: the artifact goes first.
DeleteFilesFirst(c) ==
    /\ stage[c] = "delete" /\ test[c] \in tests
    /\ artifacts' = artifacts \ {test[c]}
    /\ Move(c, "files")
    /\ UNCHANGED <<rowVars, abandoned>>

\* The transaction waits for whoever holds the row; variables go by ON DELETE CASCADE.
DeleteRows(c) ==
    /\ stage[c] = "delete" /\ test[c] \in tests /\ lock[test[c]] = Nobody
    /\ tests' = tests \ {test[c]}
    /\ env' = [env EXCEPT ![test[c]] = {}]
    /\ Move(c, "files")
    /\ UNCHANGED <<used, lock, artifacts, abandoned>>

\* The test was deleted meanwhile: the foreign key refuses the variable, and the
\* transaction of a second DELETE finds no row.
TestGone(c) ==
    /\ stage[c] \in {"insert", "delete"} /\ test[c] \notin tests
    /\ lock' = Unlocked(c)
    /\ Move(c, "idle")
    /\ UNCHANGED <<used, tests, env, artifacts, abandoned>>

\* The prefix of the test is emptied (module Storage).
DeleteFiles(c) ==
    /\ stage[c] = "files"
    /\ artifacts' = artifacts \ {test[c]}
    /\ Move(c, "idle")
    /\ UNCHANGED <<rowVars, abandoned>>

-----------------------------------------------------------------------------

\* The tests the requests of S leave with an artifact and no row, when they end now.
Unfinished(S) == {test[c] : c \in {d \in S : stage[d] \in {"create", "files"}}}

\* A statement or a storage call fails, the caller disconnects, or the schedule of an
\* upload is invalid: the request ends and its transaction is rolled back.
Failed(c) ==
    /\ stage[c] \in ApiStages
    /\ abandoned' = abandoned \cup Unfinished({c})
    /\ lock' = Unlocked(c)
    /\ Move(c, "idle")
    /\ UNCHANGED <<used, tests, env, artifacts>>

\* The server goes down, and the database rolls its transactions back; a new one
\* starts with an empty cache.
Restart ==
    /\ abandoned' = abandoned \cup Unfinished(Clients)
    /\ lock' = [t \in Tests |-> Nobody]
    /\ stage' = [c \in Clients |-> "idle"]
    /\ token' = [c \in Clients |-> NoToken] /\ clock' = [c \in Clients |-> 0]
    /\ cache' = [t \in Tokens |-> 0]
    /\ UNCHANGED <<now, revoked, test, name, used, tests, env, artifacts>>

-----------------------------------------------------------------------------

Upsert(c) == CheckExists(c) \/ CheckCount(c) \/ TooMany(c) \/ InsertVar(c)

Start(c) ==
    \/ Refused(c)
    \/ \E t \in Tests : \/ UploadArtifact(c, t) \/ UploadFails(c, t) \/ DeleteTest(c, t)
                        \/ \E n \in VarNames : PutEnv(c, t, n) \/ DeleteEnv(c, t, n)

Handle(c) == Start(c) \/ Upsert(c) \/ CreateTest(c) \/ TestGone(c) \/ DeleteFiles(c)

Next ==
    \/ AuthNext /\ UNCHANGED apiVars
    \/ \E c \in Clients : Handle(c) \/ LockTest(c) \/ DeleteRows(c) \/ Failed(c)
    \/ Restart

Spec == Init /\ [][Next]_vars

\* Statements and calls return; a row that is released goes to a waiting transaction,
\* which the database queues.  Failures and restarts are never relied on.
Fairness ==
    \A c \in Clients :
        /\ WF_vars(Verify(c) /\ UNCHANGED apiVars) /\ WF_vars(Handle(c))
        /\ SF_vars(LockTest(c)) /\ SF_vars(DeleteRows(c))

FairSpec == Spec /\ Fairness

-----------------------------------------------------------------------------
(* Properties. *)

\* A test never has more than MaxVars variables, although the count is a read of its
\* own, and other requests insert and delete between it and the INSERT.
WithinLimit == \A t \in Tests : Cardinality(env[t]) <= MaxVars

\* A test that can be run has its artifact, however uploads, deletes of the same test,
\* failures and restarts fall: no request removes one before the row.
ArtifactBehindTest == tests \subseteq artifacts

\* An artifact without a test belongs to a request that is about to create or remove it
\* or to one that failed at exactly that point, and nothing else leaks storage.
OrphansExplained == artifacts \ tests \subseteq abandoned \cup Unfinished(Clients)

\* What a caller knows of a test: whether its upload is under way, it is there, or gone.
Creating == {test[c] : c \in {d \in Clients : stage[d] = "create"}}
Phase(t) ==
    IF t \notin used THEN "unused" ELSE IF t \in tests THEN "live"
    ELSE IF t \in Creating THEN "uploaded" ELSE "over"

Store == INSTANCE TestStore WITH phase <- [t \in Tests |-> Phase(t)]

\* However the statements and storage calls of requests interleave, fail or are cut off
\* by a restart, they have the effect of module TestStore: a variable is set at once,
\* within the limit and on a test that is there at that moment, a deleted test never
\* comes back nor gets a variable from a request that started before, and artifacts
\* are removed only of tests that are over.
ImplementsTestStore == Store!Spec

\* Every request is answered: no transaction keeps the row of a test to itself after
\* its request, whatever way it took, and waiting for the row comes to an end.
RequestsAnswered == \A c \in Clients : stage[c] # "idle" ~> stage[c] = "idle"
=============================================================================
