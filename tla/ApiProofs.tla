------------------------------ MODULE ApiProofs ------------------------------
(* Proofs about the requests and their verification, for any number of clients, tokens,
   tests and variables, and any lifetime, timeout and limit. *)
EXTENDS Api, FiniteSetTheorems, TLAPS

-----------------------------------------------------------------------------
(* The inductive invariant. *)

\* An approval is remembered for at most TTL after the revocation of its token: it was
\* asked for before.
AuthInv ==
    /\ \A t \in Tokens : revoked[t] = Never \/ revoked[t] <= now
    /\ \A t \in Tokens : cache[t] <= revoked[t] + TTL /\ cache[t] <= now + TTL
    /\ \A c \in Clients :
          stage[c] \in {"ask", "answered", "granted"} => token[c] \in Tokens /\ clock[c] <= now
    /\ \A c \in Clients : stage[c] = "answered" => clock[c] <= revoked[token[c]]
    /\ \A c \in Clients : stage[c] = "granted" => clock[c] < revoked[token[c]] + TTL

\* An upload about to create its row has the test to itself.
CreateInv ==
    \A c \in Clients : stage[c] = "create" =>
        /\ test[c] \in artifacts \ tests
        /\ \A d \in Clients \ {c} : stage[d] \in ApiStages => test[d] # test[c]

\* The requests past LockTest hold the row, unless the test is gone, and nobody else does.
LockInv ==
    /\ \A c \in Clients : stage[c] \in ApiStages => test[c] \in used
    /\ \A c \in Clients : stage[c] \in Holding /\ test[c] \in tests => lock[test[c]] = c
    /\ \A t \in Tests : lock[t] # Nobody =>
          stage[lock[t]] \in Holding /\ test[lock[t]] = t /\ t \in tests

\* What the check established stays true until the INSERT: only deletes come between.
VarInv ==
    /\ WithinLimit
    /\ \A c \in Clients : stage[c] = "insert" /\ test[c] \in tests =>
          Cardinality(env[test[c]] \cup {name[c]}) <= MaxVars

FileInv ==
    /\ \A c \in Clients : stage[c] = "files" => test[c] \notin tests
    /\ ArtifactBehindTest
    /\ OrphansExplained

IInv == TypeOK /\ AuthInv /\ CreateInv /\ LockInv /\ VarInv /\ FileInv

-----------------------------------------------------------------------------
(* What a step leaves alone. *)

\* Verification does not touch the handlers' requests.
Verifying ==
    /\ UNCHANGED apiVars
    /\ \A c \in Clients : stage'[c] = stage[c]
                          \/ (stage[c] \in AuthStages /\ stage'[c] \in AuthStages)

\* The handlers do not touch the verification of other requests.
Handling ==
    /\ UNCHANGED <<now, revoked>>
    /\ cache' = cache \/ cache' = [t \in Tokens |-> 0]
    /\ \A c \in Clients :
          \/ stage'[c] = stage[c] /\ token'[c] = token[c] /\ clock'[c] = clock[c]
          \/ stage'[c] \notin {"ask", "answered", "granted"}

\* A step of AuthNext is one of verification.
LEMMA AuthIsVerifying ==
  ASSUME TypeOK, AuthNext, UNCHANGED apiVars
  PROVE  Verifying
  <1>1. ASSUME NEW c \in Clients, NEW s \in AuthStages, Go(c, s), stage[c] \in AuthStages
        PROVE  Verifying
    BY <1>1 DEF Verifying, Go, TypeOK
  <1>2. CASE Tick
    BY <1>2 DEF Tick, Verifying
  <1>3. ASSUME NEW t \in Tokens, Revoke(t) PROVE Verifying
    BY <1>3 DEF Revoke, Verifying
  <1>4. ASSUME NEW t \in Tokens, NEW c \in Clients, CacheHit(c, t) \/ CacheMiss(c, t)
        PROVE  Verifying
    BY <1>1, <1>4 DEF CacheHit, CacheMiss, AuthStages
  <1>5. ASSUME NEW c \in Clients, Verify(c) PROVE Verifying
    BY <1>1, <1>5 DEF Verify, SupabaseAnswers, StoreApproval, Unauthorized, AuthStages
  <1>6. QED
    BY <1>2, <1>3, <1>4, <1>5 DEF AuthNext

\* The other steps.
ApiNext ==
    \/ \E c \in Clients : Handle(c) \/ LockTest(c) \/ DeleteRows(c) \/ Failed(c)
    \/ Restart

\* The steps of requests and a restart add no approval and move no clock.
LEMMA ApiIsHandling ==
  ASSUME TypeOK, ApiNext
  PROVE  Handling
  <1>1. ASSUME NEW c \in Clients, NEW t \in Tests, NEW s \in ApiStages \cup {"idle"}, Accept(c, t, s)
        PROVE  Handling
    BY <1>1 DEF Handling, Accept, Forget, Go, TypeOK, ApiStages, Holding
  <1>2. ASSUME NEW c \in Clients, NEW s \in ApiStages \cup {"idle"}, Move(c, s)
        PROVE  Handling
    BY <1>2 DEF Handling, Move, Go, TypeOK, ApiStages, Holding
  <1>3. ASSUME NEW c \in Clients, Start(c) PROVE Handling
    <2>0. test[c] \in Tests
      BY DEF TypeOK
    <2>1. QED
      BY <2>0, <1>1, <1>3 DEF Start, Refused, UploadArtifact, UploadFails, DeleteTest, PutEnv, DeleteEnv,
                    ApiStages
  <1>4. ASSUME NEW c \in Clients, Upsert(c) PROVE Handling
    BY <1>2, <1>4 DEF Upsert, CheckExists, CheckCount, TooMany, InsertVar, ApiStages, Holding
  <1>5. ASSUME NEW c \in Clients,
               CreateTest(c) \/ TestGone(c) \/ DeleteFiles(c) \/ LockTest(c) \/ DeleteRows(c) \/ Failed(c)
        PROVE  Handling
    BY <1>2, <1>5 DEF CreateTest, TestGone, DeleteFiles, LockTest, DeleteRows, Failed, ApiStages, Holding
  <1>6. CASE Restart
    BY <1>6 DEF Restart, Handling
  <1>7. QED
    BY <1>3, <1>4, <1>5, <1>6 DEF ApiNext, Handle

-----------------------------------------------------------------------------
(* Each part of the invariant. *)

\* Verification keeps the types.
LEMMA TypeVerify ==
  ASSUME TypeOK, AuthInv, AuthNext, UNCHANGED apiVars
  PROVE  TypeOK'
  <1>1. tests \subseteq used /\ used \subseteq Tests
    BY DEF TypeOK
  <1>2. CASE Tick
    BY <1>2, TimeAssumption DEF Tick, TypeOK, apiVars, rowVars, Time
  <1>3. ASSUME NEW t \in Tokens, Revoke(t) PROVE TypeOK'
    BY <1>3 DEF Revoke, TypeOK, apiVars, rowVars
  <1>4. ASSUME NEW t \in Tokens, NEW c \in Clients, CacheHit(c, t) \/ CacheMiss(c, t)
        PROVE  TypeOK'
    BY <1>4 DEF CacheHit, CacheMiss, Go, TypeOK, apiVars, rowVars, AuthStages
  <1>5. ASSUME NEW c \in Clients, SupabaseAnswers(c) \/ Unauthorized(c) PROVE TypeOK'
    BY <1>5, TimeAssumption DEF SupabaseAnswers, Unauthorized, Go, Forget, TypeOK, apiVars, rowVars, AuthStages, Time
  <1>6. ASSUME NEW c \in Clients, StoreApproval(c) PROVE TypeOK'
    <2>1. Expiry(c) \in 0..(MaxTime + TTL)
      BY <1>6, TimeAssumption DEF Expiry, TypeOK, Time
    <2>2. cache' \in [Tokens -> 0..(MaxTime + TTL)]
      BY <1>6, <2>1, TimeAssumption DEF StoreApproval, TypeOK
    <2>3. stage' \in [Clients -> AuthStages \cup ApiStages] /\ clock' \in [Clients -> Time]
      BY <1>6 DEF StoreApproval, TypeOK, Go, AuthStages
    <2>4. QED
      BY <1>6, <2>2, <2>3 DEF StoreApproval, TypeOK, apiVars, rowVars
  <1>7. QED
    BY <1>2, <1>3, <1>4, <1>5, <1>6 DEF AuthNext, Verify

\* The steps of requests keep the types.
LEMMA TypeHandle ==
  ASSUME TypeOK, LockInv, ApiNext
  PROVE  TypeOK'
  <1>0. \A S \in SUBSET Clients :
           \A c \in S : stage[c] \in {"create", "files"} => test[c] \in used
    BY DEF LockInv, ApiStages
  <1>a. \A S \in SUBSET Clients : Unfinished(S) \subseteq used
    BY <1>0 DEF Unfinished
  <1>b. \A c \in Clients : Unlocked(c) \in [Tests -> Clients \cup {Nobody}]
    BY DEF Unlocked, TypeOK
  <1>c. ASSUME NEW c \in Clients, NEW t \in Tests, NEW s \in ApiStages \cup {"idle"}, Accept(c, t, s)
        PROVE  /\ now' \in Time /\ revoked' \in [Tokens -> Time \cup {Never}]
               /\ cache' \in [Tokens -> 0..(MaxTime + TTL)]
               /\ stage' \in [Clients -> AuthStages \cup ApiStages]
               /\ token' \in [Clients -> Tokens \cup {NoToken}] /\ clock' \in [Clients -> Time]
               /\ test' \in [Clients -> Tests]
    BY <1>c, TimeAssumption DEF Accept, Go, Forget, TypeOK, AuthStages, Time
  <1>d. ASSUME NEW c \in Clients, NEW s \in ApiStages \cup {"idle"}, Move(c, s)
        PROVE  /\ now' \in Time /\ revoked' \in [Tokens -> Time \cup {Never}]
               /\ cache' \in [Tokens -> 0..(MaxTime + TTL)]
               /\ stage' \in [Clients -> AuthStages \cup ApiStages]
               /\ token' \in [Clients -> Tokens \cup {NoToken}] /\ clock' \in [Clients -> Time]
               /\ test' \in [Clients -> Tests] /\ name' \in [Clients -> VarNames]
    BY <1>d DEF Move, Go, TypeOK, AuthStages
  <1>1. ASSUME NEW c \in Clients, Refused(c) PROVE TypeOK'
    <2>1. test[c] \in Tests
      BY DEF TypeOK
    <2>2. QED
      BY <1>1, <1>c, <2>1 DEF Refused, TypeOK, rowVars, ApiStages
  <1>2. ASSUME NEW c \in Clients, NEW t \in Tests, NEW n \in VarNames, PutEnv(c, t, n)
        PROVE  TypeOK'
    BY <1>2, <1>c DEF PutEnv, TypeOK, rowVars, ApiStages
  <1>3. ASSUME NEW c \in Clients, NEW t \in Tests, NEW n \in VarNames, DeleteEnv(c, t, n)
        PROVE  TypeOK'
    BY <1>3, <1>c DEF DeleteEnv, TypeOK, ApiStages
  <1>4. ASSUME NEW c \in Clients, NEW t \in Tests, UploadArtifact(c, t) \/ UploadFails(c, t)
        PROVE  TypeOK'
    BY <1>4, <1>c DEF UploadArtifact, UploadFails, TypeOK, ApiStages
  <1>5. ASSUME NEW c \in Clients, NEW t \in Tests, DeleteTest(c, t) PROVE TypeOK'
    BY <1>5, <1>c DEF DeleteTest, TypeOK, rowVars, ApiStages
  <1>6. ASSUME NEW c \in Clients, LockTest(c) PROVE TypeOK'
    BY <1>6, <1>d DEF LockTest, TypeOK, ApiStages, Holding
  <1>7. ASSUME NEW c \in Clients, CheckExists(c) \/ CheckCount(c) PROVE TypeOK'
    BY <1>7, <1>d DEF CheckExists, CheckCount, TypeOK, rowVars, ApiStages, Holding
  <1>8. ASSUME NEW c \in Clients, TooMany(c) \/ TestGone(c) PROVE TypeOK'
    BY <1>8, <1>b, <1>d DEF TooMany, TestGone, TypeOK
  <1>9. ASSUME NEW c \in Clients, InsertVar(c) PROVE TypeOK'
    BY <1>9, <1>b, <1>d DEF InsertVar, TypeOK
  <1>10. ASSUME NEW c \in Clients, CreateTest(c) PROVE TypeOK'
    <2>1. test[c] \in used
      BY <1>10, <1>0 DEF CreateTest
    <2>2. QED
      BY <1>10, <1>d, <2>1 DEF CreateTest, TypeOK
  <1>11. ASSUME NEW c \in Clients, DeleteRows(c) PROVE TypeOK'
    BY <1>11, <1>d DEF DeleteRows, TypeOK, ApiStages
  <1>12. ASSUME NEW c \in Clients, DeleteFiles(c) PROVE TypeOK'
    BY <1>12, <1>d DEF DeleteFiles, TypeOK, rowVars
  <1>13. ASSUME NEW c \in Clients, Failed(c) PROVE TypeOK'
    <2>1. Unfinished({c}) \subseteq used
      BY <1>a
    <2>2. QED
      BY <1>13, <1>b, <1>d, <2>1 DEF Failed, TypeOK
  <1>14. CASE Restart
    BY <1>14, <1>a, TimeAssumption DEF Restart, TypeOK, AuthStages, Time
  <1>15. QED
    BY <1>1, <1>2, <1>3, <1>4, <1>5, <1>6, <1>7, <1>8, <1>9, <1>10, <1>11, <1>12, <1>13, <1>14
       DEF ApiNext, Handle, Start, Upsert

\* Verification keeps what is known of remembered approvals.
LEMMA AuthVerify ==
  ASSUME TypeOK, AuthInv, AuthNext
  PROVE  AuthInv'
  <1>0. /\ now \in Int /\ TTL \in Int /\ Timeout \in Int /\ 0 < TTL /\ Timeout < TTL
        /\ Never \in Int /\ now < Never
        /\ \A t \in Tokens : revoked[t] \in Int /\ revoked[t] <= Never /\ 0 <= revoked[t] /\ cache[t] \in Int
        /\ \A c \in Clients : clock[c] \in Int /\ 0 <= clock[c]
    BY TimeAssumption DEF TypeOK, Time, Never
  <1>1. CASE Tick
    <2>1. now' = now + 1 /\ UNCHANGED <<revoked, cache, stage, token, clock>>
      BY <1>1 DEF Tick
    <2>2. QED
      BY <1>0, <2>1 DEF AuthInv
  <1>2. ASSUME NEW t \in Tokens, Revoke(t) PROVE AuthInv'
    <2>1. /\ UNCHANGED <<now, cache, stage, token, clock>>
          /\ \A u \in Tokens : revoked'[u] = revoked[u] \/ (revoked'[u] = now /\ revoked[u] = Never)
      BY <1>2 DEF Revoke, TypeOK
    <2>2. QED
      BY <1>0, <2>1 DEF AuthInv
  <1>3. ASSUME NEW t \in Tokens, NEW c \in Clients, CacheHit(c, t) \/ CacheMiss(c, t)
        PROVE  AuthInv'
    <2>1. /\ UNCHANGED <<now, revoked, cache>>
          /\ \A d \in Clients \ {c} : stage'[d] = stage[d] /\ token'[d] = token[d] /\ clock'[d] = clock[d]
          /\ token'[c] = t /\ clock'[c] = now
          /\ stage'[c] = "ask" \/ (stage'[c] = "granted" /\ now < cache[t])
      BY <1>3 DEF CacheHit, CacheMiss, Go, TypeOK
    <2>2. now < cache[t] => now < revoked[t] + TTL
      BY <1>0 DEF AuthInv
    <2>3. QED
      BY <1>0, <2>1, <2>2 DEF AuthInv
  <1>4. ASSUME NEW c \in Clients, SupabaseAnswers(c) PROVE AuthInv'
    <2>1. /\ UNCHANGED <<now, revoked, cache, token, clock>> /\ stage[c] = "ask"
          /\ \A d \in Clients \ {c} : stage'[d] = stage[d]
          /\ stage'[c] = "answered" /\ revoked[token[c]] = Never
      BY <1>4 DEF SupabaseAnswers, Go, TypeOK
    <2>2. token[c] \in Tokens /\ clock[c] <= now
      BY <2>1 DEF AuthInv
    <2>3. QED
      BY <1>0, <2>1, <2>2 DEF AuthInv
  <1>5. ASSUME NEW c \in Clients, StoreApproval(c) PROVE AuthInv'
    <2>1. /\ UNCHANGED <<now, revoked, token>> /\ stage[c] = "answered" /\ now <= clock[c] + Timeout
          /\ \A d \in Clients \ {c} : stage'[d] = stage[d] /\ clock'[d] = clock[d]
          /\ stage'[c] = "granted" /\ clock'[c] = now
      BY <1>5 DEF StoreApproval, Go, TypeOK
    <2>2. token[c] \in Tokens /\ clock[c] <= now /\ clock[c] <= revoked[token[c]]
      BY <2>1 DEF AuthInv
    <2>3. \A t \in Tokens : cache'[t] = cache[t] \/ cache'[t] = 0
                            \/ (t = token[c] /\ cache'[t] = clock[c] + TTL)
      BY <1>5 DEF StoreApproval, Expiry
    <2>4. \A t \in Tokens : cache'[t] <= revoked[t] + TTL /\ cache'[t] <= now + TTL
      <3>1. 0 <= now
        BY <1>0, <2>2
      <3>2. QED
        BY <1>0, <2>2, <2>3, <3>1 DEF AuthInv
    <2>5. now < revoked[token[c]] + TTL
      BY <1>0, <2>1, <2>2
    <2>6. QED
      BY <1>0, <2>1, <2>2, <2>4, <2>5 DEF AuthInv
  <1>6. ASSUME NEW c \in Clients, Unauthorized(c) PROVE AuthInv'
    <2>1. /\ UNCHANGED <<now, revoked, cache>> /\ stage'[c] = "idle"
          /\ \A d \in Clients \ {c} : stage'[d] = stage[d] /\ token'[d] = token[d] /\ clock'[d] = clock[d]
      BY <1>6 DEF Unauthorized, Go, Forget, TypeOK
    <2>2. QED
      BY <2>1 DEF AuthInv
  <1>7. QED
    BY <1>1, <1>2, <1>3, <1>4, <1>5, <1>6 DEF AuthNext, Verify

\* Such steps keep what is known of remembered approvals.
LEMMA AuthHandle ==
  ASSUME TypeOK, AuthInv, Handling
  PROVE  AuthInv'
  <1>0. /\ now \in Int /\ 0 <= now /\ TTL \in Int /\ 0 < TTL
        /\ \A t \in Tokens : revoked[t] \in Int /\ 0 <= revoked[t] /\ cache[t] \in Int
    BY TimeAssumption DEF TypeOK, Time, Never
  <1>1. UNCHANGED <<now, revoked>> /\ \A t \in Tokens : cache'[t] = cache[t] \/ cache'[t] = 0
    BY DEF Handling
  <1>2. \A t \in Tokens : cache'[t] <= revoked'[t] + TTL /\ cache'[t] <= now' + TTL
    BY <1>0, <1>1 DEF AuthInv
  <1>3. QED
    BY <1>1, <1>2 DEF AuthInv, Handling

\* Verification preserves what concerns the handlers.
LEMMA RestVerify ==
  ASSUME TypeOK, CreateInv, LockInv, VarInv, FileInv, Verifying
  PROVE  CreateInv' /\ LockInv' /\ VarInv' /\ FileInv'
  <1>1. UNCHANGED <<test, name, used, tests, env, lock, artifacts, abandoned>>
    BY DEF Verifying, apiVars, rowVars
  <1>2. AuthStages \cap ApiStages = {}
    BY DEF AuthStages, ApiStages, Holding
  <1>3. \A c \in Clients : /\ stage'[c] \in ApiStages => stage'[c] = stage[c]
                           /\ stage[c] \in ApiStages => stage'[c] = stage[c]
    BY <1>2 DEF Verifying
  <1>4. Holding \subseteq ApiStages /\ {"create", "insert", "files"} \subseteq ApiStages
    BY DEF ApiStages, Holding
  <1>5. CreateInv'
    BY <1>1, <1>3, <1>4 DEF CreateInv
  <1>6. LockInv'
    <2>1. \A t \in Tests : lock[t] # Nobody => lock[t] \in Clients
      BY DEF TypeOK
    <2>2. QED
      BY <1>1, <1>3, <1>4, <2>1 DEF LockInv
  <1>7. VarInv'
    BY <1>1, <1>3, <1>4 DEF VarInv, WithinLimit
  <1>8. Unfinished(Clients)' = Unfinished(Clients)
    <2>1. {d \in Clients : stage[d] \in {"create", "files"}}' = {d \in Clients : stage[d] \in {"create", "files"}}
      BY <1>3, <1>4
    <2>2. QED
      BY <1>1, <2>1 DEF Unfinished
  <1>9. FileInv'
    BY <1>1, <1>3, <1>4, <1>8 DEF FileInv, ArtifactBehindTest, OrphansExplained
  <1>10. QED
    BY <1>5, <1>6, <1>7, <1>9

\* The request of c goes on to stage s, about test t; the other requests stay.
Moves(c, t, s) ==
    /\ stage'[c] = s /\ test'[c] = t
    /\ \A d \in Clients \ {c} : stage'[d] = stage[d] /\ test'[d] = test[d] /\ name'[d] = name[d]

\* What accepting a request changes.
LEMMA AcceptMoves ==
  ASSUME TypeOK, NEW c \in Clients, NEW t \in Tests, NEW s, Accept(c, t, s),
         UNCHANGED name \/ \E n \in VarNames : name' = [name EXCEPT ![c] = n]
  PROVE  Moves(c, t, s) /\ stage[c] = "granted"
  BY DEF Accept, Go, Moves, TypeOK

\* What moving a request on changes.
LEMMA MoveMoves ==
  ASSUME TypeOK, NEW c \in Clients, NEW s, Move(c, s)
  PROVE  Moves(c, test[c], s) /\ UNCHANGED name
  BY DEF Move, Go, Moves, TypeOK

\* A request ends: its row is free, the others keep theirs.
LEMMA LockFinish ==
  ASSUME TypeOK, LockInv, NEW c \in Clients, Moves(c, test[c], "idle"),
         lock' = Unlocked(c), UNCHANGED <<used, tests>>
  PROVE  LockInv'
  <1>1. \A t \in Tests : /\ lock[t] = c => lock'[t] = Nobody
                         /\ lock[t] # c => lock'[t] = lock[t]
                         /\ lock[t] # Nobody => lock[t] \in Clients
    BY DEF Unlocked, TypeOK
  <1>2. "idle" \notin ApiStages /\ "idle" \notin Holding
    BY DEF ApiStages, Holding
  <1>3. \A d \in Clients : test[d] \in Tests
    BY DEF TypeOK
  <1>4. ASSUME NEW d \in Clients, stage'[d] \in Holding, test'[d] \in tests
        PROVE  lock'[test'[d]] = d
    <2>1. d # c /\ stage'[d] = stage[d] /\ test'[d] = test[d]
      BY <1>2, <1>4 DEF Moves
    <2>2. lock[test[d]] = d
      BY <1>4, <2>1 DEF LockInv
    <2>3. QED
      BY <1>1, <1>3, <2>1, <2>2
  <1>5. ASSUME NEW t \in Tests, lock'[t] # Nobody
        PROVE  stage'[lock'[t]] \in Holding /\ test'[lock'[t]] = t /\ t \in tests'
    <2>1. lock'[t] = lock[t] /\ lock[t] \in Clients \ {c}
      BY <1>1, <1>5
    <2>2. QED
      BY <1>5, <2>1 DEF LockInv, Moves
  <1>6. \A d \in Clients : stage'[d] \in ApiStages => test'[d] \in used'
    BY <1>2 DEF LockInv, Moves
  <1>7. QED
    BY <1>4, <1>5, <1>6 DEF LockInv

\* A step that keeps the locks, the request in question holding none.
LEMMA LockKept ==
  ASSUME TypeOK, LockInv, NEW c \in Clients, NEW t \in Tests, NEW s, Moves(c, t, s),
         stage[c] \notin Holding, s \notin Holding, s \in ApiStages => t \in used',
         lock' = lock, used \subseteq used',
         \A d \in Clients \ {c} : stage[d] \in Holding /\ test[d] \in tests' => test[d] \in tests,
         \A u \in Tests : lock[u] # Nobody /\ u \in tests => u \in tests'
  PROVE  LockInv'
  <1>1. \A d \in Clients : stage'[d] \in ApiStages => test'[d] \in used'
    BY DEF LockInv, Moves
  <1>2. ASSUME NEW d \in Clients, stage'[d] \in Holding, test'[d] \in tests'
        PROVE  lock'[test'[d]] = d
    BY <1>2 DEF LockInv, Moves
  <1>3. ASSUME NEW u \in Tests, lock'[u] # Nobody
        PROVE  stage'[lock'[u]] \in Holding /\ test'[lock'[u]] = u /\ u \in tests'
    <2>1. lock[u] \in Clients \ {c}
      BY <1>3 DEF LockInv, TypeOK
    <2>2. QED
      BY <1>3, <2>1 DEF LockInv, Moves
  <1>4. QED
    BY <1>1, <1>2, <1>3 DEF LockInv

\* The steps of requests keep the row lock with one holder.
LEMMA LockHandle ==
  ASSUME TypeOK, CreateInv, LockInv, ApiNext
  PROVE  LockInv'
  <1>0. /\ "idle" \notin ApiStages /\ Holding \subseteq ApiStages
        /\ {"granted", "idle", "lock", "create", "delete", "files"} \cap Holding = {}
        /\ {"lock", "create", "delete", "files"} \subseteq ApiStages
        /\ Holding = {"exists", "count", "insert"}
    BY DEF ApiStages, Holding
  <1>a. \A d \in Clients : test[d] \in Tests /\ tests \subseteq used
    BY DEF TypeOK
  <1>1. ASSUME NEW c \in Clients, Refused(c) PROVE LockInv'
    <2>1. Moves(c, test[c], "idle") /\ stage[c] = "granted"
      BY <1>1, <1>a, AcceptMoves DEF Refused
    <2>2. UNCHANGED <<used, tests, lock>>
      BY <1>1 DEF Refused, rowVars
    <2>3. QED
      BY <1>0, <1>a, <2>1, <2>2, LockKept
  <1>2. ASSUME NEW c \in Clients, NEW t \in Tests, NEW n \in VarNames, PutEnv(c, t, n)
        PROVE  LockInv'
    <2>1. Moves(c, t, "lock") /\ stage[c] = "granted"
      BY <1>2, AcceptMoves DEF PutEnv
    <2>2. UNCHANGED <<used, tests, lock>> /\ t \in tests
      BY <1>2 DEF PutEnv, rowVars
    <2>3. QED
      BY <1>0, <1>a, <2>1, <2>2, LockKept
  <1>3. ASSUME NEW c \in Clients, NEW t \in Tests, NEW n \in VarNames, DeleteEnv(c, t, n)
        PROVE  LockInv'
    <2>1. Moves(c, t, "idle") /\ stage[c] = "granted"
      BY <1>3, AcceptMoves DEF DeleteEnv
    <2>2. UNCHANGED <<used, tests, lock>>
      BY <1>3 DEF DeleteEnv
    <2>3. QED
      BY <1>0, <1>a, <2>1, <2>2, LockKept
  <1>4. ASSUME NEW c \in Clients, NEW t \in Tests, UploadArtifact(c, t) PROVE LockInv'
    <2>1. Moves(c, t, "create") /\ stage[c] = "granted"
      BY <1>4, AcceptMoves DEF UploadArtifact
    <2>2. UNCHANGED <<tests, lock>> /\ used' = used \cup {t}
      BY <1>4 DEF UploadArtifact
    <2>3. QED
      BY <1>0, <1>a, <2>1, <2>2, LockKept
  <1>5. ASSUME NEW c \in Clients, NEW t \in Tests, UploadFails(c, t) PROVE LockInv'
    <2>1. Moves(c, t, "idle") /\ stage[c] = "granted"
      BY <1>5, AcceptMoves DEF UploadFails
    <2>2. UNCHANGED <<tests, lock>> /\ used' = used \cup {t}
      BY <1>5 DEF UploadFails
    <2>3. QED
      BY <1>0, <1>a, <2>1, <2>2, LockKept
  <1>6. ASSUME NEW c \in Clients, NEW t \in Tests, DeleteTest(c, t) PROVE LockInv'
    <2>1. Moves(c, t, "delete") /\ stage[c] = "granted"
      BY <1>6, AcceptMoves DEF DeleteTest
    <2>2. UNCHANGED <<used, tests, lock>> /\ t \in tests
      BY <1>6 DEF DeleteTest, rowVars
    <2>3. QED
      BY <1>0, <1>a, <2>1, <2>2, LockKept
  <1>7. ASSUME NEW c \in Clients, LockTest(c) PROVE LockInv'
    <2>1. Moves(c, test[c], "exists") /\ stage[c] = "lock" /\ UNCHANGED <<used, tests>>
      BY <1>7, MoveMoves DEF LockTest
    <2>2. \A t \in Tests \ {test[c]} : lock'[t] = lock[t]
      BY <1>7 DEF LockTest, TypeOK
    <2>3. /\ test[c] \in tests => lock[test[c]] = Nobody /\ lock'[test[c]] = c
          /\ test[c] \notin tests => lock'[test[c]] = lock[test[c]]
      BY <1>7, <1>a DEF LockTest, TypeOK
    <2>4. \A d \in Clients : stage'[d] \in ApiStages => test'[d] \in used'
      BY <1>0, <2>1 DEF LockInv, Moves
    <2>5. ASSUME NEW d \in Clients, stage'[d] \in Holding, test'[d] \in tests'
          PROVE  lock'[test'[d]] = d
      <3>1. CASE d = c
        BY <2>1, <2>3, <2>5, <3>1 DEF Moves
      <3>2. CASE d # c
        <4>1. stage[d] \in Holding /\ test'[d] = test[d] /\ lock[test[d]] = d
          BY <2>1, <2>5, <3>2 DEF Moves, LockInv
        <4>2. test[d] # test[c]
          BY <2>1, <2>3, <2>5, <4>1, ClientsAssumption
        <4>3. QED
          BY <1>a, <2>2, <4>1, <4>2
      <3>3. QED
        BY <3>1, <3>2
    <2>6. ASSUME NEW t \in Tests, lock'[t] # Nobody
          PROVE  stage'[lock'[t]] \in Holding /\ test'[lock'[t]] = t /\ t \in tests'
      <3>1. CASE t = test[c] /\ t \in tests
        BY <1>0, <2>1, <2>3, <3>1 DEF Moves
      <3>2. CASE ~(t = test[c] /\ t \in tests)
        <4>1. lock'[t] = lock[t]
          BY <2>2, <2>3, <3>2
        <4>2. lock[t] \in Clients /\ stage[lock[t]] \in Holding /\ test[lock[t]] = t /\ t \in tests
          BY <2>6, <4>1 DEF LockInv, TypeOK
        <4>3. lock[t] # c
          BY <1>0, <2>1, <4>2
        <4>4. QED
          BY <2>1, <4>1, <4>2, <4>3 DEF Moves
      <3>3. QED
        BY <3>1, <3>2
    <2>7. QED
      BY <2>4, <2>5, <2>6 DEF LockInv
  <1>8. ASSUME NEW c \in Clients, CheckExists(c) \/ CheckCount(c) PROVE LockInv'
    <2>1. PICK s \in Holding : Moves(c, test[c], s) /\ stage[c] \in Holding /\ UNCHANGED <<used, tests, lock>>
      BY <1>0, <1>8, MoveMoves DEF CheckExists, CheckCount, rowVars
    <2>2. \A d \in Clients : /\ test'[d] = test[d]
                             /\ stage'[d] \in Holding <=> stage[d] \in Holding
                             /\ stage'[d] \in ApiStages <=> stage[d] \in ApiStages
      BY <1>0, <2>1 DEF Moves
    <2>3. \A t \in Tests : lock[t] # Nobody => lock[t] \in Clients
      BY DEF TypeOK
    <2>4. QED
      BY <2>1, <2>2, <2>3 DEF LockInv
  <1>9. ASSUME NEW c \in Clients, TooMany(c) \/ TestGone(c) \/ InsertVar(c) \/ Failed(c) PROVE LockInv'
    <2>1. Moves(c, test[c], "idle") /\ lock' = Unlocked(c) /\ UNCHANGED <<used, tests>>
      BY <1>9, MoveMoves DEF TooMany, TestGone, InsertVar, Failed
    <2>2. QED
      BY <2>1, LockFinish
  <1>10. ASSUME NEW c \in Clients, CreateTest(c) PROVE LockInv'
    <2>1. /\ Moves(c, test[c], "idle") /\ stage[c] = "create"
          /\ UNCHANGED <<used, lock>> /\ tests' = tests \cup {test[c]}
      BY <1>10, MoveMoves DEF CreateTest
    <2>2. \A d \in Clients \ {c} : stage[d] \in Holding => test[d] # test[c]
      BY <1>0, <2>1 DEF CreateInv
    <2>3. QED
      BY <1>0, <1>a, <2>1, <2>2, LockKept
  <1>11. ASSUME NEW c \in Clients, DeleteRows(c) PROVE LockInv'
    <2>1. /\ Moves(c, test[c], "files") /\ stage[c] = "delete" /\ test[c] \in tests
          /\ UNCHANGED <<used, lock>> /\ tests' = tests \ {test[c]} /\ lock[test[c]] = Nobody
      BY <1>11, MoveMoves DEF DeleteRows
    <2>2. QED
      BY <1>0, <1>a, <2>1, LockKept
  <1>12. ASSUME NEW c \in Clients, DeleteFiles(c) PROVE LockInv'
    <2>1. Moves(c, test[c], "idle") /\ stage[c] = "files" /\ UNCHANGED <<used, tests, lock>>
      BY <1>12, MoveMoves DEF DeleteFiles, rowVars
    <2>2. QED
      BY <1>0, <1>a, <2>1, LockKept
  <1>13. CASE Restart
    <2>1. (\A c \in Clients : stage'[c] = "idle") /\ \A t \in Tests : lock'[t] = Nobody
      BY <1>13 DEF Restart
    <2>2. QED
      BY <1>0, <2>1 DEF LockInv
  <1>14. QED
    BY <1>1, <1>2, <1>3, <1>4, <1>5, <1>6, <1>7, <1>8, <1>9, <1>10, <1>11, <1>12, <1>13
       DEF ApiNext, Handle, Start, Upsert

-----------------------------------------------------------------------------

\* Sets of variables are finite, and smaller ones have fewer elements.
LEMMA VarSets ==
  ASSUME NEW S \in SUBSET VarNames
  PROVE  /\ Cardinality(S) \in Nat
         /\ \A T \in SUBSET S : Cardinality(T) \in Nat /\ Cardinality(T) <= Cardinality(S)
         /\ \A n \in VarNames : Cardinality(S \cup {n}) <= Cardinality(S) + 1
  <1>1. IsFiniteSet(S)
    BY VarsAssumption, FS_Subset
  <1>2. Cardinality(S) \in Nat
    BY <1>1, FS_CardinalityType
  <1>3. ASSUME NEW T \in SUBSET S PROVE Cardinality(T) \in Nat /\ Cardinality(T) <= Cardinality(S)
    BY <1>1, FS_Subset, FS_CardinalityType
  <1>4. ASSUME NEW n \in VarNames PROVE Cardinality(S \cup {n}) <= Cardinality(S) + 1
    <2>1. CASE n \in S
      <3>1. S \cup {n} = S
        BY <2>1
      <3>2. QED
        BY <1>2, <3>1
    <2>2. CASE n \notin S
      <3>1. Cardinality(S \cup {n}) = Cardinality(S) + 1
        BY <1>1, <2>2, FS_AddElement
      <3>2. QED
        BY <1>2, <3>1
    <2>3. QED
      BY <2>1, <2>2
  <1>5. QED
    BY <1>2, <1>3, <1>4

\* Deletes, and steps of requests that are not about to insert, keep the limit.
LEMMA VarKept ==
  ASSUME TypeOK, VarInv, NEW c \in Clients, NEW t \in Tests, NEW s, Moves(c, t, s), s # "insert",
         \A d \in Clients \ {c} : stage[d] = "insert" /\ test[d] \in tests' => test[d] \in tests,
         \A u \in Tests : env'[u] \subseteq env[u]
  PROVE  VarInv'
  <1>0. \A u \in Tests : env[u] \in SUBSET VarNames
    BY DEF TypeOK
  <1>1. ASSUME NEW u \in Tests PROVE Cardinality(env'[u]) <= MaxVars
    <2>1. Cardinality(env[u]) \in Nat /\ Cardinality(env'[u]) \in Nat /\ Cardinality(env'[u]) <= Cardinality(env[u])
      BY <1>0, VarSets
    <2>2. QED
      BY <2>1, VarsAssumption DEF VarInv, WithinLimit
  <1>2. ASSUME NEW d \in Clients, stage'[d] = "insert", test'[d] \in tests'
        PROVE  Cardinality(env'[test'[d]] \cup {name'[d]}) <= MaxVars
    <2>1. d # c /\ stage[d] = "insert" /\ test'[d] = test[d] /\ name'[d] = name[d]
      BY <1>2 DEF Moves
    <2>2. Cardinality(env[test[d]] \cup {name[d]}) <= MaxVars
      BY <1>2, <2>1 DEF VarInv
    <2>3. /\ env[test[d]] \cup {name[d]} \in SUBSET VarNames
          /\ env'[test[d]] \cup {name[d]} \in SUBSET (env[test[d]] \cup {name[d]})
      BY <1>0 DEF TypeOK
    <2>4. /\ Cardinality(env[test[d]] \cup {name[d]}) \in Nat
          /\ Cardinality(env'[test[d]] \cup {name[d]}) \in Nat
          /\ Cardinality(env'[test[d]] \cup {name[d]}) <= Cardinality(env[test[d]] \cup {name[d]})
      BY <2>3, VarSets
    <2>5. QED
      BY <2>1, <2>2, <2>4, VarsAssumption
  <1>3. QED
    BY <1>1, <1>2 DEF VarInv, WithinLimit

\* What a writer has found out stays true until it inserts.
LEMMA VarHandle ==
  ASSUME TypeOK, CreateInv, LockInv, VarInv, ApiNext
  PROVE  VarInv'
  <1>a. \A d \in Clients : test[d] \in Tests /\ name[d] \in VarNames /\ env[test[d]] \in SUBSET VarNames
    BY DEF TypeOK
  <1>b. \A d \in Clients : stage[d] = "insert" => stage[d] \in Holding /\ stage[d] \in ApiStages
    BY DEF Holding, ApiStages
  <1>1. ASSUME NEW c \in Clients, Refused(c) PROVE VarInv'
    <2>1. Moves(c, test[c], "idle") /\ UNCHANGED <<tests, env>>
      BY <1>1, <1>a, AcceptMoves DEF Refused, rowVars
    <2>2. QED
      BY <1>a, <2>1, VarKept
  <1>2. ASSUME NEW c \in Clients, NEW t \in Tests, NEW n \in VarNames, PutEnv(c, t, n)
        PROVE  VarInv'
    <2>1. Moves(c, t, "lock") /\ UNCHANGED <<tests, env>>
      BY <1>2, AcceptMoves DEF PutEnv, rowVars
    <2>2. QED
      BY <2>1, VarKept
  <1>3. ASSUME NEW c \in Clients, NEW t \in Tests, NEW n \in VarNames, DeleteEnv(c, t, n)
        PROVE  VarInv'
    <2>1. Moves(c, t, "idle") /\ UNCHANGED tests
      BY <1>3, AcceptMoves DEF DeleteEnv
    <2>2. \A u \in Tests : env'[u] \subseteq env[u]
      BY <1>3 DEF DeleteEnv, TypeOK
    <2>3. QED
      BY <2>1, <2>2, VarKept
  <1>4. ASSUME NEW c \in Clients, NEW t \in Tests,
               UploadArtifact(c, t) \/ UploadFails(c, t) \/ DeleteTest(c, t)
        PROVE  VarInv'
    <2>1. PICK s \in {"create", "idle", "delete"} : Moves(c, t, s) /\ UNCHANGED <<tests, env>>
      BY <1>4, AcceptMoves DEF UploadArtifact, UploadFails, DeleteTest, rowVars
    <2>2. QED
      BY <2>1, VarKept
  <1>5. ASSUME NEW c \in Clients, LockTest(c) \/ TooMany(c) \/ TestGone(c) \/ Failed(c) \/ DeleteFiles(c)
        PROVE  VarInv'
    <2>1. PICK s \in {"exists", "idle"} : Moves(c, test[c], s) /\ UNCHANGED <<tests, env>>
      BY <1>5, MoveMoves DEF LockTest, TooMany, TestGone, Failed, DeleteFiles, rowVars
    <2>2. QED
      BY <1>a, <2>1, VarKept
  <1>6. ASSUME NEW c \in Clients, CheckExists(c) \/ CheckCount(c) PROVE VarInv'
    <2>1. PICK s \in {"insert", "count"} : Moves(c, test[c], s) /\ UNCHANGED <<tests, env, name>>
      BY <1>6, MoveMoves DEF CheckExists, CheckCount, rowVars
    <2>2. CASE s = "count"
      BY <1>a, <2>1, <2>2, VarKept
    <2>3. CASE s = "insert"
      <3>1. name[c] \in env[test[c]] \/ Cardinality(env[test[c]]) < MaxVars
        <4>1. CASE CheckExists(c)
          <5>1. Moves(c, test[c], IF name[c] \in env[test[c]] THEN "insert" ELSE "count")
            BY <4>1, MoveMoves DEF CheckExists
          <5>2. QED
            BY <2>1, <2>3, <5>1 DEF Moves
        <4>2. CASE CheckCount(c)
          BY <4>2 DEF CheckCount
        <4>3. QED
          BY <1>6, <4>1, <4>2
      <3>2. Cardinality(env[test[c]] \cup {name[c]}) <= MaxVars
        <4>1. CASE name[c] \in env[test[c]]
          <5>1. env[test[c]] \cup {name[c]} = env[test[c]]
            BY <4>1
          <5>2. QED
            BY <1>a, <5>1 DEF VarInv, WithinLimit
        <4>2. CASE Cardinality(env[test[c]]) < MaxVars
          <5>1. /\ Cardinality(env[test[c]]) \in Nat
                /\ Cardinality(env[test[c]] \cup {name[c]}) <= Cardinality(env[test[c]]) + 1
            BY <1>a, VarSets
          <5>2. Cardinality(env[test[c]] \cup {name[c]}) \in Nat
            BY <1>a, VarSets
          <5>3. QED
            BY <4>2, <5>1, <5>2, VarsAssumption
        <4>3. QED
          BY <3>1, <4>1, <4>2
      <3>3. QED
        BY <2>1, <3>2 DEF VarInv, WithinLimit, Moves
    <2>4. QED
      BY <2>1, <2>2, <2>3
  <1>7. ASSUME NEW c \in Clients, InsertVar(c) PROVE VarInv'
    <2>1. /\ Moves(c, test[c], "idle") /\ stage[c] = "insert" /\ test[c] \in tests
          /\ UNCHANGED <<tests, name>>
      BY <1>7, MoveMoves DEF InsertVar
    <2>2. /\ env'[test[c]] = env[test[c]] \cup {name[c]}
          /\ \A u \in Tests \ {test[c]} : env'[u] = env[u]
      BY <1>7, <1>a DEF InsertVar, TypeOK
    <2>3. \A u \in Tests : Cardinality(env'[u]) <= MaxVars
      BY <2>1, <2>2 DEF VarInv, WithinLimit
    <2>4. ASSUME NEW d \in Clients, stage'[d] = "insert", test'[d] \in tests'
          PROVE  Cardinality(env'[test'[d]] \cup {name'[d]}) <= MaxVars
      <3>1. d # c /\ stage[d] = "insert" /\ test'[d] = test[d] /\ name'[d] = name[d]
        BY <2>1, <2>4 DEF Moves
      <3>2. lock[test[c]] = c /\ lock[test[d]] = d
        BY <1>b, <2>1, <2>4, <3>1 DEF LockInv
      <3>3. test[d] # test[c]
        BY <3>1, <3>2
      <3>4. env'[test[d]] = env[test[d]]
        BY <1>a, <2>2, <3>3
      <3>5. QED
        BY <2>1, <2>4, <3>1, <3>4 DEF VarInv
    <2>5. QED
      BY <2>3, <2>4 DEF VarInv, WithinLimit
  <1>8. ASSUME NEW c \in Clients, CreateTest(c) PROVE VarInv'
    <2>1. Moves(c, test[c], "idle") /\ stage[c] = "create" /\ UNCHANGED env /\ tests' = tests \cup {test[c]}
      BY <1>8, MoveMoves DEF CreateTest
    <2>2. \A d \in Clients \ {c} : stage[d] = "insert" => test[d] # test[c]
      BY <1>b, <2>1 DEF CreateInv
    <2>3. QED
      BY <1>a, <2>1, <2>2, VarKept
  <1>9. ASSUME NEW c \in Clients, DeleteRows(c) PROVE VarInv'
    <2>1. Moves(c, test[c], "files") /\ tests' = tests \ {test[c]}
      BY <1>9, MoveMoves DEF DeleteRows
    <2>2. \A u \in Tests : env'[u] \subseteq env[u]
      BY <1>9 DEF DeleteRows, TypeOK
    <2>3. QED
      BY <1>a, <2>1, <2>2, VarKept
  <1>10. CASE Restart
    <2>1. (\A c \in Clients : stage'[c] = "idle") /\ UNCHANGED env
      BY <1>10 DEF Restart
    <2>2. QED
      BY <2>1 DEF VarInv, WithinLimit
  <1>11. QED
    BY <1>1, <1>2, <1>3, <1>4, <1>5, <1>6, <1>7, <1>8, <1>9, <1>10 DEF ApiNext, Handle, Start, Upsert

-----------------------------------------------------------------------------

\* A step by which c, unless it uploads, goes on with its test or takes an existing one,
\* and that leaves the artifact and the row of the tests others create as they are.
LEMMA CreateKept ==
  ASSUME TypeOK, CreateInv, NEW c \in Clients, NEW t \in Tests, NEW s, Moves(c, t, s), s # "create",
         s \in ApiStages => t \in tests \/ (t = test[c] /\ stage[c] \in ApiStages),
         \A d \in Clients \ {c} : stage[d] = "create" =>
             (test[d] \in artifacts \ tests => test[d] \in artifacts' \ tests')
  PROVE  CreateInv'
  <1> SUFFICES ASSUME NEW d \in Clients, stage'[d] = "create"
               PROVE  /\ test'[d] \in artifacts' \ tests'
                      /\ \A e \in Clients \ {d} : stage'[e] \in ApiStages => test'[e] # test'[d]
    BY DEF CreateInv
  <1>1. d # c /\ stage[d] = "create" /\ test'[d] = test[d]
    BY DEF Moves
  <1>2. test[d] \in artifacts \ tests /\ \A e \in Clients \ {d} : stage[e] \in ApiStages => test[e] # test[d]
    BY <1>1 DEF CreateInv
  <1>3. ASSUME NEW e \in Clients \ {d}, stage'[e] \in ApiStages PROVE test'[e] # test'[d]
    <2>1. CASE e = c
      BY <1>1, <1>2, <1>3, <2>1 DEF Moves
    <2>2. CASE e # c
      BY <1>1, <1>2, <1>3, <2>2 DEF Moves
    <2>3. QED
      BY <2>1, <2>2
  <1>4. QED
    BY <1>1, <1>2, <1>3

\* An upload keeps its test to itself.
LEMMA CreateHandle ==
  ASSUME TypeOK, CreateInv, LockInv, ApiNext
  PROVE  CreateInv'
  <1>0. /\ {"lock", "exists", "count", "insert", "create", "delete", "files"} = ApiStages
        /\ "idle" \notin ApiStages
    BY DEF ApiStages, Holding
  <1>a. \A d \in Clients : test[d] \in Tests
    BY DEF TypeOK
  <1>1. ASSUME NEW c \in Clients, Refused(c) PROVE CreateInv'
    <2>1. Moves(c, test[c], "idle") /\ UNCHANGED <<tests, artifacts>>
      BY <1>1, <1>a, AcceptMoves DEF Refused, rowVars
    <2>2. QED
      BY <1>0, <1>a, <2>1, CreateKept
  <1>2. ASSUME NEW c \in Clients, NEW t \in Tests, NEW n \in VarNames, PutEnv(c, t, n) \/ DeleteEnv(c, t, n)
        PROVE  CreateInv'
    <2>1. PICK s \in {"lock", "idle"} : Moves(c, t, s) /\ UNCHANGED <<tests, artifacts>> /\ t \in tests
      BY <1>2, AcceptMoves DEF PutEnv, DeleteEnv, rowVars
    <2>2. QED
      BY <2>1, CreateKept
  <1>3. ASSUME NEW c \in Clients, NEW t \in Tests, UploadArtifact(c, t) PROVE CreateInv'
    <2>1. /\ Moves(c, t, "create") /\ t \notin used
          /\ UNCHANGED tests /\ artifacts' = artifacts \cup {t}
      BY <1>3, AcceptMoves DEF UploadArtifact
    <2>2. \A d \in Clients : stage[d] \in ApiStages => test[d] # t
      BY <2>1 DEF LockInv
    <2>3. t \notin tests
      BY <2>1 DEF TypeOK
    <2>4. ASSUME NEW d \in Clients, stage'[d] = "create"
          PROVE  /\ test'[d] \in artifacts' \ tests'
                 /\ \A e \in Clients \ {d} : stage'[e] \in ApiStages => test'[e] # test'[d]
      <3>1. CASE d = c
        BY <2>1, <2>2, <2>3, <3>1 DEF Moves
      <3>2. CASE d # c
        BY <1>0, <2>1, <2>2, <2>4, <3>2 DEF Moves, CreateInv
      <3>3. QED
        BY <3>1, <3>2
    <2>5. QED
      BY <2>4 DEF CreateInv
  <1>4. ASSUME NEW c \in Clients, NEW t \in Tests, UploadFails(c, t) PROVE CreateInv'
    <2>1. Moves(c, t, "idle") /\ UNCHANGED tests /\ artifacts' = artifacts \cup {t}
      BY <1>4, AcceptMoves DEF UploadFails
    <2>2. QED
      BY <1>0, <2>1, CreateKept
  <1>5. ASSUME NEW c \in Clients, NEW t \in Tests, DeleteTest(c, t) PROVE CreateInv'
    <2>1. Moves(c, t, "delete") /\ UNCHANGED <<tests, artifacts>> /\ t \in tests
      BY <1>5, AcceptMoves DEF DeleteTest, rowVars
    <2>2. QED
      BY <2>1, CreateKept
  <1>6. ASSUME NEW c \in Clients, LockTest(c) \/ CheckExists(c) \/ CheckCount(c) PROVE CreateInv'
    <2>1. PICK s \in {"exists", "insert", "count"} :
            Moves(c, test[c], s) /\ stage[c] \in ApiStages /\ UNCHANGED <<tests, artifacts>>
      BY <1>0, <1>6, MoveMoves DEF LockTest, CheckExists, CheckCount, rowVars
    <2>2. QED
      BY <1>a, <2>1, CreateKept
  <1>7. ASSUME NEW c \in Clients, TooMany(c) \/ TestGone(c) \/ InsertVar(c) \/ Failed(c) PROVE CreateInv'
    <2>1. Moves(c, test[c], "idle") /\ UNCHANGED <<tests, artifacts>>
      BY <1>7, MoveMoves DEF TooMany, TestGone, InsertVar, Failed
    <2>2. QED
      BY <1>0, <1>a, <2>1, CreateKept
  <1>8. ASSUME NEW c \in Clients, CreateTest(c) PROVE CreateInv'
    <2>1. /\ Moves(c, test[c], "idle") /\ stage[c] = "create"
          /\ UNCHANGED artifacts /\ tests' = tests \cup {test[c]}
      BY <1>8, MoveMoves DEF CreateTest
    <2>2. \A d \in Clients \ {c} : stage[d] = "create" => test[d] # test[c]
      BY <1>0, <2>1 DEF CreateInv
    <2>3. QED
      BY <1>0, <1>a, <2>1, <2>2, CreateKept
  <1>9. ASSUME NEW c \in Clients, DeleteRows(c) PROVE CreateInv'
    <2>1. /\ Moves(c, test[c], "files") /\ test[c] \in tests
          /\ UNCHANGED artifacts /\ tests' = tests \ {test[c]}
      BY <1>9, MoveMoves DEF DeleteRows
    <2>2. QED
      BY <1>a, <2>1, CreateKept
  <1>10. ASSUME NEW c \in Clients, DeleteFiles(c) PROVE CreateInv'
    <2>1. /\ Moves(c, test[c], "idle") /\ stage[c] = "files"
          /\ UNCHANGED tests /\ artifacts' = artifacts \ {test[c]}
      BY <1>10, MoveMoves DEF DeleteFiles, rowVars
    <2>2. \A d \in Clients \ {c} : stage[d] = "create" => test[d] # test[c]
      BY <1>0, <2>1 DEF CreateInv
    <2>3. QED
      BY <1>0, <1>a, <2>1, <2>2, CreateKept
  <1>11. CASE Restart
    BY <1>11 DEF Restart, CreateInv
  <1>12. QED
    BY <1>1, <1>2, <1>3, <1>4, <1>5, <1>6, <1>7, <1>8, <1>9, <1>10, <1>11 DEF ApiNext, Handle, Start, Upsert

-----------------------------------------------------------------------------

\* A step that accounts for the artifacts it leaves without a row.
LEMMA FileKept ==
  ASSUME TypeOK, FileInv, NEW c \in Clients, NEW t \in Tests, NEW s, Moves(c, t, s),
         s = "files" => t \notin tests',
         \A d \in Clients \ {c} : stage[d] = "files" /\ test[d] \in tests' => test[d] \in tests,
         tests' \subseteq artifacts', abandoned \subseteq abandoned',
         \A u \in artifacts' \ tests' :
            \/ u \in abandoned'
            \/ s \in {"create", "files"} /\ t = u
            \/ u \in artifacts \ tests /\ ~(stage[c] \in {"create", "files"} /\ test[c] = u)
  PROVE  FileInv'
  <1>1. \A d \in Clients : stage'[d] = "files" => test'[d] \notin tests'
    BY DEF Moves, FileInv
  <1>2. ASSUME NEW u \in artifacts' \ tests', u \notin abandoned'
        PROVE  \E d \in Clients : stage'[d] \in {"create", "files"} /\ test'[d] = u
    <2>1. CASE s \in {"create", "files"} /\ t = u
      BY <2>1 DEF Moves
    <2>2. CASE u \in artifacts \ tests /\ ~(stage[c] \in {"create", "files"} /\ test[c] = u)
      <3>1. u \in Unfinished(Clients)
        BY <1>2, <2>2 DEF FileInv, OrphansExplained
      <3>2. PICK d \in Clients : stage[d] \in {"create", "files"} /\ test[d] = u
        BY <3>1 DEF Unfinished
      <3>3. d # c
        BY <2>2, <3>2
      <3>4. QED
        BY <3>2, <3>3 DEF Moves
    <2>3. QED
      BY <1>2, <2>1, <2>2
  <1>3. OrphansExplained'
    BY <1>2 DEF OrphansExplained, Unfinished
  <1>4. QED
    BY <1>1, <1>3 DEF FileInv, ArtifactBehindTest

\* Artifacts go only after rows.
LEMMA FileHandle ==
  ASSUME TypeOK, CreateInv, LockInv, FileInv, ApiNext
  PROVE  FileInv'
  <1>0. tests \subseteq artifacts /\ tests \subseteq used /\ \A d \in Clients : test[d] \in Tests
    BY DEF TypeOK, FileInv, ArtifactBehindTest
  <1>1. ASSUME NEW c \in Clients, Refused(c) PROVE FileInv'
    <2>1. Moves(c, test[c], "idle") /\ stage[c] = "granted" /\ UNCHANGED <<tests, artifacts, abandoned>>
      BY <1>0, <1>1, AcceptMoves DEF Refused, rowVars
    <2>2. QED
      BY <1>0, <2>1, FileKept
  <1>2. ASSUME NEW c \in Clients, NEW t \in Tests, NEW n \in VarNames, PutEnv(c, t, n) \/ DeleteEnv(c, t, n)
        PROVE  FileInv'
    <2>1. PICK s \in {"lock", "idle"} :
            Moves(c, t, s) /\ stage[c] = "granted" /\ UNCHANGED <<tests, artifacts, abandoned>>
      BY <1>2, AcceptMoves DEF PutEnv, DeleteEnv, rowVars
    <2>2. QED
      BY <1>0, <2>1, FileKept
  <1>3. ASSUME NEW c \in Clients, NEW t \in Tests, UploadArtifact(c, t) PROVE FileInv'
    <2>1. /\ Moves(c, t, "create") /\ stage[c] = "granted"
          /\ UNCHANGED <<tests, abandoned>> /\ artifacts' = artifacts \cup {t}
      BY <1>3, AcceptMoves DEF UploadArtifact
    <2>2. QED
      BY <1>0, <2>1, FileKept
  <1>4. ASSUME NEW c \in Clients, NEW t \in Tests, UploadFails(c, t) PROVE FileInv'
    <2>1. /\ Moves(c, t, "idle") /\ stage[c] = "granted"
          /\ UNCHANGED tests /\ artifacts' = artifacts \cup {t} /\ abandoned' = abandoned \cup {t}
      BY <1>4, AcceptMoves DEF UploadFails
    <2>2. QED
      BY <1>0, <2>1, FileKept
  <1>5. ASSUME NEW c \in Clients, NEW t \in Tests, DeleteTest(c, t) PROVE FileInv'
    <2>1. Moves(c, t, "delete") /\ stage[c] = "granted" /\ UNCHANGED <<tests, artifacts, abandoned>>
      BY <1>5, AcceptMoves DEF DeleteTest, rowVars
    <2>2. QED
      BY <1>0, <2>1, FileKept
  <1>6. ASSUME NEW c \in Clients,
               \/ LockTest(c) \/ CheckExists(c) \/ CheckCount(c) \/ TooMany(c)
               \/ TestGone(c) \/ InsertVar(c)
        PROVE  FileInv'
    <2>1. PICK s \in {"exists", "insert", "count", "idle"} :
            /\ Moves(c, test[c], s) /\ stage[c] \notin {"create", "files"}
            /\ UNCHANGED <<tests, artifacts, abandoned>>
      BY <1>6, MoveMoves DEF LockTest, CheckExists, CheckCount, TooMany, TestGone, InsertVar, rowVars
    <2>2. QED
      BY <1>0, <2>1, FileKept
  <1>7. ASSUME NEW c \in Clients, CreateTest(c) PROVE FileInv'
    <2>1. /\ Moves(c, test[c], "idle") /\ stage[c] = "create"
          /\ UNCHANGED <<artifacts, abandoned>> /\ tests' = tests \cup {test[c]}
      BY <1>7, MoveMoves DEF CreateTest
    <2>2. test[c] \in artifacts /\ \A d \in Clients \ {c} : stage[d] = "files" => test[d] # test[c]
      BY <2>1 DEF CreateInv, ApiStages
    <2>3. QED
      BY <1>0, <2>1, <2>2, FileKept
  <1>8. ASSUME NEW c \in Clients, DeleteRows(c) PROVE FileInv'
    <2>1. /\ Moves(c, test[c], "files") /\ stage[c] = "delete"
          /\ UNCHANGED <<artifacts, abandoned>> /\ tests' = tests \ {test[c]}
      BY <1>8, MoveMoves DEF DeleteRows
    <2>2. QED
      BY <1>0, <2>1, FileKept
  <1>9. ASSUME NEW c \in Clients, DeleteFiles(c) PROVE FileInv'
    <2>1. /\ Moves(c, test[c], "idle") /\ stage[c] = "files"
          /\ UNCHANGED <<tests, abandoned>> /\ artifacts' = artifacts \ {test[c]}
      BY <1>9, MoveMoves DEF DeleteFiles, rowVars
    <2>2. test[c] \notin tests
      BY <2>1 DEF FileInv
    <2>3. QED
      BY <1>0, <2>1, <2>2, FileKept
  <1>10. ASSUME NEW c \in Clients, Failed(c) PROVE FileInv'
    <2>1. /\ Moves(c, test[c], "idle") /\ UNCHANGED <<tests, artifacts>>
          /\ abandoned' = abandoned \cup Unfinished({c})
      BY <1>10, MoveMoves DEF Failed
    <2>2. stage[c] \in {"create", "files"} => test[c] \in Unfinished({c})
      BY DEF Unfinished
    <2>3. QED
      BY <1>0, <2>1, <2>2, FileKept
  <1>11. CASE Restart
    <2>1. /\ UNCHANGED <<tests, artifacts>> /\ abandoned' = abandoned \cup Unfinished(Clients)
          /\ \A d \in Clients : stage'[d] = "idle"
      BY <1>11 DEF Restart
    <2>2. OrphansExplained'
      BY <2>1 DEF FileInv, OrphansExplained
    <2>3. QED
      BY <2>1, <2>2 DEF FileInv, ArtifactBehindTest
  <1>12. QED
    BY <1>1, <1>2, <1>3, <1>4, <1>5, <1>6, <1>7, <1>8, <1>9, <1>10, <1>11 DEF ApiNext, Handle, Start, Upsert

-----------------------------------------------------------------------------
(* The requests implement the abstract store of tests. *)

phases == [t \in Tests |-> Phase(t)]

\* A step that changes nobody's creating leaves the uploads under way.
LEMMA CreatingKept ==
  ASSUME NEW c \in Clients, NEW t, NEW s, Moves(c, t, s), stage[c] # "create", s # "create"
  PROVE  Creating' = Creating
  <1>1. \A d \in Clients : stage'[d] = "create" <=> stage[d] = "create"
    BY DEF Moves
  <1>2. \A d \in Clients : stage[d] = "create" => test'[d] = test[d]
    BY DEF Moves
  <1>3. QED
    BY <1>1, <1>2 DEF Creating

\* The phases follow from the rows and the uploads under way.
LEMMA PhasesKept ==
  ASSUME UNCHANGED <<used, tests>>, Creating' = Creating
  PROVE  phases' = phases
  BY DEF phases, Phase

\* Who creates a test has drawn its UUID, has not created it yet, and nobody else is at
\* work on it.
LEMMA CreatorFacts ==
  ASSUME IInv
  PROVE  /\ Creating \subseteq used /\ Creating \cap tests = {}
         /\ \A d \in Clients : stage[d] \in ApiStages \ {"create"} => test[d] \notin Creating
  <1>1. ASSUME NEW t \in Creating
        PROVE  /\ t \in used /\ t \notin tests
               /\ \A d \in Clients : stage[d] \in ApiStages \ {"create"} => test[d] # t
    <2>1. PICK c \in Clients : stage[c] = "create" /\ test[c] = t
      BY DEF Creating
    <2>2. t \in used
      BY <2>1 DEF IInv, LockInv, ApiStages
    <2>3. QED
      BY <2>1, <2>2 DEF IInv, CreateInv
  <1>2. QED
    BY <1>1

\* An upload begins the life of a test, and may end it at once.
LEMMA UploadStep ==
  ASSUME IInv, NEW c \in Clients, NEW t \in Tests, UploadArtifact(c, t) \/ UploadFails(c, t)
  PROVE  Store!Upload(t)
  <1>0. TypeOK /\ t \notin used /\ t \notin tests /\ t \notin Creating
    BY CreatorFacts DEF IInv, TypeOK, UploadArtifact, UploadFails
  <1>1. /\ tests' = tests /\ used' = used \cup {t} /\ artifacts' = artifacts \cup {t}
        /\ env' = env
    BY DEF UploadArtifact, UploadFails
  <1>2. phases[t] = "unused"
    BY <1>0 DEF phases, Phase
  <1>3. CASE UploadArtifact(c, t)
    <2>1. Moves(c, t, "create") /\ stage[c] = "granted"
      BY <1>0, <1>3, AcceptMoves DEF UploadArtifact
    <2>2. Creating' = Creating \cup {t}
      <3>1. \A d \in Clients : stage'[d] = "create" <=> d = c \/ stage[d] = "create"
        BY <2>1 DEF Moves
      <3>2. \A d \in Clients : stage[d] = "create" => test'[d] = test[d]
        BY <2>1 DEF Moves
      <3>3. test'[c] = t
        BY <2>1 DEF Moves
      <3>4. QED
        BY <2>1, <3>1, <3>2, <3>3 DEF Creating
    <2>3. \A u \in Tests : Phase(u)' = IF u = t THEN "uploaded" ELSE Phase(u)
      BY <1>0, <1>1, <2>2 DEF Phase
    <2>4. phases' = [phases EXCEPT ![t] = "uploaded"]
      BY <2>3 DEF phases
    <2>5. QED
      BY <1>1, <1>2, <2>4 DEF Store!Upload, phases
  <1>4. CASE UploadFails(c, t)
    <2>1. Moves(c, t, "idle") /\ stage[c] = "granted"
      BY <1>0, <1>4, AcceptMoves DEF UploadFails
    <2>2. Creating' = Creating
      BY <2>1, CreatingKept
    <2>3. \A u \in Tests : Phase(u)' = IF u = t THEN "over" ELSE Phase(u)
      BY <1>0, <1>1, <2>2 DEF Phase
    <2>4. phases' = [phases EXCEPT ![t] = "over"]
      BY <2>3 DEF phases
    <2>5. QED
      BY <1>1, <1>2, <2>4 DEF Store!Upload, phases
  <1>5. QED
    BY <1>3, <1>4

\* The end of an upload, by its row, a failure or a restart.
LEMMA CreationStep ==
  ASSUME IInv, NEW c \in Clients, stage[c] = "create", CreateTest(c) \/ Failed(c)
  PROVE  Store!Create(test[c]) \/ Store!Abandon({test[c]})
  <1>0. TypeOK /\ test[c] \in Tests /\ test[c] \in used /\ test[c] \notin tests /\ test[c] \in Creating
    BY CreatorFacts DEF IInv, TypeOK, LockInv, CreateInv, Creating, ApiStages
  <1>1. Moves(c, test[c], "idle") /\ UNCHANGED <<used, env, artifacts>>
    BY <1>0, MoveMoves DEF CreateTest, Failed
  <1>2. Creating' = Creating \ {test[c]}
    <2>1. \A d \in Clients : stage'[d] = "create" <=> d # c /\ stage[d] = "create"
      BY <1>1 DEF Moves
    <2>2. \A d \in Clients : d # c /\ stage[d] = "create" => test'[d] = test[d] /\ test[d] # test[c]
      BY <1>1 DEF Moves, IInv, CreateInv, ApiStages
    <2>3. QED
      BY <2>1, <2>2 DEF Creating
  <1>3. phases[test[c]] = "uploaded"
    BY <1>0 DEF phases, Phase
  <1>4. CASE CreateTest(c)
    <2>1. tests' = tests \cup {test[c]}
      BY <1>4 DEF CreateTest
    <2>2. \A u \in Tests : Phase(u)' = IF u = test[c] THEN "live" ELSE Phase(u)
      BY <1>0, <1>1, <1>2, <2>1 DEF Phase
    <2>3. phases' = [phases EXCEPT ![test[c]] = "live"]
      BY <2>2 DEF phases
    <2>4. QED
      BY <1>1, <1>3, <2>3 DEF Store!Create, phases
  <1>5. CASE Failed(c)
    <2>1. tests' = tests
      BY <1>5 DEF Failed
    <2>2. \A u \in Tests : Phase(u)' = IF u = test[c] THEN "over" ELSE Phase(u)
      BY <1>0, <1>1, <1>2, <2>1 DEF Phase
    <2>3. phases' = [u \in Tests |-> IF u \in {test[c]} THEN "over" ELSE phases[u]]
      BY <2>2 DEF phases
    <2>4. QED
      BY <1>1, <1>3, <2>3 DEF Store!Abandon, phases
  <1>6. QED
    BY <1>4, <1>5

\* A restart gives up the uploads in progress and changes nothing else.
LEMMA RestartStep ==
  ASSUME IInv, Restart
  PROVE  Store!Abandon(Creating) /\ Creating \in SUBSET Tests
  <1>1. Creating \subseteq used /\ Creating \cap tests = {} /\ used \subseteq Tests
    BY CreatorFacts DEF IInv, TypeOK
  <1>2. Creating' = {} /\ UNCHANGED <<used, tests, env, artifacts>>
    BY DEF Restart, Creating
  <1>3. \A u \in Tests : Phase(u)' = IF u \in Creating THEN "over" ELSE Phase(u)
    BY <1>1, <1>2 DEF Phase
  <1>4. phases' = [u \in Tests |-> IF u \in Creating THEN "over" ELSE phases[u]]
    BY <1>3 DEF phases
  <1>5. \A u \in Creating : phases[u] = "uploaded"
    BY <1>1 DEF phases, Phase
  <1>6. QED
    BY <1>1, <1>2, <1>4, <1>5 DEF Store!Abandon, phases

\* The statements that change a test that is there.
LEMMA LiveStep ==
  ASSUME IInv, NEW c \in Clients
  PROVE  /\ InsertVar(c) => Store!SetVar(test[c], name[c])
         /\ DeleteRows(c) => Store!Delete(test[c])
         /\ \A t \in Tests, n \in VarNames : DeleteEnv(c, t, n) => Store!UnsetVar(t, n)
         /\ DeleteFiles(c) => Store!RemoveArtifact(test[c])
  <1>0. TypeOK /\ test[c] \in Tests
    BY DEF IInv, TypeOK
  <1>a. tests \subseteq used /\ used \subseteq Tests
    BY <1>0 DEF TypeOK
  <1>1. ASSUME InsertVar(c) PROVE Store!SetVar(test[c], name[c])
    <2>1. Moves(c, test[c], "idle") /\ stage[c] = "insert"
      BY <1>0, <1>1, MoveMoves DEF InsertVar
    <2>2. phases' = phases
      BY <1>1, <2>1, CreatingKept, PhasesKept DEF InsertVar
    <2>3. phases[test[c]] = "live"
      BY <1>0, <1>1, <1>a DEF InsertVar, phases, Phase
    <2>4. Cardinality(env[test[c]] \cup {name[c]}) <= MaxVars
      BY <1>1 DEF InsertVar, IInv, VarInv
    <2>5. \A S : Store!Cardinality(S) = Cardinality(S)
      BY DEF Store!Cardinality, Cardinality
    <2>6. QED
      BY <1>1, <2>2, <2>3, <2>4, <2>5 DEF InsertVar, Store!SetVar, phases
  <1>2. ASSUME DeleteRows(c) PROVE Store!Delete(test[c])
    <2>1. Moves(c, test[c], "files") /\ stage[c] = "delete" /\ tests' = tests \ {test[c]}
      BY <1>0, <1>2, MoveMoves DEF DeleteRows
    <2>2. Creating' = Creating /\ test[c] \in tests /\ test[c] \notin Creating
      BY <1>2, <2>1, CreatingKept, CreatorFacts DEF DeleteRows
    <2>3. phases[test[c]] = "live"
      BY <1>0, <1>a, <2>2 DEF phases, Phase
    <2>4. \A u \in Tests : Phase(u)' = IF u = test[c] THEN "over" ELSE Phase(u)
      BY <1>2, <1>a, <2>1, <2>2 DEF DeleteRows, Phase
    <2>5. phases' = [phases EXCEPT ![test[c]] = "over"]
      BY <2>4 DEF phases
    <2>6. QED
      BY <1>2, <2>3, <2>5 DEF DeleteRows, Store!Delete, phases
  <1>3. ASSUME NEW t \in Tests, NEW n \in VarNames, DeleteEnv(c, t, n)
        PROVE  Store!UnsetVar(t, n)
    <2>1. Moves(c, t, "idle") /\ stage[c] = "granted"
      BY <1>0, <1>3, AcceptMoves DEF DeleteEnv
    <2>2. phases' = phases
      BY <1>3, <2>1, CreatingKept, PhasesKept DEF DeleteEnv
    <2>3. phases[t] = "live"
      BY <1>3, <1>a DEF DeleteEnv, phases, Phase
    <2>4. QED
      BY <1>3, <2>2, <2>3 DEF DeleteEnv, Store!UnsetVar, phases
  <1>4. ASSUME DeleteFiles(c) PROVE Store!RemoveArtifact(test[c])
    <2>1. Moves(c, test[c], "idle") /\ stage[c] = "files"
      BY <1>0, <1>4, MoveMoves DEF DeleteFiles
    <2>2. phases' = phases
      BY <1>4, <2>1, CreatingKept, PhasesKept DEF DeleteFiles, rowVars
    <2>3. test[c] \in used /\ test[c] \notin tests /\ test[c] \notin Creating
      BY <2>1, CreatorFacts DEF IInv, LockInv, FileInv, ApiStages
    <2>4. phases[test[c]] = "over"
      BY <1>0, <2>3 DEF phases, Phase
    <2>5. QED
      BY <1>4, <2>2, <2>4 DEF DeleteFiles, rowVars, Store!RemoveArtifact, phases
  <1>5. QED
    BY <1>1, <1>2, <1>3, <1>4

\* The statements and calls that a caller does not see.
LEMMA HiddenStep ==
  ASSUME IInv, NEW c \in Clients,
         \/ Refused(c) \/ LockTest(c) \/ CheckExists(c) \/ CheckCount(c) \/ TooMany(c)
         \/ TestGone(c) \/ (Failed(c) /\ stage[c] # "create")
         \/ \E t \in Tests : DeleteTest(c, t) \/ \E n \in VarNames : PutEnv(c, t, n)
  PROVE  phases' = phases /\ env' = env /\ artifacts' = artifacts
  <1>0. TypeOK /\ test[c] \in Tests
    BY DEF IInv, TypeOK
  <1>1. UNCHANGED <<used, tests, env, artifacts>>
    BY DEF Refused, LockTest, CheckExists, CheckCount, TooMany, TestGone, Failed, DeleteTest,
       PutEnv, rowVars
  <1>2. \E t \in Tests, s \in {"idle", "exists", "insert", "count", "delete", "lock"} :
          Moves(c, t, s) /\ stage[c] # "create"
    <2>1. CASE Refused(c) \/ \E t \in Tests : DeleteTest(c, t) \/ \E n \in VarNames : PutEnv(c, t, n)
      <3>1. PICK t \in Tests, s \in {"idle", "delete", "lock"} :
              /\ Accept(c, t, s)
              /\ UNCHANGED name \/ \E n \in VarNames : name' = [name EXCEPT ![c] = n]
        BY <1>0, <2>1 DEF Refused, DeleteTest, PutEnv
      <3>2. Moves(c, t, s) /\ stage[c] = "granted"
        BY <1>0, <3>1, AcceptMoves
      <3>3. QED
        BY <3>2
    <2>2. CASE \/ LockTest(c) \/ CheckExists(c) \/ CheckCount(c) \/ TooMany(c) \/ TestGone(c)
               \/ (Failed(c) /\ stage[c] # "create")
      <3>1. PICK s \in {"idle", "exists", "insert", "count"} : Move(c, s) /\ stage[c] # "create"
        BY <2>2 DEF LockTest, CheckExists, CheckCount, TooMany, TestGone, Failed
      <3>2. QED
        BY <1>0, <3>1, MoveMoves
    <2>3. QED
      BY <2>1, <2>2
  <1>3. Creating' = Creating
    BY <1>2, CreatingKept
  <1>4. QED
    BY <1>1, <1>3, PhasesKept

\* Every step is a step of the abstract store or leaves it alone.
LEMMA StoreStep == IInv /\ [Next]_vars => [Store!Next]_(Store!vars)
  <1> SUFFICES ASSUME IInv, [Next]_vars PROVE [Store!Next]_(Store!vars)
    OBVIOUS
  <1>0. TypeOK /\ \A c \in Clients : test[c] \in Tests /\ name[c] \in VarNames
    BY DEF IInv, TypeOK
  <1>1. ASSUME phases' = phases, env' = env, artifacts' = artifacts PROVE UNCHANGED Store!vars
    BY <1>1 DEF phases, Store!vars
  <1>2. ASSUME NEW c \in Clients, NEW t \in Tests, UploadArtifact(c, t) \/ UploadFails(c, t)
        PROVE  Store!Next
    BY <1>2, UploadStep DEF Store!Next
  <1>3. ASSUME NEW c \in Clients, stage[c] = "create", CreateTest(c) \/ Failed(c)
        PROVE  Store!Next
    <2>1. Store!Create(test[c]) \/ Store!Abandon({test[c]})
      BY <1>3, CreationStep
    <2>2. test[c] \in Tests /\ {test[c]} \in SUBSET Tests
      BY <1>0
    <2>3. QED
      BY <2>1, <2>2 DEF Store!Next
  <1>4. ASSUME NEW c \in Clients,
               \/ InsertVar(c) \/ DeleteRows(c) \/ DeleteFiles(c)
               \/ \E t \in Tests, n \in VarNames : DeleteEnv(c, t, n)
        PROVE  Store!Next
    BY <1>0, <1>4, LiveStep DEF Store!Next
  <1>5. ASSUME NEW c \in Clients,
               \/ Refused(c) \/ LockTest(c) \/ CheckExists(c) \/ CheckCount(c) \/ TooMany(c)
               \/ TestGone(c) \/ (Failed(c) /\ stage[c] # "create")
               \/ \E t \in Tests : DeleteTest(c, t) \/ \E n \in VarNames : PutEnv(c, t, n)
        PROVE  UNCHANGED Store!vars
    BY <1>1, <1>5, HiddenStep
  <1>6. CASE Restart
    BY <1>6, RestartStep DEF Store!Next
  <1>7. CASE (AuthNext /\ UNCHANGED apiVars) \/ UNCHANGED vars
    <2>1. UNCHANGED apiVars /\ \A d \in Clients : stage'[d] = "create" <=> stage[d] = "create"
      <3>1. CASE AuthNext /\ UNCHANGED apiVars
        <4>1. Verifying
          BY <1>0, <3>1, AuthIsVerifying
        <4>2. QED
          BY <4>1 DEF Verifying, AuthStages
      <3>2. CASE UNCHANGED vars
        BY <3>2 DEF vars, authVars
      <3>3. QED
        BY <1>7, <3>1, <3>2
    <2>2. UNCHANGED <<test, used, tests, env, artifacts>>
      BY <2>1 DEF apiVars, rowVars
    <2>3. Creating' = Creating
      BY <2>1, <2>2 DEF Creating
    <2>4. QED
      BY <1>1, <2>2, <2>3, PhasesKept
  <1>8. ASSUME NEW c \in Clients, CreateTest(c) PROVE stage[c] = "create"
    BY <1>8 DEF CreateTest
  <1>9. QED
    BY <1>2, <1>3, <1>4, <1>5, <1>6, <1>7, <1>8 DEF Next, Handle, Start, Upsert

-----------------------------------------------------------------------------
(* Theorems. *)

\* The initial state satisfies the invariant.
LEMMA Initially == Init => IInv
  <1> SUFFICES ASSUME Init PROVE IInv
    OBVIOUS
  <1>1. TypeOK
    BY TimeAssumption DEF Init, AuthInit, TypeOK, AuthStages, Time
  <1>2. AuthInv
    BY TimeAssumption DEF Init, AuthInit, AuthInv, Never
  <1>3. CreateInv /\ LockInv
    BY DEF Init, AuthInit, CreateInv, LockInv, ApiStages, Holding
  <1>4. VarInv
    <2>1. Cardinality({}) = 0
      BY FS_EmptySet
    <2>2. QED
      BY <2>1, VarsAssumption DEF Init, AuthInit, VarInv, WithinLimit
  <1>5. FileInv
    BY DEF Init, AuthInit, FileInv, ArtifactBehindTest, OrphansExplained
  <1>6. QED
    BY <1>1, <1>2, <1>3, <1>4, <1>5 DEF IInv

\* Every step keeps the invariant.
LEMMA Step == IInv /\ [Next]_vars => IInv'
  <1> SUFFICES ASSUME IInv, [Next]_vars PROVE IInv'
    OBVIOUS
  <1> USE DEF IInv
  <1>1. CASE AuthNext /\ UNCHANGED apiVars
    <2>1. Verifying
      BY <1>1, AuthIsVerifying
    <2>2. TypeOK' /\ AuthInv'
      BY <1>1, TypeVerify, AuthVerify
    <2>3. QED
      BY <2>1, <2>2, RestVerify
  <1>2. CASE ApiNext
    <2>1. Handling
      BY <1>2, ApiIsHandling
    <2>2. TypeOK' /\ AuthInv'
      BY <1>2, <2>1, TypeHandle, AuthHandle
    <2>3. CreateInv' /\ LockInv' /\ VarInv' /\ FileInv'
      BY <1>2, CreateHandle, LockHandle, VarHandle, FileHandle
    <2>4. QED
      BY <2>2, <2>3
  <1>3. CASE UNCHANGED vars
    <2>1. UNCHANGED <<now, revoked, cache, stage, token, clock>> /\ UNCHANGED apiVars
      BY <1>3 DEF vars, authVars
    <2>2. Verifying /\ TypeOK' /\ AuthInv'
      BY <2>1 DEF Verifying, TypeOK, AuthInv, apiVars, rowVars
    <2>3. QED
      BY <2>2, RestVerify
  <1>4. QED
    BY <1>1, <1>2, <1>3 DEF Next, ApiNext

\* The invariant of the requests, their verification and what they leave behind.
THEOREM Invariance == Spec => []IInv
  BY Initially, Step, PTL DEF Spec

\* Type correctness of the requests; variables belong to tests that exist.
THEOREM TypeCorrect == Spec => []TypeOK
  <1>1. IInv => TypeOK
    BY DEF IInv
  <1>2. QED
    BY <1>1, Invariance, PTL

\* A revoked token passes the Verifier for less than cacheTTL, whatever the timing of the
\* questions, the answers and the other requests.
THEOREM RevocationTakesEffect == Spec => []GrantsFresh
  <1>1. IInv => GrantsFresh
    BY DEF IInv, AuthInv, GrantsFresh
  <1>2. QED
    BY <1>1, Invariance, PTL

\* Upsert enforces the limit on variables, for any number of concurrent requests.
THEOREM LimitEnforced == Spec => []WithinLimit
  <1>1. IInv => WithinLimit
    BY DEF IInv, VarInv
  <1>2. QED
    BY <1>1, Invariance, PTL

\* A row of tests always has its artifact.
THEOREM TestsRunnable == Spec => []ArtifactBehindTest
  <1>1. IInv => ArtifactBehindTest
    BY DEF IInv, FileInv
  <1>2. QED
    BY <1>1, Invariance, PTL

\* Only a request that fails between the artifact and the row leaves one without the other.
THEOREM NoOtherOrphans == Spec => []OrphansExplained
  <1>1. IInv => OrphansExplained
    BY DEF IInv, FileInv
  <1>2. QED
    BY <1>1, Invariance, PTL

\* The requests implement the store in which each takes effect at once, for any number
\* of clients, tests and variables and any limit.
THEOREM Implementation == Spec => ImplementsTestStore
  <1>1. Init => Store!Init
    <2> SUFFICES ASSUME Init PROVE Store!Init
      OBVIOUS
    <2>1. \A t \in Tests : Phase(t) = "unused"
      BY DEF Init, Phase
    <2>2. QED
      BY <2>1 DEF Init, Store!Init
  <1>2. QED
    BY Invariance, StoreStep, <1>1, PTL DEF Spec, ImplementsTestStore, Store!Spec
=============================================================================
