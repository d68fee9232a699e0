------------------------------ MODULE AuthCache ------------------------------
(***************************************************************************)
(* The Verifier that stands before every request that changes state: a     *)
(* token is approved by asking Supabase, and an approval is remembered for *)
(* cacheTTL, counted from before the question was sent.                    *)
(*                                                                         *)
(* Time advances in ticks.  A request is a client's, one at a time; what   *)
(* it does once approved is in module Api.                                 *)
(***************************************************************************)
EXTENDS Integers

CONSTANTS Clients,
          Tokens,
          TTL,        \* cacheTTL
          Timeout,    \* of the http.Client that asks Supabase
          MaxTime     \* bound on the clock

ASSUME TimeAssumption ==
    TTL \in Nat /\ Timeout \in Nat /\ MaxTime \in Nat /\ 0 < TTL /\ Timeout < TTL

Time  == 0..MaxTime
Never == MaxTime + 1
NoToken == "no token"

VARIABLES
    now,
    revoked,   \* when Supabase revoked a token, or Never
    cache,     \* when the remembered approval of a token expires; 0 if there is none
    stage,     \* where a client's request is
    token,     \* its token, until the handler takes over
    clock      \* while it is verified, the time valid() read; once granted, when it was

authVars == <<now, revoked, cache, stage, token, clock>>

AuthStages == {"idle", "ask", "answered", "granted"}

AuthInit ==
    /\ now = 0
    /\ revoked = [t \in Tokens |-> Never]
    /\ cache = [t \in Tokens |-> 0]
    /\ stage = [c \in Clients |-> "idle"]
    /\ token = [c \in Clients |-> NoToken]
    /\ clock = [c \in Clients |-> 0]

Go(c, s) == stage' = [stage EXCEPT ![c] = s]

\* The verification of a request is over.
Forget(c) == token' = [token EXCEPT ![c] = NoToken] /\ clock' = [clock EXCEPT ![c] = 0]

\* valid: the remembered approval lets the request through.
CacheHit(c, t) ==
    /\ stage[c] = "idle" /\ now < cache[t]
    /\ Go(c, "granted")
    /\ token' = [token EXCEPT ![c] = t]
    /\ clock' = [clock EXCEPT ![c] = now]
    /\ UNCHANGED <<now, revoked, cache>>

\* There is none, or it has expired: the question is sent.
CacheMiss(c, t) ==
    /\ stage[c] = "idle" /\ ~ (now < cache[t])
    /\ Go(c, "ask")
    /\ token' = [token EXCEPT ![c] = t]
    /\ clock' = [clock EXCEPT ![c] = now]
    /\ UNCHANGED <<now, revoked, cache>>

\* External: Supabase answers 200 to the tokens it has not revoked.
SupabaseAnswers(c) ==
    /\ stage[c] = "ask" /\ revoked[token[c]] = Never
    /\ Go(c, "answered")
    /\ UNCHANGED <<now, revoked, cache, token, clock>>

\* Mutant: the lifetime counts from the answer.
ExpiryFromAnswer(c) == now + TTL

Expiry(c) == clock[c] + TTL

\* The answer arrives before the client's timeout.  Expired approvals are dropped and
\* this one is remembered.
StoreApproval(c) ==
    /\ stage[c] = "answered" /\ now <= clock[c] + Timeout
    /\ cache' = [t \in Tokens |-> IF t = token[c] THEN Expiry(c)
                                  ELSE IF cache[t] < clock[c] THEN 0 ELSE cache[t]]
    /\ Go(c, "granted")
    /\ clock' = [clock EXCEPT ![c] = now]
    /\ UNCHANGED <<now, revoked, token>>

\* Any other answer, an error, or the timeout: 401.
Unauthorized(c) ==
    /\ stage[c] \in {"ask", "answered"}
    /\ Go(c, "idle") /\ Forget(c)
    /\ UNCHANGED <<now, revoked, cache>>

\* External: the user signs out, or an administrator ends the session.
Revoke(t) ==
    /\ revoked[t] = Never
    /\ revoked' = [revoked EXCEPT ![t] = now]
    /\ UNCHANGED <<now, cache, stage, token, clock>>

Tick ==
    /\ now < MaxTime
    /\ now' = now + 1
    /\ UNCHANGED <<revoked, cache, stage, token, clock>>

Verify(c) == SupabaseAnswers(c) \/ StoreApproval(c) \/ Unauthorized(c)

AuthNext ==
    \/ Tick
    \/ \E t \in Tokens : Revoke(t) \/ \E c \in Clients : CacheHit(c, t) \/ CacheMiss(c, t)
    \/ \E c \in Clients : Verify(c)

-----------------------------------------------------------------------------

\* A revoked token is let through for less than cacheTTL after its revocation, although
\* answers travel while it is revoked, and other requests fill and clean the cache.
GrantsFresh ==
    \A c \in Clients : stage[c] = "granted" => clock[c] < revoked[token[c]] + TTL
=============================================================================
