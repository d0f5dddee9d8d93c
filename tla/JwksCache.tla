------------------------------ MODULE JwksCache ------------------------------
(***************************************************************************)
(* The keys of the issuer of invocation tokens, cached in one runtime      *)
(* (src/a2a_auth.rs).  A request that needs a key takes the mutex of the   *)
(* cache and keeps it through its fetch, which ends within a time limit.   *)
(* The issuer adds and withdraws keys at any time; a fetch is a request    *)
(* and an answer, and what it brings may be old when it is stored.         *)
(***************************************************************************)
EXTENDS Integers, Sequences, FiniteSets, Functions

CONSTANTS
    Request,    \* A2A requests of the runtime that may fetch
    Kid,        \* identifiers of keys, some of which are never published
    MaxKeys,    \* MAX_JWKS_KEYS
    Ttl,        \* JWKS_TTL
    Cooldown,   \* REFRESH_COOLDOWN
    Timeout,    \* JWKS_TIMEOUT
    MaxTime     \* bound: the clock

ASSUME JwksAssumption ==
    /\ {MaxKeys, Ttl, Cooldown, Timeout, MaxTime} \subseteq Nat
    /\ Timeout < Cooldown /\ Cooldown < Ttl

VARIABLES
    clock,
    since,     \* the issuer: when a key was published
    until,     \* the issuer: when it was withdrawn
    cache,     \* JwksCache
    fetch,     \* the fetch every request has in flight
    starts,    \* history: when the last three fetches started, the latest last
    failed     \* history: when a fetch failed or was abandoned in the last cool-down

issuer == <<since, until>>
vars == <<clock, issuer, cache, fetch, starts, failed>>

Never == -1
Time  == 0 .. MaxTime
Idle  == [pc |-> "idle"]

Published == {k \in Kid : since[k] # Never /\ until[k] = Never}

Init ==
    /\ clock = 0
    /\ since \in [Kid -> {Never, 0}]
    /\ until = [k \in Kid |-> Never]
    /\ cache = [keys |-> {}, validUntil |-> Never, attempt |-> Never, forced |-> Never]
    /\ fetch = [r \in Request |-> Idle]
    /\ starts = <<Never, Never, Never>>
    /\ failed = Never

At(r, pc) == fetch[r].pc = pc
Become(r, state) == fetch' = [fetch EXCEPT ![r] = state]

\* A fetch in flight holds the mutex.
Locked == \E r \in Request : ~At(r, "idle")

\* The Instant is set and the cool-down after it is not over.
CoolingDown(instant) == instant # Never /\ clock - instant < Cooldown

Fresh == clock < cache.validUntil

-----------------------------------------------------------------------------
(* The runtime.  A request reads the clock when it has the mutex, so how     *)
(* long it waited makes no difference: what follows is what it does then.    *)

\* verify: with a key, the signature and the claims of the token decide.
Token == [kid : Kid, good : BOOLEAN]

Verified(token) == IF token.good THEN "invoker" ELSE "unauthorized"

\* What key() decides under the mutex: an answer, or that a fetch is due.  A
\* stale cache backs off after any fetch, a fresh one after a forced fetch.
Answer(token) ==
    CASE Fresh /\ token.kid \in cache.keys                             -> Verified(token)
      [] Fresh /\ token.kid \notin cache.keys /\ CoolingDown(cache.forced) -> "unauthorized"
      [] ~Fresh /\ CoolingDown(cache.attempt)                          -> "unavailable"
      [] OTHER                                                         -> "fetch"

\* Mutant: the forced refresh leaves no trace.
MarkedOnce == [cache EXCEPT !.attempt = clock]

\* What key() notes before a fetch.
Marked == [cache EXCEPT !.attempt = clock, !.forced = IF Fresh THEN clock ELSE @]

StartFetch(r, token) ==
    /\ At(r, "idle") /\ ~Locked
    /\ Answer(token) = "fetch"
    /\ cache' = Marked
    /\ Become(r, [pc |-> "fetch", deadline |-> clock + Timeout])
    /\ starts' = <<starts[2], starts[3], clock>>
    /\ UNCHANGED <<clock, issuer, failed>>

\* The issuer answers with the keys it has published now.
Respond(r) ==
    /\ At(r, "fetch")
    /\ Become(r, [pc |-> "fetched", deadline |-> fetch[r].deadline, keys |-> Published])
    /\ UNCHANGED <<clock, issuer, cache, starts, failed>>

\* parse_keys: a set without usable keys, or with too many, is no answer.
Usable(keys) == keys # {} /\ Cardinality(keys) <= MaxKeys

\* Mutant: a fetch adds the keys it brings to those that are known.
RefreshedUnion(keys) ==
    [cache EXCEPT !.keys = cache.keys \cup keys, !.validUntil = clock + Ttl]

\* Mutant: the cool-down counts from the end of the fetch.
RefreshedLate(keys) ==
    [cache EXCEPT !.keys = keys, !.validUntil = clock + Ttl, !.forced = clock]

\* The time to live counts from the end of the fetch.
Refreshed(keys) == [cache EXCEPT !.keys = keys, !.validUntil = clock + Ttl]

\* The request that fetched is answered from what it brought.
Complete(r) ==
    /\ At(r, "fetched")
    /\ Usable(fetch[r].keys)
    /\ cache' = Refreshed(fetch[r].keys)
    /\ Become(r, Idle)
    /\ UNCHANGED <<clock, issuer, starts, failed>>

\* No answer in time, or none that can be used, or the request is dropped
\* with its fetch and the mutex: the cache stays as it is.
FetchFails(r) ==
    /\ ~At(r, "idle")
    /\ failed' = clock
    /\ Become(r, Idle)
    /\ UNCHANGED <<clock, issuer, cache, starts>>

-----------------------------------------------------------------------------
(* The issuer and the time. *)

Publish(k) ==
    /\ since[k] = Never
    /\ since' = [since EXCEPT ![k] = clock]
    /\ UNCHANGED <<clock, until, cache, fetch, starts, failed>>

Withdraw(k) ==
    /\ k \in Published
    /\ until' = [until EXCEPT ![k] = clock]
    /\ UNCHANGED <<clock, since, cache, fetch, starts, failed>>

\* Time passes, but not beyond the time limit of a fetch; a failure counts
\* for a cool-down.
Tick ==
    /\ clock < MaxTime
    /\ \A r \in Request : ~At(r, "idle") => clock < fetch[r].deadline
    /\ clock' = clock + 1
    /\ failed' = IF clock' - failed < Cooldown THEN failed ELSE Never
    /\ UNCHANGED <<issuer, cache, fetch, starts>>

Run(r) ==
    \/ \E token \in Token : StartFetch(r, token)
    \/ Respond(r) \/ Complete(r) \/ FetchFails(r)

Next ==
    \/ \E r \in Request : Run(r)
    \/ \E k \in Kid : Publish(k) \/ Withdraw(k)
    \/ Tick

Spec == Init /\ [][Next]_vars

-----------------------------------------------------------------------------
(* Properties. *)

\* The cache holds keys the issuer has published, at most MaxKeys, and one
\* that is valid holds some.
TypeOK ==
    /\ cache.keys \subseteq {k \in Kid : since[k] # Never}
    /\ Cardinality(cache.keys) <= MaxKeys
    /\ Fresh => cache.keys # {}
    /\ {cache.attempt, cache.forced} \subseteq Time \cup {Never}
    /\ cache.validUntil \in Int
    /\ Range(since) \cup Range(until) \cup Range(starts) \cup {failed} \subseteq Time \cup {Never}

\* However many requests miss, with whatever identifiers, of three fetches in a
\* row the issuer sees the last start a cool-down after the first: one starts
\* because the cache is stale and one is forced ("Further misses are throttled
\* for 30 seconds", src/a2a_auth.rs, key).
FetchesBounded == starts[1] # Never => starts[3] - starts[1] >= Cooldown

\* A caller is accepted on a key that was published, and withdrawn no longer
\* ago than a cached key lives and a fetch may last.
AcceptedWasPublished ==
    \A token \in Token : Answer(token) = "invoker" =>
        /\ since[token.kid] # Never
        /\ until[token.kid] # Never => clock - until[token.kid] < Ttl + Timeout

\* A good token is refused only in the cool-down after its key was published,
\* and nobody is turned away, unless a fetch has failed a moment ago: neither
\* the misses of others nor a stale cache shut genuine callers out.  Nor is the
\* request that fetched refused on what it brought, but for a key so new.
RefusalsHaveCause ==
    /\ ~Locked =>
        \A token \in Token :
            /\ Answer(token) = "unauthorized" /\ token.good /\ token.kid \in Published
                   => CoolingDown(since[token.kid]) \/ failed # Never
            /\ Answer(token) = "unavailable" => failed # Never
    /\ \A r \in Request : At(r, "fetched") =>
        \A kid \in Published \ fetch[r].keys : CoolingDown(since[kid])
=============================================================================
