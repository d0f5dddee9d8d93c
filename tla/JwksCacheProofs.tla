--------------------------- MODULE JwksCacheProofs ---------------------------
(***************************************************************************)
(* Proofs about JwksCache.tla.  The cache notes when a fetch starts, before *)
(* it is sent, and the mutex lets nobody else look until it has ended: so   *)
(* a request without a fetch in flight finds a cache that the last fetch    *)
(* has replaced, or a failure after its start.  The time limit bounds how   *)
(* old the keys are that a fetch brings.                                    *)
(***************************************************************************)
EXTENDS JwksCache, FiniteSetTheorems, TLAPS

-----------------------------------------------------------------------------
(* The inductive invariant. *)

Instant == Time \cup {Never}

ClockInv ==
    /\ clock \in Time
    /\ since \in [Kid -> Instant] /\ until \in [Kid -> Instant]
    /\ \A k \in Kid : since[k] <= clock /\ until[k] <= clock

CacheInv ==
    /\ cache \in [keys : SUBSET Kid, validUntil : Int, attempt : Instant, forced : Instant]
    /\ cache.attempt <= clock /\ cache.forced <= cache.attempt
    /\ Cardinality(cache.keys) <= MaxKeys
    /\ cache.validUntil = Never \/ (cache.validUntil <= clock + Ttl /\ cache.keys # {})

\* What a fetch brings was published, and withdrawn after the fetch started.
FetchInv ==
    /\ DOMAIN fetch = Request
    /\ \A r, s \in Request : At(r, "idle") \/ At(s, "idle") \/ r = s
    /\ \A r \in Request :
           /\ fetch[r].pc \in {"idle", "fetch", "fetched"}
           /\ ~At(r, "idle") =>
                  /\ cache.attempt # Never /\ fetch[r].deadline = cache.attempt + Timeout
                  /\ clock <= fetch[r].deadline
           /\ At(r, "fetched") =>
                  /\ fetch[r].keys \subseteq Kid
                  /\ \A k \in fetch[r].keys :
                         /\ since[k] # Never
                         /\ until[k] # Never => until[k] >= cache.attempt
                  /\ \A k \in Kid :
                         since[k] # Never /\ since[k] < cache.attempt /\ until[k] = Never
                             => k \in fetch[r].keys

\* How long ago a key of the cache may have been withdrawn.
KeysInv ==
    \A k \in cache.keys :
        /\ since[k] # Never
        /\ until[k] # Never => until[k] >= cache.validUntil - Ttl - Timeout

\* Two fetches within a cool-down: the second one was forced.
StartsInv ==
    /\ \E a, b, c \in Instant : starts = <<a, b, c>>
    /\ starts[1] <= starts[2] /\ starts[2] <= starts[3] /\ starts[3] = cache.attempt
    /\ starts[2] # Never /\ starts[3] - starts[2] < Cooldown => cache.forced = starts[3]
    /\ FetchesBounded

\* No fetch is in flight, and the last one has not failed: the cache lives for
\* its time, and has the keys that were published before the forced fetch.
EndedInv ==
    /\ failed \in Instant /\ failed <= clock
    /\ ~Locked =>
           /\ CoolingDown(cache.attempt) /\ failed < cache.attempt
                  => cache.validUntil >= cache.attempt + Ttl
           /\ CoolingDown(cache.forced) /\ failed < cache.forced
                  => \A k \in Kid :
                         since[k] # Never /\ since[k] < cache.forced /\ until[k] = Never
                             => k \in cache.keys

IInv == ClockInv /\ CacheInv /\ FetchInv /\ KeysInv /\ StartsInv /\ EndedInv
-----------------------------------------------------------------------------
(* Steps. *)

LEMMA Numbers ==
    /\ MaxKeys \in Nat /\ Ttl \in Nat /\ Cooldown \in Nat /\ Timeout \in Nat /\ MaxTime \in Nat
    /\ Timeout < Cooldown /\ Cooldown < Ttl
    /\ Never = -1 /\ Time \subseteq Nat /\ Instant \subseteq Int
    /\ Never \in Instant /\ \A t \in Instant : t = Never \/ t >= 0
  BY JwksAssumption DEF Never, Time, Instant

\* What the steps need to know of a state.
LEMMA StateFacts ==
    ASSUME IInv
    PROVE  /\ clock \in Nat /\ clock \in Time /\ clock \in Instant /\ clock # Never
           /\ cache.keys \subseteq Kid /\ cache.validUntil \in Int
           /\ cache.attempt \in Int /\ cache.attempt \in Instant
           /\ cache.forced \in Int /\ cache.forced \in Instant
           /\ cache.attempt <= clock /\ cache.forced <= cache.attempt /\ cache.forced <= clock
           /\ failed \in Int /\ failed \in Instant /\ failed <= clock
           /\ \A k \in Kid : since[k] \in Int /\ until[k] \in Int
           /\ \A k \in Kid : since[k] <= clock /\ until[k] <= clock
           /\ \A k \in Kid : since[k] \in Instant /\ until[k] \in Instant
           /\ DOMAIN fetch = Request
<1> USE Numbers
<1>1. clock \in Nat /\ clock \in Instant /\ clock # Never /\ clock \in Time
  BY DEF IInv, ClockInv, Instant, Time
<1>2. \A t \in Instant : t \in Int
  OBVIOUS
<1>3. /\ cache.keys \subseteq Kid /\ cache.validUntil \in Int
      /\ cache.attempt \in Instant /\ cache.forced \in Instant
      /\ cache.attempt <= clock /\ cache.forced <= cache.attempt
  BY DEF IInv, CacheInv
<1>4. cache.attempt \in Int /\ cache.forced \in Int
  BY <1>2, <1>3
<1>5. cache.forced <= clock
  BY <1>1, <1>3, <1>4
<1>6. failed \in Instant /\ failed <= clock
  BY DEF IInv, EndedInv
<1>7. \A k \in Kid : since[k] \in Instant /\ until[k] \in Instant
  BY DEF IInv, ClockInv
<1>8. \A k \in Kid : since[k] <= clock /\ until[k] <= clock
  BY DEF IInv, ClockInv
<1>9. DOMAIN fetch = Request
  BY DEF IInv, FetchInv
<1> QED  BY <1>1, <1>2, <1>3, <1>4, <1>5, <1>6, <1>7, <1>8, <1>9

LEMMA Moves ==
    ASSUME FetchInv, NEW r \in Request, NEW state, Become(r, state)
    PROVE  /\ DOMAIN fetch' = Request /\ fetch'[r] = state
           /\ \A s \in Request : s # r => fetch'[s] = fetch[s]
  BY DEF FetchInv, Become

\* The request in flight is the only one.
LEMMA Alone ==
    ASSUME FetchInv, NEW r \in Request, ~At(r, "idle")
    PROVE  \A s \in Request : s # r => At(s, "idle")
  BY DEF FetchInv

LEMMA InitIInv == Init => IInv
<1> SUFFICES ASSUME Init PROVE IInv
  OBVIOUS
<1> USE Numbers DEF Init
<1>1. ClockInv
  <2>1. since \in [Kid -> Instant] /\ \A k \in Kid : since[k] <= 0
    <3>1. {Never, 0} \subseteq Instant
      BY DEF Instant, Time
    <3> QED  BY <3>1
  <2>2. until \in [Kid -> Instant] /\ \A k \in Kid : until[k] <= 0
    OBVIOUS
  <2>3. clock \in Time
    BY DEF Time
  <2> QED  BY <2>1, <2>2, <2>3 DEF ClockInv
<1>2. CacheInv
  <2>1. Cardinality({}) = 0
    BY FS_EmptySet
  <2> QED  BY <2>1 DEF CacheInv
<1>3. FetchInv
  BY DEF FetchInv, At, Idle
<1>4. KeysInv
  BY DEF KeysInv
<1>5. StartsInv
  BY DEF StartsInv, FetchesBounded
<1>6. EndedInv
  BY DEF EndedInv, CoolingDown
<1> QED  BY <1>1, <1>2, <1>3, <1>4, <1>5, <1>6 DEF IInv

\* What key() decides when a fetch is due.
LEMMA Due ==
    ASSUME NEW token \in Token, Answer(token) = "fetch"
    PROVE  \/ Fresh /\ ~CoolingDown(cache.forced)
           \/ ~Fresh /\ ~CoolingDown(cache.attempt)
  BY DEF Answer, Verified

LEMMA StartFetchKeeps ==
    ASSUME IInv, NEW r \in Request, NEW token \in Token, StartFetch(r, token)
    PROVE  IInv'
<1> USE Numbers
<1>1. /\ At(r, "idle") /\ ~Locked /\ cache' = Marked
      /\ Become(r, [pc |-> "fetch", deadline |-> clock + Timeout])
      /\ starts' = <<starts[2], starts[3], clock>>
      /\ clock' = clock /\ since' = since /\ until' = until /\ failed' = failed
  BY DEF StartFetch, issuer
<1>2. ClockInv'
  BY <1>1 DEF IInv, ClockInv
<1>3. clock \in Time /\ clock \in Instant /\ clock # Never /\ clock \in Int
  BY StateFacts
<1>4. /\ cache'.keys = cache.keys /\ cache'.validUntil = cache.validUntil
      /\ cache'.attempt = clock /\ cache'.forced = (IF Fresh THEN clock ELSE cache.forced)
      /\ cache' \in [keys : SUBSET Kid, validUntil : Int, attempt : Instant, forced : Instant]
  BY <1>1, <1>3 DEF IInv, CacheInv, Marked
<1>5. CacheInv'
  <2>1. cache.forced <= clock
    BY StateFacts
  <2> QED  BY <1>1, <1>3, <1>4, <2>1 DEF IInv, CacheInv
<1>6. DOMAIN fetch' = Request /\ fetch'[r] = [pc |-> "fetch", deadline |-> clock + Timeout]
      /\ \A s \in Request : s # r => fetch'[s] = fetch[s] /\ fetch[s].pc = "idle"
  BY <1>1, Moves DEF IInv, Locked, At
<1>7. FetchInv'
  <2>1. fetch'[r].pc = "fetch" /\ fetch'[r].deadline = clock + Timeout
    BY <1>6
  <2>2. \A s \in Request : s # r => fetch'[s].pc = "idle"
    BY <1>6
  <2>3. \A s, t \in Request : At(s, "idle")' \/ At(t, "idle")' \/ s = t
    BY <2>2 DEF At
  <2>4. clock' <= clock + Timeout
    BY <1>1, <1>3
  <2>5. \A s \in Request : ~At(s, "idle")' => s = r
    BY <2>2 DEF At
  <2> QED  BY <1>1, <1>3, <1>4, <1>6, <2>1, <2>2, <2>3, <2>4, <2>5 DEF FetchInv, At
<1>8. KeysInv'
  BY <1>1, <1>4 DEF IInv, KeysInv
<1>9. StartsInv'
  <2> DEFINE a == starts[1]  b == starts[2]  c == starts[3]
  <2>1. /\ a \in Instant /\ b \in Instant /\ c \in Instant /\ a <= b /\ b <= c /\ c = cache.attempt
        /\ b # Never /\ c - b < Cooldown => cache.forced = c
    BY DEF IInv, StartsInv
  <2>2. starts'[1] = b /\ starts'[2] = c /\ starts'[3] = clock
    BY <1>1
  <2>3. c <= clock /\ cache.forced <= c /\ cache.forced \in Instant
    BY <2>1, StateFacts
  <2>e. \A t \in Instant : t \in Int
    OBVIOUS
  <2>f. /\ starts' = <<b, c, clock>> /\ c = cache.attempt
        /\ b \in Int /\ c \in Int /\ cache.forced \in Int /\ clock \in Nat /\ Cooldown \in Int
    <3>1. b \in Int /\ c \in Int /\ cache.forced \in Int
      BY <2>1, <2>3, <2>e
    <3>2. clock \in Nat /\ Cooldown \in Int
      BY StateFacts
    <3> QED  BY <1>1, <2>1, <3>1, <3>2
  <2> HIDE DEF a, b, c
  <2>s. ASSUME b # Never => clock - b >= Cooldown,
               c # Never /\ clock - c < Cooldown => Fresh
        PROVE  StartsInv'
    <3>1. \E x, y, z \in Instant : starts' = <<x, y, z>>
      BY <1>3, <2>1, <2>f
    <3>2. b <= c /\ c <= clock /\ clock = cache'.attempt
      BY <2>1, <2>3, <1>4
    <3>3. c # Never /\ clock - c < Cooldown => cache'.forced = clock
      BY <2>s, <1>4
    <3> QED  BY <2>s, <2>2, <3>1, <3>2, <3>3 DEF StartsInv, FetchesBounded
  <2>4. CASE Fresh /\ ~CoolingDown(cache.forced)
    <3>1. cache.forced = Never \/ clock - cache.forced >= Cooldown
      BY <2>4, <2>f DEF CoolingDown
    <3>2. b # Never => clock - b >= Cooldown
      BY <2>1, <2>3, <2>f, <3>1
    <3> QED  BY <2>s, <2>4, <3>2
  <2>5. CASE ~Fresh /\ ~CoolingDown(cache.attempt)
    <3>1. c = Never \/ clock - c >= Cooldown
      BY <2>5, <2>f DEF CoolingDown
    <3>2. b # Never => clock - b >= Cooldown
      BY <2>1, <2>3, <2>f, <3>1
    <3>3. c # Never /\ clock - c < Cooldown => Fresh
      BY <2>f, <3>1
    <3> QED  BY <2>s, <3>2, <3>3
  <2>6. Answer(token) = "fetch"
    BY DEF StartFetch
  <2> QED  BY <2>4, <2>5, <2>6, Due
<1>10. EndedInv'
  <2>1. Locked'
    BY <1>6 DEF Locked, At
  <2> QED  BY <1>1, <2>1 DEF IInv, EndedInv
<1> QED  BY <1>2, <1>5, <1>7, <1>8, <1>9, <1>10 DEF IInv
LEMMA InFlight ==
    ASSUME IInv, NEW r \in Request, ~At(r, "idle")
    PROVE  /\ cache.attempt # Never /\ fetch[r].deadline = cache.attempt + Timeout
           /\ clock <= cache.attempt + Timeout
           /\ \A s \in Request : s # r => fetch[s].pc = "idle"
           /\ Locked
  BY DEF IInv, FetchInv, Locked, At

\* The answer of the issuer travels; the mutex is held.
LEMMA RespondKeeps ==
    ASSUME IInv, NEW r \in Request, Respond(r)
    PROVE  IInv'
<1> USE Numbers
<1>1. /\ At(r, "fetch") /\ UNCHANGED <<clock, since, until, cache, starts, failed>>
      /\ Become(r, [pc |-> "fetched", deadline |-> fetch[r].deadline, keys |-> Published])
  BY DEF Respond, issuer
<1>2. /\ cache.attempt # Never /\ fetch[r].deadline = cache.attempt + Timeout
      /\ clock <= cache.attempt + Timeout
      /\ \A s \in Request : s # r => fetch[s].pc = "idle"
  BY <1>1, InFlight DEF At
<1>3. /\ DOMAIN fetch' = Request
      /\ fetch'[r] = [pc |-> "fetched", deadline |-> fetch[r].deadline, keys |-> Published]
      /\ \A s \in Request : s # r => fetch'[s] = fetch[s]
  BY <1>1, Moves DEF IInv
<1>4. FetchInv'
  <2>1. /\ fetch'[r].pc = "fetched" /\ fetch'[r].deadline = fetch[r].deadline
        /\ fetch'[r].keys = Published
    BY <1>3
  <2>2. \A s \in Request : s # r => fetch'[s].pc = "idle"
    BY <1>2, <1>3
  <2>3. \A s, t \in Request : At(s, "idle")' \/ At(t, "idle")' \/ s = t
    BY <2>2 DEF At
  <2>4. \A s \in Request : ~At(s, "idle")' => s = r
    BY <2>2 DEF At
  <2>5. /\ Published \subseteq Kid
        /\ \A k \in Kid : k \in Published <=> since[k] # Never /\ until[k] = Never
    BY DEF Published
  <2>6. \A s \in Request : At(s, "fetched")' => s = r
    BY <2>2 DEF At
  <2>7. fetch'[r].keys \subseteq Kid
    BY <2>1, <2>5
  <2>8. \A k \in fetch'[r].keys : since[k] # Never /\ until[k] = Never
    BY <2>1, <2>5
  <2>9. \A k \in Kid : since[k] # Never /\ until[k] = Never => k \in fetch'[r].keys
    BY <2>1, <2>5
  <2> QED  BY <1>1, <1>2, <1>3, <2>1, <2>2, <2>3, <2>4, <2>6, <2>7, <2>8, <2>9 DEF FetchInv, At
<1>5. Locked'
  BY <1>3 DEF Locked, At
<1> QED  BY <1>1, <1>4, <1>5
         DEF IInv, ClockInv, CacheInv, KeysInv, StartsInv, FetchesBounded, EndedInv

\* A fetch is over: nobody has the mutex.
LEMMA Over ==
    ASSUME IInv, NEW r \in Request, ~At(r, "idle"), Become(r, Idle)
    PROVE  ~Locked' /\ FetchInv'
<1>1. DOMAIN fetch' = Request /\ \A s \in Request : fetch'[s].pc = "idle"
  <2>1. fetch'[r].pc = "idle"
    BY Moves DEF IInv, Idle
  <2> QED  BY <2>1, Moves, InFlight DEF IInv
<1> QED  BY <1>1 DEF FetchInv, Locked, At

LEMMA CompleteKeeps ==
    ASSUME IInv, NEW r \in Request, Complete(r)
    PROVE  IInv'
<1> USE Numbers
<1>1. /\ At(r, "fetched") /\ Usable(fetch[r].keys) /\ cache' = Refreshed(fetch[r].keys)
      /\ Become(r, Idle) /\ UNCHANGED <<clock, since, until, starts, failed>>
  BY DEF Complete, issuer
<1>2. cache.attempt # Never /\ clock <= cache.attempt + Timeout
  BY <1>1, InFlight DEF At
<1>3. ~Locked' /\ FetchInv'
  BY <1>1, Over DEF At
<1>4. /\ fetch[r].keys \subseteq Kid
      /\ \A k \in fetch[r].keys :
             since[k] # Never /\ (until[k] # Never => until[k] >= cache.attempt)
      /\ \A k \in Kid : since[k] # Never /\ since[k] < cache.attempt /\ until[k] = Never
                            => k \in fetch[r].keys
  BY <1>1 DEF IInv, FetchInv
<1>5. /\ clock \in Nat /\ cache.attempt \in Int /\ cache.forced \in Int
      /\ cache.attempt <= clock /\ cache.forced <= cache.attempt /\ failed \in Int
      /\ \A k \in Kid : since[k] \in Int /\ until[k] \in Int
  BY StateFacts
<1>6. /\ cache'.keys = fetch[r].keys /\ cache'.validUntil = clock + Ttl
      /\ cache'.attempt = cache.attempt /\ cache'.forced = cache.forced
      /\ cache' \in [keys : SUBSET Kid, validUntil : Int, attempt : Instant, forced : Instant]
  <2>1. clock + Ttl \in Int
    BY <1>5
  <2> QED  BY <1>1, <1>4, <2>1 DEF IInv, CacheInv, Refreshed
<1>7. CacheInv'
  BY <1>1, <1>5, <1>6 DEF CacheInv, Usable
<1>8. KeysInv'
  <2>1. cache'.validUntil - Ttl - Timeout <= cache.attempt
    BY <1>2, <1>5, <1>6
  <2>2. cache'.validUntil - Ttl - Timeout \in Int
    BY <1>5, <1>6
  <2>3. \A k \in fetch[r].keys : until[k] # Never => until[k] >= cache'.validUntil - Ttl - Timeout
    BY <1>4, <1>5, <2>1, <2>2
  <2>4. cache'.keys = fetch[r].keys /\ since' = since /\ until' = until
    BY <1>1, <1>6
  <2> QED  BY <1>4, <2>3, <2>4 DEF KeysInv
<1>9. EndedInv'
  <2>1. cache'.validUntil >= cache'.attempt + Ttl
    BY <1>5, <1>6
  <2>2. \A k \in Kid : since[k] # Never /\ since[k] < cache.forced /\ until[k] = Never
                           => k \in fetch[r].keys
    BY <1>4, <1>5
  <2> QED  BY <1>1, <1>6, <2>1, <2>2 DEF IInv, EndedInv
<1>10. ClockInv' /\ StartsInv'
  BY <1>1, <1>6 DEF IInv, ClockInv, StartsInv, FetchesBounded
<1> QED  BY <1>3, <1>7, <1>8, <1>9, <1>10 DEF IInv

LEMMA FetchFailsKeeps ==
    ASSUME IInv, NEW r \in Request, FetchFails(r)
    PROVE  IInv'
<1> USE Numbers
<1>1. /\ ~At(r, "idle") /\ Become(r, Idle) /\ failed' = clock
      /\ UNCHANGED <<clock, since, until, cache, starts>>
  BY DEF FetchFails, issuer
<1>2. ~Locked' /\ FetchInv'
  BY <1>1, Over
<1>3. EndedInv'
  <2>1. /\ clock \in Instant /\ clock \in Nat /\ cache.attempt \in Int /\ cache.forced \in Int
        /\ cache.attempt <= clock /\ cache.forced <= clock
    BY StateFacts
  <2>2. ~(clock < cache.attempt) /\ ~(clock < cache.forced)
    BY <2>1
  <2> QED  BY <1>1, <2>1, <2>2 DEF EndedInv
<1>4. ClockInv' /\ CacheInv' /\ KeysInv' /\ StartsInv'
  BY <1>1 DEF IInv, ClockInv, CacheInv, KeysInv, StartsInv, FetchesBounded
<1> QED  BY <1>2, <1>3, <1>4 DEF IInv
-----------------------------------------------------------------------------
(* The issuer and the time. *)

LEMMA PublishKeeps ==
    ASSUME IInv, NEW k \in Kid, Publish(k)
    PROVE  IInv'
<1> USE Numbers
<1>1. /\ since[k] = Never /\ since' = [since EXCEPT ![k] = clock]
      /\ UNCHANGED <<clock, until, cache, fetch, starts, failed>>
  BY DEF Publish
<1>2. /\ clock \in Nat /\ clock \in Instant /\ clock # Never /\ cache.attempt <= clock
      /\ cache.forced <= clock /\ cache.attempt \in Int /\ cache.forced \in Int
  BY StateFacts
<1>3. /\ since' \in [Kid -> Instant] /\ since'[k] = clock
      /\ \A l \in Kid : l # k => since'[l] = since[l]
  BY <1>1, <1>2 DEF IInv, ClockInv
<1>4. ClockInv'
  BY <1>1, <1>2, <1>3 DEF IInv, ClockInv
<1>5. ~(since'[k] < cache.attempt) /\ ~(since'[k] < cache.forced) /\ since'[k] # Never
  BY <1>2, <1>3
<1>6. FetchInv'
  <2>1. \A l \in Kid : since[l] # Never => since'[l] = since[l]
    BY <1>1, <1>3
  <2>2. \A l \in Kid : since'[l] # Never /\ since'[l] < cache.attempt => since'[l] = since[l]
    BY <1>3, <1>5
  <2> QED  BY <1>1, <2>1, <2>2 DEF IInv, FetchInv, At
<1>7. KeysInv'
  <2>1. cache.keys \subseteq Kid
    BY StateFacts
  <2>2. \A l \in Kid : since[l] # Never => since'[l] # Never
    BY <1>1, <1>3
  <2> QED  BY <1>1, <2>1, <2>2 DEF IInv, KeysInv
<1>8. EndedInv'
  <2>1. \A l \in Kid : since'[l] # Never /\ since'[l] < cache.forced => since'[l] = since[l]
    BY <1>3, <1>5
  <2> QED  BY <1>1, <2>1 DEF IInv, EndedInv, Locked, At, CoolingDown
<1>9. CacheInv' /\ StartsInv'
  BY <1>1 DEF IInv, CacheInv, StartsInv, FetchesBounded
<1> QED  BY <1>4, <1>6, <1>7, <1>8, <1>9 DEF IInv

LEMMA WithdrawKeeps ==
    ASSUME IInv, NEW k \in Kid, Withdraw(k)
    PROVE  IInv'
<1> USE Numbers
<1>1. /\ since[k] # Never /\ until[k] = Never /\ until' = [until EXCEPT ![k] = clock]
      /\ UNCHANGED <<clock, since, cache, fetch, starts, failed>>
  BY DEF Withdraw, Published
<1>2. /\ clock \in Nat /\ clock \in Instant /\ clock # Never /\ cache.attempt <= clock
      /\ cache.attempt \in Int /\ cache.validUntil \in Int /\ cache.keys \subseteq Kid
  BY StateFacts
<1>3. /\ until' \in [Kid -> Instant] /\ until'[k] = clock
      /\ \A l \in Kid : l # k => until'[l] = until[l]
  BY <1>1, <1>2 DEF IInv, ClockInv
<1>4. ClockInv'
  BY <1>1, <1>2, <1>3 DEF IInv, ClockInv
<1>5. \A l \in Kid : until'[l] = Never => until[l] = Never
  BY <1>2, <1>3
<1>6. FetchInv'
  <2>1. \A l \in Kid : (until[l] # Never => until[l] >= cache.attempt)
                           => (until'[l] # Never => until'[l] >= cache.attempt)
    BY <1>2, <1>3
  <2> QED  BY <1>1, <1>5, <2>1 DEF IInv, FetchInv, At
<1>7. KeysInv'
  <2>1. clock >= cache.validUntil - Ttl - Timeout
    BY <1>2 DEF IInv, CacheInv
  <2>2. \A l \in cache.keys : until'[l] # Never => until'[l] >= cache.validUntil - Ttl - Timeout
    BY <1>2, <1>3, <2>1 DEF IInv, KeysInv
  <2> QED  BY <1>1, <2>2 DEF IInv, KeysInv
<1>8. EndedInv'
  BY <1>1, <1>5 DEF IInv, EndedInv, Locked, At, CoolingDown
<1>9. CacheInv' /\ StartsInv'
  BY <1>1 DEF IInv, CacheInv, StartsInv, FetchesBounded
<1> QED  BY <1>4, <1>6, <1>7, <1>8, <1>9 DEF IInv

\* A cool-down ends, and with it what a failure in it excuses.
LEMMA TickKeeps ==
    ASSUME IInv, Tick
    PROVE  IInv'
<1> USE Numbers
<1>1. /\ clock < MaxTime /\ clock' = clock + 1
      /\ \A r \in Request : ~At(r, "idle") => clock < fetch[r].deadline
      /\ failed' = (IF clock' - failed < Cooldown THEN failed ELSE Never)
      /\ UNCHANGED <<since, until, cache, fetch, starts>>
  BY DEF Tick, issuer
<1>2. /\ clock \in Nat /\ failed \in Int /\ failed \in Instant /\ failed <= clock
      /\ cache.attempt \in Int /\ cache.forced \in Int /\ cache.attempt <= clock
      /\ cache.forced <= clock /\ cache.validUntil \in Int
      /\ \A k \in Kid : since[k] \in Int /\ until[k] \in Int
      /\ \A k \in Kid : since[k] <= clock /\ until[k] <= clock
  BY StateFacts
<1>3. ClockInv'
  <2>1. clock' \in Time
    BY <1>1, <1>2 DEF Time
  <2>2. \A k \in Kid : since[k] <= clock' /\ until[k] <= clock'
    BY <1>1, <1>2
  <2> QED  BY <1>1, <2>1, <2>2 DEF IInv, ClockInv
<1>4. CacheInv'
  <2>1. cache.attempt <= clock'
    BY <1>1, <1>2
  <2>2. cache.validUntil <= clock + Ttl => cache.validUntil <= clock' + Ttl
    BY <1>1, <1>2
  <2> QED  BY <1>1, <2>1, <2>2 DEF IInv, CacheInv
<1>5. FetchInv'
  <2>1. \A r \in Request : ~At(r, "idle") => clock' <= fetch[r].deadline
    <3> SUFFICES ASSUME NEW r \in Request, ~At(r, "idle") PROVE clock' <= fetch[r].deadline
      OBVIOUS
    <3>1. fetch[r].deadline = cache.attempt + Timeout /\ clock < fetch[r].deadline
      BY <1>1, InFlight
    <3> QED  BY <1>1, <1>2, <3>1
  <2> QED  BY <1>1, <2>1 DEF IInv, FetchInv, At
<1>6. EndedInv'
  <2>1. failed' \in Instant /\ failed' <= clock'
    BY <1>1, <1>2
  <2>2. \A t \in Int : t # Never /\ t <= clock /\ clock' - t < Cooldown /\ failed' < t
                           => clock - t < Cooldown /\ failed < t
    BY <1>1, <1>2
  <2>3. /\ CoolingDown(cache.attempt)' /\ failed' < cache.attempt
               => CoolingDown(cache.attempt) /\ failed < cache.attempt
        /\ CoolingDown(cache.forced)' /\ failed' < cache.forced
               => CoolingDown(cache.forced) /\ failed < cache.forced
    BY <1>1, <1>2, <2>2 DEF CoolingDown
  <2>4. Locked' = Locked
    BY <1>1 DEF Locked, At
  <2> QED  BY <1>1, <2>1, <2>3, <2>4 DEF IInv, EndedInv
<1>7. KeysInv' /\ StartsInv'
  BY <1>1 DEF IInv, KeysInv, StartsInv, FetchesBounded
<1> QED  BY <1>3, <1>4, <1>5, <1>6, <1>7 DEF IInv

LEMMA StutterKeeps ==
    ASSUME IInv, UNCHANGED vars
    PROVE  IInv'
  BY DEF vars, issuer, IInv, ClockInv, CacheInv, FetchInv, KeysInv, StartsInv, FetchesBounded,
         EndedInv, Locked, At, CoolingDown

LEMMA NextKeeps ==
    ASSUME IInv, [Next]_vars
    PROVE  IInv'
  BY StartFetchKeeps, RespondKeeps, CompleteKeeps, FetchFailsKeeps, PublishKeeps, WithdrawKeeps,
     TickKeeps, StutterKeeps DEF Next, Run

THEOREM Inductive == Spec => []IInv
<1>1. IInv /\ [Next]_vars => IInv'
  BY NextKeeps
<1> QED  BY InitIInv, <1>1, PTL DEF Spec

-----------------------------------------------------------------------------
(* What it means for the code. *)

\* The cache keeps at most MAX_JWKS_KEYS keys, each published at some time, and
\* one that is valid is not empty (A2aAuthConfig::key, src/a2a_auth.rs).
THEOREM TypeCorrect == Spec => []TypeOK
<1>1. ASSUME IInv PROVE TypeOK
  <2>1. cache.keys \subseteq {k \in Kid : since[k] # Never}
    BY <1>1, StateFacts DEF IInv, KeysInv
  <2>2. Cardinality(cache.keys) <= MaxKeys
    BY <1>1 DEF IInv, CacheInv
  <2>3. Fresh => cache.keys # {}
    BY <1>1, StateFacts, Numbers DEF IInv, CacheInv, Fresh
  <2>4. {cache.attempt, cache.forced} \subseteq Instant /\ cache.validUntil \in Int
    BY <1>1, StateFacts
  <2>5. Range(since) \subseteq Instant /\ Range(until) \subseteq Instant
    BY <1>1 DEF IInv, ClockInv, Range
  <2>6. Range(starts) \subseteq Instant
    BY <1>1 DEF IInv, StartsInv, Range
  <2>7. failed \in Instant
    BY <1>1, StateFacts
  <2> QED  BY <2>1, <2>2, <2>3, <2>4, <2>5, <2>6, <2>7 DEF TypeOK, Instant
<1> QED  BY Inductive, <1>1, PTL

\* Of any three fetches in a row the last starts a cool-down after the first,
\* however many requests miss: a stale cache backs off after every fetch, a
\* fresh one after a forced fetch, and both are noted before the fetch.
THEOREM IssuerIsNotFlooded == Spec => []FetchesBounded
<1>1. IInv => FetchesBounded
  BY DEF IInv, StartsInv
<1> QED  BY Inductive, <1>1, PTL

\* Nobody is let in on a key that was withdrawn longer ago than a cache lives
\* and a fetch may last.
THEOREM OldKeysGo == Spec => []AcceptedWasPublished
<1>1. ASSUME IInv PROVE AcceptedWasPublished
  <2> SUFFICES ASSUME NEW token \in Token, Answer(token) = "invoker"
               PROVE  /\ since[token.kid] # Never
                      /\ until[token.kid] # Never => clock - until[token.kid] < Ttl + Timeout
    BY DEF AcceptedWasPublished
  <2>1. Fresh /\ token.kid \in cache.keys /\ token.kid \in Kid
    BY DEF Answer, Verified, Token
  <2>2. /\ since[token.kid] # Never
        /\ until[token.kid] # Never => until[token.kid] >= cache.validUntil - Ttl - Timeout
    BY <1>1, <2>1 DEF IInv, KeysInv
  <2>3. clock \in Nat /\ cache.validUntil \in Int /\ until[token.kid] \in Int
    BY <1>1, <2>1, StateFacts
  <2> QED  BY <2>1, <2>2, <2>3, Numbers DEF Fresh
<1> QED  BY Inductive, <1>1, PTL

\* A genuine caller is turned away only right after its key was published or
\* after a fetch has failed, whatever others ask for, and on its own fetch only
\* for a key that was published while that was in flight (a2a_auth.rs, key).
THEOREM GenuineCallersGetIn == Spec => []RefusalsHaveCause
<1>1. ASSUME IInv, ~Locked, NEW token \in Token
      PROVE  /\ Answer(token) = "unauthorized" /\ token.good /\ token.kid \in Published
                     => CoolingDown(since[token.kid]) \/ failed # Never
             /\ Answer(token) = "unavailable" => failed # Never
  <2>1. /\ clock \in Nat /\ clock # Never /\ cache.attempt \in Int /\ cache.forced \in Int
        /\ cache.attempt \in Instant /\ cache.forced \in Instant /\ failed \in Int
        /\ \A k \in Kid : since[k] \in Int
    BY <1>1, StateFacts
  <2>2. \A t \in Instant : t # Never /\ t \in Int => Never < t
    BY Numbers
  <2>3. ASSUME Answer(token) = "unauthorized", token.good, token.kid \in Published, failed = Never
        PROVE  CoolingDown(since[token.kid])
    <3>1. Fresh /\ token.kid \notin cache.keys /\ CoolingDown(cache.forced)
      BY <2>3 DEF Answer, Verified
    <3>2. token.kid \in Kid /\ since[token.kid] # Never /\ until[token.kid] = Never
      BY <2>3 DEF Published
    <3>3. failed < cache.forced
      BY <2>1, <2>2, <2>3, <3>1 DEF CoolingDown
    <3>4. ~(since[token.kid] < cache.forced)
      BY <1>1, <3>1, <3>2, <3>3 DEF IInv, EndedInv
    <3> QED  BY <2>1, <3>1, <3>2, <3>4, Numbers DEF CoolingDown
  <2>4. ASSUME Answer(token) = "unavailable", failed = Never
        PROVE  FALSE
    <3>1. ~Fresh /\ CoolingDown(cache.attempt)
      BY <2>4 DEF Answer, Verified
    <3>2. failed < cache.attempt
      BY <2>1, <2>2, <2>4, <3>1 DEF CoolingDown
    <3>3. cache.validUntil >= cache.attempt + Ttl /\ cache.validUntil \in Int
      BY <1>1, <3>1, <3>2, StateFacts DEF IInv, EndedInv
    <3> QED  BY <2>1, <3>1, <3>3, Numbers DEF CoolingDown, Fresh
  <2> QED  BY <2>3, <2>4
<1>2. ASSUME IInv, NEW r \in Request, At(r, "fetched"), NEW kid \in Published \ fetch[r].keys
      PROVE  CoolingDown(since[kid])
  <2>1. kid \in Kid /\ since[kid] # Never /\ until[kid] = Never
    BY <1>2 DEF Published
  <2>2. /\ clock \in Nat /\ cache.attempt \in Int /\ since[kid] \in Int
    BY <1>2, <2>1, StateFacts
  <2>3. clock <= cache.attempt + Timeout
    BY <1>2 DEF IInv, FetchInv, At
  <2>4. ~(since[kid] < cache.attempt)
    BY <1>2, <2>1 DEF IInv, FetchInv
  <2> QED  BY <2>1, <2>2, <2>3, <2>4, Numbers DEF CoolingDown
<1>3. IInv => RefusalsHaveCause
  BY <1>1, <1>2 DEF RefusalsHaveCause
<1> QED  BY Inductive, <1>3, PTL
=============================================================================
