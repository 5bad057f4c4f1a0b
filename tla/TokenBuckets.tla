---------------------------- MODULE TokenBuckets ----------------------------
(***************************************************************************)
(* The API rate limiter: app/rate_limiting.py, class ApiRateLimiter.       *)
(*                                                                         *)
(* Each key (a category and the digest of a client's identity) has a token *)
(* bucket.  Tokens are counted in units of 1/Window of a token, so that    *)
(* the refill of a second, Limit/Window tokens in the code's floats, is    *)
(* the whole number Limit: a request costs Window units and a full bucket  *)
(* holds Limit * Window of them.  The buckets are an OrderedDict whose     *)
(* order is that of last use; here it is the relation `before` on the keys *)
(* that are held.                                                          *)
(*                                                                         *)
(* since, granted, evictions and promise only observe: they count what was *)
(* granted, and how often the bound on memory threw a bucket away, since   *)
(* an arbitrary moment, and hold the earliest retry each client was told.  *)
(***************************************************************************)
EXTENDS SecondsClock, FiniteSets

CONSTANTS
    Keys,        \* the (category, identity digest) pairs
    Limit,       \* Limit[k]: the configured requests per window of k's category
    Window,      \* RATE_LIMIT_WINDOW_SECONDS
    MaxBuckets   \* RATE_LIMIT_MAX_BUCKETS

\* Limits, window and table size are positive (lines 68 to 75).
ASSUME BucketAssumption ==
    /\ Limit \in [Keys -> Nat \ {0}]
    /\ Window \in Nat \ {0}
    /\ MaxBuckets \in Nat \ {0}

VARIABLES
    held,      \* the keys of _buckets
    before,    \* <<j, k>>: j stands before k in the OrderedDict
    tokens,    \* _TokenBucket.tokens, in units of 1/Window
    updated,   \* _TokenBucket.updated_at
    since,     \* observer: the second counting started
    granted,   \* observer: requests allowed since then
    evictions, \* observer: buckets thrown away for space since then
    promise    \* observer: the second a denied client may try again, 0 for none

bucketVars == <<held, before, tokens, updated, since, granted, evictions, promise>>

Full(k) == Limit[k] * Window
Least(a, b) == IF a <= b THEN a ELSE b
Most(a, b) == IF a >= b THEN a ELSE b

\* Mutant: the wait is rounded down.
FloorDiv(n, d) == n \div d

\* math.ceil of n / d for n > 0.
CeilDiv(n, d) == (n + d - 1) \div d

Inactive(k) == updated[k] <= clock - Window

\* The leading buckets that have not been used for a whole window: the loop
\* stops at the first one that has.
Discarded == {k \in held : /\ Inactive(k)
                           /\ \A j \in held : <<j, k>> \in before => Inactive(j)}

\* Mutant: one bucket too many is let in.
DisplacedLate(room) ==
    IF Cardinality(room) <= MaxBuckets
    THEN {}
    ELSE {k \in room : \A j \in room : <<j, k>> \notin before}

\* The least recently used bucket, when there is no room for another.
Displaced(room) ==
    IF Cardinality(room) < MaxBuckets
    THEN {}
    ELSE {k \in room : \A j \in room : <<j, k>> \notin before}

\* What stays held when k asks: everything, if k has a bucket already.
Kept(k) ==
    IF k \in held THEN held
    ELSE LET room == held \ Discarded IN room \ Displaced(room)

\* Mutant: the whole limit is refilled every second.
LevelRefilledFast(k) ==
    IF k \in held
    THEN Least(Full(k), tokens[k] + Most(0, clock - updated[k]) * Full(k))
    ELSE Full(k)

\* The tokens k has when it asks: what it had and the refill since, at most a
\* full bucket; a new bucket is full.
Level(k) ==
    IF k \in held
    THEN Least(Full(k), tokens[k] + Most(0, clock - updated[k]) * Limit[k])
    ELSE Full(k)

\* retry_after of a denied request.
RetryAfter(k) == Most(1, CeilDiv(Window - Level(k), Limit[k]))

Allowed(k) == Level(k) >= Window

\* Move k behind all others of the keys that stay.
MovedToEnd(k, stay) ==
    {p \in before : p[1] \in stay \ {k} /\ p[2] \in stay \ {k}}
        \cup {<<j, k>> : j \in stay \ {k}}

\* ApiRateLimiter.check, under its lock.
Check(k) ==
    /\ held' = Kept(k) \cup {k}
    /\ before' = MovedToEnd(k, Kept(k))
    /\ tokens' = [j \in Keys |->
            IF j = k THEN (IF Allowed(k) THEN Level(k) - Window ELSE Level(k))
            ELSE IF j \in Kept(k) THEN tokens[j] ELSE 0]
    /\ updated' = [j \in Keys |->
            IF j = k THEN clock ELSE IF j \in Kept(k) THEN updated[j] ELSE 0]
    /\ granted' = [granted EXCEPT ![k] = IF Allowed(k) THEN @ + 1 ELSE @]
    /\ evictions' = [j \in Keys |->
            IF k \notin held /\ j \in Displaced(held \ Discarded)
            THEN evictions[j] + 1 ELSE evictions[j]]
    /\ promise' = [promise EXCEPT ![k] =
            IF Allowed(k) THEN 0 ELSE clock + RetryAfter(k)]
    /\ UNCHANGED since

\* The observer starts counting afresh: any moment may be the start of the
\* interval over which the bound is taken.
Observe ==
    /\ since' = clock
    /\ granted' = [k \in Keys |-> 0]
    /\ evictions' = [k \in Keys |-> 0]
    /\ UNCHANGED <<clock, held, before, tokens, updated, promise>>

BucketInit ==
    /\ clock = 0
    /\ held = {}
    /\ before = {}
    /\ tokens = [k \in Keys |-> 0]
    /\ updated = [k \in Keys |-> 0]
    /\ since = 0
    /\ granted = [k \in Keys |-> 0]
    /\ evictions = [k \in Keys |-> 0]
    /\ promise = [k \in Keys |-> 0]

\* The limiter by itself: any client may ask at any time.
BucketNext ==
    \/ Advance /\ UNCHANGED bucketVars
    \/ Observe
    \/ \E k \in Keys : Check(k) /\ UNCHANGED clock

BucketSpec == BucketInit /\ [][BucketNext]_<<clock, bucketVars>>

\* The types of the limiter's state: a bucket never holds more than a window's
\* worth of tokens, and no bucket is newer than the clock.
BucketTypeOK ==
    /\ clock \in Nat
    /\ held \subseteq Keys
    /\ before \subseteq held \X held
    /\ tokens \in [Keys -> Nat]
    /\ \A k \in Keys : tokens[k] <= Full(k)
    /\ updated \in [Keys -> Nat]
    /\ \A k \in Keys : updated[k] <= clock
    /\ since \in Nat
    /\ since <= clock
    /\ granted \in [Keys -> Nat]
    /\ evictions \in [Keys -> Nat]
    /\ promise \in [Keys -> Nat]

-----------------------------------------------------------------------------
\* Over any interval a client is granted at most its limit and the refill of
\* the interval, and one more full bucket for each time the table's bound
\* threw its bucket away: refill, cap, the discarding of inactive buckets and
\* the start of new full ones (lines 91 to 113 and 139) never add up to more.
RateBound ==
    \A k \in Keys :
        Window * granted[k] <= Limit[k] * (Window * (1 + evictions[k]) + clock - since)

\* A client that was denied and waits as long as Retry-After said is allowed
\* then, whatever other clients did to the table in between (lines 126 to 135).
RetryIsHonest ==
    \A k \in Keys : promise[k] # 0 /\ clock >= promise[k] => Allowed(k)
=============================================================================
