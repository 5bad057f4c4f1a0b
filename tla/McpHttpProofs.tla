--------------------------- MODULE McpHttpProofs ---------------------------
(***************************************************************************)
(* Proofs about the limiters and the calls of hosted MCP agents, for every *)
(* set of clients, calls, principals and browsers, every limit and every   *)
(* size of the limiters.                                                   *)
(*                                                                         *)
(* The token buckets.  Over any interval the limiter grants no more than   *)
(* RateBound says, a client that waits as long as it was told is allowed,  *)
(* and the table of buckets keeps to its bound.  A bucket is an account:   *)
(* what was granted and what is left in it never exceed a full bucket and  *)
(* the refill of the time it has been accounted for; while a client has no *)
(* bucket, it could have been refilled for the whole window it was idle,   *)
(* so the new full one it gets is paid for.                                *)
(*                                                                         *)
(* The calls.  Agents share the request limit of browsers, readers are     *)
(* released however a call ends, the sliding windows hold, and only        *)
(* current tokens reach the application.  The invariant HttpInv joins one  *)
(* part per shared structure.  A window's deque must record every call of  *)
(* its last sixty seconds in a place of its own, or the count that the     *)
(* limiter makes from the deque says nothing of the calls; a use is the    *)
(* present token's, or the token has been withdrawn.                       *)
(***************************************************************************)
EXTENDS McpHttp, TLAPS, FiniteSetTheorems, FunctionTheorems, SequenceTheorems

-----------------------------------------------------------------------------
(***************************************************************************)
(* The accounts of the clients                                             *)
(***************************************************************************)

\* The account of a client that has a bucket, up to its last update; nothing
\* is granted before the observer's start.
Account(k) ==
    \/ granted[k] = 0 /\ evictions[k] = 0
    \/ /\ updated[k] >= since
       /\ Window * granted[k] + tokens[k]
            <= Limit[k] * (Window * (1 + evictions[k]) + updated[k] - since)

\* The account of a client without a bucket.
ClosedAccount(k) ==
    Window * granted[k] <= Limit[k] * (Window * evictions[k] + clock - since)

Books == \A k \in Keys : /\ k \in held => Account(k)
                         /\ k \notin held => ClosedAccount(k)

\* What is promised to a denied client that still has its bucket: by then the
\* refill has made up a whole token.
Promised(k) ==
    promise[k] # 0 /\ k \in held =>
        /\ promise[k] >= updated[k]
        /\ tokens[k] + (promise[k] - updated[k]) * Limit[k] >= Window

IInv == BucketTypeOK /\ Books /\ (\A k \in Keys : Promised(k))

-----------------------------------------------------------------------------
\* Arithmetic the provers need told.

\* Multiplication is monotone.
LEMMA Grows ==
    ASSUME NEW a \in Int, NEW b \in Int, NEW m \in Nat, a <= b
    PROVE  m * a <= m * b
<1>1. m * (b - a) >= 0
  BY SMT
<1>2. m * (b - a) = m * b - m * a
  BY SMT
<1> QED
  BY <1>1, <1>2

\* A multiple is no less than what is multiplied.
LEMMA AtLeastOnce ==
    ASSUME NEW a \in Nat, NEW m \in Nat \ {0}
    PROVE  a <= m * a
<1>1. a * 1 <= a * m
  BY Grows
<1> QED
  BY <1>1

\* Rounding up does not fall short.
LEMMA CeilDivCovers ==
    ASSUME NEW n \in Int, NEW d \in Nat \ {0}
    PROVE  CeilDiv(n, d) \in Int /\ d * CeilDiv(n, d) >= n
  BY SMT DEF CeilDiv

-----------------------------------------------------------------------------
\* What a request finds.

\* A bucket holds no more than a burst, and what the refill has added.
LEMMA LevelInRange ==
    ASSUME BucketTypeOK, NEW k \in Keys
    PROVE  /\ Level(k) \in Nat
           /\ Level(k) <= Full(k)
           /\ Full(k) \in Nat
           /\ Full(k) >= Window
           /\ k \in held => Level(k) <= tokens[k] + (clock - updated[k]) * Limit[k]
           /\ k \notin held => Level(k) = Full(k)
<1>1. Limit[k] \in Nat \ {0} /\ Window \in Nat \ {0}
  BY BucketAssumption
<1>2. tokens[k] \in Nat /\ updated[k] \in Nat /\ clock \in Nat /\ updated[k] <= clock
  BY DEF BucketTypeOK
<1>3. clock - updated[k] \in Nat /\ Most(0, clock - updated[k]) = clock - updated[k]
  BY <1>2 DEF Most
<1>4. (clock - updated[k]) * Limit[k] \in Nat
  BY <1>1, <1>3
<1>5. Full(k) \in Nat /\ Full(k) >= Window
  BY <1>1, AtLeastOnce DEF Full
<1> QED
  BY <1>2, <1>3, <1>4, <1>5 DEF Level, Least

\* A client that is not held after another's request was closed already, or
\* its bucket was idle for a window, or was thrown away for space.
LEMMA Leaving ==
    ASSUME BucketTypeOK, NEW k \in Keys, NEW j \in held, j \notin Kept(k)
    PROVE  /\ k \notin held
           /\ \/ updated[j] <= clock - Window
              \/ j \in Displaced(held \ Discarded)
BY DEF Kept, Discarded, Inactive, BucketTypeOK

\* The books are empty at the start.
LEMMA InitInvariant == BucketInit => IInv
BY BucketAssumption DEF BucketInit, IInv, BucketTypeOK, Books, ClosedAccount, Promised, Full

-----------------------------------------------------------------------------
\* A request.

\* A check keeps the types.
LEMMA CheckTypes ==
    ASSUME BucketTypeOK, NEW k \in Keys, Check(k), UNCHANGED clock
    PROVE  BucketTypeOK'
<1>1. /\ Limit[k] \in Nat \ {0} /\ Window \in Nat \ {0}
      /\ Level(k) \in Nat /\ Level(k) <= Full(k) /\ Full(k) \in Nat
  BY BucketAssumption, LevelInRange
<1>2. \A j \in Keys : Full(j)' = Full(j) /\ Full(j) \in Nat
  BY LevelInRange DEF Full
<1>3. Allowed(k) => Level(k) - Window \in Nat /\ Level(k) - Window <= Full(k)
  BY <1>1 DEF Allowed
<1>4. Kept(k) \subseteq held
  BY DEF Kept
<1>5. held' \subseteq Keys /\ before' \subseteq held' \X held'
  BY <1>4 DEF Check, MovedToEnd, BucketTypeOK
<1>6. tokens' \in [Keys -> Nat] /\ \A j \in Keys : tokens'[j] <= Full(j)
  BY <1>1, <1>2, <1>3 DEF Check, BucketTypeOK
<1>7. updated' \in [Keys -> Nat] /\ \A j \in Keys : updated'[j] <= clock
  BY DEF Check, BucketTypeOK
<1>8. RetryAfter(k) \in Nat
  <2>1. CeilDiv(Window - Level(k), Limit[k]) \in Int
    BY <1>1, CeilDivCovers
  <2> QED
    BY <2>1 DEF RetryAfter, Most
<1>9. granted' \in [Keys -> Nat] /\ evictions' \in [Keys -> Nat] /\ promise' \in [Keys -> Nat]
  BY <1>8 DEF Check, BucketTypeOK
<1> QED
  BY <1>2, <1>5, <1>6, <1>7, <1>9 DEF Check, BucketTypeOK

\* The books of the client that asks: the refill up to now, or the new full
\* bucket, pays for the request.
LEMMA OwnBooks ==
    ASSUME BucketTypeOK, Books, NEW k \in Keys, Check(k), UNCHANGED clock
    PROVE  Account(k)'
<1> DEFINE L == Limit[k]
<1> DEFINE g == granted[k]
<1> DEFINE e == evictions[k]
<1>1. /\ L \in Nat \ {0} /\ Window \in Nat \ {0} /\ g \in Nat /\ e \in Nat
      /\ tokens[k] \in Nat /\ updated[k] \in Nat /\ clock \in Nat /\ since \in Nat
      /\ updated[k] <= clock /\ since <= clock
  BY BucketAssumption DEF BucketTypeOK
<1>2. /\ Level(k) \in Nat /\ Level(k) <= L * Window
      /\ k \in held => Level(k) <= tokens[k] + (clock - updated[k]) * L
      /\ k \notin held => Level(k) = L * Window
  BY LevelInRange DEF Full
<1>3. Window * g + Level(k) <= L * (Window * (1 + e) + clock - since)
  <2>0. L * (Window * (1 + e) + clock - since)
          = L * Window + L * (Window * e) + L * (clock - since)
    BY <1>1
  <2>1. CASE k \in held /\ g = 0 /\ e = 0
    <3>1. L * (clock - since) \in Nat
      BY <1>1
    <3> QED
      BY <1>1, <1>2, <2>0, <2>1, <3>1
  <2>2. CASE k \in held /\ ~(g = 0 /\ e = 0)
    <3>1. Window * g + tokens[k] <= L * (Window * (1 + e) + updated[k] - since)
      BY <2>2 DEF Books, Account
    <3>2. L * (Window * (1 + e) + updated[k] - since) + (clock - updated[k]) * L
            = L * (Window * (1 + e) + clock - since)
      BY <1>1
    <3>3. L * (Window * (1 + e) + updated[k] - since) \in Int /\ Window * g \in Int
      BY <1>1
    <3>4. (clock - updated[k]) * L \in Int
      BY <1>1
    <3> QED
      BY <1>1, <1>2, <2>2, <3>1, <3>2, <3>3, <3>4
  <2>3. CASE k \notin held
    <3>1. Window * g <= L * (Window * e + clock - since)
      BY <2>3 DEF Books, ClosedAccount
    <3>2. L * (Window * e + clock - since) + L * Window
            = L * (Window * (1 + e) + clock - since)
      BY <1>1
    <3>3. L * (Window * e + clock - since) \in Int /\ Window * g \in Int /\ L * Window \in Int
      BY <1>1
    <3> QED
      BY <1>1, <1>2, <2>3, <3>1, <3>2, <3>3
  <2> QED
    BY <2>1, <2>2, <2>3
<1>4. evictions'[k] = e
  <2>1. k \in held => k \in Kept(k)
    BY DEF Kept
  <2>2. k \in Displaced(held \ Discarded) => k \in held
    BY DEF Displaced
  <2> QED
    BY <2>2 DEF Check, BucketTypeOK
<1>5. Window * granted'[k] + tokens'[k] = Window * g + Level(k)
  <2>1. CASE Allowed(k)
    <3>1. granted'[k] = g + 1 /\ tokens'[k] = Level(k) - Window
      BY <2>1 DEF Check, BucketTypeOK
    <3>2. Window * (g + 1) = Window * g + Window
      BY <1>1
    <3>3. Window * g \in Int
      BY <1>1
    <3> QED
      BY <1>1, <1>2, <3>1, <3>2, <3>3
  <2>2. CASE ~Allowed(k)
    BY <2>2 DEF Check, BucketTypeOK
  <2> QED
    BY <2>1, <2>2
<1>6. updated'[k] = clock /\ since' = since /\ since <= clock
  BY <1>1 DEF Check
<1> QED
  BY <1>3, <1>4, <1>5, <1>6 DEF Account

\* The books of the others: a bucket that is dropped either was idle for the
\* window that could have refilled it, or its eviction is counted.
LEMMA OtherBooks ==
    ASSUME BucketTypeOK, Books, NEW k \in Keys, Check(k), UNCHANGED clock,
           NEW j \in Keys, j # k
    PROVE  /\ j \in held' => Account(j)'
           /\ j \notin held' => ClosedAccount(j)'
<1>0. Kept(k) \subseteq held /\ (j \in held' <=> j \in Kept(k))
  BY DEF Kept, Check
<1>1. granted'[j] = granted[j] /\ since' = since /\ clock' = clock
  BY DEF Check, BucketTypeOK
<1>2. CASE j \in Kept(k)
  <2>1. j \notin Displaced(held \ Discarded) \/ k \in held
    BY <1>2 DEF Kept
  <2>2. /\ tokens'[j] = tokens[j] /\ updated'[j] = updated[j]
        /\ evictions'[j] = evictions[j]
    BY <1>2, <2>1 DEF Check, BucketTypeOK
  <2>3. Account(j)
    BY <1>0, <1>2 DEF Books
  <2> QED
    BY <1>0, <1>1, <1>2, <2>2, <2>3 DEF Account
<1>3. CASE j \notin Kept(k) /\ j \notin held
  <2>1. evictions'[j] = evictions[j]
    BY <1>3 DEF Check, Displaced, BucketTypeOK
  <2>2. ClosedAccount(j)
    BY <1>3 DEF Books
  <2> QED
    BY <1>0, <1>1, <1>3, <2>1, <2>2 DEF ClosedAccount
<1>4. CASE j \notin Kept(k) /\ j \in held
  <2> DEFINE L == Limit[j]
  <2> DEFINE g == granted[j]
  <2> DEFINE e == evictions[j]
  <2>1. /\ L \in Nat \ {0} /\ Window \in Nat \ {0} /\ g \in Nat /\ e \in Nat
        /\ tokens[j] \in Nat /\ updated[j] \in Nat /\ clock \in Nat /\ since \in Nat
        /\ updated[j] <= clock /\ since <= clock
    BY BucketAssumption DEF BucketTypeOK
  <2>2. evictions'[j] \in Nat /\ e <= evictions'[j]
    BY <2>1 DEF Check, BucketTypeOK
  <2>3. Window * g <= L * (Window * evictions'[j] + clock - since)
    <3>1. CASE g = 0 /\ e = 0
      <4>1. Window * evictions'[j] \in Nat
        BY <2>1, <2>2
      <4>2. Window * evictions'[j] + clock - since \in Nat
        BY <2>1, <4>1
      <4>3. L * (Window * evictions'[j] + clock - since) \in Nat
        BY <2>1, <4>2
      <4> QED
        BY <2>1, <3>1, <4>3
    <3>2. CASE ~(g = 0 /\ e = 0)
      <4>1. Window * g + tokens[j] <= L * (Window * (1 + e) + updated[j] - since)
        BY <1>4, <3>2 DEF Books, Account
      <4>2. \/ updated[j] <= clock - Window
            \/ evictions'[j] = e + 1
        BY <1>4, Leaving DEF Check, BucketTypeOK
      <4>3. Window * (1 + e) + updated[j] - since
              <= Window * evictions'[j] + clock - since
        <5>1. Window * (1 + e) = Window + Window * e /\ Window * e \in Nat
          BY <2>1
        <5>2. Window * e <= Window * evictions'[j] /\ Window * evictions'[j] \in Nat
          BY <2>1, <2>2, Grows
        <5> QED
          BY <2>1, <4>2, <5>1, <5>2
      <4>4. Window * (1 + e) + updated[j] - since \in Int
            /\ Window * evictions'[j] + clock - since \in Int
        BY <2>1, <2>2
      <4>5. L * (Window * (1 + e) + updated[j] - since)
              <= L * (Window * evictions'[j] + clock - since)
        BY <2>1, <4>3, <4>4, Grows
      <4>6. /\ L * (Window * (1 + e) + updated[j] - since) \in Int
            /\ L * (Window * evictions'[j] + clock - since) \in Int
            /\ Window * g \in Int
        BY <2>1, <4>4
      <4> QED
        BY <2>1, <4>1, <4>5, <4>6
    <3> QED
      BY <3>1, <3>2
  <2> QED
    BY <1>0, <1>1, <1>4, <2>3 DEF ClosedAccount
<1> QED
  BY <1>2, <1>3, <1>4

\* A denied client's wait is long enough, and nobody else's request touches
\* its bucket while it has one.
LEMMA CheckPromises ==
    ASSUME BucketTypeOK, \A j \in Keys : Promised(j), NEW k \in Keys, Check(k),
           UNCHANGED clock, NEW j \in Keys
    PROVE  Promised(j)'
<1>1. CASE j # k
  <2>1. promise'[j] = promise[j]
    BY <1>1 DEF Check, BucketTypeOK
  <2>2. j \in held' => j \in Kept(k) /\ j \in held
    BY <1>1 DEF Check, Kept
  <2>3. j \in Kept(k) => tokens'[j] = tokens[j] /\ updated'[j] = updated[j]
    BY <1>1 DEF Check, BucketTypeOK
  <2> QED
    BY <2>1, <2>2, <2>3 DEF Promised
<1>2. CASE j = k /\ Allowed(k)
  <2>1. promise'[k] = 0
    BY <1>2 DEF Check, BucketTypeOK
  <2> QED
    BY <1>2, <2>1 DEF Promised
<1>3. CASE j = k /\ ~Allowed(k)
  <2> DEFINE L == Limit[k]
  <2> DEFINE R == RetryAfter(k)
  <2> DEFINE C == CeilDiv(Window - Level(k), L)
  <2>1. L \in Nat \ {0} /\ Window \in Nat \ {0} /\ Level(k) \in Nat /\ clock \in Nat
    BY BucketAssumption, LevelInRange DEF BucketTypeOK
  <2>2. C \in Int /\ L * C >= Window - Level(k)
    BY <2>1, CeilDivCovers
  <2>3. R \in Nat /\ C <= R
    BY <2>2 DEF RetryAfter, Most
  <2>4. L * C <= L * R /\ L * C \in Int /\ L * R \in Int
    BY <2>1, <2>2, <2>3, Grows
  <2>5. promise'[k] = clock + R /\ updated'[k] = clock /\ tokens'[k] = Level(k)
    BY <1>3 DEF Check, BucketTypeOK
  <2>6. (promise'[k] - updated'[k]) * L = L * R
    BY <2>1, <2>3, <2>5
  <2>7. tokens'[k] + (promise'[k] - updated'[k]) * L >= Window
    BY <2>1, <2>2, <2>4, <2>5, <2>6
  <2> QED
    BY <1>3, <2>1, <2>3, <2>5, <2>7 DEF Promised
<1> QED
  BY <1>1, <1>2, <1>3

-----------------------------------------------------------------------------
\* The other steps.

\* Every step keeps the books and the promises.
LEMMA StepInvariant == IInv /\ [BucketNext]_<<clock, bucketVars>> => IInv'
<1> SUFFICES ASSUME IInv, [BucketNext]_<<clock, bucketVars>>
             PROVE  IInv'
  OBVIOUS
<1>0. BucketTypeOK /\ Books /\ \A k \in Keys : Promised(k)
  BY DEF IInv
<1>1. CASE UNCHANGED <<clock, bucketVars>>
  BY <1>0, <1>1 DEF bucketVars, IInv, BucketTypeOK, Books, Account, ClosedAccount, Promised, Full
<1>2. CASE Advance /\ UNCHANGED bucketVars
  <2>1. clock \in Nat /\ clock' = clock + 1
    BY <1>0, <1>2 DEF Advance, BucketTypeOK
  <2>2. BucketTypeOK'
    BY <1>0, <1>2, <2>1 DEF bucketVars, BucketTypeOK, Full
  <2>3. ASSUME NEW k \in Keys, ClosedAccount(k)
        PROVE  ClosedAccount(k)'
    <3>1. /\ Limit[k] \in Nat /\ Window \in Nat /\ granted[k] \in Nat
          /\ evictions[k] \in Nat /\ since \in Nat
      BY <1>0, BucketAssumption DEF BucketTypeOK
    <3>2. Window * evictions[k] \in Int /\ Window * granted[k] \in Int
      BY <3>1
    <3>3. Limit[k] * (Window * evictions[k] + clock - since)
            <= Limit[k] * (Window * evictions[k] + (clock + 1) - since)
      BY <2>1, <3>1, <3>2, Grows
    <3>4. /\ Limit[k] * (Window * evictions[k] + clock - since) \in Int
          /\ Limit[k] * (Window * evictions[k] + (clock + 1) - since) \in Int
      BY <2>1, <3>1, <3>2
    <3>5. Window * granted[k] <= Limit[k] * (Window * evictions[k] + (clock + 1) - since)
      BY <2>3, <3>2, <3>3, <3>4 DEF ClosedAccount
    <3>6. /\ granted'[k] = granted[k] /\ evictions'[k] = evictions[k]
          /\ since' = since /\ clock' = clock + 1
      BY <1>2, <2>1 DEF bucketVars
    <3> QED
      BY <3>5, <3>6, Zenon DEF ClosedAccount
  <2>4. Books'
    BY <1>0, <1>2, <2>3 DEF bucketVars, Books, Account
  <2>5. (\A k \in Keys : Promised(k))'
    BY <1>0, <1>2 DEF bucketVars, Promised
  <2> QED
    BY <2>2, <2>4, <2>5 DEF IInv
<1>3. CASE Observe
  <2>1. BucketTypeOK'
    BY <1>0, <1>3 DEF Observe, BucketTypeOK, Full
  <2>2. ASSUME NEW k \in Keys
        PROVE  Account(k)' /\ ClosedAccount(k)'
    <3>1. granted'[k] = 0 /\ evictions'[k] = 0 /\ since' = clock /\ clock' = clock
      BY <1>3 DEF Observe
    <3>2. clock \in Nat /\ Window \in Nat /\ Limit[k] \in Nat
      BY <1>0, BucketAssumption DEF BucketTypeOK
    <3>3. Window * 0 = 0 /\ Limit[k] * (Window * 0 + clock - clock) = 0
      <4>1. Window * 0 = 0 /\ Window * 0 + clock - clock = 0 /\ Limit[k] * 0 = 0
        BY <3>2
      <4> QED
        BY <4>1
    <3> QED
      BY <3>1, <3>3 DEF Account, ClosedAccount
  <2>3. (\A k \in Keys : Promised(k))'
    BY <1>0, <1>3 DEF Observe, Promised
  <2> QED
    BY <2>1, <2>2, <2>3 DEF IInv, Books
<1>4. CASE \E k \in Keys : Check(k) /\ UNCHANGED clock
  <2>1. PICK k \in Keys : Check(k) /\ UNCHANGED clock
    BY <1>4
  <2>2. BucketTypeOK'
    BY <1>0, <2>1, CheckTypes
  <2>3. k \in held'
    BY <2>1 DEF Check
  <2>4. Books'
    BY <1>0, <2>1, <2>3, OwnBooks, OtherBooks DEF Books
  <2>5. (\A j \in Keys : Promised(j))'
    BY <1>0, <2>1, CheckPromises
  <2> QED
    BY <2>2, <2>4, <2>5 DEF IInv
<1> QED
  BY <1>1, <1>2, <1>3, <1>4 DEF BucketNext

-----------------------------------------------------------------------------
\* The order of last use on the keys held, and the size of the table.
Ordered ==
    /\ before \subseteq held \X held
    /\ \A j \in held : <<j, j>> \notin before
    /\ \A i, j \in held : i # j => <<i, j>> \in before \/ <<j, i>> \in before
    /\ \A i, j, k \in held : <<i, j>> \in before /\ <<j, k>> \in before => <<i, k>> \in before

TableInv == IsFiniteSet(held) /\ Cardinality(held) <= MaxBuckets /\ Ordered

\* Among some of the keys one is the least recently used.
LEMMA LeastRecentExists ==
    ASSUME Ordered, NEW room \in SUBSET held, IsFiniteSet(room), room # {}
    PROVE  \E k \in room : \A j \in room : <<j, k>> \notin before
<1> DEFINE First(T) == {k \in T : \A j \in T : <<j, k>> \notin before}
<1> DEFINE Bad == {T \in FiniteSubsetsOf(held) : T # {} /\ First(T) = {}}
<1> SUFFICES ASSUME Bad # {} PROVE FALSE
  BY DEF FiniteSubsetsOf
<1>1. PICK T \in Bad : \A U \in Bad : <<U, T>> \notin StrictSubsetOrdering(held)
  <2>1. IsWellFoundedOn(StrictSubsetOrdering(held), FiniteSubsetsOf(held))
    BY FS_StrictSubsetOrderingWellFounded
  <2> HIDE DEF First
  <2> QED
    BY <2>1, WFMin
<1>2. T \subseteq held /\ IsFiniteSet(T) /\ T # {} /\ First(T) = {}
  BY DEF FiniteSubsetsOf
<1>3. PICK k \in T : TRUE
  BY <1>2
<1> DEFINE U == {j \in T : <<j, k>> \in before}
<1>4. U \subseteq T /\ k \notin U /\ U # {}
  BY <1>2 DEF Ordered
<1>5. IsFiniteSet(U) /\ U \in FiniteSubsetsOf(held)
  BY <1>2, <1>4, FS_Subset DEF FiniteSubsetsOf
<1>6. First(U) # {}
  <2>1. <<U, T>> \in StrictSubsetOrdering(held)
    BY <1>2, <1>4 DEF StrictSubsetOrdering
  <2> QED
    BY <1>1, <1>4, <1>5, <2>1
<1>7. PICK l \in U : \A j \in U : <<j, l>> \notin before
  BY <1>6
<1>8. ASSUME NEW j \in T, <<j, l>> \in before PROVE FALSE
  <2>1. <<j, k>> \in before
    BY <1>2, <1>7, <1>8 DEF Ordered
  <2> QED
    BY <1>7, <1>8, <2>1
<1> QED
  BY <1>2, <1>4, <1>7, <1>8

\* What stays leaves room for the key that asks.
LEMMA KeptLeavesRoom ==
    ASSUME TableInv, NEW k \in Keys
    PROVE  /\ Kept(k) \subseteq held /\ IsFiniteSet(Kept(k))
           /\ Cardinality(Kept(k) \cup {k}) <= MaxBuckets
<1>1. MaxBuckets \in Nat \ {0} /\ IsFiniteSet(held) /\ Cardinality(held) \in Nat
      /\ Cardinality(held) <= MaxBuckets
  BY BucketAssumption, FS_CardinalityType DEF TableInv
<1>2. CASE k \in held
  <2>1. Kept(k) = held /\ held \cup {k} = held
    BY <1>2 DEF Kept
  <2> QED
    BY <1>1, <2>1
<1>3. CASE k \notin held
  <2> DEFINE room == held \ Discarded
  <2>1. room \subseteq held /\ IsFiniteSet(room) /\ Cardinality(room) <= Cardinality(held)
        /\ Cardinality(room) \in Nat
    BY <1>1, FS_Subset, FS_CardinalityType
  <2>2. Kept(k) = room \ Displaced(room)
    BY <1>3 DEF Kept
  <2>3. Kept(k) \subseteq room /\ IsFiniteSet(Kept(k)) /\ Cardinality(Kept(k)) \in Nat
        /\ Cardinality(Kept(k)) <= Cardinality(room)
    BY <2>1, <2>2, FS_Subset, FS_CardinalityType
  <2> HIDE DEF room
  <2>4. Cardinality(Kept(k)) < MaxBuckets
    <3>1. CASE Cardinality(room) < MaxBuckets
      BY <1>1, <2>1, <2>3, <3>1
    <3>2. CASE ~(Cardinality(room) < MaxBuckets)
      <4>1. room # {}
        BY <1>1, <2>1, <3>2, FS_EmptySet
      <4>2. PICK l \in room : \A j \in room : <<j, l>> \notin before
        BY <2>1, <4>1, LeastRecentExists DEF TableInv
      <4>3. l \in Displaced(room)
        BY <3>2, <4>2 DEF Displaced
      <4>4. Kept(k) \subseteq room \ {l}
        BY <2>2, <4>3
      <4>5. IsFiniteSet(room \ {l}) /\ Cardinality(room \ {l}) = Cardinality(room) - 1
        BY <2>1, <4>2, FS_RemoveElement
      <4>6. Cardinality(Kept(k)) <= Cardinality(room) - 1
        BY <4>4, <4>5, FS_Subset
      <4> QED
        BY <1>1, <2>1, <2>3, <4>6
    <3> QED
      BY <3>1, <3>2
  <2>5. Cardinality(Kept(k) \cup {k}) <= Cardinality(Kept(k)) + 1
        /\ Cardinality(Kept(k) \cup {k}) \in Nat
    <3>1. IsFiniteSet(Kept(k) \cup {k})
          /\ Cardinality(Kept(k) \cup {k})
               = IF k \in Kept(k) THEN Cardinality(Kept(k)) ELSE Cardinality(Kept(k)) + 1
      BY <2>3, FS_AddElement
    <3> QED
      BY <2>3, <3>1
  <2> QED
    BY <1>1, <2>1, <2>3, <2>4, <2>5
<1> QED
  BY <1>2, <1>3

\* The bucket that is checked finds room and becomes the most recent one.
LEMMA CheckKeepsTable ==
    ASSUME TableInv, NEW k \in Keys, Check(k)
    PROVE  TableInv'
<1>1. Kept(k) \subseteq held /\ IsFiniteSet(Kept(k) \cup {k})
      /\ Cardinality(Kept(k) \cup {k}) <= MaxBuckets
  BY KeptLeavesRoom, FS_AddElement
<1>2. held' = Kept(k) \cup {k} /\ before' = MovedToEnd(k, Kept(k))
  BY DEF Check
<1>3. Ordered'
  BY <1>1, <1>2 DEF TableInv, Ordered, MovedToEnd
<1> QED
  BY <1>1, <1>2, <1>3 DEF TableInv

\* The table is empty at the start.
LEMMA InitialTable == BucketInit => TableInv
BY BucketAssumption, FS_EmptySet DEF BucketInit, TableInv, Ordered

\* Every step keeps the table.
LEMMA StepKeepsTable == TableInv /\ [BucketNext]_<<clock, bucketVars>> => TableInv'
BY CheckKeepsTable DEF BucketNext, Observe, bucketVars, TableInv, Ordered

-----------------------------------------------------------------------------
\* What the invariant says of the requests granted and promised.

\* Books that balance bound what was granted.
LEMMA BooksBound == IInv => RateBound
<1> SUFFICES ASSUME IInv, NEW k \in Keys
             PROVE  Window * granted[k]
                      <= Limit[k] * (Window * (1 + evictions[k]) + clock - since)
  BY DEF RateBound
<1> DEFINE L == Limit[k]
<1> DEFINE g == granted[k]
<1> DEFINE e == evictions[k]
<1>1. /\ L \in Nat \ {0} /\ Window \in Nat \ {0} /\ g \in Nat /\ e \in Nat
      /\ tokens[k] \in Nat /\ updated[k] \in Nat /\ clock \in Nat /\ since \in Nat
      /\ updated[k] <= clock /\ since <= clock
  BY BucketAssumption DEF IInv, BucketTypeOK
<1>2. /\ Window * g \in Nat /\ Window * e \in Nat /\ Window * (1 + e) \in Nat
      /\ Window * (1 + e) = Window + Window * e
  BY <1>1
<1>3. CASE k \in held /\ g = 0 /\ e = 0
  <2>1. Window * (1 + e) + clock - since \in Nat
    BY <1>1, <1>2
  <2>2. L * (Window * (1 + e) + clock - since) \in Nat
    BY <1>1, <2>1
  <2>3. Window * g = 0
    BY <1>1, <1>3
  <2> QED
    BY <2>2, <2>3
<1>4. CASE k \in held /\ ~(g = 0 /\ e = 0)
  <2>1. Window * g + tokens[k] <= L * (Window * (1 + e) + updated[k] - since)
    BY <1>4 DEF IInv, Books, Account
  <2>2. L * (Window * (1 + e) + updated[k] - since)
          <= L * (Window * (1 + e) + clock - since)
    BY <1>1, <1>2, Grows
  <2>3. /\ L * (Window * (1 + e) + updated[k] - since) \in Int
        /\ L * (Window * (1 + e) + clock - since) \in Int
    BY <1>1, <1>2
  <2> QED
    BY <1>1, <1>2, <2>1, <2>2, <2>3
<1>5. CASE k \notin held
  <2>1. Window * g <= L * (Window * e + clock - since)
    BY <1>5 DEF IInv, Books, ClosedAccount
  <2>2. L * (Window * e + clock - since) <= L * (Window * (1 + e) + clock - since)
    BY <1>1, <1>2, Grows
  <2>3. /\ L * (Window * e + clock - since) \in Int
        /\ L * (Window * (1 + e) + clock - since) \in Int
    BY <1>1, <1>2
  <2> QED
    BY <1>2, <2>1, <2>2, <2>3
<1> QED
  BY <1>3, <1>4, <1>5

\* At the promised second the bucket holds a token, so the client is let in.
LEMMA PromiseKept == IInv => RetryIsHonest
<1> SUFFICES ASSUME IInv, NEW k \in Keys, promise[k] # 0, clock >= promise[k]
             PROVE  Allowed(k)
  BY DEF RetryIsHonest
<1>1. /\ Limit[k] \in Nat \ {0} /\ Window \in Nat \ {0}
      /\ tokens[k] \in Nat /\ updated[k] \in Nat /\ clock \in Nat /\ promise[k] \in Nat
      /\ updated[k] <= clock
  BY BucketAssumption DEF IInv, BucketTypeOK
<1>2. Full(k) \in Nat /\ Full(k) >= Window
  BY LevelInRange DEF IInv
<1>3. CASE k \notin held
  BY <1>2, <1>3 DEF Allowed, Level
<1>4. CASE k \in held
  <2>1. tokens[k] + (promise[k] - updated[k]) * Limit[k] >= Window
    BY <1>4 DEF IInv, Promised
  <2>2. Limit[k] * (promise[k] - updated[k]) <= Limit[k] * (clock - updated[k])
    BY <1>1, Grows
  <2>3. /\ (promise[k] - updated[k]) * Limit[k] = Limit[k] * (promise[k] - updated[k])
        /\ (clock - updated[k]) * Limit[k] = Limit[k] * (clock - updated[k])
        /\ (promise[k] - updated[k]) * Limit[k] \in Int
        /\ (clock - updated[k]) * Limit[k] \in Int
    BY <1>1
  <2>4. tokens[k] + (clock - updated[k]) * Limit[k] >= Window
    BY <1>1, <2>1, <2>2, <2>3
  <2>5. Most(0, clock - updated[k]) = clock - updated[k]
    BY <1>1 DEF Most
  <2> QED
    BY <1>1, <1>2, <1>4, <2>3, <2>4, <2>5 DEF Allowed, Level, Least
<1> QED
  BY <1>3, <1>4

-----------------------------------------------------------------------------
\* The invariant of the limiter: types, books and promises.
THEOREM LimiterInvariant == BucketSpec => []IInv
BY InitInvariant, StepInvariant, PTL DEF BucketSpec

\* No bucket is newer than the clock, and none holds more than a window's tokens.
THEOREM LimiterTypeCorrect == BucketSpec => []BucketTypeOK
<1>1. IInv => BucketTypeOK
  BY DEF IInv
<1> QED
  BY <1>1, LimiterInvariant, PTL

\* Whatever interval is looked at, refill, cap, discarding and eviction never
\* add up to more than a bucket per eviction and the refill (check, lines 91
\* to 113).
THEOREM GrantsAreBounded == BucketSpec => []RateBound
BY LimiterInvariant, BooksBound, PTL

\* Retry-After is honest whatever the other clients do (lines 126 to 135).
THEOREM RetryAfterIsHonest == BucketSpec => []RetryIsHonest
BY LimiterInvariant, PromiseKept, PTL

\* The table never holds more buckets than it may, and orders them by last use.
THEOREM TableIsBounded == BucketSpec => []TableInv
BY InitialTable, StepKeepsTable, PTL DEF BucketSpec

-----------------------------------------------------------------------------
(***************************************************************************)
(* The token buckets                                                       *)
(***************************************************************************)

BucketsInv == IInv /\ TableInv

\* Every step of the calls is one of the token buckets, or leaves them alone.
LEMMA StepsOfBuckets == [Next]_vars => [BucketNext]_<<clock, bucketVars>>
<1> SUFFICES ASSUME [Next]_vars PROVE [BucketNext]_<<clock, bucketVars>>
  OBVIOUS
<1>1. CASE UNCHANGED vars
  BY <1>1 DEF vars
<1>2. CASE Advance /\ UNCHANGED <<principalVars, bucketVars, httpVars, arrived>>
  BY <1>2 DEF BucketNext
<1>3. CASE BeginAdminister
  BY <1>3 DEF BeginAdminister, BeginCreate, BeginChange
<1>4. CASE Administer
  BY <1>4 DEF Administer, Create, Rotate, Revoke, RefuseChange
<1>5. CASE \E k \in Keys : BrowserRequest(k)
  BY <1>5 DEF BrowserRequest, BucketNext
<1>6. CASE \E r \in Calls : Arrive(r)
  BY <1>6 DEF Arrive
<1>7. CASE \E r \in Calls : Serve(r) /\ UNCHANGED arrived
  <2> PICK r \in Calls : Serve(r)
    BY <1>7
  <2>1. CASE RunTool(r)
    BY <2>1, CallAssumption DEF RunTool, BucketNext
  <2>2. CASE ~ RunTool(r)
    BY <2>2 DEF Serve, Authenticate, AbandonBody, FinishBody, RecordUsage
  <2> QED
    BY <2>1, <2>2
<1> QED
  BY <1>1, <1>2, <1>3, <1>4, <1>5, <1>6, <1>7 DEF Next

\* The buckets at the start.
LEMMA InitialBuckets == Init => BucketsInv
BY InitInvariant, InitialTable DEF Init, BucketsInv

\* No step of a call, an operator or a browser disturbs the books of the buckets.
LEMMA StepsKeepBuckets == BucketsInv /\ [Next]_vars => BucketsInv'
BY StepsOfBuckets, StepInvariant, StepKeepsTable DEF BucketsInv

-----------------------------------------------------------------------------
(***************************************************************************)
(* The principals                                                          *)
(***************************************************************************)

AdminOK ==
    admin # None =>
        /\ admin.op \in {"create", "rotate", "revoke"}
        /\ admin.id \in Ids
        /\ admin.op \in {"create", "rotate"} => issued < MaxTokens
        /\ admin.op = "create" =>
              admin.scopes \in ScopeSets /\ admin.expires \in Nat \cup {None}

\* Every token is issued once, and a token that was withdrawn is nobody's, or
\* that of a principal that has been revoked.
TokensOK ==
    /\ withdrawn \subseteq 1..issued
    /\ \A id \in Ids : principals[id] # None =>
          /\ principals[id].token \in 1..issued
          /\ principals[id].token \in withdrawn => principals[id].revoked
    /\ \A id, other \in Ids :
          principals[id] # None /\ principals[other] # None
            /\ principals[id].token = principals[other].token => id = other

PrincipalsInv == PrincipalTypeOK /\ AdminOK /\ TokensOK

\* No principal at the start.
LEMMA InitialPrincipals == Init => PrincipalsInv
BY PrincipalsAssumption
DEF Init, PrincipalInit, PrincipalsInv, PrincipalTypeOK, AdminOK, TokensOK

\* A step that gives one principal a record, or another one.
LEMMA RecordKeepsPrincipals ==
    ASSUME PrincipalsInv, NEW id \in Ids, NEW record \in Principal,
           principals' = [principals EXCEPT ![id] = record],
           NEW n \in issued..MaxTokens, issued' = n, admin' = None,
           NEW gone \in SUBSET (1..issued), withdrawn' = withdrawn \cup gone,
           \/ /\ record.token = issued + 1 /\ n = issued + 1
              /\ gone \subseteq IF principals[id] = None THEN {} ELSE {principals[id].token}
           \/ /\ principals[id] # None /\ record.token = principals[id].token
              /\ gone = {record.token} /\ record.revoked
    PROVE  PrincipalsInv'
<1>1. issued \in Nat /\ n \in Nat /\ principals \in [Ids -> Principal \cup {None}]
  BY PrincipalsAssumption DEF PrincipalsInv, PrincipalTypeOK
<1>2. principals'[id] = record /\ \A other \in Ids : other # id => principals'[other] = principals[other]
  BY <1>1
<1>3. PrincipalTypeOK'
  BY <1>1, PrincipalsAssumption DEF PrincipalsInv, PrincipalTypeOK, TokensOK
<1>4. AdminOK'
  BY DEF AdminOK
<1>5. \A other \in Ids : principals[other] # None => principals[other].token \in 1..issued
  BY DEF PrincipalsInv, TokensOK
<1>6. withdrawn' \subseteq 1..issued'
  BY <1>1 DEF PrincipalsInv, TokensOK
<1>7. record.token \in 1..n /\ (record.token \in withdrawn' => record.revoked)
  <2>1. CASE record.token = issued + 1 /\ n = issued + 1
    BY <1>1, <2>1 DEF PrincipalsInv, TokensOK
  <2>2. CASE ~(record.token = issued + 1 /\ n = issued + 1)
    BY <1>1, <1>5, <2>2
  <2> QED
    BY <2>1, <2>2
<1>8. ASSUME NEW other \in Ids, other # id, principals[other] # None
      PROVE  /\ principals[other].token \in 1..n
             /\ principals[other].token # record.token
             /\ principals[other].token \in withdrawn' => principals[other].revoked
  <2>1. principals[other].token \in 1..n
    BY <1>1, <1>5, <1>8
  <2>2. principals[id] # None => principals[other].token # principals[id].token
    BY <1>8 DEF PrincipalsInv, TokensOK
  <2>3. principals[other].token # record.token
    BY <1>1, <1>5, <1>8, <2>2
  <2>4. principals[other].token \in withdrawn => principals[other].revoked
    BY <1>8 DEF PrincipalsInv, TokensOK
  <2> QED
    BY <2>1, <2>2, <2>3, <2>4
<1>9. TokensOK'
  <2>1. ASSUME NEW other \in Ids, principals'[other] # None
        PROVE  /\ principals'[other].token \in 1..issued'
               /\ principals'[other].token \in withdrawn' => principals'[other].revoked
               /\ other # id => principals'[other].token # principals'[id].token
    BY <1>2, <1>7, <1>8, <2>1
  <2>2. ASSUME NEW p \in Ids, NEW q \in Ids, p # q, p # id, q # id,
               principals'[p] # None, principals'[q] # None
        PROVE  principals'[p].token # principals'[q].token
    BY <1>2, <2>2 DEF PrincipalsInv, TokensOK
  <2> QED
    BY <1>6, <2>1, <2>2 DEF TokensOK
<1> QED
  BY <1>3, <1>4, <1>9 DEF PrincipalsInv

\* Creating, rotating, revoking and being refused keep tokens unique: each is new, or
\* the one its principal had.
LEMMA AdministrationKeepsPrincipals ==
    ASSUME PrincipalsInv, clock \in Nat, BeginAdminister \/ Administer
    PROVE  PrincipalsInv'
<1>1. CASE BeginAdminister
  <2>1. PICK id \in Ids :
          \/ \E scopes \in ScopeSets, expires \in ExpiryTimes : BeginCreate(id, scopes, expires)
          \/ \E op \in {"rotate", "revoke"} : BeginChange(op, id)
    BY <1>1 DEF BeginAdminister
  <2>2. UNCHANGED <<principals, issued, withdrawn>>
    BY <2>1 DEF BeginCreate, BeginChange
  <2>3. CASE \E scopes \in ScopeSets, expires \in ExpiryTimes : BeginCreate(id, scopes, expires)
    <3>1. PICK scopes \in ScopeSets, expires \in ExpiryTimes : BeginCreate(id, scopes, expires)
      BY <2>3
    <3>2. AdminOK'
      BY <3>1, CallAssumption DEF BeginCreate, AdminOK
    <3> QED
      BY <2>2, <3>2 DEF PrincipalsInv, PrincipalTypeOK, TokensOK
  <2>4. CASE \E op \in {"rotate", "revoke"} : BeginChange(op, id)
    <3>1. AdminOK'
      BY <2>4 DEF BeginChange, AdminOK
    <3> QED
      BY <2>2, <3>1 DEF PrincipalsInv, PrincipalTypeOK, TokensOK
  <2> QED
    BY <2>1, <2>3, <2>4
<1>2. CASE Administer
  <2>0. /\ issued \in 0..MaxTokens /\ MaxTokens \in Nat
        /\ \A id \in Ids : principals[id] \in Principal \cup {None}
    BY PrincipalsAssumption DEF PrincipalsInv, PrincipalTypeOK
  <2>1. CASE Create
    <3> DEFINE record == [token |-> issued + 1, scopes |-> admin.scopes,
                          expires |-> admin.expires, revoked |-> FALSE, lastUsed |-> None]
    <3>1. admin.id \in Ids /\ issued + 1 \in 1..MaxTokens /\ record \in Principal
      BY <2>0, <2>1 DEF Create, PrincipalsInv, AdminOK, Principal
    <3>2. principals' = [principals EXCEPT ![admin.id] = record]
      BY <2>1 DEF Create
    <3>3. record.token = issued + 1 /\ issued' = issued + 1 /\ admin' = None
          /\ withdrawn' = withdrawn \cup {}
      BY <2>1 DEF Create
    <3>4. issued + 1 \in issued..MaxTokens /\ {} \in SUBSET (1..issued)
      BY <2>0, <3>1
    <3> HIDE DEF record
    <3> QED
      BY <3>1, <3>2, <3>3, <3>4, RecordKeepsPrincipals
  <2>2. CASE Rotate
    <3> DEFINE old == principals[admin.id]
    <3> DEFINE record == [old EXCEPT !.token = issued + 1, !.lastUsed = None]
    <3>1. admin.id \in Ids /\ issued + 1 \in 1..MaxTokens /\ old \in Principal /\ old # None
      BY <2>0, <2>2 DEF Rotate, PrincipalsInv, AdminOK
    <3>2. record \in Principal /\ record.token = issued + 1
      BY <3>1 DEF Principal
    <3>3. principals' = [principals EXCEPT ![admin.id] = record]
      BY <2>2 DEF Rotate
    <3>4. issued' = issued + 1 /\ admin' = None /\ withdrawn' = withdrawn \cup {old.token}
          /\ {old.token} \in SUBSET (1..issued) /\ issued + 1 \in issued..MaxTokens
      BY <2>0, <2>2, <3>1 DEF Rotate, PrincipalsInv, TokensOK
    <3> HIDE DEF record
    <3> QED
      BY <3>1, <3>2, <3>3, <3>4, RecordKeepsPrincipals
  <2>3. CASE Revoke
    <3> DEFINE old == principals[admin.id]
    <3> DEFINE record == [old EXCEPT !.revoked = TRUE]
    <3>1. admin.id \in Ids /\ old \in Principal /\ old # None
      BY <2>0, <2>3 DEF Revoke, PrincipalsInv, AdminOK
    <3>2. record \in Principal /\ record.token = old.token /\ record.revoked
      BY <3>1 DEF Principal
    <3>3. principals' = [principals EXCEPT ![admin.id] = record]
      BY <2>3 DEF Revoke
    <3>4. issued' = issued /\ admin' = None /\ withdrawn' = withdrawn \cup {old.token}
          /\ old.token \in 1..issued /\ issued \in issued..MaxTokens
      BY <2>0, <2>3, <3>1 DEF Revoke, PrincipalsInv, TokensOK
    <3> HIDE DEF record
    <3> QED
      BY <3>1, <3>2, <3>3, <3>4, RecordKeepsPrincipals
  <2>4. CASE RefuseChange
    BY <2>4 DEF RefuseChange, PrincipalsInv, PrincipalTypeOK, AdminOK, TokensOK
  <2> QED
    BY <1>2, <2>1, <2>2, <2>3, <2>4 DEF Administer
<1> QED
  BY <1>1, <1>2

\* Stamping a use changes nothing but when a principal was last used.
LEMMA StampKeepsPrincipals ==
    ASSUME PrincipalsInv, NEW token, NEW now \in Nat, Stamp(token, now),
           UNCHANGED <<issued, admin, withdrawn>>
    PROVE  /\ PrincipalsInv'
           /\ \A id \in Ids : principals[id] # None =>
                /\ principals'[id].token = principals[id].token
                /\ principals'[id].lastUsed =
                     IF id \in Recognised(token, now) THEN now ELSE principals[id].lastUsed
           /\ \A id \in Ids : principals[id] = None => principals'[id] = None
<1>1. \A id \in Ids : principals[id] \in Principal \cup {None}
  BY DEF PrincipalsInv, PrincipalTypeOK
<1>2. \A id \in Recognised(token, now) : id \in Ids /\ principals[id] # None
  BY DEF Recognised, Holders
<1>3. ASSUME NEW id \in Ids, principals[id] # None
      PROVE  /\ principals'[id] \in Principal
             /\ principals'[id].token = principals[id].token
             /\ principals'[id].revoked = principals[id].revoked
             /\ principals'[id].lastUsed =
                  IF id \in Recognised(token, now) THEN now ELSE principals[id].lastUsed
  <2>1. CASE id \in Recognised(token, now)
    <3>1. principals'[id] = [principals[id] EXCEPT !.lastUsed = now]
      BY <2>1 DEF Stamp
    <3> QED
      BY <1>1, <1>3, <2>1, <3>1 DEF Principal
  <2>2. CASE id \notin Recognised(token, now)
    BY <1>1, <1>3, <2>2 DEF Stamp
  <2> QED
    BY <2>1, <2>2
<1>4. \A id \in Ids : principals[id] = None => principals'[id] = None
  BY <1>2 DEF Stamp
<1>5. PrincipalTypeOK'
  <2>1. principals' = [id \in Ids |-> principals'[id]]
    BY DEF Stamp
  <2>2. \A id \in Ids : principals'[id] \in Principal \cup {None}
    BY <1>3, <1>4
  <2> QED
    BY <2>1, <2>2 DEF PrincipalsInv, PrincipalTypeOK
<1>6. AdminOK' /\ TokensOK'
  BY <1>3, <1>4 DEF PrincipalsInv, AdminOK, TokensOK
<1> QED
  BY <1>3, <1>4, <1>5, <1>6 DEF PrincipalsInv

-----------------------------------------------------------------------------
(***************************************************************************)
(* The calls                                                               *)
(***************************************************************************)

\* A call counts for nobody before its body is complete, and whoever sends a
\* body has been recognised.
CallsInv ==
    /\ call \in [Calls -> CallRecord]
    /\ \A r \in Calls :
        /\ call[r].stage \in {"idle", "authenticating", "reading"} => call[r].entry = None
        /\ call[r].stage = "reading" => call[r].id \in Ids

\* A step of one call.
StepOf(r) == /\ CallsInv'
             /\ \A q \in Calls : q # r => call'[q] = call[q]

\* It leaves alone what the window counted.
KeepsEntry(r) == call'[r].entry = call[r].entry /\ call'[r].admitted = call[r].admitted

\* No call at the start.
LEMMA InitialCalls == Init => CallsInv
BY PrincipalsAssumption
DEF Init, CallsInv, IdleCall, CallRecord, Stages, Foreign, Tools, ToolScope

\* A refused call keeps only what the window counted.
LEMMA RefuseStep ==
    ASSUME CallsInv, NEW r \in Calls, Refuse(r)
    PROVE  /\ StepOf(r) /\ KeepsEntry(r)
           /\ call'[r].stage = "refused"
<1>1. IdleCall \in CallRecord
  BY PrincipalsAssumption DEF IdleCall, CallRecord, Stages, Foreign, Tools, ToolScope
<1> QED
  BY <1>1 DEF Refuse, CallsInv, StepOf, KeepsEntry, IdleCall, CallRecord, Stages

\* What an arrival does to the call.
LEMMA ArriveStep ==
    ASSUME CallsInv, clock \in Nat, issued \in 0..MaxTokens, NEW r \in Calls, Arrive(r)
    PROVE  /\ StepOf(r) /\ KeepsEntry(r)
           /\ call[r].stage = "idle"
           /\ call'[r].stage = "authenticating"
<1>1. PICK token \in Foreign..issued :
        call' = [call EXCEPT ![r].stage = "authenticating", ![r].token = token,
                             ![r].now = clock]
  BY DEF Arrive
<1>2. token \in 0..MaxTokens
  BY PrincipalsAssumption DEF Foreign
<1>3. call[r].stage = "idle" /\ call \in [Calls -> CallRecord]
  BY DEF Arrive, CallsInv
<1> DEFINE c == [call[r] EXCEPT !.stage = "authenticating", !.token = token, !.now = clock]
<1>4. call' = [call EXCEPT ![r] = c]
  BY <1>1
<1>5. /\ c \in CallRecord /\ c.stage = "authenticating" /\ c.entry = call[r].entry
      /\ c.admitted = call[r].admitted
  BY <1>2, <1>3, ZenonT(60) DEF CallRecord, Stages
<1> HIDE DEF c
<1> QED
  BY <1>3, <1>4, <1>5 DEF CallsInv, StepOf, KeepsEntry

\* What authentication does: a refusal, or one reader more for a principal below its limit.
LEMMA AuthenticateStep ==
    ASSUME CallsInv, PrincipalsInv, NEW r \in Calls, Authenticate(r)
    PROVE  /\ StepOf(r) /\ KeepsEntry(r)
           /\ call[r].stage = "authenticating"
           /\ \/ call'[r].stage = "refused" /\ UNCHANGED readers
              \/ \E id \in Ids :
                    /\ call'[r].stage = "reading" /\ call'[r].id = id
                    /\ readers[id] < MaxReaders
                    /\ readers' = [readers EXCEPT ![id] = @ + 1]
<1>1. call[r].stage = "authenticating"
  BY DEF Authenticate
<1>2. CASE Refuse(r) /\ UNCHANGED readers
  BY <1>1, <1>2, RefuseStep
<1>3. ASSUME NEW id \in Recognised(call[r].token, call[r].now),
             call' = [call EXCEPT ![r].stage = "reading", ![r].id = id,
                                  ![r].scopes = principals[id].scopes],
             readers[id] < MaxReaders, readers' = [readers EXCEPT ![id] = @ + 1]
      PROVE  /\ StepOf(r) /\ KeepsEntry(r)
             /\ \E i \in Ids : /\ call'[r].stage = "reading" /\ call'[r].id = i
                               /\ readers[i] < MaxReaders
                               /\ readers' = [readers EXCEPT ![i] = @ + 1]
  <2>1. id \in Ids /\ principals[id] # None
    BY DEF Recognised, Holders
  <2>2. principals[id].scopes \in ScopeSets
    BY <2>1 DEF PrincipalsInv, PrincipalTypeOK, Principal
  <2>3. StepOf(r) /\ KeepsEntry(r) /\ call'[r].stage = "reading" /\ call'[r].id = id
    <3> DEFINE c == [call[r] EXCEPT !.stage = "reading", !.id = id,
                                   !.scopes = principals[id].scopes]
    <3>1. call \in [Calls -> CallRecord] /\ call[r].entry = None
      BY <1>1 DEF CallsInv
    <3>2. call' = [call EXCEPT ![r] = c]
      BY <1>3
    <3>3. /\ c \in CallRecord /\ c.stage = "reading" /\ c.id = id
          /\ c.entry = call[r].entry /\ c.admitted = call[r].admitted
      <4>1. call[r] \in CallRecord
        BY <3>1
      <4>2. /\ "reading" \in Stages /\ id \in Ids \cup {None}
            /\ principals[id].scopes \in ScopeSets \cup {{}}
        BY <2>1, <2>2 DEF Stages
      <4> QED
        BY <4>1, <4>2 DEF CallRecord
    <3> HIDE DEF c
    <3> QED
      BY <2>1, <3>1, <3>2, <3>3 DEF CallsInv, StepOf, KeepsEntry
  <2> QED
    BY <1>3, <2>1, <2>3
<1> QED
  BY <1>1, <1>2, <1>3 DEF Authenticate

\* What the abandonment of a body does to the call.
LEMMA AbandonStep ==
    ASSUME CallsInv, NEW r \in Calls, AbandonBody(r)
    PROVE  /\ StepOf(r) /\ KeepsEntry(r)
           /\ call[r].stage = "reading" /\ call[r].id \in Ids
           /\ call'[r].stage = "refused"
BY RefuseStep DEF AbandonBody, CallsInv

\* What the end of a body does, for a call that is let through or is not.
\* What the end of a body does to the deques: `e` is the entry of the call,
\* `more` whether it is let through.
Counted(r, e, cleared, more) ==
    /\ dropped' = dropped \cup {f \in cleared : LastCall(f) > clock - Window}
    /\ more => Len(Recent(windows[e])) < CallLimit[e[2]]
    /\ windows' = [f \in Entries |->
          IF f = e THEN IF more THEN Append(Recent(windows[e]), clock) ELSE Recent(windows[e])
          ELSE IF f \in cleared THEN <<>> ELSE windows[f]]
    /\ IF more THEN call'[r].entry = e /\ call'[r].admitted = clock ELSE KeepsEntry(r)

\* What the end of a body does to the call, and through it to the deques.
LEMMA FinishStep ==
    ASSUME CallsInv, clock \in Nat, NEW r \in Calls, FinishBody(r)
    PROVE  /\ StepOf(r)
           /\ call[r].stage = "reading" /\ call[r].id \in Ids /\ call[r].entry = None
           /\ call'[r].stage \in {"recording", "refused"}
           /\ \E e \in Entries : \E cleared \in Cleared(e) : \E more \in BOOLEAN :
                 Counted(r, e, cleared, more)
<1>1. call[r].stage = "reading" /\ call[r].id \in Ids /\ call[r].entry = None
      /\ call \in [Calls -> CallRecord]
  BY DEF FinishBody, CallsInv
<1>2. PICK tool \in Tools, category \in {"read", "write"} :
       LET e == <<call[r].id, category>> IN
       \E cleared \in Cleared(e) :
       LET recent == Recent(windows[e])
           allowed == Len(recent) < CallLimit[category]
       IN /\ category \in {"read", ToolScope[tool]}
          /\ windows' = [f \in Entries |->
                 IF f = e THEN IF allowed THEN Append(recent, clock) ELSE recent
                 ELSE IF f \in cleared THEN <<>> ELSE windows[f]]
          /\ dropped' = dropped \cup {f \in cleared : LastCall(f) > clock - Window}
          /\ IF allowed
             THEN call' = [call EXCEPT ![r].stage = "recording", ![r].tool = tool,
                                       ![r].entry = e, ![r].now = clock, ![r].admitted = clock]
             ELSE Refuse(r)
  BY DEF FinishBody
<1> DEFINE e == <<call[r].id, category>>
<1> DEFINE recent == Recent(windows[e])
<1> DEFINE allowed == Len(recent) < CallLimit[category]
<1>3. PICK cleared \in Cleared(e) :
          /\ windows' = [f \in Entries |->
                 IF f = e THEN IF allowed THEN Append(recent, clock) ELSE recent
                 ELSE IF f \in cleared THEN <<>> ELSE windows[f]]
          /\ dropped' = dropped \cup {f \in cleared : LastCall(f) > clock - Window}
          /\ IF allowed
             THEN call' = [call EXCEPT ![r].stage = "recording", ![r].tool = tool,
                                       ![r].entry = e, ![r].now = clock, ![r].admitted = clock]
             ELSE Refuse(r)
  BY <1>2
<1>4. e \in Entries /\ e[2] = category
  BY <1>1 DEF Entries
<1> HIDE DEF e, recent
<1>5. CASE allowed
  <2>1. call' = [call EXCEPT ![r].stage = "recording", ![r].tool = tool,
                             ![r].entry = e, ![r].now = clock, ![r].admitted = clock]
    BY <1>3, <1>5
  <2>2. StepOf(r) /\ call'[r].stage = "recording" /\ call'[r].entry = e
        /\ call'[r].admitted = clock
    <3> DEFINE c == [call[r] EXCEPT !.stage = "recording", !.tool = tool, !.entry = e,
                                   !.now = clock, !.admitted = clock]
    <3>1. call' = [call EXCEPT ![r] = c]
      BY <2>1
    <3>2. call[r] \in CallRecord /\ "recording" \in Stages
      BY <1>1 DEF Stages
    <3>3. c \in CallRecord
      BY <1>4, <3>2 DEF CallRecord
    <3>4. c.stage = "recording" /\ c.entry = e /\ c.admitted = clock
      BY <3>2 DEF CallRecord
    <3> HIDE DEF c
    <3> QED
      BY <1>1, <3>1, <3>3, <3>4 DEF CallsInv, StepOf
  <2>3. Counted(r, e, cleared, TRUE)
    BY <1>3, <1>4, <1>5, <2>2 DEF Counted, recent
  <2> QED
    BY <1>1, <1>3, <1>4, <2>2, <2>3
<1>6. CASE ~ allowed
  <2>1. StepOf(r) /\ KeepsEntry(r) /\ call'[r].stage = "refused"
    BY <1>3, <1>6, RefuseStep
  <2>2. Counted(r, e, cleared, FALSE)
    BY <1>3, <1>6, <2>1 DEF Counted, recent
  <2> QED
    BY <1>1, <1>3, <1>4, <2>1, <2>2
<1> QED
  BY <1>5, <1>6

\* What record_usage does: a refusal, or the call goes on with its token and time.
LEMMA RecordUsageStep ==
    ASSUME CallsInv, NEW r \in Calls, RecordUsage(r)
    PROVE  /\ StepOf(r) /\ KeepsEntry(r)
           /\ call[r].stage = "recording"
           /\ \/ /\ Recognised(call[r].token, call[r].now) = {}
                 /\ call'[r].stage = "refused"
              \/ /\ Recognised(call[r].token, call[r].now) # {}
                 /\ call'[r].stage = "running"
                 /\ call'[r].token = call[r].token /\ call'[r].now = call[r].now
                 /\ call'[r].late = (call[r].token \in withdrawn)
<1>1. call[r].stage = "recording"
  BY DEF RecordUsage
<1>2. CASE Recognised(call[r].token, call[r].now) = {} /\ Refuse(r)
  BY <1>1, <1>2, RefuseStep
<1>3. CASE /\ Recognised(call[r].token, call[r].now) # {}
           /\ call' = [call EXCEPT ![r].stage = "running",
                                   ![r].late = call[r].token \in withdrawn]
  <2> DEFINE late == call[r].token \in withdrawn
  <2>1. late \in BOOLEAN
    OBVIOUS
  <2>2. call' = [call EXCEPT ![r].stage = "running", ![r].late = late]
    BY <1>3
  <2> HIDE DEF late
  <2>3. StepOf(r) /\ KeepsEntry(r) /\ call'[r].stage = "running"
        /\ call'[r].token = call[r].token /\ call'[r].now = call[r].now /\ call'[r].late = late
    <3> DEFINE c == [call[r] EXCEPT !.stage = "running", !.late = late]
    <3>1. call \in [Calls -> CallRecord]
      BY DEF CallsInv
    <3>2. call' = [call EXCEPT ![r] = c]
      BY <2>2
    <3>3. /\ c \in CallRecord /\ c.stage = "running" /\ c.late = late
          /\ c.entry = call[r].entry /\ c.admitted = call[r].admitted
          /\ c.token = call[r].token /\ c.now = call[r].now
      BY <2>1, <3>1 DEF CallRecord, Stages
    <3> HIDE DEF c
    <3> QED
      BY <3>1, <3>2, <3>3 DEF CallsInv, StepOf, KeepsEntry
  <2> QED
    BY <1>1, <1>3, <2>3 DEF late
<1> QED
  BY <1>2, <1>3 DEF RecordUsage

\* What the tool does to the call.
LEMMA RunToolStep ==
    ASSUME CallsInv, NEW r \in Calls, RunTool(r)
    PROVE  /\ StepOf(r) /\ KeepsEntry(r)
           /\ call[r].stage = "running" /\ call'[r].stage \in {"ran", "failed"}
           /\ call'[r].token = call[r].token /\ call'[r].now = call[r].now
           /\ call'[r].late = call[r].late
<1>1. PICK s \in {"ran", "failed"} : call' = [call EXCEPT ![r].stage = s]
  BY DEF RunTool
<1> QED
  BY <1>1 DEF RunTool, CallsInv, StepOf, KeepsEntry, CallRecord, Stages

-----------------------------------------------------------------------------
(***************************************************************************)
(* The bodies coming in                                                    *)
(***************************************************************************)

Reading(id) == {r \in Calls : call[r].stage = "reading" /\ call[r].id = id}

\* Each principal's readers are counted.
ReadersInv ==
    /\ readers \in [Ids -> Nat]
    /\ \A id \in Ids : IsFiniteSet(Reading(id)) /\ readers[id] = Cardinality(Reading(id))
                       /\ readers[id] <= MaxReaders

\* No reader at the start.
LEMMA InitialReaders == Init => ReadersInv
<1> SUFFICES ASSUME Init PROVE ReadersInv
  OBVIOUS
<1>1. \A id : Reading(id) = {}
  BY DEF Init, Reading, IdleCall
<1>2. IsFiniteSet({}) /\ Cardinality({}) = 0 /\ MaxReaders \in Nat
  BY FS_EmptySet, CallAssumption
<1>3. readers = [id \in Ids |-> 0]
  BY DEF Init
<1> QED
  BY <1>1, <1>2, <1>3 DEF ReadersInv

\* A call that begins to read its body is the one the limiter counts.
LEMMA OneReaderMore ==
    ASSUME ReadersInv, NEW r \in Calls, NEW id \in Ids, StepOf(r),
           call[r].stage # "reading", call'[r].stage = "reading", call'[r].id = id,
           readers[id] < MaxReaders, readers' = [readers EXCEPT ![id] = @ + 1]
    PROVE  ReadersInv'
<1>1. Reading(id)' = Reading(id) \cup {r} /\ r \notin Reading(id)
  BY DEF Reading, StepOf
<1>2. \A other \in Ids : other # id => Reading(other)' = Reading(other)
  BY DEF Reading, StepOf
<1>3. IsFiniteSet(Reading(id)') /\ Cardinality(Reading(id)') = Cardinality(Reading(id)) + 1
  BY <1>1, FS_AddElement DEF ReadersInv
<1>4. MaxReaders \in Nat /\ readers[id] \in Nat /\ readers[id] + 1 <= MaxReaders
  BY CallAssumption DEF ReadersInv
<1>5. readers' \in [Ids -> Nat] /\ readers'[id] = readers[id] + 1
      /\ \A other \in Ids : other # id => readers'[other] = readers[other]
  BY <1>4 DEF ReadersInv
<1> QED
  BY <1>2, <1>3, <1>4, <1>5 DEF ReadersInv

\* A call whose body ends is the one the limiter gives back: there is one to give back.
LEMMA OneReaderLess ==
    ASSUME ReadersInv, NEW r \in Calls, NEW id \in Ids, StepOf(r),
           call[r].stage = "reading", call[r].id = id, call'[r].stage # "reading", Release(id)
    PROVE  ReadersInv'
<1>1. Reading(id)' = Reading(id) \ {r} /\ r \in Reading(id)
  BY DEF Reading, StepOf
<1>2. \A other \in Ids : other # id => Reading(other)' = Reading(other)
  BY DEF Reading, StepOf
<1>3. /\ IsFiniteSet(Reading(id)') /\ Cardinality(Reading(id)') = Cardinality(Reading(id)) - 1
      /\ Cardinality(Reading(id)') \in Nat
  BY <1>1, FS_RemoveElement, FS_CardinalityType DEF ReadersInv
<1>4. readers[id] \in Nat /\ readers[id] = Cardinality(Reading(id)) /\ readers[id] <= MaxReaders
      /\ MaxReaders \in Nat
  BY CallAssumption DEF ReadersInv
<1>5. readers' \in [Ids -> Nat] /\ readers'[id] = readers[id] - 1
      /\ \A other \in Ids : other # id => readers'[other] = readers[other]
  <2>1. readers' = [readers EXCEPT ![id] = IF readers[id] <= 1 THEN 0 ELSE readers[id] - 1]
    BY DEF Release
  <2>2. (IF readers[id] <= 1 THEN 0 ELSE readers[id] - 1) = readers[id] - 1
        /\ readers[id] - 1 \in Nat
    BY <1>3, <1>4
  <2> QED
    BY <2>1, <2>2 DEF ReadersInv
<1> QED
  BY <1>2, <1>3, <1>4, <1>5 DEF ReadersInv

\* A step of a call that is not, and does not come to be, reading.
LEMMA NoReaderMoved ==
    ASSUME ReadersInv, UNCHANGED readers,
           \A r \in Calls : /\ call'[r].stage = "reading" <=> call[r].stage = "reading"
                            /\ call[r].stage = "reading" => call'[r].id = call[r].id
    PROVE  ReadersInv'
<1>1. \A id : Reading(id)' = Reading(id)
  BY DEF Reading
<1> QED
  BY <1>1 DEF ReadersInv

\* The count of the readers is what the property asks for.
LEMMA CountedReaders == ReadersInv => ReadersAccounted
BY DEF ReadersInv, ReadersAccounted, Reading

-----------------------------------------------------------------------------
(***************************************************************************)
(* The uses recorded                                                       *)
(***************************************************************************)

Done == {"running", "ran", "failed"}

\* No use at the start.
LEMMA InitialUses == Init => UseIsCurrent
BY DEF Init, PrincipalInit, UseIsCurrent, IdleCall

\* A call that has not yet come to the application, or does not get there.
LEMMA OtherCallsKeepUses ==
    ASSUME UseIsCurrent, NEW r \in Calls, StepOf(r), call[r].stage \notin Done,
           call'[r].stage \notin Done, UNCHANGED principals
    PROVE  UseIsCurrent'
BY DEF UseIsCurrent, StepOf, Done

\* The tool changes neither the token nor the time of the use.
LEMMA RunsKeepUses ==
    ASSUME CallsInv, UseIsCurrent, NEW r \in Calls, RunTool(r)
    PROVE  UseIsCurrent'
<1>1. /\ StepOf(r)
      /\ call[r].stage \in Done /\ call'[r].stage \in Done
      /\ call'[r].token = call[r].token /\ call'[r].now = call[r].now
      /\ call'[r].late = call[r].late
  BY RunToolStep DEF Done
<1>2. principals' = principals
  BY DEF RunTool, principalVars
<1>3. \A q \in Calls : /\ call'[q].stage \in Done <=> call[q].stage \in Done
                       /\ call'[q].token = call[q].token /\ call'[q].now = call[q].now
                       /\ call'[q].late = call[q].late
  BY <1>1 DEF StepOf
<1> QED
  BY <1>2, <1>3 DEF UseIsCurrent, Done

\* The call whose use is stamped carries the token of the principal stamped,
\* and since that one is active its token had not been withdrawn.
LEMMA RecordsKeepUses ==
    ASSUME CallsInv, PrincipalsInv, UseIsCurrent, NEW r \in Calls, RecordUsage(r)
    PROVE  UseIsCurrent'
<1> DEFINE token == call[r].token
<1> DEFINE now == call[r].now
<1>1. /\ StepOf(r) /\ call[r].stage = "recording"
      /\ \/ /\ Recognised(token, now) = {}
            /\ call'[r].stage = "refused"
         \/ /\ Recognised(token, now) # {}
            /\ call'[r].stage = "running"
            /\ call'[r].token = token /\ call'[r].now = now
            /\ call'[r].late = (token \in withdrawn)
  BY RecordUsageStep
<1>2. /\ Stamp(token, now) /\ UNCHANGED <<issued, admin, withdrawn>> /\ now \in Nat
      /\ call'[r] = call'[r]
  BY DEF RecordUsage, CallsInv, CallRecord
<1>3. \A id \in Ids :
        /\ principals[id] # None =>
            /\ principals'[id].token = principals[id].token
            /\ principals'[id].lastUsed =
                 IF id \in Recognised(token, now) THEN now ELSE principals[id].lastUsed
        /\ principals[id] = None => principals'[id] = None
  BY <1>2, StampKeepsPrincipals
<1>4. \A id \in Recognised(token, now) :
        id \in Ids /\ principals[id] # None /\ principals[id].token = token
  BY DEF Recognised, Holders
<1>5. Recognised(token, now) # {} => token \notin withdrawn
  <2> SUFFICES ASSUME NEW id \in Recognised(token, now), token \in withdrawn
               PROVE  FALSE
    OBVIOUS
  <2>1. principals[id].revoked
    BY <1>4 DEF PrincipalsInv, TokensOK
  <2> QED
    BY <2>1 DEF Recognised, Status
<1>6. \A q \in Calls : call'[q].stage \in Done => ~ call'[q].late
  BY <1>1, <1>5 DEF UseIsCurrent, StepOf, Done
<1>7. ASSUME NEW id \in Ids, principals'[id] # None, principals'[id].lastUsed # None
      PROVE  \E q \in Calls : /\ call'[q].stage \in Done
                              /\ call'[q].token = principals'[id].token
                              /\ call'[q].now = principals'[id].lastUsed
                              /\ ~ call'[q].late
  <2>1. principals[id] # None
    BY <1>3, <1>7
  <2>2. CASE id \in Recognised(token, now)
    BY <1>1, <1>3, <1>4, <1>5, <2>1, <2>2 DEF Done
  <2>3. CASE id \notin Recognised(token, now)
    <3>1. PICK q \in Calls : /\ call[q].stage \in Done
                             /\ call[q].token = principals[id].token
                             /\ call[q].now = principals[id].lastUsed
                             /\ ~ call[q].late
      BY <1>3, <1>7, <2>1, <2>3 DEF UseIsCurrent, Done
    <3>2. call'[q] = call[q]
      BY <1>1, <3>1 DEF StepOf, Done
    <3> QED
      BY <1>3, <2>1, <2>3, <3>1, <3>2
  <2> QED
    BY <2>2, <2>3
<1> QED
  BY <1>6, <1>7 DEF UseIsCurrent, Done

\* A new credential has not been used; nothing else takes a use away or makes
\* an old one the new token's.
LEMMA AdministrationKeepsUses ==
    ASSUME PrincipalsInv, UseIsCurrent, BeginAdminister \/ Administer
    PROVE  UseIsCurrent'
<1>1. call' = call
  BY DEF BeginAdminister, Administer, httpVars
<1>2. ASSUME NEW id \in Ids, principals'[id] # None, principals'[id].lastUsed # None
      PROVE  /\ principals[id] # None
             /\ principals'[id].token = principals[id].token
             /\ principals'[id].lastUsed = principals[id].lastUsed
  <2>0. \A other \in Ids : principals[other] \in Principal \cup {None}
    BY DEF PrincipalsInv, PrincipalTypeOK
  <2>1. CASE UNCHANGED principals
    BY <1>2, <2>1
  <2>2. CASE Create
    BY <1>2, <2>2 DEF Create, PrincipalsInv, PrincipalTypeOK
  <2>3. CASE Rotate
    BY <1>2, <2>0, <2>3 DEF Rotate, PrincipalsInv, PrincipalTypeOK, Principal
  <2>4. CASE Revoke
    BY <1>2, <2>0, <2>4 DEF Revoke, PrincipalsInv, PrincipalTypeOK, Principal
  <2> QED
    BY <2>1, <2>2, <2>3, <2>4
    DEF BeginAdminister, BeginCreate, BeginChange, Administer, RefuseChange
<1> QED
  BY <1>1, <1>2 DEF UseIsCurrent

-----------------------------------------------------------------------------
(***************************************************************************)
(* The calls of the last sixty seconds                                     *)
(***************************************************************************)

Ascending(times) == \A i, j \in 1..Len(times) : i <= j => times[i] <= times[j]

\* The times taken off an ascending deque are exactly the outdated ones.
LEMMA RecentTimes ==
    ASSUME NEW times \in Seq(Nat), Ascending(times), clock \in Nat
    PROVE  \E d \in 0..Len(times) :
              /\ Recent(times) \in Seq(Nat)
              /\ Len(Recent(times)) = Len(times) - d
              /\ \A i \in 1..Len(times) - d : Recent(times)[i] = times[d + i]
              /\ \A i \in 1..Len(times) : times[i] > clock - Window <=> i > d
<1> DEFINE cutoff == clock - Window
<1>1. Window \in Nat /\ cutoff \in Int /\ Len(times) \in Nat
      /\ \A i \in 1..Len(times) : times[i] \in Nat
  BY BucketAssumption, LenProperties, ElementOfSeq
<1> HIDE DEF cutoff
<1> DEFINE Later == {i \in 1..Len(times) : times[i] > cutoff}
<1>2. \E d \in 0..Len(times) : \A i \in 1..Len(times) : times[i] > cutoff <=> i > d
  <2>1. CASE Later = {}
    <3>1. Len(times) \in 0..Len(times)
          /\ \A i \in 1..Len(times) : times[i] > cutoff <=> i > Len(times)
      BY <1>1, <2>1
    <3> QED
      BY <3>1
  <2>2. CASE Later # {}
    <3>1. Later \subseteq Nat
      BY <1>1
    <3>2. PICK l \in Later : \A i \in Later : <<i, l>> \notin OpToRel(<, Nat)
      <4> HIDE DEF Later
      <4> QED
        BY <2>2, <3>1, NatLessThanWellFounded, WFMin
    <3>3. \A i \in Later : ~ (i < l)
      BY <3>1, <3>2 DEF OpToRel
    <3>4. \A i \in 1..Len(times) : times[i] > cutoff <=> i >= l
      BY <1>1, <3>3 DEF Ascending
    <3>5. l - 1 \in 0..Len(times) /\ \A i \in 1..Len(times) : i >= l <=> i > l - 1
      BY <1>1
    <3> QED
      BY <3>4, <3>5
  <2> QED
    BY <2>1, <2>2
<1>3. PICK d \in 0..Len(times) : \A i \in 1..Len(times) : times[i] > cutoff <=> i > d
  BY <1>2
<1>4. Outdated(times, cutoff) = 1..d
  <2>1. \A i \in 1..Len(times) : times[i] <= cutoff <=> i <= d
    BY <1>1, <1>3
  <2>2. ASSUME NEW i \in 1..d PROVE i \in Outdated(times, cutoff)
    <3>1. i \in 1..Len(times) /\ \A j \in 1..i : j \in 1..Len(times) /\ j <= d
      BY <1>1
    <3> QED
      BY <2>1, <3>1 DEF Outdated
  <2>3. ASSUME NEW i \in Outdated(times, cutoff) PROVE i \in 1..d
    <3>1. i \in 1..Len(times) /\ times[i] <= cutoff
      BY <1>1 DEF Outdated
    <3> QED
      BY <1>1, <2>1, <3>1
  <2> QED
    BY <2>2, <2>3
<1>5. Cardinality(1..d) = d
  BY <1>1, FS_Interval
<1>6. Recent(times) = SubSeq(times, d + 1, Len(times))
  BY <1>4, <1>5 DEF Recent, cutoff
<1>7. \A i \in d + 1 .. Len(times) : times[i] \in Nat
  BY <1>1
<1>8. /\ Recent(times) \in Seq(Nat)
      /\ Len(Recent(times)) = Len(times) - d
      /\ \A i \in 1..Len(times) - d : Recent(times)[i] = times[d + i]
  <2>1. /\ SubSeq(times, d + 1, Len(times)) \in Seq(Nat)
        /\ Len(SubSeq(times, d + 1, Len(times)))
             = IF d + 1 <= Len(times) THEN Len(times) - (d + 1) + 1 ELSE 0
        /\ \A i \in 1..Len(times) - (d + 1) + 1 :
              SubSeq(times, d + 1, Len(times))[i] = times[d + 1 + i - 1]
    BY <1>1, <1>7, SubSeqProperties
  <2>2. Len(times) - (d + 1) + 1 = Len(times) - d
        /\ (d + 1 <= Len(times) \/ Len(times) - d = 0)
    BY <1>1
  <2>3. Len(Recent(times)) = Len(times) - d
    BY <1>6, <2>1, <2>2
  <2>4. ASSUME NEW i \in 1..Len(times) - d PROVE Recent(times)[i] = times[d + i]
    <3>1. d + 1 + i - 1 = d + i
      BY <1>1
    <3> QED
      BY <1>6, <2>1, <2>2, <3>1
  <2> QED
    BY <1>6, <2>1, <2>3, <2>4
<1> QED
  BY <1>3, <1>8 DEF cutoff

\* Whatever can be numbered without repetition is no more than the numbers.
LEMMA NumberedAtMost ==
    ASSUME NEW S, NEW n \in Nat, NEW place \in [S -> 1..n],
           \A q, r \in S : place[q] = place[r] => q = r, NEW T \in SUBSET S
    PROVE  Cardinality(T) <= n /\ Cardinality(T) \in Nat
<1>1. IsFiniteSet(1..n) /\ Cardinality(1..n) = n
  BY FS_Interval
<1>2. place \in Injection(S, 1..n)
  BY Fun_IsInj
<1>3. IsFiniteSet(S) /\ Cardinality(S) <= n
  BY <1>1, <1>2, FS_Injection
<1>4. /\ Cardinality(T) <= Cardinality(S) /\ Cardinality(S) \in Nat /\ Cardinality(T) \in Nat
  BY <1>3, FS_Subset, FS_CardinalityType
<1> QED
  BY <1>3, <1>4

\* The calls of an entry let through within the window that ends now.
Admissions(e) == {r \in Calls : call[r].entry = e /\ call[r].admitted > clock - Window}

\* Each of them has a place of its own in the deque.
Recorded(e) ==
    \E place \in [Admissions(e) -> 1..Len(windows[e])] :
        /\ \A q, r \in Admissions(e) : place[q] = place[r] => q = r
        /\ \A r \in Admissions(e) : windows[e][place[r]] = call[r].admitted

DequesOK ==
    /\ windows \in [Entries -> Seq(Nat)]
    /\ \A e \in Entries : /\ Len(windows[e]) <= CallLimit[e[2]]
                          /\ Ascending(windows[e])
                          /\ \A i \in 1..Len(windows[e]) : windows[e][i] <= clock

WindowsInv == DequesOK /\ (\A e \in Entries \ dropped : Recorded(e)) /\ WindowBound

Interval(e, t) ==
    {r \in Calls : call[r].entry = e /\ call[r].admitted \in (t - Window + 1)..t}

\* The deques are empty at the start, and nothing has been let through.
LEMMA InitialWindows == Init => WindowsInv
<1> SUFFICES ASSUME Init PROVE WindowsInv
  OBVIOUS
<1>1. CallLimit \in [{"read", "write"} -> Nat]
  BY CallAssumption
<1>2. \A e \in Entries : windows[e] = <<>> /\ CallLimit[e[2]] \in Nat
  BY <1>1 DEF Init, Entries
<1>3. DequesOK
  <2>1. windows \in [Entries -> Seq(Nat)]
    BY EmptySeq DEF Init
  <2> QED
    BY <1>2, <2>1, EmptySeq DEF DequesOK, Ascending
<1>4. \A r \in Calls : call[r].entry \notin Entries
  BY CallAssumption DEF Init, IdleCall
<1>5. ASSUME NEW e \in Entries PROVE Recorded(e)
  <2>1. Admissions(e) = {}
    BY <1>4 DEF Admissions
  <2>2. [q \in {} |-> 0] \in [Admissions(e) -> 1..Len(windows[e])]
    BY <2>1
  <2> QED
    BY <2>1, <2>2 DEF Recorded
<1>6. WindowBound
  <2> SUFFICES ASSUME NEW e \in Entries, NEW t
               PROVE  Cardinality(Interval(e, t)) <= CallLimit[e[2]]
    BY DEF WindowBound, Interval
  <2>1. Interval(e, t) = {}
    BY <1>4 DEF Interval
  <2>2. Cardinality(Interval(e, t)) = 0
    BY <2>1, FS_EmptySet
  <2> QED
    BY <1>2, <2>2
<1> QED
  BY <1>3, <1>5, <1>6 DEF WindowsInv

\* A step that lets no call through, and leaves the deques alone.
LEMMA OthersKeepWindows ==
    ASSUME WindowsInv, UNCHANGED <<clock, windows, dropped>>,
           \A r \in Calls : call'[r].entry = call[r].entry /\ call'[r].admitted = call[r].admitted
    PROVE  WindowsInv'
<1>1. DequesOK'
  BY DEF WindowsInv, DequesOK
<1>2. \A e : Admissions(e)' = Admissions(e)
  BY DEF Admissions
<1>3. \A e : Recorded(e) => Recorded(e)'
  <2> SUFFICES ASSUME NEW e, Recorded(e) PROVE Recorded(e)'
    OBVIOUS
  <2>1. PICK place \in [Admissions(e) -> 1..Len(windows[e])] :
          /\ \A q, r \in Admissions(e) : place[q] = place[r] => q = r
          /\ \A r \in Admissions(e) : windows[e][place[r]] = call[r].admitted
    BY DEF Recorded
  <2>2. \A r \in Admissions(e) : call'[r].admitted = call[r].admitted
    BY DEF Admissions
  <2> QED
    BY <1>2, <2>1, <2>2 DEF Recorded
<1>4. WindowBound'
  BY DEF WindowsInv, WindowBound
<1> QED
  BY <1>1, <1>3, <1>4 DEF WindowsInv

\* Time passes: fewer calls count.
LEMMA AdvanceKeepsWindows ==
    ASSUME WindowsInv, clock \in Nat, Advance, UNCHANGED httpVars, CallsInv
    PROVE  WindowsInv'
<1>1. clock' = clock + 1 /\ Window \in Nat /\ UNCHANGED <<call, windows, dropped>>
  BY BucketAssumption DEF Advance, httpVars
<1>2. DequesOK'
  <2>1. ASSUME NEW e \in Entries, NEW i \in 1..Len(windows[e])
        PROVE  windows[e][i] <= clock + 1
    <3>1. windows[e][i] \in Nat /\ windows[e][i] <= clock
      BY ElementOfSeq DEF WindowsInv, DequesOK
    <3> QED
      BY <3>1
  <2> QED
    BY <1>1, <2>1 DEF WindowsInv, DequesOK
<1>3. ASSUME NEW e \in Entries, Recorded(e) PROVE Recorded(e)'
  <2>1. Admissions(e)' \subseteq Admissions(e)
    <3>1. \A r \in Calls : call[r].admitted \in Nat
      BY DEF CallsInv, CallRecord
    <3> QED
      BY <1>1, <3>1 DEF Admissions
  <2>2. PICK place \in [Admissions(e) -> 1..Len(windows[e])] :
          /\ \A q, r \in Admissions(e) : place[q] = place[r] => q = r
          /\ \A r \in Admissions(e) : windows[e][place[r]] = call[r].admitted
    BY <1>3 DEF Recorded
  <2> DEFINE kept == [r \in Admissions(e)' |-> place[r]]
  <2>3. kept \in [Admissions(e)' -> 1..Len(windows[e])]
    BY <2>1, <2>2
  <2>4. /\ \A q, r \in Admissions(e)' : kept[q] = kept[r] => q = r
        /\ \A r \in Admissions(e)' : windows[e][kept[r]] = call[r].admitted
    BY <2>1, <2>2
  <2> HIDE DEF kept
  <2> QED
    BY <1>1, <2>3, <2>4 DEF Recorded
<1>4. WindowBound'
  BY <1>1 DEF WindowsInv, WindowBound
<1> QED
  BY <1>1, <1>2, <1>3, <1>4 DEF WindowsInv

\* What is thrown away was counting, and is not the entry of the call.
LEMMA ClearedIsTracked ==
    ASSUME NEW e \in Entries, NEW cleared \in Cleared(e)
    PROVE  cleared \subseteq Tracked /\ e \notin cleared
<1>1. CASE e \in Tracked \/ Cardinality(Tracked) < McpMaxBuckets
  BY <1>1 DEF Cleared
<1>2. CASE ~(e \in Tracked \/ Cardinality(Tracked) < McpMaxBuckets)
  <2>1. cleared \subseteq Tracked
    BY <1>2 DEF Cleared
  <2> QED
    BY <1>2, <2>1
<1> QED
  BY <1>1, <1>2

\* A deque of the entry `e` keeps to its limit and the order of time, and every
\* call of the window has a place in it, which is not that of a call just let through.
DequeFits(e, deque, more) ==
    /\ deque \in Seq(Nat) /\ Len(deque) <= CallLimit[e[2]] /\ Ascending(deque)
    /\ \A i \in 1..Len(deque) : deque[i] <= clock
    /\ more => Len(deque) \in 1..Len(deque) /\ deque[Len(deque)] = clock
    /\ Recorded(e) =>
         \E place \in [Admissions(e) -> 1..Len(deque)] :
             /\ \A q, r \in Admissions(e) : place[q] = place[r] => q = r
             /\ \A r \in Admissions(e) : deque[place[r]] = call[r].admitted
             /\ more => \A r \in Admissions(e) : place[r] # Len(deque)

\* Taking off the outdated calls, and perhaps putting one on, leaves such a deque.
LEMMA DequeAfterCheck ==
    ASSUME CallsInv, WindowsInv, clock \in Nat, NEW e \in Entries,
           NEW deque, NEW more \in BOOLEAN,
           deque = (IF more THEN Append(Recent(windows[e]), clock) ELSE Recent(windows[e])),
           more => Len(Recent(windows[e])) < CallLimit[e[2]]
    PROVE  DequeFits(e, deque, more)
<1> DEFINE times == windows[e]
<1> DEFINE recent == Recent(times)
<1>1. /\ times \in Seq(Nat) /\ Len(times) \in Nat /\ Len(times) <= CallLimit[e[2]]
      /\ CallLimit[e[2]] \in Nat
      /\ Ascending(times)
      /\ \A i \in 1..Len(times) : times[i] \in Nat /\ times[i] <= clock
  <2>1. CallLimit[e[2]] \in Nat
    BY CallAssumption DEF Entries
  <2> QED
    BY <2>1, LenProperties, ElementOfSeq DEF WindowsInv, DequesOK
<1>2. PICK d \in 0..Len(times) :
              /\ recent \in Seq(Nat)
              /\ Len(recent) = Len(times) - d
              /\ \A i \in 1..Len(times) - d : recent[i] = times[d + i]
              /\ \A i \in 1..Len(times) : times[i] > clock - Window <=> i > d
  BY <1>1, RecentTimes
<1> DEFINE n == Len(times) - d
<1>3. n \in Nat /\ Len(recent) = n /\ \A i \in 1..n : d + i \in 1..Len(times) /\ recent[i] = times[d + i]
  BY <1>1, <1>2
<1> HIDE DEF times, recent, n
<1>4. /\ deque \in Seq(Nat)
      /\ Len(deque) = IF more THEN n + 1 ELSE n
      /\ \A i \in 1..n : deque[i] = recent[i]
      /\ more => deque[n + 1] = clock
  <2>1. CASE more
    <3>1. deque = Append(recent, clock)
      BY <2>1 DEF recent, times
    <3>2. /\ deque \in Seq(Nat)
          /\ Len(deque) = Len(recent) + 1
          /\ \A i \in 1..Len(recent) : deque[i] = recent[i]
          /\ deque[Len(recent) + 1] = clock
      <4>1. recent \in Seq(Nat) /\ clock \in Nat
        BY <1>2
      <4>2. /\ Append(recent, clock) \in Seq(Nat)
            /\ Len(Append(recent, clock)) = Len(recent) + 1
            /\ \A i \in 1..Len(recent) : Append(recent, clock)[i] = recent[i]
        BY <4>1, AppendProperties
      <4>3. Append(recent, clock)[Len(recent) + 1] = clock
        BY <4>1, AppendProperties
      <4> QED
        BY <3>1, <4>2, <4>3
    <3> QED
      BY <1>3, <2>1, <3>2
  <2>2. CASE ~ more
    BY <1>2, <1>3, <2>2 DEF recent, times
  <2> QED
    BY <2>1, <2>2
<1>5. Len(deque) \in Nat /\ Len(deque) <= CallLimit[e[2]]
  <2>1. more => n < CallLimit[e[2]]
    BY <1>3 DEF recent, times
  <2>2. n <= Len(times)
    BY <1>1, <1>2 DEF n
  <2> QED
    BY <1>1, <1>3, <1>4, <2>1, <2>2
<1>6. \A i \in 1..Len(deque) : \/ i \in 1..n /\ deque[i] = times[d + i]
                               \/ more /\ i = n + 1 /\ deque[i] = clock
  BY <1>3, <1>4
<1>7. \A i \in 1..Len(deque) : deque[i] <= clock
  <2> TAKE i \in 1..Len(deque)
  <2>1. CASE i \in 1..n /\ deque[i] = times[d + i]
    BY <1>1, <1>3, <2>1
  <2>2. CASE deque[i] = clock
    BY <2>2
  <2> QED
    BY <1>6, <2>1, <2>2
<1>8. Ascending(deque)
  <2> SUFFICES ASSUME NEW i \in 1..Len(deque), NEW j \in 1..Len(deque), i <= j
               PROVE  deque[i] <= deque[j]
    BY DEF Ascending
  <2>1. CASE j \in 1..n
    <3>1. i \in 1..n /\ d + i <= d + j
      BY <1>2, <1>3, <2>1
    <3>2. times[d + i] <= times[d + j]
      BY <1>1, <1>3, <2>1, <3>1 DEF Ascending
    <3>3. deque[i] = times[d + i] /\ deque[j] = times[d + j]
      BY <1>3, <1>4, <2>1, <3>1
    <3> QED
      BY <3>2, <3>3
  <2>2. CASE j \notin 1..n
    BY <1>6, <1>7, <2>2
  <2> QED
    BY <2>1, <2>2
<1>9. ASSUME Recorded(e)
      PROVE  \E place \in [Admissions(e) -> 1..Len(deque)] :
                    /\ \A q, r \in Admissions(e) : place[q] = place[r] => q = r
                    /\ \A r \in Admissions(e) : deque[place[r]] = call[r].admitted
                    /\ more => \A r \in Admissions(e) : place[r] # Len(deque)
  <2>1. PICK place \in [Admissions(e) -> 1..Len(times)] :
          /\ \A q, r \in Admissions(e) : place[q] = place[r] => q = r
          /\ \A r \in Admissions(e) : times[place[r]] = call[r].admitted
    BY <1>9 DEF Recorded, times
  <2>2. ASSUME NEW r \in Admissions(e) PROVE place[r] - d \in 1..n
    <3>1. place[r] \in 1..Len(times) /\ times[place[r]] > clock - Window
      BY <2>1 DEF Admissions
    <3> QED
      BY <1>1, <1>2, <3>1, SMTT(30) DEF n
  <2> DEFINE moved == [r \in Admissions(e) |-> place[r] - d]
  <2>3. moved \in [Admissions(e) -> 1..Len(deque)]
    <3>1. \A i \in 1..n : i \in 1..Len(deque)
      BY <1>3, <1>4
    <3> QED
      BY <2>2, <3>1
  <2>4. ASSUME NEW q \in Admissions(e), NEW r \in Admissions(e), moved[q] = moved[r]
        PROVE  q = r
    <3>1. place[q] \in Int /\ place[r] \in Int /\ d \in Int
      BY <1>1, <2>1
    <3>2. place[q] = place[r]
      BY <2>4, <3>1
    <3> QED
      BY <2>1, <3>2
  <2>5. ASSUME NEW r \in Admissions(e)
        PROVE  deque[moved[r]] = call[r].admitted /\ (more => moved[r] # Len(deque))
    <3>1. PICK i \in 1..n : i = moved[r]
      BY <2>2
    <3>2. d + i = place[r]
      <4>1. place[r] \in Int /\ d \in Int /\ i = place[r] - d
        BY <1>1, <2>1, <3>1
      <4> QED
        BY <4>1
    <3>3. deque[i] = times[d + i]
      BY <1>3, <1>4
    <3> QED
      BY <1>3, <1>4, <2>1, <3>1, <3>2, <3>3, SMTT(30)
  <2> HIDE DEF moved
  <2> QED
    BY <2>3, <2>4, <2>5
<1>10. more => Len(deque) \in 1..Len(deque) /\ deque[Len(deque)] = clock
  BY <1>3, <1>4
<1> QED
  BY <1>4, <1>5, <1>7, <1>8, <1>9, <1>10 DEF DequeFits

\* The end of a body.
LEMMA FinishKeepsWindows ==
    ASSUME CallsInv, WindowsInv, clock \in Nat, NEW r \in Calls, FinishBody(r)
    PROVE  WindowsInv'
<1>1. /\ StepOf(r) /\ call[r].id \in Ids /\ call[r].entry = None
      /\ clock' = clock
  BY FinishStep DEF FinishBody
<1>2. PICK e \in Entries : \E cleared \in Cleared(e) : \E more \in BOOLEAN :
          Counted(r, e, cleared, more)
  BY FinishStep
<1>3. PICK cleared \in Cleared(e) : \E more \in BOOLEAN : Counted(r, e, cleared, more)
  BY <1>2
<1>4. PICK more \in BOOLEAN : Counted(r, e, cleared, more)
  BY <1>3
<1>5. /\ dropped' = dropped \cup {f \in cleared : LastCall(f) > clock - Window}
      /\ more => Len(Recent(windows[e])) < CallLimit[e[2]]
      /\ windows'[e] = IF more THEN Append(Recent(windows[e]), clock) ELSE Recent(windows[e])
      /\ IF more THEN call'[r].entry = e /\ call'[r].admitted = clock ELSE KeepsEntry(r)
  BY <1>4 DEF Counted
<1>6. /\ windows' = [f \in Entries |-> windows'[f]]
      /\ \A f \in Entries : f # e => windows'[f] = IF f \in cleared THEN <<>> ELSE windows[f]
  BY <1>4 DEF Counted
<1> DEFINE deque == windows'[e]
<1>7. /\ deque \in Seq(Nat) /\ Len(deque) <= CallLimit[e[2]] /\ Ascending(deque)
      /\ \A i \in 1..Len(deque) : deque[i] <= clock
      /\ more => Len(deque) \in 1..Len(deque) /\ deque[Len(deque)] = clock
      /\ Recorded(e) =>
           \E place \in [Admissions(e) -> 1..Len(deque)] :
               /\ \A p, q \in Admissions(e) : place[p] = place[q] => p = q
               /\ \A q \in Admissions(e) : deque[place[q]] = call[q].admitted
               /\ more => \A q \in Admissions(e) : place[q] # Len(deque)
  <2>1. PICK d : d = deque
    OBVIOUS
  <2>2. d = IF more THEN Append(Recent(windows[e]), clock) ELSE Recent(windows[e])
    BY <1>5, <2>1
  <2>3. more => Len(Recent(windows[e])) < CallLimit[e[2]]
    BY <1>5
  <2> HIDE DEF deque
  <2>4. DequeFits(e, d, more)
    BY <2>2, <2>3, DequeAfterCheck
  <2> QED
    BY <2>1, <2>4 DEF DequeFits
<1>8. cleared \subseteq Tracked /\ e \notin cleared
  BY ClearedIsTracked
<1>9. \A f \in Entries : CallLimit[f[2]] \in Nat
  BY CallAssumption DEF Entries
<1>10. DequesOK'
  <2>1. ASSUME NEW f \in Entries
        PROVE  /\ windows'[f] \in Seq(Nat) /\ Len(windows'[f]) <= CallLimit[f[2]]
               /\ Ascending(windows'[f])
               /\ \A i \in 1..Len(windows'[f]) : windows'[f][i] <= clock
    <3>1. CASE f = e
      BY <1>7, <3>1
    <3>2. CASE f # e /\ f \in cleared
      <4>1. windows'[f] = <<>>
        BY <1>6, <3>2
      <4>2. <<>> \in Seq(Nat) /\ Len(<<>>) = 0 /\ CallLimit[f[2]] \in Nat
        BY <1>9, EmptySeq
      <4> QED
        BY <4>1, <4>2 DEF Ascending
    <3>3. CASE f # e /\ f \notin cleared
      BY <1>6, <3>3 DEF WindowsInv, DequesOK
    <3> QED
      BY <3>1, <3>2, <3>3
  <2> QED
    BY <1>1, <1>6, <2>1 DEF DequesOK, Ascending
<1>11. \A q \in Calls : q # r => call'[q] = call[q]
  BY <1>1 DEF StepOf
<1>12. r \notin Admissions(e) /\ \A f \in Entries : call[r].entry # f
  BY <1>1, CallAssumption DEF Admissions
<1>13. ASSUME NEW f \in Entries, f # e \/ ~more
       PROVE  Admissions(f)' = Admissions(f) /\ \A t : Interval(f, t)' = Interval(f, t)
  <2>1. call'[r].entry # f /\ call[r].entry # f
    BY <1>5, <1>12, <1>13 DEF KeepsEntry
  <2> QED
    BY <1>1, <1>11, <2>1 DEF Admissions, Interval
<1>14. ASSUME more
       PROVE  /\ Admissions(e)' \subseteq Admissions(e) \cup {r}
              /\ Admissions(e) \subseteq Admissions(e)'
              /\ \A t \in Int : t < clock => Interval(e, t)' = Interval(e, t)
  <2>1. call'[r].entry = e /\ call'[r].admitted = clock
    BY <1>5, <1>14
  <2>2. ASSUME NEW t \in Int, t < clock PROVE Interval(e, t)' = Interval(e, t)
    <3>1. r \notin Interval(e, t) /\ r \notin Interval(e, t)'
      BY <1>12, <2>1, <2>2 DEF Interval
    <3> QED
      BY <1>11, <3>1 DEF Interval
  <2>3. Admissions(e)' \subseteq Admissions(e) \cup {r} /\ Admissions(e) \subseteq Admissions(e)'
    BY <1>1, <1>11, <1>12 DEF Admissions
  <2> QED
    BY <2>2, <2>3
<1>15. ASSUME NEW f \in Entries \ dropped' PROVE f \notin dropped /\ Recorded(f)
  BY <1>5, <1>15 DEF WindowsInv
<1>16. ASSUME NEW f \in Entries \ dropped' PROVE Recorded(f)'
  <2>1. CASE f # e /\ f \notin cleared
    <3>1. PICK place \in [Admissions(f) -> 1..Len(windows[f])] :
            /\ \A p, q \in Admissions(f) : place[p] = place[q] => p = q
            /\ \A q \in Admissions(f) : windows[f][place[q]] = call[q].admitted
      BY <1>15 DEF Recorded
    <3>2. Admissions(f)' = Admissions(f) /\ windows'[f] = windows[f]
      BY <1>6, <1>13, <2>1
    <3>3. \A q \in Admissions(f) : call'[q].admitted = call[q].admitted
      BY <1>11, <1>12 DEF Admissions
    <3> QED
      BY <3>1, <3>2, <3>3 DEF Recorded
  <2>2. CASE f # e /\ f \in cleared
    <3>1. LastCall(f) <= clock - Window /\ windows[f] # <<>>
      <4>1. ~(LastCall(f) > clock - Window)
        BY <1>5, <1>16, <2>2
      <4>2. windows[f] \in Seq(Nat) /\ windows[f] # <<>>
        BY <1>8, <2>2 DEF Tracked, WindowsInv, DequesOK
      <4>3. LastCall(f) \in Nat
        BY <4>2, EmptySeq, ElementOfSeq DEF LastCall
      <4>4. clock - Window \in Int
        BY BucketAssumption
      <4> QED
        BY <4>1, <4>2, <4>3, <4>4
    <3>2. Admissions(f) = {}
      <4> SUFFICES ASSUME NEW q \in Admissions(f) PROVE FALSE
        OBVIOUS
      <4>1. PICK i \in 1..Len(windows[f]) : windows[f][i] = call[q].admitted
        BY <1>15 DEF Recorded
      <4>2. Len(windows[f]) \in Nat /\ windows[f][i] \in Nat /\ LastCall(f) \in Nat
        BY <3>1, LenProperties, ElementOfSeq DEF WindowsInv, DequesOK, LastCall
      <4>3. windows[f][i] <= LastCall(f)
        BY <4>2 DEF WindowsInv, DequesOK, Ascending, LastCall
      <4>4. call[q].admitted > clock - Window /\ clock - Window \in Int
        BY BucketAssumption DEF Admissions
      <4> QED
        BY <3>1, <4>1, <4>2, <4>3, <4>4
    <3>3. Admissions(f)' = {}
      BY <1>13, <2>2, <3>2
    <3>4. [q \in {} |-> 0] \in [Admissions(f)' -> 1..Len(windows'[f])]
      BY <3>3
    <3> QED
      BY <3>3, <3>4 DEF Recorded
  <2>3. CASE f = e
    <3>1. PICK place \in [Admissions(e) -> 1..Len(deque)] :
               /\ \A p, q \in Admissions(e) : place[p] = place[q] => p = q
               /\ \A q \in Admissions(e) : deque[place[q]] = call[q].admitted
               /\ more => \A q \in Admissions(e) : place[q] # Len(deque)
      BY <1>7, <1>15, <2>3
    <3>2. \A q \in Admissions(e) : call'[q].admitted = call[q].admitted
      BY <1>11, <1>12 DEF Admissions
    <3>3. CASE ~more
      BY <1>13, <2>3, <3>1, <3>2, <3>3 DEF Recorded
    <3>4. CASE more
      <4> DEFINE places == [q \in Admissions(e)' |-> IF q = r THEN Len(deque) ELSE place[q]]
      <4> HIDE DEF deque
      <4>1. places \in [Admissions(e)' -> 1..Len(deque)]
        BY <1>7, <1>14, <3>1, <3>4
      <4>2. ASSUME NEW p \in Admissions(e)', NEW q \in Admissions(e)', places[p] = places[q]
            PROVE  p = q
        BY <1>12, <1>14, <3>1, <3>4, <4>2
      <4>3. ASSUME NEW q \in Admissions(e)'
            PROVE  deque[places[q]] = call'[q].admitted
        <5>1. CASE q = r
          BY <1>5, <1>7, <3>4, <5>1
        <5>2. CASE q # r
          BY <1>14, <3>1, <3>2, <3>4, <5>2
        <5> QED
          BY <5>1, <5>2
      <4> HIDE DEF places
      <4> QED
        BY <2>3, <4>1, <4>2, <4>3 DEF Recorded, deque
    <3> QED
      BY <3>3, <3>4
  <2> QED
    BY <2>1, <2>2, <2>3
<1>17. ASSUME NEW f \in Entries \ dropped', NEW t \in 0..MaxClock
       PROVE  Cardinality(Interval(f, t)') <= CallLimit[f[2]]
  <2>1. Cardinality(Interval(f, t)) <= CallLimit[f[2]]
    BY <1>15 DEF WindowsInv, WindowBound, Interval
  <2>2. CASE f # e \/ ~more \/ t < clock
    BY <1>13, <1>14, <2>1, <2>2
  <2>3. CASE f = e /\ more /\ ~(t < clock)
    <3>1. PICK place \in [Admissions(e)' -> 1..Len(deque)] :
            \A p, q \in Admissions(e)' : place[p] = place[q] => p = q
      BY <1>16, <2>3 DEF Recorded
    <3>2. Interval(e, t)' \in SUBSET (Admissions(e)')
      <4>1. ASSUME NEW q \in Interval(e, t)' PROVE q \in Admissions(e)'
        <5>1. /\ q \in Calls /\ call'[q].entry = e
              /\ call'[q].admitted \in (t - Window + 1)..t
          BY <4>1 DEF Interval
        <5>2. Window \in Nat
          BY BucketAssumption
        <5>3. call'[q].admitted > clock - Window
          BY <2>3, <5>1, <5>2
        <5> QED
          BY <1>1, <5>1, <5>3 DEF Admissions
      <4> QED
        BY <4>1
    <3>3. Len(deque) \in Nat
      BY <1>7, LenProperties
    <3>4. Cardinality(Interval(e, t)') <= Len(deque) /\ Cardinality(Interval(e, t)') \in Nat
      BY <3>1, <3>2, <3>3, NumberedAtMost
    <3> QED
      BY <1>7, <1>9, <2>3, <3>3, <3>4
  <2> QED
    BY <2>2, <2>3
<1>18. WindowBound'
  <2>1. \A f \in Entries : \A t : Interval(f, t)' =
          {q \in Calls : call'[q].entry = f /\ call'[q].admitted \in (t - Window + 1)..t}
    BY DEF Interval
  <2> QED
    BY <1>17, <2>1 DEF WindowBound
<1> QED
  BY <1>10, <1>16, <1>18 DEF WindowsInv

-----------------------------------------------------------------------------
(***************************************************************************)
(* All of it                                                               *)
(***************************************************************************)

HttpInv ==
    BucketsInv /\ PrincipalsInv /\ CallsInv /\ ReadersInv /\ WindowsInv /\ UseIsCurrent

\* The whole invariant at the start.
LEMMA InitialHttp == Init => HttpInv
BY InitialBuckets, InitialPrincipals, InitialCalls, InitialReaders, InitialWindows, InitialUses
DEF HttpInv

\* Every step keeps the whole invariant, action by action.
LEMMA StepsKeepHttp == HttpInv /\ [Next]_vars => HttpInv'
<1> SUFFICES ASSUME HttpInv, [Next]_vars PROVE HttpInv'
  OBVIOUS
<1>0. /\ PrincipalsInv /\ CallsInv /\ ReadersInv /\ WindowsInv /\ UseIsCurrent
      /\ clock \in Nat /\ issued \in 0..MaxTokens
  BY DEF HttpInv, BucketsInv, IInv, BucketTypeOK, PrincipalsInv, PrincipalTypeOK
<1>1. BucketsInv'
  BY StepsKeepBuckets DEF HttpInv
<1> SUFFICES PrincipalsInv' /\ CallsInv' /\ ReadersInv' /\ WindowsInv' /\ UseIsCurrent'
  BY <1>1 DEF HttpInv
<1>2. ASSUME UNCHANGED principalVars PROVE PrincipalsInv'
  BY <1>0, <1>2 DEF principalVars, PrincipalsInv, PrincipalTypeOK, AdminOK, TokensOK
<1>3. ASSUME UNCHANGED <<call, readers>> PROVE CallsInv' /\ ReadersInv'
  BY <1>0, <1>3, NoReaderMoved DEF CallsInv
<1>4. ASSUME UNCHANGED <<call, principals>> PROVE UseIsCurrent'
  BY <1>0, <1>4 DEF UseIsCurrent
<1>5. ASSUME UNCHANGED <<clock, httpVars>> PROVE WindowsInv'
  BY <1>0, <1>5, OthersKeepWindows DEF httpVars
<1>6. ASSUME NEW r \in Calls, StepOf(r), KeepsEntry(r), UNCHANGED <<clock, windows, dropped>>
      PROVE  WindowsInv'
  <2>1. \A q \in Calls : call'[q].entry = call[q].entry /\ call'[q].admitted = call[q].admitted
    BY <1>6 DEF StepOf, KeepsEntry
  <2> QED
    BY <1>0, <1>6, <2>1, OthersKeepWindows
<1>7. CASE UNCHANGED vars
  BY <1>2, <1>3, <1>4, <1>5, <1>7 DEF vars, principalVars, httpVars
<1>8. CASE Advance /\ UNCHANGED <<principalVars, bucketVars, httpVars, arrived>>
  BY <1>0, <1>2, <1>3, <1>4, <1>8, AdvanceKeepsWindows DEF principalVars, httpVars
<1>9. CASE BeginAdminister \/ Administer
  <2>1. UNCHANGED <<clock, httpVars>>
    BY <1>9 DEF BeginAdminister, Administer, BeginCreate, BeginChange, Create, Rotate, Revoke,
                RefuseChange
  <2>2. PrincipalsInv' /\ UseIsCurrent'
    BY <1>0, <1>9, AdministrationKeepsPrincipals, AdministrationKeepsUses
  <2> QED
    BY <1>3, <1>5, <2>1, <2>2 DEF httpVars
<1>10. CASE \E k \in Keys : BrowserRequest(k)
  BY <1>2, <1>3, <1>4, <1>5, <1>10 DEF BrowserRequest, principalVars, httpVars
<1>11. ASSUME NEW r \in Calls, Arrive(r)
       PROVE  PrincipalsInv' /\ CallsInv' /\ ReadersInv' /\ WindowsInv' /\ UseIsCurrent'
  <2>1. StepOf(r) /\ KeepsEntry(r) /\ call[r].stage = "idle" /\ call'[r].stage = "authenticating"
    BY <1>0, <1>11, ArriveStep
  <2>2. UNCHANGED <<clock, principalVars, readers, windows, dropped>>
    BY <1>11 DEF Arrive
  <2>3. ReadersInv'
    BY <1>0, <2>1, <2>2, NoReaderMoved DEF StepOf
  <2>4. UseIsCurrent'
    BY <1>0, <2>1, <2>2, OtherCallsKeepUses DEF Done, principalVars
  <2> QED
    BY <1>2, <1>6, <2>1, <2>2, <2>3, <2>4 DEF StepOf
<1>12. ASSUME NEW r \in Calls, Authenticate(r)
       PROVE  PrincipalsInv' /\ CallsInv' /\ ReadersInv' /\ WindowsInv' /\ UseIsCurrent'
  <2>1. /\ StepOf(r) /\ KeepsEntry(r) /\ call[r].stage = "authenticating"
        /\ \/ call'[r].stage = "refused" /\ UNCHANGED readers
           \/ \E id \in Ids :
                 /\ call'[r].stage = "reading" /\ call'[r].id = id
                 /\ readers[id] < MaxReaders
                 /\ readers' = [readers EXCEPT ![id] = @ + 1]
    BY <1>0, <1>12, AuthenticateStep
  <2>2. UNCHANGED <<clock, principalVars, windows, dropped>>
    BY <1>12 DEF Authenticate
  <2>3. ReadersInv'
    <3>1. CASE call'[r].stage = "refused" /\ UNCHANGED readers
      BY <1>0, <2>1, <3>1, NoReaderMoved DEF StepOf
    <3>2. CASE ~(call'[r].stage = "refused" /\ UNCHANGED readers)
      BY <1>0, <2>1, <3>2, OneReaderMore
    <3> QED
      BY <3>1, <3>2
  <2>4. UseIsCurrent'
    BY <1>0, <2>1, <2>2, OtherCallsKeepUses DEF Done, principalVars
  <2> QED
    BY <1>2, <1>6, <2>1, <2>2, <2>3, <2>4 DEF StepOf
<1>13. ASSUME NEW r \in Calls, AbandonBody(r)
       PROVE  PrincipalsInv' /\ CallsInv' /\ ReadersInv' /\ WindowsInv' /\ UseIsCurrent'
  <2>1. /\ StepOf(r) /\ KeepsEntry(r) /\ call[r].stage = "reading" /\ call[r].id \in Ids
        /\ call'[r].stage = "refused"
    BY <1>0, <1>13, AbandonStep
  <2>2. UNCHANGED <<clock, principalVars, windows, dropped>> /\ Release(call[r].id)
    BY <1>13 DEF AbandonBody
  <2>3. ReadersInv'
    BY <1>0, <2>1, <2>2, OneReaderLess
  <2>4. UseIsCurrent'
    BY <1>0, <2>1, <2>2, OtherCallsKeepUses DEF Done, principalVars
  <2> QED
    BY <1>2, <1>6, <2>1, <2>2, <2>3, <2>4 DEF StepOf
<1>14. ASSUME NEW r \in Calls, FinishBody(r)
       PROVE  PrincipalsInv' /\ CallsInv' /\ ReadersInv' /\ WindowsInv' /\ UseIsCurrent'
  <2>1. /\ StepOf(r) /\ call[r].stage = "reading" /\ call[r].id \in Ids
        /\ call'[r].stage \in {"recording", "refused"}
    BY <1>0, <1>14, FinishStep
  <2>2. UNCHANGED principalVars /\ Release(call[r].id)
    BY <1>14 DEF FinishBody
  <2>3. ReadersInv'
    BY <1>0, <2>1, <2>2, OneReaderLess
  <2>4. UseIsCurrent'
    BY <1>0, <2>1, <2>2, OtherCallsKeepUses DEF Done, principalVars
  <2>5. WindowsInv'
    BY <1>0, <1>14, FinishKeepsWindows
  <2> QED
    BY <1>2, <2>1, <2>2, <2>3, <2>4, <2>5 DEF StepOf
<1>15. ASSUME NEW r \in Calls, RecordUsage(r)
       PROVE  PrincipalsInv' /\ CallsInv' /\ ReadersInv' /\ WindowsInv' /\ UseIsCurrent'
  <2>1. /\ StepOf(r) /\ KeepsEntry(r) /\ call[r].stage = "recording"
        /\ call'[r].stage \in {"refused", "running"}
    BY <1>0, <1>15, RecordUsageStep
  <2>2. /\ UNCHANGED <<clock, issued, admin, withdrawn, readers, windows, dropped>>
        /\ Stamp(call[r].token, call[r].now) /\ call[r].now \in Nat
    BY <1>0, <1>15 DEF RecordUsage, CallsInv, CallRecord
  <2>3. ReadersInv'
    BY <1>0, <2>1, <2>2, NoReaderMoved DEF StepOf
  <2>4. PrincipalsInv'
    BY <1>0, <2>2, StampKeepsPrincipals
  <2>5. UseIsCurrent'
    BY <1>0, <1>15, RecordsKeepUses
  <2> QED
    BY <1>6, <2>1, <2>2, <2>3, <2>4, <2>5 DEF StepOf
<1>16. ASSUME NEW r \in Calls, RunTool(r)
       PROVE  PrincipalsInv' /\ CallsInv' /\ ReadersInv' /\ WindowsInv' /\ UseIsCurrent'
  <2>1. /\ StepOf(r) /\ KeepsEntry(r) /\ call[r].stage = "running"
        /\ call'[r].stage \in {"ran", "failed"}
    BY <1>0, <1>16, RunToolStep
  <2>2. UNCHANGED <<clock, principalVars, readers, windows, dropped>>
    BY <1>16 DEF RunTool
  <2>3. ReadersInv'
    BY <1>0, <2>1, <2>2, NoReaderMoved DEF StepOf
  <2>4. UseIsCurrent'
    BY <1>0, <1>16, RunsKeepUses
  <2> QED
    BY <1>2, <1>6, <2>1, <2>2, <2>3, <2>4 DEF StepOf
<1> QED
  BY <1>7, <1>8, <1>9, <1>10, <1>11, <1>12, <1>13, <1>14, <1>15, <1>16 DEF Next, Serve

\* What the invariant says of the properties.
LEMMA HttpInvSafe ==
    HttpInv => /\ TypeOK /\ RateBound /\ RetryIsHonest /\ WindowBound /\ ReadersAccounted
               /\ UseIsCurrent
<1> SUFFICES ASSUME HttpInv
             PROVE  /\ TypeOK /\ RateBound /\ RetryIsHonest /\ WindowBound
                    /\ ReadersAccounted /\ UseIsCurrent
  OBVIOUS
<1>1. RateBound /\ RetryIsHonest
  BY BooksBound, PromiseKept DEF HttpInv, BucketsInv
<1>2. ReadersAccounted
  BY CountedReaders DEF HttpInv
<1>3. TypeOK
  BY DEF HttpInv, BucketsInv, IInv, TableInv, PrincipalsInv, CallsInv, ReadersInv, WindowsInv,
         DequesOK, TypeOK
<1> QED
  BY <1>1, <1>2, <1>3 DEF HttpInv, WindowsInv

\* Buckets, principals, calls, readers and windows, as they are at any moment.
THEOREM CallsInvariant == Spec => []HttpInv
BY InitialHttp, StepsKeepHttp, PTL DEF Spec

\* The types of the state, with both limiters within their bounds.
THEOREM CallsTypeCorrect == Spec => []TypeOK
BY CallsInvariant, HttpInvSafe, PTL

\* The requests of all agents together are rate limited as one browser's are,
\* and told honestly when to try again.
THEOREM AgentsAreLimited == Spec => [](RateBound /\ RetryIsHonest)
BY CallsInvariant, HttpInvSafe, PTL

\* In any sixty seconds no more calls of a principal and category are let
\* through than its limit, unless the limiter threw its entry away.
THEOREM WindowsAreBounded == Spec => []WindowBound
BY CallsInvariant, HttpInvSafe, PTL

\* No way a call can end leaves a reader behind, or takes away another's.
THEOREM ReadersAreReleased == Spec => []ReadersAccounted
BY CallsInvariant, HttpInvSafe, PTL

\* A use is recorded for the token the principal has, and a call whose token
\* was withdrawn while its body came in does not reach the application.
THEOREM OnlyCurrentTokensAreUsed == Spec => []UseIsCurrent
BY CallsInvariant, HttpInvSafe, PTL
=============================================================================
