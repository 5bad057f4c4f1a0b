---------------------------- MODULE DataLocksProofs ----------------------------
(***************************************************************************)
(* For any number of requests, hands, stripes, processes and threads: the  *)
(* data lock keeps exports and requests that change data apart, and the    *)
(* locks of the handlers serialize the writers of a hand, show the lists   *)
(* whole batches and keep the membership of the corpus still while it is   *)
(* read (not the labels: an approval holds the stripe of its hand only).   *)
(*                                                                         *)
(* The first part is about the flock alone.  The second part follows the   *)
(* locks of a section: no lock is held twice, what a request has still to  *)
(* run is what its plan ends with, and every plan of a handler takes the   *)
(* lock that guards what its section touches; the stripes of a batch are   *)
(* all among the sorted ones.                                              *)
(*                                                                         *)
(* The third part shows that somebody can always go on, since all plans    *)
(* take their locks in one order and the pools wait for handlers only.     *)
(***************************************************************************)
EXTENDS DataLocks, TLAPS, FiniteSetTheorems, FunctionTheorems, SequenceTheorems

Started == {"granted", "admitted", "running", "inside"}

StagesOK == stage \in [Requests -> Stages]

FlocksOK == flock \in [Requests -> Sides]

\* From the grant to its end a request has its side of the data lock.
SidesHeld ==
    \A r \in Requests : stage[r] \in Started => flock[r] = Side(request[r].kind)

\* Who holds the exclusive side is alone.
ExclusiveIsAlone ==
    \A r, s \in Requests : r # s /\ flock[r] = "exclusive" => flock[s] = "none"

FlockInv == StagesOK /\ FlocksOK /\ SidesHeld /\ ExclusiveIsAlone

\* Exports take the exclusive side of the data lock, changes the shared one.
LEMMA SidesOfKinds ==
    /\ \A kind : Side(kind) \in Sides
    /\ \A kind \in Exporting : Side(kind) = "exclusive"
    /\ \A kind \in Changing : Side(kind) = "shared"
BY DEF Side, Sides, Exporting, Changing, OwnProcess

\* At the start nobody has passed the data lock.
LEMMA InitEstablishesFlockInv == Init => FlockInv
<1> SUFFICES ASSUME Init PROVE FlockInv
  OBVIOUS
<1>1. \A kind : FirstGate(kind) \in Stages
  BY DEF FirstGate, Stages
<1>2. StagesOK
  BY <1>1 DEF Init, StagesOK
<1>3. FlocksOK
  BY DEF Init, FlocksOK, Sides
<1>4. \A kind : FirstGate(kind) \in Started => Side(kind) = "none"
  BY DEF FirstGate, Started
<1>5. SidesHeld
  BY <1>4 DEF Init, SidesHeld
<1>6. ExclusiveIsAlone
  BY DEF Init, ExclusiveIsAlone
<1> QED
  BY <1>2, <1>3, <1>5, <1>6 DEF FlockInv

\* A step that moves a request on, and leaves the data lock as it is.
LEMMA MovesKeepFlockInv ==
    ASSUME FlockInv, NEW r \in Requests, NEW gate \in Stages,
           GoTo(r, gate), UNCHANGED <<request, flock>>,
           gate \in Started => stage[r] \in Started
    PROVE  FlockInv'
<1>1. StagesOK'
  BY DEF FlockInv, StagesOK, GoTo
<1>2. SidesHeld'
  BY DEF FlockInv, StagesOK, SidesHeld, GoTo
<1>3. FlocksOK' /\ ExclusiveIsAlone'
  BY DEF FlockInv, FlocksOK, ExclusiveIsAlone
<1> QED
  BY <1>1, <1>2, <1>3 DEF FlockInv

\* A step that ends a request and releases its descriptor.
LEMMA ReleasesKeepFlockInv ==
    ASSUME FlockInv, NEW r \in Requests, GoTo(r, "ended"),
           flock' = [flock EXCEPT ![r] = "none"], UNCHANGED request
    PROVE  FlockInv'
<1>1. StagesOK'
  BY DEF FlockInv, StagesOK, GoTo, Stages
<1>2. FlocksOK'
  BY DEF FlockInv, FlocksOK, Sides
<1>3. SidesHeld'
  BY DEF FlockInv, StagesOK, FlocksOK, SidesHeld, GoTo, Started
<1>4. ExclusiveIsAlone'
  BY DEF FlockInv, FlocksOK, ExclusiveIsAlone
<1> QED
  BY <1>1, <1>2, <1>3, <1>4 DEF FlockInv

\* flock grants a side only if it agrees with the sides that others hold.
LEMMA GrantsKeepFlockInv ==
    ASSUME FlockInv, NEW r \in Requests, GetFlock(r)
    PROVE  FlockInv'
<1>1. PICK side \in Sides : side = Side(request[r].kind)
  BY SidesOfKinds
<1>2. /\ Grantable(side)
      /\ flock' = [flock EXCEPT ![r] = side]
      /\ stage' = [stage EXCEPT ![r] = "granted"]
      /\ request' = request
  BY <1>1 DEF GetFlock, GoTo
<1>3. StagesOK'
  BY <1>2 DEF FlockInv, StagesOK, Stages
<1>4. FlocksOK'
  BY <1>2 DEF FlockInv, FlocksOK
<1>5. SidesHeld'
  BY <1>1, <1>2 DEF FlockInv, StagesOK, FlocksOK, SidesHeld
<1>6. \A s \in Requests : flock[s] # "none" => flock[s] = "shared" /\ side = "shared"
  BY <1>2 DEF Grantable
<1>7. ExclusiveIsAlone'
  BY <1>2, <1>6 DEF FlockInv, FlocksOK, ExclusiveIsAlone
<1> QED
  BY <1>3, <1>4, <1>5, <1>7 DEF FlockInv

\* Every step keeps the invariant of the data lock, action by action.
LEMMA NextKeepsFlockInv == FlockInv /\ [Next]_vars => FlockInv'
<1> SUFFICES ASSUME FlockInv, [Next]_vars PROVE FlockInv'
  OBVIOUS
<1>1. CASE UNCHANGED vars
  BY <1>1 DEF vars, FlockInv, StagesOK, FlocksOK, SidesHeld, ExclusiveIsAlone
<1>2. CASE Next
  <2> PICK r \in Requests : Work(r) \/ Cancel(r)
    BY <1>2 DEF Next
  <2>1. CASE EnterFlock(r)
    BY <2>1, MovesKeepFlockInv DEF EnterFlock, Stages, Started
  <2>2. CASE GetFlock(r)
    BY <2>2, GrantsKeepFlockInv
  <2>3. CASE Cancel(r)
    BY <2>3 DEF Cancel, FlockInv, StagesOK, FlocksOK, SidesHeld, ExclusiveIsAlone
  <2>4. CASE ReleaseOrphan(r)
    BY <2>4, ReleasesKeepFlockInv DEF ReleaseOrphan
  <2>5. CASE Admit(r)
    BY <2>5, MovesKeepFlockInv DEF Admit, Stages, Started
  <2>6. CASE StartHandler(r)
    BY <2>6, MovesKeepFlockInv DEF StartHandler, Stages, Started
  <2>7. CASE TakeLock(r)
    BY <2>7 DEF TakeLock, FlockInv, StagesOK, FlocksOK, SidesHeld, ExclusiveIsAlone
  <2>8. CASE BeginSection(r)
    BY <2>8, MovesKeepFlockInv DEF BeginSection, Stages, Started
  <2>9. CASE EndSection(r)
    BY <2>9, MovesKeepFlockInv DEF EndSection, Stages, Started
  <2>10. CASE Finish(r)
    BY <2>10, ReleasesKeepFlockInv DEF Finish
  <2> QED
    BY <2>1, <2>2, <2>3, <2>4, <2>5, <2>6, <2>7, <2>8, <2>9, <2>10 DEF Work
<1> QED
  BY <1>1, <1>2 DEF Next

\* What the invariant says of exports and changes.
LEMMA FlockInvExcludes == FlockInv => ExportsSeeWholeRequests
<1> SUFFICES ASSUME FlockInv,
                    NEW r \in Requests, NEW s \in Requests, r # s,
                    IsFor(r, Exporting), InHandler(r), InHandler(s),
                    IsFor(s, Changing \cup Exporting)
             PROVE  FALSE
  BY DEF ExportsSeeWholeRequests
<1>1. flock[r] = "exclusive"
  BY SidesOfKinds DEF FlockInv, SidesHeld, Started, InHandler, IsFor
<1>2. flock[s] \in {"shared", "exclusive"}
  BY SidesOfKinds DEF FlockInv, SidesHeld, Started, InHandler, IsFor
<1> QED
  BY <1>1, <1>2 DEF FlockInv, ExclusiveIsAlone

\* While a browser or CLI export reads, no request that changes data, of this
\* process or another, is anywhere between the start and the end of its
\* handler, and no other export runs.
THEOREM ExportsExcludeChanges == Spec => []ExportsSeeWholeRequests
<1>1. Init => FlockInv
  BY InitEstablishesFlockInv
<1>2. FlockInv /\ [Next]_vars => FlockInv'
  BY NextKeepsFlockInv
<1>3. FlockInv => ExportsSeeWholeRequests
  BY FlockInvExcludes
<1> QED
  BY <1>1, <1>2, <1>3, PTL DEF Spec

-----------------------------------------------------------------------------
(***************************************************************************)
(* The locks of the handlers                                               *)
(***************************************************************************)

\* The numbers of a finite set can be put in ascending order.
LEMMA AscendingExists ==
    ASSUME NEW S, S \subseteq Nat, IsFiniteSet(S)
    PROVE  \E s \in [1 .. Cardinality(S) -> S] : \A m, n \in DOMAIN s : m < n => s[m] < s[n]
<1> DEFINE Orders(T) ==
        {s \in [1 .. Cardinality(T) -> T] : \A m, n \in DOMAIN s : m < n => s[m] < s[n]}
<1> DEFINE Bad == {T \in FiniteSubsetsOf(Nat) : Orders(T) = {}}
<1> SUFFICES ASSUME Bad # {} PROVE FALSE
  BY DEF FiniteSubsetsOf
<1>1. IsWellFoundedOn(StrictSubsetOrdering(Nat), FiniteSubsetsOf(Nat))
  BY FS_StrictSubsetOrderingWellFounded
<1>2. PICK T \in Bad : \A U \in Bad : <<U, T>> \notin StrictSubsetOrdering(Nat)
  <2> HIDE DEF Orders
  <2> QED
    BY <1>1, WFMin
<1>3. T \subseteq Nat /\ IsFiniteSet(T) /\ Orders(T) = {}
  BY DEF FiniteSubsetsOf
<1>4. T # {}
  <2>1. ASSUME T = {} PROVE FALSE
    <3>1. Cardinality(T) = 0
      BY <1>3, <2>1, FS_EmptySet
    <3>2. [i \in 1 .. 0 |-> 0] \in Orders(T)
      BY <3>1
    <3> QED
      BY <1>3, <3>2
  <2> QED
    BY <2>1
<1>5. PICK least \in T : \A t \in T : least <= t
  <2>1. PICK least \in T : \A t \in T : <<t, least>> \notin OpToRel(<, Nat)
    BY <1>3, <1>4, NatLessThanWellFounded, WFMin
  <2>2. \A t \in T : ~ (t < least)
    BY <1>3, <2>1 DEF OpToRel
  <2> QED
    BY <1>3, <2>2
<1> DEFINE U == T \ {least}
<1>6. IsFiniteSet(U) /\ Cardinality(T) \in Nat /\ Cardinality(U) = Cardinality(T) - 1
      /\ Cardinality(U) \in Nat
  BY <1>3, FS_RemoveElement, FS_CardinalityType
<1>7. Orders(U) # {}
  <2>1. U \in FiniteSubsetsOf(Nat) /\ <<U, T>> \in StrictSubsetOrdering(Nat)
    BY <1>3, <1>6 DEF FiniteSubsetsOf, StrictSubsetOrdering
  <2> QED
    BY <1>2, <2>1
<1>8. PICK s \in Orders(U) : TRUE
  BY <1>7
<1> DEFINE c == Cardinality(T)
<1>9. s \in [1 .. c - 1 -> U] /\ \A m, n \in 1 .. c - 1 : m < n => s[m] < s[n]
  BY <1>6, <1>8
<1> DEFINE t == [i \in 1 .. c |-> IF i = 1 THEN least ELSE s[i - 1]]
<1>10. t \in [1 .. c -> T]
  BY <1>6, <1>9
<1>11. ASSUME NEW m \in 1 .. c, NEW n \in 1 .. c, m < n PROVE t[m] < t[n]
  <2>0. c \in Nat /\ t[n] = (IF n = 1 THEN least ELSE s[n - 1])
        /\ t[m] = (IF m = 1 THEN least ELSE s[m - 1])
    BY <1>6
  <2> HIDE DEF c, t
  <2>1. n # 1 /\ n - 1 \in 1 .. c - 1 /\ t[n] = s[n - 1]
    BY <1>11, <2>0
  <2>2. CASE m = 1
    <3>1. PICK next \in T : next = s[n - 1] /\ next # least
      BY <1>9, <2>1
    <3>2. least < next
      BY <1>3, <1>5, <3>1
    <3>3. t[m] = least
      BY <2>0, <2>2
    <3> QED
      BY <2>1, <3>1, <3>2, <3>3, Zenon
  <2>3. CASE m # 1
    <3>1. m - 1 \in 1 .. c - 1 /\ m - 1 < n - 1 /\ t[m] = s[m - 1]
      BY <1>11, <2>0, <2>3
    <3> QED
      BY <1>9, <2>1, <3>1
  <2> QED
    BY <2>2, <2>3
<1>12. t \in Orders(T)
  BY <1>10, <1>11
<1> QED
  BY <1>3, <1>12

\* sorted() keeps every member.
LEMMA SortedKeepsAll ==
    ASSUME NEW S, S \subseteq Nat, IsFiniteSet(S)
    PROVE  /\ Cardinality(S) \in Nat
           /\ Sorted(S) \in [1 .. Cardinality(S) -> S]
           /\ \A i \in S : \E n \in 1 .. Cardinality(S) : Sorted(S)[n] = i
<1> DEFINE c == Cardinality(S)
<1>1. c \in Nat /\ IsFiniteSet(1 .. c) /\ Cardinality(1 .. c) = c
  BY FS_CardinalityType, FS_Interval
<1>2. Sorted(S) \in [1 .. c -> S]
      /\ \A m, n \in DOMAIN Sorted(S) : m < n => Sorted(S)[m] < Sorted(S)[n]
  BY AscendingExists DEF Sorted
<1>3. \A m, n \in 1 .. c : Sorted(S)[m] = Sorted(S)[n] => m = n
  <2> TAKE m, n \in 1 .. c
  <2>1. Sorted(S)[m] \in Nat /\ Sorted(S)[n] \in Nat
    BY <1>2
  <2>2. m < n => Sorted(S)[m] < Sorted(S)[n]
    BY <1>2
  <2>3. n < m => Sorted(S)[n] < Sorted(S)[m]
    BY <1>2
  <2> QED
    BY <1>1, <2>1, <2>2, <2>3
<1>4. Sorted(S) \in Injection(1 .. c, S)
  BY <1>2, <1>3, Fun_IsInj
<1>5. Sorted(S) \in Surjection(1 .. c, S)
  BY <1>1, <1>4, FS_Injection
<1> QED
  BY <1>1, <1>2, <1>5, Fun_SurjectionProperties

-----------------------------------------------------------------------------
\* The locks of a section.

Names == {"backup", "import", "corpus", "history"}
Locks == {Lock(name) : name \in Names} \cup {JobLock(i) : i \in Stripes}

Sections == Seq(Locks)

LocksOf(section) == {section[n] : n \in 1 .. Len(section)}

\* The named locks are locks.
LEMMA NamesAreLocks == \A name \in Names : Lock(name) \in Locks
BY DEF Locks

\* Two sections, one after the other, take the locks of both.
LEMMA ConcatLocks ==
    ASSUME NEW s \in Sections, NEW t \in Sections
    PROVE  s \o t \in Sections /\ LocksOf(s \o t) = LocksOf(s) \cup LocksOf(t)
<1> DEFINE u == s \o t
<1>1. /\ u \in Sections
      /\ Len(u) = Len(s) + Len(t) /\ Len(s) \in Nat /\ Len(t) \in Nat
      /\ \A i \in 1 .. Len(s) + Len(t) :
            u[i] = IF i <= Len(s) THEN s[i] ELSE t[i - Len(s)]
  BY ConcatProperties, LenProperties DEF Sections
<1> HIDE DEF u
<1>2. ASSUME NEW i \in 1 .. Len(u)
      PROVE  u[i] \in LocksOf(s) \cup LocksOf(t)
  <2>1. CASE i <= Len(s)
    BY <1>1, <2>1 DEF LocksOf
  <2>2. CASE ~ (i <= Len(s))
    <3>1. i - Len(s) \in 1 .. Len(t) /\ u[i] = t[i - Len(s)]
      BY <1>1, <2>2
    <3> QED
      BY <3>1 DEF LocksOf
  <2> QED
    BY <2>1, <2>2
<1>3. ASSUME NEW i \in 1 .. Len(s)
      PROVE  s[i] \in LocksOf(u)
  <2>1. i \in 1 .. Len(u) /\ u[i] = s[i]
    BY <1>1
  <2> QED
    BY <2>1 DEF LocksOf
<1>4. ASSUME NEW i \in 1 .. Len(t)
      PROVE  t[i] \in LocksOf(u)
  <2>1. Len(s) + i \in 1 .. Len(u) /\ ~ (Len(s) + i <= Len(s)) /\ (Len(s) + i) - Len(s) = i
    BY <1>1
  <2>2. u[Len(s) + i] = t[i]
    BY <1>1, <2>1
  <2> QED
    BY <2>1, <2>2 DEF LocksOf
<1>5. LocksOf(u) = LocksOf(s) \cup LocksOf(t)
  BY <1>2, <1>3, <1>4 DEF LocksOf
<1> QED
  BY <1>1, <1>5 DEF u

\* A section of one lock.
LEMMA SingleLock ==
    ASSUME NEW lock \in Locks
    PROVE  <<lock>> \in Sections /\ LocksOf(<<lock>>) = {lock}
BY DEF Sections, LocksOf

\* Saving an archived hand adds the history lock and drops none.
LEMMA SavingLocks ==
    ASSUME NEW s \in Sections, NEW section \in Saving(s)
    PROVE  section \in Sections /\ LocksOf(s) \subseteq LocksOf(section)
<1>1. Lock("history") \in Locks
  BY NamesAreLocks DEF Names
<1>2. Append(s, Lock("history")) = s \o <<Lock("history")>>
  BY <1>1, AppendIsConcat DEF Sections
<1>3. section = s \/ section = s \o <<Lock("history")>>
  BY <1>2 DEF Saving
<1> QED
  BY <1>1, <1>3, SingleLock, ConcatLocks

\* Sorting the indexes of stripes leaves none of them out.
LEMMA StripeLocks ==
    ASSUME NEW S \in SUBSET Stripes
    PROVE  LET indexes == Sorted(S)
               section == [n \in DOMAIN indexes |-> JobLock(indexes[n])]
           IN  section \in Sections /\ \A i \in S : JobLock(i) \in LocksOf(section)
<1> DEFINE c == Cardinality(S)
<1> DEFINE section == [n \in DOMAIN Sorted(S) |-> JobLock(Sorted(S)[n])]
<1>1. S \subseteq Nat /\ IsFiniteSet(S)
  BY LocksAssumption, FS_Subset
<1>2. /\ c \in Nat
      /\ Sorted(S) \in [1 .. c -> S]
      /\ \A i \in S : \E n \in 1 .. c : Sorted(S)[n] = i
  BY <1>1, SortedKeepsAll
<1> HIDE DEF c
<1>3. section \in [1 .. c -> Locks]
  BY <1>2 DEF Locks
<1>4. section \in Sections /\ Len(section) = c
  <2> HIDE DEF section
  <2> QED
    BY <1>2, <1>3, SeqDef, LenProperties DEF Sections
<1>5. ASSUME NEW i \in S PROVE JobLock(i) \in LocksOf(section)
  <2>1. PICK n \in 1 .. c : Sorted(S)[n] = i
    BY <1>2
  <2>2. section[n] = JobLock(i)
    BY <1>2, <2>1
  <2> QED
    BY <1>4, <2>2 DEF LocksOf
<1> QED
  BY <1>4, <1>5

\* The locks of some hands are those of their stripes.
LEMMA HandLocks ==
    ASSUME NEW js \in SUBSET Jobs
    PROVE  /\ JobLocks(js) \in Sections
           /\ \A j \in js : JobLock(StripeOf[j]) \in LocksOf(JobLocks(js))
<1> DEFINE S == {StripeOf[j] : j \in js}
<1>1. S \in SUBSET Stripes
  BY LocksAssumption
<1> QED
  BY <1>1, StripeLocks DEF JobLocks

\* The locks of all hands.
LEMMA AllHandLocks ==
    /\ AllJobLocks \in Sections
    /\ \A j \in Jobs : JobLock(StripeOf[j]) \in LocksOf(AllJobLocks)
<1>1. \A j \in Jobs : StripeOf[j] \in Stripes
  BY LocksAssumption
<1> QED
  BY <1>1, StripeLocks DEF AllJobLocks

\* What the batches and the changes of the corpus add to them.
LEMMA BatchLocks ==
    ASSUME NEW js \in SUBSET Jobs
    PROVE  /\ Batch(js) \in Sections
           /\ LocksOf(JobLocks(js)) \subseteq LocksOf(Batch(js))
           /\ Lock("history") \in LocksOf(Batch(js))
BY HandLocks, NamesAreLocks, SingleLock, ConcatLocks DEF Batch, Names

\* What the corpus lock adds to a section.
LEMMA CorpusLocks ==
    ASSUME NEW s \in Sections
    PROVE  /\ WithCorpus(s) \in Sections
           /\ LocksOf(s) \subseteq LocksOf(WithCorpus(s))
           /\ Lock("corpus") \in LocksOf(WithCorpus(s))
BY NamesAreLocks, SingleLock, ConcatLocks DEF WithCorpus, Names

\* A restore and an export take the lock of every hand, of the history and of the corpus.
LEMMA EveryLock ==
    /\ Everything \in Sections
    /\ \A j \in Jobs : JobLock(StripeOf[j]) \in LocksOf(Everything)
    /\ Lock("history") \in LocksOf(Everything)
    /\ Lock("corpus") \in LocksOf(Everything)
<1> DEFINE hands == AllJobLocks \o <<Lock("history")>>
<1> DEFINE first == <<Lock("backup"), Lock("import")>>
<1>1. hands \in Sections /\ LocksOf(hands) = LocksOf(AllJobLocks) \cup {Lock("history")}
  BY AllHandLocks, NamesAreLocks, SingleLock, ConcatLocks DEF Names
<1>2. first \in Sections
  BY NamesAreLocks DEF Sections, Names
<1> HIDE DEF hands, first
<1>3. WithCorpus(hands) \in Sections /\ LocksOf(hands) \subseteq LocksOf(WithCorpus(hands))
      /\ Lock("corpus") \in LocksOf(WithCorpus(hands))
  BY <1>1, CorpusLocks
<1>4. Everything = first \o WithCorpus(hands)
  BY DEF Everything, first, hands
<1>5. Everything \in Sections /\ LocksOf(WithCorpus(hands)) \subseteq LocksOf(Everything)
  BY <1>2, <1>3, <1>4, ConcatLocks
<1> QED
  BY <1>1, <1>3, <1>5, AllHandLocks

-----------------------------------------------------------------------------
\* The plans of the handlers.

WithHandLocks ==
    {"edit", "recommend", "include", "delete", "archive", "import",
     "import_journaled", "import_poll"}

WithHistoryLock ==
    {"list", "archive", "import", "import_journaled", "import_poll", "delete", "restore"}

WithCorpusLock ==
    {"include", "export_dataset", "benchmark", "delete", "import", "import_journaled",
     "import_poll", "restore"}

HasHands(js, section) == \A j \in js : JobLock(StripeOf[j]) \in LocksOf(section)

\* Every section but the first of an upload is one under the locks it needs.
Guarded(kind, js, plan) ==
    /\ plan \in Seq(Sections)
    /\ kind = "upload" => Len(plan) = 3
    /\ \A i \in 1 .. Len(plan) :
        /\ kind \in WithHandLocks => HasHands(js, plan[i])
        /\ kind = "upload" /\ i # 1 => HasHands(js, plan[i])
        /\ kind = "restore" => HasHands(Jobs, plan[i])
        /\ kind \in WithHistoryLock => Lock("history") \in LocksOf(plan[i])
        /\ kind \in WithCorpusLock => Lock("corpus") \in LocksOf(plan[i])

\* Whoever saves under the locks of hands still has them.
LEMMA SavingHands ==
    ASSUME NEW js \in SUBSET Jobs, NEW s \in Sections, HasHands(js, s),
           NEW section \in Saving(s)
    PROVE  section \in Sections /\ HasHands(js, section)
BY SavingLocks DEF HasHands

\* Each plan of each handler takes the locks that its kind of work asks for.
LEMMA PlansAreGuarded ==
    ASSUME NEW kind \in AllKinds, NEW js \in SUBSET Jobs, NEW plan \in Plans(kind, js)
    PROVE  Guarded(kind, js, plan)
<1>1. JobLocks(js) \in Sections /\ HasHands(js, JobLocks(js))
  BY HandLocks DEF HasHands
<1>2. Batch(js) \in Sections /\ HasHands(js, Batch(js)) /\ Lock("history") \in LocksOf(Batch(js))
  BY <1>1, BatchLocks DEF HasHands
<1>3. /\ WithCorpus(Batch(js)) \in Sections /\ HasHands(js, WithCorpus(Batch(js)))
      /\ Lock("history") \in LocksOf(WithCorpus(Batch(js)))
      /\ Lock("corpus") \in LocksOf(WithCorpus(Batch(js)))
  BY <1>2, CorpusLocks DEF HasHands
<1>4. Lock("backup") \in Locks /\ Lock("import") \in Locks /\ Lock("history") \in Locks
  BY NamesAreLocks DEF Names
<1>5. <<Lock("history")>> \in Sections /\ LocksOf(<<Lock("history")>>) = {Lock("history")}
      /\ <<Lock("backup")>> \in Sections
      /\ <<Lock("import")>> \in Sections
  BY <1>4, SingleLock
<1>6. <<>> \in Sections
  BY EmptySeq DEF Sections
<1>7. CASE kind = "upload"
  <2>1. PICK last \in Saving(JobLocks(js)) :
          plan = << <<Lock("backup")>>, JobLocks(js), last >>
    BY <1>7 DEF Plans, PlansOf
  <2>2. last \in Sections /\ HasHands(js, last)
    BY <1>1, SavingHands
  <2> QED
    BY <1>1, <1>5, <1>7, <2>1, <2>2
    DEF Guarded, WithHandLocks, WithHistoryLock, WithCorpusLock
<1>8. CASE kind = "edit" \/ kind = "recommend"
  <2>1. PICK last \in Saving(JobLocks(js)) : plan = <<last>> \/ plan = <<last, last>>
    BY <1>8 DEF Plans, PlansOf
  <2>2. last \in Sections /\ HasHands(js, last)
    BY <1>1, SavingHands
  <2>3. /\ plan \in Seq(Sections) /\ Len(plan) \in Nat
        /\ \A i \in 1 .. Len(plan) : plan[i] = last
    <3>1. CASE plan = <<last>>
      BY <2>2, <3>1
    <3>2. CASE plan = <<last, last>>
      BY <2>2, <3>2
    <3> QED
      BY <2>1, <3>1, <3>2
  <2> QED
    BY <1>8, <2>2, <2>3 DEF Guarded, WithHandLocks, WithHistoryLock, WithCorpusLock
<1>9. CASE kind = "include"
  <2>1. PICK last \in Saving(WithCorpus(JobLocks(js))) : plan = <<last>>
    BY <1>9 DEF Plans, PlansOf
  <2>2. /\ WithCorpus(JobLocks(js)) \in Sections /\ HasHands(js, WithCorpus(JobLocks(js)))
        /\ Lock("corpus") \in LocksOf(WithCorpus(JobLocks(js)))
    BY <1>1, CorpusLocks DEF HasHands
  <2>3. last \in Sections /\ HasHands(js, last) /\ Lock("corpus") \in LocksOf(last)
    BY <2>2, SavingHands, SavingLocks
  <2> QED
    BY <1>9, <2>1, <2>3 DEF Guarded, WithHandLocks, WithHistoryLock, WithCorpusLock
<1>10. CASE kind = "archive"
  <2>1. plan = <<Batch(js)>>
    BY <1>10 DEF Plans, PlansOf
  <2> QED
    BY <1>2, <1>10, <2>1 DEF Guarded, WithHandLocks, WithHistoryLock, WithCorpusLock
<1>11. CASE kind \in {"delete", "import"}
  <2>1. plan = <<WithCorpus(Batch(js))>>
    BY <1>11 DEF Plans, PlansOf
  <2> QED
    BY <1>3, <1>11, <2>1 DEF Guarded, WithHandLocks, WithHistoryLock, WithCorpusLock
<1>12. CASE kind \in {"import_journaled", "import_poll"}
  <2> DEFINE section == <<Lock("import")>> \o WithCorpus(Batch(js))
  <2>1. plan = <<section>>
    BY <1>12 DEF Plans, PlansOf
  <2>2. section \in Sections /\ LocksOf(WithCorpus(Batch(js))) \subseteq LocksOf(section)
    BY <1>3, <1>5, ConcatLocks
  <2> HIDE DEF section
  <2>3. /\ HasHands(js, section)
        /\ Lock("history") \in LocksOf(section) /\ Lock("corpus") \in LocksOf(section)
    BY <1>3, <2>2 DEF HasHands
  <2> QED
    BY <1>12, <2>1, <2>2, <2>3 DEF Guarded, WithHandLocks, WithHistoryLock, WithCorpusLock
<1>13. CASE kind \in {"benchmark", "export_dataset"}
  <2>1. plan = <<WithCorpus(<<>>)>>
    BY <1>13 DEF Plans, PlansOf
  <2>2. WithCorpus(<<>>) \in Sections /\ Lock("corpus") \in LocksOf(WithCorpus(<<>>))
    BY <1>6, CorpusLocks
  <2> QED
    BY <1>13, <2>1, <2>2 DEF Guarded, WithHandLocks, WithHistoryLock, WithCorpusLock
<1>14. CASE kind \in {"restore", "backup"}
  <2>1. plan = <<Everything>>
    BY <1>14 DEF Plans, PlansOf
  <2> QED
    BY <1>14, <2>1, EveryLock
    DEF Guarded, HasHands, WithHandLocks, WithHistoryLock, WithCorpusLock
<1>15. CASE kind = "list"
  <2>1. plan = << <<Lock("history")>> >>
    BY <1>15 DEF Plans, PlansOf
  <2> QED
    BY <1>5, <1>15, <2>1 DEF Guarded, WithHandLocks, WithHistoryLock, WithCorpusLock
<1>16. CASE kind = "get"
  <2>1. plan = <<JobLocks(js)>>
    BY <1>16 DEF Plans, PlansOf
  <2> QED
    BY <1>1, <1>16, <2>1 DEF Guarded, WithHandLocks, WithHistoryLock, WithCorpusLock
<1>17. CASE kind \in OwnProcess
  <2>1. plan = << <<>> >>
    BY <1>17 DEF Plans, PlansOf, OwnProcess
  <2> QED
    BY <1>6, <1>17, <2>1
    DEF Guarded, OwnProcess, WithHandLocks, WithHistoryLock, WithCorpusLock
<1> QED
  BY <1>7, <1>8, <1>9, <1>10, <1>11, <1>12, <1>13, <1>14, <1>15, <1>16, <1>17
  DEF AllKinds, OwnProcess

\* So does the plan of any request.
LEMMA CallsAreGuarded ==
    ASSUME NEW call \in Calls
    PROVE  /\ call.kind \in AllKinds
           /\ Guarded(call.kind, call.jobs, call.plan)
           /\ call.kind \in {"benchmark", "startup"} => call.jobs = {}
           /\ call.jobs \subseteq Jobs
<1>0. PICK kind \in Kinds : call \in UNION {CallsOf(kind, js) : js \in Named(kind)}
  BY DEF Calls
<1>1. PICK js \in Named(kind) : call \in CallsOf(kind, js)
  BY <1>0
<1>5. PICK plan \in Plans(kind, js) : call = [kind |-> kind, jobs |-> js, plan |-> plan]
  BY <1>1 DEF CallsOf
<1>2. kind \in AllKinds
  BY LocksAssumption
<1>3. js \in SUBSET Jobs /\ (kind \in {"benchmark", "startup"} => js = {})
  BY <1>2 DEF Named
<1>4. Guarded(kind, js, plan)
  BY <1>2, <1>3, PlansAreGuarded
<1> QED
  BY <1>2, <1>3, <1>4, <1>5

-----------------------------------------------------------------------------
\* The locks held.

Rest(r, d) == SubSeq(request[r].plan, d, Len(request[r].plan))

CallsOK == request \in [Requests -> Calls]

\* What a request has still to run is what its plan ends with.
RestOK ==
    /\ todo = [r \in Requests |-> todo[r]]
    /\ \A r \in Requests : \E d \in 1 .. Len(request[r].plan) + 1 : todo[r] = Rest(r, d)

\* A request is inside a section with all of its locks.
HeldOK ==
    /\ held \in [Requests -> Nat]
    /\ \A r \in Requests :
        /\ todo[r] # <<>> => held[r] <= Len(Head(todo[r]))
        /\ stage[r] = "inside" => todo[r] # <<>> /\ held[r] = Len(Head(todo[r]))

\* No lock is held twice.
LocksApart ==
    \A r, s \in Requests : r # s => HeldLocks(r) \cap HeldLocks(s) = {}

LockInv == StagesOK /\ CallsOK /\ RestOK /\ HeldOK /\ LocksApart

\* The end of a sequence of sections is empty, or begins with one of them.
LEMMA EndsOfPlans ==
    ASSUME NEW plan \in Seq(Sections), NEW d \in 1 .. Len(plan) + 1,
           NEW rest, rest = SubSeq(plan, d, Len(plan))
    PROVE  \/ rest = <<>>
           \/ /\ d \in 1 .. Len(plan)
              /\ Head(rest) = plan[d]
              /\ Head(rest) \in Sections
              /\ Tail(rest) = SubSeq(plan, d + 1, Len(plan))
              /\ Len(rest) = Len(plan) - d + 1
<1>1. Len(plan) \in Nat /\ \A i \in 1 .. Len(plan) : plan[i] \in Sections
  BY LenProperties, ElementOfSeq
<1>2. CASE d = Len(plan) + 1
  <2>1. SubSeq(plan, d, Len(plan)) = <<>>
    BY <1>1, <1>2, SubSeqEmpty
  <2> QED
    BY <2>1
<1>3. CASE d \in 1 .. Len(plan)
  <2>1. Head(rest) = plan[d] /\ Tail(rest) = SubSeq(plan, d + 1, Len(plan))
    BY <1>1, <1>3, HeadTailOfSubSeq
  <2>2. \A i \in d .. Len(plan) : plan[i] \in Sections
    BY <1>1, <1>3
  <2>3. Len(rest) = Len(plan) - d + 1
    BY <1>1, <1>3, <2>2, SubSeqProperties
  <2> QED
    BY <1>1, <1>3, <2>1, <2>3
<1> QED
  BY <1>1, <1>2, <1>3

HasHeld(r, js) == \A j \in js : JobLock(StripeOf[j]) \in HeldLocks(r)

\* What a request has still to run begins with a section of its plan.
LEMMA RestOfPlan ==
    ASSUME CallsOK, RestOK, NEW r \in Requests
    PROVE  /\ request[r] \in Calls
           /\ request[r].plan \in Seq(Sections)
           /\ Len(request[r].plan) \in Nat
           /\ \/ todo[r] = <<>>
              \/ \E d \in 1 .. Len(request[r].plan) :
                    /\ todo[r] = Rest(r, d)
                    /\ Head(todo[r]) = request[r].plan[d]
                    /\ Head(todo[r]) \in Sections
                    /\ Tail(todo[r]) = Rest(r, d + 1)
                    /\ Len(todo[r]) = Len(request[r].plan) - d + 1
<1>1. request[r] \in Calls
  BY DEF CallsOK
<1>2. request[r].plan \in Seq(Sections) /\ Len(request[r].plan) \in Nat
  BY <1>1, CallsAreGuarded, LenProperties DEF Guarded
<1>3. PICK d \in 1 .. Len(request[r].plan) + 1 : todo[r] = Rest(r, d)
  BY DEF RestOK
<1>4. CASE todo[r] # <<>>
  <2>1. /\ d \in 1 .. Len(request[r].plan)
        /\ Head(todo[r]) = request[r].plan[d]
        /\ Head(todo[r]) \in Sections
        /\ Tail(todo[r]) = Rest(r, d + 1)
        /\ Len(todo[r]) = Len(request[r].plan) - d + 1
    BY <1>2, <1>3, <1>4, EndsOfPlans DEF Rest
  <2> QED
    BY <1>1, <1>2, <1>3, <2>1
<1> QED
  BY <1>1, <1>2, <1>4

\* No request runs or holds a lock at the start.
LEMMA InitEstablishesLockInv == Init => LockInv
<1> SUFFICES ASSUME Init PROVE LockInv
  OBVIOUS
<1>1. CallsOK
  BY DEF Init, CallsOK
<1>2. StagesOK /\ \A r \in Requests : stage[r] # "inside"
  BY DEF Init, StagesOK, Stages, FirstGate
<1>3. RestOK
  <2> SUFFICES ASSUME NEW r \in Requests
               PROVE  \E d \in 1 .. Len(request[r].plan) + 1 : todo[r] = Rest(r, d)
    BY DEF Init, RestOK
  <2>1. request[r].plan \in Seq(Sections)
    BY <1>1, CallsAreGuarded DEF CallsOK, Guarded
  <2>2. todo[r] = Rest(r, 1) /\ Len(request[r].plan) \in Nat
    BY <2>1, SubSeqFull, LenProperties DEF Init, Rest
  <2> QED
    BY <2>2
<1>4. \A r \in Requests : todo[r] # <<>> => Head(todo[r]) \in Sections
  BY <1>1, <1>3, RestOfPlan
<1>5. HeldOK
  BY <1>2, <1>4, LenProperties DEF Init, HeldOK, Sections
<1>6. LocksApart
  BY DEF Init, LocksApart, HeldLocks
<1> QED
  BY <1>1, <1>2, <1>3, <1>5, <1>6 DEF LockInv

\* A step that moves a request, and takes or leaves no lock.
LEMMA MovesKeepLockInv ==
    ASSUME LockInv, NEW r \in Requests, NEW gate \in Stages, GoTo(r, gate),
           UNCHANGED <<request, todo, held>>,
           gate = "inside" => todo[r] # <<>> /\ held[r] = Len(Head(todo[r]))
    PROVE  LockInv'
<1>1. StagesOK'
  BY DEF LockInv, StagesOK, GoTo
<1>2. CallsOK' /\ RestOK'
  BY DEF LockInv, CallsOK, RestOK, Rest
<1>4. \A s : HeldLocks(s)' = HeldLocks(s)
  BY DEF HeldLocks
<1>5. LocksApart'
  BY <1>4 DEF LockInv, LocksApart
<1>3. HeldOK'
  BY DEF LockInv, StagesOK, HeldOK, GoTo
<1> QED
  BY <1>1, <1>2, <1>3, <1>5 DEF LockInv

\* A lock is taken only when nobody holds it.
LEMMA TakesKeepLockInv ==
    ASSUME LockInv, NEW r \in Requests, TakeLock(r)
    PROVE  LockInv'
<1>1. StagesOK' /\ CallsOK' /\ RestOK'
  BY DEF TakeLock, LockInv, StagesOK, CallsOK, RestOK, Rest
<1>2. /\ held \in [Requests -> Nat] /\ todo[r] # <<>> /\ held[r] \in Nat
      /\ Head(todo[r]) \in Sections /\ Len(Head(todo[r])) \in Nat
  BY RestOfPlan, LenProperties DEF TakeLock, LockInv, HeldOK, Sections
<1>3. held' = [held EXCEPT ![r] = held[r] + 1] /\ held[r] < Len(Head(todo[r])) /\ stage[r] = "running"
      /\ todo' = todo /\ stage' = stage
  BY DEF TakeLock
<1>4. HeldOK'
  BY <1>2, <1>3 DEF LockInv, HeldOK
<1>5. \A s \in Requests : s # r => HeldLocks(s)' = HeldLocks(s)
  BY <1>2, <1>3 DEF HeldLocks
<1>6. HeldLocks(r)' \subseteq HeldLocks(r) \cup {Head(todo[r])[held[r] + 1]}
  <2>1. \A n \in 1 .. held[r] + 1 : n \in 1 .. held[r] \/ n = held[r] + 1
    BY <1>2
  <2> QED
    BY <1>2, <1>3, <2>1 DEF HeldLocks
<1>7. \A s \in Requests : Head(todo[r])[held[r] + 1] \notin HeldLocks(s)
  BY DEF TakeLock, Free
<1>8. LocksApart'
  BY <1>5, <1>6, <1>7 DEF LockInv, LocksApart
<1> QED
  BY <1>1, <1>4, <1>8 DEF LockInv

\* The end of a section gives back all of its locks.
LEMMA EndsKeepLockInv ==
    ASSUME LockInv, NEW r \in Requests, EndSection(r)
    PROVE  LockInv'
<1>1. StagesOK' /\ CallsOK' /\ stage'[r] = "running"
      /\ \A s \in Requests : s # r => stage'[s] = stage[s]
  BY DEF EndSection, GoTo, LockInv, StagesOK, Stages, CallsOK
<1>2. PICK rest \in {Tail(todo[r]), <<>>} : todo' = [todo EXCEPT ![r] = rest]
  BY DEF EndSection
<1>3. held' = [held EXCEPT ![r] = 0] /\ held \in [Requests -> Nat] /\ request' = request
      /\ stage[r] = "inside" /\ todo[r] # <<>>
  BY DEF EndSection, LockInv, HeldOK
<1>4. /\ \E d \in 1 .. Len(request[r].plan) + 1 : rest = Rest(r, d)
      /\ rest # <<>> => Head(rest) \in Sections
  <2>1. Len(request[r].plan) \in Nat /\ request[r].plan \in Seq(Sections)
    BY RestOfPlan DEF LockInv
  <2>2. PICK d \in 1 .. Len(request[r].plan) : Tail(todo[r]) = Rest(r, d + 1)
    BY <1>3, RestOfPlan DEF LockInv
  <2>3. Rest(r, Len(request[r].plan) + 1) = <<>>
    BY <2>1, SubSeqEmpty DEF Rest
  <2>4. d + 1 \in 1 .. Len(request[r].plan) + 1
        /\ Len(request[r].plan) + 1 \in 1 .. Len(request[r].plan) + 1
    BY <2>1
  <2>5. PICK e \in 1 .. Len(request[r].plan) + 1 : rest = Rest(r, e)
    BY <1>2, <2>2, <2>3, <2>4
  <2> QED
    BY <2>1, <2>5, EndsOfPlans DEF Rest
<1>5. /\ todo'[r] = rest /\ todo' = [s \in Requests |-> todo'[s]]
      /\ \A s \in Requests : s # r => todo'[s] = todo[s]
  BY <1>2 DEF LockInv, RestOK
<1>6. RestOK'
  <2>1. \A s \in Requests : \A d : Rest(s, d)' = Rest(s, d)
    BY <1>3 DEF Rest
  <2> QED
    BY <1>3, <1>4, <1>5, <2>1, ZenonT(60) DEF LockInv, RestOK
<1>7. \A s \in Requests : todo'[s] # <<>> => Head(todo'[s]) \in Sections
  BY <1>4, <1>5, RestOfPlan DEF LockInv
<1>8. HeldOK'
  <2>1. \A s \in Requests : todo'[s] # <<>> => 0 <= Len(Head(todo'[s]))
    BY <1>7, LenProperties DEF Sections
  <2> QED
    BY <1>1, <1>3, <1>5, <2>1 DEF LockInv, HeldOK
<1>9. HeldLocks(r)' = {} /\ \A s \in Requests : s # r => HeldLocks(s)' = HeldLocks(s)
  <2>1. held'[r] = 0 /\ \A s \in Requests : s # r => held'[s] = held[s]
    BY <1>3
  <2>2. HeldLocks(r)' = {}
    BY <2>1 DEF HeldLocks
  <2>3. ASSUME NEW s \in Requests, s # r PROVE HeldLocks(s)' = HeldLocks(s)
    <3>1. held'[s] = held[s] /\ todo'[s] = todo[s]
      BY <1>5, <2>1, <2>3
    <3> QED
      BY <3>1 DEF HeldLocks
  <2> QED
    BY <2>2, <2>3
<1>10. LocksApart'
  BY <1>9 DEF LockInv, LocksApart
<1> QED
  BY <1>1, <1>6, <1>8, <1>10 DEF LockInv

\* Every step keeps the invariant of the locks, action by action.
LEMMA NextKeepsLockInv == LockInv /\ [Next]_vars => LockInv'
<1> SUFFICES ASSUME LockInv, [Next]_vars PROVE LockInv'
  OBVIOUS
<1>0. ASSUME UNCHANGED <<request, stage, todo, held>>
      PROVE  LockInv'
  <2>1. \A s : HeldLocks(s)' = HeldLocks(s)
    BY <1>0 DEF HeldLocks
  <2> QED
    BY <1>0, <2>1 DEF LockInv, StagesOK, CallsOK, RestOK, Rest, HeldOK, LocksApart
<1>1. CASE UNCHANGED vars
  BY <1>0, <1>1 DEF vars
<1>2. CASE Next
  <2> PICK r \in Requests : Work(r) \/ Cancel(r)
    BY <1>2 DEF Next
  <2>1. CASE EnterFlock(r)
    BY <2>1, MovesKeepLockInv DEF EnterFlock, Stages
  <2>2. CASE GetFlock(r)
    BY <2>2, MovesKeepLockInv DEF GetFlock, Stages
  <2>3. CASE Cancel(r)
    BY <1>0, <2>3 DEF Cancel
  <2>4. CASE ReleaseOrphan(r)
    BY <2>4, MovesKeepLockInv DEF ReleaseOrphan, Stages
  <2>5. CASE Admit(r)
    BY <2>5, MovesKeepLockInv DEF Admit, Stages
  <2>6. CASE StartHandler(r)
    BY <2>6, MovesKeepLockInv DEF StartHandler, Stages
  <2>7. CASE TakeLock(r)
    BY <2>7, TakesKeepLockInv
  <2>8. CASE BeginSection(r)
    BY <2>8, MovesKeepLockInv DEF BeginSection, Stages
  <2>9. CASE EndSection(r)
    BY <2>9, EndsKeepLockInv
  <2>10. CASE Finish(r)
    BY <2>10, MovesKeepLockInv DEF Finish, Stages
  <2> QED
    BY <2>1, <2>2, <2>3, <2>4, <2>5, <2>6, <2>7, <2>8, <2>9, <2>10 DEF Work
<1> QED
  BY <1>1, <1>2 DEF Next

\* A request inside a section holds what the section was planned with.
LEMMA InsideUnderLocks ==
    ASSUME LockInv, NEW r \in Requests, stage[r] = "inside"
    PROVE  /\ request[r].kind \in WithHandLocks => HasHeld(r, request[r].jobs)
           /\ request[r].kind = "upload" /\ Len(todo[r]) # 3 => HasHeld(r, request[r].jobs)
           /\ request[r].kind = "restore" => HasHeld(r, Jobs)
           /\ request[r].kind \in WithHistoryLock => Lock("history") \in HeldLocks(r)
           /\ request[r].kind \in WithCorpusLock => Lock("corpus") \in HeldLocks(r)
<1> DEFINE call == request[r]
<1>1. todo[r] # <<>> /\ held[r] = Len(Head(todo[r]))
  BY DEF LockInv, HeldOK
<1>2. PICK d \in 1 .. Len(call.plan) :
        Head(todo[r]) = call.plan[d] /\ Len(todo[r]) = Len(call.plan) - d + 1
  BY <1>1, RestOfPlan DEF LockInv
<1>3. HeldLocks(r) = LocksOf(call.plan[d])
  BY <1>1, <1>2 DEF HeldLocks, LocksOf
<1>4. Guarded(call.kind, call.jobs, call.plan)
  BY CallsAreGuarded DEF LockInv, CallsOK
<1>5. call.kind = "upload" /\ Len(todo[r]) # 3 => d # 1
  <2>1. call.kind = "upload" => Len(call.plan) = 3
    BY <1>4 DEF Guarded
  <2>2. ASSUME Len(call.plan) = 3, d = 1 PROVE Len(todo[r]) = 3
    BY <1>2, <2>2
  <2> QED
    BY <2>1, <2>2
<1> QED
  BY <1>3, <1>4, <1>5 DEF Guarded, HasHands, HasHeld

\* Whatever hand a section writes, the lock of its stripe is held.
LEMMA WritesUnderLock ==
    ASSUME LockInv, NEW r \in Requests, NEW j \in Writes(r)
    PROVE  JobLock(StripeOf[j]) \in HeldLocks(r)
<1>1. stage[r] = "inside"
  BY DEF Writes
<1>2. request[r].jobs = {} \/ request[r].kind \notin {"benchmark", "startup"}
  BY CallsAreGuarded DEF LockInv, CallsOK
<1>3. CASE IsFor(r, {"restore"})
  BY <1>1, <1>3, InsideUnderLocks DEF Writes, IsFor, HasHeld
<1>4. CASE ~ IsFor(r, {"restore"})
  <2>1. /\ j \in request[r].jobs
        /\ request[r].kind \in Changing
        /\ ~ (request[r].kind = "upload" /\ Len(todo[r]) = 3)
    BY <1>1, <1>4 DEF Writes, IsFor
  <2>2. request[r].kind \in WithHandLocks \/ request[r].kind = "upload"
    BY <1>2, <1>4, <2>1 DEF Changing, WithHandLocks, IsFor
  <2> QED
    BY <1>1, <2>1, <2>2, InsideUnderLocks DEF HasHeld
<1> QED
  BY <1>3, <1>4

\* Two threads inside sections with a lock in common are one.
LEMMA LockInvSerializes ==
    LockInv => OneWriterPerHand /\ ListsSeeWholeBatches /\ CorpusMembersAreStable
<1> SUFFICES ASSUME LockInv, NEW r \in Requests, NEW s \in Requests
             PROVE  /\ r # s => Writes(r) \cap Writes(s) = {}
                    /\ stage[r] = "inside" /\ stage[s] = "inside" /\ IsFor(r, {"list"})
                         => ~ IsFor(s, WithHistoryLock \ {"list"})
                    /\ r # s /\ stage[r] = "inside" /\ stage[s] = "inside"
                          /\ IsFor(r, {"include", "export_dataset", "benchmark"})
                         => ~ IsFor(s, WithCorpusLock \ {"export_dataset", "benchmark"})
  BY DEF OneWriterPerHand, ListsSeeWholeBatches, CorpusMembersAreStable, WithHistoryLock,
         WithCorpusLock, IsFor
<1>1. r # s => HeldLocks(r) \cap HeldLocks(s) = {}
  BY DEF LockInv, LocksApart
<1>2. r # s => Writes(r) \cap Writes(s) = {}
  BY <1>1, WritesUnderLock
<1>3. ASSUME stage[r] = "inside", stage[s] = "inside", IsFor(r, {"list"}),
             IsFor(s, WithHistoryLock \ {"list"})
      PROVE  FALSE
  <2>1. r # s
    BY <1>3 DEF IsFor
  <2>2. Lock("history") \in HeldLocks(r) /\ Lock("history") \in HeldLocks(s)
    BY <1>3, InsideUnderLocks DEF IsFor, WithHistoryLock
  <2> QED
    BY <1>1, <2>1, <2>2
<1>4. ASSUME r # s, stage[r] = "inside", stage[s] = "inside",
             IsFor(r, {"include", "export_dataset", "benchmark"}),
             IsFor(s, WithCorpusLock \ {"export_dataset", "benchmark"})
      PROVE  FALSE
  <2>1. Lock("corpus") \in HeldLocks(r) /\ Lock("corpus") \in HeldLocks(s)
    BY <1>4, InsideUnderLocks DEF IsFor, WithCorpusLock
  <2> QED
    BY <1>1, <1>4, <2>1
<1> QED
  BY <1>2, <1>3, <1>4

\* The locks a section was planned with are held while it runs, and by nobody
\* else.
THEOREM LocksAreHeld == Spec => []LockInv
BY InitEstablishesLockInv, NextKeepsLockInv, PTL DEF Spec

\* No two requests are writing the same hand's files, whichever handlers they
\* are for and however many hands they name.
THEOREM WritersAreSerialized == Spec => []OneWriterPerHand
BY LocksAreHeld, LockInvSerializes, PTL

\* A list never runs beside an archival, an import, a deletion or a restore.
THEOREM ListsAreConsistent == Spec => []ListsSeeWholeBatches
BY LocksAreHeld, LockInvSerializes, PTL

\* Nothing adds a hand to the corpus or takes one away while it is counted,
\* exported or scored.  The theorem does not say that the labels of its hands
\* stand still: an approval, which holds the stripe of its hand only, may
\* change the state of a selected hand meanwhile.
THEOREM CorpusReadsSeeOneMembership == Spec => []CorpusMembersAreStable
BY LocksAreHeld, LockInvSerializes, PTL

-----------------------------------------------------------------------------
(***************************************************************************)
(* Nobody waits for ever                                                   *)
(***************************************************************************)

\* The stripes are below some number.
Above(m) == \A i \in Stripes : i < m

Top == CHOOSE m \in Nat : Above(m)

\* The place of a lock in the order that all handlers keep to.
Rank(lock) ==
    CASE lock[1] = "backup" -> 0
      [] lock[1] = "import" -> 1
      [] lock[1] = "corpus" -> 2
      [] lock[1] = "job" -> 3 + lock[2]
      [] OTHER -> 3 + Top

\* A section that takes its locks in this order, from a given place on.
Ascends(section, low) ==
    /\ section \in Sections
    /\ \A n \in 1 .. Len(section) : Rank(section[n]) >= low
    /\ \A m, n \in 1 .. Len(section) : m < n => Rank(section[m]) < Rank(section[n])

\* A finite set of numbers has a bound.
LEMMA TopBounds == Top \in Nat /\ Above(Top)
<1> DEFINE Bad == {T \in FiniteSubsetsOf(Nat) : ~ \E m \in Nat : \A i \in T : i < m}
<1>1. Bad = {}
  <2> SUFFICES ASSUME Bad # {} PROVE FALSE
    OBVIOUS
  <2>1. IsWellFoundedOn(StrictSubsetOrdering(Nat), FiniteSubsetsOf(Nat))
    BY FS_StrictSubsetOrderingWellFounded
  <2>2. PICK T \in Bad : \A U \in Bad : <<U, T>> \notin StrictSubsetOrdering(Nat)
    BY <2>1, WFMin
  <2>3. T \subseteq Nat /\ IsFiniteSet(T) /\ ~ \E m \in Nat : \A i \in T : i < m
    BY DEF FiniteSubsetsOf
  <2>4. PICK k \in T : TRUE
    BY <2>3
  <2>5. IsFiniteSet(T \ {k})
    BY <2>3, FS_RemoveElement
  <2>6. T \ {k} \in FiniteSubsetsOf(Nat) /\ <<T \ {k}, T>> \in StrictSubsetOrdering(Nat)
    BY <2>3, <2>4, <2>5 DEF FiniteSubsetsOf, StrictSubsetOrdering
  <2>7. PICK m \in Nat : \A i \in T \ {k} : i < m
    BY <2>2, <2>6
  <2>8. k + m + 1 \in Nat /\ \A i \in T : i < k + m + 1
    <3>1. k \in Nat
      BY <2>3, <2>4
    <3>2. ASSUME NEW i \in T PROVE i < k + m + 1
      <4>1. i \in Nat /\ (i = k \/ i < m)
        BY <2>3, <2>7
      <4> QED
        BY <3>1, <4>1
    <3> QED
      BY <3>1, <3>2
  <2> QED
    BY <2>3, <2>8
<1>2. Stripes \in FiniteSubsetsOf(Nat)
  BY LocksAssumption DEF FiniteSubsetsOf
<1>3. \E m \in Nat : Above(m)
  BY <1>1, <1>2 DEF Above
<1> QED
  BY <1>3 DEF Top

\* The order of the locks, written out.
LEMMA Ranks ==
    /\ Rank(Lock("backup")) = 0
    /\ Rank(Lock("import")) = 1
    /\ Rank(Lock("corpus")) = 2
    /\ \A i \in Stripes : Rank(JobLock(i)) = 3 + i /\ 3 + i \in Nat /\ i < Top
    /\ Rank(Lock("history")) = 3 + Top
    /\ \A lock \in Locks : Rank(lock) \in 0 .. 3 + Top
<1>1. Top \in Nat /\ \A i \in Stripes : i \in Nat /\ i < Top
  BY TopBounds, LocksAssumption DEF Above
<1>2. /\ Rank(Lock("backup")) = 0
      /\ Rank(Lock("import")) = 1
      /\ Rank(Lock("corpus")) = 2
      /\ \A i \in Stripes : Rank(JobLock(i)) = 3 + i
      /\ Rank(Lock("history")) = 3 + Top
  BY DEF Rank, Lock, JobLock
<1>3. ASSUME NEW lock \in Locks PROVE Rank(lock) \in 0 .. 3 + Top
  <2>1. CASE \E name \in Names : lock = Lock(name)
    <3> PICK name \in Names : lock = Lock(name)
      BY <2>1
    <3> QED
      BY <1>1, <1>2 DEF Names
  <2>2. CASE \E i \in Stripes : lock = JobLock(i)
    <3> PICK i \in Stripes : lock = JobLock(i)
      BY <2>2
    <3> QED
      BY <1>1, <1>2
  <2> QED
    BY <2>1, <2>2 DEF Locks
<1> QED
  BY <1>1, <1>2, <1>3

\* A lock that stands before those of a section can be taken first.
LEMMA AscendingBefore ==
    ASSUME NEW lock \in Locks, NEW low \in Nat, NEW s, Ascends(s, low), Rank(lock) < low
    PROVE  Ascends(<<lock>> \o s, Rank(lock))
<1> DEFINE u == <<lock>> \o s
<1>1. s \in Seq(Locks) /\ Len(s) \in Nat /\ Rank(lock) \in Nat
      /\ \A n \in 1 .. Len(s) : s[n] \in Locks /\ Rank(s[n]) \in Nat
  <2>1. s \in Seq(Locks)
    BY DEF Ascends, Sections
  <2>2. Len(s) \in Nat /\ \A n \in 1 .. Len(s) : s[n] \in Locks
    BY <2>1, LenProperties, ElementOfSeq
  <2>3. \A k \in Locks : Rank(k) \in Nat
    BY Ranks, TopBounds
  <2> QED
    BY <2>1, <2>2, <2>3
<1>2. /\ u \in Sections /\ Len(u) = Len(s) + 1
      /\ u[1] = lock
      /\ \A n \in 2 .. Len(u) : u[n] = s[n - 1] /\ n - 1 \in 1 .. Len(s)
  BY <1>1 DEF Sections
<1> HIDE DEF u
<1>3. \A n \in 2 .. Len(u) : Rank(u[n]) \in Nat /\ Rank(u[n]) >= low
  BY <1>1, <1>2 DEF Ascends
<1>4. \A n \in 1 .. Len(u) : Rank(u[n]) >= Rank(lock)
  BY <1>1, <1>2, <1>3
<1>5. ASSUME NEW m \in 1 .. Len(u), NEW n \in 1 .. Len(u), m < n
      PROVE  Rank(u[m]) < Rank(u[n])
  <2>1. n \in 2 .. Len(u)
    BY <1>1, <1>2, <1>5
  <2>2. CASE m = 1
    BY <1>1, <1>2, <1>3, <2>1, <2>2
  <2>3. CASE m # 1
    <3>1. m \in 2 .. Len(u) /\ m - 1 < n - 1
      BY <1>1, <1>2, <1>5, <2>3
    <3> QED
      BY <1>2, <2>1, <3>1 DEF Ascends
  <2> QED
    BY <2>2, <2>3
<1> QED
  BY <1>2, <1>4, <1>5 DEF Ascends, u

\* The history lock stands after all others.
LEMMA AscendingHistory ==
    ASSUME NEW low \in Nat, low <= 3 + Top, NEW s, Ascends(s, low),
           Lock("history") \notin LocksOf(s)
    PROVE  Ascends(s \o <<Lock("history")>>, low)
<1> DEFINE u == s \o <<Lock("history")>>
<1>1. s \in Seq(Locks) /\ Len(s) \in Nat /\ Lock("history") \in Locks /\ Top \in Nat
      /\ \A n \in 1 .. Len(s) : s[n] \in Locks /\ s[n] # Lock("history")
  <2>1. s \in Seq(Locks)
    BY DEF Ascends, Sections
  <2> QED
    BY <2>1, LenProperties, ElementOfSeq, NamesAreLocks, TopBounds DEF Names, LocksOf
<1>2. /\ u \in Sections /\ Len(u) = Len(s) + 1
      /\ u[Len(s) + 1] = Lock("history")
      /\ \A n \in 1 .. Len(s) : u[n] = s[n]
  BY <1>1 DEF Sections
<1> HIDE DEF u
<1>3. ASSUME NEW lock \in Locks, lock # Lock("history")
      PROVE  Rank(lock) \in Nat /\ Rank(lock) < 3 + Top
  <2>1. CASE \E name \in Names : lock = Lock(name)
    <3> PICK name \in Names : lock = Lock(name)
      BY <2>1
    <3> QED
      BY <1>1, <1>3, Ranks DEF Names
  <2>2. CASE \E i \in Stripes : lock = JobLock(i)
    <3> PICK i \in Stripes : lock = JobLock(i)
      BY <2>2
    <3>1. Rank(lock) = 3 + i /\ i \in Nat /\ i < Top
      BY Ranks, LocksAssumption
    <3> QED
      BY <1>1, <3>1
  <2> QED
    BY <2>1, <2>2 DEF Locks
<1>4. \A n \in 1 .. Len(s) :
        Rank(u[n]) \in Nat /\ Rank(u[n]) < 3 + Top /\ Rank(u[n]) >= low
  BY <1>1, <1>2, <1>3 DEF Ascends
<1>5. Rank(u[Len(s) + 1]) = 3 + Top
  BY <1>2, Ranks
<1>6. \A n \in 1 .. Len(u) : n \in 1 .. Len(s) \/ n = Len(s) + 1
  BY <1>1, <1>2
<1>7. \A n \in 1 .. Len(u) : Rank(u[n]) >= low
  BY <1>1, <1>4, <1>5, <1>6
<1>8. ASSUME NEW m \in 1 .. Len(u), NEW n \in 1 .. Len(u), m < n
      PROVE  Rank(u[m]) < Rank(u[n])
  <2>1. m \in 1 .. Len(s)
    BY <1>1, <1>2, <1>8
  <2>2. CASE n = Len(s) + 1
    BY <1>4, <1>5, <2>1, <2>2
  <2>3. CASE n \in 1 .. Len(s)
    BY <1>2, <1>8, <2>1, <2>3 DEF Ascends
  <2> QED
    BY <1>6, <2>2, <2>3
<1> QED
  BY <1>2, <1>7, <1>8 DEF Ascends, u

\* The stripes of a section are in ascending order, and are all it takes.
LEMMA AscendingStripes ==
    ASSUME NEW S \in SUBSET Stripes
    PROVE  LET indexes == Sorted(S)
               section == [n \in DOMAIN indexes |-> JobLock(indexes[n])]
           IN  Ascends(section, 3) /\ Lock("history") \notin LocksOf(section)
<1> DEFINE c == Cardinality(S)
<1> DEFINE section == [n \in DOMAIN Sorted(S) |-> JobLock(Sorted(S)[n])]
<1>1. S \subseteq Nat /\ IsFiniteSet(S)
  BY LocksAssumption, FS_Subset
<1>2. c \in Nat /\ Sorted(S) \in [1 .. c -> S]
  BY <1>1, SortedKeepsAll
<1>3. \A m, n \in 1 .. c : m < n => Sorted(S)[m] < Sorted(S)[n]
  BY <1>1, <1>2, AscendingExists DEF Sorted
<1>4. section \in Sections
  BY StripeLocks
<1> HIDE DEF c
<1>5. /\ DOMAIN section = 1 .. c
      /\ \A n \in 1 .. c : section[n] = JobLock(Sorted(S)[n]) /\ Sorted(S)[n] \in Stripes
  BY <1>2
<1>6. Len(section) = c
  <2> HIDE DEF section
  <2> QED
    BY <1>2, <1>4, <1>5, LenProperties DEF Sections
<1> HIDE DEF section
<1>7. \A n \in 1 .. c : Rank(section[n]) = 3 + Sorted(S)[n] /\ Sorted(S)[n] \in Nat
  BY <1>5, Ranks, LocksAssumption
<1>8. Lock("history") \notin LocksOf(section)
  BY <1>5, <1>6 DEF LocksOf, Lock, JobLock
<1>9. \A n \in 1 .. c : Rank(section[n]) >= 3
  BY <1>7
<1>10. \A m, n \in 1 .. c : m < n => Rank(section[m]) < Rank(section[n])
  BY <1>3, <1>7
<1>11. Ascends(section, 3)
  BY <1>4, <1>6, <1>9, <1>10 DEF Ascends
<1> QED
  BY <1>8, <1>11 DEF section

Orderly(plan) == \A i \in 1 .. Len(plan) : Ascends(plan[i], 0)

\* A section in order from some place on is in order.
LEMMA AscendsFromZero ==
    ASSUME NEW low \in Nat, NEW s, Ascends(s, low)
    PROVE  Ascends(s, 0)
<1>1. \A n \in 1 .. Len(s) : s[n] \in Locks
  <2>1. s \in Seq(Locks)
    BY DEF Ascends, Sections
  <2> QED
    BY <2>1, ElementOfSeq
<1>2. \A lock \in Locks : Rank(lock) >= 0
  BY Ranks, TopBounds
<1> QED
  BY <1>1, <1>2 DEF Ascends

\* A save may add the history lock, at the end.
LEMMA SavingAscends ==
    ASSUME NEW low \in Nat, low <= 3, NEW s, Ascends(s, low),
           Lock("history") \notin LocksOf(s), NEW section \in Saving(s)
    PROVE  Ascends(section, low)
<1>1. s \in Seq(Locks) /\ Lock("history") \in Locks /\ low <= 3 + Top
  BY NamesAreLocks, TopBounds DEF Ascends, Sections, Names
<1>2. Append(s, Lock("history")) = s \o <<Lock("history")>>
  BY <1>1, AppendIsConcat
<1> QED
  BY <1>1, <1>2, AscendingHistory DEF Saving

\* Every handler takes its locks in one order: backup, import, corpus, stripes
\* by number, history.
LEMMA PlansAreOrderly ==
    ASSUME NEW kind \in AllKinds, NEW js \in SUBSET Jobs, NEW plan \in Plans(kind, js)
    PROVE  Orderly(plan)
<1> DEFINE hands == JobLocks(js)
<1>1. Ascends(hands, 3) /\ Lock("history") \notin LocksOf(hands)
  <2>1. {StripeOf[j] : j \in js} \in SUBSET Stripes
    BY LocksAssumption
  <2> QED
    BY <2>1, AscendingStripes DEF JobLocks
<1>2. Ascends(AllJobLocks, 3) /\ Lock("history") \notin LocksOf(AllJobLocks)
  BY AscendingStripes DEF AllJobLocks
<1>3. /\ Lock("backup") \in Locks /\ Lock("import") \in Locks
      /\ Lock("corpus") \in Locks /\ Lock("history") \in Locks
  BY NamesAreLocks DEF Names
<1>4. Ascends(<<>>, 3)
  <2>1. <<>> \in Sections /\ Len(<<>>) = 0
    BY EmptySeq DEF Sections
  <2> QED
    BY <2>1 DEF Ascends
<1>5. \A s : Ascends(s, 3) => Ascends(WithCorpus(s), 2)
  BY <1>3, Ranks, AscendingBefore DEF WithCorpus
<1>6. \A s : Ascends(s, 2) => Ascends(<<Lock("import")>> \o s, 1)
  BY <1>3, Ranks, AscendingBefore
<1>7. \A s : Ascends(s, 1) => Ascends(<<Lock("backup")>> \o s, 0)
  BY <1>3, Ranks, AscendingBefore
<1>8. 3 <= 3 + Top
  BY TopBounds
<1>9. Ascends(Batch(js), 3) /\ Ascends(AllJobLocks \o <<Lock("history")>>, 3)
  BY <1>1, <1>2, <1>8, AscendingHistory DEF Batch
<1>10. \A lock \in Locks : Ascends(<<lock>>, 0)
  <2> SUFFICES ASSUME NEW lock \in Locks PROVE Ascends(<<lock>>, 0)
    OBVIOUS
  <2>1. <<lock>> \in Sections /\ Rank(lock) >= 0
    BY SingleLock, Ranks, TopBounds
  <2> QED
    BY <2>1 DEF Ascends
<1>11. Lock("history") \notin LocksOf(WithCorpus(hands))
  <2>1. <<Lock("corpus")>> \in Sections /\ LocksOf(<<Lock("corpus")>>) = {Lock("corpus")}
        /\ hands \in Sections
    BY <1>1, <1>3, SingleLock DEF Ascends
  <2>2. LocksOf(WithCorpus(hands)) = {Lock("corpus")} \cup LocksOf(hands)
    BY <2>1, ConcatLocks DEF WithCorpus
  <2>3. Lock("history") # Lock("corpus")
    BY DEF Lock
  <2> QED
    BY <1>1, <2>2, <2>3
<1> HIDE DEF hands
<1>12. \A last \in Saving(hands) : Ascends(last, 0)
  BY <1>1, SavingAscends, AscendsFromZero
<1>13. Ascends(hands, 0) /\ Ascends(Batch(js), 0) /\ Ascends(WithCorpus(Batch(js)), 0)
       /\ Ascends(WithCorpus(<<>>), 0) /\ Ascends(<<>>, 0)
  BY <1>1, <1>4, <1>5, <1>9, AscendsFromZero
<1>14. \A last \in Saving(WithCorpus(hands)) : Ascends(last, 0)
  BY <1>1, <1>5, <1>11, SavingAscends, AscendsFromZero
<1>15. Ascends(<<Lock("import")>> \o WithCorpus(Batch(js)), 0)
  BY <1>5, <1>6, <1>9, AscendsFromZero
<1>16. Ascends(Everything, 0)
  <2> DEFINE rest == WithCorpus(AllJobLocks \o <<Lock("history")>>)
  <2>1. Ascends(rest, 2)
    BY <1>5, <1>9
  <2>2. Ascends(<<Lock("backup")>> \o (<<Lock("import")>> \o rest), 0)
    BY <1>6, <1>7, <2>1
  <2>3. rest \in Seq(Locks)
    BY <2>1 DEF Ascends, Sections
  <2> HIDE DEF rest
  <2>4. <<Lock("backup"), Lock("import")>> \o rest
          = <<Lock("backup")>> \o (<<Lock("import")>> \o rest)
    BY <1>3, <2>3
  <2> QED
    BY <2>2, <2>4 DEF Everything, rest
<1>17. CASE kind = "upload"
  <2>1. PICK last \in Saving(hands) : plan = << <<Lock("backup")>>, hands, last >>
    BY <1>17 DEF Plans, PlansOf, hands
  <2> QED
    BY <1>3, <1>10, <1>12, <1>13, <2>1 DEF Orderly
<1>18. CASE kind \in {"edit", "recommend"}
  <2>1. PICK last \in Saving(hands) : plan = <<last>> \/ plan = <<last, last>>
    BY <1>18 DEF Plans, PlansOf, hands
  <2>2. \A i \in 1 .. Len(plan) : plan[i] = last
    BY <2>1
  <2> QED
    BY <1>12, <2>2 DEF Orderly
<1>19. CASE kind = "include"
  <2>1. PICK last \in Saving(WithCorpus(hands)) : plan = <<last>>
    BY <1>19 DEF Plans, PlansOf, hands
  <2> QED
    BY <1>14, <2>1 DEF Orderly
<1>20. CASE kind \notin {"upload", "edit", "recommend", "include"}
  <2>1. PICK section : /\ plan = <<section>>
                       /\ section \in {Batch(js), WithCorpus(Batch(js)),
                             <<Lock("import")>> \o WithCorpus(Batch(js)),
                             WithCorpus(<<>>), Everything, <<Lock("history")>>, hands, <<>>}
    BY <1>20 DEF Plans, PlansOf, AllKinds, hands
  <2>2. Ascends(<<Lock("history")>>, 0)
    BY <1>3, <1>10
  <2>3. Ascends(section, 0)
    BY <1>13, <1>15, <1>16, <2>1, <2>2
  <2>4. Len(plan) = 1 /\ plan[1] = section
    BY <2>1
  <2> QED
    BY <2>3, <2>4 DEF Orderly
<1> QED
  BY <1>17, <1>18, <1>19, <1>20

\* So does any request.
LEMMA CallsAreOrderly ==
    ASSUME NEW call \in Calls
    PROVE  Orderly(call.plan)
<1>1. PICK kind \in Kinds : call \in UNION {CallsOf(kind, js) : js \in Named(kind)}
  BY DEF Calls
<1>2. PICK js \in Named(kind) : call \in CallsOf(kind, js)
  BY <1>1
<1>3. PICK plan \in Plans(kind, js) : call = [kind |-> kind, jobs |-> js, plan |-> plan]
  BY <1>2 DEF CallsOf
<1>4. kind \in AllKinds /\ js \in SUBSET Jobs
  BY LocksAssumption DEF Named
<1> QED
  BY <1>3, <1>4, PlansAreOrderly

\* Before a request has its side of the data lock, and after its end, it has
\* none; and only a handler's thread holds locks.
IdleOK ==
    \A r \in Requests :
        /\ stage[r] \in {"submitted", "blocked", "ended"} => flock[r] = "none"
        /\ ~ InHandler(r) => HeldLocks(r) = {}

WaitInv == LockInv /\ FlocksOK /\ IdleOK

\* At the start nobody holds anything.
LEMMA InitEstablishesWaitInv == Init => WaitInv
<1> SUFFICES ASSUME Init PROVE WaitInv
  OBVIOUS
<1>1. FlocksOK
  BY DEF Init, FlocksOK, Sides
<1>2. IdleOK
  BY DEF Init, IdleOK, HeldLocks
<1> QED
  BY <1>1, <1>2, InitEstablishesLockInv DEF WaitInv

\* A step that leaves the locks of the handlers alone.
LEMMA MovesKeepIdle ==
    ASSUME WaitInv, NEW r \in Requests, NEW gate \in Stages, GoTo(r, gate),
           UNCHANGED <<todo, held>>,
           InHandler(r) => gate \in {"running", "inside"} \/ todo[r] = <<>>,
           NEW side \in Sides, flock' = [flock EXCEPT ![r] = side],
           gate \in {"submitted", "blocked", "ended"} => side = "none"
    PROVE  FlocksOK' /\ IdleOK'
<1>1. FlocksOK'
  BY DEF WaitInv, FlocksOK
<1>2. \A s : HeldLocks(s)' = HeldLocks(s)
  BY DEF HeldLocks
<1>3. stage'[r] = gate /\ flock'[r] = side
      /\ \A s \in Requests : s # r => stage'[s] = stage[s] /\ flock'[s] = flock[s]
  BY DEF WaitInv, LockInv, StagesOK, FlocksOK, GoTo
<1>4. ASSUME NEW s \in Requests
      PROVE  /\ stage'[s] \in {"submitted", "blocked", "ended"} => flock'[s] = "none"
             /\ ~ InHandler(s)' => HeldLocks(s)' = {}
  <2>1. CASE s # r
    BY <1>2, <1>3, <2>1 DEF WaitInv, IdleOK, InHandler
  <2>2. CASE s = r
    <3>1. ~ InHandler(r)' => HeldLocks(r) = {}
      <4>1. CASE todo[r] = <<>>
        BY <4>1 DEF HeldLocks
      <4>2. CASE ~ InHandler(r)
        BY <4>2 DEF WaitInv, IdleOK
      <4>3. CASE gate \in {"running", "inside"}
        BY <1>3, <4>3 DEF InHandler
      <4> QED
        BY <4>1, <4>2, <4>3
    <3> QED
      BY <1>2, <1>3, <2>2, <3>1
  <2> QED
    BY <2>1, <2>2
<1>5. IdleOK'
  BY <1>4 DEF IdleOK
<1> QED
  BY <1>1, <1>5

\* A step of a handler's thread between its locks.
LEMMA HandlersKeepIdle ==
    ASSUME WaitInv, NEW r \in Requests, InHandler(r), InHandler(r)',
           UNCHANGED flock,
           \A s \in Requests : s # r => /\ stage'[s] = stage[s]
                                        /\ todo'[s] = todo[s] /\ held'[s] = held[s]
    PROVE  FlocksOK' /\ IdleOK'
<1>1. FlocksOK'
  BY DEF WaitInv, FlocksOK
<1>2. ASSUME NEW s \in Requests
      PROVE  /\ stage'[s] \in {"submitted", "blocked", "ended"} => flock'[s] = "none"
             /\ ~ InHandler(s)' => HeldLocks(s)' = {}
  <2>1. CASE s # r
    <3>1. stage'[s] = stage[s] /\ todo'[s] = todo[s] /\ held'[s] = held[s]
      BY <2>1
    <3>2. HeldLocks(s)' = HeldLocks(s) /\ InHandler(s)' = InHandler(s)
      BY <3>1 DEF HeldLocks, InHandler
    <3> QED
      BY <3>1, <3>2 DEF WaitInv, IdleOK
  <2>2. CASE s = r
    BY <2>2 DEF InHandler
  <2> QED
    BY <2>1, <2>2
<1>3. IdleOK'
  BY <1>2 DEF IdleOK
<1> QED
  BY <1>1, <1>3

\* Every step keeps the invariant of waiting, action by action.
LEMMA NextKeepsWaitInv == WaitInv /\ [Next]_vars => WaitInv'
<1> SUFFICES ASSUME WaitInv, [Next]_vars PROVE WaitInv'
  OBVIOUS
<1>0. LockInv' /\ StagesOK /\ FlocksOK
  BY NextKeepsLockInv DEF WaitInv, LockInv
<1>1. ASSUME UNCHANGED <<stage, flock, todo, held>>
      PROVE  WaitInv'
  <2>1. \A s : HeldLocks(s)' = HeldLocks(s) /\ InHandler(s)' = InHandler(s)
    BY <1>1 DEF HeldLocks, InHandler
  <2> QED
    BY <1>0, <1>1, <2>1 DEF WaitInv, FlocksOK, IdleOK
<1>2. CASE UNCHANGED vars
  BY <1>1, <1>2 DEF vars
<1>3. CASE Next
  <2> PICK r \in Requests : Work(r) \/ Cancel(r)
    BY <1>3 DEF Next
  <2>0. flock[r] \in Sides /\ flock = [flock EXCEPT ![r] = flock[r]]
        /\ "none" \in Sides /\ Side(request[r].kind) \in Sides
    BY <1>0, SidesOfKinds DEF FlocksOK, Sides
  <2>1. CASE EnterFlock(r)
    <3>1. flock[r] = "none"
      BY <2>1 DEF EnterFlock, WaitInv, IdleOK
    <3> QED
      BY <1>0, <2>0, <2>1, <3>1, MovesKeepIdle DEF EnterFlock, Stages, InHandler, WaitInv
  <2>2. CASE GetFlock(r)
    BY <1>0, <2>0, <2>2, MovesKeepIdle DEF GetFlock, Stages, InHandler, WaitInv
  <2>3. CASE Cancel(r)
    BY <1>1, <2>3 DEF Cancel
  <2>4. CASE ReleaseOrphan(r)
    BY <1>0, <2>0, <2>4, MovesKeepIdle DEF ReleaseOrphan, Stages, InHandler, WaitInv
  <2>5. CASE Admit(r)
    BY <1>0, <2>0, <2>5, MovesKeepIdle DEF Admit, Stages, InHandler, WaitInv
  <2>6. CASE StartHandler(r)
    BY <1>0, <2>0, <2>6, MovesKeepIdle DEF StartHandler, Stages, InHandler, WaitInv
  <2>7. CASE TakeLock(r)
    BY <1>0, <2>7, HandlersKeepIdle
    DEF TakeLock, InHandler, WaitInv, LockInv, HeldOK
  <2>8. CASE BeginSection(r)
    BY <1>0, <2>0, <2>8, MovesKeepIdle DEF BeginSection, Stages, InHandler, WaitInv
  <2>9. CASE EndSection(r)
    <3>1. stage[r] = "inside" /\ stage'[r] = "running" /\ flock' = flock
          /\ \A s \in Requests : s # r => stage'[s] = stage[s]
      BY <1>0, <2>9 DEF EndSection, GoTo, StagesOK
    <3>2. \A s \in Requests : s # r => todo'[s] = todo[s] /\ held'[s] = held[s]
      <4>1. todo = [s \in Requests |-> todo[s]] /\ held \in [Requests -> Nat]
        BY DEF WaitInv, LockInv, RestOK, HeldOK
      <4> QED
        BY <2>9, <4>1 DEF EndSection
    <3> QED
      BY <1>0, <3>1, <3>2, HandlersKeepIdle DEF InHandler, WaitInv
  <2>10. CASE Finish(r)
    BY <1>0, <2>0, <2>10, MovesKeepIdle DEF Finish, Stages, InHandler, WaitInv
  <2> QED
    BY <2>1, <2>2, <2>3, <2>4, <2>5, <2>6, <2>7, <2>8, <2>9, <2>10 DEF Work
<1> QED
  BY <1>2, <1>3

\* The lock that a thread waits for stands after those that anybody holds who
\* waits for an earlier one, so the thread furthest in the order waits for
\* nobody who waits.
LEMMA FurthestMayGoOn ==
    ASSUME WaitInv, NEW r \in Requests, stage[r] = "running", ~ CanGoOn(r)
    PROVE  \E s \in Requests : CanGoOn(s)
<1> DEFINE Waiting == {s \in Requests : stage[s] = "running" /\ ~ CanGoOn(s)}
<1> DEFINE Wanted(s) == Head(todo[s])[held[s] + 1]
<1>1. ASSUME NEW s \in Waiting
      PROVE  /\ todo[s] # <<>> /\ held[s] \in Nat /\ held[s] + 1 \in 1 .. Len(Head(todo[s]))
             /\ Wanted(s) \in Locks
             /\ ~ Free(Wanted(s))
             /\ \A n \in 1 .. held[s] : Rank(Head(todo[s])[n]) < Rank(Wanted(s))
  <2>1. todo[s] # <<>>
    BY DEF CanGoOn
  <2>2. PICK d \in 1 .. Len(request[s].plan) : Head(todo[s]) = request[s].plan[d]
    BY <2>1, RestOfPlan DEF WaitInv, LockInv
  <2>3. Ascends(Head(todo[s]), 0)
    <3>1. Orderly(request[s].plan)
      BY CallsAreOrderly DEF WaitInv, LockInv, CallsOK
    <3> QED
      BY <2>2, <3>1 DEF Orderly
  <2>4. Head(todo[s]) \in Seq(Locks) /\ Len(Head(todo[s])) \in Nat
    BY <2>3, LenProperties DEF Ascends, Sections
  <2>5. held[s] \in Nat /\ held[s] < Len(Head(todo[s])) /\ ~ Free(Wanted(s))
    <3>1. held[s] \in Nat /\ held[s] <= Len(Head(todo[s]))
      BY <2>1 DEF WaitInv, LockInv, HeldOK
    <3>2. held[s] # Len(Head(todo[s]))
      BY <2>1 DEF CanGoOn
    <3>3. held[s] < Len(Head(todo[s]))
      BY <2>4, <3>1, <3>2
    <3> QED
      BY <2>1, <3>1, <3>3 DEF CanGoOn
  <2>6. held[s] + 1 \in 1 .. Len(Head(todo[s]))
    BY <2>4, <2>5
  <2>7. Wanted(s) \in Locks
    BY <2>4, <2>6, ElementOfSeq
  <2>8. ASSUME NEW n \in 1 .. held[s] PROVE Rank(Head(todo[s])[n]) < Rank(Wanted(s))
    <3>1. n \in 1 .. Len(Head(todo[s])) /\ n < held[s] + 1
      BY <2>4, <2>5
    <3> QED
      BY <2>3, <2>6, <3>1 DEF Ascends
  <2> QED
    BY <2>1, <2>5, <2>6, <2>7, <2>8
<1>2. \A s \in Waiting : Rank(Wanted(s)) \in Nat /\ Rank(Wanted(s)) <= 3 + Top
  BY <1>1, Ranks, TopBounds
<1> DEFINE Left(s) == 3 + Top - Rank(Wanted(s))
<1> HIDE DEF Wanted, Waiting
<1>3. \A s \in Waiting : Left(s) \in Nat
  BY <1>2, TopBounds
<1>4. r \in Waiting
  BY DEF Waiting
<1>5. PICK s \in Waiting : \A q \in Waiting : Left(s) <= Left(q)
  <2> DEFINE Lefts == {Left(s) : s \in Waiting}
  <2>1. Lefts \subseteq Nat /\ Lefts # {}
    BY <1>3, <1>4
  <2> HIDE DEF Lefts
  <2>2. PICK least \in Lefts : \A n \in Lefts : <<n, least>> \notin OpToRel(<, Nat)
    BY <2>1, NatLessThanWellFounded, WFMin
  <2>3. \A n \in Lefts : least <= n
    <3>1. \A n \in Lefts : ~ (n < least)
      BY <2>1, <2>2 DEF OpToRel
    <3> QED
      BY <2>1, <3>1
  <2>4. PICK s \in Waiting : least = Left(s)
    BY DEF Lefts
  <2>5. \A q \in Waiting : Left(q) \in Lefts
    BY DEF Lefts
  <2> QED
    BY <2>3, <2>4, <2>5
<1>6. PICK q \in Requests : Wanted(s) \in HeldLocks(q)
  BY <1>1, <1>5 DEF Free
<1>7. /\ stage[q] \in {"running", "inside"} /\ todo[q] # <<>>
      /\ \E n \in 1 .. held[q] : Wanted(s) = Head(todo[q])[n]
  BY <1>6 DEF WaitInv, IdleOK, InHandler, HeldLocks
<1>8. q \notin Waiting
  <2>1. ASSUME q \in Waiting PROVE FALSE
    <3>1. Rank(Wanted(s)) < Rank(Wanted(q))
      BY <1>1, <1>7, <2>1
    <3>2. Left(q) < Left(s)
      BY <1>2, <1>5, <2>1, <3>1, TopBounds
    <3> QED
      BY <1>3, <1>5, <2>1, <3>2
  <2> QED
    BY <2>1
<1>9. CanGoOn(q)
  <2>1. CASE stage[q] = "inside"
    BY <2>1 DEF CanGoOn
  <2>2. CASE stage[q] = "running"
    BY <1>8, <2>2 DEF Waiting
  <2> QED
    BY <1>7, <2>1, <2>2
<1> QED
  BY <1>9

\* Unless all have ended somebody can go on: a handler's thread, or else one
\* that waits for such a thread, or else one that waits for the data lock,
\* which nobody has then.
LEMMA WaitInvGoesOn == WaitInv => AllEnded \/ \E r \in Requests : CanGoOn(r)
<1> SUFFICES ASSUME WaitInv, NEW r \in Requests, stage[r] # "ended",
                    \A s \in Requests : ~ CanGoOn(s)
             PROVE  FALSE
  BY DEF AllEnded
<1>1. \A s \in Requests : stage[s] \in Stages
  BY DEF WaitInv, LockInv, StagesOK
<1>2. \A s \in Requests : ~ InHandler(s)
  BY FurthestMayGoOn DEF InHandler, CanGoOn
<1>3. Cardinality({}) = 0 /\ Workers \in Nat \ {0} /\ Tokens \in Nat \ {0}
  BY FS_EmptySet, LocksAssumption
<1>4. \A s \in Requests : stage[s] # "admitted"
  <2>1. {s \in Requests : InHandler(s) /\ InServer(s)} = {}
    BY <1>2
  <2>2. Cardinality({s \in Requests : InHandler(s) /\ InServer(s)}) < Tokens
    BY <1>3, <2>1
  <2> QED
    BY <2>2 DEF CanGoOn
<1>5. \A s \in Requests : stage[s] \in {"submitted", "blocked", "ended"}
  <2>1. \A s \in Requests : stage[s] \notin {"granted", "running", "inside"}
    BY <1>2 DEF CanGoOn, InHandler
  <2> QED
    BY <1>1, <1>4, <2>1 DEF Stages
<1>6. \A s \in Requests : stage[s] # "blocked"
  <2>1. \A s \in Requests : flock[s] = "none"
    BY <1>5 DEF WaitInv, IdleOK
  <2> QED
    BY <2>1 DEF CanGoOn, Grantable
<1>7. {s \in Requests : stage[s] = "blocked" /\ InServer(s)} = {}
  BY <1>6
<1>8. Cardinality({s \in Requests : stage[s] = "blocked" /\ InServer(s)}) < Workers
  BY <1>3, <1>7
<1>9. stage[r] = "submitted"
  BY <1>5, <1>6
<1> QED
  BY <1>8, <1>9 DEF CanGoOn

\* Whatever requests there are, whatever stripes their hands share and however
\* small the pools: unless all requests have ended, the guard of a step of one
\* of them holds.  No cycle of locks, no exhausted pool and no cancelled request
\* stops the server.
THEOREM SomebodyCanGoOn == Spec => [](AllEnded \/ \E r \in Requests : CanGoOn(r))
<1>1. Init => WaitInv
  BY InitEstablishesWaitInv
<1>2. WaitInv /\ [Next]_vars => WaitInv'
  BY NextKeepsWaitInv
<1>3. WaitInv => AllEnded \/ \E r \in Requests : CanGoOn(r)
  BY WaitInvGoesOn
<1> QED
  BY <1>1, <1>2, <1>3, PTL DEF Spec
=============================================================================
