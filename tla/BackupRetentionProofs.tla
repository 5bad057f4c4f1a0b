------------------------ MODULE BackupRetentionProofs ------------------------
(***************************************************************************)
(* What a run of the backup command has published when it reports it, and  *)
(* what retention leaves, for any number of runs, any names, any failures  *)
(* and any losses of power, in a destination that has been fsynced: one    *)
(* that another run has made and not fsynced, where a reported archive can *)
(* be lost, is excepted (see ReportedIsDurable and RetainedSurvive).       *)
(*                                                                         *)
(* A removal is counted against what the run that removes keeps: as long   *)
(* as nothing has been removed, everything that somebody counts on is on   *)
(* the disk, and after that as many archives as that run was asked for.    *)
(***************************************************************************)
EXTENDS BackupRetention, TLAPS, FiniteSetTheorems

\* The stages at which a run holds the lock of the destination.
Publishing == {"locked", "verified", "linked", "pruning", "published"}

LockIsHeld == \A e \in Exporters : stage[e] \in Publishing => lock = e

\* Nothing incomplete has a final name, or could get one back.
OnlyWhole ==
    /\ archives \cup durable \subseteq whole
    /\ \A e \in Exporters :
           stage[e] \in Publishing \ {"locked"} => e \in whole

Linked == \A e \in Exporters :
    stage[e] \in {"linked", "pruning", "published"} => e \in archives

Settled == \A e \in Exporters : stage[e] = "published" => durable = archives

\* The inductive invariant.
RetentionInv == TypeOK /\ LockIsHeld /\ OnlyWhole /\ Linked /\ Settled

\* With every entry and every removal on disk, the loss of power leaves the
\* directory as it is.
LEMMA InvImpliesReportedIsDurable == RetentionInv => ReportedIsDurable
<1> SUFFICES ASSUME RetentionInv, NEW e \in Exporters, stage[e] = "published",
                    NEW left \in AfterOutage
             PROVE  e \in left /\ left \subseteq whole
  BY DEF ReportedIsDurable
<1>1. durable = archives
  BY DEF RetentionInv, Settled
<1>2. left = archives
  BY <1>1 DEF AfterOutage
<1>3. e \in archives
  BY DEF RetentionInv, Linked
<1>4. archives \subseteq whole
  BY DEF RetentionInv, OnlyWhole
<1> QED
  BY <1>2, <1>3, <1>4

\* At the start nothing runs, and what is there is complete and durable.
LEMMA InitEstablishesRetentionInv == Init => RetentionInv
BY DEF Init, RetentionInv, TypeOK, Stages, LockIsHeld, OnlyWhole, Linked,
       Settled, Publishing

\* What the steps of one run that leave the directory alone preserve.
LEMMA QuietStep ==
    ASSUME RetentionInv, NEW e \in Exporters, NEW gate \in Stages, GoTo(e, gate),
           UNCHANGED <<retain, archives, durable>>,
           destination' \in {"absent", "made", "durable"},
           \/ lock' = lock
           \/ lock = None /\ lock' = e
           \/ lock' = Unlocked(e) /\ gate \notin Publishing,
           gate \in Publishing => lock' = e,
           \/ whole' = whole
           \/ whole' = whole \cup {e},
           gate \in Publishing \ {"locked"} => e \in whole',
           gate \in {"linked", "pruning", "published"} => e \in archives,
           gate = "published" => durable = archives
    PROVE  RetentionInv'
<1> USE DEF RetentionInv
<1>1. /\ stage \in [Exporters -> Stages]
      /\ stage' = [stage EXCEPT ![e] = gate]
  BY DEF TypeOK, GoTo
<1>2. /\ stage'[e] = gate
      /\ \A f \in Exporters \ {e} : stage'[f] = stage[f]
  BY <1>1
<1>3. TypeOK'
  BY <1>1, RetentionAssumption DEF TypeOK, Unlocked
<1>4. LockIsHeld'
  BY <1>2, RetentionAssumption DEF LockIsHeld, Unlocked
<1>5. OnlyWhole'
  BY <1>2 DEF OnlyWhole
<1>6. Linked'
  BY <1>2 DEF Linked
<1>7. Settled'
  BY <1>2 DEF Settled
<1> QED
  BY <1>3, <1>4, <1>5, <1>6, <1>7

\* While a run publishes, no other one does.
LEMMA Alone ==
    ASSUME RetentionInv, NEW e \in Exporters, stage[e] \in Publishing,
           NEW f \in Exporters, f # e
    PROVE  stage[f] \notin Publishing
BY DEF RetentionInv, LockIsHeld

\* What the steps that change the directory, or make it durable, preserve:
\* the run that takes one is the only one with anything to lose.
LEMMA DirectoryStep ==
    ASSUME RetentionInv, NEW e \in Exporters, stage[e] \in Publishing \ {"locked"},
           NEW gate \in Publishing \ {"locked"}, GoTo(e, gate),
           UNCHANGED <<retain, destination, lock, whole>>,
           archives' \subseteq archives \cup {e},
           durable' \in {durable, archives},
           gate # "verified" => e \in archives',
           gate = "published" => durable' = archives'
    PROVE  RetentionInv'
<1> USE DEF RetentionInv
<1>1. /\ stage \in [Exporters -> Stages]
      /\ stage' = [stage EXCEPT ![e] = gate]
      /\ gate \in Stages
  BY DEF TypeOK, GoTo, Publishing, Stages
<1>2. /\ stage'[e] = gate
      /\ \A f \in Exporters \ {e} :
             stage'[f] = stage[f] /\ stage'[f] \notin Publishing
  BY <1>1, Alone
<1>3. e \in whole
  BY DEF OnlyWhole
<1>4. TypeOK'
  BY <1>1 DEF TypeOK
<1>5. LockIsHeld'
  BY <1>2 DEF LockIsHeld
<1>6. OnlyWhole'
  BY <1>2, <1>3 DEF OnlyWhole
<1>7. Linked'
  BY <1>2 DEF Linked, Publishing
<1>8. Settled'
  BY <1>2 DEF Settled, Publishing
<1> QED
  BY <1>4, <1>5, <1>6, <1>7, <1>8

\* After a loss of power nobody publishes, and nothing has come that was not
\* there or on the disk before.
LEMMA OutageStep == ASSUME RetentionInv, Outage PROVE RetentionInv'
<1> USE DEF RetentionInv
<1>1. archives' \subseteq archives \cup durable
  BY DEF Outage, AfterOutage
<1>2. \A e \in Exporters : stage'[e] \notin Publishing
  BY DEF Outage, Running, TypeOK, Stages, Publishing
<1>3. TypeOK'
  BY <1>1 DEF Outage, TypeOK, Stages
<1>4. LockIsHeld'
  BY <1>2 DEF LockIsHeld
<1>5. OnlyWhole'
  BY <1>1, <1>2 DEF OnlyWhole, Outage
<1>6. Linked' /\ Settled'
  BY <1>2 DEF Linked, Settled, Publishing
<1> QED
  BY <1>3, <1>4, <1>5, <1>6

\* Every step keeps the invariant.
LEMMA StepPreservesRetentionInv == RetentionInv /\ [Next]_vars => RetentionInv'
<1> SUFFICES ASSUME RetentionInv, [Next]_vars PROVE RetentionInv'
  OBVIOUS
<1> USE DEF RetentionInv
<1>1. ASSUME NEW e \in Exporters, FindDestination(e) PROVE RetentionInv'
  <2>1. PICK gate \in {"missing", "ready"} : GoTo(e, gate)
    BY <1>1 DEF FindDestination
  <2> QED
    BY <1>1, <2>1, QuietStep
       DEF FindDestination, TypeOK, Stages, Publishing, outside
<1>2. ASSUME NEW e \in Exporters, MakeDestination(e) PROVE RetentionInv'
  BY <1>2, QuietStep DEF MakeDestination, TypeOK, Stages, Publishing, outside
<1>3. ASSUME NEW e \in Exporters, SyncParent(e) PROVE RetentionInv'
  BY <1>3, QuietStep DEF SyncParent, TypeOK, Stages, Publishing, outside
<1>4. ASSUME NEW e \in Exporters, LockDestination(e) PROVE RetentionInv'
  BY <1>4, QuietStep DEF LockDestination, TypeOK, Stages, Publishing, outside
<1>5. ASSUME NEW e \in Exporters, WriteAndVerify(e) PROVE RetentionInv'
  <2>1. lock = e
    BY <1>5 DEF WriteAndVerify, LockIsHeld, Publishing
  <2> QED
    BY <1>5, <2>1, QuietStep
       DEF WriteAndVerify, TypeOK, Stages, Publishing, outside
<1>6. ASSUME NEW e \in Exporters, Link(e) PROVE RetentionInv'
  BY <1>6, DirectoryStep DEF Link, Publishing, outside
<1>7. ASSUME NEW e \in Exporters, SyncPublication(e) PROVE RetentionInv'
  <2>1. e \in archives
    BY <1>7 DEF SyncPublication, Linked
  <2>2. /\ AfterPublication(e) \in Publishing \ {"locked"}
        /\ GoTo(e, AfterPublication(e))
    BY <1>7 DEF SyncPublication, AfterPublication, Publishing
  <2> QED
    BY <1>7, <2>1, <2>2, DirectoryStep DEF SyncPublication, Publishing, outside
<1>8. ASSUME NEW e \in Exporters, PruneOne(e) PROVE RetentionInv'
  <2>1. e \in archives
    BY <1>8 DEF PruneOne, Linked
  <2>2. e \in Kept(e)
    BY DEF Kept
  <2>3. GoTo(e, "pruning")
    BY <1>8 DEF PruneOne, GoTo, TypeOK
  <2>4. archives' \subseteq archives /\ e \in archives'
    BY <1>8, <2>1, <2>2 DEF PruneOne
  <2> QED
    BY <1>8, <2>3, <2>4, DirectoryStep DEF PruneOne, Publishing, outside
<1>9. ASSUME NEW e \in Exporters, SyncRetention(e) PROVE RetentionInv'
  <2>1. e \in archives
    BY <1>9 DEF SyncRetention, Linked
  <2> QED
    BY <1>9, <2>1, DirectoryStep DEF SyncRetention, Publishing, outside
<1>10. ASSUME NEW e \in Exporters, Report(e) PROVE RetentionInv'
  BY <1>10, QuietStep DEF Report, TypeOK, Stages, Publishing, outside
<1>11. ASSUME NEW e \in Exporters, Fail(e) PROVE RetentionInv'
  BY <1>11, QuietStep DEF Fail, TypeOK, Stages, Publishing, outside
<1>12. CASE UNCHANGED vars
  BY <1>12 DEF vars, TypeOK, LockIsHeld, OnlyWhole, Linked, Settled
<1> QED
  BY <1>1, <1>2, <1>3, <1>4, <1>5, <1>6, <1>7, <1>8, <1>9, <1>10, <1>11,
     <1>12, OutageStep DEF Next, Export

\* The variables of every run of the specification have their types: with
\* any options, any failures and any losses of power.
THEOREM RetentionTypeOK == Spec => []TypeOK
<1> QED
  BY InitEstablishesRetentionInv, StepPreservesRetentionInv, PTL
     DEF Spec, RetentionInv

\* "Success must fsync the published archive": what a run of the command
\* reports is on the disk, complete and readable, whatever any number of other
\* runs do to the directory and wherever they end - where the destination
\* itself is durable.  Of a destination that another run has made and not
\* fsynced nothing is claimed: there the code breaks its specification.
THEOREM ReportedArchiveIsDurable == Spec => []ReportedIsDurable
<1> QED
  BY InitEstablishesRetentionInv, StepPreservesRetentionInv,
     InvImpliesReportedIsDurable, PTL DEF Spec

-----------------------------------------------------------------------------
(***************************************************************************)
(* Counting archives                                                       *)
(***************************************************************************)

\* A set of numbers that is not empty has its Min.
LEMMA MinIsLeast ==
    ASSUME NEW S \in SUBSET Nat, S # {}
    PROVE  Min(S) \in S /\ \A k \in S : Min(S) <= k
<1>1. PICK m \in S : \A n \in S : ~ (<<n, m>> \in OpToRel(<, Nat))
  BY NatLessThanWellFounded, WFMin
<1>2. \A n \in S : m <= n
  <2>1. \A n \in S : ~ (n < m)
    BY <1>1 DEF OpToRel
  <2> QED
    BY <2>1
<1>3. \E x \in S : \A y \in S : x =< y
  BY <1>2
<1> QED
  BY <1>3 DEF Min

\* Of a finite set of numbers no more than n have fewer than n above them.
LEMMA FewAreNewest ==
    ASSUME NEW S \in SUBSET Nat, IsFiniteSet(S), NEW n \in Nat,
           NEW T \in SUBSET S,
           \A a \in T : Cardinality({b \in S : b > a}) < n
    PROVE  Cardinality(T) <= n
<1>1. IsFiniteSet(T) /\ Cardinality(T) \in Nat
  BY FS_Subset, FS_CardinalityType
<1>2. CASE T = {}
  BY <1>2, FS_EmptySet
<1>3. CASE T # {}
  <2>1. PICK m \in T : \A k \in T : m <= k
    <3>1. T \in SUBSET Nat
      OBVIOUS
    <3> QED
      BY <1>3, <3>1, MinIsLeast
  <2>2. \A k \in T \ {m} : k > m
    BY <2>1
  <2> DEFINE above == {b \in S : b > m}
  <2>3. T \ {m} \subseteq above
    BY <2>2
  <2>4. IsFiniteSet(above) /\ Cardinality(above) \in Nat
    BY FS_Subset, FS_CardinalityType
  <2>5. Cardinality(T \ {m}) <= Cardinality(above)
    BY <2>3, <2>4, FS_Subset
  <2>6. Cardinality(T \ {m}) = Cardinality(T) - 1
    BY <1>1, <2>1, FS_RemoveElement
  <2>7. Cardinality(above) < n
    BY <2>1
  <2> QED
    BY <1>1, <2>4, <2>5, <2>6, <2>7
<1> QED
  BY <1>2, <1>3

\* What a run keeps does not exceed its --retain.
LEMMA KeptIsBounded ==
    ASSUME NEW e \in Exporters, retain[e] \in Nat \ {0},
           archives \in SUBSET Nat, IsFiniteSet(archives)
    PROVE  IsFiniteSet(Kept(e)) /\ Cardinality(Kept(e)) <= retain[e]
<1> DEFINE S == archives \ {e}
           T == Kept(e) \ {e}
           n == retain[e] - 1
<1>1. S \in SUBSET Nat /\ IsFiniteSet(S) /\ n \in Nat
  <2>1. S \subseteq archives
    OBVIOUS
  <2>2. IsFiniteSet(S)
    BY <2>1, FS_Subset
  <2>3. S \in SUBSET Nat
    OBVIOUS
  <2>4. n \in Nat
    OBVIOUS
  <2> QED
    BY <2>2, <2>3, <2>4
<1>2. T \in SUBSET S
  BY DEF Kept
<1>3. ASSUME NEW a \in T
      PROVE  Cardinality({b \in S : b > a}) < n
  <2>1. {b \in S : b > a} = {b \in archives : b > a} \ {e}
    OBVIOUS
  <2> QED
    BY <2>1 DEF Kept
<1> HIDE DEF n
<1>4. Cardinality(T) <= n /\ IsFiniteSet(T) /\ Cardinality(T) \in Nat
  <2> HIDE DEF S, T
  <2> QED
    BY <1>1, <1>2, <1>3, FewAreNewest, FS_Subset, FS_CardinalityType
<1>5. Kept(e) = T \cup {e} /\ e \notin T
  BY DEF Kept
<1>6. IsFiniteSet(T \cup {e}) /\ Cardinality(T \cup {e}) = Cardinality(T) + 1
  <2> HIDE DEF T
  <2> QED
    BY <1>4, <1>5, FS_AddElement
<1> QED
  BY <1>4, <1>5, <1>6 DEF n

\* When there is an archive to remove, as many as --retain says are newer or
\* the run's own.
LEMMA RemovalLeavesRetained ==
    ASSUME NEW e \in archives, retain[e] \in Nat \ {0},
           archives \in SUBSET Nat, IsFiniteSet(archives),
           NEW a \in archives \ Kept(e)
    PROVE  Cardinality(archives \ {a}) >= retain[e]
<1> DEFINE newer == {b \in archives : b > a} \ {e}
<1>1. IsFiniteSet(newer) /\ Cardinality(newer) \in Nat
  BY FS_Subset, FS_CardinalityType
<1>2. a # e /\ ~ (Cardinality(newer) < retain[e] - 1)
  BY DEF Kept
<1>3. newer \cup {e} \subseteq archives \ {a} /\ e \notin newer
  <2>1. ~ (a > a)
    OBVIOUS
  <2> QED
    BY <1>2, <2>1
<1> HIDE DEF newer
<1>4. IsFiniteSet(newer \cup {e}) /\ Cardinality(newer \cup {e}) = Cardinality(newer) + 1
  BY <1>1, <1>3, FS_AddElement
<1>5. IsFiniteSet(archives \ {a}) /\ Cardinality(archives \ {a}) \in Nat
  BY FS_Subset, FS_CardinalityType
<1>6. Cardinality(newer \cup {e}) <= Cardinality(archives \ {a})
  BY <1>3, <1>5, FS_Subset
<1> QED
  BY <1>1, <1>2, <1>4, <1>5, <1>6

-----------------------------------------------------------------------------
(***************************************************************************)
(* Retention                                                               *)
(***************************************************************************)

\* Only finitely many archives are there, or have been reported.
FiniteOK == IsFiniteSet(archives) /\ IsFiniteSet(durable) /\ IsFiniteSet(Reported)

\* Removals begin when all that is there is on the disk.
PrunesDurable == \A e \in Exporters : stage[e] = "pruning" => archives \subseteq durable

\* Only runs with the option remove anything.
PrunesForOption == \A e \in Exporters : stage[e] = "pruning" => retain[e] # None

\* A run that has removed what it does not keep leaves no more.
SizeOK == \A e \in Exporters :
    stage[e] = "published" /\ retain[e] # None => Cardinality(archives) <= retain[e]

\* Of what a loss of power cannot take, either nothing that somebody counts on
\* is missing, or as much is left as some run keeps.
Survives(left) ==
    \/ Known \subseteq left
    \/ \E e \in Exporters : retain[e] # None /\ Cardinality(left) >= retain[e]

\* The inductive invariant of retention.
SurvivalInv ==
    /\ RetentionInv
    /\ FiniteOK
    /\ PrunesDurable
    /\ PrunesForOption
    /\ SizeOK
    /\ ~ vanished => Survives(archives \cap durable)

\* The option of a run, when it is given.
LEMMA RetainIsPositive ==
    ASSUME TypeOK, NEW e \in Exporters, retain[e] # None
    PROVE  retain[e] \in Nat \ {0}
BY RetentionAssumption DEF TypeOK

\* Among more archives still as many survive.
LEMMA MoreSurvive ==
    ASSUME TypeOK, NEW S, NEW T, IsFiniteSet(T), S \subseteq T, Survives(S)
    PROVE  Survives(T)
<1>1. CASE Known \subseteq S
  BY <1>1 DEF Survives
<1>2. ASSUME NEW e \in Exporters, retain[e] # None, Cardinality(S) >= retain[e]
      PROVE  Survives(T)
  <2>1. retain[e] \in Nat
    BY <1>2, RetainIsPositive
  <2>2. /\ Cardinality(S) \in Nat /\ Cardinality(T) \in Nat
        /\ Cardinality(S) <= Cardinality(T)
    BY FS_Subset, FS_CardinalityType
  <2>3. Cardinality(T) >= retain[e]
    BY <1>2, <2>1, <2>2
  <2> QED
    BY <1>2, <2>3 DEF Survives
<1> QED
  BY <1>1, <1>2 DEF Survives

\* What survives in number is what is guaranteed.
LEMMA InvImpliesRetainedSurvive == SurvivalInv => RetainedSurvive
<1> SUFFICES ASSUME SurvivalInv, ~ vanished, NEW left \in AfterOutage
             PROVE  /\ Cardinality(left \cap whole) >= Guaranteed
                    /\ \A e \in Exporters :
                           stage[e] = "published" /\ retain[e] # None
                               => Cardinality(left) <= retain[e]
  BY DEF RetainedSurvive
<1> USE DEF SurvivalInv, RetentionInv
<1>1. /\ archives \cap durable \subseteq left \cap whole
      /\ left \cap whole \subseteq archives \cup durable
      /\ IsFiniteSet(archives \cup durable)
  BY FS_Union DEF AfterOutage, OnlyWhole, FiniteOK
<1>2. IsFiniteSet(left \cap whole) /\ Cardinality(left \cap whole) \in Nat
  BY <1>1, FS_Subset, FS_CardinalityType
<1>3. Survives(left \cap whole)
  BY <1>1, <1>2, MoreSurvive
<1>4. IsFiniteSet(Known) /\ Cardinality(Known) \in Nat
  <2>1. IsFiniteSet(whole \cap Earlier)
    BY RetentionAssumption, FS_Subset
  <2> QED
    BY <2>1, FS_Union, FS_CardinalityType DEF Known, FiniteOK
<1>5. Cardinality(left \cap whole) >= Guaranteed
  <2> DEFINE S == {Cardinality(Known)} \cup ({retain[e] : e \in Exporters} \ {None})
  <2>1. S \in SUBSET Nat
    BY <1>4, RetainIsPositive
  <2>2. Guaranteed = Min(S)
    BY DEF Guaranteed
  <2>3. PICK k \in S : k <= Cardinality(left \cap whole)
    <3>1. CASE Known \subseteq left \cap whole
      <4>1. Cardinality(Known) <= Cardinality(left \cap whole)
        BY <1>2, <3>1, FS_Subset
      <4> QED
        BY <4>1
    <3>2. ASSUME NEW e \in Exporters, retain[e] # None,
                 Cardinality(left \cap whole) >= retain[e]
          PROVE  \E k \in S : k <= Cardinality(left \cap whole)
      <4>1. retain[e] \in S /\ retain[e] \in Nat
        BY <3>2, RetainIsPositive
      <4> QED
        BY <1>2, <3>2, <4>1
    <3> QED
      BY <1>3, <3>1, <3>2 DEF Survives
  <2> HIDE DEF S
  <2>4. Min(S) <= k /\ Min(S) \in Nat
    BY <2>1, <2>3, MinIsLeast
  <2>5. k \in Nat
    BY <2>1
  <2> QED
    BY <1>2, <2>2, <2>3, <2>4, <2>5
<1>6. ASSUME NEW e \in Exporters, stage[e] = "published", retain[e] # None
      PROVE  Cardinality(left) <= retain[e]
  <2>1. left = archives
    BY <1>6 DEF Settled, AfterOutage
  <2> QED
    BY <1>6, <2>1 DEF SizeOK
<1> QED
  BY <1>5, <1>6

\* The steps that leave the directory and what is durable in it alone.
LEMMA QuietSurvival ==
    ASSUME SurvivalInv, RetentionInv', NEW e \in Exporters, NEW gate, GoTo(e, gate),
           UNCHANGED <<retain, archives, durable, vanished>>,
           whole' \in {whole, whole \cup {e}},
           gate # "pruning", gate # "reported",
           gate = "published" /\ retain[e] # None => Cardinality(archives) <= retain[e]
    PROVE  SurvivalInv'
<1> USE DEF SurvivalInv
<1>1. /\ stage'[e] = gate
      /\ \A f \in Exporters \ {e} : stage'[f] = stage[f]
  BY DEF RetentionInv, TypeOK, GoTo
<1>2. Reported' \subseteq Reported
  BY <1>1 DEF Reported
<1>3. whole' \cap Earlier = whole \cap Earlier
  BY RetentionAssumption
<1>4. FiniteOK'
  BY <1>2, FS_Subset DEF FiniteOK
<1>5. PrunesDurable' /\ PrunesForOption' /\ SizeOK'
  BY <1>1 DEF PrunesDurable, PrunesForOption, SizeOK
<1>6. ~ vanished' => Survives(archives \cap durable)'
  <2>1. Known' \subseteq Known
    BY <1>2, <1>3 DEF Known
  <2> QED
    BY <2>1 DEF Survives
<1> QED
  BY <1>4, <1>5, <1>6

\* A run reports an archive that is in the directory and on the disk.
LEMMA ReportSurvival ==
    ASSUME SurvivalInv, RetentionInv', NEW e \in Exporters, Report(e)
    PROVE  SurvivalInv'
<1> USE DEF SurvivalInv
<1>1. /\ stage[e] = "published"
      /\ stage'[e] = "reported"
      /\ \A f \in Exporters \ {e} : stage'[f] = stage[f]
      /\ UNCHANGED <<retain, archives, durable, vanished, whole>>
  BY DEF RetentionInv, TypeOK, Report, GoTo, outside
<1>2. e \in archives \cap durable
  BY <1>1 DEF RetentionInv, Linked, Settled
<1>3. Reported' = Reported \cup {e}
  BY <1>1 DEF Reported
<1>4. FiniteOK'
  <2>1. IsFiniteSet(Reported \cup {e})
    BY FS_AddElement DEF FiniteOK
  <2> QED
    BY <1>1, <1>3, <2>1 DEF FiniteOK
<1>5. PrunesDurable' /\ PrunesForOption' /\ SizeOK'
  BY <1>1 DEF PrunesDurable, PrunesForOption, SizeOK
<1>6. ~ vanished' => Survives(archives \cap durable)'
  <2>1. Known' = Known \cup {e}
    BY <1>1, <1>3 DEF Known
  <2> QED
    BY <1>1, <1>2, <2>1 DEF Survives
<1> QED
  BY <1>4, <1>5, <1>6

\* The steps of the publishing run that change the directory or make it
\* durable: what they leave is no less, or as much as the run is to keep.
LEMMA DirectorySurvival ==
    ASSUME SurvivalInv, RetentionInv', NEW e \in Exporters,
           stage[e] \in Publishing \ {"locked"},
           NEW gate \in {"linked", "pruning", "published"}, GoTo(e, gate),
           UNCHANGED <<retain, vanished, whole>>,
           IsFiniteSet(archives'), IsFiniteSet(durable'),
           \/ archives \cap durable \subseteq archives' \cap durable'
           \/ retain[e] # None /\ Cardinality(archives' \cap durable') >= retain[e],
           gate = "pruning" => archives' \subseteq durable' /\ retain[e] # None,
           gate = "published" /\ retain[e] # None => Cardinality(archives') <= retain[e]
    PROVE  SurvivalInv'
<1> USE DEF SurvivalInv
<1>1. /\ stage'[e] = gate
      /\ \A f \in Exporters \ {e} :
             stage'[f] = stage[f] /\ stage'[f] \notin Publishing
  BY Alone DEF RetentionInv, TypeOK, GoTo
<1>2. Reported' = Reported
  BY <1>1 DEF Reported, Publishing
<1>3. FiniteOK'
  BY <1>2 DEF FiniteOK
<1>4. PrunesDurable' /\ PrunesForOption' /\ SizeOK'
  BY <1>1 DEF PrunesDurable, PrunesForOption, SizeOK, Publishing
<1>5. Known' = Known
  BY <1>2 DEF Known
<1>6. ~ vanished' => Survives(archives \cap durable)'
  <2>1. CASE retain[e] # None /\ Cardinality(archives' \cap durable') >= retain[e]
    BY <2>1 DEF Survives
  <2>2. CASE archives \cap durable \subseteq archives' \cap durable'
    <3>1. PICK left : left = archives' \cap durable'
      OBVIOUS
    <3>2. IsFiniteSet(left)
      BY <3>1, FS_Subset
    <3>3. ~ vanished => Survives(left)
      BY <2>2, <3>1, <3>2, MoreSurvive DEF RetentionInv
    <3> QED
      BY <1>5, <3>1, <3>3 DEF Survives
  <2> QED
    BY <2>1, <2>2
<1> QED
  BY <1>3, <1>4, <1>6

\* A loss of power takes nothing that is durable, unless it takes all.
LEMMA OutageSurvival ==
    ASSUME SurvivalInv, RetentionInv', Outage
    PROVE  SurvivalInv'
<1> USE DEF SurvivalInv
<1>1. /\ retain' = retain /\ whole' = whole /\ durable' = archives'
      /\ \A e \in Exporters :
             stage'[e] = IF Running(e) THEN "ended" ELSE stage[e]
  BY DEF Outage
<1>2. Reported' = Reported
  BY <1>1 DEF Reported, Running
<1>3. archives' \subseteq archives \cup durable
  BY DEF Outage, AfterOutage
<1>4. IsFiniteSet(archives')
  <2>1. IsFiniteSet(archives \cup durable)
    BY FS_Union DEF FiniteOK
  <2> QED
    BY <1>3, <2>1, FS_Subset
<1>5. FiniteOK'
  BY <1>1, <1>2, <1>4 DEF FiniteOK
<1>6. PrunesDurable' /\ PrunesForOption' /\ SizeOK'
  BY <1>1 DEF PrunesDurable, PrunesForOption, SizeOK, Running
<1>7. Known' = Known
  BY <1>1, <1>2 DEF Known
<1>8. ~ vanished' => Survives(archives \cap durable)'
  <2> SUFFICES ASSUME ~ vanished'
               PROVE  Survives(archives \cap durable)'
    OBVIOUS
  <2>1. archives' \in AfterOutage /\ ~ vanished
    BY DEF Outage
  <2>2. PICK left : left = archives'
    OBVIOUS
  <2>3. archives \cap durable \subseteq left /\ IsFiniteSet(left)
    BY <1>4, <2>1, <2>2 DEF AfterOutage
  <2>4. Survives(left)
    BY <2>1, <2>3, MoreSurvive DEF RetentionInv
  <2> QED
    BY <1>1, <1>7, <2>2, <2>4 DEF Survives
<1> QED
  BY <1>5, <1>6, <1>8

\* At the start everything that is there is original and durable.
LEMMA InitEstablishesSurvivalInv == Init => SurvivalInv
<1> SUFFICES ASSUME Init
             PROVE  SurvivalInv
  OBVIOUS
<1>1. RetentionInv
  BY InitEstablishesRetentionInv
<1>2. /\ archives \subseteq Earlier /\ durable = archives /\ whole = archives
      /\ \A e \in Exporters : stage[e] = "new"
  BY DEF Init
<1>3. Reported = {}
  BY <1>2 DEF Reported
<1>4. FiniteOK
  BY <1>2, <1>3, RetentionAssumption, FS_Subset, FS_EmptySet DEF FiniteOK
<1>5. Survives(archives \cap durable)
  BY <1>2, <1>3 DEF Survives, Known
<1> QED
  BY <1>1, <1>2, <1>4, <1>5
     DEF SurvivalInv, PrunesDurable, PrunesForOption, SizeOK

\* Every step keeps what retention promises.
LEMMA StepPreservesSurvivalInv == SurvivalInv /\ [Next]_vars => SurvivalInv'
<1> SUFFICES ASSUME SurvivalInv, [Next]_vars PROVE SurvivalInv'
  OBVIOUS
<1> USE DEF SurvivalInv
<1>0. /\ RetentionInv' /\ TypeOK /\ FiniteOK
      /\ archives \in SUBSET Nat
  <2>1. RetentionInv /\ TypeOK
    BY DEF RetentionInv
  <2>2. archives \in SUBSET Nat
    BY <2>1, RetentionAssumption DEF TypeOK
  <2> QED
    BY <2>1, <2>2, StepPreservesRetentionInv
<1>1. ASSUME NEW e \in Exporters, NEW gate \in {"missing", "making", "ready", "locked",
                                                "verified", "ended"},
             GoTo(e, gate), UNCHANGED <<retain, archives, durable, vanished>>,
             whole' \in {whole, whole \cup {e}}
      PROVE  SurvivalInv'
  BY <1>0, <1>1, QuietSurvival
<1>2. ASSUME NEW e \in Exporters, FindDestination(e) PROVE SurvivalInv'
  <2>1. PICK gate \in {"missing", "ready"} : GoTo(e, gate)
    BY <1>2 DEF FindDestination
  <2> QED
    BY <1>1, <1>2, <2>1 DEF FindDestination, outside
<1>3. ASSUME NEW e \in Exporters,
             \/ MakeDestination(e) \/ SyncParent(e) \/ LockDestination(e)
             \/ WriteAndVerify(e) \/ Fail(e)
      PROVE  SurvivalInv'
  BY <1>1, <1>3 DEF MakeDestination, SyncParent, LockDestination, WriteAndVerify,
                    Fail, outside
<1>4. ASSUME NEW e \in Exporters, Link(e) PROVE SurvivalInv'
  <2>1. archives' = archives \cup {e} /\ durable' = durable
    BY <1>4 DEF Link
  <2>2. IsFiniteSet(archives') /\ IsFiniteSet(durable')
    BY <1>0, <2>1, FS_AddElement DEF FiniteOK
  <2> QED
    BY <1>0, <1>4, <2>1, <2>2, DirectorySurvival DEF Link, Publishing, outside
<1>5. ASSUME NEW e \in Exporters, SyncPublication(e) PROVE SurvivalInv'
  <2>1. PICK gate \in {"pruning", "published"} :
            GoTo(e, gate) /\ (gate = "published" <=> retain[e] = None)
    BY <1>5 DEF SyncPublication, AfterPublication
  <2> QED
    BY <1>0, <1>5, <2>1, DirectorySurvival
       DEF SyncPublication, Publishing, FiniteOK, outside
<1>6. ASSUME NEW e \in Exporters, PruneOne(e) PROVE SurvivalInv'
  <2>1. /\ stage[e] = "pruning" /\ stage' = stage
        /\ UNCHANGED <<retain, vanished, durable, whole>>
    BY <1>6 DEF PruneOne, outside
  <2>2. PICK a \in archives \ Kept(e) : archives' = archives \ {a}
    BY <1>6 DEF PruneOne
  <2>3. GoTo(e, "pruning")
    BY <1>0, <2>1 DEF GoTo, TypeOK
  <2>4. archives' \cap durable' = archives \ {a} /\ archives' \subseteq durable'
    BY <2>1, <2>2 DEF PrunesDurable
  <2>5. e \in archives
    BY <2>1 DEF RetentionInv, Linked
  <2>6. IsFiniteSet(archives') /\ IsFiniteSet(durable')
    BY <1>0, <2>1, <2>2, FS_Subset DEF FiniteOK
  <2>7. CASE retain[e] # None
    <3>1. retain[e] \in Nat \ {0}
      BY <1>0, <2>7, RetainIsPositive
    <3>2. Cardinality(archives \ {a}) >= retain[e]
      BY <1>0, <2>5, <3>1, RemovalLeavesRetained DEF FiniteOK
    <3> QED
      BY <1>0, <2>1, <2>3, <2>4, <2>6, <2>7, <3>2, DirectorySurvival DEF Publishing
  <2>8. CASE retain[e] = None
    BY <2>1, <2>8 DEF PrunesForOption
  <2> QED
    BY <2>7, <2>8
<1>7. ASSUME NEW e \in Exporters, SyncRetention(e) PROVE SurvivalInv'
  <2>1. /\ stage[e] = "pruning" /\ archives \subseteq Kept(e)
        /\ durable' = archives /\ archives' = archives
        /\ GoTo(e, "published")
        /\ UNCHANGED <<retain, vanished, whole>>
    BY <1>7 DEF SyncRetention, outside
  <2>2. retain[e] # None => Cardinality(archives) <= retain[e]
    <3> SUFFICES ASSUME retain[e] # None
                 PROVE  Cardinality(archives) <= retain[e]
      OBVIOUS
    <3>1. retain[e] \in Nat \ {0}
      BY <1>0, RetainIsPositive
    <3>2. IsFiniteSet(Kept(e)) /\ Cardinality(Kept(e)) <= retain[e]
      BY <1>0, <3>1, KeptIsBounded DEF FiniteOK
    <3>3. /\ Cardinality(archives) <= Cardinality(Kept(e))
          /\ Cardinality(archives) \in Nat /\ Cardinality(Kept(e)) \in Nat
      BY <1>0, <2>1, <3>2, FS_Subset, FS_CardinalityType DEF FiniteOK
    <3> QED
      BY <3>1, <3>2, <3>3
  <2> QED
    BY <1>0, <2>1, <2>2, DirectorySurvival DEF Publishing, FiniteOK
<1>8. ASSUME NEW e \in Exporters, Report(e) PROVE SurvivalInv'
  BY <1>0, <1>8, ReportSurvival
<1>9. CASE Outage
  BY <1>0, <1>9, OutageSurvival
<1>10. CASE UNCHANGED vars
  BY <1>0, <1>10
     DEF vars, FiniteOK, Reported, PrunesDurable, PrunesForOption, SizeOK, Survives, Known
<1> QED
  BY <1>2, <1>3, <1>4, <1>5, <1>6, <1>7, <1>8, <1>9, <1>10 DEF Next, Export

\* As many archives as the smallest --retain keeps, of those that somebody
\* counts on, are complete in the destination, also if the power failed now,
\* and a run with --retain leaves no more than that.  Excepted is a destination
\* that another run has made and not fsynced, and one that was lost so.
THEOREM RetainedArchivesSurvive == Spec => []RetainedSurvive
<1> QED
  BY InitEstablishesSurvivalInv, StepPreservesSurvivalInv,
     InvImpliesRetainedSurvive, PTL DEF Spec
=============================================================================
