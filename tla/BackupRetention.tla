--------------------------- MODULE BackupRetention ---------------------------
(***************************************************************************)
(* The archives in a backup destination: backup_cli.py, export.            *)
(*                                                                         *)
(* Scheduled runs and retries of the command publish into one directory    *)
(* and may remove older archives.  They are separate processes: each can   *)
(* fail at any system call or be killed between two of them, and the       *)
(* machine can lose its power.  Until a directory is fsynced, each of its  *)
(* new entries and of its removals may or may not have reached the disk.   *)
(*                                                                         *)
(* An archive is the number of its name in name order.  The name is the    *)
(* time the run began, which is neither the order of publication nor, with *)
(* a clock that is set back, that of the runs.  Temporary files match no   *)
(* pattern that anybody looks for and are left out.                        *)
(***************************************************************************)
EXTENDS Integers, FiniteSetsExt

CONSTANTS
    Exporters,   \* runs of export, each the number of the archive it names
    Earlier,     \* archives that may be there from before
    Retains,     \* values of --retain, None when it is not given
    MaxOutages,  \* BOUND: losses of power
    None

ASSUME RetentionAssumption ==
    /\ Exporters \cup Earlier \subseteq Nat
    /\ Exporters \cap Earlier = {}
    /\ IsFiniteSet(Earlier)
    /\ Retains \subseteq (Nat \ {0}) \cup {None}
    /\ MaxOutages \in Nat
    /\ None \notin Exporters

VARIABLES
    retain,       \* the option of each run
    stage,        \* how far it is
    destination,  \* "absent", "made" while its parent is not fsynced, "durable"
    lock,         \* the run that holds the destination's lock file, or None
    archives,     \* the archives under their final names
    durable,      \* those of the last fsync of the directory
    whole,        \* archives whose file is complete on disk and parses
    outages,      \* losses of power so far
    vanished      \* observer: one of them took the destination itself

vars == <<retain, stage, destination, lock, archives, durable, whole, outages,
          vanished>>

\* What no run of the command changes.
outside == <<retain, outages, vanished>>

Init ==
    /\ retain \in [Exporters -> Retains]
    /\ stage = [e \in Exporters |-> "new"]
    /\ archives \in SUBSET Earlier
    /\ destination \in {"durable", "absent"}
    /\ destination = "absent" => archives = {}
    /\ lock = None
    /\ durable = archives
    /\ whole = archives
    /\ outages = 0
    /\ vanished = FALSE

GoTo(e, gate) == stage' = [stage EXCEPT ![e] = gate]

-----------------------------------------------------------------------------
(***************************************************************************)
(* The destination                                                         *)
(***************************************************************************)

\* The archive has been built under the data lock.  _ensure_backup_destination
\* looks which directories are missing ...
FindDestination(e) ==
    /\ stage[e] = "new"
    /\ GoTo(e, IF destination = "absent" THEN "missing" ELSE "ready")
    /\ UNCHANGED <<outside, destination, lock, archives, durable, whole>>

\* ... makes them, unless another run has meanwhile ...
MakeDestination(e) ==
    /\ stage[e] = "missing"
    /\ destination' = IF destination = "absent" THEN "made" ELSE destination
    /\ GoTo(e, "making")
    /\ UNCHANGED <<outside, lock, archives, durable, whole>>

\* ... and fsyncs the parents of those it found missing.
SyncParent(e) ==
    /\ stage[e] = "making"
    /\ destination' = "durable"
    /\ GoTo(e, "ready")
    /\ UNCHANGED <<outside, lock, archives, durable, whole>>

\* Mutant: publication and retention without the lock.
EnterUnlocked(e) ==
    /\ stage[e] = "ready"
    /\ lock' = e
    /\ GoTo(e, "locked")
    /\ UNCHANGED <<outside, destination, archives, durable, whole>>

\* _backup_destination_lock: flock, exclusive, across processes.
LockDestination(e) ==
    /\ stage[e] = "ready"
    /\ lock = None
    /\ lock' = e
    /\ GoTo(e, "locked")
    /\ UNCHANGED <<outside, destination, archives, durable, whole>>

Unlocked(e) == IF lock = e THEN None ELSE lock

-----------------------------------------------------------------------------
(***************************************************************************)
(* Publication                                                             *)
(***************************************************************************)

\* The temporary file is written, fsynced and parsed from the disk; one that
\* does not parse fails the run instead (see Fail).
WriteAndVerify(e) ==
    /\ stage[e] = "locked"
    /\ whole' = whole \cup {e}
    /\ GoTo(e, "verified")
    /\ UNCHANGED <<outside, destination, lock, archives, durable>>

\* os.link under the final name.
Link(e) ==
    /\ stage[e] = "verified"
    /\ archives' = archives \cup {e}
    /\ GoTo(e, "linked")
    /\ UNCHANGED <<outside, destination, lock, durable, whole>>

AfterPublication(e) == IF retain[e] = None THEN "published" ELSE "pruning"

\* The temporary file is removed, at least tried to, and the directory fsynced.
SyncPublication(e) ==
    /\ stage[e] = "linked"
    /\ durable' = archives
    /\ GoTo(e, AfterPublication(e))
    /\ UNCHANGED <<outside, destination, lock, archives, whole>>

-----------------------------------------------------------------------------
(***************************************************************************)
(* Retention                                                               *)
(***************************************************************************)

\* Mutant: the newest names, whosesoever.
NewestNames(e) ==
    {a \in archives : Cardinality({b \in archives : b > a}) < retain[e]}

\* The archive of the run itself, and the newest others up to --retain.
Kept(e) ==
    {e} \cup {a \in archives :
                 Cardinality({b \in archives : b > a} \ {e}) < retain[e] - 1}

\* _prune_backups removes the others one by one, the newest first: a run that
\* ends on the way leaves the oldest.
PruneOne(e) ==
    /\ stage[e] = "pruning"
    /\ \E a \in archives \ Kept(e) :
           /\ \A b \in archives \ Kept(e) : a >= b
           /\ archives' = archives \ {a}
    /\ UNCHANGED <<outside, stage, destination, lock, durable, whole>>

\* Nothing is left to remove, and the directory is fsynced again.
SyncRetention(e) ==
    /\ stage[e] = "pruning"
    /\ archives \subseteq Kept(e)
    /\ durable' = archives
    /\ GoTo(e, "published")
    /\ UNCHANGED <<outside, destination, lock, archives, whole>>

\* The lock is left; main prints the path and returns 0.
Report(e) ==
    /\ stage[e] = "published"
    /\ lock' = Unlocked(e)
    /\ GoTo(e, "reported")
    /\ UNCHANGED <<outside, destination, archives, durable, whole>>

-----------------------------------------------------------------------------
(***************************************************************************)
(* Failures                                                                *)
(***************************************************************************)

Running(e) == stage[e] \notin {"new", "reported", "ended"}

\* A system call fails, the archive does not parse, or the process is killed:
\* what it did to the directory stays, the lock is released.
Fail(e) ==
    /\ Running(e)
    /\ lock' = Unlocked(e)
    /\ GoTo(e, "ended")
    /\ UNCHANGED <<outside, destination, archives, durable, whole>>

\* What the destination can hold after a loss of power: each entry that was
\* added or removed since the last fsync is there or not; the directory
\* itself is gone if its parent has never been fsynced.
AfterOutage ==
    {(archives \cap durable) \cup pending :
         pending \in SUBSET ((archives \ durable) \cup (durable \ archives))}

\* The power comes back; the runs that were under way do not.
Outage ==
    /\ outages < MaxOutages
    /\ outages' = outages + 1
    /\ \/ /\ archives' \in AfterOutage
          /\ UNCHANGED <<destination, vanished>>
       \/ /\ destination = "made"
          /\ archives' = {}
          /\ destination' = "absent"
          /\ vanished' = TRUE
    /\ durable' = archives'
    /\ lock' = None
    /\ stage' = [e \in Exporters |-> IF Running(e) THEN "ended" ELSE stage[e]]
    /\ UNCHANGED <<retain, whole>>

Export(e) ==
    \/ FindDestination(e) \/ MakeDestination(e) \/ SyncParent(e)
    \/ LockDestination(e)
    \/ WriteAndVerify(e) \/ Link(e) \/ SyncPublication(e)
    \/ PruneOne(e) \/ SyncRetention(e) \/ Report(e) \/ Fail(e)

Next == (\E e \in Exporters : Export(e)) \/ Outage

Spec == Init /\ [][Next]_vars

-----------------------------------------------------------------------------
(***************************************************************************)
(* Properties                                                              *)
(***************************************************************************)

Stages ==
    {"new", "missing", "making", "ready", "locked", "verified", "linked",
     "pruning", "published", "reported", "ended"}

TypeOK ==
    /\ retain \in [Exporters -> Retains]
    /\ stage \in [Exporters -> Stages]
    /\ destination \in {"absent", "made", "durable"}
    /\ lock \in Exporters \cup {None}
    /\ archives \subseteq Exporters \cup Earlier
    /\ durable \subseteq Exporters \cup Earlier
    /\ whole \subseteq Exporters \cup Earlier

\* "Success must fsync the published archive": a run that is about to report
\* its archive leaves it in a state that the loss of power does not undo, and
\* with it nothing that is incomplete or does not parse, although names of the
\* future are newer, other runs have ended anywhere before, and others again
\* wait to publish and to remove what is old.  Excepted is a destination that
\* another run has made and not fsynced (destination = "made"), where the code
\* falls short of its specification: _ensure_backup_destination fsyncs only the
\* parents of what its own run found missing, and a loss of power may take the
\* directory with the archive reported.
ReportedIsDurable ==
    \A e \in Exporters : stage[e] = "published" /\ destination = "durable" =>
        \A left \in AfterOutage : e \in left /\ left \subseteq whole

Reported == {e \in Exporters : stage[e] = "reported"}

\* The archives somebody counts on: the reported and the original ones.
Known == Reported \cup (whole \cap Earlier)

\* As many as the run with the smallest --retain keeps.
Guaranteed ==
    Min({Cardinality(Known)} \cup ({retain[e] : e \in Exporters} \ {None}))

\* "Concurrent scheduled exports must leave a valid retained archive": once so
\* many archives were there or reported, as many as the smallest --retain keeps
\* are in the destination, whatever other runs do, wherever they end, and also
\* if the power failed now; and a run with --retain leaves no more than that.
\* A destination whose creator has not fsynced its parent is excepted, before
\* and after it is lost: a run that finds it made does not fsync the parent.
RetainedSurvive ==
    ~ vanished /\ destination # "made" =>
        \A left \in AfterOutage :
            /\ Cardinality(left \cap whole) >= Guaranteed
            /\ \A e \in Exporters :
                   stage[e] = "published" /\ retain[e] # None
                       => Cardinality(left) <= retain[e]
=============================================================================
