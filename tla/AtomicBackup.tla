----------------------------- MODULE AtomicBackup -----------------------------
(***************************************************************************)
(* What a full backup promises: an export is a snapshot of a quiet store,  *)
(* and a restore adds everything that is missing in one step or changes    *)
(* nothing.  Nothing that is stored is ever overwritten by a restore.      *)
(***************************************************************************)

CONSTANTS Jobs, Records, Reports, None, IsActive(_)

VARIABLES stored, reports, archive

Init ==
    /\ stored = [j \in Jobs |-> None]
    /\ reports = {}
    /\ archive = None

\* A hand is uploaded, changed or deleted.
ChangeJob ==
    /\ \E j \in Jobs, record \in Records \cup {None} :
           stored' = [stored EXCEPT ![j] = record]
    /\ UNCHANGED <<reports, archive>>

AddReport ==
    /\ \E report \in Reports : reports' = reports \cup {report}
    /\ UNCHANGED <<stored, archive>>

Export ==
    /\ \A j \in Jobs : stored[j] # None => ~ IsActive(stored[j])
    /\ archive' = [jobs |-> stored, reports |-> reports]
    /\ UNCHANGED <<stored, reports>>

Restore ==
    /\ archive # None
    /\ \A j \in Jobs : stored[j] # None => ~ IsActive(stored[j])
    /\ \A j \in Jobs : archive.jobs[j] # None => stored[j] \in {None, archive.jobs[j]}
    /\ stored' = [j \in Jobs |->
                      IF stored[j] = None THEN archive.jobs[j] ELSE stored[j]]
    /\ reports' = reports \cup archive.reports
    /\ UNCHANGED archive

\* The application moves to an empty data volume.
StartEmpty ==
    /\ stored' = [j \in Jobs |-> None]
    /\ reports' = {}
    /\ UNCHANGED archive

Next == StartEmpty \/ ChangeJob \/ AddReport \/ Export \/ Restore

Spec == Init /\ [][Next]_<<stored, reports, archive>>
=============================================================================
