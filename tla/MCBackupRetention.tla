-------------------------- MODULE MCBackupRetention --------------------------
(***************************************************************************)
(* Three runs, whose names stand between that of an old archive and that   *)
(* of one that was made while the clock was ahead.                         *)
(***************************************************************************)
EXTENDS BackupRetention

OldAndFuture == {1, 9}
Runs == {2, 3, 4}
=============================================================================
