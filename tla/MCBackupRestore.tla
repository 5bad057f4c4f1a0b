---------------------------- MODULE MCBackupRestore ----------------------------
(***************************************************************************)
(* Instances of BackupRestore for TLC.                                     *)
(***************************************************************************)
EXTENDS BackupRestore

CONSTANTS j1, j2, j3
=============================================================================
