------------------------------ MODULE MCBackup ------------------------------
(* BackupCatalog for TLC: the bounds are in the configuration.              *)
EXTENDS BackupCatalog
=============================================================================
