--------------------------- MODULE MCBackupStatus ---------------------------
(* Small instance of BackupStatus for TLC: two devices of one user running *)
(* the same OS, so that their backups can agree on every name field but    *)
(* the device id.                                                          *)
EXTENDS BackupStatus, TLC

MCDeviceOs == [d \in Devices |-> "ios"]

MCSymmetry == Permutations(Devices)
=============================================================================
