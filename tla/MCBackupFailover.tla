--------------------------- MODULE MCBackupFailover ---------------------------
EXTENDS BackupFailover
=============================================================================
