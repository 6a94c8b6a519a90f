-------------------------- MODULE MCFsyncRecovery --------------------------
(* FsyncRecovery with one file, a task that calls fsync and one that calls fdatasync. *)
EXTENDS FsyncRecovery
=============================================================================
