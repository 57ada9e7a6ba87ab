---- MODULE MCBackup ----
(* A small instance of Backup for TLC.  Threads and addresses are each
   interchangeable, but symmetry is not used: the run checks liveness. *)
EXTENDS Backup
====
