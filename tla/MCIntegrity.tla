---- MODULE MCIntegrity ----
(* A small instance of Integrity for TLC.  The threads are interchangeable,
   but symmetry is not used: the run checks liveness. *)
EXTENDS Integrity
====
