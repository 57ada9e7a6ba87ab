---- MODULE MCWal ----
(* A small instance of Wal for TLC. *)
EXTENDS Wal, TLC

(* Two transactions, and one more if a lone record came before them, in the
   first run; two in the second. *)
MCQuota == <<2, 1>>

(* Threads are interchangeable. *)
MCSymmetry == Permutations(Writers)
====
