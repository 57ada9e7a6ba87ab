---- MODULE MCNamespace ----
(* A small instance of Namespace for TLC. *)
EXTENDS Namespace, TLC

(* Threads are interchangeable, and so are names, with an '@' or without. *)
MCSymmetry ==
  Permutations(Threads) \cup Permutations(Names \ Marked) \cup Permutations(Marked)
====
