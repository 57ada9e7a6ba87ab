---- MODULE MCVersionChain ----
(* A small instance of VersionChain for TLC. *)
EXTENDS VersionChain

CONSTANTS a, b

MCContents == {a, b}

(* A collision-free checksum. *)
MCChecksum == [c \in MCContents |-> IF c = a THEN 1 ELSE 2]
====
