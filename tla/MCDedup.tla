---- MODULE MCDedup ----
(* A small instance of Dedup for TLC. *)
EXTENDS Dedup, TLC

CONSTANTS A, B, C, lz4, zstd

MCContents == {A, B, C}

(* A and B have the same first 64 bits of SHA-256. *)
MCKey == [x \in MCContents |-> IF x = C THEN 2 ELSE 1]

(* zstd is given up for lz4 under load. *)
MCFallback == [x \in Algos |-> IF lz4 \in Algos THEN lz4 ELSE x]

(* Files are interchangeable, and so are addresses. *)
MCSymmetry == Permutations(Files) \cup Permutations(Addr)
====
