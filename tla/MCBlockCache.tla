---- MODULE MCBlockCache ----
(* A small instance of BlockCache for TLC. *)
EXTENDS BlockCache, TLC

CONSTANTS f, g, plain1, plain2, packed

(* f has two blocks, g has one. *)
MCWritten == {<<f, 1>>, <<f, 2>>, <<g, 1>>}

(* Two contents stay as they are, one gets compressed. *)
MCForms == {<<plain1, FALSE>>, <<plain2, FALSE>>, <<packed, TRUE>>}

(* Three blocks can be there at once, or four values of total_blocks, one
   of them wrapped around below 0. *)
MCIds == 0..3
MCWrappedIds == -1..2

(* What is not compressed is interchangeable. *)
MCSymmetry == Permutations({plain1, plain2})
====
