---- MODULE VersionStore ----
(***************************************************************************)
(* What module B promises of one file: a store of immutable snapshots.     *)
(* Taking a snapshot records the file's blocks as they are; retention and  *)
(* deletion drop whole snapshots, never one flagged important, and change  *)
(* nothing in the snapshots that stay.                                     *)
(***************************************************************************)
EXTENDS Integers

CONSTANTS
  Idx,        (* block indices of the file                                 *)
  Contents,   (* what a data block can hold                                *)
  Hole        (* no data block at this index: it reads as zeros            *)

VARIABLES
  file,       (* the blocks of the file now                                *)
  store,      (* the snapshots kept: number -> blocks                      *)
  important,  (* the snapshots automatic cleaning must skip                *)
  last        (* the number of the last snapshot taken                     *)

vars == <<file, store, important, last>>

Block == Contents \cup {Hole}

Init ==
  /\ file = [i \in Idx |-> Hole]
  /\ store = [u \in {} |-> file]
  /\ important = {}
  /\ last = 0

Write ==
  /\ \E S \in SUBSET Idx, new \in [Idx -> Contents] :
       file' = [i \in Idx |-> IF i \in S THEN new[i] ELSE file[i]]
  /\ UNCHANGED <<store, important, last>>

(* A snapshot of the file joins the store, and retention may drop some.    *)
Snapshot ==
  /\ last' = last + 1
  /\ \E gone \in SUBSET ((DOMAIN store \cup {last + 1}) \ important) :
       store' = [u \in (DOMAIN store \cup {last + 1}) \ gone |->
                   IF u = last + 1 THEN file ELSE store[u]]
  /\ UNCHANGED <<file, important>>

Drop ==
  /\ \E gone \in SUBSET (DOMAIN store \ important) :
       store' = [u \in DOMAIN store \ gone |-> store[u]]
  /\ UNCHANGED <<file, important, last>>

Flag ==
  /\ \E u \in DOMAIN store : important' \in {important \cup {u}, important \ {u}}
  /\ UNCHANGED <<file, store, last>>

Next == Write \/ Snapshot \/ Drop \/ Flag

Spec == Init /\ [][Next]_vars
====
