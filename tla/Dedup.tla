---- MODULE Dedup ----
(***************************************************************************)
(* Module C, src/src/module_c/dedup.c with dedup_core.c and                *)
(* adaptive_compress.c, and the block functions of metadata_manager.c:     *)
(* what becomes of a data block when a file is written or unlinked.        *)
(* Blocks are shared between files by reference count and found by an      *)
(* index from 64 bits of their SHA-256 to their address.                   *)
(*                                                                         *)
(* A file's block map is locked for the whole of a write or an unlink, so  *)
(* a file is at one place of one operation; different files interleave     *)
(* between the critical sections of ref_lock and global_lock.              *)
(*                                                                         *)
(* Abstractions.  Every write replaces a whole block.  SHA-256 is          *)
(* injective and the byte sum that write_block stores in its place is no   *)
(* SHA-256.  A freed data_block_t keeps its hash until malloc hands the    *)
(* address out again, which it may do at once.  Allocation succeeds.  The  *)
(* statistics and the block cache are left out.                            *)
(***************************************************************************)
EXTENDS Integers, FiniteSets

CONSTANTS
  Files,      (* the files                                                 *)
  Idx,        (* the block indices of a file                               *)
  Addr,       (* bound: addresses malloc hands out for a data_block_t      *)
  None,       (* NULL, or compression off                                  *)
  Contents,   (* what a block can hold                                     *)
  Key,        (* hash_key_from_hash of each content's SHA-256              *)
  Archives,   (* contents that start with the magic of a compressed file   *)
  Algos,      (* algorithms given to user.compression.algo                 *)
  Magic,      (* those whose output starts with such a magic               *)
  Fallback,   (* what each algorithm is replaced by under load             *)
  Sharing,    (* values given to user.dedup.enable                         *)
  MaxBusy     (* FUSE threads in a write or an unlink at once              *)

ASSUME DedupAssumption ==
  /\ IsFiniteSet(Files) /\ IsFiniteSet(Idx)
  /\ None \notin Addr /\ None \notin Algos /\ None \notin Idx
  /\ \A c \in Contents : <<c>> \notin Contents
  /\ Archives \subseteq Contents /\ Magic \subseteq Algos
  /\ Fallback \in [Algos -> Algos]
  /\ Key \in [Contents -> Nat]
  /\ Sharing \subseteq BOOLEAN
  /\ MaxBusy \in Nat

VARIABLES
  block,      (* data_block_t: its content, its hash field (the content it
                 is the SHA-256 of, or <<content>> for the byte sum),
                 ref_count, and how data is stored: an algorithm, None, or
                 "lost" when compressed bytes are labelled uncompressed    *)
  allocated,  (* addresses in use                                          *)
  index,      (* block_hash_index: key -> address                          *)
  slot,       (* block_map_t.blocks of each file                           *)
  config,     (* dedup_config: enable_deduplication, algo                  *)
  pc,         (* where in its operation a file's thread is                 *)
  task        (* the thread's locals: the block index, the block it
                 releases, the place it goes on to, what it writes         *)

vars == <<block, allocated, index, slot, config, pc, task>>

SumHash(c) == <<c>>

HashKey(h) == IF h \in Contents THEN <<Key[h]>> ELSE h

Lookup(key) == IF key \in DOMAIN index THEN index[key] ELSE None

(* The block thread f works on. *)
Blk(f) == slot[f][task[f].i]

Busy == {f \in Files : pc[f] # "idle"}

Goto(f, place) == pc' = [pc EXCEPT ![f] = place]

(* Thread f releases address a, then goes on to place. *)
Release(f, a, place) ==
  /\ task' = [task EXCEPT ![f].victim = a, ![f].then = place]
  /\ Goto(f, "drop")

(* A thread's locals outside an operation. *)
NoTask == [i |-> None, victim |-> None, then |-> "idle", wrote |-> None]

Init ==
  /\ block = [a \in Addr |-> [data |-> None, hash |-> None, refs |-> 0, form |-> None]]
  /\ allocated = {}
  /\ index = [k \in {} |-> None]
  /\ slot = [f \in Files |-> [i \in Idx |-> None]]
  /\ config = [dedup |-> FALSE, algo |-> None]
  /\ pc = [f \in Files |-> "idle"]
  /\ task = [f \in Files |-> NoTask]

----
(* smart_write_file, one block *)

(* Mutant: a block written in place keeps the label it had. *)
WriteBlockLabelled(f) ==
  /\ pc[f] = "idle" /\ Cardinality(Busy) < MaxBusy
  /\ \E i \in Idx, c \in Contents, a \in Addr :
       /\ IF slot[f][i] = None
          THEN /\ a \notin allocated
               /\ allocated' = allocated \cup {a}
               /\ slot' = [slot EXCEPT ![f][i] = a]
               /\ block' = [block EXCEPT ![a] =
                    [data |-> c, hash |-> SumHash(c), refs |-> 1, form |-> None]]
          ELSE /\ a = slot[f][i]
               /\ block' = [block EXCEPT ![a].data = c, ![a].hash = SumHash(c)]
               /\ UNCHANGED <<allocated, slot>>
       /\ task' = [task EXCEPT ![f].i = i, ![f].wrote = c]
  /\ Goto(f, "refs")
  /\ UNCHANGED <<index, config>>

(* allocate_block where there is none, then write_block, in place: it
   decompresses the block and leaves the byte sum in its hash. *)
WriteBlock(f) ==
  /\ pc[f] = "idle" /\ Cardinality(Busy) < MaxBusy
  /\ \E i \in Idx, c \in Contents, a \in Addr :
       /\ IF slot[f][i] = None
          THEN /\ a \notin allocated
               /\ allocated' = allocated \cup {a}
               /\ slot' = [slot EXCEPT ![f][i] = a]
               /\ block' = [block EXCEPT ![a] =
                    [data |-> c, hash |-> SumHash(c), refs |-> 1, form |-> None]]
          ELSE /\ a = slot[f][i]
               /\ block' = [block EXCEPT ![a].data = c, ![a].hash = SumHash(c), ![a].form = None]
               /\ UNCHANGED <<allocated, slot>>
       /\ task' = [task EXCEPT ![f].i = i, ![f].wrote = c]
  /\ Goto(f, "refs")
  /\ UNCHANGED <<index, config>>

(* copy_on_write reads ref_count. *)
ReadRefs(f) ==
  /\ pc[f] = "refs"
  /\ Goto(f, IF block[Blk(f)].refs <= 1 THEN "hash" ELSE "copy")
  /\ UNCHANGED <<block, allocated, index, slot, config, task>>

(* The block is shared: this file gets a copy of its own. *)
Copy(f) ==
  /\ pc[f] = "copy"
  /\ \E a \in Addr \ allocated :
       /\ allocated' = allocated \cup {a}
       /\ block' = [block EXCEPT ![a] =
            [data |-> block[Blk(f)].data, hash |-> block[Blk(f)].data, refs |-> 1, form |-> None]]
       /\ slot' = [slot EXCEPT ![f][task[f].i] = a]
  /\ Release(f, Blk(f), "hash")
  /\ UNCHANGED <<index, config>>

(* block_compute_hash. *)
ComputeHash(f) ==
  /\ pc[f] = "hash"
  /\ block' = [block EXCEPT ![Blk(f)].hash = block[Blk(f)].data]
  /\ Goto(f, IF config.dedup THEN "find" ELSE "compress")
  /\ UNCHANGED <<allocated, index, slot, config, task>>

(* Mutant: no reference is taken. *)
TakeUncounted(f, blk, dup) ==
  /\ slot' = [slot EXCEPT ![f][task[f].i] = dup]
  /\ IF dup = blk THEN Goto(f, "compress") /\ UNCHANGED task
     ELSE Release(f, blk, "compress")
  /\ UNCHANGED block

(* Thread f takes a reference to dup, which then replaces its own block. *)
TakeDuplicate(f, blk, dup) ==
  /\ block' = [block EXCEPT ![dup].refs = @ + 1]
  /\ slot' = [slot EXCEPT ![f][task[f].i] = dup]
  /\ IF dup = blk THEN Goto(f, "compress") /\ UNCHANGED task
     ELSE Release(f, blk, "compress")

(* Mutant: the 64-bit key alone decides that a block is a duplicate. *)
FindByKey(f) ==
  LET blk == Blk(f)
      dup == Lookup(HashKey(block[blk].hash))
  IN  /\ pc[f] = "find"
      /\ IF ~config.dedup \/ dup = None
         THEN Goto(f, "index") /\ UNCHANGED <<block, slot, task>>
         ELSE TakeDuplicate(f, blk, dup)
      /\ UNCHANGED <<allocated, index, config>>

(* dedup_find_duplicate takes a reference to the block it finds, be it the
   very block asked about; another block replaces the file's own. *)
FindDuplicate(f) ==
  LET blk == Blk(f)
      dup == Lookup(HashKey(block[blk].hash))
  IN  /\ pc[f] = "find"
      /\ IF ~config.dedup \/ dup = None \/ block[dup].hash # block[blk].hash
         THEN Goto(f, "index") /\ UNCHANGED <<block, slot, task>>
         ELSE TakeDuplicate(f, blk, dup)
      /\ UNCHANGED <<allocated, index, config>>

(* dedup_index_block: a key that is taken, even by a block that has changed
   since, stays as it is. *)
IndexBlock(f) ==
  LET key == HashKey(block[Blk(f)].hash)
  IN  /\ pc[f] = "index"
      /\ index' = IF ~config.dedup \/ key \in DOMAIN index THEN index
                  ELSE [k \in DOMAIN index \cup {key} |->
                          IF k = key THEN Blk(f) ELSE index[k]]
      /\ Goto(f, "compress")
      /\ UNCHANGED <<block, allocated, slot, config, task>>

(* What compressing block b leaves when algorithm al is chosen. *)
Packed(b, al) ==
  CASE b.form # None /\ al # None -> {b.form}
    [] b.form # None /\ al = None -> {"lost"}
    [] b.form = None /\ al # None -> {al, None}
    [] OTHER -> {None}

(* ac_is_already_compressed looks at the bytes as they are stored. *)
LooksCompressed(b) ==
  \/ b.form \in Magic
  \/ b.form = None /\ b.data \in Archives

(* ac_adaptive_compress_block: nothing is compressed that looks compressed
   or while the load is high, and the choice is stored in the configuration,
   for good.  With compression off the block is labelled uncompressed. *)
Compress(f) ==
  /\ pc[f] = "compress"
  /\ LET b == block[Blk(f)]
         choices == IF config.algo = None \/ LooksCompressed(b) THEN {None}
                    ELSE {config.algo, Fallback[config.algo], None}
     IN  \E choice \in choices : \E form \in Packed(b, choice) :
           /\ block' = [block EXCEPT ![Blk(f)].form = form]
           /\ config' = [config EXCEPT !.algo = choice]
  /\ Goto(f, "idle")
  /\ task' = [task EXCEPT ![f] = NoTask]
  /\ UNCHANGED <<allocated, index, slot>>

----
(* dedup_release_block and free_block *)

(* Mutant: the last reference but one frees the block. *)
DropEarly(f) ==
  LET a == task[f].victim
      left == IF block[a].refs > 0 THEN block[a].refs - 1 ELSE 0
  IN  /\ pc[f] = "drop"
      /\ block' = [block EXCEPT ![a].refs = left]
      /\ IF left <= 1 THEN Goto(f, "free") ELSE Goto(f, task[f].then)
      /\ UNCHANGED <<allocated, index, slot, config, task>>

Drop(f) ==
  LET a == task[f].victim
      left == IF block[a].refs > 0 THEN block[a].refs - 1 ELSE 0
  IN  /\ pc[f] = "drop"
      /\ block' = [block EXCEPT ![a].refs = left]
      /\ IF left = 0 THEN Goto(f, "free") ELSE Goto(f, task[f].then)
      /\ UNCHANGED <<allocated, index, slot, config, task>>

(* Only the entry under the block's current hash goes. *)
Free(f) ==
  LET a == task[f].victim
      key == HashKey(block[a].hash)
  IN  /\ pc[f] = "free"
      /\ index' = IF Lookup(key) = a THEN [k \in DOMAIN index \ {key} |-> index[k]] ELSE index
      /\ allocated' = allocated \ {a}
      /\ block' = [block EXCEPT ![a].data = None, ![a].form = None]
      /\ Goto(f, task[f].then)
      /\ UNCHANGED <<slot, config, task>>

(* Unlinking the last name of f: destroy_block_map releases every block. *)
Unlink(f) ==
  /\ pc[f] = "idle" /\ Cardinality(Busy) < MaxBusy
  /\ \E i \in Idx : slot[f][i] # None
  /\ Goto(f, "unlink")
  /\ UNCHANGED <<block, allocated, index, slot, config, task>>

DestroyBlocks(f) ==
  /\ pc[f] = "unlink"
  /\ IF \A i \in Idx : slot[f][i] = None
     THEN Goto(f, "idle") /\ task' = [task EXCEPT ![f] = NoTask] /\ UNCHANGED slot
     ELSE \E i \in Idx :
            /\ slot[f][i] # None
            /\ slot' = [slot EXCEPT ![f][i] = None]
            /\ Release(f, slot[f][i], "unlink")
  /\ UNCHANGED <<block, allocated, index, config>>

----
(* Setting user.dedup.enable and user.compression.algo. *)
SetConfig ==
  /\ \/ \E on \in Sharing : config' = [config EXCEPT !.dedup = on]
     \/ \E al \in Algos \cup {None} : config' = [config EXCEPT !.algo = al]
  /\ UNCHANGED <<block, allocated, index, slot, pc, task>>

Step(f) ==
  \/ WriteBlock(f) \/ ReadRefs(f) \/ Copy(f) \/ ComputeHash(f) \/ FindDuplicate(f)
  \/ IndexBlock(f) \/ Compress(f) \/ Drop(f) \/ Free(f) \/ Unlink(f) \/ DestroyBlocks(f)

Next == SetConfig \/ \E f \in Files : Step(f)

Spec == Init /\ [][Next]_vars

----
(* Properties *)

DataBlock ==
  [data : Contents \cup {None},
   hash : Contents \cup {SumHash(c) : c \in Contents} \cup {None},
   refs : Nat,
   form : Algos \cup {None, "lost"}]

Places ==
  {"idle", "refs", "copy", "hash", "find", "index", "compress", "drop", "free", "unlink"}

(* The types of the state; the blocks with references are the ones in use,
   but for one that is being freed. *)
TypeOK ==
  /\ block \in [Addr -> DataBlock]
  /\ allocated \subseteq Addr
  /\ \A key \in DOMAIN index : index[key] \in Addr
  /\ slot \in [Files -> [Idx -> Addr \cup {None}]]
  /\ config \in [dedup : BOOLEAN, algo : Algos \cup {None}]
  /\ pc \in [Files -> Places]
  /\ \A a \in Addr : block[a].refs > 0 <=>
       a \in allocated /\ ~\E f \in Files : pc[f] = "free" /\ task[f].victim = a

(* The references to block a: the slots that hold it, and a thread about to
   give one up. *)
References(a) ==
  {s \in Files \X Idx : slot[s[1]][s[2]] = a}
    \cup {s \in Files \X {None} : pc[s[1]] = "drop" /\ task[s[1]].victim = a}

(* No block is counted fewer times than it is referenced: sharing, copying
   and releasing blocks in any sequence of writes and unlinks never leave a
   file with a block that has been freed. *)
RefsCover ==
  \A a \in Addr : Cardinality(References(a)) <= block[a].refs

(* Whatever the index says - keys collide, entries are stale, addresses are
   reused - the block a write ends up with holds what was written. *)
WriteLands ==
  \A f \in Files :
    pc[f] \in {"refs", "copy", "hash", "find", "index", "compress"} =>
      block[Blk(f)].data = task[f].wrote

(* main's banner promises thread-safe concurrent access: no file refers to a
   block that has been freed, whatever other threads do. *)
NoDangling ==
  \A f \in Files, i \in Idx : slot[f][i] \in allocated \cup {None}

(* read_block decompresses what the label says is compressed: the label of a
   block is true unless the write that set it had replaced its block by a
   duplicate.  A block that is compressed already comes to the compression
   step, which relabels it when nothing is to be compressed, in no other way:
   not when it is rewritten, copied or found again by its own file. *)
RelabelsDuplicates ==
  \A f \in Files :
    pc[f] = "compress" /\ block[Blk(f)].form # None =>
      task[f].victim # None /\ task[f].then = "compress"
====
