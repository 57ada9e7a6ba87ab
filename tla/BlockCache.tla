---- MODULE BlockCache ----
(***************************************************************************)
(* Module C's block cache, src/src/module_c/cache.c, under the paths of    *)
(* module A that use it: smart_read_file, smart_write_file and the calls   *)
(* that give out and take back block ids.  The cache knows a block by its  *)
(* id alone: L1 holds pointers, L2 (slots of a mapped file, id modulo      *)
(* their number) and L3 (files of a directory) hold copies of the data.    *)
(*                                                                         *)
(* Abstractions.  One operation at a time.  Every block counts for one in  *)
(* L1's budget and in L3's account.  An L3 entry may have expired whenever *)
(* it is looked at.  Deduplication is off; the dirty flags of L2, which    *)
(* only pace msync, and the statistics are left out.                       *)
(*                                                                         *)
(* total_blocks, a uint64_t, is an integer: a negative number stands for   *)
(* its value modulo 2^64.                                                  *)
(***************************************************************************)
EXTENDS Integers, Sequences, FiniteSets, SequencesExt

CONSTANTS
  Files,      (* the files                                                 *)
  Blocks,     (* the blocks a file can have: indices 1..Blocks             *)
  None,       (* NULL                                                      *)
  Contents,   (* what a block can hold                                     *)
  Garbage,    (* what compressed bytes read as when taken for plain ones   *)
  Budget,     (* L1's budget, in blocks                                    *)
  Slots,      (* l2.slots                                                  *)
  Room,       (* l3.max_entries, and l3.capacity_bytes in blocks           *)
  Forms,      (* bound: what is written, pairs of a content and whether it
                 gets compressed                                           *)
  Written,    (* bound: the blocks that get written, pairs of file, index  *)
  Ids,        (* bound: values of total_blocks                             *)
  MaxDirs     (* bound: directories                                        *)

Idx == 1..Blocks

(* What the code reads of a data_block_t. *)
Block == [id : Int, data : Contents, packed : BOOLEAN]

ASSUME CacheAssumption ==
  /\ Garbage \notin Contents
  /\ None \notin Files \cup (Files \X Idx) \cup Block
  /\ {Blocks, Budget, Slots, Room} \subseteq Nat \ {0}
  /\ Forms \subseteq Contents \X BOOLEAN
  /\ Written \subseteq Files \X Idx
  /\ Ids \subseteq Int /\ 0 \in Ids
  /\ MaxDirs \in Nat

VARIABLES
  block,      (* each file's data_block_t by index: id, data, packed; None *)
  size,       (* meta->blocks of each file                                 *)
  total,      (* fs_state.total_blocks: the id of the next block           *)
  dirs,       (* empty directories                                         *)
  cache,      (* the three levels, see below                               *)
  broken      (* freed memory has been used                                *)

vars == <<block, size, total, dirs, cache, broken>>

(* A pointer to a block: to the one of a file, or to a copy the cache made.
   l1 is the FIFO list, with the table's pointers; l2 is slot_ids and
   slot_blocks, where id 0 also marks an empty slot; index and l3 are the
   tables of L2 and L3.  lost, up to Room, is what l3.current_bytes counts
   beyond the entries there are. *)
Own(f, i) == [own |-> <<f, i>>, data |-> None, packed |-> FALSE]
Loaded(data) == [own |-> None, data |-> data, packed |-> FALSE]

Deref(p) == IF p.own = None THEN p ELSE block[p.own[1]][p.own[2]]

EmptyCache ==
  [l1 |-> <<>>,
   l2 |-> [s \in 0..Slots - 1 |-> [id |-> 0, data |-> None]],
   index |-> [id \in {} |-> 0],
   l3 |-> [id \in {} |-> None],
   lost |-> 0]

Without(fun, id) == [x \in DOMAIN fun \ {id} |-> fun[x]]
With(fun, id, v) == [x \in DOMAIN fun \cup {id} |-> IF x = id THEN v ELSE fun[x]]

L1Hits(c, id) == {k \in DOMAIN c.l1 : c.l1[k].id = id}

(* l1_remove_entry: the first entry with this id leaves the list. *)
L1Without(c, id) ==
  LET hits == L1Hits(c, id)
  IN  IF hits = {} THEN c.l1
      ELSE RemoveAt(c.l1, CHOOSE k \in hits : \A j \in hits : k <= j)

----
(* cache_put_block, cache_get_block, cache_invalidate_block *)

(* l3_evict_if_needed: entries dsk leave no room for one more by the account.
   What is evicted stays in the account, so that everything is evicted, and
   there is no room ever after. *)
L3Full(c, dsk) == c.lost + Cardinality(DOMAIN dsk) >= Room

(* Mutant: L1 drops an entry when it is over its budget already. *)
PutOver(c, id, p, b) ==
  LET rest == L1Without(c, id)
      over == IF Len(rest) > Budget THEN Len(rest) - Budget ELSE 0
      s    == id % Slots
      old  == c.l2[s].id
      gone == IF old = 0 THEN {} ELSE {old}
      idx  == [x \in DOMAIN c.index \ gone |-> c.index[x]]
      dsk  == [x \in DOMAIN c.l3 \ gone |-> c.l3[x]]
  IN  [l1 |-> Append(SubSeq(rest, over + 1, Len(rest)), [id |-> id, ptr |-> p]),
       l2 |-> [c.l2 EXCEPT ![s] = [id |-> id, data |-> b.data]],
       index |-> IF s = 0 THEN idx ELSE With(idx, id, s),
       l3 |-> With(IF L3Full(c, dsk) THEN [x \in {} |-> None] ELSE dsk, id,
                   IF b.packed THEN Garbage ELSE b.data),
       lost |-> IF L3Full(c, dsk) THEN Room ELSE c.lost]

(* Put pointer p, to a block with this id and content b, into all levels.
   L1 drops its oldest entries.  The block that had the slot before leaves
   L2 and L3, unless its id is 0; slot 0 gets no entry in the index. *)
Put(c, id, p, b) ==
  LET rest == L1Without(c, id)
      over == IF Len(rest) >= Budget THEN Len(rest) - Budget + 1 ELSE 0
      s    == id % Slots
      old  == c.l2[s].id
      gone == IF old = 0 THEN {} ELSE {old}
      idx  == [x \in DOMAIN c.index \ gone |-> c.index[x]]
      dsk  == [x \in DOMAIN c.l3 \ gone |-> c.l3[x]]
  IN  [l1 |-> Append(SubSeq(rest, over + 1, Len(rest)), [id |-> id, ptr |-> p]),
       l2 |-> [c.l2 EXCEPT ![s] = [id |-> id, data |-> b.data]],
       index |-> IF s = 0 THEN idx ELSE With(idx, id, s),
       l3 |-> With(IF L3Full(c, dsk) THEN [x \in {} |-> None] ELSE dsk, id,
                   IF b.packed THEN Garbage ELSE b.data),
       lost |-> IF L3Full(c, dsk) THEN Room ELSE c.lost]

(* The entry L2 has for this id. *)
L2Hit(c, id) == id \in DOMAIN c.index /\ c.l2[c.index[id]].id = id

(* What has expired in L3 when it is looked up leaves the table and stays in
   the account. *)
Expired(c, id) ==
  [c EXCEPT !.l3 = Without(@, id),
            !.lost = IF id \in DOMAIN c.l3 /\ @ < Room THEN @ + 1 ELSE @]

(* The outcomes of getting id: the pointer found, the cache after, and
   whether an L2 hit was promoted - cache_put_block then frees the very
   block it is given and reads it. *)
Get(c, id) ==
  IF L1Hits(c, id) # {}
  THEN {[ptr |-> c.l1[CHOOSE k \in L1Hits(c, id) : TRUE].ptr, cache |-> c, broken |-> FALSE]}
  ELSE IF L2Hit(c, id) THEN {[ptr |-> None, cache |-> c, broken |-> TRUE]}
  ELSE {[ptr |-> None,
         cache |-> Expired(c, id),
         broken |-> FALSE]}
       \cup (IF id \in DOMAIN c.l3
             THEN {[ptr |-> Loaded(c.l3[id]),
                    cache |-> Put(c, id, Loaded(c.l3[id]), Loaded(c.l3[id])),
                    broken |-> FALSE]}
             ELSE {})

(* Mutant: a block that L2 has no entry for is left in L3. *)
InvalidateL2(c, id) ==
  [l1 |-> L1Without(c, id),
   l2 |-> IF id \in DOMAIN c.index
          THEN [c.l2 EXCEPT ![c.index[id]] = [id |-> 0, data |-> None]] ELSE c.l2,
   index |-> Without(c.index, id),
   l3 |-> IF id \in DOMAIN c.index THEN Without(c.l3, id) ELSE c.l3,
   lost |-> c.lost]

(* Drop id from every level. *)
Invalidate(c, id) ==
  [l1 |-> L1Without(c, id),
   l2 |-> IF id \in DOMAIN c.index
          THEN [c.l2 EXCEPT ![c.index[id]] = [id |-> 0, data |-> None]] ELSE c.l2,
   index |-> Without(c.index, id),
   l3 |-> Without(c.l3, id),
   lost |-> c.lost]

----
Init ==
  /\ block = [f \in Files |-> [i \in Idx |-> None]]
  /\ size = [f \in Files |-> 0]
  /\ total = 0
  /\ dirs = 0
  /\ cache = EmptyCache
  /\ broken = FALSE

(* smart_write_file, one block: allocate_block takes the next id, an old
   block is invalidated first and put back after. *)
WriteBlock(f, i) ==
  LET old == block[f][i]
      id  == IF old = None THEN total ELSE old.id
  IN  /\ ~broken
      /\ <<f, i>> \in Written
      /\ \E form \in Forms :
           LET b == [id |-> id, data |-> form[1], packed |-> form[2]]
           IN  /\ block' = [block EXCEPT ![f][i] = b]
               /\ cache' = Put(IF old = None THEN cache ELSE Invalidate(cache, id),
                               id, Own(f, i), b)
      /\ total' = IF old = None THEN total + 1 ELSE total
      /\ total' \in Ids
      /\ size' = [size EXCEPT ![f] = IF i > @ THEN i ELSE @]
      /\ UNCHANGED <<dirs, broken>>

(* smart_read_file, one block: what the cache has is read in place of the
   file's own block and put again, then the next block is prefetched. *)
ReadBlock(f, i) ==
  /\ ~broken
  /\ i <= size[f] /\ block[f][i] # None
  /\ \E got \in Get(cache, block[f][i].id) :
       LET p    == IF got.ptr = None THEN Own(f, i) ELSE got.ptr
           put  == Put(got.cache, block[f][i].id, p, Deref(p))
           next == IF i < Blocks /\ block[f][i + 1] # None THEN Get(put, block[f][i + 1].id)
                   ELSE {[ptr |-> None, cache |-> put, broken |-> FALSE]}
       IN  IF got.broken THEN broken' = TRUE /\ UNCHANGED cache
           ELSE \E n \in next : cache' = n.cache /\ broken' = n.broken
  /\ UNCHANGED <<block, size, total, dirs>>

(* Mutant: the last block is freed without being invalidated. *)
FreeAllButLast(f) ==
  LET free[i \in 0..Blocks] ==
        IF i = 0 THEN cache
        ELSE IF block[f][i] = None \/ i = Blocks THEN free[i - 1]
        ELSE Invalidate(free[i - 1], block[f][i].id)
  IN  free[Blocks]

(* The cache after every block of f has been freed. *)
FreeAll(f) ==
  LET free[i \in 0..Blocks] ==
        IF i = 0 THEN cache
        ELSE IF block[f][i] = None THEN free[i - 1]
        ELSE Invalidate(free[i - 1], block[f][i].id)
  IN  free[Blocks]

(* smartbackupfs_unlink of the last name: the file's blocks are freed, and
   meta->blocks is taken from total_blocks. *)
Unlink(f) ==
  /\ ~broken
  /\ block' = [block EXCEPT ![f] = [i \in Idx |-> None]]
  /\ cache' = FreeAll(f)
  /\ total' = total - size[f]
  /\ total' \in Ids
  /\ size' = [size EXCEPT ![f] = 0]
  /\ UNCHANGED <<dirs, broken>>

(* smartbackupfs_truncate changes the size and nothing else. *)
Truncate(f) ==
  /\ ~broken
  /\ \E n \in 0..Blocks : size' = [size EXCEPT ![f] = n]
  /\ UNCHANGED <<block, total, dirs, cache, broken>>

(* smartbackupfs_mkdir, smartbackupfs_rmdir. *)
MakeDir ==
  /\ ~broken /\ dirs < MaxDirs
  /\ dirs' = dirs + 1
  /\ total' = total + 1
  /\ total' \in Ids
  /\ UNCHANGED <<block, size, cache, broken>>

RemoveDir ==
  /\ ~broken /\ dirs > 0
  /\ dirs' = dirs - 1
  /\ total' = total - 1
  /\ total' \in Ids
  /\ UNCHANGED <<block, size, cache, broken>>

(* l3_trim_expired, from the flush thread. *)
TrimExpired ==
  /\ ~broken
  /\ \E id \in DOMAIN cache.l3 : cache' = [cache EXCEPT !.l3 = Without(@, id)]
  /\ UNCHANGED <<block, size, total, dirs, broken>>

Next ==
  \/ \E f \in Files, i \in Idx : WriteBlock(f, i) \/ ReadBlock(f, i)
  \/ \E f \in Files : Unlink(f) \/ Truncate(f)
  \/ MakeDir \/ RemoveDir \/ TrimExpired

Spec == Init /\ [][Next]_vars

----
(* Properties *)

Data == Contents \cup {Garbage, None}

(* The types of the state, and how much the levels hold: L1 no more than its
   budget and one entry for an id, L3 no more than it has room for, however
   its account drifts; and every index entry of L2 names a slot that is
   filled with its block. *)
TypeOK ==
  /\ \A f \in Files, i \in Idx :
       block[f][i] # None => block[f][i] \in Block
  /\ size \in [Files -> 0..Blocks]
  /\ total \in Ids
  /\ dirs \in 0..MaxDirs
  /\ Len(cache.l1) <= Budget
  /\ \A j, k \in DOMAIN cache.l1 : cache.l1[j].id = cache.l1[k].id => j = k
  /\ cache.l2 \in [0..Slots - 1 -> [id : Int, data : Data]]
  /\ \A id \in DOMAIN cache.index : cache.l2[cache.index[id]].id = id
  /\ \A id \in DOMAIN cache.l3 : cache.l3[id] \in Data
  /\ Cardinality(DOMAIN cache.l3) <= Room /\ cache.lost \in 0..Room
  /\ broken \in BOOLEAN

(* The blocks that exist. *)
Existing == {x \in Files \X Idx : block[x[1]][x[2]] # None}

(* A block of a file that shares its id with no other and is not compressed
   is what the cache holds under that id, at whatever level: reading through
   the cache shows what was last written. *)
Coherent ==
  \A x \in Existing :
    LET b == block[x[1]][x[2]]
    IN  (\A y \in Existing \ {x} : block[y[1]][y[2]].id # b.id) /\ ~b.packed =>
          /\ \A k \in L1Hits(cache, b.id) :
               LET p == cache.l1[k].ptr
               IN  p.own \in {None, x} /\ Deref(p).data = b.data
          /\ L2Hit(cache, b.id) => cache.l2[cache.index[b.id]].data = b.data
          /\ b.id \in DOMAIN cache.l3 => cache.l3[b.id] = b.data

(* L1's pointers to a file's block never outlive the block. *)
NoStalePointer ==
  \A k \in DOMAIN cache.l1 :
    LET p == cache.l1[k].ptr
    IN  p.own # None => p.own \in Existing /\ Deref(p).id = cache.l1[k].id

(* smartbackupfs.h: a block_id identifies one block. *)
UniqueIds ==
  \A x, y \in Existing : block[x[1]][x[2]].id = block[y[1]][y[2]].id => x = y
====
