---- MODULE DedupProofs ----
(***************************************************************************)
(* Proofs about Dedup with one FUSE thread busy at a time, for every       *)
(* number of files, block indices, addresses, contents and algorithms:     *)
(* reference counts, what a write leaves, labels.  With two threads the    *)
(* code does not keep them (run dedup_race).                               *)
(***************************************************************************)
EXTENDS Dedup, FiniteSetTheorems, TLAPS

OneBusy == MaxBusy <= 1

LEMMA Constants ==
  /\ IsFiniteSet(Files) /\ IsFiniteSet(Idx)
  /\ None \notin Addr /\ None \notin Algos /\ None \notin Idx
  /\ \A c \in Contents : <<c>> \notin Contents
  /\ Fallback \in [Algos -> Algos] /\ Sharing \subseteq BOOLEAN
  /\ MaxBusy \in Nat
BY DedupAssumption

----
(* The invariant *)

(* Thread f works on the block of one index, or will when it has released
   another. *)
OnBlock(f) ==
  \/ pc[f] \in {"refs", "copy", "hash", "find", "index", "compress"}
  \/ pc[f] \in {"drop", "free"} /\ task[f].then # "unlink"

(* Thread f has not come to the step that compresses. *)
Uncompressed(f) ==
  \/ pc[f] \in {"refs", "copy", "hash", "find", "index"}
  \/ pc[f] \in {"drop", "free"} /\ task[f].then = "hash"

Task == [i : Idx \cup {None}, victim : Addr \cup {None},
         then : {"idle", "hash", "compress", "unlink"}, wrote : Contents \cup {None}]

(* Threads: one at a time, with a block of its own file. *)
ThreadInv ==
  /\ task \in [Files -> Task]
  /\ \A f, g \in Files : pc[f] # "idle" /\ pc[g] # "idle" => f = g
  /\ \A f \in Files : pc[f] \in {"drop", "free"} => task[f].victim \in Addr /\ task[f].then # "idle"
  /\ \A f \in Files : OnBlock(f) => task[f].i \in Idx /\ Blk(f) \in Addr

(* Blocks in use have data, and a hash of it. *)
DataInv ==
  /\ \A a \in allocated : /\ block[a].data \in Contents
                          /\ block[a].hash \in {block[a].data, SumHash(block[a].data)}
  /\ \A f \in Files : OnBlock(f) => block[Blk(f)].data = task[f].wrote
  /\ \A f \in Files : pc[f] = "find" => block[Blk(f)].hash = block[Blk(f)].data

(* A block that is not in use may be in the index, but not under its hash. *)
IndexInv ==
  \A a \in Addr \ allocated : HashKey(block[a].hash) \in DOMAIN index =>
    index[HashKey(block[a].hash)] # a

(* Up to the compression step a block is plain. *)
FormInv ==
  /\ \A f \in Files : Uncompressed(f) => block[Blk(f)].form = None
  /\ RelabelsDuplicates

Inv == TypeOK /\ ThreadInv /\ RefsCover /\ DataInv /\ IndexInv /\ FormInv

----
(* References *)

LEMMA RefsFinite ==
  ASSUME NEW a
  PROVE  /\ IsFiniteSet(References(a)) /\ Cardinality(References(a)) \in Nat
         /\ IsFiniteSet(References(a)') /\ Cardinality(References(a)') \in Nat
         /\ Cardinality(References(a)) = 0 <=> References(a) = {}
<1> DEFINE U == Files \X (Idx \cup {None})
<1>1. IsFiniteSet(Idx \cup {None})
  BY Constants, FS_AddElement
<1>2. IsFiniteSet(U)
  BY <1>1, Constants, FS_Product
<1>3. References(a) \in SUBSET U /\ References(a)' \in SUBSET U
  BY DEF References
<1> HIDE DEF U
<1> QED BY <1>2, <1>3, FS_Subset, FS_CardinalityType, FS_EmptySet

LEMMA RefsSlot ==
  ASSUME NEW f \in Files, NEW i \in Idx
  PROVE  <<f, i>> \in References(slot[f][i])
BY DEF References

LEMMA RefsVictim ==
  ASSUME NEW f \in Files, pc[f] = "drop"
  PROVE  <<f, None>> \in References(task[f].victim)
BY DEF References

(* A block that a slot or a thread refers to is counted and in use. *)
LEMMA Referenced ==
  ASSUME TypeOK, RefsCover, NEW a \in Addr, References(a) # {}
  PROVE  /\ block[a].refs \in Nat /\ block[a].refs > 0 /\ a \in allocated
         /\ \A f \in Files : ~(pc[f] = "free" /\ task[f].victim = a)
<1> DEFINE n == Cardinality(References(a))
<1>1. n \in Nat /\ n # 0
  BY RefsFinite
<1>2. n <= block[a].refs /\ block[a].refs \in Nat
  BY DEF RefsCover, TypeOK, DataBlock
<1> HIDE DEF n
<1>3. block[a].refs > 0
  BY <1>1, <1>2
<1> QED BY <1>2, <1>3 DEF TypeOK

(* No more references than before. *)
LEMMA Fewer ==
  ASSUME NEW a, References(a)' \subseteq References(a)
  PROVE  Cardinality(References(a)') <= Cardinality(References(a))
BY RefsFinite, FS_Subset

(* One more reference. *)
LEMMA OneMore ==
  ASSUME NEW a, NEW x, References(a)' \subseteq References(a) \cup {x}
  PROVE  Cardinality(References(a)') <= Cardinality(References(a)) + 1
<1> DEFINE T == References(a) \cup {x}
           m == Cardinality(References(a))
           n == Cardinality(References(a)')
<1>1. m \in Nat /\ n \in Nat
  BY RefsFinite
<1>2. IsFiniteSet(T) /\ Cardinality(T) \in {m, m + 1}
  BY RefsFinite, FS_AddElement
<1>3. n <= Cardinality(T)
  BY <1>2, FS_Subset
<1> HIDE DEF T, m, n
<1>4. n <= m + 1
  BY <1>1, <1>2, <1>3
<1> QED BY <1>4 DEF m, n

(* One fewer. *)
LEMMA OneLess ==
  ASSUME NEW a, NEW x \in References(a), References(a)' \subseteq References(a) \ {x}
  PROVE  Cardinality(References(a)') <= Cardinality(References(a)) - 1
<1> DEFINE T == References(a) \ {x}
           m == Cardinality(References(a))
           n == Cardinality(References(a)')
<1>1. m \in Nat /\ n \in Nat
  BY RefsFinite
<1>2. IsFiniteSet(T) /\ Cardinality(T) = m - 1
  BY RefsFinite, FS_RemoveElement
<1>3. n <= Cardinality(T)
  BY <1>2, FS_Subset
<1> HIDE DEF T, m, n
<1>4. n <= m - 1
  BY <1>1, <1>2, <1>3
<1> QED BY <1>4 DEF m, n

(* One exchanged for another. *)
LEMMA Exchanged ==
  ASSUME NEW a, NEW x \in References(a), NEW y,
         References(a)' \subseteq (References(a) \ {x}) \cup {y}
  PROVE  Cardinality(References(a)') <= Cardinality(References(a))
<1> DEFINE S == References(a) \ {x}
           T == S \cup {y}
           m == Cardinality(References(a))
           n == Cardinality(References(a)')
<1>1. m \in Nat /\ n \in Nat
  BY RefsFinite
<1>2. IsFiniteSet(S) /\ Cardinality(S) = m - 1
  BY RefsFinite, FS_RemoveElement
<1> HIDE DEF S
<1>3. IsFiniteSet(T) /\ Cardinality(T) \in {m - 1, m - 1 + 1}
  BY <1>2, FS_AddElement
<1>4. n <= Cardinality(T)
  BY <1>3, FS_Subset DEF S
<1> HIDE DEF T, m, n
<1>5. n <= m
  BY <1>1, <1>3, <1>4
<1> QED BY <1>5 DEF m, n

----
(* Threads *)

(* While a thread takes a step every other is idle and stays so. *)
LEMMA Alone ==
  ASSUME OneBusy, TypeOK, ThreadInv, NEW f \in Files, Step(f)
  PROVE  \A g \in Files \ {f} : /\ pc[g] = "idle" /\ pc'[g] = "idle"
                                /\ task'[g] = task[g] /\ slot'[g] = slot[g]
<1>1. ASSUME NEW g \in Files \ {f} PROVE pc[g] = "idle"
  <2>1. CASE pc[f] # "idle"
    BY <2>1 DEF ThreadInv
  <2>2. CASE pc[f] = "idle"
    <3>1. Cardinality(Busy) < MaxBusy
      BY <2>2 DEF Step, WriteBlock, ReadRefs, Copy, ComputeHash, FindDuplicate, IndexBlock,
                  Compress, Drop, Free, Unlink, DestroyBlocks
    <3>2. IsFiniteSet(Busy)
      BY Constants, FS_Subset DEF Busy
    <3>3. Cardinality(Busy) \in Nat
      BY <3>2, FS_CardinalityType
    <3>4. Cardinality(Busy) = 0
      BY <3>1, <3>3, Constants DEF OneBusy
    <3>5. Busy = {}
      BY <3>2, <3>4, FS_EmptySet
    <3> QED BY <3>5 DEF Busy
  <2> QED BY <2>1, <2>2
<1>2. ASSUME NEW g \in Files \ {f}
      PROVE  pc'[g] = pc[g] /\ task'[g] = task[g] /\ slot'[g] = slot[g]
  <2> USE DEF TypeOK, ThreadInv, Goto
  <2>1. CASE WriteBlock(f)
    BY <2>1 DEF WriteBlock
  <2>2. CASE ReadRefs(f) \/ ComputeHash(f) \/ IndexBlock(f) \/ Compress(f)
    BY <2>2 DEF ReadRefs, ComputeHash, IndexBlock, Compress
  <2>3. CASE Copy(f)
    BY <2>3 DEF Copy, Release
  <2>4. CASE FindDuplicate(f)
    BY <2>4 DEF FindDuplicate, TakeDuplicate, Release
  <2>5. CASE Drop(f) \/ Free(f) \/ Unlink(f)
    BY <2>5 DEF Drop, Free, Unlink
  <2>6. CASE DestroyBlocks(f)
    BY <2>6 DEF DestroyBlocks, Release
  <2> QED BY <2>1, <2>2, <2>3, <2>4, <2>5, <2>6 DEF Step
<1> QED BY <1>1, <1>2

(* The block a thread works on. *)
LEMMA Here ==
  ASSUME Inv, NEW f \in Files, OnBlock(f)
  PROVE  /\ task[f].i \in Idx /\ Blk(f) = slot[f][task[f].i]
         /\ Blk(f) \in Addr /\ Blk(f) # None /\ Blk(f) \in allocated
         /\ block[Blk(f)] \in DataBlock
         /\ block[Blk(f)].refs \in Nat /\ block[Blk(f)].refs > 0
         /\ block[Blk(f)].data \in Contents /\ block[Blk(f)].data = task[f].wrote
<1>1. task[f].i \in Idx /\ Blk(f) = slot[f][task[f].i] /\ Blk(f) \in Addr
  BY DEF Inv, ThreadInv, Blk
<1>2. References(Blk(f)) # {}
  BY <1>1, RefsSlot
<1>3. block[Blk(f)].refs \in Nat /\ block[Blk(f)].refs > 0 /\ Blk(f) \in allocated
  BY <1>1, <1>2, Referenced DEF Inv
<1>4. block[Blk(f)] \in DataBlock
  BY <1>1 DEF Inv, TypeOK
<1>5. block[Blk(f)].data \in Contents /\ block[Blk(f)].data = task[f].wrote
  BY <1>3 DEF Inv, DataInv
<1> QED BY <1>1, <1>3, <1>4, <1>5, Constants

(* The counts stay right while no reference is made. *)
LEMMA RefsKept ==
  ASSUME TypeOK, RefsCover, UNCHANGED slot, \A a \in Addr : block'[a].refs = block[a].refs,
         \A g \in Files : pc'[g] = "drop" => pc[g] = "drop" /\ task'[g] = task[g]
  PROVE  RefsCover'
<1>1. ASSUME NEW a \in Addr PROVE Cardinality(References(a)') <= block'[a].refs
  <2>1. References(a)' \subseteq References(a)
    BY DEF References
  <2>2. Cardinality(References(a)') <= Cardinality(References(a))
    BY <2>1, Fewer
  <2>3. Cardinality(References(a)) <= block[a].refs /\ block[a].refs \in Nat
    BY DEF RefsCover, TypeOK, DataBlock
  <2> DEFINE m == Cardinality(References(a))
             n == Cardinality(References(a)')
  <2>4. m \in Nat /\ n \in Nat
    BY RefsFinite
  <2>5. block'[a].refs = block[a].refs
    OBVIOUS
  <2> HIDE DEF m, n
  <2>6. n <= block'[a].refs
    BY <2>2, <2>3, <2>4, <2>5 DEF m, n
  <2> QED BY <2>6 DEF n
<1> QED BY <1>1 DEF RefsCover

(* A thread that takes a block out of a slot and releases it keeps its
   reference. *)
LEMMA Handed ==
  ASSUME NEW f \in Files, NEW i \in Idx, NEW b, slot[f][i] = b, slot'[f][i] # b,
         \A g \in Files, j \in Idx : g # f \/ j # i => slot'[g][j] = slot[g][j],
         \A g \in Files \ {f} : pc'[g] = "idle"
  PROVE  Cardinality(References(b)') <= Cardinality(References(b))
<1>1. <<f, i>> \in References(b)
  BY RefsSlot
<1>2. ASSUME NEW s \in References(b)', s # <<f, None>>
      PROVE  s \in References(b) \ {<<f, i>>}
  <2>1. CASE s \in Files \X Idx /\ slot'[s[1]][s[2]] = b
    <3>1. s # <<f, i>>
      BY <2>1
    <3>2. s[1] # f \/ s[2] # i
      BY <2>1, <3>1
    <3>3. slot[s[1]][s[2]] = b
      BY <2>1, <3>2
    <3> QED BY <2>1, <3>1, <3>3 DEF References
  <2>2. CASE s \in Files \X {None} /\ pc'[s[1]] = "drop"
    <3>1. s[1] = f /\ s[2] = None
      BY <2>2
    <3> QED BY <1>2, <2>2, <3>1
  <2> QED BY <2>1, <2>2 DEF References
<1>3. References(b)' \subseteq (References(b) \ {<<f, i>>}) \cup {<<f, None>>}
  BY <1>2
<1> QED BY <1>1, <1>3, Exchanged

----
(* The steps of a write *)

LEMMA ReadRefsInv ==
  ASSUME OneBusy, Inv, NEW f \in Files, ReadRefs(f)
  PROVE  Inv'
<1>1. /\ pc[f] = "refs" /\ \E p \in {"hash", "copy"} : pc' = [pc EXCEPT ![f] = p]
      /\ UNCHANGED <<block, allocated, index, slot, config, task>>
  BY DEF ReadRefs, Goto
<1>2. \A g \in Files \ {f} : pc[g] = "idle" /\ pc'[g] = "idle"
  BY Alone DEF Step, Inv
<1>3. OnBlock(f) /\ Uncompressed(f) /\ pc'[f] \in {"hash", "copy"}
  BY <1>1 DEF OnBlock, Uncompressed, Inv, TypeOK
<1>4. TypeOK'
  BY <1>1, <1>2, <1>3 DEF Inv, TypeOK, Places
<1>5. ThreadInv'
  BY <1>1, <1>2, <1>3 DEF Inv, ThreadInv, OnBlock, Blk
<1>6. RefsCover'
  BY <1>1, <1>2, <1>3, RefsKept DEF Inv
<1>7. DataInv'
  BY <1>1, <1>2, <1>3 DEF Inv, DataInv, OnBlock, Blk
<1>8. IndexInv'
  BY <1>1 DEF Inv, IndexInv, HashKey
<1>9. FormInv'
  BY <1>1, <1>2, <1>3 DEF Inv, FormInv, Uncompressed, RelabelsDuplicates, Blk
<1> QED BY <1>4, <1>5, <1>6, <1>7, <1>8, <1>9 DEF Inv

LEMMA ComputeHashInv ==
  ASSUME OneBusy, Inv, NEW f \in Files, ComputeHash(f)
  PROVE  Inv'
<1> DEFINE b == Blk(f)
<1>1. /\ pc[f] = "hash" /\ \E p \in {"find", "compress"} : pc' = [pc EXCEPT ![f] = p]
      /\ block' = [block EXCEPT ![b].hash = block[b].data]
      /\ UNCHANGED <<allocated, index, slot, config, task>>
  BY DEF ComputeHash, Goto
<1>2. \A g \in Files \ {f} : pc[g] = "idle" /\ pc'[g] = "idle"
  BY Alone DEF Step, Inv
<1>3. OnBlock(f) /\ Uncompressed(f) /\ pc'[f] \in {"find", "compress"} /\ Blk(f)' = Blk(f)
  BY <1>1 DEF OnBlock, Uncompressed, Inv, TypeOK, Blk
<1>4. /\ b \in Addr /\ b \in allocated /\ block[b] \in DataBlock /\ block[b].data \in Contents
      /\ block[b].data = task[f].wrote /\ block[b].form = None
  BY <1>3, Here DEF Inv, FormInv
<1>5. /\ block' \in [Addr -> DataBlock]
      /\ \A a \in Addr : /\ block'[a].refs = block[a].refs /\ block'[a].form = block[a].form
                         /\ block'[a].data = block[a].data
                         /\ a # b => block'[a].hash = block[a].hash
      /\ block'[b].hash = block[b].data
  <2>1. block \in [Addr -> DataBlock]
    BY DEF Inv, TypeOK
  <2> HIDE DEF b
  <2> QED BY <1>1, <1>4, <2>1 DEF DataBlock
<1> HIDE DEF b
<1>6. TypeOK'
  BY <1>1, <1>2, <1>3, <1>5 DEF Inv, TypeOK, Places
<1>7. ThreadInv'
  BY <1>1, <1>2, <1>3 DEF Inv, ThreadInv, OnBlock, Blk
<1>8. RefsCover'
  BY <1>1, <1>2, <1>3, <1>5, RefsKept DEF Inv
<1>9. DataInv'
  <2>1. \A a \in allocated' : block'[a].data \in Contents
                              /\ block'[a].hash \in {block'[a].data, SumHash(block'[a].data)}
    BY <1>1, <1>4, <1>5 DEF Inv, DataInv, TypeOK
  <2>2. \A g \in Files : OnBlock(g)' => g = f
    BY <1>2 DEF OnBlock
  <2>3. block'[b].data = task'[f].wrote /\ block'[b].hash = block'[b].data /\ Blk(f)' = b
    BY <1>1, <1>3, <1>4, <1>5 DEF b
  <2> QED BY <2>1, <2>2, <2>3 DEF DataInv, OnBlock
<1>10. IndexInv'
  BY <1>1, <1>4, <1>5 DEF Inv, IndexInv, HashKey
<1>11. FormInv'
  <2>1. \A g \in Files : Uncompressed(g)' \/ pc'[g] = "compress" => g = f
    BY <1>2 DEF Uncompressed
  <2>2. block'[Blk(f)'].form = None
    BY <1>3, <1>4, <1>5 DEF b
  <2> QED BY <2>1, <2>2 DEF FormInv, RelabelsDuplicates
<1> QED BY <1>6, <1>7, <1>8, <1>9, <1>10, <1>11 DEF Inv

LEMMA IndexBlockInv ==
  ASSUME OneBusy, Inv, NEW f \in Files, IndexBlock(f)
  PROVE  Inv'
<1> DEFINE b == Blk(f)
           key == HashKey(block[b].hash)
<1>1. /\ pc[f] = "index" /\ pc' = [pc EXCEPT ![f] = "compress"]
      /\ UNCHANGED <<block, allocated, slot, config, task>>
      /\ \/ index' = index
         \/ index' = [k \in DOMAIN index \cup {key} |-> IF k = key THEN b ELSE index[k]]
  BY DEF IndexBlock, Goto
<1>2. \A g \in Files \ {f} : pc[g] = "idle" /\ pc'[g] = "idle"
  BY Alone DEF Step, Inv
<1>3. OnBlock(f) /\ Uncompressed(f) /\ pc'[f] = "compress" /\ Blk(f)' = Blk(f)
  BY <1>1 DEF OnBlock, Uncompressed, Inv, TypeOK, Blk
<1>4. b \in Addr /\ b \in allocated /\ block[b].form = None
  BY <1>3, Here DEF Inv, FormInv
<1> HIDE DEF key, b
<1>5. \A k \in DOMAIN index' : index'[k] = b \/ (k \in DOMAIN index /\ index'[k] = index[k])
  BY <1>1
<1>6. TypeOK'
  <2>1. \A k \in DOMAIN index' : index'[k] \in Addr
    BY <1>4, <1>5 DEF Inv, TypeOK
  <2> QED BY <1>1, <1>2, <1>3, <2>1 DEF Inv, TypeOK, Places
<1>7. ThreadInv'
  BY <1>1, <1>2, <1>3 DEF Inv, ThreadInv, OnBlock, Blk
<1>8. RefsCover'
  BY <1>1, <1>2, <1>3, RefsKept DEF Inv
<1>9. DataInv'
  BY <1>1, <1>2, <1>3 DEF Inv, DataInv, OnBlock, Blk
<1>10. IndexInv'
  <2>1. ASSUME NEW a \in Addr \ allocated, HashKey(block[a].hash) \in DOMAIN index'
        PROVE  index'[HashKey(block[a].hash)] # a
    BY <1>4, <1>5, <2>1 DEF Inv, IndexInv
  <2> QED BY <1>1, <2>1 DEF IndexInv, HashKey
<1>11. FormInv'
  <2>1. \A g \in Files : Uncompressed(g)' \/ pc'[g] = "compress" => g = f
    BY <1>2 DEF Uncompressed
  <2>2. block'[Blk(f)'].form = None
    BY <1>1, <1>3, <1>4 DEF b
  <2> QED BY <2>1, <2>2 DEF FormInv, RelabelsDuplicates
<1> QED BY <1>6, <1>7, <1>8, <1>9, <1>10, <1>11 DEF Inv

LEMMA WriteBlockInv ==
  ASSUME OneBusy, Inv, NEW f \in Files, WriteBlock(f)
  PROVE  Inv'
<1> USE DEF Inv
<1>0. /\ pc[f] = "idle" /\ pc' = [pc EXCEPT ![f] = "refs"]
      /\ UNCHANGED <<index, config>>
  BY DEF WriteBlock, Goto
<1>1. PICK i \in Idx, c \in Contents, a \in Addr :
        /\ IF slot[f][i] = None
           THEN /\ a \notin allocated
                /\ allocated' = allocated \cup {a}
                /\ slot' = [slot EXCEPT ![f][i] = a]
                /\ block' = [block EXCEPT ![a] =
                     [data |-> c, hash |-> SumHash(c), refs |-> 1, form |-> None]]
           ELSE /\ a = slot[f][i]
                /\ block' = [block EXCEPT ![a].data = c, ![a].hash = SumHash(c), ![a].form = None]
                /\ UNCHANGED <<allocated, slot>>
        /\ task' = [task EXCEPT ![f].i = i, ![f].wrote = c]
  BY DEF WriteBlock
<1>2. \A g \in Files \ {f} : pc[g] = "idle" /\ pc'[g] = "idle"
  BY Alone DEF Step
<1>3. \A g \in Files : pc[g] = "idle"
  BY <1>0, <1>2
<1>4. pc'[f] = "refs"
  BY <1>0 DEF TypeOK
<1>5. /\ a \in allocated' /\ allocated' \subseteq allocated \cup {a} /\ allocated \subseteq allocated'
      /\ slot' \in [Files -> [Idx -> Addr \cup {None}]] /\ slot'[f][i] = a
      /\ \A g \in Files, j \in Idx : g # f \/ j # i => slot'[g][j] = slot[g][j]
  <2>1. CASE slot[f][i] = None
    <3>1. a # slot[f][i]
      BY <2>1, Constants
    <3>2. allocated' = allocated \cup {a} /\ slot' = [slot EXCEPT ![f][i] = a]
      BY <1>1, <3>1
    <3>3. slot \in [Files -> [Idx -> Addr \cup {None}]]
      BY DEF TypeOK
    <3> QED BY <3>2, <3>3
  <2>2. CASE a = slot[f][i] /\ UNCHANGED <<allocated, slot>>
    <3>1. References(a) # {}
      BY <2>2, RefsSlot
    <3>2. a \in allocated
      BY <3>1, Referenced
    <3> QED BY <2>2, <3>2 DEF TypeOK
  <2> QED BY <1>1, <2>1, <2>2
<1>6. /\ block' \in [Addr -> DataBlock]
      /\ block'[a].data = c /\ block'[a].hash = SumHash(c) /\ block'[a].form = None
      /\ block'[a].refs = IF a \in allocated THEN block[a].refs ELSE 1
      /\ \A b \in Addr \ {a} : block'[b] = block[b]
  <2>1. block \in [Addr -> DataBlock]
    BY DEF TypeOK
  <2>2. CASE a \notin allocated
    <3>1. slot[f][i] # a
      BY <2>2, RefsSlot, Referenced
    <3>2. block' = [block EXCEPT ![a] = [data |-> c, hash |-> SumHash(c), refs |-> 1, form |-> None]]
      BY <1>1, <3>1
    <3> QED BY <2>1, <2>2, <3>2 DEF DataBlock
  <2>3. CASE a \in allocated
    <3>1. block' = [block EXCEPT ![a].data = c, ![a].hash = SumHash(c), ![a].form = None]
      BY <1>1, <2>3
    <3> QED BY <2>1, <2>3, <3>1 DEF DataBlock
  <2> QED BY <2>2, <2>3
<1>7. \A b \in Addr : block[b].refs > 0 <=> b \in allocated
  BY <1>3 DEF TypeOK
<1>8. TypeOK'
  <2>1. \A b \in Addr : block'[b].refs > 0 <=> b \in allocated'
    BY <1>5, <1>6, <1>7
  <2>2. \A g \in Files : pc'[g] # "free"
    BY <1>2, <1>4
  <2>3. pc' \in [Files -> Places]
    BY <1>0 DEF TypeOK, Places
  <2> QED BY <1>0, <1>5, <1>6, <2>1, <2>2, <2>3 DEF TypeOK
<1>9. task'[f].i = i /\ task'[f].wrote = c /\ task' \in [Files -> Task] /\ Blk(f)' = a
  <2>1. task \in [Files -> Task]
    BY DEF ThreadInv
  <2>2. task' \in [Files -> Task]
    <3>1. [task[f] EXCEPT !.i = i, !.wrote = c] \in Task
      BY <2>1 DEF Task
    <3> QED BY <1>1, <2>1, <3>1
  <2>3. task'[f].i = i /\ task'[f].wrote = c
    BY <1>1, <2>1 DEF Task
  <2> QED BY <1>5, <2>2, <2>3 DEF Blk
<1>10. \A g \in Files : OnBlock(g)' => g = f
  BY <1>2 DEF OnBlock
<1>11. ThreadInv'
  BY <1>2, <1>4, <1>9, <1>10 DEF ThreadInv
<1>12. RefsCover'
  <2>1. ASSUME NEW b \in Addr \ {a} PROVE Cardinality(References(b)') <= block'[b].refs
    <3>1. References(b)' \subseteq References(b)
      BY <1>2, <1>4, <1>5, <2>1 DEF References
    <3>2. Cardinality(References(b)) <= block[b].refs /\ block[b].refs \in Nat
      BY DEF RefsCover, TypeOK, DataBlock
    <3>3. Cardinality(References(b)') <= Cardinality(References(b))
      BY <3>1, Fewer
    <3> DEFINE m == Cardinality(References(b))
               n == Cardinality(References(b)')
    <3>4. m \in Nat /\ n \in Nat
      BY RefsFinite
    <3> HIDE DEF m, n
    <3>5. n <= block[b].refs
      BY <3>2, <3>3, <3>4 DEF m, n
    <3> QED BY <1>6, <3>5 DEF n
  <2>2. Cardinality(References(a)') <= block'[a].refs
    <3> DEFINE m == Cardinality(References(a))
               n == Cardinality(References(a)')
    <3>1. m \in Nat /\ n \in Nat /\ (m = 0 <=> References(a) = {})
      BY RefsFinite
    <3>2. m <= block[a].refs /\ block[a].refs \in Nat
      BY DEF RefsCover, TypeOK, DataBlock
    <3>3. References(a)' \subseteq References(a) \cup {<<f, i>>}
      BY <1>2, <1>4, <1>5 DEF References
    <3>4. CASE a \in allocated
      <4>1. slot[f][i] = a
        BY <1>1, <3>4
      <4>2. References(a)' \subseteq References(a)
        BY <3>3, <4>1, RefsSlot
      <4>3. n <= m
        BY <4>2, Fewer
      <4> HIDE DEF m, n
      <4>4. n <= block'[a].refs
        BY <1>6, <3>1, <3>2, <3>4, <4>3
      <4> QED BY <4>4 DEF n
    <3>5. CASE a \notin allocated
      <4>1. References(a) = {}
        BY <3>5, Referenced
      <4>2. m = 0
        BY <3>1, <4>1
      <4>3. n <= m + 1
        BY <3>3, OneMore
      <4> HIDE DEF m, n
      <4>4. n <= block'[a].refs
        BY <1>6, <3>1, <3>5, <4>2, <4>3
      <4> QED BY <4>4 DEF n
    <3> QED BY <3>4, <3>5
  <2> QED BY <2>1, <2>2 DEF RefsCover
<1>13. DataInv'
  <2>1. \A b \in allocated' : block'[b].data \in Contents
                              /\ block'[b].hash \in {block'[b].data, SumHash(block'[b].data)}
    BY <1>5, <1>6 DEF DataInv, TypeOK
  <2>2. \A g \in Files : pc'[g] # "find"
    BY <1>2, <1>4
  <2> QED BY <1>6, <1>9, <1>10, <2>1, <2>2 DEF DataInv
<1>14. IndexInv'
  BY <1>0, <1>5, <1>6 DEF IndexInv, HashKey
<1>15. FormInv'
  <2>1. \A g \in Files : Uncompressed(g)' => g = f
    BY <1>2 DEF Uncompressed
  <2>2. \A g \in Files : pc'[g] # "compress"
    BY <1>2, <1>4
  <2> QED BY <1>6, <1>9, <2>1, <2>2 DEF FormInv, RelabelsDuplicates
<1> QED BY <1>8, <1>11, <1>12, <1>13, <1>14, <1>15

LEMMA CopyInv ==
  ASSUME OneBusy, Inv, NEW f \in Files, Copy(f)
  PROVE  Inv'
<1> USE DEF Inv
<1> DEFINE b == Blk(f)
           i == task[f].i
<1>1. PICK a \in Addr \ allocated :
        /\ pc[f] = "copy" /\ pc' = [pc EXCEPT ![f] = "drop"]
        /\ task' = [task EXCEPT ![f].victim = b, ![f].then = "hash"]
        /\ UNCHANGED <<index, config>>
        /\ allocated' = allocated \cup {a}
        /\ slot' = [slot EXCEPT ![f][i] = a]
        /\ block' = [block EXCEPT ![a] =
             [data |-> block[b].data, hash |-> block[b].data, refs |-> 1, form |-> None]]
  BY DEF Copy, Release, Goto
<1>2. \A g \in Files \ {f} : pc[g] = "idle" /\ pc'[g] = "idle"
  BY Alone DEF Step
<1>3. pc'[f] = "drop" /\ OnBlock(f)
  BY <1>1 DEF TypeOK, OnBlock
<1>4. /\ i \in Idx /\ b = slot[f][i] /\ b \in Addr /\ b \in allocated /\ a # b
      /\ block[b].data \in Contents /\ block[b].data = task[f].wrote
  BY <1>3, Here
<1> HIDE DEF b, i
<1>5. /\ slot' \in [Files -> [Idx -> Addr \cup {None}]] /\ slot'[f][i] = a
      /\ \A g \in Files, j \in Idx : g # f \/ j # i => slot'[g][j] = slot[g][j]
  BY <1>1, <1>4 DEF TypeOK
<1>6. /\ block' \in [Addr -> DataBlock]
      /\ block'[a].data = block[b].data /\ block'[a].hash = block[b].data
      /\ block'[a].form = None /\ block'[a].refs = 1
      /\ \A d \in Addr \ {a} : block'[d] = block[d]
  <2>1. block \in [Addr -> DataBlock]
    BY DEF TypeOK
  <2> QED BY <1>1, <1>4, <2>1 DEF DataBlock
<1>7. \A d \in Addr : block[d].refs > 0 <=> d \in allocated
  BY <1>1, <1>2 DEF TypeOK
<1>8. TypeOK'
  <2>1. \A d \in Addr : block'[d].refs > 0 <=> d \in allocated'
    BY <1>1, <1>6, <1>7
  <2>2. \A g \in Files : pc'[g] # "free"
    BY <1>2, <1>3
  <2>3. pc' \in [Files -> Places] /\ allocated' \subseteq Addr
    BY <1>1 DEF TypeOK, Places
  <2> QED BY <1>1, <1>5, <1>6, <2>1, <2>2, <2>3 DEF TypeOK
<1>9. /\ task'[f].i = i /\ task'[f].wrote = task[f].wrote
      /\ task'[f].victim = b /\ task'[f].then = "hash"
      /\ task' \in [Files -> Task] /\ Blk(f)' = a
  <2>1. task \in [Files -> Task]
    BY DEF ThreadInv
  <2>2. task' \in [Files -> Task]
    <3>1. [task[f] EXCEPT !.victim = b, !.then = "hash"] \in Task
      BY <1>4, <2>1 DEF Task
    <3> QED BY <1>1, <2>1, <3>1
  <2>3. /\ task'[f].i = i /\ task'[f].wrote = task[f].wrote
        /\ task'[f].victim = b /\ task'[f].then = "hash"
    BY <1>1, <2>1 DEF Task, i
  <2> QED BY <1>5, <2>2, <2>3 DEF Blk
<1>10. \A g \in Files : OnBlock(g)' => g = f
  BY <1>2 DEF OnBlock
<1>11. ThreadInv'
  BY <1>2, <1>3, <1>4, <1>9, <1>10 DEF ThreadInv
<1>12. RefsCover'
  <2>1. ASSUME NEW d \in Addr \ {a, b} PROVE References(d)' \subseteq References(d)
    BY <1>2, <1>3, <1>5, <1>9 DEF References
  <2>2. ASSUME NEW d \in Addr \ {a} PROVE Cardinality(References(d)') <= Cardinality(References(d))
    <3>1. CASE d # b
      BY <2>1, <3>1, Fewer
    <3>2. CASE d = b
      <4>1. i \in Idx /\ slot[f][i] = d /\ slot'[f][i] # d
        BY <1>4, <1>5, <3>2
      <4> QED BY <1>2, <1>5, <4>1, Handed
    <3> QED BY <3>1, <3>2
  <2>3. ASSUME NEW d \in Addr \ {a} PROVE Cardinality(References(d)') <= block'[d].refs
    <3> DEFINE m == Cardinality(References(d))
               n == Cardinality(References(d)')
    <3>1. m \in Nat /\ n \in Nat /\ n <= m
      BY <2>2, RefsFinite
    <3>2. m <= block[d].refs /\ block[d].refs \in Nat
      BY DEF RefsCover, TypeOK, DataBlock
    <3> HIDE DEF m, n
    <3>3. n <= block'[d].refs
      BY <1>6, <3>1, <3>2
    <3> QED BY <3>3 DEF n
  <2>4. Cardinality(References(a)') <= block'[a].refs
    <3> DEFINE m == Cardinality(References(a))
               n == Cardinality(References(a)')
    <3>1. References(a) = {}
      BY <1>1, Referenced
    <3>2. m = 0 /\ n \in Nat
      BY <3>1, RefsFinite
    <3>3. References(a)' \subseteq References(a) \cup {<<f, i>>}
      BY <1>2, <1>3, <1>4, <1>5, <1>9 DEF References
    <3>4. n <= m + 1
      BY <3>3, OneMore
    <3> HIDE DEF m, n
    <3>5. n <= block'[a].refs
      BY <1>6, <3>2, <3>4
    <3> QED BY <3>5 DEF n
  <2> QED BY <2>3, <2>4 DEF RefsCover
<1>13. DataInv'
  <2>1. \A d \in allocated' : block'[d].data \in Contents
                              /\ block'[d].hash \in {block'[d].data, SumHash(block'[d].data)}
    BY <1>1, <1>4, <1>6 DEF DataInv, TypeOK
  <2>2. \A g \in Files : pc'[g] # "find"
    BY <1>2, <1>3
  <2> QED BY <1>4, <1>6, <1>9, <1>10, <2>1, <2>2 DEF DataInv
<1>14. IndexInv'
  BY <1>1, <1>6 DEF IndexInv, HashKey
<1>15. FormInv'
  <2>1. \A g \in Files : Uncompressed(g)' => g = f
    BY <1>2 DEF Uncompressed
  <2>2. \A g \in Files : pc'[g] # "compress"
    BY <1>2, <1>3
  <2> QED BY <1>6, <1>9, <2>1, <2>2 DEF FormInv, RelabelsDuplicates
<1> QED BY <1>8, <1>11, <1>12, <1>13, <1>14, <1>15

(* A block found by its hash is in use and has the content looked for. *)
LEMMA DuplicateHolds ==
  ASSUME Inv, NEW f \in Files, pc[f] = "find",
         NEW d, d = Lookup(HashKey(block[Blk(f)].hash)), d # None,
         block[d].hash = block[Blk(f)].hash
  PROVE  d \in Addr /\ d \in allocated /\ block[d].data = block[Blk(f)].data
<1> USE DEF Inv
<1>1. /\ Blk(f) \in allocated /\ block[Blk(f)].data \in Contents
      /\ block[Blk(f)].hash = block[Blk(f)].data
  BY Here DEF OnBlock, DataInv
<1> DEFINE h == block[Blk(f)].hash
<1>2. HashKey(h) \in DOMAIN index /\ index[HashKey(h)] = d
  BY DEF Lookup
<1>3. d \in Addr
  BY <1>2 DEF TypeOK
<1>4. d \in allocated
  BY <1>2, <1>3 DEF IndexInv
<1>5. block[d].data \in Contents /\ block[d].hash \in {block[d].data, SumHash(block[d].data)}
  BY <1>4 DEF DataInv
<1>6. block[d].hash # SumHash(block[d].data)
  BY <1>1, <1>5, Constants DEF SumHash
<1> QED BY <1>1, <1>3, <1>4, <1>5, <1>6

LEMMA FindDuplicateInv ==
  ASSUME OneBusy, Inv, NEW f \in Files, FindDuplicate(f)
  PROVE  Inv'
<1> USE DEF Inv
<1>1. pc[f] = "find" /\ UNCHANGED <<allocated, index, config>>
  BY DEF FindDuplicate
<1>2. \A g \in Files \ {f} : pc[g] = "idle" /\ pc'[g] = "idle"
  BY Alone DEF Step
<1>3. OnBlock(f) /\ Uncompressed(f)
  BY <1>1 DEF OnBlock, Uncompressed
<1>4. PICK b \in Addr, i \in Idx :
        /\ b = Blk(f) /\ i = task[f].i /\ slot[f][i] = b
        /\ block[b].data = task[f].wrote /\ block[b].form = None /\ b \in allocated
        /\ block[b].refs > 0
  BY <1>3, Here DEF FormInv
<1>5. CASE pc' = [pc EXCEPT ![f] = "index"] /\ UNCHANGED <<block, slot, task>>
  <2>1. pc'[f] = "index" /\ pc' \in [Files -> Places] /\ Blk(f)' = b
    BY <1>4, <1>5 DEF TypeOK, Places, Blk
  <2>2. TypeOK'
    BY <1>1, <1>2, <1>5, <2>1 DEF TypeOK
  <2>3. ThreadInv'
    BY <1>2, <1>3, <1>4, <1>5, <2>1 DEF ThreadInv, OnBlock
  <2>4. RefsCover'
    BY <1>2, <1>5, <2>1, RefsKept
  <2>5. DataInv'
    BY <1>1, <1>2, <1>4, <1>5, <2>1 DEF DataInv, OnBlock
  <2>6. IndexInv'
    BY <1>1, <1>5 DEF IndexInv, HashKey
  <2>7. FormInv'
    BY <1>2, <1>4, <1>5, <2>1 DEF FormInv, Uncompressed, RelabelsDuplicates
  <2> QED BY <2>2, <2>3, <2>4, <2>5, <2>6, <2>7
<1>6. ASSUME NEW d, d = Lookup(HashKey(block[b].hash)), d # None,
             block[d].hash = block[b].hash, TakeDuplicate(f, b, d)
      PROVE  Inv'
  <2>1. d \in Addr /\ d \in allocated /\ block[d].data = block[b].data
    BY <1>1, <1>4, <1>6, DuplicateHolds
  <2>2. /\ block' \in [Addr -> DataBlock]
        /\ block'[d].refs = block[d].refs + 1
        /\ \A a \in Addr : /\ block'[a].data = block[a].data /\ block'[a].hash = block[a].hash
                           /\ block'[a].form = block[a].form
                           /\ a # d => block'[a].refs = block[a].refs
    <3>1. block' = [block EXCEPT ![d].refs = @ + 1] /\ block \in [Addr -> DataBlock]
      BY <1>6 DEF TakeDuplicate, TypeOK
    <3> QED BY <2>1, <3>1 DEF DataBlock
  <2>3. /\ slot' \in [Files -> [Idx -> Addr \cup {None}]] /\ slot'[f][i] = d
        /\ \A g \in Files, j \in Idx : g # f \/ j # i => slot'[g][j] = slot[g][j]
    <3>1. slot' = [slot EXCEPT ![f][i] = d] /\ slot \in [Files -> [Idx -> Addr \cup {None}]]
      BY <1>4, <1>6 DEF TakeDuplicate, TypeOK
    <3> QED BY <2>1, <3>1
  <2>4. /\ task' \in [Files -> Task] /\ task'[f].i = i /\ task'[f].wrote = task[f].wrote
        /\ pc' \in [Files -> Places]
        /\ \/ d = b /\ pc'[f] = "compress"
           \/ d # b /\ pc'[f] = "drop" /\ task'[f].victim = b /\ task'[f].then = "compress"
    <3>1. task \in [Files -> Task] /\ pc \in [Files -> Places]
      BY DEF ThreadInv, TypeOK
    <3>2. CASE d = b
      <4>1. task' = task /\ pc' = [pc EXCEPT ![f] = "compress"]
        BY <1>6, <3>2 DEF TakeDuplicate, Goto
      <4> QED BY <1>4, <3>1, <3>2, <4>1 DEF Places
    <3>3. CASE d # b
      <4>1. /\ task' = [task EXCEPT ![f].victim = b, ![f].then = "compress"]
            /\ pc' = [pc EXCEPT ![f] = "drop"]
        BY <1>6, <3>3 DEF TakeDuplicate, Release, Goto
      <4> QED BY <1>4, <3>1, <3>3, <4>1 DEF Places, Task
    <3> QED BY <3>2, <3>3
  <2>5. Blk(f)' = d
    BY <2>3, <2>4 DEF Blk
  <2>6. TypeOK'
    <3>1. \A a \in Addr : block[a].refs > 0 <=> a \in allocated
      BY <1>1, <1>2 DEF TypeOK
    <3>2. block[d].refs \in Nat
      BY <2>1 DEF TypeOK, DataBlock
    <3>3. \A a \in Addr : block'[a].refs > 0 <=> a \in allocated'
      BY <1>1, <2>1, <2>2, <3>1, <3>2
    <3>4. \A g \in Files : pc'[g] # "free"
      BY <1>2, <2>4
    <3> QED BY <1>1, <2>2, <2>3, <2>4, <3>3, <3>4 DEF TypeOK
  <2>7. ThreadInv'
    BY <1>2, <2>1, <2>4, <2>5 DEF ThreadInv, OnBlock
  <2>8. RefsCover'
    <3>1. ASSUME NEW a \in Addr \ {d} PROVE Cardinality(References(a)') <= Cardinality(References(a))
      <4>1. CASE a = b
        <5>1. slot[f][i] = a /\ slot'[f][i] # a
          BY <1>4, <2>3, <3>1, <4>1
        <5> QED BY <1>2, <2>3, <5>1, Handed
      <4>2. CASE a # b
        <5>1. References(a)' \subseteq References(a)
          BY <1>2, <2>3, <2>4, <3>1, <4>2 DEF References
        <5> QED BY <5>1, Fewer
      <4> QED BY <4>1, <4>2
    <3>2. Cardinality(References(d)') <= Cardinality(References(d)) + 1
      <4>1. References(d)' \subseteq References(d) \cup {<<f, i>>}
        BY <1>2, <2>3, <2>4 DEF References
      <4> QED BY <4>1, OneMore
    <3>3. ASSUME NEW a \in Addr PROVE Cardinality(References(a)') <= block'[a].refs
      <4> DEFINE m == Cardinality(References(a))
                 n == Cardinality(References(a)')
      <4>1. m \in Nat /\ n \in Nat
        BY RefsFinite
      <4>2. m <= block[a].refs /\ block[a].refs \in Nat
        BY DEF RefsCover, TypeOK, DataBlock
      <4>3. n <= IF a = d THEN m + 1 ELSE m
        BY <3>1, <3>2
      <4> HIDE DEF m, n
      <4>4. n <= block'[a].refs
        BY <2>2, <4>1, <4>2, <4>3
      <4> QED BY <4>4 DEF n
    <3> QED BY <3>3 DEF RefsCover
  <2>9. DataInv'
    <3>1. \A a \in allocated' : block'[a].data \in Contents
                                /\ block'[a].hash \in {block'[a].data, SumHash(block'[a].data)}
      BY <1>1, <2>2 DEF DataInv, TypeOK
    <3>2. \A g \in Files : pc'[g] # "find"
      BY <1>2, <2>4
    <3>3. \A g \in Files : OnBlock(g)' => g = f
      BY <1>2 DEF OnBlock
    <3>4. block'[d].data = task'[f].wrote
      BY <1>4, <2>1, <2>2, <2>4
    <3> QED BY <2>5, <3>1, <3>2, <3>3, <3>4 DEF DataInv
  <2>10. IndexInv'
    BY <1>1, <2>2 DEF IndexInv, HashKey
  <2>11. FormInv'
    <3>1. \A g \in Files : ~Uncompressed(g)'
      BY <1>2, <2>4 DEF Uncompressed
    <3>2. \A g \in Files : pc'[g] = "compress" => g = f /\ d = b
      BY <1>2, <2>4
    <3>3. block'[b].form = None
      BY <1>4, <2>2
    <3> QED BY <2>5, <3>1, <3>2, <3>3 DEF FormInv, RelabelsDuplicates
  <2> QED BY <2>6, <2>7, <2>8, <2>9, <2>10, <2>11
<1> QED
  <2>1. Lookup(HashKey(block[b].hash)) = None \/ Lookup(HashKey(block[b].hash)) # None
    OBVIOUS
  <2> QED BY <1>4, <1>5, <1>6 DEF FindDuplicate, Goto

LEMMA CompressInv ==
  ASSUME OneBusy, Inv, NEW f \in Files, Compress(f)
  PROVE  Inv'
<1> USE DEF Inv
<1>1. pc[f] = "compress" /\ OnBlock(f)
  BY DEF Compress, OnBlock
<1>2. PICK b \in Addr : b = Blk(f) /\ block[b] \in DataBlock
  BY <1>1, Here
<1>3. PICK choice \in Algos \cup {None}, form \in Algos \cup {None, "lost"} :
        /\ block' = [block EXCEPT ![b].form = form]
        /\ config' = [config EXCEPT !.algo = choice]
  <2> DEFINE choices == IF config.algo = None \/ LooksCompressed(block[b]) THEN {None}
                        ELSE {config.algo, Fallback[config.algo], None}
  <2>1. PICK choice \in choices : \E form \in Packed(block[b], choice) :
           /\ block' = [block EXCEPT ![b].form = form]
           /\ config' = [config EXCEPT !.algo = choice]
    BY <1>2 DEF Compress
  <2>2. choice \in Algos \cup {None}
    BY Constants DEF TypeOK
  <2>3. Packed(block[b], choice) \subseteq Algos \cup {None, "lost"}
    BY <1>2, <2>2 DEF Packed, DataBlock
  <2> QED BY <2>1, <2>2, <2>3
<1>4. /\ pc' = [pc EXCEPT ![f] = "idle"] /\ task' = [task EXCEPT ![f] = NoTask]
      /\ UNCHANGED <<allocated, index, slot>>
  BY DEF Compress, Goto
<1>5. \A g \in Files : pc'[g] = "idle"
  BY <1>4, Alone DEF Step, TypeOK
<1>6. /\ block' \in [Addr -> DataBlock]
      /\ \A a \in Addr : block'[a].refs = block[a].refs /\ block'[a].hash = block[a].hash
                         /\ block'[a].data = block[a].data
  <2>1. block \in [Addr -> DataBlock]
    BY DEF TypeOK
  <2> QED BY <1>2, <1>3, <2>1 DEF DataBlock
<1>7. TypeOK'
  <2>1. \A g \in Files : pc[g] # "free"
    BY <1>1, Alone DEF Step
  <2>2. config' \in [dedup : BOOLEAN, algo : Algos \cup {None}]
    BY <1>3 DEF TypeOK
  <2>3. pc' \in [Files -> Places]
    BY <1>4 DEF TypeOK, Places
  <2> QED BY <1>4, <1>5, <1>6, <2>1, <2>2, <2>3 DEF TypeOK
<1>8. ThreadInv'
  <2>1. NoTask \in Task
    BY DEF NoTask, Task
  <2> QED BY <1>4, <1>5, <2>1 DEF ThreadInv, OnBlock
<1>9. RefsCover'
  BY <1>4, <1>5, <1>6, RefsKept
<1>10. DataInv'
  BY <1>4, <1>5, <1>6 DEF DataInv, OnBlock, TypeOK
<1>11. IndexInv'
  BY <1>4, <1>6 DEF IndexInv, HashKey
<1>12. FormInv'
  BY <1>5 DEF FormInv, Uncompressed, RelabelsDuplicates
<1> QED BY <1>7, <1>8, <1>9, <1>10, <1>11, <1>12

----
(* Releasing blocks, unlinking *)

LEMMA DropInv ==
  ASSUME OneBusy, Inv, NEW f \in Files, Drop(f)
  PROVE  Inv'
<1> USE DEF Inv
<1>1. pc[f] = "drop" /\ UNCHANGED <<allocated, index, slot, config, task>>
  BY DEF Drop
<1>2. \A g \in Files \ {f} : pc[g] = "idle" /\ pc'[g] = "idle"
  BY Alone DEF Step
<1>3. PICK a \in Addr : a = task[f].victim
  BY <1>1 DEF ThreadInv
<1>4. task[f].then \in {"hash", "compress", "unlink"} /\ a # None
  BY <1>1, Constants DEF ThreadInv, Task
<1>5. <<f, None>> \in References(a)
  BY <1>1, <1>3, RefsVictim
<1>6. block[a].refs \in Nat /\ block[a].refs > 0 /\ a \in allocated
  BY <1>5, Referenced
<1>7. /\ block' = [block EXCEPT ![a].refs = block[a].refs - 1]
      /\ pc' = [pc EXCEPT ![f] = IF block[a].refs - 1 = 0 THEN "free" ELSE task[f].then]
  BY <1>3, <1>6 DEF Drop, Goto
<1>8. /\ block' \in [Addr -> DataBlock]
      /\ block'[a].refs = block[a].refs - 1
      /\ \A d \in Addr : /\ block'[d].data = block[d].data /\ block'[d].hash = block[d].hash
                         /\ block'[d].form = block[d].form
                         /\ d # a => block'[d].refs = block[d].refs
  <2>1. block \in [Addr -> DataBlock] /\ block[a].refs - 1 \in Nat
    BY <1>6 DEF TypeOK
  <2> QED BY <1>7, <2>1 DEF DataBlock
<1>9. /\ pc' \in [Files -> Places] /\ Blk(f)' = Blk(f)
      /\ pc'[f] = IF block'[a].refs = 0 THEN "free" ELSE task[f].then
  BY <1>1, <1>4, <1>7, <1>8 DEF TypeOK, Places, Blk
<1>10. TypeOK'
  <2>1. \A d \in Addr : block[d].refs > 0 <=> d \in allocated
    BY <1>1, <1>2 DEF TypeOK
  <2>2. \A d \in Addr \ {a} : block'[d].refs > 0 <=> d \in allocated
    BY <1>8, <2>1
  <2>3. \A g \in Files : pc'[g] = "free" => g = f /\ block'[a].refs = 0
    BY <1>2, <1>4, <1>9
  <2>4. block'[a].refs > 0 <=> pc'[f] # "free"
    BY <1>4, <1>6, <1>8, <1>9
  <2> QED BY <1>1, <1>3, <1>6, <1>8, <1>9, <2>2, <2>3, <2>4 DEF TypeOK
<1>11. OnBlock(f)' => OnBlock(f)
  BY <1>1, <1>4, <1>9 DEF OnBlock
<1>12. \A g \in Files : OnBlock(g)' => g = f
  BY <1>2 DEF OnBlock
<1>13. ThreadInv'
  BY <1>1, <1>2, <1>4, <1>9, <1>11, <1>12 DEF ThreadInv
<1>14. RefsCover'
  <2>1. ASSUME NEW d \in Addr PROVE Cardinality(References(d)') <= block'[d].refs
    <3> DEFINE m == Cardinality(References(d))
               n == Cardinality(References(d)')
    <3>1. m \in Nat /\ n \in Nat
      BY RefsFinite
    <3>2. m <= block[d].refs /\ block[d].refs \in Nat
      BY DEF RefsCover, TypeOK, DataBlock
    <3>3. \A g \in Files : pc'[g] # "drop"
      BY <1>2, <1>4, <1>9
    <3>4. References(d)' \subseteq References(d) \ {<<f, None>>}
      BY <1>1, <3>3, Constants DEF References
    <3>5. CASE d = a
      <4>1. n <= m - 1
        BY <1>5, <3>4, <3>5, OneLess
      <4> HIDE DEF m, n
      <4>2. n <= block'[d].refs
        BY <1>8, <3>1, <3>2, <3>5, <4>1
      <4> QED BY <4>2 DEF n
    <3>6. CASE d # a
      <4>1. n <= m
        BY <3>4, Fewer
      <4> HIDE DEF m, n
      <4>2. n <= block'[d].refs
        BY <1>8, <3>1, <3>2, <3>6, <4>1
      <4> QED BY <4>2 DEF n
    <3> QED BY <3>5, <3>6
  <2> QED BY <2>1 DEF RefsCover
<1>15. DataInv'
  <2>1. \A d \in allocated' : block'[d].data \in Contents
                              /\ block'[d].hash \in {block'[d].data, SumHash(block'[d].data)}
    BY <1>1, <1>8 DEF DataInv, TypeOK
  <2>2. \A g \in Files : pc'[g] # "find"
    BY <1>2, <1>4, <1>9
  <2>3. OnBlock(f)' => block'[Blk(f)].data = task'[f].wrote
    BY <1>1, <1>8, <1>11, Here
  <2> QED BY <1>9, <1>12, <2>1, <2>2, <2>3 DEF DataInv
<1>16. IndexInv'
  BY <1>1, <1>8 DEF IndexInv, HashKey
<1>17. FormInv'
  <2>1. \A g \in Files : Uncompressed(g)' => g = f /\ Uncompressed(f) /\ OnBlock(f)
    BY <1>1, <1>2, <1>4, <1>9 DEF Uncompressed, OnBlock
  <2>2. \A g \in Files : Uncompressed(g)' => block'[Blk(g)'].form = None
    BY <1>8, <1>9, <2>1, Here DEF FormInv
  <2>3. \A g \in Files : pc'[g] = "compress" =>
          task'[g].victim # None /\ task'[g].then = "compress"
    BY <1>1, <1>2, <1>3, <1>4, <1>9
  <2> QED BY <2>2, <2>3 DEF FormInv, RelabelsDuplicates
<1> QED BY <1>10, <1>13, <1>14, <1>15, <1>16, <1>17

LEMMA FreeInv ==
  ASSUME OneBusy, Inv, NEW f \in Files, Free(f)
  PROVE  Inv'
<1> USE DEF Inv
<1>1. pc[f] = "free" /\ UNCHANGED <<slot, config, task>>
  BY DEF Free
<1>2. \A g \in Files \ {f} : pc[g] = "idle" /\ pc'[g] = "idle"
  BY Alone DEF Step
<1>3. PICK a \in Addr : a = task[f].victim
  BY <1>1 DEF ThreadInv
<1>4. task[f].then \in {"hash", "compress", "unlink"} /\ a # None
  BY <1>1, Constants DEF ThreadInv, Task
<1>5. ~(block[a].refs > 0)
  BY <1>1, <1>3 DEF TypeOK
<1> DEFINE key == HashKey(block[a].hash)
<1>6. /\ index' = IF Lookup(key) = a THEN [k \in DOMAIN index \ {key} |-> index[k]] ELSE index
      /\ allocated' = allocated \ {a}
      /\ block' = [block EXCEPT ![a].data = None, ![a].form = None]
      /\ pc' = [pc EXCEPT ![f] = task[f].then]
  BY <1>3 DEF Free, Goto
<1>7. /\ \A k \in DOMAIN index' : k \in DOMAIN index /\ index'[k] = index[k]
      /\ key \in DOMAIN index' => index'[key] # a
  BY <1>6 DEF Lookup
<1> HIDE DEF key
<1>8. /\ block' \in [Addr -> DataBlock] /\ block'[a].form = None
      /\ \A d \in Addr : /\ block'[d].refs = block[d].refs /\ block'[d].hash = block[d].hash
                         /\ d # a => block'[d] = block[d]
  <2>1. block \in [Addr -> DataBlock]
    BY DEF TypeOK
  <2> QED BY <1>6, <2>1 DEF DataBlock
<1>9. pc' \in [Files -> Places] /\ Blk(f)' = Blk(f) /\ pc'[f] = task[f].then
  BY <1>1, <1>4, <1>6 DEF TypeOK, Places, Blk
<1>10. TypeOK'
  <2>1. \A d \in Addr \ {a} : block[d].refs > 0 <=> d \in allocated
    BY <1>1, <1>2, <1>3 DEF TypeOK
  <2>2. \A d \in Addr : block'[d].refs > 0 <=> d \in allocated'
    BY <1>5, <1>6, <1>8, <2>1
  <2>3. \A g \in Files : pc'[g] # "free"
    BY <1>2, <1>4, <1>9
  <2>4. \A k \in DOMAIN index' : index'[k] \in Addr
    BY <1>7 DEF TypeOK
  <2>5. allocated' \subseteq Addr
    BY <1>6 DEF TypeOK
  <2> QED BY <1>1, <1>8, <1>9, <2>2, <2>3, <2>4, <2>5 DEF TypeOK
<1>11. OnBlock(f)' => OnBlock(f) /\ Blk(f) \in Addr \ {a}
  <2>1. OnBlock(f)' => OnBlock(f)
    BY <1>1, <1>4, <1>9 DEF OnBlock
  <2> QED BY <1>5, <2>1, Here
<1>12. \A g \in Files : OnBlock(g)' => g = f
  BY <1>2 DEF OnBlock
<1>13. ThreadInv'
  BY <1>1, <1>2, <1>4, <1>9, <1>11, <1>12 DEF ThreadInv
<1>14. RefsCover'
  <2>1. \A g \in Files : pc'[g] # "drop"
    BY <1>2, <1>4, <1>9
  <2> QED BY <1>1, <1>8, <2>1, RefsKept
<1>15. DataInv'
  <2>1. \A d \in allocated' : block'[d].data \in Contents
                              /\ block'[d].hash \in {block'[d].data, SumHash(block'[d].data)}
    BY <1>6, <1>8 DEF DataInv, TypeOK
  <2>2. \A g \in Files : pc'[g] # "find"
    BY <1>2, <1>4, <1>9
  <2>3. OnBlock(f)' => block'[Blk(f)].data = task'[f].wrote
    BY <1>1, <1>8, <1>11, Here
  <2> QED BY <1>9, <1>12, <2>1, <2>2, <2>3 DEF DataInv
<1>16. IndexInv'
  <2>1. ASSUME NEW d \in Addr \ allocated', HashKey(block[d].hash) \in DOMAIN index'
        PROVE  index'[HashKey(block[d].hash)] # d
    <3>1. CASE d = a
      BY <1>7, <2>1, <3>1 DEF key
    <3>2. CASE d # a
      BY <1>6, <1>7, <2>1, <3>2 DEF IndexInv
    <3> QED BY <3>1, <3>2
  <2> QED BY <1>8, <2>1 DEF IndexInv, HashKey
<1>17. FormInv'
  <2>1. \A g \in Files : Uncompressed(g)' => g = f /\ Uncompressed(f) /\ OnBlock(f)'
    BY <1>1, <1>2, <1>4, <1>9 DEF Uncompressed, OnBlock
  <2>2. \A g \in Files : Uncompressed(g)' => block'[Blk(g)'].form = None
    BY <1>8, <1>9, <1>11, <2>1 DEF FormInv
  <2>3. \A g \in Files : pc'[g] = "compress" =>
          task'[g].victim # None /\ task'[g].then = "compress"
    BY <1>1, <1>2, <1>3, <1>4, <1>9
  <2> QED BY <2>2, <2>3 DEF FormInv, RelabelsDuplicates
<1> QED BY <1>10, <1>13, <1>14, <1>15, <1>16, <1>17

LEMMA UnlinkInv ==
  ASSUME OneBusy, Inv, NEW f \in Files, Unlink(f)
  PROVE  Inv'
<1> USE DEF Inv
<1>1. /\ pc[f] = "idle" /\ pc' = [pc EXCEPT ![f] = "unlink"]
      /\ UNCHANGED <<block, allocated, index, slot, config, task>>
  BY DEF Unlink, Goto
<1>2. \A g \in Files \ {f} : pc[g] = "idle" /\ pc'[g] = "idle"
  BY Alone DEF Step
<1>3. pc'[f] = "unlink" /\ pc' \in [Files -> Places]
  BY <1>1 DEF TypeOK, Places
<1>4. \A g \in Files : ~OnBlock(g)' /\ ~Uncompressed(g)' /\ pc'[g] # "find" /\ pc'[g] # "compress"
  BY <1>2, <1>3 DEF OnBlock, Uncompressed
<1>5. TypeOK'
  BY <1>1, <1>2, <1>3 DEF TypeOK
<1>6. ThreadInv'
  BY <1>1, <1>2, <1>3, <1>4 DEF ThreadInv
<1>7. RefsCover'
  BY <1>1, <1>2, <1>3, RefsKept
<1>8. DataInv'
  BY <1>1, <1>4 DEF DataInv
<1>9. IndexInv'
  BY <1>1 DEF IndexInv, HashKey
<1>10. FormInv'
  BY <1>4 DEF FormInv, RelabelsDuplicates
<1> QED BY <1>5, <1>6, <1>7, <1>8, <1>9, <1>10

LEMMA DestroyBlocksInv ==
  ASSUME OneBusy, Inv, NEW f \in Files, DestroyBlocks(f)
  PROVE  Inv'
<1> USE DEF Inv
<1>1. pc[f] = "unlink" /\ UNCHANGED <<block, allocated, index, config>>
  BY DEF DestroyBlocks
<1>2. \A g \in Files \ {f} : pc[g] = "idle" /\ pc'[g] = "idle"
  BY Alone DEF Step
<1>3. CASE pc' = [pc EXCEPT ![f] = "idle"] /\ task' = [task EXCEPT ![f] = NoTask] /\ slot' = slot
  <2>1. pc' \in [Files -> Places] /\ \A g \in Files : pc'[g] = "idle"
    BY <1>2, <1>3 DEF TypeOK, Places
  <2>2. task' \in [Files -> Task]
    BY <1>3 DEF ThreadInv, Task, NoTask
  <2>3. TypeOK'
    BY <1>1, <1>2, <1>3, <2>1 DEF TypeOK
  <2>4. ThreadInv'
    BY <2>1, <2>2 DEF ThreadInv, OnBlock
  <2>5. RefsCover'
    BY <1>1, <1>3, <2>1, RefsKept
  <2>6. DataInv'
    BY <1>1, <2>1 DEF DataInv, OnBlock
  <2>7. IndexInv'
    BY <1>1 DEF IndexInv, HashKey
  <2>8. FormInv'
    BY <2>1 DEF FormInv, Uncompressed, RelabelsDuplicates
  <2> QED BY <2>3, <2>4, <2>5, <2>6, <2>7, <2>8
<1>4. ASSUME NEW i \in Idx, slot[f][i] # None, slot' = [slot EXCEPT ![f][i] = None],
             Release(f, slot[f][i], "unlink")
      PROVE  Inv'
  <2>1. PICK a \in Addr : a = slot[f][i]
    BY <1>4 DEF TypeOK
  <2>2. /\ slot' \in [Files -> [Idx -> Addr \cup {None}]] /\ slot'[f][i] = None
        /\ \A g \in Files, j \in Idx : g # f \/ j # i => slot'[g][j] = slot[g][j]
    BY <1>4 DEF TypeOK
  <2>3. /\ pc' \in [Files -> Places] /\ pc'[f] = "drop"
        /\ task' \in [Files -> Task] /\ task'[f].victim = a /\ task'[f].then = "unlink"
    <3>1. pc' = [pc EXCEPT ![f] = "drop"]
          /\ task' = [task EXCEPT ![f].victim = a, ![f].then = "unlink"]
      BY <1>4, <2>1 DEF Release, Goto
    <3>2. pc \in [Files -> Places] /\ task \in [Files -> Task]
      BY DEF TypeOK, ThreadInv
    <3> QED BY <3>1, <3>2 DEF Places, Task
  <2>4. \A g \in Files : ~OnBlock(g)' /\ ~Uncompressed(g)' /\ pc'[g] # "find" /\ pc'[g] # "compress"
    BY <1>2, <2>3 DEF OnBlock, Uncompressed
  <2>5. TypeOK'
    BY <1>1, <1>2, <2>2, <2>3 DEF TypeOK
  <2>6. ThreadInv'
    BY <1>2, <2>3, <2>4 DEF ThreadInv
  <2>7. RefsCover'
    <3>1. ASSUME NEW d \in Addr PROVE Cardinality(References(d)') <= Cardinality(References(d))
      <4>1. CASE d = a
        <5>1. slot[f][i] = d /\ slot'[f][i] # d
          BY <2>1, <2>2, <4>1, Constants
        <5> QED BY <1>2, <2>2, <5>1, Handed
      <4>2. CASE d # a
        <5>1. References(d)' \subseteq References(d)
          BY <1>2, <2>2, <2>3, <4>2, Constants DEF References
        <5> QED BY <5>1, Fewer
      <4> QED BY <4>1, <4>2
    <3>2. ASSUME NEW d \in Addr PROVE Cardinality(References(d)') <= block'[d].refs
      <4> DEFINE m == Cardinality(References(d))
                 n == Cardinality(References(d)')
      <4>1. m \in Nat /\ n \in Nat /\ n <= m
        BY <3>1, RefsFinite
      <4>2. m <= block[d].refs /\ block[d].refs \in Nat
        BY DEF RefsCover, TypeOK, DataBlock
      <4> HIDE DEF m, n
      <4>3. n <= block'[d].refs
        BY <1>1, <4>1, <4>2
      <4> QED BY <4>3 DEF n
    <3> QED BY <3>2 DEF RefsCover
  <2>8. DataInv'
    BY <1>1, <2>4 DEF DataInv
  <2>9. IndexInv'
    BY <1>1 DEF IndexInv, HashKey
  <2>10. FormInv'
    BY <2>4 DEF FormInv, RelabelsDuplicates
  <2> QED BY <2>5, <2>6, <2>7, <2>8, <2>9, <2>10
<1> QED BY <1>3, <1>4 DEF DestroyBlocks, Goto

----
(* The theorems *)

LEMMA SetConfigInv ==
  ASSUME Inv, SetConfig
  PROVE  Inv'
<1> USE DEF Inv
<1>1. config' \in [dedup : BOOLEAN, algo : Algos \cup {None}]
  BY Constants DEF SetConfig, TypeOK
<1>2. UNCHANGED <<block, allocated, index, slot, pc, task>>
  BY DEF SetConfig
<1>3. TypeOK'
  BY <1>1, <1>2 DEF TypeOK
<1>4. ThreadInv' /\ DataInv' /\ FormInv'
  BY <1>2 DEF ThreadInv, DataInv, FormInv, OnBlock, Uncompressed, RelabelsDuplicates, Blk
<1>5. RefsCover'
  BY <1>2, RefsKept
<1>6. IndexInv'
  BY <1>2 DEF IndexInv, HashKey
<1> QED BY <1>3, <1>4, <1>5, <1>6

LEMMA StutterInv ==
  ASSUME Inv, UNCHANGED vars
  PROVE  Inv'
<1> USE DEF Inv
<1>1. UNCHANGED <<block, allocated, index, slot, config, pc, task>>
  BY DEF vars
<1>2. TypeOK'
  BY <1>1 DEF TypeOK
<1>3. ThreadInv' /\ DataInv' /\ FormInv'
  BY <1>1 DEF ThreadInv, DataInv, FormInv, OnBlock, Uncompressed, RelabelsDuplicates, Blk
<1>4. RefsCover'
  BY <1>1, RefsKept
<1>5. IndexInv'
  BY <1>1 DEF IndexInv, HashKey
<1> QED BY <1>2, <1>3, <1>4, <1>5

LEMMA InitInv == Init => Inv
<1> SUFFICES ASSUME Init PROVE Inv
  OBVIOUS
<1>1. TypeOK
  BY DEF Init, TypeOK, DataBlock, Places
<1>2. ThreadInv
  BY DEF Init, ThreadInv, Task, NoTask, OnBlock
<1>3. RefsCover
  <2>1. ASSUME NEW a \in Addr PROVE Cardinality(References(a)) <= block[a].refs
    <3>1. References(a) = {}
      BY Constants DEF Init, References
    <3>2. Cardinality(References(a)) = 0 /\ block[a].refs = 0
      BY <3>1, FS_EmptySet DEF Init
    <3> QED BY <3>2
  <2> QED BY <2>1 DEF RefsCover
<1>4. DataInv /\ FormInv
  BY DEF Init, DataInv, FormInv, OnBlock, Uncompressed, RelabelsDuplicates
<1>5. IndexInv
  BY DEF Init, IndexInv
<1> QED BY <1>1, <1>2, <1>3, <1>4, <1>5 DEF Inv

LEMMA Invariance ==
  ASSUME OneBusy
  PROVE  Spec => []Inv
<1>1. Init => Inv
  BY InitInv
<1>2. Inv /\ [Next]_vars => Inv'
  <2> SUFFICES ASSUME Inv, [Next]_vars PROVE Inv'
    OBVIOUS
  <2>1. ASSUME NEW f \in Files, Step(f) PROVE Inv'
    BY <2>1, WriteBlockInv, ReadRefsInv, CopyInv, ComputeHashInv, FindDuplicateInv,
       IndexBlockInv, CompressInv, DropInv, FreeInv, UnlinkInv, DestroyBlocksInv DEF Step
  <2> QED BY <2>1, SetConfigInv, StutterInv DEF Next
<1> QED BY <1>1, <1>2, PTL DEF Spec

(* With one thread busy the types hold, and the blocks in use are the ones
   with references, but for one that is being freed. *)
THEOREM DedupTypes ==
  ASSUME OneBusy
  PROVE  Spec => []TypeOK
<1>1. Inv => TypeOK
  BY DEF Inv
<1> QED BY <1>1, Invariance, PTL

(* With one thread busy no block is counted fewer times than it is
   referenced, through every sharing, copy and release. *)
THEOREM RefsCorrect ==
  ASSUME OneBusy
  PROVE  Spec => []RefsCover
<1>1. Inv => RefsCover
  BY DEF Inv
<1> QED BY <1>1, Invariance, PTL

(* With one thread busy a write ends up with a block that holds what was
   written, whatever the index says. *)
THEOREM WriteCorrect ==
  ASSUME OneBusy
  PROVE  Spec => []WriteLands
<1>1. Inv => WriteLands
  BY DEF Inv, DataInv, OnBlock, WriteLands
<1> QED BY <1>1, Invariance, PTL

(* With one thread busy only a block found as a duplicate comes to the
   compression step compressed. *)
THEOREM LabelsCorrect ==
  ASSUME OneBusy
  PROVE  Spec => []RelabelsDuplicates
<1>1. Inv => RelabelsDuplicates
  BY DEF Inv, FormInv
<1> QED BY <1>1, Invariance, PTL

(* With one thread busy no file refers to a block that has been freed. *)
THEOREM NoneFreed ==
  ASSUME OneBusy
  PROVE  Spec => []NoDangling
<1>1. Inv => NoDangling
  <2> SUFFICES ASSUME Inv, NEW f \in Files, NEW i \in Idx, slot[f][i] # None
               PROVE  slot[f][i] \in allocated
    BY DEF NoDangling
  <2>1. slot[f][i] \in Addr /\ References(slot[f][i]) # {}
    <3>1. <<f, i>> \in References(slot[f][i])
      BY RefsSlot
    <3> QED BY <3>1 DEF Inv, TypeOK
  <2> QED BY <2>1, Referenced DEF Inv
<1> QED BY <1>1, Invariance, PTL
====
