---- MODULE BlockCacheProofs ----
(***************************************************************************)
(* Proofs about BlockCache, for every number of files, blocks, slots and   *)
(* every budget: the types, that no pointer in L1 outlives its block, and  *)
(* that the cache agrees with the blocks it holds.                         *)
(***************************************************************************)
EXTENDS BlockCache, FiniteSetTheorems, SequenceTheorems, WellFoundedInduction, TLAPS

----
(* What the cache may hold, for the blocks bl *)

Pointers == {Own(f, i) : f \in Files, i \in Idx} \cup {Loaded(d) : d \in Data}

Entries == [id : Int, ptr : Pointers]

At(bl, p) == IF p.own = None THEN p ELSE bl[p.own[1]][p.own[2]]

In(bl) == {x \in Files \X Idx : bl[x[1]][x[2]] # None}

BlocksFine(bl) == bl \in [Files -> [Idx -> Block \cup {None}]]

OneEach(s) == \A j, k \in DOMAIN s : s[j].id = s[k].id => j = k

L1Fine(s) == s \in Seq(Entries) /\ OneEach(s)

L2Fine(l2) == l2 \in [0..Slots - 1 -> [id : Int, data : Data]]

(* A block has its entry in the index at the slot of its id, never slot 0. *)
IndexFine(index, l2) ==
  \A id \in DOMAIN index :
    id \in Int /\ index[id] = id % Slots /\ index[id] # 0 /\ l2[index[id]].id = id

L3Fine(l3) ==
  /\ IsFiniteSet(DOMAIN l3) /\ Cardinality(DOMAIN l3) <= Room
  /\ \A id \in DOMAIN l3 : id \in Int /\ l3[id] \in Data

CacheFine(c) ==
  /\ c = [l1 |-> c.l1, l2 |-> c.l2, index |-> c.index, l3 |-> c.l3, lost |-> c.lost]
  /\ L1Fine(c.l1) /\ Len(c.l1) <= Budget
  /\ L2Fine(c.l2)
  /\ IndexFine(c.index, c.l2)
  /\ L3Fine(c.l3) /\ c.lost \in 0..Room

(* A pointer leads to a block that exists and has the id of its entry. *)
Leads(bl, e) == e.ptr.own # None => e.ptr.own \in In(bl) /\ At(bl, e.ptr).id = e.id

Pointing(bl, c) == \A k \in DOMAIN c.l1 : Leads(bl, c.l1[k])

(* What L1 and L2 and L3 hold under id is the content d, of block x. *)
InL1(bl, c, id, x, d) ==
  \A k \in DOMAIN c.l1 :
    c.l1[k].id = id => c.l1[k].ptr.own \in {None, x} /\ At(bl, c.l1[k].ptr).data = d

InL2(c, id, d) == id \in DOMAIN c.index => c.l2[c.index[id]].data = d

InL3(c, id, d) == id \in DOMAIN c.l3 => c.l3[id] = d

Agrees(bl, c, id, x, d) == InL1(bl, c, id, x, d) /\ InL2(c, id, d) /\ InL3(c, id, d)

(* A block that shares its id with no other and is not compressed. *)
Plain(bl, x) ==
  /\ x \in In(bl)
  /\ \A y \in In(bl) \ {x} : bl[y[1]][y[2]].id # bl[x[1]][x[2]].id
  /\ ~bl[x[1]][x[2]].packed

Sound(bl, c) ==
  \A x \in In(bl) :
    Plain(bl, x) => Agrees(bl, c, bl[x[1]][x[2]].id, x, bl[x[1]][x[2]].data)

Inv ==
  /\ BlocksFine(block)
  /\ size \in [Files -> 0..Blocks] /\ total \in Ids /\ dirs \in 0..MaxDirs /\ broken \in BOOLEAN
  /\ CacheFine(cache) /\ Pointing(block, cache) /\ Sound(block, cache)

----
(* The constants, sequences and L1 *)

LEMMA NatMin ==
  ASSUME NEW T \in SUBSET Nat, T # {}
  PROVE  \E x \in T : \A y \in T : x <= y
<1> DEFINE Less == {p \in Nat \X Nat : p[1] < p[2]}
<1>1. IsWellFoundedOn(Less, Nat)
  BY NatLessThanWellFounded DEF OpToRel
<1> HIDE DEF Less
<1>2. PICK x \in T : \A y \in T : <<y, x>> \notin Less
  BY <1>1, WFMin
<1>3. \A y \in T : ~(y < x)
  BY <1>2 DEF Less
<1> QED BY <1>3

LEMMA Constants ==
  /\ Blocks \in Nat /\ Blocks > 0 /\ Budget \in Nat /\ Budget > 0
  /\ Slots \in Nat /\ Slots > 0 /\ Room \in Nat /\ Room > 0 /\ MaxDirs \in Nat /\ Ids \subseteq Int
  /\ None \notin Files \X Idx /\ None \notin Block
  /\ Forms \subseteq Contents \X BOOLEAN /\ Written \subseteq Files \X Idx
BY CacheAssumption

(* Where a block with this id has its slot. *)
LEMMA SlotOf ==
  ASSUME NEW id \in Int
  PROVE  id % Slots \in 0..(Slots - 1) /\ 0 % Slots = 0
<1>1. Slots \in Nat /\ Slots > 0
  BY Constants
<1> QED BY <1>1

LEMMA Removed ==
  ASSUME NEW S, NEW s \in Seq(S), NEW k \in DOMAIN s
  PROVE  /\ RemoveAt(s, k) \in Seq(S)
         /\ Len(RemoveAt(s, k)) = Len(s) - 1
         /\ \A j \in DOMAIN RemoveAt(s, k) :
              LET i == IF j < k THEN j ELSE j + 1
              IN  i \in DOMAIN s \ {k} /\ RemoveAt(s, k)[j] = s[i]
<1> DEFINE a == SubSeq(s, 1, k - 1)
           b == SubSeq(s, k + 1, Len(s))
<1>1. k \in 1..Len(s) /\ Len(s) \in Nat /\ DOMAIN s = 1..Len(s)
  OBVIOUS
<1>2. a \in Seq(S) /\ Len(a) = k - 1 /\ \A j \in 1..(k - 1) : a[j] = s[j]
  BY <1>1
<1>3. b \in Seq(S) /\ Len(b) = Len(s) - k /\ \A j \in 1..(Len(s) - k) : b[j] = s[k + j]
  BY <1>1
<1>4. RemoveAt(s, k) = a \o b
  BY DEF RemoveAt
<1> HIDE DEF a, b
<1>5. a \o b \in Seq(S) /\ Len(a \o b) = Len(s) - 1
  <2>1. a \o b \in Seq(S) /\ Len(a \o b) = Len(a) + Len(b)
    BY <1>2, <1>3, ConcatProperties
  <2> QED BY <1>1, <1>2, <1>3, <2>1
<1>6. \A j \in 1..(Len(s) - 1) : (a \o b)[j] = IF j <= k - 1 THEN a[j] ELSE b[j - (k - 1)]
  BY <1>1, <1>2, <1>3, ConcatProperties
<1> DEFINE u == a \o b
<1>7. u \in Seq(S) /\ Len(u) = Len(s) - 1 /\ DOMAIN u = 1..(Len(s) - 1)
  BY <1>5
<1>8. \A j \in 1..(Len(s) - 1) : u[j] = IF j <= k - 1 THEN a[j] ELSE b[j - (k - 1)]
  BY <1>6
<1>9. RemoveAt(s, k) = u
  BY <1>4
<1> HIDE DEF u
<1>10. ASSUME NEW j \in DOMAIN u
       PROVE  LET i == IF j < k THEN j ELSE j + 1 IN i \in DOMAIN s \ {k} /\ u[j] = s[i]
  <2>1. j \in 1..(Len(s) - 1)
    BY <1>7
  <2>2. CASE j < k
    <3>1. u[j] = a[j] /\ a[j] = s[j] /\ j \in 1..Len(s)
      BY <1>1, <1>2, <1>8, <2>1, <2>2
    <3> QED BY <1>1, <2>1, <2>2, <3>1
  <2>3. CASE ~(j < k)
    <3>1. u[j] = b[j - (k - 1)]
      BY <1>1, <1>8, <2>1, <2>3
    <3>2. j - (k - 1) \in 1..(Len(s) - k) /\ k + (j - (k - 1)) = j + 1
      BY <1>1, <2>1, <2>3
    <3>3. b[j - (k - 1)] = s[j + 1]
      BY <1>3, <3>2
    <3> QED BY <1>1, <2>1, <2>3, <3>1, <3>3
  <2> QED BY <2>2, <2>3
<1> QED BY <1>7, <1>9, <1>10

(* l1_remove_entry leaves no entry with the id and keeps every other. *)
LEMMA WithoutL1 ==
  ASSUME NEW c, L1Fine(c.l1), NEW id \in Int
  PROVE  /\ L1Fine(L1Without(c, id)) /\ Len(L1Without(c, id)) <= Len(c.l1)
         /\ \A k \in DOMAIN L1Without(c, id) :
              /\ L1Without(c, id)[k].id # id
              /\ \E j \in DOMAIN c.l1 : L1Without(c, id)[k] = c.l1[j]
<1> DEFINE hits == L1Hits(c, id)
           s == c.l1
<1>1. s \in Seq(Entries) /\ OneEach(s) /\ DOMAIN s = 1..Len(s) /\ Len(s) \in Nat
  BY DEF L1Fine
<1>2. hits = {k \in DOMAIN s : s[k].id = id}
  BY DEF L1Hits
<1>3. CASE hits = {}
  <2>1. L1Without(c, id) = s
    BY <1>3 DEF L1Without
  <2>2. \A k \in DOMAIN s : s[k].id # id
    BY <1>2, <1>3
  <2> QED BY <1>1, <2>1, <2>2
<1>4. CASE hits # {}
  <2>1. hits \in SUBSET Nat
    BY <1>1, <1>2
  <2>2. PICK k \in hits : k = CHOOSE x \in hits : \A j \in hits : x <= j
    <3>1. \E x \in hits : \A j \in hits : x <= j
      BY <1>4, <2>1, NatMin
    <3> HIDE DEF hits
    <3> QED BY <3>1
  <2>3. L1Without(c, id) = RemoveAt(s, k)
    BY <1>4, <2>2 DEF L1Without
  <2>4. k \in DOMAIN s /\ s[k].id = id
    BY <1>2
  <2> DEFINE u == RemoveAt(s, k)
             q(j) == IF j < k THEN j ELSE j + 1
  <2>5. u \in Seq(Entries) /\ Len(u) = Len(s) - 1
        /\ \A j \in DOMAIN u : q(j) \in DOMAIN s \ {k} /\ u[j] = s[q(j)]
    <3>1. s \in Seq(Entries) /\ k \in DOMAIN s
      BY <1>1, <2>4
    <3> HIDE DEF s, hits
    <3> QED BY <3>1, Removed
  <2>6. L1Without(c, id) = u
    BY <2>3
  <2> HIDE DEF u, s, hits
  <2>7. \A j \in DOMAIN u : u[j].id # id
    BY <1>1, <2>4, <2>5 DEF OneEach
  <2>8. OneEach(u)
    <3>1. SUFFICES ASSUME NEW i \in DOMAIN u, NEW j \in DOMAIN u, u[i].id = u[j].id PROVE i = j
      BY DEF OneEach
    <3>2. q(i) = q(j)
      <4> HIDE DEF q
      <4> QED BY <1>1, <2>5, <3>1 DEF OneEach
    <3>3. i \in Nat /\ j \in Nat /\ k \in Nat
      BY <1>1, <2>4, <2>5
    <3> QED BY <3>2, <3>3
  <2>9. Len(u) <= Len(s) /\ L1Fine(u)
    BY <1>1, <2>5, <2>8 DEF L1Fine
  <2>10. \A j \in DOMAIN u : \E i \in DOMAIN s : u[j] = s[i]
    BY <2>5
  <2> QED BY <2>6, <2>7, <2>9, <2>10 DEF s
<1> QED BY <1>3, <1>4

(* l1_evict_until_fit and the new entry at the end. *)
LEMMA AppendedL1 ==
  ASSUME NEW w, L1Fine(w), NEW e \in Entries, \A k \in DOMAIN w : w[k].id # e.id,
         NEW over, over = IF Len(w) >= Budget THEN Len(w) - Budget + 1 ELSE 0
  PROVE  LET u == Append(SubSeq(w, over + 1, Len(w)), e)
         IN  /\ L1Fine(u) /\ Len(u) <= Budget
             /\ \A k \in DOMAIN u : u[k] = e \/ \E j \in DOMAIN w : u[k] = w[j]
<1> DEFINE t == SubSeq(w, over + 1, Len(w))
           u == Append(t, e)
<1>1. w \in Seq(Entries) /\ OneEach(w) /\ DOMAIN w = 1..Len(w) /\ Len(w) \in Nat
  BY DEF L1Fine
<1>2. over \in 0..Len(w) /\ Len(w) - over < Budget
  BY <1>1, Constants
<1>3. t \in Seq(Entries) /\ Len(t) = Len(w) - over /\ \A j \in 1..(Len(w) - over) : t[j] = w[over + j]
  BY <1>1, <1>2
<1> HIDE DEF t
<1>4. u \in Seq(Entries) /\ Len(u) = Len(t) + 1 /\ DOMAIN u = 1..(Len(t) + 1)
      /\ u[Len(t) + 1] = e /\ \A j \in 1..Len(t) : u[j] = t[j]
  BY <1>3
<1> HIDE DEF u
<1>5. \A k \in 1..Len(t) : over + k \in DOMAIN w /\ u[k] = w[over + k]
  BY <1>1, <1>2, <1>3, <1>4
<1>6. \A k \in DOMAIN u : k = Len(t) + 1 \/ k \in 1..Len(t)
  BY <1>3, <1>4
<1>7. OneEach(u)
  <2>1. SUFFICES ASSUME NEW i \in DOMAIN u, NEW j \in DOMAIN u, u[i].id = u[j].id PROVE i = j
    BY DEF OneEach
  <2>2. CASE i \in 1..Len(t) /\ j \in 1..Len(t)
    <3>1. over + i = over + j
      BY <1>1, <1>5, <2>1, <2>2 DEF OneEach
    <3> QED BY <1>2, <2>2, <3>1
  <2>3. CASE ~(i \in 1..Len(t) /\ j \in 1..Len(t))
    BY <1>4, <1>5, <1>6, <2>1, <2>3
  <2> QED BY <2>2, <2>3
<1>8. L1Fine(u) /\ Len(u) <= Budget
  BY <1>1, <1>2, <1>3, <1>4, <1>7, Constants DEF L1Fine
<1>9. \A k \in DOMAIN u : u[k] = e \/ \E j \in DOMAIN w : u[k] = w[j]
  BY <1>4, <1>5, <1>6
<1> QED BY <1>8, <1>9 DEF u, t

----
(* Putting and invalidating *)

(* Under ids other than id, d holds no more than c and the same. *)
RestKept(c, d, id) ==
  /\ \A k \in DOMAIN d.l1 : d.l1[k].id # id => \E j \in DOMAIN c.l1 : d.l1[k] = c.l1[j]
  /\ \A x \in DOMAIN d.index \ {id} :
       x \in DOMAIN c.index /\ d.l2[d.index[x]] = c.l2[c.index[x]]
  /\ \A x \in DOMAIN d.l3 \ {id} : x \in DOMAIN c.l3 /\ d.l3[x] = c.l3[x]

(* d holds no more than c and the same. *)
Fewer(c, d) ==
  /\ \A k \in DOMAIN d.l1 : \E j \in DOMAIN c.l1 : d.l1[k] = c.l1[j]
  /\ \A x \in DOMAIN d.index : x \in DOMAIN c.index /\ d.l2[d.index[x]] = c.l2[c.index[x]]
  /\ \A x \in DOMAIN d.l3 : x \in DOMAIN c.l3 /\ d.l3[x] = c.l3[x]

(* What a put of p, to content b, leaves under id. *)
OnlyPut(d, id, p, b) ==
  /\ \A k \in DOMAIN d.l1 : d.l1[k].id = id => d.l1[k].ptr = p
  /\ id \in DOMAIN d.index => d.l2[d.index[id]].data = b.data
  /\ id \in DOMAIN d.l3 => d.l3[id] = IF b.packed THEN Garbage ELSE b.data

Nothing(c, id) ==
  /\ \A k \in DOMAIN c.l1 : c.l1[k].id # id
  /\ id \notin DOMAIN c.index /\ id \notin DOMAIN c.l3

LEMMA PutL1 ==
  ASSUME NEW c, CacheFine(c), NEW id \in Int, NEW p \in Pointers, NEW b, NEW d,
         d = Put(c, id, p, b)
  PROVE  /\ L1Fine(d.l1) /\ Len(d.l1) <= Budget
         /\ \A k \in DOMAIN d.l1 : \/ d.l1[k] = [id |-> id, ptr |-> p]
                                   \/ \E j \in DOMAIN c.l1 : d.l1[k] = c.l1[j] /\ c.l1[j].id # id
<1> DEFINE w == L1Without(c, id)
           e == [id |-> id, ptr |-> p]
           over == IF Len(w) >= Budget THEN Len(w) - Budget + 1 ELSE 0
<1>1. d.l1 = Append(SubSeq(w, over + 1, Len(w)), e)
  BY DEF Put
<1>2. L1Fine(c.l1)
  BY DEF CacheFine
<1>3. /\ L1Fine(w)
      /\ \A k \in DOMAIN w : w[k].id # id /\ \E j \in DOMAIN c.l1 : w[k] = c.l1[j]
  BY <1>2, WithoutL1
<1>4. e \in Entries /\ e.id = id
  BY DEF Entries
<1> HIDE DEF w, e
<1>5. PICK o : o = over
  OBVIOUS
<1>6. LET u == Append(SubSeq(w, o + 1, Len(w)), e)
      IN  /\ L1Fine(u) /\ Len(u) <= Budget
          /\ \A k \in DOMAIN u : u[k] = e \/ \E j \in DOMAIN w : u[k] = w[j]
  BY <1>3, <1>4, <1>5, AppendedL1
<1>7. d.l1 = Append(SubSeq(w, o + 1, Len(w)), e)
  BY <1>1, <1>5
<1>8. L1Fine(d.l1) /\ Len(d.l1) <= Budget
      /\ \A k \in DOMAIN d.l1 : d.l1[k] = e \/ \E j \in DOMAIN w : d.l1[k] = w[j]
  BY <1>6, <1>7
<1>9. ASSUME NEW k \in DOMAIN d.l1
      PROVE  d.l1[k] = e \/ \E j \in DOMAIN c.l1 : d.l1[k] = c.l1[j] /\ c.l1[j].id # id
  <2>1. CASE d.l1[k] = e
    BY <2>1
  <2>2. CASE \E j \in DOMAIN w : d.l1[k] = w[j]
    <3>1. PICK j \in DOMAIN w : d.l1[k] = w[j]
      BY <2>2
    <3>2. PICK i \in DOMAIN c.l1 : w[j] = c.l1[i]
      BY <1>3
    <3> QED BY <1>3, <3>1, <3>2
  <2> QED BY <1>8, <2>1, <2>2
<1> QED BY <1>8, <1>9 DEF e

(* The slot of a block has no other block's entry after a put. *)
LEMMA PutIndex ==
  ASSUME NEW c, CacheFine(c), NEW id \in Int, NEW p, NEW b, NEW d, d = Put(c, id, p, b)
  PROVE  \A x \in DOMAIN d.index :
           \/ x = id /\ d.index[x] = id % Slots /\ id % Slots # 0
           \/ /\ x # id /\ x \in DOMAIN c.index /\ d.index[x] = c.index[x]
              /\ c.index[x] # id % Slots
<1> DEFINE s == id % Slots
           old == c.l2[s].id
           gone == IF old = 0 THEN {} ELSE {old}
           idx == [x \in DOMAIN c.index \ gone |-> c.index[x]]
<1>1. d.index = IF s = 0 THEN idx ELSE With(idx, id, s)
  BY DEF Put
<1>2. \A x \in DOMAIN c.index :
        x \in Int /\ c.index[x] = x % Slots /\ c.index[x] # 0 /\ c.l2[c.index[x]].id = x
  BY DEF CacheFine, IndexFine
<1>3. DOMAIN idx = DOMAIN c.index \ gone /\ \A x \in DOMAIN idx : idx[x] = c.index[x]
  OBVIOUS
<1>4. 0 \notin DOMAIN c.index
  BY <1>2, SlotOf
<1>5. ASSUME NEW x \in DOMAIN idx, x # id PROVE c.index[x] # s
  <2>1. SUFFICES ASSUME c.index[x] = s PROVE FALSE
    OBVIOUS
  <2>2. x \in DOMAIN c.index /\ x \notin gone
    BY <1>3
  <2>3. x = old
    BY <1>2, <2>1, <2>2
  <2> QED BY <1>4, <2>2, <2>3
<1>6. CASE s = 0
  <2>1. d.index = idx
    BY <1>1, <1>6
  <2>2. id \notin DOMAIN idx
    BY <1>2, <1>3, <1>6
  <2> HIDE DEF idx
  <2> QED BY <1>3, <1>5, <2>1, <2>2
<1>7. CASE s # 0
  <2>1. d.index = With(idx, id, s)
    BY <1>1, <1>7
  <2> HIDE DEF idx
  <2>2. DOMAIN d.index = DOMAIN idx \cup {id}
        /\ \A x \in DOMAIN idx \cup {id} : d.index[x] = IF x = id THEN s ELSE idx[x]
    BY <2>1 DEF With
  <2> QED BY <1>3, <1>5, <1>7, <2>2
<1> QED BY <1>6, <1>7

(* A put into a full L3 leaves its own entry alone. *)
LEMMA PutL3 ==
  ASSUME NEW c, CacheFine(c), NEW id \in Int, NEW p, NEW b, b.data \in Data,
         NEW d, d = Put(c, id, p, b)
  PROVE  /\ L3Fine(d.l3) /\ d.lost \in 0..Room
         /\ \A x \in DOMAIN d.l3 :
              IF x = id THEN d.l3[x] = IF b.packed THEN Garbage ELSE b.data
              ELSE x \in DOMAIN c.l3 /\ d.l3[x] = c.l3[x]
<1> DEFINE s == id % Slots
           old == c.l2[s].id
           gone == IF old = 0 THEN {} ELSE {old}
           dsk == [x \in DOMAIN c.l3 \ gone |-> c.l3[x]]
           full == L3Full(c, dsk)
           kept == IF full THEN [x \in {} |-> None] ELSE dsk
           v == IF b.packed THEN Garbage ELSE b.data
<1>1. d.l3 = With(kept, id, v) /\ d.lost = IF full THEN Room ELSE c.lost
  BY DEF Put
<1>2. /\ IsFiniteSet(DOMAIN c.l3) /\ Cardinality(DOMAIN c.l3) <= Room /\ c.lost \in 0..Room
      /\ \A x \in DOMAIN c.l3 : x \in Int /\ c.l3[x] \in Data
  BY DEF CacheFine, L3Fine
<1>3. d.lost \in 0..Room
  BY <1>1, <1>2, Constants
<1>4. DOMAIN dsk \subseteq DOMAIN c.l3 /\ \A x \in DOMAIN dsk : dsk[x] = c.l3[x]
  OBVIOUS
<1>5. v \in Data
  BY DEF Data
<1> HIDE DEF dsk, v
<1>6. /\ DOMAIN kept \subseteq DOMAIN c.l3 /\ \A x \in DOMAIN kept : kept[x] = c.l3[x]
      /\ IsFiniteSet(DOMAIN kept) /\ Cardinality(DOMAIN kept) < Room
  <2>1. IsFiniteSet(DOMAIN dsk) /\ Cardinality(DOMAIN dsk) \in Nat
    BY <1>2, <1>4, FS_Subset, FS_CardinalityType
  <2>2. CASE full
    <3>1. DOMAIN kept = {}
      BY <2>2
    <3>2. IsFiniteSet({}) /\ Cardinality({}) = 0
      BY FS_EmptySet
    <3> HIDE DEF kept
    <3> QED BY <3>1, <3>2, Constants
  <2>3. CASE ~full
    <3>1. kept = dsk
      BY <2>3
    <3>2. Cardinality(DOMAIN dsk) < Room
      BY <1>2, <2>1, <2>3, Constants DEF L3Full
    <3> HIDE DEF kept
    <3> QED BY <1>4, <2>1, <3>1, <3>2
  <2> QED BY <2>2, <2>3
<1> HIDE DEF kept, full
<1>7. DOMAIN d.l3 = DOMAIN kept \cup {id}
      /\ \A x \in DOMAIN d.l3 : d.l3[x] = IF x = id THEN v ELSE kept[x]
  BY <1>1 DEF With
<1>8. IsFiniteSet(DOMAIN d.l3) /\ Cardinality(DOMAIN d.l3) <= Room
  <2>1. IsFiniteSet(DOMAIN kept \cup {id})
        /\ Cardinality(DOMAIN kept \cup {id}) <= Cardinality(DOMAIN kept) + 1
        /\ Cardinality(DOMAIN kept) \in Nat
    <3>1. IsFiniteSet(DOMAIN kept \cup {id})
          /\ Cardinality(DOMAIN kept \cup {id}) =
               IF id \in DOMAIN kept THEN Cardinality(DOMAIN kept) ELSE Cardinality(DOMAIN kept) + 1
      BY <1>6, FS_AddElement
    <3>2. Cardinality(DOMAIN kept) \in Nat
      BY <1>6, FS_CardinalityType
    <3> QED BY <3>1, <3>2
  <2>2. Cardinality(DOMAIN kept \cup {id}) \in Nat
    BY <2>1, FS_CardinalityType
  <2> QED BY <1>6, <1>7, <2>1, <2>2, Constants
<1>9. \A x \in DOMAIN d.l3 : IF x = id THEN d.l3[x] = v ELSE x \in DOMAIN c.l3 /\ d.l3[x] = c.l3[x]
  BY <1>6, <1>7
<1>10. L3Fine(d.l3)
  <2>1. \A x \in DOMAIN d.l3 : x \in Int /\ d.l3[x] \in Data
    BY <1>2, <1>5, <1>9
  <2> QED BY <1>8, <2>1 DEF L3Fine
<1> QED BY <1>3, <1>9, <1>10 DEF v

(* Fewer entries are fine in L3. *)
LEMMA WithoutL3 ==
  ASSUME NEW l3, L3Fine(l3), NEW id
  PROVE  L3Fine(Without(l3, id))
<1>1. DOMAIN Without(l3, id) = DOMAIN l3 \ {id}
      /\ \A x \in DOMAIN l3 \ {id} : Without(l3, id)[x] = l3[x]
  BY DEF Without
<1>2. IsFiniteSet(DOMAIN l3 \ {id}) /\ Cardinality(DOMAIN l3 \ {id}) <= Cardinality(DOMAIN l3)
      /\ Cardinality(DOMAIN l3) \in Nat /\ Cardinality(DOMAIN l3 \ {id}) \in Nat
  <2>1. DOMAIN l3 \ {id} \subseteq DOMAIN l3 /\ IsFiniteSet(DOMAIN l3)
    BY DEF L3Fine
  <2> QED BY <2>1, FS_Subset, FS_CardinalityType
<1> QED BY <1>1, <1>2, Constants DEF L3Fine

LEMMA PutDoes ==
  ASSUME NEW c, CacheFine(c), NEW id \in Int, NEW p \in Pointers, NEW b, b.data \in Data,
         NEW d, d = Put(c, id, p, b)
  PROVE  CacheFine(d) /\ RestKept(c, d, id) /\ OnlyPut(d, id, p, b)
<1> DEFINE s == id % Slots
<1>1. d.l2 = [c.l2 EXCEPT ![s] = [id |-> id, data |-> b.data]]
  BY DEF Put
<1>2. s \in 0..(Slots - 1)
  BY SlotOf
<1>3. /\ L1Fine(d.l1) /\ Len(d.l1) <= Budget
      /\ \A k \in DOMAIN d.l1 : \/ d.l1[k] = [id |-> id, ptr |-> p]
                                \/ \E j \in DOMAIN c.l1 : d.l1[k] = c.l1[j] /\ c.l1[j].id # id
  BY PutL1
<1>4. \A x \in DOMAIN d.index :
        \/ x = id /\ d.index[x] = s /\ s # 0
        \/ x # id /\ x \in DOMAIN c.index /\ d.index[x] = c.index[x] /\ c.index[x] # s
  BY PutIndex
<1>5. /\ c.l2 \in [0..Slots - 1 -> [id : Int, data : Data]]
      /\ \A x \in DOMAIN c.index :
           x \in Int /\ c.index[x] = x % Slots /\ c.index[x] # 0 /\ c.l2[c.index[x]].id = x
  BY DEF CacheFine, L2Fine, IndexFine
<1>6. L2Fine(d.l2) /\ d.l2[s] = [id |-> id, data |-> b.data]
      /\ \A t \in 0..(Slots - 1) : t # s => d.l2[t] = c.l2[t]
  <2> HIDE DEF s
  <2>1. DOMAIN c.l2 = 0..(Slots - 1)
    BY <1>5
  <2>2. d.l2[s] = [id |-> id, data |-> b.data]
        /\ \A t \in 0..(Slots - 1) : t # s => d.l2[t] = c.l2[t]
    BY <1>1, <1>2, <2>1
  <2>3. [id |-> id, data |-> b.data] \in [id : Int, data : Data]
    OBVIOUS
  <2>4. d.l2 \in [0..Slots - 1 -> [id : Int, data : Data]]
    BY <1>1, <1>2, <1>5, <2>3
  <2> QED BY <2>2, <2>4 DEF L2Fine
<1>7. \A x \in DOMAIN c.index : c.index[x] \in 0..(Slots - 1)
  BY <1>5, SlotOf
<1>8. \A x \in DOMAIN d.index :
        IF x = id THEN d.l2[d.index[x]] = [id |-> id, data |-> b.data]
        ELSE x \in DOMAIN c.index /\ d.l2[d.index[x]] = c.l2[c.index[x]]
  BY <1>4, <1>6, <1>7
<1>9. IndexFine(d.index, d.l2)
  <2> SUFFICES ASSUME NEW x \in DOMAIN d.index
               PROVE  x \in Int /\ d.index[x] = x % Slots /\ d.index[x] # 0 /\ d.l2[d.index[x]].id = x
    BY DEF IndexFine
  <2>1. CASE x = id
    BY <1>4, <1>8, <2>1
  <2>2. CASE x # id
    <3> HIDE DEF s
    <3> QED BY <1>4, <1>5, <1>8, <2>2
  <2> QED BY <2>1, <2>2
<1>10. /\ L3Fine(d.l3) /\ d.lost \in 0..Room
       /\ \A x \in DOMAIN d.l3 :
            IF x = id THEN d.l3[x] = IF b.packed THEN Garbage ELSE b.data
            ELSE x \in DOMAIN c.l3 /\ d.l3[x] = c.l3[x]
  BY PutL3
<1>12. d = [l1 |-> d.l1, l2 |-> d.l2, index |-> d.index, l3 |-> d.l3, lost |-> d.lost]
  BY DEF Put
<1>13. CacheFine(d)
  BY <1>3, <1>6, <1>9, <1>10, <1>12 DEF CacheFine
<1>14. RestKept(c, d, id)
  <2>1. \A k \in DOMAIN d.l1 : d.l1[k].id # id => \E j \in DOMAIN c.l1 : d.l1[k] = c.l1[j]
    BY <1>3
  <2> QED BY <1>8, <1>10, <2>1 DEF RestKept
<1>15. OnlyPut(d, id, p, b)
  <2>1. \A k \in DOMAIN d.l1 : d.l1[k].id = id => d.l1[k].ptr = p
    BY <1>3
  <2>2. id \in DOMAIN d.index => d.l2[d.index[id]].data = b.data
    BY <1>8
  <2> QED BY <1>10, <2>1, <2>2 DEF OnlyPut
<1> QED BY <1>13, <1>14, <1>15

LEMMA InvalidateDoes ==
  ASSUME NEW c, CacheFine(c), NEW id \in Int, NEW d, d = Invalidate(c, id)
  PROVE  CacheFine(d) /\ Fewer(c, d) /\ Nothing(d, id)
<1>1. /\ L1Fine(c.l1) /\ Len(c.l1) <= Budget /\ Len(c.l1) \in Nat
      /\ c.l2 \in [0..Slots - 1 -> [id : Int, data : Data]]
      /\ \A x \in DOMAIN c.index :
           x \in Int /\ c.index[x] = x % Slots /\ c.index[x] # 0 /\ c.l2[c.index[x]].id = x
      /\ L3Fine(c.l3) /\ c.lost \in 0..Room
  BY DEF CacheFine, L1Fine, L2Fine, IndexFine
<1>2. d.l1 = L1Without(c, id)
  BY DEF Invalidate
<1>3. /\ L1Fine(d.l1) /\ Len(d.l1) <= Budget
      /\ \A k \in DOMAIN d.l1 : d.l1[k].id # id /\ \E j \in DOMAIN c.l1 : d.l1[k] = c.l1[j]
  <2>1. /\ L1Fine(d.l1) /\ Len(d.l1) <= Len(c.l1)
        /\ \A k \in DOMAIN d.l1 : d.l1[k].id # id /\ \E j \in DOMAIN c.l1 : d.l1[k] = c.l1[j]
    BY <1>1, <1>2, WithoutL1
  <2>2. Len(d.l1) \in Nat
    BY <2>1 DEF L1Fine
  <2> QED BY <1>1, <2>1, <2>2, Constants
<1>4. DOMAIN d.index = DOMAIN c.index \ {id} /\ \A x \in DOMAIN d.index : d.index[x] = c.index[x]
  BY DEF Invalidate, Without
<1>5. DOMAIN d.l3 = DOMAIN c.l3 \ {id} /\ \A x \in DOMAIN d.l3 : d.l3[x] = c.l3[x]
  BY DEF Invalidate, Without
<1>6. d.l2 = IF id \in DOMAIN c.index
             THEN [c.l2 EXCEPT ![c.index[id]] = [id |-> 0, data |-> None]] ELSE c.l2
  BY DEF Invalidate
<1>7. \A x \in DOMAIN c.index : c.index[x] \in 0..(Slots - 1)
  BY <1>1, SlotOf
<1>8. L2Fine(d.l2)
  BY <1>1, <1>6, <1>7 DEF L2Fine, Data
<1>9. \A x \in DOMAIN d.index :
        x \in DOMAIN c.index /\ d.index[x] = c.index[x] /\ d.l2[d.index[x]] = c.l2[c.index[x]]
  <2> SUFFICES ASSUME NEW x \in DOMAIN d.index PROVE d.l2[c.index[x]] = c.l2[c.index[x]]
    BY <1>4
  <2>1. x \in DOMAIN c.index /\ x # id
    BY <1>4
  <2>2. CASE id \in DOMAIN c.index
    <3>1. c.index[x] # c.index[id]
      BY <1>1, <2>1, <2>2
    <3> QED BY <1>1, <1>6, <1>7, <2>1, <2>2, <3>1
  <2>3. CASE id \notin DOMAIN c.index
    BY <1>6, <2>3
  <2> QED BY <2>2, <2>3
<1>10. IndexFine(d.index, d.l2)
  BY <1>1, <1>9 DEF IndexFine
<1>11. L3Fine(d.l3) /\ d.lost \in 0..Room
  <2>1. d.l3 = Without(c.l3, id) /\ d.lost = c.lost
    BY DEF Invalidate
  <2> QED BY <1>1, <2>1, WithoutL3
<1>12. d = [l1 |-> d.l1, l2 |-> d.l2, index |-> d.index, l3 |-> d.l3, lost |-> d.lost]
  BY DEF Invalidate
<1>13. CacheFine(d)
  BY <1>3, <1>8, <1>10, <1>11, <1>12 DEF CacheFine
<1>14. Fewer(c, d)
  BY <1>3, <1>5, <1>9 DEF Fewer
<1>15. Nothing(d, id)
  BY <1>3, <1>4, <1>5 DEF Nothing
<1> QED BY <1>13, <1>14, <1>15

(* An entry leaves L3. *)
LEMMA DropDoes ==
  ASSUME NEW c, CacheFine(c), NEW id, NEW n \in 0..Room,
         NEW d, d = [c EXCEPT !.l3 = Without(@, id), !.lost = n]
  PROVE  CacheFine(d) /\ Fewer(c, d)
<1>1. c = [l1 |-> c.l1, l2 |-> c.l2, index |-> c.index, l3 |-> c.l3, lost |-> c.lost]
  BY DEF CacheFine
<1>2. d = [l1 |-> c.l1, l2 |-> c.l2, index |-> c.index, l3 |-> Without(c.l3, id), lost |-> n]
  BY <1>1
<1>3. d.l1 = c.l1 /\ d.l2 = c.l2 /\ d.index = c.index /\ d.l3 = Without(c.l3, id) /\ d.lost = n
  BY <1>2
<1>4. DOMAIN d.l3 = DOMAIN c.l3 \ {id} /\ \A x \in DOMAIN d.l3 : d.l3[x] = c.l3[x]
  BY <1>3 DEF Without
<1>5. L3Fine(d.l3)
  BY <1>3, WithoutL3 DEF CacheFine
<1>6. CacheFine(d)
  BY <1>2, <1>3, <1>5 DEF CacheFine
<1>7. Fewer(c, d)
  BY <1>3, <1>4 DEF Fewer
<1> QED BY <1>6, <1>7

----
(* Agreement *)

LEMMA RestAgrees ==
  ASSUME NEW bl, NEW c, NEW d, NEW id, RestKept(c, d, id),
         NEW j, j # id, NEW x, NEW v, Agrees(bl, c, j, x, v)
  PROVE  Agrees(bl, d, j, x, v)
BY DEF RestKept, Agrees, InL1, InL2, InL3

LEMMA FewerAgrees ==
  ASSUME NEW bl, NEW c, NEW d, Fewer(c, d), NEW j, NEW x, NEW v, Agrees(bl, c, j, x, v)
  PROVE  Agrees(bl, d, j, x, v)
BY DEF Fewer, Agrees, InL1, InL2, InL3

LEMMA FewerPoints ==
  ASSUME NEW bl, NEW c, NEW d, Fewer(c, d), Pointing(bl, c)
  PROVE  Pointing(bl, d)
BY DEF Fewer, Pointing

LEMMA FewerNothing ==
  ASSUME NEW c, NEW d, Fewer(c, d), NEW id, Nothing(c, id)
  PROVE  Nothing(d, id)
BY DEF Fewer, Nothing

LEMMA FewerTwice ==
  ASSUME NEW c, NEW d, NEW e, Fewer(c, d), Fewer(d, e)
  PROVE  Fewer(c, e)
<1>1. \A k \in DOMAIN e.l1 : \E j \in DOMAIN c.l1 : e.l1[k] = c.l1[j]
  BY DEF Fewer
<1>2. \A x \in DOMAIN e.index : x \in DOMAIN c.index /\ e.l2[e.index[x]] = c.l2[c.index[x]]
  BY DEF Fewer
<1>3. \A x \in DOMAIN e.l3 : x \in DOMAIN c.l3 /\ e.l3[x] = c.l3[x]
  BY DEF Fewer
<1> QED BY <1>1, <1>2, <1>3 DEF Fewer

Good(bl, c) == CacheFine(c) /\ Pointing(bl, c) /\ Sound(bl, c)

LEMMA FewerGood ==
  ASSUME NEW bl, NEW c, NEW d, Fewer(c, d), CacheFine(d), Good(bl, c)
  PROVE  Good(bl, d)
<1>1. Pointing(bl, d)
  BY FewerPoints DEF Good
<1>2. Sound(bl, d)
  <2> SUFFICES ASSUME NEW x \in In(bl), Plain(bl, x)
               PROVE  Agrees(bl, d, bl[x[1]][x[2]].id, x, bl[x[1]][x[2]].data)
    BY DEF Sound
  <2>1. Agrees(bl, c, bl[x[1]][x[2]].id, x, bl[x[1]][x[2]].data)
    BY DEF Good, Sound
  <2> QED BY <2>1, FewerAgrees
<1> QED BY <1>1, <1>2 DEF Good

(* Good but for what is held under id. *)
GoodBut(bl, c, id) ==
  /\ CacheFine(c) /\ Pointing(bl, c)
  /\ \A x \in In(bl) :
       Plain(bl, x) /\ bl[x[1]][x[2]].id # id =>
         Agrees(bl, c, bl[x[1]][x[2]].id, x, bl[x[1]][x[2]].data)

(* A pointer that leads to what is to be held under id. *)
Fits(bl, p, id) ==
  /\ p \in Pointers
  /\ Leads(bl, [id |-> id, ptr |-> p])
  /\ \A x \in In(bl) :
       Plain(bl, x) /\ bl[x[1]][x[2]].id = id =>
         /\ p.own \in {None, x}
         /\ At(bl, p).data = bl[x[1]][x[2]].data /\ ~At(bl, p).packed

(* What a pointer leads to is data. *)
LEMMA DataAt ==
  ASSUME NEW bl, BlocksFine(bl), NEW p, NEW id, Fits(bl, p, id)
  PROVE  At(bl, p).data \in Data
<1>1. CASE p.own = None
  <2>1. At(bl, p) = p
    BY <1>1 DEF At
  <2>2. \A f \in Files, i \in Idx : Own(f, i).own # None
    BY Constants DEF Own
  <2>3. PICK d \in Data : p = Loaded(d)
    BY <1>1, <2>2 DEF Fits, Pointers
  <2> QED BY <2>1, <2>3 DEF Loaded
<1>2. CASE p.own # None
  <2>1. p.own \in In(bl)
    BY <1>2 DEF Fits, Leads
  <2>2. At(bl, p) \in Block
    BY <1>2, <2>1 DEF At, In, BlocksFine
  <2> QED BY <2>2 DEF Block, Data
<1> QED BY <1>1, <1>2

LEMMA PutGood ==
  ASSUME NEW bl, BlocksFine(bl), NEW c, NEW id \in Int, GoodBut(bl, c, id),
         NEW p, Fits(bl, p, id), NEW b, b = At(bl, p), NEW d, d = Put(c, id, p, b)
  PROVE  Good(bl, d)
<1>1. CacheFine(c) /\ p \in Pointers
  BY DEF GoodBut, Fits
<1>2. b.data \in Data
  BY DataAt
<1>3. CacheFine(d) /\ RestKept(c, d, id) /\ OnlyPut(d, id, p, b)
  BY <1>1, <1>2, PutDoes
<1>4. Pointing(bl, d)
  <2> SUFFICES ASSUME NEW k \in DOMAIN d.l1 PROVE Leads(bl, d.l1[k])
    BY DEF Pointing
  <2>1. CASE d.l1[k].id = id
    <3>1. d.l1[k].ptr = p
      BY <1>3, <2>1 DEF OnlyPut
    <3> QED BY <2>1, <3>1 DEF Fits, Leads
  <2>2. CASE d.l1[k].id # id
    BY <1>3, <2>2 DEF RestKept, GoodBut, Pointing
  <2> QED BY <2>1, <2>2
<1>5. Sound(bl, d)
  <2> SUFFICES ASSUME NEW x \in In(bl), Plain(bl, x)
               PROVE  Agrees(bl, d, bl[x[1]][x[2]].id, x, bl[x[1]][x[2]].data)
    BY DEF Sound
  <2>1. CASE bl[x[1]][x[2]].id = id
    <3>1. p.own \in {None, x} /\ b.data = bl[x[1]][x[2]].data /\ ~b.packed
      BY <2>1 DEF Fits
    <3> QED BY <1>3, <2>1, <3>1 DEF OnlyPut, Agrees, InL1, InL2, InL3
  <2>2. CASE bl[x[1]][x[2]].id # id
    <3>1. Agrees(bl, c, bl[x[1]][x[2]].id, x, bl[x[1]][x[2]].data)
      BY <2>2 DEF GoodBut
    <3> QED BY <1>3, <2>2, <3>1, RestAgrees
  <2> QED BY <2>1, <2>2
<1> QED BY <1>3, <1>4, <1>5 DEF Good

LEMMA GetDoes ==
  ASSUME NEW bl, BlocksFine(bl), NEW c, Good(bl, c), NEW id \in Int, NEW got \in Get(c, id)
  PROVE  /\ Good(bl, got.cache) /\ got.broken \in BOOLEAN
         /\ got.ptr # None => Fits(bl, got.ptr, id)
<1>0. CacheFine(c) /\ Pointing(bl, c) /\ Sound(bl, c)
  BY DEF Good
<1>1. CASE L1Hits(c, id) # {}
  <2>1. PICK k \in L1Hits(c, id) : got = [ptr |-> c.l1[k].ptr, cache |-> c, broken |-> FALSE]
    <3>1. (CHOOSE k \in L1Hits(c, id) : TRUE) \in L1Hits(c, id)
      BY <1>1
    <3> QED BY <1>1, <3>1 DEF Get
  <2>2. k \in DOMAIN c.l1 /\ c.l1[k].id = id
    BY DEF L1Hits
  <2>3. c.l1[k] \in Entries
    BY <1>0, <2>2 DEF CacheFine, L1Fine
  <2>4. c.l1[k].ptr \in Pointers /\ c.l1[k] = [id |-> id, ptr |-> c.l1[k].ptr]
    BY <2>2, <2>3 DEF Entries
  <2>5. Leads(bl, [id |-> id, ptr |-> c.l1[k].ptr])
    BY <1>0, <2>2, <2>4 DEF Pointing
  <2>6. ASSUME NEW x \in In(bl), Plain(bl, x), bl[x[1]][x[2]].id = id
        PROVE  /\ c.l1[k].ptr.own \in {None, x}
               /\ At(bl, c.l1[k].ptr).data = bl[x[1]][x[2]].data
               /\ ~At(bl, c.l1[k].ptr).packed
    <3> DEFINE p == c.l1[k].ptr
    <3>1. p.own \in {None, x} /\ At(bl, p).data = bl[x[1]][x[2]].data
      BY <1>0, <2>2, <2>6 DEF Sound, Agrees, InL1
    <3>2. CASE p.own = None
      <4>1. \A f \in Files, i \in Idx : Own(f, i).own # None
        BY Constants DEF Own
      <4>2. PICK d \in Data : p = Loaded(d)
        BY <2>4, <3>2, <4>1 DEF Pointers
      <4>3. At(bl, p) = p
        BY <3>2 DEF At
      <4>4. ~p.packed
        BY <4>2 DEF Loaded
      <4> QED BY <3>1, <4>3, <4>4
    <3>3. CASE p.own # None
      <4>1. At(bl, p) = bl[x[1]][x[2]]
        BY <3>1, <3>3 DEF At
      <4> QED BY <2>6, <3>1, <4>1 DEF Plain
    <3> QED BY <3>2, <3>3
  <2>7. Fits(bl, c.l1[k].ptr, id)
    BY <2>4, <2>5, <2>6 DEF Fits
  <2> QED BY <2>1, <2>7
<1>2. CASE L1Hits(c, id) = {} /\ L2Hit(c, id)
  <2>1. got = [ptr |-> None, cache |-> c, broken |-> TRUE]
    BY <1>2 DEF Get
  <2> QED BY <2>1
<1>3. CASE /\ L1Hits(c, id) = {} /\ ~L2Hit(c, id)
           /\ got = [ptr |-> None, cache |-> Expired(c, id), broken |-> FALSE]
  <2>1. PICK d : d = Expired(c, id)
    OBVIOUS
  <2>2. CacheFine(d) /\ Fewer(c, d)
    <3> DEFINE n == IF id \in DOMAIN c.l3 /\ c.lost < Room THEN c.lost + 1 ELSE c.lost
    <3>1. n \in 0..Room
      BY <1>0, Constants DEF CacheFine
    <3>2. d = [c EXCEPT !.l3 = Without(@, id), !.lost = n]
      BY <1>0, <2>1 DEF Expired, CacheFine
    <3> HIDE DEF n
    <3> QED BY <1>0, <3>1, <3>2, DropDoes
  <2>3. Good(bl, d)
    BY <2>2, FewerGood
  <2> QED BY <1>3, <2>1, <2>3
<1>4. CASE /\ id \in DOMAIN c.l3
           /\ got = [ptr |-> Loaded(c.l3[id]), cache |-> Put(c, id, Loaded(c.l3[id]), Loaded(c.l3[id])),
                     broken |-> FALSE]
  <2>1. PICK p : p = Loaded(c.l3[id])
    OBVIOUS
  <2>2. c.l3[id] \in Data
    BY <1>0, <1>4 DEF CacheFine, L3Fine
  <2>3. p \in Pointers /\ p.own = None /\ p.data = c.l3[id] /\ p.packed = FALSE
    <3>1. p \in {Loaded(d) : d \in Data}
      BY <2>1, <2>2
    <3>2. p \in Pointers
      BY <3>1 DEF Pointers
    <3> QED BY <2>1, <3>2 DEF Loaded
  <2>4. At(bl, p) = p
    BY <2>3 DEF At
  <2>5. Leads(bl, [id |-> id, ptr |-> p])
    BY <2>3 DEF Leads
  <2>6. ASSUME NEW x \in In(bl), Plain(bl, x), bl[x[1]][x[2]].id = id
        PROVE  p.data = bl[x[1]][x[2]].data
    BY <1>0, <1>4, <2>3, <2>6 DEF Sound, Agrees, InL3
  <2>7. Fits(bl, p, id)
    BY <2>3, <2>4, <2>5, <2>6 DEF Fits
  <2>8. GoodBut(bl, c, id)
    BY <1>0 DEF GoodBut, Sound
  <2>9. PICK d : d = Put(c, id, p, p)
    OBVIOUS
  <2>10. Good(bl, d)
    BY <2>4, <2>7, <2>8, <2>9, PutGood
  <2> QED BY <1>4, <2>1, <2>7, <2>9, <2>10
<1>5. \/ L1Hits(c, id) # {}
      \/ L1Hits(c, id) = {} /\ L2Hit(c, id)
      \/ /\ L1Hits(c, id) = {} /\ ~L2Hit(c, id)
         /\ got = [ptr |-> None, cache |-> Expired(c, id), broken |-> FALSE]
      \/ /\ id \in DOMAIN c.l3
         /\ got = [ptr |-> Loaded(c.l3[id]), cache |-> Put(c, id, Loaded(c.l3[id]), Loaded(c.l3[id])),
                   broken |-> FALSE]
  BY DEF Get
<1> QED BY <1>1, <1>2, <1>3, <1>4, <1>5

----
(* Freeing all blocks of a file *)

(* One block freed. *)
Freed(c, f, i) == IF block[f][i] = None THEN c ELSE Invalidate(c, block[f][i].id)

Frees(g, f, m) == g = [i \in 0..m |-> IF i = 0 THEN cache ELSE Freed(g[i - 1], f, i)]

LEMMA FreesExist ==
  ASSUME NEW f, NEW m \in Nat
  PROVE  \E g : Frees(g, f, m)
<1> DEFINE Can(k) == \E g : Frees(g, f, k)
           Bad == {k \in Nat : ~Can(k)}
<1>1. Bad = {}
  <2> SUFFICES ASSUME Bad # {} PROVE FALSE
    OBVIOUS
  <2>1. PICK k \in Bad : \A j \in Bad : k <= j
    <3>1. Bad \in SUBSET Nat
      OBVIOUS
    <3> HIDE DEF Bad
    <3> QED BY <3>1, NatMin
  <2>2. k \in Nat /\ ~Can(k)
    OBVIOUS
  <2>3. CASE k = 0
    <3> DEFINE g == [i \in 0..0 |-> cache]
    <3>1. g = [i \in 0..0 |-> IF i = 0 THEN cache ELSE Freed(g[i - 1], f, i)]
      OBVIOUS
    <3> HIDE DEF g
    <3>2. Frees(g, f, 0)
      BY <3>1 DEF Frees
    <3> QED BY <2>2, <2>3, <3>2
  <2>4. CASE k # 0
    <3>1. k - 1 \in Nat /\ ~(k <= k - 1)
      BY <2>2, <2>4
    <3>2. Can(k - 1)
      <4>1. k - 1 \notin Bad
        <5> HIDE DEF Bad
        <5> QED BY <2>1, <3>1
      <4> HIDE DEF Can
      <4> QED BY <3>1, <4>1
    <3>3. PICK h : Frees(h, f, k - 1)
      BY <3>2
    <3>4. h = [i \in 0..(k - 1) |-> IF i = 0 THEN cache ELSE Freed(h[i - 1], f, i)]
      BY <3>3 DEF Frees
    <3> DEFINE g == [i \in 0..k |-> IF i = k THEN Freed(h[k - 1], f, k) ELSE h[i]]
    <3>5. \A i \in 0..k : g[i] = IF i = 0 THEN cache ELSE Freed(g[i - 1], f, i)
      <4> TAKE i \in 0..k
      <4>1. CASE i = k
        <5>1. k - 1 \in 0..k /\ k - 1 # k
          BY <2>2, <2>4
        <5>2. g[k - 1] = h[k - 1]
          BY <5>1
        <5> QED BY <2>2, <2>4, <4>1, <5>2
      <4>2. CASE i # k
        <5>1. i \in 0..(k - 1)
          BY <2>2, <4>2
        <5>2. h[i] = IF i = 0 THEN cache ELSE Freed(h[i - 1], f, i)
          BY <3>4, <5>1
        <5>3. i # 0 => i - 1 \in 0..k /\ i - 1 # k
          BY <2>2, <5>1
        <5>4. i # 0 => g[i - 1] = h[i - 1]
          BY <5>3
        <5>5. g[i] = h[i]
          BY <4>2
        <5> QED BY <5>2, <5>4, <5>5
      <4> QED BY <4>1, <4>2
    <3>6. g = [i \in 0..k |-> g[i]]
      OBVIOUS
    <3> HIDE DEF g
    <3>7. g = [i \in 0..k |-> IF i = 0 THEN cache ELSE Freed(g[i - 1], f, i)]
      BY <3>5, <3>6
    <3>8. Frees(g, f, k)
      BY <3>7 DEF Frees
    <3> QED BY <2>2, <3>8
  <2> QED BY <2>3, <2>4
<1> QED BY <1>1

LEMMA FreeAllDoes ==
  ASSUME BlocksFine(block), CacheFine(cache), NEW f \in Files
  PROVE  /\ CacheFine(FreeAll(f)) /\ Fewer(cache, FreeAll(f))
         /\ \A i \in Idx : block[f][i] # None => Nothing(FreeAll(f), block[f][i].id)
<1> DEFINE g == CHOOSE h : h = [i \in 0..Blocks |->
                                  IF i = 0 THEN cache
                                  ELSE IF block[f][i] = None THEN h[i - 1]
                                  ELSE Invalidate(h[i - 1], block[f][i].id)]
<1>1. FreeAll(f) = g[Blocks]
  BY DEF FreeAll
<1>2. Frees(g, f, Blocks)
  <2>1. \E h : Frees(h, f, Blocks)
    BY FreesExist, Constants
  <2>2. \E h : h = [i \in 0..Blocks |->
                      IF i = 0 THEN cache
                      ELSE IF block[f][i] = None THEN h[i - 1]
                      ELSE Invalidate(h[i - 1], block[f][i].id)]
    BY <2>1 DEF Frees, Freed
  <2>3. g = [i \in 0..Blocks |->
               IF i = 0 THEN cache
               ELSE IF block[f][i] = None THEN g[i - 1]
               ELSE Invalidate(g[i - 1], block[f][i].id)]
    BY <2>2
  <2> HIDE DEF g
  <2> QED BY <2>3 DEF Frees, Freed
<1> HIDE DEF g
<1> DEFINE Done(k) == /\ CacheFine(g[k]) /\ Fewer(cache, g[k])
                      /\ \A i \in 1..k : block[f][i] # None => Nothing(g[k], block[f][i].id)
           Bad == {k \in Nat : k <= Blocks /\ ~Done(k)}
<1>3. g[0] = cache /\ \A k \in 1..Blocks : g[k] = Freed(g[k - 1], f, k)
  BY <1>2, Constants DEF Frees
<1>4. Bad = {}
  <2> SUFFICES ASSUME Bad # {} PROVE FALSE
    OBVIOUS
  <2>1. PICK k \in Bad : \A j \in Bad : k <= j
    <3>1. Bad \in SUBSET Nat
      OBVIOUS
    <3> HIDE DEF Bad
    <3> QED BY <3>1, NatMin
  <2>2. k \in Nat /\ k <= Blocks /\ ~Done(k)
    OBVIOUS
  <2>3. CASE k = 0
    <3>1. Fewer(cache, cache)
      BY DEF Fewer
    <3> QED BY <1>3, <2>2, <2>3, <3>1
  <2>4. CASE k # 0
    <3>1. k - 1 \in Nat /\ k - 1 <= Blocks /\ ~(k <= k - 1) /\ k \in 1..Blocks
      BY <2>2, <2>4, Constants
    <3>2. Done(k - 1)
      <4>1. k - 1 \notin Bad
        <5> HIDE DEF Bad
        <5> QED BY <2>1, <3>1
      <4> HIDE DEF Done
      <4> QED BY <3>1, <4>1
    <3> DEFINE c == g[k - 1]
               d == g[k]
    <3>3. d = Freed(c, f, k)
      BY <1>3, <3>1
    <3>4. CacheFine(c) /\ Fewer(cache, c)
          /\ \A i \in 1..(k - 1) : block[f][i] # None => Nothing(c, block[f][i].id)
      BY <3>2
    <3> HIDE DEF c, d
    <3>5. CASE block[f][k] = None
      <4>1. d = c
        BY <3>3, <3>5 DEF Freed
      <4>2. \A i \in 1..k : block[f][i] # None => i \in 1..(k - 1)
        BY <2>2, <3>5
      <4>3. Done(k)
        BY <3>4, <4>1, <4>2 DEF d
      <4> QED BY <2>2, <4>3
    <3>6. CASE block[f][k] # None
      <4>1. d = Invalidate(c, block[f][k].id)
        BY <3>3, <3>6 DEF Freed
      <4>2. block[f][k].id \in Int
        BY <3>1, <3>6 DEF BlocksFine, Block, Idx
      <4>3. CacheFine(d) /\ Fewer(c, d) /\ Nothing(d, block[f][k].id)
        BY <3>4, <4>1, <4>2, InvalidateDoes
      <4>4. Fewer(cache, d)
        BY <3>4, <4>3, FewerTwice
      <4>5. ASSUME NEW i \in 1..k, block[f][i] # None PROVE Nothing(d, block[f][i].id)
        <5>1. CASE i = k
          BY <4>3, <5>1
        <5>2. CASE i # k
          <6>1. i \in 1..(k - 1)
            BY <2>2, <5>2
          <6>2. Nothing(c, block[f][i].id)
            BY <3>4, <4>5, <6>1
          <6> QED BY <4>3, <6>2, FewerNothing
        <5> QED BY <5>1, <5>2
      <4>6. Done(k)
        BY <4>3, <4>4, <4>5 DEF d
      <4> QED BY <2>2, <4>6
    <3> QED BY <3>5, <3>6
  <2> QED BY <2>3, <2>4
<1>5. Done(Blocks)
  <2>1. Blocks \in Nat /\ Blocks <= Blocks
    BY Constants
  <2> HIDE DEF Done
  <2> QED BY <1>4, <2>1
<1> QED BY <1>1, <1>5 DEF Idx

----
(* The steps *)

LEMMA InvInit == Init => Inv
<1> SUFFICES ASSUME Init PROVE Inv
  OBVIOUS
<1> USE DEF Init
<1>1. BlocksFine(block)
  BY DEF BlocksFine
<1>2. In(block) = {}
  BY DEF In
<1>3. size \in [Files -> 0..Blocks] /\ total \in Ids /\ dirs \in 0..MaxDirs /\ broken \in BOOLEAN
  <2>1. 0 \in 0..Blocks /\ 0 \in 0..MaxDirs /\ 0 \in Ids
    BY Constants, CacheAssumption
  <2> QED BY <2>1
<1>4. /\ cache = [l1 |-> cache.l1, l2 |-> cache.l2, index |-> cache.index, l3 |-> cache.l3,
                  lost |-> cache.lost]
      /\ cache.l1 = <<>> /\ cache.l2 = [s \in 0..Slots - 1 |-> [id |-> 0, data |-> None]]
      /\ DOMAIN cache.index = {} /\ DOMAIN cache.l3 = {} /\ cache.lost = 0
  BY DEF EmptyCache
<1>5. L1Fine(cache.l1) /\ Len(cache.l1) <= Budget /\ DOMAIN cache.l1 = {}
  <2>1. <<>> \in Seq(Entries) /\ Len(<<>>) = 0 /\ DOMAIN <<>> = {}
    OBVIOUS
  <2> QED BY <1>4, <2>1, Constants DEF L1Fine, OneEach
<1>6. L2Fine(cache.l2)
  BY <1>4 DEF L2Fine, Data
<1>7. CacheFine(cache)
  <2>1. IsFiniteSet({}) /\ Cardinality({}) = 0
    BY FS_EmptySet
  <2>2. L3Fine(cache.l3)
    BY <1>4, <2>1, Constants DEF L3Fine
  <2>3. 0 \in 0..Room
    BY Constants
  <2> QED BY <1>4, <1>5, <1>6, <2>2, <2>3 DEF CacheFine, IndexFine
<1>8. Pointing(block, cache)
  BY <1>5 DEF Pointing
<1>9. Sound(block, cache)
  BY <1>2 DEF Sound
<1> QED BY <1>1, <1>3, <1>7, <1>8, <1>9 DEF Inv

(* A file's own block, put under its id. *)
LEMMA OwnFits ==
  ASSUME NEW bl, BlocksFine(bl), NEW f \in Files, NEW i \in Idx, bl[f][i] # None
  PROVE  Fits(bl, Own(f, i), bl[f][i].id) /\ At(bl, Own(f, i)) = bl[f][i]
<1> DEFINE x == <<f, i>>
           p == Own(f, i)
<1>1. p.own = x /\ p.own # None /\ p \in Pointers
  <2>1. p.own = x
    BY DEF Own
  <2>2. x \in Files \X Idx
    OBVIOUS
  <2>3. x # None
    BY <2>2, Constants
  <2>4. p \in {Own(h, j) : h \in Files, j \in Idx}
    OBVIOUS
  <2> QED BY <2>1, <2>3, <2>4 DEF Pointers
<1>2. x \in In(bl)
  BY DEF In
<1>3. At(bl, p) = bl[f][i]
  BY <1>1 DEF At
<1>4. Leads(bl, [id |-> bl[f][i].id, ptr |-> p])
  BY <1>1, <1>2, <1>3 DEF Leads
<1>5. ASSUME NEW y \in In(bl), Plain(bl, y), bl[y[1]][y[2]].id = bl[f][i].id
      PROVE  p.own \in {None, y} /\ At(bl, p).data = bl[y[1]][y[2]].data /\ ~At(bl, p).packed
  <2>1. x = y
    BY <1>2, <1>5 DEF Plain
  <2> QED BY <1>1, <1>3, <1>5, <2>1 DEF Plain
<1> QED BY <1>1, <1>3, <1>4, <1>5 DEF Fits

(* A cache that is good for the blocks after a step makes the invariant. *)
LEMMA GoodAfter ==
  ASSUME NEW bl, NEW c, BlocksFine(bl), Good(bl, c), block' = bl, cache' = c,
         size' \in [Files -> 0..Blocks], total' \in Ids, dirs' \in 0..MaxDirs, broken' \in BOOLEAN
  PROVE  Inv'
<1>1. BlocksFine(block') /\ Good(block', cache')
  OBVIOUS
<1>2. BlocksFine(block)' /\ Good(block, cache)'
  BY <1>1 DEF BlocksFine, Good, CacheFine, Pointing, Sound, Leads, In, At, Plain, Agrees,
              InL1, InL2, InL3
<1> QED BY <1>2 DEF Inv, Good

LEMMA WriteStep ==
  ASSUME Inv, NEW f \in Files, NEW i \in Idx, WriteBlock(f, i)
  PROVE  Inv'
<1> DEFINE x == <<f, i>>
           old == block[f][i]
           id == IF old = None THEN total ELSE old.id
           c1 == IF old = None THEN cache ELSE Invalidate(cache, id)
<1>1. PICK form \in Forms :
        /\ block' = [block EXCEPT ![f][i] = [id |-> id, data |-> form[1], packed |-> form[2]]]
        /\ cache' = Put(c1, id, Own(f, i), [id |-> id, data |-> form[1], packed |-> form[2]])
  BY DEF WriteBlock
<1> DEFINE b == [id |-> id, data |-> form[1], packed |-> form[2]]
<1>2. BlocksFine(block) /\ CacheFine(cache) /\ Pointing(block, cache) /\ Sound(block, cache)
  BY DEF Inv
<1>3. total \in Int /\ (old # None => old \in Block)
  BY Constants DEF Inv, BlocksFine
<1>4. id \in Int
  BY <1>3 DEF Block
<1>5. b \in Block /\ b # None
  <2>1. b \in Block
    BY <1>4, Constants DEF Block
  <2> QED BY <2>1, Constants
<1> HIDE DEF b
<1>6. block' = [block EXCEPT ![f] = [block[f] EXCEPT ![i] = b]]
  BY <1>1 DEF b
<1>7. BlocksFine(block)' /\ block'[f][i] = b
      /\ \A g \in Files, j \in Idx : <<g, j>> # x => block'[g][j] = block[g][j]
  <2>1. DOMAIN block = Files /\ \A g \in Files : block[g] \in [Idx -> Block \cup {None}]
    BY <1>2 DEF BlocksFine
  <2>2. [block[f] EXCEPT ![i] = b] \in [Idx -> Block \cup {None}]
    BY <1>5, <2>1
  <2>3. block' \in [Files -> [Idx -> Block \cup {None}]]
    BY <1>2, <1>6, <2>2 DEF BlocksFine
  <2>4. block'[f][i] = b
    BY <1>6, <2>1
  <2>5. \A g \in Files, j \in Idx : <<g, j>> # x => block'[g][j] = block[g][j]
    BY <1>6, <2>1
  <2> QED BY <2>3, <2>4, <2>5 DEF BlocksFine
<1> DEFINE bl == block'
<1>8. block' = bl
  OBVIOUS
<1> HIDE DEF bl
<1>9. BlocksFine(bl) /\ bl[f][i] = b
      /\ \A g \in Files, j \in Idx : <<g, j>> # x => bl[g][j] = block[g][j]
  BY <1>7 DEF bl, BlocksFine
<1>10. In(bl) = In(block) \cup {x}
  BY <1>5, <1>9 DEF In
<1>11. \A y \in In(bl) : y # x => y \in In(block) /\ bl[y[1]][y[2]] = block[y[1]][y[2]]
  <2>1. \A y \in In(bl) : y = <<y[1], y[2]>> /\ y[1] \in Files /\ y[2] \in Idx
    BY DEF In
  <2> QED BY <1>9, <1>10, <2>1
<1>12. CacheFine(c1) /\ Fewer(cache, c1) /\ (old # None => Nothing(c1, id))
  <2>1. CASE old = None
    <3>1. c1 = cache
      BY <2>1
    <3>2. Fewer(cache, cache)
      BY DEF Fewer
    <3> QED BY <1>2, <2>1, <3>1, <3>2
  <2>2. CASE old # None
    <3>1. c1 = Invalidate(cache, id)
      BY <2>2
    <3> HIDE DEF c1, id
    <3> QED BY <1>2, <1>4, <3>1, InvalidateDoes
  <2> QED BY <2>1, <2>2
<1>13. x \in In(block) => old # None /\ old.id = id
  BY DEF In
<1>14. b.id = id
  BY DEF b
<1>15. x \notin In(block) => old = None
  BY DEF In
<1> HIDE DEF c1, id, old
<1>16. Pointing(block, c1)
  BY <1>2, <1>12, FewerPoints
<1>17. Pointing(bl, c1)
  <2> SUFFICES ASSUME NEW k \in DOMAIN c1.l1, c1.l1[k].ptr.own # None
               PROVE  /\ c1.l1[k].ptr.own \in In(bl)
                      /\ At(bl, c1.l1[k].ptr).id = c1.l1[k].id
    BY DEF Pointing, Leads
  <2> DEFINE y == c1.l1[k].ptr.own
  <2>1. y \in In(block) /\ At(block, c1.l1[k].ptr).id = c1.l1[k].id
    BY <1>16 DEF Pointing, Leads
  <2>2. y # x
    <3>1. SUFFICES ASSUME y = x PROVE FALSE
      OBVIOUS
    <3>2. old # None /\ old.id = id
      BY <1>13, <2>1, <3>1
    <3>3. At(block, c1.l1[k].ptr) = block[y[1]][y[2]]
      BY DEF At
    <3>4. block[y[1]][y[2]] = old
      BY <3>1 DEF old
    <3> QED BY <1>12, <2>1, <3>2, <3>3, <3>4 DEF Nothing
  <2>3. y \in In(bl) /\ bl[y[1]][y[2]] = block[y[1]][y[2]]
    BY <1>10, <1>11, <2>1, <2>2
  <2> QED BY <2>1, <2>3 DEF At
<1>18. ASSUME NEW y \in In(bl), Plain(bl, y), bl[y[1]][y[2]].id # id
       PROVE  Agrees(bl, c1, bl[y[1]][y[2]].id, y, bl[y[1]][y[2]].data)
  <2>1. y # x
    BY <1>9, <1>14, <1>18
  <2>2. y \in In(block) /\ bl[y[1]][y[2]] = block[y[1]][y[2]]
    BY <1>11, <2>1
  <2> DEFINE e == block[y[1]][y[2]]
  <2>3. Plain(block, y)
    <3>1. \A u \in In(block) \ {y} : block[u[1]][u[2]].id # e.id
      <4> SUFFICES ASSUME NEW u \in In(block), u # y PROVE block[u[1]][u[2]].id # e.id
        OBVIOUS
      <4>1. CASE u = x
        <5>1. old.id = id /\ block[u[1]][u[2]] = old
          BY <1>13, <4>1 DEF old
        <5> QED BY <1>18, <2>2, <5>1
      <4>2. CASE u # x
        <5>1. u \in In(bl) /\ bl[u[1]][u[2]] = block[u[1]][u[2]]
          BY <1>10, <1>11, <4>2
        <5> QED BY <1>18, <2>2, <5>1 DEF Plain
      <4> QED BY <4>1, <4>2
    <3> QED BY <1>18, <2>2, <3>1 DEF Plain
  <2>4. Agrees(block, cache, e.id, y, e.data)
    BY <1>2, <2>2, <2>3 DEF Sound
  <2> HIDE DEF e
  <2>5. Agrees(block, c1, e.id, y, e.data)
    BY <1>12, <2>4, FewerAgrees
  <2>6. Agrees(bl, c1, e.id, y, e.data)
    <3>1. \A k \in DOMAIN c1.l1 : c1.l1[k].id = e.id =>
            c1.l1[k].ptr.own \in {None, y} /\ At(block, c1.l1[k].ptr).data = e.data
      BY <2>5 DEF Agrees, InL1
    <3>2. \A k \in DOMAIN c1.l1 : c1.l1[k].ptr.own \in {None, y} =>
            At(bl, c1.l1[k].ptr) = At(block, c1.l1[k].ptr)
      BY <2>2 DEF At
    <3>3. InL1(bl, c1, e.id, y, e.data)
      BY <3>1, <3>2 DEF InL1
    <3> QED BY <2>5, <3>3 DEF Agrees
  <2> QED BY <2>2, <2>6 DEF e
<1>19. GoodBut(bl, c1, id)
  BY <1>12, <1>17, <1>18 DEF GoodBut
<1>20. Fits(bl, Own(f, i), id) /\ At(bl, Own(f, i)) = b
  BY <1>5, <1>9, <1>14, OwnFits
<1>21. cache' = Put(c1, id, Own(f, i), b)
  BY <1>1 DEF b
<1>22. Good(bl, cache')
  BY <1>4, <1>9, <1>19, <1>20, <1>21, PutGood
<1>23. /\ size' = [size EXCEPT ![f] = IF i > @ THEN i ELSE @]
       /\ total' \in Ids /\ dirs' = dirs /\ broken' = broken
  BY DEF WriteBlock
<1>24. size' \in [Files -> 0..Blocks]
  BY <1>23 DEF Inv, Idx
<1> QED BY <1>8, <1>9, <1>22, <1>23, <1>24, GoodAfter DEF Inv

LEMMA ReadStep ==
  ASSUME Inv, NEW f \in Files, NEW i \in Idx, ReadBlock(f, i)
  PROVE  Inv'
<1> DEFINE id == block[f][i].id
<1>1. PICK got \in Get(cache, id) :
        LET p    == IF got.ptr = None THEN Own(f, i) ELSE got.ptr
            put  == Put(got.cache, id, p, Deref(p))
            next == IF i < Blocks /\ block[f][i + 1] # None THEN Get(put, block[f][i + 1].id)
                    ELSE {[ptr |-> None, cache |-> put, broken |-> FALSE]}
        IN  IF got.broken THEN broken' = TRUE /\ UNCHANGED cache
            ELSE \E n \in next : cache' = n.cache /\ broken' = n.broken
  BY DEF ReadBlock
<1>2. block[f][i] # None /\ UNCHANGED <<block, size, total, dirs>>
  BY DEF ReadBlock
<1>3. BlocksFine(block) /\ Good(block, cache)
  BY DEF Inv, Good
<1>4. \A j \in Idx : block[f][j] # None => block[f][j].id \in Int
  BY <1>3 DEF BlocksFine, Block
<1>5. id \in Int
  BY <1>2, <1>4
<1>6. Good(block, got.cache) /\ got.broken \in BOOLEAN /\ (got.ptr # None => Fits(block, got.ptr, id))
  <2> HIDE DEF id
  <2> QED BY <1>3, <1>5, GetDoes
<1>7. ASSUME NEW d, Good(block, d), cache' = d, broken' \in BOOLEAN
      PROVE  Inv'
  BY <1>2, <1>3, <1>7, GoodAfter DEF Inv
<1>8. CASE got.broken
  <2>1. broken' = TRUE /\ cache' = cache
    BY <1>1, <1>8
  <2> QED BY <1>3, <1>7, <2>1
<1>9. CASE ~got.broken
  <2> DEFINE p == IF got.ptr = None THEN Own(f, i) ELSE got.ptr
             put == Put(got.cache, id, p, Deref(p))
             next == IF i < Blocks /\ block[f][i + 1] # None THEN Get(put, block[f][i + 1].id)
                     ELSE {[ptr |-> None, cache |-> put, broken |-> FALSE]}
  <2>1. PICK n \in next : cache' = n.cache /\ broken' = n.broken
    BY <1>1, <1>9
  <2>2. Fits(block, p, id)
    BY <1>2, <1>3, <1>6, OwnFits
  <2>3. Deref(p) = At(block, p)
    BY DEF Deref, At
  <2>4. Good(block, put)
    <3>1. GoodBut(block, got.cache, id)
      BY <1>6 DEF Good, GoodBut, Sound
    <3> HIDE DEF p, id
    <3> QED BY <1>3, <1>5, <2>2, <2>3, <3>1, PutGood
  <2> HIDE DEF put, p
  <2>5. Good(block, n.cache) /\ n.broken \in BOOLEAN
    <3>1. CASE i < Blocks /\ block[f][i + 1] # None
      <4>1. i + 1 \in Idx
        BY <3>1, Constants DEF Idx
      <4>2. block[f][i + 1].id \in Int
        BY <1>4, <3>1, <4>1
      <4>3. n \in Get(put, block[f][i + 1].id)
        BY <3>1
      <4> HIDE DEF next
      <4> QED BY <1>3, <2>4, <4>2, <4>3, GetDoes
    <3>2. CASE ~(i < Blocks /\ block[f][i + 1] # None)
      <4>1. n = [ptr |-> None, cache |-> put, broken |-> FALSE]
        BY <3>2
      <4> QED BY <2>4, <4>1
    <3> QED BY <3>1, <3>2
  <2> QED BY <1>7, <2>1, <2>5
<1> QED BY <1>8, <1>9

LEMMA UnlinkStep ==
  ASSUME Inv, NEW f \in Files, Unlink(f)
  PROVE  Inv'
<1>1. /\ block' = [block EXCEPT ![f] = [i \in Idx |-> None]]
      /\ cache' = FreeAll(f) /\ total' \in Ids
      /\ size' = [size EXCEPT ![f] = 0] /\ dirs' = dirs /\ broken' = broken
  BY DEF Unlink
<1>2. BlocksFine(block) /\ CacheFine(cache) /\ Pointing(block, cache) /\ Sound(block, cache)
  BY DEF Inv
<1> DEFINE bl == block'
           d == FreeAll(f)
<1>3. /\ CacheFine(d) /\ Fewer(cache, d)
      /\ \A i \in Idx : block[f][i] # None => Nothing(d, block[f][i].id)
  BY <1>2, FreeAllDoes
<1>4. BlocksFine(bl) /\ (\A i \in Idx : bl[f][i] = None) /\ (\A g \in Files \ {f} : bl[g] = block[g])
  BY <1>1, <1>2 DEF BlocksFine
<1>5. cache' = d
  BY <1>1
<1>6. BlocksFine(block)'
  BY <1>4 DEF BlocksFine
<1>7. size' \in [Files -> 0..Blocks]
  <2>1. size \in [Files -> 0..Blocks] /\ 0 \in 0..Blocks
    BY Constants DEF Inv
  <2> QED BY <1>1, <2>1
<1> HIDE DEF bl, d
<1>8. \A y \in In(block) : y \in Files \X Idx /\ (y \in In(bl) <=> y[1] # f)
  <2>1. \A y \in Files \X Idx : y[1] \in Files /\ y[2] \in Idx
    OBVIOUS
  <2> QED BY <1>4, <2>1 DEF In
<1>9. \A y \in In(bl) : y \in In(block) /\ y[1] # f /\ bl[y[1]][y[2]] = block[y[1]][y[2]]
  <2>1. \A y \in Files \X Idx : y[1] \in Files /\ y[2] \in Idx
    OBVIOUS
  <2> QED BY <1>4, <2>1 DEF In
<1>10. \A y \in In(block) : y[1] = f => Nothing(d, block[y[1]][y[2]].id)
  <2>1. \A y \in In(block) : y[2] \in Idx /\ block[y[1]][y[2]] # None
    BY DEF In
  <2> QED BY <1>3, <2>1
<1>11. Pointing(block, d)
  BY <1>2, <1>3, FewerPoints
<1>12. Pointing(bl, d)
  <2> SUFFICES ASSUME NEW k \in DOMAIN d.l1, d.l1[k].ptr.own # None
               PROVE  d.l1[k].ptr.own \in In(bl) /\ At(bl, d.l1[k].ptr).id = d.l1[k].id
    BY DEF Pointing, Leads
  <2> DEFINE y == d.l1[k].ptr.own
  <2>1. y \in In(block) /\ At(block, d.l1[k].ptr).id = d.l1[k].id
    BY <1>11 DEF Pointing, Leads
  <2>2. At(block, d.l1[k].ptr) = block[y[1]][y[2]]
    BY DEF At
  <2>3. y[1] # f
    BY <1>10, <2>1, <2>2 DEF Nothing
  <2>4. y \in In(bl) /\ bl[y[1]][y[2]] = block[y[1]][y[2]]
    BY <1>8, <1>9, <2>1, <2>3
  <2> QED BY <2>1, <2>4 DEF At
<1>13. Sound(bl, d)
  <2> SUFFICES ASSUME NEW x \in In(bl), Plain(bl, x)
               PROVE  Agrees(bl, d, bl[x[1]][x[2]].id, x, bl[x[1]][x[2]].data)
    BY DEF Sound
  <2> DEFINE e == block[x[1]][x[2]]
  <2>1. x \in In(block) /\ bl[x[1]][x[2]] = e
    BY <1>9
  <2>2. CASE Plain(block, x)
    <3>1. Agrees(block, cache, e.id, x, e.data)
      BY <1>2, <2>1, <2>2 DEF Sound
    <3> HIDE DEF e
    <3>2. Agrees(block, d, e.id, x, e.data)
      BY <1>3, <3>1, FewerAgrees
    <3>3. \A k \in DOMAIN d.l1 : d.l1[k].id = e.id =>
            d.l1[k].ptr.own \in {None, x} /\ At(block, d.l1[k].ptr).data = e.data
      BY <3>2 DEF Agrees, InL1
    <3>4. \A k \in DOMAIN d.l1 : d.l1[k].ptr.own \in {None, x} =>
            At(bl, d.l1[k].ptr) = At(block, d.l1[k].ptr)
      BY <2>1 DEF At, e
    <3>5. InL1(bl, d, e.id, x, e.data)
      BY <3>3, <3>4 DEF InL1
    <3>6. Agrees(bl, d, e.id, x, e.data)
      BY <3>2, <3>5 DEF Agrees
    <3> QED BY <2>1, <3>6
  <2>3. CASE ~Plain(block, x)
    <3>1. PICK y \in In(block) \ {x} : block[y[1]][y[2]].id = e.id
      BY <2>1, <2>3 DEF Plain
    <3>2. y \notin In(bl)
      BY <1>9, <2>1, <3>1 DEF Plain
    <3>3. Nothing(d, e.id)
      BY <1>8, <1>10, <3>1, <3>2
    <3> HIDE DEF e
    <3>4. Agrees(bl, d, e.id, x, e.data)
      BY <3>3 DEF Nothing, Agrees, InL1, InL2, InL3
    <3> QED BY <2>1, <3>4
  <2> QED BY <2>2, <2>3
<1>14. Good(bl, d)
  BY <1>3, <1>12, <1>13 DEF Good
<1>15. block' = bl
  BY DEF bl
<1> QED BY <1>1, <1>4, <1>5, <1>7, <1>14, <1>15, GoodAfter DEF Inv

LEMMA InvStep ==
  ASSUME Inv, [Next]_vars
  PROVE  Inv'
<1>0. /\ size \in [Files -> 0..Blocks] /\ total \in Ids /\ dirs \in 0..MaxDirs
      /\ broken \in BOOLEAN /\ BlocksFine(block) /\ Good(block, cache)
  BY DEF Inv, Good
<1>1. CASE UNCHANGED vars
  BY <1>0, <1>1, GoodAfter DEF vars
<1>2. ASSUME NEW f \in Files, NEW i \in Idx, WriteBlock(f, i) PROVE Inv'
  BY <1>2, WriteStep
<1>3. ASSUME NEW f \in Files, NEW i \in Idx, ReadBlock(f, i) PROVE Inv'
  BY <1>3, ReadStep
<1>4. ASSUME NEW f \in Files, Unlink(f) PROVE Inv'
  BY <1>4, UnlinkStep
<1>5. ASSUME block' = block, cache' = cache, broken' = broken,
             size' \in [Files -> 0..Blocks], total' \in Ids, dirs' \in 0..MaxDirs
      PROVE  Inv'
  BY <1>0, <1>5, GoodAfter
<1>6. ASSUME NEW f \in Files, Truncate(f) PROVE Inv'
  <2>1. size' \in [Files -> 0..Blocks]
    BY <1>0, <1>6 DEF Truncate
  <2> QED BY <1>0, <1>5, <1>6, <2>1 DEF Truncate
<1>7. CASE MakeDir
  <2>1. dirs' \in 0..MaxDirs
    BY <1>0, <1>7, Constants DEF MakeDir
  <2> QED BY <1>0, <1>5, <1>7, <2>1 DEF MakeDir
<1>8. CASE RemoveDir
  <2>1. dirs' \in 0..MaxDirs
    BY <1>0, <1>8, Constants DEF RemoveDir
  <2> QED BY <1>0, <1>5, <1>8, <2>1 DEF RemoveDir
<1>9. CASE TrimExpired
  <2>1. PICK id \in DOMAIN cache.l3 : cache' = [cache EXCEPT !.l3 = Without(@, id)]
    BY <1>9 DEF TrimExpired
  <2>2. UNCHANGED <<block, size, total, dirs, broken>>
    BY <1>9 DEF TrimExpired
  <2>3. PICK d : d = [cache EXCEPT !.l3 = Without(@, id)]
    OBVIOUS
  <2>4. CacheFine(d) /\ Fewer(cache, d)
    <3>1. CacheFine(cache)
      BY <1>0 DEF Good
    <3>2. d = [cache EXCEPT !.l3 = Without(@, id), !.lost = cache.lost] /\ cache.lost \in 0..Room
      BY <2>3, <3>1 DEF CacheFine
    <3> QED BY <3>1, <3>2, DropDoes
  <2>5. Good(block, d)
    BY <1>0, <2>4, FewerGood
  <2> QED BY <1>0, <2>1, <2>2, <2>3, <2>5, GoodAfter
<1> QED BY <1>1, <1>2, <1>3, <1>4, <1>6, <1>7, <1>8, <1>9 DEF Next

LEMMA Invariance == Spec => []Inv
<1>1. Init => Inv
  BY InvInit
<1>2. Inv /\ [Next]_vars => Inv'
  BY InvStep
<1> QED BY <1>1, <1>2, PTL DEF Spec

----
(* The theorems *)

(* The types of the cache of cache.c hold for every number of files, blocks
   and slots: L1 stays within its budget with one entry for an id, L3 within
   its room however its account drifts, and an entry of L2's index names the
   slot that holds its block. *)
THEOREM CacheTypes == Spec => []TypeOK
<1>1. Inv => TypeOK
  <2> SUFFICES ASSUME Inv PROVE TypeOK
    OBVIOUS
  <2>1. \A f \in Files, i \in Idx : block[f][i] # None => block[f][i] \in Block
    BY DEF Inv, BlocksFine
  <2> QED BY <2>1 DEF Inv, TypeOK, CacheFine, L1Fine, OneEach, L2Fine, IndexFine, L3Fine
<1> QED BY <1>1, Invariance, PTL

(* No put, promotion, eviction or freeing of a file's blocks leaves a pointer
   in L1 that outlives its block or leads to another. *)
THEOREM CachePointers == Spec => []NoStalePointer
<1>1. Inv => NoStalePointer
  BY DEF Inv, Pointing, Leads, NoStalePointer, Existing, In, At, Deref
<1> QED BY <1>1, Invariance, PTL

(* What any level of the cache holds under the id of a block that shares it
   with no other is what was last written to that block. *)
THEOREM CacheCoherent == Spec => []Coherent
<1>1. Inv => Coherent
  <2> SUFFICES ASSUME Inv, NEW x \in Existing,
                      \A y \in Existing \ {x} : block[y[1]][y[2]].id # block[x[1]][x[2]].id,
                      ~block[x[1]][x[2]].packed
               PROVE  LET b == block[x[1]][x[2]]
                      IN  /\ \A k \in L1Hits(cache, b.id) :
                               LET p == cache.l1[k].ptr
                               IN  p.own \in {None, x} /\ Deref(p).data = b.data
                          /\ L2Hit(cache, b.id) => cache.l2[cache.index[b.id]].data = b.data
                          /\ b.id \in DOMAIN cache.l3 => cache.l3[b.id] = b.data
    BY DEF Coherent
  <2>1. x \in In(block) /\ Plain(block, x)
    BY DEF Existing, In, Plain
  <2>2. Agrees(block, cache, block[x[1]][x[2]].id, x, block[x[1]][x[2]].data)
    BY <2>1 DEF Inv, Sound
  <2> QED BY <2>2 DEF Agrees, InL1, InL2, InL3, L1Hits, L2Hit, Deref, At
<1> QED BY <1>1, Invariance, PTL

(* smartbackupfs.h's claim that a block_id identifies one block holds as long
   as total_blocks never goes down: it is by unlink and rmdir alone, which take
   blocks from total_blocks, that ids are given out twice. *)
THEOREM IdsUnique == Init /\ [][Next /\ total' >= total]_vars => []UniqueIds
<1> DEFINE Id(x) == block[x[1]][x[2]].id
           Fresh == Inv /\ UniqueIds /\ \A x \in Existing : Id(x) < total
<1>1. Init => Fresh
  <2> SUFFICES ASSUME Init PROVE Fresh
    OBVIOUS
  <2>1. Existing = {}
    BY DEF Init, Existing
  <2> QED BY <2>1, InvInit DEF UniqueIds
<1>2. Fresh /\ [Next /\ total' >= total]_vars => Fresh'
  <2> SUFFICES ASSUME Fresh, [Next /\ total' >= total]_vars PROVE Fresh'
    OBVIOUS
  <2>1. Inv'
    BY InvStep
  <2>2. \A x \in Files \X Idx : x[1] \in Files /\ x[2] \in Idx /\ x = <<x[1], x[2]>>
    OBVIOUS
  <2>3. total \in Int /\ total' \in Int /\ total' >= total
    <3>1. total \in Ids /\ total' \in Ids
      BY <2>1 DEF Inv
    <3>2. total \in Int /\ total' \in Int
      BY <3>1, Constants
    <3>3. total' >= total \/ total' = total
      BY DEF vars
    <3> QED BY <3>2, <3>3
  <2>4. \A x \in Existing : Id(x) \in Int /\ Id(x) < total
    BY <2>2 DEF Existing, Inv, BlocksFine, Block
  <2>5. ASSUME \A x \in Existing' : x \in Existing /\ Id(x)' = Id(x)
        PROVE  Fresh'
    <3>1. UniqueIds'
      BY <2>5 DEF UniqueIds
    <3>2. \A x \in Existing' : Id(x)' < total'
      BY <2>3, <2>4, <2>5
    <3> QED BY <2>1, <3>1, <3>2
  <2>6. CASE block' = block
    BY <2>5, <2>6 DEF Existing
  <2>7. ASSUME NEW f \in Files, Unlink(f) PROVE Fresh'
    <3>1. block' = [block EXCEPT ![f] = [i \in Idx |-> None]] /\ BlocksFine(block)
      BY <2>7 DEF Unlink, Inv
    <3>2. \A x \in Existing' : x \in Existing /\ Id(x)' = Id(x)
      BY <2>2, <3>1 DEF Existing, BlocksFine
    <3> QED BY <2>5, <3>2
  <2>8. ASSUME NEW f \in Files, NEW i \in Idx, WriteBlock(f, i) PROVE Fresh'
    <3> DEFINE w == <<f, i>>
               id == IF block[f][i] = None THEN total ELSE block[f][i].id
    <3>1. PICK form \in Forms :
            block' = [block EXCEPT ![f][i] = [id |-> id, data |-> form[1], packed |-> form[2]]]
      BY <2>8 DEF WriteBlock
    <3>2. BlocksFine(block) /\ total' = IF block[f][i] = None THEN total + 1 ELSE total
      BY <2>8 DEF WriteBlock, Inv
    <3>3. block'[f][i].id = id
          /\ \A g \in Files, j \in Idx : <<g, j>> # w => block'[g][j] = block[g][j]
      BY <3>1, <3>2 DEF BlocksFine
    <3>4. Id(w)' = id
      BY <3>3
    <3>5. \A x \in Existing' : x # w => x \in Existing /\ Id(x)' = Id(x)
      BY <2>2, <3>3 DEF Existing
    <3>6. \A x \in Existing : x # w => Id(x) # id
      <4>1. CASE block[f][i] = None
        BY <2>3, <2>4, <4>1
      <4>2. CASE block[f][i] # None
        <5>1. w \in Existing /\ Id(w) = id
          BY <4>2 DEF Existing
        <5> QED BY <5>1 DEF UniqueIds
      <4> QED BY <4>1, <4>2
    <3>7. id < total'
      <4>1. CASE block[f][i] = None
        BY <2>3, <3>2, <4>1
      <4>2. CASE block[f][i] # None
        <5>1. w \in Existing /\ Id(w) = id
          BY <4>2 DEF Existing
        <5> QED BY <2>4, <3>2, <4>2, <5>1
      <4> QED BY <4>1, <4>2
    <3> HIDE DEF w, id
    <3>8. UniqueIds'
      <4> SUFFICES ASSUME NEW x \in Existing', NEW y \in Existing', Id(x)' = Id(y)' PROVE x = y
        BY DEF UniqueIds
      <4>1. CASE x # w /\ y # w
        <5>1. x \in Existing /\ y \in Existing /\ Id(x) = Id(y)
          BY <3>5, <4>1
        <5> QED BY <5>1 DEF UniqueIds
      <4>2. CASE x = w \/ y = w
        BY <3>4, <3>5, <3>6, <4>2
      <4> QED BY <4>1, <4>2
    <3>9. \A x \in Existing' : Id(x)' < total'
      <4> SUFFICES ASSUME NEW x \in Existing' PROVE Id(x)' < total'
        OBVIOUS
      <4>1. CASE x = w
        BY <3>4, <3>7, <4>1
      <4>2. CASE x # w
        <5>1. x \in Existing /\ Id(x)' = Id(x)
          BY <3>5, <4>2
        <5> QED BY <2>3, <2>4, <5>1
      <4> QED BY <4>1, <4>2
    <3> QED BY <2>1, <3>8, <3>9
  <2>9. \/ block' = block
        \/ \E f \in Files : Unlink(f)
        \/ \E f \in Files, i \in Idx : WriteBlock(f, i)
    BY DEF Next, vars, ReadBlock, Truncate, MakeDir, RemoveDir, TrimExpired
  <2> QED BY <2>6, <2>7, <2>8, <2>9
<1>3. Fresh => UniqueIds
  OBVIOUS
<1> QED BY <1>1, <1>2, <1>3, PTL
====
