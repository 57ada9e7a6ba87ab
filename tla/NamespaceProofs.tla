---- MODULE NamespaceProofs ----
(***************************************************************************)
(* Proofs about Namespace, for every number of threads, names, inodes and  *)
(* every size of the cache: the types, link counts, that nothing is lost   *)
(* and no pointer dangles while no two calls change one link count at      *)
(* once, and that the calls implement a tree of names.                     *)
(*                                                                         *)
(* A step of a thread is about one inode.  So the invariant is one of each *)
(* inode (InodeFine) and one of each call (CallFine), and a step has to be *)
(* looked at only where it happens: the lemmas Elsewhere and OtherFine     *)
(* take care of the other inodes and of the other calls.                   *)
(***************************************************************************)
EXTENDS Namespace, FunctionTheorems, FiniteSetTheorems, WellFoundedInduction, SequenceTheorems, TLAPS

----
(* The invariant *)

(* A directory's entries have different names. *)
Distinct(s) == \A j, k \in DOMAIN s : s[j].name = s[k].name => j = k

Entry(name, i) == [name |-> name, ino |-> i]

(* The places that lead to an inode; a free place. *)
places == [i \in Inodes |-> {p \in Places : Entry(p[2], i) \in ToSet(entries[p[1]])}]
Vacant(p) == \A i \in Inodes : p \notin places[i]

(* The types of all but the calls that came by another path, which change
   nothing: they have an invariant of their own. *)
StateTypes ==
  /\ inode \in [Inodes -> [kind : {"dir", "file", "unused", "freed"}, nlink : Int]]
  /\ entries \in [Inodes -> Seq(Entries)]
  /\ cached \subseteq Inodes /\ Cardinality(cached) <= CacheSize
  /\ DOMAIN call \subseteq Threads /\ Range(call) \subseteq Calls
  /\ raced \subseteq Inodes

AliasInv ==
  /\ aliased \in [DOMAIN aliased -> Inodes]
  /\ DOMAIN aliased \subseteq Threads \ DOMAIN call

TypeInv ==
  /\ StateTypes
  /\ call \in [DOMAIN call -> Calls]
  /\ \A d \in Inodes : Distinct(entries[d])

(* Inodes are used in order. *)
OrderInv == \E n \in Inodes : {i \in Inodes : inode[i].kind # "unused"} = 1..n

(* What calls in progress keep from each other, whatever the entries are. *)
Clear(c, e) ==
  /\ Changes(c) \cap Changes(e) = {}
  /\ Moves(c) /\ e.op \in {"link", "use"} => e.from # c.from

ApartInv ==
  \A t, u \in DOMAIN call : t # u => Clear(call[t], call[u])

(* Where a call is, its names are as it found or left them, and what it has
   loaded of nlink is still so. *)
Stages ==
  {<<"create", "append">>, <<"create", "cache">>, <<"link", "append">>, <<"link", "count">>,
   <<"unlink", "count">>, <<"unlink", "test">>, <<"rename", "take">>, <<"rename", "put">>,
   <<"rename", "touch">>, <<"use", "touch">>}

CallFine(c) ==
  /\ <<c.op, c.step>> \in Stages
  /\ c.op \in {"create", "unlink", "use"} => c.to = c.from
  /\ c.op \in {"link", "unlink", "use"} => inode[c.ino].kind # "dir"
  /\ c.step \in {"cache", "take"} \/ c.op \in {"link", "use"} => c.from \in places[c.ino]
  /\ <<c.op, c.step>> \in {<<"link", "count">>, <<"rename", "touch">>} => c.to \in places[c.ino]
  /\ c.step \in {"append", "take", "put"} => Vacant(c.to)
  /\ c.step = "count" /\ c.ino \notin raced => c.links = inode[c.ino].nlink
  /\ c.step = "test" /\ c.ino \notin raced => c.links = inode[c.ino].nlink + 1

CallInv == \A t \in DOMAIN call : CallFine(call[t])

(* The calls on i; those of them that are making it, have not given it their
   name yet, are at its nlink, or have it in hand; and the calls that nlink
   is behind. *)
On(i) == {t \in DOMAIN call : call[t].ino = i}
Making(i) == {t \in On(i) : call[t].op = "create" /\ call[t].step = "append"}
Appending(i) == {t \in On(i) : call[t].step = "append"}
Counting(i) == {t \in On(i) : call[t].step \in {"count", "test"}}
Putting(i) == {t \in On(i) : call[t].op = "rename" /\ call[t].step = "put"}
Dropping(i) == {t \in On(i) : call[t].op = "unlink" /\ call[t].step = "count"}
Linking(i) == {t \in On(i) : call[t].op = "link" /\ call[t].step = "count"}

(* What is not used yet is nowhere. *)
UnusedFine(i) ==
  inode[i].kind = "unused" => places[i] = {} /\ On(i) = {} /\ i \notin raced \cup cached

(* What is being made is known to its maker only. *)
MadeFine(i) ==
  \A t \in Making(i) :
    /\ On(i) = {t} /\ places[i] = {} /\ i \notin raced /\ Alive(i)
    /\ inode[i].kind = "file" => inode[i].nlink = 1

(* Only one call is at the nlink of a file that is not in raced. *)
AloneFine(i) == i \notin raced => \A t, u \in Counting(i) : t = u

(* A directory has one name. *)
DirFine(i) ==
  inode[i].kind = "dir" =>
    /\ i \notin raced
    /\ \A p, q \in places[i] : p = q
    /\ \A t, u \in Putting(i) : t = u
    /\ places[i] = {} \/ Putting(i) = {}

CountFine(i) ==
  i \notin raced /\ inode[i].kind = "file" /\ Making(i) = {} =>
    inode[i].nlink = Cardinality(places[i]) + Cardinality(Putting(i))
                     + Cardinality(Dropping(i)) - Cardinality(Linking(i))

HeldFine(i) ==
  i \notin raced /\ i # Root /\ Alive(i) =>
    places[i] # {} \/ Putting(i) # {} \/ Counting(i) # {} \/ Appending(i) # {}

PointerFine(i) ==
  /\ i \notin raced /\ (places[i] # {} \/ On(i) # {}) => Alive(i)
  /\ i \in cached => Alive(i)

InodeFine(i) ==
  /\ UnusedFine(i) /\ MadeFine(i) /\ AloneFine(i) /\ DirFine(i)
  /\ CountFine(i) /\ HeldFine(i) /\ PointerFine(i)

InodeInv == \A i \in Inodes : InodeFine(i)

Inv == TypeInv /\ OrderInv /\ ApartInv /\ CallInv /\ InodeInv

----
(* Lists of entries *)

(* Every nonempty set of naturals has a least element. *)
LEMMA NatMin ==
  ASSUME NEW T \in SUBSET Nat, T # {}
  PROVE  \E x \in T : \A y \in T : x <= y
<1> DEFINE Less == {p \in Nat \X Nat : p[1] < p[2]}
<1>1. IsWellFoundedOn(Less, Nat)
  BY NatLessThanWellFounded DEF OpToRel
<1> HIDE DEF Less
<1>2. PICK x \in T : \A y \in T : <<y, x>> \notin Less
  BY <1>1, WFMin
<1>3. \A y \in T : ~(y < x)
  BY <1>2 DEF Less
<1> QED BY <1>3

(* Find gives the position of an entry of this name, or 0. *)
LEMMA FindIn ==
  ASSUME NEW s \in Seq(Entries), NEW p \in Places, entries[p[1]] = s
  PROVE  \/ Find(p) = 0 /\ \A j \in DOMAIN s : s[j].name # p[2]
         \/ Find(p) \in DOMAIN s /\ s[Find(p)].name = p[2]
<1> DEFINE I == {j \in 1..Len(s) : s[j].name = p[2]}
<1>1. DOMAIN s = 1..Len(s) /\ Len(s) \in Nat BY LenProperties
<1>2. Find(p) = IF I # {} THEN Min(I) ELSE 0
  BY DEF Find, SelectInSeq
<1>3. CASE I = {}
  BY <1>1, <1>2, <1>3
<1>4. CASE I # {}
  <2>1. I \in SUBSET Nat BY <1>1
  <2> HIDE DEF I
  <2>2. \E j \in I : \A k \in I : j <= k BY <2>1, <1>4, NatMin
  <2>3. Min(I) \in I BY <2>2 DEF Min
  <2>4. Find(p) \in I BY <2>3, <1>2, <1>4
  <2> QED BY <2>4, <1>1 DEF I
<1> QED BY <1>3, <1>4

(* An entry of a new name at the end, ... *)
LEMMA AppendAdds ==
  ASSUME NEW s \in Seq(Entries), Distinct(s), NEW e \in Entries,
         \A j \in DOMAIN s : s[j].name # e.name
  PROVE  /\ Append(s, e) \in Seq(Entries) /\ Distinct(Append(s, e))
         /\ ToSet(Append(s, e)) = ToSet(s) \cup {e}
<1> DEFINE r == Append(s, e)
<1>1. DOMAIN s = 1..Len(s) /\ Len(s) \in Nat BY LenProperties
<1>2. /\ r \in Seq(Entries) /\ Len(r) = Len(s) + 1
      /\ \A j \in 1..Len(s) : r[j] = s[j]
      /\ r[Len(s) + 1] = e
  BY AppendProperties
<1>3. DOMAIN r = 1..(Len(s) + 1) BY <1>2, LenProperties
<1> HIDE DEF r
<1>4. Distinct(r)
  <2> SUFFICES ASSUME NEW j \in DOMAIN r, NEW k \in DOMAIN r, r[j].name = r[k].name
               PROVE  j = k
    BY DEF Distinct
  <2>1. j \in 1..Len(s) \/ j = Len(s) + 1 BY <1>1, <1>3
  <2>2. k \in 1..Len(s) \/ k = Len(s) + 1 BY <1>1, <1>3
  <2> QED BY <2>1, <2>2, <1>1, <1>2 DEF Distinct
<1>5. ToSet(r) = ToSet(s) \cup {e}
  <2>1. \A j \in DOMAIN r : r[j] = e \/ \E k \in DOMAIN s : r[j] = s[k]
    <3> TAKE j \in DOMAIN r
    <3>1. j \in 1..Len(s) \/ j = Len(s) + 1 BY <1>1, <1>3
    <3> QED BY <3>1, <1>1, <1>2
  <2>2. \A k \in DOMAIN s : k \in DOMAIN r /\ r[k] = s[k] BY <1>1, <1>2, <1>3
  <2>3. Len(s) + 1 \in DOMAIN r BY <1>1, <1>3
  <2> QED BY <2>1, <2>2, <2>3, <1>2 DEF ToSet
<1> QED BY <1>2, <1>4, <1>5 DEF r

(* ... or in front. *)
LEMMA ConsAdds ==
  ASSUME NEW s \in Seq(Entries), Distinct(s), NEW e \in Entries,
         \A j \in DOMAIN s : s[j].name # e.name
  PROVE  /\ Cons(e, s) \in Seq(Entries) /\ Distinct(Cons(e, s))
         /\ ToSet(Cons(e, s)) = ToSet(s) \cup {e}
<1> DEFINE r == Cons(e, s)
<1>1. DOMAIN s = 1..Len(s) /\ Len(s) \in Nat BY LenProperties
<1>2. /\ r \in Seq(Entries) /\ Len(r) = 1 + Len(s)
      /\ r[1] = e
      /\ \A j \in 2..(Len(s) + 1) : r[j] = s[j - 1]
  <2>1. <<e>> \in Seq(Entries) /\ Len(<<e>>) = 1 /\ <<e>>[1] = e OBVIOUS
  <2>2. /\ <<e>> \o s \in Seq(Entries)
        /\ Len(<<e>> \o s) = Len(<<e>>) + Len(s)
        /\ \A j \in 1..(Len(<<e>>) + Len(s)) : (<<e>> \o s)[j] =
             IF j <= Len(<<e>>) THEN <<e>>[j] ELSE s[j - Len(<<e>>)]
    BY <2>1, ConcatProperties
  <2>3. r = <<e>> \o s BY DEF Cons
  <2> HIDE DEF r
  <2>4. \A j \in 1..(1 + Len(s)) : r[j] = IF j <= 1 THEN <<e>>[j] ELSE s[j - 1]
    BY <2>1, <2>2, <2>3
  <2>5. r[1] = e BY <2>4, <2>1, <1>1
  <2>6. \A j \in 2..(Len(s) + 1) : r[j] = s[j - 1] BY <2>4, <1>1
  <2> QED BY <2>1, <2>2, <2>3, <2>5, <2>6
<1>3. DOMAIN r = 1..(Len(s) + 1) BY <1>1, <1>2, LenProperties
<1> HIDE DEF r
<1>4. Distinct(r)
  <2> SUFFICES ASSUME NEW j \in DOMAIN r, NEW k \in DOMAIN r, r[j].name = r[k].name
               PROVE  j = k
    BY DEF Distinct
  <2>1. j = 1 \/ (j \in 2..(Len(s) + 1) /\ j - 1 \in DOMAIN s) BY <1>1, <1>3
  <2>2. k = 1 \/ (k \in 2..(Len(s) + 1) /\ k - 1 \in DOMAIN s) BY <1>1, <1>3
  <2>3. CASE j = 1 \/ k = 1 BY <2>1, <2>2, <2>3, <1>2
  <2>4. CASE j # 1 /\ k # 1
    <3>1. j - 1 = k - 1 BY <2>1, <2>2, <2>4, <1>2 DEF Distinct
    <3> QED BY <3>1, <2>1, <2>2, <2>4, <1>1
  <2> QED BY <2>3, <2>4
<1>5. ToSet(r) = ToSet(s) \cup {e}
  <2>1. \A j \in DOMAIN r : r[j] = e \/ \E k \in DOMAIN s : r[j] = s[k]
    <3> TAKE j \in DOMAIN r
    <3>1. j = 1 \/ (j \in 2..(Len(s) + 1) /\ j - 1 \in DOMAIN s) BY <1>1, <1>3
    <3> QED BY <3>1, <1>2
  <2>2. \A k \in DOMAIN s : k + 1 \in DOMAIN r /\ r[k + 1] = s[k]
    <3> TAKE k \in DOMAIN s
    <3>1. k + 1 \in 2..(Len(s) + 1) /\ (k + 1) - 1 = k BY <1>1
    <3> QED BY <3>1, <1>1, <1>2, <1>3
  <2>3. 1 \in DOMAIN r /\ r[1] = e BY <1>1, <1>2, <1>3
  <2>4. ToSet(r) \subseteq ToSet(s) \cup {e} BY <2>1 DEF ToSet
  <2>5. ToSet(s) \subseteq ToSet(r) BY <2>2 DEF ToSet
  <2>6. e \in ToSet(r) BY <2>3 DEF ToSet
  <2> QED BY <2>4, <2>5, <2>6
<1> QED BY <1>2, <1>4, <1>5 DEF r

(* An entry less. *)
LEMMA RemoveTakes ==
  ASSUME NEW s \in Seq(Entries), Distinct(s), NEW m \in DOMAIN s
  PROVE  /\ RemoveAt(s, m) \in Seq(Entries) /\ Distinct(RemoveAt(s, m))
         /\ ToSet(RemoveAt(s, m)) = ToSet(s) \ {s[m]}
<1> DEFINE a == SubSeq(s, 1, m - 1)
           b == SubSeq(s, m + 1, Len(s))
           r == RemoveAt(s, m)
<1>1. DOMAIN s = 1..Len(s) /\ Len(s) \in Nat /\ m \in 1..Len(s) BY LenProperties
<1>2. \A j \in DOMAIN s : s[j] \in Entries BY <1>1, ElementOfSeq
<1>3. /\ a \in Seq(Entries) /\ Len(a) = m - 1
      /\ \A j \in 1..(m - 1) : a[j] = s[j]
  <2>1. \A j \in 1..(m - 1) : s[j] \in Entries BY <1>1, <1>2
  <2>2. /\ a \in Seq(Entries)
        /\ Len(a) = IF 1 <= m - 1 THEN (m - 1) - 1 + 1 ELSE 0
        /\ \A j \in 1..((m - 1) - 1 + 1) : a[j] = s[1 + j - 1]
    BY <2>1, <1>1, SubSeqProperties
  <2> HIDE DEF a
  <2> QED BY <2>2, <1>1
<1>4. /\ b \in Seq(Entries) /\ Len(b) = Len(s) - m
      /\ \A j \in 1..(Len(s) - m) : b[j] = s[m + j]
  <2>1. \A j \in (m + 1)..Len(s) : s[j] \in Entries BY <1>1, <1>2
  <2>2. /\ b \in Seq(Entries)
        /\ Len(b) = IF m + 1 <= Len(s) THEN Len(s) - (m + 1) + 1 ELSE 0
        /\ \A j \in 1..(Len(s) - (m + 1) + 1) : b[j] = s[(m + 1) + j - 1]
    BY <2>1, <1>1, SubSeqProperties
  <2> HIDE DEF b
  <2>3. Len(b) = Len(s) - m BY <2>2, <1>1
  <2>4. ASSUME NEW j \in 1..(Len(s) - m) PROVE b[j] = s[m + j]
    <3>1. j \in 1..(Len(s) - (m + 1) + 1) /\ (m + 1) + j - 1 = m + j BY <1>1
    <3>2. b[j] = s[(m + 1) + j - 1] BY <2>2, <3>1
    <3> QED BY <3>1, <3>2
  <2> QED BY <2>2, <2>3, <2>4
<1>5. r = a \o b BY DEF RemoveAt
<1> HIDE DEF a, b, r
<1>6. /\ r \in Seq(Entries) /\ Len(r) = Len(s) - 1
      /\ \A j \in 1..(Len(s) - 1) : r[j] = IF j < m THEN s[j] ELSE s[j + 1]
  <2>1. /\ r \in Seq(Entries)
        /\ Len(r) = Len(a) + Len(b)
        /\ \A j \in 1..(Len(a) + Len(b)) : r[j] =
             IF j <= Len(a) THEN a[j] ELSE b[j - Len(a)]
    BY <1>3, <1>4, <1>5, ConcatProperties
  <2>2. Len(a) + Len(b) = Len(s) - 1 BY <1>1, <1>3, <1>4
  <2>3. ASSUME NEW j \in 1..(Len(s) - 1) PROVE r[j] = IF j < m THEN s[j] ELSE s[j + 1]
    <3>1. CASE j < m
      <4>1. j \in 1..(m - 1) /\ j <= Len(a) BY <3>1, <1>1, <1>3
      <4>2. r[j] = a[j] BY <4>1, <2>1, <2>2
      <4> QED BY <4>1, <4>2, <3>1, <1>3
    <3>2. CASE ~(j < m)
      <4>1. ~(j <= Len(a)) /\ j - Len(a) \in 1..(Len(s) - m) /\ m + (j - Len(a)) = j + 1
        BY <3>2, <1>1, <1>3
      <4>2. r[j] = b[j - Len(a)] BY <4>1, <2>1, <2>2
      <4>3. b[j - Len(a)] = s[m + (j - Len(a))] BY <4>1, <1>4
      <4> QED BY <4>1, <4>2, <4>3, <3>2
    <3> QED BY <3>1, <3>2
  <2> QED BY <2>1, <2>2, <2>3
<1>7. DOMAIN r = 1..(Len(s) - 1) BY <1>6, LenProperties
<1>8. Distinct(r)
  <2> SUFFICES ASSUME NEW j \in DOMAIN r, NEW k \in DOMAIN r, r[j].name = r[k].name
               PROVE  j = k
    BY DEF Distinct
  <2>1. j \in Nat /\ k \in Nat /\ j \in DOMAIN s /\ k \in DOMAIN s
        /\ j + 1 \in DOMAIN s /\ k + 1 \in DOMAIN s
    BY <1>1, <1>7
  <2>2. r[j] = (IF j < m THEN s[j] ELSE s[j + 1]) /\ r[k] = (IF k < m THEN s[k] ELSE s[k + 1])
    BY <1>6, <1>7
  <2>3. (IF j < m THEN j ELSE j + 1) = (IF k < m THEN k ELSE k + 1)
    <3>1. \A x, y \in DOMAIN s : s[x].name = s[y].name => x = y BY DEF Distinct
    <3>2. CASE j < m /\ k < m BY <3>1, <3>2, <2>1, <2>2
    <3>3. CASE j < m /\ ~(k < m) BY <3>1, <3>3, <2>1, <2>2
    <3>4. CASE ~(j < m) /\ k < m BY <3>1, <3>4, <2>1, <2>2
    <3>5. CASE ~(j < m) /\ ~(k < m) BY <3>1, <3>5, <2>1, <2>2
    <3> QED BY <3>2, <3>3, <3>4, <3>5
  <2> QED BY <2>1, <2>3, <1>1
<1>9. ToSet(r) = ToSet(s) \ {s[m]}
  <2>1. ASSUME NEW j \in DOMAIN r
        PROVE  \E k \in DOMAIN s : k # m /\ r[j] = s[k]
    <3>1. CASE j < m
      <4>1. j \in DOMAIN s /\ j # m /\ r[j] = s[j] BY <3>1, <1>1, <1>6, <1>7
      <4> QED BY <4>1
    <3>2. CASE ~(j < m)
      <4>1. j + 1 \in DOMAIN s /\ j + 1 # m /\ r[j] = s[j + 1] BY <3>2, <1>1, <1>6, <1>7
      <4> QED BY <4>1
    <3> QED BY <3>1, <3>2
  <2>2. ASSUME NEW k \in DOMAIN s, k # m
        PROVE  \E j \in DOMAIN r : r[j] = s[k]
    <3>1. CASE k < m
      <4>1. k \in DOMAIN r /\ r[k] = s[k] BY <3>1, <1>1, <1>6, <1>7
      <4> QED BY <4>1
    <3>2. CASE ~(k < m)
      <4>1. k - 1 \in 1..(Len(s) - 1) /\ ~(k - 1 < m) /\ (k - 1) + 1 = k
        BY <3>2, <2>2, <1>1
      <4>2. r[k - 1] = s[k] BY <4>1, <1>6
      <4> QED BY <4>1, <4>2, <1>7
    <3> QED BY <3>1, <3>2
  <2>3. \A k \in DOMAIN s : k # m => s[k] # s[m] BY DEF Distinct
  <2> QED BY <2>1, <2>2, <2>3 DEF ToSet
<1> QED BY <1>6, <1>8, <1>9 DEF r

(* An entry with a new name. *)
LEMMA RenameChanges ==
  ASSUME NEW s \in Seq(Entries), Distinct(s), NEW m \in DOMAIN s, NEW n \in Names,
         \A j \in DOMAIN s : s[j].name # n
  PROVE  /\ [s EXCEPT ![m].name = n] \in Seq(Entries)
         /\ Distinct([s EXCEPT ![m].name = n])
         /\ ToSet([s EXCEPT ![m].name = n]) = (ToSet(s) \ {s[m]}) \cup {Entry(n, s[m].ino)}
<1> DEFINE e == Entry(n, s[m].ino)
           r == [s EXCEPT ![m] = e]
<1>1. DOMAIN s = 1..Len(s) /\ Len(s) \in Nat BY LenProperties
<1>2. s[m] \in Entries BY <1>1, ElementOfSeq
<1>3. e \in Entries /\ e.name = n BY <1>2 DEF Entry, Entries
<1>4. [s EXCEPT ![m].name = n] = r
  <2>1. [s[m] EXCEPT !.name = n] = e BY <1>2 DEF Entry, Entries
  <2> QED BY <2>1
<1> HIDE DEF e
<1>5. /\ r \in Seq(Entries) /\ Len(r) = Len(s)
      /\ \A j \in 1..Len(s) : r[j] = IF j = m THEN e ELSE s[j]
  BY <1>1, <1>3, ExceptSeq
<1>6. DOMAIN r = DOMAIN s OBVIOUS
<1> HIDE DEF r
<1>7. Distinct(r)
  <2> SUFFICES ASSUME NEW j \in DOMAIN r, NEW k \in DOMAIN r, r[j].name = r[k].name
               PROVE  j = k
    BY DEF Distinct
  <2>1. r[j] = (IF j = m THEN e ELSE s[j]) /\ r[k] = (IF k = m THEN e ELSE s[k])
    BY <1>1, <1>5, <1>6
  <2>2. j \in DOMAIN s /\ k \in DOMAIN s BY <1>6
  <2> QED BY <2>1, <2>2, <1>3 DEF Distinct
<1>8. ToSet(r) = (ToSet(s) \ {s[m]}) \cup {e}
  <2>1. \A j \in DOMAIN s : r[j] = IF j = m THEN e ELSE s[j] BY <1>1, <1>5
  <2>2. \A k \in DOMAIN s : k # m => s[k] # s[m] BY DEF Distinct
  <2> QED BY <2>1, <2>2, <1>6 DEF ToSet
<1> QED BY <1>4, <1>5, <1>7, <1>8 DEF e

----
(* Places *)

LEMMA InPlace ==
  \A i \in Inodes, p \in Places :
    p \in places[i] <=> Entry(p[2], i) \in ToSet(entries[p[1]])
BY DEF places

LEMMA PlacesType ==
  ASSUME TypeInv
  PROVE  /\ places \in [Inodes -> SUBSET Places]
         /\ \A i, j \in Inodes, p \in Places : p \in places[i] /\ p \in places[j] => i = j
         /\ \A i \in Inodes : IsFiniteSet(places[i])
<1>1. places \in [Inodes -> SUBSET Places] BY DEF places
<1>2. ASSUME NEW i \in Inodes, NEW j \in Inodes, NEW p \in Places,
             p \in places[i], p \in places[j]
      PROVE  i = j
  <2>1. PICK m \in DOMAIN entries[p[1]] : entries[p[1]][m] = Entry(p[2], i)
    BY <1>2, InPlace DEF ToSet
  <2>2. PICK n \in DOMAIN entries[p[1]] : entries[p[1]][n] = Entry(p[2], j)
    BY <1>2, InPlace DEF ToSet
  <2>3. m = n BY <2>1, <2>2 DEF TypeInv, Distinct, Entry, Places
  <2> QED BY <2>1, <2>2, <2>3 DEF Entry
<1>3. IsFiniteSet(Places)
  <2>1. IsFiniteSet(Inodes) BY FS_Interval, NamespaceAssumption DEF Inodes
  <2> QED BY <2>1, FS_Product, NamespaceAssumption DEF Places
<1>4. \A i \in Inodes : IsFiniteSet(places[i])
  <2> TAKE i \in Inodes
  <2>1. places[i] \in SUBSET Places BY <1>1
  <2> QED BY <2>1, <1>3, FS_Subset
<1> QED BY <1>1, <1>2, <1>4

(* What a look-up gives. *)
LEMMA FindPlace ==
  ASSUME TypeInv, NEW p \in Places
  PROVE  /\ Taken(p) => /\ Find(p) \in DOMAIN entries[p[1]]
                        /\ Target(p) \in Inodes
                        /\ entries[p[1]][Find(p)] = Entry(p[2], Target(p))
                        /\ p \in places[Target(p)]
         /\ ~Taken(p) <=> Vacant(p)
<1> DEFINE s == entries[p[1]]
<1>1. s \in Seq(Entries) /\ p[1] \in Inodes /\ p[2] \in Names BY DEF TypeInv, StateTypes, Places
<1>2. DOMAIN s = 1..Len(s) /\ \A j \in DOMAIN s : s[j] \in Entries
  BY <1>1, LenProperties, ElementOfSeq
<1>3. \/ Find(p) = 0 /\ \A j \in DOMAIN s : s[j].name # p[2]
      \/ Find(p) \in DOMAIN s /\ s[Find(p)].name = p[2]
  BY <1>1, FindIn
<1>4. ASSUME Taken(p)
      PROVE  /\ Find(p) \in DOMAIN s /\ Target(p) \in Inodes
             /\ s[Find(p)] = Entry(p[2], Target(p)) /\ p \in places[Target(p)]
  <2>1. Find(p) \in DOMAIN s /\ s[Find(p)].name = p[2] BY <1>3, <1>4 DEF Taken
  <2>2. s[Find(p)] \in Entries BY <2>1, <1>2
  <2>3. Target(p) = s[Find(p)].ino BY DEF Target
  <2>4. Target(p) \in Inodes /\ s[Find(p)] = Entry(p[2], Target(p))
    BY <2>1, <2>2, <2>3 DEF Entries, Entry
  <2>5. p \in places[Target(p)] BY <2>1, <2>4, InPlace DEF ToSet
  <2> QED BY <2>1, <2>4, <2>5
<1>5. ASSUME ~Taken(p) PROVE Vacant(p)
  <2>1. \A j \in DOMAIN s : s[j].name # p[2] BY <1>2, <1>3, <1>5 DEF Taken
  <2>2. \A i \in Inodes : Entry(p[2], i) \notin ToSet(s) BY <2>1 DEF ToSet, Entry
  <2> QED BY <2>2, InPlace DEF Vacant
<1>6. Taken(p) => ~Vacant(p) BY <1>4 DEF Vacant
<1> QED BY <1>4, <1>5, <1>6

LEMMA VacantNames ==
  ASSUME TypeInv, NEW p \in Places, Vacant(p)
  PROVE  \A j \in DOMAIN entries[p[1]] : entries[p[1]][j].name # p[2]
<1> DEFINE s == entries[p[1]]
<1> SUFFICES ASSUME NEW j \in DOMAIN s, s[j].name = p[2] PROVE FALSE
  OBVIOUS
<1>1. s \in Seq(Entries) BY DEF TypeInv, StateTypes, Places
<1>2. s[j] \in Entries BY <1>1, LenProperties, ElementOfSeq
<1>3. s[j].ino \in Inodes /\ s[j] = Entry(p[2], s[j].ino) BY <1>2 DEF Entries, Entry
<1>4. p \in places[s[j].ino] BY <1>3, InPlace DEF ToSet
<1> QED BY <1>3, <1>4 DEF Vacant

(* A change of one list. *)
LEMMA ListChanged ==
  ASSUME TypeInv, NEW d \in Inodes, NEW r \in Seq(Entries), Distinct(r),
         entries' = [entries EXCEPT ![d] = r]
  PROVE  /\ entries' \in [Inodes -> Seq(Entries)]
         /\ \A x \in Inodes : Distinct(entries'[x])
         /\ \A i \in Inodes, p \in Places :
              p \in places'[i] <=> IF p[1] = d THEN Entry(p[2], i) \in ToSet(r)
                                               ELSE p \in places[i]
<1>1. entries \in [Inodes -> Seq(Entries)] BY DEF TypeInv, StateTypes
<1>2. entries' \in [Inodes -> Seq(Entries)] BY <1>1
<1>3. \A x \in Inodes : Distinct(entries'[x]) BY <1>1 DEF TypeInv
<1>4. \A i \in Inodes, p \in Places :
        p \in places'[i] <=> Entry(p[2], i) \in ToSet(entries'[p[1]])
  BY DEF places
<1>5. \A p \in Places : p[1] \in Inodes /\ entries'[p[1]] = IF p[1] = d THEN r ELSE entries[p[1]]
  BY <1>1 DEF Places
<1> QED BY <1>2, <1>3, <1>4, <1>5, InPlace

(* An entry more, ... *)
LEMMA Added ==
  ASSUME TypeInv, NEW p \in Places, NEW i \in Inodes, Vacant(p),
         \/ entries' = [entries EXCEPT ![p[1]] = Append(@, Entry(p[2], i))]
         \/ entries' = [entries EXCEPT ![p[1]] = Cons(Entry(p[2], i), @)]
  PROVE  /\ entries' \in [Inodes -> Seq(Entries)]
         /\ \A x \in Inodes : Distinct(entries'[x])
         /\ places' = [places EXCEPT ![i] = @ \cup {p}]
<1> DEFINE s == entries[p[1]]
           e == Entry(p[2], i)
<1>1. s \in Seq(Entries) /\ Distinct(s) /\ p[1] \in Inodes /\ p[2] \in Names /\ p = <<p[1], p[2]>>
  BY DEF TypeInv, StateTypes, Places
<1>2. e \in Entries /\ e.name = p[2] BY <1>1 DEF Entries, Entry
<1>3. \A j \in DOMAIN s : s[j].name # e.name BY <1>2, VacantNames
<1>4. PICK r \in Seq(Entries) : /\ Distinct(r) /\ ToSet(r) = ToSet(s) \cup {e}
                                /\ entries' = [entries EXCEPT ![p[1]] = r]
  <2> HIDE DEF e
  <2>1. CASE entries' = [entries EXCEPT ![p[1]] = Append(@, e)]
    <3>1. entries' = [entries EXCEPT ![p[1]] = Append(s, e)] BY <2>1
    <3> QED BY <3>1, <1>1, <1>2, <1>3, AppendAdds
  <2>2. CASE entries' = [entries EXCEPT ![p[1]] = Cons(e, @)]
    <3>1. entries' = [entries EXCEPT ![p[1]] = Cons(e, s)] BY <2>2
    <3> QED BY <3>1, <1>1, <1>2, <1>3, ConsAdds
  <2> QED BY <2>1, <2>2 DEF e
<1>5. /\ entries' \in [Inodes -> Seq(Entries)]
      /\ \A x \in Inodes : Distinct(entries'[x])
      /\ \A j \in Inodes, q \in Places :
           q \in places'[j] <=> IF q[1] = p[1] THEN Entry(q[2], j) \in ToSet(r)
                                               ELSE q \in places[j]
  BY <1>1, <1>4, ListChanged
<1>6. ASSUME NEW j \in Inodes, NEW q \in Places
      PROVE  q \in places'[j] <=> q \in places[j] \/ (q = p /\ j = i)
  <2>1. q = <<q[1], q[2]>> BY DEF Places
  <2>2. CASE q[1] = p[1]
    <3>1. Entry(q[2], j) = e <=> q[2] = p[2] /\ j = i BY DEF Entry
    <3> QED BY <2>1, <2>2, <3>1, <1>1, <1>4, <1>5, InPlace
  <2>3. CASE q[1] # p[1]
    BY <2>3, <1>5
  <2> QED BY <2>2, <2>3
<1>7. places' \in [Inodes -> SUBSET Places] BY DEF places
<1>8. places \in [Inodes -> SUBSET Places] BY DEF places
<1>9. \A j \in Inodes : places'[j] = [places EXCEPT ![i] = @ \cup {p}][j]
  BY <1>6, <1>7, <1>8
<1> QED BY <1>5, <1>7, <1>8, <1>9

(* ... and one less. *)
LEMMA Removed ==
  ASSUME TypeInv, NEW p \in Places, Taken(p),
         entries' = [entries EXCEPT ![p[1]] = RemoveAt(@, Find(p))]
  PROVE  /\ entries' \in [Inodes -> Seq(Entries)]
         /\ \A x \in Inodes : Distinct(entries'[x])
         /\ places' = [places EXCEPT ![Target(p)] = @ \ {p}]
<1> DEFINE s == entries[p[1]]
           r == RemoveAt(s, Find(p))
           i == Target(p)
<1>1. s \in Seq(Entries) /\ Distinct(s) /\ p[1] \in Inodes /\ p[2] \in Names /\ p = <<p[1], p[2]>>
  BY DEF TypeInv, StateTypes, Places
<1>2. Find(p) \in DOMAIN s /\ i \in Inodes /\ s[Find(p)] = Entry(p[2], i) BY FindPlace
<1>3. r \in Seq(Entries) /\ Distinct(r) /\ ToSet(r) = ToSet(s) \ {Entry(p[2], i)}
  BY <1>1, <1>2, RemoveTakes
<1>4. entries' = [entries EXCEPT ![p[1]] = r] OBVIOUS
<1> HIDE DEF r, i
<1>5. /\ entries' \in [Inodes -> Seq(Entries)]
      /\ \A x \in Inodes : Distinct(entries'[x])
      /\ \A j \in Inodes, q \in Places :
           q \in places'[j] <=> IF q[1] = p[1] THEN Entry(q[2], j) \in ToSet(r)
                                               ELSE q \in places[j]
  BY <1>1, <1>3, <1>4, ListChanged
<1>6. ASSUME NEW j \in Inodes, NEW q \in Places
      PROVE  q \in places'[j] <=> q \in places[j] /\ ~(q = p /\ j = i)
  <2>1. q = <<q[1], q[2]>> BY DEF Places
  <2>2. CASE q[1] = p[1]
    <3>1. Entry(q[2], j) = Entry(p[2], i) <=> q[2] = p[2] /\ j = i BY DEF Entry
    <3> QED BY <2>1, <2>2, <3>1, <1>1, <1>3, <1>5, InPlace
  <2>3. CASE q[1] # p[1]
    BY <2>3, <1>5
  <2> QED BY <2>2, <2>3
<1>7. places' \in [Inodes -> SUBSET Places] BY DEF places
<1>8. places \in [Inodes -> SUBSET Places] BY DEF places
<1>9. \A j \in Inodes : places'[j] = [places EXCEPT ![i] = @ \ {p}][j]
  BY <1>2, <1>6, <1>7, <1>8
<1> QED BY <1>5, <1>7, <1>8, <1>9 DEF i

(* An entry renamed in its list. *)
LEMMA Renamed ==
  ASSUME TypeInv, NEW p \in Places, NEW q \in Places, Taken(p), Vacant(q), p[1] = q[1],
         entries' = [entries EXCEPT ![p[1]][Find(p)].name = q[2]]
  PROVE  /\ entries' \in [Inodes -> Seq(Entries)]
         /\ \A x \in Inodes : Distinct(entries'[x])
         /\ places' = [places EXCEPT ![Target(p)] = (@ \ {p}) \cup {q}]
<1> DEFINE s == entries[p[1]]
           r == [s EXCEPT ![Find(p)].name = q[2]]
           i == Target(p)
<1>1. /\ s \in Seq(Entries) /\ Distinct(s) /\ p[1] \in Inodes /\ q[2] \in Names
      /\ p = <<p[1], p[2]>> /\ q = <<q[1], q[2]>>
  BY DEF TypeInv, StateTypes, Places
<1>2. Find(p) \in DOMAIN s /\ i \in Inodes /\ s[Find(p)] = Entry(p[2], i) BY FindPlace
<1>3. \A j \in DOMAIN s : s[j].name # q[2] BY VacantNames
<1>4. /\ r \in Seq(Entries) /\ Distinct(r)
      /\ ToSet(r) = (ToSet(s) \ {Entry(p[2], i)}) \cup {Entry(q[2], i)}
  <2>1. s[Find(p)].ino = i BY DEF Target
  <2> QED BY <2>1, <1>1, <1>2, <1>3, RenameChanges
<1>5. entries' = [entries EXCEPT ![p[1]] = r] OBVIOUS
<1> HIDE DEF r, i
<1>6. /\ entries' \in [Inodes -> Seq(Entries)]
      /\ \A x \in Inodes : Distinct(entries'[x])
      /\ \A j \in Inodes, x \in Places :
           x \in places'[j] <=> IF x[1] = p[1] THEN Entry(x[2], j) \in ToSet(r)
                                               ELSE x \in places[j]
  BY <1>1, <1>4, <1>5, ListChanged
<1>7. ASSUME NEW j \in Inodes, NEW x \in Places
      PROVE  x \in places'[j] <=> (x \in places[j] /\ ~(x = p /\ j = i)) \/ (x = q /\ j = i)
  <2>1. x = <<x[1], x[2]>> BY DEF Places
  <2>2. CASE x[1] = p[1]
    <3>1. Entry(x[2], j) = Entry(p[2], i) <=> x[2] = p[2] /\ j = i BY DEF Entry
    <3>2. Entry(x[2], j) = Entry(q[2], i) <=> x[2] = q[2] /\ j = i BY DEF Entry
    <3> QED BY <2>1, <2>2, <3>1, <3>2, <1>1, <1>4, <1>6, InPlace
  <2>3. CASE x[1] # p[1]
    BY <2>3, <1>6
  <2> QED BY <2>2, <2>3
<1>8. places' \in [Inodes -> SUBSET Places] BY DEF places
<1>9. places \in [Inodes -> SUBSET Places] BY DEF places
<1>10. \A j \in Inodes : places'[j] = [places EXCEPT ![i] = (@ \ {p}) \cup {q}][j]
  BY <1>2, <1>7, <1>8, <1>9
<1> QED BY <1>6, <1>8, <1>9, <1>10 DEF i

(* Each place of an inode is one entry. *)
LEMMA OccurrencesCounted ==
  ASSUME TypeInv, NEW i \in Inodes
  PROVE  Cardinality(Occurrences(i)) = Cardinality(places[i])
<1> DEFINE O == Occurrences(i)
           P == places[i]
           f == [x \in O |-> <<x[1], entries[x[1]][x[2]].name>>]
<1>1. \A d \in Inodes : /\ entries[d] \in Seq(Entries) /\ Distinct(entries[d])
                        /\ \A j \in DOMAIN entries[d] : entries[d][j] \in Entries
  BY LenProperties, ElementOfSeq DEF TypeInv, StateTypes
<1>2. \A x : x \in O <=> /\ x = <<x[1], x[2]>> /\ x[1] \in Inodes /\ x[2] \in DOMAIN entries[x[1]]
                         /\ entries[x[1]][x[2]].ino = i
  BY DEF Occurrences
<1>3. \A x \in O : f[x] \in P
  <2> TAKE x \in O
  <2>1. entries[x[1]][x[2]] \in Entries BY <1>1, <1>2
  <2>2. f[x] \in Places BY <2>1, <1>2 DEF Places, Entries
  <2>3. entries[x[1]][x[2]] = Entry(f[x][2], i) BY <2>1, <1>2 DEF Entry, Entries
  <2>4. f[x][1] = x[1] OBVIOUS
  <2> QED BY <2>2, <2>3, <2>4, <1>2, InPlace DEF ToSet
<1>4. \A x, y \in O : f[x] = f[y] => x = y
  <2> SUFFICES ASSUME NEW x \in O, NEW y \in O, f[x] = f[y] PROVE x = y
    OBVIOUS
  <2>1. x[1] = y[1] /\ entries[x[1]][x[2]].name = entries[y[1]][y[2]].name OBVIOUS
  <2>2. x[2] = y[2] BY <2>1, <1>1, <1>2 DEF Distinct
  <2> QED BY <2>1, <2>2, <1>2
<1>5. \A p \in P : \E x \in O : f[x] = p
  <2> TAKE p \in P
  <2>1. p \in Places /\ p = <<p[1], p[2]>> /\ p[1] \in Inodes BY PlacesType DEF Places
  <2>2. PICK j \in DOMAIN entries[p[1]] : entries[p[1]][j] = Entry(p[2], i)
    BY <2>1, InPlace DEF ToSet
  <2>3. <<p[1], j>> \in O BY <2>1, <2>2, <1>2 DEF Entry
  <2>4. f[<<p[1], j>>] = p BY <2>1, <2>2, <2>3 DEF Entry
  <2> QED BY <2>3, <2>4
<1> HIDE DEF O, P, f
<1>6. ExistsBijection(O, P)
  <2>1. f \in [O -> P] BY <1>3 DEF f
  <2>2. f \in Bijection(O, P)
    BY <2>1, <1>4, <1>5 DEF Bijection, Injection, Surjection, IsInjective
  <2> QED BY <2>2 DEF ExistsBijection
<1>7. IsFiniteSet(P) BY PlacesType DEF P
<1>8. ExistsBijection(P, O) BY <1>6, Fun_ExistsBijSymmetric
<1> QED BY <1>7, <1>8, FS_Bijection DEF O, P

----
(* Steps *)

(* What a step of t leaves alone that is about inode k: the other calls and
   the other inodes. *)
Others(t) ==
  /\ DOMAIN call' \ {t} = DOMAIN call \ {t}
  /\ \A u \in DOMAIN call \ {t} : call'[u] = call[u]

About(t, k) ==
  /\ Others(t)
  /\ t \in DOMAIN call => call[t].ino = k
  /\ t \in DOMAIN call' => call'[t].ino = k
  /\ \A j \in Inodes \ {k} :
       /\ inode'[j] = inode[j] /\ places'[j] = places[j]
       /\ j \in raced' <=> j \in raced
       /\ j \in cached' => j \in cached

(* The entry list has not changed, nor then have the places. *)
LEMMA SamePlaces == UNCHANGED entries => UNCHANGED places
BY DEF places

LEMMA CallTypes ==
  ASSUME TypeInv
  PROVE  /\ call \in [DOMAIN call -> Calls] /\ DOMAIN call \subseteq Threads
         /\ \A t \in DOMAIN call : call[t] \in Calls
BY DEF TypeInv, StateTypes

(* A call comes in, goes on, and returns. *)
LEMMA Entered ==
  ASSUME TypeInv, NEW t \in Threads, t \notin DOMAIN call, NEW c \in Calls, Enter(t, c)
  PROVE  /\ call' \in [DOMAIN call' -> Calls] /\ DOMAIN call' \subseteq Threads
         /\ Range(call') \subseteq Calls
         /\ Others(t) /\ t \in DOMAIN call' /\ call'[t] = c
<1>1. /\ DOMAIN call' = DOMAIN call \cup {t}
      /\ \A u \in DOMAIN call \cup {t} : call'[u] = IF u = t THEN c ELSE call[u]
  BY DEF Enter
<1>2. call' \in [DOMAIN call' -> Calls] BY CallTypes DEF Enter
<1>3. Range(call') \subseteq Calls BY <1>2 DEF Range
<1> QED BY <1>1, <1>2, <1>3, CallTypes DEF Others

LEMMA Stepped ==
  ASSUME TypeInv, NEW t \in DOMAIN call, NEW c \in Calls, call' = [call EXCEPT ![t] = c]
  PROVE  /\ call' \in [DOMAIN call' -> Calls] /\ DOMAIN call' \subseteq Threads
         /\ Range(call') \subseteq Calls
         /\ Others(t) /\ t \in DOMAIN call' /\ call'[t] = c
<1>1. call' \in [DOMAIN call -> Calls] /\ DOMAIN call' = DOMAIN call
  BY CallTypes
<1>2. Range(call') \subseteq Calls BY <1>1 DEF Range
<1> QED BY <1>1, <1>2, CallTypes DEF Others

LEMMA Returned ==
  ASSUME TypeInv, NEW t \in DOMAIN call, Return(t)
  PROVE  /\ call' \in [DOMAIN call' -> Calls] /\ DOMAIN call' \subseteq Threads
         /\ Range(call') \subseteq Calls
         /\ Others(t) /\ t \notin DOMAIN call'
<1>1. call' \in [DOMAIN call \ {t} -> Calls] /\ DOMAIN call' = DOMAIN call \ {t}
  BY CallTypes DEF Return, Restrict
<1>2. Range(call') \subseteq Calls BY <1>1 DEF Range
<1>3. \A u \in DOMAIN call \ {t} : call'[u] = call[u] BY DEF Return, Restrict
<1> QED BY <1>1, <1>2, <1>3, CallTypes DEF Others

(* The other inodes are as they were. *)
LEMMA Elsewhere ==
  ASSUME NEW t, NEW k \in Inodes, About(t, k), NEW j \in Inodes \ {k}, InodeFine(j)
  PROVE  InodeFine(j)'
<1>1. On(j)' = On(j) /\ \A u \in On(j) : call'[u] = call[u]
  BY DEF On, About, Others
<1>2. /\ Making(j)' = Making(j) /\ Appending(j)' = Appending(j) /\ Counting(j)' = Counting(j)
      /\ Putting(j)' = Putting(j) /\ Dropping(j)' = Dropping(j) /\ Linking(j)' = Linking(j)
  BY <1>1 DEF Making, Appending, Counting, Putting, Dropping, Linking
<1>3. /\ inode'[j] = inode[j] /\ places'[j] = places[j]
      /\ j \in raced' <=> j \in raced
      /\ j \in cached' => j \in cached
      /\ Alive(j)' <=> Alive(j)
  BY DEF About, Alive
<1>4. UnusedFine(j)' BY <1>1, <1>3 DEF InodeFine, UnusedFine
<1>5. MadeFine(j)' BY <1>1, <1>2, <1>3 DEF InodeFine, MadeFine
<1>6. AloneFine(j)' BY <1>2, <1>3 DEF InodeFine, AloneFine
<1>7. DirFine(j)' BY <1>2, <1>3 DEF InodeFine, DirFine
<1>8. CountFine(j)' BY <1>2, <1>3 DEF InodeFine, CountFine
<1>9. HeldFine(j)' BY <1>1, <1>2, <1>3 DEF InodeFine, HeldFine
<1>10. PointerFine(j)' BY <1>1, <1>3 DEF InodeFine, PointerFine
<1> QED BY <1>4, <1>5, <1>6, <1>7, <1>8, <1>9, <1>10 DEF InodeFine

(* The other calls are too: D is what a step takes from the places of k,
   A what it adds. *)
LEMMA OtherFine ==
  ASSUME TypeInv, CallInv, NEW t, NEW k \in Inodes, About(t, k),
         NEW c \in Calls, \A u \in DOMAIN call \ {t} : Clear(c, call[u]),
         NEW D, D = {} \/ (D = {c.from} /\ Moves(c)),
         NEW A, A = {} \/ (A = {c.to} /\ c.op \in {"create", "link", "rename"}),
         places'[k] = (places[k] \ D) \cup A,
         inode'[k].kind = "dir" => inode[k].kind = "dir" \/ On(k) = {},
         k \in raced => k \in raced',
         \/ k \in raced' \/ inode'[k].nlink = inode[k].nlink
         \/ \A u \in Counting(k) : u = t,
         NEW b \in Calls, t \in DOMAIN call' => call'[t] = b /\ CallFine(b)',
         call' \in [DOMAIN call' -> Calls]
  PROVE  CallInv'
<1>1. ASSUME NEW u \in DOMAIN call', u # t, NEW e \in Calls, call'[u] = e
      PROVE  CallFine(e)'
  <2>1. u \in DOMAIN call /\ call[u] = e BY <1>1 DEF About, Others
  <2>2. CallFine(e) /\ Clear(c, e) BY <1>1, <2>1 DEF CallInv
  <2>3. e.ino \in Inodes /\ e.from \in Places /\ e.to \in Places BY DEF Calls
  <2>4. D # {} => D = {c.from} /\ c.from[1] \in Changes(c) BY DEF Changes, Moves
  <2>5. A # {} => A = {c.to} /\ c.to[1] \in Changes(c) BY DEF Changes
  <2>6. e.op \in {"create", "link", "rename"} => e.to[1] \in Changes(e) BY DEF Changes
  <2>7. e.op \in {"create", "rename"} => e.from[1] \in Changes(e) BY DEF Changes
  <2>8. Changes(c) \cap Changes(e) = {} BY <2>2 DEF Clear
  <2>9. e.op \in {"create", "link", "rename"} => e.to \notin D \cup A
    BY <2>4, <2>5, <2>6, <2>8
  <2>10. e.op \in {"create", "rename", "link", "use"} => e.from \notin D
    BY <2>2, <2>4, <2>7, <2>8 DEF Clear
  <2>11. \A i \in Inodes : places'[i] = IF i = k THEN (places[k] \ D) \cup A ELSE places[i]
    BY DEF About
  <2>12. <<e.op, e.step>> \in Stages BY <2>2 DEF CallFine
  <2>13. e.from \in places[e.ino] /\ e.op \in {"create", "rename", "link", "use"} =>
           e.from \in places'[e.ino]
    BY <2>3, <2>10, <2>11
  <2>14. e.to \in places[e.ino] /\ e.op \in {"create", "link", "rename"} =>
           e.to \in places'[e.ino]
    BY <2>3, <2>9, <2>11
  <2>15. (\A i \in Inodes : e.to \notin places[i]) /\ e.op \in {"create", "link", "rename"} =>
           \A i \in Inodes : e.to \notin places'[i]
    BY <2>9, <2>11
  <2>16. e.step \in {"append", "take", "put", "cache"} => e.op \in {"create", "link", "rename"}
    BY <2>12 DEF Stages
  <2>17. inode'[e.ino].kind = "dir" => inode[e.ino].kind = "dir"
    <3>1. CASE e.ino = k BY <2>1, <3>1 DEF On
    <3>2. CASE e.ino # k BY <2>3, <3>2 DEF About
    <3> QED BY <3>1, <3>2
  <2>18. e.step \in {"count", "test"} /\ e.ino \notin raced' =>
           e.ino \notin raced /\ inode'[e.ino].nlink = inode[e.ino].nlink
    <3>1. CASE e.ino = k BY <1>1, <2>1, <3>1 DEF On, Counting
    <3>2. CASE e.ino # k BY <2>3, <3>2 DEF About
    <3> QED BY <3>1, <3>2
  <2>19. /\ e.op \in {"create", "unlink", "use"} => e.to = e.from
         /\ e.op \in {"link", "unlink", "use"} => inode'[e.ino].kind # "dir"
    BY <2>2, <2>17 DEF CallFine
  <2>20. e.step \in {"cache", "take"} \/ e.op \in {"link", "use"} => e.from \in places'[e.ino]
    BY <2>2, <2>13, <2>16 DEF CallFine
  <2>21. <<e.op, e.step>> \in {<<"link", "count">>, <<"rename", "touch">>} =>
           e.to \in places'[e.ino]
    BY <2>2, <2>14 DEF CallFine
  <2>22. e.step \in {"append", "take", "put"} => \A i \in Inodes : e.to \notin places'[i]
    BY <2>2, <2>15, <2>16 DEF CallFine, Vacant
  <2>23. /\ e.step = "count" /\ e.ino \notin raced' => e.links = inode'[e.ino].nlink
         /\ e.step = "test" /\ e.ino \notin raced' => e.links = inode'[e.ino].nlink + 1
    BY <2>2, <2>18 DEF CallFine
  <2> QED BY <2>12, <2>19, <2>20, <2>21, <2>22, <2>23 DEF CallFine, Vacant
<1>2. ASSUME NEW u \in DOMAIN call', NEW e \in Calls, call'[u] = e
      PROVE  CallFine(e)'
  BY <1>1, <1>2
<1>3. \A u \in DOMAIN call' : call'[u] \in Calls OBVIOUS
<1> QED BY <1>2, <1>3 DEF CallInv, CallFine, Vacant

(* The calls in progress are kept apart: a new one is let in if it is, one
   that goes on does not change what it is about. *)
LEMMA NewApart ==
  ASSUME ApartInv, NEW t, t \notin DOMAIN call, Others(t), NEW c,
         \A u \in DOMAIN call : Apart(c, call[u]),
         t \in DOMAIN call' => call'[t] = c
  PROVE  ApartInv' /\ \A u \in DOMAIN call \ {t} : Clear(c, call[u])
<1>1. \A e : Apart(c, e) => Clear(c, e) /\ Clear(e, c)
  BY DEF Apart, Clear, Disturbs
<1>2. \A u \in DOMAIN call : Clear(c, call[u]) /\ Clear(call[u], c) BY <1>1
<1>3. \A u, v \in DOMAIN call' : u # v => Clear(call'[u], call'[v])
  BY <1>2 DEF ApartInv, Others
<1> QED BY <1>2, <1>3 DEF ApartInv, Clear, Changes, Moves

LEMMA OldApart ==
  ASSUME ApartInv, NEW t \in DOMAIN call, Others(t),
         t \in DOMAIN call' => /\ call'[t].op = call[t].op /\ call'[t].ino = call[t].ino
                               /\ call'[t].from = call[t].from /\ call'[t].to = call[t].to
  PROVE  ApartInv' /\ \A u \in DOMAIN call \ {t} : Clear(call[t], call[u])
<1>1. \A u \in DOMAIN call' : /\ u \in DOMAIN call
                              /\ call'[u].op = call[u].op /\ call'[u].ino = call[u].ino
                              /\ call'[u].from = call[u].from /\ call'[u].to = call[u].to
  BY DEF Others
<1>2. \A u \in DOMAIN call' : Changes(call'[u]) = Changes(call[u]) /\ Moves(call'[u]) = Moves(call[u])
  BY <1>1 DEF Changes, Moves
<1>3. \A u, v \in DOMAIN call' : u # v => Clear(call'[u], call'[v])
  BY <1>1, <1>2 DEF ApartInv, Clear
<1>4. \A u \in DOMAIN call \ {t} : Clear(call[t], call[u]) BY DEF ApartInv
<1> QED BY <1>3, <1>4 DEF ApartInv, Clear, Changes, Moves

(* Nothing is taken into use. *)
LEMMA OrderKept ==
  ASSUME OrderInv, \A i \in Inodes : inode'[i].kind = "unused" <=> inode[i].kind = "unused"
  PROVE  OrderInv'
BY DEF OrderInv

(* A step of t that is about k keeps the invariant if it does where it is. *)
LEMMA Combined ==
  ASSUME Inv, NEW t, NEW k \in Inodes, About(t, k),
         TypeInv', OrderInv', ApartInv', CallInv', InodeFine(k)'
  PROVE  Inv'
<1>1. ASSUME NEW j \in Inodes PROVE InodeFine(j)'
  <2>1. CASE j = k BY <2>1
  <2>2. CASE j # k BY <2>2, Elsewhere DEF Inv, InodeInv
  <2> QED BY <2>1, <2>2
<1>2. InodeInv' BY <1>1 DEF InodeInv
<1> QED BY <1>2 DEF Inv

----
(* Where a step happens *)

(* The sets of calls on k change by t at most. *)
LEMMA Here ==
  ASSUME NEW t, NEW k \in Inodes, About(t, k)
  PROVE  /\ On(k)' \ {t} = On(k) \ {t}
         /\ Making(k)' \ {t} = Making(k) \ {t}
         /\ Appending(k)' \ {t} = Appending(k) \ {t}
         /\ Counting(k)' \ {t} = Counting(k) \ {t}
         /\ Putting(k)' \ {t} = Putting(k) \ {t}
         /\ Dropping(k)' \ {t} = Dropping(k) \ {t}
         /\ Linking(k)' \ {t} = Linking(k) \ {t}
<1>1. On(k)' \ {t} = On(k) \ {t} /\ \A u \in On(k) \ {t} : call'[u] = call[u]
  BY DEF On, About, Others
<1> QED BY <1>1 DEF Making, Appending, Counting, Putting, Dropping, Linking

(* t itself is in those of its step. *)
LEMMA Before ==
  ASSUME NEW t, NEW k \in Inodes, About(t, k)
  PROVE  /\ t \in On(k) <=> t \in DOMAIN call
         /\ t \in Making(k) <=> At(t, "create", "append")
         /\ t \in Appending(k) <=> t \in DOMAIN call /\ call[t].step = "append"
         /\ t \in Counting(k) <=> t \in DOMAIN call /\ call[t].step \in {"count", "test"}
         /\ t \in Putting(k) <=> At(t, "rename", "put")
         /\ t \in Dropping(k) <=> At(t, "unlink", "count")
         /\ t \in Linking(k) <=> At(t, "link", "count")
BY DEF About, On, Making, Appending, Counting, Putting, Dropping, Linking, At

LEMMA After ==
  ASSUME NEW t, NEW k \in Inodes, About(t, k)
  PROVE  /\ t \in On(k)' <=> t \in DOMAIN call'
         /\ t \in Making(k)' <=> At(t, "create", "append")'
         /\ t \in Appending(k)' <=> t \in DOMAIN call' /\ call'[t].step = "append"
         /\ t \in Counting(k)' <=> t \in DOMAIN call' /\ call'[t].step \in {"count", "test"}
         /\ t \in Putting(k)' <=> At(t, "rename", "put")'
         /\ t \in Dropping(k)' <=> At(t, "unlink", "count")'
         /\ t \in Linking(k)' <=> At(t, "link", "count")'
BY DEF About, On, Making, Appending, Counting, Putting, Dropping, Linking, At

(* The size of a set that one element has come to or gone from. *)
One(b) == IF b THEN 1 ELSE 0

LEMMA SizeChange ==
  ASSUME NEW S, NEW T, NEW x, IsFiniteSet(S), S \ {x} = T \ {x}
  PROVE  /\ IsFiniteSet(T) /\ Cardinality(S) \in Nat /\ Cardinality(T) \in Nat
         /\ Cardinality(T) = Cardinality(S) + One(x \in T) - One(x \in S)
<1> DEFINE R == S \ {x}
<1>1. IsFiniteSet(R) /\ Cardinality(R) \in Nat BY FS_RemoveElement, FS_CardinalityType
<1>2. x \notin R OBVIOUS
<1>3. T = IF x \in T THEN R \cup {x} ELSE R OBVIOUS
<1>4. S = IF x \in S THEN R \cup {x} ELSE R OBVIOUS
<1> HIDE DEF R
<1>5. IsFiniteSet(R \cup {x}) /\ Cardinality(R \cup {x}) = Cardinality(R) + 1
  BY <1>1, <1>2, FS_AddElement
<1>6. IsFiniteSet(T) /\ Cardinality(T) = Cardinality(R) + One(x \in T)
  <2>1. CASE x \in T BY <1>3, <1>5, <2>1 DEF One
  <2>2. CASE x \notin T BY <1>1, <1>3, <2>2 DEF One
  <2> QED BY <2>1, <2>2
<1>7. Cardinality(S) = Cardinality(R) + One(x \in S)
  <2>1. CASE x \in S BY <1>4, <1>5, <2>1 DEF One
  <2>2. CASE x \notin S BY <1>1, <1>4, <2>2 DEF One
  <2> QED BY <2>1, <2>2
<1> QED BY <1>1, <1>6, <1>7 DEF One

LEMMA CallsFinite ==
  ASSUME TypeInv, NEW i \in Inodes
  PROVE  IsFiniteSet(Putting(i)) /\ IsFiniteSet(Dropping(i)) /\ IsFiniteSet(Linking(i))
<1>1. /\ Putting(i) \in SUBSET Threads /\ Dropping(i) \in SUBSET Threads
      /\ Linking(i) \in SUBSET Threads
  BY CallTypes DEF On, Putting, Dropping, Linking
<1> QED BY <1>1, NamespaceAssumption, FS_Subset

(* The sizes that nlink is compared with. *)
LEMMA Sizes ==
  ASSUME TypeInv, NEW t, NEW k \in Inodes, About(t, k)
  PROVE  /\ Cardinality(Putting(k)) \in Nat /\ Cardinality(Dropping(k)) \in Nat
         /\ Cardinality(Linking(k)) \in Nat /\ Cardinality(places[k]) \in Nat
         /\ Cardinality(Putting(k)') =
              Cardinality(Putting(k)) + One(t \in Putting(k)') - One(t \in Putting(k))
         /\ Cardinality(Dropping(k)') =
              Cardinality(Dropping(k)) + One(t \in Dropping(k)') - One(t \in Dropping(k))
         /\ Cardinality(Linking(k)') =
              Cardinality(Linking(k)) + One(t \in Linking(k)') - One(t \in Linking(k))
<1>1. IsFiniteSet(Putting(k)) /\ IsFiniteSet(Dropping(k)) /\ IsFiniteSet(Linking(k))
  BY CallsFinite
<1>2. Cardinality(places[k]) \in Nat BY PlacesType, FS_CardinalityType
<1>3. /\ Cardinality(Putting(k)) \in Nat
      /\ Cardinality(Putting(k)') =
           Cardinality(Putting(k)) + One(t \in Putting(k)') - One(t \in Putting(k))
  BY <1>1, Here, SizeChange
<1>4. /\ Cardinality(Dropping(k)) \in Nat
      /\ Cardinality(Dropping(k)') =
           Cardinality(Dropping(k)) + One(t \in Dropping(k)') - One(t \in Dropping(k))
  BY <1>1, Here, SizeChange
<1>5. /\ Cardinality(Linking(k)) \in Nat
      /\ Cardinality(Linking(k)') =
           Cardinality(Linking(k)) + One(t \in Linking(k)') - One(t \in Linking(k))
  BY <1>1, Here, SizeChange
<1> QED BY <1>2, <1>3, <1>4, <1>5

(* Types, with the lists and the calls as the lemmas above leave them. *)
LEMMA TypeKept ==
  ASSUME TypeInv,
         inode' \in [Inodes -> [kind : {"dir", "file", "unused", "freed"}, nlink : Int]],
         entries' \in [Inodes -> Seq(Entries)], \A x \in Inodes : Distinct(entries'[x]),
         cached' \subseteq cached,
         call' \in [DOMAIN call' -> Calls], DOMAIN call' \subseteq Threads,
         Range(call') \subseteq Calls,
         raced' \subseteq Inodes
  PROVE  TypeInv'
<1>1. cached \subseteq Inodes /\ Cardinality(cached) <= CacheSize BY DEF TypeInv, StateTypes
<1>2. IsFiniteSet(Inodes) BY FS_Interval, NamespaceAssumption DEF Inodes
<1>3. IsFiniteSet(cached) BY <1>1, <1>2, FS_Subset
<1>4. /\ Cardinality(cached') \in Nat /\ Cardinality(cached) \in Nat
      /\ Cardinality(cached') <= Cardinality(cached)
  BY <1>3, FS_Subset, FS_CardinalityType
<1>5. cached' \subseteq Inodes /\ Cardinality(cached') <= CacheSize
  BY <1>1, <1>4, NamespaceAssumption
<1> QED BY <1>5 DEF TypeInv, StateTypes

----
(* Calls that come in and calls that return *)

LEMMA OtherSame ==
  ASSUME TypeInv, CallInv, NEW t, NEW k \in Inodes, About(t, k),
         NEW c \in Calls, \A u \in DOMAIN call \ {t} : Clear(c, call[u]),
         UNCHANGED <<inode, entries, raced>>,
         call' \in [DOMAIN call' -> Calls],
         t \in DOMAIN call' => call'[t] = c /\ CallFine(c)'
  PROVE  CallInv'
<1> DEFINE D == {}
           A == {}
<1>1. places'[k] = (places[k] \ D) \cup A BY SamePlaces
<1>2. D = {} /\ A = {} OBVIOUS
<1>3. inode'[k] = inode[k] /\ raced' = raced OBVIOUS
<1>4. /\ inode'[k].kind = "dir" => inode[k].kind = "dir" \/ On(k) = {}
      /\ k \in raced => k \in raced'
      /\ \/ k \in raced' \/ inode'[k].nlink = inode[k].nlink
         \/ \A u \in Counting(k) : u = t
  BY <1>3
<1> HIDE DEF D, A
<1>5. D = {} \/ (D = {c.from} /\ Moves(c)) BY <1>2
<1>6. A = {} \/ (A = {c.to} /\ c.op \in {"create", "link", "rename"}) BY <1>2
<1> QED BY <1>1, <1>4, <1>5, <1>6, OtherFine

(* A look-up, and no more: a call comes in that has found k. *)
LEMMA Coming ==
  ASSUME Inv, NEW t \in Threads, NEW k \in Inodes, NEW c \in Calls,
         t \notin DOMAIN call, \A u \in DOMAIN call : Apart(c, call[u]), Enter(t, c),
         UNCHANGED <<inode, entries, cached, raced>>,
         c.ino = k, places[k] # {}, Alive(k), CallFine(c),
         <<c.op, c.step>> \in {<<"link", "append">>, <<"rename", "take">>, <<"use", "touch">>}
  PROVE  Inv'
<1>1. TypeInv /\ OrderInv /\ ApartInv /\ CallInv /\ InodeFine(k) BY DEF Inv, InodeInv
<1>2. places' = places BY SamePlaces
<1>3. /\ call' \in [DOMAIN call' -> Calls] /\ DOMAIN call' \subseteq Threads
      /\ Range(call') \subseteq Calls
      /\ Others(t) /\ t \in DOMAIN call' /\ call'[t] = c
  BY <1>1, Entered
<1>4. About(t, k) BY <1>2, <1>3 DEF About
<1>5. TypeInv' BY <1>1, <1>3, TypeKept DEF TypeInv, StateTypes
<1>6. OrderInv' BY <1>1, OrderKept
<1>7. ApartInv' /\ \A u \in DOMAIN call \ {t} : Clear(c, call[u]) BY <1>1, <1>3, NewApart
<1>8. CallInv'
  <2>1. CallFine(c)' BY <1>2 DEF CallFine, Vacant
  <2> QED BY <1>1, <1>3, <1>4, <1>7, <2>1, OtherSame
<1>9. /\ t \notin Making(k)' /\ t \notin Counting(k)' /\ t \notin Putting(k)'
      /\ t \notin Dropping(k)' /\ t \notin Linking(k)'
  BY <1>3, <1>4, After DEF At
<1>10. /\ t \notin Making(k) /\ t \notin Counting(k) /\ t \notin Putting(k)
       /\ t \notin Dropping(k) /\ t \notin Linking(k) /\ t \notin Appending(k)
  BY <1>4, Before DEF At
<1>11. /\ Making(k)' = Making(k) /\ Counting(k)' = Counting(k) /\ Putting(k)' = Putting(k)
       /\ Dropping(k)' = Dropping(k) /\ Linking(k)' = Linking(k)
       /\ Appending(k) \subseteq Appending(k)'
  <2>1. Making(k)' = Making(k)
    <3>1. Making(k)' \ {t} = Making(k) \ {t} BY <1>4, Here
    <3>2. t \notin Making(k)' /\ t \notin Making(k) BY <1>9, <1>10
    <3> QED BY <3>1, <3>2
  <2>2. Counting(k)' = Counting(k)
    <3>1. Counting(k)' \ {t} = Counting(k) \ {t} BY <1>4, Here
    <3>2. t \notin Counting(k)' /\ t \notin Counting(k) BY <1>9, <1>10
    <3> QED BY <3>1, <3>2
  <2>3. Putting(k)' = Putting(k)
    <3>1. Putting(k)' \ {t} = Putting(k) \ {t} BY <1>4, Here
    <3>2. t \notin Putting(k)' /\ t \notin Putting(k) BY <1>9, <1>10
    <3> QED BY <3>1, <3>2
  <2>4. Dropping(k)' = Dropping(k)
    <3>1. Dropping(k)' \ {t} = Dropping(k) \ {t} BY <1>4, Here
    <3>2. t \notin Dropping(k)' /\ t \notin Dropping(k) BY <1>9, <1>10
    <3> QED BY <3>1, <3>2
  <2>5. Linking(k)' = Linking(k)
    <3>1. Linking(k)' \ {t} = Linking(k) \ {t} BY <1>4, Here
    <3>2. t \notin Linking(k)' /\ t \notin Linking(k) BY <1>9, <1>10
    <3> QED BY <3>1, <3>2
  <2>6. Appending(k) \subseteq Appending(k)'
    <3>1. Appending(k)' \ {t} = Appending(k) \ {t} BY <1>4, Here
    <3>2. t \notin Appending(k) BY <1>10
    <3> QED BY <3>1, <3>2
  <2> QED BY <2>1, <2>2, <2>3, <2>4, <2>5, <2>6
<1>12. /\ inode' = inode /\ raced' = raced /\ cached' = cached /\ Alive(k)'
  BY DEF Alive
<1>13. Making(k) = {} BY <1>1 DEF InodeFine, MadeFine
<1>14. InodeFine(k)'
  <2>1. UnusedFine(k)' BY <1>12 DEF UnusedFine, Alive
  <2>2. MadeFine(k)' BY <1>11, <1>13 DEF MadeFine
  <2>3. AloneFine(k)' BY <1>1, <1>11, <1>12 DEF InodeFine, AloneFine
  <2>4. DirFine(k)' BY <1>1, <1>2, <1>11, <1>12 DEF InodeFine, DirFine
  <2>5. CountFine(k)' BY <1>1, <1>2, <1>11, <1>12 DEF InodeFine, CountFine
  <2>6. HeldFine(k)' BY <1>2 DEF HeldFine
  <2>7. PointerFine(k)' BY <1>12 DEF PointerFine
  <2> QED BY <2>1, <2>2, <2>3, <2>4, <2>5, <2>6, <2>7 DEF InodeFine
<1> QED BY <1>4, <1>5, <1>6, <1>7, <1>8, <1>14, Combined

(* What the calls that return leave, when they change no more than the cache. *)
LEMMA Leaving ==
  ASSUME Inv, NEW t \in DOMAIN call, NEW k \in Inodes, call[t].ino = k,
         call[t].step \in {"cache", "touch"}, Return(t), Alive(k),
         UNCHANGED <<inode, entries, raced>>,
         cached' \subseteq cached \cup {k}, Cardinality(cached') <= CacheSize
  PROVE  Inv'
<1>1. TypeInv /\ OrderInv /\ ApartInv /\ CallInv /\ InodeFine(k) BY DEF Inv, InodeInv
<1>2. places' = places BY SamePlaces
<1>3. /\ call' \in [DOMAIN call' -> Calls] /\ DOMAIN call' \subseteq Threads
      /\ Range(call') \subseteq Calls
      /\ Others(t) /\ t \notin DOMAIN call'
  BY <1>1, Returned
<1>4. About(t, k) BY <1>2, <1>3 DEF About
<1>5. TypeInv' BY <1>1, <1>3 DEF TypeInv, StateTypes
<1>6. OrderInv' BY <1>1, OrderKept
<1>7. ApartInv' /\ \A u \in DOMAIN call \ {t} : Clear(call[t], call[u])
  BY <1>1, <1>3, OldApart
<1>8. CallInv'
  <2>1. call[t] \in Calls BY <1>1, CallTypes
  <2> QED BY <1>1, <1>3, <1>4, <1>7, <2>1, OtherSame
<1>9. /\ t \notin Making(k)' /\ t \notin Counting(k)' /\ t \notin Putting(k)'
      /\ t \notin Dropping(k)' /\ t \notin Linking(k)' /\ t \notin Appending(k)' /\ t \notin On(k)'
  BY <1>3, <1>4, After DEF At
<1>10. /\ t \notin Making(k) /\ t \notin Counting(k) /\ t \notin Putting(k)
       /\ t \notin Dropping(k) /\ t \notin Linking(k) /\ t \notin Appending(k)
  BY <1>4, Before DEF At
<1>11. /\ Making(k)' = Making(k) /\ Counting(k)' = Counting(k) /\ Putting(k)' = Putting(k)
       /\ Dropping(k)' = Dropping(k) /\ Linking(k)' = Linking(k)
       /\ Appending(k)' = Appending(k)
  <2>1. Making(k)' = Making(k)
    <3>1. Making(k)' \ {t} = Making(k) \ {t} BY <1>4, Here
    <3>2. t \notin Making(k)' /\ t \notin Making(k) BY <1>9, <1>10
    <3> QED BY <3>1, <3>2
  <2>2. Counting(k)' = Counting(k)
    <3>1. Counting(k)' \ {t} = Counting(k) \ {t} BY <1>4, Here
    <3>2. t \notin Counting(k)' /\ t \notin Counting(k) BY <1>9, <1>10
    <3> QED BY <3>1, <3>2
  <2>3. Putting(k)' = Putting(k)
    <3>1. Putting(k)' \ {t} = Putting(k) \ {t} BY <1>4, Here
    <3>2. t \notin Putting(k)' /\ t \notin Putting(k) BY <1>9, <1>10
    <3> QED BY <3>1, <3>2
  <2>4. Dropping(k)' = Dropping(k)
    <3>1. Dropping(k)' \ {t} = Dropping(k) \ {t} BY <1>4, Here
    <3>2. t \notin Dropping(k)' /\ t \notin Dropping(k) BY <1>9, <1>10
    <3> QED BY <3>1, <3>2
  <2>5. Linking(k)' = Linking(k)
    <3>1. Linking(k)' \ {t} = Linking(k) \ {t} BY <1>4, Here
    <3>2. t \notin Linking(k)' /\ t \notin Linking(k) BY <1>9, <1>10
    <3> QED BY <3>1, <3>2
  <2>6. Appending(k)' = Appending(k)
    <3>1. Appending(k)' \ {t} = Appending(k) \ {t} BY <1>4, Here
    <3>2. t \notin Appending(k)' /\ t \notin Appending(k) BY <1>9, <1>10
    <3> QED BY <3>1, <3>2
  <2> QED BY <2>1, <2>2, <2>3, <2>4, <2>5, <2>6
<1>12. inode' = inode /\ raced' = raced /\ Alive(k)' BY DEF Alive
<1>13. Making(k) = {}
  <2>1. t \in On(k) BY DEF On
  <2> QED BY <1>1, <1>10, <2>1 DEF InodeFine, MadeFine
<1>14. InodeFine(k)'
  <2>1. UnusedFine(k)' BY <1>12 DEF UnusedFine, Alive
  <2>2. MadeFine(k)' BY <1>11, <1>13 DEF MadeFine
  <2>3. AloneFine(k)' BY <1>1, <1>11, <1>12 DEF InodeFine, AloneFine
  <2>4. DirFine(k)' BY <1>1, <1>2, <1>11, <1>12 DEF InodeFine, DirFine
  <2>5. CountFine(k)' BY <1>1, <1>2, <1>11, <1>12 DEF InodeFine, CountFine
  <2>6. HeldFine(k)' BY <1>1, <1>2, <1>11, <1>12 DEF InodeFine, HeldFine, Alive
  <2>7. PointerFine(k)' BY <1>12 DEF PointerFine
  <2> QED BY <2>1, <2>2, <2>3, <2>4, <2>5, <2>6, <2>7 DEF InodeFine
<1> QED BY <1>4, <1>5, <1>6, <1>7, <1>8, <1>14, Combined

LEMMA Link_Keeps ==
  ASSUME Inv, NEW t \in Threads, NEW p \in Places, NEW q \in Places, Link(t, p, q)
  PROVE  Inv'
<1>1. TypeInv BY DEF Inv
<1>2. PICK k : k = Target(p) OBVIOUS
<1>3. k \in Inodes /\ p \in places[k] /\ inode[k].kind = "file"
  BY <1>1, <1>2, FindPlace DEF Link
<1>4. Vacant(q) BY <1>1, FindPlace DEF Link
<1>5. PICK c : c = NewCall("link", "append", p, q, k) OBVIOUS
<1>6. /\ t \notin DOMAIN call /\ \A u \in DOMAIN call : Apart(c, call[u])
      /\ Enter(t, c) /\ UNCHANGED <<inode, entries, cached, raced>>
  BY <1>2, <1>5 DEF Link, Admitted
<1>7. /\ c.ino = k /\ c.op = "link" /\ c.step = "append" /\ c.from = p /\ c.to = q
  BY <1>5 DEF NewCall
<1>8. CallFine(c) BY <1>3, <1>4, <1>7 DEF CallFine, Stages
<1>9. Alive(k) BY <1>3 DEF Alive
<1>10. c \in Calls BY <1>3, <1>5 DEF NewCall, Calls
<1> QED BY <1>3, <1>6, <1>7, <1>8, <1>9, <1>10, Coming

LEMMA Rename_Keeps ==
  ASSUME Inv, NEW t \in Threads, NEW p \in Places, NEW q \in Places, Rename(t, p, q)
  PROVE  Inv'
<1>1. TypeInv BY DEF Inv
<1>2. PICK k : k = Target(p) OBVIOUS
<1>3. k \in Inodes /\ p \in places[k] /\ Alive(k)
  BY <1>1, <1>2, FindPlace DEF Rename
<1>4. Vacant(q) BY <1>1, FindPlace DEF Rename
<1>5. PICK c : c = NewCall("rename", "take", p, q, k) OBVIOUS
<1>6. /\ t \notin DOMAIN call /\ \A u \in DOMAIN call : Apart(c, call[u])
      /\ Enter(t, c) /\ UNCHANGED <<inode, entries, cached, raced>>
  BY <1>2, <1>5 DEF Rename, Admitted
<1>7. /\ c.ino = k /\ c.op = "rename" /\ c.step = "take" /\ c.from = p /\ c.to = q
  BY <1>5 DEF NewCall
<1>8. CallFine(c) BY <1>3, <1>4, <1>7 DEF CallFine, Stages
<1>9. c \in Calls BY <1>3, <1>5 DEF NewCall, Calls
<1> QED BY <1>3, <1>6, <1>7, <1>8, <1>9, Coming

LEMMA Use_Keeps ==
  ASSUME Inv, NEW t \in Threads, NEW p \in Places, Use(t, p)
  PROVE  Inv'
<1>1. TypeInv BY DEF Inv
<1>2. PICK k : k = Target(p) OBVIOUS
<1>3. k \in Inodes /\ p \in places[k] /\ inode[k].kind = "file"
  BY <1>1, <1>2, FindPlace DEF Use
<1>4. PICK c : c = NewCall("use", "touch", p, p, k) OBVIOUS
<1>5. /\ t \notin DOMAIN call /\ \A u \in DOMAIN call : Apart(c, call[u])
      /\ Enter(t, c) /\ UNCHANGED <<inode, entries, cached, raced>>
  BY <1>2, <1>4 DEF Use, Admitted
<1>6. /\ c.ino = k /\ c.op = "use" /\ c.step = "touch" /\ c.from = p /\ c.to = p
  BY <1>4 DEF NewCall
<1>7. CallFine(c) BY <1>3, <1>6 DEF CallFine, Stages
<1>8. Alive(k) BY <1>3 DEF Alive
<1>9. c \in Calls BY <1>3, <1>4 DEF NewCall, Calls
<1> QED BY <1>3, <1>5, <1>6, <1>7, <1>8, <1>9, Coming

LEMMA Touch_Keeps ==
  ASSUME Inv, NEW t \in Threads, Touch(t)
  PROVE  Inv'
<1>1. t \in DOMAIN call /\ call[t] \in Calls BY CallTypes DEF Inv, Touch
<1>2. PICK k \in Inodes : k = call[t].ino BY <1>1 DEF Calls
<1>3. /\ call[t].step \in {"cache", "touch"} /\ Return(t) /\ Alive(k)
      /\ UNCHANGED <<inode, entries, raced>> /\ cached' \subseteq cached \cup {k}
  BY <1>2 DEF Touch
<1>4. Cardinality(cached') <= CacheSize
  <2>1. cached' = cached BY DEF Touch
  <2> QED BY <2>1 DEF Inv, TypeInv, StateTypes
<1> QED BY <1>1, <1>2, <1>3, <1>4, Leaving

LEMMA AddBound ==
  ASSUME NEW S, IsFiniteSet(S), NEW x
  PROVE  /\ Cardinality(S \cup {x}) \in Nat
         /\ Cardinality(S \cup {x}) <= Cardinality(S) + 1
<1>1. Cardinality(S) \in Nat BY FS_CardinalityType
<1>2. Cardinality(S \cup {x}) = IF x \in S THEN Cardinality(S) ELSE Cardinality(S) + 1
  BY FS_AddElement
<1> QED BY <1>1, <1>2

LEMMA CacheInode_Keeps ==
  ASSUME Inv, NEW t \in Threads, CacheInode(t)
  PROVE  Inv'
<1>1. t \in DOMAIN call /\ call[t] \in Calls BY CallTypes DEF Inv, CacheInode, At
<1>2. PICK k \in Inodes : k = call[t].ino BY <1>1 DEF Calls
<1>3. PICK gone \in IF Cardinality(cached) >= CacheSize THEN {{i} : i \in cached} ELSE {{}} :
        cached' = (cached \ gone) \cup {k}
  BY <1>2 DEF CacheInode
<1>4. /\ call[t].step \in {"cache", "touch"} /\ Return(t) /\ Alive(k)
      /\ UNCHANGED <<inode, entries, raced>> /\ cached' \subseteq cached \cup {k}
  BY <1>2, <1>3 DEF CacheInode, At
<1>5. Cardinality(cached') <= CacheSize
  <2>1. cached \subseteq Inodes /\ Cardinality(cached) <= CacheSize BY DEF Inv, TypeInv, StateTypes
  <2>2. IsFiniteSet(Inodes) BY FS_Interval, NamespaceAssumption DEF Inodes
  <2>3. IsFiniteSet(cached) /\ Cardinality(cached) \in Nat
    BY <2>1, <2>2, FS_Subset, FS_CardinalityType
  <2>4. CASE Cardinality(cached) >= CacheSize
    <3>1. PICK i \in cached : gone = {i} BY <1>3, <2>4
    <3>2. /\ IsFiniteSet(cached \ {i}) /\ Cardinality(cached \ {i}) = Cardinality(cached) - 1
      BY <2>3, <3>1, FS_RemoveElement
    <3>3. Cardinality((cached \ {i}) \cup {k}) <= Cardinality(cached \ {i}) + 1
      BY <2>3, <3>2, AddBound
    <3> QED BY <1>3, <2>1, <2>3, <3>1, <3>2, <3>3, NamespaceAssumption
  <2>5. CASE ~(Cardinality(cached) >= CacheSize)
    <3>1. cached' = cached \cup {k} BY <1>3, <2>5
    <3>2. Cardinality(cached \cup {k}) <= Cardinality(cached) + 1
      BY <2>3, AddBound
    <3>3. Cardinality(cached \cup {k}) \in Nat BY <2>3, AddBound
    <3> QED BY <2>3, <2>5, <3>1, <3>2, <3>3, NamespaceAssumption
  <2> QED BY <2>4, <2>5
<1> QED BY <1>1, <1>2, <1>4, <1>5, Leaving

----
(* Making a name *)

LEMMA Create_Keeps ==
  ASSUME Inv, NEW t \in Threads, NEW p \in Places, NEW kind, NEW nlink,
         <<kind, nlink>> \in {<<"dir", 2>>, <<"file", 1>>}, Create(t, p, kind, nlink)
  PROVE  Inv'
<1>1. TypeInv /\ OrderInv /\ ApartInv /\ CallInv BY DEF Inv
<1>2. PICK n \in Inodes : {i \in Inodes : inode[i].kind # "unused"} = 1..n
  BY <1>1 DEF OrderInv
<1>3. PICK k : k = Cardinality({i \in Inodes : inode[i].kind # "unused"}) + 1 OBVIOUS
<1>4. k = n + 1 /\ n \in Nat \ {0}
  <2>1. n \in Nat \ {0} BY DEF Inodes
  <2>2. Cardinality(1..n) = n BY <2>1, FS_Interval
  <2> QED BY <1>2, <1>3, <2>1, <2>2
<1>5. PICK c : c = NewCall("create", "append", p, p, k) OBVIOUS
<1>6. /\ k \in Inodes /\ t \notin DOMAIN call /\ \A u \in DOMAIN call : Apart(c, call[u])
      /\ inode' = [inode EXCEPT ![k] = [kind |-> kind, nlink |-> nlink]]
      /\ Enter(t, c) /\ UNCHANGED <<entries, cached, raced>>
  BY <1>3, <1>5 DEF Create, Admitted
<1>7. inode[k].kind = "unused"
  <2>1. k \notin 1..n BY <1>4
  <2> QED BY <1>2, <1>6, <2>1
<1>8. c \in Calls BY <1>5, <1>6 DEF NewCall, Calls
<1>9. Vacant(p) BY <1>1, FindPlace DEF Create
<1>10. places' = places BY <1>6, SamePlaces
<1>11. InodeFine(k) BY <1>6 DEF Inv, InodeInv
<1>12. places[k] = {} /\ On(k) = {} /\ k \notin raced /\ k \notin cached
  BY <1>7, <1>11 DEF InodeFine, UnusedFine
<1>13. /\ c.ino = k /\ c.op = "create" /\ c.step = "append" /\ c.from = p /\ c.to = p
  BY <1>5 DEF NewCall
<1>14. inode \in [Inodes -> [kind : {"dir", "file", "unused", "freed"}, nlink : Int]]
  BY <1>1 DEF TypeInv, StateTypes
<1>15. inode'[k].kind = kind /\ inode'[k].nlink = nlink /\ Alive(k)'
  BY <1>6, <1>14 DEF Alive
<1>16. /\ call' \in [DOMAIN call' -> Calls] /\ DOMAIN call' \subseteq Threads
       /\ Range(call') \subseteq Calls
       /\ Others(t) /\ t \in DOMAIN call' /\ call'[t] = c
  BY <1>1, <1>6, <1>8, Entered
<1>17. About(t, k) BY <1>6, <1>10, <1>13, <1>14, <1>16 DEF About
<1>18. TypeInv'
  <2>1. inode' \in [Inodes -> [kind : {"dir", "file", "unused", "freed"}, nlink : Int]]
    BY <1>6, <1>14
  <2> QED BY <1>1, <1>6, <1>16, <2>1, TypeKept DEF TypeInv, StateTypes
<1>19. OrderInv'
  <2>1. \A i \in Inodes : inode'[i].kind # "unused" <=> i \in 1..n \/ i = k
    BY <1>2, <1>6, <1>14, <1>15
  <2>2. {i \in Inodes : inode'[i].kind # "unused"} = 1..k
    <3>1. \A i : i \in Inodes /\ (i \in 1..n \/ i = k) <=> i \in 1..k
      BY <1>4, <1>6, NamespaceAssumption DEF Inodes
    <3> QED BY <2>1, <3>1
  <2> QED BY <1>6, <2>2 DEF OrderInv
<1>20. ApartInv' /\ \A u \in DOMAIN call \ {t} : Clear(c, call[u])
  BY <1>1, <1>6, <1>16, NewApart
<1>21. CallInv'
  <2>1. CallFine(c)' BY <1>9, <1>10, <1>13 DEF CallFine, Stages, Vacant
  <2> DEFINE D == {}
             A == {}
  <2>2. places'[k] = (places[k] \ D) \cup A BY <1>10
  <2>3. D = {} /\ A = {} OBVIOUS
  <2>4. \A u \in Counting(k) : u = t BY <1>12 DEF Counting
  <2> HIDE DEF D, A
  <2> QED BY <1>1, <1>6, <1>8, <1>12, <1>16, <1>17, <1>20, <2>1, <2>2, <2>3, <2>4, OtherFine
<1>22. InodeFine(k)'
  <2>1. On(k)' = {t}
    BY <1>6, <1>12, <1>16, <1>17, Here, After
  <2>2. /\ Making(k)' = {t} /\ Counting(k)' = {} /\ Putting(k)' = {} /\ Appending(k)' = {t}
    BY <1>13, <1>16, <2>1 DEF Making, Counting, Putting, Appending
  <2>3. places'[k] = {} /\ k \notin raced' /\ k \notin cached' BY <1>6, <1>10, <1>12
  <2>4. UnusedFine(k)' BY <1>15 DEF UnusedFine, Alive
  <2>5. MadeFine(k)' BY <1>15, <2>1, <2>2, <2>3 DEF MadeFine
  <2>6. AloneFine(k)' BY <2>2 DEF AloneFine
  <2>7. DirFine(k)' BY <2>2, <2>3 DEF DirFine
  <2>8. CountFine(k)' BY <2>2 DEF CountFine
  <2>9. HeldFine(k)' BY <2>2 DEF HeldFine
  <2>10. PointerFine(k)' BY <1>15 DEF PointerFine
  <2> QED BY <2>4, <2>5, <2>6, <2>7, <2>8, <2>9, <2>10 DEF InodeFine
<1> QED BY <1>6, <1>17, <1>18, <1>19, <1>20, <1>21, <1>22, Combined

(* A call in progress, and what is known of it. *)
LEMMA InProgress ==
  ASSUME Inv, NEW t \in DOMAIN call
  PROVE  \E c \in Calls, k \in Inodes :
           /\ call[t] = c /\ c.ino = k /\ CallFine(c) /\ InodeFine(k)
           /\ t \in On(k) /\ c.from \in Places /\ c.to \in Places
           /\ inode[k].nlink \in Int /\ c.links \in Int
<1>1. call[t] \in Calls BY CallTypes DEF Inv
<1>2. PICK c \in Calls : c = call[t] BY <1>1
<1>3. /\ c.ino \in Inodes /\ c.from \in Places /\ c.to \in Places /\ c.links \in Int
  BY DEF Calls
<1>4. CallFine(c) /\ InodeFine(c.ino) BY <1>2, <1>3 DEF Inv, CallInv, InodeInv
<1>5. t \in On(c.ino) BY <1>2 DEF On
<1>6. inode[c.ino].nlink \in Int BY <1>3 DEF Inv, TypeInv, StateTypes
<1> QED BY <1>2, <1>3, <1>4, <1>5, <1>6

LEMMA AppendEntry_Keeps ==
  ASSUME Inv, NEW t \in Threads, AppendEntry(t)
  PROVE  Inv'
<1>1. TypeInv /\ OrderInv /\ ApartInv /\ CallInv BY DEF Inv
<1>2. t \in DOMAIN call BY DEF AppendEntry, At
<1>3. PICK c \in Calls, k \in Inodes :
        /\ call[t] = c /\ c.ino = k /\ CallFine(c) /\ InodeFine(k)
        /\ t \in On(k) /\ c.from \in Places /\ c.to \in Places
        /\ inode[k].nlink \in Int /\ c.links \in Int
  BY <1>2, InProgress
<1>4. c.op = "create" /\ c.step = "append" BY <1>3 DEF AppendEntry, At
<1>5. PICK p \in Places : p = c.from /\ p = c.to /\ Vacant(p) BY <1>3, <1>4 DEF CallFine
<1>6. PICK e : e = [c EXCEPT !.step = "cache"] OBVIOUS
<1>7. /\ e \in Calls /\ e.op = c.op /\ e.ino = c.ino /\ e.from = c.from /\ e.to = c.to
      /\ e.step = "cache"
  BY <1>6 DEF Calls
<1>8. /\ call' = [call EXCEPT ![t] = e]
      /\ entries' = [entries EXCEPT ![p[1]] = Append(@, Entry(p[2], k))]
      /\ UNCHANGED <<inode, cached, raced>>
  BY <1>3, <1>5, <1>6 DEF AppendEntry, Continue, Entry
<1>9. /\ entries' \in [Inodes -> Seq(Entries)]
      /\ \A x \in Inodes : Distinct(entries'[x])
      /\ places' = [places EXCEPT ![k] = @ \cup {p}]
  BY <1>1, <1>5, <1>8, Added
<1>10. /\ call' \in [DOMAIN call' -> Calls] /\ DOMAIN call' \subseteq Threads
       /\ Range(call') \subseteq Calls
       /\ Others(t) /\ t \in DOMAIN call' /\ call'[t] = e
  BY <1>1, <1>2, <1>7, <1>8, Stepped
<1>11. places \in [Inodes -> SUBSET Places] BY <1>1, PlacesType
<1>12. About(t, k) BY <1>3, <1>7, <1>8, <1>9, <1>10, <1>11 DEF About
<1>13. TypeInv' BY <1>1, <1>8, <1>9, <1>10, TypeKept DEF TypeInv, StateTypes
<1>14. OrderInv' BY <1>1, <1>8, OrderKept
<1>15. ApartInv' /\ \A u \in DOMAIN call \ {t} : Clear(c, call[u])
  BY <1>1, <1>2, <1>3, <1>7, <1>10, OldApart
<1>16. /\ Making(k) = {t} /\ On(k) = {t} /\ places[k] = {} /\ k \notin raced /\ Alive(k)
       /\ inode[k].kind = "file" => inode[k].nlink = 1
  BY <1>3, <1>4 DEF Making, InodeFine, MadeFine
<1>17. places'[k] = {p} BY <1>9, <1>11, <1>16
<1>18. CallInv'
  <2>1. CallFine(e)' BY <1>4, <1>5, <1>7, <1>17, <1>3 DEF CallFine, Stages
  <2>2. PICK D, A : D = {} /\ A = {p} OBVIOUS
  <2>3. places'[k] = (places[k] \ D) \cup A BY <2>2, <1>16, <1>17
  <2>4. D = {} \/ (D = {c.from} /\ Moves(c)) BY <2>2
  <2>5. A = {} \/ (A = {c.to} /\ c.op \in {"create", "link", "rename"}) BY <2>2, <1>4, <1>5
  <2>6. inode'[k] = inode[k] /\ (k \in raced => k \in raced') BY <1>8
  <2> QED BY <1>1, <1>7, <1>10, <1>12, <1>15, <2>1, <2>3, <2>4, <2>5, <2>6, OtherFine
<1>19. InodeFine(k)'
  <2>1. On(k)' = {t} BY <1>10, <1>12, <1>16, Here, After
  <2>2. /\ Making(k)' = {} /\ Counting(k)' = {} /\ Putting(k)' = {}
        /\ Dropping(k)' = {} /\ Linking(k)' = {}
    BY <1>4, <1>7, <1>10, <2>1 DEF Making, Counting, Putting, Dropping, Linking
  <2>3. inode' = inode /\ raced' = raced /\ cached' = cached /\ Alive(k)' BY <1>8, <1>16 DEF Alive
  <2>4. UnusedFine(k)' BY <2>3 DEF UnusedFine, Alive
  <2>5. MadeFine(k)' BY <2>2 DEF MadeFine
  <2>6. AloneFine(k)' BY <2>2 DEF AloneFine
  <2>7. DirFine(k)' BY <1>16, <1>17, <2>2, <2>3 DEF DirFine
  <2>8. CountFine(k)'
    <3>1. Cardinality({p}) = 1
      <4>1. IsFiniteSet({}) /\ Cardinality({}) = 0 BY FS_EmptySet
      <4>2. Cardinality({} \cup {p}) = Cardinality({}) + 1 BY <4>1, FS_AddElement
      <4>3. {} \cup {p} = {p} OBVIOUS
      <4> QED BY <4>1, <4>2, <4>3
    <3>2. Cardinality({}) = 0 BY FS_EmptySet
    <3>3. inode'[k].kind = "file" => inode'[k].nlink = 1 BY <1>16, <2>3
    <3> QED BY <1>17, <2>2, <3>1, <3>2, <3>3 DEF CountFine
  <2>9. HeldFine(k)' BY <1>17 DEF HeldFine
  <2>10. PointerFine(k)' BY <2>3 DEF PointerFine
  <2> QED BY <2>4, <2>5, <2>6, <2>7, <2>8, <2>9, <2>10 DEF InodeFine
<1> QED BY <1>12, <1>13, <1>14, <1>15, <1>18, <1>19, Combined

(* Another call at the nlink of k is remembered. *)
LEMMA RaceSeen ==
  ASSUME NEW t, NEW k \in Inodes, TypeInv, Race(t, k)
  PROVE  /\ raced \subseteq raced' /\ raced' \subseteq raced \cup {k} /\ raced' \subseteq Inodes
         /\ k \notin raced' => \A u \in Counting(k) : u = t
BY DEF Race, Counting, On, TypeInv, StateTypes

LEMMA LinkEntry_Keeps ==
  ASSUME Inv, NEW t \in Threads, LinkEntry(t)
  PROVE  Inv'
<1>1. TypeInv /\ OrderInv /\ ApartInv /\ CallInv BY DEF Inv
<1>2. t \in DOMAIN call BY DEF LinkEntry, At
<1>3. PICK c \in Calls, k \in Inodes :
        /\ call[t] = c /\ c.ino = k /\ CallFine(c) /\ InodeFine(k)
        /\ t \in On(k) /\ c.from \in Places /\ c.to \in Places
        /\ inode[k].nlink \in Int /\ c.links \in Int
  BY <1>2, InProgress
<1>4. c.op = "link" /\ c.step = "append" BY <1>3 DEF LinkEntry, At
<1>5. PICK q \in Places : q = c.to /\ Vacant(q) BY <1>3, <1>4 DEF CallFine
<1>6. c.from \in places[k] /\ inode[k].kind # "dir" BY <1>3, <1>4 DEF CallFine
<1>7. PICK n \in Int : n = inode[k].nlink BY <1>3
<1>8. PICK e : e = [c EXCEPT !.step = "count", !.links = n] OBVIOUS
<1>9. /\ e \in Calls /\ e.op = c.op /\ e.ino = c.ino /\ e.from = c.from /\ e.to = c.to
      /\ e.step = "count" /\ e.links = n
  BY <1>8 DEF Calls
<1>10. /\ call' = [call EXCEPT ![t] = e]
       /\ entries' = [entries EXCEPT ![q[1]] = Append(@, Entry(q[2], k))]
       /\ Race(t, k) /\ Alive(k) /\ UNCHANGED <<inode, cached>>
  BY <1>3, <1>5, <1>7, <1>8 DEF LinkEntry, Entry
<1>11. /\ entries' \in [Inodes -> Seq(Entries)]
       /\ \A x \in Inodes : Distinct(entries'[x])
       /\ places' = [places EXCEPT ![k] = @ \cup {q}]
  BY <1>1, <1>5, <1>10, Added
<1>12. /\ call' \in [DOMAIN call' -> Calls] /\ DOMAIN call' \subseteq Threads
       /\ Range(call') \subseteq Calls
       /\ Others(t) /\ t \in DOMAIN call' /\ call'[t] = e
  BY <1>1, <1>2, <1>9, <1>10, Stepped
<1>13. places \in [Inodes -> SUBSET Places] BY <1>1, PlacesType
<1>14. /\ raced \subseteq raced' /\ raced' \subseteq raced \cup {k} /\ raced' \subseteq Inodes
       /\ k \notin raced' => \A u \in Counting(k) : u = t
  BY <1>1, <1>10, RaceSeen
<1>15. About(t, k) BY <1>3, <1>9, <1>10, <1>11, <1>12, <1>13, <1>14 DEF About
<1>16. TypeInv' BY <1>1, <1>10, <1>11, <1>12, <1>14, TypeKept DEF TypeInv, StateTypes
<1>17. OrderInv' BY <1>1, <1>10, OrderKept
<1>18. ApartInv' /\ \A u \in DOMAIN call \ {t} : Clear(c, call[u])
  BY <1>1, <1>2, <1>3, <1>9, <1>12, OldApart
<1>19. places'[k] = places[k] \cup {q} /\ inode' = inode BY <1>10, <1>11, <1>13
<1>20. CallInv'
  <2>1. CallFine(e)' BY <1>4, <1>5, <1>6, <1>7, <1>9, <1>19, <1>3 DEF CallFine, Stages
  <2>2. PICK D, A : D = {} /\ A = {q} OBVIOUS
  <2>3. places'[k] = (places[k] \ D) \cup A BY <2>2, <1>19
  <2>4. D = {} \/ (D = {c.from} /\ Moves(c)) BY <2>2
  <2>5. A = {} \/ (A = {c.to} /\ c.op \in {"create", "link", "rename"}) BY <2>2, <1>4, <1>5
  <2>6. inode'[k] = inode[k] /\ (k \in raced => k \in raced') BY <1>14, <1>19
  <2> QED BY <1>1, <1>9, <1>12, <1>15, <1>18, <2>1, <2>3, <2>4, <2>5, <2>6, OtherFine
<1>21. InodeFine(k)'
  <2>1. Alive(k)' /\ cached' = cached /\ inode'[k].kind # "dir" BY <1>6, <1>10 DEF Alive
  <2>2. Making(k) = {}
    BY <1>3, <1>6 DEF InodeFine, MadeFine
  <2>3. /\ t \notin Making(k)' /\ t \in Counting(k)' /\ t \notin Putting(k)'
        /\ t \notin Dropping(k)' /\ t \in Linking(k)'
    BY <1>4, <1>9, <1>12, <1>15, After DEF At
  <2>4. /\ t \notin Making(k) /\ t \notin Putting(k) /\ t \notin Dropping(k) /\ t \notin Linking(k)
        /\ t \notin Counting(k)
    BY <1>3, <1>4, <1>15, Before DEF At
  <2>5. Making(k)' = {} BY <1>15, <2>2, <2>3, Here
  <2>6. UnusedFine(k)' BY <2>1 DEF UnusedFine, Alive
  <2>7. MadeFine(k)' BY <2>5 DEF MadeFine
  <2>8. AloneFine(k)'
    <3>1. k \notin raced' => \A u \in Counting(k)' : u = t BY <1>14, <1>15, Here
    <3> QED BY <3>1 DEF AloneFine
  <2>9. DirFine(k)' BY <2>1 DEF DirFine
  <2>10. CountFine(k)'
    <3>1. SUFFICES ASSUME k \notin raced', inode[k].kind = "file"
                   PROVE  inode'[k].nlink = Cardinality(places'[k]) + Cardinality(Putting(k)')
                            + Cardinality(Dropping(k)') - Cardinality(Linking(k)')
      BY <1>19 DEF CountFine
    <3>2. n = Cardinality(places[k]) + Cardinality(Putting(k))
                + Cardinality(Dropping(k)) - Cardinality(Linking(k))
      BY <1>3, <1>7, <1>14, <2>2, <3>1 DEF InodeFine, CountFine
    <3>3. Cardinality(places'[k]) = Cardinality(places[k]) + 1
      <4>1. q \notin places[k] /\ IsFiniteSet(places[k]) BY <1>1, <1>5, PlacesType DEF Vacant
      <4> QED BY <4>1, <1>19, FS_AddElement
    <3>4. /\ Cardinality(Putting(k)) \in Nat /\ Cardinality(Dropping(k)) \in Nat
          /\ Cardinality(Linking(k)) \in Nat /\ Cardinality(places[k]) \in Nat
          /\ Cardinality(Putting(k)') = Cardinality(Putting(k))
          /\ Cardinality(Dropping(k)') = Cardinality(Dropping(k))
          /\ Cardinality(Linking(k)') = Cardinality(Linking(k)) + 1
      BY <1>1, <1>15, <2>3, <2>4, Sizes DEF One
    <3>5. inode'[k].nlink = n BY <1>7, <1>19
    <3> QED BY <3>2, <3>3, <3>4, <3>5
  <2>11. HeldFine(k)' BY <1>19 DEF HeldFine
  <2>12. PointerFine(k)' BY <2>1 DEF PointerFine
  <2> QED BY <2>6, <2>7, <2>8, <2>9, <2>10, <2>11, <2>12 DEF InodeFine
<1> QED BY <1>15, <1>16, <1>17, <1>18, <1>20, <1>21, Combined

LEMMA LinkCount_Keeps ==
  ASSUME Inv, NEW t \in Threads, LinkCount(t)
  PROVE  Inv'
<1>1. TypeInv /\ OrderInv /\ ApartInv /\ CallInv BY DEF Inv
<1>2. t \in DOMAIN call BY DEF LinkCount, At
<1>3. PICK c \in Calls, k \in Inodes :
        /\ call[t] = c /\ c.ino = k /\ CallFine(c) /\ InodeFine(k)
        /\ t \in On(k) /\ c.from \in Places /\ c.to \in Places
        /\ inode[k].nlink \in Int /\ c.links \in Int
  BY <1>2, InProgress
<1>4. c.op = "link" /\ c.step = "count" BY <1>3 DEF LinkCount, At
<1>5. /\ inode' = [inode EXCEPT ![k].nlink = c.links + 1]
      /\ Return(t) /\ Alive(k) /\ UNCHANGED <<entries, cached, raced>>
  BY <1>3 DEF LinkCount
<1>6. /\ c.to \in places[k] /\ inode[k].kind # "dir"
      /\ k \notin raced => c.links = inode[k].nlink
  BY <1>3, <1>4 DEF CallFine
<1>7. inode \in [Inodes -> [kind : {"dir", "file", "unused", "freed"}, nlink : Int]]
  BY <1>1 DEF TypeInv, StateTypes
<1>8. /\ inode' \in [Inodes -> [kind : {"dir", "file", "unused", "freed"}, nlink : Int]]
      /\ inode'[k].kind = inode[k].kind /\ inode'[k].nlink = c.links + 1
      /\ \A j \in Inodes \ {k} : inode'[j] = inode[j]
  BY <1>3, <1>5, <1>7
<1>9. places' = places BY <1>5, SamePlaces
<1>10. /\ call' \in [DOMAIN call' -> Calls] /\ DOMAIN call' \subseteq Threads
       /\ Range(call') \subseteq Calls
       /\ Others(t) /\ t \notin DOMAIN call'
  BY <1>1, <1>2, <1>5, Returned
<1>11. About(t, k) BY <1>3, <1>5, <1>8, <1>9, <1>10 DEF About
<1>12. TypeInv' BY <1>1, <1>5, <1>8, <1>10, TypeKept DEF TypeInv, StateTypes
<1>13. OrderInv' BY <1>1, <1>8, OrderKept
<1>14. ApartInv' /\ \A u \in DOMAIN call \ {t} : Clear(c, call[u])
  BY <1>1, <1>2, <1>3, <1>10, OldApart
<1>15. t \in Counting(k) /\ (k \notin raced => \A u \in Counting(k) : u = t)
  BY <1>3, <1>4 DEF Counting, InodeFine, AloneFine
<1>16. CallInv'
  <2>1. PICK D, A : D = {} /\ A = {} OBVIOUS
  <2>2. places'[k] = (places[k] \ D) \cup A BY <2>1, <1>9
  <2>3. D = {} \/ (D = {c.from} /\ Moves(c)) BY <2>1
  <2>4. A = {} \/ (A = {c.to} /\ c.op \in {"create", "link", "rename"}) BY <2>1
  <2>5. /\ k \in raced => k \in raced'
        /\ k \in raced' \/ \A u \in Counting(k) : u = t
    BY <1>5, <1>15
  <2>6. /\ inode'[k].kind = "dir" => inode[k].kind = "dir" \/ On(k) = {}
        /\ \/ k \in raced' \/ inode'[k].nlink = inode[k].nlink
           \/ \A u \in Counting(k) : u = t
    BY <1>8, <2>5
  <2> QED BY <1>1, <1>10, <1>11, <1>14, <2>2, <2>3, <2>4, <2>5, <2>6, OtherFine
<1>17. InodeFine(k)'
  <2>1. Alive(k)' /\ cached' = cached /\ raced' = raced /\ inode'[k].kind # "dir"
    BY <1>5, <1>6, <1>8 DEF Alive
  <2>2. Making(k) = {} BY <1>3, <1>6 DEF InodeFine, MadeFine
  <2>3. /\ t \notin Making(k)' /\ t \notin Counting(k)' /\ t \notin Putting(k)'
        /\ t \notin Dropping(k)' /\ t \notin Linking(k)'
    BY <1>10, <1>11, After DEF At
  <2>4. t \notin Putting(k) /\ t \notin Dropping(k) /\ t \in Linking(k)
    BY <1>2, <1>3, <1>4, <1>11, Before DEF At
  <2>5. Making(k)' = {} BY <1>11, <2>2, <2>3, Here
  <2>6. UnusedFine(k)' BY <2>1 DEF UnusedFine, Alive
  <2>7. MadeFine(k)' BY <2>5 DEF MadeFine
  <2>8. AloneFine(k)'
    <3>1. Counting(k)' \subseteq Counting(k) BY <1>11, <2>3, Here
    <3> QED BY <3>1, <1>15, <2>1 DEF AloneFine
  <2>9. DirFine(k)' BY <2>1 DEF DirFine
  <2>10. CountFine(k)'
    <3>1. SUFFICES ASSUME k \notin raced, inode[k].kind = "file"
                   PROVE  inode'[k].nlink = Cardinality(places'[k]) + Cardinality(Putting(k)')
                            + Cardinality(Dropping(k)') - Cardinality(Linking(k)')
      BY <1>8, <2>1 DEF CountFine
    <3>2. c.links = Cardinality(places[k]) + Cardinality(Putting(k))
                      + Cardinality(Dropping(k)) - Cardinality(Linking(k))
      BY <1>3, <1>6, <2>2, <3>1 DEF InodeFine, CountFine
    <3>3. /\ Cardinality(Putting(k)) \in Nat /\ Cardinality(Dropping(k)) \in Nat
          /\ Cardinality(Linking(k)) \in Nat /\ Cardinality(places[k]) \in Nat
          /\ Cardinality(Putting(k)') = Cardinality(Putting(k))
          /\ Cardinality(Dropping(k)') = Cardinality(Dropping(k))
          /\ Cardinality(Linking(k)') = Cardinality(Linking(k)) - 1
      BY <1>1, <1>11, <2>3, <2>4, Sizes DEF One
    <3>4. Cardinality(places'[k]) = Cardinality(places[k]) BY <1>9
    <3> QED BY <3>2, <3>3, <3>4, <1>8
  <2>11. HeldFine(k)' BY <1>6, <1>9 DEF HeldFine
  <2>12. PointerFine(k)' BY <2>1 DEF PointerFine
  <2> QED BY <2>6, <2>7, <2>8, <2>9, <2>10, <2>11, <2>12 DEF InodeFine
<1> QED BY <1>11, <1>12, <1>13, <1>14, <1>16, <1>17, Combined

----
(* Taking names away *)

LEMMA Unlink_Keeps ==
  ASSUME Inv, NEW t \in Threads, NEW p \in Places, Unlink(t, p)
  PROVE  Inv'
<1>1. TypeInv /\ OrderInv /\ ApartInv /\ CallInv BY DEF Inv
<1>2. PICK k \in Inodes : k = Target(p)
  BY <1>1, FindPlace DEF Unlink
<1>3. /\ p \in places[k] /\ inode[k].kind = "file" /\ k \notin raced /\ Taken(p)
  BY <1>1, <1>2, FindPlace DEF Unlink
<1>4. InodeFine(k) BY <1>3 DEF Inv, InodeInv
<1>5. inode[k].nlink \in Int BY <1>1, <1>3 DEF TypeInv, StateTypes
<1>6. PICK n \in Int : n = inode[k].nlink BY <1>5
<1>7. PICK b : b = NewCall("unlink", "count", p, p, k) OBVIOUS
<1>8. PICK c : c = [b EXCEPT !.links = n] OBVIOUS
<1>9. b \in Calls BY <1>3, <1>7 DEF NewCall, Calls
<1>10. /\ c \in Calls /\ c.op = "unlink" /\ c.step = "count" /\ c.from = p /\ c.to = p /\ c.ino = k
       /\ c.links = n
  <2>1. /\ b.op = "unlink" /\ b.step = "count" /\ b.from = p /\ b.to = p /\ b.ino = k
    BY <1>7 DEF NewCall
  <2> QED BY <1>8, <1>9, <2>1 DEF Calls
<1>11. /\ t \notin DOMAIN call /\ \A u \in DOMAIN call : Apart(b, call[u])
       /\ entries' = [entries EXCEPT ![p[1]] = RemoveAt(@, Find(p))]
       /\ Enter(t, c) /\ Race(t, k) /\ UNCHANGED <<inode, cached>>
  BY <1>2, <1>6, <1>7, <1>8 DEF Unlink, Admitted
<1>12. /\ entries' \in [Inodes -> Seq(Entries)]
       /\ \A x \in Inodes : Distinct(entries'[x])
       /\ places' = [places EXCEPT ![k] = @ \ {p}]
  BY <1>1, <1>2, <1>3, <1>11, Removed
<1>13. /\ call' \in [DOMAIN call' -> Calls] /\ DOMAIN call' \subseteq Threads
       /\ Range(call') \subseteq Calls
       /\ Others(t) /\ t \in DOMAIN call' /\ call'[t] = c
  BY <1>1, <1>10, <1>11, Entered
<1>14. places \in [Inodes -> SUBSET Places] BY <1>1, PlacesType
<1>15. /\ raced \subseteq raced' /\ raced' \subseteq raced \cup {k} /\ raced' \subseteq Inodes
       /\ k \notin raced' => \A u \in Counting(k) : u = t
  BY <1>1, <1>3, <1>11, RaceSeen
<1>16. About(t, k) BY <1>3, <1>10, <1>11, <1>12, <1>13, <1>14, <1>15 DEF About
<1>17. TypeInv' BY <1>1, <1>11, <1>12, <1>13, <1>15, TypeKept DEF TypeInv, StateTypes
<1>18. OrderInv' BY <1>1, <1>11, OrderKept
<1>19. ApartInv' /\ \A u \in DOMAIN call \ {t} : Clear(c, call[u])
  <2>1. \A u \in DOMAIN call : Apart(c, call[u])
    <3>1. b.op = "unlink" /\ b.from = p /\ b.to = p /\ b.ino = k BY <1>7 DEF NewCall
    <3> QED BY <1>10, <1>11, <3>1 DEF Apart, Changes, Disturbs, Moves, Crosses
  <2> QED BY <1>1, <1>11, <1>13, <2>1, NewApart
<1>20. places'[k] = places[k] \ {p} /\ inode' = inode BY <1>3, <1>11, <1>12, <1>14
<1>21. CallInv'
  <2>1. CallFine(c)' BY <1>3, <1>6, <1>10, <1>20 DEF CallFine, Stages
  <2>2. PICK D, A : D = {p} /\ A = {} OBVIOUS
  <2>3. places'[k] = (places[k] \ D) \cup A BY <2>2, <1>20
  <2>4. D = {} \/ (D = {c.from} /\ Moves(c)) BY <2>2, <1>10 DEF Moves
  <2>5. A = {} \/ (A = {c.to} /\ c.op \in {"create", "link", "rename"}) BY <2>2
  <2>6. /\ k \in raced => k \in raced'
        /\ inode'[k].kind = "dir" => inode[k].kind = "dir" \/ On(k) = {}
        /\ \/ k \in raced' \/ inode'[k].nlink = inode[k].nlink
           \/ \A u \in Counting(k) : u = t
    BY <1>15, <1>20
  <2>7. /\ TypeInv /\ CallInv /\ c \in Calls /\ call' \in [DOMAIN call' -> Calls]
        /\ t \in DOMAIN call' => call'[t] = c /\ CallFine(c)'
    BY <1>1, <1>10, <1>13, <2>1
  <2> QED BY <1>16, <1>19, <2>3, <2>4, <2>5, <2>6, <2>7, OtherFine
<1>22. InodeFine(k)'
  <2>1. Alive(k)' /\ cached' = cached /\ inode'[k].kind # "dir" BY <1>3, <1>11 DEF Alive
  <2>2. Making(k) = {}
    BY <1>3, <1>4 DEF InodeFine, MadeFine
  <2>3. /\ t \notin Making(k)' /\ t \in Counting(k)' /\ t \notin Putting(k)'
        /\ t \in Dropping(k)' /\ t \notin Linking(k)'
    BY <1>10, <1>13, <1>16, After DEF At
  <2>4. t \notin Putting(k) /\ t \notin Dropping(k) /\ t \notin Linking(k)
    BY <1>11, <1>16, Before DEF At
  <2>5. Making(k)' = {} BY <1>16, <2>2, <2>3, Here
  <2>6. UnusedFine(k)' BY <2>1 DEF UnusedFine, Alive
  <2>7. MadeFine(k)' BY <2>5 DEF MadeFine
  <2>8. AloneFine(k)'
    <3>1. k \notin raced' => \A u \in Counting(k)' : u = t BY <1>15, <1>16, Here
    <3> QED BY <3>1 DEF AloneFine
  <2>9. DirFine(k)' BY <2>1 DEF DirFine
  <2>10. CountFine(k)'
    <3>1. n = Cardinality(places[k]) + Cardinality(Putting(k))
                + Cardinality(Dropping(k)) - Cardinality(Linking(k))
      BY <1>3, <1>4, <1>6, <2>2 DEF InodeFine, CountFine
    <3>2. Cardinality(places'[k]) = Cardinality(places[k]) - 1
      <4>1. IsFiniteSet(places[k]) BY <1>1, PlacesType
      <4> QED BY <4>1, <1>3, <1>20, FS_RemoveElement
    <3>3. /\ Cardinality(Putting(k)) \in Nat /\ Cardinality(Dropping(k)) \in Nat
          /\ Cardinality(Linking(k)) \in Nat /\ Cardinality(places[k]) \in Nat
          /\ Cardinality(Putting(k)') = Cardinality(Putting(k))
          /\ Cardinality(Dropping(k)') = Cardinality(Dropping(k)) + 1
          /\ Cardinality(Linking(k)') = Cardinality(Linking(k))
      BY <1>1, <1>3, <1>16, <2>3, <2>4, Sizes DEF One
    <3>4. inode'[k].nlink = n BY <1>6, <1>20
    <3>5. inode'[k].nlink = Cardinality(places'[k]) + Cardinality(Putting(k)')
                              + Cardinality(Dropping(k)') - Cardinality(Linking(k)')
      BY <3>1, <3>2, <3>3, <3>4
    <3> QED BY <3>5 DEF CountFine
  <2>11. HeldFine(k)' BY <2>3 DEF HeldFine
  <2>12. PointerFine(k)' BY <2>1 DEF PointerFine
  <2> QED BY <2>6, <2>7, <2>8, <2>9, <2>10, <2>11, <2>12 DEF InodeFine
<1> QED BY <1>3, <1>16, <1>17, <1>18, <1>19, <1>21, <1>22, Combined

(* A call on k that is not making it leaves none that is. *)
LEMMA NotMaking ==
  ASSUME NEW k \in Inodes, InodeFine(k), NEW t \in On(k), t \notin Making(k)
  PROVE  Making(k) = {}
BY DEF InodeFine, MadeFine

LEMMA UnlinkCount_Keeps ==
  ASSUME Inv, NEW t \in Threads, UnlinkCount(t)
  PROVE  Inv'
<1>1. TypeInv /\ OrderInv /\ ApartInv /\ CallInv BY DEF Inv
<1>2. t \in DOMAIN call BY DEF UnlinkCount, At
<1>3. PICK c \in Calls, k \in Inodes :
        /\ call[t] = c /\ c.ino = k /\ CallFine(c) /\ InodeFine(k)
        /\ t \in On(k) /\ c.from \in Places /\ c.to \in Places
        /\ inode[k].nlink \in Int /\ c.links \in Int
  BY <1>2, InProgress
<1>4. c.op = "unlink" /\ c.step = "count" BY <1>3 DEF UnlinkCount, At
<1>5. PICK e : e = [c EXCEPT !.step = "test"] OBVIOUS
<1>6. /\ e \in Calls /\ e.op = c.op /\ e.ino = c.ino /\ e.from = c.from /\ e.to = c.to
      /\ e.step = "test" /\ e.links = c.links
  BY <1>5 DEF Calls
<1>7. /\ inode' = [inode EXCEPT ![k].nlink = c.links - 1]
      /\ call' = [call EXCEPT ![t] = e] /\ Alive(k) /\ UNCHANGED <<entries, cached, raced>>
  BY <1>3, <1>5 DEF UnlinkCount, Continue
<1>8. /\ inode[k].kind # "dir" /\ c.to = c.from
      /\ k \notin raced => c.links = inode[k].nlink
  BY <1>3, <1>4 DEF CallFine
<1>9. inode \in [Inodes -> [kind : {"dir", "file", "unused", "freed"}, nlink : Int]]
  BY <1>1 DEF TypeInv, StateTypes
<1>10. /\ inode' \in [Inodes -> [kind : {"dir", "file", "unused", "freed"}, nlink : Int]]
       /\ inode'[k].kind = inode[k].kind /\ inode'[k].nlink = c.links - 1
       /\ \A j \in Inodes \ {k} : inode'[j] = inode[j]
  BY <1>3, <1>7, <1>9
<1>11. places' = places BY <1>7, SamePlaces
<1>12. /\ call' \in [DOMAIN call' -> Calls] /\ DOMAIN call' \subseteq Threads
       /\ Range(call') \subseteq Calls
       /\ Others(t) /\ t \in DOMAIN call' /\ call'[t] = e
  BY <1>1, <1>2, <1>6, <1>7, Stepped
<1>13. About(t, k) BY <1>3, <1>6, <1>7, <1>10, <1>11, <1>12 DEF About
<1>14. TypeInv' BY <1>1, <1>7, <1>10, <1>12, TypeKept DEF TypeInv, StateTypes
<1>15. OrderInv' BY <1>1, <1>10, OrderKept
<1>16. ApartInv' /\ \A u \in DOMAIN call \ {t} : Clear(c, call[u])
  BY <1>1, <1>2, <1>3, <1>6, <1>12, OldApart
<1>17. t \in Counting(k) /\ (k \notin raced => \A u \in Counting(k) : u = t)
  BY <1>3, <1>4 DEF Counting, InodeFine, AloneFine
<1>18. CallInv'
  <2>1. CallFine(e)'
    <3>1. inode'[k].nlink + 1 = c.links BY <1>3, <1>10
    <3> QED BY <1>3, <1>4, <1>6, <1>8, <1>10, <3>1 DEF CallFine, Stages
  <2>2. PICK D, A : D = {} /\ A = {} OBVIOUS
  <2>3. places'[k] = (places[k] \ D) \cup A BY <2>2, <1>11
  <2>4. D = {} \/ (D = {c.from} /\ Moves(c)) BY <2>2
  <2>5. A = {} \/ (A = {c.to} /\ c.op \in {"create", "link", "rename"}) BY <2>2
  <2>6. /\ k \in raced => k \in raced'
        /\ k \in raced' \/ \A u \in Counting(k) : u = t
    BY <1>7, <1>17
  <2>7. /\ inode'[k].kind = "dir" => inode[k].kind = "dir" \/ On(k) = {}
        /\ \/ k \in raced' \/ inode'[k].nlink = inode[k].nlink
           \/ \A u \in Counting(k) : u = t
    BY <1>10, <2>6
  <2>8. /\ TypeInv /\ CallInv /\ e \in Calls /\ call' \in [DOMAIN call' -> Calls]
        /\ t \in DOMAIN call' => call'[t] = e /\ CallFine(e)'
    BY <1>1, <1>6, <1>12, <2>1
  <2> QED BY <1>13, <1>16, <2>3, <2>4, <2>5, <2>6, <2>7, <2>8, OtherFine
<1>19. InodeFine(k)'
  <2>1. Alive(k)' /\ cached' = cached /\ raced' = raced /\ inode'[k].kind # "dir"
    BY <1>7, <1>8, <1>10 DEF Alive
  <2>2. /\ t \notin Making(k)' /\ t \in Counting(k)' /\ t \notin Putting(k)'
        /\ t \notin Dropping(k)' /\ t \notin Linking(k)'
    BY <1>4, <1>6, <1>12, <1>13, After DEF At
  <2>3. t \notin Making(k) /\ t \notin Putting(k) /\ t \in Dropping(k) /\ t \notin Linking(k)
    BY <1>2, <1>3, <1>4, <1>13, Before DEF At
  <2>4. Making(k) = {} BY <1>3, <2>3, NotMaking
  <2>5. Making(k)' = {} BY <1>13, <2>2, <2>4, Here
  <2>6. UnusedFine(k)' BY <2>1 DEF UnusedFine, Alive
  <2>7. MadeFine(k)' BY <2>5 DEF MadeFine
  <2>8. AloneFine(k)'
    <3>1. Counting(k)' = Counting(k) BY <1>13, <1>17, <2>2, Here
    <3> QED BY <3>1, <1>17, <2>1 DEF AloneFine
  <2>9. DirFine(k)' BY <2>1 DEF DirFine
  <2>10. CountFine(k)'
    <3>1. SUFFICES ASSUME k \notin raced, inode[k].kind = "file"
                   PROVE  inode'[k].nlink = Cardinality(places'[k]) + Cardinality(Putting(k)')
                            + Cardinality(Dropping(k)') - Cardinality(Linking(k)')
      BY <1>10, <2>1 DEF CountFine
    <3>2. c.links = Cardinality(places[k]) + Cardinality(Putting(k))
                      + Cardinality(Dropping(k)) - Cardinality(Linking(k))
      BY <1>3, <1>8, <2>4, <3>1 DEF InodeFine, CountFine
    <3>3. /\ Cardinality(Putting(k)) \in Nat /\ Cardinality(Dropping(k)) \in Nat
          /\ Cardinality(Linking(k)) \in Nat /\ Cardinality(places[k]) \in Nat
          /\ Cardinality(Putting(k)') = Cardinality(Putting(k))
          /\ Cardinality(Dropping(k)') = Cardinality(Dropping(k)) - 1
          /\ Cardinality(Linking(k)') = Cardinality(Linking(k))
      BY <1>1, <1>13, <2>2, <2>3, Sizes DEF One
    <3>4. Cardinality(places'[k]) = Cardinality(places[k]) BY <1>11
    <3> QED BY <3>2, <3>3, <3>4, <1>10
  <2>11. HeldFine(k)' BY <2>2 DEF HeldFine
  <2>12. PointerFine(k)' BY <2>1 DEF PointerFine
  <2> QED BY <2>6, <2>7, <2>8, <2>9, <2>10, <2>11, <2>12 DEF InodeFine
<1> QED BY <1>13, <1>14, <1>15, <1>16, <1>18, <1>19, Combined

(* An inode that no place leads to and no call has in hand is not known to
   any call but one that is at its nlink. *)
LEMMA Unknown ==
  ASSUME Inv, NEW k \in Inodes, places[k] = {}, Making(k) = {}, Putting(k) = {}
  PROVE  On(k) \subseteq Counting(k)
<1> SUFFICES ASSUME NEW u \in On(k) PROVE u \in Counting(k)
  OBVIOUS
<1>1. PICK e \in Calls : u \in DOMAIN call /\ call[u] = e /\ e.ino = k
  BY CallTypes DEF Inv, On
<1>2. CallFine(e) BY <1>1 DEF Inv, CallInv
<1>3. ~(e.step \in {"cache", "take"} \/ e.op \in {"link", "use"})
  BY <1>1, <1>2 DEF CallFine
<1>4. <<e.op, e.step>> # <<"rename", "touch">> BY <1>1, <1>2 DEF CallFine
<1>5. <<e.op, e.step>> # <<"create", "append">> BY <1>1 DEF Making
<1>6. <<e.op, e.step>> # <<"rename", "put">> BY <1>1 DEF Putting
<1>7. e.step \in {"count", "test"}
  BY <1>2, <1>3, <1>4, <1>5, <1>6 DEF CallFine, Stages
<1> QED BY <1>1, <1>7 DEF Counting

(* An inode that goes: nothing may lead to it, unless it is in raced. *)
LEMMA Freed ==
  ASSUME NEW k \in Inodes, InodeFine(k), inode'[k].kind = "freed", k \notin cached',
         Making(k)' = {}, Counting(k)' \subseteq Counting(k),
         k \in raced' <=> k \in raced,
         k \notin raced => places'[k] = {} /\ On(k)' = {}
  PROVE  InodeFine(k)'
<1>1. ~Alive(k)' BY DEF Alive
<1>2. UnusedFine(k)' BY DEF UnusedFine
<1>3. MadeFine(k)' BY DEF MadeFine
<1>4. AloneFine(k)' BY DEF InodeFine, AloneFine
<1>5. DirFine(k)' BY DEF DirFine
<1>6. CountFine(k)' BY DEF CountFine
<1>7. HeldFine(k)' BY <1>1 DEF HeldFine
<1>8. PointerFine(k)' BY DEF PointerFine
<1> QED BY <1>2, <1>3, <1>4, <1>5, <1>6, <1>7, <1>8 DEF InodeFine

LEMMA UnlinkFree_Keeps ==
  ASSUME Inv, NEW t \in Threads, UnlinkFree(t)
  PROVE  Inv'
<1>1. TypeInv /\ OrderInv /\ ApartInv /\ CallInv BY DEF Inv
<1>2. t \in DOMAIN call BY DEF UnlinkFree, At
<1>3. PICK c \in Calls, k \in Inodes :
        /\ call[t] = c /\ c.ino = k /\ CallFine(c) /\ InodeFine(k)
        /\ t \in On(k) /\ c.from \in Places /\ c.to \in Places
        /\ inode[k].nlink \in Int /\ c.links \in Int
  BY <1>2, InProgress
<1>4. c.op = "unlink" /\ c.step = "test" BY <1>3 DEF UnlinkFree, At
<1>5. PICK links \in {c.links - 1, inode[k].nlink} :
        IF links = 0
        THEN /\ cached' = cached \ {k}
             /\ inode' = [inode EXCEPT ![k].kind = "freed"]
        ELSE UNCHANGED <<cached, inode>>
  BY <1>3 DEF UnlinkFree
<1>6. Return(t) /\ Alive(k) /\ UNCHANGED <<entries, raced>> BY <1>3 DEF UnlinkFree
<1>7. /\ inode[k].kind # "dir"
      /\ k \notin raced => links = inode[k].nlink
  BY <1>3, <1>4, <1>5 DEF CallFine
<1>8. inode \in [Inodes -> [kind : {"dir", "file", "unused", "freed"}, nlink : Int]]
  BY <1>1 DEF TypeInv, StateTypes
<1>9. /\ inode' \in [Inodes -> [kind : {"dir", "file", "unused", "freed"}, nlink : Int]]
      /\ \A j \in Inodes \ {k} : inode'[j] = inode[j]
      /\ inode'[k].kind = (IF links = 0 THEN "freed" ELSE inode[k].kind)
      /\ inode'[k].nlink = inode[k].nlink /\ cached' \subseteq cached
  BY <1>3, <1>5, <1>8
<1>10. places' = places BY <1>6, SamePlaces
<1>11. /\ call' \in [DOMAIN call' -> Calls] /\ DOMAIN call' \subseteq Threads
       /\ Range(call') \subseteq Calls
       /\ Others(t) /\ t \notin DOMAIN call'
  BY <1>1, <1>2, <1>6, Returned
<1>12. About(t, k) BY <1>3, <1>6, <1>9, <1>10, <1>11 DEF About
<1>13. TypeInv' BY <1>1, <1>6, <1>9, <1>11, TypeKept DEF TypeInv, StateTypes
<1>14. OrderInv'
  <2>1. inode[k].kind # "unused" BY <1>6 DEF Alive
  <2> QED BY <1>1, <1>9, <2>1, OrderKept
<1>15. ApartInv' /\ \A u \in DOMAIN call \ {t} : Clear(c, call[u])
  BY <1>1, <1>2, <1>3, <1>11, OldApart
<1>16. CallInv'
  <2>1. PICK D, A : D = {} /\ A = {} OBVIOUS
  <2>2. places'[k] = (places[k] \ D) \cup A BY <2>1, <1>10
  <2>3. D = {} \/ (D = {c.from} /\ Moves(c)) BY <2>1
  <2>4. A = {} \/ (A = {c.to} /\ c.op \in {"create", "link", "rename"}) BY <2>1
  <2>5. /\ k \in raced => k \in raced'
        /\ inode'[k].kind = "dir" => inode[k].kind = "dir" \/ On(k) = {}
        /\ \/ k \in raced' \/ inode'[k].nlink = inode[k].nlink
           \/ \A u \in Counting(k) : u = t
    BY <1>6, <1>9
  <2>6. /\ TypeInv /\ CallInv /\ c \in Calls /\ call' \in [DOMAIN call' -> Calls]
        /\ t \notin DOMAIN call'
    BY <1>1, <1>11
  <2> QED BY <1>12, <1>15, <2>2, <2>3, <2>4, <2>5, <2>6, OtherFine
<1>17. /\ t \notin On(k)' /\ t \notin Making(k)' /\ t \notin Counting(k)' /\ t \notin Putting(k)'
       /\ t \notin Dropping(k)' /\ t \notin Linking(k)'
  BY <1>11, <1>12, After DEF At
<1>18. /\ t \notin Making(k) /\ t \in Counting(k) /\ t \notin Putting(k)
       /\ t \notin Dropping(k) /\ t \notin Linking(k)
  BY <1>2, <1>3, <1>4, <1>12, Before DEF At
<1>19. Making(k) = {} BY <1>3, <1>18, NotMaking
<1>20. /\ Making(k)' = {} /\ Counting(k)' \subseteq Counting(k) /\ Putting(k)' = Putting(k)
       /\ Dropping(k)' = Dropping(k) /\ Linking(k)' = Linking(k) /\ On(k)' \subseteq On(k)
  <2>1. Making(k)' \ {t} = Making(k) \ {t} BY <1>12, Here
  <2>2. Counting(k)' \ {t} = Counting(k) \ {t} BY <1>12, Here
  <2>3. Putting(k)' \ {t} = Putting(k) \ {t} BY <1>12, Here
  <2>4. Dropping(k)' \ {t} = Dropping(k) \ {t} BY <1>12, Here
  <2>5. Linking(k)' \ {t} = Linking(k) \ {t} BY <1>12, Here
  <2>6. On(k)' \ {t} = On(k) \ {t} BY <1>12, Here
  <2>7. Making(k)' = {} BY <2>1, <1>17, <1>19
  <2>8. Counting(k)' \subseteq Counting(k) BY <2>2, <1>17
  <2>9. Putting(k)' = Putting(k)
    <3>1. t \notin Putting(k)' /\ t \notin Putting(k) BY <1>17, <1>18
    <3> QED BY <2>3, <3>1
  <2>10. Dropping(k)' = Dropping(k)
    <3>1. t \notin Dropping(k)' /\ t \notin Dropping(k) BY <1>17, <1>18
    <3> QED BY <2>4, <3>1
  <2>11. Linking(k)' = Linking(k)
    <3>1. t \notin Linking(k)' /\ t \notin Linking(k) BY <1>17, <1>18
    <3> QED BY <2>5, <3>1
  <2>12. On(k)' \subseteq On(k) BY <2>6, <1>17
  <2> QED BY <2>7, <2>8, <2>9, <2>10, <2>11, <2>12
(* The count is that of the names. *)
<1>21. ASSUME k \notin raced
       PROVE  links = Cardinality(places[k]) + Cardinality(Putting(k))
  <2>1. inode[k].kind = "file" BY <1>6, <1>7, <1>8 DEF Alive
  <2>2. links = Cardinality(places[k]) + Cardinality(Putting(k))
                  + Cardinality(Dropping(k)) - Cardinality(Linking(k))
    BY <1>3, <1>7, <1>19, <1>21, <2>1 DEF InodeFine, CountFine
  <2>3. \A u \in Counting(k) : u = t BY <1>3, <1>18, <1>21 DEF InodeFine, AloneFine
  <2>4. Dropping(k) \subseteq Counting(k) /\ Linking(k) \subseteq Counting(k)
    BY DEF Dropping, Linking, Counting
  <2>5. Dropping(k) = {} /\ Linking(k) = {} BY <1>18, <2>3, <2>4
  <2>6. Cardinality({}) = 0 BY FS_EmptySet
  <2>7. Cardinality(Putting(k)) \in Nat /\ Cardinality(places[k]) \in Nat BY <1>1, <1>12, Sizes
  <2> QED BY <2>2, <2>5, <2>6, <2>7
<1>22. k \notin raced => (links = 0 <=> places[k] = {} /\ Putting(k) = {})
  <2>1. IsFiniteSet(places[k]) /\ IsFiniteSet(Putting(k)) BY <1>1, PlacesType, CallsFinite
  <2>2. Cardinality(Putting(k)) \in Nat /\ Cardinality(places[k]) \in Nat
    BY <2>1, FS_CardinalityType
  <2>3. /\ Cardinality(places[k]) = 0 <=> places[k] = {}
        /\ Cardinality(Putting(k)) = 0 <=> Putting(k) = {}
    BY <2>1, FS_EmptySet
  <2> QED BY <1>21, <2>2, <2>3
<1>23. InodeFine(k)'
  <2>1. CASE links = 0
    <3>1. inode'[k].kind = "freed" /\ k \notin cached' BY <1>5, <1>9, <2>1
    <3>2. ASSUME k \notin raced PROVE places'[k] = {} /\ On(k)' = {}
      <4>1. places[k] = {} /\ Putting(k) = {} BY <1>22, <2>1, <3>2
      <4>2. On(k) \subseteq Counting(k) BY <1>19, <4>1, Unknown
      <4>3. \A u \in Counting(k) : u = t BY <1>3, <1>18, <3>2 DEF InodeFine, AloneFine
      <4>4. On(k)' = {} BY <1>17, <1>20, <4>2, <4>3
      <4> QED BY <1>10, <4>1, <4>4
    <3>3. k \in raced' <=> k \in raced BY <1>6
    <3> QED BY <1>3, <1>20, <3>1, <3>2, <3>3, Freed
  <2>2. CASE links # 0
    <3>1. inode' = inode /\ cached' = cached /\ raced' = raced /\ Alive(k)'
      BY <1>5, <1>6, <2>2 DEF Alive
    <3>2. UnusedFine(k)' BY <3>1 DEF UnusedFine, Alive
    <3>3. MadeFine(k)' BY <1>20 DEF MadeFine
    <3>4. AloneFine(k)' BY <1>3, <1>20, <3>1 DEF InodeFine, AloneFine
    <3>5. DirFine(k)' BY <1>7, <3>1 DEF DirFine
    <3>6. CountFine(k)' BY <1>3, <1>10, <1>19, <1>20, <3>1 DEF InodeFine, CountFine
    <3>7. HeldFine(k)' BY <1>10, <1>20, <1>22, <2>2, <3>1 DEF HeldFine
    <3>8. PointerFine(k)' BY <3>1 DEF PointerFine
    <3> QED BY <3>2, <3>3, <3>4, <3>5, <3>6, <3>7, <3>8 DEF InodeFine
  <2> QED BY <2>1, <2>2
<1> QED BY <1>12, <1>13, <1>14, <1>15, <1>16, <1>23, Combined

LEMMA RemoveDirectory_Keeps ==
  ASSUME Inv, NEW t \in Threads, NEW p \in Places, RemoveDirectory(t, p)
  PROVE  Inv'
<1>1. TypeInv /\ OrderInv /\ ApartInv /\ CallInv BY DEF Inv
<1>2. PICK k \in Inodes : k = Target(p)
  BY <1>1, FindPlace DEF RemoveDirectory
<1>3. /\ p \in places[k] /\ inode[k].kind = "dir" /\ Taken(p)
  BY <1>1, <1>2, FindPlace DEF RemoveDirectory
<1>4. InodeFine(k) BY DEF Inv, InodeInv
<1>5. PICK c : c = NewCall("rmdir", "take", p, p, k) OBVIOUS
<1>6. c \in Calls BY <1>5 DEF NewCall, Calls
<1>7. c.op = "rmdir" /\ c.from = p /\ c.to = p /\ c.ino = k BY <1>5 DEF NewCall
<1>8. /\ t \notin DOMAIN call /\ \A u \in DOMAIN call : Apart(c, call[u])
      /\ entries' = [entries EXCEPT ![p[1]] = RemoveAt(@, Find(p))]
      /\ cached' = cached \ {k}
      /\ inode' = [inode EXCEPT ![k].kind = "freed"]
      /\ UNCHANGED <<call, raced>>
  BY <1>2, <1>5 DEF RemoveDirectory, Admitted
<1>9. /\ entries' \in [Inodes -> Seq(Entries)]
      /\ \A x \in Inodes : Distinct(entries'[x])
      /\ places' = [places EXCEPT ![k] = @ \ {p}]
  BY <1>1, <1>2, <1>3, <1>8, Removed
<1>10. places \in [Inodes -> SUBSET Places] BY <1>1, PlacesType
<1>11. inode \in [Inodes -> [kind : {"dir", "file", "unused", "freed"}, nlink : Int]]
  BY <1>1 DEF TypeInv, StateTypes
<1>12. /\ inode' \in [Inodes -> [kind : {"dir", "file", "unused", "freed"}, nlink : Int]]
       /\ inode'[k].kind = "freed" /\ \A j \in Inodes \ {k} : inode'[j] = inode[j]
  BY <1>8, <1>11
<1>13. Others(t) BY <1>8 DEF Others
<1>14. About(t, k) BY <1>8, <1>9, <1>10, <1>12, <1>13 DEF About
<1>15. TypeInv' BY <1>1, <1>8, <1>9, <1>12, TypeKept DEF TypeInv, StateTypes
<1>16. OrderInv' BY <1>1, <1>3, <1>12, OrderKept
<1>17. ApartInv' /\ \A u \in DOMAIN call \ {t} : Clear(c, call[u])
  BY <1>1, <1>8, <1>13, NewApart
<1>18. \A q \in places[k] : q = p
  BY <1>3, <1>4 DEF InodeFine, DirFine
<1>19. places'[k] = {} BY <1>9, <1>10, <1>18
(* What is on k goes through p, or is at an nlink or in hand. *)
<1>20. On(k) = {}
  <2> SUFFICES ASSUME NEW u \in On(k) PROVE FALSE
    OBVIOUS
  <2>1. PICK e \in Calls : u \in DOMAIN call /\ call[u] = e /\ e.ino = k
    BY <1>1, CallTypes DEF On
  <2>2. CallFine(e) /\ Clear(c, e) BY <1>1, <1>8, <1>17, <2>1 DEF CallInv
  <2>3. p[1] \in Changes(c) /\ k \in Changes(c) BY <1>7 DEF Changes
  <2>4. Changes(c) \cap Changes(e) = {} BY <2>2 DEF Clear
  <2>5. e.op \notin {"link", "unlink", "use"} BY <1>3, <2>1, <2>2 DEF CallFine
  <2>6. e.op \in {"create", "rename"} BY <2>2, <2>5 DEF CallFine, Stages
  <2>7. e.from[1] \in Changes(e) /\ e.to[1] \in Changes(e) BY <2>6 DEF Changes
  <2>8. e.from \notin places[k] /\ e.to \notin places[k] BY <1>18, <2>3, <2>4, <2>7
  <2>9. e.step \notin {"cache", "take"} /\ <<e.op, e.step>> # <<"rename", "touch">>
    BY <2>1, <2>2, <2>8 DEF CallFine
  <2>10. <<e.op, e.step>> # <<"create", "append">>
    <3>1. Making(k) = {} BY <1>3, <1>4 DEF InodeFine, MadeFine
    <3> QED BY <2>1, <3>1 DEF Making, On
  <2>11. <<e.op, e.step>> # <<"rename", "put">>
    <3>1. Putting(k) = {} BY <1>3, <1>4 DEF InodeFine, DirFine
    <3> QED BY <2>1, <3>1 DEF Putting, On
  <2> QED BY <2>2, <2>6, <2>9, <2>10, <2>11 DEF CallFine, Stages
<1>21. CallInv'
  <2>1. PICK D, A : D = {p} /\ A = {} OBVIOUS
  <2>2. places'[k] = (places[k] \ D) \cup A BY <2>1, <1>9, <1>10
  <2>3. D = {} \/ (D = {c.from} /\ Moves(c)) BY <2>1, <1>7 DEF Moves
  <2>4. A = {} \/ (A = {c.to} /\ c.op \in {"create", "link", "rename"}) BY <2>1
  <2>5. /\ k \in raced => k \in raced'
        /\ inode'[k].kind = "dir" => inode[k].kind = "dir" \/ On(k) = {}
        /\ \/ k \in raced' \/ inode'[k].nlink = inode[k].nlink
           \/ \A u \in Counting(k) : u = t
    BY <1>8, <1>3, <1>11
  <2>6. /\ TypeInv /\ CallInv /\ call' \in [DOMAIN call' -> Calls] /\ t \notin DOMAIN call'
    BY <1>1, <1>8, CallTypes
  <2> QED BY <1>6, <1>14, <1>17, <2>2, <2>3, <2>4, <2>5, <2>6, OtherFine
<1>22. InodeFine(k)'
  <2>1. On(k)' = {} BY <1>8, <1>20 DEF On
  <2>2. Making(k)' = {} /\ Counting(k)' = {} BY <2>1 DEF Making, Counting
  <2>3. (k \in raced' <=> k \in raced) /\ k \notin cached' BY <1>8
  <2> QED BY <1>4, <1>12, <1>19, <2>1, <2>2, <2>3, Freed
<1> QED BY <1>14, <1>15, <1>16, <1>17, <1>21, <1>22, Combined

----
(* Moving names *)

LEMMA RenameTake_Keeps ==
  ASSUME Inv, NEW t \in Threads, RenameTake(t)
  PROVE  Inv'
<1>1. TypeInv /\ OrderInv /\ ApartInv /\ CallInv BY DEF Inv
<1>2. t \in DOMAIN call BY DEF RenameTake, At
<1>3. PICK c \in Calls, k \in Inodes :
        /\ call[t] = c /\ c.ino = k /\ CallFine(c) /\ InodeFine(k)
        /\ t \in On(k) /\ c.from \in Places /\ c.to \in Places
        /\ inode[k].nlink \in Int /\ c.links \in Int
  BY <1>2, InProgress
<1>4. c.op = "rename" /\ c.step = "take" BY <1>3 DEF RenameTake, At
<1>5. PICK p \in Places : p = c.from BY <1>3
<1>6. p \in places[k] /\ Vacant(c.to) BY <1>3, <1>4, <1>5 DEF CallFine
<1>7. Taken(p) /\ Target(p) = k
  <2>1. Taken(p) BY <1>1, <1>6, FindPlace DEF Vacant
  <2>2. Target(p) \in Inodes /\ p \in places[Target(p)] BY <1>1, <2>1, FindPlace
  <2> QED BY <1>1, <1>6, <2>1, <2>2, PlacesType
<1>8. PICK e : e = [c EXCEPT !.step = "put"] OBVIOUS
<1>9. /\ e \in Calls /\ e.op = c.op /\ e.ino = c.ino /\ e.from = c.from /\ e.to = c.to
      /\ e.step = "put"
  BY <1>8 DEF Calls
<1>10. /\ call' = [call EXCEPT ![t] = e]
       /\ entries' = [entries EXCEPT ![p[1]] = RemoveAt(@, Find(p))]
       /\ UNCHANGED <<inode, cached, raced>>
  BY <1>3, <1>5, <1>7, <1>8 DEF RenameTake, Continue
<1>11. /\ entries' \in [Inodes -> Seq(Entries)]
       /\ \A x \in Inodes : Distinct(entries'[x])
       /\ places' = [places EXCEPT ![k] = @ \ {p}]
  BY <1>1, <1>7, <1>10, Removed
<1>12. /\ call' \in [DOMAIN call' -> Calls] /\ DOMAIN call' \subseteq Threads
       /\ Range(call') \subseteq Calls
       /\ Others(t) /\ t \in DOMAIN call' /\ call'[t] = e
  BY <1>1, <1>2, <1>9, <1>10, Stepped
<1>13. places \in [Inodes -> SUBSET Places] BY <1>1, PlacesType
<1>14. About(t, k) BY <1>3, <1>9, <1>10, <1>11, <1>12, <1>13 DEF About
<1>15. TypeInv' BY <1>1, <1>10, <1>11, <1>12, TypeKept DEF TypeInv, StateTypes
<1>16. OrderInv' BY <1>1, <1>10, OrderKept
<1>17. ApartInv' /\ \A u \in DOMAIN call \ {t} : Clear(c, call[u])
  BY <1>1, <1>2, <1>3, <1>9, <1>12, OldApart
<1>18. places'[k] = places[k] \ {p} BY <1>11, <1>13
<1>19. CallInv'
  <2>1. CallFine(e)'
    <3>1. \A i \in Inodes : e.to \notin places'[i] BY <1>6, <1>9, <1>11, <1>13 DEF Vacant
    <3> QED BY <1>4, <1>9, <3>1 DEF CallFine, Stages, Vacant
  <2>2. PICK D, A : D = {p} /\ A = {} OBVIOUS
  <2>3. places'[k] = (places[k] \ D) \cup A BY <2>2, <1>18
  <2>4. D = {} \/ (D = {c.from} /\ Moves(c)) BY <2>2, <1>4, <1>5 DEF Moves
  <2>5. A = {} \/ (A = {c.to} /\ c.op \in {"create", "link", "rename"}) BY <2>2
  <2>6. /\ k \in raced => k \in raced'
        /\ inode'[k].kind = "dir" => inode[k].kind = "dir" \/ On(k) = {}
        /\ \/ k \in raced' \/ inode'[k].nlink = inode[k].nlink
           \/ \A u \in Counting(k) : u = t
    BY <1>10
  <2>7. /\ TypeInv /\ CallInv /\ e \in Calls /\ call' \in [DOMAIN call' -> Calls]
        /\ t \in DOMAIN call' => call'[t] = e /\ CallFine(e)'
    BY <1>1, <1>9, <1>12, <2>1
  <2> QED BY <1>14, <1>17, <2>3, <2>4, <2>5, <2>6, <2>7, OtherFine
<1>20. InodeFine(k)'
  <2>1. inode' = inode /\ cached' = cached /\ raced' = raced /\ (Alive(k)' <=> Alive(k))
    BY <1>10 DEF Alive
  <2>2. Making(k) = {} BY <1>3, <1>6 DEF InodeFine, MadeFine
  <2>3. /\ t \notin Making(k)' /\ t \notin Counting(k)' /\ t \in Putting(k)'
        /\ t \notin Dropping(k)' /\ t \notin Linking(k)'
    BY <1>4, <1>9, <1>12, <1>14, After DEF At
  <2>4. /\ t \notin Putting(k) /\ t \notin Dropping(k) /\ t \notin Linking(k)
        /\ t \notin Counting(k)
    BY <1>3, <1>4, <1>14, Before DEF At
  <2>5. Making(k)' = {} BY <1>14, <2>2, <2>3, Here
  <2>6. UnusedFine(k)' BY <1>3, <1>6, <2>1 DEF InodeFine, UnusedFine
  <2>7. MadeFine(k)' BY <2>5 DEF MadeFine
  <2>8. AloneFine(k)'
    <3>1. Counting(k)' = Counting(k)
      <4>1. Counting(k)' \ {t} = Counting(k) \ {t} BY <1>14, Here
      <4> QED BY <4>1, <2>3, <2>4
    <3> QED BY <1>3, <2>1, <3>1 DEF InodeFine, AloneFine
  <2>9. DirFine(k)'
    <3>1. SUFFICES ASSUME inode[k].kind = "dir"
                   PROVE  /\ k \notin raced /\ places'[k] = {}
                          /\ \A u, v \in Putting(k)' : u = v
      BY <2>1 DEF DirFine
    <3>2. /\ k \notin raced /\ Putting(k) = {} /\ \A q \in places[k] : q = p
      BY <1>3, <1>6, <3>1 DEF InodeFine, DirFine
    <3>3. \A u \in Putting(k)' : u = t BY <1>14, <3>2, Here
    <3> QED BY <1>18, <3>2, <3>3
  <2>10. CountFine(k)'
    <3>1. SUFFICES ASSUME k \notin raced, inode[k].kind = "file"
                   PROVE  inode'[k].nlink = Cardinality(places'[k]) + Cardinality(Putting(k)')
                            + Cardinality(Dropping(k)') - Cardinality(Linking(k)')
      BY <2>1 DEF CountFine
    <3>2. inode[k].nlink = Cardinality(places[k]) + Cardinality(Putting(k))
                             + Cardinality(Dropping(k)) - Cardinality(Linking(k))
      BY <1>3, <2>2, <3>1 DEF InodeFine, CountFine
    <3>3. Cardinality(places'[k]) = Cardinality(places[k]) - 1
      <4>1. IsFiniteSet(places[k]) BY <1>1, PlacesType
      <4> QED BY <4>1, <1>6, <1>18, FS_RemoveElement
    <3>4. /\ Cardinality(Putting(k)) \in Nat /\ Cardinality(Dropping(k)) \in Nat
          /\ Cardinality(Linking(k)) \in Nat /\ Cardinality(places[k]) \in Nat
          /\ Cardinality(Putting(k)') = Cardinality(Putting(k)) + 1
          /\ Cardinality(Dropping(k)') = Cardinality(Dropping(k))
          /\ Cardinality(Linking(k)') = Cardinality(Linking(k))
      BY <1>1, <1>14, <2>3, <2>4, Sizes DEF One
    <3> QED BY <3>2, <3>3, <3>4, <2>1
  <2>11. HeldFine(k)' BY <2>3 DEF HeldFine
  <2>12. PointerFine(k)' BY <1>3, <1>6, <2>1 DEF InodeFine, PointerFine
  <2> QED BY <2>6, <2>7, <2>8, <2>9, <2>10, <2>11, <2>12 DEF InodeFine
<1> QED BY <1>14, <1>15, <1>16, <1>17, <1>19, <1>20, Combined

LEMMA RenamePut_Keeps ==
  ASSUME Inv, NEW t \in Threads, RenamePut(t)
  PROVE  Inv'
<1>1. TypeInv /\ OrderInv /\ ApartInv /\ CallInv BY DEF Inv
<1>2. t \in DOMAIN call BY DEF RenamePut, At
<1>3. PICK c \in Calls, k \in Inodes :
        /\ call[t] = c /\ c.ino = k /\ CallFine(c) /\ InodeFine(k)
        /\ t \in On(k) /\ c.from \in Places /\ c.to \in Places
        /\ inode[k].nlink \in Int /\ c.links \in Int
  BY <1>2, InProgress
<1>4. c.op = "rename" /\ c.step = "put" BY <1>3 DEF RenamePut, At
<1>5. PICK q \in Places : q = c.to /\ Vacant(q) BY <1>3, <1>4 DEF CallFine
<1>6. PICK e : e = [c EXCEPT !.step = "touch"] OBVIOUS
<1>7. /\ e \in Calls /\ e.op = c.op /\ e.ino = c.ino /\ e.from = c.from /\ e.to = c.to
      /\ e.step = "touch"
  BY <1>6 DEF Calls
<1>8. /\ call' = [call EXCEPT ![t] = e]
      /\ entries' = [entries EXCEPT ![q[1]] = Cons(Entry(q[2], k), @)]
      /\ UNCHANGED <<inode, cached, raced>>
  BY <1>3, <1>5, <1>6 DEF RenamePut, Continue, Entry
<1>9. /\ entries' \in [Inodes -> Seq(Entries)]
      /\ \A x \in Inodes : Distinct(entries'[x])
      /\ places' = [places EXCEPT ![k] = @ \cup {q}]
  BY <1>1, <1>5, <1>8, Added
<1>10. /\ call' \in [DOMAIN call' -> Calls] /\ DOMAIN call' \subseteq Threads
       /\ Range(call') \subseteq Calls
       /\ Others(t) /\ t \in DOMAIN call' /\ call'[t] = e
  BY <1>1, <1>2, <1>7, <1>8, Stepped
<1>11. places \in [Inodes -> SUBSET Places] BY <1>1, PlacesType
<1>12. About(t, k) BY <1>3, <1>7, <1>8, <1>9, <1>10, <1>11 DEF About
<1>13. TypeInv' BY <1>1, <1>8, <1>9, <1>10, TypeKept DEF TypeInv, StateTypes
<1>14. OrderInv' BY <1>1, <1>8, OrderKept
<1>15. ApartInv' /\ \A u \in DOMAIN call \ {t} : Clear(c, call[u])
  BY <1>1, <1>2, <1>3, <1>7, <1>10, OldApart
<1>16. places'[k] = places[k] \cup {q} BY <1>9, <1>11
<1>17. CallInv'
  <2>1. CallFine(e)' BY <1>3, <1>4, <1>5, <1>7, <1>16 DEF CallFine, Stages
  <2>2. PICK D, A : D = {} /\ A = {q} OBVIOUS
  <2>3. places'[k] = (places[k] \ D) \cup A BY <2>2, <1>16
  <2>4. D = {} \/ (D = {c.from} /\ Moves(c)) BY <2>2
  <2>5. A = {} \/ (A = {c.to} /\ c.op \in {"create", "link", "rename"}) BY <2>2, <1>4, <1>5
  <2>6. /\ k \in raced => k \in raced'
        /\ inode'[k].kind = "dir" => inode[k].kind = "dir" \/ On(k) = {}
        /\ \/ k \in raced' \/ inode'[k].nlink = inode[k].nlink
           \/ \A u \in Counting(k) : u = t
    BY <1>8
  <2>7. /\ TypeInv /\ CallInv /\ e \in Calls /\ call' \in [DOMAIN call' -> Calls]
        /\ t \in DOMAIN call' => call'[t] = e /\ CallFine(e)'
    BY <1>1, <1>7, <1>10, <2>1
  <2> QED BY <1>12, <1>15, <2>3, <2>4, <2>5, <2>6, <2>7, OtherFine
<1>18. InodeFine(k)'
  <2>1. inode' = inode /\ cached' = cached /\ raced' = raced /\ (Alive(k)' <=> Alive(k))
    BY <1>8 DEF Alive
  <2>2. /\ t \notin Making(k)' /\ t \notin Counting(k)' /\ t \notin Putting(k)'
        /\ t \notin Dropping(k)' /\ t \notin Linking(k)'
    BY <1>4, <1>7, <1>10, <1>12, After DEF At
  <2>3. /\ t \notin Making(k) /\ t \in Putting(k) /\ t \notin Dropping(k) /\ t \notin Linking(k)
        /\ t \notin Counting(k)
    BY <1>2, <1>3, <1>4, <1>12, Before DEF At
  <2>4. Making(k) = {} BY <1>3, <2>3, NotMaking
  <2>5. Making(k)' = {} BY <1>12, <2>2, <2>4, Here
  <2>6. UnusedFine(k)' BY <1>3, <2>1 DEF InodeFine, UnusedFine
  <2>7. MadeFine(k)' BY <2>5 DEF MadeFine
  <2>8. AloneFine(k)'
    <3>1. Counting(k)' = Counting(k) BY <1>12, <2>2, <2>3, Here
    <3> QED BY <1>3, <2>1, <3>1 DEF InodeFine, AloneFine
  <2>9. DirFine(k)'
    <3>1. SUFFICES ASSUME inode[k].kind = "dir"
                   PROVE  /\ k \notin raced /\ \A x, y \in places'[k] : x = y
                          /\ Putting(k)' = {}
      BY <2>1 DEF DirFine
    <3>2. /\ k \notin raced /\ places[k] = {} /\ \A u \in Putting(k) : u = t
      BY <1>3, <2>3, <3>1 DEF InodeFine, DirFine
    <3>3. Putting(k)' = {} BY <1>12, <2>2, <3>2, Here
    <3> QED BY <1>16, <3>2, <3>3
  <2>10. CountFine(k)'
    <3>1. SUFFICES ASSUME k \notin raced, inode[k].kind = "file"
                   PROVE  inode'[k].nlink = Cardinality(places'[k]) + Cardinality(Putting(k)')
                            + Cardinality(Dropping(k)') - Cardinality(Linking(k)')
      BY <2>1 DEF CountFine
    <3>2. inode[k].nlink = Cardinality(places[k]) + Cardinality(Putting(k))
                             + Cardinality(Dropping(k)) - Cardinality(Linking(k))
      BY <1>3, <2>4, <3>1 DEF InodeFine, CountFine
    <3>3. Cardinality(places'[k]) = Cardinality(places[k]) + 1
      <4>1. q \notin places[k] /\ IsFiniteSet(places[k]) BY <1>1, <1>5, PlacesType DEF Vacant
      <4> QED BY <4>1, <1>16, FS_AddElement
    <3>4. /\ Cardinality(Putting(k)) \in Nat /\ Cardinality(Dropping(k)) \in Nat
          /\ Cardinality(Linking(k)) \in Nat /\ Cardinality(places[k]) \in Nat
          /\ Cardinality(Putting(k)') = Cardinality(Putting(k)) - 1
          /\ Cardinality(Dropping(k)') = Cardinality(Dropping(k))
          /\ Cardinality(Linking(k)') = Cardinality(Linking(k))
      BY <1>1, <1>12, <2>2, <2>3, Sizes DEF One
    <3> QED BY <3>2, <3>3, <3>4, <2>1
  <2>11. HeldFine(k)' BY <1>16 DEF HeldFine
  <2>12. PointerFine(k)' BY <1>3, <2>1 DEF InodeFine, PointerFine
  <2> QED BY <2>6, <2>7, <2>8, <2>9, <2>10, <2>11, <2>12 DEF InodeFine
<1> QED BY <1>12, <1>13, <1>14, <1>15, <1>17, <1>18, Combined

LEMMA RenameInPlace_Keeps ==
  ASSUME Inv, NEW t \in Threads, RenameInPlace(t)
  PROVE  Inv'
<1>1. TypeInv /\ OrderInv /\ ApartInv /\ CallInv BY DEF Inv
<1>2. t \in DOMAIN call BY DEF RenameInPlace, At
<1>3. PICK c \in Calls, k \in Inodes :
        /\ call[t] = c /\ c.ino = k /\ CallFine(c) /\ InodeFine(k)
        /\ t \in On(k) /\ c.from \in Places /\ c.to \in Places
        /\ inode[k].nlink \in Int /\ c.links \in Int
  BY <1>2, InProgress
<1>4. c.op = "rename" /\ c.step = "take" /\ c.from[1] = c.to[1]
  BY <1>3 DEF RenameInPlace, At, Crosses
<1>5. PICK p \in Places, q \in Places : p = c.from /\ q = c.to BY <1>3
<1>6. p \in places[k] /\ Vacant(q) BY <1>3, <1>4, <1>5 DEF CallFine
<1>7. Taken(p) /\ Target(p) = k
  <2>1. Taken(p) BY <1>1, <1>6, FindPlace DEF Vacant
  <2>2. Target(p) \in Inodes /\ p \in places[Target(p)] BY <1>1, <2>1, FindPlace
  <2> QED BY <1>1, <1>6, <2>1, <2>2, PlacesType
<1>8. PICK e : e = [c EXCEPT !.step = "touch"] OBVIOUS
<1>9. /\ e \in Calls /\ e.op = c.op /\ e.ino = c.ino /\ e.from = c.from /\ e.to = c.to
      /\ e.step = "touch"
  BY <1>8 DEF Calls
<1>10. /\ call' = [call EXCEPT ![t] = e]
       /\ entries' = [entries EXCEPT ![p[1]][Find(p)].name = q[2]]
       /\ UNCHANGED <<inode, cached, raced>>
  BY <1>3, <1>5, <1>7, <1>8 DEF RenameInPlace, Continue
<1>11. /\ entries' \in [Inodes -> Seq(Entries)]
       /\ \A x \in Inodes : Distinct(entries'[x])
       /\ places' = [places EXCEPT ![k] = (@ \ {p}) \cup {q}]
  BY <1>1, <1>4, <1>5, <1>6, <1>7, <1>10, Renamed
<1>12. /\ call' \in [DOMAIN call' -> Calls] /\ DOMAIN call' \subseteq Threads
       /\ Range(call') \subseteq Calls
       /\ Others(t) /\ t \in DOMAIN call' /\ call'[t] = e
  BY <1>1, <1>2, <1>9, <1>10, Stepped
<1>13. places \in [Inodes -> SUBSET Places] BY <1>1, PlacesType
<1>14. About(t, k) BY <1>3, <1>9, <1>10, <1>11, <1>12, <1>13 DEF About
<1>15. TypeInv' BY <1>1, <1>10, <1>11, <1>12, TypeKept DEF TypeInv, StateTypes
<1>16. OrderInv' BY <1>1, <1>10, OrderKept
<1>17. ApartInv' /\ \A u \in DOMAIN call \ {t} : Clear(c, call[u])
  BY <1>1, <1>2, <1>3, <1>9, <1>12, OldApart
<1>18. places'[k] = (places[k] \ {p}) \cup {q} BY <1>11, <1>13
<1>19. CallInv'
  <2>1. CallFine(e)' BY <1>3, <1>4, <1>5, <1>9, <1>18 DEF CallFine, Stages
  <2>2. PICK D, A : D = {p} /\ A = {q} OBVIOUS
  <2>3. places'[k] = (places[k] \ D) \cup A BY <2>2, <1>18
  <2>4. D = {} \/ (D = {c.from} /\ Moves(c)) BY <2>2, <1>4, <1>5 DEF Moves
  <2>5. A = {} \/ (A = {c.to} /\ c.op \in {"create", "link", "rename"}) BY <2>2, <1>4, <1>5
  <2>6. /\ k \in raced => k \in raced'
        /\ inode'[k].kind = "dir" => inode[k].kind = "dir" \/ On(k) = {}
        /\ \/ k \in raced' \/ inode'[k].nlink = inode[k].nlink
           \/ \A u \in Counting(k) : u = t
    BY <1>10
  <2>7. /\ TypeInv /\ CallInv /\ e \in Calls /\ call' \in [DOMAIN call' -> Calls]
        /\ t \in DOMAIN call' => call'[t] = e /\ CallFine(e)'
    BY <1>1, <1>9, <1>12, <2>1
  <2> QED BY <1>14, <1>17, <2>3, <2>4, <2>5, <2>6, <2>7, OtherFine
<1>20. InodeFine(k)'
  <2>1. inode' = inode /\ cached' = cached /\ raced' = raced /\ (Alive(k)' <=> Alive(k))
    BY <1>10 DEF Alive
  <2>2. /\ t \notin Making(k)' /\ t \notin Counting(k)' /\ t \notin Putting(k)'
        /\ t \notin Dropping(k)' /\ t \notin Linking(k)'
    BY <1>4, <1>9, <1>12, <1>14, After DEF At
  <2>3. /\ t \notin Making(k) /\ t \notin Putting(k) /\ t \notin Dropping(k)
        /\ t \notin Linking(k) /\ t \notin Counting(k)
    BY <1>3, <1>4, <1>14, Before DEF At
  <2>4. Making(k) = {} BY <1>3, <2>3, NotMaking
  <2>5. /\ Making(k)' = {} /\ Counting(k)' = Counting(k) /\ Putting(k)' = Putting(k)
    <3>1. Making(k)' = {} BY <1>14, <2>2, <2>4, Here
    <3>2. Counting(k)' = Counting(k) BY <1>14, <2>2, <2>3, Here
    <3>3. Putting(k)' = Putting(k) BY <1>14, <2>2, <2>3, Here
    <3> QED BY <3>1, <3>2, <3>3
  <2>6. UnusedFine(k)' BY <1>3, <2>1 DEF InodeFine, UnusedFine
  <2>7. MadeFine(k)' BY <2>5 DEF MadeFine
  <2>8. AloneFine(k)' BY <1>3, <2>1, <2>5 DEF InodeFine, AloneFine
  <2>9. DirFine(k)'
    <3>1. SUFFICES ASSUME inode[k].kind = "dir"
                   PROVE  /\ k \notin raced /\ Putting(k)' = {}
                          /\ \A x, y \in places'[k] : x = y
      BY <2>1 DEF DirFine
    <3>2. /\ k \notin raced /\ Putting(k) = {} /\ \A x \in places[k] : x = p
      BY <1>3, <1>6, <3>1 DEF InodeFine, DirFine
    <3>3. \A x \in places'[k] : x = q BY <1>18, <3>2
    <3> QED BY <2>5, <3>2, <3>3
  <2>10. CountFine(k)'
    <3>1. SUFFICES ASSUME k \notin raced, inode[k].kind = "file"
                   PROVE  inode'[k].nlink = Cardinality(places'[k]) + Cardinality(Putting(k)')
                            + Cardinality(Dropping(k)') - Cardinality(Linking(k)')
      BY <2>1 DEF CountFine
    <3>2. inode[k].nlink = Cardinality(places[k]) + Cardinality(Putting(k))
                             + Cardinality(Dropping(k)) - Cardinality(Linking(k))
      BY <1>3, <2>4, <3>1 DEF InodeFine, CountFine
    <3>3. Cardinality(places'[k]) = Cardinality(places[k])
      <4>1. q \notin places[k] /\ IsFiniteSet(places[k]) /\ Cardinality(places[k]) \in Nat
        BY <1>1, <1>6, PlacesType, FS_CardinalityType DEF Vacant
      <4>2. /\ IsFiniteSet(places[k] \ {p})
            /\ Cardinality(places[k] \ {p}) = Cardinality(places[k]) - 1
        BY <4>1, <1>6, FS_RemoveElement
      <4>3. Cardinality((places[k] \ {p}) \cup {q}) = Cardinality(places[k] \ {p}) + 1
        BY <4>1, <4>2, FS_AddElement
      <4> QED BY <4>1, <4>2, <4>3, <1>18
    <3>4. /\ Cardinality(Putting(k)) \in Nat /\ Cardinality(Dropping(k)) \in Nat
          /\ Cardinality(Linking(k)) \in Nat /\ Cardinality(places[k]) \in Nat
          /\ Cardinality(Putting(k)') = Cardinality(Putting(k))
          /\ Cardinality(Dropping(k)') = Cardinality(Dropping(k))
          /\ Cardinality(Linking(k)') = Cardinality(Linking(k))
      BY <1>1, <1>14, <2>2, <2>3, Sizes DEF One
    <3> QED BY <3>2, <3>3, <3>4, <2>1
  <2>11. HeldFine(k)' BY <1>18 DEF HeldFine
  <2>12. PointerFine(k)' BY <1>3, <2>1 DEF InodeFine, PointerFine
  <2> QED BY <2>6, <2>7, <2>8, <2>9, <2>10, <2>11, <2>12 DEF InodeFine
<1> QED BY <1>14, <1>15, <1>16, <1>17, <1>19, <1>20, Combined

----
(* The theorems *)

LEMMA Init_Inv == Init => Inv
<1> SUFFICES ASSUME Init PROVE Inv
  OBVIOUS
<1>1. /\ inode = [i \in Inodes |-> IF i = Root THEN [kind |-> "dir", nlink |-> 2]
                                               ELSE [kind |-> "unused", nlink |-> 0]]
      /\ entries = [i \in Inodes |-> <<>>] /\ cached = {} /\ raced = {}
      /\ call = [t \in {} |-> Root]
  BY DEF Init
<1>2. Root \in Inodes BY NamespaceAssumption DEF Root, Inodes
<1>3. DOMAIN call = {} BY <1>1
<1>4. \A i \in Inodes : places[i] = {}
  BY <1>1 DEF places, ToSet, Places
<1>5. TypeInv
  <2>1. inode \in [Inodes -> [kind : {"dir", "file", "unused", "freed"}, nlink : Int]] BY <1>1
  <2>2. entries \in [Inodes -> Seq(Entries)] BY <1>1, EmptySeq
  <2>3. cached \subseteq Inodes /\ Cardinality(cached) <= CacheSize
    BY <1>1, FS_EmptySet, NamespaceAssumption
  <2>4. DOMAIN call \subseteq Threads /\ Range(call) \subseteq Calls BY <1>3 DEF Range
  <2>5. call \in [DOMAIN call -> Calls] BY <1>1, <1>3
  <2>6. \A d \in Inodes : Distinct(entries[d]) BY <1>1 DEF Distinct
  <2> QED BY <1>1, <2>1, <2>2, <2>3, <2>4, <2>5, <2>6 DEF TypeInv, StateTypes
<1>6. OrderInv
  <2>1. \A i \in Inodes : inode[i].kind # "unused" <=> i = 1 BY <1>1 DEF Root
  <2>2. {i \in Inodes : inode[i].kind # "unused"} = 1..1 BY <1>2, <2>1 DEF Root
  <2> QED BY <1>2, <2>2 DEF OrderInv, Root
<1>7. ApartInv /\ CallInv BY <1>3 DEF ApartInv, CallInv
<1>8. InodeInv
  <2> SUFFICES ASSUME NEW i \in Inodes PROVE InodeFine(i)
    BY DEF InodeInv
  <2>1. On(i) = {} BY <1>3 DEF On
  <2>2. /\ Making(i) = {} /\ Appending(i) = {} /\ Counting(i) = {} /\ Putting(i) = {}
        /\ Dropping(i) = {} /\ Linking(i) = {}
    BY <2>1 DEF Making, Appending, Counting, Putting, Dropping, Linking
  <2>3. inode[i].kind = IF i = Root THEN "dir" ELSE "unused" BY <1>1
  <2>4. Alive(i) <=> i = Root BY <2>3 DEF Alive
  <2>5. UnusedFine(i) BY <1>1, <1>4, <2>1 DEF UnusedFine
  <2>6. MadeFine(i) BY <2>2 DEF MadeFine
  <2>7. AloneFine(i) BY <2>2 DEF AloneFine
  <2>8. DirFine(i) BY <1>1, <1>4, <2>2 DEF DirFine
  <2>9. CountFine(i) BY <2>3 DEF CountFine
  <2>10. HeldFine(i) BY <2>4 DEF HeldFine
  <2>11. PointerFine(i) BY <1>1, <1>4, <2>1 DEF PointerFine
  <2> QED BY <2>5, <2>6, <2>7, <2>8, <2>9, <2>10, <2>11 DEF InodeFine
<1> QED BY <1>5, <1>6, <1>7, <1>8 DEF Inv

(* What calls by /f@versions do leaves all the rest as it was. *)
LEMMA Unchanged_Keeps ==
  ASSUME Inv, UNCHANGED <<inode, entries, cached, call, raced>>
  PROVE  Inv'
<1>1. UNCHANGED <<inode, entries, cached, call, raced>> OBVIOUS
<1>2. places' = places BY <1>1, SamePlaces
<1>3. TypeInv' /\ OrderInv' BY <1>1 DEF Inv, TypeInv, StateTypes, OrderInv
<1>4. ApartInv' BY <1>1 DEF Inv, ApartInv, Clear, Changes, Moves
<1>5. CallInv' BY <1>1, <1>2 DEF Inv, CallInv, CallFine, Vacant
<1>6. InodeInv'
  <2>1. \A i \in Inodes :
          /\ UnusedFine(i)' <=> UnusedFine(i)
          /\ MadeFine(i)' <=> MadeFine(i)
          /\ AloneFine(i)' <=> AloneFine(i)
          /\ DirFine(i)' <=> DirFine(i)
          /\ CountFine(i)' <=> CountFine(i)
          /\ HeldFine(i)' <=> HeldFine(i)
          /\ PointerFine(i)' <=> PointerFine(i)
    BY <1>1, <1>2 DEF UnusedFine, MadeFine, AloneFine, DirFine, CountFine, HeldFine, PointerFine,
      On, Making, Appending, Counting, Putting, Dropping, Linking, Alive
  <2> QED BY <2>1 DEF Inv, InodeInv, InodeFine
<1> QED BY <1>3, <1>4, <1>5, <1>6 DEF Inv
LEMMA Next_Inv == Inv /\ [Next]_vars => Inv'
<1> SUFFICES ASSUME Inv, [Next]_vars PROVE Inv'
  OBVIOUS
<1>1. CASE Next
  <2>1. PICK t \in Threads :
          \/ \E p \in Reachable \X Names :
               \/ MakeDirectory(t, p) \/ CreateFile(t, p) \/ Symlink(t, p)
               \/ Unlink(t, p) \/ RemoveDirectory(t, p)
          \/ \E p \in Reachable \X (Names \ Marked) :
               \/ Use(t, p) \/ UseVersions(t, p)
               \/ \E q \in Reachable \X Names : Link(t, p, q) \/ Rename(t, p, q)
          \/ AppendEntry(t) \/ CacheInode(t)
          \/ LinkEntry(t) \/ LinkCount(t)
          \/ UnlinkCount(t) \/ UnlinkFree(t)
          \/ RenameTake(t) \/ RenamePut(t) \/ RenameInPlace(t)
          \/ Touch(t) \/ TouchVersions(t)
    BY <1>1 DEF Next
  <2>2. Reachable \X Names \subseteq Places /\ Reachable \X (Names \ Marked) \subseteq Places
    BY DEF Reachable, Places
  <2>3. ASSUME NEW p \in Places, MakeDirectory(t, p) PROVE Inv'
    BY <2>3, Create_Keeps DEF MakeDirectory
  <2>4. ASSUME NEW p \in Places, CreateFile(t, p) \/ Symlink(t, p) PROVE Inv'
    BY <2>4, Create_Keeps DEF CreateFile, Symlink
  <2>5. ASSUME NEW p \in Places, Unlink(t, p) \/ RemoveDirectory(t, p) \/ Use(t, p) PROVE Inv'
    BY <2>5, Unlink_Keeps, RemoveDirectory_Keeps, Use_Keeps
  <2>6. ASSUME NEW p \in Places, NEW q \in Places, Link(t, p, q) \/ Rename(t, p, q) PROVE Inv'
    BY <2>6, Link_Keeps, Rename_Keeps
  <2>7. CASE AppendEntry(t) \/ CacheInode(t) \/ LinkEntry(t) \/ LinkCount(t)
    BY <2>7, AppendEntry_Keeps, CacheInode_Keeps, LinkEntry_Keeps, LinkCount_Keeps
  <2>8. CASE UnlinkCount(t) \/ UnlinkFree(t) \/ Touch(t)
    BY <2>8, UnlinkCount_Keeps, UnlinkFree_Keeps, Touch_Keeps
  <2>9. CASE RenameTake(t) \/ RenamePut(t) \/ RenameInPlace(t)
    BY <2>9, RenameTake_Keeps, RenamePut_Keeps, RenameInPlace_Keeps
  <2>10. ASSUME NEW p \in Places, UseVersions(t, p) PROVE Inv'
    BY <2>10, Unchanged_Keeps DEF UseVersions
  <2>11. CASE TouchVersions(t) BY <2>11, Unchanged_Keeps DEF TouchVersions
  <2> QED BY <2>1, <2>2, <2>3, <2>4, <2>5, <2>6, <2>7, <2>8, <2>9, <2>10, <2>11
<1>2. CASE UNCHANGED vars
  BY <1>2, Unchanged_Keeps DEF vars
<1> QED BY <1>1, <1>2

LEMMA Inv_Always == Spec => []Inv
BY Init_Inv, Next_Inv, PTL DEF Spec

(* A thread is in one call, and what it holds by another path is an inode. *)
LEMMA Alias_Always == Spec => []AliasInv
<1>1. Init => AliasInv BY DEF Init, AliasInv
<1>2. Inv /\ AliasInv /\ [Next]_vars => AliasInv'
  <2> SUFFICES ASSUME Inv, AliasInv, [Next]_vars PROVE AliasInv'
    OBVIOUS
  <2>1. ASSUME UNCHANGED aliased, DOMAIN call' \subseteq DOMAIN call \cup (Threads \ DOMAIN aliased)
        PROVE  AliasInv'
    BY <2>1 DEF AliasInv
  <2>2. CASE Next
    <3>1. PICK t \in Threads :
            \/ \E p \in Reachable \X Names :
                 \/ MakeDirectory(t, p) \/ CreateFile(t, p) \/ Symlink(t, p)
                 \/ Unlink(t, p) \/ RemoveDirectory(t, p)
            \/ \E p \in Reachable \X (Names \ Marked) :
                 \/ Use(t, p) \/ UseVersions(t, p)
                 \/ \E q \in Reachable \X Names : Link(t, p, q) \/ Rename(t, p, q)
            \/ AppendEntry(t) \/ CacheInode(t)
            \/ LinkEntry(t) \/ LinkCount(t)
            \/ UnlinkCount(t) \/ UnlinkFree(t)
            \/ RenameTake(t) \/ RenamePut(t) \/ RenameInPlace(t)
            \/ Touch(t) \/ TouchVersions(t)
      BY <2>2 DEF Next
    <3>2. ASSUME NEW c, NEW d, Admitted(t, c), Enter(t, d), UNCHANGED aliased
          PROVE  AliasInv'
      BY <2>1, <3>2 DEF Admitted, Enter
    <3>3. ASSUME Return(t), UNCHANGED aliased PROVE AliasInv'
      BY <2>1, <3>3 DEF Return, Restrict
    <3>4. ASSUME DOMAIN call' = DOMAIN call, UNCHANGED aliased PROVE AliasInv'
      BY <2>1, <3>4
    <3>5. ASSUME NEW p, NEW kind, NEW nlink, Create(t, p, kind, nlink) PROVE AliasInv'
      BY <3>2, <3>5 DEF Create
    <3>6. ASSUME NEW p, MakeDirectory(t, p) \/ CreateFile(t, p) \/ Symlink(t, p) PROVE AliasInv'
      BY <3>5, <3>6 DEF MakeDirectory, CreateFile, Symlink
    <3>7. ASSUME NEW p, Unlink(t, p) \/ RemoveDirectory(t, p) PROVE AliasInv'
      BY <3>2, <3>4, <3>7 DEF Unlink, RemoveDirectory
    <3>8. ASSUME NEW p, NEW q, Link(t, p, q) \/ Rename(t, p, q) \/ Use(t, p) PROVE AliasInv'
      BY <3>2, <3>8 DEF Link, Rename, Use
    <3>9. CASE AppendEntry(t) \/ LinkEntry(t) \/ UnlinkCount(t) \/ RenamePut(t) \/ RenameInPlace(t)
      BY <3>4, <3>9 DEF AppendEntry, LinkEntry, UnlinkCount, RenamePut, RenameInPlace, Continue
    <3>10. CASE CacheInode(t) \/ LinkCount(t) \/ UnlinkFree(t) \/ Touch(t)
      BY <3>3, <3>10 DEF CacheInode, LinkCount, UnlinkFree, Touch
    <3>11. CASE RenameTake(t)
      BY <3>3, <3>4, <3>11 DEF RenameTake, Continue
    <3>12. ASSUME NEW p \in Places, UseVersions(t, p) PROVE AliasInv'
      <4>1. Target(p) \in Inodes BY <3>12, FindPlace DEF UseVersions, Inv
      <4> QED BY <3>12, <4>1 DEF UseVersions, AliasInv
    <3>13. CASE TouchVersions(t)
      BY <3>13 DEF TouchVersions, AliasInv, Restrict
    <3>14. Reachable \X (Names \ Marked) \subseteq Places BY DEF Reachable, Places
    <3> QED BY <3>1, <3>6, <3>7, <3>8, <3>9, <3>10, <3>11, <3>12, <3>13, <3>14
  <2> QED BY <2>1, <2>2 DEF vars
<1> QED BY <1>1, <1>2, Inv_Always, PTL DEF Spec

(* The names of a file in the terms of the invariant. *)
LEMMA NamesCounted ==
  ASSUME Inv, NEW i \in Inodes
  PROVE  /\ NamesOf(i) = Cardinality(places[i]) + Cardinality(Putting(i))
         /\ Cardinality(places[i]) \in Nat /\ Cardinality(Putting(i)) \in Nat
         /\ NamesOf(i) > 0 <=> places[i] # {} \/ Putting(i) # {}
<1>1. TypeInv BY DEF Inv
<1>2. AtStep("rename", "put", i) = Putting(i) BY DEF AtStep, At, Putting, On
<1>3. IsFiniteSet(places[i]) /\ IsFiniteSet(Putting(i)) BY <1>1, PlacesType, CallsFinite
<1>4. Cardinality(places[i]) \in Nat /\ Cardinality(Putting(i)) \in Nat
  BY <1>3, FS_CardinalityType
<1>5. NamesOf(i) = Cardinality(places[i]) + Cardinality(Putting(i))
  BY <1>1, <1>2, OccurrencesCounted DEF NamesOf
<1>6. /\ Cardinality(places[i]) = 0 <=> places[i] = {}
      /\ Cardinality(Putting(i)) = 0 <=> Putting(i) = {}
  BY <1>3, FS_EmptySet
<1> QED BY <1>4, <1>5, <1>6

(* A set whose elements are all the same has no more than one. *)
LEMMA AtMostOne ==
  ASSUME NEW S, \A x, y \in S : x = y
  PROVE  Cardinality(S) <= 1
<1>1. CASE S = {} BY <1>1, FS_EmptySet
<1>2. CASE S # {}
  <2>1. PICK x \in S : TRUE BY <1>2
  <2>2. S = {} \cup {x} BY <2>1
  <2>3. IsFiniteSet({}) /\ Cardinality({}) = 0 BY FS_EmptySet
  <2>4. Cardinality({} \cup {x}) = 1
    <3>1. Cardinality({} \cup {x}) = Cardinality({}) + 1 BY <2>3, FS_AddElement
    <3> QED BY <2>3, <3>1
  <2> QED BY <2>2, <2>4
<1> QED BY <1>1, <1>2

(* Every variable keeps its type: the entry lists are lists of entries, calls
   in progress are calls, and lru_cache_put keeps the inode cache within its
   size. *)
THEOREM NamespaceTypes == Spec => []TypeOK
<1>1. Inv /\ AliasInv => TypeOK
  BY DEF Inv, TypeInv, StateTypes, AliasInv, TypeOK, Range
<1> QED BY <1>1, Inv_Always, Alias_Always, PTL

(* nlink is the number of a file's names, give or take the calls between the
   change of a list and that of the count, for every file whose count two
   calls did not change at once: what unlink frees by. *)
THEOREM LinksCorrect == Spec => []LinksCounted
<1>1. ASSUME Inv PROVE LinksCounted
  <2> SUFFICES ASSUME NEW i \in Inodes \ raced, inode[i].kind = "file",
                      AtStep("create", "append", i) = {}
               PROVE  inode[i].nlink = NamesOf(i) + Cardinality(AtStep("unlink", "count", i))
                                         - Cardinality(AtStep("link", "count", i))
    BY DEF LinksCounted
  <2>1. /\ AtStep("create", "append", i) = Making(i) /\ AtStep("unlink", "count", i) = Dropping(i)
        /\ AtStep("link", "count", i) = Linking(i)
    BY DEF AtStep, At, Making, Dropping, Linking, On
  <2>2. CountFine(i) BY <1>1 DEF Inv, InodeInv, InodeFine
  <2>3. inode[i].nlink = Cardinality(places[i]) + Cardinality(Putting(i))
                           + Cardinality(Dropping(i)) - Cardinality(Linking(i))
    BY <2>1, <2>2 DEF CountFine
  <2>4. NamesOf(i) = Cardinality(places[i]) + Cardinality(Putting(i)) BY <1>1, NamesCounted
  <2> QED BY <2>1, <2>3, <2>4
<1> QED BY <1>1, Inv_Always, PTL

(* Whatever exists has a name, or a call that is about to give it one or to
   free it, and a directory has no more than one name: no rename loses a file
   between its two critical sections, and no unlink leaks one. *)
THEOREM NothingIsLost == Spec => []NothingLost
<1>1. ASSUME Inv PROVE NothingLost
  <2> SUFFICES ASSUME NEW i \in Inodes \ (raced \cup {Root}), Alive(i)
               PROVE  /\ \/ NamesOf(i) > 0
                         \/ \E t \in DOMAIN call :
                              call[t].ino = i /\ call[t].step \in {"append", "count", "test"}
                      /\ inode[i].kind = "dir" => NamesOf(i) <= 1
    BY DEF NothingLost
  <2>1. HeldFine(i) /\ DirFine(i) BY <1>1 DEF Inv, InodeInv, InodeFine
  <2>2. /\ NamesOf(i) = Cardinality(places[i]) + Cardinality(Putting(i))
        /\ Cardinality(places[i]) \in Nat /\ Cardinality(Putting(i)) \in Nat
        /\ NamesOf(i) > 0 <=> places[i] # {} \/ Putting(i) # {}
    BY <1>1, NamesCounted
  <2>3. \/ NamesOf(i) > 0
        \/ \E t \in DOMAIN call :
             call[t].ino = i /\ call[t].step \in {"append", "count", "test"}
    BY <2>1, <2>2 DEF HeldFine, Counting, Appending, On
  <2>4. ASSUME inode[i].kind = "dir" PROVE NamesOf(i) <= 1
    <3>1. /\ \A p, q \in places[i] : p = q
          /\ \A t, u \in Putting(i) : t = u
          /\ places[i] = {} \/ Putting(i) = {}
      BY <2>1, <2>4 DEF DirFine
    <3>2. Cardinality(places[i]) <= 1 /\ Cardinality(Putting(i)) <= 1 BY <3>1, AtMostOne
    <3>3. CASE places[i] = {}
      <4>1. Cardinality(places[i]) = 0 BY <3>3, FS_EmptySet
      <4> QED BY <2>2, <3>2, <4>1
    <3>4. CASE Putting(i) = {}
      <4>1. Cardinality(Putting(i)) = 0 BY <3>4, FS_EmptySet
      <4> QED BY <2>2, <3>2, <4>1
    <3> QED BY <3>1, <3>3, <3>4
  <2> QED BY <2>3, <2>4
<1> QED BY <1>1, Inv_Always, PTL

(* No pointer to freed metadata is left in an entry, in the inode cache or in
   a call in progress that came by the file's own path, for every file whose
   count no two calls changed at once.  The calls that came by /f@versions,
   which nothing keeps apart from an unlink of /f, run in between. *)
THEOREM PointersCorrect == Spec => []NoDanglingPointer
<1>1. ASSUME Inv PROVE NoDanglingPointer
  <2>1. \A i \in Inodes : PointerFine(i) BY <1>1 DEF Inv, InodeInv, InodeFine
  <2>2. \A i \in Inodes \ raced : NamesOf(i) > 0 => Alive(i)
    <3> SUFFICES ASSUME NEW i \in Inodes \ raced, NamesOf(i) > 0 PROVE Alive(i)
      OBVIOUS
    <3>1. places[i] # {} \/ Putting(i) # {} BY <1>1, NamesCounted
    <3>2. Putting(i) \subseteq On(i) BY DEF Putting
    <3> QED BY <2>1, <3>1, <3>2 DEF PointerFine
  <2>3. ASSUME NEW t \in DOMAIN call PROVE call[t].ino \in raced \/ Alive(call[t].ino)
    <3>1. call[t] \in Calls BY <1>1, CallTypes DEF Inv
    <3>2. PICK i \in Inodes : i = call[t].ino BY <3>1 DEF Calls
    <3>3. t \in On(i) BY <3>2 DEF On
    <3> QED BY <2>1, <3>2, <3>3 DEF PointerFine
  <2>4. \A i \in cached : Alive(i)
    <3>1. cached \subseteq Inodes BY <1>1 DEF Inv, TypeInv, StateTypes
    <3> QED BY <2>1, <3>1 DEF PointerFine
  <2> QED BY <2>2, <2>3, <2>4 DEF NoDanglingPointer
<1> QED BY <1>1, Inv_Always, PTL

----
(* The tree of names *)

(* The places that lead to i, seen from outside; a directory in the tree; the
   places there are, or that a call is about to fill. *)
Held(i) == places[i] \cup {p \in Places : \E t \in Putting(i) : call[t].to = p}
Parent(d) == inode[d].kind = "dir" /\ (d = Root \/ Held(d) # {})
Wanted(p) == \E t \in DOMAIN call : call[t].step \in {"append", "take"} /\ call[t].to = p

(* No one has hold of the root, and what has a name, or is about to have one,
   has it in a directory that is in the tree. *)
RootFine == inode[Root].kind = "dir" /\ Held(Root) = {} /\ On(Root) = {}

ParentsFine ==
  \A p \in Places : (\E i \in Inodes : p \in Held(i)) \/ Wanted(p) => Parent(p[1])

TreeInv == RootFine /\ ParentsFine

(* What the environment's directories are: those in the tree.  The levels of
   Below exist, and each holds the root or what an entry leads to. *)
Leveled(f, i, m) ==
  f = [n \in 0..m |-> IF n = 0 THEN {i} ELSE f[n - 1] \cup UNION {Children(d) : d \in f[n - 1]}]

LEMMA LevelsExist ==
  ASSUME NEW i, NEW m \in 0..MaxIno
  PROVE  \E f : Leveled(f, i, m)
<1> DEFINE F(s) == s \cup UNION {Children(d) : d \in s}
           Good(k) == \E f : f = [n \in 0..k |-> IF n = 0 THEN {i} ELSE F(f[n - 1])]
           Bad == {k \in Nat : k <= MaxIno /\ ~Good(k)}
<1>1. Bad = {}
  <2> SUFFICES ASSUME Bad # {} PROVE FALSE
    OBVIOUS
  <2>1. PICK k \in Bad : \A j \in Bad : k <= j
    <3>1. Bad \in SUBSET Nat OBVIOUS
    <3> HIDE DEF Bad
    <3> QED BY <3>1, NatMin
  <2>2. k \in Nat /\ k <= MaxIno /\ ~Good(k) OBVIOUS
  <2>3. CASE k = 0
    <3> DEFINE f == [n \in 0..0 |-> {i}]
    <3>1. f = [n \in 0..0 |-> IF n = 0 THEN {i} ELSE F(f[n - 1])]
      <4> HIDE DEF F
      <4> QED OBVIOUS
    <3> HIDE DEF F, f
    <3> QED BY <2>2, <2>3, <3>1
  <2>4. CASE k # 0
    <3>1. k - 1 \in Nat /\ k - 1 <= MaxIno /\ k - 1 \notin Bad
      <4>1. k - 1 \in Nat /\ k - 1 <= MaxIno /\ ~(k <= k - 1)
        BY <2>2, <2>4, NamespaceAssumption
      <4> HIDE DEF Bad
      <4> QED BY <2>1, <4>1
    <3>2. Good(k - 1)
      <4> HIDE DEF Good
      <4> QED BY <3>1
    <3>3. PICK g : g = [n \in 0..(k - 1) |-> IF n = 0 THEN {i} ELSE F(g[n - 1])] BY <3>2
    <3> DEFINE f == [n \in 0..k |-> IF n = k THEN F(g[k - 1]) ELSE g[n]]
    <3>4. f = [n \in 0..k |-> IF n = 0 THEN {i} ELSE F(f[n - 1])]
      <4> HIDE DEF F
      <4>1. \A n \in 0..k : f[n] = IF n = 0 THEN {i} ELSE F(f[n - 1])
        <5> TAKE n \in 0..k
        <5>1. CASE n = k
          <6>1. k - 1 \in 0..k /\ k - 1 # k BY <2>2, <2>4
          <6>2. f[k - 1] = g[k - 1] BY <6>1
          <6> QED BY <2>2, <2>4, <5>1, <6>2
        <5>2. CASE n # k
          <6>1. n \in 0..(k - 1) BY <2>2, <5>2
          <6>2. g[n] = IF n = 0 THEN {i} ELSE F(g[n - 1]) BY <3>3, <6>1
          <6>3. n # 0 => n - 1 \in 0..k /\ n - 1 # k BY <2>2, <6>1
          <6>4. n # 0 => f[n - 1] = g[n - 1] BY <6>3
          <6>5. f[n] = g[n] BY <5>2
          <6> QED BY <6>2, <6>4, <6>5
        <5> QED BY <5>1, <5>2
      <4> QED BY <4>1
    <3> HIDE DEF F, f
    <3> QED BY <2>2, <3>4
  <2> QED BY <2>3, <2>4
<1>2. m \in Nat /\ m <= MaxIno BY NamespaceAssumption
<1>3. Good(m)
  <2> HIDE DEF Good
  <2> QED BY <1>1, <1>2
<1> QED BY <1>3 DEF Leveled

LEMMA BelowRoot ==
  ASSUME TypeInv, NEW d \in Below(Root)
  PROVE  d = Root \/ d \in {i \in Inodes : places[i] # {}}
<1> DEFINE F(s) == s \cup UNION {Children(x) : x \in s}
           level == CHOOSE f : f = [n \in 0..MaxIno |-> IF n = 0 THEN {Root} ELSE F(f[n - 1])]
           Ok == {Root} \cup {i \in Inodes : places[i] # {}}
           Bad == {k \in Nat : k <= MaxIno /\ ~(level[k] \subseteq Ok)}
<1>1. Root \in Inodes /\ MaxIno \in Nat /\ 0 \in 0..MaxIno /\ MaxIno \in 0..MaxIno
  BY NamespaceAssumption DEF Root, Inodes
<1>2. level = [n \in 0..MaxIno |-> IF n = 0 THEN {Root} ELSE F(level[n - 1])]
  <2>1. \E f : f = [n \in 0..MaxIno |->
                      IF n = 0 THEN {Root} ELSE f[n - 1] \cup UNION {Children(x) : x \in f[n - 1]}]
    <3>1. \E f : Leveled(f, Root, MaxIno) BY <1>1, LevelsExist
    <3> QED BY <3>1 DEF Leveled
  <2> QED BY <2>1
<1>3. Below(Root) = level[MaxIno] BY DEF Below
<1> HIDE DEF level
<1>4. \A x \in Ok : Children(x) \subseteq Ok
  <2> SUFFICES ASSUME NEW x \in Ok, NEW y \in Children(x) PROVE y \in Ok
    OBVIOUS
  <2>1. x \in Inodes BY <1>1
  <2>2. PICK e \in ToSet(entries[x]) : e.ino = y BY DEF Children
  <2>3. entries[x] \in Seq(Entries) BY <2>1 DEF TypeInv, StateTypes
  <2>4. e \in Entries BY <2>2, <2>3, LenProperties, ElementOfSeq DEF ToSet
  <2>5. y \in Inodes /\ e = Entry(e.name, y) /\ e.name \in Names
    BY <2>2, <2>4 DEF Entries, Entry
  <2>6. PICK p \in Places : p[1] = x /\ p[2] = e.name
    <3>1. <<x, e.name>> \in Places BY <2>1, <2>5 DEF Places
    <3> QED BY <3>1
  <2>7. p \in places[y] BY <2>2, <2>5, <2>6, InPlace
  <2> QED BY <2>5, <2>7
<1>5. Bad = {}
  <2> SUFFICES ASSUME Bad # {} PROVE FALSE
    OBVIOUS
  <2>1. PICK k \in Bad : \A j \in Bad : k <= j
    <3>1. Bad \in SUBSET Nat OBVIOUS
    <3> HIDE DEF Bad
    <3> QED BY <3>1, NatMin
  <2>2. k \in 0..MaxIno /\ k \in Nat /\ ~(level[k] \subseteq Ok) BY <1>1
  <2>3. CASE k = 0
    <3>1. level[0] = {Root} BY <1>1, <1>2
    <3> QED BY <2>2, <2>3, <3>1
  <2>4. CASE k # 0
    <3>1. k - 1 \in Nat /\ k - 1 <= MaxIno /\ ~(k <= k - 1) BY <1>1, <2>2, <2>4
    <3>2. level[k - 1] \subseteq Ok BY <2>1, <3>1
    <3>3. level[k] = F(level[k - 1])
      <4> HIDE DEF F
      <4> QED BY <1>2, <2>2, <2>4
    <3> HIDE DEF Ok
    <3>4. F(level[k - 1]) \subseteq Ok BY <1>4, <3>2
    <3> QED BY <2>2, <3>3, <3>4
  <2> QED BY <2>3, <2>4
<1>6. level[MaxIno] \subseteq Ok
  <2> HIDE DEF Ok
  <2> QED BY <1>1, <1>5
<1> QED BY <1>3, <1>6

LEMMA ReachableParents ==
  ASSUME TypeInv, NEW d \in Reachable
  PROVE  d \in Inodes /\ Parent(d)
BY BelowRoot DEF Reachable, Parent, Held

(* What is seen from outside, in the terms of the invariant. *)
Dirs == {Root} \cup {i \in Range(Seen) : inode[i].kind = "dir"}

SeenFine ==
  /\ DOMAIN Seen \subseteq Places
  /\ Seen = [p \in DOMAIN Seen |-> Seen[p]]
  /\ \A p \in DOMAIN Seen : \E i \in Inodes : Seen[p] = i /\ p \in Held(i)
  /\ \A i \in Inodes : \A p \in Held(i) : p \in DOMAIN Seen /\ Seen[p] = i

DirsFine == \A d : d \in Dirs <=> d \in Inodes /\ Parent(d)

(* A place leads to one inode, also while a rename has its entry in hand. *)
LEMMA HeldOnce ==
  ASSUME Inv, NEW i \in Inodes, NEW j \in Inodes, NEW p \in Places, p \in Held(i), p \in Held(j)
  PROVE  i = j
<1>1. TypeInv /\ ApartInv /\ CallInv BY DEF Inv
<1>2. ASSUME NEW k \in Inodes, NEW t \in Putting(k), call[t].to = p PROVE Vacant(p)
  <2>1. t \in DOMAIN call /\ call[t].step = "put" BY DEF Putting, On
  <2> QED BY <1>1, <1>2, <2>1 DEF CallInv, CallFine
<1>3. ASSUME NEW t \in Putting(i), NEW u \in Putting(j), call[t].to = p, call[u].to = p
      PROVE  i = j
  <2>1. /\ t \in DOMAIN call /\ call[t].op = "rename" /\ call[t].ino = i
        /\ u \in DOMAIN call /\ call[u].op = "rename" /\ call[u].ino = j
    BY DEF Putting, On
  <2>2. p[1] \in Changes(call[t]) /\ p[1] \in Changes(call[u]) BY <1>3, <2>1 DEF Changes
  <2>3. t = u BY <1>1, <2>1, <2>2 DEF ApartInv, Clear
  <2> QED BY <2>1, <2>3
<1>4. CASE p \in places[i] /\ p \in places[j] BY <1>1, <1>4, PlacesType
<1>5. CASE p \in places[i] /\ p \notin places[j] BY <1>2, <1>5 DEF Held, Vacant
<1>6. CASE p \notin places[i] /\ p \in places[j] BY <1>2, <1>6 DEF Held, Vacant
<1>7. CASE p \notin places[i] /\ p \notin places[j] BY <1>3, <1>7 DEF Held
<1> QED BY <1>4, <1>5, <1>6, <1>7

LEMMA HeldPlaces ==
  ASSUME TypeInv, NEW i \in Inodes
  PROVE  Held(i) \subseteq Places
BY PlacesType DEF Held

LEMMA SeenIs == Inv /\ RootFine => SeenFine /\ DirsFine
<1> SUFFICES ASSUME Inv, RootFine PROVE SeenFine /\ DirsFine
  OBVIOUS
<1>1. TypeInv BY DEF Inv
<1>2. /\ DOMAIN Seen = {q \in Places : Taken(q) \/ MovingTo(q) # {}}
      /\ Seen = [p \in DOMAIN Seen |-> Seen[p]]
      /\ \A p \in DOMAIN Seen :
           Seen[p] = IF Taken(p) THEN Target(p) ELSE call[CHOOSE t \in MovingTo(p) : TRUE].ino
  BY DEF Seen
<1>3. ASSUME NEW p \in DOMAIN Seen PROVE Seen[p] \in Inodes /\ p \in Held(Seen[p])
  <2>1. p \in Places BY <1>2
  <2>2. CASE Taken(p)
    <3>1. Target(p) \in Inodes /\ p \in places[Target(p)] BY <1>1, <2>1, <2>2, FindPlace
    <3> QED BY <1>2, <2>2, <3>1 DEF Held
  <2>3. CASE ~Taken(p)
    <3>1. PICK t \in MovingTo(p) : Seen[p] = call[t].ino BY <1>2, <2>3
    <3>2. t \in DOMAIN call /\ call[t].op = "rename" /\ call[t].step = "put" /\ call[t].to = p
      BY DEF MovingTo, At
    <3>3. call[t] \in Calls BY <1>1, <3>2, CallTypes
    <3>4. call[t].ino \in Inodes BY <3>3 DEF Calls
    <3>5. t \in Putting(call[t].ino) BY <3>2 DEF Putting, On
    <3> QED BY <2>1, <3>1, <3>2, <3>4, <3>5 DEF Held
  <2> QED BY <2>2, <2>3
<1>4. ASSUME NEW i \in Inodes, NEW p \in Held(i) PROVE p \in DOMAIN Seen /\ Seen[p] = i
  <2>1. p \in Places BY <1>1, HeldPlaces
  <2>2. p \in DOMAIN Seen
    <3>1. CASE p \in places[i]
      <4>1. Taken(p) BY <1>1, <2>1, <3>1, FindPlace DEF Vacant
      <4> QED BY <1>2, <2>1, <4>1
    <3>2. CASE \E t \in Putting(i) : call[t].to = p
      <4>1. PICK t \in Putting(i) : call[t].to = p BY <3>2
      <4>2. t \in MovingTo(p) BY <4>1 DEF MovingTo, Putting, On, At
      <4> QED BY <1>2, <2>1, <4>2
    <3> QED BY <3>1, <3>2 DEF Held
  <2>3. Seen[p] \in Inodes /\ p \in Held(Seen[p]) BY <1>3, <2>2
  <2> QED BY <2>1, <2>2, <2>3, HeldOnce
<1>5. DOMAIN Seen \subseteq Places BY <1>2
<1>6. SeenFine BY <1>2, <1>3, <1>4, <1>5 DEF SeenFine
<1>7. ASSUME NEW d PROVE d \in Dirs <=> d \in Inodes /\ Parent(d)
  <2>1. Root \in Inodes BY NamespaceAssumption DEF Root, Inodes
  <2>2. d \in Range(Seen) <=> \E p \in DOMAIN Seen : Seen[p] = d BY DEF Range
  <2>3. d \in Range(Seen) <=> d \in Inodes /\ Held(d) # {} BY <1>3, <1>4, <2>2
  <2>4. d \in Dirs <=> d = Root \/ (d \in Range(Seen) /\ inode[d].kind = "dir") BY DEF Dirs
  <2> QED BY <2>1, <2>3, <2>4 DEF RootFine, Parent
<1> QED BY <1>6, <1>7 DEF DirsFine

LEMMA SeenThen == Inv' /\ RootFine' => SeenFine' /\ DirsFine'
BY SeenIs, PTL

(* What the tree has become, from what it should be. *)
LEMMA SeenBecomes ==
  ASSUME SeenFine, SeenFine', NEW F, F = [p \in DOMAIN F |-> F[p]], DOMAIN F \subseteq Places,
         \A p \in DOMAIN F : \E i \in Inodes : F[p] = i /\ p \in Held(i)',
         \A i \in Inodes : \A p \in Held(i)' : p \in DOMAIN F
  PROVE  Seen' = F
<1> DEFINE S == Seen'
<1>1. /\ DOMAIN S \subseteq Places /\ S = [p \in DOMAIN S |-> S[p]]
      /\ \A p \in DOMAIN S : \E i \in Inodes : S[p] = i /\ p \in Held(i)'
      /\ \A i \in Inodes : \A p \in Held(i)' : p \in DOMAIN S /\ S[p] = i
  BY DEF SeenFine
<1> HIDE DEF S
<1>2. DOMAIN S = DOMAIN F BY <1>1
<1>3. \A p \in DOMAIN F : S[p] = F[p] BY <1>1
<1>4. S = F BY <1>1, <1>2, <1>3
<1> QED BY <1>4 DEF S

(* A step of t about k, and what the tree does. *)
Around(t, k) ==
  /\ Others(t)
  /\ t \in DOMAIN call => call[t].ino = k
  /\ t \in DOMAIN call' => call'[t].ino = k
  /\ \A j \in Inodes \ {k} : inode'[j] = inode[j] /\ places'[j] = places[j]

Follows == TreeInv' /\ (Tree!Next \/ UNCHANGED <<Seen, Dirs>>)

(* What other calls than t have of k in hand. *)
Hand(k, t) == {p \in Places : \E u \in Putting(k) \ {t} : call[u].to = p}

LEMMA HeldStep ==
  ASSUME TypeInv, TypeInv', NEW t, NEW k \in Inodes, Around(t, k)
  PROVE  /\ \A j \in Inodes \ {k} : Held(j)' = Held(j)
         /\ Held(k) = places[k] \cup Hand(k, t) \cup
                        (IF At(t, "rename", "put") THEN {call[t].to} ELSE {})
         /\ Held(k)' = places'[k] \cup Hand(k, t) \cup
                        (IF At(t, "rename", "put")' THEN {call'[t].to} ELSE {})
<1>1. ASSUME NEW j \in Inodes \ {k} PROVE Held(j)' = Held(j)
  <2>1. Putting(j)' = Putting(j) /\ \A u \in Putting(j) : call'[u] = call[u]
    BY DEF Around, Others, Putting, On
  <2>2. places'[j] = places[j] BY DEF Around
  <2>3. \A p : p \in Held(j)' <=> p \in Held(j) BY <2>1, <2>2 DEF Held
  <2> QED BY <2>3
<1>2. /\ Putting(k)' \ {t} = Putting(k) \ {t}
      /\ \A u \in Putting(k) \ {t} : call'[u] = call[u]
  BY DEF Around, Others, Putting, On
<1>3. t \in Putting(k) <=> At(t, "rename", "put") BY DEF Around, Putting, On, At
<1>4. t \in Putting(k)' <=> At(t, "rename", "put")' BY DEF Around, Putting, On, At
<1>5. \A u \in Putting(k) : call[u].to \in Places
  <2>1. \A u \in Putting(k) : call[u] \in Calls BY CallTypes DEF Putting, On
  <2> QED BY <2>1 DEF Calls
<1>6. \A u \in Putting(k)' : call'[u].to \in Places
  <2>1. \A u \in Putting(k)' : call'[u] \in Calls BY DEF TypeInv, Putting, On
  <2> QED BY <2>1 DEF Calls
<1>7. \A p : p \in Held(k) <=> \/ p \in places[k]
                               \/ p \in Hand(k, t)
                               \/ At(t, "rename", "put") /\ p = call[t].to
  BY <1>3, <1>5 DEF Held, Hand
<1>8. \A p : p \in Held(k)' <=> \/ p \in places'[k]
                                \/ p \in Hand(k, t)
                                \/ At(t, "rename", "put")' /\ p = call'[t].to
  BY <1>2, <1>4, <1>6 DEF Held, Hand
<1>9. Held(k) = places[k] \cup Hand(k, t) \cup (IF At(t, "rename", "put") THEN {call[t].to} ELSE {})
  BY <1>7
<1>10. Held(k)' = places'[k] \cup Hand(k, t) \cup
                    (IF At(t, "rename", "put")' THEN {call'[t].to} ELSE {})
  BY <1>8
<1> QED BY <1>1, <1>9, <1>10

(* A step that takes no directory out of the tree keeps the invariant. *)
LEMMA StepKept ==
  ASSUME TreeInv, NEW t, NEW k \in Inodes \ {Root}, Around(t, k),
         \A j \in Inodes \ {k} : Held(j)' = Held(j),
         Parent(k) => Parent(k)',
         \A p \in Held(k)' : p \in Held(k) \/ Parent(p[1]),
         t \in DOMAIN call' /\ call'[t].step \in {"append", "take"} => Parent(call'[t].to[1])
  PROVE  TreeInv'
<1>1. Root \in Inodes BY NamespaceAssumption DEF Root, Inodes
<1>2. \A u \in DOMAIN call' \ {t} : u \in DOMAIN call /\ call'[u] = call[u] BY DEF Around, Others
<1>3. RootFine'
  <2>1. On(Root)' = {} BY <1>2 DEF Around, On, TreeInv, RootFine
  <2> QED BY <1>1, <2>1 DEF Around, TreeInv, RootFine
<1>4. ASSUME NEW d \in Inodes, Parent(d) PROVE Parent(d)'
  <2>1. CASE d = k BY <1>4, <2>1
  <2>2. CASE d # k BY <1>4, <2>2 DEF Around, Parent
  <2> QED BY <2>1, <2>2
<1>5. ASSUME NEW p \in Places, (\E i \in Inodes : p \in Held(i)') \/ Wanted(p)'
      PROVE  Parent(p[1])'
  <2>1. p[1] \in Inodes BY DEF Places
  <2>2. CASE \E i \in Inodes : p \in Held(i)'
    <3>1. (\E i \in Inodes : p \in Held(i)) \/ Parent(p[1]) BY <2>2
    <3>2. Parent(p[1]) BY <3>1 DEF TreeInv, ParentsFine
    <3> QED BY <1>4, <2>1, <3>2
  <2>3. CASE Wanted(p)'
    <3>1. PICK u \in DOMAIN call' : call'[u].step \in {"append", "take"} /\ call'[u].to = p
      BY <2>3 DEF Wanted
    <3>2. Parent(p[1])
      <4>1. CASE u = t BY <3>1, <4>1
      <4>2. CASE u # t BY <1>2, <3>1, <4>2 DEF Wanted, TreeInv, ParentsFine
      <4> QED BY <4>1, <4>2
    <3> QED BY <1>4, <2>1, <3>2
  <2> QED BY <1>5, <2>2, <2>3
<1>6. ParentsFine' BY <1>5 DEF ParentsFine
<1> QED BY <1>3, <1>6 DEF TreeInv

(* The directories after a step about k. *)
LEMMA DirsBecome ==
  ASSUME DirsFine, DirsFine', NEW k \in Inodes,
         \A j \in Inodes \ {k} : inode'[j] = inode[j] /\ Held(j)' = Held(j)
  PROVE  Dirs' = IF Parent(k)' THEN Dirs \cup {k} ELSE Dirs \ {k}
<1>1. \A d \in Inodes \ {k} : Parent(d)' <=> Parent(d) BY DEF Parent
<1>2. \A d : d \in Dirs' <=> d \in Inodes /\ Parent(d)' BY DEF DirsFine
<1>3. \A d : d \in Dirs <=> d \in Inodes /\ Parent(d) BY DEF DirsFine
<1>4. \A d : d \in Dirs' <=> (IF d = k THEN Parent(k)' ELSE d \in Dirs) BY <1>1, <1>2, <1>3
<1> QED BY <1>4

(* Nothing is seen of a step that keeps what is held. *)
LEMMA Unseen ==
  ASSUME Inv, Inv', TreeInv, NEW t, NEW k \in Inodes \ {Root}, Around(t, k),
         Held(k)' = Held(k), Parent(k)' <=> Parent(k),
         t \in DOMAIN call' /\ call'[t].step \in {"append", "take"} => Parent(call'[t].to[1])
  PROVE  Follows
<1>1. TypeInv /\ TypeInv' BY DEF Inv
<1>2. \A j \in Inodes : Held(j)' = Held(j) BY <1>1, HeldStep
<1>3. TreeInv' BY <1>2, StepKept
<1>4. SeenFine /\ DirsFine /\ SeenFine' /\ DirsFine' BY <1>3, SeenIs, SeenThen DEF TreeInv
<1>5. Seen' = Seen
  <2>1. PICK F : F = Seen OBVIOUS
  <2>2. /\ F = [p \in DOMAIN F |-> F[p]] /\ DOMAIN F \subseteq Places
        /\ \A p \in DOMAIN F : \E i \in Inodes : F[p] = i /\ p \in Held(i)
        /\ \A i \in Inodes : \A p \in Held(i) : p \in DOMAIN F
    BY <1>4, <2>1 DEF SeenFine
  <2>3. /\ \A p \in DOMAIN F : \E i \in Inodes : F[p] = i /\ p \in Held(i)'
        /\ \A i \in Inodes : \A p \in Held(i)' : p \in DOMAIN F
    BY <1>2, <2>2
  <2>4. Seen' = F BY <1>4, <2>2, <2>3, SeenBecomes
  <2> QED BY <2>1, <2>4
<1>6. Dirs' = Dirs
  <2>1. k \in Dirs <=> Parent(k) BY <1>4 DEF DirsFine
  <2>2. Dirs' = IF Parent(k)' THEN Dirs \cup {k} ELSE Dirs \ {k}
    BY <1>2, <1>4, DirsBecome DEF Around
  <2> QED BY <2>1, <2>2
<1> QED BY <1>3, <1>5, <1>6 DEF Follows

(* What k gets another place for is a new name, ... *)
LEMMA Grows ==
  ASSUME Inv, Inv', TreeInv, NEW t, NEW k \in Inodes \ {Root}, Around(t, k),
         NEW q \in Places, Parent(q[1]), \A i \in Inodes : q \notin Held(i),
         Held(k)' = Held(k) \cup {q}, inode'[k].kind = inode[k].kind,
         Held(k) = {} \/ inode[k].kind # "dir",
         t \in DOMAIN call' => call'[t].step \notin {"append", "take"}
  PROVE  Follows
<1>1. TypeInv /\ TypeInv' BY DEF Inv
<1>2. \A j \in Inodes \ {k} : Held(j)' = Held(j) /\ inode'[j] = inode[j]
  BY <1>1, HeldStep DEF Around
<1>3. Parent(k) => Parent(k)' BY DEF Parent
<1>4. TreeInv' BY <1>2, <1>3, StepKept
<1>5. SeenFine /\ DirsFine /\ SeenFine' /\ DirsFine' BY <1>4, SeenIs, SeenThen DEF TreeInv
<1>6. PICK F : F = Tree!Bind(Seen, q, k) OBVIOUS
<1>7. /\ DOMAIN F = DOMAIN Seen \cup {q} /\ F = [p \in DOMAIN F |-> F[p]]
      /\ \A p \in DOMAIN F : F[p] = IF p = q THEN k ELSE Seen[p]
  BY <1>6 DEF Tree!Bind
<1>8. /\ DOMAIN Seen \subseteq Places /\ q \notin DOMAIN Seen
      /\ \A p \in DOMAIN Seen : \E i \in Inodes : Seen[p] = i /\ p \in Held(i)
      /\ \A i \in Inodes : \A p \in Held(i) : p \in DOMAIN Seen /\ Seen[p] = i
  BY <1>5 DEF SeenFine
<1>9. Seen' = F
  <2>1. \A p \in DOMAIN F : \E i \in Inodes : F[p] = i /\ p \in Held(i)'
    <3> TAKE p \in DOMAIN F
    <3>1. CASE p = q BY <1>7, <3>1
    <3>2. CASE p # q
      <4>1. PICK i \in Inodes : Seen[p] = i /\ p \in Held(i) BY <1>7, <1>8, <3>2
      <4>2. p \in Held(i)' BY <1>2, <4>1
      <4> QED BY <1>7, <3>2, <4>1, <4>2
    <3> QED BY <3>1, <3>2
  <2>2. \A i \in Inodes : \A p \in Held(i)' : p \in DOMAIN F BY <1>2, <1>7, <1>8
  <2> QED BY <1>5, <1>7, <1>8, <2>1, <2>2, SeenBecomes
<1>10. /\ Dirs' = IF Parent(k)' THEN Dirs \cup {k} ELSE Dirs \ {k}
       /\ k \in Dirs <=> Parent(k)
       /\ q[1] \in Dirs
  <2>1. q[1] \in Inodes BY DEF Places
  <2> QED BY <1>2, <1>5, <2>1, DirsBecome DEF DirsFine
<1>11. /\ q \in (Dirs \X Names) \ DOMAIN Seen /\ q \in DOMAIN Seen' /\ Seen' # Seen
  <2>1. q = <<q[1], q[2]>> /\ q[2] \in Names BY DEF Places
  <2> QED BY <1>7, <1>8, <1>9, <1>10, <2>1
<1>12. CASE Held(k) = {}
  <2>1. k \notin Range(Seen) \cup Dirs BY <1>8, <1>10, <1>12 DEF Range, Parent
  <2>2. Dirs' \in {Dirs, Dirs \cup {k}} BY <1>10, <2>1
  <2>3. Tree!Range(Seen) = Range(Seen) BY DEF Tree!Range, Range
  <2>4. Tree!Make(q, k) BY <1>6, <1>9, <2>1, <2>2, <2>3 DEF Tree!Make, Dirs
  <2> QED BY <1>4, <1>11, <2>4 DEF Follows, Tree!Next, Dirs
<1>13. CASE Held(k) # {}
  <2>1. PICK p \in Held(k) : TRUE BY <1>13
  <2>2. p \in DOMAIN Seen /\ Seen[p] = k BY <1>8, <2>1
  <2>3. Dirs' = Dirs /\ k \notin Dirs BY <1>10, <1>13 DEF Parent
  <2>4. Tree!Link(p, q) BY <1>6, <1>9, <2>2, <2>3 DEF Tree!Link, Dirs
  <2> QED BY <1>4, <1>11, <2>2, <2>4 DEF Follows, Tree!Next, Dirs
<1> QED BY <1>12, <1>13

(* ... another place in the stead of one is a move, ... *)
LEMMA Shifts ==
  ASSUME Inv, Inv', TreeInv, NEW t, NEW k \in Inodes \ {Root}, Around(t, k),
         NEW p \in Held(k), NEW q \in Places, Parent(q[1]), \A i \in Inodes : q \notin Held(i),
         Held(k)' = (Held(k) \ {p}) \cup {q}, inode'[k].kind = inode[k].kind,
         t \in DOMAIN call' => call'[t].step \notin {"append", "take"}
  PROVE  Follows
<1>1. TypeInv /\ TypeInv' BY DEF Inv
<1>2. \A j \in Inodes \ {k} : Held(j)' = Held(j) /\ inode'[j] = inode[j]
  BY <1>1, HeldStep DEF Around
<1>3. Parent(k)' <=> Parent(k) BY DEF Parent
<1>4. TreeInv' BY <1>2, <1>3, StepKept
<1>5. SeenFine /\ DirsFine /\ SeenFine' /\ DirsFine' BY <1>4, SeenIs, SeenThen DEF TreeInv
<1>6. PICK F : F = Tree!Bind(Tree!Unbind(Seen, p), q, k) OBVIOUS
<1>7. /\ DOMAIN F = (DOMAIN Seen \ {p}) \cup {q} /\ F = [x \in DOMAIN F |-> F[x]]
      /\ \A x \in DOMAIN F : F[x] = IF x = q THEN k ELSE Seen[x]
  BY <1>6 DEF Tree!Bind, Tree!Unbind, Tree!Restrict
<1>8. /\ DOMAIN Seen \subseteq Places /\ q \notin DOMAIN Seen /\ p \in DOMAIN Seen /\ Seen[p] = k
      /\ \A x \in DOMAIN Seen : \E i \in Inodes : Seen[x] = i /\ x \in Held(i)
      /\ \A i \in Inodes : \A x \in Held(i) : x \in DOMAIN Seen /\ Seen[x] = i
  BY <1>5 DEF SeenFine
<1>9. Seen' = F
  <2>1. \A x \in DOMAIN F : \E i \in Inodes : F[x] = i /\ x \in Held(i)'
    <3> TAKE x \in DOMAIN F
    <3>1. CASE x = q BY <1>7, <3>1
    <3>2. CASE x # q
      <4>1. x # p /\ x \in DOMAIN Seen BY <1>7, <3>2
      <4>2. PICK i \in Inodes : Seen[x] = i /\ x \in Held(i) BY <1>8, <4>1
      <4>3. x \in Held(i)' BY <1>2, <4>1, <4>2
      <4> QED BY <1>7, <3>2, <4>2, <4>3
    <3> QED BY <3>1, <3>2
  <2>2. \A i \in Inodes : \A x \in Held(i)' : x \in DOMAIN F BY <1>2, <1>7, <1>8
  <2> QED BY <1>5, <1>7, <1>8, <2>1, <2>2, SeenBecomes
<1>10. Dirs' = Dirs /\ q[1] \in Dirs
  <2>1. q[1] \in Inodes BY DEF Places
  <2>2. k \in Dirs <=> Parent(k) BY <1>5 DEF DirsFine
  <2>3. Dirs' = IF Parent(k)' THEN Dirs \cup {k} ELSE Dirs \ {k} BY <1>2, <1>5, DirsBecome
  <2> QED BY <1>3, <1>5, <2>1, <2>2, <2>3 DEF DirsFine
<1>11. /\ q \in (Dirs \X Names) \ DOMAIN Seen /\ q \in DOMAIN Seen' /\ Seen' # Seen
  <2>1. q = <<q[1], q[2]>> /\ q[2] \in Names BY DEF Places
  <2> QED BY <1>7, <1>8, <1>9, <1>10, <2>1
<1>12. Tree!Move(p, q) BY <1>6, <1>8, <1>9, <1>10 DEF Tree!Move, Dirs
<1> QED BY <1>4, <1>8, <1>11, <1>12 DEF Follows, Tree!Next, Dirs

(* ... and one place less is a removal. *)
LEMMA Shrinks ==
  ASSUME Inv, Inv', TreeInv, TreeInv', NEW t, NEW k \in Inodes \ {Root}, Around(t, k),
         NEW p \in Held(k), Held(k)' = Held(k) \ {p}, ~Parent(k)',
         \A i \in Inodes : \A x \in Held(i) : x[1] # k
  PROVE  Follows
<1>1. TypeInv /\ TypeInv' BY DEF Inv
<1>2. \A j \in Inodes \ {k} : Held(j)' = Held(j) /\ inode'[j] = inode[j]
  BY <1>1, HeldStep DEF Around
<1>3. SeenFine /\ DirsFine /\ SeenFine' /\ DirsFine' BY SeenIs, SeenThen DEF TreeInv
<1>4. PICK F : F = Tree!Unbind(Seen, p) OBVIOUS
<1>5. /\ DOMAIN F = DOMAIN Seen \ {p} /\ F = [x \in DOMAIN F |-> F[x]]
      /\ \A x \in DOMAIN F : F[x] = Seen[x]
  BY <1>4 DEF Tree!Unbind, Tree!Restrict
<1>6. /\ DOMAIN Seen \subseteq Places /\ p \in DOMAIN Seen /\ Seen[p] = k
      /\ \A x \in DOMAIN Seen : \E i \in Inodes : Seen[x] = i /\ x \in Held(i)
      /\ \A i \in Inodes : \A x \in Held(i) : x \in DOMAIN Seen /\ Seen[x] = i
  BY <1>3 DEF SeenFine
<1>7. Seen' = F
  <2>1. \A x \in DOMAIN F : \E i \in Inodes : F[x] = i /\ x \in Held(i)'
    <3> TAKE x \in DOMAIN F
    <3>1. x # p /\ x \in DOMAIN Seen BY <1>5
    <3>2. PICK i \in Inodes : Seen[x] = i /\ x \in Held(i) BY <1>6, <3>1
    <3>3. x \in Held(i)' BY <1>2, <3>1, <3>2
    <3> QED BY <1>5, <3>2, <3>3
  <2>2. \A i \in Inodes : \A x \in Held(i)' : x \in DOMAIN F
    <3>1. p \notin Held(k)' OBVIOUS
    <3>2. \A i \in Inodes : \A x \in Held(i)' : x \in Held(i) BY <1>2
    <3> QED BY <1>2, <1>5, <1>6, <3>1, <3>2
  <2> QED BY <1>3, <1>5, <1>6, <2>1, <2>2, SeenBecomes
<1>8. Dirs' = Dirs \ {k} BY <1>2, <1>3, DirsBecome
<1>9. \A x \in DOMAIN Seen : x[1] # Seen[p] BY <1>6
<1>10. Tree!Remove(p) BY <1>4, <1>6, <1>7, <1>8, <1>9 DEF Tree!Remove, Dirs
<1>11. Seen' # Seen BY <1>5, <1>6, <1>7
<1> QED BY <1>6, <1>10, <1>11 DEF Follows, Tree!Next, Dirs

----
(* What each action is in the tree *)

(* A call in progress is about an inode other than the root. *)
LEMMA Going ==
  ASSUME Inv, TreeInv, NEW t \in DOMAIN call
  PROVE  \E k \in Inodes \ {Root} :
           /\ call[t] \in Calls /\ call[t].ino = k /\ CallFine(call[t])
           /\ call[t].from \in Places /\ call[t].to \in Places
<1>1. PICK c \in Calls, k \in Inodes :
        /\ call[t] = c /\ c.ino = k /\ CallFine(c) /\ t \in On(k)
        /\ c.from \in Places /\ c.to \in Places
  BY InProgress
<1>2. k # Root BY <1>1 DEF TreeInv, RootFine
<1> QED BY <1>1, <1>2

LEMMA Continued ==
  ASSUME TypeInv, NEW t \in DOMAIN call, NEW step, Continue(t, step)
  PROVE  /\ Others(t) /\ t \in DOMAIN call' /\ call'[t].step = step
         /\ call'[t].op = call[t].op /\ call'[t].ino = call[t].ino
         /\ call'[t].from = call[t].from /\ call'[t].to = call[t].to
<1>1. call[t] \in Calls BY CallTypes
<1> QED BY <1>1, CallTypes DEF Continue, Others, Calls

(* The place a call is about to fill is nobody's, and its directory is in the
   tree. *)
LEMMA ToFree ==
  ASSUME Inv, TreeInv, NEW t \in DOMAIN call, call[t].step \in {"append", "take"}
  PROVE  Parent(call[t].to[1]) /\ \A i \in Inodes : call[t].to \notin Held(i)
<1>1. PICK p \in Places : call[t].to = p BY Going
<1>2. Parent(p[1]) BY <1>1 DEF Wanted, TreeInv, ParentsFine
<1>3. CallFine(call[t]) /\ call[t].op \in {"create", "link", "rename"}
  <2>1. CallFine(call[t]) BY Going
  <2> QED BY <2>1 DEF CallFine, Stages
<1>4. \A i \in Inodes : p \notin places[i] BY <1>1, <1>3 DEF CallFine, Vacant
<1>5. ASSUME NEW i \in Inodes, NEW u \in Putting(i), call[u].to = p PROVE FALSE
  <2>1. u \in DOMAIN call /\ call[u].op = "rename" /\ call[u].step = "put" BY DEF Putting, On
  <2>2. p[1] \in Changes(call[t]) /\ p[1] \in Changes(call[u])
    BY <1>1, <1>3, <1>5, <2>1 DEF Changes
  <2> QED BY <2>1, <2>2 DEF Inv, ApartInv, Clear
<1> QED BY <1>1, <1>2, <1>4, <1>5 DEF Held

(* An entry that is in a list is in no one's hand. *)
LEMMA NotInHand ==
  ASSUME Inv, NEW t, NEW k \in Inodes, NEW p \in places[k]
  PROVE  p \notin Hand(k, t)
<1> SUFFICES ASSUME NEW u \in Putting(k), call[u].to = p PROVE FALSE
  BY DEF Hand
<1>1. u \in DOMAIN call /\ call[u].step = "put" BY DEF Putting, On
<1>2. Vacant(p) BY <1>1 DEF Inv, CallInv, CallFine
<1> QED BY <1>2 DEF Vacant

(* A call that comes in, goes on or returns, the lists being left alone, and
   has no entry in hand, is not seen. *)
LEMMA Aside ==
  ASSUME Inv, Inv', TreeInv, NEW t, NEW k \in Inodes \ {Root}, Others(t),
         t \in DOMAIN call => call[t].ino = k /\ call[t].step # "put",
         t \in DOMAIN call' =>
           /\ call'[t].ino = k /\ call'[t].step # "put"
           /\ call'[t].step \in {"append", "take"} => Parent(call'[t].to[1]),
         UNCHANGED entries,
         \A j \in Inodes \ {k} : inode'[j] = inode[j],
         (inode'[k].kind = "dir" <=> inode[k].kind = "dir") \/ Held(k) = {}
  PROVE  Follows
<1>1. TypeInv /\ TypeInv' BY DEF Inv
<1>2. places' = places BY SamePlaces
<1>3. Around(t, k) BY <1>2 DEF Around
<1>4. ~At(t, "rename", "put") /\ ~At(t, "rename", "put")' BY DEF At
<1>5. Held(k)' = Held(k) BY <1>1, <1>2, <1>3, <1>4, HeldStep
<1>6. Parent(k)' <=> Parent(k) BY <1>5 DEF Parent
<1> QED BY <1>3, <1>5, <1>6, Unseen

(* A call comes in. *)
LEMMA Enters ==
  ASSUME Inv, Inv', TreeInv, NEW t \in Threads, NEW c \in Calls, t \notin DOMAIN call, Enter(t, c),
         NEW k \in Inodes \ {Root}, c.ino = k, c.step # "put",
         c.step \in {"append", "take"} => Parent(c.to[1]),
         UNCHANGED entries,
         \A j \in Inodes \ {k} : inode'[j] = inode[j],
         inode'[k] = inode[k] \/ Held(k) = {}
  PROVE  Follows
<1>1. TypeInv BY DEF Inv
<1>2. Others(t) /\ t \in DOMAIN call' /\ call'[t] = c BY <1>1, Entered
<1> QED BY <1>2, Aside

(* An inode that an entry leads to is not the root. *)
LEMMA Found ==
  ASSUME Inv, TreeInv, NEW p \in Places, Taken(p)
  PROVE  Target(p) \in Inodes \ {Root} /\ p \in places[Target(p)]
<1>1. Target(p) \in Inodes /\ p \in places[Target(p)] BY FindPlace DEF Inv
<1>2. Target(p) # Root BY <1>1 DEF TreeInv, RootFine, Held
<1> QED BY <1>1, <1>2

LEMMA Create_Follows ==
  ASSUME Inv, Inv', TreeInv, NEW t \in Threads, NEW p \in Places, Parent(p[1]), NEW kind, NEW nlink,
         Create(t, p, kind, nlink)
  PROVE  Follows
<1>1. TypeInv /\ OrderInv BY DEF Inv
<1>2. PICK n \in Inodes : {i \in Inodes : inode[i].kind # "unused"} = 1..n
  BY <1>1 DEF OrderInv
<1>3. PICK k : k = Cardinality({i \in Inodes : inode[i].kind # "unused"}) + 1 OBVIOUS
<1>4. k = n + 1
  <2>1. n \in Nat BY DEF Inodes
  <2>2. Cardinality(1..n) = n BY <2>1, FS_Interval
  <2> QED BY <1>2, <1>3, <2>1, <2>2
<1>5. PICK c : c = NewCall("create", "append", p, p, k) OBVIOUS
<1>6. /\ k \in Inodes /\ t \notin DOMAIN call
      /\ inode' = [inode EXCEPT ![k] = [kind |-> kind, nlink |-> nlink]]
      /\ Enter(t, c) /\ UNCHANGED <<entries, cached, raced>>
  BY <1>3, <1>5 DEF Create, Admitted
<1>7. inode[k].kind = "unused"
  <2>1. k \notin 1..n BY <1>4 DEF Inodes
  <2> QED BY <1>2, <1>6, <2>1
<1>8. k # Root BY <1>7 DEF TreeInv, RootFine
<1>9. Held(k) = {}
  <2>1. places[k] = {} /\ On(k) = {}
    BY <1>6, <1>7 DEF Inv, InodeInv, InodeFine, UnusedFine
  <2>2. Putting(k) = {} BY <2>1 DEF Putting
  <2> QED BY <2>1, <2>2 DEF Held
<1>10. c \in Calls BY <1>5, <1>6 DEF NewCall, Calls
<1>11. c.ino = k /\ c.step = "append" /\ c.to = p BY <1>5 DEF NewCall
<1>12. \A j \in Inodes \ {k} : inode'[j] = inode[j] BY <1>1, <1>6 DEF TypeInv, StateTypes
<1> QED BY <1>6, <1>8, <1>9, <1>10, <1>11, <1>12, Enters

LEMMA Comes_Follows ==
  ASSUME Inv, Inv', TreeInv, NEW t \in Threads, NEW p \in Places, NEW q \in Places, Parent(q[1]),
         Link(t, p, q) \/ Rename(t, p, q) \/ Use(t, p)
  PROVE  Follows
<1>1. PICK k : k = Target(p) OBVIOUS
<1>2. Taken(p) BY DEF Link, Rename, Use
<1>3. k \in Inodes \ {Root} BY <1>1, <1>2, Found
<1>4. PICK c : \/ c = NewCall("link", "append", p, q, k) /\ Enter(t, c)
               \/ c = NewCall("rename", "take", p, q, k) /\ Enter(t, c)
               \/ c = NewCall("use", "touch", p, p, k) /\ Enter(t, c)
  BY <1>1 DEF Link, Rename, Use
<1>5. c \in Calls BY <1>3, <1>4 DEF NewCall, Calls
<1>6. /\ c.ino = k /\ c.step # "put" /\ Enter(t, c)
      /\ c.step \in {"append", "take"} => c.to = q
  BY <1>4 DEF NewCall
<1>7. t \notin DOMAIN call /\ UNCHANGED <<inode, entries>>
  BY DEF Link, Rename, Use, Admitted
<1> QED BY <1>3, <1>5, <1>6, <1>7, Enters

LEMMA Goes_Follows ==
  ASSUME Inv, Inv', TreeInv, NEW t \in Threads,
         CacheInode(t) \/ LinkCount(t) \/ UnlinkCount(t) \/ UnlinkFree(t) \/ Touch(t)
  PROVE  Follows
<1>1. TypeInv BY DEF Inv
<1>2. t \in DOMAIN call BY DEF CacheInode, LinkCount, UnlinkCount, UnlinkFree, Touch, At
<1>3. PICK k \in Inodes \ {Root} : call[t].ino = k /\ CallFine(call[t]) BY <1>2, Going
<1>4. call[t].step # "put" /\ UNCHANGED entries
  BY DEF CacheInode, LinkCount, UnlinkCount, UnlinkFree, Touch, At
<1>5. /\ Others(t)
      /\ t \in DOMAIN call' => /\ call'[t].ino = k /\ call'[t].step # "put"
                               /\ call'[t].step \notin {"append", "take"}
  <2>1. CASE Return(t) BY <1>1, <1>2, <2>1, Returned
  <2>2. CASE Continue(t, "test") BY <1>1, <1>2, <1>3, <2>2, Continued
  <2> QED BY <2>1, <2>2 DEF CacheInode, LinkCount, UnlinkCount, UnlinkFree, Touch
<1>6. /\ \A j \in Inodes \ {k} : inode'[j] = inode[j]
      /\ inode'[k].kind = "dir" <=> inode[k].kind = "dir"
  <2>1. inode \in [Inodes -> [kind : {"dir", "file", "unused", "freed"}, nlink : Int]]
    BY <1>1 DEF TypeInv, StateTypes
  <2>2. CASE CacheInode(t) \/ Touch(t) BY <2>2 DEF CacheInode, Touch
  <2>3. CASE LinkCount(t) BY <1>3, <2>1, <2>3 DEF LinkCount
  <2>4. CASE UnlinkCount(t) BY <1>3, <2>1, <2>4 DEF UnlinkCount
  <2>5. CASE UnlinkFree(t)
    <3>1. inode[k].kind # "dir" BY <1>3, <2>5 DEF UnlinkFree, At, CallFine
    <3>2. inode' = inode \/ inode' = [inode EXCEPT ![k].kind = "freed"]
      BY <1>3, <2>5 DEF UnlinkFree
    <3> QED BY <2>1, <3>1, <3>2
  <2> QED BY <2>2, <2>3, <2>4, <2>5
<1> QED BY <1>2, <1>3, <1>4, <1>5, <1>6, Aside

LEMMA Entry_Follows ==
  ASSUME Inv, Inv', TreeInv, NEW t \in Threads, AppendEntry(t) \/ LinkEntry(t)
  PROVE  Follows
<1>1. TypeInv /\ TypeInv' BY DEF Inv
<1>2. t \in DOMAIN call /\ call[t].step = "append" BY DEF AppendEntry, LinkEntry, At
<1>3. PICK k \in Inodes \ {Root} :
        /\ call[t] \in Calls /\ call[t].ino = k /\ CallFine(call[t])
        /\ call[t].from \in Places /\ call[t].to \in Places
  BY <1>2, Going
<1>4. PICK q \in Places : q = call[t].to BY <1>3
<1>5. Parent(q[1]) /\ (\A i \in Inodes : q \notin Held(i)) BY <1>2, <1>4, ToFree
<1>6. Vacant(q) BY <1>5 DEF Vacant, Held
<1>7. inode' = inode /\ entries' = [entries EXCEPT ![q[1]] = Append(@, Entry(q[2], k))]
  <2>1. CASE AppendEntry(t)
    <3>1. call[t].to = call[t].from BY <1>3, <2>1 DEF AppendEntry, At, CallFine
    <3> QED BY <1>3, <1>4, <2>1, <3>1 DEF AppendEntry, Entry
  <2>2. CASE LinkEntry(t) BY <1>3, <1>4, <2>2 DEF LinkEntry, Entry
  <2> QED BY <2>1, <2>2
<1>8. places' = [places EXCEPT ![k] = @ \cup {q}] BY <1>1, <1>6, <1>7, Added
<1>9. places \in [Inodes -> SUBSET Places] BY <1>1, PlacesType
<1>10. /\ Others(t) /\ t \in DOMAIN call' /\ call'[t].ino = k
       /\ call'[t].step \in {"cache", "count"}
  <2>1. CASE AppendEntry(t) BY <1>1, <1>2, <1>3, <2>1, Continued DEF AppendEntry
  <2>2. CASE LinkEntry(t)
    <3>1. call' = [call EXCEPT ![t].step = "count", ![t].links = inode[k].nlink]
      BY <1>3, <2>2 DEF LinkEntry
    <3>2. /\ DOMAIN call' = DOMAIN call
          /\ \A u \in DOMAIN call \ {t} : call'[u] = call[u]
          /\ call'[t] = [call[t] EXCEPT !.step = "count", !.links = inode[k].nlink]
      BY <1>1, <1>2, <3>1, CallTypes
    <3>3. call'[t].ino = k /\ call'[t].step = "count" BY <1>3, <3>2 DEF Calls
    <3> QED BY <1>2, <3>2, <3>3 DEF Others
  <2> QED BY <2>1, <2>2
<1>11. Around(t, k) BY <1>3, <1>7, <1>8, <1>9, <1>10 DEF Around
<1>12. ~At(t, "rename", "put") /\ ~At(t, "rename", "put")' BY <1>2, <1>10 DEF At
<1>13. Held(k)' = Held(k) \cup {q}
  <2>1. places'[k] = places[k] \cup {q} BY <1>8, <1>9
  <2>2. Held(k) = places[k] \cup Hand(k, t) /\ Held(k)' = places'[k] \cup Hand(k, t)
    BY <1>1, <1>11, <1>12, HeldStep
  <2> QED BY <2>1, <2>2
<1>14. Held(k) = {} \/ inode[k].kind # "dir"
  <2>1. CASE AppendEntry(t)
    <3>1. t \in Making(k) BY <1>2, <1>3, <2>1 DEF Making, On, AppendEntry, At
    <3>2. On(k) = {t} /\ places[k] = {} BY <3>1 DEF Inv, InodeInv, InodeFine, MadeFine
    <3>3. Hand(k, t) = {} BY <3>2 DEF Hand, Putting
    <3>4. Held(k) = places[k] \cup Hand(k, t) BY <1>1, <1>11, <1>12, HeldStep
    <3> QED BY <3>2, <3>3, <3>4
  <2>2. CASE LinkEntry(t) BY <1>3, <2>2 DEF LinkEntry, At, CallFine
  <2> QED BY <2>1, <2>2
<1> QED BY <1>5, <1>7, <1>10, <1>11, <1>13, <1>14, Grows

LEMMA RenameTake_Follows ==
  ASSUME Inv, Inv', TreeInv, NEW t \in Threads, RenameTake(t) \/ RenameInPlace(t)
  PROVE  Follows
<1>1. TypeInv /\ TypeInv' BY DEF Inv
<1>2. t \in DOMAIN call /\ call[t].op = "rename" /\ call[t].step = "take"
  BY DEF RenameTake, RenameInPlace, At
<1>3. PICK k \in Inodes \ {Root} :
        /\ call[t] \in Calls /\ call[t].ino = k /\ CallFine(call[t])
        /\ call[t].from \in Places /\ call[t].to \in Places
  BY <1>2, Going
<1>4. PICK p \in Places, q \in Places : p = call[t].from /\ q = call[t].to BY <1>3
<1>5. Parent(q[1]) /\ (\A i \in Inodes : q \notin Held(i)) BY <1>2, <1>4, ToFree
<1>6. p \in places[k] /\ Vacant(q) BY <1>2, <1>3, <1>4 DEF CallFine
<1>7. Taken(p) /\ Target(p) = k
  <2>1. Taken(p) BY <1>1, <1>6, FindPlace DEF Vacant
  <2>2. Target(p) \in Inodes /\ p \in places[Target(p)] BY <1>1, <2>1, FindPlace
  <2> QED BY <1>1, <1>6, <2>1, <2>2, PlacesType
<1>8. places \in [Inodes -> SUBSET Places] BY <1>1, PlacesType
<1>9. p \notin Hand(k, t) /\ p \in Held(k) /\ p # q
  BY <1>3, <1>5, <1>6, NotInHand DEF Held
<1>10. inode' = inode BY DEF RenameTake, RenameInPlace
<1>11. ~At(t, "rename", "put") BY <1>2 DEF At
<1>12. CASE RenameTake(t)
  <2>1. /\ Continue(t, "put") /\ entries' = [entries EXCEPT ![p[1]] = RemoveAt(@, Find(p))]
    BY <1>4, <1>7, <1>12 DEF RenameTake
  <2>2. /\ Others(t) /\ t \in DOMAIN call' /\ call'[t].step = "put" /\ call'[t].op = "rename"
        /\ call'[t].ino = k /\ call'[t].to = q
    BY <1>1, <1>2, <1>3, <1>4, <2>1, Continued
  <2>3. places' = [places EXCEPT ![k] = @ \ {p}] BY <1>1, <1>7, <2>1, Removed
  <2>4. Around(t, k) BY <1>3, <1>8, <1>10, <2>2, <2>3 DEF Around
  <2>5. At(t, "rename", "put")' BY <2>2 DEF At
  <2>6. Held(k)' = (Held(k) \ {p}) \cup {q}
    <3>1. places'[k] = places[k] \ {p} BY <1>8, <2>3
    <3>2. Held(k) = places[k] \cup Hand(k, t) /\ Held(k)' = places'[k] \cup Hand(k, t) \cup {q}
      BY <1>1, <1>11, <2>2, <2>4, <2>5, HeldStep
    <3> QED BY <1>9, <3>1, <3>2
  <2> QED BY <1>5, <1>9, <1>10, <2>2, <2>4, <2>6, Shifts
<1>13. CASE RenameInPlace(t)
  <2>1. /\ Continue(t, "touch") /\ entries' = [entries EXCEPT ![p[1]][Find(p)].name = q[2]]
        /\ p[1] = q[1]
    BY <1>2, <1>4, <1>7, <1>13 DEF RenameInPlace, Crosses
  <2>2. /\ Others(t) /\ t \in DOMAIN call' /\ call'[t].step = "touch" /\ call'[t].ino = k
    BY <1>1, <1>2, <1>3, <2>1, Continued
  <2>3. places' = [places EXCEPT ![k] = (@ \ {p}) \cup {q}]
    BY <1>1, <1>6, <1>7, <2>1, Renamed
  <2>4. Around(t, k) BY <1>3, <1>8, <1>10, <2>2, <2>3 DEF Around
  <2>5. ~At(t, "rename", "put")' BY <2>2 DEF At
  <2>6. Held(k)' = (Held(k) \ {p}) \cup {q}
    <3>1. places'[k] = (places[k] \ {p}) \cup {q} BY <1>8, <2>3
    <3>2. Held(k) = places[k] \cup Hand(k, t) /\ Held(k)' = places'[k] \cup Hand(k, t)
      BY <1>1, <1>11, <2>4, <2>5, HeldStep
    <3> QED BY <1>9, <3>1, <3>2
  <2> QED BY <1>5, <1>9, <1>10, <2>2, <2>4, <2>6, Shifts
<1> QED BY <1>12, <1>13

LEMMA RenamePut_Follows ==
  ASSUME Inv, Inv', TreeInv, NEW t \in Threads, RenamePut(t)
  PROVE  Follows
<1>1. TypeInv /\ TypeInv' BY DEF Inv
<1>2. t \in DOMAIN call /\ call[t].op = "rename" /\ call[t].step = "put" BY DEF RenamePut, At
<1>3. PICK k \in Inodes \ {Root} :
        /\ call[t] \in Calls /\ call[t].ino = k /\ CallFine(call[t]) /\ call[t].to \in Places
  BY <1>2, Going
<1>4. PICK q \in Places : q = call[t].to /\ Vacant(q) BY <1>2, <1>3 DEF CallFine
<1>5. inode' = inode /\ entries' = [entries EXCEPT ![q[1]] = Cons(Entry(q[2], k), @)]
  BY <1>3, <1>4 DEF RenamePut, Entry
<1>6. places' = [places EXCEPT ![k] = @ \cup {q}] BY <1>1, <1>4, <1>5, Added
<1>7. places \in [Inodes -> SUBSET Places] BY <1>1, PlacesType
<1>8. Others(t) /\ t \in DOMAIN call' /\ call'[t].step = "touch" /\ call'[t].ino = k
  BY <1>1, <1>2, <1>3, Continued DEF RenamePut
<1>9. Around(t, k) BY <1>3, <1>5, <1>6, <1>7, <1>8 DEF Around
<1>10. At(t, "rename", "put") /\ ~At(t, "rename", "put")' BY <1>2, <1>8 DEF At
<1>11. Held(k)' = Held(k)
  <2>1. places'[k] = places[k] \cup {q} BY <1>6, <1>7
  <2>2. Held(k) = places[k] \cup Hand(k, t) \cup {q} /\ Held(k)' = places'[k] \cup Hand(k, t)
    BY <1>1, <1>4, <1>9, <1>10, HeldStep
  <2> QED BY <2>1, <2>2
<1>12. Parent(k)' <=> Parent(k) BY <1>5, <1>11 DEF Parent
<1> QED BY <1>8, <1>9, <1>11, <1>12, Unseen

LEMMA Unlink_Follows ==
  ASSUME Inv, Inv', TreeInv, NEW t \in Threads, NEW p \in Places, Unlink(t, p)
  PROVE  Follows
<1>1. TypeInv /\ TypeInv' BY DEF Inv
<1>2. PICK k : k = Target(p) OBVIOUS
<1>3. k \in Inodes \ {Root} /\ p \in places[k] /\ Taken(p) /\ inode[k].kind = "file"
  BY <1>2, Found DEF Unlink
<1>4. /\ t \notin DOMAIN call /\ inode' = inode
      /\ entries' = [entries EXCEPT ![p[1]] = RemoveAt(@, Find(p))]
  BY DEF Unlink, Admitted
<1>5. PICK c : /\ c = [NewCall("unlink", "count", p, p, k) EXCEPT !.links = inode[k].nlink]
               /\ Enter(t, c)
  BY <1>2 DEF Unlink
<1>6. c \in Calls /\ c.ino = k /\ c.step = "count"
  <2>1. inode[k].nlink \in Int BY <1>1, <1>3 DEF TypeInv, StateTypes
  <2> QED BY <1>3, <1>5, <2>1 DEF NewCall, Calls
<1>7. Others(t) /\ t \in DOMAIN call' /\ call'[t] = c BY <1>1, <1>4, <1>5, <1>6, Entered
<1>8. places \in [Inodes -> SUBSET Places] BY <1>1, PlacesType
<1>9. places' = [places EXCEPT ![k] = @ \ {p}] BY <1>1, <1>2, <1>3, <1>4, Removed
<1>10. Around(t, k) BY <1>4, <1>6, <1>7, <1>8, <1>9 DEF Around
<1>11. ~At(t, "rename", "put") /\ ~At(t, "rename", "put")' BY <1>4, <1>6, <1>7 DEF At
<1>12. p \in Held(k) /\ Held(k)' = Held(k) \ {p}
  <2>1. places'[k] = places[k] \ {p} BY <1>3, <1>8, <1>9
  <2>2. Held(k) = places[k] \cup Hand(k, t) /\ Held(k)' = places'[k] \cup Hand(k, t)
    BY <1>1, <1>3, <1>10, <1>11, HeldStep
  <2> QED BY <1>3, <2>1, <2>2, NotInHand
<1>13. ~Parent(k) /\ ~Parent(k)' BY <1>3, <1>4 DEF Parent
<1>14. \A i \in Inodes : \A x \in Held(i) : x[1] # k
  BY <1>1, <1>13, HeldPlaces DEF TreeInv, ParentsFine
<1>15. \A j \in Inodes \ {k} : Held(j)' = Held(j) BY <1>1, <1>3, <1>10, HeldStep
<1>16. TreeInv' BY <1>3, <1>6, <1>7, <1>10, <1>12, <1>13, <1>15, StepKept
<1> QED BY <1>3, <1>10, <1>12, <1>13, <1>14, <1>16, Shrinks

LEMMA RemoveDirectory_Follows ==
  ASSUME Inv, Inv', TreeInv, NEW t \in Threads, NEW p \in Places, RemoveDirectory(t, p)
  PROVE  Follows
<1>1. TypeInv /\ TypeInv' BY DEF Inv
<1>2. PICK k : k = Target(p) OBVIOUS
<1>3. k \in Inodes \ {Root} /\ p \in places[k] /\ Taken(p) /\ inode[k].kind = "dir"
  BY <1>2, Found DEF RemoveDirectory
<1>4. /\ t \notin DOMAIN call /\ call' = call /\ entries[k] = <<>>
      /\ entries' = [entries EXCEPT ![p[1]] = RemoveAt(@, Find(p))]
      /\ inode' = [inode EXCEPT ![k].kind = "freed"]
  BY <1>2 DEF RemoveDirectory, Admitted
<1>5. inode'[k].kind # "dir" /\ \A j \in Inodes \ {k} : inode'[j] = inode[j]
  <2>1. inode \in [Inodes -> [kind : {"dir", "file", "unused", "freed"}, nlink : Int]]
    BY <1>1 DEF TypeInv, StateTypes
  <2> QED BY <1>3, <1>4, <2>1
<1>6. places \in [Inodes -> SUBSET Places] BY <1>1, PlacesType
<1>7. places' = [places EXCEPT ![k] = @ \ {p}] BY <1>1, <1>2, <1>3, <1>4, Removed
<1>8. Around(t, k) BY <1>4, <1>5, <1>6, <1>7 DEF Around, Others
<1>9. ~At(t, "rename", "put") /\ ~At(t, "rename", "put")' BY <1>4 DEF At
<1>10. p \in Held(k) /\ Held(k)' = Held(k) \ {p}
  <2>1. places'[k] = places[k] \ {p} BY <1>3, <1>6, <1>7
  <2>2. Held(k) = places[k] \cup Hand(k, t) /\ Held(k)' = places'[k] \cup Hand(k, t)
    BY <1>1, <1>3, <1>8, <1>9, HeldStep
  <2> QED BY <1>3, <2>1, <2>2, NotInHand
<1>11. ASSUME NEW u \in DOMAIN call, call[u].step \in {"append", "take", "put"}
       PROVE  call[u].to[1] # k
  <2>1. PICK c : c = NewCall("rmdir", "take", p, p, k) /\ Apart(c, call[u])
    BY <1>2 DEF RemoveDirectory, Admitted
  <2>2. k \in Changes(c) BY <2>1 DEF NewCall, Changes
  <2>3. call[u].op \in {"create", "link", "rename"}
    <3>1. CallFine(call[u]) BY Going
    <3> QED BY <1>11, <3>1 DEF CallFine, Stages
  <2>4. call[u].to[1] \in Changes(call[u]) BY <2>3 DEF Changes
  <2> QED BY <2>1, <2>2, <2>4 DEF Apart
<1>12. ASSUME NEW i \in Inodes, NEW x \in Held(i) PROVE x[1] # k
  <2>1. x \in Places BY <1>1, HeldPlaces
  <2>2. CASE x \in places[i]
    <3>1. Entry(x[2], i) \in ToSet(entries[x[1]]) BY <2>1, <2>2, InPlace
    <3>2. ToSet(<<>>) = {} BY DEF ToSet
    <3> QED BY <1>4, <3>1, <3>2
  <2>3. CASE \E u \in Putting(i) : call[u].to = x BY <1>11, <2>3 DEF Putting, On
  <2> QED BY <2>2, <2>3 DEF Held
<1>13. ~Parent(k)' BY <1>5 DEF Parent
<1>14. \A j \in Inodes \ {k} : Held(j)' = Held(j) BY <1>1, <1>3, <1>8, HeldStep
<1>15. TreeInv'
  <2>1. RootFine'
    <3>1. Root \in Inodes BY NamespaceAssumption DEF Root, Inodes
    <3>2. On(Root)' = On(Root) BY <1>4 DEF On
    <3> QED BY <1>3, <1>5, <1>14, <3>1, <3>2 DEF TreeInv, RootFine
  <2>2. ASSUME NEW x \in Places, (\E i \in Inodes : x \in Held(i)') \/ Wanted(x)'
        PROVE  Parent(x[1])'
    <3>1. (\E i \in Inodes : x \in Held(i)) \/ Wanted(x) BY <1>4, <1>10, <1>14, <2>2 DEF Wanted
    <3>2. Parent(x[1]) BY <3>1 DEF TreeInv, ParentsFine
    <3>3. x[1] # k BY <1>11, <1>12, <3>1 DEF Wanted
    <3>4. x[1] \in Inodes BY DEF Places
    <3> QED BY <1>5, <1>14, <3>2, <3>3, <3>4 DEF Parent
  <2> QED BY <2>1, <2>2 DEF TreeInv, ParentsFine
<1> QED BY <1>3, <1>8, <1>10, <1>12, <1>13, <1>15, Shrinks

(* Every step of a call is one of the tree, or not seen. *)
(* A step that leaves the tree and the calls alone. *)
LEMMA Unchanged_Follows ==
  ASSUME Inv, Inv', TreeInv, UNCHANGED <<inode, entries, call>>
  PROVE  Follows
<1>1. UNCHANGED <<inode, entries, call>> OBVIOUS
<1>2. UNCHANGED places BY <1>1, SamePlaces
<1>3. \A i : Held(i)' = Held(i) BY <1>1, <1>2 DEF Held, Putting, On
<1>4. TreeInv' BY <1>1, <1>3 DEF TreeInv, RootFine, ParentsFine, Parent, Wanted, On
<1>5. SeenFine /\ DirsFine /\ SeenFine' /\ DirsFine' BY <1>4, SeenIs, SeenThen DEF TreeInv
<1>6. Seen' = Seen
  <2>1. PICK F : F = Seen OBVIOUS
  <2>2. /\ F = [p \in DOMAIN F |-> F[p]] /\ DOMAIN F \subseteq Places
        /\ \A p \in DOMAIN F : \E i \in Inodes : F[p] = i /\ p \in Held(i)
        /\ \A i \in Inodes : \A p \in Held(i) : p \in DOMAIN F
    BY <1>5, <2>1 DEF SeenFine
  <2>3. Seen' = F BY <1>3, <1>5, <2>2, SeenBecomes
  <2> QED BY <2>1, <2>3
<1>7. Dirs' = Dirs BY <1>1, <1>6 DEF Dirs
<1> QED BY <1>4, <1>6, <1>7 DEF Follows
LEMMA Next_Follows ==
  ASSUME Inv, Inv', TreeInv, [Next]_vars
  PROVE  TreeInv' /\ [Tree!Next]_<<Seen, Dirs>>
<1>1. CASE Next
  <2>1. PICK t \in Threads :
          \/ \E p \in Reachable \X Names :
               \/ MakeDirectory(t, p) \/ CreateFile(t, p) \/ Symlink(t, p)
               \/ Unlink(t, p) \/ RemoveDirectory(t, p)
          \/ \E p \in Reachable \X (Names \ Marked) :
               \/ Use(t, p) \/ UseVersions(t, p)
               \/ \E q \in Reachable \X Names : Link(t, p, q) \/ Rename(t, p, q)
          \/ AppendEntry(t) \/ CacheInode(t)
          \/ LinkEntry(t) \/ LinkCount(t)
          \/ UnlinkCount(t) \/ UnlinkFree(t)
          \/ RenameTake(t) \/ RenamePut(t) \/ RenameInPlace(t)
          \/ Touch(t) \/ TouchVersions(t)
    BY <1>1 DEF Next
  <2>2. /\ \A p \in Reachable \X Names : p \in Places /\ Parent(p[1])
        /\ Reachable \X (Names \ Marked) \subseteq Reachable \X Names
    BY ReachableParents DEF Inv, Places
  <2>3. ASSUME NEW p \in Places, Parent(p[1]),
               MakeDirectory(t, p) \/ CreateFile(t, p) \/ Symlink(t, p)
        PROVE  Follows
    BY <2>3, Create_Follows DEF MakeDirectory, CreateFile, Symlink
  <2>4. ASSUME NEW p \in Places, Unlink(t, p) \/ RemoveDirectory(t, p) PROVE Follows
    BY <2>4, Unlink_Follows, RemoveDirectory_Follows
  <2>5. ASSUME NEW p \in Places, NEW q \in Places, Parent(q[1]),
               Link(t, p, q) \/ Rename(t, p, q) \/ Use(t, p)
        PROVE  Follows
    BY <2>5, Comes_Follows
  <2>6. ASSUME AppendEntry(t) \/ LinkEntry(t)
        PROVE  Follows
    BY <2>6, Entry_Follows
  <2>7. ASSUME CacheInode(t) \/ LinkCount(t) \/ UnlinkCount(t) \/ UnlinkFree(t) \/ Touch(t)
        PROVE  Follows
    BY <2>7, Goes_Follows
  <2>8. ASSUME RenameTake(t) \/ RenamePut(t) \/ RenameInPlace(t)
        PROVE  Follows
    BY <2>8, RenameTake_Follows, RenamePut_Follows
  <2>9. ASSUME NEW p \in Places, UseVersions(t, p) PROVE Follows
    <3>1. UNCHANGED <<inode, entries, call>> BY <2>9 DEF UseVersions
    <3> QED BY <3>1, Unchanged_Follows
  <2>10. ASSUME TouchVersions(t) PROVE Follows
    <3>1. UNCHANGED <<inode, entries, call>> BY <2>10 DEF TouchVersions
    <3> QED BY <3>1, Unchanged_Follows
  <2>11. Follows BY <2>1, <2>2, <2>3, <2>4, <2>5, <2>6, <2>7, <2>8, <2>9, <2>10
  <2> QED BY <2>11 DEF Follows
<1>2. CASE UNCHANGED vars
  BY <1>2, Unchanged_Follows DEF vars, Follows
<1> QED BY <1>1, <1>2

(* Every call takes effect at once: what the calls do in their critical
   sections, renames in two of them, is a tree of names in which no name is
   given twice, no entry is doubled or lost and only empty directories go.  An
   entry whose name has an '@', which the code may make again though it is
   there, has a name of its own in the tree. *)
THEOREM TreeImplemented == Spec => ImplementsTree
<1>1. Init => TreeInv /\ Tree!Init
  <2> SUFFICES ASSUME Init PROVE TreeInv /\ Tree!Init
    OBVIOUS
  <2>1. Inv BY Init_Inv
  <2>2. Root \in Inodes BY NamespaceAssumption DEF Root, Inodes
  <2>3. DOMAIN call = {} BY DEF Init
  <2>4. \A i \in Inodes : Held(i) = {} /\ On(i) = {}
    <3>1. \A i \in Inodes : On(i) = {} BY <2>3 DEF On
    <3>2. \A i \in Inodes : places[i] = {}
      <4>1. ToSet(<<>>) = {} BY DEF ToSet
      <4>2. \A p \in Places : entries[p[1]] = <<>> BY DEF Init, Places
      <4> QED BY <4>1, <4>2 DEF places
    <3> QED BY <3>1, <3>2 DEF Held, Putting
  <2>5. \A p : ~Wanted(p) BY <2>3 DEF Wanted
  <2>6. inode[Root].kind = "dir" BY <2>2 DEF Init
  <2>7. TreeInv BY <2>2, <2>4, <2>5, <2>6 DEF TreeInv, RootFine, ParentsFine
  <2>8. SeenFine BY <2>1, <2>7, SeenIs DEF TreeInv
  <2>9. DOMAIN Seen = {} BY <2>4, <2>8 DEF SeenFine
  <2>10. Seen = [p \in {} |-> Root] BY <2>8, <2>9 DEF SeenFine
  <2>11. Range(Seen) = {} BY <2>9 DEF Range
  <2> QED BY <2>7, <2>10, <2>11 DEF Tree!Init
<1>2. Inv /\ Inv' /\ TreeInv /\ [Next]_vars => TreeInv' /\ [Tree!Next]_<<Seen, Dirs>>
  BY Next_Follows
<1>3. Inv /\ Inv' /\ TreeInv /\ [Next]_vars =>
        TreeInv' /\ [Tree!Next]_<<Seen, {Root} \cup {i \in Range(Seen) : inode[i].kind = "dir"}>>
  BY <1>2 DEF Dirs
<1> QED BY <1>1, <1>3, Inv_Always, PTL DEF Spec, ImplementsTree, Tree!Spec
====
