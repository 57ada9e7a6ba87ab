---- MODULE VersionChainProofs ----
(***************************************************************************)
(* Proofs about VersionChain, for every value of its constants: the types, *)
(* the soundness of inheritance and of what readers get, and, for a        *)
(* checksum without collisions, the refinement of VersionStore; then the   *)
(* chain's order, what retention spares and limits, and the metadata.      *)
(***************************************************************************)
EXTENDS VersionChain, FiniteSetTheorems, WellFoundedInduction, TLAPS

(* Every nonempty set of naturals has a least element; it gives induction. *)
LEMMA NatMin ==
  ASSUME NEW T \in SUBSET Nat, T # {}
  PROVE  \E x \in T : \A y \in T : x <= y
<1> DEFINE Less == {p \in Nat \X Nat : p[1] < p[2]}
<1>1. IsWellFoundedOn(Less, Nat)
  BY NatLessThanWellFounded DEF OpToRel
<1> HIDE DEF Less
<1>2. PICK x \in T : \A y \in T : <<y, x>> \notin Less
  BY <1>1, WFMin
<1>3. \A y \in T : ~(y < x)
  BY <1>2 DEF Less
<1> QED BY <1>3

(* A nonempty set of naturals bounded by n has its Max as greatest element. *)
LEMMA MaxIn ==
  ASSUME NEW n \in Nat, NEW T \in SUBSET (0..n), T # {}
  PROVE  Max(T) \in T /\ \A y \in T : Max(T) >= y
<1> DEFINE U == {n - x : x \in T}
<1>1. U \in SUBSET Nat /\ U # {}
  <2>1. \A x \in T : n - x \in Nat OBVIOUS
  <2>2. PICK x \in T : TRUE OBVIOUS
  <2>3. n - x \in U BY <2>2
  <2> QED BY <2>1, <2>3
<1> HIDE DEF U
<1>2. PICK m \in U : \A v \in U : m <= v
  BY <1>1, NatMin
<1> USE DEF U
<1>3. PICK x \in T : m = n - x OBVIOUS
<1>4. \A y \in T : n - x <= n - y BY <1>2, <1>3
<1>5. \A y \in T : x >= y BY <1>4
<1> QED BY <1>5 DEF Max

----
(* Fetch and Retain satisfy the equations they are written with. *)

(* walk is the function Fetch(nd, _, i) defines by recursion, on 0..n. *)
IsWalk(walk, nd, i, n) ==
  walk = [w \in 0..n |->
            IF w \notin DOMAIN nd THEN Hole
            ELSE IF nd[w].data[i] # Hole THEN nd[w].data[i]
            ELSE walk[nd[w].parent]]

(* pass is the function Retain(nd, _, t, lim) defines by recursion, on 0..n. *)
IsPass(pass, nd, n, t, lim) ==
  pass = [k \in 0..n |->
            IF k = 0 THEN nd
            ELSE IF k \in DOMAIN pass[k - 1] /\ Excess(pass[k - 1], k, t, lim)
                 THEN Remove(pass[k - 1], k) ELSE pass[k - 1]]

(* The walk along the parent pointers is well defined on 0..n. *)
LEMMA WalkExists ==
  ASSUME NEW nd, WellFormed(nd), NEW i, NEW n \in Nat
  PROVE  \E walk : IsWalk(walk, nd, i, n)
<1> DEFINE Eq(walk, m) == IsWalk(walk, nd, i, m)
           Bad == {m \in Nat : ~ \E walk : Eq(walk, m)}
<1>1. SUFFICES ASSUME Bad # {} PROVE FALSE
  OBVIOUS
<1>2. PICK m \in Bad : \A y \in Bad : m <= y
  BY <1>1, NatMin
<1>3. \E walk : m # 0 => Eq(walk, m - 1)
  <2>1. CASE m = 0 BY <2>1
  <2>2. CASE m # 0
    <3>1. m - 1 \in Nat /\ m - 1 \notin Bad BY <1>2, <2>2
    <3> QED BY <3>1
  <2> QED BY <2>1, <2>2
<1>4. PICK f : m # 0 => Eq(f, m - 1)
  BY <1>3
<1> DEFINE g == [w \in 0..m |-> IF w = m
                                THEN IF m \notin DOMAIN nd THEN Hole
                                     ELSE IF nd[m].data[i] # Hole THEN nd[m].data[i]
                                     ELSE f[nd[m].parent]
                                ELSE f[w]]
<1>5. ASSUME NEW w \in 0..m
      PROVE  g[w] = IF w \notin DOMAIN nd THEN Hole
                    ELSE IF nd[w].data[i] # Hole THEN nd[w].data[i]
                    ELSE g[nd[w].parent]
  <2>1. w \in DOMAIN nd => nd[w].parent \in 0..m /\ nd[w].parent < w
    BY DEF WellFormed, Node
  <2>2. w \in DOMAIN nd => g[nd[w].parent] = f[nd[w].parent]
    BY <2>1
  <2>3. CASE w = m
    BY <2>2, <2>3
  <2>4. CASE w # m
    <3>1. w \in 0..(m - 1) /\ m # 0 BY <2>4
    <3>2. g[w] = f[w] BY <2>4
    <3>3. f[w] = IF w \notin DOMAIN nd THEN Hole
                 ELSE IF nd[w].data[i] # Hole THEN nd[w].data[i]
                 ELSE f[nd[w].parent]
      BY <1>4, <3>1 DEF IsWalk
    <3> HIDE DEF g
    <3> QED BY <2>2, <3>2, <3>3
  <2> QED BY <2>3, <2>4
<1>6. Eq(g, m)
  <2>1. g = [w \in 0..m |-> g[w]] OBVIOUS
  <2> HIDE DEF g
  <2> QED BY <1>5, <2>1 DEF IsWalk
<1> QED BY <1>2, <1>6

(* Fetch is the last value of such a walk. *)
LEMMA FetchWalk ==
  ASSUME NEW nd, WellFormed(nd), NEW i, NEW u \in Nat
  PROVE  \E walk : IsWalk(walk, nd, i, u) /\ Fetch(nd, u, i) = walk[u]
<1> DEFINE walk[w \in 0..u] ==
             IF w \notin DOMAIN nd THEN Hole
             ELSE IF nd[w].data[i] # Hole THEN nd[w].data[i]
             ELSE walk[nd[w].parent]
<1>1. \E f : IsWalk(f, nd, i, u)
  BY WalkExists
<1>2. IsWalk(walk, nd, i, u)
  BY <1>1 DEF IsWalk
<1> QED BY <1>2 DEF Fetch

(* The retention pass is well defined, and Retain is its last value. *)
LEMMA RetainPass ==
  ASSUME NEW nd, NEW n \in Nat, NEW t, NEW lim
  PROVE  \E pass : IsPass(pass, nd, n, t, lim) /\ Retain(nd, n, t, lim) = pass[n]
<1> DEFINE Step(kept, k) == IF k \in DOMAIN kept /\ Excess(kept, k, t, lim)
                            THEN Remove(kept, k) ELSE kept
           Eq(pass, m) == pass = [k \in 0..m |-> IF k = 0 THEN nd ELSE Step(pass[k - 1], k)]
<1> HIDE DEF Step
<1>1. \E pass : Eq(pass, n)
  <2> DEFINE Bad == {m \in Nat : ~ \E pass : Eq(pass, m)}
  <2>1. SUFFICES ASSUME Bad # {} PROVE FALSE
    OBVIOUS
  <2>2. PICK m \in Bad : \A y \in Bad : m <= y
    BY <2>1, NatMin
  <2>3. \E pass : m # 0 => Eq(pass, m - 1)
    <3>1. CASE m = 0 BY <3>1
    <3>2. CASE m # 0
      <4>1. m - 1 \in Nat /\ m - 1 \notin Bad BY <2>2, <3>2
      <4> QED BY <4>1
    <3> QED BY <3>1, <3>2
  <2>4. PICK f : m # 0 => Eq(f, m - 1)
    BY <2>3
  <2> DEFINE g == [k \in 0..m |-> IF k = m /\ m # 0 THEN Step(f[m - 1], m)
                                  ELSE IF k = 0 THEN nd ELSE f[k]]
  <2>5. ASSUME NEW k \in 0..m
        PROVE  g[k] = IF k = 0 THEN nd ELSE Step(g[k - 1], k)
    <3>1. CASE k = 0 BY <3>1
    <3>2. CASE k # 0
      <4>1. k - 1 \in 0..(m - 1) /\ k - 1 \in 0..m /\ k - 1 # m /\ m # 0 BY <3>2
      <4>2. f[k - 1] = IF k - 1 = 0 THEN nd ELSE Step(f[k - 1 - 1], k - 1)
        BY <2>4, <4>1
      <4>3. g[k - 1] = f[k - 1]
        BY <4>1, <4>2
      <4>4. g[k] = Step(f[k - 1], k)
        <5>1. CASE k = m BY <5>1, <3>2
        <5>2. CASE k # m
          <6>1. k \in 0..(m - 1) BY <5>2
          <6>2. f[k] = Step(f[k - 1], k) BY <6>1, <2>4, <3>2
          <6> QED BY <6>2, <5>2, <3>2
        <5> QED BY <5>1, <5>2
      <4> HIDE DEF g
      <4> QED BY <3>2, <4>3, <4>4
    <3> QED BY <3>1, <3>2
  <2>6. Eq(g, m)
    <3>1. g = [k \in 0..m |-> g[k]] OBVIOUS
    <3> HIDE DEF g
    <3> QED BY <2>5, <3>1
  <2> QED BY <2>2, <2>6
<1> DEFINE pass[k \in 0..n] == IF k = 0 THEN nd
                               ELSE LET kept == pass[k - 1]
                                    IN  IF k \in DOMAIN kept /\ Excess(kept, k, t, lim)
                                        THEN Remove(kept, k) ELSE kept
<1>2. IsPass(pass, nd, n, t, lim)
  BY <1>1 DEF Step, IsPass
<1> QED BY <1>2 DEF Retain

----
(* What Fetch, Remove and Retain do to a sound chain *)

(* Where inheritance is sound, the walk from u ends with a block that has the
   checksum u recorded, and with a hole where the file has one. *)
LEMMA FetchSound ==
  ASSUME TypeOK, NEW nd, WellFormed(nd), Inherits(nd), NEW u \in DOMAIN nd, NEW i \in Idx
  PROVE  /\ Fetch(nd, u, i) \in Block
         /\ Sum(Fetch(nd, u, i)) = nd[u].sums[i]
         /\ file[i] = Hole => Fetch(nd, u, i) = Hole
         /\ nd[u].data[i] # Hole => Fetch(nd, u, i) = nd[u].data[i]
         /\ Fetch(nd, u, i) = Hole => nd[u].data[i] = Hole
<1>1. u \in Nat
  BY DEF WellFormed
<1>2. PICK walk : IsWalk(walk, nd, i, u) /\ Fetch(nd, u, i) = walk[u]
  BY <1>1, FetchWalk
<1> DEFINE Good(w) == /\ walk[w] \in Block
                      /\ Sum(walk[w]) = IF w \in DOMAIN nd THEN nd[w].sums[i] ELSE 0
                      /\ file[i] = Hole => walk[w] = Hole
           Bad == {w \in 0..u : ~Good(w)}
<1>3. ASSUME Bad # {} PROVE FALSE
  <2>1. Bad \in SUBSET Nat OBVIOUS
  <2> HIDE DEF Bad
  <2>2. PICK w \in Bad : \A y \in Bad : w <= y
    BY <1>3, <2>1, NatMin
  <2> USE DEF Bad
  <2> HIDE DEF Good
  <2>3. w \in 0..u /\ ~Good(w) /\ \A y \in 0..u : y < w => Good(y)
    BY <2>2, <1>1
  <2>4. walk[w] = IF w \notin DOMAIN nd THEN Hole
                  ELSE IF nd[w].data[i] # Hole THEN nd[w].data[i]
                  ELSE walk[nd[w].parent]
    BY <1>2, <2>3 DEF IsWalk
  <2>5. CASE w \notin DOMAIN nd
    BY <2>3, <2>4, <2>5 DEF Good, Sum, Block
  <2>6. CASE w \in DOMAIN nd /\ nd[w].data[i] # Hole
    BY <2>3, <2>4, <2>6 DEF Good, Sum, Inherits, WellFormed, Node
  <2>7. CASE w \in DOMAIN nd /\ nd[w].data[i] = Hole
    <3>1. walk[w] = walk[nd[w].parent] BY <2>4, <2>7
    <3>2. Good(nd[w].parent) BY <2>3, <2>7, <1>1 DEF WellFormed
    <3>3. nd[w].sums[i] = IF nd[w].parent = 0 THEN 0 ELSE nd[nd[w].parent].sums[i]
      BY <2>7 DEF Inherits
    <3>4. 0 \notin DOMAIN nd /\ nd[w].parent \in DOMAIN nd \cup {0}
      BY <2>7 DEF WellFormed
    <3>5. Sum(walk[w]) = nd[w].sums[i]
      BY <3>1, <3>2, <3>3, <3>4 DEF Good
    <3> QED BY <2>3, <2>7, <3>1, <3>2, <3>5 DEF Good
  <2> QED BY <2>5, <2>6, <2>7
<1>4. Good(u)
  BY <1>1, <1>3
<1>5. walk[u] = IF nd[u].data[i] # Hole THEN nd[u].data[i] ELSE walk[nd[u].parent]
  BY <1>1, <1>2 DEF IsWalk
<1> QED BY <1>2, <1>4, <1>5

(* r is nd without some versions, with what the others recorded unchanged. *)
Kept(nd, r) ==
  /\ DOMAIN r \subseteq DOMAIN nd
  /\ \A w \in DOMAIN r :
       /\ r[w].count = nd[w].count
       /\ r[w].sums = nd[w].sums
       /\ r[w].important = nd[w].important

(* Removing one version keeps the others sound. *)
LEMMA RemoveSound ==
  ASSUME TypeOK, NEW nd, WellFormed(nd), Inherits(nd), NEW u \in DOMAIN nd
  PROVE  /\ WellFormed(Remove(nd, u))
         /\ Inherits(Remove(nd, u))
         /\ Kept(nd, Remove(nd, u))
         /\ DOMAIN Remove(nd, u) = DOMAIN nd \ {u}
<1> DEFINE r == Remove(nd, u)
<1>1. DOMAIN r = DOMAIN nd \ {u}
  BY DEF Remove
<1>2. ASSUME NEW w \in DOMAIN r
      PROVE  /\ r[w] \in Node
             /\ r[w].parent = IF nd[w].parent = u THEN nd[u].parent ELSE nd[w].parent
             /\ r[w].count = nd[w].count
             /\ r[w].sums = nd[w].sums
             /\ r[w].important = nd[w].important
             /\ \A i \in Idx : r[w].data[i] =
                  IF nd[w].parent = u /\ i <= nd[w].count /\ nd[w].data[i] = Hole
                  THEN Fetch(nd, u, i) ELSE nd[w].data[i]
  <2>1. nd[w] \in Node /\ nd[u] \in Node BY <1>1 DEF WellFormed
  <2>2. \A i \in Idx : Fetch(nd, u, i) \in Block BY FetchSound
  <2>3. CASE nd[w].parent # u
    <3>1. r[w] = nd[w] BY <1>1, <2>3 DEF Remove
    <3> QED BY <2>1, <2>3, <3>1
  <2>4. CASE nd[w].parent = u
    <3> DEFINE d == [i \in Idx |-> IF i <= nd[w].count /\ nd[w].data[i] = Hole
                                   THEN Fetch(nd, u, i) ELSE nd[w].data[i]]
    <3>1. r[w] = [nd[w] EXCEPT !.parent = nd[u].parent, !.data = d]
      BY <1>1, <2>4 DEF Remove
    <3>2. d \in [Idx -> Block] BY <2>1, <2>2 DEF Node
    <3>3. \A i \in Idx : d[i] = IF i <= nd[w].count /\ nd[w].data[i] = Hole
                                THEN Fetch(nd, u, i) ELSE nd[w].data[i]
      OBVIOUS
    <3> HIDE DEF d, r
    <3>4. r[w] \in Node BY <2>1, <3>1, <3>2 DEF Node
    <3>5. r[w].parent = nd[u].parent /\ r[w].data = d
      BY <2>1, <3>1 DEF Node
    <3>6. r[w].count = nd[w].count /\ r[w].sums = nd[w].sums /\ r[w].important = nd[w].important
      BY <2>1, <3>1 DEF Node
    <3> QED BY <2>4, <3>3, <3>4, <3>5, <3>6
  <2> QED BY <2>3, <2>4
<1>3. r = [w \in DOMAIN r |-> r[w]]
  BY DEF Remove
<1> HIDE DEF r
<1>4. WellFormed(r)
  <2>1. DOMAIN r \subseteq Nat \ {0} BY <1>1 DEF WellFormed
  <2>2. r \in [DOMAIN r -> Node] BY <1>2, <1>3
  <2>3. ASSUME NEW w \in DOMAIN r
        PROVE  r[w].parent \in DOMAIN r \cup {0} /\ r[w].parent < w
    <3>1. /\ nd[w].parent \in DOMAIN nd \cup {0} /\ nd[w].parent < w
          /\ nd[u].parent \in DOMAIN nd \cup {0} /\ nd[u].parent < u
          /\ u \in Nat /\ w \in Nat /\ DOMAIN nd \subseteq Nat
      BY <1>1 DEF WellFormed
    <3>2. CASE nd[w].parent = u BY <1>1, <1>2, <3>1, <3>2
    <3>3. CASE nd[w].parent # u BY <1>1, <1>2, <3>1, <3>3
    <3> QED BY <3>2, <3>3
  <2> QED BY <2>1, <2>2, <2>3 DEF WellFormed
<1>5. Kept(nd, r)
  BY <1>1, <1>2 DEF Kept
<1>6. \A w \in DOMAIN r : /\ r[w].count <= nblocks
                          /\ r[w].parent # 0 => r[r[w].parent].count <= r[w].count
  <2> TAKE w \in DOMAIN r
  <2>1. r[w].parent # 0 => r[w].parent \in DOMAIN r BY <1>4 DEF WellFormed
  <2>2. /\ nd[w].count \in Nat /\ nd[u].count \in Nat
        /\ nd[w].parent \in DOMAIN nd \cup {0} /\ nd[u].parent \in DOMAIN nd \cup {0}
        /\ \A x \in DOMAIN nd : nd[x].count \in Nat
        /\ u # 0
    BY <1>1 DEF WellFormed, Node
  <2>3. nd[w].count <= nblocks BY <1>1 DEF Inherits
  <2>4. nd[w].parent # 0 => nd[nd[w].parent].count <= nd[w].count BY <1>1 DEF Inherits
  <2>5. nd[u].parent # 0 => nd[nd[u].parent].count <= nd[u].count BY DEF Inherits
  <2>6. r[w].parent # 0 => r[r[w].parent].count = nd[r[w].parent].count BY <1>2, <2>1
  <2> QED BY <1>2, <2>2, <2>3, <2>4, <2>5, <2>6
<1>7. ASSUME NEW w \in DOMAIN r, NEW i \in Idx
      PROVE  /\ r[w].data[i] # Hole =>
                  i <= r[w].count /\ Checksum[r[w].data[i]] = r[w].sums[i]
             /\ r[w].data[i] = Hole =>
                  r[w].sums[i] = IF r[w].parent = 0 THEN 0 ELSE r[r[w].parent].sums[i]
             /\ file[i] = Hole => r[w].data[i] = Hole /\ r[w].sums[i] = 0
             /\ i > r[w].count => r[w].sums[i] = 0
  <2>1. w \in DOMAIN nd /\ 0 \notin DOMAIN nd
    BY <1>1 DEF WellFormed
  <2>2. r[w].parent # 0 => r[r[w].parent].sums = nd[r[w].parent].sums
    BY <1>2, <1>4 DEF WellFormed
  <2>3. /\ nd[w].data[i] # Hole =>
             i <= nd[w].count /\ Checksum[nd[w].data[i]] = nd[w].sums[i]
        /\ nd[w].data[i] = Hole =>
             nd[w].sums[i] = IF nd[w].parent = 0 THEN 0 ELSE nd[nd[w].parent].sums[i]
        /\ file[i] = Hole => nd[w].data[i] = Hole /\ nd[w].sums[i] = 0
        /\ i > nd[w].count => nd[w].sums[i] = 0
    BY <2>1 DEF Inherits
  <2>4. CASE nd[w].parent # u
    BY <1>2, <2>2, <2>3, <2>4
  <2>5. CASE nd[w].parent = u
    <3>1. r[w].data[i] = IF i <= nd[w].count /\ nd[w].data[i] = Hole
                         THEN Fetch(nd, u, i) ELSE nd[w].data[i]
      BY <1>2, <2>5
    <3>2. r[w].parent = nd[u].parent /\ r[w].sums = nd[w].sums /\ r[w].count = nd[w].count
      BY <1>2, <2>5
    <3>3. /\ Sum(Fetch(nd, u, i)) = nd[u].sums[i]
          /\ file[i] = Hole => Fetch(nd, u, i) = Hole
          /\ Fetch(nd, u, i) = Hole => nd[u].data[i] = Hole
      BY FetchSound
    <3>4. nd[u].data[i] = Hole =>
            nd[u].sums[i] = IF nd[u].parent = 0 THEN 0 ELSE nd[nd[u].parent].sums[i]
      BY DEF Inherits
    <3>5. CASE nd[w].data[i] # Hole
      BY <2>3, <3>1, <3>2, <3>5
    <3>6. CASE nd[w].data[i] = Hole
      <4>1. nd[w].sums[i] = nd[u].sums[i]
        BY <2>1, <2>3, <2>5, <3>6
      <4>2. CASE i <= nd[w].count
        <5>1. r[w].data[i] = Fetch(nd, u, i) BY <3>1, <3>6, <4>2
        <5>2. CASE Fetch(nd, u, i) # Hole
          BY <2>3, <3>2, <3>3, <4>1, <4>2, <5>1, <5>2 DEF Sum
        <5>3. CASE Fetch(nd, u, i) = Hole
          BY <2>2, <2>3, <3>2, <3>3, <3>4, <4>1, <5>1, <5>3
        <5> QED BY <5>2, <5>3
      <4>3. CASE ~(i <= nd[w].count)
        <5>1. r[w].data[i] = Hole BY <3>1, <3>6, <4>3
        <5>2. nd[u].count <= nd[w].count BY <2>1, <2>5 DEF Inherits
        <5>3. nd[u].count \in Int /\ nd[w].count \in Int /\ i \in Int
          BY <2>1 DEF WellFormed, Node, Idx
        <5>4. nd[u].data[i] = Hole
          BY <4>3, <5>2, <5>3 DEF Inherits
        <5> QED BY <2>2, <2>3, <3>2, <3>4, <4>1, <5>1, <5>4
      <4> QED BY <4>2, <4>3
    <3> QED BY <3>5, <3>6
  <2> QED BY <2>4, <2>5
<1>8. Inherits(r)
  BY <1>6, <1>7 DEF Inherits
<1> QED BY <1>1, <1>4, <1>5, <1>8 DEF r

(* So does a whole retention pass, which takes no important version. *)
LEMMA RetainSound ==
  ASSUME TypeOK, NEW nd, WellFormed(nd), Inherits(nd), NEW n \in Nat, NEW t, NEW lim
  PROVE  LET r == Retain(nd, n, t, lim)
         IN  /\ WellFormed(r)
             /\ Inherits(r)
             /\ Kept(nd, r)
             /\ \A w \in DOMAIN nd \ DOMAIN r : ~nd[w].important
<1>1. PICK pass : IsPass(pass, nd, n, t, lim) /\ Retain(nd, n, t, lim) = pass[n]
  BY RetainPass
<1> DEFINE Good(r) == /\ WellFormed(r)
                      /\ Inherits(r)
                      /\ Kept(nd, r)
                      /\ \A w \in DOMAIN nd \ DOMAIN r : ~nd[w].important
           Bad == {k \in 0..n : ~Good(pass[k])}
<1>2. Good(nd)
  BY DEF Kept
<1>3. ASSUME NEW r, Good(r), NEW k \in DOMAIN r, Excess(r, k, t, lim)
      PROVE  Good(Remove(r, k))
  <2>1. /\ WellFormed(Remove(r, k))
        /\ Inherits(Remove(r, k))
        /\ Kept(r, Remove(r, k))
        /\ DOMAIN Remove(r, k) = DOMAIN r \ {k}
    BY <1>3, RemoveSound
  <2>2. Kept(nd, Remove(r, k))
    BY <1>3, <2>1 DEF Kept
  <2>3. ~nd[k].important
    BY <1>3 DEF Kept, Excess
  <2> QED BY <1>3, <2>1, <2>2, <2>3
<1>4. ASSUME Bad # {} PROVE FALSE
  <2>1. Bad \in SUBSET Nat OBVIOUS
  <2> HIDE DEF Bad
  <2>2. PICK k \in Bad : \A y \in Bad : k <= y
    BY <1>4, <2>1, NatMin
  <2> USE DEF Bad
  <2> HIDE DEF Good
  <2>3. k \in 0..n /\ ~Good(pass[k]) BY <2>2
  <2>4. pass[k] = IF k = 0 THEN nd
                  ELSE IF k \in DOMAIN pass[k - 1] /\ Excess(pass[k - 1], k, t, lim)
                       THEN Remove(pass[k - 1], k) ELSE pass[k - 1]
    BY <1>1, <2>3 DEF IsPass
  <2>5. k # 0 BY <1>2, <2>3, <2>4
  <2>6. k - 1 \in 0..n /\ k - 1 \notin Bad BY <2>2, <2>3, <2>5
  <2>7. Good(pass[k - 1]) BY <2>6
  <2> QED BY <1>3, <2>3, <2>4, <2>5, <2>7
<1>5. Good(pass[n])
  BY <1>4
<1> QED BY <1>1, <1>5

----
(* The invariant *)

(* The types and the soundness of inheritance, together, are inductive. *)
ChainInv == TypeOK /\ InheritanceSound

(* Max of two integers. *)
LEMMA MaxPair ==
  ASSUME NEW x \in Int, NEW y \in Int
  PROVE  Max({x, y}) \in {x, y} /\ Max({x, y}) >= x /\ Max({x, y}) >= y
<1>1. \E z \in {x, y} : \A w \in {x, y} : z >= w
  <2>1. CASE x >= y BY <2>1
  <2>2. CASE ~(x >= y) BY <2>2
  <2> QED BY <2>1, <2>2
<1> QED BY <1>1 DEF Max

(* What is left of a count is a natural. *)
LEMMA CountType ==
  ASSUME TypeOK, NEW G, G \subseteq 1..(serial + 1)
  PROVE  Max({0, meta.count - Cardinality(G)}) \in Nat
<1>1. 1 \in Int /\ serial + 1 \in Int /\ meta.count \in Nat
  BY DEF TypeOK, Meta
<1>2. IsFiniteSet(1..(serial + 1)) BY <1>1, FS_Interval
<1>3. Cardinality(G) \in Nat BY <1>2, FS_Subset, FS_CardinalityType
<1> DEFINE c == meta.count - Cardinality(G)
<1>4. c \in Int BY <1>1, <1>3
<1> HIDE DEF c
<1>5. Max({0, c}) \in Nat BY <1>4, MaxPair
<1> QED BY <1>5 DEF c

(* Counting removed versions leaves the metadata well typed. *)
LEMMA ForgetType ==
  ASSUME TypeOK, NEW r, WellFormed(r), Kept(node, r)
  PROVE  Forget(r) \in Meta
<1>1. Max({0, meta.count - Cardinality(DOMAIN node \ DOMAIN r)}) \in Nat
  <2>1. DOMAIN node \ DOMAIN r \subseteq 1..(serial + 1)
    BY DEF TypeOK, live
  <2> QED BY <2>1, CountType
<1>2. HeadId(r) \in Nat
  <2>1. CASE DOMAIN r = {} BY <2>1 DEF HeadId
  <2>2. CASE DOMAIN r # {}
    <3>1. DOMAIN r \in SUBSET (0..serial) /\ serial \in Nat
      BY DEF TypeOK, live, Kept
    <3>2. Max(DOMAIN r) \in DOMAIN r BY <2>2, <3>1, MaxIn
    <3> QED BY <2>2, <3>2 DEF HeadId, WellFormed, Node
  <2> QED BY <2>1, <2>2
<1> QED BY <1>1, <1>2 DEF Forget, TypeOK, Meta

(* The chain with a new head, before retention. *)
Grown == [u \in live \cup {serial + 1} |-> IF u = serial + 1 THEN NewNode ELSE node[u]]

(* The chain's head is on the chain. *)
LEMMA HeadLive ==
  ASSUME TypeOK, DOMAIN node # {}
  PROVE  Max(DOMAIN node) \in DOMAIN node
<1>1. DOMAIN node \in SUBSET (0..serial) /\ serial \in Nat
  BY DEF TypeOK, live
<1> QED BY <1>1, MaxIn

(* Putting the new version on the chain keeps it sound. *)
LEMMA GrownSound ==
  ASSUME ChainInv
  PROVE  /\ WellFormed(Grown)
         /\ Inherits(Grown)
         /\ DOMAIN Grown = live \cup {serial + 1}
         /\ Grown[serial + 1] = NewNode
         /\ \A u \in live : Grown[u] = node[u]
         /\ NewNode.important = FALSE
         /\ NewNode.sums = [i \in Idx |-> Sum(file[i])]
         /\ NewNode.count = nblocks
<1> DEFINE parent == IF live = {} THEN 0 ELSE Max(live)
<1>1. /\ serial \in Nat /\ live \subseteq 1..serial
      /\ live \subseteq Nat \ {0} /\ WellFormed(node) /\ nblocks \in 0..MaxBlocks
      /\ MaxBlocks \in Nat
  BY ChainAssumption DEF ChainInv, TypeOK
<1>2. parent \in live \cup {0} /\ parent < serial + 1 /\ parent \in Nat
  <2>1. parent \in live \cup {0}
    BY HeadLive DEF ChainInv, live
  <2> HIDE DEF parent
  <2> QED BY <1>1, <2>1
<1>3. HeadId(node) \in Nat
  BY <1>1, HeadLive DEF ChainInv, HeadId, WellFormed, Node
<1>4. \A i \in Idx : file[i] \in Block /\ Sum(file[i]) \in Nat
  BY ChainAssumption DEF ChainInv, TypeOK, Sum, Block
<1> DEFINE sums == [i \in Idx |-> Sum(file[i])]
           data == [i \in Idx |-> IF parent # 0 /\ Sum(file[i]) = node[parent].sums[i]
                                  THEN Hole ELSE file[i]]
<1>5. NewNode = [id |-> HeadId(node) + 1, parent |-> parent, count |-> nblocks,
                 sums |-> sums, data |-> data, important |-> FALSE, time |-> now]
  BY DEF NewNode
<1>6. sums \in [Idx -> Nat] /\ data \in [Idx -> Block]
  BY <1>4 DEF Block
<1>7. \A i \in Idx : /\ sums[i] = Sum(file[i])
                     /\ data[i] = IF parent # 0 /\ Sum(file[i]) = node[parent].sums[i]
                                  THEN Hole ELSE file[i]
  OBVIOUS
<1> HIDE DEF sums, data, parent
<1>8. /\ NewNode \in Node
      /\ NewNode.parent = parent /\ NewNode.count = nblocks
      /\ NewNode.sums = sums /\ NewNode.data = data /\ NewNode.important = FALSE
  BY <1>1, <1>2, <1>3, <1>5, <1>6 DEF Node, ChainInv, TypeOK
<1>9. /\ DOMAIN Grown = live \cup {serial + 1}
      /\ Grown[serial + 1] = NewNode
      /\ \A u \in live : Grown[u] = node[u]
      /\ Grown = [u \in DOMAIN Grown |-> Grown[u]]
  BY <1>1 DEF Grown
<1>10. WellFormed(Grown)
  <2>1. Grown \in [DOMAIN Grown -> Node]
    BY <1>1, <1>8, <1>9 DEF WellFormed, live
  <2>2. ASSUME NEW u \in DOMAIN Grown
        PROVE  Grown[u].parent \in DOMAIN Grown \cup {0} /\ Grown[u].parent < u
    <3>1. CASE u = serial + 1 BY <1>2, <1>8, <1>9, <3>1
    <3>2. CASE u \in live BY <1>1, <1>9, <3>2 DEF WellFormed, live
    <3> QED BY <1>9, <3>1, <3>2
  <2> QED BY <1>1, <1>9, <2>1, <2>2 DEF WellFormed
<1>11. Inherits(Grown)
  <2>1. ASSUME NEW u \in live
        PROVE  node[u].parent # 0 => Grown[node[u].parent] = node[node[u].parent]
    BY <1>1, <1>9 DEF WellFormed, live
  <2>2. parent # 0 => /\ parent \in live
                      /\ Grown[parent] = node[parent]
                      /\ node[parent].count <= nblocks
    BY <1>2, <1>9 DEF ChainInv, InheritanceSound, Inherits, live
  <2>3. ASSUME NEW u \in DOMAIN Grown
        PROVE  /\ Grown[u].count <= nblocks
               /\ Grown[u].parent # 0 => Grown[Grown[u].parent].count <= Grown[u].count
    <3>1. CASE u = serial + 1
      BY <1>1, <1>8, <1>9, <2>2, <3>1
    <3>2. CASE u \in live
      BY <1>9, <2>1, <3>2 DEF ChainInv, InheritanceSound, Inherits, live
    <3> QED BY <1>9, <3>1, <3>2
  <2>4. ASSUME NEW u \in DOMAIN Grown, NEW i \in Idx
        PROVE  /\ Grown[u].data[i] # Hole =>
                    i <= Grown[u].count /\ Checksum[Grown[u].data[i]] = Grown[u].sums[i]
               /\ Grown[u].data[i] = Hole =>
                    Grown[u].sums[i] = IF Grown[u].parent = 0 THEN 0
                                       ELSE Grown[Grown[u].parent].sums[i]
               /\ file[i] = Hole => Grown[u].data[i] = Hole /\ Grown[u].sums[i] = 0
               /\ i > Grown[u].count => Grown[u].sums[i] = 0
    <3>1. CASE u = serial + 1
      <4>1. Grown[u] = NewNode BY <1>9, <3>1
      <4>2. i > nblocks => file[i] = Hole
        BY DEF ChainInv, InheritanceSound
      <4>3. i \in Int BY DEF Idx
      <4>4. file[i] = Hole => Sum(file[i]) = 0 BY DEF Sum
      <4>5. file[i] = Hole /\ parent # 0 => node[parent].sums[i] = 0
        BY <2>2 DEF ChainInv, InheritanceSound, Inherits, live
      <4>6. file[i] # Hole => Sum(file[i]) = Checksum[file[i]] BY DEF Sum
      <4>7. parent # 0 => Grown[parent].sums[i] = node[parent].sums[i] BY <2>2
      <4> QED BY <1>1, <1>7, <1>8, <4>1, <4>2, <4>3, <4>4, <4>5, <4>6, <4>7
    <3>2. CASE u \in live
      BY <1>9, <2>1, <3>2 DEF ChainInv, InheritanceSound, Inherits, live
    <3> QED BY <1>9, <3>1, <3>2
  <2> QED BY <2>3, <2>4 DEF Inherits
<1>12. NewNode.sums = [i \in Idx |-> Sum(file[i])]
  BY <1>8 DEF sums
<1> QED BY <1>8, <1>9, <1>10, <1>11, <1>12

(* The chain after version_manager_create_version. *)
LEMMA CreateSound ==
  ASSUME ChainInv, CreateVersion
  PROVE  /\ WellFormed(node')
         /\ Inherits(node')
         /\ Kept(Grown, node')
         /\ \A u \in DOMAIN Grown \ DOMAIN node' : ~Grown[u].important
         /\ meta' \in Meta
<1>1. TypeOK /\ WellFormed(Grown) /\ Inherits(Grown) /\ serial + 1 \in Nat
  <2>1. serial \in Nat BY DEF ChainInv, TypeOK
  <2> QED BY <2>1, GrownSound DEF ChainInv
<1>2. /\ WellFormed(node')
      /\ Inherits(node')
      /\ Kept(Grown, node')
      /\ \A u \in DOMAIN Grown \ DOMAIN node' : ~Grown[u].important
  <2>1. CASE meta.pinned
    <3>1. node' = Grown BY <2>1 DEF CreateVersion, Grown
    <3> QED BY <1>1, <3>1 DEF Kept
  <2>2. CASE ~meta.pinned
    <3>1. node' = Retain(Grown, serial + 1, now, limit)
      BY <2>2 DEF CreateVersion, Grown
    <3> QED BY <1>1, <3>1, RetainSound
  <2> QED BY <2>1, <2>2
<1>3. meta' \in Meta
  <2>1. PICK id \in 0..MaxNodes, time \in 0..MaxTime :
          meta' = [meta EXCEPT
                     !.count = Max({0, @ - Cardinality(DOMAIN Grown \ DOMAIN node')}) + 1,
                     !.latest = id,
                     !.last = time]
    BY DEF CreateVersion, Grown
  <2>2. DOMAIN Grown \ DOMAIN node' \subseteq 1..(serial + 1)
    <3>1. live \subseteq 1..serial /\ serial \in Nat BY DEF ChainInv, TypeOK
    <3>2. DOMAIN Grown = live \cup {serial + 1} BY GrownSound
    <3>3. 1..serial \subseteq 1..(serial + 1) /\ serial + 1 \in 1..(serial + 1)
      BY <3>1
    <3> QED BY <3>1, <3>2, <3>3
  <2>3. Max({0, meta.count - Cardinality(DOMAIN Grown \ DOMAIN node')}) \in Nat
    BY <1>1, <2>2, CountType
  <2>4. id \in Nat /\ time \in Nat
    BY ChainAssumption
  <2>5. meta \in Meta BY <1>1 DEF TypeOK
  <2> DEFINE c == Max({0, meta.count - Cardinality(DOMAIN Grown \ DOMAIN node')})
  <2>6. meta' = [meta EXCEPT !.count = c + 1, !.latest = id, !.last = time]
    BY <2>1
  <2>7. c + 1 \in Nat BY <2>3
  <2> HIDE DEF c
  <2> QED BY <2>4, <2>5, <2>6, <2>7 DEF Meta
<1> QED BY <1>2, <1>3

(* The writers in progress, no more of them torn than there are. *)
Writers == {p \in [check : Nat, torn : Nat, create : Nat] : p.torn <= p.check}

LEMMA TearType ==
  ASSUME NEW p \in Writers, NEW heads, NEW kept
  PROVE  Tear(p, heads, kept) \in Writers
<1>1. CASE heads \subseteq DOMAIN kept
  BY <1>1 DEF Tear
<1>2. CASE ~(heads \subseteq DOMAIN kept)
  <2>1. Tear(p, heads, kept) = [p EXCEPT !.torn = p.check]
    BY <1>2 DEF Tear
  <2> QED BY <2>1 DEF Writers
<1> QED BY <1>1, <1>2

(* Every step keeps the invariant. *)
LEMMA InvNext ==
  ASSUME ChainInv, [Next]_vars
  PROVE  ChainInv'
<1> USE DEF ChainInv
<1>1. /\ TypeOK /\ InheritanceSound /\ serial \in Nat /\ live \subseteq 1..serial
      /\ nblocks \in 0..MaxBlocks /\ MaxBlocks \in Nat
  BY ChainAssumption DEF TypeOK
<1>2. CASE WriteFile
  <2>1. PICK first \in Idx : \E end \in first..MaxBlocks :
          /\ \E new \in [first..end -> Contents] :
               file' = [i \in Idx |-> IF i \in first..end THEN new[i] ELSE file[i]]
          /\ nblocks' = Max({nblocks, end})
    BY <1>2 DEF WriteFile
  <2>2. PICK end \in first..MaxBlocks :
          /\ \E new \in [first..end -> Contents] :
               file' = [i \in Idx |-> IF i \in first..end THEN new[i] ELSE file[i]]
          /\ nblocks' = Max({nblocks, end})
    BY <2>1
  <2>3. PICK new \in [first..end -> Contents] :
          file' = [i \in Idx |-> IF i \in first..end THEN new[i] ELSE file[i]]
    BY <2>2
  <2>4. end \in 1..MaxBlocks /\ first \in Nat
    BY <1>1 DEF Idx
  <2>5. nblocks' \in 0..MaxBlocks /\ nblocks' >= nblocks /\ nblocks' >= end
    <3>1. nblocks \in Int /\ end \in Int BY <1>1, <2>4
    <3>2. /\ nblocks' \in {nblocks, end}
          /\ nblocks' >= nblocks /\ nblocks' >= end
      BY <2>2, <3>1, MaxPair
    <3>3. nblocks \in 0..MaxBlocks /\ end \in 0..MaxBlocks BY <1>1, <2>4
    <3> QED BY <3>2, <3>3
  <2>6. \A i \in Idx : /\ file'[i] \in Block
                       /\ file'[i] = Hole => file[i] = Hole /\ i \notin first..end
                       /\ i \notin first..end => file'[i] = file[i]
    BY <2>3, ChainAssumption DEF TypeOK, Block
  <2>7. file' \in [Idx -> Block] BY <2>3, <2>6
  <2>8. pending' \in Writers
    BY <1>2 DEF WriteFile, TypeOK, Writers
  <2>9. /\ node' = node /\ live' = live
        /\ UNCHANGED <<serial, meta, resident, limit, now>>
    BY <1>2 DEF WriteFile, live
  <2>10. TypeOK'
    BY <1>1, <2>5, <2>7, <2>8, <2>9 DEF TypeOK, WellFormed, Writers
  <2>11. Inherits(node)'
    <3>1. \A u \in DOMAIN node : node[u].count \in Int BY DEF TypeOK, WellFormed, Node
    <3>2. \A u \in DOMAIN node : node[u].count <= nblocks'
      BY <1>1, <2>5, <3>1 DEF InheritanceSound, Inherits
    <3> QED BY <2>6, <2>9, <3>2 DEF InheritanceSound, Inherits
  <2>12. \A i \in Idx : i > nblocks' => file'[i] = Hole
    <3> SUFFICES ASSUME NEW i \in Idx, i > nblocks' PROVE file'[i] = Hole
      OBVIOUS
    <3>1. i \notin first..end /\ i > nblocks BY <1>1, <2>4, <2>5 DEF Idx
    <3> QED BY <2>6, <3>1 DEF InheritanceSound
  <2> QED BY <2>10, <2>11, <2>12 DEF InheritanceSound
<1>3. CASE CreateManual \/ ChangeSnapshot
  <2>1. CreateVersion BY <1>3 DEF CreateManual, ChangeSnapshot
  <2>2. /\ WellFormed(node') /\ Inherits(node') /\ Kept(Grown, node') /\ meta' \in Meta
    BY <2>1, CreateSound
  <2>3. serial' = serial + 1 /\ UNCHANGED <<file, nblocks, resident, limit, now>>
    BY <2>1 DEF CreateVersion
  <2>4. pending' \in Writers
    <3>1. pending \in Writers
      BY DEF TypeOK, Writers
    <3>2. CASE CreateManual
      BY <3>1, <3>2, TearType DEF CreateManual
    <3>3. CASE ChangeSnapshot
      <4>1. pending.create - 1 \in Nat
        BY <3>1, <3>3 DEF ChangeSnapshot, Writers
      <4>2. [pending EXCEPT !.create = @ - 1] \in Writers
        BY <3>1, <4>1 DEF Writers
      <4> QED BY <3>3, <4>2, TearType DEF ChangeSnapshot
    <3> QED BY <1>3, <3>2, <3>3
  <2>5. DOMAIN node' \subseteq 1..serial'
    <3>1. DOMAIN node' \subseteq live \cup {serial + 1}
      BY <2>2, GrownSound DEF Kept
    <3>2. 1..serial \subseteq 1..(serial + 1) /\ serial + 1 \in 1..(serial + 1)
      BY <1>1
    <3> QED BY <1>1, <2>3, <3>1, <3>2
  <2>6. TypeOK'
    BY <1>1, <2>2, <2>3, <2>4, <2>5 DEF TypeOK, WellFormed, live, Writers
  <2>7. Inherits(node)'
    BY <2>2, <2>3 DEF Inherits
  <2> QED BY <2>3, <2>6, <2>7 DEF InheritanceSound
<1>4. ASSUME NEW r, node' = r, WellFormed(r), Inherits(r), DOMAIN r \subseteq DOMAIN node,
             meta' \in Meta, pending' \in Writers,
             UNCHANGED <<file, nblocks, serial, resident, limit, now>>
      PROVE  ChainInv'
  <2>1. TypeOK'
    BY <1>1, <1>4 DEF TypeOK, WellFormed, live, Writers
  <2>2. Inherits(node)'
    BY <1>4 DEF Inherits
  <2> QED BY <1>4, <2>1, <2>2 DEF InheritanceSound
<1>5. ASSUME NEW u \in live, DeleteVersion(u) PROVE ChainInv'
  <2>1. WellFormed(node) /\ Inherits(node) /\ u \in DOMAIN node
    BY DEF TypeOK, InheritanceSound, live
  <2>2. /\ WellFormed(Remove(node, u)) /\ Inherits(Remove(node, u))
        /\ Kept(node, Remove(node, u))
    BY <1>1, <2>1, RemoveSound
  <2>3. Forget(Remove(node, u)) \in Meta
    BY <1>1, <2>2, ForgetType
  <2>4. meta' \in Meta
    BY <1>5, <2>3 DEF DeleteVersion, TypeOK
  <2>5. pending' \in Writers
    BY <1>5, TearType DEF DeleteVersion, TypeOK, Writers
  <2> QED BY <1>4, <1>5, <2>2, <2>4, <2>5 DEF DeleteVersion, Kept
<1>6. ASSUME NEW u \in live, NEW b \in BOOLEAN,
             node' = [node EXCEPT ![u].important = b],
             UNCHANGED <<file, nblocks, serial, meta, resident, pending, limit, now>>
      PROVE  ChainInv'
  <2> DEFINE r == [node EXCEPT ![u].important = b]
  <2>1. WellFormed(node) /\ Inherits(node) /\ u \in DOMAIN node
    BY DEF TypeOK, InheritanceSound, live
  <2>2. /\ DOMAIN r = DOMAIN node /\ r \in [DOMAIN node -> Node]
        /\ \A w \in DOMAIN node : /\ r[w].parent = node[w].parent
                                  /\ r[w].count = node[w].count
                                  /\ r[w].sums = node[w].sums
                                  /\ r[w].data = node[w].data
    BY <2>1 DEF WellFormed, Node
  <2> HIDE DEF r
  <2>3. WellFormed(r) BY <2>1, <2>2 DEF WellFormed
  <2>4. \A w \in DOMAIN node : node[w].parent # 0 => node[w].parent \in DOMAIN node
    BY <2>1 DEF WellFormed
  <2>5. Inherits(r) BY <2>1, <2>2, <2>4 DEF Inherits
  <2> QED BY <1>1, <1>4, <1>6, <2>2, <2>3, <2>5 DEF r, TypeOK, Writers
<1>7. CASE CleanerPass
  <2>1. PICK t \in 1..now : node' = Retain(node, serial, t, limit)
    BY <1>7 DEF CleanerPass
  <2>2. WellFormed(node') /\ Inherits(node') /\ Kept(node, node')
    BY <1>1, <2>1, RetainSound DEF TypeOK, InheritanceSound
  <2>3. meta' \in Meta
    BY <1>1, <1>7, <2>2, ForgetType DEF CleanerPass, TypeOK
  <2>4. pending' \in Writers
    BY <1>7, TearType DEF CleanerPass, TypeOK, Writers
  <2> QED BY <1>4, <1>7, <2>2, <2>3, <2>4 DEF CleanerPass, Kept
<1>8. CASE SetPinned
  <2>1. meta' \in Meta BY <1>8 DEF SetPinned, TypeOK, Meta
  <2> QED BY <1>1, <1>4, <1>8, <2>1 DEF SetPinned, TypeOK, InheritanceSound, Writers
<1>9. ASSUME UNCHANGED <<file, nblocks, node, serial, meta>>,
             resident' \in BOOLEAN, pending' \in Writers,
             limit' \in Nat, now' \in Nat
      PROVE  ChainInv'
  BY <1>1, <1>9 DEF TypeOK, InheritanceSound, Inherits, WellFormed, live, Writers
<1>10. CASE ChangeCheck
  <2>1. /\ pending.check - 1 \in Nat /\ pending.torn <= pending.check - 1
        /\ pending.create + 1 \in Nat
    BY <1>10 DEF ChangeCheck, TypeOK
  <2>2. pending \in Writers BY DEF TypeOK, Writers
  <2>3. pending' \in Writers
    BY <1>10, <2>1, <2>2 DEF ChangeCheck, Writers
  <2> QED BY <1>9, <1>10, <2>3 DEF ChangeCheck, TypeOK
<1>17. CASE TornCheck
  <2>1. pending' \in Writers
    BY <1>17 DEF TornCheck, TypeOK, Writers
  <2> QED BY <1>9, <1>17, <2>1 DEF TornCheck, TypeOK
<1>11. CASE SetLimit
  BY <1>9, <1>11, ChainAssumption DEF SetLimit, TypeOK, Writers
<1>12. CASE EvictInode
  BY <1>9, <1>12 DEF EvictInode, TypeOK, Writers
<1>13. CASE Tick
  BY <1>9, <1>13 DEF Tick, TypeOK, Writers
<1>14. CASE UNCHANGED vars
  BY <1>9, <1>14 DEF vars, TypeOK, Writers
<1>15. ASSUME NEW u \in live, MarkImportant(u) PROVE ChainInv'
  BY <1>6, <1>15 DEF MarkImportant
<1>16. ASSUME NEW u \in live, UnmarkLatest(u) PROVE ChainInv'
  BY <1>6, <1>16 DEF UnmarkLatest
<1> QED
  BY <1>2, <1>3, <1>5, <1>7, <1>8, <1>10, <1>11, <1>12, <1>13, <1>14, <1>15, <1>16, <1>17
     DEF Next

(* The invariant holds of every behaviour. *)
LEMMA Invariance == Spec => []ChainInv
<1>1. Init => ChainInv
  BY ChainAssumption DEF Init, ChainInv, TypeOK, InheritanceSound, Inherits, WellFormed,
     Node, Meta, Block, live
<1>2. ChainInv /\ [Next]_vars => ChainInv'
  BY InvNext
<1> QED BY <1>1, <1>2, PTL DEF Spec

(* Type correctness: no operation leaves a parent pointer dangling. *)
THEOREM TypeCorrect == Spec => []TypeOK
<1>1. ChainInv => TypeOK
  BY DEF ChainInv
<1> QED BY <1>1, Invariance, PTL

(* Inheritance stays sound through removals and retention. *)
THEOREM InheritanceCorrect == Spec => []InheritanceSound
<1>1. ChainInv => InheritanceSound
  BY DEF ChainInv
<1> QED BY <1>1, Invariance, PTL

(* A version reads as blocks with the checksums recorded for it, for any
   checksum function, colliding or not. *)
THEOREM ReadsCorrect == Spec => []ReadMatchesChecksum
<1>1. ChainInv => ReadMatchesChecksum
  <2> SUFFICES ASSUME ChainInv, NEW u \in live, NEW i \in Idx
               PROVE  Sum(ReadVersion(node, u)[i]) = node[u].sums[i]
    BY DEF ReadMatchesChecksum
  <2>1. TypeOK /\ WellFormed(node) /\ Inherits(node) /\ u \in DOMAIN node
    BY DEF ChainInv, TypeOK, InheritanceSound, live
  <2>2. ReadVersion(node, u)[i] = IF i <= node[u].count THEN Fetch(node, u, i) ELSE Hole
    BY DEF ReadVersion
  <2>3. Sum(Fetch(node, u, i)) = node[u].sums[i]
    BY <2>1, FetchSound
  <2>4. ~(i <= node[u].count) => node[u].sums[i] = 0
    BY <2>1 DEF Inherits, Idx, WellFormed, Node
  <2> QED BY <2>2, <2>3, <2>4 DEF Sum
<1> QED BY <1>1, Invariance, PTL

----
(* The refinement of VersionStore *)

(* With a collision-free checksum equal checksums mean equal blocks. *)
LEMMA SumInjective ==
  ASSUME CollisionFree, NEW x \in Block, NEW y \in Block, Sum(x) = Sum(y)
  PROVE  x = y
BY DEF CollisionFree, Sum, Block

(* A version's blocks are determined by the checksums recorded for it. *)
LEMMA SameReading ==
  ASSUME CollisionFree, TypeOK,
         NEW nd, WellFormed(nd), Inherits(nd), NEW r, WellFormed(r), Inherits(r),
         NEW u \in DOMAIN nd \cap DOMAIN r,
         r[u].sums = nd[u].sums, r[u].count = nd[u].count
  PROVE  ReadVersion(r, u) = ReadVersion(nd, u)
<1>1. \A i \in Idx : Fetch(r, u, i) = Fetch(nd, u, i)
  <2> TAKE i \in Idx
  <2>1. /\ Fetch(nd, u, i) \in Block /\ Fetch(r, u, i) \in Block
        /\ Sum(Fetch(r, u, i)) = Sum(Fetch(nd, u, i))
    BY FetchSound
  <2> QED BY <2>1, SumInjective
<1> QED BY <1>1 DEF ReadVersion

(* The versions that remain read as before: the step drops whole versions. *)
LEMMA SameStore ==
  ASSUME CollisionFree, TypeOK,
         NEW nd, WellFormed(nd), Inherits(nd), NEW r, WellFormed(r), Inherits(r),
         DOMAIN r \subseteq DOMAIN nd,
         \A w \in DOMAIN r : r[w].count = nd[w].count /\ r[w].sums = nd[w].sums
  PROVE  \A w \in DOMAIN r : ReadVersion(r, w) = ReadVersion(nd, w)
BY SameReading

(* Every step of the chain is a step of the store or changes nothing there. *)
LEMMA StoreStep ==
  ASSUME CollisionFree, ChainInv, [Next]_vars
  PROVE  [Store!Next]_(Store!vars)
<1> DEFINE store == [u \in live |-> ReadVersion(node, u)]
           important == {u \in live : node[u].important}
<1>1. /\ TypeOK /\ WellFormed(node) /\ Inherits(node)
      /\ \A i \in Idx : i > nblocks => file[i] = Hole
  BY DEF ChainInv, TypeOK, InheritanceSound
<1>2. CASE WriteFile
  <2>1. PICK first \in Idx : \E end \in first..MaxBlocks : \E new \in [first..end -> Contents] :
          file' = [i \in Idx |-> IF i \in first..end THEN new[i] ELSE file[i]]
    BY <1>2 DEF WriteFile
  <2>2. PICK end \in first..MaxBlocks : \E new \in [first..end -> Contents] :
          file' = [i \in Idx |-> IF i \in first..end THEN new[i] ELSE file[i]]
    BY <2>1
  <2>3. PICK new \in [first..end -> Contents] :
          file' = [i \in Idx |-> IF i \in first..end THEN new[i] ELSE file[i]]
    BY <2>2
  <2> DEFINE S == Idx \cap (first..end)
             all == [i \in Idx |-> IF i \in S THEN new[i] ELSE new[first]]
  <2>4. CASE S # {}
    <3>1. first \in first..end
      BY <2>4 DEF Idx
    <3>2. all \in [Idx -> Contents] BY <2>3, <3>1
    <3>3. \A i \in S : all[i] = new[i] OBVIOUS
    <3> HIDE DEF all
    <3>4. file' = [i \in Idx |-> IF i \in S THEN all[i] ELSE file[i]]
      BY <2>3, <3>3
    <3>5. UNCHANGED <<store, important, serial>>
      BY <1>2 DEF WriteFile, live
    <3>6. S \in SUBSET Idx OBVIOUS
    <3> HIDE DEF S
    <3> QED BY <3>2, <3>4, <3>5, <3>6 DEF Store!Next, Store!Write
  <2>5. CASE S = {}
    <3>1. file' = file BY <1>1, <2>3, <2>5 DEF TypeOK
    <3>2. UNCHANGED <<store, important, serial>>
      BY <1>2 DEF WriteFile, live
    <3> QED BY <3>1, <3>2 DEF Store!vars
  <2> QED BY <2>4, <2>5
<1>3. CASE CreateManual \/ ChangeSnapshot
  <2>1. CreateVersion BY <1>3 DEF CreateManual, ChangeSnapshot
  <2>2. /\ WellFormed(node') /\ Inherits(node') /\ Kept(Grown, node')
        /\ \A u \in DOMAIN Grown \ DOMAIN node' : ~Grown[u].important
    BY <2>1, CreateSound
  <2>3. /\ WellFormed(Grown) /\ Inherits(Grown)
        /\ DOMAIN Grown = live \cup {serial + 1}
        /\ Grown[serial + 1] = NewNode
        /\ \A u \in live : Grown[u] = node[u]
        /\ NewNode.important = FALSE
        /\ NewNode.sums = [i \in Idx |-> Sum(file[i])]
        /\ NewNode.count = nblocks
    BY GrownSound
  <2>4. serial' = serial + 1 /\ UNCHANGED <<file, nblocks>>
    BY <2>1 DEF CreateVersion
  <2>5. serial + 1 \notin live
    BY <1>1 DEF TypeOK
  <2>6. \A w \in live' : ReadVersion(node', w) = ReadVersion(Grown, w)
    BY <1>1, <2>2, <2>3, SameStore DEF Kept, live
  <2>7. \A w \in live : ReadVersion(Grown, w) = ReadVersion(node, w)
    BY <1>1, <2>3, SameReading DEF live
  <2>8. ReadVersion(Grown, serial + 1) = file
    <3>1. \A i \in Idx : Fetch(Grown, serial + 1, i) = file[i]
      <4> TAKE i \in Idx
      <4>1. /\ Fetch(Grown, serial + 1, i) \in Block
            /\ Sum(Fetch(Grown, serial + 1, i)) = Grown[serial + 1].sums[i]
        BY <1>1, <2>3, FetchSound
      <4>2. file[i] \in Block BY <1>1 DEF TypeOK
      <4>3. Sum(Fetch(Grown, serial + 1, i)) = Sum(file[i]) BY <2>3, <4>1
      <4> QED BY <4>1, <4>2, <4>3, SumInjective
    <3>2. \A i \in Idx : ~(i <= nblocks) => file[i] = Hole
      BY <1>1 DEF TypeOK, Idx
    <3>3. ReadVersion(Grown, serial + 1) = [i \in Idx |-> file[i]]
      BY <2>3, <3>1, <3>2 DEF ReadVersion
    <3> QED BY <1>1, <3>3 DEF TypeOK
  <2> DEFINE gone == DOMAIN Grown \ DOMAIN node'
  <2>9. /\ gone \in SUBSET ((DOMAIN store \cup {serial + 1}) \ important)
        /\ live' = (DOMAIN store \cup {serial + 1}) \ gone
    <3>1. DOMAIN store = live /\ live' = DOMAIN node' BY DEF live
    <3>2. \A u \in gone : u \notin important BY <2>2, <2>3
    <3> QED BY <2>2, <2>3, <3>1, <3>2 DEF Kept
  <2>10. store' = [u \in (DOMAIN store \cup {serial + 1}) \ gone |->
                     IF u = serial + 1 THEN file ELSE store[u]]
    <3>1. \A u \in live' : ReadVersion(node', u) = IF u = serial + 1 THEN file ELSE store[u]
      BY <2>5, <2>6, <2>7, <2>8, <2>9
    <3>2. store' = [u \in live' |-> ReadVersion(node', u)]
      BY <2>4 DEF ReadVersion, Fetch
    <3> HIDE DEF gone, store
    <3> QED BY <2>9, <3>1, <3>2
  <2>11. important' = important
    <3>1. live' \subseteq live \cup {serial + 1} BY <2>2, <2>3 DEF Kept, live
    <3>2. \A u \in live' : node'[u].important = Grown[u].important
      BY <2>2 DEF Kept, live
    <3>3. \A u \in live : node[u].important => u \in live'
      BY <2>2, <2>3, <2>5 DEF live
    <3> QED BY <2>3, <2>5, <3>1, <3>2, <3>3
  <2> HIDE DEF gone, store, important
  <2> QED BY <2>4, <2>9, <2>10, <2>11 DEF Store!Next, Store!Snapshot, store, important
<1>4. ASSUME NEW r, node' = r, WellFormed(r), Inherits(r), Kept(node, r),
             \A u \in DOMAIN node \ DOMAIN r : ~node[u].important,
             UNCHANGED <<file, serial>>
      PROVE  Store!Drop
  <2> DEFINE gone == DOMAIN node \ DOMAIN r
  <2>1. /\ gone \in SUBSET (DOMAIN store \ important)
        /\ live' = DOMAIN store \ gone
    BY <1>4 DEF Kept, live
  <2>2. \A u \in live' : ReadVersion(r, u) = store[u]
    BY <1>1, <1>4, SameStore DEF Kept, live
  <2>3. store' = [u \in live' |-> ReadVersion(r, u)]
    BY <1>4 DEF ReadVersion, Fetch
  <2>4. store' = [u \in DOMAIN store \ gone |-> store[u]]
    <3> HIDE DEF gone, store
    <3> QED BY <2>1, <2>2, <2>3
  <2>5. important' = important
    BY <1>4 DEF Kept, live
  <2> HIDE DEF gone, store, important
  <2> QED BY <1>4, <2>1, <2>4, <2>5 DEF Store!Drop, store, important
<1>5. ASSUME NEW u \in live, DeleteVersion(u) PROVE Store!Drop
  <2>1. u \in DOMAIN node BY DEF live
  <2>2. /\ WellFormed(Remove(node, u)) /\ Inherits(Remove(node, u))
        /\ Kept(node, Remove(node, u))
        /\ DOMAIN Remove(node, u) = DOMAIN node \ {u}
    BY <1>1, <2>1, RemoveSound
  <2> QED BY <1>4, <1>5, <2>2 DEF DeleteVersion
<1>6. CASE CleanerPass
  <2>1. PICK t \in 1..now : node' = Retain(node, serial, t, limit)
    BY <1>6 DEF CleanerPass
  <2>2. /\ WellFormed(node') /\ Inherits(node') /\ Kept(node, node')
        /\ \A u \in DOMAIN node \ DOMAIN node' : ~node[u].important
    BY <1>1, <2>1, RetainSound DEF TypeOK
  <2> QED BY <1>4, <1>6, <2>2 DEF CleanerPass, Store!Next
<1>7. ASSUME NEW u \in live, NEW b \in BOOLEAN,
             node' = [node EXCEPT ![u].important = b], UNCHANGED <<file, nblocks, serial>>,
             ChainInv'
      PROVE  Store!Flag
  <2>1. WellFormed(node') /\ Inherits(node')
    BY <1>7 DEF ChainInv, TypeOK, InheritanceSound, Inherits, WellFormed
  <2>2. /\ DOMAIN node' = DOMAIN node
        /\ \A w \in DOMAIN node : /\ node'[w].count = node[w].count
                                  /\ node'[w].sums = node[w].sums
                                  /\ node'[w].important = IF w = u THEN b ELSE node[w].important
    BY <1>1, <1>7 DEF WellFormed, Node
  <2>3. \A w \in DOMAIN node : ReadVersion(node', w) = ReadVersion(node, w)
    BY <1>1, <2>1, <2>2, SameStore
  <2>4. store' = store
    <3>1. store' = [w \in live |-> ReadVersion(node', w)]
      BY <2>2 DEF ReadVersion, Fetch, live
    <3> QED BY <2>3, <3>1 DEF live
  <2>5. important' \in {important \cup {u}, important \ {u}}
    <3>1. important' = {w \in live : IF w = u THEN b ELSE node[w].important}
      BY <2>2 DEF live
    <3>2. b = TRUE \/ b = FALSE OBVIOUS
    <3> QED BY <3>1, <3>2
  <2>6. u \in DOMAIN store OBVIOUS
  <2> HIDE DEF store, important
  <2> QED BY <1>7, <2>4, <2>5, <2>6 DEF Store!Flag, store, important
<1>8. ASSUME NEW u \in live, MarkImportant(u) PROVE Store!Flag
  <2>1. ChainInv' BY <1>8, InvNext DEF Next
  <2> QED BY <1>7, <1>8, <2>1 DEF MarkImportant
<1>9. ASSUME NEW u \in live, UnmarkLatest(u) PROVE Store!Flag
  <2>1. ChainInv' BY <1>9, InvNext DEF Next
  <2> QED BY <1>7, <1>9, <2>1 DEF UnmarkLatest
<1>10. CASE UNCHANGED <<file, node, serial>>
  <2>1. UNCHANGED <<store, important>> BY <1>10 DEF live, ReadVersion, Fetch
  <2> QED BY <1>10, <2>1 DEF Store!vars
<1>11. CASE ChangeCheck \/ TornCheck \/ SetPinned \/ SetLimit \/ EvictInode \/ Tick \/ UNCHANGED vars
  BY <1>10, <1>11 DEF ChangeCheck, TornCheck, SetPinned, SetLimit, EvictInode, Tick, vars
<1> QED
  <2>1. Store!Drop => Store!Next BY DEF Store!Next
  <2>2. Store!Flag => Store!Next BY DEF Store!Next
  <2> QED BY <1>2, <1>3, <1>5, <1>6, <1>8, <1>9, <1>11, <2>1, <2>2 DEF Next

(* Without checksum collisions the chain implements a store of immutable
   snapshots from which no important one is dropped. *)
THEOREM Implementation ==
  ASSUME CollisionFree
  PROVE  Spec => ImplementsStore
<1>1. Init => Store!Init
  <2> SUFFICES ASSUME Init PROVE Store!Init
    OBVIOUS
  <2>1. live = {} BY DEF Init, live
  <2>2. [u \in live |-> ReadVersion(node, u)] = [u \in {} |-> file]
    BY <2>1
  <2> QED BY <2>1, <2>2 DEF Init, Store!Init
<1>2. ChainInv /\ [Next]_vars => [Store!Next]_(Store!vars)
  BY StoreStep
<1> QED BY <1>1, <1>2, Invariance, PTL DEF Spec, ImplementsStore, Store!Spec

----
(* Order, retention and metadata: the chain is in order, retention spares
   what it must and meets the size limit, the metadata counts the versions,
   and the newest version shows the file. *)

LEMMA Constants ==
  /\ Keep \in Nat /\ Keep > 0 /\ MaxBlocks \in Nat /\ Expire \in Nat
  /\ Limits \subseteq Nat /\ MaxTime \in Nat
BY ChainAssumption

(* Min of two integers. *)
LEMMA MinPair ==
  ASSUME NEW x \in Int, NEW y \in Int
  PROVE  Min({x, y}) <= x /\ Min({x, y}) <= y /\ Min({x, y}) \in Int
<1>1. \E z \in {x, y} : \A w \in {x, y} : z <= w
  <2>1. CASE x <= y BY <2>1
  <2>2. CASE ~(x <= y) BY <2>2
  <2> QED BY <2>1, <2>2
<1> QED BY <1>1 DEF Min

(* The versions of a chain are finitely many. *)
LEMMA ChainFinite ==
  ASSUME NEW n \in Nat, NEW D, D \subseteq 1..n
  PROVE  IsFiniteSet(D) /\ Cardinality(D) \in Nat /\ (Cardinality(D) = 0 <=> D = {})
<1>1. IsFiniteSet(1..n)
  BY FS_Interval
<1>2. IsFiniteSet(D)
  BY <1>1, FS_Subset
<1> QED BY <1>2, FS_CardinalityType, FS_EmptySet

----
(* The order of the chain *)

(* No version lies between a version and its parent; ids and times grow. *)
Ordered(nd) ==
  \A u, w \in DOMAIN nd : w < u => /\ w <= nd[u].parent
                                   /\ nd[w].id < nd[u].id
                                   /\ nd[w].time <= nd[u].time

Past(nd, t) == \A u \in DOMAIN nd : nd[u].time <= t

(* r is nd without some versions. *)
Thinned(nd, r) ==
  /\ DOMAIN r \subseteq DOMAIN nd
  /\ \A w \in DOMAIN r : /\ r[w].id = nd[w].id
                         /\ r[w].time = nd[w].time
                         /\ r[w].important = nd[w].important

LEMMA RemoveOrdered ==
  ASSUME NEW nd, WellFormed(nd), Ordered(nd), NEW u \in DOMAIN nd
  PROVE  /\ Thinned(nd, Remove(nd, u))
         /\ Ordered(Remove(nd, u))
         /\ DOMAIN Remove(nd, u) = DOMAIN nd \ {u}
<1> DEFINE r == Remove(nd, u)
<1>1. DOMAIN r = DOMAIN nd \ {u}
  BY DEF Remove
<1>2. ASSUME NEW w \in DOMAIN nd \ {u}
      PROVE  /\ r[w].id = nd[w].id /\ r[w].time = nd[w].time /\ r[w].important = nd[w].important
             /\ r[w].parent = IF nd[w].parent = u THEN nd[u].parent ELSE nd[w].parent
  <2>1. nd[w] \in Node
    BY DEF WellFormed
  <2>2. CASE nd[w].parent # u
    <3>1. r[w] = nd[w]
      BY <2>2 DEF Remove
    <3> QED BY <2>2, <3>1
  <2>3. CASE nd[w].parent = u
    <3>1. \E d : r[w] = [nd[w] EXCEPT !.parent = nd[u].parent, !.data = d]
      BY <2>3 DEF Remove
    <3> QED BY <2>1, <2>3, <3>1 DEF Node
  <2> QED BY <2>2, <2>3
<1> HIDE DEF r
<1>3. Thinned(nd, r)
  BY <1>1, <1>2 DEF Thinned
<1>4. ASSUME NEW v \in DOMAIN r, NEW w \in DOMAIN r, w < v
      PROVE  w <= r[v].parent /\ r[w].id < r[v].id /\ r[w].time <= r[v].time
  <2>1. v \in DOMAIN nd \ {u} /\ w \in DOMAIN nd \ {u} /\ v \in Nat /\ w \in Nat /\ u \in Nat
    BY <1>1 DEF WellFormed
  <2>2. w <= nd[v].parent /\ nd[w].id < nd[v].id /\ nd[w].time <= nd[v].time
    BY <1>4, <2>1 DEF Ordered
  <2>3. w <= r[v].parent
    <3>1. CASE nd[v].parent # u
      BY <1>2, <2>1, <2>2, <3>1
    <3>2. CASE nd[v].parent = u
      <4>1. w < u
        BY <2>1, <2>2, <3>2
      <4>2. w <= nd[u].parent
        BY <2>1, <4>1 DEF Ordered
      <4> QED BY <1>2, <2>1, <3>2, <4>2
    <3> QED BY <3>1, <3>2
  <2> QED BY <1>2, <2>1, <2>2, <2>3
<1>5. Ordered(r)
  BY <1>4 DEF Ordered
<1> QED BY <1>1, <1>3, <1>5 DEF r

(* What a pass of retention leaves of nd. *)
Passed(nd, r, lim) ==
  /\ WellFormed(r) /\ Inherits(r) /\ Ordered(r)
  /\ Thinned(nd, r)
  /\ DOMAIN nd # {} => DOMAIN r # {}
  /\ lim = 0 => DOMAIN r = DOMAIN nd \/ Cardinality(DOMAIN r) >= Keep

LEMMA RemovePassed ==
  ASSUME TypeOK, NEW m \in Nat, NEW nd, DOMAIN nd \subseteq 1..m, NEW t, NEW lim \in Nat,
         NEW r, Passed(nd, r, lim), NEW k \in DOMAIN r, Excess(r, k, t, lim)
  PROVE  Passed(nd, Remove(r, k), lim)
<1> DEFINE q == Remove(r, k)
<1>1. WellFormed(q) /\ Inherits(q)
  BY RemoveSound DEF Passed
<1>2. Ordered(q) /\ Thinned(r, q) /\ DOMAIN q = DOMAIN r \ {k}
  BY RemoveOrdered DEF Passed
<1> HIDE DEF q
<1>3. Thinned(nd, q)
  BY <1>2 DEF Passed, Thinned
<1>4. /\ IsFiniteSet(DOMAIN r) /\ Cardinality(DOMAIN r) \in Nat
      /\ Cardinality(DOMAIN q) = Cardinality(DOMAIN r) - 1
      /\ Cardinality(DOMAIN q) \in Nat /\ (Cardinality(DOMAIN q) = 0 <=> DOMAIN q = {})
  <2>1. DOMAIN r \subseteq 1..m /\ DOMAIN q \subseteq 1..m
    BY <1>2 DEF Passed, Thinned
  <2> QED BY <1>2, <2>1, ChainFinite, FS_RemoveElement
<1>5. Cardinality(DOMAIN r) > Keep \/ (lim > 0 /\ Cardinality(DOMAIN r) > 1)
  BY DEF Excess
<1>6. DOMAIN q # {} /\ (lim = 0 => Cardinality(DOMAIN q) >= Keep)
  <2> DEFINE x == Cardinality(DOMAIN r)
             y == Cardinality(DOMAIN q)
  <2>1. x \in Nat /\ y = x - 1 /\ (x > Keep \/ (lim > 0 /\ x > 1))
    BY <1>4, <1>5
  <2>2. y = 0 <=> DOMAIN q = {}
    BY <1>4
  <2> HIDE DEF x, y
  <2>3. y # 0 /\ (lim = 0 => y >= Keep)
    BY <2>1, Constants
  <2> QED BY <2>2, <2>3 DEF y
<1> QED BY <1>1, <1>2, <1>3, <1>6 DEF Passed, q

(* Every prefix of a pass. *)
LEMMA PassPassed ==
  ASSUME TypeOK, NEW m \in Nat, NEW nd, DOMAIN nd \subseteq 1..m,
         WellFormed(nd), Inherits(nd), Ordered(nd),
         NEW n \in Nat, NEW t, NEW lim \in Nat, NEW pass, IsPass(pass, nd, n, t, lim)
  PROVE  \A k \in 0..n : Passed(nd, pass[k], lim)
<1> DEFINE Bad == {k \in 0..n : ~Passed(nd, pass[k], lim)}
<1>1. Passed(nd, nd, lim)
  BY DEF Passed, Thinned
<1>2. ASSUME Bad # {} PROVE FALSE
  <2>1. Bad \in SUBSET Nat OBVIOUS
  <2> HIDE DEF Bad
  <2>2. PICK k \in Bad : \A y \in Bad : k <= y
    BY <1>2, <2>1, NatMin
  <2> USE DEF Bad
  <2>3. k \in 0..n /\ ~Passed(nd, pass[k], lim) BY <2>2
  <2>4. pass[k] = IF k = 0 THEN nd
                  ELSE IF k \in DOMAIN pass[k - 1] /\ Excess(pass[k - 1], k, t, lim)
                       THEN Remove(pass[k - 1], k) ELSE pass[k - 1]
    BY <2>3 DEF IsPass
  <2>5. k # 0 BY <1>1, <2>3, <2>4
  <2>6. k - 1 \in 0..n /\ k - 1 \notin Bad BY <2>2, <2>3, <2>5
  <2>7. Passed(nd, pass[k - 1], lim) BY <2>6
  <2> QED BY <2>3, <2>4, <2>5, <2>7, RemovePassed
<1> QED BY <1>2

LEMMA RetainPassed ==
  ASSUME TypeOK, NEW m \in Nat, NEW nd, DOMAIN nd \subseteq 1..m,
         WellFormed(nd), Inherits(nd), Ordered(nd), NEW n \in Nat, NEW t, NEW lim \in Nat
  PROVE  Passed(nd, Retain(nd, n, t, lim), lim)
<1>1. PICK pass : IsPass(pass, nd, n, t, lim) /\ Retain(nd, n, t, lim) = pass[n]
  BY RetainPass
<1> QED BY <1>1, PassPassed

(* A version that could go and was spared is the last the pass looks at in
   vain: later ones are newer and have no reason that it had not. *)
LEMMA PassSpares ==
  ASSUME TypeOK, NEW m \in Nat, NEW nd, DOMAIN nd \subseteq 1..m,
         WellFormed(nd), Inherits(nd), Ordered(nd),
         NEW n \in Nat, NEW t \in Nat, NEW lim \in Nat,
         NEW u \in 1..n, u \in DOMAIN Retain(nd, n, t, lim),
         ~Retain(nd, n, t, lim)[u].important
  PROVE  ~Excess(Retain(nd, n, t, lim), u, t, lim)
<1>1. PICK pass : IsPass(pass, nd, n, t, lim) /\ Retain(nd, n, t, lim) = pass[n]
  BY RetainPass
<1>2. \A k \in 0..n : Passed(nd, pass[k], lim)
  BY <1>1, PassPassed
<1>3. \A k \in 1..n : pass[k] = IF k \in DOMAIN pass[k - 1] /\ Excess(pass[k - 1], k, t, lim)
                                THEN Remove(pass[k - 1], k) ELSE pass[k - 1]
  BY <1>1 DEF IsPass
<1>4. \A k \in 1..n : DOMAIN pass[k] \subseteq DOMAIN pass[k - 1]
  BY <1>3 DEF Remove
<1>5. ASSUME NEW k \in 0..n PROVE u \in DOMAIN pass[k]
  <2> DEFINE Bad == {j \in k..n : u \in DOMAIN pass[j]}
  <2>1. Bad \in SUBSET Nat /\ n \in Bad
    BY <1>1
  <2> HIDE DEF Bad
  <2>2. PICK j \in Bad : \A y \in Bad : j <= y
    BY <2>1, NatMin
  <2> USE DEF Bad
  <2>3. j \in k..n /\ u \in DOMAIN pass[j]
    BY <2>2
  <2>4. CASE j = k
    BY <2>3, <2>4
  <2>5. CASE j # k
    <3>1. j \in 1..n /\ j - 1 \in k..n
      BY <2>3, <2>5
    <3>2. u \in DOMAIN pass[j - 1]
      BY <1>4, <2>3, <3>1
    <3>3. j - 1 \in Bad
      BY <3>1, <3>2
    <3> QED BY <2>2, <3>1, <3>3
  <2> QED BY <2>4, <2>5
<1> DEFINE r == pass[u - 1]
<1>6. /\ Passed(nd, r, lim) /\ u \in DOMAIN r /\ u - 1 \in 0..n
  BY <1>2, <1>5
<1>7. /\ pass[u] = r /\ ~Excess(r, u, t, lim)
  <2>1. u \in DOMAIN pass[u]
    BY <1>5
  <2>2. u \notin DOMAIN Remove(r, u)
    BY DEF Remove
  <2> QED BY <1>3, <1>6, <2>1, <2>2
<1>8. ~r[u].important
  <2>1. nd[u].important = r[u].important
    BY <1>6 DEF Passed, Thinned
  <2>2. nd[u].important = pass[n][u].important
    BY <1>1, <1>2 DEF Passed, Thinned
  <2> QED BY <1>1, <2>1, <2>2
<1>9. ASSUME NEW k \in DOMAIN r, u < k PROVE ~Excess(r, k, t, lim)
  <2>1. r[u].time <= r[k].time
    BY <1>6, <1>9 DEF Passed, Ordered
  <2>2. r[u].time \in Nat /\ r[k].time \in Nat
    BY <1>6 DEF Passed, WellFormed, Node
  <2>3. t - r[k].time > Expire => t - r[u].time > Expire
    BY <2>1, <2>2, Constants
  <2> QED BY <1>7, <1>8, <2>3 DEF Excess
<1>10. ASSUME NEW k \in u..n PROVE pass[k] = r
  <2> DEFINE Bad == {j \in u..n : pass[j] # r}
  <2>1. SUFFICES ASSUME Bad # {} PROVE FALSE
    OBVIOUS
  <2>2. Bad \in SUBSET Nat
    OBVIOUS
  <2> HIDE DEF Bad
  <2>3. PICK j \in Bad : \A y \in Bad : j <= y
    BY <2>1, <2>2, NatMin
  <2> USE DEF Bad
  <2>4. j \in u..n /\ j # u /\ pass[j] # r
    BY <1>7, <2>3
  <2>5. j \in 1..n /\ j - 1 \in u..n /\ u < j
    BY <2>4
  <2>6. pass[j - 1] = r
    <3>1. j - 1 \notin Bad
      BY <2>3, <2>5
    <3> QED BY <2>5, <3>1
  <2> HIDE DEF r
  <2> QED BY <1>3, <1>9, <2>4, <2>5, <2>6
<1> QED BY <1>1, <1>7, <1>10

----
(* The steps keep the order *)

OrderInv == Ordered(node) /\ Past(node, now)

LEMMA GrownOrdered ==
  ASSUME ChainInv, OrderInv
  PROVE  /\ Ordered(Grown) /\ Past(Grown, now)
         /\ WellFormed(Grown) /\ Inherits(Grown)
         /\ DOMAIN Grown = live \cup {serial + 1} /\ DOMAIN Grown \subseteq 1..(serial + 1)
         /\ serial \in Nat /\ serial + 1 \notin live
<1> DEFINE n == serial + 1
<1>1. /\ serial \in Nat /\ live \subseteq 1..serial /\ WellFormed(node) /\ now \in Nat
  BY DEF ChainInv, TypeOK
<1>2. n \in Nat /\ n \notin live /\ \A u \in live : u < n /\ u \in Nat
  BY <1>1
<1>3. /\ WellFormed(Grown) /\ Inherits(Grown) /\ DOMAIN Grown = live \cup {n}
      /\ Grown[n] = NewNode /\ \A u \in live : Grown[u] = node[u]
  BY GrownSound
<1>4. /\ NewNode.parent = IF live = {} THEN 0 ELSE Max(live)
      /\ NewNode.id = HeadId(node) + 1 /\ NewNode.time = now
  BY DEF NewNode
<1>5. ASSUME NEW w \in live
      PROVE  w <= NewNode.parent /\ node[w].id < NewNode.id /\ node[w].time <= now
  <2>1. Max(live) \in live /\ Max(live) >= w
    <3>1. live \in SUBSET (0..serial)
      BY <1>1
    <3> QED BY <1>1, <3>1, MaxIn
  <2>2. HeadId(node) = node[Max(live)].id
    BY DEF HeadId, live
  <2>3. node[w].id \in Nat /\ node[Max(live)].id \in Nat
    BY <1>1, <2>1 DEF WellFormed, Node, live
  <2>4. node[w].id <= node[Max(live)].id
    <3>1. CASE w = Max(live)
      BY <2>3, <3>1
    <3>2. CASE w # Max(live)
      <4>1. w < Max(live)
        BY <1>2, <2>1, <3>2
      <4>2. node[w].id < node[Max(live)].id
        BY <2>1, <4>1 DEF OrderInv, Ordered, live
      <4> QED BY <2>3, <4>2
    <3> QED BY <3>1, <3>2
  <2>5. node[w].time <= now
    BY DEF OrderInv, Past, live
  <2> QED BY <1>2, <1>4, <2>1, <2>2, <2>3, <2>4, <2>5
<1> HIDE DEF n
<1>6. Ordered(Grown)
  <2> SUFFICES ASSUME NEW u \in DOMAIN Grown, NEW w \in DOMAIN Grown, w < u
               PROVE  /\ w <= Grown[u].parent /\ Grown[w].id < Grown[u].id
                      /\ Grown[w].time <= Grown[u].time
    BY DEF Ordered
  <2>1. w \in live
    BY <1>2, <1>3
  <2>2. CASE u = n
    BY <1>3, <1>4, <1>5, <2>1, <2>2
  <2>3. CASE u # n
    BY <1>3, <2>1, <2>3 DEF OrderInv, Ordered, live
  <2> QED BY <2>2, <2>3
<1>7. Past(Grown, now)
  <2>1. Grown[n].time <= now
    BY <1>1, <1>3, <1>4
  <2>2. \A u \in live : Grown[u].time <= now
    BY <1>3, <1>5
  <2> QED BY <1>3, <2>1, <2>2 DEF Past
<1>8. DOMAIN Grown \subseteq 1..n
  BY <1>1, <1>2, <1>3 DEF n
<1> QED BY <1>1, <1>2, <1>3, <1>6, <1>7, <1>8 DEF n

LEMMA CreatePassed ==
  ASSUME ChainInv, OrderInv, CreateVersion
  PROVE  Passed(Grown, node', limit)
<1>1. TypeOK /\ limit \in Nat /\ now \in Nat
  BY DEF ChainInv, TypeOK
<1>2. /\ Ordered(Grown) /\ WellFormed(Grown) /\ Inherits(Grown)
      /\ DOMAIN Grown \subseteq 1..(serial + 1) /\ serial + 1 \in Nat
  BY GrownOrdered
<1>3. CASE meta.pinned
  <2>1. node' = Grown
    BY <1>3 DEF CreateVersion, Grown
  <2> QED BY <1>2, <2>1 DEF Passed, Thinned
<1>4. CASE ~meta.pinned
  <2>1. node' = Retain(Grown, serial + 1, now, limit)
    BY <1>4 DEF CreateVersion, Grown
  <2> QED BY <1>1, <1>2, <2>1, RetainPassed
<1> QED BY <1>3, <1>4

LEMMA CleanerPassed ==
  ASSUME ChainInv, OrderInv, CleanerPass
  PROVE  Passed(node, node', limit)
<1>1. PICK t \in 1..now : node' = Retain(node, serial, t, limit)
  BY DEF CleanerPass
<1>2. /\ TypeOK /\ WellFormed(node) /\ Inherits(node) /\ Ordered(node) /\ limit \in Nat
      /\ serial \in Nat /\ DOMAIN node \subseteq 1..serial
  BY DEF ChainInv, TypeOK, InheritanceSound, OrderInv, live
<1> QED BY <1>1, <1>2, RetainPassed

(* Which versions a step leaves and what it leaves of them. *)
LEMMA OrderNext ==
  ASSUME ChainInv, OrderInv, [Next]_vars
  PROVE  OrderInv'
<1>1. now \in Nat /\ WellFormed(node)
  BY DEF ChainInv, TypeOK
<1>2. ASSUME Ordered(node'), Thinned(node, node'), now' = now PROVE OrderInv'
  BY <1>2 DEF OrderInv, Past, Thinned
<1>3. CASE CreateManual \/ ChangeSnapshot
  <2>1. CreateVersion /\ now' = now
    BY <1>3 DEF CreateManual, ChangeSnapshot, CreateVersion
  <2>2. Ordered(node') /\ Thinned(Grown, node')
    BY <2>1, CreatePassed DEF Passed
  <2>3. Past(node', now)
    BY <2>2, GrownOrdered DEF Past, Thinned
  <2> QED BY <2>1, <2>2, <2>3 DEF OrderInv, Past, Ordered
<1>4. ASSUME NEW u \in live, DeleteVersion(u) PROVE OrderInv'
  <2>1. Ordered(node) /\ u \in DOMAIN node /\ node' = Remove(node, u) /\ now' = now
    BY <1>4 DEF OrderInv, live, DeleteVersion
  <2>2. Ordered(node') /\ Thinned(node, node')
    BY <1>1, <2>1, RemoveOrdered
  <2> QED BY <1>2, <2>1, <2>2
<1>5. CASE CleanerPass
  <2>1. Ordered(node') /\ Thinned(node, node')
    BY <1>5, CleanerPassed DEF Passed
  <2> QED BY <1>2, <1>5, <2>1 DEF CleanerPass
<1>6. ASSUME NEW u \in live, NEW b \in BOOLEAN, node' = [node EXCEPT ![u].important = b], now' = now
      PROVE  OrderInv'
  <2>1. /\ DOMAIN node' = DOMAIN node
        /\ \A w \in DOMAIN node : /\ node'[w].parent = node[w].parent /\ node'[w].id = node[w].id
                                  /\ node'[w].time = node[w].time
    BY <1>1, <1>6 DEF WellFormed, Node, live
  <2> QED BY <1>6, <2>1 DEF OrderInv, Ordered, Past
<1>7. ASSUME NEW u \in live, UnmarkLatest(u) PROVE OrderInv'
  BY <1>6, <1>7 DEF UnmarkLatest
<1>8. ASSUME NEW u \in live, MarkImportant(u) PROVE OrderInv'
  BY <1>6, <1>8 DEF MarkImportant
<1>9. ASSUME UNCHANGED <<node, now>> PROVE OrderInv'
  BY <1>9 DEF OrderInv, Ordered, Past
<1>10. CASE Tick
  <2>1. UNCHANGED node /\ now' = now + 1
    BY <1>10 DEF Tick
  <2>2. \A u \in DOMAIN node : node[u].time \in Nat
    BY <1>1 DEF WellFormed, Node
  <2> QED BY <1>1, <2>1, <2>2 DEF OrderInv, Ordered, Past
<1>11. CASE WriteFile \/ ChangeCheck \/ TornCheck \/ SetPinned \/ SetLimit \/ EvictInode \/ UNCHANGED vars
  BY <1>9, <1>11 DEF WriteFile, ChangeCheck, TornCheck, SetPinned, SetLimit, EvictInode, vars
<1> QED BY <1>3, <1>4, <1>5, <1>7, <1>8, <1>10, <1>11 DEF Next

LEMMA OrderHolds == Spec => [](ChainInv /\ OrderInv)
<1>1. Init => OrderInv
  BY DEF Init, OrderInv, Ordered, Past
<1>2. ChainInv /\ OrderInv /\ [Next]_vars => OrderInv'
  BY OrderNext
<1> QED BY <1>1, <1>2, Invariance, PTL DEF Spec

(* The chain is in order: every version's parent is the next older version
   still there and ids and times grow, through every removal. *)
THEOREM OrderCorrect == Spec => []ParentOnChain
<1>1. ChainInv /\ OrderInv => ParentOnChain
  <2> SUFFICES ASSUME ChainInv, OrderInv, NEW u \in live
               PROVE  LET older == {w \in live : w < u}
                      IN  /\ node[u].parent = IF older = {} THEN 0 ELSE Max(older)
                          /\ \A w \in older : node[w].id < node[u].id /\ node[w].time <= node[u].time
    BY DEF ParentOnChain
  <2> DEFINE older == {w \in live : w < u}
             p == node[u].parent
  <2>1. /\ serial \in Nat /\ older \in SUBSET (0..serial) /\ 0 \notin live
        /\ p \in live \cup {0} /\ p < u
    BY DEF ChainInv, TypeOK, WellFormed, live
  <2>2. \A w \in older : w <= p /\ node[w].id < node[u].id /\ node[w].time <= node[u].time
    BY DEF OrderInv, Ordered, live
  <2>3. CASE older = {}
    BY <2>1, <2>3
  <2>4. CASE older # {}
    <3>1. Max(older) \in older /\ \A y \in older : Max(older) >= y
      BY <2>1, <2>4, MaxIn
    <3>2. Max(older) <= p /\ Max(older) \in Nat /\ Max(older) # 0 /\ p \in Nat
      BY <2>1, <2>2, <3>1
    <3>3. p \in older
      BY <2>1, <3>2
    <3>4. p = Max(older)
      BY <3>1, <3>2, <3>3
    <3> QED BY <2>2, <2>4, <3>4
  <2> QED BY <2>2, <2>3, <2>4
<1> QED BY <1>1, OrderHolds, PTL

----
(* Retention *)

LEMMA StoredFinite ==
  ASSUME NEW n \in Nat, NEW nd, DOMAIN nd \subseteq 1..n
  PROVE  Stored(nd) \in Nat
<1>1. IsFiniteSet(DOMAIN nd) /\ IsFiniteSet(Idx)
  BY ChainFinite, FS_Interval, Constants DEF Idx
<1>2. IsFiniteSet((DOMAIN nd) \X Idx)
  BY <1>1, FS_Product
<1>3. {p \in (DOMAIN nd) \X Idx : nd[p[1]].data[p[2]] # Hole} \in SUBSET ((DOMAIN nd) \X Idx)
  OBVIOUS
<1> QED BY <1>2, <1>3, FS_Subset, FS_CardinalityType DEF Stored

(* Retention leaves a version, and Keep of them without a size limit. *)
THEOREM RetentionCorrect == Spec => RetentionSpares
<1> DEFINE A == (CleanerPass /\ live # {}) \/ CreateVersion =>
                  /\ live' # {}
                  /\ limit = 0 => Cardinality(live') >= Min({Keep, Cardinality(live)})
<1>1. ChainInv /\ OrderInv => A
  <2> SUFFICES ASSUME ChainInv, OrderInv, (CleanerPass /\ live # {}) \/ CreateVersion
               PROVE  /\ live' # {}
                      /\ limit = 0 => Cardinality(live') >= Min({Keep, Cardinality(live)})
    OBVIOUS
  <2>1. \E nd : /\ Passed(nd, node', limit) /\ DOMAIN nd # {}
                /\ live \subseteq DOMAIN nd /\ DOMAIN nd \subseteq 1..(serial + 1)
    <3>1. serial \in Nat /\ live \subseteq 1..serial /\ 1..serial \subseteq 1..(serial + 1)
      BY DEF ChainInv, TypeOK
    <3>2. CASE CleanerPass /\ live # {}
      BY <3>1, <3>2, CleanerPassed DEF live
    <3>3. CASE CreateVersion
      BY <3>3, CreatePassed, GrownOrdered
    <3> QED BY <3>2, <3>3
  <2>2. PICK nd : /\ Passed(nd, node', limit) /\ DOMAIN nd # {}
                  /\ live \subseteq DOMAIN nd /\ DOMAIN nd \subseteq 1..(serial + 1)
    BY <2>1
  <2>3. serial + 1 \in Nat /\ live' = DOMAIN node' /\ live' \subseteq DOMAIN nd
    BY <2>2 DEF ChainInv, TypeOK, live, Passed, Thinned
  <2>4. /\ Cardinality(live) \in Nat /\ Cardinality(live') \in Nat
        /\ Cardinality(live) <= Cardinality(DOMAIN nd)
    <3>1. IsFiniteSet(DOMAIN nd) /\ live' \subseteq 1..(serial + 1) /\ live \subseteq 1..(serial + 1)
      BY <2>2, <2>3, ChainFinite
    <3> QED BY <2>2, <2>3, <3>1, ChainFinite, FS_Subset
  <2>5. ASSUME limit = 0 PROVE Cardinality(live') >= Min({Keep, Cardinality(live)})
    <3> DEFINE x == Cardinality(live)
               y == Cardinality(live')
    <3>1. y >= Keep \/ y >= x
      <4>1. DOMAIN node' = DOMAIN nd \/ Cardinality(DOMAIN node') >= Keep
        BY <2>2, <2>5 DEF Passed
      <4> QED BY <2>3, <2>4, <4>1
    <3>2. x \in Nat /\ y \in Nat /\ Keep \in Nat
      BY <2>4, Constants
    <3> HIDE DEF x, y
    <3>3. Min({Keep, x}) <= Keep /\ Min({Keep, x}) <= x /\ Min({Keep, x}) \in Int
      BY <3>2, MinPair
    <3>4. y >= Min({Keep, x})
      BY <3>1, <3>2, <3>3
    <3> QED BY <3>4 DEF x, y
  <2>6. live' # {}
    BY <2>2, <2>3 DEF Passed
  <2> QED BY <2>5, <2>6
<1>2. ChainInv /\ OrderInv => [A]_vars
  BY <1>1
<1> QED BY <1>2, OrderHolds, PTL DEF RetentionSpares

(* After a version is created the chain fits the limit, or a single version
   or only important ones are left. *)
THEOREM LimitCorrect == Spec => SizeLimitEnforced
<1> DEFINE A == CreateVersion /\ ~meta.pinned /\ limit > 0 =>
                  \/ Stored(node') <= limit
                  \/ Cardinality(live') = 1
                  \/ \A u \in live' : node'[u].important
<1>1. ChainInv /\ OrderInv => A
  <2> SUFFICES ASSUME ChainInv, OrderInv, CreateVersion, ~meta.pinned, limit > 0,
                      NEW u \in live', ~node'[u].important
               PROVE  Stored(node') <= limit \/ Cardinality(live') = 1
    OBVIOUS
  <2>1. node' = Retain(Grown, serial + 1, now, limit)
    BY DEF CreateVersion, Grown
  <2>2. /\ TypeOK /\ limit \in Nat /\ now \in Nat /\ serial + 1 \in Nat
        /\ Ordered(Grown) /\ WellFormed(Grown) /\ Inherits(Grown)
        /\ DOMAIN Grown \subseteq 1..(serial + 1)
    BY GrownOrdered DEF ChainInv, TypeOK
  <2>3. live' = DOMAIN node' /\ DOMAIN node' \subseteq DOMAIN Grown
    BY CreatePassed DEF live, Passed, Thinned
  <2>4. u \in 1..(serial + 1) /\ u \in DOMAIN node'
    BY <2>2, <2>3
  <2>5. ~Excess(node', u, now, limit)
    BY <2>1, <2>2, <2>4, PassSpares
  <2>6. ~(Stored(node') > limit) \/ ~(Cardinality(DOMAIN node') > 1)
    BY <2>5 DEF Excess
  <2>7. /\ Stored(node') \in Nat /\ Cardinality(DOMAIN node') \in Nat
        /\ Cardinality(DOMAIN node') # 0
    <3>1. DOMAIN node' \subseteq 1..(serial + 1)
      BY <2>2, <2>3
    <3> QED BY <2>2, <2>4, <3>1, StoredFinite, ChainFinite
  <2> QED BY <2>2, <2>3, <2>6, <2>7
<1>2. ChainInv /\ OrderInv => [A]_vars
  BY <1>1
<1> QED BY <1>2, OrderHolds, PTL DEF SizeLimitEnforced

----
(* The metadata *)

(* Counting down the versions of old that are not in new. *)
LEMMA CountedDown ==
  ASSUME NEW n \in Nat, NEW old, old \subseteq 1..n, NEW new, new \subseteq old,
         NEW c \in Nat, c + Cardinality(new) >= Cardinality(old)
  PROVE  Max({0, c - Cardinality(old \ new)}) = c + Cardinality(new) - Cardinality(old)
<1> DEFINE x == Cardinality(old)
           y == Cardinality(new)
           g == Cardinality(old \ new)
<1>1. /\ IsFiniteSet(old) /\ x \in Nat /\ y \in Nat /\ g = x - y
  <2>1. IsFiniteSet(old) /\ x \in Nat
    BY ChainFinite
  <2>2. new \subseteq 1..n /\ old \cap new = new
    OBVIOUS
  <2> QED BY <2>1, <2>2, ChainFinite, FS_Difference
<1>2. c + y >= x
  OBVIOUS
<1> HIDE DEF x, y, g
<1> DEFINE d == c - g
<1>3. d \in Nat /\ d = c + y - x
  BY <1>1, <1>2
<1> HIDE DEF d
<1>4. Max({0, d}) \in {0, d} /\ Max({0, d}) >= 0 /\ Max({0, d}) >= d
  <2>1. 0 \in Int /\ d \in Int
    BY <1>3
  <2> QED BY ONLY <2>1, MaxPair
<1>5. Max({0, d}) = d
  BY <1>3, <1>4
<1>6. Max({0, d}) = c + y - x
  BY <1>3, <1>5
<1> QED BY <1>6 DEF d, x, y, g

LEMMA CreateCounts ==
  ASSUME ChainInv, OrderInv, MetaAgrees, CreateVersion
  PROVE  MetaAgrees'
<1> DEFINE a == Cardinality(live)
           b == Cardinality(live')
           c == meta.count
<1>1. /\ serial + 1 \in Nat /\ c \in Nat /\ live \subseteq 1..serial /\ serial \in Nat
  BY DEF ChainInv, TypeOK, Meta
<1>2. /\ DOMAIN Grown = live \cup {serial + 1} /\ DOMAIN Grown \subseteq 1..(serial + 1)
      /\ serial + 1 \notin live
  BY GrownOrdered
<1>3. live' = DOMAIN node' /\ live' \subseteq DOMAIN Grown /\ live' # {}
  <2>1. DOMAIN Grown # {}
    BY <1>2
  <2> QED BY <2>1, CreatePassed DEF live, Passed, Thinned
<1>4. a \in Nat /\ Cardinality(DOMAIN Grown) = a + 1 /\ b \in Nat /\ b # 0
  <2>1. IsFiniteSet(live) /\ a \in Nat
    BY <1>1, ChainFinite
  <2>2. Cardinality(DOMAIN Grown) = a + 1
    BY <1>2, <2>1, FS_AddElement
  <2>3. live' \subseteq 1..(serial + 1)
    BY <1>2, <1>3
  <2> QED BY <1>1, <1>3, <2>1, <2>2, <2>3, ChainFinite
<1>5. c >= a /\ (resident => c = a)
  BY DEF MetaAgrees
<1>6. resident' = resident /\ meta'.count = Max({0, c - Cardinality(DOMAIN Grown \ live')}) + 1
  BY <1>3 DEF CreateVersion, Grown, ChainInv, TypeOK, Meta
<1> HIDE DEF a, b, c
<1>7. c + b >= a + 1
  BY <1>1, <1>4, <1>5
<1>8. Max({0, c - Cardinality(DOMAIN Grown \ live')}) = c + b - (a + 1)
  <2>1. c + Cardinality(live') >= Cardinality(DOMAIN Grown)
    BY <1>4, <1>7 DEF b
  <2>2. Max({0, c - Cardinality(DOMAIN Grown \ live')}) = c + Cardinality(live') - Cardinality(DOMAIN Grown)
    BY <1>1, <1>2, <1>3, <2>1, CountedDown
  <2> QED BY <1>4, <2>2 DEF b
<1>9. meta'.count >= b /\ (resident' => meta'.count = b)
  BY <1>1, <1>4, <1>5, <1>6, <1>8
<1> QED BY <1>9 DEF MetaAgrees, b

(* A removal by a user or the cleaner. *)
LEMMA ForgetCounts ==
  ASSUME ChainInv, MetaAgrees, live' \subseteq live, resident' = resident,
         meta' = IF resident THEN Forget(node') ELSE meta
  PROVE  MetaAgrees'
<1> DEFINE a == Cardinality(live)
           b == Cardinality(live')
           c == meta.count
<1>1. c \in Nat /\ live \subseteq 1..serial /\ serial \in Nat /\ meta \in Meta
  BY DEF ChainInv, TypeOK, Meta
<1>2. a \in Nat /\ b \in Nat /\ b <= a
  <2>1. IsFiniteSet(live) /\ a \in Nat /\ live' \subseteq 1..serial
    BY <1>1, ChainFinite
  <2> QED BY <1>1, <2>1, ChainFinite, FS_Subset
<1>3. c >= a /\ (resident => c = a)
  BY DEF MetaAgrees
<1>4. CASE resident
  <2>1. meta'.count = Max({0, c - Cardinality(live \ live')})
    BY <1>1, <1>4 DEF Forget, Meta, live
  <2>2. c + Cardinality(live') >= Cardinality(live)
    BY <1>1, <1>2, <1>3
  <2>3. meta'.count = c + b - a
    BY <1>1, <2>1, <2>2, CountedDown
  <2>4. meta'.count = b
    BY <1>1, <1>2, <1>3, <1>4, <2>3
  <2> QED BY <1>2, <2>4 DEF MetaAgrees
<1>5. CASE ~resident
  <2>1. meta'.count = c
    BY <1>5
  <2>2. c >= b
    BY <1>1, <1>2, <1>3
  <2> QED BY <1>5, <2>1, <2>2 DEF MetaAgrees
<1> QED BY <1>4, <1>5

LEMMA MetaNext ==
  ASSUME ChainInv, OrderInv, MetaAgrees, [Next]_vars
  PROVE  MetaAgrees'
<1>1. ASSUME live' = live, meta'.count = meta.count, resident' => resident PROVE MetaAgrees'
  BY <1>1 DEF MetaAgrees
<1>2. CASE CreateManual \/ ChangeSnapshot
  BY <1>2, CreateCounts DEF CreateManual, ChangeSnapshot
<1>3. ASSUME NEW u \in live, DeleteVersion(u) PROVE MetaAgrees'
  <2>1. live' \subseteq live
    BY <1>3 DEF DeleteVersion, Remove, live
  <2> QED BY <1>3, <2>1, ForgetCounts DEF DeleteVersion
<1>4. CASE CleanerPass
  <2>1. live' \subseteq live
    BY <1>4, CleanerPassed DEF Passed, Thinned, live
  <2> QED BY <1>4, <2>1, ForgetCounts DEF CleanerPass
<1>5. ASSUME NEW u \in live, MarkImportant(u) PROVE MetaAgrees'
  BY <1>1, <1>5 DEF MarkImportant, live
<1>6. ASSUME NEW u \in live, UnmarkLatest(u) PROVE MetaAgrees'
  BY <1>1, <1>6 DEF UnmarkLatest, live
<1>7. CASE SetPinned
  <2>1. meta'.count = meta.count
    BY <1>7 DEF SetPinned, ChainInv, TypeOK, Meta
  <2> QED BY <1>1, <1>7, <2>1 DEF SetPinned, live
<1>8. CASE EvictInode
  BY <1>1, <1>8 DEF EvictInode, live
<1>9. CASE WriteFile \/ ChangeCheck \/ TornCheck \/ SetLimit \/ Tick \/ UNCHANGED vars
  BY <1>1, <1>9 DEF WriteFile, ChangeCheck, TornCheck, SetLimit, Tick, vars, live
<1> QED BY <1>2, <1>3, <1>4, <1>5, <1>6, <1>7, <1>8, <1>9 DEF Next

(* The metadata counts at least the versions there are, and exactly those
   while the inode cache holds the file. *)
THEOREM CountsCorrect == Spec => []MetaAgrees
<1>1. Init => MetaAgrees
  <2>1. Init => live = {} /\ meta.count = 0
    BY DEF Init, live
  <2> QED BY <2>1, FS_EmptySet DEF MetaAgrees
<1>2. ChainInv /\ OrderInv /\ MetaAgrees /\ [Next]_vars => MetaAgrees'
  BY MetaNext
<1> QED BY <1>1, <1>2, OrderHolds, PTL DEF Spec

----
(* Change detection *)

(* How far version u is from the file. *)
Distance(u) == Cardinality({i \in Idx : Sum(file[i]) # node[u].sums[i]})

(* The strengthening: the bound holds as soon as the writers yet to check
   all saw a head that was freed. *)
CheckedInv ==
  pending.check = pending.torn /\ pending.create = 0 /\ serial \in live =>
    10 * Distance(serial) <= nblocks

LEMMA SnapshotKept ==
  ASSUME ChainInv, CheckedInv, UNCHANGED <<file, nblocks, serial>>,
         DOMAIN node' \subseteq DOMAIN node,
         \A u \in DOMAIN node' : node'[u].sums = node[u].sums,
         serial \in DOMAIN node' /\ pending'.check = pending'.torn /\ pending'.create = 0
           => pending.check = pending.torn /\ pending.create = 0
  PROVE  CheckedInv'
BY DEF CheckedInv, Distance, live

(* The newest version taken is the chain's head while it is there. *)
LEMMA SerialIsHead ==
  ASSUME ChainInv, serial \in live
  PROVE  Max(live) = serial
<1>1. serial \in Nat /\ live \in SUBSET (0..serial) /\ live \subseteq 1..serial
  BY DEF ChainInv, TypeOK
<1> DEFINE m == Max(live)
<1>2. m \in live /\ m >= serial
  BY <1>1, MaxIn
<1> HIDE DEF m
<1>3. m \in Nat /\ m <= serial
  BY <1>1, <1>2
<1>4. m = serial
  BY <1>1, <1>2, <1>3
<1> QED BY <1>4 DEF m

(* While the newest version taken stays, a removal tears no check. *)
LEMMA NotTorn ==
  ASSUME ChainInv, NEW kept, DOMAIN kept \subseteq live, serial \in DOMAIN kept
  PROVE  Tear(pending, Heads, kept) = pending
<1>1. Heads = {serial}
  BY SerialIsHead DEF Heads
<1> QED BY <1>1 DEF Tear

(* A check that finds no change leaves the head within the bound. *)
LEMMA CheckSound ==
  ASSUME ChainInv, serial \in live, nblocks = 0 \/ ~Changed
  PROVE  10 * Distance(serial) <= nblocks
<1> DEFINE far == {i \in Idx : Sum(file[i]) # node[serial].sums[i]}
           near == {i \in 1..nblocks : Sum(file[i]) # node[serial].sums[i]}
<1>1. /\ nblocks \in 0..MaxBlocks /\ MaxBlocks \in Nat /\ serial \in Nat
      /\ live \in SUBSET (0..serial) /\ live \subseteq 1..serial
  BY Constants DEF ChainInv, TypeOK
<1>2. Max(live) = serial
  BY SerialIsHead
<1>3. \A i \in Idx : i > nblocks => Sum(file[i]) = 0 /\ node[serial].sums[i] = 0
  BY DEF ChainInv, InheritanceSound, Inherits, Sum, live
<1>4. far = near
  BY <1>1, <1>3 DEF Idx
<1>5. CASE nblocks = 0
  <2>1. near = {}
    BY <1>5
  <2> QED BY <1>4, <1>5, <2>1, FS_EmptySet DEF Distance
<1>6. CASE ~Changed
  <2>1. ~(10 * Cardinality(near) > nblocks)
    BY <1>2, <1>6 DEF Changed
  <2>2. Cardinality(near) \in Nat
    <3>1. near \in SUBSET (1..nblocks) /\ IsFiniteSet(1..nblocks)
      BY <1>1, FS_Interval
    <3> QED BY <3>1, FS_Subset, FS_CardinalityType
  <2>3. Distance(serial) = Cardinality(near)
    BY <1>4 DEF Distance
  <2> HIDE DEF near
  <2> QED BY <1>1, <2>1, <2>2, <2>3
<1> QED BY <1>5, <1>6

LEMMA SnapshotNext ==
  ASSUME ChainInv, OrderInv, CheckedInv, [Next]_vars
  PROVE  CheckedInv'
<1>1. /\ pending \in [check : Nat, torn : Nat, create : Nat] /\ pending.torn <= pending.check
      /\ nblocks \in Nat /\ serial \in Nat
  BY DEF ChainInv, TypeOK
<1>2. CASE WriteFile
  <2>1. pending'.check # pending'.torn
    BY <1>1, <1>2 DEF WriteFile
  <2> QED BY <2>1 DEF CheckedInv
<1>3. CASE ChangeCheck
  <2>1. UNCHANGED <<file, nblocks, serial, node>>
    BY <1>3 DEF ChangeCheck
  <2>2. ASSUME pending'.create = 0, serial \in live PROVE nblocks = 0 \/ ~Changed
    <3>1. live # {} /\ nblocks > 0 /\ Changed => pending'.create = pending.create + 1
      BY <1>3 DEF ChangeCheck
    <3>2. pending.create + 1 # 0
      BY <1>1
    <3> QED BY <1>1, <2>2, <3>1, <3>2
  <2>3. pending'.create = 0 /\ serial \in live => 10 * Distance(serial) <= nblocks
    BY <2>2, CheckSound
  <2> QED BY <2>1, <2>3 DEF CheckedInv, Distance, live
<1>11. CASE TornCheck
  <2>1. UNCHANGED <<file, nblocks, serial, node>>
    BY <1>11 DEF TornCheck
  <2>2. pending'.check = pending'.torn /\ pending'.create = 0
          => pending.check = pending.torn /\ pending.create = 0
    BY <1>1, <1>11 DEF TornCheck
  <2> QED BY <2>1, <2>2, SnapshotKept
<1>4. CASE CreateManual \/ ChangeSnapshot
  <2>1. CreateVersion /\ serial' = serial + 1 /\ UNCHANGED <<file, nblocks>>
    BY <1>4 DEF CreateManual, ChangeSnapshot, CreateVersion
  <2>2. Kept(Grown, node')
    BY <2>1, CreateSound
  <2>3. Grown[serial + 1] = NewNode /\ NewNode.sums = [i \in Idx |-> Sum(file[i])]
    BY GrownSound
  <2>4. ASSUME serial' \in live' PROVE 10 * Distance(serial)' <= nblocks'
    <3>1. node'[serial'].sums = [i \in Idx |-> Sum(file[i])]
      BY <2>1, <2>2, <2>3, <2>4 DEF Kept, live
    <3>2. \A i \in Idx : Sum(file[i])' = node'[serial'].sums[i]
      BY <2>1, <3>1 DEF Sum
    <3>3. {i \in Idx : Sum(file[i])' # node'[serial'].sums[i]} = {}
      BY <3>2
    <3>4. Distance(serial)' = 0
      BY <3>3, FS_EmptySet DEF Distance
    <3> QED BY <1>1, <2>1, <3>4
  <2> QED BY <2>4 DEF CheckedInv, Distance
<1>5. ASSUME NEW u \in live, DeleteVersion(u) PROVE CheckedInv'
  <2>1. Kept(node, node')
    BY <1>5, RemoveSound DEF DeleteVersion, ChainInv, TypeOK, InheritanceSound, live
  <2>2. serial \in DOMAIN node' => pending' = pending
    BY <1>5, <2>1, NotTorn DEF DeleteVersion, Kept, live
  <2> QED BY <1>5, <2>1, <2>2, SnapshotKept DEF DeleteVersion, Kept
<1>6. CASE CleanerPass
  <2>1. PICK t \in 1..now : node' = Retain(node, serial, t, limit)
    BY <1>6 DEF CleanerPass
  <2>2. Kept(node, node')
    BY <1>1, <2>1, RetainSound DEF ChainInv, TypeOK, InheritanceSound
  <2>3. serial \in DOMAIN node' => pending' = pending
    BY <1>6, <2>2, NotTorn DEF CleanerPass, Kept, live
  <2> QED BY <1>6, <2>2, <2>3, SnapshotKept DEF CleanerPass, Kept
<1>7. ASSUME NEW u \in live, NEW b \in BOOLEAN, node' = [node EXCEPT ![u].important = b],
             UNCHANGED <<file, nblocks, serial, pending>>
      PROVE  CheckedInv'
  <2>1. DOMAIN node' = DOMAIN node /\ \A w \in DOMAIN node : node'[w].sums = node[w].sums
    BY <1>7 DEF ChainInv, TypeOK, WellFormed, Node, live
  <2> QED BY <1>7, <2>1, SnapshotKept
<1>8. ASSUME NEW u \in live, UnmarkLatest(u) PROVE CheckedInv'
  BY <1>7, <1>8 DEF UnmarkLatest
<1>9. ASSUME NEW u \in live, MarkImportant(u) PROVE CheckedInv'
  BY <1>7, <1>9 DEF MarkImportant
<1>10. CASE SetPinned \/ SetLimit \/ EvictInode \/ Tick \/ UNCHANGED vars
  BY <1>10, SnapshotKept DEF SetPinned, SetLimit, EvictInode, Tick, vars
<1> QED BY <1>2, <1>3, <1>4, <1>5, <1>6, <1>8, <1>9, <1>10, <1>11 DEF Next

(* Once every writer has made its check the newest version shows the file,
   up to a tenth of its blocks. *)
THEOREM SnapshotCorrect == Spec => []ChangesSnapshotted
<1>1. Init => CheckedInv
  BY DEF Init, CheckedInv, live
<1>2. ChainInv /\ OrderInv /\ CheckedInv /\ [Next]_vars => CheckedInv'
  BY SnapshotNext
<1>3. ChainInv /\ CheckedInv => ChangesSnapshotted
  <2> SUFFICES ASSUME ChainInv, CheckedInv, pending.check = 0, pending.create = 0, serial \in live
               PROVE  10 * Distance(serial) <= nblocks
    BY DEF ChangesSnapshotted, Distance
  <2>1. pending.check = pending.torn
    BY DEF ChainInv, TypeOK
  <2> QED BY <2>1 DEF CheckedInv
<1> QED BY <1>1, <1>2, <1>3, OrderHolds, PTL DEF Spec
====
