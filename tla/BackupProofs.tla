---- MODULE BackupProofs ----
(***************************************************************************)
(* Proofs about Backup, for every number of callers, threads, records and  *)
(* directories and every bound: the types, with who owns a record that is  *)
(* not in the list yet; that the flag never outlives what it stands for;   *)
(* and that calls which do not overlap run one backup at a time.           *)
(***************************************************************************)
EXTENDS Backup, SequenceTheorems, TLAPS

----
(* Sequences without repetition *)

Elems(s) == {s[k] : k \in DOMAIN s}
Distinct(s) == \A j, k \in DOMAIN s : s[j] = s[k] => j = k

(* What follows the head in a list without repetition has none either, and
   nothing new. *)
LEMMA FromSound ==
  ASSUME list \in Seq(Recs), Distinct(list), NEW head
  PROVE  /\ From(head) \in Seq(Recs)
         /\ Distinct(From(head))
         /\ Elems(From(head)) \subseteq Listed
<1>1. CASE \E k \in DOMAIN list : list[k] = head
  <2> DEFINE n == CHOOSE k \in DOMAIN list : list[k] = head
  <2>1. n \in 1..Len(list)
    BY <1>1
  <2> HIDE DEF n
  <2>2. SubSeq(list, n, Len(list)) \in Seq(Recs)
    BY <2>1
  <2>3. Len(SubSeq(list, n, Len(list))) = Len(list) - n + 1
    BY <2>1
  <2>4. \A j \in 1..(Len(list) - n + 1) : SubSeq(list, n, Len(list))[j] = list[n + j - 1]
    BY <2>1
  <2>5. From(head) = SubSeq(list, n, Len(list))
    BY <1>1 DEF From, n
  <2>6. DOMAIN From(head) = 1..(Len(list) - n + 1)
    BY <2>2, <2>3, <2>5
  <2> QED BY <2>1, <2>2, <2>4, <2>5, <2>6 DEF Distinct, Elems, Listed
<1>2. CASE ~\E k \in DOMAIN list : list[k] = head
  BY <1>2 DEF From, Distinct, Elems
<1> QED BY <1>1, <1>2

(* A record put before a list that does not have it. *)
LEMMA PrependSound ==
  ASSUME NEW s \in Seq(Recs), Distinct(s), NEW r \in Recs, r \notin Elems(s)
  PROVE  /\ <<r>> \o s \in Seq(Recs)
         /\ Distinct(<<r>> \o s)
         /\ Elems(<<r>> \o s) = Elems(s) \cup {r}
<1>1. <<r>> \o s \in Seq(Recs) /\ Len(<<r>> \o s) = Len(s) + 1
  OBVIOUS
<1>2. (<<r>> \o s)[1] = r /\ \A j \in 2..(Len(s) + 1) : (<<r>> \o s)[j] = s[j - 1]
  OBVIOUS
<1>3. DOMAIN (<<r>> \o s) = 1..(Len(s) + 1) /\ DOMAIN s = 1..Len(s)
  BY <1>1
<1>4. Distinct(<<r>> \o s)
  BY <1>2, <1>3 DEF Distinct, Elems
<1>5. Elems(<<r>> \o s) \subseteq Elems(s) \cup {r}
  BY <1>2, <1>3 DEF Elems
<1>6. \A j \in 1..Len(s) : s[j] = (<<r>> \o s)[j + 1]
  BY <1>2
<1>7. Elems(s) \cup {r} \subseteq Elems(<<r>> \o s)
  <2>1. \A j \in 1..Len(s) : j + 1 \in DOMAIN (<<r>> \o s)
    BY <1>3
  <2>2. Elems(s) \subseteq Elems(<<r>> \o s)
    BY <1>3, <1>6, <2>1 DEF Elems
  <2>3. r \in Elems(<<r>> \o s)
    BY <1>2, <1>3 DEF Elems
  <2> QED BY <2>2, <2>3
<1> QED BY <1>1, <1>4, <1>5, <1>7

(* A list without its k-th record. *)
LEMMA RemoveSound ==
  ASSUME NEW s \in Seq(Recs), Distinct(s), NEW k \in DOMAIN s
  PROVE  /\ RemoveAt(s, k) \in Seq(Recs)
         /\ Distinct(RemoveAt(s, k))
         /\ Elems(RemoveAt(s, k)) = Elems(s) \ {s[k]}
<1> DEFINE a == SubSeq(s, 1, k - 1)
           b == SubSeq(s, k + 1, Len(s))
<1>1. k \in 1..Len(s)
  OBVIOUS
<1>2. a \in Seq(Recs) /\ Len(a) = k - 1 /\ \A j \in 1..(k - 1) : a[j] = s[j]
  BY <1>1
<1>3. b \in Seq(Recs) /\ Len(b) = Len(s) - k /\ \A j \in 1..(Len(s) - k) : b[j] = s[k + j]
  BY <1>1
<1> HIDE DEF a, b
<1>4. a \o b \in Seq(Recs) /\ Len(a \o b) = Len(s) - 1
  BY <1>1, <1>2, <1>3
<1> DEFINE u == a \o b
<1>5. /\ \A j \in 1..(k - 1) : u[j] = s[j]
      /\ \A j \in k..(Len(s) - 1) : u[j] = s[j + 1]
  <2>1. \A j \in 1..(Len(s) - 1) : u[j] = IF j <= k - 1 THEN a[j] ELSE b[j - (k - 1)]
    BY <1>1, <1>2, <1>3, ConcatProperties
  <2> HIDE DEF u
  <2>2. \A j \in 1..(k - 1) : u[j] = s[j]
    BY <1>1, <1>2, <2>1
  <2>3. ASSUME NEW j \in k..(Len(s) - 1) PROVE u[j] = s[j + 1]
    <3>1. u[j] = b[j - (k - 1)]
      BY <1>1, <2>1
    <3>2. j - (k - 1) \in 1..(Len(s) - k) /\ k + (j - (k - 1)) = j + 1
      BY <1>1
    <3> QED BY <1>3, <3>1, <3>2
  <2> QED BY <2>2, <2>3
<1>6. RemoveAt(s, k) = a \o b
  BY DEF RemoveAt, a, b
<1>7. DOMAIN u = 1..(Len(s) - 1) /\ DOMAIN s = 1..Len(s)
  BY <1>4
<1>8. u \in Seq(Recs)
  BY <1>4
<1>9. RemoveAt(s, k) = u
  BY <1>6
<1> HIDE DEF u
<1>10. Distinct(u)
  <2>1. SUFFICES ASSUME NEW i \in 1..(Len(s) - 1), NEW j \in 1..(Len(s) - 1), u[i] = u[j]
                 PROVE  i = j
    BY <1>7 DEF Distinct
  <2> DEFINE q(x) == IF x < k THEN x ELSE x + 1
  <2>2. \A x \in 1..(Len(s) - 1) : q(x) \in DOMAIN s /\ u[x] = s[q(x)]
    BY <1>1, <1>5, <1>7
  <2>3. q(i) = q(j)
    BY <2>1, <2>2 DEF Distinct
  <2> QED BY <1>1, <2>3
<1>11. \A j \in DOMAIN u : u[j] \in Elems(s) \ {s[k]}
  BY <1>1, <1>5, <1>7 DEF Distinct, Elems
<1>12. \A j \in DOMAIN s : j # k => \E i \in DOMAIN u : u[i] = s[j]
  <2>1. SUFFICES ASSUME NEW j \in DOMAIN s, j # k PROVE \E i \in DOMAIN u : u[i] = s[j]
    OBVIOUS
  <2>2. CASE j < k
    <3>1. j \in 1..(k - 1) /\ j \in DOMAIN u
      BY <1>1, <1>7, <2>2
    <3> QED BY <1>5, <3>1
  <2>3. CASE j > k
    <3>1. j - 1 \in k..(Len(s) - 1) /\ j - 1 \in DOMAIN u /\ (j - 1) + 1 = j
      BY <1>1, <1>7, <2>3
    <3> QED BY <1>5, <3>1
  <2> QED BY <1>1, <1>7, <2>1, <2>2, <2>3
<1>13. Elems(u) = Elems(s) \ {s[k]}
  <2>1. Elems(u) \subseteq Elems(s) \ {s[k]}
    BY <1>11 DEF Elems
  <2>2. ASSUME NEW y \in Elems(s), y # s[k] PROVE y \in Elems(u)
    BY <1>12, <2>2 DEF Elems
  <2> QED BY <2>1, <2>2
<1> QED BY <1>8, <1>9, <1>10, <1>13

----
(* Types *)

(* A record allocated by a call that has not put it into the list yet: the
   one of a full backup, or an incremental one.  k is the state of the call. *)
Owns(k, r) ==
  /\ r \in Recs
  /\ k.incr = r \/ (k.pc \in {"link", "enter"} /\ k.rec = r)

(* What a call under way works on are records. *)
Holds(k) ==
  /\ k.pc \in {"link", "flag", "spawn", "enter"} => k.rec \in Recs
  /\ k.pc = "insert" => k.incr \in Recs
  /\ k.pc = "link" => k.rec # k.incr
  /\ k.pc \in {"enter", "idle", "repath"} => k.incr = None

(* A record is free, in the list or owned by one call, or it is none of
   these and was lost when two calls put theirs into the list at once. *)
Owners ==
  /\ \A c \in Actors, r \in Recs : Owns(call[c], r) =>
       /\ r \notin Listed /\ recs[r].state # "UNUSED"
       /\ \A d \in Actors \ {c} : ~Owns(call[d], r)
  /\ \A c \in Actors : Holds(call[c])
  /\ \A t \in Threads : Busy(t) => thread[t].rec \in Recs

(* The types of all but the list. *)
Types ==
  /\ recs \in [Recs -> Record]
  /\ nextId \in 1..MaxId + 1
  /\ inProgress \in BOOLEAN
  /\ storage \in Dirs \cup {None}
  /\ files \in [Paths -> {"absent", "empty", "RUNNING", "COMPLETED", "torn"}]
  /\ thread \in [Threads -> ThreadState]
  /\ call \in [Actors -> CallState]
  /\ auto \in [on : BOOLEAN, lives : BOOLEAN]
  /\ life \in {"up", "stopping", "down"}
  /\ races \in Nat /\ broken \in BOOLEAN

TypeInv ==
  /\ Types
  /\ list \in Seq(Recs) /\ Distinct(list)
  /\ broken \/ (Listed \cap Free = {} /\ Owners)

LEMMA TypeInvIsEnough == TypeInv => TypeOK
  BY DEF TypeInv, Types, TypeOK, Distinct

LEMMA TypeInvInit == Init => TypeInv
<1> SUFFICES ASSUME Init PROVE TypeInv
  OBVIOUS
<1> USE BackupAssumption DEF Init
<1>1. 0 \in Ids /\ 1 \in 1..MaxId + 1
  BY DEF Ids
<1>2. Unused \in Record /\ NoCall \in CallState /\ NoThread \in ThreadState
  BY <1>1 DEF Unused, Record, NoCall, CallState, NoThread, ThreadState
<1>3. Types
  BY <1>1, <1>2 DEF Types
<1>4. Owners
  BY DEF Owners, Owns, Holds, Busy, NoCall, NoThread
<1> QED BY <1>3, <1>4 DEF TypeInv, Distinct, Listed

(* What the steps write has the right type. *)
LEMMA WriteTyped ==
  ASSUME NEW k \in Record, NEW st \in {"RUNNING", "COMPLETED", "FAILED", "VERIFIED"}
  PROVE  [k EXCEPT !.state = st] \in Record
  BY DEF Record

LEMMA FreshTyped ==
  ASSUME NEW id \in Ids PROVE Fresh(id) \in Record
  BY DEF Fresh, Unused, Record

LEMMA EndTyped == NoCall \in CallState /\ NoThread \in ThreadState
  BY BackupAssumption DEF NoCall, CallState, NoThread, ThreadState, Ids

LEMMA ReturnedTyped ==
  ASSUME call \in [Actors -> CallState], NEW c \in Actors, NEW id \in Ids
  PROVE  Returned(c, id) \in CallState
<1>1. CASE call[c].incr = None
  BY <1>1, EndTyped DEF Returned
<1>2. CASE call[c].incr # None
  BY <1>2, EndTyped DEF Returned, NoCall, CallState
<1> QED BY <1>1, <1>2

LEMMA UnlinkedTyped ==
  ASSUME thread \in [Threads -> ThreadState], NEW p
  PROVE  Unlinked(p) \in [Threads -> ThreadState]
  BY DEF Unlinked, ThreadState

(* A call that goes on to another step. *)
LEMMA NextCall ==
  ASSUME NEW k \in CallState, NEW p \in {"take", "spawn", "repath"}
  PROVE  LET n == [k EXCEPT !.pc = p]
         IN  n \in CallState /\ n.pc = p /\ n.rec = k.rec /\ n.incr = k.incr
BY DEF CallState

LEMMA RunMoves ==
  ASSUME thread \in [Threads -> ThreadState], NEW t \in Threads, Run(t)
  PROVE  /\ thread[t].pc = "run" /\ UNCHANGED <<inProgress, call, races>>
         /\ \A u \in Threads \ {t} : thread'[u] = thread[u]
         /\ thread'[t].pc \in {"run", "open"} /\ thread'[t].rec = thread[t].rec
<1>1. \/ thread' = thread
      \/ \E p : thread' = [thread EXCEPT ![t].pc = "open", ![t].path = p]
  BY DEF Run
<1>2. ASSUME NEW p, thread' = [thread EXCEPT ![t].pc = "open", ![t].path = p]
      PROVE  /\ \A u \in Threads \ {t} : thread'[u] = thread[u]
             /\ thread'[t].pc = "open" /\ thread'[t].rec = thread[t].rec
  BY <1>2 DEF ThreadState
<1>3. thread[t].pc = "run" /\ UNCHANGED <<inProgress, call, races>>
  BY DEF Run
<1> QED BY <1>1, <1>2, <1>3

LEMMA OpenMoves ==
  ASSUME thread \in [Threads -> ThreadState], NEW t \in Threads, Open(t)
  PROVE  /\ thread[t].pc = "open" /\ UNCHANGED <<call, races>>
         /\ \A u \in Threads \ {t} : thread'[u] = thread[u]
         /\ \/ /\ thread'[t].pc = "header" /\ thread'[t].rec = thread[t].rec
               /\ inProgress' = inProgress
            \/ thread'[t].pc = "idle" /\ ~inProgress'
<1>1. CASE /\ thread' = [thread EXCEPT ![t].pc = "header", ![t].linked = TRUE]
           /\ inProgress' = inProgress
  <2>1. /\ \A u \in Threads \ {t} : thread'[u] = thread[u]
        /\ thread'[t].pc = "header" /\ thread'[t].rec = thread[t].rec
    BY <1>1 DEF ThreadState
  <2> QED BY <1>1, <2>1 DEF Open
<1>2. CASE thread' = [thread EXCEPT ![t] = NoThread] /\ ~inProgress'
  BY <1>2 DEF Open, NoThread
<1> QED BY <1>1, <1>2 DEF Open, Fail, Ended

LEMMA MallocIn == Free = {} \/ Malloc \in Free
  BY DEF Malloc

LEMMA TypesStep ==
  ASSUME TypeInv, ~broken, Next
  PROVE  Types'
<1> USE BackupAssumption DEF TypeInv, Types
<1>1. ASSUME NEW c \in Actors, Ask(c) PROVE Types'
  <2>1. [call[c] EXCEPT !.pc = "take"] \in CallState
    BY DEF CallState
  <2>2. call' \in [Actors -> CallState]
    BY <1>1, <2>1 DEF Ask
  <2>3. races' \in Nat
    BY <1>1 DEF Ask, Overlap
  <2> QED BY <1>1, <2>2, <2>3 DEF Ask
<1>2. ASSUME NEW c \in Callers, AskIncremental(c) PROVE Types'
  <2>1. Malloc \in Recs /\ 0 \in Ids
    BY <1>2, MallocIn DEF AskIncremental, Free, Ids
  <2>2. Fresh(0) \in Record
    BY <2>1, FreshTyped
  <2>3. recs' \in [Recs -> Record]
    BY <1>2, <2>2 DEF AskIncremental
  <2>4. call[c] \in CallState
    BY DEF Actors
  <2>5. \A k \in CallState, p \in {"insert", "take"} : [k EXCEPT !.pc = p, !.incr = Malloc] \in CallState
    BY <2>1 DEF CallState
  <2>6. call' = [call EXCEPT ![c] = [call[c] EXCEPT !.pc = IF inProgress THEN "insert" ELSE "take", !.incr = Malloc]]
    BY <1>2, <2>1, <2>2, <2>3, <2>4, <2>5 DEF AskIncremental
  <2>7. call' \in [Actors -> CallState]
    BY <2>1, <2>2, <2>3, <2>4, <2>5, <2>6 DEF Actors
  <2>8. races' \in Nat
    BY <1>2 DEF AskIncremental, Overlap
  <2> QED BY <1>2, <2>3, <2>7, <2>8 DEF AskIncremental
<1>3. ASSUME NEW c \in Actors, Take(c) PROVE Types'
  <2>1. nextId <= MaxId => nextId \in Ids
    BY DEF Ids
  <2>2. \A k \in CallState, id \in Ids : [k EXCEPT !.pc = "bump", !.id = id] \in CallState
    BY DEF CallState
  <2>3. Returned(c, 0) \in CallState
    BY ReturnedTyped DEF Ids
  <2>4. \E k \in CallState : call' = [call EXCEPT ![c] = k]
    BY <1>3, <2>1, <2>2, <2>3 DEF Take
  <2>5. call' \in [Actors -> CallState]
    BY <2>1, <2>2, <2>3, <2>4
  <2> QED BY <1>3, <2>5 DEF Take
<1>4. ASSUME NEW c \in Actors, Bump(c) PROVE Types'
  <2>1. call[c].id \in Ids
    BY DEF CallState
  <2>2. nextId' \in 1..MaxId + 1
    BY <1>4, <2>1 DEF Bump, Ids
  <2>3. Head1 \in Recs \cup {None}
    BY DEF Head1
  <2>4. ASSUME Free # {} PROVE recs' \in [Recs -> Record] /\ call' \in [Actors -> CallState]
    <3>1. Malloc \in Recs
      BY MallocIn, <2>4 DEF Free
    <3>2. Fresh(call[c].id) \in Record
      BY FreshTyped, <2>1
    <3>3. \A k \in CallState, r \in Recs, h \in Recs \cup {None} :
            [k EXCEPT !.pc = "link", !.rec = r, !.head = h] \in CallState
      BY DEF CallState
    <3>4. /\ recs' = [recs EXCEPT ![Malloc] = Fresh(call[c].id)]
           /\ call' = [call EXCEPT ![c] = [call[c] EXCEPT !.pc = "link", !.rec = Malloc, !.head = Head1]]
      BY <1>4, <2>4 DEF Bump
    <3>5. recs' \in [Recs -> Record]
      BY <3>2, <3>4
    <3>6. call' \in [Actors -> CallState]
      BY <2>3, <3>1, <3>3, <3>4
    <3> QED BY <3>5, <3>6
  <2>5. ASSUME Free = {} PROVE recs' \in [Recs -> Record] /\ call' \in [Actors -> CallState]
    <3>1. Returned(c, 0) \in CallState
      BY ReturnedTyped DEF Ids
    <3>2. recs' = recs /\ call' = [call EXCEPT ![c] = Returned(c, 0)]
      BY <1>4, <2>5 DEF Bump
    <3> QED BY <3>1, <3>2
  <2> QED BY <1>4, <2>2, <2>4, <2>5 DEF Bump
<1>5. ASSUME NEW c \in Actors, Link(c) PROVE Types'
  <2>1. [call[c] EXCEPT !.pc = "flag"] \in CallState
    BY DEF CallState
  <2>2. \E k \in CallState : call' = [call EXCEPT ![c] = k]
    BY <1>5, <2>1, EndTyped DEF Link
  <2>3. call' \in [Actors -> CallState]
    BY <2>2
  <2> QED BY <1>5, <2>3 DEF Link
<1>6. ASSUME NEW c \in Actors, Flag(c) PROVE Types'
  <2>1. [call[c] EXCEPT !.pc = "spawn"] \in CallState
    BY DEF CallState
  <2>2. call' \in [Actors -> CallState]
    BY <1>6, <2>1 DEF Flag
  <2> QED BY <1>6, <2>2 DEF Flag
<1>7. ASSUME NEW c \in Actors, Spawn(c) PROVE Types'
  <2>1. call[c].id \in Ids /\ call[c].rec \in Recs \cup {None}
    BY DEF CallState
  <2>2. Returned(c, call[c].id) \in CallState /\ Returned(c, 0) \in CallState
    BY <2>1, ReturnedTyped DEF Ids
  <2>3. \E k \in CallState : call' = [call EXCEPT ![c] = k]
    BY <1>7, <2>2 DEF Spawn
  <2>4. call' \in [Actors -> CallState]
    BY <2>3
  <2>5. [NoThread EXCEPT !.pc = "run", !.rec = call[c].rec] \in ThreadState
    BY <2>1 DEF NoThread, ThreadState
  <2>6. thread' = thread \/ \E t \in Threads : thread' = [thread EXCEPT ![t] = [NoThread EXCEPT !.pc = "run", !.rec = call[c].rec]]
    BY <1>7 DEF Spawn
  <2>7. thread' \in [Threads -> ThreadState]
    BY <2>5, <2>6
  <2> QED BY <1>7, <2>4, <2>7 DEF Spawn
<1>8. ASSUME NEW c \in Actors, Insert(c) PROVE Types'
  <2>1. Head1 \in Recs \cup {None}
    BY DEF Head1
  <2>2. call[c].id \in Ids /\ call[c].incr \in Recs \cup {None}
    BY DEF CallState
  <2>3. \A r \in Record : [r EXCEPT !.id = call[c].id, !.type = "INCREMENTAL", !.state = "PENDING"] \in Record
    BY <2>2 DEF Record
  <2>4. recs' \in [Recs -> Record]
    BY <1>8, <2>1, <2>2, <2>3 DEF Insert
  <2>5. [NoCall EXCEPT !.pc = "enter", !.rec = call[c].incr, !.head = Head1] \in CallState
    BY <2>1, <2>2, <2>3, <2>4, EndTyped DEF CallState
  <2>6. call' \in [Actors -> CallState]
    BY <1>8, <2>1, <2>2, <2>3, <2>4, <2>5 DEF Insert
  <2> QED BY <1>8, <2>4, <2>6 DEF Insert
<1>9. ASSUME NEW c \in Callers, Verify(c) PROVE Types'
  <2>1. \A k \in Record : [k EXCEPT !.state = "VERIFIED"] \in Record
    BY WriteTyped
  <2>2. recs' \in [Recs -> Record]
    BY <1>9, <2>1 DEF Verify
  <2> QED BY <1>9, <2>2 DEF Verify
<1>10. ASSUME NEW c \in Callers, Delete(c) PROVE Types'
  <2>1. Unused \in Record
    BY DEF Unused, Record, Ids
  <2>2. recs' \in [Recs -> Record]
    BY <1>10, <2>1 DEF Delete
  <2>3. thread' = thread \/ \E p : thread' = Unlinked(p)
    BY <1>10 DEF Delete
  <2>4. thread' \in [Threads -> ThreadState]
    BY <2>3, UnlinkedTyped
  <2>5. files' = files \/ \E p : files' = [files EXCEPT ![p] = "absent"]
    BY <1>10 DEF Delete
  <2>6. files' \in [Paths -> {"absent", "empty", "RUNNING", "COMPLETED", "torn"}]
    BY <2>5
  <2>7. races' \in Nat
    BY <1>10 DEF Delete, Overlap
  <2> QED BY <1>10, <2>2, <2>4, <2>7 DEF Delete
<1>11. ASSUME NEW c \in Callers, FreePath(c) PROVE Types'
  <2>1. [call[c] EXCEPT !.pc = "repath"] \in CallState
    BY NextCall DEF Actors
  <2>2. call' \in [Actors -> CallState]
    BY <1>11, <2>1 DEF FreePath
  <2> QED BY <1>11, <2>2 DEF FreePath
<1>12. ASSUME NEW c \in Callers, SetPath(c) PROVE Types'
  <2>1. call' \in [Actors -> CallState]
    BY <1>12, EndTyped DEF SetPath
  <2> QED BY <1>12, <2>1 DEF SetPath
<1>13. ASSUME NEW c \in Callers, Schedule(c) PROVE Types'
  BY <1>13 DEF Schedule
<1>14. ASSUME NEW c \in Callers, Stop(c) PROVE Types'
  BY <1>14 DEF Stop
<1>15. ASSUME NEW t \in Threads, Run(t) PROVE Types'
  <2>1. thread[t].rec \in Recs
    BY <1>15 DEF Run, Owners, Busy
  <2>2. recs[thread[t].rec].id \in Ids
    BY <2>1 DEF Record
  <2>3. storage # None => [dir |-> storage, id |-> recs[thread[t].rec].id] \in Paths
    BY <2>2 DEF Paths
  <2>4. \A r \in Record, p \in Paths : [r EXCEPT !.state = "RUNNING", !.path = p] \in Record
    BY DEF Record
  <2>5. \A k \in ThreadState, p \in Paths : [k EXCEPT !.pc = "open", !.path = p] \in ThreadState
    BY <2>1, <2>2, <2>3, <2>4 DEF ThreadState
  <2>6. CASE storage = None
    BY <1>15, <2>6 DEF Run
  <2>7. CASE storage # None
    <3> DEFINE p == [dir |-> storage, id |-> recs[thread[t].rec].id]
    <3>1. p \in Paths
      BY <2>3, <2>7
    <3>2. /\ recs' = [recs EXCEPT ![thread[t].rec].state = "RUNNING", ![thread[t].rec].path = p]
          /\ thread' = [thread EXCEPT ![t].pc = "open", ![t].path = p]
      BY <1>15, <2>7 DEF Run
    <3> HIDE DEF p
    <3>3. recs' \in [Recs -> Record]
      BY <2>1, <2>4, <3>1, <3>2
    <3>4. thread' \in [Threads -> ThreadState]
      BY <2>5, <3>1, <3>2
    <3> QED BY <1>15, <3>3, <3>4 DEF Run
  <2> QED BY <2>6, <2>7
<1>16. ASSUME NEW t \in Threads, Open(t) PROVE Types'
  <2>1. recs' = recs \/ recs' = [recs EXCEPT ![thread[t].rec].state = "FAILED"]
    BY <1>16 DEF Open, Fail, Write
  <2>2. recs' \in [Recs -> Record]
    <3>1. \A k \in Record : [k EXCEPT !.state = "FAILED"] \in Record
      BY WriteTyped
    <3> QED BY <2>1, <3>1
  <2>3. \A k \in ThreadState : [k EXCEPT !.pc = "header", !.linked = TRUE] \in ThreadState
    BY DEF ThreadState
  <2>4. \E k \in ThreadState : thread' = [thread EXCEPT ![t] = k]
    BY <1>16, <2>1, <2>2, <2>3, EndTyped DEF Open, Ended
  <2>5. thread' \in [Threads -> ThreadState]
    BY <2>1, <2>2, <2>3, <2>4
  <2>6. files' \in [Paths -> {"absent", "empty", "RUNNING", "COMPLETED", "torn"}]
    BY <1>16, <2>1, <2>2, <2>3, <2>4, <2>5 DEF Open
  <2> QED BY <1>16, <2>2, <2>5, <2>6 DEF Open, Fail
<1>17. ASSUME NEW t \in Threads, Header(t) PROVE Types'
  <2>1. recs' = recs \/ recs' = [recs EXCEPT ![thread[t].rec].state = "FAILED"]
    BY <1>17 DEF Header, Fail, Write
  <2>2. recs' \in [Recs -> Record]
    <3>1. \A k \in Record : [k EXCEPT !.state = "FAILED"] \in Record
      BY WriteTyped
    <3> QED BY <2>1, <3>1
  <2>3. [thread[t] EXCEPT !.pc = "copy"] \in ThreadState
    BY DEF ThreadState
  <2>4. \/ thread' = [thread EXCEPT ![t] = [thread[t] EXCEPT !.pc = "copy"]]
        \/ thread' = [Unlinked(thread[t].path) EXCEPT ![t] = NoThread]
    BY <1>17 DEF Header
  <2>5. thread' \in [Threads -> ThreadState]
    BY <2>2, <2>3, <2>4, EndTyped, UnlinkedTyped
  <2>6. files' \in [Paths -> {"absent", "empty", "RUNNING", "COMPLETED", "torn"}]
    BY <1>17 DEF Header, Written
  <2> QED BY <1>17, <2>2, <2>5, <2>6 DEF Header, Fail
<1>18. ASSUME NEW t \in Threads, Rewrite(t) PROVE Types'
  <2>1. recs' = recs \/ recs' = [recs EXCEPT ![thread[t].rec].state = "FAILED"]
    BY <1>18 DEF Rewrite, Fail, Write
  <2>2. recs' \in [Recs -> Record]
    <3>1. \A k \in Record : [k EXCEPT !.state = "FAILED"] \in Record
      BY WriteTyped
    <3> QED BY <2>1, <3>1
  <2>3. [thread[t] EXCEPT !.pc = "mark"] \in ThreadState
    BY DEF ThreadState
  <2>4. \E k \in ThreadState : thread' = [thread EXCEPT ![t] = k]
    BY <1>18, <2>3, EndTyped DEF Rewrite, Ended
  <2>5. thread' \in [Threads -> ThreadState]
    BY <2>4
  <2>6. files' \in [Paths -> {"absent", "empty", "RUNNING", "COMPLETED", "torn"}]
    BY <1>18 DEF Rewrite, Written
  <2> QED BY <1>18, <2>2, <2>5, <2>6 DEF Rewrite, Fail
<1>19. ASSUME NEW t \in Threads, Mark(t) PROVE Types'
  <2>1. recs' \in [Recs -> Record]
    BY <1>19, WriteTyped DEF Mark, Write
  <2>2. thread' \in [Threads -> ThreadState]
    BY <1>19, EndTyped DEF Mark, Ended
  <2> QED BY <1>19, <2>1, <2>2 DEF Mark
<1>20. ASSUME AutoExit PROVE Types'
  BY <1>20 DEF AutoExit
<1>21. ASSUME Destroy PROVE Types'
  <2>1. Unused \in Record
    BY DEF Unused, Record, Ids
  <2>2. recs' \in [Recs -> Record]
    BY <1>21, <2>1 DEF Destroy
  <2>3. races' \in Nat
    BY <1>21 DEF Destroy
  <2> QED BY <1>21, <2>2 DEF Destroy
<1> QED BY <1>1, <1>2, <1>3, <1>4, <1>5, <1>6, <1>7, <1>8, <1>9, <1>10, <1>11, <1>12, <1>13, <1>14, <1>15, <1>16, <1>17, <1>18, <1>19, <1>20, <1>21 DEF Next, CreateStep, ThreadStep


(* A step that frees no record, puts none into the list and gives no call a
   record. *)
LEMMA OwnersKept ==
  ASSUME TypeInv, ~broken,
         \A r \in Recs : recs'[r].state = "UNUSED" => recs[r].state = "UNUSED",
         Listed' \subseteq Listed,
         \A c \in Actors, r \in Recs : Owns(call[c], r)' => Owns(call[c], r),
         \A c \in Actors : Holds(call[c])',
         \A t \in Threads : Busy(t)' => thread'[t].rec \in Recs
  PROVE  Listed' \cap Free' = {} /\ Owners'
<1>1. Listed' \cap Free' = {}
  BY DEF TypeInv, Free
<1>2. Owners'
  BY DEF TypeInv, Owners
<1> QED BY <1>1, <1>2

(* No step but that of a thread changes what threads work on. *)
LEMMA ThreadsKept ==
  ASSUME TypeInv, ~broken, NEW p, thread' \in {thread, Unlinked(p)}
  PROVE  \A t \in Threads : Busy(t)' => thread'[t].rec \in Recs
<1> USE DEF TypeInv, Types, ThreadState, Owners, Busy
<1>1. CASE thread' = thread
  BY <1>1
<1>2. CASE thread' = Unlinked(p)
  BY <1>2 DEF Unlinked
<1> QED BY <1>1, <1>2

LEMMA OwnersThread ==
  ASSUME TypeInv, ~broken, NEW t \in Threads, ThreadStep(t)
  PROVE  Listed' \cap Free' = {} /\ Owners'
<1> USE DEF TypeInv, Types
<1>1. call' = call /\ list' = list
  BY DEF ThreadStep, Run, Open, Header, Rewrite, Mark
<1>2. \A r \in Recs : recs'[r].state = "UNUSED" => recs[r].state = "UNUSED"
  <2>1. CASE Run(t)
    <3>1. PICK q : recs' \in {recs, [recs EXCEPT ![thread[t].rec].state = "RUNNING", ![thread[t].rec].path = q]}
      BY <2>1 DEF Run
    <3>2. CASE recs' = [recs EXCEPT ![thread[t].rec].state = "RUNNING", ![thread[t].rec].path = q]
      BY <3>2 DEF Record
    <3> QED BY <3>1, <3>2
  <2>2. CASE Open(t)
    <3>1. recs' = recs \/ recs' = [recs EXCEPT ![thread[t].rec].state = "FAILED"]
      BY <2>2 DEF Open, Fail, Write
    <3>2. CASE recs' = [recs EXCEPT ![thread[t].rec].state = "FAILED"]
      BY <3>2 DEF Record
    <3> QED BY <3>1, <3>2
  <2>3. CASE Header(t)
    <3>1. recs' = recs \/ recs' = [recs EXCEPT ![thread[t].rec].state = "FAILED"]
      BY <2>3 DEF Header, Fail, Write
    <3>2. CASE recs' = [recs EXCEPT ![thread[t].rec].state = "FAILED"]
      BY <3>2 DEF Record
    <3> QED BY <3>1, <3>2
  <2>4. CASE Rewrite(t)
    <3>1. recs' = recs \/ recs' = [recs EXCEPT ![thread[t].rec].state = "FAILED"]
      BY <2>4 DEF Rewrite, Fail, Write
    <3>2. CASE recs' = [recs EXCEPT ![thread[t].rec].state = "FAILED"]
      BY <3>2 DEF Record
    <3> QED BY <3>1, <3>2
  <2>5. CASE Mark(t)
    <3>1. recs' = [recs EXCEPT ![thread[t].rec].state = "COMPLETED"]
      BY <2>5 DEF Mark, Write
    <3> QED BY <3>1 DEF Record
  <2> QED BY <2>1, <2>2, <2>3, <2>4, <2>5 DEF ThreadStep
<1>3. \A u \in Threads : Busy(u)' => Busy(u) /\ thread'[u].rec = thread[u].rec
  <2>1. CASE Run(t)
    BY <2>1, RunMoves DEF Busy
  <2>2. CASE Open(t)
    BY <2>2, OpenMoves DEF Busy
  <2>3. CASE Header(t)
    <3>1. CASE thread' = [thread EXCEPT ![t].pc = "copy"]
      BY <2>3, <3>1 DEF Header, ThreadState, Busy
    <3>2. CASE thread' = [Unlinked(thread[t].path) EXCEPT ![t] = NoThread]
      BY <3>2 DEF Unlinked, NoThread, ThreadState, Busy
    <3> QED BY <2>3, <3>1, <3>2 DEF Header
  <2>4. CASE Rewrite(t)
    BY <2>4 DEF Rewrite, Ended, NoThread, ThreadState, Busy
  <2>5. CASE Mark(t)
    BY <2>5 DEF Mark, Ended, NoThread, ThreadState, Busy
  <2> QED BY <2>1, <2>2, <2>3, <2>4, <2>5 DEF ThreadStep
<1>4. \A u \in Threads : Busy(u)' => thread'[u].rec \in Recs
  BY <1>3 DEF Owners
<1>5. /\ Listed' = Listed
      /\ \A c \in Actors : Holds(call[c])'
      /\ \A c \in Actors, r \in Recs : Owns(call[c], r)' => Owns(call[c], r)
  BY <1>1 DEF Listed, Holds, Owns, Owners
<1> QED BY <1>2, <1>4, <1>5, OwnersKept

(* A step of call c that leaves records and list alone, and after which the
   call owns no more than before. *)
LEMMA OwnersCall ==
  ASSUME TypeInv, ~broken, NEW c \in Actors, NEW k \in CallState,
         call' = [call EXCEPT ![c] = k], recs' = recs, list' = list,
         \A r \in Recs : Owns(k, r) => Owns(call[c], r),
         Holds(k),
         \A t \in Threads : Busy(t)' => thread'[t].rec \in Recs
  PROVE  Listed' \cap Free' = {} /\ Owners'
<1>1. Listed' = Listed
  BY DEF Listed
<1>2. \A d \in Actors : call'[d] = IF d = c THEN k ELSE call[d]
  BY DEF TypeInv, Types
<1>3. \A d \in Actors, r \in Recs : Owns(call'[d], r) => Owns(call[d], r)
  BY <1>2
<1>4. \A d \in Actors : Holds(call'[d])
  BY <1>2 DEF TypeInv, Owners
<1> QED BY <1>1, <1>3, <1>4, OwnersKept DEF Owns, Holds

LEMMA OwnersAsk ==
  ASSUME TypeInv, ~broken, NEW c \in Actors, Ask(c) \/ Take(c) \/ Flag(c)
  PROVE  Listed' \cap Free' = {} /\ Owners'
<1> USE DEF TypeInv, Types
<1>1. recs' = recs /\ list' = list /\ thread' = thread
  BY DEF Ask, Take, Flag
<1>2. \A t \in Threads : Busy(t)' => thread'[t].rec \in Recs
  BY <1>1 DEF Owners, Busy
<1>3. CASE Ask(c)
  <2> DEFINE k == [call[c] EXCEPT !.pc = "take"]
  <2>1. k \in CallState /\ k.pc = "take" /\ k.rec = call[c].rec /\ k.incr = call[c].incr
    BY NextCall
  <2>2. call' = [call EXCEPT ![c] = k]
    BY <1>3 DEF Ask
  <2> HIDE DEF k
  <2>3. Holds(k) /\ \A r \in Recs : Owns(k, r) => Owns(call[c], r)
    BY <2>1 DEF Holds, Owns
  <2> QED BY <1>1, <1>2, <2>1, <2>2, <2>3, OwnersCall
<1>4. CASE Take(c)
  <2> DEFINE k == IF nextId <= MaxId THEN [call[c] EXCEPT !.pc = "bump", !.id = nextId]
                  ELSE Returned(c, 0)
  <2>1. 0 \in Ids /\ (nextId <= MaxId => nextId \in Ids)
    BY BackupAssumption DEF Ids
  <2>2. k \in CallState
    <3>1. \A j \in CallState, id \in Ids : [j EXCEPT !.pc = "bump", !.id = id] \in CallState
      BY DEF CallState
    <3> QED BY <2>1, <3>1, ReturnedTyped
  <2>3. call' = [call EXCEPT ![c] = k]
    BY <1>4 DEF Take
  <2>4. Holds(k) /\ \A r \in Recs : Owns(k, r) => Owns(call[c], r)
    BY BackupAssumption DEF Holds, Owns, Returned, NoCall, CallState
  <2> HIDE DEF k
  <2> QED BY <1>1, <1>2, <2>2, <2>3, <2>4, OwnersCall
<1>5. CASE Flag(c)
  <2> DEFINE k == [call[c] EXCEPT !.pc = "spawn"]
  <2>1. k \in CallState /\ k.pc = "spawn" /\ k.rec = call[c].rec /\ k.incr = call[c].incr
    BY NextCall
  <2>2. call' = [call EXCEPT ![c] = k] /\ call[c].pc = "flag"
    BY <1>5 DEF Flag
  <2> HIDE DEF k
  <2>3. Holds(k) /\ \A r \in Recs : Owns(k, r) => Owns(call[c], r)
    BY <2>1, <2>2 DEF Holds, Owns, Owners
  <2> QED BY <1>1, <1>2, <2>1, <2>2, <2>3, OwnersCall
<1> QED BY <1>3, <1>4, <1>5

LEMMA OwnersSpawn ==
  ASSUME TypeInv, ~broken, NEW c \in Actors, Spawn(c)
  PROVE  Listed' \cap Free' = {} /\ Owners'
<1> USE DEF TypeInv, Types
<1>1. call[c].rec \in Recs /\ call[c].id \in Ids /\ call[c].pc = "spawn"
  BY DEF Spawn, Owners, Holds, CallState
<1>2. PICK id \in {0, call[c].id} : call' = [call EXCEPT ![c] = Returned(c, id)]
  BY DEF Spawn
<1>3. id \in Ids
  BY <1>1, BackupAssumption DEF Ids
<1>4. Returned(c, id) \in CallState
  BY <1>3, ReturnedTyped
<1>5. Holds(Returned(c, id)) /\ \A r \in Recs : Owns(Returned(c, id), r) => Owns(call[c], r)
  BY BackupAssumption, <1>1 DEF Holds, Owns, Returned, NoCall, CallState
<1>6. \A t \in Threads : Busy(t)' => thread'[t].rec \in Recs
  <2>1. CASE thread' = thread
    BY <2>1 DEF Owners, Busy
  <2>2. ASSUME NEW u \in Threads,
               thread' = [thread EXCEPT ![u] = [NoThread EXCEPT !.pc = "run", !.rec = call[c].rec]]
        PROVE  \A t \in Threads : Busy(t)' => thread'[t].rec \in Recs
    BY <1>1, <2>2 DEF Owners, Busy, NoThread
  <2>3. \/ thread' = thread
        \/ \E u \in Threads :
              thread' = [thread EXCEPT ![u] = [NoThread EXCEPT !.pc = "run", !.rec = call[c].rec]]
    BY DEF Spawn
  <2> QED BY <2>1, <2>2, <2>3
<1>7. recs' = recs /\ list' = list
  BY DEF Spawn
<1> QED BY <1>2, <1>4, <1>5, <1>6, <1>7, OwnersCall

LEMMA OwnersPath ==
  ASSUME TypeInv, ~broken, NEW c \in Callers, FreePath(c) \/ SetPath(c)
  PROVE  Listed' \cap Free' = {} /\ Owners'
<1> USE DEF TypeInv, Types
<1>1. recs' = recs /\ list' = list /\ thread' = thread /\ c \in Actors
  BY DEF FreePath, SetPath, Actors
<1>2. \A t \in Threads : Busy(t)' => thread'[t].rec \in Recs
  BY <1>1 DEF Owners, Busy
<1>3. CASE FreePath(c)
  <2> DEFINE k == [call[c] EXCEPT !.pc = "repath"]
  <2>1. k \in CallState /\ k.pc = "repath" /\ k.rec = call[c].rec /\ k.incr = call[c].incr
    BY <1>1 DEF CallState
  <2>2. call' = [call EXCEPT ![c] = k] /\ call[c].pc = "idle"
    BY <1>3 DEF FreePath, Ready
  <2> HIDE DEF k
  <2>3. Holds(k) /\ \A r \in Recs : Owns(k, r) => Owns(call[c], r)
    BY <1>1, <2>1, <2>2 DEF Holds, Owns, Owners
  <2> QED BY <1>1, <1>2, <2>1, <2>2, <2>3, OwnersCall
<1>4. CASE SetPath(c)
  <2>1. call' = [call EXCEPT ![c] = NoCall]
    BY <1>4 DEF SetPath
  <2>2. Holds(NoCall) /\ \A r \in Recs : ~Owns(NoCall, r)
    BY BackupAssumption DEF Holds, Owns, NoCall
  <2> QED BY <1>1, <1>2, <2>1, <2>2, OwnersCall, EndTyped
<1> QED BY <1>3, <1>4

LEMMA OwnersRest ==
  ASSUME TypeInv, ~broken,
         AutoExit \/ \E c \in Callers : Verify(c) \/ Schedule(c) \/ Stop(c)
  PROVE  Listed' \cap Free' = {} /\ Owners'
<1> USE DEF TypeInv, Types
<1>1. call' = call /\ list' = list /\ thread' = thread
  BY DEF AutoExit, Verify, Schedule, Stop
<1>2. \A r \in Recs : recs'[r].state = "UNUSED" => recs[r].state = "UNUSED"
  <2>1. recs' = recs \/ \E r : recs' = [recs EXCEPT ![r].state = "VERIFIED"]
    BY DEF AutoExit, Verify, Schedule, Stop
  <2>2. ASSUME NEW r, recs' = [recs EXCEPT ![r].state = "VERIFIED"]
        PROVE  \A x \in Recs : recs'[x].state = "UNUSED" => recs[x].state = "UNUSED"
    BY <2>2 DEF Record
  <2> QED BY <2>1, <2>2
<1>3. \A t \in Threads : Busy(t)' => thread'[t].rec \in Recs
  BY <1>1 DEF Owners, Busy
<1>4. /\ Listed' = Listed
      /\ \A c \in Actors : Holds(call[c])'
      /\ \A c \in Actors, r \in Recs : Owns(call[c], r)' => Owns(call[c], r)
  BY <1>1 DEF Listed, Holds, Owns, Owners
<1> QED BY <1>2, <1>3, <1>4, OwnersKept

(* A step of call c that allocates x: a free record is nobody's. *)
LEMMA OwnersMalloc ==
  ASSUME TypeInv, ~broken, NEW c \in Actors, NEW k \in CallState, NEW x \in Free, NEW id,
         call' = [call EXCEPT ![c] = k], recs' = [recs EXCEPT ![x] = Fresh(id)],
         list' = list, thread' = thread,
         \A r \in Recs : Owns(k, r) => r = x \/ Owns(call[c], r),
         Holds(k)
  PROVE  Listed' \cap Free' = {} /\ Owners'
<1> USE DEF TypeInv, Types
<1>1. Listed' = Listed
  BY DEF Listed
<1>2. \A d \in Actors : call'[d] = IF d = c THEN k ELSE call[d]
  OBVIOUS
<1>3. Fresh(id).state = "PENDING"
  BY DEF Fresh, Unused
<1>4. \A r \in Recs : recs'[r].state = "UNUSED" => recs[r].state = "UNUSED" /\ r # x
  BY <1>3
<1>5. x \in Recs /\ recs[x].state = "UNUSED" /\ x \notin Listed /\ \A d \in Actors : ~Owns(call[d], x)
  BY DEF Free, Owners
<1>6. Listed' \cap Free' = {}
  BY <1>1, <1>4 DEF Free
<1>7. ASSUME NEW d \in Actors, NEW r \in Recs, Owns(call'[d], r)
      PROVE  /\ r \notin Listed' /\ recs'[r].state # "UNUSED"
             /\ \A e \in Actors \ {d} : ~Owns(call'[e], r)
  <2>1. CASE r = x
    BY <1>1, <1>2, <1>4, <1>5, <1>7, <2>1
  <2>2. CASE r # x
    <3>1. Owns(call[d], r)
      BY <1>2, <1>7, <2>2
    <3>2. r \notin Listed /\ recs[r].state # "UNUSED" /\ \A e \in Actors \ {d} : ~Owns(call[e], r)
      BY <3>1 DEF Owners
    <3> QED BY <1>1, <1>2, <1>4, <2>2, <3>2
  <2> QED BY <2>1, <2>2
<1>8. \A d \in Actors : Holds(call'[d])
  BY <1>2 DEF Owners
<1>9. \A t \in Threads : Busy(t)' => thread'[t].rec \in Recs
  BY DEF Owners, Busy
<1> QED BY <1>6, <1>7, <1>8, <1>9 DEF Owners, Owns, Holds

LEMMA OwnersAlloc ==
  ASSUME TypeInv, ~broken, NEW c \in Actors,
         Bump(c) \/ (c \in Callers /\ AskIncremental(c))
  PROVE  Listed' \cap Free' = {} /\ Owners'
<1> USE DEF TypeInv, Types
<1>1. list' = list /\ thread' = thread
  BY DEF Bump, AskIncremental
<1>2. CASE Bump(c) /\ Free # {}
  <2> DEFINE k == [call[c] EXCEPT !.pc = "link", !.rec = Malloc, !.head = Head1]
  <2>1. Malloc \in Free /\ Malloc \in Recs /\ Head1 \in Recs \cup {None}
    BY <1>2, MallocIn DEF Free, Head1
  <2>2. \A j \in CallState, r \in Recs, h \in Recs \cup {None} :
          [j EXCEPT !.pc = "link", !.rec = r, !.head = h] \in CallState
    BY DEF CallState
  <2>3. k \in CallState /\ k.pc = "link" /\ k.rec = Malloc /\ k.incr = call[c].incr
    <3>1. call[c] \in CallState
      OBVIOUS
    <3>2. k \in CallState
      BY <2>1, <2>2, <3>1
    <3> QED BY <3>1, <3>2 DEF CallState
  <2>4. call' = [call EXCEPT ![c] = k] /\ recs' = [recs EXCEPT ![Malloc] = Fresh(call[c].id)]
    BY <1>2 DEF Bump
  <2> HIDE DEF k
  <2>5. ~Owns(call[c], Malloc)
    BY <2>1 DEF Owners, Free
  <2>6. Holds(k) /\ \A r \in Recs : Owns(k, r) => r = Malloc \/ Owns(call[c], r)
    BY <2>1, <2>3, <2>5 DEF Holds, Owns
  <2> QED BY <1>1, <2>1, <2>3, <2>4, <2>6, OwnersMalloc
<1>3. CASE Bump(c) /\ Free = {}
  <2>1. recs' = recs /\ call' = [call EXCEPT ![c] = Returned(c, 0)]
    BY <1>3 DEF Bump
  <2>2. Returned(c, 0) \in CallState
    BY BackupAssumption, ReturnedTyped DEF Ids
  <2>3. Holds(Returned(c, 0)) /\ \A r \in Recs : Owns(Returned(c, 0), r) => Owns(call[c], r)
    BY BackupAssumption DEF Holds, Owns, Returned, NoCall, CallState
  <2>4. \A t \in Threads : Busy(t)' => thread'[t].rec \in Recs
    BY <1>1 DEF Owners, Busy
  <2> QED BY <1>1, <2>1, <2>2, <2>3, <2>4, OwnersCall
<1>4. CASE c \in Callers /\ AskIncremental(c)
  <2> DEFINE p == IF inProgress THEN "insert" ELSE "take"
             k == [call[c] EXCEPT !.pc = p, !.incr = Malloc]
  <2>1. Malloc \in Free /\ Malloc \in Recs /\ p \in {"insert", "take"}
    BY <1>4, MallocIn DEF AskIncremental, Free
  <2>2. \A j \in CallState, r \in Recs, q \in {"insert", "take"} :
          [j EXCEPT !.pc = q, !.incr = r] \in CallState
    BY DEF CallState
  <2>3. k \in CallState /\ k.pc \in {"insert", "take"} /\ k.incr = Malloc
    <3> HIDE DEF p
    <3>1. call[c] \in CallState
      OBVIOUS
    <3>2. k \in CallState
      BY <2>1, <2>2, <3>1
    <3> QED BY <2>1, <3>1, <3>2 DEF CallState
  <2>4. call' = [call EXCEPT ![c] = k] /\ recs' = [recs EXCEPT ![Malloc] = Fresh(0)]
    BY <1>4 DEF AskIncremental
  <2> HIDE DEF k
  <2>5. Holds(k) /\ \A r \in Recs : Owns(k, r) => r = Malloc \/ Owns(call[c], r)
    BY <2>1, <2>3 DEF Holds, Owns
  <2> QED BY <1>1, <2>1, <2>3, <2>4, <2>5, OwnersMalloc
<1> QED BY <1>2, <1>3, <1>4

(* An incremental record stays its call's from "insert" to "enter". *)
LEMMA OwnersInsert ==
  ASSUME TypeInv, ~broken, NEW c \in Actors, Insert(c)
  PROVE  Listed' \cap Free' = {} /\ Owners'
<1> DEFINE x == call[c].incr
           k == [NoCall EXCEPT !.pc = "enter", !.rec = x, !.head = Head1]
<1> USE DEF TypeInv, Types
<1>1. x \in Recs
  BY DEF Insert, Owners, Holds
<1>2. Listed' = Listed /\ thread' = thread /\ call' = [call EXCEPT ![c] = k]
  BY DEF Insert, Listed
<1>3. k.pc = "enter" /\ k.rec = x /\ k.incr = None
  BY DEF NoCall
<1> HIDE DEF k
<1>4. \A d \in Actors : call'[d] = IF d = c THEN k ELSE call[d]
  BY <1>2
<1>5. \A r \in Recs : recs'[r].state = "UNUSED" => recs[r].state = "UNUSED"
  BY DEF Insert, Record
<1>6. \A d \in Actors, r \in Recs : Owns(call'[d], r) => Owns(call[d], r)
  BY <1>1, <1>3, <1>4, BackupAssumption DEF Owns
<1>7. \A d \in Actors : Holds(call'[d])
  BY <1>1, <1>3, <1>4 DEF Holds, Owners
<1>8. \A t \in Threads : Busy(t)' => thread'[t].rec \in Recs
  BY <1>2 DEF Owners, Busy
<1> QED BY <1>2, <1>5, <1>6, <1>7, <1>8, OwnersKept DEF Owns, Holds

----
(* The list *)

(* A call puts its own record into the list, and no longer owns it. *)
LEMMA LinkKeeps ==
  ASSUME TypeInv, ~broken, NEW c \in Actors, Link(c)
  PROVE  /\ list' \in Seq(Recs) /\ Distinct(list')
         /\ Listed' \cap Free' = {} /\ Owners'
<1> DEFINE x == call[c].rec
           k == IF call[c].pc = "link" THEN [call[c] EXCEPT !.pc = "flag"] ELSE NoCall
           s == From(call[c].head)
<1> USE DEF TypeInv, Types
<1>1. x \in Recs /\ Owns(call[c], x) /\ Holds(call[c]) /\ call[c] \in CallState
  BY DEF Link, Owners, Holds, Owns
<1>2. x \notin Listed /\ recs[x].state # "UNUSED" /\ \A d \in Actors \ {c} : ~Owns(call[d], x)
  BY <1>1 DEF Owners
<1>3. list' = <<x>> \o s /\ call' = [call EXCEPT ![c] = k] /\ recs' = recs /\ thread' = thread
  BY DEF Link
<1>4. s \in Seq(Recs) /\ Distinct(s) /\ Elems(s) \subseteq Listed
  BY FromSound
<1>5. Holds(k) /\ \A r \in Recs : Owns(k, r) => Owns(call[c], r) /\ r # x
  <2>1. CASE call[c].pc = "link"
    <3>1. k.pc = "flag" /\ k.rec = x /\ k.incr = call[c].incr
      BY <1>1, <2>1 DEF CallState
    <3> QED BY <1>1, <2>1, <3>1 DEF Holds, Owns
  <2>2. CASE call[c].pc # "link"
    BY <2>2, BackupAssumption DEF NoCall, Holds, Owns
  <2> QED BY <2>1, <2>2
<1> HIDE DEF k, s
<1>6. list' \in Seq(Recs) /\ Distinct(list') /\ Elems(list') = Elems(s) \cup {x}
  BY <1>1, <1>2, <1>3, <1>4, PrependSound
<1>7. Listed' \subseteq Listed \cup {x}
  BY <1>4, <1>6 DEF Listed, Elems
<1>8. Listed' \cap Free' = {}
  BY <1>2, <1>3, <1>7 DEF Free
<1>9. \A d \in Actors : call'[d] = IF d = c THEN k ELSE call[d]
  BY <1>3
<1>10. ASSUME NEW d \in Actors, NEW r \in Recs, Owns(call'[d], r)
       PROVE  /\ r \notin Listed' /\ recs'[r].state # "UNUSED"
              /\ \A e \in Actors \ {d} : ~Owns(call'[e], r)
  <2>1. Owns(call[d], r) /\ r # x
    BY <1>2, <1>5, <1>9, <1>10
  <2>2. r \notin Listed /\ recs[r].state # "UNUSED" /\ \A e \in Actors \ {d} : ~Owns(call[e], r)
    BY <2>1 DEF Owners
  <2>3. \A e \in Actors : Owns(call'[e], r) => Owns(call[e], r)
    BY <1>5, <1>9
  <2> QED BY <1>3, <1>7, <2>1, <2>2, <2>3
<1>11. \A d \in Actors : Holds(call'[d])
  BY <1>5, <1>9 DEF Owners
<1>12. \A t \in Threads : Busy(t)' => thread'[t].rec \in Recs
  BY <1>3 DEF Owners, Busy
<1>13. Owners'
  BY <1>10, <1>11, <1>12 DEF Owners, Owns, Holds
<1> QED BY <1>6, <1>8, <1>13

(* Records are freed as they leave the list, and no call owns those. *)
LEMMA OwnersFreed ==
  ASSUME TypeInv, ~broken, NEW gone \in SUBSET Listed,
         Listed' \subseteq Listed \ gone,
         \A r \in Recs : r \notin gone => recs'[r] = recs[r],
         call' = call,
         \A t \in Threads : Busy(t)' => thread'[t].rec \in Recs
  PROVE  Listed' \cap Free' = {} /\ Owners'
<1> USE DEF TypeInv, Types
<1>1. Listed' \cap Free' = {}
  BY DEF Free
<1>2. ASSUME NEW d \in Actors, NEW r \in Recs, Owns(call[d], r)
      PROVE  /\ r \notin Listed' /\ recs'[r].state # "UNUSED"
             /\ \A e \in Actors \ {d} : ~Owns(call[e], r)
  BY <1>2 DEF Owners
<1>3. \A d \in Actors : Holds(call[d])
  BY DEF Owners
<1> QED BY <1>1, <1>2, <1>3 DEF Owners, Owns, Holds

LEMMA DeleteKeeps ==
  ASSUME TypeInv, ~broken, NEW c \in Callers, Delete(c)
  PROVE  /\ list' \in Seq(Recs) /\ Distinct(list')
         /\ Listed' \cap Free' = {} /\ Owners'
<1> USE DEF TypeInv, Types
<1>1. PICK k \in DOMAIN list : /\ list' = RemoveAt(list, k)
                               /\ recs' = [recs EXCEPT ![list[k]] = Unused]
                               /\ \E p : thread' \in {thread, Unlinked(p)}
  BY DEF Delete
<1>2. /\ list' \in Seq(Recs) /\ Distinct(list')
      /\ Elems(list') = Elems(list) \ {list[k]}
  BY <1>1, RemoveSound
<1>3. Listed' \subseteq Listed \ {list[k]} /\ {list[k]} \subseteq Listed
  BY <1>2 DEF Listed, Elems
<1>4. \A r \in Recs : r \notin {list[k]} => recs'[r] = recs[r]
  BY <1>1
<1>5. \A t \in Threads : Busy(t)' => thread'[t].rec \in Recs
  BY <1>1, ThreadsKept
<1>6. call' = call
  BY DEF Delete
<1> QED BY <1>2, <1>3, <1>4, <1>5, <1>6, OwnersFreed

LEMMA DestroyKeeps ==
  ASSUME TypeInv, ~broken, Destroy
  PROVE  /\ list' \in Seq(Recs) /\ Distinct(list')
         /\ Listed' \cap Free' = {} /\ Owners'
<1> USE DEF TypeInv, Types
<1>1. list' = <<>> /\ call' = call /\ thread' = thread
  BY DEF Destroy
<1>2. Listed' = {}
  BY <1>1 DEF Listed
<1>3. \A r \in Recs : r \notin Listed => recs'[r] = recs[r]
  BY DEF Destroy
<1>4. \A t \in Threads : Busy(t)' => thread'[t].rec \in Recs
  BY <1>1 DEF Owners, Busy
<1>5. Listed' \cap Free' = {} /\ Owners'
  BY <1>1, <1>2, <1>3, <1>4, OwnersFreed
<1> QED BY <1>1, <1>5 DEF Distinct

(* No other step changes the list. *)
LEMMA ListKept ==
  ASSUME TypeInv, ~broken, Next,
         ~Destroy, \A c \in Actors : ~Link(c), \A c \in Callers : ~Delete(c)
  PROVE  list' = list
  BY DEF Next, CreateStep, ThreadStep, Ask, AskIncremental, Take, Bump, Flag, Spawn, Insert,
         Run, Open, Header, Rewrite, Mark, Verify, FreePath, SetPath, Schedule, AutoExit, Stop

----
(* The theorems *)

LEMMA TypeInvStep ==
  ASSUME TypeInv, [Next]_vars
  PROVE  TypeInv'
<1>1. CASE UNCHANGED vars
  BY <1>1 DEF vars, TypeInv, Types, Distinct, Listed, Free, Owners, Owns, Holds, Busy
<1>2. CASE Next
  <2>1. ~broken
    BY <1>2 DEF Next
  <2>2. Types'
    BY <1>2, <2>1, TypesStep
  <2>3. /\ list' \in Seq(Recs) /\ Distinct(list')
        /\ Listed' \cap Free' = {} /\ Owners'
    <3>1. CASE Destroy
      BY <2>1, <3>1, DestroyKeeps
    <3>2. ASSUME NEW c \in Actors, Link(c)
          PROVE  /\ list' \in Seq(Recs) /\ Distinct(list')
                 /\ Listed' \cap Free' = {} /\ Owners'
      BY <2>1, <3>2, LinkKeeps
    <3>3. ASSUME NEW c \in Callers, Delete(c)
          PROVE  /\ list' \in Seq(Recs) /\ Distinct(list')
                 /\ Listed' \cap Free' = {} /\ Owners'
      BY <2>1, <3>3, DeleteKeeps
    <3>4. CASE ~Destroy /\ (\A c \in Actors : ~Link(c)) /\ \A c \in Callers : ~Delete(c)
      <4>1. list' \in Seq(Recs) /\ Distinct(list')
        BY <1>2, <2>1, <3>4, ListKept DEF TypeInv
      <4>2. Listed' \cap Free' = {} /\ Owners'
        BY <1>2, <2>1, <3>4, OwnersThread, OwnersAsk, OwnersSpawn, OwnersPath, OwnersRest,
           OwnersAlloc, OwnersInsert DEF Next, CreateStep, Actors
      <4> QED BY <4>1, <4>2
    <3> QED BY <3>1, <3>2, <3>3, <3>4
  <2> QED BY <2>2, <2>3 DEF TypeInv, Distinct
<1> QED BY <1>1, <1>2

(* The types hold in every reachable state, the list has no record twice, and
   until something is undefined no record in it was freed. *)
THEOREM BackupTypes == Spec => []TypeOK
<1>1. Init => TypeInv
  BY TypeInvInit
<1>2. TypeInv /\ [Next]_vars => TypeInv'
  BY TypeInvStep
<1>3. TypeInv => TypeOK
  BY TypeInvIsEnough
<1> QED BY <1>1, <1>2, <1>3, PTL DEF Spec

----
(* The flag *)

(* A call begins nothing new: it goes on, returns, or changes the path. *)
LEMMA CallGoesOn ==
  ASSUME TypeInv, NEW c \in Actors,
         Take(c) \/ Bump(c) \/ Link(c) \/ Insert(c) \/ FreePath(c) \/ SetPath(c)
  PROVE  /\ UNCHANGED <<inProgress, thread, races>>
         /\ call[c].pc # "spawn" /\ call'[c].pc # "spawn"
         /\ \A d \in Actors \ {c} : call'[d] = call[d]
         /\ call'[c].pc \in {"take", "bump", "link", "flag"}
              => call[c].pc \in {"take", "bump", "link", "flag"}
         /\ call'[c].pc \in {"idle", "repath"} \/ Changing(c)
<1> USE DEF TypeInv, Types
<1>1. \A id : Returned(c, id).pc \in {"idle", "insert"}
  BY DEF Returned, NoCall
<1>2. call[c] \in CallState
  OBVIOUS
<1>3. CASE Take(c)
  <2>1. call'[c].pc \in {"bump", "idle", "insert"}
    <3>1. CASE nextId <= MaxId
      <4>1. call' = [call EXCEPT ![c] = [call[c] EXCEPT !.pc = "bump", !.id = nextId]]
        BY <1>3, <3>1 DEF Take
      <4> QED BY <1>2, <4>1 DEF CallState
    <3>2. CASE ~(nextId <= MaxId)
      BY <1>1, <1>3, <3>2 DEF Take
    <3> QED BY <3>1, <3>2
  <2> QED BY <1>3, <2>1 DEF Take, Changing
<1>4. CASE Bump(c)
  <2>1. call'[c].pc \in {"link", "idle", "insert"}
    <3>1. CASE Free # {}
      <4>1. call' = [call EXCEPT ![c] = [call[c] EXCEPT !.pc = "link", !.rec = Malloc, !.head = Head1]]
        BY <1>4, <3>1 DEF Bump
      <4> QED BY <1>2, <4>1 DEF CallState
    <3>2. CASE Free = {}
      BY <1>1, <1>4, <3>2 DEF Bump
    <3> QED BY <3>1, <3>2
  <2>2. \A d \in Actors \ {c} : call'[d] = call[d]
    BY <1>4 DEF Bump
  <2> QED BY <1>4, <2>1, <2>2 DEF Bump, Changing
<1>5. CASE Link(c)
  BY <1>2, <1>5 DEF Link, CallState, NoCall, Changing
<1>6. CASE Insert(c)
  <2> DEFINE k == [NoCall EXCEPT !.pc = "enter", !.rec = call[c].incr, !.head = Head1]
  <2>1. call' = [call EXCEPT ![c] = k]
    BY <1>6 DEF Insert
  <2>2. k.pc = "enter"
    BY DEF NoCall
  <2> HIDE DEF k
  <2> QED BY <1>6, <2>1, <2>2 DEF Insert, Changing
<1>7. CASE FreePath(c)
  BY <1>2, <1>7 DEF FreePath, Ready, CallState
<1>8. CASE SetPath(c)
  BY <1>8 DEF SetPath, NoCall
<1> QED BY <1>3, <1>4, <1>5, <1>6, <1>7, <1>8

(* A call that begins. *)
LEMMA CallBegins ==
  ASSUME TypeInv, NEW c \in Actors, Ask(c) \/ (c \in Callers /\ AskIncremental(c))
  PROVE  /\ UNCHANGED <<inProgress, thread>>
         /\ races' = races + Overlap(c)
         /\ call[c].pc = "idle"
         /\ \A d \in Actors \ {c} : call'[d] = call[d]
         /\ call'[c].pc = "insert" \/ (call'[c].pc = "take" /\ ~inProgress)
<1> USE DEF TypeInv, Types
<1>1. CASE Ask(c)
  BY <1>1 DEF Ask, Ready, CallState
<1>2. CASE AskIncremental(c)
  <2> DEFINE p == IF inProgress THEN "insert" ELSE "take"
  <2>1. call' = [call EXCEPT ![c] = [call[c] EXCEPT !.pc = p, !.incr = Malloc]]
    BY <1>2 DEF AskIncremental
  <2> HIDE DEF p
  <2>2. call[c] \in CallState
    OBVIOUS
  <2>3. call'[c].pc = p /\ \A d \in Actors \ {c} : call'[d] = call[d]
    BY <2>1, <2>2 DEF CallState
  <2> QED BY <1>2, <2>3 DEF AskIncremental, Ready, p
<1> QED BY <1>1, <1>2

(* The flag is set: a call is at "spawn". *)
LEMMA FlagSet ==
  ASSUME TypeInv, NEW c \in Actors, Flag(c)
  PROVE  /\ call[c].pc = "flag" /\ call'[c].pc = "spawn" /\ inProgress'
         /\ \A d \in Actors \ {c} : call'[d] = call[d]
         /\ UNCHANGED <<thread, races>>
  BY DEF Flag, TypeInv, Types, CallState

(* A thread is started, or the flag is cleared. *)
LEMMA Spawned ==
  ASSUME TypeInv, NEW c \in Actors, Spawn(c)
  PROVE  /\ call[c].pc = "spawn" /\ call'[c].pc \in {"idle", "insert"}
         /\ \A d \in Actors \ {c} : call'[d] = call[d]
         /\ races' = races
         /\ \/ ~inProgress' /\ thread' = thread
            \/ /\ inProgress' = inProgress
               /\ \E t \in Threads : /\ Busy(t)'
                                     /\ \A u \in Threads \ {t} : thread'[u] = thread[u]
<1> USE DEF TypeInv, Types
<1>1. PICK id : call' = [call EXCEPT ![c] = Returned(c, id)]
  BY DEF Spawn
<1>2. Returned(c, id).pc \in {"idle", "insert"}
  BY DEF Returned, NoCall
<1>3. \/ ~inProgress' /\ thread' = thread
      \/ /\ inProgress' = inProgress
         /\ \E t \in Threads :
               thread' = [thread EXCEPT ![t] = [NoThread EXCEPT !.pc = "run", !.rec = call[c].rec]]
  BY DEF Spawn
<1>4. ASSUME NEW t \in Threads,
             thread' = [thread EXCEPT ![t] = [NoThread EXCEPT !.pc = "run", !.rec = call[c].rec]]
      PROVE  Busy(t)' /\ \A u \in Threads \ {t} : thread'[u] = thread[u]
  BY <1>4 DEF Busy, NoThread
<1> QED BY <1>1, <1>2, <1>3, <1>4 DEF Spawn

(* A backup thread goes on, or ends and clears the flag. *)
LEMMA ThreadGoesOn ==
  ASSUME TypeInv, NEW t \in Threads, ThreadStep(t)
  PROVE  /\ UNCHANGED <<call, races>> /\ Busy(t)
         /\ \A u \in Threads \ {t} : thread'[u].pc = thread[u].pc
         /\ \/ inProgress' = inProgress /\ (\A u \in Threads : Busy(u)' <=> Busy(u))
            \/ ~inProgress' /\ ~Busy(t)'
<1> USE DEF TypeInv, Types, Busy
<1>1. CASE Run(t)
  BY <1>1, RunMoves
<1>2. CASE Open(t)
  BY <1>2, OpenMoves
<1>3. CASE Header(t)
  <2>1. UNCHANGED <<call, races>> /\ thread[t].pc = "header"
    BY <1>3 DEF Header
  <2>2. CASE thread' = [thread EXCEPT ![t].pc = "copy"] /\ inProgress' = inProgress
    BY <2>1, <2>2 DEF ThreadState
  <2>3. CASE thread' = [Unlinked(thread[t].path) EXCEPT ![t] = NoThread] /\ ~inProgress'
    BY <2>1, <2>3 DEF Unlinked, NoThread, ThreadState
  <2> QED BY <1>3, <2>2, <2>3 DEF Header, Fail
<1>4. CASE Rewrite(t)
  BY <1>4 DEF Rewrite, Fail, Ended, NoThread, ThreadState
<1>5. CASE Mark(t)
  BY <1>5 DEF Mark, Ended, NoThread, ThreadState
<1> QED BY <1>1, <1>2, <1>3, <1>4, <1>5 DEF ThreadStep

(* The other steps concern neither the flag nor a call, and no thread's
   progress. *)
LEMMA OthersStay ==
  ASSUME TypeInv,
         AutoExit \/ Destroy \/ \E c \in Callers : Verify(c) \/ Delete(c) \/ Schedule(c) \/ Stop(c)
  PROVE  /\ UNCHANGED <<inProgress, call>>
         /\ \A t \in Threads : Busy(t)' <=> Busy(t)
         /\ races' \in Nat /\ races' >= races
<1> USE DEF TypeInv, Types
<1>1. thread' = thread \/ \E p : thread' = Unlinked(p)
  BY DEF AutoExit, Destroy, Verify, Delete, Schedule, Stop
<1>2. \A t \in Threads : Busy(t)' <=> Busy(t)
  BY <1>1 DEF Unlinked, Busy, ThreadState
<1> QED BY <1>2 DEF AutoExit, Destroy, Verify, Delete, Schedule, Stop, Overlap

(* The steps, by what they do to the flag. *)
LEMMA NextSplit ==
  ASSUME Next
  PROVE  \/ \E c \in Actors :
               \/ Take(c) \/ Bump(c) \/ Link(c) \/ Insert(c) \/ FreePath(c) \/ SetPath(c)
               \/ Ask(c) \/ (c \in Callers /\ AskIncremental(c))
               \/ Flag(c) \/ Spawn(c)
         \/ \E t \in Threads : ThreadStep(t)
         \/ AutoExit \/ Destroy
         \/ \E c \in Callers : Verify(c) \/ Delete(c) \/ Schedule(c) \/ Stop(c)
  BY DEF Next, CreateStep, Actors

LEMMA FlagStep ==
  ASSUME TypeInv, FlagHonest, [Next]_vars
  PROVE  FlagHonest'
<1>1. CASE UNCHANGED vars
  BY <1>1 DEF vars, FlagHonest, Busy
<1>2. ASSUME NEW c \in Actors,
             Take(c) \/ Bump(c) \/ Link(c) \/ Insert(c) \/ FreePath(c) \/ SetPath(c)
      PROVE  FlagHonest'
  BY <1>2, CallGoesOn DEF FlagHonest, Busy
<1>3. ASSUME NEW c \in Actors, Ask(c) \/ (c \in Callers /\ AskIncremental(c))
      PROVE  FlagHonest'
  BY <1>3, CallBegins DEF FlagHonest, Busy
<1>4. ASSUME NEW c \in Actors, Flag(c) PROVE FlagHonest'
  BY <1>4, FlagSet DEF FlagHonest
<1>5. ASSUME NEW c \in Actors, Spawn(c) PROVE FlagHonest'
  BY <1>5, Spawned DEF FlagHonest
<1>6. ASSUME NEW t \in Threads, ThreadStep(t) PROVE FlagHonest'
  BY <1>6, ThreadGoesOn DEF FlagHonest
<1>7. CASE AutoExit \/ Destroy \/ \E c \in Callers : Verify(c) \/ Delete(c) \/ Schedule(c) \/ Stop(c)
  BY <1>7, OthersStay DEF FlagHonest
<1> QED BY <1>1, <1>2, <1>3, <1>4, <1>5, <1>6, <1>7, NextSplit

(* backup_in_progress is set only while a thread runs or a call is about to
   start one, however calls race and whatever fails: it cannot be left set,
   which would refuse every later backup. *)
THEOREM FlagCorrect == Spec => []FlagHonest
<1>1. Init => TypeInv /\ FlagHonest
  BY TypeInvInit DEF Init, FlagHonest
<1>2. TypeInv /\ FlagHonest /\ [Next]_vars => TypeInv' /\ FlagHonest'
  BY TypeInvStep, FlagStep
<1> QED BY <1>1, <1>2, PTL DEF Spec

----
(* One backup at a time *)

(* As long as no two calls that change the list or the flag overlapped: one
   such call at most is under way; before it sets the flag, and while a
   thread is being started, no thread runs; a thread that runs is the only
   one, and has the flag. *)
Solo ==
  /\ \A c, d \in Actors : Changing(c) /\ Changing(d) => c = d
  /\ \A c \in Actors : call[c].pc \in {"take", "bump", "link", "flag"} => ~inProgress
  /\ \A c \in Actors : call[c].pc = "spawn" => inProgress /\ \A t \in Threads : ~Busy(t)
  /\ \A t \in Threads : Busy(t) => inProgress /\ \A u \in Threads \ {t} : ~Busy(u)

LEMMA RacesGrow ==
  ASSUME TypeInv, [Next]_vars
  PROVE  races' = 0 => races = 0
<1> USE DEF TypeInv, Types
<1>1. CASE UNCHANGED vars
  BY <1>1 DEF vars
<1>2. ASSUME NEW c \in Actors,
             Ask(c) \/ (c \in Callers /\ AskIncremental(c))
      PROVE  races' = 0 => races = 0
  BY <1>2, CallBegins DEF Overlap
<1>3. CASE Next
  BY <1>2, <1>3, NextSplit, CallGoesOn, FlagSet, Spawned, ThreadGoesOn, OthersStay
<1> QED BY <1>1, <1>3

LEMMA SoloStep ==
  ASSUME TypeInv, Solo, [Next]_vars, races' = 0
  PROVE  Solo'
<1>1. CASE UNCHANGED vars
  BY <1>1 DEF vars, Solo, Changing, Busy
<1>2. ASSUME NEW c \in Actors,
             Take(c) \/ Bump(c) \/ Link(c) \/ Insert(c) \/ FreePath(c) \/ SetPath(c)
      PROVE  Solo'
  <2>1. \A d \in Actors : Changing(d)' => Changing(d)
    BY <1>2, CallGoesOn DEF Changing
  <2> QED BY <1>2, <2>1, CallGoesOn DEF Solo, Busy
<1>3. ASSUME NEW c \in Actors, Ask(c) \/ (c \in Callers /\ AskIncremental(c))
      PROVE  Solo'
  <2>1. Overlap(c) = 0
    BY <1>3, CallBegins DEF Overlap, TypeInv, Types
  <2>2. \A d \in Actors \ {c} : ~Changing(d)
    BY <2>1 DEF Overlap
  <2>3. \A d \in Actors : Changing(d)' => d = c
    BY <1>3, <2>2, CallBegins DEF Changing
  <2>4. \A d \in Actors : call'[d].pc \in {"take", "bump", "link", "flag"} => ~inProgress
    BY <1>3, CallBegins DEF Solo
  <2>5. \A d \in Actors : call'[d].pc # "spawn"
    BY <1>3, <2>2, CallBegins DEF Changing
  <2> QED BY <1>3, <2>3, <2>4, <2>5, CallBegins DEF Solo, Busy
<1>4. ASSUME NEW c \in Actors, Flag(c) PROVE Solo'
  <2>1. \A d \in Actors : Changing(d)' => d = c
    BY <1>4, FlagSet DEF Solo, Changing
  <2>2. \A t \in Threads : ~Busy(t)
    BY <1>4, FlagSet DEF Solo
  <2>3. \A d \in Actors : call'[d].pc \notin {"take", "bump", "link", "flag"}
    BY <1>4, <2>1, FlagSet DEF Changing
  <2> QED BY <1>4, <2>1, <2>2, <2>3, FlagSet DEF Solo, Busy
<1>5. ASSUME NEW c \in Actors, Spawn(c) PROVE Solo'
  <2>1. \A d \in Actors : Changing(d)' => d = c
    BY <1>5, Spawned DEF Solo, Changing
  <2>2. \A t \in Threads : ~Busy(t)
    BY <1>5, Spawned DEF Solo
  <2>3. \A d \in Actors : call'[d].pc \notin {"take", "bump", "link", "flag", "spawn"}
    BY <1>5, <2>1, Spawned DEF Changing
  <2>4. \A t \in Threads : Busy(t)' => inProgress' /\ \A u \in Threads \ {t} : ~Busy(u)'
    BY <1>5, <2>2, Spawned DEF Solo, Busy
  <2> QED BY <2>1, <2>3, <2>4 DEF Solo
<1>6. ASSUME NEW t \in Threads, ThreadStep(t) PROVE Solo'
  <2>1. \A u \in Threads : Busy(u)' => Busy(u)
    BY <1>6, ThreadGoesOn DEF Busy
  <2>2. \A c \in Actors : call[c].pc # "spawn"
    BY <1>6, ThreadGoesOn DEF Solo
  <2>3. \A u \in Threads \ {t} : ~Busy(u)
    BY <1>6, ThreadGoesOn DEF Solo
  <2> QED BY <1>6, <2>1, <2>2, <2>3, ThreadGoesOn DEF Solo, Changing
<1>7. CASE AutoExit \/ Destroy \/ \E c \in Callers : Verify(c) \/ Delete(c) \/ Schedule(c) \/ Stop(c)
  BY <1>7, OthersStay DEF Solo, Changing
<1> QED BY <1>1, <1>2, <1>3, <1>4, <1>5, <1>6, <1>7, NextSplit

(* Unless two calls that create or delete backups overlapped, one backup
   runs at a time, and while it does the flag refuses the next. *)
THEOREM OneBackup == Spec => []OneAtATime
<1> DEFINE Inv == TypeInv /\ (races = 0 => Solo)
<1>1. Init => Inv
  BY TypeInvInit DEF Init, Solo, Changing, Busy, NoCall, NoThread
<1>2. Inv /\ [Next]_vars => Inv'
  BY TypeInvStep, RacesGrow, SoloStep
<1>3. Inv => OneAtATime
  BY DEF Solo, OneAtATime
<1> QED BY <1>1, <1>2, <1>3, PTL DEF Spec

----
(* What is in the files *)

Full(r) == recs[r].type = "FULL"

(* A record gets its path when its thread runs: only one of a full backup
   does, and the path has its id. *)
Fits(r) ==
  /\ recs[r].path = None => recs[r].state \in {"UNUSED", "PENDING"}
  /\ recs[r].path # None => Full(r) /\ recs[r].path.id = recs[r].id

(* No two full backups in the list have one id. *)
RecsFine ==
  /\ \A r \in Recs : Fits(r)
  /\ \A r \in Listed : recs[r].id < nextId
  /\ \A r, q \in Listed : Full(r) /\ Full(q) /\ recs[r].id = recs[q].id => r = q

(* A record about to be put before the head the call has read. *)
Entering(k) ==
  /\ k.rec \in Recs /\ k.head = Head1
  /\ recs[k.rec].path = None /\ recs[k.rec].id < nextId

(* A call under way has an id nobody else has, and its records have no file
   yet. *)
CallFine(k) ==
  /\ k.pc = "bump" => k.id = nextId
  /\ k.pc # "bump" => k.id < nextId
  /\ k.pc = "link" => /\ Entering(k) /\ Full(k.rec)
                      /\ \A r \in Listed : Full(r) => recs[r].id # recs[k.rec].id
  /\ k.pc \in {"flag", "spawn"} =>
       k.rec \in Listed /\ Full(k.rec) /\ recs[k.rec].path = None
  /\ k.pc = "enter" => Entering(k) /\ ~Full(k.rec)
  /\ k.incr # None => recs[k.incr].path = None

(* A thread's record is in the list, not completed, and has the path of the
   file the thread writes, which is there from "header" on. *)
ThreadFine(k) ==
  /\ k.pc # "idle" => k.rec \in Listed /\ Full(k.rec) /\ recs[k.rec].state # "COMPLETED"
  /\ k.pc = "run" => recs[k.rec].path = None
  /\ k.pc \in {"open", "header", "copy", "mark"} =>
       k.path \in Paths /\ recs[k.rec].path = k.path
  /\ k.pc = "open" => files[k.path] = "absent"
  /\ k.pc \in {"header", "copy"} => k.linked /\ files[k.path] # "absent"
  /\ k.pc = "mark" => files[k.path] = "COMPLETED"

FilesFine ==
  /\ life # "down" => \A p \in Paths :
       files[p] # "absent" => \E r \in Listed : recs[r].path = p
  /\ \A r \in Listed :
       /\ recs[r].state = "COMPLETED" => files[recs[r].path] = "COMPLETED"
       /\ recs[r].state = "VERIFIED" => files[recs[r].path] # "absent"

(* After the shutdown nothing is left to go on. *)
DownFine ==
  life = "down" => list = <<>> /\ ~auto.lives /\ \A c \in Actors : call[c].pc = "idle"

Kept ==
  /\ RecsFine
  /\ \A c \in Actors : CallFine(call[c])
  /\ \A t \in Threads : ThreadFine(thread[t])
  /\ FilesFine
  /\ DownFine

(* As long as no calls overlapped and nothing is undefined. *)
Live == TypeInv /\ ~broken /\ Solo /\ Kept

(* Two records in the list do not share a path. *)
LEMMA PathOnce ==
  ASSUME RecsFine, NEW r \in Listed, NEW q \in Listed, Listed \subseteq Recs,
         recs[r].path = recs[q].path, recs[q].path # None
  PROVE  r = q
  BY DEF RecsFine, Fits

LEMMA ListedIn == TypeInv => Listed \subseteq Recs
  BY DEF TypeInv, Listed

(* Nothing goes on after the shutdown. *)
LEMMA StillUp ==
  ASSUME Live, Next
  PROVE  life # "down"
<1> SUFFICES ASSUME life = "down" PROVE FALSE
  OBVIOUS
<1>1. list = <<>> /\ ~auto.lives /\ \A c \in Actors : call[c].pc = "idle"
  BY DEF Live, Kept, DownFine
<1>2. Listed = {}
  BY <1>1 DEF Listed
<1>3. \A t \in Threads : ~Busy(t)
  BY <1>2 DEF Live, Kept, ThreadFine, Busy
<1>4. \A c \in Actors : ~Ready(c) /\ ~Ask(c) /\ ~CreateStep(c) /\ ~SetPath(c)
  BY <1>1 DEF Ready, Ask, CreateStep, Take, Bump, Link, Flag, Spawn, Insert, SetPath
<1>5. \A c \in Callers : ~AskIncremental(c) /\ ~Verify(c) /\ ~Delete(c) /\ ~FreePath(c)
                         /\ ~Schedule(c) /\ ~Stop(c) /\ ~SetPath(c)
  BY <1>4 DEF Actors, AskIncremental, Verify, Delete, FreePath, Schedule, Stop
<1>6. \A t \in Threads : ~ThreadStep(t)
  BY <1>3 DEF ThreadStep, Run, Open, Header, Rewrite, Mark, Busy
<1> QED BY <1>1, <1>4, <1>5, <1>6 DEF Next, AutoExit, Destroy

(* The step of a thread: it writes to its own record and its own file. *)
LEMMA ThreadKeeps ==
  ASSUME Live, life # "down", NEW t \in Threads, Busy(t), NEW r \in Recs, r = thread[t].rec,
         UNCHANGED <<list, nextId, call, life>>,
         \A q \in Recs \ {r} : recs'[q] = recs[q],
         recs'[r].type = recs[r].type, recs'[r].id = recs[r].id,
         recs'[r].path \in Paths, recs'[r].path.id = recs[r].id,
         \A u \in Threads \ {t} : thread'[u].pc = thread[u].pc,
         ThreadFine(thread[t])', FilesFine'
  PROVE  Kept'
<1> USE DEF Live, Kept
<1>1. Listed' = Listed /\ Head1' = Head1 /\ Listed \subseteq Recs
  BY ListedIn DEF Listed, Head1
<1>2. r \in Listed /\ Full(r)
  BY DEF ThreadFine, Busy
<1>3. RecsFine'
  <2>1. \A q \in Recs : recs'[q].type = recs[q].type /\ recs'[q].id = recs[q].id
    OBVIOUS
  <2>2. \A q \in Recs : Fits(q)'
    BY <1>2, BackupAssumption DEF RecsFine, Fits, Full
  <2> QED BY <1>1, <2>1, <2>2 DEF RecsFine, Full
<1>4. ASSUME NEW c \in Actors PROVE CallFine(call[c])'
  <2>1. call[c].pc \notin {"take", "bump", "link", "flag", "spawn"} /\ call[c] \in CallState
    BY DEF Solo, TypeInv, Types
  <2>2. \A q \in Recs : Owns(call[c], q) => recs'[q] = recs[q]
    BY <1>2 DEF TypeInv, Owners
  <2>3. call[c].incr # None => recs'[call[c].incr] = recs[call[c].incr]
    BY <2>1, <2>2 DEF CallState, Owns
  <2>4. call[c].pc = "enter" => recs'[call[c].rec] = recs[call[c].rec]
    BY <2>2 DEF CallFine, Entering, Owns
  <2> QED BY <1>1, <2>1, <2>3, <2>4 DEF CallFine, Entering, Full
<1>5. ASSUME NEW u \in Threads PROVE ThreadFine(thread[u])'
  <2>1. u # t => thread'[u].pc = "idle"
    BY DEF Solo, Busy
  <2> QED BY <2>1 DEF ThreadFine
<1> QED BY <1>3, <1>4, <1>5 DEF DownFine

LEMMA FilesKept ==
  ASSUME Live, life # "down", NEW r \in Listed, NEW p \in Paths, recs[r].path = p,
         UNCHANGED <<list, life>>,
         \A q \in Recs \ {r} : recs'[q] = recs[q],
         recs'[r].path = p,
         \A q \in Paths \ {p} : files'[q] = files[q],
         recs'[r].state = "COMPLETED" => files'[p] = "COMPLETED",
         recs'[r].state = "VERIFIED" => files'[p] # "absent"
  PROVE  FilesFine'
<1> USE DEF Live, Kept
<1>1. Listed' = Listed /\ Listed \subseteq Recs /\ p # None
  BY ListedIn, BackupAssumption DEF Listed
<1>2. ASSUME NEW q \in Paths, files'[q] # "absent" PROVE \E s \in Listed : recs'[s].path = q
  <2>1. CASE q = p
    BY <2>1
  <2>2. CASE q # p
    <3>1. PICK s \in Listed : recs[s].path = q
      BY <1>2, <2>2 DEF FilesFine
    <3> QED BY <1>1, <2>2, <3>1
  <2> QED BY <2>1, <2>2
<1>3. ASSUME NEW s \in Listed, s # r
      PROVE  /\ recs'[s].state = "COMPLETED" => files'[recs'[s].path] = "COMPLETED"
             /\ recs'[s].state = "VERIFIED" => files'[recs'[s].path] # "absent"
  <2>1. recs'[s] = recs[s] /\ recs[s].path # p
    BY <1>1, <1>3, PathOnce
  <2>2. recs[s].state \in {"COMPLETED", "VERIFIED"} => recs[s].path \in Paths
    <3>1. recs[s] \in Record /\ Fits(s)
      BY <1>1 DEF TypeInv, Types, RecsFine
    <3> QED BY <3>1 DEF Record, Fits
  <2> QED BY <2>1, <2>2 DEF FilesFine
<1> QED BY <1>1, <1>2, <1>3 DEF FilesFine

(* A call that goes on while no other can get in its way, or that only
   changes the path. *)
LEMMA CallKeeps ==
  ASSUME Live, life # "down", life' # "down", NEW c \in Actors,
         UNCHANGED <<list, files, thread>>,
         \A d \in Actors \ {c} : call'[d] = call[d],
         \/ UNCHANGED <<recs, nextId>>
         \/ \A d \in Actors \ {c} : ~Changing(d),
         nextId' \in Int, nextId' >= nextId,
         \A r \in Listed : recs'[r] = recs[r],
         \A r \in Recs : Fits(r)',
         CallFine(call[c])'
  PROVE  Kept'
<1> USE DEF Live, Kept
<1>1. Listed' = Listed /\ Head1' = Head1 /\ Listed \subseteq Recs
  BY ListedIn DEF Listed, Head1
<1>2. nextId \in Int /\ \A r \in Recs : recs[r].id \in Int
  BY DEF TypeInv, Types, Record, Ids
<1>3. RecsFine'
  <2>1. \A r \in Listed : recs'[r].id < nextId'
    BY <1>1, <1>2 DEF RecsFine
  <2> QED BY <1>1, <2>1 DEF RecsFine, Full
<1>4. ASSUME NEW d \in Actors PROVE CallFine(call[d])'
  <2>1. CASE d = c
    BY <2>1
  <2>2. CASE d # c /\ UNCHANGED <<recs, nextId>>
    BY <1>1, <2>2 DEF CallFine, Entering, Full
  <2>3. CASE d # c /\ ~Changing(d)
    <3>1. call'[d] = call[d] /\ call[d].pc \in {"idle", "repath"}
      BY <2>3 DEF Changing
    <3>2. call[d].incr = None /\ call[d].id \in Int
      BY <3>1 DEF TypeInv, Types, Owners, Holds, CallState, Ids
    <3> QED BY <1>2, <3>1, <3>2 DEF CallFine
  <2> QED BY <2>1, <2>2, <2>3
<1>5. \A u \in Threads : ThreadFine(thread[u])'
  BY <1>1 DEF ThreadFine, Full
<1>6. FilesFine'
  BY <1>1 DEF FilesFine
<1> QED BY <1>3, <1>4, <1>5, <1>6 DEF DownFine

(* What is known of the record of a thread that runs. *)
LEMMA ThreadsRecord ==
  ASSUME Live, NEW t \in Threads, Busy(t)
  PROVE  /\ thread[t].rec \in Recs /\ thread[t].rec \in Listed /\ Full(thread[t].rec)
         /\ recs[thread[t].rec] \in Record /\ recs[thread[t].rec].state # "COMPLETED"
         /\ thread[t] \in ThreadState
         /\ \A u \in Threads \ {t} : thread[u].pc = "idle"
  BY ListedIn DEF Live, Kept, ThreadFine, Busy, TypeInv, Types, Solo

(* The thread writes a state into its record, or leaves it. *)
LEMMA StateWritten ==
  ASSUME Live, NEW r \in Recs, NEW st,
         recs' = [recs EXCEPT ![r].state = st]
  PROVE  /\ \A q \in Recs \ {r} : recs'[q] = recs[q]
         /\ recs'[r].type = recs[r].type /\ recs'[r].id = recs[r].id
         /\ recs'[r].path = recs[r].path /\ recs'[r].state = st
  BY DEF Live, TypeInv, Types, Record

LEMMA RunKeeps ==
  ASSUME Live, life # "down", NEW t \in Threads, Run(t), ~broken'
  PROVE  Kept'
<1> DEFINE r == thread[t].rec
           p == [dir |-> storage, id |-> recs[r].id]
<1> USE DEF Live, Kept
<1>1. /\ Busy(t) /\ r \in Recs /\ r \in Listed /\ Full(r) /\ recs[r] \in Record
      /\ recs[r].path = None /\ Listed \subseteq Recs
      /\ thread[t] \in ThreadState /\ \A u \in Threads \ {t} : thread[u].pc = "idle"
  BY ThreadsRecord, ListedIn DEF Run, Busy, ThreadFine
<1>2. /\ recs' = [recs EXCEPT ![r].state = "RUNNING", ![r].path = p]
      /\ thread' = [thread EXCEPT ![t].pc = "open", ![t].path = p]
      /\ UNCHANGED <<list, nextId, files, call, auto, life>> /\ storage # None
  BY DEF Run
<1>3. p \in Paths /\ p.id = recs[r].id
  BY <1>1, <1>2 DEF TypeInv, Types, Record, Paths
<1> HIDE DEF p
<1>4. /\ \A q \in Recs \ {r} : recs'[q] = recs[q]
      /\ recs'[r].type = recs[r].type /\ recs'[r].id = recs[r].id
      /\ recs'[r].path = p /\ recs'[r].state = "RUNNING"
  BY <1>1, <1>2 DEF TypeInv, Types, Record
<1>5. /\ \A u \in Threads \ {t} : thread'[u] = thread[u]
      /\ thread'[t].pc = "open" /\ thread'[t].path = p /\ thread'[t].rec = r
  BY <1>1, <1>2 DEF TypeInv, Types, ThreadState
<1>6. files[p] = "absent"
  <2>1. SUFFICES ASSUME files[p] # "absent" PROVE FALSE
    OBVIOUS
  <2>2. PICK q \in Listed : recs[q].path = p
    BY <1>3, <2>1 DEF FilesFine
  <2>3. Full(q) /\ recs[q].id = recs[r].id
    BY <1>1, <1>3, <2>2, BackupAssumption DEF RecsFine, Fits
  <2>4. q = r
    BY <1>1, <2>3 DEF RecsFine
  <2> QED BY <1>1, <1>3, <2>2, <2>4, BackupAssumption
<1>7. Listed' = Listed
  BY <1>2 DEF Listed
<1>8. ThreadFine(thread[t])'
  <2>1. recs'[r].type = "FULL" /\ files'[p] = "absent" /\ recs'[r].state # "COMPLETED"
    BY <1>1, <1>2, <1>4, <1>6 DEF Full
  <2> HIDE DEF r
  <2> QED BY <1>1, <1>3, <1>4, <1>5, <1>7, <2>1 DEF ThreadFine, Full
<1>9. FilesFine'
  <2>1. ASSUME NEW q \in Paths, files[q] # "absent" PROVE \E s \in Listed : recs'[s].path = q
    <3>1. PICK s \in Listed : recs[s].path = q
      BY <2>1 DEF FilesFine
    <3>2. s # r /\ s \in Recs
      BY <1>1, <3>1, BackupAssumption
    <3> QED BY <1>4, <3>1, <3>2
  <2>2. ASSUME NEW s \in Listed
        PROVE  /\ recs'[s].state = "COMPLETED" => files[recs'[s].path] = "COMPLETED"
               /\ recs'[s].state = "VERIFIED" => files[recs'[s].path] # "absent"
    BY <1>1, <1>4 DEF FilesFine
  <2> QED BY <1>2, <1>7, <2>1, <2>2 DEF FilesFine
<1> HIDE DEF r
<1>10. thread[t].rec = r
  BY DEF r
<1> QED BY <1>1, <1>2, <1>3, <1>4, <1>5, <1>8, <1>9, <1>10, ThreadKeeps

(* A thread is through, or goes on with its record and its file. *)
Onward(k, r, p, st, x) ==
  \/ k.pc = "idle"
  \/ /\ k.rec = r /\ k.path = p /\ st # "COMPLETED"
     /\ \/ k.pc \in {"header", "copy"} /\ k.linked /\ x # "absent"
        \/ k.pc = "mark" /\ x = "COMPLETED"

(* The other steps of a thread end with its record in state st, its file with
   contents x, and the thread itself in state k. *)
LEMMA WritingKeeps ==
  ASSUME Live, life # "down", NEW t \in Threads,
         thread[t].pc \in {"open", "header", "copy", "mark"},
         NEW r \in Recs, r = thread[t].rec, NEW p \in Paths, p = thread[t].path,
         NEW st, recs' = [recs EXCEPT ![r].state = st],
         NEW x, files' = [files EXCEPT ![p] = x],
         UNCHANGED <<list, nextId, call, life>>,
         \A u \in Threads \ {t} : thread'[u].pc = thread[u].pc,
         Onward(thread'[t], r, p, st, x),
         st = "COMPLETED" => x = "COMPLETED",
         st = "VERIFIED" => x # "absent"
  PROVE  Kept'
<1> USE DEF Live, Kept
<1>1. Busy(t) /\ r \in Listed /\ Full(r)
  BY ThreadsRecord DEF Busy
<1>2. recs[r].path = p
  BY DEF ThreadFine
<1>3. /\ \A q \in Recs \ {r} : recs'[q] = recs[q]
      /\ recs'[r].type = recs[r].type /\ recs'[r].id = recs[r].id
      /\ recs'[r].path = p /\ recs'[r].state = st
  BY <1>2, StateWritten
<1>4. files'[p] = x /\ \A q \in Paths \ {p} : files'[q] = files[q]
  BY DEF TypeInv, Types
<1>5. recs[r].path.id = recs[r].id
  BY <1>2, BackupAssumption DEF RecsFine, Fits
<1>6. Listed' = Listed
  BY DEF Listed
<1>7. ThreadFine(thread[t])'
  BY <1>1, <1>3, <1>4, <1>6 DEF ThreadFine, Full, Onward
<1>8. FilesFine'
  BY <1>1, <1>2, <1>3, <1>4, FilesKept
<1> QED BY <1>1, <1>2, <1>3, <1>5, <1>7, <1>8, ThreadKeeps

(* A record is as it was written last, a file too. *)
LEMMA SameState ==
  ASSUME TypeInv, NEW r \in Recs
  PROVE  recs = [recs EXCEPT ![r].state = recs[r].state]
  BY DEF TypeInv, Types, Record

LEMMA SameFile ==
  ASSUME TypeInv, NEW p
  PROVE  files = [files EXCEPT ![p] = files[p]]
  BY DEF TypeInv, Types

LEMMA OpenKeeps ==
  ASSUME Live, life # "down", NEW t \in Threads, Open(t)
  PROVE  Kept'
<1> DEFINE r == thread[t].rec
           p == thread[t].path
<1>1. /\ Busy(t) /\ thread[t].pc = "open" /\ UNCHANGED <<list, nextId, call, life>>
  BY DEF Open, Busy
<1>2. /\ r \in Recs /\ recs[r] \in Record /\ recs[r].state # "COMPLETED"
      /\ thread[t] \in ThreadState /\ TypeInv
  BY <1>1, ThreadsRecord DEF Live
<1>3. p \in Paths
  BY <1>1 DEF Live, Kept, ThreadFine
<1>4. CASE /\ files' = [files EXCEPT ![p] = "empty"]
           /\ thread' = [thread EXCEPT ![t].pc = "header", ![t].linked = TRUE]
           /\ recs' = recs
  <2>1. recs' = [recs EXCEPT ![r].state = recs[r].state]
    BY <1>2, <1>4, SameState
  <2>2. /\ \A u \in Threads \ {t} : thread'[u] = thread[u]
        /\ thread'[t].pc = "header" /\ thread'[t].linked
        /\ thread'[t].rec = r /\ thread'[t].path = p
    BY <1>2, <1>4 DEF TypeInv, Types, ThreadState
  <2>4. Onward(thread'[t], r, p, recs[r].state, "empty")
    BY <1>2, <2>2 DEF Onward
  <2> HIDE DEF r, p
  <2>3. r = thread[t].rec /\ p = thread[t].path
    BY DEF r, p
  <2> QED BY <1>1, <1>2, <1>3, <1>4, <2>1, <2>2, <2>3, <2>4, WritingKeeps
<1>5. CASE Fail(t) /\ Ended(t) /\ files' = files
  <2>1. files' = [files EXCEPT ![p] = files[p]] /\ recs' = [recs EXCEPT ![r].state = "FAILED"]
    BY <1>2, <1>5, SameFile DEF Fail, Write
  <2>2. thread'[t].pc = "idle" /\ \A u \in Threads \ {t} : thread'[u].pc = thread[u].pc
    BY <1>2, <1>5 DEF Ended, NoThread, TypeInv, Types
  <2>4. Onward(thread'[t], r, p, "FAILED", files[p])
    BY <2>2 DEF Onward
  <2> HIDE DEF r, p
  <2>3. r = thread[t].rec /\ p = thread[t].path
    BY DEF r, p
  <2> QED BY <1>1, <1>2, <1>3, <2>1, <2>2, <2>3, <2>4, WritingKeeps
<1> QED BY <1>4, <1>5 DEF Open

LEMMA HeaderKeeps ==
  ASSUME Live, life # "down", NEW t \in Threads, Header(t)
  PROVE  Kept'
<1> DEFINE r == thread[t].rec
           p == thread[t].path
<1>1. /\ Busy(t) /\ thread[t].pc = "header" /\ UNCHANGED <<list, nextId, call, life>>
  BY DEF Header, Busy
<1>2. /\ r \in Recs /\ recs[r] \in Record /\ recs[r].state # "COMPLETED"
      /\ thread[t] \in ThreadState /\ TypeInv
  BY <1>1, ThreadsRecord DEF Live
<1>3. p \in Paths /\ thread[t].linked
  BY <1>1 DEF Live, Kept, ThreadFine
<1>4. CASE /\ files' = Written(t, "RUNNING")
           /\ thread' = [thread EXCEPT ![t].pc = "copy"]
           /\ recs' = recs
  <2>1. recs' = [recs EXCEPT ![r].state = recs[r].state] /\ files' = [files EXCEPT ![p] = "RUNNING"]
    BY <1>2, <1>3, <1>4, SameState DEF Written
  <2>2. /\ \A u \in Threads \ {t} : thread'[u] = thread[u]
        /\ thread'[t].pc = "copy" /\ thread'[t].linked
        /\ thread'[t].rec = r /\ thread'[t].path = p
    BY <1>2, <1>3, <1>4 DEF TypeInv, Types, ThreadState
  <2>4. Onward(thread'[t], r, p, recs[r].state, "RUNNING")
    BY <1>2, <2>2 DEF Onward
  <2> HIDE DEF r, p
  <2>3. r = thread[t].rec /\ p = thread[t].path
    BY DEF r, p
  <2> QED BY <1>1, <1>2, <1>3, <2>1, <2>2, <2>3, <2>4, WritingKeeps
<1>5. CASE /\ files' = [files EXCEPT ![p] = "absent"]
           /\ thread' = [Unlinked(p) EXCEPT ![t] = NoThread]
           /\ Fail(t)
  <2>1. recs' = [recs EXCEPT ![r].state = "FAILED"] /\ files' = [files EXCEPT ![p] = "absent"]
    BY <1>5 DEF Fail, Write
  <2>2. thread'[t].pc = "idle" /\ \A u \in Threads \ {t} : thread'[u].pc = thread[u].pc
    BY <1>2, <1>5 DEF Unlinked, NoThread, TypeInv, Types, ThreadState
  <2>4. Onward(thread'[t], r, p, "FAILED", "absent")
    BY <2>2 DEF Onward
  <2> HIDE DEF r, p
  <2>3. r = thread[t].rec /\ p = thread[t].path
    BY DEF r, p
  <2> QED BY <1>1, <1>2, <1>3, <2>1, <2>2, <2>3, <2>4, WritingKeeps
<1> QED BY <1>4, <1>5 DEF Header

LEMMA RewriteKeeps ==
  ASSUME Live, life # "down", NEW t \in Threads, Rewrite(t)
  PROVE  Kept'
<1> DEFINE r == thread[t].rec
           p == thread[t].path
<1>1. /\ Busy(t) /\ thread[t].pc = "copy" /\ UNCHANGED <<list, nextId, call, life>>
  BY DEF Rewrite, Busy
<1>2. /\ r \in Recs /\ recs[r] \in Record /\ recs[r].state # "COMPLETED"
      /\ thread[t] \in ThreadState /\ TypeInv
  BY <1>1, ThreadsRecord DEF Live
<1>3. p \in Paths /\ thread[t].linked
  BY <1>1 DEF Live, Kept, ThreadFine
<1>4. CASE /\ files' = Written(t, "COMPLETED")
           /\ thread' = [thread EXCEPT ![t].pc = "mark"]
           /\ recs' = recs
  <2>1. recs' = [recs EXCEPT ![r].state = recs[r].state] /\ files' = [files EXCEPT ![p] = "COMPLETED"]
    BY <1>2, <1>3, <1>4, SameState DEF Written
  <2>2. /\ \A u \in Threads \ {t} : thread'[u] = thread[u]
        /\ thread'[t].pc = "mark"
        /\ thread'[t].rec = r /\ thread'[t].path = p
    BY <1>2, <1>3, <1>4 DEF TypeInv, Types, ThreadState
  <2>4. Onward(thread'[t], r, p, recs[r].state, "COMPLETED")
    BY <1>2, <2>2 DEF Onward
  <2> HIDE DEF r, p
  <2>3. r = thread[t].rec /\ p = thread[t].path
    BY DEF r, p
  <2> QED BY <1>1, <1>2, <1>3, <2>1, <2>2, <2>3, <2>4, WritingKeeps
<1>5. ASSUME NEW x \in {"RUNNING", "torn"}, files' = Written(t, x), Ended(t), Fail(t)
      PROVE  Kept'
  <2>1. recs' = [recs EXCEPT ![r].state = "FAILED"] /\ files' = [files EXCEPT ![p] = x]
    BY <1>3, <1>5 DEF Fail, Write, Written
  <2>2. thread'[t].pc = "idle" /\ \A u \in Threads \ {t} : thread'[u] = thread[u]
    BY <1>2, <1>5 DEF Ended, NoThread, TypeInv, Types
  <2>4. Onward(thread'[t], r, p, "FAILED", x)
    BY <2>2 DEF Onward
  <2> HIDE DEF r, p
  <2>3. r = thread[t].rec /\ p = thread[t].path
    BY DEF r, p
  <2> QED BY <1>1, <1>2, <1>3, <2>1, <2>2, <2>3, <2>4, WritingKeeps
<1> QED BY <1>4, <1>5 DEF Rewrite

LEMMA MarkKeeps ==
  ASSUME Live, life # "down", NEW t \in Threads, Mark(t)
  PROVE  Kept'
<1> DEFINE r == thread[t].rec
           p == thread[t].path
<1>1. /\ Busy(t) /\ thread[t].pc = "mark" /\ UNCHANGED <<list, nextId, call, life>>
      /\ files' = files /\ Ended(t)
  BY DEF Mark, Busy
<1>2. r \in Recs /\ thread[t] \in ThreadState /\ TypeInv
  BY <1>1, ThreadsRecord DEF Live
<1>3. p \in Paths /\ files[p] = "COMPLETED"
  BY <1>1 DEF Live, Kept, ThreadFine
<1>4. recs' = [recs EXCEPT ![r].state = "COMPLETED"] /\ files' = [files EXCEPT ![p] = "COMPLETED"]
  BY <1>1, <1>2, <1>3, SameFile DEF Mark, Write
<1>5. thread'[t].pc = "idle" /\ \A u \in Threads \ {t} : thread'[u] = thread[u]
  BY <1>1, <1>2 DEF Ended, NoThread, TypeInv, Types
<1>7. Onward(thread'[t], r, p, "COMPLETED", "COMPLETED")
  BY <1>5 DEF Onward
<1> HIDE DEF r, p
<1>6. r = thread[t].rec /\ p = thread[t].path
  BY DEF r, p
<1> QED BY <1>1, <1>2, <1>3, <1>4, <1>5, <1>6, <1>7, WritingKeeps

(* Steps that change neither records, files, threads nor calls. *)
LEMMA QuietKeeps ==
  ASSUME Live, UNCHANGED <<recs, list, nextId, files, thread, call>>, life # "down", life' # "down"
  PROVE  Kept'
  BY DEF Live, Kept, RecsFine, CallFine, ThreadFine, FilesFine, DownFine, Fits, Full, Listed,
         Entering, Head1

(* Records that stay as they are fit, whatever happens to the others. *)
LEMMA FitKept ==
  ASSUME Live, NEW r \in Recs, recs'[r] = recs[r]
  PROVE  Fits(r)'
  BY DEF Live, Kept, RecsFine, Fits, Full

LEMMA CallTyped ==
  ASSUME Live, NEW c \in Actors
  PROVE  /\ call[c] \in CallState /\ call[c].id \in Int /\ nextId \in Int /\ nextId >= 1
         /\ call[c].pc = "idle" => call[c].incr = None
         /\ call[c].incr # None =>
              /\ call[c].incr \in Recs /\ call[c].incr \notin Listed
              /\ recs[call[c].incr].state # "UNUSED" /\ recs[call[c].incr].path = None
<1>1. call[c] \in CallState /\ call[c].id \in Int /\ nextId \in Int /\ nextId >= 1
  BY BackupAssumption DEF Live, TypeInv, Types, CallState, Ids
<1>2. call[c].incr # None => call[c].incr \in Recs
  BY <1>1 DEF CallState
<1>3. call[c].incr # None => Owns(call[c], call[c].incr)
  BY <1>2 DEF Owns
<1>4. Owners /\ CallFine(call[c]) /\ Holds(call[c])
  BY DEF Live, TypeInv, Kept, Owners
<1> QED BY <1>1, <1>2, <1>3, <1>4 DEF Owners, CallFine, Holds

(* A full backup returns to the incremental one, or to its caller. *)
LEMMA ReturnFine ==
  ASSUME Live, NEW c \in Actors, NEW id \in Int, id < nextId', 0 < nextId',
         call' = [call EXCEPT ![c] = Returned(c, id)],
         call[c].incr # None => recs'[call[c].incr].path = None
  PROVE  CallFine(call[c])' /\ \A d \in Actors \ {c} : call'[d] = call[d]
<1>1. call'[c] = Returned(c, id) /\ \A d \in Actors \ {c} : call'[d] = call[d]
  BY DEF Live, TypeInv, Types
<1>2. CASE call[c].incr = None
  <2>1. call'[c] = NoCall
    BY <1>1, <1>2 DEF Returned
  <2> QED BY <1>1, <2>1 DEF CallFine, NoCall
<1>3. CASE call[c].incr # None
  <2>1. call'[c].pc = "insert" /\ call'[c].id = id /\ call'[c].incr = call[c].incr
    <3>1. Returned(c, id) = [pc |-> "insert", id |-> id, rec |-> None, head |-> None,
                             incr |-> call[c].incr]
      BY <1>3 DEF Returned, NoCall
    <3> QED BY <1>1, <3>1
  <2> QED BY <1>1, <1>3, <2>1 DEF CallFine
<1> QED BY <1>2, <1>3

(* While a call changes the list or the flag no other does. *)
LEMMA OneChanges ==
  ASSUME Live, NEW c \in Actors, Changing(c)
  PROVE  \A d \in Actors \ {c} : ~Changing(d)
  BY DEF Live, Solo

LEMMA AskKeeps ==
  ASSUME Live, life # "down", NEW c \in Actors, Ask(c) \/ Flag(c) \/ FreePath(c) \/ SetPath(c)
  PROVE  Kept'
<1>1. /\ UNCHANGED <<list, files, thread, recs, nextId, life>>
  BY DEF Ask, Flag, FreePath, SetPath
<1>2. call[c] \in CallState /\ nextId \in Int /\ nextId >= 1 /\ CallFine(call[c])
  BY CallTyped DEF Live, Kept
<1>3. CASE SetPath(c)
  <2>1. call'[c] = NoCall /\ \A d \in Actors \ {c} : call'[d] = call[d]
    BY <1>3 DEF SetPath, Live, TypeInv, Types
  <2>2. CallFine(call[c])'
    BY <1>1, <1>2, <2>1 DEF CallFine, NoCall
  <2>3. \A r \in Recs : Fits(r)'
    BY <1>1, FitKept
  <2> QED BY <1>1, <1>2, <2>1, <2>2, <2>3, CallKeeps
<1>4. CASE Ask(c) \/ Flag(c) \/ FreePath(c)
  <2>1. PICK p \in {"take", "spawn", "repath"} :
          /\ call' = [call EXCEPT ![c] = [call[c] EXCEPT !.pc = p]]
          /\ call[c].pc = IF p = "spawn" THEN "flag" ELSE "idle"
    BY <1>4, <1>2, CallTyped DEF Ask, Flag, FreePath, Ready, Live, TypeInv, Types
  <2>2. /\ call'[c].pc = p /\ call'[c].id = call[c].id /\ call'[c].rec = call[c].rec
        /\ call'[c].incr = call[c].incr /\ \A d \in Actors \ {c} : call'[d] = call[d]
    BY <1>2, <2>1 DEF CallState, Live, TypeInv, Types
  <2>3. Listed' = Listed
    BY <1>1 DEF Listed
  <2>4. CallFine(call[c])'
    BY <1>1, <1>2, <2>1, <2>2, <2>3 DEF CallFine, Full
  <2>5. \A r \in Recs : Fits(r)'
    BY <1>1, FitKept
  <2> QED BY <1>1, <1>2, <2>2, <2>4, <2>5, CallKeeps
<1> QED BY <1>3, <1>4

LEMMA TakeKeeps ==
  ASSUME Live, life # "down", NEW c \in Actors, Take(c)
  PROVE  Kept'
<1>1. /\ UNCHANGED <<list, files, thread, recs, nextId, life>>
      /\ \A r \in Recs : Fits(r)'
  BY FitKept DEF Take
<1>2. /\ call[c] \in CallState /\ nextId \in Int /\ nextId >= 1
      /\ call[c].incr # None => recs[call[c].incr].path = None
  BY CallTyped
<1>3. CallFine(call[c])' /\ \A d \in Actors \ {c} : call'[d] = call[d]
  <2>1. CASE nextId <= MaxId
    <3>1. call' = [call EXCEPT ![c] = [call[c] EXCEPT !.pc = "bump", !.id = nextId]]
      BY <2>1 DEF Take
    <3>2. /\ call'[c].pc = "bump" /\ call'[c].id = nextId /\ call'[c].incr = call[c].incr
          /\ \A d \in Actors \ {c} : call'[d] = call[d]
      BY <1>2, <3>1 DEF CallState, Live, TypeInv, Types
    <3> QED BY <1>1, <1>2, <3>2 DEF CallFine
  <2>2. CASE ~(nextId <= MaxId)
    <3>1. call' = [call EXCEPT ![c] = Returned(c, 0)]
      BY <2>2 DEF Take
    <3>2. 0 < nextId' /\ 0 \in Int
      BY <1>1, <1>2
    <3>3. call[c].incr # None => recs'[call[c].incr].path = None
      BY <1>1, <1>2
    <3> QED BY <3>1, <3>2, <3>3, ReturnFine
  <2> QED BY <2>1, <2>2
<1> QED BY <1>1, <1>2, <1>3, CallKeeps

(* A record is allocated: it is not in the list, and nobody's. *)
LEMMA Allocated ==
  ASSUME Live, Free # {}, NEW id \in Ids, recs' = [recs EXCEPT ![Malloc] = Fresh(id)]
  PROVE  /\ Malloc \in Recs /\ Malloc \notin Listed /\ recs[Malloc].state = "UNUSED"
         /\ recs'[Malloc].path = None /\ recs'[Malloc].type = "FULL" /\ recs'[Malloc].id = id
         /\ \A r \in Recs \ {Malloc} : recs'[r] = recs[r]
         /\ \A r \in Recs : Fits(r)'
<1>1. Malloc \in Recs /\ Malloc \notin Listed /\ recs[Malloc].state = "UNUSED"
  BY MallocIn DEF Free, Live, TypeInv
<1>2. /\ recs'[Malloc] = Fresh(id)
      /\ \A r \in Recs \ {Malloc} : recs'[r] = recs[r]
  BY <1>1 DEF Live, TypeInv, Types
<1>3. Fresh(id).path = None /\ Fresh(id).type = "FULL" /\ Fresh(id).id = id /\ Fresh(id).state = "PENDING"
  BY DEF Fresh, Unused
<1>4. \A r \in Recs : Fits(r)'
  <2>1. ASSUME NEW r \in Recs, r = Malloc PROVE Fits(r)'
    <3>1. recs'[r] = Fresh(id)
      BY <1>2, <2>1
    <3>2. recs'[r].path = None /\ recs'[r].state = "PENDING"
      BY <1>3, <3>1
    <3> QED BY <3>2 DEF Fits
  <2> QED BY <1>2, <2>1, FitKept
<1> QED BY <1>1, <1>2, <1>3, <1>4

LEMMA BumpKeeps ==
  ASSUME Live, life # "down", NEW c \in Actors, Bump(c)
  PROVE  Kept'
<1>1. /\ UNCHANGED <<list, files, thread, life>> /\ nextId' = call[c].id + 1
      /\ call[c].pc = "bump"
  BY DEF Bump
<1>2. /\ call[c] \in CallState /\ call[c].id \in Ids /\ call[c].id \in Int /\ nextId \in Int /\ nextId >= 1
      /\ call[c].incr # None => /\ call[c].incr \in Recs /\ recs[call[c].incr].path = None
                                /\ recs[call[c].incr].state # "UNUSED"
  BY CallTyped DEF CallState
<1>3. call[c].id = nextId /\ nextId' = nextId + 1
  BY <1>1 DEF Live, Kept, CallFine
<1>4. \A d \in Actors \ {c} : ~Changing(d)
  BY <1>1, OneChanges DEF Changing
<1>5. CASE Free = {}
  <2>1. recs' = recs /\ call' = [call EXCEPT ![c] = Returned(c, 0)]
    BY <1>5 DEF Bump
  <2>2. CallFine(call[c])' /\ \A d \in Actors \ {c} : call'[d] = call[d]
    <3>1. 0 < nextId' /\ 0 \in Int
      BY <1>2, <1>3
    <3>2. call[c].incr # None => recs'[call[c].incr].path = None
      BY <1>2, <2>1
    <3> QED BY <2>1, <3>1, <3>2, ReturnFine
  <2>3. \A r \in Recs : Fits(r)'
    BY <2>1, FitKept
  <2> QED BY <1>1, <1>2, <1>3, <1>4, <2>1, <2>2, <2>3, CallKeeps, ListedIn DEF Live
<1>6. CASE Free # {}
  <2> DEFINE m == Malloc
  <2>1. /\ recs' = [recs EXCEPT ![Malloc] = Fresh(call[c].id)]
        /\ call' = [call EXCEPT ![c] = [call[c] EXCEPT !.pc = "link", !.rec = Malloc, !.head = Head1]]
    BY <1>6 DEF Bump
  <2>2. /\ m \in Recs /\ m \notin Listed /\ recs[m].state = "UNUSED"
        /\ recs'[m].path = None /\ recs'[m].type = "FULL" /\ recs'[m].id = call[c].id
        /\ \A r \in Recs \ {m} : recs'[r] = recs[r]
        /\ \A r \in Recs : Fits(r)'
    BY <1>2, <1>6, <2>1, Allocated
  <2>3. /\ call'[c].pc = "link" /\ call'[c].rec = m /\ call'[c].head = Head1
        /\ call'[c].id = call[c].id /\ call'[c].incr = call[c].incr
        /\ \A d \in Actors \ {c} : call'[d] = call[d]
    BY <1>2, <2>1 DEF CallState, Live, TypeInv, Types
  <2> HIDE DEF m
  <2>4. Listed' = Listed /\ Head1' = Head1 /\ Listed \subseteq Recs
    BY <1>1, ListedIn DEF Listed, Head1, Live
  <2>5. \A r \in Listed : recs'[r] = recs[r] /\ recs[r].id < nextId /\ recs[r].id \in Int
    BY <2>2, <2>4 DEF Live, Kept, RecsFine, TypeInv, Types, Record, Ids
  <2>6. call[c].incr # None => recs'[call[c].incr].path = None
    BY <1>2, <2>2
  <2>7. CallFine(call[c])'
    BY <1>2, <1>3, <2>2, <2>3, <2>4, <2>5, <2>6 DEF CallFine, Entering, Full
  <2> QED BY <1>1, <1>2, <1>3, <1>4, <2>2, <2>3, <2>5, <2>7, CallKeeps
<1> QED BY <1>5, <1>6

LEMMA AskIncrementalKeeps ==
  ASSUME Live, life # "down", NEW c \in Callers, AskIncremental(c), races' = 0
  PROVE  Kept'
<1>1. /\ UNCHANGED <<list, files, thread, life, nextId>> /\ c \in Actors
      /\ call[c].pc = "idle" /\ Free # {} /\ 0 \in Ids
  BY BackupAssumption DEF AskIncremental, Ready, Actors, Ids
<1>2. /\ call[c] \in CallState /\ nextId \in Int /\ nextId >= 1
      /\ call[c].id < nextId
  BY <1>1, CallTyped DEF Live, Kept, CallFine
<1>3. \A d \in Actors \ {c} : ~Changing(d)
  BY DEF AskIncremental, Overlap, Live, TypeInv, Types
<1> DEFINE m == Malloc
           p == IF inProgress THEN "insert" ELSE "take"
<1>4. /\ recs' = [recs EXCEPT ![m] = Fresh(0)]
      /\ call' = [call EXCEPT ![c] = [call[c] EXCEPT !.pc = p, !.incr = m]]
  BY DEF AskIncremental
<1>5. /\ m \in Recs /\ m \notin Listed /\ recs'[m].path = None
      /\ \A r \in Recs \ {m} : recs'[r] = recs[r]
      /\ \A r \in Recs : Fits(r)'
  BY <1>1, <1>4, Allocated
<1>6. p \in {"insert", "take"}
  OBVIOUS
<1> HIDE DEF m, p
<1>7. /\ call'[c].pc = p /\ call'[c].id = call[c].id /\ call'[c].incr = m
      /\ \A d \in Actors \ {c} : call'[d] = call[d]
  BY <1>1, <1>2, <1>4 DEF CallState, Live, TypeInv, Types
<1>8. CallFine(call[c])'
  BY <1>1, <1>2, <1>5, <1>6, <1>7 DEF CallFine
<1>9. \A r \in Listed : recs'[r] = recs[r]
  BY <1>5, ListedIn DEF Live
<1> QED BY <1>1, <1>2, <1>3, <1>5, <1>7, <1>8, <1>9, CallKeeps

LEMMA InsertKeeps ==
  ASSUME Live, life # "down", NEW c \in Actors, Insert(c)
  PROVE  Kept'
<1> DEFINE x == call[c].incr
<1>1. /\ UNCHANGED <<list, files, thread, life, nextId>> /\ call[c].pc = "insert"
  BY DEF Insert
<1>2. /\ call[c] \in CallState /\ call[c].id \in Int /\ nextId \in Int /\ nextId >= 1
      /\ x # None /\ x \in Recs /\ x \notin Listed /\ recs[x].path = None /\ call[c].id < nextId
  <2>1. x \in Recs
    BY <1>1 DEF Live, TypeInv, Owners, Holds
  <2>2. x # None
    BY <2>1, BackupAssumption
  <2> QED BY <1>1, <2>2, CallTyped DEF Live, Kept, CallFine
<1>3. \A d \in Actors \ {c} : ~Changing(d)
  BY <1>1, OneChanges DEF Changing
<1>4. /\ recs' = [recs EXCEPT ![x] = [recs[x] EXCEPT !.id = call[c].id, !.type = "INCREMENTAL",
                                                      !.state = "PENDING"]]
      /\ call' = [call EXCEPT ![c] = [NoCall EXCEPT !.pc = "enter", !.rec = x, !.head = Head1]]
  BY DEF Insert
<1> HIDE DEF x
<1>5. /\ recs'[x].path = None /\ recs'[x].id = call[c].id /\ recs'[x].type = "INCREMENTAL"
      /\ recs'[x].state = "PENDING"
      /\ \A r \in Recs \ {x} : recs'[r] = recs[r]
  BY <1>2, <1>4 DEF Live, TypeInv, Types, Record
<1>6. /\ call'[c].pc = "enter" /\ call'[c].rec = x /\ call'[c].head = Head1
      /\ call'[c].id = 0 /\ call'[c].incr = None
      /\ \A d \in Actors \ {c} : call'[d] = call[d]
  BY <1>4 DEF NoCall, Live, TypeInv, Types
<1>7. Head1' = Head1
  BY <1>1 DEF Head1
<1>8. CallFine(call[c])'
  BY <1>1, <1>2, <1>5, <1>6, <1>7 DEF CallFine, Entering, Full
<1>9. \A r \in Recs : Fits(r)'
  <2>1. ASSUME NEW r \in Recs, r = x PROVE Fits(r)'
    BY <1>5, <2>1 DEF Fits
  <2> QED BY <1>5, <2>1, FitKept
<1>10. \A r \in Listed : recs'[r] = recs[r]
  BY <1>2, <1>5, ListedIn DEF Live
<1> QED BY <1>1, <1>2, <1>3, <1>6, <1>8, <1>9, <1>10, CallKeeps

(* From the head on, the list is all there. *)
LEMMA FromHead ==
  ASSUME list \in Seq(Recs), Distinct(list)
  PROVE  From(Head1) = list
<1>1. CASE list = <<>>
  BY <1>1 DEF From
<1>2. CASE list # <<>>
  <2> DEFINE n == CHOOSE k \in DOMAIN list : list[k] = Head1
  <2>1. Head1 = list[1] /\ 1 \in DOMAIN list
    BY <1>2 DEF Head1
  <2>2. n \in DOMAIN list /\ list[n] = Head1
    BY <2>1
  <2> HIDE DEF n
  <2>3. n = 1
    BY <2>1, <2>2 DEF Distinct
  <2>4. From(Head1) = SubSeq(list, n, Len(list))
    BY <2>1 DEF From, n
  <2>5. SubSeq(list, 1, Len(list)) = list
    OBVIOUS
  <2> QED BY <2>3, <2>4, <2>5
<1> QED BY <1>1, <1>2

LEMMA EnterKeeps ==
  ASSUME Live, life # "down", NEW c \in Actors, Link(c)
  PROVE  Kept'
<1> DEFINE x == call[c].rec
<1> USE DEF Live, Kept
<1>1. /\ UNCHANGED <<recs, nextId, files, thread, auto, life>> /\ call[c].pc \in {"link", "enter"}
      /\ list' = <<x>> \o From(call[c].head)
      /\ call' = [call EXCEPT ![c] = IF call[c].pc = "link" THEN [call[c] EXCEPT !.pc = "flag"] ELSE NoCall]
  BY DEF Link
<1>2. /\ call[c] \in CallState /\ call[c].id \in Int /\ nextId \in Int /\ nextId >= 1
      /\ Entering(call[c]) /\ call[c].id < nextId
      /\ \A r \in Recs : recs[r].id \in Int
  BY <1>1, CallTyped DEF CallFine, TypeInv, Types, Record, Ids
<1>3. list' = <<x>> \o list /\ x \in Recs /\ recs[x].path = None /\ recs[x].id < nextId
  <2>1. From(Head1) = list
    BY FromHead DEF TypeInv
  <2> QED BY <1>1, <1>2, <2>1 DEF Entering
<1>4. x \notin Listed /\ Listed \subseteq Recs
  BY <1>1, <1>3, ListedIn DEF TypeInv, Owners, Owns
<1>5. Listed' = Listed \cup {x}
  <2>1. Elems(<<x>> \o list) = Elems(list) \cup {x}
    BY <1>3, <1>4, PrependSound DEF TypeInv, Elems, Listed
  <2> QED BY <1>3, <2>1 DEF Elems, Listed
<1>6. /\ (call[c].pc = "link" => call'[c].pc = "flag" /\ call'[c].rec = x /\ call'[c].id = call[c].id
                                 /\ call'[c].incr = call[c].incr)
      /\ call[c].pc = "enter" => call'[c] = NoCall
      /\ \A d \in Actors \ {c} : call'[d] = call[d]
  BY <1>1, <1>2 DEF CallState, TypeInv, Types
<1> HIDE DEF x
<1>7. \A r \in Listed : Full(r) /\ recs[x].type = "FULL" => recs[r].id # recs[x].id
  BY <1>1 DEF CallFine, Full, x
<1>8. RecsFine'
  <2>1. \A r \in Recs : Fits(r)'
    BY <1>1, FitKept
  <2>2. \A r \in Listed' : recs'[r].id < nextId'
    BY <1>1, <1>3, <1>5 DEF RecsFine
  <2>3. \A r, q \in Listed' : Full(r)' /\ Full(q)' /\ recs'[r].id = recs'[q].id => r = q
    BY <1>1, <1>5, <1>7 DEF RecsFine, Full
  <2> QED BY <2>1, <2>2, <2>3 DEF RecsFine
<1>9. ASSUME NEW d \in Actors PROVE CallFine(call[d])'
  <2>1. CASE d = c /\ call[c].pc = "link"
    <3>1. recs[x].type = "FULL" /\ (call[c].incr # None => recs[call[c].incr].path = None)
      BY <2>1 DEF CallFine, Full, x
    <3> QED BY <1>1, <1>2, <1>3, <1>5, <1>6, <2>1, <3>1 DEF CallFine, Full
  <2>2. CASE d = c /\ call[c].pc = "enter"
    BY <1>1, <1>2, <1>6, <2>2 DEF CallFine, NoCall
  <2>3. CASE d # c
    <3>1. call'[d] = call[d] /\ call[d].pc \in {"idle", "repath"} /\ call[d].incr = None
          /\ call[d].id < nextId
      <4>1. ~Changing(d)
        BY <1>1, <2>3, OneChanges DEF Changing
      <4> QED BY <1>6, <2>3, <4>1 DEF Changing, TypeInv, Owners, Holds, CallFine
    <3> QED BY <1>1, <3>1 DEF CallFine
  <2> QED BY <1>1, <2>1, <2>2, <2>3
<1>10. \A u \in Threads : ThreadFine(thread[u])'
  BY <1>1, <1>5 DEF ThreadFine, Full
<1>11. FilesFine'
  <2>1. recs[x].state \in {"UNUSED", "PENDING"}
    BY <1>3 DEF RecsFine, Fits
  <2> QED BY <1>1, <1>5, <2>1 DEF FilesFine
<1> QED BY <1>1, <1>8, <1>9, <1>10, <1>11 DEF DownFine

LEMMA SpawnKeeps ==
  ASSUME Live, life # "down", NEW c \in Actors, Spawn(c)
  PROVE  Kept'
<1> DEFINE x == call[c].rec
<1> USE DEF Live, Kept
<1>1. UNCHANGED <<recs, list, nextId, files, auto, life>> /\ call[c].pc = "spawn"
  BY DEF Spawn
<1>2. /\ call[c] \in CallState /\ call[c].id \in Int /\ nextId \in Int /\ nextId >= 1
      /\ call[c].id < nextId
      /\ call[c].incr # None => recs[call[c].incr].path = None
  BY <1>1, CallTyped DEF CallFine
<1>3. PICK id \in {0, call[c].id} : call' = [call EXCEPT ![c] = Returned(c, id)]
  BY DEF Spawn
<1>4. CallFine(call[c])' /\ \A d \in Actors \ {c} : call'[d] = call[d]
  <2>1. id \in Int /\ id < nextId' /\ 0 < nextId'
    BY <1>1, <1>2, <1>3
  <2>2. call[c].incr # None => recs'[call[c].incr].path = None
    BY <1>1, <1>2
  <2> QED BY <1>3, <2>1, <2>2, ReturnFine
<1>5. Listed' = Listed /\ Head1' = Head1
  BY <1>1 DEF Listed, Head1
<1>6. ASSUME NEW d \in Actors PROVE CallFine(call[d])'
  <2>1. CASE d # c
    BY <1>1, <1>4, <1>5, <2>1 DEF CallFine, Entering, Full
  <2> QED BY <1>4, <2>1
<1>7. x \in Listed /\ x \in Recs /\ Full(x) /\ recs[x].path = None /\ recs[x].state # "COMPLETED"
  <2>1. x \in Listed /\ x \in Recs /\ Full(x) /\ recs[x].path = None
    BY <1>1, ListedIn DEF CallFine
  <2> QED BY <2>1 DEF RecsFine, Fits
<1> HIDE DEF x
<1>8. ASSUME NEW u \in Threads PROVE ThreadFine(thread[u])'
  <2>1. thread[u].pc = "idle"
    BY <1>1 DEF Solo, Busy
  <2>2. thread'[u] = thread[u] \/ thread'[u] = [NoThread EXCEPT !.pc = "run", !.rec = x]
    BY DEF Spawn, TypeInv, Types, x
  <2>3. CASE thread'[u] = thread[u]
    BY <2>1, <2>3 DEF ThreadFine
  <2>4. CASE thread'[u] = [NoThread EXCEPT !.pc = "run", !.rec = x]
    <3>1. thread'[u].pc = "run" /\ thread'[u].rec = x
      BY <2>4 DEF NoThread
    <3> QED BY <1>1, <1>5, <1>7, <3>1 DEF ThreadFine, Full
  <2> QED BY <2>2, <2>3, <2>4
<1>9. RecsFine' /\ FilesFine'
  BY <1>1, <1>5 DEF RecsFine, FilesFine, Fits, Full
<1> QED BY <1>1, <1>6, <1>8, <1>9 DEF DownFine

(* The record verified has a file, and so no call has it. *)
LEMMA VerifyKeeps ==
  ASSUME Live, life # "down", NEW c \in Callers, Verify(c)
  PROVE  Kept'
<1> USE DEF Live, Kept
<1>1. /\ UNCHANGED <<list, nextId, files, thread, call, auto, life>>
      /\ Listed' = Listed /\ Head1' = Head1 /\ Listed \subseteq Recs
  BY ListedIn DEF Verify, Listed, Head1
<1>2. PICK r \in Listed : /\ recs[r].path # None /\ files[recs[r].path] # "absent"
                          /\ recs' = [recs EXCEPT ![r].state = "VERIFIED"]
  BY DEF Verify, Listed
<1>3. /\ \A q \in Recs \ {r} : recs'[q] = recs[q]
      /\ recs'[r].type = recs[r].type /\ recs'[r].id = recs[r].id
      /\ recs'[r].path = recs[r].path /\ recs'[r].state = "VERIFIED" /\ r \in Recs
  BY <1>1, <1>2, StateWritten
<1>4. \A q \in Recs : /\ recs'[q].type = recs[q].type /\ recs'[q].id = recs[q].id
                      /\ recs'[q].path = recs[q].path
                      /\ recs'[q].state # recs[q].state => q = r /\ recs'[q].state = "VERIFIED"
  BY <1>3
<1>5. RecsFine'
  <2>1. \A q \in Recs : Fits(q)'
    BY <1>2, <1>4 DEF RecsFine, Fits, Full
  <2> QED BY <1>1, <1>4, <2>1 DEF RecsFine, Full
<1>6. ASSUME NEW d \in Actors PROVE CallFine(call[d])'
  <2>1. call[d].incr # None => call[d].incr \in Recs
    BY CallTyped DEF Actors
  <2> QED BY <1>1, <1>4, <2>1 DEF CallFine, Entering, Full
<1>7. ASSUME NEW u \in Threads PROVE ThreadFine(thread[u])'
  BY <1>1, <1>4 DEF ThreadFine, Full
<1>8. FilesFine'
  BY <1>1, <1>2, <1>4 DEF FilesFine
<1> QED BY <1>1, <1>5, <1>6, <1>7, <1>8 DEF DownFine

(* A record deleted while nothing uses it goes with its file. *)
LEMMA DeleteFine ==
  ASSUME Live, life # "down", NEW c \in Callers, Delete(c), races' = 0, ~broken'
  PROVE  Kept'
<1> USE DEF Live, Kept
<1>1. PICK k \in DOMAIN list :
        /\ IF recs[list[k]].path = None THEN UNCHANGED <<files, thread>>
           ELSE /\ files' = [files EXCEPT ![recs[list[k]].path] = "absent"]
                /\ thread' = Unlinked(recs[list[k]].path)
        /\ list' = RemoveAt(list, k)
        /\ recs' = [recs EXCEPT ![list[k]] = Unused]
        /\ ~InUse(list[k])
  BY DEF Delete
<1>2. PICK r \in Listed : r = list[k]
  BY DEF Listed
<1>3. UNCHANGED <<nextId, call, auto, life>>
  BY DEF Delete
<1>4. Listed' = Listed \ {r} /\ Listed \subseteq Recs /\ r \in Recs
  <2>1. Elems(list') = Elems(list) \ {list[k]}
    BY <1>1, RemoveSound DEF TypeInv
  <2> QED BY <1>2, <2>1, ListedIn DEF Elems, Listed
<1>5. \A d \in Actors : ~Changing(d)
  <2>1. \A d \in Actors \ {c} : ~Changing(d)
    BY DEF Delete, Overlap, TypeInv, Types
  <2> QED BY <2>1 DEF Delete, Ready, Changing
<1>6. /\ recs'[r] = Unused /\ \A q \in Recs \ {r} : recs'[q] = recs[q]
  BY <1>1, <1>2, <1>4 DEF TypeInv, Types
<1>7. RecsFine'
  <2>1. ASSUME NEW q \in Recs, q = r PROVE Fits(q)'
    BY <1>6, <2>1 DEF Fits, Unused
  <2>2. \A q \in Recs : Fits(q)'
    BY <1>6, <2>1, FitKept
  <2> QED BY <1>3, <1>4, <1>6, <2>2 DEF RecsFine, Full
<1>8. ASSUME NEW d \in Actors PROVE CallFine(call[d])'
  <2>1. call[d].pc \in {"idle", "repath"} /\ call[d].incr = None
    BY <1>5 DEF Changing, TypeInv, Owners, Holds
  <2>2. call[d].id < nextId
    BY <2>1 DEF CallFine
  <2> QED BY <1>3, <2>1, <2>2 DEF CallFine
<1>9. ASSUME NEW q \in Listed, q # r, recs[q].path # None
      PROVE  recs[q].path # recs[r].path
  BY <1>4, <1>9, PathOnce
<1>10. ASSUME NEW q \in Paths, recs[r].path # q PROVE files'[q] = files[q]
  BY <1>1, <1>2, <1>10 DEF TypeInv, Types
<1>11. ASSUME NEW u \in Threads PROVE ThreadFine(thread[u])'
  <2>1. CASE thread[u].pc = "idle"
    <3>1. thread'[u].pc = "idle"
      BY <1>1, <2>1 DEF Unlinked, TypeInv, Types, ThreadState
    <3> QED BY <3>1 DEF ThreadFine
  <2>2. CASE Busy(u)
    <3>1. thread[u].rec \in Listed /\ thread[u].rec # r
      BY <1>1, <1>2, <2>2 DEF ThreadFine, Busy, InUse
    <3>2. recs'[thread[u].rec] = recs[thread[u].rec] /\ thread[u].rec \in Listed'
      BY <1>4, <1>6, <3>1
    <3>3. thread[u].pc # "run" => thread[u].path \in Paths /\ recs[thread[u].rec].path = thread[u].path
      BY <2>2 DEF ThreadFine, Busy, TypeInv, Types, ThreadState
    <3>4. thread[u].pc # "run" => thread[u].path # recs[r].path
      BY <1>9, <3>1, <3>3, BackupAssumption
    <3>5. /\ thread'[u].pc = thread[u].pc /\ thread'[u].rec = thread[u].rec
          /\ thread'[u].path = thread[u].path
          /\ thread[u].pc # "run" => thread'[u].linked = thread[u].linked
      <4>1. CASE recs[r].path = None
        BY <1>1, <1>2, <4>1
      <4>2. CASE recs[r].path # None
        <5>1. thread'[u] = [thread[u] EXCEPT !.linked = thread[u].linked /\ thread[u].path # recs[r].path]
          BY <1>1, <1>2, <4>2 DEF Unlinked
        <5>2. thread[u] \in ThreadState
          BY DEF TypeInv, Types
        <5> QED BY <3>4, <5>1, <5>2 DEF ThreadState
      <4> QED BY <4>1, <4>2
    <3>6. thread[u].pc # "run" => files'[thread[u].path] = files[thread[u].path]
      BY <1>10, <3>3, <3>4
    <3> QED BY <3>1, <3>2, <3>3, <3>5, <3>6 DEF ThreadFine, Full
  <2> QED BY <2>1, <2>2 DEF Busy
<1>12. FilesFine'
  <2>1. ASSUME NEW p \in Paths, files'[p] # "absent"
        PROVE  \E q \in Listed' : recs'[q].path = p
    <3>1. p # recs[r].path
      BY <1>1, <1>2, <2>1, BackupAssumption DEF TypeInv, Types
    <3>2. files[p] # "absent"
      BY <1>10, <2>1, <3>1
    <3>3. PICK q \in Listed : recs[q].path = p
      BY <3>2 DEF FilesFine
    <3> QED BY <1>4, <1>6, <3>1, <3>3
  <2>2. ASSUME NEW q \in Listed'
        PROVE  /\ recs'[q].state = "COMPLETED" => files'[recs'[q].path] = "COMPLETED"
               /\ recs'[q].state = "VERIFIED" => files'[recs'[q].path] # "absent"
    <3>1. q \in Listed /\ q # r /\ recs'[q] = recs[q] /\ Fits(q) /\ recs[q] \in Record
      BY <1>4, <1>6 DEF RecsFine, TypeInv, Types
    <3>2. SUFFICES ASSUME recs[q].state \in {"COMPLETED", "VERIFIED"}
                   PROVE  files'[recs[q].path] = files[recs[q].path]
      BY <3>1, <3>2 DEF FilesFine
    <3>3. recs[q].path # None /\ recs[q].path \in Paths
      BY <3>1, <3>2 DEF Fits, Record
    <3> QED BY <1>9, <1>10, <3>1, <3>3
  <2> QED BY <2>1, <2>2 DEF FilesFine
<1> QED BY <1>3, <1>7, <1>8, <1>11, <1>12 DEF DownFine

(* The shutdown comes between calls, or counts as a race with one. *)
LEMMA DestroyFine ==
  ASSUME Live, Destroy, races' = 0, ~broken'
  PROVE  Kept'
<1> USE DEF Live, Kept
<1>1. /\ list' = <<>> /\ life' = "down" /\ UNCHANGED <<nextId, thread, call, auto>> /\ ~auto.lives
      /\ \A r \in Listed : ~InUse(r)
  BY DEF Destroy
<1>2. Listed' = {}
  BY <1>1 DEF Listed
<1>3. \A c \in Actors : call[c].pc = "idle"
  BY DEF Destroy, TypeInv, Types
<1>4. ASSUME NEW r \in Recs PROVE Fits(r)'
  <2>1. recs'[r] = recs[r] \/ recs'[r] = Unused
    BY DEF Destroy
  <2>2. CASE recs'[r] = Unused
    BY <2>2 DEF Fits, Unused
  <2> QED BY <2>1, <2>2, FitKept
<1>5. RecsFine'
  BY <1>2, <1>4 DEF RecsFine
<1>6. ASSUME NEW c \in Actors PROVE CallFine(call[c])'
  BY <1>1, <1>3, CallTyped DEF CallFine
<1>7. ASSUME NEW t \in Threads PROVE ThreadFine(thread[t])'
  <2>1. thread[t].pc = "idle"
    BY <1>1 DEF InUse, ThreadFine, Busy
  <2> QED BY <1>1, <2>1 DEF ThreadFine
<1>8. FilesFine' /\ DownFine'
  BY <1>1, <1>2, <1>3 DEF FilesFine, DownFine
<1> QED BY <1>5, <1>6, <1>7, <1>8

LEMMA KeptStep ==
  ASSUME Live, [Next]_vars, races' = 0, ~broken'
  PROVE  Kept'
<1>1. CASE UNCHANGED vars
  BY <1>1 DEF vars, Live, Kept, RecsFine, CallFine, ThreadFine, FilesFine, DownFine, Fits, Full,
              Listed, Entering, Head1
<1>2. CASE Next
  <2>1. life # "down"
    BY <1>2, StillUp
  <2>2. ASSUME NEW c \in Actors, Ask(c) \/ CreateStep(c) PROVE Kept'
    BY <2>1, <2>2, AskKeeps, TakeKeeps, BumpKeeps, EnterKeeps, SpawnKeeps, InsertKeeps DEF CreateStep
  <2>3. ASSUME NEW c \in Callers,
               AskIncremental(c) \/ Verify(c) \/ Delete(c) \/ FreePath(c) \/ SetPath(c)
        PROVE  Kept'
    BY <2>1, <2>3, AskIncrementalKeeps, VerifyKeeps, DeleteFine, AskKeeps DEF Actors
  <2>4. ASSUME NEW c \in Callers, Schedule(c) \/ Stop(c) PROVE Kept'
    BY <2>1, <2>4, QuietKeeps DEF Schedule, Stop
  <2>5. ASSUME NEW t \in Threads, ThreadStep(t) PROVE Kept'
    BY <2>1, <2>5, RunKeeps, OpenKeeps, HeaderKeeps, RewriteKeeps, MarkKeeps DEF ThreadStep
  <2>6. CASE AutoExit
    BY <2>1, <2>6, QuietKeeps DEF AutoExit
  <2>7. CASE Destroy
    BY <2>7, DestroyFine
  <2> QED BY <1>2, <2>2, <2>3, <2>4, <2>5, <2>6, <2>7 DEF Next
<1> QED BY <1>1, <1>2

LEMMA KeptRestores ==
  ASSUME TypeInv, Kept, NEW k \in DOMAIN list, recs[list[k]].state = "COMPLETED"
  PROVE  /\ files[recs[list[k]].path] = "COMPLETED"
         /\ \/ Restorable(k)
            \/ \E j \in 1..(k - 1) :
                 recs[list[j]].id = recs[list[k]].id /\ recs[list[j]].type = "INCREMENTAL"
<1> DEFINE r == list[k]
<1> USE DEF Kept
<1>1. /\ r \in Listed /\ r \in Recs /\ DOMAIN list = 1..Len(list)
      /\ \A j \in DOMAIN list : list[j] \in Listed /\ list[j] \in Recs
  BY DEF TypeInv, Listed
<1>2. recs[r].path # None /\ Full(r) /\ files[recs[r].path] = "COMPLETED"
  BY <1>1 DEF RecsFine, Fits, FilesFine
<1>3. CASE Found(k)
  BY <1>2, <1>3 DEF Restorable
<1>4. CASE ~Found(k)
  <2>1. PICK j \in 1..(k - 1) : recs[list[j]].id = recs[r].id
    BY <1>4 DEF Found
  <2>2. j \in DOMAIN list /\ j # k
    BY <1>1, <2>1
  <2>3. list[j] # r
    BY <2>2 DEF TypeInv, Distinct
  <2>4. ~Full(list[j])
    BY <1>1, <1>2, <2>1, <2>2, <2>3 DEF RecsFine
  <2>5. recs[list[j]].type \in {"FULL", "INCREMENTAL"}
    BY <1>1, <2>2 DEF TypeInv, Types, Record
  <2> QED BY <1>2, <2>1, <2>4, <2>5 DEF Full
<1> QED BY <1>2, <1>3, <1>4

(* What holds as long as calls have not overlapped, and nothing is undefined. *)
FileInv ==
  /\ TypeInv
  /\ races = 0 => Solo
  /\ races = 0 /\ ~broken => Kept

LEMMA FileInvInit == Init => FileInv
<1> SUFFICES ASSUME Init PROVE FileInv
  OBVIOUS
<1> USE BackupAssumption DEF Init
<1>1. TypeInv /\ Solo
  BY TypeInvInit DEF Solo, Changing, Busy, NoCall, NoThread
<1>2. Listed = {}
  BY DEF Listed
<1>3. Kept
  BY <1>2 DEF Kept, RecsFine, CallFine, ThreadFine, FilesFine, DownFine, Fits, Unused, NoCall, NoThread
<1> QED BY <1>1, <1>3 DEF FileInv

LEMMA FileInvStep == FileInv /\ [Next]_vars => FileInv'
<1> SUFFICES ASSUME FileInv, [Next]_vars PROVE FileInv'
  OBVIOUS
<1>1. TypeInv' /\ (races' = 0 => races = 0)
  BY TypeInvStep, RacesGrow DEF FileInv
<1>2. races' = 0 => Solo'
  BY <1>1, SoloStep DEF FileInv
<1>3. ~broken' => ~broken
  BY DEF Next, vars
<1>4. races' = 0 /\ ~broken' => Kept'
  BY <1>1, <1>3, KeptStep DEF FileInv, Live
<1> QED BY <1>1, <1>2, <1>4 DEF FileInv

LEMMA FilesTell == FileInv => CompletedRestores /\ NoOrphanFile
<1> SUFFICES ASSUME FileInv, races = 0, ~broken
             PROVE  CompletedRestores /\ NoOrphanFile
  BY DEF CompletedRestores, NoOrphanFile
<1>1. CompletedRestores
  <2>1. \A k \in DOMAIN list : recs[list[k]].state = "VERIFIED" => files[recs[list[k]].path] # "absent"
    BY DEF FileInv, Kept, FilesFine, Listed
  <2> QED BY <2>1, KeptRestores DEF CompletedRestores, FileInv
<1>2. NoOrphanFile
  BY DEF NoOrphanFile, FileInv, Kept, FilesFine
<1> QED BY <1>1, <1>2

(* A completed backup can be restored by its id, unless calls overlapped or
   memory in use was freed: its file is complete, and only an incremental
   record can hide it. *)
THEOREM BackupRestores == Spec => []CompletedRestores
<1> QED BY FileInvInit, FileInvStep, FilesTell, PTL DEF Spec

(* Every backup file belongs to a record in the list, on the same condition,
   until the shutdown: deleting a backup leaves nothing of it. *)
THEOREM BackupFiles == Spec => []NoOrphanFile
<1> QED BY FileInvInit, FileInvStep, FilesTell, PTL DEF Spec

====
