---- MODULE Namespace ----
(***************************************************************************)
(* Module A's name space: the handlers of                                  *)
(* src/src/module_a/smartbackupfs_basic.c that add, move and remove        *)
(* directory entries, with link counts and the inode cache of              *)
(* src/src/module_a/metadata_manager.c.                                    *)
(*                                                                         *)
(* An action is a critical section of a directory's lock, or what a        *)
(* handler does outside of one.  nlink is changed without a lock of the    *)
(* inode: its load and its store are separate steps, and the test for zero *)
(* may use the value stored or read the field again.                       *)
(*                                                                         *)
(* Handlers get paths; here an entry is a pair of directory and name.      *)
(* This rests on the environment, outside src/: the kernel holds the       *)
(* directories a call changes, and libfuse the entries its paths go        *)
(* through, until the call has returned (Apart).  It knows a file by its   *)
(* path only, so two names of one file are not kept apart.                 *)
(*                                                                         *)
(* Of a name with an '@' lookup_path looks at what comes before it.  So a  *)
(* new name like this is not found to be taken, even if it is, and nothing *)
(* finds what is entered under it (libfuse reports that it is not there);  *)
(* but unlink and rmdir compare names in full.  Marked has a name of its   *)
(* own for every such entry, the second of one name too.  /f@versions is   *)
(* another path to f, which is not kept apart from /f (UseVersions).  Left *)
(* out are calls on /f@v1, a copy of f's metadata, and paths with an '@'   *)
(* further up, /d@v1/f, by which all that is in d has a second path.       *)
(*                                                                         *)
(* Calls that fail change nothing here and are left out; so are times,     *)
(* permissions and sizes.  After freed memory has been used nothing is     *)
(* modelled; a file in raced is not linked or unlinked any more, as its    *)
(* nlink could grow or shrink without end.                                 *)
(***************************************************************************)
EXTENDS Integers, FiniteSets, SequencesExt

CONSTANTS
  Threads,    (* FUSE threads                                              *)
  Names,      (* names of entries                                          *)
  Marked,     (* those with an '@'                                         *)
  CacheSize,  (* the inode cache's max_size                                *)
  MaxIno      (* bound: inodes ever made, the root included                *)

ASSUME NamespaceAssumption ==
  /\ IsFiniteSet(Threads) /\ IsFiniteSet(Names) /\ Marked \subseteq Names
  /\ CacheSize \in Nat \ {0}
  /\ MaxIno \in Nat \ {0}

Root == 1
Inodes == 1..MaxIno
Places == Inodes \X Names
Entries == [name : Names, ino : Inodes]

VARIABLES
  inode,      (* kind and nlink of each inode, by ino                      *)
  entries,    (* the entry list of each directory                          *)
  cached,     (* the inodes that inode_cache has                           *)
  call,       (* the calls in progress, by thread                          *)
  aliased,    (* those that came by /f@versions, with the inode they hold  *)
  raced       (* history: inodes whose nlink two calls changed at once     *)

vars == <<inode, entries, cached, call, aliased, raced>>

Calls ==
  [op : {"create", "link", "unlink", "rmdir", "rename", "use"},
   step : {"append", "cache", "count", "test", "take", "put", "touch"},
   from : Places, to : Places, ino : Inodes, links : Int]

TypeOK ==
  /\ inode \in [Inodes -> [kind : {"dir", "file", "unused", "freed"}, nlink : Int]]
  /\ entries \in [Inodes -> Seq(Entries)]
  /\ cached \subseteq Inodes /\ Cardinality(cached) <= CacheSize
  /\ DOMAIN call \subseteq Threads /\ Range(call) \subseteq Calls
  /\ DOMAIN aliased \subseteq Threads \ DOMAIN call /\ Range(aliased) \subseteq Inodes
  /\ raced \subseteq Inodes

(* fs_init: the root directory, which is not put into the cache. *)
Init ==
  /\ inode = [i \in Inodes |-> IF i = Root THEN [kind |-> "dir", nlink |-> 2]
                                           ELSE [kind |-> "unused", nlink |-> 0]]
  /\ entries = [i \in Inodes |-> <<>>]
  /\ cached = {}
  /\ call = [t \in {} |-> Root]
  /\ aliased = call
  /\ raced = {}

----
(* Directories and calls *)

Alive(i) == inode[i].kind \notin {"unused", "freed"}

(* find_directory_entry: the first entry of this name; 0 if there is none. *)
Find(p) == LET Named(e) == e.name = p[2] IN SelectInSeq(entries[p[1]], Named)

(* lookup_path: the inode that an entry leads to. *)
Taken(p) == Find(p) # 0
Target(p) == entries[p[1]][Find(p)].ino

(* The directories in the tree under i, with i, found level by level, as far
   as paths go: no path goes through a name with an '@'. *)
Children(d) == {e.ino : e \in {e \in ToSet(entries[d]) : e.name \notin Marked}}

Below(i) ==
  LET level[n \in 0..MaxIno] ==
        IF n = 0 THEN {i} ELSE level[n - 1] \cup UNION {Children(d) : d \in level[n - 1]}
  IN  level[MaxIno]

(* The directories that have a path: not those under one in the hands of a
   rename, and not one being made. *)
Reachable == {d \in Below(Root) \cap Inodes : inode[d].kind = "dir"}

(* What the environment keeps apart: calls that change one directory, a call
   that moves or removes what another's path goes through, and two renames
   between directories. *)
Changes(c) ==
  CASE c.op = "use" -> {}
    [] c.op = "link" -> {c.to[1]}
    [] c.op = "rmdir" -> {c.from[1], c.ino}
    [] OTHER -> {c.from[1], c.to[1]}

Moves(c) == c.op \in {"unlink", "rmdir", "rename"}
Crosses(c) == c.op = "rename" /\ c.from[1] # c.to[1]

Disturbs(c, e) ==
  /\ Moves(c)
  /\ \/ e.op \in {"link", "use"} /\ e.from = c.from
     \/ inode[c.ino].kind = "dir" /\ {e.from[1], e.to[1]} \cap Below(c.ino) # {}

Apart(c, e) ==
  /\ Changes(c) \cap Changes(e) = {}
  /\ ~Disturbs(c, e) /\ ~Disturbs(e, c)
  /\ ~(Crosses(c) /\ Crosses(e))

(* A thread comes in with a call. *)
NewCall(op, step, p, q, i) ==
  [op |-> op, step |-> step, from |-> p, to |-> q, ino |-> i, links |-> 0]

Admitted(t, c) ==
  /\ t \notin DOMAIN call \cup DOMAIN aliased
  /\ \A u \in DOMAIN call : Apart(c, call[u])

Enter(t, c) == call' = [u \in DOMAIN call \cup {t} |-> IF u = t THEN c ELSE call[u]]
Continue(t, step) == call' = [call EXCEPT ![t].step = step]
Return(t) == call' = Restrict(call, DOMAIN call \ {t})
At(t, op, step) == t \in DOMAIN call /\ call[t].op = op /\ call[t].step = step

----
(* mkdir, create, symlink *)

(* A new inode, while its path is free: next_ino is taken, the metadata
   filled in.  All that is not a directory counts as a file. *)
Create(t, p, kind, nlink) ==
  LET new == Cardinality({i \in Inodes : inode[i].kind # "unused"}) + 1
      c   == NewCall("create", "append", p, p, new)
  IN  /\ new \in Inodes
      /\ Admitted(t, c)
      /\ ~Taken(p)
      /\ inode' = [inode EXCEPT ![new] = [kind |-> kind, nlink |-> nlink]]
      /\ Enter(t, c)
      /\ UNCHANGED <<entries, cached, raced, aliased>>

MakeDirectory(t, p) == Create(t, p, "dir", 2)
CreateFile(t, p) == Create(t, p, "file", 1)
Symlink(t, p) == Create(t, p, "file", 1)

(* Its entry goes to the end of the list. *)
AppendEntry(t) ==
  /\ At(t, "create", "append")
  /\ LET c == call[t] IN
     entries' = [entries EXCEPT ![c.from[1]] =
                   Append(@, [name |-> c.from[2], ino |-> c.ino])]
  /\ Continue(t, "cache")
  /\ UNCHANGED <<inode, cached, raced, aliased>>

(* Mutant: nothing is dropped. *)
CacheAlways(t) ==
  /\ At(t, "create", "cache")
  /\ Alive(call[t].ino)
  /\ cached' = cached \cup {call[t].ino}
  /\ Return(t)
  /\ UNCHANGED <<inode, entries, raced, aliased>>

(* cache_set, which ends in lru_cache_put: at the limit any one inode is
   dropped, though it be no older than the others. *)
CacheInode(t) ==
  /\ At(t, "create", "cache")
  /\ Alive(call[t].ino)
  /\ \E gone \in IF Cardinality(cached) >= CacheSize
                 THEN {{i} : i \in cached} ELSE {{}} :
       cached' = (cached \ gone) \cup {call[t].ino}
  /\ Return(t)
  /\ UNCHANGED <<inode, entries, raced, aliased>>

----
(* link, unlink, rmdir *)

(* Other calls between the load of an inode's nlink and what they do to it. *)
Race(t, i) ==
  raced' = IF \E u \in DOMAIN call \ {t} : call[u].ino = i /\ call[u].step \in {"count", "test"}
           THEN raced \cup {i} ELSE raced

(* link: the old path leads to a file, the new one is free. *)
Link(t, p, q) ==
  LET c == NewCall("link", "append", p, q, Target(p))
  IN  /\ Taken(p) /\ inode[Target(p)].kind = "file" /\ Target(p) \notin raced
      /\ Admitted(t, c)
      /\ ~Taken(q)
      /\ Enter(t, c)
      /\ UNCHANGED <<inode, entries, cached, raced, aliased>>

(* The entry is appended and nlink loaded. *)
LinkEntry(t) ==
  /\ At(t, "link", "append")
  /\ LET c == call[t] IN
     /\ Alive(c.ino)
     /\ entries' = [entries EXCEPT ![c.to[1]] = Append(@, [name |-> c.to[2], ino |-> c.ino])]
     /\ call' = [call EXCEPT ![t].step = "count", ![t].links = inode[c.ino].nlink]
     /\ Race(t, c.ino)
  /\ UNCHANGED <<inode, cached, aliased>>

(* Mutant: the new name is not counted. *)
LinkUncounted(t) ==
  /\ At(t, "link", "count")
  /\ Alive(call[t].ino)
  /\ Return(t)
  /\ UNCHANGED <<inode, entries, cached, raced, aliased>>

(* nlink++ is stored; the inode's time is set. *)
LinkCount(t) ==
  /\ At(t, "link", "count")
  /\ Alive(call[t].ino)
  /\ inode' = [inode EXCEPT ![call[t].ino].nlink = call[t].links + 1]
  /\ Return(t)
  /\ UNCHANGED <<entries, cached, raced, aliased>>

(* unlink: the entry is taken out, a version having been made, and nlink is
   loaded.  The directory's lock is held to the end. *)
Unlink(t, p) ==
  LET i == Target(p)
      c == NewCall("unlink", "count", p, p, i)
  IN  /\ Taken(p) /\ inode[i].kind = "file" /\ i \notin raced
      /\ Admitted(t, c)
      /\ entries' = [entries EXCEPT ![p[1]] = RemoveAt(@, Find(p))]
      /\ Enter(t, [c EXCEPT !.links = inode[i].nlink])
      /\ Race(t, i)
      /\ UNCHANGED <<inode, cached, aliased>>

(* nlink-- is stored. *)
UnlinkCount(t) ==
  /\ At(t, "unlink", "count")
  /\ Alive(call[t].ino)
  /\ inode' = [inode EXCEPT ![call[t].ino].nlink = call[t].links - 1]
  /\ Continue(t, "test")
  /\ UNCHANGED <<entries, cached, raced, aliased>>

(* Mutant: the count before the decrement is tested. *)
UnlinkFreeLate(t) ==
  /\ At(t, "unlink", "test")
  /\ Alive(call[t].ino)
  /\ IF call[t].links = 0
     THEN /\ cached' = cached \ {call[t].ino}
          /\ inode' = [inode EXCEPT ![call[t].ino].kind = "freed"]
     ELSE UNCHANGED <<cached, inode>>
  /\ Return(t)
  /\ UNCHANGED <<entries, raced, aliased>>

(* Mutant: the inode stays in the cache. *)
UnlinkFreeCached(t) ==
  /\ At(t, "unlink", "test")
  /\ Alive(call[t].ino)
  /\ \E links \in {call[t].links - 1, inode[call[t].ino].nlink} :
       inode' = IF links = 0 THEN [inode EXCEPT ![call[t].ino].kind = "freed"] ELSE inode
  /\ Return(t)
  /\ UNCHANGED <<entries, cached, raced, aliased>>

(* With no links left the file goes: its blocks (see Dedup), its place in
   the cache, its metadata. *)
UnlinkFree(t) ==
  /\ At(t, "unlink", "test")
  /\ Alive(call[t].ino)
  /\ \E links \in {call[t].links - 1, inode[call[t].ino].nlink} :
       IF links = 0
       THEN /\ cached' = cached \ {call[t].ino}
            /\ inode' = [inode EXCEPT ![call[t].ino].kind = "freed"]
       ELSE UNCHANGED <<cached, inode>>
  /\ Return(t)
  /\ UNCHANGED <<entries, raced, aliased>>

(* rmdir: an empty directory is taken out and freed in one critical section. *)
RemoveDirectory(t, p) ==
  LET i == Target(p)
  IN  /\ Taken(p) /\ inode[i].kind = "dir"
      /\ Admitted(t, NewCall("rmdir", "take", p, p, i))
      /\ entries[i] = <<>>
      /\ entries' = [entries EXCEPT ![p[1]] = RemoveAt(@, Find(p))]
      /\ cached' = cached \ {i}
      /\ inode' = [inode EXCEPT ![i].kind = "freed"]
      /\ UNCHANGED <<call, raced, aliased>>

----
(* rename, and calls that use a file *)

(* Mutant: the new path is not looked up. *)
RenameOver(t, p, q) ==
  LET c == NewCall("rename", "take", p, q, Target(p))
  IN  /\ Taken(p) /\ Alive(Target(p))
      /\ q[1] \notin Below(Target(p))
      /\ p # q
      /\ Admitted(t, c)
      /\ Enter(t, c)
      /\ UNCHANGED <<inode, entries, cached, raced, aliased>>

(* rename: the old path leads somewhere, the new one is free.  The kernel
   refuses to move a directory into itself. *)
Rename(t, p, q) ==
  LET c == NewCall("rename", "take", p, q, Target(p))
  IN  /\ Taken(p) /\ Alive(Target(p))
      /\ q[1] \notin Below(Target(p))
      /\ Admitted(t, c)
      /\ ~Taken(q)
      /\ Enter(t, c)
      /\ UNCHANGED <<inode, entries, cached, raced, aliased>>

(* Between two directories the entry is taken from the first under its lock
   and let go; if it is not there any more the call fails ... *)
RenameTake(t) ==
  /\ At(t, "rename", "take") /\ Crosses(call[t])
  /\ LET p == call[t].from IN
     IF Taken(p) THEN /\ entries' = [entries EXCEPT ![p[1]] = RemoveAt(@, Find(p))]
                      /\ Continue(t, "put")
                 ELSE Return(t) /\ UNCHANGED entries
  /\ UNCHANGED <<inode, cached, raced, aliased>>

(* ... then put first into the second under the lock of that. *)
RenamePut(t) ==
  /\ At(t, "rename", "put")
  /\ LET c == call[t] IN
     entries' = [entries EXCEPT ![c.to[1]] = Cons([name |-> c.to[2], ino |-> c.ino], @)]
  /\ Continue(t, "touch")
  /\ UNCHANGED <<inode, cached, raced, aliased>>

(* In one directory the entry gets its name in place. *)
RenameInPlace(t) ==
  /\ At(t, "rename", "take") /\ ~Crosses(call[t])
  /\ LET p == call[t].from IN
     entries' = IF Taken(p) THEN [entries EXCEPT ![p[1]][Find(p)].name = call[t].to[2]]
                            ELSE entries
  /\ Continue(t, "touch")
  /\ UNCHANGED <<inode, cached, raced, aliased>>

(* truncate and the other calls on a file: the path is looked up ... *)
Use(t, p) ==
  LET c == NewCall("use", "touch", p, p, Target(p))
  IN  /\ Taken(p) /\ inode[Target(p)].kind = "file"
      /\ Admitted(t, c)
      /\ Enter(t, c)
      /\ UNCHANGED <<inode, entries, cached, raced, aliased>>

(* ... and the metadata written, with no lock; rename ends the same way. *)
Touch(t) ==
  /\ t \in DOMAIN call /\ call[t].step = "touch"
  /\ Alive(call[t].ino)
  /\ Return(t)
  /\ UNCHANGED <<inode, entries, cached, raced, aliased>>

(* A call by /f@versions gets f's metadata ... *)
UseVersions(t, p) ==
  /\ t \notin DOMAIN call \cup DOMAIN aliased
  /\ Taken(p)
  /\ aliased' = [u \in DOMAIN aliased \cup {t} |-> IF u = t THEN Target(p) ELSE aliased[u]]
  /\ UNCHANGED <<inode, entries, cached, call, raced>>

(* ... and reads or writes it, if it has not been freed meanwhile. *)
TouchVersions(t) ==
  /\ t \in DOMAIN aliased /\ Alive(aliased[t])
  /\ aliased' = Restrict(aliased, DOMAIN aliased \ {t})
  /\ UNCHANGED <<inode, entries, cached, call, raced>>

----
Next ==
  \E t \in Threads :
    \/ \E p \in Reachable \X Names :
         \/ MakeDirectory(t, p) \/ CreateFile(t, p) \/ Symlink(t, p)
         \/ Unlink(t, p) \/ RemoveDirectory(t, p)
    \/ \E p \in Reachable \X (Names \ Marked) :
         \/ Use(t, p) \/ UseVersions(t, p)
         \/ \E q \in Reachable \X Names : Link(t, p, q) \/ Rename(t, p, q)
    \/ AppendEntry(t) \/ CacheInode(t)
    \/ LinkEntry(t) \/ LinkCount(t)
    \/ UnlinkCount(t) \/ UnlinkFree(t)
    \/ RenameTake(t) \/ RenamePut(t) \/ RenameInPlace(t)
    \/ Touch(t) \/ TouchVersions(t)

Spec == Init /\ [][Next]_vars

----
(* Properties *)

Occurrences(i) ==
  {x \in UNION {{d} \X DOMAIN entries[d] : d \in Inodes} : entries[x[1]][x[2]].ino = i}

AtStep(op, step, i) == {t \in DOMAIN call : At(t, op, step) /\ call[t].ino = i}

(* Names of i in directories, and in the hands of a rename. *)
NamesOf(i) == Cardinality(Occurrences(i)) + Cardinality(AtStep("rename", "put", i))

(* nlink is the number of a file's names, give or take the calls between the
   change of the list and that of the count - for every file whose count two
   calls did not change at once.  unlink frees by this count
   (smartbackupfs_basic.c:350-354), and link and rename have to keep it. *)
LinksCounted ==
  \A i \in Inodes \ raced :
    inode[i].kind = "file" /\ AtStep("create", "append", i) = {} =>
      inode[i].nlink = NamesOf(i) + Cardinality(AtStep("unlink", "count", i))
                                  - Cardinality(AtStep("link", "count", i))

(* Whatever exists has a name, or a call in progress is about to give it one
   or to free it; a directory has no more than one.  A rename that stopped
   between its two critical sections would lose a file
   (smartbackupfs_basic.c:521-559), an unlink that kept one would leak it. *)
NothingLost ==
  \A i \in Inodes \ (raced \cup {Root}) :
    Alive(i) =>
      /\ \/ NamesOf(i) > 0
         \/ \E t \in DOMAIN call :
              call[t].ino = i /\ call[t].step \in {"append", "count", "test"}
      /\ inode[i].kind = "dir" => NamesOf(i) <= 1

(* No pointer to freed metadata: not in an entry, not in a call in progress,
   not in the inode cache, which the version cleaner looks inodes up in.  The
   handlers free metadata (smartbackupfs_basic.c:379, 454) that others have
   looked up without a reference to it.  Of the calls that came by /f@versions
   this is not said: what they hold may be freed. *)
NoDanglingPointer ==
  /\ \A i \in Inodes \ raced : NamesOf(i) > 0 => Alive(i)
  /\ \A t \in DOMAIN call : call[t].ino \in raced \/ Alive(call[t].ino)
  /\ \A i \in cached : Alive(i)

(* The name space seen from outside: an entry in the hands of a rename is
   where it is going. *)
MovingTo(p) == {t \in DOMAIN call : At(t, "rename", "put") /\ call[t].to = p}

Seen ==
  [p \in {q \in Places : Taken(q) \/ MovingTo(q) # {}} |->
     IF Taken(p) THEN Target(p) ELSE call[CHOOSE t \in MovingTo(p) : TRUE].ino]

Tree == INSTANCE NameTree WITH
  tree <- Seen,
  dirs <- {Root} \cup {i \in Range(Seen) : inode[i].kind = "dir"}

(* Every call takes effect at once: the handlers' checks and critical
   sections, two of them in a rename, implement a tree of names in which no
   name is given twice, no entry is doubled and only empty directories go.  Of
   names with an '@' it says nothing about being given twice: every entry made
   with one counts as a name of its own (Marked). *)
ImplementsTree == Tree!Spec
====
