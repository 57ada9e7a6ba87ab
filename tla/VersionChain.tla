---- MODULE VersionChain ----
(***************************************************************************)
(* Module B, src/src/module_b/version_manager.c: the chain of incremental  *)
(* versions of one file.  A version_node_t keeps the plain data of the     *)
(* blocks whose rolling checksum differs from its parent's and inherits    *)
(* the others along the parent pointers.  An action is one critical        *)
(* section of chain->lock or of map->lock, which makes its steps atomic.   *)
(* The change check reads the chain's head under map->lock only: a head    *)
(* that is freed meanwhile spoils the checks that have not ended (torn).   *)
(*                                                                         *)
(* Abstractions.  A block's content is one value and one unit of           *)
(* stored_bytes (every block has fs_state.block_size bytes).  The doubly   *)
(* linked list is the set of live nodes in the order they were allocated   *)
(* in (head insertion keeps it so).  Memory allocation succeeds.           *)
(* file_size and the descriptions, recorded at creation and copied to the  *)
(* reader, are left out, and so are the lookups by version id: ids are     *)
(* distinct on the chain (ParentOnChain), so a node stands for its id.     *)
(***************************************************************************)
EXTENDS Integers, FiniteSets, FiniteSetsExt

CONSTANTS
  Contents,    (* what a data block can hold                               *)
  Hole,        (* a NULL data_block_t: the index reads as zeros            *)
  Checksum,    (* rolling_checksum of each content                         *)
  MaxBlocks,   (* bound: blocks in the file                                *)
  MaxNodes,    (* bound: versions created                                  *)
  MaxTime,     (* bound: the clock                                         *)
  MaxPending,  (* FUSE threads in smartbackupfs_write at once              *)
  Keep,        (* version_max_versions                                     *)
  Expire,      (* version_expire_days                                      *)
  Interval,    (* version_time_interval                                    *)
  Limits       (* values given to user.version.max_size_mb; 0: no limit    *)

ASSUME ChainAssumption ==
  /\ Hole \notin Contents
  /\ Checksum \in [Contents -> Nat]
  /\ {MaxBlocks, MaxNodes, MaxTime, MaxPending, Keep, Expire, Interval} \subseteq Nat
  /\ MaxTime > 0 /\ Keep > 0
  /\ 0 \in Limits /\ Limits \subseteq Nat

Idx == 1..MaxBlocks

Block == Contents \cup {Hole}

VARIABLES
  file,      (* block_map_t.blocks                                         *)
  nblocks,   (* block_map_t.block_count                                    *)
  node,      (* the version_node_t on the chain, by allocation number      *)
  serial,    (* version_node_t allocated so far                            *)
  meta,      (* version_count, latest_version_id, last_version_time, pinned *)
  resident,  (* the inode cache still holds the file's metadata            *)
  pending,   (* writers yet to check for a change, those among them that
                may look at a freed head, and writers yet to record one    *)
  limit,     (* fs_state.version_retention_size_mb                         *)
  now        (* time(NULL)                                                 *)

vars == <<file, nblocks, node, serial, meta, resident, pending, limit, now>>

live == DOMAIN node

(* version_id of the chain's head in nd, 0 when the chain is empty. *)
HeadId(nd) == IF DOMAIN nd = {} THEN 0 ELSE nd[Max(DOMAIN nd)].id

(* rolling_checksum, 0 for a block that is not there. *)
Sum(b) == IF b = Hole THEN 0 ELSE Checksum[b]

----
(* Reading along the parent pointers *)

(* snapshot_get_block_data: the data of the first node from u on, along the
   parent pointers, that has any at index i. *)
Fetch(nd, u, i) ==
  LET walk[w \in 0..u] ==
        IF w \notin DOMAIN nd THEN Hole
        ELSE IF nd[w].data[i] # Hole THEN nd[w].data[i]
        ELSE walk[nd[w].parent]
  IN  walk[u]

(* version_manager_read_version_data: the blocks a reader of u gets. *)
ReadVersion(nd, u) ==
  [i \in Idx |-> IF i <= nd[u].count THEN Fetch(nd, u, i) ELSE Hole]

(* Blocks of data held by the chain, the sum of stored_bytes. *)
Stored(nd) == Cardinality({p \in (DOMAIN nd) \X Idx : nd[p[1]].data[p[2]] # Hole})

----
(* Removal and retention *)

(* Mutant: the child is moved to u's parent without its copies. *)
RemoveBare(nd, u) ==
  [w \in DOMAIN nd \ {u} |->
     IF nd[w].parent # u THEN nd[w] ELSE [nd[w] EXCEPT !.parent = nd[u].parent]]

(* Mutant: the child keeps its pointer to the freed node. *)
RemoveDangling(nd, u) == [w \in DOMAIN nd \ {u} |-> nd[w]]

(* Mutant: the child takes u's own data only, and becomes a root. *)
RemoveRoot(nd, u) ==
  [w \in DOMAIN nd \ {u} |->
     IF nd[w].parent # u THEN nd[w]
     ELSE [nd[w] EXCEPT
             !.parent = 0,
             !.data = [i \in Idx |-> IF i <= nd[w].count /\ @[i] = Hole
                                     THEN Fetch(nd, u, i) ELSE @[i]]]]

(* version_remove_node_locked: u leaves the chain; its child first takes a
   copy of whatever it inherited through u, then u's parent. *)
Remove(nd, u) ==
  [w \in DOMAIN nd \ {u} |->
     IF nd[w].parent # u THEN nd[w]
     ELSE [nd[w] EXCEPT
             !.parent = nd[u].parent,
             !.data = [i \in Idx |-> IF i <= nd[w].count /\ @[i] = Hole
                                     THEN Fetch(nd, u, i) ELSE @[i]]]]

(* Mutant: a version expires when there are only as many as shall be kept. *)
ExcessEarly(nd, u, t, lim) ==
  /\ ~nd[u].important
  /\ \/ Cardinality(DOMAIN nd) >= Keep /\ t - nd[u].time > Expire
     \/ lim > 0 /\ Stored(nd) > lim /\ Cardinality(DOMAIN nd) > 1

(* Mutant: important versions expire too. *)
ExcessAny(nd, u, t, lim) ==
  \/ Cardinality(DOMAIN nd) > Keep /\ t - nd[u].time > Expire
  \/ lim > 0 /\ Stored(nd) > lim /\ Cardinality(DOMAIN nd) > 1

(* Mutant: the size limit spares the versions the count limit keeps. *)
ExcessKeep(nd, u, t, lim) ==
  /\ ~nd[u].important
  /\ Cardinality(DOMAIN nd) > Keep
  /\ t - nd[u].time > Expire \/ (lim > 0 /\ Stored(nd) > lim)

(* The policy's reasons to remove u: too many versions and this one expired,
   or too much data and this one not the last. *)
Excess(nd, u, t, lim) ==
  /\ ~nd[u].important
  /\ \/ Cardinality(DOMAIN nd) > Keep /\ t - nd[u].time > Expire
     \/ lim > 0 /\ Stored(nd) > lim /\ Cardinality(DOMAIN nd) > 1

(* version_apply_retention_locked: one pass from the oldest of the nodes
   numbered up to n to the newest. *)
Retain(nd, n, t, lim) ==
  LET pass[k \in 0..n] ==
        IF k = 0 THEN nd
        ELSE LET kept == pass[k - 1]
             IN  IF k \in DOMAIN kept /\ Excess(kept, k, t, lim)
                 THEN Remove(kept, k) ELSE kept
  IN  pass[n]

(* Mutant: only one removal is counted. *)
ForgetOnce(nd) ==
  LET gone == DOMAIN node \ DOMAIN nd
  IN  [meta EXCEPT
         !.count = IF gone = {} THEN @ ELSE Max({0, @ - 1}),
         !.latest = IF \E u \in gone : node[u].id = @ THEN HeadId(nd) ELSE @]

(* What the removals turning node into nd do to the file's metadata. *)
Forget(nd) ==
  LET gone == DOMAIN node \ DOMAIN nd
  IN  [meta EXCEPT
         !.count = Max({0, @ - Cardinality(gone)}),
         !.latest = IF \E u \in gone : node[u].id = @ THEN HeadId(nd) ELSE @]

----
Init ==
  /\ file = [i \in Idx |-> Hole]
  /\ nblocks = 0
  /\ node = [u \in {} |-> Hole]
  /\ serial = 0
  /\ meta = [count |-> 0, latest |-> 0, last |-> 0, pinned |-> FALSE]
  /\ resident = TRUE
  /\ pending = [check |-> 0, torn |-> 0, create |-> 0]
  /\ limit \in Limits
  /\ now = 1

(* smartbackupfs_write up to smart_write_file: a run of blocks gets new
   contents; a gap before it becomes holes. *)
WriteFile ==
  /\ pending.check + pending.create < MaxPending
  /\ \E first \in Idx : \E end \in first..MaxBlocks :
       /\ \E new \in [first..end -> Contents] :
            file' = [i \in Idx |-> IF i \in first..end THEN new[i] ELSE file[i]]
       /\ nblocks' = Max({nblocks, end})
  /\ pending' = [pending EXCEPT !.check = @ + 1]
  /\ UNCHANGED <<node, serial, meta, resident, limit, now>>

(* Mutant: only the blocks the head had are compared. *)
ChangedOld ==
  LET old == node[Max(live)]
  IN  10 * Cardinality({i \in 1..old.count : Sum(file[i]) # old.sums[i]}) > nblocks

(* The file differs from the head in more than a tenth of its blocks. *)
Changed ==
  LET old == node[Max(live)].sums
  IN  10 * Cardinality({i \in 1..nblocks : Sum(file[i]) # old[i]}) > nblocks

(* version_manager_maybe_change_snapshot up to the decision. *)
ChangeCheck ==
  /\ pending.check > pending.torn
  /\ pending' = [pending EXCEPT !.check = @ - 1,
                                !.create = IF live # {} /\ nblocks > 0 /\ Changed
                                           THEN @ + 1 ELSE @]
  /\ UNCHANGED <<file, nblocks, node, serial, meta, resident, limit, now>>

(* The same when the head was freed under it: either outcome. *)
TornCheck ==
  /\ pending.torn > 0
  /\ \E create \in {pending.create, pending.create + 1} :
       pending' = [check |-> pending.check - 1, torn |-> pending.torn - 1, create |-> create]
  /\ UNCHANGED <<file, nblocks, node, serial, meta, resident, limit, now>>

(* The chain's head, if there is one. *)
Heads == IF live = {} THEN {} ELSE {Max(live)}

(* The writers p once only kept is left of a chain that had these heads. *)
Tear(p, heads, kept) ==
  IF heads \subseteq DOMAIN kept THEN p ELSE [p EXCEPT !.torn = p.check]

(* The version_node_t that records the file now, on top of the chain. *)
NewNode ==
  LET parent == IF live = {} THEN 0 ELSE Max(live)
  IN  [id |-> HeadId(node) + 1,
       parent |-> parent,
       count |-> nblocks,
       sums |-> [i \in Idx |-> Sum(file[i])],
       data |-> [i \in Idx |->
                   IF parent # 0 /\ Sum(file[i]) = node[parent].sums[i]
                   THEN Hole ELSE file[i]],
       important |-> FALSE,
       time |-> now]

(* version_manager_create_version: the new node becomes the head, retention
   runs, then the metadata is updated.  When retention has already freed the
   new node, what is read from it then is arbitrary. *)
CreateVersion ==
  /\ serial < MaxNodes
  /\ serial' = serial + 1
  /\ LET grown == [u \in live \cup {serial + 1} |->
                     IF u = serial + 1 THEN NewNode ELSE node[u]]
     IN  /\ node' = IF meta.pinned THEN grown ELSE Retain(grown, serial + 1, now, limit)
         /\ \E id \in 0..MaxNodes, time \in 0..MaxTime :
              /\ serial + 1 \in DOMAIN node' => id = NewNode.id /\ time = now
              /\ meta' = [meta EXCEPT
                   !.count = Max({0, @ - Cardinality(DOMAIN grown \ DOMAIN node')}) + 1,
                   !.latest = id,
                   !.last = time]
  /\ UNCHANGED <<file, nblocks, resident, limit, now>>

(* user.version.create, and the version smartbackupfs_rename takes. *)
CreateManual ==
  /\ CreateVersion
  /\ pending' = Tear(pending, Heads \cup {serial'}, node')

(* A writer that found a change records it. *)
ChangeSnapshot ==
  /\ pending.create > 0
  /\ CreateVersion
  /\ pending' = Tear([pending EXCEPT !.create = @ - 1], Heads \cup {serial'}, node')

(* version_manager_delete_version: the metadata is updated only while the
   inode cache still has it. *)
DeleteVersion(u) ==
  /\ ~node[u].important
  /\ node' = Remove(node, u)
  /\ meta' = IF resident THEN Forget(node') ELSE meta
  /\ pending' = Tear(pending, Heads, node')
  /\ UNCHANGED <<file, nblocks, serial, resident, limit, now>>

(* version_manager_mark_important, through user.version.important. *)
MarkImportant(u) ==
  /\ node' = [node EXCEPT ![u].important = TRUE]
  /\ UNCHANGED <<file, nblocks, serial, meta, resident, pending, limit, now>>

(* Removing user.version.important clears it on the version that was the
   latest when its id was looked up, with no lock: each has been that once. *)
UnmarkLatest(u) ==
  /\ node' = [node EXCEPT ![u].important = FALSE]
  /\ UNCHANGED <<file, nblocks, serial, meta, resident, pending, limit, now>>

(* Setting or removing user.version.pinned. *)
SetPinned ==
  /\ \E b \in BOOLEAN : meta' = [meta EXCEPT !.pinned = b]
  /\ UNCHANGED <<file, nblocks, node, serial, resident, pending, limit, now>>

(* Setting user.version.max_size_mb. *)
SetLimit ==
  /\ limit' \in Limits
  /\ UNCHANGED <<file, nblocks, node, serial, meta, resident, pending, now>>

(* Other files fill the inode cache, which drops this one for good. *)
EvictInode ==
  /\ resident
  /\ resident' = FALSE
  /\ UNCHANGED <<file, nblocks, node, serial, meta, pending, limit, now>>

(* version_manager_create_periodic's test. *)
Due == meta.last = 0 \/ now - meta.last >= Interval

(* version_cleaner_thread_fn on this chain, with the time t read before it
   waited for the lock.  It skips a pinned file, if it can still see that it
   is pinned.  On a resident file that is due the thread stops for ever in
   create_periodic (VersionCleaner): such a pass never reaches retention. *)
CleanerPass ==
  /\ resident => ~meta.pinned /\ ~Due
  /\ \E t \in 1..now : node' = Retain(node, serial, t, limit)
  /\ meta' = IF resident THEN Forget(node') ELSE meta
  /\ pending' = Tear(pending, Heads, node')
  /\ UNCHANGED <<file, nblocks, serial, resident, limit, now>>

Tick ==
  /\ now < MaxTime
  /\ now' = now + 1
  /\ UNCHANGED <<file, nblocks, node, serial, meta, resident, pending, limit>>

Next ==
  \/ WriteFile \/ ChangeCheck \/ TornCheck \/ ChangeSnapshot \/ CreateManual
  \/ \E u \in live : DeleteVersion(u) \/ MarkImportant(u) \/ UnmarkLatest(u)
  \/ SetPinned \/ SetLimit \/ EvictInode \/ CleanerPass \/ Tick

Spec == Init /\ [][Next]_vars

----
(* Properties *)

Node ==
  [id : Nat, parent : Nat, count : 0..MaxBlocks, sums : [Idx -> Nat],
   data : [Idx -> Block], important : BOOLEAN, time : Nat]

Meta == [count : Nat, latest : Nat, last : Nat, pinned : BOOLEAN]

(* A parent pointer is NULL or points at an older node still allocated. *)
WellFormed(nd) ==
  /\ DOMAIN nd \subseteq Nat \ {0}
  /\ nd \in [DOMAIN nd -> Node]
  /\ \A u \in DOMAIN nd : nd[u].parent \in DOMAIN nd \cup {0} /\ nd[u].parent < u

(* The types of the state; pointers are never left dangling. *)
TypeOK ==
  /\ file \in [Idx -> Block]
  /\ nblocks \in 0..MaxBlocks
  /\ serial \in Nat
  /\ live \subseteq 1..serial
  /\ WellFormed(node)
  /\ meta \in Meta
  /\ resident \in BOOLEAN
  /\ pending \in [check : Nat, torn : Nat, create : Nat] /\ pending.torn <= pending.check
  /\ limit \in Nat
  /\ now \in Nat

(* What makes inheritance sound: a node's own data match its checksums, what
   it inherits has its parent's checksum, a root inherits nothing but holes,
   and a hole of the file is a hole of every version. *)
Inherits(nd) ==
  /\ \A u \in DOMAIN nd :
       /\ nd[u].count <= nblocks
       /\ nd[u].parent # 0 => nd[nd[u].parent].count <= nd[u].count
  /\ \A u \in DOMAIN nd, i \in Idx :
       /\ nd[u].data[i] # Hole =>
            i <= nd[u].count /\ Checksum[nd[u].data[i]] = nd[u].sums[i]
       /\ nd[u].data[i] = Hole =>
            nd[u].sums[i] = IF nd[u].parent = 0 THEN 0 ELSE nd[nd[u].parent].sums[i]
       /\ file[i] = Hole => nd[u].data[i] = Hole /\ nd[u].sums[i] = 0
       /\ i > nd[u].count => nd[u].sums[i] = 0

(* The strengthening that makes the next property inductive: removals that
   move data and pointers about keep every node's inheritance sound, and
   there is no block past the end of the file. *)
InheritanceSound ==
  /\ Inherits(node)
  /\ \A i \in Idx : i > nblocks => file[i] = Hole

(* Whatever was removed since, reading a version returns blocks that have the
   checksums it recorded when it was created. *)
ReadMatchesChecksum ==
  \A u \in live : \A i \in Idx : Sum(ReadVersion(node, u)[i]) = node[u].sums[i]

(* The chain is in order: a node's parent is the next older node still there,
   and ids and times grow along it, so that an id names one version even when
   ids of deleted heads are given out again. *)
ParentOnChain ==
  \A u \in live :
    LET older == {w \in live : w < u}
    IN  /\ node[u].parent = IF older = {} THEN 0 ELSE Max(older)
        /\ \A w \in older : node[w].id < node[u].id /\ node[w].time <= node[u].time

(* The metadata never counts fewer versions than there are, and counts them
   exactly as long as the inode cache holds the file. *)
MetaAgrees ==
  /\ meta.count >= Cardinality(live)
  /\ resident => meta.count = Cardinality(live)

(* Once every writer has made its change check, the newest version taken
   shows the file as it is, up to a tenth of its blocks. *)
ChangesSnapshotted ==
  pending.check = 0 /\ pending.create = 0 /\ serial \in live =>
    10 * Cardinality({i \in Idx : Sum(file[i]) # node[serial].sums[i]}) <= nblocks

(* Retention never leaves a file that had versions with none, and without a
   size limit it leaves at least Keep of them. *)
RetentionSpares ==
  [][(CleanerPass /\ live # {}) \/ CreateVersion =>
       /\ live' # {}
       /\ limit = 0 => Cardinality(live') >= Min({Keep, Cardinality(live)})]_vars

(* After a version is created the chain fits the size limit, unless what is
   left is a single version or all important ones; in particular the new
   version itself goes only to make room for important ones. *)
SizeLimitEnforced ==
  [][CreateVersion /\ ~meta.pinned /\ limit > 0 =>
       \/ Stored(node') <= limit
       \/ Cardinality(live') = 1
       \/ \A u \in live' : node'[u].important]_vars

(* Checksums tell contents apart from each other and from no block. *)
CollisionFree ==
  \A c, d \in Contents : Checksum[c] # 0 /\ (Checksum[c] = Checksum[d] => c = d)

Store == INSTANCE VersionStore WITH
  store <- [u \in live |-> ReadVersion(node, u)],
  important <- {u \in live : node[u].important},
  last <- serial

(* Seen through version_manager_read_version_data the chain is a store of
   immutable snapshots: incremental storage, copying on removal and retention
   never change what a surviving version reads as, nor drop an important one. *)
ImplementsStore == Store!Spec
====
