# TLA+ models of SmartBackupFS

This directory models the core of the SmartBackupFS file system (`src/`): the name
space, the version store, the version cleaner, deduplication and compression, the
block cache, the write-ahead log, backups and the integrity scan. TLC checks every
module on small instances; TLAPS proves for all values of the constants every
safety property those runs check, and both refinements. Liveness stays with TLC.

## 1. The system

The program is one FUSE process. FUSE calls handlers in many threads (unless it
is run with `-s`); besides them run the version cleaner, the cache flusher and,
on request, scan and backup threads. All metadata and data live in memory; the
L2/L3 caches, the log segments and the backups are files.

| component | source | state | operations | talks to |
|---|---|---|---|---|
| Namespace | `module_a/smartbackupfs_basic.c` | directories (entry list, lock), inodes (`nlink`, `size`, `blocks`), `total_blocks` | create, mkdir, unlink, rmdir, rename, link, symlink, truncate, xattrs | everything below, by calls |
| Inode cache | `module_a/metadata_manager.c` | hash tables, `lru_cache` of inodes | put (evicts the first bucket's head), get, remove | asked by the cleaner and by delete (`lookup_inode`) |
| Block store | `module_a/metadata_manager.c` | `block_map_t` per file (lock, `blocks[]`), `data_block_t` | allocate, free, read, write, `smart_read_file`, `smart_write_file`, destroy map | dedup on every write, cache on every block |
| Version store (B) | `module_b/version_manager.c` | a chain of `version_node_t` per file, `version_count`, `latest_version_id`, `last_version_time` | create, delete, mark important, read, retention | reads block maps; called by write, rename, unlink, xattrs |
| Version cleaner (B) | `module_b/version_manager.c` | `versions_mutex`, `cleaner_running` | periodic versions, retention of every chain | version store, inode cache |
| Dedup, compression (C) | `module_c/dedup*.c`, `adaptive_compress.c` | `ref_count`, hash, stored form of every block; index hash -> block; global configuration | copy on write, find, index, compress, release | block store |
| Block cache (C) | `module_c/cache.c` | L1 pointers, L2 slots, L3 files | get, put, invalidate, prefetch, trim | block store |
| WAL (D) | `module_d/module_d.c` | segments in memory, `file_written`, segment files | begin, log, commit, roll back, recover | create, write, unlink; the logging wrappers |
| Backup (D) | `module_d/module_d.c` | list of records, `next_backup_id`, `backup_in_progress`, storage path, backup files | create full and incremental, verify, restore, delete, set the path | xattrs; the automatic thread |
| Integrity scan, alerts (D) | `module_d/module_d.c` | `integrity_scan_running`, thread handles, `corrupted_blocks_found`, alert list with its mutex | start, stop, verify a block, alert, health check | the verifying wrappers |
| Integration (D) | `module_d_integration.c` | `automatic_backup_running` and its thread | schedule backups, verify and log around a call, shut down | all of module D |
| Monitors, splitter | `module_c/*` | counters | reports | nothing the program depends on |

What makes each of them correct:

* version store: a version reads as the file was when it was taken, however many
  other versions are removed; the policy keeps what it must and removes what it
  must; the metadata agrees with the chain;
* cleaner: no thread waits for ever; periodic versions are taken;
* dedup: no block is freed while it is referenced, a write ends with a block that
  holds what was written, what is read is plain;
* cache: it never shows anything but what was last written; no pointer to a freed
  block is followed;
* WAL: the files hold beginnings of the log in its order; a segment left behind is
  complete; recovery finds its way through the files;
* namespace: a file has as many links as names and its blocks go with the last;
  rename never loses a file;
* backup: one at a time, and never none for ever; a backup is reported complete
  only when it can be restored; deleting one leaves nothing of it;
* scan: every block is verified once; a stop returns with every thread joined; the
  count of corrupted blocks claims no more than was reported, or would have been with
  memory for the alert.

The hard behaviours are listed line by line under `hazards` in `PROJECT.json`:
long sequences of legal removals, ids and addresses that are reused, stale
pointers and index entries, two locks taken in different orders, references that
reach zero while another thread takes one, flags and lists that threads read and
write without a lock, and crashes between a commit and the segment's write.

## 2. Modules

| module | models | depends on |
|---|---|---|
| `NameTree` | abstract: a tree of names, every operation one step | |
| `Namespace` | directories, links, rename, the inode cache | instantiates `NameTree` |
| `NamespaceProofs` | theorems about `Namespace` | `Namespace`, `TLAPS` |
| `VersionStore` | abstract: a store of immutable snapshots of one file | |
| `VersionChain` | the version chain of one file, its policy and metadata | instantiates `VersionStore` |
| `VersionChainProofs` | theorems about `VersionChain`: reading, refinement; order, retention, metadata | `VersionChain`, `TLAPS` |
| `VersionCleaner` | cleaner thread, writers, `versions_mutex` | |
| `CleanerProofs` | theorems about `VersionCleaner` | `VersionCleaner`, `TLAPS` |
| `Dedup` | life of data blocks: sharing, index, compression, release | |
| `DedupProofs` | theorems about `Dedup` | `Dedup`, `TLAPS` |
| `BlockCache` | three cache levels, block ids | |
| `BlockCacheProofs` | theorems about `BlockCache` | `BlockCache`, `TLAPS` |
| `Wal` | the log in memory and on disk, crash, restart and the parser | |
| `WalProofs` | theorems about `Wal` | `Wal`, `TLAPS` |
| `Backup` | backup records, flag, threads and files; the automatic thread | |
| `BackupProofs` | theorems about `Backup` | `Backup`, `TLAPS` |
| `Integrity` | scan threads, the unlocked counter, alerts | |
| `IntegrityProofs` | theorems about `Integrity` | `Integrity`, `TLAPS` |
| `MC*` | values of the constants for TLC | the module of that name |

### Namespace

`inode` has kind and `nlink` of every inode by number, `entries` the entry list of
every directory, `cached` the keys of `inode_cache`, `call` the calls in progress.
An action is a critical section of one directory's lock, or a handler's lookups
before it. `link` and `unlink` hold the lock of *a* directory when they change
`nlink`, not one of the inode: its load and store are two steps, and `unlink`'s test
for zero uses the value stored or reads the field again. A cross-directory rename is
`Rename`, `RenameTake`, `RenamePut`, `Touch`; the entry is in nobody's list between
the second and the third.

A handler looks a path up and comes back later for the lock, so what else may run
matters. The environment, outside `src/`, is `Apart`: the kernel holds the
directories a call changes, libfuse the entries its path goes through, until the
call has returned; two names of one file are two paths to them, so calls on both
run at once. `raced` remembers the files whose count two calls changed at once. For
them the code keeps no promise (a file is freed while it has a name, or never); the
invariants are about all the others. Mutants that look up less than the code
(`RenameOver`) show that `Apart` alone does not make the names unique.

Paths with an `@` are another matter. `lookup_path` looks for what precedes it, so
that a new name `a@b` is never found to be taken, nor found afterwards, while
`unlink` and `rmdir`, which compare in full, do find it. `Marked` are the names with an
`@`: a member stands for one entry made under such a name, so that the code may make
`a@b` twice and the model has two of them; nothing looks them up, and no path goes
through a directory called so. `/f@versions` leads to the metadata of `/f` by a
second path, which neither the kernel nor libfuse connects with the first: a call that
came by it (`UseVersions`, kept in `aliased` with the inode it holds) is kept apart from
nothing, and `TouchVersions` can be left with metadata that `unlink` has freed.
`NoDanglingPointer` is about the others. Calls on `/f@v1`, which get a copy of the
metadata, and paths with an `@` further up (`/d@v1/f`) are left out.

### VersionChain

`file`/`nblocks` are the block map, `node` the nodes on the chain by allocation number
(so `Max(DOMAIN node)` is `chain->head`), `meta` the version fields of the inode,
`resident` whether `lookup_inode` still finds it, `pending` the FUSE threads between
`smart_write_file` and the end of `version_manager_maybe_change_snapshot`. An action is
a critical section of `chain->lock` or `map->lock`. `Remove` is
`version_remove_node_locked` with its copies into the child; `Retain` is the whole pass
of `version_apply_retention_locked`, in its order; `CreateVersion` includes the pass it
ends with; when that frees the node just made (all the others are important), the code
reads it after the free: id and time are then arbitrary.
`version_manager_maybe_change_snapshot` reads the head of the chain under `map->lock`
only: a step that frees a head which a check may have read makes that check `torn`
(`Tear`), and a torn check comes out either way (`TornCheck`). `UnmarkLatest` unmarks
any live version, as the one that was the latest when it was looked up need not be any
more when the mark is cleared. Each action stands alone on one file: deduplication is
off, as it is by default, so that no other file's write reaches this one's blocks.

### VersionCleaner

What a chain holds is left out; `last` is the time of its last version. `mutex` is who
holds `versions_mutex`, `holder` who holds the lock of each chain, `call` where in
`create_version` a thread is - the cleaner too, when `create_periodic` calls it. A
thread takes the mutex twice: in `get_or_create_chain` (`lock`, `locked`) and, when it
has let its chain go (`chain`, `create`), in the prediction of storage, which walks over
the chains and locks one after the other under it (`collect`, `sampling`, `reading`).
The cleaner holds the mutex from one end of its pass to the other and locks the
chains under it for retention. *Fairness*: weak for the cleaner and for what a thread
does with the locks it has (it runs on its own); strong for getting a lock, the
mutex or a chain's (`CallWait`, `Retention`): the cleaner releases the mutex and sleeps
a minute between passes, every other holder gives a lock back after a few steps, and
a POSIX lock that is free again and again is got by a waiting thread in the end.

### Dedup

`block` is the pool of `data_block_t` by address, `slot` the block maps, `index`
the hash table from 64 bits of the hash. A FUSE thread's write goes through the
places `refs`, `copy`, `hash`, `find`, `index`, `compress`, each a critical section
of `ref_lock` or `global_lock`; releases go through `drop` and `free`. `MaxBusy`
is how many threads are in it: 1 for what sequences of calls can do, 2 for races.
A write that is deduplicated may replace a block by one that is stored compressed
already; the compression step that follows then relabels it. `RelabelsDuplicates`
says that this is the only way a label becomes wrong. `WriteLands` looks at the block
of the thread that writes; what others see of a block written in place while they
share it is not said.

### BlockCache

L1 is the FIFO with the pointers of its table, L2 slots by id modulo their number
with the index that may disagree with them, L3 a map of files with an account of
their size. What L3 evicts, or finds expired when it looks it up, leaves the table
and stays in the account (`lost`), so that from the first put into a full L3 on every
put evicts all of it (`L3Full`): the level ends up with one block. The file-side
actions are those that touch the cache or the id counter. A block that is not in L1
any more is found in L2 and promoted, or loaded from its file. After freed memory has
been used (`broken`) nothing is modelled. `Coherent` speaks of blocks whose id is
their own and that are stored plain: the code breaks it for the others (see the
run `cache_ids`; compressed bytes go to L3 as they are and are read back as plain).

### Wal

`segs` is the list of segments with `file_written`, `disk` the segment files. A write
of a file is two steps, opening (which empties it) and filling, with the mutex held, so
that a crash can fall between; the filling may fail. A crash forgets all but `disk`;
the next run begins at segment 1 again. `failed` remembers, for the properties only,
which segments' last write failed. `Quota` bounds, for each run, when the last
transaction begins. A task is a create, unlink or write (`change`), a logging wrapper,
which logs its data without a header and rolls back when the log was disabled meanwhile
(`wrapped`), or enabling the log, which begins a transaction that nobody ends. `Reads`
is the parser of `md_recover_from_wal_file`: the places it takes for headers, as a
recursive function over the records of a file. A header gives the length of the data
that follows; the code logs at most 1024 bytes of them, so that it may say more than
there is. `RecoveryReads` says for which files the parser keeps its way (`Whole`), two
transactions of two threads one after the other included. Recovery itself only prints.

### Backup

`recs` are the records by address, `list` is `backup_list`, `inProgress` the flag,
`files` the backup files with the state their headers give. Nothing is locked, so
creating a backup is a step for each shared variable it reads or writes: `Ask` (the
flag), `Take` and `Bump` (the two halves of `next_backup_id++`), `Link`, `Flag`,
`Spawn`; an incremental one allocates its record, makes a full one, and enters its
record under the full one's id (`Insert`). A backup thread is `Run`, `Open`,
`Header`, `Rewrite`, `Mark`, each with its failure path. `Delete` frees record and
file whether or not a thread still writes them; from there on the code is undefined
(`broken`). `races` counts calls that began to change list or flag while another
did. Some properties hold whatever races (`TypeOK`, `FlagHonest`), the others only
without, which is what the code can keep. The `Timer` is the thread of
`md_schedule_automatic_backups`, which nothing in the program calls: in the model one
call at a time does, and making the thread succeeds (`Schedule` tests and sets the
flag in one step); `Stop` and `Destroy` are
`module_d_integration_destroy`, which waits for that thread and for no other.
*Fairness*: weak for calls under way, backup threads and the shutdown: they wait
for nothing but time (`sleep`, `pthread_join` of a thread that looks at its flag).

### Integrity

`slot` is `integrity_scanner_threads`, `scan` the threads with their contexts, `found`
the counter. A start sets the flag and makes one thread for each slot; each takes an
equal share of the ids and the last also what is left over, modulo 2^64 (`Width`): with
fewer blocks than threads a share is empty and its end wraps. Only a stop clears the
flag; it then joins slot after slot. A scan thread looks at the flag for every block; a
block that fails is a read and a write of the counter (`CountBlock`) and an alert
(`AlertBlock`), and the same for a caller's block, so that increments get lost. An
alert for which `malloc` fails is dropped, the counter keeping its block: `alerts`
counts those `listed` and those `lost`, and `CountHonest` says that the counter claims
no others. `module_d_destroy` destroys the mutex of the alerts before it stops the scan
(`Destroy`). `gaps` remembers that a thread could not be made: those before it then run
with the flag cleared and are never joined. The id of a thread that was joined may go
to a new one, also while another call still waits for the old (`NewIds`). `StopReturns`
is about stops that have cleared the flag and are joining; another call may set the
flag again before a thread has looked at it. *Fairness*: weak for calls and scan
threads, which run on their own; `Joined` is enabled only when the thread has ended.

## 3. Runs

| run | instance | shows |
|---|---|---|
| `chain` | 1 block, 3 versions, 2 contents, 2 writers, clock 1-2, limits none and 1 | chain order, reading, metadata, change policy, what retention leaves |
| `chain_blocks` | 2 blocks, 3 versions, 1 writer, limits none and 1 | inheritance of some blocks but not others; the refinement of `VersionStore` |
| `cleaner` | 2 files, 2 FUSE threads, clock 1-2 | who holds which lock where; progress of the FUSE threads |
| `cleaner_periodic` | 1 file | periodic versions stop (finding) |
| `dedup` | 2 files of 1 block, 3 addresses, 3 contents (2 with equal keys), 2 algorithms | references, index, writes, labels, one operation at a time |
| `dedup_race` | the same with 2 threads | a reference to a freed block (finding) |
| `cache` | files of 2 and 1 blocks, L1 of 1, L3 of 2, 2 slots, `total_blocks` 0-3, 1 directory | coherence of the levels, pointers |
| `cache_ids` | the same, `total_blocks` -1 to 2 | two blocks with one id (finding) |
| `namespace` | 2 threads, root and 2 inodes, 2 names and 1 with an `@`, an inode cache of 1 | link counts, nothing lost, no dangling pointer; the refinement of `NameTree` |
| `wal` | 2 threads, 8 records a segment, 2 runs | files are prefixes, sealed segments complete, recovery reads whole transactions |
| `backup` | 2 callers and the timer, 2 backup threads, 3 records, 1 directory, ids to 3, 1 race | flag, one at a time, completed backups restore, no file left, flag cleared, shutdown returns |
| `scan` | 2 callers, 2 scan threads, 0, 1 and 3 blocks, ids modulo 4, 3 handles, 2 starts, 2 failing blocks, 1 race | every block once, stops join and return, the counter |

*Why the bounds are enough.* Removal touches a node, its child and its parent: three
versions give a middle one, and removing at both ends; a second deletion needs the
child's copies of the first. In `chain`, `Keep` is 2 of 3 and the clock goes on, so
that a creation or a pass of the cleaner finds one version too many and old enough to
go, or young enough to stay; in `chain_blocks`, where the clock stands, only the size
limit removes, and it is below what one version may store. In `cleaner`, two threads
wait for each other's chains while one samples both. In `dedup`, two files and three
addresses are enough for a shared block, a private copy and one being freed whose
address comes back. In `cache`, `total_blocks` goes up to 3, so that blocks 0, 1 and 2
are there at once: 0 and 2 share the slot that has no index entry, 1 has the other; a
budget of 1 drops the older of any two from L1, so that a read finds it in L2 or loads
it from L3, and the room of 2 evicts on the third. In `wal`, a segment holds two
transactions of four records: a file has the whole of both, of one thread or of two, or
their records mixed; with the lone record of enabling the log in front of them, the
first run rolls over in the middle of the second; the next run writes over the first
one's files. In `namespace`, two inodes are a directory and a file with names in two
directories, or two directories of which one moves into the other; two names that are
found and one that is not, in each, let two threads link and unlink one file at once,
and a cache of one evicts. `serial`, `now`, ids and segments are cut by guards that
name their bound (`MaxNodes`, `MaxTime`, `Ids`, `MaxIno`, `Quota`, `MaxRuns`, `MaxId`,
`MaxStarts`, `MaxReports`, `MaxRaces`). `Quota` and `MaxRaces` bound only what begins:
a transaction that has begun is logged to its end, and a call that races ends. In
`backup`, three ids are a backup, one that races with it and one after both; a full and
an incremental record of each use up three records, so that `malloc` also fails. In
`scan`, three blocks and two threads leave one over, one block leaves a share empty and
wrapped, none makes the start give up; the third handle lets a second scan begin while
a thread of the first was not joined. `dedup` uses the symmetry of files and of
addresses, `wal` and `namespace` that of threads, `namespace` also that of names (those
with an `@` apart), `cache` that of the contents that are not compressed; runs that
check liveness use none. `CHECK_DEADLOCK FALSE` in the cache runs, `namespace`,
`backup` and `scan`: nothing is modelled once freed memory or a destroyed mutex has
been used, and after a shutdown, or at the bounds, nothing need happen.

Every property of a passing run comes with a mutant of the code that breaks it
(`mutants` in `PROJECT.json`): the child that does not copy, the last version
expired, the new path not looked up, the reference not counted, the L3 entry left,
the full segment not written, the flag not cleared on a failure, the blocks that
the division leaves over not scanned.

## 4. Proofs

### The version chain

`VersionChainProofs` proves, for every number of blocks, versions and pending
writers, every policy, clock and set of contents:

* `TypeCorrect`: `Spec => []TypeOK`;
* `InheritanceCorrect`: `Spec => []InheritanceSound`;
* `ReadsCorrect`: `Spec => []ReadMatchesChecksum`;
* `Implementation`: with collision-free checksums (`CollisionFree`), `Spec =>
  ImplementsStore`, by step simulation with `VersionStore`.

The assumptions are `ChainAssumption` (evaluated by TLC in every run) and, for the
last, `CollisionFree`: with a 32-bit rolling checksum that is an idealisation; without
it `ReadsCorrect` is what remains.

*The argument.* `TypeOK` alone is not enough for reading: a removal moves data
into the child, so it must be known that whatever a node inherits has the checksum
it recorded. `InheritanceSound` says this link by link (own data has the recorded
checksum; an inherited block has the parent's; a root inherits nothing but holes;
a block count never shrinks along the chain). `TypeOK /\ InheritanceSound` is
inductive (`InvNext`). Reading follows from it by a strong induction along the
pointers (`FetchSound`), done as a least-counterexample argument since the parent
is older. `RemoveSound` says that a removal preserves it and does not change what
any other node reads as, `RetainSound` lifts that to the pass, `GrownSound` and
`CreateSound` treat the new head. The refinement (`StoreStep`) uses the same lemmas
and that an important node never satisfies `Excess`.

The second half of the module builds on it, from `ChainAssumption` alone:

* `OrderCorrect`: `Spec => []ParentOnChain`;
* `RetentionCorrect`: `Spec => RetentionSpares`;
* `LimitCorrect`: `Spec => SizeLimitEnforced`;
* `CountsCorrect`: `Spec => []MetaAgrees`;
* `SnapshotCorrect`: `Spec => []ChangesSnapshotted`.

*The argument.* `ParentOnChain` speaks of the newest of the older versions, which a
removal changes; `OrderInv` says the same without it (no version lies between one
and its parent, ids and times grow, no version is younger than the clock), and is
inductive with the invariant above. A pass of retention is a recursive function that
visits versions oldest first; `Passed` says what it leaves, whichever version it
has come to, by a least-counterexample argument. Its core is `PassSpares`: a pass that
spares a version which is not important removes nothing after it, since later
versions are newer and the chain is the same; so that version would still be spared
at the end, and a chain left over the limit has one version or only important ones.
The count needs that a pass removes what it subtracts (`CountedDown`) and leaves at
least one version. `ChangesSnapshotted` needs that a check which finds no change
compares with the newest version over all the blocks of the file (`CheckSound`), and that
a check whose head was freed leaves either no newest version or one taken since.

### The version cleaner

`CleanerProofs` proves, for every set of files, interval and clock
(`CleanerAssumption`):

* `CleanerTypes`: `Spec => []TypeOK`;
* `StuckForEver`: `Spec => [](call[Cleaner] = "lock" => []Stuck)`.

*The argument.* `TypeOK` says who holds which lock where: a thread holds
the mutex exactly in the two stretches of `create_version` that have it, the cleaner
exactly during its pass, a chain's lock only where its holder goes on by itself or
has the mutex already, and nobody waits for the mutex with a chain locked. It
needs one invariant more (`CleanerCalls`): the cleaner calls `create_version` only in
the middle of a visit, and then it holds the mutex, so that it never gets past the
first lock. Since only the holder unlocks, what the finding `cleaner_periodic` shows in
one behaviour is the end of every behaviour in which a periodic version is due for a
file whose inode is resident and not pinned when the cleaner visits it.

### Deduplication

`DedupProofs` proves, for every number of files, block indices, addresses, contents
and algorithms (`DedupAssumption`), when one thread at a time is in a write or an
unlink (`OneBusy`, as when the program is run with `-s`):

* `DedupTypes`: `Spec => []TypeOK`;
* `RefsCorrect`: `Spec => []RefsCover`;
* `WriteCorrect`: `Spec => []WriteLands`;
* `LabelsCorrect`: `Spec => []RelabelsDuplicates`;
* `NoneFreed`: `Spec => []NoDangling`.

With two threads `NoDangling` is false (run `dedup_race`). That a byte sum is never
taken for a SHA-256 is an idealisation, which `DedupAssumption` states.

*The argument.* The five are proved together, as each needs the others. A step adds
a reference and a count (`OneMore`), takes both away (`OneLess`) or hands the
reference of a slot over to the thread that is about to release it (`Handed`). The
point that needs an invariant of its own is that a block found in the index is in
use: entries outlive changes of a block's hash, and freeing a block removes one
entry only. `IndexInv` says what saves the code: a freed block keeps its last hash
and is not in the index under *that* hash, so that comparing hashes in
`dedup_find_duplicate` rejects every stale entry (`DuplicateHolds`); `DataInv` then
gives that equal hashes are equal contents, since what is looked for is never the
byte sum.

### The log

`WalProofs` proves, for every number of threads, capacity and bound
(`WalAssumption`):

* `WalTypes`: `Spec => []TypeOK`;
* `WalPrefix`: `Spec => []FilePrefix`;
* `WalSealed`: `Spec => []SealedOnDisk`;
* `WalRecovers`: `Spec => []RecoveryReads`.

*The argument.* A step can do one of six things to segments and files: nothing
(`Quiet`), log the first record of all (`FirstLogged`), append one (`Logged`), empty
the current file (`Opened`), fill it, with or without a new segment behind it
(`Filled`), or die (`Crash`). `TypeInv` has what the types do not say: who fills a
file holds the mutex, has a segment, its file exists, and the segment is full if a
new one is to be begun. Then the two facts about files are inductive over the six
effects: that a file begins its segment (`FileBegins`) needs that records are only
appended and only the current file is touched; that a sealed one is all of it
(`FileSealed`) that a segment is left behind only by the step that has just written
it. `RecoveryReads` is about `Reads`, a recursive function: `HeadersSolve` shows that
the positions of the headers, and the end, solve its equation on a file of whole
transactions, `SolvedOnce` that nothing else does, by a least counterexample. It rests
on a fact of the types: of the records only the header of an entry announces data.

### The block cache

`BlockCacheProofs` proves, for every number of files, blocks, slots and ids, every
budget and every room (`CacheAssumption`):

* `CacheTypes`: `Spec => []TypeOK`;
* `CachePointers`: `Spec => []NoStalePointer`;
* `CacheCoherent`: `Spec => []Coherent`;
* `IdsUnique`: `Init /\ [][Next /\ total' >= total]_vars => []UniqueIds`.

*The argument.* `Inv` states the three invariants for any blocks `bl` and any cache
`c`, since one operation makes several caches in turn. What it adds to the types is
that a block's entry in L2's index is at the slot of its id, and never at slot 0:
then the block which leaves a slot is the one whose entry must go (`PutIndex`), and
nothing of an id stays behind when it is invalidated. An operation on the cache leaves
the other ids as they were or drops them (`RestKept`), or drops only (`Fewer`); so
`Coherent` need be shown for the id that is put alone (`PutGood`), from what the
pointer leads to (`Fits`). Ids that are given out twice do no harm to blocks with one
of their own: a block comes to have its own id only when all others with it are freed,
and `FreeAll` drops their ids from every level (`FreeAllDoes`, along the levels of the
recursive function). `IdsUnique` tells where the finding `cache_ids` comes from: from
`unlink` and `rmdir` lowering `total_blocks`, and from nothing else.

### Backups

`BackupProofs` proves, for every number of callers, threads, records and directories
and every bound (`BackupAssumption`):

* `BackupTypes`: `Spec => []TypeOK`;
* `FlagCorrect`: `Spec => []FlagHonest`;
* `OneBackup`: `Spec => []OneAtATime`;
* `BackupRestores`: `Spec => []CompletedRestores`;
* `BackupFiles`: `Spec => []NoOrphanFile`.

*The argument.* That the list holds no record twice and none that is free is not
inductive: it must be known who owns a record that is not in the list yet. `TypeInv`
adds that two calls never own the same record, that no owned record is free, and
that a record about to be linked is in nobody's list (`Owners`). `FlagHonest` needs
in addition only that a step which takes a thread or a call away from what the flag
stands for clears it or puts the other in its place. `OneAtATime` has a
strengthening of its own (`Solo`): without a race one call at most is changing
anything; between the test of the flag and setting it the flag is not set, while
a thread is about to be made no thread is busy, and a busy thread has the flag set
and is alone. The two properties of files need `Kept` besides, as long as
calls have not overlapped and no memory in use was freed (`FileInv`): a record has a
path only if it is a full backup whose thread has run, and the path has its id
(`Fits`); no two full backups in the list have one id, so that paths are not shared
and a lookup by id ends at the right record or at an incremental one in front of it
(`RecsFine`); the call under way has an id nobody else has and records without a file
(`CallFine`); a thread's record is in the list and its file is as far as its step says
(`ThreadFine`). From these each step is checked against the files (`FilesFine`). That
no address, directory or path is NULL is assumed (`BackupAssumption`).

### The integrity scan

`IntegrityProofs` proves, for every number of callers, scan threads, blocks and
thread ids and every bound (`IntegrityAssumption`):

* `IntegrityTypes`: `Spec => []TypeOK`;
* `CountCorrect`: `Spec => []CountHonest`;
* `StopCorrect`: `Spec => []StopJoins`;
* `SweepCorrect`: `Spec => []Sweep`.

*The argument.* Three invariants stand behind these. `CountInv` says that what
anyone has read of the counter, like the counter itself, is no more than the alerts
listed, lost for want of memory or about to be raised; so whoever writes it back, one
higher, and then raises an alert keeps it so, whatever it overwrites and whether or not
the alert finds memory.
`Owned` (unless starts and stops raced) gives every slot a thread of its own and the
management to one call at a time; `Filled` (if in addition no start failed) says
which slots have a thread at each point of a start and a stop, from which the types
and `StopJoins` follow. `SweepInv` adds where each thread is: of its share exactly
the blocks before its position have been verified, and a share whose thread is not
made yet is untouched. That the shares cover the blocks without gap or overlap is
arithmetic (`Shares`); it needs a block for every thread, since otherwise the
subtraction wraps.

### The name space

`NamespaceProofs` proves, for every finite set of threads and names, with an `@` or
without, every number of inodes and every size of the cache (`NamespaceAssumption`):

* `NamespaceTypes`: `Spec => []TypeOK`;
* `LinksCorrect`: `Spec => []LinksCounted`;
* `NothingIsLost`: `Spec => []NothingLost`;
* `PointersCorrect`: `Spec => []NoDanglingPointer`;
* `TreeImplemented`: `Spec => ImplementsTree`, the refinement of `NameTree`.

*The argument.* The lists of entries are reduced to `places`: the set of the places
each inode is found at. The lemmas on lists say that appending, putting in front and
taking out by name add and remove one place, and a bijection between places and
occurrences in the lists (`OccurrencesCounted`) turns `NamesOf` into the size of that
set plus the renames in flight. None of the four properties is inductive. What is
needed in addition: no directory has a name twice (`OrderInv`); the calls in
progress were kept apart by the environment when they came in and still are
(`ApartInv`), so that a call on an entry finds it as it left it and a directory
being removed stays empty; each call holds what its step says (`CallFine`): a
rename in flight has its entry out of the first directory and a free place in the
second, a call that will count holds the count it loaded unless the inode is in
`raced`. Then a step is about one inode: `InodeFine` says of an inode that its count
and its places agree, that unused and freed ones are nowhere, and that a directory
has one place; every action has a lemma that it keeps this for its own inode, and
`Elsewhere` and `OtherFine` that it keeps it for the others.

The refinement needs one invariant more (`TreeInv`): no one has hold of the root, and
a place that has an entry, or that a call is about to fill, is in a directory that is
itself in the tree. It holds since a path starts in `Reachable` (`BelowRoot`) and no
directory is removed while a call fills a place in it, as the two change the same
directory. Then what a step does to the places held tells which operation on the tree
it is: one more makes or links (`Grows`), one for another moves (`Shifts`), one less
removes (`Shrinks`), and all else is not seen (`Unseen`): the second half of a rename
too, as its entry is seen where it goes since the first. For an entry whose name
has an `@` the tree has a name of its own, so that of such names the theorem does not say
that they are given once. The calls by `/f@versions` change nothing that the invariants
speak of; what they hold is an inode of the model and no more (`AliasInv`).

### Only model-checked

The liveness properties: `WritersProgress`, `FlagClears`, `ShutdownReturns`,
`ScanStops` and `StopReturns`. Liveness under fairness and `ENABLED` are out of the
prover's reach. Every other property of a passing run is stated by a theorem.

## 5. Findings

Three runs show where the code does other than a comment or a document of the
repository says (details and quotations in `PROJECT.json`): the cleaner locks a mutex
it holds (`cleaner_periodic`); releasing and finding a block race (`dedup_race`);
block ids are not unique (`cache_ids`).

These are in the models but in no run of their own:

* a compressed block found as a duplicate is relabelled, and then read as plain
  (what `RelabelsDuplicates` leaves open);
* commits after the first in a segment are not flushed (`Flush`);
* a promotion from L2 frees the block it promotes (`broken` in `BlockCache`); what L3
  evicts stays in its account, so that once full it holds one block (`lost`);
* two calls on two names of one file can both change its `nlink` (`raced` in
  `Namespace`);
* a name with an `@` can be entered twice and is not found under it, and a call by
  `/f@versions` may use metadata that `unlink` has freed (`Marked` and `aliased` in
  `Namespace`);
* the change check reads a head that another thread may have freed (`torn` in
  `VersionChain`);
* an alert for which there is no memory is lost though its block stays counted
  (`alerts` in `Integrity`);
* deleting a running backup frees the record its thread writes to; verifying
  only opens the file, so that a failed backup can become VERIFIED; an incremental
  backup is entered under the id of its full one and hides it (`Backup`);
* a scan that is over still counts as running, until a stop; a start that fails
  leaves threads nobody joins; the alert mutex is destroyed before the scan is
  stopped (`Integrity`). `get_total_blocks_count` is a stub that returns 1000, so
  the wrapped range is latent;
* `md_write_with_verification` stores no data and computes its checksum other than
  the verification does (read, not modelled).

## 6. Not modelled, and the plan

Left out for good: the monitors, prediction and load (only reported; the locks
the prediction takes are in `VersionCleaner`), the splitter
and the stubs (no caller), reports and statistics of module D, the codecs (only what
they leave stored matters), `md_integrated_write_block` (it stores no data),
`md_cleanup_committed_transactions` and `fs_destroy` (no caller), and the unmount
(`smartbackupfs_destroy` frees what is in the root directory).

Next, in this order:

1. `Namespace` with the version cleaner, which uses inodes it looked up in the
   cache while unlink frees them; lookups that run into a rename.
2. `BlockCache` with interleaved operations; a composition of `BlockCache` and
   `Dedup` in which a slot's block is replaced on the way.
3. Proofs: what the invariants of `Dedup` keep when two threads are in writes, short of
   the race that `dedup_race` shows.
