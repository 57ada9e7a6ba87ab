---- MODULE Backup ----
(***************************************************************************)
(* Module D: backups.  src/src/module_d/module_d.c keeps a list of backup  *)
(* records and one flag, backup_in_progress; a thread per backup writes a  *)
(* file and marks the record.  module_d_integration.c adds a thread that   *)
(* asks for a backup at intervals.  Nothing is locked.                     *)
(*                                                                         *)
(* FUSE threads create backups and set the storage path (setxattr,         *)
(* smartbackupfs_basic.c); the other operations are the module's interface *)
(* and one call of theirs that only walks the list is one step.  The model *)
(* begins when there is a storage path: after md_backup_init or, in the    *)
(* program, the first setxattr.  A record is an address: freed, it can be  *)
(* handed out again.                                                       *)
(*                                                                         *)
(* Abstractions.  A backup's file is named by directory and id: two        *)
(* backups that races gave one id also start in one second.  malloc fails  *)
(* only when every address is in use.  The list is a sequence, its next    *)
(* pointers included.  Of a file the state in its header is kept, of the   *)
(* statistics nothing.  One call at a time schedules automatic backups and *)
(* makes their thread, so that testing and setting the flag is one step; a *)
(* call that cannot make the thread resets the flag and is left out.       *)
(***************************************************************************)
EXTENDS Integers, Sequences, SequencesExt

CONSTANTS
  Callers,    (* threads that call the interface                           *)
  Timer,      (* the thread of md_schedule_automatic_backups               *)
  Threads,    (* backup threads that may exist at once                     *)
  Recs,       (* addresses of records                                      *)
  Dirs,       (* storage directories                                       *)
  None,       (* no record, no path                                        *)
  MaxId,      (* bound: backups begin while next_backup_id is at most this *)
  MaxRaces    (* bound: calls begin while races are fewer                  *)

Actors == Callers \cup {Timer}
Ids == 0..MaxId
Paths == [dir : Dirs, id : Ids]

ASSUME BackupAssumption ==
  /\ Timer \notin Callers
  /\ None \notin Recs \cup Dirs \cup Paths
  /\ Dirs # {}
  /\ {MaxId, MaxRaces} \subseteq Nat

VARIABLES
  recs,        (* the records; state UNUSED: the address is free           *)
  list,        (* backup_list, the newest first                            *)
  nextId,      (* next_backup_id                                           *)
  inProgress,  (* backup_in_progress                                       *)
  storage,     (* backup_storage_path; None: freed                         *)
  files,       (* backup files: the state in the header, or "empty" before
                  one is written, "torn" after half a write                *)
  thread,      (* backup threads                                           *)
  call,        (* calls under way                                          *)
  auto,        (* automatic_backup_running, and whether its thread lives   *)
  life,        (* "up", "stopping" and "down": module_d_integration_destroy *)
  races,       (* history: how often a call began to change the list or the
                  flag while another did                                   *)
  broken       (* memory was freed that a thread or a call still uses: what
                  follows is undefined, and nothing is modelled after it   *)

vars == <<recs, list, nextId, inProgress, storage, files, thread, call,
          auto, life, races, broken>>

Unused == [id |-> 0, type |-> "FULL", state |-> "UNUSED", path |-> None]
Fresh(id) == [Unused EXCEPT !.id = id, !.state = "PENDING"]
Free == {r \in Recs : recs[r].state = "UNUSED"}

(* The address malloc returns: which one makes no difference. *)
Malloc == CHOOSE r \in Free : TRUE

NoCall == [pc |-> "idle", id |-> 0, rec |-> None, head |-> None, incr |-> None]
NoThread == [pc |-> "idle", rec |-> None, path |-> None, linked |-> FALSE]

Busy(t) == thread[t].pc # "idle"

(* Calls from the moment they found no backup in progress, or are about to
   enter an incremental record, until they return. *)
Changing(c) == call[c].pc \notin {"idle", "repath"}
Overlap(c) == IF \E d \in Actors \ {c} : Changing(d) THEN 1 ELSE 0

(* What still points to a record: its thread, or a call. *)
InUse(r) ==
  \/ \E t \in Threads : Busy(t) /\ thread[t].rec = r
  \/ \E c \in Actors : r \in {call[c].rec, call[c].head, call[c].incr}

Listed == {list[k] : k \in DOMAIN list}

(* The place of the first record with its id, where the walk for the id ends. *)
Found(k) == \A j \in 1..(k - 1) : recs[list[j]].id # recs[list[k]].id

Init ==
  /\ recs = [r \in Recs |-> Unused]
  /\ list = <<>>
  /\ nextId = 1
  /\ inProgress = FALSE
  /\ storage \in Dirs
  /\ files = [p \in Paths |-> "absent"]
  /\ thread = [t \in Threads |-> NoThread]
  /\ call = [c \in Actors |-> NoCall]
  /\ auto = [on |-> FALSE, lives |-> FALSE]
  /\ life = "up"
  /\ races = 0
  /\ broken = FALSE

----
(* Creating a backup: each step reads or writes one shared variable. *)

Ready(c) ==
  c \in Callers /\ call[c].pc = "idle" /\ life = "up" /\ races < MaxRaces

(* Mutant: a backup is created whether or not one is in progress. *)
AskAnyway(c) ==
  /\ \/ Ready(c)
     \/ c = Timer /\ auto.lives /\ auto.on /\ call[c].pc = "idle" /\ races < MaxRaces
  /\ nextId <= MaxId
  /\ call' = [call EXCEPT ![c].pc = "take"]
  /\ races' = races + Overlap(c)
  /\ UNCHANGED <<recs, list, nextId, inProgress, storage, files, thread, auto,
                 life, broken>>

(* md_create_full_backup finds no backup in progress. *)
Ask(c) ==
  /\ \/ Ready(c)
     \/ c = Timer /\ auto.lives /\ auto.on /\ call[c].pc = "idle" /\ races < MaxRaces
  /\ ~inProgress /\ nextId <= MaxId
  /\ call' = [call EXCEPT ![c].pc = "take"]
  /\ races' = races + Overlap(c)
  /\ UNCHANGED <<recs, list, nextId, inProgress, storage, files, thread, auto,
                 life, broken>>

(* md_create_incremental_backup finds its base and allocates its own record;
   the full backup it starts is refused while another is in progress, and it
   goes on with id 0. *)
AskIncremental(c) ==
  /\ Ready(c) /\ nextId <= MaxId
  /\ Listed # {}
  /\ Free # {}
  /\ recs' = [recs EXCEPT ![Malloc] = Fresh(0)]
  /\ call' = [call EXCEPT ![c].pc = IF inProgress THEN "insert" ELSE "take",
                          ![c].incr = Malloc]
  /\ races' = races + Overlap(c)
  /\ UNCHANGED <<list, nextId, inProgress, storage, files, thread, auto, life, broken>>

(* The full backup returns id: to its caller, or to the incremental backup
   that started it. *)
Returned(c, id) ==
  IF call[c].incr = None THEN NoCall
  ELSE [NoCall EXCEPT !.pc = "insert", !.id = id, !.incr = call[c].incr]

(* next_backup_id++ is a read and a write.  A call that comes to the bound
   MaxId late ends as if malloc had failed. *)
Take(c) ==
  /\ call[c].pc = "take"
  /\ call' = [call EXCEPT ![c] = IF nextId <= MaxId
                                 THEN [@ EXCEPT !.pc = "bump", !.id = nextId]
                                 ELSE Returned(c, 0)]
  /\ UNCHANGED <<recs, list, nextId, inProgress, storage, files, thread, auto,
                 life, races, broken>>

Head1 == IF list = <<>> THEN None ELSE list[1]

(* The record is allocated, filled, and points to the head of the list. *)
Bump(c) ==
  /\ call[c].pc = "bump"
  /\ nextId' = call[c].id + 1
  /\ IF Free # {}
     THEN /\ recs' = [recs EXCEPT ![Malloc] = Fresh(call[c].id)]
          /\ call' = [call EXCEPT ![c].pc = "link", ![c].rec = Malloc, ![c].head = Head1]
     ELSE /\ call' = [call EXCEPT ![c] = Returned(c, 0)]
          /\ UNCHANGED recs
  /\ UNCHANGED <<list, inProgress, storage, files, thread, auto, life,
                 races, broken>>

(* The list from a node on: all of it, unless it has changed since the node
   was read as its head. *)
From(head) ==
  IF \E k \in DOMAIN list : list[k] = head
  THEN SubSeq(list, CHOOSE k \in DOMAIN list : list[k] = head, Len(list))
  ELSE <<>>

(* The record becomes the head: a full one, or the incremental one at the
   end of its call. *)
Link(c) ==
  /\ call[c].pc \in {"link", "enter"}
  /\ list' = <<call[c].rec>> \o From(call[c].head)
  /\ call' = [call EXCEPT ![c] = IF @.pc = "link" THEN [@ EXCEPT !.pc = "flag"]
                                 ELSE NoCall]
  /\ UNCHANGED <<recs, nextId, inProgress, storage, files, thread, auto, life, races, broken>>

Flag(c) ==
  /\ call[c].pc = "flag"
  /\ inProgress' = TRUE
  /\ call' = [call EXCEPT ![c].pc = "spawn"]
  /\ UNCHANGED <<recs, list, nextId, storage, files, thread, auto, life,
                 races, broken>>

(* pthread_create succeeds or fails; the record stays in the list. *)
Spawn(c) ==
  /\ call[c].pc = "spawn"
  /\ \/ /\ \E t \in Threads : ~Busy(t)
        /\ thread' = [thread EXCEPT ![CHOOSE t \in Threads : ~Busy(t)] =
                        [NoThread EXCEPT !.pc = "run", !.rec = call[c].rec]]
        /\ call' = [call EXCEPT ![c] = Returned(c, @.id)]
        /\ UNCHANGED inProgress
     \/ /\ inProgress' = FALSE
        /\ call' = [call EXCEPT ![c] = Returned(c, 0)]
        /\ UNCHANGED thread
  /\ UNCHANGED <<recs, list, nextId, storage, files, auto, life, races,
                 broken>>

(* The incremental record takes the id the full one has, or 0. *)
Insert(c) ==
  /\ call[c].pc = "insert"
  /\ recs' = [recs EXCEPT ![call[c].incr] =
                [@ EXCEPT !.id = call[c].id, !.type = "INCREMENTAL", !.state = "PENDING"]]
  /\ call' = [call EXCEPT ![c] = [NoCall EXCEPT !.pc = "enter", !.rec = call[c].incr,
                                                !.head = Head1]]
  /\ UNCHANGED <<list, nextId, inProgress, storage, files, thread, auto, life, races, broken>>

----
(* The backup thread *)

(* The thread writes to its record. *)
Write(t, state) == recs' = [recs EXCEPT ![thread[t].rec].state = state]

Ended(t) == thread' = [thread EXCEPT ![t] = NoThread]

(* RUNNING, and the path, built from a storage path that may just have been
   freed. *)
Run(t) ==
  /\ thread[t].pc = "run"
  /\ LET r == thread[t].rec
         p == [dir |-> storage, id |-> recs[r].id]
     IN  IF storage = None
         THEN broken' = TRUE /\ UNCHANGED <<recs, thread>>
         ELSE /\ recs' = [recs EXCEPT ![r].state = "RUNNING", ![r].path = p]
              /\ thread' = [thread EXCEPT ![t].pc = "open", ![t].path = p]
              /\ UNCHANGED broken
  /\ UNCHANGED <<list, nextId, inProgress, storage, files, call, auto, life, races>>

(* The backup has failed, and none is in progress. *)
Fail(t) ==
  /\ Write(t, "FAILED")
  /\ inProgress' = FALSE

(* Mutant: a file that cannot be created leaves the flag as it is. *)
OpenStuck(t) ==
  /\ thread[t].pc = "open"
  /\ \/ /\ files' = [files EXCEPT ![thread[t].path] = "empty"]
        /\ thread' = [thread EXCEPT ![t].pc = "header", ![t].linked = TRUE]
        /\ UNCHANGED <<recs>>
     \/ /\ Write(t, "FAILED")
        /\ Ended(t) /\ UNCHANGED files
  /\ UNCHANGED <<list, nextId, inProgress, storage, call, auto, life, races, broken>>

(* The file is created or emptied, or cannot be. *)
Open(t) ==
  /\ thread[t].pc = "open"
  /\ \/ /\ files' = [files EXCEPT ![thread[t].path] = "empty"]
        /\ thread' = [thread EXCEPT ![t].pc = "header", ![t].linked = TRUE]
        /\ UNCHANGED <<recs, inProgress>>
     \/ Fail(t) /\ Ended(t) /\ UNCHANGED files
  /\ UNCHANGED <<list, nextId, storage, call, auto, life, races, broken>>

(* The file a thread has open, unless its name is gone. *)
Written(t, contents) ==
  IF thread[t].linked THEN [files EXCEPT ![thread[t].path] = contents] ELSE files

(* unlink: open descriptors keep a file without a name. *)
Unlinked(p) == [t \in Threads |-> [thread[t] EXCEPT !.linked = @ /\ thread[t].path # p]]

(* The header says RUNNING; if it cannot be written the file is removed. *)
Header(t) ==
  /\ thread[t].pc = "header"
  /\ \/ /\ files' = Written(t, "RUNNING")
        /\ thread' = [thread EXCEPT ![t].pc = "copy"]
        /\ UNCHANGED <<recs, inProgress>>
     \/ /\ files' = [files EXCEPT ![thread[t].path] = "absent"]
        /\ thread' = [Unlinked(thread[t].path) EXCEPT ![t] = NoThread]
        /\ Fail(t)
  /\ UNCHANGED <<list, nextId, storage, call, auto, life, races, broken>>

(* Mutant: a header that cannot be rewritten counts as written. *)
RewriteBlind(t) ==
  /\ thread[t].pc = "copy"
  /\ \E contents \in {"COMPLETED", "RUNNING", "torn"} : files' = Written(t, contents)
  /\ thread' = [thread EXCEPT ![t].pc = "mark"]
  /\ UNCHANGED <<recs, inProgress, list, nextId, storage, call, auto, life,
                 races, broken>>

(* The backup is simulated by a sleep; then the header is rewritten.  A
   failure leaves the file, with the old header or a part of the new one. *)
Rewrite(t) ==
  /\ thread[t].pc = "copy"
  /\ \/ /\ files' = Written(t, "COMPLETED")
        /\ thread' = [thread EXCEPT ![t].pc = "mark"]
        /\ UNCHANGED <<recs, inProgress>>
     \/ /\ \E contents \in {"RUNNING", "torn"} : files' = Written(t, contents)
        /\ Ended(t) /\ Fail(t)
  /\ UNCHANGED <<list, nextId, storage, call, auto, life, races, broken>>

(* Mutant: a completed backup leaves the flag set. *)
MarkStuck(t) ==
  /\ thread[t].pc = "mark"
  /\ Write(t, "COMPLETED")
  /\ Ended(t)
  /\ UNCHANGED <<list, nextId, inProgress, storage, files, call, auto, life, races, broken>>

Mark(t) ==
  /\ thread[t].pc = "mark"
  /\ Write(t, "COMPLETED")
  /\ inProgress' = FALSE
  /\ Ended(t)
  /\ UNCHANGED <<list, nextId, storage, files, call, auto, life, races, broken>>

----
(* The other operations of the interface *)

(* md_verify_backup only opens the file. *)
Verify(c) ==
  /\ Ready(c)
  /\ \E k \in DOMAIN list :
       /\ Found(k)
       /\ recs[list[k]].path # None /\ files[recs[list[k]].path] # "absent"
       /\ recs' = [recs EXCEPT ![list[k]].state = "VERIFIED"]
  /\ UNCHANGED <<list, nextId, inProgress, storage, files, thread, call, auto,
                 life, races, broken>>

(* md_restore_filesystem finds the record at place k and reads a header with
   the right checksum: it changes nothing but a counter. *)
Restorable(k) ==
  /\ Found(k)
  /\ recs[list[k]].path # None
  /\ files[recs[list[k]].path] \in {"RUNNING", "COMPLETED"}

(* Mutant: md_delete_backup leaves the file. *)
DeleteKeepsFile(c) ==
  /\ Ready(c)
  /\ \E k \in DOMAIN list :
       /\ Found(k)
       /\ list' = RemoveAt(list, k)
       /\ recs' = [recs EXCEPT ![list[k]] = Unused]
       /\ broken' = (broken \/ InUse(list[k]))
  /\ races' = races + Overlap(c)
  /\ UNCHANGED <<nextId, inProgress, storage, files, thread, call, auto, life>>

(* Mutant: the record is freed but stays in the list. *)
DeleteKeepsNode(c) ==
  /\ Ready(c)
  /\ \E k \in DOMAIN list :
       /\ Found(k)
       /\ LET p == recs[list[k]].path
          IN  IF p = None THEN UNCHANGED <<files, thread>>
              ELSE files' = [files EXCEPT ![p] = "absent"] /\ thread' = Unlinked(p)
       /\ recs' = [recs EXCEPT ![list[k]] = Unused]
       /\ broken' = (broken \/ InUse(list[k]))
  /\ races' = races + Overlap(c)
  /\ UNCHANGED <<list, nextId, inProgress, storage, call, auto, life>>

(* md_delete_backup: the file, the node and the record of the first backup
   with the id, running or not. *)
Delete(c) ==
  /\ Ready(c)
  /\ \E k \in DOMAIN list :
       /\ Found(k)
       /\ LET p == recs[list[k]].path
          IN  IF p = None THEN UNCHANGED <<files, thread>>
              ELSE files' = [files EXCEPT ![p] = "absent"] /\ thread' = Unlinked(p)
       /\ list' = RemoveAt(list, k)
       /\ recs' = [recs EXCEPT ![list[k]] = Unused]
       /\ broken' = (broken \/ InUse(list[k]))
  /\ races' = races + Overlap(c)
  /\ UNCHANGED <<nextId, inProgress, storage, call, auto, life>>

(* md_set_backup_storage_path: the old path is freed before the new one is
   there. *)
FreePath(c) ==
  /\ Ready(c)
  /\ storage' = None
  /\ call' = [call EXCEPT ![c].pc = "repath"]
  /\ broken' = (broken \/ storage = None)
  /\ UNCHANGED <<recs, list, nextId, inProgress, files, thread, auto, life, races>>

SetPath(c) ==
  /\ call[c].pc = "repath"
  /\ storage' \in Dirs
  /\ call' = [call EXCEPT ![c] = NoCall]
  /\ UNCHANGED <<recs, list, nextId, inProgress, files, thread, auto, life, races, broken>>

(* md_schedule_automatic_backups *)
Schedule(c) ==
  /\ Ready(c) /\ ~auto.on
  /\ auto' = [on |-> TRUE, lives |-> TRUE]
  /\ UNCHANGED <<recs, list, nextId, inProgress, storage, files, thread, call,
                 life, races, broken>>

(* The automatic thread wakes up to a cleared flag. *)
AutoExit ==
  /\ auto.lives /\ ~auto.on /\ call[Timer].pc = "idle"
  /\ auto' = [auto EXCEPT !.lives = FALSE]
  /\ UNCHANGED <<recs, list, nextId, inProgress, storage, files, thread, call,
                 life, races, broken>>

(* Mutant: the flag of the automatic thread is left set. *)
StopLeavesAuto(c) ==
  /\ Ready(c)
  /\ life' = "stopping"
  /\ UNCHANGED <<recs, list, nextId, inProgress, storage, files, thread, call, auto,
                 races, broken>>

(* module_d_integration_destroy clears the flag of the automatic thread, *)
Stop(c) ==
  /\ Ready(c)
  /\ life' = "stopping"
  /\ auto' = [auto EXCEPT !.on = FALSE]
  /\ UNCHANGED <<recs, list, nextId, inProgress, storage, files, thread, call, races, broken>>

(* waits for it, and md_backup_destroy frees the path and the records.
   Nothing waits for a backup thread. *)
Destroy ==
  /\ life = "stopping" /\ ~auto.lives
  /\ life' = "down"
  /\ storage' = None
  /\ list' = <<>>
  /\ recs' = [r \in Recs |-> IF r \in Listed THEN Unused ELSE recs[r]]
  /\ broken' = (broken \/ storage = None \/ \E r \in Listed : InUse(r))
  /\ races' = races + (IF \E c \in Actors : call[c].pc # "idle" THEN 1 ELSE 0)
  /\ UNCHANGED <<nextId, inProgress, files, thread, call, auto>>

CreateStep(c) ==
  Take(c) \/ Bump(c) \/ Link(c) \/ Flag(c) \/ Spawn(c) \/ Insert(c)

ThreadStep(t) == Run(t) \/ Open(t) \/ Header(t) \/ Rewrite(t) \/ Mark(t)

Next ==
  /\ ~broken
  /\ \/ \E c \in Actors : Ask(c) \/ CreateStep(c)
     \/ \E c \in Callers :
          \/ AskIncremental(c) \/ Verify(c) \/ Delete(c)
          \/ FreePath(c) \/ SetPath(c) \/ Schedule(c) \/ Stop(c)
     \/ \E t \in Threads : ThreadStep(t)
     \/ AutoExit \/ Destroy

(* Threads run: a call under way goes on, so does a backup, the automatic
   thread wakes up and the shutdown that waits for it goes on. *)
Fairness ==
  /\ \A c \in Actors : WF_vars(~broken /\ (CreateStep(c) \/ SetPath(c)))
  /\ \A t \in Threads : WF_vars(~broken /\ ThreadStep(t))
  /\ WF_vars(~broken /\ (AutoExit \/ Destroy))

Spec == Init /\ [][Next]_vars /\ Fairness

----
(* Properties *)

Record == [id : Ids, type : {"FULL", "INCREMENTAL"},
           state : {"UNUSED", "PENDING", "RUNNING", "COMPLETED", "FAILED", "VERIFIED"},
           path : Paths \cup {None}]

ThreadState == [pc : {"idle", "run", "open", "header", "copy", "mark"},
                rec : Recs \cup {None}, path : Paths \cup {None}, linked : BOOLEAN]

CallState == [pc : {"idle", "take", "bump", "link", "flag", "spawn", "insert", "enter", "repath"},
              id : Ids, rec : Recs \cup {None}, head : Recs \cup {None},
              incr : Recs \cup {None}]

(* The types of the state.  The list has no record twice and, until
   something is undefined, none that was freed. *)
TypeOK ==
  /\ recs \in [Recs -> Record]
  /\ list \in Seq(Recs)
  /\ \A j, k \in DOMAIN list : list[j] = list[k] => j = k
  /\ broken \/ Listed \cap Free = {}
  /\ nextId \in 1..MaxId + 1
  /\ inProgress \in BOOLEAN
  /\ storage \in Dirs \cup {None}
  /\ files \in [Paths -> {"absent", "empty", "RUNNING", "COMPLETED", "torn"}]
  /\ thread \in [Threads -> ThreadState]
  /\ call \in [Actors -> CallState]
  /\ auto \in [on : BOOLEAN, lives : BOOLEAN]
  /\ life \in {"up", "stopping", "down"}
  /\ races \in Nat /\ broken \in BOOLEAN

(* backup_in_progress never outlives what it stands for: while it is set a
   thread runs or a call is about to start one, however calls race and
   whatever fails.  If it could, no backup would ever be taken again. *)
FlagHonest ==
  inProgress => \/ \E t \in Threads : Busy(t)
                \/ \E c \in Actors : call[c].pc = "spawn"

(* One backup at a time, unless two creations overlapped: no two threads
   run, and while one does the flag keeps the next from starting. *)
OneAtATime ==
  races = 0 => \A t \in Threads :
    Busy(t) => inProgress /\ \A u \in Threads \ {t} : ~Busy(u)

(* A completed backup can be restored by its id: unless calls have raced or
   the record of a running backup was freed, its file is complete and the
   lookup ends at it, but for incremental backups entered under its id.  A
   verified one has at least a file. *)
CompletedRestores ==
  races = 0 /\ ~broken => \A k \in DOMAIN list :
    LET r == recs[list[k]]
    IN  /\ r.state = "COMPLETED" =>
             /\ files[r.path] = "COMPLETED"
             /\ \/ Restorable(k)
                \/ \E j \in 1..(k - 1) :
                     recs[list[j]].id = r.id /\ recs[list[j]].type = "INCREMENTAL"
        /\ r.state = "VERIFIED" => files[r.path] # "absent"

(* Deleting a backup leaves nothing of it: every file is that of a record in
   the list, unless calls have raced or a running backup was deleted.  Only
   the shutdown forgets the records and leaves the files. *)
NoOrphanFile ==
  races = 0 /\ ~broken /\ life # "down" => \A p \in Paths :
    files[p] # "absent" => \E r \in Listed : recs[r].path = p

(* A backup that has begun ends and clears the flag, whatever fails. *)
FlagClears == inProgress ~> ~inProgress \/ broken

(* The shutdown that waits for the automatic thread gets on. *)
ShutdownReturns == life = "stopping" ~> life = "down" \/ broken
====
