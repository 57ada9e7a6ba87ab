---- MODULE Wal ----
(***************************************************************************)
(* Module D, src/src/module_d/module_d.c: the transaction log.  Records go *)
(* to segments in memory; a segment is written to its file as a whole, by  *)
(* the commit that finds it never written and when the next segment is     *)
(* begun.  FUSE threads log a transaction for every create and write they  *)
(* have applied and every unlink they are about to (smartbackupfs_basic.c);*)
(* the wrappers of module_d_integration.c log theirs without a header.     *)
(*                                                                         *)
(* Abstractions.  Each record is one unit of a segment, and is only known  *)
(* by the run that logged it, its place in its transaction and, a header's,*)
(* how many units it says follow it; next_tx_id is left out.  A thread     *)
(* reads wal_enabled when it gets the mutex, not before it waits for it.   *)
(* Recovery parses and prints the files and changes nothing                *)
(* (module_d.c:649-655), so a restart is a crash that keeps them.  A file  *)
(* can be opened.  Nothing calls the clean-up of old segments or the       *)
(* orderly shutdown.  Allocation succeeds.                                 *)
(***************************************************************************)
EXTENDS Integers, Sequences, SequencesExt

CONSTANTS
  Writers,    (* the FUSE threads                                          *)
  None,       (* no thread                                                 *)
  Cap,        (* capacity of a segment, in records                         *)
  MaxRuns,    (* bound: times the file system is mounted                   *)
  Quota       (* bound: a transaction begins in a run while the records the
                 run has logged are fewer                                  *)

ASSUME WalAssumption ==
  /\ None \notin Writers
  /\ {Cap, MaxRuns} \subseteq Nat \ {0}
  /\ Quota \in [1..MaxRuns -> Nat \ {0}]

VARIABLES
  segs,       (* the list of segments: their records, file_written         *)
  disk,       (* the segment files: id -> records                          *)
  enabled,    (* wal_enabled                                               *)
  mutex,      (* wal_mutex: who holds it                                   *)
  pc,         (* where a thread is                                         *)
  task,       (* what it logs, and where it was when it began to write a
                 file                                                      *)
  run,        (* mounts so far                                             *)
  failed      (* segments of this run whose last write failed              *)

vars == <<segs, disk, enabled, mutex, pc, task, run, failed>>

Cur == Len(segs)

(* May another transaction begin? *)
Room == segs # <<>> => (Cur - 1) * Cap + Len(Last(segs).recs) < Quota[run]

(* What a thread logs: a create, an unlink or a write; what a wrapper is
   asked to log; nothing, when it only enables the log. *)
Tasks == {"change", "wrapped", "enable"}
NoTask == [kind |-> "enable", at |-> "idle"]

Logging == {"open", "entry", "data", "raw", "commit", "rollback"}

(* What a thread writes when it is at place k.  The header of an entry gives
   the length of the data: 1, or more when a write has over 1024 bytes, of
   which only so much is logged. *)
Recs(k) == [run : {run}, kind : {k}, size : IF k = "entry" THEN {1, 2} ELSE {0}]

(* Where a thread goes after it has logged the record of place k. *)
After(w, k) ==
  CASE k = "open" /\ task[w].kind = "enable" -> "idle"
    [] k = "open" /\ task[w].kind = "wrapped" -> "raw"
    [] k = "open" /\ task[w].kind = "change" -> "entry"
    [] k = "entry" -> "data"
    [] k \in {"data", "raw"} -> "commit"
    [] k = "commit" -> "flush"
    [] k = "rollback" -> "idle"

Goto(w, place) == pc' = [pc EXCEPT ![w] = place]

Init ==
  /\ segs = <<>>
  /\ disk = [id \in {} |-> <<>>]
  /\ enabled = TRUE
  /\ mutex = None
  /\ pc = [w \in Writers |-> "idle"]
  /\ task = [w \in Writers |-> NoTask]
  /\ run = 1
  /\ failed = {}

----
(* A transaction *)

(* A create, write or unlink finds the log enabled. *)
Start(w) ==
  /\ pc[w] = "idle" /\ enabled /\ Room
  /\ \E kind \in Tasks \ {"enable"} : task' = [task EXCEPT ![w].kind = kind]
  /\ Goto(w, "begin")
  /\ UNCHANGED <<segs, disk, enabled, mutex, run, failed>>

(* user.transaction.enable: setting it to 1 begins a transaction too. *)
Enable(w) ==
  /\ pc[w] = "idle" /\ Room
  /\ enabled' = TRUE
  /\ task' = [task EXCEPT ![w].kind = "enable"]
  /\ Goto(w, "begin")
  /\ UNCHANGED <<segs, disk, mutex, run, failed>>

Disable ==
  /\ enabled' = FALSE
  /\ UNCHANGED <<segs, disk, mutex, pc, task, run, failed>>

(* md_transaction_begin, but for the record it logs if it finds the log
   still enabled; a wrapper gives up if it does not. *)
Begin(w) ==
  /\ pc[w] = "begin"
  /\ Goto(w, IF enabled THEN "open"
             ELSE IF task[w].kind = "wrapped" THEN "idle" ELSE After(w, "open"))
  /\ UNCHANGED <<segs, disk, enabled, mutex, task, run, failed>>

(* md_write_wal_segment_to_file opens the file of the current segment, which
   empties it, and goes on to fill it with the mutex held. *)
OpenFile(w) ==
  /\ mutex' = w
  /\ disk' = [id \in DOMAIN disk \cup {Cur} |-> IF id = Cur THEN <<>> ELSE disk[id]]
  /\ task' = [task EXCEPT ![w].at = pc[w]]
  /\ Goto(w, "fill")

(* Mutant: a new segment takes over file_written. *)
NewSegmentWritten(s, r) ==
  Append(s, [recs |-> <<r>>, written |-> s # <<>> /\ Last(s).written])

(* A new segment whose first record is r, after those in s. *)
NewSegment(s, r) == Append(s, [recs |-> <<r>>, written |-> FALSE])

(* Mutant: a segment is full when it is over its capacity. *)
LogOver(w) ==
  /\ pc[w] \in Logging
  /\ enabled /\ mutex = None
  /\ \E r \in Recs(pc[w]) :
         IF segs = <<>>
         THEN /\ segs' = NewSegment(segs, r)
              /\ Goto(w, After(w, pc[w])) /\ UNCHANGED <<disk, mutex, task>>
         ELSE IF Len(segs[Cur].recs) <= Cap
         THEN /\ segs' = [segs EXCEPT ![Cur].recs = Append(@, r)]
              /\ Goto(w, After(w, pc[w])) /\ UNCHANGED <<disk, mutex, task>>
         ELSE OpenFile(w) /\ UNCHANGED segs
  /\ UNCHANGED <<enabled, run, failed>>

(* Mutant: a full segment that has been written before is not written again. *)
LogOnce(w) ==
  /\ pc[w] \in Logging
  /\ enabled /\ mutex = None
  /\ \E r \in Recs(pc[w]) :
         IF segs = <<>> \/ (Len(segs[Cur].recs) = Cap /\ segs[Cur].written)
         THEN /\ segs' = NewSegment(segs, r)
              /\ Goto(w, After(w, pc[w])) /\ UNCHANGED <<disk, mutex, task>>
         ELSE IF Len(segs[Cur].recs) < Cap
         THEN /\ segs' = [segs EXCEPT ![Cur].recs = Append(@, r)]
              /\ Goto(w, After(w, pc[w])) /\ UNCHANGED <<disk, mutex, task>>
         ELSE OpenFile(w) /\ UNCHANGED segs
  /\ UNCHANGED <<enabled, run, failed>>

(* md_transaction_log of one record: a full segment is written first. *)
Log(w) ==
  /\ pc[w] \in Logging
  /\ enabled /\ mutex = None
  /\ \E r \in Recs(pc[w]) :
         IF segs = <<>>
         THEN /\ segs' = NewSegment(segs, r)
              /\ Goto(w, After(w, pc[w])) /\ UNCHANGED <<disk, mutex, task>>
         ELSE IF Len(segs[Cur].recs) < Cap
         THEN /\ segs' = [segs EXCEPT ![Cur].recs = Append(@, r)]
              /\ Goto(w, After(w, pc[w])) /\ UNCHANGED <<disk, mutex, task>>
         ELSE OpenFile(w) /\ UNCHANGED segs
  /\ UNCHANGED <<enabled, run, failed>>

(* While the log is disabled nothing is logged.  A commit returns at once,
   or flushes if the log was disabled just after it had begun.  A wrapper
   that could not log rolls back instead. *)
SkipLog(w) ==
  /\ pc[w] \in Logging
  /\ ~enabled
  /\ \/ pc[w] # "raw" /\ Goto(w, After(w, pc[w]))
     \/ pc[w] = "raw" /\ Goto(w, "rollback")
     \/ pc[w] = "commit" /\ Goto(w, "idle")
  /\ UNCHANGED <<segs, disk, enabled, mutex, task, run, failed>>

(* md_transaction_commit's flush: a segment written once is not written. *)
Flush(w) ==
  /\ pc[w] = "flush" /\ mutex = None
  /\ IF segs # <<>> /\ ~segs[Cur].written
     THEN OpenFile(w)
     ELSE Goto(w, "idle") /\ UNCHANGED <<disk, mutex, task>>
  /\ UNCHANGED <<segs, enabled, run, failed>>

(* The file is written and synced, or only a part of it; the caller that
   needed room then begins a segment and logs its record there. *)
Fill(w) ==
  /\ pc[w] = "fill"
  /\ \E ok \in BOOLEAN :
       /\ \E k \in 0..Len(segs[Cur].recs) :
            /\ k = Len(segs[Cur].recs) <=> ok
            /\ disk' = [disk EXCEPT ![Cur] = SubSeq(segs[Cur].recs, 1, k)]
       /\ failed' = IF ok THEN failed \ {Cur} ELSE failed \cup {Cur}
       /\ LET written == [segs EXCEPT ![Cur].written = @ \/ ok]
          IN  IF task[w].at = "flush"
              THEN segs' = written /\ Goto(w, "idle")
              ELSE /\ \E r \in Recs(task[w].at) : segs' = NewSegment(written, r)
                   /\ Goto(w, After(w, task[w].at))
  /\ mutex' = None
  /\ task' = [task EXCEPT ![w].at = "idle"]
  /\ UNCHANGED <<enabled, run>>

----
(* The process dies, however it ends, and starts again: md_transaction_init
   numbers segments and transactions from 1.  A file being written keeps a
   part of it. *)
Crash ==
  /\ run < MaxRuns
  /\ run' = run + 1
  /\ IF mutex = None THEN UNCHANGED disk
     ELSE \E k \in 0..Len(segs[Cur].recs) :
            disk' = [disk EXCEPT ![Cur] = SubSeq(segs[Cur].recs, 1, k)]
  /\ segs' = <<>>
  /\ enabled' = TRUE
  /\ mutex' = None
  /\ pc' = [w \in Writers |-> "idle"]
  /\ task' = [w \in Writers |-> NoTask]
  /\ failed' = {}

----
(* md_recover_from_wal_file *)

(* Mutant: the parser takes every record for a header without data. *)
HeaderSize(header) == 1

(* How far the parser goes on from a header. *)
EntrySize(header) == 1 + header.size

Headers == {"open", "entry", "commit", "rollback"}

(* Where the parser reads: from the beginning, and on from every header.
   What it makes of anything else is not defined. *)
Reads(f) ==
  LET at[k \in 1..(Len(f) + 1)] ==
        k = 1 \/ \E j \in 1..(k - 1) : at[j] /\ f[j].kind \in Headers /\ j + EntrySize(f[j]) = k
  IN  {k \in 1..(Len(f) + 1) : at[k]}

Next ==
  \/ \E w \in Writers :
       \/ Start(w) \/ Enable(w) \/ Begin(w)
       \/ Log(w) \/ SkipLog(w) \/ Flush(w) \/ Fill(w)
  \/ Disable \/ Crash

Spec == Init /\ [][Next]_vars

----
(* Properties *)

(* Only the header of an entry announces data. *)
Record == {r \in [run : 1..MaxRuns, kind : Logging, size : 0..2] :
             r.size = 0 <=> r.kind # "entry"}

(* The types of the state.  The mutex is held exactly while a file is being
   written; no segment is empty or over capacity; none but the current can
   have room left. *)
TypeOK ==
  /\ \A s \in DOMAIN segs :
       /\ segs[s].recs \in Seq(Record) /\ Len(segs[s].recs) \in 1..Cap
       /\ s < Cur => Len(segs[s].recs) = Cap
       /\ segs[s].written \in BOOLEAN
  /\ \A id \in DOMAIN disk : disk[id] \in Seq(Record) /\ Len(disk[id]) <= Cap
  /\ enabled \in BOOLEAN
  /\ \A w \in Writers : mutex = w <=> pc[w] = "fill"
  /\ run \in 1..MaxRuns
  /\ failed \subseteq DOMAIN segs

(* Whatever a crash finds on disk under the id of a segment that this run has
   written, complete or not, is a beginning of that segment: the log on disk
   has no record out of order and none of another segment. *)
FilePrefix ==
  \A s \in DOMAIN segs :
    segs[s].written \/ (mutex # None /\ s = Cur) =>
      s \in DOMAIN disk /\ IsPrefix(disk[s], segs[s].recs)

(* A segment that has been left behind is on disk as a whole, unless the
   write failed: what a crash can take from this run's log is the current
   segment's part of it. *)
SealedOnDisk ==
  \A s \in DOMAIN segs :
    s < Cur /\ s \notin failed => s \in DOMAIN disk /\ disk[s] = segs[s].recs

(* A file of whole transactions: every entry has its data behind it, all of
   it, and nothing was logged without a header. *)
Whole(f) ==
  \A k \in DOMAIN f :
    /\ f[k].kind # "raw"
    /\ f[k].kind = "entry" => f[k].size = 1 /\ k < Len(f) /\ f[k + 1].kind = "data"
    /\ f[k].kind = "data" => k > 1 /\ f[k - 1].kind = "entry"

(* Recovery finds its way through what a crash leaves: in a file of whole
   transactions, of however many threads and even runs, the parser reads
   every header, nothing else, and ends where the file ends.  Transactions
   that were mixed, clipped, logged by a wrapper, torn or spread over two
   segments make it read data as a header or run past the end. *)
RecoveryReads ==
  \A id \in DOMAIN disk :
    LET f == disk[id]
    IN  Whole(f) => Reads(f) = {k \in DOMAIN f : f[k].kind \in Headers} \cup {Len(f) + 1}
====
