---- MODULE Integrity ----
(***************************************************************************)
(* Module D: the integrity scan and what it reports                        *)
(* (src/src/module_d/module_d.c).  A start divides the block ids among     *)
(* scan threads; a stop clears the flag they all look at and joins them.   *)
(* A block that fails its verification is counted and raises an alert; so  *)
(* does one that a caller verifies while it reads, writes or frees it      *)
(* (module_d_integration.c).  The alert list has a mutex; the flag, the    *)
(* handles and the counter have nothing.                                   *)
(*                                                                         *)
(* Abstractions.  Whether a block passes is open, and so is whether there  *)
(* is memory for its alert.  Of the alerts the number of those that a      *)
(* verification raised is kept; the next alert, of the repair that always  *)
(* fails (module_d_adapter.c) or of the caller, is part of the same step.  *)
(* Thread ids are a small set: a thread that was not joined keeps its own, *)
(* any other may be given to a new one.                                    *)
(***************************************************************************)
EXTENDS Integers, FiniteSets

CONSTANTS
  Callers,    (* threads that call the interface                           *)
  N,          (* MAX_INTEGRITY_SCAN_THREADS                                *)
  Totals,     (* what get_total_blocks_count may say                       *)
  Width,      (* block ids are computed modulo 2^64                        *)
  Handles,    (* thread ids                                                *)
  None,       (* no thread: 0 in integrity_scanner_threads                 *)
  MaxStarts,  (* bound: scans started                                      *)
  MaxReports, (* bound: blocks that fail                                   *)
  MaxRaces    (* bound: calls begin while races are fewer                  *)

ASSUME IntegrityAssumption ==
  /\ {N, Width, MaxStarts, MaxReports, MaxRaces} \subseteq Nat
  /\ N > 0
  /\ IsFiniteSet(Callers) /\ IsFiniteSet(Handles)
  /\ Totals \subseteq 0..(Width - 1)
  /\ None \notin Handles

Slots == 0..(N - 1)
BlockIds == 0..(Width - 1)

VARIABLES
  total,    (* the number of blocks                                        *)
  running,  (* integrity_scan_running                                      *)
  slot,     (* integrity_scanner_threads                                   *)
  scan,     (* the threads and their contexts                              *)
  found,    (* corrupted_blocks_found                                      *)
  alerts,   (* how many alerts of failed blocks are listed in the alert
               list, and (history) how many there was no memory for        *)
  call,     (* calls under way                                             *)
  up,       (* the alert mutex has not been destroyed                      *)
  starts,   (* history: scans started                                      *)
  reports,  (* history: blocks that failed                                 *)
  seen,     (* history: blocks verified since the last start               *)
  gaps,     (* history: a start failed on the way                          *)
  races,    (* history: starts and stops begun while another was under way *)
  broken    (* a destroyed mutex was locked or a thread joined twice:
               undefined, and nothing is modelled after it                 *)

vars == <<total, running, slot, scan, found, alerts, call, up, starts, reports, seen,
          gaps, races, broken>>

NoCall == [pc |-> "idle", at |-> 0, thread |-> None, reg |-> 0]
NoScan == [pc |-> "idle", at |-> 0, last |-> 0, reg |-> 0]

Live(h) == scan[h].pc \notin {"idle", "ended"}

(* A start or a stop is under way. *)
Managing(c) == call[c].pc \in {"set", "give up", "create", "clear", "join", "wait"}

Init ==
  /\ total \in Totals
  /\ running = FALSE
  /\ slot = [i \in Slots |-> None]
  /\ scan = [h \in Handles |-> NoScan]
  /\ found = 0
  /\ alerts = [listed |-> 0, lost |-> 0]
  /\ call = [c \in Callers |-> NoCall]
  /\ up = TRUE
  /\ starts = 0 /\ reports = 0
  /\ seen = {}
  /\ gaps = FALSE
  /\ races = 0
  /\ broken = FALSE

----
(* Which blocks a thread scans *)

Blocks == 0..(total - 1)
Share == total \div N

First(i) == (i * Share) % Width

(* Mutant: nobody takes what is left over. *)
LastShort(i) == ((i + 1) * Share - 1) % Width

(* The last thread also takes what the division leaves over.  With fewer
   blocks than threads a share is empty and its end wraps. *)
Last(i) == ((i + 1) * Share - 1 + (IF i = N - 1 THEN total % N ELSE 0)) % Width

----
(* md_start_integrity_scan and md_stop_integrity_scan *)

Ready(c) == call[c].pc = "idle" /\ up /\ races < MaxRaces

Enter(c, pc) ==
  /\ call' = [call EXCEPT ![c] = [NoCall EXCEPT !.pc = pc]]
  /\ races' = races + (IF \E d \in Callers \ {c} : Managing(d) THEN 1 ELSE 0)

(* A start finds no scan running: a scan that is over still runs, since
   only a stop clears the flag. *)
Start(c) ==
  /\ Ready(c) /\ ~running /\ starts < MaxStarts
  /\ starts' = starts + 1
  /\ Enter(c, "set")
  /\ UNCHANGED <<total, running, slot, scan, found, alerts, up, reports, seen, gaps, broken>>

SetFlag(c) ==
  /\ call[c].pc = "set"
  /\ running' = TRUE
  /\ seen' = {}
  /\ call' = [call EXCEPT ![c].pc = IF total = 0 THEN "give up" ELSE "create"]
  /\ UNCHANGED <<total, slot, scan, found, alerts, up, starts, reports, gaps, races, broken>>

(* There is nothing to scan, or a thread cannot be had: the flag is cleared,
   the threads there are end by themselves and nobody joins them. *)
GiveUp(c) ==
  /\ call[c].pc \in {"give up", "create"}
  /\ running' = FALSE
  /\ gaps' = TRUE
  /\ call' = [call EXCEPT ![c] = NoCall]
  /\ UNCHANGED <<total, slot, scan, found, alerts, up, starts, reports, seen, races, broken>>

(* The next slot: a thread was made for this one, or joined. *)
NextSlot(c, pc) ==
  call' = [call EXCEPT ![c] = IF @.at = N - 1 THEN NoCall
                              ELSE [NoCall EXCEPT !.pc = pc, !.at = call[c].at + 1]]

Spare == {h \in Handles : scan[h].pc = "idle"}

(* Thread ids that a call or a slot still has, to a thread or to none. *)
Known == {call[c].thread : c \in Callers} \cup {slot[i] : i \in Slots}

(* The ids a new thread may get.  Which it is makes no difference, unless a
   call or a slot knows it. *)
NewIds ==
  (Spare \cap Known) \cup
  (IF Spare \subseteq Known THEN {} ELSE {CHOOSE h \in Spare \ Known : TRUE})

CreateThread(c) ==
  /\ call[c].pc = "create"
  /\ \E h \in NewIds :
       /\ slot' = [slot EXCEPT ![call[c].at] = h]
       /\ scan' = [scan EXCEPT ![h] = [pc |-> "scan", at |-> First(call[c].at),
                                       last |-> Last(call[c].at), reg |-> 0]]
  /\ NextSlot(c, "create")
  /\ UNCHANGED <<total, running, found, alerts, up, starts, reports, seen, gaps, races, broken>>

Stop(c) ==
  /\ Ready(c) /\ running
  /\ Enter(c, "clear")
  /\ UNCHANGED <<total, running, slot, scan, found, alerts, up, starts, reports, seen, gaps, broken>>

ClearFlag(c) ==
  /\ call[c].pc = "clear"
  /\ running' = FALSE
  /\ call' = [call EXCEPT ![c].pc = "join"]
  /\ UNCHANGED <<total, slot, scan, found, alerts, up, starts, reports, seen, gaps, races, broken>>

(* The handle of the slot is read; none: the next slot. *)
Join(c) ==
  /\ call[c].pc = "join"
  /\ IF slot[call[c].at] = None THEN NextSlot(c, "join")
     ELSE call' = [call EXCEPT ![c].pc = "wait", ![c].thread = slot[call[c].at]]
  /\ UNCHANGED <<total, running, slot, scan, found, alerts, up, starts, reports, seen, gaps,
                 races, broken>>

(* Mutant: the stop takes the handle and does not wait. *)
JoinedEarly(c) ==
  /\ call[c].pc = "wait"
  /\ slot' = [slot EXCEPT ![call[c].at] = None]
  /\ NextSlot(c, "join")
  /\ UNCHANGED <<total, running, scan, found, alerts, up, starts, reports, seen, gaps, races, broken>>

(* pthread_join returns when the thread has ended; one that was joined
   already is undefined. *)
Joined(c) ==
  /\ call[c].pc = "wait"
  /\ ~Live(call[c].thread)
  /\ broken' = (scan[call[c].thread].pc = "idle")
  /\ scan' = [scan EXCEPT ![call[c].thread] = NoScan]
  /\ slot' = [slot EXCEPT ![call[c].at] = None]
  /\ NextSlot(c, "join")
  /\ UNCHANGED <<total, running, found, alerts, up, starts, reports, seen, gaps, races>>

(* module_d_destroy empties the alert list and destroys its mutex before it
   stops the scan. *)
Destroy(c) ==
  /\ Ready(c)
  /\ up' = FALSE
  /\ alerts' = [alerts EXCEPT !.listed = 0]
  /\ Enter(c, IF running THEN "clear" ELSE "idle")
  /\ UNCHANGED <<total, running, slot, scan, found, starts, reports, seen, gaps, broken>>

----
(* Verification and alerts *)

(* md_add_alert: the list is changed under its mutex; without memory it is
   not, though the alert that follows may have some. *)
AddAlert ==
  \/ alerts' = [alerts EXCEPT !.listed = @ + 1] /\ broken' = ~up
  \/ alerts' = [alerts EXCEPT !.lost = @ + 1] /\ broken' \in {FALSE, ~up}

Advance(h) ==
  /\ scan' = [scan EXCEPT ![h].pc = "scan", ![h].at = (@ + 1) % Width]
  /\ seen' = seen \cup ({scan[h].at} \cap Blocks)

(* Mutant: the threads do not look at the flag. *)
ScanBlockDeaf(h) ==
  /\ scan[h].pc = "scan"
  /\ \/ /\ scan[h].at > scan[h].last
        /\ scan' = [scan EXCEPT ![h] = [NoScan EXCEPT !.pc = "ended"]]
        /\ UNCHANGED seen
     \/ scan[h].at <= scan[h].last /\ Advance(h)
  /\ UNCHANGED <<total, running, slot, found, alerts, call, up, starts, reports, gaps, races, broken>>

(* The loop's condition fails and the thread ends; or the next block passes;
   or it does not, and the counter is read to be incremented. *)
ScanBlock(h) ==
  /\ scan[h].pc = "scan"
  /\ \/ /\ scan[h].at > scan[h].last \/ ~running
        /\ scan' = [scan EXCEPT ![h] = [NoScan EXCEPT !.pc = "ended"]]
        /\ UNCHANGED <<total, seen, reports>>
     \/ scan[h].at <= scan[h].last /\ running /\ Advance(h) /\ UNCHANGED reports
     \/ /\ scan[h].at <= scan[h].last /\ running
        /\ reports < MaxReports /\ reports' = reports + 1
        /\ scan' = [scan EXCEPT ![h].pc = "count", ![h].reg = found]
        /\ UNCHANGED seen
  /\ UNCHANGED <<total, running, slot, found, alerts, call, up, starts, gaps, races, broken>>

CountBlock(h) ==
  /\ scan[h].pc = "count"
  /\ found' = scan[h].reg + 1
  /\ scan' = [scan EXCEPT ![h].pc = "alert", ![h].reg = 0]
  /\ UNCHANGED <<total, running, slot, alerts, call, up, starts, reports, seen, gaps, races, broken>>

(* Mutant: a repair that failed is counted as one that succeeded. *)
AlertRepaired(h) ==
  /\ scan[h].pc = "alert"
  /\ found' = found - 1
  /\ AddAlert
  /\ Advance(h)
  /\ UNCHANGED <<total, running, slot, call, up, starts, reports, gaps, races>>

AlertBlock(h) ==
  /\ scan[h].pc = "alert"
  /\ AddAlert
  /\ Advance(h)
  /\ UNCHANGED <<total, running, slot, found, call, up, starts, reports, gaps, races>>

(* A caller's block does not pass. *)
Verify(c) ==
  /\ Ready(c) /\ reports < MaxReports
  /\ reports' = reports + 1
  /\ call' = [call EXCEPT ![c] = [NoCall EXCEPT !.pc = "count", !.reg = found]]
  /\ UNCHANGED <<total, running, slot, scan, found, alerts, up, starts, seen, gaps, races, broken>>

VerifyCount(c) ==
  /\ call[c].pc = "count"
  /\ found' = call[c].reg + 1
  /\ call' = [call EXCEPT ![c] = [NoCall EXCEPT !.pc = "alert"]]
  /\ UNCHANGED <<total, running, slot, scan, alerts, up, starts, reports, seen, gaps, races, broken>>

VerifyAlert(c) ==
  /\ call[c].pc = "alert"
  /\ AddAlert
  /\ call' = [call EXCEPT ![c] = NoCall]
  /\ UNCHANGED <<total, running, slot, scan, found, up, starts, reports, seen, gaps, races>>

(* md_run_health_check *)
HealthWarns == found > 0

CallStep(c) ==
  \/ SetFlag(c) \/ CreateThread(c) \/ GiveUp(c)
  \/ ClearFlag(c) \/ Join(c) \/ Joined(c)
  \/ VerifyCount(c) \/ VerifyAlert(c)

ThreadStep(h) == ScanBlock(h) \/ CountBlock(h) \/ AlertBlock(h)

Next ==
  /\ ~broken
  /\ \/ \E c \in Callers :
          Start(c) \/ Stop(c) \/ Destroy(c) \/ Verify(c) \/ CallStep(c)
     \/ \E h \in Handles : ThreadStep(h)

(* Threads run: a call goes on unless it waits for a thread, and so does a
   scan. *)
Fairness ==
  /\ \A c \in Callers : WF_vars(~broken /\ CallStep(c))
  /\ \A h \in Handles : WF_vars(~broken /\ ThreadStep(h))

Spec == Init /\ [][Next]_vars /\ Fairness

----
(* Properties *)

ScanState == [pc : {"idle", "scan", "count", "alert", "ended"},
              at : BlockIds, last : BlockIds, reg : 0..MaxReports]

CallState == [pc : {"idle", "set", "give up", "create", "clear", "join", "wait", "count", "alert"},
              at : Slots, thread : Handles \cup {None}, reg : 0..MaxReports]

(* The types of the state: the counter never goes below zero and, unless
   starts and stops race, every slot has a thread of its own. *)
TypeOK ==
  /\ total \in Totals
  /\ running \in BOOLEAN
  /\ slot \in [Slots -> Handles \cup {None}]
  /\ races = 0 => \A i, j \in Slots : slot[i] = slot[j] => i = j \/ slot[i] = None
  /\ scan \in [Handles -> ScanState]
  /\ found \in 0..MaxReports
  /\ alerts \in [listed : Nat, lost : Nat]
  /\ call \in [Callers -> CallState]
  /\ {up, gaps, broken} \subseteq BOOLEAN
  /\ starts \in 0..MaxStarts /\ reports \in 0..MaxReports /\ races \in Nat
  /\ seen \subseteq Blocks

(* A scan verifies every block once: what the threads have left is disjoint,
   none of it was verified before, and when they have ended nothing is left.
   Provided that there is a block for every thread, every thread could be
   made and no starts and stops raced. *)
Sweep ==
  total >= N /\ races = 0 /\ ~gaps =>
    /\ \A h \in Handles : Live(h) =>
         /\ (scan[h].at)..(scan[h].last) \subseteq Blocks \ seen
         /\ \A g \in Handles \ {h} : Live(g) => scan[g].last < scan[h].at \/ scan[h].last < scan[g].at
    /\ running /\ ~(\E c \in Callers : Managing(c)) /\ ~(\E h \in Handles : Live(h))
         => seen = Blocks

(* When a stop has returned no scan thread is left and all are joined, if
   every thread could be made and no starts and stops raced. *)
StopJoins ==
  races = 0 /\ ~gaps /\ ~running /\ ~(\E c \in Callers : Managing(c)) =>
    /\ \A h \in Handles : scan[h].pc = "idle"
    /\ \A i \in Slots : slot[i] = None

(* However increments of the counter overwrite each other, it never counts a
   block that nobody reports, but for those whose alert found no memory; and
   once one was to be reported a health check warns, even if it was lost. *)
CountHonest ==
  up => /\ found <= alerts.listed + alerts.lost
                     + Cardinality({h \in Handles : scan[h].pc = "alert"})
                     + Cardinality({c \in Callers : call[c].pc = "alert"})
        /\ alerts.listed + alerts.lost > 0 => HealthWarns

(* Once the flag is cleared, by a stop or by a start that failed, every
   thread ends by itself, also one whose range has wrapped and has no end:
   unless a new start sets the flag first. *)
ScanStops == ~running ~> (running \/ broken \/ \A h \in Handles : ~Live(h))

(* A stop that has cleared the flag joins its threads and returns, also when
   one of them has a range without end: unless a new start sets the flag
   before they have looked at it. *)
StopReturns ==
  \A c \in Callers :
    call[c].pc \in {"join", "wait"} ~> (call[c].pc = "idle" \/ broken \/ running)
====
