---- MODULE VersionCleaner ----
(***************************************************************************)
(* Module B, src/src/module_b/version_manager.c: the thread that takes     *)
(* periodic versions and applies the retention policy, and the locks it    *)
(* shares with every FUSE thread that creates a version.  What happens to  *)
(* a chain is VersionChain's; here a chain is the time of its last version *)
(* and its lock, and what matters is who holds, and who waits for,         *)
(* versions_mutex and the chains' locks.                                   *)
(*                                                                         *)
(* versions_mutex is PTHREAD_MUTEX_INITIALIZER: a thread that locks it     *)
(* again while it holds it waits for ever.  create_version takes it twice, *)
(* to find its chain and, once that is unlocked, to sample all chains for  *)
(* the storage prediction; the samples are taken under the mutex, so one   *)
(* reader at a time holds a chain's lock and one holder describes it.  The *)
(* other users of a chain's lock (reading, deleting and marking versions)  *)
(* wait for nothing while they hold it and are left out.  Memory           *)
(* allocation succeeds.  stop_cleaner is left out: only fs_destroy calls   *)
(* it, and nothing calls fs_destroy.                                       *)
(***************************************************************************)
EXTENDS Integers

CONSTANTS
  Files,      (* the files                                                 *)
  Callers,    (* FUSE threads                                              *)
  None,       (* nobody, or no file                                        *)
  Cleaner,    (* the cleaner thread                                        *)
  Interval,   (* version_time_interval                                     *)
  MaxTime     (* bound: the clock                                          *)

Threads == Callers \cup {Cleaner}

ASSUME CleanerAssumption ==
  /\ None \notin Files /\ None \notin Threads /\ Cleaner \notin Callers
  /\ Interval \in Nat /\ MaxTime \in Nat \ {0}

VARIABLES
  chains,     (* versions_by_file: the files that have a version chain     *)
  mutex,      (* who holds versions_mutex                                  *)
  holder,     (* who holds the lock of each file's chain                   *)
  pc,         (* where the cleaner is                                      *)
  todo,       (* chains the holder of the mutex has still to walk over     *)
  at,         (* the file a thread creates a version of, or cleans         *)
  call,       (* where in create_version a thread is: "lock" waits in
                 get_or_create_chain, "locked" has the mutex there, "chain"
                 waits for the chain's lock, "create" has it, "collect"
                 waits for the mutex again, "sampling" has it, "reading" has
                 a chain's lock too                                        *)
  last,       (* last_version_time of each file, 0: none                   *)
  resident,   (* files whose metadata lookup_inode still finds             *)
  pinned,     (* files with user.version.pinned                            *)
  now         (* time(NULL)                                                *)

vars == <<chains, mutex, holder, pc, todo, at, call, last, resident, pinned, now>>

Places == {"idle", "lock", "locked", "chain", "create", "collect", "sampling", "reading"}

(* The types of the state, and who holds which lock where: nobody waits for
   the mutex with a chain locked, and the cleaner sleeps with no lock. *)
TypeOK ==
  /\ chains \subseteq Files
  /\ mutex \in Threads \cup {None}
  /\ holder \in [Files -> Threads \cup {None}]
  /\ pc \in {"start", "lock", "visit", "retain", "prune", "sleep"}
  /\ todo \subseteq Files
  /\ at \in [Threads -> Files \cup {None}]
  /\ call \in [Threads -> Places]
  /\ last \in [Files -> 0..MaxTime]
  /\ resident \subseteq Files
  /\ pinned \subseteq Files
  /\ now \in 1..MaxTime
  /\ mutex = Cleaner <=> pc \in {"visit", "retain", "prune"}
  /\ at[Cleaner] # None <=> pc \in {"retain", "prune"}
  /\ \A f \in Files : holder[f] = Cleaner <=> pc = "prune" /\ at[Cleaner] = f
  /\ \A p \in Callers :
       /\ at[p] # None <=> call[p] # "idle"
       /\ mutex = p <=> call[p] \in {"locked", "sampling", "reading"}
       /\ call[p] = "create" => holder[at[p]] = p
       /\ \A f \in Files : holder[f] = p => call[p] \in {"create", "reading"}
       /\ \A f, g \in Files : holder[f] = p /\ holder[g] = p => f = g

Init ==
  /\ chains = {}
  /\ mutex = None
  /\ holder = [f \in Files |-> None]
  /\ pc = "start"
  /\ todo = {}
  /\ at = [p \in Threads |-> None]
  /\ call = [p \in Threads |-> "idle"]
  /\ last = [f \in Files |-> 0]
  /\ resident = Files
  /\ pinned = {}
  /\ now = 1

(* version_manager_create_periodic's test. *)
Due(f) == last[f] = 0 \/ now - last[f] >= Interval

----
(* The cleaner thread *)

(* The loop test passes: nothing clears cleaner_running in a mounted system. *)
Begin ==
  /\ pc = "start"
  /\ pc' = "lock"
  /\ UNCHANGED <<chains, mutex, holder, todo, at, call, last, resident, pinned, now>>

Lock ==
  /\ pc = "lock" /\ mutex = None
  /\ mutex' = Cleaner
  /\ todo' = chains
  /\ pc' = "visit"
  /\ UNCHANGED <<chains, holder, at, call, last, resident, pinned, now>>

(* The next chain: a pinned file is skipped, a resident one may get a
   periodic version first, an evicted one goes straight to retention. *)
Visit ==
  /\ pc = "visit"
  /\ \E f \in todo :
       /\ todo' = todo \ {f}
       /\ IF f \in resident /\ f \in pinned THEN UNCHANGED <<pc, at, call>>
          ELSE /\ at' = [at EXCEPT ![Cleaner] = f]
               /\ pc' = "retain"
               /\ call' = IF f \in resident /\ Due(f)
                          THEN [call EXCEPT ![Cleaner] = "lock"] ELSE call
  /\ UNCHANGED <<chains, mutex, holder, last, resident, pinned, now>>

(* create_periodic has returned: the chain is locked for retention. *)
Retention ==
  /\ pc = "retain" /\ call[Cleaner] = "idle" /\ holder[at[Cleaner]] = None
  /\ holder' = [holder EXCEPT ![at[Cleaner]] = Cleaner]
  /\ pc' = "prune"
  /\ UNCHANGED <<chains, mutex, todo, at, call, last, resident, pinned, now>>

(* version_apply_retention_locked has returned. *)
Retained ==
  /\ pc = "prune"
  /\ holder' = [holder EXCEPT ![at[Cleaner]] = None]
  /\ at' = [at EXCEPT ![Cleaner] = None]
  /\ pc' = "visit"
  /\ UNCHANGED <<chains, mutex, todo, call, last, resident, pinned, now>>

(* Mutant: the cleaner sleeps with the mutex held. *)
UnlockLate ==
  /\ pc = "visit" /\ todo = {}
  /\ pc' = "sleep"
  /\ UNCHANGED <<chains, mutex, holder, todo, at, call, last, resident, pinned, now>>

Unlock ==
  /\ pc = "visit" /\ todo = {}
  /\ mutex' = None
  /\ pc' = "sleep"
  /\ UNCHANGED <<chains, holder, todo, at, call, last, resident, pinned, now>>

Wake ==
  /\ pc = "sleep"
  /\ pc' = "start"
  /\ UNCHANGED <<chains, mutex, holder, todo, at, call, last, resident, pinned, now>>

----
(* version_manager_create_version, by a FUSE thread and, from
   create_periodic, by the cleaner with versions_mutex held *)

(* A write, rename or user.version.create calls create_version. *)
Request(p, f) ==
  /\ call[p] = "idle"
  /\ call' = [call EXCEPT ![p] = "lock"]
  /\ at' = [at EXCEPT ![p] = f]
  /\ UNCHANGED <<chains, mutex, holder, pc, todo, last, resident, pinned, now>>

(* get_or_create_chain. *)
Acquire(p) ==
  /\ call[p] = "lock" /\ mutex = None
  /\ mutex' = p
  /\ call' = [call EXCEPT ![p] = "locked"]
  /\ UNCHANGED <<chains, holder, pc, todo, at, last, resident, pinned, now>>

Release(p) ==
  /\ call[p] = "locked"
  /\ chains' = chains \cup {at[p]}
  /\ mutex' = None
  /\ call' = [call EXCEPT ![p] = "chain"]
  /\ UNCHANGED <<holder, pc, todo, at, last, resident, pinned, now>>

LockChain(p) ==
  /\ call[p] = "chain" /\ holder[at[p]] = None
  /\ holder' = [holder EXCEPT ![at[p]] = p]
  /\ call' = [call EXCEPT ![p] = "create"]
  /\ UNCHANGED <<chains, mutex, pc, todo, at, last, resident, pinned, now>>

(* Mutant: the storage prediction runs before the chain is unlocked. *)
CreateNested(p) ==
  /\ call[p] = "create"
  /\ call' = [call EXCEPT ![p] = "collect"]
  /\ last' = [last EXCEPT ![at[p]] = now]
  /\ UNCHANGED <<chains, mutex, holder, pc, todo, at, resident, pinned, now>>

(* The version is on the chain, which is unlocked again. *)
Create(p) ==
  /\ call[p] = "create"
  /\ call' = [call EXCEPT ![p] = "collect"]
  /\ last' = [last EXCEPT ![at[p]] = now]
  /\ holder' = [holder EXCEPT ![at[p]] = None]
  /\ UNCHANGED <<chains, mutex, pc, todo, at, resident, pinned, now>>

(* predict_storage_usage_internal: version_manager_collect_samples walks over
   all chains with the mutex held, until its buffer is full. *)
Collect(p) ==
  /\ call[p] = "collect" /\ mutex = None
  /\ mutex' = p
  /\ todo' = chains
  /\ call' = [call EXCEPT ![p] = "sampling"]
  /\ UNCHANGED <<chains, holder, pc, at, last, resident, pinned, now>>

SampleChain(p) ==
  /\ call[p] = "sampling"
  /\ \E f \in todo :
       /\ holder[f] = None
       /\ holder' = [holder EXCEPT ![f] = p]
       /\ todo' \in {todo \ {f}, {}}
  /\ call' = [call EXCEPT ![p] = "reading"]
  /\ UNCHANGED <<chains, mutex, pc, at, last, resident, pinned, now>>

Sampled(p) ==
  /\ call[p] = "reading"
  /\ holder' = [f \in Files |-> IF holder[f] = p THEN None ELSE holder[f]]
  /\ call' = [call EXCEPT ![p] = "sampling"]
  /\ UNCHANGED <<chains, mutex, pc, todo, at, last, resident, pinned, now>>

Return(p) ==
  /\ call[p] = "sampling" /\ todo = {}
  /\ mutex' = None
  /\ call' = [call EXCEPT ![p] = "idle"]
  /\ at' = [at EXCEPT ![p] = None]
  /\ UNCHANGED <<chains, holder, pc, todo, last, resident, pinned, now>>

----
(* The rest of the system *)

Pin(f) ==
  /\ pinned' \in {pinned \cup {f}, pinned \ {f}}
  /\ UNCHANGED <<chains, mutex, holder, pc, todo, at, call, last, resident, now>>

EvictInode(f) ==
  /\ resident' = resident \ {f}
  /\ UNCHANGED <<chains, mutex, holder, pc, todo, at, call, last, pinned, now>>

Tick ==
  /\ now < MaxTime
  /\ now' = now + 1
  /\ UNCHANGED <<chains, mutex, holder, pc, todo, at, call, last, resident, pinned>>

CleanerStep == Begin \/ Lock \/ Visit \/ Retention \/ Retained \/ Unlock \/ Wake

(* What a thread in create_version does with the locks it has. *)
CallStep(p) == Release(p) \/ Create(p) \/ Sampled(p) \/ Return(p)

(* What it may wait for a lock to do. *)
CallWait(p) == Acquire(p) \/ LockChain(p) \/ Collect(p) \/ SampleChain(p)

Next ==
  \/ CleanerStep
  \/ \E p \in Callers, f \in Files : Request(p, f)
  \/ \E f \in Files : Pin(f) \/ EvictInode(f)
  \/ \E p \in Threads : CallWait(p) \/ CallStep(p)
  \/ Tick

(* Every thread is scheduled; a thread that keeps finding the lock it waits
   for free gets it: whoever holds one gives it back after a few steps, and
   the cleaner sleeps between its passes. *)
Fairness ==
  /\ WF_vars(CleanerStep) /\ SF_vars(Retention)
  /\ \A p \in Threads : WF_vars(CallStep(p)) /\ SF_vars(CallWait(p))

Spec == Init /\ [][Next]_vars /\ Fairness

----
(* Properties *)

(* A FUSE thread that creates a version returns, unless the cleaner has
   stopped in create_periodic: neither the mutex it takes twice nor the
   chains' locks, taken alone and under the mutex, can stop it otherwise. *)
WritersProgress ==
  \A p \in Callers : call[p] = "lock" ~> (call[p] = "idle" \/ call[Cleaner] = "lock")

(* The banner of main promises it: the background thread creates periodic
   versions every version_time_interval. *)
PeriodicVersion ==
  \A f \in Files :
    f \in chains /\ Due(f) ~> (~Due(f) \/ f \notin resident \/ f \in pinned)
====
