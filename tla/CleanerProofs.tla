---- MODULE CleanerProofs ----
(***************************************************************************)
(* Proofs about VersionCleaner, for every set of files, threads, interval  *)
(* and clock: who holds versions_mutex and the chains' locks where, and    *)
(* that a cleaner which creates a periodic version never gives it back.    *)
(***************************************************************************)
EXTENDS VersionCleaner, TLAPS

(* The cleaner calls create_version in the middle of a visit, with the mutex
   held, and so never gets past the lock. *)
CleanerCalls ==
  /\ call[Cleaner] \in {"idle", "lock"}
  /\ call[Cleaner] = "lock" => pc = "retain"

Inv == TypeOK /\ CleanerCalls

LEMMA People ==
  /\ Cleaner \in Threads /\ Cleaner # None
  /\ \A p \in Callers : p \in Threads /\ p # Cleaner /\ p # None
  /\ \A f \in Files : f # None
BY CleanerAssumption DEF Threads

LEMMA InitInv == Init => Inv
BY CleanerAssumption, People DEF Init, Inv, TypeOK, CleanerCalls, Places

LEMMA CleanerStepInv ==
  ASSUME Inv, CleanerStep
  PROVE  Inv'
<1> USE People DEF Inv, CleanerCalls
<1>1. CASE Begin
  BY <1>1 DEF Begin, TypeOK
<1>2. CASE Lock
  BY <1>2 DEF Lock, TypeOK
<1>3. CASE Visit
  <2>1. PICK f \in todo :
          /\ todo' = todo \ {f}
          /\ IF f \in resident /\ f \in pinned THEN UNCHANGED <<pc, at, call>>
             ELSE /\ at' = [at EXCEPT ![Cleaner] = f]
                  /\ pc' = "retain"
                  /\ call' = IF f \in resident /\ Due(f)
                             THEN [call EXCEPT ![Cleaner] = "lock"] ELSE call
    BY <1>3 DEF Visit
  <2>2. /\ pc = "visit" /\ mutex = Cleaner /\ f \in Files
        /\ UNCHANGED <<chains, mutex, holder, last, resident, pinned, now>>
    BY <1>3, <2>1 DEF Visit, TypeOK
  <2>3. /\ call' \in [Threads -> Places]
        /\ \A p \in Callers : call'[p] = call[p]
        /\ call'[Cleaner] \in {"idle", "lock"}
        /\ call'[Cleaner] = "lock" => pc' = "retain"
    BY <2>1, <2>2 DEF TypeOK, Places
  <2>4. /\ todo' \subseteq Files /\ at' \in [Threads -> Files \cup {None}]
        /\ \A p \in Callers : at'[p] = at[p]
        /\ pc' \in {"visit", "retain"}
        /\ at'[Cleaner] # None <=> pc' = "retain"
    BY <2>1, <2>2 DEF TypeOK
  <2> QED BY <2>2, <2>3, <2>4 DEF TypeOK
<1>4. CASE Retention
  <2>1. at[Cleaner] \in Files /\ holder[at[Cleaner]] = None
    BY <1>4 DEF Retention, TypeOK
  <2>2. /\ holder' \in [Files -> Threads \cup {None}]
        /\ \A f \in Files : holder'[f] = IF f = at[Cleaner] THEN Cleaner ELSE holder[f]
    BY <1>4, <2>1 DEF Retention, TypeOK
  <2> QED BY <1>4, <2>1, <2>2 DEF Retention, TypeOK
<1>5. CASE Retained
  <2>1. at[Cleaner] \in Files /\ holder[at[Cleaner]] = Cleaner
    BY <1>5 DEF Retained, TypeOK
  <2>2. /\ holder' \in [Files -> Threads \cup {None}]
        /\ \A f \in Files : holder'[f] = IF f = at[Cleaner] THEN None ELSE holder[f]
    BY <1>5, <2>1 DEF Retained, TypeOK
  <2>3. /\ at' \in [Threads -> Files \cup {None}] /\ at'[Cleaner] = None
        /\ \A p \in Callers : at'[p] = at[p]
    BY <1>5 DEF Retained, TypeOK
  <2> QED BY <1>5, <2>1, <2>2, <2>3 DEF Retained, TypeOK
<1>6. CASE Unlock
  BY <1>6 DEF Unlock, TypeOK
<1>7. CASE Wake
  BY <1>7 DEF Wake, TypeOK
<1> QED BY <1>1, <1>2, <1>3, <1>4, <1>5, <1>6, <1>7 DEF CleanerStep

(* The cleaner never gets past the first lock, so these are FUSE threads. *)
LEMMA NotCleaner ==
  ASSUME Inv, NEW p \in Threads, CallWait(p) \/ CallStep(p)
  PROVE  p \in Callers /\ p # Cleaner /\ p # None
<1>1. p # Cleaner
  <2> SUFFICES ASSUME p = Cleaner PROVE FALSE
    OBVIOUS
  <2>1. call[Cleaner] = "lock" /\ mutex = None
    BY DEF CallWait, CallStep, Acquire, Release, LockChain, Create, Collect, SampleChain,
       Sampled, Return, Inv, CleanerCalls
  <2> QED BY <2>1, People DEF Inv, CleanerCalls, TypeOK
<1> QED BY <1>1, People DEF Threads

LEMMA CallInv ==
  ASSUME Inv, NEW p \in Threads, CallWait(p) \/ CallStep(p)
  PROVE  Inv'
<1> USE People DEF Inv, CleanerCalls
<1>1. p \in Callers /\ p # Cleaner /\ p # None
  BY NotCleaner
<1>2. at[p] \in Files
  BY <1>1 DEF CallWait, CallStep, Acquire, Release, LockChain, Create, Collect, SampleChain,
     Sampled, Return, TypeOK
<1>3. CASE Acquire(p)
  BY <1>1, <1>3 DEF Acquire, TypeOK, Places
<1>4. CASE Release(p)
  BY <1>1, <1>2, <1>4 DEF Release, TypeOK, Places
<1>5. CASE LockChain(p)
  <2>1. /\ holder[at[p]] = None
        /\ holder' \in [Files -> Threads \cup {None}]
        /\ \A f \in Files : holder'[f] = IF f = at[p] THEN p ELSE holder[f]
    BY <1>2, <1>5 DEF LockChain, TypeOK
  <2>2. call' \in [Threads -> Places] /\ call[p] = "chain"
        /\ \A q \in Threads : call'[q] = IF q = p THEN "create" ELSE call[q]
    BY <1>5 DEF LockChain, TypeOK, Places
  <2>3. UNCHANGED <<chains, mutex, pc, todo, at, last, resident, pinned, now>>
    BY <1>5 DEF LockChain
  <2>4. \A f \in Files : holder'[f] = Cleaner <=> holder[f] = Cleaner
    <3>1. holder[at[p]] # Cleaner BY <2>1
    <3> QED BY <1>1, <2>1, <3>1
  <2>5. \A q \in Callers, f \in Files : holder'[f] = q =>
          (f = at[p] /\ q = p) \/ (f # at[p] /\ holder[f] = q /\ q # p)
    BY <1>1, <2>1, <2>2 DEF TypeOK
  <2>6. \A q \in Callers : /\ call'[q] = "create" => holder'[at'[q]] = q
                           /\ \A f \in Files : holder'[f] = q => call'[q] \in {"create", "reading"}
                           /\ \A f, g \in Files : holder'[f] = q /\ holder'[g] = q => f = g
    <3>1. \A q \in Callers : call'[q] = "create" => holder'[at'[q]] = q
      <4> SUFFICES ASSUME NEW q \in Callers, q # p, call[q] = "create"
                   PROVE  holder'[at[q]] = q
        BY <1>1, <1>2, <2>1, <2>2, <2>3
      <4>1. holder[at[q]] = q /\ at[q] \in Files
        BY DEF TypeOK
      <4> QED BY <2>1, <4>1
    <3>2. \A q \in Callers, f \in Files : holder'[f] = q => call'[q] \in {"create", "reading"}
      BY <1>1, <2>2, <2>5 DEF TypeOK
    <3>3. \A q \in Callers, f, g \in Files : holder'[f] = q /\ holder'[g] = q => f = g
      BY <2>5 DEF TypeOK
    <3> QED BY <3>1, <3>2, <3>3
  <2> QED BY <1>1, <2>1, <2>2, <2>3, <2>4, <2>6 DEF TypeOK
<1>6. CASE Create(p)
  <2>1. /\ holder[at[p]] = p
        /\ holder' \in [Files -> Threads \cup {None}]
        /\ \A f \in Files : holder'[f] = IF f = at[p] THEN None ELSE holder[f]
    BY <1>1, <1>2, <1>6 DEF Create, TypeOK
  <2>2. call' \in [Threads -> Places] /\ call[p] = "create"
        /\ \A q \in Threads : call'[q] = IF q = p THEN "collect" ELSE call[q]
    BY <1>6 DEF Create, TypeOK, Places
  <2>3. /\ UNCHANGED <<chains, mutex, pc, todo, at, resident, pinned, now>>
        /\ last' \in [Files -> 0..MaxTime]
    <3>1. now \in 0..MaxTime /\ last \in [Files -> 0..MaxTime]
      BY CleanerAssumption DEF TypeOK
    <3> QED BY <1>6, <3>1 DEF Create
  <2>4. \A f \in Files : holder[f] = p => f = at[p]
    BY <1>1, <1>2, <2>1 DEF TypeOK
  <2>5. \A f \in Files : holder'[f] = Cleaner <=> holder[f] = Cleaner
    BY <1>1, <2>1
  <2>6. \A q \in Callers, f \in Files : holder'[f] = q <=> holder[f] = q /\ q # p
    BY <1>1, <2>1, <2>4
  <2>7. \A q \in Callers : q # p /\ call[q] = "create" => at[q] \in Files
    BY DEF TypeOK
  <2> QED BY <1>1, <2>1, <2>2, <2>3, <2>5, <2>6, <2>7 DEF TypeOK
<1>7. CASE Collect(p)
  BY <1>1, <1>2, <1>7 DEF Collect, TypeOK, Places
<1>8. CASE SampleChain(p)
  <2>1. PICK f \in todo :
          /\ holder[f] = None
          /\ holder' = [holder EXCEPT ![f] = p]
          /\ todo' \in {todo \ {f}, {}}
    BY <1>8 DEF SampleChain
  <2>2. /\ f \in Files /\ todo' \subseteq Files
        /\ holder' \in [Files -> Threads \cup {None}]
        /\ \A g \in Files : holder'[g] = IF g = f THEN p ELSE holder[g]
    BY <2>1 DEF TypeOK
  <2>3. call' \in [Threads -> Places] /\ call[p] = "sampling" /\ mutex = p
        /\ \A q \in Threads : call'[q] = IF q = p THEN "reading" ELSE call[q]
    BY <1>1, <1>8 DEF SampleChain, TypeOK, Places
  <2>4. UNCHANGED <<chains, mutex, pc, at, last, resident, pinned, now>>
    BY <1>8 DEF SampleChain
  <2>5. \A g \in Files : holder'[g] = Cleaner <=> holder[g] = Cleaner
    BY <1>1, <2>1, <2>2
  <2>6. \A g \in Files : holder[g] # p
    BY <1>1, <2>3 DEF TypeOK
  <2>7. \A q \in Callers, g \in Files :
          holder'[g] = q <=> (g = f /\ q = p) \/ (holder[g] = q /\ q # p)
    BY <1>1, <2>1, <2>2, <2>6
  <2>8. \A q \in Callers : q # p /\ call[q] = "create" => at[q] \in Files
    BY DEF TypeOK
  <2> QED BY <1>1, <2>2, <2>3, <2>4, <2>5, <2>7, <2>8 DEF TypeOK
<1>9. CASE Sampled(p)
  <2>1. /\ holder' \in [Files -> Threads \cup {None}]
        /\ \A f \in Files : holder'[f] = IF holder[f] = p THEN None ELSE holder[f]
    BY <1>9 DEF Sampled, TypeOK
  <2>2. call' \in [Threads -> Places] /\ call[p] = "reading" /\ mutex = p
        /\ \A q \in Threads : call'[q] = IF q = p THEN "sampling" ELSE call[q]
    BY <1>1, <1>9 DEF Sampled, TypeOK, Places
  <2>3. UNCHANGED <<chains, mutex, pc, todo, at, last, resident, pinned, now>>
    BY <1>9 DEF Sampled
  <2>4. \A f \in Files : holder'[f] = Cleaner <=> holder[f] = Cleaner
    BY <1>1, <2>1
  <2>5. \A q \in Callers, f \in Files : holder'[f] = q <=> holder[f] = q /\ q # p
    BY <1>1, <2>1
  <2>6. \A q \in Callers : q # p /\ call[q] = "create" => at[q] \in Files
    BY DEF TypeOK
  <2> QED BY <1>1, <2>1, <2>2, <2>3, <2>4, <2>5, <2>6 DEF TypeOK
<1>10. CASE Return(p)
  <2>1. /\ at' \in [Threads -> Files \cup {None}] /\ call' \in [Threads -> Places]
        /\ \A q \in Threads : /\ at'[q] = IF q = p THEN None ELSE at[q]
                              /\ call'[q] = IF q = p THEN "idle" ELSE call[q]
    BY <1>10 DEF Return, TypeOK, Places
  <2>2. call[p] = "sampling" /\ mutex = p /\ mutex' = None
        /\ UNCHANGED <<chains, holder, pc, todo, last, resident, pinned, now>>
    BY <1>1, <1>10 DEF Return, TypeOK
  <2> QED BY <1>1, <2>1, <2>2 DEF TypeOK
<1> QED BY <1>3, <1>4, <1>5, <1>6, <1>7, <1>8, <1>9, <1>10 DEF CallWait, CallStep

LEMMA RequestInv ==
  ASSUME Inv, NEW p \in Callers, NEW f \in Files, Request(p, f)
  PROVE  Inv'
<1> USE People DEF Inv, CleanerCalls
<1>1. /\ at' \in [Threads -> Files \cup {None}] /\ call' \in [Threads -> Places]
      /\ \A q \in Threads : /\ at'[q] = IF q = p THEN f ELSE at[q]
                            /\ call'[q] = IF q = p THEN "lock" ELSE call[q]
  BY DEF Request, TypeOK, Places
<1>2. call[p] = "idle" /\ UNCHANGED <<chains, mutex, holder, pc, todo, last, resident, pinned, now>>
  BY DEF Request
<1> QED BY <1>1, <1>2 DEF TypeOK

LEMMA RestInv ==
  ASSUME Inv, (\E f \in Files : Pin(f) \/ EvictInode(f)) \/ Tick \/ UNCHANGED vars
  PROVE  Inv'
<1> USE CleanerAssumption DEF Inv, CleanerCalls
<1>1. ASSUME NEW f \in Files, Pin(f) \/ EvictInode(f) PROVE Inv'
  BY <1>1 DEF Pin, EvictInode, TypeOK
<1>2. CASE Tick
  BY <1>2 DEF Tick, TypeOK
<1>3. CASE UNCHANGED vars
  BY <1>3 DEF vars, TypeOK
<1> QED BY <1>1, <1>2, <1>3

LEMMA Invariance == Spec => []Inv
<1>1. Init => Inv
  BY InitInv
<1>2. Inv /\ [Next]_vars => Inv'
  BY CleanerStepInv, CallInv, RequestInv, RestInv DEF Next
<1> QED BY <1>1, <1>2, PTL DEF Spec

(* Lock order: versions_mutex belongs to the cleaner exactly while it visits
   the chains and to a FUSE thread exactly while it looks its chain up or
   samples all chains, and a chain's lock to a thread that waits for nothing,
   so that nobody waits for the mutex with a chain locked. *)
THEOREM CleanerTypes == Spec => []TypeOK
<1>1. Inv => TypeOK
  BY DEF Inv
<1> QED BY <1>1, Invariance, PTL

Stuck == call[Cleaner] = "lock" /\ mutex = Cleaner

(* A cleaner that wants a periodic version has the mutex and keeps it for
   ever: no thread gets its chain, or returns from create_version, any more. *)
THEOREM StuckForEver == Spec => [](call[Cleaner] = "lock" => []Stuck)
<1>1. Inv /\ call[Cleaner] = "lock" => Stuck
  BY DEF Inv, TypeOK, CleanerCalls, Stuck
<1>2. Inv /\ Stuck /\ [Next]_vars => Stuck'
  <2> SUFFICES ASSUME Inv, Stuck, [Next]_vars PROVE Stuck'
    OBVIOUS
  <2>1. call[Cleaner] = "lock" /\ mutex = Cleaner /\ pc = "retain" /\ call \in [Threads -> Places]
    BY DEF Stuck, Inv, CleanerCalls, TypeOK
  <2>2. CASE CleanerStep
    BY <2>1, <2>2 DEF CleanerStep, Begin, Lock, Visit, Retention, Retained, Unlock, Wake, Stuck
  <2>3. ASSUME NEW p \in Threads, CallWait(p) \/ CallStep(p) PROVE Stuck'
    <3>1. p \in Callers /\ p # Cleaner
      BY <2>3, NotCleaner
    <3>2. mutex # p /\ mutex # None
      BY <2>1, <3>1, People
    <3>3. LockChain(p) \/ Create(p)
      BY <2>1, <2>3, <3>1, <3>2 DEF CallWait, CallStep, Acquire, Release, Collect, SampleChain,
         Sampled, Return, Inv, TypeOK
    <3> QED BY <2>1, <3>1, <3>3, People DEF LockChain, Create, Stuck
  <2>4. ASSUME NEW p \in Callers, NEW f \in Files, Request(p, f) PROVE Stuck'
    BY <2>1, <2>4, People DEF Request, Stuck
  <2>5. ASSUME NEW f \in Files, Pin(f) \/ EvictInode(f) PROVE Stuck'
    BY <2>1, <2>5 DEF Pin, EvictInode, Stuck
  <2>6. CASE Tick \/ UNCHANGED vars
    BY <2>1, <2>6 DEF Tick, vars, Stuck
  <2> QED BY <2>2, <2>3, <2>4, <2>5, <2>6 DEF Next
<1> QED BY <1>1, <1>2, Invariance, PTL DEF Spec
====
