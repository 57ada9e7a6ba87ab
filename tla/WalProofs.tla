---- MODULE WalProofs ----
(***************************************************************************)
(* Proofs about Wal, for every number of threads, capacity and bound: the  *)
(* types, and what a crash finds in the files of the run that died.  What  *)
(* a step does to segments and files is one of six effects; the theorems   *)
(* are proved from those.                                                  *)
(***************************************************************************)
EXTENDS Wal, SequenceTheorems, WellFoundedInduction, TLAPS

Segment == [recs : Seq(Record), written : BOOLEAN]

Places == Logging \cup {"idle", "begin", "flush", "fill"}

----
(* Segments and their files *)

(* s is a beginning of t, record by record. *)
Begins(s, t) == Len(s) <= Len(t) /\ \A i \in 1..Len(s) : s[i] = t[i]

LEMMA BeginsIsPrefix ==
  ASSUME NEW s \in Seq(Record), NEW t \in Seq(Record), Begins(s, t)
  PROVE  IsPrefix(s, t)
<1>1. SubSeq(s, 1, Len(s)) = SubSeq(t, 1, Len(s))
  BY DEF Begins
<1> QED BY <1>1 DEF IsPrefix, Begins

LEMMA PartBegins ==
  ASSUME NEW t \in Seq(Record), NEW k \in 0..Len(t)
  PROVE  /\ SubSeq(t, 1, k) \in Seq(Record) /\ Len(SubSeq(t, 1, k)) = k
         /\ Begins(SubSeq(t, 1, k), t)
         /\ k = Len(t) => SubSeq(t, 1, k) = t
<1>1. SubSeq(t, 1, k) \in Seq(Record) /\ Len(SubSeq(t, 1, k)) = k
  OBVIOUS
<1>2. \A i \in 1..k : SubSeq(t, 1, k)[i] = t[i]
  OBVIOUS
<1>3. k = Len(t) => SubSeq(t, 1, k) = t
  OBVIOUS
<1> QED BY <1>1, <1>2, <1>3 DEF Begins

(* The current segment takes a record. *)
Appended(s, r) == [s EXCEPT ![Len(s)].recs = Append(@, r)]

LEMMA AppendToLast ==
  ASSUME NEW s \in Seq(Segment), s # <<>>, NEW r \in Record
  PROVE  /\ Appended(s, r) \in Seq(Segment) /\ Len(Appended(s, r)) = Len(s)
         /\ \A i \in 1..(Len(s) - 1) : Appended(s, r)[i] = s[i]
         /\ Appended(s, r)[Len(s)].recs = Append(s[Len(s)].recs, r)
         /\ Appended(s, r)[Len(s)].written = s[Len(s)].written
<1> DEFINE x == [s[Len(s)] EXCEPT !.recs = Append(s[Len(s)].recs, r)]
<1>1. Len(s) \in 1..Len(s) /\ s[Len(s)] \in Segment
  OBVIOUS
<1>2. Append(s[Len(s)].recs, r) \in Seq(Record)
  BY <1>1 DEF Segment
<1>3. ASSUME NEW y \in Segment, NEW q \in Seq(Record)
      PROVE  /\ [y EXCEPT !.recs = q] \in Segment
             /\ [y EXCEPT !.recs = q].recs = q /\ [y EXCEPT !.recs = q].written = y.written
  BY DEF Segment
<1>4. x \in Segment /\ x.recs = Append(s[Len(s)].recs, r) /\ x.written = s[Len(s)].written
  BY <1>1, <1>2, <1>3
<1>5. Appended(s, r) = [s EXCEPT ![Len(s)] = x]
  BY DEF Appended
<1> HIDE DEF x
<1>6. /\ Appended(s, r) \in Seq(Segment) /\ Len(Appended(s, r)) = Len(s)
      /\ \A j \in 1..Len(s) : Appended(s, r)[j] = IF j = Len(s) THEN x ELSE s[j]
  BY ONLY <1>1, <1>4, <1>5, ExceptSeq, s \in Seq(Segment)
<1> QED BY <1>1, <1>4, <1>6

(* The current segment is marked as written, or stays as it is. *)
Marked(s, ok) == [s EXCEPT ![Len(s)].written = @ \/ ok]

LEMMA MarkLast ==
  ASSUME NEW s \in Seq(Segment), s # <<>>, NEW ok \in BOOLEAN
  PROVE  /\ Marked(s, ok) \in Seq(Segment) /\ Len(Marked(s, ok)) = Len(s)
         /\ \A i \in 1..Len(s) : Marked(s, ok)[i].recs = s[i].recs
         /\ \A i \in 1..(Len(s) - 1) : Marked(s, ok)[i] = s[i]
         /\ Marked(s, ok)[Len(s)].written => ok \/ s[Len(s)].written
<1> DEFINE x == [s[Len(s)] EXCEPT !.written = s[Len(s)].written \/ ok]
<1>1. Len(s) \in 1..Len(s) /\ s[Len(s)] \in Segment
  OBVIOUS
<1>2. ASSUME NEW y \in Segment, NEW q \in BOOLEAN
      PROVE  /\ [y EXCEPT !.written = q] \in Segment
             /\ [y EXCEPT !.written = q].recs = y.recs /\ [y EXCEPT !.written = q].written = q
  BY DEF Segment
<1>3. (s[Len(s)].written \/ ok) \in BOOLEAN
  OBVIOUS
<1>4. x \in Segment /\ x.recs = s[Len(s)].recs /\ (x.written => ok \/ s[Len(s)].written)
  BY <1>1, <1>2, <1>3
<1>5. Marked(s, ok) = [s EXCEPT ![Len(s)] = x]
  BY DEF Marked
<1> HIDE DEF x
<1>6. /\ Marked(s, ok) \in Seq(Segment) /\ Len(Marked(s, ok)) = Len(s)
      /\ \A j \in 1..Len(s) : Marked(s, ok)[j] = IF j = Len(s) THEN x ELSE s[j]
  BY ONLY <1>1, <1>4, <1>5, ExceptSeq, s \in Seq(Segment)
<1> QED BY <1>1, <1>4, <1>6

(* A segment is begun. *)
LEMMA BeginSegment ==
  ASSUME NEW s \in Seq(Segment), NEW r \in Record
  PROVE  /\ NewSegment(s, r) \in Seq(Segment) /\ Len(NewSegment(s, r)) = Len(s) + 1
         /\ \A i \in 1..Len(s) : NewSegment(s, r)[i] = s[i]
         /\ NewSegment(s, r)[Len(s) + 1].recs = <<r>>
         /\ ~NewSegment(s, r)[Len(s) + 1].written
<1>1. [recs |-> <<r>>, written |-> FALSE] \in Segment
  BY DEF Segment
<1> QED BY <1>1 DEF NewSegment

----
(* The invariant of the types *)

(* A thread that fills a file has a segment to write and a file that is
   open; if it is to begin a segment then, the current one is full. *)
Filling(w) ==
  pc[w] = "fill" =>
    /\ segs # <<>> /\ Cur \in DOMAIN disk
    /\ task[w].at \in Logging \cup {"flush"}
    /\ task[w].at # "flush" => Len(segs[Cur].recs) = Cap

TypeInv ==
  /\ segs \in Seq(Segment)
  /\ \A s \in 1..Cur : Len(segs[s].recs) \in 1..Cap
  /\ \A s \in 1..(Cur - 1) : Len(segs[s].recs) = Cap
  /\ \A id \in DOMAIN disk : disk[id] \in Seq(Record) /\ Len(disk[id]) <= Cap
  /\ enabled \in BOOLEAN
  /\ mutex \in Writers \cup {None}
  /\ pc \in [Writers -> Places]
  /\ task \in [Writers -> [kind : Tasks, at : Places]]
  /\ \A w \in Writers : mutex = w <=> pc[w] = "fill"
  /\ \A w \in Writers : Filling(w)
  /\ run \in 1..MaxRuns
  /\ failed \subseteq 1..Cur

LEMMA TypeInvIsEnough == TypeInv => TypeOK
<1> SUFFICES ASSUME TypeInv PROVE TypeOK
  OBVIOUS
<1> USE DEF TypeInv
<1>1. DOMAIN segs = 1..Cur /\ Cur \in Nat
  BY DEF Cur
<1>2. \A s \in 1..Cur : segs[s] \in Segment
  BY DEF Cur
<1>3. \A s \in DOMAIN segs : segs[s].recs \in Seq(Record) /\ segs[s].written \in BOOLEAN
  BY <1>1, <1>2 DEF Segment
<1> QED BY <1>1, <1>3 DEF TypeOK

LEMMA TypeInvInit == Init => TypeInv
<1> SUFFICES ASSUME Init PROVE TypeInv
  OBVIOUS
<1> USE WalAssumption DEF Init
<1>1. NoTask \in [kind : Tasks, at : Places]
  BY DEF NoTask, Tasks, Places
<1>2. Cur = 0
  BY DEF Cur
<1> QED BY <1>1, <1>2 DEF TypeInv, Filling, Places

----
(* What a step does to segments and files *)

(* Nothing. *)
Quiet == UNCHANGED <<segs, disk, mutex, failed>>

(* A record is logged: in the first segment, or in the current one. *)
FirstLogged ==
  /\ segs = <<>> /\ \E r \in Record : segs' = NewSegment(segs, r)
  /\ mutex = None /\ UNCHANGED <<disk, mutex, failed>>

Logged ==
  /\ segs # <<>> /\ Len(segs[Cur].recs) < Cap
  /\ \E r \in Record : segs' = [segs EXCEPT ![Cur].recs = Append(@, r)]
  /\ mutex = None /\ UNCHANGED <<disk, mutex, failed>>

(* A file is opened. *)
Opened(w) ==
  /\ segs # <<>> /\ mutex = None
  /\ OpenFile(w) /\ pc[w] \in Logging \cup {"flush"}
  /\ pc[w] # "flush" => ~(Len(segs[Cur].recs) < Cap)
  /\ UNCHANGED <<segs, failed>>

LEMMA RecsTyped ==
  ASSUME run \in 1..MaxRuns, NEW k \in Logging
  PROVE  Recs(k) \subseteq Record
<1>1. \A r \in Recs(k) : r.size \in 0..2 /\ (r.size = 0 <=> k # "entry")
  BY DEF Recs
<1> QED BY <1>1 DEF Recs, Record

LEMMA LogEffect ==
  ASSUME TypeInv, NEW w \in Writers, Log(w)
  PROVE  FirstLogged \/ Logged \/ Opened(w)
<1> USE DEF TypeInv
<1>1. PICK r \in Recs(pc[w]) :
         \/ segs = <<>> /\ segs' = NewSegment(segs, r) /\ UNCHANGED <<disk, mutex, task>>
         \/ /\ segs # <<>> /\ Len(segs[Cur].recs) < Cap
            /\ segs' = [segs EXCEPT ![Cur].recs = Append(@, r)] /\ UNCHANGED <<disk, mutex, task>>
         \/ segs # <<>> /\ ~(Len(segs[Cur].recs) < Cap) /\ OpenFile(w) /\ UNCHANGED segs
  BY DEF Log
<1>2. r \in Record
  BY RecsTyped DEF Log
<1>3. mutex = None /\ failed' = failed /\ pc[w] \in Logging
  BY DEF Log
<1> QED BY <1>1, <1>2, <1>3 DEF FirstLogged, Logged, Opened

LEMMA FlushEffect ==
  ASSUME TypeInv, NEW w \in Writers, Flush(w)
  PROVE  Quiet \/ Opened(w)
  BY DEF Flush, Quiet, Opened

(* A file is filled, as far as place k, and closed.  What is left of the
   segments: the current one may be marked, and followed by a new one. *)
Filled(w) ==
  /\ segs # <<>> /\ Cur \in DOMAIN disk /\ pc[w] = "fill" /\ mutex' = None
  /\ \E ok \in BOOLEAN, k \in 0..Len(segs[Cur].recs) :
       /\ k = Len(segs[Cur].recs) <=> ok
       /\ disk' = [disk EXCEPT ![Cur] = SubSeq(segs[Cur].recs, 1, k)]
       /\ failed' = IF ok THEN failed \ {Cur} ELSE failed \cup {Cur}
       /\ segs' \in Seq(Segment)
       /\ \A i \in 1..Cur : segs'[i].recs = segs[i].recs
       /\ \A i \in 1..(Cur - 1) : segs'[i] = segs[i]
       /\ segs'[Cur].written => ok \/ segs[Cur].written
       /\ \/ Cur' = Cur
          \/ /\ Cur' = Cur + 1 /\ Len(segs[Cur].recs) = Cap
             /\ Len(segs'[Cur + 1].recs) = 1 /\ ~segs'[Cur + 1].written

LEMMA FillEffect ==
  ASSUME TypeInv, NEW w \in Writers, Fill(w)
  PROVE  Filled(w)
<1> USE DEF TypeInv
<1>1. /\ pc[w] = "fill" /\ mutex' = None /\ segs # <<>> /\ Cur \in DOMAIN disk
      /\ task[w].at \in Logging \cup {"flush"}
      /\ task[w].at # "flush" => Len(segs[Cur].recs) = Cap
  BY DEF Fill, Filling
<1>2. PICK ok \in BOOLEAN, k \in 0..Len(segs[Cur].recs) :
        /\ k = Len(segs[Cur].recs) <=> ok
        /\ disk' = [disk EXCEPT ![Cur] = SubSeq(segs[Cur].recs, 1, k)]
        /\ failed' = IF ok THEN failed \ {Cur} ELSE failed \cup {Cur}
        /\ \/ task[w].at = "flush" /\ segs' = Marked(segs, ok)
           \/ /\ task[w].at # "flush"
              /\ \E r \in Recs(task[w].at) : segs' = NewSegment(Marked(segs, ok), r)
  BY DEF Fill, Marked, Cur
<1> DEFINE m == Marked(segs, ok)
<1>3. \/ task[w].at = "flush" /\ segs' = m
      \/ task[w].at # "flush" /\ \E r \in Recs(task[w].at) : segs' = NewSegment(m, r)
  BY <1>2
<1>4. Cur \in 1..Cur /\ ok \in BOOLEAN
  BY <1>1 DEF Cur
<1>5. /\ m \in Seq(Segment) /\ Len(m) = Cur
      /\ \A i \in 1..Cur : m[i].recs = segs[i].recs
      /\ \A i \in 1..(Cur - 1) : m[i] = segs[i]
      /\ m[Cur].written => ok \/ segs[Cur].written
  BY <1>1, MarkLast DEF Cur
<1> HIDE DEF m
<1>6. /\ segs' \in Seq(Segment)
      /\ \A i \in 1..Cur : segs'[i] = m[i]
      /\ \/ Cur' = Cur
         \/ /\ Cur' = Cur + 1 /\ Len(segs[Cur].recs) = Cap
            /\ Len(segs'[Cur + 1].recs) = 1 /\ ~segs'[Cur + 1].written
  <2>1. CASE segs' = m
    BY <1>5, <2>1 DEF Cur
  <2>2. ASSUME task[w].at # "flush", NEW r \in Recs(task[w].at), segs' = NewSegment(m, r)
        PROVE  <1>6!1 /\ <1>6!2 /\ <1>6!3
    <3>1. r \in Record
      BY <1>1, <2>2, RecsTyped
    <3>2. /\ segs' \in Seq(Segment) /\ Len(segs') = Len(m) + 1
          /\ \A i \in 1..Len(m) : segs'[i] = m[i]
          /\ segs'[Len(m) + 1].recs = <<r>> /\ ~segs'[Len(m) + 1].written
      <4>1. m \in Seq(Segment)
        BY <1>5
      <4> QED BY <2>2, <3>1, <4>1, BeginSegment
    <3>3. Cur' = Cur + 1
      BY <1>5, <3>2 DEF Cur
    <3> QED BY <1>1, <1>5, <2>2, <3>2, <3>3
  <2> QED BY <1>3, <2>1, <2>2
<1>7. /\ \A i \in 1..Cur : segs'[i].recs = segs[i].recs
      /\ \A i \in 1..(Cur - 1) : segs'[i] = segs[i]
      /\ segs'[Cur].written => ok \/ segs[Cur].written
  BY <1>4, <1>5, <1>6
<1> QED BY <1>1, <1>2, <1>6, <1>7 DEF Filled

(* A crash ends the run: the segments are gone, an open file keeps a part. *)
LEMMA StepEffect ==
  ASSUME TypeInv, [Next]_vars
  PROVE  \/ Quiet \/ FirstLogged \/ Logged \/ Crash
         \/ \E w \in Writers : Opened(w) \/ Filled(w)
<1>1. CASE UNCHANGED vars
  BY <1>1 DEF vars, Quiet
<1>2. ASSUME NEW w \in Writers, Start(w) \/ Enable(w) \/ Begin(w) \/ SkipLog(w)
      PROVE  Quiet
  BY <1>2 DEF Start, Enable, Begin, SkipLog, Quiet
<1>3. Disable => Quiet
  BY DEF Disable, Quiet
<1> QED BY <1>1, <1>2, <1>3, LogEffect, FlushEffect, FillEffect DEF Next

----
(* The types are kept *)

LEMMA AfterPlace ==
  ASSUME TypeInv, NEW w \in Writers, NEW k \in Logging
  PROVE  After(w, k) \in Places \ {"fill"}
  BY DEF TypeInv, After, Logging, Places, Tasks

(* Threads: the mutex is held exactly while a file is being filled. *)
LEMMA ThreadsTyped ==
  ASSUME TypeInv, [Next]_vars
  PROVE  /\ enabled' \in BOOLEAN /\ run' \in 1..MaxRuns
         /\ mutex' \in Writers \cup {None}
         /\ pc' \in [Writers -> Places]
         /\ task' \in [Writers -> [kind : Tasks, at : Places]]
         /\ \A w \in Writers : mutex' = w <=> pc'[w] = "fill"
<1> DEFINE Goal == /\ enabled' \in BOOLEAN /\ run' \in 1..MaxRuns
                   /\ mutex' \in Writers \cup {None}
                   /\ pc' \in [Writers -> Places]
                   /\ task' \in [Writers -> [kind : Tasks, at : Places]]
                   /\ \A w \in Writers : mutex' = w <=> pc'[w] = "fill"
<1> USE WalAssumption DEF TypeInv, Goto
<1>1. ASSUME NEW x \in Tasks, NEW w \in Writers
      PROVE  [task EXCEPT ![w].kind = x] \in [Writers -> [kind : Tasks, at : Places]]
  OBVIOUS
<1>2. ASSUME NEW x \in Places, NEW w \in Writers
      PROVE  [task EXCEPT ![w].at = x] \in [Writers -> [kind : Tasks, at : Places]]
  OBVIOUS
<1>3. ASSUME NEW w \in Writers, Start(w) \/ Enable(w) PROVE Goal
  <2>1. PICK x \in Tasks : task' = [task EXCEPT ![w].kind = x]
    BY <1>3 DEF Start, Enable, Tasks
  <2>2. task' \in [Writers -> [kind : Tasks, at : Places]]
    BY <1>1, <2>1
  <2> QED BY <1>3, <2>2 DEF Start, Enable, Places
<1>4. ASSUME NEW w \in Writers, Begin(w) PROVE Goal
  <2>1. "open" \in Logging
    BY DEF Logging
  <2>2. After(w, "open") \in Places \ {"fill"}
    BY <2>1, AfterPlace
  <2>3. PICK p \in Places \ {"fill"} : pc' = [pc EXCEPT ![w] = p]
    BY <1>4, <2>1, <2>2 DEF Begin, Places
  <2> QED BY <1>4, <2>3 DEF Begin
<1>5. ASSUME NEW w \in Writers, Log(w) PROVE Goal
  <2>1. After(w, pc[w]) \in Places \ {"fill"} /\ pc[w] \in Places /\ "fill" \in Places
    BY <1>5, AfterPlace DEF Log, Places
  <2>2. \/ pc' = [pc EXCEPT ![w] = After(w, pc[w])] /\ UNCHANGED <<mutex, task>>
        \/ /\ mutex' = w /\ pc' = [pc EXCEPT ![w] = "fill"]
           /\ task' = [task EXCEPT ![w].at = pc[w]]
    BY <1>5 DEF Log, OpenFile
  <2>3. task' \in [Writers -> [kind : Tasks, at : Places]]
    <3>1. [task EXCEPT ![w].at = pc[w]] \in [Writers -> [kind : Tasks, at : Places]]
      BY <1>2, <2>1
    <3>2. task' = task \/ task' = [task EXCEPT ![w].at = pc[w]]
      BY <2>2
    <3> QED BY <3>1, <3>2
  <2>4. mutex = None /\ pc[w] # "fill" /\ enabled' = enabled /\ run' = run
    BY <1>5 DEF Log, Logging
  <2> QED BY <2>1, <2>2, <2>3, <2>4
<1>6. ASSUME NEW w \in Writers, SkipLog(w) PROVE Goal
  <2>1. After(w, pc[w]) \in Places \ {"fill"} /\ pc[w] # "fill"
    BY <1>6, AfterPlace DEF SkipLog, Logging
  <2>2. {"rollback", "idle"} \subseteq Places \ {"fill"}
    BY DEF Places, Logging
  <2>3. PICK p \in Places \ {"fill"} : pc' = [pc EXCEPT ![w] = p]
    BY <1>6, <2>1, <2>2 DEF SkipLog
  <2> QED BY <1>6, <2>1, <2>3 DEF SkipLog
<1>7. ASSUME NEW w \in Writers, Flush(w) PROVE Goal
  <2>1. {"flush", "fill", "idle"} \subseteq Places
    BY DEF Places
  <2>2. \/ pc' = [pc EXCEPT ![w] = "idle"] /\ UNCHANGED <<mutex, task>>
        \/ /\ mutex' = w /\ pc' = [pc EXCEPT ![w] = "fill"]
           /\ task' = [task EXCEPT ![w].at = "flush"]
    BY <1>7 DEF Flush, OpenFile
  <2>3. task' \in [Writers -> [kind : Tasks, at : Places]]
    <3>1. [task EXCEPT ![w].at = "flush"] \in [Writers -> [kind : Tasks, at : Places]]
      BY <1>2, <2>1
    <3>2. task' = task \/ task' = [task EXCEPT ![w].at = "flush"]
      BY <2>2
    <3> QED BY <3>1, <3>2
  <2>4. mutex = None /\ pc[w] # "fill" /\ enabled' = enabled /\ run' = run
    BY <1>7 DEF Flush
  <2>5. pc' \in [Writers -> Places]
    BY <2>1, <2>2
  <2>6. \A v \in Writers : mutex' = v <=> pc'[v] = "fill"
    BY <2>2, <2>4
  <2> QED BY <2>2, <2>3, <2>4, <2>5, <2>6
<1>8. ASSUME NEW w \in Writers, Fill(w) PROVE Goal
  <2>1. "idle" \in Places \ {"fill"}
    BY DEF Places
  <2>2. task[w].at # "flush" => After(w, task[w].at) \in Places \ {"fill"}
    BY <1>8, AfterPlace DEF Fill, Filling
  <2>3. PICK p \in Places \ {"fill"} : pc' = [pc EXCEPT ![w] = p]
    BY <1>8, <2>1, <2>2 DEF Fill
  <2>4. task' \in [Writers -> [kind : Tasks, at : Places]]
    BY <1>2, <1>8, <2>1 DEF Fill
  <2>5. mutex = w /\ mutex' = None /\ enabled' = enabled /\ run' = run
    BY <1>8 DEF Fill
  <2> QED BY <2>3, <2>4, <2>5
<1>9. CASE Disable
  BY <1>9 DEF Disable
<1>10. CASE Crash
  <2>1. NoTask \in [kind : Tasks, at : Places]
    BY DEF NoTask, Tasks, Places
  <2> QED BY <1>10, <2>1 DEF Crash, Places
<1>11. CASE UNCHANGED vars
  BY <1>11 DEF vars
<1> QED BY <1>3, <1>4, <1>5, <1>6, <1>7, <1>8, <1>9, <1>10, <1>11 DEF Next

(* Files with part of a segment in place Cur. *)
LEMMA PartTyped ==
  ASSUME TypeInv, segs # <<>>, NEW k \in 0..Len(segs[Cur].recs),
         disk' = [disk EXCEPT ![Cur] = SubSeq(segs[Cur].recs, 1, k)]
  PROVE  \A id \in DOMAIN disk' : disk'[id] \in Seq(Record) /\ Len(disk'[id]) <= Cap
<1>1. Cur \in 1..Cur /\ segs[Cur] \in Segment
  BY DEF TypeInv, Cur
<1>2. segs[Cur].recs \in Seq(Record) /\ Len(segs[Cur].recs) \in 1..Cap
  BY <1>1 DEF TypeInv, Segment
<1>3. SubSeq(segs[Cur].recs, 1, k) \in Seq(Record) /\ Len(SubSeq(segs[Cur].recs, 1, k)) <= Cap
  BY <1>2, PartBegins, WalAssumption
<1> QED BY <1>3 DEF TypeInv

LEMMA SegmentsTyped ==
  ASSUME TypeInv, [Next]_vars
  PROVE  /\ segs' \in Seq(Segment)
         /\ \A s \in 1..Cur' : Len(segs'[s].recs) \in 1..Cap
         /\ \A s \in 1..(Cur' - 1) : Len(segs'[s].recs) = Cap
         /\ \A id \in DOMAIN disk' : disk'[id] \in Seq(Record) /\ Len(disk'[id]) <= Cap
         /\ failed' \subseteq 1..Cur'
<1> DEFINE Goal == /\ segs' \in Seq(Segment)
                   /\ \A s \in 1..Cur' : Len(segs'[s].recs) \in 1..Cap
                   /\ \A s \in 1..(Cur' - 1) : Len(segs'[s].recs) = Cap
                   /\ \A id \in DOMAIN disk' :
                        disk'[id] \in Seq(Record) /\ Len(disk'[id]) <= Cap
                   /\ failed' \subseteq 1..Cur'
<1>1. /\ segs \in Seq(Segment) /\ Cur = Len(segs) /\ Cur \in Nat
      /\ \A s \in 1..Cur : Len(segs[s].recs) \in 1..Cap
      /\ \A s \in 1..(Cur - 1) : Len(segs[s].recs) = Cap
      /\ \A id \in DOMAIN disk : disk[id] \in Seq(Record) /\ Len(disk[id]) <= Cap
      /\ failed \subseteq 1..Cur
      /\ Cap \in Nat \ {0} /\ Cur' = Len(segs')
  BY WalAssumption DEF TypeInv, Cur
<1>2. (segs # <<>> => Cur \in 1..Cur) /\ 1 \in 1..Cap
  BY <1>1
<1>3. CASE Quiet
  BY <1>1, <1>3 DEF Quiet
<1>4. CASE FirstLogged
  <2>1. PICK r \in Record : segs' = NewSegment(segs, r)
    BY <1>4 DEF FirstLogged
  <2>2. segs = <<>> /\ Len(segs) = 0 /\ UNCHANGED <<disk, failed>>
    BY <1>4 DEF FirstLogged
  <2>3. segs' \in Seq(Segment) /\ Len(segs') = Len(segs) + 1 /\ segs'[Len(segs) + 1].recs = <<r>>
    BY <1>1, <2>1, BeginSegment
  <2>4. Len(segs') = 1 /\ Len(segs'[1].recs) = 1
    BY <2>2, <2>3
  <2>5. Cur' = 1
    BY <1>1, <2>4
  <2>6. \A s \in 1..Cur' : Len(segs'[s].recs) \in 1..Cap
    <3>1. ASSUME NEW s \in 1..Cur' PROVE s = 1
      BY <2>5, <3>1
    <3> QED BY <1>2, <2>4, <3>1
  <2> QED BY <1>1, <2>2, <2>3, <2>5, <2>6
<1>5. CASE Logged
  <2>1. PICK r \in Record : segs' = Appended(segs, r)
    BY <1>5 DEF Logged, Appended, Cur
  <2>2. segs # <<>> /\ Len(segs[Cur].recs) < Cap /\ UNCHANGED <<disk, failed>>
    BY <1>5 DEF Logged
  <2>3. /\ segs' \in Seq(Segment) /\ Len(segs') = Len(segs)
        /\ \A i \in 1..(Len(segs) - 1) : segs'[i] = segs[i]
        /\ segs'[Len(segs)].recs = Append(segs[Len(segs)].recs, r)
    BY <1>1, <2>1, <2>2, AppendToLast
  <2>4. segs[Cur].recs \in Seq(Record)
    <3>1. segs[Cur] \in Segment
      BY <1>1, <1>2, <2>2
    <3> QED BY <3>1 DEF Segment
  <2>5. Len(segs'[Cur].recs) \in 1..Cap
    BY <1>1, <2>2, <2>3, <2>4
  <2> QED BY <1>1, <2>2, <2>3, <2>5
<1>6. CASE Crash
  <2>1. segs' = <<>> /\ failed' = {}
    BY <1>6 DEF Crash
  <2>2. \A id \in DOMAIN disk' : disk'[id] \in Seq(Record) /\ Len(disk'[id]) <= Cap
    <3>1. CASE mutex = None
      BY <1>1, <1>6, <3>1 DEF Crash
    <3>2. CASE mutex # None
      <4>1. segs # <<>>
        BY <3>2 DEF TypeInv, Filling
      <4> QED BY <1>6, <3>2, <4>1, PartTyped DEF Crash
    <3> QED BY <3>1, <3>2
  <2> QED BY <1>1, <2>1, <2>2
<1>7. ASSUME NEW w \in Writers, Opened(w) PROVE Goal
  <2>1. \A id \in DOMAIN disk' : disk'[id] = <<>> \/ (id \in DOMAIN disk /\ disk'[id] = disk[id])
    BY <1>7 DEF Opened, OpenFile
  <2>2. <<>> \in Seq(Record) /\ Len(<<>>) <= Cap
    BY <1>1
  <2>3. \A id \in DOMAIN disk' : disk'[id] \in Seq(Record) /\ Len(disk'[id]) <= Cap
    BY <1>1, <2>1, <2>2
  <2> QED BY <1>1, <1>7, <2>3 DEF Opened
<1>8. ASSUME NEW w \in Writers, Filled(w) PROVE Goal
  <2>1. \A id \in DOMAIN disk' : disk'[id] \in Seq(Record) /\ Len(disk'[id]) <= Cap
    BY <1>8, PartTyped DEF Filled
  <2>2. Cur \in 1..Cur
    BY <1>2, <1>8 DEF Filled
  <2>3. Cur' \in {Cur, Cur + 1} /\ failed' \subseteq failed \cup {Cur} /\ segs' \in Seq(Segment)
    BY <1>8 DEF Filled
  <2>4. failed' \subseteq 1..Cur'
    BY <1>1, <2>2, <2>3
  <2>5. \A s \in 1..Cur : segs'[s].recs = segs[s].recs
    BY <1>8 DEF Filled
  <2>6. Cur' = Cur + 1 => Len(segs[Cur].recs) = Cap /\ Len(segs'[Cur'].recs) = 1
    BY <1>1, <1>8 DEF Filled
  <2>7. ASSUME NEW s \in 1..Cur' PROVE Len(segs'[s].recs) \in 1..Cap
    <3>1. CASE s \in 1..Cur
      BY <1>1, <2>5, <3>1
    <3>2. CASE s \notin 1..Cur
      <4>1. s = Cur' /\ Cur' = Cur + 1
        BY <1>1, <2>3, <3>2
      <4> QED BY <1>2, <2>6, <4>1
    <3> QED BY <3>1, <3>2
  <2>8. ASSUME NEW s \in 1..(Cur' - 1) PROVE Len(segs'[s].recs) = Cap
    BY <1>1, <2>3, <2>5, <2>6
  <2> QED BY <2>1, <2>3, <2>4, <2>7, <2>8
<1> QED BY <1>3, <1>4, <1>5, <1>6, <1>7, <1>8, StepEffect

(* Only a thread that opens a file begins to fill one, and while it does the
   others leave its task, the segments and the files alone. *)
LEMMA FillingStep ==
  ASSUME TypeInv, [Next]_vars
  PROVE  \A v \in Writers : Filling(v)'
<1> USE WalAssumption
<1>1. SUFFICES ASSUME NEW v \in Writers, mutex' = v PROVE Filling(v)'
  BY ThreadsTyped DEF Filling
<1>2. CASE Quiet
  <2>1. mutex = v /\ pc[v] = "fill"
    BY <1>1, <1>2 DEF Quiet, TypeInv
  <2>2. task'[v].at = task[v].at
    <3>1. ASSUME NEW w \in Writers, Start(w) \/ Enable(w) PROVE task'[v].at = task[v].at
      BY <2>1, <3>1 DEF Start, Enable, TypeInv
    <3>2. ASSUME NEW w \in Writers, Begin(w) \/ SkipLog(w) PROVE task'[v].at = task[v].at
      BY <3>2 DEF Begin, SkipLog
    <3>3. ASSUME NEW w \in Writers, Log(w) \/ Flush(w) \/ Fill(w) PROVE task'[v].at = task[v].at
      BY <1>1, <2>1, <3>3 DEF Log, Flush, Fill
    <3>4. Disable \/ Crash \/ UNCHANGED vars => task'[v].at = task[v].at
      BY <1>1 DEF Disable, Crash, vars
    <3> QED BY <3>1, <3>2, <3>3, <3>4 DEF Next
  <2> QED BY <1>2, <2>1, <2>2 DEF Quiet, TypeInv, Filling, Cur
<1>3. CASE FirstLogged \/ Logged \/ Crash
  BY <1>1, <1>3 DEF FirstLogged, Logged, Crash
<1>4. ASSUME NEW w \in Writers, Opened(w) PROVE Filling(v)'
  <2>1. v = w /\ task' = [task EXCEPT ![v].at = pc[v]] /\ Cur \in DOMAIN disk'
    BY <1>1, <1>4 DEF Opened, OpenFile
  <2>2. task'[v].at = pc[v]
    BY <2>1 DEF TypeInv
  <2>3. pc[v] # "flush" => Len(segs[Cur].recs) = Cap
    <3>1. segs # <<>> /\ (pc[v] # "flush" => ~(Len(segs[Cur].recs) < Cap))
      BY <1>4, <2>1 DEF Opened
    <3>2. Len(segs[Cur].recs) \in 1..Cap
      BY <3>1 DEF TypeInv, Cur
    <3> QED BY <3>1, <3>2
  <2> QED BY <1>4, <2>1, <2>2, <2>3 DEF Opened, Filling, Cur
<1>5. ASSUME NEW w \in Writers, Filled(w) PROVE Filling(v)'
  BY <1>1, <1>5 DEF Filled
<1> QED BY <1>2, <1>3, <1>4, <1>5, StepEffect

LEMMA TypeInvStep == TypeInv /\ [Next]_vars => TypeInv'
<1> SUFFICES ASSUME TypeInv, [Next]_vars PROVE TypeInv'
  OBVIOUS
<1> QED BY ThreadsTyped, SegmentsTyped, FillingStep DEF TypeInv

(* The types hold in every reachable state; the mutex is held exactly while a
   file is being written, and every segment but the current one is full. *)
THEOREM WalTypes == Spec => []TypeOK
<1> QED BY TypeInvInit, TypeInvStep, TypeInvIsEnough, PTL DEF Spec

----
(* What a crash finds *)

(* The file of a segment that was written, or is being written, holds a
   beginning of it. *)
FileBegins ==
  \A s \in 1..Cur :
    segs[s].written \/ (mutex # None /\ s = Cur) =>
      s \in DOMAIN disk /\ Begins(disk[s], segs[s].recs)

(* A segment left behind is in its file, unless the write failed. *)
FileSealed ==
  \A s \in 1..(Cur - 1) :
    s \notin failed => s \in DOMAIN disk /\ disk[s] = segs[s].recs

LEMMA FileBeginsIsEnough == TypeInv /\ FileBegins => FilePrefix
<1> SUFFICES ASSUME TypeInv, FileBegins,
                    NEW s \in DOMAIN segs, segs[s].written \/ (mutex # None /\ s = Cur)
             PROVE  s \in DOMAIN disk /\ IsPrefix(disk[s], segs[s].recs)
  BY DEF FilePrefix
<1>1. s \in 1..Cur /\ segs[s] \in Segment
  BY DEF TypeInv, Cur
<1>2. s \in DOMAIN disk /\ Begins(disk[s], segs[s].recs)
  BY <1>1 DEF FileBegins
<1>3. segs[s].recs \in Seq(Record) /\ disk[s] \in Seq(Record)
  BY <1>1, <1>2 DEF TypeInv, Segment
<1> QED BY <1>2, <1>3, BeginsIsPrefix

LEMMA FileSealedIsEnough == TypeInv /\ FileSealed => SealedOnDisk
<1> SUFFICES ASSUME TypeInv, FileSealed, NEW s \in DOMAIN segs, s < Cur, s \notin failed
             PROVE  s \in DOMAIN disk /\ disk[s] = segs[s].recs
  BY DEF SealedOnDisk
<1>1. s \in 1..(Cur - 1)
  BY DEF TypeInv, Cur
<1> QED BY <1>1 DEF FileSealed

(* What holds of the segments a step leaves behind and of the current one. *)
LEMMA LoggedSegments ==
  ASSUME TypeInv, Logged
  PROVE  /\ Cur \in Nat \ {0} /\ Cur' = Cur
         /\ \A i \in 1..(Cur - 1) : segs'[i] = segs[i]
         /\ \E r : segs'[Cur].recs = Append(segs[Cur].recs, r)
         /\ segs'[Cur].written = segs[Cur].written
         /\ segs[Cur].recs \in Seq(Record)
<1>1. PICK r \in Record : segs' = Appended(segs, r)
  BY DEF Logged, Appended, Cur
<1>2. segs \in Seq(Segment) /\ segs # <<>>
  BY DEF Logged, TypeInv
<1>3. /\ Len(segs') = Len(segs)
      /\ \A i \in 1..(Len(segs) - 1) : segs'[i] = segs[i]
      /\ segs'[Len(segs)].recs = Append(segs[Len(segs)].recs, r)
      /\ segs'[Len(segs)].written = segs[Len(segs)].written
  BY <1>1, <1>2, AppendToLast
<1>4. Len(segs) \in Nat \ {0} /\ segs[Len(segs)] \in Segment
  BY <1>2
<1>5. segs[Len(segs)].recs \in Seq(Record)
  BY <1>4 DEF Segment
<1> QED BY <1>3, <1>4, <1>5 DEF Cur

LEMMA FirstSegment ==
  ASSUME TypeInv, FirstLogged
  PROVE  Cur' = 1 /\ ~segs'[1].written
<1>1. PICK r \in Record : segs' = NewSegment(segs, r)
  BY DEF FirstLogged
<1>2. segs \in Seq(Segment) /\ Len(segs) = 0
  BY DEF FirstLogged, TypeInv
<1>3. Len(segs') = Len(segs) + 1 /\ ~segs'[Len(segs) + 1].written
  BY <1>1, <1>2, BeginSegment
<1> QED BY <1>2, <1>3 DEF Cur

LEMMA FileBeginsStep == TypeInv /\ FileBegins /\ [Next]_vars => FileBegins'
<1> SUFFICES ASSUME TypeInv, FileBegins, [Next]_vars PROVE FileBegins'
  OBVIOUS
<1>1. CASE Quiet
  BY <1>1 DEF Quiet, FileBegins, Cur
<1>2. CASE FirstLogged
  BY <1>2, FirstSegment DEF FirstLogged, FileBegins
<1>3. CASE Logged
  <2>1. mutex' = None /\ disk' = disk
    BY <1>3 DEF Logged
  <2>2. SUFFICES ASSUME NEW s \in 1..Cur, segs'[s].written
                 PROVE  s \in DOMAIN disk /\ Begins(disk[s], segs'[s].recs)
    BY <1>3, <2>1, LoggedSegments DEF FileBegins
  <2>3. CASE s # Cur
    <3>1. segs'[s] = segs[s]
      BY <1>3, <2>3, LoggedSegments
    <3> QED BY <2>2, <3>1 DEF FileBegins
  <2>4. CASE s = Cur
    <3>1. s \in DOMAIN disk /\ Begins(disk[s], segs[s].recs)
      BY <1>3, <2>2, <2>4, LoggedSegments DEF FileBegins
    <3>2. disk[s] \in Seq(Record) /\ segs[s].recs \in Seq(Record)
      BY <1>3, <2>4, <3>1, LoggedSegments DEF TypeInv
    <3>3. PICK r : segs'[s].recs = Append(segs[s].recs, r)
      BY <1>3, <2>4, LoggedSegments
    <3>4. /\ Len(segs'[s].recs) = Len(segs[s].recs) + 1
          /\ \A i \in 1..Len(segs[s].recs) : segs'[s].recs[i] = segs[s].recs[i]
      BY <3>2, <3>3
    <3> QED BY <3>1, <3>2, <3>4 DEF Begins
  <2> QED BY <2>3, <2>4
<1>4. CASE Crash
  BY <1>4 DEF Crash, FileBegins, Cur
<1>5. ASSUME NEW w \in Writers, Opened(w) PROVE FileBegins'
  <2>1. segs' = segs /\ Cur' = Cur /\ mutex = None
    BY <1>5 DEF Opened, Cur
  <2>2. \A s \in 1..Cur : s # Cur /\ s \in DOMAIN disk => s \in DOMAIN disk' /\ disk'[s] = disk[s]
    BY <1>5 DEF Opened, OpenFile
  <2>3. Cur \in DOMAIN disk' /\ disk'[Cur] = <<>>
    BY <1>5 DEF Opened, OpenFile
  <2>4. Cur \in 1..Cur /\ segs[Cur] \in Segment
    BY <1>5 DEF Opened, TypeInv, Cur
  <2>5. Begins(<<>>, segs[Cur].recs)
    BY <2>4 DEF Begins, Segment
  <2> QED BY <2>1, <2>2, <2>3, <2>5 DEF FileBegins
<1>6. ASSUME NEW w \in Writers, Filled(w) PROVE FileBegins'
  <2>1. PICK ok \in BOOLEAN, k \in 0..Len(segs[Cur].recs) :
          /\ disk' = [disk EXCEPT ![Cur] = SubSeq(segs[Cur].recs, 1, k)]
          /\ \A i \in 1..Cur : segs'[i].recs = segs[i].recs
          /\ \A i \in 1..(Cur - 1) : segs'[i] = segs[i]
          /\ Cur' = Cur \/ (Cur' = Cur + 1 /\ ~segs'[Cur + 1].written)
    BY <1>6 DEF Filled
  <2>2. Cur \in 1..Cur /\ Cur \in DOMAIN disk /\ segs[Cur] \in Segment /\ mutex' = None
    BY <1>6 DEF Filled, TypeInv, Cur
  <2>3. Begins(SubSeq(segs[Cur].recs, 1, k), segs[Cur].recs)
    BY <2>2, PartBegins DEF Segment
  <2>4. SUFFICES ASSUME NEW s \in 1..Cur', segs'[s].written
                 PROVE  s \in DOMAIN disk' /\ Begins(disk'[s], segs'[s].recs)
    BY <2>2 DEF FileBegins
  <2>5. CASE s = Cur
    BY <2>1, <2>2, <2>3, <2>5
  <2>6. CASE s # Cur
    <3>1. s \in 1..(Cur - 1)
      BY <2>1, <2>2, <2>4, <2>6
    <3>2. s \in DOMAIN disk /\ Begins(disk[s], segs[s].recs)
      BY <2>1, <2>2, <2>4, <3>1 DEF FileBegins
    <3> QED BY <2>1, <2>2, <2>6, <3>1, <3>2
  <2> QED BY <2>5, <2>6
<1> QED BY <1>1, <1>2, <1>3, <1>4, <1>5, <1>6, StepEffect

LEMMA FileSealedStep == TypeInv /\ FileSealed /\ [Next]_vars => FileSealed'
<1> SUFFICES ASSUME TypeInv, FileSealed, [Next]_vars PROVE FileSealed'
  OBVIOUS
<1>1. CASE Quiet
  BY <1>1 DEF Quiet, FileSealed, Cur
<1>2. CASE FirstLogged
  BY <1>2, FirstSegment DEF FileSealed
<1>3. CASE Logged
  BY <1>3, LoggedSegments DEF Logged, FileSealed
<1>4. CASE Crash
  BY <1>4 DEF Crash, FileSealed, Cur
<1>5. ASSUME NEW w \in Writers, Opened(w) PROVE FileSealed'
  <2>1. segs' = segs /\ Cur' = Cur /\ failed' = failed /\ Cur \in Nat
    BY <1>5 DEF Opened, Cur, TypeInv
  <2>2. \A s \in 1..(Cur - 1) : s \in DOMAIN disk => s \in DOMAIN disk' /\ disk'[s] = disk[s]
    BY <1>5, <2>1 DEF Opened, OpenFile
  <2> QED BY <2>1, <2>2 DEF FileSealed
<1>6. ASSUME NEW w \in Writers, Filled(w) PROVE FileSealed'
  <2>1. PICK ok \in BOOLEAN, k \in 0..Len(segs[Cur].recs) :
          /\ k = Len(segs[Cur].recs) <=> ok
          /\ disk' = [disk EXCEPT ![Cur] = SubSeq(segs[Cur].recs, 1, k)]
          /\ failed' = IF ok THEN failed \ {Cur} ELSE failed \cup {Cur}
          /\ \A i \in 1..Cur : segs'[i].recs = segs[i].recs
          /\ Cur' \in {Cur, Cur + 1}
    BY <1>6 DEF Filled
  <2>2. Cur \in 1..Cur /\ Cur \in DOMAIN disk /\ segs[Cur] \in Segment
    BY <1>6 DEF Filled, TypeInv, Cur
  <2>3. ok => SubSeq(segs[Cur].recs, 1, k) = segs[Cur].recs
    BY <2>1, <2>2, PartBegins DEF Segment
  <2>4. SUFFICES ASSUME NEW s \in 1..(Cur' - 1), s \notin failed'
                 PROVE  s \in DOMAIN disk' /\ disk'[s] = segs'[s].recs
    BY DEF FileSealed
  <2>5. CASE s = Cur
    <3>1. ok
      BY <2>1, <2>4, <2>5
    <3> QED BY <2>1, <2>2, <2>3, <2>5, <3>1
  <2>6. CASE s # Cur
    <3>1. s \in 1..(Cur - 1) /\ s \notin failed
      BY <2>1, <2>2, <2>4, <2>6
    <3>2. s \in DOMAIN disk /\ disk[s] = segs[s].recs
      BY <3>1 DEF FileSealed
    <3> QED BY <2>1, <2>2, <2>6, <3>1, <3>2
  <2> QED BY <2>5, <2>6
<1> QED BY <1>1, <1>2, <1>3, <1>4, <1>5, <1>6, StepEffect

(* Whatever a crash finds in the file of a segment this run has written or
   was writing is a beginning of that segment. *)
THEOREM WalPrefix == Spec => []FilePrefix
<1>1. Init => FileBegins
  BY DEF Init, FileBegins, Cur
<1> QED BY <1>1, TypeInvInit, TypeInvStep, FileBeginsStep, FileBeginsIsEnough, PTL DEF Spec

(* A segment that has been left behind is in its file as a whole, unless the
   write failed: a crash takes nothing of it. *)
THEOREM WalSealed == Spec => []SealedOnDisk
<1>1. Init => FileSealed
  BY DEF Init, FileSealed, Cur
<1> QED BY <1>1, TypeInvInit, TypeInvStep, FileSealedStep, FileSealedIsEnough, PTL DEF Spec

----
(* What recovery reads *)

(* In a file of whole transactions the next header is found behind each one:
   at the next record, or past the data that follows it. *)
LEMMA WholeNext ==
  ASSUME NEW f \in Seq(Record), Whole(f), NEW j \in 1..Len(f), f[j].kind \in Headers,
         NEW k \in 1..(Len(f) + 1), j + EntrySize(f[j]) = k
  PROVE  k = Len(f) + 1 \/ f[k].kind \in Headers
<1> SUFFICES ASSUME k # Len(f) + 1 PROVE f[k].kind \in Headers
  OBVIOUS
<1>1. DOMAIN f = 1..Len(f) /\ Len(f) \in Nat /\ k \in 1..Len(f) /\ f[k] \in Record /\ f[j] \in Record
  OBVIOUS
<1>2. f[j].size \in 0..2 /\ (f[j].size = 0 <=> f[j].kind # "entry")
  BY <1>1 DEF Record
<1>3. f[k].kind \in Logging /\ f[k].kind # "raw"
  BY <1>1 DEF Record, Whole
<1>4. SUFFICES f[k].kind # "data"
  BY <1>3 DEF Logging, Headers
<1>5. SUFFICES ASSUME f[k].kind = "data" PROVE FALSE
  OBVIOUS
<1>6. k > 1 /\ f[k - 1].kind = "entry"
  BY <1>1, <1>5 DEF Whole
<1>7. CASE f[j].kind # "entry"
  BY <1>2, <1>6, <1>7 DEF EntrySize
<1>8. CASE f[j].kind = "entry"
  <2>1. f[j].size = 1 /\ f[j + 1].kind = "data"
    BY <1>1, <1>8 DEF Whole
  <2>2. k - 1 = j + 1
    BY <1>1, <2>1 DEF EntrySize
  <2> QED BY <1>6, <2>1, <2>2
<1> QED BY <1>7, <1>8

(* And each header, and the end of the file, is behind one. *)
LEMMA WholeBefore ==
  ASSUME NEW f \in Seq(Record), Whole(f), NEW k \in 1..(Len(f) + 1), k # 1,
         k = Len(f) + 1 \/ f[k].kind \in Headers
  PROVE  \E j \in 1..(k - 1) : f[j].kind \in Headers /\ j + EntrySize(f[j]) = k
<1>1. DOMAIN f = 1..Len(f) /\ Len(f) \in Nat /\ k - 1 \in 1..Len(f) /\ f[k - 1] \in Record
  OBVIOUS
<1>2. f[k - 1].kind \in Logging /\ f[k - 1].kind # "raw" /\ (f[k - 1].size = 0 <=> f[k - 1].kind # "entry")
  BY <1>1 DEF Record, Whole
<1>3. f[k - 1].kind # "entry"
  <2>1. SUFFICES ASSUME f[k - 1].kind = "entry" PROVE FALSE
    OBVIOUS
  <2>2. k - 1 < Len(f) /\ f[(k - 1) + 1].kind = "data"
    BY <1>1, <2>1 DEF Whole
  <2>3. (k - 1) + 1 = k /\ k # Len(f) + 1
    BY <1>1, <2>2
  <2> QED BY <2>2, <2>3 DEF Headers
<1>4. CASE f[k - 1].kind # "data"
  <2>1. f[k - 1].kind \in Headers /\ (k - 1) + EntrySize(f[k - 1]) = k
    BY <1>1, <1>2, <1>3, <1>4 DEF Headers, Logging, EntrySize
  <2> QED BY <1>1, <2>1
<1>5. CASE f[k - 1].kind = "data"
  <2>1. k - 1 > 1 /\ f[(k - 1) - 1].kind = "entry"
    BY <1>1, <1>5 DEF Whole
  <2>2. k - 2 \in 1..(k - 1) /\ k - 2 \in DOMAIN f /\ f[k - 2].kind = "entry"
    BY <1>1, <2>1
  <2>3. f[k - 2].size = 1
    BY <2>2 DEF Whole
  <2>4. (k - 2) + EntrySize(f[k - 2]) = k
    BY <1>1, <2>3 DEF EntrySize
  <2> QED BY <2>2, <2>4 DEF Headers
<1> QED BY <1>4, <1>5

(* Every nonempty set of naturals has a least element. *)
LEMMA NatMin ==
  ASSUME NEW T \in SUBSET Nat, T # {}
  PROVE  \E x \in T : \A y \in T : x <= y
<1> DEFINE Less == {p \in Nat \X Nat : p[1] < p[2]}
<1>1. IsWellFoundedOn(Less, Nat)
  BY NatLessThanWellFounded DEF OpToRel
<1> HIDE DEF Less
<1>2. PICK x \in T : \A y \in T : <<y, x>> \notin Less
  BY <1>1, WFMin
<1>3. \A y \in T : ~(y < x)
  BY <1>2 DEF Less
<1> QED BY <1>3

(* The places the parser reads solve the equation of Reads. *)
Solves(at, f) ==
  at = [k \in 1..(Len(f) + 1) |->
          k = 1 \/ \E j \in 1..(k - 1) : at[j] /\ f[j].kind \in Headers /\ j + EntrySize(f[j]) = k]

(* The headers and the end of a file of whole transactions solve it, *)
LEMMA HeadersSolve ==
  ASSUME NEW f \in Seq(Record), Whole(f)
  PROVE  Solves([k \in 1..(Len(f) + 1) |-> k = Len(f) + 1 \/ f[k].kind \in Headers], f)
<1> DEFINE at == [k \in 1..(Len(f) + 1) |-> k = Len(f) + 1 \/ f[k].kind \in Headers]
           To(k) == k = 1 \/ \E j \in 1..(k - 1) : at[j] /\ f[j].kind \in Headers /\ j + EntrySize(f[j]) = k
<1>1. ASSUME NEW k \in 1..(Len(f) + 1) PROVE at[k] = To(k)
  <2>1. Len(f) \in Nat /\ DOMAIN f = 1..Len(f)
    OBVIOUS
  <2>2. CASE k = 1
    <3>1. at[k]
      <4>1. SUFFICES ASSUME k # Len(f) + 1 PROVE f[1].kind \in Headers
        BY <2>2
      <4>2. 1 \in DOMAIN f /\ f[1] \in Record
        BY <2>1, <2>2, <4>1
      <4>3. f[1].kind \in Logging /\ f[1].kind # "raw" /\ f[1].kind # "data"
        BY <4>2 DEF Record, Whole
      <4> QED BY <4>3 DEF Logging, Headers
    <3> QED BY <2>2, <3>1
  <2>3. CASE k # 1
    <3>1. at[k] => To(k)
      <4>1. SUFFICES ASSUME at[k] PROVE To(k)
        OBVIOUS
      <4>2. PICK j \in 1..(k - 1) : f[j].kind \in Headers /\ j + EntrySize(f[j]) = k
        BY <2>3, <4>1, WholeBefore
      <4>3. j \in 1..(Len(f) + 1)
        BY <2>1
      <4>4. at[j]
        BY <4>2, <4>3
      <4> HIDE DEF at
      <4> QED BY <4>2, <4>4
    <3>2. To(k) => at[k]
      <4>1. SUFFICES ASSUME To(k) PROVE at[k]
        OBVIOUS
      <4>2. PICK j \in 1..(k - 1) : f[j].kind \in Headers /\ j + EntrySize(f[j]) = k
        BY <2>3, <4>1
      <4>3. j \in 1..Len(f)
        BY <2>1
      <4>4. k = Len(f) + 1 \/ f[k].kind \in Headers
        BY <4>2, <4>3, WholeNext
      <4> QED BY <4>4
    <3>3. at[k] \in BOOLEAN
      OBVIOUS
    <3> HIDE DEF at
    <3> QED BY <3>1, <3>2, <3>3
  <2> QED BY <2>2, <2>3
<1>2. at = [k \in 1..(Len(f) + 1) |-> To(k)]
  <2> HIDE DEF To
  <2> QED BY <1>1
<1> HIDE DEF at
<1>3. Solves(at, f)
  BY <1>2 DEF Solves
<1> QED BY <1>3 DEF at

(* and there is no other solution: two differ first at some place, but what
   a solution is there depends on the places before it. *)
LEMMA SolvedOnce ==
  ASSUME NEW f \in Seq(Record), NEW a, NEW b, Solves(a, f), Solves(b, f)
  PROVE  a = b
<1> DEFINE To(at, k) == k = 1 \/ \E j \in 1..(k - 1) : at[j] /\ f[j].kind \in Headers /\ j + EntrySize(f[j]) = k
           Bad == {k \in Nat : k \in 1..(Len(f) + 1) /\ a[k] # b[k]}
<1>1. /\ a = [k \in 1..(Len(f) + 1) |-> To(a, k)]
      /\ b = [k \in 1..(Len(f) + 1) |-> To(b, k)]
  BY DEF Solves
<1>2. Bad = {}
  <2> SUFFICES ASSUME Bad # {} PROVE FALSE
    OBVIOUS
  <2>1. PICK k \in Bad : \A j \in Bad : k <= j
    <3>1. Bad \in SUBSET Nat
      OBVIOUS
    <3> HIDE DEF Bad
    <3> QED BY <3>1, NatMin
  <2>2. k \in Nat /\ k \in 1..(Len(f) + 1) /\ a[k] # b[k]
    OBVIOUS
  <2>3. \A j \in 1..(k - 1) : a[j] = b[j]
    <3>1. SUFFICES ASSUME NEW j \in 1..(k - 1), a[j] # b[j] PROVE FALSE
      OBVIOUS
    <3>2. j \in Bad
      BY <2>2, <3>1
    <3> HIDE DEF Bad
    <3> QED BY <2>1, <2>2, <3>2
  <2>4. a[k] = To(a, k) /\ b[k] = To(b, k)
    <3> HIDE DEF To
    <3> QED BY <1>1, <2>2
  <2>5. To(a, k) = To(b, k)
    BY <2>3
  <2> QED BY <2>2, <2>4, <2>5
<1>3. \A k \in 1..(Len(f) + 1) : a[k] = b[k]
  <2>1. Len(f) \in Nat
    OBVIOUS
  <2> QED BY <1>2, <2>1
<1> HIDE DEF To
<1> QED BY <1>1, <1>3

LEMMA WholeFileRead ==
  ASSUME NEW f \in Seq(Record), Whole(f)
  PROVE  Reads(f) = {k \in DOMAIN f : f[k].kind \in Headers} \cup {Len(f) + 1}
<1> DEFINE h == [k \in 1..(Len(f) + 1) |-> k = Len(f) + 1 \/ f[k].kind \in Headers]
           at == CHOOSE g : Solves(g, f)
<1>1. Solves(h, f)
  BY HeadersSolve
<1> HIDE DEF h
<1>2. Solves(at, f)
  BY <1>1
<1>3. at = h
  <2> HIDE DEF at
  <2> QED BY <1>1, <1>2, SolvedOnce
<1>4. Reads(f) = {k \in 1..(Len(f) + 1) : at[k]}
  BY DEF Reads, Solves
<1> HIDE DEF at
<1>5. Reads(f) = {k \in 1..(Len(f) + 1) : h[k]}
  BY <1>3, <1>4
<1>6. Len(f) \in Nat /\ DOMAIN f = 1..Len(f)
  OBVIOUS
<1>7. \A k \in 1..(Len(f) + 1) : h[k] <=> k = Len(f) + 1 \/ f[k].kind \in Headers
  BY DEF h
<1>8. \A k : k \in 1..(Len(f) + 1) <=> k \in 1..Len(f) \/ k = Len(f) + 1
  BY <1>6
<1> HIDE DEF h
<1>9. \A k : k \in Reads(f) <=> (k \in 1..Len(f) /\ f[k].kind \in Headers) \/ k = Len(f) + 1
  BY <1>5, <1>7, <1>8
<1> QED BY <1>6, <1>9

LEMMA TypesRead == TypeInv => RecoveryReads
  BY WholeFileRead DEF TypeInv, RecoveryReads

(* Recovery reads a file of whole transactions to its end: every header in
   it, and nothing else, whatever the number and the length of the
   transactions. *)
THEOREM WalRecovers == Spec => []RecoveryReads
<1> QED BY TypeInvInit, TypeInvStep, TypesRead, PTL DEF Spec

====
