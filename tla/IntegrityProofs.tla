---- MODULE IntegrityProofs ----
(***************************************************************************)
(* Proofs about Integrity, for every number of callers, scan threads and   *)
(* blocks and every bound: the types; that lost increments never make the  *)
(* counter claim too much; that a stop joins every thread; and that a scan *)
(* verifies every block once.                                              *)
(***************************************************************************)
EXTENDS Integrity, FiniteSetTheorems, TLAPS

----
(* Types *)

AlertState == [listed : Nat, lost : Nat]

Types ==
  /\ total \in Totals
  /\ running \in BOOLEAN
  /\ slot \in [Slots -> Handles \cup {None}]
  /\ scan \in [Handles -> ScanState]
  /\ found \in Nat /\ alerts \in AlertState
  /\ call \in [Callers -> CallState]
  /\ up \in BOOLEAN /\ gaps \in BOOLEAN /\ broken \in BOOLEAN
  /\ starts \in 0..MaxStarts /\ reports \in 0..MaxReports /\ races \in Nat
  /\ seen \subseteq Blocks

(* Who counts a block has read the counter before the block was reported; a
   call that joins has a thread to wait for. *)
Counting ==
  /\ found <= reports
  /\ \A h \in Handles : scan[h].pc = "count" => scan[h].reg < reports
  /\ \A c \in Callers : call[c].pc = "count" => call[c].reg < reports
  /\ \A c \in Callers : call[c].pc = "wait" => call[c].thread \in Handles

TypeInv == Types /\ Counting

(* The blocks for which md_add_alert was called. *)
Said == alerts.listed + alerts.lost

LEMMA SaidMore ==
  ASSUME alerts \in AlertState, up \in BOOLEAN, AddAlert
  PROVE  alerts' \in AlertState /\ Said' = Said + 1 /\ broken' \in BOOLEAN
<1>1. CASE alerts' = [alerts EXCEPT !.listed = @ + 1]
  <2>1. /\ alerts' \in AlertState
        /\ alerts'.listed = alerts.listed + 1 /\ alerts'.lost = alerts.lost
    BY <1>1 DEF AlertState
  <2>2. broken' \in BOOLEAN BY DEF AddAlert
  <2> QED BY <2>1, <2>2 DEF Said, AlertState
<1>2. CASE alerts' = [alerts EXCEPT !.lost = @ + 1]
  <2>1. /\ alerts' \in AlertState
        /\ alerts'.lost = alerts.lost + 1 /\ alerts'.listed = alerts.listed
    BY <1>2 DEF AlertState
  <2>2. broken' \in BOOLEAN BY DEF AddAlert
  <2> QED BY <2>1, <2>2 DEF Said, AlertState
<1> QED BY <1>1, <1>2 DEF AddAlert

LEMMA Small ==
  /\ MaxReports \in Nat /\ MaxStarts \in Nat /\ MaxRaces \in Nat /\ Width \in Nat
  /\ N \in Nat /\ N > 0
  /\ Totals \subseteq 0..(Width - 1)
  /\ 0 \in Slots /\ N - 1 \in Slots
  /\ None \notin Handles
BY IntegrityAssumption DEF Slots

LEMMA NoneTyped ==
  ASSUME Totals # {}
  PROVE  /\ NoCall \in CallState
         /\ NoScan \in ScanState
         /\ [NoScan EXCEPT !.pc = "ended"] \in ScanState
         /\ 0 \in BlockIds
BY Small DEF NoCall, NoScan, CallState, ScanState, BlockIds

LEMMA Numbers ==
  /\ \A k \in CallState : k.reg \in Nat /\ k.at \in Nat /\ k.at \in Slots
  /\ \A k \in ScanState : k.reg \in Nat /\ k.at \in Nat /\ k.last \in Nat
<1>1. 0..MaxReports \subseteq Nat /\ Slots \subseteq Nat /\ BlockIds \subseteq Nat
  BY Small DEF Slots, BlockIds
<1> QED BY <1>1 DEF CallState, ScanState

(* A share of the blocks is a range of block ids, wrapped or not. *)
LEMMA ShareTyped ==
  ASSUME TypeInv, NEW i \in Slots
  PROVE  Share \in Nat /\ First(i) \in BlockIds /\ Last(i) \in BlockIds
<1>1. total \in Nat /\ Width \in Nat /\ Width > 0
  BY Small DEF TypeInv, Types
<1>2. Share \in Nat /\ total % N \in Nat
  BY <1>1, Small DEF Share
<1>3. \A x \in Int : x % Width \in BlockIds
  BY <1>1 DEF BlockIds
<1>4. i \in Nat /\ \A x, y \in Int : x * y \in Int
  BY Small DEF Slots
<1>5. First(i) \in BlockIds
  BY <1>2, <1>3, <1>4 DEF First
<1>6. (i + 1) * Share - 1 \in Int
  BY <1>2, <1>4
<1>7. Last(i) \in BlockIds
  BY <1>2, <1>3, <1>6 DEF Last
<1> QED BY <1>2, <1>5, <1>7

LEMMA TypeInvIsEnough ==
  ASSUME TypeInv, races = 0 => \A i, j \in Slots : slot[i] = slot[j] => i = j \/ slot[i] = None
  PROVE  TypeOK
<1>1. found \in 0..MaxReports
  BY Small DEF TypeInv, Types, Counting
<1> QED BY <1>1 DEF TypeInv, Types, TypeOK, AlertState

LEMMA TypeInvInit == Init => TypeInv
<1> SUFFICES ASSUME Init PROVE TypeInv
  OBVIOUS
<1>1. Totals # {}
  BY DEF Init
<1>2. 0 \in 0..MaxStarts /\ 0 \in 0..MaxReports /\ total \in Totals
  BY Small DEF Init
<1>3. /\ slot \in [Slots -> Handles \cup {None}]
      /\ scan \in [Handles -> ScanState]
      /\ call \in [Callers -> CallState]
  BY <1>1, NoneTyped DEF Init
<1>4. Types
  BY <1>2, <1>3 DEF Init, Types, AlertState
<1> QED BY <1>4 DEF TypeInv, Counting, Init, NoCall, NoScan

(* The types of the updates the steps make. *)
LEMMA CallTyped ==
  ASSUME TypeInv
  PROVE  /\ NoCall \in CallState
         /\ \A pc \in {"idle", "set", "clear"} : [NoCall EXCEPT !.pc = pc] \in CallState
         /\ \A k \in CallState, pc \in {"give up", "create", "join", "alert"} :
              [k EXCEPT !.pc = pc] \in CallState
         /\ \A k \in CallState, h \in Handles : [k EXCEPT !.pc = "wait", !.thread = h] \in CallState
         /\ \A n \in 0..MaxReports : [NoCall EXCEPT !.pc = "count", !.reg = n] \in CallState
         /\ [NoCall EXCEPT !.pc = "alert"] \in CallState
         /\ \A i \in Slots, pc \in {"create", "join"} : [NoCall EXCEPT !.pc = pc, !.at = i] \in CallState
<1>1. NoCall \in CallState
  BY NoneTyped DEF TypeInv, Types
<1>2. \A k \in CallState, pc \in {"idle", "set", "clear", "give up", "create", "join", "alert"} :
        [k EXCEPT !.pc = pc] \in CallState
  BY DEF CallState
<1>3. \A k \in CallState, h \in Handles : [k EXCEPT !.pc = "wait", !.thread = h] \in CallState
  BY DEF CallState
<1>4. \A k \in CallState, n \in 0..MaxReports : [k EXCEPT !.pc = "count", !.reg = n] \in CallState
  BY DEF CallState
<1>5. \A k \in CallState, i \in Slots, pc \in {"create", "join"} : [k EXCEPT !.pc = pc, !.at = i] \in CallState
  BY DEF CallState
<1> QED BY <1>1, <1>2, <1>3, <1>4, <1>5

(* The call of c becomes k, the thread h becomes k. *)
CallBecomes(c, k) ==
  /\ k \in CallState
  /\ call' \in [Callers -> CallState]
  /\ \A d \in Callers \ {c} : call'[d] = call[d]
  /\ call'[c] = k

ScanBecomes(h, k) ==
  /\ k \in ScanState
  /\ scan' \in [Handles -> ScanState]
  /\ \A g \in Handles \ {h} : scan'[g] = scan[g]
  /\ scan'[h] = k

LEMMA CallUpdated ==
  ASSUME TypeInv, NEW c \in Callers, NEW k \in CallState, call' = [call EXCEPT ![c] = k]
  PROVE  CallBecomes(c, k)
BY DEF TypeInv, Types, CallBecomes

LEMMA ScanUpdated ==
  ASSUME TypeInv, NEW h \in Handles, NEW k \in ScanState, scan' = [scan EXCEPT ![h] = k]
  PROVE  ScanBecomes(h, k)
BY DEF TypeInv, Types, ScanBecomes

(* The call after it has dealt with a slot. *)
AfterSlot(c, pc) ==
  IF call[c].at = N - 1 THEN NoCall ELSE [NoCall EXCEPT !.pc = pc, !.at = call[c].at + 1]

LEMMA NextSlotUpdates ==
  ASSUME TypeInv, NEW c \in Callers, NEW pc \in {"create", "join"}, NextSlot(c, pc)
  PROVE  CallBecomes(c, AfterSlot(c, pc))
<1>1. call[c].at \in Slots
  BY DEF TypeInv, Types, CallState
<1>2. call[c].at # N - 1 => call[c].at + 1 \in Slots
  BY <1>1, Small DEF Slots
<1>3. AfterSlot(c, pc) \in CallState
  BY <1>2, CallTyped DEF AfterSlot
<1>4. call' = [call EXCEPT ![c] = AfterSlot(c, pc)]
  BY DEF NextSlot, AfterSlot
<1> QED BY <1>3, <1>4, CallUpdated

(* What every step makes of the call that takes it. *)
LEMMA CallUpdates ==
  ASSUME TypeInv, NEW c \in Callers
  PROVE  /\ Start(c) => CallBecomes(c, [NoCall EXCEPT !.pc = "set"])
         /\ SetFlag(c) => CallBecomes(c, [call[c] EXCEPT !.pc = IF total = 0 THEN "give up" ELSE "create"])
         /\ GiveUp(c) => CallBecomes(c, NoCall)
         /\ CreateThread(c) => CallBecomes(c, AfterSlot(c, "create"))
         /\ Stop(c) => CallBecomes(c, [NoCall EXCEPT !.pc = "clear"])
         /\ Destroy(c) => CallBecomes(c, [NoCall EXCEPT !.pc = IF running THEN "clear" ELSE "idle"])
         /\ ClearFlag(c) => CallBecomes(c, [call[c] EXCEPT !.pc = "join"])
         /\ Join(c) => \/ slot[call[c].at] = None /\ CallBecomes(c, AfterSlot(c, "join"))
                       \/ /\ slot[call[c].at] \in Handles
                          /\ CallBecomes(c, [call[c] EXCEPT !.pc = "wait", !.thread = slot[call[c].at]])
         /\ Joined(c) => CallBecomes(c, AfterSlot(c, "join"))
         /\ Verify(c) => CallBecomes(c, [NoCall EXCEPT !.pc = "count", !.reg = found])
         /\ VerifyCount(c) => CallBecomes(c, [NoCall EXCEPT !.pc = "alert"])
         /\ VerifyAlert(c) => CallBecomes(c, NoCall)
<1>1. call[c] \in CallState /\ found \in 0..MaxReports
  BY Small DEF TypeInv, Types, Counting
<1>2. Start(c) => CallBecomes(c, [NoCall EXCEPT !.pc = "set"])
  BY CallTyped, CallUpdated DEF Start, Enter
<1>3. SetFlag(c) => CallBecomes(c, [call[c] EXCEPT !.pc = IF total = 0 THEN "give up" ELSE "create"])
  <2> DEFINE k == [call[c] EXCEPT !.pc = IF total = 0 THEN "give up" ELSE "create"]
  <2>1. k \in CallState
    BY <1>1, CallTyped
  <2>2. SetFlag(c) => call' = [call EXCEPT ![c] = k]
    BY DEF SetFlag
  <2> QED BY <2>1, <2>2, CallUpdated
<1>4. GiveUp(c) => CallBecomes(c, NoCall)
  BY CallTyped, CallUpdated DEF GiveUp
<1>5. CreateThread(c) => CallBecomes(c, AfterSlot(c, "create"))
  BY NextSlotUpdates DEF CreateThread
<1>6. Stop(c) => CallBecomes(c, [NoCall EXCEPT !.pc = "clear"])
  BY CallTyped, CallUpdated DEF Stop, Enter
<1>7. Destroy(c) => CallBecomes(c, [NoCall EXCEPT !.pc = IF running THEN "clear" ELSE "idle"])
  BY CallTyped, CallUpdated DEF Destroy, Enter
<1>8. ClearFlag(c) => CallBecomes(c, [call[c] EXCEPT !.pc = "join"])
  <2>1. [call[c] EXCEPT !.pc = "join"] \in CallState
    BY <1>1, CallTyped
  <2>2. ClearFlag(c) => call' = [call EXCEPT ![c] = [call[c] EXCEPT !.pc = "join"]]
    BY DEF ClearFlag
  <2> QED BY <2>1, <2>2, CallUpdated
<1>9. Join(c) => \/ slot[call[c].at] = None /\ CallBecomes(c, AfterSlot(c, "join"))
                 \/ /\ slot[call[c].at] \in Handles
                    /\ CallBecomes(c, [call[c] EXCEPT !.pc = "wait", !.thread = slot[call[c].at]])
  <2>1. CASE slot[call[c].at] = None
    BY <2>1, NextSlotUpdates DEF Join
  <2>2. CASE slot[call[c].at] # None
    <3> DEFINE k == [call[c] EXCEPT !.pc = "wait", !.thread = slot[call[c].at]]
    <3>1. slot[call[c].at] \in Handles
      BY <1>1, <2>2 DEF TypeInv, Types, CallState
    <3>2. k \in CallState
      BY <1>1, <3>1, CallTyped
    <3>3. Join(c) => call' = [call EXCEPT ![c] = k]
      BY <2>2 DEF Join
    <3> QED BY <3>1, <3>2, <3>3, CallUpdated
  <2> QED BY <2>1, <2>2
<1>10. Joined(c) => CallBecomes(c, AfterSlot(c, "join"))
  BY NextSlotUpdates DEF Joined
<1>11. Verify(c) => CallBecomes(c, [NoCall EXCEPT !.pc = "count", !.reg = found])
  BY <1>1, CallTyped, CallUpdated DEF Verify
<1>12. VerifyCount(c) => CallBecomes(c, [NoCall EXCEPT !.pc = "alert"])
  BY CallTyped, CallUpdated DEF VerifyCount
<1>13. VerifyAlert(c) => CallBecomes(c, NoCall)
  BY CallTyped, CallUpdated DEF VerifyAlert
<1> QED BY <1>2, <1>3, <1>4, <1>5, <1>6, <1>7, <1>8, <1>9, <1>10, <1>11, <1>12, <1>13

(* Where that leaves every call. *)
Frame(c) ==
  /\ call' \in [Callers -> CallState]
  /\ \A d \in Callers \ {c} : call'[d] = call[d]

LEMMA CallPlaces ==
  ASSUME TypeInv, NEW c \in Callers
  PROVE  /\ Start(c) => Frame(c) /\ call'[c].pc = "set" /\ call'[c].at = 0
         /\ SetFlag(c) => Frame(c) /\ call'[c].at = call[c].at
                          /\ call'[c].pc = IF total = 0 THEN "give up" ELSE "create"
         /\ GiveUp(c) => Frame(c) /\ call'[c].pc = "idle"
         /\ CreateThread(c) => /\ Frame(c)
                               /\ IF call[c].at = N - 1 THEN call'[c].pc = "idle"
                                  ELSE call'[c].pc = "create" /\ call'[c].at = call[c].at + 1
         /\ Stop(c) => Frame(c) /\ call'[c].pc = "clear" /\ call'[c].at = 0
         /\ Destroy(c) => Frame(c) /\ call'[c].at = 0 /\ call'[c].pc = IF running THEN "clear" ELSE "idle"
         /\ ClearFlag(c) => Frame(c) /\ call'[c].pc = "join" /\ call'[c].at = call[c].at
         /\ Join(c) => Frame(c) /\
              \/ /\ slot[call[c].at] = None
                 /\ IF call[c].at = N - 1 THEN call'[c].pc = "idle"
                    ELSE call'[c].pc = "join" /\ call'[c].at = call[c].at + 1
              \/ /\ slot[call[c].at] \in Handles
                 /\ call'[c].pc = "wait" /\ call'[c].at = call[c].at
                 /\ call'[c].thread = slot[call[c].at]
         /\ Joined(c) => /\ Frame(c)
                         /\ IF call[c].at = N - 1 THEN call'[c].pc = "idle"
                            ELSE call'[c].pc = "join" /\ call'[c].at = call[c].at + 1
         /\ Verify(c) => Frame(c) /\ call'[c].pc = "count" /\ call'[c].reg = found
         /\ VerifyCount(c) => Frame(c) /\ call'[c].pc = "alert"
         /\ VerifyAlert(c) => Frame(c) /\ call'[c].pc = "idle"
<1>1. call[c] \in CallState
  BY DEF TypeInv, Types
<1>2. /\ NoCall.pc = "idle"
      /\ \A p : [NoCall EXCEPT !.pc = p].pc = p
      /\ \A p, n : [NoCall EXCEPT !.pc = p, !.at = n].pc = p /\ [NoCall EXCEPT !.pc = p, !.at = n].at = n
  BY DEF NoCall
<1>3. \A pc : IF call[c].at = N - 1 THEN AfterSlot(c, pc).pc = "idle"
             ELSE AfterSlot(c, pc).pc = pc /\ AfterSlot(c, pc).at = call[c].at + 1
  BY <1>2 DEF AfterSlot
<1>4. \A k : CallBecomes(c, k) => Frame(c) /\ call'[c] = k
  BY DEF CallBecomes, Frame
<1>5. Start(c) => Frame(c) /\ call'[c].pc = "set" /\ call'[c].at = 0
  <2>1. Start(c) => CallBecomes(c, [NoCall EXCEPT !.pc = "set"])
    BY CallUpdates
  <2> QED BY <2>1 DEF CallBecomes, Frame, NoCall
<1>6. SetFlag(c) => Frame(c) /\ call'[c].at = call[c].at
                   /\ call'[c].pc = IF total = 0 THEN "give up" ELSE "create"
  <2>1. SetFlag(c) => CallBecomes(c, [call[c] EXCEPT !.pc = IF total = 0 THEN "give up" ELSE "create"])
    BY CallUpdates
  <2> QED BY <2>1, <1>1 DEF CallBecomes, Frame, CallState
<1>7. GiveUp(c) => Frame(c) /\ call'[c].pc = "idle"
  BY <1>2, <1>4, CallUpdates
<1>8. CreateThread(c) => /\ Frame(c)
                        /\ IF call[c].at = N - 1 THEN call'[c].pc = "idle"
                           ELSE call'[c].pc = "create" /\ call'[c].at = call[c].at + 1
  BY <1>3, <1>4, CallUpdates
<1>9. Stop(c) => Frame(c) /\ call'[c].pc = "clear" /\ call'[c].at = 0
  <2>1. Stop(c) => CallBecomes(c, [NoCall EXCEPT !.pc = "clear"])
    BY CallUpdates
  <2> QED BY <2>1 DEF CallBecomes, Frame, NoCall
<1>10. Destroy(c) => Frame(c) /\ call'[c].at = 0 /\ call'[c].pc = IF running THEN "clear" ELSE "idle"
  <2>1. Destroy(c) => CallBecomes(c, [NoCall EXCEPT !.pc = IF running THEN "clear" ELSE "idle"])
    BY CallUpdates
  <2> QED BY <2>1 DEF CallBecomes, Frame, NoCall
<1>11. ClearFlag(c) => Frame(c) /\ call'[c].pc = "join" /\ call'[c].at = call[c].at
  <2>1. ClearFlag(c) => CallBecomes(c, [call[c] EXCEPT !.pc = "join"])
    BY CallUpdates
  <2> QED BY <2>1, <1>1 DEF CallBecomes, Frame, CallState
<1>12. Join(c) => Frame(c) /\
         \/ /\ slot[call[c].at] = None
            /\ IF call[c].at = N - 1 THEN call'[c].pc = "idle"
               ELSE call'[c].pc = "join" /\ call'[c].at = call[c].at + 1
         \/ /\ slot[call[c].at] \in Handles
            /\ call'[c].pc = "wait" /\ call'[c].at = call[c].at
            /\ call'[c].thread = slot[call[c].at]
  <2>1. CASE slot[call[c].at] = None /\ CallBecomes(c, AfterSlot(c, "join"))
    BY <1>3, <1>4, <2>1
  <2>2. CASE /\ slot[call[c].at] \in Handles
             /\ CallBecomes(c, [call[c] EXCEPT !.pc = "wait", !.thread = slot[call[c].at]])
    <3>1. Frame(c) /\ call'[c].pc = "wait" /\ call'[c].at = call[c].at /\ call'[c].thread = slot[call[c].at]
      BY <1>1, <2>2 DEF CallBecomes, Frame, CallState
    <3> QED BY <2>2, <3>1
  <2> QED BY <2>1, <2>2, CallUpdates
<1>13. Joined(c) => /\ Frame(c)
                   /\ IF call[c].at = N - 1 THEN call'[c].pc = "idle"
                      ELSE call'[c].pc = "join" /\ call'[c].at = call[c].at + 1
  BY <1>3, <1>4, CallUpdates
<1>14. Verify(c) => Frame(c) /\ call'[c].pc = "count" /\ call'[c].reg = found
  <2>1. Verify(c) => CallBecomes(c, [NoCall EXCEPT !.pc = "count", !.reg = found])
    BY CallUpdates
  <2> QED BY <2>1 DEF CallBecomes, Frame, NoCall
<1>15. VerifyCount(c) => Frame(c) /\ call'[c].pc = "alert"
  BY <1>2, <1>4, CallUpdates
<1>16. VerifyAlert(c) => Frame(c) /\ call'[c].pc = "idle"
  BY <1>2, <1>4, CallUpdates
<1> QED BY <1>5, <1>6, <1>7, <1>8, <1>9, <1>10, <1>11, <1>12, <1>13, <1>14, <1>15, <1>16

(* What a scan thread becomes when it goes on to the next block. *)
NextBlock(h) == [scan[h] EXCEPT !.pc = "scan", !.at = (@ + 1) % Width]

LEMMA AdvanceUpdates ==
  ASSUME TypeInv, NEW h \in Handles, Advance(h)
  PROVE  ScanBecomes(h, NextBlock(h))
<1>1. scan[h] \in ScanState /\ Width \in Nat /\ Width > 0
  BY Small DEF TypeInv, Types
<1>2. (scan[h].at + 1) % Width \in BlockIds
  BY <1>1 DEF ScanState, BlockIds
<1>3. \A k \in ScanState, n \in BlockIds : [k EXCEPT !.pc = "scan", !.at = n] \in ScanState
  BY DEF ScanState
<1>4. NextBlock(h) \in ScanState
  BY <1>1, <1>2, <1>3 DEF NextBlock
<1>5. scan' = [scan EXCEPT ![h] = NextBlock(h)]
  BY DEF Advance, NextBlock
<1> QED BY <1>4, <1>5, ScanUpdated

EndOf(h) == [NoScan EXCEPT !.pc = "ended"]
NewScan(i) == [pc |-> "scan", at |-> First(i), last |-> Last(i), reg |-> 0]

(* What every step makes of the threads. *)
LEMMA ScanUpdates ==
  ASSUME TypeInv
  PROVE  /\ \A c \in Callers : Joined(c) => ScanBecomes(call[c].thread, NoScan)
         /\ \A c \in Callers : CreateThread(c) =>
              \E h \in Handles : /\ scan[h].pc = "idle"
                                 /\ slot' = [slot EXCEPT ![call[c].at] = h]
                                 /\ ScanBecomes(h, NewScan(call[c].at))
         /\ \A h \in Handles : ScanBlock(h) =>
              /\ scan[h].pc = "scan"
              /\ \/ /\ scan[h].at > scan[h].last \/ ~running
                    /\ ScanBecomes(h, EndOf(h))
                    /\ UNCHANGED <<seen, reports>>
                 \/ /\ scan[h].at <= scan[h].last /\ running
                    /\ ScanBecomes(h, NextBlock(h))
                    /\ seen' = seen \cup ({scan[h].at} \cap Blocks)
                    /\ UNCHANGED reports
                 \/ /\ scan[h].at <= scan[h].last /\ running
                    /\ ScanBecomes(h, [scan[h] EXCEPT !.pc = "count", !.reg = found])
                    /\ reports < MaxReports /\ reports' = reports + 1
                    /\ UNCHANGED seen
         /\ \A h \in Handles : CountBlock(h) =>
              ScanBecomes(h, [scan[h] EXCEPT !.pc = "alert", !.reg = 0])
         /\ \A h \in Handles : AlertBlock(h) => ScanBecomes(h, NextBlock(h))
<1>1. Totals # {}
  BY DEF TypeInv, Types
<1>2. found \in 0..MaxReports /\ \A h \in Handles : scan[h] \in ScanState
  BY Small DEF TypeInv, Types, Counting
<1>3. \A c \in Callers : Joined(c) => ScanBecomes(call[c].thread, NoScan)
  BY <1>1, NoneTyped, ScanUpdated DEF Joined, TypeInv, Counting
<1>4. ASSUME NEW c \in Callers, CreateThread(c)
      PROVE  \E h \in Handles : /\ scan[h].pc = "idle"
                                /\ slot' = [slot EXCEPT ![call[c].at] = h]
                                /\ ScanBecomes(h, NewScan(call[c].at))
  <2>1. call[c].at \in Slots
    BY DEF TypeInv, Types, CallState
  <2>2. NewScan(call[c].at) \in ScanState
    BY <2>1, ShareTyped, Small DEF NewScan, ScanState
  <2>3. \A h \in NewIds : h \in Spare
    BY DEF NewIds
  <2>4. PICK h \in NewIds : /\ slot' = [slot EXCEPT ![call[c].at] = h]
                            /\ scan' = [scan EXCEPT ![h] = NewScan(call[c].at)]
    BY <1>4 DEF CreateThread, NewScan
  <2>5. h \in Handles /\ scan[h].pc = "idle"
    BY <2>3 DEF Spare
  <2> QED BY <2>2, <2>4, <2>5, ScanUpdated
<1>5. ASSUME NEW h \in Handles, ScanBlock(h)
      PROVE  /\ scan[h].pc = "scan"
             /\ \/ /\ scan[h].at > scan[h].last \/ ~running
                   /\ ScanBecomes(h, EndOf(h))
                   /\ UNCHANGED <<seen, reports>>
                \/ /\ scan[h].at <= scan[h].last /\ running
                   /\ ScanBecomes(h, NextBlock(h))
                   /\ seen' = seen \cup ({scan[h].at} \cap Blocks)
                   /\ UNCHANGED reports
                \/ /\ scan[h].at <= scan[h].last /\ running
                   /\ ScanBecomes(h, [scan[h] EXCEPT !.pc = "count", !.reg = found])
                   /\ reports < MaxReports /\ reports' = reports + 1
                   /\ UNCHANGED seen
  <2>1. EndOf(h) \in ScanState
    BY <1>1, NoneTyped DEF EndOf
  <2>2. [scan[h] EXCEPT !.pc = "count", !.reg = found] \in ScanState
    BY <1>2 DEF ScanState
  <2>3. scan' = [scan EXCEPT ![h] = EndOf(h)] => ScanBecomes(h, EndOf(h))
    BY <2>1, ScanUpdated
  <2>4. scan' = [scan EXCEPT ![h] = [scan[h] EXCEPT !.pc = "count", !.reg = found]]
          => ScanBecomes(h, [scan[h] EXCEPT !.pc = "count", !.reg = found])
    BY <2>2, ScanUpdated
  <2>5. Advance(h) => ScanBecomes(h, NextBlock(h)) /\ seen' = seen \cup ({scan[h].at} \cap Blocks)
    BY AdvanceUpdates DEF Advance
  <2>6. scan[h].pc = "scan"
    BY <1>5 DEF ScanBlock
  <2>7. \/ /\ scan[h].at > scan[h].last \/ ~running
           /\ scan' = [scan EXCEPT ![h] = EndOf(h)]
           /\ UNCHANGED <<seen, reports>>
        \/ scan[h].at <= scan[h].last /\ running /\ Advance(h) /\ UNCHANGED reports
        \/ /\ scan[h].at <= scan[h].last /\ running
           /\ scan' = [scan EXCEPT ![h] = [scan[h] EXCEPT !.pc = "count", !.reg = found]]
           /\ reports < MaxReports /\ reports' = reports + 1
           /\ UNCHANGED seen
    BY <1>5 DEF ScanBlock, EndOf
  <2> QED BY <2>3, <2>4, <2>5, <2>6, <2>7
<1>6. ASSUME NEW h \in Handles, CountBlock(h)
      PROVE  ScanBecomes(h, [scan[h] EXCEPT !.pc = "alert", !.reg = 0])
  <2>1. [scan[h] EXCEPT !.pc = "alert", !.reg = 0] \in ScanState
    <3>1. 0 \in 0..MaxReports
      BY Small
    <3>2. \A k \in ScanState, n \in 0..MaxReports : [k EXCEPT !.pc = "alert", !.reg = n] \in ScanState
      BY DEF ScanState
    <3> QED BY <1>2, <3>1, <3>2
  <2>2. scan' = [scan EXCEPT ![h] = [scan[h] EXCEPT !.pc = "alert", !.reg = 0]]
    BY <1>6 DEF CountBlock
  <2> QED BY <2>1, <2>2, ScanUpdated
<1>7. \A h \in Handles : AlertBlock(h) => ScanBecomes(h, NextBlock(h))
  BY AdvanceUpdates DEF AlertBlock
<1> QED BY <1>3, <1>4, <1>5, <1>6, <1>7

(* Where that leaves every thread. *)
Others(h) ==
  /\ scan' \in [Handles -> ScanState]
  /\ \A g \in Handles \ {h} : scan'[g] = scan[g]

Advances(h) ==
  /\ scan'[h].pc = "scan" /\ scan'[h].last = scan[h].last
  /\ scan'[h].at = (scan[h].at + 1) % Width

LEMMA ScanPlaces ==
  ASSUME TypeInv
  PROVE  /\ \A c \in Callers : Joined(c) =>
              LET h == call[c].thread IN h \in Handles /\ Others(h) /\ scan'[h].pc = "idle"
         /\ \A c \in Callers : CreateThread(c) =>
              \E h \in Handles : /\ scan[h].pc = "idle"
                                 /\ slot' = [slot EXCEPT ![call[c].at] = h]
                                 /\ Others(h)
                                 /\ scan'[h].pc = "scan"
                                 /\ scan'[h].at = First(call[c].at)
                                 /\ scan'[h].last = Last(call[c].at)
         /\ \A h \in Handles : ThreadStep(h) => Others(h) /\ scan[h].pc # "idle" /\ scan'[h].pc # "idle"
         /\ \A h \in Handles : ScanBlock(h) =>
              \/ /\ scan[h].at > scan[h].last \/ ~running
                 /\ scan'[h].pc = "ended"
                 /\ UNCHANGED <<seen, reports>>
              \/ /\ scan[h].at <= scan[h].last /\ running
                 /\ Advances(h)
                 /\ seen' = seen \cup ({scan[h].at} \cap Blocks)
                 /\ UNCHANGED reports
              \/ /\ scan[h].at <= scan[h].last /\ running
                 /\ scan'[h].pc = "count" /\ scan'[h].reg = found
                 /\ scan'[h].at = scan[h].at /\ scan'[h].last = scan[h].last
                 /\ reports < MaxReports /\ reports' = reports + 1
                 /\ UNCHANGED seen
         /\ \A h \in Handles : CountBlock(h) =>
              scan'[h].pc = "alert" /\ scan'[h].at = scan[h].at /\ scan'[h].last = scan[h].last
         /\ \A h \in Handles : AlertBlock(h) =>
              Advances(h) /\ seen' = seen \cup ({scan[h].at} \cap Blocks)
<1>1. \A h \in Handles : scan[h] \in ScanState
  BY DEF TypeInv, Types
<1>2. ASSUME NEW h \in Handles, ScanBecomes(h, NextBlock(h)) PROVE Others(h) /\ Advances(h)
  BY <1>1, <1>2 DEF ScanBecomes, Others, Advances, NextBlock, ScanState
<1>3. ASSUME NEW h \in Handles, ScanBecomes(h, EndOf(h)) PROVE Others(h) /\ scan'[h].pc = "ended"
  BY <1>3 DEF ScanBecomes, Others, EndOf, NoScan
<1>4. ASSUME NEW h \in Handles, ScanBecomes(h, [scan[h] EXCEPT !.pc = "count", !.reg = found])
      PROVE  /\ Others(h)
             /\ scan'[h].pc = "count" /\ scan'[h].reg = found
             /\ scan'[h].at = scan[h].at /\ scan'[h].last = scan[h].last
  BY <1>1, <1>4 DEF ScanBecomes, Others, ScanState
<1>5. ASSUME NEW h \in Handles, ScanBecomes(h, [scan[h] EXCEPT !.pc = "alert", !.reg = 0])
      PROVE  /\ Others(h)
             /\ scan'[h].pc = "alert" /\ scan'[h].at = scan[h].at /\ scan'[h].last = scan[h].last
  BY <1>1, <1>5 DEF ScanBecomes, Others, ScanState
<1>6. ASSUME NEW c \in Callers, Joined(c)
      PROVE  LET h == call[c].thread IN h \in Handles /\ Others(h) /\ scan'[h].pc = "idle"
  <2>1. ScanBecomes(call[c].thread, NoScan)
    BY <1>6, ScanUpdates
  <2> QED BY <1>6, <2>1 DEF Joined, TypeInv, Counting, ScanBecomes, Others, NoScan
<1>7. ASSUME NEW c \in Callers, CreateThread(c)
      PROVE  \E h \in Handles : /\ scan[h].pc = "idle"
                                /\ slot' = [slot EXCEPT ![call[c].at] = h]
                                /\ Others(h)
                                /\ scan'[h].pc = "scan"
                                /\ scan'[h].at = First(call[c].at)
                                /\ scan'[h].last = Last(call[c].at)
  <2>1. PICK h \in Handles : /\ scan[h].pc = "idle"
                            /\ slot' = [slot EXCEPT ![call[c].at] = h]
                            /\ ScanBecomes(h, NewScan(call[c].at))
    BY <1>7, ScanUpdates
  <2>2. /\ Others(h)
        /\ scan'[h].pc = "scan"
        /\ scan'[h].at = First(call[c].at)
        /\ scan'[h].last = Last(call[c].at)
    BY <2>1 DEF ScanBecomes, Others, NewScan
  <2> QED BY <2>1, <2>2
<1>8. ASSUME NEW h \in Handles, ScanBlock(h)
      PROVE  /\ Others(h)
             /\ \/ /\ scan[h].at > scan[h].last \/ ~running
                   /\ scan'[h].pc = "ended"
                   /\ UNCHANGED <<seen, reports>>
                \/ /\ scan[h].at <= scan[h].last /\ running
                   /\ Advances(h)
                   /\ seen' = seen \cup ({scan[h].at} \cap Blocks)
                   /\ UNCHANGED reports
                \/ /\ scan[h].at <= scan[h].last /\ running
                   /\ scan'[h].pc = "count" /\ scan'[h].reg = found
                   /\ scan'[h].at = scan[h].at /\ scan'[h].last = scan[h].last
                   /\ reports < MaxReports /\ reports' = reports + 1
                   /\ UNCHANGED seen
  BY <1>2, <1>3, <1>4, <1>8, ScanUpdates
<1>9. ASSUME NEW h \in Handles, CountBlock(h)
      PROVE  /\ Others(h)
             /\ scan'[h].pc = "alert" /\ scan'[h].at = scan[h].at /\ scan'[h].last = scan[h].last
  BY <1>5, <1>9, ScanUpdates
<1>10. ASSUME NEW h \in Handles, AlertBlock(h)
       PROVE  Others(h) /\ Advances(h) /\ seen' = seen \cup ({scan[h].at} \cap Blocks)
  BY <1>2, <1>10, ScanUpdates DEF AlertBlock, Advance
<1>11. ASSUME NEW h \in Handles, ThreadStep(h)
       PROVE  Others(h) /\ scan[h].pc # "idle" /\ scan'[h].pc # "idle"
  BY <1>8, <1>9, <1>10, <1>11 DEF ThreadStep, ScanBlock, CountBlock, AlertBlock, Advances
<1> QED BY <1>6, <1>7, <1>8, <1>9, <1>10, <1>11

(* Only one call, or only one thread, changes. *)
LEMMA CountingCall ==
  ASSUME TypeInv, NEW c \in Callers, Frame(c), reports' \in Nat, reports <= reports',
         call'[c].pc = "count" => call'[c].reg < reports',
         call'[c].pc = "wait" => call'[c].thread \in Handles
  PROVE  /\ \A d \in Callers : call'[d].pc = "count" => call'[d].reg < reports'
         /\ \A d \in Callers : call'[d].pc = "wait" => call'[d].thread \in Handles
<1>1. reports \in Nat /\ \A d \in Callers : call[d].reg \in Nat
  BY Numbers, Small DEF TypeInv, Types
<1> QED BY <1>1 DEF Frame, TypeInv, Counting

LEMMA CountingScan ==
  ASSUME TypeInv, NEW h \in Handles, Others(h), reports' \in Nat, reports <= reports',
         scan'[h].pc = "count" => scan'[h].reg < reports'
  PROVE  \A g \in Handles : scan'[g].pc = "count" => scan'[g].reg < reports'
<1>1. reports \in Nat /\ \A g \in Handles : scan[g].reg \in Nat
  BY Numbers, Small DEF TypeInv, Types
<1> QED BY <1>1 DEF Others, TypeInv, Counting

LEMMA TypeInvStep == TypeInv /\ [Next]_vars => TypeInv'
<1> SUFFICES ASSUME TypeInv, [Next]_vars PROVE TypeInv'
  OBVIOUS
<1>1. reports \in Nat /\ reports <= MaxReports /\ found \in Nat /\ found <= reports
  BY Small DEF TypeInv, Types, Counting
<1> DEFINE Calls == /\ \A d \in Callers : call'[d].pc = "count" => call'[d].reg < reports'
                    /\ \A d \in Callers : call'[d].pc = "wait" => call'[d].thread \in Handles
<1>2. ASSUME NEW c \in Callers, Start(c) \/ Stop(c) \/ Destroy(c) PROVE TypeInv'
  <2>1. Frame(c) /\ call'[c].pc \in {"set", "clear", "idle"}
    BY <1>2, CallPlaces
  <2>2. UNCHANGED <<total, running, slot, scan, found, reports, seen, gaps, broken>>
    BY <1>2 DEF Start, Stop, Destroy
  <2>3. Calls
    BY <1>1, <2>1, <2>2, CountingCall
  <2>4. races' = races + (IF \E d \in Callers \ {c} : Managing(d) THEN 1 ELSE 0)
    BY <1>2 DEF Start, Stop, Destroy, Enter
  <2>5. races' \in Nat
    BY <2>4 DEF TypeInv, Types
  <2>6. up' \in BOOLEAN /\ alerts' \in AlertState
    <3>1. UNCHANGED <<alerts, up>> \/ (alerts' = [alerts EXCEPT !.listed = 0] /\ up' = FALSE)
      BY <1>2 DEF Start, Stop, Destroy
    <3>2. alerts' \in AlertState
      BY <3>1 DEF TypeInv, Types, AlertState
    <3>3. up' \in BOOLEAN
      BY <3>1, Zenon DEF TypeInv, Types
    <3> QED BY <3>2, <3>3
  <2>7. starts' \in 0..MaxStarts
    BY <1>2, Small DEF Start, Stop, Destroy, TypeInv, Types
  <2>8. call' \in [Callers -> CallState]
    BY <2>1 DEF Frame
  <2> QED BY <2>2, <2>3, <2>5, <2>6, <2>7, <2>8 DEF TypeInv, Types, Counting, Blocks
<1>3. ASSUME NEW c \in Callers, SetFlag(c) \/ GiveUp(c) \/ ClearFlag(c) \/ Join(c) PROVE TypeInv'
  <2>1. Frame(c) /\ call'[c].pc # "count" /\ (call'[c].pc = "wait" => call'[c].thread \in Handles)
    BY <1>3, CallPlaces
  <2>2. UNCHANGED <<total, slot, scan, found, alerts, up, starts, reports, races, broken>>
    BY <1>3 DEF SetFlag, GiveUp, ClearFlag, Join
  <2>3. Calls
    BY <1>1, <2>1, <2>2, CountingCall
  <2>4. running' \in BOOLEAN /\ gaps' \in BOOLEAN /\ seen' \subseteq Blocks
    BY <1>3 DEF SetFlag, GiveUp, ClearFlag, Join, TypeInv, Types
  <2>5. call' \in [Callers -> CallState]
    BY <2>1 DEF Frame
  <2> QED BY <2>2, <2>3, <2>4, <2>5 DEF TypeInv, Types, Counting, Blocks
<1>4. ASSUME NEW c \in Callers, CreateThread(c) PROVE TypeInv'
  <2>1. UNCHANGED <<total, running, found, alerts, up, starts, reports, seen, gaps, races, broken>>
    BY <1>4 DEF CreateThread
  <2>2. PICK h \in Handles : /\ slot' = [slot EXCEPT ![call[c].at] = h]
                            /\ Others(h) /\ scan'[h].pc = "scan"
    BY <1>4, ScanPlaces
  <2>3. slot' \in [Slots -> Handles \cup {None}]
    BY <2>2 DEF TypeInv, Types
  <2>4. Frame(c) /\ call'[c].pc \in {"idle", "create"}
    BY <1>4, CallPlaces
  <2>5. Calls
    BY <1>1, <2>1, <2>4, CountingCall
  <2>6. \A g \in Handles : scan'[g].pc = "count" => scan'[g].reg < reports'
    BY <1>1, <2>1, <2>2, CountingScan
  <2>7. scan' \in [Handles -> ScanState] /\ call' \in [Callers -> CallState]
    BY <2>2, <2>4 DEF Frame, Others
  <2> QED BY <2>1, <2>3, <2>5, <2>6, <2>7 DEF TypeInv, Types, Counting, Blocks
<1>5. ASSUME NEW c \in Callers, Joined(c) PROVE TypeInv'
  <2>1. UNCHANGED <<total, running, found, alerts, up, starts, reports, seen, gaps, races>>
    BY <1>5 DEF Joined
  <2>2. PICK h \in Handles : Others(h) /\ scan'[h].pc = "idle"
    BY <1>5, ScanPlaces
  <2>3. slot' \in [Slots -> Handles \cup {None}] /\ broken' \in BOOLEAN
    BY <1>5 DEF Joined, TypeInv, Types
  <2>4. Frame(c) /\ call'[c].pc \in {"idle", "join"}
    BY <1>5, CallPlaces
  <2>5. Calls
    BY <1>1, <2>1, <2>4, CountingCall
  <2>6. \A g \in Handles : scan'[g].pc = "count" => scan'[g].reg < reports'
    BY <1>1, <2>1, <2>2, CountingScan
  <2>7. scan' \in [Handles -> ScanState] /\ call' \in [Callers -> CallState]
    BY <2>2, <2>4 DEF Frame, Others
  <2> QED BY <2>1, <2>3, <2>5, <2>6, <2>7 DEF TypeInv, Types, Counting, Blocks
<1>6. ASSUME NEW c \in Callers, Verify(c) PROVE TypeInv'
  <2>1. UNCHANGED <<total, running, slot, scan, found, alerts, up, starts, seen, gaps, races, broken>>
    BY <1>6 DEF Verify
  <2>2. reports' = reports + 1 /\ reports' \in 0..MaxReports
    BY <1>6, <1>1, Small DEF Verify
  <2>3. Frame(c) /\ call'[c].pc = "count" /\ call'[c].reg = found
    BY <1>6, CallPlaces
  <2>4. Calls
    BY <1>1, <2>2, <2>3, CountingCall
  <2>5. \A g \in Handles : scan[g].reg \in Nat
    BY Numbers DEF TypeInv, Types
  <2>6. \A g \in Handles : scan'[g].pc = "count" => scan'[g].reg < reports'
    BY <1>1, <2>1, <2>2, <2>5 DEF TypeInv, Counting
  <2>7. call' \in [Callers -> CallState]
    BY <2>3 DEF Frame
  <2> QED BY <1>1, <2>1, <2>2, <2>4, <2>6, <2>7 DEF TypeInv, Types, Counting, Blocks
<1>7. ASSUME NEW c \in Callers, VerifyCount(c) \/ VerifyAlert(c) PROVE TypeInv'
  <2>1. UNCHANGED <<total, running, slot, scan, up, starts, reports, seen, gaps, races>>
    BY <1>7 DEF VerifyCount, VerifyAlert
  <2>2. found' \in Nat /\ found' <= reports /\ alerts' \in AlertState /\ broken' \in BOOLEAN
    <3>1. call[c].reg \in Nat
      BY Numbers DEF TypeInv, Types
    <3>2. call[c].pc = "count" => call[c].reg < reports
      BY DEF TypeInv, Counting
    <3>3. CASE VerifyCount(c)
      BY <1>1, <3>1, <3>2, <3>3 DEF VerifyCount, TypeInv, Types
    <3>4. CASE VerifyAlert(c)
      BY <1>1, <3>4, SaidMore DEF VerifyAlert, TypeInv, Types
    <3> QED BY <1>7, <3>3, <3>4
  <2>3. Frame(c) /\ call'[c].pc \in {"alert", "idle"}
    BY <1>7, CallPlaces
  <2>4. Calls
    BY <1>1, <2>1, <2>3, CountingCall
  <2>5. call' \in [Callers -> CallState]
    BY <2>3 DEF Frame
  <2> QED BY <2>1, <2>2, <2>4, <2>5 DEF TypeInv, Types, Counting, Blocks
<1>8. ASSUME NEW h \in Handles, ThreadStep(h) PROVE TypeInv'
  <2>1. UNCHANGED <<total, running, slot, call, up, starts, gaps, races>>
    BY <1>8 DEF ThreadStep, ScanBlock, CountBlock, AlertBlock
  <2>2. \/ UNCHANGED reports /\ scan'[h].pc # "count"
        \/ /\ reports < MaxReports /\ reports' = reports + 1
           /\ scan'[h].pc = "count" /\ scan'[h].reg = found
    <3>1. CASE ScanBlock(h)
      BY <3>1, ScanPlaces DEF Advances
    <3>2. CASE CountBlock(h) \/ AlertBlock(h)
      BY <3>2, ScanPlaces DEF Advances, CountBlock, AlertBlock
    <3> QED BY <1>8, <3>1, <3>2 DEF ThreadStep
  <2>3. reports' \in 0..MaxReports /\ reports <= reports'
    BY <1>1, <2>2, Small
  <2>4. found' \in Nat /\ found' <= reports' /\ alerts' \in AlertState /\ broken' \in BOOLEAN
    <3>1. scan[h].reg \in Nat
      BY Numbers DEF TypeInv, Types
    <3>2. scan[h].pc = "count" => scan[h].reg < reports
      BY DEF TypeInv, Counting
    <3>3. CASE CountBlock(h)
      BY <1>1, <3>1, <3>2, <3>3 DEF CountBlock, TypeInv, Types
    <3>4. CASE AlertBlock(h)
      BY <1>1, <3>4, SaidMore DEF AlertBlock, TypeInv, Types
    <3>5. CASE ScanBlock(h)
      <4>1. UNCHANGED <<found, alerts, broken>>
        BY <3>5 DEF ScanBlock
      <4> QED BY <1>1, <2>3, <4>1, Small DEF TypeInv, Types
    <3> QED BY <1>8, <3>3, <3>4, <3>5 DEF ThreadStep
  <2>5. Others(h) /\ reports' \in Nat
    BY <1>8, <2>3, ScanPlaces, Small
  <2>6. \A g \in Handles : scan'[g].pc = "count" => scan'[g].reg < reports'
    BY <1>1, <2>2, <2>3, <2>5, CountingScan
  <2>7. \A d \in Callers : call[d].reg \in Nat
    BY Numbers DEF TypeInv, Types
  <2>8. Calls
    BY <1>1, <2>1, <2>3, <2>5, <2>7 DEF TypeInv, Counting
  <2>9. seen' \subseteq Blocks
    BY <1>8 DEF ThreadStep, ScanBlock, CountBlock, AlertBlock, Advance, TypeInv, Types
  <2>10. scan' \in [Handles -> ScanState]
    BY <2>5 DEF Others
  <2> QED BY <2>1, <2>3, <2>4, <2>6, <2>8, <2>9, <2>10 DEF TypeInv, Types, Counting, Blocks
<1>9. CASE UNCHANGED vars
  BY <1>9 DEF vars, TypeInv, Types, Counting, Blocks
<1> QED BY <1>2, <1>3, <1>4, <1>5, <1>6, <1>7, <1>8, <1>9 DEF Next, CallStep
LEMMA TypesHold == Spec => []TypeInv
BY TypeInvInit, TypeInvStep, PTL DEF Spec

----
(* The counter of corrupted blocks *)

(* Who has counted a block and not raised its alert yet. *)
Alerting == {h \in Handles : scan[h].pc = "alert"}
AlertingCalls == {c \in Callers : call[c].pc = "alert"}

Claims == Said + Cardinality(Alerting) + Cardinality(AlertingCalls)

(* What was read of the counter claims as little as the counter. *)
CountInv ==
  up => /\ found <= Claims
        /\ \A h \in Handles : scan[h].pc = "count" => scan[h].reg <= Claims
        /\ \A c \in Callers : call[c].pc = "count" => call[c].reg <= Claims
        /\ Said > 0 \/ Alerting # {} \/ AlertingCalls # {} => found > 0

LEMMA AlertingFinite ==
  /\ IsFiniteSet(Alerting) /\ IsFiniteSet(AlertingCalls)
  /\ Cardinality(Alerting) \in Nat /\ Cardinality(AlertingCalls) \in Nat
<1>1. IsFiniteSet(Handles) /\ IsFiniteSet(Callers)
  BY IntegrityAssumption
<1>2. Alerting \in SUBSET Handles /\ AlertingCalls \in SUBSET Callers
  BY DEF Alerting, AlertingCalls
<1>3. IsFiniteSet(Alerting) /\ IsFiniteSet(AlertingCalls)
  BY <1>1, <1>2, FS_Subset
<1> QED BY <1>3, FS_CardinalityType

(* Which registers a step writes: a verification reads the counter. *)
LEMMA Registers ==
  ASSUME TypeInv, [Next]_vars
  PROVE  /\ \A h \in Handles : scan'[h].pc = "count" =>
              \/ scan'[h].reg = found
              \/ scan[h].pc = "count" /\ scan'[h].reg = scan[h].reg
         /\ \A c \in Callers : call'[c].pc = "count" =>
              \/ call'[c].reg = found
              \/ call[c].pc = "count" /\ call'[c].reg = call[c].reg
<1>1. ASSUME NEW h \in Handles, ThreadStep(h)
      PROVE  /\ \A g \in Handles : scan'[g].pc = "count" =>
                  \/ scan'[g].reg = found
                  \/ scan[g].pc = "count" /\ scan'[g].reg = scan[g].reg
             /\ UNCHANGED call
  <2>1. UNCHANGED call
    BY <1>1 DEF ThreadStep, ScanBlock, CountBlock, AlertBlock
  <2>2. Others(h)
    BY <1>1, ScanPlaces
  <2>3. scan'[h].pc = "count" => scan'[h].reg = found
    BY <1>1, ScanPlaces DEF ThreadStep, Advances
  <2> QED BY <2>1, <2>2, <2>3 DEF Others
<1>2. ASSUME NEW c \in Callers, Start(c) \/ Stop(c) \/ Destroy(c) \/ Verify(c) \/ CallStep(c)
      PROVE  \A d \in Callers : call'[d].pc = "count" =>
               \/ call'[d].reg = found
               \/ call[d].pc = "count" /\ call'[d].reg = call[d].reg
  <2>1. Frame(c)
    BY <1>2, CallPlaces DEF CallStep
  <2>2. call'[c].pc = "count" => call'[c].reg = found
    BY <1>2, CallPlaces DEF CallStep
  <2> QED BY <2>1, <2>2 DEF Frame
<1>3. ASSUME NEW c \in Callers, Start(c) \/ Stop(c) \/ Destroy(c) \/ Verify(c) \/ CallStep(c)
      PROVE  \A g \in Handles : scan'[g].pc = "count" =>
               scan[g].pc = "count" /\ scan'[g].reg = scan[g].reg
  <2>1. CASE CreateThread(c) \/ Joined(c)
    <3>1. PICK h \in Handles : Others(h) /\ scan'[h].pc # "count"
      BY <2>1, ScanPlaces
    <3> QED BY <3>1 DEF Others
  <2>2. CASE ~CreateThread(c) /\ ~Joined(c)
    BY <1>3, <2>2 DEF CallStep, Start, Stop, Destroy, Verify, SetFlag, GiveUp, ClearFlag, Join,
                     VerifyCount, VerifyAlert
  <2> QED BY <2>1, <2>2
<1>4. CASE UNCHANGED vars
  BY <1>4 DEF vars
<1> QED BY <1>1, <1>2, <1>3, <1>4 DEF Next

(* A block is counted, or its alert is raised. *)
LEMMA Claimed ==
  ASSUME TypeInv
  PROVE  /\ \A h \in Handles : CountBlock(h) =>
              Claims' = Claims + 1 /\ found' = scan[h].reg + 1
         /\ \A c \in Callers : VerifyCount(c) =>
              Claims' = Claims + 1 /\ found' = call[c].reg + 1
         /\ \A h \in Handles : AlertBlock(h) => Claims' = Claims /\ h \in Alerting
         /\ \A c \in Callers : VerifyAlert(c) => Claims' = Claims /\ c \in AlertingCalls
<1>0. alerts \in AlertState /\ up \in BOOLEAN /\ Said \in Nat
  BY DEF TypeInv, Types, AlertState, Said
<1>1. ASSUME NEW h \in Handles, CountBlock(h) PROVE Claims' = Claims + 1 /\ found' = scan[h].reg + 1
  <2>1. Others(h) /\ scan'[h].pc = "alert"
    BY <1>1, ScanPlaces DEF ThreadStep
  <2>2. scan[h].pc = "count" /\ UNCHANGED <<call, Said>> /\ found' = scan[h].reg + 1
    BY <1>1 DEF CountBlock, Said
  <2>3. Alerting' = Alerting \cup {h} /\ h \notin Alerting
    BY <2>1, <2>2 DEF Alerting, Others
  <2>4. AlertingCalls' = AlertingCalls
    BY <2>2 DEF AlertingCalls
  <2>5. Cardinality(Alerting') = Cardinality(Alerting) + 1
    BY <2>3, AlertingFinite, FS_AddElement
  <2> QED BY <1>0, <2>2, <2>4, <2>5, AlertingFinite DEF Claims
<1>2. ASSUME NEW c \in Callers, VerifyCount(c) PROVE Claims' = Claims + 1 /\ found' = call[c].reg + 1
  <2>1. Frame(c) /\ call'[c].pc = "alert"
    BY <1>2, CallPlaces
  <2>2. call[c].pc = "count" /\ UNCHANGED <<scan, Said>> /\ found' = call[c].reg + 1
    BY <1>2 DEF VerifyCount, Said
  <2>3. AlertingCalls' = AlertingCalls \cup {c} /\ c \notin AlertingCalls
    BY <2>1, <2>2 DEF AlertingCalls, Frame
  <2>4. Alerting' = Alerting
    BY <2>2 DEF Alerting
  <2>5. Cardinality(AlertingCalls') = Cardinality(AlertingCalls) + 1
    BY <2>3, AlertingFinite, FS_AddElement
  <2> QED BY <1>0, <2>2, <2>4, <2>5, AlertingFinite DEF Claims
<1>3. ASSUME NEW h \in Handles, AlertBlock(h) PROVE Claims' = Claims /\ h \in Alerting
  <2>1. Others(h) /\ scan'[h].pc = "scan"
    BY <1>3, ScanPlaces DEF ThreadStep, Advances
  <2>2. scan[h].pc = "alert" /\ UNCHANGED call /\ Said' = Said + 1
    BY <1>0, <1>3, SaidMore DEF AlertBlock
  <2>3. Alerting' = Alerting \ {h} /\ h \in Alerting
    BY <2>1, <2>2 DEF Alerting, Others
  <2>4. AlertingCalls' = AlertingCalls
    BY <2>2 DEF AlertingCalls
  <2>5. Cardinality(Alerting') = Cardinality(Alerting) - 1
    BY <2>3, AlertingFinite, FS_RemoveElement
  <2> QED BY <1>0, <2>2, <2>3, <2>4, <2>5, AlertingFinite DEF Claims
<1>4. ASSUME NEW c \in Callers, VerifyAlert(c) PROVE Claims' = Claims /\ c \in AlertingCalls
  <2>1. Frame(c) /\ call'[c].pc = "idle"
    BY <1>4, CallPlaces
  <2>2. call[c].pc = "alert" /\ UNCHANGED scan /\ Said' = Said + 1
    BY <1>0, <1>4, SaidMore DEF VerifyAlert
  <2>3. AlertingCalls' = AlertingCalls \ {c} /\ c \in AlertingCalls
    BY <2>1, <2>2 DEF AlertingCalls, Frame
  <2>4. Alerting' = Alerting
    BY <2>2 DEF Alerting
  <2>5. Cardinality(AlertingCalls') = Cardinality(AlertingCalls) - 1
    BY <2>3, AlertingFinite, FS_RemoveElement
  <2> QED BY <1>0, <2>2, <2>3, <2>4, <2>5, AlertingFinite DEF Claims
<1> QED BY <1>1, <1>2, <1>3, <1>4

(* Every other step leaves counter and claims as they are, unless it destroys
   the list. *)
LEMMA Unclaimed ==
  ASSUME TypeInv, [Next]_vars,
         \A h \in Handles : ~CountBlock(h) /\ ~AlertBlock(h),
         \A c \in Callers : ~VerifyCount(c) /\ ~VerifyAlert(c) /\ ~Destroy(c)
  PROVE  UNCHANGED <<found, alerts, up, Alerting, AlertingCalls>>
<1>1. UNCHANGED <<found, alerts, up>>
  BY DEF Next, CallStep, ThreadStep, vars, Start, Stop, Verify, SetFlag, GiveUp, CreateThread, ClearFlag,
         Join, Joined, ScanBlock
<1>2. \A h \in Handles : scan[h].pc = "alert" <=> scan'[h].pc = "alert"
  <2>1. ASSUME NEW h \in Handles, ScanBlock(h)
        PROVE  \A g \in Handles : scan[g].pc = "alert" <=> scan'[g].pc = "alert"
    <3>1. Others(h) /\ scan'[h].pc # "alert"
      BY <2>1, ScanPlaces DEF ThreadStep, Advances
    <3> QED BY <2>1, <3>1 DEF Others, ScanBlock
  <2>2. ASSUME NEW c \in Callers, CreateThread(c)
        PROVE  \A g \in Handles : scan[g].pc = "alert" <=> scan'[g].pc = "alert"
    <3>1. PICK h \in Handles : Others(h) /\ scan[h].pc = "idle" /\ scan'[h].pc = "scan"
      BY <2>2, ScanPlaces
    <3> QED BY <3>1 DEF Others
  <2>3. ASSUME NEW c \in Callers, Joined(c)
        PROVE  \A g \in Handles : scan[g].pc = "alert" <=> scan'[g].pc = "alert"
    <3>1. LET h == call[c].thread IN h \in Handles /\ Others(h) /\ scan'[h].pc = "idle"
      BY <2>3, ScanPlaces
    <3> QED BY <2>3, <3>1 DEF Others, Joined, Live
  <2>4. CASE UNCHANGED scan
    BY <2>4
  <2> QED BY <2>1, <2>2, <2>3, <2>4
          DEF Next, CallStep, ThreadStep, vars, Start, Stop, Verify, SetFlag, GiveUp, ClearFlag, Join
<1>3. \A c \in Callers : call[c].pc = "alert" <=> call'[c].pc = "alert"
  <2>1. ASSUME NEW c \in Callers, Start(c) \/ Stop(c) \/ Verify(c) \/ CallStep(c)
        PROVE  \A d \in Callers : call[d].pc = "alert" <=> call'[d].pc = "alert"
    <3>1. Frame(c) /\ call'[c].pc # "alert"
      BY <2>1, CallPlaces DEF CallStep
    <3>2. call[c].pc # "alert"
      BY <2>1 DEF CallStep, Start, Stop, Verify, Ready, SetFlag, GiveUp, CreateThread, ClearFlag, Join, Joined
    <3> QED BY <3>1, <3>2 DEF Frame
  <2>2. CASE UNCHANGED call
    BY <2>2
  <2> QED BY <2>1, <2>2 DEF Next, ThreadStep, ScanBlock, vars
<1> QED BY <1>1, <1>2, <1>3 DEF Alerting, AlertingCalls

LEMMA CountStep == TypeInv /\ CountInv /\ [Next]_vars => CountInv'
<1> SUFFICES ASSUME TypeInv, CountInv, [Next]_vars, up' PROVE CountInv'
  BY DEF CountInv
<1>1. /\ Claims \in Nat /\ found \in Nat
      /\ \A h \in Handles : scan[h].reg \in Nat
      /\ \A c \in Callers : call[c].reg \in Nat
  BY AlertingFinite, Numbers DEF TypeInv, Types, AlertState, Claims, Said
<1>2. up
  BY DEF Next, CallStep, ThreadStep, vars, Start, Stop, Destroy, Verify, SetFlag, GiveUp, CreateThread,
         ClearFlag, Join, Joined, VerifyCount, VerifyAlert, ScanBlock, CountBlock, AlertBlock
<1>3. ASSUME found' \in Nat, Claims' \in Nat, Claims <= Claims', found' <= Claims',
             Said' > 0 \/ Alerting' # {} \/ AlertingCalls' # {} => found' > 0
      PROVE  CountInv'
  <2>1. \A h \in Handles : scan'[h].pc = "count" => scan'[h].reg <= Claims'
    BY <1>1, <1>2, <1>3, Registers DEF CountInv
  <2>2. \A c \in Callers : call'[c].pc = "count" => call'[c].reg <= Claims'
    BY <1>1, <1>2, <1>3, Registers DEF CountInv
  <2> QED BY <1>3, <2>1, <2>2 DEF CountInv
<1>4. ASSUME NEW h \in Handles, CountBlock(h) PROVE CountInv'
  <2>1. scan[h].pc = "count"
    BY <1>4 DEF CountBlock
  <2> QED BY <1>1, <1>2, <1>3, <1>4, <2>1, Claimed DEF CountInv
<1>5. ASSUME NEW c \in Callers, VerifyCount(c) PROVE CountInv'
  <2>1. call[c].pc = "count"
    BY <1>5 DEF VerifyCount
  <2> QED BY <1>1, <1>2, <1>3, <1>5, <2>1, Claimed DEF CountInv
<1>6. ASSUME NEW h \in Handles, AlertBlock(h) PROVE CountInv'
  <2>1. UNCHANGED found
    BY <1>6 DEF AlertBlock
  <2>2. h \in Alerting /\ Claims' = Claims
    BY <1>6, Claimed
  <2>3. found > 0 /\ found <= Claims
    BY <1>2, <2>2 DEF CountInv
  <2> QED BY <1>1, <1>3, <2>1, <2>2, <2>3
<1>7. ASSUME NEW c \in Callers, VerifyAlert(c) PROVE CountInv'
  <2>1. UNCHANGED found
    BY <1>7 DEF VerifyAlert
  <2>2. c \in AlertingCalls /\ Claims' = Claims
    BY <1>7, Claimed
  <2>3. found > 0 /\ found <= Claims
    BY <1>2, <2>2 DEF CountInv
  <2> QED BY <1>1, <1>3, <2>1, <2>2, <2>3
<1>8. CASE /\ \A h \in Handles : ~CountBlock(h) /\ ~AlertBlock(h)
           /\ \A c \in Callers : ~VerifyCount(c) /\ ~VerifyAlert(c)
  <2>1. \A c \in Callers : ~Destroy(c)
    BY DEF Destroy
  <2>2. UNCHANGED <<found, alerts, up, Alerting, AlertingCalls>>
    BY <1>8, <2>1, Unclaimed
  <2>3. Claims' = Claims
    BY <2>2 DEF Claims, Said
  <2> QED BY <1>1, <1>2, <1>3, <2>2, <2>3 DEF CountInv, Said
<1> QED BY <1>4, <1>5, <1>6, <1>7, <1>8

(* However increments of corrupted_blocks_found overwrite each other, it
   never exceeds the blocks that were to be reported, whether their alert was
   listed or found no memory, and it is above zero once there was one. *)
THEOREM CountCorrect == Spec => []CountHonest
<1>1. Init => CountInv
  <2>1. Init => Alerting = {} /\ AlertingCalls = {}
    BY DEF Init, Alerting, AlertingCalls, NoCall, NoScan
  <2> QED BY <2>1, FS_EmptySet DEF Init, CountInv, Claims, Said, NoCall, NoScan
<1>2. TypeInv /\ CountInv => CountHonest
  BY DEF CountInv, CountHonest, Claims, Said, Alerting, AlertingCalls, HealthWarns
<1> QED BY <1>1, <1>2, CountStep, TypesHold, TypeInvInit, TypeInvStep, PTL DEF Spec
----
(* Who owns the slots *)

(* Unless starts and stops race one call at most manages the threads, every
   slot has a thread of its own that nobody has joined, and a stop waits for
   the thread that is in its slot. *)
Owned ==
  /\ \A c, d \in Callers : Managing(c) /\ Managing(d) => c = d
  /\ \A i, j \in Slots : slot[i] = slot[j] => i = j \/ slot[i] = None
  /\ \A i \in Slots : slot[i] # None => scan[slot[i]].pc # "idle"
  /\ \A c \in Callers : call[c].pc = "wait" => slot[call[c].at] = call[c].thread
  /\ \A c \in Callers : call[c].pc \in {"set", "clear"} => call[c].at = 0

(* If every thread could be made, each is in a slot, and how many slots have
   one follows from the flag and the call that manages them. *)
Filled ==
  /\ \A h \in Handles : scan[h].pc # "idle" => \E i \in Slots : slot[i] = h
  /\ (\A c \in Callers : ~Managing(c)) => \A i \in Slots : slot[i] # None <=> running
  /\ \A c \in Callers :
       /\ call[c].pc \in {"set", "give up"} => \A i \in Slots : slot[i] = None
       /\ call[c].pc = "create" => running /\ \A i \in Slots : slot[i] # None <=> i < call[c].at
       /\ call[c].pc \in {"join", "wait"} => ~running /\ \A i \in Slots : i < call[c].at => slot[i] = None

Begin(c) == Start(c) \/ Stop(c) \/ Destroy(c)

(* How a step can begin, go on with or end the management of the threads. *)
LEMMA HistoriesGrow ==
  ASSUME TypeInv, [Next]_vars
  PROVE  /\ races' = 0 => races = 0
         /\ ~gaps' => ~gaps
         /\ total' = total
<1>1. races \in Nat
  BY DEF TypeInv, Types
<1>2. races' = races \/ races' = races + 1
  <2>1. \A c \in Callers : Begin(c) => races' = races \/ races' = races + 1
    BY <1>1 DEF Begin, Start, Stop, Destroy, Enter
  <2>2. (\A c \in Callers : ~Begin(c)) => races' = races
    BY DEF Begin, Next, CallStep, ThreadStep, vars, Verify, SetFlag, GiveUp, CreateThread, ClearFlag, Join,
           Joined, VerifyCount, VerifyAlert, ScanBlock, CountBlock, AlertBlock
  <2> QED BY <2>1, <2>2
<1>3. ~gaps' => ~gaps
  BY DEF Next, CallStep, ThreadStep, vars, Start, Stop, Destroy, Verify, SetFlag, GiveUp, CreateThread,
         ClearFlag, Join, Joined, VerifyCount, VerifyAlert, ScanBlock, CountBlock, AlertBlock
<1>4. total' = total
  BY DEF Next, CallStep, ThreadStep, vars, Start, Stop, Destroy, Verify, SetFlag, GiveUp, CreateThread,
         ClearFlag, Join, Joined, VerifyCount, VerifyAlert, ScanBlock, CountBlock, AlertBlock
<1> QED BY <1>1, <1>2, <1>3, <1>4

(* When only c can manage the threads, Filled is about c. *)
LEMMA FilledBy ==
  ASSUME NEW c \in Callers, \A d \in Callers : Managing(d)' => d = c,
         \A h \in Handles : scan'[h].pc # "idle" => \E i \in Slots : slot'[i] = h,
         ~Managing(c)' => \A i \in Slots : slot'[i] # None <=> running',
         call'[c].pc \in {"set", "give up"} => \A i \in Slots : slot'[i] = None,
         call'[c].pc = "create" => running' /\ \A i \in Slots : slot'[i] # None <=> i < call'[c].at,
         call'[c].pc \in {"join", "wait"} =>
           ~running' /\ \A i \in Slots : i < call'[c].at => slot'[i] = None
  PROVE  Filled'
BY DEF Filled, Managing

(* The same when c joins. *)
LEMMA FilledJoining ==
  ASSUME NEW c \in Callers, \A d \in Callers : Managing(d)' => d = c,
         \A h \in Handles : scan'[h].pc # "idle" => \E i \in Slots : slot'[i] = h,
         call'[c].pc \in {"join", "wait"}, ~running',
         \A i \in Slots : i < call'[c].at => slot'[i] = None
  PROVE  Filled'
BY FilledBy DEF Managing

LEMMA OwnedBegin ==
  ASSUME TypeInv, Owned, NEW c \in Callers, Begin(c), races' = 0
  PROVE  /\ Owned'
         /\ ~gaps /\ Filled => Filled'
<1>1. races \in Nat
  BY DEF TypeInv, Types
<1>2. \A d \in Callers : ~Managing(d)
  <2>1. races' = races + (IF \E d \in Callers \ {c} : Managing(d) THEN 1 ELSE 0) /\ call[c].pc = "idle"
    BY DEF Begin, Start, Stop, Destroy, Enter, Ready
  <2>2. ~\E d \in Callers \ {c} : Managing(d)
    BY <1>1, <2>1
  <2> QED BY <2>1, <2>2 DEF Managing
<1>3. /\ Frame(c) /\ UNCHANGED <<slot, scan, running>>
      /\ \/ call'[c].pc = "set" /\ ~running
         \/ call'[c].pc = "clear" /\ running
         \/ call'[c].pc = "idle"
      /\ call'[c].at = 0
  BY CallPlaces DEF Begin, Start, Stop, Destroy
<1>4. \A d \in Callers : Managing(d)' => d = c
  BY <1>2, <1>3 DEF Managing, Frame
<1>5. Owned'
  BY <1>2, <1>3, <1>4 DEF Owned, Managing, Frame
<1>6. ASSUME Filled PROVE Filled'
  <2>1. \A i \in Slots : slot[i] # None <=> running
    BY <1>2, <1>6 DEF Filled
  <2> QED BY <1>2, <1>3, <1>6, <2>1 DEF Filled, Managing, Frame
<1> QED BY <1>5, <1>6

LEMMA OwnedManage ==
  ASSUME TypeInv, Owned, NEW c \in Callers, SetFlag(c) \/ GiveUp(c) \/ ClearFlag(c) \/ Join(c)
  PROVE  /\ Owned'
         /\ ~gaps' /\ Filled => Filled'
<1>1. Frame(c) /\ Managing(c) /\ UNCHANGED <<slot, scan>>
  BY CallPlaces DEF SetFlag, GiveUp, ClearFlag, Join, Managing
<1>2. \A d \in Callers : Managing(d)' => d = c
  BY <1>1 DEF Owned, Managing, Frame
<1>3. /\ call'[c].pc = "wait" => slot[call'[c].at] = call'[c].thread
      /\ call'[c].pc \notin {"set", "clear"}
  BY CallPlaces
<1>4. Owned'
  <2>1. \A d \in Callers : call'[d].pc = "wait" => slot[call'[d].at] = call'[d].thread
    BY <1>2, <1>3 DEF Managing
  <2>2. \A d \in Callers : call'[d].pc \notin {"set", "clear"}
    BY <1>2, <1>3 DEF Managing
  <2> QED BY <1>1, <1>2, <2>1, <2>2 DEF Owned
<1>5. ASSUME Filled, SetFlag(c) PROVE Filled'
  <2>1. running' /\ call[c].pc = "set" /\ call'[c].pc \in {"give up", "create"} /\ call'[c].at = call[c].at
    BY <1>5, CallPlaces DEF SetFlag
  <2>2. \A i \in Slots : slot[i] = None
    BY <1>5, <2>1 DEF Filled
  <2>3. call'[c].at = 0 /\ \A i \in Slots : ~(i < 0)
    <3>1. call[c].at = 0
      BY <2>1 DEF Owned
    <3>2. \A i \in Slots : ~(i < 0)
      BY DEF Slots
    <3> QED BY <2>1, <3>1, <3>2
  <2>4. \A h \in Handles : scan'[h].pc # "idle" => \E i \in Slots : slot'[i] = h
    BY <1>1, <1>5 DEF Filled
  <2> QED BY <1>1, <1>2, <2>1, <2>2, <2>3, <2>4, FilledBy DEF Managing
<1>6. ASSUME Filled, ClearFlag(c) PROVE Filled'
  <2>1. ~running' /\ call[c].pc = "clear" /\ call'[c].pc = "join" /\ call'[c].at = call[c].at
    BY <1>6, CallPlaces DEF ClearFlag
  <2>2. call'[c].at = 0 /\ \A i \in Slots : ~(i < 0)
    BY <2>1 DEF Owned, Slots
  <2>3. \A h \in Handles : scan'[h].pc # "idle" => \E i \in Slots : slot'[i] = h
    BY <1>1, <1>6 DEF Filled
  <2> QED BY <1>2, <2>1, <2>2, <2>3, FilledBy DEF Managing
<1>7. ASSUME Filled, Join(c) PROVE Filled'
  <2>1. UNCHANGED running /\ call[c].pc = "join" /\ call[c].at \in Slots
    BY <1>7, Numbers DEF Join, TypeInv, Types
  <2>2. ~running /\ \A i \in Slots : i < call[c].at => slot[i] = None
    BY <1>7, <2>1 DEF Filled
  <2>3. \A h \in Handles : scan'[h].pc # "idle" => \E i \in Slots : slot'[i] = h
    BY <1>1, <1>7 DEF Filled
  <2>4. CASE call'[c].pc = "wait" /\ call'[c].at = call[c].at
    BY <1>1, <1>2, <2>1, <2>2, <2>3, <2>4, FilledJoining
  <2>5. CASE slot[call[c].at] = None
    <3>1. \A i \in Slots : i < call[c].at + 1 => slot[i] = None
      BY <2>1, <2>2, <2>5 DEF Slots
    <3>2. call[c].at = N - 1 => \A i \in Slots : slot[i] = None
      BY <3>1, Small DEF Slots
    <3>3. CASE call[c].at = N - 1 /\ call'[c].pc = "idle"
      BY <1>1, <1>2, <2>1, <2>2, <2>3, <3>2, <3>3, FilledBy
    <3>4. CASE call'[c].pc = "join" /\ call'[c].at = call[c].at + 1
      BY <1>1, <1>2, <2>1, <2>2, <2>3, <3>1, <3>4, FilledJoining
    <3> QED BY <1>7, <2>4, <3>3, <3>4, CallPlaces
  <2> QED BY <1>7, <2>4, <2>5, CallPlaces
<1>8. GiveUp(c) => gaps'
  BY DEF GiveUp
<1> QED BY <1>4, <1>5, <1>6, <1>7, <1>8

LEMMA OwnedCreate ==
  ASSUME TypeInv, Owned, NEW c \in Callers, CreateThread(c)
  PROVE  /\ Owned'
         /\ Filled => Filled'
<1>1. /\ Frame(c) /\ call[c].pc = "create" /\ call[c].at \in Slots
      /\ IF call[c].at = N - 1 THEN call'[c].pc = "idle"
         ELSE call'[c].pc = "create" /\ call'[c].at = call[c].at + 1
      /\ UNCHANGED running
  BY CallPlaces, Numbers DEF CreateThread, TypeInv, Types
<1>2. \A d \in Callers : Managing(d)' => d = c
  BY <1>1 DEF Owned, Managing, Frame
<1>3. PICK h \in Handles : /\ scan[h].pc = "idle"
                          /\ slot' = [slot EXCEPT ![call[c].at] = h]
                          /\ Others(h) /\ scan'[h].pc = "scan"
  BY ScanPlaces
<1>4. h # None /\ \A i \in Slots : slot[i] # h
  BY <1>3, Small DEF Owned
<1>5. slot'[call[c].at] = h /\ \A i \in Slots \ {call[c].at} : slot'[i] = slot[i]
  BY <1>1, <1>3 DEF TypeInv, Types
<1>6. Owned'
  <2>1. \A d \in Callers : call'[d].pc \notin {"wait", "set", "clear"}
    BY <1>1, <1>2 DEF Managing
  <2>2. \A i, j \in Slots : slot'[i] = slot'[j] => i = j \/ slot'[i] = None
    BY <1>4, <1>5 DEF Owned
  <2>3. \A i \in Slots : slot'[i] # None => scan'[slot'[i]].pc # "idle"
    <3>1. \A i \in Slots : slot[i] \in Handles \cup {None}
      BY DEF TypeInv, Types
    <3> QED BY <1>3, <1>4, <1>5, <3>1 DEF Owned, Others
  <2> QED BY <1>2, <2>1, <2>2, <2>3 DEF Owned
<1>7. ASSUME Filled PROVE Filled'
  <2>1. running /\ \A i \in Slots : slot[i] # None <=> i < call[c].at
    BY <1>1, <1>7 DEF Filled
  <2>2. \A i \in Slots : slot'[i] # None <=> i < call[c].at + 1
    BY <1>1, <1>4, <1>5, <2>1 DEF Slots
  <2>3. call[c].at = N - 1 => \A i \in Slots : slot'[i] # None
    BY <2>2, Small DEF Slots
  <2>4. \A g \in Handles : scan'[g].pc # "idle" => \E i \in Slots : slot'[i] = g
    <3>1. slot[call[c].at] = None
      BY <1>1, <2>1 DEF Slots
    <3>2. \A g \in Handles \ {h} : scan[g].pc # "idle" => \E i \in Slots : slot[i] = g
      BY <1>7 DEF Filled
    <3> QED BY <1>1, <1>3, <1>5, <3>1, <3>2, Small DEF Others
  <2>5. CASE call[c].at = N - 1 /\ call'[c].pc = "idle"
    BY <1>1, <1>2, <2>1, <2>3, <2>4, <2>5, FilledBy
  <2>6. CASE call'[c].pc = "create" /\ call'[c].at = call[c].at + 1
    BY <1>1, <1>2, <2>1, <2>2, <2>4, <2>6, FilledBy DEF Managing
  <2> QED BY <1>1, <2>5, <2>6
<1> QED BY <1>6, <1>7

LEMMA OwnedJoined ==
  ASSUME TypeInv, Owned, NEW c \in Callers, Joined(c)
  PROVE  /\ Owned'
         /\ Filled => Filled'
<1>1. /\ Frame(c) /\ call[c].pc = "wait" /\ call[c].at \in Slots
      /\ IF call[c].at = N - 1 THEN call'[c].pc = "idle"
         ELSE call'[c].pc = "join" /\ call'[c].at = call[c].at + 1
      /\ UNCHANGED running
  BY CallPlaces, Numbers DEF Joined, TypeInv, Types
<1>2. \A d \in Callers : Managing(d)' => d = c
  BY <1>1 DEF Owned, Managing, Frame
<1>3. LET h == call[c].thread
      IN  /\ h \in Handles /\ Others(h) /\ scan'[h].pc = "idle"
          /\ slot[call[c].at] = h /\ h # None
  BY <1>1, ScanPlaces, Small DEF Owned
<1>4. slot'[call[c].at] = None /\ \A i \in Slots \ {call[c].at} : slot'[i] = slot[i]
  BY <1>1 DEF Joined, TypeInv, Types
<1>5. \A i \in Slots \ {call[c].at} : slot[i] # call[c].thread
  BY <1>1, <1>3 DEF Owned
<1>6. Owned'
  <2>1. \A d \in Callers : call'[d].pc \notin {"wait", "set", "clear"}
    BY <1>1, <1>2 DEF Managing
  <2>2. \A i, j \in Slots : slot'[i] = slot'[j] => i = j \/ slot'[i] = None
    BY <1>4 DEF Owned
  <2>3. \A i \in Slots : slot'[i] # None => scan'[slot'[i]].pc # "idle"
    <3>1. \A i \in Slots : slot[i] \in Handles \cup {None}
      BY DEF TypeInv, Types
    <3> QED BY <1>3, <1>4, <1>5, <3>1 DEF Owned, Others
  <2> QED BY <1>2, <2>1, <2>2, <2>3 DEF Owned
<1>7. ASSUME Filled PROVE Filled'
  <2>1. ~running /\ \A i \in Slots : i < call[c].at => slot[i] = None
    BY <1>1, <1>7 DEF Filled
  <2>2. \A i \in Slots : i < call[c].at + 1 => slot'[i] = None
    BY <1>1, <1>4, <2>1 DEF Slots
  <2>3. call[c].at = N - 1 => \A i \in Slots : slot'[i] = None
    BY <2>2, Small DEF Slots
  <2>4. \A g \in Handles : scan'[g].pc # "idle" => \E i \in Slots : slot'[i] = g
    <3>1. \A g \in Handles \ {call[c].thread} : scan[g].pc # "idle" => \E i \in Slots : slot[i] = g
      BY <1>7 DEF Filled
    <3> QED BY <1>3, <1>4, <3>1 DEF Others
  <2>5. CASE call[c].at = N - 1 /\ call'[c].pc = "idle"
    BY <1>1, <1>2, <2>1, <2>3, <2>4, <2>5, FilledBy
  <2>6. CASE call'[c].pc = "join" /\ call'[c].at = call[c].at + 1
    BY <1>1, <1>2, <2>1, <2>2, <2>4, <2>6, FilledJoining
  <2> QED BY <1>1, <2>5, <2>6
<1> QED BY <1>6, <1>7

(* Threads that scan, and callers that verify, own and fill nothing. *)
LEMMA OwnedKept ==
  ASSUME TypeInv, Owned,
         \/ \E h \in Handles : ThreadStep(h)
         \/ \E c \in Callers : Verify(c) \/ VerifyCount(c) \/ VerifyAlert(c)
         \/ UNCHANGED vars
  PROVE  /\ Owned'
         /\ Filled => Filled'
<1>1. CASE \E h \in Handles : ThreadStep(h)
  <2>1. PICK h \in Handles : ThreadStep(h)
    BY <1>1
  <2>2. UNCHANGED <<slot, call, running>>
    BY <2>1 DEF ThreadStep, ScanBlock, CountBlock, AlertBlock
  <2>3. \A g \in Handles : scan'[g].pc # "idle" <=> scan[g].pc # "idle"
    BY <2>1, ScanPlaces DEF Others
  <2>4. \A i \in Slots : slot[i] \in Handles \cup {None}
    BY DEF TypeInv, Types
  <2> QED BY <2>2, <2>3, <2>4 DEF Owned, Filled, Managing
<1>2. CASE \E c \in Callers : Verify(c) \/ VerifyCount(c) \/ VerifyAlert(c)
  <2>1. PICK c \in Callers : Verify(c) \/ VerifyCount(c) \/ VerifyAlert(c)
    BY <1>2
  <2>2. UNCHANGED <<slot, scan, running>>
    BY <2>1 DEF Verify, VerifyCount, VerifyAlert
  <2>3. Frame(c) /\ ~Managing(c)'
    BY <2>1, CallPlaces DEF Managing
  <2>4. ~Managing(c)
    BY <2>1 DEF Managing, Verify, VerifyCount, VerifyAlert, Ready
  <2>5. \A d \in Callers : Managing(d) \/ Managing(d)' => d # c /\ call'[d] = call[d]
    BY <2>3, <2>4 DEF Frame
  <2>6. \A d \in Callers : Managing(d)' <=> Managing(d)
    BY <2>3, <2>4 DEF Frame, Managing
  <2>7. Owned'
    <3>1. \A d \in Callers : call'[d].pc \in {"wait", "set", "clear"} => call'[d] = call[d]
      BY <2>5 DEF Managing
    <3> QED BY <2>2, <2>6, <3>1 DEF Owned
  <2>8. Filled => Filled'
    <3>1. \A d \in Callers :
            call'[d].pc \in {"set", "give up", "create", "join", "wait"} => call'[d] = call[d]
      BY <2>5 DEF Managing
    <3> QED BY <2>2, <2>6, <3>1 DEF Filled
  <2> QED BY <2>7, <2>8
<1>3. CASE UNCHANGED vars
  BY <1>3 DEF vars, Owned, Filled, Managing
<1> QED BY <1>1, <1>2, <1>3

LEMMA OwnedStep ==
  ASSUME TypeInv, Owned, [Next]_vars, races' = 0
  PROVE  /\ Owned'
         /\ ~gaps' /\ Filled => Filled'
<1>1. ~gaps' => ~gaps
  BY HistoriesGrow
<1>2. \/ \E c \in Callers : \/ Begin(c)
                            \/ SetFlag(c) \/ GiveUp(c) \/ ClearFlag(c) \/ Join(c)
                            \/ CreateThread(c) \/ Joined(c)
      \/ \E h \in Handles : ThreadStep(h)
      \/ \E c \in Callers : Verify(c) \/ VerifyCount(c) \/ VerifyAlert(c)
      \/ UNCHANGED vars
  BY DEF Next, CallStep, Begin
<1> QED BY <1>1, <1>2, OwnedBegin, OwnedManage, OwnedCreate, OwnedJoined, OwnedKept

LEMMA OwnedHolds == Spec => [](races = 0 => Owned /\ (~gaps => Filled))
<1> DEFINE I == races = 0 => Owned /\ (~gaps => Filled)
<1>1. Init => I
  <2> SUFFICES ASSUME Init PROVE I
    OBVIOUS
  <2>1. /\ \A h \in Handles : scan[h].pc = "idle"
        /\ \A c \in Callers : call[c].pc = "idle"
        /\ \A i \in Slots : slot[i] = None
    BY DEF Init, NoCall, NoScan
  <2>2. Owned
    BY <2>1 DEF Owned, Managing
  <2>3. Filled
    BY <2>1 DEF Init, Filled, Managing
  <2> QED BY <2>2, <2>3
<1>2. TypeInv /\ I /\ [Next]_vars => I'
  BY OwnedStep, HistoriesGrow
<1> QED BY <1>1, <1>2, TypesHold, PTL DEF Spec

(* The types of the state; unless starts and stops race every slot has a
   thread of its own. *)
THEOREM IntegrityTypes == Spec => []TypeOK
<1>1. TypeInv /\ (races = 0 => Owned /\ (~gaps => Filled)) => TypeOK
  BY TypeInvIsEnough DEF Owned
<1> QED BY <1>1, OwnedHolds, TypesHold, PTL

(* When a stop has returned, no scan thread is left and all are joined,
   unless one could not be made or starts and stops raced. *)
THEOREM StopCorrect == Spec => []StopJoins
<1>1. TypeInv /\ (races = 0 => Owned /\ (~gaps => Filled)) => StopJoins
  BY Small DEF StopJoins, Filled, TypeInv, Types
<1> QED BY <1>1, OwnedHolds, TypesHold, PTL
----
(* The shares of the threads *)

LEMMA Division ==
  ASSUME NEW a \in Nat, NEW n \in Nat, n > 0
  PROVE  /\ a \div n \in Nat /\ a % n \in 0..(n - 1)
         /\ a = n * (a \div n) + (a % n)
<1>1. a % n \in 0..(n - 1)
  OBVIOUS
<1>2. a = n * (a \div n) + (a % n)
  OBVIOUS
<1>3. a \div n \in Int
  OBVIOUS
<1>4. a \div n >= 0
  OBVIOUS
<1> QED BY <1>1, <1>2, <1>3, <1>4

LEMMA Product ==
  ASSUME NEW i \in Nat, NEW j \in Nat, NEW m \in Nat, i <= j
  PROVE  i * m \in Nat /\ i * m <= j * m
<1>1. (j - i) * m >= 0
  OBVIOUS
<1>2. j * m = i * m + (j - i) * m
  OBVIOUS
<1>3. i * m \in Nat
  OBVIOUS
<1> QED BY <1>1, <1>2, <1>3

(* With a block for every thread the shares cover the blocks without gap or
   overlap. *)
LEMMA Shares ==
  ASSUME TypeInv, total >= N
  PROVE  /\ \A i \in Slots : /\ First(i) \in Nat /\ Last(i) \in Nat
                             /\ First(i) <= Last(i) /\ Last(i) < total
         /\ \A i, j \in Slots : i < j => Last(i) < First(j)
         /\ \A b \in Blocks : \E i \in Slots : First(i) <= b /\ b <= Last(i)
         /\ total \in Nat /\ total < Width
<1>1. total \in Nat /\ total < Width /\ Width \in Nat /\ N \in Nat /\ N > 0
  BY Small DEF TypeInv, Types
<1>2. /\ Share \in Nat /\ Share >= 1
      /\ total % N \in Nat /\ total = N * Share + (total % N)
  <2>1. Share \in Nat /\ total % N \in 0..(N - 1) /\ total = N * Share + (total % N)
    BY <1>1, Division DEF Share
  <2>2. Share >= 1
    <3>1. CASE Share <= 0
      <4>1. N * Share <= 0
        BY <1>1, <2>1, <3>1
      <4> QED BY <1>1, <2>1, <4>1
    <3> QED BY <2>1, <3>1
  <2> QED BY <2>1, <2>2
<1>3. \A x \in 0..(Width - 1) : x % Width = x
  BY <1>1
<1>4. ASSUME NEW i \in Slots
      PROVE  /\ i * Share \in Nat /\ (i + 1) * Share = i * Share + Share
             /\ (i + 1) * Share <= N * Share
             /\ First(i) = i * Share
             /\ Last(i) = IF i = N - 1 THEN total - 1 ELSE (i + 1) * Share - 1
  <2>1. i \in Nat /\ i + 1 \in Nat /\ i + 1 <= N
    BY <1>1 DEF Slots
  <2>2. i * Share \in Nat /\ (i + 1) * Share <= N * Share /\ N * Share \in Nat /\ (i + 1) * Share \in Nat
    BY <1>1, <1>2, <2>1, Product
  <2>3. (i + 1) * Share = i * Share + Share
    BY <1>2, <2>1
  <2>4. First(i) = i * Share
    BY <1>1, <1>2, <1>3, <2>2, <2>3 DEF First
  <2>5. CASE i = N - 1
    <3>1. (i + 1) * Share = N * Share
      BY <1>1, <2>5
    <3>2. (i + 1) * Share - 1 + (total % N) = total - 1
      <4> DEFINE p == (i + 1) * Share
                 r == total % N
      <4>1. p \in Nat /\ r \in Nat /\ total = p + r
        BY <1>2, <2>2, <3>1
      <4> HIDE DEF p, r
      <4>2. p - 1 + r = total - 1
        BY <1>1, <4>1
      <4> QED BY <4>2 DEF p, r
    <3>3. Last(i) = (total - 1) % Width
      BY <2>5, <3>2 DEF Last
    <3>4. total - 1 \in 0..(Width - 1)
      BY <1>1
    <3> QED BY <1>3, <2>2, <2>3, <2>4, <2>5, <3>3, <3>4
  <2>6. CASE i # N - 1
    <3>1. Last(i) = ((i + 1) * Share - 1 + 0) % Width
      BY <2>6 DEF Last
    <3>2. (i + 1) * Share - 1 \in 0..(Width - 1) /\ (i + 1) * Share - 1 + 0 = (i + 1) * Share - 1
      BY <1>1, <1>2, <2>2, <2>3
    <3>3. Last(i) = (i + 1) * Share - 1
      BY <1>3, <3>1, <3>2
    <3> QED BY <2>2, <2>3, <2>4, <2>6, <3>3
  <2> QED BY <2>5, <2>6
<1>5. ASSUME NEW i \in Slots
      PROVE  First(i) \in Nat /\ Last(i) \in Nat /\ First(i) <= Last(i) /\ Last(i) < total
  <2>1. N * Share \in Nat /\ N * Share <= total
    BY <1>1, <1>2, Product
  <2> QED BY <1>1, <1>2, <1>4, <2>1
<1>6. ASSUME NEW i \in Slots, NEW j \in Slots, i < j PROVE Last(i) < First(j)
  <2>1. i \in Nat /\ j \in Nat /\ i + 1 <= j /\ i # N - 1
    BY <1>1, <1>6 DEF Slots
  <2>2. (i + 1) * Share <= j * Share
    BY <1>2, <2>1, Product
  <2> QED BY <1>2, <1>4, <2>1, <2>2
<1>7. ASSUME NEW b \in Blocks PROVE \E i \in Slots : First(i) <= b /\ b <= Last(i)
  <2>1. b \in Nat /\ b < total
    BY <1>1 DEF Blocks
  <2>2. N - 1 \in Slots /\ First(N - 1) = (N - 1) * Share /\ Last(N - 1) = total - 1
    BY <1>4, Small
  <2>3. CASE b >= (N - 1) * Share
    BY <1>1, <2>1, <2>2, <2>3
  <2>4. CASE b < (N - 1) * Share
    <3> DEFINE q == b \div Share
    <3>1. q \in Nat /\ b = Share * q + (b % Share) /\ b % Share \in 0..(Share - 1)
      BY <1>2, <2>1, Division
    <3> HIDE DEF q
    <3>2. Share * q = q * Share /\ q * Share \in Nat
      BY <1>2, <3>1
    <3>3. q < N - 1
      <4>1. CASE N - 1 <= q
        <5>1. (N - 1) * Share <= q * Share
          BY <1>1, <1>2, <3>1, <4>1, Product
        <5> DEFINE p == q * Share
                   r == b % Share
                   s == (N - 1) * Share
        <5>2. p \in Nat /\ r \in Nat /\ b = p + r /\ s <= p /\ b < s /\ s \in Nat
          BY <1>1, <1>2, <1>4, <2>2, <2>4, <3>1, <3>2, <5>1
        <5> HIDE DEF p, r, s
        <5> QED BY <5>2
      <4> QED BY <1>1, <3>1, <4>1
    <3>4. q \in Slots
      BY <1>1, <3>1, <3>3 DEF Slots
    <3>5. First(q) = q * Share /\ Last(q) = q * Share + Share - 1
      <4>1. q # N - 1
        BY <3>3, <1>1, <3>1
      <4>2. Last(q) = (q + 1) * Share - 1 /\ (q + 1) * Share = q * Share + Share
        BY <1>4, <3>4, <4>1
      <4>3. First(q) = q * Share
        BY <1>4, <3>4
      <4> DEFINE p == q * Share
                 r == (q + 1) * Share
      <4>4. Last(q) = r - 1 /\ r = p + Share /\ p \in Nat /\ First(q) = p
        BY <3>2, <4>2, <4>3
      <4> HIDE DEF p, r
      <4>5. First(q) = p /\ Last(q) = p + Share - 1
        BY <1>2, <4>4
      <4> QED BY <4>5 DEF p
    <3> QED BY <1>2, <2>1, <3>1, <3>2, <3>4, <3>5
  <2> QED BY <1>1, <2>1, <2>2, <2>3, <2>4, <1>5
<1> QED BY <1>1, <1>5, <1>6, <1>7

----
(* A scan verifies every block once *)

(* Of the share of slot i exactly the blocks before n have been verified. *)
DoneTo(i, n) ==
  \A b \in Blocks : First(i) <= b /\ b <= Last(i) => (b \in seen <=> b < n)

(* What the thread of slot i has done and has yet to do.  A thread that ends
   while the scan runs has done its share. *)
Swept(i, h) ==
  /\ Live(h) => /\ scan[h].last = Last(i)
                /\ First(i) <= scan[h].at /\ scan[h].at <= Last(i) + 1
                /\ scan[h].pc # "scan" => scan[h].at <= Last(i)
                /\ DoneTo(i, scan[h].at)
  /\ ~Live(h) /\ running => DoneTo(i, Last(i) + 1)

(* A slot that has no thread yet waits for a start to make one. *)
SweepInv ==
  /\ \A i \in Slots, h \in Handles : slot[i] = h => Swept(i, h)
  /\ \A c \in Callers : call[c].pc = "create" =>
       \A i \in Slots : slot[i] = None => DoneTo(i, First(i))

LEMMA SharesKept ==
  ASSUME total' = total
  PROVE  Blocks' = Blocks /\ \A i \in Slots : First(i)' = First(i) /\ Last(i)' = Last(i)
<1>1. Share' = Share
  BY DEF Share
<1> QED BY <1>1 DEF Blocks, First, Last

(* A step of another thread leaves a share as it is. *)
LEMMA SweptKept ==
  ASSUME NEW i \in Slots, NEW h \in Handles, Swept(i, h),
         total' = total, running' => running, scan'[h] = scan[h],
         \A b \in Blocks : First(i) <= b /\ b <= Last(i) => (b \in seen' <=> b \in seen)
  PROVE  Swept(i, h)'
<1>1. First(i)' = First(i) /\ Last(i)' = Last(i) /\ Blocks' = Blocks
  BY SharesKept
<1>2. Live(h)' <=> Live(h)
  BY DEF Live
<1>4. DoneTo(i, scan[h].at) => DoneTo(i, scan[h].at)'
  BY <1>1 DEF DoneTo
<1>5. DoneTo(i, Last(i) + 1) => DoneTo(i, Last(i) + 1)'
  BY <1>1 DEF DoneTo
<1> QED BY <1>1, <1>2, <1>4, <1>5 DEF Swept

LEMMA UntouchedKept ==
  ASSUME NEW i \in Slots, total' = total, DoneTo(i, First(i)),
         \A b \in Blocks : First(i) <= b /\ b <= Last(i) => (b \in seen' <=> b \in seen)
  PROVE  DoneTo(i, First(i))'
<1>1. First(i)' = First(i) /\ Last(i)' = Last(i) /\ Blocks' = Blocks
  BY SharesKept
<1> QED BY <1>1 DEF DoneTo

(* Steps that neither make, join nor move a thread. *)
LEMMA SweepIdle ==
  ASSUME SweepInv, UNCHANGED <<total, slot, scan, seen>>, running' => running,
         \A c \in Callers : call'[c].pc = "create" => call[c].pc = "create"
  PROVE  SweepInv'
<1>1. ASSUME NEW i \in Slots, NEW h \in Handles, slot'[i] = h PROVE Swept(i, h)'
  <2>1. Swept(i, h)
    BY <1>1 DEF SweepInv
  <2> QED BY <2>1, SweptKept
<1>2. ASSUME NEW c \in Callers, call'[c].pc = "create", NEW i \in Slots, slot'[i] = None
      PROVE  DoneTo(i, First(i))'
  <2>1. DoneTo(i, First(i))
    BY <1>2 DEF SweepInv
  <2> QED BY <2>1, UntouchedKept
<1> QED BY <1>1, <1>2 DEF SweepInv

LEMMA SweepSetFlag ==
  ASSUME TypeInv, Filled, total >= N, NEW c \in Callers, SetFlag(c)
  PROVE  SweepInv'
<1>1. UNCHANGED <<total, slot>> /\ seen' = {} /\ call[c].pc = "set"
  BY DEF SetFlag
<1>2. \A i \in Slots : slot'[i] \notin Handles
  BY <1>1, Small DEF Filled
<1>3. \A i \in Slots : DoneTo(i, First(i))'
  <2>1. \A i \in Slots : First(i)' = First(i) /\ First(i) \in Nat
    BY <1>1, SharesKept, Shares
  <2>2. Blocks' \subseteq Int
    BY Small DEF Blocks, TypeInv, Types
  <2> QED BY <1>1, <2>1, <2>2 DEF DoneTo
<1> QED BY <1>2, <1>3 DEF SweepInv

LEMMA SweepCreate ==
  ASSUME TypeInv, Owned, Filled, SweepInv, total >= N, NEW c \in Callers, CreateThread(c)
  PROVE  SweepInv'
<1>1. call[c].pc = "create" /\ call[c].at \in Slots /\ UNCHANGED <<total, running, seen>> /\ Frame(c)
  BY CallPlaces, Numbers DEF CreateThread, TypeInv, Types
<1>2. PICK h \in Handles : /\ scan[h].pc = "idle"
                          /\ slot' = [slot EXCEPT ![call[c].at] = h]
                          /\ Others(h) /\ scan'[h].pc = "scan"
                          /\ scan'[h].at = First(call[c].at) /\ scan'[h].last = Last(call[c].at)
  BY ScanPlaces
<1>3. slot'[call[c].at] = h /\ \A i \in Slots \ {call[c].at} : slot'[i] = slot[i]
  BY <1>1, <1>2 DEF TypeInv, Types
<1>4. \A i \in Slots : slot[i] # h
  BY <1>2, Small DEF Owned
<1>5. slot[call[c].at] = None
  <2>1. \A i \in Slots : slot[i] # None <=> i < call[c].at
    BY <1>1 DEF Filled
  <2> QED BY <1>1, <2>1 DEF Slots
<1>6. ASSUME NEW i \in Slots, NEW g \in Handles, slot'[i] = g PROVE Swept(i, g)'
  <2>1. CASE i # call[c].at
    <3>1. slot[i] = g /\ g # h
      BY <1>3, <1>4, <1>6, <2>1
    <3>2. Swept(i, g) /\ scan'[g] = scan[g]
      BY <1>2, <3>1 DEF SweepInv, Others
    <3> QED BY <1>1, <3>2, SweptKept
  <2>2. CASE i = call[c].at
    <3>1. g = h /\ Live(g)'
      BY <1>2, <1>3, <1>6, <2>2 DEF Live
    <3>2. scan'[g].at = First(i)' /\ scan'[g].last = Last(i)' /\ scan'[g].pc = "scan"
      BY <1>1, <1>2, <2>2, <3>1, SharesKept
    <3>3. First(i)' <= Last(i)' + 1 /\ First(i)' \in Nat
      BY <1>1, SharesKept, Shares
    <3>4. DoneTo(i, First(i))'
      <4>1. DoneTo(i, First(i))
        BY <1>1, <1>5, <2>2 DEF SweepInv
      <4> QED BY <1>1, <4>1, UntouchedKept
    <3>5. DoneTo(i, scan[g].at)'
      BY <3>2, <3>4 DEF DoneTo
    <3> QED BY <3>1, <3>2, <3>3, <3>5 DEF Swept
  <2> QED BY <2>1, <2>2
<1>7. ASSUME NEW d \in Callers, call'[d].pc = "create", NEW i \in Slots, slot'[i] = None
      PROVE  DoneTo(i, First(i))'
  <2>1. slot[i] = None
    BY <1>2, <1>3, <1>7, Small
  <2>2. DoneTo(i, First(i))
    BY <1>1, <2>1 DEF SweepInv
  <2> QED BY <1>1, <2>2, UntouchedKept
<1> QED BY <1>6, <1>7 DEF SweepInv

LEMMA SweepJoined ==
  ASSUME TypeInv, Owned, SweepInv, NEW c \in Callers, Joined(c)
  PROVE  SweepInv'
<1>1. /\ call[c].pc = "wait" /\ call[c].at \in Slots /\ UNCHANGED <<total, running, seen>>
      /\ Frame(c) /\ call'[c].pc # "create"
  BY CallPlaces, Numbers DEF Joined, TypeInv, Types
<1>2. LET h == call[c].thread
      IN  h \in Handles /\ Others(h) /\ slot[call[c].at] = h /\ h # None
  BY <1>1, ScanPlaces, Small DEF Owned
<1>3. slot'[call[c].at] = None /\ \A i \in Slots \ {call[c].at} : slot'[i] = slot[i]
  BY <1>1 DEF Joined, TypeInv, Types
<1>4. \A i \in Slots \ {call[c].at} : slot[i] # call[c].thread
  BY <1>1, <1>2 DEF Owned
<1>5. ASSUME NEW i \in Slots, NEW g \in Handles, slot'[i] = g PROVE Swept(i, g)'
  <2>1. slot[i] = g /\ g # call[c].thread
    BY <1>3, <1>4, <1>5, Small
  <2>2. Swept(i, g) /\ scan'[g] = scan[g]
    BY <1>2, <2>1 DEF SweepInv, Others
  <2> QED BY <1>1, <2>2, SweptKept
<1>6. \A d \in Callers : call'[d].pc # "create"
  BY <1>1 DEF Owned, Managing, Frame
<1> QED BY <1>5, <1>6 DEF SweepInv

(* The thread of slot j verifies the next block of its share or ends. *)
LEMMA SweepThread ==
  ASSUME TypeInv, Owned, Filled, SweepInv, total >= N, NEW h \in Handles, ThreadStep(h)
  PROVE  SweepInv'
<1>1. UNCHANGED <<total, slot, running, call>> /\ Others(h)
  BY ScanPlaces DEF ThreadStep, ScanBlock, CountBlock, AlertBlock
<1>2. PICK j \in Slots : slot[j] = h
  BY ScanPlaces DEF Filled
<1>3. /\ Live(h) /\ scan[h].last = Last(j)
      /\ First(j) <= scan[h].at /\ scan[h].at <= Last(j) + 1
      /\ scan[h].pc # "scan" => scan[h].at <= Last(j)
      /\ DoneTo(j, scan[h].at)
  <2>1. Live(h)
    BY DEF ThreadStep, ScanBlock, CountBlock, AlertBlock, Live
  <2> QED BY <1>2, <2>1 DEF SweepInv, Swept
<1>4. scan[h].at \in Nat
  BY Numbers DEF TypeInv, Types
<1>5. /\ First(j)' = First(j) /\ Last(j)' = Last(j) /\ Blocks' = Blocks
      /\ First(j) \in Nat /\ Last(j) \in Nat /\ Last(j) < total /\ total < Width
      /\ total \in Nat /\ Width \in Nat
  BY <1>1, SharesKept, Shares, Small
<1>6. ASSUME NEW i \in Slots, i # j, scan[h].at <= Last(j)
      PROVE  ~(First(i) <= scan[h].at /\ scan[h].at <= Last(i))
  <2>1. i < j \/ j < i
    BY <1>6 DEF Slots
  <2>2. First(i) \in Nat /\ Last(i) \in Nat /\ (Last(i) < First(j) \/ Last(j) < First(i))
    BY <2>1, Shares
  <2> QED BY <1>3, <1>4, <1>5, <1>6, <2>2
<1>7. \/ /\ ~Live(h)' /\ UNCHANGED seen
         /\ scan[h].at > Last(j) \/ ~running
      \/ /\ scan'[h].pc \in {"count", "alert"} /\ UNCHANGED seen
         /\ scan'[h].at = scan[h].at /\ scan'[h].last = Last(j)
         /\ scan[h].at <= Last(j)
      \/ /\ scan'[h].pc = "scan" /\ scan'[h].last = Last(j)
         /\ scan'[h].at = scan[h].at + 1 /\ scan[h].at <= Last(j)
         /\ seen' = seen \cup {scan[h].at}
  <2>1. CASE ScanBlock(h) /\ scan'[h].pc = "ended"
    <3>1. (scan[h].at > scan[h].last \/ ~running) /\ UNCHANGED seen
      BY <2>1, ScanPlaces DEF Advances
    <3> QED BY <1>3, <2>1, <3>1 DEF Live
  <2>2. CASE ScanBlock(h) /\ scan'[h].pc = "count"
    <3>1. /\ scan[h].at <= scan[h].last /\ UNCHANGED seen
          /\ scan'[h].at = scan[h].at /\ scan'[h].last = scan[h].last
      BY <2>2, ScanPlaces DEF Advances
    <3> QED BY <1>3, <2>2, <3>1
  <2>3. CASE CountBlock(h)
    <3>1. scan'[h].pc = "alert" /\ scan'[h].at = scan[h].at /\ scan'[h].last = scan[h].last
      BY <2>3, ScanPlaces
    <3>2. scan[h].pc = "count" /\ UNCHANGED seen
      BY <2>3 DEF CountBlock
    <3> QED BY <1>3, <3>1, <3>2
  <2>4. ASSUME Advances(h), seen' = seen \cup ({scan[h].at} \cap Blocks), scan[h].at <= Last(j)
        PROVE  /\ scan'[h].pc = "scan" /\ scan'[h].last = Last(j)
               /\ scan'[h].at = scan[h].at + 1 /\ scan[h].at <= Last(j)
               /\ seen' = seen \cup {scan[h].at}
    <3>1. scan[h].at + 1 \in 0..(Width - 1)
      BY <1>4, <1>5, <2>4
    <3>2. \A x \in 0..(Width - 1) : x % Width = x
      BY <1>5
    <3>3. scan[h].at \in Blocks
      BY <1>4, <1>5, <2>4 DEF Blocks
    <3> QED BY <1>3, <2>4, <3>1, <3>2, <3>3 DEF Advances
  <2>5. CASE ScanBlock(h) /\ scan'[h].pc \notin {"ended", "count"}
    <3>1. /\ Advances(h) /\ seen' = seen \cup ({scan[h].at} \cap Blocks)
          /\ scan[h].at <= scan[h].last
      BY <2>5, ScanPlaces
    <3> QED BY <1>3, <2>4, <3>1
  <2>6. CASE AlertBlock(h)
    <3>1. Advances(h) /\ seen' = seen \cup ({scan[h].at} \cap Blocks) /\ scan[h].pc = "alert"
      BY <2>6, ScanPlaces DEF AlertBlock
    <3> QED BY <1>3, <2>4, <3>1
  <2> QED BY <2>1, <2>2, <2>3, <2>5, <2>6 DEF ThreadStep
<1>8. ASSUME NEW i \in Slots, i # j
      PROVE  \A b \in Blocks : First(i) <= b /\ b <= Last(i) => (b \in seen' <=> b \in seen)
  BY <1>6, <1>7, <1>8
<1>9. Swept(j, h)'
  <2>1. Blocks \subseteq Int
    BY <1>5 DEF Blocks
  <2>2. CASE ~Live(h)' /\ UNCHANGED seen /\ (scan[h].at > Last(j) \/ ~running)
    <3>1. running => DoneTo(j, Last(j) + 1)'
      BY <1>3, <1>4, <1>5, <2>1, <2>2 DEF DoneTo
    <3> QED BY <1>1, <2>2, <3>1 DEF Swept
  <2>3. CASE /\ scan'[h].pc \in {"count", "alert"} /\ UNCHANGED seen
             /\ scan'[h].at = scan[h].at /\ scan'[h].last = Last(j)
             /\ scan[h].at <= Last(j)
    <3>1. DoneTo(j, scan[h].at)'
      BY <1>3, <1>5, <2>3 DEF DoneTo
    <3> QED BY <1>3, <1>4, <1>5, <2>3, <3>1 DEF Swept, Live
  <2>4. CASE /\ scan'[h].pc = "scan" /\ scan'[h].last = Last(j)
             /\ scan'[h].at = scan[h].at + 1 /\ scan[h].at <= Last(j)
             /\ seen' = seen \cup {scan[h].at}
    <3>1. ASSUME NEW b \in Blocks, First(j) <= b, b <= Last(j)
          PROVE  b \in seen' <=> b < scan[h].at + 1
      <4>1. b \in seen <=> b < scan[h].at
        BY <1>3, <3>1 DEF DoneTo
      <4>2. b < scan[h].at + 1 <=> b < scan[h].at \/ b = scan[h].at
        BY <1>4, <2>1
      <4> QED BY <2>4, <4>1, <4>2
    <3>2. DoneTo(j, scan[h].at)'
      BY <1>5, <2>4, <3>1 DEF DoneTo
    <3> QED BY <1>3, <1>4, <1>5, <2>4, <3>2 DEF Swept, Live
  <2> QED BY <1>7, <2>2, <2>3, <2>4
<1>10. ASSUME NEW i \in Slots, NEW g \in Handles, slot'[i] = g PROVE Swept(i, g)'
  <2>1. CASE i = j
    BY <1>1, <1>2, <1>9, <1>10, <2>1
  <2>2. CASE i # j
    <3>1. slot[i] = g /\ g # h
      BY <1>1, <1>2, <1>10, <2>2, Small DEF Owned
    <3>2. Swept(i, g) /\ scan'[g] = scan[g]
      BY <1>1, <3>1 DEF SweepInv, Others
    <3> QED BY <1>1, <1>8, <2>2, <3>2, SweptKept
  <2> QED BY <2>1, <2>2
<1>11. ASSUME NEW d \in Callers, call'[d].pc = "create", NEW i \in Slots, slot'[i] = None
      PROVE  DoneTo(i, First(i))'
  <2>1. DoneTo(i, First(i)) /\ i # j
    BY <1>1, <1>2, <1>11, Small DEF SweepInv
  <2> QED BY <1>1, <1>8, <2>1, UntouchedKept
<1> QED BY <1>10, <1>11 DEF SweepInv

LEMMA SweepStep ==
  ASSUME TypeInv, Owned, Filled, SweepInv, total >= N, [Next]_vars, races' = 0, ~gaps'
  PROVE  SweepInv'
<1>1. CASE \E c \in Callers : Begin(c) \/ ClearFlag(c) \/ Join(c) \/ Verify(c) \/ VerifyCount(c) \/ VerifyAlert(c)
  <2>1. PICK c \in Callers : Begin(c) \/ ClearFlag(c) \/ Join(c) \/ Verify(c) \/ VerifyCount(c) \/ VerifyAlert(c)
    BY <1>1
  <2>2. UNCHANGED <<total, slot, scan, seen>> /\ (running' => running)
    BY <2>1 DEF Begin, Start, Stop, Destroy, ClearFlag, Join, Verify, VerifyCount, VerifyAlert
  <2>3. Frame(c) /\ call'[c].pc # "create"
    BY <2>1, CallPlaces DEF Begin
  <2> QED BY <2>2, <2>3, SweepIdle DEF Frame
<1>2. CASE UNCHANGED vars
  BY <1>2, SweepIdle DEF vars
<1>3. CASE \E c \in Callers : SetFlag(c) \/ CreateThread(c) \/ Joined(c)
  BY <1>3, SweepSetFlag, SweepCreate, SweepJoined
<1>4. CASE \E h \in Handles : ThreadStep(h)
  BY <1>4, SweepThread
<1>5. \A c \in Callers : ~GiveUp(c)
  BY DEF GiveUp
<1> QED BY <1>1, <1>2, <1>3, <1>4, <1>5 DEF Next, CallStep, Begin

LEMMA SweepHolds == Spec => [](races = 0 /\ ~gaps /\ total >= N => SweepInv)
<1> DEFINE I == races = 0 /\ ~gaps /\ total >= N => SweepInv
           O == races = 0 => Owned /\ (~gaps => Filled)
<1>1. Init => I
  <2> SUFFICES ASSUME Init PROVE SweepInv
    OBVIOUS
  <2>1. \A i \in Slots : slot[i] = None
    BY DEF Init
  <2>2. \A c \in Callers : call[c].pc = "idle"
    BY DEF Init, NoCall
  <2> QED BY <2>1, <2>2, Small DEF SweepInv
<1>2. TypeInv /\ O /\ I /\ [Next]_vars => I'
  BY HistoriesGrow, SweepStep
<1>3. Spec => []O
  BY OwnedHolds
<1> QED BY <1>1, <1>2, <1>3, TypesHold, PTL DEF Spec

(* A scan verifies every block once, if there is a block for every thread,
   every thread could be made and no starts and stops raced. *)
THEOREM SweepCorrect == Spec => []Sweep
<1> DEFINE O == races = 0 => Owned /\ (~gaps => Filled)
           I == races = 0 /\ ~gaps /\ total >= N => SweepInv
<1>1. TypeInv /\ O /\ I => Sweep
  <2> SUFFICES ASSUME TypeInv, O, I, total >= N, races = 0, ~gaps
               PROVE  Sweep
    BY DEF Sweep
  <2>1. Owned /\ Filled /\ SweepInv
    OBVIOUS
  <2>2. Blocks \subseteq Int /\ \A h \in Handles : scan[h].at \in Nat /\ scan[h].last \in Nat
    BY Small, Numbers, Shares DEF Blocks, TypeInv, Types
  <2>3. \A h \in Handles : Live(h) =>
          \E i \in Slots : /\ slot[i] = h /\ scan[h].last = Last(i)
                           /\ First(i) <= scan[h].at /\ DoneTo(i, scan[h].at)
    BY <2>1 DEF Filled, SweepInv, Swept, Live
  <2>4. ASSUME NEW h \in Handles, Live(h)
        PROVE  (scan[h].at)..(scan[h].last) \subseteq Blocks \ seen
    <3>1. PICK i \in Slots : /\ scan[h].last = Last(i) /\ First(i) <= scan[h].at
                            /\ DoneTo(i, scan[h].at)
      BY <2>3, <2>4
    <3>2. First(i) \in Nat /\ Last(i) < total /\ total \in Nat
      BY Shares
    <3> SUFFICES ASSUME NEW b \in (scan[h].at)..(scan[h].last)
                 PROVE  b \in Blocks \ seen
      OBVIOUS
    <3>3. b \in Blocks /\ First(i) <= b /\ b <= Last(i) /\ ~(b < scan[h].at)
      BY <2>2, <3>1, <3>2 DEF Blocks
    <3> QED BY <3>1, <3>3 DEF DoneTo
  <2>5. ASSUME NEW h \in Handles, Live(h), NEW g \in Handles \ {h}, Live(g)
        PROVE  scan[g].last < scan[h].at \/ scan[h].last < scan[g].at
    <3>1. PICK i \in Slots : slot[i] = h /\ scan[h].last = Last(i) /\ First(i) <= scan[h].at
      BY <2>3, <2>5
    <3>2. PICK j \in Slots : slot[j] = g /\ scan[g].last = Last(j) /\ First(j) <= scan[g].at
      BY <2>3, <2>5
    <3>3. i < j \/ j < i
      BY <2>5, <3>1, <3>2 DEF Slots
    <3>4. Last(i) < First(j) \/ Last(j) < First(i)
      BY <3>3, Shares
    <3>5. First(i) \in Nat /\ First(j) \in Nat
      BY Shares
    <3> QED BY <2>2, <3>1, <3>2, <3>4, <3>5
  <2>6. ASSUME running, ~(\E c \in Callers : Managing(c)), ~(\E h \in Handles : Live(h))
        PROVE  seen = Blocks
    <3>1. seen \subseteq Blocks
      BY DEF TypeInv, Types
    <3>2. ASSUME NEW b \in Blocks PROVE b \in seen
      <4>1. PICK i \in Slots : First(i) <= b /\ b <= Last(i)
        BY Shares
      <4>2. slot[i] # None
        BY <2>1, <2>6 DEF Filled
      <4>3. slot[i] \in Handles
        BY <4>2 DEF TypeInv, Types
      <4>4. DoneTo(i, Last(i) + 1)
        BY <2>1, <2>6, <4>3 DEF SweepInv, Swept
      <4>5. b < Last(i) + 1
        BY <2>2, <4>1, Shares
      <4> QED BY <4>1, <4>4, <4>5 DEF DoneTo
    <3> QED BY <3>1, <3>2
  <2> QED BY <2>4, <2>5, <2>6 DEF Sweep
<1>2. Spec => []O
  BY OwnedHolds
<1>3. Spec => []I
  BY SweepHolds
<1> QED BY <1>1, <1>2, <1>3, TypesHold, PTL
====
