----------------------------- MODULE BdRxProofs -----------------------------
(***************************************************************************)
(* For rings and pools of any size: the receive ring hands over the frames *)
(* in order and intact, and shares no mbuf with the stack.                 *)
(***************************************************************************)
EXTENDS BdRx, TLAPS

-----------------------------------------------------------------------------
(* What the task holds between two BDs and within one. *)
TaskInv ==
    /\ pc \in {"input", "refill", "status"} =>
          ~empty[current] /\ status.wrap = wrap[current]
    /\ new # None <=> pc \in {"status", "buffer"}

(* The buffer pointers differ, those that are about to be replaced, too. *)
BufInv == \A i, j \in Slot : buf[i] = buf[j] => i = j

(***************************************************************************)
(* A fetched BD is still empty.  Unless it was fetched late, its buffer is *)
(* still the fetched one; and no closed BD has this one for its own.       *)
(***************************************************************************)
FetchInv ==
    /\ fetched # None =>
         /\ empty[hw]
         /\ hw \notin late => fetched = buf[hw] /\ ~(pc = "buffer" /\ hw = current)
         /\ \A i \in Holders : ~empty[i] => arg[i] # fetched
    /\ pc = "buffer" /\ ~empty[current] => current \in late

FrameInv == \A i \in Slot : frame[i] <= arrived

RxInv ==
    /\ TypeOK
    /\ ClosedInOrder
    /\ MbufsOwnedOnce
    /\ InputIntact
    /\ TaskInv
    /\ BufInv
    /\ FetchInv
    /\ FrameInv

-----------------------------------------------------------------------------
(* Distances in the ring. *)
LEMMA SuccType == ASSUME NEW i \in Slot PROVE Succ(i) \in Slot
  BY NAssumption DEF Succ, Slot

LEMMA DistType == ASSUME NEW a \in Slot, NEW b \in Slot PROVE Dist(a, b) \in Slot
  BY NAssumption DEF Dist, Slot

LEMMA DistInj ==
  ASSUME NEW a \in Slot, NEW b \in Slot, NEW c \in Slot, Dist(a, b) = Dist(a, c)
  PROVE  b = c
  BY NAssumption DEF Dist, Slot

(* The BD before the oldest one is the last one. *)
LEMMA DistSucc ==
  ASSUME NEW a \in Slot, NEW b \in Slot
  PROVE  /\ a = b => Dist(a, b) = 0 /\ Dist(Succ(a), b) = N - 1
         /\ a # b => Dist(a, b) > 0 /\ Dist(Succ(a), b) = Dist(a, b) - 1
  BY NAssumption DEF Dist, Succ, Slot

LEMMA OldestType == ASSUME TypeOK PROVE Oldest \in Slot
  BY SuccType DEF Oldest, TypeOK

-----------------------------------------------------------------------------
LEMMA RxInit == Init => RxInv
<1> SUFFICES ASSUME Init PROVE RxInv
  OBVIOUS
<1> USE NAssumption, MbufAssumption, BoundAssumption DEF Init
<1>1. TypeOK
  BY DEF TypeOK, NoStatus, Slot
<1>2. ClosedInOrder
  BY DEF ClosedInOrder, Oldest, Dist, Slot
<1>3. Holders = Slot /\ Driver = {arg[i] : i \in Slot}
  BY DEF Holders, Driver
<1>4. MbufsOwnedOnce
  BY <1>3 DEF MbufsOwnedOnce, Slot
<1>5. InputIntact /\ FetchInv
  BY <1>3 DEF InputIntact, FetchInv
<1>6. TaskInv /\ BufInv /\ FrameInv
  BY DEF TaskInv, BufInv, FrameInv
<1> QED
  BY <1>1, <1>2, <1>4, <1>5, <1>6 DEF RxInv

(* The task goes on in its turn, and the BDs stay as they are. *)
LEMMA WaitStep == ASSUME RxInv, Wait PROVE RxInv'
<1> USE MbufAssumption DEF Wait, bds, controller
<1>1. TypeOK'
  BY DEF RxInv, TypeOK
<1>2. ClosedInOrder'
  BY DEF RxInv, ClosedInOrder, Oldest, Dist
<1>3. Holders = Slot /\ Holders' \subseteq Slot /\ (pc' = "status" => Holders' = Slot \ {current})
  BY DEF Holders
<1>4. current \in Slot /\ arg \in [Slot -> Mbuf] /\ new = None
  BY DEF RxInv, TypeOK, TaskInv
<1>5. MbufsOwnedOnce'
  <2>1. Driver' \subseteq Driver
    BY <1>3, <1>4 DEF Driver
  <2>2. \A i \in Holders' : arg'[i] # new'
    BY <1>3, <1>4 DEF RxInv, MbufsOwnedOnce
  <2> QED
    BY <1>3, <2>1, <2>2 DEF RxInv, MbufsOwnedOnce
<1>6. InputIntact' /\ BufInv' /\ FrameInv'
  BY <1>3 DEF RxInv, InputIntact, BufInv, FrameInv
<1>7. TaskInv'
  BY <1>4 DEF RxInv, TaskInv
<1>8. FetchInv'
  BY <1>3 DEF RxInv, FetchInv
<1> QED
  BY <1>1, <1>2, <1>5, <1>6, <1>7, <1>8 DEF RxInv

LEMMA InputStep == ASSUME RxInv, Input PROVE RxInv'
<1> USE MbufAssumption DEF Input, bds, controller
<1>1. TypeOK'
  BY DEF RxInv, TypeOK
<1>2. ClosedInOrder'
  BY DEF RxInv, ClosedInOrder, Oldest, Dist
<1>3. Holders = Slot /\ Holders' = Slot \ {current}
  BY DEF Holders
<1>4. current \in Slot /\ arg \in [Slot -> Mbuf] /\ new = None
  BY DEF RxInv, TypeOK, TaskInv
<1>5. MbufsOwnedOnce'
  <2>1. Driver' \subseteq Driver /\ arg[current] \notin Driver'
    BY <1>3, <1>4 DEF Driver, RxInv, MbufsOwnedOnce
  <2> QED
    BY <1>3, <2>1 DEF RxInv, MbufsOwnedOnce
<1>6. InputIntact' /\ BufInv' /\ FrameInv' /\ TaskInv'
  BY <1>3 DEF RxInv, InputIntact, BufInv, FrameInv, TaskInv
<1>7. FetchInv'
  BY <1>3 DEF RxInv, FetchInv
<1> QED
  BY <1>1, <1>2, <1>5, <1>6, <1>7 DEF RxInv

LEMMA RefillStep == ASSUME RxInv, NEW m \in Mbuf, Refill(m) PROVE RxInv'
<1> USE MbufAssumption DEF Refill, bds, controller
<1>1. TypeOK'
  BY DEF RxInv, TypeOK
<1>2. ClosedInOrder'
  BY DEF RxInv, ClosedInOrder, Oldest, Dist
<1>3. Holders' = Holders /\ Driver' \subseteq Driver \union {m}
  BY DEF Holders, Driver
<1>4. MbufsOwnedOnce'
  <2>1. \A i \in Holders : arg[i] # m
    BY DEF Driver
  <2> QED
    BY <1>3, <2>1 DEF RxInv, MbufsOwnedOnce
<1>5. InputIntact' /\ BufInv' /\ FrameInv' /\ TaskInv'
  BY <1>3 DEF RxInv, InputIntact, BufInv, FrameInv, TaskInv
<1>6. FetchInv'
  BY <1>3 DEF RxInv, FetchInv
<1> QED
  BY <1>1, <1>2, <1>4, <1>5, <1>6 DEF RxInv

(* The BD is given back, and is no longer the oldest one. *)
LEMMA StoreStatusStep == ASSUME RxInv, StoreStatus PROVE RxInv'
<1> USE MbufAssumption DEF StoreStatus, controller
<1>1. /\ current \in Slot /\ hw \in Slot /\ empty \in [Slot -> BOOLEAN]
      /\ ~empty[current] /\ status.wrap = wrap[current]
  BY DEF RxInv, TypeOK, TaskInv
<1>2. wrap' = wrap
  BY <1>1 DEF RxInv, TypeOK
<1>3. TypeOK'
  BY <1>1, <1>2 DEF RxInv, TypeOK
<1>4. /\ Oldest = current /\ Oldest' = Succ(current)
      /\ empty' = [empty EXCEPT ![current] = TRUE] /\ frame' = frame /\ hw' = hw
  BY DEF Oldest
<1>5. ClosedInOrder'
  <2> DEFINE old(b) == Dist(current, b)
             now(b) == Dist(Succ(current), b)
  <2>1. \A b \in Slot : /\ old(b) \in 0..(N - 1) /\ now(b) \in 0..(N - 1)
                        /\ b = current => old(b) = 0 /\ now(b) = N - 1
                        /\ b # current => old(b) > 0 /\ now(b) = old(b) - 1
    BY <1>1, DistType, DistSucc, SuccType DEF Slot
  <2>2. \A i \in Slot : ~empty[i] <=> old(i) < old(hw) \/ hw = current
    BY <1>1, <1>4 DEF RxInv, ClosedInOrder
  <2>3. \A i, j \in Slot : ~empty[j] /\ old(i) < old(j) => frame[i] < frame[j]
    BY <1>4 DEF RxInv, ClosedInOrder
  <2>4. ASSUME NEW i \in Slot
        PROVE  ~empty'[i] <=> now(i) < now(hw) \/ (hw = Succ(current) /\ ~empty'[hw])
    <3> HIDE DEF old, now
    <3>1. ~empty'[hw] => FALSE
      BY <1>1, <1>4, <2>1, <2>2
    <3>2. CASE i = current
      BY <1>1, <1>4, <2>1, <3>1, <3>2, NAssumption
    <3>3. CASE i # current
      BY <1>1, <1>4, <2>1, <2>2, <3>1, <3>3, NAssumption
    <3> QED
      BY <3>2, <3>3
  <2>5. ASSUME NEW i \in Slot, NEW j \in Slot, ~empty'[j], now(i) < now(j)
        PROVE  frame[i] < frame[j]
    <3> HIDE DEF old, now
    <3>1. j # current /\ i # current /\ ~empty[j]
      BY <1>1, <1>4, <2>1, <2>5, NAssumption
    <3> QED
      BY <2>1, <2>3, <2>5, <3>1, NAssumption
  <2> QED
    BY <1>4, <2>4, <2>5 DEF ClosedInOrder, Dist
<1>6. Holders' = Holders /\ Driver' = Driver
  BY DEF Holders, Driver
<1>7. MbufsOwnedOnce' /\ BufInv' /\ FrameInv'
  BY <1>6 DEF RxInv, MbufsOwnedOnce, BufInv, FrameInv
<1>8. InputIntact'
  BY <1>1, <1>6 DEF RxInv, InputIntact, Holders
<1>9. TaskInv'
  BY DEF RxInv, TaskInv
<1>10. FetchInv'
  BY <1>1, <1>6 DEF RxInv, FetchInv, Holders
<1> QED
  BY <1>3, <1>5, <1>7, <1>8, <1>9, <1>10 DEF RxInv

(* The BD has its new mbuf, and the turn is over. *)
LEMMA StoreBufferStep == ASSUME RxInv, StoreBuffer PROVE RxInv'
<1> USE MbufAssumption DEF StoreBuffer, controller
<1>1. /\ current \in Slot /\ hw \in Slot /\ new \in Mbuf
      /\ buf \in [Slot -> Mbuf] /\ arg \in [Slot -> Mbuf]
  BY DEF RxInv, TypeOK, TaskInv
<1>2. TypeOK'
  BY <1>1, SuccType DEF RxInv, TypeOK, NoStatus
<1>3. Oldest' = Oldest
  BY DEF Oldest
<1>4. ClosedInOrder'
  BY <1>3 DEF RxInv, ClosedInOrder, Dist
<1>5. Holders = Slot \ {current} /\ Holders' = Slot
  BY DEF Holders
<1>6. \A i \in Slot \ {current} : arg[i] # new /\ arg[i] = buf[i]
  BY <1>5 DEF RxInv, MbufsOwnedOnce
<1>7. BufInv'
  BY <1>1, <1>6 DEF RxInv, BufInv
<1>8. MbufsOwnedOnce'
  <2>1. Driver' \subseteq Driver
    BY <1>1, <1>5 DEF Driver
  <2>2. \A i \in Slot : arg'[i] = buf'[i] /\ arg'[i] \in Mbuf
    BY <1>1, <1>6
  <2>3. \A i, j \in Slot : arg'[i] = arg'[j] => i = j
    BY <1>7, <2>2 DEF BufInv
  <2> QED
    BY <1>5, <2>1, <2>2, <2>3 DEF RxInv, MbufsOwnedOnce
<1>9. InputIntact'
  BY <1>1, <1>5 DEF RxInv, InputIntact, FetchInv
<1>10. TaskInv' /\ FrameInv'
  BY DEF RxInv, TaskInv, FrameInv
<1>11. FetchInv'
  <2>1. ~empty[current] => ~empty[hw]
    <3> DEFINE now(b) == Dist(Succ(current), b)
    <3>1. now(current) = N - 1 /\ now(hw) \in 0..(N - 1)
      BY <1>1, DistSucc, DistType, SuccType DEF Slot
    <3>2. ~empty[current] => now(current) < now(hw) \/ ~empty[hw]
      BY <1>1 DEF RxInv, ClosedInOrder, Oldest
    <3> HIDE DEF now
    <3> QED
      BY <3>1, <3>2, NAssumption
  <2>2. fetched # None => empty[hw] /\ (hw \notin late => fetched = buf[hw] /\ hw # current)
    BY DEF RxInv, FetchInv
  <2>3. fetched # None => \A i \in Slot : ~empty[i] => arg'[i] # fetched
    BY <1>1, <1>5, <2>1, <2>2 DEF RxInv, FetchInv
  <2> QED
    BY <1>1, <1>5, <2>2, <2>3 DEF FetchInv
<1> QED
  BY <1>2, <1>4, <1>7, <1>8, <1>9, <1>10, <1>11 DEF RxInv

LEMMA StackFreeStep == ASSUME RxInv, NEW m \in Mbuf, StackFree(m) PROVE RxInv'
<1> USE DEF StackFree, bds, task, controller
<1>1. TypeOK'
  BY DEF RxInv, TypeOK
<1>2. ClosedInOrder'
  BY DEF RxInv, ClosedInOrder, Oldest, Dist
<1>3. Holders' = Holders /\ Driver' = Driver
  BY DEF Holders, Driver
<1>4. MbufsOwnedOnce' /\ InputIntact' /\ TaskInv' /\ BufInv' /\ FetchInv' /\ FrameInv'
  BY <1>3 DEF RxInv, MbufsOwnedOnce, InputIntact, TaskInv, BufInv, FetchInv, FrameInv
<1> QED
  BY <1>1, <1>2, <1>4 DEF RxInv

(* A BD that is not fetched late belongs to the driver. *)
LEMMA EmptyHeld ==
  ASSUME RxInv, empty[hw], ~(pc = "buffer" /\ hw = current)
  PROVE  hw \in Holders /\ arg[hw] = buf[hw]
  BY DEF RxInv, TypeOK, TaskInv, Holders, MbufsOwnedOnce

LEMMA FetchStep == ASSUME RxInv, Fetch PROVE RxInv'
<1> USE MbufAssumption DEF Fetch, bds, task
<1>1. hw \in Slot /\ current \in Slot /\ buf \in [Slot -> Mbuf] /\ late \subseteq Slot
  BY DEF RxInv, TypeOK
<1>2. TypeOK'
  BY DEF RxInv, TypeOK
<1>3. ClosedInOrder'
  BY DEF RxInv, ClosedInOrder, Oldest, Dist
<1>4. Holders' = Holders /\ Driver' = Driver /\ Holders \subseteq Slot
  BY DEF Holders, Driver
<1>5. MbufsOwnedOnce' /\ TaskInv' /\ BufInv' /\ FrameInv'
  BY <1>4 DEF RxInv, MbufsOwnedOnce, TaskInv, BufInv, FrameInv
<1>6. InputIntact'
  BY <1>4 DEF RxInv, InputIntact
<1>7. FetchInv'
  <2>1. \A i \in Holders : ~empty[i] => arg[i] # buf[hw]
    BY <1>1, <1>4 DEF RxInv, MbufsOwnedOnce, BufInv
  <2>2. late' = late \union {hw} \/ (late' = late \ {hw} /\ ~(pc = "buffer" /\ hw = current))
    OBVIOUS
  <2>3. pc = "buffer" /\ ~empty[current] => current \in late'
    BY <2>2 DEF RxInv, FetchInv
  <2> QED
    BY <1>1, <1>4, <2>1, <2>2, <2>3 DEF FetchInv
<1> QED
  BY <1>2, <1>3, <1>5, <1>6, <1>7 DEF RxInv

LEMMA ReceiveStep == ASSUME RxInv, NEW bad \in BOOLEAN, Receive(bad) PROVE RxInv'
<1> USE MbufAssumption, BoundAssumption DEF Receive, task
<1>1. /\ hw \in Slot /\ current \in Slot /\ arrived \in 0..MaxFrames /\ fetched \in Mbuf
      /\ empty \in [Slot -> BOOLEAN] /\ frame \in [Slot -> 0..MaxFrames]
      /\ content \in [Mbuf -> 0..MaxFrames] /\ arg \in [Slot -> Mbuf]
  BY DEF RxInv, TypeOK
<1>2. hw' = Succ(hw) /\ empty[hw]
  BY <1>1 DEF RxInv, TypeOK, FetchInv, Succ
<1>3. TypeOK'
  <2>1. arrived' \in 0..MaxFrames
    BY <1>1
  <2>2. hw' \in Slot
    BY <1>1, <1>2, SuccType
  <2> QED
    BY <1>1, <2>1, <2>2 DEF RxInv, TypeOK
<1>4. Oldest' = Oldest /\ Oldest \in Slot
  BY OldestType DEF Oldest, RxInv
<1>5. ClosedInOrder'
  <2> DEFINE d(b) == Dist(Oldest, b)
  <2>1. /\ \A b \in Slot : d(b) \in 0..(N - 1) /\ (d(b) = 0 <=> b = Oldest)
        /\ \A b, c \in Slot : d(b) = d(c) => b = c
    <3>1. \A b \in Slot : d(b) \in 0..(N - 1) /\ (d(b) = 0 <=> b = Oldest)
      BY <1>4, NAssumption DEF Dist, Slot
    <3>2. \A b, c \in Slot : d(b) = d(c) => b = c
      BY <1>4, DistInj
    <3> QED
      BY <3>1, <3>2
  <2>2. hw' \in Slot /\ d(hw') = IF d(hw) = N - 1 THEN 0 ELSE d(hw) + 1
    BY <1>1, <1>2, <1>4, SuccType, NAssumption DEF Dist, Succ, Slot
  <2>3. \A i \in Slot : ~empty[i] <=> d(i) < d(hw)
    BY <1>2 DEF RxInv, ClosedInOrder
  <2>4. \A i, j \in Slot : ~empty[j] /\ d(i) < d(j) => frame[i] < frame[j]
    BY DEF RxInv, ClosedInOrder
  <2>5. \A i \in Slot : empty'[i] = (IF i = hw THEN FALSE ELSE empty[i])
    BY <1>1
  <2>6. \A i \in Slot : frame'[i] = (IF i = hw THEN arrived + 1 ELSE frame[i])
    BY <1>1
  <2>7. \A i \in Slot : frame[i] \in Nat /\ frame[i] <= arrived /\ arrived \in Nat
    BY <1>1 DEF RxInv, FrameInv
  <2> HIDE DEF d
  <2>8. ASSUME NEW i \in Slot
        PROVE  ~empty'[i] <=> d(i) < d(hw') \/ (hw' = Oldest /\ ~empty'[hw'])
    <3>1. CASE d(hw) = N - 1
      <4>1. hw' = Oldest /\ (hw' = hw \/ ~empty[hw'])
        BY <1>1, <2>1, <2>2, <2>3, <3>1, NAssumption
      <4>2. i = hw \/ ~empty[i]
        BY <1>1, <2>1, <2>3, <3>1, NAssumption
      <4> QED
        BY <2>2, <2>5, <4>1, <4>2
    <3>2. CASE d(hw) # N - 1
      <4>1. hw' # Oldest /\ d(hw') = d(hw) + 1
        BY <1>1, <2>1, <2>2, <3>2
      <4>2. i # hw => (d(i) < d(hw) <=> d(i) < d(hw) + 1)
        BY <1>1, <2>1, NAssumption
      <4>3. d(hw) < d(hw) + 1
        BY <1>1, <2>1
      <4> QED
        BY <2>3, <2>5, <4>1, <4>2, <4>3
    <3> QED
      BY <3>1, <3>2
  <2>9. ASSUME NEW i \in Slot, NEW j \in Slot, ~empty'[j], d(i) < d(j)
        PROVE  frame'[i] < frame'[j]
    <3>1. CASE j = hw
      BY <1>1, <2>1, <2>6, <2>7, <2>9, <3>1
    <3>2. CASE j # hw
      <4>1. ~empty[j] /\ i # hw
        BY <1>1, <2>1, <2>3, <2>5, <2>9, <3>2
      <4> QED
        BY <2>4, <2>6, <2>9, <3>2, <4>1
    <3> QED
      BY <3>1, <3>2
  <2> QED
    BY <1>4, <2>8, <2>9 DEF ClosedInOrder, Dist, d
<1>6. Holders' = Holders /\ Driver' = Driver /\ Holders \subseteq Slot
  BY DEF Holders, Driver
<1>7. MbufsOwnedOnce' /\ TaskInv' /\ BufInv'
  <2>1. pc \in {"input", "refill", "status"} => current # hw
    BY <1>2 DEF RxInv, TaskInv
  <2> QED
    BY <1>1, <1>6, <2>1 DEF RxInv, MbufsOwnedOnce, TaskInv, BufInv
<1>8. InputIntact'
  <2>1. \A i \in Holders : ~empty[i] => i # hw /\ content'[arg[i]] = content[arg[i]]
    BY <1>1, <1>2, <1>6 DEF RxInv, FetchInv
  <2>2. hw \notin late => arg[hw] = fetched
    BY <1>2, EmptyHeld DEF RxInv, FetchInv
  <2> QED
    BY <1>1, <1>6, <2>1, <2>2 DEF RxInv, InputIntact
<1>9. FetchInv'
  <2>1. pc = "buffer" /\ hw = current => current \in late
    BY <1>2 DEF RxInv, FetchInv
  <2> QED
    BY <1>1, <2>1 DEF RxInv, FetchInv
<1>10. FrameInv'
  BY <1>1 DEF RxInv, FrameInv
<1> QED
  BY <1>3, <1>5, <1>7, <1>8, <1>9, <1>10 DEF RxInv

LEMMA LoseStep == ASSUME RxInv, Lose PROVE RxInv'
<1> USE BoundAssumption DEF Lose, bds, task
<1>1. TypeOK'
  BY DEF RxInv, TypeOK
<1>2. ClosedInOrder'
  BY DEF RxInv, ClosedInOrder, Oldest, Dist
<1>3. Holders' = Holders /\ Driver' = Driver
  BY DEF Holders, Driver
<1>4. MbufsOwnedOnce' /\ InputIntact' /\ TaskInv' /\ BufInv' /\ FetchInv'
  BY <1>3 DEF RxInv, MbufsOwnedOnce, InputIntact, TaskInv, BufInv, FetchInv
<1>5. FrameInv'
  BY DEF RxInv, FrameInv, TypeOK
<1> QED
  BY <1>1, <1>2, <1>4, <1>5 DEF RxInv

LEMMA RxStep == RxInv /\ [Next]_vars => RxInv'
<1> SUFFICES ASSUME RxInv, [Next]_vars PROVE RxInv'
  OBVIOUS
<1>1. CASE UNCHANGED vars
  BY <1>1 DEF vars, bds, task, controller, RxInv, TypeOK, ClosedInOrder, Oldest, Dist,
     MbufsOwnedOnce, InputIntact, TaskInv, BufInv, FetchInv, FrameInv, Holders, Driver
<1> QED
  BY <1>1, WaitStep, InputStep, RefillStep, StoreStatusStep, StoreBufferStep, StackFreeStep,
     FetchStep, ReceiveStep, LoseStep DEF Next, Task

LEMMA RxAlways == Spec => []RxInv
  BY RxInit, RxStep, PTL DEF Spec

-----------------------------------------------------------------------------
(***************************************************************************)
(* Type correctness of the receive ring.  The controller stays in the      *)
(* ring: uec_if_bd_done_and_refill keeps the wrap bit.                     *)
(***************************************************************************)
THEOREM RxTypeAlwaysOK == Spec => []TypeOK
<1>1. RxInv => TypeOK
  BY DEF RxInv
<1> QED
  BY <1>1, RxAlways, PTL

(***************************************************************************)
(* quicc_bd_rx_process and the controller agree on the order of the BDs,   *)
(* so frames reach the stack in the order of their arrival.                *)
(***************************************************************************)
THEOREM AlwaysClosedInOrder == Spec => []ClosedInOrder
<1>1. RxInv => ClosedInOrder
  BY DEF RxInv
<1> QED
  BY <1>1, RxAlways, PTL

(***************************************************************************)
(* Every BD has an mbuf of its own, and the stack has others.              *)
(***************************************************************************)
THEOREM RxMbufsAlwaysOwnedOnce == Spec => []MbufsOwnedOnce
<1>1. RxInv => MbufsOwnedOnce
  BY DEF RxInv
<1> QED
  BY <1>1, RxAlways, PTL

(***************************************************************************)
(* A closed BD holds the frame that was received for it, but for the BDs   *)
(* the controller fetches between the two stores of                        *)
(* uec_if_bd_done_and_refill.                                              *)
(***************************************************************************)
THEOREM InputAlwaysIntact == Spec => []InputIntact
<1>1. RxInv => InputIntact
  BY DEF RxInv
<1> QED
  BY <1>1, RxAlways, PTL

(***************************************************************************)
(* The controller leaves the data of the stack alone, with the same        *)
(* exception: a BD that is not fetched late has its mbuf from the driver.  *)
(***************************************************************************)
THEOREM StackDataAlwaysKept == Spec => StackDataKept
<1> DEFINE Kept == \A m \in stack : content'[m] # content[m] => hw \in late
<1>1. ASSUME RxInv, Next PROVE Kept
  <2>1. ASSUME NEW bad \in BOOLEAN, Receive(bad) PROVE Kept
    <3>1. hw \notin late => fetched \in Driver
      <4>1. SUFFICES ASSUME hw \notin late PROVE fetched \in Driver
        OBVIOUS
      <4>2. empty[hw] /\ fetched = buf[hw] /\ ~(pc = "buffer" /\ hw = current)
        BY <1>1, <2>1, <4>1 DEF Receive, RxInv, FetchInv
      <4> QED
        BY <1>1, <4>2, EmptyHeld DEF Driver
    <3>2. \A m \in stack : content'[m] # content[m] => m = fetched
      BY <1>1, <2>1 DEF Receive, RxInv, TypeOK
    <3> QED
      BY <1>1, <3>1, <3>2 DEF RxInv, MbufsOwnedOnce
  <2>2. content' = content => Kept
    OBVIOUS
  <2>3. CASE Task \/ (\E m \in Mbuf : StackFree(m)) \/ Fetch \/ Lose
    BY <2>2, <2>3 DEF Task, Wait, Input, Refill, StoreStatus, StoreBuffer, StackFree, Fetch,
       Lose
  <2> QED
    BY <1>1, <2>1, <2>3 DEF Next
<1>2. RxInv /\ [Next]_vars => [Kept]_vars
  BY <1>1
<1>3. Spec => [][Kept]_vars
  BY <1>2, RxAlways, PTL DEF Spec
<1> QED
  BY <1>3 DEF StackDataKept
=============================================================================
