---------------------------- MODULE UecTxProofs -----------------------------
(***************************************************************************)
(* Proofs about the transmit path, for rings of any size, any number of    *)
(* senders and packets of any length: how OACTIVE and TX_START hand the    *)
(* ring over from a sender to the transmit task and back, why a sender     *)
(* never waits in its submission, and why the packets of senders that are  *)
(* kept apart are never mixed in what the controller sends.                *)
(***************************************************************************)
EXTENDS UecTx, SequenceTheorems, WellFoundedInduction, TLAPS

USE UecAssumption

-----------------------------------------------------------------------------
(* The ring as a submission sees it.                                       *)

(* How far BD b is behind BD a. *)
Dist(a, b) == (b - a) % N

LEMMA DistFacts ==
  ASSUME NEW a \in Slot, NEW b \in Slot
  PROVE  /\ Succ(a) \in Slot
         /\ Dist(a, b) \in 0..(N - 1)
         /\ Dist(a, b) = 0 <=> a = b
         /\ Dist(a, b) # N - 1 => Dist(a, Succ(b)) = Dist(a, b) + 1 /\ Succ(b) # a
         /\ Dist(a, Succ(a)) = 1
         /\ Succ(a) # a
  BY DEF Slot, Succ, Dist

(* The open frame goes from first to the BD before current. *)
OpenFrame ==
    /\ ready \in [Slot -> BOOLEAN]
    /\ current \in Slot
    /\ first \in Slot
    /\ avail \in Int
    /\ avail + Dist(first, current) <= FragMax
    /\ current = first => avail = FragMax

(***************************************************************************)
(* After a submission the position is at most one BD further, or directly  *)
(* behind the first BD of a compacted frame, whose other BDs are free.     *)
(***************************************************************************)
LEMMA SubmitMoves ==
  ASSUME OpenFrame, NEW t \in Thread, Submit(t)
  PROVE  OpenFrame' /\ (CanSubmit => ~ready'[current'])
<1> DEFINE d    == Dist(first, current)
           slot == IF FrameFull THEN first ELSE current
<1>1. FragMax = N - 1 /\ FragMax \in Int /\ FragMax >= 2
  BY DEF FragMax
<1>2. /\ d \in 0..(N - 1) /\ d = (current - first) % N
      /\ FrameFull => d >= 1
      /\ ~FrameFull => d <= N - 2
  BY <1>1, DistFacts DEF OpenFrame, FrameFull, Dist
<1>3. /\ slot \in Slot
      /\ current' = Succ(slot)
      /\ \/ first' = Succ(slot) /\ avail' = FragMax
         \/ first' = first /\ avail' = (IF FrameFull THEN FragMax - 1 ELSE avail) - 1
      /\ ready' \in [Slot -> BOOLEAN]
  BY DEF Submit, OpenFrame
<1>4. current' \in Slot /\ current' # slot
  BY <1>3, DistFacts
<1>5. OpenFrame'
  <2>1. CASE first' = Succ(slot) /\ avail' = FragMax
    <3>1. Dist(first', current') = 0
      BY <2>1, <1>3, <1>4, DistFacts
    <3> QED
      BY <2>1, <3>1, <1>1, <1>3, <1>4 DEF OpenFrame, FragMax, Dist
  <2>2. CASE first' = first /\ avail' = (IF FrameFull THEN FragMax - 1 ELSE avail) - 1
    <3>1. CASE FrameFull
      <4>1. Dist(first', current') = 1 /\ current' # first'
        BY <2>2, <3>1, <1>3, <1>4, DistFacts
      <4> QED
        BY <2>2, <3>1, <4>1, <1>1, <1>3, <1>4 DEF OpenFrame, FragMax, Dist
    <3>2. CASE ~FrameFull
      <4>1. Dist(first', current') = d + 1 /\ current' # first'
        BY <2>2, <3>2, <1>2, <1>3, DistFacts DEF OpenFrame
      <4> QED
        BY <2>2, <3>2, <4>1, <1>1, <1>2, <1>3, <1>4 DEF OpenFrame, FragMax, Dist
    <3> QED
      BY <3>1, <3>2
  <2> QED
    BY <1>3, <2>1, <2>2
<1>6. ASSUME CanSubmit PROVE ~ready'[current']
  <2>1. CASE FrameFull
    <3>1. current' \in {(first + k) % N : k \in 0..((current - first) % N)}
      BY <2>1, <1>2, <1>3 DEF Succ
    <3>2. current' # first
      BY <2>1, <1>4
    <3> QED
      BY <2>1, <3>1, <3>2, <1>4 DEF Submit
  <2>2. CASE ~FrameFull
    <3>1. current' = Succ(current) /\ current' # first /\ current' # current
      BY <2>2, <1>2, <1>3, DistFacts DEF OpenFrame
    <3>2. ~ready[current']
      BY <3>1, <1>6 DEF CanSubmit
    <3> QED
      BY <2>2, <3>1, <3>2, <1>4 DEF Submit
  <2> QED
    BY <2>1, <2>2
<1> QED
  BY <1>5, <1>6
-----------------------------------------------------------------------------
Place == {"idle", "queued", "start", "loop", "full", "notify", "stuck",
          "sleep", "lock", "wait", "clear", "absent"}

(* Where the threads are; no sender is stuck. *)
Places ==
    /\ pc \in [Thread -> Place]
    /\ pc["tx"] \in {"sleep", "lock", "loop", "wait", "clear"}
    /\ \A s \in Sender :
           pc[s] \in {"idle", "queued", "start", "loop", "full", "notify", "absent"}
    /\ oactive \in BOOLEAN /\ txStart \in BOOLEAN

Sending(s) == pc[s] \notin {"idle", "absent"}

(* Who is in the loop holds the lock, with the old stack all the time. *)
LockHeld ==
    /\ pc["tx"] \in {"loop", "clear"} => lock = "tx"
    /\ \A s \in Sender : pc[s] = "loop" \/ (Sending(s) /\ ~NewStack) => lock = s

(* The transmit task is awake or about to wake up. *)
Busy == txStart \/ pc["tx"] # "sleep"

(***************************************************************************)
(* OACTIVE says that the transmit task is in charge; a sender that goes on *)
(* has seen it clear, and is the only one that sets it.                    *)
(***************************************************************************)
Handover ==
    /\ pc["tx"] # "sleep" => ~txStart
    /\ Busy => oactive
    /\ \A s \in Sender :
           /\ pc[s] \in {"start", "loop", "full"} => ~oactive
           /\ pc[s] = "notify" => oactive /\ ~Busy

(* The current BD is free, but for a transmit task that waits for it. *)
CurrentKept ==
    IF pc["tx"] = "wait" THEN awaited = current ELSE ~ready[current]

TxInv ==
    /\ OpenFrame
    /\ Places
    /\ LockHeld
    /\ ActiveServed
    /\ Exclusive => Handover /\ CurrentKept

LEMMA TxInit == Init => TxInv
<1> SUFFICES ASSUME Init PROVE TxInv
  OBVIOUS
<1>1. 0 \in Slot /\ Dist(0, 0) = 0 /\ FragMax \in Int
  BY DEF Slot, Dist, FragMax
<1>2. OpenFrame
  BY <1>1 DEF Init, OpenFrame, FragMax
<1>3. PICK S \in SUBSET Sender :
         pc = [t \in Thread |-> CASE t = "tx" -> "sleep"
                                  [] t \in S -> "idle"
                                  [] OTHER -> "absent"]
  BY DEF Init
<1>4. pc["tx"] = "sleep" /\ \A s \in Sender : pc[s] \in {"idle", "absent"}
  BY <1>3 DEF Thread
<1>5. pc \in [Thread -> Place]
  BY <1>3 DEF Place
<1> QED
  BY <1>1, <1>2, <1>4, <1>5
  DEF Init, TxInv, Places, LockHeld, Sending, ActiveServed, Handover, Busy, CurrentKept

(* While Exclusive holds, at most one sender is on its way. *)
LEMMA OneSender ==
  ASSUME TxInv, Exclusive, NEW s \in Sender, NEW t \in Sender, Sending(s), Sending(t)
  PROVE  s = t
  BY DEF TxInv, Exclusive, LockHeld, Sending

(* The senders of a behaviour are those it has begun with. *)
LEMMA ExclusiveKept ==
  ASSUME Places,
         \A s \in Sender : pc'[s] = "absent" <=> pc[s] = "absent"
  PROVE  Exclusive' => Exclusive
  BY DEF Exclusive
-----------------------------------------------------------------------------
(* A step of a sender, and what it leaves alone. *)

LEMMA SenderMoves ==
  ASSUME TxInv, NEW s \in Sender, NEW place \in Place \ {"stuck", "absent", "idle"},
         pc[s] # "absent", Goto(s, place) \/ Goto(s, "idle")
  PROVE  /\ pc'["tx"] = pc["tx"]
         /\ pc' \in [Thread -> Place]
         /\ \A t \in Sender : t # s => pc'[t] = pc[t]
         /\ pc'[s] \in {place, "idle"}
         /\ Exclusive' => Exclusive
<1>1. s \in Thread /\ "tx" \in Thread /\ s # "tx" /\ Sender \subseteq Thread
  BY DEF Thread
<1>2. /\ pc'["tx"] = pc["tx"]
      /\ pc' \in [Thread -> Place]
      /\ \A t \in Sender : t # s => pc'[t] = pc[t]
      /\ pc'[s] \in {place, "idle"}
  BY <1>1 DEF TxInv, Places, Goto, Place
<1>3. \A t \in Sender : pc'[t] = "absent" <=> pc[t] = "absent"
  BY <1>2
<1> QED
  BY <1>2, <1>3, ExclusiveKept DEF TxInv

LEMMA EnqueueStep ==
  ASSUME TxInv, NEW s \in Sender, NEW n \in 1..MaxFrags, Enqueue(s, n)
  PROVE  TxInv'
<1> USE DEF TxInv, Places, Place
<1>1. /\ pc[s] = "idle" /\ Goto(s, "queued") /\ pc'[s] = "queued"
      /\ pc'["tx"] = pc["tx"]
      /\ pc' \in [Thread -> Place]
      /\ \A t \in Sender : t # s => pc'[t] = pc[t]
      /\ Exclusive' => Exclusive
  BY SenderMoves DEF Enqueue, Goto, Thread
<1>2. UNCHANGED <<bds, oactive, txStart, awaited>>
  BY DEF Enqueue
<1>3. OpenFrame'
  BY <1>2 DEF OpenFrame, bds, Dist
<1>4. LockHeld'
  <2>1. CASE NewStack
    BY <1>1, <2>1 DEF Enqueue, LockHeld, Sending
  <2>2. CASE ~NewStack
    BY <1>1, <2>2 DEF Enqueue, LockHeld, Sending
  <2> QED
    BY <2>1, <2>2
<1>5. Places' /\ ActiveServed'
  BY <1>1, <1>2 DEF ActiveServed
<1>6. Exclusive' => Handover' /\ CurrentKept'
  BY <1>1, <1>2 DEF Handover, Busy, CurrentKept, bds
<1> QED
  BY <1>3, <1>4, <1>5, <1>6

LEMMA TestActiveStep ==
  ASSUME TxInv, NEW s \in Sender, TestActive(s)
  PROVE  TxInv'
<1> USE DEF TxInv, Places, Place
<1>1. /\ pc[s] = "queued" /\ pc'[s] = (IF oactive THEN "idle" ELSE "start")
      /\ pc'["tx"] = pc["tx"]
      /\ pc' \in [Thread -> Place]
      /\ \A t \in Sender : t # s => pc'[t] = pc[t]
      /\ Exclusive' => Exclusive
  BY SenderMoves DEF TestActive, Return, Goto, Thread
<1>2. UNCHANGED <<bds, oactive, txStart, awaited>>
  BY DEF TestActive, stack
<1>3. OpenFrame'
  BY <1>2 DEF OpenFrame, bds, Dist
<1>4. LockHeld'
  <2>1. CASE NewStack
    BY <1>1, <2>1 DEF TestActive, Return, LockHeld, Sending
  <2>2. CASE ~NewStack
    BY <1>1, <2>2 DEF TestActive, Return, LockHeld, Sending
  <2> QED
    BY <2>1, <2>2
<1>5. Places' /\ ActiveServed'
  BY <1>1, <1>2 DEF ActiveServed
<1>6. Exclusive' => Handover' /\ CurrentKept'
  BY <1>1, <1>2 DEF Handover, Busy, CurrentKept, bds
<1> QED
  BY <1>3, <1>4, <1>5, <1>6

LEMMA LockStep ==
  ASSUME TxInv, NEW s \in Sender, Lock(s)
  PROVE  TxInv'
<1> USE DEF TxInv, Places, Place
<1>1. /\ pc[s] = "start" /\ pc'[s] = "loop"
      /\ pc'["tx"] = pc["tx"]
      /\ pc' \in [Thread -> Place]
      /\ \A t \in Sender : t # s => pc'[t] = pc[t]
      /\ Exclusive' => Exclusive
  BY SenderMoves DEF Lock, Goto, Thread
<1>2. UNCHANGED <<bds, oactive, txStart, awaited>>
  BY DEF Lock, stack
<1>3. OpenFrame'
  BY <1>2 DEF OpenFrame, bds, Dist
<1>4. LockHeld'
  <2>1. CASE NewStack
    BY <1>1, <2>1 DEF Lock, LockHeld, Sending
  <2>2. CASE ~NewStack
    BY <1>1, <2>2 DEF Lock, LockHeld, Sending
  <2> QED
    BY <2>1, <2>2
<1>5. Places' /\ ActiveServed'
  BY <1>1, <1>2 DEF ActiveServed
<1>6. Exclusive' => Handover' /\ CurrentKept'
  BY <1>1, <1>2 DEF Handover, Busy, CurrentKept, bds
<1> QED
  BY <1>3, <1>4, <1>5, <1>6

(***************************************************************************)
(* quicc_bd_tx_can_submit has looked two BDs ahead, so the submission of a *)
(* sender does not wait.                                                   *)
(***************************************************************************)
LEMMA SubmitDirectStep ==
  ASSUME TxInv, NEW s \in Sender, SubmitDirect(s)
  PROVE  TxInv'
<1> USE DEF TxInv, Places, Place
<1>1. s \in Thread /\ Submit(s) /\ CanSubmit /\ pc[s] = "loop"
  BY DEF SubmitDirect, Thread
<1>2. OpenFrame' /\ ~ready'[current']
  BY <1>1, SubmitMoves
<1>3. UNCHANGED <<pc, lock, oactive, txStart, awaited>>
  BY <1>2 DEF SubmitDirect
<1>4. Places' /\ LockHeld' /\ ActiveServed'
  BY <1>3 DEF LockHeld, Sending, ActiveServed
<1>5. Exclusive' => Handover' /\ CurrentKept'
  <2>1. SUFFICES ASSUME Exclusive' PROVE Handover' /\ CurrentKept'
    OBVIOUS
  <2>2. Exclusive
    BY <2>1, <1>3 DEF Exclusive
  <2>3. pc["tx"] = "sleep"
    BY <2>2, <1>1 DEF Handover, Busy
  <2> QED
    BY <2>2, <2>3, <1>2, <1>3 DEF Handover, Busy, CurrentKept
<1> QED
  BY <1>2, <1>4, <1>5

LEMMA RingFullStep ==
  ASSUME TxInv, NEW s \in Sender, RingFull(s)
  PROVE  TxInv'
<1> USE DEF TxInv, Places, Place
<1>1. /\ pc[s] = "loop" /\ pc'[s] = "full"
      /\ pc'["tx"] = pc["tx"]
      /\ pc' \in [Thread -> Place]
      /\ \A t \in Sender : t # s => pc'[t] = pc[t]
      /\ Exclusive' => Exclusive
  BY SenderMoves DEF RingFull, Goto, Thread
<1>2. UNCHANGED <<bds, oactive, txStart, awaited>>
  BY DEF RingFull, stack
<1>3. OpenFrame'
  BY <1>2 DEF OpenFrame, bds, Dist
<1>4. LockHeld'
  <2>1. lock = s /\ pc["tx"] \notin {"loop", "clear"}
    BY <1>1 DEF LockHeld
  <2>2. CASE NewStack
    <3>1. \A t \in Sender : t # s => pc[t] # "loop"
      BY <1>1, <2>1 DEF LockHeld
    <3> QED
      BY <1>1, <2>1, <2>2, <3>1 DEF RingFull, LockHeld, Sending
  <2>3. CASE ~NewStack
    BY <1>1, <2>1, <2>3 DEF RingFull, LockHeld, Sending
  <2> QED
    BY <2>2, <2>3
<1>5. Places' /\ ActiveServed'
  BY <1>1, <1>2 DEF ActiveServed
<1>6. Exclusive' => Handover' /\ CurrentKept'
  BY <1>1, <1>2 DEF Handover, Busy, CurrentKept, bds
<1> QED
  BY <1>3, <1>4, <1>5, <1>6

LEMMA AllSubmittedStep ==
  ASSUME TxInv, NEW s \in Sender, AllSubmitted(s)
  PROVE  TxInv'
<1> USE DEF TxInv, Places, Place
<1>1. /\ pc[s] = "loop" /\ pc'[s] = "idle"
      /\ pc'["tx"] = pc["tx"]
      /\ pc' \in [Thread -> Place]
      /\ \A t \in Sender : t # s => pc'[t] = pc[t]
      /\ Exclusive' => Exclusive
  BY SenderMoves DEF AllSubmitted, Goto, Thread
<1>2. UNCHANGED <<bds, oactive, txStart, awaited>>
  BY DEF AllSubmitted, stack
<1>3. OpenFrame'
  BY <1>2 DEF OpenFrame, bds, Dist
<1>4. LockHeld'
  <2>1. lock = s /\ pc["tx"] \notin {"loop", "clear"}
    BY <1>1 DEF LockHeld
  <2>2. \A t \in Sender : t # s => ~(pc[t] = "loop" \/ (Sending(t) /\ ~NewStack))
    BY <2>1 DEF LockHeld
  <2> QED
    BY <1>1, <2>1, <2>2 DEF LockHeld, Sending
<1>5. Places' /\ ActiveServed'
  BY <1>1, <1>2 DEF ActiveServed
<1>6. Exclusive' => Handover' /\ CurrentKept'
  BY <1>1, <1>2 DEF Handover, Busy, CurrentKept, bds
<1> QED
  BY <1>3, <1>4, <1>5, <1>6

(* OACTIVE is set by the one sender that has seen it clear. *)
LEMMA SetActiveStep ==
  ASSUME TxInv, NEW s \in Sender, SetActive(s)
  PROVE  TxInv'
<1> USE DEF TxInv, Places, Place
<1>1. /\ pc[s] = "full" /\ pc'[s] = "notify"
      /\ pc'["tx"] = pc["tx"]
      /\ pc' \in [Thread -> Place]
      /\ \A t \in Sender : t # s => pc'[t] = pc[t]
      /\ Exclusive' => Exclusive
  BY SenderMoves DEF SetActive, Goto, Thread
<1>2. UNCHANGED <<bds, lock, txStart, awaited>> /\ oactive' = TRUE
  BY DEF SetActive
<1>3. OpenFrame'
  BY <1>2 DEF OpenFrame, bds, Dist
<1>4. LockHeld'
  BY <1>1, <1>2 DEF LockHeld, Sending
<1>5. Places' /\ ActiveServed'
  BY <1>1, <1>2 DEF ActiveServed
<1>6. ASSUME Exclusive' PROVE Handover' /\ CurrentKept'
  <2>1. Exclusive /\ Handover /\ CurrentKept
    BY <1>1, <1>6
  <2>2. ~Busy
    BY <2>1, <1>1 DEF Handover
  <2>3. \A t \in Sender : t # s => ~Sending(t)
    BY <2>1, <1>1, OneSender DEF Sending
  <2>4. ~Busy'
    BY <2>2, <1>1, <1>2 DEF Busy
  <2>5. Handover'
    BY <2>1, <2>3, <2>4, <1>1, <1>2 DEF Handover, Sending
  <2> QED
    BY <2>1, <2>5, <1>1, <1>2 DEF CurrentKept, bds
<1> QED
  BY <1>3, <1>4, <1>5, <1>6

LEMMA NotifyStep ==
  ASSUME TxInv, NEW s \in Sender, Notify(s)
  PROVE  TxInv'
<1> USE DEF TxInv, Places, Place
<1>1. /\ pc[s] = "notify" /\ pc'[s] = "idle"
      /\ pc'["tx"] = pc["tx"]
      /\ pc' \in [Thread -> Place]
      /\ \A t \in Sender : t # s => pc'[t] = pc[t]
      /\ Exclusive' => Exclusive
  BY SenderMoves DEF Notify, Return, Goto, Thread
<1>2. UNCHANGED <<bds, oactive, awaited>> /\ txStart' = TRUE
  BY DEF Notify
<1>3. OpenFrame'
  BY <1>2 DEF OpenFrame, bds, Dist
<1>4. LockHeld'
  <2>1. CASE NewStack
    BY <1>1, <2>1 DEF Notify, Return, LockHeld, Sending
  <2>2. CASE ~NewStack
    BY <1>1, <2>2 DEF Notify, Return, LockHeld, Sending
  <2> QED
    BY <2>1, <2>2
<1>5. Places' /\ ActiveServed'
  BY <1>1, <1>2 DEF ActiveServed
<1>6. ASSUME Exclusive' PROVE Handover' /\ CurrentKept'
  <2>1. Exclusive /\ Handover /\ CurrentKept
    BY <1>1, <1>6
  <2>2. pc["tx"] = "sleep" /\ oactive
    BY <2>1, <1>1 DEF Handover, Busy
  <2>3. \A t \in Sender : t # s => ~Sending(t)
    BY <2>1, <1>1, OneSender DEF Sending
  <2>4. Handover'
    BY <2>2, <2>3, <1>1, <1>2 DEF Handover, Busy, Sending
  <2> QED
    BY <2>1, <2>4, <1>1, <1>2 DEF CurrentKept, bds
<1> QED
  BY <1>3, <1>4, <1>5, <1>6
-----------------------------------------------------------------------------
(* The steps of the transmit task. *)

LEMMA TaskMoves ==
  ASSUME TxInv, NEW place \in {"sleep", "lock", "loop", "wait", "clear"}, Goto("tx", place)
  PROVE  /\ pc'["tx"] = place
         /\ pc' \in [Thread -> Place]
         /\ \A t \in Sender : pc'[t] = pc[t]
         /\ Exclusive' => Exclusive
<1>1. "tx" \in Thread /\ "tx" \notin Sender /\ Sender \subseteq Thread
  BY DEF Thread
<1>2. /\ pc'["tx"] = place
      /\ pc' \in [Thread -> Place]
      /\ \A t \in Sender : pc'[t] = pc[t]
  BY <1>1 DEF TxInv, Places, Goto, Place
<1> QED
  BY <1>2, ExclusiveKept DEF TxInv

LEMMA WakeStep == TxInv /\ Wake => TxInv'
<1> SUFFICES ASSUME TxInv, Wake PROVE TxInv'
  OBVIOUS
<1> USE DEF TxInv, Places, Place
<1>1. /\ pc["tx"] = "sleep" /\ pc'["tx"] = "lock"
      /\ pc' \in [Thread -> Place]
      /\ \A t \in Sender : pc'[t] = pc[t]
      /\ Exclusive' => Exclusive
  BY TaskMoves DEF Wake
<1>2. UNCHANGED <<bds, oactive, lock, awaited>> /\ txStart /\ txStart' = FALSE
  BY DEF Wake
<1>3. OpenFrame'
  BY <1>2 DEF OpenFrame, bds, Dist
<1>4. LockHeld' /\ Places' /\ ActiveServed'
  BY <1>1, <1>2 DEF LockHeld, Sending, ActiveServed
<1>5. Exclusive' => Handover' /\ CurrentKept'
  BY <1>1, <1>2 DEF Handover, Busy, CurrentKept, bds
<1> QED
  BY <1>3, <1>4, <1>5

LEMMA TxLockStep == TxInv /\ TxLock => TxInv'
<1> SUFFICES ASSUME TxInv, TxLock PROVE TxInv'
  OBVIOUS
<1> USE DEF TxInv, Places, Place
<1>1. /\ pc["tx"] = "lock" \/ (pc["tx"] = "wait" /\ ~ready[awaited])
      /\ pc'["tx"] = "loop"
      /\ pc' \in [Thread -> Place]
      /\ \A t \in Sender : pc'[t] = pc[t]
      /\ Exclusive' => Exclusive
  BY TaskMoves DEF TxLock
<1>2. UNCHANGED <<bds, oactive, txStart, awaited>> /\ lock = "none" /\ lock' = "tx"
  BY DEF TxLock, stack
<1>3. OpenFrame'
  BY <1>2 DEF OpenFrame, bds, Dist
<1>4. LockHeld' /\ Places' /\ ActiveServed'
  BY <1>1, <1>2 DEF LockHeld, Sending, ActiveServed
<1>5. Exclusive' => Handover' /\ CurrentKept'
  BY <1>1, <1>2 DEF Handover, Busy, CurrentKept, bds
<1> QED
  BY <1>3, <1>4, <1>5

LEMMA SubmitAndWaitStep == TxInv /\ SubmitAndWait => TxInv'
<1> SUFFICES ASSUME TxInv, SubmitAndWait PROVE TxInv'
  OBVIOUS
<1> USE DEF TxInv, Places, Place
<1>1. pc["tx"] = "loop" /\ lock = "tx" /\ Submit("tx")
  BY DEF SubmitAndWait, LockHeld
<1>2. OpenFrame' /\ UNCHANGED <<oactive, txStart>> /\ awaited' = current'
  BY <1>1, SubmitMoves DEF SubmitAndWait, Thread
<1>3. \A s \in Sender : ~(pc[s] = "loop" \/ (Sending(s) /\ ~NewStack))
  BY <1>1 DEF LockHeld
<1>4. CASE ready'[current']
  <2>1. /\ pc'["tx"] = "wait"
        /\ pc' \in [Thread -> Place]
        /\ \A t \in Sender : pc'[t] = pc[t]
        /\ Exclusive' => Exclusive
    BY <1>4, TaskMoves DEF SubmitAndWait
  <2>2. LockHeld' /\ Places' /\ ActiveServed'
    BY <2>1, <1>2, <1>3 DEF LockHeld, Sending, ActiveServed
  <2>3. Exclusive' => Handover' /\ CurrentKept'
    BY <2>1, <1>1, <1>2 DEF Handover, Busy, CurrentKept
  <2> QED
    BY <2>2, <2>3, <1>2
<1>5. CASE ~ready'[current']
  <2>1. UNCHANGED <<pc, lock>> /\ (Exclusive' => Exclusive)
    BY <1>5 DEF SubmitAndWait, Exclusive
  <2>2. LockHeld' /\ Places' /\ ActiveServed'
    BY <2>1, <1>2 DEF LockHeld, Sending, ActiveServed
  <2>3. Exclusive' => Handover' /\ CurrentKept'
    BY <2>1, <1>1, <1>2, <1>5 DEF Handover, Busy, CurrentKept
  <2> QED
    BY <2>2, <2>3, <1>2
<1> QED
  BY <1>4, <1>5

LEMMA QueueEmptyStep == TxInv /\ QueueEmpty => TxInv'
<1> SUFFICES ASSUME TxInv, QueueEmpty PROVE TxInv'
  OBVIOUS
<1> USE DEF TxInv, Places, Place
<1>1. /\ pc["tx"] = "loop" /\ pc'["tx"] = "clear"
      /\ pc' \in [Thread -> Place]
      /\ \A t \in Sender : pc'[t] = pc[t]
      /\ Exclusive' => Exclusive
  BY TaskMoves DEF QueueEmpty
<1>2. UNCHANGED <<bds, oactive, txStart, lock, awaited>>
  BY DEF QueueEmpty, stack
<1>3. OpenFrame'
  BY <1>2 DEF OpenFrame, bds, Dist
<1>4. LockHeld' /\ Places' /\ ActiveServed'
  BY <1>1, <1>2 DEF LockHeld, Sending, ActiveServed
<1>5. Exclusive' => Handover' /\ CurrentKept'
  BY <1>1, <1>2 DEF Handover, Busy, CurrentKept, bds
<1> QED
  BY <1>3, <1>4, <1>5

LEMMA ClearActiveStep == TxInv /\ ClearActive => TxInv'
<1> SUFFICES ASSUME TxInv, ClearActive PROVE TxInv'
  OBVIOUS
<1> USE DEF TxInv, Places, Place
<1>1. /\ pc["tx"] = "clear" /\ pc'["tx"] = "sleep"
      /\ pc' \in [Thread -> Place]
      /\ \A t \in Sender : pc'[t] = pc[t]
      /\ Exclusive' => Exclusive
  BY TaskMoves DEF ClearActive
<1>2. UNCHANGED <<bds, txStart, awaited>> /\ oactive' = FALSE
  BY DEF ClearActive
<1>3. OpenFrame'
  BY <1>2 DEF OpenFrame, bds, Dist
<1>4. \A s \in Sender : ~(pc[s] = "loop" \/ (Sending(s) /\ ~NewStack))
  BY <1>1 DEF LockHeld
<1>5. LockHeld' /\ Places' /\ ActiveServed'
  BY <1>1, <1>2, <1>4 DEF LockHeld, Sending, ActiveServed
<1>6. Exclusive' => Handover' /\ CurrentKept'
  BY <1>1, <1>2 DEF Handover, Busy, CurrentKept, bds
<1> QED
  BY <1>3, <1>5, <1>6
-----------------------------------------------------------------------------
LEMMA CloseStep == TxInv /\ Close => TxInv'
<1> SUFFICES ASSUME TxInv, Close PROVE TxInv'
  OBVIOUS
<1> USE DEF TxInv, Places, Place
<1>1. /\ UNCHANGED <<current, first, avail, oactive, txStart, lock, pc, awaited>>
      /\ ready' = [ready EXCEPT ![hw] = FALSE]
  BY DEF Close, stack
<1>2. ready' \in [Slot -> BOOLEAN] /\ \A i \in Slot : ready'[i] => ready[i]
  BY <1>1 DEF OpenFrame
<1>3. OpenFrame'
  BY <1>1, <1>2 DEF OpenFrame, Dist
<1>4. LockHeld' /\ Places' /\ ActiveServed'
  BY <1>1 DEF LockHeld, Sending, ActiveServed
<1>5. Exclusive' => Handover' /\ CurrentKept'
  BY <1>1, <1>2 DEF Exclusive, Handover, Busy, CurrentKept, OpenFrame
<1> QED
  BY <1>3, <1>4, <1>5

LEMMA TxStep == TxInv /\ [Next]_vars => TxInv'
<1> SUFFICES ASSUME TxInv, [Next]_vars PROVE TxInv'
  OBVIOUS
<1>1. CASE Next
  BY <1>1, EnqueueStep, TestActiveStep, LockStep, SubmitDirectStep, RingFullStep,
     AllSubmittedStep, SetActiveStep, NotifyStep, WakeStep, TxLockStep,
     SubmitAndWaitStep, QueueEmptyStep, ClearActiveStep, CloseStep
  DEF Next, Driver, TxTask
<1>2. CASE UNCHANGED vars
  <2>1. UNCHANGED <<bds, oactive, txStart, lock, pc, awaited>>
    BY <1>2 DEF vars, stack
  <2> QED
    BY <2>1 DEF TxInv, bds, OpenFrame, Dist, Places, LockHeld, Sending, ActiveServed,
                Exclusive, Handover, Busy, CurrentKept
<1> QED
  BY <1>1, <1>2

LEMMA TxAlways == Spec => []TxInv
  BY TxInit, TxStep, PTL DEF Spec
(* While OACTIVE or the lock keeps them apart, one thread is at the ring. *)
LEMMA OneAtRing ==
  ASSUME TxInv, Exclusive, NEW s \in Thread, NEW t \in Thread, Submitting(s), Submitting(t)
  PROVE  s = t
<1>1. Handover
  BY DEF TxInv
<1>2. ASSUME NEW u \in Sender, Submitting(u)
      PROVE  pc[u] = "loop" /\ pc["tx"] = "sleep"
  <2>1. pc[u] = "loop"
    BY <1>2 DEF TxInv, Places, Submitting
  <2> QED
    BY <1>1, <2>1 DEF Handover, Busy
<1>3. CASE s \in Sender /\ t \in Sender
  BY <1>2, <1>3, OneSender DEF Sending
<1>4. CASE s = "tx" /\ t = "tx"
  BY <1>4
<1>5. CASE (s \in Sender /\ t = "tx") \/ (s = "tx" /\ t \in Sender)
  BY <1>2, <1>5 DEF Submitting
<1> QED
  BY <1>3, <1>4, <1>5 DEF Thread

-----------------------------------------------------------------------------
(***************************************************************************)
(* A sender of uec_if_interface_start never waits in its submission, for   *)
(* any number of senders and either stack: the event that ends the wait    *)
(* would go to the transmit task.                                          *)
(***************************************************************************)
THEOREM SenderWaitsNever == Spec => []SenderNeverWaits
<1>1. TxInv => SenderNeverWaits
  BY DEF TxInv, Places, SenderNeverWaits
<1> QED
  BY <1>1, TxAlways, PTL

(***************************************************************************)
(* While OACTIVE keeps the senders out of uec_if_interface_start, the      *)
(* transmit task is awake or going to be woken: with any number of senders.*)
(***************************************************************************)
THEOREM ActiveAlwaysServed == Spec => []ActiveServed
<1>1. TxInv => ActiveServed
  BY DEF TxInv
<1> QED
  BY <1>1, TxAlways, PTL

(***************************************************************************)
(* What is submitted goes to a BD that is the driver's, as long as the     *)
(* semaphore of the old stack, or being alone, keeps the senders apart.    *)
(***************************************************************************)
THEOREM CurrentAlwaysFree == Spec => []CurrentIsFree
<1>1. ASSUME TxInv PROVE CurrentIsFree
  <2>1. SUFFICES ASSUME Exclusive, NEW t \in Thread, pc[t] = "loop" PROVE ~ready[current]
    BY DEF CurrentIsFree
  <2>2. Handover /\ CurrentKept
    BY <1>1, <2>1 DEF TxInv
  <2>3. t = "tx" \/ t \in Sender
    BY DEF Thread
  <2>4. pc["tx"] # "wait"
    BY <2>1, <2>2, <2>3 DEF Handover, Busy
  <2> QED
    BY <2>2, <2>4 DEF CurrentKept
<1> QED
  BY <1>1, TxAlways, PTL

(***************************************************************************)
(* With the old stack one thread at a time is between two fragments of the *)
(* ring, although the transmit task gives the semaphore up while it waits. *)
(***************************************************************************)
THEOREM AlwaysOneSubmitter == ~NewStack => (Spec => []OneSubmitter)
<1> SUFFICES ASSUME ~NewStack PROVE Spec => []OneSubmitter
  OBVIOUS
<1>1. TxInv => OneSubmitter
  <2>1. Exclusive
    BY DEF Exclusive
  <2> QED
    BY <2>1, OneAtRing DEF OneSubmitter
<1> QED
  BY <1>1, TxAlways, PTL
-----------------------------------------------------------------------------
(* What FlattenSeq yields, by induction on the number of sequences.        *)

LEMMA Least ==
  ASSUME NEW T \in SUBSET Nat, T # {}
  PROVE  \E n \in T : \A m \in T : n <= m
<1>1. PICK n \in T : \A m \in T : <<m, n>> \notin OpToRel(<, Nat)
  BY NatLessThanWellFounded, WFMin, Zenon
<1>2. \A m \in T : ~(m < n)
  BY <1>1 DEF OpToRel
<1> QED
  BY <1>2

(* The recursive function of FlattenSeq on the first n sequences. *)
Unfold(seqs, n, f) ==
    f = [i \in 1..n |-> IF i = 1 THEN seqs[i] ELSE f[i - 1] \o seqs[i]]

UnfoldsAt(seqs, f, i) == f[i] = IF i = 1 THEN seqs[i] ELSE f[i - 1] \o seqs[i]

LEMMA UnfoldAt ==
  ASSUME NEW seqs, NEW n, NEW f, Unfold(seqs, n, f), NEW i \in 1..n
  PROVE  UnfoldsAt(seqs, f, i)
<1>1. f = [j \in 1..n |-> IF j = 1 THEN seqs[j] ELSE f[j - 1] \o seqs[j]]
  BY DEF Unfold
<1> DEFINE e(j) == IF j = 1 THEN seqs[j] ELSE f[j - 1] \o seqs[j]
<1>2. f = [j \in 1..n |-> e(j)]
  BY <1>1
<1> HIDE DEF e
<1>3. f[i] = e(i)
  BY <1>2
<1> QED
  BY <1>3 DEF e, UnfoldsAt

LEMMA UnfoldExists ==
  ASSUME NEW S, NEW seqs \in Seq(Seq(S)), NEW n \in 0..Len(seqs)
  PROVE  \E f \in [1..n -> Seq(S)] : Unfold(seqs, n, f)
<1> DEFINE Ok(k) == \E f \in [1..k -> Seq(S)] : Unfold(seqs, k, f)
           T     == {k \in 0..Len(seqs) : ~Ok(k)}
<1>0. Len(seqs) \in Nat /\ \A i \in 1..Len(seqs) : seqs[i] \in Seq(S)
  BY LenProperties, ElementOfSeq
<1>1. SUFFICES ASSUME T # {} PROVE FALSE
  OBVIOUS
<1>2. PICK k \in T : \A m \in T : k <= m
  <2>1. T \in SUBSET Nat
    BY <1>0
  <2> HIDE DEF T
  <2> QED
    BY <2>1, <1>1, Least
<1>3. k # 0
  <2>1. [i \in 1..0 |-> <<>>] \in [1..0 -> Seq(S)] /\ Unfold(seqs, 0, [i \in 1..0 |-> <<>>])
    BY DEF Unfold
  <2>2. Ok(0)
    BY <2>1
  <2> QED
    BY <2>2
<1>4. k - 1 \in 0..Len(seqs) /\ k - 1 \notin T /\ k \in 1..Len(seqs)
  <2>1. k \in 0..Len(seqs)
    BY <1>2
  <2>2. k - 1 \in 0..Len(seqs) /\ k \in 1..Len(seqs) /\ ~(k <= k - 1)
    BY <2>1, <1>0, <1>3
  <2> QED
    BY <2>2, <1>2
<1>5. PICK f \in [1..(k - 1) -> Seq(S)] : Unfold(seqs, k - 1, f)
  BY <1>4
<1> DEFINE g == [i \in 1..k |-> IF i = k THEN IF k = 1 THEN seqs[k] ELSE f[k - 1] \o seqs[k]
                                ELSE f[i]]
<1>6. g \in [1..k -> Seq(S)]
  BY <1>0, <1>4, ConcatProperties
<1>7. ASSUME NEW i \in 1..k PROVE g[i] = IF i = 1 THEN seqs[i] ELSE g[i - 1] \o seqs[i]
  <2>1. CASE i = k
    BY <2>1, <1>4
  <2>2. CASE i # k
    <3>1. g[i] = f[i] /\ i \in 1..(k - 1)
      BY <2>2, <1>4
    <3>2. f[i] = IF i = 1 THEN seqs[i] ELSE f[i - 1] \o seqs[i]
      BY <3>1, <1>5 DEF Unfold
    <3>3. i # 1 => g[i - 1] = f[i - 1]
      BY <3>1, <1>4
    <3> QED
      BY <3>1, <3>2, <3>3
  <2> QED
    BY <2>1, <2>2
<1>8. Unfold(seqs, k, g)
  <2>1. g = [i \in 1..k |-> g[i]]
    BY <1>6
  <2> HIDE DEF g
  <2> QED
    BY <2>1, <1>7 DEF Unfold
<1> QED
  <2> HIDE DEF g
  <2>1. Ok(k)
    BY <1>6, <1>8
  <2> QED
    BY <2>1

AgreeAt(f, g, i) == f[i] = g[i]

(* Two such functions agree where both are defined. *)
LEMMA UnfoldAgree ==
  ASSUME NEW seqs, NEW n, NEW m, n \in Nat, m \in Nat, NEW f, NEW g,
         Unfold(seqs, n, f), Unfold(seqs, m, g), NEW i \in 1..n, i <= m
  PROVE  AgreeAt(f, g, i)
<1> DEFINE T == {k \in Nat : k \in 1..n /\ k <= m /\ f[k] # g[k]}
<1>1. SUFFICES ASSUME T # {} PROVE FALSE
  BY DEF AgreeAt
<1>2. PICK k \in T : \A j \in T : k <= j
  BY <1>1, Least
<1>3. /\ f[k] = IF k = 1 THEN seqs[k] ELSE f[k - 1] \o seqs[k]
      /\ g[k] = IF k = 1 THEN seqs[k] ELSE g[k - 1] \o seqs[k]
  <2>1. k \in 1..n /\ k \in 1..m
    BY <1>2
  <2> QED
    BY <2>1, UnfoldAt DEF UnfoldsAt
<1>4. CASE k = 1
  BY <1>2, <1>3, <1>4
<1>5. CASE k # 1
  <2>1. k - 1 \notin T /\ k - 1 \in Nat /\ k - 1 \in 1..n /\ k - 1 <= m
    BY <1>2, <1>5
  <2>2. f[k - 1] = g[k - 1]
    BY <2>1
  <2> QED
    BY <2>2, <1>2, <1>3, <1>5
<1> QED
  BY <1>4, <1>5

LEMMA FlattenIs ==
  ASSUME NEW S, NEW seqs \in Seq(Seq(S)), Len(seqs) # 0, NEW f, Unfold(seqs, Len(seqs), f)
  PROVE  FlattenSeq(seqs) = f[Len(seqs)]
<1>1. Len(seqs) \in Nat
  BY LenProperties
<1> DEFINE F == CHOOSE h : Unfold(seqs, Len(seqs), h)
<1>2. FlattenSeq(seqs) = F[Len(seqs)]
  BY DEF FlattenSeq, Unfold
<1>3. Unfold(seqs, Len(seqs), F)
  OBVIOUS
<1> HIDE DEF F
<1>4. PICK n \in Nat : n = Len(seqs)
  BY <1>1
<1>5. AgreeAt(F, f, n)
  <2>1. n \in 1..n /\ n <= n
    BY <1>4
  <2>2. Unfold(seqs, n, F) /\ Unfold(seqs, n, f)
    BY <1>3, <1>4
  <2> QED
    BY <2>1, <2>2, UnfoldAgree, Zenon
<1> QED
  BY <1>2, <1>4, <1>5 DEF AgreeAt

LEMMA FlattenEmpty == FlattenSeq(<<>>) = <<>>
  BY DEF FlattenSeq

LEMMA FlattenType ==
  ASSUME NEW S, NEW seqs \in Seq(Seq(S))
  PROVE  FlattenSeq(seqs) \in Seq(S)
<1>1. PICK n \in Nat : n = Len(seqs)
  BY LenProperties
<1>2. CASE n = 0
  <2>1. seqs = <<>>
    BY <1>1, <1>2, EmptySeq
  <2> QED
    BY <2>1, FlattenEmpty, EmptySeq
<1>3. CASE n # 0
  <2>1. PICK f \in [1..n -> Seq(S)] : Unfold(seqs, n, f)
    <3>1. n \in 0..Len(seqs)
      BY <1>1
    <3> QED
      BY <3>1, UnfoldExists
  <2>2. FlattenSeq(seqs) = f[n]
    BY <2>1, <1>1, <1>3, FlattenIs
  <2>3. n \in 1..n
    BY <1>3
  <2> QED
    BY <2>1, <2>2, <2>3
<1> QED
  BY <1>2, <1>3

LEMMA FlattenAppend ==
  ASSUME NEW S, NEW seqs \in Seq(Seq(S)), NEW s \in Seq(S)
  PROVE  FlattenSeq(Append(seqs, s)) = FlattenSeq(seqs) \o s
<1>1. PICK n \in Nat : n = Len(seqs)
  BY LenProperties
<1>2. PICK longer \in Seq(Seq(S)) :
          /\ longer = Append(seqs, s) /\ Len(longer) = n + 1
          /\ longer[n + 1] = s /\ \A i \in 1..n : longer[i] = seqs[i]
  <2>1. /\ Append(seqs, s) \in Seq(Seq(S)) /\ Len(Append(seqs, s)) = n + 1
        /\ Append(seqs, s)[n + 1] = s /\ \A i \in 1..n : Append(seqs, s)[i] = seqs[i]
    BY <1>1, AppendProperties
  <2> QED
    BY <2>1
<1>3. PICK g \in [1..(n + 1) -> Seq(S)] : Unfold(longer, n + 1, g)
  <2>1. n + 1 \in 0..Len(longer)
    BY <1>2
  <2> QED
    BY <2>1, UnfoldExists
<1>4. FlattenSeq(longer) = g[n + 1]
  <2>1. Len(longer) # 0
    BY <1>2
  <2> QED
    BY <2>1, <1>2, <1>3, FlattenIs
<1>5. g[n + 1] = IF n = 0 THEN s ELSE g[n] \o s
  <2>1. n + 1 \in 1..(n + 1) /\ n + 1 - 1 = n /\ (n + 1 = 1 <=> n = 0)
    OBVIOUS
  <2>2. g[n + 1] = IF n + 1 = 1 THEN longer[n + 1] ELSE g[n + 1 - 1] \o longer[n + 1]
    <3>1. UnfoldsAt(longer, g, n + 1)
      BY <2>1, <1>3, UnfoldAt, Zenon
    <3> QED
      BY <3>1 DEF UnfoldsAt
  <2> QED
    BY <2>1, <2>2, <1>2
<1>6. CASE n = 0
  <2>1. seqs = <<>>
    BY <1>1, <1>6, EmptySeq
  <2> QED
    BY <2>1, <1>2, <1>4, <1>5, <1>6, FlattenEmpty, ConcatEmptySeq
<1>7. CASE n # 0
  <2>1. PICK f \in [1..n -> Seq(S)] : Unfold(seqs, n, f)
    <3>1. n \in 0..Len(seqs)
      BY <1>1
    <3> QED
      BY <3>1, UnfoldExists
  <2>2. FlattenSeq(seqs) = f[n]
    BY <2>1, <1>1, <1>7, FlattenIs
  <2>3. Unfold(longer, n, f)
    <3>1. f = [i \in 1..n |-> IF i = 1 THEN seqs[i] ELSE f[i - 1] \o seqs[i]]
      BY <2>1 DEF Unfold
    <3>2. f = [i \in 1..n |-> IF i = 1 THEN longer[i] ELSE f[i - 1] \o longer[i]]
      BY <3>1, <1>2
    <3> QED
      BY <3>2 DEF Unfold
  <2>4. f[n] = g[n]
    <3>1. n \in 1..n /\ n + 1 \in Nat /\ n <= n + 1
      BY <1>7
    <3>2. AgreeAt(f, g, n)
      BY <1>3, <2>3, <3>1, UnfoldAgree, Zenon
    <3> QED
      BY <3>2 DEF AgreeAt
  <2> QED
    BY <1>2, <1>4, <1>5, <1>7, <2>2, <2>4
<1> QED
  BY <1>6, <1>7

(* The laws of concatenation, as predicates of the sequences. *)
Associates(s, t, u) == (s \o t) \o u = s \o (t \o u)

AppendsLast(s, t, x) == s \o Append(t, x) = Append(s \o t, x)

LEMMA ConcatMore ==
  ASSUME NEW S, NEW s \in Seq(S), NEW t \in Seq(S), NEW u \in Seq(S)
  PROVE  Associates(s, t, u)
  BY SMT DEF Associates

LEMMA ConcatOne ==
  ASSUME NEW S, NEW s \in Seq(S), NEW t \in Seq(S), NEW x \in S
  PROVE  AppendsLast(s, t, x)
  BY SMT DEF AppendsLast

LEMMA FlattenConcat ==
  ASSUME NEW S, NEW s \in Seq(Seq(S)), NEW t \in Seq(Seq(S))
  PROVE  FlattenSeq(s \o t) = FlattenSeq(s) \o FlattenSeq(t)
<1> DEFINE Ok(u) == FlattenSeq(s \o u) = FlattenSeq(s) \o FlattenSeq(u)
           T     == {k \in Nat : \E u \in Seq(Seq(S)) : Len(u) = k /\ ~Ok(u)}
<1>1. SUFFICES ASSUME T # {} PROVE FALSE
  <2>1. Len(t) \in Nat /\ Len(t) \notin T
    BY <1>1, LenProperties
  <2> QED
    BY <2>1
<1>2. PICK k \in T : \A m \in T : k <= m
  <2>1. T \in SUBSET Nat
    OBVIOUS
  <2> HIDE DEF T
  <2> QED
    BY <2>1, <1>1, Least
<1>3. PICK u \in Seq(Seq(S)) : Len(u) = k /\ ~Ok(u)
  BY <1>2
<1>4. PICK fs \in Seq(S) : fs = FlattenSeq(s)
  BY FlattenType
<1>5. CASE u = <<>>
  BY <1>3, <1>4, <1>5, FlattenEmpty, ConcatEmptySeq
<1>6. CASE u # <<>>
  <2>1. PICK v \in Seq(Seq(S)), x \in Seq(S) : u = Append(v, x)
    BY <1>6, SequenceEmptyOrAppend
  <2>2. Len(v) \in Nat /\ k = Len(v) + 1
    BY <1>3, <2>1, LenProperties, AppendProperties
  <2>3. Len(v) \notin T
    <3>1. ~(k <= Len(v))
      BY <2>2
    <3> QED
      BY <1>2, <3>1
  <2>4. Ok(v)
    BY <2>2, <2>3
  <2>5. s \o v \in Seq(Seq(S))
    BY ConcatProperties
  <2>6. s \o u = Append(s \o v, x)
    <3>1. AppendsLast(s, v, x)
      BY ConcatOne, Zenon
    <3> QED
      BY <2>1, <3>1 DEF AppendsLast
  <2>7. FlattenSeq(s \o u) = FlattenSeq(s \o v) \o x
    BY <2>5, <2>6, FlattenAppend
  <2>8. PICK fv \in Seq(S) : fv = FlattenSeq(v)
    BY FlattenType
  <2>9. FlattenSeq(u) = fv \o x
    BY <2>1, <2>8, FlattenAppend
  <2>10. (fs \o fv) \o x = fs \o (fv \o x)
    <3>1. Associates(fs, fv, x)
      BY ConcatMore, Zenon
    <3> QED
      BY <3>1 DEF Associates
  <2> QED
    BY <1>3, <1>4, <2>4, <2>7, <2>8, <2>9, <2>10
<1> QED
  BY <1>5, <1>6
-----------------------------------------------------------------------------
(* The contents of n BDs from BD i on, with d for data. *)
Buffers(d, i, n) == [k \in 1..n |-> d[(i + k - 1) % N]]

(***************************************************************************)
(* The types of what TxInv does not speak of.  The packets in the queue    *)
(* have been sent, so a packet taken from it has its size.                 *)
(***************************************************************************)
Typed ==
    /\ last \in [Slot -> BOOLEAN]
    /\ data \in [Slot -> Seq(Frag)]
    /\ avail \in 0..FragMax
    /\ size \in Seq(1..MaxFrags) /\ Len(size) <= MaxPackets
    /\ queue \in Seq(1..Len(size))
    /\ rest \in [Thread -> Seq(Frag)]
    /\ lock \in Thread \union {"none"}
    /\ awaited \in Slot
    /\ hw \in Slot
    /\ wire \in Seq(Frag)

LEMMA RingIndex == \A i \in Int : i % N \in Slot
  BY DEF Slot

LEMMA BuffersType ==
  ASSUME NEW d \in [Slot -> Seq(Frag)], NEW i \in Slot, NEW n \in Nat
  PROVE  /\ Buffers(d, i, n) \in Seq(Seq(Frag))
         /\ Len(Buffers(d, i, n)) = n
         /\ \A k \in 1..n : Buffers(d, i, n)[k] = d[(i + k - 1) % N]
<1> DEFINE b == Buffers(d, i, n)
<1>1. ASSUME NEW k \in 1..n PROVE d[(i + k - 1) % N] \in Seq(Frag)
  <2>1. (i + k - 1) % N \in Slot
    <3>1. i + k - 1 \in Int
      BY DEF Slot
    <3> QED
      BY <3>1, RingIndex
  <2> QED
    BY <2>1
<1>2. b \in [1..n -> Seq(Frag)] /\ \A k \in 1..n : b[k] = d[(i + k - 1) % N]
  BY <1>1 DEF Buffers
<1> HIDE DEF b
<1>3. b \in Seq(Seq(Frag)) /\ Len(b) = n
  <2> DEFINE S == Seq(Frag)
  <2>1. b \in [1..n -> S]
    BY <1>2
  <2> HIDE DEF S
  <2>2. b \in Seq(S)
    BY <2>1, SeqDef
  <2>3. Len(b) = n
    BY <2>1, <2>2, LenProperties
  <2> QED
    BY <2>2, <2>3 DEF S
<1> QED
  BY <1>2, <1>3 DEF b

LEMMA PacketType ==
  ASSUME Typed, NEW p \in 1..Len(size)
  PROVE  /\ Packet(p) \in Seq(Frag)
         /\ Packet(p) # <<>>
         /\ Len(Packet(p)) = size[p]
         /\ \A i \in 1..size[p] : Packet(p)[i] = <<p, i>>
<1>1. PICK n \in 1..MaxFrags : n = size[p]
  BY DEF Typed
<1>2. p \in 1..MaxPackets
  BY DEF Typed
<1>3. Packet(p) \in [1..n -> Frag] /\ \A i \in 1..n : Packet(p)[i] = <<p, i>>
  BY <1>1, <1>2 DEF Packet, Frag
<1>4. Packet(p) \in Seq(Frag)
  BY <1>3, SeqDef
<1>5. Len(Packet(p)) = n
  BY <1>3, <1>4, LenProperties
<1> QED
  BY <1>1, <1>3, <1>4, <1>5, EmptySeq

LEMMA DequeuedType ==
  ASSUME Typed, NEW t \in Thread
  PROVE  /\ Dequeued(t) \in Seq(Frag)
         /\ rest[t] = <<>> /\ queue # <<>> => Head(queue) \in 1..Len(size)
<1>1. rest[t] = <<>> /\ queue # <<>> => Head(queue) \in 1..Len(size)
  BY HeadTailProperties DEF Typed
<1>2. CASE rest[t] # <<>>
  BY <1>1, <1>2 DEF Dequeued, Typed
<1>3. CASE rest[t] = <<>> /\ queue # <<>>
  BY <1>1, <1>3, PacketType DEF Dequeued
<1>4. CASE rest[t] = <<>> /\ queue = <<>>
  BY <1>1, <1>4, EmptySeq DEF Dequeued
<1> QED
  BY <1>2, <1>3, <1>4

(* The fragments before the submitted one in a compacted frame. *)
Before == FlattenSeq(Buffers(data, first, Dist(first, current)))

LEMMA BeforeType ==
  ASSUME OpenFrame, data \in [Slot -> Seq(Frag)]
  PROVE  Before \in Seq(Frag)
<1>1. Dist(first, current) \in Nat /\ first \in Slot
  <2>1. first \in Slot /\ current \in Slot
    BY DEF OpenFrame
  <2>2. Dist(first, current) \in 0..(N - 1)
    BY <2>1, DistFacts
  <2> QED
    BY <2>1, <2>2
<1>2. Buffers(data, first, Dist(first, current)) \in Seq(Seq(Frag))
  BY <1>1, BuffersType
<1> QED
  BY <1>2, FlattenType DEF Before

LEMMA SubmitTyped ==
  ASSUME OpenFrame, Typed, NEW t \in Thread, Dequeued(t) # <<>>, Submit(t),
         UNCHANGED <<size, hw, wire>>, lock' \in Thread \union {"none"}, awaited' \in Slot
  PROVE  Typed'
<1> DEFINE m    == Dequeued(t)
           slot == IF FrameFull THEN first ELSE current
<1>1. m \in Seq(Frag) /\ Head(m) \in Frag /\ Tail(m) \in Seq(Frag)
  BY DequeuedType, HeadTailProperties
<1>2. last' \in [Slot -> BOOLEAN]
  BY DEF Submit, Typed
<1>3. data' \in [Slot -> Seq(Frag)]
  <2>1. Before \in Seq(Frag)
    BY BeforeType DEF Typed
  <2>2. data' = [data EXCEPT ![slot] = IF FrameFull THEN Append(Before, Head(m))
                                       ELSE <<Head(m)>>]
    BY DEF Submit, Before, Buffers, Dist
  <2>3. Append(Before, Head(m)) \in Seq(Frag) /\ <<Head(m)>> \in Seq(Frag)
    <3> HIDE DEF m
    <3>1. \A f \in Frag, b \in Seq(Frag) : Append(b, f) \in Seq(Frag) /\ <<f>> \in Seq(Frag)
      OBVIOUS
    <3> QED
      BY <1>1, <2>1, <3>1
  <2>4. data \in [Slot -> Seq(Frag)]
    BY DEF Typed
  <2> HIDE DEF slot, m
  <2> QED
    BY <2>2, <2>3, <2>4
<1>4. avail' \in 0..FragMax
  <2>1. avail' = FragMax \/ avail' = (IF FrameFull THEN FragMax - 1 ELSE avail) - 1
    BY DEF Submit
  <2>2. avail \in 0..FragMax
    BY DEF Typed
  <2> QED
    BY <2>1, <2>2 DEF FrameFull, FragMax
<1>5. queue' \in Seq(1..Len(size))
  <2>1. rest[t] = <<>> => queue # <<>>
    BY DEF Dequeued
  <2>2. queue' = IF rest[t] = <<>> THEN Tail(queue) ELSE queue
    BY DEF Submit
  <2>3. queue # <<>> => Tail(queue) \in Seq(1..Len(size))
    BY HeadTailProperties DEF Typed
  <2> QED
    BY <2>1, <2>2, <2>3 DEF Typed
<1>6. rest' \in [Thread -> Seq(Frag)]
  <2>1. rest' = [rest EXCEPT ![t] = Tail(m)] /\ rest \in [Thread -> Seq(Frag)]
    BY DEF Submit, Typed
  <2> HIDE DEF m
  <2> QED
    BY <2>1, <1>1
<1> QED
  BY <1>2, <1>3, <1>4, <1>5, <1>6 DEF Typed, FragMax
(***************************************************************************)
(* Every other step appends a packet to the queue, forgets one, or sends.  *)
(***************************************************************************)
LEMMA TypedStep == TxInv /\ Typed /\ [Next]_vars => Typed'
<1> SUFFICES ASSUME TxInv, Typed, [Next]_vars PROVE Typed'
  OBVIOUS
<1>0. OpenFrame /\ Sender \subseteq Thread /\ "tx" \in Thread
  BY DEF TxInv, Thread
<1>1. ASSUME NEW s \in Sender, NEW n \in 1..MaxFrags, Enqueue(s, n) PROVE Typed'
  <2>1. Len(size) \in Nat /\ Len(size) < MaxPackets
    BY <1>1, LenProperties DEF Enqueue, Typed
  <2>2. size' \in Seq(1..MaxFrags) /\ Len(size') = Len(size) + 1
    BY <1>1, AppendProperties DEF Enqueue, Typed
  <2>3. queue' \in Seq(1..Len(size'))
    <3>1. queue \in Seq(1..Len(size'))
      BY <2>1, <2>2, SeqMonotonic DEF Typed
    <3>2. Len(size') \in 1..Len(size')
      BY <2>1, <2>2
    <3> QED
      BY <1>1, <3>1, <3>2, AppendProperties DEF Enqueue
  <2>4. lock' \in Thread \union {"none"}
    BY <1>0, <1>1 DEF Enqueue, Typed
  <2> QED
    BY <1>1, <2>1, <2>2, <2>3, <2>4 DEF Enqueue, Typed, bds, FragMax
<1>2. ASSUME NEW s \in Sender, TestActive(s) \/ Lock(s) PROVE Typed'
  BY <1>0, <1>2 DEF TestActive, Return, Lock, Typed, bds, stack, FragMax
<1>3. ASSUME NEW s \in Sender, SubmitDirect(s) PROVE Typed'
  <2>1. lock' \in Thread \union {"none"} /\ awaited' \in Slot
    BY <1>3 DEF SubmitDirect, Typed
  <2>2. UNCHANGED <<size, hw, wire>> /\ Submit(s) /\ Dequeued(s) # <<>>
    BY <1>3 DEF SubmitDirect
  <2> QED
    BY <1>0, <2>1, <2>2, SubmitTyped
<1>4. ASSUME NEW s \in Sender, RingFull(s) PROVE Typed'
  <2>1. rest' \in [Thread -> Seq(Frag)]
    BY <1>4, EmptySeq DEF RingFull, Forget, Typed
  <2> QED
    BY <1>0, <1>4, <2>1 DEF RingFull, Typed, bds, stack, FragMax
<1>5. ASSUME NEW s \in Sender, AllSubmitted(s) \/ SetActive(s) \/ Notify(s) PROVE Typed'
  BY <1>0, <1>5 DEF AllSubmitted, SetActive, Notify, Return, Typed, bds, stack, FragMax
<1>6. ASSUME Wake \/ QueueEmpty \/ ClearActive \/ TxLock PROVE Typed'
  BY <1>0, <1>6 DEF Wake, QueueEmpty, ClearActive, TxLock, Typed, bds, stack, FragMax
<1>7. ASSUME SubmitAndWait PROVE Typed'
  <2>1. OpenFrame'
    BY <1>0, <1>7, SubmitMoves DEF SubmitAndWait
  <2>2. lock' \in Thread \union {"none"} /\ awaited' \in Slot
    BY <1>7, <2>1 DEF SubmitAndWait, Typed, OpenFrame
  <2>3. UNCHANGED <<size, hw, wire>> /\ Submit("tx") /\ Dequeued("tx") # <<>>
    BY <1>7 DEF SubmitAndWait
  <2> QED
    BY <1>0, <2>2, <2>3, SubmitTyped
<1>8. ASSUME Close PROVE Typed'
  <2>1. hw' \in Slot
    BY <1>8, DistFacts DEF Close, Typed
  <2>2. wire' \in Seq(Frag)
    BY <1>8, EmptySeq, ConcatProperties DEF Close, Typed
  <2> QED
    BY <1>8, <2>1, <2>2 DEF Close, Typed, stack, FragMax
<1>9. CASE UNCHANGED vars
  BY <1>9 DEF vars, bds, stack, Typed, FragMax
<1> QED
  BY <1>1, <1>2, <1>3, <1>4, <1>5, <1>6, <1>7, <1>8, <1>9 DEF Next, Driver, TxTask

LEMMA TypedInit == Init => Typed
<1> SUFFICES ASSUME Init PROVE Typed
  OBVIOUS
<1>1. 0 \in Slot /\ FragMax \in 0..FragMax
  BY DEF Slot, FragMax
<1>2. \A S : <<>> \in Seq(S)
  BY EmptySeq
<1>3. Len(size) = 0
  BY DEF Init
<1> QED
  BY <1>1, <1>2, <1>3 DEF Init, Typed

(***************************************************************************)
(* The state of the driver has its types: what is compacted into a buffer  *)
(* consists of fragments, and a packet that is dequeued has been sent.     *)
(***************************************************************************)
THEOREM TypeAlwaysOK == Spec => []TypeOK
<1>1. TxInv /\ Typed => TypeOK
  <2> SUFFICES ASSUME TxInv, Typed PROVE TypeOK
    OBVIOUS
  <2>1. queue \in Seq(1..MaxPackets)
    <3>1. Len(size) \in Nat /\ Len(size) <= MaxPackets
      BY LenProperties DEF Typed
    <3>2. 1..Len(size) \subseteq 1..MaxPackets
      BY <3>1
    <3> QED
      BY <3>2, SeqMonotonic DEF Typed
  <2> QED
    BY <2>1 DEF TxInv, OpenFrame, Places, Place, Typed, TypeOK
<1>2. Init => TxInv /\ Typed
  BY TxInit, TypedInit
<1>3. TxInv /\ Typed /\ [Next]_vars => (TxInv /\ Typed)'
  BY TxStep, TypedStep
<1> QED
  BY <1>1, <1>2, <1>3, PTL DEF Spec
-----------------------------------------------------------------------------
(* A remainder of N in the range that occurs here, without the division. *)
LEMMA ModIs ==
  /\ \A i \in 0..(N - 1) : i % N = i
  /\ \A i \in N..(2 * N - 1) : i % N = i - N
  /\ \A i \in (-N)..(-1) : i % N = i + N
  OBVIOUS

LEMMA SlotIs ==
  ASSUME NEW i \in Slot
  PROVE  /\ i \in 0..(N - 1)
         /\ \A k \in 0..N : (i + k) % N = IF i + k < N THEN i + k ELSE (i + k) - N
         /\ Succ(i) = IF i = N - 1 THEN 0 ELSE i + 1
         /\ \A j \in Slot : Dist(i, j) = IF i <= j THEN j - i ELSE (j - i) + N
<1>1. i \in 0..(N - 1) /\ N \in Nat /\ N >= 3
  BY DEF Slot
<1>2. ASSUME NEW k \in 0..N PROVE (i + k) % N = IF i + k < N THEN i + k ELSE (i + k) - N
  <2>1. PICK x \in Nat : x = i + k
    BY <1>1
  <2>2. x \in 0..(N - 1) \/ x \in N..(2 * N - 1)
    BY <1>1, <2>1
  <2>3. x % N = IF x < N THEN x ELSE x - N
    BY <2>2, ModIs
  <2> QED
    BY <2>1, <2>3
<1>3. Succ(i) = IF i = N - 1 THEN 0 ELSE i + 1
  <2>1. (i + 1) % N = IF i + 1 < N THEN i + 1 ELSE (i + 1) - N
    BY <1>1, <1>2
  <2> QED
    BY <1>1, <2>1 DEF Succ
<1>4. ASSUME NEW j \in Slot PROVE Dist(i, j) = IF i <= j THEN j - i ELSE (j - i) + N
  <2>1. PICK x \in Int : x = j - i
    BY <1>1 DEF Slot
  <2>2. x \in 0..(N - 1) \/ x \in (-N)..(-1)
    BY <1>1, <2>1 DEF Slot
  <2>3. x % N = IF 0 <= x THEN x ELSE x + N
    BY <2>2, ModIs
  <2> QED
    BY <1>1, <2>1, <2>3 DEF Dist, Slot
<1> QED
  BY <1>1, <1>2, <1>3, <1>4

(* The BD k behind BD i is at distance k, and no other is. *)
LEMMA BehindIs ==
  ASSUME NEW i \in Slot
  PROVE  /\ \A k \in 0..(N - 1) : (i + k) % N \in Slot /\ Dist(i, (i + k) % N) = k
         /\ \A j \in Slot : Dist(i, j) \in 0..(N - 1) /\ (i + Dist(i, j)) % N = j
         /\ \A j, k \in Slot : Dist(i, j) = Dist(i, k) => j = k
         /\ \A j, k \in Slot : Dist(i, k) = IF Dist(i, j) + Dist(j, k) < N
                                            THEN Dist(i, j) + Dist(j, k)
                                            ELSE (Dist(i, j) + Dist(j, k)) - N
<1>1. i \in 0..(N - 1) /\ N \in Nat /\ N >= 3
  BY DEF Slot
<1>2. ASSUME NEW k \in 0..(N - 1) PROVE (i + k) % N \in Slot /\ Dist(i, (i + k) % N) = k
  <2>1. PICK x \in Slot : x = (i + k) % N
    BY <1>1, RingIndex
  <2>2. x = IF i + k < N THEN i + k ELSE (i + k) - N
    <3>1. k \in 0..N
      BY <1>1
    <3>2. (i + k) % N = IF i + k < N THEN i + k ELSE (i + k) - N
      BY <3>1, SlotIs
    <3> QED
      BY <2>1, <3>2
  <2>3. Dist(i, x) = IF i <= x THEN x - i ELSE (x - i) + N
    BY SlotIs
  <2> QED
    BY <1>1, <2>1, <2>2, <2>3
<1>3. ASSUME NEW j \in Slot PROVE Dist(i, j) \in 0..(N - 1) /\ (i + Dist(i, j)) % N = j
  <2>1. PICK x \in Int : x = Dist(i, j)
    BY DistFacts
  <2>2. x = IF i <= j THEN j - i ELSE (j - i) + N
    BY <2>1, SlotIs
  <2>3. x \in 0..(N - 1)
    BY <1>1, <2>2 DEF Slot
  <2>4. (i + x) % N = IF i + x < N THEN i + x ELSE (i + x) - N
    BY <2>3, SlotIs
  <2> QED
    BY <1>1, <2>1, <2>2, <2>3, <2>4 DEF Slot
<1>4. ASSUME NEW j \in Slot, NEW k \in Slot, Dist(i, j) = Dist(i, k) PROVE j = k
  BY <1>3, <1>4
<1>5. ASSUME NEW j \in Slot, NEW k \in Slot
      PROVE  Dist(i, k) = IF Dist(i, j) + Dist(j, k) < N
                          THEN Dist(i, j) + Dist(j, k)
                          ELSE (Dist(i, j) + Dist(j, k)) - N
  <2>1. /\ Dist(i, j) = IF i <= j THEN j - i ELSE (j - i) + N
        /\ Dist(i, k) = IF i <= k THEN k - i ELSE (k - i) + N
        /\ Dist(j, k) = IF j <= k THEN k - j ELSE (k - j) + N
    BY SlotIs
  <2>2. j \in 0..(N - 1) /\ k \in 0..(N - 1)
    BY DEF Slot
  <2> QED
    BY <1>1, <2>1, <2>2
<1> QED
  BY <1>2, <1>3, <1>4, <1>5
-----------------------------------------------------------------------------
LEMMA BuffersAre ==
  ASSUME NEW d \in [Slot -> Seq(Frag)], NEW i \in Slot, NEW n \in Nat,
         NEW b \in Seq(Seq(Frag)), Len(b) = n,
         \A k \in 1..n : b[k] = d[(i + k - 1) % N]
  PROVE  Buffers(d, i, n) = b
<1> DEFINE S == Seq(Frag)
<1>1. b \in Seq(S)
  OBVIOUS
<1> HIDE DEF S
<1>2. b \in [1..n -> S]
  BY <1>1, LenProperties
<1> QED
  BY <1>2 DEF Buffers

(* A fragment in the BD behind n BDs that keep theirs. *)
Extends(d, e, i, n, x) ==
    FlattenSeq(Buffers(e, i, n + 1)) = FlattenSeq(Buffers(d, i, n)) \o x

LEMMA BuffersAppend ==
  ASSUME NEW d \in [Slot -> Seq(Frag)], NEW e \in [Slot -> Seq(Frag)],
         NEW i \in Slot, NEW n \in 0..(N - 1), NEW x \in Seq(Frag),
         \A k \in 0..(n - 1) : e[(i + k) % N] = d[(i + k) % N],
         e[(i + n) % N] = x
  PROVE  Extends(d, e, i, n, x)
<1> DEFINE S == Seq(Frag)
           b == Buffers(d, i, n)
<1>1. b \in Seq(S) /\ Len(b) = n /\ \A k \in 1..n : b[k] = d[(i + k - 1) % N]
  <2>1. n \in Nat
    OBVIOUS
  <2> QED
    BY <2>1, BuffersType
<1>2. x \in S
  OBVIOUS
<1>3. Append(b, x) \in Seq(S)
  <2> HIDE DEF S, b
  <2>1. b \in Seq(S) /\ Len(b) = n
    BY <1>1
  <2> QED
    BY <2>1, <1>2, AppendProperties
<1>4. /\ Len(Append(b, x)) = n + 1
      /\ \A k \in 1..n : Append(b, x)[k] = b[k]
      /\ Append(b, x)[n + 1] = x
  <2> HIDE DEF S, b
  <2>1. b \in Seq(S) /\ Len(b) = n
    BY <1>1
  <2> QED
    BY <2>1, <1>2, AppendProperties
<1>5. ASSUME NEW k \in 1..(n + 1) PROVE Append(b, x)[k] = e[(i + k - 1) % N]
  <2>1. i + k - 1 = i + (k - 1) /\ i \in Int
    BY DEF Slot
  <2>2. CASE k = n + 1
    BY <2>1, <2>2, <1>4
  <2>3. CASE k # n + 1
    <3>1. k \in 1..n /\ k - 1 \in 0..(n - 1)
      BY <2>3
    <3>2. e[(i + (k - 1)) % N] = d[(i + (k - 1)) % N]
      BY <3>1
    <3>3. Append(b, x)[k] = d[(i + k - 1) % N]
      BY <3>1, <1>1, <1>4
    <3> QED
      BY <3>2, <3>3, <2>1
  <2> QED
    BY <2>2, <2>3
<1>6. Buffers(e, i, n + 1) = Append(b, x)
  <2> HIDE DEF b
  <2>1. n + 1 \in Nat /\ Append(b, x) \in Seq(Seq(Frag))
    BY <1>3
  <2> QED
    BY <2>1, <1>4, <1>5, BuffersAre
<1>7. FlattenSeq(Append(b, x)) = FlattenSeq(b) \o x
  <2> HIDE DEF b
  <2>1. b \in Seq(Seq(Frag))
    BY <1>1
  <2> QED
    BY <2>1, FlattenAppend
<1> QED
  BY <1>6, <1>7 DEF Extends

(* The BDs from i on are n BDs and, from j on, m more. *)
Splits(d, i, j, n, m) ==
    FlattenSeq(Buffers(d, i, n + m)) = FlattenSeq(Buffers(d, i, n))
                                       \o FlattenSeq(Buffers(d, j, m))

LEMMA BuffersSplit ==
  ASSUME NEW d \in [Slot -> Seq(Frag)], NEW i \in Slot, NEW j \in Slot,
         NEW n \in Nat, NEW m \in Nat, n + m <= N, j = (i + n) % N
  PROVE  Splits(d, i, j, n, m)
<1> DEFINE S == Seq(Frag)
           b == Buffers(d, i, n)
           c == Buffers(d, j, m)
<1>1. /\ b \in Seq(S) /\ Len(b) = n /\ \A k \in 1..n : b[k] = d[(i + k - 1) % N]
      /\ c \in Seq(S) /\ Len(c) = m /\ \A k \in 1..m : c[k] = d[(j + k - 1) % N]
  BY BuffersType, ZenonT(60)
<1>2. /\ b \o c \in Seq(S)
      /\ Len(b \o c) = n + m
      /\ \A k \in 1..(n + m) : (b \o c)[k] = IF k <= n THEN b[k] ELSE c[k - n]
  <2> HIDE DEF b, c, S
  <2>1. /\ b \o c \in Seq(S)
        /\ Len(b \o c) = Len(b) + Len(c)
        /\ \A k \in 1..(Len(b) + Len(c)) :
              (b \o c)[k] = IF k <= Len(b) THEN b[k] ELSE c[k - Len(b)]
    <3>1. b \in Seq(S) /\ c \in Seq(S)
      BY <1>1
    <3> QED
      BY <3>1, ConcatProperties
  <2> QED
    BY <1>1, <2>1
<1>3. ASSUME NEW k \in 1..(n + m) PROVE (b \o c)[k] = d[(i + k - 1) % N]
  <2>1. CASE k <= n
    BY <2>1, <1>1, <1>2
  <2>2. CASE ~(k <= n)
    <3>1. PICK x \in 1..m : x = k - n
      BY <2>2
    <3>2. (b \o c)[k] = c[x]
      BY <2>2, <3>1, <1>2
    <3>3. (b \o c)[k] = d[(j + x - 1) % N]
      BY <3>1, <3>2, <1>1
    <3>4. (j + x - 1) % N = (i + k - 1) % N
      <4>1. PICK y \in 0..(N - 1) : y = x - 1
        BY <3>1
      <4>2. PICK z \in 0..(N - 1) : z = n + y /\ z = k - 1
        BY <3>1, <4>1
      <4>3. n \in 0..N /\ i \in 0..(N - 1) /\ j \in 0..(N - 1)
        BY DEF Slot
      <4>4. j = IF i + n < N THEN i + n ELSE (i + n) - N
        BY <4>3, SlotIs
      <4>5. /\ (j + y) % N = IF j + y < N THEN j + y ELSE (j + y) - N
            /\ (i + z) % N = IF i + z < N THEN i + z ELSE (i + z) - N
        <5>1. y \in 0..N /\ z \in 0..N
          BY <4>1, <4>2
        <5> QED
          BY <5>1, SlotIs
      <4>6. (j + y) % N = (i + z) % N
        BY <4>2, <4>3, <4>4, <4>5, SMTT(30)
      <4>7. j + x - 1 = j + y /\ i + k - 1 = i + z
        BY <4>1, <4>2, <4>3
      <4> QED
        BY <4>6, <4>7
    <3> QED
      BY <3>3, <3>4
  <2> QED
    BY <2>1, <2>2
<1>4. Buffers(d, i, n + m) = b \o c
  <2> HIDE DEF b, c
  <2>1. n + m \in Nat /\ b \o c \in Seq(Seq(Frag))
    BY <1>2
  <2> QED
    BY <2>1, <1>2, <1>3, BuffersAre, ZenonT(60)
<1>5. FlattenSeq(b \o c) = FlattenSeq(b) \o FlattenSeq(c)
  <2> HIDE DEF b, c
  <2>1. b \in Seq(Seq(Frag)) /\ c \in Seq(Seq(Frag))
    BY <1>1
  <2> QED
    BY <2>1, FlattenConcat
<1> QED
  BY <1>4, <1>5 DEF Splits

LEMMA BuffersOne ==
  ASSUME NEW d \in [Slot -> Seq(Frag)], NEW i \in Slot
  PROVE  /\ FlattenSeq(Buffers(d, i, 0)) = <<>>
         /\ FlattenSeq(Buffers(d, i, 1)) = d[i]
<1>1. Buffers(d, i, 0) = <<>>
  BY BuffersType, EmptySeq
<1>2. (i + 0) % N = i /\ d[i] \in Seq(Frag)
  BY ModIs DEF Slot
<1>3. FlattenSeq(Buffers(d, i, 0 + 1)) = FlattenSeq(Buffers(d, i, 0)) \o d[i]
  <2>1. PICK n \in 0..(N - 1) : n = 0
    OBVIOUS
  <2>2. d[(i + n) % N] = d[i]
    BY <1>2, <2>1
  <2>3. FlattenSeq(Buffers(d, i, n + 1)) = FlattenSeq(Buffers(d, i, n)) \o d[i]
    <3>1. \A k \in 0..(n - 1) : d[(i + k) % N] = d[(i + k) % N]
      OBVIOUS
    <3>2. Extends(d, d, i, n, d[i])
      BY <1>2, <2>2, <3>1, BuffersAppend, Zenon
    <3> QED
      BY <3>2 DEF Extends
  <2> QED
    BY <2>1, <2>3
<1> QED
  BY <1>1, <1>2, <1>3, FlattenEmpty, ConcatEmptySeq
-----------------------------------------------------------------------------
(* The BDs from hw on that are released, and behind them the open frame's. *)
Released == IF hw = first /\ ready[hw] THEN N ELSE Dist(hw, first)

Pending == Dist(first, current)

(***************************************************************************)
(* The BDs with fragments lie behind each other from hw to the one before  *)
(* current, at most N of them; all are ready but the first of an open      *)
(* frame, and no other BD is.                                              *)
(***************************************************************************)
RingOK ==
    /\ Released + Pending <= N
    /\ \A i \in Slot : ready[i] <=> /\ Dist(hw, i) < Released + Pending
                                    /\ Dist(hw, i) # Released

LEMMA StreamIs ==
  Stream = wire \o FlattenSeq(Buffers(data, hw, Released + Pending))
  BY DEF Stream, Buffers, Released, Pending, Dist

LEMMA Shape ==
  ASSUME OpenFrame, hw \in Slot, RingOK
  PROVE  /\ Released \in 0..N /\ Pending \in 0..(N - 1)
         /\ Released + Pending \in 0..N
         /\ Dist(hw, first) = IF Released = N THEN 0 ELSE Released
         /\ Released = N => hw = first /\ Pending = 0
         /\ (hw + Released) % N = first
<1> USE DEF OpenFrame
<1>1. Dist(hw, first) \in 0..(N - 1) /\ Pending \in 0..(N - 1)
  BY DistFacts DEF Pending
<1>2. Released \in 0..N /\ (Released = N \/ Released = Dist(hw, first))
  BY <1>1 DEF Released
<1>3. Released = N => hw = first /\ Pending = 0
  BY <1>1 DEF Released, RingOK
<1>4. Dist(hw, first) = IF Released = N THEN 0 ELSE Released
  BY <1>1, <1>2, <1>3, DistFacts
<1>5. (hw + Released) % N = first
  <2>1. CASE Released = N
    <3>1. (hw + N) % N = IF hw + N < N THEN hw + N ELSE (hw + N) - N
      BY SlotIs
    <3> QED
      BY <2>1, <3>1, <1>3 DEF Slot
  <2>2. CASE Released # N
    BY <2>2, <1>2, BehindIs
  <2> QED
    BY <2>1, <2>2
<1> QED
  BY <1>1, <1>2, <1>3, <1>4, <1>5 DEF RingOK

(* A BD is free to submit to exactly when the ring is not full. *)
LEMMA FreeShape ==
  ASSUME OpenFrame, hw \in Slot, RingOK, ~ready[current]
  PROVE  /\ Released + Pending <= N - 1
         /\ Released = Dist(hw, first)
         /\ Dist(hw, current) = Released + Pending
<1> USE DEF OpenFrame
<1>1. /\ Released \in 0..N /\ Pending \in 0..(N - 1)
      /\ Released + Pending <= N
      /\ Dist(hw, first) = IF Released = N THEN 0 ELSE Released
      /\ Released = N => hw = first /\ Pending = 0
  BY Shape
<1>2. Dist(hw, current) = IF Dist(hw, first) + Pending < N
                          THEN Dist(hw, first) + Pending
                          ELSE (Dist(hw, first) + Pending) - N
  BY BehindIs DEF Pending
<1>3. ready[current] <=> /\ Dist(hw, current) < Released + Pending
                         /\ Dist(hw, current) # Released
  BY DEF RingOK
<1>4. N \in Nat /\ N >= 3
  OBVIOUS
<1>5. PICK r \in Nat, d \in Nat, h \in Int :
         r = Released /\ d = Pending /\ h = Dist(hw, first)
  BY <1>1
<1> QED
  BY <1>1, <1>2, <1>3, <1>4, <1>5
-----------------------------------------------------------------------------
(* The BD a fragment goes to. *)
Target == IF FrameFull THEN first ELSE current

LEMMA DistAdds ==
  ASSUME NEW i \in Slot, NEW j \in Slot, NEW k \in Slot
  PROVE  Dist(i, k) = IF Dist(i, j) + Dist(j, k) < N
                      THEN Dist(i, j) + Dist(j, k)
                      ELSE (Dist(i, j) + Dist(j, k)) - N
  BY BehindIs

LEMMA SubmitRing ==
  ASSUME OpenFrame, hw \in Slot, RingOK, ~ready[current], NEW t \in Thread, Submit(t),
         hw' = hw
  PROVE  /\ RingOK'
         /\ Released' + Pending' = Dist(hw, Target) + 1
         /\ Dist(hw, Target) = IF FrameFull THEN Released ELSE Released + Pending
         /\ Target \in Slot
<1> DEFINE isLast == Len(Dequeued(t)) = 1
<1>0. N \in Nat /\ N >= 3
  OBVIOUS
<1>1. PICK r \in Nat, d \in Nat :
         /\ r = Released /\ d = Pending /\ r + d <= N - 1
         /\ Dist(hw, first) = r /\ Dist(hw, current) = r + d
         /\ Dist(first, current) = d
  BY Shape, FreeShape DEF Pending
<1>2. /\ first \in Slot /\ current \in Slot /\ ready \in [Slot -> BOOLEAN]
      /\ FrameFull => d >= 1
      /\ ~FrameFull => d <= N - 2
  <2>1. avail \in Int /\ avail + d <= FragMax /\ (current = first => avail = FragMax)
    BY <1>1 DEF OpenFrame
  <2>2. d = 0 => current = first
    BY <1>1, DistFacts DEF OpenFrame
  <2> QED
    BY <1>0, <2>1, <2>2 DEF FrameFull, FragMax, OpenFrame
<1>3. /\ Target \in Slot /\ current' = Succ(Target)
      /\ isLast => first' = Succ(Target)
      /\ ~isLast => first' = first
  BY <1>2 DEF Submit, Target
<1>4. PICK s \in Nat : /\ s = Dist(hw, Target) /\ s + 1 <= N
                       /\ s = IF FrameFull THEN r ELSE r + d
                       /\ FrameFull => s + 1 < N
  BY <1>0, <1>1, <1>2 DEF Target
<1>5. ASSUME FrameFull, NEW i \in Slot
      PROVE  i \in {(first + k) % N : k \in 0..((current - first) % N)}
             <=> Dist(hw, i) \in r..(r + d)
  <2>1. (current - first) % N = d
    BY <1>1 DEF Dist
  <2>2. d <= N - 1
    BY <1>0, <1>1
  <2>3. i \in {(first + k) % N : k \in 0..d} <=> Dist(first, i) <= d
    <3>1. ASSUME NEW k \in 0..d, i = (first + k) % N PROVE Dist(first, i) <= d
      <4>1. k \in 0..(N - 1)
        BY <2>2
      <4>2. Dist(first, i) = k
        BY <3>1, <4>1, <1>2, BehindIs
      <4> QED
        BY <4>2
    <3>2. ASSUME Dist(first, i) <= d PROVE \E k \in 0..d : i = (first + k) % N
      <4>1. Dist(first, i) \in 0..d /\ i = (first + Dist(first, i)) % N
        BY <3>2, <1>2, BehindIs
      <4> QED
        BY <4>1
    <3> QED
      BY <3>1, <3>2
  <2>4. /\ Dist(first, i) \in 0..(N - 1)
        /\ Dist(hw, i) = IF r + Dist(first, i) < N THEN r + Dist(first, i)
                         ELSE (r + Dist(first, i)) - N
    <3>1. Dist(hw, i) = IF Dist(hw, first) + Dist(first, i) < N
                        THEN Dist(hw, first) + Dist(first, i)
                        ELSE (Dist(hw, first) + Dist(first, i)) - N
      BY <1>2, DistAdds
    <3>2. Dist(first, i) \in 0..(N - 1)
      BY <1>2, BehindIs
    <3> QED
      BY <3>1, <3>2, <1>1
  <2>5. Dist(hw, i) \in r..(r + d) <=> Dist(first, i) <= d
    <3>1. PICK x \in 0..(N - 1), y \in Int : x = Dist(first, i) /\ y = Dist(hw, i)
      BY <2>4
    <3>2. y = IF r + x < N THEN r + x ELSE (r + x) - N
      BY <2>4, <3>1
    <3> QED
      BY <3>1, <3>2, <1>0, <1>1
  <2> QED
    BY <2>1, <2>3, <2>5
<1>6. ASSUME NEW i \in Slot
      PROVE  /\ i = Target => ready'[i] = (isLast \/ Target # first)
             /\ i # Target /\ i = first => ready'[i] = isLast
             /\ i # Target /\ i # first =>
                   (ready'[i] <=> ready[i] /\ (FrameFull => Dist(hw, i) \notin r..(r + d)))
  <2>1. /\ i = Target => ready'[i] = (isLast \/ Target # first)
        /\ i # Target /\ i = first => ready'[i] = isLast
    BY <1>2 DEF Submit, Target
  <2>2. CASE i # Target /\ i # first /\ FrameFull
    <3>1. ready'[i] = (ready[i] /\ i \notin {(first + k) % N : k \in 0..((current - first) % N)})
      BY <2>2, <1>2 DEF Submit, Target
    <3> QED
      BY <2>1, <2>2, <3>1, <1>5
  <2>3. CASE i # Target /\ i # first /\ ~FrameFull
    <3>1. ready'[i] = ready[i]
      BY <2>3, <1>2 DEF Submit, Target
    <3> QED
      BY <2>1, <2>3, <3>1
  <2> QED
    BY <2>1, <2>2, <2>3
<1>7. Dist(hw, Succ(Target)) = IF s + 1 = N THEN 0 ELSE s + 1
  <2>1. Succ(Target) \in Slot /\ Dist(Target, Succ(Target)) = 1
    BY <1>3, DistFacts
  <2>2. Dist(hw, Succ(Target)) = IF s + 1 < N THEN s + 1 ELSE (s + 1) - N
    <3>1. Dist(hw, Succ(Target)) = IF Dist(hw, Target) + Dist(Target, Succ(Target)) < N
                                   THEN Dist(hw, Target) + Dist(Target, Succ(Target))
                                   ELSE (Dist(hw, Target) + Dist(Target, Succ(Target))) - N
      BY <2>1, <1>3, DistAdds
    <3> QED
      BY <2>1, <3>1, <1>4
  <2> QED
    BY <2>2, <1>0, <1>4
<1>8. isLast => Pending' = 0 /\ Released' = s + 1
  <2>1. SUFFICES ASSUME isLast PROVE Pending' = 0 /\ Released' = s + 1
    OBVIOUS
  <2>2. first' = Succ(Target) /\ current' = Succ(Target) /\ Succ(Target) \in Slot
    BY <2>1, <1>3, DistFacts
  <2>3. Pending' = 0
    BY <2>2, DistFacts DEF Pending, Dist
  <2>4. Released' = IF hw = Succ(Target) /\ ready'[hw] THEN N ELSE Dist(hw, Succ(Target))
    BY <2>2 DEF Released, Dist
  <2>5. CASE s + 1 # N
    <3>1. hw # Succ(Target)
      BY <2>5, <1>4, <1>7, DistFacts, <2>2
    <3> QED
      BY <2>3, <2>4, <2>5, <3>1, <1>7
  <2>6. CASE s + 1 = N
    <3>1. hw = Succ(Target) /\ hw # Target /\ ~FrameFull
      BY <2>2, <2>6, <1>3, <1>4, <1>7, DistFacts
    <3>2. ready'[hw]
      <4>1. CASE hw = first
        BY <2>1, <3>1, <4>1, <1>6
      <4>2. CASE hw # first
        <5>1. Dist(hw, hw) = 0 /\ r # 0
          BY <4>2, <1>1, <1>2, DistFacts
        <5>2. ready[hw]
          BY <5>1, <1>1 DEF RingOK
        <5> QED
          BY <3>1, <4>2, <5>2, <1>6
      <4> QED
        BY <4>1, <4>2
    <3> QED
      BY <2>3, <2>4, <2>6, <3>1, <3>2
  <2> QED
    BY <2>5, <2>6
<1>9. ~isLast => Released' = r /\ Pending' = (s + 1) - r
  <2>1. SUFFICES ASSUME ~isLast PROVE Released' = r /\ Pending' = (s + 1) - r
    OBVIOUS
  <2>2. first' = first /\ current' = Succ(Target)
    BY <2>1, <1>3
  <2>3. Released' = IF hw = first /\ ready'[hw] THEN N ELSE r
    BY <2>2, <1>1 DEF Released, Dist
  <2>4. ~ready'[first]
    BY <2>1, <1>2, <1>6
  <2>5. Pending' = Dist(first, Succ(Target))
    BY <2>2 DEF Pending, Dist
  <2>6. CASE FrameFull
    <3>1. Pending' = 1
      BY <2>5, <2>6, <1>2, DistFacts DEF Target
    <3> QED
      BY <2>3, <2>4, <2>6, <3>1, <1>4
  <2>7. CASE ~FrameFull
    <3>1. Pending' = d + 1
      BY <2>5, <2>7, <1>0, <1>1, <1>2, DistFacts DEF Target
    <3> QED
      BY <2>3, <2>4, <2>7, <3>1, <1>4
  <2> QED
    BY <2>6, <2>7
<1>10. Released' + Pending' = s + 1
  BY <1>1, <1>4, <1>8, <1>9
<1>11. ASSUME NEW i \in Slot
       PROVE  ready'[i] <=> Dist(hw, i) < s + 1 /\ Dist(hw, i) # Released'
  <2>1. PICK x \in 0..(N - 1) : x = Dist(hw, i)
    BY DistFacts
  <2>2. Released' = IF isLast THEN s + 1 ELSE r
    BY <1>8, <1>9
  <2>3. ready[i] <=> x < r + d /\ x # r
    BY <2>1, <1>1 DEF RingOK
  <2>4. (x = s <=> i = Target) /\ (x = r <=> i = first)
    <3>1. Dist(hw, i) = Dist(hw, Target) <=> i = Target
      BY <1>3, BehindIs
    <3>2. Dist(hw, i) = Dist(hw, first) <=> i = first
      BY <1>2, BehindIs
    <3> QED
      BY <3>1, <3>2, <2>1, <1>1, <1>4
  <2>5. CASE i = Target
    <3>1. x = s /\ (s = r <=> Target = first)
      BY <2>4, <2>5
    <3>2. ready'[i] <=> isLast \/ Target # first
      BY <2>5, <1>6
    <3> HIDE DEF isLast
    <3>3. x < s + 1 /\ (x # Released' <=> isLast \/ Target # first)
      BY <2>2, <3>1, <1>1, <1>4
    <3> QED
      BY <2>1, <3>2, <3>3
  <2>6. CASE i # Target /\ i = first
    <3>1. x = r /\ r <= s
      BY <2>4, <2>6, <1>1, <1>4
    <3>2. ready'[i] <=> isLast
      BY <2>6, <1>6
    <3> HIDE DEF isLast
    <3>3. x < s + 1 /\ (x # Released' <=> isLast)
      BY <2>2, <3>1, <1>1, <1>4
    <3> QED
      BY <2>1, <3>2, <3>3
  <2>7. CASE i # Target /\ i # first
    BY <2>1, <2>2, <2>3, <2>4, <2>7, <1>1, <1>2, <1>4, <1>6
  <2> QED
    BY <2>5, <2>6, <2>7
<1>12. RingOK'
  <2>1. \A i \in Slot : Dist(hw, i)' = Dist(hw, i)
    BY DEF Dist
  <2>2. \A i \in Slot : ready'[i] <=> /\ Dist(hw, i) < Released' + Pending'
                                      /\ Dist(hw, i) # Released'
    BY <1>10, <1>11
  <2>3. Released' + Pending' <= N
    BY <1>4, <1>10
  <2> QED
    BY <2>1, <2>2, <2>3 DEF RingOK
<1> QED
  BY <1>1, <1>3, <1>4, <1>10, <1>12
-----------------------------------------------------------------------------
LEMMA FlatType ==
  ASSUME NEW d \in [Slot -> Seq(Frag)], NEW i \in Slot, NEW n \in Nat
  PROVE  FlattenSeq(Buffers(d, i, n)) \in Seq(Frag)
<1>1. Buffers(d, i, n) \in Seq(Seq(Frag))
  BY BuffersType
<1> QED
  BY <1>1, FlattenType

LEMMA StreamType ==
  ASSUME OpenFrame, Typed, RingOK
  PROVE  Stream \in Seq(Frag)
<1>1. Released + Pending \in Nat
  BY Shape DEF Typed
<1>2. PICK f \in Seq(Frag) : f = FlattenSeq(Buffers(data, hw, Released + Pending))
  BY <1>1, FlatType DEF Typed
<1>3. Stream = wire \o f /\ wire \in Seq(Frag)
  BY <1>2, StreamIs DEF Typed
<1> QED
  BY <1>3, ConcatProperties

(***************************************************************************)
(* A submission appends its fragment to what the controller has to send,   *)
(* whether the fragment gets a BD of its own or the frame is compacted.    *)
(***************************************************************************)
LEMMA SubmitStream ==
  ASSUME OpenFrame, Typed, Typed', RingOK, ~ready[current], NEW t \in Thread,
         Dequeued(t) # <<>>, Submit(t), UNCHANGED <<hw, wire>>
  PROVE  /\ RingOK'
         /\ Stream \in Seq(Frag)
         /\ Head(Dequeued(t)) \in Frag
         /\ Stream' = Append(Stream, Head(Dequeued(t)))
<1>1. PICK f \in Frag : f = Head(Dequeued(t))
  BY DequeuedType, HeadTailProperties
<1>2. PICK r \in Nat, d \in Nat :
         /\ r = Released /\ d = Pending /\ r + d <= N - 1
         /\ Dist(hw, first) = r /\ Dist(hw, current) = r + d
  <2>1. Released \in Nat /\ Pending \in Nat
    BY Shape DEF Typed
  <2> QED
    BY <2>1, FreeShape DEF Typed
<1>3. /\ RingOK'
      /\ Target \in Slot
      /\ Released' + Pending' = (IF FrameFull THEN r ELSE r + d) + 1
      /\ Dist(hw, Target) = IF FrameFull THEN r ELSE r + d
  BY <1>2, SubmitRing DEF Typed
<1>4. PICK b \in Seq(Frag) : b = Before
  BY BeforeType DEF Typed
<1>5. PICK e \in [Slot -> Seq(Frag)] : e = data'
  BY DEF Typed
<1>6. e = [data EXCEPT ![Target] = IF FrameFull THEN Append(b, f) ELSE <<f>>]
  BY <1>1, <1>4, <1>5 DEF Submit, Target, Before, Buffers, Dist
<1>7. PICK g \in [Slot -> Seq(Frag)], w \in Seq(Frag) : g = data /\ w = wire
  BY DEF Typed
<1>8. PICK n \in Nat, x \in Seq(Frag) :
         /\ n = Dist(hw, Target) /\ n = (IF FrameFull THEN r ELSE r + d)
         /\ x = IF FrameFull THEN Append(b, f) ELSE <<f>>
  <2>1. Append(b, f) \in Seq(Frag) /\ <<f>> \in Seq(Frag)
    <3>1. \A y \in Frag, z \in Seq(Frag) : Append(z, y) \in Seq(Frag) /\ <<y>> \in Seq(Frag)
      OBVIOUS
    <3> QED
      BY <3>1
  <2>2. PICK x \in Seq(Frag) : x = IF FrameFull THEN Append(b, f) ELSE <<f>>
    BY <2>1
  <2>3. PICK n \in Nat : n = IF FrameFull THEN r ELSE r + d
    BY <1>2
  <2> QED
    BY <2>2, <2>3, <1>3
<1>9. FlattenSeq(Buffers(e, hw, n + 1)) = FlattenSeq(Buffers(g, hw, n)) \o x
  <2>1. n \in 0..(N - 1) /\ hw \in Slot
    BY <1>2, <1>8 DEF Typed
  <2>2. (hw + n) % N = Target
    BY <1>3, <1>8, <2>1, BehindIs, ZenonT(60)
  <2>3. e[(hw + n) % N] = x
    BY <2>2, <1>3, <1>6, <1>7, <1>8
  <2>4. ASSUME NEW k \in 0..(n - 1) PROVE e[(hw + k) % N] = g[(hw + k) % N]
    <3>1. k \in 0..(N - 1) /\ k # n
      BY <2>1
    <3>2. (hw + k) % N \in Slot /\ Dist(hw, (hw + k) % N) = k
      BY <2>1, <3>1, BehindIs
    <3>3. (hw + k) % N # Target
      BY <3>1, <3>2, <1>8
    <3> QED
      BY <3>2, <3>3, <1>6, <1>7
  <2>5. Extends(g, e, hw, n, x)
    BY <2>1, <2>3, <2>4, BuffersAppend, Zenon
  <2> QED
    BY <2>5 DEF Extends
<1>10. Stream' = w \o FlattenSeq(Buffers(e, hw, n + 1))
  <2>1. Stream' = wire' \o FlattenSeq(Buffers(data', hw', Released' + Pending'))
    BY DEF Stream, Buffers, Released, Pending, Dist
  <2> QED
    BY <2>1, <1>3, <1>5, <1>7, <1>8
<1>11. Stream = w \o FlattenSeq(Buffers(g, hw, r + d))
  BY <1>2, <1>7, StreamIs
<1>12. PICK h \in Seq(Frag) : h = FlattenSeq(Buffers(g, hw, n))
  BY FlatType DEF Typed
<1>13. CASE ~FrameFull
  <2>1. Stream' = w \o (h \o <<f>>) /\ Stream = w \o h
    BY <1>8, <1>9, <1>10, <1>11, <1>12, <1>13
  <2>2. w \o (h \o <<f>>) = Append(w \o h, f) /\ w \o h \in Seq(Frag)
    <3>1. \A u, v \in Seq(Frag), y \in Frag :
             u \o (v \o <<y>>) = Append(u \o v, y) /\ u \o v \in Seq(Frag)
      OBVIOUS
    <3> QED
      BY <3>1
  <2> QED
    BY <1>1, <1>3, <2>1, <2>2
<1>14. CASE FrameFull
  <2>1. FlattenSeq(Buffers(g, hw, r + d)) = h \o b
    <3>1. /\ first \in Slot /\ hw \in Slot /\ (hw + r) % N = first
          /\ Dist(first, current) = d
      BY <1>2, Shape DEF OpenFrame, Typed, Pending
    <3>2. r + d <= N
      BY <1>2
    <3>3. Splits(g, hw, first, r, d)
      BY <3>1, <3>2, BuffersSplit, Zenon
    <3>4. b = FlattenSeq(Buffers(g, first, d))
      BY <1>4, <1>7, <3>1 DEF Before
    <3> QED
      BY <3>3, <3>4, <1>8, <1>12, <1>14 DEF Splits
  <2>2. Stream' = w \o (h \o Append(b, f)) /\ Stream = w \o (h \o b)
    BY <2>1, <1>8, <1>9, <1>10, <1>11, <1>12, <1>14
  <2>3. w \o (h \o Append(b, f)) = Append(w \o (h \o b), f) /\ w \o (h \o b) \in Seq(Frag)
    <3>1. PICK hb \in Seq(Frag) : hb = h \o b
      BY ConcatProperties
    <3>2. h \o Append(b, f) = Append(hb, f)
      <4>1. AppendsLast(h, b, f)
        BY ConcatOne, Zenon
      <4> QED
        BY <3>1, <4>1 DEF AppendsLast
    <3>3. w \o Append(hb, f) = Append(w \o hb, f)
      <4>1. AppendsLast(w, hb, f)
        BY ConcatOne, Zenon
      <4> QED
        BY <4>1 DEF AppendsLast
    <3>4. w \o hb \in Seq(Frag)
      BY ConcatProperties
    <3> QED
      BY <3>1, <3>2, <3>3, <3>4, Zenon
  <2> QED
    BY <1>1, <1>3, <2>2, <2>3
<1> QED
  BY <1>13, <1>14
-----------------------------------------------------------------------------
(***************************************************************************)
(* The controller sends the first of the released BDs, or leaves the ring  *)
(* alone.                                                                  *)
(***************************************************************************)
LEMMA CloseRing ==
  ASSUME OpenFrame, hw \in Slot, RingOK, Close
  PROVE  /\ RingOK'
         /\ Released \in 1..N
         /\ Released' = Released - 1
         /\ Pending' = Pending
<1>0. N \in Nat /\ N >= 3
  OBVIOUS
<1>1. PICK r \in Nat, d \in Nat :
         /\ r = Released /\ d = Pending /\ r + d <= N
         /\ Dist(hw, first) = IF r = N THEN 0 ELSE r
  <2>1. Released \in Nat /\ Pending \in Nat
    BY Shape
  <2> QED
    BY <2>1, Shape
<1>2. /\ first \in Slot /\ current \in Slot /\ ready \in [Slot -> BOOLEAN]
      /\ first' = first /\ current' = current /\ hw' = Succ(hw) /\ hw' \in Slot
      /\ ready[hw] /\ ready' = [ready EXCEPT ![hw] = FALSE]
  BY DistFacts DEF Close, OpenFrame
<1>3. r >= 1
  <2>1. Dist(hw, hw) = 0
    BY DistFacts
  <2> QED
    BY <2>1, <1>1, <1>2 DEF RingOK
<1>4. ASSUME NEW i \in Slot
      PROVE  /\ Dist(hw, i) \in 0..(N - 1)
             /\ Dist(hw, i) = 0 <=> i = hw
             /\ Dist(hw', i) = IF i = hw THEN N - 1 ELSE Dist(hw, i) - 1
  <2>1. /\ hw' = IF hw = N - 1 THEN 0 ELSE hw + 1
        /\ Dist(hw, i) = IF hw <= i THEN i - hw ELSE (i - hw) + N
    BY <1>2, SlotIs
  <2>2. PICK h \in Slot : h = hw'
    BY <1>2
  <2>3. Dist(h, i) = IF h <= i THEN i - h ELSE (i - h) + N
    BY SlotIs
  <2>4. hw \in 0..(N - 1) /\ i \in 0..(N - 1)
    BY DEF Slot
  <2>5. Dist(h, i) = IF i = hw THEN N - 1 ELSE Dist(hw, i) - 1
    BY <1>0, <2>1, <2>2, <2>3, <2>4
  <2> QED
    BY <2>2, <2>5, DistFacts
<1>5. Pending' = d
  BY <1>1, <1>2 DEF Pending, Dist
<1>6. Released' = r - 1
  <2>1. Released' = IF hw' = first /\ ready'[hw'] THEN N ELSE Dist(hw', first)
    BY <1>2 DEF Released, Dist
  <2>2. Dist(hw', first) = r - 1
    BY <1>0, <1>1, <1>2, <1>3, <1>4
  <2>3. ASSUME hw' = first PROVE ~ready'[hw']
    <3>1. Dist(first, first) = 0
      BY <1>2, DistFacts
    <3>2. r = 1
      BY <2>2, <2>3, <3>1, <1>1
    <3>3. first # hw /\ Dist(hw, first) = r
      BY <3>2, <1>0, <1>1, <1>2, <1>4
    <3>4. ~ready[first]
      BY <3>3, <1>1, <1>2 DEF RingOK
    <3> QED
      BY <2>3, <3>3, <3>4, <1>2
  <2> QED
    BY <2>1, <2>2, <2>3
<1>7. ASSUME NEW i \in Slot
      PROVE  ready'[i] <=> Dist(hw', i) < (r - 1) + d /\ Dist(hw', i) # r - 1
  <2>1. PICK x \in 0..(N - 1) : x = Dist(hw, i)
    BY <1>4
  <2>2. ready[i] <=> x < r + d /\ x # r
    BY <2>1, <1>1 DEF RingOK
  <2>3. CASE i = hw
    BY <2>3, <1>0, <1>1, <1>2, <1>4
  <2>4. CASE i # hw
    <3>1. Dist(hw', i) = x - 1 /\ x >= 1
      BY <2>1, <2>4, <1>4
    <3>2. ready'[i] = ready[i]
      BY <2>4, <1>2
    <3> QED
      BY <2>2, <3>1, <3>2, <1>1
  <2> QED
    BY <2>3, <2>4
<1>8. RingOK'
  <2>1. \A i \in Slot : Dist(hw, i)' = Dist(hw', i)
    BY DEF Dist
  <2>2. PICK q \in Int, p \in Nat : q = Released' /\ p = Pending' /\ q = r - 1 /\ p = d
    BY <1>5, <1>6, <1>1
  <2>3. q + p <= N /\ \A i \in Slot : ready'[i] <=> Dist(hw', i) < q + p /\ Dist(hw', i) # q
    BY <2>2, <1>1, <1>7
  <2> QED
    BY <2>1, <2>2, <2>3 DEF RingOK
<1> QED
  BY <1>1, <1>3, <1>5, <1>6, <1>8

(* A BD goes to the wire; with its last BD the whole frame goes away. *)
LEMMA CloseStream ==
  ASSUME OpenFrame, Typed, Typed', RingOK, Close
  PROVE  /\ RingOK'
         /\ Stream' \in Seq(Frag)
         /\ \E gone \in Seq(Frag) : Stream = gone \o Stream'
<1>1. PICK n \in Nat : n + 1 = Released + Pending /\ n = Released' + Pending' /\ n + 1 <= N
  <2>1. PICK r \in 1..N, d \in Nat : r = Released /\ d = Pending /\ r + d <= N
    <3>1. Released \in 1..N /\ Pending \in Nat /\ Released + Pending <= N
      BY CloseRing, Shape DEF Typed
    <3> QED
      BY <3>1
  <2>2. Released' + Pending' = (r - 1) + d
    BY <2>1, CloseRing DEF Typed
  <2>3. PICK n \in Nat : n = (r - 1) + d
    BY <2>1
  <2> QED
    BY <2>1, <2>2, <2>3
<1>2. RingOK'
  BY CloseRing DEF Typed
<1>3. PICK g \in [Slot -> Seq(Frag)], w \in Seq(Frag), h \in Slot, k \in Slot :
         g = data /\ w = wire /\ h = hw /\ k = hw'
  BY DEF Typed
<1>4. PICK x \in Seq(Frag), f \in Seq(Frag) :
         x = g[h] /\ f = FlattenSeq(Buffers(g, k, n))
  <2>1. g[h] \in Seq(Frag)
    OBVIOUS
  <2> QED
    BY <2>1, FlatType
<1>5. FlattenSeq(Buffers(g, h, 1 + n)) = x \o f
  <2>1. k = (h + 1) % N
    BY <1>3 DEF Close, Succ
  <2>2. PICK i \in Nat : i = 1
    OBVIOUS
  <2>3. i + n <= N /\ k = (h + i) % N
    BY <2>1, <2>2, <1>1
  <2>4. Splits(g, h, k, i, n)
    BY <2>3, BuffersSplit, Zenon
  <2> QED
    BY <2>2, <2>4, <1>4, BuffersOne DEF Splits
<1>6. Stream = w \o (x \o f)
  <2>1. 1 + n = Released + Pending
    BY <1>1
  <2> QED
    BY <2>1, <1>3, <1>5, StreamIs
<1>7. Stream' = wire' \o f
  <2>1. Stream' = wire' \o FlattenSeq(Buffers(data', hw', Released' + Pending'))
    BY DEF Stream, Buffers, Released, Pending, Dist
  <2>2. data' = g
    BY <1>3 DEF Close
  <2> QED
    BY <2>1, <2>2, <1>1, <1>3, <1>4
<1>8. CASE last[hw]
  <2>1. Stream' = f
    BY <1>7, <1>8, ConcatEmptySeq DEF Close
  <2>2. PICK wx \in Seq(Frag) : wx = w \o x
    BY ConcatProperties
  <2>3. wx \o f = w \o (x \o f)
    <3>1. Associates(w, x, f)
      BY ConcatMore, Zenon
    <3> QED
      BY <2>2, <3>1 DEF Associates
  <2> QED
    BY <2>1, <2>2, <2>3, <1>2, <1>6, Zenon
<1>9. CASE ~last[hw]
  <2>1. Stream' = (w \o x) \o f
    BY <1>3, <1>4, <1>7, <1>9 DEF Close
  <2>2. (w \o x) \o f = w \o (x \o f)
    <3>1. Associates(w, x, f)
      BY ConcatMore, Zenon
    <3> QED
      BY <3>1 DEF Associates
  <2>3. PICK z \in Seq(Frag) : z = Stream
    BY StreamType
  <2>4. <<>> \in Seq(Frag) /\ <<>> \o z = z
    BY EmptySeq, ConcatEmptySeq
  <2>5. Stream' = z
    BY <2>1, <2>2, <2>3, <1>6, Zenon
  <2> QED
    BY <2>3, <2>4, <2>5, <1>2
<1> QED
  BY <1>8, <1>9
-----------------------------------------------------------------------------
(* Fragment g may be sent directly behind fragment f. *)
Follows(f, g) == g = <<f[1], f[2] + 1>> \/ (g[1] > f[1] /\ g[2] = 1)

Linked(s) == \A k \in 1..(Len(s) - 1) : Follows(s[k], s[k + 1])

PacketOf(f) == f[1]

(* The fragments s are of packets sent so far that are not in the queue q. *)
Sooner(s, q, sent) ==
    \A i \in 1..Len(s) : /\ PacketOf(s[i]) <= sent
                         /\ \A j \in 1..Len(q) : PacketOf(s[i]) < q[j]

Rising(q) == \A i, j \in 1..Len(q) : i < j => q[i] < q[j]

Ordered(s, q, sent) == Linked(s) /\ Sooner(s, q, sent)

(* A part of what is ordered is ordered. *)
LEMMA OrderedPart ==
  ASSUME NEW s \in Seq(Frag), NEW t \in Seq(Frag), NEW q, NEW sent,
         Ordered(s \o t, q, sent)
  PROVE  Ordered(s, q, sent) /\ Ordered(t, q, sent)
<1>1. PICK n \in Nat, m \in Nat, u \in Seq(Frag) : n = Len(s) /\ m = Len(t) /\ u = s \o t
  BY LenProperties, ConcatProperties
<1>2. /\ Len(u) = n + m
      /\ \A i \in 1..n : u[i] = s[i]
      /\ \A i \in 1..m : u[n + i] = t[i]
  BY <1>1, ConcatProperties
<1>3. Linked(s)
  <2>1. SUFFICES ASSUME NEW k \in 1..(n - 1) PROVE Follows(s[k], s[k + 1])
    BY <1>1 DEF Linked
  <2>2. Follows(u[k], u[k + 1])
    BY <1>1, <1>2 DEF Ordered, Linked
  <2>3. k \in 1..n /\ k + 1 \in 1..n
    BY <1>1
  <2> QED
    BY <2>2, <2>3, <1>2
<1>4. Linked(t)
  <2>1. SUFFICES ASSUME NEW k \in 1..(m - 1) PROVE Follows(t[k], t[k + 1])
    BY <1>1 DEF Linked
  <2>2. n + k \in 1..(Len(u) - 1) /\ k \in 1..m /\ k + 1 \in 1..m /\ (n + k) + 1 = n + (k + 1)
    BY <1>1, <1>2
  <2>3. Follows(u[n + k], u[(n + k) + 1])
    BY <2>2, <1>1 DEF Ordered, Linked
  <2> QED
    BY <2>2, <2>3, <1>2
<1>5. Sooner(s, q, sent)
  <2>1. SUFFICES ASSUME NEW i \in 1..n
                 PROVE  /\ PacketOf(s[i]) <= sent
                        /\ \A j \in 1..Len(q) : PacketOf(s[i]) < q[j]
    BY <1>1 DEF Sooner
  <2>2. i \in 1..Len(u) /\ u[i] = s[i]
    BY <1>1, <1>2
  <2> QED
    BY <2>2, <1>1 DEF Ordered, Sooner
<1>6. Sooner(t, q, sent)
  <2>1. SUFFICES ASSUME NEW i \in 1..m
                 PROVE  /\ PacketOf(t[i]) <= sent
                        /\ \A j \in 1..Len(q) : PacketOf(t[i]) < q[j]
    BY <1>1 DEF Sooner
  <2>2. n + i \in 1..Len(u) /\ u[n + i] = t[i]
    BY <1>1, <1>2
  <2> QED
    BY <2>2, <1>1 DEF Ordered, Sooner
<1> QED
  BY <1>3, <1>4, <1>5, <1>6 DEF Ordered

(* A new packet at the end of the queue comes after all. *)
LEMMA OrderedQueue ==
  ASSUME NEW s \in Seq(Frag), NEW sent \in Nat, NEW q \in Seq(1..sent),
         Ordered(s, q, sent), Rising(q)
  PROVE  Ordered(s, Append(q, sent + 1), sent + 1) /\ Rising(Append(q, sent + 1))
<1>1. PICK n \in Nat, r \in Seq(Nat) : n = Len(q) /\ r = Append(q, sent + 1)
  <2>1. Len(q) \in Nat /\ Append(q, sent + 1) \in Seq(Nat)
    BY LenProperties, AppendProperties
  <2> QED
    BY <2>1
<1>2. /\ Len(r) = n + 1 /\ r[n + 1] = sent + 1
      /\ \A i \in 1..n : r[i] = q[i] /\ q[i] \in 1..sent
  BY <1>1, AppendProperties, ElementOfSeq
<1>3. Rising(r)
  <2>1. SUFFICES ASSUME NEW i \in 1..(n + 1), NEW j \in 1..(n + 1), i < j PROVE r[i] < r[j]
    BY <1>2 DEF Rising
  <2>2. i \in 1..n /\ r[i] = q[i] /\ q[i] \in 1..sent
    BY <2>1, <1>2
  <2>3. CASE j = n + 1
    BY <2>2, <2>3, <1>2
  <2>4. CASE j # n + 1
    <3>1. j \in 1..n /\ r[j] = q[j]
      BY <2>4, <1>2
    <3>2. q[i] < q[j]
      BY <2>1, <2>2, <3>1, <1>1 DEF Rising
    <3> QED
      BY <2>2, <3>1, <3>2
  <2> QED
    BY <2>3, <2>4
<1>4. Sooner(s, r, sent + 1)
  <2>1. SUFFICES ASSUME NEW i \in 1..Len(s)
                 PROVE  /\ PacketOf(s[i]) <= sent + 1
                        /\ \A j \in 1..(n + 1) : PacketOf(s[i]) < r[j]
    BY <1>1, <1>2 DEF Sooner
  <2>2. PICK p \in Nat : p = PacketOf(s[i])
    <3>1. s[i] \in Frag
      BY ElementOfSeq
    <3> QED
      BY <3>1 DEF PacketOf, Frag
  <2>3. p <= sent /\ \A j \in 1..n : p < q[j]
    BY <2>2, <1>1 DEF Ordered, Sooner
  <2>4. ASSUME NEW j \in 1..(n + 1) PROVE p < r[j]
    <3>1. CASE j = n + 1
      BY <3>1, <2>3, <1>2
    <3>2. CASE j # n + 1
      <4>1. j \in 1..n /\ r[j] = q[j]
        BY <3>2, <1>2
      <4> QED
        BY <4>1, <2>3
    <3> QED
      BY <3>1, <3>2
  <2> QED
    BY <2>2, <2>3, <2>4
<1> QED
  BY <1>1, <1>3, <1>4 DEF Ordered

(* The first packet of the queue may follow what was submitted. *)
LEMMA OrderedPacket ==
  ASSUME Typed, NEW s \in Seq(Frag), Ordered(s, queue, Len(size)), Rising(queue),
         queue # <<>>
  PROVE  /\ Ordered(s \o Packet(Head(queue)), Tail(queue), Len(size))
         /\ Rising(Tail(queue))
<1>1. PICK p \in 1..Len(size) : p = Head(queue)
  BY HeadTailProperties DEF Typed
<1>2. PICK v \in Seq(Frag), m \in Nat :
         v = Packet(p) /\ m = Len(v) /\ m = size[p] /\ \A i \in 1..m : v[i] = <<p, i>>
  BY PacketType, LenProperties
<1>3. PICK n \in Nat, u \in Seq(Frag) : n = Len(s) /\ u = s \o v
  BY LenProperties, ConcatProperties
<1>4. /\ Len(u) = n + m
      /\ \A i \in 1..n : u[i] = s[i]
      /\ \A i \in 1..m : u[n + i] = v[i]
  <2>1. m = Len(v)
    BY <1>2
  <2> QED
    BY <2>1, <1>3, ConcatProperties
<1>5. PICK l \in Nat, q \in Seq(Nat) :
         /\ l = Len(queue) /\ l >= 1 /\ q = Tail(queue) /\ Len(q) = l - 1
         /\ p = queue[1]
         /\ \A j \in 1..(l - 1) : q[j] = queue[j + 1] /\ p < queue[j + 1]
  <2>1. PICK l \in Nat : l = Len(queue) /\ l >= 1
    BY EmptySeq DEF Typed
  <2>2. queue[1] = p
    BY <1>1 DEF Typed
  <2>3. /\ Tail(queue) \in Seq(1..Len(size)) /\ Len(Tail(queue)) = l - 1
        /\ \A j \in 1..(l - 1) : Tail(queue)[j] = queue[j + 1]
    BY <2>1, HeadTailProperties DEF Typed
  <2>4. \A j \in 1..(l - 1) : p < queue[j + 1]
    BY <2>1, <2>2 DEF Rising
  <2>5. Tail(queue) \in Seq(Nat)
    BY <2>3, SeqMonotonic
  <2> QED
    BY <2>1, <2>2, <2>3, <2>4, <2>5
<1>6. Rising(q)
  BY <1>5 DEF Rising
<1>7. \A f \in Frag : PacketOf(f) \in Nat
  BY DEF PacketOf, Frag
<1>8. ASSUME NEW i \in 1..n
      PROVE  PacketOf(s[i]) <= Len(size) /\ PacketOf(s[i]) < p
  <2>1. 1 \in 1..l
    BY <1>5
  <2> QED
    BY <2>1, <1>3, <1>5 DEF Ordered, Sooner
<1>9. ASSUME NEW i \in 1..m
      PROVE  PacketOf(v[i]) = p
  BY <1>2 DEF PacketOf
<1>10. Sooner(u, q, Len(size))
  <2>1. SUFFICES ASSUME NEW i \in 1..(n + m)
                 PROVE  /\ PacketOf(u[i]) <= Len(size)
                        /\ \A j \in 1..(l - 1) : PacketOf(u[i]) < q[j]
    BY <1>4, <1>5 DEF Sooner
  <2>2. Len(size) \in Nat /\ \A j \in 1..(l - 1) : q[j] \in Nat
    BY <1>5, LenProperties, ElementOfSeq DEF Typed
  <2>3. PICK x \in Nat : x = PacketOf(u[i])
    BY <1>4, <1>7, ElementOfSeq
  <2>4. x <= p /\ x <= Len(size)
    <3>1. CASE i <= n
      <4>1. i \in 1..n
        BY <3>1
      <4> QED
        BY <4>1, <2>2, <2>3, <1>4, <1>8
    <3>2. CASE ~(i <= n)
      <4>1. PICK k \in 1..m : i = n + k
        BY <3>2
      <4> QED
        BY <4>1, <2>2, <2>3, <1>4, <1>9, SMTT(30)
    <3> QED
      BY <3>1, <3>2
  <2>5. \A j \in 1..(l - 1) : p < q[j]
    BY <1>5
  <2> QED
    BY <2>2, <2>3, <2>4, <2>5
<1>11. Linked(u)
  <2>1. SUFFICES ASSUME NEW k \in 1..((n + m) - 1) PROVE Follows(u[k], u[k + 1])
    BY <1>4 DEF Linked
  <2>2. CASE k < n
    <3>1. k \in 1..(n - 1) /\ k \in 1..n /\ k + 1 \in 1..n
      BY <2>2
    <3>2. Follows(s[k], s[k + 1])
      BY <3>1, <1>3 DEF Ordered, Linked
    <3> QED
      BY <3>1, <3>2, <1>4
  <2>3. CASE k = n
    <3>1. n \in 1..n /\ 1 \in 1..m
      BY <2>3
    <3>2. u[k] = s[n] /\ u[k + 1] = <<p, 1>>
      BY <2>3, <3>1, <1>2, <1>4
    <3>3. s[n][1] < p
      BY <3>1, <1>8 DEF PacketOf
    <3> QED
      BY <3>2, <3>3 DEF Follows
  <2>4. CASE k > n
    <3>1. PICK j \in 1..(m - 1) : k = n + j
      BY <2>4
    <3>2. j \in 1..m /\ j + 1 \in 1..m /\ k + 1 = n + (j + 1)
      BY <3>1
    <3>3. u[k] = <<p, j>> /\ u[k + 1] = <<p, j + 1>>
      BY <3>1, <3>2, <1>2, <1>4
    <3> QED
      BY <3>3 DEF Follows
  <2> QED
    BY <2>2, <2>3, <2>4
<1> QED
  BY <1>1, <1>2, <1>3, <1>5, <1>6, <1>10, <1>11 DEF Ordered
-----------------------------------------------------------------------------
(***************************************************************************)
(* What goes to the wire next is in order: the stream, then the rest of    *)
(* the packet a thread submits, then the packets in the queue.             *)
(***************************************************************************)
OrderInv ==
    /\ \A t \in Thread : rest[t] # <<>> => pc[t] \in {"loop", "wait"}
    /\ \A t \in Thread : Ordered(Stream \o rest[t], queue, Len(size))
    /\ Rising(queue)

LEMMA OrderInit == Init => RingOK /\ OrderInv
<1> SUFFICES ASSUME Init PROVE RingOK /\ OrderInv
  OBVIOUS
<1>1. /\ 0 \in Slot /\ hw = 0 /\ first = 0 /\ current = 0
      /\ \A i \in Slot : ready[i] = FALSE
  BY DEF Init, Slot
<1>2. Dist(0, 0) = 0 /\ \A i \in Slot : Dist(0, i) \in 0..(N - 1)
  BY <1>1, DistFacts
<1>3. Released = 0 /\ Pending = 0
  BY <1>1, <1>2 DEF Released, Pending
<1>4. RingOK
  BY <1>1, <1>2, <1>3 DEF RingOK
<1>5. Stream = <<>>
  <2>1. PICK g \in [Slot -> Seq(Frag)] : g = data
    <3>1. data \in [Slot -> Seq(Frag)]
      BY EmptySeq DEF Init
    <3> QED
      BY <3>1
  <2>2. Stream = <<>> \o FlattenSeq(Buffers(g, 0, 0))
    <3>1. wire = <<>>
      BY DEF Init
    <3>2. 0 + 0 = 0
      OBVIOUS
    <3> QED
      BY <1>1, <1>3, <2>1, <3>1, <3>2, StreamIs
  <2>3. FlattenSeq(Buffers(g, 0, 0)) = <<>>
    BY <1>1, BuffersOne
  <2> QED
    BY <2>2, <2>3, EmptySeq, ConcatEmptySeq
<1>6. rest = [t \in Thread |-> <<>>] /\ queue = <<>>
  BY DEF Init
<1>7. Ordered(<<>>, <<>>, Len(size)) /\ Rising(<<>>)
  BY EmptySeq DEF Ordered, Linked, Sooner, Rising
<1>8. <<>> \o <<>> = <<>>
  BY EmptySeq, ConcatEmptySeq
<1> QED
  BY <1>4, <1>5, <1>6, <1>7, <1>8 DEF OrderInv

(* A step that leaves ring, queue and wire alone, and at most forgets. *)
LEMMA OrderKept ==
  ASSUME TxInv, Typed, RingOK, OrderInv, UNCHANGED <<bds, size, queue, hw, wire>>,
         \A t \in Thread : rest'[t] \in {rest[t], <<>>},
         \A t \in Thread : rest'[t] # <<>> => pc'[t] \in {"loop", "wait"}
  PROVE  RingOK' /\ OrderInv'
<1>1. UNCHANGED <<ready, data, first, current, hw, wire, size, queue>>
  BY DEF bds
<1>2. RingOK'
  BY <1>1 DEF RingOK, Released, Pending, Dist
<1>3. Stream' = Stream
  BY <1>1 DEF Stream
<1>4. PICK z \in Seq(Frag) : z = Stream
  BY StreamType DEF TxInv
<1>5. ASSUME NEW t \in Thread PROVE Ordered(z \o rest'[t], queue, Len(size))
  <2>1. Ordered(z \o rest[t], queue, Len(size))
    BY <1>4 DEF OrderInv
  <2>2. CASE rest'[t] = rest[t]
    BY <2>1, <2>2
  <2>3. CASE rest'[t] = <<>>
    <3>1. rest[t] \in Seq(Frag)
      BY DEF Typed
    <3>2. Ordered(z, queue, Len(size))
      BY <2>1, <3>1, OrderedPart
    <3>3. z \o <<>> = z
      BY ConcatEmptySeq
    <3> QED
      BY <2>3, <3>2, <3>3
  <2> QED
    BY <2>2, <2>3
<1>6. Rising(queue)
  BY DEF OrderInv
<1> QED
  BY <1>1, <1>2, <1>3, <1>4, <1>5, <1>6 DEF OrderInv

LEMMA EnqueueOrder ==
  ASSUME TxInv, Typed, RingOK, OrderInv, NEW s \in Sender, NEW n \in 1..MaxFrags,
         Enqueue(s, n)
  PROVE  RingOK' /\ OrderInv'
<1>1. UNCHANGED <<ready, data, first, current, hw, wire, rest>>
  BY DEF Enqueue, bds
<1>2. RingOK'
  BY <1>1 DEF RingOK, Released, Pending, Dist
<1>3. Stream' = Stream
  BY <1>1 DEF Stream
<1>4. PICK z \in Seq(Frag) : z = Stream
  BY StreamType DEF TxInv
<1>5. PICK m \in Nat : m = Len(size) /\ Len(size') = m + 1
  BY LenProperties, AppendProperties DEF Enqueue, Typed
<1>6. PICK q \in Seq(1..m) : q = queue
  BY <1>5 DEF Typed
<1>7. queue' = Append(q, m + 1)
  BY <1>5, <1>6 DEF Enqueue
<1>8. Rising(q)
  BY <1>6 DEF OrderInv
<1>9. ASSUME NEW t \in Thread
      PROVE  Ordered(z \o rest[t], queue', Len(size')) /\ Rising(queue')
  <2>1. PICK u \in Seq(Frag) : u = z \o rest[t]
    BY ConcatProperties DEF Typed
  <2>2. Ordered(u, q, m)
    BY <2>1, <1>4, <1>5, <1>6 DEF OrderInv
  <2>3. Ordered(u, Append(q, m + 1), m + 1) /\ Rising(Append(q, m + 1))
    BY <2>2, <1>8, OrderedQueue
  <2> QED
    BY <2>1, <2>3, <1>5, <1>7
<1>10. ASSUME NEW t \in Thread, rest[t] # <<>> PROVE pc'[t] \in {"loop", "wait"}
  <2>1. pc[t] \in {"loop", "wait"}
    BY <1>10 DEF OrderInv
  <2>2. pc[s] = "idle" /\ s \in Thread /\ pc' = [pc EXCEPT ![s] = "queued"]
    BY DEF Enqueue, Goto, Thread
  <2> QED
    BY <2>1, <2>2 DEF TxInv, Places
<1> QED
  <2>1. "tx" \in Thread
    BY DEF Thread
  <2> QED
    BY <2>1, <1>1, <1>2, <1>3, <1>4, <1>9, <1>10 DEF OrderInv

(***************************************************************************)
(* The fragment that is submitted follows the last one of the stream: it   *)
(* is the next of the packet, or the first of the packet at the head of    *)
(* the queue, and no other thread has a rest of its own.                   *)
(***************************************************************************)
LEMMA SubmitOrder ==
  ASSUME TxInv, Typed, Typed', RingOK, OrderInv, Exclusive, NEW t \in Thread,
         pc[t] = "loop", Dequeued(t) # <<>>, Submit(t), ~ready[current],
         UNCHANGED <<size, hw, wire>>,
         pc'[t] \in {"loop", "wait"} \/ rest'[t] = <<>>
  PROVE  RingOK' /\ OrderInv'
<1>1. PICK z \in Seq(Frag), f \in Frag :
         RingOK' /\ z = Stream /\ f = Head(Dequeued(t)) /\ Stream' = Append(z, f)
  <2>1. OpenFrame
    BY DEF TxInv
  <2> QED
    BY <2>1, SubmitStream
<1>2. PICK m \in Seq(Frag), l \in Seq(Frag) :
         m = Dequeued(t) /\ l = Tail(m) /\ m # <<>> /\ f = Head(m)
  BY <1>1, DequeuedType, HeadTailProperties
<1>3. rest' = [rest EXCEPT ![t] = l] /\ rest \in [Thread -> Seq(Frag)]
  BY <1>2 DEF Submit, Typed
<1>4. PICK z1 \in Seq(Frag) : z1 = Append(z, f) /\ z1 \o l = z \o m
  <2>1. \A u, v \in Seq(Frag) : v # <<>> =>
           /\ Append(u, Head(v)) \in Seq(Frag)
           /\ Append(u, Head(v)) \o Tail(v) = u \o v
    OBVIOUS
  <2> QED
    BY <2>1, <1>2
<1>5. Ordered(z \o m, queue', Len(size)) /\ Rising(queue')
  <2>1. Ordered(z \o rest[t], queue, Len(size)) /\ Rising(queue)
    BY <1>1 DEF OrderInv
  <2>2. CASE rest[t] # <<>>
    BY <2>1, <2>2, <1>2 DEF Dequeued, Submit
  <2>3. CASE rest[t] = <<>>
    <3>1. queue # <<>> /\ m = Packet(Head(queue)) /\ queue' = Tail(queue)
      BY <2>3, <1>2 DEF Dequeued, Submit
    <3>2. z \o <<>> = z
      BY ConcatEmptySeq
    <3>3. Ordered(z, queue, Len(size))
      BY <2>1, <2>3, <3>2
    <3> QED
      BY <2>1, <3>1, <3>3, OrderedPacket
  <2> QED
    BY <2>2, <2>3
<1>6. ASSUME NEW u \in Thread, u # t PROVE rest'[u] = <<>>
  <2>1. SUFFICES ASSUME rest[u] # <<>> PROVE FALSE
    BY <1>3, <1>6
  <2>2. Submitting(u) /\ Submitting(t)
    BY <2>1 DEF OrderInv, Submitting
  <2> QED
    BY <1>6, <2>2, OneAtRing
<1>7. rest'[t] = l
  BY <1>3
<1>8. Ordered(z1 \o l, queue', Len(size)) /\ Ordered(z1, queue', Len(size))
  BY <1>4, <1>5, OrderedPart
<1>9. ASSUME NEW u \in Thread PROVE Ordered(z1 \o rest'[u], queue', Len(size))
  <2>1. CASE u = t
    BY <2>1, <1>7, <1>8
  <2>2. CASE u # t
    <3>1. z1 \o <<>> = z1
      BY ConcatEmptySeq
    <3> QED
      BY <2>2, <3>1, <1>6, <1>8
  <2> QED
    BY <2>1, <2>2
<1>10. ASSUME NEW u \in Thread, rest'[u] # <<>> PROVE pc'[u] \in {"loop", "wait"}
  BY <1>6, <1>10
<1> QED
  BY <1>1, <1>4, <1>5, <1>9, <1>10 DEF OrderInv

LEMMA CloseOrder ==
  ASSUME TxInv, Typed, Typed', RingOK, OrderInv, Close
  PROVE  RingOK' /\ OrderInv'
<1>1. OpenFrame
  BY DEF TxInv
<1>2. PICK g \in Seq(Frag), z \in Seq(Frag) :
         RingOK' /\ z = Stream' /\ Stream = g \o z
  BY <1>1, CloseStream
<1>3. UNCHANGED <<rest, queue, size, pc>>
  BY DEF Close, stack
<1>4. ASSUME NEW t \in Thread PROVE Ordered(z \o rest[t], queue, Len(size))
  <2>1. PICK r \in Seq(Frag) : r = rest[t]
    BY DEF Typed
  <2>2. Ordered((g \o z) \o r, queue, Len(size))
    BY <2>1, <1>2 DEF OrderInv
  <2>3. PICK y \in Seq(Frag) : y = z \o r
    BY ConcatProperties
  <2>4. (g \o z) \o r = g \o y
    <3>1. Associates(g, z, r)
      BY ConcatMore, Zenon
    <3> QED
      BY <2>3, <3>1 DEF Associates
  <2>5. Ordered(g \o y, queue, Len(size))
    BY <2>2, <2>4, Zenon
  <2>6. Ordered(y, queue, Len(size))
    BY <2>5, OrderedPart
  <2> QED
    BY <2>1, <2>3, <2>6
<1> QED
  BY <1>2, <1>3, <1>4 DEF OrderInv
-----------------------------------------------------------------------------
(* The two parts of the invariant that need the senders kept apart. *)
StreamInv == Exclusive => RingOK /\ OrderInv

LEMMA StreamStep ==
  ASSUME TxInv, TxInv', Typed, Typed', StreamInv, [Next]_vars
  PROVE  StreamInv'
<1>0. Sender \subseteq Thread /\ "tx" \in Thread /\ "tx" \notin Sender
  BY DEF Thread
<1>1. Exclusive' => Exclusive
  <2>1. CASE UNCHANGED pc
    BY <2>1 DEF Exclusive
  <2>2. ASSUME NEW t \in Thread, NEW place \in Place \ {"absent"}, Goto(t, place),
               pc[t] # "absent"
        PROVE  Exclusive' => Exclusive
    <3>1. Places /\ \A s \in Sender : pc'[s] = "absent" <=> pc[s] = "absent"
      BY <2>2, <1>0 DEF Goto, TxInv, Places
    <3> QED
      BY <3>1, ExclusiveKept
  <2>3. CASE \E s \in Sender, n \in 1..MaxFrags : Enqueue(s, n)
    BY <2>2, <2>3, <1>0 DEF Enqueue, Place
  <2>4. CASE \E s \in Sender : TestActive(s) \/ Lock(s) \/ Driver(s)
    BY <2>1, <2>2, <2>4, <1>0 DEF TestActive, Lock, Driver, SubmitDirect, RingFull,
       AllSubmitted, SetActive, Notify, Return, Place
  <2>5. CASE TxTask \/ TxLock
    BY <2>1, <2>2, <2>5, <1>0 DEF TxTask, Wake, SubmitAndWait, QueueEmpty, ClearActive,
       TxLock, Place
  <2>6. CASE Close \/ UNCHANGED vars
    BY <2>1, <2>6 DEF Close, vars
  <2> QED
    BY <2>3, <2>4, <2>5, <2>6 DEF Next
<1>2. SUFFICES ASSUME Exclusive PROVE RingOK' /\ OrderInv'
  BY <1>1 DEF StreamInv
<1>3. RingOK /\ OrderInv
  BY <1>2 DEF StreamInv
<1>4. rest \in [Thread -> Seq(Frag)] /\ pc \in [Thread -> Place]
  BY DEF Typed, TxInv, Places
<1>5. ASSUME NEW t \in Thread, NEW place, Goto(t, place),
             UNCHANGED <<bds, size, queue, rest, hw, wire>>,
             rest[t] # <<>> => place \in {"loop", "wait"}
      PROVE  RingOK' /\ OrderInv'
  <2>1. ASSUME NEW u \in Thread, rest'[u] # <<>> PROVE pc'[u] \in {"loop", "wait"}
    BY <2>1, <1>3, <1>4, <1>5 DEF Goto, OrderInv
  <2> QED
    BY <2>1, <1>3, <1>5, OrderKept
<1>6. ASSUME NEW s \in Sender, NEW n \in 1..MaxFrags, Enqueue(s, n)
      PROVE  RingOK' /\ OrderInv'
  BY <1>3, <1>6, EnqueueOrder
<1>7. ASSUME NEW s \in Sender, TestActive(s) \/ Lock(s) \/ SetActive(s) \/ Notify(s)
      PROVE  RingOK' /\ OrderInv'
  <2>1. rest[s] = <<>>
    BY <1>0, <1>3, <1>7 DEF OrderInv, TestActive, Lock, SetActive, Notify
  <2>2. UNCHANGED <<bds, size, queue, rest, hw, wire>>
    BY <1>7 DEF TestActive, Lock, SetActive, Notify, stack
  <2>3. \E place \in Place : Goto(s, place)
    BY <1>7 DEF TestActive, Lock, SetActive, Notify, Return, Place
  <2> QED
    BY <2>1, <2>2, <2>3, <1>0, <1>5
<1>8. ASSUME NEW t \in Thread, SubmitDirect(t) \/ (t = "tx" /\ SubmitAndWait)
      PROVE  RingOK' /\ OrderInv'
  <2>1. /\ pc[t] = "loop" /\ Dequeued(t) # <<>> /\ Submit(t)
        /\ UNCHANGED <<size, hw, wire>>
    BY <1>8 DEF SubmitDirect, SubmitAndWait
  <2>2. ~ready[current]
    <3>1. Handover /\ CurrentKept
      BY <1>2 DEF TxInv
    <3>2. pc["tx"] # "wait"
      BY <2>1, <3>1, <1>0 DEF Handover, Busy, Thread
    <3> QED
      BY <3>1, <3>2 DEF CurrentKept
  <2>3. pc'[t] \in {"loop", "wait"}
    <3>1. CASE t = "tx" /\ SubmitAndWait
      BY <3>1, <2>1, <1>0, <1>4 DEF SubmitAndWait, Goto
    <3>2. CASE SubmitDirect(t)
      <4>1. ~ready'[current']
        BY <3>2, SubmitMoves DEF SubmitDirect, TxInv
      <4> QED
        BY <3>2, <4>1, <2>1 DEF SubmitDirect
    <3> QED
      BY <1>8, <3>1, <3>2
  <2> QED
    BY <2>1, <2>2, <2>3, <1>2, <1>3, SubmitOrder
<1>9. ASSUME NEW s \in Sender, RingFull(s)
      PROVE  RingOK' /\ OrderInv'
  <2>1. /\ UNCHANGED <<bds, size, queue, hw, wire>>
        /\ rest' = [rest EXCEPT ![s] = <<>>] /\ pc' = [pc EXCEPT ![s] = "full"]
    BY <1>9 DEF RingFull, Forget, Goto, stack
  <2>2. \A t \in Thread : rest'[t] \in {rest[t], <<>>}
    BY <2>1, <1>0, <1>4
  <2>3. ASSUME NEW t \in Thread, rest'[t] # <<>> PROVE pc'[t] \in {"loop", "wait"}
    BY <2>1, <2>3, <1>0, <1>3, <1>4 DEF OrderInv
  <2> QED
    BY <2>1, <2>2, <2>3, <1>3, OrderKept
<1>10. ASSUME NEW s \in Sender, AllSubmitted(s)
       PROVE  RingOK' /\ OrderInv'
  <2>1. rest[s] = <<>> /\ Goto(s, "idle")
    BY <1>10 DEF AllSubmitted, Dequeued
  <2>2. UNCHANGED <<bds, size, queue, rest, hw, wire>>
    BY <1>10 DEF AllSubmitted, stack
  <2> QED
    BY <2>1, <2>2, <1>0, <1>5
<1>11. ASSUME Wake \/ QueueEmpty \/ ClearActive \/ TxLock
       PROVE  RingOK' /\ OrderInv'
  <2>1. UNCHANGED <<bds, size, queue, rest, hw, wire>>
    BY <1>11 DEF Wake, QueueEmpty, ClearActive, TxLock, stack
  <2>2. CASE TxLock
    BY <2>1, <2>2, <1>0, <1>5 DEF TxLock
  <2>3. CASE ~TxLock
    <3>1. rest["tx"] = <<>>
      BY <2>3, <1>0, <1>3, <1>11 DEF OrderInv, Wake, QueueEmpty, ClearActive, Dequeued
    <3>2. \E place \in Place : Goto("tx", place)
      BY <2>3, <1>11 DEF Wake, QueueEmpty, ClearActive, Place
    <3> QED
      BY <2>1, <3>1, <3>2, <1>0, <1>5
  <2> QED
    BY <2>2, <2>3
<1>12. ASSUME Close PROVE RingOK' /\ OrderInv'
  BY <1>3, <1>12, CloseOrder
<1>13. ASSUME UNCHANGED vars PROVE RingOK' /\ OrderInv'
  <2>1. UNCHANGED <<bds, size, queue, rest, hw, wire, pc>>
    BY <1>13 DEF vars, stack
  <2>2. \A t \in Thread : rest'[t] # <<>> => pc'[t] \in {"loop", "wait"}
    BY <2>1, <1>3 DEF OrderInv
  <2> QED
    BY <2>1, <2>2, <1>3, OrderKept
<1> QED
  BY <1>0, <1>6, <1>7, <1>8, <1>9, <1>10, <1>11, <1>12, <1>13 DEF Next, Driver, TxTask

(***************************************************************************)
(* Fragments of different packets are never mixed in what goes to the      *)
(* wire: for any number of senders and packets of any length, as long as   *)
(* something keeps the senders apart.                                      *)
(***************************************************************************)
THEOREM NeverMixed == Spec => []NotMixed
<1>1. TxInv /\ Typed /\ StreamInv => NotMixed
  <2> SUFFICES ASSUME TxInv, Typed, StreamInv, Exclusive,
                      NEW k \in 1..(Len(Stream) - 1)
               PROVE  Follows(Stream[k], Stream[k + 1])
    BY DEF NotMixed, Follows
  <2>1. RingOK /\ OrderInv /\ OpenFrame /\ "tx" \in Thread
    BY DEF StreamInv, TxInv, Thread
  <2>2. PICK z \in Seq(Frag), r \in Seq(Frag) : z = Stream /\ r = rest["tx"]
    BY <2>1, StreamType DEF Typed
  <2>3. Ordered(z \o r, queue, Len(size))
    BY <2>1, <2>2 DEF OrderInv
  <2>4. Ordered(z, queue, Len(size))
    BY <2>3, OrderedPart
  <2> QED
    BY <2>2, <2>4 DEF Ordered, Linked
<1>2. Init => TxInv /\ Typed /\ StreamInv
  BY TxInit, TypedInit, OrderInit DEF StreamInv
<1>3. TxInv /\ Typed /\ StreamInv /\ [Next]_vars => (TxInv /\ Typed /\ StreamInv)'
  BY TxStep, TypedStep, StreamStep
<1> QED
  BY <1>1, <1>2, <1>3, PTL DEF Spec
=============================================================================
