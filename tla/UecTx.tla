------------------------------- MODULE UecTx --------------------------------
(***************************************************************************)
(* The transmit path of the Ethernet driver (src/quicc/quicc-uec-if.c):    *)
(* tasks of the network stack that send packets (uec_if_interface_start),  *)
(* uec_if_tx_task, which takes over when the ring is full, and the         *)
(* controller.                                                             *)
(*                                                                         *)
(* The driver lock is held during a submission and the controller only     *)
(* closes BDs that the submission does not touch, so a call of             *)
(* quicc_bd_tx_submit_and_wait up to its wait is one step here; module     *)
(* BdTx has its steps.  How a waiting task is woken is module BdWait.      *)
(*                                                                         *)
(* The driver is built for one of two network stacks:                      *)
(*   NewStack = FALSE: a sender and the task hold the network semaphore    *)
(*     all the time except in rtems_bsdnet_event_receive;                  *)
(*   NewStack = TRUE: a mutex protects the bodies of the driver functions, *)
(*     but neither the queue nor the test of OACTIVE in the stack.         *)
(***************************************************************************)
EXTENDS Integers, Sequences, SequencesExt

CONSTANTS
    N,           \* tx_bd_count
    Sender,      \* the tasks that send
    NewStack,    \* NEW_NETWORK_STACK
    MaxPackets,  \* bound: the packets sent in a behaviour
    MaxFrags     \* bound: the mbufs of a packet

(* quicc_uec_init and quicc_bd_tx_init assert more: N % 4 = 0, a power of 2. *)
ASSUME UecAssumption ==
    /\ N \in Nat /\ N >= 3
    /\ NewStack \in BOOLEAN
    /\ MaxPackets \in Nat /\ MaxFrags \in Nat \ {0}
    /\ Sender \intersect {"tx", "none"} = {}

Slot == 0..(N - 1)

Thread == Sender \union {"tx"}

VARIABLES
    ready,     \* QUICC_BD_TX_R of a BD
    last,      \* QUICC_BD_L of a BD
    data,      \* the fragments in the buffer of a BD
    current,   \* the context of quicc_bd_tx_submit_and_wait
    first,
    avail,
    size,      \* the fragments of each packet sent so far
    queue,     \* if_snd: the packets in it
    rest,      \* m: the fragments a thread has dequeued and not submitted
    oactive,   \* IFF_DRV_OACTIVE (NewStack) or IFF_OACTIVE
    txStart,   \* UEC_IF_EVENT_TX_START is pending
    lock,      \* who holds the mutex (NewStack) or the network semaphore
    pc,        \* where a thread is
    awaited,   \* the BD the transmit task waits for
    hw,        \* the BD the controller works on
    wire       \* what it has sent of an unfinished frame

bds   == <<ready, last, data, current, first, avail>>
stack == <<size, queue, oactive, txStart>>
vars  == <<bds, stack, rest, lock, pc, awaited, hw, wire>>

Succ(i) == (i + 1) % N

FragMax == N - 1

(* The fragments of packet p, in order. *)
Packet(p) == [i \in 1..size[p] |-> <<p, i>>]

Init ==
    /\ ready = [i \in Slot |-> FALSE]
    /\ last = [i \in Slot |-> FALSE]
    /\ data = [i \in Slot |-> <<>>]
    /\ current = 0
    /\ first = 0
    /\ avail = FragMax
    /\ size = <<>>
    /\ queue = <<>>
    /\ rest = [t \in Thread |-> <<>>]
    /\ oactive = FALSE
    /\ txStart = FALSE
    /\ lock = "none"
    /\ \E S \in SUBSET Sender \ {{}} :
          pc = [t \in Thread |-> CASE t = "tx" -> "sleep"
                                  [] t \in S -> "idle"
                                  [] OTHER -> "absent"]
    /\ awaited = 0
    /\ hw = 0
    /\ wire = <<>>

Goto(t, place) == pc' = [pc EXCEPT ![t] = place]
-----------------------------------------------------------------------------
(* MUTANT: it is the next BD that is looked at, not the one after it. *)
CanSubmitHere == ~ready[current]

(* quicc_bd_tx_can_submit looks at the BD behind the current one. *)
CanSubmit == ~ready[Succ(current)]

(* What uec_if_dequeue returns: the rest of the packet or a new packet. *)
Dequeued(t) ==
    IF rest[t] # <<>> THEN rest[t]
    ELSE IF queue # <<>> THEN Packet(Head(queue))
    ELSE <<>>

(* MUTANT: the frame is compacted one fragment too late. *)
FrameFullLate == avail < 0

FrameFull == avail <= 0

(***************************************************************************)
(* Thread t dequeues and submits one fragment: it goes to the current BD,  *)
(* or, when the frame may not have more BDs, to its first BD together with *)
(* the fragments before it, and the other BDs of the frame are given back. *)
(* A frame becomes ready with its last fragment.                           *)
(***************************************************************************)
Submit(t) ==
    LET m       == Dequeued(t)
        isLast  == Len(m) = 1
        compact == FrameFull
        slot    == IF compact THEN first ELSE current
        ofFrame == IF compact
                   THEN {(first + k) % N : k \in 0..((current - first) % N)}
                   ELSE {}
        before  == FlattenSeq([k \in 1..((current - first) % N) |->
                                  data[(first + k - 1) % N]])
    IN  /\ data' = [data EXCEPT ![slot] = IF compact THEN Append(before, Head(m))
                                                     ELSE <<Head(m)>>]
        /\ last' = [i \in Slot |-> IF i = slot THEN isLast
                                   ELSE last[i] /\ i \notin ofFrame]
        /\ ready' = [i \in Slot |-> CASE i = slot -> isLast \/ slot # first
                                      [] i = first /\ i # slot -> isLast
                                      [] OTHER -> ready[i] /\ i \notin ofFrame]
        /\ current' = Succ(slot)
        /\ IF isLast
           THEN /\ first' = Succ(slot)
                /\ avail' = FragMax
           ELSE /\ avail' = (IF compact THEN FragMax - 1 ELSE avail) - 1
                /\ UNCHANGED first
        /\ queue' = IF rest[t] = <<>> THEN Tail(queue) ELSE queue
        /\ rest' = [rest EXCEPT ![t] = Tail(m)]
-----------------------------------------------------------------------------
(***************************************************************************)
(* A sender: the stack's IFQ_HANDOFF (external) queues the packet, reads   *)
(* OACTIVE, and calls uec_if_interface_start when it is clear.             *)
(***************************************************************************)
Enqueue(s, n) ==
    /\ pc[s] = "idle"
    /\ Len(size) < MaxPackets
    /\ IF NewStack THEN UNCHANGED lock
       ELSE lock = "none" /\ lock' = s
    /\ size' = Append(size, n)
    /\ queue' = Append(queue, Len(size'))
    /\ Goto(s, "queued")
    /\ UNCHANGED <<bds, rest, oactive, txStart, awaited, hw, wire>>

(* Back to the stack, which gives its semaphore up. *)
Return(s) ==
    /\ Goto(s, "idle")
    /\ lock' = IF NewStack THEN lock ELSE "none"

TestActive(s) ==
    /\ pc[s] = "queued"
    /\ IF oactive THEN Return(s)
       ELSE Goto(s, "start") /\ UNCHANGED lock
    /\ UNCHANGED <<bds, stack, rest, awaited, hw, wire>>

(* uec_if_lock, which does nothing for the old stack *)
Lock(s) ==
    /\ pc[s] = "start"
    /\ IF NewStack THEN lock = "none" /\ lock' = s ELSE UNCHANGED lock
    /\ Goto(s, "loop")
    /\ UNCHANGED <<bds, stack, rest, awaited, hw, wire>>

(***************************************************************************)
(* A turn of the loop of uec_if_interface_start.  If it had to wait in the *)
(* submission it would sleep for ever: the handler sends its event to the  *)
(* transmit task.                                                          *)
(***************************************************************************)
SubmitDirect(s) ==
    /\ pc[s] = "loop"
    /\ CanSubmit
    /\ Dequeued(s) # <<>>
    /\ Submit(s)
    /\ IF ready'[current']
       THEN Goto(s, "stuck") /\ lock' = "none"
       ELSE UNCHANGED <<pc, lock>>
    /\ UNCHANGED <<size, oactive, txStart, awaited, hw, wire>>

(* m is a local variable: what is left of a packet is forgotten. *)
Forget(s) == rest' = [rest EXCEPT ![s] = <<>>]

(* The loop ends with !can_submit ... *)
RingFull(s) ==
    /\ pc[s] = "loop"
    /\ ~CanSubmit
    /\ Forget(s)
    /\ Goto(s, "full")
    /\ lock' = IF NewStack THEN "none" ELSE lock
    /\ UNCHANGED <<bds, stack, awaited, hw, wire>>

(* ... or because there is nothing left to send. *)
AllSubmitted(s) ==
    /\ pc[s] = "loop"
    /\ CanSubmit
    /\ Dequeued(s) = <<>>
    /\ Goto(s, "idle")
    /\ lock' = "none"
    /\ UNCHANGED <<bds, stack, rest, awaited, hw, wire>>

(* MUTANT: OACTIVE is not set. *)
SetNothing(s) ==
    /\ pc[s] = "full"
    /\ Goto(s, "notify")
    /\ UNCHANGED <<bds, stack, rest, lock, awaited, hw, wire>>

SetActive(s) ==
    /\ pc[s] = "full"
    /\ oactive' = TRUE
    /\ Goto(s, "notify")
    /\ UNCHANGED <<bds, size, queue, txStart, rest, lock, awaited, hw, wire>>

(* MUTANT: the transmit task is not told. *)
NotifyNobody(s) ==
    /\ pc[s] = "notify"
    /\ Return(s)
    /\ UNCHANGED <<bds, stack, rest, awaited, hw, wire>>

Notify(s) ==
    /\ pc[s] = "notify"
    /\ txStart' = TRUE
    /\ Return(s)
    /\ UNCHANGED <<bds, size, queue, oactive, rest, awaited, hw, wire>>
-----------------------------------------------------------------------------
(* uec_if_tx_task: uec_if_wait_for_event(self, UEC_IF_EVENT_TX_START) *)
Wake ==
    /\ pc["tx"] = "sleep"
    /\ txStart
    /\ txStart' = FALSE
    /\ Goto("tx", "lock")
    /\ UNCHANGED <<bds, size, queue, oactive, rest, lock, awaited, hw, wire>>

(* The lock is taken again: after TX_START, or after the wait for a BD. *)
TxLock ==
    /\ \/ pc["tx"] = "lock"
       \/ pc["tx"] = "wait" /\ ~ready[awaited]
    /\ lock = "none"
    /\ lock' = "tx"
    /\ Goto("tx", "loop")
    /\ UNCHANGED <<bds, stack, rest, awaited, hw, wire>>

(* MUTANT: the transmit task does not wait for the next BD. *)
SubmitOnly ==
    /\ pc["tx"] = "loop"
    /\ Dequeued("tx") # <<>>
    /\ Submit("tx")
    /\ awaited' = current'
    /\ UNCHANGED <<size, oactive, txStart, pc, lock, hw, wire>>

(* A turn of the loop of uec_if_tx_task. *)
SubmitAndWait ==
    /\ pc["tx"] = "loop"
    /\ Dequeued("tx") # <<>>
    /\ Submit("tx")
    /\ awaited' = current'
    /\ IF ready'[current']
       THEN Goto("tx", "wait") /\ lock' = "none"
       ELSE UNCHANGED <<pc, lock>>
    /\ UNCHANGED <<size, oactive, txStart, hw, wire>>

QueueEmpty ==
    /\ pc["tx"] = "loop"
    /\ Dequeued("tx") = <<>>
    /\ Goto("tx", "clear")
    /\ UNCHANGED <<bds, stack, rest, lock, awaited, hw, wire>>

(* MUTANT: the transmit task forgets to clear OACTIVE. *)
SleepActive ==
    /\ pc["tx"] = "clear"
    /\ lock' = "none"
    /\ Goto("tx", "sleep")
    /\ UNCHANGED <<bds, stack, rest, awaited, hw, wire>>

(* OACTIVE is cleared; then the task unlocks and waits for TX_START. *)
ClearActive ==
    /\ pc["tx"] = "clear"
    /\ oactive' = FALSE
    /\ lock' = "none"
    /\ Goto("tx", "sleep")
    /\ UNCHANGED <<bds, size, queue, txStart, rest, awaited, hw, wire>>
-----------------------------------------------------------------------------
(* The controller: see Close in BdTx, which shows that it does not leave    *)
(* the ring.                                                               *)
Close ==
    /\ ready[hw]
    /\ ready' = [ready EXCEPT ![hw] = FALSE]
    /\ wire' = IF last[hw] THEN <<>> ELSE wire \o data[hw]
    /\ hw' = Succ(hw)
    /\ UNCHANGED <<last, data, current, first, avail, stack, rest, lock, pc, awaited>>
-----------------------------------------------------------------------------
Driver(s) == SubmitDirect(s) \/ RingFull(s) \/ AllSubmitted(s) \/ SetActive(s)
             \/ Notify(s)

TxTask == Wake \/ SubmitAndWait \/ QueueEmpty \/ ClearActive

Next ==
    \/ \E s \in Sender, n \in 1..MaxFrags : Enqueue(s, n)
    \/ \E s \in Sender : TestActive(s) \/ Lock(s) \/ Driver(s)
    \/ TxTask
    \/ TxLock
    \/ Close

Spec == Init /\ [][Next]_vars

(***************************************************************************)
(* Tasks that are ready run, the lock is handed over to a waiting task     *)
(* (so who wants it again and again gets it), the controller sends what is *)
(* ready.  Nothing makes the stack send a packet.                          *)
(***************************************************************************)
FairSpec ==
    /\ Spec
    /\ \A s \in Sender : WF_vars(TestActive(s)) /\ WF_vars(Driver(s)) /\ SF_vars(Lock(s))
    /\ WF_vars(TxTask)
    /\ SF_vars(TxLock)
    /\ WF_vars(Close)
-----------------------------------------------------------------------------
Frag == (1..MaxPackets) \X (1..MaxFrags)

(* The type invariant. *)
TypeOK ==
    /\ ready \in [Slot -> BOOLEAN]
    /\ last \in [Slot -> BOOLEAN]
    /\ data \in [Slot -> Seq(Frag)]
    /\ current \in Slot
    /\ first \in Slot
    /\ avail \in 0..FragMax
    /\ size \in Seq(1..MaxFrags)
    /\ queue \in Seq(1..MaxPackets)
    /\ rest \in [Thread -> Seq(Frag)]
    /\ oactive \in BOOLEAN
    /\ txStart \in BOOLEAN
    /\ lock \in Thread \union {"none"}
    /\ pc \in [Thread -> {"idle", "queued", "start", "loop", "full", "notify", "stuck",
                          "sleep", "lock", "wait", "clear", "absent"}]
    /\ awaited \in Slot
    /\ hw \in Slot
    /\ wire \in Seq(Frag)

(* What a thread does with the ring: it is between two fragments of it. *)
Submitting(t) == pc[t] \in {"loop", "wait", "clear", "stuck"}

(* The fragments the controller still has to send, in the order of the BDs. *)
Stream ==
    LET released == IF hw = first /\ ready[hw] THEN N ELSE (first - hw) % N
        pending  == (current - first) % N
    IN  wire \o FlattenSeq([k \in 1..(released + pending) |-> data[(hw + k - 1) % N]])

(***************************************************************************)
(* What keeps senders apart: the network semaphore of the old stack.  With *)
(* the new stack nothing does, so a single one must be sending.            *)
(***************************************************************************)
Exclusive ==
    NewStack => \A s, t \in Sender : "absent" \notin {pc[s], pc[t]} => s = t

(***************************************************************************)
(* Fragments of different packets are never mixed: behind a fragment comes *)
(* the next fragment of its packet, or the first one of a later packet.    *)
(* uec_if_interface_start and uec_if_tx_task share the ring, and the lock  *)
(* is free while the task waits in the middle of a packet: what keeps the  *)
(* senders away meanwhile is OACTIVE alone.                                *)
(***************************************************************************)
NotMixed ==
    Exclusive =>
        \A k \in 1..(Len(Stream) - 1) :
            LET f == Stream[k]
                g == Stream[k + 1]
            IN  \/ g = <<f[1], f[2] + 1>>
                \/ g[1] > f[1] /\ g[2] = 1

(***************************************************************************)
(* uec_if_interface_start never waits for the controller: it looks two BDs *)
(* ahead with quicc_bd_tx_can_submit, since the event the wait needs goes  *)
(* to the transmit task and would never reach the sender.                  *)
(***************************************************************************)
SenderNeverWaits == \A s \in Sender : pc[s] # "stuck"

(***************************************************************************)
(* The BD that gets the next fragment is not the controller's: whoever is  *)
(* about to submit has waited for it, or is the only one who submits.      *)
(***************************************************************************)
CurrentIsFree ==
    Exclusive =>
        \A t \in Thread :
            pc[t] = "loop" /\ (t = "tx" \/ CanSubmit) => ~ready[current]

(***************************************************************************)
(* With OACTIVE set the senders leave the ring alone: then the transmit    *)
(* task is awake, or its event is pending or about to be sent.             *)
(***************************************************************************)
ActiveServed ==
    oactive => \/ txStart
               \/ pc["tx"] # "sleep"
               \/ \E s \in Sender : pc[s] = "notify"

(* At most one of the transmit task and the senders works on the ring. *)
OneSubmitter ==
    \A s, t \in Thread : Submitting(s) /\ Submitting(t) => s = t

(***************************************************************************)
(* What a reader of the driver expects of it: every frame on the wire is a *)
(* packet the stack has sent.                                              *)
(***************************************************************************)
FramesArePackets ==
    ready[hw] /\ last[hw] =>
        \E p \in DOMAIN size : wire \o data[hw] = Packet(p)

(***************************************************************************)
(* OACTIVE does not outlast the traffic: with an empty queue it is cleared *)
(* in the end, unless another packet is queued before.  The transmit task  *)
(* clears it only when it finds the queue empty, so senders that keep      *)
(* queueing may keep it set for ever; nothing is said about that case.     *)
(***************************************************************************)
ActiveEnds == oactive /\ queue = <<>> ~> ~oactive \/ queue # <<>>

(***************************************************************************)
(* No packet is stuck in the queue: a sender that finds OACTIVE set relies *)
(* on the transmit task, which is about to go back to sleep.               *)
(***************************************************************************)
QueueServed ==
    \A p \in 1..MaxPackets : Contains(queue, p) ~> ~Contains(queue, p)
=============================================================================
