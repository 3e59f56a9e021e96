------------------------------- MODULE BdWait -------------------------------
(***************************************************************************)
(* How the two tasks of the Ethernet driver wait for buffer descriptors:   *)
(* uec_if_bd_wait, called by uec_if_rx_task and uec_if_tx_task, with the   *)
(* handler uec_if_interrupt_handler (src/quicc/quicc-uec-if.c).            *)
(*                                                                         *)
(* The event register UCCE and its mask UCCM are shared by both tasks, the *)
(* handler and the controller.  The processor has one core and a handler   *)
(* is not preempted by a task; the controller moves between any two        *)
(* register accesses of both.  A BD is known here by who owns it only.     *)
(***************************************************************************)
EXTENDS Integers, FiniteSets

CONSTANT Ring    \* the BDs of each ring

ASSUME RingAssumption == Ring \in Nat \ {0}

Task == {"rx", "tx"}

(* UEC_IF_RX_UCCE_FLAGS and UEC_IF_TX_UCCE_FLAGS *)
Flags(t) == IF t = "rx" THEN {"RXB0"} ELSE {"TXE", "TXB0"}

Flag == {"RXB0", "TXE", "TXB0"}

VARIABLES
    closed,  \* BDs the controller has closed and the task has not taken
    due,     \* flags of closed BDs the controller has not yet put in UCCE
    ucce,    \* the event register
    uccm,    \* its mask: the enabled interrupts
    irq,     \* UEC_IF_EVENT_IRQ is pending for the task
    pc,      \* where a task is
    lock,    \* the holder of the driver lock
    hpc,     \* where the interrupt handler is
    seen     \* the UCCE value it has read

vars == <<closed, due, ucce, uccm, irq, pc, lock, hpc, seen>>

(***************************************************************************)
(* After uec_if_interface_init: the receive ring is empty and its task is  *)
(* about to look at the first BD; the transmit ring is free and its task   *)
(* waits for something to send.  uccm and ucce are cleared by              *)
(* quicc_ucf_init.                                                         *)
(***************************************************************************)
Init ==
    /\ closed = [t \in Task |-> IF t = "rx" THEN 0 ELSE Ring]
    /\ due = {}
    /\ ucce = {}
    /\ uccm = {}
    /\ irq = [t \in Task |-> FALSE]
    /\ pc = [t \in Task |-> IF t = "rx" THEN "start" ELSE "outside"]
    /\ lock = "none"
    /\ hpc = "idle"
    /\ seen = {}
-----------------------------------------------------------------------------
(* A task runs only while the handler does not. *)
At(t, place) == hpc = "idle" /\ pc[t] = place

Goto(t, place) == pc' = [pc EXCEPT ![t] = place]

Start(t) ==
    /\ At(t, "start")
    /\ lock = "none"
    /\ lock' = t
    /\ Goto(t, "look")
    /\ UNCHANGED <<closed, due, ucce, uccm, irq, hpc, seen>>

(* status = bd->status before the loop *)
Look(t) ==
    /\ At(t, "look")
    /\ Goto(t, IF closed[t] > 0 THEN "process" ELSE "clear")
    /\ UNCHANGED <<closed, due, ucce, uccm, irq, lock, hpc, seen>>

(* MUTANT: the BD is not read again after the flag has been cleared. *)
NoSecondLook == "enable"

(* Where a turn of the loop goes once the flag is cleared. *)
AfterClear == "check"

(* ucf_regs->ucce = ucce_flags: writing a one clears the flag. *)
Clear(t) ==
    /\ At(t, "clear")
    /\ ucce' = ucce \ Flags(t)
    /\ Goto(t, AfterClear)
    /\ UNCHANGED <<closed, due, uccm, irq, lock, hpc, seen>>

(* status = bd->status in the loop *)
Check(t) ==
    /\ At(t, "check")
    /\ Goto(t, IF closed[t] > 0 THEN "process" ELSE "enable")
    /\ UNCHANGED <<closed, due, ucce, uccm, irq, lock, hpc, seen>>

(* ucf_regs->uccm |= ucce_flags, with interrupts disabled *)
Enable(t) ==
    /\ At(t, "enable")
    /\ uccm' = uccm \union Flags(t)
    /\ Goto(t, "unlock")
    /\ UNCHANGED <<closed, due, ucce, irq, lock, hpc, seen>>

(* uec_if_wait_for_event: unlock, receive the event, lock *)
Unlock(t) ==
    /\ At(t, "unlock")
    /\ lock' = "none"
    /\ Goto(t, "receive")
    /\ UNCHANGED <<closed, due, ucce, uccm, irq, hpc, seen>>

Receive(t) ==
    /\ At(t, "receive")
    /\ irq[t]
    /\ irq' = [irq EXCEPT ![t] = FALSE]
    /\ Goto(t, "relock")
    /\ UNCHANGED <<closed, due, ucce, uccm, lock, hpc, seen>>

Relock(t) ==
    /\ At(t, "relock")
    /\ lock = "none"
    /\ lock' = t
    /\ Goto(t, "clear")
    /\ UNCHANGED <<closed, due, ucce, uccm, irq, hpc, seen>>

(***************************************************************************)
(* The wait is over.  Either the task gives the BD back to the controller  *)
(* at once and keeps the lock (an erroneous frame; the next fragment of    *)
(* the packets in the queue) or it gives the lock up first (if_input;      *)
(* uec_if_wait_for_event for TX_START when the queue is empty).            *)
(***************************************************************************)
Reuse(t) ==
    /\ At(t, "process")
    /\ closed' = [closed EXCEPT ![t] = @ - 1]
    /\ Goto(t, "look")
    /\ UNCHANGED <<due, ucce, uccm, irq, lock, hpc, seen>>

Leave(t) ==
    /\ At(t, "process")
    /\ lock' = "none"
    /\ Goto(t, "outside")
    /\ UNCHANGED <<closed, due, ucce, uccm, irq, hpc, seen>>

Return(t) ==
    /\ At(t, "outside")
    /\ lock = "none"
    /\ lock' = t
    /\ closed' = [closed EXCEPT ![t] = @ - 1]
    /\ Goto(t, "look")
    /\ UNCHANGED <<due, ucce, uccm, irq, hpc, seen>>

(***************************************************************************)
(* The other users of the lock: uec_if_interface_start in another task,    *)
(* uec_if_interface_init and the watchdog.  They hold it for a while.      *)
(***************************************************************************)
OtherLock ==
    /\ hpc = "idle"
    /\ lock = "none"
    /\ lock' = "other"
    /\ UNCHANGED <<closed, due, ucce, uccm, irq, pc, hpc, seen>>

OtherUnlock ==
    /\ hpc = "idle"
    /\ lock = "other"
    /\ lock' = "none"
    /\ UNCHANGED <<closed, due, ucce, uccm, irq, pc, hpc, seen>>
-----------------------------------------------------------------------------
(* uec_if_interrupt_handler, one register access after the other. *)
HandlerRead ==
    /\ hpc = "idle"
    /\ ucce \intersect uccm # {}
    /\ seen' = ucce
    /\ hpc' = "ack"
    /\ UNCHANGED <<closed, due, ucce, uccm, irq, pc, lock>>

(* ucf_regs->ucce = ucce & uccm *)
HandlerAck ==
    /\ hpc = "ack"
    /\ ucce' = ucce \ (seen \intersect uccm)
    /\ hpc' = "mask"
    /\ UNCHANGED <<closed, due, uccm, irq, pc, lock, seen>>

(* MUTANT: the handler masks the flags set by now, not those it has read. *)
MaskByNow ==
    /\ hpc = "mask"
    /\ uccm' = uccm \ ucce
    /\ hpc' = "send"
    /\ UNCHANGED <<closed, due, ucce, irq, pc, lock, seen>>

(* ucf_regs->uccm = uccm & ~ucce, with the value of ucce read above *)
HandlerMask ==
    /\ hpc = "mask"
    /\ uccm' = uccm \ seen
    /\ hpc' = "send"
    /\ UNCHANGED <<closed, due, ucce, irq, pc, lock, seen>>

(* MUTANT: all flags of a task must be set to wake it. *)
WokenByAll(t) == Flags(t) \subseteq seen

(* Whom the handler wakes, flag enabled or not. *)
Woken(t) == seen \intersect Flags(t) # {}

HandlerSend ==
    /\ hpc = "send"
    /\ irq' = [t \in Task |-> irq[t] \/ Woken(t)]
    /\ hpc' = "idle"
    /\ seen' = {}
    /\ UNCHANGED <<closed, due, ucce, uccm, pc, lock>>
-----------------------------------------------------------------------------
(* The controller closes a BD and afterwards sets the flag in UCCE. *)
CloseBd(t, f) ==
    /\ closed[t] < Ring
    /\ f \in Flags(t)
    /\ closed' = [closed EXCEPT ![t] = @ + 1]
    /\ due' = due \union {f}
    /\ UNCHANGED <<ucce, uccm, irq, pc, lock, hpc, seen>>

Raise(f) ==
    /\ f \in due
    /\ due' = due \ {f}
    /\ ucce' = ucce \union {f}
    /\ UNCHANGED <<closed, uccm, irq, pc, lock, hpc, seen>>
-----------------------------------------------------------------------------
Acquire(t) == Start(t) \/ Relock(t) \/ Return(t)

Running(t) == Look(t) \/ Clear(t) \/ Check(t) \/ Enable(t) \/ Unlock(t)
              \/ Receive(t) \/ Reuse(t) \/ Leave(t)

Handler == HandlerRead \/ HandlerAck \/ HandlerMask \/ HandlerSend

Next ==
    \/ \E t \in Task : Acquire(t) \/ Running(t)
    \/ OtherLock \/ OtherUnlock
    \/ Handler
    \/ \E t \in Task, f \in Flag : CloseBd(t, f)
    \/ \E f \in Flag : Raise(f)

Spec == Init /\ [][Next]_vars

(***************************************************************************)
(* The scheduler runs a task that is ready, interrupts leave time for it   *)
(* (strong fairness: the handler stops the task again and again), the      *)
(* handler is called for an enabled flag and returns, the controller sets  *)
(* the flags that are due.                                                 *)
(* The lock is handed over to the waiting task of the highest priority,    *)
(* so one that waits for it again and again gets it: strong fairness.  A   *)
(* task does not keep the lock for ever: at times a frame is free of       *)
(* errors, at times the queue is empty.  Nothing makes a frame arrive or   *)
(* the stack send one.                                                     *)
(***************************************************************************)
Fairness ==
    /\ \A t \in Task : /\ SF_vars(Running(t))
                       /\ SF_vars(Leave(t))
                       /\ SF_vars(Relock(t))
    /\ WF_vars(OtherUnlock)
    /\ WF_vars(Handler)
    /\ \A f \in Flag : WF_vars(Raise(f))

FairSpec == Spec /\ Fairness
-----------------------------------------------------------------------------
(* The type invariant. *)
TypeOK ==
    /\ closed \in [Task -> 0..Ring]
    /\ due \subseteq Flag
    /\ ucce \subseteq Flag
    /\ uccm \subseteq Flag
    /\ irq \in [Task -> BOOLEAN]
    /\ pc \in [Task -> {"start", "look", "clear", "check", "enable", "unlock",
                        "receive", "relock", "process", "outside"}]
    /\ lock \in Task \union {"none", "other"}
    /\ hpc \in {"idle", "ack", "mask", "send"}
    /\ seen \subseteq Flag

(* A flag of task t that the handler has read and not yet told the task. *)
InHandler(t) == hpc \in {"mask", "send"} /\ Woken(t)

(***************************************************************************)
(* No wakeup is lost: a task that sleeps although its BD is closed has the *)
(* event pending, or the interrupt that sends it is sure to come.  The     *)
(* task must therefore clear the flag before it looks at the BD, and look  *)
(* at the BD before it enables the interrupt (quicc-uec-if.c:346-358).     *)
(***************************************************************************)
NoLostWakeup ==
    \A t \in Task :
        pc[t] = "receive" /\ closed[t] > 0 =>
            \/ irq[t]
            \/ (due \union ucce) \intersect uccm \intersect Flags(t) # {}
            \/ InHandler(t)

(***************************************************************************)
(* The inductive invariant behind it.  From the check on the close of the  *)
(* BD is noted somewhere, and from the enabling on the interrupt stays     *)
(* enabled until it is on the way to the task.                             *)
(***************************************************************************)
Noted ==
    \A t \in Task :
        pc[t] \in {"enable", "unlock", "receive"} /\ closed[t] > 0 =>
            \/ irq[t]
            \/ (due \union ucce) \intersect Flags(t) # {}
            \/ InHandler(t)

Enabled ==
    \A t \in Task :
        pc[t] \in {"unlock", "receive"} =>
            irq[t] \/ Flags(t) \subseteq uccm \/ (hpc = "send" /\ Woken(t))

(* The handler acknowledges what it has read; nobody else clears a flag. *)
HandlerInv == hpc = "ack" => seen \subseteq ucce

(***************************************************************************)
(* The lock: a task holds it in the loop, except while it sleeps; so the   *)
(* two tasks never touch the rings at the same time.                       *)
(***************************************************************************)
LockHeld ==
    \A t \in Task :
        lock = t <=> pc[t] \notin {"start", "receive", "relock", "outside"}

(* A BD a task has found closed stays its own until the task gives it back. *)
BdKept == \A t \in Task : pc[t] \in {"process", "outside"} => closed[t] > 0

WaitInv == TypeOK /\ Noted /\ Enabled /\ HandlerInv /\ LockHeld /\ BdKept

(* A task that waits for a BD that gets closed leaves the wait. *)
Wakes ==
    \A t \in Task :
        pc[t] \in {"clear", "check", "enable", "unlock", "receive", "relock"}
          /\ closed[t] > 0 ~> pc[t] = "process"
=============================================================================
