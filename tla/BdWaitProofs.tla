---------------------------- MODULE BdWaitProofs ----------------------------
(***************************************************************************)
(* No wakeup is lost, for rings of any size.                               *)
(***************************************************************************)
EXTENDS BdWait, TLAPS

USE RingAssumption

LEMMA FlagsType == \A t \in Task : Flags(t) \subseteq Flag /\ Flags(t) # {}
  BY DEF Task, Flags, Flag

LEMMA FlagsApart ==
  \A s, t \in Task : s # t => Flags(s) \intersect Flags(t) = {}
  BY DEF Task, Flags

LEMMA WaitInit == Init => WaitInv
  BY DEF Init, WaitInv, TypeOK, Noted, Enabled, HandlerInv, LockHeld, BdKept,
         Task, Flag

(* A task step: the place of one task changes. *)
LEMMA TaskStep ==
  ASSUME NEW t \in Task, WaitInv, Acquire(t) \/ Running(t)
  PROVE  WaitInv'
<1>1. TypeOK /\ Noted /\ Enabled /\ HandlerInv /\ LockHeld /\ BdKept
  BY DEF WaitInv
<1>2. hpc = "idle" /\ hpc' = hpc /\ seen' = seen /\ due' = due
  BY DEF Acquire, Running, Start, Look, Clear, Check, Enable, Unlock, Receive,
         Relock, Reuse, Leave, Return, At
<1>3. CASE Start(t)
  BY <1>1, <1>2, <1>3
     DEF Start, At, Goto, WaitInv, TypeOK, Noted, Enabled, HandlerInv, LockHeld,
         BdKept, InHandler, Task
<1>4. CASE Look(t)
  BY <1>1, <1>2, <1>4
     DEF Look, At, Goto, WaitInv, TypeOK, Noted, Enabled, HandlerInv, LockHeld,
         BdKept, InHandler
<1>5. CASE Clear(t)
  <2>1. ucce' = ucce \ Flags(t) /\ pc' = [pc EXCEPT ![t] = "check"]
        /\ closed' = closed /\ uccm' = uccm /\ irq' = irq /\ lock' = lock
        /\ pc[t] = "clear"
    BY <1>5 DEF Clear, At, Goto, AfterClear
  <2>2. TypeOK' /\ LockHeld' /\ BdKept' /\ HandlerInv'
    BY <1>1, <1>2, <2>1 DEF TypeOK, LockHeld, BdKept, HandlerInv
  <2>3. Noted'
    <3>1. SUFFICES ASSUME NEW s \in Task,
                          pc'[s] \in {"enable", "unlock", "receive"}, closed'[s] > 0
                   PROVE  \/ irq'[s]
                          \/ (due' \union ucce') \intersect Flags(s) # {}
                          \/ InHandler(s)'
      BY DEF Noted
    <3>2. s # t /\ pc'[s] = pc[s]
      BY <1>1, <2>1, <3>1 DEF TypeOK
    <3>3. irq[s] \/ (due \union ucce) \intersect Flags(s) # {}
      BY <1>1, <1>2, <2>1, <3>1, <3>2 DEF Noted, InHandler
    <3>. QED BY <1>2, <2>1, <3>2, <3>3, FlagsApart
  <2>4. Enabled'
    BY <1>1, <1>2, <2>1 DEF Enabled, TypeOK
  <2>. QED BY <2>2, <2>3, <2>4 DEF WaitInv
<1>6. CASE Check(t)
  BY <1>1, <1>2, <1>6
     DEF Check, At, Goto, WaitInv, TypeOK, Noted, Enabled, HandlerInv,
         LockHeld, BdKept, InHandler
<1>7. CASE Enable(t)
  <2>1. uccm' = uccm \union Flags(t) /\ pc' = [pc EXCEPT ![t] = "unlock"]
        /\ closed' = closed /\ ucce' = ucce /\ irq' = irq /\ lock' = lock
        /\ pc[t] = "enable"
    BY <1>7 DEF Enable, At, Goto
  <2>2. TypeOK'
    BY <1>1, <1>2, <2>1, FlagsType DEF TypeOK
  <2>3. LockHeld' /\ BdKept' /\ HandlerInv'
    BY <1>1, <1>2, <2>1 DEF TypeOK, LockHeld, BdKept, HandlerInv
  <2>4. Noted' /\ Enabled'
    BY <1>1, <1>2, <2>1 DEF TypeOK, Noted, Enabled, InHandler
  <2>. QED BY <2>2, <2>3, <2>4 DEF WaitInv
<1>8. CASE Unlock(t)
  BY <1>1, <1>2, <1>8
     DEF Unlock, At, Goto, WaitInv, TypeOK, Noted, Enabled, HandlerInv, LockHeld,
         BdKept, InHandler, Task
<1>9. CASE Receive(t)
  BY <1>1, <1>2, <1>9
     DEF Receive, At, Goto, WaitInv, TypeOK, Noted, Enabled, HandlerInv, LockHeld,
         BdKept, InHandler
<1>10. CASE Relock(t)
  BY <1>1, <1>2, <1>10
     DEF Relock, At, Goto, WaitInv, TypeOK, Noted, Enabled, HandlerInv,
         LockHeld, BdKept, InHandler, Task
<1>11. CASE Reuse(t)
  BY <1>1, <1>2, <1>11
     DEF Reuse, At, Goto, WaitInv, TypeOK, Noted, Enabled, HandlerInv, LockHeld,
         BdKept, InHandler
<1>12. CASE Leave(t)
  BY <1>1, <1>2, <1>12
     DEF Leave, At, Goto, WaitInv, TypeOK, Noted, Enabled, HandlerInv, LockHeld,
         BdKept, InHandler, Task
<1>13. CASE Return(t)
  BY <1>1, <1>2, <1>13
     DEF Return, At, Goto, WaitInv, TypeOK, Noted, Enabled, HandlerInv, LockHeld,
         BdKept, InHandler, Task
<1>. QED BY <1>3, <1>4, <1>5, <1>6, <1>7, <1>8, <1>9, <1>10, <1>11, <1>12, <1>13
         DEF Acquire, Running

LEMMA OtherStep == WaitInv /\ (OtherLock \/ OtherUnlock) => WaitInv'
  BY DEF OtherLock, OtherUnlock, WaitInv, TypeOK, Noted, Enabled, HandlerInv,
         LockHeld, BdKept, InHandler, Woken, Task

(* The handler: what it has read stays noted until the event is sent. *)
LEMMA HandlerStep == WaitInv /\ Handler => WaitInv'
<1>. SUFFICES ASSUME WaitInv, Handler PROVE WaitInv'
  OBVIOUS
<1>1. TypeOK /\ Noted /\ Enabled /\ HandlerInv /\ LockHeld /\ BdKept
  BY DEF WaitInv
<1>2. /\ closed' = closed /\ due' = due /\ pc' = pc /\ lock' = lock
  BY DEF Handler, HandlerRead, HandlerAck, HandlerMask, HandlerSend
<1>3. LockHeld' /\ BdKept'
  BY <1>1, <1>2 DEF LockHeld, BdKept
<1>4. CASE HandlerRead
  BY <1>1, <1>2, <1>3, <1>4
     DEF HandlerRead, WaitInv, TypeOK, Noted, Enabled, HandlerInv, InHandler
<1>5. CASE HandlerAck
  <2>1. hpc = "ack" /\ hpc' = "mask" /\ ucce' = ucce \ (seen \intersect uccm)
        /\ uccm' = uccm /\ irq' = irq /\ seen' = seen
    BY <1>5 DEF HandlerAck
  <2>2. TypeOK' /\ HandlerInv' /\ Enabled'
    BY <1>1, <1>2, <2>1 DEF TypeOK, HandlerInv, Enabled
  <2>3. Noted'
    <3>1. SUFFICES ASSUME NEW s \in Task,
                          pc[s] \in {"enable", "unlock", "receive"}, closed[s] > 0,
                          ~irq[s], seen \intersect Flags(s) = {}
                   PROVE  (due \union ucce') \intersect Flags(s) # {}
      BY <1>2, <2>1 DEF Noted, InHandler, Woken
    <3>2. (due \union ucce) \intersect Flags(s) # {}
      BY <1>1, <2>1, <3>1 DEF Noted, InHandler
    <3>. QED BY <2>1, <3>1, <3>2
  <2>. QED BY <1>3, <2>2, <2>3 DEF WaitInv
<1>6. CASE HandlerMask
  <2>1. hpc = "mask" /\ hpc' = "send" /\ ucce' = ucce /\ uccm' = uccm \ seen
        /\ irq' = irq /\ seen' = seen
    BY <1>6 DEF HandlerMask
  <2>2. TypeOK' /\ HandlerInv'
    BY <1>1, <1>2, <2>1 DEF TypeOK, HandlerInv
  <2>3. Noted'
    BY <1>1, <1>2, <2>1 DEF Noted, InHandler, Woken
  <2>4. Enabled'
    <3>1. SUFFICES ASSUME NEW s \in Task, pc[s] \in {"unlock", "receive"},
                          ~irq[s], seen \intersect Flags(s) = {}
                   PROVE  Flags(s) \subseteq uccm'
      BY <1>2, <2>1 DEF Enabled, Woken
    <3>. QED BY <1>1, <2>1, <3>1 DEF Enabled
  <2>. QED BY <1>3, <2>2, <2>3, <2>4 DEF WaitInv
<1>7. CASE HandlerSend
  <2>1. hpc = "send" /\ hpc' = "idle" /\ ucce' = ucce /\ uccm' = uccm
        /\ irq' = [t \in Task |-> irq[t] \/ Woken(t)] /\ seen' = {}
    BY <1>7 DEF HandlerSend
  <2>2. \A s \in Task : irq'[s] <=> irq[s] \/ Woken(s)
    BY <2>1
  <2>3. irq' \in [Task -> BOOLEAN]
    BY <1>1, <2>1 DEF TypeOK, Woken
  <2>4. TypeOK' /\ HandlerInv'
    BY <1>1, <1>2, <2>1, <2>3 DEF TypeOK, HandlerInv
  <2>5. Noted'
    BY <1>1, <1>2, <2>1, <2>2 DEF Noted, InHandler
  <2>6. Enabled'
    BY <1>1, <1>2, <2>1, <2>2 DEF Enabled
  <2>. QED BY <1>3, <2>4, <2>5, <2>6 DEF WaitInv
<1>. QED BY <1>4, <1>5, <1>6, <1>7 DEF Handler

LEMMA CloseStep ==
  ASSUME NEW t \in Task, NEW f \in Flag, WaitInv, CloseBd(t, f) PROVE WaitInv'
<1>1. TypeOK /\ Noted /\ Enabled /\ HandlerInv /\ LockHeld /\ BdKept
  BY DEF WaitInv
<1>2. /\ closed[t] < Ring /\ f \in Flags(t)
      /\ closed' = [closed EXCEPT ![t] = @ + 1] /\ due' = due \union {f}
      /\ ucce' = ucce /\ uccm' = uccm /\ irq' = irq /\ pc' = pc
      /\ lock' = lock /\ hpc' = hpc /\ seen' = seen
  BY DEF CloseBd
<1>3. TypeOK' /\ BdKept'
  BY <1>1, <1>2 DEF TypeOK, BdKept
<1>4. Enabled' /\ HandlerInv' /\ LockHeld'
  BY <1>1, <1>2 DEF Enabled, HandlerInv, LockHeld, Woken
<1>5. Noted'
  BY <1>1, <1>2 DEF Noted, InHandler, Woken, TypeOK
<1>. QED BY <1>3, <1>4, <1>5 DEF WaitInv

LEMMA RaiseStep == ASSUME NEW f \in Flag, WaitInv, Raise(f) PROVE WaitInv'
<1>1. TypeOK /\ Noted /\ Enabled /\ HandlerInv /\ LockHeld /\ BdKept
  BY DEF WaitInv
<1>2. /\ f \in due /\ due' = due \ {f} /\ ucce' = ucce \union {f}
      /\ closed' = closed /\ uccm' = uccm /\ irq' = irq /\ pc' = pc
      /\ lock' = lock /\ hpc' = hpc /\ seen' = seen
  BY DEF Raise
<1>3. TypeOK' /\ BdKept' /\ Enabled' /\ HandlerInv' /\ LockHeld'
  BY <1>1, <1>2 DEF TypeOK, BdKept, Enabled, HandlerInv, LockHeld, Woken
<1>4. due' \union ucce' = due \union ucce
  BY <1>2
<1>5. Noted'
  BY <1>1, <1>2, <1>4 DEF Noted, InHandler, Woken
<1>. QED BY <1>3, <1>5 DEF WaitInv

LEMMA WaitStep == WaitInv /\ [Next]_vars => WaitInv'
<1>. SUFFICES ASSUME WaitInv, [Next]_vars PROVE WaitInv'
  OBVIOUS
<1>1. CASE UNCHANGED vars
  BY <1>1 DEF vars, WaitInv, TypeOK, Noted, Enabled, HandlerInv, LockHeld, BdKept,
              InHandler, Woken
<1>. QED BY <1>1, TaskStep, OtherStep, HandlerStep, CloseStep, RaiseStep DEF Next

(* Every state of the wait satisfies the inductive invariant. *)
THEOREM WaitAlways == Spec => []WaitInv
  BY WaitInit, WaitStep, PTL DEF Spec

(* No task sleeps on a closed BD without a wakeup on its way. *)
THEOREM NoWakeupIsLost == Spec => []NoLostWakeup
<1>1. WaitInv => NoLostWakeup
  BY DEF WaitInv, Noted, Enabled, NoLostWakeup, InHandler
<1>. QED BY <1>1, WaitAlways, PTL
=============================================================================
