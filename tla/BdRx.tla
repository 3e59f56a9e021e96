-------------------------------- MODULE BdRx --------------------------------
(***************************************************************************)
(* The receive buffer descriptor (BD) ring of the QUICC Engine driver:     *)
(* quicc_bd_rx_init and quicc_bd_rx_process (src/quicc/quicc-bd.c) with    *)
(* the callbacks uec_if_bd_rx_fill and uec_if_bd_process                   *)
(* (src/quicc/quicc-uec-if.c), running against the controller.             *)
(*                                                                         *)
(* There is one receive task and nobody else touches the ring; how it      *)
(* waits for a BD is the subject of module BdWait.  The stores of the task *)
(* to a BD are steps of their own, so the controller moves between them.   *)
(***************************************************************************)
EXTENDS Integers, FiniteSets

CONSTANTS
    N,         \* bd_count
    Mbuf,      \* the mbufs of the pool
    None,      \* a NULL pointer
    MaxFrames  \* bound: the frames that arrive; they are numbered from 1

Slot == 0..(N - 1)

ASSUME NAssumption == N \in Nat \ {0}
ASSUME MbufAssumption == None \notin Mbuf
ASSUME BoundAssumption == MaxFrames \in Nat

VARIABLES
    empty,    \* QUICC_BD_RX_E of a BD: it belongs to the controller
    error,    \* one of the error flags of a BD is set
    wrap,     \* QUICC_BD_W: the BD ends the ring
    buf,      \* the mbuf the buffer pointer of a BD points into
    arg,      \* per_bd_arg: the mbuf of a BD
    current,  \* the BD the task is at
    pc,       \* where the task is in uec_if_bd_process
    status,   \* the error and wrap flags it has read
    new,      \* m: the mbuf it gives back to the BD
    stack,    \* the mbufs the network stack has
    content,  \* the frame in an mbuf
    arrived,  \* frames that have arrived so far
    hw,       \* the BD the controller is at
    fetched,  \* the buffer it will store the next frame to
    frame,    \* the frame a BD was closed for
    late      \* BDs fetched between the two stores that give them back

bds        == <<empty, error, wrap, buf>>
task       == <<arg, current, pc, status, new>>
controller == <<arrived, hw, fetched, frame, late>>
vars       == <<bds, task, stack, content, controller>>

Succ(i) == IF i = N - 1 THEN 0 ELSE i + 1

NoStatus == [error |-> FALSE, wrap |-> FALSE]

(***************************************************************************)
(* The BDs whose per_bd_arg is valid: not the one at current between the   *)
(* call of the stack and the store of the new mbuf to it.                  *)
(***************************************************************************)
Holders == IF pc \in {"wait", "input"} THEN Slot ELSE Slot \ {current}

(* The mbufs of the driver. *)
Driver == {arg[i] : i \in Holders} \union ({new} \ {None})

(* quicc_bd_rx_init: uec_if_bd_rx_fill gives every BD an mbuf of its own. *)
Init ==
    /\ arg \in [Slot -> Mbuf]
    /\ \A i, j \in Slot : arg[i] = arg[j] => i = j
    /\ buf = arg
    /\ empty = [i \in Slot |-> TRUE]
    /\ error = [i \in Slot |-> FALSE]
    /\ wrap = [i \in Slot |-> i = N - 1]
    /\ current = 0
    /\ pc = "wait"
    /\ status = NoStatus
    /\ new = None
    /\ stack = {}
    /\ content = [m \in Mbuf |-> 0]
    /\ arrived = 0
    /\ hw = 0
    /\ fetched = None
    /\ frame = [i \in Slot |-> 0]
    /\ late = {}
-----------------------------------------------------------------------------
(* MUTANT: the BD of an erroneous frame is skipped. *)
WaitSkip ==
    /\ pc = "wait"
    /\ ~empty[current]
    /\ IF error[current]
       THEN current' = Succ(current) /\ UNCHANGED <<pc, status>>
       ELSE /\ pc' = "input"
            /\ status' = [error |-> FALSE, wrap |-> wrap[current]]
            /\ UNCHANGED current
    /\ UNCHANGED <<bds, arg, new, stack, content, controller>>

(***************************************************************************)
(* uec_if_bd_wait is over.  A frame without error is for the stack; the    *)
(* mbuf of an erroneous one goes back to the BD.                           *)
(***************************************************************************)
Wait ==
    /\ pc = "wait"
    /\ ~empty[current]
    /\ status' = [error |-> error[current], wrap |-> wrap[current]]
    /\ IF error[current]
       THEN pc' = "status" /\ new' = arg[current]
       ELSE pc' = "input" /\ UNCHANGED new
    /\ UNCHANGED <<bds, arg, current, stack, content, controller>>

(* if_input or ether_input: the stack has the mbuf from now on. *)
Input ==
    /\ pc = "input"
    /\ stack' = stack \union {arg[current]}
    /\ pc' = "refill"
    /\ UNCHANGED <<bds, arg, current, status, new, content, controller>>

(* MUTANT: the mbuf that was given to the stack is used again. *)
RefillSame(m) ==
    /\ pc = "refill"
    /\ m = buf[current]
    /\ new' = m
    /\ pc' = "status"
    /\ UNCHANGED <<bds, arg, current, status, stack, content, controller>>

(* uec_if_get_mbuf waits until there is a free mbuf. *)
Refill(m) ==
    /\ pc = "refill"
    /\ m \in Mbuf \ (stack \union Driver)
    /\ new' = m
    /\ pc' = "status"
    /\ UNCHANGED <<bds, arg, current, status, stack, content, controller>>

(* MUTANT: the wrap bit is lost when the BD is given back. *)
StoreStatusNoWrap ==
    /\ pc = "status"
    /\ empty' = [empty EXCEPT ![current] = TRUE]
    /\ error' = [error EXCEPT ![current] = FALSE]
    /\ wrap' = [wrap EXCEPT ![current] = FALSE]
    /\ pc' = "buffer"
    /\ UNCHANGED <<buf, arg, current, status, new, stack, content, controller>>

(* bd->status = (status & QUICC_BD_W) | QUICC_BD_I | QUICC_BD_RX_E *)
StoreStatus ==
    /\ pc = "status"
    /\ empty' = [empty EXCEPT ![current] = TRUE]
    /\ error' = [error EXCEPT ![current] = FALSE]
    /\ wrap' = [wrap EXCEPT ![current] = status.wrap]
    /\ pc' = "buffer"
    /\ UNCHANGED <<buf, arg, current, status, new, stack, content, controller>>

(* MUTANT: the buffer pointer of the BD is not renewed. *)
StoreArgOnly ==
    /\ pc = "buffer"
    /\ arg' = [arg EXCEPT ![current] = new]
    /\ current' = Succ(current)
    /\ pc' = "wait"
    /\ status' = NoStatus
    /\ new' = None
    /\ UNCHANGED <<bds, stack, content, controller>>

(* bd->buffer = ..., then *per_bd_arg = ... and on to the next BD *)
StoreBuffer ==
    /\ pc = "buffer"
    /\ buf' = [buf EXCEPT ![current] = new]
    /\ arg' = [arg EXCEPT ![current] = new]
    /\ current' = Succ(current)
    /\ pc' = "wait"
    /\ status' = NoStatus
    /\ new' = None
    /\ UNCHANGED <<empty, error, wrap, stack, content, controller>>
-----------------------------------------------------------------------------
(* The stack is done with an mbuf. *)
StackFree(m) ==
    /\ m \in stack
    /\ stack' = stack \ {m}
    /\ UNCHANGED <<bds, task, content, controller>>

(***************************************************************************)
(* The controller fetches an empty BD, stores the next frame to its buffer *)
(* and closes it; a frame that finds no empty BD is lost.                  *)
(***************************************************************************)
Fetch ==
    /\ fetched = None
    /\ hw \in Slot
    /\ empty[hw]
    /\ fetched' = buf[hw]
    /\ late' = IF pc = "buffer" /\ hw = current THEN late \union {hw} ELSE late \ {hw}
    /\ UNCHANGED <<bds, task, stack, content, arrived, hw, frame>>

Receive(bad) ==
    /\ fetched # None
    /\ arrived < MaxFrames
    /\ arrived' = arrived + 1
    /\ content' = [content EXCEPT ![fetched] = arrived']
    /\ frame' = [frame EXCEPT ![hw] = arrived']
    /\ empty' = [empty EXCEPT ![hw] = FALSE]
    /\ error' = [error EXCEPT ![hw] = bad]
    /\ fetched' = None
    /\ hw' = IF wrap[hw] THEN 0 ELSE hw + 1
    /\ UNCHANGED <<wrap, buf, task, stack, late>>

Lose ==
    /\ fetched = None
    /\ ~empty[hw]
    /\ arrived < MaxFrames
    /\ arrived' = arrived + 1
    /\ UNCHANGED <<bds, task, stack, content, hw, fetched, frame, late>>
-----------------------------------------------------------------------------
Task == Wait \/ Input \/ (\E m \in Mbuf : Refill(m)) \/ StoreStatus \/ StoreBuffer

Next ==
    \/ Task
    \/ \E m \in Mbuf : StackFree(m)
    \/ Fetch
    \/ \E bad \in BOOLEAN : Receive(bad)
    \/ Lose

Spec == Init /\ [][Next]_vars
-----------------------------------------------------------------------------
(* The steps from BD a to BD b in the order of the ring. *)
Dist(a, b) == IF b >= a THEN b - a ELSE b - a + N

(* The type invariant.  The wrap bit is kept and the controller in the ring. *)
TypeOK ==
    /\ empty \in [Slot -> BOOLEAN]
    /\ error \in [Slot -> BOOLEAN]
    /\ wrap = [i \in Slot |-> i = N - 1]
    /\ buf \in [Slot -> Mbuf]
    /\ arg \in [Slot -> Mbuf]
    /\ current \in Slot
    /\ pc \in {"wait", "input", "refill", "status", "buffer"}
    /\ status \in [error : BOOLEAN, wrap : BOOLEAN]
    /\ new \in Mbuf \union {None}
    /\ stack \subseteq Mbuf
    /\ content \in [Mbuf -> 0..MaxFrames]
    /\ arrived \in 0..MaxFrames
    /\ hw \in Slot
    /\ fetched \in Mbuf \union {None}
    /\ frame \in [Slot -> 0..MaxFrames]
    /\ late \subseteq Slot

(* The BD the task has to look at next; the one before it is the last one. *)
Oldest == IF pc = "buffer" THEN Succ(current) ELSE current

(***************************************************************************)
(* The BDs the controller has closed are those from the oldest one up to   *)
(* the one the controller is at, in the order of their frames.  So frames  *)
(* reach the stack in the order of their arrival, and none twice.          *)
(***************************************************************************)
ClosedInOrder ==
    /\ \A i \in Slot :
          ~empty[i] <=>
              Dist(Oldest, i) < Dist(Oldest, hw) \/ (hw = Oldest /\ ~empty[hw])
    /\ \A i, j \in Slot :
          ~empty[j] /\ Dist(Oldest, i) < Dist(Oldest, j) => frame[i] < frame[j]

(***************************************************************************)
(* No mbuf of the driver is used twice or given away: every BD has its own *)
(* one, and the stack has others.                                          *)
(***************************************************************************)
MbufsOwnedOnce ==
    /\ \A i, j \in Holders : arg[i] = arg[j] => i = j
    /\ \A i \in Holders : arg[i] # new /\ arg[i] = buf[i]
    /\ stack \intersect Driver = {}

(***************************************************************************)
(* What the stack gets is the frame the controller has received, unless    *)
(* the controller fetched the BD between the two stores of                 *)
(* uec_if_bd_done_and_refill (quicc-uec-if.c:328-329): the BD is empty     *)
(* before it has its new buffer.                                           *)
(***************************************************************************)
InputIntact ==
    \A i \in Holders \ late : ~empty[i] => content[arg[i]] = frame[i]

(***************************************************************************)
(* The controller does not store to an mbuf the stack has, with the same   *)
(* exception.                                                              *)
(***************************************************************************)
StackDataKept ==
    [][\A m \in stack : content'[m] # content[m] => hw \in late]_vars
=============================================================================
