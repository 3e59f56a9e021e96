------------------------------ MODULE UecInit -------------------------------
(***************************************************************************)
(* How the Ethernet interface comes up: uec_if_interface_init of           *)
(* src/quicc/quicc-uec-if.c, with quicc_ucf_init, quicc_uec_init and the   *)
(* resources they take for good: memory of the MURAM and serial numbers    *)
(* (SNUMs) of threads (src/quicc/quicc.c), the heap of the BD rings        *)
(* (src/quicc/quicc-bd.c) and the mbufs the receive ring is filled with.   *)
(*                                                                         *)
(* The network stack calls the function when an address is set, which may  *)
(* happen again and again and from several tasks.  It returns early when   *)
(* the SPI bus or the PHY fails, and does not say so: the next call begins *)
(* from the start.  A failed assertion stops the program.                  *)
(*                                                                         *)
(* quicc_execute_command and the allocators take the mutex of the engine,  *)
(* and all their callers hold the lock of the driver: a step each.  The    *)
(* lock is held, too, while the fill of the receive ring waits for mbufs.  *)
(***************************************************************************)
EXTENDS Integers, Sequences, FiniteSets

CONSTANTS
    Caller,     \* the tasks that set addresses
    MuramSize,  \* muram_size
    Word,       \* the values of a size_t are 0..(Word - 1)
    SnumCount,  \* the bits of free_snum_bitfield
    Sdma,       \* what sdma_init allocates
    Request,    \* what an initialisation allocates, in order
    Bytes,      \* at most that much memory with its first i allocations
    Threads,    \* the SNUMs of its first i allocations
    Fifos,      \* the allocations of quicc_ucf_init: the first ones
    Configured, \* the values of rbuf_count and xbuf_count
    HeapSize,   \* the heap in bytes
    Mbufs,      \* the mbufs with a cluster
    Others      \* how many of them the rest of the stack may hold

(* size bytes at a multiple of align, for a thread with a SNUM of its own;  *)
(* checked: an assertion follows.                                          *)
Item == [size : 1..(Word - 1), align : 1..(Word - 1), snum : BOOLEAN, checked : BOOLEAN]

ASSUME EngineAssumption ==
    /\ "none" \notin Caller
    /\ Word \in Nat \ {0}
    /\ MuramSize \in 1..(Word - 1)
    /\ SnumCount \in Nat
    /\ Sdma \in Item /\ Request \in Seq(Item)
    /\ Word % Sdma.align = 0
    /\ \A i \in 1..Len(Request) : Word % Request[i].align = 0

(* The SNUMs of an initialisation. *)
InitThreads == Threads[Len(Request)]

ASSUME SumAssumption ==
    /\ Bytes \in [0..Len(Request) -> Nat] /\ Bytes[0] = 0
    /\ Threads \in [0..Len(Request) -> Nat] /\ Threads[0] = 0
    /\ \A i \in 1..Len(Request) :
           /\ Bytes[i] = Bytes[i - 1] + Request[i].size + Request[i].align - 1
           /\ Threads[i] = Threads[i - 1] + (IF Request[i].snum THEN 1 ELSE 0)
    /\ InitThreads > 0

(***************************************************************************)
(* The memory lasts longer than the SNUMs: it is enough for all that the   *)
(* initialisations allocate until one of them finds no SNUM.               *)
(***************************************************************************)
ASSUME RoomAssumption ==
    /\ Sdma.size <= MuramSize /\ MuramSize + Sdma.size + Sdma.align <= Word
    /\ \A i \in 1..Len(Request) : MuramSize + Request[i].size + Request[i].align <= Word
    /\ \A n \in 0..SnumCount, i \in 1..Len(Request) :
           n * InitThreads + Threads[i - 1] <= SnumCount
             => Sdma.size + n * Bytes[Len(Request)] + Bytes[i] <= MuramSize

ASSUME RingAssumption ==
    /\ Fifos \in 0..Len(Request)
    /\ Configured \subseteq Int
    /\ HeapSize \in Nat /\ Mbufs \in Nat
    /\ Others \subseteq 0..Mbufs

VARIABLES
    newStack,     \* NEW_NETWORK_STACK
    rxBdCount,    \* uec_config.rx_bd_count
    txBdCount,    \* uec_config.tx_bd_count
    lock,         \* who holds the mutex (newStack) or the network semaphore
    pc,           \* where a caller is
    step,         \* the next allocation of the initialisation
    ready,        \* mutex_id: quicc_init has set the engine up
    muramOffset,  \* muram_offset: the end of the allocated memory
    regions,      \* what has been allocated
    freeSnum,     \* free_snum_bitfield: the set bits
    rings,        \* how far init_bd is
    filled,       \* the BDs it has filled
    heap,         \* the bytes left in the heap
    inRings,      \* the mbufs receive rings have got
    others,       \* the mbufs the rest of the stack holds
    tasks,        \* rx_task_id and tx_task_id: the tasks exist
    running,      \* IFF_DRV_RUNNING (newStack) or IFF_RUNNING
    aborted       \* an assertion has failed

engine == <<ready, muramOffset, regions, freeSnum>>
counts == <<newStack, rxBdCount, txBdCount>>
bds    == <<rings, filled, heap, inRings, others>>
vars   == <<counts, lock, pc, step, engine, bds, tasks, running, aborted>>

(* uec_if_attach: only the old stack has a configuration. *)
BdCount(n) == IF ~newStack /\ n > 32 THEN n ELSE 32

Init ==
    /\ newStack \in BOOLEAN
    /\ \E n \in Configured : rxBdCount = BdCount(n)
    /\ \E n \in Configured : txBdCount = BdCount(n)
    /\ lock = "none"
    /\ pc = [c \in Caller |-> "idle"]
    /\ step = 1
    /\ ready = FALSE
    /\ muramOffset = 0
    /\ regions = {}
    /\ freeSnum = 0..(SnumCount - 1)
    /\ rings = "none"
    /\ filled = 0
    /\ heap = HeapSize
    /\ inRings = 0
    /\ others \in Others
    /\ tasks = FALSE
    /\ running = FALSE
    /\ aborted = FALSE
-----------------------------------------------------------------------------
(* MUTANT: nothing is aligned. *)
Unaligned(align) == muramOffset

(* align + ((muram_offset - 1) & ~(align - 1)), for an align of 2^k *)
AlignedFree(align) ==
    LET below == (muramOffset - 1) % Word
    IN  (align + (below - (below % align))) % Word

(* The test of quicc_muram_allocate_offset; the difference is unsigned. *)
Fits(r) == r.size <= (AlignedFree(r.align) - MuramSize) % Word

(* Without room for r the result is -1. *)
Allocate(r) ==
    IF Fits(r)
    THEN LET offset == AlignedFree(r.align)
         IN  /\ muramOffset' = (offset + r.size) % Word
             /\ regions' = regions \union
                   {[offset |-> offset, size |-> r.size, align |-> r.align]}
    ELSE UNCHANGED <<muramOffset, regions>>

(* __builtin_ffs *)
LowestSnum == CHOOSE i \in freeSnum : \A j \in freeSnum : i <= j

AllocateSnum == freeSnum' = freeSnum \ {LowestSnum}
-----------------------------------------------------------------------------
(* The caller is at a place of the function and the program still runs. *)
At(c, place) == pc[c] = place /\ ~aborted

Goto(c, place) == pc' = [pc EXCEPT ![c] = place]

Call(c) ==
    /\ At(c, "idle")
    /\ Goto(c, "enter")
    /\ UNCHANGED <<counts, lock, step, engine, bds, tasks, running, aborted>>

(* uec_if_lock, or the network semaphore the stack takes before the call *)
Lock(c) ==
    /\ At(c, "enter")
    /\ lock = "none"
    /\ lock' = c
    /\ Goto(c, "test")
    /\ UNCHANGED <<counts, step, engine, bds, tasks, running, aborted>>

(* Every return gives the lock back. *)
Return(c) ==
    /\ lock' = "none"
    /\ Goto(c, "idle")

(* MUTANT: a running interface is initialised once more. *)
TestNothing(c) ==
    /\ At(c, "test")
    /\ Goto(c, "spi")
    /\ UNCHANGED <<counts, lock, step, engine, bds, tasks, running, aborted>>

(* Only the driver of the new stack looks at RUNNING. *)
TestRunning(c) ==
    /\ At(c, "test")
    /\ IF newStack /\ running THEN Return(c)
       ELSE Goto(c, "spi") /\ UNCHANGED lock
    /\ UNCHANGED <<counts, step, engine, bds, tasks, running, aborted>>

(* init_spi *)
SpiFails(c) ==
    /\ At(c, "spi")
    /\ Return(c)
    /\ UNCHANGED <<counts, step, engine, bds, tasks, running, aborted>>

(* quicc_init: with the first call the engine is reset and set up. *)
QuiccInit(c) ==
    /\ At(c, "spi")
    /\ IF ready THEN UNCHANGED <<engine, aborted>>
       ELSE /\ ready' = TRUE
            /\ Allocate(Sdma)
            /\ aborted' = ~Fits(Sdma)
            /\ UNCHANGED freeSnum
    /\ step' = 1
    /\ rings' = "none"
    /\ Goto(c, "setup")
    /\ UNCHANGED <<counts, lock, filled, heap, inRings, others, tasks, running>>
-----------------------------------------------------------------------------
(* quicc_is_power_of_two: without an odd divisor but 1 *)
PowerOfTwo(n) == \A d \in 2..n : n % d = 0 => d % 2 = 0

(* A quicc_bd and a pointer per BD. *)
RingBytes(n) == 12 * n

(* The heap of a ring and the assertions behind it; none is ever freed. *)
MakeRing(n) ==
    /\ heap' = IF RingBytes(n) <= heap THEN heap - RingBytes(n) ELSE heap
    /\ aborted' = (RingBytes(n) > heap \/ ~PowerOfTwo(n))

(***************************************************************************)
(* init_bd, up to the loop of quicc_bd_rx_init.  (The last assertion of    *)
(* init_bd compares constants: 1536 is three times URFS.)                  *)
(***************************************************************************)
RxRing(c) ==
    /\ At(c, "setup")
    /\ step = Fifos + 1 /\ rings = "none"
    /\ IF rxBdCount >= 8 /\ rxBdCount % 4 = 0 /\ txBdCount >= 2 /\ txBdCount % 4 = 0
       THEN MakeRing(rxBdCount)
       ELSE aborted' = TRUE /\ UNCHANGED heap
    /\ rings' = "filling"
    /\ UNCHANGED <<counts, lock, pc, step, engine, filled, inRings, others, tasks, running>>

Filling(c) == At(c, "setup") /\ rings = "filling" /\ filled < rxBdCount

(* uec_if_bd_rx_fill waits for an mbuf with its cluster: M_WAITOK. *)
FillBd(c) ==
    /\ Filling(c)
    /\ inRings + others < Mbufs
    /\ inRings' = inRings + 1
    /\ filled' = filled + 1
    /\ UNCHANGED <<counts, lock, pc, step, engine, rings, heap, others, tasks, running,
                   aborted>>

(* The ring is full: quicc_bd_tx_init, with frame_fragments_max = -1. *)
TxRing(c) ==
    /\ At(c, "setup")
    /\ rings = "filling" /\ filled = rxBdCount
    /\ MakeRing(txBdCount)
    /\ rings' = "made"
    /\ filled' = 0
    /\ UNCHANGED <<counts, lock, pc, step, engine, inRings, others, tasks, running>>

(* The rest of the stack takes and returns mbufs. *)
StackMbufs ==
    /\ ~aborted
    /\ others' \in Others \ {others}
    /\ inRings + others' <= Mbufs
    /\ UNCHANGED <<counts, lock, pc, step, engine, rings, filled, heap, inRings, tasks,
                   running, aborted>>
-----------------------------------------------------------------------------

(* The allocations in quicc_ucf_init, and in quicc_uec_init behind init_bd. *)
Setup(c) ==
    /\ At(c, "setup")
    /\ step <= Len(Request)
    /\ step <= Fifos \/ rings = "made"
    /\ LET r == Request[step]
       IN  /\ Allocate(r)
           /\ IF r.snum /\ freeSnum # {} THEN AllocateSnum ELSE UNCHANGED freeSnum
           /\ aborted' = ((r.checked /\ ~Fits(r)) \/ (r.snum /\ freeSnum = {}))
    /\ step' = step + 1
    /\ UNCHANGED <<counts, lock, pc, ready, bds, tasks, running>>

(* quicc_uec_init has returned. *)
IsSetUp(c) == At(c, "setup") /\ step > Len(Request) /\ rings = "made"

(* MUTANT: the early return keeps the lock. *)
PhyFailsLocked(c) ==
    /\ IsSetUp(c)
    /\ Goto(c, "idle")
    /\ UNCHANGED <<counts, lock, step, engine, bds, tasks, running, aborted>>

(* uec_if_phy_init *)
PhyFails(c) ==
    /\ IsSetUp(c)
    /\ Return(c)
    /\ UNCHANGED <<counts, step, engine, bds, tasks, running, aborted>>

(* The controller is started, the tasks are created, once. *)
Start(c) ==
    /\ IsSetUp(c)
    /\ IF tasks THEN aborted' = TRUE /\ UNCHANGED <<lock, pc, tasks, running>>
       ELSE /\ tasks' = TRUE
            /\ running' = TRUE
            /\ Return(c)
            /\ UNCHANGED aborted
    /\ UNCHANGED <<counts, step, engine, bds>>
-----------------------------------------------------------------------------
Body(c) == TestRunning(c) \/ SpiFails(c) \/ QuiccInit(c) \/ RxRing(c) \/ FillBd(c)
           \/ TxRing(c) \/ Setup(c) \/ PhyFails(c) \/ Start(c)

Next ==
    \/ \E c \in Caller : Call(c) \/ Lock(c) \/ Body(c)
    \/ StackMbufs

Spec == Init /\ [][Next]_vars

(***************************************************************************)
(* A task that is ready runs, a lock that is released is handed over to a  *)
(* task that waits for it, and so is an mbuf.  Nothing makes the stack     *)
(* call, nor give an mbuf back.                                            *)
(***************************************************************************)
FairSpec ==
    /\ Spec
    /\ \A c \in Caller : WF_vars(Body(c)) /\ SF_vars(FillBd(c)) /\ SF_vars(Lock(c))
-----------------------------------------------------------------------------
Apart(a, b) == a.offset + a.size <= b.offset \/ b.offset + b.size <= a.offset

(***************************************************************************)
(* What the controller reads and writes in the MURAM is inside of it,      *)
(* where it has to be aligned, and nothing else is there.  The test of the *)
(* allocator does not see to that, it is the wrong way round: what does is *)
(* that the SNUMs run out before the memory, when a failing PHY makes the  *)
(* stack initialise the interface again.                                   *)
(***************************************************************************)
RegionsRight ==
    /\ \A r \in regions : r.offset + r.size <= MuramSize /\ r.offset % r.align = 0
    /\ \A a, b \in regions : a = b \/ Apart(a, b)

(***************************************************************************)
(* What makes an assertion of the initialisation fail: there is no SNUM    *)
(* left after initialisations that a PHY has made fail; the address of a   *)
(* running interface is set with the old stack; the old stack is           *)
(* configured with a number of BDs above 32 that is not a power of two     *)
(* (one up to 32 is ignored); or the heap, of which each initialisation    *)
(* takes two rings, is too small for another ring.  None fails for want of *)
(* memory of the MURAM, with the new stack on account of the BD counts, or *)
(* because a second task initialises at the same time.                     *)
(***************************************************************************)
AssertsHold ==
    aborted =>
        \/ freeSnum = {}
        \/ running /\ ~newStack
        \/ ~newStack /\ \E n \in {rxBdCount, txBdCount} : ~PowerOfTwo(n)
        \/ \E n \in {rxBdCount, txBdCount} : heap < RingBytes(n)

(* A task fills its ring, with the lock, and there is no mbuf. *)
Starved == (\E c \in Caller : Filling(c)) /\ inRings + others = Mbufs

(***************************************************************************)
(* Whoever sets an address gets an answer, or the program has been aborted *)
(* by an assertion, or a task waits for an mbuf, and keeps the lock, for   *)
(* ever: the mbufs of an initialisation that the PHY made fail are lost.   *)
(* Each of the returns has released the lock, and as long as mbufs come    *)
(* back to the pool again and again the wait ends.                         *)
(***************************************************************************)
InitReturns ==
    \A c \in Caller : pc[c] = "enter" ~> (pc[c] = "idle" \/ aborted \/ []Starved)
=============================================================================
