--------------------------- MODULE UecInitProofs ----------------------------
(***************************************************************************)
(* Whatever the sizes, as long as the SNUMs run out before the memory      *)
(* (RoomAssumption): what the initialisations allocate in the MURAM is     *)
(* inside of it, aligned and apart, and which assertions can fail.         *)
(***************************************************************************)
EXTENDS UecInit, TLAPS

-----------------------------------------------------------------------------
(* The lock excludes: its holder is the caller inside the function. *)
Inside == {"test", "spi", "setup"}

LockHeld == \A c \in Caller : pc[c] \in Inside <=> lock = c

(* What has been allocated lies before muram_offset. *)
Region == [offset : Nat, size : Nat, align : Nat \ {0}]

Below ==
    /\ \A r \in regions : r.offset + r.size <= muramOffset /\ r.offset % r.align = 0
    /\ \A a, b \in regions : a = b \/ Apart(a, b)

(* The allocations of the initialisation that is at work. *)
InSetup == \E c \in Caller : pc[c] = "setup"

Done == IF InSetup THEN step - 1 ELSE 0

(* What n initialisations and the begun one have used up. *)
Used(n) ==
    /\ freeSnum = (n * InitThreads + Threads[Done])..(SnumCount - 1)
    /\ muramOffset <= Sdma.size + n * Bytes[Len(Request)] + Bytes[Done]
    /\ ~aborted => n * InitThreads + Threads[Done] <= SnumCount

(* RUNNING says that the tasks exist. *)
Flags ==
    /\ tasks = running
    /\ newStack => \A c \in Caller : pc[c] \in {"spi", "setup"} => ~running
    /\ ~ready => muramOffset = 0 /\ ~InSetup

Types ==
    /\ newStack \in BOOLEAN /\ ready \in BOOLEAN /\ tasks \in BOOLEAN
    /\ running \in BOOLEAN /\ aborted \in BOOLEAN
    /\ lock \in Caller \union {"none"}
    /\ pc \in [Caller -> {"idle", "enter"} \union Inside]
    /\ step \in 1..(Len(Request) + 1)
    /\ muramOffset \in 0..MuramSize
    /\ regions \subseteq Region
    /\ heap \in Nat

(* Whatever is configured: enough BDs, and 32 with the new stack. *)
Counts ==
    /\ rxBdCount \in Nat /\ rxBdCount >= 32 /\ (newStack => rxBdCount = 32)
    /\ txBdCount \in Nat /\ txBdCount >= 32 /\ (newStack => txBdCount = 32)

UecInv ==
    /\ Counts
    /\ Types
    /\ LockHeld
    /\ Below
    /\ \E n \in Nat : Used(n)
    /\ Flags
    /\ AssertsHold

-----------------------------------------------------------------------------
(* Division with remainder. *)
LEMMA Division ==
    ASSUME NEW x \in Int, NEW a \in Nat \ {0}
    PROVE  /\ x % a \in 0..(a - 1)
           /\ \E q \in Int : x = a * q + (x % a)
<1>1. x % a \in 0..(a - 1)
  OBVIOUS
<1>2. x = ((x \div a) * a) + (x % a)
  OBVIOUS
<1>3. x \div a \in Int
  OBVIOUS
<1> DEFINE d == x \div a
<1>4. d \in Int /\ x = (d * a) + (x % a)
  BY <1>2, <1>3
<1> HIDE DEF d
<1>5. x = (a * d) + (x % a)
  BY <1>1, <1>4
<1> QED
  BY <1>1, <1>4, <1>5

LEMMA Remainder ==
    ASSUME NEW a \in Nat \ {0}, NEW q \in Int, NEW r \in 0..(a - 1)
    PROVE  ((a * q) + r) % a = r
  OBVIOUS

LEMMA Wraps ==
    ASSUME NEW w \in Nat \ {0}, NEW x \in Int, x < 0, x + w \in Nat
    PROVE  x % w = x + w
  OBVIOUS

(***************************************************************************)
(* AlignedFree is the smallest multiple of align that is not below         *)
(* muram_offset, also for an offset of 0, where muram_offset - 1 wraps.    *)
(***************************************************************************)
LEMMA AlignedFreeRight ==
    ASSUME muramOffset \in Nat, NEW a \in Nat \ {0}, Word \in Nat \ {0},
           Word % a = 0, muramOffset + a <= Word
    PROVE  /\ AlignedFree(a) \in Nat
           /\ muramOffset <= AlignedFree(a)
           /\ AlignedFree(a) <= muramOffset + a - 1
           /\ AlignedFree(a) % a = 0
<1> DEFINE o == muramOffset
           below == (o - 1) % Word
<1>1. CASE o = 0
  <2>1. below = Word - 1
    BY <1>1
  <2>a. \E k \in Int : Word = (a * k) + (Word % a)
    <3>1. Word \in Int
      OBVIOUS
    <3> QED
      BY <3>1, Division, Zenon
  <2>2. PICK k \in Int : Word = (a * k)
    BY <2>a
  <2>3. Word - 1 = (a * (k - 1)) + (a - 1)
    BY <2>2
  <2>4. (Word - 1) % a = a - 1
    BY <2>3, Remainder
  <2>5. a + (below - (below % a)) = Word
    BY <2>1, <2>4
  <2>6. AlignedFree(a) = 0
    BY <2>5 DEF AlignedFree
  <2>7. 0 % a = 0
    OBVIOUS
  <2> QED
    BY <1>1, <2>6, <2>7
<1>2. CASE o > 0
  <2>1. below = o - 1 /\ below \in Nat
    BY <1>2
  <2> HIDE DEF below
  <2>a. below \in Int
    BY <2>1
  <2>2. PICK q \in Int : below = (a * q) + (below % a)
    BY <2>a, Division, Zenon
  <2>3. below % a \in 0..(a - 1)
    BY <2>1, Division
  <2> DEFINE f == a + (below - (below % a))
  <2>4. f \in Nat /\ o <= f /\ f <= o + a - 1
    BY <2>1, <2>3
  <2>5. f = (a * (q + 1)) + 0
    BY <2>2, <2>3
  <2>6. f % a = 0
    <3>1. ((a * (q + 1)) + 0) % a = 0
      BY Remainder
    <3> HIDE DEF f
    <3> QED
      BY <2>5, <3>1
  <2>7. f % Word = f
    <3> HIDE DEF f
    <3> QED
      BY <2>4
  <2>8. AlignedFree(a) = f
    BY <2>7 DEF AlignedFree, below
  <2> HIDE DEF f
  <2> QED
    BY <2>4, <2>6, <2>8
<1> QED
  BY <1>1, <1>2

(***************************************************************************)
(* Where there is room, an allocation succeeds and leaves the regions      *)
(* aligned and apart.                                                      *)
(***************************************************************************)
LEMMA AllocateRight ==
    ASSUME NEW r \in Item, Word % r.align = 0, MuramSize + r.size + r.align <= Word,
           muramOffset \in 0..MuramSize, regions \subseteq Region, Below,
           AlignedFree(r.align) + r.size <= MuramSize,
           Allocate(r)
    PROVE  /\ Fits(r)
           /\ muramOffset' = AlignedFree(r.align) + r.size
           /\ regions' \subseteq Region
           /\ Below'
<1> DEFINE a == r.align
           f == AlignedFree(a)
           new == [offset |-> f, size |-> r.size, align |-> a]
<1>1. a \in Nat \ {0} /\ r.size \in Nat \ {0} /\ Word \in Nat \ {0} /\ MuramSize \in Nat
  BY EngineAssumption DEF Item
<1>2. f \in Nat /\ muramOffset <= f /\ f % a = 0
  BY <1>1, AlignedFreeRight
<1> HIDE DEF f
<1>3. (f - MuramSize) % Word = Word + f - MuramSize
  <2>1. f + r.size <= MuramSize
    BY DEF f
  <2> DEFINE x == f - MuramSize
  <2>2. x \in Int /\ x < 0
    BY <1>1, <1>2, <2>1
  <2>3. Word - MuramSize \in Nat
    BY EngineAssumption
  <2>4. x + Word \in Nat /\ x + Word = Word + f - MuramSize
    BY <1>1, <1>2, <2>3
  <2> HIDE DEF x
  <2>5. x % Word = x + Word
    BY <1>1, <2>2, <2>4, Wraps
  <2> QED
    BY <2>4, <2>5 DEF x
<1>4. Fits(r)
  BY <1>1, <1>2, <1>3 DEF Fits, f
<1>5. (f + r.size) % Word = f + r.size
  BY <1>1, <1>2 DEF f
<1>6. muramOffset' = f + r.size /\ regions' = regions \union {new}
  BY <1>4, <1>5 DEF Allocate, f
<1>7. new \in Region
  BY <1>1, <1>2 DEF Region
<1>8. \A x \in regions' : x.offset + x.size <= muramOffset' /\ x.offset % x.align = 0
  <2>1. \A x \in regions : x.offset + x.size <= muramOffset' /\ x.offset % x.align = 0
    BY <1>1, <1>2, <1>6 DEF Below, Region
  <2>2. new.offset + new.size <= muramOffset' /\ new.offset % new.align = 0
    BY <1>1, <1>2, <1>6
  <2> QED
    BY <1>6, <2>1, <2>2
<1>9. \A x \in regions : Apart(x, new) /\ Apart(new, x)
  BY <1>1, <1>2 DEF Below, Region, Apart
<1>10. \A x, y \in regions' : x = y \/ Apart(x, y)
  BY <1>6, <1>9 DEF Below
<1> QED
  BY <1>4, <1>6, <1>7, <1>8, <1>10 DEF Below, f

-----------------------------------------------------------------------------
(* The facts about the constants in the form the steps need. *)
LEMMA Constants ==
    /\ Len(Request) \in Nat
    /\ InitThreads \in Nat \ {0}
    /\ \A i \in 0..Len(Request) : Bytes[i] \in Nat /\ Threads[i] \in Nat
    /\ \A i \in 1..Len(Request) : Request[i] \in Item
    /\ Sdma \in Item
    /\ SnumCount \in Nat /\ MuramSize \in Nat /\ Word \in Nat \ {0}
<1>1. Len(Request) \in Nat /\ \A i \in 1..Len(Request) : Request[i] \in Item
  BY EngineAssumption
<1>2. InitThreads \in Nat \ {0}
  BY <1>1, SumAssumption DEF InitThreads
<1>3. \A i \in 0..Len(Request) : Bytes[i] \in Nat /\ Threads[i] \in Nat
  BY <1>1, SumAssumption
<1>4. Sdma \in Item /\ SnumCount \in Nat /\ MuramSize \in Nat /\ Word \in Nat \ {0}
  BY EngineAssumption
<1> QED
  BY <1>1, <1>2, <1>3, <1>4

(* There is room for the next allocation. *)
LEMMA Room ==
    ASSUME NEW n \in Nat, Used(n), ~aborted, InSetup, step \in 1..Len(Request),
           muramOffset \in 0..MuramSize
    PROVE  LET r == Request[step]
           IN  /\ AlignedFree(r.align) + r.size <= MuramSize
               /\ AlignedFree(r.align) + r.size
                    <= Sdma.size + n * Bytes[Len(Request)] + Bytes[step]
<1> DEFINE r == Request[step]
           nB == n * Bytes[Len(Request)]
           nT == n * InitThreads
<1>1. r \in Item /\ r.align \in Nat \ {0} /\ r.size \in Nat /\ Sdma.size \in Nat
  BY Constants DEF Item
<1>2. /\ nB \in Nat /\ nT \in Nat /\ n <= nT
      /\ Bytes[step - 1] \in Nat /\ Threads[step - 1] \in Nat /\ Bytes[step] \in Nat
  BY Constants
<1>3. Bytes[step] = Bytes[step - 1] + r.size + r.align - 1
  BY SumAssumption
<1>4. AlignedFree(r.align) \in Nat /\ AlignedFree(r.align) <= muramOffset + r.align - 1
  <2>1. Word % r.align = 0
    BY EngineAssumption
  <2>2. MuramSize + r.size + r.align <= Word
    BY RoomAssumption
  <2>3. muramOffset + r.align <= Word
    BY <1>1, <2>2, Constants
  <2> QED
    BY <1>1, <2>1, <2>3, Constants, AlignedFreeRight
<1>5. /\ muramOffset <= Sdma.size + nB + Bytes[step - 1]
      /\ nT + Threads[step - 1] <= SnumCount
  BY DEF Used, Done
<1> HIDE DEF nB, nT
<1>6. Sdma.size + nB + Bytes[step] <= MuramSize
  <2>1. n \in 0..SnumCount
    BY <1>2, <1>5, Constants
  <2> QED
    BY <2>1, <1>5, RoomAssumption DEF nB, nT
<1> HIDE DEF r
<1>7. PICK f \in Nat, size \in Nat, align \in Nat, offset \in Nat, base \in Nat,
           before \in Nat, after \in Nat, all \in Nat :
        /\ f = AlignedFree(r.align) /\ size = r.size /\ align = r.align
        /\ offset = muramOffset /\ base = Sdma.size
        /\ before = Bytes[step - 1] /\ after = Bytes[step] /\ all = nB
  <2>1. muramOffset \in Nat
    BY Constants
  <2> QED
    BY <1>1, <1>2, <1>4, <2>1
<1>8. /\ f <= offset + align - 1 /\ offset <= base + all + before
      /\ after = before + size + align - 1 /\ base + all + after <= MuramSize
  BY <1>3, <1>4, <1>5, <1>6, <1>7
<1>9. f + size <= base + all + after
  BY <1>8
<1>10. f + size <= MuramSize
  BY <1>8, <1>9, Constants
<1> QED
  BY <1>7, <1>9, <1>10 DEF r, nB

(* 32 = 2^5: what divides it is 1 or even. *)
LEMMA DefaultCount == PowerOfTwo(32)
<1>1. \A d \in 2..32 : 32 % d = 0 => d % 2 = 0
  <2> SUFFICES ASSUME NEW d \in 2..32, d % 2 # 0 PROVE 32 % d # 0
    OBVIOUS
  <2>1. d \in {3, 5, 7, 9, 11, 13, 15, 17, 19, 21, 23, 25, 27, 29, 31}
    OBVIOUS
  <2> QED
    BY <2>1
<1> QED
  BY <1>1 DEF PowerOfTwo

(* The assertions of init_bd ask no more than those of the rings. *)
LEMMA MultipleOfFour ==
    ASSUME NEW n \in Nat, n >= 32, PowerOfTwo(n)
    PROVE  n % 4 = 0
<1>1. \A d \in 2..n : n % d = 0 => d % 2 = 0
  BY DEF PowerOfTwo
<1>2. n % n = 0
  OBVIOUS
<1>3. n % 2 = 0
  BY <1>1, <1>2
<1>4. PICK m \in Nat : n = 2 * m
  BY <1>3
<1>5. m \in 2..n /\ m \in Nat \ {0}
  BY <1>4
<1>6. n = (m * 2) + 0
  BY <1>4
<1>7. n % m = 0
  BY <1>5, <1>6, Remainder
<1>8. m % 2 = 0
  BY <1>1, <1>5, <1>7
<1> QED
  BY <1>4, <1>8

LEMMA InitInv == Init => UecInv
<1> SUFFICES ASSUME Init PROVE UecInv
  OBVIOUS
<1> USE DEF Init
<1>1. Types
  <2>1. 1 \in 1..(Len(Request) + 1) /\ 0 \in 0..MuramSize /\ heap \in Nat
    BY Constants, RingAssumption
  <2>2. pc \in [Caller -> {"idle", "enter"} \union Inside]
    OBVIOUS
  <2> QED
    BY <2>1, <2>2 DEF Types
<1>2. LockHeld
  BY EngineAssumption DEF LockHeld, Inside
<1>3. Below
  BY DEF Below
<1>4. ~InSetup /\ Done = 0
  BY DEF InSetup, Done
<1>5. Used(0)
  <2>1. 0 * InitThreads = 0 /\ 0 * Bytes[Len(Request)] = 0
    BY Constants
  <2>2. Sdma.size \in Nat
    BY Constants DEF Item
  <2> QED
    BY <1>4, <2>1, <2>2, SumAssumption, Constants DEF Used
<1>6. Flags /\ AssertsHold
  BY <1>4 DEF Flags, AssertsHold
<1>7. Counts
  <2>1. \A n \in Configured : BdCount(n) \in Nat /\ BdCount(n) >= 32
                             /\ (newStack => BdCount(n) = 32)
    <3> SUFFICES ASSUME NEW n \in Configured
                 PROVE  BdCount(n) \in Nat /\ BdCount(n) >= 32 /\ (newStack => BdCount(n) = 32)
      OBVIOUS
    <3>1. n \in Int
      BY RingAssumption
    <3>2. CASE ~newStack /\ n > 32
      BY <3>1, <3>2 DEF BdCount
    <3>3. CASE newStack \/ ~(n > 32)
      BY <3>3 DEF BdCount
    <3> QED
      BY <3>2, <3>3
  <2> QED
    BY <2>1 DEF Counts
<1> QED
  BY <1>1, <1>2, <1>3, <1>5, <1>6, <1>7 DEF UecInv

(* Nobody else is inside the function. *)
LEMMA Alone ==
    ASSUME LockHeld, NEW c \in Caller, lock \in {"none", c}, NEW d \in Caller, d # c
    PROVE  pc[d] \notin Inside
  BY EngineAssumption DEF LockHeld

(* A step that leaves the engine alone, and in which nobody sets it up. *)
LEMMA Quiet ==
    ASSUME UecInv, UNCHANGED <<engine, tasks, running, step, counts>>, ~aborted,
           Types', LockHeld', InSetup' = InSetup, AssertsHold',
           newStack => \A c \in Caller : pc'[c] \in {"spi", "setup"} => ~running
    PROVE  UecInv'
<1> USE DEF counts
<1>0. Counts'
  BY DEF UecInv, Counts
<1>1. Below'
  BY DEF UecInv, Below, engine
<1>2. \E n \in Nat : Used(n)'
  BY DEF UecInv, Used, Done, engine
<1>3. Flags'
  BY DEF UecInv, Flags, engine
<1> QED
  BY <1>0, <1>1, <1>2, <1>3 DEF UecInv

LEMMA CallStep ==
    ASSUME UecInv, NEW c \in Caller, Call(c) \/ Lock(c) \/ TestRunning(c) \/ SpiFails(c)
    PROVE  UecInv'
<1> USE DEF UecInv, Types, At, Goto, counts, bds
<1>0. ~aborted /\ AssertsHold' /\ UNCHANGED <<counts, step, engine, tasks, running>>
  BY DEF Call, Lock, TestRunning, SpiFails, AssertsHold, engine
<1>1. CASE Call(c)
  <2> USE <1>1 DEF Call
  <2>1. Types'
    BY DEF engine
  <2>2. LockHeld'
    BY DEF LockHeld, Inside
  <2>3. InSetup' = InSetup
    BY DEF InSetup
  <2>4. newStack => \A d \in Caller : pc'[d] \in {"spi", "setup"} => ~running
    BY DEF Flags
  <2> QED
    BY <1>0, <2>1, <2>2, <2>3, <2>4, Quiet
<1>2. CASE Lock(c)
  <2> USE <1>2 DEF Lock
  <2>1. Types'
    BY DEF engine, Inside
  <2>2. LockHeld'
    BY Alone, EngineAssumption DEF LockHeld, Inside
  <2>3. InSetup' = InSetup
    BY DEF InSetup
  <2>4. newStack => \A d \in Caller : pc'[d] \in {"spi", "setup"} => ~running
    BY DEF Flags
  <2> QED
    BY <1>0, <2>1, <2>2, <2>3, <2>4, Quiet
<1>3. CASE TestRunning(c)
  <2> USE <1>3 DEF TestRunning, Return
  <2>1. Types'
    BY DEF engine, Inside
  <2>2. LockHeld'
    BY Alone, EngineAssumption DEF LockHeld, Inside
  <2>3. InSetup' = InSetup
    BY DEF InSetup
  <2>4. newStack => \A d \in Caller : pc'[d] \in {"spi", "setup"} => ~running
    BY DEF Flags
  <2> QED
    BY <1>0, <2>1, <2>2, <2>3, <2>4, Quiet
<1>4. CASE SpiFails(c)
  <2> USE <1>4 DEF SpiFails, Return
  <2>1. Types'
    BY DEF engine, Inside
  <2>2. LockHeld'
    BY Alone, EngineAssumption DEF LockHeld, Inside
  <2>3. InSetup' = InSetup
    BY DEF InSetup
  <2>4. newStack => \A d \in Caller : pc'[d] \in {"spi", "setup"} => ~running
    BY DEF Flags
  <2> QED
    BY <1>0, <2>1, <2>2, <2>3, <2>4, Quiet
<1> QED
  BY <1>1, <1>2, <1>3, <1>4

(***************************************************************************)
(* A ring: its heap and the assertions on its size.  Those in init_bd do   *)
(* not fail before them.                                                   *)
(***************************************************************************)
LEMMA RingAsserts ==
    ASSUME Counts, AssertsHold, ~aborted, heap \in Nat, NEW n \in {rxBdCount, txBdCount},
           UNCHANGED <<counts, freeSnum, running>>,
           \/ MakeRing(n)
           \/ /\ ~(rxBdCount >= 8 /\ rxBdCount % 4 = 0 /\ txBdCount >= 2 /\ txBdCount % 4 = 0)
              /\ aborted' = TRUE /\ UNCHANGED heap
    PROVE  AssertsHold'
<1> SUFFICES ASSUME aborted' PROVE AssertsHold'
  BY DEF AssertsHold
<1> USE DEF counts
<1>1. \A k \in {rxBdCount, txBdCount} : ~PowerOfTwo(k) => ~newStack
  BY DefaultCount DEF Counts
<1>2. CASE MakeRing(n)
  <2>1. CASE ~PowerOfTwo(n)
    BY <1>1, <2>1 DEF AssertsHold
  <2>2. CASE RingBytes(n) > heap /\ PowerOfTwo(n)
    <3>1. heap' = heap
      <4>1. n \in Nat /\ RingBytes(n) \in Nat
        BY DEF Counts, RingBytes
      <4>2. ~(RingBytes(n) <= heap)
        BY <2>2, <4>1
      <4> QED
        BY <1>2, <4>2 DEF MakeRing
    <3> QED
      BY <2>2, <3>1 DEF AssertsHold, RingBytes, Counts
  <2> QED
    BY <1>2, <2>1, <2>2 DEF MakeRing
<1>3. CASE ~(rxBdCount >= 8 /\ rxBdCount % 4 = 0 /\ txBdCount >= 2 /\ txBdCount % 4 = 0)
  <2>1. PICK k \in {rxBdCount, txBdCount} : k % 4 # 0
    BY <1>3 DEF Counts
  <2>2. k \in Nat /\ k >= 32
    BY DEF Counts
  <2>3. ~PowerOfTwo(k)
    BY <2>1, <2>2, MultipleOfFour
  <2> QED
    BY <1>1, <2>3 DEF AssertsHold
<1> QED
  BY <1>2, <1>3

(* The steps of init_bd, and those of the rest of the stack. *)
LEMMA BdStep ==
    ASSUME UecInv,
           StackMbufs \/ \E c \in Caller : RxRing(c) \/ FillBd(c) \/ TxRing(c)
    PROVE  UecInv'
<1> USE DEF UecInv
<1>1. ~aborted /\ UNCHANGED <<counts, lock, pc, step, engine, tasks, running>>
  BY DEF RxRing, FillBd, TxRing, StackMbufs, Filling, At
<1>2. AssertsHold'
  <2>1. CASE StackMbufs \/ \E c \in Caller : FillBd(c)
    BY <2>1, <1>1 DEF StackMbufs, FillBd, AssertsHold
  <2>2. CASE \E c \in Caller : RxRing(c) \/ TxRing(c)
    <3>1. UNCHANGED <<counts, freeSnum, running>>
      BY <1>1 DEF engine
    <3> QED
      BY <1>1, <2>2, <3>1, RingAsserts DEF RxRing, TxRing, Types
  <2> QED
    BY <2>1, <2>2
<1>3. Types'
  <2>1. CASE StackMbufs \/ \E c \in Caller : FillBd(c)
    <3>1. UNCHANGED <<aborted, heap>>
      BY <2>1 DEF StackMbufs, FillBd
    <3> QED
      BY <1>1, <3>1 DEF Types, engine, counts
  <2>2. CASE \E c \in Caller : RxRing(c) \/ TxRing(c)
    <3>1. (heap' = heap /\ aborted' = TRUE) \/ \E n \in {rxBdCount, txBdCount} : MakeRing(n)
      BY <2>2 DEF RxRing, TxRing
    <3>2. aborted' \in BOOLEAN
      BY <3>1, Zenon DEF MakeRing
    <3>3. heap' \in Nat
      <4>1. \A n \in {rxBdCount, txBdCount} : RingBytes(n) \in Nat
        BY DEF Counts, RingBytes
      <4> QED
        BY <3>1, <4>1 DEF MakeRing, Types
    <3> QED
      BY <1>1, <3>2, <3>3 DEF Types, engine, counts
  <2> QED
    BY <2>1, <2>2
<1>4. LockHeld' /\ InSetup' = InSetup
  BY <1>1 DEF LockHeld, InSetup
<1>5. newStack => \A c \in Caller : pc'[c] \in {"spi", "setup"} => ~running
  BY <1>1 DEF Flags
<1> QED
  BY <1>1, <1>2, <1>3, <1>4, <1>5, Quiet

(* sdma_init allocates at the very beginning of the memory. *)
LEMMA QuiccInitStep ==
    ASSUME UecInv, NEW c \in Caller, QuiccInit(c)
    PROVE  UecInv'
<1> USE DEF QuiccInit, At, Goto, counts, bds
<1>0. Counts'
  BY DEF UecInv, Counts
<1>1. Types /\ LockHeld /\ Below /\ Flags /\ AssertsHold
  BY DEF UecInv
<1>2. PICK n \in Nat : Used(n)
  BY DEF UecInv
<1>3. lock = c /\ pc[c] = "spi" /\ ~aborted /\ c \in Caller
  BY <1>1 DEF LockHeld, Inside
<1>4. \A d \in Caller : d # c => pc[d] \notin Inside
  BY <1>1, <1>3, Alone
<1>5. ~InSetup /\ Done = 0
  BY <1>3, <1>4 DEF InSetup, Done, Inside
<1>6. pc' = [pc EXCEPT ![c] = "setup"] /\ pc' \in [Caller -> {"idle", "enter"} \union Inside]
  BY <1>1 DEF Types, Inside
<1>7. InSetup' /\ Done' = 0
  <2>1. pc'[c] = "setup"
    BY <1>1 DEF Types
  <2>2. InSetup'
    BY <2>1 DEF InSetup
  <2> QED
    BY <2>2 DEF Done
<1>8. LockHeld'
  BY <1>1, <1>3, <1>4, <1>6 DEF LockHeld, Inside
<1>9. step' \in 1..(Len(Request) + 1) /\ ready' = TRUE
  BY <1>1, Constants DEF engine, Types
<1>10. freeSnum' = freeSnum
  BY DEF engine
<1>11. CASE ready
  <2>1. UNCHANGED <<muramOffset, regions, freeSnum, aborted>>
    BY <1>11 DEF engine
  <2>2. Types'
    BY <1>1, <1>6, <1>9, <2>1 DEF Types
  <2>3. Below' /\ AssertsHold'
    BY <1>1, <2>1 DEF Below, AssertsHold
  <2>4. Used(n)'
    BY <1>2, <1>5, <1>7, <2>1 DEF Used
  <2>5. Flags'
    BY <1>1, <1>3, <1>4, <1>6, <1>9, <2>1 DEF Flags, Inside, Types
  <2> QED
    BY <1>0, <1>8, <2>2, <2>3, <2>4, <2>5 DEF UecInv
<1>12. CASE ~ready
  <2>1. muramOffset = 0
    BY <1>1, <1>12 DEF Flags
  <2>2. Sdma \in Item /\ Sdma.align \in Nat \ {0} /\ Sdma.size \in Nat
    BY Constants DEF Item
  <2>3. AlignedFree(Sdma.align) = 0
    <3>1. /\ AlignedFree(Sdma.align) \in Nat
          /\ AlignedFree(Sdma.align) <= muramOffset + Sdma.align - 1
          /\ AlignedFree(Sdma.align) % Sdma.align = 0
      <4>1. Word % Sdma.align = 0 /\ muramOffset + Sdma.align <= Word
        <5>1. Word % Sdma.align = 0 /\ MuramSize + Sdma.size + Sdma.align <= Word
          BY EngineAssumption, RoomAssumption
        <5>2. PICK size \in Nat, align \in Nat, all \in Nat, word \in Nat :
                 /\ size = Sdma.size /\ align = Sdma.align /\ all = MuramSize /\ word = Word
                 /\ all + size + align <= word
          BY <2>2, <5>1, Constants
        <5>3. 0 + align <= word
          BY <5>2
        <5> QED
          BY <2>1, <5>1, <5>2, <5>3
      <4> QED
        BY <2>1, <2>2, <4>1, Constants, AlignedFreeRight
    <3>2. PICK f \in Nat, a \in Nat \ {0} :
             f = AlignedFree(Sdma.align) /\ a = Sdma.align /\ f <= a - 1 /\ f % a = 0
      BY <2>1, <2>2, <3>1
    <3>3. f % a = f
      BY <3>2
    <3> QED
      BY <3>2, <3>3
  <2>4. Allocate(Sdma) /\ aborted' = ~Fits(Sdma)
    BY <1>12
  <2>5. /\ Fits(Sdma) /\ muramOffset' = AlignedFree(Sdma.align) + Sdma.size
        /\ regions' \subseteq Region /\ Below'
    <3>1. Sdma.size <= MuramSize /\ MuramSize + Sdma.size + Sdma.align <= Word
      BY RoomAssumption
    <3>2. Word % Sdma.align = 0
      BY EngineAssumption
    <3>3. AlignedFree(Sdma.align) + Sdma.size <= MuramSize
      BY <2>2, <2>3, <3>1
    <3> QED
      BY <1>1, <2>2, <2>4, <3>1, <3>2, <3>3, AllocateRight DEF Types
  <2>6. muramOffset' = Sdma.size /\ muramOffset' \in 0..MuramSize /\ aborted' = FALSE
    <3>1. PICK size \in Nat, all \in Nat :
             size = Sdma.size /\ all = MuramSize /\ size <= all
      BY <2>2, RoomAssumption, Constants
    <3>2. muramOffset' = 0 + size
      BY <2>3, <2>5, <3>1
    <3>3. muramOffset' = size /\ muramOffset' \in 0..all
      BY <3>1, <3>2
    <3> QED
      BY <2>4, <2>5, <3>1, <3>3
  <2>7. Types'
    BY <1>1, <1>6, <1>9, <2>5, <2>6 DEF Types
  <2>8. Used(n)'
    <3>1. n * Bytes[Len(Request)] \in Nat /\ Bytes[0] = 0
      BY Constants, SumAssumption
    <3>2. muramOffset' <= Sdma.size + n * Bytes[Len(Request)] + Bytes[Done']
      BY <1>7, <2>2, <2>6, <3>1
    <3> QED
      BY <1>2, <1>3, <1>5, <1>7, <1>10, <3>2 DEF Used
  <2>9. Flags' /\ AssertsHold'
    BY <1>1, <1>3, <1>4, <1>6, <1>9, <2>6 DEF Flags, AssertsHold, Inside, Types
  <2> QED
    BY <1>0, <1>8, <2>5, <2>7, <2>8, <2>9 DEF UecInv
<1> QED
  BY <1>11, <1>12

LEMMA SetupStep ==
    ASSUME UecInv, NEW c \in Caller, Setup(c)
    PROVE  UecInv'
<1> USE DEF Setup, At, counts, bds
<1>0. Counts'
  BY DEF UecInv, Counts
<1> DEFINE r == Request[step]
<1>1. Types /\ LockHeld /\ Below /\ Flags /\ AssertsHold
  BY DEF UecInv
<1>2. PICK n \in Nat : Used(n)
  BY DEF UecInv
<1>3. InSetup /\ InSetup' /\ UNCHANGED <<lock, pc, newStack, tasks, running, ready>> /\ ~aborted
  BY DEF InSetup
<1>4. step \in 1..Len(Request) /\ step' = step + 1 /\ r \in Item
  BY <1>1, Constants DEF Types
<1>5. Done = step - 1 /\ Done' = step
  BY <1>3, <1>4 DEF Done
<1>6. /\ AlignedFree(r.align) + r.size <= MuramSize
      /\ AlignedFree(r.align) + r.size
           <= Sdma.size + n * Bytes[Len(Request)] + Bytes[step]
  BY <1>1, <1>2, <1>3, <1>4, Room DEF Types
<1>7. /\ Fits(r) /\ muramOffset' = AlignedFree(r.align) + r.size
      /\ regions' \subseteq Region /\ Below'
  <2>1. Word % r.align = 0 /\ MuramSize + r.size + r.align <= Word
    BY <1>4, EngineAssumption, RoomAssumption
  <2> QED
    BY <1>1, <1>4, <1>6, <2>1, AllocateRight DEF Types
<1>8. muramOffset' \in 0..MuramSize
  <2>1. Word % r.align = 0 /\ MuramSize + r.size + r.align <= Word
    BY <1>4, EngineAssumption, RoomAssumption
  <2>2. r.align \in Nat \ {0} /\ r.size \in Nat
    BY <1>4 DEF Item
  <2>3. muramOffset \in Nat /\ muramOffset + r.align <= Word
    BY <1>1, <2>1, <2>2, Constants DEF Types
  <2>4. AlignedFree(r.align) \in Nat
    BY <2>1, <2>2, <2>3, Constants, AlignedFreeRight
  <2> QED
    BY <1>6, <1>7, <2>2, <2>4
<1>9. aborted' = (r.snum /\ freeSnum = {})
  BY <1>7
<1>10. Types'
  BY <1>1, <1>3, <1>4, <1>7, <1>8, <1>9, Constants DEF Types
<1>11. Used(n)'
  <2> DEFINE k == n * InitThreads + Threads[step - 1]
  <2>1. k \in Nat /\ freeSnum = k..(SnumCount - 1) /\ k <= SnumCount
    <3>1. n * InitThreads \in Nat
      BY Constants
    <3>2. Threads[step - 1] \in Nat
      BY <1>4, Constants
    <3>3. k \in Nat
      BY <3>1, <3>2
    <3> QED
      BY <1>2, <1>3, <1>5, <3>3 DEF Used
  <2>2. Threads[step] = Threads[step - 1] + (IF r.snum THEN 1 ELSE 0)
    BY <1>4, SumAssumption
  <2>3. n * InitThreads + Threads[step] = k + (IF r.snum THEN 1 ELSE 0)
    BY <1>4, <2>2, Constants
  <2> HIDE DEF k
  <2>4. CASE ~r.snum
    <3>1. n * InitThreads + Threads[Done'] = k /\ freeSnum' = freeSnum
      BY <1>5, <2>1, <2>3, <2>4
    <3> QED
      BY <1>5, <1>6, <1>7, <2>1, <3>1 DEF Used
  <2>5. CASE r.snum /\ freeSnum # {}
    <3>1. k \in freeSnum /\ \A j \in freeSnum : k <= j
      BY <2>1, <2>5, Constants
    <3>2. LowestSnum = k
      BY <2>1, <3>1, Constants DEF LowestSnum
    <3>3. freeSnum' = (k + 1)..(SnumCount - 1) /\ k + 1 <= SnumCount
      <4>1. freeSnum' = freeSnum \ {k}
        BY <2>5, <3>2 DEF AllocateSnum
      <4>2. PICK m \in Nat, l \in Nat : m = k /\ l = SnumCount
        BY <2>1, Constants
      <4>3. m \in m..(l - 1) /\ (m..(l - 1)) \ {m} = (m + 1)..(l - 1)
        BY <2>1, <3>1, <4>2
      <4>4. m + 1 <= l
        BY <4>3
      <4> QED
        BY <2>1, <4>1, <4>2, <4>3, <4>4
    <3>4. n * InitThreads + Threads[Done'] = k + 1
      BY <1>5, <2>1, <2>3, <2>5
    <3> QED
      BY <1>5, <1>6, <1>7, <3>3, <3>4 DEF Used
  <2>6. CASE r.snum /\ freeSnum = {}
    <3>1. aborted' /\ freeSnum' = freeSnum
      BY <1>9, <2>6
    <3>2. freeSnum' = (k + 1)..(SnumCount - 1)
      <4>1. PICK m \in Nat, l \in Nat : m = k /\ l = SnumCount
        BY <2>1, Constants
      <4>2. m..(l - 1) = {}
        BY <2>1, <2>6, <4>1
      <4>3. (m + 1)..(l - 1) = {}
        BY <4>2
      <4> QED
        BY <2>6, <3>1, <4>1, <4>3
    <3>3. n * InitThreads + Threads[Done'] = k + 1
      BY <1>5, <2>1, <2>3, <2>6
    <3> QED
      BY <1>5, <1>6, <1>7, <3>1, <3>2, <3>3 DEF Used
  <2> QED
    BY <2>4, <2>5, <2>6
<1>12. LockHeld'
  BY <1>1, <1>3 DEF LockHeld
<1>13. Flags'
  BY <1>1, <1>3 DEF Flags
<1>14. AssertsHold'
  BY <1>3, <1>9 DEF AssertsHold
<1> QED
  BY <1>0, <1>7, <1>10, <1>11, <1>12, <1>13, <1>14 DEF UecInv

(* The end of an initialisation: it has used up one more share. *)
LEMMA EndStep ==
    ASSUME UecInv, NEW c \in Caller, PhyFails(c) \/ Start(c)
    PROVE  UecInv'
<1> USE DEF PhyFails, Start, IsSetUp, At, Return, Goto, counts, bds
<1>0. Counts'
  BY DEF UecInv, Counts
<1>1. Types /\ LockHeld /\ Below /\ Flags /\ AssertsHold
  BY DEF UecInv
<1>2. PICK n \in Nat : Used(n)
  BY DEF UecInv
<1>3. /\ lock = c /\ pc[c] = "setup" /\ ~aborted /\ ready
      /\ UNCHANGED <<ready, muramOffset, regions, freeSnum, step, newStack>>
  BY <1>1 DEF LockHeld, Inside, Flags, InSetup, engine
<1>4. \A d \in Caller : d # c => pc[d] \notin Inside
  BY <1>1, <1>3, Alone
<1>5. InSetup /\ step = Len(Request) + 1 /\ Done = Len(Request)
  BY <1>1, <1>3, Constants DEF InSetup, Types, Done
<1>6. Below'
  BY <1>1, <1>3 DEF Below
<1>7. CASE pc' = [pc EXCEPT ![c] = "idle"] /\ lock' = "none" /\ ~aborted'
  <2>1. pc' \in [Caller -> {"idle", "enter"} \union Inside] /\ pc'[c] = "idle"
    BY <1>1, <1>7 DEF Types
  <2>2. ~InSetup' /\ Done' = 0
    BY <1>1, <1>4, <1>7, <2>1 DEF InSetup, Done, Inside, Types
  <2>3. LockHeld'
    BY <1>1, <1>4, <1>7, EngineAssumption DEF LockHeld, Types, Inside
  <2>4. Used(n + 1)'
    <3> DEFINE B == Bytes[Len(Request)]
               T == InitThreads
    <3>1. /\ B \in Nat /\ T \in Nat /\ Threads[Len(Request)] = T
          /\ Bytes[0] = 0 /\ Threads[0] = 0
      BY Constants, SumAssumption DEF InitThreads
    <3>2. (n + 1) * B = n * B + B /\ (n + 1) * T = n * T + T /\ n * B \in Nat /\ n * T \in Nat
      BY <3>1
    <3>3. (n + 1) * T + Threads[Done'] = n * T + Threads[Done]
      BY <1>5, <2>2, <3>1, <3>2
    <3>4. Sdma.size + (n + 1) * B + Bytes[Done'] = Sdma.size + n * B + Bytes[Done]
      <4>1. Sdma.size \in Nat
        BY Constants DEF Item
      <4> QED
        BY <1>5, <2>2, <3>1, <3>2, <4>1
    <3> QED
      BY <1>2, <1>3, <3>3, <3>4 DEF Used
  <2>5. Types'
    BY <1>1, <1>3, <1>7, <2>1, Constants DEF Types
  <2>6. Flags'
    <3>1. tasks' = running'
      BY <1>1 DEF Flags
    <3>2. \A d \in Caller : pc'[d] \notin {"spi", "setup"}
      BY <1>1, <1>4, <1>7, <2>1 DEF Types, Inside
    <3> QED
      BY <1>3, <3>1, <3>2 DEF Flags
  <2> QED
    BY <1>0, <1>6, <1>7, <2>3, <2>4, <2>5, <2>6 DEF UecInv, AssertsHold
<1>8. CASE Start(c) /\ tasks
  <2>1. aborted' = TRUE /\ UNCHANGED <<lock, pc, tasks, running>>
    BY <1>8
  <2>2. Types' /\ LockHeld' /\ Flags'
    BY <1>1, <1>3, <2>1 DEF Types, LockHeld, Flags, InSetup
  <2>3. Used(n)'
    BY <1>2, <1>3, <2>1 DEF Used, Done, InSetup
  <2>4. AssertsHold'
    BY <1>1, <1>3, <1>8, <2>1 DEF Flags, AssertsHold
  <2> QED
    BY <1>0, <1>6, <2>2, <2>3, <2>4 DEF UecInv
<1> QED
  BY <1>3, <1>7, <1>8

LEMMA NextInv == UecInv /\ [Next]_vars => UecInv'
<1> SUFFICES ASSUME UecInv, [Next]_vars PROVE UecInv'
  OBVIOUS
<1>1. CASE UNCHANGED vars
  BY <1>1 DEF vars, engine, counts, bds, UecInv, Counts, Types, LockHeld, Below, Used, Done,
              InSetup, Flags, AssertsHold
<1>2. ASSUME NEW c \in Caller, Call(c) \/ Lock(c) \/ Body(c) PROVE UecInv'
  BY <1>2, CallStep, BdStep, QuiccInitStep, SetupStep, EndStep DEF Body
<1>3. CASE StackMbufs
  BY <1>3, BdStep
<1> QED
  BY <1>1, <1>2, <1>3 DEF Next

LEMMA InvAlways == Spec => []UecInv
  BY InitInv, NextInv, PTL DEF Spec

-----------------------------------------------------------------------------
(***************************************************************************)
(* The memory the initialisations allocate (quicc.c:179-193) is inside of  *)
(* the MURAM, aligned and apart, with any sizes for which the SNUMs run    *)
(* out first.                                                              *)
(***************************************************************************)
THEOREM RegionsAlwaysRight == Spec => []RegionsRight
<1>1. UecInv => RegionsRight
  <2> SUFFICES ASSUME UecInv PROVE RegionsRight
    OBVIOUS
  <2>1. Below /\ regions \subseteq Region /\ muramOffset \in 0..MuramSize
    BY DEF UecInv, Types
  <2>2. \A r \in regions : r.offset + r.size <= MuramSize
    BY <2>1, Constants DEF Below, Region
  <2> QED
    BY <2>1, <2>2 DEF RegionsRight, Below
<1> QED
  BY <1>1, InvAlways, PTL

(***************************************************************************)
(* The assertions on memory, SNUMs, BD counts, heap and tasks that         *)
(* uec_if_interface_init runs into (those in quicc_uec_init and init_bd    *)
(* included) fail only for one of the four reasons of AssertsHold.  With   *)
(* the new stack two of them are left: no SNUM, or no heap.                *)
(***************************************************************************)
THEOREM AssertsAlwaysHold == Spec => []AssertsHold
<1>1. UecInv => AssertsHold
  BY DEF UecInv
<1> QED
  BY <1>1, InvAlways, PTL
=============================================================================
