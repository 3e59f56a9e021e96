------------------------------- MODULE BdTx --------------------------------
(***************************************************************************)
(* The transmit buffer descriptor (BD) ring of the QUICC Engine driver:    *)
(* quicc_bd_tx_init and quicc_bd_tx_submit_and_wait (src/quicc/quicc-bd.c) *)
(* with the two callbacks the Ethernet driver passes to it,                *)
(* uec_if_bd_compact and uec_if_bd_wait_and_free                           *)
(* (src/quicc/quicc-uec-if.c), running against the controller.             *)
(*                                                                         *)
(* The driver and the controller share nothing but the BDs.  Every store   *)
(* of the driver to a BD the controller may look at is a step of its own,  *)
(* so the controller moves between any two of them; this includes every    *)
(* turn of the compaction loop.  The caller holds the driver lock from the *)
(* call to the return (it gives it up only while it waits for a BD, which  *)
(* UecTx looks at), so there is one caller at a time.                      *)
(***************************************************************************)
EXTENDS Integers, Sequences

CONSTANTS
    N,                  \* bd_count
    FrameFragmentsMax,  \* the argument frame_fragments_max
    Mbuf,               \* the mbufs the stack has
    None,               \* a NULL pointer
    MaxFrame,           \* bound: the fragments of one frame
    Tags                \* bound: fragments are numbered modulo Tags

Slot == 0..(N - 1)

(* frame_fragments_max <= 0 asks for the default. *)
FragMax == IF FrameFragmentsMax <= 0 THEN N - 1 ELSE FrameFragmentsMax

(***************************************************************************)
(* What quicc_bd_tx_init asserts.  (It also asserts that N is a power of   *)
(* two, which makes (i + 1) & index_mask the successor modulo N, our Succ.)*)
(***************************************************************************)
ASSUME NAssumption == N \in Nat \ {0}
ASSUME FragMaxAssumption == FrameFragmentsMax \in Int /\ FrameFragmentsMax <= N
ASSUME BoundAssumption == MaxFrame \in Nat \ {0} /\ Tags \in Nat \ {0}
ASSUME NoneAssumption == None \notin Mbuf

VARIABLES
    ready,    \* QUICC_BD_TX_R of a BD: it belongs to the controller
    last,     \* QUICC_BD_L: the BD ends a frame
    wrap,     \* QUICC_BD_W: the BD ends the ring
    buf,      \* the mbuf a BD's buffer pointer points into
    arg,      \* per_bd_arg: the mbuf to be freed with a BD
    current,  \* the BD the next fragment goes to
    first,    \* first_in_frame
    avail,    \* frame_fragments_available
    pc,       \* where the caller is in quicc_bd_tx_submit_and_wait
    call,     \* its bd_status (L and W), bd_buffer and bd_arg
    discard,  \* its position in the compaction loop
    live,     \* the mbufs that are allocated
    content,  \* the fragments an mbuf carries; a free one carries none
    tag,      \* the number the next fragment gets
    flen,     \* fragments submitted of the current frame
    hw,       \* the BD the controller works on
    wire      \* what the controller has sent of an unfinished frame

ring   == <<ready, last, wrap, buf>>
caller == <<current, first, avail, pc, call, discard>>
vars   == <<ring, arg, caller, live, content, tag, flen, hw, wire>>

Succ(i) == IF i = N - 1 THEN 0 ELSE i + 1

NoCall == [last |-> FALSE, wrap |-> FALSE, buf |-> None, arg |-> None]

Init ==
    /\ ready = [i \in Slot |-> FALSE]
    /\ last = [i \in Slot |-> FALSE]
    /\ wrap = [i \in Slot |-> i = N - 1]
    /\ buf = [i \in Slot |-> None]
    /\ arg = [i \in Slot |-> None]
    /\ current = 0
    /\ first = 0
    /\ avail = FragMax
    /\ pc = "idle"
    /\ call = NoCall
    /\ discard = 0
    /\ live = {}
    /\ content = [m \in Mbuf |-> <<>>]
    /\ tag = 0
    /\ flen = 0
    /\ hw = 0
    /\ wire = <<>>
-----------------------------------------------------------------------------
(***************************************************************************)
(* The call with a fragment in a new mbuf m; l says that it is the last    *)
(* one of its frame.  With no fragment left for this frame the fragments   *)
(* of the frame are compacted: m joins them in the last BD of the frame.   *)
(***************************************************************************)
Submit(m, l) ==
    /\ pc = "idle"
    /\ m \in Mbuf \ live
    /\ ~l => flen < MaxFrame - 1
    /\ live' = live \union {m}
    /\ content' = [content EXCEPT ![m] = <<tag>>]
    /\ tag' = (tag + 1) % Tags
    /\ flen' = IF l THEN 0 ELSE flen + 1
    /\ \/ /\ avail > 0
          /\ pc' = "fill"
          /\ call' = [last |-> l, wrap |-> FALSE, buf |-> m, arg |-> m]
          /\ UNCHANGED <<arg, discard>>
       \/ /\ avail <= 0
          /\ pc' = "compact"
          /\ arg' = [arg EXCEPT ![current] = m]
          /\ discard' = first
          /\ call' = [last |-> l, wrap |-> wrap[first], buf |-> None, arg |-> None]
    /\ UNCHANGED <<ring, current, first, avail, hw, wire>>

(* MUTANT: the compaction loop stops before the last BD of the frame. *)
CompactEndShort == current

(* Where the compaction loop ends: behind the last BD of the frame. *)
CompactEnd == Succ(current)

(***************************************************************************)
(* The callback uec_if_bd_compact gets a new mbuf in the first turn of the *)
(* loop (then bd_arg is NULL), appends the data of the discarded mbuf old  *)
(* to it and frees old.                                                    *)
(***************************************************************************)
BdCompact(c, old) ==
    /\ IF call.arg = None THEN c \in Mbuf \ live ELSE c = call.arg
    /\ content' = [content EXCEPT ![c] = @ \o content[old], ![old] = <<>>]
    /\ live' = (live \union {c}) \ {old}
    /\ call' = [last |-> call.last, wrap |-> call.wrap, buf |-> c, arg |-> c]

(* MUTANT: the compacted fragment goes to the last BD of the frame. *)
CompactedLast == current

(* The BD the compacted fragment goes to. *)
CompactedTo == first

(* One turn of the compaction loop. *)
Compact(c) ==
    LET old  == arg[discard]
        done == Succ(discard) = CompactEnd
    IN  /\ pc = "compact"
        /\ BdCompact(c, old)
        /\ arg' = [arg EXCEPT ![discard] = None]
        /\ ready' = [ready EXCEPT ![discard] = FALSE]
        /\ last' = [last EXCEPT ![discard] = FALSE]
        /\ discard' = Succ(discard)
        /\ pc' = IF done THEN "fill" ELSE "compact"
        /\ avail' = IF done THEN FragMax - 1 ELSE avail
        /\ current' = IF done THEN CompactedTo ELSE current
        /\ UNCHANGED <<wrap, buf, first, tag, flen, hw, wire>>

(* bd_current->buffer = bd_buffer *)
Fill ==
    /\ pc = "fill"
    /\ buf' = [buf EXCEPT ![current] = call.buf]
    /\ pc' = "status"
    /\ UNCHANGED <<ready, last, wrap, arg, current, first, avail, call, discard,
                   live, content, tag, flen, hw, wire>>

(* MUTANT: frame_fragments_available is not reset at the end of a frame. *)
AdvanceNoReset ==
    /\ current' = Succ(current)
    /\ avail' = avail - 1
    /\ first' = IF call.last THEN Succ(current) ELSE first
    /\ pc' = "wait"
    /\ call' = NoCall
    /\ discard' = 0

(* The end of the call up to the wait: the ring position is advanced. *)
Advance ==
    /\ current' = Succ(current)
    /\ IF call.last
       THEN /\ first' = Succ(current)
            /\ avail' = FragMax
       ELSE /\ avail' = avail - 1
            /\ UNCHANGED first
    /\ pc' = "wait"
    /\ call' = NoCall
    /\ discard' = 0

(* MUTANTS: the wrap bit is dropped; the first BD of a frame is made ready  *)
(* like the others; the BD of a frame of one fragment is never made ready. *)
BdWrapDropped == FALSE

BdReadyAlways == TRUE

BdReadyNotAlone == current # first

(* The wrap and the ready bit of the BD at current. *)
BdWrap == current = N - 1

BdReady == call.last \/ current # first

(***************************************************************************)
(* bd_current->status = ..., per_bd_arg [current] = bd_arg.  The first BD  *)
(* of a frame with more than one fragment is not made ready here.          *)
(***************************************************************************)
Status ==
    /\ pc = "status"
    /\ ready' = [ready EXCEPT ![current] = BdReady]
    /\ last' = [last EXCEPT ![current] = call.last]
    /\ wrap' = [wrap EXCEPT ![current] = call.wrap \/ BdWrap]
    /\ arg' = [arg EXCEPT ![current] = call.arg]
    /\ IF call.last /\ current # first
       THEN pc' = "release" /\ UNCHANGED <<current, first, avail, call, discard>>
       ELSE Advance
    /\ UNCHANGED <<buf, live, content, tag, flen, hw, wire>>

(* bd_first_in_frame->status |= QUICC_BD_TX_R: the controller gets the frame. *)
Release ==
    /\ pc = "release"
    /\ ready' = [ready EXCEPT ![first] = TRUE]
    /\ Advance
    /\ UNCHANGED <<last, wrap, buf, arg, live, content, tag, flen, hw, wire>>

(* MUTANT: the mbuf is freed without waiting for the controller. *)
FreeAtOnce ==
    /\ pc = "wait"
    /\ live' = live \ {arg[current]}
    /\ content' = [m \in Mbuf |-> IF m = arg[current] THEN <<>> ELSE content[m]]
    /\ pc' = "idle"
    /\ UNCHANGED <<ring, arg, current, first, avail, call, discard,
                   tag, flen, hw, wire>>

(***************************************************************************)
(* uec_if_bd_wait_and_free: wait until the controller is done with the BD  *)
(* the next fragment will use, then free what the BD has sent.  The loop   *)
(* of uec_if_bd_wait is the subject of module BdWait.                      *)
(***************************************************************************)
WaitAndFree ==
    /\ pc = "wait"
    /\ ~ready[current]
    /\ live' = live \ {arg[current]}
    /\ content' = [m \in Mbuf |-> IF m = arg[current] THEN <<>> ELSE content[m]]
    /\ pc' = "idle"
    /\ UNCHANGED <<ring, arg, current, first, avail, call, discard,
                   tag, flen, hw, wire>>
-----------------------------------------------------------------------------
(***************************************************************************)
(* The controller sends the buffer of the BD it is at once the BD is       *)
(* ready, closes the BD and goes to the next one, as its wrap bit says.    *)
(***************************************************************************)
Close ==
    /\ hw \in Slot
    /\ ready[hw]
    /\ ready' = [ready EXCEPT ![hw] = FALSE]
    /\ wire' = IF last[hw] THEN <<>> ELSE wire \o content[buf[hw]]
    /\ hw' = IF wrap[hw] THEN 0 ELSE hw + 1
    /\ UNCHANGED <<last, wrap, buf, arg, caller, live, content, tag, flen>>
-----------------------------------------------------------------------------
Working == (\E c \in Mbuf : Compact(c)) \/ Fill \/ Status \/ Release \/ WaitAndFree

Next ==
    \/ \E m \in Mbuf, l \in BOOLEAN : Submit(m, l)
    \/ Working
    \/ Close

Spec == Init /\ [][Next]_vars

(***************************************************************************)
(* A call that has begun goes on, and the controller serves ready BDs.     *)
(* Nothing makes the stack submit another fragment.                        *)
(***************************************************************************)
FairSpec == Spec /\ WF_vars(Working) /\ WF_vars(Close)
-----------------------------------------------------------------------------
(* The steps from BD a to BD b in the order of the ring. *)
Dist(a, b) == IF b >= a THEN b - a ELSE b - a + N

(* The BD k steps after BD a. *)
Plus(a, k) == IF a + k < N THEN a + k ELSE a + k - N

(* The type invariant.  hw \in Slot also says that the wrap bit is kept. *)
ControlOK ==
    /\ ready \in [Slot -> BOOLEAN]
    /\ last \in [Slot -> BOOLEAN]
    /\ wrap \in [Slot -> BOOLEAN]
    /\ buf \in [Slot -> Mbuf \union {None}]
    /\ arg \in [Slot -> Mbuf \union {None}]
    /\ current \in Slot
    /\ first \in Slot
    /\ avail \in Int
    /\ pc \in {"idle", "compact", "fill", "status", "release", "wait"}
    /\ call \in [last : BOOLEAN, wrap : BOOLEAN,
                 buf : Mbuf \union {None}, arg : Mbuf \union {None}]
    /\ discard \in Slot
    /\ live \subseteq Mbuf
    /\ hw \in Slot

DataOK ==
    /\ content \in [Mbuf -> Seq(Nat)]
    /\ tag \in Nat
    /\ flen \in Nat
    /\ wire \in Seq(Nat)

TypeOK == ControlOK /\ DataOK

(***************************************************************************)
(* The controller never sees a part of a frame: when it finds a ready BD,  *)
(* and also when it is in the middle of a frame, all BDs up to one with    *)
(* the last bit are ready.  Otherwise it would run dry within a frame      *)
(* (transmit underrun).  This is why the first BD of a frame is made ready *)
(* after all others (quicc-bd.c:154 and :164).                             *)
(***************************************************************************)
WholeFrames ==
    ready[hw] \/ wire # <<>> =>
        \E k \in 0..(N - 1) :
            /\ last[Plus(hw, k)]
            /\ \A j \in 0..k : ready[Plus(hw, j)]

(***************************************************************************)
(* The mbufs the driver has to free: those in per_bd_arg and the compacted *)
(* one.  per_bd_arg [current] is no longer valid once the wait is over: it *)
(* is not cleared, it dangles until the next call stores to it.            *)
(***************************************************************************)
Stale == IF pc \in {"idle", "fill", "status"} THEN {current} ELSE {}

Holders == {i \in Slot \ Stale : arg[i] # None}

(* The mbuf of the call that is in no per_bd_arg yet. *)
InHand == IF pc \in {"compact", "fill", "status"} THEN call.arg ELSE None

(***************************************************************************)
(* No mbuf is lost, freed twice or freed under the controller: the live    *)
(* mbufs are those in per_bd_arg, each in one place, and the one of the    *)
(* call; and a BD the controller may read points to the mbuf kept in its   *)
(* per_bd_arg.                                                             *)
(***************************************************************************)
MbufsOwnedOnce ==
    /\ live = {arg[i] : i \in Holders} \union ({InHand} \ {None})
    /\ \A i, j \in Holders : arg[i] = arg[j] => i = j
    /\ \A i \in Holders : arg[i] # InHand
    /\ \A i \in Slot : ready[i] => i \in Holders /\ buf[i] = arg[i]

(***************************************************************************)
(* The BDs of the frame that is not complete keep their mbufs: the next    *)
(* fragment may compact them.  (The new fragment joins the compaction in   *)
(* the last BD.)                                                           *)
(***************************************************************************)
OpenFrameKept ==
    \A i \in Slot :
        LET d == Dist(first, i)
        IN  /\ d < Dist(first, current)
            /\ pc = "compact" => d >= Dist(first, discard)
            => i \in Holders /\ buf[i] = arg[i]

(***************************************************************************)
(* A caller is never stuck in the wait for a BD: it cannot wait for a      *)
(* frame that waits for the caller.                                        *)
(***************************************************************************)
CallReturns == pc # "idle" ~> pc = "idle"

(* What quicc_bd_tx_init does not assert: the callers' choice, the default. *)
RoomForFirst == FragMax \in 1..(N - 1)

(* The BDs of complete frames that the controller has not closed. *)
Released ==
    IF first = hw
    THEN IF ready[hw] THEN N ELSE 0
    ELSE Dist(hw, first)

(* The BDs of the frame in the making. *)
Pending == Dist(first, current)

(***************************************************************************)
(* The inductive invariant of the ring, part by part.  Seen from the first *)
(* BD of the frame in the making, the ring holds the BDs of this frame, of *)
(* which only the first one is held back; then BDs that are free; then the *)
(* BDs of the complete frames, up to the one before the first.             *)
(***************************************************************************)
ReadyBds ==
    \A i \in Slot :
        ready[i] <=>
            LET d == Dist(first, i)
            IN  \/ d >= N - Released
                \/ /\ 0 < d /\ d < Pending
                   /\ pc = "compact" => d >= Dist(first, discard)
                \/ pc = "release" /\ d = Pending

(* Between two calls a BD is free for the next fragment. *)
Room ==
    /\ Pending + Released <= N
    /\ pc # "wait" => Pending + Released < N

(* frame_fragments_available leaves the first BD alone. *)
Available ==
    /\ avail + Pending <= FragMax
    /\ pc \in {"idle", "wait"} /\ Pending = 0 => avail = FragMax
    /\ pc \in {"fill", "status"} /\ Pending > 0 => avail > 0

(* The BDs of complete frames end with a last bit. *)
FrameEnds ==
    /\ Released > 0 => last[IF first = 0 THEN N - 1 ELSE first - 1]
    /\ wire # <<>> => Released > 0
    /\ pc = "release" => call.last /\ last[current] /\ Pending > 0

WrapKept ==
    /\ \A i \in Slot : wrap[i] <=> i = N - 1
    /\ pc = "compact" => (call.wrap <=> first = N - 1)
    /\ pc \in {"fill", "status"} /\ call.wrap => current = N - 1

Compaction ==
    pc = "compact" => /\ Dist(first, discard) <= Pending
                      /\ Pending > 0

RingInv ==
    /\ ControlOK
    /\ ReadyBds
    /\ Room
    /\ Available
    /\ FrameEnds
    /\ WrapKept
    /\ Compaction

(* A caller waits only for BDs the controller is going to close. *)
NoWaitCycle == pc = "wait" /\ ready[current] => ready[hw]

(* What the call has in hand. *)
CallInv ==
    /\ pc = "compact" =>
        /\ current \in Holders
        /\ \A i \in Holders : Dist(first, i) >= Dist(first, discard)
    /\ pc \in {"fill", "status"} => call.arg \in Mbuf /\ call.buf = call.arg
    /\ pc = "status" => buf[current] = call.buf

MbufInv == MbufsOwnedOnce /\ OpenFrameKept /\ CallInv
=============================================================================
