---------------------------- MODULE BdTxRefines -----------------------------
(***************************************************************************)
(* The transmit ring implements the FIFO of frames of module FrameQueue.   *)
(*                                                                         *)
(* BDs are counted back from the end of what they hold, so that the BD the *)
(* controller closes and the one a compaction takes next have the highest  *)
(* number and the others keep theirs.                                      *)
(***************************************************************************)
EXTENDS BdTx

(* The BD k steps before BD i. *)
Back(i, k) == Plus(i, N - k)

(* What the mbufs of the n BDs before BD i hold, by the function ptr. *)
Held(ptr, i, n) == [k \in 1..n |-> content[ptr[Back(i, k)]]]

(* Which of them end a frame. *)
Ended(i, n) == [k \in 1..n |-> last[Back(i, k)]]

(* The fragments of n BDs in a row that hold d. *)
Join(d, n) ==
    LET join[k \in 0..n] == IF k = 0 THEN <<>> ELSE d[k] \o join[k - 1]
    IN  join[n]

(***************************************************************************)
(* A BD that holds x, in front of the BDs of some frames: it is a frame if *)
(* it ends one, and belongs to the first of them if it does not.           *)
(***************************************************************************)
InFront(x, ends, frames) ==
    IF ends THEN <<x>> \o frames ELSE <<x \o Head(frames)>> \o Tail(frames)

(* The frames of n BDs that hold d and end frames as ends says. *)
Cut(d, ends, n) ==
    LET cut[k \in 0..n] ==
            IF k = 0 THEN <<>> ELSE InFront(d[k], ends[k], cut[k - 1])
    IN  cut[n]

Frames == Cut(Held(buf, first, Released), Ended(first, Released), Released)

Carried(ptr, i, n) == Join(Held(ptr, i, n), n)

(***************************************************************************)
(* The fragments of the frame in the making: those in its BDs and the ones *)
(* the call has in hand.                                                   *)
(***************************************************************************)
OpenFrame ==
    LET inHand == IF call.arg = None THEN <<>> ELSE content[call.arg]
    IN  CASE pc \in {"idle", "wait"} ->
                Carried(buf, current, Pending)
          [] pc \in {"fill", "status"} ->
                Carried(buf, current, Pending) \o inHand
          [] pc = "release" ->
                Carried(buf, Succ(current), Pending + 1)
          [] pc = "compact" ->
                inHand \o Carried(arg, Succ(current), Dist(discard, current) + 1)

FQ == INSTANCE FrameQueue
        WITH Frag <- 0..(Tags - 1), open <- OpenFrame, out <- Frames

(* Every step of the ring is a step of the FIFO or leaves it unchanged. *)
ImplementsFrameQueue == FQ!Spec

(* ... and with a controller that serves ready BDs, no frame is forgotten. *)
ImplementsFairQueue == FQ!FairSpec
=============================================================================
