----------------------------- MODULE FrameQueue -----------------------------
(***************************************************************************)
(* What the transmit ring of src/quicc/quicc-bd.c promises to its user: a  *)
(* FIFO of frames.  The driver submits the fragments of one frame after    *)
(* the other; nothing of a frame is visible to the controller before the   *)
(* frame is complete; the controller then takes the frames in order and    *)
(* each frame from its first fragment to its last one.                     *)
(* One step of the controller may take several fragments: the driver is    *)
(* free to merge fragments of a frame into one buffer.                     *)
(***************************************************************************)
EXTENDS Naturals, Sequences

CONSTANT Frag    \* what a fragment carries

VARIABLES open,  \* the fragments of the frame that is not complete yet
          out,   \* the complete frames the controller has not finished
          wire   \* what it has sent of the frame at the head of out

vars == <<open, out, wire>>

Init == open = <<>> /\ out = <<>> /\ wire = <<>>

(* The driver hands over one more fragment. *)
Submit ==
    /\ \E f \in Frag : open' = Append(open, f)
    /\ UNCHANGED <<out, wire>>

(* The last fragment is in place: the frame is released as a whole. *)
Release ==
    /\ open # <<>>
    /\ out' = Append(out, open)
    /\ open' = <<>>
    /\ UNCHANGED wire

(* The controller sends the next k fragments of the frame at the head. *)
Transmit ==
    /\ out # <<>>
    /\ LET frame == Head(out)
       IN  \E k \in 1..Len(frame) :
              IF k = Len(frame)
              THEN /\ wire' = <<>>
                   /\ out' = Tail(out)
              ELSE /\ wire' = wire \o SubSeq(frame, 1, k)
                   /\ out' = <<SubSeq(frame, k + 1, Len(frame))>> \o Tail(out)
    /\ UNCHANGED open

Next == Submit \/ Release \/ Transmit

Spec == Init /\ [][Next]_vars

(* The controller never stops while a complete frame is queued. *)
FairSpec == Spec /\ WF_vars(Transmit)
=============================================================================
