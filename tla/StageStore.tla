----------------------------- MODULE StageStore -----------------------------
(***************************************************************************)
(* What the stage 1 update and the boot loader promise together: once an   *)
(* update is complete, the board starts exactly the image of the update,   *)
(* however many updates were interrupted before it.  While no update is    *)
(* complete, nothing is promised about what is started.                    *)
(***************************************************************************)
CONSTANTS
    Image,  \* the boot images
    None,   \* nothing is stored, or nothing is running
    Other   \* something else is running, such as a mixture of images

VARIABLES
    stored,  \* the image of the complete update
    running  \* what the board has started

Init ==
    /\ stored = None
    /\ running = None

(* An update begins: what was stored is given up, a program runs on. *)
Begin ==
    /\ stored' = None
    /\ running' = None

Commit(i) ==
    /\ stored = None
    /\ stored' = i
    /\ UNCHANGED running

Boot ==
    /\ running = None
    /\ running' \in IF stored = None THEN Image \union {Other} ELSE {stored}
    /\ UNCHANGED stored

PowerOff ==
    /\ running' = None
    /\ UNCHANGED stored

Next == Begin \/ (\E i \in Image : Commit(i)) \/ Boot \/ PowerOff

Spec == Init /\ [][Next]_<<stored, running>>
=============================================================================
