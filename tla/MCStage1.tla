------------------------------ MODULE MCStage1 ------------------------------
(***************************************************************************)
(* The stage 1 image for TLC: one image needs every block of the           *)
(* partition, the other one a page more than there is.                     *)
(***************************************************************************)
EXTENDS Stage1

MCSize == [i \in Image |-> IF i = "fits" THEN Pages - 2 ELSE Pages + 1]
=============================================================================
