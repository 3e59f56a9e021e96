------------------------------- MODULE MCBdRx -------------------------------
(* The receive ring for TLC. *)
EXTENDS BdRx, TLC

MbufSymmetry == Permutations(Mbuf)
=============================================================================
