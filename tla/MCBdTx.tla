------------------------------- MODULE MCBdTx -------------------------------
(***************************************************************************)
(* The transmit ring for TLC.  The mbufs are interchangeable, but symmetry *)
(* is not sound for liveness: the run with liveness lets the allocator     *)
(* take the free mbuf with the smallest number instead, which uses an mbuf *)
(* again as soon as it is free.                                            *)
(***************************************************************************)
EXTENDS BdTxRefines, TLC

MbufSymmetry == Permutations(Mbuf)

SmallestFree == \A m \in live' \ live : \A k \in Mbuf : k < m => k \in live

LiveSpec ==
    /\ Init
    /\ [][Next /\ SmallestFree]_vars
    /\ WF_vars(Working /\ SmallestFree)
    /\ WF_vars(Close)
=============================================================================
