------------------------------ MODULE MCBdWait ------------------------------
(***************************************************************************)
(* The wait for TLC, without the transmit error flag, which the handler    *)
(* treats as it does the other flag of the transmit task.                  *)
(***************************************************************************)
EXTENDS BdWait

LiveSpec ==
    Init /\ [][Next /\ "TXE" \notin due']_vars /\ Fairness
=============================================================================
