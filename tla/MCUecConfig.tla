---------------------------- MODULE MCUecConfig -----------------------------
(* Two groups that share a bit of the filter; a full or half duplex link.  *)
EXTENDS UecConfig

MCHash == [g \in Group |-> 1]

MCLink == {{"TX_FD", "TX"}, {"TX"}}

MCFirstMode == [speed |-> 100, full |-> TRUE]
=============================================================================
