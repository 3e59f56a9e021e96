----------------------------- MODULE MCLoadElf ------------------------------
(***************************************************************************)
(* The ELF loader for TLC.  A header is of another type or describes a     *)
(* segment at one of the offsets Off, of no byte or of two; the segments   *)
(* of the first and the second header overlap in memory.  Tables of more   *)
(* than MaxSegments headers hold headers of another type only.             *)
(***************************************************************************)
EXTENDS LoadElf

CONSTANTS Off, Len1

Other == [load |-> FALSE, off |-> 0, addr |-> 0, size |-> 1]

HeaderAt(addr) == {Other} \union [load : {TRUE}, off : Off, addr : {addr}, size : {0, 2}]

Table ==
    {<<>>, [i \in 1..(MaxSegments + 1) |-> Other]}
    \union {<<p>> : p \in HeaderAt(0)}
    \union {<<p, q>> : p \in HeaderAt(0), q \in HeaderAt(1)}

MCFile ==
    [headers : Table, entsize : {PhSize, PhSize + 1}, offsetOK : {TRUE}, len : Len1]
    \union [headers : {<<>>}, entsize : {PhSize - 1, PhSize}, offsetOK : BOOLEAN, len : Len1]
=============================================================================
