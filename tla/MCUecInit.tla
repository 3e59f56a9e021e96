----------------------------- MODULE MCUecInit ------------------------------
(***************************************************************************)
(* The sizes of src/quicc/quicc-regs.h for one receive and one transmit    *)
(* thread, and those of the MPC8309.                                       *)
(***************************************************************************)
EXTENDS UecInit

MCSdma == [size |-> 2048, align |-> 4096, snum |-> FALSE, checked |-> TRUE]

Memory(size, align) == [size |-> size, align |-> align, snum |-> FALSE, checked |-> TRUE]

Thread(size, align, checked) ==
    [size |-> size, align |-> align, snum |-> TRUE, checked |-> checked]

MCRequest ==
    << Memory(520, 8), Memory(512, 8),       \* the virtual FIFOs
       Memory(256, 64),                      \* quicc_uec_rx_gparam
       Memory(40, 256),                      \* quicc_uec_rx_tds
       Memory(48, 8),                        \* the BD queue and the prefetched BDs
       Memory(192, 64),                      \* quicc_uec_tx_gparam
       Memory(64, 32),                       \* quicc_uec_tx_sqqd
       Memory(136, 128),                     \* quicc_uec_tx_tds
       Thread(96, 4, TRUE),                  \* quicc_uec_rx_tx_param
       Thread(128, 128, FALSE),              \* quicc_uec_rx_tparam
       Thread(64, 64, TRUE) >>               \* quicc_uec_tx_tparam

MCBytes[i \in 0..Len(MCRequest)] ==
    IF i = 0 THEN 0 ELSE MCBytes[i - 1] + MCRequest[i].size + MCRequest[i].align - 1

MCThreads[i \in 0..Len(MCRequest)] ==
    IF i = 0 THEN 0 ELSE MCThreads[i - 1] + IF MCRequest[i].snum THEN 1 ELSE 0
=============================================================================
