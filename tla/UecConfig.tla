----------------------------- MODULE UecConfig ------------------------------
(***************************************************************************)
(* The configuration mode of the Ethernet controller: the watchdog that    *)
(* follows the link, and the ioctls of the old network stack that set the  *)
(* promiscuous mode and join and leave multicast groups                    *)
(* (src/quicc/quicc-uec-if.c) stop the controller, change it, and start it *)
(* again (src/quicc/quicc-uec.c).  The interface is up (module UecInit).   *)
(*                                                                         *)
(* The lock of the driver lets one of them run at a time, and keeps the    *)
(* two tasks of module BdWait away from the registers meanwhile.  The      *)
(* interrupt handler may come in between at any time; it shares the event  *)
(* register UCCE with the graceful stop of the transmitter.  There is one  *)
(* core; the controller moves between any two accesses.                    *)
(***************************************************************************)
EXTENDS Integers, FiniteSets

CONSTANTS
    Group,     \* multicast addresses
    Hash,      \* the bit of the group address filter a group is mapped to
    Link,      \* what the PHY may report: sets of the abilities below
    FirstMode  \* the mode quicc_uec_init has set

Ability == {"TX_FD", "T4", "TX", "10_FD"}

Mode == [speed : {10, 100}, full : BOOLEAN]

Command == {"none", "stop_rx", "stop_tx", "restart_rx", "restart_tx"}

(* The command that adds a group is known here by the group. *)
ASSUME ConfigAssumption ==
    /\ Group \intersect Command = {}
    /\ Link \subseteq SUBSET Ability
    /\ FirstMode \in Mode
    /\ DOMAIN Hash = Group

VARIABLES
    pc,       \* where the holder of the lock is, or "idle"
    call,     \* what it has been called for
    setting,  \* the values it is about to set: locals of the function
    todo,     \* the groups uec_if_add_multicast_filter has yet to add
    timer,    \* the watchdog timer runs
    link,     \* ANLPAR in the PHY
    anlpar,   \* the copy of the driver
    promisc,  \* self->promisc
    groups,   \* the groups the stack has joined
    mode,     \* MACCFG2 and UPSMR: speed and duplex
    pro,      \* UPSMR: promiscuous
    filter,   \* af_gaddr: the group address filter
    rx, tx,   \* the receiver and the transmitter
    enabled,  \* ENR and ENT of GUMR
    cecr,     \* the command the engine has not yet accepted
    ack,      \* RXGSTPACK: the receiver has stopped
    ucce,     \* the event register
    uccm,     \* its mask
    hpc,      \* where the interrupt handler is
    seen      \* the UCCE value it has read

driver == <<call, setting, todo, timer, anlpar, promisc, groups>>
settings == <<mode, pro, filter>>
machine == <<rx, tx, enabled, cecr, ack>>
handler == <<uccm, hpc, seen>>
vars == <<pc, driver, link, settings, machine, ucce, handler>>

Init ==
    /\ pc = "idle" /\ call = "none" /\ setting = {} /\ todo = {}
    /\ timer = TRUE
    /\ link \in Link
    /\ anlpar = {} /\ promisc = FALSE /\ groups = {}
    /\ mode = FirstMode /\ pro = FALSE /\ filter = {}
    /\ rx = "run" /\ tx = "run" /\ enabled = TRUE
    /\ cecr = "none" /\ ack = FALSE
    /\ ucce = {} /\ uccm = {}
    /\ hpc = "idle" /\ seen = {}
-----------------------------------------------------------------------------
(* A task runs only while the handler does not; it polls a command to its  *)
(* end before it goes on.                                                  *)
At(place) == pc = place /\ hpc = "idle" /\ cecr = "none"

(* The tests of uec_if_interface_watchdog. *)
Decode(abilities) ==
    IF "TX_FD" \in abilities THEN [speed |-> 100, full |-> TRUE]
    ELSE IF {"T4", "TX"} \intersect abilities # {} THEN [speed |-> 100, full |-> FALSE]
    ELSE [speed |-> 10, full |-> "10_FD" \in abilities]

(* MUTANT: the timer is set only when nothing has changed. *)
WatchdogOnce ==
    /\ At("idle")
    /\ timer
    /\ anlpar' = link
    /\ setting' = link
    /\ IF link # anlpar
       THEN pc' = "enter" /\ call' = "watchdog" /\ timer' = FALSE
       ELSE UNCHANGED <<pc, call, timer>>
    /\ UNCHANGED <<todo, promisc, groups, link, settings, machine, ucce, handler>>

(***************************************************************************)
(* The timer expires: a new ANLPAR starts the configuration.  The timer is *)
(* set at the end of the function, before the lock is released.            *)
(***************************************************************************)
Watchdog ==
    /\ At("idle")
    /\ timer
    /\ anlpar' = link
    /\ setting' = link
    /\ IF link # anlpar
       THEN pc' = "enter" /\ call' = "watchdog"
       ELSE UNCHANGED <<pc, call>>
    /\ UNCHANGED <<todo, timer, promisc, groups, link, settings, machine, ucce, handler>>

(* SIOCSIFFLAGS *)
SetFlags(enable) ==
    /\ At("idle")
    /\ enable # promisc
    /\ promisc' = enable
    /\ pc' = "enter"
    /\ call' = "promisc"
    /\ UNCHANGED <<setting, todo, timer, anlpar, groups, link, settings, machine, ucce, handler>>

(* SIOCADDMULTI and SIOCDELMULTI, when the stack says ENETRESET *)
MulticastControl(g) ==
    /\ At("idle")
    /\ groups' = IF g \in groups THEN groups \ {g} ELSE groups \union {g}
    /\ pc' = "enter"
    /\ call' = "multicast"
    /\ UNCHANGED <<setting, todo, timer, anlpar, promisc, link, settings, machine, ucce, handler>>
-----------------------------------------------------------------------------
(* quicc_uec_execute_command: it ends when the engine has accepted it. *)
Execute(command) == cecr' = command /\ UNCHANGED <<rx, tx, enabled, ack>>

(* quicc_uec_stop: RXGSTPACK is cleared, then the command is given. *)
StopRx ==
    /\ At("enter")
    /\ cecr' = "stop_rx"
    /\ ack' = FALSE
    /\ pc' = "rx"
    /\ UNCHANGED <<driver, link, settings, rx, tx, enabled, ucce, handler>>

PollRx ==
    /\ At("rx")
    /\ ack
    /\ pc' = "gra"
    /\ UNCHANGED <<driver, link, settings, machine, ucce, handler>>

(* MUTANT: GRA of the stop before is still set. *)
KeepGra ==
    /\ At("gra")
    /\ pc' = "stop"
    /\ UNCHANGED <<driver, link, settings, machine, ucce, handler>>

(* ucf_regs->ucce = GRA: writing a one clears the flag. *)
ClearGra ==
    /\ At("gra")
    /\ ucce' = ucce \ {"GRA"}
    /\ pc' = "stop"
    /\ UNCHANGED <<driver, link, settings, machine, handler>>

StopTx ==
    /\ At("stop")
    /\ Execute("stop_tx")
    /\ pc' = "tx"
    /\ UNCHANGED <<driver, link, settings, ucce, handler>>

PollTx ==
    /\ At("tx")
    /\ "GRA" \in ucce
    /\ pc' = "disable"
    /\ UNCHANGED <<driver, link, settings, machine, ucce, handler>>

(* quicc_ucf_disable *)
Disable ==
    /\ At("disable")
    /\ enabled' = FALSE
    /\ pc' = "set"
    /\ UNCHANGED <<driver, link, settings, rx, tx, cecr, ack, ucce, handler>>
-----------------------------------------------------------------------------
(* quicc_uec_set_interface_mode *)
SetMode ==
    /\ At("set") /\ call = "watchdog"
    /\ mode' = Decode(setting)
    /\ pc' = "leave"
    /\ UNCHANGED <<driver, link, pro, filter, machine, ucce, handler>>

(* quicc_uec_enable_promiscuous_mode *)
SetPromiscuous ==
    /\ At("set") /\ call = "promisc"
    /\ pro' = promisc
    /\ pc' = "leave"
    /\ UNCHANGED <<driver, link, mode, filter, machine, ucce, handler>>

(* MUTANT: the filter keeps the groups that have been left. *)
ResetNothing ==
    /\ At("set") /\ call = "multicast"
    /\ todo' = groups
    /\ pc' = "leave"
    /\ UNCHANGED <<call, setting, timer, anlpar, promisc, groups, link, settings, machine, ucce, handler>>

(* uec_if_reset_multicast_filter *)
ResetFilter ==
    /\ At("set") /\ call = "multicast"
    /\ filter' = {}
    /\ todo' = groups
    /\ pc' = "leave"
    /\ UNCHANGED <<call, setting, timer, anlpar, promisc, groups, link, mode, pro, machine, ucce, handler>>
-----------------------------------------------------------------------------
(* quicc_uec_start, quicc_ucf_enable *)
RestartRx ==
    /\ At("leave")
    /\ Execute("restart_rx")
    /\ pc' = "restart"
    /\ UNCHANGED <<driver, link, settings, ucce, handler>>

RestartTx ==
    /\ At("restart")
    /\ Execute("restart_tx")
    /\ pc' = "enable"
    /\ UNCHANGED <<driver, link, settings, ucce, handler>>

Enable ==
    /\ At("enable")
    /\ enabled' = TRUE
    /\ pc' = IF call = "multicast" THEN "add" ELSE "idle"
    /\ call' = IF call = "multicast" THEN call ELSE "none"
    /\ setting' = {}
    /\ UNCHANGED <<todo, timer, anlpar, promisc, groups, link, settings, rx, tx, cecr, ack,
                   ucce, handler>>

(* uec_if_add_multicast_filter: a command for each group *)
AddGroup(g) ==
    /\ At("add")
    /\ g \in todo
    /\ Execute(g)
    /\ todo' = todo \ {g}
    /\ UNCHANGED <<pc, call, setting, timer, anlpar, promisc, groups, link, settings, ucce, handler>>

AllAdded ==
    /\ At("add")
    /\ todo = {}
    /\ pc' = "idle"
    /\ call' = "none"
    /\ UNCHANGED <<setting, todo, timer, anlpar, promisc, groups, link, settings, machine, ucce, handler>>
-----------------------------------------------------------------------------
(***************************************************************************)
(* uec_if_bd_wait in the receive ("RXB0") or the transmit task ("TXB0"):   *)
(* it clears its flag and, when there is still no BD, enables its          *)
(* interrupt.  Module BdWait has its steps.                                *)
(***************************************************************************)
BdWait(flag, found) ==
    /\ At("idle")
    /\ ucce' = ucce \ {flag}
    /\ uccm' = IF found THEN uccm ELSE uccm \union {flag}
    /\ UNCHANGED <<pc, driver, link, settings, machine, hpc, seen>>

(* uec_if_interrupt_handler *)
Interrupt ==
    /\ hpc = "idle"
    /\ ucce \intersect uccm # {}
    /\ seen' = ucce
    /\ hpc' = "acknowledge"
    /\ UNCHANGED <<pc, driver, link, settings, machine, ucce, uccm>>

(* MUTANT: the handler acknowledges what it has not been asked for. *)
AcknowledgeAll ==
    /\ hpc = "acknowledge"
    /\ ucce' = ucce \ seen
    /\ hpc' = "mask"
    /\ UNCHANGED <<pc, driver, link, settings, machine, uccm, seen>>

Acknowledge ==
    /\ hpc = "acknowledge"
    /\ ucce' = ucce \ (seen \intersect uccm)
    /\ hpc' = "mask"
    /\ UNCHANGED <<pc, driver, link, settings, machine, uccm, seen>>

Mask ==
    /\ hpc = "mask"
    /\ uccm' = uccm \ seen
    /\ hpc' = "idle"
    /\ seen' = {}
    /\ UNCHANGED <<pc, driver, link, settings, machine, ucce>>
-----------------------------------------------------------------------------
(* The engine accepts a command. *)
Accept ==
    /\ cecr # "none"
    /\ cecr' = "none"
    /\ rx' = CASE cecr = "stop_rx" -> "stopping"
               [] cecr = "restart_rx" -> "run"
               [] OTHER -> rx
    /\ tx' = CASE cecr = "stop_tx" -> "stopping"
               [] cecr = "restart_tx" -> "run"
               [] OTHER -> tx
    /\ filter' = IF cecr \in Group THEN filter \union {Hash[cecr]} ELSE filter
    /\ UNCHANGED <<pc, driver, link, mode, pro, enabled, ack, ucce, handler>>

(* A graceful stop ends with the frame in progress. *)
RxStops ==
    /\ rx = "stopping"
    /\ rx' = "stopped"
    /\ ack' = TRUE
    /\ UNCHANGED <<pc, driver, link, settings, tx, enabled, cecr, ucce, handler>>

TxStops ==
    /\ tx = "stopping"
    /\ tx' = "stopped"
    /\ ucce' = ucce \union {"GRA"}
    /\ UNCHANGED <<pc, driver, link, settings, rx, enabled, cecr, ack, handler>>

(* A BD is closed. *)
Event(flag) ==
    /\ enabled
    /\ (IF flag = "RXB0" THEN rx ELSE tx) # "stopped"
    /\ ucce' = ucce \union {flag}
    /\ UNCHANGED <<pc, driver, link, settings, machine, handler>>

LinkChanges(l) ==
    /\ link' = l
    /\ UNCHANGED <<pc, driver, settings, machine, ucce, handler>>
-----------------------------------------------------------------------------
Body == \/ StopRx \/ PollRx \/ ClearGra \/ StopTx \/ PollTx \/ Disable
        \/ SetMode \/ SetPromiscuous \/ ResetFilter
        \/ RestartRx \/ RestartTx \/ Enable \/ AllAdded
        \/ \E g \in Group : AddGroup(g)

Handler == Interrupt \/ Acknowledge \/ Mask

Next ==
    \/ Watchdog \/ (\E b \in BOOLEAN : SetFlags(b)) \/ (\E g \in Group : MulticastControl(g))
    \/ Body
    \/ Handler
    \/ \E flag \in {"RXB0", "TXB0"} : Event(flag) \/ \E found \in BOOLEAN : BdWait(flag, found)
    \/ Accept \/ RxStops \/ TxStops
    \/ \E l \in Link : LinkChanges(l)

Spec == Init /\ [][Next]_vars

(***************************************************************************)
(* The holder of the lock and the handler run, the engine accepts commands *)
(* and stops when told to, and the watchdog gets the lock: it is handed    *)
(* over to who waits for it.  The driver does nothing for the handler to   *)
(* end: it has to, since it masks what it has seen.                        *)
(***************************************************************************)
FairSpec ==
    /\ Spec
    /\ WF_vars(Body) /\ WF_vars(Handler)
    /\ WF_vars(Accept) /\ WF_vars(RxStops) /\ WF_vars(TxStops)
    /\ SF_vars(Watchdog)
-----------------------------------------------------------------------------
(* Receiver and transmitter rest. *)
Stopped == rx = "stopped" /\ tx = "stopped" /\ ~enabled

(***************************************************************************)
(* The mode of the interface, the promiscuous flag and the filter memory   *)
(* change only while receiver and transmitter have stopped and are         *)
(* disabled, apart from the groups the engine itself adds on command.  It  *)
(* takes that neither acknowledge is one of an earlier stop.               *)
(***************************************************************************)
ConfigOnlyStopped ==
    [][/\ mode' # mode \/ pro' # pro => Stopped
       /\ filter' # filter => Stopped \/ \E g \in groups : cecr = g]_vars

(***************************************************************************)
(* Between two calls the controller runs with the settings asked for: the  *)
(* filter lets the joined groups through and no more than it has to, as    *)
(* groups that share a bit come and go.                                    *)
(***************************************************************************)
SettingsRight ==
    pc = "idle" =>
        /\ pro = promisc
        /\ filter = {Hash[g] : g \in groups}
        /\ enabled /\ rx = "run" /\ tx = "run"

(***************************************************************************)
(* The configuration mode is left again: the polls of quicc_uec_stop end,  *)
(* although the interrupt handler acknowledges events in the register they *)
(* look at.                                                                *)
(***************************************************************************)
ConfigLeft == pc # "idle" ~> pc = "idle"

(***************************************************************************)
(* The controller follows the link: when the PHY keeps reporting the same  *)
(* abilities, the mode comes to be the one for them, also when the link    *)
(* changes again while the watchdog is at work.                            *)
(***************************************************************************)
LinkFollowed ==
    \A l \in Link \ {{}} : link = l ~> (mode = Decode(l) \/ link # l)
=============================================================================
