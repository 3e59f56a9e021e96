-------------------------- MODULE UecConfigProofs ---------------------------
(***************************************************************************)
(* For any groups, filter bits and links: the controller is changed only   *)
(* while it rests, and it runs with the settings the stack has asked for.  *)
(***************************************************************************)
EXTENDS UecConfig, TLAPS

-----------------------------------------------------------------------------
Bits(S) == {Hash[g] : g \in S}

(* The group a command is adding. *)
Adding == {cecr} \ Command

Resting == {"set", "leave", "restart", "enable"}

CallInv ==
    /\ pc \in {"idle", "enter", "rx", "gra", "stop", "tx", "disable", "add"} \union Resting
    /\ call \in {"none", "watchdog", "promisc", "multicast"}
    /\ pc = "idle" <=> call = "none"
    /\ pc = "add" => call = "multicast"
    /\ groups \subseteq Group

(* Where a command may be under way. *)
CommandInv ==
    /\ cecr = "stop_rx" => pc = "rx"
    /\ cecr = "stop_tx" => pc = "tx"
    /\ cecr = "restart_rx" => pc = "restart"
    /\ cecr = "restart_tx" => pc = "enable"
    /\ cecr \notin Command => pc = "add" /\ cecr \in groups

RxInv ==
    /\ pc \in {"idle", "enter", "add", "enable"} => rx = "run"
    /\ pc = "rx" => \/ cecr = "stop_rx" /\ rx = "run" /\ ~ack
                    \/ cecr = "none" /\ rx = "stopping" /\ ~ack
                    \/ cecr = "none" /\ rx = "stopped"
    /\ pc \in {"gra", "stop", "tx", "disable", "set", "leave"} => rx = "stopped"
    /\ pc = "restart" => \/ cecr = "restart_rx" /\ rx = "stopped"
                         \/ cecr = "none" /\ rx = "run"

(* GRA is not set when the command is given, so it is its answer. *)
TxInv ==
    /\ pc \in {"idle", "enter", "rx", "gra", "stop", "add"} => tx = "run"
    /\ pc = "stop" => "GRA" \notin ucce
    /\ pc = "tx" => \/ cecr = "stop_tx" /\ tx = "run" /\ "GRA" \notin ucce
                    \/ cecr = "none" /\ tx = "stopping" /\ "GRA" \notin ucce
                    \/ cecr = "none" /\ tx = "stopped"
    /\ pc \in {"disable", "set", "leave", "restart"} => tx = "stopped"
    /\ pc = "enable" => \/ cecr = "restart_tx" /\ tx = "stopped"
                        \/ cecr = "none" /\ tx = "run"

(* What is still to be added completes the filter. *)
FilterInv ==
    /\ pc = "add" =>
         /\ todo \subseteq groups
         /\ filter \union Bits(todo) \union Bits(Adding) = Bits(groups)
    /\ pc \in {"leave", "restart", "enable"} /\ call = "multicast" =>
         todo = groups /\ filter = {}
    /\ call # "multicast" => filter = Bits(groups)

FlagInv ==
    /\ enabled <=> pc \notin Resting
    /\ call # "promisc" \/ pc \in {"leave", "restart", "enable"} => pro = promisc

ConfigInv == CallInv /\ CommandInv /\ RxInv /\ TxInv /\ FilterInv /\ FlagInv

-----------------------------------------------------------------------------
LEMMA InitInv == Init => ConfigInv
  BY ConfigAssumption DEF Init, ConfigInv, CallInv, CommandInv, RxInv, TxInv, FilterInv,
     FlagInv, Bits, Adding, Resting, Command

LEMMA NextInv == ConfigInv /\ [Next]_vars => ConfigInv'
<1> SUFFICES ASSUME ConfigInv, [Next]_vars PROVE ConfigInv'
  OBVIOUS
<1> USE ConfigAssumption DEF ConfigInv, CallInv, CommandInv, RxInv, TxInv, FilterInv,
        FlagInv, Bits, Adding, Resting, Command, At, Execute, driver, settings, machine, handler
<1>1. CASE Watchdog
  BY <1>1 DEF Watchdog
<1>2. ASSUME NEW b \in BOOLEAN, SetFlags(b) PROVE ConfigInv'
  BY <1>2 DEF SetFlags
<1>3. ASSUME NEW g \in Group, MulticastControl(g) PROVE ConfigInv'
  BY <1>3 DEF MulticastControl
<1>4. CASE StopRx
  BY <1>4 DEF StopRx
<1>5. CASE PollRx
  BY <1>5 DEF PollRx
<1>6. CASE ClearGra
  BY <1>6 DEF ClearGra
<1>7. CASE StopTx
  BY <1>7 DEF StopTx
<1>8. CASE PollTx
  BY <1>8 DEF PollTx
<1>9. CASE Disable
  BY <1>9 DEF Disable
<1>10. CASE SetMode
  BY <1>10 DEF SetMode
<1>11. CASE SetPromiscuous
  BY <1>11 DEF SetPromiscuous
<1>12. CASE ResetFilter
  BY <1>12 DEF ResetFilter
<1>13. CASE RestartRx
  BY <1>13 DEF RestartRx
<1>14. CASE RestartTx
  BY <1>14 DEF RestartTx
<1>15. CASE Enable
  BY <1>15 DEF Enable
<1>16. ASSUME NEW g \in Group, AddGroup(g) PROVE ConfigInv'
  BY <1>16 DEF AddGroup
<1>17. CASE AllAdded
  BY <1>17 DEF AllAdded
<1>18. ASSUME NEW flag \in {"RXB0", "TXB0"}, NEW found \in BOOLEAN, BdWait(flag, found)
         PROVE ConfigInv'
  BY <1>18 DEF BdWait
<1>19. CASE Interrupt
  BY <1>19 DEF Interrupt
<1>20. CASE Acknowledge
  BY <1>20 DEF Acknowledge
<1>21. CASE Mask
  BY <1>21 DEF Mask
<1>22. CASE Accept
  BY <1>22 DEF Accept
<1>23. CASE RxStops
  BY <1>23 DEF RxStops
<1>24. CASE TxStops
  BY <1>24 DEF TxStops
<1>25. ASSUME NEW flag \in {"RXB0", "TXB0"}, Event(flag) PROVE ConfigInv'
  BY <1>25 DEF Event
<1>26. ASSUME NEW l \in Link, LinkChanges(l) PROVE ConfigInv'
  BY <1>26 DEF LinkChanges
<1>27. CASE UNCHANGED vars
  BY <1>27 DEF vars
<1> QED
  BY <1>1, <1>2, <1>3, <1>4, <1>5, <1>6, <1>7, <1>8, <1>9, <1>10, <1>11, <1>12, <1>13,
     <1>14, <1>15, <1>16, <1>17, <1>18, <1>19, <1>20, <1>21, <1>22, <1>23, <1>24, <1>25,
     <1>26, <1>27 DEF Next, Body, Handler

-----------------------------------------------------------------------------
(* The invariant holds in every behaviour. *)
LEMMA InvAlways == Spec => []ConfigInv
  BY InitInv, NextInv, PTL DEF Spec

(***************************************************************************)
(* The settings are right between two calls, whatever groups share a bit   *)
(* of the filter: quicc_uec_restart and quicc_ucf_enable have been passed, *)
(* and uec_if_add_multicast_filter has added every group to the filter     *)
(* that uec_if_reset_multicast_filter has emptied.                         *)
(***************************************************************************)
THEOREM SettingsAlwaysRight == Spec => []SettingsRight
<1>1. ConfigInv => SettingsRight
  BY DEF ConfigInv, CallInv, CommandInv, RxInv, TxInv, FilterInv, FlagInv, SettingsRight,
     Bits, Resting
<1> QED
  BY <1>1, InvAlways, PTL

(***************************************************************************)
(* The interface mode, the promiscuous flag and the filter are changed     *)
(* only while the controller rests: quicc_uec_stop has seen the            *)
(* acknowledge of its own commands, of the receiver and of the transmitter.*)
(***************************************************************************)
THEOREM ConfigAlwaysStopped == Spec => ConfigOnlyStopped
<1> DEFINE Kept == mode' = mode /\ pro' = pro /\ filter' = filter
           Right == /\ mode' # mode \/ pro' # pro => Stopped
                    /\ filter' # filter => Stopped \/ \E g \in groups : cecr = g
<1>1. ASSUME ConfigInv, [Next]_vars PROVE Right
  <2>1. Kept => Right
    OBVIOUS
  <2>2. pc = "set" => Stopped
    BY <1>1 DEF ConfigInv, RxInv, TxInv, FlagInv, Resting, Stopped
  <2>3. CASE SetMode \/ SetPromiscuous \/ ResetFilter
    BY <2>2, <2>3 DEF SetMode, SetPromiscuous, ResetFilter, At
  <2>4. CASE Accept
    <3>1. mode' = mode /\ pro' = pro /\ (filter' # filter => cecr \in Group)
      BY <2>4 DEF Accept
    <3>2. cecr \in Group => cecr \in groups
      BY <1>1, ConfigAssumption DEF ConfigInv, CommandInv
    <3> QED
      BY <3>1, <3>2
  <2>5. CASE Watchdog \/ (\E b \in BOOLEAN : SetFlags(b)) \/ \E g \in Group : MulticastControl(g)
    BY <2>1, <2>5 DEF Watchdog, SetFlags, MulticastControl, settings
  <2>6. CASE StopRx \/ PollRx \/ ClearGra \/ StopTx \/ PollTx \/ Disable
    BY <2>1, <2>6 DEF StopRx, PollRx, ClearGra, StopTx, PollTx, Disable, settings
  <2>7. CASE RestartRx \/ RestartTx \/ Enable \/ AllAdded \/ \E g \in Group : AddGroup(g)
    BY <2>1, <2>7 DEF RestartRx, RestartTx, Enable, AllAdded, AddGroup, settings
  <2>8. CASE Handler \/ RxStops \/ TxStops \/ (\E l \in Link : LinkChanges(l))
    BY <2>1, <2>8 DEF Handler, Interrupt, Acknowledge, Mask, RxStops, TxStops, LinkChanges,
       settings
  <2>9. CASE \E flag \in {"RXB0", "TXB0"} :
               Event(flag) \/ \E found \in BOOLEAN : BdWait(flag, found)
    BY <2>1, <2>9 DEF Event, BdWait, settings
  <2>10. CASE UNCHANGED vars
    BY <2>1, <2>10 DEF vars, settings
  <2> QED
    BY <1>1, <2>3, <2>4, <2>5, <2>6, <2>7, <2>8, <2>9, <2>10 DEF Next, Body
<1>2. ConfigInv /\ [Next]_vars => [Right]_vars
  BY <1>1
<1>3. Spec => [][Right]_vars
  BY <1>2, InvAlways, PTL DEF Spec
<1> QED
  BY <1>3 DEF ConfigOnlyStopped
=============================================================================
