--------------------------- MODULE HostNetProofs ----------------------------
(***************************************************************************)
(* Theorems about the shared host network state, for any number of         *)
(* containers, tables and uplinks.                                         *)
(***************************************************************************)
EXTENDS HostNet, TLAPS

(* Where a container that may still have an interface is. *)
Linked == {"policy", "up", "join", "link", "gaveup"}

(* Where a container still answers for the policy rules it can see; one    *)
(* whose cleanup had no netlink socket does so until its next one.         *)
Answering == {"filter", "veth", "policy", "up", "join", "link", "count", "unpolicy", "gaveup"}

(* A container's interface and its monitor's thread end before its         *)
(* cleanup counts the interfaces; a monitor that yields holds up its stop. *)
EndsInOrder ==
  /\ \A c \in veth : pc[c] \in Linked
  /\ \A c \in yielding : pc[c] = "link"
  /\ \A c \in Cont : rt[c] # "none" =>
       pc[c] \in {"filter", "veth", "policy", "up", "join"} \/ c \in yielding

(* Somebody who will remove the rules, or has them to keep, is there. *)
RulesAnswered ==
  /\ policy => \E c \in Cont : pc[c] \in Answering
  /\ filter => \E c \in Cont : pc[c] \in Answering \cup {"unfilter"}

(* When containers do not come and go at the same time, the rules are      *)
(* there from the first step of a set-up on, and are only removed when     *)
(* nobody is set up or attached.                                           *)
TakesTurns ==
  ~rough =>
    /\ \A c \in veth : pc[c] \in Linked
    /\ \A c, d \in Cont : CleaningUp(c) => ~SettingUp(d)
    /\ \A c, d \in Cont : pc[c] \in {"unpolicy", "unfilter"} => ~Attached(d)
    /\ \A d \in Cont : pc[d] \in {"veth", "policy"} \/ Attached(d) => filter

-----------------------------------------------------------------------------
(* Type correctness of the shared network state: no step of set-up, thread *)
(* or cleanup leaves the types, and no FROM rule names table 0.            *)
THEOREM NetTypeCorrect == Spec => []TypeOK
<1>1. Init => TypeOK
  BY HostNetAssumption DEF Init, TypeOK, Tables
<1>2. TypeOK /\ [Next]_vars => TypeOK'
  <2> SUFFICES ASSUME TypeOK, [Next]_vars PROVE TypeOK'
    OBVIOUS
  <2> USE HostNetAssumption DEF TypeOK, Step, Turn, kernelVars, hostVars, monVars, Tables
  <2>u. \A c \in Cont : find_active_uplink(c) \in Tables
    BY DEF find_active_uplink, resolve_pinned_uplink, DefaultNet
  <2>1. CASE UNCHANGED vars
    BY <2>1 DEF vars
  <2>2. ASSUME NEW c \in Cont, Boot(c) PROVE TypeOK'
    BY <2>2 DEF Boot
  <2>3. ASSUME NEW c \in Cont, Setup(c) PROVE TypeOK'
    <3>1. CASE SetupFilter(c)
      BY <3>1 DEF SetupFilter, install_netfilter_rules
    <3>2. CASE SetupVeth(c)
      BY <3>2 DEF SetupVeth
    <3>3. CASE SetupPolicy(c)
      BY <3>3, <2>u DEF SetupPolicy, StartRouteMonitor, install_policy_rules
    <3>q. QED BY <2>3, <3>1, <3>2, <3>3 DEF Setup
  <2>4. ASSUME NEW c \in Cont, Reboot(c) PROVE TypeOK'
    BY <2>4 DEF Reboot
  <2>5. ASSUME NEW c \in Cont, InitDies(c) PROVE TypeOK'
    BY <2>5 DEF InitDies
  <2>6. ASSUME NEW c \in Cont, Thread(c) PROVE TypeOK'
    <3>0. CASE Wake(c)
      BY <3>0 DEF Wake
    <3>1. CASE ReprobePolicy(c)
      BY <3>1 DEF ReprobePolicy, install_policy_rules
    <3>2. CASE ReprobeFilter(c)
      BY <3>2 DEF ReprobeFilter, install_netfilter_rules
    <3>3. CASE ReprobeUplink(c)
      BY <3>3, <2>u DEF ReprobeUplink
    <3>4. CASE AddUplink(c)
      BY <3>4 DEF AddUplink
    <3>5. CASE AddFails(c)
      BY <3>5 DEF AddFails
    <3>q. QED BY <2>6, <3>0, <3>1, <3>2, <3>3, <3>4, <3>5 DEF Thread
  <2>7. ASSUME NEW c \in Cont, ThreadFails(c) PROVE TypeOK'
    BY <2>7 DEF ThreadFails
  <2>8. ASSUME NEW c \in Cont, Cleanup(c) PROVE TypeOK'
    <3>1. CASE MonitorExits(c)
      BY <3>1 DEF MonitorExits
    <3>2. CASE StopRouteMonitor(c)
      BY <3>2 DEF StopRouteMonitor
    <3>3. CASE DeleteLink(c)
      BY <3>3 DEF DeleteLink
    <3>4. CASE Surviving(c)
      BY <3>4 DEF Surviving
    <3>5. CASE RemovePolicy(c)
      BY <3>5 DEF RemovePolicy
    <3>6. CASE RemoveFilter(c)
      BY <3>6 DEF RemoveFilter
    <3>7. CASE GiveUp(c)
      BY <3>7 DEF GiveUp
    <3>8. CASE Reap(c)
      BY <3>8 DEF Reap
    <3>q. QED BY <2>8, <3>1, <3>2, <3>3, <3>4, <3>5, <3>6, <3>7, <3>8 DEF Cleanup
  <2>9. CASE NetdFlush
    BY <2>9 DEF NetdFlush
  <2>10. CASE Handoff
    BY <2>10 DEF Handoff
  <2>q. QED
    BY <2>1, <2>2, <2>3, <2>4, <2>5, <2>6, <2>7, <2>8, <2>9, <2>10 DEF Next
<1>q. QED
  BY <1>1, <1>2, PTL DEF Spec

-----------------------------------------------------------------------------
(* When a monitor that yields its cleanup exits before the stop command    *)
(* reaches the network, the last container takes every interface and rule  *)
(* with it (ds_net_cleanup), for any number of containers that come, go    *)
(* and reboot at the same time, whatever their threads were doing.         *)
THEOREM NothingLeftOver == ASSUME Prompt PROVE Spec => []NoLeftover
<1> DEFINE Inv == EndsInOrder /\ RulesAnswered
<1>1. Init => Inv
  BY DEF Init, EndsInOrder, RulesAnswered
<1>2. TypeOK /\ Inv /\ [Next]_vars => Inv'
  <2> SUFFICES ASSUME TypeOK, EndsInOrder, RulesAnswered, [Next]_vars
               PROVE  EndsInOrder' /\ RulesAnswered'
    OBVIOUS
  <2> USE DEF TypeOK, Step, Turn, kernelVars, hostVars, monVars,
              EndsInOrder, RulesAnswered, Linked, Answering
  <2>1. CASE UNCHANGED vars
    BY <2>1 DEF vars
  <2>2. ASSUME NEW c \in Cont, Boot(c) PROVE EndsInOrder' /\ RulesAnswered'
    BY <2>2 DEF Boot
  <2>3. ASSUME NEW c \in Cont, Setup(c) PROVE EndsInOrder' /\ RulesAnswered'
    <3>1. CASE SetupFilter(c)
      BY <3>1 DEF SetupFilter, install_netfilter_rules
    <3>2. CASE SetupVeth(c)
      BY <3>2 DEF SetupVeth
    <3>3. CASE SetupPolicy(c)
      BY <3>3 DEF SetupPolicy, StartRouteMonitor, install_policy_rules
    <3>q. QED BY <2>3, <3>1, <3>2, <3>3 DEF Setup
  <2>4. ASSUME NEW c \in Cont, Reboot(c) PROVE EndsInOrder' /\ RulesAnswered'
    BY <2>4 DEF Reboot
  <2>5. ASSUME NEW c \in Cont, InitDies(c) PROVE EndsInOrder' /\ RulesAnswered'
    BY <2>5 DEF InitDies
  <2>6. ASSUME NEW c \in Cont, Thread(c) PROVE EndsInOrder' /\ RulesAnswered'
    <3>0. CASE Wake(c)
      BY <3>0 DEF Wake
    <3>1. CASE ReprobePolicy(c)
      BY <3>1 DEF ReprobePolicy, install_policy_rules
    <3>2. CASE ReprobeFilter(c)
      BY <3>2 DEF ReprobeFilter, install_netfilter_rules
    <3>3. CASE ReprobeUplink(c)
      BY <3>3 DEF ReprobeUplink
    <3>4. CASE AddUplink(c)
      BY <3>4 DEF AddUplink
    <3>5. CASE AddFails(c)
      BY <3>5 DEF AddFails
    <3>q. QED BY <2>6, <3>0, <3>1, <3>2, <3>3, <3>4, <3>5 DEF Thread
  <2>7. ASSUME NEW c \in Cont, ThreadFails(c) PROVE EndsInOrder' /\ RulesAnswered'
    BY <2>7 DEF ThreadFails
  <2>8. ASSUME NEW c \in Cont, Cleanup(c) PROVE EndsInOrder' /\ RulesAnswered'
    <3>1. CASE MonitorExits(c)
      BY <3>1 DEF MonitorExits
    <3>2. CASE StopRouteMonitor(c)
      BY <3>2 DEF StopRouteMonitor
    <3>3. CASE DeleteLink(c)
      BY <3>3, Prompt DEF DeleteLink
    <3>4. CASE Surviving(c)
      <4>1. CASE veth = {}
        BY <3>4, <4>1 DEF Surviving
      <4>2. CASE veth # {}
        <5>1. PICK d \in veth : pc[d] \in Linked
          BY <4>2
        <5>2. d \in Cont /\ d # c /\ pc'[d] \in Answering
          BY <3>4, <5>1 DEF Surviving
        <5>q. QED BY <3>4, <5>2 DEF Surviving
      <4>q. QED BY <4>1, <4>2
    <3>5. CASE RemovePolicy(c)
      BY <3>5 DEF RemovePolicy
    <3>6. CASE RemoveFilter(c)
      BY <3>6 DEF RemoveFilter
    <3>7. CASE GiveUp(c)
      BY <3>7 DEF GiveUp
    <3>8. CASE Reap(c)
      BY <3>8 DEF Reap
    <3>q. QED BY <2>8, <3>1, <3>2, <3>3, <3>4, <3>5, <3>6, <3>7, <3>8 DEF Cleanup
  <2>9. CASE NetdFlush
    BY <2>9 DEF NetdFlush
  <2>10. CASE Handoff
    BY <2>10 DEF Handoff
  <2>q. QED
    BY <2>1, <2>2, <2>3, <2>4, <2>5, <2>6, <2>7, <2>8, <2>9, <2>10 DEF Next
<1>3. TypeOK /\ Inv => NoLeftover
  BY DEF TypeOK, EndsInOrder, RulesAnswered, Linked, Answering, NoLeftover
<1>q. QED
  BY <1>1, <1>2, <1>3, NetTypeCorrect, PTL DEF Spec

-----------------------------------------------------------------------------
(* When containers do not come and go at the same time, no cleanup ever    *)
(* takes the netfilter rules away from a container that is attached        *)
(* (ds_net_cleanup's count of the ds-v* interfaces), for any number of     *)
(* containers.                                                             *)
THEOREM SharedRulesKept == Spec => []SharedKept
<1>1. Init => TakesTurns
  BY DEF Init, TakesTurns, CleaningUp, SettingUp, Attached, Linked
<1>2. TypeOK /\ TakesTurns /\ [Next]_vars => TakesTurns'
  <2> SUFFICES ASSUME TypeOK, TakesTurns, [Next]_vars PROVE TakesTurns'
    OBVIOUS
  <2> USE DEF TypeOK, Step, Turn, kernelVars, hostVars, monVars,
              TakesTurns, CleaningUp, SettingUp, Attached, Linked
  <2>1. CASE UNCHANGED vars
    BY <2>1 DEF vars
  <2>2. ASSUME NEW c \in Cont, Boot(c) PROVE TakesTurns'
    BY <2>2 DEF Boot
  <2>3. ASSUME NEW c \in Cont, Setup(c) PROVE TakesTurns'
    <3>1. CASE SetupFilter(c)
      BY <3>1 DEF SetupFilter, install_netfilter_rules
    <3>2. CASE SetupVeth(c)
      BY <3>2 DEF SetupVeth
    <3>3. CASE SetupPolicy(c)
      BY <3>3 DEF SetupPolicy, StartRouteMonitor
    <3>q. QED BY <2>3, <3>1, <3>2, <3>3 DEF Setup
  <2>4. ASSUME NEW c \in Cont, Reboot(c) PROVE TakesTurns'
    BY <2>4 DEF Reboot
  <2>5. ASSUME NEW c \in Cont, InitDies(c) PROVE TakesTurns'
    BY <2>5 DEF InitDies
  <2>6. ASSUME NEW c \in Cont, Thread(c) PROVE TakesTurns'
    <3>0. CASE Wake(c)
      BY <3>0 DEF Wake
    <3>1. CASE ReprobePolicy(c)
      BY <3>1 DEF ReprobePolicy
    <3>2. CASE ReprobeFilter(c)
      BY <3>2 DEF ReprobeFilter, install_netfilter_rules
    <3>3. CASE ReprobeUplink(c)
      BY <3>3 DEF ReprobeUplink
    <3>4. CASE AddUplink(c)
      BY <3>4 DEF AddUplink
    <3>5. CASE AddFails(c)
      BY <3>5 DEF AddFails
    <3>q. QED BY <2>6, <3>0, <3>1, <3>2, <3>3, <3>4, <3>5 DEF Thread
  <2>7. ASSUME NEW c \in Cont, ThreadFails(c) PROVE TakesTurns'
    BY <2>7 DEF ThreadFails
  <2>8. ASSUME NEW c \in Cont, Cleanup(c) PROVE TakesTurns'
    <3>1. CASE MonitorExits(c)
      BY <3>1 DEF MonitorExits
    <3>2. CASE StopRouteMonitor(c)
      BY <3>2 DEF StopRouteMonitor
    <3>3. CASE DeleteLink(c)
      BY <3>3 DEF DeleteLink
    <3>4. CASE Surviving(c)
      BY <3>4 DEF Surviving
    <3>5. CASE RemovePolicy(c)
      BY <3>5 DEF RemovePolicy
    <3>6. CASE RemoveFilter(c)
      BY <3>6 DEF RemoveFilter
    <3>7. CASE GiveUp(c)
      BY <3>7 DEF GiveUp
    <3>8. CASE Reap(c)
      BY <3>8 DEF Reap
    <3>q. QED BY <2>8, <3>1, <3>2, <3>3, <3>4, <3>5, <3>6, <3>7, <3>8 DEF Cleanup
  <2>9. CASE NetdFlush
    BY <2>9 DEF NetdFlush
  <2>10. CASE Handoff
    BY <2>10 DEF Handoff
  <2>q. QED
    BY <2>1, <2>2, <2>3, <2>4, <2>5, <2>6, <2>7, <2>8, <2>9, <2>10 DEF Next
<1>3. TakesTurns => SharedKept
  BY DEF TakesTurns, SharedKept
<1>q. QED
  BY <1>1, <1>2, <1>3, NetTypeCorrect, PTL DEF Spec
=============================================================================
