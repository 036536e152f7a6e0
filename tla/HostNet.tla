------------------------------ MODULE HostNet -------------------------------
(***************************************************************************)
(* The host-side network state that all NAT containers of an Android host  *)
(* share, net/network.c: the netfilter rules, the policy rules of the      *)
(* container subnet, and the rule that sends the subnet's traffic to the   *)
(* routing table of the uplink.                                            *)
(*                                                                         *)
(* Every container has its own monitor process.  It installs the state     *)
(* when the container boots, keeps a route monitor thread that puts back   *)
(* what netd flushes and follows the uplink, and takes the state away when *)
(* its container was the last one.  The monitors only meet in the kernel's *)
(* tables: nothing makes one wait for another.                             *)
(***************************************************************************)
EXTENDS FiniteSets

CONSTANTS Cont,       \* the NAT containers, and their monitors
          Table,      \* routing tables of the uplinks
          NoTable,    \* table 0
          Pinned,     \* containers started with --upstream
          PinTable,   \* what they are pinned to
          Links,      \* the sets of uplinks that can be up together
          Readable,   \* the kernel's netfilter tables can be read
          Prompt      \* a monitor that yields exits before the stop gets here

ASSUME HostNetAssumption ==
  /\ NoTable \notin Table /\ Pinned \subseteq Cont /\ PinTable \in Table
  /\ Links \subseteq SUBSET Table /\ Readable \in BOOLEAN /\ Prompt \in BOOLEAN

VARIABLES
  pc,         \* where the monitor of each container is
  rt,         \* where its route monitor thread is
  gw,         \* its g_current_gw_table
  wanted,     \* its new_table: the uplink it is about to switch to
  yielding,   \* monitors that leave the cleanup to a stop and exit
  veth,       \* containers whose ds-v* interface exists
  policy,     \* the uplink-independent policy rules are installed
  from,       \* the tables of the installed FROM rules
  filter,     \* the netfilter rules are installed
  live,       \* the tables of the uplinks that are up
  rough       \* containers come and go at the same time, and netd may restart

kernelVars == <<veth, policy, from, filter>>
hostVars == <<live, rough>>
monVars == <<rt, gw, wanted, yielding>>
vars == <<pc, monVars, kernelVars, hostVars>>

Tables == Table \cup {NoTable}

(* Every variable stays within its type; for one, no FROM rule ever names  *)
(* table 0.                                                                *)
TypeOK ==
  /\ pc \in [Cont -> {"off", "filter", "veth", "policy", "up",
                      "join", "link", "count", "unpolicy", "unfilter", "gaveup"}]
  /\ rt \in [Cont -> {"none", "idle", "policy", "filter", "uplink", "add"}]
  /\ gw \in [Cont -> Tables] /\ wanted \in [Cont -> Tables]
  /\ \A c \in Cont : rt[c] = "add" => wanted[c] # NoTable
  /\ yielding \subseteq Cont
  /\ veth \subseteq Cont /\ policy \in BOOLEAN /\ filter \in BOOLEAN
  /\ from \subseteq Table /\ live \subseteq Table /\ rough \in BOOLEAN

Init ==
  /\ pc = [c \in Cont |-> "off"] /\ rt = [c \in Cont |-> "none"]
  /\ gw = [c \in Cont |-> NoTable] /\ wanted = [c \in Cont |-> NoTable]
  /\ yielding = {}
  /\ veth = {} /\ policy = FALSE /\ from = {} /\ filter = FALSE
  /\ live \in Links /\ rough \in BOOLEAN

Step(c, s) == pc' = [pc EXCEPT ![c] = s]
Turn(c, s) == rt' = [rt EXCEPT ![c] = s]

(* The default network of netd: one of the uplinks that are up. *)
DefaultNet == IF live = {} THEN NoTable ELSE CHOOSE t \in live : TRUE

(* The first listed interface that is up; the model's list has one entry. *)
resolve_pinned_uplink == IF PinTable \in live THEN PinTable ELSE NoTable

find_active_uplink(c) == IF c \in Pinned THEN resolve_pinned_uplink ELSE DefaultNet

install_policy_rules_NoCheck(table) ==
  policy' = TRUE /\ from' = from \cup {table}

(* EEXIST counts as success, so that installing twice changes nothing. *)
install_policy_rules(table) ==
  /\ policy' = TRUE
  /\ from' = from \cup ({table} \ {NoTable})

install_netfilter_rules == filter' = TRUE

(* ds_ipt_host_rules_present answers 0; what it cannot read is not missing. *)
host_rules_missing == Readable /\ ~filter

-----------------------------------------------------------------------------
(***************************************************************************)
(* setup_veth_host_side, called once per boot cycle, and the start of the  *)
(* route monitor.                                                          *)
(***************************************************************************)
SettingUp(c) == pc[c] \in {"filter", "veth", "policy"}
CleaningUp(c) == pc[c] \in {"join", "link", "count", "unpolicy", "unfilter"}

(* A fresh monitor boots a container.  By then the kernel has reaped the   *)
(* interface that a cleanup without a netlink socket has left.             *)
Boot(c) ==
  /\ pc[c] \in {"off", "gaveup"} /\ c \notin yielding \cup veth /\ Step(c, "filter")
  /\ rough \/ \A d \in Cont : ~CleaningUp(d)
  /\ UNCHANGED <<monVars, kernelVars, hostVars>>

(* Without a netlink socket the container gets no network at all. *)
SetupFilter(c) ==
  /\ pc[c] = "filter"
  /\ \/ Step(c, "veth") /\ install_netfilter_rules
     \/ Step(c, "up") /\ UNCHANGED filter
  /\ UNCHANGED <<monVars, veth, policy, from, hostVars>>

(* The veth pair is created and its peer moved; without it the container   *)
(* runs on with no network and no route monitor.                           *)
SetupVeth(c) ==
  /\ pc[c] = "veth"
  /\ \/ Step(c, "policy") /\ veth' = veth \cup {c}
     \/ Step(c, "up") /\ UNCHANGED veth
     \/ Step(c, "up") /\ veth' = veth \cup {c}
  /\ UNCHANGED <<monVars, policy, from, filter, hostVars>>

(* A thread that lives on from an earlier boot cycle stays; a new one may  *)
(* fail to start.                                                          *)
StartRouteMonitor(c) == (rt[c] = "none" /\ Turn(c, "idle")) \/ UNCHANGED rt

(* ds_net_setup_android_routing with the uplink there is now, if any, then *)
(* the start of the thread.                                                *)
SetupPolicy(c) ==
  /\ pc[c] = "policy" /\ Step(c, "up")
  /\ gw' = [gw EXCEPT ![c] = IF find_active_uplink(c) = NoTable THEN @
                             ELSE find_active_uplink(c)]
  /\ install_policy_rules(gw'[c])
  /\ StartRouteMonitor(c)
  /\ UNCHANGED <<wanted, yielding, veth, filter, hostVars>>

(* The container reboots itself: its old namespace takes the veth along.   *)
Reboot(c) ==
  /\ pc[c] = "up" /\ Step(c, "filter")
  /\ rough \/ \A d \in Cont : ~CleaningUp(d)
  /\ veth' = veth \ {c}
  /\ UNCHANGED <<monVars, policy, from, filter, hostVars>>

-----------------------------------------------------------------------------
(***************************************************************************)
(* do_uplink_reprobe, run by the route monitor thread on every heartbeat   *)
(* and for every event.                                                    *)
(***************************************************************************)

(* A heartbeat or the end of a burst of events; g_stop_monitor is not      *)
(* looked at again before the probe is over.  A probe that gets no netlink *)
(* socket does nothing at all.                                             *)
Wake(c) ==
  /\ rt[c] = "idle" /\ pc[c] # "join" /\ Turn(c, "policy")
  /\ UNCHANGED <<pc, gw, wanted, yielding, kernelVars, hostVars>>

ReprobePolicy(c) ==
  /\ rt[c] = "policy" /\ Turn(c, "filter")
  /\ install_policy_rules(gw[c])
  /\ UNCHANGED <<pc, gw, wanted, yielding, veth, filter, hostVars>>

ReprobeFilter_Trusts(c) ==
  /\ rt[c] = "filter" /\ Turn(c, "uplink")
  /\ UNCHANGED <<pc, gw, wanted, yielding, kernelVars, hostVars>>

ReprobeFilter(c) ==
  /\ rt[c] = "filter" /\ Turn(c, "uplink")
  /\ IF host_rules_missing THEN install_netfilter_rules ELSE UNCHANGED filter
  /\ UNCHANGED <<pc, gw, wanted, yielding, veth, policy, from, hostVars>>

(* Without an uplink a pinned container gives up its FROM rule and an      *)
(* unpinned one keeps it; for a new uplink the rule of the old one goes    *)
(* first.                                                                  *)
ReprobeUplink(c) ==
  LET t == find_active_uplink(c) IN
  /\ rt[c] = "uplink"
  /\ \/ /\ t = NoTable /\ c \in Pinned /\ Turn(c, "idle")
        /\ from' = from \ {gw[c]} /\ gw' = [gw EXCEPT ![c] = NoTable] /\ UNCHANGED wanted
     \/ /\ t = gw[c] \/ (t = NoTable /\ c \notin Pinned)
        /\ Turn(c, "idle") /\ UNCHANGED <<from, gw, wanted>>
     \/ /\ t # NoTable /\ t # gw[c] /\ Turn(c, "add")
        /\ from' = from \ {gw[c]} /\ wanted' = [wanted EXCEPT ![c] = t] /\ UNCHANGED gw
  /\ UNCHANGED <<pc, yielding, veth, policy, filter, hostVars>>

(* The rule of the new uplink is added, and only then remembered. *)
AddUplink(c) ==
  /\ rt[c] = "add" /\ Turn(c, "idle")
  /\ from' = from \cup {wanted[c]} /\ gw' = [gw EXCEPT ![c] = wanted[c]]
  /\ wanted' = [wanted EXCEPT ![c] = NoTable]
  /\ UNCHANGED <<pc, yielding, veth, policy, filter, hostVars>>

(* The kernel does not take it: the thread still goes by the old uplink,   *)
(* whose rule it has deleted.                                              *)
AddFails(c) ==
  /\ rt[c] = "add" /\ Turn(c, "idle")
  /\ wanted' = [wanted EXCEPT ![c] = NoTable]
  /\ UNCHANGED <<pc, gw, yielding, kernelVars, hostVars>>

(* A fatal error of poll or recv ends the thread. *)
ThreadFails(c) ==
  /\ rt[c] = "idle" /\ Turn(c, "none")
  /\ UNCHANGED <<pc, gw, wanted, yielding, kernelVars, hostVars>>

-----------------------------------------------------------------------------
(***************************************************************************)
(* ds_net_cleanup, when the container is gone: the monitor calls it, or    *)
(* the stop command that holds the lock, and then the monitor just exits.  *)
(* ds_net_stop_route_monitor works on the calling process only, so that a  *)
(* stop does not wait for the monitor's thread.                            *)
(***************************************************************************)
InitDies(c) ==
  /\ pc[c] = "up"
  /\ \/ Step(c, "join") /\ UNCHANGED yielding
     \/ Step(c, "link") /\ yielding' = yielding \cup {c}
  /\ rough \/ \A d \in Cont : ~SettingUp(d)
  /\ veth' \in {veth, veth \ {c}}
  /\ UNCHANGED <<rt, gw, wanted, policy, from, filter, hostVars>>

(* The end of the monitor is the end of its thread. *)
MonitorExits(c) ==
  /\ c \in yielding /\ yielding' = yielding \ {c}
  /\ Turn(c, "none") /\ gw' = [gw EXCEPT ![c] = NoTable]
  /\ wanted' = [wanted EXCEPT ![c] = NoTable]
  /\ UNCHANGED <<pc, kernelVars, hostVars>>

StopRouteMonitor_NoJoin(c) ==
  /\ pc[c] = "join" /\ Step(c, "link")
  /\ UNCHANGED <<monVars, kernelVars, hostVars>>

(* ds_net_stop_route_monitor returns when the thread has ended; the table  *)
(* is not used any more.                                                   *)
StopRouteMonitor(c) ==
  /\ pc[c] = "join" /\ rt[c] \in {"idle", "none"}
  /\ Step(c, "link") /\ Turn(c, "none") /\ gw' = [gw EXCEPT ![c] = NoTable]
  /\ UNCHANGED <<wanted, yielding, kernelVars, hostVars>>

(* Without a netlink socket the cleanup is over: all there is stays. *)
GiveUp(c) ==
  /\ pc[c] = "link" /\ (Prompt => c \notin yielding) /\ Step(c, "gaveup")
  /\ UNCHANGED <<monVars, kernelVars, hostVars>>

(* The kernel reaps an interface whose peer died with its namespace. *)
Reap(c) ==
  /\ pc[c] = "gaveup" /\ veth' = veth \ {c}
  /\ UNCHANGED <<pc, monVars, policy, from, filter, hostVars>>

DeleteLink(c) ==
  /\ pc[c] = "link" /\ (Prompt => c \notin yielding)
  /\ Step(c, "count") /\ veth' = veth \ {c}
  /\ UNCHANGED <<monVars, policy, from, filter, hostVars>>

Surviving_Ignored(c) ==
  /\ pc[c] = "count" /\ Step(c, "unpolicy")
  /\ UNCHANGED <<monVars, kernelVars, hostVars>>

(* Other interfaces of the kind remain: keep what is shared. *)
Surviving(c) ==
  /\ pc[c] = "count"
  /\ Step(c, IF veth # {} THEN "off" ELSE "unpolicy")
  /\ UNCHANGED <<monVars, kernelVars, hostVars>>

(* One RTM_DELRULE per priority and direction, without a table: it takes   *)
(* one FROM rule.                                                          *)
RemovePolicy(c) ==
  /\ pc[c] = "unpolicy" /\ Step(c, "unfilter")
  /\ policy' = FALSE
  /\ IF from = {} THEN UNCHANGED from ELSE \E t \in from : from' = from \ {t}
  /\ UNCHANGED <<monVars, veth, filter, hostVars>>

RemoveFilter(c) ==
  /\ pc[c] = "unfilter" /\ Step(c, "off")
  /\ filter' = FALSE
  /\ UNCHANGED <<monVars, veth, policy, from, hostVars>>

-----------------------------------------------------------------------------
(***************************************************************************)
(* The host: netd restarts and flushes the tables, the uplink changes.     *)
(***************************************************************************)
NetdFlush ==
  /\ rough
  /\ policy' = FALSE /\ from' = {} /\ filter' = FALSE
  /\ UNCHANGED <<pc, monVars, veth, hostVars>>

Handoff ==
  /\ live' \in Links \ {live}
  /\ UNCHANGED <<pc, monVars, kernelVars, rough>>

-----------------------------------------------------------------------------
Setup(c) == SetupFilter(c) \/ SetupVeth(c) \/ SetupPolicy(c)
Thread(c) == \/ Wake(c) \/ ReprobePolicy(c) \/ ReprobeFilter(c) \/ ReprobeUplink(c)
             \/ AddUplink(c) \/ AddFails(c)
Cleanup(c) == \/ MonitorExits(c) \/ StopRouteMonitor(c) \/ GiveUp(c) \/ Reap(c)
              \/ DeleteLink(c) \/ Surviving(c) \/ RemovePolicy(c) \/ RemoveFilter(c)

Next ==
  \/ \E c \in Cont : \/ Boot(c) \/ Setup(c) \/ Reboot(c) \/ InitDies(c)
                     \/ Thread(c) \/ ThreadFails(c) \/ Cleanup(c)
  \/ NetdFlush \/ Handoff

Spec == Init /\ [][Next]_vars

(* The threads run, get a socket at last, and the kernel takes a rule that *)
(* is added over and over; everything else does what it likes.             *)
FairSpec == Spec /\ \A c \in Cont : WF_vars(Thread(c)) /\ SF_vars(AddUplink(c))
-----------------------------------------------------------------------------
Attached(c) == pc[c] = "up" /\ c \in veth
Watched(c) == pc[c] = "up" /\ rt[c] # "none"

(***************************************************************************)
(* "Shared resources [...] must only be torn down when we are the last     *)
(* container.  Stopping them while others are running kills their          *)
(* networking" (network.c:2303-2306).  When containers do not come and go  *)
(* at the same time, a running one never loses the netfilter rules.        *)
(***************************************************************************)
SharedKept ==
  ~rough => \A c \in Cont : Attached(c) => filter

(***************************************************************************)
(* When the last container is gone and its cleanup done, no interface, no  *)
(* netfilter rule and no uplink-independent policy rule is left, whatever  *)
(* the route monitors were doing when their containers died: "an in-flight *)
(* do_uplink_reprobe() could re-add a rule we just deleted"                *)
(* (network.c:2163-2166).  Only a cleanup that gets no netlink socket      *)
(* (network.c:2287-2289) leaves what it finds, and that no longer than     *)
(* until its container has been started and stopped again.                 *)
(***************************************************************************)
NoLeftover ==
  (\A c \in Cont : pc[c] = "off") => veth = {} /\ ~policy /\ ~filter

(***************************************************************************)
(* "it flushes the iptables built-in chains and the FIB rule table [...]   *)
(* which silently strands every running container" (network.c:1850-1863):  *)
(* a container with a route monitor gets its rules back after a flush (if  *)
(* the tables can be read), after the racing cleanup of another container, *)
(* and after a handoff, the rule for its uplink.                           *)
(***************************************************************************)
Reconnected ==
  \A c \in Cont :
    /\ []<>(Watched(c) /\ Readable => filter)
    /\ \A t \in IF c \in Pinned THEN {PinTable} ELSE Table :
         []<>(Watched(c) /\ find_active_uplink(c) = t => t \in from)
=============================================================================
