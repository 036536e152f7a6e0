------------------------------ MODULE Gateway -------------------------------
(***************************************************************************)
(* Gateway mode of net/network.c: the containers of one LAN segment and    *)
(* the container that routes for them.  The host owns the plumbing: a      *)
(* bridge, one cable, ds-g..., from the bridge into the gateway's network  *)
(* namespace, and one veth, ds-c<pid>, into each client's.  Clients wire   *)
(* themselves when they find the gateway running; otherwise the gateway    *)
(* wires them when it boots.  Every process takes the segment's file lock  *)
(* around its changes; whether a container is running is looked up outside *)
(* of it.                                                                  *)
(***************************************************************************)
EXTENDS Naturals, FiniteSets

CONSTANTS Client,     \* the containers with --net=gateway
          Router,     \* the container they name with --gateway
          Nobody,     \* no process
          MaxBoot,    \* bound: boots of each container
          MaxLapse,   \* bound: those in mode "lapses"
          Modes       \* which of "calm", "faults", "lapses" to look at

ASSUME GatewayAssumption ==
  /\ Router \notin Client /\ Nobody \notin Client \cup {Router}
  /\ MaxBoot \in Nat \ {0} /\ MaxLapse \in 0..MaxBoot
  /\ Modes \subseteq {"calm", "faults", "lapses"}

VARIABLES
  mode,     \* "calm": one container changes at a time and no call fails;
            \* "faults": they overlap, wirings fail, cleanups get no socket;
            \* "lapses": also calls fail whose maker goes on regardless
  pc,       \* where each container is: its init and its monitor
  ns,       \* its network namespace, numbered by boot; 0 when it has none
  boots,    \* how often it booted
  seen,     \* the router's namespace a client's monitor found; 0 for none
  todo,     \* clients the router's scan has not visited yet
  whom,     \* the client that the router is wiring, and its namespace
  lock,     \* who holds the segment lock
  bridge,   \* the bridge exists
  cable,    \* the router's cable: its peer's namespace (0: no cable), attached
  app,      \* the client veths on the host, as <<client, namespace>>
  gaveup    \* containers whose last cleanup had no netlink socket

procVars == <<pc, ns, boots, seen, todo, whom>>
kernelVars == <<bridge, cable, app>>
vars == <<mode, procVars, lock, kernelVars, gaveup>>

Cont == Client \cup {Router}

(* Every variable stays within its type. *)
TypeOK ==
  /\ mode \in Modes
  /\ pc \in [Cont -> {"off", "check", "scan", "lock", "bridge", "cable", "app", "boot",
                      "up", "dead", "unplug", "count"}]
  /\ ns \in [Cont -> 0..MaxBoot] /\ boots \in [Cont -> 0..MaxBoot]
  /\ seen \in [Client -> 0..MaxBoot] /\ todo \subseteq Client
  /\ whom \in (Client \X (1..MaxBoot)) \cup {<<>>}
  /\ lock \in Cont \cup {Nobody} /\ bridge \in BOOLEAN
  /\ cable \in [ns : 0..MaxBoot, on : BOOLEAN]
  /\ app \subseteq Client \X (1..MaxBoot)
  /\ gaveup \subseteq Cont

Init ==
  /\ mode \in Modes /\ pc = [c \in Cont |-> "off"] /\ ns = [c \in Cont |-> 0]
  /\ boots = [c \in Cont |-> 0] /\ seen = [c \in Client |-> 0] /\ todo = {}
  /\ whom = <<>> /\ lock = Nobody
  /\ bridge = FALSE /\ cable = [ns |-> 0, on |-> FALSE] /\ app = {}
  /\ gaveup = {}

Step(c, s) == pc' = [pc EXCEPT ![c] = s]

(* is_container_running: the marker is there only at the end of the boot.  *)
Running(c) == pc[c] = "up"

gateway_pid_of == IF Running(Router) THEN ns[Router] ELSE 0

(* A lock that cannot be opened, a link that is not attached or not        *)
(* deleted, a dump that fails and so counts nobody: all of it is at most   *)
(* warned about.                                                           *)
Lapses == mode = "lapses"

(* Calls may fail. *)
Faulty == mode \in {"faults", "lapses"}

(* Nobody is in the middle of a boot or of a cleanup. *)
Quiet == \A c \in Cont : pc[c] \in {"off", "up"}

(* A namespace dies with its processes, and with it the veth that ends in  *)
(* it; or something keeps the namespace, and the veth stays.               *)
NamespaceEnds(c) ==
  \/ UNCHANGED <<cable, app>>
  \/ /\ cable' = IF c = Router /\ cable.ns = ns[c] THEN [ns |-> 0, on |-> FALSE] ELSE cable
     /\ app' = app \ {<<c, ns[c]>>}

-----------------------------------------------------------------------------
(***************************************************************************)
(* The boot: the hand-shake of the monitor with an init that waits.        *)
(***************************************************************************)
FirstStep(c) == IF c = Router THEN "scan" ELSE "check"

Boots(c) ==
  /\ boots[c] < (IF Lapses THEN MaxLapse ELSE MaxBoot) /\ boots' = [boots EXCEPT ![c] = @ + 1]
  /\ mode = "calm" => Quiet
  /\ ns' = [ns EXCEPT ![c] = boots'[c]]
  /\ Step(c, FirstStep(c)) /\ todo' = IF c = Router THEN Client ELSE todo
  /\ gaveup' = gaveup \ {c}

Start(c) ==
  /\ pc[c] = "off" /\ Boots(c)
  /\ UNCHANGED <<mode, seen, whom, lock, kernelVars>>

(* setup_gateway_veth_side: a client that finds no gateway defers to it.   *)
CheckGateway(c) ==
  /\ pc[c] = "check" /\ seen' = [seen EXCEPT ![c] = gateway_pid_of]
  /\ Step(c, IF seen'[c] = 0 THEN "boot" ELSE "lock")
  /\ UNCHANGED <<mode, ns, boots, todo, whom, lock, kernelVars, gaveup>>

(* ds_net_rewire_gateway_clients: the next client; those that do not run   *)
(* are passed over.                                                        *)
ScanNext ==
  /\ pc[Router] = "scan" /\ todo # {}
  /\ \E c \in todo :
       /\ todo' = todo \ {c}
       /\ IF Running(c) THEN Step(Router, "lock") /\ whom' = <<c, ns[c]>>
          ELSE UNCHANGED <<pc, whom>>
  /\ UNCHANGED <<mode, ns, boots, seen, lock, kernelVars, gaveup>>

ScanEnds ==
  /\ pc[Router] = "scan" /\ todo = {} /\ Step(Router, "boot")
  /\ UNCHANGED <<mode, ns, boots, seen, todo, whom, lock, kernelVars, gaveup>>

(* The namespace of the gateway that a wiring works for. *)
Target(c) == IF c = Router THEN ns[Router] ELSE seen[c]

(* gateway_wire_client. *)
LockSegment(c) ==
  /\ pc[c] = "lock" /\ lock = Nobody /\ lock' = c /\ Step(c, "bridge")
  /\ UNCHANGED <<mode, ns, boots, seen, todo, whom, kernelVars, gaveup>>

(* The lock file cannot be opened: a wiring or a cleanup goes on without.  *)
NoLock(c) ==
  /\ Lapses /\ pc[c] \in {"lock", "dead"}
  /\ Step(c, IF pc[c] = "lock" THEN "bridge" ELSE "unplug")
  /\ UNCHANGED <<mode, ns, boots, seen, todo, whom, lock, kernelVars, gaveup>>

(* gateway_segment_unlock. *)
Release(c) == lock' = IF lock = c THEN Nobody ELSE lock

(* A wiring that ends, well or not, returns to its caller. *)
Unlock(c) ==
  /\ Release(c) /\ Step(c, IF c = Router THEN "scan" ELSE "boot")
  /\ IF c = Router THEN whom' = <<>> /\ UNCHANGED seen
     ELSE seen' = [seen EXCEPT ![c] = 0] /\ UNCHANGED whom

WireFails_KeepsLock(c) ==
  /\ Faulty /\ pc[c] \in {"bridge", "cable", "app"}
  /\ Step(c, IF c = Router THEN "scan" ELSE "boot")
  /\ UNCHANGED <<mode, ns, boots, todo, seen, whom, lock, kernelVars, gaveup>>

(* A netlink call fails that the rest needs: the segment is left as it is. *)
WireFails(c) ==
  /\ Faulty /\ pc[c] \in {"bridge", "cable", "app"} /\ Unlock(c)
  /\ UNCHANGED <<mode, ns, boots, todo, kernelVars, gaveup>>

(* gateway_ensure_lan_uplink_locked, first the bridge ... *)
EnsureBridge(c) ==
  /\ pc[c] = "bridge" /\ Step(c, "cable") /\ bridge' = TRUE
  /\ UNCHANGED <<mode, ns, boots, seen, todo, whom, lock, cable, app, gaveup>>

EnsureCable_TrustsHostEnd(c) ==
  /\ pc[c] = "cable"
  /\ IF Target(c) = ns[Router] /\ Target(c) # 0
     THEN /\ cable' = [ns |-> IF cable.ns # 0 THEN cable.ns ELSE Target(c), on |-> bridge]
          /\ Step(c, "app") /\ UNCHANGED <<lock, seen, whom>>
     ELSE cable' = [ns |-> 0, on |-> FALSE] /\ Unlock(c)
  /\ UNCHANGED <<mode, ns, boots, todo, bridge, app, gaveup>>

(* ... then the cable: one whose peer is in the gateway's namespace is     *)
(* attached again, any other is deleted and built anew; when the namespace *)
(* is gone the new pair is dropped.                                        *)
EnsureCable(c) ==
  /\ pc[c] = "cable"
  /\ IF Target(c) = ns[Router] /\ Target(c) # 0
     THEN /\ \E b \in BOOLEAN :
                (b \/ Lapses) /\ cable' = [ns |-> Target(c), on |-> bridge /\ b]
          /\ Step(c, "app") /\ UNCHANGED <<lock, seen, whom>>
     ELSE cable' = [ns |-> 0, on |-> FALSE] /\ Unlock(c)
  /\ UNCHANGED <<mode, ns, boots, todo, bridge, app, gaveup>>

(* The client's veth is deleted, created, attached and moved; without the  *)
(* namespace the new pair is dropped.                                      *)
PlugClient(c) ==
  /\ pc[c] = "app" /\ Unlock(c)
  /\ LET w == IF c = Router THEN whom ELSE <<c, ns[c]>> IN
       app' = IF ns[w[1]] = w[2] THEN app \cup {w} ELSE app \ {w}
  /\ UNCHANGED <<mode, ns, boots, todo, bridge, cable, gaveup>>

(* DONE, and init boots to its marker. *)
ComesUp(c) ==
  /\ pc[c] = "boot" /\ Step(c, "up")
  /\ UNCHANGED <<mode, ns, boots, seen, todo, whom, lock, kernelVars, gaveup>>

-----------------------------------------------------------------------------
(***************************************************************************)
(* The end: a reboot by the container itself, or a stop with its cleanup.  *)
(***************************************************************************)
Reboot(c) ==
  /\ pc[c] = "up" /\ Boots(c) /\ NamespaceEnds(c)
  /\ UNCHANGED <<mode, seen, whom, lock, bridge>>

(* init is stopped or dies, at the earliest when the hand-shake is over.   *)
Dies(c) ==
  /\ pc[c] \in {"boot", "up"} /\ (mode = "calm" => Quiet) /\ Step(c, "dead")
  /\ ns' = [ns EXCEPT ![c] = 0] /\ NamespaceEnds(c)
  /\ UNCHANGED <<mode, boots, seen, todo, whom, lock, bridge, gaveup>>

CleanupLocks_NoLock(c) ==
  /\ pc[c] = "dead" /\ Step(c, "unplug")
  /\ UNCHANGED <<mode, ns, boots, seen, todo, whom, lock, kernelVars, gaveup>>

(* ds_net_gateway_teardown for the router, the gateway branch of           *)
(* ds_net_cleanup for a client.                                            *)
CleanupLocks(c) ==
  /\ pc[c] = "dead" /\ lock = Nobody /\ lock' = c /\ Step(c, "unplug")
  /\ UNCHANGED <<mode, ns, boots, seen, todo, whom, kernelVars, gaveup>>

(* Neither of them does anything without a netlink socket. *)
NoSocket(c) ==
  /\ Faulty /\ pc[c] = "dead" /\ Step(c, "off") /\ gaveup' = gaveup \cup {c}
  /\ UNCHANGED <<mode, ns, boots, seen, todo, whom, lock, kernelVars>>

Unplug(c) ==
  /\ pc[c] = "unplug" /\ Step(c, "count")
  /\ \/ Lapses /\ UNCHANGED <<cable, app>>
     \/ c = Router /\ cable' = [ns |-> 0, on |-> FALSE] /\ UNCHANGED app
     \/ c # Router /\ app' = app \ {<<c, boots[c]>>} /\ UNCHANGED cable
  /\ UNCHANGED <<mode, ns, boots, seen, todo, whom, lock, bridge, gaveup>>

(* The bridge stays for other clients, and a client leaves it to a gateway *)
(* that is running.                                                        *)
MayReap(c) == (app = {} \/ Lapses) /\ (c = Router \/ gateway_pid_of = 0)

CountAndReap(c) ==
  /\ pc[c] = "count" /\ Step(c, "off") /\ Release(c)
  /\ \/ MayReap(c) /\ bridge' = FALSE /\ cable' = [cable EXCEPT !.on = FALSE]
     \/ (Lapses \/ ~MayReap(c)) /\ UNCHANGED <<bridge, cable>>
  /\ UNCHANGED <<mode, ns, boots, seen, todo, whom, app, gaveup>>

-----------------------------------------------------------------------------
Setup(c) ==
  \/ LockSegment(c) \/ WireFails(c) \/ EnsureBridge(c) \/ EnsureCable(c)
  \/ PlugClient(c) \/ ComesUp(c)

Faults(c) == NoLock(c) \/ NoSocket(c)

Cleanup(c) == CleanupLocks(c) \/ Unplug(c) \/ CountAndReap(c)

Next ==
  \/ \E c \in Cont : Start(c) \/ Setup(c) \/ Reboot(c) \/ Dies(c) \/ Cleanup(c)
                     \/ Faults(c)
  \/ \E c \in Client : CheckGateway(c)
  \/ ScanNext \/ ScanEnds

Spec == Init /\ [][Next]_vars

(* A monitor that can go on does. *)
FairSpec ==
  /\ Spec
  /\ \A c \in Client : WF_vars(CheckGateway(c) \/ Setup(c) \/ Cleanup(c))
  /\ WF_vars(ScanNext \/ ScanEnds \/ Setup(Router) \/ Cleanup(Router))

-----------------------------------------------------------------------------
Connected(c) ==
  <<c, ns[c]>> \in app /\ bridge /\ cable = [ns |-> ns[Router], on |-> TRUE]

(* "Clients are (re)wired automatically when the gateway container starts  *)
(* or reboots": when containers come and go one at a time, a running       *)
(* client of a running gateway is connected to the gateway's present       *)
(* namespace, whichever of the two came first and however often each of    *)
(* them rebooted.                                                          *)
ClientsConnected ==
  mode = "calm" /\ Quiet /\ Running(Router) => \A c \in Client : Running(c) => Connected(c)

(* Nobody reaps the bridge under a client: counting the clients and        *)
(* deleting the bridge exclude the wiring of another client.               *)
BridgeKept == app # {} => bridge

(* When everybody is gone the segment is gone, however starts, stops,      *)
(* reboots and failing wirings overlapped; but for a client's veth from    *)
(* before its last reboot whose namespace somebody kept alive, and for     *)
(* what a cleanup without a netlink socket left behind.                    *)
NothingLeft ==
  (\A c \in Cont : pc[c] = "off") =>
    /\ cable = [ns |-> 0, on |-> FALSE] \/ Router \in gaveup
    /\ \A a \in app : a[2] < boots[a[1]] \/ a[1] \in gaveup
    /\ bridge => app # {} \/ gaveup # {}

(* Boots and cleanups end: nobody waits for the segment lock for ever.     *)
EverybodySettles ==
  \A c \in Cont : pc[c] \notin {"off", "up"} ~> pc[c] \in {"off", "up"}

(* The segment exists exactly as long as somebody needs it: it is not      *)
(* reaped under a client, and it is reaped with the last of them.  Where   *)
(* somebody may work on the segment without its lock, or take a failed     *)
(* count for no clients (network.c:957-965, netlink.c:853), neither is     *)
(* claimed.                                                                *)
BridgesExact == TypeOK /\ (Lapses \/ (BridgeKept /\ NothingLeft))
=============================================================================
