---------------------------- MODULE GatewayProofs ----------------------------
(***************************************************************************)
(* Theorems about the segment of a gateway and its clients, for any set of *)
(* clients and any number of boots.                                        *)
(***************************************************************************)
EXTENDS Gateway, TLAPS

(* Where a container holds the segment lock, where it is wiring, and where *)
(* it has no namespace.                                                    *)
Critical == {"bridge", "cable", "app", "unplug", "count"}
Wiring == {"lock", "bridge", "cable", "app"}
Gone == {"off", "dead", "unplug", "count"}

(* The segment lock is held exactly in the critical sections. *)
LockHeld == \A c \in Cont : pc[c] \in Critical <=> lock = c

(* A container that is there has the namespace of its last boot; the       *)
(* router alone scans, the clients alone look for it; what the router      *)
(* wires is a namespace that a client has or had.                          *)
Namespaces ==
  /\ \A c \in Cont : ns[c] = IF pc[c] \in Gone THEN 0 ELSE boots[c]
  /\ \A c \in Cont : pc[c] # "off" => boots[c] # 0
  /\ pc[Router] # "check" /\ \A c \in Client : pc[c] # "scan"
  /\ pc[Router] \in Wiring => whom # <<>> /\ whom[2] <= boots[whom[1]]

(* A wiring past its first step, and every plugged client, has the bridge. *)
BridgeThere ==
  /\ \A c \in Cont : pc[c] \in {"cable", "app"} => bridge
  /\ BridgeKept

(* What is on the host has somebody who will take it away, or would have   *)
(* if its cleanup had had a netlink socket: the cable its router, a veth   *)
(* of a present namespace its client, the bridge anybody.                  *)
Cares(c) == pc[c] \notin {"off", "count"} \/ c \in gaveup

Owned ==
  /\ cable # [ns |-> 0, on |-> FALSE] => Cares(Router)
  /\ \A a \in app : a[2] <= boots[a[1]] /\ (a[2] = boots[a[1]] => Cares(a[1]))
  /\ bridge => app # {} \/ gaveup # {} \/ \E c \in Cont : pc[c] # "off"
  /\ \A c \in gaveup : pc[c] = "off"

(* The lock, the bridge and the owners: not where calls lapse. *)
SegmentInv == Namespaces /\ (~Lapses => LockHeld /\ BridgeThere /\ Owned)

-----------------------------------------------------------------------------
(* What the calm mode adds: one container changes at a time. *)
Settled(c) == pc[c] \in {"off", "up"}

OneChanges == \A c, d \in Cont : Settled(c) \/ Settled(d) \/ c = d

CableGood == cable = [ns |-> ns[Router], on |-> TRUE]

(* A client that wires itself does so for the router that is running; past *)
(* the uplink, the cable is that router's.                                 *)
ClientWires ==
  \A c \in Client : pc[c] \in Wiring =>
    /\ Running(Router) /\ seen[c] = ns[Router]
    /\ pc[c] = "app" => CableGood

(* A router that wires has a running client in hand, and connected all the *)
(* running clients that its scan visited before.                           *)
RouterWires ==
  /\ pc[Router] \in Wiring => Running(whom[1]) /\ whom[2] = ns[whom[1]]
  /\ pc[Router] = "app" => CableGood
  /\ pc[Router] \in Wiring \cup {"scan", "boot"} =>
       \A c \in Client : Running(c) =>
         \/ Connected(c)
         \/ pc[Router] # "boot" /\ c \in todo
         \/ pc[Router] \in Wiring /\ c = whom[1]

(* Beside a running router, a client that is through with its wiring is    *)
(* connected.                                                              *)
StaysConnected ==
  Running(Router) => \A c \in Client : pc[c] \in {"boot", "up"} => Connected(c)

CalmInv == mode = "calm" => OneChanges /\ ClientWires /\ RouterWires /\ StaysConnected

-----------------------------------------------------------------------------
(***************************************************************************)
(* The operators that several actions share.                               *)
(***************************************************************************)
Pcs == {"off", "check", "scan", "lock", "bridge", "cable", "app", "boot", "up", "dead",
        "unplug", "count"}

NoCable == [ns |-> 0, on |-> FALSE]

(* Returning from gateway_wire_client: only the caller moves on, and if it *)
(* held the lock that is free.                                             *)
Returns(c) ==
  /\ pc' \in [Cont -> Pcs] /\ lock' = IF lock = c THEN Nobody ELSE lock
  /\ pc'[c] = IF c = Router THEN "scan" ELSE "boot"
  /\ \A d \in Cont \ {c} : pc'[d] = pc[d]
  /\ seen' \in [Client -> 0..MaxBoot]
  /\ whom' = IF c = Router THEN <<>> ELSE whom

(* gateway_unlock and the return of the wiring do no more than Returns says. *)
LEMMA UnlockEffect == ASSUME TypeOK, NEW c \in Cont, Unlock(c) PROVE Returns(c)
<1> USE GatewayAssumption DEF TypeOK, Cont, Pcs, Unlock, Release, Step, Returns
<1>1. CASE c = Router
  BY <1>1
<1>2. CASE c # Router
  <2>1. c \in Client /\ seen' = [seen EXCEPT ![c] = 0]
    BY <1>2
  <2>2. seen' \in [Client -> 0..MaxBoot]
    BY <2>1
  <2>q. QED BY <1>2, <2>2
<1>q. QED BY <1>1, <1>2

(* The end of a namespace: the veths on the host become fewer at most.     *)
Ends(c) ==
  /\ app' \subseteq app /\ cable' \in {cable, NoCable}
  /\ cable' \in [ns : 0..MaxBoot, on : BOOLEAN]
  /\ \A a \in app : a # <<c, ns[c]>> => a \in app'
  /\ c # Router => cable' = cable

(* The end of a namespace takes its own veths and no other container's.    *)
LEMMA NamespaceEndsEffect == ASSUME TypeOK, NEW c \in Cont, NamespaceEnds(c) PROVE Ends(c)
<1> USE GatewayAssumption DEF TypeOK, Cont, NoCable, Ends
<1>1. CASE UNCHANGED <<cable, app>>
  BY <1>1
<1>2. CASE /\ cable' = IF c = Router /\ cable.ns = ns[c] THEN NoCable ELSE cable
           /\ app' = app \ {<<c, ns[c]>>}
  <2>1. cable' \in {cable, NoCable} /\ (c # Router => cable' = cable)
    BY <1>2
  <2>2. cable' \in [ns : 0..MaxBoot, on : BOOLEAN]
    <3>1. 0 \in 0..MaxBoot
      OBVIOUS
    <3>2. NoCable \in [ns : 0..MaxBoot, on : BOOLEAN]
      BY <3>1
    <3>q. QED BY <2>1, <3>2
  <2>3. app' \subseteq app /\ \A a \in app : a # <<c, ns[c]>> => a \in app'
    BY <1>2
  <2>q. QED BY <2>1, <2>2, <2>3
<1>q. QED BY <1>1, <1>2 DEF NamespaceEnds

(* A boot: the container is at its first step, in a new namespace.         *)
BootsAnew(c) ==
  /\ pc' \in [Cont -> Pcs] /\ boots' \in [Cont -> 0..MaxBoot]
  /\ ns' \in [Cont -> 0..MaxBoot] /\ todo' \subseteq Client /\ gaveup' = gaveup \ {c}
  /\ pc'[c] = IF c = Router THEN "scan" ELSE "check"
  /\ boots'[c] = boots[c] + 1 /\ ns'[c] = boots'[c]
  /\ \A d \in Cont \ {c} : pc'[d] = pc[d] /\ boots'[d] = boots[d] /\ ns'[d] = ns[d]

(* A boot gives the container a new namespace and touches no other one.    *)
LEMMA BootsEffect == ASSUME TypeOK, NEW c \in Cont, Boots(c) PROVE BootsAnew(c)
<1> USE GatewayAssumption DEF TypeOK, Cont, Pcs, Boots, Step, FirstStep, BootsAnew
<1>1. boots[c] + 1 \in 0..MaxBoot
  OBVIOUS
<1>2. boots' \in [Cont -> 0..MaxBoot] /\ boots'[c] = boots[c] + 1
  BY <1>1
<1>3. ns' \in [Cont -> 0..MaxBoot]
  BY <1>2
<1>q. QED BY <1>2, <1>3

(* The next client of the scan: passed over, or in the router's hands.     *)
Visits(c) ==
  /\ todo' = todo \ {c} /\ pc' \in [Cont -> Pcs]
  /\ \A d \in Client : pc'[d] = pc[d]
  /\ \/ ~Running(c) /\ pc' = pc /\ whom' = whom
     \/ /\ Running(c) /\ pc'[Router] = "lock" /\ whom' = <<c, ns[c]>>
        /\ ns[c] = boots[c] /\ ns[c] \in 1..MaxBoot

(* A step of the router's scan takes one container of its list.            *)
LEMMA ScanNextEffect == ASSUME TypeOK, Namespaces, ScanNext PROVE \E c \in todo : Visits(c)
<1> USE GatewayAssumption DEF TypeOK, Namespaces, Cont, Pcs, Step, Visits
<1>1. PICK c \in todo : /\ todo' = todo \ {c}
                        /\ IF Running(c) THEN Step(Router, "lock") /\ whom' = <<c, ns[c]>>
                           ELSE UNCHANGED <<pc, whom>>
  BY DEF ScanNext
<1>2. CASE Running(c)
  <2>1. ns[c] = boots[c] /\ ns[c] \in 1..MaxBoot
    <3>1. c \in Cont /\ pc[c] = "up"
      BY <1>2 DEF Running
    <3>2. ns[c] = boots[c] /\ boots[c] # 0 /\ boots[c] \in 0..MaxBoot
      BY <3>1 DEF Gone
    <3>q. QED BY <3>2
  <2>q. QED BY <1>1, <1>2, <2>1
<1>3. CASE ~Running(c)
  BY <1>1, <1>3
<1>q. QED BY <1>2, <1>3

-----------------------------------------------------------------------------
(***************************************************************************)
(* The steps, one lemma for each part of the invariant.                    *)
(***************************************************************************)
(* What the cable can be changed to. *)
LEMMA CableTypes ==
  ASSUME TypeOK
  PROVE  /\ NoCable \in [ns : 0..MaxBoot, on : BOOLEAN]
         /\ cable = NoCable => [cable EXCEPT !.on = FALSE] = cable
         /\ [cable EXCEPT !.on = FALSE] \in [ns : 0..MaxBoot, on : BOOLEAN]
         /\ \A n \in 0..MaxBoot : [ns |-> n, on |-> bridge] \in [ns : 0..MaxBoot, on : BOOLEAN]
<1> USE GatewayAssumption DEF TypeOK, NoCable
<1>1. 0 \in 0..MaxBoot
  OBVIOUS
<1>2. NoCable \in [ns : 0..MaxBoot, on : BOOLEAN]
  BY <1>1
<1>3. ASSUME cable.on = FALSE PROVE [cable EXCEPT !.on = FALSE] = cable
  BY <1>3
<1>4. [cable EXCEPT !.on = FALSE] \in [ns : 0..MaxBoot, on : BOOLEAN]
  OBVIOUS
<1>5. ASSUME NEW n \in 0..MaxBoot
      PROVE  [ns |-> n, on |-> bridge] \in [ns : 0..MaxBoot, on : BOOLEAN]
  OBVIOUS
<1>6. cable = NoCable => cable.on = FALSE
  OBVIOUS
<1>q. QED BY <1>2, <1>3, <1>4, <1>5, <1>6

(* A client's veth: plugged into the namespace it was made for, or dropped *)
(* because that namespace is gone.                                         *)
Plugs(w) == app' = IF ns[w[1]] = w[2] THEN app \cup {w} ELSE app \ {w}

(* The veth that PlugClient makes is one of a client's namespace. *)
LEMMA PlugClientEffect ==
  ASSUME TypeOK, Namespaces, NEW c \in Cont, PlugClient(c)
  PROVE  \E w \in Client \X (1..MaxBoot) : Plugs(w)
<1> USE GatewayAssumption DEF TypeOK, Cont, Namespaces, Plugs
<1>1. CASE c = Router
  <2>1. whom \in Client \X (1..MaxBoot)
    BY <1>1 DEF PlugClient, Wiring
  <2>q. QED BY <1>1, <2>1 DEF PlugClient
<1>2. CASE c # Router
  <2>1. c \in Client /\ ns[c] = boots[c] /\ boots[c] # 0 /\ boots[c] \in 0..MaxBoot
    BY <1>2 DEF PlugClient, Gone
  <2>2. <<c, ns[c]>> \in Client \X (1..MaxBoot)
    BY <2>1
  <2>q. QED BY <1>2, <2>2 DEF PlugClient
<1>q. QED BY <1>1, <1>2

Effects ==
  /\ \A c \in Cont :
       (Unlock(c) => Returns(c)) /\ (NamespaceEnds(c) => Ends(c)) /\ (Boots(c) => BootsAnew(c))
  /\ \A c \in Cont : PlugClient(c) => \E w \in Client \X (1..MaxBoot) : Plugs(w)
  /\ ScanNext => \E c \in todo : Visits(c)

(* All of these together, as the steps below use them. *)
LEMMA EffectsHold == ASSUME TypeOK, Namespaces PROVE Effects
  BY UnlockEffect, NamespaceEndsEffect, BootsEffect, PlugClientEffect,
     ScanNextEffect DEF Effects

(* Every step of a monitor keeps the types of the segment's state. *)
LEMMA TypesKept == TypeOK /\ SegmentInv /\ [Next]_vars => TypeOK'
<1> SUFFICES ASSUME TypeOK, SegmentInv, [Next]_vars PROVE TypeOK'
  OBVIOUS
<1>e. Effects
  BY EffectsHold DEF SegmentInv
<1> USE GatewayAssumption DEF TypeOK, Cont, Step, kernelVars, Pcs, NoCable
<1>1. CASE UNCHANGED vars
  BY <1>1 DEF vars, procVars
<1>2. ASSUME NEW c \in Cont, Start(c) PROVE TypeOK'
  <2>1. BootsAnew(c)
    BY <1>2, <1>e DEF Start, Effects
  <2>2. gaveup' \subseteq Cont
    BY <2>1 DEF BootsAnew
  <2>q. QED BY ZenonT(60), <1>2, <2>1, <2>2 DEF Start, BootsAnew
<1>3. ASSUME NEW c \in Cont, Setup(c) PROVE TypeOK'
  <2>1. CASE LockSegment(c)
    BY <2>1 DEF LockSegment
  <2>2. CASE WireFails(c)
    BY SMTT(60), <2>2, <1>e DEF WireFails, Effects, Returns
  <2>3. CASE EnsureBridge(c)
    BY <2>3 DEF EnsureBridge
  <2>4. CASE EnsureCable(c)
    <3>1. CASE Target(c) = ns[Router] /\ Target(c) # 0
      <4>1. cable' \in [ns : 0..MaxBoot, on : BOOLEAN]
        BY <2>4, <3>1, CableTypes DEF EnsureCable
      <4>q. QED BY ZenonT(60), <2>4, <3>1, <4>1 DEF EnsureCable
    <3>2. CASE ~(Target(c) = ns[Router] /\ Target(c) # 0)
      <4>1. cable' = [ns |-> 0, on |-> FALSE] /\ Unlock(c)
        BY <2>4, <3>2 DEF EnsureCable
      <4>2. Returns(c) /\ cable' \in [ns : 0..MaxBoot, on : BOOLEAN]
        BY <4>1, <1>e, CableTypes DEF Effects
      <4>q. QED BY ZenonT(60), <2>4, <4>2 DEF EnsureCable, Returns
    <3>q. QED BY <3>1, <3>2
  <2>5. CASE PlugClient(c)
    <3>0. PICK w \in Client \X (1..MaxBoot) : Plugs(w)
      BY <2>5, <1>e DEF Effects
    <3>1. app' \subseteq Client \X (1..MaxBoot)
      BY <3>0 DEF Plugs
    <3>q. QED BY ZenonT(60), <2>5, <3>1, <1>e DEF PlugClient, Effects, Returns
  <2>6. CASE ComesUp(c)
    BY <2>6 DEF ComesUp
  <2>q. QED BY <1>3, <2>1, <2>2, <2>3, <2>4, <2>5, <2>6 DEF Setup
<1>4. ASSUME NEW c \in Cont, Reboot(c) PROVE TypeOK'
  <2>1. BootsAnew(c) /\ Ends(c)
    BY <1>4, <1>e DEF Reboot, Effects
  <2>2. gaveup' \subseteq Cont /\ app' \subseteq Client \X (1..MaxBoot)
    BY <2>1 DEF BootsAnew, Ends
  <2>q. QED BY ZenonT(60), <1>4, <2>1, <2>2 DEF Reboot, BootsAnew, Ends
<1>5. ASSUME NEW c \in Cont, Dies(c) PROVE TypeOK'
  BY SMTT(60), <1>5, <1>e DEF Dies, Effects, Ends
<1>6. ASSUME NEW c \in Cont, Cleanup(c) PROVE TypeOK'
  <2>1. CASE CleanupLocks(c)
    BY <2>1 DEF CleanupLocks
  <2>2. CASE Unplug(c)
    <3>1. CASE c = Router
      BY <2>2, <3>1, CableTypes DEF Unplug
    <3>2. CASE c # Router
      BY <2>2, <3>2 DEF Unplug
    <3>q. QED BY <3>1, <3>2
  <2>3. CASE CountAndReap(c)
    <3>1. cable' \in [ns : 0..MaxBoot, on : BOOLEAN] /\ bridge' \in BOOLEAN
      BY <2>3, CableTypes DEF CountAndReap
    <3>q. QED BY <2>3, <3>1 DEF CountAndReap, Release
  <2>q. QED BY <1>6, <2>1, <2>2, <2>3 DEF Cleanup
<1>7. ASSUME NEW c \in Client, CheckGateway(c) PROVE TypeOK'
  <2>1. gateway_pid_of \in 0..MaxBoot
    BY DEF gateway_pid_of
  <2>q. QED BY <1>7, <2>1 DEF CheckGateway
<1>8. CASE ScanNext
  <2>1. whom' \in (Client \X (1..MaxBoot)) \cup {<<>>}
    BY <1>8, <1>e DEF Effects, Visits
  <2>q. QED BY <1>8, <1>e, <2>1 DEF ScanNext, Effects, Visits
<1>9. CASE ScanEnds
  BY <1>9 DEF ScanEnds
<1>10. ASSUME NEW c \in Cont, Faults(c) PROVE TypeOK'
  <2>1. CASE NoLock(c)
    BY <2>1 DEF NoLock
  <2>2. CASE NoSocket(c)
    BY <2>2 DEF NoSocket
  <2>q. QED BY <1>10, <2>1, <2>2 DEF Faults
<1>q. QED
  BY <1>1, <1>2, <1>3, <1>4, <1>5, <1>6, <1>7, <1>8, <1>9, <1>10 DEF Next

(* Every step takes the segment lock when it enters a critical section of  *)
(* gateway_wire_client or of the cleanup, and gives it back when it leaves. *)
LEMMA LockKept == TypeOK /\ SegmentInv /\ ~Lapses /\ [Next]_vars => LockHeld'
<1> SUFFICES ASSUME TypeOK, SegmentInv, ~Lapses, [Next]_vars PROVE LockHeld'
  OBVIOUS
<1>e. Effects
  BY EffectsHold DEF SegmentInv
<1> USE GatewayAssumption DEF TypeOK, SegmentInv, LockHeld, Cont, Step, kernelVars,
        Critical
<1>1. CASE UNCHANGED vars
  BY <1>1 DEF vars, procVars
<1>2. ASSUME NEW c \in Cont, Start(c) PROVE LockHeld'
  BY <1>2 DEF Start, Boots, FirstStep
<1>3. ASSUME NEW c \in Cont, Setup(c) PROVE LockHeld'
  <2>1. CASE LockSegment(c)
    BY <2>1 DEF LockSegment
  <2>2. CASE WireFails(c)
    BY <2>2 DEF WireFails, Unlock, Release
  <2>3. CASE EnsureBridge(c)
    BY <2>3 DEF EnsureBridge
  <2>4. CASE EnsureCable(c)
    <3>1. CASE Target(c) = ns[Router] /\ Target(c) # 0
      BY <2>4, <3>1 DEF EnsureCable
    <3>2. CASE ~(Target(c) = ns[Router] /\ Target(c) # 0)
      BY SMTT(60), <2>4, <3>2 DEF EnsureCable, Unlock, Release
    <3>q. QED BY <3>1, <3>2
  <2>5. CASE PlugClient(c)
    BY <2>5 DEF PlugClient, Unlock, Release
  <2>6. CASE ComesUp(c)
    BY <2>6 DEF ComesUp
  <2>q. QED BY <1>3, <2>1, <2>2, <2>3, <2>4, <2>5, <2>6 DEF Setup
<1>4. ASSUME NEW c \in Cont, Reboot(c) PROVE LockHeld'
  BY <1>4 DEF Reboot, Boots, FirstStep, NamespaceEnds
<1>5. ASSUME NEW c \in Cont, Dies(c) PROVE LockHeld'
  BY <1>5 DEF Dies, NamespaceEnds
<1>6. ASSUME NEW c \in Cont, Cleanup(c) PROVE LockHeld'
  <2>1. CASE CleanupLocks(c)
    BY <2>1 DEF CleanupLocks
  <2>2. CASE Unplug(c)
    BY <2>2 DEF Unplug
  <2>3. CASE CountAndReap(c)
    BY <2>3 DEF CountAndReap, MayReap, gateway_pid_of, Running, Release
  <2>q. QED BY <1>6, <2>1, <2>2, <2>3 DEF Cleanup
<1>7. ASSUME NEW c \in Client, CheckGateway(c) PROVE LockHeld'
  BY <1>7 DEF CheckGateway, gateway_pid_of, Running
<1>8. CASE ScanNext
  <2>1. PICK d \in todo : IF Running(d) THEN Step(Router, "lock") /\ whom' = <<d, ns[d]>>
                                  ELSE UNCHANGED <<pc, whom>>
    BY <1>8 DEF ScanNext
  <2>2. CASE Running(d)
    BY SMTT(60), <1>8, <2>1, <2>2 DEF ScanNext, Running
  <2>3. CASE ~Running(d)
    BY <1>8, <2>1, <2>3 DEF ScanNext
  <2>q. QED BY <2>2, <2>3
<1>9. CASE ScanEnds
  BY <1>9 DEF ScanEnds
<1>10. ASSUME NEW c \in Cont, Faults(c) PROVE LockHeld'
  <2>1. CASE NoLock(c)
    BY <2>1 DEF NoLock
  <2>2. CASE NoSocket(c)
    BY <2>2 DEF NoSocket
  <2>q. QED BY <1>10, <2>1, <2>2 DEF Faults
<1>q. QED
  BY <1>1, <1>2, <1>3, <1>4, <1>5, <1>6, <1>7, <1>8, <1>9, <1>10 DEF Next

(* Every step keeps namespaces, boots and the router's scan in accord. *)
LEMMA NamespacesKept == TypeOK /\ SegmentInv /\ [Next]_vars => Namespaces'
<1> SUFFICES ASSUME TypeOK, SegmentInv, [Next]_vars PROVE Namespaces'
  OBVIOUS
<1>e. Effects
  BY EffectsHold DEF SegmentInv
<1> USE GatewayAssumption DEF TypeOK, SegmentInv, Namespaces, Cont, Step, kernelVars,
        Gone, Wiring
<1>1. CASE UNCHANGED vars
  BY <1>1 DEF vars, procVars
<1>2. ASSUME NEW c \in Cont, Start(c) PROVE Namespaces'
  <2>1. BootsAnew(c) /\ whom' = whom
    BY <1>2, <1>e DEF Start, Effects
  <2>2. \A d \in Cont : boots'[d] >= boots[d] /\ boots'[d] \in Nat /\ boots[d] \in Nat
    BY <2>1 DEF BootsAnew
  <2>3. pc'[Router] \in Wiring => whom' # <<>> /\ whom'[2] <= boots'[whom'[1]]
    BY <2>1, <2>2 DEF BootsAnew
  <2>4. \A d \in Cont : ns'[d] = IF pc'[d] \in Gone THEN 0 ELSE boots'[d]
    BY SMTT(60), <2>1 DEF BootsAnew
  <2>5. \A d \in Cont : pc'[d] # "off" => boots'[d] # 0
    BY <2>1, <2>2 DEF BootsAnew
  <2>q. QED BY <2>1, <2>3, <2>4, <2>5 DEF BootsAnew
<1>3. ASSUME NEW c \in Cont, Setup(c) PROVE Namespaces'
  <2>1. CASE LockSegment(c)
    BY <2>1 DEF LockSegment
  <2>2. CASE WireFails(c)
    <3>1. Returns(c) /\ UNCHANGED <<ns, boots>> /\ pc[c] \in {"bridge", "cable", "app"}
      BY <2>2, <1>e DEF WireFails, Effects
    <3>2. pc'[Router] \in Wiring => whom' # <<>> /\ whom'[2] <= boots'[whom'[1]]
      BY <3>1 DEF Returns
    <3>3. \A d \in Cont : pc'[d] \in Gone <=> pc[d] \in Gone
      BY <3>1 DEF Returns
    <3>4. \A d \in Cont : pc'[d] # "off" => pc[d] # "off"
      BY <3>1 DEF Returns
    <3>q. QED BY SMTT(60), <3>1, <3>2, <3>3, <3>4 DEF Returns
  <2>3. CASE EnsureBridge(c)
    BY <2>3 DEF EnsureBridge
  <2>4. CASE EnsureCable(c)
    <3>1. CASE Target(c) = ns[Router] /\ Target(c) # 0
      BY <2>4, <3>1 DEF EnsureCable
    <3>2. CASE ~(Target(c) = ns[Router] /\ Target(c) # 0)
      <4>1. Returns(c) /\ UNCHANGED <<ns, boots>> /\ pc[c] \in {"bridge", "cable", "app"}
        BY <2>4, <3>2, <1>e DEF EnsureCable, Effects
      <4>2. pc'[Router] \in Wiring => whom' # <<>> /\ whom'[2] <= boots'[whom'[1]]
        BY <4>1 DEF Returns
      <4>3. \A d \in Cont : pc'[d] \in Gone <=> pc[d] \in Gone
        BY <4>1 DEF Returns
      <4>4. \A d \in Cont : pc'[d] # "off" => pc[d] # "off"
        BY <4>1 DEF Returns
      <4>q. QED BY SMTT(60), <4>1, <4>2, <4>3, <4>4 DEF Returns
    <3>q. QED BY <3>1, <3>2
  <2>5. CASE PlugClient(c)
    BY <2>5 DEF PlugClient, Unlock, Release
  <2>6. CASE ComesUp(c)
    BY <2>6 DEF ComesUp
  <2>q. QED BY <1>3, <2>1, <2>2, <2>3, <2>4, <2>5, <2>6 DEF Setup
<1>4. ASSUME NEW c \in Cont, Reboot(c) PROVE Namespaces'
  BY SMTT(60), <1>4 DEF Reboot, Boots, FirstStep, NamespaceEnds
<1>5. ASSUME NEW c \in Cont, Dies(c) PROVE Namespaces'
  BY <1>5 DEF Dies, NamespaceEnds
<1>6. ASSUME NEW c \in Cont, Cleanup(c) PROVE Namespaces'
  <2>1. CASE CleanupLocks(c)
    BY <2>1 DEF CleanupLocks
  <2>2. CASE Unplug(c)
    BY <2>2 DEF Unplug
  <2>3. CASE CountAndReap(c)
    BY <2>3 DEF CountAndReap, MayReap, gateway_pid_of, Running, Release
  <2>q. QED BY <1>6, <2>1, <2>2, <2>3 DEF Cleanup
<1>7. ASSUME NEW c \in Client, CheckGateway(c) PROVE Namespaces'
  BY <1>7 DEF CheckGateway, gateway_pid_of, Running
<1>8. CASE ScanNext
  <2>1. PICK d \in todo : Visits(d)
    BY <1>8, <1>e DEF Effects
  <2>2. pc[Router] = "scan" /\ UNCHANGED <<ns, boots>>
    BY <1>8 DEF ScanNext
  <2>3. CASE Running(d)
    <3>1. whom' = <<d, ns[d]>> /\ ns[d] = boots[d] /\ boots[d] \in Nat
      BY <2>1, <2>3 DEF Visits
    <3>2. whom' # <<>> /\ whom'[1] = d /\ whom'[2] = ns[d]
      BY <3>1
    <3>q. QED BY <2>1, <2>2, <2>3, <3>1, <3>2 DEF Visits
  <2>4. CASE ~Running(d)
    BY <2>1, <2>2, <2>4 DEF Visits
  <2>q. QED BY <2>3, <2>4
<1>9. CASE ScanEnds
  BY <1>9 DEF ScanEnds
<1>10. ASSUME NEW c \in Cont, Faults(c) PROVE Namespaces'
  <2>1. CASE NoLock(c)
    BY <2>1 DEF NoLock
  <2>2. CASE NoSocket(c)
    BY <2>2 DEF NoSocket
  <2>q. QED BY <1>10, <2>1, <2>2 DEF Faults
<1>q. QED
  BY <1>1, <1>2, <1>3, <1>4, <1>5, <1>6, <1>7, <1>8, <1>9, <1>10 DEF Next

(* No step takes the bridge from a wiring or from a plugged client. *)
LEMMA BridgeThereKept == TypeOK /\ SegmentInv /\ ~Lapses /\ [Next]_vars => BridgeThere'
<1> SUFFICES ASSUME TypeOK, SegmentInv, ~Lapses, [Next]_vars PROVE BridgeThere'
  OBVIOUS
<1>e. Effects
  BY EffectsHold DEF SegmentInv
<1> USE GatewayAssumption DEF TypeOK, SegmentInv, LockHeld, BridgeThere, BridgeKept,
        Cont, Step, kernelVars, Critical
<1>1. CASE UNCHANGED vars
  BY <1>1 DEF vars, procVars
<1>2. ASSUME NEW c \in Cont, Start(c) PROVE BridgeThere'
  BY <1>2 DEF Start, Boots, FirstStep
<1>3. ASSUME NEW c \in Cont, Setup(c) PROVE BridgeThere'
  <2>1. CASE LockSegment(c)
    BY <2>1 DEF LockSegment
  <2>2. CASE WireFails(c)
    BY <2>2 DEF WireFails, Unlock, Release
  <2>3. CASE EnsureBridge(c)
    BY <2>3 DEF EnsureBridge
  <2>4. CASE EnsureCable(c)
    BY <2>4 DEF EnsureCable, Unlock, Release
  <2>5. CASE PlugClient(c)
    BY <2>5 DEF PlugClient, Unlock, Release
  <2>6. CASE ComesUp(c)
    BY <2>6 DEF ComesUp
  <2>q. QED BY <1>3, <2>1, <2>2, <2>3, <2>4, <2>5, <2>6 DEF Setup
<1>4. ASSUME NEW c \in Cont, Reboot(c) PROVE BridgeThere'
  BY <1>4 DEF Reboot, Boots, FirstStep, NamespaceEnds
<1>5. ASSUME NEW c \in Cont, Dies(c) PROVE BridgeThere'
  BY <1>5 DEF Dies, NamespaceEnds
<1>6. ASSUME NEW c \in Cont, Cleanup(c) PROVE BridgeThere'
  <2>1. CASE CleanupLocks(c)
    BY <2>1 DEF CleanupLocks
  <2>2. CASE Unplug(c)
    BY <2>2 DEF Unplug
  <2>3. CASE CountAndReap(c)
    BY <2>3 DEF CountAndReap, MayReap, gateway_pid_of, Running, Release
  <2>q. QED BY <1>6, <2>1, <2>2, <2>3 DEF Cleanup
<1>7. ASSUME NEW c \in Client, CheckGateway(c) PROVE BridgeThere'
  BY <1>7 DEF CheckGateway, gateway_pid_of, Running
<1>8. CASE ScanNext
  BY <1>8, <1>e DEF ScanNext
<1>9. CASE ScanEnds
  BY <1>9 DEF ScanEnds
<1>10. ASSUME NEW c \in Cont, Faults(c) PROVE BridgeThere'
  <2>1. CASE NoLock(c)
    BY <2>1 DEF NoLock
  <2>2. CASE NoSocket(c)
    BY <2>2 DEF NoSocket
  <2>q. QED BY <1>10, <2>1, <2>2 DEF Faults
<1>q. QED
  BY <1>1, <1>2, <1>3, <1>4, <1>5, <1>6, <1>7, <1>8, <1>9, <1>10 DEF Next

(* No step leaves a device of the segment without somebody to delete it. *)
LEMMA OwnedKept == TypeOK /\ SegmentInv /\ ~Lapses /\ [Next]_vars => Owned'
<1> SUFFICES ASSUME TypeOK, SegmentInv, ~Lapses, [Next]_vars PROVE Owned'
  OBVIOUS
<1>e. Effects
  BY EffectsHold DEF SegmentInv
<1>k. cable = NoCable => [cable EXCEPT !.on = FALSE] = cable
  BY CableTypes
<1> USE GatewayAssumption DEF TypeOK, SegmentInv, Namespaces, BridgeThere, BridgeKept,
        Owned, Cares, Cont, Step, kernelVars, Gone, Wiring
<1>1. CASE UNCHANGED vars
  BY <1>1 DEF vars, procVars
<1>2. ASSUME NEW c \in Cont, Start(c) PROVE Owned'
  <2>1. /\ boots'[c] = boots[c] + 1
        /\ pc'[c] \in {"scan", "check"}
        /\ \A d \in Cont \ {c} : pc'[d] = pc[d] /\ boots'[d] = boots[d]
    BY <1>2, <1>e DEF Start, Effects, BootsAnew
  <2>2. UNCHANGED <<bridge, cable, app>> /\ gaveup' = gaveup \ {c}
    BY <1>2, <1>e DEF Start, Effects, BootsAnew
  <2>k. \A d \in Cont : Cares(d) => Cares(d)'
    BY <2>1, <2>2
  <2>3. ASSUME NEW a \in app
        PROVE  a[2] <= boots'[a[1]] /\ (a[2] = boots'[a[1]] => Cares(a[1])')
    <3>1. a[2] <= boots[a[1]] /\ (a[2] = boots[a[1]] => Cares(a[1]))
      OBVIOUS
    <3>2. a[1] \in Cont /\ a[2] \in Nat /\ boots[a[1]] \in Nat
      OBVIOUS
    <3>3. CASE a[1] = c
      <4>1. boots'[a[1]] = boots[a[1]] + 1 /\ Cares(a[1])'
        BY <2>1, <3>3
      <4>2. \A m, n \in Nat : m <= n => m <= n + 1
        OBVIOUS
      <4>q. QED BY ONLY <3>1, <3>2, <4>1, <4>2
    <3>4. CASE a[1] # c
      <4>1. boots'[a[1]] = boots[a[1]]
        BY <2>1, <3>2, <3>4
      <4>q. QED BY <2>k, <3>1, <3>2, <4>1
    <3>q. QED BY <3>3, <3>4
  <2>4. (cable' # NoCable => Cares(Router)') /\ (\E d \in Cont : pc'[d] # "off")
    BY <2>1, <2>2, <2>k DEF NoCable
  <2>5. \A d \in gaveup' : pc'[d] = "off"
    BY <2>1, <2>2
  <2>6. /\ cable' # [ns |-> 0, on |-> FALSE] => Cares(Router)'
        /\ bridge' => app' # {} \/ gaveup' # {} \/ \E d \in Cont : pc'[d] # "off"
        /\ app' = app
    BY ONLY <2>2, <2>4 DEF NoCable
  <2>7. \A a \in app' : a[2] <= boots'[a[1]] /\ (a[2] = boots'[a[1]] => Cares(a[1])')
    BY ONLY <2>3, <2>6
  <2>q. QED BY ONLY <2>5, <2>6, <2>7 DEF Owned
<1>3. ASSUME NEW c \in Cont, Setup(c) PROVE Owned'
  <2>1. CASE LockSegment(c)
    BY <2>1 DEF LockSegment
  <2>2. CASE WireFails(c)
    BY <2>2 DEF WireFails, Unlock, Release
  <2>3. CASE EnsureBridge(c)
    BY <2>3 DEF EnsureBridge
  <2>4. CASE EnsureCable(c)
    <3>1. /\ pc[c] = "cable" /\ (Step(c, "app") \/ Returns(c))
          /\ UNCHANGED <<boots, bridge, app, gaveup>>
      BY <2>4, <1>e DEF EnsureCable, Effects
    <3>2. /\ pc'[c] # "off"
          /\ \A d \in Cont : pc'[d] \in {"off", "count"} <=> pc[d] \in {"off", "count"}
      <4>1. pc'[c] \in {"scan", "boot", "app"} /\ \A d \in Cont \ {c} : pc'[d] = pc[d]
        BY <3>1 DEF Returns
      <4>q. QED BY ONLY <3>1, <4>1
    <3>3. cable' # NoCable => pc[Router] \notin Gone
      BY <2>4 DEF EnsureCable, NoCable
    <3>4. cable' # NoCable => Cares(Router)'
      BY <3>2, <3>3
    <3>5. (\A a \in app : a[1] \in Cont) /\ c \notin gaveup
      BY <3>1
    <3>6. \A d \in gaveup : pc'[d] = "off"
      BY <3>1, <3>5 DEF Returns
    <3>7. \A d \in Cont : Cares(d) => Cares(d)'
      BY <3>1, <3>2
    <3>q. QED BY <3>1, <3>2, <3>4, <3>5, <3>6, <3>7 DEF NoCable
  <2>5. CASE PlugClient(c)
    <3>1. pc[c] = "app" /\ Returns(c) /\ UNCHANGED <<ns, boots, bridge, cable, gaveup>>
      BY <2>5, <1>e DEF PlugClient, Effects
    <3>2. /\ pc'[c] # "off"
          /\ \A d \in Cont : pc'[d] \in {"off", "count"} <=> pc[d] \in {"off", "count"}
      <4>1. pc'[c] \in {"scan", "boot"} /\ \A d \in Cont \ {c} : pc'[d] = pc[d]
        BY <3>1 DEF Returns
      <4>q. QED BY ONLY <3>1, <4>1
    <3>3. PICK w \in Client \X (1..MaxBoot) : Plugs(w)
      BY <2>5, <1>e DEF Effects
    <3>4. ASSUME NEW a \in app'
          PROVE  a[2] <= boots[a[1]] /\ (a[2] = boots[a[1]] => Cares(a[1])')
      <4>1. CASE a \in app
        BY <3>1, <3>2, <4>1
      <4>2. CASE a \notin app
        <5>1. a = w /\ ns[w[1]] = w[2] /\ w[1] \in Cont /\ w[2] # 0
          BY <3>3, <3>4, <4>2 DEF Plugs
        <5>2. w[2] = boots[w[1]] /\ pc[w[1]] \notin Gone /\ boots[w[1]] \in Nat
          BY <5>1
        <5>3. Cares(w[1])'
          BY <3>2, <5>1, <5>2
        <5>4. \A n \in Nat : n <= n
          OBVIOUS
        <5>q. QED BY ONLY <5>1, <5>2, <5>3, <5>4
      <4>q. QED BY <4>1, <4>2
    <3>5. \A d \in gaveup : pc'[d] = "off"
      BY <3>1 DEF Returns
    <3>6. \A d \in Cont : Cares(d) => Cares(d)'
      BY <3>1, <3>2
    <3>q. QED BY <3>1, <3>2, <3>4, <3>5, <3>6
  <2>6. CASE ComesUp(c)
    BY <2>6 DEF ComesUp
  <2>q. QED BY <1>3, <2>1, <2>2, <2>3, <2>4, <2>5, <2>6 DEF Setup
<1>4. ASSUME NEW c \in Cont, Reboot(c) PROVE Owned'
  <2>1. /\ boots'[c] = boots[c] + 1
        /\ pc'[c] \in {"scan", "check"}
        /\ \A d \in Cont \ {c} : pc'[d] = pc[d] /\ boots'[d] = boots[d]
    BY <1>4, <1>e DEF Reboot, Effects, BootsAnew
  <2>2. /\ app' \subseteq app /\ cable' \in {cable, NoCable}
        /\ gaveup' = gaveup \ {c}
    BY <1>4, <1>e DEF Reboot, Effects, Ends, BootsAnew
  <2>3. \A d \in Cont : Cares(d) => Cares(d)'
    BY <2>1, <2>2
  <2>4. cable' # NoCable => Cares(Router)'
    BY <2>2, <2>3 DEF NoCable
  <2>5. ASSUME NEW a \in app'
        PROVE  a[2] <= boots'[a[1]] /\ (a[2] = boots'[a[1]] => Cares(a[1])')
    <3>1. a[2] <= boots[a[1]] /\ (a[2] = boots[a[1]] => Cares(a[1]))
      BY <2>2
    <3>2. a[1] \in Cont /\ a[2] \in Nat /\ boots[a[1]] \in Nat
      BY <2>2
    <3>3. CASE a[1] = c
      <4>1. boots'[a[1]] = boots[a[1]] + 1
        BY <2>1, <3>3
      <4>2. \A m, n \in Nat : m <= n => m <= n + 1 /\ m # n + 1
        OBVIOUS
      <4>q. QED BY ONLY <3>1, <3>2, <4>1, <4>2
    <3>4. CASE a[1] # c
      <4>1. boots'[a[1]] = boots[a[1]]
        BY <2>1, <3>2, <3>4
      <4>q. QED BY <2>3, <3>1, <3>2, <4>1
    <3>q. QED BY <3>3, <3>4
  <2>6. (\E d \in Cont : pc'[d] # "off") /\ \A d \in gaveup' : pc'[d] = "off"
    BY <2>1, <2>2
  <2>q. QED BY ONLY <2>4, <2>5, <2>6 DEF NoCable, Owned
<1>5. ASSUME NEW c \in Cont, Dies(c) PROVE Owned'
  BY <1>5 DEF Dies, NamespaceEnds
<1>6. ASSUME NEW c \in Cont, Cleanup(c) PROVE Owned'
  <2>1. CASE CleanupLocks(c)
    BY <2>1 DEF CleanupLocks
  <2>2. CASE Unplug(c)
    BY <2>2 DEF Unplug
  <2>3. CASE CountAndReap(c)
    <3>1. /\ pc[c] = "count" /\ pc' = [pc EXCEPT ![c] = "off"]
          /\ UNCHANGED <<boots, app, gaveup>>
      BY <2>3 DEF CountAndReap
    <3>k. \A d \in Cont : Cares(d) => Cares(d)'
      BY <3>1
    <3>g. \A d \in gaveup' : pc'[d] = "off"
      BY <3>1
    <3>a. \A a \in app' : a[2] <= boots'[a[1]] /\ (a[2] = boots'[a[1]] => Cares(a[1])')
      BY <3>1, <3>k
    <3>2. CASE MayReap(c)
      <4>1. bridge' = FALSE /\ cable' = [cable EXCEPT !.on = FALSE]
        BY <2>3, <3>2 DEF CountAndReap
      <4>2. cable' # [ns |-> 0, on |-> FALSE] => Cares(Router)
        <5>1. cable = [ns |-> 0, on |-> FALSE] => cable' = [ns |-> 0, on |-> FALSE]
          BY <1>k, <4>1 DEF NoCable
        <5>q. QED BY <5>1
      <4>3. cable' # [ns |-> 0, on |-> FALSE] => Cares(Router)'
        BY <3>k, <4>2
      <4>q. QED BY ONLY <3>a, <3>g, <4>1, <4>3 DEF Owned
    <3>3. CASE ~MayReap(c)
      <4>1. UNCHANGED <<bridge, cable>>
        BY <2>3, <3>3 DEF CountAndReap
      <4>2. app # {} \/ (c # Router /\ pc[Router] # "off")
        BY <3>3 DEF MayReap, gateway_pid_of, Running
      <4>3. cable' # [ns |-> 0, on |-> FALSE] => Cares(Router)'
        BY <3>k, <4>1
      <4>4. app' # {} \/ \E d \in Cont : pc'[d] # "off"
        BY <3>1, <4>2
      <4>q. QED BY ONLY <3>a, <3>g, <4>3, <4>4 DEF Owned
    <3>q. QED BY <3>2, <3>3
  <2>q. QED BY <1>6, <2>1, <2>2, <2>3 DEF Cleanup
<1>7. ASSUME NEW c \in Client, CheckGateway(c) PROVE Owned'
  BY <1>7 DEF CheckGateway, gateway_pid_of, Running
<1>8. CASE ScanNext
  <2>1. PICK d \in todo : Visits(d)
    BY <1>8, <1>e DEF Effects
  <2>2. pc[Router] = "scan" /\ pc'[Router] \in {"scan", "lock"}
    BY <1>8, <2>1 DEF ScanNext, Visits
  <2>3. UNCHANGED <<boots, bridge, cable, app, gaveup>>
    BY <1>8 DEF ScanNext
  <2>4. \A e \in Cont : pc'[e] = pc[e] \/ e = Router
    BY <2>1 DEF Visits
  <2>5. \A e \in Cont : Cares(e) => Cares(e)'
    BY <2>2, <2>3, <2>4
  <2>6. \A e \in gaveup' : pc'[e] = "off"
    BY <2>2, <2>3, <2>4
  <2>7. \A a \in app' : a[2] <= boots'[a[1]] /\ (a[2] = boots'[a[1]] => Cares(a[1])')
    <3>1. \A a \in app : a[1] \in Cont
      OBVIOUS
    <3>q. QED BY <2>3, <2>5, <3>1
  <2>8. cable' # [ns |-> 0, on |-> FALSE] => Cares(Router)'
    BY <2>3, <2>5
  <2>q. QED BY <2>2, <2>6, <2>7, <2>8 DEF Owned
<1>9. CASE ScanEnds
  BY <1>9 DEF ScanEnds
<1>10. ASSUME NEW c \in Cont, Faults(c) PROVE Owned'
  <2>1. CASE NoLock(c)
    BY <2>1 DEF NoLock
  <2>2. CASE NoSocket(c)
    BY <2>2 DEF NoSocket
  <2>q. QED BY <1>10, <2>1, <2>2 DEF Faults
<1>q. QED
  BY <1>1, <1>2, <1>3, <1>4, <1>5, <1>6, <1>7, <1>8, <1>9, <1>10 DEF Next

-----------------------------------------------------------------------------
(***************************************************************************)
(* The steps when one container changes at a time.                         *)
(***************************************************************************)

(* In the calm mode a container starts to change only when nobody does. *)
LEMMA OneChangesKept ==
  TypeOK /\ SegmentInv /\ CalmInv /\ mode = "calm" /\ [Next]_vars => OneChanges'
<1> SUFFICES ASSUME TypeOK, SegmentInv, CalmInv, mode = "calm", [Next]_vars PROVE OneChanges'
  OBVIOUS
<1>f. ~Lapses /\ ~Faulty
  BY DEF Lapses, Faulty
<1> USE <1>f
<1>e. Effects
  BY EffectsHold DEF SegmentInv
<1> USE GatewayAssumption DEF TypeOK, CalmInv, OneChanges, Settled, Quiet, Cont, Step,
        kernelVars
<1>1. CASE UNCHANGED vars
  BY <1>1 DEF vars, procVars
<1>2. ASSUME NEW c \in Cont, Start(c) PROVE OneChanges'
  BY <1>2 DEF Start, Boots, FirstStep
<1>3. ASSUME NEW c \in Cont, Setup(c) PROVE OneChanges'
  <2>1. CASE LockSegment(c)
    BY <2>1 DEF LockSegment
  <2>2. CASE WireFails(c)
    BY <2>2 DEF WireFails, Unlock, Release
  <2>3. CASE EnsureBridge(c)
    BY <2>3 DEF EnsureBridge
  <2>4. CASE EnsureCable(c)
    <3>1. Step(c, "app") \/ Returns(c)
      BY <2>4, <1>e DEF EnsureCable, Effects
    <3>2. pc[c] = "cable"
      BY <2>4 DEF EnsureCable
    <3>q. QED BY <3>1, <3>2 DEF Returns
  <2>5. CASE PlugClient(c)
    BY <2>5 DEF PlugClient, Unlock, Release
  <2>6. CASE ComesUp(c)
    BY <2>6 DEF ComesUp
  <2>q. QED BY <1>3, <2>1, <2>2, <2>3, <2>4, <2>5, <2>6 DEF Setup
<1>4. ASSUME NEW c \in Cont, Reboot(c) PROVE OneChanges'
  BY <1>4 DEF Reboot, Boots, FirstStep, NamespaceEnds
<1>5. ASSUME NEW c \in Cont, Dies(c) PROVE OneChanges'
  BY <1>5 DEF Dies, NamespaceEnds
<1>6. ASSUME NEW c \in Cont, Cleanup(c) PROVE OneChanges'
  <2>1. CASE CleanupLocks(c)
    BY <2>1 DEF CleanupLocks
  <2>2. CASE Unplug(c)
    BY <2>2 DEF Unplug
  <2>3. CASE CountAndReap(c)
    BY <2>3 DEF CountAndReap, MayReap, gateway_pid_of, Running, Release
  <2>q. QED BY <1>6, <2>1, <2>2, <2>3 DEF Cleanup
<1>7. ASSUME NEW c \in Client, CheckGateway(c) PROVE OneChanges'
  BY <1>7 DEF CheckGateway, gateway_pid_of, Running
<1>8. CASE ScanNext
  <2>1. pc[Router] = "scan" /\ \A d \in Client : pc'[d] = pc[d]
    BY <1>8, <1>e DEF ScanNext, Effects, Visits
  <2>q. QED BY <2>1
<1>9. CASE ScanEnds
  BY <1>9 DEF ScanEnds
<1>10. ASSUME NEW c \in Cont, Faults(c) PROVE OneChanges'
  <2>1. CASE NoLock(c)
    BY <2>1 DEF NoLock
  <2>2. CASE NoSocket(c)
    BY <2>2 DEF NoSocket
  <2>q. QED BY <1>10, <2>1, <2>2 DEF Faults
<1>q. QED
  BY <1>1, <1>2, <1>3, <1>4, <1>5, <1>6, <1>7, <1>8, <1>9, <1>10 DEF Next

(* In the calm mode a client wires itself to the router that is running. *)
LEMMA ClientWiresKept ==
  TypeOK /\ SegmentInv /\ CalmInv /\ mode = "calm" /\ [Next]_vars => ClientWires'
<1> SUFFICES ASSUME TypeOK, SegmentInv, CalmInv, mode = "calm", [Next]_vars PROVE ClientWires'
  OBVIOUS
<1>f. ~Lapses /\ ~Faulty
  BY DEF Lapses, Faulty
<1> USE <1>f
<1>e. Effects
  BY EffectsHold DEF SegmentInv
<1> USE GatewayAssumption DEF TypeOK, SegmentInv, LockHeld, Namespaces, BridgeThere,
        BridgeKept, CalmInv, OneChanges, Settled, ClientWires, RouterWires,
        StaysConnected, Connected, CableGood, Quiet, Running, Cont, Step, kernelVars,
        Gone, Wiring, Critical
<1>1. CASE UNCHANGED vars
  BY <1>1 DEF vars, procVars
<1>2. ASSUME NEW c \in Cont, Start(c) PROVE ClientWires'
  BY <1>2 DEF Start, Boots, FirstStep
<1>3. ASSUME NEW c \in Cont, Setup(c) PROVE ClientWires'
  <2>1. CASE LockSegment(c)
    BY <2>1 DEF LockSegment
  <2>2. CASE WireFails(c)
    BY <2>2 DEF WireFails, Unlock, Release
  <2>3. CASE EnsureBridge(c)
    BY <2>3 DEF EnsureBridge
  <2>4. CASE EnsureCable(c)
    BY <2>4 DEF EnsureCable, Unlock, Release
  <2>5. CASE PlugClient(c)
    BY <2>5 DEF PlugClient, Unlock, Release
  <2>6. CASE ComesUp(c)
    BY <2>6 DEF ComesUp
  <2>q. QED BY <1>3, <2>1, <2>2, <2>3, <2>4, <2>5, <2>6 DEF Setup
<1>4. ASSUME NEW c \in Cont, Reboot(c) PROVE ClientWires'
  BY <1>4 DEF Reboot, Boots, FirstStep, NamespaceEnds
<1>5. ASSUME NEW c \in Cont, Dies(c) PROVE ClientWires'
  BY <1>5 DEF Dies, NamespaceEnds
<1>6. ASSUME NEW c \in Cont, Cleanup(c) PROVE ClientWires'
  <2>1. CASE CleanupLocks(c)
    BY <2>1 DEF CleanupLocks
  <2>2. CASE Unplug(c)
    BY <2>2 DEF Unplug
  <2>3. CASE CountAndReap(c)
    BY <2>3 DEF CountAndReap, MayReap, gateway_pid_of, Running, Release
  <2>q. QED BY <1>6, <2>1, <2>2, <2>3 DEF Cleanup
<1>7. ASSUME NEW c \in Client, CheckGateway(c) PROVE ClientWires'
  BY <1>7 DEF CheckGateway, gateway_pid_of, Running
<1>8. CASE ScanNext
  BY <1>8, <1>e DEF ScanNext
<1>9. CASE ScanEnds
  BY <1>9 DEF ScanEnds
<1>10. ASSUME NEW c \in Cont, Faults(c) PROVE ClientWires'
  <2>1. CASE NoLock(c)
    BY <2>1 DEF NoLock
  <2>2. CASE NoSocket(c)
    BY <2>2 DEF NoSocket
  <2>q. QED BY <1>10, <2>1, <2>2 DEF Faults
<1>q. QED
  BY <1>1, <1>2, <1>3, <1>4, <1>5, <1>6, <1>7, <1>8, <1>9, <1>10 DEF Next

(* In the calm mode the router's scan connects every running client. *)
LEMMA RouterWiresKept ==
  TypeOK /\ SegmentInv /\ CalmInv /\ mode = "calm" /\ [Next]_vars => RouterWires'
<1> SUFFICES ASSUME TypeOK, SegmentInv, CalmInv, mode = "calm", [Next]_vars PROVE RouterWires'
  OBVIOUS
<1>f. ~Lapses /\ ~Faulty
  BY DEF Lapses, Faulty
<1> USE <1>f
<1>e. Effects
  BY EffectsHold DEF SegmentInv
<1> USE GatewayAssumption DEF TypeOK, SegmentInv, LockHeld, Namespaces, BridgeThere,
        BridgeKept, CalmInv, OneChanges, Settled, ClientWires, RouterWires,
        StaysConnected, Connected, CableGood, Quiet, Running, Cont, Step, kernelVars,
        Gone, Wiring, Critical
<1>1. CASE UNCHANGED vars
  BY <1>1 DEF vars, procVars
<1>2. ASSUME NEW c \in Cont, Start(c) PROVE RouterWires'
  BY <1>2 DEF Start, Boots, FirstStep
<1>3. ASSUME NEW c \in Cont, Setup(c) PROVE RouterWires'
  <2>1. CASE LockSegment(c)
    BY <2>1 DEF LockSegment
  <2>2. CASE WireFails(c)
    BY <2>2 DEF WireFails, Unlock, Release
  <2>3. CASE EnsureBridge(c)
    BY <2>3 DEF EnsureBridge
  <2>4. CASE EnsureCable(c)
    <3>0. pc[c] = "cable"
      BY <2>4 DEF EnsureCable
    <3>1. ns[Router] # 0 /\ Target(c) = ns[Router]
      <4>1. CASE c = Router
        BY <3>0, <4>1 DEF Target
      <4>2. CASE c # Router
        <5>1. Running(Router) /\ seen[c] = ns[Router]
          BY <3>0, <4>2
        <5>q. QED BY <4>2, <5>1 DEF Target
      <4>q. QED BY <4>1, <4>2
    <3>2. cable' = [ns |-> ns[Router], on |-> TRUE] /\ Step(c, "app") /\ pc[c] = "cable"
      BY <2>4, <3>0, <3>1 DEF EnsureCable
    <3>3. UNCHANGED <<mode, ns, boots, seen, todo, whom, bridge, app>>
      BY <2>4, <3>1 DEF EnsureCable
    <3>q. QED BY <3>2, <3>3
  <2>5. CASE PlugClient(c)
    <3>1. pc[c] = "app" /\ Returns(c) /\ UNCHANGED <<mode, ns, todo, bridge, cable>>
      BY <2>5, <1>e DEF PlugClient, Effects
    <3>2. CASE c = Router
      <4>1. whom[1] \in Client /\ ns[whom[1]] = whom[2] /\ whom = <<whom[1], whom[2]>>
        BY <3>1, <3>2
      <4>2. app' = app \cup {whom}
        BY <2>5, <3>2, <4>1 DEF PlugClient
      <4>q. QED BY <3>1, <3>2, <4>1, <4>2 DEF Returns
    <3>3. CASE c # Router
      BY <3>1, <3>3 DEF Returns
    <3>q. QED BY <3>2, <3>3
  <2>6. CASE ComesUp(c)
    BY <2>6 DEF ComesUp
  <2>q. QED BY <1>3, <2>1, <2>2, <2>3, <2>4, <2>5, <2>6 DEF Setup
<1>4. ASSUME NEW c \in Cont, Reboot(c) PROVE RouterWires'
  BY SMTT(60), <1>4 DEF Reboot, Boots, FirstStep, NamespaceEnds
<1>5. ASSUME NEW c \in Cont, Dies(c) PROVE RouterWires'
  BY <1>5 DEF Dies, NamespaceEnds
<1>6. ASSUME NEW c \in Cont, Cleanup(c) PROVE RouterWires'
  <2>1. CASE CleanupLocks(c)
    BY <2>1 DEF CleanupLocks
  <2>2. CASE Unplug(c)
    BY <2>2 DEF Unplug
  <2>3. CASE CountAndReap(c)
    BY <2>3 DEF CountAndReap, MayReap, gateway_pid_of, Running, Release
  <2>q. QED BY <1>6, <2>1, <2>2, <2>3 DEF Cleanup
<1>7. ASSUME NEW c \in Client, CheckGateway(c) PROVE RouterWires'
  BY <1>7 DEF CheckGateway, gateway_pid_of, Running
<1>8. CASE ScanNext
  <2>1. PICK d \in todo : Visits(d)
    BY <1>8, <1>e DEF Effects
  <2>2. pc[Router] = "scan" /\ UNCHANGED <<mode, ns, bridge, cable, app>>
    BY <1>8 DEF ScanNext
  <2>3. CASE ~Running(d)
    BY <2>1, <2>2, <2>3 DEF Visits
  <2>4. CASE Running(d)
    <3>1. pc'[Router] = "lock" /\ whom' = <<d, ns[d]>> /\ d \in Client /\ Router \notin Client
      BY <2>1, <2>4 DEF Visits
    <3>2. whom'[1] = d /\ whom'[2] = ns[d]
      BY <3>1
    <3>3. todo' = todo \ {d} /\ \A e \in Client : pc'[e] = pc[e]
      BY <2>1 DEF Visits
    <3>q. QED BY <2>2, <2>4, <3>1, <3>2, <3>3
  <2>q. QED BY <2>3, <2>4
<1>9. CASE ScanEnds
  BY <1>9 DEF ScanEnds
<1>10. ASSUME NEW c \in Cont, Faults(c) PROVE RouterWires'
  <2>1. CASE NoLock(c)
    BY <2>1 DEF NoLock
  <2>2. CASE NoSocket(c)
    BY <2>2 DEF NoSocket
  <2>q. QED BY <1>10, <2>1, <2>2 DEF Faults
<1>q. QED
  BY <1>1, <1>2, <1>3, <1>4, <1>5, <1>6, <1>7, <1>8, <1>9, <1>10 DEF Next

(* In the calm mode nobody disconnects a client of a running router. *)
LEMMA StaysConnectedKept ==
  TypeOK /\ SegmentInv /\ CalmInv /\ mode = "calm" /\ [Next]_vars => StaysConnected'
<1> SUFFICES ASSUME TypeOK, SegmentInv, CalmInv, mode = "calm", [Next]_vars PROVE StaysConnected'
  OBVIOUS
<1>f. ~Lapses /\ ~Faulty
  BY DEF Lapses, Faulty
<1> USE <1>f
<1>e. Effects
  BY EffectsHold DEF SegmentInv
<1> USE GatewayAssumption DEF TypeOK, SegmentInv, LockHeld, Namespaces, BridgeThere,
        BridgeKept, CalmInv, OneChanges, Settled, ClientWires, RouterWires,
        StaysConnected, Connected, CableGood, Quiet, Running, Cont, Step, kernelVars,
        Gone, Wiring, Critical
<1>1. CASE UNCHANGED vars
  BY <1>1 DEF vars, procVars
<1>2. ASSUME NEW c \in Cont, Start(c) PROVE StaysConnected'
  BY <1>2 DEF Start, Boots, FirstStep
<1>3. ASSUME NEW c \in Cont, Setup(c) PROVE StaysConnected'
  <2>1. CASE LockSegment(c)
    BY <2>1 DEF LockSegment
  <2>2. CASE WireFails(c)
    BY <2>2 DEF WireFails, Unlock, Release
  <2>3. CASE EnsureBridge(c)
    BY <2>3 DEF EnsureBridge
  <2>4. CASE EnsureCable(c)
    <3>0. pc[c] = "cable"
      BY <2>4 DEF EnsureCable
    <3>1. ns[Router] # 0 /\ Target(c) = ns[Router]
      <4>1. CASE c = Router
        BY <3>0, <4>1 DEF Target
      <4>2. CASE c # Router
        <5>1. Running(Router) /\ seen[c] = ns[Router]
          BY <3>0, <4>2
        <5>q. QED BY <4>2, <5>1 DEF Target
      <4>q. QED BY <4>1, <4>2
    <3>2. cable' = [ns |-> ns[Router], on |-> TRUE] /\ Step(c, "app") /\ pc[c] = "cable"
      BY <2>4, <3>0, <3>1 DEF EnsureCable
    <3>3. UNCHANGED <<mode, ns, boots, seen, todo, whom, bridge, app>>
      BY <2>4, <3>1 DEF EnsureCable
    <3>q. QED BY <3>2, <3>3
  <2>5. CASE PlugClient(c)
    BY <2>5 DEF PlugClient, Unlock, Release
  <2>6. CASE ComesUp(c)
    BY SMTT(60), <2>6 DEF ComesUp
  <2>q. QED BY <1>3, <2>1, <2>2, <2>3, <2>4, <2>5, <2>6 DEF Setup
<1>4. ASSUME NEW c \in Cont, Reboot(c) PROVE StaysConnected'
  BY <1>4 DEF Reboot, Boots, FirstStep, NamespaceEnds
<1>5. ASSUME NEW c \in Cont, Dies(c) PROVE StaysConnected'
  BY <1>5 DEF Dies, NamespaceEnds
<1>6. ASSUME NEW c \in Cont, Cleanup(c) PROVE StaysConnected'
  <2>1. CASE CleanupLocks(c)
    BY <2>1 DEF CleanupLocks
  <2>2. CASE Unplug(c)
    BY <2>2 DEF Unplug
  <2>3. CASE CountAndReap(c)
    BY <2>3 DEF CountAndReap, MayReap, gateway_pid_of, Running, Release
  <2>q. QED BY <1>6, <2>1, <2>2, <2>3 DEF Cleanup
<1>7. ASSUME NEW c \in Client, CheckGateway(c) PROVE StaysConnected'
  <2>1. Running(Router) => pc'[c] = "lock"
    <3>1. Running(Router) => ns[Router] # 0
      OBVIOUS
    <3>2. pc'[c] = IF gateway_pid_of = 0 THEN "boot" ELSE "lock"
      BY <1>7 DEF CheckGateway
    <3>q. QED BY <3>1, <3>2 DEF gateway_pid_of
  <2>2. \A d \in Cont \ {c} : pc'[d] = pc[d]
    BY <1>7 DEF CheckGateway
  <2>3. UNCHANGED <<ns, bridge, cable, app>>
    BY <1>7 DEF CheckGateway
  <2>q. QED BY SMTT(60), <2>1, <2>2, <2>3
<1>8. CASE ScanNext
  BY <1>8, <1>e DEF ScanNext
<1>9. CASE ScanEnds
  BY <1>9 DEF ScanEnds
<1>10. ASSUME NEW c \in Cont, Faults(c) PROVE StaysConnected'
  <2>1. CASE NoLock(c)
    BY <2>1 DEF NoLock
  <2>2. CASE NoSocket(c)
    BY <2>2 DEF NoSocket
  <2>q. QED BY <1>10, <2>1, <2>2 DEF Faults
<1>q. QED
  BY <1>1, <1>2, <1>3, <1>4, <1>5, <1>6, <1>7, <1>8, <1>9, <1>10 DEF Next

(* What may go wrong is settled from the start. *)
LEMMA ModeStays == [Next]_vars => mode' = mode
  BY DEF Next, vars, Start, Setup, LockSegment, WireFails, EnsureBridge, EnsureCable,
         PlugClient, ComesUp, Reboot, Dies, Cleanup, CleanupLocks, Unplug, CountAndReap,
         CheckGateway, ScanNext, ScanEnds, Faults, NoLock, NoSocket

-----------------------------------------------------------------------------
(* The invariant of the segment: every reachable state has the types, the  *)
(* lock discipline and an owner for every device.                          *)
THEOREM SegmentInvariant == Spec => [](TypeOK /\ SegmentInv)
<1>1. Init => TypeOK /\ SegmentInv
  <2> SUFFICES ASSUME Init PROVE TypeOK /\ SegmentInv
    OBVIOUS
  <2> USE GatewayAssumption DEF Init, Cont
  <2>0. 0 \in 0..MaxBoot
    OBVIOUS
  <2>1. TypeOK
    BY <2>0 DEF TypeOK
  <2>2. LockHeld /\ Namespaces /\ BridgeThere
    BY DEF LockHeld, Namespaces, BridgeThere, BridgeKept, Critical, Wiring, Gone
  <2>3. Owned
    BY DEF Owned
  <2>q. QED BY <2>1, <2>2, <2>3 DEF SegmentInv
<1>2. TypeOK /\ SegmentInv /\ [Next]_vars => (TypeOK /\ SegmentInv)'
  <2> SUFFICES ASSUME TypeOK, SegmentInv, [Next]_vars PROVE TypeOK' /\ SegmentInv'
    OBVIOUS
  <2>1. Lapses' <=> Lapses
    BY ModeStays DEF Lapses
  <2>q. QED
    BY <2>1, TypesKept, LockKept, NamespacesKept, BridgeThereKept, OwnedKept DEF SegmentInv
<1>q. QED
  BY <1>1, <1>2, PTL DEF Spec

(* The segment exists exactly as long as somebody needs it, for any number *)
(* of clients and boots, however starts, stops, reboots and failing        *)
(* wirings overlap: no cleanup reaps the bridge under a plugged client,    *)
(* and when all containers are off nothing is left but veths of namespaces *)
(* that somebody kept alive and what cleanups without a netlink socket     *)
(* left.  Calls that lapse unnoticed are not covered.                      *)
THEOREM SegmentExact == Spec => []BridgesExact
<1>1. TypeOK /\ SegmentInv => BridgesExact
  <2> SUFFICES ASSUME TypeOK, SegmentInv PROVE BridgesExact
    OBVIOUS
  <2> SUFFICES ASSUME ~Lapses PROVE BridgeKept /\ NothingLeft
    BY DEF BridgesExact
  <2>1. BridgeKept
    BY DEF SegmentInv, BridgeThere
  <2>2. ASSUME \A c \in Cont : pc[c] = "off"
        PROVE  /\ cable = [ns |-> 0, on |-> FALSE] \/ Router \in gaveup
               /\ \A a \in app : a[2] < boots[a[1]] \/ a[1] \in gaveup
               /\ bridge => app # {} \/ gaveup # {}
    <3>1. /\ cable = [ns |-> 0, on |-> FALSE] \/ Router \in gaveup
          /\ bridge => app # {} \/ gaveup # {}
      BY <2>2 DEF SegmentInv, Owned, Cares, Cont
    <3>2. ASSUME NEW a \in app, a[1] \notin gaveup PROVE a[2] < boots[a[1]]
      <4>1. a[1] \in Cont /\ a[2] \in Nat /\ boots[a[1]] \in Nat
        BY GatewayAssumption DEF TypeOK, Cont
      <4>2. a[2] <= boots[a[1]] /\ a[2] # boots[a[1]]
        BY <2>2, <3>2, <4>1 DEF SegmentInv, Owned, Cares
      <4>q. QED BY <4>1, <4>2
    <3>q. QED BY <3>1, <3>2
  <2>q. QED BY <2>1, <2>2 DEF NothingLeft
<1>q. QED
  BY <1>1, SegmentInvariant, PTL

(* Clients are wired whichever of client and gateway boots first and       *)
(* however often each reboots: when one container changes at a time, every *)
(* running client of a running gateway is connected to the gateway's       *)
(* present namespace, for any number of clients and boots.                 *)
THEOREM RunningClientsConnected == Spec => []ClientsConnected
<1>1. Init => CalmInv
  BY GatewayAssumption
     DEF Init, CalmInv, OneChanges, Settled, ClientWires, RouterWires, StaysConnected,
         Running, Wiring, Cont
<1>2. TypeOK /\ SegmentInv /\ CalmInv /\ [Next]_vars => CalmInv'
  <2> SUFFICES ASSUME TypeOK, SegmentInv, CalmInv, [Next]_vars, mode' = "calm"
               PROVE  (OneChanges /\ ClientWires /\ RouterWires /\ StaysConnected)'
    BY DEF CalmInv
  <2>1. mode = "calm"
    BY ModeStays
  <2>q. QED
    BY <2>1, OneChangesKept, ClientWiresKept, RouterWiresKept, StaysConnectedKept
<1>3. CalmInv => ClientsConnected
  BY DEF CalmInv, StaysConnected, ClientsConnected, Running
<1>q. QED
  BY <1>1, <1>2, <1>3, SegmentInvariant, PTL DEF Spec

=============================================================================
