----------------------------- MODULE MonitorNet -----------------------------
(***************************************************************************)
(* The network hand-shake of one NAT container and the threads of its      *)
(* monitor, over several boot cycles: monitor.c from reboot_loop to the    *)
(* next reboot, the child's side of the hand-shake in boot.c, the DHCP     *)
(* server thread (net/dhcp.c) and the start, end and reaping of the route  *)
(* monitor thread (net/network.c).                                         *)
(*                                                                         *)
(* The monitor's descriptor table is part of the state.  The monitor and   *)
(* its threads remember descriptors by number; the kernel hands out the    *)
(* lowest free number, and closing a number closes whatever is there now.  *)
(***************************************************************************)
EXTENDS Naturals, FiniteSets, Functions

CONSTANTS MaxCycle   \* boot cycles

ASSUME MonitorNetAssumption == MaxCycle \in Nat \ {0}

VARIABLES
  android,  \* is_android(): whether there is a route monitor at all
  mpc,      \* where the monitor is
  cycle,    \* the boot cycle
  fd,       \* the monitor's descriptors: what each number stands for
  num,      \* the numbers in cfg and in mid_sync_pipe; 0 is -1
  mid,      \* where the intermediate process is
  init,     \* where the container's init is
  bytes,    \* the pipes that hold their message
  dhcp,     \* g_dhcp: the thread, stop_efd, sock, stop
  rt,       \* the route monitor: the thread, its socket and its flags
  harmed    \* descriptors that somebody closed who did not own them

vars == <<android, mpc, cycle, fd, num, mid, init, bytes, dhcp, rt, harmed>>

Ends == <<"readyR", "readyW", "doneR", "doneW", "midR", "midW">>
NetEnds == {"readyR", "readyW", "doneR", "doneW"}
Free == "free"
Fd == 1..10

(* Every variable stays within its type; a thread in its loop has a        *)
(* socket, whatever has become of it.                                      *)
TypeOK ==
  /\ rt.pc = "loop" => rt.sock # 0
  /\ dhcp.pc = "poll" => dhcp.sock # 0 /\ dhcp.efd # 0
  /\ android \in BOOLEAN /\ cycle \in 1..MaxCycle
  /\ mpc \in {"loop", "pipes", "fork", "pid", "ready", "veth", "dhcp", "listen",
              "reap", "create", "rewire", "done", "signalfd", "watch", "stopdhcp", "cleanup",
              "joinroute", "lastdhcp", "exit", "gone", "killed"}
  /\ fd \in [Fd -> Range(Ends) \cup {Free, "eventfd", "packet", "netlink", "signalfd"}]
  /\ num \in [Range(Ends) \cup {"signalfd"} -> Fd \cup {0}]
  /\ mid \in {"none", "start", "send", "wait", "dead"}
  /\ init \in {"none", "start", "wait", "run", "reboot", "dead"}
  /\ bytes \subseteq {"pid", "ready", "done"}
  /\ dhcp \in [pc : {"none", "start", "poll", "close", "dead"}, efd : Fd \cup {0},
               sock : Fd \cup {0}, stop : BOOLEAN]
  /\ rt \in [pc : {"none", "start", "loop", "close", "dead"}, sock : Fd \cup {0},
             started : BOOLEAN, join : BOOLEAN, stop : BOOLEAN]
  /\ harmed \subseteq Range(Ends) \cup {"eventfd", "packet", "netlink", "signalfd"}

Init ==
  /\ android \in BOOLEAN /\ mpc = "loop" /\ cycle = 1
  /\ fd = [n \in Fd |-> Free] /\ num = [e \in Range(Ends) \cup {"signalfd"} |-> 0]
  /\ mid = "none" /\ init = "none" /\ bytes = {} /\ harmed = {}
  /\ dhcp = [pc |-> "none", efd |-> 0, sock |-> 0, stop |-> FALSE]
  /\ rt = [pc |-> "none", sock |-> 0, started |-> FALSE, join |-> FALSE, stop |-> FALSE]

-----------------------------------------------------------------------------
(* The kernel's descriptor table: the i-th lowest free number. *)
FreeNumber(i) ==
  CHOOSE n \in Fd : fd[n] = Free /\ Cardinality({k \in 1..n : fd[k] = Free}) = i

NextFd == FreeNumber(1)

Opened(what) == [fd EXCEPT ![NextFd] = what]

(* close() of the numbers in ns by somebody who owns only the descriptors  *)
(* in own; closing a free number is an EBADF that nobody looks at.  An     *)
(* eventfd without a thread belongs to nobody.                             *)
Close(ns, own) ==
  /\ fd' = [n \in Fd |-> IF n \in ns THEN Free ELSE fd[n]]
  /\ harmed' = harmed \cup {w \in {fd[n] : n \in ns \cap Fd} \ (own \cup {Free}) :
                             w = "eventfd" => dhcp.pc # "none"}

-----------------------------------------------------------------------------
(***************************************************************************)
(* ds_monitor_run.                                                         *)
(***************************************************************************)
At(pc, next) == mpc = pc /\ mpc' = next

(* reboot_loop: the numbers of the previous cycle's pipes are closed once  *)
(* more; the hand-shake has closed them and has not reset them.            *)
CloseStale ==
  /\ At("loop", "pipes")
  /\ Close({num[e] : e \in NetEnds}, NetEnds)
  /\ num' = [e \in DOMAIN num |-> IF e \in NetEnds THEN 0 ELSE num[e]]
  /\ UNCHANGED <<android, cycle, mid, init, bytes, dhcp, rt>>

(* Three pipes, in this order. *)
MakePipes ==
  /\ At("pipes", "fork")
  /\ LET end == [i \in 1..6 |-> FreeNumber(i)] IN
       /\ fd' = [n \in Fd |-> IF \E i \in 1..6 : end[i] = n
                              THEN Ends[CHOOSE i \in 1..6 : end[i] = n] ELSE fd[n]]
       /\ num' = [e \in DOMAIN num |-> IF \E i \in 1..6 : Ends[i] = e
                              THEN end[CHOOSE i \in 1..6 : Ends[i] = e] ELSE num[e]]
  /\ bytes' = {}
  /\ UNCHANGED <<android, cycle, mid, init, dhcp, rt, harmed>>

ForkMid ==
  /\ At("fork", "pid") /\ mid' = "start" /\ init' = "none"
  /\ Close({num["midW"]}, {"midW"})
  /\ UNCHANGED <<android, cycle, num, bytes, dhcp, rt>>

(* The pid of init, or end of file or an error: then the whole hand-shake  *)
(* is left out.                                                            *)
ReadPid ==
  /\ mpc = "pid"
  /\ \/ /\ fd[num["midR"]] = "midR" /\ "pid" \in bytes
        /\ Close({num[e] : e \in {"midR", "readyW", "doneR"}}, {"midR", "readyW", "doneR"})
        /\ mpc' = "ready"
     \/ /\ fd[num["midR"]] # "midR" \/ ("pid" \notin bytes /\ mid = "dead")
        /\ Close({num["midR"]}, {"midR"}) /\ mpc' = "signalfd"
  /\ UNCHANGED <<android, cycle, num, mid, init, bytes, dhcp, rt>>

(* A byte, end of file, or an error: all three go on. *)
ReadReady ==
  /\ At("ready", "veth")
  /\ "ready" \in bytes \/ (init = "dead" /\ mid = "dead") \/ fd[num["readyR"]] # "readyR"
  /\ Close({num["readyR"]}, {"readyR"})
  /\ UNCHANGED <<android, cycle, num, mid, init, bytes, dhcp, rt>>

SetupVeth_SkipDone ==
  /\ mpc = "veth"
  /\ \/ init # "dead" /\ mpc' = "dhcp"
     \/ mpc' = "signalfd"
  /\ UNCHANGED <<android, cycle, fd, num, mid, init, bytes, dhcp, rt, harmed>>

(* setup_veth_host_side moves the veth into the namespace of a live init.  *)
SetupVeth ==
  /\ mpc = "veth"
  /\ \/ init # "dead" /\ mpc' = "dhcp"
     \/ mpc' = "rewire"
  /\ UNCHANGED <<android, cycle, fd, num, mid, init, bytes, dhcp, rt, harmed>>

(* ds_dhcp_server_start: the context is cleared; eventfd or pthread_create *)
(* may fail, and the eventfd of the second case stays open.                *)
DhcpStart ==
  /\ mpc = "dhcp"
  /\ \/ /\ fd' = Opened("eventfd") /\ mpc' = "listen"
        /\ dhcp' = [pc |-> "start", efd |-> NextFd, sock |-> 0, stop |-> FALSE]
     \/ /\ fd' = Opened("eventfd") /\ mpc' = "reap"
        /\ dhcp' = [pc |-> "none", efd |-> NextFd, sock |-> 0, stop |-> FALSE]
     \/ /\ dhcp' = [pc |-> "none", efd |-> 0, sock |-> 0, stop |-> FALSE]
        /\ mpc' = "reap" /\ UNCHANGED fd
  /\ UNCHANGED <<android, cycle, num, mid, init, bytes, rt, harmed>>

(* The wait for the thread's ready flag. *)
DhcpListens ==
  /\ At("listen", "reap") /\ dhcp.pc # "start"
  /\ UNCHANGED <<android, cycle, fd, num, mid, init, bytes, dhcp, rt, harmed>>

RouteReap_NoJoin ==
  /\ mpc = "reap"
  /\ \/ (~android \/ rt.started) /\ mpc' = "rewire" /\ UNCHANGED rt
     \/ android /\ ~rt.started /\ mpc' = "create" /\ UNCHANGED rt
  /\ UNCHANGED <<android, cycle, fd, num, mid, init, bytes, dhcp, harmed>>

(* ds_net_start_route_monitor: nothing to do off Android or while the flag *)
(* says that a thread runs; a thread that ended by itself is joined first. *)
RouteReap ==
  /\ mpc = "reap"
  /\ \/ (~android \/ rt.started) /\ mpc' = "rewire" /\ UNCHANGED rt
     \/ /\ android /\ ~rt.started /\ mpc' = "create"
        /\ rt.join => rt.pc = "dead"
        /\ rt' = [rt EXCEPT !.join = FALSE, !.pc = "none"]
  /\ UNCHANGED <<android, cycle, fd, num, mid, init, bytes, dhcp, harmed>>

RouteCreate ==
  /\ At("create", "rewire")
  /\ \/ rt' = [rt EXCEPT !.stop = FALSE]
     \/ rt' = [pc |-> "start", sock |-> 0, started |-> TRUE, join |-> TRUE, stop |-> FALSE]
  /\ UNCHANGED <<android, cycle, fd, num, mid, init, bytes, dhcp, harmed>>

Rewire_DoneFirst ==
  /\ At("rewire", "done") /\ bytes' = bytes \cup {"done"}
  /\ UNCHANGED <<android, cycle, fd, num, mid, init, dhcp, rt, harmed>>

(* ds_net_rewire_gateway_clients: the last change to the namespace before  *)
(* init may go on.                                                         *)
Rewire ==
  /\ At("rewire", "done")
  /\ UNCHANGED <<android, cycle, fd, num, mid, init, bytes, dhcp, rt, harmed>>

(* The hand-shake is written to the number of the pipe, whatever is there. *)
SendDone ==
  /\ At("done", "signalfd")
  /\ bytes' = bytes \cup IF fd[num["doneW"]] = "doneW" THEN {"done"} ELSE {}
  /\ Close({num["doneW"]}, {"doneW"})
  /\ UNCHANGED <<android, cycle, num, mid, init, dhcp, rt>>

OpenSignalfd ==
  /\ At("signalfd", "watch")
  /\ fd' = Opened("signalfd") /\ num' = [num EXCEPT !["signalfd"] = NextFd]
  /\ UNCHANGED <<android, cycle, mid, init, bytes, dhcp, rt, harmed>>

(* The intermediate has exited: a reboot, a shutdown, or either with an    *)
(* external command holding the lock.                                      *)
Reaped ==
  /\ mpc = "watch" /\ mid = "dead"
  /\ \/ init = "reboot" /\ mpc' = "stopdhcp"
     \/ init # "reboot" /\ mpc' = "cleanup"
     \/ mpc' = "exit"
  /\ Close({num["signalfd"]}, {"signalfd"})
  /\ UNCHANGED <<android, cycle, num, mid, init, bytes, dhcp, rt>>

(* ds_dhcp_server_stop on the way to the next cycle, up to the join. *)
DhcpStop(next) ==
  \/ dhcp.pc = "none" /\ mpc' = next /\ UNCHANGED dhcp
  \/ dhcp.pc # "none" /\ dhcp' = [dhcp EXCEPT !.stop = TRUE] /\ UNCHANGED mpc

DhcpJoin(next) ==
  /\ dhcp.pc = "dead" /\ mpc' = next
  /\ dhcp' = [dhcp EXCEPT !.pc = "none", !.efd = 0]
  /\ Close({dhcp.efd}, {"eventfd"})

Reboot_ThreadKept ==
  /\ At("stopdhcp", "loop") /\ cycle' = cycle + 1
  /\ UNCHANGED <<android, fd, num, mid, init, bytes, dhcp, rt, harmed>>

Reboot ==
  /\ mpc = "stopdhcp"
  /\ \/ DhcpStop("loop") /\ UNCHANGED <<fd, harmed>>
     \/ DhcpJoin("loop")
  /\ cycle' = IF mpc' = "loop" THEN cycle + 1 ELSE cycle
  /\ UNCHANGED <<android, num, mid, init, bytes, rt>>

(* ds_net_cleanup: the route monitor is stopped and joined, then the DHCP  *)
(* server if this was the last container.                                  *)
StopRouteMonitor ==
  /\ At("cleanup", "joinroute")
  /\ rt' = [rt EXCEPT !.stop = TRUE]
  /\ UNCHANGED <<android, cycle, fd, num, mid, init, bytes, dhcp, harmed>>

JoinRouteMonitor ==
  /\ mpc = "joinroute" /\ (rt.join => rt.pc = "dead")
  /\ mpc' \in {"lastdhcp", "exit"}
  /\ rt' = [rt EXCEPT !.join = FALSE, !.started = FALSE, !.pc = "none"]
  /\ UNCHANGED <<android, cycle, fd, num, mid, init, bytes, dhcp, harmed>>

LastDhcpStop ==
  /\ mpc = "lastdhcp"
  /\ \/ DhcpStop("exit") /\ UNCHANGED <<fd, harmed>>
     \/ DhcpJoin("exit")
  /\ UNCHANGED <<android, cycle, num, mid, init, bytes, rt>>

(* The end of the process ends its threads and closes its descriptors. *)
Gone(how) ==
  /\ mpc' = how /\ fd' = [n \in Fd |-> Free]
  /\ rt' = [rt EXCEPT !.pc = "none"] /\ dhcp' = [dhcp EXCEPT !.pc = "none"]
  /\ UNCHANGED <<android, cycle, num, mid, init, bytes, harmed>>

(* _exit: after the cleanup, or past it when pipe() or fork() fails. *)
Exit == mpc \in {"exit", "pipes", "fork"} /\ Gone("gone")

(* SIGKILL, the one signal the monitor does not ignore. *)
Killed == mpc \notin {"gone", "killed"} /\ Gone("killed")

-----------------------------------------------------------------------------
(***************************************************************************)
(* The intermediate process and init.  Both start with copies of all       *)
(* pipe ends; the intermediate keeps those of the hand-shake for its life. *)
(***************************************************************************)
MidForks ==
  /\ mid = "start"
  /\ \/ mid' = "send" /\ init' = "start"
     \/ mid' = "dead" /\ init' = "dead"
  /\ UNCHANGED <<android, mpc, cycle, fd, num, bytes, dhcp, rt, harmed>>

MidSends ==
  /\ mid = "send" /\ mid' = "wait" /\ bytes' = bytes \cup {"pid"}
  /\ UNCHANGED <<android, mpc, cycle, fd, num, init, dhcp, rt, harmed>>

MidExits ==
  /\ mid = "wait" /\ init \in {"dead", "reboot"} /\ mid' = "dead"
  /\ UNCHANGED <<android, mpc, cycle, fd, num, init, bytes, dhcp, rt, harmed>>

InitReady ==
  /\ init = "start" /\ init' = "wait" /\ bytes' = bytes \cup {"ready"}
  /\ UNCHANGED <<android, mpc, cycle, fd, num, mid, dhcp, rt, harmed>>

(* The read ends with the hand-shake or, once no write end is left, with   *)
(* end of file; the monitor's end and the intermediate's are the last.     *)
InitDone ==
  /\ init = "wait" /\ init' = "run"
  /\ \/ "done" \in bytes
     \/ mid = "dead" /\ \A n \in Fd : fd[n] # "doneW"
  /\ UNCHANGED <<android, mpc, cycle, fd, num, mid, bytes, dhcp, rt, harmed>>

InitReboots ==
  /\ init = "run" /\ init' = "reboot" /\ cycle < MaxCycle
  /\ UNCHANGED <<android, mpc, cycle, fd, num, mid, bytes, dhcp, rt, harmed>>

InitDies ==
  /\ init \in {"start", "wait", "run"} /\ init' = "dead"
  /\ UNCHANGED <<android, mpc, cycle, fd, num, mid, bytes, dhcp, rt, harmed>>

-----------------------------------------------------------------------------
(***************************************************************************)
(* dhcp_server_loop.                                                       *)
(***************************************************************************)
DhcpBind ==
  /\ dhcp.pc = "start"
  /\ \/ dhcp' = [dhcp EXCEPT !.pc = "close"] /\ UNCHANGED fd
     \/ /\ \E s \in {"poll", "close"} : dhcp' = [dhcp EXCEPT !.pc = s, !.sock = NextFd]
        /\ fd' = Opened("packet")
  /\ UNCHANGED <<android, mpc, cycle, num, mid, init, bytes, rt, harmed>>

(* poll returns for the eventfd. *)
DhcpEnds ==
  /\ dhcp.pc = "poll" /\ dhcp' = [dhcp EXCEPT !.pc = "close"]
  /\ dhcp.stop /\ fd[dhcp.efd] = "eventfd"
  /\ UNCHANGED <<android, mpc, cycle, fd, num, mid, init, bytes, rt, harmed>>

(* The link of a dead container is down, or the socket is not the thread's *)
(* any more, and recvfrom fails.                                           *)
DhcpRecvFails ==
  /\ dhcp.pc = "poll" /\ dhcp' = [dhcp EXCEPT !.pc = "close"]
  /\ init \in {"dead", "reboot"} \/ fd[dhcp.sock] # "packet"
  /\ UNCHANGED <<android, mpc, cycle, fd, num, mid, init, bytes, rt, harmed>>

DhcpCloses ==
  /\ dhcp.pc = "close" /\ dhcp' = [dhcp EXCEPT !.pc = "dead", !.sock = 0]
  /\ Close({dhcp.sock}, {"packet"})
  /\ UNCHANGED <<android, mpc, cycle, num, mid, init, bytes, rt>>

-----------------------------------------------------------------------------
(***************************************************************************)
(* route_monitor_loop, as far as its descriptor and its flags go.          *)
(***************************************************************************)

(* socket() or bind() may fail: the thread returns with started still set. *)
RouteBinds ==
  /\ rt.pc = "start"
  /\ \/ /\ rt' = [rt EXCEPT !.pc = "loop", !.sock = NextFd]
        /\ fd' = Opened("netlink")
     \/ rt' = [rt EXCEPT !.pc = "dead"] /\ UNCHANGED fd
  /\ UNCHANGED <<android, mpc, cycle, num, mid, init, bytes, dhcp, harmed>>

(* The flag is seen, or recv fails because the number is not the socket.   *)
RouteEnds ==
  /\ rt.pc = "loop" /\ rt' = [rt EXCEPT !.pc = "close"]
  /\ rt.stop \/ fd[rt.sock] # "netlink"
  /\ UNCHANGED <<android, mpc, cycle, fd, num, mid, init, bytes, dhcp, harmed>>

RouteCloses ==
  /\ rt.pc = "close"
  /\ rt' = [rt EXCEPT !.pc = "dead", !.sock = 0, !.started = FALSE]
  /\ Close({rt.sock}, {"netlink"})
  /\ UNCHANGED <<android, mpc, cycle, num, mid, init, bytes, dhcp>>

-----------------------------------------------------------------------------
Monitor ==
  \/ CloseStale \/ MakePipes \/ ForkMid \/ ReadPid \/ ReadReady \/ SetupVeth
  \/ DhcpStart \/ DhcpListens \/ RouteReap \/ RouteCreate \/ Rewire \/ SendDone
  \/ OpenSignalfd \/ Reaped \/ Reboot \/ StopRouteMonitor \/ JoinRouteMonitor
  \/ LastDhcpStop \/ Exit

Mid == MidForks \/ MidSends \/ MidExits

InitBoots == InitReady \/ InitDone

DhcpThread == DhcpBind \/ DhcpEnds \/ DhcpCloses

RouteThread == RouteBinds \/ RouteEnds \/ RouteCloses

Next ==
  \/ Monitor \/ Killed \/ Mid \/ InitBoots \/ InitReboots \/ InitDies
  \/ DhcpThread \/ DhcpRecvFails \/ RouteThread

Spec == Init /\ [][Next]_vars

(* Processes and threads that can run do; nobody has to die or reboot.     *)
FairSpec ==
  /\ Spec /\ WF_vars(Monitor) /\ WF_vars(Mid) /\ WF_vars(InitBoots)
  /\ WF_vars(DhcpThread) /\ WF_vars(RouteThread)

-----------------------------------------------------------------------------
(* Nobody closes a descriptor that somebody else is using, except where    *)
(* the stale numbers of reboot_loop hit the route monitor's socket, which  *)
(* only an Android host has: there every later harm follows from that one. *)
NoForeignClose == harmed # {} => android /\ "netlink" \in harmed

(* ds_dhcp_server_start clears the context only when no server thread is   *)
(* left that uses it: the reboot has joined the previous one.              *)
ContextIsFree == mpc = "dhcp" => dhcp.pc = "none"

(* While the monitor still changes the network namespace of the container, *)
(* init is dead or held at the hand-shake: wire first, then unblock.       *)
WiredBeforeBoot ==
  mpc \in {"pid", "ready", "veth", "dhcp", "listen", "reap", "create", "rewire", "done"}
    => init # "run"

(* A boot cycle leaves no descriptor behind: when the next one has its     *)
(* pipes, only these and the route monitor's socket are open.              *)
NoLeak ==
  mpc = "fork" /\ harmed = {} =>
    \A n \in Fd : \/ fd[n] \in {Free, "netlink"}
                   \/ (fd[n] \in Range(Ends) /\ n = num[fd[n]])

(* g_route_monitor_tid is overwritten only after its thread was joined.    *)
ThreadReaped == mpc = "create" => rt.pc = "none"

(* Init is not held at the hand-shake for ever, whichever step fails, as   *)
(* long as the monitor lives and its descriptors are its own.              *)
InitReleased == init = "wait" ~> init # "wait" \/ mpc = "killed" \/ harmed # {}

(* When the container is gone the monitor boots it again or exits; it is   *)
(* not held by a read or by the join of a thread.                          *)
MonitorGoesOn ==
  mid = "dead" ~> mid # "dead" \/ mpc \in {"gone", "killed"} \/ harmed # {}

(* Every descriptor number of the monitor process has one owner at a time, *)
(* who closes it once: no close hits another owner's descriptor and no     *)
(* boot cycle leaks one.                                                   *)
DescriptorsOnce == TypeOK /\ NoForeignClose /\ NoLeak

(* A thread is joined before its context or its id is used for the next.   *)
ThreadOwned == ContextIsFree /\ ThreadReaped

(* Neither side of the hand-shake, nor the reboot after it, waits for ever.*)
HandshakeEnds == InitReleased /\ MonitorGoesOn
=============================================================================
