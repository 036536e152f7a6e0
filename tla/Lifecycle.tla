----------------------------- MODULE Lifecycle ------------------------------
(***************************************************************************)
(* The life of one container: the start, stop and restart commands         *)
(* (container.c), the monitor that each start leaves behind (monitor.c),   *)
(* the container's init (boot.c), and the files they coordinate through:   *)
(* the external command lock of module ExternalLock, the pidfile, its      *)
(* .mount sidecar and the mount of the rootfs image.                       *)
(*                                                                         *)
(* A step is what a process does between two looks at state it shares with *)
(* another process.  Host process ids of container inits are 1..MaxInit,   *)
(* handed out in order; 0 stands for no pid.                               *)
(*                                                                         *)
(* Two constants separate what the code guarantees from what it leaves to  *)
(* timing.  Under Prompt every process is scheduled in time: a start has   *)
(* written its files before the init it forked can fail, the marker        *)
(* appears within the five seconds a start polls for it, an init that got  *)
(* SIGKILL is reaped within five seconds, a monitor has looked at the lock *)
(* by the time a stop (which polls every 200 ms) has noticed that the init *)
(* is gone, and a monitor that has read the lock has unlinked it or not    *)
(* before a command writes it anew.  Under Serial users run one command at *)
(* a time, each after the process of the one before has exited, and the    *)
(* container does not power off on its own while a start is at work.       *)
(***************************************************************************)
EXTENDS ExternalLock, FiniteSets

CONSTANTS MaxInit,     \* bound: how many inits are ever forked
          MaxUuid,     \* bound: how many UUIDs are ever generated
          Commands,    \* the commands users run
          Img,         \* the rootfs is an image that is mounted on the host
          Android,     \* is_android()
          Preboot,     \* the container is already up in the initial state
          Prompt,      \* processes are scheduled in time
          Serial,      \* one command at a time
          CanDie,      \* commands may be killed
          NoMonitor    \* no monitor

ASSUME LifecycleAssumption ==
  /\ MaxInit \in Nat \ {0} /\ MaxUuid \in Nat \ {0}
  /\ Commands \subseteq {"start", "stop", "restart"}
  /\ {Img, Android, Preboot, Prompt, Serial, CanDie} \subseteq BOOLEAN
  /\ NoMonitor \notin Monitor
  /\ Preboot => Monitor # {}

VARIABLES
  pidfile,    \* the pid in <name>.pid, 0 when the file does not exist
  mountRec,   \* the .mount sidecar exists
  mounted,    \* the image is mounted at the container's mount point
  unsaved,    \* history: the last start could not save its .mount sidecar
  cfgUuid,    \* the UUID in container.config
  init,       \* init[i]: the state of container init i
  by,         \* by[i]: the monitor that forked init i
  cmd, pc,    \* each CLI process: its command and where it is in it
  phase,      \* is it in stop_rootfs or in start_rootfs?
  la,         \* start_rootfs: lock_acquired
  knowsMount, \* cfg->img_mount_point is set
  target,     \* the container pid the command works on
  uuid,       \* cfg->uuid
  mine,       \* the monitor the command forked
  mpc,        \* each monitor: where it is in ds_monitor_run
  cur,        \* the init of its current boot cycle
  sent,       \* the pid its intermediate wrote to the sync pipe
  first,      \* first boot cycle (the sync pipe is still open)
  mexit,      \* how its intermediate exited
  muuid,      \* the monitor's cfg->uuid
  mknows      \* the monitor's cfg->img_mount_point is set

fileVars == <<pidfile, mountRec, mounted, unsaved>>
initVars == <<init, by>>
cliVars  == <<cmd, pc, phase, la, knowsMount, target, uuid, mine>>
monVars  == <<mpc, cur, sent, first, mexit, muuid, mknows>>
vars == <<lockVars, fileVars, cfgUuid, initVars, cliVars, monVars>>

InitPid == 1..MaxInit
InitState == {"none", "boot", "guarded", "up", "zhup", "zexit", "dead"}
Zombie == {"zhup", "zexit"}
Booting == {"boot", "guarded"}
CliPc == {"idle", "rcheck", "acquire", "running", "signal", "wait", "kill",
          "prune", "unmount", "unlink", "reload", "handoff", "hacquire",
          "hrelease", "unique", "mount", "initbin", "uuid", "fork", "await",
          "eofrel", "pid", "sidecar", "poll", "console",
          "relok", "relfail", "ok", "fail"}
MonPc == {"none", "pre", "fork", "report", "watch", "check", "reload",
          "prune", "unmount", "unlink", "gone", "yielded", "crashed"}

(* Every variable stays within its type; for one, a restart never goes on  *)
(* without a UUID after it has reset and reloaded its configuration.       *)
TypeOK ==
  /\ LockTypeOK
  /\ pidfile \in 0..MaxInit /\ mountRec \in BOOLEAN /\ mounted \in BOOLEAN
  /\ unsaved \in BOOLEAN
  /\ cfgUuid \in 1..MaxUuid
  /\ init \in [InitPid -> InitState] /\ by \in [InitPid -> Monitor \cup {NoMonitor}]
  /\ cmd \in [Cli -> Commands \cup {"none"}] /\ pc \in [Cli -> CliPc]
  /\ phase \in [Cli -> {"stop", "start"}] /\ la \in [Cli -> BOOLEAN]
  /\ knowsMount \in [Cli -> BOOLEAN] /\ target \in [Cli -> 0..MaxInit]
  /\ uuid \in [Cli -> 1..MaxUuid] /\ mine \in [Cli -> Monitor \cup {NoMonitor}]
  /\ mpc \in [Monitor -> MonPc] /\ cur \in [Monitor -> 0..MaxInit]
  /\ sent \in [Monitor -> 0..MaxInit] /\ first \in [Monitor -> BOOLEAN]
  /\ mexit \in [Monitor -> {"run", "reboot", "exit"}]
  /\ muuid \in [Monitor -> 1..MaxUuid] /\ mknows \in [Monitor -> BOOLEAN]

(* Nothing runs; or one container is up, as a completed start leaves it. *)
Init ==
  LET m0 == CHOOSE m \in Monitor : TRUE
      watching(m) == Preboot /\ m = m0 IN
  /\ LockInit
  /\ pidfile = (IF Preboot THEN 1 ELSE 0)
  /\ mountRec = (Preboot /\ Img) /\ mounted = (Preboot /\ Img) /\ unsaved = FALSE
  /\ cfgUuid = 1
  /\ init = [i \in InitPid |-> IF Preboot /\ i = 1 THEN "up" ELSE "none"]
  /\ by = [i \in InitPid |-> IF Preboot /\ i = 1 THEN m0 ELSE NoMonitor]
  /\ cmd = [c \in Cli |-> "none"] /\ pc = [c \in Cli |-> "idle"]
  /\ phase = [c \in Cli |-> "stop"] /\ la = [c \in Cli |-> FALSE]
  /\ knowsMount = [c \in Cli |-> FALSE] /\ target = [c \in Cli |-> 0]
  /\ uuid = [c \in Cli |-> 1] /\ mine = [c \in Cli |-> NoMonitor]
  /\ mpc = [m \in Monitor |-> IF watching(m) THEN "watch" ELSE "none"]
  /\ cur = [m \in Monitor |-> IF watching(m) THEN 1 ELSE 0]
  /\ sent = [m \in Monitor |-> IF watching(m) THEN 1 ELSE 0]
  /\ first = [m \in Monitor |-> ~watching(m)]
  /\ mexit = [m \in Monitor |-> "run"]
  /\ muuid = [m \in Monitor |-> 1]
  /\ mknows = [m \in Monitor |-> watching(m) /\ Img]

-----------------------------------------------------------------------------
(* read_and_validate_pid and is_valid_container_pid: the process exists    *)
(* and shows the marker /run/droidspaces, which a booting init does not    *)
(* have yet and a zombie no longer has.                                    *)
ValidPid(p) == p # 0 /\ init[p] = "up"

(* find_container_init_pid: the running init that carries UUID u, 0 if none. *)
find_container_init_pid(u) ==
  LET found == {i \in InitPid : init[i] = "up" /\ muuid[by[i]] = u} IN
  IF found = {} THEN 0 ELSE CHOOSE i \in found : \A j \in found : i <= j

(* is_container_running: the pidfile first, then the UUID scan, which      *)
(* rewrites a missing or stale pidfile.                                    *)
RunningPid_NoScan(u) == IF ValidPid(pidfile) THEN pidfile ELSE 0
RunningPid(u) == IF ValidPid(pidfile) THEN pidfile ELSE find_container_init_pid(u)
SelfHeal(u) == pidfile' = IF RunningPid(u) = 0 THEN pidfile ELSE RunningPid(u)

(* The command of process c moves on to s. *)
Step(c, s) == pc' = [pc EXCEPT ![c] = s]
MStep(m, s) == mpc' = [mpc EXCEPT ![m] = s]

(* The kernel delivers SIGKILL to init p. *)
SigKill(p) ==
  init' = [init EXCEPT ![p] = IF @ \in Booting \cup {"up"} THEN "zexit" ELSE @]

-----------------------------------------------------------------------------
(* A command that still changes the container's resources.  One that sits  *)
(* at the console does not, once it has released the lock.                 *)
Active(c) ==
  /\ alive[c] /\ pc[c] \notin {"idle", "ok", "fail"}
  /\ pc[c] = "console" => lk[c] # "out"

Cleaning(m) == mpc[m] \in {"prune", "unmount", "unlink"}

(* Nothing is going on: no command, no boot, no cleanup. *)
Quiet ==
  /\ \A c \in Cli : ~Active(c)
  /\ \A m \in Monitor : \/ mpc[m] \in {"none", "gone", "yielded", "crashed"}
                        \/ mpc[m] = "watch" /\ mexit[m] = "run" /\ init[cur[m]] = "up"
  /\ \A i \in InitPid : init[i] \in {"none", "up", "dead"}

(* A user runs a command. *)
Begin(c) ==
  /\ pc[c] = "idle" /\ alive[c]
  /\ Serial => Quiet /\ \A p \in Cli : pc[p] \in {"ok", "fail"} => ~alive[p]
  /\ \E k \in Commands :
       /\ cmd' = [cmd EXCEPT ![c] = k]
       /\ phase' = [phase EXCEPT ![c] = IF k = "start" THEN "start" ELSE "stop"]
       /\ \/ k = "start" /\ Step(c, "handoff") /\ UNCHANGED lockVars
          \/ k = "stop" /\ Step(c, "acquire") /\ AcquireBegin(c)
          \/ k = "restart" /\ Step(c, "rcheck") /\ UNCHANGED lockVars
  /\ uuid' = [uuid EXCEPT ![c] = cfgUuid]
  /\ UNCHANGED <<fileVars, cfgUuid, initVars, la, knowsMount, target, mine, monVars>>

(* The lock routines run inside the command that called them. *)
LockStep(c) ==
  /\ AcquireStep(c) \/ ReleaseStep(c)
  /\ Prompt /\ lk[c] = "write" => \A m \in Monitor : mk[m] \notin {"mkill", "munlink"}
  /\ UNCHANGED <<fileVars, cfgUuid, initVars, cliVars, monVars>>

(* restart_rootfs_with_timeout: refuse unless the container runs. *)
RestartCheck(c) ==
  /\ pc[c] = "rcheck"
  /\ SelfHeal(uuid[c])
  /\ IF RunningPid(uuid[c]) = 0
     THEN Step(c, "fail") /\ UNCHANGED lockVars
     ELSE Step(c, "acquire") /\ AcquireBegin(c)
  /\ UNCHANGED <<mountRec, mounted, unsaved, cfgUuid, initVars, cmd, phase, la, knowsMount,
                 target, uuid, mine, monVars>>

(***************************************************************************)
(* stop_rootfs_with_timeout.                                               *)
(***************************************************************************)
StopAcquired(c) ==
  /\ pc[c] = "acquire"
  /\ \/ lk[c] = "held" /\ Step(c, "running") /\ UNCHANGED lockVars
     \/ lk[c] \in {"refused", "failed"} /\ Step(c, "fail") /\ GiveUp(c)
  /\ UNCHANGED <<fileVars, cfgUuid, initVars, cmd, phase, la, knowsMount, target,
                 uuid, mine, monVars>>

StopRunning(c) ==
  /\ pc[c] = "running"
  /\ SelfHeal(uuid[c])
  /\ IF RunningPid(uuid[c]) = 0
     THEN /\ Step(c, "relfail") /\ ReleaseBegin(c)
          /\ UNCHANGED <<target, knowsMount>>
     ELSE /\ target' = [target EXCEPT ![c] = RunningPid(uuid[c])]
          /\ knowsMount' = [knowsMount EXCEPT ![c] = @ \/ mountRec]
          /\ Step(c, "signal") /\ UNCHANGED lockVars
  /\ UNCHANGED <<mountRec, mounted, unsaved, cfgUuid, initVars, cmd, phase, la, uuid, mine,
                 monVars>>

(* SIGKILL for a custom init, otherwise the init system's own shutdown     *)
(* request, to which the init reacts when it likes (InitExit).             *)
StopSignal(c) ==
  /\ pc[c] = "signal"
  /\ SigKill(target[c]) \/ UNCHANGED init
  /\ Step(c, "wait")
  /\ UNCHANGED <<lockVars, fileVars, cfgUuid, by, cmd, phase, la, knowsMount, target,
                 uuid, mine, monVars>>

(* The monitors of init p have answered the question who cleans up. *)
Settled(p) == \A m \in Monitor : cur[m] = p => mpc[m] \notin {"watch", "check"}

(* Poll until the pid is gone (a zombie is still there), then clean up;    *)
(* after timeout_seconds * 5 polls send SIGKILL.                           *)
StopWait(c) ==
  /\ pc[c] = "wait"
  /\ \/ /\ init[target[c]] = "dead"
        /\ Prompt => Settled(target[c])
        /\ Step(c, "prune") /\ UNCHANGED init
     \/ /\ init[target[c]] # "dead"
        /\ Step(c, "kill") /\ SigKill(target[c])
  /\ UNCHANGED <<lockVars, fileVars, cfgUuid, by, cmd, phase, la, knowsMount, target,
                 uuid, mine, monVars>>

(* 25 more polls; an init nobody reaps in time is given up as unkillable.  *)
StopKill(c) ==
  /\ pc[c] = "kill"
  /\ Prompt => init[target[c]] = "dead" /\ Settled(target[c])
  /\ Step(c, "prune")
  /\ UNCHANGED <<lockVars, fileVars, cfgUuid, initVars, cmd, phase, la, knowsMount,
                 target, uuid, mine, monVars>>

-----------------------------------------------------------------------------
(***************************************************************************)
(* cleanup_container_resources, in three steps: on Android the count of    *)
(* running containers prunes the pidfile and sidecar of a dead container;  *)
(* the image is unmounted if the sidecar or the configuration knows where; *)
(* the tracking files are unlinked, whatever they now say.                 *)
(***************************************************************************)
CleanPrune ==
  LET stale == Android /\ pidfile # 0 /\ init[pidfile] \in {"none", "dead"} IN
  /\ pidfile' = IF stale THEN 0 ELSE pidfile
  /\ mountRec' = (mountRec /\ ~stale)
  /\ UNCHANGED <<mounted, unsaved>>

CleanUnmount_NoFallback(knows) ==
  /\ mounted' = (mounted /\ ~mountRec)
  /\ UNCHANGED <<pidfile, mountRec, unsaved>>

CleanUnmount(knows) ==
  /\ mounted' = (mounted /\ ~(mountRec \/ knows))
  /\ UNCHANGED <<pidfile, mountRec, unsaved>>

CleanUnlink ==
  /\ pidfile' = 0
  /\ mountRec' = FALSE
  /\ UNCHANGED <<mounted, unsaved>>

(* restart passes skip_unmount = 1: files and mount stay for the start. *)
SkipUnmount(c) == cmd[c] = "restart" /\ phase[c] = "stop"

CliPrune(c) ==
  /\ pc[c] = "prune"
  /\ IF SkipUnmount(c) THEN Step(c, "reload") /\ UNCHANGED fileVars
                       ELSE Step(c, "unmount") /\ CleanPrune
  /\ UNCHANGED <<lockVars, cfgUuid, initVars, cmd, phase, la, knowsMount, target, uuid,
                 mine, monVars>>

CliUnmount(c) ==
  /\ pc[c] = "unmount"
  /\ CleanUnmount(knowsMount[c])
  /\ Step(c, "unlink")
  /\ UNCHANGED <<lockVars, cfgUuid, initVars, cmd, phase, la, knowsMount, target, uuid,
                 mine, monVars>>

(* The end of stop_rootfs, and of start_rootfs's cleanup label. *)
CliUnlink(c) ==
  /\ pc[c] = "unlink"
  /\ CleanUnlink
  /\ \/ phase[c] = "stop" /\ Step(c, "relok") /\ ReleaseBegin(c)
     \/ phase[c] = "start" /\ la[c] /\ Step(c, "relfail") /\ ReleaseBegin(c)
     \/ phase[c] = "start" /\ ~la[c] /\ Step(c, "fail") /\ UNCHANGED lockVars
  /\ UNCHANGED <<cfgUuid, initVars, cmd, phase, la, knowsMount, target, uuid, mine,
                 monVars>>

(* restart: unless --conf was given, reset the configuration, load it      *)
(* again and apply the command line.  When that fails the command returns  *)
(* with the lock in place.                                                 *)
RestartReload(c) ==
  /\ pc[c] = "reload"
  /\ \/ UNCHANGED <<knowsMount, uuid>>
     \/ /\ knowsMount' = [knowsMount EXCEPT ![c] = FALSE]
        /\ uuid' = [uuid EXCEPT ![c] = cfgUuid]
  /\ \/ Step(c, "handoff") /\ phase' = [phase EXCEPT ![c] = "start"]
     \/ Step(c, "fail") /\ UNCHANGED phase
  /\ UNCHANGED <<lockVars, fileVars, cfgUuid, initVars, cmd, la, target, mine, monVars>>

-----------------------------------------------------------------------------
(***************************************************************************)
(* start_rootfs.                                                           *)
(***************************************************************************)

(* Step 0: a lock file means a restart handed the container over. *)
StartHandoff(c) ==
  /\ pc[c] = "handoff"
  /\ IF lockFile = NoLock
     THEN Step(c, "unique") /\ FindNoLock(c)
     ELSE Step(c, "hacquire") /\ AcquireBegin(c)
  /\ UNCHANGED <<fileVars, cfgUuid, initVars, cmd, phase, la, knowsMount, target, uuid,
                 mine, monVars>>

(* With the lock: reuse the preserved mount, or give the lock back. *)
StartHanded(c) ==
  /\ pc[c] = "hacquire"
  /\ \/ /\ lk[c] \in {"refused", "failed"}
        /\ Step(c, "unique") /\ GiveUp(c) /\ UNCHANGED <<la, knowsMount>>
     \/ /\ lk[c] = "held" /\ mountRec /\ mounted
        /\ la' = [la EXCEPT ![c] = TRUE]
        /\ knowsMount' = [knowsMount EXCEPT ![c] = TRUE]
        /\ Step(c, "mount") /\ UNCHANGED lockVars
     \/ /\ lk[c] = "held" /\ ~(mountRec /\ mounted)
        /\ Step(c, "hrelease") /\ ReleaseBegin(c) /\ UNCHANGED <<la, knowsMount>>
  /\ UNCHANGED <<fileVars, cfgUuid, initVars, cmd, phase, target, uuid, mine, monVars>>

StartReleased(c) ==
  /\ pc[c] = "hrelease" /\ lk[c] = "out"
  /\ Step(c, "unique")
  /\ UNCHANGED <<lockVars, fileVars, cfgUuid, initVars, cmd, phase, la, knowsMount,
                 target, uuid, mine, monVars>>

StartUnique_NoCheck(c) ==
  /\ pc[c] = "unique"
  /\ Step(c, "mount")
  /\ UNCHANGED <<lockVars, fileVars, cfgUuid, initVars, cmd, phase, la, knowsMount,
                 target, uuid, mine, monVars>>

StartUnique(c) ==
  /\ pc[c] = "unique"
  /\ SelfHeal(uuid[c])
  /\ Step(c, IF RunningPid(uuid[c]) = 0 THEN "mount" ELSE "fail")
  /\ UNCHANGED <<lockVars, mountRec, mounted, unsaved, cfgUuid, initVars, cmd, phase, la,
                 knowsMount, target, uuid, mine, monVars>>

(* Resolve the rootfs paths, then mount the image; a mount found at the    *)
(* mount point is taken to be stale and detached first.                    *)
StartMount(c) ==
  /\ pc[c] = "mount"
  /\ \/ /\ Img /\ ~la[c]
        /\ mounted' = TRUE
        /\ knowsMount' = [knowsMount EXCEPT ![c] = TRUE]
        /\ Step(c, "initbin") /\ UNCHANGED lockVars
     \/ /\ ~Img \/ la[c]
        /\ Step(c, "initbin") /\ UNCHANGED <<mounted, knowsMount, lockVars>>
     \/ /\ Img /\ ~la[c]                          \* mount_rootfs_img failed
        /\ mounted' = FALSE
        /\ Step(c, "prune") /\ UNCHANGED <<knowsMount, lockVars>>
     \/ /\ IF la[c] THEN Step(c, "relfail") /\ ReleaseBegin(c)   \* no such path
                    ELSE Step(c, "fail") /\ UNCHANGED lockVars
        /\ UNCHANGED <<mounted, knowsMount>>
  /\ UNCHANGED <<pidfile, mountRec, unsaved, cfgUuid, initVars, cmd, phase, la, target,
                 uuid, mine, monVars>>

(* The init binary is missing: unmount and return, past the cleanup label. *)
StartInitBinary(c) ==
  /\ pc[c] = "initbin"
  /\ \/ Step(c, "uuid") /\ UNCHANGED mounted
     \/ Step(c, "fail") /\ mounted' = (mounted /\ ~knowsMount[c])
  /\ UNCHANGED <<lockVars, pidfile, mountRec, unsaved, cfgUuid, initVars, cmd, phase, la,
                 knowsMount, target, uuid, mine, monVars>>

(* A UUID that is in use is replaced by a fresh one; the configuration is  *)
(* saved, or that fails.                                                   *)
StartUuid(c) ==
  /\ pc[c] = "uuid"
  /\ \/ /\ find_container_init_pid(uuid[c]) = 0
        /\ UNCHANGED uuid
     \/ /\ find_container_init_pid(uuid[c]) # 0
        /\ \E u \in 1..MaxUuid :
             /\ u # cfgUuid /\ u # uuid[c] /\ \A m \in Monitor : u # muuid[m]
             /\ uuid' = [uuid EXCEPT ![c] = u]
  /\ \/ Step(c, "fork") /\ cfgUuid' = uuid'[c]
     \/ Step(c, "prune") /\ UNCHANGED cfgUuid
  /\ UNCHANGED <<lockVars, fileVars, initVars, cmd, phase, la, knowsMount, target, mine,
                 monVars>>

(* Console, sync pipe, host network, fork of the monitor. *)
StartFork(c) ==
  /\ pc[c] = "fork"
  /\ \/ \E m \in Monitor :
          /\ mpc[m] = "none"
          /\ MStep(m, "pre")
          /\ muuid' = [muuid EXCEPT ![m] = uuid[c]]
          /\ mknows' = [mknows EXCEPT ![m] = knowsMount[c]]
          /\ mine' = [mine EXCEPT ![c] = m]
          /\ Step(c, "await")
     \/ Step(c, "prune") /\ UNCHANGED <<mpc, muuid, mknows, mine>>
  /\ UNCHANGED <<lockVars, fileVars, cfgUuid, initVars, cmd, phase, la, knowsMount,
                 target, uuid, cur, sent, first, mexit>>

(* No write end of the sync pipe is left and nothing was written. *)
PipeEof(m) == sent[m] = 0 /\ mexit[m] = "exit"

(* Read the init pid from the sync pipe. *)
StartAwait(c) ==
  /\ pc[c] = "await"
  /\ \/ /\ sent[mine[c]] # 0
        /\ target' = [target EXCEPT ![c] = sent[mine[c]]]
        /\ Step(c, "pid") /\ UNCHANGED <<la, lockVars>>
     \/ /\ PipeEof(mine[c])
        /\ IF la[c] THEN Step(c, "eofrel") /\ ReleaseBegin(c)
                    ELSE Step(c, "prune") /\ UNCHANGED lockVars
        /\ la' = [la EXCEPT ![c] = FALSE]
        /\ UNCHANGED target
  /\ UNCHANGED <<fileVars, cfgUuid, initVars, cmd, phase, knowsMount, uuid, mine, monVars>>

(* The lock is released before the cleanup that follows a failed boot. *)
StartEofReleased(c) ==
  /\ pc[c] = "eofrel" /\ lk[c] = "out"
  /\ Step(c, "prune")
  /\ UNCHANGED <<lockVars, fileVars, cfgUuid, initVars, cmd, phase, la, knowsMount,
                 target, uuid, mine, monVars>>

(* A write that fails is reported and otherwise ignored. *)
StartPidfile(c) ==
  /\ pc[c] = "pid"
  /\ pidfile' \in {target[c], pidfile}
  /\ Step(c, "sidecar")
  /\ UNCHANGED <<lockVars, mountRec, mounted, unsaved, cfgUuid, initVars, cmd, phase, la,
                 knowsMount, target, uuid, mine, monVars>>

StartSidecar_NotSaved(c) ==
  /\ pc[c] = "sidecar"
  /\ Step(c, "poll")
  /\ UNCHANGED <<lockVars, fileVars, cfgUuid, initVars, cmd, phase, la, knowsMount,
                 target, uuid, mine, monVars>>

(* save_mount_path, whose failure nobody looks at: write_file may not open *)
(* the sidecar, or truncate it and then fail to write.  A background start *)
(* then polls for the boot marker; a foreground start releases the lock    *)
(* and stays at the console.                                               *)
StartSidecar(c) ==
  /\ pc[c] = "sidecar"
  /\ mountRec' \in IF knowsMount[c] THEN BOOLEAN ELSE {mountRec}
  /\ unsaved' = (knowsMount[c] /\ ~mountRec')
  /\ \/ Step(c, "poll") /\ UNCHANGED <<la, lockVars>>
     \/ /\ Step(c, "console") /\ la' = [la EXCEPT ![c] = FALSE]
        /\ IF la[c] THEN ReleaseBegin(c) ELSE UNCHANGED lockVars
  /\ UNCHANGED <<pidfile, mounted, cfgUuid, initVars, cmd, phase, knowsMount, target,
                 uuid, mine, monVars>>

(* Booted, or five seconds (or the init) are gone without the marker. *)
StartPoll(c) ==
  /\ pc[c] = "poll"
  /\ \/ /\ init[target[c]] = "up"
        /\ IF la[c] THEN Step(c, "relok") /\ ReleaseBegin(c)
                    ELSE Step(c, "ok") /\ UNCHANGED lockVars
     \/ /\ init[target[c]] # "up"
        /\ Prompt => init[target[c]] = "dead"
        /\ Step(c, "prune") /\ UNCHANGED lockVars
  /\ UNCHANGED <<fileVars, cfgUuid, initVars, cmd, phase, la, knowsMount, target, uuid,
                 mine, monVars>>

(* console_monitor_loop ends with the monitor, or when the terminal of a   *)
(* dead init hangs up.                                                     *)
StartConsole(c) ==
  /\ pc[c] = "console" /\ lk[c] = "out"
  /\ \/ mpc[mine[c]] \in {"gone", "yielded", "crashed"}
     \/ init[target[c]] = "dead"
  /\ Step(c, "ok")
  /\ UNCHANGED <<lockVars, fileVars, cfgUuid, initVars, cmd, phase, la, knowsMount,
                 target, uuid, mine, monVars>>

Released(c) ==
  /\ pc[c] \in {"relok", "relfail"} /\ lk[c] = "out"
  /\ Step(c, IF pc[c] = "relok" THEN "ok" ELSE "fail")
  /\ UNCHANGED <<lockVars, fileVars, cfgUuid, initVars, cmd, phase, la, knowsMount,
                 target, uuid, mine, monVars>>

(* The command returned and its process exits, or somebody kills it; what  *)
(* it had in memory goes with it.                                          *)
CliDies(c) ==
  /\ Die(c) /\ pc[c] # "idle"
  /\ CanDie \/ pc[c] \in {"ok", "fail"}
  /\ Step(c, IF pc[c] = "ok" THEN "ok" ELSE "fail")
  /\ la' = [la EXCEPT ![c] = FALSE]
  /\ knowsMount' = [knowsMount EXCEPT ![c] = FALSE]
  /\ target' = [target EXCEPT ![c] = IF pc[c] = "ok" THEN @ ELSE 0]
  /\ mine' = [mine EXCEPT ![c] = NoMonitor]
  /\ UNCHANGED <<fileVars, cfgUuid, initVars, cmd, phase, uuid, monVars>>

-----------------------------------------------------------------------------
(***************************************************************************)
(* ds_monitor_run and its intermediate process.                            *)
(***************************************************************************)

(* First boot only: kill a container of the same name that still runs. *)
MonitorPre(m) ==
  /\ mpc[m] = "pre"
  /\ SelfHeal(muuid[m])
  /\ IF RunningPid(muuid[m]) = 0 THEN UNCHANGED init ELSE SigKill(RunningPid(muuid[m]))
  /\ MStep(m, "fork")
  /\ UNCHANGED <<lockVars, mountRec, mounted, unsaved, cfgUuid, by, cliVars, cur, sent, first,
                 mexit, muuid, mknows>>

(* Fork the intermediate, which forks the init in a fresh pid namespace.   *)
(* When the intermediate cannot, it exits; when the monitor cannot, it     *)
(* exits at once, past all cleanup.                                        *)
MonitorFork(m) ==
  /\ mpc[m] = "fork"
  /\ \/ \E i \in InitPid :
          /\ init[i] = "none" /\ \A j \in InitPid : j < i => init[j] # "none"
          /\ init' = [init EXCEPT ![i] = "boot"]
          /\ by' = [by EXCEPT ![i] = m]
          /\ cur' = [cur EXCEPT ![m] = i]
          /\ mexit' = [mexit EXCEPT ![m] = "run"]
          /\ MStep(m, "report")
     \/ /\ cur' = [cur EXCEPT ![m] = 0]
        /\ mexit' = [mexit EXCEPT ![m] = "exit"]
        /\ MStep(m, "watch") \/ MStep(m, "crashed")
        /\ UNCHANGED initVars
  /\ UNCHANGED <<lockVars, fileVars, cfgUuid, cliVars, sent, first, muuid, mknows>>

MonitorReport_NotSent(m) ==
  /\ mpc[m] = "report"
  /\ MStep(m, "watch")
  /\ UNCHANGED <<lockVars, fileVars, cfgUuid, initVars, cliVars, cur, sent, first, mexit,
                 muuid, mknows>>

(* The intermediate tells the start command (first boot) or rewrites the   *)
(* pidfile itself (reboot cycle).                                          *)
MonitorReport(m) ==
  /\ mpc[m] = "report"
  /\ IF first[m] THEN sent' = [sent EXCEPT ![m] = cur[m]] /\ UNCHANGED pidfile
                 ELSE pidfile' = cur[m] /\ UNCHANGED sent
  /\ first' = [first EXCEPT ![m] = FALSE]
  /\ MStep(m, "watch")
  /\ UNCHANGED <<lockVars, mountRec, mounted, unsaved, cfgUuid, initVars, cliVars, cur, mexit,
                 muuid, mknows>>

(* The intermediate reaps init and turns SIGHUP, the kernel's rendering of *)
(* reboot(2), into DS_REBOOT_EXIT.                                         *)
MidReap(m) ==
  /\ mpc[m] = "watch" /\ mexit[m] = "run"
  /\ init[cur[m]] \in Zombie
  /\ mexit' = [mexit EXCEPT ![m] = IF init[cur[m]] = "zhup" THEN "reboot" ELSE "exit"]
  /\ init' = [init EXCEPT ![cur[m]] = "dead"]
  /\ UNCHANGED <<lockVars, fileVars, cfgUuid, by, cliVars, mpc, cur, sent, first, muuid,
                 mknows>>

(* The heartbeat loop sees the intermediate gone and asks for the lock. *)
MonitorWatch(m) ==
  /\ mpc[m] = "watch" /\ mexit[m] # "run"
  /\ CheckBegin(m)
  /\ MStep(m, "check")
  /\ UNCHANGED <<fileVars, cfgUuid, initVars, cliVars, cur, sent, first, mexit, muuid,
                 mknows>>

MonitorLockStep(m) ==
  /\ CheckStep(m)
  /\ UNCHANGED <<fileVars, cfgUuid, initVars, cliVars, monVars>>

MonitorDecide_RebootFirst(m) ==
  /\ mpc[m] = "check"
  /\ MStep(m, CASE mexit[m] = "reboot" -> "reload"
                [] mk[m] = "active" -> "yielded"
                [] OTHER -> "prune")
  /\ CheckDone(m)
  /\ UNCHANGED <<fileVars, cfgUuid, initVars, cliVars, cur, sent, first, mexit, muuid,
                 mknows>>

(* Lock active: leave, a command is in charge.  Otherwise reboot or clean up. *)
MonitorDecide(m) ==
  /\ mpc[m] = "check"
  /\ MStep(m, CASE mk[m] = "active" -> "yielded"
                [] mk[m] = "inactive" /\ mexit[m] = "reboot" -> "reload"
                [] OTHER -> "prune")
  /\ CheckDone(m)
  /\ UNCHANGED <<fileVars, cfgUuid, initVars, cliVars, cur, sent, first, mexit, muuid,
                 mknows>>

MonitorReload(m) ==
  /\ mpc[m] = "reload"
  /\ muuid' \in {muuid, [muuid EXCEPT ![m] = cfgUuid]}
  /\ MStep(m, "fork")
  /\ UNCHANGED <<lockVars, fileVars, cfgUuid, initVars, cliVars, cur, sent, first, mexit,
                 mknows>>

MonitorClean(m) ==
  /\ \/ mpc[m] = "prune" /\ CleanPrune /\ MStep(m, "unmount")
     \/ mpc[m] = "unmount" /\ CleanUnmount(mknows[m]) /\ MStep(m, "unlink")
     \/ mpc[m] = "unlink" /\ CleanUnlink /\ MStep(m, "gone")
  /\ UNCHANGED <<lockVars, cfgUuid, initVars, cliVars, cur, sent, first, mexit, muuid,
                 mknows>>

-----------------------------------------------------------------------------
(***************************************************************************)
(* internal_boot and the running container.                                *)
(***************************************************************************)

(* The start that forked the monitor of init i has written its files. *)
Recorded(i) ==
  \A c \in Cli : mine[c] = by[i] => pc[c] \notin {"await", "pid", "sidecar"}

(* Boot guard.  The pidfile holds a pid of the host's namespace, which     *)
(* kill() does not find from inside the new one, so only the UUID scan     *)
(* over the host's /proc can tell of another container.                    *)
InitGuard(i) ==
  LET other == find_container_init_pid(muuid[by[i]]) IN
  /\ init[i] = "boot"
  /\ Prompt => Recorded(i)
  /\ init' = [init EXCEPT ![i] = IF other = 0 THEN "guarded" ELSE "zexit"]
  /\ pidfile' = IF other = 0 THEN pidfile ELSE other
  /\ UNCHANGED <<lockVars, mountRec, mounted, unsaved, cfgUuid, by, cliVars, monVars>>

(* pivot_root, the marker /run/droidspaces, exec; or boot_fail. *)
InitBoot(i) ==
  /\ init[i] = "guarded"
  /\ \E s \in {"up", "zexit"} : init' = [init EXCEPT ![i] = s]
  /\ UNCHANGED <<lockVars, fileVars, cfgUuid, by, cliVars, monVars>>

(* The container powers off or reboots. *)
InitExit(i) ==
  /\ init[i] = "up"
  /\ Serial => \A c \in Cli : ~(Active(c) /\ phase[c] = "start")
  /\ \E s \in Zombie : init' = [init EXCEPT ![i] = s]
  /\ UNCHANGED <<lockVars, fileVars, cfgUuid, by, cliVars, monVars>>

(* The host reboots: no process and no mount survives, the files do. *)
HostReboots ==
  /\ HostReboot
  /\ init' = [i \in InitPid |-> IF init[i] = "none" THEN "none" ELSE "dead"]
  /\ mounted' = FALSE
  /\ mpc' = [m \in Monitor |-> IF mpc[m] = "none" THEN "none" ELSE "gone"]
  /\ cmd' = [c \in Cli |-> "none"] /\ pc' = [c \in Cli |-> "idle"]
  /\ phase' = [c \in Cli |-> "stop"] /\ la' = [c \in Cli |-> FALSE]
  /\ knowsMount' = [c \in Cli |-> FALSE] /\ target' = [c \in Cli |-> 0]
  /\ mine' = [c \in Cli |-> NoMonitor]
  /\ UNCHANGED <<pidfile, mountRec, unsaved, cfgUuid, by, uuid, cur, sent, first, mexit, muuid,
                 mknows>>

-----------------------------------------------------------------------------
CliNext(c) ==
  /\ alive[c]
  /\ \/ LockStep(c) \/ RestartCheck(c) \/ StopAcquired(c) \/ StopRunning(c)
     \/ StopSignal(c) \/ StopWait(c) \/ StopKill(c) \/ CliPrune(c) \/ CliUnmount(c)
     \/ CliUnlink(c) \/ RestartReload(c) \/ StartHandoff(c) \/ StartHanded(c)
     \/ StartReleased(c) \/ StartUnique(c) \/ StartMount(c) \/ StartInitBinary(c)
     \/ StartUuid(c) \/ StartFork(c) \/ StartAwait(c) \/ StartEofReleased(c)
     \/ StartPidfile(c) \/ StartSidecar(c) \/ StartPoll(c) \/ StartConsole(c)
     \/ Released(c)

MonitorNext(m) ==
  \/ MonitorPre(m) \/ MonitorFork(m) \/ MonitorReport(m) \/ MidReap(m)
  \/ MonitorWatch(m) \/ MonitorLockStep(m) \/ MonitorDecide(m) \/ MonitorReload(m)
  \/ MonitorClean(m)

InitNext(i) == InitGuard(i) \/ InitBoot(i)

Next ==
  \/ \E c \in Cli : Begin(c) \/ CliNext(c) \/ CliDies(c)
  \/ \E m \in Monitor : MonitorNext(m)
  \/ \E i \in InitPid : InitNext(i) \/ InitExit(i)
  \/ HostReboots

Spec == Init /\ [][Next]_vars

-----------------------------------------------------------------------------
(* Processes take their steps; users and the container's own power-off or  *)
(* reboot need not happen, and neither does a kill.                        *)
FairSpec ==
  /\ Spec
  /\ \A c \in Cli : WF_vars(CliNext(c))
  /\ \A m \in Monitor : WF_vars(MonitorNext(m))
  /\ \A i \in InitPid : WF_vars(InitNext(i))

-----------------------------------------------------------------------------
CliCleaning(c) == alive[c] /\ pc[c] \in {"prune", "unmount", "unlink"}
Up == {i \in InitPid : init[i] = "up"}

(***************************************************************************)
(* A name has one container: start's check "it must be unique"             *)
(* (container.c:368-370), the boot guard "prevent anonymous or conflicting *)
(* containers from booting" (boot.c:197-199), the UUID scan and the        *)
(* monitor's kill of a stale container together never let two inits of one *)
(* name run side by side.                                                  *)
(***************************************************************************)
OneContainer == Cardinality(Up) <= 1

(***************************************************************************)
(* "The name must be provided by the user and it must be unique"           *)
(* (container.c:368-370): a start that has passed the uniqueness check and *)
(* prepares the mount, the UUID and the monitor of a new container does so *)
(* only while no container of the name runs.                               *)
(***************************************************************************)
NameUnique ==
  \A c \in Cli : alive[c] /\ pc[c] \in {"mount", "initbin", "uuid", "fork"} => Up = {}

(***************************************************************************)
(* When every command has returned, a running container can be found again *)
(* by its name, through the pidfile or the UUID in its configuration       *)
(* (is_container_running), and its image is mounted and recorded in the    *)
(* .mount sidecar, so that a later stop can unmount it.  When the sidecar  *)
(* could not be written, the monitor is the one that remembers the mount.  *)
(***************************************************************************)
Tracked ==
  Quiet => \A i \in Up :
    /\ RunningPid(cfgUuid) = i
    /\ Img => mounted /\ (mountRec \/ (unsaved /\ mknows[by[i]]))

(* The cleanup that monitor m left to a command is done, or no longer due: *)
(* its container was stopped, or another one came after it.                *)
TakenOver(m) ==
  \E c \in Cli :
    /\ pc[c] = "ok"
    /\ (target[c] = cur[m] /\ cmd[c] = "stop") \/ target[c] > cur[m]

(***************************************************************************)
(* When nothing runs and every command succeeded, cleanup_container_       *)
(* resources has removed the pidfile, the sidecar and the mount, whoever   *)
(* ran it; only a mount whose sidecar could not be written (container.c:   *)
(* 735) may stay, for a stop cannot find it.  Left out: a monitor that     *)
(* exited because it could not fork, a reboot of the host, and a monitor   *)
(* that yielded to a command that neither stopped its container nor        *)
(* started another: a foreground restart whose own container fails while   *)
(* it is still giving the lock back.                                       *)
(***************************************************************************)
NothingLeft ==
  (/\ bootId = 0 /\ Quiet /\ Up = {}
   /\ \A c \in Cli : pc[c] \in {"idle", "ok"}
   /\ \A m \in Monitor : mpc[m] # "crashed" /\ (mpc[m] = "yielded" => TakenOver(m)))
  => pidfile = 0 /\ ~mountRec /\ (mounted => unsaved)

(***************************************************************************)
(* A stop that is about to report success leaves no init alive or half     *)
(* dead and no monitor that would boot another one: the lock made every    *)
(* monitor abort its internal reboot (monitor.c:624-633).                  *)
(***************************************************************************)
StopStops ==
  \A c \in Cli : alive[c] /\ pc[c] = "relok" /\ cmd[c] = "stop" =>
     /\ \A i \in InitPid : init[i] \in {"none", "dead"}
     /\ \A m \in Monitor : mpc[m] \notin {"pre", "reload", "fork", "report"}

(***************************************************************************)
(* "Monitor only does resource cleanup if no external lock is active"      *)
(* (container.c:281-283): while a stop cleans up after an init, the        *)
(* monitor of that init does not.                                          *)
(***************************************************************************)
StopCleansAlone ==
  \A c \in Cli : CliCleaning(c) /\ phase[c] = "stop" =>
     \A m \in Monitor : Cleaning(m) => cur[m] # target[c]

(***************************************************************************)
(* No step of any process takes the mounted image away from a running      *)
(* container: a mount that a start finds is stale "because start_rootfs    *)
(* ensures the container name itself is unique" (mount.c:65-67).           *)
(***************************************************************************)
MountKept == [][mounted /\ ~mounted' => Up' = {}]_vars

(***************************************************************************)
(* Every command returns, is killed or sits at the console of its          *)
(* container, unless the host reboots: no command waits for ever for a pid *)
(* from the sync pipe, for the death of an init or for the lock.           *)
(***************************************************************************)
CommandsEnd ==
  \A c \in Cli : (pc[c] # "idle") ~> (pc[c] \in {"ok", "fail", "console", "idle"} \/ ~alive[c])

(***************************************************************************)
(* A name has one container and, at rest, that container can be found and  *)
(* unmounted again: start, restart, the boot guard, the pidfile and the    *)
(* UUID scan agree about which container there is.                         *)
(***************************************************************************)
LifecycleInv == TypeOK /\ OneContainer /\ Tracked

(***************************************************************************)
(* A stop really stops: nothing of the container is left when it reports   *)
(* success, and nobody else cleaned up meanwhile.                          *)
(***************************************************************************)
StopWorks == StopStops /\ StopCleansAlone
=============================================================================
