---------------------------- MODULE ExternalLock ----------------------------
(***************************************************************************)
(* The external command lock of container.c: the file <pids>/<name>.lock,  *)
(* holding "pid boot-id", by which a CLI command (stop, restart) tells the *)
(* container's monitor that it, and not the monitor, will clean up.        *)
(*                                                                         *)
(* Each system call on the file is a step of its own, because several CLI  *)
(* processes and several monitors work on the file without any other       *)
(* mutual exclusion:                                                       *)
(*                                                                         *)
(*   acquire_external_lock    access, read, kill(holder, 0), unlink, write *)
(*   release_external_lock    read, unlink                                 *)
(*   is_external_lock_active  access, read, kill(holder, 0), unlink        *)
(*                                                                         *)
(* A process id is a member of Cli.  Within one boot of the host a dead id *)
(* is never alive again; a reboot of the host makes every id alive again,  *)
(* so that a lock left by the previous boot names a living process that    *)
(* never took it.                                                          *)
(***************************************************************************)
EXTENDS Naturals

CONSTANTS Cli,       \* the pids of CLI commands
          Monitor,   \* the monitors that look at the lock
          MaxBoot,   \* bound: how many times the host reboots
          NoLock     \* the lock file does not exist

ASSUME LockAssumption ==
  /\ NoLock \notin [pid : Cli, boot : Nat]
  /\ MaxBoot \in Nat

VARIABLES
  lockFile,   \* NoLock, or the content of the file
  bootId,     \* /proc/sys/kernel/random/boot_id
  alive,      \* alive[c]: kill(c, 0) succeeds
  lk,         \* lk[c]: where process c is in the lock routines
  seen,       \* seen[c]: what process c last read from the file
  mk,         \* mk[m]: where monitor m is in is_external_lock_active
  mseen       \* mseen[m]: what monitor m last read from the file

lockVars == <<lockFile, bootId, alive, lk, seen, mk, mseen>>

Stamp == [pid : Cli, boot : 0..MaxBoot]

Acquiring == {"access", "read", "kill", "unlink", "write"}
Releasing == {"rread", "runlink"}

CliState == {"out", "held", "refused", "failed"} \cup Acquiring \cup Releasing
MonState == {"idle", "maccess", "mread", "mkill", "munlink",
             "active", "inactive"}

(* Every variable of the lock routines stays within its type: in particular
   the file holds a whole pid/boot stamp or does not exist. *)
LockTypeOK ==
  /\ lockFile \in Stamp \cup {NoLock}
  /\ bootId \in 0..MaxBoot
  /\ alive \in [Cli -> BOOLEAN]
  /\ lk \in [Cli -> CliState]
  /\ seen \in [Cli -> Stamp \cup {NoLock}]
  /\ mk \in [Monitor -> MonState]
  /\ mseen \in [Monitor -> Stamp \cup {NoLock}]

LockInit ==
  /\ lockFile = NoLock
  /\ bootId = 0
  /\ alive = [c \in Cli |-> TRUE]
  /\ lk = [c \in Cli |-> "out"]
  /\ seen = [c \in Cli |-> NoLock]
  /\ mk = [m \in Monitor |-> "idle"]
  /\ mseen = [m \in Monitor |-> NoLock]

-----------------------------------------------------------------------------
lock_holder_if_alive_NoBootId(f) ==
  f # NoLock /\ alive[f.pid]

lock_holder_if_alive_NoKill(f) ==
  f # NoLock /\ f.boot = bootId

(* lock_holder_if_alive: content f names a live holder iff it carries this *)
(* boot's id and the process exists.                                       *)
lock_holder_if_alive(f) ==
  /\ f # NoLock
  /\ f.boot = bootId
  /\ alive[f.pid]

Goto(c, s) == lk' = [lk EXCEPT ![c] = s]
MGoto(m, s) == mk' = [mk EXCEPT ![m] = s]

(***************************************************************************)
(* acquire_external_lock.  restart re-acquires the lock it already holds,  *)
(* so the routine is also entered from "held".                             *)
(***************************************************************************)
AcquireBegin(c) ==
  /\ alive[c]
  /\ lk[c] \in {"out", "held"}
  /\ Goto(c, "access")
  /\ UNCHANGED <<lockFile, bootId, alive, seen, mk, mseen>>

AcquireAccess(c) ==
  /\ lk[c] = "access"
  /\ Goto(c, IF lockFile = NoLock THEN "write" ELSE "read")
  /\ UNCHANGED <<lockFile, bootId, alive, seen, mk, mseen>>

(* A file that vanished since access() reads as nothing: the code goes on  *)
(* to unlink the path.                                                     *)
AcquireRead(c) ==
  /\ lk[c] = "read"
  /\ seen' = [seen EXCEPT ![c] = lockFile]
  /\ Goto(c, IF lockFile = NoLock THEN "unlink" ELSE "kill")
  /\ UNCHANGED <<lockFile, bootId, alive, mk, mseen>>

AcquireKill_NeverRefuses(c) ==
  /\ lk[c] = "kill"
  /\ Goto(c, "unlink")
  /\ UNCHANGED <<lockFile, bootId, alive, seen, mk, mseen>>

AcquireKill(c) ==
  /\ lk[c] = "kill"
  /\ Goto(c, IF lock_holder_if_alive(seen[c]) /\ seen[c].pid # c
             THEN "refused" ELSE "unlink")
  /\ UNCHANGED <<lockFile, bootId, alive, seen, mk, mseen>>

AcquireUnlink(c) ==
  /\ lk[c] = "unlink"
  /\ lockFile' = NoLock
  /\ Goto(c, "write")
  /\ UNCHANGED <<bootId, alive, seen, mk, mseen>>

(* write_file_atomic: the rename publishes the whole stamp at once, or     *)
(* fails and leaves the path as it was.                                    *)
AcquireWrite(c) ==
  /\ lk[c] = "write"
  /\ \/ /\ lockFile' = [pid |-> c, boot |-> bootId]
        /\ Goto(c, "held")
     \/ /\ lockFile' = lockFile
        /\ Goto(c, "failed")
  /\ UNCHANGED <<bootId, alive, seen, mk, mseen>>

AcquireStep(c) ==
  \/ AcquireAccess(c) \/ AcquireRead(c) \/ AcquireKill(c)
  \/ AcquireUnlink(c) \/ AcquireWrite(c)

(* The caller of a refused acquire goes on without the lock. *)
GiveUp(c) ==
  /\ lk[c] \in {"refused", "failed"}
  /\ Goto(c, "out")
  /\ UNCHANGED <<lockFile, bootId, alive, seen, mk, mseen>>

(* start_rootfs looks for a lock first: without one it goes on as a        *)
(* command that has none.                                                  *)
FindNoLock(c) ==
  /\ lk[c] \in {"out", "held"} /\ lockFile = NoLock
  /\ Goto(c, "out")
  /\ UNCHANGED <<lockFile, bootId, alive, seen, mk, mseen>>

(***************************************************************************)
(* release_external_lock: reads the file and unlinks the path only when    *)
(* the leading pid is our own.  atoi() ignores the boot id.                *)
(***************************************************************************)
ReleaseBegin(c) ==
  /\ lk[c] = "held"
  /\ Goto(c, "rread")
  /\ UNCHANGED <<lockFile, bootId, alive, seen, mk, mseen>>

ReleaseRead(c) ==
  /\ lk[c] = "rread"
  /\ Goto(c, IF lockFile # NoLock /\ lockFile.pid = c THEN "runlink" ELSE "out")
  /\ UNCHANGED <<lockFile, bootId, alive, seen, mk, mseen>>

ReleaseUnlink(c) ==
  /\ lk[c] = "runlink"
  /\ lockFile' = NoLock
  /\ Goto(c, "out")
  /\ UNCHANGED <<bootId, alive, seen, mk, mseen>>

ReleaseStep(c) == ReleaseRead(c) \/ ReleaseUnlink(c)

(***************************************************************************)
(* is_external_lock_active, called by the monitor.                         *)
(***************************************************************************)
CheckBegin(m) ==
  /\ mk[m] = "idle"
  /\ MGoto(m, "maccess")
  /\ UNCHANGED <<lockFile, bootId, alive, lk, seen, mseen>>

CheckAccess(m) ==
  /\ mk[m] = "maccess"
  /\ MGoto(m, IF lockFile = NoLock THEN "inactive" ELSE "mread")
  /\ UNCHANGED <<lockFile, bootId, alive, lk, seen, mseen>>

CheckRead(m) ==
  /\ mk[m] = "mread"
  /\ mseen' = [mseen EXCEPT ![m] = lockFile]
  /\ MGoto(m, IF lockFile = NoLock THEN "munlink" ELSE "mkill")
  /\ UNCHANGED <<lockFile, bootId, alive, lk, seen>>

CheckKill(m) ==
  /\ mk[m] = "mkill"
  /\ MGoto(m, IF lock_holder_if_alive(mseen[m]) THEN "active" ELSE "munlink")
  /\ UNCHANGED <<lockFile, bootId, alive, lk, seen, mseen>>

CheckUnlink(m) ==
  /\ mk[m] = "munlink"
  /\ lockFile' = NoLock
  /\ MGoto(m, "inactive")
  /\ UNCHANGED <<bootId, alive, lk, seen, mseen>>

CheckStep(m) ==
  \/ CheckAccess(m) \/ CheckRead(m) \/ CheckKill(m) \/ CheckUnlink(m)

(* The caller has used the answer. *)
CheckDone(m) ==
  /\ mk[m] \in {"active", "inactive"}
  /\ MGoto(m, "idle")
  /\ UNCHANGED <<lockFile, bootId, alive, lk, seen, mseen>>

-----------------------------------------------------------------------------
(* A CLI process ends: it returned, or it was killed wherever it was. *)
Die(c) ==
  /\ alive[c]
  /\ alive' = [alive EXCEPT ![c] = FALSE]
  /\ Goto(c, "out")
  /\ UNCHANGED <<lockFile, bootId, seen, mk, mseen>>

(* The host reboots.  The file survives; every pid is handed out again.   *)
HostReboot ==
  /\ bootId < MaxBoot
  /\ bootId' = bootId + 1
  /\ alive' = [c \in Cli |-> TRUE]
  /\ lk' = [c \in Cli |-> "out"]
  /\ mk' = [m \in Monitor |-> "idle"]
  /\ UNCHANGED <<lockFile, seen, mseen>>

CliStep(c) == AcquireStep(c) \/ GiveUp(c) \/ ReleaseBegin(c) \/ ReleaseStep(c)
MonitorStep(m) == CheckStep(m) \/ CheckDone(m)

LockNext ==
  \/ \E c \in Cli : AcquireBegin(c) \/ FindNoLock(c) \/ CliStep(c) \/ Die(c)
  \/ \E m \in Monitor : CheckBegin(m) \/ MonitorStep(m)
  \/ HostReboot

LockSpec == LockInit /\ [][LockNext]_lockVars

(* A process that runs goes through the straight-line lock code. *)
LockFairSpec ==
  /\ LockSpec
  /\ \A c \in Cli : WF_lockVars(CliStep(c))
  /\ \A m \in Monitor : WF_lockVars(MonitorStep(m))

-----------------------------------------------------------------------------
(***************************************************************************)
(* A lock file that makes other commands give up, and the monitor yield,   *)
(* was written in this boot by a command that is still inside the lock     *)
(* protocol (container.c:31-37: a stranded lock must not brick the         *)
(* container, as it did in PR #286).                                       *)
(***************************************************************************)
NoStrandedLock ==
  lock_holder_if_alive(lockFile) =>
    lk[lockFile.pid] \in {"held"} \cup Acquiring \cup Releasing

(***************************************************************************)
(* A command whose competitors are all dead gets the lock it asks for,     *)
(* whatever the dead and the earlier boots left in the file: it ends up    *)
(* holding the lock unless the write fails, it dies itself, or the host    *)
(* reboots and revives its competitors.                                    *)
(***************************************************************************)
Alone(c) == alive[c] /\ \A p \in Cli \ {c} : ~alive[p]

LoneAcquireSucceeds ==
  \A c \in Cli :
    (lk[c] = "access" /\ Alone(c)) ~> (lk[c] \in {"held", "failed"} \/ ~Alone(c))
=============================================================================
