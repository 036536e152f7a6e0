-------------------------- MODULE LifecycleProofs ---------------------------
(***************************************************************************)
(* What the external command lock guarantees for every number of commands, *)
(* monitors and host reboots; that the life cycle uses the lock only       *)
(* through the routines that module ExternalLock describes, so that the    *)
(* specification of the life cycle implements the specification of the     *)
(* lock and what is proved of the lock holds in the running system; and    *)
(* what the life cycle itself guarantees.                                  *)
(***************************************************************************)
EXTENDS Lifecycle, LockHistory, FiniteSetTheorems, TLAPS

-----------------------------------------------------------------------------
(***************************************************************************)
(* The lock.                                                               *)
(***************************************************************************)
(* The stamp process c writes in this boot. *)
Own(c) == [pid |-> c, boot |-> bootId]

(* No stamp comes from a later boot than this one. *)
NoFutureStamp ==
  /\ lockFile # NoLock => lockFile.boot <= bootId
  /\ \A c \in Cli : seen[c] # NoLock => seen[c].boot <= bootId

(* A live process outside the protocol, or about to write, has no lock in  *)
(* the file; one that read a foreign stamp had none when it read it, and   *)
(* nobody but itself could have put one there since.                       *)
OutsideOwnsNothing ==
  /\ \A c \in Cli : alive[c] /\ lk[c] \in {"out", "refused", "failed", "write"}
                      => lockFile # Own(c)
  /\ \A c \in Cli : alive[c] /\ lk[c] = "kill" /\ seen[c] # Own(c)
                      => lockFile # Own(c)

LockInv == LockTypeOK /\ NoFutureStamp /\ OutsideOwnsNothing

-----------------------------------------------------------------------------
(* Every step of the lock keeps the types. *)
LEMMA LockTypeStep == LockTypeOK /\ [LockNext]_lockVars => LockTypeOK'
<1> SUFFICES ASSUME LockTypeOK, [LockNext]_lockVars
             PROVE  LockTypeOK'
  OBVIOUS
<1> USE LockAssumption DEF LockTypeOK, CliState, MonState, Acquiring,
        Releasing, Stamp, Goto, MGoto
<1>1. ASSUME NEW c \in Cli,
             AcquireBegin(c) \/ FindNoLock(c) \/ CliStep(c) \/ Die(c)
      PROVE  LockTypeOK'
  <2>1. CASE AcquireBegin(c) \/ FindNoLock(c) \/ Die(c)
    BY <2>1 DEF AcquireBegin, FindNoLock, Die
  <2>2. CASE AcquireAccess(c) \/ AcquireRead(c) \/ AcquireKill(c)
    BY <2>2 DEF AcquireAccess, AcquireRead, AcquireKill
  <2>3. CASE AcquireUnlink(c) \/ AcquireWrite(c)
    BY <2>3 DEF AcquireUnlink, AcquireWrite
  <2>4. CASE GiveUp(c) \/ ReleaseBegin(c) \/ ReleaseStep(c)
    BY <2>4 DEF GiveUp, ReleaseBegin, ReleaseStep, ReleaseRead, ReleaseUnlink
  <2> QED
    BY <1>1, <2>1, <2>2, <2>3, <2>4 DEF CliStep, AcquireStep
<1>2. ASSUME NEW m \in Monitor, CheckBegin(m) \/ MonitorStep(m)
      PROVE  LockTypeOK'
  BY <1>2 DEF CheckBegin, MonitorStep, CheckStep, CheckAccess, CheckRead,
              CheckKill, CheckUnlink, CheckDone
<1>3. CASE HostReboot
  BY <1>3 DEF HostReboot
<1>4. CASE UNCHANGED lockVars
  BY <1>4 DEF lockVars
<1> QED
  BY <1>1, <1>2, <1>3, <1>4 DEF LockNext

(* The variables of ExternalLock keep their types (container.c:22-163). *)
THEOREM LockTypeCorrect == LockSpec => []LockTypeOK
<1>1. LockInit => LockTypeOK
  BY LockAssumption DEF LockInit, LockTypeOK, CliState, MonState
<1> QED
  BY <1>1, LockTypeStep, PTL DEF LockSpec

-----------------------------------------------------------------------------
(* The strengthening of NoStrandedLock is preserved by every step. *)
LEMMA LockInvStep == LockInv /\ LockTypeOK' /\ [LockNext]_lockVars => LockInv'
<1> SUFFICES ASSUME LockInv, LockTypeOK', [LockNext]_lockVars
             PROVE  NoFutureStamp' /\ OutsideOwnsNothing'
  BY DEF LockInv
<1> USE LockAssumption DEF LockInv, LockTypeOK, NoFutureStamp,
        OutsideOwnsNothing, Own, Stamp, Goto, MGoto
<1>1. ASSUME NEW c \in Cli, AcquireBegin(c) \/ FindNoLock(c)
      PROVE  NoFutureStamp' /\ OutsideOwnsNothing'
  BY <1>1 DEF AcquireBegin, FindNoLock
<1>2. ASSUME NEW c \in Cli, AcquireAccess(c)
      PROVE  NoFutureStamp' /\ OutsideOwnsNothing'
  BY <1>2 DEF AcquireAccess
<1>3. ASSUME NEW c \in Cli, AcquireRead(c)
      PROVE  NoFutureStamp' /\ OutsideOwnsNothing'
  BY <1>3 DEF AcquireRead
<1>4. ASSUME NEW c \in Cli, AcquireKill(c)
      PROVE  NoFutureStamp' /\ OutsideOwnsNothing'
  BY <1>4 DEF AcquireKill, lock_holder_if_alive
<1>5. ASSUME NEW c \in Cli, AcquireUnlink(c)
      PROVE  NoFutureStamp' /\ OutsideOwnsNothing'
  BY <1>5 DEF AcquireUnlink
<1>6. ASSUME NEW c \in Cli, AcquireWrite(c)
      PROVE  NoFutureStamp' /\ OutsideOwnsNothing'
  BY <1>6 DEF AcquireWrite
<1>7. ASSUME NEW c \in Cli, GiveUp(c) \/ ReleaseBegin(c)
      PROVE  NoFutureStamp' /\ OutsideOwnsNothing'
  BY <1>7 DEF GiveUp, ReleaseBegin
<1>8. ASSUME NEW c \in Cli, ReleaseRead(c) \/ ReleaseUnlink(c)
      PROVE  NoFutureStamp' /\ OutsideOwnsNothing'
  BY <1>8 DEF ReleaseRead, ReleaseUnlink
<1>9. ASSUME NEW c \in Cli, Die(c)
      PROVE  NoFutureStamp' /\ OutsideOwnsNothing'
  BY <1>9 DEF Die
<1>10. ASSUME NEW m \in Monitor, CheckBegin(m) \/ MonitorStep(m)
       PROVE  NoFutureStamp' /\ OutsideOwnsNothing'
  BY <1>10 DEF CheckBegin, MonitorStep, CheckStep, CheckAccess, CheckRead,
               CheckKill, CheckUnlink, CheckDone
<1>11. CASE HostReboot
  BY <1>11 DEF HostReboot
<1>12. CASE UNCHANGED lockVars
  BY <1>12 DEF lockVars
<1> QED
  BY <1>1, <1>2, <1>3, <1>4, <1>5, <1>6, <1>7, <1>8, <1>9, <1>10, <1>11, <1>12
     DEF LockNext, CliStep, AcquireStep, ReleaseStep

(* Every lock that blocks another command or makes the monitor yield       *)
(* belongs to a command of this boot that is still in the protocol.        *)
THEOREM NoStrandedLockHolds == LockSpec => []NoStrandedLock
<1>1. LockInit => LockInv
  BY LockAssumption
     DEF LockInit, LockInv, LockTypeOK, NoFutureStamp, OutsideOwnsNothing, Own,
         CliState, MonState
<1>2. LockInv => NoStrandedLock
  <2> SUFFICES ASSUME LockInv, lock_holder_if_alive(lockFile)
               PROVE  lk[lockFile.pid] \in {"held"} \cup Acquiring \cup Releasing
    BY DEF NoStrandedLock
  <2>1. /\ lockFile \in Stamp
        /\ lockFile.pid \in Cli
        /\ alive[lockFile.pid]
        /\ lockFile = Own(lockFile.pid)
    BY DEF LockInv, LockTypeOK, Stamp, lock_holder_if_alive, Own
  <2>2. lk[lockFile.pid] \notin {"out", "refused", "failed", "write"}
    BY <2>1 DEF LockInv, OutsideOwnsNothing
  <2> QED
    BY <2>1, <2>2 DEF LockInv, LockTypeOK, CliState, Acquiring, Releasing
<1> QED
  BY <1>1, <1>2, LockTypeCorrect, LockInvStep, PTL DEF LockSpec

-----------------------------------------------------------------------------
(***************************************************************************)
(* Why the lock excludes until somebody races: a holder's stamp stays in   *)
(* the file; whoever is between its look and its act has read that very    *)
(* stamp, and so gives up, unless the holder dies first.                   *)
(***************************************************************************)
HolderSeen(p) ==
  /\ lockFile = Own(p)
  /\ \A c \in Cli \ {p} : /\ lk[c] = "kill" => seen[c] = Own(p)
                          /\ lk[c] \notin {"unlink", "write"}
  /\ \A m \in Monitor : /\ mk[m] = "mkill" => mseen[m] = Own(p)
                        /\ mk[m] # "munlink"

RaceInv ==
  /\ \A c \in Cli : lk[c] # "out" => alive[c]
  /\ ~raced => \A p \in Cli : Holding(p) => HolderSeen(p)

(* Whoever takes the lock while nobody decides finds nobody else with it. *)
LEMMA RaceInvStep ==
  ASSUME LockTypeOK, RaceInv, [HistoryNext]_historyVars
  PROVE  RaceInv'
<1> USE DEF RaceInv, HolderSeen, Holding, Own, LockTypeOK, Goto, MGoto, Acquiring,
            Releasing, Stamp, CliDecides, MonitorDecides, Races, Remember
<1>1. ASSUME NEW c \in Cli, Remember, AcquireBegin(c) \/ FindNoLock(c)  PROVE RaceInv'
  BY <1>1 DEF AcquireBegin, FindNoLock
<1>2. ASSUME NEW c \in Cli, Remember, AcquireAccess(c)  PROVE RaceInv'
  BY <1>2, LockAssumption DEF AcquireAccess
<1>3. ASSUME NEW c \in Cli, Remember, AcquireRead(c)  PROVE RaceInv'
  BY <1>3, LockAssumption DEF AcquireRead
<1>4. ASSUME NEW c \in Cli, Remember, AcquireKill(c)  PROVE RaceInv'
  BY <1>4, LockAssumption DEF AcquireKill, lock_holder_if_alive
<1>5. ASSUME NEW c \in Cli, Remember, AcquireUnlink(c)  PROVE RaceInv'
  BY <1>5 DEF AcquireUnlink
<1>6. ASSUME NEW c \in Cli, Remember, AcquireWrite(c)  PROVE RaceInv'
  BY <1>6 DEF AcquireWrite
<1>7. ASSUME NEW c \in Cli, Remember, GiveUp(c)  PROVE RaceInv'
  BY <1>7 DEF GiveUp
<1>8. ASSUME NEW c \in Cli, Remember, ReleaseBegin(c)  PROVE RaceInv'
  BY <1>8 DEF ReleaseBegin
<1>9. ASSUME NEW c \in Cli, Remember, ReleaseRead(c)  PROVE RaceInv'
  BY <1>9 DEF ReleaseRead
<1>10. ASSUME NEW c \in Cli, Remember, ReleaseUnlink(c)  PROVE RaceInv'
  BY <1>10 DEF ReleaseUnlink
<1>11. ASSUME NEW c \in Cli, Remember, Die(c)  PROVE RaceInv'
  BY <1>11 DEF Die
<1>12. ASSUME NEW m \in Monitor, Remember, CheckBegin(m) \/ CheckAccess(m) \/ CheckDone(m)
       PROVE  RaceInv'
  BY <1>12 DEF CheckBegin, CheckAccess, CheckDone
<1>13. ASSUME NEW m \in Monitor, Remember, CheckRead(m)  PROVE RaceInv'
  BY <1>13, LockAssumption DEF CheckRead
<1>14. ASSUME NEW m \in Monitor, Remember, CheckKill(m)  PROVE RaceInv'
  BY <1>14, LockAssumption DEF CheckKill, lock_holder_if_alive
<1>15. ASSUME NEW m \in Monitor, Remember, CheckUnlink(m)  PROVE RaceInv'
  BY <1>15 DEF CheckUnlink
<1>16. CASE HostReboot
  BY <1>16 DEF HostReboot
<1>17. CASE UNCHANGED historyVars
  BY <1>17 DEF historyVars, lockVars
<1> QED
  BY <1>1, <1>2, <1>3, <1>4, <1>5, <1>6, <1>7, <1>8, <1>9, <1>10, <1>11, <1>12,
     <1>13, <1>14, <1>15, <1>16, <1>17
     DEF HistoryNext, LockNext, CliStep, AcquireStep, ReleaseStep, MonitorStep, CheckStep

(***************************************************************************)
(* acquire_external_lock excludes (container.c:54-55), for any number of   *)
(* commands and monitors that overlap in any way, die and come back with   *)
(* the pids of the dead, until a stamp is written while somebody else is   *)
(* between its look at the file and what it does about it.                 *)
(***************************************************************************)
THEOREM ExcludesUntilRaced == HistorySpec => []LockExclusion
<1>1. HistoryInit => LockTypeOK /\ RaceInv
  BY LockAssumption
     DEF HistoryInit, LockInit, RaceInv, Holding, Acquiring, Releasing, LockTypeOK,
         CliState, MonState
<1>2. LockTypeOK /\ RaceInv => LockExclusion
  <2> SUFFICES ASSUME LockTypeOK, RaceInv, ~raced, NEW c \in Cli, NEW p \in Cli,
                      Holding(c), Holding(p)
               PROVE  c = p
    BY DEF LockExclusion
  <2>1. Own(c) = Own(p)
    BY DEF RaceInv, HolderSeen
  <2> QED BY <2>1 DEF Own
<1>3. LockTypeOK /\ [HistoryNext]_historyVars => LockTypeOK'
  <2>1. [HistoryNext]_historyVars => [LockNext]_lockVars
    BY DEF HistoryNext, historyVars
  <2> QED BY <2>1, LockTypeStep
<1>4. LockTypeOK /\ RaceInv /\ [HistoryNext]_historyVars => RaceInv'
  BY RaceInvStep
<1> QED
  BY <1>1, <1>2, <1>3, <1>4, PTL DEF HistorySpec

-----------------------------------------------------------------------------
(***************************************************************************)
(* The life cycle implements the lock.                                     *)
(***************************************************************************)
(* A step of a command is a step of the lock or leaves the lock alone. *)
LEMMA CliImplements ==
  ASSUME NEW c \in Cli, CliNext(c)
  PROVE  [LockNext]_lockVars
<1>1. CASE LockStep(c)
  BY <1>1 DEF LockStep, LockNext, CliStep
<1>2. CASE RestartCheck(c)
  BY <1>2 DEF RestartCheck, LockNext
<1>3. CASE StopAcquired(c)
  BY <1>3 DEF StopAcquired, LockNext, CliStep
<1>4. CASE StopRunning(c)
  BY <1>4 DEF StopRunning, LockNext, CliStep
<1>5. CASE StopSignal(c) \/ StopWait(c) \/ StopKill(c)
  BY <1>5 DEF StopSignal, StopWait, StopKill
<1>6. CASE CliPrune(c) \/ CliUnmount(c) \/ RestartReload(c)
  BY <1>6 DEF CliPrune, CliUnmount, RestartReload
<1>7. CASE CliUnlink(c)
  BY <1>7 DEF CliUnlink, LockNext, CliStep
<1>8. CASE StartHandoff(c)
  BY <1>8 DEF StartHandoff, LockNext
<1>9. CASE StartHanded(c)
  BY <1>9 DEF StartHanded, LockNext, CliStep
<1>10. CASE StartReleased(c) \/ StartUnique(c) \/ StartInitBinary(c) \/ StartUuid(c)
  BY <1>10 DEF StartReleased, StartUnique, StartInitBinary, StartUuid
<1>11. CASE StartMount(c)
  BY <1>11 DEF StartMount, LockNext, CliStep
<1>12. CASE StartFork(c) \/ StartEofReleased(c) \/ StartPidfile(c)
  BY <1>12 DEF StartFork, StartEofReleased, StartPidfile
<1>13. CASE StartAwait(c)
  BY <1>13 DEF StartAwait, LockNext, CliStep
<1>14. CASE StartSidecar(c)
  BY <1>14 DEF StartSidecar, LockNext, CliStep
<1>15. CASE StartPoll(c)
  BY <1>15 DEF StartPoll, LockNext, CliStep
<1>16. CASE StartConsole(c) \/ Released(c)
  BY <1>16 DEF StartConsole, Released
<1> QED
  BY <1>1, <1>2, <1>3, <1>4, <1>5, <1>6, <1>7, <1>8, <1>9, <1>10, <1>11, <1>12,
     <1>13, <1>14, <1>15, <1>16 DEF CliNext

(* A step of a monitor is a step of its lock check or leaves the lock alone. *)
LEMMA MonitorImplements ==
  ASSUME NEW m \in Monitor, MonitorNext(m)
  PROVE  [LockNext]_lockVars
<1>1. CASE MonitorWatch(m)
  BY <1>1 DEF MonitorWatch, LockNext
<1>2. CASE MonitorLockStep(m)
  BY <1>2 DEF MonitorLockStep, LockNext, MonitorStep
<1>3. CASE MonitorDecide(m)
  BY <1>3 DEF MonitorDecide, LockNext, MonitorStep
<1>4. CASE MonitorPre(m) \/ MonitorFork(m) \/ MonitorReport(m)
  BY <1>4 DEF MonitorPre, MonitorFork, MonitorReport
<1>5. CASE MidReap(m) \/ MonitorReload(m) \/ MonitorClean(m)
  BY <1>5 DEF MidReap, MonitorReload, MonitorClean
<1> QED
  BY <1>1, <1>2, <1>3, <1>4, <1>5 DEF MonitorNext

(***************************************************************************)
(* Refinement: the life cycle of the container implements the external     *)
(* command lock.  Every step of a command, a monitor, an init or the host  *)
(* is a step of module ExternalLock or leaves its variables alone.         *)
(***************************************************************************)
LEMMA LifecycleImplementsLock == Spec => LockSpec
<1>1. Init => LockInit
  BY DEF Init
<1>2. [Next]_vars => [LockNext]_lockVars
  <2> SUFFICES ASSUME [Next]_vars PROVE [LockNext]_lockVars
    OBVIOUS
  <2>1. ASSUME NEW c \in Cli, Begin(c) PROVE [LockNext]_lockVars
    BY <2>1 DEF Begin, LockNext
  <2>2. ASSUME NEW c \in Cli, CliNext(c) PROVE [LockNext]_lockVars
    BY <2>2, CliImplements
  <2>3. ASSUME NEW c \in Cli, CliDies(c) PROVE [LockNext]_lockVars
    BY <2>3 DEF CliDies, LockNext
  <2>4. ASSUME NEW m \in Monitor, MonitorNext(m) PROVE [LockNext]_lockVars
    BY <2>4, MonitorImplements
  <2>5. ASSUME NEW i \in InitPid, InitNext(i) \/ InitExit(i) PROVE [LockNext]_lockVars
    BY <2>5 DEF InitNext, InitGuard, InitBoot, InitExit
  <2>6. CASE HostReboots
    BY <2>6 DEF HostReboots, LockNext
  <2>7. CASE UNCHANGED vars
    BY <2>7 DEF vars
  <2> QED
    BY <2>1, <2>2, <2>3, <2>4, <2>5, <2>6, <2>7 DEF Next
<1> QED
  BY <1>1, <1>2, PTL DEF Spec, LockSpec

(***************************************************************************)
(* In the running system, with any number of commands at once, a lock file *)
(* that blocks commands was written in this boot by a command that is      *)
(* still inside the lock routines: no crash and no reboot strands it.      *)
(***************************************************************************)
THEOREM LifecycleNoStrandedLock == Spec => []NoStrandedLock
  BY LifecycleImplementsLock, NoStrandedLockHolds, PTL

-----------------------------------------------------------------------------
(***************************************************************************)
(* One container per name, for any number of commands, monitors and inits: *)
(* commands run one at a time (Serial), processes are scheduled in time    *)
(* (Prompt) and no command is killed.  The host may reboot anywhere.       *)
(*                                                                         *)
(* The invariant follows the argument of the code.  At most one command is *)
(* at work and at most one monitor; every living init belongs to it.  The  *)
(* lock file is the one of the command that holds it, so that the monitor  *)
(* of a container that is being stopped learns of the stop.  A stop that   *)
(* has seen its init die knows that no monitor is left; a start that goes  *)
(* on has found nothing running, because whatever runs carries the UUID of *)
(* the configuration.                                                      *)
(***************************************************************************)
Busy(m) == mpc[m] \notin {"none", "gone", "yielded", "crashed"}
Still == \A m \in Monitor : ~Busy(m)

(* The monitor may yet bring up an init, or has one. *)
Bootable(m) == Busy(m) /\ ~Cleaning(m) /\ mexit[m] # "exit"

Living(i) == init[i] \notin {"none", "dead"}

(* A container is up and nothing happens to it. *)
Watching(m) == mpc[m] = "watch" /\ mexit[m] = "run" /\ init[cur[m]] = "up"
Calm == \A m \in Monitor : Busy(m) => Watching(m)

Engaged(c) == Active(c) \/ lk[c] # "out"
OneCommand == \A c, p \in Cli : Engaged(c) /\ Engaged(p) => c = p

(* Parts of the three commands. *)
Stopping == {"signal", "wait", "kill"}
Tidying == {"prune", "unmount", "unlink"}
Handing == {"hacquire", "hrelease"}
Preparing == {"mount", "initbin", "uuid", "fork"}
Awaiting == {"await", "pid", "sidecar", "poll"}

(* Where a command is in the lock routines, by where it is in its own. *)
LockAt(c) ==
  /\ lk[c] # "out" => alive[c]
  /\ lk[c] # "refused"
  /\ alive[c] =>
       /\ pc[c] \in {"idle", "ok", "rcheck", "unique"} => lk[c] = "out"
       /\ pc[c] \in {"fail", "handoff"} => lk[c] \in {"out", "held"}
       /\ pc[c] \in {"acquire", "hacquire"} => lk[c] \in Acquiring \cup {"held", "failed"}
       /\ pc[c] \in {"running", "reload"} \cup Stopping => lk[c] = "held"
       /\ pc[c] \in Tidying /\ phase[c] = "stop" => lk[c] = "held"
       /\ pc[c] \in Preparing \cup Awaiting => lk[c] = IF la[c] THEN "held" ELSE "out"
       /\ pc[c] \in Tidying /\ phase[c] = "start" =>
            lk[c] = IF la[c] THEN "held" ELSE "out"
       /\ pc[c] \in {"hrelease", "eofrel", "relok", "relfail", "console"} =>
            lk[c] \in Releasing \cup {"out"}

(* Which routine it is in, whether it took a lock over, whom it forked. *)
PhaseAt(c) ==
  /\ pc[c] \in {"idle", "rcheck", "acquire", "running", "reload"} \cup Stopping =>
       phase[c] = "stop"
  /\ pc[c] \in {"handoff", "unique", "eofrel", "console"} \cup Handing \cup Preparing
               \cup Awaiting => phase[c] = "start"
  /\ cmd[c] = "stop" => phase[c] = "stop"
  /\ pc[c] = "reload" => cmd[c] = "restart"
  /\ la[c] => phase[c] = "start" /\ pc[c] \in Preparing \cup Awaiting \cup Tidying
                                              \cup {"relok", "relfail", "ok", "fail"}
  /\ pc[c] \in Awaiting => mine[c] \in Monitor

Place == \A c \in Cli : LockAt(c) /\ PhaseAt(c)

(* The file is the holder's, and no monitor is about to unlink it; a       *)
(* command that writes has removed what was there; a command that looked   *)
(* at a holder saw itself or a dead one.                                   *)
LockKept ==
  \A c \in Cli :
    /\ lk[c] \in {"held"} \cup Releasing =>
         /\ lockFile = Own(c)
         /\ \A m \in Monitor : mk[m] # "munlink" /\ (mk[m] = "mkill" => mseen[m] = Own(c))
    /\ lk[c] \in {"write", "failed"} => lockFile = NoLock
    /\ lk[c] = "kill" => ~(lock_holder_if_alive(seen[c]) /\ seen[c].pid # c)

(* A file nobody holds is one that a command left behind without a         *)
(* container, and a start that goes on without the lock has removed it.    *)
LockLeft ==
  /\ lockFile # NoLock /\ (\A c \in Cli : lk[c] = "out") => Still
  /\ \A c \in Cli :
       /\ Active(c) /\ phase[c] = "start" /\ lk[c] = "out" /\ pc[c] # "handoff" =>
            lockFile = NoLock
       /\ lk[c] = "held" /\ pc[c] = "fail" => Still

(* What a monitor's place says of its intermediate and its lock check. *)
MonitorAt(m) ==
  /\ mk[m] = "idle" <=> mpc[m] # "check"
  /\ mpc[m] = "check" => mexit[m] # "run"
  /\ mpc[m] \in {"none", "pre", "report"} => mexit[m] = "run"
  /\ mpc[m] = "none" => sent[m] = 0 /\ first[m]
  /\ mpc[m] = "fork" => mexit[m] # "exit"
  /\ mpc[m] = "reload" => mexit[m] = "reboot"
Monitors == \A m \in Monitor : MonitorAt(m)

OneMonitor == \A m, n \in Monitor : Busy(m) /\ Busy(n) => m = n

(* Every living init has the monitor that waits for it, and conversely. *)
Parents ==
  /\ \A i \in InitPid : Living(i) =>
       /\ by[i] \in Monitor /\ cur[by[i]] = i
       /\ mpc[by[i]] \in {"report", "watch"} /\ mexit[by[i]] = "run"
  /\ \A m \in Monitor : mpc[m] = "report" \/ (mpc[m] = "watch" /\ mexit[m] = "run") =>
       cur[m] \in InitPid /\ Living(cur[m]) /\ by[cur[m]] = m

(* While a stop waits, the monitor is the one of its target, and will not  *)
(* find the lock inactive.                                                 *)
StopHolds ==
  \A c \in Cli : alive[c] /\ pc[c] \in Stopping =>
    \A m \in Monitor : Busy(m) =>
      cur[m] = target[c] /\ mpc[m] \in {"report", "watch", "check"} /\ mk[m] # "inactive"

(* The command knows that nothing runs: a stop that saw its init die, and  *)
(* a start that prepares a container.                                      *)
KnowsStill(c) ==
  \/ pc[c] \in Tidying \cup {"relok"} /\ phase[c] = "stop"
  \/ pc[c] \in {"reload"} \cup Handing \cup Preparing
  \/ pc[c] = "handoff" /\ lk[c] = "held"
NothingRuns == \A c \in Cli : alive[c] /\ KnowsStill(c) => Still

(* A start that has not yet checked meets a container at rest. *)
StartCalm == \A c \in Cli : alive[c] /\ pc[c] \in {"handoff", "unique"} => Calm

(* During a start the container does not reboot. *)
NoReboot ==
  \A c \in Cli : Active(c) /\ phase[c] = "start" =>
    /\ \A i \in InitPid : init[i] # "zhup"
    /\ \A m \in Monitor : Busy(m) => mexit[m] # "reboot"

(* A start waits for the first boot of its own monitor. *)
FirstBoot ==
  \A c \in Cli : alive[c] /\ pc[c] \in Awaiting =>
    /\ \A m \in Monitor : Busy(m) => m = mine[c]
    /\ mpc[mine[c]] \in {"pre", "fork", "report"} => first[mine[c]] /\ sent[mine[c]] = 0
    /\ sent[mine[c]] # 0 => cur[mine[c]] = sent[mine[c]]
    /\ pc[c] # "await" => target[c] = sent[mine[c]] /\ target[c] # 0

(* A start that cleans up does so after a boot that is over. *)
StartOver ==
  \A c \in Cli :
    alive[c] /\ phase[c] = "start" /\ pc[c] \in {"eofrel"} \cup Tidying =>
      \A m \in Monitor : ~Bootable(m)

(* Whatever may run carries the UUID of the configuration, and so does the *)
(* command that looks for it.                                              *)
UuidsAgree ==
  /\ \A c \in Cli :
       /\ alive[c]
       /\ \/ pc[c] \in {"rcheck", "acquire", "running", "reload", "handoff", "unique"}
                       \cup Stopping \cup Handing \cup Preparing
          \/ pc[c] = "prune" /\ phase[c] = "stop"
       => uuid[c] = cfgUuid
  /\ \A m \in Monitor : Busy(m) => muuid[m] = cfgUuid

(* The image of a container that runs or may come up is mounted, and       *)
(* recorded once the start has written the sidecar, if it could.           *)
MountsHeld ==
  Img =>
    /\ \A c \in Cli : alive[c] =>
         /\ pc[c] \in Preparing \ {"mount"} => mounted /\ knowsMount[c]
         /\ pc[c] = "mount" /\ la[c] => mounted /\ knowsMount[c]
         /\ pc[c] \in Awaiting => knowsMount[c]
    /\ \A m \in Monitor : Bootable(m) =>
         /\ mounted
         /\ mountRec \/ unsaved
            \/ \E c \in Cli : alive[c] /\ pc[c] \in {"await", "pid", "sidecar"}

LifeInv ==
  /\ TypeOK /\ OneCommand /\ Place /\ LockKept /\ LockLeft
  /\ Monitors /\ OneMonitor /\ Parents /\ StopHolds /\ NothingRuns /\ StartCalm
  /\ NoReboot /\ FirstBoot /\ StartOver /\ UuidsAgree /\ MountsHeld

-----------------------------------------------------------------------------
(* A monitor leaves the commands alone and at most unlinks the lock file. *)
LEMMA MonitorLeaves ==
  ASSUME NEW m \in Monitor, MonitorNext(m)
  PROVE  /\ UNCHANGED <<cliVars, cfgUuid, lk, alive, seen, bootId>>
         /\ lockFile' \in {lockFile, NoLock}
<1> USE DEF lockVars, fileVars, initVars, cliVars, monVars
<1>1. CASE MonitorPre(m) \/ MonitorFork(m) \/ MonitorReport(m) \/ MidReap(m)
  BY <1>1 DEF MonitorPre, MonitorFork, MonitorReport, MidReap
<1>2. CASE MonitorWatch(m) \/ MonitorDecide(m)
  BY <1>2 DEF MonitorWatch, MonitorDecide, CheckBegin, CheckDone
<1>3. CASE MonitorLockStep(m)
  BY <1>3 DEF MonitorLockStep, CheckStep, CheckAccess, CheckRead, CheckKill, CheckUnlink
<1>4. CASE MonitorReload(m) \/ MonitorClean(m)
  BY <1>4 DEF MonitorReload, MonitorClean
<1> QED
  BY <1>1, <1>2, <1>3, <1>4, MonitorNext(m) DEF MonitorNext

(* A container changes its own state and, in the boot guard, the pidfile. *)
LEMMA InitLeaves ==
  ASSUME NEW i \in InitPid, InitNext(i) \/ InitExit(i)
  PROVE  UNCHANGED <<lockVars, mountRec, mounted, unsaved, cfgUuid, by, cliVars, monVars>>
  BY DEF InitNext, InitGuard, InitBoot, InitExit, fileVars

(* A command forks a monitor or signals an init, and else leaves both alone. *)
LEMMA CliLeaves ==
  ASSUME NEW c \in Cli, Begin(c) \/ CliNext(c) \/ CliDies(c)
  PROVE  /\ UNCHANGED <<by, mk, mseen, bootId, cur, sent, first, mexit>>
         /\ StartFork(c) \/ UNCHANGED <<mpc, muuid, mknows>>
         /\ UNCHANGED init \/ StopSignal(c) \/ StopWait(c)
<1> USE DEF lockVars, initVars, monVars
<1>1. CASE Begin(c) \/ CliDies(c)
  BY <1>1 DEF Begin, CliDies, AcquireBegin, Die
<1>2. CASE LockStep(c)
  BY <1>2 DEF LockStep, AcquireStep, ReleaseStep, AcquireAccess, AcquireRead,
     AcquireKill, AcquireUnlink, AcquireWrite, ReleaseRead, ReleaseUnlink
<1>3. CASE RestartCheck(c) \/ StopAcquired(c) \/ StopRunning(c) \/ StopSignal(c)
  BY <1>3 DEF RestartCheck, StopAcquired, StopRunning, StopSignal, AcquireBegin, GiveUp,
     ReleaseBegin
<1>4. CASE StopWait(c) \/ StopKill(c) \/ CliPrune(c) \/ CliUnmount(c) \/ CliUnlink(c)
  BY <1>4 DEF StopWait, StopKill, CliPrune, CliUnmount, CliUnlink, ReleaseBegin
<1>5. CASE RestartReload(c) \/ StartHandoff(c) \/ StartHanded(c) \/ StartReleased(c)
  BY <1>5 DEF RestartReload, StartHandoff, StartHanded, StartReleased, AcquireBegin,
     FindNoLock, GiveUp, ReleaseBegin
<1>6. CASE StartUnique(c) \/ StartMount(c) \/ StartInitBinary(c) \/ StartUuid(c)
  BY <1>6 DEF StartUnique, StartMount, StartInitBinary, StartUuid, ReleaseBegin
<1>7. CASE StartFork(c) \/ StartAwait(c) \/ StartEofReleased(c) \/ StartPidfile(c)
  BY <1>7 DEF StartFork, StartAwait, StartEofReleased, StartPidfile, ReleaseBegin
<1>8. CASE StartSidecar(c) \/ StartPoll(c) \/ StartConsole(c) \/ Released(c)
  BY <1>8 DEF StartSidecar, StartPoll, StartConsole, Released, ReleaseBegin
<1> QED
  BY <1>1, <1>2, <1>3, <1>4, <1>5, <1>6, <1>7, <1>8 DEF CliNext

(* A command begins only when no other is at work or holds the lock. *)
LEMMA OneCommandKept ==
  ASSUME Serial, TypeOK, OneCommand, Place, [Next]_vars
  PROVE  OneCommand'
<1>t. /\ pc \in [Cli -> CliPc]
      /\ lk \in [Cli -> CliState]
      /\ alive \in [Cli -> BOOLEAN]
  BY DEF TypeOK, LockTypeOK
<1> USE <1>t DEF OneCommand, Engaged, Active, Step, Goto, lockVars, fileVars, initVars,
   cliVars, monVars
<1>1. ASSUME NEW c \in Cli, Begin(c) PROVE OneCommand'
  BY <1>1 DEF Begin, Quiet, AcquireBegin, Place, LockAt, CliPc
<1>2. ASSUME NEW c \in Cli, CliNext(c) PROVE OneCommand'
  <2>1. CASE LockStep(c)
    BY <2>1 DEF LockStep, AcquireStep, ReleaseStep, AcquireAccess, AcquireRead,
       AcquireKill, AcquireUnlink, AcquireWrite, ReleaseRead, ReleaseUnlink
  <2>2. CASE RestartCheck(c) \/ StopAcquired(c) \/ StopRunning(c) \/ StopSignal(c) \/
     StopWait(c)
    BY <2>2 DEF RestartCheck, AcquireBegin, StopAcquired, GiveUp, StopRunning,
       ReleaseBegin, StopSignal, StopWait
  <2>3. CASE StopKill(c) \/ CliPrune(c) \/ CliUnmount(c) \/ CliUnlink(c) \/
     RestartReload(c)
    BY <2>3 DEF StopKill, CliPrune, CliUnmount, CliUnlink, ReleaseBegin, RestartReload
  <2>4. CASE StartHandoff(c) \/ StartHanded(c) \/ StartReleased(c) \/ StartUnique(c) \/
     StartMount(c)
    BY <2>4 DEF StartHandoff, AcquireBegin, FindNoLock, StartHanded, GiveUp,
       ReleaseBegin, StartReleased, StartUnique, StartMount
  <2>5. CASE StartInitBinary(c) \/ StartUuid(c) \/ StartFork(c) \/ StartAwait(c) \/
     StartEofReleased(c)
    BY <2>5 DEF StartInitBinary, StartUuid, StartFork, StartAwait, ReleaseBegin,
       StartEofReleased
  <2>6. CASE StartPidfile(c) \/ StartSidecar(c) \/ StartPoll(c) \/ StartConsole(c) \/
     Released(c)
    BY <2>6 DEF StartPidfile, StartSidecar, ReleaseBegin, StartPoll, StartConsole,
       Released
  <2> QED BY <1>2, <2>1, <2>2, <2>3, <2>4, <2>5, <2>6 DEF CliNext
<1>3. ASSUME NEW c \in Cli, CliDies(c) PROVE OneCommand'
  BY <1>3 DEF CliDies, Die
<1>4. ASSUME NEW m \in Monitor, MonitorNext(m) PROVE OneCommand'
  BY <1>4, MonitorLeaves
<1>5. ASSUME NEW i \in InitPid, InitNext(i) \/ InitExit(i) PROVE OneCommand'
  BY <1>5, InitLeaves
<1>6. CASE HostReboots
  BY <1>6 DEF HostReboots, HostReboot
<1>7. CASE UNCHANGED vars
  BY <1>7 DEF vars, lockVars, fileVars, initVars, cliVars, monVars
<1> QED
  BY <1>1, <1>2, <1>3, <1>4, <1>5, <1>6, <1>7 DEF Next

(* A command is in the lock routines where its own code called them. *)
LEMMA PlaceKept ==
  ASSUME TypeOK, Place, LockKept, ~CanDie, [Next]_vars
  PROVE  Place'
<1>t. /\ pc \in [Cli -> CliPc]
      /\ lk \in [Cli -> CliState]
      /\ alive \in [Cli -> BOOLEAN]
      /\ phase \in [Cli -> {"stop", "start"}]
      /\ la \in [Cli -> BOOLEAN]
      /\ cmd \in [Cli -> Commands \cup {"none"}]
      /\ mine \in [Cli -> Monitor \cup {NoMonitor}]
  BY DEF TypeOK, LockTypeOK
<1> USE <1>t DEF Place, LockAt, PhaseAt, Acquiring, Releasing, Stopping, Tidying,
   Handing, Preparing, Awaiting, CliPc, Step, Goto, lockVars, fileVars, initVars,
   cliVars, monVars
<1>1. ASSUME NEW c \in Cli, Begin(c) PROVE Place'
  BY <1>1 DEF Begin, AcquireBegin, Quiet
<1>2. ASSUME NEW c \in Cli, CliNext(c) PROVE Place'
  <2>1. CASE LockStep(c)
    BY <2>1 DEF LockKept, LockStep, AcquireStep, ReleaseStep, AcquireAccess,
       AcquireRead, AcquireKill, AcquireUnlink, AcquireWrite, ReleaseRead, ReleaseUnlink
  <2>2. CASE RestartCheck(c)
    BY <2>2 DEF RestartCheck, AcquireBegin
  <2>3. CASE StopAcquired(c)
    BY <2>3 DEF StopAcquired, GiveUp
  <2>4. CASE StopRunning(c)
    BY <2>4 DEF StopRunning, ReleaseBegin
  <2>5. CASE StopSignal(c)
    BY <2>5 DEF StopSignal
  <2>6. CASE StopWait(c)
    BY <2>6 DEF StopWait
  <2>7. CASE StopKill(c)
    BY <2>7 DEF StopKill
  <2>8. CASE CliPrune(c)
    BY <2>8 DEF CliPrune, SkipUnmount
  <2>9. CASE CliUnmount(c)
    BY <2>9 DEF CliUnmount
  <2>10. CASE CliUnlink(c)
    BY <2>10 DEF CliUnlink, ReleaseBegin
  <2>11. CASE RestartReload(c)
    BY <2>11 DEF RestartReload
  <2>12. CASE StartHandoff(c)
    BY <2>12 DEF StartHandoff, AcquireBegin, FindNoLock
  <2>13. CASE StartHanded(c)
    BY <2>13 DEF StartHanded, GiveUp, ReleaseBegin
  <2>14. CASE StartReleased(c)
    BY <2>14 DEF StartReleased
  <2>15. CASE StartUnique(c)
    BY <2>15 DEF StartUnique
  <2>16. CASE StartMount(c)
    BY <2>16 DEF StartMount, ReleaseBegin
  <2>17. CASE StartInitBinary(c)
    BY <2>17 DEF StartInitBinary
  <2>18. CASE StartUuid(c)
    BY <2>18 DEF StartUuid
  <2>19. CASE StartFork(c)
    BY <2>19 DEF StartFork
  <2>20. CASE StartAwait(c)
    BY <2>20 DEF StartAwait, ReleaseBegin
  <2>21. CASE StartEofReleased(c)
    BY <2>21 DEF StartEofReleased
  <2>22. CASE StartPidfile(c)
    BY <2>22 DEF StartPidfile
  <2>23. CASE StartSidecar(c)
    BY <2>23 DEF StartSidecar, ReleaseBegin
  <2>24. CASE StartPoll(c)
    BY <2>24 DEF StartPoll, ReleaseBegin
  <2>25. CASE StartConsole(c)
    BY <2>25 DEF StartConsole
  <2>26. CASE Released(c)
    BY <2>26 DEF Released
  <2> QED BY <1>2, <2>1, <2>2, <2>3, <2>4, <2>5, <2>6, <2>7, <2>8, <2>9, <2>10, <2>11,
     <2>12, <2>13, <2>14, <2>15, <2>16, <2>17, <2>18, <2>19, <2>20, <2>21, <2>22, <2>23,
     <2>24, <2>25, <2>26 DEF CliNext
<1>3. ASSUME NEW c \in Cli, CliDies(c) PROVE Place'
  BY <1>3 DEF CliDies, Die
<1>4. ASSUME NEW m \in Monitor, MonitorNext(m) PROVE Place'
  BY <1>4, MonitorLeaves
<1>5. ASSUME NEW i \in InitPid, InitNext(i) \/ InitExit(i) PROVE Place'
  BY <1>5, InitLeaves
<1>6. CASE HostReboots
  BY <1>6 DEF HostReboots, HostReboot
<1>7. CASE UNCHANGED vars
  BY <1>7 DEF vars, lockVars, fileVars, initVars, cliVars, monVars
<1> QED
  BY <1>1, <1>2, <1>3, <1>4, <1>5, <1>6, <1>7 DEF Next

(* Nobody but its holder takes the lock away. *)
LEMMA LockStaysKept ==
  ASSUME Prompt, TypeOK, NoStrandedLock, OneCommand, Place, LockKept, [Next]_vars
  PROVE  LockKept'
<1>t. /\ lk \in [Cli -> CliState]
      /\ alive \in [Cli -> BOOLEAN]
      /\ bootId \in 0..MaxBoot
      /\ lockFile \in Stamp \cup {NoLock}
      /\ seen \in [Cli -> Stamp \cup {NoLock}]
      /\ mk \in [Monitor -> MonState]
      /\ mseen \in [Monitor -> Stamp \cup {NoLock}]
  BY DEF TypeOK, LockTypeOK
<1>o. \A c, p \in Cli : lk[c] # "out" /\ lk[p] # "out" => c = p
  BY DEF OneCommand, Engaged
<1>a. \A c \in Cli : lk[c] # "out" => alive[c]
  BY DEF Place, LockAt
<1> USE <1>t, <1>o, <1>a, LockAssumption DEF LockKept, Own, Goto, MGoto, Acquiring,
   Releasing, lock_holder_if_alive, lockVars, cliVars, monVars
<1>1. ASSUME NEW c \in Cli, Begin(c) PROVE LockKept'
  BY <1>1 DEF Begin, AcquireBegin, Quiet
<1>2. ASSUME NEW c \in Cli, CliNext(c) PROVE LockKept'
  <2>1. CASE LockStep(c)
    <3>1. CASE AcquireAccess(c)
      BY <3>1 DEF AcquireAccess
    <3>2. CASE AcquireRead(c)
      <4>1. lock_holder_if_alive(lockFile) => lockFile.pid \in Cli /\ lk[lockFile.pid] # "out"
        BY DEF NoStrandedLock, Stamp
      <4>2. lock_holder_if_alive(lockFile) => lockFile.pid = c
        BY <3>2, <4>1 DEF AcquireRead
      <4> QED BY <3>2, <4>2 DEF AcquireRead
    <3>3. CASE AcquireKill(c)
      BY <3>3 DEF AcquireKill
    <3>4. CASE AcquireUnlink(c)
      BY <3>4 DEF AcquireUnlink
    <3>5. CASE AcquireWrite(c)
      BY <2>1, <3>5 DEF AcquireWrite, LockStep
    <3>6. CASE ReleaseRead(c)
      BY <3>6 DEF ReleaseRead
    <3>7. CASE ReleaseUnlink(c)
      BY <3>7 DEF ReleaseUnlink
    <3> QED
      BY <2>1, <3>1, <3>2, <3>3, <3>4, <3>5, <3>6, <3>7 DEF LockStep, AcquireStep,
         ReleaseStep
  <2>2. CASE RestartCheck(c) \/ StopAcquired(c) \/ StopRunning(c)
    BY <2>2 DEF RestartCheck, AcquireBegin, StopAcquired, GiveUp, StopRunning,
       ReleaseBegin
  <2>3. CASE StopSignal(c) \/ StopWait(c) \/ StopKill(c)
    BY <2>3 DEF StopSignal, StopWait, StopKill
  <2>4. CASE CliPrune(c) \/ CliUnmount(c) \/ CliUnlink(c)
    BY <2>4 DEF CliPrune, CliUnmount, CliUnlink, ReleaseBegin
  <2>5. CASE RestartReload(c) \/ StartHandoff(c) \/ StartHanded(c)
    BY <2>5 DEF RestartReload, StartHandoff, AcquireBegin, FindNoLock, StartHanded,
       GiveUp, ReleaseBegin
  <2>6. CASE StartReleased(c) \/ StartUnique(c) \/ StartMount(c)
    BY <2>6 DEF StartReleased, StartUnique, StartMount, ReleaseBegin
  <2>7. CASE StartInitBinary(c) \/ StartUuid(c) \/ StartFork(c)
    BY <2>7 DEF StartInitBinary, StartUuid, StartFork
  <2>8. CASE StartAwait(c) \/ StartEofReleased(c) \/ StartPidfile(c)
    BY <2>8 DEF StartAwait, ReleaseBegin, StartEofReleased, StartPidfile
  <2>9. CASE StartSidecar(c) \/ StartPoll(c) \/ StartConsole(c)
    BY <2>9 DEF StartSidecar, ReleaseBegin, StartPoll, StartConsole
  <2>10. CASE Released(c)
    BY <2>10 DEF Released
  <2> QED BY <1>2, <2>1, <2>2, <2>3, <2>4, <2>5, <2>6, <2>7, <2>8, <2>9, <2>10 DEF
     CliNext
<1>3. ASSUME NEW c \in Cli, CliDies(c) PROVE LockKept'
  BY <1>3 DEF CliDies, Die
<1>4. ASSUME NEW m \in Monitor, MonitorNext(m) PROVE LockKept'
  <2>1. CASE MonitorPre(m) \/ MonitorFork(m) \/ MonitorReport(m)
    BY <2>1 DEF MonitorPre, MonitorFork, MonitorReport
  <2>2. CASE MonitorLockStep(m)
    <3>u. UNCHANGED <<cliVars, cfgUuid, initVars, monVars>>
      BY <2>2 DEF MonitorLockStep
    <3>1. CASE CheckAccess(m)
      BY <3>u, <3>1 DEF CheckAccess
    <3>2. CASE CheckRead(m)
      BY <3>u, <3>2 DEF CheckRead
    <3>3. CASE CheckKill(m)
      BY <3>u, <3>3 DEF CheckKill
    <3>4. CASE CheckUnlink(m)
      BY <3>u, <3>4 DEF CheckUnlink
    <3> QED
      BY <2>2, <3>1, <3>2, <3>3, <3>4 DEF MonitorLockStep, CheckStep
  <2>3. CASE MidReap(m) \/ MonitorWatch(m) \/ MonitorDecide(m)
    BY <2>3 DEF MidReap, MonitorWatch, CheckBegin, MonitorDecide, CheckDone
  <2>4. CASE MonitorReload(m) \/ MonitorClean(m)
    BY <2>4 DEF MonitorReload, MonitorClean
  <2> QED BY <1>4, <2>1, <2>2, <2>3, <2>4 DEF MonitorNext
<1>5. ASSUME NEW i \in InitPid, InitNext(i) \/ InitExit(i) PROVE LockKept'
  BY <1>5, InitLeaves
<1>6. CASE HostReboots
  BY <1>6 DEF HostReboots, HostReboot
<1>7. CASE UNCHANGED vars
  BY <1>7 DEF vars, lockVars, fileVars, initVars, cliVars, monVars
<1> QED
  BY <1>1, <1>2, <1>3, <1>4, <1>5, <1>6, <1>7 DEF Next

(* Since one monitor is at work, one init lives. *)
LEMMA OneLiving ==
  ASSUME OneMonitor, Parents
  PROVE  /\ \A i, j \in InitPid : Living(i) /\ Living(j) => i = j
         /\ Still => \A i \in InitPid : ~Living(i)
  BY DEF OneMonitor, Parents, Busy, Still

(* The UUID scan returns a running init, or 0 when none carries the UUID. *)
LEMMA FoundIs ==
  ASSUME TypeOK, OneMonitor, Parents, NEW u
  PROVE  LET p == find_container_init_pid(u) IN
         /\ p \in 0..MaxInit
         /\ p # 0 => init[p] = "up"
         /\ p = 0 => \A i \in InitPid : init[i] = "up" => muuid[by[i]] # u
<1> DEFINE found == {i \in InitPid : init[i] = "up" /\ muuid[by[i]] = u}
<1>0. MaxInit \in Nat
  BY LifecycleAssumption
<1>1. CASE found = {}
  <2>1. find_container_init_pid(u) = 0
    BY <1>1 DEF find_container_init_pid
  <2> QED BY <1>0, <1>1, <2>1
<1>2. CASE found # {}
  <2>1. PICK i \in found : TRUE
    BY <1>2
  <2>2. \A j \in found : j = i
    BY <2>1, OneLiving DEF Living
  <2>3. i \in InitPid /\ init[i] = "up" /\ i # 0 /\ i \in 0..MaxInit /\ i <= i
    BY <1>0, <2>1 DEF InitPid
  <2>4. (CHOOSE k \in found : \A j \in found : k <= j) = i
    BY <2>1, <2>2, <2>3
  <2>5. find_container_init_pid(u) = i
    BY <1>2, <2>4 DEF find_container_init_pid
  <2> QED BY <2>3, <2>5
<1> QED BY <1>1, <1>2

(* So does is_container_running. *)
LEMMA RunningIs ==
  ASSUME TypeOK, OneMonitor, Parents, NEW u
  PROVE  /\ RunningPid(u) \in 0..MaxInit
         /\ RunningPid(u) # 0 => init[RunningPid(u)] = "up" /\ RunningPid(u) \in InitPid
         /\ RunningPid(u) = 0 => \A i \in InitPid : init[i] = "up" => muuid[by[i]] # u
<1>0. MaxInit \in Nat /\ pidfile \in 0..MaxInit
  BY LifecycleAssumption DEF TypeOK
<1>1. CASE ValidPid(pidfile)
  BY <1>0, <1>1 DEF RunningPid, ValidPid, InitPid
<1>2. CASE ~ValidPid(pidfile)
  <2>1. RunningPid(u) = find_container_init_pid(u)
    BY <1>2 DEF RunningPid
  <2> QED BY <1>0, <2>1, FoundIs DEF InitPid
<1> QED BY <1>1, <1>2

(* A command that looks for the UUID of the configuration and finds        *)
(* nothing meets no running init.                                          *)
LEMMA NoneRuns ==
  ASSUME TypeOK, OneMonitor, Parents, UuidsAgree, RunningPid(cfgUuid) = 0
  PROVE  \A i \in InitPid : init[i] # "up"
<1>1. \A i \in InitPid : init[i] = "up" => muuid[by[i]] # cfgUuid
  BY RunningIs
<1>2. \A i \in InitPid : init[i] = "up" => by[i] \in Monitor /\ Busy(by[i])
  BY DEF Parents, Living, Busy
<1> QED BY <1>1, <1>2 DEF UuidsAgree

(* A monitor asks for the lock after its intermediate has exited. *)
LEMMA MonitorsKept ==
  ASSUME TypeOK, Monitors, [Next]_vars
  PROVE  Monitors'
<1>t. /\ mpc \in [Monitor -> MonPc]
      /\ mk \in [Monitor -> MonState]
      /\ mexit \in [Monitor -> {"run", "reboot", "exit"}]
      /\ first \in [Monitor -> BOOLEAN]
      /\ sent \in [Monitor -> 0..MaxInit]
  BY DEF TypeOK, LockTypeOK
<1> USE <1>t DEF Monitors, MonitorAt, MStep, MGoto, lockVars, fileVars, initVars,
   cliVars, monVars
<1>1. ASSUME NEW c \in Cli, Begin(c) PROVE Monitors'
  BY <1>1, CliLeaves DEF Begin, StartFork
<1>2. ASSUME NEW c \in Cli, CliNext(c) PROVE Monitors'
  <2>1. CASE StartFork(c)
    BY <2>1, CliLeaves DEF StartFork
  <2>2. CASE ~StartFork(c)
    BY <1>2, <2>2, CliLeaves
  <2> QED BY <2>1, <2>2
<1>3. ASSUME NEW c \in Cli, CliDies(c) PROVE Monitors'
  BY <1>3, CliLeaves DEF CliDies, StartFork
<1>4. ASSUME NEW m \in Monitor, MonitorNext(m) PROVE Monitors'
  <2>1. CASE MonitorPre(m) \/ MonitorFork(m) \/ MonitorReport(m)
    BY <2>1 DEF MonitorPre, MonitorFork, MonitorReport
  <2>2. CASE MidReap(m) \/ MonitorWatch(m) \/ MonitorLockStep(m)
    BY <2>2 DEF MidReap, MonitorWatch, CheckBegin, MonitorLockStep, CheckStep,
       CheckAccess, CheckRead, CheckKill, CheckUnlink
  <2>3. CASE MonitorDecide(m) \/ MonitorReload(m) \/ MonitorClean(m)
    BY <2>3 DEF MonitorDecide, CheckDone, MonitorReload, MonitorClean
  <2> QED BY <1>4, <2>1, <2>2, <2>3 DEF MonitorNext
<1>5. ASSUME NEW i \in InitPid, InitNext(i) \/ InitExit(i) PROVE Monitors'
  BY <1>5, InitLeaves
<1>6. CASE HostReboots
  BY <1>6 DEF HostReboots, HostReboot
<1>7. CASE UNCHANGED vars
  BY <1>7 DEF vars, lockVars, fileVars, initVars, cliVars, monVars
<1> QED
  BY <1>1, <1>2, <1>3, <1>4, <1>5, <1>6, <1>7 DEF Next

(* A monitor is forked only when there is none. *)
LEMMA OneMonitorKept ==
  ASSUME TypeOK, NothingRuns, OneMonitor, [Next]_vars
  PROVE  OneMonitor'
<1>t. /\ mpc \in [Monitor -> MonPc]
  BY DEF TypeOK, LockTypeOK
<1> USE <1>t DEF OneMonitor, Busy, MStep, MGoto, lockVars, fileVars, initVars, cliVars,
   monVars
<1>1. ASSUME NEW c \in Cli, Begin(c) PROVE OneMonitor'
  BY <1>1, CliLeaves DEF Begin, StartFork
<1>2. ASSUME NEW c \in Cli, CliNext(c) PROVE OneMonitor'
  <2>1. CASE StartFork(c)
    <3>1. Still
      BY <2>1, <1>2 DEF StartFork, CliNext, NothingRuns, KnowsStill, Preparing
    <3> QED BY <2>1, <3>1 DEF StartFork, Still
  <2>2. CASE ~StartFork(c)
    BY <1>2, <2>2, CliLeaves
  <2> QED BY <2>1, <2>2
<1>3. ASSUME NEW c \in Cli, CliDies(c) PROVE OneMonitor'
  BY <1>3, CliLeaves DEF CliDies, StartFork
<1>4. ASSUME NEW m \in Monitor, MonitorNext(m) PROVE OneMonitor'
  <2>1. CASE MonitorPre(m) \/ MonitorFork(m) \/ MonitorReport(m)
    BY <2>1 DEF MonitorPre, MonitorFork, MonitorReport
  <2>2. CASE MidReap(m) \/ MonitorWatch(m) \/ MonitorLockStep(m)
    BY <2>2 DEF MidReap, MonitorWatch, CheckBegin, MonitorLockStep, CheckStep,
       CheckAccess, CheckRead, CheckKill, CheckUnlink
  <2>3. CASE MonitorDecide(m) \/ MonitorReload(m) \/ MonitorClean(m)
    BY <2>3 DEF MonitorDecide, CheckDone, MonitorReload, MonitorClean
  <2> QED BY <1>4, <2>1, <2>2, <2>3 DEF MonitorNext
<1>5. ASSUME NEW i \in InitPid, InitNext(i) \/ InitExit(i) PROVE OneMonitor'
  BY <1>5, InitLeaves
<1>6. CASE HostReboots
  BY <1>6 DEF HostReboots, HostReboot
<1>7. CASE UNCHANGED vars
  BY <1>7 DEF vars, lockVars, fileVars, initVars, cliVars, monVars
<1> QED
  BY <1>1, <1>2, <1>3, <1>4, <1>5, <1>6, <1>7 DEF Next

(* Inits are forked, reaped and killed under the monitor that waits for them. *)
LEMMA ParentsKept ==
  ASSUME TypeOK, Monitors, OneMonitor, Parents, [Next]_vars
  PROVE  Parents'
<1>t. /\ mpc \in [Monitor -> MonPc]
      /\ mexit \in [Monitor -> {"run", "reboot", "exit"}]
      /\ cur \in [Monitor -> 0..MaxInit]
      /\ init \in [InitPid -> InitState]
      /\ by \in [InitPid -> Monitor \cup {NoMonitor}]
  BY DEF TypeOK, LockTypeOK
<1> USE <1>t DEF Parents, Living, MStep, MGoto, lockVars, fileVars, initVars, cliVars,
   monVars
<1>1. ASSUME NEW c \in Cli, Begin(c) PROVE Parents'
  BY <1>1, CliLeaves DEF Begin, StartFork, StopSignal, StopWait
<1>2. ASSUME NEW c \in Cli, CliNext(c) PROVE Parents'
  <2>1. CASE StartFork(c)
    <3>1. UNCHANGED <<init, by, cur, mexit>>
      BY <2>1 DEF StartFork
    <3>2. \A m \in Monitor : mpc'[m] # mpc[m] => mpc[m] = "none" /\ mpc'[m] = "pre"
      BY <2>1 DEF StartFork
    <3> QED BY <3>1, <3>2
  <2>2. CASE StopSignal(c) \/ StopWait(c)
    <3>1. UNCHANGED <<by, mpc, cur, mexit>>
      BY <2>2 DEF StopSignal, StopWait
    <3>2. init' \in [InitPid -> InitState] /\ \A i \in InitPid : Living(i)' <=> Living(i)
      BY <2>2 DEF StopSignal, StopWait, SigKill, Booting, InitState
    <3> QED BY <3>1, <3>2
  <2>3. CASE ~StartFork(c) /\ ~StopSignal(c) /\ ~StopWait(c)
    BY <1>2, <2>3, CliLeaves
  <2> QED BY <2>1, <2>2, <2>3
<1>3. ASSUME NEW c \in Cli, CliDies(c) PROVE Parents'
  BY <1>3, CliLeaves DEF CliDies, StartFork, StopSignal, StopWait
<1>4. ASSUME NEW m \in Monitor, MonitorNext(m) PROVE Parents'
  <2>1. CASE MonitorPre(m)
    BY <2>1 DEF MonitorPre, SigKill, Booting
  <2>2. CASE MonitorFork(m)
    BY <2>2 DEF MonitorFork, OneMonitor, Busy
  <2>3. CASE MonitorReport(m)
    BY <2>3 DEF MonitorReport
  <2>4. CASE MidReap(m)
    BY <2>4 DEF MidReap, Zombie
  <2>5. CASE MonitorWatch(m)
    BY <2>5 DEF MonitorWatch, CheckBegin
  <2>6. CASE MonitorLockStep(m)
    BY <2>6 DEF MonitorLockStep, CheckStep, CheckAccess, CheckRead, CheckKill,
       CheckUnlink
  <2>7. CASE MonitorDecide(m)
    BY <2>7 DEF MonitorDecide, CheckDone
  <2>8. CASE MonitorReload(m)
    BY <2>8 DEF MonitorReload
  <2>9. CASE MonitorClean(m)
    BY <2>9 DEF MonitorClean
  <2> QED BY <1>4, <2>1, <2>2, <2>3, <2>4, <2>5, <2>6, <2>7, <2>8, <2>9 DEF MonitorNext
<1>5. ASSUME NEW i \in InitPid, InitNext(i) \/ InitExit(i) PROVE Parents'
  <2>1. CASE InitGuard(i) \/ InitBoot(i) \/ InitExit(i)
    BY <2>1 DEF InitGuard, InitBoot, InitExit, Zombie
  <2> QED BY <1>5, <2>1 DEF InitNext
<1>6. CASE HostReboots
  BY <1>6 DEF HostReboots, HostReboot
<1>7. CASE UNCHANGED vars
  BY <1>7 DEF vars, lockVars, fileVars, initVars, cliVars, monVars
<1> QED
  BY <1>1, <1>2, <1>3, <1>4, <1>5, <1>6, <1>7 DEF Next

(* A command changes only its own state; while one is at work, the others  *)
(* are idle, done or at their console.                                     *)
LEMMA OthersStay ==
  ASSUME TypeOK, OneCommand, NEW c \in Cli, CliNext(c), Engaged(c)
  PROVE  \A p \in Cli \ {c} :
           /\ ~Engaged(p) /\ ~Engaged(p)' /\ lk'[p] = "out"
           /\ pc'[p] = pc[p] /\ alive'[p] = alive[p]
<1>t. /\ pc \in [Cli -> CliPc]
      /\ lk \in [Cli -> CliState]
      /\ alive \in [Cli -> BOOLEAN]
  BY DEF TypeOK, LockTypeOK
<1> USE <1>t DEF OneCommand, Engaged, Active, Step, Goto, lockVars, fileVars, initVars,
   cliVars, monVars
<1>1. CASE LockStep(c)
  BY <1>1 DEF LockStep, AcquireStep, ReleaseStep, AcquireAccess, AcquireRead,
     AcquireKill, AcquireUnlink, AcquireWrite, ReleaseRead, ReleaseUnlink
<1>2. CASE RestartCheck(c) \/ StopAcquired(c) \/ StopRunning(c) \/ StopSignal(c) \/
   StopWait(c)
  BY <1>2 DEF RestartCheck, AcquireBegin, StopAcquired, GiveUp, StopRunning,
     ReleaseBegin, StopSignal, StopWait
<1>3. CASE StopKill(c) \/ CliPrune(c) \/ CliUnmount(c) \/ CliUnlink(c) \/
   RestartReload(c)
  BY <1>3 DEF StopKill, CliPrune, CliUnmount, CliUnlink, ReleaseBegin, RestartReload
<1>4. CASE StartHandoff(c) \/ StartHanded(c) \/ StartReleased(c) \/ StartUnique(c) \/
   StartMount(c)
  BY <1>4 DEF StartHandoff, AcquireBegin, FindNoLock, StartHanded, GiveUp, ReleaseBegin,
     StartReleased, StartUnique, StartMount
<1>5. CASE StartInitBinary(c) \/ StartUuid(c) \/ StartFork(c) \/ StartAwait(c) \/
   StartEofReleased(c)
  BY <1>5 DEF StartInitBinary, StartUuid, StartFork, StartAwait, ReleaseBegin,
     StartEofReleased
<1>6. CASE StartPidfile(c) \/ StartSidecar(c) \/ StartPoll(c) \/ StartConsole(c) \/
   Released(c)
  BY <1>6 DEF StartPidfile, StartSidecar, ReleaseBegin, StartPoll, StartConsole,
     Released
<1> QED
  BY <1>1, <1>2, <1>3, <1>4, <1>5, <1>6 DEF CliNext

(* A command that takes a step is at work, or ends its console. *)
LEMMA AtWork ==
  ASSUME NEW c \in Cli, CliNext(c)
  PROVE  Engaged(c) \/ StartConsole(c)
<1> USE DEF Engaged, Active
<1>1. CASE LockStep(c)
  BY <1>1, CliNext(c) DEF CliNext, LockStep, AcquireStep, ReleaseStep, AcquireAccess,
     AcquireRead, AcquireKill, AcquireUnlink, AcquireWrite, ReleaseRead, ReleaseUnlink
<1>2. CASE RestartCheck(c) \/ StopAcquired(c) \/ StopRunning(c) \/ StopSignal(c) \/
   StopWait(c) \/ StopKill(c)
  BY <1>2, CliNext(c) DEF CliNext, RestartCheck, StopAcquired, StopRunning, StopSignal,
     StopWait, StopKill
<1>3. CASE CliPrune(c) \/ CliUnmount(c) \/ CliUnlink(c) \/ RestartReload(c) \/
   StartHandoff(c) \/ StartHanded(c)
  BY <1>3, CliNext(c) DEF CliNext, CliPrune, CliUnmount, CliUnlink, RestartReload,
     StartHandoff, StartHanded
<1>4. CASE StartReleased(c) \/ StartUnique(c) \/ StartMount(c) \/ StartInitBinary(c) \/
   StartUuid(c) \/ StartFork(c)
  BY <1>4, CliNext(c) DEF CliNext, StartReleased, StartUnique, StartMount,
     StartInitBinary, StartUuid, StartFork
<1>5. CASE StartAwait(c) \/ StartEofReleased(c) \/ StartPidfile(c) \/ StartSidecar(c) \/
   StartPoll(c) \/ Released(c)
  BY <1>5, CliNext(c) DEF CliNext, StartAwait, StartEofReleased, StartPidfile,
     StartSidecar, StartPoll, Released
<1> QED
  BY <1>1, <1>2, <1>3, <1>4, <1>5 DEF CliNext

(* A monitor that has ended stays so, and only forks make one. *)
LEMMA MonitorEnds ==
  ASSUME TypeOK, Monitors, NEW m \in Monitor, MonitorNext(m)
  PROVE  /\ Busy(m) /\ \A n \in Monitor : Busy(n)' => Busy(n)
         /\ \A n \in Monitor \ {m} :
              /\ mpc'[n] = mpc[n] /\ mk'[n] = mk[n] /\ cur'[n] = cur[n]
              /\ mexit'[n] = mexit[n] /\ muuid'[n] = muuid[n]
              /\ first'[n] = first[n] /\ sent'[n] = sent[n]
<1>t. /\ mpc \in [Monitor -> MonPc]
      /\ mk \in [Monitor -> MonState]
      /\ cur \in [Monitor -> 0..MaxInit]
      /\ mexit \in [Monitor -> {"run", "reboot", "exit"}]
      /\ muuid \in [Monitor -> 1..MaxUuid]
      /\ first \in [Monitor -> BOOLEAN]
      /\ sent \in [Monitor -> 0..MaxInit]
  BY DEF TypeOK, LockTypeOK
<1> USE <1>t DEF Busy, MStep, MGoto, lockVars, monVars
<1>1. CASE MonitorPre(m) \/ MonitorReport(m) \/ MidReap(m)
  BY <1>1 DEF MonitorPre, MonitorReport, MidReap
<1>2. CASE MonitorFork(m)
  BY <1>2 DEF MonitorFork
<1>3. CASE MonitorWatch(m) \/ MonitorDecide(m)
  BY <1>3 DEF MonitorWatch, MonitorDecide, CheckBegin, CheckDone
<1>4. CASE MonitorLockStep(m)
  BY <1>4, Monitors DEF MonitorLockStep, CheckStep, CheckAccess, CheckRead, CheckKill,
     CheckUnlink, Monitors, MonitorAt
<1>5. CASE MonitorReload(m)
  BY <1>5 DEF MonitorReload
<1>6. CASE MonitorClean(m)
  BY <1>6 DEF MonitorClean
<1> QED
  BY <1>1, <1>2, <1>3, <1>4, <1>5, <1>6, MonitorNext(m) DEF MonitorNext

(* A lock file that nobody holds is left behind only when nothing runs. *)
LEMMA LockLeftKept ==
  ASSUME TypeOK, OneCommand, Place, LockKept, LockLeft, Monitors, NothingRuns, ~CanDie,
     [Next]_vars
  PROVE  LockLeft'
<1>t. /\ pc \in [Cli -> CliPc]
      /\ lk \in [Cli -> CliState]
      /\ alive \in [Cli -> BOOLEAN]
      /\ phase \in [Cli -> {"stop", "start"}]
      /\ mpc \in [Monitor -> MonPc]
  BY DEF TypeOK, LockTypeOK
<1> DEFINE Left(c) == /\ lockFile # NoLock /\ lk[c] = "out" => Still
                      /\ Active(c) /\ phase[c] = "start" /\ lk[c] = "out"
                           /\ pc[c] # "handoff" => lockFile = NoLock
                      /\ lk[c] = "held" /\ pc[c] = "fail" => Still
<1> USE <1>t DEF Active, Step, Goto, lockVars, fileVars, initVars, cliVars, monVars
<1>1. ASSUME NEW c \in Cli, Begin(c) PROVE LockLeft'
  BY <1>1, CliLeaves DEF Begin, AcquireBegin, LockLeft, Place, LockAt, Still, Busy,
     StartFork
<1>2. ASSUME NEW c \in Cli, CliNext(c) PROVE LockLeft'
  <2>c. CASE StartConsole(c)
    BY <2>c DEF StartConsole, LockLeft, Still, Busy, Active
  <2>e. SUFFICES ASSUME Engaged(c) PROVE LockLeft'
    BY <1>2, <2>c, AtWork
  <2>o. \A p \in Cli \ {c} : ~Engaged(p) /\ ~Engaged(p)' /\ lk'[p] = "out"
    BY <1>2, <2>e, OthersStay
  <2>l. Left(c)
    BY <2>o DEF LockLeft, Engaged
  <2>s. KnowsStill(c) => Still
    BY <1>2 DEF NothingRuns, CliNext
  <2>f. Still /\ ~StartFork(c) => Still'
    BY <1>2, CliLeaves DEF Still, Busy
  <2>p. LockAt(c) /\ PhaseAt(c) /\ alive[c]
    BY <1>2 DEF Place, CliNext
  <2>k. /\ lk[c] \in {"held"} \cup Releasing => lockFile = Own(c)
        /\ lk[c] \in {"write", "failed"} => lockFile = NoLock
    BY DEF LockKept
  <2> USE <2>l, <2>s, <2>f, <2>p, <2>k DEF KnowsStill, LockAt, PhaseAt, Acquiring,
     Releasing, Stopping, Tidying, Handing, Preparing, Awaiting, StartFork
  <2>1. ASSUME LockStep(c) PROVE Left(c)'
    <3>1. CASE AcquireAccess(c)
      BY <3>1 DEF AcquireAccess
    <3>2. CASE AcquireRead(c)
      BY <3>2 DEF AcquireRead
    <3>3. CASE AcquireKill(c)
      BY <3>3 DEF AcquireKill
    <3>4. CASE AcquireUnlink(c)
      BY <3>4 DEF AcquireUnlink
    <3>5. CASE AcquireWrite(c)
      BY <2>1, <3>5 DEF LockStep, AcquireWrite
    <3>6. CASE ReleaseRead(c)
      BY <3>6 DEF ReleaseRead, Own
    <3>7. CASE ReleaseUnlink(c)
      BY <3>7 DEF ReleaseUnlink
    <3> QED
      BY <2>1, <3>1, <3>2, <3>3, <3>4, <3>5, <3>6, <3>7 DEF LockStep, AcquireStep,
         ReleaseStep
  <2>2. ASSUME RestartCheck(c) PROVE Left(c)'
    BY <2>2 DEF RestartCheck, AcquireBegin
  <2>3. ASSUME StopAcquired(c) PROVE Left(c)'
    BY <2>3 DEF StopAcquired, GiveUp
  <2>4. ASSUME StopRunning(c) PROVE Left(c)'
    BY <2>4 DEF StopRunning, ReleaseBegin
  <2>5. ASSUME StopSignal(c) PROVE Left(c)'
    BY <2>5 DEF StopSignal
  <2>6. ASSUME StopWait(c) PROVE Left(c)'
    BY <2>6 DEF StopWait
  <2>7. ASSUME StopKill(c) PROVE Left(c)'
    BY <2>7 DEF StopKill
  <2>8. ASSUME CliPrune(c) PROVE Left(c)'
    BY <2>8 DEF CliPrune
  <2>9. ASSUME CliUnmount(c) PROVE Left(c)'
    BY <2>9 DEF CliUnmount
  <2>10. ASSUME CliUnlink(c) PROVE Left(c)'
    BY <2>10 DEF CliUnlink, ReleaseBegin
  <2>11. ASSUME RestartReload(c) PROVE Left(c)'
    BY <2>11 DEF RestartReload
  <2>12. ASSUME StartHandoff(c) PROVE Left(c)'
    BY <2>12 DEF StartHandoff, AcquireBegin, FindNoLock
  <2>13. ASSUME StartHanded(c) PROVE Left(c)'
    BY <2>13 DEF StartHanded, GiveUp, ReleaseBegin
  <2>14. ASSUME StartReleased(c) PROVE Left(c)'
    BY <2>14 DEF StartReleased
  <2>15. ASSUME StartUnique(c) PROVE Left(c)'
    BY <2>15 DEF StartUnique
  <2>16. ASSUME StartMount(c) PROVE Left(c)'
    BY <2>16 DEF StartMount, ReleaseBegin
  <2>17. ASSUME StartInitBinary(c) PROVE Left(c)'
    BY <2>17 DEF StartInitBinary
  <2>18. ASSUME StartUuid(c) PROVE Left(c)'
    BY <2>18 DEF StartUuid
  <2>19. ASSUME StartFork(c) PROVE Left(c)'
    BY <2>19 DEF StartFork
  <2>20. ASSUME StartAwait(c) PROVE Left(c)'
    BY <2>20 DEF StartAwait, ReleaseBegin
  <2>21. ASSUME StartEofReleased(c) PROVE Left(c)'
    BY <2>21 DEF StartEofReleased
  <2>22. ASSUME StartPidfile(c) PROVE Left(c)'
    BY <2>22 DEF StartPidfile
  <2>23. ASSUME StartSidecar(c) PROVE Left(c)'
    BY <2>23 DEF StartSidecar, ReleaseBegin
  <2>24. ASSUME StartPoll(c) PROVE Left(c)'
    BY <2>24 DEF StartPoll, ReleaseBegin
  <2>25. ASSUME StartConsole(c) PROVE Left(c)'
    BY <2>25 DEF StartConsole
  <2>26. ASSUME Released(c) PROVE Left(c)'
    BY <2>26 DEF Released
  <2>g. Left(c)'
    BY <1>2, <2>1, <2>2, <2>3, <2>4, <2>5, <2>6, <2>7, <2>8, <2>9, <2>10, <2>11, <2>12,
       <2>13, <2>14, <2>15, <2>16, <2>17, <2>18, <2>19, <2>20, <2>21, <2>22, <2>23,
       <2>24, <2>25, <2>26 DEF CliNext
  <2> QED
    BY <2>g, <2>o DEF LockLeft, Engaged
<1>3. ASSUME NEW c \in Cli, CliDies(c) PROVE LockLeft'
  BY <1>3, CliLeaves DEF CliDies, Die, LockLeft, Place, LockAt, Still, Busy, StartFork,
     OneCommand, Engaged
<1>4. ASSUME NEW m \in Monitor, MonitorNext(m) PROVE LockLeft'
  <2>1. Still => Still'
    BY <1>4, MonitorEnds DEF Still
  <2> QED BY <1>4, <2>1, MonitorLeaves DEF LockLeft
<1>5. ASSUME NEW i \in InitPid, InitNext(i) \/ InitExit(i) PROVE LockLeft'
  BY <1>5, InitLeaves DEF LockLeft, Still, Busy
<1>6. CASE HostReboots
  BY <1>6 DEF HostReboots, HostReboot, LockLeft, Still, Busy
<1>7. CASE UNCHANGED vars
  BY <1>7 DEF vars, LockLeft, Still, Busy
<1> QED
  BY <1>1, <1>2, <1>3, <1>4, <1>5, <1>6, <1>7 DEF Next

(* A command changes no other command's memory. *)
LEMMA TargetStays ==
  ASSUME TypeOK, NEW c \in Cli, CliNext(c)
  PROVE  \A p \in Cli \ {c} : /\ target'[p] = target[p] /\ mine'[p] = mine[p]
                              /\ phase'[p] = phase[p] /\ uuid'[p] = uuid[p]
                              /\ la'[p] = la[p] /\ knowsMount'[p] = knowsMount[p]
                              /\ cmd'[p] = cmd[p]
<1> USE DEF TypeOK, cliVars
<1>1. CASE LockStep(c) \/ RestartCheck(c) \/ StopAcquired(c) \/ StopRunning(c) \/
   StopSignal(c) \/ StopWait(c)
  BY <1>1 DEF LockStep, RestartCheck, StopAcquired, StopRunning, StopSignal, StopWait
<1>2. CASE StopKill(c) \/ CliPrune(c) \/ CliUnmount(c) \/ CliUnlink(c) \/
   RestartReload(c) \/ StartHandoff(c)
  BY <1>2 DEF StopKill, CliPrune, CliUnmount, CliUnlink, RestartReload, StartHandoff
<1>3. CASE StartHanded(c) \/ StartReleased(c) \/ StartUnique(c) \/ StartMount(c) \/
   StartInitBinary(c) \/ StartUuid(c)
  BY <1>3 DEF StartHanded, StartReleased, StartUnique, StartMount, StartInitBinary,
     StartUuid
<1>4. CASE StartFork(c) \/ StartAwait(c) \/ StartEofReleased(c) \/ StartPidfile(c) \/
   StartSidecar(c) \/ StartPoll(c)
  BY <1>4 DEF StartFork, StartAwait, StartEofReleased, StartPidfile, StartSidecar,
     StartPoll
<1>5. CASE StartConsole(c) \/ Released(c)
  BY <1>5 DEF StartConsole, Released
<1> QED
  BY <1>1, <1>2, <1>3, <1>4, <1>5, CliNext(c) DEF CliNext

(* A stop that has found the running init holds the lock, so its monitor   *)
(* yields: it reads the file of the holder, who is alive.                  *)
LEMMA StopHoldsKept ==
  ASSUME TypeOK, OneCommand, Place, LockKept, Monitors, OneMonitor, Parents, StopHolds,
     [Next]_vars
  PROVE  StopHolds'
<1>t. /\ pc \in [Cli -> CliPc]
      /\ alive \in [Cli -> BOOLEAN]
      /\ mpc \in [Monitor -> MonPc]
      /\ mk \in [Monitor -> MonState]
      /\ target \in [Cli -> 0..MaxInit]
      /\ cur \in [Monitor -> 0..MaxInit]
  BY DEF TypeOK, LockTypeOK
<1> DEFINE Hold(c) == alive[c] /\ pc[c] \in Stopping => \A m \in Monitor : Busy(m) =>
                        cur[m] = target[c] /\ mpc[m] \in {"report", "watch", "check"}
                        /\ mk[m] # "inactive"
<1> USE <1>t DEF StopHolds, Busy, Stopping, MStep, MGoto, Step, Goto, lockVars,
   fileVars, initVars, cliVars, monVars
<1>1. ASSUME NEW c \in Cli, Begin(c) PROVE StopHolds'
  BY <1>1 DEF Begin, AcquireBegin
<1>2. ASSUME NEW c \in Cli, CliNext(c) PROVE StopHolds'
  <2>c. CASE StartConsole(c)
    BY <2>c DEF StartConsole, StopHolds
  <2>e. SUFFICES ASSUME Engaged(c) PROVE StopHolds'
    BY <1>2, <2>c, AtWork
  <2>o. \A p \in Cli \ {c} : ~Engaged(p) /\ pc'[p] = pc[p] /\ alive'[p] = alive[p]
    BY <1>2, <2>e, OthersStay
  <2>a. alive[c]
    BY <1>2 DEF CliNext
  <2>t. \A p \in Cli \ {c} : target'[p] = target[p]
    BY <1>2, TargetStays
  <2>m. pc[c] \in Stopping => UNCHANGED <<mpc, cur, mk>>
    BY <1>2, CliLeaves DEF StartFork
  <2> USE <2>a, <2>m
  <2>1. ASSUME StopRunning(c) PROVE Hold(c)'
    <3>1. CASE RunningPid(uuid[c]) = 0
      BY <2>1, <3>1 DEF StopRunning
    <3>2. CASE RunningPid(uuid[c]) # 0
      <4> DEFINE p == RunningPid(uuid[c])
      <4>1. p \in InitPid /\ init[p] = "up"
        BY <3>2, RunningIs
      <4>2. by[p] \in Monitor /\ cur[by[p]] = p /\ mpc[by[p]] \in {"report", "watch"}
        BY <4>1 DEF Parents, Living
      <4>3. \A m \in Monitor : Busy(m) => m = by[p] /\ mk[m] = "idle"
        BY <4>2 DEF OneMonitor, Monitors, MonitorAt
      <4>4. target'[c] = p /\ UNCHANGED <<mpc, cur, mk>>
        BY <2>1, <3>2 DEF StopRunning
      <4> QED BY <4>2, <4>3, <4>4
    <3> QED BY <3>1, <3>2
  <2>2. ASSUME LockStep(c) \/ RestartCheck(c) \/ StopAcquired(c) \/ StopSignal(c) \/
     StopWait(c) \/ StopKill(c) PROVE Hold(c)'
    BY <2>2 DEF LockStep, AcquireStep, ReleaseStep, AcquireAccess, AcquireRead,
       AcquireKill, AcquireUnlink, AcquireWrite, ReleaseRead, ReleaseUnlink,
       RestartCheck, AcquireBegin, StopAcquired, GiveUp, StopSignal, StopWait, StopKill
  <2>3. ASSUME CliPrune(c) \/ CliUnmount(c) \/ CliUnlink(c) \/ RestartReload(c) \/
     StartHandoff(c) \/ StartHanded(c) PROVE Hold(c)'
    BY <2>3 DEF CliPrune, CliUnmount, CliUnlink, ReleaseBegin, RestartReload,
       StartHandoff, AcquireBegin, FindNoLock, StartHanded, GiveUp
  <2>4. ASSUME StartReleased(c) \/ StartUnique(c) \/ StartMount(c) \/ StartInitBinary(c)
     \/ StartUuid(c) \/ StartFork(c) PROVE Hold(c)'
    BY <2>4 DEF StartReleased, StartUnique, StartMount, ReleaseBegin, StartInitBinary,
       StartUuid, StartFork
  <2>5. ASSUME StartAwait(c) \/ StartEofReleased(c) \/ StartPidfile(c) \/
     StartSidecar(c) \/ StartPoll(c) \/ StartConsole(c) PROVE Hold(c)'
    BY <2>5 DEF StartAwait, ReleaseBegin, StartEofReleased, StartPidfile, StartSidecar,
       StartPoll, StartConsole
  <2>6. ASSUME Released(c) PROVE Hold(c)'
    BY <2>6 DEF Released
  <2>g. Hold(c)'
    BY <1>2, <2>1, <2>2, <2>3, <2>4, <2>5, <2>6 DEF CliNext
  <2> QED
    BY <2>g, <2>o, <2>t DEF Engaged, Active
<1>3. ASSUME NEW c \in Cli, CliDies(c) PROVE StopHolds'
  BY <1>3 DEF CliDies, Die
<1>4. ASSUME NEW m \in Monitor, MonitorNext(m) PROVE StopHolds'
  <2>1. UNCHANGED <<alive, pc, target>>
    BY <1>4, MonitorLeaves
  <2>2. SUFFICES ASSUME NEW c \in Cli, alive[c], pc[c] \in Stopping, Busy(m)
                 PROVE  Busy(m)' => /\ cur'[m] = target[c] /\ mk'[m] # "inactive"
                                    /\ mpc'[m] \in {"report", "watch", "check"}
    <3>1. \A n \in Monitor \ {m} : mpc'[n] = mpc[n] /\ mk'[n] = mk[n] /\ cur'[n] = cur[n]
      BY <1>4, MonitorEnds
    <3>2. Busy(m)
      BY <1>4, MonitorEnds
    <3> QED BY <2>1, <3>1, <3>2
  <2>3. cur[m] = target[c] /\ mpc[m] \in {"report", "watch", "check"} /\ mk[m] # "inactive"
    BY <2>2
  <2>4. /\ Own(c) # NoLock /\ lock_holder_if_alive(Own(c))
        /\ lockFile = Own(c) /\ mk[m] # "munlink" /\ (mk[m] = "mkill" => mseen[m] = Own(c))
    <3>1. lk[c] = "held"
      BY <2>2 DEF Place, LockAt
    <3>2. bootId \in Nat
      BY LockAssumption DEF TypeOK, LockTypeOK
    <3> QED BY <2>2, <3>1, <3>2, LockAssumption DEF LockKept, Own, lock_holder_if_alive
  <2>5. mpc[m] = "check" => mk[m] # "idle"
    BY DEF Monitors, MonitorAt
  <2>6. CASE MonitorReport(m) \/ MidReap(m)
    BY <2>3, <2>6 DEF MonitorReport, MidReap
  <2>7. CASE MonitorWatch(m) \/ MonitorDecide(m)
    BY <2>3, <2>7 DEF MonitorWatch, MonitorDecide, CheckBegin, CheckDone
  <2>8. CASE MonitorLockStep(m)
    BY <2>3, <2>4, <2>8 DEF MonitorLockStep, CheckStep, CheckAccess, CheckRead,
       CheckKill, CheckUnlink
  <2>9. CASE MonitorPre(m) \/ MonitorFork(m) \/ MonitorReload(m) \/ MonitorClean(m)
    BY <2>3, <2>9 DEF MonitorPre, MonitorFork, MonitorReload, MonitorClean
  <2> QED BY <1>4, <2>6, <2>7, <2>8, <2>9 DEF MonitorNext
<1>5. ASSUME NEW i \in InitPid, InitNext(i) \/ InitExit(i) PROVE StopHolds'
  BY <1>5, InitLeaves
<1>6. CASE HostReboots
  BY <1>6 DEF HostReboots, HostReboot
<1>7. CASE UNCHANGED vars
  BY <1>7 DEF vars, lockVars, fileVars, initVars, cliVars, monVars
<1> QED
  BY <1>1, <1>2, <1>3, <1>4, <1>5, <1>6, <1>7 DEF Next

(* A stop goes on when its init is dead and the monitor has yielded; a     *)
(* start when it took over a lock that was left without a container, or    *)
(* found no running init while the container was at rest.                  *)
LEMMA NothingRunsKept ==
  ASSUME Prompt, TypeOK, OneCommand, Place, LockLeft, Monitors, OneMonitor, Parents,
     StopHolds, NothingRuns, StartCalm, UuidsAgree, [Next]_vars
  PROVE  NothingRuns'
<1>t. /\ pc \in [Cli -> CliPc]
      /\ lk \in [Cli -> CliState]
      /\ alive \in [Cli -> BOOLEAN]
      /\ phase \in [Cli -> {"stop", "start"}]
  BY DEF TypeOK, LockTypeOK
<1> USE <1>t DEF KnowsStill, Stopping, Tidying, Handing, Preparing, Awaiting, Step,
   Goto, lockVars, fileVars, initVars, cliVars, monVars
<1>1. ASSUME NEW c \in Cli, Begin(c) PROVE NothingRuns'
  BY <1>1, CliLeaves DEF Begin, AcquireBegin, NothingRuns, Still, Busy, StartFork,
     Place, LockAt
<1>2. ASSUME NEW c \in Cli, CliNext(c) PROVE NothingRuns'
  <2>c. CASE StartConsole(c)
    BY <2>c, CliLeaves DEF StartConsole, NothingRuns, Still, Busy, StartFork
  <2>e. SUFFICES ASSUME Engaged(c) PROVE NothingRuns'
    BY <1>2, <2>c, AtWork
  <2>o. \A p \in Cli \ {c} : ~Engaged(p) /\ pc'[p] = pc[p] /\ alive'[p] = alive[p]
    BY <1>2, <2>e, OthersStay
  <2>a. alive[c]
    BY <1>2 DEF CliNext
  <2>f. Still /\ ~StartFork(c) => Still'
    BY <1>2, CliLeaves DEF Still, Busy
  <2>s. StartFork(c) /\ KnowsStill(c)' => Still'
    <3>1. CASE StartFork(c) /\ pc'[c] = "await"
      BY <3>1
    <3>2. CASE StartFork(c) /\ pc'[c] # "await"
      <4>1. phase[c] = "start"
        BY <3>2 DEF StartFork, Place, PhaseAt
      <4> QED BY <3>2, <4>1 DEF StartFork
    <3> QED BY <3>1, <3>2
  <2>p. LockAt(c) /\ PhaseAt(c)
    BY DEF Place
  <2>k. KnowsStill(c) => Still
    BY <2>a DEF NothingRuns
  <2> USE <2>a, <2>k, <2>p DEF LockAt, PhaseAt
  <2>1. ASSUME LockStep(c) PROVE (KnowsStill(c)' => StartFork(c) \/ Still)
    <3>1. CASE AcquireAccess(c)
      BY <2>1, <3>1 DEF AcquireAccess, LockStep
    <3>2. CASE AcquireRead(c)
      BY <2>1, <3>2 DEF AcquireRead, LockStep
    <3>3. CASE AcquireKill(c)
      BY <2>1, <3>3 DEF AcquireKill, LockStep
    <3>4. CASE AcquireUnlink(c)
      BY <2>1, <3>4 DEF AcquireUnlink, LockStep
    <3>5. CASE AcquireWrite(c)
      BY <2>1, <3>5 DEF AcquireWrite, LockStep
    <3>6. CASE ReleaseRead(c)
      BY <2>1, <3>6 DEF ReleaseRead, LockStep
    <3>7. CASE ReleaseUnlink(c)
      BY <2>1, <3>7 DEF ReleaseUnlink, LockStep
    <3> QED
      BY <2>1, <3>1, <3>2, <3>3, <3>4, <3>5, <3>6, <3>7 DEF LockStep, AcquireStep,
         ReleaseStep
  <2>2. ASSUME RestartCheck(c) \/ StopAcquired(c) \/ StopRunning(c) PROVE
     (KnowsStill(c)' => StartFork(c) \/ Still)
    BY <2>2 DEF RestartCheck, AcquireBegin, StopAcquired, GiveUp, StopRunning,
       ReleaseBegin
  <2>3. ASSUME StopWait(c) PROVE (KnowsStill(c)' => StartFork(c) \/ Still)
    <3>1. init[target[c]] = "dead" /\ Settled(target[c]) => Still
      <4>1. pc[c] \in Stopping
        BY <2>3 DEF StopWait
      <4> QED BY <2>a, <4>1 DEF StopHolds, Settled, Parents, Living, Still
    <3> QED BY <2>3, <3>1 DEF StopWait
  <2>4. ASSUME StopKill(c) PROVE (KnowsStill(c)' => StartFork(c) \/ Still)
    <3>1. init[target[c]] = "dead" /\ Settled(target[c]) => Still
      <4>1. pc[c] \in Stopping
        BY <2>4 DEF StopKill
      <4> QED BY <2>a, <4>1 DEF StopHolds, Settled, Parents, Living, Still
    <3> QED BY <2>4, <3>1 DEF StopKill
  <2>5. ASSUME StopSignal(c) \/ CliPrune(c) \/ CliUnmount(c) PROVE (KnowsStill(c)' =>
     StartFork(c) \/ Still)
    BY <2>5 DEF StopSignal, CliPrune, SkipUnmount, CliUnmount
  <2>6. ASSUME StartHandoff(c) PROVE (KnowsStill(c)' => StartFork(c) \/ Still)
    <3>1. \A p \in Cli \ {c} : lk[p] = "out"
      BY <2>o DEF Engaged
    <3>2. lk[c] = "out" /\ lockFile # NoLock => Still
      BY <3>1 DEF LockLeft
    <3> QED BY <2>6, <3>2 DEF StartHandoff, AcquireBegin, FindNoLock
  <2>7. ASSUME CliUnlink(c) \/ RestartReload(c) \/ StartHanded(c) PROVE (KnowsStill(c)'
     => StartFork(c) \/ Still)
    BY <2>7 DEF CliUnlink, ReleaseBegin, RestartReload, StartHanded, GiveUp
  <2>8. ASSUME StartUnique(c) PROVE (KnowsStill(c)' => StartFork(c) \/ Still)
    <3>1. CASE RunningPid(uuid[c]) = 0
      <4>1. uuid[c] = cfgUuid
        BY <2>8, <2>a DEF StartUnique, UuidsAgree
      <4>2. \A i \in InitPid : init[i] # "up"
        BY <3>1, <4>1, NoneRuns
      <4>3. Calm
        BY <2>8, <2>a DEF StartCalm, StartUnique
      <4>4. \A m \in Monitor : ~Watching(m)
        BY <4>2 DEF Watching, Parents
      <4> QED BY <4>3, <4>4 DEF Calm, Still
    <3>2. CASE RunningPid(uuid[c]) # 0
      BY <2>8, <3>2 DEF StartUnique
    <3> QED BY <3>1, <3>2
  <2>9. ASSUME StartReleased(c) \/ StartMount(c) \/ StartInitBinary(c) PROVE
     (KnowsStill(c)' => StartFork(c) \/ Still)
    BY <2>9 DEF StartReleased, StartMount, ReleaseBegin, StartInitBinary
  <2>10. ASSUME StartUuid(c) \/ StartFork(c) \/ StartAwait(c) PROVE (KnowsStill(c)' =>
     StartFork(c) \/ Still)
    BY <2>10 DEF StartUuid, StartFork, StartAwait, ReleaseBegin
  <2>11. ASSUME StartEofReleased(c) \/ StartPidfile(c) \/ StartSidecar(c) PROVE
     (KnowsStill(c)' => StartFork(c) \/ Still)
    BY <2>11 DEF StartEofReleased, StartPidfile, StartSidecar, ReleaseBegin
  <2>12. ASSUME StartPoll(c) \/ StartConsole(c) \/ Released(c) PROVE (KnowsStill(c)' =>
     StartFork(c) \/ Still)
    BY <2>12 DEF StartPoll, ReleaseBegin, StartConsole, Released
  <2>g. (KnowsStill(c)' => StartFork(c) \/ Still)
    BY <1>2, <2>1, <2>2, <2>3, <2>4, <2>5, <2>6, <2>7, <2>8, <2>9, <2>10, <2>11, <2>12
       DEF CliNext
  <2> QED
    BY <2>g, <2>o, <2>f, <2>s DEF NothingRuns, Engaged, Active
<1>3. ASSUME NEW c \in Cli, CliDies(c) PROVE NothingRuns'
  BY <1>3, CliLeaves DEF CliDies, Die, NothingRuns, Still, Busy, StartFork
<1>4. ASSUME NEW m \in Monitor, MonitorNext(m) PROVE NothingRuns'
  <2>1. Still => Still'
    BY <1>4, MonitorEnds DEF Still
  <2> QED BY <1>4, <2>1, MonitorLeaves DEF NothingRuns
<1>5. ASSUME NEW i \in InitPid, InitNext(i) \/ InitExit(i) PROVE NothingRuns'
  BY <1>5, InitLeaves DEF NothingRuns, Still, Busy
<1>6. CASE HostReboots
  BY <1>6 DEF HostReboots, NothingRuns
<1>7. CASE UNCHANGED vars
  BY <1>7 DEF vars, NothingRuns, Still, Busy
<1> QED
  BY <1>1, <1>2, <1>3, <1>4, <1>5, <1>6, <1>7 DEF Next

(* A start begins when nothing goes on, and while it looks around neither  *)
(* the container nor its monitor does anything.                            *)
LEMMA StartCalmKept ==
  ASSUME Serial, TypeOK, OneCommand, Place, Monitors, OneMonitor, Parents, NothingRuns,
     StartCalm, [Next]_vars
  PROVE  StartCalm'
<1>t. /\ pc \in [Cli -> CliPc]
      /\ alive \in [Cli -> BOOLEAN]
      /\ phase \in [Cli -> {"stop", "start"}]
  BY DEF TypeOK, LockTypeOK
<1> USE <1>t DEF Step, Goto, lockVars, fileVars, initVars, cliVars, monVars
<1>1. ASSUME NEW c \in Cli, Begin(c) PROVE StartCalm'
  BY <1>1 DEF Begin, AcquireBegin, Quiet, StartCalm, Calm, Watching, Busy
<1>2. ASSUME NEW c \in Cli, CliNext(c) PROVE StartCalm'
  <2>c. CASE StartConsole(c)
    BY <2>c, CliLeaves DEF StartConsole, StartCalm, Calm, Watching, Busy, StartFork,
       StopSignal, StopWait
  <2>e. SUFFICES ASSUME Engaged(c) PROVE StartCalm'
    BY <1>2, <2>c, AtWork
  <2>o. \A p \in Cli \ {c} : ~Engaged(p) /\ pc'[p] = pc[p] /\ alive'[p] = alive[p]
    BY <1>2, <2>e, OthersStay
  <2>a. alive[c]
    BY <1>2 DEF CliNext
  <2>f. pc'[c] \in {"handoff", "unique"} => UNCHANGED <<init, mpc, mexit, cur>>
    BY <1>2, CliLeaves DEF StartFork, StopSignal, StopWait
  <2>k. KnowsStill(c) => Calm
    BY <2>a DEF NothingRuns, Still, Calm
  <2>l. pc[c] \in {"handoff", "unique"} => Calm
    BY <2>a DEF StartCalm
  <2> USE <2>k, <2>l DEF KnowsStill, Handing
  <2>1. ASSUME LockStep(c) \/ RestartCheck(c) \/ StopAcquired(c) \/ StopRunning(c) \/
     StopSignal(c) \/ StopWait(c) PROVE (pc'[c] \in {"handoff", "unique"} => Calm)
    BY <2>1 DEF LockStep, AcquireStep, ReleaseStep, AcquireAccess, AcquireRead,
       AcquireKill, AcquireUnlink, AcquireWrite, ReleaseRead, ReleaseUnlink,
       RestartCheck, AcquireBegin, StopAcquired, GiveUp, StopRunning, ReleaseBegin,
       StopSignal, StopWait
  <2>2. ASSUME StopKill(c) \/ CliPrune(c) \/ CliUnmount(c) \/ CliUnlink(c) \/
     RestartReload(c) \/ StartHandoff(c) PROVE (pc'[c] \in {"handoff", "unique"} =>
     Calm)
    BY <2>2 DEF StopKill, CliPrune, SkipUnmount, CliUnmount, CliUnlink, ReleaseBegin,
       RestartReload, StartHandoff, AcquireBegin, FindNoLock
  <2>3. ASSUME StartUnique(c) PROVE (pc'[c] \in {"handoff", "unique"} => Calm)
    BY <2>3 DEF StartUnique
  <2>4. ASSUME StartHanded(c) \/ StartReleased(c) \/ StartMount(c) \/ StartInitBinary(c)
     \/ StartUuid(c) \/ StartFork(c) PROVE (pc'[c] \in {"handoff", "unique"} => Calm)
    BY <2>4 DEF StartHanded, GiveUp, ReleaseBegin, StartReleased, StartMount,
       StartInitBinary, StartUuid, StartFork
  <2>5. ASSUME StartAwait(c) \/ StartEofReleased(c) \/ StartPidfile(c) \/
     StartSidecar(c) \/ StartPoll(c) \/ StartConsole(c) PROVE (pc'[c] \in {"handoff",
     "unique"} => Calm)
    BY <2>5 DEF StartAwait, ReleaseBegin, StartEofReleased, StartPidfile, StartSidecar,
       StartPoll, StartConsole
  <2>6. ASSUME Released(c) PROVE (pc'[c] \in {"handoff", "unique"} => Calm)
    BY <2>6 DEF Released
  <2>g. (pc'[c] \in {"handoff", "unique"} => Calm)
    BY <1>2, <2>1, <2>2, <2>3, <2>4, <2>5, <2>6 DEF CliNext
  <2> QED
    <3>1. pc'[c] \in {"handoff", "unique"} => Calm'
      BY <2>g, <2>f DEF Calm, Watching, Busy
    <3> QED BY <3>1, <2>o DEF StartCalm, Engaged, Active
<1>3. ASSUME NEW c \in Cli, CliDies(c) PROVE StartCalm'
  BY <1>3 DEF CliDies, Die, StartCalm, Calm, Watching, Busy
<1>4. ASSUME NEW m \in Monitor, MonitorNext(m) PROVE StartCalm'
  <2>1. SUFFICES ASSUME NEW c \in Cli, alive[c], pc[c] \in {"handoff", "unique"}, Calm
                 PROVE  FALSE
    BY <1>4, MonitorLeaves DEF StartCalm
  <2>2. Watching(m) /\ mk[m] = "idle"
    BY <2>1, <1>4, MonitorEnds DEF Calm, Watching, Monitors, MonitorAt
  <2> QED
    BY <1>4, <2>2 DEF Watching, MonitorNext, MonitorPre, MonitorFork, MonitorReport,
       MidReap, Zombie, MonitorWatch, MonitorLockStep, CheckStep, CheckAccess,
       CheckRead, CheckKill, CheckUnlink, MonitorDecide, MonitorReload, MonitorClean
<1>5. ASSUME NEW i \in InitPid, InitNext(i) \/ InitExit(i) PROVE StartCalm'
  <2>1. SUFFICES ASSUME NEW c \in Cli, alive[c], pc[c] \in {"handoff", "unique"}, Calm
                 PROVE  FALSE
    BY <1>5, InitLeaves DEF StartCalm
  <2>2. Active(c) /\ phase[c] = "start"
    BY <2>1 DEF Active, Place, PhaseAt
  <2>3. Living(i) => init[i] = "up"
    BY <2>1 DEF Parents, Calm, Busy, Watching
  <2>4. InitExit(i)
    BY <1>5, <2>3 DEF InitNext, InitGuard, InitBoot, Living
  <2> QED BY <2>2, <2>4 DEF InitExit
<1>6. CASE HostReboots
  BY <1>6 DEF HostReboots, StartCalm
<1>7. CASE UNCHANGED vars
  BY <1>7 DEF vars, StartCalm, Calm, Watching, Busy
<1> QED
  BY <1>1, <1>2, <1>3, <1>4, <1>5, <1>6, <1>7 DEF Next

(* The container does not reboot while a start is at work. *)
LEMMA NoRebootKept ==
  ASSUME Serial, TypeOK, OneCommand, Place, Monitors, OneMonitor, Parents, NothingRuns,
     NoReboot, [Next]_vars
  PROVE  NoReboot'
<1>t. /\ pc \in [Cli -> CliPc]
      /\ alive \in [Cli -> BOOLEAN]
      /\ phase \in [Cli -> {"stop", "start"}]
      /\ lk \in [Cli -> CliState]
      /\ init \in [InitPid -> InitState]
      /\ mexit \in [Monitor -> {"run", "reboot", "exit"}]
      /\ mpc \in [Monitor -> MonPc]
  BY DEF TypeOK, LockTypeOK
<1> DEFINE Free == /\ \A i \in InitPid : init[i] # "zhup"
                  /\ \A m \in Monitor : Busy(m) => mexit[m] # "reboot" 
<1> USE <1>t DEF Step, Goto, lockVars, fileVars, initVars, cliVars, monVars
<1>1. ASSUME NEW c \in Cli, Begin(c) PROVE NoReboot'
  <2>1. Free'
    BY <1>1, CliLeaves DEF Begin, Quiet, Busy, StartFork, StopSignal, StopWait
  <2> QED BY <2>1 DEF NoReboot
<1>2. ASSUME NEW c \in Cli, CliNext(c) PROVE NoReboot'
  <2>c. CASE StartConsole(c)
    BY <2>c, CliLeaves DEF StartConsole, NoReboot, Active, Busy, StartFork, StopSignal,
       StopWait
  <2>e. SUFFICES ASSUME Engaged(c) PROVE NoReboot'
    BY <1>2, <2>c, AtWork
  <2>o. \A p \in Cli \ {c} : ~Engaged(p)' /\ pc'[p] = pc[p] /\ alive'[p] = alive[p]
    BY <1>2, <2>e, OthersStay
  <2>a. alive[c]
    BY <1>2 DEF CliNext
  <2>f. Free => Free'
    <3>1. UNCHANGED mexit
      BY <1>2, CliLeaves
    <3>2. \A m \in Monitor : Busy(m)' => Busy(m) \/ mexit[m] = "run"
      <4>1. CASE StartFork(c)
        BY <4>1 DEF StartFork, MStep, Busy, Monitors, MonitorAt
      <4>2. CASE ~StartFork(c)
        BY <1>2, <4>2, CliLeaves DEF Busy
      <4> QED BY <4>1, <4>2
    <3>3. (\A i \in InitPid : init[i] # "zhup") => \A i \in InitPid : init'[i] # "zhup"
      BY <1>2, CliLeaves DEF StopSignal, StopWait, SigKill
    <3> QED BY <3>1, <3>2, <3>3
  <2>s. Still => Free
    BY OneLiving DEF Still, Living
  <2>l. LockAt(c) /\ (KnowsStill(c) => Still)
    BY <2>a DEF Place, NothingRuns
  <2>n. Active(c) /\ phase[c] = "start" => Free
    BY DEF NoReboot
  <2> USE <2>a, <2>l DEF Active, KnowsStill
  <2>1. ASSUME LockStep(c) PROVE (Active(c)' /\ phase'[c] = "start" => (Active(c) /\
     phase[c] = "start") \/ Still)
    <3>1. CASE AcquireAccess(c)
      BY <2>1, <2>l, <3>1 DEF AcquireAccess, LockStep, LockAt, Active
    <3>2. CASE AcquireRead(c)
      BY <2>1, <2>l, <3>2 DEF AcquireRead, LockStep, LockAt, Active
    <3>3. CASE AcquireKill(c)
      BY <2>1, <2>l, <3>3 DEF AcquireKill, LockStep, LockAt, Active
    <3>4. CASE AcquireUnlink(c)
      BY <2>1, <2>l, <3>4 DEF AcquireUnlink, LockStep, LockAt, Active
    <3>5. CASE AcquireWrite(c)
      BY <2>1, <2>l, <3>5 DEF AcquireWrite, LockStep, LockAt, Active
    <3>6. CASE ReleaseRead(c)
      BY <2>1, <2>l, <3>6 DEF ReleaseRead, LockStep, LockAt, Active
    <3>7. CASE ReleaseUnlink(c)
      BY <2>1, <2>l, <3>7 DEF ReleaseUnlink, LockStep, LockAt, Active
    <3> QED
      BY <2>1, <3>1, <3>2, <3>3, <3>4, <3>5, <3>6, <3>7 DEF LockStep, AcquireStep,
         ReleaseStep
  <2>2. ASSUME RestartCheck(c) \/ StopAcquired(c) \/ StopRunning(c) \/ StopSignal(c) \/
     StopWait(c) PROVE (Active(c)' /\ phase'[c] = "start" => (Active(c) /\ phase[c] =
     "start") \/ Still)
    BY <2>2 DEF RestartCheck, AcquireBegin, StopAcquired, GiveUp, StopRunning,
       ReleaseBegin, StopSignal, StopWait
  <2>3. ASSUME StopKill(c) \/ CliPrune(c) \/ CliUnmount(c) \/ CliUnlink(c) \/
     RestartReload(c) PROVE (Active(c)' /\ phase'[c] = "start" => (Active(c) /\ phase[c]
     = "start") \/ Still)
    BY <2>3 DEF StopKill, CliPrune, SkipUnmount, CliUnmount, CliUnlink, ReleaseBegin,
       RestartReload
  <2>4. ASSUME StartHandoff(c) \/ StartHanded(c) \/ StartReleased(c) \/ StartUnique(c)
     \/ StartMount(c) PROVE (Active(c)' /\ phase'[c] = "start" => (Active(c) /\ phase[c]
     = "start") \/ Still)
    BY <2>4 DEF StartHandoff, AcquireBegin, FindNoLock, StartHanded, GiveUp,
       ReleaseBegin, StartReleased, StartUnique, StartMount
  <2>5. ASSUME StartInitBinary(c) \/ StartUuid(c) \/ StartFork(c) \/ StartAwait(c) \/
     StartEofReleased(c) PROVE (Active(c)' /\ phase'[c] = "start" => (Active(c) /\
     phase[c] = "start") \/ Still)
    BY <2>5 DEF StartInitBinary, StartUuid, StartFork, StartAwait, ReleaseBegin,
       StartEofReleased
  <2>6. ASSUME StartPidfile(c) \/ StartSidecar(c) \/ StartPoll(c) \/ StartConsole(c) \/
     Released(c) PROVE (Active(c)' /\ phase'[c] = "start" => (Active(c) /\ phase[c] =
     "start") \/ Still)
    BY <2>6 DEF StartPidfile, StartSidecar, ReleaseBegin, StartPoll, StartConsole,
       Released
  <2>g. (Active(c)' /\ phase'[c] = "start" => (Active(c) /\ phase[c] = "start") \/
     Still)
    BY <1>2, <2>1, <2>2, <2>3, <2>4, <2>5, <2>6 DEF CliNext
  <2> QED
    BY <2>g, <2>o, <2>f, <2>s, <2>n DEF NoReboot, Engaged
<1>3. ASSUME NEW c \in Cli, CliDies(c) PROVE NoReboot'
  BY <1>3, CliLeaves DEF CliDies, Die, NoReboot, Active, Busy, StartFork, StopSignal,
     StopWait
<1>4. ASSUME NEW m \in Monitor, MonitorNext(m) PROVE NoReboot'
  <2>1. UNCHANGED <<alive, lk, pc, phase>>
    BY <1>4, MonitorLeaves
  <2>2. SUFFICES ASSUME Free PROVE Free'
    BY <2>1 DEF NoReboot, Active
  <2>3. \A n \in Monitor : Busy(n)' => Busy(n)
    BY <1>4, MonitorEnds
  <2>4. CASE MonitorPre(m)
    BY <2>2, <2>3, <2>4 DEF MonitorPre, SigKill
  <2>7. CASE MidReap(m)
    <3>1. cur[m] \in InitPid /\ init[cur[m]] # "zhup"
      BY <2>2, <2>7 DEF MidReap, Parents
    <3> QED BY <2>2, <2>3, <2>7, <3>1 DEF MidReap
  <2>5. CASE MonitorFork(m)
    BY <2>2, <2>3, <2>5 DEF MonitorFork
  <2>6. CASE MonitorReport(m) \/ MonitorWatch(m) \/ MonitorLockStep(m) \/ MonitorDecide(m)
             \/ MonitorReload(m) \/ MonitorClean(m)
    <3>1. UNCHANGED <<init, mexit>>
      BY <2>6 DEF MonitorReport, MonitorWatch, MonitorLockStep, MonitorDecide,
         MonitorReload, MonitorClean
    <3> QED BY <2>2, <2>3, <3>1
  <2> QED BY <1>4, <2>4, <2>5, <2>6, <2>7 DEF MonitorNext
<1>5. ASSUME NEW i \in InitPid, InitNext(i) \/ InitExit(i) PROVE NoReboot'
  <2>1. SUFFICES ASSUME NEW c \in Cli, Active(c), phase[c] = "start", Free
                 PROVE  Free'
    BY <1>5, InitLeaves DEF NoReboot, Active
  <2>2. ~InitExit(i)
    BY <2>1 DEF InitExit
  <2>3. UNCHANGED <<mpc, mexit>>
    BY <1>5, InitLeaves
  <2> QED BY <1>5, <2>1, <2>2, <2>3 DEF InitNext, InitGuard, InitBoot, Busy
<1>6. CASE HostReboots
  BY <1>6 DEF HostReboots, NoReboot, Active
<1>7. CASE UNCHANGED vars
  BY <1>7 DEF vars, NoReboot, Active, Busy
<1> QED
  BY <1>1, <1>2, <1>3, <1>4, <1>5, <1>6, <1>7 DEF Next

(* A start forks its monitor when there is none; that monitor reports the  *)
(* one init it forks.                                                      *)
LEMMA FirstBootKept ==
  ASSUME TypeOK, OneCommand, Place, Monitors, NothingRuns, NoReboot, FirstBoot,
     [Next]_vars
  PROVE  FirstBoot'
<1>t. /\ pc \in [Cli -> CliPc]
      /\ alive \in [Cli -> BOOLEAN]
      /\ mpc \in [Monitor -> MonPc]
      /\ first \in [Monitor -> BOOLEAN]
      /\ sent \in [Monitor -> 0..MaxInit]
      /\ cur \in [Monitor -> 0..MaxInit]
      /\ mine \in [Cli -> Monitor \cup {NoMonitor}]
      /\ target \in [Cli -> 0..MaxInit]
  BY DEF TypeOK, LockTypeOK
<1> DEFINE Boot(c) == alive[c] /\ pc[c] \in Awaiting =>
             /\ \A m \in Monitor : Busy(m) => m = mine[c]
             /\ mpc[mine[c]] \in {"pre", "fork", "report"} =>
                  first[mine[c]] /\ sent[mine[c]] = 0
             /\ sent[mine[c]] # 0 => cur[mine[c]] = sent[mine[c]]
             /\ pc[c] # "await" => target[c] = sent[mine[c]] /\ target[c] # 0
<1> USE <1>t DEF Awaiting, Step, Goto, lockVars, fileVars, initVars, cliVars, monVars
<1>1. ASSUME NEW c \in Cli, Begin(c) PROVE FirstBoot'
  BY <1>1, CliLeaves DEF Begin, AcquireBegin, StartFork, FirstBoot, Busy
<1>2. ASSUME NEW c \in Cli, CliNext(c) PROVE FirstBoot'
  <2>c. CASE StartConsole(c)
    BY <2>c DEF StartConsole, FirstBoot, Busy
  <2>e. SUFFICES ASSUME Engaged(c) PROVE FirstBoot'
    BY <1>2, <2>c, AtWork
  <2>o. \A p \in Cli \ {c} : ~Engaged(p) /\ pc'[p] = pc[p] /\ alive'[p] = alive[p]
    BY <1>2, <2>e, OthersStay
  <2>a. alive[c]
    BY <1>2 DEF CliNext
  <2>m. ~StartFork(c) => UNCHANGED <<mpc, first, sent, cur>>
    BY <1>2, CliLeaves
  <2>b. Boot(c)
    BY DEF FirstBoot
  <2> USE <2>a, <2>b, <2>m DEF Busy, StartFork
  <2>1. ASSUME LockStep(c) \/ RestartCheck(c) \/ StopAcquired(c) \/ StopRunning(c) \/
     StopSignal(c) \/ StopWait(c) PROVE Boot(c)'
    BY <2>1 DEF LockStep, AcquireStep, ReleaseStep, AcquireAccess, AcquireRead,
       AcquireKill, AcquireUnlink, AcquireWrite, ReleaseRead, ReleaseUnlink,
       RestartCheck, AcquireBegin, StopAcquired, GiveUp, StopRunning, ReleaseBegin,
       StopSignal, StopWait
  <2>2. ASSUME StopKill(c) \/ CliPrune(c) \/ CliUnmount(c) \/ CliUnlink(c) \/
     RestartReload(c) \/ StartHandoff(c) PROVE Boot(c)'
    BY <2>2 DEF StopKill, CliPrune, CliUnmount, CliUnlink, ReleaseBegin, RestartReload,
       StartHandoff, AcquireBegin, FindNoLock
  <2>3. ASSUME StartHanded(c) \/ StartReleased(c) \/ StartUnique(c) \/ StartMount(c) \/
     StartInitBinary(c) \/ StartUuid(c) PROVE Boot(c)'
    BY <2>3 DEF StartHanded, GiveUp, ReleaseBegin, StartReleased, StartUnique,
       StartMount, StartInitBinary, StartUuid
  <2>4. ASSUME StartFork(c) PROVE Boot(c)'
    <3>1. Still
      BY <2>4, <2>a DEF NothingRuns, KnowsStill, Preparing
    <3>2. CASE pc'[c] = "await"
      <4>1. PICK m \in Monitor : /\ mpc[m] = "none" /\ mpc' = [mpc EXCEPT ![m] = "pre"]
                                 /\ mine'[c] = m /\ UNCHANGED <<sent, first, cur>>
        BY <2>4, <3>2 DEF MStep
      <4>2. sent[m] = 0 /\ first[m]
        BY <4>1 DEF Monitors, MonitorAt
      <4> QED BY <3>1, <3>2, <4>1, <4>2 DEF Still
    <3> QED BY <2>4, <3>2
  <2>5. ASSUME StartAwait(c) \/ StartEofReleased(c) \/ StartPidfile(c) \/
     StartSidecar(c) \/ StartPoll(c) \/ StartConsole(c) PROVE Boot(c)'
    BY <2>5 DEF StartAwait, ReleaseBegin, StartEofReleased, StartPidfile, StartSidecar,
       StartPoll, StartConsole
  <2>6. ASSUME Released(c) PROVE Boot(c)'
    BY <2>6 DEF Released
  <2>g. Boot(c)'
    BY <1>2, <2>1, <2>2, <2>3, <2>4, <2>5, <2>6 DEF CliNext
  <2> QED
    BY <2>g, <2>o, TargetStays DEF FirstBoot, Engaged, Active
<1>3. ASSUME NEW c \in Cli, CliDies(c) PROVE FirstBoot'
  BY <1>3, CliLeaves DEF CliDies, Die, StartFork, FirstBoot, Busy
<1>4. ASSUME NEW m \in Monitor, MonitorNext(m) PROVE FirstBoot'
  <2>1. UNCHANGED <<alive, pc, target, mine>>
    BY <1>4, MonitorLeaves
  <2>2. SUFFICES ASSUME NEW c \in Cli, alive[c], pc[c] \in Awaiting PROVE Boot(c)'
    BY <2>1 DEF FirstBoot
  <2>3. /\ Boot(c) /\ mine[c] = m
        /\ \A n \in Monitor : Busy(n)' => Busy(n)
        /\ \A n \in Monitor \ {m} : mpc'[n] = mpc[n]
    BY <1>4, <2>2, MonitorEnds DEF FirstBoot
  <2>4. mexit[m] # "reboot"
    BY <1>4, <2>2, MonitorEnds DEF NoReboot, Active, Place, PhaseAt
  <2> SUFFICES /\ mpc'[m] \in {"pre", "fork", "report"} => first'[m] /\ sent'[m] = 0
               /\ sent'[m] # 0 => cur'[m] = sent'[m]
               /\ pc[c] # "await" => target[c] = sent'[m] /\ target[c] # 0
    BY <2>1, <2>2, <2>3
  <2>5. CASE MonitorPre(m) \/ MonitorReport(m) \/ MidReap(m)
    BY <2>2, <2>3, <2>5 DEF MonitorPre, MonitorReport, MidReap, MStep
  <2>6. CASE MonitorFork(m)
    BY <2>2, <2>3, <2>6 DEF MonitorFork, MStep
  <2>7. CASE MonitorWatch(m) \/ MonitorLockStep(m) \/ MonitorDecide(m)
    BY <2>2, <2>3, <2>7 DEF MonitorWatch, MonitorLockStep, MonitorDecide, MStep
  <2>8. CASE MonitorReload(m) \/ MonitorClean(m)
    BY <2>2, <2>3, <2>4, <2>8 DEF MonitorReload, MonitorClean, MStep, Monitors,
       MonitorAt
  <2> QED BY <1>4, <2>5, <2>6, <2>7, <2>8 DEF MonitorNext
<1>5. ASSUME NEW i \in InitPid, InitNext(i) \/ InitExit(i) PROVE FirstBoot'
  BY <1>5, InitLeaves DEF FirstBoot, Busy
<1>6. CASE HostReboots
  BY <1>6 DEF HostReboots, FirstBoot
<1>7. CASE UNCHANGED vars
  BY <1>7 DEF vars, FirstBoot, Busy
<1> QED
  BY <1>1, <1>2, <1>3, <1>4, <1>5, <1>6, <1>7 DEF Next

(* A start that failed cleans up after its monitor has no init any more. *)
LEMMA StartOverKept ==
  ASSUME Prompt, TypeOK, OneCommand, Place, Monitors, Parents, NothingRuns, NoReboot,
     FirstBoot, StartOver, [Next]_vars
  PROVE  StartOver'
<1>t. /\ pc \in [Cli -> CliPc]
      /\ alive \in [Cli -> BOOLEAN]
      /\ mpc \in [Monitor -> MonPc]
      /\ mexit \in [Monitor -> {"run", "reboot", "exit"}]
      /\ phase \in [Cli -> {"stop", "start"}]
  BY DEF TypeOK, LockTypeOK
<1> DEFINE Over == \A m \in Monitor : ~Bootable(m)
           Cleans(c) == phase[c] = "start" /\ pc[c] \in {"eofrel"} \cup Tidying
<1> USE <1>t DEF Tidying, Step, Goto, lockVars, fileVars, initVars, cliVars, monVars
<1>1. ASSUME NEW c \in Cli, Begin(c) PROVE StartOver'
  BY <1>1, CliLeaves DEF Begin, AcquireBegin, StartFork, StartOver, Bootable, Busy,
     Cleaning
<1>2. ASSUME NEW c \in Cli, CliNext(c) PROVE StartOver'
  <2>c. CASE StartConsole(c)
    BY <2>c DEF StartConsole, StartOver, Bootable, Busy, Cleaning
  <2>e. SUFFICES ASSUME Engaged(c) PROVE StartOver'
    BY <1>2, <2>c, AtWork
  <2>o. \A p \in Cli \ {c} : ~Engaged(p) /\ pc'[p] = pc[p] /\ alive'[p] = alive[p]
    BY <1>2, <2>e, OthersStay
  <2>a. alive[c]
    BY <1>2 DEF CliNext
  <2>k. KnowsStill(c) => Over
    BY <2>a DEF NothingRuns, Still, Bootable
  <2>v. Cleans(c) => Over
    BY <2>a DEF StartOver
  <2>f. Over /\ Cleans(c)' => Over'
    BY <1>2, CliLeaves DEF Bootable, Busy, Cleaning, StartFork
  <2>p. PhaseAt(c)
    BY DEF Place
  <2> USE <2>a, <2>k, <2>v, <2>p DEF KnowsStill, Stopping, Handing, Preparing, PhaseAt
  <2>1. ASSUME LockStep(c) \/ RestartCheck(c) \/ StopAcquired(c) \/ StopRunning(c) \/
     StopSignal(c) \/ StopWait(c) PROVE (Cleans(c)' => Over)
    BY <2>1 DEF LockStep, AcquireStep, ReleaseStep, AcquireAccess, AcquireRead,
       AcquireKill, AcquireUnlink, AcquireWrite, ReleaseRead, ReleaseUnlink,
       RestartCheck, AcquireBegin, StopAcquired, GiveUp, StopRunning, ReleaseBegin,
       StopSignal, StopWait
  <2>2. ASSUME StopKill(c) \/ CliPrune(c) \/ CliUnmount(c) \/ CliUnlink(c) \/
     RestartReload(c) \/ StartHandoff(c) PROVE (Cleans(c)' => Over)
    BY <2>2 DEF StopKill, CliPrune, SkipUnmount, CliUnmount, CliUnlink, ReleaseBegin,
       RestartReload, StartHandoff, AcquireBegin, FindNoLock
  <2>3. ASSUME StartHanded(c) \/ StartReleased(c) \/ StartUnique(c) \/ StartMount(c) \/
     StartInitBinary(c) \/ StartUuid(c) PROVE (Cleans(c)' => Over)
    BY <2>3 DEF StartHanded, GiveUp, ReleaseBegin, StartReleased, StartUnique,
       StartMount, StartInitBinary, StartUuid
  <2>4. ASSUME StartAwait(c) PROVE (Cleans(c)' => Over)
    BY <2>4 DEF StartAwait, PipeEof, FirstBoot, Awaiting, Bootable
  <2>5. ASSUME StartPoll(c) PROVE (Cleans(c)' => Over)
    <3>1. CASE pc'[c] # "prune"
      BY <2>5, <3>1 DEF StartPoll
    <3>2. CASE pc'[c] = "prune"
      <4>1. init[target[c]] = "dead" /\ pc[c] = "poll"
        BY <2>5, <3>2 DEF StartPoll
      <4>2. /\ \A m \in Monitor : Busy(m) => m = mine[c]
            /\ mpc[mine[c]] \notin {"pre", "fork", "report"}
            /\ cur[mine[c]] = target[c]
        BY <4>1 DEF FirstBoot, Awaiting
      <4>3. SUFFICES ASSUME NEW m \in Monitor, Bootable(m) PROVE FALSE
        OBVIOUS
      <4>4. m = mine[c] /\ Busy(m) /\ mexit[m] = "run"
        BY <4>1, <4>2, <4>3 DEF Bootable, NoReboot, Active, Awaiting
      <4>5. mpc[m] = "watch"
        BY <4>2, <4>3, <4>4 DEF Bootable, Busy, Cleaning, Monitors, MonitorAt, MonPc
      <4> QED BY <4>1, <4>2, <4>4, <4>5 DEF Parents, Living
    <3> QED BY <3>1, <3>2
  <2>6. ASSUME StartFork(c) \/ StartEofReleased(c) \/ StartPidfile(c) \/ StartSidecar(c)
     \/ StartConsole(c) \/ Released(c) PROVE (Cleans(c)' => Over)
    BY <2>6 DEF StartFork, StartEofReleased, StartPidfile, StartSidecar, ReleaseBegin,
       StartConsole, Released
  <2>g. (Cleans(c)' => Over)
    BY <1>2, <2>1, <2>2, <2>3, <2>4, <2>5, <2>6 DEF CliNext
  <2> QED
    BY <2>g, <2>f, <2>o, TargetStays DEF StartOver, Engaged, Active
<1>3. ASSUME NEW c \in Cli, CliDies(c) PROVE StartOver'
  BY <1>3, CliLeaves DEF CliDies, Die, StartFork, StartOver, Bootable, Busy, Cleaning
<1>4. ASSUME NEW m \in Monitor, MonitorNext(m) PROVE StartOver'
  <2>1. UNCHANGED <<alive, pc, phase>>
    BY <1>4, MonitorLeaves
  <2>2. SUFFICES ASSUME Over PROVE Over'
    BY <2>1 DEF StartOver
  <2>3. /\ \A n \in Monitor \ {m} : mpc'[n] = mpc[n] /\ mexit'[n] = mexit[n]
        /\ Busy(m)
    BY <1>4, MonitorEnds
  <2>4. Cleaning(m) \/ mexit[m] = "exit"
    BY <2>2, <2>3 DEF Bootable
  <2>5. ~Bootable(m)'
    BY <1>4, <2>4 DEF MonitorNext, MonitorPre, MonitorFork, MonitorReport, MidReap,
       MonitorWatch, MonitorLockStep, MonitorDecide, MonitorReload, MonitorClean, MStep,
       Cleaning, Bootable, Busy, Monitors, MonitorAt
  <2> QED BY <2>2, <2>3, <2>5 DEF Bootable, Busy, Cleaning
<1>5. ASSUME NEW i \in InitPid, InitNext(i) \/ InitExit(i) PROVE StartOver'
  BY <1>5, InitLeaves DEF StartOver, Bootable, Busy, Cleaning
<1>6. CASE HostReboots
  BY <1>6 DEF HostReboots, StartOver
<1>7. CASE UNCHANGED vars
  BY <1>7 DEF vars, StartOver, Bootable, Busy, Cleaning
<1> QED
  BY <1>1, <1>2, <1>3, <1>4, <1>5, <1>6, <1>7 DEF Next

(* The UUID changes only while nothing carries it. *)
LEMMA UuidsAgreeKept ==
  ASSUME TypeOK, OneCommand, Place, Monitors, NothingRuns, UuidsAgree, [Next]_vars
  PROVE  UuidsAgree'
<1>t. /\ pc \in [Cli -> CliPc]
      /\ alive \in [Cli -> BOOLEAN]
      /\ mpc \in [Monitor -> MonPc]
      /\ phase \in [Cli -> {"stop", "start"}]
      /\ uuid \in [Cli -> 1..MaxUuid]
      /\ muuid \in [Monitor -> 1..MaxUuid]
  BY DEF TypeOK, LockTypeOK
<1> DEFINE Same(c) == /\ alive[c]
                      /\ \/ pc[c] \in {"rcheck", "acquire", "running", "reload", "handoff",
                                       "unique"} \cup Stopping \cup Handing \cup Preparing
                         \/ pc[c] = "prune" /\ phase[c] = "stop"
                      => uuid[c] = cfgUuid
<1> USE <1>t DEF Stopping, Handing, Preparing, Step, Goto, lockVars, fileVars, initVars,
   cliVars, monVars
<1>1. ASSUME NEW c \in Cli, Begin(c) PROVE UuidsAgree'
  BY <1>1, CliLeaves DEF Begin, AcquireBegin, StartFork, UuidsAgree, Busy
<1>2. ASSUME NEW c \in Cli, CliNext(c) PROVE UuidsAgree'
  <2>c. CASE StartConsole(c)
    BY <2>c, CliLeaves DEF StartConsole, StartFork, UuidsAgree, Busy
  <2>e. SUFFICES ASSUME Engaged(c) PROVE UuidsAgree'
    BY <1>2, <2>c, AtWork
  <2>o. \A p \in Cli \ {c} : ~Engaged(p) /\ pc'[p] = pc[p] /\ alive'[p] = alive[p]
    BY <1>2, <2>e, OthersStay
  <2>a. alive[c]
    BY <1>2 DEF CliNext
  <2>s. Same(c)
    BY DEF UuidsAgree
  <2>m. StartUuid(c) \/ cfgUuid' = cfgUuid =>
          \A m \in Monitor : Busy(m)' => muuid'[m] = cfgUuid'
    <3>1. CASE StartFork(c)
      <4>1. uuid[c] = cfgUuid /\ cfgUuid' = cfgUuid
        BY <2>a, <3>1 DEF UuidsAgree, StartFork
      <4> QED BY <3>1, <4>1 DEF StartFork, UuidsAgree, MStep, Busy
    <3>2. CASE ~StartFork(c) /\ ~StartUuid(c)
      BY <1>2, <3>2, CliLeaves DEF UuidsAgree, Busy
    <3>3. CASE StartUuid(c)
      <4>1. Still
        BY <2>a, <3>3 DEF NothingRuns, KnowsStill, StartUuid
      <4> QED BY <1>2, <3>3, <4>1, CliLeaves DEF StartUuid, StartFork, Still, Busy
    <3> QED BY <3>1, <3>2, <3>3
  <2>p. PhaseAt(c)
    BY DEF Place
  <2> USE <2>a, <2>s, <2>p DEF PhaseAt, Tidying, Awaiting
  <2>1. ASSUME LockStep(c) \/ RestartCheck(c) \/ StopAcquired(c) \/ StopRunning(c) \/
     StopSignal(c) PROVE Same(c)' /\ (StartUuid(c) \/ cfgUuid' = cfgUuid)
    BY <2>1 DEF LockStep, AcquireStep, ReleaseStep, AcquireAccess, AcquireRead,
       AcquireKill, AcquireUnlink, AcquireWrite, ReleaseRead, ReleaseUnlink,
       RestartCheck, AcquireBegin, StopAcquired, GiveUp, StopRunning, ReleaseBegin,
       StopSignal
  <2>2. ASSUME StopWait(c) \/ StopKill(c) \/ CliPrune(c) \/ CliUnmount(c) \/
     CliUnlink(c) PROVE Same(c)' /\ (StartUuid(c) \/ cfgUuid' = cfgUuid)
    BY <2>2 DEF StopWait, StopKill, CliPrune, SkipUnmount, CliUnmount, CliUnlink,
       ReleaseBegin
  <2>3. ASSUME RestartReload(c) \/ StartHandoff(c) \/ StartHanded(c) \/ StartReleased(c)
     \/ StartUnique(c) PROVE Same(c)' /\ (StartUuid(c) \/ cfgUuid' = cfgUuid)
    BY <2>3 DEF RestartReload, StartHandoff, AcquireBegin, FindNoLock, StartHanded,
       GiveUp, ReleaseBegin, StartReleased, StartUnique
  <2>4. ASSUME StartUuid(c) PROVE Same(c)' /\ (StartUuid(c) \/ cfgUuid' = cfgUuid)
    BY <2>4 DEF StartUuid
  <2>5. ASSUME StartMount(c) \/ StartInitBinary(c) \/ StartFork(c) \/ StartAwait(c) \/
     StartEofReleased(c) PROVE Same(c)' /\ (StartUuid(c) \/ cfgUuid' = cfgUuid)
    BY <2>5 DEF StartMount, ReleaseBegin, StartInitBinary, StartFork, StartAwait,
       StartEofReleased
  <2>6. ASSUME StartPidfile(c) \/ StartSidecar(c) \/ StartPoll(c) \/ StartConsole(c) \/
     Released(c) PROVE Same(c)' /\ (StartUuid(c) \/ cfgUuid' = cfgUuid)
    BY <2>6 DEF StartPidfile, StartSidecar, ReleaseBegin, StartPoll, StartConsole,
       Released
  <2>g. Same(c)' /\ (StartUuid(c) \/ cfgUuid' = cfgUuid)
    BY <1>2, <2>1, <2>2, <2>3, <2>4, <2>5, <2>6 DEF CliNext
  <2> QED
    <3>1. \A p \in Cli \ {c} : Same(p)'
      BY <2>o, TargetStays, <1>2 DEF Engaged, Active
    <3> QED BY <2>g, <2>m, <3>1 DEF UuidsAgree
<1>3. ASSUME NEW c \in Cli, CliDies(c) PROVE UuidsAgree'
  BY <1>3, CliLeaves DEF CliDies, Die, StartFork, UuidsAgree, Busy
<1>4. ASSUME NEW m \in Monitor, MonitorNext(m) PROVE UuidsAgree'
  <2>1. UNCHANGED <<alive, pc, phase, uuid, cfgUuid>>
    BY <1>4, MonitorLeaves
  <2>2. /\ \A n \in Monitor : Busy(n)' => Busy(n)
        /\ \A n \in Monitor \ {m} : muuid'[n] = muuid[n]
    BY <1>4, MonitorEnds
  <2>3. muuid'[m] \in {muuid[m], cfgUuid}
    BY <1>4 DEF MonitorNext, MonitorPre, MonitorFork, MonitorReport, MidReap,
       MonitorWatch, MonitorLockStep, MonitorDecide, MonitorReload, MonitorClean
  <2> QED BY <2>1, <2>2, <2>3 DEF UuidsAgree
<1>5. ASSUME NEW i \in InitPid, InitNext(i) \/ InitExit(i) PROVE UuidsAgree'
  BY <1>5, InitLeaves DEF UuidsAgree, Busy
<1>6. CASE HostReboots
  BY <1>6 DEF HostReboots, UuidsAgree, Busy
<1>7. CASE UNCHANGED vars
  BY <1>7 DEF vars, UuidsAgree, Busy
<1> QED
  BY <1>1, <1>2, <1>3, <1>4, <1>5, <1>6, <1>7 DEF Next

(* The image is unmounted only when nothing can come up on it. *)
LEMMA MountsHeldKept ==
  ASSUME TypeOK, OneCommand, Place, Monitors, OneMonitor, NothingRuns, FirstBoot,
     StartOver, MountsHeld, ~CanDie, [Next]_vars
  PROVE  MountsHeld'
<1>t. /\ pc \in [Cli -> CliPc]
      /\ alive \in [Cli -> BOOLEAN]
      /\ mpc \in [Monitor -> MonPc]
      /\ phase \in [Cli -> {"stop", "start"}]
      /\ la \in [Cli -> BOOLEAN]
      /\ knowsMount \in [Cli -> BOOLEAN]
      /\ mexit \in [Monitor -> {"run", "reboot", "exit"}]
  BY DEF TypeOK, LockTypeOK
<1> SUFFICES ASSUME Img PROVE MountsHeld'
  BY DEF MountsHeld
<1> DEFINE Holds(c) == alive[c] =>
             /\ pc[c] \in Preparing \ {"mount"} => mounted /\ knowsMount[c]
             /\ pc[c] = "mount" /\ la[c] => mounted /\ knowsMount[c]
             /\ pc[c] \in Awaiting => knowsMount[c]
           Early(c) == alive[c] /\ pc[c] \in {"await", "pid", "sidecar"}
           Based(c) == \A m \in Monitor : Bootable(m) => mounted /\ (mountRec \/ unsaved \/ Early(c))
<1>h. /\ \A c \in Cli : Holds(c)
      /\ \A m \in Monitor : Bootable(m) => 
           mounted /\ (mountRec \/ unsaved \/ \E c \in Cli : Early(c))
  BY DEF MountsHeld
<1> USE <1>t DEF Preparing, Awaiting, Step, Goto, lockVars, fileVars, initVars, cliVars,
   monVars
<1>1. ASSUME NEW c \in Cli, Begin(c) PROVE MountsHeld'
  <2>1. UNCHANGED <<mounted, mountRec, unsaved, alive, knowsMount, la, mpc, mexit>>
    BY <1>1 DEF Begin, AcquireBegin
  <2>2. /\ \A p \in Cli \ {c} : pc'[p] = pc[p]
        /\ pc[c] = "idle" /\ pc'[c] \in {"handoff", "acquire", "rcheck"}
    BY <1>1 DEF Begin
  <2>3. \A m \in Monitor : Bootable(m)' <=> Bootable(m)
    BY <2>1 DEF Bootable, Busy, Cleaning
  <2> QED BY <1>h, <2>1, <2>2, <2>3 DEF MountsHeld
<1>2. ASSUME NEW c \in Cli, CliNext(c) PROVE MountsHeld'
  <2>c. CASE StartConsole(c)
    <3>1. UNCHANGED <<mounted, mountRec, unsaved, alive, knowsMount, la, mpc, mexit>>
      BY <2>c DEF StartConsole
    <3>2. /\ \A p \in Cli \ {c} : pc'[p] = pc[p]
          /\ pc[c] = "console" /\ pc'[c] = "ok"
      BY <2>c DEF StartConsole
    <3>3. \A m \in Monitor : Bootable(m)' <=> Bootable(m)
      BY <3>1 DEF Bootable, Busy, Cleaning
    <3> QED BY <1>h, <3>1, <3>2, <3>3 DEF MountsHeld
  <2>e. SUFFICES ASSUME Engaged(c) PROVE MountsHeld'
    BY <1>2, <2>c, AtWork
  <2>o. \A p \in Cli \ {c} : ~Engaged(p) /\ pc'[p] = pc[p] /\ alive'[p] = alive[p]
    BY <1>2, <2>e, OthersStay
  <2>a. alive[c]
    BY <1>2 DEF CliNext
  <2>h. Holds(c) /\ Based(c)
    BY <1>h, <2>o DEF Engaged, Active
  <2>k. KnowsStill(c) => \A m \in Monitor : ~Bootable(m)
    BY <2>a DEF NothingRuns, Still, Bootable
  <2>v. phase[c] = "start" /\ pc[c] \in Tidying => \A m \in Monitor : ~Bootable(m)
    BY <2>a DEF StartOver
  <2>m. pc[c] # "fork" => \A m \in Monitor : Bootable(m)' <=> Bootable(m)
    BY <1>2, CliLeaves DEF StartFork, Bootable, Busy, Cleaning
  <2>p. PhaseAt(c)
    BY DEF Place
  <2> USE <2>a, <2>h, <2>m
  <2>1. ASSUME LockStep(c) PROVE Holds(c)' /\ Based(c)'
    <3>1. UNCHANGED <<mounted, mountRec, unsaved, alive, pc, knowsMount, la, mpc, mexit>>
      BY <2>1 DEF LockStep, AcquireStep, ReleaseStep, AcquireAccess, AcquireRead,
         AcquireKill, AcquireUnlink, AcquireWrite, ReleaseRead, ReleaseUnlink
    <3> QED BY <3>1 DEF Bootable, Busy, Cleaning
  <2>2. ASSUME RestartCheck(c) \/ StopAcquired(c) \/ StopRunning(c) \/ StopSignal(c)
     PROVE Holds(c)' /\ Based(c)'
    BY <2>2 DEF RestartCheck, AcquireBegin, StopAcquired, GiveUp, StopRunning,
       ReleaseBegin, StopSignal
  <2>3. ASSUME CliPrune(c) PROVE Holds(c)' /\ Based(c)'
    <3>1. \A m \in Monitor : ~Bootable(m)
      BY <2>3, <2>k, <2>v DEF CliPrune, KnowsStill, Tidying, Preparing
    <3> QED BY <2>3, <3>1 DEF CliPrune, CleanPrune, CleanUnmount, CleanUnlink,
       SkipUnmount, ReleaseBegin
  <2>4. ASSUME CliUnmount(c) PROVE Holds(c)' /\ Based(c)'
    <3>1. \A m \in Monitor : ~Bootable(m)
      BY <2>4, <2>k, <2>v DEF CliUnmount, KnowsStill, Tidying, Preparing
    <3> QED BY <2>4, <3>1 DEF CliUnmount, CleanPrune, CleanUnmount, CleanUnlink,
       SkipUnmount, ReleaseBegin
  <2>5. ASSUME CliUnlink(c) PROVE Holds(c)' /\ Based(c)'
    <3>1. \A m \in Monitor : ~Bootable(m)
      BY <2>5, <2>k, <2>v DEF CliUnlink, KnowsStill, Tidying, Preparing
    <3> QED BY <2>5, <3>1 DEF CliUnlink, CleanPrune, CleanUnmount, CleanUnlink,
       SkipUnmount, ReleaseBegin
  <2>6. ASSUME StopWait(c) \/ StopKill(c) \/ RestartReload(c) \/ StartHandoff(c) PROVE
     Holds(c)' /\ Based(c)'
    BY <2>6 DEF StopWait, StopKill, RestartReload, StartHandoff, AcquireBegin,
       FindNoLock
  <2>7. ASSUME StartUnique(c) PROVE Holds(c)' /\ Based(c)'
    BY <2>7, <2>p DEF StartUnique, StartFork, PhaseAt, Tidying
  <2>8. ASSUME StartMount(c) PROVE Holds(c)' /\ Based(c)'
    <3>1. \A m \in Monitor : ~Bootable(m)
      BY <2>8, <2>k, <2>v DEF StartMount, KnowsStill, Tidying, Preparing
    <3> QED BY <2>8, <3>1 DEF StartMount, CleanPrune, CleanUnmount, CleanUnlink,
       SkipUnmount, ReleaseBegin
  <2>9. ASSUME StartInitBinary(c) PROVE Holds(c)' /\ Based(c)'
    <3>1. \A m \in Monitor : ~Bootable(m)
      BY <2>9, <2>k, <2>v DEF StartInitBinary, KnowsStill, Tidying, Preparing
    <3> QED BY <2>9, <3>1 DEF StartInitBinary, CleanPrune, CleanUnmount, CleanUnlink,
       SkipUnmount, ReleaseBegin
  <2>10. ASSUME StartFork(c) PROVE Holds(c)' /\ Based(c)'
    <3>1. \A m \in Monitor : ~Bootable(m)
      BY <2>10, <2>k DEF StartFork, KnowsStill
    <3>2. CASE pc'[c] = "await"
      BY <2>10, <3>1, <3>2 DEF StartFork
    <3>3. CASE pc'[c] # "await"
      <4>1. UNCHANGED <<mpc, mexit>>
        BY <2>10, <3>3 DEF StartFork
      <4>2. \A m \in Monitor : Bootable(m)' <=> Bootable(m)
        BY <4>1 DEF Bootable, Busy, Cleaning
      <4> QED BY <2>10, <3>1, <3>3, <4>2 DEF StartFork
    <3> QED BY <3>2, <3>3
  <2>11. ASSUME StartAwait(c) PROVE Holds(c)' /\ Based(c)'
    <3>1. PipeEof(mine[c]) => \A m \in Monitor : ~Bootable(m)
      BY <2>11, <2>a DEF StartAwait, PipeEof, FirstBoot, Bootable
    <3> QED BY <2>11, <3>1 DEF StartAwait, StartFork, ReleaseBegin
  <2>12. ASSUME StartHanded(c) \/ StartReleased(c) \/ StartUuid(c) \/
     StartEofReleased(c) PROVE Holds(c)' /\ Based(c)'
    BY <2>12 DEF StartHanded, GiveUp, ReleaseBegin, StartReleased, StartUuid,
       StartEofReleased
  <2>13. ASSUME StartSidecar(c) PROVE Holds(c)' /\ Based(c)'
    BY <2>13 DEF StartSidecar, StartFork, ReleaseBegin
  <2>14. ASSUME StartPidfile(c) \/ StartPoll(c) \/ StartConsole(c) \/ Released(c) PROVE
     Holds(c)' /\ Based(c)'
    BY <2>14 DEF StartPidfile, StartPoll, ReleaseBegin, StartConsole, Released
  <2>g. Holds(c)' /\ Based(c)'
    BY <1>2, <2>1, <2>2, <2>3, <2>4, <2>5, <2>6, <2>7, <2>8, <2>9, <2>10, <2>11, <2>12,
       <2>13, <2>14 DEF CliNext
  <2> QED
    <3>1. \A p \in Cli \ {c} : Holds(p)'
      BY <2>o DEF Engaged, Active
    <3> QED BY <2>g, <3>1 DEF MountsHeld
<1>3. ASSUME NEW c \in Cli, CliDies(c) PROVE MountsHeld'
  <2>1. UNCHANGED <<mounted, mountRec, unsaved, mpc, mexit>>
    BY <1>3 DEF CliDies
  <2>2. /\ \A p \in Cli \ {c} : /\ pc'[p] = pc[p] /\ alive'[p] = alive[p]
                               /\ la'[p] = la[p] /\ knowsMount'[p] = knowsMount[p]
        /\ pc[c] \in {"ok", "fail"} /\ ~alive'[c]
    BY <1>3 DEF CliDies, Die
  <2>3. \A m \in Monitor : Bootable(m)' <=> Bootable(m)
    BY <2>1 DEF Bootable, Busy, Cleaning
  <2> QED BY <1>h, <2>1, <2>2, <2>3 DEF MountsHeld
<1>4. ASSUME NEW m \in Monitor, MonitorNext(m) PROVE MountsHeld'
  <2>1. UNCHANGED <<alive, pc, la, knowsMount>>
    BY <1>4, MonitorLeaves
  <2>2. /\ \A n \in Monitor \ {m} : mpc'[n] = mpc[n] /\ mexit'[n] = mexit[n]
        /\ Busy(m)
    BY <1>4, MonitorEnds
  <2>3. \A c \in Cli : alive[c] /\ pc[c] \in Preparing => FALSE
    BY <2>2 DEF NothingRuns, KnowsStill, Still
  <2>4. CASE MonitorClean(m)
    <3>1. \A n \in Monitor : ~Bootable(n)'
      BY <2>2, <2>4 DEF OneMonitor, Bootable, Busy, Cleaning, MonitorClean, MStep
    <3> QED BY <1>h, <2>1, <2>3, <3>1 DEF MountsHeld
  <2>5. CASE ~MonitorClean(m)
    <3>1. UNCHANGED <<mounted, mountRec, unsaved>>
      BY <1>4, <2>5 DEF MonitorNext, MonitorPre, MonitorFork, MonitorReport, MidReap,
         MonitorWatch, MonitorLockStep, MonitorDecide, MonitorReload
    <3>2. Bootable(m)' => Bootable(m)
      BY <1>4, <2>5 DEF MonitorNext, MonitorPre, MonitorFork, MonitorReport, MidReap,
         MonitorWatch, MonitorLockStep, MonitorDecide, MonitorReload, MStep, Bootable,
         Busy, Cleaning, Monitors, MonitorAt
    <3>3. \A n \in Monitor : Bootable(n)' => Bootable(n)
      BY <2>2, <3>2 DEF Bootable, Busy, Cleaning
    <3> QED BY <1>h, <2>1, <3>1, <3>3 DEF MountsHeld
  <2> QED BY <2>4, <2>5
<1>5. ASSUME NEW i \in InitPid, InitNext(i) \/ InitExit(i) PROVE MountsHeld'
  <2>1. UNCHANGED <<mounted, mountRec, unsaved, alive, pc, knowsMount, la, mpc, mexit>>
    BY <1>5, InitLeaves
  <2> QED BY <1>h, <2>1 DEF MountsHeld, Bootable, Busy, Cleaning
<1>6. CASE HostReboots
  BY <1>6 DEF HostReboots, MountsHeld, Bootable, Busy
<1>7. CASE UNCHANGED vars
  BY <1>7 DEF vars, MountsHeld, Bootable, Busy, Cleaning
<1> QED
  BY <1>1, <1>2, <1>3, <1>4, <1>5, <1>6, <1>7 DEF Next

(* Every step stays within the types. *)
LEMMA CliTypes ==
  ASSUME TypeOK, Place, OneMonitor, Parents, NEW c \in Cli, CliNext(c)
  PROVE  /\ pidfile' \in 0..MaxInit /\ mountRec' \in BOOLEAN /\ mounted' \in BOOLEAN
         /\ unsaved' \in BOOLEAN
         /\ cfgUuid' \in 1..MaxUuid
         /\ cmd' \in [Cli -> Commands \cup {"none"}] /\ pc' \in [Cli -> CliPc]
         /\ phase' \in [Cli -> {"stop", "start"}] /\ la' \in [Cli -> BOOLEAN]
         /\ knowsMount' \in [Cli -> BOOLEAN] /\ target' \in [Cli -> 0..MaxInit]
         /\ uuid' \in [Cli -> 1..MaxUuid] /\ mine' \in [Cli -> Monitor \cup {NoMonitor}]
         /\ mpc' \in [Monitor -> MonPc] /\ muuid' \in [Monitor -> 1..MaxUuid]
         /\ mknows' \in [Monitor -> BOOLEAN] /\ init' \in [InitPid -> InitState]
<1>t. /\ pidfile \in 0..MaxInit /\ mountRec \in BOOLEAN /\ mounted \in BOOLEAN /\ unsaved \in BOOLEAN
      /\ cfgUuid \in 1..MaxUuid
      /\ cmd \in [Cli -> Commands \cup {"none"}] /\ pc \in [Cli -> CliPc]
      /\ phase \in [Cli -> {"stop", "start"}] /\ la \in [Cli -> BOOLEAN]
      /\ knowsMount \in [Cli -> BOOLEAN] /\ target \in [Cli -> 0..MaxInit]
      /\ uuid \in [Cli -> 1..MaxUuid] /\ mine \in [Cli -> Monitor \cup {NoMonitor}]
      /\ mpc \in [Monitor -> MonPc] /\ muuid \in [Monitor -> 1..MaxUuid]
      /\ mknows \in [Monitor -> BOOLEAN] /\ init \in [InitPid -> InitState]
      /\ sent \in [Monitor -> 0..MaxInit]
  BY DEF TypeOK
<1>z. 0 \in 0..MaxInit
  BY LifecycleAssumption
<1>r. \A u : RunningPid(u) \in 0..MaxInit
  BY RunningIs
<1>m. pc[c] = "await" => sent[mine[c]] \in 0..MaxInit
  BY <1>t DEF Place, PhaseAt, Awaiting
<1>1. pc' \in [Cli -> CliPc]
  <2> USE DEF Step, CliPc, cliVars
  <2>1. CASE LockStep(c) \/ RestartCheck(c) \/ StopAcquired(c)
    BY <1>t, <2>1 DEF LockStep, RestartCheck, StopAcquired
  <2>2. CASE StopRunning(c) \/ StopSignal(c) \/ StopWait(c)
    BY <1>t, <2>2 DEF StopRunning, StopSignal, StopWait
  <2>3. CASE StopKill(c) \/ CliPrune(c) \/ CliUnmount(c)
    BY <1>t, <2>3 DEF StopKill, CliPrune, CliUnmount
  <2>4. CASE CliUnlink(c) \/ RestartReload(c) \/ StartHandoff(c)
    BY <1>t, <2>4 DEF CliUnlink, RestartReload, StartHandoff
  <2>5. CASE StartHanded(c) \/ StartReleased(c) \/ StartUnique(c)
    BY <1>t, <2>5 DEF StartHanded, StartReleased, StartUnique
  <2>6. CASE StartMount(c) \/ StartInitBinary(c) \/ StartUuid(c)
    BY <1>t, <2>6 DEF StartMount, StartInitBinary, StartUuid
  <2>7. CASE StartFork(c) \/ StartAwait(c) \/ StartEofReleased(c)
    BY <1>t, <2>7 DEF StartFork, StartAwait, StartEofReleased
  <2>8. CASE StartPidfile(c) \/ StartSidecar(c) \/ StartPoll(c)
    BY <1>t, <2>8 DEF StartPidfile, StartSidecar, StartPoll
  <2>9. CASE StartConsole(c) \/ Released(c)
    BY <1>t, <2>9 DEF StartConsole, Released
  <2> QED BY <2>1, <2>2, <2>3, <2>4, <2>5, <2>6, <2>7, <2>8, <2>9, CliNext(c) DEF
     CliNext
<1>2. /\ pidfile' \in 0..MaxInit /\ mountRec' \in BOOLEAN /\ mounted' \in BOOLEAN
         /\ unsaved' \in BOOLEAN
      /\ cfgUuid' \in 1..MaxUuid
  <2> USE DEF fileVars
  <2>1. CASE RestartCheck(c)
    BY <1>t, <1>r, <2>1 DEF RestartCheck, SelfHeal
  <2>2. CASE StopRunning(c)
    BY <1>t, <1>r, <2>2 DEF StopRunning, SelfHeal
  <2>3. CASE LockStep(c) \/ StopAcquired(c) \/ StopSignal(c) \/ StopWait(c)
    BY <1>t, <2>3 DEF LockStep, StopAcquired, StopSignal, StopWait
  <2>4. CASE CliPrune(c)
    BY <1>t, <1>z, <2>4 DEF CliPrune, CleanPrune
  <2>5. CASE CliUnlink(c)
    BY <1>z, <1>t, <2>5 DEF CliUnlink, CleanUnlink
  <2>6. CASE StopKill(c) \/ CliUnmount(c) \/ RestartReload(c) \/ StartHandoff(c)
    BY <1>t, <2>6 DEF StopKill, CliUnmount, CleanUnmount, RestartReload, StartHandoff
  <2>7. CASE StartUnique(c)
    BY <1>t, <1>r, <2>7 DEF StartUnique, SelfHeal
  <2>8. CASE StartHanded(c) \/ StartReleased(c) \/ StartMount(c) \/ StartInitBinary(c)
    BY <1>t, <2>8 DEF StartHanded, StartReleased, StartMount, StartInitBinary
  <2>9. CASE StartUuid(c) \/ StartFork(c) \/ StartAwait(c) \/ StartEofReleased(c)
    BY <1>t, <2>9 DEF StartUuid, StartFork, StartAwait, StartEofReleased
  <2>10. CASE StartPidfile(c) \/ StartSidecar(c) \/ StartPoll(c) \/ StartConsole(c)
    BY <1>t, <2>10 DEF StartPidfile, StartSidecar, StartPoll, StartConsole
  <2>11. CASE Released(c)
    BY <1>t, <2>11 DEF Released
  <2> QED BY <2>1, <2>2, <2>3, <2>4, <2>5, <2>6, <2>7, <2>8, <2>9, <2>10, <2>11,
     CliNext(c) DEF CliNext
<1>3. /\ cmd' \in [Cli -> Commands \cup {"none"}] /\ phase' \in [Cli -> {"stop", "start"}]
      /\ la' \in [Cli -> BOOLEAN] /\ knowsMount' \in [Cli -> BOOLEAN]
  <2> USE DEF cliVars
  <2>1. CASE LockStep(c) \/ RestartCheck(c) \/ StopAcquired(c) \/ StopRunning(c)
    BY <1>t, <2>1 DEF LockStep, RestartCheck, StopAcquired, StopRunning
  <2>2. CASE StopSignal(c) \/ StopWait(c) \/ StopKill(c) \/ CliPrune(c)
    BY <1>t, <2>2 DEF StopSignal, StopWait, StopKill, CliPrune
  <2>3. CASE CliUnmount(c) \/ CliUnlink(c) \/ RestartReload(c) \/ StartHandoff(c)
    BY <1>t, <2>3 DEF CliUnmount, CliUnlink, RestartReload, StartHandoff
  <2>4. CASE StartHanded(c) \/ StartReleased(c) \/ StartUnique(c) \/ StartMount(c)
    BY <1>t, <2>4 DEF StartHanded, StartReleased, StartUnique, StartMount
  <2>5. CASE StartInitBinary(c) \/ StartUuid(c) \/ StartFork(c) \/ StartAwait(c)
    BY <1>t, <2>5 DEF StartInitBinary, StartUuid, StartFork, StartAwait
  <2>6. CASE StartEofReleased(c) \/ StartPidfile(c) \/ StartSidecar(c) \/ StartPoll(c)
    BY <1>t, <2>6 DEF StartEofReleased, StartPidfile, StartSidecar, StartPoll
  <2>7. CASE StartConsole(c) \/ Released(c)
    BY <1>t, <2>7 DEF StartConsole, Released
  <2> QED BY <2>1, <2>2, <2>3, <2>4, <2>5, <2>6, <2>7, CliNext(c) DEF CliNext
<1>4. /\ target' \in [Cli -> 0..MaxInit] /\ uuid' \in [Cli -> 1..MaxUuid]
      /\ mine' \in [Cli -> Monitor \cup {NoMonitor}]
  <2> USE DEF cliVars
  <2>1. CASE StopRunning(c)
    BY <1>t, <1>r, <2>1 DEF StopRunning
  <2>2. CASE LockStep(c) \/ RestartCheck(c) \/ StopAcquired(c) \/ StopSignal(c)
    BY <1>t, <2>2 DEF LockStep, RestartCheck, StopAcquired, StopSignal
  <2>3. CASE StopWait(c) \/ StopKill(c) \/ CliPrune(c) \/ CliUnmount(c)
    BY <1>t, <2>3 DEF StopWait, StopKill, CliPrune, CliUnmount
  <2>4. CASE CliUnlink(c) \/ RestartReload(c) \/ StartHandoff(c) \/ StartHanded(c)
    BY <1>t, <2>4 DEF CliUnlink, RestartReload, StartHandoff, StartHanded
  <2>5. CASE StartReleased(c) \/ StartUnique(c) \/ StartMount(c) \/ StartInitBinary(c)
    BY <1>t, <2>5 DEF StartReleased, StartUnique, StartMount, StartInitBinary
  <2>6. CASE StartAwait(c)
    BY <1>t, <1>m, <2>6 DEF StartAwait
  <2>7. CASE StartUuid(c) \/ StartFork(c) \/ StartEofReleased(c) \/ StartPidfile(c)
    BY <1>t, <2>7 DEF StartUuid, StartFork, StartEofReleased, StartPidfile
  <2>8. CASE StartSidecar(c) \/ StartPoll(c) \/ StartConsole(c) \/ Released(c)
    BY <1>t, <2>8 DEF StartSidecar, StartPoll, StartConsole, Released
  <2> QED BY <2>1, <2>2, <2>3, <2>4, <2>5, <2>6, <2>7, <2>8, CliNext(c) DEF CliNext
<1>5. /\ mpc' \in [Monitor -> MonPc] /\ muuid' \in [Monitor -> 1..MaxUuid]
      /\ mknows' \in [Monitor -> BOOLEAN]
  <2>1. CASE StartFork(c)
    BY <1>t, <2>1 DEF StartFork, MStep, MonPc
  <2>2. CASE ~StartFork(c)
    BY <1>t, <2>2, CliLeaves
  <2> QED BY <2>1, <2>2
<1>6. init' \in [InitPid -> InitState]
  BY <1>t, CliLeaves DEF StopSignal, StopWait, SigKill, InitState
<1> QED BY <1>1, <1>2, <1>3, <1>4, <1>5, <1>6

(* The other actors stay within the types too. *)
LEMMA TypesKept ==
  ASSUME TypeOK, LockTypeOK', Place, OneMonitor, Parents, [Next]_vars
  PROVE  TypeOK'
<1>z. /\ 0 \in 0..MaxInit /\ InitPid \subseteq 0..MaxInit
      /\ "zexit" \in InitState /\ Zombie \subseteq InitState
      /\ {"none", "boot", "guarded", "up", "dead"} \subseteq InitState
  BY LifecycleAssumption DEF InitPid, InitState, Zombie
<1>f. \A u : find_container_init_pid(u) \in 0..MaxInit
  BY FoundIs
<1>r. \A u : RunningPid(u) \in 0..MaxInit
  BY RunningIs
<1> USE <1>z DEF TypeOK, MStep, lockVars, fileVars, initVars, cliVars, monVars
<1>1. ASSUME NEW c \in Cli, Begin(c) PROVE TypeOK'
  <2>1. /\ UNCHANGED <<fileVars, cfgUuid, initVars, la, knowsMount, target, mine, monVars>>
        /\ cmd' \in [Cli -> Commands \cup {"none"}] /\ phase' \in [Cli -> {"stop", "start"}]
        /\ uuid' \in [Cli -> 1..MaxUuid]
    BY <1>1 DEF Begin
  <2>2. pc' \in [Cli -> CliPc]
    BY <1>1 DEF Begin, Step, CliPc
  <2> QED BY <2>1, <2>2
<1>2. ASSUME NEW c \in Cli, CliNext(c) PROVE TypeOK'
  <2>1. UNCHANGED <<by, cur, sent, first, mexit>>
    BY <1>2, CliLeaves
  <2> QED BY <1>2, <2>1, CliTypes
<1>3. ASSUME NEW c \in Cli, CliDies(c) PROVE TypeOK'
  <2>1. pc' \in [Cli -> CliPc]
    BY <1>3 DEF CliDies, Step, CliPc
  <2>2. la' \in [Cli -> BOOLEAN] /\ knowsMount' \in [Cli -> BOOLEAN]
    BY <1>3 DEF CliDies
  <2>3. target' \in [Cli -> 0..MaxInit] /\ mine' \in [Cli -> Monitor \cup {NoMonitor}]
    BY <1>3 DEF CliDies
  <2>4. UNCHANGED <<fileVars, cfgUuid, initVars, cmd, phase, uuid, monVars>>
    BY <1>3 DEF CliDies
  <2> QED BY <2>1, <2>2, <2>3, <2>4
<1>4. ASSUME NEW m \in Monitor, MonitorNext(m) PROVE TypeOK'
  <2>1. UNCHANGED <<cmd, pc, phase, la, knowsMount, target, uuid, mine, cfgUuid>>
    BY <1>4, MonitorLeaves
  <2>2. mpc' \in [Monitor -> MonPc]
    BY <1>4 DEF MonitorNext, MonitorPre, MonitorFork, MonitorReport, MidReap,
       MonitorWatch, MonitorLockStep, MonitorDecide, MonitorReload, MonitorClean, MonPc
  <2>3. CASE MonitorPre(m)
    BY <1>r, <2>1, <2>2, <2>3 DEF MonitorPre, SelfHeal, SigKill
  <2>4. CASE MonitorFork(m)
    <3>1. init' \in [InitPid -> InitState] /\ by' \in [InitPid -> Monitor \cup {NoMonitor}]
      BY <2>4 DEF MonitorFork
    <3>2. /\ cur' \in [Monitor -> 0..MaxInit]
          /\ mexit' \in [Monitor -> {"run", "reboot", "exit"}]
      BY <2>4 DEF MonitorFork
    <3>3. UNCHANGED <<fileVars, sent, first, muuid, mknows>>
      BY <2>4 DEF MonitorFork
    <3> QED BY <2>1, <2>2, <3>1, <3>2, <3>3
  <2>5. CASE MonitorReport(m)
    BY <2>1, <2>2, <2>5 DEF MonitorReport
  <2>9. CASE MidReap(m)
    BY <2>1, <2>2, <2>9 DEF MidReap
  <2>6. CASE MonitorWatch(m) \/ MonitorLockStep(m) \/ MonitorDecide(m)
    BY <2>1, <2>2, <2>6 DEF MonitorWatch, MonitorLockStep, MonitorDecide
  <2>7. CASE MonitorReload(m)
    BY <2>1, <2>2, <2>7 DEF MonitorReload
  <2>8. CASE MonitorClean(m)
    BY <2>1, <2>2, <2>8 DEF MonitorClean, CleanPrune, CleanUnmount, CleanUnlink
  <2> QED BY <1>4, <2>3, <2>4, <2>5, <2>6, <2>7, <2>8, <2>9 DEF MonitorNext
<1>5. ASSUME NEW i \in InitPid, InitNext(i) \/ InitExit(i) PROVE TypeOK'
  <2>1. CASE InitGuard(i)
    BY <2>1, <1>f DEF InitGuard
  <2>2. CASE InitBoot(i)
    BY <2>2 DEF InitBoot
  <2>3. CASE InitExit(i)
    BY <2>3 DEF InitExit
  <2> QED BY <1>5, <2>1, <2>2, <2>3 DEF InitNext
<1>6. CASE HostReboots
  BY <1>6 DEF HostReboots, CliPc, MonPc
<1>7. CASE UNCHANGED vars
  BY <1>7 DEF vars, lockVars, fileVars, initVars, cliVars, monVars
<1> QED
  BY <1>1, <1>2, <1>3, <1>4, <1>5, <1>6, <1>7 DEF Next

(* A host without the container, and one where it is up, satisfy the invariant. *)
LEMMA LifeInvInit ==
  ASSUME Init
  PROVE  LifeInv
<1> DEFINE m0 == CHOOSE m \in Monitor : TRUE
<1>0. /\ Preboot => m0 \in Monitor
      /\ MaxInit \in Nat \ {0} /\ MaxUuid \in Nat \ {0} /\ NoMonitor \notin Monitor
      /\ Preboot \in BOOLEAN /\ Img \in BOOLEAN
  BY LifecycleAssumption
<1>1. LockTypeOK /\ LockInit
  BY LockAssumption DEF Init, LockInit, LockTypeOK, CliState, MonState
<1>2. TypeOK
  <2>1. /\ init \in [InitPid -> InitState] /\ by \in [InitPid -> Monitor \cup {NoMonitor}]
        /\ pidfile \in 0..MaxInit /\ cfgUuid \in 1..MaxUuid
    BY <1>0 DEF Init, InitState
  <2>4. mountRec \in BOOLEAN /\ mounted \in BOOLEAN /\ unsaved \in BOOLEAN
    BY DEF Init
  <2>2. /\ mpc \in [Monitor -> MonPc] /\ cur \in [Monitor -> 0..MaxInit]
        /\ sent \in [Monitor -> 0..MaxInit] /\ first \in [Monitor -> BOOLEAN]
        /\ mexit \in [Monitor -> {"run", "reboot", "exit"}]
        /\ muuid \in [Monitor -> 1..MaxUuid] /\ mknows \in [Monitor -> BOOLEAN]
    BY <1>0 DEF Init, MonPc
  <2>3. /\ cmd \in [Cli -> Commands \cup {"none"}] /\ pc \in [Cli -> CliPc]
        /\ phase \in [Cli -> {"stop", "start"}] /\ la \in [Cli -> BOOLEAN]
        /\ knowsMount \in [Cli -> BOOLEAN] /\ target \in [Cli -> 0..MaxInit]
        /\ uuid \in [Cli -> 1..MaxUuid] /\ mine \in [Cli -> Monitor \cup {NoMonitor}]
    BY <1>0 DEF Init, CliPc
  <2> QED BY <1>1, <2>1, <2>2, <2>3, <2>4 DEF TypeOK
<1>3. /\ lockFile = NoLock
      /\ \A c \in Cli : /\ lk[c] = "out" /\ alive[c] /\ pc[c] = "idle" /\ phase[c] = "stop"
                        /\ ~la[c] /\ cmd[c] = "none"
      /\ \A m \in Monitor : mk[m] = "idle" /\ mexit[m] = "run" /\ muuid[m] = 1
      /\ cfgUuid = 1
  BY <1>1 DEF Init, LockInit
<1>4. OneCommand /\ Place /\ LockKept /\ LockLeft
  BY <1>3 DEF OneCommand, Engaged, Active, Place, LockAt, PhaseAt, LockKept, LockLeft,
     Acquiring, Releasing, Stopping, Tidying, Handing, Preparing, Awaiting
<1>5. StopHolds /\ NothingRuns /\ StartCalm /\ NoReboot /\ FirstBoot /\ StartOver
  BY <1>3 DEF StopHolds, NothingRuns, KnowsStill, StartCalm, NoReboot, Active,
     FirstBoot, StartOver, Stopping, Tidying, Handing, Preparing, Awaiting
<1>6. /\ \A m \in Monitor : /\ mpc[m] = IF Preboot /\ m = m0 THEN "watch" ELSE "none"
                            /\ cur[m] = IF Preboot /\ m = m0 THEN 1 ELSE 0
                            /\ ~(Preboot /\ m = m0) => sent[m] = 0 /\ first[m]
      /\ \A i \in InitPid : /\ init[i] = IF Preboot /\ i = 1 THEN "up" ELSE "none"
                            /\ by[i] = IF Preboot /\ i = 1 THEN m0 ELSE NoMonitor
      /\ Preboot /\ Img => mountRec /\ mounted
  BY DEF Init
<1>7. Monitors /\ OneMonitor
  <2>1. OneMonitor
    BY <1>6 DEF OneMonitor, Busy
  <2>2. ASSUME NEW m \in Monitor PROVE MonitorAt(m)
    <3>1. CASE Preboot /\ m = m0
      BY <1>3, <1>6, <3>1 DEF MonitorAt
    <3>2. CASE ~(Preboot /\ m = m0)
      <4>1. mpc[m] = "none" /\ sent[m] = 0 /\ first[m]
        BY <1>6, <3>2
      <4>2. mk[m] = "idle" /\ mexit[m] = "run"
        BY <1>3
      <4> QED BY <4>1, <4>2 DEF MonitorAt
    <3> QED BY <3>1, <3>2
  <2> QED BY <2>1, <2>2 DEF Monitors
<1>8. Parents
  BY <1>0, <1>3, <1>6 DEF Parents, Living, InitPid
<1>9. UuidsAgree /\ MountsHeld
  BY <1>3, <1>6 DEF UuidsAgree, MountsHeld, Bootable, Busy, Stopping, Handing,
     Preparing, Awaiting
<1> QED BY <1>2, <1>4, <1>5, <1>7, <1>8, <1>9 DEF LifeInv

(* Every step of the system preserves the invariant. *)
LEMMA LifeInvStep ==
  ASSUME Serial, Prompt, ~CanDie, LifeInv, LockTypeOK', NoStrandedLock, [Next]_vars
  PROVE  LifeInv'
<1> USE DEF LifeInv
<1>1. TypeOK' /\ OneCommand' /\ Place'
  BY TypesKept, OneCommandKept, PlaceKept
<1>2. LockKept' /\ LockLeft'
  BY LockStaysKept, LockLeftKept
<1>3. Monitors' /\ OneMonitor' /\ Parents'
  BY MonitorsKept, OneMonitorKept, ParentsKept
<1>4. StopHolds' /\ NothingRuns' /\ StartCalm'
  BY StopHoldsKept, NothingRunsKept, StartCalmKept
<1>5. NoReboot' /\ FirstBoot' /\ StartOver'
  BY NoRebootKept, FirstBootKept, StartOverKept
<1>6. UuidsAgree' /\ MountsHeld'
  BY UuidsAgreeKept, MountsHeldKept
<1> QED BY <1>1, <1>2, <1>3, <1>4, <1>5, <1>6

(***************************************************************************)
(* The inductive invariant of the life cycle, for any number of commands,  *)
(* monitors, inits and host reboots.                                       *)
(***************************************************************************)
THEOREM LifeInvariant ==
  ASSUME Serial, Prompt, ~CanDie
  PROVE  Spec => []LifeInv
<1>1. Init => LifeInv
  BY LifeInvInit
<1>2. LifeInv /\ LockTypeOK' /\ NoStrandedLock /\ [Next]_vars => LifeInv'
  BY LifeInvStep
<1>3. Spec => []LockTypeOK
  BY LifecycleImplementsLock, LockTypeCorrect, PTL
<1> QED
  BY <1>1, <1>2, <1>3, LifecycleNoStrandedLock, PTL DEF Spec

(* Nothing runs where no monitor may have an init. *)
LEMMA NoneUp ==
  ASSUME Parents, \A m \in Monitor : ~Bootable(m)
  PROVE  Up = {}
  BY DEF Parents, Bootable, Busy, Cleaning, Living, Up

(***************************************************************************)
(* A stop that reports success has left no init and no monitor that could  *)
(* boot one, and while it cleaned up nobody else did.                      *)
(***************************************************************************)
THEOREM StopLeavesNothing ==
  ASSUME Serial, Prompt, ~CanDie
  PROVE  Spec => []StopWorks
<1>1. LifeInv => StopWorks
  <2> SUFFICES ASSUME LifeInv PROVE StopWorks
    OBVIOUS
  <2>1. \A c \in Cli :
          alive[c] /\ pc[c] \in Tidying \cup {"relok"} /\ phase[c] = "stop" => Still
    BY DEF LifeInv, NothingRuns, KnowsStill
  <2>2. Still => /\ \A i \in InitPid : init[i] \in {"none", "dead"}
                 /\ \A m \in Monitor : ~Cleaning(m)
                 /\ \A m \in Monitor : mpc[m] \notin {"pre", "reload", "fork", "report"}
    BY OneLiving DEF LifeInv, Living, Still, Busy, Cleaning
  <2>3. \A c \in Cli : cmd[c] = "stop" => phase[c] = "stop"
    BY DEF LifeInv, Place, PhaseAt
  <2>4. StopStops
    BY <2>1, <2>2, <2>3 DEF StopStops
  <2>5. StopCleansAlone
    BY <2>1, <2>2 DEF StopCleansAlone, CliCleaning, Tidying
  <2> QED BY <2>4, <2>5 DEF StopWorks
<1> QED BY <1>1, LifeInvariant, PTL

(***************************************************************************)
(* A start that has passed the uniqueness check prepares its container     *)
(* only while no container of the name runs.                               *)
(***************************************************************************)
THEOREM StartsAlone ==
  ASSUME Serial, Prompt, ~CanDie
  PROVE  Spec => []NameUnique
<1>1. LifeInv => NameUnique
  <2> SUFFICES ASSUME LifeInv, NEW c \in Cli, alive[c], pc[c] \in Preparing
               PROVE  Up = {}
    BY DEF NameUnique, Preparing
  <2>1. Still
    BY DEF LifeInv, NothingRuns, KnowsStill
  <2> QED BY <2>1, OneLiving DEF LifeInv, Living, Up
<1> QED BY <1>1, LifeInvariant, PTL

(***************************************************************************)
(* No step of a command, a monitor or the host takes the mounted image     *)
(* away from a running container.                                          *)
(***************************************************************************)
THEOREM MountStays ==
  ASSUME Serial, Prompt, ~CanDie
  PROVE  Spec => MountKept
<1>1. LifeInv /\ [Next]_vars => [mounted /\ ~mounted' => Up' = {}]_vars
  <2> SUFFICES ASSUME LifeInv, Next, mounted, ~mounted' PROVE Up' = {}
    OBVIOUS
  <2>0. /\ OneMonitor /\ Parents /\ NothingRuns /\ StartOver
        /\ (\A m \in Monitor : ~Bootable(m)) => Up = {}
    BY NoneUp DEF LifeInv
  <2>1. ASSUME NEW c \in Cli, Begin(c) \/ CliDies(c) PROVE FALSE
    BY <2>1 DEF Begin, CliDies, fileVars
  <2>2. ASSUME NEW c \in Cli, CliNext(c) PROVE Up' = {}
    <3>1. CliUnmount(c) \/ StartMount(c) \/ StartInitBinary(c)
      <4>1. CASE LockStep(c) \/ RestartCheck(c) \/ StopAcquired(c) \/ StopRunning(c)
                 \/ StopSignal(c) \/ StopWait(c) \/ StopKill(c)
        BY <4>1 DEF LockStep, RestartCheck, StopAcquired, StopRunning, StopSignal,
           StopWait, StopKill, fileVars
      <4>2. CASE CliPrune(c) \/ CliUnlink(c) \/ RestartReload(c) \/ StartHandoff(c)
                 \/ StartHanded(c) \/ StartReleased(c) \/ StartUnique(c)
        BY <4>2 DEF CliPrune, CleanPrune, CliUnlink, CleanUnlink, RestartReload,
           StartHandoff, StartHanded, StartReleased, StartUnique, fileVars
      <4>3. CASE StartUuid(c) \/ StartFork(c) \/ StartAwait(c) \/ StartEofReleased(c)
                 \/ StartPidfile(c) \/ StartSidecar(c) \/ StartPoll(c) \/ StartConsole(c)
                 \/ Released(c)
        BY <4>3 DEF StartUuid, StartFork, StartAwait, StartEofReleased, StartPidfile,
           StartSidecar, StartPoll, StartConsole, Released, fileVars
      <4> QED BY <2>2, <4>1, <4>2, <4>3 DEF CliNext
    <3>2. alive[c]
      BY <2>2 DEF CliNext
    <3>3. CASE pc[c] \in Preparing \/ phase[c] = "stop"
      <4>1. Still
        BY <2>0, <3>1, <3>2, <3>3 DEF CliUnmount, StartMount, StartInitBinary,
           NothingRuns, KnowsStill, Tidying, Preparing
      <4>2. Up = {}
        BY <2>0, <4>1 DEF Still, Bootable
      <4> QED BY <3>1, <4>2 DEF CliUnmount, StartMount, StartInitBinary, initVars, Up
    <3>4. CASE pc[c] \notin Preparing /\ phase[c] # "stop"
      <4>1. CliUnmount(c) /\ phase[c] = "start"
        BY <3>1, <3>4 DEF StartMount, StartInitBinary, Preparing, LifeInv, TypeOK
      <4>2. Up = {}
        BY <2>0, <3>2, <4>1 DEF CliUnmount, StartOver, Tidying
      <4> QED BY <4>1, <4>2 DEF CliUnmount, initVars, Up
    <3> QED BY <3>3, <3>4
  <2>3. ASSUME NEW m \in Monitor, MonitorNext(m) PROVE Up' = {}
    <3>1. MonitorClean(m)
      BY <2>3 DEF MonitorNext, MonitorPre, MonitorFork, MonitorReport, MidReap,
         MonitorWatch, MonitorLockStep, MonitorDecide, MonitorReload, fileVars
    <3>2. \A n \in Monitor : ~Bootable(n)
      BY <2>0, <3>1 DEF MonitorClean, OneMonitor, Bootable, Busy, Cleaning
    <3> QED BY <2>0, <3>1, <3>2 DEF MonitorClean, initVars, Up
  <2>4. ASSUME NEW i \in InitPid, InitNext(i) \/ InitExit(i) PROVE FALSE
    BY <2>4, InitLeaves
  <2>5. CASE HostReboots
    BY <2>5 DEF HostReboots, Up
  <2> QED BY <2>1, <2>2, <2>3, <2>4, <2>5 DEF Next
<1> QED BY <1>1, LifeInvariant, PTL DEF Spec, MountKept

-----------------------------------------------------------------------------
(***************************************************************************)
(* What is left when everything has ended, for any number of commands,     *)
(* monitors and inits, under the same assumptions.  The files and the      *)
(* mount always have a keeper that will clean them up: a monitor at work   *)
(* or a command that has not yet returned.  A stop hands the duty to       *)
(* nobody, because it has cleaned up by the time it returns; a start hands *)
(* it to its monitor, because its init cannot fail before the start has    *)
(* recorded it; a monitor that yields hands it to the command whose lock   *)
(* it saw.  That last step fails in one case, Lost: the command was        *)
(* already giving the lock back.                                           *)
(***************************************************************************)
Done(c) == pc[c] \in {"ok", "console", "relok"}
Keeps(c) == alive[c] /\ pc[c] \notin {"idle", "fail"} /\ ~Done(c)

(* Nothing has failed so far. *)
Smooth ==
  /\ bootId = 0
  /\ \A c \in Cli : pc[c] # "fail"
  /\ \A m \in Monitor : mpc[m] # "crashed"

(* Command c did not clean up after init i. *)
Past(c, i) == target[c] < i \/ (target[c] = i /\ cmd[c] # "stop")

(* A monitor has yielded, and no command took over. *)
Lost ==
  /\ Still /\ \A c \in Cli : ~Keeps(c)
  /\ \E m \in Monitor :
       mpc[m] = "yielded" /\ \A c \in Cli : Done(c) => Past(c, cur[m])

(* Pids are handed out in order, and those that somebody knows are taken. *)
InOrder ==
  /\ \A i, j \in InitPid : i < j /\ init[i] = "none" => init[j] = "none"
  /\ \A c \in Cli : target[c] # 0 => init[target[c]] # "none"
  /\ \A m \in Monitor : sent[m] # 0 => init[sent[m]] # "none"

(* The init of the monitor at work is the newest that commands know, and   *)
(* none that has returned has stopped it.                                  *)
Newest ==
  \A m \in Monitor : mpc[m] \in {"report", "watch", "check"} /\ cur[m] # 0 =>
    \A c \in Cli : Done(c) => Past(c, cur[m])

(* The init of a start that is still writing its files has not failed. *)
Recording ==
  \A c \in Cli : alive[c] /\ pc[c] \in {"await", "pid", "sidecar"} =>
    /\ \A i \in InitPid : Living(i) => init[i] = "boot"
    /\ sent[mine[c]] # 0 => init[sent[mine[c]]] = "boot"

(* While a start gives the lock back, its monitor is in the boot cycle the *)
(* start waited for.                                                       *)
GivingBack(c) ==
  /\ alive[c] /\ phase[c] = "start"
  /\ pc[c] = "relok" \/ (pc[c] = "console" /\ lk[c] # "out")
GivesBack ==
  \A c \in Cli : GivingBack(c) => \A m \in Monitor : Busy(m) =>
    cur[m] = target[c] /\ cur[m] # 0 /\ mpc[m] \in {"watch", "check"} \cup Tidying

(* Whoever is to unmount the image knows where it is mounted, except a     *)
(* stop of a container whose sidecar could not be written.                 *)
MountKnown ==
  /\ mounted => Img
  /\ Img => /\ \A m \in Monitor : Busy(m) => mknows[m]
            /\ \A c \in Cli : alive[c] /\ phase[c] = "stop"
                              /\ pc[c] \in Stopping \cup Tidying => knowsMount[c] \/ unsaved

(* A monitor without an init yields only to a command at work. *)
SeenLock ==
  Smooth => \A m \in Monitor : Busy(m) /\ cur[m] = 0 /\ mk[m] \in {"mkill", "active"} =>
    \E c \in Cli : Keeps(c)

FilesKept ==
  Smooth /\ (pidfile # 0 \/ mountRec) =>
    (\E m \in Monitor : Busy(m)) \/ (\E c \in Cli : Keeps(c)) \/ Lost

MountsKept ==
  Smooth /\ mounted =>
    \/ \E m \in Monitor : Busy(m) /\ mpc[m] # "unlink"
    \/ \E c \in Cli : Keeps(c) /\ ~(pc[c] = "unlink" /\ phase[c] = "stop")
    \/ Lost \/ unsaved

EndsInv ==
  /\ InOrder /\ Newest /\ Recording /\ GivesBack /\ MountKnown
  /\ SeenLock /\ FilesKept /\ MountsKept

-----------------------------------------------------------------------------
(* A command's step is its own. *)
LEMMA OthersKeep ==
  ASSUME TypeOK, NEW c \in Cli, CliNext(c)
  PROVE  /\ alive' = alive /\ alive[c]
         /\ \A p \in Cli \ {c} : pc'[p] = pc[p] /\ lk'[p] = lk[p]
<1>t. /\ pc \in [Cli -> CliPc]
      /\ lk \in [Cli -> CliState]
  BY DEF TypeOK, LockTypeOK
<1> USE <1>t DEF Step, Goto, lockVars, cliVars
<1>1. CASE LockStep(c)
  BY <1>1, CliNext(c) DEF CliNext, LockStep, AcquireStep, ReleaseStep, AcquireAccess,
     AcquireRead, AcquireKill, AcquireUnlink, AcquireWrite, ReleaseRead, ReleaseUnlink
<1>2. CASE RestartCheck(c) \/ StopAcquired(c) \/ StopRunning(c) \/ StopSignal(c) \/
   StopWait(c)
  BY <1>2, CliNext(c) DEF CliNext, RestartCheck, AcquireBegin, StopAcquired, GiveUp,
     StopRunning, ReleaseBegin, StopSignal, StopWait
<1>3. CASE StopKill(c) \/ CliPrune(c) \/ CliUnmount(c) \/ CliUnlink(c) \/
   RestartReload(c)
  BY <1>3, CliNext(c) DEF CliNext, StopKill, CliPrune, CliUnmount, CliUnlink,
     ReleaseBegin, RestartReload
<1>4. CASE StartHandoff(c) \/ StartHanded(c) \/ StartReleased(c) \/ StartUnique(c) \/
   StartMount(c)
  BY <1>4, CliNext(c) DEF CliNext, StartHandoff, AcquireBegin, FindNoLock, StartHanded,
     GiveUp, ReleaseBegin, StartReleased, StartUnique, StartMount
<1>5. CASE StartInitBinary(c) \/ StartUuid(c) \/ StartFork(c) \/ StartAwait(c) \/
   StartEofReleased(c)
  BY <1>5, CliNext(c) DEF CliNext, StartInitBinary, StartUuid, StartFork, StartAwait,
     ReleaseBegin, StartEofReleased
<1>6. CASE StartPidfile(c) \/ StartSidecar(c) \/ StartPoll(c) \/ StartConsole(c) \/
   Released(c)
  BY <1>6, CliNext(c) DEF CliNext, StartPidfile, StartSidecar, ReleaseBegin, StartPoll,
     StartConsole, Released
<1> QED
  BY <1>1, <1>2, <1>3, <1>4, <1>5, <1>6, CliNext(c) DEF CliNext

(* A command that has returned, or sits at its console, changes nothing    *)
(* but the lock; one at work stays at work, fails, or gets done at one of  *)
(* three places.                                                           *)
LEMMA CliMoves ==
  ASSUME TypeOK, Place, NEW c \in Cli, CliNext(c)
  PROVE  /\ pc'[c] # "idle" /\ pc[c] # "fail"
         /\ Keeps(c) \/ Done(c)
         /\ Done(c) =>
              /\ Done(c)'
              /\ UNCHANGED <<fileVars, initVars, monVars, cmd, phase, target, mine,
                             knowsMount>>
         /\ Keeps(c) /\ Done(c)' => \/ StartSidecar(c) \/ StartPoll(c)
                                    \/ CliUnlink(c) /\ phase[c] = "stop"
<1>t. /\ pc \in [Cli -> CliPc] /\ pc[c] \in CliPc
      /\ lk \in [Cli -> CliState]
      /\ phase[c] \in {"stop", "start"}
      /\ alive[c] /\ alive' = alive
  BY CliNext(c), OthersKeep DEF TypeOK, LockTypeOK
<1> USE <1>t DEF Step, CliPc, Keeps, Done, fileVars, initVars, monVars, cliVars
<1>1. CASE LockStep(c)
  <2>1. UNCHANGED <<fileVars, initVars, monVars, cliVars>> /\ lk[c] \notin {"out", "held"}
    BY <1>1 DEF LockStep, AcquireStep, ReleaseStep, AcquireAccess, AcquireRead,
       AcquireKill, AcquireUnlink, AcquireWrite, ReleaseRead, ReleaseUnlink
  <2>2. pc[c] \notin {"idle", "fail"}
    BY <2>1 DEF Place, LockAt
  <2> QED BY <2>1, <2>2
<1>2. CASE RestartCheck(c) \/ StopAcquired(c) \/ StopRunning(c) \/ StopSignal(c) \/
   StopWait(c)
  BY <1>2 DEF RestartCheck, StopAcquired, StopRunning, StopSignal, StopWait
<1>3. CASE StopKill(c) \/ CliPrune(c) \/ CliUnmount(c) \/ CliUnlink(c) \/
   RestartReload(c)
  BY <1>3 DEF StopKill, CliPrune, CliUnmount, CliUnlink, RestartReload
<1>4. CASE StartHandoff(c) \/ StartHanded(c) \/ StartReleased(c) \/ StartUnique(c) \/
   StartMount(c)
  BY <1>4 DEF StartHandoff, StartHanded, StartReleased, StartUnique, StartMount
<1>5. CASE StartInitBinary(c) \/ StartUuid(c) \/ StartFork(c) \/ StartAwait(c) \/
   StartEofReleased(c)
  BY <1>5 DEF StartInitBinary, StartUuid, StartFork, StartAwait, StartEofReleased
<1>6. CASE StartPidfile(c) \/ StartSidecar(c) \/ StartPoll(c)
  BY <1>6 DEF StartPidfile, StartSidecar, StartPoll
<1>7. CASE StartConsole(c) \/ Released(c)
  BY <1>7 DEF StartConsole, Released
<1> QED
  BY <1>1, <1>2, <1>3, <1>4, <1>5, <1>6, <1>7, CliNext(c) DEF CliNext

(* What has failed stays failed until the host reboots. *)
LEMMA SmoothBefore ==
  ASSUME TypeOK, Place, Monitors, [Next]_vars, Smooth'
  PROVE  Smooth
<1>t. /\ pc \in [Cli -> CliPc]
      /\ mpc \in [Monitor -> MonPc]
      /\ bootId \in Nat
  BY LockAssumption DEF TypeOK, LockTypeOK
<1> USE <1>t DEF Smooth
<1>1. ASSUME NEW c \in Cli, Begin(c) PROVE Smooth
  <2>1. UNCHANGED <<bootId, mpc>> /\ pc[c] = "idle" /\ \A p \in Cli \ {c} : pc'[p] = pc[p]
    BY <1>1 DEF Begin, AcquireBegin, Step, lockVars, monVars
  <2> QED BY <2>1
<1>2. ASSUME NEW c \in Cli, CliNext(c) PROVE Smooth
  <2>1. UNCHANGED bootId /\ (StartFork(c) \/ UNCHANGED mpc)
    BY <1>2, CliLeaves
  <2>2. \A m \in Monitor : mpc[m] = "crashed" => mpc'[m] = "crashed"
    BY <2>1 DEF StartFork, MStep
  <2>3. pc[c] # "fail" /\ \A p \in Cli \ {c} : pc'[p] = pc[p]
    BY <1>2, CliMoves, OthersKeep
  <2> QED BY <2>1, <2>2, <2>3
<1>3. ASSUME NEW c \in Cli, CliDies(c) PROVE Smooth
  <2>1. UNCHANGED <<bootId, mpc>> /\ \A p \in Cli : pc[p] = "fail" => pc'[p] = "fail"
    BY <1>3 DEF CliDies, Die, Step, monVars
  <2> QED BY <2>1
<1>4. ASSUME NEW m \in Monitor, MonitorNext(m) PROVE Smooth
  <2>1. UNCHANGED <<bootId, pc>>
    BY <1>4, MonitorLeaves DEF cliVars
  <2>2. Busy(m) /\ \A n \in Monitor \ {m} : mpc'[n] = mpc[n]
    BY <1>4, MonitorEnds
  <2> QED BY <2>1, <2>2 DEF Busy
<1>5. ASSUME NEW i \in InitPid, InitNext(i) \/ InitExit(i) PROVE Smooth
  BY <1>5, InitLeaves DEF lockVars, cliVars, monVars
<1>6. CASE HostReboots
  BY <1>6 DEF HostReboots, HostReboot
<1>7. CASE UNCHANGED vars
  BY <1>7 DEF vars, lockVars, cliVars, monVars
<1> QED
  BY <1>1, <1>2, <1>3, <1>4, <1>5, <1>6, <1>7 DEF Next

(* Inits never become unused, and a new one is the first unused. *)
LEMMA InitsGrow ==
  ASSUME TypeOK, [Next]_vars, NEW i \in InitPid
  PROVE  /\ init[i] # "none" => init'[i] # "none"
         /\ init[i] = "none" /\ init'[i] # "none" =>
              \A j \in InitPid : j < i => init[j] # "none"
<1>t. init \in [InitPid -> InitState]
  BY DEF TypeOK
<1> USE <1>t DEF InitState, Booting, Zombie, SigKill
<1>1. ASSUME NEW c \in Cli, Begin(c) \/ CliNext(c) \/ CliDies(c)
      PROVE  init'[i] = "none" <=> init[i] = "none"
  BY <1>1, CliLeaves DEF StopSignal, StopWait
<1>2. ASSUME NEW m \in Monitor, MonitorNext(m)
      PROVE  /\ init[i] # "none" => init'[i] # "none"
             /\ init[i] = "none" /\ init'[i] # "none" =>
                  \A j \in InitPid : j < i => init[j] # "none"
  <2>1. CASE MonitorFork(m)
    BY <2>1 DEF MonitorFork, initVars
  <2>2. CASE MonitorPre(m) \/ MidReap(m)
    BY <2>2 DEF MonitorPre, MidReap
  <2>3. CASE MonitorReport(m) \/ MonitorWatch(m) \/ MonitorLockStep(m) \/ MonitorDecide(m)
             \/ MonitorReload(m) \/ MonitorClean(m)
    BY <2>3 DEF MonitorReport, MonitorWatch, MonitorLockStep, MonitorDecide,
       MonitorReload, MonitorClean, initVars
  <2> QED BY <1>2, <2>1, <2>2, <2>3 DEF MonitorNext
<1>3. ASSUME NEW k \in InitPid, InitNext(k) \/ InitExit(k)
      PROVE  init'[i] = "none" <=> init[i] = "none"
  BY <1>3 DEF InitNext, InitGuard, InitBoot, InitExit, Zombie
<1>4. CASE HostReboots
  BY <1>4 DEF HostReboots
<1>5. CASE UNCHANGED vars
  BY <1>5 DEF vars, initVars
<1> QED
  BY <1>1, <1>2, <1>3, <1>4, <1>5 DEF Next

LEMMA InOrderKept ==
  ASSUME LifeInv, TypeOK', InOrder, [Next]_vars
  PROVE  InOrder'
<1>t. /\ target \in [Cli -> 0..MaxInit] /\ target' \in [Cli -> 0..MaxInit]
      /\ sent \in [Monitor -> 0..MaxInit] /\ sent' \in [Monitor -> 0..MaxInit]
      /\ MaxInit \in Nat
  BY LifecycleAssumption DEF LifeInv, TypeOK
<1>g. /\ \A i \in InitPid : init[i] # "none" => init'[i] # "none"
      /\ \A i \in InitPid : init[i] = "none" /\ init'[i] # "none" =>
           \A j \in InitPid : j < i => init[j] # "none"
  BY InitsGrow DEF LifeInv
<1> USE <1>t DEF InitPid
<1>1. \A i, j \in InitPid : i < j /\ init'[i] = "none" => init'[j] = "none"
  BY <1>g DEF InOrder
<1>2. \A c \in Cli : target'[c] # 0 => target'[c] = target[c] \/ init[target'[c]] # "none"
  <2>1. ASSUME NEW c \in Cli, Begin(c) \/ CliDies(c), NEW p \in Cli
        PROVE  target'[p] # 0 => target'[p] = target[p]
    BY <2>1 DEF Begin, CliDies
  <2>2. ASSUME NEW c \in Cli, CliNext(c), NEW p \in Cli
        PROVE  target'[p] # 0 => target'[p] = target[p] \/ init[target'[p]] # "none"
    <3>1. CASE p # c
      BY <2>2, <3>1, TargetStays DEF LifeInv
    <3>2. ASSUME StartAwait(c)
          PROVE  target'[c] = target[c] \/ init[target'[c]] # "none"
      <4>1. mine[c] \in Monitor
        BY <3>2 DEF StartAwait, LifeInv, Place, PhaseAt, Awaiting
      <4> QED BY <3>2, <4>1 DEF StartAwait, InOrder
    <3>3. ASSUME StopRunning(c)
          PROVE  target'[c] = target[c] \/ init[target'[c]] # "none"
      BY <3>3, RunningIs DEF StopRunning, LifeInv
    <3>4. CASE ~StartAwait(c) /\ ~StopRunning(c)
      <4>1. UNCHANGED target
        <5>1. CASE LockStep(c) \/ RestartCheck(c) \/ StopAcquired(c) \/ StopSignal(c)
                   \/ StopWait(c) \/ StopKill(c) \/ CliPrune(c) \/ CliUnmount(c)
                   \/ CliUnlink(c) \/ RestartReload(c) \/ StartHandoff(c)
          BY <5>1 DEF LockStep, RestartCheck, StopAcquired, StopSignal, StopWait,
             StopKill, CliPrune, CliUnmount, CliUnlink, RestartReload, StartHandoff,
             cliVars
        <5>2. CASE StartHanded(c) \/ StartReleased(c) \/ StartUnique(c) \/ StartMount(c)
                   \/ StartInitBinary(c) \/ StartUuid(c) \/ StartFork(c)
          BY <5>2 DEF StartHanded, StartReleased, StartUnique, StartMount,
             StartInitBinary, StartUuid, StartFork
        <5>3. CASE StartEofReleased(c) \/ StartPidfile(c) \/ StartSidecar(c)
                   \/ StartPoll(c) \/ StartConsole(c) \/ Released(c)
          BY <5>3 DEF StartEofReleased, StartPidfile, StartSidecar, StartPoll,
             StartConsole, Released
        <5> QED BY <2>2, <3>4, <5>1, <5>2, <5>3 DEF CliNext
      <4> QED BY <4>1
    <3> QED BY <3>1, <3>2, <3>3, <3>4
  <2>3. ASSUME NEW m \in Monitor, MonitorNext(m) PROVE UNCHANGED target
    BY <2>3, MonitorLeaves DEF cliVars
  <2>4. ASSUME NEW i \in InitPid, InitNext(i) \/ InitExit(i) PROVE UNCHANGED target
    BY <2>4, InitLeaves DEF cliVars
  <2>5. CASE HostReboots
    BY <2>5 DEF HostReboots
  <2>6. CASE UNCHANGED vars
    BY <2>6 DEF vars, cliVars
  <2> QED BY <2>1, <2>2, <2>3, <2>4, <2>5, <2>6 DEF Next
<1>3. \A m \in Monitor : sent'[m] # 0 => sent'[m] = sent[m] \/ init[sent'[m]] # "none"
  <2>1. ASSUME NEW m \in Monitor, MonitorNext(m), NEW n \in Monitor
        PROVE  sent'[n] = sent[n] \/ init[sent'[n]] # "none"
    <3>1. CASE n # m
      BY <2>1, <3>1, MonitorEnds DEF LifeInv
    <3>2. ASSUME MonitorReport(m)
          PROVE  sent'[m] = sent[m] \/ init[sent'[m]] # "none"
      <4>1. cur[m] \in InitPid /\ Living(cur[m])
        BY <3>2 DEF MonitorReport, LifeInv, Parents
      <4> QED BY <3>2, <4>1 DEF MonitorReport, Living
    <3>3. ASSUME ~MonitorReport(m) PROVE UNCHANGED sent
      BY <2>1, <3>3 DEF MonitorNext, MonitorPre, MonitorFork, MidReap, MonitorWatch,
         MonitorLockStep, MonitorDecide, MonitorReload, MonitorClean, monVars
    <3> QED BY <3>1, <3>2, <3>3
  <2>2. ASSUME NEW c \in Cli, Begin(c) \/ CliNext(c) \/ CliDies(c) PROVE UNCHANGED sent
    BY <2>2, CliLeaves
  <2>3. ASSUME NEW i \in InitPid, InitNext(i) \/ InitExit(i) PROVE UNCHANGED sent
    BY <2>3, InitLeaves DEF monVars
  <2>4. CASE HostReboots
    BY <2>4 DEF HostReboots
  <2>5. CASE UNCHANGED vars
    BY <2>5 DEF vars, monVars
  <2> QED BY <2>1, <2>2, <2>3, <2>4, <2>5 DEF Next
<1> QED
  BY <1>1, <1>2, <1>3, <1>g DEF InOrder

(* While a start waits for its container, whatever monitor is at work is   *)
(* its own, in the boot cycle whose init it was told of.                   *)
LEMMA OwnMonitor ==
  ASSUME LifeInv, NEW c \in Cli, alive[c], pc[c] \in {"pid", "sidecar", "poll"},
         NEW m \in Monitor, Busy(m)
  PROVE  /\ m = mine[c] /\ cur[m] = target[c] /\ cur[m] # 0
         /\ mpc[m] \in {"watch", "check"} \cup Tidying
<1>1. /\ m = mine[c] /\ target[c] = sent[m] /\ target[c] # 0
      /\ mpc[m] \notin {"pre", "fork", "report"} /\ cur[m] = sent[m]
  BY DEF LifeInv, FirstBoot, Awaiting
<1>2. Active(c) /\ phase[c] = "start"
  BY DEF Active, LifeInv, Place, PhaseAt, Awaiting
<1>3. mpc[m] # "reload"
  BY <1>2 DEF LifeInv, NoReboot, Monitors, MonitorAt
<1>4. mpc[m] \in MonPc
  BY DEF LifeInv, TypeOK
<1> QED BY <1>1, <1>3, <1>4 DEF MonPc, Busy, Tidying

LEMMA NewestKept ==
  ASSUME LifeInv, InOrder, Newest, [Next]_vars
  PROVE  Newest'
<1>t. /\ pc \in [Cli -> CliPc]
      /\ cmd \in [Cli -> Commands \cup {"none"}]
      /\ target \in [Cli -> 0..MaxInit]
      /\ mpc \in [Monitor -> MonPc]
      /\ cur \in [Monitor -> 0..MaxInit]
      /\ MaxInit \in Nat
  BY LifecycleAssumption DEF LifeInv, TypeOK
<1> DEFINE At(m) == mpc[m] \in {"report", "watch", "check"} /\ cur[m] # 0
<1> USE <1>t DEF Newest
<1>1. ASSUME NEW c \in Cli, Begin(c) PROVE Newest'
  <2>1. /\ UNCHANGED <<mpc, cur, target>>
        /\ \A p \in Cli \ {c} : pc'[p] = pc[p] /\ cmd'[p] = cmd[p]
        /\ ~Done(c)'
    BY <1>1 DEF Begin, Step, Done, monVars
  <2> QED BY <2>1 DEF Done, Past
<1>2. ASSUME NEW c \in Cli, CliNext(c) PROVE Newest'
  <2>1. UNCHANGED cur /\ \A m \in Monitor : At(m)' => At(m)
    BY <1>2, CliLeaves DEF StartFork, MStep
  <2>2. \A p \in Cli \ {c} : pc'[p] = pc[p] /\ cmd'[p] = cmd[p] /\ target'[p] = target[p]
    BY <1>2, OthersKeep, TargetStays DEF LifeInv
  <2>3. ASSUME NEW m \in Monitor, At(m), Done(c)' PROVE Past(c, cur[m])'
    <3>0. Busy(m) /\ alive[c]
      BY <1>2, <2>3, OthersKeep DEF Busy, LifeInv
    <3>1. CASE Done(c)
      <4>1. UNCHANGED <<cmd, target>>
        BY <1>2, <3>1, CliMoves DEF LifeInv
      <4> QED BY <2>1, <2>3, <3>1, <4>1 DEF Past
    <3>2. CASE StartSidecar(c) \/ StartPoll(c)
      <4>1. UNCHANGED <<cmd, target>> /\ pc[c] \in {"pid", "sidecar", "poll"}
        BY <3>2 DEF StartSidecar, StartPoll
      <4>2. cur[m] = target[c]
        BY <3>0, <4>1, OwnMonitor
      <4>3. cmd[c] # "stop"
        BY <4>1 DEF LifeInv, Place, PhaseAt, Awaiting
      <4> QED BY <2>1, <4>1, <4>2, <4>3 DEF Past
    <3>3. CASE CliUnlink(c) /\ phase[c] = "stop"
      BY <3>0, <3>3 DEF CliUnlink, LifeInv, NothingRuns, KnowsStill, Tidying, Still
    <3> QED
      BY <1>2, <2>3, <3>1, <3>2, <3>3, CliMoves DEF LifeInv
  <2>4. \A m \in Monitor, p \in Cli : At(m)' /\ p # c /\ Done(p)' => Past(p, cur[m])'
    BY <2>1, <2>2 DEF Done, Past
  <2> QED BY <2>1, <2>3, <2>4
<1>3. ASSUME NEW c \in Cli, CliDies(c) PROVE Newest'
  <2>1. /\ UNCHANGED <<mpc, cur, cmd>>
        /\ \A p \in Cli : Done(p)' => Done(p) /\ target'[p] = target[p]
    BY <1>3 DEF CliDies, Step, Done, monVars
  <2> QED BY <2>1 DEF Past
<1>4. ASSUME NEW m \in Monitor, MonitorNext(m) PROVE Newest'
  <2>1. UNCHANGED <<pc, cmd, target>>
    BY <1>4, MonitorLeaves DEF cliVars
  <2>2. \A n \in Monitor \ {m} : mpc'[n] = mpc[n] /\ cur'[n] = cur[n]
    BY <1>4, MonitorEnds DEF LifeInv
  <2>3. CASE MonitorFork(m)
    <3>1. ASSUME cur'[m] # 0, NEW c \in Cli PROVE target[c] < cur'[m]
      <4>1. /\ cur'[m] \in InitPid /\ init[cur'[m]] = "none"
        BY <2>3, <3>1 DEF MonitorFork
      <4>2. target[c] \in 0..MaxInit
        OBVIOUS
      <4>3. target[c] # 0 => target[c] \in InitPid /\ init[target[c]] # "none"
        BY <4>2 DEF InOrder, InitPid
      <4> QED BY <4>1, <4>2, <4>3 DEF InOrder, InitPid
    <3> QED BY <2>1, <2>2, <3>1 DEF Done, Past
  <2>4. CASE ~MonitorFork(m)
    <3>1. At(m)' => At(m) /\ cur'[m] = cur[m]
      BY <1>4, <2>4 DEF MonitorNext, MonitorPre, MonitorReport, MidReap, MonitorWatch,
         MonitorLockStep, MonitorDecide, MonitorReload, MonitorClean, MStep, monVars
    <3> QED BY <2>1, <2>2, <3>1 DEF Done, Past
  <2> QED BY <2>3, <2>4
<1>5. ASSUME NEW i \in InitPid, InitNext(i) \/ InitExit(i) PROVE Newest'
  BY <1>5, InitLeaves DEF cliVars, monVars, Done, Past
<1>6. CASE HostReboots
  BY <1>6 DEF HostReboots
<1>7. CASE UNCHANGED vars
  BY <1>7 DEF vars, cliVars, monVars, Done, Past
<1> QED
  BY <1>1, <1>2, <1>3, <1>4, <1>5, <1>6, <1>7 DEF Next

(* A command at work is the only one. *)
LEMMA OnlyCommand ==
  ASSUME OneCommand, NEW c \in Cli, NEW p \in Cli, Engaged(c), alive[p],
         \/ pc[p] \notin {"idle", "ok", "fail", "console"}
         \/ pc[p] = "console" /\ lk[p] # "out"
  PROVE  p = c
  BY DEF OneCommand, Engaged, Active

LEMMA RecordingKept ==
  ASSUME LifeInv, Recording, Prompt, [Next]_vars
  PROVE  Recording'
<1>t. /\ pc \in [Cli -> CliPc]
      /\ mine \in [Cli -> Monitor \cup {NoMonitor}]
      /\ init \in [InitPid -> InitState]
      /\ sent \in [Monitor -> 0..MaxInit]
      /\ cur \in [Monitor -> 0..MaxInit]
      /\ by \in [InitPid -> Monitor \cup {NoMonitor}]
      /\ MaxInit \in Nat
  BY LifecycleAssumption DEF LifeInv, TypeOK
<1> DEFINE Early(c) == alive[c] /\ pc[c] \in {"await", "pid", "sidecar"}
           Fresh == \A i \in InitPid : Living(i) => init[i] = "boot"
           Told(c) == sent[mine[c]] # 0 => init[sent[mine[c]]] = "boot"
<1>r. \A c \in Cli : Early(c) => Fresh /\ Told(c)
  BY DEF Recording
<1>g. SUFFICES \A c \in Cli : Early(c)' => Fresh' /\ Told(c)'
  BY DEF Recording
<1>1. ASSUME NEW c \in Cli, Begin(c) PROVE \A p \in Cli : Early(p)' => Fresh' /\ Told(p)'
  <2>1. /\ UNCHANGED <<init, sent, mine, alive>>
        /\ \A p \in Cli \ {c} : pc'[p] = pc[p]
        /\ ~Early(c)'
    BY <1>1, <1>t DEF Begin, Step, initVars, monVars, AcquireBegin, lockVars
  <2> QED BY <2>1, <1>r DEF Living
<1>2. ASSUME NEW c \in Cli, CliNext(c)
      PROVE  \A p \in Cli : Early(p)' => Fresh' /\ Told(p)'
  <2>1. UNCHANGED sent /\ alive' = alive /\ alive[c]
    BY <1>2, CliLeaves, OthersKeep DEF LifeInv
  <2>2. \A p \in Cli \ {c} : pc'[p] = pc[p] /\ mine'[p] = mine[p]
    BY <1>2, OthersKeep, TargetStays DEF LifeInv
  <2>3. ASSUME NEW p \in Cli \ {c}, Early(p)' PROVE Fresh' /\ Told(p)'
    <3>1. Early(p)
      BY <2>1, <2>2, <2>3
    <3>2. UNCHANGED init
      <4>1. ASSUME Engaged(c) PROVE FALSE
        BY <3>1, <4>1, OnlyCommand DEF LifeInv
      <4>2. StartConsole(c)
        BY <1>2, <4>1, AtWork
      <4> QED BY <4>2 DEF StartConsole, initVars
    <3> QED BY <1>r, <2>1, <2>2, <3>1, <3>2 DEF Living
  <2>4. ASSUME Early(c)' PROVE Fresh' /\ Told(c)'
    <3>1. CASE StartFork(c)
      <4>1. UNCHANGED init /\ mine'[c] \in Monitor /\ mpc[mine'[c]] = "none"
        BY <2>4, <3>1, <1>t DEF StartFork, Step, initVars
      <4>2. sent[mine'[c]] = 0
        BY <4>1 DEF LifeInv, Monitors, MonitorAt
      <4>3. Still
        BY <2>1, <3>1 DEF StartFork, LifeInv, NothingRuns, KnowsStill, Preparing
      <4> QED BY <2>1, <4>1, <4>2, <4>3, OneLiving DEF LifeInv, Living
    <3>2. CASE ~StartFork(c)
      <4>1. Early(c) /\ UNCHANGED <<init, mine>>
        <5>0. pc[c] \in CliPc
          BY <1>t
        <5>1. CASE LockStep(c)
          BY <2>1, <2>4, <5>1 DEF LockStep, cliVars, initVars
        <5>2. CASE StartAwait(c) \/ StartPidfile(c) \/ StartSidecar(c)
          BY <2>1, <5>2 DEF StartAwait, StartPidfile, StartSidecar, initVars
        <5>3. CASE RestartCheck(c) \/ StopAcquired(c) \/ StopRunning(c) \/ StopSignal(c)
                   \/ StopWait(c) \/ StopKill(c) \/ CliPrune(c) \/ CliUnmount(c)
                   \/ CliUnlink(c) \/ RestartReload(c) \/ StartHandoff(c)
          BY <2>4, <5>3, <1>t DEF RestartCheck, StopAcquired, StopRunning, StopSignal,
             StopWait, StopKill, CliPrune, CliUnmount, CliUnlink, RestartReload,
             StartHandoff, Step
        <5>4. CASE StartHanded(c) \/ StartReleased(c) \/ StartUnique(c) \/ StartMount(c)
                   \/ StartInitBinary(c) \/ StartUuid(c) \/ StartEofReleased(c)
                   \/ StartPoll(c) \/ StartConsole(c) \/ Released(c)
          BY <2>4, <5>4, <1>t DEF StartHanded, StartReleased, StartUnique, StartMount,
             StartInitBinary, StartUuid, StartEofReleased, StartPoll, StartConsole,
             Released, Step
        <5> QED BY <1>2, <3>2, <5>1, <5>2, <5>3, <5>4 DEF CliNext
      <4> QED BY <1>r, <2>1, <4>1 DEF Living
    <3> QED BY <3>1, <3>2
  <2> QED BY <2>3, <2>4
<1>3. ASSUME NEW c \in Cli, CliDies(c)
      PROVE  \A p \in Cli : Early(p)' => Fresh' /\ Told(p)'
  <2>1. /\ UNCHANGED <<init, sent>>
        /\ \A p \in Cli : Early(p)' => Early(p) /\ mine'[p] = mine[p]
    BY <1>3, <1>t DEF CliDies, Die, Step, initVars, monVars
  <2> QED BY <2>1, <1>r DEF Living
<1>4. ASSUME NEW m \in Monitor, MonitorNext(m)
      PROVE  \A p \in Cli : Early(p)' => Fresh' /\ Told(p)'
  <2>1. UNCHANGED <<pc, alive, mine>>
    BY <1>4, MonitorLeaves DEF cliVars
  <2>2. SUFFICES ASSUME NEW c \in Cli, Early(c) PROVE Fresh' /\ Told(c)'
    BY <2>1
  <2>3. Fresh /\ Told(c) /\ mine[c] \in Monitor /\ sent[mine[c]] \in 0..MaxInit
    BY <1>r, <1>t, <2>2 DEF LifeInv, Place, PhaseAt, Awaiting
  <2>4. Busy(m) /\ m = mine[c]
    BY <1>4, <2>2, MonitorEnds DEF LifeInv, FirstBoot, Awaiting
  <2>5. CASE MonitorPre(m)
    <3>1. RunningPid(muuid[m]) = 0
      BY <2>3, RunningIs DEF Living, LifeInv
    <3>2. UNCHANGED <<init, sent>>
      BY <2>5, <3>1 DEF MonitorPre
    <3> QED BY <2>1, <2>3, <3>2 DEF Living
  <2>6. CASE MonitorFork(m)
    <3>1. UNCHANGED sent /\ sent[m] = 0
      BY <2>2, <2>4, <2>6 DEF MonitorFork, LifeInv, FirstBoot, Awaiting
    <3>2. Fresh'
      BY <2>3, <2>6, <1>t DEF MonitorFork, Living, initVars
    <3> QED BY <2>1, <2>4, <3>1, <3>2
  <2>7. CASE MonitorReport(m)
    <3>1. UNCHANGED init /\ sent' \in {sent, [sent EXCEPT ![m] = cur[m]]}
      BY <2>7 DEF MonitorReport, initVars
    <3>2. cur[m] \in InitPid /\ Living(cur[m])
      BY <2>7 DEF MonitorReport, LifeInv, Parents
    <3> QED BY <1>t, <2>1, <2>3, <2>4, <3>1, <3>2 DEF Living
  <2>8. CASE MidReap(m)
    <3>1. cur[m] \in InitPid /\ Living(cur[m]) /\ init[cur[m]] \in Zombie
      BY <2>8 DEF MidReap, LifeInv, Parents
    <3> QED BY <2>3, <3>1 DEF Zombie
  <2>9. CASE MonitorWatch(m) \/ MonitorLockStep(m) \/ MonitorDecide(m) \/ MonitorReload(m)
             \/ MonitorClean(m)
    <3>1. UNCHANGED <<init, sent>>
      BY <2>9 DEF MonitorWatch, MonitorLockStep, MonitorDecide, MonitorReload,
         MonitorClean, initVars, monVars
    <3> QED BY <2>1, <2>3, <3>1 DEF Living
  <2> QED BY <1>4, <2>5, <2>6, <2>7, <2>8, <2>9 DEF MonitorNext
<1>5. ASSUME NEW i \in InitPid, InitNext(i) \/ InitExit(i)
      PROVE  \A p \in Cli : Early(p)' => Fresh' /\ Told(p)'
  <2>1. UNCHANGED <<pc, alive, mine, sent>>
    BY <1>5, InitLeaves DEF cliVars, monVars, lockVars
  <2>2. ASSUME NEW c \in Cli, Early(c) PROVE FALSE
    <3>1. Fresh
      BY <1>r, <2>2
    <3>2. InitGuard(i) /\ init[i] = "boot" /\ Recorded(i)
      BY <1>5, <3>1 DEF InitNext, InitGuard, InitBoot, InitExit, Living
    <3>3. by[i] \in Monitor /\ Busy(by[i])
      BY <3>2 DEF LifeInv, Parents, Living, Busy
    <3>4. mine[c] = by[i]
      BY <2>2, <3>3 DEF LifeInv, FirstBoot, Awaiting
    <3> QED BY <2>2, <3>2, <3>4 DEF Recorded
  <2> QED BY <2>1, <2>2
<1>6. CASE HostReboots
  BY <1>6 DEF HostReboots
<1>7. CASE UNCHANGED vars
  <2>1. UNCHANGED <<init, sent, mine, pc, alive>>
    BY <1>7 DEF vars, lockVars, initVars, cliVars, monVars
  <2> QED BY <1>r, <2>1 DEF Living
<1> QED
  BY <1>1, <1>2, <1>3, <1>4, <1>5, <1>6, <1>7 DEF Next

LEMMA GivesBackKept ==
  ASSUME LifeInv, GivesBack, [Next]_vars
  PROVE  GivesBack'
<1>t. /\ pc \in [Cli -> CliPc]
      /\ lk \in [Cli -> CliState]
      /\ alive \in [Cli -> BOOLEAN]
      /\ mpc \in [Monitor -> MonPc]
      /\ cur \in [Monitor -> 0..MaxInit]
      /\ phase \in [Cli -> {"stop", "start"}]
  BY DEF LifeInv, TypeOK, LockTypeOK
<1> DEFINE Mine(c) == \A m \in Monitor : Busy(m) =>
             cur[m] = target[c] /\ cur[m] # 0 /\ mpc[m] \in {"watch", "check"} \cup Tidying
<1>g. SUFFICES \A c \in Cli : GivingBack(c)' => Mine(c)'
  BY DEF GivesBack
<1>h. \A c \in Cli : GivingBack(c) => Mine(c)
  BY DEF GivesBack
<1>1. ASSUME NEW c \in Cli, Begin(c) PROVE \A p \in Cli : GivingBack(p)' => Mine(p)'
  <2>1. /\ UNCHANGED <<alive, mpc, cur, target>>
        /\ \A p \in Cli \ {c} : pc'[p] = pc[p] /\ phase'[p] = phase[p] /\ lk'[p] = lk[p]
        /\ pc'[c] \in {"handoff", "acquire", "rcheck"}
    BY <1>1, <1>t DEF Begin, Step, AcquireBegin, Goto, lockVars, monVars
  <2> QED BY <2>1, <1>h DEF GivingBack, Busy
<1>2. ASSUME NEW c \in Cli, CliNext(c)
      PROVE  \A p \in Cli : GivingBack(p)' => Mine(p)'
  <2>1. UNCHANGED cur /\ alive' = alive /\ alive[c]
    BY <1>2, CliLeaves, OthersKeep DEF LifeInv
  <2>2. /\ \A p \in Cli \ {c} : pc'[p] = pc[p] /\ lk'[p] = lk[p]
        /\ \A p \in Cli \ {c} : target'[p] = target[p] /\ phase'[p] = phase[p]
    BY <1>2, OthersKeep, TargetStays DEF LifeInv
  <2>3. ASSUME NEW p \in Cli \ {c}, GivingBack(p)' PROVE Mine(p)'
    <3>1. GivingBack(p)
      BY <2>1, <2>2, <2>3 DEF GivingBack
    <3>2. UNCHANGED <<mpc>>
      <4>1. ASSUME Engaged(c) PROVE FALSE
        BY <3>1, <4>1, OnlyCommand DEF LifeInv, GivingBack
      <4>2. StartConsole(c)
        BY <1>2, <4>1, AtWork
      <4> QED BY <4>2 DEF StartConsole, monVars
    <3> QED BY <1>h, <2>1, <2>2, <3>1, <3>2 DEF Busy
  <2>4. ASSUME GivingBack(c)' PROVE Mine(c)'
    <3>1. Done(c)'
      BY <2>4 DEF GivingBack, Done
    <3>2. CASE Done(c)
      <4>1. UNCHANGED <<mpc, phase, target>>
        BY <1>2, <3>2, CliMoves DEF LifeInv, monVars
      <4>2. GivingBack(c)
        <5>1. CASE LockStep(c)
          <6>1. UNCHANGED pc /\ lk[c] # "out"
            BY <5>1 DEF LockStep, AcquireStep, ReleaseStep, AcquireAccess, AcquireRead,
               AcquireKill, AcquireUnlink, AcquireWrite, ReleaseRead, ReleaseUnlink,
               cliVars
          <6> QED BY <2>1, <2>4, <4>1, <6>1 DEF GivingBack
        <5>2. CASE ~LockStep(c)
          <6>1. pc'[c] = "ok" \/ pc'[c] = "fail"
            BY <1>2, <1>t, <3>2, <5>2 DEF Done, CliNext, RestartCheck, StopAcquired,
               StopRunning, StopSignal, StopWait, StopKill, CliPrune, CliUnmount,
               CliUnlink, RestartReload, StartHandoff, StartHanded, StartReleased,
               StartUnique, StartMount, StartInitBinary, StartUuid, StartFork,
               StartAwait, StartEofReleased, StartPidfile, StartSidecar, StartPoll,
               StartConsole, Released, Step
          <6> QED BY <2>4, <6>1 DEF GivingBack
        <5> QED BY <5>1, <5>2
      <4> QED BY <1>h, <2>1, <4>1, <4>2 DEF Busy
    <3>3. CASE StartSidecar(c) \/ StartPoll(c)
      <4>1. UNCHANGED <<mpc, target>> /\ pc[c] \in {"sidecar", "poll"}
        BY <3>3 DEF StartSidecar, StartPoll, monVars
      <4> QED BY <2>1, <4>1, OwnMonitor DEF Busy
    <3>4. CASE CliUnlink(c) /\ phase[c] = "stop"
      BY <2>4, <3>4 DEF CliUnlink, GivingBack
    <3> QED BY <1>2, <3>1, <3>2, <3>3, <3>4, CliMoves DEF LifeInv
  <2> QED BY <2>3, <2>4
<1>3. ASSUME NEW c \in Cli, CliDies(c) PROVE \A p \in Cli : GivingBack(p)' => Mine(p)'
  <2>1. /\ UNCHANGED <<mpc, cur, phase>>
        /\ \A p \in Cli \ {c} : /\ alive'[p] = alive[p] /\ pc'[p] = pc[p]
                               /\ lk'[p] = lk[p] /\ target'[p] = target[p]
        /\ ~alive'[c]
    BY <1>3, <1>t DEF CliDies, Die, Step, Goto, monVars
  <2> QED BY <2>1, <1>h DEF GivingBack, Busy
<1>4. ASSUME NEW m \in Monitor, MonitorNext(m)
      PROVE  \A p \in Cli : GivingBack(p)' => Mine(p)'
  <2>1. UNCHANGED <<pc, alive, lk, phase, target>>
    BY <1>4, MonitorLeaves DEF cliVars
  <2>2. SUFFICES ASSUME NEW c \in Cli, GivingBack(c) PROVE Mine(c)'
    BY <2>1 DEF GivingBack
  <2>3. /\ Busy(m) /\ \A n \in Monitor : Busy(n)' => Busy(n)
        /\ \A n \in Monitor \ {m} : mpc'[n] = mpc[n] /\ cur'[n] = cur[n]
    BY <1>4, MonitorEnds DEF LifeInv
  <2>4. cur[m] = target[c] /\ cur[m] # 0 /\ mpc[m] \in {"watch", "check"} \cup Tidying
    BY <1>h, <2>2, <2>3
  <2>5. Active(c)
    BY <2>2 DEF GivingBack, Active
  <2>6. mexit[m] # "reboot"
    BY <2>2, <2>3, <2>5 DEF GivingBack, LifeInv, NoReboot
  <2>7. cur'[m] = cur[m] /\ (Busy(m)' => mpc'[m] \in {"watch", "check"} \cup Tidying)
    BY <1>4, <1>t, <2>4, <2>6 DEF MonitorNext, MonitorPre, MonitorFork, MonitorReport,
       MidReap, MonitorWatch, MonitorLockStep, MonitorDecide, MonitorReload,
       MonitorClean, MStep, Tidying, Busy, monVars
  <2> QED BY <1>h, <2>1, <2>2, <2>3, <2>4, <2>7 DEF Busy
<1>5. ASSUME NEW i \in InitPid, InitNext(i) \/ InitExit(i)
      PROVE  \A p \in Cli : GivingBack(p)' => Mine(p)'
  <2>1. UNCHANGED <<pc, alive, lk, phase, target, mpc, cur>>
    BY <1>5, InitLeaves DEF cliVars, monVars, lockVars
  <2> QED BY <1>h, <2>1 DEF GivingBack, Busy
<1>6. CASE HostReboots
  BY <1>6 DEF HostReboots, GivingBack
<1>7. CASE UNCHANGED vars
  <2>1. UNCHANGED <<pc, alive, lk, phase, target, mpc, cur>>
    BY <1>7 DEF vars, lockVars, cliVars, monVars
  <2> QED BY <1>h, <2>1 DEF GivingBack, Busy
<1> QED
  BY <1>1, <1>2, <1>3, <1>4, <1>5, <1>6, <1>7 DEF Next

(* Only a start that writes its sidecar learns or forgets that it could not. *)
LEMMA UnsavedStays ==
  ASSUME NEW c \in Cli, CliNext(c), pc[c] # "sidecar"
  PROVE  unsaved' = unsaved
<1>1. CASE LockStep(c) \/ RestartCheck(c) \/ StopAcquired(c) \/ StopRunning(c)
           \/ StopSignal(c) \/ StopWait(c) \/ StopKill(c)
  BY <1>1 DEF LockStep, RestartCheck, StopAcquired, StopRunning, StopSignal, StopWait,
     StopKill, fileVars
<1>2. CASE CliPrune(c) \/ CliUnmount(c) \/ CliUnlink(c) \/ RestartReload(c)
           \/ StartHandoff(c) \/ StartHanded(c) \/ StartReleased(c) \/ StartUnique(c)
  BY <1>2 DEF CliPrune, CleanPrune, CliUnmount, CleanUnmount, CliUnlink, CleanUnlink,
     RestartReload, StartHandoff, StartHanded, StartReleased, StartUnique, fileVars
<1>3. CASE StartMount(c) \/ StartInitBinary(c) \/ StartUuid(c) \/ StartFork(c)
           \/ StartAwait(c) \/ StartEofReleased(c) \/ StartPidfile(c)
  BY <1>3 DEF StartMount, StartInitBinary, StartUuid, StartFork, StartAwait,
     StartEofReleased, StartPidfile, fileVars
<1>4. CASE StartSidecar(c) \/ StartPoll(c) \/ StartConsole(c) \/ Released(c)
  BY <1>4 DEF StartSidecar, StartPoll, StartConsole, Released, fileVars
<1> QED BY <1>1, <1>2, <1>3, <1>4 DEF CliNext

LEMMA MountKnownKept ==
  ASSUME LifeInv, MountKnown, ~CanDie, [Next]_vars
  PROVE  MountKnown'
<1>t. /\ pc \in [Cli -> CliPc]
      /\ alive \in [Cli -> BOOLEAN]
      /\ mpc \in [Monitor -> MonPc]
      /\ mknows \in [Monitor -> BOOLEAN]
      /\ mounted \in BOOLEAN
      /\ phase \in [Cli -> {"stop", "start"}]
      /\ knowsMount \in [Cli -> BOOLEAN]
  BY DEF LifeInv, TypeOK, LockTypeOK
<1> DEFINE Late(c) == alive[c] /\ phase[c] = "stop" /\ pc[c] \in Stopping \cup Tidying
<1>h. /\ mounted => Img
      /\ Img => \A m \in Monitor : Busy(m) => mknows[m]
      /\ Img => \A c \in Cli : Late(c) => knowsMount[c] \/ unsaved
  BY DEF MountKnown
<1>1. ASSUME NEW c \in Cli, Begin(c) PROVE MountKnown'
  <2>1. /\ UNCHANGED <<alive, mounted, unsaved, mpc, mknows, knowsMount>>
        /\ \A p \in Cli \ {c} : pc'[p] = pc[p] /\ phase'[p] = phase[p]
        /\ pc'[c] \in {"handoff", "acquire", "rcheck"}
    BY <1>1, <1>t DEF Begin, Step, AcquireBegin, lockVars, fileVars, monVars
  <2> QED BY <2>1, <1>h DEF MountKnown, Busy, Stopping, Tidying
<1>2. ASSUME NEW c \in Cli, CliNext(c) PROVE MountKnown'
  <2>1. alive' = alive /\ alive[c]
    BY <1>2, OthersKeep DEF LifeInv
  <2>2. \A p \in Cli \ {c} : /\ pc'[p] = pc[p] /\ phase'[p] = phase[p]
                             /\ knowsMount'[p] = knowsMount[p]
    BY <1>2, OthersKeep, TargetStays DEF LifeInv
  <2>3. mounted' => Img
    <3>1. CASE LockStep(c) \/ RestartCheck(c) \/ StopAcquired(c) \/ StopRunning(c)
               \/ StopSignal(c) \/ StopWait(c) \/ StopKill(c)
      BY <1>h, <3>1 DEF LockStep, RestartCheck, StopAcquired, StopRunning, StopSignal,
         StopWait, StopKill, fileVars
    <3>2. CASE CliPrune(c) \/ CliUnmount(c) \/ CliUnlink(c) \/ RestartReload(c)
               \/ StartHandoff(c) \/ StartHanded(c) \/ StartReleased(c) \/ StartUnique(c)
      BY <1>h, <3>2 DEF CliPrune, CleanPrune, CliUnmount, CleanUnmount, CliUnlink,
         CleanUnlink, RestartReload, StartHandoff, StartHanded, StartReleased,
         StartUnique, fileVars
    <3>3. CASE StartMount(c) \/ StartInitBinary(c)
      BY <1>h, <3>3 DEF StartMount, StartInitBinary
    <3>4. CASE StartUuid(c) \/ StartFork(c) \/ StartAwait(c) \/ StartEofReleased(c)
               \/ StartPidfile(c) \/ StartSidecar(c) \/ StartPoll(c) \/ StartConsole(c)
               \/ Released(c)
      BY <1>h, <3>4 DEF StartUuid, StartFork, StartAwait, StartEofReleased, StartPidfile,
         StartSidecar, StartPoll, StartConsole, Released, fileVars
    <3> QED BY <1>2, <3>1, <3>2, <3>3, <3>4 DEF CliNext
  <2>4. ASSUME Img, NEW m \in Monitor, Busy(m)' PROVE mknows'[m]
    <3>1. CASE StartFork(c)
      <4>1. knowsMount[c]
        BY <2>1, <2>4, <3>1 DEF StartFork, LifeInv, MountsHeld, Preparing
      <4> QED BY <1>h, <1>t, <2>4, <3>1, <4>1 DEF StartFork, MStep, Busy
    <3>2. CASE ~StartFork(c)
      BY <1>2, <1>h, <2>4, <3>2, CliLeaves DEF Busy
    <3> QED BY <3>1, <3>2
  <2>5. ASSUME Img, Late(c)' PROVE knowsMount'[c] \/ unsaved'
    <3>p. PhaseAt(c)
      BY DEF LifeInv, Place
    <3>1. CASE StopRunning(c)
      <4>1. RunningPid(uuid[c]) # 0
        BY <1>t, <2>5, <3>1 DEF StopRunning, Step, Stopping, Tidying
      <4> DEFINE p == RunningPid(uuid[c])
      <4>2. p \in InitPid /\ init[p] = "up"
        BY <4>1, RunningIs DEF LifeInv
      <4>3. by[p] \in Monitor /\ Bootable(by[p])
        BY <4>2 DEF LifeInv, Parents, Living, Bootable, Busy, Cleaning
      <4>4. Engaged(c)
        BY <2>1, <3>1 DEF StopRunning, Engaged, Active
      <4>5. \A q \in Cli : ~(alive[q] /\ pc[q] \in {"await", "pid", "sidecar"})
        BY <3>1, <4>4, OnlyCommand DEF StopRunning, LifeInv
      <4>6. mountRec \/ unsaved
        BY <2>5, <4>3, <4>5 DEF LifeInv, MountsHeld
      <4> QED BY <1>t, <3>1, <4>1, <4>6 DEF StopRunning
    <3>2. CASE LockStep(c)
      BY <1>h, <2>1, <2>5, <3>2 DEF LockStep, cliVars, fileVars
    <3>3. CASE StopSignal(c) \/ StopWait(c) \/ StopKill(c) \/ CliPrune(c) \/ CliUnmount(c)
      <4>1. unsaved' = unsaved
        BY <1>2, <3>3, UnsavedStays DEF StopSignal, StopWait, StopKill, CliPrune,
           CliUnmount
      <4> QED BY <1>h, <2>1, <2>5, <3>3, <4>1 DEF StopSignal, StopWait, StopKill,
          CliPrune, CliUnmount, Stopping, Tidying
    <3>4. CASE RestartCheck(c) \/ StopAcquired(c) \/ CliUnlink(c) \/ RestartReload(c)
               \/ StartHandoff(c) \/ StartHanded(c) \/ StartReleased(c) \/ StartUnique(c)
      BY <1>t, <2>5, <3>4 DEF RestartCheck, StopAcquired, CliUnlink, RestartReload,
         StartHandoff, StartHanded, StartReleased, StartUnique, Step, Stopping, Tidying
    <3>5. CASE StartMount(c) \/ StartInitBinary(c) \/ StartUuid(c) \/ StartFork(c)
               \/ StartAwait(c) \/ StartEofReleased(c) \/ StartPidfile(c)
               \/ StartSidecar(c) \/ StartPoll(c)
      <4>1. UNCHANGED phase /\ phase[c] = "start"
        BY <3>p, <3>5 DEF StartMount, StartInitBinary, StartUuid, StartFork, StartAwait,
           StartEofReleased, StartPidfile, StartSidecar, StartPoll, PhaseAt, Preparing,
           Awaiting
      <4> QED BY <2>5, <4>1
    <3>6. CASE StartConsole(c) \/ Released(c)
      BY <1>t, <2>5, <3>6 DEF StartConsole, Released, Step, Stopping, Tidying
    <3> QED BY <1>2, <3>1, <3>2, <3>3, <3>4, <3>5, <3>6 DEF CliNext
  <2>6. \A p \in Cli \ {c} : Img /\ Late(p)' => knowsMount'[p] \/ unsaved'
    <3> SUFFICES ASSUME NEW p \in Cli \ {c}, Img, Late(p)'
                 PROVE  knowsMount'[p] \/ unsaved'
      OBVIOUS
    <3>1. Late(p)
      BY <2>1, <2>2
    <3>2. pc[c] # "sidecar"
      BY <2>1, <3>1 DEF LifeInv, OneCommand, Engaged, Active, Stopping, Tidying
    <3> QED BY <1>2, <1>h, <2>2, <3>1, <3>2, UnsavedStays
  <2>7. Img => \A p \in Cli : Late(p)' => knowsMount'[p] \/ unsaved'
    BY <2>5, <2>6
  <2> QED BY <2>3, <2>4, <2>7 DEF MountKnown
<1>3. ASSUME NEW c \in Cli, CliDies(c) PROVE MountKnown'
  <2>1. /\ UNCHANGED <<mounted, unsaved, mpc, mknows, phase>>
        /\ \A p \in Cli \ {c} : /\ alive'[p] = alive[p] /\ pc'[p] = pc[p]
                               /\ knowsMount'[p] = knowsMount[p]
        /\ ~alive'[c]
    BY <1>3, <1>t DEF CliDies, Die, Step, fileVars, monVars
  <2> QED BY <2>1, <1>h DEF MountKnown, Busy
<1>4. ASSUME NEW m \in Monitor, MonitorNext(m) PROVE MountKnown'
  <2>1. UNCHANGED <<pc, alive, phase, knowsMount>>
    BY <1>4, MonitorLeaves DEF cliVars
  <2>2. \A n \in Monitor : Busy(n)' => Busy(n)
    BY <1>4, MonitorEnds DEF LifeInv
  <2>3. UNCHANGED <<mknows, unsaved>> /\ (mounted' => mounted)
    BY <1>4, <1>t DEF MonitorNext, MonitorPre, MonitorFork, MonitorReport, MidReap,
       MonitorWatch, MonitorLockStep, MonitorDecide, MonitorReload, MonitorClean,
       CleanPrune, CleanUnmount, CleanUnlink, monVars, fileVars
  <2> QED BY <1>h, <2>1, <2>2, <2>3 DEF MountKnown
<1>5. ASSUME NEW i \in InitPid, InitNext(i) \/ InitExit(i) PROVE MountKnown'
  <2>1. UNCHANGED <<pc, alive, phase, knowsMount, mpc, mknows, mounted, unsaved>>
    BY <1>5, InitLeaves DEF cliVars, monVars, lockVars
  <2> QED BY <1>h, <2>1 DEF MountKnown, Busy
<1>6. CASE HostReboots
  BY <1>6 DEF HostReboots, MountKnown, Busy, Stopping, Tidying
<1>7. CASE UNCHANGED vars
  <2>1. UNCHANGED <<pc, alive, phase, knowsMount, mpc, mknows, mounted, unsaved>>
    BY <1>7 DEF vars, lockVars, fileVars, cliVars, monVars
  <2> QED BY <1>h, <2>1 DEF MountKnown, Busy
<1> QED
  BY <1>1, <1>2, <1>3, <1>4, <1>5, <1>6, <1>7 DEF Next

(* While nothing fails, a command at work stays so until it is done.       *)
LEMMA KeepersStay ==
  ASSUME LifeInv, Smooth', ~CanDie, [Next]_vars, NEW c \in Cli, Keeps(c)
  PROVE  \/ Keeps(c)'
         \/ CliNext(c) /\ Done(c)'
<1>t. /\ pc \in [Cli -> CliPc] /\ pc[c] \in CliPc
      /\ alive \in [Cli -> BOOLEAN]
  BY DEF LifeInv, TypeOK, LockTypeOK
<1> USE DEF Keeps, Done
<1>1. ASSUME NEW p \in Cli, Begin(p) PROVE Keeps(c)'
  <2>1. UNCHANGED alive /\ pc[p] = "idle" /\ \A q \in Cli \ {p} : pc'[q] = pc[q]
    BY <1>1, <1>t DEF Begin, AcquireBegin, Step, lockVars
  <2> QED BY <2>1
<1>2. ASSUME NEW p \in Cli, CliNext(p) PROVE Keeps(c)' \/ (p = c /\ Done(c)')
  <2>1. alive' = alive /\ \A q \in Cli \ {p} : pc'[q] = pc[q]
    BY <1>2, OthersKeep DEF LifeInv
  <2>2. CASE p = c
    <3>1. pc'[c] # "idle" /\ pc'[c] # "fail"
      BY <1>2, <2>2, CliMoves DEF LifeInv, Smooth
    <3> QED BY <2>1, <2>2, <3>1
  <2> QED BY <2>1, <2>2
<1>3. ASSUME NEW p \in Cli, CliDies(p) PROVE Keeps(c)'
  <2>1. /\ pc[p] \in {"ok", "fail"}
        /\ \A q \in Cli \ {p} : pc'[q] = pc[q] /\ alive'[q] = alive[q]
    BY <1>3, <1>t DEF CliDies, Die, Step
  <2> QED BY <2>1
<1>4. ASSUME NEW m \in Monitor, MonitorNext(m) PROVE Keeps(c)'
  BY <1>4, MonitorLeaves DEF cliVars
<1>5. ASSUME NEW i \in InitPid, InitNext(i) \/ InitExit(i) PROVE Keeps(c)'
  BY <1>5, InitLeaves DEF cliVars, lockVars
<1>6. CASE HostReboots
  <2>1. bootId \in Nat /\ bootId' = bootId + 1
    BY <1>6, LockAssumption DEF HostReboots, HostReboot, LifeInv, TypeOK, LockTypeOK
  <2> QED BY <2>1 DEF Smooth
<1>7. CASE UNCHANGED vars
  BY <1>7 DEF vars, cliVars, lockVars
<1> QED
  BY <1>1, <1>2, <1>3, <1>4, <1>5, <1>6, <1>7 DEF Next

(* A command that gets done leaves no monitor without an init behind; a    *)
(* start leaves one with an init.                                          *)
LEMMA DoneLeaves ==
  ASSUME LifeInv, Recording, Prompt, NEW c \in Cli, CliNext(c), Keeps(c), Done(c)'
  PROVE  \/ /\ StartSidecar(c) \/ StartPoll(c)
            /\ \E m \in Monitor : Busy(m)' /\ mpc'[m] # "unlink"
            /\ \A m \in Monitor : Busy(m) => cur[m] # 0
         \/ CliUnlink(c) /\ phase[c] = "stop" /\ Still
<1>0. alive[c]
  BY OthersKeep DEF LifeInv
<1>1. CASE CliUnlink(c) /\ phase[c] = "stop"
  BY <1>0, <1>1 DEF CliUnlink, LifeInv, NothingRuns, KnowsStill, Tidying
<1>2. CASE StartSidecar(c) \/ StartPoll(c)
  <2>1. pc[c] \in {"sidecar", "poll"} /\ UNCHANGED mpc
    BY <1>2 DEF StartSidecar, StartPoll, monVars
  <2>2. \A m \in Monitor : Busy(m) => cur[m] # 0
    BY <1>0, <2>1, OwnMonitor
  <2>3. /\ target[c] = sent[mine[c]] /\ target[c] # 0
        /\ target[c] \in 0..MaxInit /\ MaxInit \in Nat
    BY <1>0, <2>1, LifecycleAssumption DEF LifeInv, FirstBoot, Awaiting, TypeOK
  <2>4. target[c] \in InitPid /\ Living(target[c])
    <3>1. CASE pc[c] = "sidecar"
      BY <1>0, <2>3, <3>1 DEF Recording, InitPid, Living
    <3>2. CASE pc[c] = "poll"
      <4>1. init[target[c]] = "up"
        <5>t. pc[c] \in CliPc /\ pc \in [Cli -> CliPc]
          BY DEF LifeInv, TypeOK
        <5> QED BY <1>2, <3>2, <5>t DEF StartSidecar, StartPoll, Step, Done
      <4> QED BY <2>3, <4>1 DEF InitPid, Living
    <3> QED BY <2>1, <3>1, <3>2
  <2>5. by[target[c]] \in Monitor /\ mpc[by[target[c]]] \in {"report", "watch"}
    BY <2>4 DEF LifeInv, Parents
  <2> QED BY <1>2, <2>1, <2>2, <2>5 DEF Busy
<1> QED BY <1>1, <1>2, CliMoves DEF LifeInv

LEMMA SeenLockKept ==
  ASSUME LifeInv, Recording, GivesBack, SeenLock, Prompt, ~CanDie, [Next]_vars
  PROVE  SeenLock'
<1>t. /\ pc \in [Cli -> CliPc]
      /\ lk \in [Cli -> CliState]
      /\ mk \in [Monitor -> MonState]
      /\ mpc \in [Monitor -> MonPc]
      /\ cur \in [Monitor -> 0..MaxInit]
  BY DEF LifeInv, TypeOK, LockTypeOK
<1> SUFFICES ASSUME Smooth', NEW n \in Monitor, Busy(n)', cur'[n] = 0,
                    mk'[n] \in {"mkill", "active"}
             PROVE  \E c \in Cli : Keeps(c)'
  BY DEF SeenLock
<1>s. Smooth
  BY SmoothBefore DEF LifeInv
<1>h. ASSUME Busy(n), cur[n] = 0, mk[n] \in {"mkill", "active"}
      PROVE  \E c \in Cli : Keeps(c)'
  <2>1. PICK c \in Cli : Keeps(c)
    BY <1>h, <1>s DEF SeenLock
  <2>2. CASE CliNext(c) /\ Done(c)'
    BY <1>h, <2>1, <2>2, DoneLeaves DEF Still
  <2> QED BY <2>1, <2>2, KeepersStay
<1>1. ASSUME NEW c \in Cli, Begin(c) \/ CliNext(c) \/ CliDies(c)
      PROVE  Busy(n) /\ cur[n] = 0 /\ mk[n] \in {"mkill", "active"}
  <2>1. UNCHANGED <<cur, mk>> /\ (StartFork(c) \/ UNCHANGED mpc)
    BY <1>1, CliLeaves
  <2>2. mpc[n] = "check"
    BY <2>1 DEF LifeInv, Monitors, MonitorAt
  <2> QED BY <2>1, <2>2 DEF Busy
<1>2. ASSUME NEW m \in Monitor, MonitorNext(m) PROVE \E c \in Cli : Keeps(c)'
  <2>1. Busy(n)
    BY <1>2, MonitorEnds DEF LifeInv
  <2>2. CASE n # m
    BY <1>2, <1>h, <2>1, <2>2, MonitorEnds DEF LifeInv
  <2>3. CASE n = m
    <3>0. mpc[m] # "check" => mk[m] = "idle"
      BY DEF LifeInv, Monitors, MonitorAt
    <3>1. MonitorLockStep(m)
      BY <1>2, <1>t, <2>3, <3>0 DEF MonitorNext, MonitorPre, MonitorFork, MonitorReport,
         MidReap, MonitorWatch, MonitorDecide, MonitorReload, MonitorClean, CheckBegin,
         CheckDone, MGoto, lockVars
    <3>2. cur[m] = 0
      BY <2>3, <3>1 DEF MonitorLockStep, monVars
    <3>3. CASE CheckKill(m)
      BY <1>h, <2>1, <2>3, <3>2, <3>3 DEF CheckKill
    <3>4. CASE CheckRead(m)
      <4>1. lockFile # NoLock
        BY <1>t, <2>3, <3>4 DEF CheckRead, MGoto
      <4>2. PICK c \in Cli : lk[c] # "out"
        BY <2>1, <4>1 DEF LifeInv, LockLeft, Still
      <4>3. alive[c] /\ pc[c] \notin {"idle", "ok"} /\ pc[c] # "fail"
        BY <1>s, <4>2 DEF LifeInv, Place, LockAt, Smooth
      <4>4. ~GivingBack(c)
        BY <2>1, <2>3, <3>2 DEF GivesBack
      <4>5. phase[c] \in {"stop", "start"} /\ (pc[c] = "console" => phase[c] = "start")
        BY DEF LifeInv, TypeOK, Place, PhaseAt
      <4>6. ~(pc[c] = "relok" /\ phase[c] = "stop")
        BY <2>1, <4>3 DEF LifeInv, NothingRuns, KnowsStill, Still
      <4>7. Keeps(c)
        BY <4>2, <4>3, <4>4, <4>5, <4>6 DEF Keeps, Done, GivingBack
      <4> QED BY <1>2, <4>7, MonitorLeaves DEF Keeps, Done, cliVars
    <3>5. CASE CheckAccess(m) \/ CheckUnlink(m)
      BY <1>t, <2>3, <3>5 DEF CheckAccess, CheckUnlink, MGoto
    <3> QED BY <3>1, <3>3, <3>4, <3>5 DEF MonitorLockStep, CheckStep
  <2> QED BY <2>2, <2>3
<1>3. ASSUME NEW i \in InitPid, InitNext(i) \/ InitExit(i)
      PROVE  Busy(n) /\ cur[n] = 0 /\ mk[n] \in {"mkill", "active"}
  BY <1>3, InitLeaves DEF lockVars, monVars, Busy
<1>4. CASE HostReboots
  BY <1>4 DEF HostReboots, Busy
<1>5. CASE UNCHANGED vars
  BY <1>5, <1>h DEF vars, lockVars, monVars, Busy
<1> QED
  BY <1>1, <1>2, <1>3, <1>4, <1>5, <1>h DEF Next

(* What is lost stays lost until a user runs the next command. *)
LEMMA LostStays ==
  ASSUME LifeInv, Lost, Smooth', ~CanDie, [Next]_vars
  PROVE  Lost' \/ \E c \in Cli : Keeps(c)' /\ pc'[c] # "unlink"
<1>t. /\ pc \in [Cli -> CliPc]
      /\ alive \in [Cli -> BOOLEAN]
      /\ bootId \in Nat
  BY LockAssumption DEF LifeInv, TypeOK, LockTypeOK
<1>1. ASSUME NEW c \in Cli, Begin(c) PROVE Keeps(c)' /\ pc'[c] # "unlink"
  BY <1>1, <1>t DEF Begin, Step, AcquireBegin, lockVars, Keeps, Done
<1>2. ASSUME NEW c \in Cli, CliNext(c) PROVE Lost'
  <2>1. Done(c)
    BY <1>2, CliMoves DEF LifeInv, Lost
  <2>2. /\ Done(c)' /\ UNCHANGED <<mpc, cur>>
        /\ cmd'[c] = cmd[c] /\ target'[c] = target[c]
    BY <1>2, <2>1, CliMoves DEF LifeInv, monVars
  <2>3. /\ alive' = alive
        /\ \A p \in Cli \ {c} : /\ pc'[p] = pc[p] /\ cmd'[p] = cmd[p]
                               /\ target'[p] = target[p]
    BY <1>2, OthersKeep, TargetStays DEF LifeInv
  <2>4. Still' /\ \A p \in Cli : ~Keeps(p)'
    BY <2>2, <2>3 DEF Lost, Still, Busy, Keeps, Done
  <2>5. \A p \in Cli : Done(p)' => Done(p) /\ cmd'[p] = cmd[p] /\ target'[p] = target[p]
    BY <2>1, <2>2, <2>3 DEF Done
  <2> QED BY <2>2, <2>4, <2>5 DEF Lost, Past
<1>3. ASSUME NEW c \in Cli, CliDies(c) PROVE Lost'
  <2>1. /\ UNCHANGED <<mpc, cur, cmd>> /\ ~alive'[c]
        /\ \A p \in Cli \ {c} : pc'[p] = pc[p] /\ alive'[p] = alive[p]
        /\ \A p \in Cli : Done(p)' => Done(p) /\ target'[p] = target[p]
    BY <1>3, <1>t DEF CliDies, Die, Step, Done, monVars
  <2>2. Still' /\ \A p \in Cli : ~Keeps(p)'
    BY <2>1 DEF Lost, Still, Busy, Keeps, Done
  <2> QED BY <2>1, <2>2 DEF Lost, Past
<1>4. ASSUME NEW m \in Monitor, MonitorNext(m) PROVE FALSE
  BY <1>4, MonitorEnds DEF LifeInv, Lost, Still
<1>5. ASSUME NEW i \in InitPid, InitNext(i) \/ InitExit(i) PROVE Lost'
  BY <1>5, InitLeaves DEF lockVars, cliVars, monVars, Lost, Still, Busy, Keeps, Done, Past
<1>6. CASE HostReboots
  BY <1>6, <1>t DEF HostReboots, HostReboot, Smooth
<1>7. CASE UNCHANGED vars
  BY <1>7 DEF vars, lockVars, cliVars, monVars, Lost, Still, Busy, Keeps, Done, Past
<1> QED
  BY <1>1, <1>2, <1>3, <1>4, <1>5, <1>6, <1>7 DEF Next

(* A monitor that yields leaves the cleanup to a command at work, or to    *)
(* nobody.                                                                 *)
LEMMA YieldLeaves ==
  ASSUME LifeInv, SeenLock, Newest, Smooth,
         NEW m \in Monitor, MonitorDecide(m), mpc'[m] = "yielded"
  PROVE  \/ \E c \in Cli : Keeps(c)' /\ ~(pc'[c] = "unlink" /\ phase'[c] = "stop")
         \/ Lost'
<1>t. /\ mpc \in [Monitor -> MonPc] /\ cur[m] \in 0..MaxInit
      /\ mk \in [Monitor -> MonState]
  BY DEF LifeInv, TypeOK, LockTypeOK
<1>1. /\ UNCHANGED <<pc, alive, phase, cmd, target, cur>> /\ mpc[m] = "check"
      /\ mk[m] = "active"
  BY <1>t DEF MonitorDecide, MStep, CheckDone, lockVars, cliVars
<1>2. Busy(m) /\ \A n \in Monitor : Busy(n) => n = m
  BY <1>1 DEF Busy, LifeInv, OneMonitor
<1>3. CASE \E c \in Cli : Keeps(c)
  <2>1. PICK c \in Cli : Keeps(c)
    BY <1>3
  <2>2. ~(pc[c] = "unlink" /\ phase[c] = "stop")
    BY <1>2, <2>1 DEF LifeInv, NothingRuns, KnowsStill, Tidying, Still, Keeps
  <2> QED BY <1>1, <2>1, <2>2 DEF Keeps, Done
<1>4. CASE \A c \in Cli : ~Keeps(c)
  <2>1. cur[m] # 0
    BY <1>1, <1>2, <1>4 DEF SeenLock
  <2>2. \A c \in Cli : Done(c) => Past(c, cur[m])
    BY <1>1, <2>1 DEF Newest
  <2>3. \A n \in Monitor \ {m} : mpc'[n] = mpc[n]
    BY <1>t DEF MonitorDecide, MStep
  <2>4. Still' /\ \A c \in Cli : ~Keeps(c)'
    BY <1>1, <1>2, <1>4, <2>3 DEF Still, Busy, Keeps, Done
  <2>5. \A c \in Cli : Done(c)' => Past(c, cur[m])'
    BY <1>1, <2>2 DEF Done, Past
  <2> QED BY <2>4, <2>5 DEF Lost
<1> QED BY <1>3, <1>4

LEMMA FilesKeptKept ==
  ASSUME LifeInv, EndsInv, Prompt, ~CanDie, [Next]_vars
  PROVE  FilesKept'
<1>t. /\ mpc \in [Monitor -> MonPc] /\ pc \in [Cli -> CliPc]
      /\ bootId \in Nat
  BY LockAssumption DEF LifeInv, TypeOK, LockTypeOK
<1> DEFINE Left == pidfile # 0 \/ mountRec
           Tended == (\E m \in Monitor : Busy(m)) \/ (\E c \in Cli : Keeps(c)) \/ Lost
<1> SUFFICES ASSUME Smooth', Left' PROVE Tended'
  BY DEF FilesKept
<1>s. Smooth
  BY SmoothBefore DEF LifeInv
<1>h. Left => Tended
  BY <1>s DEF EndsInv, FilesKept
<1>i. EndsInv
  OBVIOUS
<1> HIDE DEF Left
<1>l. ASSUME Lost PROVE Tended'
  BY <1>l, LostStays
<1>1. ASSUME NEW c \in Cli, CliNext(c) PROVE Tended'
  <2>1. CASE Keeps(c)
    <3>1. CASE Done(c)'
      <4>1. CASE CliUnlink(c)
        BY <4>1 DEF CliUnlink, CleanUnlink, Left
      <4>2. CASE \E m \in Monitor : Busy(m)'
        BY <4>2
      <4> QED BY <1>1, <1>i, <2>1, <3>1, <4>1, <4>2, DoneLeaves DEF EndsInv
    <3> QED BY <2>1, <3>1, KeepersStay
  <2>2. CASE ~Keeps(c)
    <3>1. Done(c) /\ UNCHANGED <<fileVars, monVars>>
      BY <1>1, <2>2, CliMoves DEF LifeInv
    <3>2. Left
      BY <3>1 DEF Left, fileVars
    <3>3. CASE \E m \in Monitor : Busy(m)
      BY <3>1, <3>3 DEF Busy, monVars
    <3>4. CASE \E p \in Cli : Keeps(p)
      <4>1. PICK p \in Cli : Keeps(p)
        BY <3>4
      <4>2. p # c
        BY <2>2, <4>1
      <4> QED BY <1>1, <4>1, <4>2, OthersKeep DEF LifeInv, Keeps, Done
    <3> QED BY <1>h, <1>l, <3>2, <3>3, <3>4
  <2> QED BY <2>1, <2>2
<1>2. ASSUME NEW c \in Cli, Begin(c) \/ CliDies(c) PROVE Tended'
  <2>1. Left /\ UNCHANGED mpc
    BY <1>2 DEF Begin, CliDies, Left, fileVars, monVars
  <2>2. CASE \E m \in Monitor : Busy(m)
    BY <2>1, <2>2 DEF Busy
  <2>3. CASE \E p \in Cli : Keeps(p)
    <3>1. PICK p \in Cli : Keeps(p)
      BY <2>3
    <3>2. CASE p # c
      BY <1>2, <1>t, <3>1, <3>2 DEF Begin, CliDies, Die, AcquireBegin, Step, Keeps, Done,
         lockVars, LifeInv, TypeOK, LockTypeOK
    <3>3. CASE p = c
      BY <1>2, <3>1, <3>3 DEF Begin, CliDies, Keeps, Done
    <3> QED BY <3>2, <3>3
  <2> QED BY <1>h, <1>l, <2>1, <2>2, <2>3
<1>3. ASSUME NEW m \in Monitor, MonitorNext(m) PROVE Tended'
  <2>1. Busy(m) /\ mpc' \in [Monitor -> MonPc]
    BY <1>3, <1>t, MonitorEnds DEF LifeInv, MonitorNext, MonitorPre, MonitorFork,
       MonitorReport, MidReap, MonitorWatch, MonitorLockStep, MonitorDecide,
       MonitorReload, MonitorClean, MStep, MonPc, monVars
  <2>2. CASE Busy(m)'
    BY <2>2
  <2>3. CASE mpc'[m] = "yielded"
    <3>1. MonitorDecide(m)
      BY <1>3, <1>t, <2>1, <2>3 DEF Busy, MonitorNext, MonitorPre, MonitorFork,
         MonitorReport, MidReap, MonitorWatch, MonitorLockStep, MonitorReload,
         MonitorClean, MStep, monVars
    <3> QED BY <1>i, <1>s, <2>3, <3>1, YieldLeaves DEF EndsInv
  <2>4. CASE mpc'[m] = "gone"
    <3>1. pidfile' = 0 /\ ~mountRec'
      BY <1>3, <1>t, <2>1, <2>4 DEF Busy, MonitorNext, MonitorPre, MonitorFork,
         MonitorReport, MidReap, MonitorWatch, MonitorLockStep, MonitorDecide,
         MonitorReload, MonitorClean, CleanUnlink, MStep, monVars
    <3> QED BY <3>1 DEF Left
  <2>5. CASE mpc'[m] \in {"none", "crashed"}
    BY <1>3, <1>t, <2>1, <2>5 DEF Smooth, Busy, MonitorNext, MonitorPre, MonitorFork,
       MonitorReport, MidReap, MonitorWatch, MonitorLockStep, MonitorDecide,
       MonitorReload, MonitorClean, MStep, monVars
  <2> QED BY <2>2, <2>3, <2>4, <2>5 DEF Busy
<1>4. ASSUME NEW i \in InitPid, InitNext(i) \/ InitExit(i) PROVE Tended'
  <2>1. Living(i) \/ init[i] = "up"
    BY <1>4 DEF InitNext, InitGuard, InitBoot, InitExit, Living
  <2>2. by[i] \in Monitor /\ Busy(by[i])
    BY <2>1 DEF LifeInv, Parents, Living, Busy
  <2>3. UNCHANGED mpc
    BY <1>4, InitLeaves DEF monVars
  <2> QED BY <2>2, <2>3 DEF Busy
<1>5. CASE HostReboots
  BY <1>5, <1>t DEF HostReboots, HostReboot, Smooth
<1>6. CASE UNCHANGED vars
  <2>1. Left /\ UNCHANGED <<mpc, pc, alive>>
    BY <1>6 DEF vars, Left, fileVars, lockVars, cliVars, monVars
  <2> QED BY <1>h, <1>l, <2>1 DEF Busy, Keeps, Done
<1> QED
  BY <1>1, <1>2, <1>3, <1>4, <1>5, <1>6 DEF Next

LEMMA MountsKeptKept ==
  ASSUME LifeInv, EndsInv, Prompt, ~CanDie, [Next]_vars
  PROVE  MountsKept'
<1>t. /\ mpc \in [Monitor -> MonPc] /\ pc \in [Cli -> CliPc]
      /\ bootId \in Nat /\ mounted \in BOOLEAN
      /\ alive \in [Cli -> BOOLEAN]
      /\ phase \in [Cli -> {"stop", "start"}]
  BY LockAssumption DEF LifeInv, TypeOK, LockTypeOK
<1> DEFINE Ending(c) == pc[c] = "unlink" /\ phase[c] = "stop"
           Tended == \/ \E m \in Monitor : Busy(m) /\ mpc[m] # "unlink"
                     \/ \E c \in Cli : Keeps(c) /\ ~Ending(c)
                     \/ Lost \/ unsaved
<1> SUFFICES ASSUME Smooth', mounted' PROVE Tended'
  BY DEF MountsKept
<1>s. Smooth
  BY SmoothBefore DEF LifeInv
<1>h. mounted => Tended
  BY <1>s DEF EndsInv, MountsKept
<1>i. EndsInv
  OBVIOUS
<1>l. ASSUME Lost PROVE Tended'
  BY <1>l, LostStays
<1>1. ASSUME NEW c \in Cli, CliNext(c) PROVE Tended'
  <2>0. alive[c] /\ alive' = alive
    BY <1>1, OthersKeep DEF LifeInv
  <2>1. CASE Keeps(c)
    <3>0. \A p \in Cli : Keeps(p) => p = c
      BY <2>0, <2>1 DEF Keeps, Done, LifeInv, OneCommand, Engaged, Active
    <3>1. CASE Done(c)'
      <4>1. CASE CliUnlink(c) /\ phase[c] = "stop" /\ Still
        <5>1. mounted /\ Ending(c)
          BY <4>1 DEF CliUnlink, CleanUnlink
        <5>2. ~Lost
          BY <2>1 DEF Lost
        <5>3. unsaved' = unsaved
          BY <4>1 DEF CliUnlink, CleanUnlink
        <5> QED BY <1>h, <3>0, <4>1, <5>1, <5>2, <5>3 DEF Still
      <4>2. CASE \E m \in Monitor : Busy(m)' /\ mpc'[m] # "unlink"
        BY <4>2
      <4> QED BY <1>1, <1>i, <2>1, <3>1, <4>1, <4>2, DoneLeaves DEF EndsInv
    <3>2. CASE Ending(c)'
      <4>1. CASE CliUnmount(c)
        <5>1. phase[c] = "stop"
          BY <3>2, <4>1 DEF CliUnmount
        <5>2. mounted /\ Img
          BY <1>i, <1>t, <4>1 DEF CliUnmount, CleanUnmount, EndsInv, MountKnown
        <5>3. knowsMount[c] \/ unsaved
          BY <1>i, <2>0, <4>1, <5>1, <5>2 DEF CliUnmount, EndsInv, MountKnown, Tidying
        <5> QED BY <4>1, <5>3 DEF CliUnmount, CleanUnmount
      <4>2. CASE LockStep(c)
        <5>1. Ending(c) /\ lk[c] # "held"
          BY <3>2, <4>2 DEF LockStep, AcquireStep, ReleaseStep, AcquireAccess,
             AcquireRead, AcquireKill, AcquireUnlink, AcquireWrite, ReleaseRead,
             ReleaseUnlink, cliVars
        <5> QED BY <2>0, <5>1 DEF LifeInv, Place, LockAt, Tidying
      <4>3. CASE \/ RestartCheck(c) \/ StopAcquired(c) \/ StopRunning(c)
                 \/ StopSignal(c) \/ StopWait(c) \/ StopKill(c) \/ CliPrune(c)
                 \/ CliUnlink(c) \/ RestartReload(c)
        <5>1. pc'[c] # "unlink"
          BY <1>t, <4>3 DEF RestartCheck, StopAcquired, StopRunning, StopSignal,
             StopWait, StopKill, CliPrune, CliUnlink, RestartReload, Step
        <5> QED BY <3>2, <5>1
      <4>4. CASE \/ StartHandoff(c) \/ StartHanded(c) \/ StartReleased(c)
                 \/ StartUnique(c) \/ StartMount(c) \/ StartInitBinary(c)
                 \/ StartUuid(c) \/ StartFork(c)
        <5>1. pc'[c] # "unlink"
          BY <1>t, <4>4 DEF StartHandoff, StartHanded, StartReleased, StartUnique,
             StartMount, StartInitBinary, StartUuid, StartFork, Step
        <5> QED BY <3>2, <5>1
      <4>5. CASE \/ StartAwait(c) \/ StartEofReleased(c) \/ StartPidfile(c)
                 \/ StartSidecar(c) \/ StartPoll(c) \/ StartConsole(c)
                 \/ Released(c)
        <5>1. pc'[c] # "unlink"
          BY <1>t, <4>5 DEF StartAwait, StartEofReleased, StartPidfile,
             StartSidecar, StartPoll, StartConsole, Released, Step
        <5> QED BY <3>2, <5>1
      <4> QED BY <1>1, <4>1, <4>2, <4>3, <4>4, <4>5 DEF CliNext
    <3> QED BY <2>1, <3>1, <3>2, KeepersStay
  <2>2. CASE ~Keeps(c)
    <3>1. Done(c) /\ UNCHANGED <<fileVars, monVars>>
      BY <1>1, <2>2, CliMoves DEF LifeInv
    <3>2. mounted
      BY <3>1 DEF fileVars
    <3>3. CASE \E m \in Monitor : Busy(m) /\ mpc[m] # "unlink"
      BY <3>1, <3>3 DEF Busy, monVars
    <3>4. CASE \E p \in Cli : Keeps(p) /\ ~Ending(p)
      <4>1. PICK p \in Cli : Keeps(p) /\ ~Ending(p)
        BY <3>4
      <4>2. p # c
        BY <2>2, <4>1
      <4>3. pc'[p] = pc[p] /\ phase'[p] = phase[p]
        BY <1>1, <4>2, OthersKeep, TargetStays DEF LifeInv
      <4> QED BY <2>0, <4>1, <4>3 DEF Keeps, Done
    <3>5. unsaved => unsaved'
      BY <3>1 DEF fileVars
    <3> QED BY <1>h, <1>l, <3>2, <3>3, <3>4, <3>5
  <2> QED BY <2>1, <2>2
<1>2. ASSUME NEW c \in Cli, Begin(c) \/ CliDies(c) PROVE Tended'
  <2>1. mounted /\ UNCHANGED <<mpc, unsaved>>
    BY <1>2 DEF Begin, CliDies, fileVars, monVars
  <2>2. CASE \E m \in Monitor : Busy(m) /\ mpc[m] # "unlink"
    BY <2>1, <2>2 DEF Busy
  <2>3. CASE \E p \in Cli : Keeps(p) /\ ~Ending(p)
    <3>1. PICK p \in Cli : Keeps(p) /\ ~Ending(p)
      BY <2>3
    <3>2. CASE p # c
      <4>1. Keeps(p)'
        <5>1. alive'[p] = alive[p] /\ pc'[p] = pc[p]
          BY <1>2, <1>t, <3>2 DEF Begin, CliDies, Die, AcquireBegin, Step, lockVars
        <5> QED BY <3>1, <5>1 DEF Keeps, Done
      <4>2. pc'[p] = pc[p] /\ phase'[p] = phase[p]
        BY <1>2, <1>t, <3>2 DEF Begin, CliDies, Step
      <4> QED BY <3>1, <4>1, <4>2
    <3>3. CASE p = c
      BY <1>2, <3>1, <3>3 DEF Begin, CliDies, Keeps, Done
    <3> QED BY <3>2, <3>3
  <2> QED BY <1>h, <1>l, <2>1, <2>2, <2>3
<1>3. ASSUME NEW m \in Monitor, MonitorNext(m) PROVE Tended'
  <2>1. Busy(m) /\ mpc' \in [Monitor -> MonPc]
    BY <1>3, <1>t, MonitorEnds DEF LifeInv, MonitorNext, MonitorPre, MonitorFork,
       MonitorReport, MidReap, MonitorWatch, MonitorLockStep, MonitorDecide,
       MonitorReload, MonitorClean, MStep, MonPc, monVars
  <2>2. CASE Busy(m)' /\ mpc'[m] # "unlink"
    BY <2>2
  <2>3. CASE mpc'[m] = "yielded"
    <3>1. MonitorDecide(m)
      BY <1>3, <1>t, <2>1, <2>3 DEF Busy, MonitorNext, MonitorPre, MonitorFork,
         MonitorReport, MidReap, MonitorWatch, MonitorLockStep, MonitorReload,
         MonitorClean, MStep, monVars
    <3> QED BY <1>i, <1>s, <2>3, <3>1, YieldLeaves DEF EndsInv
  <2>4. CASE mpc'[m] \in {"unlink", "gone"}
    <3>0. MonitorClean(m)
      <4>1. MonitorLockStep(m) => mpc[m] = "check" /\ UNCHANGED mpc
        BY DEF MonitorLockStep, CheckStep, CheckAccess, CheckRead, CheckKill,
           CheckUnlink, LifeInv, Monitors, MonitorAt, monVars
      <4> QED BY <1>3, <1>t, <2>1, <2>4, <4>1 DEF Busy, MonitorNext, MonitorPre,
         MonitorFork, MonitorReport, MidReap, MonitorWatch, MonitorDecide,
         MonitorReload, MStep
    <3>1. CASE mpc[m] = "unlink"
      <4>1. mounted /\ UNCHANGED <<pc, alive, phase>>
        BY <1>3, <3>0, <3>1, MonitorLeaves DEF MonitorClean, CleanUnlink, cliVars
      <4>2. \A n \in Monitor : Busy(n) => mpc[n] = "unlink"
        BY <2>1, <3>1 DEF LifeInv, OneMonitor
      <4>3. ~Lost
        BY <2>1 DEF Lost, Still
      <4>4. CASE unsaved
        BY <3>0, <3>1, <4>4 DEF MonitorClean, CleanUnlink
      <4>5. CASE ~unsaved
        <5>1. PICK c \in Cli : Keeps(c) /\ ~Ending(c)
          BY <1>h, <4>1, <4>2, <4>3, <4>5
        <5> QED BY <4>1, <5>1 DEF Keeps, Done
      <4> QED BY <4>4, <4>5
    <3>2. CASE mpc[m] # "unlink"
      <4>1. mpc[m] = "unmount"
        BY <1>t, <2>4, <3>0, <3>2 DEF MonitorClean, MStep
      <4>2. mounted /\ ~mknows[m]
        BY <1>t, <3>0, <4>1 DEF MonitorClean, CleanUnmount
      <4> QED BY <1>i, <2>1, <4>2 DEF EndsInv, MountKnown
    <3> QED BY <3>1, <3>2
  <2>5. CASE mpc'[m] \in {"none", "crashed"}
    BY <1>3, <1>t, <2>1, <2>5 DEF Smooth, Busy, MonitorNext, MonitorPre, MonitorFork,
       MonitorReport, MidReap, MonitorWatch, MonitorLockStep, MonitorDecide,
       MonitorReload, MonitorClean, MStep, monVars
  <2> QED BY <2>2, <2>3, <2>4, <2>5 DEF Busy
<1>4. ASSUME NEW i \in InitPid, InitNext(i) \/ InitExit(i) PROVE Tended'
  <2>1. Living(i)
    BY <1>4 DEF InitNext, InitGuard, InitBoot, InitExit, Living
  <2>2. by[i] \in Monitor /\ Busy(by[i]) /\ mpc[by[i]] # "unlink"
    BY <2>1 DEF LifeInv, Parents, Living, Busy
  <2>3. UNCHANGED mpc
    BY <1>4, InitLeaves DEF monVars
  <2> QED BY <2>2, <2>3 DEF Busy
<1>5. CASE HostReboots
  BY <1>5, <1>t DEF HostReboots, HostReboot, Smooth
<1>6. CASE UNCHANGED vars
  <2>1. mounted /\ UNCHANGED <<mpc, pc, alive, phase, unsaved>>
    BY <1>6 DEF vars, fileVars, lockVars, cliVars, monVars
  <2> QED BY <1>h, <1>l, <2>1 DEF Busy, Keeps, Done
<1> QED
  BY <1>1, <1>2, <1>3, <1>4, <1>5, <1>6 DEF Next

(***************************************************************************)
(* The inductive invariant behind NothingLeft: files and mount never lose  *)
(* their keeper while nothing fails.                                       *)
(***************************************************************************)
THEOREM EndsInvariant ==
  ASSUME Serial, Prompt, ~CanDie
  PROVE  Spec => []EndsInv
<1>1. Init => EndsInv
  <2> SUFFICES ASSUME Init PROVE EndsInv
    OBVIOUS
  <2> DEFINE m0 == CHOOSE m \in Monitor : TRUE
  <2>0. /\ MaxInit \in Nat \ {0} /\ {Img, Preboot} \subseteq BOOLEAN
        /\ Preboot => m0 \in Monitor
    BY LifecycleAssumption
  <2>1. /\ \A c \in Cli : pc[c] = "idle" /\ target[c] = 0
        /\ \A i \in InitPid : init[i] = IF Preboot /\ i = 1 THEN "up" ELSE "none"
        /\ \A m \in Monitor :
             /\ mpc[m] = IF Preboot /\ m = m0 THEN "watch" ELSE "none"
             /\ sent[m] = IF Preboot /\ m = m0 THEN 1 ELSE 0
             /\ mknows[m] = (Preboot /\ m = m0 /\ Img)
             /\ mk[m] = "idle"
        /\ mounted = (Preboot /\ Img) /\ mountRec = (Preboot /\ Img)
        /\ pidfile = IF Preboot THEN 1 ELSE 0
    BY DEF Init, LockInit
  <2>2. InOrder
    BY <2>0, <2>1 DEF InOrder, InitPid
  <2>3. Newest /\ Recording /\ GivesBack
    BY <2>1 DEF Newest, Recording, GivesBack, GivingBack, Done
  <2>4. MountKnown
    BY <2>0, <2>1 DEF MountKnown, Busy, Stopping, Tidying
  <2>5. SeenLock
    BY <2>1 DEF SeenLock
  <2>6. Preboot => Busy(m0) /\ mpc[m0] # "unlink" /\ m0 \in Monitor
    BY <2>0, <2>1 DEF Busy
  <2>7. FilesKept /\ MountsKept
    BY <2>0, <2>1, <2>6 DEF FilesKept, MountsKept
  <2> QED BY <2>2, <2>3, <2>4, <2>5, <2>7 DEF EndsInv
<1>2. LifeInv /\ LifeInv' /\ EndsInv /\ [Next]_vars => EndsInv'
  <2> SUFFICES ASSUME LifeInv, TypeOK', EndsInv, [Next]_vars PROVE EndsInv'
    BY DEF LifeInv
  <2>1. InOrder' /\ Newest' /\ Recording' /\ GivesBack'
    BY InOrderKept, NewestKept, RecordingKept, GivesBackKept DEF EndsInv
  <2>2. MountKnown' /\ SeenLock'
    BY MountKnownKept, SeenLockKept DEF EndsInv
  <2>3. FilesKept' /\ MountsKept'
    BY FilesKeptKept, MountsKeptKept
  <2> QED BY <2>1, <2>2, <2>3 DEF EndsInv
<1> QED BY <1>1, <1>2, LifeInvariant, PTL DEF Spec

(***************************************************************************)
(* A name has one container: at most one init runs, and when no command is *)
(* at work the pidfile or the UUID scan of is_container_running finds it   *)
(* and its image is mounted and recorded for the next stop, or its sidecar *)
(* could not be written and its monitor still knows the mount.             *)
(***************************************************************************)
THEOREM OneTrackedContainer ==
  ASSUME Serial, Prompt, ~CanDie
  PROVE  Spec => []LifecycleInv
<1>1. LifeInv /\ EndsInv => LifecycleInv
  <2> SUFFICES ASSUME LifeInv, EndsInv PROVE OneContainer /\ Tracked
    BY DEF LifecycleInv, LifeInv
  <2>1. \A i, j \in Up : i = j
    BY OneLiving DEF LifeInv, Up, Living
  <2>2. OneContainer
    <3>1. CASE Up = {}
      BY <3>1, FS_EmptySet DEF OneContainer
    <3>2. CASE Up # {}
      <4>1. PICK i \in Up : Up = {i}
        BY <2>1, <3>2
      <4>2. Cardinality(Up) = 1
        BY <4>1, FS_Singleton
      <4> QED BY <4>2 DEF OneContainer
    <3> QED BY <3>1, <3>2
  <2>3. ASSUME Quiet, NEW i \in Up
        PROVE  /\ RunningPid(cfgUuid) = i
               /\ Img => mounted /\ (mountRec \/ (unsaved /\ mknows[by[i]]))
    <3>1. /\ i \in InitPid /\ init[i] = "up" /\ by[i] \in Monitor /\ cur[by[i]] = i
          /\ mpc[by[i]] \in {"report", "watch"} /\ mexit[by[i]] = "run"
      BY DEF Up, LifeInv, Parents, Living
    <3>2. Busy(by[i]) /\ Bootable(by[i]) /\ muuid[by[i]] = cfgUuid
      BY <3>1 DEF Busy, Bootable, Cleaning, LifeInv, UuidsAgree
    <3>3. RunningPid(cfgUuid) \in Up
      BY <3>1, <3>2, RunningIs DEF LifeInv, Up
    <3>4. \A c \in Cli : ~(alive[c] /\ pc[c] \in {"await", "pid", "sidecar"})
      BY <2>3 DEF Quiet, Active
    <3>5. Img => mounted /\ (mountRec \/ unsaved) /\ mknows[by[i]]
      BY <3>1, <3>2, <3>4 DEF LifeInv, MountsHeld, EndsInv, MountKnown
    <3> QED BY <2>1, <3>3, <3>5
  <2> QED BY <2>2, <2>3 DEF Tracked
<1> QED BY <1>1, LifeInvariant, EndsInvariant, PTL

(***************************************************************************)
(* When every command has succeeded, nothing runs and every monitor that   *)
(* left the cleanup to a command was taken over, the pidfile, the sidecar  *)
(* and the mount are gone; a mount that no sidecar records may stay.       *)
(***************************************************************************)
THEOREM EndsClean ==
  ASSUME Serial, Prompt, ~CanDie
  PROVE  Spec => []NothingLeft
<1>1. LifeInv /\ EndsInv => NothingLeft
  <2> SUFFICES ASSUME LifeInv, EndsInv, bootId = 0, Quiet, Up = {},
                      \A c \in Cli : pc[c] \in {"idle", "ok"},
                      \A m \in Monitor : mpc[m] # "crashed",
                      \A m \in Monitor : mpc[m] = "yielded" => TakenOver(m)
               PROVE  pidfile = 0 /\ ~mountRec /\ (mounted => unsaved)
    BY DEF NothingLeft
  <2>1. Smooth /\ \A c \in Cli : ~Keeps(c)
    BY DEF Smooth, Keeps, Done
  <2>2. Still
    <3>1. ASSUME NEW m \in Monitor, Busy(m) PROVE FALSE
      <4>1. mpc[m] = "watch" /\ mexit[m] = "run" /\ init[cur[m]] = "up"
        BY <3>1 DEF Quiet, Busy
      <4> QED BY <4>1 DEF LifeInv, Parents, Up
    <3> QED BY <3>1 DEF Still
  <2>3. ~Lost
    <3>1. ASSUME NEW m \in Monitor, mpc[m] = "yielded",
                 \A c \in Cli : Done(c) => Past(c, cur[m])
          PROVE  FALSE
      <4>1. PICK c \in Cli : /\ pc[c] = "ok"
                             /\ \/ target[c] = cur[m] /\ cmd[c] = "stop"
                                \/ target[c] > cur[m]
        BY <3>1 DEF TakenOver
      <4>2. target[c] < cur[m] \/ (target[c] = cur[m] /\ cmd[c] # "stop")
        BY <3>1, <4>1 DEF Done, Past
      <4>3. target[c] \in 0..MaxInit /\ cur[m] \in 0..MaxInit /\ MaxInit \in Nat
        BY LifecycleAssumption DEF LifeInv, TypeOK
      <4> QED BY <4>1, <4>2, <4>3
    <3> QED BY <3>1 DEF Lost
  <2> QED BY <2>1, <2>2, <2>3 DEF EndsInv, FilesKept, MountsKept, Still
<1> QED BY <1>1, LifeInvariant, EndsInvariant, PTL
=============================================================================
