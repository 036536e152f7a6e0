----------------------------- MODULE LockHistory ----------------------------
(***************************************************************************)
(* ExternalLock with a history variable: has a command of this boot        *)
(* written its stamp while another process was between reading the file    *)
(* and acting on what it read?  acquire_external_lock and the monitor's    *)
(* is_external_lock_active look and act in separate system calls           *)
(* (container.c:62-86, 146-163), so that this can happen at any time.      *)
(***************************************************************************)
EXTENDS ExternalLock

VARIABLE raced

historyVars == <<lockVars, raced>>

(* The process acts, without another look, on a file that it has read. *)
CliDecides(c)     == lk[c] \in {"kill", "unlink", "write"}
MonitorDecides(m) == mk[m] \in {"mkill", "munlink"}

(* Command c takes the lock, and somebody else decides meanwhile. *)
Races(c) ==
  /\ lk[c] = "write" /\ lk'[c] = "held"
  /\ \/ \E p \in Cli \ {c} : CliDecides(p)
     \/ \E m \in Monitor : MonitorDecides(m)

Remember == raced' = (bootId' = bootId /\ (raced \/ \E c \in Cli : Races(c)))

HistoryInit == LockInit /\ raced = FALSE
HistoryNext == LockNext /\ Remember
HistorySpec == HistoryInit /\ [][HistoryNext]_historyVars

(* The fairness of LockFairSpec. *)
HistoryFairSpec ==
  /\ HistorySpec
  /\ \A c \in Cli : WF_historyVars(CliStep(c) /\ Remember)
  /\ \A m \in Monitor : WF_historyVars(MonitorStep(m) /\ Remember)

-----------------------------------------------------------------------------
(* A command that believes it owns the lock. *)
Holding(c) == alive[c] /\ lk[c] \in {"held"} \cup Releasing

(***************************************************************************)
(* acquire_external_lock "Returns: 0 on success, -1 if lock already held   *)
(* by a live process" (container.c:54-55).  Two live commands both hold    *)
(* the lock only if a stamp was written while another command, or a        *)
(* monitor that removes a stale lock, was between its look at the file and *)
(* the unlink or write that follows from it: kills, reboots of the host,   *)
(* releases, failed writes and locks taken again by a restart never lead   *)
(* to it, and neither do looks that cross without a write.                 *)
(***************************************************************************)
LockExclusion ==
  ~raced => \A c, p \in Cli : Holding(c) /\ Holding(p) => c = p
=============================================================================
