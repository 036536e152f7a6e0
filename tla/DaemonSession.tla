---------------------------- MODULE DaemonSession ---------------------------
(***************************************************************************)
(* One connection to the command daemon, daemon.c, from accept to the exit *)
(* code: the daemon's loop, the session handler it forks, the child that   *)
(* runs the command, and the client that waits for output and exit code.   *)
(*                                                                         *)
(* A command may leave a descendant behind that holds copies of its output *)
(* descriptors (start leaves a monitor); the end of a session must not     *)
(* wait for that one.  The handler learns of its child's exit through a    *)
(* SIGCHLD that it blocks, and reads from a signalfd, only after the fork. *)
(* epoll_wait reports a batch of ready descriptors, served in any order.   *)
(***************************************************************************)
EXTENDS Naturals

CONSTANTS MaxOut,     \* bound: units of output the child prints per descriptor
          NoCode      \* no exit code yet

ASSUME SessionAssumption == MaxOut \in Nat /\ NoCode \notin Nat

VARIABLES
  mode,       \* "pty" or "pipe"
  nohup,      \* the daemon runs in the background and so ignores SIGHUP
  h,          \* where the handler is
  batch,      \* ready descriptors still to be served
  open,       \* the output descriptors the handler still reads
  done,       \* child_done
  code,       \* exit_code
  watched,    \* a signalfd watches for SIGCHLD
  pending,    \* a SIGCHLD is pending
  child,      \* the child: "none", "run", "zombie", "reaped"
  writing,    \* the child has its output descriptors open
  status,     \* its exit status
  holder,     \* its descendant: "none", "open", "closed"
  printed,    \* what the child has printed on each descriptor
  pipe,       \* of that, what the handler has not read
  got,        \* of that, what was sent to the client
  killed,     \* the handler has signalled the child
  client,     \* "wait"; "dead"; "torn", dead in the middle of a frame the
              \* handler does not know; "left" or "back", returned
  verdict,    \* the MSG_EXIT sent to the client
  result      \* what the client returned

kind == <<mode, nohup>>
handlerVars == <<h, batch, open, done, code, watched>>
childVars   == <<child, writing, status, holder, printed>>
clientVars  == <<client, result>>
vars == <<kind, handlerVars, pending, childVars, pipe, got, killed, clientVars, verdict>>

Fds == {"master", "out", "err"}
Outputs == IF mode = "pty" THEN {"master"} ELSE {"out", "err"}
Codes == {0, 1}

(* The client has closed its end of the connection. *)
Away == client \in {"dead", "torn", "left"}

(* Every variable stays within its type. *)
TypeOK ==
  /\ mode \in {"pty", "pipe"} /\ nohup \in BOOLEAN
  /\ h \in {"accept", "request", "fork", "mask", "wait", "batch", "reap", "killwait", "end",
            "abort", "gone"}
  /\ batch \subseteq Fds \cup {"sfd", "conn"} /\ open \subseteq Fds
  /\ done \in 0..2 /\ code \in Codes \cup {NoCode}
  /\ watched \in BOOLEAN /\ pending \in BOOLEAN /\ writing \in BOOLEAN
  /\ killed \in BOOLEAN
  /\ child \in {"none", "run", "zombie", "reaped"} /\ status \in Codes
  /\ holder \in {"none", "open", "closed"}
  /\ printed \in [Fds -> 0..MaxOut] /\ pipe \in [Fds -> 0..MaxOut]
  /\ got \in [Fds -> 0..MaxOut]
  /\ client \in {"wait", "dead", "torn", "left", "back"}
  /\ verdict \in Codes \cup {NoCode} /\ result \in Codes \cup {NoCode}

Init ==
  /\ mode \in {"pty", "pipe"} /\ nohup \in BOOLEAN
  /\ h = "accept" /\ batch = {} /\ open = {} /\ done = 0 /\ code = NoCode
  /\ watched = FALSE /\ pending = FALSE /\ killed = FALSE
  /\ child = "none" /\ writing = FALSE /\ status = 0 /\ holder = "none"
  /\ printed = [f \in Fds |-> 0] /\ pipe = [f \in Fds |-> 0] /\ got = [f \in Fds |-> 0]
  /\ client = "wait" /\ verdict = NoCode /\ result = NoCode

(* Somebody can still write to the output descriptors. *)
Writers == writing \/ holder = "open"

(* send_exit: only a client that is still there takes notice. *)
SendExit(v) == verdict' = (IF client = "wait" THEN v ELSE verdict)

-----------------------------------------------------------------------------
(***************************************************************************)
(* The daemon and the start of a session.                                  *)
(***************************************************************************)

(* The peer is authorised and a handler forked; or it is refused with exit *)
(* code 1; or fork fails and the connection is closed without a word.      *)
Accept ==
  /\ h = "accept"
  /\ \/ h' = "request" /\ UNCHANGED verdict
     \/ h' = "gone" /\ SendExit(1)
     \/ h' = "gone" /\ UNCHANGED verdict
  /\ UNCHANGED <<kind, batch, open, done, code, watched, pending, childVars, pipe, got,
                 killed, clientVars>>

(* handle_conn: a malformed request and a recursive call of the daemon get *)
(* exit code 1.                                                            *)
Request ==
  /\ h = "request"
  /\ \/ h' = "fork" /\ UNCHANGED verdict
     \/ h' = "gone" /\ SendExit(1)
  /\ UNCHANGED <<kind, batch, open, done, code, watched, pending, childVars, pipe, got,
                 killed, clientVars>>

(* The terminal or the pipes, and the child that runs the command on them; *)
(* if any of it cannot be had, exit code 1.                                *)
Fork ==
  /\ h = "fork"
  /\ \/ /\ h' = "mask" /\ child' = "run" /\ writing' = TRUE /\ open' = Outputs
        /\ UNCHANGED verdict
     \/ h' = "gone" /\ SendExit(1) /\ UNCHANGED <<child, writing, open>>
  /\ UNCHANGED <<kind, batch, done, code, watched, pending, status, holder, printed,
                 pipe, got, killed, clientVars>>

(* SIGCHLD is blocked and goes to a signalfd, if there is one.  Until here *)
(* its default action discards it.  Without an epoll descriptor the child  *)
(* is killed.                                                              *)
Mask ==
  /\ h = "mask"
  /\ \/ h' = "wait" /\ watched' \in BOOLEAN /\ UNCHANGED killed
     \/ h' = "abort" /\ killed' = TRUE /\ UNCHANGED watched
  /\ UNCHANGED <<kind, batch, open, done, code, pending, childVars, pipe, got, clientVars,
                 verdict>>

(* waitpid of a child killed for want of an epoll descriptor. *)
Abort ==
  /\ h = "abort" /\ child = "zombie"
  /\ child' = "reaped" /\ h' = "gone" /\ SendExit(1)
  /\ UNCHANGED <<kind, batch, open, done, code, watched, pending, writing, status, holder,
                 printed, pipe, got, killed, clientVars>>

-----------------------------------------------------------------------------
(***************************************************************************)
(* The event loop of handle_session.                                       *)
(***************************************************************************)
Ready_NoSignal == {f \in open : pipe[f] > 0 \/ ~Writers}
                    \cup (IF Away THEN {"conn"} ELSE {})

Ready == {f \in open : pipe[f] > 0 \/ ~Writers}
           \cup (IF pending THEN {"sfd"} ELSE {})
           \cup (IF Away THEN {"conn"} ELSE {})

EpollWait ==
  /\ h = "wait" /\ Ready # {}
  /\ batch' = Ready /\ h' = "batch"
  /\ UNCHANGED <<kind, open, done, code, watched, pending, childVars, pipe, got, killed,
                 clientVars, verdict>>

(* The signalfd: reap the child unless the loop is already done with it. *)
OnSignal ==
  /\ h = "batch" /\ "sfd" \in batch
  /\ batch' = batch \ {"sfd"} /\ pending' = FALSE
  /\ IF done = 0 /\ child = "zombie"
       THEN /\ code' = status /\ child' = "reaped"
            /\ done' = (IF mode = "pty" THEN 2 ELSE 1)
       ELSE UNCHANGED <<code, child, done>>
  /\ UNCHANGED <<kind, h, open, watched, writing, status, holder, printed, pipe, got,
                 killed, clientVars, verdict>>

(* The client is gone: signal the child, SIGHUP on a terminal and SIGTERM  *)
(* otherwise, wait for it, leave the loop.                                 *)
KillChild == h' = "killwait" /\ killed' = TRUE

(* A hang-up, or a frame header that does not come.  When the header came  *)
(* and announces a frame of unknown type or size, what is read to skip it  *)
(* comes to an end, and the loop is left without a signal and a wait.      *)
OnHangup ==
  /\ h = "batch" /\ "conn" \in batch
  /\ batch' = {}
  /\ KillChild \/ (client = "torn" /\ h' = "end" /\ UNCHANGED killed)
  /\ UNCHANGED <<kind, open, done, code, watched, pending, childVars, pipe, got,
                 clientVars, verdict>>

KillWait_NotWaited ==
  /\ h = "killwait" /\ h' = "end"
  /\ UNCHANGED <<kind, batch, open, done, code, watched, pending, childVars, pipe, got,
                 killed, clientVars, verdict>>

KillWait ==
  /\ h = "killwait" /\ child \in {"zombie", "reaped"}
  /\ child' = "reaped" /\ h' = "end"
  /\ UNCHANGED <<kind, batch, open, done, code, watched, pending, writing, status, holder,
                 printed, pipe, got, killed, clientVars, verdict>>

(* An output descriptor: read and forward all there is; at end of file     *)
(* stop watching it, and with the last one the loop is done.               *)
OnOutput(f) ==
  /\ h = "batch" /\ f \in batch \cap Fds
  /\ IF pipe[f] > 0 /\ Away
       THEN batch' = {} /\ KillChild /\ UNCHANGED <<open, done, pipe, got>>
       ELSE /\ batch' = batch \ {f}
            /\ got' = [got EXCEPT ![f] = @ + pipe[f]] /\ pipe' = [pipe EXCEPT ![f] = 0]
            /\ open' = (IF Writers THEN open ELSE open \ {f})
            /\ done' = (IF open' = {} THEN 2 ELSE done)
            /\ UNCHANGED <<h, killed>>
  /\ UNCHANGED <<kind, code, watched, pending, childVars, clientVars, verdict>>

Drained_MasterOnly == IF mode = "pty" THEN open ELSE {}

(* drain_fd on what is still open: both pipes when the signal ended the    *)
(* loop, the master when anything did.                                     *)
Drained == IF done = 1 \/ mode = "pty" THEN open ELSE {}

BatchEnd ==
  /\ h = "batch" /\ batch = {}
  /\ IF done = 0
       THEN h' = "wait" /\ UNCHANGED <<pipe, got>>
       ELSE /\ h' = "reap"
            /\ got' = [f \in Fds |-> IF f \in Drained THEN got[f] + pipe[f] ELSE got[f]]
            /\ pipe' = [f \in Fds |-> IF f \in Drained THEN 0 ELSE pipe[f]]
  /\ UNCHANGED <<kind, batch, open, done, code, watched, pending, childVars, killed,
                 clientVars, verdict>>

(* After the loop: wait for the child unless the signalfd has reaped it. *)
Reap ==
  /\ h = "reap"
  /\ \/ code # NoCode /\ UNCHANGED <<code, child>>
     \/ code = NoCode /\ child = "zombie" /\ code' = status /\ child' = "reaped"
  /\ h' = "end"
  /\ UNCHANGED <<kind, batch, open, done, watched, pending, writing, status, holder,
                 printed, pipe, got, killed, clientVars, verdict>>

(* session_end: everything is closed and the exit code sent; handle_conn   *)
(* closes the connection and exits.                                        *)
SessionEnd ==
  /\ h = "end"
  /\ h' = "gone" /\ open' = {} /\ watched' = FALSE /\ pending' = FALSE
  /\ SendExit(IF code = NoCode THEN 0 ELSE code)
  /\ UNCHANGED <<kind, batch, done, code, childVars, pipe, got, killed, clientVars>>

-----------------------------------------------------------------------------
(***************************************************************************)
(* The child, its descendant, and the client.                              *)
(***************************************************************************)
Output(f) ==
  /\ child = "run" /\ writing /\ f \in Outputs /\ printed[f] < MaxOut
  /\ printed' = [printed EXCEPT ![f] = @ + 1] /\ pipe' = [pipe EXCEPT ![f] = @ + 1]
  /\ UNCHANGED <<kind, handlerVars, pending, child, writing, status, holder, got, killed,
                 clientVars, verdict>>

(* start forks its monitor, which inherits the descriptors. *)
Spawn ==
  /\ child = "run" /\ writing /\ holder = "none"
  /\ holder' = "open"
  /\ UNCHANGED <<kind, handlerVars, pending, child, writing, status, printed, pipe, got,
                 killed, clientVars, verdict>>

(* A monitor redirects its output, or exits.  Nothing says when. *)
Release ==
  /\ holder = "open" /\ holder' = "closed"
  /\ UNCHANGED <<kind, handlerVars, pending, child, writing, status, printed, pipe, got,
                 killed, clientVars, verdict>>

CloseOutput ==
  /\ child = "run" /\ writing /\ writing' = FALSE
  /\ UNCHANGED <<kind, handlerVars, pending, child, status, holder, printed, pipe, got,
                 killed, clientVars, verdict>>

(* The child exits, on its own or because of the signal. *)
Exit ==
  /\ child = "run"
  /\ child' = "zombie" /\ writing' = FALSE /\ status' \in Codes
  /\ pending' = (pending \/ watched)
  /\ UNCHANGED <<kind, handlerVars, holder, printed, pipe, got, killed, clientVars, verdict>>

(* Somebody stops or continues the child: a SIGCHLD, and no exit. *)
Stopped ==
  /\ child = "run" /\ watched /\ pending' = TRUE
  /\ UNCHANGED <<kind, handlerVars, childVars, pipe, got, killed, clientVars, verdict>>

(* The handler reads what the client sends in terminal mode only. *)
ClientDies ==
  /\ client = "wait"
  /\ client' \in {"dead"} \cup (IF mode = "pty" THEN {"torn"} ELSE {})
  /\ UNCHANGED <<kind, handlerVars, pending, childVars, pipe, got, killed, verdict, result>>

(* The client relays the exit code; when the connection closes without one *)
(* it returns the 0 that exit_code started with.                           *)
ClientReturn ==
  /\ client = "wait" /\ client' = "back"
  /\ \/ verdict # NoCode /\ result' = verdict
     \/ verdict = NoCode /\ h = "gone" /\ result' = 0
  /\ UNCHANGED <<kind, handlerVars, pending, childVars, pipe, got, killed, verdict>>

(* A client in raw terminal mode also returns, with that 0, when its input *)
(* ends, and when a key it sends finds the handler gone, even if MSG_EXIT  *)
(* is waiting to be read.                                                  *)
ClientLeaves ==
  /\ client = "wait" /\ mode = "pty"
  /\ client' = "left" /\ result' = 0
  /\ UNCHANGED <<kind, handlerVars, pending, childVars, pipe, got, killed, verdict>>

-----------------------------------------------------------------------------
HandlerNext ==
  \/ Accept \/ Request \/ Fork \/ Mask \/ Abort \/ EpollWait \/ OnSignal \/ OnHangup
  \/ KillWait \/ (\E f \in Fds : OnOutput(f)) \/ BatchEnd \/ Reap \/ SessionEnd

ChildNext == (\E f \in Fds : Output(f)) \/ Spawn \/ Release \/ CloseOutput \/ Stopped
             \/ Exit

Next == HandlerNext \/ ChildNext \/ ClientDies \/ ClientReturn \/ ClientLeaves

Spec == Init /\ [][Next]_vars

(* The child was sent a signal that ends it: SIGTERM, or a SIGHUP that it  *)
(* has not inherited as ignored.                                           *)
Doomed == killed /\ (mode = "pipe" \/ h = "abort" \/ ~nohup)

(* The handler and the client run, and a child that was sent a signal it   *)
(* does not ignore dies of it.  Any other may run for ever, and so may the *)
(* descendant.                                                             *)
FairSpec == /\ Spec /\ WF_vars(HandlerNext) /\ WF_vars(ClientReturn)
            /\ WF_vars(Doomed /\ Exit)

-----------------------------------------------------------------------------
(***************************************************************************)
(* A client that stays until the session ends returns its command's exit   *)
(* status, and only after the command has exited, whichever of the signal  *)
(* and the ends of file the handler sees first and in whatever order one   *)
(* batch brings them (daemon.c:486-497, 660-671, 691-695, 711).            *)
(***************************************************************************)
StatusRelayed ==
  client = "back" /\ child # "none" /\ ~killed => child = "reaped" /\ result = status

(***************************************************************************)
(* "a final non-blocking drain when the direct child exits"                *)
(* (daemon.c:19-21): everything the command printed has been sent before   *)
(* the exit code is, even while a descendant keeps the pipes open and even *)
(* if the child prints and exits while the handler serves an older SIGCHLD *)
(* in a batch that does not list the pipe.                                 *)
(***************************************************************************)
OutputBeforeStatus ==
  verdict # NoCode /\ child # "none" /\ ~killed => \A f \in Fds : got[f] = printed[f]

(***************************************************************************)
(* A handler never exits before its child: a client that dies or leaves    *)
(* takes its command with it (daemon.c:500-511, 642-646).  The one end of  *)
(* a session that does leave the child behind is a frame of unknown type   *)
(* or size that breaks off (daemon.c:579-586).                             *)
(***************************************************************************)
NoOrphan == h = "gone" /\ client # "torn" => child \in {"none", "reaped"}

(***************************************************************************)
(* "waiting for epollhup would block forever" (daemon.c:19-22): a session  *)
(* ends once the signalfd reports its command's exit, even if a descendant *)
(* holds the descriptors for ever; without a report (an exit before the    *)
(* mask, no signalfd) once nobody holds them; and when the client is gone, *)
(* once the signal it sends the child for that is one the child obeys, or  *)
(* the child exits anyway.                                                 *)
(***************************************************************************)
SessionEnds ==
  (child = "zombie" /\ (pending \/ ~Writers \/ killed)) \/ Doomed ~> h = "gone"

(***************************************************************************)
(* What the client is told is right and complete: the exit status is the   *)
(* command's own and follows all of its output.                            *)
(***************************************************************************)
RelayInv == TypeOK /\ StatusRelayed /\ OutputBeforeStatus
=============================================================================
