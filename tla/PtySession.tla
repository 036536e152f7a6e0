----------------------------- MODULE PtySession -----------------------------
(***************************************************************************)
(* An interactive (PTY) session of the command daemon, daemon.c: the bytes *)
(* between the user's terminal, the client (ds_client_run), the session    *)
(* handler the daemon forks (handle_session) and the child that runs on    *)
(* the slave side of the pseudo terminal.                                  *)
(*                                                                         *)
(*   user --typed--> client --up--> handler --wbuf--> tty --> child        *)
(*   user <--------- client <-down- handler <-------- out <-- child        *)
(*                                                                         *)
(* Bytes are counted, not told apart.  Both ends of the socket are         *)
(* blocking: a process inside send_frame does nothing else until its frame *)
(* fits.  The master is non-blocking, and what it does not take the        *)
(* handler queues in pty_wbuf, under a high and a low water mark.          *)
(***************************************************************************)
EXTENDS Naturals

CONSTANTS Frame,      \* DS_IOBUF, the longest frame the handler accepts
          WbufMax,    \* PTY_WBUF_MAX
          High, Low,  \* PTY_WBUF_HIGH, PTY_WBUF_LOW
          SockCap,    \* room of the socket, in each direction
          TtyCap,     \* room of the terminal, in each direction
          Typed,      \* bound: bytes the user types or pastes
          Talk,       \* bound: bytes the child prints
          NoMem       \* may realloc fail?

ASSUME PtyAssumption ==
  /\ Frame \in Nat /\ WbufMax \in Nat /\ High \in Nat /\ Low \in Nat
  /\ SockCap \in Nat /\ TtyCap \in Nat /\ Typed \in Nat /\ Talk \in Nat
  /\ 0 < Frame /\ 0 < Low /\ 0 < TtyCap
  /\ Low <= High /\ High + Frame <= WbufMax + 1 /\ Frame <= SockCap
  /\ NoMem \in BOOLEAN

VARIABLES
  typed,      \* bytes still to be typed
  cpend,      \* the frame the client is sending, 0 when it is in epoll_wait
  up,         \* bytes in the socket towards the handler
  down,       \* bytes in the socket towards the client
  wlen, wcap, \* pty_wbuf_len, pty_wbuf_cap
  master,     \* what the master is watched for: "in", or "inout" with EPOLLOUT
  conn,       \* "read", or "suspended": not watched for EPOLLIN
  hpend,      \* the frame the handler is sending, 0 when it is not
  tty,        \* bytes waiting for the child
  out,        \* bytes the child printed that the handler has not read
  talk,       \* bytes the child still has to print
  wpend,      \* bytes the child is printing, 0 when it is not
  eaten,      \* bytes the child has read
  lost,       \* bytes the handler dropped
  memory      \* "ok", "short" once realloc has failed

ptyClientVars == <<typed, cpend>>
ptyQueueVars  == <<wlen, wcap, master, conn, lost, memory>>
ptyChildVars  == <<talk, wpend, eaten>>
ptyVars == <<ptyClientVars, up, down, ptyQueueVars, hpend, tty, out, ptyChildVars>>

Least(a, b) == IF a <= b THEN a ELSE b

(* Every counter stays within the buffer it stands for. *)
PtyTypeOK ==
  /\ typed \in 0..Typed /\ cpend \in 0..Frame
  /\ up \in 0..SockCap /\ down \in 0..SockCap
  /\ wlen \in 0..WbufMax /\ wcap \in 0..WbufMax
  /\ master \in {"in", "inout"} /\ conn \in {"read", "suspended"}
  /\ memory \in {"ok", "short"}
  /\ hpend \in 0..Frame
  /\ tty \in 0..TtyCap /\ out \in 0..TtyCap
  /\ talk \in 0..Talk /\ wpend \in 0..Talk
  /\ eaten \in 0..Typed /\ lost \in 0..Typed

PtyInit ==
  /\ typed = Typed /\ cpend = 0 /\ up = 0 /\ down = 0
  /\ wlen = 0 /\ wcap = 0 /\ master = "in" /\ conn = "read"
  /\ lost = 0 /\ memory = "ok" /\ hpend = 0 /\ tty = 0 /\ out = 0
  /\ talk = Talk /\ wpend = 0 /\ eaten = 0

-----------------------------------------------------------------------------
(***************************************************************************)
(* The client: one thread, reads the terminal and writes the socket, reads *)
(* the socket and writes the terminal.                                     *)
(***************************************************************************)
ClientRead(n) ==
  /\ cpend = 0 /\ n <= typed
  /\ typed' = typed - n /\ cpend' = n
  /\ UNCHANGED <<up, down, ptyQueueVars, hpend, tty, out, ptyChildVars>>

ClientSend ==
  /\ cpend > 0 /\ up + cpend <= SockCap
  /\ up' = up + cpend /\ cpend' = 0
  /\ UNCHANGED <<typed, down, ptyQueueVars, hpend, tty, out, ptyChildVars>>

(* All frames that have arrived are written to the terminal. *)
ClientRecv ==
  /\ cpend = 0 /\ down > 0
  /\ down' = 0
  /\ UNCHANGED <<ptyClientVars, up, ptyQueueVars, hpend, tty, out, ptyChildVars>>

-----------------------------------------------------------------------------
(***************************************************************************)
(* The handler.                                                            *)
(***************************************************************************)

(* The capacities that doubling from the current one, or from DS_IOBUF,    *)
(* can reach for need bytes; the loop stops at the first, and at the       *)
(* absolute cap when doubling would pass it.                               *)
Sizes(need) ==
  LET base == IF wcap = 0 THEN Frame ELSE wcap IN
  {c \in need..WbufMax : c = WbufMax \/ \E k \in 0..WbufMax : c = base * 2^k}

Grown(need, c) == c \in Sizes(need) /\ \A d \in Sizes(need) : c <= d

Enqueue_NotArmed(rem) ==
  /\ wlen' = wlen + rem
  /\ conn' = (IF wlen' >= High THEN "suspended" ELSE conn)
  /\ UNCHANGED <<master, lost>>

(* pty_wbuf takes rem more bytes: EPOLLOUT is armed and, at the high water *)
(* mark, the client is no longer read.                                     *)
Enqueue(rem) ==
  /\ wlen' = wlen + rem
  /\ master' = "inout"
  /\ conn' = (IF wlen' >= High THEN "suspended" ELSE conn)
  /\ UNCHANGED lost

Drop(rem) == lost' = lost + rem /\ UNCHANGED <<wlen, master, conn>>

(* The part of a frame that the terminal did not take.  When realloc fails *)
(* the old buffer stays and the bytes are dropped if they do not fit.      *)
Queue(rem) ==
  \/ rem = 0 /\ UNCHANGED ptyQueueVars
  \/ rem > 0 /\ wlen + rem > WbufMax /\ Drop(rem) /\ UNCHANGED <<wcap, memory>>
  \/ rem > 0 /\ wlen + rem <= wcap /\ Enqueue(rem) /\ UNCHANGED <<wcap, memory>>
  \/ /\ rem > 0 /\ wlen + rem <= WbufMax /\ wlen + rem > wcap
     /\ \/ /\ \E c \in 0..WbufMax : Grown(wlen + rem, c) /\ wcap' = c
           /\ Enqueue(rem) /\ UNCHANGED memory
        \/ NoMem /\ memory' = "short" /\ Drop(rem) /\ UNCHANGED wcap

HandlerRecv_QueuesWhole(n) ==
  /\ hpend = 0 /\ conn = "read" /\ n <= up
  /\ \E w \in 0..n :
       /\ w = 0 <=> (wlen > 0 \/ tty = TtyCap)
       /\ tty + w <= TtyCap
       /\ tty' = tty + w
       /\ Queue(IF w = n THEN 0 ELSE n)
  /\ up' = up - n
  /\ UNCHANGED <<ptyClientVars, down, hpend, out, ptyChildVars>>

(* A frame of n bytes from the client.  With nothing queued it is written  *)
(* to the master first, which takes w of them.                             *)
HandlerRecv(n) ==
  /\ hpend = 0 /\ conn = "read" /\ n <= up
  /\ \E w \in 0..n :
       /\ w = 0 <=> (wlen > 0 \/ tty = TtyCap)
       /\ tty + w <= TtyCap
       /\ tty' = tty + w
       /\ Queue(n - w)
  /\ up' = up - n
  /\ UNCHANGED <<ptyClientVars, down, hpend, out, ptyChildVars>>

HandlerFlush_NotSuspended ==
  /\ hpend = 0 /\ master = "inout" /\ tty < TtyCap /\ conn = "read"
  /\ LET k == Least(wlen, TtyCap - tty) IN
       /\ wlen' = wlen - k /\ tty' = tty + k
  /\ master' = (IF wlen' = 0 THEN "in" ELSE master)
  /\ UNCHANGED <<ptyClientVars, up, down, wcap, conn, lost, memory, hpend,
                 out, ptyChildVars>>

(* EPOLLOUT on the master: flush until the queue is empty or the terminal  *)
(* full, disarm when empty, read the client again below the low water mark. *)
HandlerFlush ==
  /\ hpend = 0 /\ master = "inout" /\ tty < TtyCap
  /\ LET k == Least(wlen, TtyCap - tty) IN
       /\ wlen' = wlen - k /\ tty' = tty + k
  /\ master' = (IF wlen' = 0 THEN "in" ELSE master)
  /\ conn' = (IF wlen' < Low THEN "read" ELSE conn)
  /\ UNCHANGED <<ptyClientVars, up, down, wcap, lost, memory, hpend, out, ptyChildVars>>

(* EPOLLIN on the master: n bytes go into a frame for the client. *)
HandlerRead(n) ==
  /\ hpend = 0 /\ n <= out
  /\ out' = out - n /\ hpend' = n
  /\ UNCHANGED <<ptyClientVars, up, down, ptyQueueVars, tty, ptyChildVars>>

HandlerSend ==
  /\ hpend > 0 /\ down + hpend <= SockCap
  /\ down' = down + hpend /\ hpend' = 0
  /\ UNCHANGED <<ptyClientVars, up, ptyQueueVars, tty, out, ptyChildVars>>

-----------------------------------------------------------------------------
(***************************************************************************)
(* The child: reads its terminal whenever it is not in the middle of a     *)
(* write, and prints when it likes.                                        *)
(***************************************************************************)
ChildRead ==
  /\ wpend = 0 /\ tty > 0
  /\ tty' = 0 /\ eaten' = eaten + tty
  /\ UNCHANGED <<ptyClientVars, up, down, ptyQueueVars, hpend, out, talk, wpend>>

ChildPrint(n) ==
  /\ wpend = 0 /\ n <= talk
  /\ talk' = talk - n /\ wpend' = n
  /\ UNCHANGED <<ptyClientVars, up, down, ptyQueueVars, hpend, tty, out, eaten>>

ChildWrite ==
  /\ wpend > 0 /\ out < TtyCap
  /\ LET k == Least(wpend, TtyCap - out) IN out' = out + k /\ wpend' = wpend - k
  /\ UNCHANGED <<ptyClientVars, up, down, ptyQueueVars, hpend, tty, talk, eaten>>

-----------------------------------------------------------------------------
PtyClientNext  == (\E n \in 1..Frame : ClientRead(n)) \/ ClientSend \/ ClientRecv
PtyHandlerNext == \/ \E n \in 1..Frame : HandlerRecv(n) \/ HandlerRead(n)
                  \/ HandlerFlush \/ HandlerSend
PtyChildNext   == ChildRead \/ (\E n \in 1..Talk : ChildPrint(n)) \/ ChildWrite

PtyNext == PtyClientNext \/ PtyHandlerNext \/ PtyChildNext

PtySpec == PtyInit /\ [][PtyNext]_ptyVars

(* Each process runs when it can: the user's paste is there to be read, and *)
(* the child does something about a terminal that has input or room.  The   *)
(* child need not print.                                                    *)
PtyFairSpec ==
  /\ PtySpec
  /\ WF_ptyVars(PtyClientNext) /\ WF_ptyVars(PtyHandlerNext)
  /\ WF_ptyVars(ChildRead \/ ChildWrite)

-----------------------------------------------------------------------------
(***************************************************************************)
(* The backpressure cannot wedge: while the handler does not read the      *)
(* client (conn_suspended), EPOLLOUT is armed and enough is queued that    *)
(* flushing passes the low water mark, where it resumes; EPOLLOUT is armed *)
(* exactly while something is queued, so that the loop neither misses a    *)
(* flush nor spins on a writable master (daemon.c:546-566, 590-616).       *)
(***************************************************************************)
NeverWedged ==
  /\ master = "inout" <=> wlen > 0
  /\ conn = "suspended" => wlen >= Low

(***************************************************************************)
(* "no data lost, client stalls" (daemon.c:569): the water marks leave     *)
(* room for the frame in flight, so that input is dropped only when        *)
(* realloc failed, and never because pty_wbuf is full.                     *)
(***************************************************************************)
LostOnlyWithoutMemory == lost > 0 => memory = "short"

(***************************************************************************)
(* Every byte typed is in exactly one place on its way to the child, or    *)
(* was dropped: the fast path, the queue and the flush neither duplicate a *)
(* byte nor leave one out (daemon.c:514-553, 592-603).                     *)
(***************************************************************************)
InputAccounted == typed + cpend + up + wlen + tty + eaten + lost = Typed

(***************************************************************************)
(* A large paste gets through: under fairness all input reaches the child  *)
(* or is dropped for want of memory, however often the client is suspended *)
(* on the way (daemon.c:469-472).                                          *)
(***************************************************************************)
InputArrives == <>(eaten + lost = Typed)

(***************************************************************************)
(* The bytes typed are kept: each is in one place on its way to the child, *)
(* within the buffer there, or was dropped for want of memory.             *)
(***************************************************************************)
InputKept == PtyTypeOK /\ LostOnlyWithoutMemory /\ InputAccounted
=============================================================================
