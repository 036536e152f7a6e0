------------------------------ MODULE Wayland ------------------------------
(***************************************************************************)
(* The application's Wayland server (jni/): the UI thread attaches and     *)
(* detaches native windows, sends input and rebinds the display; the event *)
(* loop thread serves clients, drains the input ring and presents.         *)
(*                                                                         *)
(* One step is a critical section, or what a thread does between two       *)
(* accesses to what the other may touch.  server->lock makes attaching,    *)
(* detaching and a commit with its presentation exclude each other; the    *)
(* loop handles a resize without it.  Width and height are one size.  Each *)
(* surface belongs to a client of its own and a buffer to one surface;     *)
(* clients destroy a shm buffer only when it is not in use.                *)
(***************************************************************************)
EXTENDS Naturals, Sequences, FiniteSets

CONSTANTS Window, Size, Dir,  \* native windows, their sizes, socket directories
          Surf,               \* surfaces
          Buf, Owner, Kind,   \* buffers, their surfaces, and "shm" or "dmabuf"
          Ring,               \* slots of the input ring (256)
          Batch,              \* events taken at once (32)
          Topics              \* which of "window", "input", "surface" are explored

None == "none"

ASSUME WaylandAssumption ==
  /\ Ring \in Nat /\ Ring > 1 /\ Batch \in Nat /\ Batch > 0
  /\ Owner \in [Buf -> Surf] /\ Kind \in [Buf -> {"shm", "dmabuf"}]
  /\ None \notin Window \union Size \union Dir \union Surf \union Buf

VARIABLES
  topic,            \* what this behaviour is about (not in the code)
  ui, call,         \* the UI thread: "idle", "join", "create"; its arguments
  dir, sock,        \* the bound directory or None; is the socket file there
  running, loop,    \* server->running; the loop: "off", "wait", "drain", "tell"
  window, refs,     \* the attached window; references held to each
  lost,             \* windows whose reference a failed creation dropped
  size, wanted,     \* server->width and height; the size last asked for
  slots, head, tail,\* the input ring
  sent,             \* events accepted and not yet taken, in order (history)
  batch,            \* events the loop has taken
  dropped, raced,   \* was a resize dropped; was one skipped as unchanged while
                    \* another was on its way (history)
  egl,              \* the window the EGL surface was made for, or None
  stored, recorded, \* size of the texture's storage, and tex_w and tex_h
  surf,             \* the surfaces
  busy, again,      \* buffers clients must not touch; re-attached while current
  stranded,         \* buffers whose surface was destroyed by a client that
                    \* stayed, without being released (history)
  active, pointer, keyboard,  \* server->active_surface; the two foci of the seat
  told,             \* size each toplevel was last configured with
  skipped           \* surfaces a resize left out (history)

uiVars == <<topic, ui, call, dir, sock, running>>
winVars == <<window, refs, lost, wanted>>
ringVars == <<slots, head, tail, sent>>
glVars == <<egl, stored, recorded>>
bufVars == <<busy, again, stranded>>
seatVars == <<active, pointer, keyboard>>
surfVars == <<surf, bufVars, seatVars, told, skipped>>
vars == <<uiVars, loop, winVars, size, ringVars, batch, dropped, raced, glVars, surfVars>>

(* A surface that is not there.  xdgs, tops: its client made more than one  *)
(* xdg_surface for it, more than one toplevel for that.                     *)
Gone == [life |-> "gone", cursor |-> FALSE, xdg |-> FALSE, xdgs |-> FALSE, top |-> FALSE,
         tops |-> FALSE, acked |-> FALSE, mapped |-> FALSE, pend |-> None, cur |-> None]

(* A surface that was freed while it still had an xdg_surface: by the       *)
(* disconnect of its client, or by one that destroys the surface first.     *)
Torn == [Gone EXCEPT !.life = "torn"]
Events == {[type |-> "resize", val |-> s] : s \in Size} \union {[type |-> "input", val |-> None]}
NoCall == [win |-> None, size |-> None, dir |-> None]

TypeOK ==
  /\ ui \in {"idle", "join", "create"} /\ loop \in {"off", "wait", "drain", "tell"}
  /\ dir \in Dir \union {None} /\ sock \in BOOLEAN /\ running \in BOOLEAN
  /\ window \in Window \union {None} /\ refs \in [Window -> 0..3]
  /\ size \in Size \union {None} /\ wanted \in Size \union {None}
  /\ head \in 0..Ring - 1 /\ tail \in 0..Ring - 1
  /\ batch \in Seq(Events) /\ Len(batch) <= Batch
  /\ egl \in Window \union {None}
  /\ {active, pointer, keyboard} \subseteq Surf \union {None}
  /\ busy \union again \union stranded \subseteq Buf /\ skipped \subseteq Surf

Any(set) == CHOOSE x \in set : TRUE

Blank == [type |-> "input", val |-> None]

NewServer(d) ==
  /\ dir' = d /\ sock' = (d # None) /\ running' = (d # None)
  /\ loop' = IF d = None THEN "off" ELSE "wait"
  /\ slots' = [i \in 0..Ring - 1 |-> Blank] /\ head' = 0 /\ tail' = 0
  /\ sent' = <<>> /\ batch' = <<>>
  /\ surf' = [s \in Surf |-> Gone]
  /\ busy' = {} /\ again' = {} /\ stranded' = {}
  /\ active' = None /\ pointer' = None /\ keyboard' = None
  /\ told' = [s \in Surf |-> None] /\ skipped' = {}

Init ==
  /\ topic \in Topics
  /\ ui = "idle" /\ call = NoCall
  /\ dir = None /\ sock = FALSE /\ running = FALSE /\ loop = "off"
  /\ window = None /\ refs = [w \in Window |-> 0] /\ lost = {}
  /\ size = None /\ wanted = None
  /\ slots = [i \in 0..Ring - 1 |-> Blank] /\ head = 0 /\ tail = 0
  /\ sent = <<>> /\ batch = <<>> /\ dropped = FALSE /\ raced = FALSE
  /\ egl = None /\ stored = None /\ recorded = None
  /\ surf = [s \in Surf |-> Gone]
  /\ busy = {} /\ again = {} /\ stranded = {}
  /\ active = None /\ pointer = None /\ keyboard = None
  /\ told = [s \in Surf |-> None] /\ skipped = {}

-----------------------------------------------------------------------------
(* The input ring.                                                         *)

Queued == Len(sent)

enqueue_input_event_Overwrites(e) ==
  /\ slots' = [slots EXCEPT ![head] = e] /\ head' = (head + 1) % Ring
  /\ sent' = Append(sent, e) /\ UNCHANGED <<tail, dropped>>

(* One slot stays empty, so that a full ring differs from an empty one. *)
enqueue_input_event(e) ==
  IF (head + 1) % Ring # tail
    THEN /\ slots' = [slots EXCEPT ![head] = e] /\ head' = (head + 1) % Ring
         /\ sent' = Append(sent, e) /\ UNCHANGED <<tail, dropped>>
    ELSE /\ dropped' = (dropped \/ e.type = "resize")
         /\ UNCHANGED ringVars

(* The events between tail and head, oldest first. *)
RingContents == [i \in 1..((head + Ring - tail) % Ring) |-> slots[(tail + i - 1) % Ring]]

-----------------------------------------------------------------------------
(* The UI thread.                                                          *)

acquire(w) == [refs EXCEPT ![w] = @ + 1]

(* ds_server_attach_window, with the reference nativeSetSurface took. *)
attach_window(w, s) ==
  /\ IF window # w
       THEN /\ window' = w /\ egl' = None
            /\ refs' = [x \in Window |-> acquire(w)[x] - IF x = window THEN 1 ELSE 0]
       ELSE UNCHANGED <<refs, egl, window>>   \* taken and released again
  /\ size' = s /\ wanted' = s
  /\ IF size # s \/ window # w
       THEN enqueue_input_event([type |-> "resize", val |-> s]) /\ UNCHANGED raced
       ELSE /\ raced' = (raced \/ \E e \in {sent[i] : i \in 1..Len(sent)}
                                   \union {batch[i] : i \in 1..Len(batch)} :
                            e.type = "resize" /\ e.val # s)
            /\ UNCHANGED <<ringVars, dropped>>

(* nativeSetSurface: the display is kept unless there is none, it moved, or *)
(* its socket file is gone.  A window has a new size only when it is new or *)
(* has been resized.                                                        *)
SetSurface(w, s, d) ==
  /\ ui = "idle"
  /\ topic = "surface" => dir = None
  /\ topic # "input" => s = Any(Size)
  /\ topic # "window" => w = Any(Window) /\ d = Any(Dir)
  /\ \/ /\ dir = d /\ sock /\ attach_window(w, s)
        /\ UNCHANGED <<uiVars, loop, lost, batch, stored, recorded, surfVars>>
     \/ /\ ~(dir = d /\ sock) /\ refs' = acquire(w)
        /\ call' = [win |-> w, size |-> s, dir |-> d]
        /\ ui' = IF dir = None THEN "create" ELSE "join"
        /\ running' = FALSE
        /\ UNCHANGED <<topic, dir, sock, loop, window, lost, wanted, size, ringVars, batch,
                       dropped, raced, glVars, surfVars>>

(* ds_server_destroy, once the loop thread has ended.  The clients are not *)
(* disconnected: nobody serves them any more.  tex_w and tex_h survive.    *)
Destroyed_KeepsWindow ==
  /\ ui = "join" /\ loop = "off" /\ ui' = "create"
  /\ egl' = None /\ stored' = None /\ window' = None
  /\ NewServer(None) /\ dropped' = FALSE /\ raced' = FALSE
  /\ UNCHANGED <<topic, call, refs, lost, wanted, size, recorded>>

Destroyed ==
  /\ ui = "join" /\ loop = "off" /\ ui' = "create"
  /\ egl' = None /\ stored' = None
  /\ window' = None
  /\ refs' = IF window = None THEN refs ELSE [refs EXCEPT ![window] = @ - 1]
  /\ NewServer(None) /\ dropped' = FALSE /\ raced' = FALSE
  /\ UNCHANGED <<topic, call, lost, wanted, size, recorded>>

(* ds_server_create; when the display, its socket or its thread cannot be  *)
(* made, the window's reference is not given back.                         *)
Create ==
  /\ ui = "create" /\ ui' = "idle" /\ call' = NoCall
  /\ \/ /\ NewServer(call.dir)
        /\ window' = call.win /\ size' = call.size /\ wanted' = call.size
        /\ UNCHANGED lost
     \/ /\ topic = "window" /\ lost = {} /\ call.win = Any(Window) /\ NewServer(None)
        /\ lost' = lost \union {call.win}
        /\ UNCHANGED <<window, size, wanted>>
  /\ UNCHANGED <<topic, refs, dropped, raced, glVars>>

(* nativeDestroySurface: the clients stay connected. *)
DestroySurface ==
  /\ topic = "window" /\ ui = "idle" /\ dir # None
  /\ egl' = None /\ window' = None
  /\ refs' = IF window = None THEN refs ELSE [refs EXCEPT ![window] = @ - 1]
  /\ UNCHANGED <<uiVars, loop, lost, wanted, size, ringVars, batch, dropped, raced,
                 stored, recorded, surfVars>>

(* nativeSendKey, nativeSendTouch, nativeSendPointerMotion and the others. *)
SendInput ==
  /\ topic = "input" /\ ui = "idle" /\ dir # None
  /\ enqueue_input_event([type |-> "input", val |-> None])
  /\ UNCHANGED <<uiVars, loop, winVars, size, batch, raced, glVars, surfVars>>

SocketDeleted ==
  /\ topic = "window" /\ dir = Any(Dir) /\ sock /\ sock' = FALSE
  /\ UNCHANGED <<topic, ui, call, dir, running, loop, winVars, size, ringVars, batch, dropped,
                 raced, glVars, surfVars>>

-----------------------------------------------------------------------------
(* The seat.                                                               *)

Targets == {s \in Surf : surf[s].life = "live" /\ surf[s].xdg /\ ~surf[s].cursor}

(* get_target_surface: the active surface, else a mapped one, else any.  The *)
(* order of the surfaces is left open.                                       *)
Found(a) ==
  IF a \in Targets THEN {a}
  ELSE IF \E s \in Targets : surf[s].mapped THEN {s \in Targets : surf[s].mapped}
  ELSE Targets
get_target_surface == Found(active)

(* ensure_pointer_focus and ensure_keyboard_focus. *)
Ensured(focus) == IF get_target_surface = {} THEN {focus} ELSE get_target_surface

-----------------------------------------------------------------------------
(* The loop thread: input.                                                 *)

Least(a, b) == IF a < b THEN a ELSE b

(* ds_seat_dispatch_queue: a batch is taken under the input lock and worked *)
(* off without it, until the ring is found empty.  A slot that was taken is *)
(* not read again, and blank here.                                          *)
TakeBatch_Polls ==
  LET n == Least(Batch, Queued) IN
    /\ batch = <<>>
    /\ \/ loop = "wait" /\ running /\ Queued > 0
       \/ loop = "drain"
    /\ batch' = SubSeq(RingContents, 1, n)
    /\ tail' = (tail + n) % Ring /\ sent' = SubSeq(sent, n + 1, Queued)
    /\ slots' = [i \in 0..Ring - 1 |-> IF (i + Ring - tail) % Ring < n THEN Blank ELSE slots[i]]
    /\ loop' = "drain"
    /\ UNCHANGED <<uiVars, winVars, size, head, dropped, raced, glVars, surfVars>>

TakeBatch ==
  LET n == Least(Batch, Queued) IN
    /\ batch = <<>>
    /\ \/ loop = "wait" /\ running /\ Queued > 0
       \/ loop = "drain"
    /\ batch' = SubSeq(RingContents, 1, n)
    /\ tail' = (tail + n) % Ring /\ sent' = SubSeq(sent, n + 1, Queued)
    /\ slots' = [i \in 0..Ring - 1 |-> IF (i + Ring - tail) % Ring < n THEN Blank ELSE slots[i]]
    /\ loop' = IF n = 0 THEN "wait" ELSE "drain"
    /\ UNCHANGED <<uiVars, winVars, size, head, dropped, raced, glVars, surfVars>>

(* The pointer's events, the keys, and the touches, which need no focus. *)
DispatchInput ==
  /\ loop = "drain" /\ batch # <<>> /\ Head(batch).type = "input"
  /\ batch' = Tail(batch)
  /\ \/ pointer' \in Ensured(pointer) /\ UNCHANGED keyboard
     \/ keyboard' \in Ensured(keyboard) /\ UNCHANGED pointer
     \/ UNCHANGED <<pointer, keyboard>>
  /\ UNCHANGED <<uiVars, loop, winVars, size, ringVars, dropped, raced, glVars,
                 surf, bufVars, active, told, skipped>>

DispatchResize ==
  /\ loop = "drain" /\ batch # <<>> /\ Head(batch).type = "resize"
  /\ size' = Head(batch).val /\ batch' = Tail(batch) /\ loop' = "tell"
  /\ UNCHANGED <<uiVars, winVars, ringVars, dropped, raced, glVars, surfVars>>

Toplevel(s) == surf[s].life = "live" /\ surf[s].xdg /\ surf[s].top

(* ds_xdg_shell_resize_all, with the size as it is by then. *)
resize_all ==
  /\ loop = "tell" /\ loop' = "drain"
  /\ told' = [s \in Surf |-> IF Toplevel(s) /\ surf[s].acked THEN size ELSE told[s]]
  /\ skipped' = (skipped \union {s \in Surf : Toplevel(s)}) \ {s \in Surf : surf[s].acked}
  /\ UNCHANGED <<uiVars, winVars, size, ringVars, batch, dropped, raced, glVars,
                 surf, bufVars, seatVars>>

LoopEnds ==
  /\ loop = "wait" /\ ~running /\ loop' = "off"
  /\ UNCHANGED <<uiVars, winVars, size, ringVars, batch, dropped, raced, glVars, surfVars>>

-----------------------------------------------------------------------------
(* The loop thread: requests of clients.                                   *)

Serving ==
  /\ loop = "wait" /\ running
  /\ UNCHANGED <<uiVars, loop, winVars, size, ringVars, batch, dropped, raced>>

(* A client connects and makes its surface. *)
Connect(s) ==
  /\ Serving /\ surf[s].life # "live"
  /\ topic # "surface" => s = Any(Surf)
  /\ surf' = [surf EXCEPT ![s] = [Gone EXCEPT !.life = "live"]]
  /\ UNCHANGED <<bufVars, seatVars, told, skipped, glVars>>

Change(s, f, v) == surf' = [surf EXCEPT ![s] = [@ EXCEPT ![f] = v]]

(* A second xdg_surface takes the place of the first, and a second toplevel. *)
GetXdgSurface(s) ==
  /\ Serving /\ surf[s].life = "live"
  /\ surf[s].xdg => topic = "surface" /\ s = Any(Surf)
  /\ surf' = [surf EXCEPT ![s] = [@ EXCEPT !.xdg = TRUE, !.xdgs = surf[s].xdg \/ surf[s].xdgs,
                                  !.cursor = FALSE, !.top = FALSE, !.tops = FALSE,
                                  !.acked = FALSE]]
  /\ UNCHANGED <<bufVars, seatVars, told, skipped, glVars>>

(* get_toplevel: configured at once with the size of the server. *)
GetToplevel(s) ==
  /\ Serving /\ topic = "input" /\ surf[s].life = "live" /\ surf[s].xdg
  /\ surf' = [surf EXCEPT ![s] = [@ EXCEPT !.top = TRUE, !.tops = surf[s].top \/ surf[s].tops]]
  /\ told' = [told EXCEPT ![s] = size]
  /\ skipped' = skipped \ {s}
  /\ UNCHANGED <<bufVars, seatVars, glVars>>

AckConfigure(s) ==
  /\ Serving /\ topic # "window" /\ Toplevel(s) /\ ~surf[s].acked
  /\ Change(s, "acked", TRUE)
  /\ UNCHANGED <<bufVars, seatVars, told, skipped, glVars>>

(* xdg_toplevel and xdg_surface destroyed, in this order; one that was      *)
(* replaced takes its replacement with it.                                  *)
DestroyXdg(s) ==
  /\ Serving /\ topic # "window" /\ surf[s].life = "live"
  /\ \/ (surf[s].top \/ surf[s].tops) /\ Change(s, "top", FALSE)
     \/ /\ (surf[s].xdg /\ ~surf[s].top) \/ surf[s].xdgs
        /\ surf' = [surf EXCEPT ![s] = [@ EXCEPT !.xdg = FALSE, !.top = FALSE, !.tops = FALSE,
                                        !.acked = FALSE]]
  /\ skipped' = skipped \ {s} /\ told' = [told EXCEPT ![s] = None]
  /\ UNCHANGED <<bufVars, seatVars, glVars>>

(* A pointer's set_cursor; the keyboard's focus and the active surface stay. *)
SetCursor(s) ==
  /\ Serving /\ topic = "surface" /\ surf[s].life = "live" /\ ~surf[s].cursor
  /\ Change(s, "cursor", TRUE)
  /\ pointer' = IF pointer = s THEN None ELSE pointer
  /\ UNCHANGED <<bufVars, active, keyboard, told, skipped, glVars>>

(* get_pointer and get_keyboard give the focus to the target at once when   *)
(* it is a surface of the same client.                                      *)
GetInput(s) ==
  /\ Serving /\ topic = "surface" /\ s \in get_target_surface
  /\ \/ pointer' = s /\ UNCHANGED keyboard
     \/ keyboard' = s /\ UNCHANGED pointer
  /\ UNCHANGED <<surf, bufVars, active, told, skipped, glVars>>

Attach(s, b) ==
  /\ Serving /\ surf[s].life = "live"
  /\ b \in {None} \union {x \in Buf : Owner[x] = s}
  /\ topic = "window" => b \in {x \in Buf : Kind[x] = "dmabuf"}
  /\ topic # "input"
  /\ Change(s, "pend", b)
  /\ UNCHANGED <<bufVars, seatVars, told, skipped, glVars>>

(* Two descriptors of a buffer are the same only if the buffer carries its  *)
(* own; a shm buffer is wrapped anew by every attach.                       *)
SameDescriptor(p, q) == p = q /\ Kind[p] = "dmabuf"

Sizes == IF topic = "surface" THEN Size ELSE {Any(Size)}

(* Presenting: the EGL surface is made when there is none, unless EGL       *)
(* fails; a texture that seems to have the right size is written in place.  *)
present(s, bufsize) ==
  \/ UNCHANGED glVars                          \* no window, or EGL fails
  \/ /\ window # None /\ egl' = IF egl = None THEN window ELSE egl
     /\ recorded' = bufsize
     /\ stored' = IF recorded = bufsize THEN stored ELSE bufsize

(* surface_commit.  The buffer is drawn and shown before the one it         *)
(* replaces is released; a buffer too small for the screen is not drawn.    *)
Commit_ReleasesNew(s) ==
  LET pend == surf[s].pend
      cur == surf[s].cur
  IN /\ Serving /\ surf[s].life = "live"
     /\ busy' = IF pend = None THEN busy
                ELSE IF cur # None /\ ~SameDescriptor(cur, pend) THEN busy \ {pend}
                ELSE busy \union {pend}
     /\ surf' = [surf EXCEPT ![s] = [@ EXCEPT !.cur = IF pend = None THEN cur ELSE pend,
                    !.mapped = (surf[s].mapped \/ pend # None), !.pend = None]]
     /\ UNCHANGED <<again, stranded, seatVars, told, skipped, glVars>>

Commit(s) ==
  LET pend == surf[s].pend
      cur == surf[s].cur
      replaced == IF pend # None /\ cur # None /\ ~SameDescriptor(cur, pend) THEN {cur} ELSE {}
      given == IF pend = None THEN {} ELSE {pend}
  IN /\ Serving /\ surf[s].life = "live"
     /\ surf' = [surf EXCEPT ![s] = [@ EXCEPT !.cur = IF pend = None THEN cur ELSE pend,
                    !.mapped = (surf[s].mapped \/ pend # None), !.pend = None]]
     /\ busy' = (busy \union given) \ replaced
     /\ again' = (again \ (given \union replaced)) \union (given \intersect replaced)
     /\ stranded' = stranded \ given
     /\ IF pend # None /\ surf[s].xdg /\ ~surf[s].cursor
          THEN \/ active' = s /\ \E z \in Sizes : present(s, z)
               \/ UNCHANGED <<active, glVars>>
          ELSE UNCHANGED <<active, glVars>>
     /\ UNCHANGED <<pointer, keyboard, told, skipped>>

(* A dmabuf may go while it is current (buffer_destroy_notify). *)
DestroyBuffer(b) ==
  LET s == Owner[b] IN
    /\ Serving /\ topic = "surface" /\ surf[s].life = "live"
    /\ surf[s].cur = b /\ surf[s].pend # b /\ Kind[b] = "dmabuf"
    /\ surf' = [surf EXCEPT ![s] = [@ EXCEPT !.cur = None, !.mapped = FALSE]]
    /\ busy' = busy \ {b} /\ again' = again \ {b}
    /\ UNCHANGED <<stranded, seatVars, told, skipped, glVars>>

(* surface_resource_destroy, by a request or because the client leaves: the *)
(* focus goes to another target, or to none.  The dying surface is still in *)
(* the list and, as long as it has its xdg_surface, may be found again.     *)
(* Nothing releases its current buffer.                                     *)
Leave(s) ==
  LET found == Found(active')
      next == IF found = {} THEN {None} ELSE found
      own == {b \in Buf : Owner[b] = s}
  IN /\ Serving /\ surf[s].life = "live"
     /\ surf' = [surf EXCEPT ![s] = IF surf[s].xdg THEN Torn ELSE Gone]
     /\ active' = IF active = s THEN None ELSE active
     /\ \E t \in next : /\ pointer' = IF pointer = s THEN t ELSE pointer
                        /\ keyboard' = IF keyboard = s THEN t ELSE keyboard
     /\ \/ busy' = busy \ own /\ stranded' = stranded \ own      \* disconnected
        \/ /\ topic = "surface"
           /\ stranded' = stranded \union {b \in own \ again : b = surf[s].cur}
           /\ UNCHANGED busy
     /\ again' = again \ own
     /\ skipped' = skipped \ {s} /\ told' = [told EXCEPT ![s] = None]
     /\ UNCHANGED glVars

-----------------------------------------------------------------------------
UiSteps == Destroyed \/ Create

LoopSteps == TakeBatch \/ DispatchInput \/ DispatchResize \/ resize_all \/ LoopEnds

Requests ==
  \/ \E s \in Surf : \/ Connect(s) \/ GetXdgSurface(s) \/ GetToplevel(s) \/ AckConfigure(s)
                      \/ DestroyXdg(s) \/ SetCursor(s) \/ GetInput(s) \/ Commit(s) \/ Leave(s)
                      \/ \E b \in Buf \union {None} : Attach(s, b)
  \/ \E b \in Buf : DestroyBuffer(b)

Calls ==
  \/ \E w \in Window, s \in Size, d \in Dir : SetSurface(w, s, d)
  \/ DestroySurface \/ SendInput \/ SocketDeleted

Next == UiSteps \/ LoopSteps \/ Requests \/ Calls

Spec == Init /\ [][Next]_vars

(* Both threads run; nothing is assumed of the user or of the clients. *)
FairSpec == Spec /\ WF_vars(UiSteps) /\ WF_vars(LoopSteps)

-----------------------------------------------------------------------------
(* Every reference to a native window belongs to the attached window, to a  *)
(* call in progress, or to a creation that failed and dropped it: none is   *)
(* released twice and none is leaked otherwise, over attaching, detaching   *)
(* and rebinding (ds_server.c:196-246, ds_jni.c:43-91).                     *)
WindowsHeld ==
  \A w \in Window :
    refs[w] = Cardinality({x \in {1} : window = w} \union {x \in {2} : call.win = w}
                          \union {x \in {3} : w \in lost})

(* Frames go to the window on the screen: an EGL surface is never one of a  *)
(* window that was replaced, detached or released, although it is made by   *)
(* the loop thread and dropped by the UI thread (ds_presenter.c:294-391,    *)
(* 447-458).                                                                *)
DrawsOnWindow == egl # None => egl = window /\ dir # None

(* The ring holds what was accepted and not yet taken, in order, when it is *)
(* full, when it wraps and when it is drained in batches                    *)
(* (ds_seat.c:455-471, 669-682).                                            *)
RingInOrder == RingContents = sent

(* When the loop has worked off the ring, the server has the size last      *)
(* asked for and has told it to every toplevel: unless a resize was         *)
(* dropped, or one was not queued because the size seemed unchanged while   *)
(* another was on its way, or the toplevel had not acknowledged its first   *)
(* configure yet (ds_server.c:217-229, ds_seat.c:710-719,                   *)
(* ds_xdg_shell.c:266-292).                                                 *)
SizeSettles ==
  loop = "wait" /\ sent = <<>> /\ running /\ ~dropped /\ ~raced =>
    /\ size = wanted
    /\ \A s \in Surf \ skipped : Toplevel(s) => told[s] = wanted

(* A buffer is withheld from its client exactly while it is the current one *)
(* of its surface: it is released when replaced and not before, unless it   *)
(* is a shm buffer committed again while current (ds_compositor.c:168-231); *)
(* but the buffer that is current when a client destroys the surface and    *)
(* stays connected is withheld until it is committed to another one         *)
(* (340-358).                                                               *)
BuffersHeld ==
  \A b \in Buf :
    b \in busy <=> (surf[Owner[b]].cur = b /\ b \notin again) \/ b \in stranded

(* The active surface is one that lives, and so are both foci of the seat   *)
(* when every surface was destroyed after its xdg_surface, as the protocol  *)
(* asks of clients; only a surface that dies before it, as on a disconnect, *)
(* may be left in a focus.  The pointer is never on a cursor                *)
(* (ds_seat.c:112-125, 314-333, 409-453, ds_compositor.c:321-362).          *)
FocusLives ==
  /\ active # None => surf[active].life = "live"
  /\ \A f \in {pointer, keyboard} \ {None} : surf[f].life # "gone"
  /\ pointer # None => ~surf[pointer].cursor

(* nativeSetSurface returns: the loop thread notices that it must end,      *)
(* whatever it is doing, and the display is bound again                     *)
(* (ds_server.c:74-86, 248-262).                                            *)
SetSurfaceReturns == (ui # "idle") ~> (ui = "idle")

(* The texture never has the storage of another size than the one recorded  *)
(* for it, which decides between glTexImage2D and glTexSubImage2D           *)
(* (ds_presenter.c:62-76, 518).  It may have none: ds_presenter_destroy     *)
(* deletes the texture and keeps the recorded size.                         *)
TextureFits == egl # None => stored \in {recorded, None}

(* The native window is shared rightly between the UI thread and the loop: *)
(* its references balance, only the window on the screen is drawn on, and  *)
(* from a texture of the right size.                                       *)
WindowSafe == TypeOK /\ WindowsHeld /\ DrawsOnWindow /\ TextureFits

(* Input and resizes reach the right surface: the ring loses and reorders  *)
(* nothing it accepted, no focus outlives a surface destroyed in order, and *)
(* the last size wins.                                                      *)
InputSafe == RingInOrder /\ FocusLives /\ SizeSettles
=============================================================================
