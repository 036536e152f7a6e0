------------------------------ MODULE EventLog ------------------------------
(***************************************************************************)
(* The event file of the socket bridge: ds_socketd_record_core_event and   *)
(* ds_socketd_trim_core_event_file (utils.c), run by commands, monitors    *)
(* and the bridge, each a process of its own, without a lock.  An event is *)
(* its number in the history and the second its writer read from the clock.*)
(***************************************************************************)
EXTENDS Integers, Sequences

CONSTANTS Writer,     \* the processes that record events
          Cap,        \* kSoftCapRecords
          Retain,     \* kRetainRecords
          MaxEvent,   \* bound: events recorded
          MaxTime     \* bound: seconds that pass

ASSUME LimitsAssumption ==
  /\ Cap \in Nat /\ Retain \in Nat /\ 0 < Retain /\ Retain <= Cap
  /\ MaxEvent \in Nat /\ MaxTime \in Nat

VARIABLES
  order,  \* "turns": writers take turns; "overlap": they do not; "faults":
          \* they also fail and get killed (not in the code)
  now,    \* CLOCK_REALTIME, in seconds
  hist,   \* every event appended so far (not in the code)
  file,   \* socketd-events.bin
  wpc,    \* where each writer is
  wtime,  \* the time in its record
  woff,   \* first_kept_record
  keep    \* the records it read to keep

logVars == <<order, now, hist, file, wpc, wtime, woff, keep>>

Event == [id : 1..MaxEvent, time : 0..MaxTime]

LogTypeOK ==
  /\ order \in {"turns", "overlap", "faults"}
  /\ now \in 0..MaxTime
  /\ hist \in Seq(Event) /\ file \in Seq(Event)
  /\ wpc \in [Writer -> {"idle", "append", "stat", "open", "read", "trunc", "write"}]
  /\ wtime \in [Writer -> 0..MaxTime]
  /\ woff \in [Writer -> Nat]
  /\ keep \in [Writer -> Seq(Event)]

LogInit ==
  /\ order \in {"turns", "overlap", "faults"}
  /\ now = 0
  /\ hist = <<>> /\ file = <<>>
  /\ wpc = [w \in Writer |-> "idle"]
  /\ wtime = [w \in Writer |-> 0]
  /\ woff = [w \in Writer |-> 0]
  /\ keep = [w \in Writer |-> <<>>]

At(w, from, to) == wpc[w] = from /\ wpc' = [wpc EXCEPT ![w] = to]

Quiet == \A w \in Writer : wpc[w] = "idle"

Tick == now < MaxTime /\ now' = now + 1 /\ UNCHANGED <<order, hist, file, wpc, wtime, woff, keep>>

(* The record is made with the time of the clock ... *)
Stamp(w) ==
  /\ Len(hist) < MaxEvent
  /\ order = "turns" => Quiet
  /\ At(w, "idle", "append")
  /\ wtime' = [wtime EXCEPT ![w] = now]
  /\ UNCHANGED <<order, now, hist, file, woff, keep>>

(* ... and later written at the end of the file, whatever that is by then *)
(* (O_APPEND); an open or write that fails drops the event.               *)
AppendRecord(w) ==
  LET e == [id |-> Len(hist) + 1, time |-> wtime[w]] IN
    /\ Len(hist) < MaxEvent
    /\ At(w, "append", "stat")
    /\ hist' = Append(hist, e) /\ file' = Append(file, e)
    /\ UNCHANGED <<order, now, wtime, woff, keep>>

AppendFails(w) == At(w, "append", "idle") /\ UNCHANGED <<order, now, hist, file, wtime, woff, keep>>

Stat(w) ==
  /\ At(w, "stat", IF Len(file) > Cap THEN "open" ELSE "idle")
  /\ UNCHANGED <<order, now, hist, file, wtime, woff, keep>>

(* The file is looked at again after it is opened for compaction. *)
OpenForTrim_FromStart(w) ==
  /\ At(w, "open", IF Len(file) <= Cap THEN "idle" ELSE "read")
  /\ woff' = [woff EXCEPT ![w] = 0]
  /\ UNCHANGED <<order, now, hist, file, wtime, keep>>

OpenForTrim(w) ==
  /\ At(w, "open", IF Len(file) <= Cap THEN "idle" ELSE "read")
  /\ woff' = [woff EXCEPT ![w] = IF Len(file) <= Cap THEN @ ELSE Len(file) - Retain]
  /\ UNCHANGED <<order, now, hist, file, wtime, keep>>

(* A short read keeps what there is; nothing to keep ends the compaction. *)
ReadKept(w) ==
  LET last == IF woff[w] + Retain < Len(file) THEN woff[w] + Retain ELSE Len(file)
      read == SubSeq(file, woff[w] + 1, last)
  IN /\ At(w, "read", IF read = <<>> THEN "idle" ELSE "trunc")
     /\ keep' = [keep EXCEPT ![w] = read]
     /\ UNCHANGED <<order, now, hist, file, wtime, woff>>

Truncate(w) == At(w, "trunc", "write") /\ file' = <<>> /\ UNCHANGED <<order, now, hist, wtime, woff, keep>>

(* Written at offset 0, over what others appended meanwhile. *)
WriteKept(w) ==
  /\ At(w, "write", "idle")
  /\ file' = keep[w] \o SubSeq(file, Len(keep[w]) + 1, Len(file))
  /\ keep' = [keep EXCEPT ![w] = <<>>]
  /\ UNCHANGED <<order, now, hist, wtime, woff>>

(* The process is killed, or a read, truncate or write fails. *)
GivesUp(w) ==
  /\ order = "faults"
  /\ wpc[w] \notin {"idle", "append"}
  /\ wpc' = [wpc EXCEPT ![w] = "idle"]
  /\ keep' = [keep EXCEPT ![w] = <<>>]
  /\ UNCHANGED <<order, now, hist, file, wtime, woff>>

WriterStep(w) ==
  \/ AppendRecord(w) \/ AppendFails(w) \/ Stat(w) \/ OpenForTrim(w)
  \/ ReadKept(w) \/ Truncate(w) \/ WriteKept(w)

-----------------------------------------------------------------------------
(* A writer between its truncate and its write holds what the file keeps.  *)
Kept ==
  IF order = "turns" /\ \E w \in Writer : wpc[w] = "write"
    THEN keep[CHOOSE w \in Writer : wpc[w] = "write"]
    ELSE file

History == INSTANCE EventHistory WITH sync <- (order = "turns"), kept <- Kept

(* The file implements the history (utils.c:1834-1895): with writers that  *)
(* take turns, readers always find the newest Retain events in order, even *)
(* across a compaction; without turns every record is still an event.      *)
HistorySpec == History!Spec

(* However the writers overlap, the file is back within its cap once they  *)
(* are done: an append that crosses the cap is compacted by somebody       *)
(* (utils.c:1943-1958).  A compaction that gave up leaves it for the next. *)
SizeBounded == order # "faults" /\ Quiet => Len(file) <= Cap
=============================================================================
