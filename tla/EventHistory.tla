---------------------------- MODULE EventHistory ----------------------------
(***************************************************************************)
(* What the event file promises its readers (utils.c, poll-events request  *)
(* of socketd_bridge.c): the events that happened, in order, of which the  *)
(* newest Retain are always there and never more than Cap + 1.  `sync' is  *)
(* whether the writers took turns; the code does not make them (the        *)
(* comment on compaction calls it best-effort and unsynchronized), and then*)
(* only this is promised: every record is an event that happened.          *)
(***************************************************************************)
EXTENDS Integers, Sequences

CONSTANTS Cap, Retain

VARIABLES sync, hist, kept

vars == <<sync, hist, kept>>

Range(s) == {s[i] : i \in DOMAIN s}

Init == sync \in BOOLEAN /\ hist = <<>> /\ kept = <<>>

(* An event happens and is recorded. *)
Happens ==
  /\ Len(hist') = Len(hist) + 1 /\ SubSeq(hist', 1, Len(hist)) = hist
  /\ kept' = Append(kept, hist'[Len(hist')])
  /\ Len(kept) <= Cap
  /\ UNCHANGED sync

(* The oldest records are dropped, at once and down to Retain. *)
Compact ==
  /\ Len(kept) > Cap
  /\ kept' = SubSeq(kept, Len(kept) - Retain + 1, Len(kept))
  /\ UNCHANGED <<sync, hist>>

(* Writers that do not take turns may lose, repeat and reorder records. *)
Disorder ==
  /\ ~sync
  /\ SubSeq(hist', 1, Len(hist)) = hist
  /\ Range(kept') \subseteq Range(hist')
  /\ UNCHANGED sync

Next == Happens \/ Compact \/ Disorder

Spec == Init /\ [][Next]_vars
=============================================================================
