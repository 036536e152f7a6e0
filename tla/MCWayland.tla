----------------------------- MODULE MCWayland -----------------------------
(* Values for model checking Wayland: two windows and sizes, two           *)
(* directories, a client with buffers of both kinds and one with one.      *)
EXTENDS Wayland

MCOwner == [b \in Buf |-> IF b = "shm2" THEN "s2" ELSE "s1"]
MCKind == [b \in Buf |-> IF b \in {"shm1", "shm2"} THEN "shm" ELSE "dmabuf"]
=============================================================================
