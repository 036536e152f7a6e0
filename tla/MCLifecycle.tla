---------------------------- MODULE MCLifecycle -----------------------------
(* Instances of Lifecycle for TLC.  Command processes are interchangeable; *)
(* the initial state singles out a monitor, so monitors are not.           *)
EXTENDS Lifecycle, TLC

CliSymmetry == Permutations(Cli)
=============================================================================
