---------------------------- MODULE MCConfigStore ---------------------------
(* Values for model checking ConfigStore.  All names hash to the same      *)
(* address; one forward overlaps the other on the container's side only;   *)
(* the files differ in keys that are not always written.                   *)
EXTENDS ConfigStore, TLC

MCHash == [c \in Cont |-> 1]
Web == [proto |-> "tcp", h |-> <<1, 2>>, c |-> <<1, 2>>]
Ssh == [proto |-> "tcp", h |-> <<3, 3>>, c |-> <<2, 2>>]
MCForward == {Web, Ssh}
WebServer == [root |-> TRUE, mode |-> "nat", limit |-> 0, ports |-> <<Web>>, ip |-> 0,
              binds |-> {}, app |-> 0]
MCTexts == {[WebServer EXCEPT !.binds = Bind],
            [WebServer EXCEPT !.mode = "host", !.limit = 1, !.ip = Bad],
            [WebServer EXCEPT !.ports = <<Ssh, Web>>, !.ip = 1]}
MCArg == {Plain, [Plain EXCEPT !.reset = TRUE], [Plain EXCEPT !.mode = "host"],
          [Plain EXCEPT !.root = TRUE, !.mode = "nat", !.ports = <<Ssh>>, !.ip = 2]}
MCBudgets == {[cmd |-> 2, edit |-> 1, reboot |-> 1, lost |-> 0],
              [cmd |-> 2, edit |-> 0, reboot |-> 1, lost |-> 1]}
MCSymmetry == Permutations(Cont) \cup Permutations(Proc)
=============================================================================
