------------------------------ MODULE MCBridge ------------------------------
(* Values for model checking Bridge.  One name is itself a UUID prefix; in *)
(* the assignments it meets the other's UUID, the UUIDs share a prefix, and*)
(* the UUIDs are the same.                                                 *)
EXTENDS Bridge

MCHex == {"a", "b"}
MCName == {<<"a">>, <<"x">>}
MCUuids ==
  {[n \in MCName |-> IF n = <<"a">> THEN u[1] ELSE u[2]] :
     u \in {<< <<"b", "b">>, <<"a", "a">> >>,
           << <<"b", "a">>, <<"b", "b">> >>,
           << <<"b", "b">>, <<"b", "b">> >>}}
=============================================================================
