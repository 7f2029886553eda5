--------------------------- MODULE MCTraceBatcher ---------------------------
(* Messages that share a trace, one with changed content, and a restart    *)
(* that may change the write mode, for TLC.                                *)
EXTENDS TraceBatcher

Trace(key, hash) == [key |-> key, hash |-> hash]
MCMessages == {"m1", "m2"}
MCTracesOf ==
  [m1 |-> <<Trace("a", "x"), Trace("b", "x")>>,
   m2 |-> <<Trace("a", "y"), Trace("b", "x"), Trace("c", "x")>>]
MCCalls == {<<"m1">>, <<"m2">>, <<"m1", "m2">>}
Clean == <<"clean">>
Dual == <<"legacy", "clean">>
MCModes == {Clean, Dual}
MCBytes == [a |-> 2, b |-> 2, c |-> 3]

(* For liveness: two traces, one of them refused for good. *)
FewTracesOf == [m1 |-> <<Trace("a", "x")>>, m2 |-> <<Trace("b", "x")>>]
FewCalls == {<<"m1">>, <<"m2">>}
FewBytes == [a |-> 2, b |-> 2]
DualOnly == {Dual}
=============================================================================
