----------------------------- MODULE MCOptions -----------------------------
(***************************************************************************)
(* Settings for TLC.                                                       *)
(***************************************************************************)
EXTENDS Options

\* tc=10+0.1, timeout=10, movetime=1
SomeSettings ==
    {[key |-> "tc", moves |-> 0, time |-> 10000, increment |-> 100],
     [key |-> "timeout", time |-> 10000], [key |-> "movetime", time |-> 1000]}
=============================================================================
