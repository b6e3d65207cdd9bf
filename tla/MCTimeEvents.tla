---------------------------- MODULE MCTimeEvents ----------------------------
(* Instances of TimeEvents for TLC. *)
EXTENDS TimeEvents

\* The next millisecond, the current one and a later one.
SomeDelays == { 0, 1, 2 }
=============================================================================
