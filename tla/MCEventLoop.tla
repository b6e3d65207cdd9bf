---------------------------- MODULE MCEventLoop ----------------------------
(* Instances of EventLoop for TLC. *)
EXTENDS EventLoop

\* What the callers use of the object, chosen at the start.
VARIABLE usage

ReadMask == { {"R"} }

\* A millisecond or two later; with IntMax = 1 the second does not fit an int.
SomeDelays == { 1, 2 }

\* Two descriptors, one timer at a time and stop(); or timers alone.
Usages == { [fds |-> Fd, timers |-> 1, ids |-> 2, stops |-> TRUE],
            [fds |-> {}, timers |-> Size, ids |-> MaxId, stops |-> FALSE] }

Used ==
  /\ UNCHANGED usage
  /\ \A f \in Fd \ usage.fds : monitored'[f] = {}
  /\ used' <= usage.timers /\ lastId' <= usage.ids
  /\ stop' => usage.stops

MCInit == Init /\ usage \in Usages

MCSpec == /\ MCInit
          /\ [][Next /\ Used]_<< vars, usage >>
          /\ Fairness
=============================================================================
