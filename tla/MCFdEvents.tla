----------------------------- MODULE MCFdEvents -----------------------------
(* Instances of FdEvents for TLC. *)
EXTENDS FdEvents

\* The events each descriptor is ever registered for, chosen at the start.
VARIABLE interest

\* Both events and each alone.
AllMasks == (SUBSET RDWR) \ {{}}
ReadMask == { {"R"} }

\* Two descriptors, one of them for both events; or every descriptor for one.
Interests == { [f \in Fd |-> IF f = 0 THEN RDWR ELSE IF f = 1 THEN {"R"} ELSE {}],
               [f \in Fd |-> {"R"}] }

Interested == UNCHANGED interest /\ \A f \in Fd : monitored'[f] \subseteq interest[f]

MCInit == FdInit /\ interest \in Interests

MCSpec == /\ MCInit
          /\ [][FdNext /\ Interested]_<< fdVars, interest >>
          /\ FdFairness
=============================================================================
