----------------------------- MODULE TimeEvents -----------------------------
(***************************************************************************)
(* The time-event half of nebula::AsyncEvent                               *)
(* (include/nebula/async_event.h): an unordered array of armed timers,     *)
(* used_time_events_ of them in use, and the scan that calls those whose   *)
(* time has come, processTimeEvents().                                     *)
(*                                                                         *)
(* An entry is removed by copying the last one over it.  The scan runs     *)
(* user callbacks, which may add and delete timers and so move entries     *)
(* under the scan's index; a callback is therefore not one step: it        *)
(* begins, makes any number of calls while the clock goes on, and returns. *)
(***************************************************************************)
EXTENDS Integers, FiniteSets

CONSTANTS
  Size,          \* size_time_events_
  Delays,        \* the values of ms_later, and of a callback's return
  MaxTime,       \* bound on the clock
  MaxId,         \* bound on the timers ever created
  TimeLiberties  \* what callers do that no part of this code defends against

(***************************************************************************)
(* The contract between the library and its callers; a name in             *)
(* TimeLiberties means the clause is not kept.                             *)
(*   deleteSelf  a callback deletes the timer it runs for                  *)
(*   deleteLast  a callback that runs for the last entry of the array      *)
(*               deletes another timer                                     *)
(***************************************************************************)
TimeClauses == { "deleteSelf", "deleteLast" }

ASSUME TimeAssumption ==
  /\ Size \in Nat
  /\ Delays \subseteq Nat
  /\ MaxTime \in Nat /\ MaxId \in Nat
  /\ TimeLiberties \subseteq TimeClauses

VARIABLES
  slots,   \* time_event_list_: time_event_id_ and when_ms_ of each entry
  used,    \* used_time_events_
  lastId,  \* last_time_event_id_
  clock,   \* what msTimestampNow() returns
  tphase,  \* "idle", or where processTimeEvents() stands
  ti,      \* i of processTimeEvents()
  tnow,    \* now of processTimeEvents()
  firing,  \* the identifier the running callback was given, 0 for none
  live     \* history: timers created and neither deleted nor finished

array    == << slots, used, lastId, live >>
scan     == << tphase, ti, tnow, firing >>
timeVars == << array, scan, clock >>

TSlots == 0 .. Size - 1
InUse  == 0 .. used - 1
Ids    == { slots[k].id : k \in InUse }

-----------------------------------------------------------------------------
(* The public operations.  addTimeEvent() on a full array and              *)
(* delTimeEvent() of an unknown identifier return ERROR and change nothing. *)

\* Mutant: the array's size is not checked.
addTimeEventFull(d) ==
  /\ slots'  = [slots EXCEPT ![used] = [id |-> lastId + 1, when |-> clock + d]]
  /\ lastId' = lastId + 1
  /\ used'   = used + 1
  /\ live'   = live \cup {lastId + 1}

addTimeEvent(d) ==
  /\ used # Size
  /\ slots'  = [slots EXCEPT ![used] = [id |-> lastId + 1, when |-> clock + d]]
  /\ lastId' = lastId + 1
  /\ used'   = used + 1
  /\ live'   = live \cup {lastId + 1}

\* Mutants: the last entry is not moved; the entries behind k move up.
CopyLastNoMove(k) == used' = used - 1 /\ UNCHANGED slots
CopyLastShift(k) ==
  /\ slots' = [j \in TSlots |-> IF j \in k .. used - 2 THEN slots[j + 1] ELSE slots[j]]
  /\ used'  = used - 1

\* time_event_list_[k] = time_event_list_[--used_time_events_].  With no entry
\* left the word before the array lands in a slot that is not in use.
CopyLast(k) ==
  /\ slots' = IF used > 0 THEN [slots EXCEPT ![k] = slots[used - 1]] ELSE slots
  /\ used'  = used - 1

delTimeEvent(x) ==
  /\ \E k \in InUse :
       /\ slots[k].id = x
       /\ \A j \in 0 .. k - 1 : slots[j].id # x
       /\ CopyLast(k)
  /\ live' = live \ {x}
  /\ UNCHANGED lastId

MayDelete(x) ==
  tphase = "cb" => IF x = firing THEN "deleteSelf" \in TimeLiberties
                                 ELSE "deleteLast" \in TimeLiberties \/ ti < used - 1

\* Callers: the owner's code, fd callbacks and time callbacks.
TimeCall ==
  /\ tphase \in { "idle", "cb" }
  /\ \/ lastId < MaxId /\ \E d \in Delays : addTimeEvent(d)
     \/ \E x \in Ids : MayDelete(x) /\ delTimeEvent(x)
  /\ UNCHANGED << scan, clock >>

-----------------------------------------------------------------------------
(* processTimeEvents(). *)

BeginScan ==
  /\ tphase = "idle"
  /\ tphase' = "scan" /\ ti' = 0 /\ tnow' = clock
  /\ UNCHANGED << array, clock, firing >>

\* Mutant: the scan ends at the first timer that is not due.
NotYetStops ==
  /\ tphase = "scan" /\ ti < used
  /\ slots[ti].when > tnow
  /\ ti' = used
  /\ UNCHANGED << array, clock, tphase, tnow, firing >>

NotYet ==
  /\ tphase = "scan" /\ ti < used
  /\ slots[ti].when > tnow
  /\ ti' = ti + 1
  /\ UNCHANGED << array, clock, tphase, tnow, firing >>

\* Mutant: a millisecond early.
FireEarly ==
  /\ tphase = "scan" /\ ti < used
  /\ slots[ti].when <= tnow + 1
  /\ tphase' = "cb" /\ firing' = slots[ti].id
  /\ UNCHANGED << array, clock, ti, tnow >>

Fire ==
  /\ tphase = "scan" /\ ti < used
  /\ slots[ti].when <= tnow
  /\ tphase' = "cb" /\ firing' = slots[ti].id
  /\ UNCHANGED << array, clock, ti, tnow >>

\* A non-zero return re-arms the entry the scan stands on and moves on; zero
\* removes that entry and looks at the one that took its place.
ReturnTime(rc) ==
  /\ tphase = "cb"
  /\ tphase' = "scan" /\ firing' = 0
  /\ \/ /\ rc # 0
        /\ slots' = [slots EXCEPT ![ti].when = tnow + rc]
        /\ ti' = ti + 1
        /\ UNCHANGED << used, live >>
     \/ /\ rc = 0
        /\ CopyLast(ti)
        /\ live' = live \ {firing}
        /\ UNCHANGED ti
  /\ UNCHANGED << lastId, clock, tnow >>

EndScan ==
  /\ tphase = "scan" /\ ti >= used
  /\ tphase' = "idle" /\ ti' = 0 /\ tnow' = 0
  /\ UNCHANGED << array, clock, firing >>

Tick ==
  /\ clock < MaxTime
  /\ clock' = clock + 1
  /\ UNCHANGED << array, scan >>

-----------------------------------------------------------------------------
TimeInit ==
  /\ slots = [k \in TSlots |-> [id |-> 0, when |-> 0]]
  /\ used = 0 /\ lastId = 0 /\ clock = 0
  /\ tphase = "idle" /\ ti = 0 /\ tnow = 0 /\ firing = 0
  /\ live = {}

ScanStep == NotYet \/ Fire \/ \E rc \in Delays \cup {0} : ReturnTime(rc)

TimeNext == TimeCall \/ BeginScan \/ ScanStep \/ EndScan \/ Tick

TimeSpec == TimeInit /\ [][TimeNext]_timeVars

-----------------------------------------------------------------------------
(* Correctness. *)

\* Every variable holds a value of its type and no index leaves the array.
TimeTypeOK ==
  /\ slots \in [TSlots -> [id : Nat, when : Nat]]
  /\ used \in 0 .. Size
  /\ lastId \in Nat /\ clock \in Nat /\ tnow \in Nat /\ firing \in Nat
  /\ tphase \in { "idle", "scan", "cb" }
  /\ ti \in 0 .. Size
  /\ tphase = "cb" => ti < Size
  /\ live \in SUBSET (1 .. lastId)

\* The array holds exactly the timers in being, each once: none is lost when
\* another one finishes, and none runs on after it is over.
LiveExact ==
  /\ \A j, k \in InUse : slots[j].id = slots[k].id => j = k
  /\ Ids = live
  /\ used = Cardinality(live)

\* While a callback runs, its timer is the entry the scan will re-arm or
\* remove when it returns.
OwnEntry == tphase = "cb" => ti < used /\ slots[ti].id = firing

\* The timers as their owners see them: identifier -> due time.
Armed == [x \in Ids |-> slots[CHOOSE k \in InUse : slots[k].id = x].when]

Timers == INSTANCE TimerSet
  WITH Id <- 1 .. MaxId, given <- 1 .. lastId, armed <- Armed, calling <- firing

\* Each step of the array is a step of the timer set: timers are called only
\* once due, re-armed only by their own return, and removed one at a time.
ImplementsTimerSet == Timers!TimerSpec
=============================================================================
