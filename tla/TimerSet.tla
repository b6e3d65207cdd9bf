------------------------------ MODULE TimerSet ------------------------------
(***************************************************************************)
(* What the time-event half of nebula::AsyncEvent promises its callers     *)
(* (the comments above addTimeEvent(), delTimeEvent() and                  *)
(* processTimeEvents() in include/nebula/async_event.h): a set of timers,  *)
(* each called once its time has come, re-armed when its callback returns  *)
(* a delay, gone when it returns 0 or is deleted, and none of them ever    *)
(* disturbed by what happens to another.  TimeEvents implements it.        *)
(***************************************************************************)
EXTENDS Integers

CONSTANTS
  Id,          \* timer identifiers, 0 not among them
  Delays,      \* delays callers ask for, in milliseconds
  MaxTime      \* bound on the clock

VARIABLES
  given,       \* the identifiers handed out so far
  armed,       \* the timers in being: identifier -> the time it is due
  clock,       \* wall clock, in milliseconds
  calling      \* the timer whose callback runs, 0 for none

timerVars == << given, armed, clock, calling >>

\* All the timers but x.
Without(x) == [y \in DOMAIN armed \ {x} |-> armed[y]]

Create == \E x \in Id \ given, d \in Delays :
            /\ given' = given \cup {x}
            /\ armed' = [y \in DOMAIN armed \cup {x} |-> IF y = x THEN clock + d ELSE armed[y]]
            /\ UNCHANGED << clock, calling >>

Delete == \E x \in DOMAIN armed :
            /\ armed' = Without(x)
            /\ UNCHANGED << given, clock, calling >>

\* Never early.
Call == \E x \in DOMAIN armed :
          /\ calling = 0
          /\ armed[x] <= clock
          /\ calling' = x
          /\ UNCHANGED << given, armed, clock >>

\* The callback asks for d more milliseconds, counted from a moment between
\* the time the timer was due and now; or it is done.
Return ==
  /\ calling # 0
  /\ calling' = 0
  /\ \/ calling \notin DOMAIN armed /\ UNCHANGED armed
     \/ /\ calling \in DOMAIN armed
        /\ armed' = Without(calling)
     \/ /\ calling \in DOMAIN armed
        /\ \E d \in Delays \ {0}, base \in armed[calling] .. clock :
             armed' = [armed EXCEPT ![calling] = base + d]
  /\ UNCHANGED << given, clock >>

Tick == clock < MaxTime /\ clock' = clock + 1 /\ UNCHANGED << given, armed, calling >>

TimerInit == given = {} /\ armed = [x \in {} |-> 0] /\ clock = 0 /\ calling = 0
TimerNext == Create \/ Delete \/ Call \/ Return \/ Tick
TimerSpec == TimerInit /\ [][TimerNext]_timerVars
=============================================================================
