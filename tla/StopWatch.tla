----------------------------- MODULE StopWatch -----------------------------
(***************************************************************************)
(* nebula::Time and nebula::StopWatch (include/nebula/time.h): the wall    *)
(* clock as seconds and microseconds, msSleep(), which a signal may end    *)
(* early, and a stop watch with the buffer of its message, used by one     *)
(* thread as in test/time_t.cc.  A microsecond of the clock and a          *)
(* nanosecond of nanosleep() are both one unit of time here.               *)
(***************************************************************************)
EXTENDS Integers

CONSTANTS
  Ms,          \* units in a millisecond
  Sec,         \* milliseconds in a second
  MaxClock,    \* bound: the clock's last value
  Intervals,   \* arguments of msSleep()
  DefaultSize, \* default_buf_size
  Lengths,     \* how long message() would be
  ClockIsSet   \* whether somebody sets the clock

ASSUME StopWatchAssumption ==
  /\ Ms \in Nat \ {0} /\ Sec \in Nat \ {0} /\ MaxClock \in Nat
  /\ Intervals \subseteq Nat /\ DefaultSize \in Nat \ {0} /\ Lengths \subseteq Nat
  /\ ClockIsSet \in BOOLEAN

VARIABLES
  clock,       \* the system's clock
  start_time_, stop_time_, started_, stopped_,
  buf_size_,   \* the size of message_buf_, 0 when there is none
  shown,       \* the last message: how long it was to be and how long it is
  interval,    \* what the caller wants to sleep in all, and what is left of it
  remain,
  slept,       \* history: units it has slept so far, and how often it was interrupted
  interrupted,
  ran,         \* history: units that passed since start(), {} once the clock was set
  measured     \* history: the same from start() to stop()

watch    == << start_time_, stop_time_, started_, stopped_, ran, measured >>
sleep    == << interval, remain, slept, interrupted >>
timeVars == << clock, watch, sleep >>

\* What message() prints does not depend on the time but for its length.
messageVars == << buf_size_, shown >>

Zero == [tv_sec |-> 0, tv_usec |-> 0]

WatchInit ==
  /\ clock = 0 /\ start_time_ = Zero /\ stop_time_ = Zero
  /\ started_ = FALSE /\ stopped_ = FALSE
  /\ ran = {} /\ measured = {}
  /\ buf_size_ = 0 /\ shown = [wanted |-> 0, length |-> 0]
  /\ interval = 0 /\ remain = 0 /\ slept = 0 /\ interrupted = 0

gettimeofday == [tv_sec |-> clock \div (Sec * Ms), tv_usec |-> clock % (Sec * Ms)]

msTimestamp(tv) == tv.tv_sec * Sec + tv.tv_usec \div Ms
usTimestamp(tv) == tv.tv_sec * (Sec * Ms) + tv.tv_usec

\* d units pass.
Passes(d) ==
  /\ clock + d <= MaxClock /\ clock' = clock + d
  /\ ran' = { r + d : r \in ran }
  /\ UNCHANGED << start_time_, stop_time_, started_, stopped_, measured >>

Tick == Passes(1) /\ UNCHANGED sleep

setClock ==
  /\ ClockIsSet /\ clock' \in 0 .. MaxClock /\ clock' # clock
  /\ ran' = {}
  /\ UNCHANGED << start_time_, stop_time_, started_, stopped_, measured, sleep >>

-----------------------------------------------------------------------------
(* msSleep(), called again with what remains until nothing does.           *)

Units(tv) == tv.tv_sec * (Sec * Ms) + tv.tv_nsec

\* The argument of nanosleep(), and what is stored of the time it gives back.
Requested(ms) == [tv_sec |-> ms \div Sec, tv_nsec |-> (ms % Sec) * Ms]
Unslept(u)    == [tv_sec |-> u \div (Sec * Ms), tv_nsec |-> u % (Sec * Ms)]

\* Mutant: the seconds that remain are forgotten.
RemainShort(tv) == tv.tv_nsec \div Ms

Remain(tv) == tv.tv_sec * Sec + tv.tv_nsec \div Ms

msSleep(ms) ==
  \/ /\ Passes(Units(Requested(ms)))
     /\ remain' = 0 /\ slept' = slept + Units(Requested(ms))
     /\ UNCHANGED interrupted
  \/ \E d \in 0 .. Units(Requested(ms)) - 1 :                \* EINTR
       /\ Passes(d)
       /\ remain' = Remain(Unslept(Units(Requested(ms)) - d))
       /\ slept' = slept + d /\ interrupted' = interrupted + 1

Sleep ==
  /\ remain = 0
  /\ \E ms \in Intervals :
       /\ interval' = ms /\ remain' = ms /\ slept' = 0 /\ interrupted' = 0
  /\ UNCHANGED << clock, watch >>

Resume ==
  /\ remain # 0 /\ interrupted < 3      \* bound on the signals
  /\ msSleep(remain)
  /\ UNCHANGED interval

-----------------------------------------------------------------------------
(* StopWatch. *)

start ==
  /\ started_' = TRUE /\ stopped_' = FALSE /\ start_time_' = gettimeofday
  /\ ran' = { 0 }
  /\ UNCHANGED << clock, stop_time_, measured, sleep >>

stop ==
  /\ stop_time_' = gettimeofday /\ stopped_' = TRUE
  /\ measured' = ran
  /\ UNCHANGED << clock, start_time_, started_, ran, sleep >>

reset ==
  /\ started_' = FALSE /\ stopped_' = FALSE
  /\ UNCHANGED << clock, start_time_, stop_time_, ran, measured, sleep >>

timeCostUs ==
  IF started_ /\ stopped_
  THEN (stop_time_.tv_sec - start_time_.tv_sec) * (Sec * Ms)
       + (stop_time_.tv_usec - start_time_.tv_usec)
  ELSE 0

\* message(): the buffer grows to the length of the message, which leaves no room
\* for its last character.  malloc() and realloc() may fail.
message(wanted) ==
  \/ UNCHANGED messageVars
  \/ /\ LET had == IF buf_size_ = 0 THEN DefaultSize ELSE buf_size_
        IN  buf_size_' = IF wanted >= had THEN wanted ELSE had
     /\ shown' = [wanted |-> wanted,
                  length |-> IF wanted < buf_size_' THEN wanted ELSE buf_size_' - 1]

WatchNext   == Tick \/ setClock \/ Sleep \/ Resume \/ start \/ stop \/ reset
MessageNext == \E wanted \in Lengths : message(wanted)

-----------------------------------------------------------------------------
(* Properties. *)

\* Who sleeps again for what remains has slept the whole interval when nothing remains, but
\* for the part of a millisecond that each interruption rounds away, and never more
\* (time.h:139).
SleepsEnough ==
  /\ slept + remain * Ms <= interval * Ms
  /\ slept + remain * Ms + interrupted * (Ms - 1) >= interval * Ms

\* A watch that was started and then stopped shows the time between the two, however often
\* it was used before and whether or not seconds and microseconds have to be borrowed,
\* unless the clock was set; else it shows 0 (time.h:199).
MeasuresExactly ==
  IF started_ /\ stopped_ THEN \A m \in measured : timeCostUs = m ELSE timeCostUs = 0

\* A message stays inside its buffer and lacks its last character at most (time.h:230).
MessageInside ==
  /\ shown.length <= shown.wanted /\ shown.wanted <= shown.length + 1
  /\ shown.length > 0 => shown.length < buf_size_

TimesAsDocumented ==
  /\ usTimestamp(gettimeofday) = clock /\ msTimestamp(gettimeofday) = clock \div Ms
  /\ SleepsEnough /\ MeasuresExactly /\ MessageInside
=============================================================================
