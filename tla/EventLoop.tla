----------------------------- MODULE EventLoop -----------------------------
(***************************************************************************)
(* nebula::AsyncEvent as a whole (include/nebula/async_event.h):           *)
(* eventLoop() takes turns between processReadyFds(), processFdEvents()    *)
(* and processTimeEvents().  FdEvents and TimeEvents model the two tables  *)
(* and the three loops; this module adds what only their composition has:  *)
(* when the loop goes on, for how long it may sleep, and stop().           *)
(***************************************************************************)
EXTENDS FdEvents, TimeEvents

CONSTANT
  IntMax       \* the largest int; milliseconds are int64_t, timeouts int

ASSUME LoopAssumption == IntMax \in Nat

VARIABLES
  pc,       \* where eventLoop() stands; "out" when the thread is not in it
  stop,     \* stop_
  wakeAt    \* when epoll_wait() times out, Never for a negative timeout

loopVars == << pc, stop, wakeAt >>
vars     == << fdVars, timeVars, loopVars >>

Never == -1

-----------------------------------------------------------------------------
(* How long to sleep. *)

\* static_cast<int> of an int64_t keeps the low bits.
CastInt(v) == ((v + IntMax + 1) % (2 * (IntMax + 1))) - (IntMax + 1)

\* Mutant: the comparison of two due times is turned round.
NearestLatest ==
  LET latest == CHOOSE k \in InUse : \A j \in InUse : slots[j].when <= slots[k].when
  IN IF InUse = {} THEN -1
     ELSE IF slots[latest].when < clock THEN 0 ELSE slots[latest].when - clock

\* Mutant: a missed timer leaves a negative rest.
NearestMissed ==
  LET earliest == CHOOSE k \in InUse : \A j \in InUse : slots[k].when <= slots[j].when
  IN IF InUse = {} THEN -1 ELSE slots[earliest].when - clock

Nearest == LET earliest == CHOOSE k \in InUse : \A j \in InUse : slots[k].when <= slots[j].when
           IN IF InUse = {} THEN -1
              ELSE IF slots[earliest].when < clock THEN 0 ELSE slots[earliest].when - clock

\* Mutant: pending descriptors do not shorten the sleep.
TimeoutMsLong == CastInt(Nearest)

TimeoutMs ==
  LET msLeft == CastInt(Nearest) IN
  IF msLeft = 0 THEN 0 ELSE IF numReady > 0 THEN 1 ELSE msLeft

-----------------------------------------------------------------------------
(* The calls: from the owner while the loop is not running, or from a      *)
(* callback of either kind.                                                *)

Calling == pc = "out" \/ phase \in Callback \/ tphase = "cb"

CallFd    == Calling /\ FdCall /\ UNCHANGED << timeVars, loopVars >>
CallTime  == Calling /\ TimeCall /\ UNCHANGED << fdVars, loopVars >>
CallStop  == Calling /\ stop' = TRUE /\ UNCHANGED << fdVars, timeVars, pc, wakeAt >>
CallStart == Calling /\ stop' = FALSE /\ UNCHANGED << fdVars, timeVars, pc, wakeAt >>

-----------------------------------------------------------------------------
(* eventLoop(). *)

\* Mutants: stop_ is not looked at; the loop goes on with nothing to wait for.
GoOnAnyway == numMonitored > 0 \/ used > 0
GoOnIdle   == ~stop

GoOn == ~stop /\ (numMonitored > 0 \/ used > 0)

Enter == pc = "out" /\ pc' = "top" /\ UNCHANGED << fdVars, timeVars, stop, wakeAt >>

Leave == pc = "top" /\ ~GoOn /\ pc' = "out" /\ UNCHANGED << fdVars, timeVars, stop, wakeAt >>

Iterate ==
  /\ pc = "top" /\ GoOn
  /\ pc' = "ready" /\ BeginReady
  /\ UNCHANGED << timeVars, stop, wakeAt >>

ReadyFds ==
  /\ pc = "ready"
  /\ CallReady \/ (\E rc \in SUBSET RDWR : ReturnReady(rc))
  /\ UNCHANGED << timeVars, loopVars >>

Sleep ==
  /\ pc = "ready"
  /\ EndReady
  /\ pc' = "fds"
  /\ wakeAt' = IF TimeoutMs < 0 THEN Never ELSE clock + TimeoutMs
  /\ UNCHANGED << timeVars, stop >>

\* epoll_wait() returns: with events, because time is up, or interrupted by a
\* signal.  Beyond MaxTime no time is told apart, so that every deadline passes.
Woken ==
  /\ pc = "fds" /\ EpollWait
  /\ wakeAt' = Never
  /\ UNCHANGED << timeVars, pc, stop >>

TimedOut ==
  /\ wakeAt # Never /\ (wakeAt <= clock \/ clock = MaxTime)
  /\ batch' = [f \in Fd |-> {}]
  /\ Woken

FdEventsFired ==
  /\ pc = "fds"
  /\ \/ \E f \in Fd : Dispatch(f)
     \/ \E rc \in SUBSET RDWR : ReturnFd(rc)
     \/ ReturnErr
  /\ UNCHANGED << timeVars, loopVars >>

TimesUp ==
  /\ pc = "fds" /\ pc' = "time"
  /\ EndBatch /\ BeginScan
  /\ UNCHANGED << stop, wakeAt >>

TimeEventsDue == pc = "time" /\ ScanStep /\ UNCHANGED << fdVars, loopVars >>

Again ==
  /\ pc = "time" /\ pc' = "top"
  /\ EndScan
  /\ UNCHANGED << fdVars, stop, wakeAt >>

TimePasses == Tick /\ UNCHANGED << fdVars, loopVars >>

-----------------------------------------------------------------------------
Init == FdInit /\ TimeInit /\ pc = "out" /\ stop = FALSE /\ wakeAt = Never

\* The thread's own steps, the end of a callback among them.
Step == \/ Leave \/ Iterate \/ ReadyFds \/ Sleep \/ TimedOut
        \/ FdEventsFired \/ TimesUp \/ TimeEventsDue \/ Again

Next == \/ CallFd \/ CallTime \/ CallStop \/ CallStart
        \/ Enter \/ Woken \/ Step \/ TimePasses

Spec == Init /\ [][Next]_vars

\* The thread is scheduled, callbacks return, and time passes.  Nothing makes
\* an event or a signal come, nor the owner call eventLoop() again.
Fairness == WF_vars(Step) /\ WF_vars(TimePasses)

-----------------------------------------------------------------------------
(* Correctness. *)

\* In epoll_wait() with a negative timeout, which only an event or a signal ends.
Unwakeable == phase = "wait" /\ wakeAt = Never

\* Of several timers the nearest one limits the sleep, pending descriptors or
\* not: epoll_wait() never sleeps past a timer whose rest fits an int.
NoOversleep ==
  [][Sleep => \A k \in InUse : slots[k].when - clock <= IntMax =>
        wakeAt' # Never /\ (wakeAt' <= slots[k].when \/ wakeAt' <= clock)]_vars

\* With neither a descriptor nor a timer left the loop sleeps without end only
\* when a callback of processReadyFds() ran since its condition was tested, and
\* so may have removed the last of them.
NoEndlessSleep ==
  [][Sleep /\ numMonitored = 0 /\ used = 0 /\ wakeAt' = Never => served # {}]_vars

\* What addTimeEvent() promises: a timer armed while the loop runs is called
\* once its time has come, unless it is deleted or the loop is left first.
ArmedTriggered ==
  \A x \in 1 .. MaxId :
    (pc # "out" /\ \E k \in InUse : slots[k].id = x /\ slots[k].when <= clock)
      ~> (firing = x \/ x \notin Ids \/ pc = "out")

\* What the code keeps of that: with the thread not in a sleep without end, a
\* timer whose time has come is called, however the callbacks of other timers
\* rearrange the array, unless it is deleted or the loop is left first.
DueTimerFires ==
  \A x \in 1 .. MaxId :
    (pc # "out" /\ ~Unwakeable /\ \E k \in InUse : slots[k].id = x /\ slots[k].when <= clock)
      ~> (firing = x \/ x \notin Ids \/ pc = "out")

\* A descriptor with a pending event is called again even if the kernel never
\* reports on it again, unless it is dropped or the loop is left first.
PendingServed ==
  \A f \in Fd : (pc # "out" /\ fired[f] # {})
                  ~> (fired[f] = {} \/ (phase = "readyCb" /\ cur = f) \/ pc = "out")

\* stop() called by a callback of processFdEvents() or processTimeEvents() gets
\* the thread out of the loop, whatever is still pending or armed.
StopLeaves == (stop /\ pc # "ready" /\ phase # "wait") ~> (pc = "out" \/ ~stop)
=============================================================================
