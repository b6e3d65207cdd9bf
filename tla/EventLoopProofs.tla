-------------------------- MODULE EventLoopProofs --------------------------
(***************************************************************************)
(* Theorems about EventLoop: the loop drives both halves by their own      *)
(* specifications, so that what AsyncEventProofs shows holds of the whole  *)
(* object; and what its sleep has to respect.                              *)
(***************************************************************************)
EXTENDS EventLoop, AsyncEventProofs

-----------------------------------------------------------------------------
(* Composition. *)

\* The loop is a driver of the descriptor half: each of its steps, and each
\* call of a callback of either kind, is a step of FdEvents or leaves it alone.
LEMMA LoopRunsFdEvents == Spec => FdSpec
<1>1. Init => FdInit
  BY DEF Init
<1>2. [Next]_vars => [FdNext]_fdVars
  <2> SUFFICES ASSUME [Next]_vars PROVE [FdNext]_fdVars
    OBVIOUS
  <2>1. CASE CallFd \/ Iterate \/ ReadyFds \/ Sleep
    BY <2>1 DEF CallFd, Iterate, ReadyFds, Sleep, FdNext, ReadyStep
  <2>2. CASE Woken \/ TimedOut \/ FdEventsFired \/ TimesUp
    BY <2>2 DEF Woken, TimedOut, FdEventsFired, TimesUp, FdNext, BatchStep
  <2>3. CASE CallTime \/ CallStop \/ CallStart \/ Enter \/ Leave \/ TimeEventsDue \/ Again \/ TimePasses
    BY <2>3 DEF CallTime, CallStop, CallStart, Enter, Leave, TimeEventsDue, Again, TimePasses
  <2>4. CASE UNCHANGED vars
    BY <2>4 DEF vars
  <2>5. QED
    BY <2>1, <2>2, <2>3, <2>4 DEF Next, Step
<1>3. QED
  BY <1>1, <1>2, PTL DEF Spec, FdSpec

\* And of the time half.
LEMMA LoopRunsTimeEvents == Spec => TimeSpec
<1>1. Init => TimeInit
  BY DEF Init
<1>2. [Next]_vars => [TimeNext]_timeVars
  <2> SUFFICES ASSUME [Next]_vars PROVE [TimeNext]_timeVars
    OBVIOUS
  <2>1. CASE CallTime \/ TimesUp \/ TimeEventsDue \/ Again \/ TimePasses
    BY <2>1 DEF CallTime, TimesUp, TimeEventsDue, Again, TimePasses, TimeNext
  <2>2. CASE CallFd \/ Iterate \/ ReadyFds \/ Sleep \/ FdEventsFired
    BY <2>2 DEF CallFd, Iterate, ReadyFds, Sleep, FdEventsFired
  <2>3. CASE CallStop \/ CallStart \/ Enter \/ Leave \/ Woken \/ TimedOut
    BY <2>3 DEF CallStop, CallStart, Enter, Leave, Woken, TimedOut
  <2>4. CASE UNCHANGED vars
    BY <2>4 DEF vars
  <2>5. QED
    BY <2>1, <2>2, <2>3, <2>4 DEF Next, Step
<1>3. QED
  BY <1>1, <1>2, PTL DEF Spec, TimeSpec

\* For every table size: what is proved of each half holds of the whole object.
\* While callbacks keep the two clauses, the ready list is exact in the loop.
THEOREM LoopReadyExact ==
  ASSUME KeepsList
  PROVE  Spec => []ReadyExact
BY LoopRunsFdEvents, ReadyListExact, PTL

\* And under callers that keep the contract of the time half the loop loses no
\* timer, whatever descriptor callbacks run in between.
THEOREM LoopNoTimerLost ==
  ASSUME TimeLiberties = {}
  PROVE  Spec => []LiveExact
BY LoopRunsTimeEvents, NoTimerLost, PTL

-----------------------------------------------------------------------------
(* The sleep and the timers: nearestTimeEvent() is cast to an int.          *)

\* The cast does not change what an int holds.
LEMMA CastIntKeeps ==
  ASSUME NEW v \in 0 .. IntMax
  PROVE  CastInt(v) = v
<1>1. \A a \in Nat, m \in Nat \ {0} : a < m => a % m = a
  OBVIOUS
<1>2. v + IntMax + 1 \in Nat /\ 2 * (IntMax + 1) \in Nat \ {0} /\ v + IntMax + 1 < 2 * (IntMax + 1)
  BY LoopAssumption
<1>3. (v + IntMax + 1) % (2 * (IntMax + 1)) = v + IntMax + 1
  BY <1>1, <1>2
<1>4. QED
  BY <1>3, LoopAssumption DEF CastInt

\* A table in use has an earliest timer.
LEMMA EarliestExists ==
  ASSUME TimeTypeOK, InUse # {}
  PROVE  \E k \in InUse : \A j \in InUse : slots[k].when <= slots[j].when
<1> DEFINE B(k) == 1 .. slots[k].when
           R == StrictSubsetOrdering(Nat)
           T == { B(k) : k \in InUse }
<1>1. \A k \in InUse : slots[k].when \in Nat
  BY TimeAssumption DEF TimeTypeOK, InUse, TSlots
<1>2. \A k \in InUse : B(k) \in FiniteSubsetsOf(Nat)
  <2> SUFFICES ASSUME NEW k \in InUse PROVE B(k) \in FiniteSubsetsOf(Nat)
    OBVIOUS
  <2>1. IsFiniteSet(B(k)) /\ B(k) \subseteq Nat
    BY <1>1, FS_Interval
  <2>2. QED
    BY <2>1 DEF FiniteSubsetsOf
<1>3. T \subseteq FiniteSubsetsOf(Nat) /\ T # {}
  BY <1>2
<1>4. PICK b \in T : \A c \in T : ~ (<< c, b >> \in R)
  <2> HIDE DEF T, R
  <2>1. IsWellFoundedOn(R, FiniteSubsetsOf(Nat))
    BY FS_StrictSubsetOrderingWellFounded DEF R
  <2>2. QED
    BY <1>3, <2>1, WFMin
<1>5. PICK k \in InUse : b = B(k)
  BY <1>4
<1>6. ASSUME NEW j \in InUse
      PROVE  slots[k].when <= slots[j].when
  <2> SUFFICES ASSUME slots[j].when < slots[k].when PROVE FALSE
    BY <1>1, <1>6
  <2>1. B(j) \subseteq B(k) /\ B(j) # B(k)
    <3>1. slots[k].when \in B(k) /\ slots[k].when \notin B(j)
      BY <1>1, <1>6
    <3>2. B(j) \subseteq B(k)
      BY <1>1, <1>6
    <3>3. QED
      BY <3>1, <3>2
  <2>2. << B(j), B(k) >> \in R
    BY <1>2, <1>6, <2>1 DEF StrictSubsetOrdering, FiniteSubsetsOf
  <2>3. QED
    BY <1>4, <1>5, <1>6, <2>2
<1>7. QED
  BY <1>6

\* With a timer whose rest fits an int, however far away the others are, the
\* timeout is a number of milliseconds that ends no later than it is due.
LEMMA TimeoutBounded ==
  ASSUME TimeTypeOK, NEW k \in InUse, slots[k].when - clock <= IntMax
  PROVE  TimeoutMs \in Nat /\ (clock + TimeoutMs <= slots[k].when \/ TimeoutMs = 0)
<1> DEFINE first == CHOOSE i \in InUse : \A j \in InUse : slots[i].when <= slots[j].when
<1>1. clock \in Nat /\ \A j \in InUse : slots[j].when \in Nat
  BY TimeAssumption DEF TimeTypeOK, InUse, TSlots
<1>2. first \in InUse /\ \A j \in InUse : slots[first].when <= slots[j].when
  BY EarliestExists
<1>3. Nearest = IF slots[first].when < clock THEN 0 ELSE slots[first].when - clock
  BY DEF Nearest
<1> HIDE DEF first
<1>4. Nearest \in 0 .. IntMax
  BY <1>1, <1>2, <1>3, LoopAssumption
<1>5. CastInt(Nearest) = Nearest
  BY <1>4, CastIntKeeps
<1>6. TimeoutMs \in {0, 1, Nearest} /\ (Nearest = 0 => TimeoutMs = 0)
  BY <1>5 DEF TimeoutMs
<1>7. TimeoutMs \in Nat /\ TimeoutMs <= Nearest
  BY <1>4, <1>6
<1>8. Nearest = 0 \/ clock + Nearest <= slots[k].when
  BY <1>1, <1>2, <1>3
<1>9. QED
  BY <1>1, <1>4, <1>6, <1>7, <1>8

\* For every table size, width of int and set of delays, the ones that do not
\* fit an int included, and callers that keep the contract of the time half:
\* epoll_wait() never sleeps past a timer whose rest fits an int.
THEOREM NeverOversleeps ==
  ASSUME TimeLiberties = {}
  PROVE  Spec => NoOversleep
<1>1. TimeTypeOK /\ [Next]_vars =>
        [Sleep => \A k \in InUse : slots[k].when - clock <= IntMax =>
           wakeAt' # Never /\ (wakeAt' <= slots[k].when \/ wakeAt' <= clock)]_vars
  <2> SUFFICES ASSUME TimeTypeOK, Sleep,
                      NEW k \in InUse, slots[k].when - clock <= IntMax
               PROVE  wakeAt' # Never /\ (wakeAt' <= slots[k].when \/ wakeAt' <= clock)
    OBVIOUS
  <2>1. TimeoutMs \in Nat /\ (clock + TimeoutMs <= slots[k].when \/ TimeoutMs = 0)
    BY TimeoutBounded
  <2>2. wakeAt' = clock + TimeoutMs
    BY <2>1 DEF Sleep
  <2>3. clock \in Nat
    BY DEF TimeTypeOK
  <2>4. QED
    BY <2>1, <2>2, <2>3 DEF Never
<1>2. QED
  BY <1>1, TimeTypeCorrect, LoopRunsTimeEvents, PTL DEF Spec, NoOversleep

-----------------------------------------------------------------------------
(* The loop and a sleep with nothing to wait for. *)

\* From the test at the top of the loop on there is something to wait for,
\* until a callback of processReadyFds() has run.
AwakeInv ==
  /\ pc # "time" => tphase = "idle"
  /\ phase \in { "ready", "readyCb" } => pc = "ready"
  /\ phase = "wait" => pc = "fds"
  /\ phase = "readyCb" => served # {}
  /\ phase = "ready" /\ served = {} => numMonitored > 0 \/ used > 0

\* For every table size, width of int and every caller, contract or not:
\* epoll_wait() is entered without end and with nothing left to wait for only
\* in a round in which a callback of processReadyFds() ran.
THEOREM NeverSleepsForNothing == Spec => NoEndlessSleep
<1>1. Init => AwakeInv
  BY DEF Init, FdInit, TimeInit, AwakeInv
<1>2. AwakeInv /\ [Next]_vars => AwakeInv'
  <2> SUFFICES ASSUME AwakeInv, [Next]_vars PROVE AwakeInv'
    OBVIOUS
  <2> USE DEF AwakeInv, Callback
  <2>1. CASE CallFd \/ CallTime \/ CallStop \/ CallStart
    <3>1. Calling /\ UNCHANGED << phase, tphase, pc, served >>
      BY <2>1 DEF CallFd, CallTime, CallStop, CallStart, FdCall, TimeCall, control, scan,
                  loopVars, fdVars, timeVars
    <3>2. phase \notin { "ready", "wait" }
      BY <3>1 DEF Calling
    <3>3. QED
      BY <3>1, <3>2
  <2>2. CASE Enter \/ Leave
    BY <2>2 DEF Enter, Leave, fdVars, timeVars, control, table, array, scan
  <2>3. CASE Iterate
    BY <2>3 DEF Iterate, GoOn, BeginReady, table, timeVars, array, scan
  <2>4. CASE ReadyFds
    <3>1. numMonitored' = numMonitored /\ used' = used /\ tphase' = tphase /\ pc' = pc /\ pc = "ready"
      BY <2>4 DEF ReadyFds, CallReady, ReturnReady, table, timeVars, array, scan, loopVars
    <3>2. CASE CallReady
      BY <3>1, <3>2 DEF CallReady
    <3>3. CASE \E rc \in SUBSET RDWR : ReturnReady(rc)
      BY <3>1, <3>3 DEF ReturnReady
    <3>4. QED
      BY <2>4, <3>2, <3>3 DEF ReadyFds
  <2>5. CASE Sleep
    BY <2>5 DEF Sleep, EndReady, timeVars, scan
  <2>6. CASE Woken \/ TimedOut
    BY <2>6 DEF Woken, TimedOut, EpollWait, timeVars, scan
  <2>7. CASE FdEventsFired
    <3>1. phase' \notin { "ready", "readyCb", "wait" }
      BY <2>7 DEF FdEventsFired, Dispatch, ReturnFd, ReturnErr
    <3>2. QED
      BY <2>7, <3>1 DEF FdEventsFired, timeVars, scan, loopVars
  <2>8. CASE TimesUp
    BY <2>8 DEF TimesUp, EndBatch, BeginScan
  <2>9. CASE TimeEventsDue
    BY <2>9 DEF TimeEventsDue, fdVars, control, loopVars
  <2>10. CASE Again
    BY <2>10 DEF Again, EndScan, fdVars, control
  <2>11. CASE TimePasses
    BY <2>11 DEF TimePasses, Tick, array, scan, fdVars, table, control, loopVars
  <2>12. CASE UNCHANGED vars
    BY <2>12 DEF vars, fdVars, timeVars, table, control, array, scan, loopVars
  <2>13. QED
    BY <2>1, <2>2, <2>3, <2>4, <2>5, <2>6, <2>7, <2>8, <2>9, <2>10, <2>11, <2>12 DEF Next, Step
<1>3. AwakeInv /\ [Next]_vars =>
        [Sleep /\ numMonitored = 0 /\ used = 0 /\ wakeAt' = Never => served # {}]_vars
  BY DEF AwakeInv, Sleep, EndReady
<1>4. QED
  BY <1>1, <1>2, <1>3, PTL DEF Spec, NoEndlessSleep
=============================================================================
