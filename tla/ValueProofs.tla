---------------------------- MODULE ValueProofs ----------------------------
(***************************************************************************)
(* Theorems about the classes of the library that compute: what the clock, *)
(* the histograms, the hardware's description and the functions on numbers *)
(* return, for every unit, table, word size and sequence of calls.  Loops  *)
(* and folds are reasoned about by the least number, or the smallest set,  *)
(* for which what is claimed of them does not hold.                        *)
(***************************************************************************)
EXTENDS StopWatch, Histogram, HardwareInfo, Numbers, FileHandleProofs, FiniteSetTheorems

-----------------------------------------------------------------------------
(* Division.                                                               *)

LEMMA DivMod ==
  ASSUME NEW a \in Int, NEW b \in Nat \ {0}
  PROVE  /\ a \div b \in Int /\ a % b \in 0 .. b - 1
         /\ a = (a \div b) * b + (a % b)
         /\ a >= 0 => a \div b \in Nat
OBVIOUS

\* Quotient and remainder are the only ones.
LEMMA DivUnique ==
  ASSUME NEW q \in Int, NEW b \in Nat \ {0}, NEW r \in 0 .. b - 1
  PROVE  (q * b + r) \div b = q /\ (q * b + r) % b = r
<1> DEFINE a == q * b + r
           p == a \div b
           s == a % b
<1>1. a \in Int
  OBVIOUS
<1> HIDE DEF a
<1>2. p \in Int /\ s \in 0 .. b - 1 /\ a = p * b + s
  BY <1>1, DivMod
<1> HIDE DEF p, s
<1>3. (p - q) * b = r - s
  BY <1>2 DEF a
<1>4. p - q = 0
  <2>1. CASE p - q >= 1
    <3>1. (p - q) * b >= b
      BY <1>2, <2>1
    <3> QED
      BY <1>2, <1>3, <3>1
  <2>2. CASE p - q <= -1
    <3>1. (q - p) * b >= b
      BY <1>2, <2>2
    <3>2. (q - p) * b = s - r
      BY <1>2, <1>3
    <3> QED
      BY <1>2, <3>1, <3>2
  <2> QED
    BY <1>2, <2>1, <2>2
<1> QED
  BY <1>2, <1>3, <1>4 DEF a, p, s

LEMMA DivModNat ==
  ASSUME NEW a \in Nat, NEW b \in Nat \ {0}
  PROVE  a \div b \in Nat /\ a % b \in 0 .. b - 1 /\ a = (a \div b) * b + (a % b)
OBVIOUS

\* Division by one divisor after the other.
LEMMA DivDiv ==
  ASSUME NEW x \in Nat, NEW a \in Nat \ {0}, NEW b \in Nat \ {0}
  PROVE  (x \div a) \div b = x \div (a * b)
<1> DEFINE q == x \div a
           r == x % a
           p == q \div b
           s == q % b
           c == a * b
           t == s * a + r
<1>1. q \in Nat /\ r \in 0 .. a - 1 /\ x = q * a + r
  BY DivModNat
<1>2. p \in Nat /\ s \in 0 .. b - 1 /\ q = p * b + s
  <2> HIDE DEF q
  <2> QED
    BY <1>1, DivModNat
<1>3. c \in Nat \ {0}
  OBVIOUS
<1> HIDE DEF q, r, p, s, c
<1>4. s * a \in Nat /\ s * a <= (b - 1) * a /\ (b - 1) * a = c - a
  <2>1. s \in Nat /\ s <= b - 1
    BY <1>2
  <2> QED
    BY <2>1 DEF c
<1>5. t \in 0 .. c - 1
  BY <1>1, <1>3, <1>4
<1>6. x = p * c + t
  <2>1. q * a = (p * b + s) * a
    BY <1>2
  <2>2. (p * b + s) * a = p * c + s * a
    BY <1>1, <1>2 DEF c
  <2>3. q * a \in Nat /\ p * c \in Nat
    BY <1>1, <1>2, <1>3
  <2>4. x = (p * c + s * a) + r
    BY <1>1, <2>1, <2>2
  <2>5. \A u, v, w \in Nat : (u + v) + w = u + (v + w)
    OBVIOUS
  <2>6. (p * c + s * a) + r = p * c + (s * a + r)
    BY <1>1, <1>4, <2>3, <2>5
  <2> QED
    BY <2>4, <2>6
<1> HIDE DEF t
<1>7. (p * c + t) \div c = p
  BY <1>2, <1>3, <1>5, DivUnique
<1> QED
  BY <1>6, <1>7 DEF p, q, c

-----------------------------------------------------------------------------
(* Time and StopWatch: seconds and what remains of them.                   *)

\* A time in units is its seconds and the rest; in milliseconds it is the whole ones.
LEMMA ClockParts ==
  ASSUME NEW c \in Nat, NEW s \in Nat \ {0}, NEW m \in Nat \ {0}
  PROVE  /\ s * m \in Nat \ {0}
         /\ (c \div (s * m)) * (s * m) + (c % (s * m)) = c
         /\ (c \div (s * m)) * s + ((c % (s * m)) \div m) = c \div m
<1> DEFINE k == s * m
           q == c \div k
           r == c % k
           a == r \div m
           b == r % m
<1>1. k \in Nat /\ k # 0
  <2>1. s * m > 0
    OBVIOUS
  <2> QED
    BY <2>1
<1> HIDE DEF k
<1>2. q \in Int /\ r \in Nat /\ c = q * k + r
  BY <1>1, DivMod
<1> HIDE DEF q, r
<1>3. a \in Int /\ b \in 0 .. m - 1 /\ r = a * m + b
  BY <1>2, DivMod
<1> HIDE DEF a, b
<1>4. q * k = (q * s) * m
  BY <1>2 DEF k
<1>5. q * s \in Int
  BY <1>2
<1>6. c = (q * s + a) * m + b
  BY <1>2, <1>3, <1>4, <1>5
<1>7. q * s + a \in Int
  BY <1>3, <1>5
<1>8. c \div m = q * s + a
  BY <1>3, <1>6, <1>7, DivUnique
<1>9. k \in Nat \ {0} /\ q * k + r = c /\ q * s + a = c \div m
  BY <1>1, <1>2, <1>8
<1> QED
  BY <1>9 DEF k, q, r, a

K == Sec * Ms

Stamp(tv) == tv.tv_sec * K + tv.tv_usec

TimeOfDay == [tv_sec : Int, tv_usec : Int]

\* What the clock said at start() and stop(), and the time between.
WatchInv ==
  /\ clock \in Nat
  /\ start_time_ \in TimeOfDay /\ stop_time_ \in TimeOfDay
  /\ started_ \in BOOLEAN /\ stopped_ \in BOOLEAN
  /\ ran \subseteq Nat
  /\ \A r \in ran : Stamp(start_time_) + r = clock
  /\ measured \subseteq Nat
  /\ stopped_ => \A m \in measured : Stamp(start_time_) + m = Stamp(stop_time_)

SleepInv ==
  /\ interval \in Nat /\ remain \in Nat /\ slept \in Nat /\ interrupted \in Nat
  /\ SleepsEnough

MessageInv ==
  /\ buf_size_ \in Nat
  /\ shown \in [wanted : Nat, length : Nat]
  /\ MessageInside

LEMMA UnitsAre ==
  /\ Ms \in Nat /\ Ms > 0 /\ Sec \in Nat /\ Sec > 0
  /\ K \in Nat /\ K > 0
<1>1. Ms \in Nat /\ Ms > 0 /\ Sec \in Nat /\ Sec > 0
  BY StopWatchAssumption
<1>2. Sec * Ms \in Nat /\ Sec * Ms > 0
  BY <1>1
<1> QED
  BY <1>1, <1>2 DEF K

\* The time of day is the clock.
LEMMA NowIs ==
  ASSUME clock \in Nat
  PROVE  /\ gettimeofday \in TimeOfDay /\ Stamp(gettimeofday) = clock
         /\ usTimestamp(gettimeofday) = clock
         /\ msTimestamp(gettimeofday) = clock \div Ms
<1> DEFINE q == clock \div K
           r == clock % K
<1>1. gettimeofday = [tv_sec |-> q, tv_usec |-> r]
  BY DEF gettimeofday, K
<1>2. q \in Int /\ r \in Int
  BY UnitsAre, DivMod
<1>3. q * K + r = clock /\ q * Sec + (r \div Ms) = clock \div Ms
  BY UnitsAre, ClockParts DEF K
<1> HIDE DEF q, r
<1>4. /\ gettimeofday \in TimeOfDay
      /\ gettimeofday.tv_sec = q /\ gettimeofday.tv_usec = r
  BY <1>1, <1>2 DEF TimeOfDay
<1> QED
  BY <1>3, <1>4 DEF Stamp, usTimestamp, msTimestamp, K

LEMMA WatchBegins == WatchInit => WatchInv /\ SleepInv /\ MessageInv
<1> SUFFICES ASSUME WatchInit PROVE WatchInv /\ SleepInv /\ MessageInv
  OBVIOUS
<1>1. Zero \in TimeOfDay
  BY DEF Zero, TimeOfDay
<1>2. /\ clock = 0 /\ start_time_ = Zero /\ stop_time_ = Zero
      /\ started_ = FALSE /\ stopped_ = FALSE /\ ran = {} /\ measured = {}
  BY DEF WatchInit
<1>3. WatchInv
  BY <1>1, <1>2 DEF WatchInv
<1>4. SleepInv
  BY UnitsAre DEF WatchInit, SleepInv, SleepsEnough
<1>5. MessageInv
  BY DEF WatchInit, MessageInv, MessageInside
<1> QED
  BY <1>3, <1>4, <1>5

LEMMA PassesKeeps ==
  ASSUME WatchInv, NEW d \in Nat, Passes(d)
  PROVE  WatchInv'
<1>1. /\ clock' = clock + d /\ ran' = { r + d : r \in ran }
      /\ UNCHANGED << start_time_, stop_time_, started_, stopped_, measured >>
  BY DEF Passes
<1>2. ran \subseteq Nat /\ clock \in Nat /\ Stamp(start_time_) \in Int
  BY UnitsAre DEF WatchInv, Stamp, TimeOfDay
<1>3. ran' \subseteq Nat /\ clock' \in Nat
  <2>1. \A r \in ran : r + d \in Nat
    BY <1>2
  <2>2. { r + d : r \in ran } \subseteq Nat
    BY <2>1
  <2>3. clock + d \in Nat
    BY <1>2
  <2> QED
    BY <1>1, <2>2, <2>3
<1>4. \A r \in ran' : Stamp(start_time_) + r = clock'
  <2> SUFFICES ASSUME NEW r \in ran PROVE Stamp(start_time_) + (r + d) = clock + d
    BY <1>1
  <2>1. Stamp(start_time_) + r = clock /\ r \in Nat
    BY <1>2 DEF WatchInv
  <2> QED
    BY <1>2, <2>1
<1> QED
  BY <1>1, <1>3, <1>4 DEF WatchInv, Stamp

\* What nanosleep() is asked for is what remains, and what it gives back is rounded down.
LEMMA SleepTimes ==
  ASSUME NEW ms \in Nat
  PROVE  /\ Units(Requested(ms)) = ms * Ms
         /\ \A u \in Nat : Remain(Unslept(u)) = u \div Ms
<1> USE UnitsAre
<1>1. Units(Requested(ms)) = ms * Ms
  <2> DEFINE q == ms \div Sec
             r == ms % Sec
  <2>1. Units(Requested(ms)) = q * (Sec * Ms) + r * Ms
    BY DEF Units, Requested
  <2>2. q \in Int /\ r \in Int /\ ms = q * Sec + r
    BY DivMod
  <2> HIDE DEF q, r
  <2>3. (q * Sec + r) * Ms = q * (Sec * Ms) + r * Ms
    BY <2>2
  <2> QED
    BY <2>1, <2>2, <2>3
<1>2. ASSUME NEW u \in Nat PROVE Remain(Unslept(u)) = u \div Ms
  <2>1. Sec \in Nat \ {0} /\ Ms \in Nat \ {0}
    OBVIOUS
  <2>2. (u \div (Sec * Ms)) * Sec + ((u % (Sec * Ms)) \div Ms) = u \div Ms
    BY <2>1, ClockParts
  <2> QED
    BY <2>2 DEF Remain, Unslept
<1> QED
  BY <1>1, <1>2

LEMMA SleepGoesOn ==
  ASSUME WatchInv, SleepInv, msSleep(remain), UNCHANGED interval
  PROVE  WatchInv' /\ SleepInv'
<1> USE UnitsAre
<1> DEFINE u == remain * Ms
<1>1. /\ interval \in Nat /\ remain \in Nat /\ slept \in Nat /\ interrupted \in Nat
      /\ slept + u <= interval * Ms
      /\ slept + u + interrupted * (Ms - 1) >= interval * Ms
  BY DEF SleepInv, SleepsEnough
<1>2. u \in Nat /\ Units(Requested(remain)) = u
  BY <1>1, SleepTimes
<1>3. interval * Ms \in Nat /\ interrupted * (Ms - 1) \in Nat
  BY <1>1
<1> HIDE DEF u
<1>4. ASSUME Passes(u), remain' = 0, slept' = slept + u, UNCHANGED interrupted
      PROVE  WatchInv' /\ SleepInv'
  <2>1. WatchInv'
    BY <1>2, <1>4, PassesKeeps
  <2>2. remain' * Ms = 0 /\ slept' \in Nat
    BY <1>1, <1>2, <1>4
  <2>3. SleepsEnough'
    BY <1>1, <1>2, <1>3, <1>4, <2>2 DEF SleepsEnough
  <2> QED
    BY <1>1, <1>4, <2>1, <2>2, <2>3 DEF SleepInv
<1>5. ASSUME NEW d \in 0 .. u - 1, Passes(d), remain' = Remain(Unslept(u - d)),
             slept' = slept + d, interrupted' = interrupted + 1
      PROVE  WatchInv' /\ SleepInv'
  <2>1. WatchInv'
    BY <1>5, PassesKeeps
  <2> DEFINE q == (u - d) \div Ms
             r == (u - d) % Ms
  <2>2. u - d \in Nat /\ d \in Nat
    BY <1>2, <1>5
  <2>3. remain' = q
    BY <1>1, <1>5, <2>2, SleepTimes
  <2>4. q \in Nat /\ r \in 0 .. Ms - 1 /\ u - d = q * Ms + r
    <3>1. Ms \in Nat \ {0} /\ u - d \in Int /\ u - d >= 0
      BY <2>2
    <3> DEFINE a == u - d
    <3> HIDE DEF a
    <3>2. a \in Int /\ a >= 0
      BY <3>1 DEF a
    <3>3. /\ a \div Ms \in Nat /\ a % Ms \in 0 .. Ms - 1
          /\ a = (a \div Ms) * Ms + (a % Ms)
      BY <3>1, <3>2, DivMod
    <3> QED
      BY <3>3 DEF a
  <2> HIDE DEF q, r
  <2>5. q * Ms \in Nat /\ q * Ms <= u - d /\ q * Ms + (Ms - 1) >= u - d
    BY <2>2, <2>4
  <2>6. interrupted' * (Ms - 1) = interrupted * (Ms - 1) + (Ms - 1)
    BY <1>1, <1>5
  <2>7. SleepsEnough'
    <3>1. slept' + remain' * Ms <= interval' * Ms
      BY <1>1, <1>2, <1>3, <1>5, <2>2, <2>3, <2>5
    <3>2. slept' + remain' * Ms + interrupted' * (Ms - 1) >= interval' * Ms
      BY <1>1, <1>2, <1>3, <1>5, <2>2, <2>3, <2>5, <2>6
    <3> QED
      BY <3>1, <3>2 DEF SleepsEnough
  <2> QED
    BY <1>1, <1>5, <2>1, <2>2, <2>3, <2>4, <2>7 DEF SleepInv
<1> QED
  BY <1>2, <1>4, <1>5 DEF msSleep

LEMMA WatchGoesOn ==
  WatchInv /\ SleepInv /\ [WatchNext]_timeVars => WatchInv' /\ SleepInv'
<1> SUFFICES ASSUME WatchInv, SleepInv, [WatchNext]_timeVars PROVE WatchInv' /\ SleepInv'
  OBVIOUS
<1> USE UnitsAre
<1>1. clock \in Nat /\ ran \subseteq Nat
  BY DEF WatchInv
<1>2. ASSUME UNCHANGED sleep PROVE SleepInv'
  BY <1>2 DEF sleep, SleepInv, SleepsEnough
<1>3. CASE Tick
  BY <1>2, <1>3, PassesKeeps DEF Tick
<1>4. CASE setClock
  BY <1>2, <1>4, StopWatchAssumption DEF setClock, WatchInv, Stamp
<1>5. CASE Sleep
  <2>1. PICK ms \in Intervals : /\ interval' = ms /\ remain' = ms
                                /\ slept' = 0 /\ interrupted' = 0
    BY <1>5 DEF Sleep
  <2>2. ms \in Nat
    BY StopWatchAssumption
  <2>3. SleepInv'
    BY <2>1, <2>2 DEF SleepInv, SleepsEnough
  <2>4. WatchInv'
    BY <1>5 DEF Sleep, watch, WatchInv, Stamp
  <2> QED
    BY <2>3, <2>4
<1>6. CASE Resume
  BY <1>6, SleepGoesOn DEF Resume
<1>7. CASE start
  <2>1. gettimeofday \in TimeOfDay /\ Stamp(gettimeofday) = clock
    BY <1>1, NowIs
  <2>2. /\ started_' = TRUE /\ stopped_' = FALSE /\ start_time_' = gettimeofday /\ ran' = { 0 }
        /\ UNCHANGED << clock, stop_time_, measured, sleep >>
    BY <1>7 DEF start
  <2>3. Stamp(start_time_)' = clock
    BY <2>1, <2>2 DEF Stamp
  <2>4. ran' \subseteq Nat /\ \A r \in ran' : Stamp(start_time_)' + r = clock'
    BY <1>1, <2>2, <2>3
  <2>5. WatchInv'
    BY <1>1, <2>1, <2>2, <2>4 DEF WatchInv
  <2> QED
    BY <1>2, <2>2, <2>5
<1>8. CASE stop
  <2>1. gettimeofday \in TimeOfDay /\ Stamp(gettimeofday) = clock
    BY <1>1, NowIs
  <2>2. \A m \in ran : Stamp(start_time_) + m = Stamp(gettimeofday)
    BY <2>1 DEF WatchInv
  <2>3. /\ stop_time_' = gettimeofday /\ stopped_' = TRUE /\ measured' = ran
        /\ UNCHANGED << clock, start_time_, started_, ran, sleep >>
    BY <1>8 DEF stop
  <2>4. WatchInv'
    BY <1>1, <2>1, <2>2, <2>3 DEF WatchInv, Stamp
  <2> QED
    BY <1>2, <2>3, <2>4
<1>9. CASE reset
  BY <1>2, <1>9 DEF reset, WatchInv, Stamp
<1>10. CASE UNCHANGED timeVars
  BY <1>2, <1>10 DEF timeVars, watch, WatchInv, Stamp
<1> QED
  BY <1>3, <1>4, <1>5, <1>6, <1>7, <1>8, <1>9, <1>10 DEF WatchNext

LEMMA MessageGoesOn == MessageInv /\ [MessageNext]_messageVars => MessageInv'
<1> SUFFICES ASSUME MessageInv, [MessageNext]_messageVars PROVE MessageInv'
  OBVIOUS
<1>1. CASE UNCHANGED messageVars
  BY <1>1 DEF messageVars, MessageInv, MessageInside
<1>2. ASSUME NEW wanted \in Lengths, message(wanted), ~UNCHANGED messageVars
      PROVE  MessageInv'
  <2> DEFINE had == IF buf_size_ = 0 THEN DefaultSize ELSE buf_size_
  <2>1. wanted \in Nat /\ had \in Nat /\ had > 0
    BY StopWatchAssumption DEF MessageInv
  <2>2. /\ buf_size_' = IF wanted >= had THEN wanted ELSE had
        /\ shown' = [wanted |-> wanted,
                     length |-> IF wanted < buf_size_' THEN wanted ELSE buf_size_' - 1]
    BY <1>2 DEF message
  <2> HIDE DEF had
  <2>3. buf_size_' \in Nat /\ buf_size_' > 0 /\ wanted <= buf_size_'
    BY <2>1, <2>2
  <2> QED
    BY <2>1, <2>2, <2>3 DEF MessageInv, MessageInside
<1> QED
  BY <1>1, <1>2 DEF MessageNext

LEMMA TimesAre == WatchInv /\ SleepInv /\ MessageInv => TimesAsDocumented
<1> SUFFICES ASSUME WatchInv, SleepInv, MessageInv PROVE TimesAsDocumented
  OBVIOUS
<1>1. usTimestamp(gettimeofday) = clock /\ msTimestamp(gettimeofday) = clock \div Ms
  BY NowIs DEF WatchInv
<1>2. ASSUME started_, stopped_, NEW m \in measured PROVE timeCostUs = m
  <2> DEFINE a == start_time_.tv_sec
             b == start_time_.tv_usec
             c == stop_time_.tv_sec
             d == stop_time_.tv_usec
  <2>1. a \in Int /\ b \in Int /\ c \in Int /\ d \in Int /\ m \in Int /\ K \in Int
    BY UnitsAre DEF WatchInv, TimeOfDay
  <2>2. a * K + b + m = c * K + d
    BY <1>2 DEF WatchInv, Stamp
  <2>3. timeCostUs = (c - a) * K + (d - b)
    BY <1>2 DEF timeCostUs, K
  <2> HIDE DEF a, b, c, d
  <2>4. (c - a) * K = c * K - a * K /\ c * K \in Int /\ a * K \in Int
    BY <2>1
  <2> QED
    BY <2>1, <2>2, <2>3, <2>4
<1>3. MeasuresExactly
  <2>1. CASE started_ /\ stopped_
    BY <1>2, <2>1 DEF MeasuresExactly
  <2>2. CASE ~(started_ /\ stopped_)
    BY <2>2 DEF MeasuresExactly, timeCostUs
  <2> QED
    BY <2>1, <2>2
<1> QED
  BY <1>1, <1>3 DEF TimesAsDocumented, SleepInv, MessageInv

-----------------------------------------------------------------------------
(* Sums over sets, as MapThenSumSet() adds them up.                        *)

Some(s) == CHOOSE x \in s : TRUE

\* f adds up g over every subset of D, taking one value out after another.
Unfolds(D, g, f) ==
  \A s \in SUBSET D : f[s] = IF s = {} THEN 0 ELSE g[Some(s)] + f[s \ { Some(s) }]

AddsUp(D, g, f) == f \in [SUBSET D -> Int] /\ Unfolds(D, g, f)

LEMMA SomeIsIn == ASSUME NEW s, s # {} PROVE Some(s) \in s
BY DEF Some

\* Among sets one is smallest: what holds of a set if of every smaller one, holds of all.
LEMMA SmallestSet ==
  ASSUME NEW D, IsFiniteSet(D), NEW B, B \subseteq SUBSET D, B # {}
  PROVE  \E s \in B : \A t \in SUBSET s : t # s => t \notin B
<1> DEFINE sizes == { Cardinality(s) : s \in B }
<1>1. \A s \in B : IsFiniteSet(s) /\ Cardinality(s) \in Nat
  BY FS_Subset, FS_CardinalityType
<1>2. sizes \in SUBSET Nat /\ sizes # {}
  BY <1>1
<1>3. PICK n \in sizes : \A m \in sizes : n <= m
  <2> HIDE DEF sizes
  <2> QED
    BY <1>2, LeastNumber
<1>4. PICK s \in B : Cardinality(s) = n
  BY <1>3
<1>5. ASSUME NEW t \in SUBSET s, t # s, t \in B PROVE FALSE
  <2>1. Cardinality(t) \in sizes
    BY <1>5
  <2>2. n <= Cardinality(t)
    BY <1>3, <2>1
  <2>3. Cardinality(t) < Cardinality(s)
    BY <1>1, <1>5, FS_Subset
  <2>4. n \in Nat /\ Cardinality(t) \in Nat
    BY <1>2, <2>1
  <2> QED
    BY <1>4, <2>2, <2>3, <2>4
<1> QED
  BY <1>5

\* Whichever sets two such functions are of, they agree on a set they share.
LEMMA SumsAgree ==
  ASSUME NEW D, IsFiniteSet(D), NEW g, NEW S, NEW T, S \subseteq D,
         NEW f, Unfolds(S, g, f), NEW e, Unfolds(T, g, e),
         NEW u, u \subseteq S, u \subseteq T
  PROVE  f[u] = e[u]
<1> DEFINE B == { t \in SUBSET D : t \subseteq S /\ t \subseteq T /\ f[t] # e[t] }
<1>1. SUFFICES ASSUME B # {} PROVE FALSE
  <2>1. u \in SUBSET D
    OBVIOUS
  <2> QED
    BY <2>1
<1>2. PICK s \in B : \A t \in SUBSET s : t # s => t \notin B
  <2>1. B \subseteq SUBSET D
    OBVIOUS
  <2> HIDE DEF B
  <2> QED
    BY <1>1, <2>1, SmallestSet
<1>3. s \in SUBSET D /\ s \in SUBSET S /\ s \in SUBSET T /\ f[s] # e[s]
  BY <1>2
<1>4. s # {}
  BY <1>3 DEF Unfolds
<1> DEFINE t == s \ { Some(s) }
<1>5. t \in SUBSET s /\ t # s
  BY <1>4, SomeIsIn
<1>6. f[t] = e[t]
  <2>1. t \in SUBSET D /\ t \subseteq S /\ t \subseteq T /\ t \notin B
    BY <1>2, <1>3, <1>5
  <2> QED
    BY <2>1
<1>7. f[s] = g[Some(s)] + f[t]
  BY <1>3, <1>4 DEF Unfolds
<1>8. e[s] = g[Some(s)] + e[t]
  BY <1>3, <1>4 DEF Unfolds
<1> QED
  BY <1>3, <1>6, <1>7, <1>8

\* There is such a function.
LEMMA SumExists ==
  ASSUME NEW D, IsFiniteSet(D), NEW g \in [D -> Int]
  PROVE  \E f : AddsUp(D, g, f)
<1> DEFINE B == { s \in SUBSET D : ~\E f : AddsUp(s, g, f) }
<1>1. SUFFICES ASSUME B # {} PROVE FALSE
  OBVIOUS
<1>2. PICK s \in B : \A t \in SUBSET s : t # s => t \notin B
  <2>1. B \subseteq SUBSET D
    OBVIOUS
  <2> HIDE DEF B
  <2> QED
    BY <1>1, <2>1, SmallestSet
<1>3. s \in SUBSET D /\ ~\E f : AddsUp(s, g, f)
  BY <1>2
<1> DEFINE E(t) == CHOOSE f : AddsUp(t, g, f)
<1>4. ASSUME NEW t \in SUBSET s, t # s PROVE AddsUp(t, g, E(t))
  <2>1. \E f : AddsUp(t, g, f)
    BY <1>2, <1>3, <1>4
  <2> QED
    BY <2>1
<1> HIDE DEF E, B
<1> DEFINE F == [t \in SUBSET s |-> IF t = {} THEN 0
                                   ELSE g[Some(t)] + E(t \ { Some(t) })[t \ { Some(t) }]]
<1>5. ASSUME NEW t \in SUBSET s, t # {}
      PROVE  /\ t \ { Some(t) } \in SUBSET s /\ t \ { Some(t) } # s
             /\ Some(t) \in D /\ g[Some(t)] \in Int
             /\ E(t \ { Some(t) })[t \ { Some(t) }] \in Int
  <2>1. Some(t) \in t
    BY <1>5, SomeIsIn
  <2>2. t \ { Some(t) } \in SUBSET s /\ t \ { Some(t) } # s /\ Some(t) \in D
    BY <1>3, <2>1
  <2>3. AddsUp(t \ { Some(t) }, g, E(t \ { Some(t) }))
    BY <1>4, <2>2
  <2> QED
    BY <2>2, <2>3 DEF AddsUp, Unfolds
<1>6. F \in [SUBSET s -> Int]
  BY <1>5
<1>7. ASSUME NEW t \in SUBSET s, t # {} PROVE F[t] = g[Some(t)] + F[t \ { Some(t) }]
  <2> DEFINE u == t \ { Some(t) }
             v == u \ { Some(u) }
  <2>1. F[t] = g[Some(t)] + E(u)[u]
    BY <1>7
  <2>2. u \in SUBSET s /\ u # s /\ AddsUp(u, g, E(u))
    BY <1>4, <1>5, <1>7
  <2>3. CASE u = {}
    BY <2>1, <2>2, <2>3 DEF AddsUp, Unfolds
  <2>4. CASE u # {}
    <3>1. v \in SUBSET s /\ v # s /\ AddsUp(v, g, E(v)) /\ v \subseteq u
      BY <1>4, <1>5, <2>2, <2>4
    <3>2. E(u)[u] = g[Some(u)] + E(u)[v]
      BY <2>2, <2>4 DEF AddsUp, Unfolds
    <3> HIDE DEF u
    <3>3. F[u] = g[Some(u)] + E(v)[v]
      BY <2>2, <2>4
    <3> HIDE DEF v, F
    <3>4. u \subseteq D
      BY <1>3, <2>2
    <3>5. E(u)[v] = E(v)[v]
      BY <2>2, <3>1, <3>4, SumsAgree DEF AddsUp
    <3> QED
      BY <2>1, <3>2, <3>3, <3>5 DEF u
  <2> QED
    BY <2>3, <2>4
<1>8. F[{}] = 0
  OBVIOUS
<1> HIDE DEF F
<1>9. AddsUp(s, g, F)
  BY <1>6, <1>7, <1>8 DEF AddsUp, Unfolds
<1> QED
  BY <1>3, <1>9

Total(D, g) == CHOOSE f : AddsUp(D, g, f)

LEMMA TotalAddsUp ==
  ASSUME NEW D, IsFiniteSet(D), NEW g \in [D -> Int]
  PROVE  AddsUp(D, g, Total(D, g))
BY SumExists DEF Total

\* One more value.
LEMMA SumWithOneMore ==
  ASSUME NEW D, IsFiniteSet(D), NEW g \in [D -> Int], NEW f, AddsUp(D, g, f),
         NEW r \in SUBSET D, NEW x \in D, x \notin r
  PROVE  f[r \cup { x }] = g[x] + f[r]
<1> DEFINE B == { s \in SUBSET D : \E y \in D : y \notin s /\ f[s \cup { y }] # g[y] + f[s] }
<1>1. SUFFICES ASSUME B # {} PROVE FALSE
  OBVIOUS
<1>2. PICK s \in B : \A t \in SUBSET s : t # s => t \notin B
  <2>1. B \subseteq SUBSET D
    OBVIOUS
  <2> HIDE DEF B
  <2> QED
    BY <1>1, <2>1, SmallestSet
<1>3. PICK y \in D : y \notin s /\ f[s \cup { y }] # g[y] + f[s]
  BY <1>2
<1>4. s \in SUBSET D /\ s \cup { y } \in SUBSET D /\ s \cup { y } # {}
  BY <1>2, <1>3
<1>5. ASSUME NEW t \in SUBSET s, t # s, NEW z \in D, z \notin t
      PROVE  f[t \cup { z }] = g[z] + f[t]
  BY <1>2, <1>4, <1>5
<1> HIDE DEF B
<1> DEFINE w == s \cup { y }
           z == Some(w)
<1>6. f[w] = g[z] + f[w \ { z }]
  BY <1>4 DEF AddsUp, Unfolds
<1>7. z \in w
  BY <1>4, SomeIsIn
<1>8. z # y
  <2>1. SUFFICES ASSUME z = y PROVE FALSE
    OBVIOUS
  <2>2. w \ { z } = s
    BY <1>3, <2>1
  <2> QED
    BY <1>3, <1>6, <2>1, <2>2
<1>9. z \in s
  BY <1>7, <1>8
<1> HIDE DEF z
<1> DEFINE t == s \ { z }
<1>10. t \in SUBSET s /\ t # s /\ z \in D /\ z \notin t /\ y \notin t
  BY <1>3, <1>4, <1>9
<1>11. w \ { z } = t \cup { y } /\ s = t \cup { z }
  BY <1>8, <1>9
<1> HIDE DEF t, w
<1>12. f[t \cup { y }] = g[y] + f[t] /\ f[t \cup { z }] = g[z] + f[t]
  BY <1>5, <1>10
<1>13. t \in SUBSET D
  BY <1>4, <1>10
<1>14. f[t] \in Int /\ g[y] \in Int /\ g[z] \in Int
  BY <1>10, <1>13 DEF AddsUp, Unfolds
<1>15. f[w] = g[z] + (g[y] + f[t]) /\ f[s] = g[z] + f[t]
  BY <1>6, <1>11, <1>12
<1>16. f[w] # g[y] + f[s]
  BY <1>3 DEF w
<1> QED
  BY <1>14, <1>15, <1>16

\* The sum of two functions.
LEMMA SumOfSums ==
  ASSUME NEW D, IsFiniteSet(D), NEW a \in [D -> Int], NEW b \in [D -> Int],
         NEW c \in [D -> Int], \A x \in D : c[x] = a[x] + b[x],
         NEW f, AddsUp(D, a, f), NEW e, AddsUp(D, b, e), NEW h, AddsUp(D, c, h),
         NEW r \in SUBSET D
  PROVE  h[r] = f[r] + e[r]
<1> DEFINE B == { s \in SUBSET D : h[s] # f[s] + e[s] }
<1>1. SUFFICES ASSUME B # {} PROVE FALSE
  OBVIOUS
<1>2. PICK s \in B : \A t \in SUBSET s : t # s => t \notin B
  <2>1. B \subseteq SUBSET D
    OBVIOUS
  <2> HIDE DEF B
  <2> QED
    BY <1>1, <2>1, SmallestSet
<1>3. s \in SUBSET D /\ h[s] # f[s] + e[s]
  BY <1>2
<1>4. s # {}
  <2>1. {} \in SUBSET D
    OBVIOUS
  <2>2. f[{}] = 0 /\ e[{}] = 0 /\ h[{}] = 0
    BY <2>1 DEF AddsUp, Unfolds
  <2>3. ASSUME s = {} PROVE f[s] = 0 /\ e[s] = 0 /\ h[s] = 0
    BY <2>2, <2>3, Zenon
  <2>4. 0 = 0 + 0
    OBVIOUS
  <2> QED
    BY <1>3, <2>3, <2>4
<1> DEFINE x == Some(s)
           t == s \ { x }
<1>5. x \in D /\ t \in SUBSET s /\ t # s /\ t \in SUBSET D
  BY <1>3, <1>4, SomeIsIn
<1>6. h[t] = f[t] + e[t]
  BY <1>2, <1>5
<1>7. h[s] = c[x] + h[t] /\ f[s] = a[x] + f[t] /\ e[s] = b[x] + e[t]
  BY <1>3, <1>4 DEF AddsUp, Unfolds
<1> HIDE DEF x, t
<1>8. c[x] = a[x] + b[x] /\ a[x] \in Int /\ b[x] \in Int
  BY <1>5
<1>9. f[t] \in Int /\ e[t] \in Int
  BY <1>5 DEF AddsUp, Unfolds
<1> QED
  BY <1>3, <1>6, <1>7, <1>8, <1>9

\* Values that count for nothing do not change a sum.
LEMMA SumWithoutZeros ==
  ASSUME NEW D, IsFiniteSet(D), NEW g \in [D -> Int], NEW f, AddsUp(D, g, f),
         NEW S \in SUBSET D, \A x \in D \ S : g[x] = 0, NEW r \in SUBSET D
  PROVE  f[r] = f[r \cap S]
<1> DEFINE B == { s \in SUBSET D : f[s] # f[s \cap S] }
<1>1. SUFFICES ASSUME B # {} PROVE FALSE
  OBVIOUS
<1>2. PICK s \in B : \A t \in SUBSET s : t # s => t \notin B
  <2>1. B \subseteq SUBSET D
    OBVIOUS
  <2> HIDE DEF B
  <2> QED
    BY <1>1, <2>1, SmallestSet
<1>3. s \in SUBSET D /\ f[s] # f[s \cap S]
  BY <1>2
<1>4. s # {}
  <2>1. {} \cap S = {}
    OBVIOUS
  <2> QED
    BY <1>3, <2>1
<1> DEFINE x == Some(s)
           t == s \ { x }
<1>5. x \in s /\ x \in D /\ t \in SUBSET s /\ t # s /\ t \in SUBSET D
  BY <1>3, <1>4, SomeIsIn
<1>6. f[t] = f[t \cap S]
  BY <1>2, <1>5
<1>7. f[s] = g[x] + f[t]
  BY <1>3, <1>4 DEF AddsUp, Unfolds
<1> HIDE DEF x, t
<1>8. t \cap S \in SUBSET D /\ x \notin t \cap S
  BY <1>5 DEF t
<1>9. CASE x \in S
  <2>1. s \cap S = (t \cap S) \cup { x }
    BY <1>5, <1>9 DEF t
  <2>2. f[(t \cap S) \cup { x }] = g[x] + f[t \cap S]
    <3> DEFINE r2 == t \cap S
    <3>1. r2 \in SUBSET D /\ x \in D /\ x \notin r2
      BY <1>5, <1>8
    <3> HIDE DEF r2
    <3>2. f[r2 \cup { x }] = g[x] + f[r2]
      BY <3>1, SumWithOneMore
    <3> QED
      BY <3>2 DEF r2
  <2> QED
    BY <1>3, <1>6, <1>7, <2>1, <2>2
<1>10. CASE x \notin S
  <2>1. s \cap S = t \cap S
    BY <1>10 DEF t
  <2>2. g[x] = 0 /\ f[t \cap S] \in Int
    BY <1>5, <1>8, <1>10 DEF AddsUp, Unfolds
  <2>3. f[s \cap S] = f[t \cap S]
    BY <2>1, Zenon
  <2>4. f[s] = f[t]
    BY <1>6, <1>7, <2>2
  <2> QED
    BY <1>3, <1>6, <2>3, <2>4
<1> QED
  BY <1>9, <1>10

\* A function that is 0 but at one place.
LEMMA SumOfOne ==
  ASSUME NEW D, IsFiniteSet(D), NEW v \in D, NEW n \in Int, NEW g \in [D -> Int],
         \A x \in D : g[x] = IF x = v THEN n ELSE 0, NEW f, AddsUp(D, g, f),
         NEW r \in SUBSET D
  PROVE  f[r] = IF v \in r THEN n ELSE 0
<1>1. { v } \in SUBSET D /\ {} \in SUBSET D /\ \A x \in D \ { v } : g[x] = 0
  OBVIOUS
<1>2. f[r] = f[r \cap { v }]
  <2> DEFINE S == { v }
  <2>1. S \in SUBSET D /\ \A x \in D \ S : g[x] = 0
    OBVIOUS
  <2> HIDE DEF S
  <2>2. f[r] = f[r \cap S]
    BY <2>1, SumWithoutZeros
  <2> QED
    BY <2>2 DEF S
<1>3. f[{}] = 0
  BY <1>1 DEF AddsUp, Unfolds
<1>4. f[{} \cup { v }] = g[v] + f[{}]
  BY <1>1, SumWithOneMore
<1>5. {} \cup { v } = { v }
  OBVIOUS
<1>6. f[{ v }] = n
  BY <1>3, <1>4, <1>5
<1>7. CASE v \in r
  <2>1. r \cap { v } = { v }
    BY <1>7
  <2> QED
    BY <1>2, <1>6, <1>7, <2>1
<1>8. CASE v \notin r
  <2>1. r \cap { v } = {}
    BY <1>8
  <2> QED
    BY <1>2, <1>3, <1>8, <2>1
<1> QED
  BY <1>7, <1>8

-----------------------------------------------------------------------------
(* Histogram: the binary search.                                           *)

Bucket == 0 .. LastBucket

LEMMA TableIs ==
  /\ LastBucket \in Nat /\ MaxU \in Nat
  /\ \A i \in 0 .. LastBucket + 1 : threshold_values_[i] \in 0 .. MaxU
  /\ \A i \in Bucket : threshold_values_[i] < threshold_values_[i + 1]
  /\ threshold_values_[0] = 0 /\ threshold_values_[LastBucket + 1] = MaxU
<1>1. /\ Thresholds \in Seq(0 .. MaxU) /\ Len(Thresholds) >= 2 /\ Len(Thresholds) \in Nat
      /\ LastBucket = Len(Thresholds) - 2
  BY ThresholdsAssumption DEF total_threshold_values_, LastBucket
<1>2. LastBucket \in Nat /\ LastBucket + 1 = Len(Thresholds) - 1
  BY <1>1
<1>3. ASSUME NEW i \in 0 .. LastBucket + 1 PROVE threshold_values_[i] \in 0 .. MaxU
  <2>1. i \in 0 .. Len(Thresholds) - 1 /\ i + 1 \in 1 .. Len(Thresholds)
    BY <1>1, <1>2
  <2>2. Thresholds[i + 1] \in 0 .. MaxU
    BY <1>1, <2>1, ElementOfSeq
  <2>3. threshold_values_[i] = Thresholds[i + 1]
    BY <2>1 DEF threshold_values_
  <2> QED
    BY <2>2, <2>3
<1> QED
  BY <1>2, <1>3, ThresholdsAssumption DEF Bucket

\* The thresholds do not decrease.
LEMMA Growing ==
  ASSUME NEW i \in 0 .. LastBucket + 1, NEW j \in 0 .. LastBucket + 1, i <= j
  PROVE  threshold_values_[i] <= threshold_values_[j]
<1> DEFINE B == { k \in Nat : /\ i <= k /\ k <= LastBucket + 1
                             /\ ~(threshold_values_[i] <= threshold_values_[k]) }
<1>1. SUFFICES ASSUME B # {} PROVE FALSE
  <2>1. LastBucket \in Nat
    BY TableIs
  <2> QED
    BY <2>1
<1>2. PICK k \in B : \A m \in B : k <= m
  <2>1. B \in SUBSET Nat
    OBVIOUS
  <2> HIDE DEF B
  <2> QED
    BY <1>1, <2>1, LeastNumber
<1>3. /\ k \in Nat /\ i <= k /\ k <= LastBucket + 1
      /\ ~(threshold_values_[i] <= threshold_values_[k])
  BY <1>2
<1>4. LastBucket \in Nat /\ threshold_values_[i] \in Int
  BY TableIs
<1>5. k # i
  BY <1>3, <1>4
<1>6. k - 1 \in Nat /\ i <= k - 1 /\ k - 1 <= LastBucket + 1 /\ ~(k <= k - 1)
  BY <1>3, <1>4, <1>5
<1>7. threshold_values_[i] <= threshold_values_[k - 1]
  BY <1>2, <1>6
<1>8. k - 1 \in Bucket /\ (k - 1) + 1 = k /\ k \in 0 .. LastBucket + 1
      /\ k - 1 \in 0 .. LastBucket + 1
  BY <1>3, <1>4, <1>6 DEF Bucket
<1>9. threshold_values_[k - 1] < threshold_values_[k]
  BY <1>8, TableIs
<1>10. threshold_values_[k - 1] \in Int /\ threshold_values_[k] \in Int
  BY <1>8, TableIs
<1> QED
  BY <1>3, <1>4, <1>7, <1>9, <1>10

\* Each value lies in one zone.
LEMMA ZoneFound ==
  ASSUME NEW v \in 0 .. MaxU
  PROVE  \E z \in Bucket : v \in Zone(z)
<1> DEFINE B == { n \in Nat : n = LastBucket \/ (n < LastBucket /\ v < threshold_values_[n + 1]) }
<1>1. LastBucket \in Nat /\ MaxU \in Nat /\ threshold_values_[0] = 0
  BY TableIs
<1>2. PICK z \in B : \A m \in B : z <= m
  <2>1. LastBucket \in B /\ B \in SUBSET Nat
    BY <1>1
  <2> HIDE DEF B
  <2> QED
    BY <2>1, LeastNumber
<1>3. z \in Bucket /\ (v < threshold_values_[z + 1] \/ z = LastBucket)
  BY <1>1, <1>2 DEF Bucket
<1>4. threshold_values_[z] <= v
  <2>1. CASE z = 0
    BY <1>1, <2>1
  <2>2. CASE z # 0
    <3>1. z - 1 \in Nat /\ z - 1 < LastBucket /\ (z - 1) + 1 = z /\ ~(z <= z - 1)
      BY <1>1, <1>3, <2>2 DEF Bucket
    <3>2. z - 1 \notin B
      BY <1>2, <3>1
    <3>3. ~(v < threshold_values_[z])
      BY <3>1, <3>2
    <3>4. threshold_values_[z] \in Int
      BY <1>1, <1>3, TableIs DEF Bucket
    <3> QED
      BY <3>3, <3>4
  <2> QED
    BY <2>1, <2>2
<1> QED
  BY <1>3, <1>4 DEF Zone

LEMMA ZoneOnly ==
  ASSUME NEW v, NEW b \in Bucket, NEW z \in Bucket, v \in Zone(b), v \in Zone(z)
  PROVE  ~(b < z)
<1>1. SUFFICES ASSUME b < z PROVE FALSE
  OBVIOUS
<1>2. LastBucket \in Nat /\ b \in 0 .. LastBucket /\ z \in 0 .. LastBucket
  BY TableIs DEF Bucket
<1>3. b + 1 \in 0 .. LastBucket + 1 /\ z \in 0 .. LastBucket + 1 /\ b + 1 <= z
  BY <1>1, <1>2
<1>4. threshold_values_[b + 1] <= threshold_values_[z]
  BY <1>3, Growing
<1>5. v < threshold_values_[b + 1] /\ threshold_values_[z] <= v /\ v \in Int
  BY <1>1, <1>2 DEF Zone
<1>6. threshold_values_[b + 1] \in Int /\ threshold_values_[z] \in Int
  BY <1>3, TableIs
<1> QED
  BY <1>4, <1>5, <1>6

Zones == (0 .. LastBucket) \X (0 .. LastBucket)

Middle(p) == (p[1] + p[2]) \div 2

\* One pass of the search of the zones p, with f for the passes after it.
Probe(v, p, f) ==
  LET mid == Middle(p)
  IN  IF threshold_values_[mid] <= v /\ v < threshold_values_[mid + 1] THEN mid
      ELSE IF v < threshold_values_[mid]
           THEN IF p[1] <= mid - 1 THEN f[<< p[1], mid - 1 >>] ELSE mid
           ELSE IF mid + 1 <= p[2] THEN f[<< mid + 1, p[2] >>] ELSE mid

LEMMA SearchProbes ==
  ASSUME NEW v
  PROVE  Search(v) = (CHOOSE f : f = [p \in Zones |-> Probe(v, p, f)])[<< 0, LastBucket >>]
BY DEF Search, Zones, Probe, Middle

LEMMA MiddleIs ==
  ASSUME NEW l \in Nat, NEW r \in Nat
  PROVE  /\ (l + r) \div 2 \in Nat
         /\ l <= r => l <= (l + r) \div 2 /\ (l + r) \div 2 <= r
         /\ r < l  => r <= (l + r) \div 2 /\ (l + r) \div 2 < l
OBVIOUS

\* What a pass does, with z for the zone of v.
LEMMA ProbeIs ==
  ASSUME NEW v \in 0 .. MaxU, NEW z \in Bucket, v \in Zone(z),
         NEW l \in Bucket, NEW r \in Bucket, NEW f, NEW mid, mid = (l + r) \div 2
  PROVE  /\ mid \in Bucket
         /\ l <= r => l <= mid /\ mid <= r
         /\ r < l  => r <= mid /\ mid < l
         /\ mid = z => Probe(v, << l, r >>, f) = z
         /\ z < mid => Probe(v, << l, r >>, f) = IF l <= mid - 1 THEN f[<< l, mid - 1 >>] ELSE mid
         /\ mid < z => Probe(v, << l, r >>, f) = IF mid + 1 <= r THEN f[<< mid + 1, r >>] ELSE mid
<1>1. LastBucket \in Nat /\ MaxU \in Nat /\ threshold_values_[LastBucket + 1] = MaxU
  BY TableIs
<1>2. l \in Nat /\ r \in Nat /\ z \in Nat /\ l <= LastBucket /\ r <= LastBucket
      /\ z <= LastBucket
  BY <1>1 DEF Bucket
<1>3. /\ mid \in Nat
      /\ l <= r => l <= mid /\ mid <= r
      /\ r < l  => r <= mid /\ mid < l
  <2>1. /\ (l + r) \div 2 \in Nat
        /\ l <= r => l <= (l + r) \div 2 /\ (l + r) \div 2 <= r
        /\ r < l  => r <= (l + r) \div 2 /\ (l + r) \div 2 < l
    BY <1>2, MiddleIs
  <2>2. mid = (l + r) \div 2
    OBVIOUS
  <2> QED
    BY <2>1, <2>2, Zenon
<1>4. mid \in Bucket
  BY <1>1, <1>2, <1>3 DEF Bucket
<1>5. /\ v \in Int /\ threshold_values_[z] <= v
      /\ v < threshold_values_[z + 1] \/ z = LastBucket
  BY <1>1 DEF Zone
<1>6. /\ mid \in 0 .. LastBucket + 1 /\ mid + 1 \in 0 .. LastBucket + 1
      /\ z \in 0 .. LastBucket + 1 /\ z + 1 \in 0 .. LastBucket + 1
  BY <1>1, <1>2, <1>4 DEF Bucket
<1>7. /\ threshold_values_[mid] \in Int /\ threshold_values_[mid + 1] \in Int
      /\ threshold_values_[z] \in Int /\ threshold_values_[z + 1] \in Int
  BY <1>6, TableIs
<1>8. Probe(v, << l, r >>, f) =
        IF threshold_values_[mid] <= v /\ v < threshold_values_[mid + 1] THEN mid
        ELSE IF v < threshold_values_[mid]
             THEN IF l <= mid - 1 THEN f[<< l, mid - 1 >>] ELSE mid
             ELSE IF mid + 1 <= r THEN f[<< mid + 1, r >>] ELSE mid
  BY DEF Probe, Middle
<1>9. ASSUME mid = z
      PROVE  Probe(v, << l, r >>, f) = z
  <2>1. CASE v < threshold_values_[z + 1]
    BY <1>5, <1>8, <1>9, <2>1
  <2>2. CASE ~(v < threshold_values_[z + 1])
    <3>1. z = LastBucket /\ ~(v < MaxU)
      BY <1>1, <1>5, <2>2
    <3>2. r <= z
      BY <1>2, <3>1
    <3>3. ~(mid + 1 <= r)
      BY <1>2, <1>9, <3>2
    <3>4. ~(v < threshold_values_[mid])
      BY <1>5, <1>7, <1>9
    <3> QED
      BY <1>8, <1>9, <2>2, <3>2, <3>3, <3>4
  <2> QED
    BY <2>1, <2>2
<1>10. ASSUME z < mid
       PROVE  Probe(v, << l, r >>, f) = IF l <= mid - 1 THEN f[<< l, mid - 1 >>] ELSE mid
  <2>1. z + 1 <= mid /\ z # LastBucket
    BY <1>1, <1>2, <1>3, <1>4, <1>10 DEF Bucket
  <2>2. threshold_values_[z + 1] <= threshold_values_[mid]
    BY <1>6, <2>1, Growing
  <2>3. v < threshold_values_[mid]
    BY <1>5, <1>7, <2>1, <2>2
  <2>4. ~(threshold_values_[mid] <= v)
    BY <1>5, <1>7, <2>3
  <2> QED
    BY <1>8, <2>3, <2>4
<1>11. ASSUME mid < z
       PROVE  Probe(v, << l, r >>, f) = IF mid + 1 <= r THEN f[<< mid + 1, r >>] ELSE mid
  <2>1. mid + 1 <= z /\ mid <= z
    BY <1>2, <1>3, <1>11
  <2>2. threshold_values_[mid + 1] <= threshold_values_[z]
    BY <1>6, <2>1, Growing
  <2>3. threshold_values_[mid] <= threshold_values_[z]
    BY <1>6, <2>1, Growing
  <2>4. ~(v < threshold_values_[mid + 1]) /\ ~(v < threshold_values_[mid])
    BY <1>5, <1>7, <2>2, <2>3
  <2> QED
    BY <1>8, <2>4
<1> QED
  BY <1>3, <1>4, <1>9, <1>10, <1>11

\* Where the search ends: the zone of v, or where nearest to it the zones end.
Nearest(z, p) ==
  IF p[2] < p[1] THEN Middle(p)
  ELSE IF z < p[1] THEN p[1] ELSE IF p[2] < z THEN p[2] ELSE z

LEMMA NearestIs ==
  ASSUME NEW v \in 0 .. MaxU, NEW z \in Bucket, v \in Zone(z), NEW f,
         f = [p \in Zones |-> Nearest(z, p)]
  PROVE  f = [p \in Zones |-> Probe(v, p, f)]
<1>1. SUFFICES ASSUME NEW p \in Zones PROVE Nearest(z, p) = Probe(v, p, f)
  OBVIOUS
<1>2. PICK l \in Bucket, r \in Bucket : p = << l, r >>
  BY DEF Zones, Bucket
<1>3. l \in Nat /\ r \in Nat /\ z \in Nat /\ LastBucket \in Nat
  BY TableIs DEF Bucket
<1> DEFINE mid == (l + r) \div 2
<1>4. mid = (l + r) \div 2
  OBVIOUS
<1>5. Middle(p) = mid /\ p[1] = l /\ p[2] = r
  BY <1>2 DEF Middle
<1> HIDE DEF mid
<1>6. /\ mid \in Bucket
      /\ l <= r => l <= mid /\ mid <= r
      /\ r < l  => r <= mid /\ mid < l
      /\ mid = z => Probe(v, << l, r >>, f) = z
      /\ z < mid => Probe(v, << l, r >>, f) = IF l <= mid - 1 THEN f[<< l, mid - 1 >>] ELSE mid
      /\ mid < z => Probe(v, << l, r >>, f) = IF mid + 1 <= r THEN f[<< mid + 1, r >>] ELSE mid
  BY <1>4, ProbeIs
<1>7. mid \in Nat /\ (mid = z \/ z < mid \/ mid < z)
  BY <1>3, <1>6 DEF Bucket
<1>8. Nearest(z, p) = IF r < l THEN mid ELSE IF z < l THEN l ELSE IF r < z THEN r ELSE z
  BY <1>5 DEF Nearest
<1>9. ASSUME NEW i \in Bucket, NEW j \in Bucket, i <= j
      PROVE  f[<< i, j >>] = IF z < i THEN i ELSE IF j < z THEN j ELSE z
  <2>1. << i, j >> \in Zones /\ ~(j < i)
    BY <1>9 DEF Zones, Bucket
  <2> QED
    BY <2>1 DEF Nearest
<1>10. CASE mid = z
  BY <1>2, <1>3, <1>6, <1>7, <1>8, <1>10
<1>11. CASE z < mid
  <2>1. CASE l <= mid - 1
    <3>1. mid - 1 \in Bucket
      BY <1>3, <1>6, <1>7, <1>11 DEF Bucket
    <3>2. f[<< l, mid - 1 >>] = IF z < l THEN l ELSE IF mid - 1 < z THEN mid - 1 ELSE z
      BY <1>9, <2>1, <3>1
    <3>3. ~(mid - 1 < z) /\ ~(r < l)
      BY <1>3, <1>6, <1>7, <1>11, <2>1
    <3>4. ~(r < z)
      BY <1>3, <1>6, <1>7, <1>11, <3>3
    <3> QED
      BY <1>2, <1>6, <1>8, <1>11, <2>1, <3>2, <3>3, <3>4
  <2>2. CASE ~(l <= mid - 1)
    <3>1. Probe(v, p, f) = mid
      BY <1>2, <1>6, <1>11, <2>2
    <3>2. CASE r < l
      BY <1>8, <3>1, <3>2
    <3>3. CASE ~(r < l)
      <4>1. mid = l /\ z < l
        BY <1>3, <1>6, <1>7, <1>11, <2>2, <3>3
      <4> QED
        BY <1>8, <3>1, <3>3, <4>1
    <3> QED
      BY <3>2, <3>3
  <2> QED
    BY <2>1, <2>2
<1>12. CASE mid < z
  <2>1. CASE mid + 1 <= r
    <3>1. mid + 1 \in Bucket
      BY <1>3, <1>6, <1>7, <1>12 DEF Bucket
    <3>2. f[<< mid + 1, r >>] = IF z < mid + 1 THEN mid + 1 ELSE IF r < z THEN r ELSE z
      BY <1>9, <2>1, <3>1
    <3>3. ~(z < mid + 1) /\ ~(r < l)
      BY <1>3, <1>6, <1>7, <1>12, <2>1
    <3>4. ~(z < l)
      BY <1>3, <1>6, <1>7, <1>12, <3>3
    <3> QED
      BY <1>2, <1>6, <1>8, <1>12, <2>1, <3>2, <3>3, <3>4
  <2>2. CASE ~(mid + 1 <= r)
    <3>1. Probe(v, p, f) = mid
      BY <1>2, <1>6, <1>12, <2>2
    <3>2. CASE r < l
      BY <1>8, <3>1, <3>2
    <3>3. CASE ~(r < l)
      <4>1. mid = r /\ r < z /\ ~(z < l)
        BY <1>3, <1>6, <1>7, <1>12, <2>2, <3>3
      <4> QED
        BY <1>8, <3>1, <3>3, <4>1
    <3> QED
      BY <3>2, <3>3
  <2> QED
    BY <2>1, <2>2
<1> QED
  BY <1>7, <1>10, <1>11, <1>12

\* The search ends in the zone of the value.
LEMMA SearchIs ==
  ASSUME NEW v \in 0 .. MaxU, NEW z \in Bucket, v \in Zone(z)
  PROVE  Search(v) = z
<1> DEFINE f == CHOOSE f : f = [p \in Zones |-> Probe(v, p, f)]
           w == [p \in Zones |-> Nearest(z, p)]
<1>1. f = [p \in Zones |-> Probe(v, p, f)]
  <2>1. w = [p \in Zones |-> Nearest(z, p)]
    OBVIOUS
  <2> HIDE DEF w
  <2>2. w = [p \in Zones |-> Probe(v, p, w)]
    BY <2>1, NearestIs
  <2> QED
    BY <2>2
<1>2. Search(v) = f[<< 0, LastBucket >>]
  BY SearchProbes
<1> HIDE DEF f, w
<1> DEFINE B == { n \in Nat : \E l \in Bucket, r \in Bucket :
                   r - l = n /\ l <= z /\ z <= r /\ f[<< l, r >>] # z }
<1>3. LastBucket \in Nat /\ z \in 0 .. LastBucket
  BY TableIs DEF Bucket
<1>4. B = {}
  <2>1. SUFFICES ASSUME B # {} PROVE FALSE
    OBVIOUS
  <2>2. PICK n \in B : \A m \in B : n <= m
    <3>1. B \in SUBSET Nat
      OBVIOUS
    <3> HIDE DEF B
    <3> QED
      BY <2>1, <3>1, LeastNumber
  <2>3. PICK l \in Bucket, r \in Bucket : r - l = n /\ l <= z /\ z <= r /\ f[<< l, r >>] # z
    BY <2>2
  <2>4. l \in Nat /\ r \in Nat /\ z \in Nat /\ l <= r /\ n = r - l
    BY <1>3, <2>3 DEF Bucket
  <2>5. ASSUME NEW i \in Bucket, NEW j \in Bucket, i <= z, z <= j, j - i < n
        PROVE  f[<< i, j >>] = z
    <3>1. j - i \in Nat /\ ~(n <= j - i)
      BY <1>3, <2>4, <2>5 DEF Bucket
    <3>2. j - i \notin B
      BY <2>2, <3>1
    <3> QED
      BY <2>5, <3>1, <3>2
  <2> HIDE DEF B
  <2> DEFINE mid == (l + r) \div 2
  <2>6. mid = (l + r) \div 2
    OBVIOUS
  <2> HIDE DEF mid
  <2>7. f[<< l, r >>] = Probe(v, << l, r >>, f)
    <3>1. << l, r >> \in Zones
      BY DEF Zones, Bucket
    <3> QED
      BY <1>1, <3>1
  <2>8. /\ mid \in Bucket
        /\ l <= r => l <= mid /\ mid <= r
        /\ r < l  => r <= mid /\ mid < l
        /\ mid = z => Probe(v, << l, r >>, f) = z
        /\ z < mid => Probe(v, << l, r >>, f) = IF l <= mid - 1 THEN f[<< l, mid - 1 >>] ELSE mid
        /\ mid < z => Probe(v, << l, r >>, f) = IF mid + 1 <= r THEN f[<< mid + 1, r >>] ELSE mid
    BY <2>6, ProbeIs
  <2>9. mid \in Nat /\ mid <= LastBucket /\ (mid = z \/ z < mid \/ mid < z)
    BY <1>3, <2>8 DEF Bucket
  <2>10. CASE z < mid
    <3>1. mid - 1 \in Bucket /\ l <= mid - 1 /\ z <= mid - 1 /\ (mid - 1) - l < n
      BY <1>3, <2>3, <2>4, <2>8, <2>9, <2>10 DEF Bucket
    <3>2. f[<< l, mid - 1 >>] = z
      BY <2>3, <2>5, <3>1
    <3> QED
      BY <2>3, <2>7, <2>8, <2>10, <3>1, <3>2
  <2>11. CASE mid < z
    <3>1. mid + 1 \in Bucket /\ mid + 1 <= r /\ mid + 1 <= z /\ r - (mid + 1) < n
      BY <1>3, <2>3, <2>4, <2>8, <2>9, <2>11 DEF Bucket
    <3>2. f[<< mid + 1, r >>] = z
      BY <2>3, <2>5, <3>1
    <3> QED
      BY <2>3, <2>7, <2>8, <2>11, <3>1, <3>2
  <2> QED
    BY <2>3, <2>7, <2>8, <2>9, <2>10, <2>11
<1>5. 0 \in Bucket /\ LastBucket \in Bucket /\ LastBucket - 0 \in Nat /\ 0 <= z
      /\ z <= LastBucket
  BY <1>3 DEF Bucket
<1>6. f[<< 0, LastBucket >>] = z
  <2>1. LastBucket - 0 \notin B
    BY <1>4
  <2> QED
    BY <1>5, <2>1
<1> QED
  BY <1>2, <1>6

-----------------------------------------------------------------------------
(* Histogram: the sums.                                                    *)

LEMMA ModAdds ==
  ASSUME NEW a \in Int, NEW b \in Int, NEW m \in Nat \ {0}
  PROVE  ((a % m) + b) % m = (a + b) % m
<1> DEFINE q == a \div m
           r == a % m
           p == (r + b) \div m
           s == (r + b) % m
<1>1. q \in Int /\ r \in 0 .. m - 1 /\ a = q * m + r
  BY DivMod
<1>2. r + b \in Int /\ s = (r + b) % m /\ r = a % m
  BY <1>1
<1>3. p \in Int /\ s \in 0 .. m - 1 /\ r + b = p * m + s
  <2> HIDE DEF r
  <2> QED
    BY <1>2, DivMod
<1> HIDE DEF q, r, p, s
<1>4. a + b = (q + p) * m + s
  <2>1. a + b = q * m + (p * m + s)
    BY <1>1, <1>3
  <2>2. (q + p) * m = q * m + p * m
    BY <1>1, <1>3
  <2>3. q * m \in Int /\ p * m \in Int
    BY <1>1, <1>3
  <2> QED
    BY <1>3, <2>1, <2>2, <2>3
<1>5. q + p \in Int
  BY <1>1, <1>3
<1>6. ((q + p) * m + s) % m = s
  BY <1>3, <1>5, DivUnique
<1> QED
  BY <1>2, <1>4, <1>6

LEMMA ModsAdd ==
  ASSUME NEW a \in Int, NEW b \in Int, NEW m \in Nat \ {0}
  PROVE  ((a % m) + (b % m)) % m = (a + b) % m
<1>1. a % m \in Int /\ b % m \in Int
  BY DivMod
<1> DEFINE c == b % m
<1>2. c \in Int
  BY <1>1
<1>3. (c + a) % m = (b + a) % m
  <2>1. ((b % m) + a) % m = (b + a) % m
    BY ModAdds
  <2> QED
    BY <2>1
<1> HIDE DEF c
<1>4. ((a % m) + c) % m = (a + c) % m
  BY <1>2, ModAdds
<1>5. a + c = c + a /\ a + b = b + a
  BY <1>2
<1> QED
  BY <1>3, <1>4, <1>5 DEF c

Value == 0 .. MaxU

Sum(g, S) == Total(Value, g)[S]

Weighted(g) == [v \in Value |-> v * g[v]]

LEMMA ValuesAre == MaxU \in Nat /\ IsFiniteSet(Value) /\ Value \subseteq Nat /\ Value \in SUBSET Value
<1>1. MaxU \in Nat
  BY TableIs
<1>2. IsFiniteSet(Value)
  BY <1>1, FS_Interval DEF Value
<1> QED
  BY <1>1, <1>2 DEF Value

LEMMA WeightedIs ==
  ASSUME NEW g \in [Value -> Nat]
  PROVE  Weighted(g) \in [Value -> Int] /\ g \in [Value -> Int]
<1>1. ASSUME NEW v \in Value PROVE v * g[v] \in Int
  <2>1. v \in Int /\ g[v] \in Int
    BY ValuesAre
  <2> QED
    BY <2>1
<1> QED
  BY <1>1 DEF Weighted

\* The function that MapThenSumSet() calls itself by.
LEMMA SumUnfolds ==
  ASSUME NEW g \in [Value -> Int], NEW S \in SUBSET Value,
         NEW W, W = (CHOOSE f : f = [s \in SUBSET S |-> IF s = {} THEN 0
                                       ELSE g[Some(s)] + f[s \ { Some(s) }]])
  PROVE  W[S] = Sum(g, S)
<1> DEFINE T == Total(Value, g)
           Z == [s \in SUBSET S |-> T[s]]
<1>1. AddsUp(Value, g, T) /\ IsFiniteSet(Value)
  BY ValuesAre, TotalAddsUp
<1> HIDE DEF T
<1>2. Z = [s \in SUBSET S |-> IF s = {} THEN 0 ELSE g[Some(s)] + Z[s \ { Some(s) }]]
  <2> SUFFICES ASSUME NEW s \in SUBSET S
               PROVE  Z[s] = IF s = {} THEN 0 ELSE g[Some(s)] + Z[s \ { Some(s) }]
    OBVIOUS
  <2>1. s \in SUBSET Value /\ s \ { Some(s) } \in SUBSET S
    OBVIOUS
  <2> QED
    BY <1>1, <2>1 DEF AddsUp, Unfolds
<1> HIDE DEF Z
<1>3. W = [s \in SUBSET S |-> IF s = {} THEN 0 ELSE g[Some(s)] + W[s \ { Some(s) }]]
  BY <1>2
<1>4. Unfolds(S, g, W)
  BY <1>3 DEF Unfolds
<1>5. Unfolds(Value, g, T)
  BY <1>1 DEF AddsUp
<1>6. S \subseteq Value /\ S \subseteq S
  OBVIOUS
<1>7. W[S] = T[S]
  BY <1>1, <1>4, <1>5, <1>6, SumsAgree
<1> QED
  BY <1>7 DEF T, Sum

LEMMA CountedIs ==
  ASSUME NEW h, added[h] \in [Value -> Nat], NEW S \in SUBSET Value
  PROVE  Counted(h, S) = Sum(added[h], S)
<1> DEFINE g == added[h]
           W == CHOOSE f : f = [s \in SUBSET S |-> IF s = {} THEN 0
                                  ELSE g[Some(s)] + f[s \ { Some(s) }]]
<1>1. Counted(h, S) = W[S]
  BY DEF Counted, MapThenSumSet, MapThenFoldSet, Some
<1>2. g \in [Value -> Int]
  BY WeightedIs
<1> HIDE DEF g
<1>3. W[S] = Sum(g, S)
  <2>1. W = CHOOSE f : f = [s \in SUBSET S |-> IF s = {} THEN 0
                              ELSE g[Some(s)] + f[s \ { Some(s) }]]
    OBVIOUS
  <2> HIDE DEF W
  <2> QED
    BY <1>2, <2>1, SumUnfolds
<1> QED
  BY <1>1, <1>3 DEF g

LEMMA SummedIs ==
  ASSUME NEW h, added[h] \in [Value -> Nat], NEW S \in SUBSET Value
  PROVE  Summed(h, S) = Sum(Weighted(added[h]), S)
<1> DEFINE g == Weighted(added[h])
           W == CHOOSE f : f = [s \in SUBSET S |-> IF s = {} THEN 0
                                  ELSE Some(s) * added[h][Some(s)] + f[s \ { Some(s) }]]
           T == Total(Value, g)
           Z == [s \in SUBSET S |-> T[s]]
<1>1. Summed(h, S) = W[S]
  BY DEF Summed, MapThenSumSet, MapThenFoldSet, Some
<1>2. g \in [Value -> Int]
  BY WeightedIs
<1>3. \A s \in SUBSET S : s # {} => g[Some(s)] = Some(s) * added[h][Some(s)]
  <2> SUFFICES ASSUME NEW s \in SUBSET S, s # {}
               PROVE  g[Some(s)] = Some(s) * added[h][Some(s)]
    OBVIOUS
  <2>1. Some(s) \in Value
    BY SomeIsIn
  <2> QED
    BY <2>1 DEF Weighted
<1> HIDE DEF g
<1>4. AddsUp(Value, g, T) /\ IsFiniteSet(Value)
  BY <1>2, ValuesAre, TotalAddsUp
<1> HIDE DEF T
<1>5. Z = [s \in SUBSET S |-> IF s = {} THEN 0
             ELSE Some(s) * added[h][Some(s)] + Z[s \ { Some(s) }]]
  <2> SUFFICES ASSUME NEW s \in SUBSET S
               PROVE  Z[s] = IF s = {} THEN 0
                             ELSE Some(s) * added[h][Some(s)] + Z[s \ { Some(s) }]
    OBVIOUS
  <2>1. s \in SUBSET Value /\ s \ { Some(s) } \in SUBSET S
    OBVIOUS
  <2> QED
    BY <1>3, <1>4, <2>1 DEF AddsUp, Unfolds
<1> HIDE DEF Z
<1>6. W = [s \in SUBSET S |-> IF s = {} THEN 0
             ELSE Some(s) * added[h][Some(s)] + W[s \ { Some(s) }]]
  BY <1>5
<1> HIDE DEF W
<1>7. Unfolds(S, g, W)
  BY <1>3, <1>6 DEF Unfolds
<1>8. Unfolds(Value, g, T)
  BY <1>4 DEF AddsUp
<1>9. S \subseteq Value /\ S \subseteq S
  OBVIOUS
<1>10. W[S] = T[S]
  BY <1>4, <1>7, <1>8, <1>9, SumsAgree
<1> QED
  BY <1>1, <1>10 DEF g, T, Sum

\* The sum of a function that is two others' sum.
IsSumOf(c, a, b) ==
  /\ a \in [Value -> Int] /\ b \in [Value -> Int] /\ c \in [Value -> Int]
  /\ \A v \in Value : c[v] = a[v] + b[v]

LEMMA SumsOfTwo ==
  ASSUME NEW a, NEW b, NEW c, IsSumOf(c, a, b), NEW S \in SUBSET Value
  PROVE  Sum(c, S) = Sum(a, S) + Sum(b, S) /\ Sum(a, S) \in Int /\ Sum(b, S) \in Int
<1>1. /\ a \in [Value -> Int] /\ b \in [Value -> Int] /\ c \in [Value -> Int]
      /\ \A v \in Value : c[v] = a[v] + b[v]
  BY DEF IsSumOf
<1> DEFINE x == Total(Value, a)
           y == Total(Value, b)
           z == Total(Value, c)
<1>2. IsFiniteSet(Value)
  BY ValuesAre
<1>3. AddsUp(Value, a, x) /\ AddsUp(Value, b, y) /\ AddsUp(Value, c, z)
  BY <1>1, <1>2, TotalAddsUp
<1> HIDE DEF x, y, z
<1>4. z[S] = x[S] + y[S]
  BY <1>1, <1>2, <1>3, SumOfSums
<1>5. x[S] \in Int /\ y[S] \in Int
  BY <1>3 DEF AddsUp
<1> QED
  BY <1>4, <1>5 DEF Sum, x, y, z

Single(v, n) == [x \in Value |-> IF x = v THEN n ELSE 0]

LEMMA SumOfSingle ==
  ASSUME NEW v \in Value, NEW n \in Int, NEW S \in SUBSET Value
  PROVE  Single(v, n) \in [Value -> Int] /\ Sum(Single(v, n), S) = IF v \in S THEN n ELSE 0
<1> DEFINE g == Single(v, n)
<1>1. g \in [Value -> Int] /\ \A x \in Value : g[x] = IF x = v THEN n ELSE 0
  BY DEF Single
<1> HIDE DEF g
<1>2. IsFiniteSet(Value) /\ AddsUp(Value, g, Total(Value, g))
  BY <1>1, ValuesAre, TotalAddsUp
<1> DEFINE f == Total(Value, g)
<1>3. AddsUp(Value, g, f)
  BY <1>2
<1> HIDE DEF f
<1>4. f[S] = IF v \in S THEN n ELSE 0
  BY <1>1, <1>2, <1>3, SumOfOne
<1> QED
  BY <1>1, <1>4 DEF f, g, Sum

LEMMA SumOfNothing ==
  ASSUME NEW S \in SUBSET Value
  PROVE  Sum(NoValue, S) = 0 /\ Sum(Weighted(NoValue), S) = 0
<1>1. 0 \in Value
  BY ValuesAre DEF Value
<1>2. Single(0, 0) = NoValue
  BY DEF Single, NoValue, Value
<1>3. Weighted(NoValue) = NoValue
  <2>1. \A v \in Value : v * 0 = 0
    BY ValuesAre
  <2> QED
    BY <2>1 DEF Weighted, NoValue, Value
<1>4. Sum(Single(0, 0), S) = 0
  BY <1>1, SumOfSingle
<1> QED
  BY <1>2, <1>3, <1>4

\* Values that are not there count for nothing.
LEMMA SumOfValues ==
  ASSUME NEW g \in [Value -> Int], NEW S \in SUBSET Value, \A v \in Value \ S : g[v] = 0
  PROVE  Sum(g, S) = Sum(g, Value)
<1> DEFINE f == Total(Value, g)
<1>1. IsFiniteSet(Value) /\ AddsUp(Value, g, f)
  BY ValuesAre, TotalAddsUp
<1> HIDE DEF f
<1>2. Value \in SUBSET Value
  OBVIOUS
<1>3. f[Value] = f[Value \cap S]
  BY <1>1, <1>2, SumWithoutZeros
<1>4. Value \cap S = S
  OBVIOUS
<1> QED
  BY <1>3, <1>4 DEF f, Sum

HistSet == [ min : Value, max : Value, total : Value, count : Nat, buckets : [Bucket -> Nat] ]

\* A record that says of the values g what counting and adding them would.
Counts(r, g) ==
  /\ \A b \in Bucket : r.buckets[b] = Sum(g, Zone(b))
  /\ r.count = Sum(g, Value)
  /\ r.total = Wrapped(Sum(Weighted(g), Value))

Biggest(m, g) ==
  /\ \A v \in Value : g[v] # 0 => v <= m
  /\ g[m] # 0 \/ (m = 0 /\ \A v \in Value : g[v] = 0)

Smallest(m, g) ==
  /\ \A v \in Value : g[v] # 0 => m <= v
  /\ g[m] # 0 \/ (m = MaxU /\ \A v \in Value : g[v] = 0)

HistInv ==
  /\ hist \in [Hists -> HistSet] /\ added \in [Hists -> [Value -> Nat]]
  /\ \A h \in Hists : /\ Counts(hist[h], added[h])
                      /\ Biggest(hist[h].max, added[h])
                      /\ h \in fresh => Smallest(hist[h].min, added[h])

LEMMA ZoneIsSet == \A b \in Bucket : Zone(b) \in SUBSET Value
BY DEF Zone, Value

LEMMA WrappedIs == ASSUME NEW n \in Int PROVE Wrapped(n) \in Value
<1>1. MaxU \in Nat /\ MaxU + 1 \in Nat \ {0} /\ (MaxU + 1) - 1 = MaxU
  BY ValuesAre
<1>2. n % (MaxU + 1) \in 0 .. (MaxU + 1) - 1
  BY <1>1, DivMod
<1> QED
  BY <1>1, <1>2 DEF Wrapped, Value

\* No values.
LEMMA CountsNothing ==
  ASSUME NEW r, r.buckets = Nothing, r.count = 0, r.total = 0
  PROVE  Counts(r, NoValue)
<1>1. \A b \in Bucket : Nothing[b] = 0
  BY DEF Nothing, Bucket
<1>2. Wrapped(0) = 0
  <2>1. MaxU + 1 \in Nat \ {0} /\ 0 \in 0 .. (MaxU + 1) - 1
    BY ValuesAre
  <2>2. (0 * (MaxU + 1) + 0) % (MaxU + 1) = 0
    BY <2>1, DivUnique
  <2>3. 0 * (MaxU + 1) + 0 = 0
    BY <2>1
  <2> QED
    BY <2>2, <2>3 DEF Wrapped
<1>3. \A b \in Bucket : Sum(NoValue, Zone(b)) = 0
  BY ZoneIsSet, SumOfNothing
<1>4. Sum(NoValue, Value) = 0 /\ Sum(Weighted(NoValue), Value) = 0
  BY ValuesAre, SumOfNothing
<1> QED
  BY <1>1, <1>2, <1>3, <1>4 DEF Counts

\* The values of two.
LEMMA CountsBoth ==
  ASSUME NEW r \in HistSet, NEW g \in [Value -> Nat], Counts(r, g),
         NEW o \in HistSet, NEW e \in [Value -> Nat], Counts(o, e),
         NEW t \in HistSet, NEW c \in [Value -> Nat], \A v \in Value : c[v] = g[v] + e[v],
         \A b \in Bucket : t.buckets[b] = r.buckets[b] + o.buckets[b],
         t.count = r.count + o.count, t.total = Wrapped(r.total + o.total)
  PROVE  Counts(t, c)
<1>1. /\ g \in [Value -> Int] /\ e \in [Value -> Int] /\ c \in [Value -> Int]
      /\ Weighted(g) \in [Value -> Int] /\ Weighted(e) \in [Value -> Int]
      /\ Weighted(c) \in [Value -> Int]
  BY WeightedIs
<1>2. ASSUME NEW S \in SUBSET Value PROVE Sum(c, S) = Sum(g, S) + Sum(e, S)
  <2>1. IsSumOf(c, g, e)
    BY <1>1 DEF IsSumOf
  <2> QED
    BY <2>1, SumsOfTwo
<1>3. ASSUME NEW v \in Value PROVE Weighted(c)[v] = Weighted(g)[v] + Weighted(e)[v]
  <2>1. v \in Int /\ g[v] \in Int /\ e[v] \in Int /\ c[v] = g[v] + e[v]
    BY ValuesAre
  <2>2. v * (g[v] + e[v]) = v * g[v] + v * e[v]
    <3>1. ASSUME NEW x \in Int, NEW y \in Int, NEW z \in Int PROVE x * (y + z) = x * y + x * z
      OBVIOUS
    <3> QED
      BY <2>1, <3>1
  <2> QED
    BY <2>1, <2>2 DEF Weighted
<1>4. /\ Sum(Weighted(c), Value) = Sum(Weighted(g), Value) + Sum(Weighted(e), Value)
      /\ Sum(Weighted(g), Value) \in Int /\ Sum(Weighted(e), Value) \in Int
  <2>1. IsSumOf(Weighted(c), Weighted(g), Weighted(e))
    BY <1>1, <1>3 DEF IsSumOf
  <2>2. Value \in SUBSET Value
    OBVIOUS
  <2> QED
    BY <2>1, <2>2, SumsOfTwo
<1>5. MaxU + 1 \in Nat \ {0}
  BY ValuesAre
<1>6. t.total = Wrapped(Sum(Weighted(c), Value))
  <2>1. /\ r.total = Sum(Weighted(g), Value) % (MaxU + 1)
        /\ o.total = Sum(Weighted(e), Value) % (MaxU + 1)
    BY DEF Counts, Wrapped
  <2>2. ((Sum(Weighted(g), Value) % (MaxU + 1)) + (Sum(Weighted(e), Value) % (MaxU + 1)))
          % (MaxU + 1) = (Sum(Weighted(g), Value) + Sum(Weighted(e), Value)) % (MaxU + 1)
    BY <1>4, <1>5, ModsAdd
  <2> QED
    BY <1>4, <2>1, <2>2 DEF Wrapped
<1>7. \A b \in Bucket : t.buckets[b] = Sum(c, Zone(b))
  BY <1>2, ZoneIsSet DEF Counts
<1>8. t.count = Sum(c, Value)
  <2>1. Value \in SUBSET Value
    OBVIOUS
  <2> QED
    BY <1>2, <2>1 DEF Counts
<1> QED
  BY <1>6, <1>7, <1>8 DEF Counts

\* One value more.
LEMMA CountsOneMore ==
  ASSUME NEW r \in HistSet, NEW g \in [Value -> Nat], Counts(r, g), NEW w \in Value,
         NEW t \in HistSet, NEW c \in [Value -> Nat],
         \A v \in Value : c[v] = IF v = w THEN g[v] + 1 ELSE g[v],
         \A b \in Bucket : t.buckets[b] = IF b = Search(w) THEN r.buckets[b] + 1
                                          ELSE r.buckets[b],
         t.count = r.count + 1, t.total = Wrapped(r.total + w)
  PROVE  Counts(t, c)
<1> DEFINE e == Single(w, 1)
           d == Single(w, w)
<1>1. /\ g \in [Value -> Int] /\ c \in [Value -> Int]
      /\ Weighted(g) \in [Value -> Int] /\ Weighted(c) \in [Value -> Int]
  BY WeightedIs
<1>2. w \in Int /\ MaxU \in Nat /\ w \in 0 .. MaxU
  BY ValuesAre DEF Value
<1>one. \A S \in SUBSET Value : e \in [Value -> Int] /\ Sum(e, S) = IF w \in S THEN 1 ELSE 0
  <2>1. 1 \in Int
    OBVIOUS
  <2> QED
    BY <2>1, SumOfSingle
<1>all. \A S \in SUBSET Value : d \in [Value -> Int] /\ Sum(d, S) = IF w \in S THEN w ELSE 0
  BY <1>2, SumOfSingle
<1>3. /\ e \in [Value -> Int] /\ d \in [Value -> Int]
      /\ \A S \in SUBSET Value : Sum(e, S) = IF w \in S THEN 1 ELSE 0
      /\ \A S \in SUBSET Value : Sum(d, S) = IF w \in S THEN w ELSE 0
  <2>1. {} \in SUBSET Value
    OBVIOUS
  <2> QED
    BY <1>one, <1>all, <2>1
<1>4. \A v \in Value : c[v] = g[v] + e[v]
  BY <1>1 DEF Single
<1>5. ASSUME NEW v \in Value PROVE Weighted(c)[v] = Weighted(g)[v] + d[v]
  <2>1. v \in Int /\ g[v] \in Int /\ v * g[v] \in Int
    BY ValuesAre
  <2>2. v * (g[v] + 1) = v * g[v] + v
    BY <2>1
  <2> QED
    BY <2>1, <2>2 DEF Weighted, Single
<1> HIDE DEF e, d
<1>6. ASSUME NEW S \in SUBSET Value
      PROVE  Sum(c, S) = Sum(g, S) + Sum(e, S) /\ Sum(g, S) \in Int
  <2>1. IsSumOf(c, g, e)
    BY <1>1, <1>3, <1>4 DEF IsSumOf
  <2> QED
    BY <2>1, SumsOfTwo
<1>7. Value \in SUBSET Value
  OBVIOUS
<1>8. /\ Sum(Weighted(c), Value) = Sum(Weighted(g), Value) + Sum(d, Value)
      /\ Sum(Weighted(g), Value) \in Int
  <2>1. IsSumOf(Weighted(c), Weighted(g), d)
    BY <1>1, <1>3, <1>5 DEF IsSumOf
  <2> QED
    BY <1>7, <2>1, SumsOfTwo
<1>9. Sum(e, Value) = 1 /\ Sum(d, Value) = w
  BY <1>3, <1>7
<1>10. t.total = Wrapped(Sum(Weighted(c), Value))
  <2>1. MaxU + 1 \in Nat \ {0}
    BY <1>2
  <2>2. ((Sum(Weighted(g), Value) % (MaxU + 1)) + w) % (MaxU + 1)
          = (Sum(Weighted(g), Value) + w) % (MaxU + 1)
    BY <1>2, <1>8, <2>1, ModAdds
  <2> QED
    BY <1>8, <1>9, <2>2 DEF Counts, Wrapped
<1>11. t.count = Sum(c, Value)
  BY <1>6, <1>7, <1>9 DEF Counts
<1>12. ASSUME NEW b \in Bucket PROVE t.buckets[b] = Sum(c, Zone(b))
  <2>1. Zone(b) \in SUBSET Value
    BY ZoneIsSet
  <2>2. Sum(c, Zone(b)) = Sum(g, Zone(b)) + IF w \in Zone(b) THEN 1 ELSE 0
    BY <1>3, <1>6, <2>1
  <2>3. PICK z \in Bucket : w \in Zone(z)
    BY <1>2, ZoneFound
  <2>4. Search(w) = z
    BY <1>2, <2>3, SearchIs
  <2>5. w \in Zone(b) <=> b = z
    <3>1. ASSUME w \in Zone(b) PROVE b = z
      <4>1. ~(b < z) /\ ~(z < b)
        BY <2>3, <3>1, ZoneOnly
      <4>2. b \in Int /\ z \in Int
        BY TableIs DEF Bucket
      <4> QED
        BY <4>1, <4>2
    <3> QED
      BY <2>3, <3>1
  <2>6. r.buckets[b] = Sum(g, Zone(b)) /\ Sum(g, Zone(b)) \in Int
    BY <1>6, <2>1 DEF Counts
  <2> QED
    BY <2>2, <2>4, <2>5, <2>6
<1> QED
  BY <1>10, <1>11, <1>12 DEF Counts

\* The largest and the smallest value, with one more and of two.
LEMMA EndsOneMore ==
  ASSUME NEW g \in [Value -> Nat], NEW c \in [Value -> Nat], NEW w \in Value,
         \A v \in Value : c[v] = IF v = w THEN g[v] + 1 ELSE g[v], NEW m \in Value
  PROVE  /\ Biggest(m, g) => Biggest(IF w > m THEN w ELSE m, c)
         /\ Smallest(m, g) => Smallest(IF w < m THEN w ELSE m, c)
<1>1. MaxU \in Nat /\ w \in Nat /\ m \in Nat /\ w <= MaxU /\ m <= MaxU
  BY ValuesAre DEF Value
<1>2. \A v \in Value : v \in Nat /\ v <= MaxU
  BY <1>1 DEF Value
<1>3. /\ \A v \in Value : c[v] # 0 <=> v = w \/ g[v] # 0
      /\ c[w] # 0
  <2>1. \A v \in Value : g[v] \in Nat
    OBVIOUS
  <2> QED
    BY <2>1
<1>4. ASSUME Biggest(m, g) PROVE Biggest(IF w > m THEN w ELSE m, c)
  <2>1. CASE w > m
    BY <1>1, <1>2, <1>3, <1>4, <2>1 DEF Biggest
  <2>2. CASE ~(w > m)
    <3>1. \A v \in Value : c[v] # 0 => v <= m
      BY <1>1, <1>2, <1>3, <1>4, <2>2 DEF Biggest
    <3>2. c[m] # 0
      BY <1>1, <1>2, <1>3, <1>4, <2>2 DEF Biggest
    <3> QED
      BY <2>2, <3>1, <3>2 DEF Biggest
  <2> QED
    BY <2>1, <2>2
<1>5. ASSUME Smallest(m, g) PROVE Smallest(IF w < m THEN w ELSE m, c)
  <2>1. CASE w < m
    BY <1>1, <1>2, <1>3, <1>5, <2>1 DEF Smallest
  <2>2. CASE ~(w < m)
    <3>1. \A v \in Value : c[v] # 0 => m <= v
      BY <1>1, <1>2, <1>3, <1>5, <2>2 DEF Smallest
    <3>2. c[m] # 0
      BY <1>1, <1>2, <1>3, <1>5, <2>2 DEF Smallest
    <3> QED
      BY <2>2, <3>1, <3>2 DEF Smallest
  <2> QED
    BY <2>1, <2>2
<1> QED
  BY <1>4, <1>5

LEMMA EndsBoth ==
  ASSUME NEW g \in [Value -> Nat], NEW e \in [Value -> Nat], NEW c \in [Value -> Nat],
         \A v \in Value : c[v] = g[v] + e[v], NEW m \in Value, NEW n \in Value
  PROVE  /\ Biggest(m, g) /\ Biggest(n, e) => Biggest(IF m < n THEN n ELSE m, c)
         /\ Smallest(m, g) /\ Smallest(n, e) => Smallest(IF m > n THEN n ELSE m, c)
<1>1. MaxU \in Nat /\ m \in Nat /\ n \in Nat /\ m <= MaxU /\ n <= MaxU
  BY ValuesAre DEF Value
<1>2. \A v \in Value : v \in Nat /\ v <= MaxU
  BY <1>1 DEF Value
<1>3. \A v \in Value : c[v] # 0 <=> g[v] # 0 \/ e[v] # 0
  <2>1. \A v \in Value : g[v] \in Nat /\ e[v] \in Nat
    OBVIOUS
  <2> QED
    BY <2>1
<1>4. ASSUME Biggest(m, g), Biggest(n, e) PROVE Biggest(IF m < n THEN n ELSE m, c)
  <2>1. CASE m < n
    BY <1>1, <1>2, <1>3, <1>4, <2>1 DEF Biggest
  <2>2. CASE ~(m < n)
    <3>1. \A v \in Value : c[v] # 0 => v <= m
      BY <1>1, <1>2, <1>3, <1>4, <2>2 DEF Biggest
    <3>2. c[m] # 0 \/ (m = 0 /\ \A v \in Value : c[v] = 0)
      BY <1>1, <1>2, <1>3, <1>4, <2>2 DEF Biggest
    <3> QED
      BY <2>2, <3>1, <3>2 DEF Biggest
  <2> QED
    BY <2>1, <2>2
<1>5. ASSUME Smallest(m, g), Smallest(n, e) PROVE Smallest(IF m > n THEN n ELSE m, c)
  <2>1. CASE m > n
    BY <1>1, <1>2, <1>3, <1>5, <2>1 DEF Smallest
  <2>2. CASE ~(m > n)
    <3>1. \A v \in Value : c[v] # 0 => m <= v
      BY <1>1, <1>2, <1>3, <1>5, <2>2 DEF Smallest
    <3>2. c[m] # 0 \/ (m = MaxU /\ \A v \in Value : c[v] = 0)
      BY <1>1, <1>2, <1>3, <1>5, <2>2 DEF Smallest
    <3> QED
      BY <2>2, <3>1, <3>2 DEF Smallest
  <2> QED
    BY <2>1, <2>2
<1> QED
  BY <1>4, <1>5

LEMMA EndsOfNothing == Biggest(0, NoValue) /\ Smallest(MaxU, NoValue) /\ NoValue \in [Value -> Nat]
BY DEF Biggest, Smallest, NoValue, Value

\* What is right of one histogram.
Right(r, g, isFresh) ==
  /\ r \in HistSet /\ g \in [Value -> Nat]
  /\ Counts(r, g) /\ Biggest(r.max, g)
  /\ isFresh => Smallest(r.min, g)

LEMMA HistInvIs ==
  HistInv <=> /\ hist \in [Hists -> HistSet] /\ added \in [Hists -> [Value -> Nat]]
              /\ \A h \in Hists : Right(hist[h], added[h], h \in fresh)
BY DEF HistInv, Right

LEMMA RightNothing ==
  ASSUME NEW m \in Value, NEW isFresh, isFresh => m = MaxU
  PROVE  Right([ min |-> m, max |-> 0, total |-> 0, count |-> 0, buckets |-> Nothing ],
               NoValue, isFresh)
<1> DEFINE r == [ min |-> m, max |-> 0, total |-> 0, count |-> 0, buckets |-> Nothing ]
<1>1. /\ r.min = m /\ r.max = 0 /\ r.total = 0 /\ r.count = 0 /\ r.buckets = Nothing
  OBVIOUS
<1>2. r \in HistSet
  <2>1. 0 \in Value /\ Nothing \in [Bucket -> Nat]
    BY ValuesAre DEF Value, Nothing, Bucket
  <2> QED
    BY <2>1 DEF HistSet
<1> HIDE DEF r
<1>3. Counts(r, NoValue)
  BY <1>1, CountsNothing
<1> QED
  BY <1>1, <1>2, <1>3, EndsOfNothing DEF Right, r

LEMMA RightOneMore ==
  ASSUME NEW r, NEW g, NEW isFresh, Right(r, g, isFresh), NEW w \in Value
  PROVE  Right([ min |-> IF w < r.min THEN w ELSE r.min, max |-> IF w > r.max THEN w ELSE r.max,
                 total |-> Wrapped(r.total + w), count |-> r.count + 1,
                 buckets |-> [r.buckets EXCEPT ![Search(w)] = @ + 1] ],
               [g EXCEPT ![w] = @ + 1], isFresh)
<1> DEFINE t == [ min |-> IF w < r.min THEN w ELSE r.min,
                  max |-> IF w > r.max THEN w ELSE r.max,
                  total |-> Wrapped(r.total + w), count |-> r.count + 1,
                  buckets |-> [r.buckets EXCEPT ![Search(w)] = @ + 1] ]
           c == [g EXCEPT ![w] = @ + 1]
<1>1. /\ t.min = IF w < r.min THEN w ELSE r.min
      /\ t.max = IF w > r.max THEN w ELSE r.max
      /\ t.total = Wrapped(r.total + w) /\ t.count = r.count + 1
      /\ t.buckets = [r.buckets EXCEPT ![Search(w)] = @ + 1]
  OBVIOUS
<1>2. /\ r \in HistSet /\ g \in [Value -> Nat] /\ Counts(r, g) /\ Biggest(r.max, g)
      /\ isFresh => Smallest(r.min, g)
  BY DEF Right
<1>3. /\ r.min \in Value /\ r.max \in Value /\ r.total \in Value /\ r.count \in Nat
      /\ r.buckets \in [Bucket -> Nat]
  BY <1>2 DEF HistSet
<1>4. c \in [Value -> Nat] /\ \A v \in Value : c[v] = IF v = w THEN g[v] + 1 ELSE g[v]
  BY <1>2
<1>5. Search(w) \in Bucket
  <2>1. w \in 0 .. MaxU
    BY DEF Value
  <2> QED
    BY <2>1, ZoneFound, SearchIs
<1>6. /\ t.buckets \in [Bucket -> Nat]
      /\ \A b \in Bucket : t.buckets[b] = IF b = Search(w) THEN r.buckets[b] + 1
                                          ELSE r.buckets[b]
  <2>1. [r.buckets EXCEPT ![Search(w)] = @ + 1] \in [Bucket -> Nat]
    BY <1>3, <1>5
  <2>2. \A b \in Bucket : [r.buckets EXCEPT ![Search(w)] = @ + 1][b]
                            = IF b = Search(w) THEN r.buckets[b] + 1 ELSE r.buckets[b]
    BY <1>3, <1>5
  <2> QED
    BY <1>1, <2>1, <2>2
<1>7. t.total \in Value
  <2>1. r.total + w \in Int
    BY <1>3, ValuesAre DEF Value
  <2> QED
    BY <1>1, <2>1, WrappedIs
<1>8. t.min \in Value /\ t.max \in Value /\ t.count \in Nat
  BY <1>1, <1>3
<1>9. t \in HistSet
  <2>1. t = [ min |-> t.min, max |-> t.max, total |-> t.total, count |-> t.count,
              buckets |-> t.buckets ]
    OBVIOUS
  <2> HIDE DEF t
  <2> QED
    BY <1>6, <1>7, <1>8, <2>1 DEF HistSet
<1> HIDE DEF t, c
<1>10. Counts(t, c)
  BY <1>1, <1>2, <1>4, <1>6, <1>9, CountsOneMore
<1>11. Biggest(t.max, c)
  BY <1>1, <1>2, <1>3, <1>4, EndsOneMore
<1>12. isFresh => Smallest(t.min, c)
  BY <1>1, <1>2, <1>3, <1>4, EndsOneMore
<1> QED
  BY <1>4, <1>9, <1>10, <1>11, <1>12 DEF Right, t, c

LEMMA RightBoth ==
  ASSUME NEW r, NEW g, NEW isFresh, Right(r, g, isFresh),
         NEW o, NEW e, NEW otherFresh, Right(o, e, otherFresh)
  PROVE  Right([ min |-> IF r.min > o.min THEN o.min ELSE r.min,
                 max |-> IF r.max < o.max THEN o.max ELSE r.max,
                 total |-> Wrapped(r.total + o.total), count |-> r.count + o.count,
                 buckets |-> [b \in DOMAIN r.buckets |-> r.buckets[b] + o.buckets[b]] ],
               [v \in DOMAIN g |-> g[v] + e[v]], isFresh /\ otherFresh)
<1> DEFINE t == [ min |-> IF r.min > o.min THEN o.min ELSE r.min,
                  max |-> IF r.max < o.max THEN o.max ELSE r.max,
                  total |-> Wrapped(r.total + o.total), count |-> r.count + o.count,
                  buckets |-> [b \in DOMAIN r.buckets |-> r.buckets[b] + o.buckets[b]] ]
           c == [v \in DOMAIN g |-> g[v] + e[v]]
<1>1. /\ t.min = IF r.min > o.min THEN o.min ELSE r.min
      /\ t.max = IF r.max < o.max THEN o.max ELSE r.max
      /\ t.total = Wrapped(r.total + o.total) /\ t.count = r.count + o.count
      /\ t.buckets = [b \in DOMAIN r.buckets |-> r.buckets[b] + o.buckets[b]]
  OBVIOUS
<1>2. /\ r \in HistSet /\ g \in [Value -> Nat] /\ Counts(r, g) /\ Biggest(r.max, g)
      /\ isFresh => Smallest(r.min, g)
      /\ o \in HistSet /\ e \in [Value -> Nat] /\ Counts(o, e) /\ Biggest(o.max, e)
      /\ otherFresh => Smallest(o.min, e)
  BY DEF Right
<1>3. /\ r.min \in Value /\ r.max \in Value /\ r.total \in Value /\ r.count \in Nat
      /\ r.buckets \in [Bucket -> Nat]
      /\ o.min \in Value /\ o.max \in Value /\ o.total \in Value /\ o.count \in Nat
      /\ o.buckets \in [Bucket -> Nat]
  BY <1>2 DEF HistSet
<1>4. c \in [Value -> Nat] /\ \A v \in Value : c[v] = g[v] + e[v]
  BY <1>2
<1>5. /\ t.buckets \in [Bucket -> Nat]
      /\ \A b \in Bucket : t.buckets[b] = r.buckets[b] + o.buckets[b]
  BY <1>1, <1>3
<1>6. t.total \in Value
  <2>1. r.total + o.total \in Int
    BY <1>3, ValuesAre DEF Value
  <2> QED
    BY <1>1, <2>1, WrappedIs
<1>7. t.min \in Value /\ t.max \in Value /\ t.count \in Nat
  BY <1>1, <1>3
<1>8. t \in HistSet
  <2>1. t = [ min |-> t.min, max |-> t.max, total |-> t.total, count |-> t.count,
              buckets |-> t.buckets ]
    OBVIOUS
  <2> HIDE DEF t
  <2> QED
    BY <1>5, <1>6, <1>7, <2>1 DEF HistSet
<1> HIDE DEF t, c
<1>9. Counts(t, c)
  BY <1>1, <1>2, <1>4, <1>5, <1>8, CountsBoth
<1>10. Biggest(t.max, c)
  BY <1>1, <1>2, <1>3, <1>4, EndsBoth
<1>11. isFresh /\ otherFresh => Smallest(t.min, c)
  <2>1. Smallest(r.min, g) /\ Smallest(o.min, e) => Smallest(t.min, c)
    <3>1. r.min \in Value /\ o.min \in Value
      BY <1>3
    <3>2. /\ g \in [Value -> Nat] /\ e \in [Value -> Nat] /\ c \in [Value -> Nat]
          /\ \A v \in Value : c[v] = g[v] + e[v]
      BY <1>2, <1>4
    <3>3. Smallest(r.min, g) /\ Smallest(o.min, e)
            => Smallest(IF r.min > o.min THEN o.min ELSE r.min, c)
      BY <3>1, <3>2, EndsBoth
    <3> QED
      BY <1>1, <3>3
  <2> QED
    BY <1>2, <2>1
<1> QED
  BY <1>4, <1>8, <1>9, <1>10, <1>11 DEF Right, t, c

LEMMA HistBegins == HistInit => HistInv
<1>1. SUFFICES ASSUME HistInit PROVE HistInv
  OBVIOUS
<1> DEFINE r == [ min |-> MaxU, max |-> 0, total |-> 0, count |-> 0, buckets |-> Nothing ]
<1>2. hist = [h \in Hists |-> r] /\ added = [h \in Hists |-> NoValue]
  BY <1>1 DEF HistInit
<1>3. ASSUME NEW isFresh PROVE Right(r, NoValue, isFresh)
  <2>1. MaxU \in Value
    BY ValuesAre DEF Value
  <2> QED
    BY <2>1, RightNothing
<1> HIDE DEF r
<1>4. r \in HistSet /\ NoValue \in [Value -> Nat]
  BY <1>3 DEF Right
<1>5. hist \in [Hists -> HistSet] /\ added \in [Hists -> [Value -> Nat]]
  BY <1>2, <1>4
<1>6. \A h \in Hists : hist[h] = r /\ added[h] = NoValue
  BY <1>2
<1> QED
  BY <1>3, <1>5, <1>6, HistInvIs

\* Records that have a histogram's fields and no others are the same when these are.
HasFields(x) ==
  DOMAIN x = { "min", "max", "total", "count", "buckets" } /\ x = [f \in DOMAIN x |-> x[f]]

LEMMA SameFields ==
  ASSUME NEW x, NEW y, HasFields(x), HasFields(y), x.min = y.min, x.max = y.max,
         x.total = y.total, x.count = y.count, x.buckets = y.buckets
  PROVE  x = y
BY DEF HasFields

\* A step that makes one histogram another one, that is right, keeps the others right.
LEMMA HistStep ==
  ASSUME HistInv, NEW h \in Hists, NEW r, NEW g, Right(r, g, h \in fresh'),
         hist' = [hist EXCEPT ![h] = r], added' = [added EXCEPT ![h] = g],
         fresh' \subseteq fresh
  PROVE  HistInv'
<1>1. /\ hist \in [Hists -> HistSet] /\ added \in [Hists -> [Value -> Nat]]
      /\ \A k \in Hists : Right(hist[k], added[k], k \in fresh)
  BY HistInvIs
<1>2. r \in HistSet /\ g \in [Value -> Nat]
  BY DEF Right
<1>3. hist' \in [Hists -> HistSet] /\ added' \in [Hists -> [Value -> Nat]]
  BY <1>1, <1>2
<1>4. ASSUME NEW k \in Hists PROVE Right(hist'[k], added'[k], k \in fresh')
  <2>1. CASE k = h
    <3>1. hist'[k] = r /\ added'[k] = g
      BY <1>1, <2>1
    <3> QED
      BY <2>1, <3>1
  <2>2. CASE k # h
    <3>1. hist'[k] = hist[k] /\ added'[k] = added[k]
      BY <1>1, <2>2
    <3>2. Right(hist[k], added[k], k \in fresh)
      BY <1>1
    <3>3. Right(hist[k], added[k], k \in fresh')
      BY <3>2 DEF Right
    <3> QED
      BY <3>1, <3>3
  <2> QED
    BY <2>1, <2>2
<1> QED
  BY <1>3, <1>4 DEF HistInv, Right

LEMMA HistGoesOn == HistInv /\ [HistNext]_histVars => HistInv'
<1>1. CASE UNCHANGED histVars
  BY <1>1 DEF histVars, HistInv
<1>2. ASSUME HistInv, NEW h \in Hists, NEW w \in Samples, add(h, w) PROVE HistInv'
  <2> DEFINE r == hist[h]
             g == added[h]
             t == [ min |-> IF w < r.min THEN w ELSE r.min,
                    max |-> IF w > r.max THEN w ELSE r.max,
                    total |-> Wrapped(r.total + w), count |-> r.count + 1,
                    buckets |-> [r.buckets EXCEPT ![Search(w)] = @ + 1] ]
             c == [g EXCEPT ![w] = @ + 1]
  <2>1. w \in Value
    BY ThresholdsAssumption DEF Value
  <2>2. /\ hist \in [Hists -> HistSet] /\ added \in [Hists -> [Value -> Nat]]
        /\ Right(r, g, h \in fresh)
    BY <1>2, HistInvIs
  <2>3. Right(t, c, h \in fresh)
    BY <2>1, <2>2, RightOneMore
  <2>4. added' = [added EXCEPT ![h] = c] /\ fresh' = fresh
    BY <1>2, <2>2 DEF add
  <2>5. hist' = [hist EXCEPT ![h] = t]
    <3>1. hist[h] \in HistSet
      BY <2>2
    <3>2. [hist[h] EXCEPT !.max = IF w > @ THEN w ELSE @, !.min = IF w < @ THEN w ELSE @,
                         !.total = Wrapped(@ + w), !.count = @ + 1,
                         !.buckets = [r.buckets EXCEPT ![Search(w)] = @ + 1]] = t
      <4> DEFINE m == IF w < r.min THEN w ELSE r.min
                 n == IF w > r.max THEN w ELSE r.max
                 k == Wrapped(r.total + w)
                 i == r.count + 1
                 z == [r.buckets EXCEPT ![Search(w)] = @ + 1]
      <4> DEFINE x == [r EXCEPT !.max = n, !.min = m, !.total = k, !.count = i, !.buckets = z]
                 y == [ min |-> m, max |-> n, total |-> k, count |-> i, buckets |-> z ]
      <4>1. r \in HistSet
        BY <3>1
      <4> HIDE DEF m, n, k, i, z, r
      <4>2. HasFields(x) /\ HasFields(y)
        BY <4>1 DEF HistSet, HasFields
      <4>3. /\ x.min = y.min /\ x.max = y.max /\ x.total = y.total
            /\ x.count = y.count /\ x.buckets = y.buckets
        BY <4>1 DEF HistSet
      <4>4. x = y
        <5> HIDE DEF x, y
        <5> QED
          BY <4>2, <4>3, SameFields
      <4> QED
        BY <4>4 DEF m, n, k, i, z, r
    <3>3. hist' = [hist EXCEPT ![h] =
            [hist[h] EXCEPT !.max = IF w > @ THEN w ELSE @, !.min = IF w < @ THEN w ELSE @,
                            !.total = Wrapped(@ + w), !.count = @ + 1,
                            !.buckets = [r.buckets EXCEPT ![Search(w)] = @ + 1]]]
      BY <1>2, <2>2, <3>1 DEF add, HistSet
    <3> QED
      BY <3>2, <3>3
  <2> HIDE DEF t, c
  <2> QED
    BY <1>2, <2>3, <2>4, <2>5, HistStep
<1>3. ASSUME HistInv, NEW h \in Hists, NEW other \in Hists, merge(h, other) PROVE HistInv'
  <2> DEFINE r == hist[h]
             g == added[h]
             o == hist[other]
             e == added[other]
             t == [ min |-> IF r.min > o.min THEN o.min ELSE r.min,
                    max |-> IF r.max < o.max THEN o.max ELSE r.max,
                    total |-> Wrapped(r.total + o.total), count |-> r.count + o.count,
                    buckets |-> [b \in DOMAIN r.buckets |-> r.buckets[b] + o.buckets[b]] ]
             c == [v \in DOMAIN g |-> g[v] + e[v]]
  <2>1. /\ hist \in [Hists -> HistSet] /\ added \in [Hists -> [Value -> Nat]]
        /\ Right(r, g, h \in fresh) /\ Right(o, e, other \in fresh)
    BY <1>3, HistInvIs
  <2>2. Right(t, c, (h \in fresh) /\ (other \in fresh))
    <3>1. Right(r, g, h \in fresh) /\ Right(o, e, other \in fresh)
      BY <2>1
    <3> DEFINE p == h \in fresh
               q == other \in fresh
    <3> HIDE DEF r, g, o, e, p, q
    <3>2. Right(r, g, p) /\ Right(o, e, q)
      BY <3>1 DEF p, q
    <3>3. Right([ min |-> IF r.min > o.min THEN o.min ELSE r.min,
                  max |-> IF r.max < o.max THEN o.max ELSE r.max,
                  total |-> Wrapped(r.total + o.total), count |-> r.count + o.count,
                  buckets |-> [b \in DOMAIN r.buckets |-> r.buckets[b] + o.buckets[b]] ],
                [v \in DOMAIN g |-> g[v] + e[v]], p /\ q)
      BY <3>2, RightBoth
    <3> QED
      BY <3>3 DEF p, q
  <2>3. /\ added' = [added EXCEPT ![h] = c]
        /\ fresh' = IF other \in fresh THEN fresh ELSE fresh \ { h }
    BY <1>3, <2>1 DEF merge
  <2>4. hist' = [hist EXCEPT ![h] = t]
    <3>1. hist[h] \in HistSet
      BY <2>1
    <3>2. [hist[h] EXCEPT !.min = IF @ > o.min THEN o.min ELSE @,
                         !.max = IF @ < o.max THEN o.max ELSE @,
                         !.total = Wrapped(@ + o.total), !.count = @ + o.count,
                         !.buckets = [b \in DOMAIN @ |-> @[b] + o.buckets[b]]] = t
      <4> DEFINE m == IF r.min > o.min THEN o.min ELSE r.min
                 n == IF r.max < o.max THEN o.max ELSE r.max
                 k == Wrapped(r.total + o.total)
                 i == r.count + o.count
                 z == [b \in DOMAIN r.buckets |-> r.buckets[b] + o.buckets[b]]
      <4> DEFINE x == [r EXCEPT !.min = m, !.max = n, !.total = k, !.count = i, !.buckets = z]
                 y == [ min |-> m, max |-> n, total |-> k, count |-> i, buckets |-> z ]
      <4>1. r \in HistSet
        BY <3>1
      <4> HIDE DEF m, n, k, i, z, r
      <4>2. HasFields(x) /\ HasFields(y)
        BY <4>1 DEF HistSet, HasFields
      <4>3. /\ x.min = y.min /\ x.max = y.max /\ x.total = y.total
            /\ x.count = y.count /\ x.buckets = y.buckets
        BY <4>1 DEF HistSet
      <4>4. x = y
        <5> HIDE DEF x, y
        <5> QED
          BY <4>2, <4>3, SameFields
      <4> QED
        BY <4>4 DEF m, n, k, i, z, r
    <3>3. hist' = [hist EXCEPT ![h] =
            [hist[h] EXCEPT !.min = IF @ > o.min THEN o.min ELSE @,
                            !.max = IF @ < o.max THEN o.max ELSE @,
                            !.total = Wrapped(@ + o.total), !.count = @ + o.count,
                            !.buckets = [b \in DOMAIN @ |-> @[b] + o.buckets[b]]]]
      BY <1>3, <2>1, <3>1 DEF merge, HistSet
    <3> QED
      BY <3>2, <3>3
  <2> HIDE DEF t, c
  <2>5. h \in fresh' => h \in fresh /\ other \in fresh
    BY <2>3
  <2>6. Right(t, c, h \in fresh')
    BY <2>2, <2>5 DEF Right
  <2>7. fresh' \subseteq fresh
    BY <2>3
  <2> QED
    BY <1>3, <2>3, <2>4, <2>6, <2>7, HistStep
<1>4. ASSUME HistInv, NEW h \in Hists, clear(h) PROVE HistInv'
  <2> DEFINE t == [ min |-> 0, max |-> 0, total |-> 0, count |-> 0, buckets |-> Nothing ]
  <2>1. hist' = [hist EXCEPT ![h] = t] /\ added' = [added EXCEPT ![h] = NoValue]
        /\ fresh' = fresh \ { h }
    BY <1>4 DEF clear
  <2>2. Right(t, NoValue, h \in fresh')
    <3>1. 0 \in Value /\ ~(h \in fresh')
      BY <2>1, ValuesAre DEF Value
    <3> QED
      BY <3>1, RightNothing
  <2> HIDE DEF t
  <2>3. fresh' \subseteq fresh
    BY <2>1
  <2> QED
    BY <1>4, <2>1, <2>2, <2>3, HistStep
<1> QED
  BY <1>1, <1>2, <1>3, <1>4 DEF HistNext

\* What the properties say of it.
LEMMA HistogramIsExact == HistInv => HistogramExact
<1>1. SUFFICES ASSUME HistInv PROVE HistogramExact
  OBVIOUS
<1>2. ASSUME NEW h \in Hists
      PROVE  /\ added[h] \in [Value -> Nat] /\ hist[h] \in HistSet
             /\ Counts(hist[h], added[h]) /\ Biggest(hist[h].max, added[h])
             /\ h \in fresh => Smallest(hist[h].min, added[h])
  BY <1>1 DEF HistInv
<1>3. BucketsExact
  <2> SUFFICES ASSUME NEW h \in Hists, NEW b \in 0 .. LastBucket
               PROVE  hist[h].buckets[b] = Counted(h, Zone(b))
    BY DEF BucketsExact
  <2>1. b \in Bucket /\ Zone(b) \in SUBSET Value
    BY ZoneIsSet DEF Bucket
  <2>2. Counted(h, Zone(b)) = Sum(added[h], Zone(b))
    BY <1>2, <2>1, CountedIs
  <2> QED
    BY <1>2, <2>1, <2>2 DEF Counts
<1>4. SumsExact
  <2> SUFFICES ASSUME NEW h \in Hists, NEW values, values = { v \in 0 .. MaxU : added[h][v] # 0 }
               PROVE  /\ hist[h].count = Counted(h, values)
                      /\ hist[h].total = Wrapped(Summed(h, values))
                      /\ values # {} => hist[h].max = Max(values)
                      /\ values # {} /\ h \in fresh => hist[h].min = Min(values)
    BY DEF SumsExact
  <2> DEFINE g == added[h]
             u == Weighted(g)
  <2>1. /\ values \in SUBSET Value /\ \A v \in Value : v \in values <=> g[v] # 0
    BY DEF Value
  <2>2. g \in [Value -> Int] /\ u \in [Value -> Int] /\ added[h] \in [Value -> Nat]
    BY <1>2, WeightedIs
  <2>3. Counted(h, values) = Sum(g, values) /\ Summed(h, values) = Sum(u, values)
    BY <2>1, <2>2, CountedIs, SummedIs
  <2>4. \A v \in Value \ values : g[v] = 0 /\ u[v] = 0
    <3> SUFFICES ASSUME NEW v \in Value, v \notin values PROVE g[v] = 0 /\ u[v] = 0
      OBVIOUS
    <3>1. g[v] = 0
      BY <2>1
    <3>2. v * 0 = 0
      BY ValuesAre
    <3> QED
      BY <3>1, <3>2 DEF Weighted
  <2> HIDE DEF g, u
  <2>5. Sum(g, values) = Sum(g, Value)
    BY <2>1, <2>2, <2>4, SumOfValues
  <2>6. Sum(u, values) = Sum(u, Value)
    BY <2>1, <2>2, <2>4, SumOfValues
  <2>7. hist[h].count = Sum(g, Value) /\ hist[h].total = Wrapped(Sum(u, Value))
    BY <1>2 DEF Counts, g, u
  <2>8. /\ hist[h].max \in Value /\ hist[h].min \in Value
        /\ Biggest(hist[h].max, g) /\ (h \in fresh => Smallest(hist[h].min, g))
    BY <1>2 DEF HistSet, g
  <2>9. \A v \in values : v \in Int
    BY <2>1, ValuesAre DEF Value
  <2>10. ASSUME values # {} PROVE hist[h].max = Max(values)
    <3>1. hist[h].max \in values /\ \A v \in values : hist[h].max >= v
      <4>1. \E v \in Value : g[v] # 0
        BY <2>1, <2>10
      <4>2. hist[h].max \in values /\ \A v \in values : v <= hist[h].max
        BY <2>1, <2>8, <4>1 DEF Biggest
      <4> QED
        BY <2>9, <4>2
    <3>2. \A m \in values : (\A v \in values : m >= v) => m = hist[h].max
      <4> SUFFICES ASSUME NEW m \in values, \A v \in values : m >= v PROVE m = hist[h].max
        OBVIOUS
      <4>1. m >= hist[h].max /\ hist[h].max >= m
        BY <3>1
      <4> QED
        BY <2>9, <3>1, <4>1
    <3> QED
      BY <3>1, <3>2 DEF Max
  <2>11. ASSUME values # {}, h \in fresh PROVE hist[h].min = Min(values)
    <3>1. hist[h].min \in values /\ \A v \in values : hist[h].min =< v
      <4>1. \E v \in Value : g[v] # 0
        BY <2>1, <2>11
      <4>2. hist[h].min \in values /\ \A v \in values : hist[h].min <= v
        BY <2>1, <2>8, <2>11, <4>1 DEF Smallest
      <4> QED
        BY <2>9, <4>2
    <3>2. \A m \in values : (\A v \in values : m =< v) => m = hist[h].min
      <4> SUFFICES ASSUME NEW m \in values, \A v \in values : m =< v PROVE m = hist[h].min
        OBVIOUS
      <4>1. m =< hist[h].min /\ hist[h].min =< m
        BY <3>1
      <4> QED
        BY <2>9, <3>1, <4>1
    <3> QED
      BY <3>1, <3>2 DEF Min
  <2> QED
    BY <2>3, <2>5, <2>6, <2>7, <2>10, <2>11
<1> QED
  BY <1>3, <1>4 DEF HistogramExact

-----------------------------------------------------------------------------
(* HardwareInfo.                                                           *)

\* The lines of the kernel: cache sizes in kB, as all of meminfo, with a colon behind each name.
KernelUnits ==
  /\ \A k \in 1 .. Len(CpuInfo) :
       CpuInfo[k].about = "cache size" => CpuInfo[k].unit \in { "k", "K" }
  /\ \A k \in 1 .. Len(MemInfo) :
       MemInfo[k].about \in { "MemTotal", "SwapTotal" } => MemInfo[k].unit = "k" /\ MemInfo[k].colon

\* What the first lines of both files say.
Says(t, cpu, mem) ==
  /\ t.processors = Cardinality({ k \in 1 .. cpu : CpuInfo[k].about = "model name" })
  /\ t.name   = LastAbout(CpuInfo, cpu, "model name", "unknown")
  /\ t.cache  = LastAbout(CpuInfo, cpu, "cache size", 0) * Kilo
  /\ t.memory = LastAbout(MemInfo, mem, "MemTotal", 0) * Kilo
  /\ t.swap   = LastAbout(MemInfo, mem, "SwapTotal", 0) * Kilo

InfoFields == { "name", "processors", "cache", "memory", "swap" }
IsInfo(t)  == DOMAIN t = InfoFields /\ t = [f \in InfoFields |-> t[f]]

HardwareInv ==
  /\ once \in { "no", "cpu", "mem", "done" }
  /\ read \in [cpu : 0 .. Len(CpuInfo), mem : 0 .. Len(MemInfo)]
  /\ IsInfo(info)
  /\ once \in { "no", "cpu" } => read.mem = 0
  /\ once = "no" => /\ read.cpu = 0
                    /\ info = [name |-> "", processors |-> 0, cache |-> 0,
                               memory |-> 0, swap |-> 0]
  /\ once # "no" => Says(info, read.cpu, read.mem)
  /\ once # "done" => told = {}
  /\ told \subseteq { info }

LEMMA LinesAre == Len(CpuInfo) \in Nat /\ Len(MemInfo) \in Nat /\ Kilo \in Nat
BY HardwareAssumption

LEMMA OneMoreLine ==
  ASSUME NEW rows, NEW n \in Nat, NEW key, NEW none
  PROVE  LastAbout(rows, n + 1, key, none)
           = IF rows[n + 1].about = key /\ rows[n + 1].colon THEN rows[n + 1].value
             ELSE LastAbout(rows, n, key, none)
<1> DEFINE Says1(k) == rows[k].about = key /\ rows[k].colon
           A == { k \in 1 .. n : Says1(k) }
           B == { k \in 1 .. n + 1 : Says1(k) }
<1>1. LastAbout(rows, n + 1, key, none) = IF B = {} THEN none ELSE rows[Max(B)].value
  BY DEF LastAbout
<1>2. LastAbout(rows, n, key, none) = IF A = {} THEN none ELSE rows[Max(A)].value
  BY DEF LastAbout
<1>3. CASE Says1(n + 1)
  <2>1. n + 1 \in B /\ \A y \in B : y \in Int /\ n + 1 >= y
    BY <1>3
  <2> HIDE DEF B
  <2>2. Max(B) = n + 1
    <3>1. \A m \in B : (\A y \in B : m >= y) => m = n + 1
      <4> SUFFICES ASSUME NEW m \in B, \A y \in B : m >= y PROVE m = n + 1
        OBVIOUS
      <4>1. m >= n + 1 /\ n + 1 >= m /\ m \in Int
        BY <2>1
      <4> QED
        BY <4>1
    <3> QED
      BY <2>1, <3>1 DEF Max
  <2> QED
    BY <1>1, <1>3, <2>1, <2>2
<1>4. CASE ~Says1(n + 1)
  <2>1. 1 .. n + 1 = (1 .. n) \cup { n + 1 }
    OBVIOUS
  <2>2. A = B
    BY <1>4, <2>1
  <2> QED
    BY <1>1, <1>2, <1>4, <2>2
<1> QED
  BY <1>3, <1>4

LEMMA HardwareBegins == HardwareInit => HardwareInv
<1>1. SUFFICES ASSUME HardwareInit PROVE HardwareInv
  OBVIOUS
<1> DEFINE t == [name |-> "", processors |-> 0, cache |-> 0, memory |-> 0, swap |-> 0]
<1>2. IsInfo(t)
  BY DEF InfoFields, IsInfo
<1>3. info = t /\ read = [cpu |-> 0, mem |-> 0] /\ once = "no" /\ told = {}
  BY <1>1 DEF HardwareInit
<1>4. read \in [cpu : 0 .. Len(CpuInfo), mem : 0 .. Len(MemInfo)]
  <2>1. 0 \in 0 .. Len(CpuInfo) /\ 0 \in 0 .. Len(MemInfo)
    BY LinesAre
  <2> QED
    BY <1>3, <2>1
<1>5. read.cpu = 0 /\ read.mem = 0
  BY <1>3
<1> QED
  BY <1>2, <1>3, <1>4, <1>5 DEF HardwareInv

Cores(n) == Cardinality({ k \in 1 .. n : CpuInfo[k].about = "model name" })

LEMMA CoresAre ==
  /\ Cores(0) = 0
  /\ \A n \in Nat : /\ Cores(n) \in Nat
                    /\ Cores(n + 1) = IF CpuInfo[n + 1].about = "model name"
                                     THEN Cores(n) + 1 ELSE Cores(n)
<1>1. { k \in 1 .. 0 : CpuInfo[k].about = "model name" } = {}
  OBVIOUS
<1>2. Cores(0) = 0
  BY <1>1, FS_EmptySet DEF Cores
<1>3. ASSUME NEW n \in Nat PROVE Cores(n) \in Nat
  <2>1. IsFiniteSet(1 .. n)
    BY FS_Interval
  <2>2. IsFiniteSet({ k \in 1 .. n : CpuInfo[k].about = "model name" })
    BY <2>1, FS_Subset
  <2> QED
    BY <2>2, FS_CardinalityType DEF Cores
<1>4. ASSUME NEW n \in Nat
      PROVE  Cores(n + 1) = IF CpuInfo[n + 1].about = "model name" THEN Cores(n) + 1
                            ELSE Cores(n)
  <2> DEFINE A == { k \in 1 .. n : CpuInfo[k].about = "model name" }
             B == { k \in 1 .. n + 1 : CpuInfo[k].about = "model name" }
  <2>1. Cores(n + 1) = Cardinality(B) /\ Cores(n) = Cardinality(A)
    BY DEF Cores
  <2>2. 1 .. n + 1 = (1 .. n) \cup { n + 1 } /\ n + 1 \notin 1 .. n
    OBVIOUS
  <2>3. IsFiniteSet(A)
    <3>1. IsFiniteSet(1 .. n)
      BY FS_Interval
    <3> QED
      BY <3>1, FS_Subset
  <2>4. CASE CpuInfo[n + 1].about = "model name"
    <3>1. B = A \cup { n + 1 } /\ n + 1 \notin A
      BY <2>2, <2>4
    <3> HIDE DEF A, B
    <3>2. Cardinality(A \cup { n + 1 }) = Cardinality(A) + 1
      BY <2>3, <3>1, FS_AddElement
    <3> QED
      BY <2>1, <2>4, <3>1, <3>2
  <2>5. CASE CpuInfo[n + 1].about # "model name"
    <3>1. B = A
      BY <2>2, <2>5
    <3> HIDE DEF A, B
    <3> QED
      BY <1>3, <2>1, <2>5, <3>1
  <2> QED
    BY <2>4, <2>5
<1> QED
  BY <1>2, <1>3, <1>4

LEMMA SaysIs ==
  ASSUME NEW t, NEW cpu, NEW mem
  PROVE  Says(t, cpu, mem) <=> /\ t.processors = Cores(cpu)
                               /\ t.name = LastAbout(CpuInfo, cpu, "model name", "unknown")
                               /\ t.cache = LastAbout(CpuInfo, cpu, "cache size", 0) * Kilo
                               /\ t.memory = LastAbout(MemInfo, mem, "MemTotal", 0) * Kilo
                               /\ t.swap = LastAbout(MemInfo, mem, "SwapTotal", 0) * Kilo
BY DEF Says, Cores

LEMMA SaysNothing ==
  ASSUME NEW t, t.processors = 0, t.name = "unknown", t.cache = 0, t.memory = 0, t.swap = 0
  PROVE  Says(t, 0, 0)
<1>1. \A rows, key : { k \in 1 .. 0 : rows[k].about = key /\ rows[k].colon } = {}
  OBVIOUS
<1>2. LastAbout(CpuInfo, 0, "model name", "unknown") = "unknown"
  BY <1>1 DEF LastAbout
<1>3. LastAbout(CpuInfo, 0, "cache size", 0) = 0
  BY <1>1 DEF LastAbout
<1>4. LastAbout(MemInfo, 0, "MemTotal", 0) = 0
  BY <1>1 DEF LastAbout
<1>5. LastAbout(MemInfo, 0, "SwapTotal", 0) = 0
  BY <1>1 DEF LastAbout
<1>6. 0 * Kilo = 0
  BY LinesAre
<1> QED
  BY <1>2, <1>3, <1>4, <1>5, <1>6, CoresAre, SaysIs

LEMMA CpuLineSays ==
  ASSUME KernelUnits, NEW n \in Nat, n < Len(CpuInfo), NEW m, Says(info, n, m), IsInfo(info),
         NEW t, t = CpuLine(CpuInfo[n + 1])
  PROVE  Says(t, n + 1, m) /\ IsInfo(t)
<1> DEFINE row == CpuInfo[n + 1]
           c == LastAbout(CpuInfo, n + 1, "model name", "unknown")
           d == LastAbout(CpuInfo, n + 1, "cache size", 0)
<1>1. n + 1 \in 1 .. Len(CpuInfo)
  BY LinesAre
<1>2. t = CpuLine(row)
  OBVIOUS
<1>3. /\ info.processors \in Nat /\ info.processors = Cores(n)
      /\ info.name = LastAbout(CpuInfo, n, "model name", "unknown")
      /\ info.cache = LastAbout(CpuInfo, n, "cache size", 0) * Kilo
      /\ info.memory = LastAbout(MemInfo, m, "MemTotal", 0) * Kilo
      /\ info.swap = LastAbout(MemInfo, m, "SwapTotal", 0) * Kilo
  BY CoresAre, SaysIs
<1>4. c = IF row.about = "model name" /\ row.colon THEN row.value ELSE info.name
  <2>1. c = IF row.about = "model name" /\ row.colon THEN row.value
            ELSE LastAbout(CpuInfo, n, "model name", "unknown")
    BY OneMoreLine
  <2> HIDE DEF c, row
  <2> QED
    BY <1>3, <2>1
<1>5. d = IF row.about = "cache size" /\ row.colon THEN row.value
          ELSE LastAbout(CpuInfo, n, "cache size", 0)
  BY OneMoreLine
<1>6. Cores(n + 1) = IF row.about = "model name" THEN info.processors + 1
                   ELSE info.processors
  BY <1>3, CoresAre
<1>7. row.about = "cache size" => UnitOf(row) = Kilo
  <2>1. row.about = "cache size" => row.unit \in { "k", "K" }
    BY <1>1 DEF KernelUnits
  <2> QED
    BY <2>1 DEF UnitOf
<1> HIDE DEF row
<1>8. /\ t.processors = Cores(n + 1) /\ t.name = c /\ t.cache = d * Kilo
      /\ t.memory = info.memory /\ t.swap = info.swap /\ IsInfo(t)
  <2> HIDE DEF c, d
  <2>1. CASE row.about = "model name"
    <3> DEFINE v == IF row.colon THEN row.value ELSE info.name
    <3>1. t = [info EXCEPT !.processors = @ + 1, !.name = v]
      BY <1>2, <2>1 DEF CpuLine
    <3>2. /\ v = c /\ d * Kilo = info.cache /\ Cores(n + 1) = info.processors + 1
      BY <1>3, <1>4, <1>5, <1>6, <2>1
    <3> HIDE DEF v
    <3> QED
      BY <3>1, <3>2 DEF InfoFields, IsInfo
  <2>2. CASE row.about = "cache size" /\ row.colon
    <3> DEFINE v == row.value * Kilo
    <3>1. t = [info EXCEPT !.cache = v]
      BY <1>2, <1>7, <2>2 DEF CpuLine
    <3>2. info.name = c /\ d = row.value /\ row.about # "model name"
      BY <1>3, <1>4, <1>5, <2>2
    <3>3. Cores(n + 1) = info.processors
      BY <1>3, <1>6, <3>2
    <3>4. d * Kilo = v
      BY <3>2
    <3> HIDE DEF v
    <3> QED
      BY <3>1, <3>2, <3>3, <3>4 DEF InfoFields, IsInfo
  <2>3. CASE row.about # "model name" /\ ~(row.about = "cache size" /\ row.colon)
    <3>1. t = info
      BY <1>2, <2>3 DEF CpuLine
    <3>2. c = info.name /\ d = LastAbout(CpuInfo, n, "cache size", 0)
      BY <1>4, <1>5, <2>3
    <3>3. Cores(n + 1) = info.processors
      BY <1>3, <1>6, <2>3
    <3> QED
      BY <1>3, <3>1, <3>2, <3>3
  <2> QED
    BY <2>1, <2>2, <2>3
<1> QED
  BY <1>3, <1>8, SaysIs

LEMMA MemLineSays ==
  ASSUME KernelUnits, NEW n \in Nat, n < Len(MemInfo), NEW m, Says(info, m, n), IsInfo(info),
         NEW t, t = MemLine(MemInfo[n + 1])
  PROVE  Says(t, m, n + 1) /\ IsInfo(t)
<1> DEFINE row == MemInfo[n + 1]
           c == LastAbout(MemInfo, n + 1, "MemTotal", 0)
           d == LastAbout(MemInfo, n + 1, "SwapTotal", 0)
           v == row.value * Kilo
<1>1. n + 1 \in 1 .. Len(MemInfo)
  BY LinesAre
<1>2. t = MemLine(row)
  OBVIOUS
<1>3. /\ info.processors = Cores(m)
      /\ info.name = LastAbout(CpuInfo, m, "model name", "unknown")
      /\ info.cache = LastAbout(CpuInfo, m, "cache size", 0) * Kilo
      /\ info.memory = LastAbout(MemInfo, n, "MemTotal", 0) * Kilo
      /\ info.swap = LastAbout(MemInfo, n, "SwapTotal", 0) * Kilo
  BY SaysIs
<1>4. c = IF row.about = "MemTotal" /\ row.colon THEN row.value
          ELSE LastAbout(MemInfo, n, "MemTotal", 0)
  BY OneMoreLine
<1>5. d = IF row.about = "SwapTotal" /\ row.colon THEN row.value
          ELSE LastAbout(MemInfo, n, "SwapTotal", 0)
  BY OneMoreLine
<1>6. row.about \in { "MemTotal", "SwapTotal" } => row.colon /\ UnitOf(row) = Kilo
  <2>1. row.about \in { "MemTotal", "SwapTotal" } => row.unit = "k" /\ row.colon
    BY <1>1 DEF KernelUnits
  <2> QED
    BY <2>1 DEF UnitOf
<1> HIDE DEF row
<1>7. /\ t.processors = info.processors /\ t.name = info.name /\ t.cache = info.cache
      /\ t.memory = c * Kilo /\ t.swap = d * Kilo /\ IsInfo(t)
  <2> HIDE DEF c, d
  <2>1. CASE row.about = "MemTotal"
    <3>1. t = [info EXCEPT !.memory = v]
      BY <1>2, <1>6, <2>1 DEF MemLine
    <3>2. c * Kilo = v /\ d * Kilo = info.swap
      BY <1>3, <1>4, <1>5, <1>6, <2>1
    <3> HIDE DEF v
    <3> QED
      BY <3>1, <3>2 DEF InfoFields, IsInfo
  <2>2. CASE row.about = "SwapTotal"
    <3>1. t = [info EXCEPT !.swap = v]
      BY <1>2, <1>6, <2>2 DEF MemLine
    <3>2. c * Kilo = info.memory /\ d * Kilo = v
      BY <1>3, <1>4, <1>5, <1>6, <2>2
    <3> HIDE DEF v
    <3> QED
      BY <3>1, <3>2 DEF InfoFields, IsInfo
  <2>3. CASE row.about \notin { "MemTotal", "SwapTotal" }
    <3>1. t = info
      BY <1>2, <2>3 DEF MemLine
    <3> QED
      BY <1>3, <1>4, <1>5, <2>3, <3>1
  <2> QED
    BY <2>1, <2>2, <2>3
<1> QED
  BY <1>3, <1>7, SaysIs

LEMMA HardwareGoesOn == KernelUnits /\ HardwareInv /\ [HardwareNext]_hardwareVars => HardwareInv'
<1>1. SUFFICES ASSUME KernelUnits, HardwareInv, [HardwareNext]_hardwareVars PROVE HardwareInv'
  OBVIOUS
<1>2. ASSUME NEW u \in Askers, Ask(u) PROVE HardwareInv'
  BY <1>1, <1>2 DEF Ask, HardwareInv, Says
<1>3. CASE checkAndParse
  <2>1. /\ once = "no" /\ once' \in { "cpu", "done" } /\ read' = read /\ told' = told
        /\ info' = [info EXCEPT !.name = "unknown"]
    BY <1>3 DEF checkAndParse
  <2>2. /\ read \in [cpu : 0 .. Len(CpuInfo), mem : 0 .. Len(MemInfo)] /\ told = {}
        /\ read.cpu = 0 /\ read.mem = 0 /\ IsInfo(info)
        /\ info = [name |-> "", processors |-> 0, cache |-> 0, memory |-> 0, swap |-> 0]
    BY <1>1, <2>1 DEF HardwareInv
  <2>3. /\ info.processors = 0 /\ info.cache = 0 /\ info.memory = 0 /\ info.swap = 0
    BY <2>2
  <2>4. /\ info'.processors = 0 /\ info'.name = "unknown" /\ info'.cache = 0
        /\ info'.memory = 0 /\ info'.swap = 0 /\ IsInfo(info')
    BY <2>1, <2>2, <2>3 DEF InfoFields, IsInfo
  <2>5. Says(info', 0, 0)
    BY <2>4, SaysNothing
  <2>6. Says(info', read'.cpu, read'.mem)
    BY <2>1, <2>2, <2>5
  <2> QED
    BY <2>1, <2>2, <2>4, <2>6 DEF HardwareInv, Says
<1>4. CASE parseCpuinfo
  <2>1. /\ once = "cpu" /\ read.cpu < Len(CpuInfo) /\ info' = CpuLine(CpuInfo[read.cpu + 1])
        /\ read' = [read EXCEPT !.cpu = @ + 1] /\ once' = once /\ told' = told
    BY <1>4 DEF parseCpuinfo
  <2>2. /\ read \in [cpu : 0 .. Len(CpuInfo), mem : 0 .. Len(MemInfo)] /\ told = {}
        /\ read.mem = 0 /\ read.cpu \in Nat /\ Says(info, read.cpu, 0) /\ IsInfo(info)
    BY <1>1, <2>1, LinesAre DEF HardwareInv
  <2>3. Says(info', read.cpu + 1, 0) /\ IsInfo(info')
    BY <1>1, <2>1, <2>2, CpuLineSays
  <2>4. /\ read' \in [cpu : 0 .. Len(CpuInfo), mem : 0 .. Len(MemInfo)]
        /\ read'.cpu = read.cpu + 1 /\ read'.mem = 0
    BY <2>1, <2>2, LinesAre
  <2> QED
    BY <2>1, <2>3, <2>2, <2>4 DEF HardwareInv, Says
<1>5. CASE parseMemInfo
  <2>1. /\ once = "mem" /\ read.mem < Len(MemInfo) /\ info' = MemLine(MemInfo[read.mem + 1])
        /\ read' = [read EXCEPT !.mem = @ + 1] /\ once' = once /\ told' = told
    BY <1>5 DEF parseMemInfo
  <2>2. /\ read \in [cpu : 0 .. Len(CpuInfo), mem : 0 .. Len(MemInfo)] /\ told = {}
        /\ read.mem \in Nat /\ Says(info, read.cpu, read.mem) /\ IsInfo(info)
    BY <1>1, <2>1, LinesAre DEF HardwareInv
  <2>3. Says(info', read.cpu, read.mem + 1) /\ IsInfo(info')
    BY <1>1, <2>1, <2>2, MemLineSays
  <2>4. /\ read' \in [cpu : 0 .. Len(CpuInfo), mem : 0 .. Len(MemInfo)]
        /\ read'.cpu = read.cpu /\ read'.mem = read.mem + 1
    BY <2>1, <2>2, LinesAre
  <2> QED
    BY <2>1, <2>3, <2>2, <2>4 DEF HardwareInv, Says
<1>6. CASE EndOfFile
  BY <1>1, <1>6 DEF EndOfFile, HardwareInv, Says
<1>7. ASSUME NEW u \in asking, Answer(u) PROVE HardwareInv'
  BY <1>1, <1>7 DEF Answer, HardwareInv, Says
<1>8. CASE UNCHANGED hardwareVars
  BY <1>1, <1>8 DEF hardwareVars, HardwareInv, Says
<1> QED
  BY <1>1, <1>2, <1>3, <1>4, <1>5, <1>6, <1>7, <1>8 DEF HardwareNext

LEMMA HardwareIsAsRead == HardwareInv => HardwareAsRead
BY DEF HardwareInv, HardwareAsRead, Says

-----------------------------------------------------------------------------
(* Numbers: loops and powers.                                              *)

\* The values of a loop that does the same step n times.
Iterates(f, S, x, F, n) ==
  /\ f \in [0 .. n -> S] /\ f[0] = x
  /\ \A i \in 1 .. n : f[i] = F[f[i - 1]]

LEMMA LoopExists ==
  ASSUME NEW S, NEW x \in S, NEW F \in [S -> S], NEW n \in Nat
  PROVE  \E f : Iterates(f, S, x, F, n)
<1> DEFINE B == { m \in Nat : ~\E f : Iterates(f, S, x, F, m) }
<1>1. SUFFICES ASSUME B # {} PROVE FALSE
  OBVIOUS
<1>2. PICK m \in B : \A k \in B : m <= k
  <2>1. B \in SUBSET Nat
    OBVIOUS
  <2> HIDE DEF B
  <2> QED
    BY <1>1, <2>1, LeastNumber
<1>3. CASE m = 0
  <2> DEFINE g == [i \in 0 .. 0 |-> x]
  <2>1. Iterates(g, S, x, F, 0)
    BY DEF Iterates
  <2> HIDE DEF g
  <2> QED
    BY <1>2, <1>3, <2>1
<1>4. CASE m # 0
  <2>1. m \in Nat /\ m - 1 \in Nat /\ m - 1 \notin B
    BY <1>2, <1>4
  <2>2. PICK f : Iterates(f, S, x, F, m - 1)
    BY <2>1
  <2> DEFINE g == [i \in 0 .. m |-> IF i = m THEN F[f[m - 1]] ELSE f[i]]
  <2>3. f \in [0 .. m - 1 -> S] /\ f[0] = x /\ \A i \in 1 .. m - 1 : f[i] = F[f[i - 1]]
    BY <2>2 DEF Iterates
  <2>4. \A i \in 0 .. m : i # m => i \in 0 .. m - 1
    BY <2>1
  <2>5. f[m - 1] \in S
    BY <2>1, <2>3
  <2>6. g \in [0 .. m -> S]
    BY <2>3, <2>4, <2>5
  <2>7. g[0] = x
    BY <1>4, <2>1, <2>3
  <2>8. ASSUME NEW i \in 1 .. m PROVE g[i] = F[g[i - 1]]
    <3>1. i \in 0 .. m /\ i - 1 \in 0 .. m /\ i - 1 # m
      BY <2>1
    <3>2. g[i - 1] = f[i - 1]
      BY <3>1
    <3>3. CASE i = m
      BY <3>1, <3>2, <3>3
    <3>4. CASE i # m
      <4>1. i \in 1 .. m - 1
        BY <2>1, <3>4
      <4> QED
        BY <2>3, <3>1, <3>2, <3>4, <4>1
    <3> QED
      BY <3>3, <3>4
  <2> HIDE DEF g
  <2>9. Iterates(g, S, x, F, m)
    BY <2>6, <2>7, <2>8 DEF Iterates
  <2> QED
    BY <1>2, <2>9
<1> QED
  BY <1>3, <1>4

\* Two such loops, the longer one of which need not be of the same length.
LEMMA LoopsAgree ==
  ASSUME NEW S, NEW x, NEW F, NEW m \in Nat, NEW n \in Nat, m <= n,
         NEW f, Iterates(f, S, x, F, m), NEW g, Iterates(g, S, x, F, n), NEW i \in 0 .. m
  PROVE  f[i] = g[i]
<1> DEFINE B == { k \in Nat : k <= m /\ f[k] # g[k] }
<1>1. SUFFICES ASSUME B # {} PROVE FALSE
  OBVIOUS
<1>2. PICK k \in B : \A j \in B : k <= j
  <2>1. B \in SUBSET Nat
    OBVIOUS
  <2> HIDE DEF B
  <2> QED
    BY <1>1, <2>1, LeastNumber
<1>3. k # 0
  BY <1>2 DEF Iterates
<1>4. k \in 1 .. m /\ k \in 1 .. n /\ k - 1 \in Nat /\ k - 1 <= m /\ k - 1 \notin B
  BY <1>2, <1>3
<1>5. f[k - 1] = g[k - 1]
  BY <1>4
<1>6. f[k] = F[f[k - 1]] /\ g[k] = F[g[k - 1]]
  BY <1>4 DEF Iterates
<1> QED
  BY <1>2, <1>5, <1>6

\* The function that Power() multiplies with.
Times(b) == [x \in Nat |-> b * x]

LEMMA PowerLoop ==
  ASSUME NEW b \in Nat, NEW n \in Nat
  PROVE  \E f : Iterates(f, Nat, 1, Times(b), n) /\ Power(b, n) = f[n]
<1>1. Times(b) \in [Nat -> Nat]
  BY DEF Times
<1>2. PICK f : Iterates(f, Nat, 1, Times(b), n)
  BY <1>1, LoopExists
<1>3. f \in [0 .. n -> Nat] /\ f[0] = 1 /\ \A i \in 1 .. n : f[i] = Times(b)[f[i - 1]]
  BY <1>2 DEF Iterates
<1> DEFINE Equation(p) == p = [i \in 0 .. n |-> IF i = 0 THEN 1 ELSE b * p[i - 1]]
           w == CHOOSE p : Equation(p)
<1>4. Equation(f)
  <2>1. \A i \in 0 .. n : i # 0 => i \in 1 .. n /\ i - 1 \in 0 .. n
    OBVIOUS
  <2>2. \A i \in 0 .. n : f[i] = IF i = 0 THEN 1 ELSE b * f[i - 1]
    BY <1>3, <2>1 DEF Times
  <2> QED
    BY <1>3, <2>2
<1>5. Equation(w)
  <2> HIDE DEF Equation
  <2> QED
    BY <1>4
<1>6. Power(b, n) = w[n]
  BY DEF Power
<1> HIDE DEF w
<1>7. \A i \in 0 .. n : w[i] = IF i = 0 THEN 1 ELSE b * w[i - 1]
  BY <1>5
<1>8. \A i \in 0 .. n : w[i] = f[i]
  <2> DEFINE B == { k \in Nat : k <= n /\ w[k] # f[k] }
  <2>1. SUFFICES ASSUME B # {} PROVE FALSE
    OBVIOUS
  <2>2. PICK k \in B : \A j \in B : k <= j
    <3>1. B \in SUBSET Nat
      OBVIOUS
    <3> HIDE DEF B
    <3> QED
      BY <2>1, <3>1, LeastNumber
  <2>3. k # 0
    BY <1>3, <1>7, <2>2
  <2>4. k \in 1 .. n /\ k \in 0 .. n /\ k - 1 \in 0 .. n /\ k - 1 \in Nat /\ k - 1 \notin B
    BY <2>2, <2>3
  <2>5. w[k - 1] = f[k - 1]
    BY <2>4
  <2>6. w[k] = b * w[k - 1]
    BY <1>7, <2>3, <2>4
  <2>7. f[k] = b * f[k - 1]
    BY <1>3, <2>4 DEF Times
  <2> QED
    BY <2>2, <2>5, <2>6, <2>7
<1> QED
  BY <1>2, <1>6, <1>8

LEMMA PowerIs ==
  ASSUME NEW b \in Nat
  PROVE  /\ Power(b, 0) = 1
         /\ \A n \in Nat : Power(b, n) \in Nat /\ Power(b, n + 1) = b * Power(b, n)
<1>1. ASSUME NEW n \in Nat PROVE Power(b, n) \in Nat /\ Power(b, n + 1) = b * Power(b, n)
  <2>1. PICK f : Iterates(f, Nat, 1, Times(b), n) /\ Power(b, n) = f[n]
    BY PowerLoop
  <2>2. n + 1 \in Nat
    OBVIOUS
  <2>3. PICK g : Iterates(g, Nat, 1, Times(b), n + 1) /\ Power(b, n + 1) = g[n + 1]
    BY <2>2, PowerLoop
  <2>4. f[n] = g[n]
    <3>1. n \in 0 .. n /\ n <= n + 1
      OBVIOUS
    <3> QED
      BY <2>1, <2>2, <2>3, <3>1, LoopsAgree
  <2>5. f[n] \in Nat
    BY <2>1 DEF Iterates
  <2>6. g[n + 1] = Times(b)[g[n]]
    <3>1. n + 1 \in 1 .. n + 1 /\ (n + 1) - 1 = n
      OBVIOUS
    <3>2. g[n + 1] = Times(b)[g[(n + 1) - 1]]
      BY <2>3, <3>1 DEF Iterates
    <3> QED
      BY <3>1, <3>2
  <2> QED
    BY <2>1, <2>3, <2>4, <2>5, <2>6 DEF Times
<1>2. Power(b, 0) = 1
  <2>1. PICK f : Iterates(f, Nat, 1, Times(b), 0) /\ Power(b, 0) = f[0]
    BY PowerLoop
  <2> QED
    BY <2>1 DEF Iterates
<1> QED
  BY <1>1, <1>2

LEMMA PowerPositive ==
  ASSUME NEW b \in Nat \ {0}, NEW n \in Nat
  PROVE  Power(b, n) \in Nat \ {0}
<1> DEFINE B == { k \in Nat : Power(b, k) = 0 }
<1>1. SUFFICES ASSUME B # {} PROVE FALSE
  BY PowerIs
<1>2. PICK k \in B : \A j \in B : k <= j
  <2>1. B \in SUBSET Nat
    OBVIOUS
  <2> HIDE DEF B
  <2> QED
    BY <1>1, <2>1, LeastNumber
<1>3. k # 0
  BY <1>2, PowerIs
<1>4. k - 1 \in Nat /\ k - 1 \notin B /\ (k - 1) + 1 = k
  BY <1>2, <1>3
<1>5. Power(b, k) = b * Power(b, k - 1) /\ Power(b, k - 1) \in Nat \ {0}
  <2>1. Power(b, (k - 1) + 1) = b * Power(b, k - 1) /\ Power(b, k - 1) \in Nat
    BY <1>4, PowerIs
  <2> QED
    BY <1>4, <2>1
<1>6. \A p \in Nat \ {0} : b * p # 0
  OBVIOUS
<1> QED
  BY <1>2, <1>5, <1>6

-----------------------------------------------------------------------------
(* Numbers: the bytes of a word.                                           *)

LEMMA BaseIs == Base \in Nat /\ Base \in Nat \ {0} /\ Base > 1
BY NumbersAssumption

Capacity(n) == Power(Base, n)

LEMMA CapacityIs ==
  /\ Capacity(0) = 1
  /\ \A n \in Nat : Capacity(n) \in Nat \ {0} /\ Capacity(n + 1) = Base * Capacity(n)
BY BaseIs, PowerIs, PowerPositive DEF Capacity

LEMMA DigitIs ==
  ASSUME NEW x \in Nat
  PROVE  /\ Digit(x, 0) = x % Base
         /\ \A k \in Nat : /\ Digit(x, k + 1) = Digit(x \div Base, k)
                           /\ Digit(x, k) \in 0 .. Base - 1
<1>1. Digit(x, 0) = x % Base
  <2>1. x \div 1 = x
    OBVIOUS
  <2> QED
    BY <2>1, CapacityIs DEF Digit, Capacity
<1>2. ASSUME NEW k \in Nat PROVE Digit(x, k + 1) = Digit(x \div Base, k)
  <2>1. Capacity(k) \in Nat \ {0} /\ Capacity(k + 1) = Base * Capacity(k)
    BY CapacityIs
  <2>2. (x \div Base) \div Capacity(k) = x \div (Base * Capacity(k))
    BY <2>1, BaseIs, DivDiv
  <2> QED
    BY <2>1, <2>2 DEF Digit, Capacity
<1>3. ASSUME NEW k \in Nat PROVE Digit(x, k) \in 0 .. Base - 1
  <2>1. Capacity(k) \in Nat \ {0}
    BY CapacityIs
  <2>2. x \div Capacity(k) \in Int
    BY <2>1, DivMod
  <2> DEFINE y == x \div Capacity(k)
  <2> HIDE DEF y
  <2>3. y \in Int => y % Base \in 0 .. Base - 1
    BY BaseIs, DivMod
  <2> QED
    BY <2>2, <2>3 DEF y, Digit, Capacity
<1> QED
  BY <1>1, <1>2, <1>3

\* A word of one byte more.
LEMMA OneMoreByte ==
  ASSUME NEW n \in Nat, NEW x \in Nat
  PROVE  x < Capacity(n + 1) <=> x \div Base < Capacity(n)
<1> DEFINE q == x \div Base
           r == x % Base
           c == Capacity(n)
<1>1. q \in Nat /\ r \in 0 .. Base - 1 /\ x = q * Base + r
  BY BaseIs, DivModNat
<1>2. c \in Nat /\ Capacity(n + 1) = Base * c
  BY CapacityIs
<1> HIDE DEF q, r, c
<1>3. ASSUME q < c PROVE x < Base * c
  <2>1. q + 1 <= c
    BY <1>1, <1>2, <1>3
  <2>2. (q + 1) * Base <= c * Base
    BY <1>1, <1>2, <2>1, BaseIs
  <2>3. (q + 1) * Base = q * Base + Base /\ c * Base = Base * c
    BY <1>1, <1>2, BaseIs
  <2>4. q * Base \in Nat /\ Base * c \in Nat
    BY <1>1, <1>2, BaseIs
  <2> QED
    BY <1>1, <2>2, <2>3, <2>4, BaseIs
<1>4. ASSUME q >= c PROVE x >= Base * c
  <2>1. q * Base >= c * Base
    BY <1>1, <1>2, <1>4, BaseIs
  <2>2. c * Base = Base * c /\ q * Base \in Nat /\ Base * c \in Nat
    BY <1>1, <1>2, BaseIs
  <2> QED
    BY <1>1, <2>1, <2>2
<1>5. Base * c \in Nat
  BY <1>2, BaseIs
<1> QED
  BY <1>1, <1>2, <1>3, <1>4, <1>5 DEF q, c

\* The bytes of a word are all there is of it.
SameDigits(x, y, n) == \A k \in 0 .. n - 1 : Digit(x, k) = Digit(y, k)

LEMMA DigitsAreAll ==
  ASSUME NEW n \in Nat, NEW x \in Nat, NEW y \in Nat, x < Capacity(n), y < Capacity(n),
         SameDigits(x, y, n)
  PROVE  x = y
<1> DEFINE Differ(k) == \E a, b \in Nat : a < Capacity(k) /\ b < Capacity(k)
                                          /\ SameDigits(a, b, k) /\ a # b
           B == { k \in Nat : Differ(k) }
<1>1. SUFFICES ASSUME B # {} PROVE FALSE
  OBVIOUS
<1>2. PICK k \in B : \A j \in B : k <= j
  <2>1. B \in SUBSET Nat
    OBVIOUS
  <2> HIDE DEF B
  <2> QED
    BY <1>1, <2>1, LeastNumber
<1>3. PICK a \in Nat, b \in Nat : a < Capacity(k) /\ b < Capacity(k)
                                  /\ SameDigits(a, b, k) /\ a # b
  BY <1>2
<1>4. k # 0
  <2>1. SUFFICES ASSUME k = 0 PROVE FALSE
    OBVIOUS
  <2>2. a < 1 /\ b < 1
    BY <1>3, <2>1, CapacityIs
  <2> QED
    BY <1>3, <2>2
<1> DEFINE j == k - 1
           c == a \div Base
           d == b \div Base
<1>5. j \in Nat /\ j + 1 = k /\ j \notin B
  BY <1>2, <1>4
<1>6. c \in Nat /\ d \in Nat /\ a = c * Base + (a % Base) /\ b = d * Base + (b % Base)
  BY BaseIs, DivModNat
<1> HIDE DEF j
<1>7. c < Capacity(j) /\ d < Capacity(j)
  BY <1>3, <1>5, OneMoreByte
<1>8. SameDigits(c, d, j)
  <2> SUFFICES ASSUME NEW i \in 0 .. j - 1 PROVE Digit(c, i) = Digit(d, i)
    BY DEF SameDigits
  <2>1. i \in Nat /\ i + 1 \in 0 .. k - 1
    BY <1>5
  <2>2. Digit(a, i + 1) = Digit(b, i + 1)
    BY <1>3, <2>1 DEF SameDigits
  <2> QED
    BY <2>1, <2>2, DigitIs
<1>9. a % Base = b % Base
  <2>1. 0 \in 0 .. k - 1
    BY <1>5
  <2>2. Digit(a, 0) = Digit(b, 0)
    BY <1>3, <2>1 DEF SameDigits
  <2> QED
    BY <2>2, DigitIs
<1>10. c = d
  BY <1>5, <1>6, <1>7, <1>8
<1> QED
  BY <1>3, <1>6, <1>9, <1>10

-----------------------------------------------------------------------------
(* Numbers: the loop of swap64() and swap32().                             *)

\* One turn of the loop of swap64() and swap32(), on the two words.
Words == Nat \X Nat
Shift == [w \in Words |-> << w[1] * Base + (w[2] % Base), w[2] \div Base >>]

LEMMA ShiftIs ==
  ASSUME NEW w \in Words
  PROVE  /\ Shift[w] \in Words /\ w[1] \in Nat /\ w[2] \in Nat
         /\ Shift[w][1] = w[1] * Base + (w[2] % Base) /\ Shift[w][2] = w[2] \div Base
<1>1. w[1] \in Nat /\ w[2] \in Nat
  BY DEF Words
<1>2. w[2] \div Base \in Nat /\ w[2] % Base \in Nat
  <2> DEFINE n == w[2]
  <2>1. n \in Nat
    BY <1>1
  <2> HIDE DEF n
  <2>2. n \div Base \in Nat /\ n % Base \in 0 .. Base - 1
    BY <2>1, BaseIs, DivModNat
  <2>3. n % Base \in Nat
    BY <2>2, BaseIs
  <2> QED
    BY <2>2, <2>3 DEF n
<1>3. w[1] * Base + (w[2] % Base) \in Nat
  BY <1>1, <1>2, BaseIs
<1>4. Shift[w] = << w[1] * Base + (w[2] % Base), w[2] \div Base >>
  BY DEF Shift
<1> QED
  BY <1>1, <1>2, <1>3, <1>4 DEF Words

LEMMA SwapLoop ==
  ASSUME NEW size \in Nat, NEW in \in Nat
  PROVE  \E f : /\ Iterates(f, Words, << 0, in >>, Shift, size)
                /\ swap(size, in) = f[size][1] % Capacity(size)
<1>1. Shift \in [Words -> Words]
  <2>1. \A w \in Words : Shift[w] \in Words
    BY ShiftIs
  <2>2. Shift = [w \in Words |-> Shift[w]]
    BY DEF Shift
  <2> QED
    BY <2>1, <2>2
<1>2. << 0, in >> \in Words
  BY DEF Words
<1>3. PICK f : Iterates(f, Words, << 0, in >>, Shift, size)
  BY <1>1, <1>2, LoopExists
<1>4. f \in [0 .. size -> Words] /\ f[0] = << 0, in >>
      /\ \A i \in 1 .. size : f[i] = Shift[f[i - 1]]
  BY <1>3 DEF Iterates
<1> DEFINE Equation(p) ==
             p = [i \in 0 .. size |->
                    IF i = 0 THEN << 0, in >>
                    ELSE << p[i - 1][1] * Base + (p[i - 1][2] % Base), p[i - 1][2] \div Base >>]
           l == CHOOSE p : Equation(p)
<1>5. Equation(f)
  <2>1. \A i \in 0 .. size : i # 0 => i \in 1 .. size /\ i - 1 \in 0 .. size
    OBVIOUS
  <2>2. \A w \in Words : Shift[w] = << w[1] * Base + (w[2] % Base), w[2] \div Base >>
    BY DEF Shift
  <2>3. \A i \in 0 .. size :
          f[i] = IF i = 0 THEN << 0, in >>
                 ELSE << f[i - 1][1] * Base + (f[i - 1][2] % Base), f[i - 1][2] \div Base >>
    BY <1>4, <2>1, <2>2
  <2>4. f = [i \in 0 .. size |-> f[i]]
    BY <1>4
  <2> QED
    BY <2>3, <2>4
<1>6. Equation(l)
  <2> HIDE DEF Equation
  <2> QED
    BY <1>5
<1>7. swap(size, in) = l[size][1] % Capacity(size)
  BY DEF swap, Capacity
<1> HIDE DEF l
<1>8. \A i \in 0 .. size :
        l[i] = IF i = 0 THEN << 0, in >>
               ELSE << l[i - 1][1] * Base + (l[i - 1][2] % Base), l[i - 1][2] \div Base >>
  BY <1>6
<1>9. \A i \in 0 .. size : l[i] = f[i]
  <2> DEFINE B == { k \in Nat : k <= size /\ l[k] # f[k] }
  <2>1. SUFFICES ASSUME B # {} PROVE FALSE
    OBVIOUS
  <2>2. PICK k \in B : \A j \in B : k <= j
    <3>1. B \in SUBSET Nat
      OBVIOUS
    <3> HIDE DEF B
    <3> QED
      BY <2>1, <3>1, LeastNumber
  <2>3. k # 0
    <3>1. 0 \in 0 .. size
      OBVIOUS
    <3>2. l[0] = << 0, in >>
      BY <1>8, <3>1
    <3> QED
      BY <1>4, <2>2, <3>2
  <2>4. k \in 1 .. size /\ k \in 0 .. size /\ k - 1 \in 0 .. size /\ k - 1 \in Nat /\ k - 1 \notin B
    BY <2>2, <2>3
  <2>5. l[k - 1] = f[k - 1]
    BY <2>4
  <2>6. l[k] = << l[k - 1][1] * Base + (l[k - 1][2] % Base), l[k - 1][2] \div Base >>
    BY <1>8, <2>3, <2>4
  <2>7. f[k] = << f[k - 1][1] * Base + (f[k - 1][2] % Base), f[k - 1][2] \div Base >>
    BY <1>4, <2>4 DEF Shift
  <2> QED
    BY <2>2, <2>5, <2>6, <2>7
<1>10. l[size] = f[size]
  BY <1>9
<1> QED
  BY <1>3, <1>7, <1>10

\* After n turns the first word holds the lowest n bytes of a word, in the other order.
Swapped(x, in, n) ==
  x \in Nat /\ x < Capacity(n) /\ \A k \in 0 .. n - 1 : Digit(x, k) = Digit(in, n - 1 - k)

LEMMA OneMoreSwapped ==
  ASSUME NEW in \in Nat, NEW n \in Nat, NEW x, Swapped(x, in, n), NEW y \in Nat,
         y = x * Base + Digit(in, n)
  PROVE  Swapped(y, in, n + 1)
<1>1. x \in Nat /\ x < Capacity(n) /\ \A k \in 0 .. n - 1 : Digit(x, k) = Digit(in, n - 1 - k)
  BY DEF Swapped
<1>2. Digit(in, n) \in 0 .. Base - 1
  BY DigitIs
<1> DEFINE d == Digit(in, n)
<1>3. y \div Base = x /\ y % Base = d
  <2> HIDE DEF d
  <2>1. x \in Int /\ d \in 0 .. Base - 1 /\ y = x * Base + d
    BY <1>1, <1>2 DEF d
  <2>2. (x * Base + d) \div Base = x /\ (x * Base + d) % Base = d
    BY <2>1, BaseIs, DivUnique
  <2> QED
    BY <2>1, <2>2
<1>4. y < Capacity(n + 1)
  BY <1>1, <1>3, OneMoreByte
<1>5. ASSUME NEW k \in 0 .. n PROVE Digit(y, k) = Digit(in, n - k)
  <2>1. CASE k = 0
    BY <1>3, <2>1, DigitIs
  <2>2. CASE k # 0
    <3> DEFINE j == k - 1
    <3>1. j \in Nat /\ j + 1 = k /\ j \in 0 .. n - 1 /\ n - 1 - j = n - k
      BY <2>2
    <3> HIDE DEF j
    <3>2. Digit(y, j + 1) = Digit(y \div Base, j)
      BY <3>1, DigitIs
    <3>3. Digit(x, j) = Digit(in, n - 1 - j)
      BY <1>1, <3>1
    <3> QED
      BY <1>3, <3>1, <3>2, <3>3
  <2> QED
    BY <2>1, <2>2
<1>6. \A k \in 0 .. (n + 1) - 1 : k \in 0 .. n /\ (n + 1) - 1 - k = n - k
  OBVIOUS
<1> QED
  BY <1>4, <1>5, <1>6 DEF Swapped

LEMMA SwapIs ==
  ASSUME NEW size \in Nat, NEW in \in Nat
  PROVE  Swapped(swap(size, in), in, size)
<1>1. PICK f : /\ Iterates(f, Words, << 0, in >>, Shift, size)
               /\ swap(size, in) = f[size][1] % Capacity(size)
  BY SwapLoop
<1>2. f \in [0 .. size -> Words] /\ f[0] = << 0, in >>
      /\ \A i \in 1 .. size : f[i] = Shift[f[i - 1]]
  BY <1>1 DEF Iterates
<1> DEFINE Far(i) == /\ Swapped(f[i][1], in, i)
                     /\ f[i][2] \in Nat /\ \A k \in Nat : Digit(f[i][2], k) = Digit(in, i + k)
           B == { i \in Nat : i <= size /\ ~Far(i) }
<1>3. Far(0)
  <2>1. f[0][1] = 0 /\ f[0][2] = in
    BY <1>2
  <2>2. Swapped(0, in, 0)
    BY CapacityIs DEF Swapped
  <2>3. \A k \in Nat : 0 + k = k
    OBVIOUS
  <2> QED
    BY <2>1, <2>2, <2>3
<1>4. ASSUME NEW i \in Nat, i + 1 <= size, Far(i) PROVE Far(i + 1)
  <2>1. i \in 0 .. size /\ i + 1 \in 1 .. size /\ (i + 1) - 1 = i
    BY <1>4
  <2> DEFINE w == f[i]
             v == f[i + 1]
  <2>2. w \in Words /\ v = Shift[w]
    <3>1. f[i + 1] = Shift[f[(i + 1) - 1]]
      BY <1>2, <2>1
    <3> QED
      BY <1>2, <2>1, <3>1
  <2>3. Swapped(w[1], in, i) /\ w[2] \in Nat /\ \A k \in Nat : Digit(w[2], k) = Digit(in, i + k)
    BY <1>4
  <2> HIDE DEF w, v
  <2>4. /\ v \in Words /\ w[1] \in Nat /\ v[1] = w[1] * Base + (w[2] % Base)
        /\ v[2] = w[2] \div Base
    BY <2>2, ShiftIs
  <2>5. w[2] % Base = Digit(in, i)
    <3>1. Digit(w[2], 0) = Digit(in, i + 0) /\ i + 0 = i
      BY <2>3
    <3> QED
      BY <2>3, <3>1, DigitIs
  <2>6. v[1] \in Nat /\ v[2] \in Nat
    BY <2>4 DEF Words
  <2>7. Swapped(v[1], in, i + 1)
    BY <2>3, <2>4, <2>5, <2>6, OneMoreSwapped
  <2>8. ASSUME NEW k \in Nat PROVE Digit(v[2], k) = Digit(in, (i + 1) + k)
    <3>1. Digit(w[2], k + 1) = Digit(w[2] \div Base, k)
      BY <2>3, DigitIs
    <3>2. k + 1 \in Nat /\ i + (k + 1) = (i + 1) + k
      OBVIOUS
    <3>3. Digit(w[2], k + 1) = Digit(in, i + (k + 1))
      BY <2>3, <3>2
    <3> QED
      BY <2>4, <3>1, <3>2, <3>3
  <2> QED
    BY <2>6, <2>7, <2>8 DEF v
<1>5. Far(size)
  <2> HIDE DEF Far
  <2>1. SUFFICES ASSUME B # {} PROVE FALSE
    OBVIOUS
  <2>2. PICK k \in B : \A j \in B : k <= j
    <3>1. B \in SUBSET Nat
      OBVIOUS
    <3> HIDE DEF B
    <3> QED
      BY <2>1, <3>1, LeastNumber
  <2>3. k # 0
    BY <1>3, <2>2
  <2> DEFINE j == k - 1
  <2>4. j \in Nat /\ j + 1 = k /\ j + 1 <= size /\ j \notin B
    BY <2>2, <2>3
  <2> HIDE DEF j
  <2>5. Far(j)
    BY <2>4
  <2>6. Far(j + 1)
    BY <1>4, <2>4, <2>5
  <2> QED
    BY <2>2, <2>4, <2>6
<1> DEFINE x == f[size][1]
<1>6. x \in Nat /\ x < Capacity(size) /\ Swapped(x, in, size)
  BY <1>5 DEF Swapped
<1> HIDE DEF x
<1>7. x % Capacity(size) = x
  <2>1. Capacity(size) \in Nat \ {0} /\ x \in 0 .. Capacity(size) - 1
    BY <1>6, CapacityIs
  <2>2. (0 * Capacity(size) + x) % Capacity(size) = x
    BY <2>1, DivUnique
  <2>3. 0 * Capacity(size) + x = x
    BY <1>6, <2>1
  <2> QED
    BY <2>2, <2>3
<1> QED
  BY <1>1, <1>6, <1>7 DEF x

\* Swapped twice, a word is itself again.
LEMMA SwapTwice ==
  ASSUME NEW size \in Nat, NEW in \in Nat, in < Capacity(size)
  PROVE  swap(size, swap(size, in)) = in
<1> DEFINE x == swap(size, in)
           y == swap(size, x)
<1>1. Swapped(x, in, size)
  BY SwapIs
<1> HIDE DEF x
<1>2. x \in Nat
  BY <1>1 DEF Swapped
<1>3. Swapped(y, x, size)
  BY <1>2, SwapIs
<1> HIDE DEF y
<1>4. ASSUME NEW k \in 0 .. size - 1 PROVE Digit(y, k) = Digit(in, k)
  <2> DEFINE j == size - 1 - k
  <2>1. j \in 0 .. size - 1 /\ size - 1 - j = k
    OBVIOUS
  <2>2. Digit(y, k) = Digit(x, j)
    BY <1>3 DEF Swapped
  <2> HIDE DEF j
  <2>3. Digit(x, j) = Digit(in, size - 1 - j)
    BY <1>1, <2>1 DEF Swapped
  <2> QED
    BY <2>1, <2>2, <2>3
<1>5. y \in Nat /\ y < Capacity(size) /\ SameDigits(y, in, size)
  BY <1>3, <1>4 DEF Swapped, SameDigits
<1>6. y = in
  BY <1>5, DigitsAreAll
<1> QED
  BY <1>6 DEF x, y

\* What OrderedInMemory says of one conversion.
Ordered(fn, size, in, host, x) ==
  /\ \A k \in 0 .. size - 1 :
       InMemory(size, x, host, k) = Digit(in, IF fn = "toBe" THEN size - 1 - k ELSE k)
  /\ in = IF fn = "toBe" THEN toBe(size, x, host) ELSE toLe(size, x, host)

LEMMA ConvertedIsOrdered ==
  ASSUME NEW size \in Sizes, NEW in \in 0 .. Power(Base, size) - 1, NEW host \in { "big", "little" }
  PROVE  /\ Ordered("toBe", size, in, host, toBe(size, in, host))
         /\ Ordered("toLe", size, in, host, toLe(size, in, host))
<1>1. size \in Nat
  BY NumbersAssumption
<1>2. in \in Nat /\ in < Capacity(size)
  <2>1. Capacity(size) \in Nat \ {0} /\ Capacity(size) = Power(Base, size)
    BY <1>1, CapacityIs DEF Capacity
  <2> QED
    BY <2>1
<1> DEFINE x == swap(size, in)
<1>3. Swapped(x, in, size) /\ swap(size, x) = in
  BY <1>1, <1>2, SwapIs, SwapTwice
<1>4. \A k \in 0 .. size - 1 : size - 1 - k \in 0 .. size - 1 /\ size - 1 - (size - 1 - k) = k
  BY <1>1
<1>5. \A k \in 0 .. size - 1 : Digit(x, k) = Digit(in, size - 1 - k)
  BY <1>3 DEF Swapped
<1>6. \A k \in 0 .. size - 1 : Digit(x, size - 1 - k) = Digit(in, k)
  <2> SUFFICES ASSUME NEW k \in 0 .. size - 1 PROVE Digit(x, size - 1 - k) = Digit(in, k)
    OBVIOUS
  <2> DEFINE j == size - 1 - k
  <2>1. j \in 0 .. size - 1 /\ size - 1 - j = k
    BY <1>4
  <2> HIDE DEF j, x
  <2>2. Digit(x, j) = Digit(in, size - 1 - j)
    BY <1>5, <2>1
  <2> QED
    BY <2>1, <2>2 DEF j
<1> HIDE DEF x
<1>7. CASE host = "big"
  <2>1. toBe(size, in, host) = in /\ toLe(size, in, host) = x /\ toLe(size, x, host) = in
    BY <1>3, <1>7 DEF toBe, toLe, x
  <2>2. \A y, k : InMemory(size, y, host, k) = Digit(y, size - 1 - k)
    BY <1>7 DEF InMemory
  <2>3. Ordered("toBe", size, in, host, in)
    BY <2>1, <2>2 DEF Ordered
  <2>4. Ordered("toLe", size, in, host, x)
    BY <1>6, <2>1, <2>2 DEF Ordered
  <2> QED
    BY <2>1, <2>3, <2>4
<1>8. CASE host = "little"
  <2>1. toLe(size, in, host) = in /\ toBe(size, in, host) = x /\ toBe(size, x, host) = in
    BY <1>3, <1>8 DEF toBe, toLe, x
  <2>2. \A y, k : InMemory(size, y, host, k) = Digit(y, k)
    BY <1>8 DEF InMemory
  <2>3. Ordered("toLe", size, in, host, in)
    BY <2>1, <2>2 DEF Ordered
  <2>4. Ordered("toBe", size, in, host, x)
    BY <1>5, <2>1, <2>2 DEF Ordered
  <2> QED
    BY <2>1, <2>3, <2>4
<1> QED
  BY <1>7, <1>8

-----------------------------------------------------------------------------
(* Numbers: what strToI64() and strToU64() return.                         *)

\* Half of the values that a register has.
Half == Power(2, Width - 1)

LEMMA HalfIs ==
  /\ Half \in Nat \ {0} /\ Modulo = 2 * Half /\ Modulo \in Nat \ {0}
  /\ LONG_MAX = Half - 1 /\ LONG_MIN = -Half /\ ULONG_MAX = 2 * Half - 1
<1> DEFINE w == Width - 1
<1>1. w \in Nat /\ w + 1 = Width /\ 2 \in Nat \ {0}
  BY NumbersAssumption
<1> HIDE DEF w
<1>2. Power(2, w) \in Nat \ {0}
  BY <1>1, PowerPositive
<1>3. Power(2, w + 1) = 2 * Power(2, w)
  BY <1>1, PowerIs
<1> QED
  BY <1>1, <1>2, <1>3 DEF Half, Modulo, LONG_MAX, LONG_MIN, ULONG_MAX, w

\* A multiple leaves no remainder, and a value of the type is its own.
LEMMA MultipleOrSmall ==
  ASSUME NEW b \in Nat \ {0}
  PROVE  /\ \A q \in Int : (q * b) % b = 0
         /\ \A n \in 0 .. b - 1 : n % b = n
<1>1. ASSUME NEW q \in Int PROVE (q * b) % b = 0
  <2>1. 0 \in 0 .. b - 1
    OBVIOUS
  <2>2. (q * b + 0) % b = 0
    BY <2>1, DivUnique
  <2>3. q * b \in Int
    OBVIOUS
  <2> DEFINE p == q * b
  <2> HIDE DEF p
  <2>4. p + 0 = p
    BY <2>3 DEF p
  <2> QED
    BY <2>2, <2>4 DEF p
<1>2. ASSUME NEW n \in 0 .. b - 1 PROVE n % b = n
  <2>1. (0 * b + n) % b = n
    BY DivUnique
  <2>2. 0 * b + n = n
    OBVIOUS
  <2> QED
    BY <2>1, <2>2
<1> QED
  BY <1>1, <1>2

LEMMA SignedIs ==
  ASSUME NEW n \in Int
  PROVE  /\ Signed(n) \in LONG_MIN .. LONG_MAX
         /\ (Signed(n) - n) % Modulo = 0
         /\ n \in LONG_MIN .. LONG_MAX => Signed(n) = n
<1> DEFINE m == Modulo
           a == n + Half
           q == a \div m
           r == a % m
<1>1. Half \in Nat \ {0} /\ m \in Nat \ {0} /\ m = 2 * Half
  BY HalfIs
<1>2. a \in Int
  BY <1>1
<1> HIDE DEF m, a
<1>3. q \in Int /\ r \in 0 .. m - 1 /\ a = q * m + r
  BY <1>1, <1>2, DivMod
<1>4. Signed(n) = r - Half
  <2>1. n - LONG_MIN = a
    BY <1>1, HalfIs DEF a
  <2>2. r \in Int
    BY <1>1, <1>3
  <2> HIDE DEF r
  <2>3. r + LONG_MIN = r - Half
    BY <1>1, <2>2, HalfIs
  <2> QED
    BY <2>1, <2>3 DEF Signed, r, m
<1> HIDE DEF q, r
<1>5. Signed(n) \in LONG_MIN .. LONG_MAX
  BY <1>1, <1>3, <1>4, HalfIs
<1>6. (Signed(n) - n) % m = 0
  <2> DEFINE p == q * m
             s == -q
  <2>1. p \in Int /\ s \in Int /\ s * m = -p
    BY <1>1, <1>3
  <2>2. Signed(n) - n = -p
    <3> HIDE DEF p
    <3>1. a = p + r
      BY <1>3 DEF p
    <3> QED
      BY <1>1, <1>3, <1>4, <2>1, <3>1 DEF a
  <2> HIDE DEF s, p
  <2>3. (s * m) % m = 0
    BY <1>1, <2>1, MultipleOrSmall
  <2> QED
    BY <2>1, <2>2, <2>3
<1>7. ASSUME n \in LONG_MIN .. LONG_MAX PROVE Signed(n) = n
  <2>1. a \in 0 .. m - 1
    BY <1>1, <1>7, HalfIs DEF a
  <2>2. a % m = a
    BY <1>1, <2>1, MultipleOrSmall
  <2> QED
    BY <1>1, <1>4, <2>2 DEF a, r
<1> QED
  BY <1>5, <1>6, <1>7 DEF m

LEMMA FactorIs ==
  ASSUME NEW next \in Nexts, NEW parse_suffix \in BOOLEAN
  PROVE  Factor(next, parse_suffix) \in Nat \ {0}
BY NumbersAssumption DEF Factor

\* A product is at least as far from 0 as what is multiplied.
LEMMA ProductIsFar ==
  ASSUME NEW v \in Int, NEW f \in Nat \ {0}
  PROVE  v * f \in Int /\ (v >= 0 => v * f >= v) /\ (v <= 0 => v * f <= v)
<1>1. f - 1 \in Nat /\ v * f = v * (f - 1) + v
  OBVIOUS
<1>2. v >= 0 => v * (f - 1) >= 0
  BY <1>1
<1>3. v <= 0 => v * (f - 1) <= 0
  BY <1>1
<1>4. v * (f - 1) \in Int
  BY <1>1
<1> QED
  BY <1>1, <1>2, <1>3, <1>4

\* What ParsedExactly says of a signed and of an unsigned number.
SignedExactly(v, f, x) ==
  LET product == v * f
  IN  /\ product \in LONG_MIN .. LONG_MAX => x = product
      /\ v > LONG_MAX => x = LONG_MAX
      /\ v < LONG_MIN => x = LONG_MIN
      /\ x \in LONG_MIN .. LONG_MAX
      /\ x \in { LONG_MIN, LONG_MAX } \/ (x - product) % Modulo = 0

UnsignedExactly(v, f, x) ==
  LET product == v * f
  IN  /\ product \in 0 .. ULONG_MAX => x = product
      /\ v > ULONG_MAX \/ v < -ULONG_MAX => x = ULONG_MAX
      /\ x = ULONG_MAX \/ (x - product) % Modulo = 0

LEMMA SignedIsExact ==
  ASSUME NEW v \in Int, NEW next \in Nexts, NEW parse_suffix \in BOOLEAN
  PROVE  SignedExactly(v, Factor(next, parse_suffix), strToI64(v, next, parse_suffix))
<1> DEFINE f == Factor(next, parse_suffix)
           x == strToI64(v, next, parse_suffix)
           product == v * f
<1>1. f \in Nat \ {0}
  BY FactorIs
<1>2. x = IF strtol(v) \in { LONG_MIN, LONG_MAX } THEN strtol(v) ELSE Signed(strtol(v) * f)
  BY DEF strToI64
<1> HIDE DEF f, x
<1>3. product \in Int /\ (v >= 0 => product >= v) /\ (v <= 0 => product <= v)
  BY <1>1, ProductIsFar
<1>4. Half \in Nat \ {0} /\ LONG_MAX = Half - 1 /\ LONG_MIN = -Half
  BY HalfIs
<1>5. CASE v > LONG_MAX
  <2>1. strtol(v) = LONG_MAX
    BY <1>5 DEF strtol
  <2>2. x = LONG_MAX
    BY <1>2, <2>1
  <2>3. ~(product \in LONG_MIN .. LONG_MAX) /\ ~(v < LONG_MIN)
    <3> HIDE DEF product
    <3> QED
      BY <1>3, <1>4, <1>5
  <2>4. x \in LONG_MIN .. LONG_MAX
    BY <1>4, <2>2
  <2> QED
    BY <2>2, <2>3, <2>4 DEF SignedExactly, f, x
<1>6. CASE v < LONG_MIN
  <2>1. ~(v > LONG_MAX)
    BY <1>4, <1>6
  <2>2. strtol(v) = LONG_MIN
    BY <1>6, <2>1 DEF strtol
  <2>3. x = LONG_MIN
    BY <1>2, <2>2
  <2>4. ~(product \in LONG_MIN .. LONG_MAX)
    <3> HIDE DEF product
    <3> QED
      BY <1>3, <1>4, <1>6
  <2>5. x \in LONG_MIN .. LONG_MAX
    BY <1>4, <2>3
  <2> QED
    BY <2>1, <2>3, <2>4, <2>5 DEF SignedExactly, f, x
<1>7. CASE v \in LONG_MIN .. LONG_MAX
  <2>1. ~(v > LONG_MAX) /\ ~(v < LONG_MIN)
    BY <1>4, <1>7
  <2>2. strtol(v) = v
    BY <2>1 DEF strtol
  <2>3. CASE v \in { LONG_MIN, LONG_MAX }
    <3>1. x = v
      BY <1>2, <2>2, <2>3
    <3>2. product \in LONG_MIN .. LONG_MAX => x = product
      <4> HIDE DEF product
      <4> QED
        BY <1>3, <1>4, <2>3, <3>1
    <3> QED
      BY <1>7, <2>1, <2>3, <3>1, <3>2 DEF SignedExactly, f, x
  <2>4. CASE v \notin { LONG_MIN, LONG_MAX }
    <3>1. x = Signed(product)
      BY <1>2, <2>2, <2>4
    <3>2. /\ x \in LONG_MIN .. LONG_MAX /\ (x - product) % Modulo = 0
          /\ product \in LONG_MIN .. LONG_MAX => x = product
      <4> HIDE DEF product
      <4> QED
        BY <1>3, <3>1, SignedIs
    <3> QED
      BY <2>1, <3>2 DEF SignedExactly, f, x
  <2> QED
    BY <2>3, <2>4
<1> QED
  BY <1>4, <1>5, <1>6, <1>7

LEMMA UnsignedIsExact ==
  ASSUME NEW v \in Int, NEW next \in Nexts, NEW parse_suffix \in BOOLEAN
  PROVE  UnsignedExactly(v, Factor(next, parse_suffix), strToU64(v, next, parse_suffix))
<1> DEFINE f == Factor(next, parse_suffix)
           x == strToU64(v, next, parse_suffix)
           product == v * f
           m == Modulo
<1>1. f \in Nat \ {0}
  BY FactorIs
<1>2. x = IF strtoul(v) = ULONG_MAX THEN ULONG_MAX ELSE (strtoul(v) * f) % m
  BY DEF strToU64
<1> HIDE DEF f, x, m
<1>3. product \in Int /\ (v >= 0 => product >= v) /\ (v <= 0 => product <= v)
  BY <1>1, ProductIsFar
<1>4. m \in Nat \ {0} /\ ULONG_MAX = m - 1
  BY HalfIs DEF m
<1>5. CASE v > ULONG_MAX \/ v < -ULONG_MAX
  <2>1. x = ULONG_MAX
    BY <1>2, <1>5 DEF strtoul
  <2>2. ~(product \in 0 .. ULONG_MAX)
    <3> HIDE DEF product
    <3> QED
      BY <1>3, <1>4, <1>5
  <2> QED
    BY <2>1, <2>2 DEF UnsignedExactly, f, x
<1>6. CASE ~(v > ULONG_MAX \/ v < -ULONG_MAX)
  <2> DEFINE s == v % m
             q == v \div m
  <2>1. strtoul(v) = s
    BY <1>6 DEF strtoul, m
  <2>2. s \in 0 .. m - 1 /\ q \in Int /\ v = q * m + s
    BY <1>4, DivMod
  <2>3. v >= 0 => s = v
    <3>1. v >= 0 => v \in 0 .. m - 1
      BY <1>4, <1>6
    <3> QED
      BY <1>4, <3>1, MultipleOrSmall
  <2> HIDE DEF s, q
  <2>4. product \in 0 .. ULONG_MAX => v >= 0
    <3>1. v < 0 => product < 0
      <4> HIDE DEF product
      <4> QED
        BY <1>3
    <3> QED
      BY <1>3, <1>4, <3>1
  <2>5. CASE s = ULONG_MAX
    <3>1. x = ULONG_MAX
      BY <1>2, <2>1, <2>5
    <3>2. product \in 0 .. ULONG_MAX => x = product
      <4> HIDE DEF product
      <4> QED
        BY <1>3, <1>4, <2>3, <2>4, <2>5, <3>1
    <3> QED
      BY <1>6, <3>1, <3>2 DEF UnsignedExactly, f, x
  <2>6. CASE s # ULONG_MAX
    <3> DEFINE a == s * f
    <3>1. x = a % m
      BY <1>2, <2>1, <2>6
    <3>2. a \in Nat
      BY <1>1, <1>4, <2>2
    <3>3. product \in 0 .. ULONG_MAX => x = product
      <4>1. ASSUME product \in 0 .. ULONG_MAX PROVE x = product
        <5>1. a = product
          BY <2>3, <2>4, <4>1
        <5> HIDE DEF a, product
        <5>2. a \in 0 .. m - 1
          BY <1>4, <4>1, <5>1
        <5> QED
          BY <1>4, <3>1, <5>1, <5>2, MultipleOrSmall
      <4> QED
        BY <4>1
    <3>4. (x - product) % m = 0
      <4> DEFINE t == a % m
                 u == a \div m
                 w == -(q * f) - u
      <4>1. t \in 0 .. m - 1 /\ u \in Int /\ a = u * m + t
        <5> HIDE DEF a
        <5> QED
          BY <1>4, <3>2, DivMod
      <4>2. w \in Int
        <5> HIDE DEF u
        <5> QED
          BY <1>1, <2>2, <4>1
      <4>3. product = q * f * m + a
        <5>1. (q * m + s) * f = q * f * m + s * f
          BY <1>1, <1>4, <2>2
        <5> QED
          BY <2>2, <5>1
      <4>4. w * m = -(q * f * m) - u * m
        <5> DEFINE e == q * f
        <5>1. e \in Int
          BY <1>1, <2>2
        <5> HIDE DEF e, u
        <5>2. (-e - u) * m = -(e * m) - u * m
          BY <1>4, <4>1, <5>1
        <5> QED
          BY <5>2 DEF e
      <4>5. x - product = w * m
        <5> DEFINE e == q * f * m
                   h == u * m
        <5>1. e \in Int /\ h \in Int
          <6>1. q * f \in Int
            BY <1>1, <2>2
          <6> HIDE DEF u
          <6> QED
            BY <1>4, <4>1, <6>1
        <5>2. product = e + a /\ a = h + t /\ x = t /\ w * m = -e - h
          BY <3>1, <4>1, <4>3, <4>4
        <5>3. t \in Int /\ a \in Int
          BY <1>4, <3>2, <4>1
        <5> HIDE DEF e, h, t, a, product, w
        <5> QED
          BY <5>1, <5>2, <5>3
      <4> HIDE DEF w
      <4>6. (w * m) % m = 0
        BY <1>4, <4>2, MultipleOrSmall
      <4> QED
        BY <4>5, <4>6
    <3> QED
      BY <1>6, <3>3, <3>4 DEF UnsignedExactly, f, x, m
  <2> QED
    BY <2>5, <2>6
<1> QED
  BY <1>5, <1>6

-----------------------------------------------------------------------------
(* Numbers: the masks of the levels.                                       *)

KnownLevels == EMERGENCY .. DEBUGGING

LEMMA LevelsAre ==
  /\ IsFiniteSet(KnownLevels) /\ KnownLevels \subseteq Nat
  /\ [l \in KnownLevels |-> logMask(l)] \in [KnownLevels -> Int]
  /\ \A l \in KnownLevels : KnownLevel(l) /\ logMask(l) = Power(2, l) /\ logMask(l) \in Int
<1>1. KnownLevels = 0 .. 7
  BY DEF KnownLevels, EMERGENCY, DEBUGGING
<1>2. IsFiniteSet(KnownLevels)
  <2>1. EMERGENCY \in Int /\ DEBUGGING \in Int
    BY DEF EMERGENCY, DEBUGGING
  <2> QED
    BY <2>1, FS_Interval DEF KnownLevels
<1>3. ASSUME NEW l \in KnownLevels
      PROVE  KnownLevel(l) /\ logMask(l) = Power(2, l) /\ logMask(l) \in Int
  <2>1. l \in Nat /\ KnownLevel(l)
    BY <1>1 DEF KnownLevel, EMERGENCY, DEBUGGING
  <2>2. Power(2, l) \in Nat
    BY <2>1, PowerIs
  <2> QED
    BY <2>1, <2>2 DEF logMask
<1> QED
  BY <1>1, <1>2, <1>3

LEMMA MasksAre ==
  ASSUME NEW S \in SUBSET KnownLevels
  PROVE  Masks(S) = Total(KnownLevels, [l \in KnownLevels |-> logMask(l)])[S]
<1> DEFINE g == [l \in KnownLevels |-> logMask(l)]
           Equation(f) == f = [s \in SUBSET S |-> IF s = {} THEN 0
                                 ELSE f[s \ { Some(s) }] + logMask(Some(s))]
           W == CHOOSE f : Equation(f)
           T == Total(KnownLevels, g)
           Z == [s \in SUBSET S |-> T[s]]
<1>1. Masks(S) = W[S]
  BY DEF Masks, FoldSet, MapThenFoldSet, Some
<1>2. g \in [KnownLevels -> Int] /\ IsFiniteSet(KnownLevels)
  BY LevelsAre
<1>3. AddsUp(KnownLevels, g, T)
  BY <1>2, TotalAddsUp
<1>4. \A s \in SUBSET S : s # {} => Some(s) \in KnownLevels /\ g[Some(s)] = logMask(Some(s))
  <2> SUFFICES ASSUME NEW s \in SUBSET S, s # {}
               PROVE  Some(s) \in KnownLevels /\ g[Some(s)] = logMask(Some(s))
    OBVIOUS
  <2>1. Some(s) \in s
    BY SomeIsIn
  <2> QED
    BY <2>1
<1> HIDE DEF g, T
<1>5. \A s \in SUBSET S :
        T[s] = IF s = {} THEN 0 ELSE T[s \ { Some(s) }] + logMask(Some(s))
  <2> SUFFICES ASSUME NEW s \in SUBSET S
               PROVE  T[s] = IF s = {} THEN 0 ELSE T[s \ { Some(s) }] + logMask(Some(s))
    OBVIOUS
  <2>1. s \in SUBSET KnownLevels /\ s \ { Some(s) } \in SUBSET KnownLevels
    OBVIOUS
  <2>2. T[s] = IF s = {} THEN 0 ELSE g[Some(s)] + T[s \ { Some(s) }]
    BY <1>3, <2>1 DEF AddsUp, Unfolds
  <2>3. T[s \ { Some(s) }] \in Int
    BY <1>3, <2>1 DEF AddsUp
  <2>4. CASE s = {}
    BY <2>2, <2>4
  <2>5. CASE s # {}
    <3>1. g[Some(s)] \in Int /\ g[Some(s)] = logMask(Some(s))
      BY <1>2, <1>4, <2>5
    <3> QED
      BY <2>2, <2>3, <2>5, <3>1
  <2> QED
    BY <2>4, <2>5
<1>6. Equation(Z)
  <2>1. \A s \in SUBSET S : s \ { Some(s) } \in SUBSET S
    OBVIOUS
  <2>2. \A s \in SUBSET S : Z[s] = T[s]
    OBVIOUS
  <2>3. \A s \in SUBSET S : Z[s] = IF s = {} THEN 0 ELSE Z[s \ { Some(s) }] + logMask(Some(s))
    BY <1>5, <2>1, <2>2
  <2> QED
    BY <2>3
<1>7. Equation(W)
  <2> HIDE DEF Equation, Z
  <2> QED
    BY <1>6
<1> HIDE DEF W
<1>8. \A s \in SUBSET S : W[s] = T[s]
  <2> DEFINE B == { s \in SUBSET KnownLevels : s \subseteq S /\ W[s] # T[s] }
  <2>1. SUFFICES ASSUME B # {} PROVE FALSE
    OBVIOUS
  <2>2. PICK s \in B : \A t \in SUBSET s : t # s => t \notin B
    <3>1. B \subseteq SUBSET KnownLevels
      OBVIOUS
    <3> HIDE DEF B
    <3> QED
      BY <1>2, <2>1, <3>1, SmallestSet
  <2>3. s \in SUBSET KnownLevels /\ s \in SUBSET S /\ W[s] # T[s]
    BY <2>2
  <2>4. W[s] = IF s = {} THEN 0 ELSE W[s \ { Some(s) }] + logMask(Some(s))
    BY <1>7, <2>3
  <2>5. s # {}
    BY <1>5, <2>3, <2>4
  <2>6. Some(s) \in s
    BY <2>5, SomeIsIn
  <2>7. s \ { Some(s) } \in SUBSET s /\ s \ { Some(s) } # s /\ s \ { Some(s) } \in SUBSET KnownLevels
    BY <2>3, <2>6
  <2>8. W[s \ { Some(s) }] = T[s \ { Some(s) }]
    BY <2>2, <2>3, <2>7
  <2> QED
    BY <1>5, <2>3, <2>4, <2>5, <2>8
<1> QED
  BY <1>1, <1>8 DEF g, T

\* Up to a level the masks add up to one less than the next.
LEMMA MasksUpTo ==
  ASSUME NEW level \in KnownLevels
  PROVE  Masks(EMERGENCY .. level) = Power(2, level + 1) - 1
<1> DEFINE g == [l \in KnownLevels |-> logMask(l)]
           T == Total(KnownLevels, g)
           B == { k \in Nat : k \in KnownLevels /\ T[0 .. k] # Power(2, k + 1) - 1 }
<1>1. g \in [KnownLevels -> Int] /\ IsFiniteSet(KnownLevels) /\ KnownLevels \subseteq Nat /\ KnownLevels = 0 .. 7
  BY LevelsAre DEF KnownLevels, EMERGENCY, DEBUGGING
<1>2. AddsUp(KnownLevels, g, T)
  BY <1>1, TotalAddsUp
<1>3. \A l \in KnownLevels : g[l] = Power(2, l)
  BY LevelsAre
<1> HIDE DEF g, T
<1>4. T[{}] = 0 /\ T \in [SUBSET KnownLevels -> Int]
  BY <1>2 DEF AddsUp, Unfolds
<1>5. \A n \in Nat : Power(2, n) \in Nat /\ Power(2, n + 1) = 2 * Power(2, n)
  BY PowerIs
<1>6. ASSUME NEW k \in KnownLevels, NEW r \in SUBSET KnownLevels, k \notin r, T[r] = Power(2, k) - 1,
             r \cup { k } = 0 .. k
      PROVE  T[0 .. k] = Power(2, k + 1) - 1
  <2>1. T[r \cup { k }] = g[k] + T[r]
    BY <1>1, <1>2, <1>6, SumWithOneMore
  <2>2. k \in Nat
    BY <1>1
  <2>3. Power(2, k) \in Nat /\ Power(2, k + 1) = 2 * Power(2, k)
    BY <1>5, <2>2
  <2>4. T[0 .. k] = g[k] + T[r]
    BY <1>6, <2>1
  <2> QED
    BY <1>3, <1>6, <2>3, <2>4
<1>7. B = {}
  <2>1. SUFFICES ASSUME B # {} PROVE FALSE
    OBVIOUS
  <2>2. PICK k \in B : \A j \in B : k <= j
    <3>1. B \in SUBSET Nat
      OBVIOUS
    <3> HIDE DEF B
    <3> QED
      BY <2>1, <3>1, LeastNumber
  <2>3. k \in KnownLevels /\ k \in Nat /\ T[0 .. k] # Power(2, k + 1) - 1
    BY <2>2
  <2>4. CASE k = 0
    <3>1. Power(2, 0) = 1
      BY PowerIs
    <3>2. T[{}] = Power(2, k) - 1 /\ {} \in SUBSET KnownLevels /\ {} \cup { k } = 0 .. k
      BY <1>4, <2>4, <3>1
    <3> QED
      BY <1>6, <2>3, <3>2
  <2>5. CASE k # 0
    <3> DEFINE j == k - 1
    <3>1. j \in Nat /\ j + 1 = k /\ j \in KnownLevels /\ j \notin B
      <4>1. j \in Nat /\ j + 1 = k /\ j \in KnownLevels /\ ~(k <= j)
        <5> HIDE DEF B, KnownLevels
        <5> QED
          BY <1>1, <2>3, <2>5
      <4> HIDE DEF j, B
      <4> QED
        BY <2>2, <4>1
    <3> HIDE DEF j
    <3>2. T[0 .. j] = Power(2, k) - 1
      BY <3>1
    <3>3. 0 .. j \in SUBSET KnownLevels /\ k \notin 0 .. j /\ (0 .. j) \cup { k } = 0 .. k
      <4>1. KnownLevels = 0 .. 7 /\ k \in 0 .. 7 /\ j \in Nat /\ k = j + 1
        BY <1>1, <2>3, <3>1
      <4> HIDE DEF KnownLevels
      <4>2. \A i \in 0 .. j : i \in 0 .. 7
        BY <4>1
      <4>3. k \notin 0 .. j
        BY <4>1
      <4>4. \A i : i \in (0 .. j) \cup { k } <=> i \in 0 .. k
        BY <4>1
      <4> QED
        BY <4>1, <4>2, <4>3, <4>4
    <3> QED
      BY <1>6, <2>3, <3>2, <3>3
  <2> QED
    BY <2>4, <2>5
<1>8. level \in Nat /\ T[0 .. level] = Power(2, level + 1) - 1
  BY <1>1, <1>7
<1>9. 0 .. level \in SUBSET KnownLevels
  BY <1>1
<1>10. Masks(0 .. level) = T[0 .. level]
  BY <1>9, MasksAre DEF g, T
<1> QED
  BY <1>8, <1>10 DEF EMERGENCY

-----------------------------------------------------------------------------
(* Numbers: the calls.                                                     *)

NumberInv == ParsedExactly /\ OrderedInMemory /\ MasksAdd

LEMMA NumberBegins == ASSUME NumberInit PROVE NumberInv
BY DEF NumberInit, NumberInv, ParsedExactly, OrderedInMemory, MasksAdd

LEMMA NumberGoesOn ==
  ASSUME NumberInv, [NumberNext]_numberVars
  PROVE  NumberInv'
<1>1. CASE UNCHANGED numberVars
  BY <1>1 DEF NumberInv, ParsedExactly, OrderedInMemory, MasksAdd, numberVars
<1>2. ASSUME NEW v \in Values, NEW next \in Nexts, NEW parse_suffix \in BOOLEAN,
             Parse(v, next, parse_suffix)
      PROVE  NumberInv'
  <2>1. v \in Int
    BY NumbersAssumption
  <2>2. /\ SignedExactly(v, Factor(next, parse_suffix), strToI64(v, next, parse_suffix))
        /\ UnsignedExactly(v, Factor(next, parse_suffix), strToU64(v, next, parse_suffix))
    BY <2>1, SignedIsExact, UnsignedIsExact
  <2>3. asked'.fn \in { "strToI64", "strToU64" }
    BY <1>2 DEF Parse
  <2>4. asked'.v = v /\ asked'.next = next /\ asked'.suffix = parse_suffix
    BY <1>2 DEF Parse
  <2>5. /\ asked'.fn = "strToI64" => answer' = strToI64(v, next, parse_suffix)
        /\ asked'.fn = "strToU64" => answer' = strToU64(v, next, parse_suffix)
    BY <1>2 DEF Parse
  <2>6. ParsedExactly'
    BY <2>2, <2>4, <2>5 DEF ParsedExactly, SignedExactly, UnsignedExactly
  <2> QED
    BY <2>3, <2>6 DEF NumberInv, OrderedInMemory, MasksAdd
<1>3. ASSUME NEW size \in Sizes, NEW in \in 0 .. Power(Base, size) - 1,
             NEW host \in { "big", "little" }, Convert(size, in, host)
      PROVE  NumberInv'
  <2>1. /\ Ordered("toBe", size, in, host, toBe(size, in, host))
        /\ Ordered("toLe", size, in, host, toLe(size, in, host))
    BY ConvertedIsOrdered
  <2>2. /\ asked'.fn \in { "toBe", "toLe" }
        /\ asked'.size = size /\ asked'.in = in /\ asked'.host = host
    BY <1>3 DEF Convert
  <2>3. /\ asked'.fn = "toBe" => answer' = toBe(size, in, host)
        /\ asked'.fn = "toLe" => answer' = toLe(size, in, host)
    BY <1>3 DEF Convert
  <2>4. Ordered(asked'.fn, asked'.size, asked'.in, asked'.host, answer')
    BY <2>1, <2>2, <2>3
  <2>5. OrderedInMemory'
    BY <2>4 DEF OrderedInMemory, Ordered
  <2> QED
    BY <2>2, <2>5 DEF NumberInv, ParsedExactly, MasksAdd
<1>4. ASSUME NEW level \in EMERGENCY - 1 .. DEBUGGING + 1, Mask(level)
      PROVE  NumberInv'
  <2>1. asked' = [fn |-> "logUpto", level |-> level] /\ answer' = logUpto(level)
    BY <1>4 DEF Mask
  <2>2. KnownLevel(level) <=> level \in KnownLevels
    BY DEF KnownLevel, KnownLevels, EMERGENCY, DEBUGGING
  <2>3. answer' = IF KnownLevel(level) THEN Masks(EMERGENCY .. level) ELSE 0
    BY <2>1, <2>2, MasksUpTo DEF logUpto
  <2>4. MasksAdd'
    BY <2>1, <2>3 DEF MasksAdd
  <2> QED
    BY <2>1, <2>4 DEF NumberInv, ParsedExactly, OrderedInMemory
<1>5. CASE NumberNext
  BY <1>2, <1>3, <1>4, <1>5 DEF NumberNext
<1> QED
  BY <1>1, <1>5
=============================================================================
