--------------------------- MODULE LibraryProofs ---------------------------
(***************************************************************************)
(* Theorems about the classes of MCLibrary: what one of them acquires in   *)
(* several calls it gives back, for any number of threads and descriptors, *)
(* any buffer sizes, and whichever call fails; what it writes and visits;  *)
(* and, with ValueProofs, what its functions return.                       *)
(***************************************************************************)
EXTENDS MCLibrary, ValueProofs

-----------------------------------------------------------------------------
(* AsyncIo: the system calls of each function.                             *)

Settings == { "O_NONBLOCK", "FD_CLOEXEC", "SO_REUSEADDR", "bind", "listen", "connect" }

StepSet == [does : Checks \cup Makers \cup Settings \cup { "close" }, to : 0 .. 2]

\* The descriptors that a function makes, and the calls it makes on them.
Ends(fn) == IF fn = "pipe2" THEN 2 ELSE 1
Work(n)  == [does : Settings, to : 1 .. n]

\* What the calls of s do to descriptor k.
Over(s, k) == { s[i].does : i \in { j \in 1 .. Len(s) : s[j].to = k } }

\* A check, a call that makes n descriptors, and calls on those.
Plan(s, n) ==
  /\ s \in Seq(StepSet) /\ Len(s) >= 2
  /\ s[1].does \in Checks /\ s[1].to = 0
  /\ s[2].does \in Makers /\ s[2].to = 0 /\ (s[2].does = "pipe" <=> n = 2)
  /\ \A i \in 3 .. Len(s) : s[i] \in Work(n)

LEMMA OverConcat ==
  ASSUME NEW S, NEW s \in Seq(S), NEW t \in Seq(S), NEW k
  PROVE  Over(s \o t, k) = Over(s, k) \cup Over(t, k)
<1> DEFINE m == s \o t
<1>1. Len(s) \in Nat /\ Len(t) \in Nat /\ Len(m) = Len(s) + Len(t)
  BY Joined
<1>2. /\ \A i \in 1 .. Len(s) : m[i] = s[i]
      /\ \A i \in 1 .. Len(t) : m[Len(s) + i] = t[i]
  BY Joined
<1> HIDE DEF m
<1>3. /\ \A i \in 1 .. Len(s) : i \in 1 .. Len(m)
      /\ \A i \in 1 .. Len(t) : Len(s) + i \in 1 .. Len(m)
      /\ \A i \in 1 .. Len(m) : i \in 1 .. Len(s) \/ i - Len(s) \in 1 .. Len(t)
      /\ \A i \in 1 .. Len(m) : Len(s) + (i - Len(s)) = i
  BY <1>1
<1>4. Over(m, k) \subseteq Over(s, k) \cup Over(t, k)
  <2> SUFFICES ASSUME NEW i \in 1 .. Len(m), m[i].to = k
               PROVE  m[i].does \in Over(s, k) \cup Over(t, k)
    BY DEF Over
  <2>1. CASE i \in 1 .. Len(s)
    BY <1>2, <2>1 DEF Over
  <2>2. CASE i - Len(s) \in 1 .. Len(t)
    <3>1. m[i] = t[i - Len(s)]
      BY <1>2, <1>3, <2>2
    <3>2. QED
      BY <2>2, <3>1 DEF Over
  <2>3. QED
    BY <1>3, <2>1, <2>2
<1>5. Over(s, k) \subseteq Over(m, k)
  BY <1>2, <1>3 DEF Over
<1>6. Over(t, k) \subseteq Over(m, k)
  BY <1>2, <1>3 DEF Over
<1>7. QED
  BY <1>4, <1>5, <1>6 DEF m

LEMMA OnIs ==
  ASSUME NEW k, NEW d
  PROVE  /\ Len(On(k, d)) = 1 /\ On(k, d)[1] = [does |-> d, to |-> k]
         /\ \A j : Over(On(k, d), j) = IF j = k THEN { d } ELSE {}
<1>1. Len(On(k, d)) = 1 /\ On(k, d)[1] = [does |-> d, to |-> k]
  BY DEF On
<1>2. 1 .. 1 = { 1 }
  OBVIOUS
<1>3. QED
  BY <1>1, <1>2 DEF Over

LEMMA PlanBegins ==
  ASSUME NEW check \in Checks, NEW maker \in Makers, NEW n \in 1 .. 2,
         maker = "pipe" <=> n = 2
  PROVE  /\ Plan(On(0, check) \o On(0, maker), n)
         /\ \A k \in 1 .. n : Over(On(0, check) \o On(0, maker), k) = {}
<1> DEFINE a == On(0, check)
           b == On(0, maker)
<1>1. a \in Seq(StepSet) /\ b \in Seq(StepSet)
  BY DEF On, StepSet
<1>2. /\ Len(a) = 1 /\ a[1] = [does |-> check, to |-> 0]
      /\ Len(b) = 1 /\ b[1] = [does |-> maker, to |-> 0]
      /\ \A k \in 1 .. n : Over(a, k) = {} /\ Over(b, k) = {}
  BY OnIs
<1> HIDE DEF a, b
<1>3. /\ a \o b \in Seq(StepSet) /\ Len(a \o b) = 2
      /\ (a \o b)[1] = a[1] /\ (a \o b)[2] = b[1]
  <2>1. /\ a \o b \in Seq(StepSet) /\ Len(a \o b) = Len(a) + Len(b)
        /\ \A i \in 1 .. Len(a) : (a \o b)[i] = a[i]
        /\ \A i \in 1 .. Len(b) : (a \o b)[Len(a) + i] = b[i]
    BY <1>1, Joined
  <2>2. 1 \in 1 .. 1
    OBVIOUS
  <2>3. QED
    BY <1>2, <2>1, <2>2
<1>4. \A k \in 1 .. n : Over(a \o b, k) = {}
  BY <1>1, <1>2, OverConcat
<1>5. Plan(a \o b, n)
  BY <1>2, <1>3 DEF Plan
<1>6. QED
  BY <1>4, <1>5 DEF a, b

LEMMA PlanGoesOn ==
  ASSUME NEW n \in 1 .. 2, NEW s, Plan(s, n), NEW k \in 1 .. n, NEW d \in Settings
  PROVE  /\ Plan(s \o On(k, d), n)
         /\ \A j : Over(s \o On(k, d), j) = Over(s, j) \cup IF j = k THEN { d } ELSE {}
<1> DEFINE b == On(k, d)
<1>1. b \in Seq(StepSet)
  BY DEF On, StepSet
<1>2. Len(b) = 1 /\ b[1] = [does |-> d, to |-> k]
  BY OnIs
<1>3. s \in Seq(StepSet) /\ Len(s) >= 2 /\ Len(s) \in Nat
  BY LenProperties DEF Plan
<1>4. \A j : Over(b, j) = IF j = k THEN { d } ELSE {}
  BY OnIs
<1> HIDE DEF b
<1>5. /\ s \o b \in Seq(StepSet) /\ Len(s \o b) = Len(s) + 1
      /\ \A i \in 1 .. Len(s) : (s \o b)[i] = s[i]
      /\ (s \o b)[Len(s) + 1] = b[1]
  <2>1. /\ s \o b \in Seq(StepSet) /\ Len(s \o b) = Len(s) + Len(b)
        /\ \A i \in 1 .. Len(s) : (s \o b)[i] = s[i]
        /\ \A i \in 1 .. Len(b) : (s \o b)[Len(s) + i] = b[i]
    BY <1>1, <1>3, Joined
  <2>2. 1 \in 1 .. 1
    OBVIOUS
  <2>3. QED
    BY <1>2, <2>1, <2>2
<1>6. \A j : Over(s \o b, j) = Over(s, j) \cup Over(b, j)
  BY <1>1, <1>3, OverConcat
<1>7. 1 \in 1 .. Len(s) /\ 2 \in 1 .. Len(s) /\ Len(s) + 1 >= 2
  BY <1>3
<1>8. \A i \in 3 .. Len(s) + 1 : (i \in 3 .. Len(s) /\ i \in 1 .. Len(s)) \/ i = Len(s) + 1
  BY <1>3
<1>9. b[1] \in Work(n)
  BY <1>2 DEF Work
<1>10. \A i \in 3 .. Len(s \o b) : (s \o b)[i] \in Work(n)
  BY <1>5, <1>8, <1>9 DEF Plan
<1>11. Plan(s \o b, n)
  BY <1>5, <1>7, <1>10 DEF Plan
<1>12. QED
  BY <1>4, <1>6, <1>11 DEF b

\* What a caller asks for, of the names of the calls made on its descriptor.
Asked(done, fn, flags) ==
  LET flagged == fn \in { "pipe2", "accept4" }
      inet    == fn \in { "tcpServer", "udpServer" }
  IN  /\ "O_NONBLOCK" \in done <=> (flagged => "NONBLOCK" \in flags)
      /\ "FD_CLOEXEC" \in done <=> "CLOEXEC" \in flags
      /\ "SO_REUSEADDR" \in done <=> inet
      /\ "listen" \in done <=> fn = "tcpServer"
      /\ "connect" \in done <=> fn \in { "tcpClient", "unixTcpClient", "unixUdpClient" }
      /\ "bind" \in done <=> (inet \/ fn \in { "unixTcpServer", "unixUdpServer" })

LEMMA OnlyIs ==
  ASSUME NEW n, NEW s, Plan(s, n), NEW cond \in BOOLEAN, NEW t
  PROVE  s \o Only(cond, t) = IF cond THEN s \o t ELSE s
<1>1. s \in Seq(StepSet)
  BY DEF Plan
<1>2. s \o << >> = s
  BY <1>1, ConcatEmptySeq
<1>3. QED
  BY <1>2 DEF Only

\* Two calls, one on each of two descriptors.
LEMMA PlanGoesOnTwice ==
  ASSUME NEW s, Plan(s, 2), NEW d \in Settings
  PROVE  /\ Plan(s \o (On(1, d) \o On(2, d)), 2)
         /\ \A j \in 1 .. 2 : Over(s \o (On(1, d) \o On(2, d)), j) = Over(s, j) \cup { d }
<1> DEFINE a == On(1, d)
           b == On(2, d)
<1>1. a \in Seq(StepSet) /\ b \in Seq(StepSet) /\ s \in Seq(StepSet)
  BY DEF On, StepSet, Plan
<1>2. s \o (a \o b) = (s \o a) \o b
  <2> HIDE DEF a, b
  <2>1. QED
    BY <1>1, ConcatAssociative
<1>3. /\ Plan(s \o a, 2)
      /\ \A j : Over(s \o a, j) = Over(s, j) \cup IF j = 1 THEN { d } ELSE {}
  BY PlanGoesOn
<1>4. /\ Plan((s \o a) \o b, 2)
      /\ \A j : Over((s \o a) \o b, j) = Over(s \o a, j) \cup IF j = 2 THEN { d } ELSE {}
  BY <1>3, PlanGoesOn
<1>5. \A j \in 1 .. 2 : j = 1 \/ j = 2
  OBVIOUS
<1>6. QED
  BY <1>2, <1>3, <1>4, <1>5

\* The same, where they are only made under a condition.
LEMMA PlanMayGoOn ==
  ASSUME NEW n \in 1 .. 2, NEW s, Plan(s, n), NEW k \in 1 .. n, NEW d \in Settings,
         NEW cond \in BOOLEAN
  PROVE  /\ Plan(s \o Only(cond, On(k, d)), n)
         /\ \A j : Over(s \o Only(cond, On(k, d)), j)
                     = Over(s, j) \cup IF j = k /\ cond THEN { d } ELSE {}
<1>1. s \o Only(cond, On(k, d)) = IF cond THEN s \o On(k, d) ELSE s
  BY OnlyIs
<1>2. /\ Plan(s \o On(k, d), n)
      /\ \A j : Over(s \o On(k, d), j) = Over(s, j) \cup IF j = k THEN { d } ELSE {}
  BY PlanGoesOn
<1>3. QED
  BY <1>1, <1>2

LEMMA PlanMayGoOnTwice ==
  ASSUME NEW s, Plan(s, 2), NEW d \in Settings, NEW cond \in BOOLEAN
  PROVE  /\ Plan(s \o Only(cond, On(1, d) \o On(2, d)), 2)
         /\ \A j \in 1 .. 2 : Over(s \o Only(cond, On(1, d) \o On(2, d)), j)
                                = Over(s, j) \cup IF cond THEN { d } ELSE {}
<1> DEFINE both == On(1, d) \o On(2, d)
<1>1. /\ Plan(s \o both, 2)
      /\ \A j \in 1 .. 2 : Over(s \o both, j) = Over(s, j) \cup { d }
  BY PlanGoesOnTwice
<1> HIDE DEF both
<1>2. s \o Only(cond, both) = IF cond THEN s \o both ELSE s
  BY OnlyIs
<1>3. /\ Plan(s \o Only(cond, both), 2)
      /\ \A j \in 1 .. 2 : Over(s \o Only(cond, both), j)
                             = Over(s, j) \cup IF cond THEN { d } ELSE {}
  BY <1>1, <1>2
<1>4. QED
  BY <1>3 DEF both

\* Each function checks first, then makes its descriptors, and then does to them what its
\* caller asks for.
LEMMA StepsPlan ==
  ASSUME NEW fn \in Functions, NEW flags \in FlagsOf(fn)
  PROVE  /\ Plan(Steps(fn, flags), Ends(fn))
         /\ \A k \in 1 .. Ends(fn) : Asked(Over(Steps(fn, flags), k), fn, flags)
<1> DEFINE flag   == On(0, "flags") \o On(0, "pipe")
           take   == On(0, "flags") \o On(0, "accept")
           open   == On(0, "address") \o On(0, "socket")
           nonblock == "NONBLOCK" \in flags
           cloexec  == "CLOEXEC" \in flags
<1>0. 1 \in 1 .. 2 /\ 2 \in 1 .. 2 /\ 1 \in 1 .. 1 /\ 1 .. 1 = { 1 }
  OBVIOUS
<1>1. /\ Plan(flag, 2) /\ \A k \in 1 .. 2 : Over(flag, k) = {}
      /\ Plan(take, 1) /\ Over(take, 1) = {}
      /\ Plan(open, 1) /\ Over(open, 1) = {}
  BY <1>0, PlanBegins DEF Checks, Makers
<1>2. nonblock \in BOOLEAN /\ cloexec \in BOOLEAN
  OBVIOUS
<1> HIDE DEF flag, take, open, nonblock, cloexec
<1>3. CASE fn = "pipe2"
  <2> DEFINE a == flag \o Only(nonblock, On(1, "O_NONBLOCK") \o On(2, "O_NONBLOCK"))
             b == a \o Only(cloexec, On(1, "FD_CLOEXEC") \o On(2, "FD_CLOEXEC"))
  <2>1. /\ Plan(a, 2)
        /\ \A j \in 1 .. 2 : Over(a, j) = Over(flag, j) \cup
                               IF nonblock THEN { "O_NONBLOCK" } ELSE {}
    <3>1. "O_NONBLOCK" \in Settings
      BY DEF Settings
    <3>2. QED
      BY <1>1, <1>2, <3>1, PlanMayGoOnTwice
  <2> HIDE DEF a
  <2>2. /\ Plan(b, 2)
        /\ \A j \in 1 .. 2 : Over(b, j) = Over(a, j) \cup
                               IF cloexec THEN { "FD_CLOEXEC" } ELSE {}
    <3>1. "FD_CLOEXEC" \in Settings
      BY DEF Settings
    <3>2. QED
      BY <1>2, <2>1, <3>1, PlanMayGoOnTwice
  <2>3. Steps(fn, flags) = b
    BY <1>3 DEF Steps, PipeSteps, a, b, flag, nonblock, cloexec
  <2> HIDE DEF b
  <2>4. \A j \in 1 .. 2 : Asked(Over(b, j), fn, flags)
    BY <1>1, <1>3, <2>1, <2>2 DEF Asked, nonblock, cloexec
  <2>5. QED
    BY <1>3, <2>2, <2>3, <2>4 DEF Ends
<1>4. CASE fn = "accept4"
  <2> DEFINE a == take \o Only(nonblock, On(1, "O_NONBLOCK"))
             b == a \o Only(cloexec, On(1, "FD_CLOEXEC"))
  <2>1. /\ Plan(a, 1)
        /\ Over(a, 1) = Over(take, 1) \cup IF nonblock THEN { "O_NONBLOCK" } ELSE {}
    <3>1. "O_NONBLOCK" \in Settings
      BY DEF Settings
    <3>2. QED
      BY <1>0, <1>1, <1>2, <3>1, PlanMayGoOn
  <2> HIDE DEF a
  <2>2. /\ Plan(b, 1)
        /\ Over(b, 1) = Over(a, 1) \cup IF cloexec THEN { "FD_CLOEXEC" } ELSE {}
    <3>1. "FD_CLOEXEC" \in Settings
      BY DEF Settings
    <3>2. QED
      BY <1>0, <1>2, <2>1, <3>1, PlanMayGoOn
  <2>3. Steps(fn, flags) = b
    BY <1>4 DEF Steps, AcceptSteps, a, b, take, nonblock, cloexec
  <2> HIDE DEF b
  <2>4. Asked(Over(b, 1), fn, flags)
    BY <1>1, <1>4, <2>1, <2>2 DEF Asked, nonblock, cloexec
  <2>5. QED
    BY <1>0, <1>4, <2>2, <2>3, <2>4 DEF Ends
<1> DEFINE ready == open \o On(1, "O_NONBLOCK")
<1>5. Plan(ready, 1) /\ Over(ready, 1) = { "O_NONBLOCK" }
  BY <1>0, <1>1, PlanGoesOn DEF Settings
<1> HIDE DEF ready
<1>6. CASE fn \in { "tcpServer", "udpServer" }
  <2> DEFINE a == ready \o On(1, "SO_REUSEADDR")
             b == a \o On(1, "bind")
             c == b \o Only(UseTcp(fn), On(1, "listen"))
  <2>1. Plan(a, 1) /\ Over(a, 1) = { "O_NONBLOCK", "SO_REUSEADDR" }
    BY <1>0, <1>5, PlanGoesOn DEF Settings
  <2> HIDE DEF a
  <2>2. Plan(b, 1) /\ Over(b, 1) = { "O_NONBLOCK", "SO_REUSEADDR", "bind" }
    BY <1>0, <2>1, PlanGoesOn DEF Settings
  <2> HIDE DEF b
  <2>3. UseTcp(fn) \in BOOLEAN /\ (UseTcp(fn) <=> fn = "tcpServer")
    BY <1>6 DEF UseTcp
  <2>4. /\ Plan(c, 1)
        /\ Over(c, 1) = { "O_NONBLOCK", "SO_REUSEADDR", "bind" } \cup
                        IF UseTcp(fn) THEN { "listen" } ELSE {}
    <3>1. "listen" \in Settings
      BY DEF Settings
    <3>2. QED
      BY <1>0, <2>2, <2>3, <3>1, PlanMayGoOn
  <2>5. Steps(fn, flags) = c
    BY <1>6 DEF Steps, ServerSteps, a, b, c, ready, open
  <2> HIDE DEF c
  <2>6. flags = {}
    BY <1>6 DEF FlagsOf
  <2>7. Asked(Over(c, 1), fn, flags)
    BY <1>6, <2>3, <2>4, <2>6 DEF Asked
  <2>8. QED
    BY <1>0, <1>6, <2>4, <2>5, <2>7 DEF Ends
<1>7. CASE fn \in { "tcpClient", "udpClient" }
  <2> DEFINE a == open \o Only(UseTcp(fn), On(1, "connect"))
             b == a \o On(1, "O_NONBLOCK")
  <2>1. UseTcp(fn) \in BOOLEAN /\ (UseTcp(fn) <=> fn = "tcpClient")
    BY <1>7 DEF UseTcp
  <2>2. Plan(a, 1) /\ Over(a, 1) = Over(open, 1) \cup IF UseTcp(fn) THEN { "connect" } ELSE {}
    <3>1. "connect" \in Settings
      BY DEF Settings
    <3>2. QED
      BY <1>0, <1>1, <2>1, <3>1, PlanMayGoOn
  <2> HIDE DEF a
  <2>3. Plan(b, 1) /\ Over(b, 1) = Over(a, 1) \cup { "O_NONBLOCK" }
    BY <1>0, <2>2, PlanGoesOn DEF Settings
  <2>4. Steps(fn, flags) = b
    BY <1>7 DEF Steps, ClientSteps, a, b, open
  <2> HIDE DEF b
  <2>5. flags = {}
    BY <1>7 DEF FlagsOf
  <2>6. Asked(Over(b, 1), fn, flags)
    BY <1>1, <1>7, <2>1, <2>2, <2>3, <2>5 DEF Asked
  <2>7. QED
    BY <1>0, <1>7, <2>3, <2>4, <2>6 DEF Ends
<1>8. CASE fn \in { "unixTcpServer", "unixUdpServer" }
  <2> DEFINE a == ready \o On(1, "bind")
  <2>1. Plan(a, 1) /\ Over(a, 1) = { "O_NONBLOCK", "bind" }
    BY <1>0, <1>5, PlanGoesOn DEF Settings
  <2>2. Steps(fn, flags) = a
    BY <1>8 DEF Steps, UnixServerSteps, a, ready, open
  <2> HIDE DEF a
  <2>3. flags = {}
    BY <1>8 DEF FlagsOf
  <2>4. Asked(Over(a, 1), fn, flags)
    BY <1>8, <2>1, <2>3 DEF Asked
  <2>5. QED
    BY <1>0, <1>8, <2>1, <2>2, <2>4 DEF Ends
<1>9. CASE fn \in { "unixTcpClient", "unixUdpClient" }
  <2> DEFINE a == ready \o On(1, "connect")
  <2>1. Plan(a, 1) /\ Over(a, 1) = { "O_NONBLOCK", "connect" }
    BY <1>0, <1>5, PlanGoesOn DEF Settings
  <2>2. Steps(fn, flags) = a
    BY <1>9 DEF Steps, UnixClientSteps, a, ready, open
  <2> HIDE DEF a
  <2>3. flags = {}
    BY <1>9 DEF FlagsOf
  <2>4. Asked(Over(a, 1), fn, flags)
    BY <1>9, <2>1, <2>3 DEF Asked
  <2>5. QED
    BY <1>0, <1>9, <2>1, <2>2, <2>4 DEF Ends
<1>10. QED
  BY <1>3, <1>4, <1>6, <1>7, <1>8, <1>9 DEF Functions

-----------------------------------------------------------------------------
(* AsyncIo: where each call stands, and whose each descriptor is.          *)

FlagSet == SUBSET (AIO_FLAGS \cup { "other" })

CallSet == [fn : Functions \cup { "none" }, flags : FlagSet, left : Seq(StepSet),
            fds : Seq(Fds), failed : BOOLEAN]
HeldSet == [fd : Fds, fn : Functions, flags : FlagSet]

IoTypes ==
  /\ table \in [Fds -> SUBSET (Makers \cup Settings)]
  /\ call \in [Users -> CallSet]
  /\ held \in [Users -> SUBSET HeldSet]

Distinct(s) == \A j, k \in 1 .. Len(s) : j # k => s[j] # s[k]

\* Nothing was done yet.
Checking(c) ==
  /\ ~c.failed /\ c.fds = << >> /\ Plan(c.left, Ends(c.fn))
  /\ \A k \in 1 .. Ends(c.fn) : Asked(Over(c.left, k), c.fn, c.flags)

\* The checks are passed.
Making(c) ==
  /\ ~c.failed /\ c.fds = << >>
  /\ c.left \in Seq(StepSet) /\ Len(c.left) >= 1
  /\ c.left[1].does \in Makers /\ c.left[1].to = 0
  /\ c.left[1].does = "pipe" <=> Ends(c.fn) = 2
  /\ \A i \in 2 .. Len(c.left) : c.left[i] \in Work(Ends(c.fn))
  /\ \A k \in 1 .. Ends(c.fn) : Asked(Over(c.left, k), c.fn, c.flags)

\* The descriptors are there.
Working(c) ==
  /\ ~c.failed /\ Len(c.fds) = Ends(c.fn) /\ Distinct(c.fds)
  /\ c.left \in Seq(StepSet) /\ \A i \in 1 .. Len(c.left) : c.left[i] \in Work(Ends(c.fn))

\* They are being closed again, each once.
Failing(c) ==
  /\ c.failed /\ Distinct(c.fds) /\ c.left \in Seq(StepSet)
  /\ \A i \in 1 .. Len(c.left) : c.left[i].does = "close" /\ c.left[i].to \in 1 .. Len(c.fds)
  /\ \A i, j \in 1 .. Len(c.left) : i # j => c.left[i].to # c.left[j].to

Phase(c) ==
  \/ c = Idle
  \/ c.fn \in Functions /\ (Checking(c) \/ Making(c) \/ Working(c) \/ Failing(c))

\* A descriptor is in the hand of one thread's call or one caller's, if it is open, and in
\* nobody's if it is not.
Shares ==
  /\ \A u \in Users : \A d \in InHand(u) : d \in Fds /\ table[d] # {}
  /\ \A u, v \in Users : u # v => InHand(u) \cap InHand(v) = {}
  /\ \A u, v \in Users : \A h \in held[u] : table[h.fd] # {} /\ h.fd \notin InHand(v)
  /\ \A u, v \in Users : \A g \in held[u], h \in held[v] : g.fd = h.fd => u = v /\ g = h
  /\ \A d \in Fds : table[d] # {} =>
       \E u \in Users : d \in InHand(u) \/ \E h \in held[u] : h.fd = d

\* What was done to a descriptor, and will be, is what was asked for.
WordOf(c) ==
  c.fn \in Functions /\ Working(c) =>
    \A k \in 1 .. Len(c.fds) : Asked(table[c.fds[k]] \cup Over(c.left, k), c.fn, c.flags)

KeepsWord ==
  /\ \A u \in Users : WordOf(call[u])
  /\ \A u \in Users : \A h \in held[u] : Asked(table[h.fd], h.fn, h.flags)

IoInv == IoTypes /\ (\A u \in Users : Phase(call[u])) /\ Shares /\ KeepsWord

\* The next call of a list, and the ones after it.
LEMMA TailIs ==
  ASSUME NEW S, NEW s \in Seq(S), s # << >>
  PROVE  /\ Tail(s) \in Seq(S) /\ Len(s) \in Nat /\ Len(s) >= 1
         /\ Head(s) = s[1] /\ Len(Tail(s)) = Len(s) - 1
         /\ \A i \in 1 .. Len(s) - 1 : Tail(s)[i] = s[i + 1] /\ i + 1 \in 2 .. Len(s)
         /\ \A i \in 2 .. Len(s) : i - 1 \in 1 .. Len(s) - 1 /\ s[i] = Tail(s)[i - 1]
         /\ \A k : Over(s, k) = Over(Tail(s), k) \cup
                                IF s[1].to = k THEN { s[1].does } ELSE {}
<1>1. /\ Tail(s) \in Seq(S) /\ Len(s) \in Nat /\ Len(s) >= 1
      /\ Head(s) = s[1] /\ Len(Tail(s)) = Len(s) - 1
      /\ \A i \in 1 .. Len(s) - 1 : Tail(s)[i] = s[i + 1]
  BY HeadTailProperties, LenProperties, EmptySeq
<1>2. /\ \A i \in 1 .. Len(s) - 1 : i + 1 \in 2 .. Len(s)
      /\ \A i \in 2 .. Len(s) : i - 1 \in 1 .. Len(s) - 1 /\ (i - 1) + 1 = i
      /\ \A i \in 1 .. Len(s) : i = 1 \/ i \in 2 .. Len(s)
      /\ \A i \in 2 .. Len(s) : i \in 1 .. Len(s)
      /\ 1 \in 1 .. Len(s)
  BY <1>1
<1>3. \A i \in 2 .. Len(s) : s[i] = Tail(s)[i - 1]
  BY <1>1, <1>2
<1>4. ASSUME NEW k
      PROVE  Over(s, k) = Over(Tail(s), k) \cup IF s[1].to = k THEN { s[1].does } ELSE {}
  <2> DEFINE t == Tail(s)
  <2>1. Len(t) = Len(s) - 1
    BY <1>1
  <2>2. \A i \in 1 .. Len(s) - 1 : t[i] = s[i + 1]
    BY <1>1
  <2>3. \A i \in 2 .. Len(s) : s[i] = t[i - 1]
    BY <1>3
  <2> HIDE DEF t
  <2>4. Over(t, k) \subseteq Over(s, k)
    BY <1>2, <2>1, <2>2 DEF Over
  <2>5. s[1].to = k => s[1].does \in Over(s, k)
    BY <1>2 DEF Over
  <2>6. ASSUME NEW i \in 1 .. Len(s), s[i].to = k
        PROVE  s[i].does \in Over(t, k) \/ (s[1].to = k /\ s[i].does = s[1].does)
    <3>1. CASE i = 1
      BY <2>6, <3>1
    <3>2. CASE i \in 2 .. Len(s)
      <4>1. i - 1 \in 1 .. Len(t) /\ t[i - 1] = s[i]
        BY <1>2, <2>1, <2>3, <3>2
      <4>2. QED
        BY <2>6, <4>1 DEF Over
    <3>3. QED
      BY <1>2, <3>1, <3>2
  <2>7. Over(s, k) \subseteq Over(t, k) \cup IF s[1].to = k THEN { s[1].does } ELSE {}
    BY <2>6 DEF Over
  <2>8. QED
    BY <2>4, <2>5, <2>7 DEF t
<1>5. QED
  BY <1>1, <1>2, <1>3, <1>4

\* Where a call stands can be told from its next system call.
LEMMA NextTells ==
  ASSUME NEW c, c.fn \in Functions, c.left \in Seq(StepSet), c.left # << >>,
         Checking(c) \/ Making(c) \/ Working(c) \/ Failing(c)
  PROVE  /\ Head(c.left) = c.left[1]
         /\ c.left[1].does \in Checks => Checking(c)
         /\ c.left[1].does \in Makers => Making(c)
         /\ c.left[1].to # 0 /\ c.left[1].does # "close" => Working(c)
         /\ c.left[1].does = "close" => Failing(c)
<1>1. 1 \in 1 .. Len(c.left) /\ Head(c.left) = c.left[1]
  BY TailIs
<1>2. Checking(c) => c.left[1].does \in Checks /\ c.left[1].to = 0
  BY DEF Checking, Plan
<1>3. Making(c) => c.left[1].does \in Makers /\ c.left[1].to = 0
  BY DEF Making
<1>4. Working(c) => c.left[1].does \in Settings
  BY <1>1 DEF Working, Work
<1>5. Failing(c) => c.left[1].does = "close"
  BY <1>1 DEF Failing
<1>6. /\ Checks \cap Makers = {} /\ Checks \cap Settings = {} /\ Makers \cap Settings = {}
      /\ "close" \notin Checks /\ "close" \notin Makers /\ "close" \notin Settings
  BY DEF Checks, Makers, Settings
<1>7. QED
  BY <1>1, <1>2, <1>3, <1>4, <1>5, <1>6

LEMMA EndsAre == \A fn : Ends(fn) \in 1 .. 2 /\ (Ends(fn) = 1 \/ Ends(fn) = 2)
BY DEF Ends

\* After the checks comes the call that makes the descriptors.
LEMMA CheckingPasses ==
  ASSUME NEW c, Checking(c), NEW d, d.fn = c.fn, d.flags = c.flags, d.failed = c.failed,
         d.left = Tail(c.left), d.fds = << >>
  PROVE  Making(d)
<1>1. c.left \in Seq(StepSet) /\ Len(c.left) >= 2 /\ Plan(c.left, Ends(c.fn)) /\ ~c.failed
  BY DEF Checking, Plan
<1>2. c.left # << >>
  BY <1>1, EmptySeq
<1>3. /\ d.left \in Seq(StepSet) /\ Len(c.left) \in Nat /\ Len(d.left) = Len(c.left) - 1
      /\ \A i \in 1 .. Len(c.left) - 1 : d.left[i] = c.left[i + 1]
      /\ \A k : Over(c.left, k) = Over(d.left, k) \cup
                                  IF c.left[1].to = k THEN { c.left[1].does } ELSE {}
  BY <1>1, <1>2, TailIs
<1>4. /\ 1 \in 1 .. Len(c.left) - 1 /\ 1 + 1 = 2 /\ Len(d.left) >= 1
      /\ \A i \in 2 .. Len(d.left) : i \in 1 .. Len(c.left) - 1 /\ i + 1 \in 3 .. Len(c.left)
  BY <1>1, <1>3
<1>5. d.left[1] = c.left[2]
  BY <1>3, <1>4
<1>6. \A i \in 2 .. Len(d.left) : d.left[i] \in Work(Ends(d.fn))
  BY <1>1, <1>3, <1>4 DEF Plan
<1>7. \A k \in 1 .. Ends(d.fn) : Over(d.left, k) = Over(c.left, k)
  <2>1. \A k \in 1 .. Ends(d.fn) : k # 0
    BY EndsAre
  <2>2. c.left[1].to = 0
    BY <1>1 DEF Plan
  <2>3. QED
    BY <1>3, <2>1, <2>2
<1>8. \A k \in 1 .. Ends(d.fn) : Asked(Over(d.left, k), d.fn, d.flags)
  BY <1>7 DEF Checking
<1>9. QED
  BY <1>1, <1>3, <1>4, <1>5, <1>6, <1>8 DEF Making, Plan

\* The new descriptors get all the calls that are left.
LEMMA MakingMakes ==
  ASSUME NEW c, c.fn \in Functions, Making(c),
         NEW d, d.fn = c.fn, d.flags = c.flags, d.failed = c.failed,
         d.left = Tail(c.left), Len(d.fds) = Ends(c.fn), Distinct(d.fds)
  PROVE  /\ Working(d)
         /\ \A k \in 1 .. Ends(c.fn) :
              Asked({ c.left[1].does } \cup Over(d.left, k), d.fn, d.flags)
<1>1. /\ c.left \in Seq(StepSet) /\ Len(c.left) >= 1 /\ ~c.failed
      /\ c.left[1].does \in Makers /\ c.left[1].to = 0
      /\ \A i \in 2 .. Len(c.left) : c.left[i] \in Work(Ends(c.fn))
      /\ \A k \in 1 .. Ends(c.fn) : Asked(Over(c.left, k), c.fn, c.flags)
  BY DEF Making
<1>2. c.left # << >>
  BY <1>1, EmptySeq
<1>3. /\ d.left \in Seq(StepSet) /\ Len(c.left) \in Nat /\ Len(d.left) = Len(c.left) - 1
      /\ \A i \in 1 .. Len(c.left) - 1 : d.left[i] = c.left[i + 1] /\ i + 1 \in 2 .. Len(c.left)
      /\ \A k : Over(c.left, k) = Over(d.left, k) \cup
                                  IF c.left[1].to = k THEN { c.left[1].does } ELSE {}
  BY <1>1, <1>2, TailIs
<1>4. \A i \in 1 .. Len(d.left) : d.left[i] \in Work(Ends(d.fn))
  BY <1>1, <1>3
<1>5. ASSUME NEW k \in 1 .. Ends(c.fn)
      PROVE  Asked({ c.left[1].does } \cup Over(d.left, k), d.fn, d.flags)
  <2>1. k # 0
    BY EndsAre
  <2>2. Over(c.left, k) = Over(d.left, k)
    <3>1. c.left[1].to # k
      BY <1>1, <2>1
    <3>2. Over(c.left, k) = Over(d.left, k) \cup
                            IF c.left[1].to = k THEN { c.left[1].does } ELSE {}
      BY <1>3
    <3> QED
      BY <3>1, <3>2
  <2>3. Asked(Over(d.left, k), d.fn, d.flags)
    BY <1>1, <2>2
  <2>4. c.left[1].does \notin Settings
    BY <1>1 DEF Makers, Settings
  <2>5. QED
    BY <2>3, <2>4 DEF Asked, Settings
<1>6. QED
  BY <1>1, <1>3, <1>4, <1>5 DEF Working

\* What the next call does to the k-th descriptor.
Now(c, k) == IF c.left[1].to = k THEN { c.left[1].does } ELSE {}

\* A call on a descriptor is one of those that are left for it.
LEMMA WorkingGoesOn ==
  ASSUME NEW c, Working(c), c.left # << >>,
         NEW d, d.fn = c.fn, d.flags = c.flags, d.failed = c.failed,
         d.left = Tail(c.left), d.fds = c.fds
  PROVE  /\ Working(d) /\ c.left[1].to \in 1 .. Len(c.fds)
         /\ \A k : Over(c.left, k) = Over(d.left, k) \cup Now(c, k)
<1>1. /\ c.left \in Seq(StepSet) /\ ~c.failed /\ Len(c.fds) = Ends(c.fn) /\ Distinct(c.fds)
      /\ \A i \in 1 .. Len(c.left) : c.left[i] \in Work(Ends(c.fn))
  BY DEF Working
<1>2. /\ d.left \in Seq(StepSet) /\ Len(c.left) \in Nat /\ Len(c.left) >= 1
      /\ Len(d.left) = Len(c.left) - 1
      /\ \A i \in 1 .. Len(c.left) - 1 : d.left[i] = c.left[i + 1] /\ i + 1 \in 2 .. Len(c.left)
      /\ \A k : Over(c.left, k) = Over(d.left, k) \cup
                                  IF c.left[1].to = k THEN { c.left[1].does } ELSE {}
  BY <1>1, TailIs
<1>3. /\ \A i \in 2 .. Len(c.left) : i \in 1 .. Len(c.left)
      /\ 1 \in 1 .. Len(c.left)
  BY <1>2
<1>4. \A i \in 1 .. Len(d.left) : d.left[i] \in Work(Ends(d.fn))
  BY <1>1, <1>2, <1>3
<1>5. c.left[1].to \in 1 .. Len(c.fds)
  BY <1>1, <1>3 DEF Work
<1>6. QED
  BY <1>1, <1>2, <1>4, <1>5 DEF Working, Now

\* The descriptors a call has made, and those that it has left to close.
Made(c)    == { c.fds[k] : k \in 1 .. Len(c.fds) }
ToClose(c) == { c.fds[c.left[i].to] : i \in 1 .. Len(c.left) }

\* One close() less is left.
LEMMA FailingGoesOn ==
  ASSUME NEW c, Failing(c), c.left # << >>,
         NEW d, d.fn = c.fn, d.failed = c.failed, d.left = Tail(c.left), d.fds = c.fds
  PROVE  /\ Failing(d) /\ c.left[1].to \in 1 .. Len(c.fds)
         /\ ToClose(d) = ToClose(c) \ { c.fds[c.left[1].to] }
         /\ c.fds[c.left[1].to] \in ToClose(c)
<1>1. /\ c.left \in Seq(StepSet) /\ c.failed /\ Distinct(c.fds)
      /\ \A i \in 1 .. Len(c.left) : c.left[i].does = "close" /\ c.left[i].to \in 1 .. Len(c.fds)
      /\ \A i, j \in 1 .. Len(c.left) : i # j => c.left[i].to # c.left[j].to
  BY DEF Failing
<1>2. /\ d.left \in Seq(StepSet) /\ Len(c.left) \in Nat /\ Len(c.left) >= 1
      /\ Len(d.left) = Len(c.left) - 1
      /\ \A i \in 1 .. Len(c.left) - 1 : d.left[i] = c.left[i + 1] /\ i + 1 \in 2 .. Len(c.left)
      /\ \A i \in 2 .. Len(c.left) : i - 1 \in 1 .. Len(c.left) - 1 /\ c.left[i] = d.left[i - 1]
  BY <1>1, TailIs
<1>3. /\ \A i \in 2 .. Len(c.left) : i \in 1 .. Len(c.left) /\ i # 1
      /\ \A i \in 1 .. Len(c.left) : i = 1 \/ i \in 2 .. Len(c.left)
      /\ \A i, j \in 1 .. Len(d.left) : i # j => i + 1 # j + 1
      /\ 1 \in 1 .. Len(c.left)
  BY <1>2
<1>4. \A i \in 1 .. Len(d.left) :
        d.left[i].does = "close" /\ d.left[i].to \in 1 .. Len(d.fds)
  BY <1>1, <1>2, <1>3
<1>5. ASSUME NEW i \in 1 .. Len(d.left), NEW j \in 1 .. Len(d.left), i # j
      PROVE  d.left[i].to # d.left[j].to
  <2>1. i + 1 \in 1 .. Len(c.left) /\ j + 1 \in 1 .. Len(c.left)
    BY <1>2, <1>3
  <2>2. d.left[i] = c.left[i + 1] /\ d.left[j] = c.left[j + 1] /\ i + 1 # j + 1
    BY <1>2, <1>3, <1>5
  <2>3. QED
    BY <1>1, <2>1, <2>2
<1>6. Failing(d)
  BY <1>1, <1>2, <1>4, <1>5 DEF Failing
<1>7. c.left[1].to \in 1 .. Len(c.fds)
  BY <1>1, <1>3
<1> DEFINE first == c.fds[c.left[1].to]
<1>8. \A i \in 2 .. Len(c.left) : c.fds[c.left[i].to] # first
  BY <1>1, <1>3, <1>7 DEF Distinct
<1>9. ASSUME NEW e
      PROVE  (\E i \in 1 .. Len(d.left) : e = d.fds[d.left[i].to]) <=>
             (\E i \in 1 .. Len(c.left) : e = c.fds[c.left[i].to]) /\ e # first
  <2>1. ASSUME NEW i \in 1 .. Len(d.left), e = d.fds[d.left[i].to]
        PROVE  (\E j \in 1 .. Len(c.left) : e = c.fds[c.left[j].to]) /\ e # first
    <3>1. i + 1 \in 2 .. Len(c.left) /\ e = c.fds[c.left[i + 1].to]
      BY <1>2, <2>1
    <3>2. QED
      BY <1>3, <1>8, <3>1
  <2>2. ASSUME NEW i \in 1 .. Len(c.left), e = c.fds[c.left[i].to], e # first
        PROVE  \E j \in 1 .. Len(d.left) : e = d.fds[d.left[j].to]
    <3>1. i \in 2 .. Len(c.left)
      BY <1>3, <2>2
    <3>2. i - 1 \in 1 .. Len(d.left) /\ e = d.fds[d.left[i - 1].to]
      BY <1>2, <2>2, <3>1
    <3>3. QED
      BY <3>2
  <2>3. QED
    BY <2>1, <2>2
<1>10. ToClose(d) = ToClose(c) \ { first }
  <2>1. \A e : e \in ToClose(d) <=> \E i \in 1 .. Len(d.left) : e = d.fds[d.left[i].to]
    BY DEF ToClose
  <2>2. \A e : e \in ToClose(c) <=> \E i \in 1 .. Len(c.left) : e = c.fds[c.left[i].to]
    BY DEF ToClose
  <2> HIDE DEF first
  <2>3. \A e : e \in ToClose(d) <=> e \in ToClose(c) /\ e # first
    BY <1>9, <2>1, <2>2
  <2>4. QED
    BY <2>3
<1>11. QED
  BY <1>3, <1>6, <1>7, <1>10 DEF ToClose

\* A call that fails has everything it made left to close.
LEMMA FailCloses ==
  ASSUME NEW c, c.fds \in Seq(Fds), Checking(c) \/ Making(c) \/ Working(c),
         NEW d, d.failed = TRUE, d.left = CleanUp(c.fds), d.fds = c.fds
  PROVE  /\ Failing(d)
         /\ ToClose(d) = Made(c)
<1>1. Len(c.fds) \in 0 .. 2
  <2>1. Checking(c) \/ Making(c) => Len(c.fds) = 0
    BY EmptySeq DEF Checking, Making
  <2>2. Working(c) => Len(c.fds) \in 1 .. 2
    BY EndsAre DEF Working
  <2>3. QED
    BY <2>1, <2>2
<1>2. Distinct(c.fds)
  <2>1. Checking(c) \/ Making(c) => c.fds = << >>
    BY DEF Checking, Making
  <2>2. Len(<< >>) = 0 /\ 1 .. 0 = {}
    OBVIOUS
  <2>3. Working(c) => Distinct(c.fds)
    BY DEF Working
  <2>4. QED
    BY <2>1, <2>2, <2>3 DEF Distinct
<1>3. DOMAIN c.fds = 1 .. Len(c.fds)
  BY LenProperties
<1> DEFINE n == Len(c.fds)
           l == [k \in 1 .. n |-> [does |-> "close", to |-> k]]
<1>4. d.left = l
  BY <1>3 DEF CleanUp
<1>5. \A k \in 1 .. n : [does |-> "close", to |-> k] \in StepSet
  <2>1. n \in 0 .. 2
    BY <1>1
  <2> HIDE DEF n
  <2>2. \A k \in 1 .. n : k \in 0 .. 2
    BY <2>1
  <2>3. QED
    BY <2>2 DEF StepSet
<1>6. l \in [1 .. n -> StepSet] /\ n \in Nat
  BY <1>1, <1>5
<1>7. l \in Seq(StepSet) /\ Len(l) = n
  <2> HIDE DEF l, n
  <2>1. QED
    BY <1>6
<1>8. \A k \in 1 .. n : l[k].does = "close" /\ l[k].to = k
  OBVIOUS
<1> HIDE DEF l, n
<1>9. Failing(d)
  BY <1>2, <1>4, <1>7, <1>8 DEF Failing, n
<1>10. \A i \in 1 .. Len(d.left) : d.fds[d.left[i].to] = c.fds[i]
  BY <1>4, <1>7, <1>8
<1>11. ToClose(d) = { c.fds[k] : k \in 1 .. n }
  BY <1>4, <1>7, <1>10 DEF ToClose
<1>12. QED
  BY <1>9, <1>11 DEF n, Made

\* InHand() of a call.
HandOf(c) ==
  { c.fds[k] : k \in IF c.failed THEN { c.left[i].to : i \in DOMAIN c.left } ELSE DOMAIN c.fds }

LEMMA InHandOfCall == \A u \in Users : InHand(u) = HandOf(call[u])
BY DEF InHand, HandOf

LEMMA Hands ==
  ASSUME NEW c, c.fds \in Seq(Fds), c.left \in Seq(StepSet)
  PROVE  /\ c = Idle => HandOf(c) = {}
         /\ Checking(c) \/ Making(c) => HandOf(c) = {}
         /\ Working(c) => HandOf(c) = Made(c)
         /\ Failing(c) => HandOf(c) = ToClose(c)
<1>1. DOMAIN c.fds = 1 .. Len(c.fds) /\ DOMAIN c.left = 1 .. Len(c.left)
  BY LenProperties
<1>2. Len(<< >>) = 0 /\ 1 .. 0 = {}
  OBVIOUS
<1>3. ASSUME c = Idle \/ Checking(c) \/ Making(c)
      PROVE  HandOf(c) = {}
  <2>1. c.failed = FALSE /\ c.fds = << >>
    BY <1>3 DEF Idle, Checking, Making
  <2>2. QED
    BY <1>1, <1>2, <2>1 DEF HandOf
<1>4. ASSUME Working(c)
      PROVE  HandOf(c) = Made(c)
  <2>1. ~c.failed
    BY <1>4 DEF Working
  <2>2. QED
    BY <1>1, <2>1 DEF HandOf, Made
<1>5. ASSUME Failing(c)
      PROVE  HandOf(c) = ToClose(c)
  <2>1. c.failed
    BY <1>5 DEF Failing
  <2>2. HandOf(c) = { c.fds[k] : k \in { c.left[i].to : i \in 1 .. Len(c.left) } }
    BY <1>1, <2>1 DEF HandOf
  <2>3. QED
    BY <2>2 DEF ToClose
<1>6. QED
  BY <1>3, <1>4, <1>5

-----------------------------------------------------------------------------
(* AsyncIo: what a step may do to the shares.                              *)

\* CHOOSE finds the least of some numbers.
LEMMA LowestIsOne ==
  ASSUME NEW T, T \subseteq Nat, T # {}
  PROVE  Lowest(T) \in T
<1>1. \E x \in T : \A y \in T : ~(<< y, x >> \in OpToRel(<, Nat))
  BY NatLessThanWellFounded, WFMin
<1>2. \A x, y \in T : ~(<< y, x >> \in OpToRel(<, Nat)) => x <= y
  BY DEF OpToRel
<1>3. \E x \in T : \A y \in T : x <= y
  BY <1>1, <1>2
<1>4. QED
  BY <1>3 DEF Lowest

\* Nothing changes hands, and nothing is opened or closed.
LEMMA SharesSame ==
  ASSUME Shares, \A u \in Users : InHand(u)' = InHand(u) /\ held'[u] = held[u],
         \A d \in Fds : table'[d] = {} <=> table[d] = {},
         \A u \in Users : \A h \in held[u] : h.fd \in Fds
  PROVE  Shares'
BY DEF Shares

\* A call gets descriptors that were free.
LEMMA SharesMade ==
  ASSUME Shares, NEW u \in Users, NEW N, N \subseteq Fds,
         \A d \in N : table[d] = {} /\ table'[d] # {},
         \A d \in Fds : d \notin N => table'[d] = table[d],
         InHand(u) = {}, InHand(u)' = N,
         \A v \in Users : v # u => InHand(v)' = InHand(v),
         held' = held, \A v \in Users : \A h \in held[v] : h.fd \in Fds
  PROVE  Shares'
<1>1. \A v \in Users : \A d \in InHand(v) : d \notin N
  BY DEF Shares
<1>2. \A v \in Users : \A h \in held[v] : h.fd \notin N
  BY DEF Shares
<1>3. \A v \in Users : \A d \in InHand(v)' : d \in Fds /\ table'[d] # {}
  BY <1>1 DEF Shares
<1>4. \A v, w \in Users : v # w => InHand(v)' \cap InHand(w)' = {}
  BY <1>1 DEF Shares
<1>5. \A v, w \in Users : \A h \in held'[v] : table'[h.fd] # {} /\ h.fd \notin InHand(w)'
  BY <1>2 DEF Shares
<1>6. \A d \in Fds : table'[d] # {} =>
        \E v \in Users : d \in InHand(v)' \/ \E h \in held'[v] : h.fd = d
  <2> SUFFICES ASSUME NEW d \in Fds, table'[d] # {}, d \notin N
               PROVE  \E v \in Users : d \in InHand(v)' \/ \E h \in held'[v] : h.fd = d
    OBVIOUS
  <2>1. PICK v \in Users : d \in InHand(v) \/ \E h \in held[v] : h.fd = d
    BY DEF Shares
  <2>2. CASE d \in InHand(v)
    BY <2>2
  <2>3. CASE \E h \in held[v] : h.fd = d
    BY <2>3
  <2>4. QED
    BY <2>1, <2>2, <2>3
<1>7. QED
  BY <1>3, <1>4, <1>5, <1>6 DEF Shares

\* A call closes a descriptor it has.
LEMMA SharesClosed ==
  ASSUME Shares, NEW u \in Users, NEW x \in InHand(u), table'[x] = {},
         \A d \in Fds : d # x => table'[d] = table[d],
         InHand(u)' = InHand(u) \ { x },
         \A v \in Users : v # u => InHand(v)' = InHand(v),
         held' = held, \A v \in Users : \A h \in held[v] : h.fd \in Fds
  PROVE  Shares'
<1>1. \A v \in Users : v # u => x \notin InHand(v)
  BY DEF Shares
<1>2. \A v \in Users : \A h \in held[v] : h.fd # x
  BY DEF Shares
<1>3. \A v \in Users : InHand(v)' = InHand(v) \ { x }
  BY <1>1
<1>4. \A v \in Users : \A d \in InHand(v)' : d \in Fds /\ table'[d] # {}
  BY <1>3 DEF Shares
<1>5. \A v, w \in Users : v # w => InHand(v)' \cap InHand(w)' = {}
  BY <1>3 DEF Shares
<1>6. \A v, w \in Users : \A h \in held'[v] : table'[h.fd] # {} /\ h.fd \notin InHand(w)'
  BY <1>2, <1>3 DEF Shares
<1>7. \A d \in Fds : table'[d] # {} =>
        \E v \in Users : d \in InHand(v)' \/ \E h \in held'[v] : h.fd = d
  <2> SUFFICES ASSUME NEW d \in Fds, table'[d] # {}, d # x
               PROVE  \E v \in Users : d \in InHand(v)' \/ \E h \in held'[v] : h.fd = d
    OBVIOUS
  <2>1. PICK v \in Users : d \in InHand(v) \/ \E h \in held[v] : h.fd = d
    BY DEF Shares
  <2>2. QED
    BY <1>3, <2>1
<1>8. QED
  BY <1>4, <1>5, <1>6, <1>7 DEF Shares

\* A caller closes a descriptor it holds.
LEMMA SharesGivenUp ==
  ASSUME Shares, NEW u \in Users, NEW x \in held[u], table'[x.fd] = {},
         \A d \in Fds : d # x.fd => table'[d] = table[d],
         \A v \in Users : InHand(v)' = InHand(v),
         held'[u] = held[u] \ { x }, \A v \in Users : v # u => held'[v] = held[v],
         \A v \in Users : \A h \in held[v] : h.fd \in Fds
  PROVE  Shares'
<1>1. \A v \in Users : x.fd \notin InHand(v)
  BY DEF Shares
<1>2. \A v \in Users : \A h \in held'[v] : h \in held[v] /\ h.fd # x.fd
  BY DEF Shares
<1>3. \A v \in Users : \A d \in InHand(v)' : d \in Fds /\ table'[d] # {}
  BY <1>1 DEF Shares
<1>4. \A v, w \in Users : \A h \in held'[v] : table'[h.fd] # {} /\ h.fd \notin InHand(w)'
  BY <1>2 DEF Shares
<1>5. \A v, w \in Users : \A g \in held'[v], h \in held'[w] : g.fd = h.fd => v = w /\ g = h
  BY <1>2 DEF Shares
<1>6. \A d \in Fds : table'[d] # {} =>
        \E v \in Users : d \in InHand(v)' \/ \E h \in held'[v] : h.fd = d
  <2> SUFFICES ASSUME NEW d \in Fds, table'[d] # {}, d # x.fd
               PROVE  \E v \in Users : d \in InHand(v)' \/ \E h \in held'[v] : h.fd = d
    OBVIOUS
  <2>1. PICK v \in Users : d \in InHand(v) \/ \E h \in held[v] : h.fd = d
    BY DEF Shares
  <2>2. \A h \in held[v] : h.fd = d => h \in held'[v]
    BY <2>1
  <2>3. QED
    BY <2>1, <2>2
<1>7. \A v, w \in Users : v # w => InHand(v)' \cap InHand(w)' = {}
  BY DEF Shares
<1>8. QED
  BY <1>3, <1>4, <1>5, <1>6, <1>7 DEF Shares

\* A call returns its descriptors to its caller.
LEMMA SharesReturned ==
  ASSUME Shares, NEW u \in Users, NEW G, held'[u] = held[u] \cup G,
         \A v \in Users : v # u => held'[v] = held[v],
         { g.fd : g \in G } = InHand(u), \A g, h \in G : g.fd = h.fd => g = h,
         InHand(u)' = {}, \A v \in Users : v # u => InHand(v)' = InHand(v), table' = table
  PROVE  Shares'
<1>1. \A g \in G : g.fd \in InHand(u) /\ g.fd \in Fds /\ table[g.fd] # {}
  BY DEF Shares
<1>2. \A v \in Users : \A h \in held[v], g \in G : h.fd # g.fd
  BY <1>1 DEF Shares
<1>3. \A v \in Users : \A d \in InHand(v)' : d \in Fds /\ table'[d] # {}
  BY DEF Shares
<1>4. \A v, w \in Users : v # w => InHand(v)' \cap InHand(w)' = {}
  BY DEF Shares
<1>5. \A v \in Users : \A h \in held'[v] : h \in held[v] \/ (v = u /\ h \in G)
  OBVIOUS
<1>6. \A v, w \in Users : \A h \in held'[v] : table'[h.fd] # {} /\ h.fd \notin InHand(w)'
  BY <1>1, <1>5 DEF Shares
<1>7. \A v, w \in Users : \A g \in held'[v], h \in held'[w] : g.fd = h.fd => v = w /\ g = h
  BY <1>2, <1>5 DEF Shares
<1>8. \A d \in Fds : table'[d] # {} =>
        \E v \in Users : d \in InHand(v)' \/ \E h \in held'[v] : h.fd = d
  <2> SUFFICES ASSUME NEW d \in Fds, table'[d] # {}
               PROVE  \E v \in Users : d \in InHand(v)' \/ \E h \in held'[v] : h.fd = d
    OBVIOUS
  <2>1. PICK v \in Users : d \in InHand(v) \/ \E h \in held[v] : h.fd = d
    BY DEF Shares
  <2>2. CASE v = u /\ d \in InHand(v)
    BY <2>2
  <2>3. CASE v # u \/ d \notin InHand(v)
    BY <2>1, <2>3
  <2>4. QED
    BY <2>2, <2>3
<1>9. QED
  BY <1>3, <1>4, <1>6, <1>7, <1>8 DEF Shares

-----------------------------------------------------------------------------
(* AsyncIo: every step.                                                    *)

\* What the invariant says of one thread's call.
LEMMA CallIs ==
  ASSUME IoInv, NEW u \in Users
  PROVE  /\ call[u] \in CallSet /\ Phase(call[u]) /\ WordOf(call[u])
         /\ call[u].left \in Seq(StepSet) /\ call[u].fds \in Seq(Fds)
         /\ InHand(u) = HandOf(call[u])
         /\ \A v \in Users : \A h \in held[v] : h.fd \in Fds
<1>1. call[u] \in CallSet /\ Phase(call[u]) /\ WordOf(call[u])
  BY DEF IoInv, IoTypes, KeepsWord
<1>2. call[u].left \in Seq(StepSet) /\ call[u].fds \in Seq(Fds)
  BY <1>1 DEF CallSet
<1>3. \A v \in Users : \A h \in held[v] : h.fd \in Fds
  BY DEF IoInv, IoTypes, HeldSet
<1>4. QED
  BY <1>1, <1>2, <1>3, InHandOfCall

\* The hands after a step that changes one thread's call.
LEMMA HandsAfter ==
  ASSUME NEW u \in Users, \A v \in Users : v # u => call'[v] = call[v]
  PROVE  /\ InHand(u)' = HandOf(call'[u])
         /\ \A v \in Users : v # u => InHand(v)' = InHand(v)
<1>1. \A v \in Users : InHand(v)' = HandOf(call'[v])
  BY DEF InHand, HandOf
<1>2. QED
  BY <1>1, InHandOfCall

\* A successful system call.
LEMMA DoneIs ==
  ASSUME call \in [Users -> CallSet], NEW u \in Users, call[u].left # << >>,
         NEW fds \in Seq(Fds), Done(u, fds)
  PROVE  /\ call' \in [Users -> CallSet]
         /\ call'[u].left = Tail(call[u].left) /\ call'[u].fds = fds
         /\ call'[u].fn = call[u].fn /\ call'[u].flags = call[u].flags
         /\ call'[u].failed = call[u].failed
         /\ \A v \in Users : v # u => call'[v] = call[v]
<1>1. call[u] \in CallSet
  OBVIOUS
<1>2. Tail(call[u].left) \in Seq(StepSet)
  BY <1>1, TailIs DEF CallSet
<1> DEFINE d == [[call[u] EXCEPT !.left = Tail(call[u].left)] EXCEPT !.fds = fds]
<1>3. /\ d \in CallSet /\ d.left = Tail(call[u].left) /\ d.fds = fds
      /\ d.fn = call[u].fn /\ d.flags = call[u].flags /\ d.failed = call[u].failed
  BY <1>1, <1>2 DEF CallSet
<1>4. call' = [call EXCEPT ![u] = d]
  BY DEF Done
<1> HIDE DEF d
<1>5. call'[u] = d /\ \A v \in Users : v # u => call'[v] = call[v]
  BY <1>4
<1>6. call' \in [Users -> CallSet]
  BY <1>3, <1>4
<1>7. QED
  BY <1>3, <1>5, <1>6

\* What is promised of the other calls is kept if their descriptors stay as they are.
LEMMA WordsOfOthers ==
  ASSUME IoInv, NEW u \in Users, \A v \in Users : v # u => call'[v] = call[v],
         \A v \in Users : v # u => \A d \in InHand(v) : table'[d] = table[d]
  PROVE  \A v \in Users : v # u => WordOf(call[v])'
<1> SUFFICES ASSUME NEW v \in Users, v # u PROVE WordOf(call[v])'
  OBVIOUS
<1> DEFINE c == call[v]
<1>1. /\ c \in CallSet /\ WordOf(c) /\ call'[v] = c
      /\ c.left \in Seq(StepSet) /\ c.fds \in Seq(Fds) /\ InHand(v) = HandOf(c)
  BY CallIs
<1>2. ASSUME c.fn \in Functions, Working(c), NEW k \in 1 .. Len(c.fds)
      PROVE  /\ table'[c.fds[k]] = table[c.fds[k]]
             /\ Asked(table[c.fds[k]] \cup Over(c.left, k), c.fn, c.flags)
  <2>1. c.fds[k] \in InHand(v)
    BY <1>1, <1>2, Hands DEF Made
  <2>2. QED
    BY <1>1, <1>2, <2>1 DEF WordOf
<1> HIDE DEF c
<1>3. c.fn \in Functions /\ Working(c) =>
        \A k \in 1 .. Len(c.fds) : Asked(table'[c.fds[k]] \cup Over(c.left, k), c.fn, c.flags)
  BY <1>2
<1>4. QED
  BY <1>1, <1>3 DEF WordOf

\* What is promised of what callers hold is kept if that stays as it is.
LEMMA WordsOfCallers ==
  ASSUME IoInv, \A u \in Users : held'[u] \subseteq held[u],
         \A u \in Users : \A h \in held'[u] : table'[h.fd] = table[h.fd]
  PROVE  \A u \in Users : \A h \in held'[u] : Asked(table'[h.fd], h.fn, h.flags)
<1>1. \A u \in Users : \A h \in held'[u] :
        h \in held[u] /\ table'[h.fd] = table[h.fd] /\ Asked(table[h.fd], h.fn, h.flags)
  BY DEF IoInv, KeepsWord
<1>2. QED
  BY <1>1

\* The pieces of the invariant after a step of one thread that leaves what callers hold.
LEMMA Pieces ==
  ASSUME IoInv, NEW u \in Users, call' \in [Users -> CallSet],
         \A v \in Users : v # u => call'[v] = call[v],
         table' \in [Fds -> SUBSET (Makers \cup Settings)], held' = held,
         \A v \in Users : v # u => \A d \in InHand(v) : table'[d] = table[d],
         \A v \in Users : \A h \in held[v] : table'[h.fd] = table[h.fd],
         Phase(call'[u]), WordOf(call[u])', Shares'
  PROVE  IoInv'
<1>1. IoTypes'
  BY DEF IoInv, IoTypes
<1>2. \A v \in Users : Phase(call'[v])
  BY DEF IoInv
<1>3. \A v \in Users : WordOf(call[v])'
  BY WordsOfOthers
<1>4. \A v \in Users : \A h \in held'[v] : Asked(table'[h.fd], h.fn, h.flags)
  BY WordsOfCallers
<1>5. KeepsWord'
  BY <1>3, <1>4 DEF KeepsWord
<1>6. (\A v \in Users : Phase(call[v]))'
  BY <1>2 DEF Phase, Checking, Making, Working, Failing
<1>7. QED
  BY <1>1, <1>5, <1>6 DEF IoInv

LEMMA PhaseWord ==
  ASSUME NEW c
  PROVE  /\ c.failed => ~Working(c)
         /\ c.fds = << >> => ~Working(c)
<1>1. Len(<< >>) = 0 /\ ~(0 \in 1 .. 2)
  OBVIOUS
<1>2. Working(c) => ~c.failed /\ Len(c.fds) \in 1 .. 2
  BY EndsAre DEF Working
<1>3. QED
  BY <1>1, <1>2

LEMMA EnterKeeps ==
  ASSUME AsyncIoAssumption, IoInv, NEW u \in Users, NEW fn \in Uses[u], NEW flags \in FlagsOf(fn),
         Enter(u, fn, flags)
  PROVE  IoInv'
<1>1. fn \in Functions /\ flags \in FlagSet
  <2>1. fn \in Functions
    BY DEF AsyncIoAssumption
  <2>2. flags \subseteq AIO_FLAGS \/ flags = { "other" } \/ flags = {}
    BY DEF FlagsOf
  <2>3. QED
    BY <2>1, <2>2 DEF FlagSet
<1> DEFINE d == [Idle EXCEPT !.fn = fn, !.flags = flags, !.left = Steps(fn, flags)]
<1>2. /\ d.fn = fn /\ d.flags = flags /\ d.left = Steps(fn, flags) /\ d.fds = << >>
      /\ d.failed = FALSE
  BY DEF Idle
<1>3. Checking(d)
  BY <1>1, <1>2, StepsPlan DEF Checking
<1>4. d \in CallSet
  <2>1. Steps(fn, flags) \in Seq(StepSet)
    BY <1>1, StepsPlan DEF Plan
  <2>2. << >> \in Seq(Fds)
    BY EmptySeq
  <2>3. QED
    BY <1>1, <2>1, <2>2 DEF CallSet, Idle
<1>5. call' = [call EXCEPT ![u] = d] /\ call[u] = Idle /\ UNCHANGED << table, held >>
  BY DEF Enter
<1> HIDE DEF d
<1>6. /\ call' \in [Users -> CallSet] /\ call'[u] = d
      /\ \A v \in Users : v # u => call'[v] = call[v]
  BY <1>4, <1>5 DEF IoInv, IoTypes
<1>7. InHand(u) = {} /\ HandOf(d) = {}
  <2>1. InHand(u) = {}
    BY <1>5, CallIs, Hands
  <2>2. d.left \in Seq(StepSet) /\ d.fds \in Seq(Fds)
    BY <1>4 DEF CallSet
  <2>3. QED
    BY <1>3, <2>1, <2>2, Hands
<1>8. \A v \in Users : InHand(v)' = InHand(v)
  BY <1>6, <1>7, HandsAfter
<1>9. Shares'
  <2>1. \A v \in Users : \A h \in held[v] : h.fd \in Fds
    BY CallIs
  <2>2. QED
    BY <1>5, <1>8, <2>1, SharesSame DEF IoInv
<1>10. ~Working(d)
  BY <1>2, PhaseWord
<1>11. WordOf(call[u])'
  BY <1>6, <1>10 DEF WordOf, Working
<1>12. Phase(call'[u])
  BY <1>1, <1>2, <1>3, <1>6 DEF Phase
<1>13. table' \in [Fds -> SUBSET (Makers \cup Settings)]
  BY <1>5 DEF IoInv, IoTypes
<1>14. QED
  BY <1>5, <1>6, <1>9, <1>11, <1>12, <1>13, Pieces

LEMMA PassKeeps ==
  ASSUME IoInv, NEW u \in Users, call[u].left # << >>, Pass(u), UNCHANGED held
  PROVE  IoInv'
<1> DEFINE c == call[u]
           d == call'[u]
<1>1. /\ Phase(c) /\ c.left \in Seq(StepSet) /\ c.fds \in Seq(Fds) /\ c.left # << >>
      /\ InHand(u) = HandOf(c) /\ \A v \in Users : \A h \in held[v] : h.fd \in Fds
  BY CallIs
<1>2. c # Idle
  BY <1>1 DEF Idle
<1>3. << >> \in Seq(Fds)
  BY EmptySeq
<1>4. /\ call' \in [Users -> CallSet] /\ d.left = Tail(c.left) /\ d.fds = << >>
      /\ d.fn = c.fn /\ d.flags = c.flags /\ d.failed = c.failed
      /\ \A v \in Users : v # u => call'[v] = call[v]
  BY <1>3, DoneIs DEF Pass, IoInv, IoTypes
<1>5. Head(c.left).does \in Checks /\ table' = table
  BY DEF Pass, Todo
<1> HIDE DEF c, d
<1>6. c.fn \in Functions /\ Checking(c)
  BY <1>1, <1>2, <1>5, NextTells DEF Phase
<1>7. Making(d)
  BY <1>4, <1>6, CheckingPasses
<1>8. d.left \in Seq(StepSet) /\ d.fds \in Seq(Fds)
  BY <1>4 DEF CallSet, d
<1>9. InHand(u) = {} /\ InHand(u)' = {}
  <2>1. HandOf(c) = {} /\ HandOf(d) = {}
    BY <1>1, <1>6, <1>7, <1>8, Hands
  <2>2. InHand(u)' = HandOf(d)
    BY <1>4, HandsAfter DEF d
  <2>3. QED
    BY <1>1, <2>1, <2>2
<1>10. \A v \in Users : InHand(v)' = InHand(v)
  BY <1>4, <1>9, HandsAfter
<1>11. Shares'
  BY <1>1, <1>5, <1>10, SharesSame DEF IoInv
<1>12. ~Working(d)
  BY <1>4, PhaseWord
<1>13. WordOf(call[u])'
  BY <1>12 DEF WordOf, Working, d
<1>14. Phase(call'[u])
  BY <1>4, <1>6, <1>7 DEF Phase, d
<1>15. table' \in [Fds -> SUBSET (Makers \cup Settings)]
  BY <1>5 DEF IoInv, IoTypes
<1>16. QED
  BY <1>4, <1>5, <1>11, <1>13, <1>14, <1>15, Pieces

\* The numbers that a call gets are free ones, and two different ones if it gets two.
LEMMA FreeOnes ==
  ASSUME Cardinality(Free) >= 1
  PROVE  /\ LowestFree \in Free
         /\ Cardinality(Free) >= 2 => SecondFree \in Free /\ SecondFree # LowestFree
<1>1. AsyncIoAssumption => IsFiniteSet(Free) /\ Free \subseteq Nat
  <2>1. AsyncIoAssumption => IsFiniteSet(Fds) /\ Fds \subseteq Nat
    BY FS_Interval DEF Fds, AsyncIoAssumption
  <2>2. Free \subseteq Fds
    BY DEF Free
  <2>3. QED
    BY <2>1, <2>2, FS_Subset
<1>2. IsFiniteSet(Free) /\ Free \subseteq Nat
  BY <1>1, AsyncIoAssumption
<1>3. Free # {}
  BY FS_EmptySet
<1>4. LowestFree \in Free
  BY <1>2, <1>3, LowestIsOne DEF LowestFree
<1>5. ASSUME Cardinality(Free) >= 2
      PROVE  SecondFree \in Free /\ SecondFree # LowestFree
  <2> DEFINE rest == Free \ { LowestFree }
  <2>1. Cardinality(rest) = Cardinality(Free) - 1
    BY <1>2, <1>4, FS_RemoveElement
  <2>2. Cardinality(Free) \in Nat
    BY <1>2, FS_CardinalityType
  <2>3. rest # {}
    <3>1. Cardinality(rest) # 0
      BY <1>5, <2>1, <2>2
    <3> HIDE DEF rest
    <3>2. QED
      BY <3>1, FS_EmptySet
  <2>4. SecondFree \in rest
    BY <1>2, <2>3, LowestIsOne DEF SecondFree
  <2>5. QED
    BY <2>4
<1>6. QED
  BY <1>4, <1>5

LEMMA MakeKeeps ==
  ASSUME IoInv, NEW u \in Users, call[u].left # << >>, Make(u), UNCHANGED held
  PROVE  IoInv'
<1> DEFINE c   == call[u]
           d   == call'[u]
           does == Head(call[u].left).does
           fds == IF does = "pipe" THEN << LowestFree, SecondFree >> ELSE << LowestFree >>
           N   == { e \in Fds : \E k \in DOMAIN fds : fds[k] = e }
<1>1. /\ Phase(c) /\ c.left \in Seq(StepSet) /\ c.fds \in Seq(Fds) /\ c.left # << >>
      /\ InHand(u) = HandOf(c) /\ \A v \in Users : \A h \in held[v] : h.fd \in Fds
  BY CallIs
<1>2. c # Idle
  BY <1>1 DEF Idle
<1>3. /\ does \in Makers /\ Done(u, fds)
      /\ Cardinality(Free) >= IF does = "pipe" THEN 2 ELSE 1
      /\ table' = [e \in Fds |-> IF \E k \in DOMAIN fds : fds[k] = e THEN { does }
                                 ELSE table[e]]
  BY DEF Make, Todo
<1>4. /\ LowestFree \in Free
      /\ does = "pipe" => SecondFree \in Free /\ SecondFree # LowestFree
  <2>1. Cardinality(Free) >= 1
    <3>1. CASE does = "pipe"
      <4>1. Cardinality(Free) \in Nat
        <5>1. IsFiniteSet(Fds)
          BY AsyncIoAssumption, FS_Interval DEF Fds
        <5>2. IsFiniteSet(Free)
          BY <5>1, FS_Subset DEF Free
        <5>3. QED
          BY <5>2, FS_CardinalityType
      <4>2. QED
        BY <1>3, <3>1, <4>1
    <3>2. CASE does # "pipe"
      BY <1>3, <3>2
    <3>3. QED
      BY <3>1, <3>2
  <2>2. QED
    BY <1>3, <2>1, FreeOnes
<1>5. Free \subseteq Fds /\ \A e \in Free : table[e] = {}
  BY DEF Free
<1>6. /\ fds \in Seq(Fds) /\ Distinct(fds)
      /\ Len(fds) = IF does = "pipe" THEN 2 ELSE 1
      /\ \A k \in 1 .. Len(fds) : fds[k] \in Free
  <2>1. CASE does = "pipe"
    <3> DEFINE a == LowestFree
               b == SecondFree
    <3>1. a \in Fds /\ b \in Fds /\ a # b /\ a \in Free /\ b \in Free
      BY <1>4, <1>5, <2>1
    <3> HIDE DEF a, b
    <3>2. << a, b >> \in Seq(Fds) /\ Len(<< a, b >>) = 2 /\ 1 .. 2 = { 1, 2 }
      BY <3>1
    <3>3. Distinct(<< a, b >>) /\ \A k \in 1 .. 2 : << a, b >>[k] \in Free
      BY <3>1, <3>2 DEF Distinct
    <3>4. QED
      BY <2>1, <3>2, <3>3 DEF a, b
  <2>2. CASE does # "pipe"
    <3> DEFINE a == LowestFree
    <3>1. a \in Fds /\ a \in Free
      BY <1>4, <1>5
    <3> HIDE DEF a
    <3>2. << a >> \in Seq(Fds) /\ Len(<< a >>) = 1 /\ 1 .. 1 = { 1 }
      BY <3>1
    <3>3. Distinct(<< a >>) /\ \A k \in 1 .. 1 : << a >>[k] \in Free
      BY <3>1, <3>2 DEF Distinct
    <3>4. QED
      BY <2>2, <3>2, <3>3 DEF a
  <2>3. QED
    BY <2>1, <2>2
<1>7. does = c.left[1].does
  BY <1>1, TailIs
<1> HIDE DEF fds, does, c, d
<1>8. DOMAIN fds = 1 .. Len(fds)
  BY <1>6, LenProperties
<1>9. /\ call' \in [Users -> CallSet] /\ d.left = Tail(c.left) /\ d.fds = fds
      /\ d.fn = c.fn /\ d.flags = c.flags /\ d.failed = c.failed
      /\ \A v \in Users : v # u => call'[v] = call[v]
  BY <1>1, <1>3, <1>6, DoneIs DEF IoInv, IoTypes, c, d
<1>10. c.fn \in Functions /\ Making(c)
  BY <1>1, <1>2, <1>3, <1>7, NextTells DEF Phase
<1>11. Len(d.fds) = Ends(c.fn) /\ Distinct(d.fds)
  BY <1>6, <1>7, <1>9, <1>10, EndsAre DEF Making
<1>12. /\ Working(d)
       /\ \A k \in 1 .. Ends(c.fn) :
            Asked({ c.left[1].does } \cup Over(d.left, k), d.fn, d.flags)
  BY <1>9, <1>10, <1>11, MakingMakes
<1>13. N = { fds[k] : k \in 1 .. Len(fds) } /\ N \subseteq Free
  BY <1>5, <1>6, <1>8
<1>14. \A e \in Fds : table'[e] = IF e \in N THEN { does } ELSE table[e]
  BY <1>3
<1> HIDE DEF N
<1>15. InHand(u) = {} /\ InHand(u)' = N
  <2>1. d.left \in Seq(StepSet) /\ d.fds \in Seq(Fds)
    BY <1>9 DEF CallSet, d
  <2>2. HandOf(c) = {} /\ HandOf(d) = Made(d)
    BY <1>1, <1>10, <1>12, <2>1, Hands
  <2>3. InHand(u)' = HandOf(d)
    BY <1>9, HandsAfter DEF d
  <2>4. QED
    BY <1>1, <1>9, <1>13, <2>2, <2>3 DEF Made
<1>16. \A v \in Users : v # u => InHand(v)' = InHand(v)
  BY <1>9, HandsAfter
<1>17. \A e \in N : table[e] = {} /\ table'[e] # {}
  BY <1>5, <1>13, <1>14
<1>18. Shares'
  BY <1>1, <1>5, <1>13, <1>14, <1>15, <1>16, <1>17, SharesMade DEF IoInv
<1>19. WordOf(call[u])'
  <2>1. \A k \in 1 .. Len(d.fds) : table'[d.fds[k]] = { c.left[1].does }
    <3>1. \A k \in 1 .. Len(fds) : fds[k] \in N /\ fds[k] \in Fds
      BY <1>5, <1>13
    <3>2. QED
      BY <1>7, <1>9, <1>14, <3>1
  <2>2. \A k \in 1 .. Len(d.fds) : Asked(table'[d.fds[k]] \cup Over(d.left, k), d.fn, d.flags)
    BY <1>11, <1>12, <2>1
  <2>3. QED
    BY <2>2 DEF WordOf, Working, d
<1>20. Phase(call'[u])
  BY <1>9, <1>10, <1>12 DEF Phase, d
<1>21. table' \in [Fds -> SUBSET (Makers \cup Settings)]
  <2>1. table \in [Fds -> SUBSET (Makers \cup Settings)]
    BY DEF IoInv, IoTypes
  <2>2. QED
    BY <1>3, <2>1
<1>22. /\ \A v \in Users : v # u => \A e \in InHand(v) : table'[e] = table[e]
       /\ \A v \in Users : \A h \in held[v] : table'[h.fd] = table[h.fd]
  <2>1. \A v \in Users : \A e \in InHand(v) : e \in Fds /\ e \notin N
    BY <1>17 DEF IoInv, Shares
  <2>2. \A v \in Users : \A h \in held[v] : h.fd \in Fds /\ h.fd \notin N
    BY <1>1, <1>17 DEF IoInv, Shares
  <2>3. QED
    BY <1>14, <2>1, <2>2
<1>23. QED
  BY <1>9, <1>18, <1>19, <1>20, <1>21, <1>22, Pieces

LEMMA ApplyKeeps ==
  ASSUME IoInv, NEW u \in Users, call[u].left # << >>, Apply(u), UNCHANGED held
  PROVE  IoInv'
<1> DEFINE c == call[u]
           d == call'[u]
           to   == Head(call[u].left).to
           does == Head(call[u].left).does
           x    == call[u].fds[Head(call[u].left).to]
<1>1. /\ Phase(c) /\ WordOf(c) /\ c.left \in Seq(StepSet) /\ c.fds \in Seq(Fds)
      /\ c.left # << >> /\ InHand(u) = HandOf(c)
      /\ \A v \in Users : \A h \in held[v] : h.fd \in Fds
  BY CallIs
<1>2. c # Idle
  BY <1>1 DEF Idle
<1>3. /\ to # 0 /\ does # "close" /\ table[x] # {} /\ x = c.fds[to]
      /\ table' = [table EXCEPT ![x] = @ \cup { does }] /\ Done(u, c.fds)
  BY DEF Apply, Todo
<1>4. to = c.left[1].to /\ does = c.left[1].does
  BY <1>1, TailIs
<1> HIDE DEF c, d, to, does, x
<1>5. /\ call' \in [Users -> CallSet] /\ d.left = Tail(c.left) /\ d.fds = c.fds
      /\ d.fn = c.fn /\ d.flags = c.flags /\ d.failed = c.failed
      /\ \A v \in Users : v # u => call'[v] = call[v]
  BY <1>1, <1>3, DoneIs DEF IoInv, IoTypes, c, d
<1>6. c.fn \in Functions /\ Working(c)
  BY <1>1, <1>2, <1>3, <1>4, NextTells DEF Phase
<1>7. /\ Working(d) /\ to \in 1 .. Len(c.fds)
      /\ \A k : Over(c.left, k) = Over(d.left, k) \cup IF to = k THEN { does } ELSE {}
  <2>1. Working(c) /\ c.left # << >>
    BY <1>1, <1>6
  <2>2. /\ d.fn = c.fn /\ d.flags = c.flags /\ d.failed = c.failed
        /\ d.left = Tail(c.left) /\ d.fds = c.fds
    BY <1>5
  <2>3. /\ Working(d) /\ c.left[1].to \in 1 .. Len(c.fds)
        /\ \A k : Over(c.left, k) = Over(d.left, k) \cup Now(c, k)
    BY <2>1, <2>2, WorkingGoesOn
  <2>4. QED
    BY <1>4, <2>3 DEF Now
<1>8. /\ InHand(u) = Made(c) /\ InHand(u)' = InHand(u)
      /\ \A v \in Users : v # u => InHand(v)' = InHand(v)
  <2>1. d.left \in Seq(StepSet) /\ d.fds \in Seq(Fds)
    BY <1>5 DEF CallSet, d
  <2>2. /\ HandOf(c) = Made(c)
        /\ HandOf(d) = Made(d)
    BY <1>1, <1>6, <1>7, <2>1, Hands
  <2>3. InHand(u)' = HandOf(d) /\ \A v \in Users : v # u => InHand(v)' = InHand(v)
    BY <1>5, HandsAfter DEF d
  <2>4. QED
    BY <1>1, <1>5, <2>2, <2>3 DEF Made
<1>9. x \in InHand(u) /\ x \in Fds
  BY <1>3, <1>7, <1>8 DEF IoInv, Shares, Made
<1>10. does \in Settings
  <2>1. c.left[1] \in Work(Ends(c.fn))
    <3>1. 1 \in 1 .. Len(c.left)
      BY <1>1, TailIs
    <3>2. QED
      BY <1>6, <3>1 DEF Working
  <2>2. QED
    BY <1>4, <2>1 DEF Work
<1>11. /\ table' \in [Fds -> SUBSET (Makers \cup Settings)]
       /\ table'[x] = table[x] \cup { does }
       /\ \A e \in Fds : e # x => table'[e] = table[e]
  <2>1. table \in [Fds -> SUBSET (Makers \cup Settings)]
    BY DEF IoInv, IoTypes
  <2>2. QED
    BY <1>3, <1>9, <1>10, <2>1
<1>12. Shares'
  <2>1. \A e \in Fds : table'[e] = {} <=> table[e] = {}
    BY <1>3, <1>11
  <2>2. QED
    BY <1>1, <1>8, <2>1, SharesSame DEF IoInv
<1>13. ASSUME NEW k \in 1 .. Len(d.fds)
       PROVE  Asked(table'[d.fds[k]] \cup Over(d.left, k), d.fn, d.flags)
  <2>1. Asked(table[c.fds[k]] \cup Over(c.left, k), c.fn, c.flags) /\ c.fds[k] \in Fds
    BY <1>1, <1>5, <1>6, <1>13, ElementOfSeq DEF WordOf
  <2>2. c.fds[k] = x <=> k = to
    BY <1>3, <1>5, <1>6, <1>7, <1>13 DEF Working, Distinct
  <2>3. table'[c.fds[k]] \cup Over(d.left, k) = table[c.fds[k]] \cup Over(c.left, k)
    <3>1. CASE k = to
      BY <1>7, <1>11, <2>2, <3>1
    <3>2. CASE k # to
      BY <1>7, <1>11, <2>1, <2>2, <3>2
    <3>3. QED
      BY <3>1, <3>2
  <2>4. QED
    BY <1>5, <2>1, <2>3
<1>14. WordOf(call[u])'
  BY <1>13 DEF WordOf, Working, d
<1>15. Phase(call'[u])
  BY <1>5, <1>6, <1>7 DEF Phase, d
<1>16. /\ \A v \in Users : v # u => \A e \in InHand(v) : table'[e] = table[e]
       /\ \A v \in Users : \A h \in held[v] : table'[h.fd] = table[h.fd]
  <2>1. \A v \in Users : v # u => \A e \in InHand(v) : e \in Fds /\ e # x
    BY <1>9 DEF IoInv, Shares
  <2>2. \A v \in Users : \A h \in held[v] : h.fd \in Fds /\ h.fd # x
    BY <1>1, <1>9 DEF IoInv, Shares
  <2>3. QED
    BY <1>11, <2>1, <2>2
<1>17. QED
  BY <1>5, <1>11, <1>12, <1>14, <1>15, <1>16, Pieces

LEMMA FailKeeps ==
  ASSUME IoInv, NEW u \in Users, call[u].left # << >>, Fail(u), UNCHANGED held
  PROVE  IoInv'
<1> DEFINE c == call[u]
           d == [[call[u] EXCEPT !.left = CleanUp(call[u].fds)] EXCEPT !.failed = TRUE]
<1>1. /\ c \in CallSet /\ Phase(c) /\ c.left \in Seq(StepSet) /\ c.fds \in Seq(Fds)
      /\ c.left # << >> /\ InHand(u) = HandOf(c)
      /\ \A v \in Users : \A h \in held[v] : h.fd \in Fds
  BY CallIs
<1>2. c # Idle
  BY <1>1 DEF Idle
<1>3. /\ d.failed = TRUE /\ d.left = CleanUp(c.fds) /\ d.fds = c.fds
      /\ d.fn = c.fn /\ d.flags = c.flags
  BY <1>1 DEF CallSet
<1>4. Head(c.left).does # "close" /\ table' = table /\ call' = [call EXCEPT ![u] = d]
  BY DEF Fail, Todo
<1>5. Head(c.left) = c.left[1] /\ 1 \in 1 .. Len(c.left)
  BY <1>1, TailIs
<1> HIDE DEF c, d
<1>6. c.fn \in Functions /\ (Checking(c) \/ Making(c) \/ Working(c))
  BY <1>1, <1>2, <1>4, <1>5 DEF Phase, Failing
<1>7. /\ Failing(d)
      /\ ToClose(d) = Made(c)
  <2>1. c.fds \in Seq(Fds) /\ (Checking(c) \/ Making(c) \/ Working(c))
    BY <1>1, <1>6
  <2>2. d.failed = TRUE /\ d.left = CleanUp(c.fds) /\ d.fds = c.fds
    BY <1>3
  <2>3. QED
    BY <2>1, <2>2, FailCloses
<1>8. d \in CallSet
  <2>1. d.left \in Seq(StepSet)
    BY <1>7 DEF Failing
  <2>2. c \in CallSet
    BY <1>1
  <2>3. d = [[c EXCEPT !.left = d.left] EXCEPT !.failed = TRUE]
    BY <1>3 DEF d, c
  <2>4. QED
    BY <2>1, <2>2, <2>3 DEF CallSet
<1>9. /\ call' \in [Users -> CallSet] /\ call'[u] = d
      /\ \A v \in Users : v # u => call'[v] = call[v]
  BY <1>4, <1>8 DEF IoInv, IoTypes
<1>10. HandOf(c) = Made(c)
  <2>1. CASE Working(c)
    BY <1>1, <2>1, Hands
  <2>2. CASE Checking(c) \/ Making(c)
    <3>1. c.fds = << >>
      BY <2>2 DEF Checking, Making
    <3>2. Len(<< >>) = 0 /\ 1 .. 0 = {}
      OBVIOUS
    <3>3. HandOf(c) = {}
      BY <1>1, <2>2, Hands
    <3>4. QED
      BY <3>1, <3>2, <3>3 DEF Made
  <2>3. QED
    BY <1>6, <2>1, <2>2
<1>11. \A v \in Users : InHand(v)' = InHand(v)
  <2>1. d.left \in Seq(StepSet) /\ d.fds \in Seq(Fds)
    BY <1>8 DEF CallSet
  <2>2. HandOf(d) = ToClose(d)
    BY <1>7, <2>1, Hands
  <2>3. InHand(u)' = HandOf(d) /\ \A v \in Users : v # u => InHand(v)' = InHand(v)
    BY <1>9, HandsAfter
  <2>4. QED
    BY <1>1, <1>7, <1>10, <2>2, <2>3
<1>12. Shares'
  BY <1>1, <1>4, <1>11, SharesSame DEF IoInv
<1>13. ~Working(d)
  BY <1>3, PhaseWord
<1>14. WordOf(call[u])'
  BY <1>9, <1>13 DEF WordOf, Working
<1>15. Phase(call'[u])
  BY <1>3, <1>6, <1>7, <1>9 DEF Phase
<1>16. table' \in [Fds -> SUBSET (Makers \cup Settings)]
  BY <1>4 DEF IoInv, IoTypes
<1>17. QED
  BY <1>4, <1>9, <1>12, <1>14, <1>15, <1>16, Pieces

LEMMA CleanUpKeeps ==
  ASSUME IoInv, NEW u \in Users, call[u].left # << >>, CleanUpStep(u), UNCHANGED held
  PROVE  IoInv'
<1> DEFINE c == call[u]
           d == call'[u]
           x == call[u].fds[Head(call[u].left).to]
<1>1. /\ Phase(c) /\ c.left \in Seq(StepSet) /\ c.fds \in Seq(Fds) /\ c.left # << >>
      /\ InHand(u) = HandOf(c) /\ \A v \in Users : \A h \in held[v] : h.fd \in Fds
  BY CallIs
<1>2. c # Idle
  BY <1>1 DEF Idle
<1>3. Head(c.left).does = "close" /\ table' = [table EXCEPT ![x] = {}] /\ Done(u, c.fds)
  BY DEF CleanUpStep, Todo
<1>4. Head(c.left) = c.left[1] /\ x = c.fds[c.left[1].to]
  BY <1>1, TailIs
<1> HIDE DEF c, d, x
<1>5. /\ call' \in [Users -> CallSet] /\ d.left = Tail(c.left) /\ d.fds = c.fds
      /\ d.fn = c.fn /\ d.flags = c.flags /\ d.failed = c.failed
      /\ \A v \in Users : v # u => call'[v] = call[v]
  BY <1>1, <1>3, DoneIs DEF IoInv, IoTypes, c, d
<1>6. c.fn \in Functions /\ Failing(c)
  BY <1>1, <1>2, <1>3, <1>4, NextTells DEF Phase
<1>7. /\ Failing(d) /\ c.left[1].to \in 1 .. Len(c.fds)
      /\ ToClose(d) = ToClose(c) \ { c.fds[c.left[1].to] }
      /\ c.fds[c.left[1].to] \in ToClose(c)
  <2>1. Failing(c) /\ c.left # << >>
    BY <1>1, <1>6
  <2>2. d.fn = c.fn /\ d.failed = c.failed /\ d.left = Tail(c.left) /\ d.fds = c.fds
    BY <1>5
  <2>3. QED
    BY <2>1, <2>2, FailingGoesOn
<1>8. /\ x \in InHand(u) /\ InHand(u)' = InHand(u) \ { x }
      /\ \A v \in Users : v # u => InHand(v)' = InHand(v)
  <2>1. d.left \in Seq(StepSet) /\ d.fds \in Seq(Fds)
    BY <1>5 DEF CallSet, d
  <2>2. /\ HandOf(c) = ToClose(c)
        /\ HandOf(d) = ToClose(d)
    BY <1>1, <1>6, <1>7, <2>1, Hands
  <2>3. InHand(u)' = HandOf(d) /\ \A v \in Users : v # u => InHand(v)' = InHand(v)
    BY <1>5, HandsAfter DEF d
  <2>4. QED
    BY <1>1, <1>4, <1>7, <2>2, <2>3
<1>9. x \in Fds
  BY <1>8 DEF IoInv, Shares
<1>10. /\ table' \in [Fds -> SUBSET (Makers \cup Settings)] /\ table'[x] = {}
       /\ \A e \in Fds : e # x => table'[e] = table[e]
  <2>1. table \in [Fds -> SUBSET (Makers \cup Settings)]
    BY DEF IoInv, IoTypes
  <2>2. QED
    BY <1>3, <1>9, <2>1
<1>11. Shares'
  BY <1>1, <1>8, <1>10, SharesClosed DEF IoInv
<1>12. ~Working(d)
  BY <1>7, PhaseWord DEF Failing
<1>13. WordOf(call[u])'
  BY <1>12 DEF WordOf, Working, d
<1>14. Phase(call'[u])
  BY <1>5, <1>6, <1>7 DEF Phase, d
<1>15. /\ \A v \in Users : v # u => \A e \in InHand(v) : table'[e] = table[e]
       /\ \A v \in Users : \A h \in held[v] : table'[h.fd] = table[h.fd]
  <2>1. \A v \in Users : v # u => \A e \in InHand(v) : e \in Fds /\ e # x
    BY <1>8 DEF IoInv, Shares
  <2>2. \A v \in Users : \A h \in held[v] : h.fd \in Fds /\ h.fd # x
    BY <1>1, <1>8 DEF IoInv, Shares
  <2>3. QED
    BY <1>10, <2>1, <2>2
<1>16. QED
  BY <1>5, <1>10, <1>11, <1>13, <1>14, <1>15, Pieces

\* A caller is given what it asked for, or nothing because all was closed.
LEMMA ReturnKeeps ==
  ASSUME IoInv, NEW u \in Users, Return(u)
  PROVE  IoInv'
<1> DEFINE c == call[u]
           G == IF c.failed THEN {}
                ELSE { [fd |-> c.fds[k], fn |-> c.fn, flags |-> c.flags] : k \in DOMAIN c.fds }
<1>1. /\ c \in CallSet /\ Phase(c) /\ WordOf(c) /\ c.left \in Seq(StepSet)
      /\ c.fds \in Seq(Fds) /\ InHand(u) = HandOf(c)
      /\ \A v \in Users : \A h \in held[v] : h.fd \in Fds
  BY CallIs
<1>2. /\ c # Idle /\ c.left = << >> /\ table' = table /\ call' = [call EXCEPT ![u] = Idle]
      /\ held' = [held EXCEPT ![u] = IF c.failed THEN @ ELSE @ \cup
                    { [fd |-> c.fds[k], fn |-> c.fn, flags |-> c.flags] : k \in DOMAIN c.fds }]
  BY DEF Return
<1>3. /\ held'[u] = held[u] \cup G
      /\ \A v \in Users : v # u => held'[v] = held[v]
      /\ \A v \in Users : v # u => call'[v] = call[v]
      /\ call'[u] = Idle
  <2>1. call \in [Users -> CallSet] /\ held \in [Users -> SUBSET HeldSet]
    BY DEF IoInv, IoTypes
  <2>2. QED
    BY <1>2, <2>1
<1>4. c.fn \in Functions /\ (Working(c) \/ Failing(c))
  <2>1. Len(<< >>) = 0 /\ ~(0 >= 1) /\ ~(0 >= 2)
    OBVIOUS
  <2>2. ~Checking(c) /\ ~Making(c)
    BY <1>2, <2>1 DEF Checking, Making, Plan
  <2>3. QED
    BY <1>1, <1>2, <2>2 DEF Phase
<1>5. Idle \in CallSet /\ Idle.left \in Seq(StepSet) /\ Idle.fds \in Seq(Fds)
  <2>1. << >> \in Seq(StepSet) /\ << >> \in Seq(Fds)
    BY EmptySeq
  <2>2. QED
    BY <2>1 DEF CallSet, Idle, FlagSet
<1>6. InHand(u)' = {} /\ \A v \in Users : v # u => InHand(v)' = InHand(v)
  <2>1. HandOf(Idle) = {}
    BY <1>5, Hands
  <2>2. QED
    BY <1>3, <2>1, HandsAfter
<1> HIDE DEF c
<1>7. /\ { g.fd : g \in G } = InHand(u) /\ \A g, h \in G : g.fd = h.fd => g = h
      /\ G \subseteq HeldSet /\ \A g \in G : Asked(table[g.fd], g.fn, g.flags)
  <2>1. CASE Working(c)
    <3>1. ~c.failed
      BY <2>1 DEF Working
    <3>2. DOMAIN c.fds = 1 .. Len(c.fds) /\ \A k \in 1 .. Len(c.fds) : c.fds[k] \in Fds
      BY <1>1, LenProperties, ElementOfSeq
    <3>3. G = { [fd |-> c.fds[k], fn |-> c.fn, flags |-> c.flags] : k \in 1 .. Len(c.fds) }
      BY <3>1, <3>2
    <3>4. c.flags \in FlagSet
      BY <1>1 DEF CallSet
    <3>5. InHand(u) = Made(c)
      BY <1>1, <2>1, Hands
    <3>6. \A k \in 1 .. Len(c.fds) : Asked(table[c.fds[k]], c.fn, c.flags)
      <4>1. \A k : Over(<< >>, k) = {}
        <5>1. Len(<< >>) = 0 /\ 1 .. 0 = {}
          OBVIOUS
        <5>2. QED
          BY <5>1 DEF Over
      <4>2. ASSUME NEW k \in 1 .. Len(c.fds)
            PROVE  Asked(table[c.fds[k]], c.fn, c.flags)
        <5>1. Asked(table[c.fds[k]] \cup Over(c.left, k), c.fn, c.flags)
          BY <1>1, <1>4, <2>1 DEF WordOf
        <5>2. table[c.fds[k]] \cup Over(c.left, k) = table[c.fds[k]]
          BY <1>2, <4>1 DEF c
        <5>3. QED
          BY <5>1, <5>2
      <4>3. QED
        BY <4>2
    <3> HIDE DEF G
    <3>7. \A g \in G : \E k \in 1 .. Len(c.fds) :
            /\ g = [fd |-> c.fds[k], fn |-> c.fn, flags |-> c.flags]
            /\ g.fd = c.fds[k] /\ g.fn = c.fn /\ g.flags = c.flags
      BY <3>3
    <3>8. ASSUME NEW k \in 1 .. Len(c.fds)
          PROVE  \E g \in G : g.fd = c.fds[k]
      <4>1. [fd |-> c.fds[k], fn |-> c.fn, flags |-> c.flags] \in G
        BY <3>3
      <4>2. [fd |-> c.fds[k], fn |-> c.fn, flags |-> c.flags].fd = c.fds[k]
        OBVIOUS
      <4>3. QED
        BY <4>1, <4>2
    <3>9. { g.fd : g \in G } = InHand(u)
      BY <3>5, <3>7, <3>8 DEF Made
    <3>10. \A g, h \in G : g.fd = h.fd => g = h
      BY <3>7
    <3>11. G \subseteq HeldSet
      BY <1>4, <3>2, <3>4, <3>7 DEF HeldSet
    <3>12. \A g \in G : Asked(table[g.fd], g.fn, g.flags)
      BY <3>6, <3>7
    <3>13. QED
      BY <3>9, <3>10, <3>11, <3>12
  <2>2. CASE Failing(c)
    <3>1. G = {}
      BY <2>2 DEF Failing
    <3>2. InHand(u) = ToClose(c)
      BY <1>1, <2>2, Hands
    <3>3. Len(c.left) = 0 /\ 1 .. 0 = {}
      <4>1. c.left = << >>
        BY <1>2 DEF c
      <4>2. QED
        BY <4>1
    <3>4. InHand(u) = {}
      BY <3>2, <3>3 DEF ToClose
    <3>5. QED
      BY <3>1, <3>4
  <2>3. QED
    BY <1>4, <2>1, <2>2
<1> HIDE DEF G
<1>8. Shares'
  <2>1. Shares /\ table' = table
    BY <1>2 DEF IoInv
  <2>2. held'[u] = held[u] \cup G /\ \A v \in Users : v # u => held'[v] = held[v]
    BY <1>3
  <2>3. { g.fd : g \in G } = InHand(u) /\ \A g, h \in G : g.fd = h.fd => g = h
    BY <1>7
  <2> QED
    BY <1>6, <2>1, <2>2, <2>3, SharesReturned
<1>9. IoTypes'
  <2>1. call' \in [Users -> CallSet]
    BY <1>2, <1>5 DEF IoInv, IoTypes
  <2>2. held \in [Users -> SUBSET HeldSet] /\ DOMAIN held' = Users
    BY <1>2 DEF IoInv, IoTypes
  <2>3. held' \in [Users -> SUBSET HeldSet]
    <3>1. \A v \in Users : held'[v] \in SUBSET HeldSet
      BY <1>3, <1>7, <2>2
    <3>2. held' = [v \in Users |-> held'[v]]
      BY <1>2, <2>2
    <3>3. QED
      BY <3>1, <3>2
  <2>4. QED
    BY <1>2, <2>1, <2>3 DEF IoInv, IoTypes
<1>10. \A v \in Users : Phase(call'[v])
  BY <1>3 DEF IoInv, Phase
<1>11. (\A v \in Users : Phase(call[v]))'
  BY <1>10 DEF Phase, Checking, Making, Working, Failing
<1>12. \A v \in Users : WordOf(call[v])'
  <2>1. \A v \in Users : v # u => WordOf(call[v])'
    BY <1>2, <1>3, WordsOfOthers
  <2>2. Idle.fds = << >>
    BY DEF Idle
  <2>3. ~Working(Idle)
    BY <2>2, PhaseWord
  <2>4. WordOf(call[u])'
    BY <1>3, <2>3 DEF WordOf, Working
  <2>5. QED
    BY <2>1, <2>4
<1>13. \A v \in Users : \A h \in held'[v] : Asked(table'[h.fd], h.fn, h.flags)
  <2>1. \A v \in Users : \A h \in held[v] : Asked(table[h.fd], h.fn, h.flags)
    BY DEF IoInv, KeepsWord
  <2>2. \A v \in Users : \A h \in held'[v] : h \in held[v] \/ h \in G
    BY <1>3
  <2>3. QED
    BY <1>2, <1>7, <2>1, <2>2
<1>14. KeepsWord'
  BY <1>12, <1>13 DEF KeepsWord
<1>15. QED
  BY <1>8, <1>9, <1>11, <1>14 DEF IoInv

LEMMA CloseKeeps ==
  ASSUME IoInv, NEW u \in Users, Close(u)
  PROVE  IoInv'
<1>1. PICK x \in held[u] : /\ held' = [held EXCEPT ![u] = @ \ { x }]
                           /\ table' = [table EXCEPT ![x.fd] = {}]
  BY DEF Close
<1>2. call[u] = Idle /\ call' = call
  BY DEF Close
<1>3. /\ table \in [Fds -> SUBSET (Makers \cup Settings)] /\ call \in [Users -> CallSet]
      /\ held \in [Users -> SUBSET HeldSet]
      /\ \A v \in Users : \A h \in held[v] : h.fd \in Fds
  BY CallIs DEF IoInv, IoTypes
<1>4. /\ held'[u] = held[u] \ { x } /\ \A v \in Users : v # u => held'[v] = held[v]
      /\ held' \in [Users -> SUBSET HeldSet]
  BY <1>1, <1>3
<1>5. x.fd \in Fds
  BY <1>3
<1>6. /\ table'[x.fd] = {} /\ \A d \in Fds : d # x.fd => table'[d] = table[d]
      /\ table' \in [Fds -> SUBSET (Makers \cup Settings)]
  BY <1>1, <1>3, <1>5
<1>7. \A v \in Users : InHand(v)' = InHand(v)
  BY <1>2 DEF InHand
<1>8. Shares'
  BY <1>3, <1>4, <1>6, <1>7, SharesGivenUp DEF IoInv
<1>9. IoTypes'
  BY <1>2, <1>3, <1>4, <1>6 DEF IoTypes
<1>10. (\A v \in Users : Phase(call[v]))'
  <2>1. \A v \in Users : Phase(call'[v])
    BY <1>2 DEF IoInv
  <2>2. QED
    BY <2>1 DEF Phase, Checking, Making, Working, Failing
<1>11. \A v \in Users : WordOf(call[v])'
  <2>1. \A v \in Users : \A d \in InHand(v) : d \in Fds /\ d # x.fd
    BY DEF IoInv, Shares
  <2>2. \A v \in Users : v # u => WordOf(call[v])'
    BY <1>2, <1>6, <2>1, WordsOfOthers
  <2>3. Idle.fds = << >>
    BY DEF Idle
  <2>4. ~Working(Idle)
    BY <2>3, PhaseWord
  <2>5. WordOf(call[u])'
    BY <1>2, <2>4 DEF WordOf, Working
  <2>6. QED
    BY <2>2, <2>5
<1>12. \A v \in Users : \A h \in held'[v] : Asked(table'[h.fd], h.fn, h.flags)
  <2>1. \A v \in Users : held'[v] \subseteq held[v]
    BY <1>4
  <2>2. \A v \in Users : \A h \in held'[v] : h \in held[v] /\ h.fd # x.fd
    BY <1>4 DEF IoInv, Shares
  <2>3. \A v \in Users : \A h \in held'[v] : table'[h.fd] = table[h.fd]
    BY <1>3, <1>6, <2>2
  <2>4. QED
    BY <2>1, <2>3, WordsOfCallers
<1>13. KeepsWord'
  BY <1>11, <1>12 DEF KeepsWord
<1>14. QED
  BY <1>8, <1>9, <1>10, <1>13 DEF IoInv

LEMMA IoBegins == IoInit => IoInv
<1> SUFFICES ASSUME IoInit PROVE IoInv
  OBVIOUS
<1>1. /\ table = [d \in Fds |-> {}] /\ call = [u \in Users |-> Idle]
      /\ held = [u \in Users |-> {}]
  BY DEF IoInit
<1>2. << >> \in Seq(StepSet) /\ << >> \in Seq(Fds)
  BY EmptySeq
<1>3. /\ Idle \in CallSet /\ Idle.left \in Seq(StepSet) /\ Idle.fds \in Seq(Fds)
      /\ Idle.fds = << >> /\ Idle.fn = "none"
  BY <1>2 DEF CallSet, Idle, FlagSet
<1>4. IoTypes
  BY <1>1, <1>3 DEF IoTypes
<1>5. \A u \in Users : Phase(call[u])
  BY <1>1 DEF Phase
<1>6. \A u \in Users : InHand(u) = {}
  BY <1>1, <1>3, InHandOfCall, Hands
<1>7. Shares
  BY <1>1, <1>6 DEF Shares
<1>8. KeepsWord
  <2>1. "none" \notin Functions
    BY DEF Functions
  <2>2. QED
    BY <1>1, <1>3, <2>1 DEF KeepsWord, WordOf
<1>9. QED
  BY <1>4, <1>5, <1>7, <1>8 DEF IoInv

LEMMA IoStays == IoInv /\ UNCHANGED ioVars => IoInv'
<1> SUFFICES ASSUME IoInv, UNCHANGED ioVars PROVE IoInv'
  OBVIOUS
<1>1. table' = table /\ call' = call /\ held' = held
  BY DEF ioVars
<1>2. IoTypes'
  BY <1>1 DEF IoInv, IoTypes
<1>3. \A u \in Users : InHand(u)' = InHand(u)
  BY <1>1 DEF InHand
<1>4. Shares'
  BY <1>1, <1>3 DEF IoInv, Shares
<1>5. (\A v \in Users : Phase(call[v]))'
  <2>1. \A v \in Users : Phase(call'[v])
    BY <1>1 DEF IoInv
  <2>2. QED
    BY <2>1 DEF Phase, Checking, Making, Working, Failing
<1>6. \A v \in Users : WordOf(call[v])'
  BY <1>1 DEF IoInv, KeepsWord, WordOf, Working
<1>7. KeepsWord'
  BY <1>1, <1>6 DEF IoInv, KeepsWord
<1>8. QED
  BY <1>2, <1>4, <1>5, <1>7 DEF IoInv

LEMMA IoGoesOn == IoInv /\ [IoNext]_ioVars => IoInv'
<1> SUFFICES ASSUME IoInv, IoNext PROVE IoInv'
  BY IoStays
<1>1. PICK u \in Users :
        \/ \E fn \in Uses[u] : \E flags \in FlagsOf(fn) : Enter(u, fn, flags)
        \/ SystemCall(u) \/ Return(u) \/ Close(u)
  BY DEF IoNext
<1>2. CASE \E fn \in Uses[u] : \E flags \in FlagsOf(fn) : Enter(u, fn, flags)
  BY <1>2, EnterKeeps, AsyncIoAssumption
<1>3. CASE SystemCall(u)
  <2>1. call[u].left # << >> /\ UNCHANGED held
    BY <1>3 DEF SystemCall
  <2>2. Pass(u) \/ Make(u) \/ Apply(u) \/ Fail(u) \/ CleanUpStep(u)
    BY <1>3 DEF SystemCall
  <2>3. CASE Pass(u)
    BY <2>1, <2>3, PassKeeps
  <2>4. CASE Make(u)
    BY <2>1, <2>4, MakeKeeps
  <2>5. CASE Apply(u)
    BY <2>1, <2>5, ApplyKeeps
  <2>6. CASE Fail(u)
    BY <2>1, <2>6, FailKeeps
  <2>7. CASE CleanUpStep(u)
    BY <2>1, <2>7, CleanUpKeeps
  <2>8. QED
    BY <2>2, <2>3, <2>4, <2>5, <2>6, <2>7
<1>4. CASE Return(u)
  BY <1>4, ReturnKeeps
<1>5. CASE Close(u)
  BY <1>5, CloseKeeps
<1>6. QED
  BY <1>1, <1>2, <1>3, <1>4, <1>5

\* A descriptor that is open has one owner, and one that is not has none.
LEMMA SharesOneOwner == Shares => OneOwner
<1> SUFFICES ASSUME Shares, NEW d \in Fds
             PROVE  Cardinality(Owners(d)) = IF table[d] = {} THEN 0 ELSE 1
  BY DEF OneOwner
<1>1. ASSUME NEW o
      PROVE  o \in Owners(d) <=>
               \E u \in Users : \/ d \in InHand(u) /\ o = << u, "call" >>
                                \/ \E h \in held[u] : h.fd = d /\ o = << u, h >>
  BY DEF Owners
<1>2. CASE table[d] = {}
  <2>1. \A u \in Users : d \notin InHand(u) /\ \A h \in held[u] : h.fd # d
    BY <1>2 DEF Shares
  <2>2. Owners(d) = {}
    BY <1>1, <2>1
  <2>3. QED
    BY <1>2, <2>2, FS_EmptySet
<1>3. CASE table[d] # {}
  <2>1. PICK u \in Users : d \in InHand(u) \/ \E h \in held[u] : h.fd = d
    BY <1>3 DEF Shares
  <2>2. \E o : Owners(d) = { o }
    <3>1. CASE d \in InHand(u)
      <4>1. \A v \in Users : (d \in InHand(v) => v = u) /\ \A h \in held[v] : h.fd # d
        BY <3>1 DEF Shares
      <4>2. Owners(d) = { << u, "call" >> }
        BY <1>1, <3>1, <4>1
      <4>3. QED
        BY <4>2
    <3>2. CASE \E h \in held[u] : h.fd = d
      <4>1. PICK h \in held[u] : h.fd = d
        BY <3>2
      <4>2. \A v \in Users : d \notin InHand(v) /\ \A g \in held[v] : g.fd = d => v = u /\ g = h
        BY <4>1 DEF Shares
      <4>3. Owners(d) = { << u, h >> }
        BY <1>1, <4>1, <4>2
      <4>4. QED
        BY <4>3
    <3>3. QED
      BY <2>1, <3>1, <3>2
  <2>3. QED
    BY <1>3, <2>2, FS_Singleton
<1>4. QED
  BY <1>2, <1>3

\* What was asked for shows in what the system knows of an open descriptor.
LEMMA WordIsAsAsked == IoInv => AsAsked
<1> SUFFICES ASSUME IoInv PROVE AsAsked
  OBVIOUS
<1>1. \A u \in Users : \A h \in held[u] :
        table[h.fd] # {} /\ Asked(table[h.fd], h.fn, h.flags)
  BY DEF IoInv, KeepsWord, Shares
<1>2. \A u \in Users : \A h \in held[u] : \A flag :
        State3(h.fd, flag) = IF flag \in table[h.fd] THEN 1 ELSE 0
  BY <1>1 DEF State3
<1>3. QED
  BY <1>1, <1>2 DEF AsAsked, Asked, Is

-----------------------------------------------------------------------------
(* AsyncEvent, LogHandle and the traversal: what each has at every point.  *)

\* The members know of all that is acquired, until the destructor has freed it.
SetupInv ==
  /\ loop = "new" => members = {}
  /\ loop = "ready" => members = First(Len(Resources))
  /\ acquired \subseteq members /\ (loop = "gone" => acquired = {})

LEMMA SetupGoesOn ==
  /\ SetupInit => SetupInv
  /\ SetupInv /\ [SetupNext]_setupVars => SetupInv'
<1>1. SetupInit => SetupInv
  BY DEF SetupInit, SetupInv
<1>2. ASSUME SetupInv, NEW e \in SizeHints, NEW t \in SizeHints, initialize(e, t)
      PROVE  SetupInv'
  <2>1. PICK done \in 0 .. Len(Resources) :
          /\ members' = First(done) /\ acquired' = acquired \cup First(done)
          /\ loop' = IF done = Len(Resources) THEN "ready" ELSE "failed"
    BY <1>2 DEF initialize
  <2>2. acquired = {}
    BY <1>2 DEF initialize, SetupInv
  <2>3. loop' \notin { "new", "gone" } /\ (loop' = "ready" => done = Len(Resources))
    BY <2>1
  <2>4. QED
    BY <2>1, <2>2, <2>3 DEF SetupInv
<1>3. SetupInv /\ destroyLoop => SetupInv'
  BY DEF SetupInv, destroyLoop
<1>4. SetupInv /\ UNCHANGED setupVars => SetupInv'
  BY DEF SetupInv, setupVars
<1>5. QED
  BY <1>1, <1>2, <1>3, <1>4 DEF SetupNext

\* Open is at most the socket and allocated at most the handle and the buffer that the handle
\* knows of.
HandleInv ==
  /\ buffer_ \in BOOLEAN /\ (handle = "none" => ~buffer_)
  /\ handle # "made" => sockets = {} /\ heap = {}
  /\ handle = "made" => conn_fd_
  /\ sockets \subseteq { "conn" }
  /\ heap \subseteq { "handle" } \cup IF buffer_ THEN { "buffer" } ELSE {}

LEMMA HandleGoesOn ==
  /\ HandleInit => HandleInv
  /\ HandleInv /\ [HandleNext]_handleVars => HandleInv'
<1>1. HandleInit => HandleInv
  BY DEF HandleInit, HandleInv
<1>2. ASSUME HandleInv, NEW identity, NEW level, createConnection(identity, level)
      PROVE  HandleInv'
  <2>1. ~buffer_ /\ sockets = {} /\ heap = {} /\ handle = "none" /\ buffer_' = buffer_
    BY <1>2 DEF HandleInv, createConnection
  <2>2. \/ /\ handle' = "made" /\ conn_fd_' = TRUE
           /\ sockets' = sockets \cup { "conn" } /\ heap' = heap \cup { "handle" }
        \/ /\ sockets' = sockets \/ sockets' = Closed(sockets \cup { "conn" })
           /\ UNCHANGED << handle, conn_fd_, heap >>
    BY <1>2 DEF createConnection
  <2>3. Closed(sockets \cup { "conn" }) = {}
    BY <2>1 DEF Closed
  <2>4. CASE /\ handle' = "made" /\ conn_fd_' = TRUE
             /\ sockets' = sockets \cup { "conn" } /\ heap' = heap \cup { "handle" }
    <3>1. /\ sockets' = { "conn" } /\ heap' = { "handle" } /\ ~buffer_'
          /\ handle' # "none" /\ conn_fd_' /\ buffer_' \in BOOLEAN
      BY <1>2, <2>1, <2>4 DEF HandleInv
    <3>2. QED
      BY <2>4, <3>1 DEF HandleInv
  <2>5. CASE /\ sockets' = sockets \/ sockets' = Closed(sockets \cup { "conn" })
             /\ UNCHANGED << handle, conn_fd_, heap >>
    <3>1. /\ sockets' = {} /\ heap' = {} /\ handle' = "none" /\ handle' # "made"
      BY <2>1, <2>3, <2>5
    <3>2. ~buffer_' /\ buffer_' \in BOOLEAN
      BY <1>2, <2>1 DEF HandleInv
    <3>3. QED
      BY <3>1, <3>2 DEF HandleInv
  <2>6. QED
    BY <2>2, <2>4, <2>5
<1>3. ASSUME HandleInv, NEW level, setLogLevel(level)
      PROVE  HandleInv'
  BY <1>3 DEF HandleInv, setLogLevel
<1>4. ASSUME HandleInv, NEW level, NEW text, log(level, text)
      PROVE  HandleInv'
  <2>1. handle = "made" /\ UNCHANGED << handle, conn_fd_, sockets >>
    BY <1>4 DEF log
  <2>2. \/ UNCHANGED << buffer_, heap >>
        \/ buffer_' = TRUE /\ heap' = heap \cup { "buffer" }
    BY <1>4 DEF log
  <2>3. QED
    BY <1>4, <2>1, <2>2 DEF HandleInv
<1>5. ASSUME HandleInv, NEW level, NEW text, writeLogMessage(level, text)
      PROVE  HandleInv'
  <2>1. UNCHANGED << handle, conn_fd_, buffer_, sockets, heap >>
    BY <1>5 DEF writeLogMessage
  <2>2. QED
    BY <1>5, <2>1 DEF HandleInv
<1>6. HandleInv /\ deleteHandle => HandleInv'
  BY DEF HandleInv, deleteHandle
<1>7. HandleInv /\ UNCHANGED handleVars => HandleInv'
  BY DEF HandleInv, handleVars
<1>8. QED
  BY <1>1, <1>2, <1>3, <1>4, <1>5, <1>6, <1>7 DEF HandleNext

LEMMA TreeGoesOn ==
  /\ TreeInit => StreamClosed
  /\ StreamClosed /\ [TreeNext]_treeVars => StreamClosed'
<1>1. TreeInit => StreamClosed
  BY DEF TreeInit, StreamClosed
<1>2. StreamClosed /\ opendir => StreamClosed'
  BY DEF StreamClosed, opendir
<1>3. readdir => where' \notin { "call", "back" }
  BY DEF readdir
<1>4. lookAt => where' \notin { "call", "back" }
  <2>1. lookAt => where' = IF rc' = 0 THEN "read" ELSE "end"
    BY DEF lookAt
  <2>2. QED
    BY <2>1
<1>5. closedir => ~stream'
  BY DEF closedir
<1>6. lookOutside => where' \notin { "call", "back" }
  BY DEF lookOutside
<1>7. StreamClosed /\ remove => StreamClosed'
  BY DEF StreamClosed, remove
<1>8. StreamClosed /\ UNCHANGED treeVars => StreamClosed'
  BY DEF StreamClosed, treeVars
<1>9. QED
  BY <1>1, <1>2, <1>3, <1>4, <1>5, <1>6, <1>7, <1>8 DEF TreeNext, StreamClosed

\* What the buffer holds of the folder while its entries are looked at, if there is room for
\* its separator.
InBuffer ==
  /\ dir_path \in Folders
  /\ entry_path \in [1 .. EntrySize -> PathChars \cup { NUL }]
  /\ where \in { "read", "look" } =>
       /\ used = Len(Separated(dir_path))
       /\ used < EntrySize =>
            \A k \in 1 .. Len(Separated(dir_path)) : entry_path[k] = Separated(dir_path)[k]
  /\ where = "outside" => Len(Separated(dir_path)) >= EntrySize

VisitedEntries == { v.entry : v \in visited }

\* The entry that was read and is yet to be looked at.
InSight == IF where \in { "look", "outside" } THEN { entry } ELSE {}

\* While no fault was found, the callback was given what readdir_r() returned.
SoFar ==
  /\ where \in { "call", "read", "look", "end", "back", "outside" }
  /\ unread \subseteq Entries
  /\ where = "look" => entry \in Entries \ (unread \cup Dots)
  /\ where \in { "call", "read", "look" } => rc = 0
  /\ where = "call" => unread = Entries
  /\ rc = 0 => VisitedEntries = Entries \ (Dots \cup unread \cup InSight)
  /\ where \in { "end", "back" } /\ rc = 0 /\ ~cutShort => unread = {}

\* Each entry was visited under its path, if that fits.
UnderPath ==
  \A v \in visited :
    v.entry \notin Dots /\ (Fits(v.entry) => v.path = Slash(dir_path) \o v.entry)

TreeInv == StreamClosed /\ InBuffer /\ SoFar /\ UnderPath

LEMMA FoldersAre ==
  ASSUME NEW d \in Folders
  PROVE  /\ EntrySize \in Nat /\ d \in Seq(PathChars) /\ Len(d) < EntrySize
         /\ Separated(d) \in Seq(PathChars) /\ Len(Separated(d)) \in 1 .. EntrySize
         /\ Slash(d) = Separated(d)
<1>1. EntrySize \in Nat /\ d \in Seq(PathChars) /\ Len(d) < EntrySize
  BY FileTreeAssumption DEF PathChars
<1>2. Len(Separated(d)) > 0 /\ Len(Separated(d)) <= Len(d) + 1 /\ Separated(d) \in Seq(PathChars)
  BY <1>1, SeparatedIs
<1>3. Append(d, "/") = d \o << "/" >> /\ d \o << >> = d
  <2>1. "/" \in PathChars
    BY DEF PathChars, NUL
  <2> QED
    BY <1>1, <2>1
<1> QED
  BY <1>1, <1>2, <1>3 DEF Slash, Separated

\* The buffer for the next entry holds its path, as far as that fits.
LEMMA PathOfIs ==
  ASSUME InBuffer, where = "look", used < EntrySize, NEW e \in Entries
  PROVE  /\ Holds(PathOf(entry_path, used, e), EntrySize, PathChars,
                  Separated(dir_path) \o Fitting(e, EntrySize - used))
         /\ Text(PathOf(entry_path, used, e))
              = Separated(dir_path) \o Fitting(e, EntrySize - used)
<1> DEFINE p == Separated(dir_path)
           clipped == [entry_path EXCEPT ![Len(p) + 1] = NUL]
<1>1. /\ dir_path \in Folders /\ used = Len(p)
      /\ entry_path \in [1 .. EntrySize -> PathChars \cup { NUL }]
      /\ \A k \in 1 .. Len(p) : entry_path[k] = p[k]
  BY DEF InBuffer
<1>2. EntrySize \in Nat /\ p \in Seq(PathChars) /\ Len(p) < EntrySize
  BY <1>1, FoldersAre
<1>3. e \in Seq(PathChars) /\ NUL \notin PathChars
  BY FileTreeAssumption DEF PathChars
<1> HIDE DEF p
<1>4. Holds(clipped, EntrySize, PathChars, p)
  BY <1>1, <1>2, CutHolds
<1> HIDE DEF clipped
<1>5. Holds(strlcat(clipped, e, EntrySize).buf, EntrySize, PathChars,
            p \o Fitting(e, EntrySize - Len(p)))
  BY <1>2, <1>3, <1>4, StrlcatHolds
<1>6. PathOf(entry_path, used, e) = strlcat(clipped, e, EntrySize).buf
  BY <1>1 DEF PathOf, clipped
<1>7. Holds(PathOf(entry_path, used, e), EntrySize, PathChars,
            p \o Fitting(e, EntrySize - used))
  BY <1>1, <1>5, <1>6
<1>8. Text(PathOf(entry_path, used, e)) = p \o Fitting(e, EntrySize - used)
  <2> DEFINE buf == PathOf(entry_path, used, e)
             path == p \o Fitting(e, EntrySize - used)
  <2>1. Holds(buf, EntrySize, PathChars, path)
    BY <1>7
  <2>2. EntrySize \in Nat /\ NUL \notin PathChars
    BY <1>2, <1>3
  <2> HIDE DEF buf, path
  <2>3. Text(buf) = path
    BY <2>1, <2>2, HeldIs
  <2> QED
    BY <2>3 DEF buf, path
<1> QED
  BY <1>7, <1>8 DEF p

LEMMA TreeBegins == TreeInit => TreeInv
<1> SUFFICES ASSUME TreeInit PROVE TreeInv
  OBVIOUS
<1>1. StreamClosed /\ UnderPath
  BY DEF TreeInit, StreamClosed, UnderPath
<1>2. InBuffer
  BY DEF TreeInit, InBuffer
<1>3. VisitedEntries = {} /\ InSight = {}
  BY DEF TreeInit, VisitedEntries, InSight
<1>4. SoFar
  BY <1>3 DEF TreeInit, SoFar
<1> QED
  BY <1>1, <1>2, <1>4 DEF TreeInv

LEMMA BufferGoesOn == InBuffer /\ SoFar /\ [TreeNext]_treeVars => InBuffer'
<1> SUFFICES ASSUME InBuffer, SoFar, [TreeNext]_treeVars PROVE InBuffer'
  OBVIOUS
<1>1. dir_path \in Folders /\ entry_path \in [1 .. EntrySize -> PathChars \cup { NUL }]
  BY DEF InBuffer
<1>2. EntrySize \in Nat /\ dir_path \in Seq(PathChars) /\ Len(dir_path) < EntrySize
  BY <1>1, FoldersAre
<1>3. ASSUME UNCHANGED << dir_path, entry_path, used >>,
             where' \in { "read", "look" } => where \in { "read", "look" },
             where' = "outside" => where = "outside"
      PROVE  InBuffer'
  BY <1>3 DEF InBuffer, Separated
<1>4. CASE opendir
  <2>1. dir_path' = dir_path
    BY <1>4 DEF opendir
  <2>2. CASE where' = "back" /\ UNCHANGED << stream, entry_path, used >>
    BY <1>3, <2>1, <2>2
  <2>3. ASSUME NEW full, entry_path' = full.buf, used' = full.ret,
               LET copy == strlcpy(entry_path, dir_path, EntrySize)
               IN  full = IF endsWith(Text(copy.buf), << "/" >>) THEN copy
                          ELSE strlcat(copy.buf, << "/" >>, EntrySize)
        PROVE  InBuffer'
    <3>1. /\ full.buf \in [1 .. EntrySize -> PathChars \cup { NUL }]
          /\ full.ret = Len(Separated(dir_path))
          /\ Len(Separated(dir_path)) < EntrySize
               => Holds(full.buf, EntrySize, PathChars, Separated(dir_path))
      BY <1>1, <1>2, <2>3, SeparatorHolds
    <3>2. full.ret < EntrySize =>
            \A k \in 1 .. Len(Separated(dir_path)) : full.buf[k] = Separated(dir_path)[k]
      BY <3>1 DEF Holds
    <3>3. where' # "outside"
      BY <1>4 DEF opendir
    <3> QED
      BY <1>1, <2>1, <2>3, <3>1, <3>2, <3>3 DEF InBuffer, Separated
  <2> QED
    BY <1>4, <2>2, <2>3 DEF opendir
<1>5. CASE readdir
  BY <1>3, <1>5 DEF readdir
<1>6. CASE lookAt
  <2>1. /\ where = "look" /\ entry_path' = PathOf(entry_path, used, entry)
        /\ UNCHANGED << dir_path, used >> /\ used < EntrySize /\ where' # "outside"
    BY <1>6 DEF lookAt
  <2>2. entry \in Entries
    BY <2>1 DEF SoFar
  <2> DEFINE p == Separated(dir_path)
             f == Fitting(entry, EntrySize - used)
  <2>3. Holds(entry_path', EntrySize, PathChars, p \o f)
    BY <2>1, <2>2, PathOfIs
  <2>4. p \in Seq(PathChars) /\ f \in Seq(PathChars)
    <3>1. used = Len(p) /\ EntrySize - used \in Nat \ {0} /\ p \in Seq(PathChars)
      BY <1>1, <2>1, FoldersAre DEF InBuffer
    <3>2. entry \in Seq(PathChars)
      BY <2>2, FileTreeAssumption DEF PathChars
    <3> QED
      BY <3>1, <3>2, FittingIs
  <2>5. used = Len(p)
    BY <2>1 DEF InBuffer
  <2> HIDE DEF p, f
  <2>6. \A k \in 1 .. Len(p) : k \in 1 .. Len(p \o f) /\ (p \o f)[k] = p[k]
    BY <2>4, Joined
  <2>7. /\ entry_path' \in [1 .. EntrySize -> PathChars \cup { NUL }]
        /\ \A k \in 1 .. Len(p) : entry_path'[k] = p[k]
    BY <2>3, <2>6 DEF Holds
  <2> QED
    BY <1>1, <2>1, <2>5, <2>7 DEF InBuffer, Separated, p
<1>7. CASE closedir
  BY <1>3, <1>7 DEF closedir
<1>8. CASE remove
  BY <1>3, <1>8 DEF remove
<1>9. CASE lookOutside
  <2>1. /\ where = "look" /\ used >= EntrySize /\ where' = "outside"
        /\ UNCHANGED << dir_path, entry_path, used >>
    BY <1>9 DEF lookOutside
  <2>2. Len(Separated(dir_path)) >= EntrySize
    BY <2>1 DEF InBuffer
  <2> QED
    BY <1>1, <2>1, <2>2 DEF InBuffer, Separated
<1>10. CASE UNCHANGED treeVars
  BY <1>3, <1>10 DEF treeVars
<1> QED
  BY <1>4, <1>5, <1>6, <1>7, <1>8, <1>9, <1>10 DEF TreeNext

LEMMA SoFarGoesOn == SoFar /\ [TreeNext]_treeVars => SoFar'
<1> SUFFICES ASSUME SoFar, [TreeNext]_treeVars PROVE SoFar'
  OBVIOUS
<1>1. CASE opendir
  BY <1>1 DEF opendir, SoFar, VisitedEntries, InSight
<1>2. CASE readdir
  <2>1. where = "read" /\ rc = 0 /\ rc' = rc /\ visited' = visited
    BY <1>2 DEF readdir, SoFar
  <2>2. VisitedEntries = Entries \ (Dots \cup unread) /\ VisitedEntries' = VisitedEntries
    BY <2>1 DEF SoFar, InSight, VisitedEntries
  <2>3. CASE /\ where' = "end" /\ unread' = unread
             /\ unread = {} \/ cutShort'
    BY <2>1, <2>2, <2>3 DEF SoFar, InSight
  <2>4. ASSUME NEW e \in unread, entry' = e, unread' = unread \ { e }, e \in Dots, where' = "read"
        PROVE  SoFar'
    BY <2>1, <2>2, <2>4 DEF SoFar, InSight
  <2>5. ASSUME NEW e \in unread, entry' = e, unread' = unread \ { e }, e \notin Dots,
               where' = "look"
        PROVE  SoFar'
    BY <2>1, <2>2, <2>5 DEF SoFar, InSight
  <2> QED
    BY <1>2, <2>3, <2>4, <2>5 DEF readdir
<1>3. CASE lookAt
  <2>1. /\ where = "look" /\ rc = 0 /\ entry \in Entries \ (unread \cup Dots)
        /\ UNCHANGED << unread, entry, cutShort >>
        /\ where' = IF rc' = 0 THEN "read" ELSE "end"
    BY <1>3 DEF lookAt, SoFar
  <2>2. VisitedEntries = Entries \ (Dots \cup unread \cup { entry })
    BY <2>1 DEF SoFar, InSight
  <2> DEFINE seen == [entry |-> entry, path |-> Text(PathOf(entry_path, used, entry))]
  <2>3. rc' = 0 => visited' = visited \cup { seen }
    BY <1>3 DEF lookAt
  <2>4. rc' = 0 => VisitedEntries' = VisitedEntries \cup { entry }
    <3>1. seen.entry = entry
      OBVIOUS
    <3> HIDE DEF seen
    <3> QED
      BY <2>3, <3>1 DEF VisitedEntries
  <2>5. CASE rc' = 0
    BY <2>1, <2>2, <2>4, <2>5 DEF SoFar, InSight
  <2>6. CASE rc' # 0
    BY <2>1, <2>6 DEF SoFar
  <2> QED
    BY <2>5, <2>6
<1>4. CASE closedir
  BY <1>4 DEF closedir, SoFar, VisitedEntries, InSight
<1>5. CASE remove
  BY <1>5 DEF remove, SoFar, VisitedEntries, InSight
<1>6. CASE lookOutside
  BY <1>6 DEF lookOutside, SoFar, VisitedEntries, InSight
<1>7. CASE UNCHANGED treeVars
  BY <1>7 DEF treeVars, SoFar, VisitedEntries, InSight
<1> QED
  BY <1>1, <1>2, <1>3, <1>4, <1>5, <1>6, <1>7 DEF TreeNext

LEMMA UnderPathGoesOn == InBuffer /\ SoFar /\ UnderPath /\ [TreeNext]_treeVars => UnderPath'
<1> SUFFICES ASSUME InBuffer, SoFar, UnderPath, [TreeNext]_treeVars PROVE UnderPath'
  OBVIOUS
<1>1. dir_path' = dir_path
  BY DEF TreeNext, opendir, readdir, lookOutside, lookAt, closedir, remove, treeVars
<1>2. CASE lookAt
  <2> DEFINE buf == PathOf(entry_path, used, entry)
             new == [entry |-> entry, path |-> Text(buf)]
  <2>1. where = "look" /\ used < EntrySize /\ visited' \subseteq visited \cup { new }
    BY <1>2 DEF lookAt
  <2>2. entry \in Entries \ Dots
    BY <2>1 DEF SoFar
  <2>3. Text(buf) = Separated(dir_path) \o Fitting(entry, EntrySize - used)
    BY <2>1, <2>2, PathOfIs
  <2>4. ASSUME Fits(entry) PROVE Text(buf) = Slash(dir_path) \o entry
    <3>1. /\ Slash(dir_path) = Separated(dir_path) /\ Len(Separated(dir_path)) \in Nat
          /\ EntrySize \in Nat /\ used = Len(Separated(dir_path))
      BY <2>1, FoldersAre DEF InBuffer
    <3>2. Len(entry) < EntrySize - used
      <4>1. Len(entry) \in Nat
        BY <2>2, FileTreeAssumption
      <4> QED
        BY <2>4, <3>1, <4>1 DEF Fits
    <3>3. Fitting(entry, EntrySize - used) = entry
      BY <3>2 DEF Fitting
    <3> QED
      BY <2>3, <3>1, <3>3
  <2>5. new.entry = entry /\ new.path = Text(buf)
    OBVIOUS
  <2> HIDE DEF buf, new
  <2>6. ASSUME NEW v \in visited'
        PROVE  v.entry \notin Dots /\ (Fits(v.entry) => v.path = Slash(dir_path) \o v.entry)
    BY <2>1, <2>2, <2>4, <2>5 DEF UnderPath
  <2> QED
    BY <1>1, <2>6 DEF UnderPath, Fits, Slash
<1>3. CASE ~lookAt
  <2>1. visited' = visited
    BY <1>3 DEF TreeNext, opendir, readdir, lookOutside, closedir, remove, treeVars
  <2> QED
    BY <1>1, <2>1 DEF UnderPath, Fits, Slash
<1> QED
  BY <1>2, <1>3

LEMMA TreeInvGoesOn == TreeInv /\ [TreeNext]_treeVars => TreeInv'
BY TreeGoesOn, BufferGoesOn, SoFarGoesOn, UnderPathGoesOn DEF TreeInv

\* What LinesExact says of the bytes of a line.
IsLine(bytes, size, limit, header, text) ==
  LET whole == header \o text
      n     == Len(bytes)
  IN  /\ n <= size /\ bytes[n] = Newline
      /\ Len(whole) < size => bytes = Append(whole, Newline) \/ bytes = whole
      /\ ~(Len(whole) < size) => bytes = Append(SubSeq(whole, 1, limit - 1), Newline)

\* The beginning of what was printed is the beginning of the text.
LEMMA PrintedIs ==
  ASSUME NEW S, NEW whole \in Seq(S), NEW size \in Nat, NEW n \in Nat,
         n < size, n <= Len(whole)
  PROVE  /\ SubSeq(Printed(size, whole), 1, n) = SubSeq(whole, 1, n)
         /\ SubSeq(whole, 1, n) \in Seq(S) /\ Len(SubSeq(whole, 1, n)) = n
<1> DEFINE buf == Printed(size, whole)
           B == S \cup { NUL, Garbage }
<1>1. buf = [k \in 1 .. size |-> IF k < size /\ k <= Len(whole) THEN whole[k]
                                 ELSE IF k = size \/ k = Len(whole) + 1 THEN NUL ELSE Garbage]
  BY DEF Printed
<1>2. Len(whole) \in Nat /\ \A k \in 1 .. Len(whole) : whole[k] \in S
  OBVIOUS
<1> HIDE DEF buf
<1>3. \A k \in 1 .. size :
        (IF k < size /\ k <= Len(whole) THEN whole[k]
         ELSE IF k = size \/ k = Len(whole) + 1 THEN NUL ELSE Garbage) \in B
  BY <1>2
<1> HIDE DEF B
<1>4. buf \in [1 .. size -> B]
  BY <1>1, <1>3
<1>5. buf \in Seq(B) /\ Len(buf) = size
  BY <1>4
<1>6. /\ SubSeq(buf, 1, n) \in Seq(B) /\ Len(SubSeq(buf, 1, n)) = n
      /\ \A k \in 1 .. n : SubSeq(buf, 1, n)[k] = buf[k]
  BY <1>5
<1>7. /\ SubSeq(whole, 1, n) \in Seq(S) /\ Len(SubSeq(whole, 1, n)) = n
      /\ \A k \in 1 .. n : SubSeq(whole, 1, n)[k] = whole[k]
  BY <1>2
<1>8. \A k \in 1 .. n : buf[k] = whole[k]
  BY <1>1, <1>2
<1>9. SubSeq(whole, 1, n) \in Seq(B)
  <2>1. S \subseteq B
    BY DEF B
  <2> QED
    BY <1>7, <2>1
<1>10. SubSeq(buf, 1, n) = SubSeq(whole, 1, n)
  BY <1>6, <1>7, <1>8, <1>9, SeqEqual
<1> QED
  BY <1>7, <1>10 DEF buf

\* A string and a newline, and the string without it again.
LEMMA WithNewline ==
  ASSUME NEW S, NEW s \in Seq(S)
  PROVE  /\ Len(Append(s, Newline)) = Len(s) + 1
         /\ Append(s, Newline)[Len(s) + 1] = Newline
         /\ SubSeq(Append(s, Newline), 1, Len(s)) = s
<1> DEFINE T == S \cup { Newline }
           t == Append(s, Newline)
<1>1. s \in Seq(T) /\ Newline \in T /\ Len(s) \in Nat
  OBVIOUS
<1> HIDE DEF T
<1>2. t \in Seq(T) /\ Len(t) = Len(s) + 1 /\ t[Len(s) + 1] = Newline
  BY <1>1
<1>3. \A k \in 1 .. Len(s) : t[k] = s[k]
  BY <1>1
<1> HIDE DEF t
<1>4. /\ SubSeq(t, 1, Len(s)) \in Seq(T) /\ Len(SubSeq(t, 1, Len(s))) = Len(s)
      /\ \A k \in 1 .. Len(s) : SubSeq(t, 1, Len(s))[k] = t[k]
  BY <1>1, <1>2
<1>5. SubSeq(t, 1, Len(s)) = s
  BY <1>1, <1>3, <1>4, SeqEqual
<1> QED
  BY <1>2, <1>5 DEF t

\* A line is one in spite of the two sizes, if a cut one is no longer than the buffer.
LEMMA LineIs ==
  ASSUME NEW S, NEW header \in Seq(S), Len(header) > 0, NEW text \in Seq(S),
         NEW size \in Nat, NEW limit \in 1 .. size
  PROVE  IsLine(Line(size, limit, header, text), size, limit, header, text)
<1> DEFINE whole == header \o text
           buf   == Printed(size, whole)
           len   == IF Len(text) >= size - Len(header) THEN limit - 1
                    ELSE Len(header) + Len(text)
           bytes == Line(size, limit, header, text)
           kept  == SubSeq(whole, 1, len)
<1>1. /\ whole \in Seq(S) /\ Len(whole) = Len(header) + Len(text)
      /\ Len(header) \in Nat /\ Len(text) \in Nat
  BY Joined
<1>2. bytes = IF len = limit - 1 \/ buf[len] # Newline
              THEN Append(SubSeq(buf, 1, len), Newline) ELSE SubSeq(buf, 1, len)
  BY DEF Line
<1>3. len = IF Len(whole) >= size THEN limit - 1 ELSE Len(whole)
  BY <1>1
<1> HIDE DEF whole, buf, len, bytes, kept
<1>4. len \in Nat /\ len < size /\ len <= Len(whole)
  BY <1>1, <1>3
<1>5. SubSeq(buf, 1, len) = kept /\ kept \in Seq(S) /\ Len(kept) = len
  BY <1>1, <1>4, PrintedIs DEF buf, kept
<1>6. ASSUME bytes = Append(kept, Newline)
      PROVE  IsLine(bytes, size, limit, header, text)
  <2>1. Len(bytes) = len + 1 /\ bytes[len + 1] = Newline /\ SubSeq(bytes, 1, len) = kept
    BY <1>5, <1>6, WithNewline
  <2>2. Len(whole) < size => kept = whole
    BY <1>1, <1>3 DEF kept
  <2>3. Len(bytes) <= size
    BY <1>4, <2>1
  <2>4. ~(Len(whole) < size) => kept = SubSeq(whole, 1, limit - 1)
    BY <1>1, <1>3 DEF kept
  <2> QED
    BY <1>6, <2>1, <2>2, <2>3, <2>4 DEF IsLine, whole
<1>7. ASSUME len # limit - 1, buf[len] = Newline, bytes = kept
      PROVE  IsLine(bytes, size, limit, header, text)
  <2>1. Len(whole) < size /\ len = Len(whole) /\ len > 0
    BY <1>1, <1>3, <1>7
  <2>2. kept = whole
    BY <1>1, <2>1 DEF kept
  <2>3. buf[len] = whole[len]
    BY <1>4, <2>1 DEF buf, Printed
  <2>4. Len(bytes) = len /\ Len(bytes) <= size /\ bytes[len] = Newline
    BY <1>4, <1>5, <1>7, <2>2, <2>3
  <2> QED
    BY <1>1, <1>7, <2>1, <2>2, <2>4 DEF IsLine, whole
<1> QED
  BY <1>2, <1>5, <1>6, <1>7 DEF bytes

LineBytes == PathChars \cup Int \cup { "[", "time", "]", "S" }

\* What the lines of a handle are made of.
LinesInv ==
  /\ identity_ \in Seq(PathChars) /\ Len(identity_) < IdentitySize
  /\ LinesExact

LEMMA LinesBegin == HandleInit => LinesInv
BY LogHandleAssumption DEF HandleInit, LinesInv, LinesExact

LEMMA HeaderIs ==
  ASSUME NEW level \in Int, NEW identity \in Seq(LineBytes)
  PROVE  /\ Header(level, identity) \in Seq(LineBytes)
         /\ Len(Header(level, identity)) = 4 + Len(identity)
<1> DEFINE a == << "[", "time", level >>
           b == << "]" >>
<1>1. a \in Seq(LineBytes) /\ Len(a) = 3 /\ b \in Seq(LineBytes) /\ Len(b) = 1
  BY DEF LineBytes
<1> HIDE DEF a, b
<1>2. a \o identity \in Seq(LineBytes) /\ Len(a \o identity) = 3 + Len(identity)
  <2>1. a \in Seq(LineBytes)
    BY <1>1
  <2>2. a \o identity \in Seq(LineBytes) /\ Len(a \o identity) = Len(a) + Len(identity)
    BY <2>1, Joined
  <2> QED
    BY <1>1, <2>2
<1>3. /\ (a \o identity) \o b \in Seq(LineBytes)
      /\ Len((a \o identity) \o b) = Len(a \o identity) + Len(b)
  <2>1. a \o identity \in Seq(LineBytes) /\ b \in Seq(LineBytes)
    BY <1>1, <1>2
  <2> QED
    BY <2>1, Joined
<1>4. Len(identity) \in Nat
  OBVIOUS
<1>5. Len((a \o identity) \o b) = 4 + Len(identity)
  BY <1>1, <1>2, <1>3, <1>4
<1> QED
  BY <1>3, <1>5 DEF Header, a, b

\* The beginning of a header is that of the line.
LEMMA HeadOf ==
  ASSUME NEW S, NEW a \in Seq(S), NEW b \in Seq(S), NEW n \in Nat, n <= Len(a)
  PROVE  SubSeq(a \o b, 1, n) = SubSeq(a, 1, n)
<1>1. /\ a \o b \in Seq(S) /\ Len(a \o b) >= n /\ Len(a) \in Nat
      /\ \A k \in 1 .. n : (a \o b)[k] = a[k]
  OBVIOUS
<1> DEFINE c == a \o b
<1>2. c \in Seq(S) /\ Len(c) >= n /\ \A k \in 1 .. n : c[k] = a[k]
  BY <1>1
<1> HIDE DEF c
<1>3. /\ SubSeq(c, 1, n) \in Seq(S) /\ Len(SubSeq(c, 1, n)) = n
      /\ \A k \in 1 .. n : SubSeq(c, 1, n)[k] = c[k]
  BY <1>2
<1>4. /\ SubSeq(a, 1, n) \in Seq(S) /\ Len(SubSeq(a, 1, n)) = n
      /\ \A k \in 1 .. n : SubSeq(a, 1, n)[k] = a[k]
  BY <1>1
<1>5. SubSeq(c, 1, n) = SubSeq(a, 1, n)
  BY <1>2, <1>3, <1>4, SeqEqual
<1> QED
  BY <1>5 DEF c

\* A message that was put after a header.
LEMMA LineWritten ==
  ASSUME NEW level \in Int, NEW text \in Texts, NEW identity \in Seq(LineBytes),
         NEW limit, NEW by,
         \/ by = "log" /\ limit = PointerSize /\ Len(identity) < IdentitySize
         \/ by = "server" /\ limit = BufferSize,
         line' = [by |-> by, level |-> level, text |-> text, header |-> Header(level, identity),
                  bytes |-> Line(BufferSize, limit, Header(level, identity), text)]
  PROVE  LinesExact'
<1>1. \/ by = "log" /\ limit = PointerSize
      \/ by = "server" /\ limit = BufferSize
  OBVIOUS
<1> DEFINE header == Header(level, identity)
           bytes  == Line(BufferSize, limit, header, text)
<1>2. header \in Seq(LineBytes) /\ Len(header) = 4 + Len(identity)
  BY HeaderIs
<1>3. text \in Seq(LineBytes)
  BY LogHandleAssumption DEF LineBytes, PathChars
<1>4. /\ BufferSize \in Nat /\ IdentitySize \in Nat /\ Len(identity) \in Nat
      /\ limit \in 1 .. BufferSize /\ (by = "log" => limit \in 1 .. 4)
  BY LogHandleAssumption
<1>5. /\ line'.by = by /\ line'.text = text /\ line'.header = header /\ line'.bytes = bytes
  OBVIOUS
<1> HIDE DEF header
<1>6. IsLine(bytes, BufferSize, limit, header, text)
  BY <1>2, <1>3, <1>4, LineIs
<1> HIDE DEF bytes
<1> DEFINE whole == header \o text
<1>7. by = "log" => SubSeq(whole, 1, limit - 1) = SubSeq(header, 1, limit - 1)
  <2> SUFFICES ASSUME by = "log" PROVE SubSeq(whole, 1, limit - 1) = SubSeq(header, 1, limit - 1)
    OBVIOUS
  <2>1. limit - 1 \in Nat /\ limit - 1 <= Len(header)
    BY <1>2, <1>4
  <2> QED
    BY <1>2, <1>3, <2>1, HeadOf
<1>8. by = "log" => Len(header) < 4 + IdentitySize
  BY <1>2, <1>4
<1>9. /\ Len(bytes) <= BufferSize /\ bytes[Len(bytes)] = Newline
      /\ Len(whole) < BufferSize => bytes = Append(whole, Newline) \/ bytes = whole
      /\ ~(Len(whole) < BufferSize) => bytes = Append(SubSeq(whole, 1, limit - 1), Newline)
  BY <1>6 DEF IsLine
<1> HIDE DEF whole
<1>10. /\ ~(Len(whole) < BufferSize) /\ by = "log"
            => bytes = Append(SubSeq(header, 1, PointerSize - 1), Newline)
       /\ ~(Len(whole) < BufferSize) /\ by = "server"
            => bytes = Append(SubSeq(whole, 1, BufferSize - 1), Newline)
  BY <1>7, <1>9, <1>1
<1> QED
  BY <1>5, <1>8, <1>9, <1>10 DEF LinesExact, whole

LEMMA LinesGoOn == LinesInv /\ [HandleNext]_handleVars => LinesInv'
<1> SUFFICES ASSUME LinesInv, [HandleNext]_handleVars PROVE LinesInv'
  OBVIOUS
<1>1. /\ identity_ \in Seq(LineBytes) /\ << "S" >> \in Seq(LineBytes)
      /\ Levels \subseteq Int /\ ERR \in Int
  <2>1. PathChars \subseteq LineBytes /\ "S" \in LineBytes
    BY DEF LineBytes
  <2>2. identity_ \in Seq(PathChars)
    BY DEF LinesInv
  <2>3. Levels \subseteq Int /\ ERR \in Int
    BY LogHandleAssumption DEF ERR
  <2> QED
    BY <2>1, <2>2, <2>3
<1>2. ASSUME UNCHANGED << identity_, line >> PROVE LinesInv'
  BY <1>2 DEF LinesInv, LinesExact
<1>3. ASSUME NEW level \in Int, NEW text \in Texts, ServerWrites(level, text),
              identity_' = identity_
       PROVE  LinesInv'
  <2>1. line' = [by |-> "server", level |-> level, text |-> text,
                 header |-> Header(level, << "S" >>),
                 bytes |-> Line(BufferSize, BufferSize, Header(level, << "S" >>), text)]
    BY <1>3 DEF ServerWrites
  <2>2. LinesExact'
    BY <1>1, <2>1, LineWritten
  <2> QED
    BY <1>3, <2>2 DEF LinesInv
<1>4. ASSUME NEW identity \in Identities, NEW level \in Levels, createConnection(identity, level)
      PROVE  LinesInv'
  <2> DEFINE zeros == [k \in 1 .. IdentitySize |-> NUL]
             kept  == Text(strlcpy(zeros, identity, IdentitySize).buf)
  <2>1. \/ UNCHANGED line /\ identity_' = kept
        \/ UNCHANGED identity_ /\ \E text \in Texts : ServerWrites(ERR, text)
    BY <1>4 DEF createConnection
  <2>2. /\ identity \in Seq(PathChars) /\ NUL \notin PathChars
        /\ IdentitySize \in Nat \ {0} /\ zeros \in [1 .. IdentitySize -> PathChars \cup { NUL }]
    BY LogHandleAssumption DEF PathChars
  <2> HIDE DEF zeros
  <2>3. Holds(strlcpy(zeros, identity, IdentitySize).buf, IdentitySize, PathChars,
              Fitting(identity, IdentitySize))
    BY <2>2, StrlcpyHolds
  <2>4. kept = Fitting(identity, IdentitySize)
    BY <2>2, <2>3, HeldIs
  <2>5. kept \in Seq(PathChars) /\ Len(kept) < IdentitySize
    BY <2>2, <2>3, <2>4 DEF Holds
  <2> HIDE DEF kept
  <2>6. UNCHANGED line /\ identity_' = kept => LinesInv'
    BY <2>5 DEF LinesInv, LinesExact
  <2> QED
    BY <1>1, <1>3, <2>1, <2>6
<1>5. ASSUME NEW level \in Levels, setLogLevel(level) PROVE LinesInv'
  BY <1>2, <1>5 DEF setLogLevel
<1>6. ASSUME NEW level \in Levels, NEW text \in Texts, log(level, text) PROVE LinesInv'
  <2>1. identity_' = identity_
    BY <1>6 DEF log
  <2>2. \/ UNCHANGED line
        \/ line' = [by |-> "log", level |-> level, text |-> text,
                    header |-> Header(level, identity_),
                    bytes |-> Line(BufferSize, PointerSize, Header(level, identity_), text)]
    BY <1>6 DEF log
  <2>3. CASE UNCHANGED line
    BY <1>2, <2>1, <2>3
  <2>4. CASE line' = [by |-> "log", level |-> level, text |-> text,
                      header |-> Header(level, identity_),
                      bytes |-> Line(BufferSize, PointerSize, Header(level, identity_), text)]
    <3>1. Len(identity_) < IdentitySize
      BY DEF LinesInv
    <3>2. LinesExact'
      BY <1>1, <2>4, <3>1, LineWritten
    <3> QED
      BY <2>1, <3>2 DEF LinesInv
  <2> QED
    BY <2>2, <2>3, <2>4
<1>7. ASSUME NEW level \in Levels, NEW text \in Texts, writeLogMessage(level, text)
      PROVE  LinesInv'
  <2>1. ServerWrites(level, text) /\ identity_' = identity_
    BY <1>7 DEF writeLogMessage
  <2> QED
    BY <1>1, <1>3, <2>1
<1>8. CASE deleteHandle
  BY <1>2, <1>8 DEF deleteHandle
<1>9. CASE UNCHANGED handleVars
  BY <1>2, <1>9 DEF handleVars
<1> QED
  BY <1>4, <1>5, <1>6, <1>7, <1>8, <1>9 DEF HandleNext

-----------------------------------------------------------------------------
(* String: strlcpy() and strlcat() into any part of a buffer.              *)

\* strlen() finds the first terminator, or none in siz bytes.
LEMMA LengthFound ==
  ASSUME NEW buf, NEW siz \in Nat
  PROVE  /\ Length(buf, siz) \in 0 .. siz
         /\ \A k \in 1 .. Length(buf, siz) : buf[k] # NUL
         /\ Length(buf, siz) = siz \/ buf[Length(buf, siz) + 1] = NUL
<1> DEFINE ends == { n \in Nat : n = siz \/ (n < siz /\ buf[n + 1] = NUL) }
<1>1. PICK n \in ends : \A m \in ends : n <= m
  <2>1. siz \in ends /\ ends \in SUBSET Nat
    OBVIOUS
  <2> HIDE DEF ends
  <2> QED
    BY <2>1, LeastNumber
<1>2. n \in 0 .. siz /\ (n = siz \/ buf[n + 1] = NUL)
  OBVIOUS
<1>3. ASSUME NEW k \in 1 .. n PROVE buf[k] # NUL
  <2>1. k - 1 \in Nat /\ k - 1 < siz /\ k - 1 < n /\ (k - 1) + 1 = k
    BY <1>2
  <2>2. k - 1 \notin ends
    BY <1>1, <2>1
  <2> QED
    BY <2>1, <2>2
<1> HIDE DEF ends
<1>4. Length(buf, siz) = n
  BY <1>2, <1>3, LengthIs
<1> QED
  BY <1>2, <1>3, <1>4

\* A string stored behind d bytes of a buffer, and what it leaves of the buffer.
LEMMA StoredPart ==
  ASSUME NEW T, NEW N \in Nat, NEW buf \in [1 .. N -> T], NEW d \in Nat,
         NEW t \in Seq(T), d + Len(t) <= N
  PROVE  /\ Stored(buf, d, t) \in [1 .. N -> T]
         /\ SubSeq(Stored(buf, d, t), 1, d + Len(t)) = SubSeq(buf, 1, d) \o t
         /\ \A k \in 1 .. N : k > d + Len(t) => Stored(buf, d, t)[k] = buf[k]
<1> DEFINE w == Stored(buf, d, t)
           n == d + Len(t)
           b == SubSeq(buf, 1, d)
           c == b \o t
<1>1. Len(buf) = N /\ Len(t) \in Nat /\ buf \in Seq(T) /\ n \in 0 .. N
  OBVIOUS
<1>2. w = [k \in 1 .. N |-> IF k > d /\ k <= d + Len(t) THEN t[k - d] ELSE buf[k]]
  BY <1>1 DEF Stored
<1> HIDE DEF w
<1>3. \A k \in 1 .. N : k > d /\ k <= n => k - d \in 1 .. Len(t)
  BY <1>1
<1>4. \A k \in 1 .. N : w[k] = IF k > d /\ k <= n THEN t[k - d] ELSE buf[k]
  BY <1>2
<1>5. w \in [1 .. N -> T]
  BY <1>2, <1>3
<1>6. w \in Seq(T) /\ Len(w) = N
  BY <1>5
<1>7. /\ SubSeq(w, 1, n) \in Seq(T) /\ Len(SubSeq(w, 1, n)) = n
      /\ \A k \in 1 .. n : SubSeq(w, 1, n)[k] = w[k]
  BY <1>1, <1>6
<1>8. b \in Seq(T) /\ Len(b) = d /\ \A k \in 1 .. d : b[k] = buf[k]
  BY <1>1
<1> HIDE DEF b
<1>9. /\ c \in Seq(T) /\ Len(c) = n
      /\ \A k \in 1 .. d : c[k] = b[k]
      /\ \A k \in 1 .. Len(t) : c[d + k] = t[k]
  <2>1. b \in Seq(T) /\ t \in Seq(T)
    BY <1>8
  <2>2. /\ b \o t \in Seq(T) /\ Len(b \o t) = Len(b) + Len(t)
        /\ \A k \in 1 .. Len(b) : (b \o t)[k] = b[k]
        /\ \A k \in 1 .. Len(t) : (b \o t)[Len(b) + k] = t[k]
    BY <2>1, Joined
  <2> QED
    BY <1>8, <2>2
<1> HIDE DEF c
<1>10. ASSUME NEW k \in 1 .. n PROVE c[k] = w[k]
  <2>1. CASE k <= d
    BY <1>1, <1>4, <1>8, <1>9, <2>1
  <2>2. CASE k > d
    <3>1. k - d \in 1 .. Len(t) /\ d + (k - d) = k
      BY <1>1, <2>2
    <3>2. c[k] = t[k - d]
      BY <1>9, <3>1
    <3> QED
      BY <1>1, <1>4, <2>2, <3>2
  <2> QED
    BY <1>1, <2>1, <2>2
<1>11. SubSeq(w, 1, n) = c
  <2> HIDE DEF n
  <2> QED
    BY <1>7, <1>9, <1>10, SeqEqual
<1>12. \A k \in 1 .. N : k > n => w[k] = buf[k]
  BY <1>1, <1>4
<1> QED
  BY <1>5, <1>11, <1>12 DEF w, b, c

StringChars == { "a", "b" }

Bytes == StringChars \cup { NUL }

\* What the last call was given, and what it made of that.
StringInv ==
  /\ buffer \in [1 .. SizeMax -> Bytes]
  /\ called.number \in Nat
  /\ called.fn # "none" =>
       /\ called.before \in [1 .. SizeMax -> Bytes]
       /\ called.src \in Seq(StringChars) /\ called.siz \in 0 .. SizeMax
       /\ called.fn = "strlcpy" =>
            LET r == strlcpy(called.before, called.src, called.siz)
            IN  buffer = r.buf /\ called.ret = r.ret
       /\ called.fn = "strlcat" =>
            LET r == strlcat(called.before, called.src, called.siz)
            IN  buffer = r.buf /\ called.ret = r.ret

\* A sequence and a beginning of another is a beginning of the two.
LEMMA JoinedPart ==
  ASSUME NEW S, NEW p \in Seq(S), NEW s \in Seq(S), NEW n \in 0 .. Len(s)
  PROVE  SubSeq(p \o s, 1, Len(p) + n) = p \o SubSeq(s, 1, n)
<1> DEFINE w == p \o s
           t == SubSeq(s, 1, n)
           c == p \o t
           m == Len(p) + n
<1>1. /\ w \in Seq(S) /\ Len(w) = Len(p) + Len(s) /\ Len(p) \in Nat /\ Len(s) \in Nat
      /\ \A k \in 1 .. Len(p) : w[k] = p[k]
      /\ \A k \in 1 .. Len(s) : w[Len(p) + k] = s[k]
  BY Joined
<1>2. t \in Seq(S) /\ Len(t) = n /\ \A k \in 1 .. n : t[k] = s[k]
  OBVIOUS
<1> HIDE DEF w, t
<1>3. /\ c \in Seq(S) /\ Len(c) = m
      /\ \A k \in 1 .. Len(p) : c[k] = p[k]
      /\ \A k \in 1 .. Len(t) : c[Len(p) + k] = t[k]
  <2>1. t \in Seq(S)
    BY <1>2
  <2>2. /\ p \o t \in Seq(S) /\ Len(p \o t) = Len(p) + Len(t)
        /\ \A k \in 1 .. Len(p) : (p \o t)[k] = p[k]
        /\ \A k \in 1 .. Len(t) : (p \o t)[Len(p) + k] = t[k]
    BY <2>1, Joined
  <2> QED
    BY <1>2, <2>2
<1>4. /\ SubSeq(w, 1, m) \in Seq(S) /\ Len(SubSeq(w, 1, m)) = m
      /\ \A k \in 1 .. m : SubSeq(w, 1, m)[k] = w[k]
  BY <1>1
<1> HIDE DEF c
<1>5. ASSUME NEW k \in 1 .. m PROVE w[k] = c[k]
  <2>1. CASE k <= Len(p)
    BY <1>1, <1>3, <2>1
  <2>2. CASE k > Len(p)
    <3>1. k - Len(p) \in 1 .. n /\ Len(p) + (k - Len(p)) = k /\ k - Len(p) \in 1 .. Len(s)
      BY <1>1, <2>2
    <3>2. w[k] = s[k - Len(p)]
      BY <1>1, <3>1
    <3>3. c[k] = t[k - Len(p)]
      BY <1>2, <1>3, <3>1
    <3> QED
      BY <1>2, <3>1, <3>2, <3>3
  <2> QED
    BY <1>1, <2>1, <2>2
<1>6. SubSeq(w, 1, m) = c
  <2> HIDE DEF m
  <2> QED
    BY <1>3, <1>4, <1>5, SeqEqual
<1> QED
  BY <1>6 DEF w, c, t

LEMMA JoinedAppend ==
  ASSUME NEW S, NEW p \in Seq(S), NEW s \in Seq(S), NEW e \in S
  PROVE  p \o Append(s, e) = Append(p \o s, e)
OBVIOUS

\* What the comments say of strlcpy() and strlcat(), of buf after and before the call.
CopyMade(N, before, src, siz, buf, ret) ==
  /\ ret = Len(src)
  /\ siz # 0 =>
       SubSeq(buf, 1, Least(siz - 1, ret) + 1)
         = Append(SubSeq(src, 1, Least(siz - 1, ret)), NUL)
  /\ \A k \in siz + 1 .. N : buf[k] = before[k]

AppendMade(N, before, src, siz, buf, ret) ==
  LET had  == Length(before, siz)
      want == SubSeq(before, 1, had) \o src
  IN  /\ ret = Len(src) + had
      /\ IF had = siz THEN buf = before
         ELSE SubSeq(buf, 1, Least(siz - 1, ret) + 1)
                = Append(SubSeq(want, 1, Least(siz - 1, ret)), NUL)
      /\ \A k \in siz + 1 .. N : buf[k] = before[k]

\* strlcpy(), as its comment has it.
LEMMA CopyIs ==
  ASSUME NEW N \in Nat, NEW before \in [1 .. N -> Bytes], NEW src \in Seq(StringChars),
         NEW siz \in 0 .. N
  PROVE  /\ strlcpy(before, src, siz).buf \in [1 .. N -> Bytes]
         /\ CopyMade(N, before, src, siz, strlcpy(before, src, siz).buf,
                     strlcpy(before, src, siz).ret)
<1> DEFINE buf == strlcpy(before, src, siz).buf
           ret == strlcpy(before, src, siz).ret
<1>call. buf = strlcpy(before, src, siz).buf
  OBVIOUS
<1> HIDE DEF buf
<1>1. NUL \notin StringChars /\ NUL \in Bytes /\ StringChars \subseteq Bytes
  BY DEF StringChars, NUL, Bytes
<1>2. CASE siz = 0
  BY <1>2, <1>call DEF strlcpy, CopyMade, buf
<1>3. CASE siz # 0
  <2> DEFINE f == Fitting(src, siz)
             t == Append(f, NUL)
             none == SubSeq(before, 1, 0)
  <2>1. siz \in Nat \ {0} /\ Len(src) \in Nat
    BY <1>3
  <2>2. buf = Stored(before, 0, t) /\ strlcpy(before, src, siz).ret = Len(src)
    BY <1>1, <2>1, <1>call, StrlcpyIs
  <2>3. /\ f \in Seq(StringChars) /\ Len(f) \in 0 .. siz - 1 /\ Len(f) <= Len(src)
        /\ f = SubSeq(src, 1, Len(f))
        /\ Len(src) < siz => f = src
        /\ Len(src) >= siz => Len(f) = siz - 1
    BY <2>1, FittingIs
  <2> HIDE DEF f
  <2>4. Len(f) = Least(siz - 1, Len(src))
    BY <2>1, <2>3 DEF Least
  <2>5. f \in Seq(Bytes)
    BY <1>1, <2>3
  <2>6. t \in Seq(Bytes) /\ Len(t) = Len(f) + 1
    BY <1>1, <2>5
  <2> HIDE DEF t
  <2>7. 0 \in Nat /\ 0 + Len(t) <= N /\ Len(t) <= siz /\ Len(t) \in Nat
    BY <2>1, <2>3, <2>6
  <2>8. /\ Stored(before, 0, t) \in [1 .. N -> Bytes]
        /\ SubSeq(Stored(before, 0, t), 1, 0 + Len(t)) = none \o t
        /\ \A k \in 1 .. N : k > 0 + Len(t) => Stored(before, 0, t)[k] = before[k]
    BY <2>6, <2>7, StoredPart
  <2>9. none \o t = t
    BY <2>6
  <2>10. SubSeq(buf, 1, Len(f) + 1) = Append(f, NUL)
    BY <2>2, <2>6, <2>7, <2>8, <2>9 DEF t
  <2>11. \A k \in siz + 1 .. N : k \in 1 .. N /\ k > 0 + Len(t)
    BY <2>1, <2>7
  <2>12. /\ buf \in [1 .. N -> Bytes] /\ ret = Len(src)
         /\ SubSeq(buf, 1, Least(siz - 1, Len(src)) + 1)
              = Append(SubSeq(src, 1, Least(siz - 1, Len(src))), NUL)
         /\ \A k \in siz + 1 .. N : buf[k] = before[k]
    BY <2>2, <2>3, <2>4, <2>8, <2>10, <2>11
  <2> HIDE DEF ret
  <2>13. CopyMade(N, before, src, siz, buf, ret)
    BY <2>12 DEF CopyMade
  <2> QED
    BY <2>12, <2>13 DEF buf, ret
<1> QED
  BY <1>2, <1>3

\* The same of a buffer of bytes.
LEMMA StoredBytes ==
  ASSUME NEW N \in Nat, NEW buf \in [1 .. N -> Bytes], NEW d \in Nat,
         NEW t \in Seq(Bytes), d + Len(t) <= N
  PROVE  /\ Stored(buf, d, t) \in [1 .. N -> Bytes]
         /\ SubSeq(Stored(buf, d, t), 1, d + Len(t)) = SubSeq(buf, 1, d) \o t
         /\ \A k \in 1 .. N : k > d + Len(t) => Stored(buf, d, t)[k] = buf[k]
BY StoredPart

\* strlcat(), as its comment has it.
LEMMA AppendIs ==
  ASSUME NEW N \in Nat, NEW before \in [1 .. N -> Bytes], NEW src \in Seq(StringChars),
         NEW siz \in 0 .. N
  PROVE  /\ strlcat(before, src, siz).buf \in [1 .. N -> Bytes]
         /\ AppendMade(N, before, src, siz, strlcat(before, src, siz).buf,
                       strlcat(before, src, siz).ret)
<1> DEFINE buf  == strlcat(before, src, siz).buf
           ret  == strlcat(before, src, siz).ret
           had  == Length(before, siz)
           want == SubSeq(before, 1, had) \o src
<1>call. /\ buf = strlcat(before, src, siz).buf /\ ret = strlcat(before, src, siz).ret
      /\ had = Length(before, siz)
  OBVIOUS
<1>want. want = SubSeq(before, 1, had) \o src
  OBVIOUS
<1> HIDE DEF buf, ret, had, want
<1>1. NUL \in Bytes /\ StringChars \subseteq Bytes
  BY DEF Bytes
<1>2. /\ had \in 0 .. siz /\ siz \in Nat /\ Len(src) \in Nat
  BY <1>call, LengthFound
<1> DEFINE n == siz - had
           f == Fitting(src, n)
           t == Append(f, NUL)
           p == SubSeq(before, 1, had)
<1>3. strlcat(before, src, siz) =
        [ buf |-> IF n = 0 THEN before ELSE Stored(before, had, t), ret |-> had + Len(src) ]
  BY <1>call DEF strlcat
<1> HIDE DEF t
<1>4. ret = Len(src) + had /\ buf = IF n = 0 THEN before ELSE Stored(before, had, t)
  BY <1>2, <1>3, <1>call
<1> DEFINE AsSaid == /\ buf \in [1 .. N -> Bytes]
                     /\ ret = Len(src) + had
                     /\ IF had = siz THEN buf = before
                        ELSE SubSeq(buf, 1, Least(siz - 1, ret) + 1)
                               = Append(SubSeq(want, 1, Least(siz - 1, ret)), NUL)
                     /\ \A k \in siz + 1 .. N : buf[k] = before[k]
<1>5. ASSUME had = siz PROVE AsSaid
  BY <1>2, <1>4, <1>5
<1>6. ASSUME had # siz PROVE AsSaid
  <2>1. n \in Nat \ {0} /\ had < siz
    BY <1>2, <1>6
  <2>2. buf = Stored(before, had, t)
    BY <1>4, <2>1
  <2>3. /\ f \in Seq(StringChars) /\ Len(f) \in 0 .. n - 1 /\ Len(f) <= Len(src)
        /\ f = SubSeq(src, 1, Len(f))
        /\ Len(src) < n => f = src
        /\ Len(src) >= n => Len(f) = n - 1
    <3> HIDE DEF n
    <3> QED
      BY <2>1, FittingIs
  <2> HIDE DEF f
  <2>4. had + Len(f) = Least(siz - 1, ret)
    <3>1. ret = Len(src) + had /\ Len(f) \in Nat
      BY <1>4, <2>3
    <3>2. CASE Len(src) < n
      <4>1. Len(f) = Len(src)
        BY <2>3, <3>2
      <4>2. ~(siz - 1 < ret)
        BY <1>2, <3>1, <3>2
      <4> QED
        BY <1>2, <3>1, <4>1, <4>2 DEF Least
    <3>3. CASE Len(src) >= n
      <4>1. had + Len(f) = siz - 1
        BY <1>2, <2>1, <2>3, <3>3
      <4>2. siz - 1 < ret
        BY <1>2, <3>1, <3>3
      <4> QED
        BY <4>1, <4>2 DEF Least
    <3> QED
      BY <1>2, <2>1, <3>2, <3>3
  <2>5. f \in Seq(Bytes) /\ src \in Seq(Bytes)
    BY <1>1, <2>3
  <2>6. t \in Seq(Bytes) /\ Len(t) = Len(f) + 1
    BY <1>1, <2>5 DEF t
  <2>7. had \in Nat /\ had + Len(t) <= siz /\ had + Len(t) <= N /\ Len(t) \in Nat
    BY <1>2, <2>1, <2>3, <2>6
  <2>8. /\ Stored(before, had, t) \in [1 .. N -> Bytes]
        /\ SubSeq(Stored(before, had, t), 1, had + Len(t)) = p \o t
        /\ \A k \in 1 .. N : k > had + Len(t) => Stored(before, had, t)[k] = before[k]
    <3>1. t \in Seq(Bytes) /\ had \in Nat /\ had + Len(t) <= N
      BY <2>6, <2>7
    <3>2. before \in [1 .. N -> Bytes] /\ N \in Nat
      OBVIOUS
    <3> HIDE DEF n, f, p
    <3>3. ASSUME NEW d \in Nat, NEW u \in Seq(Bytes), d + Len(u) <= N
          PROVE  /\ Stored(before, d, u) \in [1 .. N -> Bytes]
                 /\ SubSeq(Stored(before, d, u), 1, d + Len(u)) = SubSeq(before, 1, d) \o u
                 /\ \A k \in 1 .. N : k > d + Len(u) => Stored(before, d, u)[k] = before[k]
      BY <3>3, StoredBytes
    <3> QED
      BY <3>1, <3>3 DEF p
  <2>9. p \in Seq(Bytes) /\ Len(p) = had
    <3>1. before \in Seq(Bytes) /\ Len(before) = N /\ had \in 0 .. N
      BY <1>2
    <3> QED
      BY <3>1
  <2> HIDE DEF p
  <2>10. p \o t = Append(p \o f, NUL)
    <3>1. p \in Seq(Bytes) /\ f \in Seq(Bytes) /\ NUL \in Bytes
      BY <1>1, <2>5, <2>9
    <3>2. p \o Append(f, NUL) = Append(p \o f, NUL)
      BY <3>1, JoinedAppend
    <3> QED
      BY <3>2 DEF t
  <2>11. SubSeq(want, 1, had + Len(f)) = p \o f
    <3>1. want = p \o src
      BY <1>want DEF p
    <3>2. Len(f) \in 0 .. Len(src)
      BY <1>2, <2>3
    <3>3. SubSeq(p \o src, 1, Len(p) + Len(f)) = p \o SubSeq(src, 1, Len(f))
      BY <2>5, <2>9, <3>2, JoinedPart
    <3> QED
      BY <2>3, <2>9, <3>1, <3>3
  <2>12. SubSeq(buf, 1, (had + Len(f)) + 1) = Append(SubSeq(want, 1, had + Len(f)), NUL)
    <3>1. had + Len(t) = (had + Len(f)) + 1
      BY <1>2, <2>3, <2>6
    <3> QED
      BY <2>2, <2>8, <2>10, <2>11, <3>1
  <2>13. \A k \in siz + 1 .. N : k \in 1 .. N /\ k > had + Len(t)
    BY <1>2, <2>7
  <2> QED
    BY <1>4, <1>6, <2>2, <2>4, <2>8, <2>12, <2>13
<1>7. AsSaid
  BY <1>5, <1>6
<1> QED
  BY <1>7 DEF AppendMade, buf, ret, had, want

LEMMA StringBegins == StringInit => StringInv
<1>1. NUL \in Bytes /\ SizeMax \in Nat
  BY StringAssumption DEF Bytes
<1>2. SUFFICES ASSUME StringInit PROVE StringInv
  OBVIOUS
<1>3. buffer \in [1 .. SizeMax -> Bytes]
  BY <1>1, <1>2 DEF StringInit
<1>4. called.fn = "none" /\ called.number = 0
  BY <1>2 DEF StringInit, NoCall
<1>5. QED
  BY <1>3, <1>4 DEF StringInv

LEMMA StringGoesOn == StringInv /\ [StringNext]_stringVars => StringInv'
<1>1. CASE UNCHANGED stringVars
  BY <1>1 DEF StringInv, stringVars
<1>2. CASE StringNext
  <2>1. SUFFICES ASSUME StringInv, NEW src \in Srcs, NEW siz \in 0 .. SizeMax,
                        \/ Call("strlcpy", strlcpy(buffer, src, siz), src, siz)
                        \/ Call("strlcat", strlcat(buffer, src, siz), src, siz)
                 PROVE  StringInv'
    BY <1>2 DEF StringNext
  <2>2. SizeMax \in Nat /\ buffer \in [1 .. SizeMax -> Bytes] /\ called.number + 1 \in Nat
    BY <2>1, StringAssumption DEF StringInv
  <2>3. src \in Seq(StringChars)
    BY DEF Srcs, StringChars
  <2>4. CASE Call("strlcpy", strlcpy(buffer, src, siz), src, siz)
    <3> DEFINE r == strlcpy(buffer, src, siz)
    <3>1. buffer' = r.buf
      BY <2>4 DEF Call
    <3>2. called' = [ fn |-> "strlcpy", before |-> buffer, src |-> src, siz |-> siz,
                      ret |-> r.ret, number |-> called.number + 1 ]
      BY <2>4 DEF Call
    <3>3. buffer' \in [1 .. SizeMax -> Bytes]
      BY <2>2, <2>3, <3>1, CopyIs
    <3> HIDE DEF r
    <3>4. /\ called'.fn = "strlcpy" /\ called'.before = buffer /\ called'.src = src
          /\ called'.siz = siz /\ called'.ret = r.ret /\ called'.number = called.number + 1
      BY <3>2
    <3>5. strlcpy(called'.before, called'.src, called'.siz) = r
      BY <3>4 DEF r
    <3>6. /\ called'.number \in Nat /\ called'.before \in [1 .. SizeMax -> Bytes]
          /\ called'.src \in Seq(StringChars) /\ called'.siz \in 0 .. SizeMax
      BY <2>2, <2>3, <3>4
    <3>7. called'.fn # "strlcat"
      BY <3>4
    <3> QED
      BY <3>1, <3>3, <3>4, <3>5, <3>6, <3>7 DEF StringInv
  <2>5. CASE Call("strlcat", strlcat(buffer, src, siz), src, siz)
    <3> DEFINE r == strlcat(buffer, src, siz)
    <3>1. buffer' = r.buf
      BY <2>5 DEF Call
    <3>2. called' = [ fn |-> "strlcat", before |-> buffer, src |-> src, siz |-> siz,
                      ret |-> r.ret, number |-> called.number + 1 ]
      BY <2>5 DEF Call
    <3>3. buffer' \in [1 .. SizeMax -> Bytes]
      BY <2>2, <2>3, <3>1, AppendIs
    <3> HIDE DEF r
    <3>4. /\ called'.fn = "strlcat" /\ called'.before = buffer /\ called'.src = src
          /\ called'.siz = siz /\ called'.ret = r.ret /\ called'.number = called.number + 1
      BY <3>2
    <3>5. strlcat(called'.before, called'.src, called'.siz) = r
      BY <3>4 DEF r
    <3>6. /\ called'.number \in Nat /\ called'.before \in [1 .. SizeMax -> Bytes]
          /\ called'.src \in Seq(StringChars) /\ called'.siz \in 0 .. SizeMax
      BY <2>2, <2>3, <3>4
    <3>7. called'.fn # "strlcpy"
      BY <3>4
    <3> QED
      BY <3>1, <3>3, <3>4, <3>5, <3>6, <3>7 DEF StringInv
  <2>6. QED
    BY <2>1, <2>4, <2>5
<1>3. QED
  BY <1>1, <1>2

\* What the last call made of the buffer is what the comments say it makes.
LEMMA CutIsDocumented == StringInv => CutAsDocumented
<1>1. SUFFICES ASSUME StringInv PROVE CutAsDocumented
  OBVIOUS
<1>2. SizeMax \in Nat
  BY StringAssumption
<1>3. ASSUME called.fn = "strlcpy"
      PROVE  CopyMade(SizeMax, called.before, called.src, called.siz, buffer, called.ret)
  <2>1. /\ buffer = strlcpy(called.before, called.src, called.siz).buf
        /\ called.ret = strlcpy(called.before, called.src, called.siz).ret
    BY <1>1, <1>3 DEF StringInv
  <2>2. /\ called.before \in [1 .. SizeMax -> Bytes]
        /\ called.src \in Seq(StringChars) /\ called.siz \in 0 .. SizeMax
    BY <1>1, <1>3 DEF StringInv
  <2>3. CopyMade(SizeMax, called.before, called.src, called.siz,
                 strlcpy(called.before, called.src, called.siz).buf,
                 strlcpy(called.before, called.src, called.siz).ret)
    BY <1>2, <2>2, CopyIs
  <2>4. QED
    BY <2>1, <2>3
<1>4. ASSUME called.fn = "strlcat"
      PROVE  AppendMade(SizeMax, called.before, called.src, called.siz, buffer, called.ret)
  <2>1. /\ buffer = strlcat(called.before, called.src, called.siz).buf
        /\ called.ret = strlcat(called.before, called.src, called.siz).ret
    BY <1>1, <1>4 DEF StringInv
  <2>2. /\ called.before \in [1 .. SizeMax -> Bytes]
        /\ called.src \in Seq(StringChars) /\ called.siz \in 0 .. SizeMax
    BY <1>1, <1>4 DEF StringInv
  <2>3. AppendMade(SizeMax, called.before, called.src, called.siz,
                   strlcat(called.before, called.src, called.siz).buf,
                   strlcat(called.before, called.src, called.siz).ret)
    BY <1>2, <2>2, AppendIs
  <2>4. QED
    BY <2>1, <2>3
<1>5. QED
  BY <1>3, <1>4 DEF CutAsDocumented, CopyAsDocumented, AppendAsDocumented, CopyMade, AppendMade

-----------------------------------------------------------------------------
(* All of them: each takes its own steps and no other does.                *)

LibraryInv ==
  /\ IoInv /\ SetupInv /\ HandleInv /\ LinesInv /\ TreeInv
  /\ WatchInv /\ SleepInv /\ MessageInv /\ StringInv /\ HistInv /\ NumberInv

LEMMA LibraryBegins == Init => LibraryInv
BY IoBegins, SetupGoesOn, HandleGoesOn, LinesBegin, TreeBegins, WatchBegins,
   StringBegins, HistBegins, NumberBegins
   DEF Init, LibraryInv

LEMMA LibraryGoesOn == LibraryInv /\ [Next]_allVars => LibraryInv'
<1>1. [Next]_allVars => [IoNext]_ioVars
  BY DEF Next, Turn, allVars
<1>2. [Next]_allVars => [SetupNext]_setupVars
  BY DEF Next, Turn, allVars
<1>3. [Next]_allVars => [HandleNext]_handleVars
  BY DEF Next, Turn, allVars
<1>4. [Next]_allVars => [TreeNext]_treeVars
  BY DEF Next, Turn, allVars
<1>5. [Next]_allVars => [WatchNext]_timeVars
  BY DEF Next, Turn, allVars
<1>6. [Next]_allVars => [MessageNext]_messageVars
  BY DEF Next, Turn, allVars
<1>7. [Next]_allVars => [StringNext]_stringVars
  BY DEF Next, Turn, allVars
<1>8. [Next]_allVars => [HistNext]_histVars
  BY DEF Next, Turn, allVars
<1>9. [Next]_allVars => [NumberNext]_numberVars
  BY DEF Next, Turn, allVars
<1>10. QED
  BY <1>1, <1>2, <1>3, <1>4, <1>5, <1>6, <1>7, <1>8, <1>9, IoGoesOn, SetupGoesOn,
     HandleGoesOn, LinesGoOn, TreeInvGoesOn, WatchGoesOn, MessageGoesOn, StringGoesOn,
     HistGoesOn, NumberGoesOn
     DEF LibraryInv

LEMMA LibraryKeepsInv == Spec => []LibraryInv
BY LibraryBegins, LibraryGoesOn, PTL DEF Spec

\* Every open descriptor has one owner, a call or a caller, however many threads there are
\* and whichever of their system calls fails (async_io.cc:41).
THEOREM EachDescriptorOwned == Spec => []OneOwner
<1>1. LibraryInv => OneOwner
  BY SharesOneOwner DEF LibraryInv, IoInv
<1>2. QED
  BY <1>1, LibraryKeepsInv, PTL

\* What is acquired in several calls is given back when one of them fails and when it is no
\* longer needed: the descriptors of AsyncIo, which besides are what their callers asked for,
\* the members of an AsyncEvent, the socket and the memory of a LogHandle, the stream of a
\* traversal (async_io.cc:87).
THEOREM NothingStaysBehind == Spec => []NothingLeft
<1>1. LibraryInv => OneOwner /\ AsAsked
  BY SharesOneOwner, WordIsAsAsked DEF LibraryInv, IoInv
<1>2. LibraryInv => SetupFreed /\ HandleFreed /\ StreamClosed
  BY DEF LibraryInv, SetupInv, SetupFreed, HandleInv, HandleFreed, TreeInv
<1>3. LibraryInv => NothingLeft
  BY <1>1, <1>2 DEF NothingLeft
<1>4. QED
  BY <1>3, LibraryKeepsInv, PTL

\* The callback of a traversal is given each entry under its path if that fits the buffer,
\* and every entry unless a fault was found, whatever is removed meanwhile, in whichever
\* order the entries come, and however long their names are; and the buffer is left only
\* for a folder as long as the buffer that has no separator at its end (file_system.cc:50).
THEOREM EveryEntryVisited == Spec => []EntriesVisited
<1>1. TreeInv => EntriesVisited
  <2> SUFFICES ASSUME TreeInv PROVE EntriesVisited
    OBVIOUS
  <2>1. where = "back" /\ rc = 0 /\ ~cutShort => VisitedEntries = Entries \ Dots
    BY DEF TreeInv, SoFar, InSight
  <2>2. ASSUME where = "outside"
        PROVE  Len(dir_path) = EntrySize - 1 /\ ~endsWith(dir_path, << "/" >>)
    <3>1. dir_path \in Folders /\ Len(Separated(dir_path)) >= EntrySize
      BY <2>2 DEF TreeInv, InBuffer
    <3>2. /\ EntrySize \in Nat /\ dir_path \in Seq(PathChars) /\ Len(dir_path) \in Nat
          /\ Len(dir_path) < EntrySize
      BY <3>1, FoldersAre
    <3>3. Len(Separated(dir_path)) <= Len(dir_path) + 1
      BY <3>2, SeparatedIs
    <3>4. endsWith(dir_path, << "/" >>) => Len(Separated(dir_path)) = Len(dir_path)
      <4>1. dir_path \o << >> = dir_path
        BY <3>2
      <4> QED
        BY <4>1 DEF Separated
    <3>5. Len(Separated(dir_path)) \in Nat
      BY <3>1, FoldersAre
    <3> QED
      BY <3>1, <3>2, <3>3, <3>4, <3>5
  <2> QED
    BY <2>1, <2>2 DEF TreeInv, UnderPath, EntriesVisited, VisitedEntries
<1>2. LibraryInv => EntriesVisited
  BY <1>1 DEF LibraryInv
<1>3. QED
  BY <1>2, LibraryKeepsInv, PTL

\* Every message becomes one line that ends in a newline and is no longer than the buffer:
\* header and message as they were printed if they fit; the first BufferSize - 1 bytes of them
\* when the server writes itself; and when log() cuts, the first PointerSize - 1 bytes of the
\* header and nothing of the message. For every size of the buffer, of the identity and of a
\* pointer (app_logger.cc:152).
THEOREM EveryLineExact == Spec => []LinesExact
<1>1. LibraryInv => LinesExact
  BY DEF LibraryInv, LinesInv
<1>2. QED
  BY <1>1, LibraryKeepsInv, PTL

\* Time stamps are the clock in microseconds and whole milliseconds; who sleeps again for
\* what remains sleeps the interval but for what each interruption rounds away; a stop watch
\* shows the time between start() and stop() unless the clock was set; and its message stays
\* in its buffer: for every number of units in a second, every interval and every sequence
\* of calls and interruptions (time.h:139, time.h:199).
THEOREM TimesAlwaysRight == Spec => []TimesAsDocumented
<1>1. LibraryInv => TimesAsDocumented
  BY TimesAre DEF LibraryInv
<1>2. QED
  BY <1>1, LibraryKeepsInv, PTL

\* strlcpy() and strlcat() cut, terminate and return what their comments say, at every size
\* up to the buffer's and call after call on one buffer, terminated or not
\* (strlcpy.cc:41, strlcat.cc:44).
THEOREM CutsAsDocumented == Spec => []CutAsDocumented
<1>1. LibraryInv => CutAsDocumented
  BY CutIsDocumented DEF LibraryInv
<1>2. QED
  BY <1>1, LibraryKeepsInv, PTL

\* A histogram's buckets, sums, maximum and, where it never met a clear(), minimum are those
\* of the values it stands for: the binary search ends in the value's zone in every table of
\* thresholds, and any sequence of add(), merge(), also with itself, and clear() keeps the
\* sums right modulo 2^64 (histogram.cc:113, histogram.cc:93).
THEOREM HistogramsExact == Spec => []HistogramExact
<1>1. LibraryInv => HistogramExact
  BY HistogramIsExact DEF LibraryInv
<1>2. QED
  BY <1>1, LibraryKeepsInv, PTL

\* What the getters of HardwareInfo tell is what the lines say, if those are the kernel's.
LEMMA ToldAsRead ==
  ASSUME KernelUnits
  PROVE  Spec => []HardwareAsRead
<1>1. Init => HardwareInv
  BY HardwareBegins DEF Init
<1>2. [Next]_allVars => [HardwareNext]_hardwareVars
  BY DEF Next, Turn, allVars
<1>3. HardwareInv /\ [Next]_allVars => HardwareInv'
  BY KernelUnits, <1>2, HardwareGoesOn
<1>4. QED
  BY <1>1, <1>3, HardwareIsAsRead, PTL DEF Spec

\* The functions that only compute do what their documentation or their name says: the
\* copies cut and terminate at every size; numbers with their suffixes are exact wherever
\* the type can hold them and saturate on their side, for every width of a word and all
\* factors; a word of any size lies in memory in the order a conversion promises, and
\* converts back; masks add up; and every thread is told the same of the hardware, which is
\* what the lines say that could be read, if their units are the kernel's (string.cc:41,
\* endian.h:90, hardwareinfo.cc:70).
THEOREM FunctionsAsReference ==
  ASSUME KernelUnits
  PROVE  Spec => []AsReference
<1>1. LibraryInv => CutAsDocumented /\ ParsedExactly /\ OrderedInMemory /\ MasksAdd
  BY CutIsDocumented DEF LibraryInv, NumberInv
<1>2. LibraryInv /\ HardwareAsRead => AsReference
  BY <1>1 DEF AsReference
<1>3. Spec => []HardwareAsRead
  BY KernelUnits, ToldAsRead
<1>4. QED
  BY <1>2, <1>3, LibraryKeepsInv, PTL
=============================================================================
