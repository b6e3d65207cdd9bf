----------------------- MODULE ProducerConsumerProofs -----------------------
(***************************************************************************)
(* Theorems about ProducerConsumer, for any threads, of the library's or   *)
(* the test's routines, any numbers of tasklets and limits of the loops.   *)
(***************************************************************************)
EXTENDS ProducerConsumer, TLAPS

Loops == { "top", "work", "dispatch", "execute", "after" }

PCTypes ==
  /\ pc \in [Threads -> { "new", "start", "count", "leave", "done" } \cup Loops]
  /\ attached \subseteq Threads
  /\ hand \in [Threads -> Tasklets \cup {Nobody}]
  /\ made \in [Producers -> Nat] /\ \A p \in Producers : made[p] <= Limit[p]
  /\ queue \in Seq(Tasklets)
  /\ reports \in [Tasklets -> Seq(Result)]
  /\ deleted \subseteq Tasklets
  /\ owner \in { "up", "destroy", "gone" }

\* A thread has a tasklet in hand between generating or popping it and its end, and a
\* producer the one it made last.
InHand ==
  /\ \A t \in Threads : hand[t] # Nobody <=> pc[t] \in { "dispatch", "execute" }
  /\ \A t \in Threads : pc[t] = "dispatch" => t \in Producers /\ hand[t] = << t, made[t] >>
  /\ \A t \in Threads : pc[t] = "execute" => t \in Consumers
  /\ owner # "up" => \A t \in Threads : pc[t] = "done"
  /\ owner = "gone" => queue = << >>

\* What a deleted tasklet was told.
ToldRight(x) ==
  IF x[1] \in attached
  THEN reports[x] = Told(Outcome[x]) \/ (reports[x] = << "CANCELLED" >> /\ owner # "up")
  ELSE reports[x] = << >>

\* Who has no queue puts nothing into it, so that nothing of it is executed, and only
\* deleted tasklets were told a result.
ResultsTold ==
  /\ \A i \in DOMAIN queue : queue[i][1] \in attached
  /\ \A t \in Threads : pc[t] = "execute" => hand[t][1] \in attached
  /\ \A x \in Tasklets \ deleted : reports[x] = << >>
  /\ \A x \in deleted : ToldRight(x)

PCInv == PCTypes /\ InHand /\ OnePlace /\ ResultsTold /\ InOrder

-----------------------------------------------------------------------------
(* Tasklets and places. *)

LEMMA TaskletIs ==
  ASSUME NEW x
  PROVE  /\ x \in Tasklets <=> \E p \in Producers : \E n \in 1 .. Limit[p] : x = << p, n >>
         /\ x \in Tasklets => /\ x[1] \in Producers /\ x[2] \in 1 .. Limit[x[1]]
                              /\ x = << x[1], x[2] >> /\ x # Nobody
<1>1. x \in Tasklets <=> \E p \in Producers : x \in {p} \X (1 .. Limit[p])
  BY DEF Tasklets
<1>2. \A p : x \in {p} \X (1 .. Limit[p]) <=> \E n \in 1 .. Limit[p] : x = << p, n >>
  OBVIOUS
<1>3. x \in Tasklets <=> \E p \in Producers : \E n \in 1 .. Limit[p] : x = << p, n >>
  BY <1>1, <1>2
<1>4. ASSUME NEW p \in Producers, NEW n \in 1 .. Limit[p], x = << p, n >>
      PROVE  x[1] = p /\ x[2] = n /\ x = << x[1], x[2] >> /\ x # Nobody
  BY <1>4 DEF Nobody
<1>5. QED
  BY <1>3, <1>4

LEMMA PCInit == Init => PCInv
<1> SUFFICES ASSUME Init PROVE PCInv
  OBVIOUS
<1> USE PCAssumption
<1>1. PCTypes
  BY DEF Init, PCTypes
<1>2. InHand
  BY DEF Init, InHand
<1>3. OnePlace
  <2>1. Made = {}
    <3> SUFFICES ASSUME NEW x \in Tasklets, x[2] <= made[x[1]] PROVE FALSE
      BY DEF Made
    <3>1. x[1] \in Producers /\ x[2] \in 1 .. Limit[x[1]]
      BY TaskletIs
    <3>2. made[x[1]] = 0
      BY <3>1 DEF Init
    <3>3. Limit[x[1]] \in Nat
      BY <3>1
    <3>4. QED
      BY <3>1, <3>2, <3>3
  <2>2. Held = {} /\ Queued = {} /\ DOMAIN queue = {} /\ deleted = {}
    BY DEF Init, Held, Queued
  <2>3. QED
    BY <2>1, <2>2 DEF OnePlace, Init
<1>4. ResultsTold
  BY DEF Init, ResultsTold
<1>5. InOrder
  BY DEF Init, InOrder
<1>6. QED
  BY <1>1, <1>2, <1>3, <1>4, <1>5 DEF PCInv

\* A step that only moves a thread between places where it has nothing in hand, or the owner.
LEMMA QuietKeeps ==
  ASSUME PCInv, UNCHANGED << attached, hand, made, queue, reports, deleted >>,
         pc' \in [Threads -> { "new", "start", "count", "leave", "done" } \cup Loops],
         \A t \in Threads :
           \/ pc'[t] = pc[t]
           \/ pc[t] \notin { "dispatch", "execute", "done" } /\ pc'[t] \notin { "dispatch", "execute" },
         \/ owner' = owner
         \/ owner = "up" /\ owner' = "destroy" /\ \A t \in Threads : pc[t] = "done"
         \/ owner = "destroy" /\ owner' = "gone" /\ queue = << >>
  PROVE  PCInv'
<1> USE DEF PCInv
<1>1. PCTypes'
  BY DEF PCTypes
<1>2. InHand'
  BY DEF InHand
<1>3. OnePlace'
  <2>1. Made' = Made /\ Held' = Held /\ Queued' = Queued
    BY DEF Made, Held, Queued
  <2>2. QED
    BY <2>1 DEF OnePlace
<1>4. ResultsTold'
  <2>1. owner # "up" => owner' # "up"
    OBVIOUS
  <2>2. \A t \in Threads : pc'[t] = "execute" => pc[t] = "execute"
    OBVIOUS
  <2>3. \A t \in Threads : pc'[t] = "execute" => hand'[t][1] \in attached'
    BY <2>2 DEF ResultsTold
  <2>4. QED
    BY <2>1, <2>3 DEF ResultsTold, ToldRight
<1>5. InOrder'
  BY DEF InOrder, Pushed, Behind
<1>6. QED
  BY <1>1, <1>2, <1>3, <1>4, <1>5

-----------------------------------------------------------------------------
(* One tasklet changes its place. *)

OneHand == \A t, u \in Threads : hand[t] = hand[u] /\ hand[t] # Nobody => t = u
OneItem == \A i, j \in DOMAIN queue : queue[i] = queue[j] => i = j

LEMMA HandFilled ==
  ASSUME PCTypes, OneHand, NEW t \in Threads, NEW x \in Tasklets, x \notin Held,
         hand[t] = Nobody, hand' = [hand EXCEPT ![t] = x]
  PROVE  /\ hand' \in [Threads -> Tasklets \cup {Nobody}]
         /\ Held' = Held \cup {x} /\ OneHand'
         /\ \A u \in Threads \ {t} : hand'[u] = hand[u]
         /\ hand'[t] = x
<1>1. /\ hand' \in [Threads -> Tasklets \cup {Nobody}]
      /\ \A u \in Threads \ {t} : hand'[u] = hand[u]
      /\ hand'[t] = x
  BY DEF PCTypes
<1>2. x # Nobody
  BY TaskletIs
<1>3. \A u \in Threads : hand[u] # x
  BY <1>2 DEF Held
<1>4. OneHand'
  BY <1>1, <1>3 DEF OneHand
<1>5. \A y : y \in Held' <=> y \in Held \/ y = x
  BY <1>1, <1>2 DEF Held
<1>6. QED
  BY <1>1, <1>4, <1>5

LEMMA HandEmptied ==
  ASSUME PCTypes, OneHand, NEW t \in Threads, hand[t] # Nobody,
         hand' = [hand EXCEPT ![t] = Nobody]
  PROVE  /\ hand' \in [Threads -> Tasklets \cup {Nobody}]
         /\ hand[t] \in Tasklets /\ hand[t] \in Held
         /\ Held' = Held \ {hand[t]} /\ OneHand'
         /\ \A u \in Threads \ {t} : hand'[u] = hand[u]
         /\ hand'[t] = Nobody
<1>1. /\ hand' \in [Threads -> Tasklets \cup {Nobody}]
      /\ hand[t] \in Tasklets
      /\ \A u \in Threads \ {t} : hand'[u] = hand[u]
      /\ hand'[t] = Nobody
  BY DEF PCTypes
<1>2. OneHand'
  BY <1>1 DEF OneHand
<1>3. \A y : y \in Held' <=> y \in Held /\ y # hand[t]
  BY <1>1 DEF Held, OneHand
<1>4. QED
  BY <1>1, <1>2, <1>3 DEF Held

LEMMA QueueTail ==
  ASSUME PCTypes, OneItem, queue # << >>, queue' = Tail(queue)
  PROVE  /\ queue' \in Seq(Tasklets) /\ Head(queue) \in Tasklets /\ Head(queue) \in Queued
         /\ Queued' = Queued \ {Head(queue)} /\ OneItem'
         /\ Len(queue) \in Nat \ {0} /\ Len(queue') = Len(queue) - 1
         /\ \A i \in DOMAIN queue' : i \in Nat /\ i + 1 \in DOMAIN queue /\ queue'[i] = queue[i + 1]
<1>1. /\ queue' \in Seq(Tasklets) /\ Head(queue) \in Tasklets
      /\ 1 \in DOMAIN queue /\ Head(queue) = queue[1]
      /\ Len(queue) \in Nat \ {0} /\ Len(queue') = Len(queue) - 1
      /\ DOMAIN queue = 1 .. Len(queue) /\ DOMAIN queue' = 1 .. Len(queue) - 1
      /\ \A i \in DOMAIN queue' : i \in Nat /\ i + 1 \in DOMAIN queue /\ queue'[i] = queue[i + 1]
  BY DEF PCTypes
<1>2. OneItem'
  <2> SUFFICES ASSUME NEW i \in DOMAIN queue', NEW j \in DOMAIN queue', queue'[i] = queue'[j]
               PROVE  i = j
    BY DEF OneItem
  <2>1. i + 1 = j + 1
    BY <1>1 DEF OneItem
  <2>2. QED
    BY <1>1, <2>1
<1>3. \A i \in DOMAIN queue' : queue'[i] # Head(queue)
  <2> SUFFICES ASSUME NEW i \in DOMAIN queue', queue'[i] = Head(queue) PROVE FALSE
    OBVIOUS
  <2>1. i + 1 = 1
    BY <1>1 DEF OneItem
  <2>2. QED
    BY <1>1, <2>1
<1>4. \A i \in DOMAIN queue : i = 1 \/ (i - 1 \in DOMAIN queue' /\ queue'[i - 1] = queue[i])
  <2> SUFFICES ASSUME NEW i \in DOMAIN queue, i # 1
               PROVE  i - 1 \in DOMAIN queue' /\ queue'[i - 1] = queue[i]
    OBVIOUS
  <2>1. i - 1 \in DOMAIN queue' /\ (i - 1) + 1 = i
    BY <1>1
  <2>2. queue'[i - 1] = queue[(i - 1) + 1]
    BY <1>1, <2>1
  <2>3. QED
    BY <2>1, <2>2
<1>5. \A y : y \in Queued' <=> y \in Queued /\ y # Head(queue)
  <2>1. ASSUME NEW i \in DOMAIN queue' PROVE queue'[i] \in Queued /\ queue'[i] # Head(queue)
    BY <1>1, <1>3 DEF Queued
  <2>2. ASSUME NEW i \in DOMAIN queue, queue[i] # Head(queue) PROVE queue[i] \in Queued'
    <3>1. i - 1 \in DOMAIN queue' /\ queue'[i - 1] = queue[i]
      BY <1>1, <1>4, <2>2
    <3>2. QED
      BY <3>1 DEF Queued
  <2>3. QED
    BY <2>1, <2>2 DEF Queued
<1>6. QED
  BY <1>1, <1>2, <1>5 DEF Queued

LEMMA QueueAppend ==
  ASSUME PCTypes, OneItem, NEW x \in Tasklets, x \notin Queued, queue' = Append(queue, x)
  PROVE  /\ queue' \in Seq(Tasklets)
         /\ Queued' = Queued \cup {x} /\ OneItem'
         /\ Len(queue) \in Nat /\ Len(queue') = Len(queue) + 1
         /\ DOMAIN queue = 1 .. Len(queue) /\ DOMAIN queue' = 1 .. Len(queue) + 1
         /\ \A i \in DOMAIN queue : queue'[i] = queue[i]
         /\ queue'[Len(queue) + 1] = x
<1>1. /\ queue' \in Seq(Tasklets)
      /\ Len(queue) \in Nat /\ Len(queue') = Len(queue) + 1
      /\ DOMAIN queue = 1 .. Len(queue) /\ DOMAIN queue' = 1 .. Len(queue) + 1
      /\ \A i \in DOMAIN queue : queue'[i] = queue[i]
      /\ queue'[Len(queue) + 1] = x
  BY DEF PCTypes
<1>2. /\ \A i \in DOMAIN queue' : i \in DOMAIN queue \/ i = Len(queue) + 1
      /\ \A i \in DOMAIN queue : i \in DOMAIN queue' /\ queue[i] # x
      /\ Len(queue) + 1 \in DOMAIN queue'
  BY <1>1 DEF Queued
<1>3. OneItem'
  BY <1>1, <1>2 DEF OneItem
<1>4. \A y : y \in Queued' <=> y \in Queued \/ y = x
  BY <1>1, <1>2 DEF Queued
<1>5. QED
  BY <1>1, <1>3, <1>4

-----------------------------------------------------------------------------
(* The order of the queue. *)

\* The queue as it was, and its producers as far as they were.
LEMMA OrderSame ==
  ASSUME InOrder, queue' = queue,
         \A p : (\E i \in DOMAIN queue : p = queue[i][1]) => Pushed(p)' = Pushed(p)
  PROVE  InOrder'
<1> SUFFICES ASSUME NEW i \in DOMAIN queue, NEW p, p = queue[i][1]
             PROVE  queue[i][2] <= Pushed(p)' /\ Behind(i)' = queue[i][2] + 1 .. Pushed(p)'
  BY DEF InOrder, Pushed
<1>1. Behind(i)' = Behind(i)
  BY DEF Behind
<1>2. Pushed(p)' = Pushed(p)
  OBVIOUS
<1>3. QED
  BY <1>1, <1>2 DEF InOrder

\* Its first item taken away.
LEMMA OrderTail ==
  ASSUME InOrder, PCTypes, OneItem, queue # << >>, queue' = Tail(queue),
         \A p \in Producers : Pushed(p)' = Pushed(p)
  PROVE  InOrder'
<1>1. /\ Len(queue) \in Nat \ {0} /\ Len(queue') = Len(queue) - 1
      /\ DOMAIN queue = 1 .. Len(queue) /\ DOMAIN queue' = 1 .. Len(queue')
      /\ \A i \in DOMAIN queue' : i \in Nat /\ i + 1 \in DOMAIN queue /\ queue'[i] = queue[i + 1]
  BY QueueTail DEF PCTypes
<1> SUFFICES ASSUME NEW i \in DOMAIN queue', NEW p, p = queue'[i][1]
             PROVE  queue'[i][2] <= Pushed(p)' /\ Behind(i)' = queue'[i][2] + 1 .. Pushed(p)'
  BY DEF InOrder, Pushed
<1>2. /\ i \in Nat /\ i + 1 \in DOMAIN queue /\ queue'[i] = queue[i + 1]
      /\ queue[i + 1] \in Tasklets
  BY <1>1 DEF PCTypes
<1>3. Pushed(p)' = Pushed(p) /\ p = queue[i + 1][1]
  BY <1>2, TaskletIs
<1>4. Behind(i)' = Behind(i + 1)
  <2>1. ASSUME NEW k \in i + 1 .. Len(queue')
        PROVE  k + 1 \in (i + 1) + 1 .. Len(queue) /\ queue'[k] = queue[k + 1]
    BY <1>1, <1>2
  <2>2. ASSUME NEW k \in (i + 1) + 1 .. Len(queue)
        PROVE  k - 1 \in i + 1 .. Len(queue') /\ queue'[k - 1] = queue[k]
    <3>1. k - 1 \in i + 1 .. Len(queue') /\ k - 1 \in DOMAIN queue' /\ (k - 1) + 1 = k
      BY <1>1, <1>2
    <3>2. QED
      BY <1>1, <3>1
  <2>3. ASSUME NEW n \in Behind(i)' PROVE n \in Behind(i + 1)
    <3>1. PICK k \in i + 1 .. Len(queue') : queue'[k][1] = queue'[i][1] /\ n = queue'[k][2]
      BY <2>3 DEF Behind
    <3>2. QED
      BY <1>2, <2>1, <3>1 DEF Behind
  <2>4. ASSUME NEW n \in Behind(i + 1) PROVE n \in Behind(i)'
    <3>1. PICK k \in (i + 1) + 1 .. Len(queue) : queue[k][1] = queue[i + 1][1] /\ n = queue[k][2]
      BY <2>4 DEF Behind
    <3>2. QED
      BY <1>2, <2>2, <3>1 DEF Behind
  <2>5. QED
    BY <2>3, <2>4
<1>5. QED
  BY <1>2, <1>3, <1>4 DEF InOrder

\* A producer's next put behind all.
LEMMA OrderAppend ==
  ASSUME InOrder, PCTypes, OneItem, NEW q \in Producers, NEW x \in Tasklets, x \notin Queued,
         queue' = Append(queue, x), x[1] = q, Pushed(q) \in Nat,
         x[2] = Pushed(q) + 1, Pushed(q)' = x[2],
         \A p \in Producers \ {q} : Pushed(p)' = Pushed(p)
  PROVE  InOrder'
<1>1. /\ Len(queue) \in Nat /\ Len(queue') = Len(queue) + 1
      /\ DOMAIN queue = 1 .. Len(queue) /\ DOMAIN queue' = 1 .. Len(queue) + 1
      /\ \A i \in DOMAIN queue : queue'[i] = queue[i]
      /\ queue'[Len(queue) + 1] = x
  BY QueueAppend
<1> SUFFICES ASSUME NEW i \in DOMAIN queue', NEW p, p = queue'[i][1]
             PROVE  queue'[i][2] <= Pushed(p)' /\ Behind(i)' = queue'[i][2] + 1 .. Pushed(p)'
  BY DEF InOrder, Pushed
<1>2. CASE i = Len(queue) + 1
  <2>1. queue'[i] = x /\ Pushed(p)' = x[2]
    BY <1>1, <1>2
  <2>2. Behind(i)' = {}
    BY <1>1, <1>2 DEF Behind
  <2>3. x[2] \in Nat
    BY TaskletIs DEF PCTypes
  <2>4. x[2] + 1 .. x[2] = {}
    BY <2>3
  <2>5. QED
    BY <2>1, <2>2, <2>3, <2>4
<1>3. CASE i # Len(queue) + 1
  <2>1. /\ i \in DOMAIN queue /\ queue'[i] = queue[i] /\ queue[i] \in Tasklets /\ i \in Nat
        /\ p = queue[i][1]
    BY <1>1, <1>3 DEF PCTypes
  <2>2. /\ queue[i][2] <= Pushed(p) /\ Behind(i) = queue[i][2] + 1 .. Pushed(p)
        /\ p \in Producers /\ queue[i][2] \in Nat
    BY <2>1, TaskletIs DEF InOrder
  <2>4. \A k \in i + 1 .. Len(queue') :
          \/ k \in i + 1 .. Len(queue) /\ queue'[k] = queue[k]
          \/ k = Len(queue) + 1 /\ queue'[k] = x
    BY <1>1, <2>1
  <2>5. /\ \A k \in i + 1 .. Len(queue) : k \in i + 1 .. Len(queue') /\ queue'[k] = queue[k]
        /\ Len(queue) + 1 \in i + 1 .. Len(queue')
    BY <1>1, <2>1
  <2>6. CASE p = x[1]
    <3>1. \A n : n \in Behind(i)' <=> n \in Behind(i) \/ n = x[2]
      BY <1>1, <2>1, <2>4, <2>5, <2>6 DEF Behind
    <3>2. /\ Pushed(p) \in Nat /\ x[2] = Pushed(p) + 1 /\ Pushed(p)' = Pushed(p) + 1
      BY <2>6
    <3>3. \A n : n \in Behind(i)' <=> n \in queue[i][2] + 1 .. Pushed(p) + 1
      BY <2>2, <3>1, <3>2
    <3>4. Behind(i)' = queue[i][2] + 1 .. Pushed(p) + 1
      BY <3>3
    <3>5. QED
      BY <2>1, <2>2, <3>2, <3>4
  <2>7. CASE p # x[1]
    <3>1. \A n : n \in Behind(i)' <=> n \in Behind(i)
      BY <1>1, <2>1, <2>4, <2>5, <2>7 DEF Behind
    <3>2. QED
      BY <2>1, <2>2, <2>7, <3>1
  <2>8. QED
    BY <2>6, <2>7
<1>4. QED
  BY <1>2, <1>3

-----------------------------------------------------------------------------
(* The steps that hand tasklets on. *)

LEMMA GotoMoves ==
  ASSUME PCTypes, NEW t \in Threads, NEW from, NEW to, Goto(t, from, to)
  PROVE  /\ pc[t] = from /\ pc'[t] = to
         /\ \A u \in Threads \ {t} : pc'[u] = pc[u]
         /\ to \in { "new", "start", "count", "leave", "done" } \cup Loops =>
              pc' \in [Threads -> { "new", "start", "count", "leave", "done" } \cup Loops]
  BY DEF Goto, PCTypes

\* While a thread is not done the owner has not joined it.
LEMMA GenerateKeeps ==
  ASSUME PCInv, NEW p \in Producers, Generate(p)
  PROVE  PCInv'
<1> USE PCAssumption DEF PCInv
<1> DEFINE x == << p, made[p] + 1 >>
<1>1. /\ p \in Threads /\ pc[p] = "work" /\ pc'[p] = "dispatch"
      /\ \A u \in Threads \ {p} : pc'[u] = pc[u]
      /\ pc' \in [Threads -> { "new", "start", "count", "leave", "done" } \cup Loops]
      /\ hand[p] = Nobody /\ hand' = [hand EXCEPT ![p] = x]
      /\ made[p] \in Nat /\ made[p] < Limit[p] /\ Limit[p] \in Nat
      /\ made' = [made EXCEPT ![p] = made[p] + 1]
      /\ UNCHANGED << attached, queue, reports, deleted, owner >>
  <2>1. p \in Threads
    BY DEF Threads
  <2>2. /\ pc[p] = "work" /\ pc'[p] = "dispatch"
        /\ \A u \in Threads \ {p} : pc'[u] = pc[u]
        /\ pc' \in [Threads -> { "new", "start", "count", "leave", "done" } \cup Loops]
    BY <2>1, GotoMoves DEF Generate, Loops
  <2>3. QED
    BY <2>1, <2>2 DEF Generate, Take, PCTypes, InHand
<1>2. x \in Tasklets /\ x[1] = p /\ x[2] = made[p] + 1
  BY <1>1, TaskletIs
<1>3. x \notin Made
  BY <1>1, <1>2 DEF Made
<1>4. Made' = Made \cup {x}
  <2>1. \A q \in Producers \ {p} : made'[q] = made[q]
    BY <1>1 DEF PCTypes
  <2>2. made'[p] = made[p] + 1
    BY <1>1 DEF PCTypes
  <2>3. ASSUME NEW y \in Tasklets
        PROVE  y[2] <= made'[y[1]] <=> y[2] <= made[y[1]] \/ y = x
    <3>1. y[1] \in Producers /\ y[2] \in Nat /\ y = << y[1], y[2] >>
      BY <1>1, TaskletIs
    <3>2. CASE y[1] = p
      BY <1>1, <1>2, <2>2, <3>1, <3>2
    <3>3. CASE y[1] # p
      BY <1>2, <2>1, <3>1, <3>3
    <3>4. QED
      BY <3>2, <3>3
  <2>4. QED
    BY <1>2, <2>3 DEF Made
<1> HIDE DEF x
<1>5. OneHand /\ x \notin Held /\ x \notin Queued /\ x \notin deleted
  BY <1>3 DEF OnePlace, OneHand
<1>6. /\ hand' \in [Threads -> Tasklets \cup {Nobody}]
      /\ Held' = Held \cup {x} /\ OneHand'
      /\ \A u \in Threads \ {p} : hand'[u] = hand[u]
      /\ hand'[p] = x
  BY <1>1, <1>2, <1>5, HandFilled
<1>7. PCTypes'
  BY <1>1, <1>6 DEF PCTypes
<1>8. InHand'
  <2>1. x # Nobody /\ x = << p, made'[p] >>
    BY <1>1, <1>2, TaskletIs DEF x, PCTypes
  <2>2. owner' = "up"
    BY <1>1 DEF InHand, PCTypes
  <2>3. QED
    BY <1>1, <1>6, <2>1, <2>2 DEF InHand, PCTypes
<1>9. OnePlace'
  <2>1. Queued' = Queued /\ deleted' = deleted
    BY <1>1 DEF Queued
  <2>2. \A i, j \in DOMAIN queue' : queue'[i] = queue'[j] => i = j
    BY <1>1 DEF OnePlace
  <2>3. /\ Made' = Held' \cup Queued' \cup deleted'
        /\ Held' \cap Queued' = {} /\ Held' \cap deleted' = {} /\ Queued' \cap deleted' = {}
    BY <1>4, <1>5, <1>6, <2>1 DEF OnePlace
  <2>4. QED
    BY <1>6, <2>2, <2>3 DEF OnePlace, OneHand
<1>10. ResultsTold'
  <2>1. \A t \in Threads : pc'[t] = "execute" => pc[t] = "execute" /\ hand'[t] = hand[t]
    BY <1>1 DEF PCTypes
  <2>2. QED
    BY <1>1, <2>1 DEF ResultsTold, ToldRight
<1>11. InOrder'
  <2>1. \A q \in Producers : Pushed(q)' = Pushed(q)
    <3>1. Pushed(p)' = Pushed(p)
      BY <1>1, <1>2, <1>6, TaskletIs DEF Pushed, PCTypes
    <3>2. \A q \in Producers \ {p} : Pushed(q)' = Pushed(q)
      BY <1>1, <1>6 DEF Pushed, PCTypes, Threads
    <3>3. QED
      BY <3>1, <3>2
  <2>2. \A i \in DOMAIN queue : queue[i][1] \in Producers
    BY TaskletIs DEF PCTypes
  <2>3. QED
    BY <1>1, <2>1, <2>2, OrderSame
<1>12. QED
  BY <1>7, <1>8, <1>9, <1>10, <1>11

\* What a thread in the middle of handing on a tasklet has in hand.
LEMMA Handing ==
  ASSUME PCInv, NEW t \in Threads, NEW from \in { "dispatch", "execute" }, Goto(t, from, "work"),
         hand' = [hand EXCEPT ![t] = Nobody], UNCHANGED << attached, made, owner >>
  PROVE  /\ pc[t] = from
         /\ hand[t] \in Tasklets /\ hand[t] \in Held /\ hand[t] \notin Queued \cup deleted
         /\ Held' = Held \ {hand[t]} /\ OneHand' /\ InHand' /\ Made' = Made
         /\ \A u \in Threads \ {t} : hand'[u] = hand[u]
         /\ hand'[t] = Nobody
         /\ hand' \in [Threads -> Tasklets \cup {Nobody}]
         /\ pc' \in [Threads -> { "new", "start", "count", "leave", "done" } \cup Loops]
         /\ owner = "up"
<1> USE DEF PCInv
<1>1. /\ pc[t] = from /\ pc'[t] = "work"
      /\ \A u \in Threads \ {t} : pc'[u] = pc[u]
      /\ pc' \in [Threads -> { "new", "start", "count", "leave", "done" } \cup Loops]
  BY GotoMoves DEF Loops
<1>2. hand[t] # Nobody
  BY <1>1 DEF InHand
<1>3. /\ hand[t] \in Tasklets /\ hand[t] \in Held
      /\ Held' = Held \ {hand[t]} /\ OneHand'
      /\ \A u \in Threads \ {t} : hand'[u] = hand[u]
      /\ hand'[t] = Nobody
      /\ hand' \in [Threads -> Tasklets \cup {Nobody}]
  BY <1>2, HandEmptied DEF OnePlace, OneHand
<1>4. hand[t] \notin Queued \cup deleted
  BY <1>3 DEF OnePlace
<1>5. owner = "up"
  BY <1>1 DEF InHand, PCTypes
<1>6. InHand'
  BY <1>1, <1>3, <1>5 DEF InHand
<1>7. Made' = Made
  BY DEF Made
<1>8. QED
  BY <1>1, <1>3, <1>4, <1>5, <1>6, <1>7

LEMMA DispatchKeeps ==
  ASSUME PCInv, NEW p \in Producers, Dispatch(p)
  PROVE  PCInv'
<1> USE PCAssumption DEF PCInv
<1> DEFINE x == hand[p]
<1>1. /\ p \in Threads /\ p \in attached
      /\ Goto(p, "dispatch", "work") /\ hand' = [hand EXCEPT ![p] = Nobody]
      /\ queue' = Append(queue, x)
      /\ UNCHANGED << attached, made, reports, deleted, owner >>
  BY DEF Dispatch, Threads
<1>2. /\ pc[p] = "dispatch"
      /\ x \in Tasklets /\ x \in Held /\ x \notin Queued \cup deleted
      /\ Held' = Held \ {x} /\ OneHand' /\ InHand' /\ Made' = Made
      /\ \A u \in Threads \ {p} : hand'[u] = hand[u]
      /\ hand'[p] = Nobody
      /\ hand' \in [Threads -> Tasklets \cup {Nobody}]
      /\ pc' \in [Threads -> { "new", "start", "count", "leave", "done" } \cup Loops]
  BY <1>1, Handing
<1>3. x = << p, made[p] >> /\ x # Nobody
  BY <1>1, <1>2, TaskletIs DEF InHand
<1> HIDE DEF x
<1>4. OneItem
  BY DEF OnePlace, OneItem
<1>5. /\ queue' \in Seq(Tasklets)
      /\ Queued' = Queued \cup {x} /\ OneItem'
      /\ DOMAIN queue = 1 .. Len(queue) /\ DOMAIN queue' = 1 .. Len(queue) + 1
      /\ \A i \in DOMAIN queue : queue'[i] = queue[i]
      /\ queue'[Len(queue) + 1] = x
      /\ Len(queue) \in Nat
  BY <1>1, <1>2, <1>4, QueueAppend
<1>6. PCTypes'
  BY <1>1, <1>2, <1>5 DEF PCTypes
<1>7. OnePlace'
  <2>1. /\ Made' = Held' \cup Queued' \cup deleted'
        /\ Held' \cap Queued' = {} /\ Held' \cap deleted' = {} /\ Queued' \cap deleted' = {}
    BY <1>1, <1>2, <1>5 DEF OnePlace
  <2>2. QED
    BY <1>2, <1>5, <2>1 DEF OnePlace, OneHand, OneItem
<1>8. ResultsTold'
  <2>1. \A i \in DOMAIN queue' : i \in DOMAIN queue \/ queue'[i] = x
    BY <1>5
  <2>2. \A i \in DOMAIN queue' : queue'[i][1] \in attached
    BY <1>1, <1>3, <1>5, <2>1 DEF ResultsTold
  <2>3. QED
    <3>1. \A t \in Threads : pc'[t] = "execute" => pc[t] = "execute" /\ hand'[t] = hand[t]
      BY <1>1, <1>2 DEF Goto, PCTypes
    <3>2. QED
      BY <1>1, <2>2, <3>1 DEF ResultsTold, ToldRight
<1>9. InOrder'
  <2>1. /\ Pushed(p) = made[p] - 1 /\ Pushed(p)' = made[p] /\ x[1] = p /\ x[2] = made[p]
        /\ made[p] \in Nat /\ x[2] \in Nat \ {0}
    <3>1. x[1] = p /\ x[2] = made[p] /\ x[2] \in 1 .. Limit[x[1]] /\ made[p] \in Nat
      BY <1>2, <1>3, TaskletIs DEF PCTypes
    <3>2. hand[p] # Nobody
      BY <1>3 DEF x
    <3>3. QED
      BY <1>1, <1>2, <3>1, <3>2 DEF Pushed
  <2>2. \A q \in Producers \ {p} : Pushed(q)' = Pushed(q)
    BY <1>1, <1>2 DEF Pushed, Threads
  <2>3. x[2] = Pushed(p) + 1 /\ Pushed(p) \in Nat
    BY <2>1
  <2>4. QED
    BY <1>1, <1>2, <1>4, <2>1, <2>2, <2>3, OrderAppend
<1>10. QED
  BY <1>2, <1>6, <1>7, <1>8, <1>9

LEMMA OneReport ==
  ASSUME NEW rc \in Result
  PROVE  /\ Reported(rc) \in Seq(Result) /\ << >> \o Reported(rc) = Reported(rc)
         /\ Reported(rc) = Told(rc)
<1>1. CASE rc = "NOT_AVAILABLE"
  <2> DEFINE two == << "NOT_AVAILABLE", "SUCCESS" >>
  <2>1. Reported(rc) = two /\ Told(rc) = two
    BY <1>1 DEF Reported, Told
  <2>2. two \in Seq(Result)
    BY DEF Result
  <2> HIDE DEF two
  <2>3. << >> \o two = two
    BY <2>2
  <2>4. QED
    BY <2>1, <2>2, <2>3
<1>2. CASE rc # "NOT_AVAILABLE"
  <2>1. Reported(rc) = << rc >>
    BY <1>2 DEF Reported
  <2>2. QED
    BY <1>2, <2>1 DEF Told
<1>3. QED
  BY <1>1, <1>2

\* Deleted by its producer, who has no queue, or executed by a consumer.
LEMMA EndKeeps ==
  ASSUME PCInv, NEW t \in Threads,
         \/ t \in Producers /\ DispatchFails(t)
         \/ t \in Consumers /\ Execute(t)
  PROVE  PCInv'
<1> USE PCAssumption DEF PCInv
<1> DEFINE x == hand[t]
<1>1. PICK from \in { "dispatch", "execute" } :
        /\ Goto(t, from, "work") /\ hand' = [hand EXCEPT ![t] = Nobody]
        /\ deleted' = deleted \cup {x}
        /\ UNCHANGED << attached, made, queue, owner >>
        /\ \/ from = "dispatch" /\ t \notin attached /\ UNCHANGED reports
           \/ from = "execute" /\ t \in Consumers
              /\ reports' = [reports EXCEPT ![x] = @ \o Reported(Outcome[x])]
  BY DEF DispatchFails, Execute
<1>2. /\ pc[t] = from
      /\ x \in Tasklets /\ x \in Held /\ x \notin Queued \cup deleted
      /\ Held' = Held \ {x} /\ OneHand' /\ InHand' /\ Made' = Made
      /\ \A u \in Threads \ {t} : hand'[u] = hand[u]
      /\ hand'[t] = Nobody
      /\ hand' \in [Threads -> Tasklets \cup {Nobody}]
      /\ pc' \in [Threads -> { "new", "start", "count", "leave", "done" } \cup Loops]
  <2>1. CASE from = "dispatch"
    BY <1>1, <2>1, Handing
  <2>2. CASE from = "execute"
    BY <1>1, <2>2, Handing
  <2>3. QED
    BY <2>1, <2>2
<1>3. from = "dispatch" => x[1] = t
  BY <1>2 DEF InHand
<1> HIDE DEF x
<1>4. reports[x] = << >>
  BY <1>2 DEF ResultsTold
<1>5. from = "execute" =>
        reports'[x] \in Seq(Result) /\ reports'[x] = Told(Outcome[x]) /\ x[1] \in attached
  <2> SUFFICES ASSUME from = "execute"
               PROVE  /\ reports'[x] \in Seq(Result) /\ reports'[x] = Told(Outcome[x])
                      /\ x[1] \in attached
    OBVIOUS
  <2>1. Outcome[x] \in Result
    BY <1>2, OutcomeAssumption
  <2>2. << >> \o Reported(Outcome[x]) = Reported(Outcome[x])
    BY <2>1, OneReport
  <2>3. reports'[x] = Reported(Outcome[x])
    BY <1>1, <1>2, <1>4, <2>2 DEF PCTypes
  <2>4. Reported(Outcome[x]) \in Seq(Result) /\ Reported(Outcome[x]) = Told(Outcome[x])
    BY <2>1, OneReport
  <2>5. x[1] \in attached
    BY <1>2 DEF ResultsTold, x
  <2>6. QED
    BY <2>3, <2>4, <2>5
<1>6. PCTypes'
  <2>1. reports' \in [Tasklets -> Seq(Result)]
    BY <1>1, <1>2, <1>5 DEF PCTypes
  <2>2. QED
    BY <1>1, <1>2, <2>1 DEF PCTypes
<1>7. OnePlace'
  <2>1. Queued' = Queued
    BY <1>1 DEF Queued
  <2>2. /\ Made' = Held' \cup Queued' \cup deleted'
        /\ Held' \cap Queued' = {} /\ Held' \cap deleted' = {} /\ Queued' \cap deleted' = {}
    BY <1>1, <1>2, <2>1 DEF OnePlace
  <2>3. \A i, j \in DOMAIN queue' : queue'[i] = queue'[j] => i = j
    BY <1>1 DEF OnePlace
  <2>4. QED
    BY <1>2, <2>2, <2>3 DEF OnePlace, OneHand
<1>8. ResultsTold'
  <2>1. \A y \in Tasklets : y # x => reports'[y] = reports[y]
    BY <1>1 DEF PCTypes
  <2>2. \A i \in DOMAIN queue' : queue'[i][1] \in attached'
    BY <1>1 DEF ResultsTold
  <2>3. \A y \in Tasklets \ deleted' : reports'[y] = << >>
    BY <1>1, <2>1 DEF ResultsTold
  <2>4. ASSUME NEW y \in deleted'
        PROVE  ToldRight(y)'
    <3>1. CASE y = x
      <4>1. CASE from = "dispatch"
        BY <1>1, <1>3, <1>4, <3>1, <4>1 DEF ToldRight
      <4>2. CASE from = "execute"
        BY <1>1, <1>5, <3>1, <4>2 DEF ToldRight
      <4>3. QED
        BY <4>1, <4>2
    <3>2. CASE y # x
      <4>1. y \in deleted /\ y \in Tasklets /\ reports'[y] = reports[y]
        BY <1>1, <2>1, <2>4, <3>2 DEF PCTypes
      <4>2. QED
        BY <1>1, <4>1 DEF ResultsTold, ToldRight
    <3>3. QED
      BY <3>1, <3>2
  <2>5. \A u \in Threads : pc'[u] = "execute" => hand'[u][1] \in attached'
    <3>1. \A u \in Threads : pc'[u] = "execute" => u # t /\ pc[u] = "execute"
      BY <1>1, <1>2 DEF Goto
    <3>2. QED
      BY <1>1, <1>2, <3>1 DEF ResultsTold
  <2>6. QED
    BY <2>2, <2>3, <2>4, <2>5 DEF ResultsTold
<1>9. InOrder'
  <2>1. ASSUME NEW p, NEW i \in DOMAIN queue, p = queue[i][1]
        PROVE  Pushed(p)' = Pushed(p)
    <3>1. p \in Producers /\ p \in attached
      BY <2>1, TaskletIs DEF PCTypes, ResultsTold
    <3>2. p \in Threads /\ p # t
      BY <1>1, <3>1 DEF Threads
    <3>3. QED
      BY <1>1, <1>2, <3>2 DEF Pushed
  <2>2. QED
    BY <1>1, <2>1, OrderSame
<1>10. QED
  BY <1>2, <1>6, <1>7, <1>8, <1>9

LEMMA PopKeeps ==
  ASSUME PCInv, NEW c \in Consumers, Fetch(c)
  PROVE  PCInv'
<1> USE PCAssumption DEF PCInv
<1> DEFINE x == Head(queue)
<1>1. /\ c \in Threads /\ pc[c] = "work" /\ pc'[c] = "execute"
      /\ \A u \in Threads \ {c} : pc'[u] = pc[u]
      /\ pc' \in [Threads -> { "new", "start", "count", "leave", "done" } \cup Loops]
      /\ hand[c] = Nobody /\ hand' = [hand EXCEPT ![c] = x]
      /\ queue # << >> /\ queue' = Tail(queue)
      /\ UNCHANGED << attached, made, reports, deleted, owner >>
  <2>1. c \in Threads
    BY DEF Threads
  <2>2. /\ pc[c] = "work" /\ pc'[c] = "execute"
        /\ \A u \in Threads \ {c} : pc'[u] = pc[u]
        /\ pc' \in [Threads -> { "new", "start", "count", "leave", "done" } \cup Loops]
    BY <2>1, GotoMoves DEF Fetch, Loops
  <2>3. QED
    BY <2>1, <2>2 DEF Fetch, Take, PCTypes, InHand
<1>2. OneItem /\ OneHand
  BY DEF OnePlace, OneItem, OneHand
<1>3. /\ queue' \in Seq(Tasklets) /\ x \in Tasklets /\ x \in Queued
      /\ Queued' = Queued \ {x} /\ OneItem'
      /\ \A i \in DOMAIN queue' : i + 1 \in DOMAIN queue /\ queue'[i] = queue[i + 1]
  BY <1>1, <1>2, QueueTail
<1> HIDE DEF x
<1>4. x \notin Held /\ x \notin deleted
  BY <1>3 DEF OnePlace
<1>5. /\ hand' \in [Threads -> Tasklets \cup {Nobody}]
      /\ Held' = Held \cup {x} /\ OneHand'
      /\ \A u \in Threads \ {c} : hand'[u] = hand[u]
      /\ hand'[c] = x
  BY <1>1, <1>2, <1>3, <1>4, HandFilled
<1>6. PCTypes'
  BY <1>1, <1>3, <1>5 DEF PCTypes
<1>7. InHand'
  <2>1. x # Nobody
    BY <1>3, TaskletIs
  <2>2. owner' = "up"
    BY <1>1 DEF InHand, PCTypes
  <2>3. QED
    BY <1>1, <1>5, <2>1, <2>2 DEF InHand
<1>8. OnePlace'
  <2>1. Made' = Made
    BY <1>1 DEF Made
  <2>2. /\ Made' = Held' \cup Queued' \cup deleted'
        /\ Held' \cap Queued' = {} /\ Held' \cap deleted' = {} /\ Queued' \cap deleted' = {}
    BY <1>1, <1>3, <1>4, <1>5, <2>1 DEF OnePlace
  <2>3. QED
    BY <1>3, <1>5, <2>2 DEF OnePlace, OneHand, OneItem
<1>9. ResultsTold'
  <2>1. \A i \in DOMAIN queue' : queue'[i][1] \in attached'
    BY <1>1, <1>3 DEF ResultsTold
  <2>2. x[1] \in attached
    BY <1>3 DEF ResultsTold, Queued
  <2>3. \A t \in Threads : pc'[t] = "execute" => hand'[t][1] \in attached'
    <3>1. \A t \in Threads \ {c} : hand'[t] = hand[t] /\ pc'[t] = pc[t]
      BY <1>1, <1>5
    <3>2. QED
      BY <1>1, <1>5, <2>2, <3>1 DEF ResultsTold
  <2>4. QED
    BY <1>1, <2>1, <2>3 DEF ResultsTold, ToldRight
<1>10. InOrder'
  <2>1. \A p \in Producers : Pushed(p)' = Pushed(p)
    BY <1>1, <1>5 DEF Pushed, Threads
  <2>2. QED
    BY <1>1, <1>2, <2>1, OrderTail
<1>11. QED
  BY <1>6, <1>7, <1>8, <1>9, <1>10

LEMMA CancelKeeps ==
  ASSUME PCInv, Cancel
  PROVE  PCInv'
<1> USE PCAssumption DEF PCInv
<1> DEFINE x == Head(queue)
<1>1. /\ owner = "destroy" /\ queue # << >> /\ queue' = Tail(queue)
      /\ reports' = [reports EXCEPT ![x] = Append(@, "CANCELLED")]
      /\ deleted' = deleted \cup {x}
      /\ UNCHANGED << pc, attached, hand, made, owner >>
  BY DEF Cancel
<1>2. OneItem
  BY DEF OnePlace, OneItem
<1>3. /\ queue' \in Seq(Tasklets) /\ x \in Tasklets /\ x \in Queued
      /\ Queued' = Queued \ {x} /\ OneItem'
      /\ \A i \in DOMAIN queue' : i + 1 \in DOMAIN queue /\ queue'[i] = queue[i + 1]
  BY <1>1, <1>2, QueueTail
<1> HIDE DEF x
<1>4. x \notin Held /\ x \notin deleted
  BY <1>3 DEF OnePlace
<1>5. reports'[x] = << "CANCELLED" >>
  <2>1. reports[x] = << >>
    BY <1>3, <1>4 DEF ResultsTold
  <2>2. QED
    BY <1>1, <1>3, <2>1 DEF PCTypes
<1>6. PCTypes'
  <2>1. << "CANCELLED" >> \in Seq(Result)
    BY DEF Result
  <2>2. reports' \in [Tasklets -> Seq(Result)]
    BY <1>1, <1>3, <1>5, <2>1 DEF PCTypes
  <2>3. QED
    BY <1>1, <1>3, <2>2 DEF PCTypes
<1>7. InHand'
  BY <1>1 DEF InHand
<1>8. OnePlace'
  <2>1. Made' = Made /\ Held' = Held
    BY <1>1 DEF Made, Held
  <2>2. /\ Made' = Held' \cup Queued' \cup deleted'
        /\ Held' \cap Queued' = {} /\ Held' \cap deleted' = {} /\ Queued' \cap deleted' = {}
    BY <1>1, <1>3, <1>4, <2>1 DEF OnePlace
  <2>3. \A t, u \in Threads : hand'[t] = hand'[u] /\ hand'[t] # Nobody => t = u
    BY <1>1 DEF OnePlace
  <2>4. QED
    BY <1>3, <2>2, <2>3 DEF OnePlace, OneItem
<1>9. ResultsTold'
  <2>1. \A y \in Tasklets : y # x => reports'[y] = reports[y]
    BY <1>1 DEF PCTypes
  <2>2. \A i \in DOMAIN queue' : queue'[i][1] \in attached'
    BY <1>1, <1>3 DEF ResultsTold
  <2>3. \A y \in Tasklets \ deleted' : reports'[y] = << >>
    BY <1>1, <2>1 DEF ResultsTold
  <2>4. ASSUME NEW y \in deleted'
        PROVE  ToldRight(y)'
    <3>1. CASE y = x
      <4>1. x[1] \in attached
        BY <1>3 DEF ResultsTold, Queued
      <4>2. QED
        BY <1>1, <1>5, <3>1, <4>1 DEF ToldRight
    <3>2. CASE y # x
      <4>1. y \in deleted /\ y \in Tasklets /\ reports'[y] = reports[y]
        BY <1>1, <2>1, <2>4, <3>2 DEF PCTypes
      <4>2. QED
        BY <1>1, <4>1 DEF ResultsTold, ToldRight
    <3>3. QED
      BY <3>1, <3>2
  <2>5. \A u \in Threads : pc'[u] = "execute" => hand'[u][1] \in attached'
    BY <1>1 DEF ResultsTold
  <2>6. QED
    BY <2>2, <2>3, <2>4, <2>5 DEF ResultsTold
<1>10. InOrder'
  <2>1. \A p \in Producers : Pushed(p)' = Pushed(p)
    BY <1>1 DEF Pushed
  <2>2. QED
    BY <1>1, <1>2, <2>1, OrderTail
<1>11. QED
  BY <1>6, <1>7, <1>8, <1>9, <1>10

-----------------------------------------------------------------------------
(* Every step, and the theorems. *)

LEMMA ThreadQuiet ==
  ASSUME PCInv, NEW t \in Threads,
         \/ Start(t) \/ Top(t) \/ After(t) \/ Create(t)
         \/ t \in Producers /\ (CountActive(t) \/ Leave(t) \/ NoMore(t))
         \/ t \in Consumers /\ FetchNone(t)
  PROVE  PCInv'
<1>1. PICK from \in { "new", "start", "count", "leave", "top", "work", "after" },
           to \in { "start", "count", "leave", "done", "top", "work", "after" } :
        /\ Goto(t, from, to)
        /\ UNCHANGED << attached, hand, made, queue, reports, deleted, owner >>
  BY DEF Start, Top, After, Create, CountActive, Leave, NoMore, FetchNone, Finish, Exit, work
<1>2. /\ pc[t] = from /\ pc'[t] = to
      /\ \A u \in Threads \ {t} : pc'[u] = pc[u]
      /\ pc' \in [Threads -> { "new", "start", "count", "leave", "done" } \cup Loops]
  BY <1>1, GotoMoves DEF Loops, PCInv
<1>3. \A u \in Threads :
        \/ pc'[u] = pc[u]
        \/ pc[u] \notin { "dispatch", "execute", "done" } /\ pc'[u] \notin { "dispatch", "execute" }
  BY <1>2
<1>4. QED
  BY <1>1, <1>2, <1>3, QuietKeeps

LEMMA OwnerQuiet ==
  ASSUME PCInv,
         Join \/ Destroyed \/ (\E t \in Threads : SetStop(t)) \/ UNCHANGED vars
  PROVE  PCInv'
<1>1. UNCHANGED << pc, attached, hand, made, queue, reports, deleted >>
  BY DEF Join, Destroyed, SetStop, work, vars
<1>2. pc' \in [Threads -> { "new", "start", "count", "leave", "done" } \cup Loops]
  BY <1>1 DEF PCInv, PCTypes
<1>3. \/ owner' = owner
      \/ owner = "up" /\ owner' = "destroy" /\ \A t \in Threads : pc[t] = "done"
      \/ owner = "destroy" /\ owner' = "gone" /\ queue = << >>
  BY DEF Join, Destroyed, SetStop, vars
<1>4. QED
  BY <1>1, <1>2, <1>3, QuietKeeps

LEMMA PCNext == PCInv /\ [Next]_vars => PCInv'
<1> SUFFICES ASSUME PCInv, [Next]_vars PROVE PCInv'
  OBVIOUS
<1>1. ASSUME NEW t \in Threads, Run(t) PROVE PCInv'
  <2>1. CASE Start(t) \/ Top(t) \/ After(t)
    BY <2>1, ThreadQuiet
  <2>2. CASE t \in Producers /\ ProducerStep(t)
    <3>1. CASE CountActive(t) \/ Leave(t) \/ NoMore(t)
      BY <2>2, <3>1, ThreadQuiet
    <3>2. CASE Generate(t)
      BY <2>2, <3>2, GenerateKeeps
    <3>3. CASE Dispatch(t)
      BY <2>2, <3>3, DispatchKeeps
    <3>4. CASE DispatchFails(t)
      BY <2>2, <3>4, EndKeeps
    <3>5. QED
      BY <2>2, <3>1, <3>2, <3>3, <3>4 DEF ProducerStep
  <2>3. CASE t \in Consumers /\ ConsumerStep(t)
    <3>1. CASE Fetch(t)
      BY <2>3, <3>1, PopKeeps
    <3>2. CASE FetchNone(t)
      BY <2>3, <3>2, ThreadQuiet
    <3>3. CASE Execute(t)
      BY <2>3, <3>3, EndKeeps
    <3>4. QED
      BY <2>3, <3>1, <3>2, <3>3 DEF ConsumerStep
  <2>4. QED
    BY <1>1, <2>1, <2>2, <2>3 DEF Run
<1>2. ASSUME NEW t \in Threads, Create(t) PROVE PCInv'
  BY <1>2, ThreadQuiet
<1>3. CASE Cancel
  BY <1>3, CancelKeeps
<1>4. CASE Join \/ Destroyed \/ (\E t \in Threads : SetStop(t)) \/ UNCHANGED vars
  BY <1>4, OwnerQuiet
<1>5. QED
  BY <1>1, <1>2, <1>3, <1>4 DEF Next, OwnerStep

LEMMA PCInvariant == Spec => []PCInv
BY PCInit, PCNext, PTL DEF Spec

\* Every tasklet that was generated is held by one thread, once in the queue, or deleted: none
\* is executed twice, deleted twice or lost, whatever the threads and their queues
\* (producer_consumer.h:183).
THEOREM EachInOnePlace == Spec => []OnePlace
<1>1. PCInv => OnePlace
  BY DEF PCInv
<1>2. QED
  BY <1>1, PCInvariant, PTL

\* The tasklets of one producer leave the queue in the order in which it generated them.
THEOREM ProducersInOrder == Spec => []InOrder
<1>1. PCInv => InOrder
  BY DEF PCInv
<1>2. QED
  BY <1>1, PCInvariant, PTL

\* A tasklet is told what its process() returned when it is executed, and nothing before or
\* after, but for the success that follows NOT_AVAILABLE; cancelled only by ~Queue(); and
\* nothing when its producer had no queue.  None is left when the queue is gone.
THEOREM OneResultEach == Spec => []OneResult
<1>1. PCInv => OneResult
  <2> SUFFICES ASSUME PCInv PROVE OneResult
    OBVIOUS
  <2>1. owner = "gone" => deleted = Made
    <3> SUFFICES ASSUME owner = "gone" PROVE deleted = Made
      OBVIOUS
    <3>1. Queued = {}
      BY DEF PCInv, InHand, Queued
    <3>2. Held = {}
      BY DEF PCInv, InHand, Held
    <3>3. QED
      BY <3>1, <3>2 DEF PCInv, OnePlace
  <2>2. QED
    BY <2>1 DEF PCInv, ResultsTold, ToldRight, OneResult
<1>2. QED
  BY <1>1, PCInvariant, PTL
=============================================================================
