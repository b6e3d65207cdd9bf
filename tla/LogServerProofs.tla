-------------------------- MODULE LogServerProofs --------------------------
(***************************************************************************)
(* Theorems about LogServer, for any number of workers, messages and       *)
(* servers, and callers that keep the contract.                            *)
(***************************************************************************)
EXTENDS LogServer, FiniteSetTheorems, TLAPS

\* Where a caller stands inside getInstance(), where it holds the lock, and where a
\* server's thread has said that it is ready.
Asking  == { "look", "lock", "check", "spin", "unlock", "return" }
Holding == { "check", "spin", "unlock", "delete" }
Serving == { "ready", "wait", "receive", "timers" }

LogTypes ==
  /\ uniq \in 0 .. MaxServers /\ created \in 0 .. MaxServers
  /\ ready \in BOOLEAN
  /\ deleted \in SUBSET Servers
  /\ server \in [Servers -> { "none", "new", "bound", "ended" } \cup Serving]
  /\ pc \in [Callers -> Asking \cup { "idle", "connect", "log", "started", "flag", "join",
                                      "lock2", "delete" }]
  /\ \A w \in Workers : pc[w] \in Asking \cup { "idle", "connect", "log" }
  /\ todo \in [Callers -> { "started", "flag", "join", "connect" }]
  /\ got \in [Callers -> 0 .. MaxServers]
  /\ sent \in [Workers -> 0 .. Messages]

\* The mutex is held by the one caller that stands where it is held.
OneHolder ==
  /\ lock = { c \in Callers : pc[c] \in Holding }
  /\ \A c, d \in lock : c = d

\* All servers but the last one made were deleted, after their threads had ended; and the
\* last one is uniq_instance_, or is still being waited for, or was deleted as well.
OneLife ==
  /\ \A i \in Servers : server[i] = "none" <=> i > created
  /\ \A i \in Servers : i < created => i \in deleted
  /\ \A i \in deleted : i <= created /\ server[i] = "ended"
  /\ uniq # 0 => uniq = created /\ uniq \notin deleted /\ server[uniq] # "new"
  /\ created # 0 /\ created \notin deleted =>
       uniq = created \/ \E c \in Callers : pc[c] = "spin"
  /\ \A c \in Callers : pc[c] = "spin" =>
       uniq = 0 /\ created # 0 /\ created \notin deleted /\ got[c] = created
  /\ ready => created # 0 /\ server[created] \in Serving

\* What a caller may rely on where it stands: workers are out of the way while the server
\* is stopped, and who was given a server has the one that is there.
CallersHave ==
  /\ \A w \in Workers :
       /\ pc[w] \in Asking \cup { "connect" } => todo[w] = "connect" /\ sent[w] = 0
       /\ pc[w] \in { "unlock", "return" } => uniq # 0
       /\ pc[w] \in { "connect", "log" } => uniq # 0 /\ got[w] = uniq
       /\ Stopping => pc[w] = "idle"
  /\ pc[Main] \notin { "connect", "log" }
  /\ pc[Main] \in Asking => todo[Main] # "connect"
  /\ pc[Main] = "flag" => todo[Main] = "flag"
  /\ pc[Main] \in { "join", "lock2", "delete" } => todo[Main] = "join"
  /\ pc[Main] \in { "unlock", "return" } => todo[Main] = "started" \/ uniq # 0
  /\ pc[Main] \in { "flag", "join" } => uniq # 0 /\ got[Main] = uniq
  /\ pc[Main] \in { "lock2", "delete" } => uniq # 0 /\ server[uniq] = "ended"

InstanceInv == LogTypes /\ OneHolder /\ OneLife /\ CallersHave

-----------------------------------------------------------------------------
(* A caller's step, and who holds the mutex. *)

LEMMA GotoMoves ==
  ASSUME LogTypes, NEW c \in Callers, NEW from, NEW to, Goto(c, from, to)
  PROVE  /\ pc[c] = from /\ pc'[c] = to
         /\ \A d \in Callers \ {c} : pc'[d] = pc[d]
         /\ DOMAIN pc' = Callers
  BY DEF Goto, LogTypes

\* A step that neither takes nor frees the mutex, one that takes it, and one that frees it.
LEMMA HolderKept ==
  ASSUME LogTypes, OneHolder, NEW c \in Callers, NEW from, NEW to, Goto(c, from, to),
         \/ lock' = lock /\ (from \in Holding <=> to \in Holding)
         \/ lock = {} /\ lock' = {c} /\ to \in Holding
         \/ from \in Holding /\ to \notin Holding /\ lock' = {}
  PROVE  OneHolder'
<1>1. /\ pc[c] = from /\ pc'[c] = to
      /\ \A d \in Callers \ {c} : pc'[d] = pc[d]
  BY GotoMoves
<1>2. \A d \in Callers : d \in lock <=> pc[d] \in Holding
  BY DEF OneHolder
<1>3. \A d \in lock : d \in Callers
  BY DEF OneHolder
<1>4. \A d : d \in lock' <=> d \in Callers /\ pc'[d] \in Holding
  BY <1>1, <1>2, <1>3 DEF OneHolder
<1>5. \A d, e \in lock' : d = e
  BY DEF OneHolder
<1>6. QED
  BY <1>4, <1>5 DEF OneHolder

-----------------------------------------------------------------------------
(* getInstance(). *)

LEMMA LookKeeps ==
  ASSUME InstanceInv, NEW c \in Callers, Look(c)
  PROVE  InstanceInv'
<1> USE LogAssumption DEF InstanceInv
<1>1. /\ pc[c] = "look" /\ pc'[c] = (IF uniq = 0 THEN "lock" ELSE "return")
      /\ \A d \in Callers \ {c} : pc'[d] = pc[d]
      /\ UNCHANGED << instance, thread, todo, got, sent >>
  BY GotoMoves DEF Look
<1>2. OneHolder'
  BY <1>1, HolderKept DEF Look, Holding, instance
<1>3. LogTypes'
  BY <1>1 DEF Look, Goto, LogTypes, Asking, instance, thread
<1>4. OneLife'
  BY <1>1 DEF OneLife, instance, thread
<1>5. CallersHave'
  BY <1>1 DEF CallersHave, Asking, Stopping, Callers, instance, thread
<1>6. QED
  BY <1>2, <1>3, <1>4, <1>5

LEMMA AcquireKeeps ==
  ASSUME InstanceInv, NEW c \in Callers, Acquire(c)
  PROVE  InstanceInv'
<1> USE LogAssumption DEF InstanceInv
<1>1. /\ pc[c] = "lock" /\ pc'[c] = "check" /\ lock = {} /\ lock' = {c}
      /\ \A d \in Callers \ {c} : pc'[d] = pc[d]
      /\ UNCHANGED << uniq, ready, created, deleted, thread, todo, got, sent >>
  BY GotoMoves DEF Acquire
<1>2. OneHolder'
  BY <1>1, HolderKept DEF Acquire, Holding
<1>3. LogTypes'
  BY <1>1 DEF Acquire, Goto, LogTypes, Asking, thread
<1>4. OneLife'
  BY <1>1 DEF OneLife, thread
<1>5. CallersHave'
  BY <1>1 DEF CallersHave, Asking, Stopping, Callers, thread
<1>6. QED
  BY <1>2, <1>3, <1>4, <1>5

\* A caller that sees no server under the lock is the only one to make one.
LEMMA CheckKeeps ==
  ASSUME LogLiberties = {}, InstanceInv, NEW c \in Callers, Check(c)
  PROVE  InstanceInv'
<1> USE LogAssumption DEF InstanceInv
<1>1. CASE /\ uniq # 0 /\ Goto(c, "check", "unlock")
           /\ UNCHANGED << instance, thread, todo, got, sent >>
  <2>1. /\ pc[c] = "check" /\ pc'[c] = "unlock"
        /\ \A d \in Callers \ {c} : pc'[d] = pc[d]
    BY <1>1, GotoMoves
  <2>2. OneHolder'
    BY <1>1, HolderKept DEF Holding, instance
  <2>3. LogTypes'
    BY <1>1 DEF Goto, LogTypes, Asking, instance, thread
  <2>4. OneLife'
    BY <1>1, <2>1 DEF OneLife, instance, thread
  <2>5. CallersHave'
    BY <1>1, <2>1 DEF CallersHave, Asking, Stopping, Callers, instance, thread
  <2>6. QED
    BY <2>2, <2>3, <2>4, <2>5
<1>2. CASE uniq = 0 /\ Goto(c, "check", "spin") /\ New(c)
  <2>1. /\ pc[c] = "check" /\ pc'[c] = "spin"
        /\ \A d \in Callers \ {c} : pc'[d] = pc[d]
    BY <1>2, GotoMoves
  <2>2. /\ created + 1 \in Servers /\ created \in Nat
        /\ created' = created + 1
        /\ server'[created + 1] = "new"
        /\ \A i \in Servers : i # created + 1 => server'[i] = server[i]
        /\ got'[c] = created + 1
        /\ \A d \in Callers \ {c} : got'[d] = got[d]
        /\ UNCHANGED << uniq, lock, ready, deleted, stop, socket, edge, due, file, lost, todo, sent >>
    BY <1>2 DEF New, LogTypes, Servers
  <2>3. OneHolder'
    BY <1>2, <2>2, HolderKept DEF Holding
  <2>4. LogTypes'
    BY <1>2, <2>2 DEF Goto, New, LogTypes, Asking, Servers
  <2>5. \A d \in Callers : pc[d] # "spin"
    BY <2>1 DEF OneHolder, Holding
  <2>6. created = 0 \/ created \in deleted
    BY <1>2, <2>5 DEF OneLife
  <2>7. OneLife'
    BY <1>2, <2>1, <2>2, <2>5, <2>6 DEF OneLife, LogTypes, Servers, Serving
  <2>8. CallersHave'
    BY <1>2, <2>1, <2>2 DEF CallersHave, Asking, Stopping, Callers
  <2>9. QED
    BY <2>3, <2>4, <2>7, <2>8
<1>3. CASE /\ uniq = 0 /\ CreateMayFail(c) /\ Goto(c, "check", "unlock")
           /\ UNCHANGED << instance, thread, todo, got, sent >>
  <2>1. /\ pc[c] = "check" /\ pc'[c] = "unlock"
        /\ \A d \in Callers \ {c} : pc'[d] = pc[d]
        /\ todo[c] = "started"
    BY <1>3, GotoMoves DEF CreateMayFail
  <2>2. OneHolder'
    BY <1>3, HolderKept DEF Holding, instance
  <2>3. LogTypes'
    BY <1>3 DEF Goto, LogTypes, Asking, instance, thread
  <2>4. OneLife'
    BY <1>3, <2>1 DEF OneLife, instance, thread
  <2>5. CallersHave'
    BY <1>3, <2>1 DEF CallersHave, Asking, Stopping, Callers, instance, thread
  <2>6. QED
    BY <2>2, <2>3, <2>4, <2>5
<1>4. QED
  BY <1>1, <1>2, <1>3 DEF Check

\* What the caller publishes is the server it made, ready by now.
LEMMA SpinKeeps ==
  ASSUME InstanceInv, NEW c \in Callers, Spin(c)
  PROVE  InstanceInv'
<1> USE LogAssumption DEF InstanceInv
<1>1. /\ pc[c] = "spin" /\ pc'[c] = "unlock" /\ ready /\ uniq' = got[c]
      /\ \A d \in Callers \ {c} : pc'[d] = pc[d]
      /\ UNCHANGED << lock, ready, created, deleted, thread, todo, got, sent >>
  BY GotoMoves DEF Spin
<1>2. OneHolder'
  BY HolderKept DEF Spin, Holding
<1>3. LogTypes'
  BY <1>1 DEF Spin, Goto, LogTypes, Asking, thread
<1>4. \A d \in Callers \ {c} : pc[d] # "spin"
  BY <1>1 DEF OneHolder, Holding
<1>5. /\ uniq = 0 /\ created # 0 /\ created \notin deleted /\ uniq' = created
      /\ server[created] \in Serving
  BY <1>1 DEF OneLife
<1>6. OneLife'
  BY <1>1, <1>4, <1>5 DEF OneLife, thread, Serving
<1>7. CallersHave'
  BY <1>1, <1>5 DEF CallersHave, Asking, Stopping, Callers, thread
<1>8. QED
  BY <1>2, <1>3, <1>6, <1>7

LEMMA UnlockKeeps ==
  ASSUME InstanceInv, NEW c \in Callers, Unlock(c)
  PROVE  InstanceInv'
<1> USE LogAssumption DEF InstanceInv
<1>1. /\ pc[c] = "unlock" /\ pc'[c] = "return" /\ lock' = {}
      /\ \A d \in Callers \ {c} : pc'[d] = pc[d]
      /\ UNCHANGED << uniq, ready, created, deleted, thread, todo, got, sent >>
  BY GotoMoves DEF Unlock
<1>2. OneHolder'
  BY HolderKept DEF Unlock, Holding
<1>3. LogTypes'
  BY <1>1 DEF Unlock, Goto, LogTypes, Asking, thread
<1>4. OneLife'
  BY <1>1 DEF OneLife, thread
<1>5. CallersHave'
  BY <1>1 DEF CallersHave, Asking, Stopping, Callers, thread
<1>6. QED
  BY <1>2, <1>3, <1>4, <1>5

LEMMA ReturnKeeps ==
  ASSUME InstanceInv, NEW c \in Callers, Return(c)
  PROVE  InstanceInv'
<1> USE LogAssumption DEF InstanceInv
<1>1. /\ pc[c] = "return" /\ pc'[c] = todo[c] /\ got'[c] = uniq
      /\ \A d \in Callers \ {c} : pc'[d] = pc[d] /\ got'[d] = got[d]
      /\ UNCHANGED << instance, thread, todo, sent >>
  BY GotoMoves DEF Return, LogTypes
<1>2. todo[c] \in { "started", "flag", "join", "connect" }
  BY DEF LogTypes
<1>3. OneHolder'
  BY <1>2, HolderKept DEF Return, Holding, instance
<1>4. LogTypes'
  <2>1. \A w \in Workers : c = w => todo[c] = "connect"
    BY <1>1 DEF CallersHave, Asking
  <2>2. QED
    BY <1>1, <2>1 DEF Return, Goto, LogTypes, Asking, instance, thread, Callers
<1>5. OneLife'
  BY <1>1, <1>2 DEF OneLife, instance, thread
<1>6. CallersHave'
  BY <1>1, <1>2 DEF CallersHave, Asking, Stopping, Callers, instance, thread
<1>7. QED
  BY <1>3, <1>4, <1>5, <1>6

-----------------------------------------------------------------------------
(* The main thread. *)

LEMMA AskKeeps ==
  ASSUME LogLiberties = {}, InstanceInv,
         Start \/ Destroy \/ \E w \in Workers : GetLogHandle(w)
  PROVE  InstanceInv'
<1> USE LogAssumption DEF InstanceInv
<1>1. PICK c \in Callers, from \in { "idle", "started" },
              w \in { "started", "flag", "connect" } :
        /\ Ask(c, from, w)
        /\ c \in Workers <=> w = "connect"
        /\ c \in Workers => sent[c] = 0 /\ ~Stopping /\ from = "idle"
        /\ w = "flag" => \A v \in Workers : pc[v] = "idle"
        /\ w = "started" => from = "idle"
  BY DEF Start, Destroy, GetLogHandle, Callers
<1>2. /\ pc[c] = from /\ pc'[c] = "look" /\ todo'[c] = w
      /\ \A d \in Callers \ {c} : pc'[d] = pc[d] /\ todo'[d] = todo[d]
      /\ UNCHANGED << instance, thread, got, sent >>
  BY <1>1, GotoMoves DEF Ask, LogTypes
<1>3. OneHolder'
  BY <1>1, HolderKept DEF Ask, Holding, instance
<1>4. LogTypes'
  BY <1>1, <1>2 DEF Ask, Goto, LogTypes, Asking, instance, thread
<1>5. OneLife'
  BY <1>1, <1>2 DEF OneLife, instance, thread
<1>6. CallersHave'
  BY <1>1, <1>2 DEF CallersHave, Asking, Stopping, Callers, LogTypes, instance, thread
<1>7. QED
  BY <1>3, <1>4, <1>5, <1>6

LEMMA SetStopFlagKeeps ==
  ASSUME InstanceInv, SetStopFlag
  PROVE  InstanceInv'
<1> USE LogAssumption DEF InstanceInv
<1>1. /\ Main \in Callers /\ pc[Main] = "flag" /\ pc'[Main] = "look" /\ todo'[Main] = "join"
      /\ \A d \in Callers \ {Main} : pc'[d] = pc[d] /\ todo'[d] = todo[d]
      /\ UNCHANGED << instance, server, socket, edge, due, output, got, sent >>
  BY GotoMoves DEF SetStopFlag, Callers, LogTypes
<1>2. OneHolder'
  BY <1>1, HolderKept DEF SetStopFlag, Holding, instance
<1>3. LogTypes'
  BY <1>1 DEF SetStopFlag, Goto, LogTypes, Asking, instance
<1>4. OneLife'
  BY <1>1 DEF OneLife, instance
<1>5. CallersHave'
  BY <1>1 DEF CallersHave, Asking, Stopping, Callers, instance
<1>6. QED
  BY <1>2, <1>3, <1>4, <1>5

LEMMA JoinKeeps ==
  ASSUME InstanceInv, Join
  PROVE  InstanceInv'
<1> USE LogAssumption DEF InstanceInv
<1>1. /\ Main \in Callers /\ pc[Main] = "join" /\ pc'[Main] = "lock2"
      /\ server[got[Main]] = "ended"
      /\ \A d \in Callers \ {Main} : pc'[d] = pc[d]
      /\ UNCHANGED << instance, thread, todo, got, sent >>
  BY GotoMoves DEF Join, Callers
<1>2. OneHolder'
  BY <1>1, HolderKept DEF Join, Holding, instance
<1>3. LogTypes'
  BY <1>1 DEF Join, Goto, LogTypes, Asking, instance, thread
<1>4. OneLife'
  BY <1>1 DEF OneLife, instance, thread
<1>5. CallersHave'
  BY <1>1 DEF CallersHave, Asking, Stopping, Callers, instance, thread
<1>6. QED
  BY <1>2, <1>3, <1>4, <1>5

LEMMA LockKeeps ==
  ASSUME InstanceInv, Lock
  PROVE  InstanceInv'
<1> USE LogAssumption DEF InstanceInv
<1>1. /\ Main \in Callers /\ pc[Main] = "lock2" /\ pc'[Main] = "delete"
      /\ \A d \in Callers \ {Main} : pc'[d] = pc[d]
      /\ UNCHANGED << uniq, ready, created, deleted, thread, todo, got, sent >>
  BY GotoMoves DEF Lock, Callers
<1>2. OneHolder'
  BY <1>1, HolderKept DEF Lock, Holding
<1>3. LogTypes'
  BY <1>1 DEF Lock, Goto, LogTypes, Asking, thread
<1>4. OneLife'
  BY <1>1 DEF OneLife, thread
<1>5. CallersHave'
  BY <1>1 DEF CallersHave, Asking, Stopping, Callers, thread
<1>6. QED
  BY <1>2, <1>3, <1>4, <1>5

\* The server is deleted after its thread has ended, and with every worker out of the way.
LEMMA DeleteKeeps ==
  ASSUME InstanceInv, Delete
  PROVE  InstanceInv'
<1> USE LogAssumption DEF InstanceInv
<1>1. /\ Main \in Callers /\ pc[Main] = "delete" /\ pc'[Main] = "idle"
      /\ deleted' = deleted \cup ({uniq} \ {0}) /\ uniq' = 0 /\ lock' = {}
      /\ \A d \in Callers \ {Main} : pc'[d] = pc[d]
      /\ UNCHANGED << ready, created, thread, todo, got, sent >>
  BY GotoMoves DEF Delete, Callers
<1>2. /\ uniq # 0 /\ uniq = created /\ uniq \in Servers /\ server[uniq] = "ended"
      /\ deleted' = deleted \cup {uniq}
  BY <1>1 DEF OneLife, CallersHave, LogTypes, Servers
<1>3. \A d \in Callers : pc[d] # "spin"
  BY <1>1 DEF OneHolder, Holding
<1>4. \A w \in Workers : pc[w] = "idle"
  BY <1>1 DEF CallersHave, Stopping
<1>5. OneHolder'
  BY <1>1, HolderKept DEF Delete, Holding
<1>6. LogTypes'
  BY <1>1, <1>2 DEF Delete, Goto, LogTypes, Asking, thread
<1>7. OneLife'
  BY <1>1, <1>2, <1>3 DEF OneLife, thread, LogTypes, Serving
<1>8. CallersHave'
  BY <1>1, <1>4 DEF CallersHave, Asking, Stopping, Callers, thread
<1>9. QED
  BY <1>5, <1>6, <1>7, <1>8

-----------------------------------------------------------------------------
(* A worker. *)

LEMMA WorkerKeeps ==
  ASSUME InstanceInv, NEW w \in Workers, WorkerStep(w)
  PROVE  InstanceInv'
<1> USE LogAssumption DEF InstanceInv
<1>1. CASE CreateConnection(w) \/ NoConnection(w) \/ CloseHandle(w)
  <2>1. PICK from \in { "connect", "log" }, to \in { "log", "idle" } :
          /\ Goto(w, from, to)
          /\ from = "log" => to = "idle"
          /\ to = "log" => sent' = sent
    BY <1>1 DEF CreateConnection, NoConnection, CloseHandle
  <2>2. /\ w \in Callers /\ w # Main /\ pc[w] = from /\ pc'[w] = to
        /\ \A d \in Callers \ {w} : pc'[d] = pc[d]
    BY <2>1, GotoMoves DEF Callers
  <2>3. /\ UNCHANGED << instance, server, todo, got >>
        /\ sent' \in [Workers -> 0 .. Messages]
        /\ \A v \in Workers \ {w} : sent'[v] = sent[v]
    BY <1>1 DEF CreateConnection, NoConnection, CloseHandle, thread, LogTypes
  <2>4. OneHolder'
    BY <2>1, <2>2, <2>3, HolderKept DEF Holding, instance
  <2>5. LogTypes'
    BY <2>1, <2>2, <2>3 DEF Goto, LogTypes, Asking, instance
  <2>6. OneLife'
    BY <2>2, <2>3 DEF OneLife, instance
  <2>7. CallersHave'
    BY <2>1, <2>2, <2>3 DEF CallersHave, Asking, Stopping, Callers, instance
  <2>8. QED
    BY <2>4, <2>5, <2>6, <2>7
<1>2. CASE Log(w)
  <2>1. /\ pc[w] = "log" /\ UNCHANGED << instance, server, pc, todo, got >>
        /\ sent' \in [Workers -> 0 .. Messages]
        /\ \A v \in Workers \ {w} : sent'[v] = sent[v]
    BY <1>2 DEF Log, LogTypes
  <2>2. /\ LogTypes' /\ OneHolder' /\ OneLife'
    BY <2>1 DEF LogTypes, OneHolder, OneLife, instance
  <2>3. CallersHave'
    BY <2>1 DEF CallersHave, Asking, Stopping, Callers, instance
  <2>4. QED
    BY <2>2, <2>3
<1>3. QED
  BY <1>1, <1>2 DEF WorkerStep

-----------------------------------------------------------------------------
(* A server's thread. *)

\* Only the last server's thread moves, and the lock and the callers are no concern of its.
LEMMA ServerKeeps ==
  ASSUME LogLiberties = {}, InstanceInv, NEW i \in Servers, ServerStep(i)
  PROVE  InstanceInv'
<1> USE LogAssumption DEF InstanceInv
<1>1. /\ UNCHANGED << uniq, lock, created, deleted, caller >>
      /\ server[i] \in { "new", "bound" } \cup Serving
      /\ server' \in [Servers -> { "none", "new", "bound", "ended" } \cup Serving]
      /\ server'[i] \notin { "none", "new" }
      /\ \A j \in Servers \ {i} : server'[j] = server[j]
      /\ ready' \in BOOLEAN
      /\ ready' => server'[i] \in Serving \/ (ready /\ server[i] \notin Serving)
  <2>1. CASE Bind(i) \/ SetReadyToServe(i) \/ SayReady(i)
    <3>1. CASE Bind(i)
      BY <3>1 DEF Bind, Move, Serving, LogTypes, instance, caller
    <3>2. CASE SetReadyToServe(i)
      BY <3>2 DEF SetReadyToServe, Move, Serving, LogTypes, caller
    <3>3. CASE SayReady(i)
      BY <3>3 DEF SayReady, Move, Serving, LogTypes, instance, caller
    <3>4. QED
      BY <2>1, <3>1, <3>2, <3>3
  <2>2. CASE Wait(i) \/ Receive(i) \/ ReceiveNone(i)
    BY <2>2 DEF Wait, Receive, ReceiveNone, Move, Serving, LogTypes, instance, caller
  <2>3. CASE CheckStopFlag(i)
    <3>1. CASE due[i] /\ stop[i]
      BY <2>3, <3>1 DEF CheckStopFlag, Move, Serving, LogTypes, caller
    <3>2. CASE ~(due[i] /\ stop[i])
      BY <2>3, <3>2 DEF CheckStopFlag, Move, Serving, LogTypes, caller
    <3>3. QED
      BY <3>1, <3>2
  <2>4. QED
    BY <2>1, <2>2, <2>3 DEF ServerStep
<1>2. i = created /\ created # 0 /\ created \notin deleted
  BY <1>1 DEF OneLife, LogTypes, Servers, Serving
<1>3. ready => server[i] \in Serving
  BY <1>2 DEF OneLife
<1>4. LogTypes'
  BY <1>1 DEF LogTypes, caller
<1>5. OneHolder'
  BY <1>1 DEF OneHolder, caller
<1>6. OneLife'
  BY <1>1, <1>2, <1>3 DEF OneLife, caller, LogTypes, Servers, Serving
<1>7. CallersHave'
  BY <1>1 DEF CallersHave, Stopping, caller, LogTypes, Servers, Serving
<1>8. QED
  BY <1>4, <1>5, <1>6, <1>7

-----------------------------------------------------------------------------
(* The life of the server. *)

LEMMA InstanceInit == Init => InstanceInv
<1> SUFFICES ASSUME Init PROVE InstanceInv
  OBVIOUS
<1> USE LogAssumption
<1>1. LogTypes
  <2>1. 0 \in 0 .. MaxServers /\ 0 \in 0 .. Messages /\ Workers \subseteq Callers
    BY DEF Callers
  <2>2. \A w \in Workers : pc[w] = "idle"
    BY <2>1 DEF Init
  <2>3. QED
    BY <2>1, <2>2 DEF Init, LogTypes
<1>2. OneHolder
  BY DEF Init, OneHolder, Holding
<1>3. OneLife
  BY DEF Init, OneLife, Servers
<1>4. CallersHave
  BY DEF Init, CallersHave, Asking, Stopping, Callers
<1>5. QED
  BY <1>1, <1>2, <1>3, <1>4 DEF InstanceInv

LEMMA InstanceNext ==
  ASSUME LogLiberties = {}, InstanceInv, [Next]_vars
  PROVE  InstanceInv'
<1>1. ASSUME NEW c \in Callers, GetInstance(c)
      PROVE  InstanceInv'
  BY <1>1, LookKeeps, AcquireKeeps, CheckKeeps, SpinKeeps, UnlockKeeps, ReturnKeeps
     DEF GetInstance
<1>2. CASE MainStep
  BY <1>2, SetStopFlagKeeps, JoinKeeps, LockKeeps, DeleteKeeps, AskKeeps DEF MainStep
<1>3. CASE Start \/ \E w \in Workers : GetLogHandle(w)
  BY <1>3, AskKeeps
<1>4. CASE UNCHANGED vars
  BY <1>4 DEF vars, instance, thread, caller, InstanceInv, LogTypes, OneHolder, OneLife,
              CallersHave, Stopping
<1>5. QED
  BY <1>1, <1>2, <1>3, <1>4, WorkerKeeps, ServerKeeps DEF Next

LEMMA InstanceInvariant ==
  ASSUME LogLiberties = {}
  PROVE  Spec => []InstanceInv
  BY InstanceInit, InstanceNext, PTL DEF Spec

\* At most one server's thread runs, and the mutex is held by one caller at most, who frees it:
\* callers that race in getInstance() make one server between them, and the next round's thread
\* begins after the last one's has ended (app_logger.h:281).
THEOREM OneServerAtATime ==
  ASSUME LogLiberties = {}
  PROVE  Spec => []OneServer
<1>1. InstanceInv => OneServer
  <2> SUFFICES ASSUME InstanceInv PROVE OneServer
    OBVIOUS
  <2>1. Locked
    BY DEF InstanceInv, OneHolder, Locked, Holding
  <2>2. Cardinality(lock) <= 1
    <3>1. CASE lock = {}
      BY <3>1, FS_EmptySet
    <3>2. CASE lock # {}
      <4>1. PICK c : c \in lock
        BY <3>2
      <4>2. lock = {c}
        BY <4>1 DEF InstanceInv, OneHolder
      <4>3. QED
        BY <4>2, FS_Singleton
    <3>3. QED
      BY <3>1, <3>2
  <2>3. \A i \in Servers : server[i] \notin { "none", "ended" } => i = created
    BY LogAssumption DEF InstanceInv, OneLife, LogTypes, Servers
  <2>4. QED
    BY <2>1, <2>2, <2>3 DEF OneServer
<1>2. QED
  BY <1>1, InstanceInvariant, PTL

\* What getInstance() returned is a server that is there, with its socket bound, when it is used:
\* by a worker to connect, by destroyInstance() to stop and to join it.
THEOREM ReturnedIsUsable ==
  ASSUME LogLiberties = {}
  PROVE  Spec => []Usable
<1>1. InstanceInv => Usable
  <2> SUFFICES ASSUME InstanceInv,
                      NEW c \in Callers, pc[c] \in { "connect", "flag", "join" }
               PROVE  Bound(got[c])
    BY DEF Usable
  <2>1. uniq # 0 /\ got[c] = uniq
    BY DEF InstanceInv, CallersHave, LogTypes, Callers, Asking
  <2>2. uniq \in Servers \ deleted /\ server[uniq] \notin { "none", "new" }
    BY <2>1, LogAssumption DEF InstanceInv, OneLife, LogTypes, Servers
  <2>3. QED
    BY <2>1, <2>2 DEF Bound
<1>2. QED
  BY <1>1, InstanceInvariant, PTL

-----------------------------------------------------------------------------
(* What the file and the socket of server s hold. *)

Message == (Workers \cup {"server"}) \X Nat

Numbered(q) == \A i, j \in DOMAIN q : i < j /\ q[i][1] = q[j][1] => q[i][2] < q[j][2]

Ordered(s) ==
  /\ file[s] \in Seq(Message) /\ socket[s] \in Seq(Message)
  /\ Numbered(file[s]) /\ Numbered(socket[s])
  /\ \A i \in DOMAIN file[s], j \in DOMAIN socket[s] :
       file[s][i][1] = socket[s][j][1] => file[s][i][2] < socket[s][j][2]

\* A worker that has not logged yet is in neither; what it logs next is new to both.
Counted(s) ==
  /\ \A i \in DOMAIN file[s] :
       LET w == file[s][i][1] IN w \in Workers => file[s][i][2] <= sent[w] /\ sent[w] > 0
  /\ \A j \in DOMAIN socket[s] :
       LET w == socket[s][j][1] IN w \in Workers /\ 0 < socket[s][j][2] /\ socket[s][j][2] <= sent[w]

\* The server's own messages are what its thread's place says, and the socket's are between them.
Framed(s) ==
  /\ server[s] = "none" => file[s] = << >>
  /\ server[s] \in { "none", "new", "bound", "ready" } =>
       \A i \in DOMAIN file[s] : file[s][i][1] # "server"
  /\ server[s] # "ended" =>
       \A i \in DOMAIN file[s] : file[s][i][1] = "server" => file[s][i] = Hello
  /\ server[s] \in { "wait", "receive", "timers" } =>
       Hello \in lost[s] \/ \E i \in DOMAIN file[s] : file[s][i] = Hello
  /\ \A i \in DOMAIN file[s] : FromSocket(file[s][i]) =>
       /\ Hello \in lost[s] \/ \E j \in 1 .. i - 1 : file[s][j] = Hello
       /\ \A j \in 1 .. i - 1 : file[s][j] # Goodbye

LogInv ==
  /\ InstanceInv
  /\ DOMAIN file = Servers /\ DOMAIN socket = Servers /\ DOMAIN lost = Servers
  /\ \A s \in Servers : Ordered(s) /\ Counted(s) /\ Framed(s)

\* What writeMessage() does to the file of server s: a message is the next there, or lost.
LEMMA MessageWritten ==
  ASSUME LogInv, NEW i \in Servers, NEW m, WriteMessage(i, m), NEW s \in Servers
  PROVE  /\ lost[s] \subseteq lost'[s]
         /\ s # i => file'[s] = file[s]
         /\ \/ file'[s] = Append(file[s], m) /\ s \notin unopened
            \/ file'[s] = file[s]
         /\ s = i => file'[s] = Append(file[s], m) \/ (file'[s] = file[s] /\ m \in lost'[s])
         /\ DOMAIN file' = Servers /\ DOMAIN lost' = Servers
         /\ unopened' = unopened
<1>1. DOMAIN file = Servers /\ DOMAIN lost = Servers
  BY DEF LogInv
<1>2. CASE /\ i \notin unopened /\ file' = [file EXCEPT ![i] = Append(@, m)] /\ lost' = lost
  BY <1>1, <1>2 DEF WriteMessage
<1>3. CASE file' = file /\ lost' = [lost EXCEPT ![i] = @ \cup { m }]
  BY <1>1, <1>3 DEF WriteMessage
<1>4. QED
  BY <1>2, <1>3 DEF WriteMessage

LEMMA Appended ==
  ASSUME NEW q \in Seq(Message), NEW m \in Message
  PROVE  /\ Append(q, m) \in Seq(Message)
         /\ DOMAIN q = 1 .. Len(q) /\ Len(q) \in Nat
         /\ DOMAIN Append(q, m) = 1 .. Len(q) + 1
         /\ \A i \in DOMAIN q : Append(q, m)[i] = q[i]
         /\ Append(q, m)[Len(q) + 1] = m
  OBVIOUS

LEMMA NumberedAppend ==
  ASSUME NEW q \in Seq(Message), NEW m \in Message, Numbered(q),
         \A i \in DOMAIN q : q[i][1] = m[1] => q[i][2] < m[2]
  PROVE  Numbered(Append(q, m))
<1> DEFINE p == Append(q, m)
<1> SUFFICES ASSUME NEW i \in DOMAIN p, NEW j \in DOMAIN p, i < j, p[i][1] = p[j][1]
             PROVE  p[i][2] < p[j][2]
  BY DEF Numbered
<1> HIDE DEF p
<1>1. /\ DOMAIN q = 1 .. Len(q) /\ DOMAIN p = 1 .. Len(q) + 1 /\ Len(q) \in Nat
      /\ \A k \in DOMAIN q : p[k] = q[k]
      /\ p[Len(q) + 1] = m
  BY Appended DEF p
<1>2. i \in DOMAIN q
  BY <1>1
<1>3. CASE j = Len(q) + 1
  BY <1>1, <1>2, <1>3
<1>4. CASE j # Len(q) + 1
  <2>1. j \in DOMAIN q
    BY <1>1, <1>4
  <2>2. QED
    BY <1>1, <1>2, <2>1 DEF Numbered
<1>5. QED
  BY <1>3, <1>4

LEMMA TakenOut ==
  ASSUME NEW q \in Seq(Message), q # << >>, Numbered(q)
  PROVE  /\ Head(q) \in Message /\ Head(q) = q[1] /\ 1 \in DOMAIN q
         /\ Tail(q) \in Seq(Message)
         /\ \A i \in DOMAIN Tail(q) : i + 1 \in DOMAIN q /\ Tail(q)[i] = q[i + 1]
         /\ Numbered(Tail(q))
         /\ \A i \in DOMAIN Tail(q) : Head(q)[1] = Tail(q)[i][1] => Head(q)[2] < Tail(q)[i][2]
<1>1. /\ Head(q) \in Message /\ Head(q) = q[1] /\ 1 \in DOMAIN q
      /\ Tail(q) \in Seq(Message)
      /\ DOMAIN Tail(q) \subseteq Nat \ {0}
      /\ \A i \in DOMAIN Tail(q) : i + 1 \in DOMAIN q /\ Tail(q)[i] = q[i + 1]
  OBVIOUS
<1>2. \A i, j \in DOMAIN Tail(q) : i < j => i + 1 < j + 1
  BY <1>1
<1>3. Numbered(Tail(q))
  BY <1>1, <1>2 DEF Numbered
<1>4. \A i \in DOMAIN Tail(q) : 1 < i + 1
  BY <1>1
<1>5. \A i \in DOMAIN Tail(q) : Head(q)[1] = Tail(q)[i][1] => Head(q)[2] < Tail(q)[i][2]
  BY <1>1, <1>4 DEF Numbered
<1>6. QED
  BY <1>1, <1>3, <1>5

\* Nothing new in the file or the socket of server s.
LEMMA NothingWritten ==
  ASSUME NEW s \in Servers, Ordered(s), Counted(s), Framed(s),
         sent \in [Workers -> Nat], sent' \in [Workers -> Nat],
         file'[s] = file[s], socket'[s] = socket[s], lost[s] \subseteq lost'[s],
         \A w \in Workers : sent[w] <= sent'[w],
         \/ server'[s] = server[s]
         \/ server[s] = "ready" /\ server'[s] = "wait" /\ Hello \in lost'[s]
         \/ server[s] = "timers" /\ server'[s] = "ended"
         \/ server[s] = "none" /\ server'[s] = "new"
         \/ server[s] = "new" /\ server'[s] = "bound"
         \/ server[s] = "bound" /\ server'[s] = "ready"
         \/ /\ server[s] \in { "wait", "receive", "timers" }
            /\ server'[s] \in { "wait", "receive", "timers" }
  PROVE  Ordered(s)' /\ Counted(s)' /\ Framed(s)'
<1>1. Ordered(s)'
  BY DEF Ordered
<1>2. Counted(s)'
  <2>1. \A i \in DOMAIN file[s] : file[s][i][2] \in Nat
    BY DEF Ordered, Message
  <2>2. \A i \in DOMAIN socket[s] : socket[s][i][2] \in Nat
    BY DEF Ordered, Message
  <2>3. QED
    BY <2>1, <2>2 DEF Counted
<1>3. Framed(s)'
  BY DEF Framed
<1>4. QED
  BY <1>1, <1>2, <1>3

\* A message m that is new to file and socket is written to the file of server s.
LEMMA FileGrows ==
  ASSUME NEW s \in Servers, Ordered(s), NEW m \in Message,
         \A i \in DOMAIN file[s] : file[s][i][1] = m[1] => file[s][i][2] < m[2],
         \A i \in DOMAIN socket'[s] : m[1] = socket'[s][i][1] => m[2] < socket'[s][i][2],
         \A i \in DOMAIN socket'[s] :
           \E j \in DOMAIN socket[s] : socket'[s][i] = socket[s][j],
         socket'[s] \in Seq(Message), Numbered(socket'[s]),
         file'[s] = Append(file[s], m)
  PROVE  Ordered(s)'
<1>1. file[s] \in Seq(Message) /\ Numbered(file[s])
  BY DEF Ordered
<1>2. Numbered(file'[s]) /\ file'[s] \in Seq(Message)
  <2>1. Numbered(Append(file[s], m))
    BY <1>1, NumberedAppend
  <2>2. Append(file[s], m) \in Seq(Message)
    BY <1>1
  <2>3. QED
    BY <2>1, <2>2 DEF Numbered
<1>3. /\ DOMAIN file[s] = 1 .. Len(file[s]) /\ Len(file[s]) \in Nat
      /\ DOMAIN file'[s] = 1 .. Len(file[s]) + 1
      /\ \A i \in DOMAIN file[s] : file'[s][i] = file[s][i]
      /\ file'[s][Len(file[s]) + 1] = m
  BY <1>1, Appended
<1>4. ASSUME NEW i \in DOMAIN file'[s], NEW j \in DOMAIN socket'[s],
             file'[s][i][1] = socket'[s][j][1]
      PROVE  file'[s][i][2] < socket'[s][j][2]
  <2>1. CASE i \in DOMAIN file[s]
    <3>1. PICK k \in DOMAIN socket[s] : socket'[s][j] = socket[s][k]
      OBVIOUS
    <3>2. file'[s][i] = file[s][i]
      BY <1>3, <2>1
    <3>3. file[s][i][1] = socket[s][k][1] => file[s][i][2] < socket[s][k][2]
      BY <2>1 DEF Ordered
    <3>4. QED
      BY <1>4, <3>1, <3>2, <3>3
  <2>2. CASE i \notin DOMAIN file[s]
    <3>1. i = Len(file[s]) + 1
      BY <1>3, <2>2
    <3>2. QED
      BY <1>3, <1>4, <3>1
  <2>3. QED
    BY <2>1, <2>2
<1>5. QED
  BY <1>2, <1>4 DEF Ordered

\* What a message does to the frame depends on whose it is and on where the thread stands.
LEMMA FrameGrows ==
  ASSUME NEW s \in Servers, file[s] \in Seq(Message), Framed(s), NEW m \in Message,
         file'[s] = Append(file[s], m), lost[s] \subseteq lost'[s],
         server'[s] # "none",
         server'[s] \in { "new", "bound", "ready" } =>
           server[s] \in { "new", "bound", "ready" } /\ m[1] # "server",
         server'[s] # "ended" => server[s] # "ended" /\ (m[1] = "server" => m = Hello),
         server'[s] \in { "wait", "receive", "timers" } =>
           m = Hello \/ server[s] \in { "wait", "receive", "timers" },
         FromSocket(m) => server[s] \in { "wait", "receive", "timers" }
  PROVE  Framed(s)'
<1> DEFINE n == Len(file[s]) + 1
<1>1. /\ DOMAIN file[s] = 1 .. Len(file[s]) /\ n \in Nat \ {0}
      /\ DOMAIN file'[s] = 1 .. n
      /\ \A i \in DOMAIN file[s] : file'[s][i] = file[s][i]
      /\ file'[s][n] = m
      /\ n \in DOMAIN file'[s]
      /\ \A i \in DOMAIN file'[s] : i = n \/ i \in DOMAIN file[s]
      /\ DOMAIN file[s] = 1 .. n - 1
      /\ DOMAIN file[s] \subseteq DOMAIN file'[s]
  BY Appended
<1> HIDE DEF n
<1>2. ASSUME server'[s] \in { "new", "bound", "ready" }, NEW i \in DOMAIN file'[s]
      PROVE  file'[s][i][1] # "server"
  BY <1>1, <1>2 DEF Framed
<1>3. ASSUME server'[s] # "ended", NEW i \in DOMAIN file'[s], file'[s][i][1] = "server"
      PROVE  file'[s][i] = Hello
  BY <1>1, <1>3 DEF Framed
<1>4. ASSUME server'[s] \in { "wait", "receive", "timers" }
      PROVE  Hello \in lost'[s] \/ \E i \in DOMAIN file'[s] : file'[s][i] = Hello
  BY <1>1, <1>4 DEF Framed
<1>5. ASSUME NEW i \in DOMAIN file'[s], FromSocket(file'[s][i])
      PROVE  /\ Hello \in lost'[s] \/ \E j \in 1 .. i - 1 : file'[s][j] = Hello
             /\ \A j \in 1 .. i - 1 : file'[s][j] # Goodbye
  <2>1. CASE i \in DOMAIN file[s]
    <3>1. \A j \in 1 .. i - 1 : j \in DOMAIN file[s]
      BY <1>1, <2>1
    <3>2. FromSocket(file[s][i])
      BY <1>1, <1>5, <2>1
    <3>3. QED
      BY <1>1, <2>1, <3>1, <3>2 DEF Framed
  <2>2. CASE i = n
    <3>1. server[s] \in { "wait", "receive", "timers" }
      BY <1>1, <1>5, <2>2
    <3>2. Hello \in lost[s] \/ \E j \in DOMAIN file[s] : file[s][j] = Hello
      BY <3>1 DEF Framed
    <3>3. \A k \in DOMAIN file[s] : file[s][k] # Goodbye
      BY <3>1 DEF Framed, Hello, Goodbye
    <3>4. QED
      BY <1>1, <2>2, <3>2, <3>3
  <2>3. QED
    BY <1>1, <2>1, <2>2
<1>6. QED
  BY <1>2, <1>3, <1>4, <1>5 DEF Framed

-----------------------------------------------------------------------------
(* The steps that write. *)

LogStep(s) == Ordered(s)' /\ Counted(s)' /\ Framed(s)'

LEMMA NoConnectionWrites ==
  ASSUME LogInv, NEW w \in Workers, NoConnection(w), NEW s \in Servers
  PROVE  LogStep(s)
<1> USE LogAssumption DEF LogStep
<1> DEFINE m == << w, 0 >>
<1>1. /\ Ordered(s) /\ Counted(s) /\ Framed(s)
      /\ sent \in [Workers -> Nat] /\ sent[w] = 0
      /\ sent' \in [Workers -> Nat] /\ sent'[w] = Messages
      /\ \A v \in Workers \ {w} : sent'[v] = sent[v]
      /\ server' = server /\ socket' = socket
      /\ Bound(got[w]) /\ got[w] \in Servers /\ WriteMessage(got[w], m)
      /\ m \in Message
  <2>1. pc[w] = "connect" /\ sent' = [sent EXCEPT ![w] = Messages]
    BY DEF NoConnection, Goto
  <2>2. sent[w] = 0
    BY <2>1 DEF LogInv, InstanceInv, CallersHave
  <2>3. sent \in [Workers -> 0 .. Messages]
    BY DEF LogInv, InstanceInv, LogTypes
  <2>4. QED
    BY <2>1, <2>2, <2>3 DEF LogInv, NoConnection, Message, Bound
<1>2. \A v \in Workers : sent[v] <= sent'[v]
  BY <1>1
<1> HIDE DEF m
<1>6. /\ lost[s] \subseteq lost'[s]
      /\ s # got[w] => file'[s] = file[s]
      /\ file'[s] = file[s] \/ file'[s] = Append(file[s], m)
  BY <1>1, MessageWritten
<1> USE DEF m
<1>3. CASE file'[s] = file[s]
  BY <1>1, <1>2, <1>3, <1>6, NothingWritten
<1>4. CASE s = got[w] /\ file'[s] # file[s]
  <2>1. file'[s] = Append(file[s], m)
    BY <1>4, <1>6
  <2>2. file[s] \in Seq(Message) /\ socket[s] \in Seq(Message) /\ Numbered(socket[s])
    BY <1>1 DEF Ordered
  <2>3. \A i \in DOMAIN file[s] : file[s][i][1] # w
    BY <1>1 DEF Counted
  <2>4. \A i \in DOMAIN socket[s] : socket[s][i][1] # w
    <3>1. \A i \in DOMAIN socket[s] : socket[s][i][2] \in Nat
      BY <2>2 DEF Message
    <3>2. QED
      BY <1>1, <3>1 DEF Counted
  <2>5. Ordered(s)'
    BY <1>1, <2>1, <2>2, <2>3, <2>4, FileGrows
  <2>6. Counted(s)'
    <3>1. \A i \in DOMAIN file'[s] : \/ i \in DOMAIN file[s] /\ file'[s][i] = file[s][i]
                                     \/ file'[s][i] = m
      BY <1>1, <2>1, <2>2
    <3>2. \A i \in DOMAIN file[s] : file[s][i][2] \in Nat
      BY <2>2 DEF Message
    <3>3. QED
      BY <1>1, <2>3, <2>4, <3>1, <3>2 DEF Counted
  <2>7. Framed(s)'
    <3>1. server[s] \notin { "none", "new" } /\ m[1] # "server" /\ ~FromSocket(m)
      BY <1>1, <1>4 DEF Bound, FromSocket
    <3>2. QED
      BY <1>1, <1>6, <2>1, <2>2, <3>1, FrameGrows
  <2>8. QED
    BY <2>5, <2>6, <2>7
<1>5. QED
  BY <1>3, <1>4, <1>6

LEMMA LogWrites ==
  ASSUME LogInv, NEW w \in Workers, Log(w), NEW s \in Servers
  PROVE  LogStep(s)
<1> USE LogAssumption DEF LogStep
<1> DEFINE m == << w, sent[w] + 1 >>
<1>1. /\ Ordered(s) /\ Counted(s) /\ Framed(s)
      /\ sent \in [Workers -> Nat] /\ sent' \in [Workers -> Nat]
      /\ sent'[w] = sent[w] + 1
      /\ \A v \in Workers : sent[v] <= sent'[v]
      /\ server' = server /\ file' = file /\ lost' = lost
      /\ m \in Message
  <2>1. sent \in [Workers -> 0 .. Messages]
    BY DEF LogInv, InstanceInv, LogTypes
  <2>2. QED
    BY <2>1 DEF LogInv, Log, Message, output
<1>2. CASE socket'[s] = socket[s]
  BY <1>1, <1>2, NothingWritten
<1>3. CASE socket'[s] # socket[s]
  <2>1. socket'[s] = Append(socket[s], m)
    BY <1>3 DEF Log, LogInv
  <2>2. file[s] \in Seq(Message) /\ socket[s] \in Seq(Message) /\ Numbered(socket[s])
    BY <1>1 DEF Ordered
  <2>3. /\ \A i \in DOMAIN file[s] : file[s][i][2] \in Nat
        /\ \A i \in DOMAIN socket[s] : socket[s][i][2] \in Nat
    BY <2>2 DEF Message
  <2>4. /\ \A i \in DOMAIN file[s] : file[s][i][1] = w => file[s][i][2] < m[2]
        /\ \A i \in DOMAIN socket[s] : socket[s][i][1] = w => socket[s][i][2] < m[2]
    BY <1>1, <2>3 DEF Counted
  <2>5. Numbered(socket'[s]) /\ socket'[s] \in Seq(Message)
    <3>1. Append(socket[s], m) \in Seq(Message)
      BY <1>1, <2>2
    <3>2. Numbered(Append(socket[s], m))
      BY <1>1, <2>2, <2>4, NumberedAppend
    <3>3. QED
      BY <2>1, <3>1, <3>2 DEF Numbered
  <2>6. \A j \in DOMAIN socket'[s] :
          \/ j \in DOMAIN socket[s] /\ socket'[s][j] = socket[s][j]
          \/ socket'[s][j] = m
    BY <1>1, <2>1, <2>2
  <2>7. Ordered(s)'
    <3>1. ASSUME NEW i \in DOMAIN file[s], NEW j \in DOMAIN socket'[s],
                 file[s][i][1] = socket'[s][j][1]
          PROVE  file[s][i][2] < socket'[s][j][2]
      <4>1. CASE socket'[s][j] = m
        BY <2>4, <3>1, <4>1
      <4>2. CASE j \in DOMAIN socket[s] /\ socket'[s][j] = socket[s][j]
        BY <1>1, <3>1, <4>2 DEF Ordered
      <4>3. QED
        BY <2>6, <4>1, <4>2
    <3>2. QED
      BY <1>1, <2>5, <3>1 DEF Ordered
  <2>8. Counted(s)'
    <3>1. sent'[w] > 0 /\ m[1] = w /\ m[2] = sent'[w] /\ 0 < m[2]
      BY <1>1
    <3>2. QED
      BY <1>1, <2>3, <2>6, <3>1 DEF Counted
  <2>9. Framed(s)'
    BY <1>1 DEF Framed
  <2>10. QED
    BY <2>7, <2>8, <2>9
<1>4. QED
  BY <1>2, <1>3

LEMMA ReceiveWrites ==
  ASSUME LogInv, NEW i \in Servers, Receive(i), NEW s \in Servers
  PROVE  LogStep(s)
<1> USE LogAssumption DEF LogStep
<1> DEFINE m == Head(socket[i])
<1>1. /\ \A t \in Servers : Ordered(t) /\ Counted(t) /\ Framed(t)
      /\ sent \in [Workers -> Nat] /\ sent' = sent /\ server' = server
      /\ server[i] = "receive" /\ socket[i] # << >>
      /\ socket[i] \in Seq(Message) /\ file[i] \in Seq(Message)
      /\ Numbered(socket[i])
      /\ WriteMessage(i, m) /\ socket' = [socket EXCEPT ![i] = Tail(@)]
  <2>1. sent \in [Workers -> Nat]
    BY DEF LogInv, InstanceInv, LogTypes
  <2>2. QED
    BY <2>1 DEF LogInv, Receive, caller, Ordered
<1> HIDE DEF m
<1>5. /\ lost[s] \subseteq lost'[s]
      /\ s # i => file'[s] = file[s]
      /\ file'[s] = file[s] \/ file'[s] = Append(file[s], m)
  BY <1>1, MessageWritten
<1> USE DEF m
<1>2. CASE socket'[s] = socket[s] /\ file'[s] = file[s]
  BY <1>1, <1>2, <1>5, NothingWritten
<1>3. CASE socket'[s] # socket[s] \/ file'[s] # file[s]
  <2>1. s = i
    BY <1>1, <1>3, <1>5
  <2>2. /\ m \in Message /\ m = socket[i][1] /\ 1 \in DOMAIN socket[i]
        /\ Tail(socket[i]) \in Seq(Message)
        /\ \A j \in DOMAIN Tail(socket[i]) :
             j + 1 \in DOMAIN socket[i] /\ Tail(socket[i])[j] = socket[i][j + 1]
        /\ Numbered(Tail(socket[i]))
        /\ \A j \in DOMAIN Tail(socket[i]) :
             m[1] = Tail(socket[i])[j][1] => m[2] < Tail(socket[i])[j][2]
    BY <1>1, TakenOut
  <2>3. ASSUME socket'[i] = Tail(socket[i]), file'[i] = Append(file[i], m)
        PROVE  LogStep(i)
    <3>1. \A j \in DOMAIN file[i] : file[i][j][1] = m[1] => file[i][j][2] < m[2]
      <4>1. \A j \in DOMAIN file[i], k \in DOMAIN socket[i] :
              file[i][j][1] = socket[i][k][1] => file[i][j][2] < socket[i][k][2]
        BY <1>1 DEF Ordered
      <4>2. m = socket[i][1] /\ 1 \in DOMAIN socket[i]
        BY <2>2
      <4> HIDE DEF m
      <4>3. QED
        BY <4>1, <4>2
    <3>2. Numbered(socket'[i]) /\ socket'[i] \in Seq(Message)
      BY <2>2, <2>3 DEF Numbered
    <3>3. Ordered(i)'
      <4>1. \A j \in DOMAIN socket'[i] : \E k \in DOMAIN socket[i] : socket'[i][j] = socket[i][k]
        BY <2>2, <2>3
      <4>2. \A j \in DOMAIN socket'[i] : m[1] = socket'[i][j][1] => m[2] < socket'[i][j][2]
        BY <2>2, <2>3
      <4>3. QED
        BY <1>1, <2>2, <2>3, <3>1, <3>2, <4>1, <4>2, FileGrows
    <3>4. m[1] \in Workers /\ m[2] > 0 /\ m[2] <= sent[m[1]]
      BY <1>1, <2>2 DEF Counted, Message
    <3>5. Counted(i)'
      <4>1. \A j \in DOMAIN file'[i] : \/ j \in DOMAIN file[i] /\ file'[i][j] = file[i][j]
                                       \/ file'[i][j] = m
        BY <1>1, <2>2, <2>3
      <4>2. sent[m[1]] > 0
        BY <1>1, <2>2, <3>4 DEF Message
      <4>3. \A j \in DOMAIN file'[i] :
              file'[i][j][1] \in Workers
                => file'[i][j][2] <= sent[file'[i][j][1]] /\ sent[file'[i][j][1]] > 0
        <5>1. \A j \in DOMAIN file[i] :
                file[i][j][1] \in Workers
                  => file[i][j][2] <= sent[file[i][j][1]] /\ sent[file[i][j][1]] > 0
          BY <1>1 DEF Counted
        <5> HIDE DEF m
        <5> QED
          BY <3>4, <4>1, <4>2, <5>1
      <4>4. \A j \in DOMAIN socket'[i] :
              /\ socket'[i][j][1] \in Workers /\ 0 < socket'[i][j][2]
              /\ socket'[i][j][2] <= sent[socket'[i][j][1]]
        <5>1. \A j \in DOMAIN socket[i] :
                /\ socket[i][j][1] \in Workers /\ 0 < socket[i][j][2]
                /\ socket[i][j][2] <= sent[socket[i][j][1]]
          BY <1>1 DEF Counted
        <5> QED
          BY <2>2, <2>3, <5>1
      <4>5. QED
        BY <1>1, <4>3, <4>4 DEF Counted
    <3>6. Framed(i)'
      <4>1. m[1] # "server"
        BY <3>4
      <4>2. QED
        BY <1>1, <1>5, <2>1, <2>2, <2>3, <4>1, FrameGrows
    <3>7. QED
      BY <3>3, <3>5, <3>6
  <2>5. ASSUME socket'[i] = Tail(socket[i]), file'[i] = file[i]
        PROVE  LogStep(i)
    <3>1. \A j \in DOMAIN socket'[i] : \E k \in DOMAIN socket[i] : socket'[i][j] = socket[i][k]
      BY <2>2, <2>5
    <3>2. Numbered(socket'[i]) /\ socket'[i] \in Seq(Message)
      BY <2>2, <2>5 DEF Numbered
    <3>3. Ordered(i)'
      <4>1. ASSUME NEW j \in DOMAIN file[i], NEW k \in DOMAIN socket'[i],
                   file[i][j][1] = socket'[i][k][1]
            PROVE  file[i][j][2] < socket'[i][k][2]
        <5>1. PICK l \in DOMAIN socket[i] : socket'[i][k] = socket[i][l]
          BY <3>1
        <5>2. file[i][j][1] = socket[i][l][1] => file[i][j][2] < socket[i][l][2]
          BY <1>1 DEF Ordered
        <5> QED
          BY <4>1, <5>1, <5>2
      <4>2. Numbered(file[i])
        BY <1>1 DEF Ordered
      <4> QED
        BY <1>1, <2>5, <3>2, <4>1, <4>2 DEF Ordered
    <3>4. Counted(i)'
      BY <1>1, <2>5, <3>1 DEF Counted
    <3>5. Framed(i)'
      BY <1>1, <1>5, <2>1, <2>5 DEF Framed
    <3>6. QED
      BY <3>3, <3>4, <3>5
  <2>6. socket'[i] = Tail(socket[i])
    BY <1>1 DEF LogInv
  <2>4. QED
    BY <1>5, <2>1, <2>3, <2>5, <2>6
<1>4. QED
  BY <1>2, <1>3

\* A message of the server's own, at a place in its file that the thread's place allows.
LEMMA OwnWrites ==
  ASSUME LogInv, NEW i \in Servers, NEW m \in { Hello, Goodbye }, WriteMessage(i, m),
         socket' = socket, sent' = sent,
         m = Hello   => Move(i, "ready", "wait"),
         m = Goodbye => Move(i, "timers", "ended"),
         NEW s \in Servers
  PROVE  LogStep(s)
<1> USE LogAssumption DEF LogStep
<1>1. /\ Ordered(s) /\ Counted(s) /\ Framed(s)
      /\ sent \in [Workers -> Nat]
      /\ socket[s] \in Seq(Message) /\ file[s] \in Seq(Message) /\ Numbered(socket[s])
      /\ m \in Message /\ m[1] = "server" /\ m[2] \in Nat /\ (m[2] = 1 <=> m = Hello)
      /\ server \in [Servers -> { "none", "new", "bound", "ended" } \cup Serving]
  <2>1. sent \in [Workers -> Nat]
    BY DEF LogInv, InstanceInv, LogTypes
  <2>2. QED
    BY <2>1 DEF LogInv, InstanceInv, LogTypes, Ordered, Hello, Goodbye, Message
<1>5. /\ lost[s] \subseteq lost'[s]
      /\ s # i => file'[s] = file[s]
      /\ s = i => file'[s] = Append(file[s], m) \/ (file'[s] = file[s] /\ m \in lost'[s])
  BY MessageWritten
<1>2. CASE s # i
  <2>1. server'[s] = server[s] /\ file'[s] = file[s]
    BY <1>1, <1>2, <1>5 DEF Move, Hello, Goodbye
  <2>2. QED
    BY <1>1, <1>5, <2>1, NothingWritten
<1>6. CASE s = i /\ file'[s] = file[s] /\ m \in lost'[s]
  <2>1. /\ m = Hello   => server[s] = "ready" /\ server'[s] = "wait"
        /\ m = Goodbye => server[s] = "timers" /\ server'[s] = "ended"
    BY <1>1, <1>6 DEF Move
  <2>2. QED
    BY <1>1, <1>5, <1>6, <2>1, NothingWritten
<1>3. CASE s = i /\ file'[s] = Append(file[s], m)
  <2>1. file'[s] = Append(file[s], m)
    BY <1>3
  <2>2. /\ m = Hello   => server[s] = "ready" /\ server'[s] = "wait"
        /\ m = Goodbye => server[s] = "timers" /\ server'[s] = "ended"
    BY <1>1, <1>3 DEF Move
  <2>3. \A j \in DOMAIN socket[s] : socket[s][j][1] # "server"
    BY <1>1 DEF Counted
  <2>4. \A j \in DOMAIN file[s] : file[s][j][1] = "server" => file[s][j][2] < m[2]
    BY <1>1, <2>2 DEF Framed, Hello, Goodbye
  <2>5. Ordered(s)'
    BY <1>1, <2>1, <2>3, <2>4, FileGrows
  <2>6. Counted(s)'
    <3>1. \A j \in DOMAIN file'[s] :
            \/ j \in DOMAIN file[s] /\ file'[s][j] = file[s][j]
            \/ file'[s][j] = m
      BY <1>1, <2>1
    <3>2. QED
      BY <1>1, <3>1 DEF Counted
  <2>7. Framed(s)'
    <3>1. ~FromSocket(m)
      BY <1>1 DEF FromSocket
    <3>2. QED
      BY <1>1, <1>5, <2>1, <2>2, <3>1, FrameGrows DEF Goodbye, Hello
  <2>8. QED
    BY <2>5, <2>6, <2>7
<1>4. QED
  BY <1>2, <1>3, <1>5, <1>6

-----------------------------------------------------------------------------
(* The order of the messages. *)

LEMMA LogInit == Init => LogInv
<1> SUFFICES ASSUME Init PROVE LogInv
  OBVIOUS
<1>1. \A s \in Servers : server[s] = "none" /\ file[s] = << >> /\ socket[s] = << >>
  BY DEF Init
<1>2. \A s \in Servers : Ordered(s)
  <2>1. << >> \in Seq(Message) /\ Numbered(<< >>)
    BY DEF Numbered
  <2>2. DOMAIN << >> = {}
    OBVIOUS
  <2>3. ASSUME NEW s \in Servers PROVE Ordered(s)
    <3>1. file[s] = << >> /\ socket[s] = << >>
      BY <1>1
    <3>2. QED
      BY <2>1, <2>2, <3>1 DEF Ordered, Numbered
  <2>4. QED
    BY <2>3
<1>3. \A s \in Servers : Counted(s)
  BY <1>1 DEF Counted
<1>4. \A s \in Servers : Framed(s)
  BY <1>1 DEF Framed
<1>5. DOMAIN file = Servers /\ DOMAIN socket = Servers /\ DOMAIN lost = Servers
  BY DEF Init
<1>6. QED
  BY <1>2, <1>3, <1>4, <1>5, InstanceInit DEF LogInv

\* The thread of a server moves without writing, or nobody writes.
LEMMA QuietStep ==
  ASSUME LogInv, UNCHANGED << file, lost, socket >>,
         sent' \in [Workers -> Nat], \A w \in Workers : sent[w] <= sent'[w],
         \A s \in Servers :
           \/ server'[s] = server[s]
           \/ server[s] = "none" /\ server'[s] = "new"
           \/ server[s] = "new" /\ server'[s] = "bound"
           \/ server[s] = "bound" /\ server'[s] = "ready"
           \/ /\ server[s] \in { "wait", "receive", "timers" }
              /\ server'[s] \in { "wait", "receive", "timers" },
         NEW s \in Servers
  PROVE  LogStep(s)
<1>1. sent \in [Workers -> Nat]
  BY DEF LogInv, InstanceInv, LogTypes
<1>2. Ordered(s) /\ Counted(s) /\ Framed(s)
  BY DEF LogInv
<1>3. QED
  BY <1>1, <1>2, NothingWritten DEF LogStep

LEMMA LogNext ==
  ASSUME LogLiberties = {}, LogInv, [Next]_vars
  PROVE  LogInv'
<1> USE LogAssumption
<1>1. /\ server \in [Servers -> { "none", "new", "bound", "ended" } \cup Serving]
      /\ sent \in [Workers -> Nat] /\ created \in Nat
      /\ \A i \in Servers : server[i] = "none" <=> i > created
  BY DEF LogInv, InstanceInv, LogTypes, OneLife
<1>2. \A w \in Workers : sent[w] <= sent[w]
  BY <1>1
<1>3. ASSUME UNCHANGED << file, lost, socket, sent, server >>, NEW s \in Servers
      PROVE  LogStep(s)
  BY <1>1, <1>2, <1>3, QuietStep
<1>4. ASSUME NEW c \in Callers, GetInstance(c), NEW s \in Servers
      PROVE  LogStep(s)
  <2>1. CASE UNCHANGED << file, lost, socket, sent, server >>
    BY <1>3, <2>1
  <2>2. CASE New(c)
    <3>1. \A i \in Servers : server'[i] = server[i] \/ (server[i] = "none" /\ server'[i] = "new")
      BY <1>1, <2>2 DEF New
    <3>2. QED
      BY <1>1, <1>2, <2>2, <3>1, QuietStep DEF New
  <2>3. QED
    BY <1>4, <2>1, <2>2 DEF GetInstance, Look, Acquire, Check, Spin, Unlock, Return, thread, output
<1>5. ASSUME MainStep \/ Start \/ \E w \in Workers : GetLogHandle(w), NEW s \in Servers
      PROVE  LogStep(s)
  <2>1. UNCHANGED << file, lost, socket, sent, server >>
    BY <1>5 DEF MainStep, Start, GetLogHandle, SetStopFlag, Join, Lock, Delete, Destroy, Ask,
                thread, output
  <2>2. QED
    BY <1>3, <2>1
<1>6. ASSUME NEW w \in Workers, WorkerStep(w), NEW s \in Servers
      PROVE  LogStep(s)
  <2>1. CASE CreateConnection(w) \/ CloseHandle(w)
    BY <1>3, <2>1 DEF CreateConnection, CloseHandle, thread, output
  <2>2. QED
    BY <1>6, <2>1, NoConnectionWrites, LogWrites DEF WorkerStep
<1>7. ASSUME NEW i \in Servers, ServerStep(i), NEW s \in Servers
      PROVE  LogStep(s)
  <2>1. CASE Receive(i)
    BY <2>1, ReceiveWrites
  <2>2. CASE SayReady(i)
    BY <2>2, OwnWrites DEF SayReady, caller, Hello, Goodbye
  <2>3. CASE CheckStopFlag(i) /\ due[i] /\ stop[i]
    BY <2>3, OwnWrites DEF CheckStopFlag, caller, Hello, Goodbye
  <2>4. CASE Bind(i) \/ SetReadyToServe(i) \/ Wait(i) \/ ReceiveNone(i)
             \/ (CheckStopFlag(i) /\ ~(due[i] /\ stop[i]))
    <3>1. UNCHANGED << file, lost, socket, sent >>
      BY <2>4 DEF Bind, SetReadyToServe, Wait, ReceiveNone, CheckStopFlag, caller, output
    <3>2. PICK from, to :
            /\ Move(i, from, to)
            /\ \/ from = "new" /\ to = "bound"
               \/ from = "bound" /\ to = "ready"
               \/ from \in { "wait", "receive", "timers" } /\ to \in { "wait", "receive", "timers" }
      BY <2>4 DEF Bind, SetReadyToServe, Wait, ReceiveNone, CheckStopFlag
    <3>3. \A j \in Servers : server'[j] = server[j] \/ (server[j] = from /\ server'[j] = to)
      BY <1>1, <3>2 DEF Move
    <3>4. QED
      BY <1>1, <1>2, <3>1, <3>2, <3>3, QuietStep
  <2>5. QED
    BY <1>7, <2>1, <2>2, <2>3, <2>4 DEF ServerStep
<1>8. ASSUME UNCHANGED vars, NEW s \in Servers
      PROVE  LogStep(s)
  BY <1>3, <1>8 DEF vars, thread, output, caller
<1>9. \A s \in Servers : LogStep(s)
  BY <1>4, <1>5, <1>6, <1>7, <1>8 DEF Next
<1>10. DOMAIN file' = Servers /\ DOMAIN socket' = Servers /\ DOMAIN lost' = Servers
  BY DEF LogInv, Next, vars, thread, output, Start, MainStep, GetInstance, GetLogHandle, WorkerStep,
         ServerStep, WriteMessage, Look, Acquire, Check, New, Spin, Unlock, Return, Ask, SetStopFlag,
         Join, Lock, Delete, Destroy, CreateConnection, NoConnection, Log, CloseHandle,
         Bind, SetReadyToServe, SayReady, Wait, Receive, ReceiveNone, CheckStopFlag
<1>11. QED
  BY <1>9, <1>10, InstanceNext DEF LogInv, LogStep

\* The messages of a worker are written in the order it logged them, each once, and those that
\* came through the socket between the two of the server's own, though a failing write() may leave
\* out any of them (app_logger.h:261).
THEOREM WrittenInOrder ==
  ASSUME LogLiberties = {}
  PROVE  Spec => []InOrder
<1>1. LogInv => InOrder
  BY DEF LogInv, InOrder, Ordered, Numbered, Framed
<1>2. QED
  BY <1>1, LogInit, LogNext, PTL DEF Spec

-----------------------------------------------------------------------------
(* Each server uses its file as LogFile allows. *)

\* The thread of a server moves once the server is made, and no file changes hands.
LEMMA FileIdle ==
  ASSUME NEW s \in Servers, file'[s] = file[s], s \in deleted' <=> s \in deleted,
         s \in unopened' <=> s \in unopened,
         server'[s] = "none" <=> server[s] = "none"
  PROVE  UNCHANGED File(s)!logFile
  BY DEF File!logFile

LEMMA FileWrite ==
  ASSUME NEW s \in Servers, file[s] \in Seq(Message), NEW m \in Message,
         file'[s] = Append(file[s], m),
         s \notin unopened, unopened' = unopened,
         s \notin deleted, s \notin deleted', server[s] # "none", server'[s] # "none"
  PROVE  File(s)!Write
<1>1. Len(file'[s]) = Len(file[s]) + 1
  OBVIOUS
<1>2. QED
  BY <1>1 DEF File!Write

FileStep(s) == File(s)!Next \/ UNCHANGED File(s)!logFile

LEMMA FileUsed ==
  ASSUME LogLiberties = {}, LogInv, [Next]_vars, NEW s \in Servers
  PROVE  FileStep(s)
<1> USE LogAssumption DEF FileStep
<1>1. /\ server \in [Servers -> { "none", "new", "bound", "ended" } \cup Serving]
      /\ DOMAIN file = Servers /\ \A i \in Servers : file[i] \in Seq(Message)
      /\ created \in Nat /\ deleted \in SUBSET Servers
      /\ \A i \in Servers : server[i] = "none" <=> i > created
      /\ \A i \in deleted : i <= created /\ server[i] = "ended"
      /\ uniq # 0 => uniq \in Servers \ deleted /\ uniq = created
  <2>1. DOMAIN file = Servers /\ \A i \in Servers : file[i] \in Seq(Message)
    BY DEF LogInv, Ordered
  <2>2. QED
    BY <2>1 DEF LogInv, InstanceInv, LogTypes, OneLife, Servers
<1>2. ASSUME NEW i \in Servers, NEW m \in Message, WriteMessage(i, m), i \notin deleted,
             deleted' = deleted, server[i] # "none", server'[i] # "none",
             \A j \in Servers \ {i} : server'[j] = server[j]
      PROVE  FileStep(s)
  <2>1. /\ s # i => file'[s] = file[s]
        /\ \/ file'[s] = Append(file[s], m) /\ s \notin unopened
           \/ file'[s] = file[s]
        /\ unopened' = unopened
    BY <1>2, MessageWritten
  <2>2. CASE s = i /\ file'[s] = Append(file[s], m) /\ s \notin unopened
    <3>1. File(s)!Write
      BY <1>1, <1>2, <2>1, <2>2, FileWrite
    <3>2. QED
      BY <3>1 DEF File!Next
  <2>3. CASE file'[s] = file[s]
    <3>1. server'[s] = "none" <=> server[s] = "none"
      BY <1>2
    <3>2. QED
      BY <1>2, <2>1, <2>3, <3>1, FileIdle
  <2>4. QED
    BY <2>1, <2>2, <2>3
<1>3. ASSUME UNCHANGED << file, deleted >>, server'[s] = "none" <=> server[s] = "none",
             s \in unopened' <=> s \in unopened
      PROVE  FileStep(s)
  BY <1>3, FileIdle
<1>4. CASE \E c \in Callers : GetInstance(c) /\ New(c)
  <2>1. /\ created + 1 \in Servers /\ server[created + 1] = "none"
        /\ server' = [server EXCEPT ![created + 1] = "new"]
        /\ unopened' \in { unopened, unopened \cup { created + 1 } }
        /\ UNCHANGED << file, deleted >>
    BY <1>1, <1>4 DEF New, Servers
  <2>2. CASE s = created + 1
    <3>1. server[s] = "none" /\ server'[s] = "new" /\ s \notin deleted
      BY <1>1, <2>1, <2>2
    <3>2. file[s] = << >>
      BY <3>1 DEF LogInv, Framed
    <3>3. File(s)!Begin
      BY <2>1, <3>1, <3>2 DEF File!Begin
    <3>4. QED
      BY <3>3 DEF File!Next
  <2>3. CASE s # created + 1
    BY <1>1, <1>3, <2>1, <2>3
  <2>4. QED
    BY <2>2, <2>3
<1>5. CASE Delete
  <2>1. deleted' = deleted \cup ({uniq} \ {0}) /\ UNCHANGED << file, server, unopened >>
    BY <1>5 DEF Delete, thread, output
  <2>2. CASE s = uniq
    <3>1. s \notin deleted /\ s \in deleted' /\ server[s] # "none"
      BY <1>1, <2>1, <2>2 DEF Servers
    <3>2. File(s)!Close
      BY <2>1, <3>1 DEF File!Close
    <3>3. QED
      BY <3>2 DEF File!Next
  <2>3. CASE s # uniq
    BY <2>1, <2>3, FileIdle
  <2>4. QED
    BY <2>2, <2>3
<1>6. ASSUME NEW w \in Workers, NoConnection(w)
      PROVE  FileStep(s)
  <2>1. /\ Bound(got[w]) /\ WriteMessage(got[w], << w, 0 >>)
        /\ deleted' = deleted /\ server' = server /\ << w, 0 >> \in Message
    BY <1>6 DEF NoConnection, Message, instance
  <2>2. QED
    BY <1>2, <2>1 DEF Bound
<1>7. ASSUME NEW i \in Servers, ServerStep(i)
      PROVE  FileStep(s)
  <2>1. /\ server[i] \notin { "none", "ended" } /\ server'[i] # "none"
        /\ \A j \in Servers \ {i} : server'[j] = server[j]
        /\ deleted' = deleted
    <3>1. CASE Receive(i)
      BY <1>1, <3>1 DEF Receive, instance
    <3>2. CASE ~Receive(i)
      <4>1. PICK from, to : /\ Move(i, from, to)
                            /\ from \notin { "none", "ended" } /\ to # "none"
                            /\ deleted' = deleted
        BY <1>7, <3>2 DEF ServerStep, Bind, SetReadyToServe, SayReady, Wait, ReceiveNone,
                          CheckStopFlag, instance
      <4>2. QED
        BY <1>1, <4>1 DEF Move
    <3>3. QED
      BY <3>1, <3>2
  <2>2. i \notin deleted
    BY <1>1, <2>1
  <2>3. CASE UNCHANGED output
    <3>1. server'[s] = "none" <=> server[s] = "none"
      BY <2>1
    <3>2. QED
      BY <1>3, <2>1, <2>3, <3>1 DEF output
  <2>4. CASE \E m \in Message : WriteMessage(i, m)
    BY <1>2, <2>1, <2>2, <2>4
  <2>5. QED
    <3>1. Hello \in Message /\ Goodbye \in Message
      BY DEF Hello, Goodbye, Message
    <3>2. ASSUME Receive(i) PROVE Head(socket[i]) \in Message
      <4>1. socket[i] \in Seq(Message) /\ socket[i] # << >>
        BY <3>2 DEF Receive, LogInv, Ordered
      <4>2. QED
        BY <4>1
    <3>3. QED
      BY <1>7, <2>3, <2>4, <3>1, <3>2
         DEF ServerStep, Bind, SetReadyToServe, SayReady, Wait, Receive, ReceiveNone, CheckStopFlag
<1>8. CASE UNCHANGED << file, deleted, server, unopened >>
  BY <1>3, <1>8
<1>9. QED
  BY <1>4, <1>5, <1>6, <1>7, <1>8
     DEF Next, vars, thread, output, instance, caller, Start, MainStep, GetInstance, GetLogHandle,
         WorkerStep, Look, Acquire, Check, Spin, Unlock, Return, Ask, SetStopFlag, Join,
         Lock, Destroy, CreateConnection, Log, CloseHandle

\* The log server uses each of its files as LogFile allows, whatever its workers do meanwhile:
\* one message at a time, none before the file is begun or after it is closed, and none to a file
\* that could not be opened (app_logger.cc:218, app_logger.cc:276).
THEOREM ServerUsesLogFile ==
  ASSUME LogLiberties = {}
  PROVE  Spec => UsesLogFile
<1>1. Init => \A i \in Servers : File(i)!Init
  BY DEF Init, File!Init
<1>2. ASSUME LogInv, [Next]_vars
      PROVE  [\A i \in Servers : File(i)!Next \/ UNCHANGED File(i)!logFile]_vars
  BY <1>2, FileUsed DEF FileStep
<1>3. QED
  BY <1>1, <1>2, LogInit, LogNext, PTL DEF Spec, UsesLogFile
=============================================================================
