-------------------------- MODULE AsyncEventProofs --------------------------
(***************************************************************************)
(* Theorems about the two halves of AsyncEvent: FdEvents, for every table  *)
(* size and every set of masks, and TimeEvents, for every array size and   *)
(* set of delays.                                                          *)
(*                                                                         *)
(* ReadyExact, that the ready list holds exactly the pending descriptors,  *)
(* depends on two clauses of the callers' contract only, KeepsList; the    *)
(* invariant that carries it says what the entry under the scan's index is *)
(* while a callback of processReadyFds() runs.                             *)
(***************************************************************************)
EXTENDS FdEvents, TimeEvents, FiniteSetTheorems, TLAPS

\* Callbacks of processReadyFds() keep to the two clauses that protect the
\* entry they were called for.
KeepsList == "dropInReady" \notin Liberties /\ "readdInReady" \notin Liberties

ReadyTypes ==
  /\ monitored \in [Fd -> SUBSET RDWR]
  /\ fired \in [Fd -> SUBSET RDWR]
  /\ readyList \in [Slots -> Fd]
  /\ numReady \in 0 .. TableSize
  /\ phase \in Phases
  /\ idx \in 0 .. TableSize
  /\ cur \in Fd

\* No two entries of the ready list are the same descriptor.
Distinct == \A j, k \in 0 .. numReady - 1 : readyList[j] = readyList[k] => j = k

ReadyInv == ReadyTypes /\ ReadyExact /\ OwnSlot

-----------------------------------------------------------------------------
(* The ready list. *)

\* SwapRemove() takes out the entry it is given and nothing else.
LEMMA SwapRemoveRemoves ==
  ASSUME readyList \in [Slots -> Fd], numReady \in 0 .. TableSize, Distinct,
         NEW k \in 0 .. numReady - 1, SwapRemove(k)
  PROVE  /\ readyList' \in [Slots -> Fd]
         /\ numReady' = numReady - 1 /\ numReady' \in 0 .. TableSize
         /\ Distinct'
         /\ Listed' = Listed \ {readyList[k]}
         /\ readyList'[k] = readyList[numReady - 1]
         /\ \A j \in Slots \ {k} : readyList'[j] = readyList[j]
<1> USE FdAssumption
<1>1. /\ numReady > 0 /\ k \in Slots /\ numReady - 1 \in Slots
      /\ readyList' = [readyList EXCEPT ![k] = readyList[numReady - 1]]
      /\ numReady' = numReady - 1
  BY DEF SwapRemove, Slots
<1>2. /\ readyList' \in [Slots -> Fd]
      /\ readyList'[k] = readyList[numReady - 1]
      /\ \A j \in Slots \ {k} : readyList'[j] = readyList[j]
  BY <1>1
<1>3. \A j \in 0 .. numReady' - 1 : j \in Slots /\ j \in 0 .. numReady - 1 /\ j # numReady - 1
  BY <1>1 DEF Slots
<1>4. \A j \in 0 .. numReady - 1 : j \in Slots
  BY DEF Slots
<1>5. Distinct'
  BY <1>1, <1>2, <1>3 DEF Distinct
<1>6. Listed' \subseteq Listed \ {readyList[k]}
  BY <1>1, <1>2, <1>3 DEF Listed, Distinct
<1>7. Listed \ {readyList[k]} \subseteq Listed'
  <2> SUFFICES ASSUME NEW j \in 0 .. numReady - 1, readyList[j] # readyList[k]
               PROVE  \E i \in 0 .. numReady' - 1 : readyList'[i] = readyList[j]
    BY DEF Listed
  <2>1. CASE j = numReady - 1
    <3>1. k \in 0 .. numReady' - 1
      BY <1>1, <2>1
    <3>2. QED
      BY <1>2, <2>1, <3>1
  <2>2. CASE j # numReady - 1
    <3>1. j \in 0 .. numReady' - 1 /\ j \in Slots \ {k}
      BY <1>1, <1>4, <2>2
    <3>2. QED
      BY <1>2, <3>1
  <2>3. QED
    BY <2>1, <2>2
<1>8. QED
  BY <1>1, <1>2, <1>5, <1>6, <1>7

\* A list without repetitions that misses a descriptor has room for it.
LEMMA RoomForOne ==
  ASSUME readyList \in [Slots -> Fd], numReady \in 0 .. TableSize, Distinct,
         NEW f \in Fd, f \notin Listed
  PROVE  numReady < TableSize
<1> USE FdAssumption
<1> DEFINE g == [k \in 0 .. numReady - 1 |-> readyList[k]]
<1>1. g \in Injection(0 .. numReady - 1, Fd \ {f})
  <2>1. \A k \in 0 .. numReady - 1 : readyList[k] \in Fd \ {f}
    BY DEF Slots, Listed
  <2>2. g \in [0 .. numReady - 1 -> Fd \ {f}]
    BY <2>1
  <2>3. \A a, b \in 0 .. numReady - 1 : g[a] = g[b] => a = b
    BY DEF Distinct
  <2>4. QED
    BY <2>2, <2>3 DEF Injection, IsInjective
<1>2. IsFiniteSet(Fd) /\ Cardinality(Fd) = TableSize
  BY FS_Interval DEF Fd
<1>3. IsFiniteSet(Fd \ {f}) /\ Cardinality(Fd \ {f}) = TableSize - 1
  BY <1>2, FS_RemoveElement
<1>4. Cardinality(0 .. numReady - 1) = numReady
  BY FS_Interval
<1>5. Cardinality(0 .. numReady - 1) <= Cardinality(Fd \ {f})
  BY <1>1, <1>3, FS_Injection
<1>6. QED
  BY <1>3, <1>4, <1>5

\* The search loop of delFdEvent(), removeFd() and processFdEvents() takes out
\* the descriptor it looks for; the entry at any other place stays, or becomes
\* the last one.
LEMMA UnreadyRemoves ==
  ASSUME readyList \in [Slots -> Fd], numReady \in 0 .. TableSize, Distinct,
         NEW f \in Fd, Unready(f)
  PROVE  /\ readyList' \in [Slots -> Fd]
         /\ numReady' \in 0 .. TableSize
         /\ numReady' = IF f \in Listed THEN numReady - 1 ELSE numReady
         /\ Distinct'
         /\ Listed' = Listed \ {f}
         /\ \A j \in Slots : \/ readyList'[j] = readyList[j]
                             \/ /\ readyList[j] = f /\ f \in Listed
                                /\ readyList'[j] = readyList[numReady - 1]
<1>1. CASE f \in Listed
  <2>1. PICK k \in 0 .. numReady - 1 : readyList[k] = f /\ SwapRemove(k)
    BY <1>1 DEF Unready
  <2>2. /\ readyList' \in [Slots -> Fd]
        /\ numReady' = numReady - 1 /\ numReady' \in 0 .. TableSize
        /\ Distinct'
        /\ Listed' = Listed \ {f}
        /\ readyList'[k] = readyList[numReady - 1]
        /\ \A j \in Slots \ {k} : readyList'[j] = readyList[j]
    BY <2>1, SwapRemoveRemoves
  <2>3. QED
    BY <1>1, <2>1, <2>2
<1>2. CASE f \notin Listed
  <2>1. UNCHANGED << readyList, numReady >>
    BY <1>2 DEF Unready
  <2>2. QED
    BY <1>2, <2>1 DEF Distinct, Listed
<1>3. QED
  BY <1>1, <1>2

-----------------------------------------------------------------------------
(* The calls. *)

\* Dropping a descriptor, within the contract, keeps the list exact and the
\* running callback's entry in place.
LEMMA DropKeeps ==
  ASSUME KeepsList, ReadyInv, NEW f \in Fd, MayDrop(f), Drop(f), UNCHANGED control
  PROVE  ReadyInv'
<1> USE FdAssumption DEF ReadyInv
<1>1. /\ monitored' = [monitored EXCEPT ![f] = {}]
      /\ fired' = [fired EXCEPT ![f] = {}]
      /\ Unready(f)
      /\ phase' = phase /\ idx' = idx /\ cur' = cur
  BY DEF Drop, control
<1>2. Distinct /\ Listed = { h \in Fd : fired[h] # {} }
  BY DEF ReadyExact, Distinct
<1>3. /\ readyList' \in [Slots -> Fd]
      /\ numReady' \in 0 .. TableSize
      /\ numReady' = IF f \in Listed THEN numReady - 1 ELSE numReady
      /\ Distinct'
      /\ Listed' = Listed \ {f}
      /\ \A j \in Slots : \/ readyList'[j] = readyList[j]
                          \/ /\ readyList[j] = f /\ f \in Listed
                             /\ readyList'[j] = readyList[numReady - 1]
  BY <1>1, <1>2, UnreadyRemoves DEF ReadyTypes
<1>4. ReadyTypes'
  BY <1>1, <1>3 DEF ReadyTypes
<1>5. ReadyExact'
  <2>1. Listed' = { h \in Fd : fired'[h] # {} }
    BY <1>1, <1>2, <1>3 DEF ReadyTypes
  <2>2. QED
    BY <1>3, <2>1 DEF ReadyExact, Distinct
<1>6. OwnSlot'
  <2> SUFFICES ASSUME phase = "readyCb"
               PROVE  /\ idx \in Slots
                      /\ \/ fired'[cur] # {} /\ idx < numReady' /\ readyList'[idx] = cur
                         \/ fired'[cur] = {} /\ monitored'[cur] = {} /\ readyList'[idx] # cur
    BY <1>1 DEF OwnSlot
  <2>1. idx \in Slots /\ cur \in Fd
    BY DEF OwnSlot, ReadyTypes
  <2>2. fired[cur] = {} \/ fired[f] = {} \/ idx < numReady - 1
    BY DEF MayDrop, KeepsList
  <2>3. f \in Listed <=> fired[f] # {}
    BY <1>2
  <2>4. f \in Listed => numReady - 1 \in 0 .. numReady - 1
    BY DEF Listed, ReadyTypes
  <2>5. f \in Listed => readyList[numReady - 1] \in Listed
    BY <2>4 DEF Listed
  <2>6. CASE fired[cur] # {} /\ f = cur
    <3>1. readyList[idx] = cur /\ idx < numReady - 1 /\ f \in Listed
      BY <2>2, <2>3, <2>6 DEF OwnSlot
    <3>2. readyList[numReady - 1] # cur
      BY <1>2, <2>1, <2>4, <3>1 DEF Distinct, Slots, ReadyTypes
    <3>3. readyList'[idx] # cur
      <4>1. idx \in 0 .. numReady' - 1
        BY <1>3, <2>1, <3>1 DEF Slots, ReadyTypes
      <4>2. readyList'[idx] \in Listed'
        BY <4>1 DEF Listed
      <4>3. QED
        BY <1>3, <2>6, <4>2
    <3>4. QED
      BY <1>1, <2>1, <2>6, <3>3 DEF ReadyTypes
  <2>7. CASE fired[cur] # {} /\ f # cur
    <3>1. readyList[idx] = cur /\ idx < numReady
      BY <2>7 DEF OwnSlot
    <3>2. readyList'[idx] = cur
      BY <1>3, <2>1, <2>7, <3>1
    <3>3. idx < numReady'
      BY <1>3, <2>2, <2>3, <2>7, <3>1
    <3>4. QED
      BY <1>1, <2>1, <2>7, <3>2, <3>3 DEF ReadyTypes
  <2>8. CASE fired[cur] = {}
    <3>1. monitored[cur] = {} /\ readyList[idx] # cur
      BY <2>8 DEF OwnSlot
    <3>2. cur \notin Listed
      BY <1>2, <2>8
    <3>3. readyList'[idx] # cur
      BY <1>3, <2>1, <2>5, <3>1, <3>2
    <3>4. fired'[cur] = {} /\ monitored'[cur] = {}
      BY <1>1, <2>1, <2>8, <3>1 DEF ReadyTypes
    <3>5. QED
      BY <2>1, <3>3, <3>4
  <2>9. QED
    BY <2>6, <2>7, <2>8
<1>7. QED
  BY <1>4, <1>5, <1>6

\* Steps that leave the list, the pending events and the loops alone, and
\* register no descriptor a pending callback has dropped.
LEMMA OtherCallKeeps ==
  ASSUME ReadyInv, UNCHANGED << fired, readyList, numReady, control >>,
         monitored' \in [Fd -> SUBSET RDWR],
         phase = "readyCb" /\ monitored[cur] = {} => monitored'[cur] = {}
  PROVE  ReadyInv'
BY DEF ReadyInv, ReadyTypes, ReadyExact, Listed, OwnSlot, control

LEMMA FdCallKeeps ==
  ASSUME KeepsList, ReadyInv, FdCall
  PROVE  ReadyInv'
<1> USE FdAssumption
<1>0. UNCHANGED control
  BY DEF FdCall
<1>1. ASSUME NEW f \in Fd, NEW mask \in Masks \cup {{}}, NEW exp \in BOOLEAN,
             MayAdd(f, mask), addFdEvent(f, mask, exp)
      PROVE  ReadyInv'
  <2>1. /\ monitored' = [monitored EXCEPT ![f] = @ \cup mask]
        /\ UNCHANGED << fired, readyList, numReady >>
    BY <1>1 DEF addFdEvent
  <2>2. monitored' \in [Fd -> SUBSET RDWR]
    BY <2>1 DEF ReadyInv, ReadyTypes
  <2>3. phase = "readyCb" /\ cur = f => monitored[f] # {}
    BY <1>1 DEF MayAdd, KeepsList
  <2>4. phase = "readyCb" /\ monitored[cur] = {} => monitored'[cur] = {}
    BY <2>1, <2>3 DEF ReadyInv, ReadyTypes
  <2>5. QED
    BY <1>0, <2>1, <2>2, <2>4, OtherCallKeeps
<1>2. ASSUME NEW f \in Fd, NEW mask \in Masks, MayDel(f, mask), delFdEvent(f, mask)
      PROVE  ReadyInv'
  <2>1. CASE monitored[f] \ mask = {}
    <3>1. MayDrop(f) /\ Drop(f)
      BY <1>2, <2>1 DEF MayDel, delFdEvent
    <3>2. QED
      BY <1>0, <3>1, DropKeeps
  <2>2. CASE monitored[f] \ mask # {}
    <3>1. /\ monitored' = [monitored EXCEPT ![f] = @ \ mask]
          /\ UNCHANGED << fired, readyList, numReady >>
      BY <1>2, <2>2 DEF delFdEvent
    <3>2. monitored' \in [Fd -> SUBSET RDWR]
      BY <3>1 DEF ReadyInv, ReadyTypes
    <3>3. monitored[cur] = {} => monitored'[cur] = {}
      BY <2>2, <3>1 DEF ReadyInv, ReadyTypes
    <3>4. QED
      BY <1>0, <3>1, <3>2, <3>3, OtherCallKeeps
  <2>3. QED
    BY <2>1, <2>2
<1>3. ASSUME NEW f \in Fd, NEW close \in BOOLEAN, MayDrop(f), removeFd(f, close)
      PROVE  ReadyInv'
  <2>1. CASE monitored[f] # {}
    <3>1. Drop(f)
      BY <1>3, <2>1 DEF removeFd
    <3>2. QED
      BY <1>0, <1>3, <3>1, DropKeeps
  <2>2. CASE monitored[f] = {}
    <3>1. UNCHANGED << monitored, fired, readyList, numReady >>
      BY <1>3, <2>2 DEF removeFd
    <3>2. QED
      BY <1>0, <3>1, OtherCallKeeps DEF ReadyInv, ReadyTypes
  <2>3. QED
    BY <2>1, <2>2
<1>4. ASSUME NEW f \in Fd, closeFd(f)
      PROVE  ReadyInv'
  <2>1. UNCHANGED << monitored, fired, readyList, numReady >>
    BY <1>4 DEF closeFd
  <2>2. QED
    BY <1>0, <2>1, OtherCallKeeps DEF ReadyInv, ReadyTypes
<1>5. QED
  BY <1>1, <1>2, <1>3, <1>4 DEF FdCall

-----------------------------------------------------------------------------
(* The steps of the two loops. *)

LEMMA ReadyStepKeeps ==
  ASSUME ReadyInv, ReadyStep
  PROVE  ReadyInv'
<1> USE FdAssumption DEF ReadyInv, ReadyTypes, Phases, Callback
<1>1. CASE BeginReady
  BY <1>1 DEF BeginReady, table, ReadyExact, Listed, OwnSlot
<1>2. CASE CallReady
  <2>1. /\ idx \in 0 .. numReady - 1 /\ idx \in Slots
        /\ phase' = "readyCb" /\ cur' = readyList[idx]
        /\ UNCHANGED << monitored, fired, readyList, numReady, idx >>
    BY <1>2 DEF CallReady, table, Slots
  <2>2. cur' \in Fd /\ fired[readyList[idx]] # {}
    BY <2>1 DEF ReadyExact, Listed
  <2>3. QED
    BY <2>1, <2>2 DEF ReadyExact, Listed, OwnSlot
<1>3. ASSUME NEW rc \in SUBSET RDWR, ReturnReady(rc)
      PROVE  ReadyInv'
  <2> DEFINE guess == (rc \cup fired[cur]) \cap monitored[cur]
  <2>1. /\ phase = "readyCb" /\ phase' = "ready" /\ cur' = 0
        /\ fired' = [fired EXCEPT ![cur] = guess]
        /\ UNCHANGED monitored
    BY <1>3 DEF ReturnReady, Guess
  <2>2. /\ idx \in Slots /\ cur' \in Fd /\ guess \in SUBSET RDWR
        /\ fired' \in [Fd -> SUBSET RDWR]
        /\ Distinct /\ Listed = { h \in Fd : fired[h] # {} }
    BY <2>1 DEF OwnSlot, Fd, ReadyExact, Distinct
  <2>3. CASE guess # {}
    <3>1. fired[cur] # {}
      BY <2>1, <2>3 DEF OwnSlot
    <3>2. idx' = idx + 1 /\ UNCHANGED << readyList, numReady >>
      BY <1>3, <2>3 DEF ReturnReady, Guess
    <3>3. Listed' = { h \in Fd : fired'[h] # {} }
      BY <2>1, <2>2, <2>3, <3>1, <3>2 DEF Listed
    <3>4. QED
      BY <2>1, <2>2, <3>2, <3>3 DEF ReadyExact, OwnSlot, Slots
  <2>4. CASE guess = {} /\ readyList[idx] = cur
    <3>1. idx \in 0 .. numReady - 1
      BY <2>1, <2>2, <2>4 DEF OwnSlot, Slots
    <3>2. SwapRemove(idx) /\ idx' = idx
      BY <1>3, <2>4 DEF ReturnReady, Guess
    <3>3. /\ readyList' \in [Slots -> Fd] /\ numReady' \in 0 .. TableSize
          /\ Distinct' /\ Listed' = Listed \ {cur}
      BY <2>2, <2>4, <3>1, <3>2, SwapRemoveRemoves
    <3>4. Listed' = { h \in Fd : fired'[h] # {} }
      BY <2>1, <2>2, <2>4, <3>3
    <3>5. QED
      BY <2>1, <2>2, <3>2, <3>3, <3>4 DEF ReadyExact, OwnSlot, Distinct
  <2>5. CASE guess = {} /\ readyList[idx] # cur
    <3>1. fired[cur] = {}
      BY <2>1, <2>5 DEF OwnSlot
    <3>2. UNCHANGED << readyList, numReady, idx >>
      BY <1>3, <2>5 DEF ReturnReady, Guess
    <3>3. fired' = fired
      BY <2>1, <2>5, <3>1
    <3>4. QED
      BY <2>1, <2>2, <3>2, <3>3 DEF ReadyExact, OwnSlot, Listed
  <2>6. QED
    BY <2>3, <2>4, <2>5
<1>4. CASE EndReady
  BY <1>4 DEF EndReady, table, ReadyExact, Listed, OwnSlot
<1>5. QED
  BY <1>1, <1>2, <1>3, <1>4 DEF ReadyStep

LEMMA BatchStepKeeps ==
  ASSUME ReadyInv, BatchStep
  PROVE  ReadyInv'
<1> USE FdAssumption DEF ReadyInv, ReadyTypes, Phases, Callback
<1>1. CASE EpollWait
  BY <1>1 DEF EpollWait, table, ReadyExact, Listed, OwnSlot
<1>2. ASSUME NEW f \in Fd, Dispatch(f)
      PROVE  ReadyInv'
  <2>1. /\ phase = "batch" /\ phase' \in { "batch", "fdCb", "errCb" } /\ cur' \in Fd
        /\ UNCHANGED << monitored, fired, readyList, numReady, idx >>
    BY <1>2 DEF Dispatch, table
  <2>2. ReadyTypes'
    BY <2>1
  <2>3. ReadyExact'
    BY <2>1 DEF ReadyExact, Listed
  <2>4. OwnSlot'
    BY <2>1 DEF OwnSlot
  <2>5. QED
    BY <2>2, <2>3, <2>4
<1>3. ASSUME NEW rc \in SUBSET RDWR, ReturnFd(rc)
      PROVE  ReadyInv'
  <2> DEFINE guess == (rc \cup fired[cur]) \cap monitored[cur]
             left  == fired[cur] \ curEvents
  <2>1. /\ phase' = "batch" /\ cur' = 0 /\ cur' \in Fd /\ cur \in Fd
        /\ guess \in SUBSET RDWR /\ left \in SUBSET RDWR
        /\ UNCHANGED << monitored, idx >>
        /\ Distinct /\ Listed = { h \in Fd : fired[h] # {} }
    BY <1>3 DEF ReturnFd, Guess, Fd, ReadyExact, Distinct
  <2>2. CASE guess # {} /\ fired[cur] = {}
    <3>1. /\ fired' = [fired EXCEPT ![cur] = @ \cup guess]
          /\ readyList' = [readyList EXCEPT ![numReady] = cur]
          /\ numReady' = numReady + 1
      BY <1>3, <2>2 DEF ReturnFd, Guess
    <3>2. cur \notin Listed
      BY <2>1, <2>2
    <3>3. numReady < TableSize
      BY <2>1, <3>2, RoomForOne
    <3>4. numReady \in Slots /\ \A k \in 0 .. numReady - 1 : k \in Slots /\ k # numReady
      BY <3>3 DEF Slots
    <3>5. /\ readyList' \in [Slots -> Fd]
          /\ readyList'[numReady] = cur
          /\ \A k \in 0 .. numReady - 1 : readyList'[k] = readyList[k] /\ readyList[k] # cur
      BY <2>1, <3>1, <3>2, <3>4 DEF Listed
    <3>6. \A k : k \in 0 .. numReady' - 1 <=> k \in 0 .. numReady - 1 \/ k = numReady
      BY <3>1
    <3>7. Distinct'
      BY <2>1, <3>5, <3>6 DEF Distinct
    <3>8. Listed' = Listed \cup {cur}
      BY <3>5, <3>6 DEF Listed
    <3>9. Listed' = { h \in Fd : fired'[h] # {} }
      BY <2>1, <2>2, <3>1, <3>8
    <3>10. QED
      BY <2>1, <3>1, <3>3, <3>5, <3>7, <3>9 DEF ReadyExact, OwnSlot, Distinct
  <2>3. CASE guess # {} /\ fired[cur] # {}
    <3>1. /\ fired' = [fired EXCEPT ![cur] = @ \cup guess]
          /\ UNCHANGED << readyList, numReady >>
      BY <1>3, <2>3 DEF ReturnFd, Guess
    <3>2. Listed' = { h \in Fd : fired'[h] # {} }
      BY <2>1, <2>3, <3>1 DEF Listed
    <3>3. QED
      BY <2>1, <3>1, <3>2 DEF ReadyExact, OwnSlot
  <2>4. CASE guess = {} /\ fired[cur] # {} /\ left = {}
    <3>1. fired' = [fired EXCEPT ![cur] = {}] /\ Unready(cur)
      BY <1>3, <2>4 DEF ReturnFd, Guess
    <3>2. /\ readyList' \in [Slots -> Fd] /\ numReady' \in 0 .. TableSize
          /\ Distinct' /\ Listed' = Listed \ {cur}
      BY <2>1, <3>1, UnreadyRemoves
    <3>3. Listed' = { h \in Fd : fired'[h] # {} }
      BY <2>1, <3>1, <3>2
    <3>4. QED
      BY <2>1, <3>1, <3>2, <3>3 DEF ReadyExact, OwnSlot, Distinct
  <2>5. CASE guess = {} /\ fired[cur] # {} /\ left # {}
    <3>1. fired' = [fired EXCEPT ![cur] = left] /\ UNCHANGED << readyList, numReady >>
      BY <1>3, <2>5 DEF ReturnFd, Guess
    <3>2. Listed' = { h \in Fd : fired'[h] # {} }
      BY <2>1, <2>5, <3>1 DEF Listed
    <3>3. QED
      BY <2>1, <3>1, <3>2 DEF ReadyExact, OwnSlot
  <2>6. CASE guess = {} /\ fired[cur] = {}
    <3>1. UNCHANGED << fired, readyList, numReady >>
      BY <1>3, <2>6 DEF ReturnFd, Guess
    <3>2. QED
      BY <2>1, <3>1 DEF ReadyExact, OwnSlot, Listed
  <2>7. QED
    BY <2>2, <2>3, <2>4, <2>5, <2>6
<1>4. CASE ReturnErr
  <2>1. 0 \in Fd
    BY DEF Fd
  <2>2. QED
    BY <1>4, <2>1 DEF ReturnErr, table, ReadyExact, Listed, OwnSlot
<1>5. CASE EndBatch
  BY <1>5 DEF EndBatch, table, ReadyExact, Listed, OwnSlot
<1>6. QED
  BY <1>1, <1>2, <1>3, <1>4, <1>5 DEF BatchStep

-----------------------------------------------------------------------------
\* The invariant that carries ReadyExact: it holds in every state the object
\* reaches under callers that keep the two clauses.
THEOREM ReadyInvariant ==
  ASSUME KeepsList
  PROVE  FdSpec => []ReadyInv
<1>1. FdInit => ReadyInv
  BY FdAssumption DEF FdInit, ReadyInv, ReadyTypes, ReadyExact, Listed, OwnSlot, Fd, Slots, Phases
<1>2. ReadyInv /\ [FdNext]_fdVars => ReadyInv'
  <2> SUFFICES ASSUME ReadyInv, [FdNext]_fdVars PROVE ReadyInv'
    OBVIOUS
  <2>1. CASE FdNext
    BY <2>1, FdCallKeeps, ReadyStepKeeps, BatchStepKeeps DEF FdNext
  <2>2. CASE UNCHANGED fdVars
    BY <2>2 DEF fdVars, table, control, ReadyInv, ReadyTypes, ReadyExact, Listed, OwnSlot
  <2>3. QED
    BY <2>1, <2>2
<1>3. QED
  BY <1>1, <1>2, PTL DEF FdSpec

\* For every table size: while callbacks keep the two clauses, the ready list
\* of processReadyFds() holds exactly the descriptors with a pending event.
THEOREM ReadyListExact ==
  ASSUME KeepsList
  PROVE  FdSpec => []ReadyExact
BY ReadyInvariant, PTL DEF ReadyInv

-----------------------------------------------------------------------------
(* num_monitored_fds_ and the kernel's set.  It takes two other clauses.   *)

\* Callers register no empty mask and close no descriptor behind the object.
KeepsCount == "emptyMask" \notin Liberties /\ "closeFirst" \notin Liberties

CountInv == monitored \in [Fd -> SUBSET RDWR] /\ CountExact

\* Calls keep the count of the monitored descriptors and the kernel's set.
LEMMA FdCallCounts ==
  ASSUME KeepsCount, CountInv, FdCall
  PROVE  CountInv'
<1> USE FdAssumption DEF CountInv
<1>0. IsFiniteSet(Fd) /\ registered \in SUBSET Fd /\ IsFiniteSet(registered)
  <2>1. IsFiniteSet(Fd)
    BY FS_Interval DEF Fd
  <2>2. registered \in SUBSET Fd
    BY DEF CountExact
  <2>3. QED
    BY <2>1, <2>2, FS_Subset
<1>1. Cardinality(registered) \in Nat
  BY <1>0, FS_CardinalityType
<1>2. ASSUME NEW f \in Fd, Drop(f)
      PROVE  CountInv'
  <2>1. /\ f \in registered /\ registered' = registered \ {f}
        /\ monitored' = [monitored EXCEPT ![f] = {}]
        /\ numMonitored' = numMonitored - 1
    BY <1>2 DEF Drop
  <2>2. Cardinality(registered') = Cardinality(registered) - 1
    BY <1>0, <2>1, FS_RemoveElement
  <2>3. registered' = { h \in Fd : monitored'[h] # {} }
    BY <2>1 DEF CountExact
  <2>4. QED
    BY <2>1, <2>2, <2>3 DEF CountExact
<1>3. ASSUME NEW f \in Fd, NEW mask \in Masks \cup {{}}, NEW exp \in BOOLEAN,
             MayAdd(f, mask), addFdEvent(f, mask, exp)
      PROVE  CountInv'
  <2>1. mask # {} /\ mask \subseteq RDWR
    BY <1>3 DEF MayAdd, KeepsCount
  <2>2. /\ f \in registered <=> monitored[f] # {}
        /\ monitored' = [monitored EXCEPT ![f] = @ \cup mask]
        /\ registered' = registered \cup {f}
        /\ numMonitored' = IF monitored[f] = {} THEN numMonitored + 1 ELSE numMonitored
    BY <1>3 DEF addFdEvent, CountExact
  <2>3. Cardinality(registered')
          = IF f \in registered THEN Cardinality(registered) ELSE Cardinality(registered) + 1
    BY <1>0, <2>2, FS_AddElement
  <2>4. monitored' \in [Fd -> SUBSET RDWR]
    BY <2>1, <2>2
  <2>5. registered' = { h \in Fd : monitored'[h] # {} }
    BY <2>1, <2>2 DEF CountExact
  <2>6. numMonitored' = Cardinality(registered')
    BY <2>2, <2>3 DEF CountExact
  <2>7. QED
    BY <2>4, <2>5, <2>6 DEF CountExact
<1>4. ASSUME NEW f \in Fd, NEW mask \in Masks, delFdEvent(f, mask)
      PROVE  CountInv'
  <2>1. CASE monitored[f] \ mask = {}
    <3>1. Drop(f)
      BY <1>4, <2>1 DEF delFdEvent
    <3>2. QED
      BY <1>2, <3>1
  <2>2. CASE monitored[f] \ mask # {}
    <3>1. /\ monitored' = [monitored EXCEPT ![f] = @ \ mask]
          /\ UNCHANGED << numMonitored, registered >>
      BY <1>4, <2>2 DEF delFdEvent
    <3>2. { h \in Fd : monitored'[h] # {} } = { h \in Fd : monitored[h] # {} }
      BY <2>2, <3>1
    <3>3. QED
      BY <3>1, <3>2 DEF CountExact
  <2>3. QED
    BY <2>1, <2>2
<1>5. ASSUME NEW f \in Fd, NEW close \in BOOLEAN, removeFd(f, close)
      PROVE  CountInv'
  <2>1. CASE monitored[f] # {}
    <3>1. Drop(f)
      BY <1>5, <2>1 DEF removeFd
    <3>2. QED
      BY <1>2, <3>1
  <2>2. CASE monitored[f] = {}
    <3>1. f \notin registered
      BY <2>2 DEF CountExact
    <3>2. UNCHANGED << monitored, numMonitored, registered >>
      BY <1>5, <2>2, <3>1 DEF removeFd
    <3>3. QED
      BY <3>2 DEF CountExact
  <2>3. QED
    BY <2>1, <2>2
<1>6. QED
  BY <1>3, <1>4, <1>5 DEF FdCall, KeepsCount

\* For every table size: num_monitored_fds_, on which eventLoop() decides
\* whether to go on, is the number of monitored descriptors, and these are the
\* ones registered with epoll, whatever callbacks do to the two lists.
THEOREM MonitoredCount ==
  ASSUME KeepsCount
  PROVE  FdSpec => []CountExact
<1>1. FdInit => CountInv
  BY FS_EmptySet DEF FdInit, CountInv, CountExact, RDWR
<1>2. CountInv /\ [FdNext]_fdVars => CountInv'
  <2> SUFFICES ASSUME CountInv, [FdNext]_fdVars PROVE CountInv'
    OBVIOUS
  <2>1. CASE FdCall
    BY <2>1, FdCallCounts
  <2>2. CASE ReadyStep \/ BatchStep
    <3>1. UNCHANGED << monitored, numMonitored, registered >>
      BY <2>2 DEF ReadyStep, BeginReady, CallReady, ReturnReady, EndReady,
                  BatchStep, EpollWait, Dispatch, ReturnFd, ReturnErr, EndBatch, table
    <3>2. QED
      BY <3>1 DEF CountInv, CountExact
  <2>3. CASE UNCHANGED fdVars
    BY <2>3 DEF fdVars, table, CountInv, CountExact
  <2>4. QED
    BY <2>1, <2>2, <2>3 DEF FdNext
<1>3. CountInv => CountExact
  BY DEF CountInv
<1>4. QED
  BY <1>1, <1>2, <1>3, PTL DEF FdSpec

-----------------------------------------------------------------------------
(* Type correctness. *)

\* The types neither of the two invariants above speaks of.
OtherTypes ==
  /\ proc \in [Fd -> BOOLEAN]
  /\ procExp \in [Fd -> BOOLEAN]
  /\ curEvents \in SUBSET RDWR
  /\ batch \in [Fd -> SUBSET (RDWR \cup {Exc})]
  /\ stale \in SUBSET Fd
  /\ served \in SUBSET Fd

\* The calls keep them.
LEMMA FdCallTypes ==
  ASSUME OtherTypes, FdCall
  PROVE  OtherTypes'
<1>0. UNCHANGED << curEvents, batch, served >>
  BY DEF FdCall, control
<1>1. ASSUME NEW f \in Fd, Drop(f)
      PROVE  OtherTypes'
  BY <1>0, <1>1 DEF Drop, OtherTypes
<1>2. ASSUME NEW f \in Fd, NEW mask \in Masks \cup {{}}, NEW exp \in BOOLEAN,
             addFdEvent(f, mask, exp)
      PROVE  OtherTypes'
  BY <1>0, <1>2 DEF addFdEvent, OtherTypes
<1>3. ASSUME NEW f \in Fd, NEW mask \in Masks, delFdEvent(f, mask)
      PROVE  OtherTypes'
  BY <1>0, <1>1, <1>3 DEF delFdEvent, OtherTypes
<1>4. ASSUME NEW f \in Fd, NEW close \in BOOLEAN, removeFd(f, close)
      PROVE  OtherTypes'
  BY <1>0, <1>1, <1>4 DEF removeFd, OtherTypes
<1>5. ASSUME NEW f \in Fd, closeFd(f)
      PROVE  OtherTypes'
  BY <1>0, <1>5 DEF closeFd, OtherTypes
<1>6. QED
  BY <1>2, <1>3, <1>4, <1>5 DEF FdCall

\* So do the two loops, which only look at slots the list covers.
LEMMA LoopTypes ==
  ASSUME OtherTypes, ReadyInv, ReadyStep \/ BatchStep
  PROVE  OtherTypes'
<1> USE DEF OtherTypes, ReadyInv, ReadyTypes
<1>1. CASE BeginReady \/ EndReady
  BY <1>1 DEF BeginReady, EndReady, table
<1>2. CASE CallReady
  <2>1. readyList[idx] \in Fd
    BY <1>2, FdAssumption DEF CallReady, Slots
  <2>2. QED
    BY <1>2, <2>1 DEF CallReady, table
<1>3. ASSUME NEW rc \in SUBSET RDWR, ReturnReady(rc)
      PROVE  OtherTypes'
  BY <1>3 DEF ReturnReady, Guess
<1>4. CASE EpollWait
  BY <1>4 DEF EpollWait, Reportable, table
<1>5. ASSUME NEW f \in Fd, Dispatch(f)
      PROVE  OtherTypes'
  <2>1. /\ batch' = [batch EXCEPT ![f] = {}]
        /\ curEvents' = curEvents \/ curEvents' = batch[f] \cap RDWR
        /\ stale' = stale \/ stale' = stale \ {f}
        /\ UNCHANGED << proc, procExp, served >>
    BY <1>5 DEF Dispatch, table
  <2>2. QED
    BY <2>1
<1>6. ASSUME NEW rc \in SUBSET RDWR, ReturnFd(rc)
      PROVE  OtherTypes'
  BY <1>6 DEF ReturnFd, Guess
<1>7. CASE ReturnErr \/ EndBatch
  BY <1>7 DEF ReturnErr, EndBatch, table
<1>8. QED
  BY <1>1, <1>2, <1>3, <1>4, <1>5, <1>6, <1>7 DEF ReadyStep, BatchStep

LEMMA FdNextTypes ==
  ASSUME OtherTypes, ReadyInv, [FdNext]_fdVars
  PROVE  OtherTypes'
<1>1. CASE FdNext
  BY <1>1, FdCallTypes, LoopTypes DEF FdNext
<1>2. CASE UNCHANGED fdVars
  BY <1>2 DEF fdVars, table, control, OtherTypes
<1>3. QED
  BY <1>1, <1>2

\* For every table size and callers that keep the four clauses: no index leaves
\* its array; the ready list, to which processFdEvents() appends unchecked,
\* never overflows the table and its count never drops below zero.
THEOREM TypeCorrect ==
  ASSUME KeepsList, KeepsCount
  PROVE  FdSpec => []FdTypeOK
<1>1. FdInit => OtherTypes
  BY DEF FdInit, OtherTypes
<1>2. OtherTypes /\ ReadyInv /\ [FdNext]_fdVars => OtherTypes'
  BY FdNextTypes
<1>3. OtherTypes /\ ReadyInv /\ CountExact => FdTypeOK
  <2> SUFFICES ASSUME OtherTypes, ReadyInv, CountExact PROVE FdTypeOK
    OBVIOUS
  <2>1. IsFiniteSet(Fd) /\ Cardinality(Fd) = TableSize
    BY FdAssumption, FS_Interval DEF Fd
  <2>2. registered \in SUBSET Fd
    BY DEF CountExact
  <2>3. IsFiniteSet(registered) /\ Cardinality(registered) <= TableSize
    BY <2>1, <2>2, FS_Subset
  <2>4. numMonitored \in 0 .. TableSize
    BY <2>3, FS_CardinalityType, FdAssumption DEF CountExact
  <2>5. QED
    BY <2>2, <2>4 DEF FdTypeOK, OtherTypes, ReadyInv, ReadyTypes
<1>4. QED
  BY <1>1, <1>2, <1>3, ReadyInvariant, MonitoredCount, PTL DEF FdSpec

-----------------------------------------------------------------------------
(* What is pending has a callback. *)

\* Descriptors still in the fetched batch are not dropped.
KeepsPending == "dropPending" \notin Liberties

\* A descriptor with a pending event is monitored, and one that is monitored
\* has a callback.
PendingHasCall ==
  \A f \in Fd : /\ fired[f] # {} => monitored[f] # {}
                /\ monitored[f] # {} => proc[f]

\* An I/O event of the fetched batch is for a descriptor that is monitored.
BatchMonitored == \A f \in Fd : batch[f] \cap RDWR # {} => monitored[f] # {}

Types == ReadyTypes /\ OtherTypes

\* A call is for one descriptor.
CalledFor(f) ==
  \/ \E mask \in Masks \cup {{}}, exp \in BOOLEAN : addFdEvent(f, mask, exp)
  \/ \E mask \in Masks : MayDel(f, mask) /\ delFdEvent(f, mask)
  \/ \E close \in BOOLEAN : MayDrop(f) /\ removeFd(f, close)
  \/ closeFd(f)

LEMMA FdCallIsFor == FdCall => \E f \in Fd : CalledFor(f)
BY DEF FdCall, CalledFor

\* What the calls do to the pending events.  Only a drop can leave one in the
\* batch whose descriptor is not monitored.
LEMMA FdCallPends ==
  ASSUME Types, PendingHasCall, FdCall
  PROVE  /\ PendingHasCall'
         /\ KeepsPending /\ BatchMonitored => BatchMonitored'
<1> USE FdAssumption DEF Types, ReadyTypes, OtherTypes
<1>0. UNCHANGED << phase, cur, batch >>
  BY DEF FdCall, control
<1>1. ASSUME NEW f \in Fd, NEW mask \in Masks \cup {{}}, NEW exp \in BOOLEAN,
             addFdEvent(f, mask, exp)
      PROVE  PendingHasCall' /\ (BatchMonitored => BatchMonitored')
  <2>1. /\ monitored' = [monitored EXCEPT ![f] = @ \cup mask]
        /\ proc' = [proc EXCEPT ![f] = TRUE]
        /\ fired' = fired
    BY <1>1 DEF addFdEvent
  <2>2. \A g \in Fd : monitored[g] \subseteq monitored'[g]
    BY <2>1
  <2>3. PendingHasCall'
    BY <2>1, <2>2 DEF PendingHasCall
  <2>4. BatchMonitored => BatchMonitored'
    BY <1>0, <2>1, <2>2 DEF BatchMonitored
  <2>5. QED
    BY <2>3, <2>4
<1>2. ASSUME NEW f \in Fd, MayDrop(f), Drop(f)
      PROVE  PendingHasCall' /\ (KeepsPending /\ BatchMonitored => BatchMonitored')
  <2>1. /\ monitored' = [monitored EXCEPT ![f] = {}]
        /\ fired' = [fired EXCEPT ![f] = {}]
        /\ proc' = [proc EXCEPT ![f] = FALSE]
    BY <1>2 DEF Drop
  <2>2. PendingHasCall'
    BY <2>1 DEF PendingHasCall
  <2>3. KeepsPending /\ BatchMonitored => BatchMonitored'
    <3>1. KeepsPending => batch[f] = {}
      BY <1>2 DEF KeepsPending, MayDrop
    <3>2. QED
      BY <1>0, <2>1, <3>1 DEF BatchMonitored
  <2>4. QED
    BY <2>2, <2>3
<1>3. ASSUME NEW f \in Fd, NEW mask \in Masks, MayDel(f, mask), delFdEvent(f, mask)
      PROVE  PendingHasCall' /\ (KeepsPending /\ BatchMonitored => BatchMonitored')
  <2>1. CASE monitored[f] \ mask = {}
    <3>1. MayDrop(f) /\ Drop(f)
      BY <1>3, <2>1 DEF MayDel, delFdEvent
    <3>2. QED
      BY <1>2, <3>1
  <2>2. CASE monitored[f] \ mask # {}
    <3>1. /\ monitored' = [monitored EXCEPT ![f] = @ \ mask]
          /\ UNCHANGED << fired, proc >>
      BY <1>3, <2>2 DEF delFdEvent
    <3>2. \A g \in Fd : monitored[g] # {} <=> monitored'[g] # {}
      BY <2>2, <3>1
    <3>3. PendingHasCall'
      BY <3>1, <3>2 DEF PendingHasCall
    <3>4. BatchMonitored => BatchMonitored'
      BY <1>0, <3>2 DEF BatchMonitored
    <3>5. QED
      BY <3>3, <3>4
  <2>3. QED
    BY <2>1, <2>2
<1>4. ASSUME UNCHANGED << monitored, fired, proc >>
      PROVE  PendingHasCall' /\ (BatchMonitored => BatchMonitored')
  BY <1>0, <1>4 DEF PendingHasCall, BatchMonitored
<1>5. ASSUME NEW f \in Fd, NEW close \in BOOLEAN, removeFd(f, close)
      PROVE  Drop(f) \/ UNCHANGED << monitored, fired, proc >>
  BY <1>5 DEF removeFd
<1>6. ASSUME NEW f \in Fd, closeFd(f)
      PROVE  UNCHANGED << monitored, fired, proc >>
  BY <1>6 DEF closeFd
<1> DEFINE Kept == /\ PendingHasCall'
                   /\ KeepsPending /\ BatchMonitored => BatchMonitored'
<1>7. ASSUME NEW f \in Fd, NEW mask \in Masks \cup {{}}, NEW exp \in BOOLEAN,
             addFdEvent(f, mask, exp)
      PROVE  Kept
  BY <1>1, <1>7
<1>8. ASSUME NEW f \in Fd, NEW mask \in Masks, MayDel(f, mask), delFdEvent(f, mask)
      PROVE  Kept
  BY <1>3, <1>8
<1>9. ASSUME NEW f \in Fd, NEW close \in BOOLEAN, MayDrop(f), removeFd(f, close)
      PROVE  Kept
  BY <1>2, <1>4, <1>5, <1>9
<1>10. ASSUME NEW f \in Fd, closeFd(f)
       PROVE  Kept
  BY <1>4, <1>6, <1>10
<1> HIDE DEF Kept
<1>11. Kept
  <2>1. PICK f \in Fd : CalledFor(f)
    BY FdCallIsFor
  <2>2. QED
    BY <1>7, <1>8, <1>9, <1>10, <2>1 DEF CalledFor
<1>12. QED
  BY <1>11 DEF Kept

\* What the two loops do to them.
LEMMA LoopPends ==
  ASSUME Types, ReadyInv, PendingHasCall, ReadyStep \/ BatchStep
  PROVE  /\ PendingHasCall'
         /\ BatchMonitored => BatchMonitored'
<1> USE FdAssumption DEF Types, ReadyTypes, OtherTypes
<1>0. UNCHANGED << monitored, proc >>
  BY DEF ReadyStep, BeginReady, CallReady, ReturnReady, EndReady,
         BatchStep, EpollWait, Dispatch, ReturnFd, ReturnErr, EndBatch, table
<1>1. CASE BeginReady \/ CallReady \/ EndReady
  <2>1. phase # "readyCb" /\ UNCHANGED << fired, batch >>
    BY <1>1 DEF BeginReady, CallReady, EndReady, table
  <2>2. QED
    BY <1>0, <2>1 DEF PendingHasCall, BatchMonitored
<1>2. ASSUME NEW rc \in SUBSET RDWR, ReturnReady(rc)
      PROVE  PendingHasCall' /\ (BatchMonitored => BatchMonitored')
  <2>1. /\ phase = "readyCb" /\ batch' = batch
        /\ fired' = [fired EXCEPT ![cur] = Guess(rc)] /\ Guess(rc) \subseteq monitored[cur]
    BY <1>2 DEF ReturnReady, Guess
  <2>2. QED
    BY <1>0, <2>1 DEF PendingHasCall, BatchMonitored
<1>3. CASE EpollWait
  <2>1. phase = "wait" /\ fired' = fired /\ \A f \in Fd : batch'[f] \subseteq monitored[f] \cup {Exc}
    BY <1>3 DEF EpollWait, Reportable, table
  <2>2. Exc \notin RDWR
    BY DEF Exc, RDWR
  <2>3. BatchMonitored'
    BY <1>0, <2>1, <2>2 DEF BatchMonitored
  <2>4. QED
    BY <1>0, <2>1, <2>3 DEF PendingHasCall
<1>4. ASSUME NEW f \in Fd, Dispatch(f)
      PROVE  PendingHasCall' /\ (BatchMonitored => BatchMonitored')
  <2>1. phase = "batch" /\ fired' = fired /\ batch' = [batch EXCEPT ![f] = {}]
    BY <1>4 DEF Dispatch, table
  <2>2. QED
    BY <1>0, <2>1 DEF PendingHasCall, BatchMonitored
<1>5. ASSUME NEW rc \in SUBSET RDWR, ReturnFd(rc)
      PROVE  PendingHasCall' /\ (BatchMonitored => BatchMonitored')
  <2> DEFINE guess == Guess(rc)
  <2>1. phase = "fdCb" /\ batch' = batch /\ guess \subseteq monitored[cur]
    BY <1>5 DEF ReturnFd, Guess
  <2>2. \/ guess # {} /\ fired' = [fired EXCEPT ![cur] = @ \cup guess]
        \/ fired[cur] # {} /\ fired' = [fired EXCEPT ![cur] = fired[cur] \ curEvents]
        \/ fired' = fired
    BY <1>5 DEF ReturnFd
  <2> HIDE DEF guess
  <2>3. PendingHasCall'
    BY <1>0, <2>1, <2>2 DEF PendingHasCall
  <2>4. QED
    BY <1>0, <2>1, <2>3 DEF BatchMonitored
<1>6. CASE ReturnErr \/ EndBatch
  <2>1. phase # "readyCb" /\ UNCHANGED << fired, batch >>
    BY <1>6 DEF ReturnErr, EndBatch, table
  <2>2. QED
    BY <1>0, <2>1 DEF PendingHasCall, BatchMonitored
<1>7. QED
  BY <1>1, <1>2, <1>3, <1>4, <1>5, <1>6 DEF ReadyStep, BatchStep

LEMMA FdNextPends ==
  ASSUME Types, ReadyInv, PendingHasCall, [FdNext]_fdVars
  PROVE  /\ PendingHasCall'
         /\ KeepsPending /\ BatchMonitored => BatchMonitored'
<1>1. CASE FdCall
  BY <1>1, FdCallPends
<1>2. CASE ReadyStep \/ BatchStep
  BY <1>2, LoopPends
<1>3. CASE UNCHANGED fdVars
  BY <1>3 DEF fdVars, table, control, PendingHasCall, BatchMonitored
<1>4. QED
  BY <1>1, <1>2, <1>3 DEF FdNext

\* The types and PendingHasCall hold under the clauses of the ready list alone.
LEMMA PendingInvariant ==
  ASSUME KeepsList
  PROVE  FdSpec => [](Types /\ ReadyInv /\ PendingHasCall)
<1>1. FdInit => OtherTypes /\ PendingHasCall
  BY DEF FdInit, OtherTypes, PendingHasCall
<1>2. OtherTypes /\ PendingHasCall /\ ReadyInv /\ [FdNext]_fdVars => OtherTypes' /\ PendingHasCall'
  <2> SUFFICES ASSUME OtherTypes, PendingHasCall, ReadyInv, [FdNext]_fdVars
               PROVE  OtherTypes' /\ PendingHasCall'
    OBVIOUS
  <2>1. OtherTypes'
    BY FdNextTypes
  <2>2. PendingHasCall'
    BY FdNextPends DEF Types, ReadyInv
  <2>3. QED
    BY <2>1, <2>2
<1>3. ReadyInv /\ OtherTypes => Types
  BY DEF ReadyInv, Types
<1>4. QED
  BY <1>1, <1>2, <1>3, ReadyInvariant, PTL DEF FdSpec

\* For every table size: both loops call a callback that is set.  In the batch
\* it is the callers' not dropping a descriptor that is still in it that makes
\* it so; in the ready list the exactness of the list.
THEOREM CallsASetCallback ==
  ASSUME KeepsList, KeepsPending
  PROVE  FdSpec => []CallbackSet
<1>1. FdInit => BatchMonitored
  BY DEF FdInit, BatchMonitored
<1>2. Types /\ ReadyInv /\ PendingHasCall /\ BatchMonitored /\ [FdNext]_fdVars => BatchMonitored'
  BY FdNextPends
<1>3. ReadyInv /\ PendingHasCall /\ BatchMonitored => CallbackSet
  <2> SUFFICES ASSUME ReadyInv, PendingHasCall, BatchMonitored PROVE CallbackSet
    OBVIOUS
  <2>1. ASSUME idx < numReady PROVE proc[readyList[idx]]
    <3>1. idx \in 0 .. numReady - 1
      BY <2>1, FdAssumption DEF ReadyInv, ReadyTypes
    <3>2. readyList[idx] \in { f \in Fd : fired[f] # {} }
      BY <3>1 DEF ReadyInv, ReadyExact, Listed
    <3>3. QED
      BY <3>2 DEF PendingHasCall
  <2>2. QED
    BY <2>1 DEF CallbackSet, PendingHasCall, BatchMonitored
<1>4. QED
  BY <1>1, <1>2, <1>3, PendingInvariant, PTL DEF FdSpec

\* For every table size: once the owner has removed every descriptor, the ready
\* list is empty.
THEOREM NothingReadyLeft ==
  ASSUME KeepsList, KeepsCount
  PROVE  FdSpec => []NoneReadyWhenNoneMonitored
<1>1. ReadyInv /\ PendingHasCall /\ CountExact => NoneReadyWhenNoneMonitored
  <2> SUFFICES ASSUME ReadyInv, PendingHasCall, CountExact, numReady # 0 PROVE numMonitored # 0
    BY DEF NoneReadyWhenNoneMonitored
  <2>1. 0 \in 0 .. numReady - 1
    BY FdAssumption DEF ReadyInv, ReadyTypes
  <2>2. readyList[0] \in registered
    BY <2>1 DEF ReadyInv, ReadyExact, Listed, PendingHasCall, CountExact
  <2>3. IsFiniteSet(registered)
    <3>1. IsFiniteSet(Fd) /\ registered \subseteq Fd
      BY FdAssumption, FS_Interval DEF Fd, CountExact
    <3>2. QED
      BY <3>1, FS_Subset
  <2>4. QED
    BY <2>2, <2>3, FS_EmptySet DEF CountExact
<1>2. QED
  BY <1>1, PendingInvariant, MonitoredCount, PTL

-----------------------------------------------------------------------------
(* The scan of the ready list. *)

\* From the scan's index on, the list holds descriptors not yet called in this
\* scan, and the one whose callback is running.
ScanInv ==
  phase \in { "ready", "readyCb" } =>
    \A k \in idx .. numReady - 1 :
      readyList[k] \notin served \/ (phase = "readyCb" /\ readyList[k] = cur)

\* Drops move entries of the list only towards its front, and only the last.
LEMMA FdCallScans ==
  ASSUME ReadyInv, ScanInv, FdCall
  PROVE  ScanInv'
<1> USE FdAssumption DEF ReadyInv, ReadyTypes
<1>0. UNCHANGED << phase, idx, cur, served >>
  BY DEF FdCall, control
<1>1. CASE UNCHANGED << readyList, numReady >>
  BY <1>0, <1>1 DEF ScanInv
<1>2. ASSUME NEW f \in Fd, Drop(f)
      PROVE  ScanInv'
  <2>1. Unready(f) /\ Distinct
    BY <1>2 DEF Drop, ReadyExact, Distinct
  <2>2. /\ numReady' = IF f \in Listed THEN numReady - 1 ELSE numReady
        /\ \A j \in Slots : \/ readyList'[j] = readyList[j]
                            \/ /\ readyList[j] = f /\ f \in Listed
                               /\ readyList'[j] = readyList[numReady - 1]
    BY <2>1, UnreadyRemoves
  <2>3. ASSUME NEW k \in idx .. numReady' - 1
        PROVE  \E j \in idx .. numReady - 1 : readyList'[k] = readyList[j]
    <3>1. /\ k \in Slots /\ k \in idx .. numReady - 1
          /\ f \in Listed => numReady - 1 \in idx .. numReady - 1
      BY <2>2, <2>3 DEF Slots
    <3>2. QED
      BY <2>2, <3>1
  <2>4. QED
    BY <1>0, <2>3 DEF ScanInv
<1>3. \A f \in Fd : \A mask \in Masks : delFdEvent(f, mask) => Drop(f) \/ UNCHANGED << readyList, numReady >>
  BY DEF delFdEvent
<1>4. \A f \in Fd : \A close \in BOOLEAN : removeFd(f, close) => Drop(f) \/ UNCHANGED << readyList, numReady >>
  BY DEF removeFd
<1>5. \A f \in Fd : closeFd(f) => UNCHANGED << readyList, numReady >>
  BY DEF closeFd
<1>6. \A f \in Fd : \A mask \in Masks \cup {{}}, exp \in BOOLEAN :
        addFdEvent(f, mask, exp) => UNCHANGED << readyList, numReady >>
  BY DEF addFdEvent
<1>7. QED
  BY <1>1, <1>2, <1>3, <1>4, <1>5, <1>6 DEF FdCall

LEMMA LoopScans ==
  ASSUME ReadyInv, ScanInv, ReadyStep \/ BatchStep
  PROVE  ScanInv'
<1> USE FdAssumption DEF ReadyInv, ReadyTypes
<1>1. CASE BeginReady \/ EndReady
  BY <1>1 DEF BeginReady, EndReady, ScanInv
<1>2. CASE CallReady
  BY <1>2 DEF CallReady, table, ScanInv
<1>3. ASSUME NEW rc \in SUBSET RDWR, ReturnReady(rc)
      PROVE  ScanInv'
  <2>1. phase = "readyCb" /\ phase' = "ready" /\ served' = served /\ idx \in Slots /\ Distinct
    BY <1>3 DEF ReturnReady, OwnSlot, ReadyExact, Distinct
  <2>2. CASE Guess(rc) # {}
    <3>1. idx' = idx + 1 /\ UNCHANGED << readyList, numReady >>
      BY <1>3, <2>2 DEF ReturnReady
    <3>2. fired[cur] # {}
      BY <2>1, <2>2 DEF Guess, OwnSlot
    <3>3. readyList[idx] = cur /\ idx \in 0 .. numReady - 1
      BY <2>1, <3>2 DEF OwnSlot, Slots
    <3>4. \A k \in idx + 1 .. numReady - 1 : readyList[k] # cur
      BY <2>1, <3>3 DEF Distinct, Slots
    <3>5. QED
      BY <2>1, <3>1, <3>4 DEF ScanInv, Slots
  <2>3. CASE Guess(rc) = {} /\ readyList[idx] = cur
    <3>1. idx' = idx /\ SwapRemove(idx)
      BY <1>3, <2>3 DEF ReturnReady
    <3>2. idx \in 0 .. numReady - 1
      BY <2>1, <2>3 DEF OwnSlot, Slots
    <3>3. /\ numReady' = numReady - 1 /\ Listed' = Listed \ {cur}
          /\ readyList'[idx] = readyList[numReady - 1]
          /\ \A j \in Slots \ {idx} : readyList'[j] = readyList[j]
      BY <2>1, <2>3, <3>1, <3>2, SwapRemoveRemoves
    <3>4. ASSUME NEW k \in idx .. numReady' - 1
          PROVE  readyList'[k] \notin served
      <4>1. k \in 0 .. numReady' - 1 /\ k \in idx .. numReady - 1 /\ k \in Slots
        BY <3>2, <3>3, <3>4 DEF Slots
      <4>2. readyList'[k] # cur
        BY <3>3, <4>1 DEF Listed
      <4>3. readyList'[k] = readyList[k] \/ readyList'[k] = readyList[numReady - 1]
        BY <3>3, <4>1
      <4>4. numReady - 1 \in idx .. numReady - 1
        BY <3>2
      <4>5. QED
        BY <2>1, <4>1, <4>2, <4>3, <4>4 DEF ScanInv
    <3>5. QED
      BY <2>1, <3>1, <3>4 DEF ScanInv
  <2>4. CASE Guess(rc) = {} /\ readyList[idx] # cur
    <3>1. UNCHANGED << idx, readyList, numReady >>
      BY <1>3, <2>4 DEF ReturnReady
    <3>2. cur \notin Listed
      BY <2>1, <2>4 DEF OwnSlot, ReadyExact
    <3>3. \A k \in idx .. numReady - 1 : readyList[k] # cur
      BY <2>1, <3>2 DEF Listed, Slots
    <3>4. QED
      BY <2>1, <3>1, <3>3 DEF ScanInv
  <2>5. QED
    BY <2>2, <2>3, <2>4
<1>4. CASE BatchStep
  <2>1. phase' \notin { "ready", "readyCb" }
    BY <1>4 DEF BatchStep, EpollWait, Dispatch, ReturnFd, ReturnErr, EndBatch
  <2>2. QED
    BY <2>1 DEF ScanInv
<1>5. QED
  BY <1>1, <1>2, <1>3, <1>4 DEF ReadyStep

\* For every table size: one scan of the ready list calls no descriptor twice,
\* however callbacks drop descriptors behind and ahead of it.
THEOREM EachCalledOnce ==
  ASSUME KeepsList
  PROVE  FdSpec => []OncePerScan
<1>1. FdInit => ScanInv
  BY DEF FdInit, ScanInv
<1>2. ReadyInv /\ ScanInv /\ [FdNext]_fdVars => ScanInv'
  <2> SUFFICES ASSUME ReadyInv, ScanInv, [FdNext]_fdVars PROVE ScanInv'
    OBVIOUS
  <2>1. CASE UNCHANGED fdVars
    BY <2>1 DEF fdVars, table, control, ScanInv
  <2>2. QED
    BY <2>1, FdCallScans, LoopScans DEF FdNext
<1>3. ScanInv => OncePerScan
  BY DEF ScanInv, OncePerScan
<1>4. QED
  BY <1>1, <1>2, <1>3, ReadyInvariant, PTL DEF FdSpec

-----------------------------------------------------------------------------
(* Time events: the invariant, for callers that keep the contract.         *)

\* No two entries in use are the same timer.
DistinctIds == \A j, k \in InUse : slots[j].id = slots[k].id => j = k

TimeInv == TimeTypeOK /\ LiveExact /\ OwnEntry

-----------------------------------------------------------------------------
(* Removing an entry. *)

\* Copying the last entry over one in use takes out that one and nothing else.
LEMMA CopyLastRemoves ==
  ASSUME TimeTypeOK, DistinctIds, NEW k \in InUse, CopyLast(k)
  PROVE  /\ slots' \in [TSlots -> [id : Nat, when : Nat]]
         /\ used' = used - 1 /\ used' \in 0 .. Size
         /\ DistinctIds'
         /\ Ids' = Ids \ {slots[k].id}
         /\ slots[k].id \in Ids
         /\ \A j \in TSlots \ {k} : slots'[j] = slots[j]
<1> USE TimeAssumption
<1>1. /\ used \in Nat /\ used > 0 /\ k \in TSlots /\ used - 1 \in TSlots
      /\ slots \in [TSlots -> [id : Nat, when : Nat]]
      /\ slots' = [slots EXCEPT ![k] = slots[used - 1]]
      /\ used' = used - 1
  BY DEF CopyLast, InUse, TSlots, TimeTypeOK
<1>2. /\ slots' \in [TSlots -> [id : Nat, when : Nat]]
      /\ slots'[k] = slots[used - 1]
      /\ \A j \in TSlots \ {k} : slots'[j] = slots[j]
  BY <1>1
<1>3. used' \in 0 .. Size
  BY <1>1 DEF TimeTypeOK
<1>4. \A j \in InUse' : j \in TSlots /\ j \in InUse /\ j # used - 1
  BY <1>1 DEF InUse, TSlots, TimeTypeOK
<1>5. \A j \in InUse : j \in TSlots /\ (j \in InUse' \/ j = used - 1)
  BY <1>1 DEF InUse, TSlots, TimeTypeOK
<1>6. used - 1 \in InUse
  BY <1>1 DEF InUse
<1>7. \A j \in InUse' : slots'[j] = IF j = k THEN slots[used - 1] ELSE slots[j]
  BY <1>2, <1>4
<1>8. DistinctIds'
  BY <1>4, <1>6, <1>7 DEF DistinctIds
<1>9. Ids' \subseteq Ids \ {slots[k].id}
  BY <1>4, <1>6, <1>7 DEF Ids, DistinctIds
<1>10. Ids \ {slots[k].id} \subseteq Ids'
  <2> SUFFICES ASSUME NEW j \in InUse, slots[j].id # slots[k].id
               PROVE  \E i \in InUse' : slots'[i].id = slots[j].id
    BY DEF Ids
  <2>1. CASE j = used - 1
    <3>1. k \in InUse'
      BY <1>5, <2>1
    <3>2. QED
      BY <1>2, <2>1, <3>1
  <2>2. CASE j # used - 1
    <3>1. j \in InUse' /\ j # k
      BY <1>5, <2>2
    <3>2. QED
      BY <1>7, <3>1
  <2>3. QED
    BY <2>1, <2>2
<1>11. QED
  BY <1>1, <1>2, <1>3, <1>8, <1>9, <1>10 DEF Ids

\* The history set is finite, and loses one member with one timer.
LEMMA LiveFinite ==
  ASSUME TimeTypeOK, NEW x
  PROVE  /\ IsFiniteSet(live) /\ Cardinality(live) \in Nat
         /\ x \in live => Cardinality(live \ {x}) = Cardinality(live) - 1
         /\ x \notin live => Cardinality(live \cup {x}) = Cardinality(live) + 1
<1>1. IsFiniteSet(1 .. lastId)
  BY FS_Interval DEF TimeTypeOK
<1>2. IsFiniteSet(live)
  BY <1>1, FS_Subset DEF TimeTypeOK
<1>3. QED
  BY <1>2, FS_CardinalityType, FS_RemoveElement, FS_AddElement

-----------------------------------------------------------------------------
(* The calls and the scan. *)

\* addTimeEvent() appends a timer under a new identifier.
LEMMA AddKeeps ==
  ASSUME TimeInv, NEW d \in Delays, addTimeEvent(d), UNCHANGED << scan, clock >>
  PROVE  TimeInv'
<1> USE TimeAssumption DEF TimeInv
<1> DEFINE new == lastId + 1
<1>1. /\ used \in Nat /\ used < Size /\ used \in TSlots
      /\ lastId \in Nat /\ clock \in Nat /\ d \in Nat
      /\ slots' = [slots EXCEPT ![used] = [id |-> new, when |-> clock + d]]
      /\ lastId' = new /\ used' = used + 1 /\ live' = live \cup {new}
      /\ UNCHANGED << tphase, ti, tnow, firing, clock >>
  BY DEF addTimeEvent, TimeTypeOK, TSlots, scan
<1>2. new \notin live /\ live' \in SUBSET (1 .. lastId')
  BY <1>1 DEF TimeTypeOK
<1>3. /\ slots' \in [TSlots -> [id : Nat, when : Nat]]
      /\ slots'[used].id = new
      /\ \A j \in TSlots \ {used} : slots'[j] = slots[j]
  BY <1>1 DEF TimeTypeOK
<1>4. /\ \A j \in InUse : j \in TSlots /\ j # used
      /\ \A j : j \in InUse' <=> j \in InUse \/ j = used
  BY <1>1 DEF InUse, TSlots
<1>5. \A j \in InUse : slots'[j] = slots[j] /\ slots[j].id # new
  BY <1>2, <1>3, <1>4 DEF LiveExact, Ids
<1>6. \A j, k \in InUse' : slots'[j].id = slots'[k].id => j = k
  BY <1>3, <1>4, <1>5 DEF LiveExact
<1>7. Ids' = live'
  BY <1>1, <1>3, <1>4, <1>5 DEF LiveExact, Ids
<1>8. used' = Cardinality(live')
  BY <1>1, <1>2, LiveFinite DEF LiveExact
<1>9. TimeTypeOK'
  BY <1>1, <1>2, <1>3 DEF TimeTypeOK
<1>10. OwnEntry'
  <2>1. tphase = "cb" => ti \in InUse
    BY DEF OwnEntry, InUse, TimeTypeOK
  <2>2. QED
    BY <1>1, <1>5, <2>1 DEF OwnEntry, TimeTypeOK
<1>11. QED
  BY <1>6, <1>7, <1>8, <1>9, <1>10 DEF LiveExact

\* delTimeEvent() takes out the timer it is given; one that runs stays where
\* the scan stands.
LEMMA DeleteKeeps ==
  ASSUME TimeLiberties = {}, TimeInv, NEW x \in Ids, MayDelete(x), delTimeEvent(x),
         UNCHANGED << scan, clock >>
  PROVE  TimeInv'
<1> USE TimeAssumption DEF TimeInv
<1>1. PICK k \in InUse : slots[k].id = x /\ CopyLast(k)
  BY DEF delTimeEvent
<1>2. /\ live' = live \ {x} /\ UNCHANGED lastId
      /\ UNCHANGED << tphase, ti, tnow, firing, clock >>
  BY DEF delTimeEvent, scan
<1>3. DistinctIds
  BY DEF LiveExact, DistinctIds
<1>4. /\ slots' \in [TSlots -> [id : Nat, when : Nat]]
      /\ used' = used - 1 /\ used' \in 0 .. Size
      /\ DistinctIds'
      /\ Ids' = Ids \ {x}
      /\ \A j \in TSlots \ {k} : slots'[j] = slots[j]
  BY <1>1, <1>3, CopyLastRemoves
<1>5. x \in live
  BY DEF LiveExact
<1>6. LiveExact'
  <2>1. used' = Cardinality(live')
    BY <1>2, <1>4, <1>5, LiveFinite DEF LiveExact
  <2>2. Ids' = live'
    BY <1>2, <1>4 DEF LiveExact
  <2>3. QED
    BY <1>4, <2>1, <2>2 DEF LiveExact, DistinctIds
<1>7. TimeTypeOK'
  BY <1>2, <1>4 DEF TimeTypeOK
<1>8. OwnEntry'
  <2> SUFFICES ASSUME tphase = "cb"
               PROVE  ti < used' /\ slots'[ti].id = firing
    BY <1>2 DEF OwnEntry
  <2>1. x # firing /\ ti < used - 1
    BY DEF MayDelete
  <2>2. ti \in TSlots /\ slots[ti].id = firing
    BY DEF OwnEntry, TimeTypeOK, TSlots
  <2>3. QED
    BY <1>1, <1>4, <2>1, <2>2
<1>9. QED
  BY <1>6, <1>7, <1>8

\* The return of a callback re-arms or removes its own timer.
LEMMA ReturnKeeps ==
  ASSUME TimeInv, NEW rc \in Delays \cup {0}, ReturnTime(rc)
  PROVE  TimeInv'
<1> USE TimeAssumption DEF TimeInv
<1>1. /\ tphase = "cb" /\ tphase' = "scan" /\ firing' = 0
      /\ UNCHANGED << lastId, clock, tnow >>
  BY DEF ReturnTime
<1>2. ti \in InUse /\ ti \in TSlots /\ slots[ti].id = firing /\ rc \in Nat
  BY <1>1 DEF OwnEntry, InUse, TSlots, TimeTypeOK
<1>3. OwnEntry'
  BY <1>1 DEF OwnEntry
<1>4. CASE rc # 0
  <2>1. /\ slots' = [slots EXCEPT ![ti].when = tnow + rc]
        /\ ti' = ti + 1 /\ UNCHANGED << used, live >>
    BY <1>4 DEF ReturnTime
  <2>2. /\ slots' \in [TSlots -> [id : Nat, when : Nat]]
        /\ \A j \in TSlots : slots'[j].id = slots[j].id
    BY <1>2, <2>1 DEF TimeTypeOK
  <2>3. \A j \in InUse : j \in TSlots
    BY DEF InUse, TSlots, TimeTypeOK
  <2>4. LiveExact'
    BY <2>1, <2>2, <2>3 DEF LiveExact, Ids, InUse
  <2>5. ti' \in 0 .. Size
    BY <1>2, <2>1 DEF TSlots
  <2>6. TimeTypeOK'
    BY <1>1, <2>1, <2>2, <2>5 DEF TimeTypeOK
  <2>7. QED
    BY <1>3, <2>4, <2>6
<1>5. CASE rc = 0
  <2>1. CopyLast(ti) /\ live' = live \ {firing} /\ ti' = ti
    BY <1>5 DEF ReturnTime
  <2>2. DistinctIds
    BY DEF LiveExact, DistinctIds
  <2>3. /\ slots' \in [TSlots -> [id : Nat, when : Nat]]
        /\ used' = used - 1 /\ used' \in 0 .. Size
        /\ DistinctIds'
        /\ Ids' = Ids \ {firing} /\ firing \in Ids
    BY <1>2, <2>1, <2>2, CopyLastRemoves
  <2>4. used' = Cardinality(live')
    BY <2>1, <2>3, LiveFinite DEF LiveExact
  <2>5. LiveExact'
    BY <2>1, <2>3, <2>4 DEF LiveExact, DistinctIds
  <2>6. TimeTypeOK'
    BY <1>1, <2>1, <2>3 DEF TimeTypeOK
  <2>7. QED
    BY <1>3, <2>5, <2>6
<1>6. QED
  BY <1>4, <1>5

-----------------------------------------------------------------------------
\* Every step keeps the invariant.
LEMMA TimeStepKeeps ==
  ASSUME TimeLiberties = {}, TimeInv, TimeNext
  PROVE  TimeInv'
<1> USE TimeAssumption
<1>1. CASE TimeCall
  BY <1>1, AddKeeps, DeleteKeeps DEF TimeCall
<1>2. ASSUME NEW rc \in Delays \cup {0}, ReturnTime(rc)
      PROVE  TimeInv'
  BY <1>2, ReturnKeeps
<1>3. CASE NotYet
  BY <1>3 DEF NotYet, TimeInv, TimeTypeOK, LiveExact, OwnEntry, Ids, InUse, array
<1>4. CASE Fire
  <2>1. ti \in TSlots /\ slots[ti].id \in Nat
    BY <1>4 DEF Fire, TimeInv, TimeTypeOK, TSlots
  <2>2. TimeTypeOK'
    BY <1>4, <2>1 DEF Fire, TimeInv, TimeTypeOK, array, TSlots
  <2>3. LiveExact'
    BY <1>4 DEF Fire, TimeInv, LiveExact, Ids, InUse, array
  <2>4. OwnEntry'
    BY <1>4 DEF Fire, OwnEntry, array
  <2>5. QED
    BY <2>2, <2>3, <2>4 DEF TimeInv
<1>5. CASE BeginScan
  BY <1>5 DEF BeginScan, TimeInv, TimeTypeOK, LiveExact, OwnEntry, Ids, InUse, array
<1>6. CASE EndScan
  BY <1>6 DEF EndScan, TimeInv, TimeTypeOK, LiveExact, OwnEntry, Ids, InUse, array
<1>7. CASE Tick
  BY <1>7 DEF Tick, TimeInv, TimeTypeOK, LiveExact, OwnEntry, Ids, InUse, array, scan
<1>8. QED
  BY <1>1, <1>2, <1>3, <1>4, <1>5, <1>6, <1>7 DEF TimeNext, ScanStep

\* The invariant that carries the theorems below: types, the exact array and
\* the running callback's own entry together.
THEOREM TimeInvariant ==
  ASSUME TimeLiberties = {}
  PROVE  TimeSpec => []TimeInv
<1>1. TimeInit => TimeInv
  BY TimeAssumption, FS_EmptySet
     DEF TimeInit, TimeInv, TimeTypeOK, LiveExact, OwnEntry, Ids, InUse
<1>2. TimeInv /\ [TimeNext]_timeVars => TimeInv'
  <2> SUFFICES ASSUME TimeInv, [TimeNext]_timeVars PROVE TimeInv'
    OBVIOUS
  <2>1. CASE TimeNext
    BY <2>1, TimeStepKeeps
  <2>2. CASE UNCHANGED timeVars
    BY <2>2 DEF timeVars, array, scan, TimeInv, TimeTypeOK, LiveExact, OwnEntry, Ids, InUse
  <2>3. QED
    BY <2>1, <2>2
<1>3. QED
  BY <1>1, <1>2, PTL DEF TimeSpec

\* For every array size: no index leaves the array of timers, although the
\* scan runs callbacks that shrink and grow it.
THEOREM TimeTypeCorrect ==
  ASSUME TimeLiberties = {}
  PROVE  TimeSpec => []TimeTypeOK
BY TimeInvariant, PTL DEF TimeInv

\* For every array size: while a callback runs, its timer is the entry the scan
\* will re-arm or remove, whatever timers the callback adds or deletes.
THEOREM OwnEntryKept ==
  ASSUME TimeLiberties = {}
  PROVE  TimeSpec => []OwnEntry
BY TimeInvariant, PTL DEF TimeInv

\* For every array size: the array holds exactly the timers created and
\* neither deleted nor finished, each once, so that no timer is lost.
THEOREM NoTimerLost ==
  ASSUME TimeLiberties = {}
  PROVE  TimeSpec => []LiveExact
BY TimeInvariant, PTL DEF TimeInv

-----------------------------------------------------------------------------
(* The array implements the timer set.                                      *)

\* Each timer in use is armed for the time its entry holds.
LEMMA ArmedEntries ==
  ASSUME DistinctIds
  PROVE  /\ DOMAIN Armed = Ids
         /\ \A k \in InUse : Armed[slots[k].id] = slots[k].when
<1>1. ASSUME NEW k \in InUse
      PROVE  Armed[slots[k].id] = slots[k].when
  <2> DEFINE x == slots[k].id
             j == CHOOSE i \in InUse : slots[i].id = x
  <2>1. x \in Ids
    BY <1>1 DEF Ids
  <2>2. j \in InUse /\ slots[j].id = x
    BY <1>1
  <2>3. j = k
    BY <1>1, <2>2 DEF DistinctIds
  <2>4. Armed[x] = slots[j].when
    BY <2>1 DEF Armed
  <2>5. QED
    BY <2>3, <2>4
<1>2. QED
  BY <1>1 DEF Armed

\* A function that agrees with the entries is what the next state has armed.
LEMMA ArmedNext ==
  ASSUME DistinctIds', NEW F, \A k \in InUse' : F[slots'[k].id] = slots'[k].when
  PROVE  Armed' = [x \in Ids' |-> F[x]]
<1>1. ASSUME NEW x \in Ids'
      PROVE  slots'[CHOOSE k \in InUse' : slots'[k].id = x].when = F[x]
  <2> DEFINE j == CHOOSE k \in InUse' : slots'[k].id = x
  <2>1. \E k \in InUse' : slots'[k].id = x
    BY <1>1 DEF Ids
  <2>2. j \in InUse' /\ slots'[j].id = x
    BY <2>1
  <2>3. QED
    BY <2>2
<1>2. Armed' = [x \in Ids' |-> slots'[CHOOSE k \in InUse' : slots'[k].id = x].when]
  BY DEF Armed
<1>3. QED
  BY <1>1, <1>2

\* addTimeEvent() arms a new timer and leaves the others armed as they were.
LEMMA AddArms ==
  ASSUME TimeInv, TimeInv', NEW d \in Delays, addTimeEvent(d)
  PROVE  Armed' = [y \in DOMAIN Armed \cup {lastId + 1} |->
                     IF y = lastId + 1 THEN clock + d ELSE Armed[y]]
<1> USE TimeAssumption
<1> DEFINE new == lastId + 1
           F   == [y \in Ids \cup {new} |-> IF y = new THEN clock + d ELSE Armed[y]]
<1>1. /\ used \in TSlots /\ \A j \in InUse : j \in TSlots /\ j # used
      /\ \A j \in InUse' : j \in InUse \/ j = used
      /\ used \in InUse'
      /\ slots' = [slots EXCEPT ![used] = [id |-> new, when |-> clock + d]]
  BY DEF addTimeEvent, TimeInv, TimeTypeOK, TSlots, InUse
<1>2. /\ slots'[used].id = new /\ slots'[used].when = clock + d
      /\ \A j \in InUse : slots'[j] = slots[j]
  BY <1>1 DEF TimeInv, TimeTypeOK
<1>3. DistinctIds /\ DistinctIds'
  BY DEF TimeInv, LiveExact, DistinctIds
<1>4. new \notin Ids
  BY DEF TimeInv, LiveExact, TimeTypeOK
<1>5. Ids' = Ids \cup {new}
  BY DEF TimeInv, LiveExact, addTimeEvent
<1>6. ASSUME NEW k \in InUse'
      PROVE  F[slots'[k].id] = slots'[k].when
  <2>1. CASE k = used
    BY <1>2, <2>1
  <2>2. CASE k \in InUse
    <3>1. slots[k].id \in Ids
      BY <2>2 DEF Ids
    <3>2. Armed[slots[k].id] = slots[k].when
      BY <1>3, <2>2, ArmedEntries
    <3>3. QED
      BY <1>2, <1>4, <2>2, <3>1, <3>2
  <2>3. QED
    BY <1>1, <1>6, <2>1, <2>2
<1>7. DOMAIN Armed = Ids
  BY <1>3, ArmedEntries
<1> HIDE DEF F
<1>8. Armed' = [x \in Ids' |-> F[x]]
  BY <1>3, <1>6, ArmedNext
<1>9. QED
  BY <1>5, <1>7, <1>8 DEF F

\* Removing an entry disarms its timer and no other.
LEMMA CopyLastDisarms ==
  ASSUME TimeTypeOK, DistinctIds, NEW k \in InUse, CopyLast(k)
  PROVE  Armed' = [y \in DOMAIN Armed \ {slots[k].id} |-> Armed[y]]
<1> USE TimeAssumption
<1>1. DistinctIds' /\ Ids' = Ids \ {slots[k].id}
  BY CopyLastRemoves
<1>2. ASSUME NEW i \in InUse'
      PROVE  \E j \in InUse : slots'[i] = slots[j]
  <2>1. k \in TSlots /\ used - 1 \in InUse /\ i \in InUse /\ i \in TSlots
    BY <1>2 DEF CopyLast, InUse, TSlots, TimeTypeOK
  <2>2. slots' = [slots EXCEPT ![k] = slots[used - 1]]
    BY <2>1 DEF CopyLast, InUse, TimeTypeOK
  <2>3. slots'[i] = slots[i] \/ slots'[i] = slots[used - 1]
    BY <2>1, <2>2 DEF TimeTypeOK
  <2>4. QED
    BY <2>1, <2>3
<1>3. /\ DOMAIN Armed = Ids
      /\ \A j \in InUse : Armed[slots[j].id] = slots[j].when
  BY ArmedEntries
<1>4. \A i \in InUse' : Armed[slots'[i].id] = slots'[i].when
  BY <1>2, <1>3
<1>5. Armed' = [x \in Ids' |-> Armed[x]]
  BY <1>1, <1>4, ArmedNext
<1>6. QED
  BY <1>1, <1>3, <1>5

\* A return with a delay re-arms the running timer and no other.
LEMMA ReturnRearms ==
  ASSUME TimeInv, TimeInv', tphase = "cb", NEW d,
         slots' = [slots EXCEPT ![ti].when = d], used' = used
  PROVE  Armed' = [Armed EXCEPT ![firing] = d]
<1> USE TimeAssumption
<1> DEFINE F == [Armed EXCEPT ![firing] = d]
<1>0. used \in 0 .. Size /\ ti \in 0 .. Size /\ ti < used /\ slots[ti].id = firing
  BY DEF TimeInv, OwnEntry, TimeTypeOK
<1>1. ti \in InUse /\ ti \in TSlots /\ slots[ti].id = firing
  BY <1>0 DEF InUse, TSlots
<1>2. \A j \in InUse : j \in TSlots
  BY <1>0 DEF InUse, TSlots
<1>3. DistinctIds /\ DistinctIds' /\ InUse' = InUse
  BY DEF TimeInv, LiveExact, DistinctIds, InUse
<1>4. \A j \in InUse : slots'[j].id = slots[j].id /\ slots'[j].when = IF j = ti THEN d ELSE slots[j].when
  BY <1>1, <1>2 DEF TimeInv, TimeTypeOK
<1>5. Ids' = Ids
  BY <1>3, <1>4 DEF Ids
<1>6. /\ DOMAIN Armed = Ids
      /\ \A j \in InUse : Armed[slots[j].id] = slots[j].when
  BY <1>3, ArmedEntries
<1>7. ASSUME NEW k \in InUse'
      PROVE  F[slots'[k].id] = slots'[k].when
  <2>1. slots[k].id \in Ids /\ k \in InUse
    BY <1>3, <1>7 DEF Ids
  <2>2. slots[k].id = firing <=> k = ti
    BY <1>1, <1>3, <2>1 DEF DistinctIds
  <2>3. QED
    BY <1>4, <1>6, <2>1, <2>2
<1>8. DOMAIN F = Ids'
  BY <1>5, <1>6
<1> HIDE DEF F
<1>9. Armed' = [x \in Ids' |-> F[x]]
  BY <1>3, <1>7, ArmedNext
<1>10. F = [x \in DOMAIN F |-> F[x]]
  BY DEF F
<1>11. QED
  BY <1>8, <1>9, <1>10 DEF F

\* While a callback runs, its timer was due when the scan read the clock; none
\* is marked as running between callbacks.
DueInv ==
  /\ tnow <= clock
  /\ tphase = "cb" => slots[ti].when <= tnow
  /\ tphase # "cb" => firing = 0

LEMMA DueKept ==
  ASSUME TimeLiberties = {}, TimeInv, DueInv, [TimeNext]_timeVars
  PROVE  DueInv'
<1> USE TimeAssumption DEF DueInv
<1>0. clock \in Nat /\ tnow \in Nat /\ slots \in [TSlots -> [id : Nat, when : Nat]]
  BY DEF TimeInv, TimeTypeOK
<1>1. CASE TimeCall
  <2>1. UNCHANGED << tphase, ti, tnow, firing, clock >>
    BY <1>1 DEF TimeCall, scan
  <2>2. ASSUME tphase = "cb"
        PROVE  slots'[ti] = slots[ti]
    <3>1. ti \in TSlots /\ ti < used /\ used \in Nat /\ slots[ti].id = firing
      BY <2>2 DEF TimeInv, TimeTypeOK, OwnEntry, TSlots
    <3>2. ASSUME NEW d \in Delays, addTimeEvent(d)
          PROVE  slots'[ti] = slots[ti]
      <4>1. ti # used
        BY <3>1
      <4>2. QED
        BY <1>0, <3>1, <3>2, <4>1 DEF addTimeEvent
    <3>3. ASSUME NEW x \in Ids, MayDelete(x), delTimeEvent(x)
          PROVE  slots'[ti] = slots[ti]
      <4>1. PICK k \in InUse : slots[k].id = x /\ CopyLast(k)
        BY <3>3 DEF delTimeEvent
      <4>2. k # ti
        BY <2>2, <3>1, <3>3, <4>1 DEF MayDelete
      <4>3. QED
        BY <1>0, <3>1, <4>1, <4>2 DEF CopyLast
    <3>4. QED
      BY <1>1, <3>2, <3>3 DEF TimeCall
  <2>3. QED
    BY <2>1, <2>2
<1>2. CASE BeginScan \/ NotYet \/ EndScan
  BY <1>0, <1>2 DEF BeginScan, NotYet, EndScan
<1>3. CASE Fire
  BY <1>3 DEF Fire, array
<1>4. ASSUME NEW rc \in Delays \cup {0}, ReturnTime(rc)
      PROVE  DueInv'
  BY <1>4 DEF ReturnTime
<1>5. CASE Tick
  BY <1>0, <1>5 DEF Tick, array, scan
<1>6. CASE UNCHANGED timeVars
  BY <1>6 DEF timeVars, array, scan
<1>7. QED
  BY <1>1, <1>2, <1>3, <1>4, <1>5, <1>6 DEF TimeNext, ScanStep

\* Each step of the array maps to a step of the timer set, or to none.
LEMMA StepRefines ==
  ASSUME TimeInv, TimeInv', DueInv, [TimeNext]_timeVars
  PROVE  [Timers!TimerNext]_(Timers!timerVars)
<1> USE TimeAssumption
<1> DEFINE given == 1 .. lastId
<1>0. /\ lastId \in Nat /\ clock \in Nat /\ tnow \in Nat
      /\ DistinctIds /\ DOMAIN Armed = Ids /\ Ids = live /\ live \subseteq 1 .. lastId
      /\ \A k \in InUse : slots[k].id \in Ids /\ Armed[slots[k].id] = slots[k].when
  <2>1. DistinctIds
    BY DEF TimeInv, LiveExact, DistinctIds
  <2>2. QED
    BY <2>1, ArmedEntries DEF TimeInv, TimeTypeOK, LiveExact, Ids
<1>1. ASSUME NEW d \in Delays, lastId < MaxId, addTimeEvent(d), UNCHANGED << scan, clock >>
      PROVE  Timers!Create
  <2>1. lastId + 1 \in (1 .. MaxId) \ (1 .. lastId) /\ lastId' = lastId + 1
    BY <1>0, <1>1 DEF addTimeEvent
  <2>2. (1 .. lastId)' = (1 .. lastId) \cup {lastId + 1}
    BY <1>0, <2>1
  <2>3. Armed' = [y \in DOMAIN Armed \cup {lastId + 1} |->
                    IF y = lastId + 1 THEN clock + d ELSE Armed[y]]
    BY <1>1, AddArms
  <2>4. QED
    BY <1>1, <2>1, <2>2, <2>3 DEF Timers!Create, scan
<1>2. ASSUME NEW x \in Ids, delTimeEvent(x), UNCHANGED << scan, clock >>
      PROVE  Timers!Delete
  <2>1. PICK k \in InUse : slots[k].id = x /\ CopyLast(k)
    BY <1>2 DEF delTimeEvent
  <2>2. Armed' = [y \in DOMAIN Armed \ {x} |-> Armed[y]]
    BY <1>0, <2>1, CopyLastDisarms DEF TimeInv
  <2>3. lastId' = lastId /\ clock' = clock /\ firing' = firing
    BY <1>2 DEF delTimeEvent, scan
  <2>4. QED
    BY <1>0, <2>2, <2>3 DEF Timers!Delete, Timers!Without
<1>3. CASE UNCHANGED << slots, used, lastId, clock, firing >>
  <2>1. Armed' = Armed
    BY <1>3 DEF Armed, Ids, InUse
  <2>2. QED
    BY <1>3, <2>1 DEF Timers!timerVars
<1>4. CASE Fire
  <2>0. ti \in Nat /\ ti \in TSlots /\ used \in Nat /\ ti < used /\ slots[ti].when \in Nat
    <3>1. ti \in 0 .. Size /\ used \in 0 .. Size /\ ti < used
      BY <1>4 DEF Fire, TimeInv, TimeTypeOK
    <3>2. slots \in [TSlots -> [id : Nat, when : Nat]]
      BY DEF TimeInv, TimeTypeOK
    <3>3. QED
      BY <3>1, <3>2 DEF TSlots
  <2>1. ti \in InUse /\ slots[ti].when <= clock
    BY <1>0, <1>4, <2>0 DEF Fire, InUse, DueInv
  <2>2. Armed' = Armed
    BY <1>4 DEF Fire, array, Armed, Ids, InUse
  <2>3. firing = 0 /\ firing' = slots[ti].id /\ UNCHANGED << lastId, clock >>
    BY <1>4 DEF Fire, array, DueInv
  <2>4. Timers!Call
    BY <1>0, <2>1, <2>2, <2>3 DEF Timers!Call
  <2>5. QED
    BY <2>4 DEF Timers!TimerNext
<1>5. ASSUME NEW rc \in Delays \cup {0}, ReturnTime(rc)
      PROVE  Timers!Return
  <2>1. /\ tphase = "cb" /\ firing' = 0 /\ UNCHANGED << lastId, clock >>
        /\ ti \in InUse /\ slots[ti].id = firing
    BY <1>5 DEF ReturnTime, TimeInv, TimeTypeOK, OwnEntry, InUse
  <2>2. firing \in DOMAIN Armed /\ firing # 0 /\ Armed[firing] = slots[ti].when
    BY <1>0, <2>1
  <2>3. CASE rc # 0
    <3>1. slots' = [slots EXCEPT ![ti].when = tnow + rc] /\ used' = used
      BY <1>5, <2>3 DEF ReturnTime
    <3>2. Armed' = [Armed EXCEPT ![firing] = tnow + rc]
      BY <2>1, <3>1, ReturnRearms
    <3>3. tnow \in Armed[firing] .. clock /\ rc \in Delays \ {0}
      BY <1>0, <2>1, <2>2, <2>3 DEF DueInv, TimeInv, TimeTypeOK, InUse, TSlots
    <3>4. QED
      BY <2>1, <2>2, <3>2, <3>3 DEF Timers!Return
  <2>4. CASE rc = 0
    <3>1. CopyLast(ti)
      BY <1>5, <2>4 DEF ReturnTime
    <3>2. Armed' = [y \in DOMAIN Armed \ {firing} |-> Armed[y]]
      BY <1>0, <2>1, <3>1, CopyLastDisarms DEF TimeInv
    <3>3. QED
      BY <2>1, <2>2, <3>2 DEF Timers!Return, Timers!Without
  <2>5. QED
    BY <2>3, <2>4
<1>6. CASE Tick
  <2>1. Armed' = Armed
    BY <1>6 DEF Tick, array, Armed, Ids, InUse
  <2>2. Timers!Tick
    BY <1>6, <2>1 DEF Tick, array, scan, Timers!Tick
  <2>3. QED
    BY <2>2 DEF Timers!TimerNext
<1>7. CASE TimeCall
  BY <1>1, <1>2, <1>7 DEF TimeCall, Timers!TimerNext
<1>8. CASE BeginScan \/ NotYet \/ EndScan \/ UNCHANGED timeVars
  BY <1>3, <1>8 DEF BeginScan, NotYet, EndScan, timeVars, array, scan
<1>9. QED
  BY <1>4, <1>5, <1>6, <1>7, <1>8 DEF TimeNext, ScanStep, Timers!TimerNext

\* For every array size and set of delays: the array that moves its entries
\* under the scan behaves as a set of timers, each called once due, re-armed
\* only by its own return, and gone only when it is over or deleted.
THEOREM ArrayIsTimerSet ==
  ASSUME TimeLiberties = {}
  PROVE  TimeSpec => ImplementsTimerSet
<1>1. TimeInit => DueInv
  BY DEF TimeInit, DueInv
<1>2. TimeInv /\ DueInv /\ [TimeNext]_timeVars => DueInv'
  BY DueKept
<1>3. TimeInit => Timers!TimerInit
  <2> SUFFICES ASSUME TimeInit PROVE Timers!TimerInit
    OBVIOUS
  <2>1. InUse = {} /\ Ids = {}
    BY DEF TimeInit, InUse, Ids
  <2>2. Armed = [x \in {} |-> 0]
    BY <2>1 DEF Armed
  <2>3. 1 .. lastId = {}
    BY DEF TimeInit
  <2>4. QED
    BY <2>2, <2>3 DEF TimeInit, Timers!TimerInit
<1>4. TimeInv /\ TimeInv' /\ DueInv /\ [TimeNext]_timeVars => [Timers!TimerNext]_(Timers!timerVars)
  BY StepRefines
<1>5. QED
  BY <1>1, <1>2, <1>3, <1>4, TimeInvariant, PTL DEF TimeSpec, ImplementsTimerSet, Timers!TimerSpec
=============================================================================
