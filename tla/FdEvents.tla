------------------------------ MODULE FdEvents ------------------------------
(***************************************************************************)
(* The file-descriptor half of nebula::AsyncEvent                          *)
(* (include/nebula/async_event.h): the table of monitored descriptors, the *)
(* list of descriptors with events that fired but were not consumed (the   *)
(* library uses epoll edge-triggered, so it has to remember them), and the *)
(* two loops that run the callbacks, processReadyFds() and                 *)
(* processFdEvents().                                                      *)
(*                                                                         *)
(* The object is used by one thread.  What makes it hard is re-entrancy:   *)
(* the loops run user callbacks, and a callback may call addFdEvent(),     *)
(* delFdEvent() and removeFd() on any descriptor, its own included, while  *)
(* a loop stands in the middle of the very list these calls rearrange.  A  *)
(* callback is therefore not one step: it begins, makes any number of      *)
(* calls, and returns.                                                     *)
(***************************************************************************)
EXTENDS Integers, FiniteSets

CONSTANTS
  TableSize,   \* fd_table_size_, the length of all three arrays
  Masks,       \* the non-empty event masks callers register
  Liberties    \* what callers do that no part of this code defends against

(***************************************************************************)
(* The contract between the library and its callers, one name per clause;  *)
(* a name in Liberties means the clause is not kept.                       *)
(*   dropInReady   a callback run by processReadyFds() drops a listed      *)
(*                 descriptor although its own is the last of the list     *)
(*   readdInReady  such a callback drops its own descriptor and registers  *)
(*                 it again before it returns                              *)
(*   dropPending   a callback run by processFdEvents() drops another       *)
(*                 descriptor whose event is still in the fetched batch    *)
(*   emptyMask     addFdEvent() is called with mask NONE                   *)
(*   closeFirst    a monitored descriptor is closed before removeFd()      *)
(***************************************************************************)
Clauses == { "dropInReady", "readdInReady", "dropPending", "emptyMask", "closeFirst" }

\* READABLE and WRITABLE; Exc stands for EPOLLHUP | EPOLLERR.
RDWR == { "R", "W" }
Exc  == "X"

ASSUME FdAssumption ==
  /\ TableSize \in Nat \ {0}
  /\ Masks \subseteq (SUBSET RDWR) \ {{}}
  /\ Liberties \subseteq Clauses

Fd    == 0 .. TableSize - 1
Slots == 0 .. TableSize - 1

VARIABLES
  monitored,     \* info->monitored_
  fired,         \* info->already_fired_
  proc,          \* whether info->proc_ is set
  procExp,       \* whether info->proc_exp_ is set
  readyList,     \* list_of_ready_fds_, the slots beyond numReady included
  numReady,      \* num_ready_fds_
  numMonitored,  \* num_monitored_fds_
  registered,    \* kernel: the descriptors registered with epoll_fd_
  phase,         \* where the thread stands in the two loops
  idx,           \* idx of processReadyFds()
  cur,           \* the descriptor whose callback is running
  curEvents,     \* the mask its callback was given
  batch,         \* fired_events_ not yet handled, {} for none
  stale,         \* history: batch entries whose registration was dropped
  served         \* history: descriptors called in this processReadyFds()

table   == << monitored, fired, proc, procExp, readyList, numReady, numMonitored, registered >>
control == << phase, idx, cur, curEvents, batch >>
fdVars  == << table, control, stale, served >>

Callback  == { "readyCb", "fdCb", "errCb" }
Phases    == { "idle", "ready", "wait", "batch" } \cup Callback

-----------------------------------------------------------------------------
(* The public operations.  A call that fails leaves the object as it was   *)
(* (the entry is restored from old_info), so it is a stuttering step; the      *)
(* actions below are the calls that succeed.  epoll_ctl(ADD) succeeds only *)
(* for a descriptor that is not registered, MOD and DEL only for one that  *)
(* is.                                                                     *)

\* The descriptors in list_of_ready_fds_[0 .. n-1].
Listed == { readyList[k] : k \in 0 .. numReady - 1 }

\* Mutant: the last entry is not moved into the gap.
SwapRemoveNoMove(k) == numReady' = numReady - 1 /\ UNCHANGED readyList

\* list_of_ready_fds_[k] = list_of_ready_fds_[--num_ready_fds_].  With an
\* empty list the code reads the word before the array into slot k, which
\* the list no longer covers; the count still drops.
SwapRemove(k) ==
  /\ readyList' = IF numReady > 0 THEN [readyList EXCEPT ![k] = readyList[numReady - 1]]
                                  ELSE readyList
  /\ numReady'  = numReady - 1

\* The search loop both delFdEvent() and removeFd() end with.
Unready(f) ==
  IF f \in Listed
  THEN \E k \in 0 .. numReady - 1 :
         /\ readyList[k] = f
         /\ \A j \in 0 .. k - 1 : readyList[j] # f
         /\ SwapRemove(k)
  ELSE UNCHANGED << readyList, numReady >>

\* EPOLL_CTL_DEL, then memset(info, 0), the count and the ready list.
Drop(f) ==
  /\ f \in registered
  /\ registered'   = registered \ {f}
  /\ monitored'    = [monitored EXCEPT ![f] = {}]
  /\ fired'        = [fired EXCEPT ![f] = {}]
  /\ proc'         = [proc EXCEPT ![f] = FALSE]
  /\ procExp'      = [procExp EXCEPT ![f] = FALSE]
  /\ numMonitored' = numMonitored - 1
  /\ Unready(f)
  /\ stale' = IF batch[f] # {} THEN stale \cup {f} ELSE stale

\* Mutant: a change of interest is counted as a new descriptor.
addFdEventRecounts(f, mask, exp) ==
  /\ (f \in registered) = (monitored[f] # {})
  /\ monitored'    = [monitored EXCEPT ![f] = @ \cup mask]
  /\ proc'         = [proc EXCEPT ![f] = TRUE]
  /\ procExp'      = [procExp EXCEPT ![f] = exp]
  /\ registered'   = registered \cup {f}
  /\ numMonitored' = numMonitored + 1
  /\ UNCHANGED << fired, readyList, numReady, stale >>

addFdEvent(f, mask, exp) ==
  /\ (f \in registered) = (monitored[f] # {})      \* MOD or ADD succeeds
  /\ monitored'    = [monitored EXCEPT ![f] = @ \cup mask]
  /\ proc'         = [proc EXCEPT ![f] = TRUE]
  /\ procExp'      = [procExp EXCEPT ![f] = exp]
  /\ registered'   = registered \cup {f}
  /\ numMonitored' = IF monitored[f] = {} THEN numMonitored + 1 ELSE numMonitored
  /\ UNCHANGED << fired, readyList, numReady, stale >>

delFdEvent(f, mask) ==
  \/ /\ monitored[f] \ mask # {}
     /\ f \in registered                           \* MOD succeeds
     /\ monitored' = [monitored EXCEPT ![f] = @ \ mask]
     /\ UNCHANGED << fired, proc, procExp, readyList, numReady, numMonitored, registered, stale >>
  \/ /\ monitored[f] \ mask = {}
     /\ Drop(f)

\* With monitored_ == NONE the call returns at once, closing the descriptor
\* if it was asked to; a closed descriptor leaves the epoll set by itself.
removeFd(f, close) ==
  \/ /\ monitored[f] # {}
     /\ Drop(f)
  \/ /\ monitored[f] = {}
     /\ registered' = IF close THEN registered \ {f} ELSE registered
     /\ UNCHANGED << monitored, fired, proc, procExp, readyList, numReady, numMonitored, stale >>

\* The owner closes a descriptor without telling the object.
closeFd(f) ==
  /\ f \in registered
  /\ registered' = registered \ {f}
  /\ UNCHANGED << monitored, fired, proc, procExp, readyList, numReady, numMonitored, stale >>

-----------------------------------------------------------------------------
(* Callers.  Code outside the loops ("idle": the owner's code and the time *)
(* callbacks) and the descriptor callbacks make calls; MayDrop and MayDel  *)
(* are the contract above.                                                 *)

MayDrop(f) ==
  /\ \/ "dropInReady" \in Liberties
     \/ phase = "readyCb" => fired[cur] = {} \/ fired[f] = {} \/ idx < numReady - 1
  /\ "dropPending" \in Liberties \/ batch[f] = {}

MayDel(f, mask) == monitored[f] \ mask = {} => MayDrop(f)

\* Bound on the registrations with mask NONE, which removeFd() cannot undo.
LeakBound == TableSize

MayAdd(f, mask) ==
  /\ mask # {} \/ ("emptyMask" \in Liberties /\ numMonitored < LeakBound)
  /\ \/ "readdInReady" \in Liberties
     \/ phase = "readyCb" /\ cur = f => monitored[f] # {}

FdCall ==
  /\ phase \in {"idle"} \cup Callback
  /\ \E f \in Fd :
       \/ \E mask \in Masks \cup {{}}, exp \in BOOLEAN : MayAdd(f, mask) /\ addFdEvent(f, mask, exp)
       \/ \E mask \in Masks : MayDel(f, mask) /\ delFdEvent(f, mask)
       \/ \E close \in BOOLEAN : MayDrop(f) /\ removeFd(f, close)
       \/ "closeFirst" \in Liberties /\ closeFd(f)
  /\ UNCHANGED << control, served >>

-----------------------------------------------------------------------------
(* processReadyFds(): call every listed descriptor with what it has        *)
(* pending, keep it listed while something monitored is left.              *)

\* Mutant: the mask is not cut down to the monitored events.
GuessUnmasked(rc) == rc \cup fired[cur]

\* What stays pending after a callback that returned rc.
Guess(rc) == (rc \cup fired[cur]) \cap monitored[cur]

BeginReady ==
  /\ phase = "idle"
  /\ phase' = "ready" /\ idx' = 0 /\ served' = {}
  /\ UNCHANGED << table, cur, curEvents, batch, stale >>

CallReady ==
  /\ phase = "ready" /\ idx < numReady
  /\ phase' = "readyCb"
  /\ cur' = readyList[idx]
  /\ curEvents' = fired[readyList[idx]]
  /\ served' = served \cup {readyList[idx]}
  /\ UNCHANGED << table, idx, batch, stale >>

\* Mutant: the scan does not move on.
ReturnReadyStays(rc) ==
  /\ phase = "readyCb" /\ phase' = "ready"
  /\ fired' = [fired EXCEPT ![cur] = Guess(rc)]
  /\ IF Guess(rc) = {} /\ readyList[idx] = cur THEN SwapRemove(idx)
                                              ELSE UNCHANGED << readyList, numReady >>
  /\ cur' = 0 /\ curEvents' = {}
  /\ UNCHANGED << idx, monitored, proc, procExp, numMonitored, registered, batch, stale, served >>

ReturnReady(rc) ==
  LET guess == Guess(rc) IN
  /\ phase = "readyCb"
  /\ phase' = "ready"
  /\ fired' = [fired EXCEPT ![cur] = guess]
  /\ IF guess # {}
     THEN idx' = idx + 1 /\ UNCHANGED << readyList, numReady >>
     ELSE /\ IF readyList[idx] = cur THEN SwapRemove(idx) ELSE UNCHANGED << readyList, numReady >>
          /\ UNCHANGED idx
  /\ cur' = 0 /\ curEvents' = {}
  /\ UNCHANGED << monitored, proc, procExp, numMonitored, registered, batch, stale, served >>

EndReady ==
  /\ phase = "ready" /\ idx >= numReady
  /\ phase' = "wait" /\ idx' = 0 /\ served' = {}
  /\ UNCHANGED << table, cur, curEvents, batch, stale >>

-----------------------------------------------------------------------------
(* processFdEvents(): fetch a batch from epoll_wait() and dispatch it.     *)

\* What epoll_wait() may report: requested events and, unasked, exceptions.
\* An empty batch is a timeout or an error.
Reportable == { b \in [Fd -> SUBSET (RDWR \cup {Exc})] :
                  \A f \in Fd : /\ b[f] \subseteq monitored[f] \cup {Exc}
                                /\ b[f] # {} => f \in registered }

EpollWait ==
  /\ phase = "wait"
  /\ phase' = "batch"
  /\ batch' \in Reportable
  /\ UNCHANGED << table, idx, cur, curEvents, stale, served >>

\* One entry of the batch, in any order: the error callback when there is one
\* for an exception, else the I/O callback, else nothing.
Dispatch(f) ==
  LET io == batch[f] \cap RDWR IN
  /\ phase = "batch" /\ batch[f] # {}
  /\ batch' = [batch EXCEPT ![f] = {}]
  /\ \/ /\ Exc \in batch[f] /\ procExp[f]
        /\ phase' = "errCb" /\ cur' = f /\ UNCHANGED << curEvents, stale >>
     \/ /\ ~(Exc \in batch[f] /\ procExp[f])
        /\ io # {}
        /\ phase' = "fdCb" /\ cur' = f /\ curEvents' = io /\ UNCHANGED stale
     \/ /\ ~(Exc \in batch[f] /\ procExp[f])
        /\ io = {}
        /\ stale' = stale \ {f} /\ UNCHANGED << phase, cur, curEvents >>
  /\ UNCHANGED << table, idx, served >>

ReturnFd(rc) ==
  LET guess == Guess(rc)
      left  == fired[cur] \ curEvents
  IN
  /\ phase = "fdCb"
  /\ phase' = "batch"
  /\ \/ /\ guess # {}
        /\ fired' = [fired EXCEPT ![cur] = @ \cup guess]
        /\ IF fired[cur] = {}
           THEN /\ readyList' = [readyList EXCEPT ![numReady] = cur]
                /\ numReady' = numReady + 1
           ELSE UNCHANGED << readyList, numReady >>
     \/ /\ guess = {} /\ fired[cur] # {}
        /\ fired' = [fired EXCEPT ![cur] = left]
        /\ IF left = {} THEN Unready(cur) ELSE UNCHANGED << readyList, numReady >>
     \/ /\ guess = {} /\ fired[cur] = {}
        /\ UNCHANGED << fired, readyList, numReady >>
  /\ cur' = 0 /\ curEvents' = {}
  /\ stale' = stale \ {cur}
  /\ UNCHANGED << monitored, proc, procExp, numMonitored, registered, idx, batch, served >>

\* The error callback's return value is ignored.
ReturnErr ==
  /\ phase = "errCb"
  /\ phase' = "batch"
  /\ cur' = 0
  /\ stale' = stale \ {cur}
  /\ UNCHANGED << table, idx, curEvents, batch, served >>

EndBatch ==
  /\ phase = "batch" /\ \A f \in Fd : batch[f] = {}
  /\ phase' = "idle"
  /\ UNCHANGED << table, idx, cur, curEvents, batch, stale, served >>

-----------------------------------------------------------------------------
FdInit ==
  /\ monitored = [f \in Fd |-> {}]
  /\ fired = [f \in Fd |-> {}]
  /\ proc = [f \in Fd |-> FALSE]
  /\ procExp = [f \in Fd |-> FALSE]
  /\ readyList = [k \in Slots |-> 0]
  /\ numReady = 0
  /\ numMonitored = 0
  /\ registered = {}
  /\ phase = "idle" /\ idx = 0 /\ cur = 0 /\ curEvents = {}
  /\ batch = [f \in Fd |-> {}]
  /\ stale = {} /\ served = {}

ReadyStep == BeginReady \/ CallReady \/ (\E rc \in SUBSET RDWR : ReturnReady(rc)) \/ EndReady

BatchStep ==
  \/ EpollWait
  \/ \E f \in Fd : Dispatch(f)
  \/ \E rc \in SUBSET RDWR : ReturnFd(rc)
  \/ ReturnErr
  \/ EndBatch

FdNext == FdCall \/ ReadyStep \/ BatchStep

FdSpec == FdInit /\ [][FdNext]_fdVars

\* eventLoop() keeps taking turns between the two loops, and callbacks return.
FdFairness == WF_fdVars(ReadyStep \/ BatchStep)

-----------------------------------------------------------------------------
(* Correctness. *)

\* Every variable holds a value of its type and every index stays inside its
\* array: in particular the ready list neither overflows the table nor counts
\* below zero.
FdTypeOK ==
  /\ monitored \in [Fd -> SUBSET RDWR]
  /\ fired \in [Fd -> SUBSET RDWR]
  /\ proc \in [Fd -> BOOLEAN]
  /\ procExp \in [Fd -> BOOLEAN]
  /\ readyList \in [Slots -> Fd]
  /\ numReady \in 0 .. TableSize
  /\ numMonitored \in 0 .. TableSize
  /\ registered \in SUBSET Fd
  /\ phase \in Phases
  /\ idx \in 0 .. TableSize
  /\ cur \in Fd
  /\ curEvents \in SUBSET RDWR
  /\ batch \in [Fd -> SUBSET (RDWR \cup {Exc})]
  /\ stale \in SUBSET Fd
  /\ served \in SUBSET Fd

\* The ready list holds exactly the descriptors with a pending event, each
\* once.  A descriptor that is pending but not listed is never called again:
\* already_fired_ keeps processFdEvents() from listing it a second time.
ReadyExact ==
  /\ \A j, k \in 0 .. numReady - 1 : readyList[j] = readyList[k] => j = k
  /\ Listed = { f \in Fd : fired[f] # {} }

\* While a callback of processReadyFds() runs, its descriptor is the entry at
\* idx; or the callback dropped it, and the entry at idx, in the list or past
\* its end, is another one: list_of_ready_fds_[idx] == fd tells the two apart.
OwnSlot ==
  phase = "readyCb" =>
    /\ idx \in Slots
    /\ \/ fired[cur] # {} /\ idx < numReady /\ readyList[idx] = cur
       \/ fired[cur] = {} /\ monitored[cur] = {} /\ readyList[idx] # cur

\* With nothing monitored nothing is ready: what the owner of a loop that has
\* removed all its descriptors reads from numReadyFds().
NoneReadyWhenNoneMonitored == numMonitored = 0 => numReady = 0

\* num_monitored_fds_, on which eventLoop() decides whether to go on, counts
\* the monitored descriptors, and these are the ones the kernel reports on.
CountExact ==
  /\ registered = { f \in Fd : monitored[f] # {} }
  /\ numMonitored = Cardinality(registered)

\* What delFdEvent() says of itself: an event it has stopped is not handed to
\* the callback any more, though it was pending when it was stopped.
OnlyMonitoredCalled == [][CallReady => curEvents' \subseteq monitored[cur']]_fdVars

\* What the code keeps of that: a pending event that is deleted is handed over
\* once at most and then forgotten; processReadyFds() drops it as soon as its
\* callback returns, whatever the callback asks for.
DeletedForgotten ==
  \A f \in Fd : ~(fired[f] \subseteq monitored[f]) ~> fired[f] \subseteq monitored[f]

\* No callback is run for an event fetched before its registration was
\* dropped: neither through a zeroed proc_ nor for a later registration of the
\* same number.
NoStaleDispatch == phase \in { "fdCb", "errCb" } => cur \notin stale

\* Whatever either loop is about to call has a callback to call.
CallbackSet ==
  /\ phase = "ready" /\ idx < numReady => proc[readyList[idx]]
  /\ phase = "batch" => \A f \in Fd : batch[f] \cap RDWR # {} => proc[f]

\* The scan of the ready list reaches no descriptor twice, however the
\* callbacks rearrange the list behind and ahead of it.
OncePerScan ==
  phase = "ready" => \A k \in idx .. numReady - 1 : readyList[k] \notin served

\* A pending event is handed to its callback, however the callbacks of other
\* descriptors rearrange the list, unless the descriptor is dropped first.
PendingCalled ==
  \A f \in Fd : fired[f] # {} ~> (fired[f] = {} \/ (phase = "readyCb" /\ cur = f))
=============================================================================
