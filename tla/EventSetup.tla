----------------------------- MODULE EventSetup -----------------------------
(***************************************************************************)
(* The life of an AsyncEvent (include/nebula/async_event.h): the           *)
(* constructor, initialize(), which opens an epoll descriptor and          *)
(* allocates four arrays and may fail at each, and the destructor, which   *)
(* frees what there is.  initialize() is called once, as in                *)
(* LogServer::routine() and the tests: it does not look at what it         *)
(* overwrites.                                                             *)
(***************************************************************************)
EXTENDS Integers, Sequences

CONSTANTS
  SizeHints   \* arguments of initialize(), among them negative ones

ASSUME SetupAssumption == SizeHints \subseteq Int

VARIABLES
  loop,     \* "new", "ready", "failed" or "gone"
  members,  \* the members that hold a descriptor or a pointer
  acquired  \* descriptors and blocks of this object that the system has given out

setupVars == << loop, members, acquired >>

\* What initialize() acquires, in its order.
Resources == << "epoll_fd_", "list_of_ready_fds_", "fd_event_list_", "fired_events_",
                "time_event_list_" >>

First(n) == { Resources[k] : k \in 1 .. n }

SetupInit == loop = "new" /\ members = {} /\ acquired = {}

\* The first done of the calls succeed.  A negative hint is refused: that of epoll
\* before anything is acquired, that of the timers before the last array.
initialize(epoll_hint_size, time_event_hint_size) ==
  /\ loop = "new"
  /\ \E done \in 0 .. Len(Resources) :
       /\ epoll_hint_size < 0 => done = 0
       /\ time_event_hint_size < 0 => done < Len(Resources)
       /\ members' = First(done) /\ acquired' = acquired \cup First(done)
       /\ loop' = IF done = Len(Resources) THEN "ready" ELSE "failed"

\* Mutant: nothing is freed when initialize() has failed.
destroyReady ==
  /\ loop # "gone" /\ loop' = "gone"
  /\ acquired' = IF loop = "ready" THEN acquired \ members ELSE acquired
  /\ UNCHANGED members

\* The destructor looks at each member.
destroyLoop ==
  /\ loop # "gone" /\ loop' = "gone"
  /\ acquired' = acquired \ members
  /\ UNCHANGED members

SetupNext ==
  \/ \E e, t \in SizeHints : initialize(e, t)
  \/ destroyLoop

-----------------------------------------------------------------------------
\* An AsyncEvent that was destroyed has left nothing behind, however far initialize()
\* had come (async_event.h:122), and one that reports success has all it needs.
SetupFreed ==
  /\ loop = "gone" => acquired = {}
  /\ loop = "ready" => members = First(Len(Resources))
=============================================================================
