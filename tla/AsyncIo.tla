------------------------------ MODULE AsyncIo ------------------------------
(***************************************************************************)
(* nebula::AsyncIo (include/nebula/async_io.h, src/async_io.cc): pipes and *)
(* sockets that are set up by several system calls, each of which may      *)
(* fail, in several threads.  The descriptor table is the one thing they   *)
(* share: the system gives out the lowest number that is free, also one    *)
(* that another thread has closed a moment ago.                            *)
(***************************************************************************)
EXTENDS Integers, Sequences, FiniteSets

CONSTANTS
  Uses,     \* the functions that each thread calls
  MaxFds    \* size of the descriptor table; beyond it calls fail with EMFILE

VARIABLES
  table,   \* what the system knows of each descriptor, {} for a number not in use
  call,    \* the call each thread is in
  held     \* the descriptors each thread was given, and what it had asked for

ioVars == << table, call, held >>

Users     == DOMAIN Uses
Fds       == 1 .. MaxFds
AIO_FLAGS == { "CLOEXEC", "NONBLOCK" }

\* The public functions; flags matter to the first two.
Functions ==
  { "pipe2", "accept4", "tcpServer", "udpServer", "tcpClient", "udpClient",
    "unixTcpServer", "unixUdpServer", "unixTcpClient", "unixUdpClient" }

ASSUME AsyncIoAssumption ==
  /\ MaxFds \in Nat \ {0}
  /\ \A u \in Users : Uses[u] \subseteq Functions

\* Flags that a caller may pass, among them one that is not known.
FlagsOf(fn) ==
  IF fn \in { "pipe2", "accept4" } THEN (SUBSET AIO_FLAGS) \cup { { "other" } } ELSE { {} }

UseTcp(fn) == fn \in { "tcpServer", "tcpClient", "unixTcpServer", "unixTcpClient" }

-----------------------------------------------------------------------------
(* Each function as the system calls it makes, in their order: what they   *)
(* do, and to which of the descriptors it has.                             *)

On(k, does) == << [does |-> does, to |-> k] >>
Only(cond, steps) == IF cond THEN steps ELSE << >>

\* Checks of the arguments, which come before anything is opened.
Checks == { "flags", "address" }

\* What makes a new descriptor, or two.
Makers == { "pipe", "accept", "socket" }

\* Mutant: only the reading end is made non-blocking.
PipeStepsHalf(flags) ==
     On(0, "flags") \o On(0, "pipe")
  \o Only("NONBLOCK" \in flags, On(1, "O_NONBLOCK"))
  \o Only("CLOEXEC" \in flags, On(1, "FD_CLOEXEC") \o On(2, "FD_CLOEXEC"))

PipeSteps(flags) ==
     On(0, "flags") \o On(0, "pipe")
  \o Only("NONBLOCK" \in flags, On(1, "O_NONBLOCK") \o On(2, "O_NONBLOCK"))
  \o Only("CLOEXEC" \in flags, On(1, "FD_CLOEXEC") \o On(2, "FD_CLOEXEC"))

AcceptSteps(flags) ==
     On(0, "flags") \o On(0, "accept")
  \o Only("NONBLOCK" \in flags, On(1, "O_NONBLOCK"))
  \o Only("CLOEXEC" \in flags, On(1, "FD_CLOEXEC"))

ServerSteps(tcp) ==
     On(0, "address") \o On(0, "socket") \o On(1, "O_NONBLOCK") \o On(1, "SO_REUSEADDR")
  \o On(1, "bind") \o Only(tcp, On(1, "listen"))

\* A client connects while its socket still blocks.
ClientSteps(tcp) ==
  On(0, "address") \o On(0, "socket") \o Only(tcp, On(1, "connect")) \o On(1, "O_NONBLOCK")

\* Also unixTcpServer() leaves listen() to its caller.
UnixServerSteps == On(0, "address") \o On(0, "socket") \o On(1, "O_NONBLOCK") \o On(1, "bind")

UnixClientSteps == On(0, "address") \o On(0, "socket") \o On(1, "O_NONBLOCK") \o On(1, "connect")

Steps(fn, flags) ==
  CASE fn = "pipe2"                               -> PipeSteps(flags)
    [] fn = "accept4"                             -> AcceptSteps(flags)
    [] fn \in { "tcpServer", "udpServer" }         -> ServerSteps(UseTcp(fn))
    [] fn \in { "tcpClient", "udpClient" }         -> ClientSteps(UseTcp(fn))
    [] fn \in { "unixTcpServer", "unixUdpServer" } -> UnixServerSteps
    [] fn \in { "unixTcpClient", "unixUdpClient" } -> UnixClientSteps

\* Mutant: of a pipe's two ends one is closed twice.
CleanUpTwice(fds) == [k \in DOMAIN fds |-> [does |-> "close", to |-> 1]]

\* What a function does once a call has failed, before it returns ERROR.
CleanUp(fds) == [k \in DOMAIN fds |-> [does |-> "close", to |-> k]]

-----------------------------------------------------------------------------
Idle == [fn |-> "none", flags |-> {}, left |-> << >>, fds |-> << >>, failed |-> FALSE]

IoInit ==
  /\ table = [d \in Fds |-> {}]
  /\ call = [u \in Users |-> Idle]
  /\ held = [u \in Users |-> {}]

Free        == { d \in Fds : table[d] = {} }
Lowest(S)   == CHOOSE d \in S : \A e \in S : d <= e
LowestFree  == Lowest(Free)
SecondFree  == Lowest(Free \ { LowestFree })

Enter(u, fn, flags) ==
  /\ call[u] = Idle
  /\ call' = [call EXCEPT ![u] = [Idle EXCEPT !.fn = fn, !.flags = flags,
                                              !.left = Steps(fn, flags)]]
  /\ UNCHANGED << table, held >>

Todo(u) == Head(call[u].left)

\* The next call of u's function succeeds, and its descriptors are now fds.
Done(u, fds) ==
  call' = [call EXCEPT ![u].left = Tail(@), ![u].fds = fds]

\* Arguments pass the checks; accept4() and pipe2() know two flags.
Pass(u) ==
  /\ Todo(u).does \in Checks
  /\ Todo(u).does = "flags" => call[u].flags \subseteq AIO_FLAGS
  /\ Done(u, << >>)
  /\ UNCHANGED table

\* A new descriptor, with nothing set on it.  accept() needs one that listens.
Make(u) ==
  /\ Todo(u).does \in Makers
  /\ Todo(u).does = "accept" => \E d \in Fds : "listen" \in table[d]
  /\ Cardinality(Free) >= IF Todo(u).does = "pipe" THEN 2 ELSE 1
  /\ LET fds == IF Todo(u).does = "pipe" THEN << LowestFree, SecondFree >>
                ELSE << LowestFree >>
     IN  /\ Done(u, fds)
         /\ table' = [d \in Fds |-> IF \E k \in DOMAIN fds : fds[k] = d
                                    THEN { Todo(u).does } ELSE table[d]]

\* A call on a descriptor, which fails with EBADF if that is not open.
Apply(u) ==
  /\ Todo(u).to # 0 /\ Todo(u).does # "close"
  /\ LET d == call[u].fds[Todo(u).to] IN
       /\ table[d] # {}
       /\ table' = [table EXCEPT ![d] = @ \cup { Todo(u).does }]
  /\ Done(u, call[u].fds)

\* Any of these calls may fail.
Fail(u) ==
  /\ Todo(u).does # "close"
  /\ call' = [call EXCEPT ![u].left = CleanUp(call[u].fds), ![u].failed = TRUE]
  /\ UNCHANGED table

\* close(), of whatever has the number by now.
CleanUpStep(u) ==
  /\ Todo(u).does = "close"
  /\ table' = [table EXCEPT ![call[u].fds[Todo(u).to]] = {}]
  /\ Done(u, call[u].fds)

SystemCall(u) ==
  /\ call[u].left # << >>
  /\ Pass(u) \/ Make(u) \/ Apply(u) \/ Fail(u) \/ CleanUpStep(u)
  /\ UNCHANGED held

\* The function returns: the caller has the descriptors, or ERROR.
Return(u) ==
  /\ call[u] # Idle /\ call[u].left = << >>
  /\ call' = [call EXCEPT ![u] = Idle]
  /\ held' = [held EXCEPT ![u] =
       IF call[u].failed THEN @
       ELSE @ \cup { [fd |-> call[u].fds[k], fn |-> call[u].fn, flags |-> call[u].flags]
                     : k \in DOMAIN call[u].fds }]
  /\ UNCHANGED table

\* The caller closes what it was given.
Close(u) ==
  /\ call[u] = Idle
  /\ \E h \in held[u] :
       /\ held' = [held EXCEPT ![u] = @ \ { h }]
       /\ table' = [table EXCEPT ![h.fd] = {}]
  /\ UNCHANGED call

IoNext ==
  \E u \in Users :
    \/ \E fn \in Uses[u] : \E flags \in FlagsOf(fn) : Enter(u, fn, flags)
    \/ SystemCall(u) \/ Return(u) \/ Close(u)

-----------------------------------------------------------------------------
(* Properties. *)

\* The descriptors that a thread's call has opened and not yet closed again.
InHand(u) ==
  LET toClose == { call[u].left[k].to : k \in DOMAIN call[u].left }
  IN  { call[u].fds[k] : k \in IF call[u].failed THEN toClose ELSE DOMAIN call[u].fds }

\* Who is answerable for a descriptor: a call that will close or return it, or a caller.
Owners(d) ==
  { << u, "call" >> : u \in { v \in Users : d \in InHand(v) } }
  \cup UNION { { << u, h >> : h \in { g \in held[u] : g.fd = d } } : u \in Users }

\* Every open descriptor has one owner and every other number none, whichever call
\* fails in whichever thread: a failing function closes all that it opened, and only
\* that, although a number it has closed may be another thread's the next moment
\* (async_io.cc:41).
OneOwner == \A d \in Fds : Cardinality(Owners(d)) = IF table[d] = {} THEN 0 ELSE 1

\* What isNonblock_3state() and its like return.
State3(d, flag) == IF table[d] = {} THEN -1 ELSE IF flag \in table[d] THEN 1 ELSE 0

Is(cond) == IF cond THEN 1 ELSE 0

\* A caller that got a descriptor got what it had asked for, for as long as it holds it:
\* both ends of a pipe and an accepted socket have the flags asked for, every other socket
\* is non-blocking; an Internet server reuses its address, and listens if it is for TCP; a
\* client is connected, unless it is for UDP over the Internet.
AsAsked ==
  \A u \in Users : \A h \in held[u] :
    LET asked == h.fn \in { "pipe2", "accept4" }
        inet  == h.fn \in { "tcpServer", "udpServer" }
    IN  /\ State3(h.fd, "O_NONBLOCK") = Is(asked => "NONBLOCK" \in h.flags)
        /\ State3(h.fd, "FD_CLOEXEC") = Is("CLOEXEC" \in h.flags)
        /\ State3(h.fd, "SO_REUSEADDR") = Is(inet)
        /\ State3(h.fd, "listen") = Is(h.fn = "tcpServer")
        /\ State3(h.fd, "connect") =
             Is(h.fn \in { "tcpClient", "unixTcpClient", "unixUdpClient" })
        /\ State3(h.fd, "bind") = Is(inet \/ h.fn \in { "unixTcpServer", "unixUdpServer" })
=============================================================================
