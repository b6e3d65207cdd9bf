----------------------------- MODULE LogServer -----------------------------
(***************************************************************************)
(* nebula::LogModule::LogServer (include/nebula/app_logger.h,              *)
(* src/app_logger.cc): one log server per process, created by whoever asks *)
(* for it first (double-checked locking in getInstance()), a thread of its *)
(* own that receives the messages of its clients over a datagram socket    *)
(* and writes them to a file, and destroyInstance(), which stops, joins    *)
(* and deletes it.                                                         *)
(*                                                                         *)
(* The callers are modelled on test/app_logger_t.cc: the main thread calls *)
(* startLogServer() and stopLogServer(), round after round, and workers    *)
(* call getLogHandle() and log().  The server's event loop is the one of   *)
(* EventLoop, with one descriptor and one timer; of it this module keeps   *)
(* the order of its parts and that epoll reports a message once.  Its file *)
(* is a FileHandle, which LogFile abstracts.                               *)
(***************************************************************************)
EXTENDS Integers, Sequences, FiniteSets

CONSTANTS
  Main, Workers,
  Messages,     \* how many messages a worker logs through one handle
  Capacity,     \* datagrams the socket holds before send() blocks
  MaxServers,   \* bound on the servers ever created
  MaxFailures,  \* bound: failing write()s to one server's file
  LogLiberties  \* what callers or the system do that the code does not defend against

(* The contract, one name per clause; a name in LogLiberties means the     *)
(* clause is not kept.                                                     *)
(*   overlap  a worker uses the server while the main thread stops it      *)
(*   fails    routine() fails before its thread serves                     *)
(*   noThread create() fails although the caller goes on to use what it    *)
(*            gets                                                         *)
LogClauses == { "overlap", "fails", "noThread" }

Callers == {Main} \cup Workers
Servers == 1 .. MaxServers

ASSUME LogAssumption ==
  /\ Main \notin Workers /\ "server" \notin Workers
  /\ Messages \in Nat \ {0} /\ Capacity \in Nat \ {0}
  /\ MaxServers \in Nat /\ MaxFailures \in Nat
  /\ LogLiberties \subseteq LogClauses

VARIABLES
  uniq,     \* uniq_instance_, 0 for NULL
  lock,     \* who holds uniq_instance_lock_, {} when it is free
  ready,    \* ready_to_serve_client_
  created,  \* how many servers were created: the last one's number
  deleted,  \* the servers that were deleted, their sockets closed
  server,   \* where each server's thread stands
  stop,     \* stop_ of each server
  socket,   \* the datagrams in each server's socket
  edge,     \* whether epoll has something new to report on it
  due,      \* whether the timer of checkStopFlag() is due this round
  unopened, \* the servers whose file could not be opened
  file,     \* what is in each server's file, in its order
  lost,     \* history: what each server could not write
  pc,       \* where each caller stands
  todo,     \* what a caller wants the result of getInstance() for
  got,      \* what getInstance() returned to it
  sent      \* messages each worker has logged

instance == << uniq, lock, ready, created, deleted >>
output   == << unopened, file, lost >>
thread   == << server, stop, socket, edge, due, output >>
caller   == << pc, todo, got, sent >>
vars     == << instance, thread, caller >>

Goto(c, from, to) == pc[c] = from /\ pc' = [pc EXCEPT ![c] = to]

\* writeMessage() of server i's FileHandle, by its thread or by another.  Nobody looks at
\* what it returns: without a file, or when write() fails, the message is gone.
WriteMessage(i, message) ==
  /\ UNCHANGED unopened
  /\ \/ /\ i \notin unopened
        /\ file' = [file EXCEPT ![i] = Append(@, message)] /\ UNCHANGED lost
     \/ /\ i \in unopened \/ Cardinality(lost[i]) < MaxFailures
        /\ lost' = [lost EXCEPT ![i] = @ \cup { message }] /\ UNCHANGED file

-----------------------------------------------------------------------------
(* getInstance().  uniq_instance_ is read without the lock, once to look   *)
(* and once more to return it.                                             *)

Look(c) ==
  /\ Goto(c, "look", IF uniq = 0 THEN "lock" ELSE "return")
  /\ UNCHANGED << instance, thread, todo, got, sent >>

Acquire(c) ==
  /\ lock = {} /\ lock' = {c}
  /\ Goto(c, "lock", "check")
  /\ UNCHANGED << uniq, ready, created, deleted, thread, todo, got, sent >>

\* The constructor opens the file, and does not say when it could not.
New(c) ==
  /\ created < MaxServers
  /\ created' = created + 1
  /\ unopened' \in { unopened, unopened \cup { created + 1 } }
  /\ server' = [server EXCEPT ![created + 1] = "new"]
  /\ got' = [got EXCEPT ![c] = created + 1]
  /\ UNCHANGED << uniq, lock, ready, deleted, stop, socket, edge, due, file, lost, todo, sent >>

\* Mutant: no second look under the lock.
CheckOnce(c) == Goto(c, "check", "spin") /\ New(c)

\* pthread_create() fails, and the server that had been made is deleted at once.  Who only
\* wanted one to run can do without.
CreateMayFail(c) == todo[c] = "started" \/ "noThread" \in LogLiberties

Check(c) ==
  \/ /\ uniq # 0
     /\ Goto(c, "check", "unlock")
     /\ UNCHANGED << instance, thread, todo, got, sent >>
  \/ /\ uniq = 0
     /\ Goto(c, "check", "spin")
     /\ New(c)
  \/ /\ uniq = 0 /\ CreateMayFail(c)
     /\ Goto(c, "check", "unlock")
     /\ UNCHANGED << instance, thread, todo, got, sent >>

\* The lock is held until the new server is ready.
Spin(c) ==
  /\ ready
  /\ Goto(c, "spin", "unlock")
  /\ uniq' = got[c]
  /\ UNCHANGED << lock, ready, created, deleted, thread, todo, got, sent >>

\* Mutant: left locked.
UnlockNot(c) == Goto(c, "unlock", "return") /\ UNCHANGED << instance, thread, todo, got, sent >>

Unlock(c) ==
  /\ Goto(c, "unlock", "return")
  /\ lock' = {}
  /\ UNCHANGED << uniq, ready, created, deleted, thread, todo, got, sent >>

Return(c) ==
  /\ Goto(c, "return", todo[c])
  /\ got' = [got EXCEPT ![c] = uniq]
  /\ UNCHANGED << instance, thread, todo, sent >>

GetInstance(c) == Look(c) \/ Acquire(c) \/ Check(c) \/ Spin(c) \/ Unlock(c) \/ Return(c)

\* A call of getInstance() for purpose w.
Ask(c, from, w) ==
  /\ Goto(c, from, "look")
  /\ todo' = [todo EXCEPT ![c] = w]
  /\ UNCHANGED << instance, thread, got, sent >>

-----------------------------------------------------------------------------
(* The main thread: startLogServer(), then stopLogServer(), which is       *)
(* destroyInstance(), and again.                                           *)

Stopping == todo[Main] \in { "flag", "join" } /\ pc[Main] # "idle"

\* Nobody asks for a server beyond the last.
Room == uniq # 0 \/ created < MaxServers

Start == Room /\ Ask(Main, "idle", "started")

Destroy ==
  /\ "overlap" \in LogLiberties \/ \A w \in Workers : pc[w] = "idle"
  /\ Ask(Main, "started", "flag")

SetStopFlag ==
  /\ got[Main] \in Servers \ deleted
  /\ stop' = [stop EXCEPT ![got[Main]] = TRUE]
  /\ Goto(Main, "flag", "look")
  /\ todo' = [todo EXCEPT ![Main] = "join"]
  /\ UNCHANGED << instance, server, socket, edge, due, output, got, sent >>

\* Mutant: nobody waits for the thread.
JoinNot ==
  /\ Goto(Main, "join", "lock2")
  /\ UNCHANGED << instance, thread, todo, got, sent >>

Join ==
  /\ got[Main] \in Servers \ deleted /\ server[got[Main]] = "ended"
  /\ Goto(Main, "join", "lock2")
  /\ UNCHANGED << instance, thread, todo, got, sent >>

Lock ==
  /\ lock = {} /\ lock' = {Main}
  /\ Goto(Main, "lock2", "delete")
  /\ UNCHANGED << uniq, ready, created, deleted, thread, todo, got, sent >>

Delete ==
  /\ Goto(Main, "delete", "idle")
  /\ deleted' = deleted \cup ({uniq} \ {0})
  /\ uniq' = 0 /\ lock' = {}
  /\ UNCHANGED << ready, created, thread, todo, got, sent >>

-----------------------------------------------------------------------------
(* A worker: getLogHandle(), then log() a few times, in one round or other. *)

GetLogHandle(w) ==
  /\ "overlap" \in LogLiberties \/ ~Stopping
  /\ sent[w] = 0 /\ Room
  /\ Ask(w, "idle", "connect")

\* Where the thread stands once its socket is bound.
Bound(i) == i \in Servers \ deleted /\ server[i] \notin { "none", "new" }

CreateConnection(w) ==
  /\ Bound(got[w])
  /\ Goto(w, "connect", "log")
  /\ UNCHANGED << instance, thread, todo, got, sent >>

\* socket() or connect() fails: the worker's thread says so in the server's file, gets NULL
\* and gives up.
NoConnection(w) ==
  /\ Bound(got[w])
  /\ Goto(w, "connect", "idle")
  /\ WriteMessage(got[w], << w, 0 >>)
  /\ sent' = [sent EXCEPT ![w] = Messages]
  /\ UNCHANGED << instance, server, stop, socket, edge, due, todo, got >>

Log(w) ==
  LET i == got[w] IN
  /\ pc[w] = "log" /\ sent[w] < Messages
  /\ i \notin deleted => Len(socket[i]) < Capacity
  /\ sent' = [sent EXCEPT ![w] = @ + 1]
  /\ IF i \in deleted
     THEN UNCHANGED << socket, edge >>
     ELSE /\ socket' = [socket EXCEPT ![i] = Append(@, << w, sent[w] + 1 >>)]
          /\ edge' = [edge EXCEPT ![i] = TRUE]
  /\ UNCHANGED << instance, server, stop, due, output, pc, todo, got >>

CloseHandle(w) ==
  /\ sent[w] = Messages
  /\ Goto(w, "log", "idle")
  /\ UNCHANGED << instance, thread, todo, got, sent >>

-----------------------------------------------------------------------------
(* The server's thread: routine() and the event loop. *)

Move(i, from, to) == server[i] = from /\ server' = [server EXCEPT ![i] = to]

\* The messages of a server's own.
Hello   == << "server", 1 >>
Goodbye == << "server", 2 >>
Trouble == << "server", 3 >>

\* routine() up to setReadyToServe(), which may fail at each of its calls.
Bind(i) ==
  /\ \/ Move(i, "new", "bound") /\ UNCHANGED output
     \/ "fails" \in LogLiberties /\ Move(i, "new", "ended") /\ WriteMessage(i, Trouble)
  /\ UNCHANGED << instance, stop, socket, edge, due, caller >>

SetReadyToServe(i) ==
  /\ Move(i, "bound", "ready")
  /\ ready' = TRUE
  /\ UNCHANGED << uniq, lock, created, deleted, stop, socket, edge, due, output, caller >>

\* From here on callers may have its messages in the socket.
SayReady(i) ==
  /\ Move(i, "ready", "wait")
  /\ WriteMessage(i, Hello)
  /\ UNCHANGED << instance, stop, socket, edge, due, caller >>

\* epoll_wait() ends with a message, in time for the timer or not, or else
\* because the timer is due.
Wait(i) ==
  /\ Move(i, "wait", IF edge[i] THEN "receive" ELSE "timers")
  /\ edge' = [edge EXCEPT ![i] = FALSE]
  /\ due' \in [Servers -> BOOLEAN] /\ \A j \in Servers \ {i} : due'[j] = due[j]
  /\ due'[i] \/ edge[i]
  /\ UNCHANGED << instance, stop, socket, output, caller >>

\* Mutants: one message is read for each event; a message is not taken out.
ReceiveOne(i) ==
  /\ Move(i, "receive", "timers")
  /\ socket[i] # << >>
  /\ WriteMessage(i, Head(socket[i]))
  /\ socket' = [socket EXCEPT ![i] = Tail(@)]
  /\ UNCHANGED << instance, stop, edge, due, caller >>
ReceivePeek(i) ==
  /\ server[i] = "receive" /\ socket[i] # << >> /\ Len(file[i]) < 3
  /\ WriteMessage(i, Head(socket[i]))
  /\ UNCHANGED << instance, server, stop, socket, edge, due, caller >>

\* recvDomainSocketMessage() reads until the socket is empty.
Receive(i) ==
  /\ server[i] = "receive" /\ socket[i] # << >>
  /\ WriteMessage(i, Head(socket[i]))
  /\ socket' = [socket EXCEPT ![i] = Tail(@)]
  /\ UNCHANGED << instance, server, stop, edge, due, caller >>

ReceiveNone(i) ==
  /\ socket[i] = << >>
  /\ Move(i, "receive", "timers")
  /\ UNCHANGED << instance, stop, socket, edge, due, output, caller >>

\* Mutants: the server stops, and still calls itself ready; the loop is not left.
CheckStopFlagStale(i) ==
  LET leave == due[i] /\ stop[i] IN
  /\ Move(i, "timers", IF leave THEN "ended" ELSE "wait")
  /\ IF leave THEN WriteMessage(i, Goodbye) ELSE UNCHANGED output
  /\ due' = [due EXCEPT ![i] = FALSE]
  /\ UNCHANGED << instance, stop, socket, edge, caller >>
CheckStopFlagStays(i) ==
  /\ Move(i, "timers", "wait")
  /\ ready' = (ready /\ ~(due[i] /\ stop[i]))
  /\ due' = [due EXCEPT ![i] = FALSE]
  /\ UNCHANGED << uniq, lock, created, deleted, stop, socket, edge, output, caller >>

\* The thread ends when the loop does.
CheckStopFlag(i) ==
  LET leave == due[i] /\ stop[i] IN
  /\ Move(i, "timers", IF leave THEN "ended" ELSE "wait")
  /\ IF leave THEN WriteMessage(i, Goodbye) ELSE UNCHANGED output
  /\ ready' = (ready /\ ~leave)
  /\ due' = [due EXCEPT ![i] = FALSE]
  /\ UNCHANGED << uniq, lock, created, deleted, stop, socket, edge, caller >>

-----------------------------------------------------------------------------
Init ==
  /\ uniq = 0 /\ lock = {} /\ ready = FALSE /\ created = 0 /\ deleted = {}
  /\ server = [i \in Servers |-> "none"]
  /\ stop = [i \in Servers |-> FALSE]
  /\ socket = [i \in Servers |-> << >>]
  /\ edge = [i \in Servers |-> FALSE]
  /\ due = [i \in Servers |-> FALSE]
  /\ unopened = {}
  /\ file = [i \in Servers |-> << >>]
  /\ lost = [i \in Servers |-> {}]
  /\ pc = [c \in Callers |-> "idle"]
  /\ todo = [c \in Callers |-> "started"]
  /\ got = [c \in Callers |-> 0]
  /\ sent = [w \in Workers |-> 0]

MainStep == SetStopFlag \/ Join \/ Lock \/ Delete \/ Destroy

WorkerStep(w) == CreateConnection(w) \/ NoConnection(w) \/ Log(w) \/ CloseHandle(w)

ServerStep(i) == \/ Bind(i) \/ SetReadyToServe(i) \/ SayReady(i) \/ Wait(i)
                 \/ Receive(i) \/ ReceiveNone(i) \/ CheckStopFlag(i)

Next == \/ Start \/ MainStep
        \/ \E c \in Callers : GetInstance(c)
        \/ \E w \in Workers : GetLogHandle(w) \/ WorkerStep(w)
        \/ \E i \in Servers : ServerStep(i)

Spec == Init /\ [][Next]_vars

\* Every thread goes on with what it has begun.
FairSpec ==
  /\ Spec
  /\ WF_vars(MainStep \/ GetInstance(Main))
  /\ \A w \in Workers : WF_vars(WorkerStep(w) \/ GetInstance(w))
  /\ \A i \in Servers : WF_vars(ServerStep(i))

-----------------------------------------------------------------------------
(* Correctness. *)

\* Callers between lock and unlock, one at most, hold the mutex.
Locked == lock = { c \in Callers : pc[c] \in { "check", "spin", "unlock", "delete" } }

\* At most one server's thread runs: callers that race in getInstance() get one server between
\* them, the next round's begins after the last one's has ended, and no path leaves the mutex
\* locked (app_logger.h:281).
OneServer ==
  /\ Locked /\ Cardinality(lock) <= 1
  /\ \A i, j \in Servers :
       server[i] \notin { "none", "ended" } /\ server[j] \notin { "none", "ended" } => i = j

\* What getInstance() returned is a server that is there, with its socket bound, whatever it is
\* then used for.
Usable ==
  \A c \in Callers : pc[c] \in { "connect", "flag", "join" } => Bound(got[c])

FromSocket(message) == message[1] \in Workers /\ message[2] > 0

\* The messages of a worker are written in the order it logged them, each once, though some may
\* be missing; and those that came through the socket lie between the two messages of the
\* server's own, or behind the place of a first one that could not be written, although callers
\* may log before it has said that it is ready and after it was asked to stop.
InOrder ==
  \A s \in Servers :
    /\ \A i, j \in DOMAIN file[s] :
         i < j /\ file[s][i][1] = file[s][j][1] => file[s][i][2] < file[s][j][2]
    /\ \A i \in DOMAIN file[s] : FromSocket(file[s][i]) =>
         /\ Hello \in lost[s] \/ \E j \in 1 .. i - 1 : file[s][j] = Hello
         /\ \A j \in 1 .. i - 1 : file[s][j] # Goodbye

\* Whether a message is one of a sequence.
Among(message, seq) == \E k \in DOMAIN seq : seq[k] = message

\* A message that a worker has logged is written, unless write() failed for it or the server has
\* no file, which loses it without a word (app_logger.h:156), or the server is asked to stop:
\* epoll reports messages once, and more may come while they are being handled.
Written ==
  \A w \in Workers : \A n \in 1 .. Messages :
    LET Waits(i) == Among(<< w, n >>, socket[i]) IN
    (\E i \in Servers : Waits(i)) ~>
      \E i \in Servers : \/ Among(<< w, n >>, file[i])
                         \/ << w, n >> \in lost[i]
                         \/ Waits(i) /\ stop[i]

\* A call of startLogServer() or stopLogServer() returns, the latter with the server's thread
\* ended, and a worker's call of getInstance(), with a server or with NULL.
Returns ==
  /\ pc[Main] \notin { "idle", "started" } ~> pc[Main] \in { "idle", "started" }
  /\ \A w \in Workers : pc[w] = "look" ~> pc[w] = todo[w]

\* The file of server i as LogFile has it: opened by the constructor, or not, and complete when
\* the server is deleted.
File(i) == INSTANCE LogFile WITH
  state   <- IF server[i] = "none" THEN "new" ELSE IF i \in deleted THEN "closed"
             ELSE IF i \in unopened THEN "none" ELSE "open",
  length  <- Len(file[i]),
  durable <- IF i \in deleted THEN Len(file[i]) ELSE 0

\* Each server uses its file as LogFile allows: it writes one message at a time, none before
\* the file is begun, none when it could not be, and none after the handle is gone with what it
\* had written on the disk (app_logger.cc:218), as a FileHandle does on a descriptor other than 0.
UsesLogFile ==
  /\ \A i \in Servers : File(i)!Init
  /\ [][\A i \in Servers : File(i)!Next \/ UNCHANGED File(i)!logFile]_vars
=============================================================================
