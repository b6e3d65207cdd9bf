----------------------------- MODULE LogHandle -----------------------------
(***************************************************************************)
(* nebula::LogModule::LogHandle (include/nebula/app_logger.h,              *)
(* src/app_logger.cc): a worker's connection to the log server.            *)
(* createConnection() opens its socket, log() puts a header before a       *)
(* message and sends the two as one datagram that ends in a newline.       *)
(* The server's own messages go the same way in writeLogMessage().         *)
(* Memory and socket are those of one handle; a byte is a model value.     *)
(***************************************************************************)
EXTENDS CString

CONSTANTS
  Identities,   \* what a handle may be named
  Levels,       \* what callers pass for a level, known or not
  Texts,        \* formatted messages
  IdentitySize, \* sizeof(identity_)
  BufferSize,   \* MAX_MESSAGE_LENDTH, and sizeof(buffer) in writeLogMessage()
  PointerSize,  \* sizeof(buffer_), which is a pointer in log()
  MaxLines      \* bound on the calls of log()

Newline == "\\n"
Garbage == "?"

\* log_level_ is one of 8; a header is "[", the time, the level, the identity and
\* "]": longer than a pointer and far shorter than a buffer.
EMERG == 0
ERR == 3
DEBUG == 7
Header(level, identity) == << "[", "time", level >> \o identity \o << "]" >>

ASSUME LogHandleAssumption ==
  /\ IdentitySize \in Nat \ {0} /\ MaxLines \in Nat
  /\ PointerSize \in 1 .. 4 /\ BufferSize \in Nat /\ BufferSize > 4 + IdentitySize
  /\ Levels \subseteq Int
  /\ \A s \in Identities \cup Texts : s \in Seq(STRING \ { NUL })

VARIABLES
  handle,     \* "none", "made" or "deleted"
  log_level_, identity_,
  conn_fd_,   \* whether the handle has a socket
  buffer_,    \* whether it has a buffer
  sockets,    \* sockets that are open
  heap,       \* blocks that are allocated
  line,       \* the last datagram or line in the file, and what it was made of
  lines       \* how many there were

handleVars ==
  << handle, log_level_, identity_, conn_fd_, buffer_, sockets, heap, line, lines >>

NoLine == [by |-> "none", level |-> 0, text |-> << >>, header |-> << >>, bytes |-> << >>]

HandleInit ==
  /\ handle = "none" /\ log_level_ = EMERG /\ identity_ = << >>
  /\ conn_fd_ = FALSE /\ buffer_ = FALSE
  /\ sockets = {} /\ heap = {}
  /\ line = NoLine /\ lines = 0

\* What snprintf() and vsnprintf() leave in a buffer: the text as far as it fits
\* with its terminator.
Printed(size, text) ==
  [k \in 1 .. size |-> IF k < size /\ k <= Len(text) THEN text[k]
                       ELSE IF k = size \/ k = Len(text) + 1 THEN NUL ELSE Garbage]

\* Mutant: a cut line is as long as the buffer, terminator included.
LineOverrun(size, limit, header, text) ==
  LET buf == Printed(size, header \o text)
      len == IF Len(text) >= size - Len(header) THEN size ELSE Len(header) + Len(text)
  IN  IF len < limit /\ buf[len] # Newline THEN Append(SubSeq(buf, 1, len), Newline)
      ELSE SubSeq(buf, 1, len)

\* The bytes sent of a buffer of that size: what was cut is taken to be limit - 1
\* bytes long, which is for log() the size of a pointer less one.
Line(size, limit, header, text) ==
  LET buf == Printed(size, header \o text)
      len == IF Len(text) >= size - Len(header) THEN limit - 1
             ELSE Len(header) + Len(text)
  IN  IF len = limit - 1 \/ buf[len] # Newline THEN Append(SubSeq(buf, 1, len), Newline)
      ELSE SubSeq(buf, 1, len)

\* What LogServer::writeLogMessage() does, whatever there is of handles.
ServerWrites(level, text) ==
  /\ lines < MaxLines /\ lines' = lines + 1
  /\ LET header == Header(level, << "S" >>) IN
     line' = [by |-> "server", level |-> level, text |-> text, header |-> header,
              bytes |-> Line(BufferSize, BufferSize, header, text)]

writeLogMessage(level, text) ==
  /\ ServerWrites(level, text)
  /\ UNCHANGED << handle, log_level_, identity_, conn_fd_, buffer_, sockets, heap >>

\* Mutant: a socket that could not be connected stays open.
Abandoned(fds) == fds

\* close(conn_fd) after connect() failed.
Closed(fds) == fds \ { "conn" }

\* LogServer::createConnection(): socket(), connect(), and a handle with both; or NULL, and
\* the server writes a message of its own.
createConnection(identity, level) ==
  /\ handle = "none"
  /\ \/ /\ handle' = "made" /\ conn_fd_' = TRUE
        /\ sockets' = sockets \cup { "conn" } /\ heap' = heap \cup { "handle" }
        /\ log_level_' = level
        /\ identity_' =
             Text(strlcpy([k \in 1 .. IdentitySize |-> NUL], identity, IdentitySize).buf)
        /\ UNCHANGED << line, lines >>
     \/ /\ \/ sockets' = sockets                                \* socket() fails
           \/ sockets' = Closed(sockets \cup { "conn" })         \* connect() fails
        /\ \E text \in Texts : ServerWrites(ERR, text)
        /\ UNCHANGED << handle, conn_fd_, heap, log_level_, identity_ >>
  /\ UNCHANGED buffer_

setLogLevel(level) ==
  /\ handle = "made"
  /\ log_level_' = IF EMERG <= level /\ level <= DEBUG THEN level ELSE log_level_
  /\ UNCHANGED << handle, identity_, conn_fd_, buffer_, sockets, heap, line, lines >>

\* The buffer is allocated before the level is looked at.
log(level, text) ==
  /\ handle = "made" /\ lines < MaxLines
  /\ \/ ~buffer_ /\ UNCHANGED << buffer_, heap, line, lines >>     \* malloc() fails
     \/ /\ buffer_' = TRUE /\ heap' = heap \cup { "buffer" }
        /\ IF level > log_level_ THEN UNCHANGED << line, lines >>
           ELSE /\ lines' = lines + 1
                /\ LET header == Header(level, identity_) IN
                   line' = [by |-> "log", level |-> level, text |-> text, header |-> header,
                            bytes |-> Line(BufferSize, PointerSize, header, text)]
  /\ UNCHANGED << handle, log_level_, identity_, conn_fd_, sockets >>

\* The destructor, and the handle's own memory.
deleteHandle ==
  /\ handle = "made" /\ handle' = "deleted"
  /\ sockets' = IF conn_fd_ THEN sockets \ { "conn" } ELSE sockets
  /\ heap' = (IF buffer_ THEN heap \ { "buffer" } ELSE heap) \ { "handle" }
  /\ UNCHANGED << log_level_, identity_, conn_fd_, buffer_, line, lines >>

HandleNext ==
  \/ \E identity \in Identities, level \in Levels : createConnection(identity, level)
  \/ \E level \in Levels : setLogLevel(level)
  \/ \E level \in Levels, text \in Texts : log(level, text) \/ writeLogMessage(level, text)
  \/ deleteHandle

-----------------------------------------------------------------------------
(* Properties. *)

\* Every message becomes one line that ends in a newline and that the server receives whole:
\* the message behind its header if the two fit with a terminator, and nothing beyond what was
\* printed. Of what does not fit the server's own line keeps as much as its buffer has room
\* for; log() keeps the beginning of the header, as long as a pointer, and none of the
\* message (app_logger.cc:152). The header's identity was cut to its array.
LinesExact ==
  line # NoLine =>
    LET whole == line.header \o line.text
        n     == Len(line.bytes)
        fits  == Len(whole) < BufferSize
        First(s, m) == Append(SubSeq(s, 1, m - 1), Newline)
    IN  /\ n <= BufferSize /\ line.bytes[n] = Newline
        /\ fits => line.bytes \in { whole, Append(whole, Newline) }
        /\ ~fits /\ line.by = "server" => line.bytes = First(whole, BufferSize)
        /\ ~fits /\ line.by = "log" => line.bytes = First(line.header, PointerSize)
        /\ line.by = "log" => Len(line.header) < 4 + IdentitySize

\* A handle that was deleted, or never made because a call failed, has left nothing open
\* and nothing allocated.
HandleFreed == handle # "made" => sockets = {} /\ heap = {}
=============================================================================
