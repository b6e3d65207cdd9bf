# libnebula: TLA+ models, checks and proofs

libnebula is a small C++ library of building blocks for servers: an event loop
on epoll, a thread class, a producer/consumer queue, a log server, and a number
of utilities.  This directory holds TLA+ models of its stateful parts, the TLC
configurations that check them on small instances, and TLAPS proofs of what
matters most for every size.  Paths below are relative to the repository; the
library's headers are in `include/nebula/`, its sources in `src/`.

## 1. Inventory

| Part | State | Operations | Interacts with | What is hard |
|---|---|---|---|---|
| **AsyncEvent**, descriptors (`async_event.h`) | table of `AsyncFdEventInfo` (interest, pending events, callbacks), list of ready descriptors, two counters, the kernel's epoll set | `addFdEvent`, `delFdEvent`, `removeFd`, `processReadyFds`, `processFdEvents` | user callbacks call back into it; the kernel, edge-triggered | callbacks rearrange the list a loop stands in; a forgotten event is never reported again |
| **AsyncEvent**, timers | unordered array of timers, count, last id | `addTimeEvent`, `delTimeEvent`, `processTimeEvents` | time callbacks; the clock | callbacks move the entry a scan stands on |
| **AsyncEvent**, loop | `stop_` | `eventLoop`, `start`, `stop` | both halves | how long to sleep; leaving; `int64_t` to `int` |
| **AsyncEvent**, set-up | epoll descriptor, four arrays | constructor, `initialize`, destructor | LogServer | each of five calls may fail |
| **Thread** (`thread.h`) | stop flag, thread id | `create`, `join`, stop flag, start/exit handlers, `cancel`, `kill` | base class of producers, consumers, log server | stop flag set at any time; `pthread_create()` fails |
| **ProducerAndConsumer** (`producer_consumer.h`) | queue under a mutex; each thread's tasklet in hand | push, pop, `execute`, the two loops and routines, `~Queue` | Thread; subclasses override `routine()` | each tasklet exactly once, with exactly one result; termination |
| **LogServer** (`app_logger.h`, `app_logger.cc`) | singleton pointer, its mutex, ready flag, server thread, socket | `getInstance`, `destroyInstance`, `createConnection`, `routine` and its callbacks | Thread, AsyncEvent, FileHandle; clients over a datagram socket | double-checked locking, waiting with the lock held, messages against stop |
| **LogHandle** | connection, buffer, level, identity | `log`, `setLogLevel`, destructor | LogServer | cutting a message that does not fit |
| **FileHandle** | descriptor, path and its directory's length, write count | `setConfig`, `writeMessage`, `fsyncToDisk`, `switchFile` | LogServer; String for its paths; the file system | names rebuilt in place; fsync by a count that wraps; failing `mkstemp` |
| **AsyncIo** (`async_io.h`, `async_io.cc`) | the process's descriptor table | `pipe2`, `accept4`, eight functions that make sockets | system calls; all threads, through descriptor numbers | clean-up on each failure, while other threads get the numbers it frees |
| **Histogram** | buckets, min, max, sum, count | `add`, `merge`, `clear` | - | boundaries, `clear` against constructor |
| **TextFileParser, Tokens** | line buffer, file; token array, capacity | `splitString`, `saveTokenAddr`, `parseLineByLine` | files; the caller's function | growth and its failure in the middle of a file |
| **FileSystem** (`file_system.cc`) | path buffer of one traversal | `fileTreeTraversal` | String; the caller's function; whoever removes files | entries vanish; paths rebuilt in one buffer |
| **HardwareInfo** | five static values, a `pthread_once_t` | getters, the two parsers | `/proc`; all threads | who asks first; calls that fail half-way |
| **Time, StopWatch** (`time.h`) | start, stop and two flags; message buffer | time stamps, `msSleep`, `start`, `stop`, `reset`, `message` | the clock, signals | borrowing, rounding, interruption, re-use |
| **String, Endian, LogLevel** | none | `strlcpy`, `strlcat`, `strToI64`, `strToU64`; byte swaps; level masks | - | truncation, overflow, saturation |
| Random, Mutex, macros | little or none | wrappers | system calls | not modelled, see section 8 |

What makes each part correct:

- *Descriptors*: the ready list is exactly the set of pending descriptors;
  `num_monitored_fds_` is the number monitored, and these are epoll's; what is
  dispatched has a callback, none is called twice in a scan, and each pending event is
  eventually handed over.  Where the code hands over an event of a mask or a registration
  that is gone, section 4 shows it.
- *Timers*: none is lost, duplicated or called early by what happens to another;
  each due timer is called.
- *Loop*: it never sleeps past a timer that is within an `int`'s reach, and on nothing at
  all only if a callback has just removed the last thing to wait for; `stop()` gets it out.
- *Producer/consumer*: every tasklet is in exactly one place, is told what its own
  `process()` returned and nothing else, in order, and threads end.
- *Log server*: one server at a time, usable whenever `getInstance()` returns it;
  messages written once, in order, between the server's first and last words, or lost to a
  failure of `open()` or `write()`; every call returns; the file is used as a file handle allows.
- *Log file*: one descriptor at most, files in their directory, the last file closed and on
  disk when the handle is gone (but for a file on descriptor 0).
- *Messages*: each is one line with all of the message if that fits, and otherwise with exactly
  as much as the code keeps.
- *Parser*: the callback gets each line once, in order, with its own words; no
  write outside the token array, but for one through NULL when `malloc()` failed; the file is
  closed.
- *Sockets, set-up, traversal*: whatever call fails, what was opened is closed, once,
  and nothing else is; success means that everything asked for is set.
- *Histogram*: buckets and sums are those of the values added and merged.
- *Time*: a sleep that was interrupted adds up; a stop watch shows what passed.
- *HardwareInfo*: all threads are told the same, and what the files say.
- *Functions*: they cut, terminate, saturate and swap as documented.

The full list of hazards, each at its line, is in `PROJECT.json`.

## 2. Modules

| Module | Models | Extends / instantiates |
|---|---|---|
| `FdEvents` | AsyncEvent's descriptor half | |
| `TimerSet` | abstract: what the time half promises | |
| `TimeEvents` | AsyncEvent's time half | `Timers == INSTANCE TimerSet WITH ...` |
| `EventLoop` | the whole object | extends `FdEvents` and `TimeEvents` |
| `AsyncEventProofs`, `EventLoopProofs` | theorems about the two halves, and about the whole | `FdEvents` and `TimeEvents`; `EventLoop` and the former |
| `EventSetup` | an AsyncEvent's construction, `initialize()` and destruction | |
| `ProducerConsumer` | queue, tasklets, producer and consumer threads | |
| `LogFile` | abstract: what a log file promises its user | |
| `FileHandle` | the log file | extends `CString`; `Promised == INSTANCE LogFile WITH ...` |
| `FileHandleProofs` | theorems | extends `FileHandle` |
| `ProducerConsumerProofs`, `LogServerProofs`, `TextFileParserProofs` | theorems | extend the module each is about |
| `LogServer` | the log server's life, its callers and clients | `File(i) == INSTANCE LogFile WITH ...` |
| `LogHandle` | a client's connection and the lines it sends | extends `CString` |
| `CString` | `strlcpy`, `strlcat`, `endsWith` as operators on buffers | |
| `Numbers` | number parsing, byte order, level masks | |
| `TextFileParser` | the parser and its tokens | |
| `Histogram` | histograms, added to, merged and cleared | |
| `AsyncIo` | pipes and sockets, system call by system call | |
| `FileTree` | `fileTreeTraversal()` | extends `CString` |
| `HardwareInfo` | the parse-once getters | |
| `StopWatch` | time stamps, `msSleep()`, the stop watch | |
| `MCLibrary` | the classes that keep to themselves, one at a time | extends them |
| `ValueProofs` | lemmas about `StopWatch`, `Histogram`, `HardwareInfo` and `Numbers` | extends these and `FileHandleProofs` |
| `LibraryProofs` | theorems about all classes of `MCLibrary` but the file and the parser | extends `MCLibrary` and `ValueProofs` |
| `MC...` | values of constants for TLC | extend the module of that name |

`PROJECT.json` maps each definition to the lines it stands for.

### FdEvents

One variable per field of the object: `monitored`, `fired`, `proc`, `procExp`
are the fields of each `AsyncFdEventInfo`; `readyList`, `numReady`,
`numMonitored` the object's; `registered` the kernel's set.  The object belongs
to one thread, so the concurrency is re-entrancy: a callback is split into its
begin (`CallReady`, `Dispatch`), any number of calls (`FdCall`), and its return
(`ReturnReady`, `ReturnFd`, `ReturnErr`) with any mask.  `phase`, `idx`, `cur`,
`curEvents` and `batch` are the local variables of the two loops.  The batch is a
function from descriptors to events, as epoll reports each descriptor once; the
order in which it is dispatched is arbitrary.  `stale` and `served` are history
variables: they appear in no guard.  A call that fails changes nothing (the code
restores the entry it had saved), and is a stuttering step.

The code relies on its callers for five things it neither checks nor, for the
most part, documents.  Each is a clause of a contract, and a name in the constant
`Liberties` means that callers do not keep it:

| Clause | If it is broken |
|---|---|
| `dropInReady` | `num_ready_fds_` drops twice, or another descriptor's entry goes (run `FdSelfRemoval`) |
| `readdInReady` | the entry at `idx` is taken for the new registration's |
| `dropPending` | an event is dispatched through a zeroed or a newer entry (run `FdStaleBatch`) |
| `emptyMask` | a descriptor is counted and registered that `removeFd()` does not see: `CountExact` fails |
| `closeFirst` | the kernel forgets a descriptor that is still counted: `CountExact` fails |

Adding the name to `Liberties` in a configuration makes TLC show the trace.

Two things that one might expect of callers are not in the contract, so that every run
includes them: to delete an event that is pending, and to remove the last descriptor from a
callback of `processReadyFds()`.  `delFdEvent()` leaves `already_fired_` alone, and
the callback is handed the deleted event once more (run `FdDeletedFired`); `DeletedForgotten`
states that it is forgotten then.  The loop may fall asleep on an empty epoll set:
`NoEndlessSleep` states that this is the only way there.

### TimeEvents and TimerSet

`slots`, `used` and `lastId` are `time_event_list_`, `used_time_events_` and
`last_time_event_id_`; `ti`, `tnow`, `firing` the locals of
`processTimeEvents()`.  Removal copies the last entry over the removed one
(`CopyLast`).  `live`, a history variable, is the set of timers created and neither
deleted nor finished.  Two clauses: `deleteSelf` (a callback deletes its own
timer, run `TimeDeleteSelf`) and `deleteLast` (the callback of the last entry
deletes another one, with the same effect).

`TimerSet` is the abstract specification: a function from timers to due times,
in which what happens to one timer touches no other.  `Armed` is the refinement
mapping: it looks an identifier up in the part of the array that is in use.

### EventLoop

`eventLoop()` as a program counter over the two halves: `Iterate` (the loop's
condition and `processReadyFds()`), `Sleep` (computes the timeout, with the cast
of `int64_t` to `int` modelled as `CastInt`), `Woken`/`TimedOut`,
`FdEventsFired`, `TimesUp`, `TimeEventsDue`, `Again`.  Calls come from the owner
while the loop is not running and from callbacks of either kind.  A timer's delay is any
number, as `ms_later` is a `uint32_t`: with one that does not fit an `int` the timeout is
negative, and the thread `Unwakeable` until some event or signal comes.

### EventSetup

`initialize()` makes five things in a fixed order and stops at the first that fails;
`members` are the fields that hold one, `acquired` what the system has given out.

### ProducerConsumer

`routine()` is virtual and the library's consumer routine does not work (section
4), so threads come in two kinds: those in `Plain` run the routines of the
library, the others the overriding ones of `test/producer_consumer_t.cc`, with
its two shared variables (`active`, `ready`).  Each queue operation is one step:
it holds the mutex throughout and waits for nothing.  `Batch` is the `limit` argument
of each thread's loop and `count` how far it has come.  What `process()` returns is
the constant `Outcome`.  `reports` is the history of `reportResult()`; `Told` says what of it an
outcome gives, which for `NOT_AVAILABLE` is two reports.  The owner
creates threads, sets stop flags whenever it likes, joins, and destroys the queue.

### LogServer, LogFile

Callers go through `getInstance()` read by read (`Look`, `Acquire`, `Check`,
`Spin`, `Unlock`, `Return`), as the pointer is read twice without the lock.  The
main thread then does `destroyInstance()` step by step; workers connect and log, or
fail to connect, which is written to the server's file from the worker's thread.
The server's thread binds, becomes ready, says so, and takes turns between its socket
and its timer, with epoll's edge as a flag that a message sets and a wait clears.
Between becoming ready and saying so callers may already log.  The constructor may be unable
to open the file (`unopened`) and any `write()` may fail, up to `MaxFailures` for each server;
nobody looks at what `writeMessage()` returns, and such a message is only in the history
variable `lost`.

| Clause | If it is broken |
|---|---|
| `overlap` | workers use a server that is being stopped: they meet a deleted one (`Usable` fails) |
| `fails` | `routine()` fails: `getInstance()` never returns (run `LogInitFails`) |
| `noThread` | `create()` fails for a caller that uses what it gets: NULL (`Usable` fails) |

`LogFile` is what lies between the server and its file: messages go to one file at a
time, some of them are on the disk for certain, and all are when the handle is gone.  What a
`FileHandle` has on descriptor 0 is in the state `unforced`, in which messages are written but
never forced to disk, and then `left`, not closed.
`FileHandle` is shown to implement it, and each server to use its file by it, so
that the two modules compose without being checked in one state space.

### CString, FileHandle

A C string is a sequence, a buffer a sequence of bytes with `NUL`.  The operators
return the buffer afterwards and the value returned.  `FileHandle` builds its paths with
them: a file's name is its directory, a separator, and `Basename`, which is one
character for prefix and time and one for the six X that `mkstemp()` replaces.
A name that was cut lacks the X, and `mkstemp()` fails.  The variables with a trailing
underscore are the object's fields; `created`, `name`, `unclosed`, `written` and `synced` are
the operating system's view: every file opened, and what of it is on disk for certain.
A file that is opened gets any number of `Descriptors`, 0 among them, as it does in a process
without a standard input: `writeMessage()` takes 0 for a file, `fsyncToDisk()` and the destructor
do not.
`max_write_` is the constant 0, as no code sets it.  In the refinement of `LogFile` a
message counts if it goes to a file and not to the terminal.

### LogHandle

`Printed` is what `snprintf()` and `vsnprintf()` leave in a buffer, `Line` how many of
these bytes `log()` and `writeLogMessage()` then take and where they put the newline.
`limit` is the size each of the two uses to cut: that of the array, or that of a pointer.
`createConnection()` opens the socket, closes it again when `connect()` fails, and then writes to
the server's file what has failed.
A header is the time, level and identity, one byte each but for the identity's.

### TextFileParser

`parseLineByLine()` as a program counter (`at`), one step per line read, word
saved and call of the callback.  A line is its number of words, a pointer the pair of
the line and the word it points to, so that a pointer into an overwritten line
shows.  `capacity` is what is really allocated, `max_tokens_` what the object
believes.  `Failures` names the calls that may fail.  When `malloc()` gives no array, the line
counts as empty (`unmade`), and the first word of the next line that has one is stored through
NULL (`at` becomes `crashed`): `InsideArray` states that this is the only write outside the
array, and `Due` leaves the unmade line out of what the callback is owed.

### Histogram

The table of thresholds is a constant, any increasing sequence from 0 to the
largest value; `Search` is the binary search with `mid` where the loop leaves it.
`added`, a history variable, says how often each value is among those a histogram stands for.
`clear()` sets `min_` to 0, the constructor to the largest value, so that `fresh`
keeps the histograms whose minimum means something.

### AsyncIo

A function is the sequence of the system calls it makes (`Steps`), a thread in it the
part that is left.  Each may fail, and then what is left is `CleanUp`.  `table` is the
process's: a new descriptor gets the lowest free number, so one that a function has
closed may be another thread's before it goes on, and to close it again would close that
one.  `AsAsked` compares what a caller holds with what it had asked for.

### FileTree, HardwareInfo, StopWatch, Numbers

`FileTree` keeps the traversal's one buffer as bytes, as `PathOf` writes each name over
the last; entries come in any order and may be gone before `lstat()`.  A folder may be as
long as the buffer but for its terminator: then `strlcat()` says that the separator would have
needed one byte more, and the code stores a terminator there, behind the buffer (`outside`).
`HardwareInfo` takes the lines of the two files as constants, each by what it is
about, its value and its unit; `pthread_once()` is the variable `once`, which one of the
threads that ask moves on.  `StopWatch` has one unit of time for the clock's
microseconds and `nanosleep()`'s nanoseconds, with `Ms` units in a millisecond and `Sec`
milliseconds in a second, and a clock that may be set.  `Numbers` makes
one call and keeps its answer: words have `Width` bits and bytes `Base` values.

### MCLibrary

The classes that no other thread or class gets in the way of share one run: `class`
says whose turn it is, and the variables of all others stay as they were
constructed.  It also gives the functions of `CString` a buffer and calls them in a row.

## 3. Passing runs

| Run | Instance | Shows |
|---|---|---|
| `FdContract` | 2 descriptors, one of them for both events, or 3 with one event each, fair | tables and counters exact through every interleaving of calls with both loops (`ReadyExact`, `CountExact`), also where entries in the middle of the list move; `CallbackSet`; no descriptor served twice in a scan (`OncePerScan`) or passed over for ever (`PendingCalled`); a deleted event is forgotten (`DeletedForgotten`) |
| `Loop` | 2 descriptors, 1 timer slot and `stop()`, or 3 slots and 3 timers, a delay above `IntMax` among theirs, fair | the array of timers is exact (`LiveExact`, `OwnEntry`) and refines `TimerSet` (`ImplementsTimerSet`); `NoOversleep`, `NoEndlessSleep`; `DueTimerFires`, `PendingServed`, `StopLeaves` |
| `PCMixed` | 2 producers, 2 consumers, one plain of each, 3 tasklets, a loop with a limit, fair | `OnePlace`, `OneResult`, `InOrder`, `Ends` |
| `LogServer` | 1 worker with 3 messages, a socket for 2, 2 servers in succession, each file missing or with up to 2 failing `write()`s, fair | `OneServer`, `Usable`, `InOrder`, `Written`, `Returns`, `UsesLogFile` |
| `Library` | the other classes, one chosen at the start | see below |

The properties of `Library`:

| Property | Of | Says |
|---|---|---|
| `OneOpen`, `LastFileSynced`, `InDirectory` | FileHandle | one file open at most, none but one on descriptor 0 when the handle is gone; the last file on disk then, unless on descriptor 0; names are whole |
| `ImplementsLogFile` | FileHandle | every step is one of `LogFile`'s |
| `InsideArray`, `LinesDelivered` | TextFileParser | no write outside the array but the one through NULL after a failing `malloc()`; each line that is due once, in turn, with its own words |
| `HistogramExact` | Histogram | buckets, sums and extremes are those of the values |
| `LinesExact` | LogHandle | a message that fits is one whole line; of one that does not, what the server and what `log()` keep, byte for byte |
| `TimesAsDocumented` | Time, StopWatch | time stamps, interrupted sleeps, measured times, the message's buffer |
| `EntriesVisited` | FileSystem | every entry under its own path, never a dot; the buffer is left only for a folder as long as it |
| `NothingLeft` | AsyncIo, AsyncEvent, LogHandle, FileSystem | each resource has one owner (`OneOwner`), is as asked for (`AsAsked`), and is given back after a failure and at the end (`SetupFreed`, `HandleFreed`, `StreamClosed`) |
| `AsReference` | String, Endian, LogLevel, HardwareInfo | the functions against definitions that do not follow their loops (`CutAsDocumented`, `ParsedExactly`, `OrderedInMemory`, `MasksAdd`, `HardwareAsRead`) |

Every property of every run has a mutant in `PROJECT.json`: a plausible bug in a
modelled definition under which TLC reports that property violated.

## 4. Runs that show a disagreement

| Run | What the source says | What the code does |
|---|---|---|
| `FdSelfRemoval` | the test at `async_event.h:568` is there "in case this `fd' was already removed by the callback function" | removed as the last entry, it is still found there, and the count drops twice |
| `FdStaleBatch` | `removeFd()` "Stops monitoring all future events" (251) | an event already fetched is still dispatched, through a zeroed or a newer entry |
| `FdDeletedFired` | `delFdEvent()` "Stops monitoring events `mask' on `fd'" (194) | an event that is pending is handed to the callback although it was deleted |
| `LoopOversleeps` | `addTimeEvent()` "Creates a time event that will be triggered `ms_later' milliseconds later" (291) | with more milliseconds than an `int` holds the timeout is negative, and the loop sleeps until something else happens |
| `TimeDeleteSelf` | `delTimeEvent()` "Removes a previously created time event" (315) | deleted by its own callback, it takes another timer with it |
| `PCLibrary` | the consumer is to "Fetch tasklet ... then execute" (`producer_consumer.h:278`) | `while (getStopFlag())` lacks its negation: it leaves at once |
| `LogInitFails` | `getInstance()` returns "NULL if error" (`app_logger.h:273`) | if `routine()` fails it waits for ever, with the lock held |

Met on the way and not given a run:

- *AsyncEvent.*  A callback of `processReadyFds()` that removes the last descriptor, with no
  timer set, leaves the loop asleep on an empty epoll set (`NoEndlessSleep`).  Readiness is sticky, as `guess |= already_fired_` keeps a descriptor listed
  until its event is deleted.  `stop()` in a callback of `processReadyFds()` is
  followed by a full sleep.
- *Producer/consumer.*  The test's consumers may all leave with the last tasklets still in
  the queue.  `NOT_AVAILABLE` falls through into `SUCCESS`, and both are reported (`OneResult`).
- *FileHandle.*  The frequency given to `setConfig()` is never used; a file that
  `switchFile()` leaves is closed without `fsync()`.  A file on descriptor 0 is written, but never
  forced to disk, nor closed by the destructor (`OneOpen`, `LastFileSynced`).
- *LogHandle.*  `log()` cuts a message that is too long to `sizeof(buffer_) - 1`, a
  pointer's size (`app_logger.cc:152`): the line is 7 bytes of header and a newline, with nothing
  of the message.  `LinesExact` states it; it is no run, as no comment says how much of a message
  that is cut is kept.
- *LogServer.*  Two callers of `destroyInstance()` may delete what neither of them stopped.
  A message whose `write()` fails, or whose server has no file, is lost without a word (`Written`).
- *AsyncIo.*  `unixTcpServer()` never listens.
- *StopWatch.*  `message()` loses its last character when the buffer has just grown to fit.
- *HardwareInfo.*  `MemTotal` without a "k" is multiplied by 2^20 for the M in its own
  name, and a capital K is not recognised in `/proc/meminfo`, where 'k' is looked for twice.
- *FileSystem.*  An error of `readdir_r()` is taken for the end of the directory; a path that
  was cut may name another entry; for a folder of 4095 characters without a final slash a
  terminator is written behind the buffer (`file_system.cc:53`, `EntriesVisited`).
- *String.*  `strToI64()` and `strToU64()` saturate what `strtol()` cannot represent but
  let the product with the suffix wrap.
- *Others.*  `Histogram::clear()` leaves a minimum of 0; the first failing allocation of
  `Tokens` loses the words of its line and is followed by a write through NULL in the next
  (`InsideArray`, `LinesDelivered`); an error of `getline()` is taken for the end.

## 5. Bounds

- *Table sizes 2 and 3.*  The hazards need the descriptor being served, another
  that is dropped and the last one that is moved: three are the least for these to be
  distinct, and two reach every case in which some coincide.
- *Masks.*  READABLE and WRITABLE show partial deletion, which one descriptor is enough
  for; with three descriptors one event is enough for the list.  `Interests`, in `MCFdEvents`,
  are these two choices, of which each behaviour makes one at the start.
- *Usages.*  A behaviour of `Loop` has two descriptors, one timer at a time and `stop()`, or
  the full array of timers and no descriptors (`Usages` in `MCEventLoop`): the halves meet in the
  first, timers rearrange each other in the second.
- *`LeakBound`* caps registrations with an empty mask.
- *Timers.*  Three slots for the same reason as three descriptors; three timers fill them,
  and a fourth that would use a slot again does so in `TimeDeleteSelf` (`MaxId`).  Delays 1 and 2
  and a clock to 2 (`MaxTime`) give timers that are due, next and later.  At `MaxTime` any
  finite sleep may end, so that none is cut off by the bound.
- *`IntMax = 1`* stands for the largest `int`: the delay of 2 does not fit it, and is cast to -2.
- *Tasklets.*  Two of one producer (order) and one of another, ending with
  `NOT_AVAILABLE`, `FAILED` and `SUCCESS`.
- *Servers.*  Two in succession (`MaxServers`), so that flags left by the first
  meet the second; `Room` keeps callers from asking for a third.  `Capacity` 2
  lets the socket hold several messages and be full, as there are three.  One worker and the main
  thread race in `getInstance()`.  Two failures of `write()` (`MaxFailures`) hit any two messages,
  the server's own among them.

- *Log files.*  Three files of up to three messages with a counter of modulus 3
  (`Modulus` for 2^32), so that it wraps within a file and across a switch; a path
  of 6 bytes, in which one of the four directories leaves too little for a name; descriptors 0 and 3.
- *Lines.*  Up to three lines of up to three words, empty ones first and in the middle,
  and hints 1 and 2: the array grows in the first line, in a later one, twice in one.
- *Histograms.*  Two, with 5 zones over 0..7 and all boundary values; sums wrap at 8.
- *Strings.*  A buffer of 4 bytes, strings up to 4, every size from 0 on, two calls in a row.
- *Messages.*  Texts of up to 5 bytes with newlines anywhere, a buffer of 9 and an identity
  array of 3, so that a text fits, fits but for its newline, and is cut, each with
  a header that was cut itself or not; one message, as none depends on the one before.
- *Descriptors of AsyncIo.*  A table of 2 and two threads: a pipe fills it, so that `EMFILE` and
  the re-use of a number by the other thread happen between any two calls.
- *Numbers.*  Words of 5 bits with values well beyond both ends, suffixes that are a power of
  the word's base and ones that are not; byte swaps of 2 and 4 bytes with three values each,
  all words.
- *Clock.*  Two units to a millisecond and two of these to a second: borrowing and carrying both
  happen within 6 units, and a sleep of 3 milliseconds spans both.
- *Directories.*  Five paths, with and without a final slash, of which one has room for the
  separator only and one not even for that, and five entries, of which one does not fit behind the
  longest of the others.

`CHECK_DEADLOCK FALSE` is set in the runs of `ProducerConsumer`, `LogServer` and `MCLibrary`,
where the program ends: the queue is gone, all workers are done and no server is
left to create, an object is destroyed, or the bounds on calls are reached.
No symmetry is used, as several runs check liveness.

## 6. Fairness

Weak fairness on a thread's own steps, the return of its callbacks among them: a
thread is scheduled and user code returns.  In `EventLoop`, also on time passing.  In
`ProducerConsumer`, on the owner creating and joining threads; in `LogServer`, on
all that each caller has begun, as one thread.  Never on events, signals, calls by the owner, stop
flags or new requests.

## 7. Proofs

All theorems hold for every value of the constants, under the named assumptions
of the modules.  Where callers have to keep a contract, a theorem names the clauses it
needs and no others.

| Module | Theorem | States | Needs |
|---|---|---|---|
| `AsyncEventProofs` | `ReadyListExact` | `ReadyExact` | `dropInReady`, `readdInReady` |
| | `MonitoredCount` | `CountExact` | `emptyMask`, `closeFirst` |
| | `TypeCorrect` | no index leaves its array | these four |
| | `CallsASetCallback` | `CallbackSet` | the first two and `dropPending` |
| | `EachCalledOnce` | `OncePerScan` | the first two |
| | `NothingReadyLeft` | `NoneReadyWhenNoneMonitored` | the first four |
| | `NoTimerLost`, `OwnEntryKept`, `TimeTypeCorrect` | `LiveExact`, `OwnEntry`, types | both clauses of the time half |
| | `ArrayIsTimerSet` | `ImplementsTimerSet` | the same |
| `EventLoopProofs` | `LoopReadyExact`, `LoopNoTimerLost` | the halves' theorems, of the loop | those theorems' clauses |
| | `NeverOversleeps` | `NoOversleep`, whatever the delays | the time half's clauses |
| | `NeverSleepsForNothing` | `NoEndlessSleep` | nothing |
| `ProducerConsumerProofs` | `EachInOnePlace`, `ProducersInOrder`, `OneResultEach` | `OnePlace`, `InOrder`, `OneResult` | nothing |
| `LogServerProofs` | `OneServerAtATime`, `ReturnedIsUsable`, `WrittenInOrder` | `OneServer`, `Usable`, `InOrder` | all clauses |
| | `ServerUsesLogFile` | `UsesLogFile` | all clauses |
| `FileHandleProofs` | `NoDescriptorLost`, `LastFileOnDisk` | `OneOpen`, `LastFileSynced` | nothing |
| | `HandleKeepsPromises` | `ImplementsLogFile` | nothing |
| | `FilesInDirectory` | `InDirectory` | nothing |
| `TextFileParserProofs` | `NeverOutside`, `EveryLineDelivered` | `InsideArray`, `LinesDelivered` | nothing |
| `LibraryProofs` | `EachDescriptorOwned`, `NothingStaysBehind` | `OneOwner`, `NothingLeft` | nothing |
| | `EveryEntryVisited`, `EveryLineExact` | `EntriesVisited`, `LinesExact` | nothing |
| | `TimesAlwaysRight` | `TimesAsDocumented` | nothing |
| | `HistogramsExact` | `HistogramExact` | nothing |
| | `CutsAsDocumented` | `CutAsDocumented` | nothing |
| | `FunctionsAsReference` | `AsReference` | that units are the kernel's (`KernelUnits`), for `HardwareInfo` |

How the arguments go:

*`AsyncEventProofs`, descriptors.*  `ReadyExact` is not inductive: when a callback returns,
whether the list stays exact depends on what stands at `idx`.  The invariant `ReadyInv` adds types,
`OwnSlot` (the entry at `idx` is the running callback's, or the callback dropped it
and the entry is recognisably another) and what `processFdEvents()` knows of the
batch's descriptor.  `KeepsList` names the two clauses.  `MonitoredCount` is a
separate and simpler invariant that needs two other clauses (`KeepsCount`).
The later theorems each add one fact to `ReadyInv`: that what is pending has something monitored
and what is monitored has a callback (`PendingHasCall`), that what is in the fetched
batch is monitored, that what was called in this scan lies before `idx`.

*`AsyncEventProofs`, timers.*  All from one invariant, in which `OwnEntry` is what makes re-arming
and removal hit the right entry.  For the refinement of `TimerSet`, each step's effect on
`Armed` is computed: moving the last entry changes where a timer stands and not when it
is due.

*`EventLoopProofs`.*  Each step of the loop is one of each half's or leaves it alone (two
lemmas), so that the theorems above hold of the whole object.  `NeverOversleeps` rests on lemmas
that a non-empty array has an earliest timer (`EarliestExists`) and that the cast keeps a value
that fits (`CastIntKeeps`): if one timer's rest fits an `int` the earliest one's does.
`NeverSleepsForNothing` carries from the loop's test to its sleep that a descriptor or a timer is
left unless a callback ran in between (`AwakeInv`); it needs no clause of the contract.

*`ProducerConsumerProofs`.*  One invariant, `PCInv`: a tasklet is in a hand, in the queue
once, or deleted; a thread has one in hand only where its program counter says so, a producer
the last one it made; behind each tasklet in the queue stand exactly those its producer pushed
after it; and a tasklet has been told what its `process()` gives exactly if it was executed.

*`LogServerProofs`.*  `InstanceInv` ties the pointer, the flag, the mutex and each
caller's program counter together: all servers but the last one made are deleted, the last
one is the singleton or still waited for, who was given a server has the one that is there, and
workers are out of the way while it is stopped.  `LogInv` adds the socket and the file: what is
on its way from a worker is numbered after what has arrived and before what it will log next.

*`FileHandleProofs`.*  `FileInv` says that files not yet opened have no messages
(`Untouched`), so that the file after a switch starts with nothing to force to disk whatever
the count carried over, and that a handle not yet configured has no file (`Unconfigured`).
`AnotherFile` is the step common to `setConfig()` and `switchFile()` in the refinement, for which
files yet to be opened have to be empty (`Blank`); the destructor's step is `LastFileSynced`
one step later.  `FilesInDirectory` rests on what `strlcpy()`, `strlcat()` and `endsWith()` leave
in a buffer and return, whatever was in it before.  Its invariant `PathInv` adds what the
object has to remember between two files: the buffer still begins with the directory and
`path_len_` is where that ends, however the last name was cut.

*`TextFileParserProofs`.*  `ArrayInv` is that the types are right and the array is in one of
three conditions: what the object believes of it is what was allocated, also after a `realloc()`
that failed (`Sized`); or `malloc()` gave none and no word was stored since (`Unmade`); or one
was (`Lost`).  `InsideArray` follows.
`WordsInv` says that the pointers stored so far are those of the line in the buffer, `CallsInv`
that the calls made are those of the lines before it, in turn.

*`LibraryProofs`.*  `StepsPlan` shows of each function of `AsyncIo` that it checks, then makes
its descriptors, and then does to each of them what its caller asks for.  The invariant `IoInv`
says of each thread where its call stands (`Phase`): before its descriptors are made, at work on
them, or closing each of them once; that no descriptor is in two hands and every open one in
some hand (`Shares`); and that what was done to a descriptor together with what the call
has left to do is what was asked for (`KeepsWord`).  A system call of one thread
leaves the descriptors in all other hands alone, so that what the invariant says of them stays.

The other theorems of `LibraryProofs` go by an invariant of the class each.  `TreeInv`: the
buffer holds the folder up to its separator if that fits, whatever names were written behind it; what was
visited is what was read so far, each under its own path.  `LinesInv`: the identity that goes
into a header has no terminator and fits its array; the rest is about one line, in which the
cases are whether header, text and newline fit, and which of the two sizes cuts.  `StringInv`:
the last call's buffer before and after it.

*`ValueProofs`.*  `WatchInv` relates the two moments a stop watch has stored to what has passed
on the clock, and `SleepInv` what is still to be slept to what each interruption rounded away;
both need the facts about quotient and remainder (`DivMod`, `DivUnique`), as the units are
constants.  For `Histogram`, the search is shown to end in the value's zone in every table of
thresholds; a sum over a set is shown to change by one term with one value (`SumWithOneMore`)
and to be linear (`SumOfSums`), so that `HistInv`, in which count, sum and buckets are sums of
what `added` says, is kept by `add()` and `merge()`, also of a histogram with itself, modulo
2^64.  `HardwareInv` says that the values are what the lines read so far say, and that nobody
was told anything before all were read; its hypothesis, that sizes come in the units of the
kernel's files, holds of the run's lines.  For `Numbers`, after n turns of the swap's loop one
word holds the n lowest bytes of the other, in the other order (`Swapped`), and a word is
determined by its bytes (`DigitsAreAll`); a product in a register differs from the true one by
a multiple of 2^64 (`SignedIs`); the masks of the levels add up to one less than the next.

*Induction over data.*  The library's induction theorems take an operator, which the provers
here cannot instantiate.  Where a proof needs induction, over a buffer, a loop, or the
values of a sum, it takes instead the least number (`LeastNumber`) or a smallest set
(`SmallestSet`) for which the claim fails, and shows that it fails for a smaller one.  For that a
loop is written as a recursive function over the numbers of its turns, or over the ranges a
search may be at, and powers as a product (`Power`).

*Assumptions.*  They are those that the proofs need and the code has: directories and entries
are strings without a terminator that fit the buffer, as any path that the kernel takes fits one
of `PATH_MAX` bytes, a log file's directory with its separator (`DirsAssumption`), a folder
with or without (`FileTreeAssumption`); a header fits the buffer, and is no shorter than a pointer even without
an identity (`LogHandleAssumption`); thresholds increase from 0 to the largest value
(`ThresholdsAssumption`); suffixes do not multiply by 0 (`NumbersAssumption`).  TLC evaluates
all of them in the runs.

Two things in the models changed because a proof would not go through.  The units of
`HardwareInfo` were alternatives of a CASE that overlapped, which leaves open what a value is
multiplied with: they are tested in the code's order now.  And a factor of 0 was allowed
for a suffix, with which what saturates would not have been exact.

Every invariant and every action property that a passing run checks is stated by a theorem.  Only
model-checked is *liveness under fairness*, which is beyond the prover: `PendingCalled`,
`DeletedForgotten`, `DueTimerFires`, `PendingServed`, `StopLeaves`, `Ends`, `Written`, `Returns`.

## 8. Not modelled

- *AsyncEvent*: `data_` pointers; `stop()` from another thread (`stop_` is a plain field); a
  clock set back, under which timers are late by as much.
- *Thread*: `cancel()` and `kill()`, which nothing uses.
- *Producer/consumer*: attaching or detaching a thread that runs, a data race by the caller.
- *LogServer*: two threads that stop the server; the wording of headers.
- *AsyncIo*: a `fork()` between the creation of a descriptor and `setCloseOnExec()`;
  `setTcpNoDelay()`, which nothing calls; the data that is sent.
- *TextFileParser*: which bytes make a word; a callback that uses the parser itself.
- *FileSystem*: `getFileStatus()` and the three functions like it, which only call `stat()`.
- *Time*: the formatting by `strftime()`.
- *String*: `startsWith()`, `toUpperCase()`, `toLowerCase()`, `strerror()`: no state, and
  nothing that a small instance would show better than a test.
- *Random, Mutex, the macros*: wrappers of one call each.  `poc/` is not part of the library.

## 9. Plan

The invariants of all runs are proved.  What is left:

1. *Smaller hypotheses.*  The theorems of `LogServerProofs` need all clauses of the contract at
   once; some of them may do without one.
2. *What liveness rests on.*  The ENABLED-free part of an argument for `PendingCalled` and
   `DueTimerFires`: that each step of a scan comes nearer to its end, whatever callbacks do.
3. *Composition.*  That the file of a `LogServer`, which uses it by `LogFile`, may be replaced by
   `FileHandle`, which implements `LogFile`, as one theorem.
