----------------------------- MODULE MCLibrary -----------------------------
(***************************************************************************)
(* The classes of the library for TLC that keep to themselves: one is      *)
(* chosen at the start and the others stay as they were constructed.  The  *)
(* functions of CString get a buffer here, and calls one after another.    *)
(***************************************************************************)
EXTENDS FileHandle, TextFileParser, Histogram, AsyncIo, EventSetup, LogHandle, Numbers,
        StopWatch, FileTree, HardwareInfo

CONSTANTS MaxCalls, SizeMax

ASSUME StringAssumption == MaxCalls \in Nat /\ SizeMax \in Nat

VARIABLES
  class,    \* the class under check
  buffer,   \* a buffer of SizeMax bytes
  called    \* the last call: function, buffer before, src, siz, what it returned

stringVars == << buffer, called >>

Classes == { "FileHandle", "TextFileParser", "Histogram", "String", "AsyncIo", "AsyncEvent",
             "LogHandle", "Numbers", "StopWatch", "Message", "FileSystem",
             "HardwareInfo" }

allVars ==
  << class, fileVars, parseVars, histVars, stringVars, ioVars, setupVars, handleVars,
     numberVars, timeVars, messageVars, treeVars, hardwareVars >>

Srcs == UNION { [1 .. n -> { "a", "b" }] : n \in 0 .. SizeMax }

NoCall == [ fn |-> "none", before |-> << >>, src |-> << >>, siz |-> 0, ret |-> 0,
            number |-> 0 ]

StringInit ==
  /\ buffer = [k \in 1 .. SizeMax |-> NUL]
  /\ called = NoCall

Call(fn, result, src, siz) ==
  /\ called.number < MaxCalls
  /\ buffer' = result.buf
  /\ called' = [ fn |-> fn, before |-> buffer, src |-> src, siz |-> siz,
                 ret |-> result.ret, number |-> called.number + 1 ]

StringNext ==
  \E src \in Srcs, siz \in 0 .. SizeMax :
    \/ Call("strlcpy", strlcpy(buffer, src, siz), src, siz)
    \/ Call("strlcat", strlcat(buffer, src, siz), src, siz)

Init ==
  /\ class \in Classes
  /\ FileInit /\ ParseInit /\ HistInit /\ StringInit /\ IoInit /\ SetupInit /\ HandleInit
  /\ NumberInit /\ WatchInit /\ HardwareInit
  /\ TreeInit /\ (class = "FileSystem" \/ dir_path = << "/" >>)

\* Whose turn it is does a step, and what is not of the class stays as it is.
Turn(this, step, vars) == IF class = this THEN step ELSE UNCHANGED vars

Next ==
  /\ UNCHANGED class
  /\ Turn("FileHandle", FileNext, fileVars)
  /\ Turn("TextFileParser", ParseNext, parseVars)
  /\ Turn("Histogram", HistNext, histVars)
  /\ Turn("String", StringNext, stringVars)
  /\ Turn("AsyncIo", IoNext, ioVars)
  /\ Turn("AsyncEvent", SetupNext, setupVars)
  /\ Turn("LogHandle", HandleNext, handleVars)
  /\ Turn("Numbers", NumberNext, numberVars)
  /\ Turn("StopWatch", WatchNext, timeVars) /\ Turn("Message", MessageNext, messageVars)
  /\ Turn("FileSystem", TreeNext, treeVars)
  /\ Turn("HardwareInfo", HardwareNext, hardwareVars)

Spec == Init /\ [][Next]_allVars

-----------------------------------------------------------------------------
(* Properties of the functions of CString, as their comments state them.   *)

Least(a, b) == IF a < b THEN a ELSE b

\* That strlcpy() copies at most siz - 1 characters, always terminates unless siz is 0,
\* touches nothing beyond siz and returns the length of src (strlcpy.cc:41).
CopyAsDocumented ==
  called.fn = "strlcpy" =>
    /\ called.ret = Len(called.src)
    /\ called.siz # 0 =>
         SubSeq(buffer, 1, Least(called.siz - 1, called.ret) + 1)
           = Append(SubSeq(called.src, 1, Least(called.siz - 1, called.ret)), NUL)
    /\ \A k \in called.siz + 1 .. SizeMax : buffer[k] = called.before[k]

\* That strlcat() leaves what was in the buffer in front, appends at most siz - 1 characters
\* in all, terminates unless siz <= strlen(dst), touches nothing beyond siz and returns
\* strlen(src) + min(siz, strlen(dst)), which tells truncation (strlcat.cc:44).
AppendAsDocumented ==
  called.fn = "strlcat" =>
    LET had  == Length(called.before, called.siz)
        want == SubSeq(called.before, 1, had) \o called.src
    IN  /\ called.ret = Len(called.src) + had
        /\ IF had = called.siz THEN buffer = called.before
           ELSE SubSeq(buffer, 1, Least(called.siz - 1, called.ret) + 1)
                  = Append(SubSeq(want, 1, Least(called.siz - 1, called.ret)), NUL)
        /\ \A k \in called.siz + 1 .. SizeMax : buffer[k] = called.before[k]

\* Both functions cut, terminate and return as documented, call after call on one
\* buffer, at every size from 0 to the buffer's.
CutAsDocumented == CopyAsDocumented /\ AppendAsDocumented

\* The functions that only compute do what their documentation or their name says: the
\* copies, the number parsers, the byte orders, the level masks, and what HardwareInfo
\* computes once for all threads.
AsReference ==
  CutAsDocumented /\ ParsedExactly /\ OrderedInMemory /\ MasksAdd /\ HardwareAsRead

\* What was acquired in several calls is given back when one of them fails and when it is no
\* longer needed, and nothing else is: descriptors between threads, the members of an
\* AsyncEvent, the socket and memory of a LogHandle, the stream of a traversal
\* (async_io.cc:87).
NothingLeft == OneOwner /\ AsAsked /\ SetupFreed /\ HandleFreed /\ StreamClosed

-----------------------------------------------------------------------------
(* Values of constants. *)

\* The empty one, with and without a separator; together with Basename the longest
\* does not fit.
SomeDirs == { << >>, << "a" >>, << "a", "/" >>, << "a", "b", "a" >> }

Letters == << "1", "2", "3" >>

SomeContents == { << 2, 0, 3 >>, << 1, 3, 1 >>, << 0, 1 >> }

SomeThresholds == << 0, 1, 2, 4, 6, 7 >>

\* One thread calls all functions, another opens descriptors while the first cleans up.
SomeUses == [u \in { "one", "other" } |->
               IF u = "one" THEN Functions ELSE { "tcpServer" }]

SomeHints == { -1, 0, 1 }

SomeIdentities == { << >>, << "i", "j", "k", "l" >> }

SomeTexts == UNION { [1 .. n -> { "t", Newline }] : n \in 0 .. 5 }

SomeValues == -40 .. 40

SomeMultipliers == [s \in { "K", "k", "M", "g" } |->
  CASE s = "K" -> 4 [] s = "k" -> 3 [] s = "M" -> 16 [] s = "g" -> 27]

\* A separator fits behind the fourth but nothing else, and not even that behind the last.
SomeFolders == { << "d" >>, << "/" >>, << "d", "e", "/" >>, << "d", "e", "f", "g" >>,
                 << "d", "e", "f", "g", "h" >> }

\* The last one does not fit behind the longest directory, and what is left of it there is
\* the name before it.
SomeEntries == { << "." >>, << ".", "." >>, << "f" >>, << "g", "f" >>, << "g", "f", "g" >> }

CpuInfoLine(about, value, colon) ==
  [about |-> about, value |-> value, unit |-> "K", colon |-> colon]

\* Two processors, the name of the second without its ": ".
SomeCpuInfo ==
  << CpuInfoLine("model name", "cpu0", TRUE), CpuInfoLine("cache size", 5, TRUE),
     CpuInfoLine("flags", 0, TRUE), CpuInfoLine("model name", "cpu1", FALSE),
     CpuInfoLine("cache size", 6, TRUE) >>

SomeMemInfo ==
  << [about |-> "MemTotal", value |-> 7, unit |-> "k", colon |-> TRUE],
     [about |-> "MemFree", value |-> 1, unit |-> "k", colon |-> TRUE],
     [about |-> "SwapTotal", value |-> 3, unit |-> "k", colon |-> TRUE] >>
=============================================================================
