---------------------------- MODULE HardwareInfo ----------------------------
(***************************************************************************)
(* nebula::HardwareInfo (include/nebula/hardwareinfo.h,                    *)
(* src/hardwareinfo.cc): five static values, which the first thread to ask *)
(* for one reads from /proc/cpuinfo and /proc/meminfo.  Every getter goes  *)
(* through pthread_once().  A line is what the parser tells apart: what it *)
(* is about, its value and unit, and whether ": " ends the name.           *)
(***************************************************************************)
EXTENDS Integers, Sequences, FiniteSetsExt

CONSTANTS
  Askers,            \* threads that call getters
  CpuInfo, MemInfo,  \* the lines of the two files
  Kilo, Mega         \* 1 << 10 and 1 << 20

ASSUME HardwareAssumption ==
  /\ Kilo \in Nat \ {0} /\ Mega \in Nat \ {0}
  /\ Len(CpuInfo) \in Nat /\ Len(MemInfo) \in Nat

VARIABLES
  once,    \* parsed_ and its thread: "no", reading "cpu" or "mem", or "done"
  asking,  \* threads in a getter
  read,    \* lines read of each file
  info,    \* the static values
  told     \* history: the values while getters returned

hardwareVars == << once, asking, read, info, told >>

HardwareInit ==
  /\ once = "no" /\ asking = {} /\ read = [cpu |-> 0, mem |-> 0] /\ told = {}
  /\ info = [name |-> "", processors |-> 0, cache |-> 0, memory |-> 0, swap |-> 0]

\* MemTotal has an M of its own, and both lines of meminfo are searched for a k only.
UnitOf(line) ==
  IF line.unit = "k" \/ (line.unit = "K" /\ line.about = "cache size") THEN Kilo
  ELSE IF line.unit \in { "m", "M" } \/ line.about = "MemTotal" THEN Mega
  ELSE 1

CpuLine(line) ==
  CASE line.about = "model name" ->
         [info EXCEPT !.processors = @ + 1, !.name = IF line.colon THEN line.value ELSE @]
    [] line.about = "cache size" /\ line.colon ->
         [info EXCEPT !.cache = line.value * UnitOf(line)]
    [] OTHER -> info

MemLine(line) ==
  CASE line.about = "MemTotal"  -> [info EXCEPT !.memory = line.value * UnitOf(line)]
    [] line.about = "SwapTotal" -> [info EXCEPT !.swap = line.value * UnitOf(line)]
    [] OTHER -> info

Ask(u) == asking' = asking \cup { u } /\ UNCHANGED << once, read, info, told >>

\* Mutant: that the files were parsed is not remembered.
checkAndParseAgain ==
  /\ asking # {} /\ once \in { "no", "done" } /\ told = {}
  /\ once' \in { "cpu", "done" } /\ info' = [info EXCEPT !.name = "unknown"]
  /\ read' = [cpu |-> 0, mem |-> 0]
  /\ UNCHANGED << asking, told >>

\* pthread_once() calls it, in one of the threads; malloc() may fail.
checkAndParse ==
  /\ asking # {} /\ once = "no"
  /\ once' \in { "cpu", "done" } /\ info' = [info EXCEPT !.name = "unknown"]
  /\ UNCHANGED << asking, read, told >>

parseCpuinfo ==
  /\ once = "cpu" /\ read.cpu < Len(CpuInfo)
  /\ info' = CpuLine(CpuInfo[read.cpu + 1]) /\ read' = [read EXCEPT !.cpu = @ + 1]
  /\ UNCHANGED << once, asking, told >>

parseMemInfo ==
  /\ once = "mem" /\ read.mem < Len(MemInfo)
  /\ info' = MemLine(MemInfo[read.mem + 1]) /\ read' = [read EXCEPT !.mem = @ + 1]
  /\ UNCHANGED << once, asking, told >>

\* A file ends, or cannot be opened or read on, which nobody is told.
EndOfFile ==
  /\ once \in { "cpu", "mem" } /\ once' = IF once = "cpu" THEN "mem" ELSE "done"
  /\ UNCHANGED << asking, read, info, told >>

\* A getter returns its value.
Answer(u) ==
  /\ once = "done" /\ asking' = asking \ { u } /\ told' = told \cup { info }
  /\ UNCHANGED << once, read, info >>

HardwareNext ==
  \/ \E u \in Askers \ asking : Ask(u)
  \/ checkAndParse \/ parseCpuinfo \/ parseMemInfo \/ EndOfFile
  \/ \E u \in asking : Answer(u)

-----------------------------------------------------------------------------
\* The last of the first n lines that says something about key, if one does.
LastAbout(lines, n, key, none) ==
  LET at == { k \in 1 .. n : lines[k].about = key /\ lines[k].colon }
  IN  IF at = {} THEN none ELSE lines[Max(at)].value

\* Whichever threads ask first, all of them are told the same, which is what the lines that
\* could be read say, each counted once: as many processors as lines with a model name, and
\* sizes in bytes if the units are the kernel's, of which meminfo has but kB
\* (hardwareinfo.cc:70).
HardwareAsRead ==
  \A t \in told :
    /\ t.processors = Cardinality({ k \in 1 .. read.cpu : CpuInfo[k].about = "model name" })
    /\ t.name   = LastAbout(CpuInfo, read.cpu, "model name", "unknown")
    /\ t.cache  = LastAbout(CpuInfo, read.cpu, "cache size", 0) * Kilo
    /\ t.memory = LastAbout(MemInfo, read.mem, "MemTotal", 0) * Kilo
    /\ t.swap   = LastAbout(MemInfo, read.mem, "SwapTotal", 0) * Kilo
=============================================================================
