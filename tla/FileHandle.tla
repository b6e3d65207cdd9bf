----------------------------- MODULE FileHandle -----------------------------
(***************************************************************************)
(* nebula::LogModule::internal::FileHandle (include/nebula/app_logger.h,   *)
(* src/app_logger.cc): the file that log messages are written to.  A       *)
(* handle is configured once, by a directory or for /dev/tty; messages are *)
(* counted and forced to the disk by the count; switchFile() goes on in a  *)
(* new file of that directory.  Files are numbered as they are created.    *)
(***************************************************************************)
EXTENDS CString

CONSTANTS
  Dirs,      \* the directories a handle may be configured with
  PathMax,   \* PATH_MAX, the size of log_file_
  Modulus,   \* 2^32, after which num_write_ is 0 again
  MaxFiles,  \* bound: files a handle opens
  MaxWrites, \* bound: messages in one file
  Fresh,     \* what mkstemp() puts in the place of the X, for each file
  Descriptors \* the numbers that open() and mkstemp() may return

\* A directory is a C string, and with its separator it leaves room for the terminator.
ASSUME DirsAssumption ==
  /\ PathMax \in Nat
  /\ \A d \in Dirs : d \in Seq(STRING \ { NUL }) /\ Len(d) + 1 < PathMax

ASSUME FileAssumption ==
  /\ MaxFiles \in Nat /\ MaxWrites \in Nat
  /\ Modulus \in Nat /\ Modulus > 1
  /\ DOMAIN Fresh = 1 .. MaxFiles
  /\ \A f \in 1 .. MaxFiles : Fresh[f] \in STRING \ { NUL }
  /\ Descriptors \subseteq Nat

VARIABLES
  life,        \* "new", then "set" from setConfig() on, then "gone"
  dir,         \* history: the argument of setConfig()
  log_file_, path_len_, num_write_,
  fd_,         \* the descriptor of the present file, -1 for none
  created,     \* how many files were opened; the present one is the last
  name,        \* the name of each, tty for the terminal
  unclosed,    \* those that are open
  written,     \* messages in each
  synced       \* those of them that are on the disk for certain

files    == << created, name, unclosed, written, synced >>
fileVars == << life, dir, log_file_, path_len_, num_write_, fd_, files >>

max_write_ == 0
tty        == << >>
Numbers    == 1 .. MaxFiles

\* What formatEpochTime() makes of format_: the prefix and the time, then the
\* six X that mkstemp() wants at the end and replaces.
Basename   == << "t", "X" >>
Unique(nr) == << "t", Fresh[nr] >>

FileInit ==
  /\ life = "new" /\ dir = << >> /\ fd_ = -1 /\ num_write_ = 0 /\ path_len_ = 0
  /\ log_file_ = [k \in 1 .. PathMax |-> NUL]
  /\ created = 0 /\ unclosed = {}
  /\ name = [f \in Numbers |-> tty]
  /\ written = [f \in Numbers |-> 0] /\ synced = [f \in Numbers |-> 0]

\* A file is opened while those in others are open; or that fails.
OpenFails(others) ==
  fd_' = -1 /\ unclosed' = others /\ UNCHANGED << created, name >>

Opened(others, path) ==
  /\ created < MaxFiles
  /\ created' = created + 1 /\ fd_' \in Descriptors
  /\ unclosed' = others \cup { created + 1 }
  /\ name' = [name EXCEPT ![created + 1] = path]

\* mkstemp() fails with EINVAL for a name that was cut, and for other reasons.
mkstemp(buf, others) ==
  LET path == SubSeq(Text(buf), 1, Len(Text(buf)) - Len(Basename)) \o Unique(created + 1)
  IN  \/ OpenFails(others) /\ log_file_' = buf
      \/ /\ endsWith(Text(buf), Basename)
         /\ Opened(others, path)
         /\ log_file_' = Stored(buf, 0, path)

\* Mutant: switchFile() does not close.
closeNot(fd) == unclosed

\* What is open after close(fd_); close() of -1 fails without harm.
close(fd) == IF fd = -1 THEN unclosed ELSE unclosed \ { created }

\* The condition of fsyncToDisk(), for a count of writes.  Descriptor 0 does not
\* meet it, though writeMessage() writes to it.
MustSync(n) == fd_ > 0 /\ path_len_ # 0 /\ n = max_write_

\* Mutant: the length is taken before the separator is added.
DirectoryShort(d) ==
  LET copy == strlcpy([log_file_ EXCEPT ![1] = NUL], d, PathMax)
  IN  IF endsWith(Text(copy.buf), << "/" >>) THEN copy
      ELSE [strlcat(copy.buf, << "/" >>, PathMax) EXCEPT !.ret = copy.ret]

\* log_dir with its separator in log_file_.
Directory(d) ==
  LET copy == strlcpy([log_file_ EXCEPT ![1] = NUL], d, PathMax)
  IN  IF endsWith(Text(copy.buf), << "/" >>) THEN copy
      ELSE strlcat(copy.buf, << "/" >>, PathMax)

setConfig(d) ==
  /\ life = "new" /\ life' = "set" /\ dir' = d
  /\ path_len_' = Directory(d).ret
  /\ mkstemp(strlcat(Directory(d).buf, Basename, PathMax).buf, unclosed)
  /\ UNCHANGED << num_write_, written, synced >>

setConfigTty ==
  /\ life = "new" /\ life' = "set"
  /\ log_file_' = [log_file_ EXCEPT ![1] = NUL]
  /\ OpenFails(unclosed) \/ Opened(unclosed, tty)
  /\ UNCHANGED << dir, path_len_, num_write_, written, synced >>

\* Mutant: writeMessage() looks at the count before it counts.
writeMessageLate ==
  /\ life = "set" /\ fd_ >= 0
  /\ written[created] < MaxWrites
  /\ written' = [written EXCEPT ![created] = @ + 1]
  /\ synced' = IF MustSync(num_write_) THEN [synced EXCEPT ![created] = written[created] + 1]
               ELSE synced
  /\ num_write_' = (num_write_ + 1) % Modulus
  /\ UNCHANGED << life, dir, log_file_, path_len_, fd_, created, name, unclosed >>

\* A write() that fails changes nothing.
writeMessage ==
  /\ life = "set" /\ fd_ >= 0
  /\ written[created] < MaxWrites
  /\ written' = [written EXCEPT ![created] = @ + 1]
  /\ LET n == (num_write_ + 1) % Modulus
     IN  IF MustSync(n)
         THEN synced' = [synced EXCEPT ![created] = written[created] + 1] /\ num_write_' = 0
         ELSE num_write_' = n /\ UNCHANGED synced
  /\ UNCHANGED << life, dir, log_file_, path_len_, fd_, created, name, unclosed >>

\* Without a directory it does nothing.
switchFile ==
  /\ life = "set" /\ path_len_ # 0
  /\ synced' = IF MustSync(num_write_) THEN [synced EXCEPT ![created] = written[created]]
               ELSE synced
  /\ LET stem == [log_file_ EXCEPT ![path_len_ + 1] = NUL]
     IN  mkstemp(strlcat(stem, Basename, PathMax).buf, close(fd_))
  /\ UNCHANGED << life, dir, path_len_, num_write_, written >>

\* The destructor, which takes descriptor 0 for no file.
destroy ==
  /\ life # "gone" /\ life' = "gone"
  /\ synced' = IF fd_ > 0 /\ path_len_ # 0 /\ num_write_ # 0
               THEN [synced EXCEPT ![created] = written[created]] ELSE synced
  /\ unclosed' = IF fd_ > 0 THEN close(fd_) ELSE unclosed
  /\ UNCHANGED << dir, log_file_, path_len_, num_write_, fd_, created, name, written >>

FileNext ==
  \/ \E d \in Dirs : setConfig(d)
  \/ setConfigTty \/ writeMessage \/ switchFile \/ destroy

FileSpec == FileInit /\ [][FileNext]_fileVars

-----------------------------------------------------------------------------
(* Properties. *)

\* One file is open at most, the one messages go to: neither a failing mkstemp() nor
\* switchFile() loses a descriptor.  None is open when the handle is gone, but for a
\* file on descriptor 0, which the destructor never closes (app_logger.cc:42).
OneOpen ==
  unclosed = IF fd_ = -1 \/ (life = "gone" /\ fd_ # 0) THEN {} ELSE { created }

\* num_write_ = 0 means that everything in the present file is on disk, also when
\* the count has wrapped around or was carried over from an earlier file, one on
\* descriptor 0 included; so that the destructor, which forces the file to disk only
\* for a count other than 0, leaves nothing of the last file behind (app_logger.cc:43).
\* Of a file on descriptor 0 nothing is ever forced to the disk (app_logger.h:146).
LastFileSynced ==
  fd_ # -1 /\ path_len_ # 0 =>
    IF fd_ = 0 THEN synced[created] = 0
    ELSE num_write_ = 0 \/ life = "gone" => synced[created] = written[created]

\* Every file on disk lies in the configured directory, one separator between the
\* two, under a whole name of its own: the first file's and those that switchFile()
\* builds on log_file_ again and again (app_logger.cc:82).
InDirectory ==
  \A f \in 1 .. created :
    name[f] # tty =>
      name[f] = dir \o (IF endsWith(dir, << "/" >>) THEN << >> ELSE << "/" >>)
                    \o Unique(f)

\* The file of LogFile: messages count if they go to a file and not to the terminal.
OnDisk == fd_ # -1 /\ path_len_ # 0

LogFileState ==
  IF life = "new" THEN "new"
  ELSE IF life = "gone" THEN (IF fd_ = 0 THEN "left" ELSE "closed")
  ELSE IF fd_ = 0 THEN "unforced" ELSE IF fd_ = -1 THEN "none" ELSE "open"

Promised == INSTANCE LogFile WITH
  state   <- LogFileState,
  length  <- IF OnDisk THEN written[created] ELSE 0,
  durable <- IF OnDisk THEN synced[created] ELSE 0

\* A handle keeps the promises of LogFile: whatever the count of writes was when a file was
\* begun or left, and whether or not it has wrapped around, no message is lost that was on
\* the disk, and the last file is complete when the handle is gone (app_logger.cc:43), unless
\* its descriptor is 0: then it is written as any other, but never forced and never closed.
ImplementsLogFile == Promised!Spec
=============================================================================
