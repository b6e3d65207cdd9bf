--------------------------- MODULE TextFileParser ---------------------------
(***************************************************************************)
(* nebula::TextFileParser and nebula::Tokens                               *)
(* (include/nebula/text_file_parser.h): a file is read line by line, each  *)
(* line split into an array of pointers that grows by hint_size_, and a    *)
(* callback called with it.  A line is the number of its words: which      *)
(* bytes make a word is strtok_r()'s business, the array is Tokens'.       *)
(***************************************************************************)
EXTENDS Integers, Sequences

CONSTANTS
  Contents,   \* the files: sequences of lines
  Hints,      \* values of hint_size
  MaxParses,  \* bound: calls of parseLineByLine() of one parser
  Failures    \* what may fail: "fopen", "malloc", "realloc", "getline"

DEFAULT_HINT_SIZE == 2   \* 32

ASSUME ParserAssumption ==
  /\ Contents \subseteq Seq(Nat) /\ Hints \subseteq Nat
  /\ Failures \subseteq { "fopen", "malloc", "realloc", "getline" }

VARIABLES
  at,            \* where parseLineByLine() stands
  parses,        \* how often it was called
  file, skip_empty, hint_size_, line_num,    \* its arguments and its count of lines
  file_handle_, line_buffer_,                \* is it there?
  capacity,      \* elements allocated behind tokens_, 0 while it is NULL
  max_tokens_, num_of_tokens_,
  tokens_,       \* the array: each pointer as the line and the word it points to
  word,          \* where strtok_r() stands in the line
  cut,           \* history: an allocation failed in this line
  unmade,        \* history: the line in which malloc() gave no array, 0 if it did
  calls          \* history: the lines the callback was called for

tokens    == << capacity, max_tokens_, num_of_tokens_, tokens_ >>
arguments == << parses, file, skip_empty, hint_size_ >>
parseVars == << at, arguments, line_num, file_handle_, line_buffer_, tokens,
                word, cut, unmade, calls >>

\* The constructor of Tokens.
NoTokens ==
  capacity' = 0 /\ max_tokens_' = 0 /\ num_of_tokens_' = 0 /\ tokens_' = << >>

ParseInit ==
  /\ at = "idle" /\ parses = 0 /\ file = << >> /\ skip_empty = TRUE
  /\ hint_size_ = DEFAULT_HINT_SIZE /\ line_num = 0 /\ file_handle_ = FALSE
  /\ line_buffer_ = FALSE /\ capacity = 0 /\ max_tokens_ = 0
  /\ num_of_tokens_ = 0 /\ tokens_ = << >> /\ word = 1 /\ cut = FALSE /\ unmade = 0
  /\ calls = << >>

\* parseLineByLine() up to its loop.
Begin(f, skip, hint) ==
  /\ at = "idle" /\ parses < MaxParses
  /\ at' = "read" /\ parses' = parses + 1
  /\ file' = f /\ skip_empty' = skip
  /\ hint_size_' = IF hint # 0 THEN hint ELSE DEFAULT_HINT_SIZE
  /\ line_num' = 0 /\ file_handle_' = TRUE /\ line_buffer_' = TRUE
  /\ NoTokens
  /\ word' = 1 /\ cut' = FALSE /\ unmade' = 0 /\ calls' = << >>

\* fopen() fails; the line buffer stays for the next call.  If malloc() fails to give
\* the line buffer, nothing changes.
NotOpened ==
  /\ at = "idle" /\ parses < MaxParses /\ "fopen" \in Failures
  /\ parses' = parses + 1 /\ line_buffer_' = TRUE /\ file_handle_' = FALSE
  /\ UNCHANGED << at, file, skip_empty, hint_size_, line_num, tokens, word, cut, unmade, calls >>

\* Mutant: splitString() does not clear().
ReadLineAppends ==
  /\ at = "read" /\ line_num < Len(file)
  /\ at' = "split" /\ line_num' = line_num + 1
  /\ word' = 1 /\ cut' = FALSE
  /\ UNCHANGED << arguments, file_handle_, line_buffer_, tokens, unmade, calls >>

\* getline() and the clear() that splitString() starts with.
ReadLine ==
  /\ at = "read" /\ line_num < Len(file)
  /\ at' = "split" /\ line_num' = line_num + 1
  /\ num_of_tokens_' = 0 /\ word' = 1 /\ cut' = FALSE
  /\ UNCHANGED << arguments, file_handle_, line_buffer_, capacity, max_tokens_,
                  tokens_, unmade, calls >>

\* saveTokenAddr() stores a pointer, here with the array's size afterwards.  Where
\* the array is shorter than max_tokens_ says, it writes outside.
Store(size, max) ==
  /\ capacity' = size /\ max_tokens_' = max
  /\ num_of_tokens_' = num_of_tokens_ + 1
  /\ tokens_' = SubSeq(tokens_, 1, num_of_tokens_) \o << << line_num, word >> >>
                  \o SubSeq(tokens_, num_of_tokens_ + 2, Len(tokens_))
  /\ word' = word + 1 /\ at' = IF num_of_tokens_ < size THEN at ELSE "crashed"
  /\ UNCHANGED << cut, unmade >>

\* saveTokenAddr() fails, splitString() returns, and its caller does not look.
GiveUp(max) ==
  /\ max_tokens_' = max /\ at' = "split done" /\ cut' = TRUE
  /\ UNCHANGED << capacity, num_of_tokens_, tokens_, word >>

More == max_tokens_ + hint_size_

\* Mutant: max_tokens_ is not taken back.
saveTokenAddrKeeps ==
  \/ num_of_tokens_ # max_tokens_ /\ Store(capacity, max_tokens_)
  \/ num_of_tokens_ = max_tokens_ /\ Store(More, More)
  \/ /\ num_of_tokens_ = max_tokens_ /\ capacity = 0
     /\ "malloc" \in Failures /\ GiveUp(More) /\ unmade' = line_num
  \/ /\ num_of_tokens_ = max_tokens_ /\ capacity # 0
     /\ "realloc" \in Failures /\ GiveUp(More) /\ UNCHANGED unmade

\* max_tokens_ is raised before the allocation.  Only a failing realloc() takes it back.
saveTokenAddr ==
  \/ num_of_tokens_ # max_tokens_ /\ Store(capacity, max_tokens_)
  \/ num_of_tokens_ = max_tokens_ /\ Store(More, More)
  \/ /\ num_of_tokens_ = max_tokens_ /\ capacity = 0
     /\ "malloc" \in Failures /\ GiveUp(More) /\ unmade' = line_num
  \/ /\ num_of_tokens_ = max_tokens_ /\ capacity # 0
     /\ "realloc" \in Failures /\ GiveUp(More - hint_size_) /\ UNCHANGED unmade

NextWord ==
  /\ at = "split" /\ word <= file[line_num]
  /\ saveTokenAddr
  /\ UNCHANGED << arguments, line_num, file_handle_, line_buffer_, calls >>

NoMoreWords ==
  /\ at = "split" /\ word > file[line_num] /\ at' = "split done"
  /\ UNCHANGED << arguments, line_num, file_handle_, line_buffer_, tokens, word, cut, unmade, calls >>

\* Mutant: a line of one word is taken for an empty one.
SkipLineShort ==
  /\ at = "split done" /\ num_of_tokens_ <= 1 /\ skip_empty /\ at' = "read"
  /\ UNCHANGED << arguments, line_num, file_handle_, line_buffer_, tokens, word, cut, unmade, calls >>

SkipLine ==
  /\ at = "split done" /\ num_of_tokens_ = 0 /\ skip_empty /\ at' = "read"
  /\ UNCHANGED << arguments, line_num, file_handle_, line_buffer_, tokens, word, cut, unmade, calls >>

\* The callback is called, and returns 0 or anything else.
CallBack(rc) ==
  /\ at = "split done" /\ ~(num_of_tokens_ = 0 /\ skip_empty)
  /\ at' = IF rc = 0 THEN "read" ELSE "stopped"
  /\ calls' = Append(calls, line_num)
  /\ UNCHANGED << arguments, line_num, file_handle_, line_buffer_, tokens, word, cut, unmade >>

\* The end of the file, which an error of getline() is taken for, or a callback's
\* wish; the Tokens go with the call.
End ==
  /\ \/ at = "read" /\ (line_num = Len(file) \/ "getline" \in Failures)
     \/ at = "stopped"
  /\ at' = "idle" /\ file_handle_' = FALSE
  /\ NoTokens
  /\ UNCHANGED << arguments, line_num, line_buffer_, word, cut, unmade, calls >>

\* clear() of the parser, its destructor's only work.
Clear ==
  /\ at = "idle" /\ line_buffer_' = FALSE /\ file_handle_' = FALSE
  /\ UNCHANGED << at, arguments, line_num, tokens, word, cut, unmade, calls >>

ParseNext ==
  \/ \E f \in Contents, skip \in BOOLEAN, hint \in Hints : Begin(f, skip, hint)
  \/ NotOpened \/ ReadLine \/ NextWord \/ NoMoreWords \/ SkipLine
  \/ \E rc \in { 0, 1 } : CallBack(rc)
  \/ End \/ Clear

ParseSpec == ParseInit /\ [][ParseNext]_parseVars

-----------------------------------------------------------------------------
(* Properties. *)

\* No pointer is written outside the array, even after an allocation failed and the parser
\* went on with the next line, but for one case: malloc() gave no array in an earlier line,
\* max_tokens_ stayed raised, and the first word of the next line that has one is written
\* through NULL (text_file_parser.h:101, text_file_parser.h:109).
InsideArray ==
  IF at = "crashed"
  THEN /\ "malloc" \in Failures /\ unmade \in 1 .. line_num - 1
       /\ capacity = 0 /\ num_of_tokens_ = 1
  ELSE num_of_tokens_ <= capacity

\* A callback gets the words of its own line from the first one on, and all of them
\* unless an allocation failed in this very line; never a pointer into a line that
\* getline() has overwritten (text_file_parser.h:195).
OwnWords ==
  at = "split done" =>
    /\ \A k \in 1 .. num_of_tokens_ : tokens_[k] = << line_num, k >>
    /\ cut \/ num_of_tokens_ = file[line_num]

\* Whether the callback is due for a line: one for which there was no array counts as empty.
Due(n) == (file[n] # 0 /\ n # unmade) \/ ~skip_empty

\* The callback is called for every line in order, empty ones only if asked for, each
\* under its number in the file: up to the line before the one being split.
EachLineOnce ==
  LET behind == IF at \in { "split", "split done", "crashed" } THEN line_num - 1 ELSE line_num
  IN  /\ \A j, k \in 1 .. Len(calls) : j < k => calls[j] < calls[k]
      /\ { calls[k] : k \in 1 .. Len(calls) } = { n \in 1 .. behind : Due(n) }

\* Each line that is due reaches the callback once and in its turn, with its own words.
LinesDelivered == OwnWords /\ EachLineOnce
=============================================================================
