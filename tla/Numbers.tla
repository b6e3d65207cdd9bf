------------------------------ MODULE Numbers ------------------------------
(***************************************************************************)
(* The functions of the library on numbers: String::strToI64() and         *)
(* strToU64() (src/string.cc), the byte order conversions of Endian        *)
(* (include/nebula/endian.h), and LogLevel::logMask() and logUpto()        *)
(* (include/nebula/app_logger.h).  A word has Width bits instead of 64 and *)
(* a byte Base values instead of 256; the suffixes multiply by what        *)
(* Multiplier says.  One call is made.                                     *)
(***************************************************************************)
EXTENDS Integers, Sequences, FiniteSetsExt

CONSTANTS
  Width,       \* bits of a long
  Values,      \* the numbers that strings spell, in range or not
  Multiplier,  \* what each suffix stands for
  Base,        \* values of a byte
  Sizes        \* bytes of the words that are converted

ASSUME NumbersAssumption ==
  /\ Width \in Nat \ {0} /\ Values \subseteq Int
  /\ \A s \in DOMAIN Multiplier : Multiplier[s] \in Nat \ {0}
  /\ Base \in Nat \ {0, 1} /\ Sizes \subseteq Nat \ {0}

VARIABLES
  asked,  \* the last call and its arguments
  answer  \* what it returned

numberVars == << asked, answer >>

NumberInit == asked = [fn |-> "none"] /\ answer = 0

\* As b ^ n, by multiplication.
Power(b, n) ==
  LET power[i \in 0 .. n] == IF i = 0 THEN 1 ELSE b * power[i - 1]
  IN  power[n]

Modulo    == Power(2, Width)
LONG_MAX  == Power(2, Width - 1) - 1
LONG_MIN  == -Power(2, Width - 1)
ULONG_MAX == Modulo - 1

\* A product that a signed register keeps.
Signed(n) == ((n - LONG_MIN) % Modulo) + LONG_MIN

-----------------------------------------------------------------------------
(* Numbers as strings: the digits, and the character after them.           *)

\* Both saturate; strtoul() negates in unsigned arithmetic.
strtol(v) == IF v > LONG_MAX THEN LONG_MAX ELSE IF v < LONG_MIN THEN LONG_MIN ELSE v
strtoul(v) == IF v > ULONG_MAX \/ v < -ULONG_MAX THEN ULONG_MAX ELSE v % Modulo

\* Any character but the suffixes ends the number.
Factor(next, parse_suffix) ==
  IF parse_suffix /\ next \in DOMAIN Multiplier THEN Multiplier[next] ELSE 1

\* Mutant: a saturated value is multiplied like any other.
strToI64Always(v, next, parse_suffix) == Signed(strtol(v) * Factor(next, parse_suffix))

strToI64(v, next, parse_suffix) ==
  IF strtol(v) \in { LONG_MIN, LONG_MAX } THEN strtol(v)
  ELSE Signed(strtol(v) * Factor(next, parse_suffix))

strToU64(v, next, parse_suffix) ==
  IF strtoul(v) = ULONG_MAX THEN ULONG_MAX
  ELSE (strtoul(v) * Factor(next, parse_suffix)) % Modulo

-----------------------------------------------------------------------------
(* Byte order.  swap64() and swap32() shift byte after byte from one word  *)
(* into the other, and swap16() does it in one expression.                 *)

\* Mutant: the loop shifts its result once too often.
swapLate(size, in) ==
  LET loop[i \in 0 .. size] ==
        IF i = 0 THEN << 0, in >>
        ELSE << (loop[i - 1][1] + (loop[i - 1][2] % Base)) * Base, loop[i - 1][2] \div Base >>
  IN  loop[size][1] % Power(Base, size)

swap(size, in) ==
  LET loop[i \in 0 .. size] ==
        IF i = 0 THEN << 0, in >>
        ELSE << loop[i - 1][1] * Base + (loop[i - 1][2] % Base), loop[i - 1][2] \div Base >>
  IN  loop[size][1] % Power(Base, size)

\* toBe16() and the others, on a host that is big-endian or little-endian; the
\* conversion back is the same.
toBe(size, in, host) == IF host = "big" THEN in ELSE swap(size, in)
toLe(size, in, host) == IF host = "little" THEN in ELSE swap(size, in)

-----------------------------------------------------------------------------
EMERGENCY == 0
DEBUGGING == 7
KnownLevel(level) == level >= EMERGENCY /\ level <= DEBUGGING

logMask(level) == IF KnownLevel(level) THEN Power(2, level) ELSE 0
logUpto(level) == IF KnownLevel(level) THEN Power(2, level + 1) - 1 ELSE 0

-----------------------------------------------------------------------------
(* Calls. *)

Nexts == DOMAIN Multiplier \cup { "" }

Parse(v, next, parse_suffix) ==
  \/ /\ asked' = [fn |-> "strToI64", v |-> v, next |-> next, suffix |-> parse_suffix]
     /\ answer' = strToI64(v, next, parse_suffix)
  \/ /\ asked' = [fn |-> "strToU64", v |-> v, next |-> next, suffix |-> parse_suffix]
     /\ answer' = strToU64(v, next, parse_suffix)

Convert(size, in, host) ==
  \/ /\ asked' = [fn |-> "toBe", size |-> size, in |-> in, host |-> host]
     /\ answer' = toBe(size, in, host)
  \/ /\ asked' = [fn |-> "toLe", size |-> size, in |-> in, host |-> host]
     /\ answer' = toLe(size, in, host)

Mask(level) ==
  /\ asked' = [fn |-> "logUpto", level |-> level]
  /\ answer' = logUpto(level)

\* One call; none depends on another.
NumberNext ==
  /\ asked.fn = "none"
  /\ \/ \E v \in Values, next \in Nexts, parse_suffix \in BOOLEAN :
          Parse(v, next, parse_suffix)
     \/ \E size \in Sizes : \E in \in 0 .. Power(Base, size) - 1, host \in { "big", "little" } :
          Convert(size, in, host)
     \/ \E level \in EMERGENCY - 1 .. DEBUGGING + 1 : Mask(level)

-----------------------------------------------------------------------------
(* Properties. *)

\* A number with its suffix is exact whenever the product is a value of the type, and
\* digits that do not fit saturate on their side. Only a product that overflows is wrong,
\* by a multiple of 2^64 which the caller cannot see (string.cc:41).
ParsedExactly ==
  /\ asked.fn = "strToI64" =>
       LET product == asked.v * Factor(asked.next, asked.suffix)
       IN  /\ product \in LONG_MIN .. LONG_MAX => answer = product
           /\ asked.v > LONG_MAX => answer = LONG_MAX
           /\ asked.v < LONG_MIN => answer = LONG_MIN
           /\ answer \in LONG_MIN .. LONG_MAX
           /\ answer \in { LONG_MIN, LONG_MAX } \/ (answer - product) % Modulo = 0
  /\ asked.fn = "strToU64" =>
       LET product == asked.v * Factor(asked.next, asked.suffix)
       IN  /\ product \in 0 .. ULONG_MAX => answer = product
           /\ asked.v > ULONG_MAX \/ asked.v < -ULONG_MAX => answer = ULONG_MAX
           /\ answer = ULONG_MAX \/ (answer - product) % Modulo = 0

\* The byte at place k of a word, counted from its lowest.
Digit(in, k) == (in \div Power(Base, k)) % Base

\* The byte that lies at address k of a word of that size in the host's memory.
InMemory(size, in, host, k) == Digit(in, IF host = "big" THEN size - 1 - k ELSE k)

\* On either host the bytes of a converted word lie in memory in the order its name
\* promises, and converting it once more gives the word back (endian.h:90).
OrderedInMemory ==
  asked.fn \in { "toBe", "toLe" } =>
    /\ \A k \in 0 .. asked.size - 1 :
         InMemory(asked.size, answer, asked.host, k)
           = Digit(asked.in, IF asked.fn = "toBe" THEN asked.size - 1 - k ELSE k)
    /\ asked.in = IF asked.fn = "toBe" THEN toBe(asked.size, answer, asked.host)
                  ELSE toLe(asked.size, answer, asked.host)

\* The masks of some levels, added up.
Masks(levels) == FoldSet(LAMBDA l, sum : sum + logMask(l), 0, levels)

\* The mask up to a level is made of the masks of the levels up to it.
MasksAdd ==
  asked.fn = "logUpto" =>
    answer = IF KnownLevel(asked.level) THEN Masks(EMERGENCY .. asked.level) ELSE 0
=============================================================================
