----------------------- MODULE TextFileParserProofs -----------------------
(***************************************************************************)
(* Theorems about TextFileParser, for all files, hints and numbers of      *)
(* calls and for every choice of calls that may fail.  Where malloc()      *)
(* gives no first array, saveTokenAddr() leaves max_tokens_ raised: the    *)
(* theorems say what becomes of that line and of the next one.             *)
(***************************************************************************)
EXTENDS TextFileParser, SequenceTheorems, TLAPS

Places == { "idle", "read", "split", "split done", "stopped", "crashed" }

ParseTypes ==
  /\ at \in Places
  /\ file \in Seq(Nat) /\ line_num \in 0 .. Len(file)
  /\ hint_size_ \in Nat \ {0}
  /\ capacity \in Nat /\ num_of_tokens_ \in Nat /\ max_tokens_ \in Nat
  /\ tokens_ \in Seq(Nat \X Nat)
  /\ word \in Nat
  /\ at \in { "split", "split done", "crashed" } => line_num # 0

-----------------------------------------------------------------------------
(* The array. *)

\* max_tokens_ is the size of the array.
Sized ==
  /\ at # "crashed" /\ max_tokens_ = capacity /\ num_of_tokens_ <= capacity
  /\ at # "idle" => unmade = 0

\* There is no array, although max_tokens_ says so, and no word since.
Unmade ==
  /\ at \in { "read", "split", "split done", "stopped" } /\ "malloc" \in Failures
  /\ capacity = 0 /\ max_tokens_ = hint_size_ /\ num_of_tokens_ = 0
  /\ unmade \in 1 .. line_num /\ (at = "split" => unmade # line_num)

\* A word was stored where there is no array.
Lost ==
  /\ at = "crashed" /\ "malloc" \in Failures
  /\ capacity = 0 /\ num_of_tokens_ = 1 /\ unmade \in 1 .. line_num - 1

ArrayInv == ParseTypes /\ (Sized \/ Unmade \/ Lost)

LEMMA ArrayIsInside == ArrayInv => InsideArray
<1>1. Sized => InsideArray
  BY DEF Sized, InsideArray
<1>2. Unmade => InsideArray
  <2>1. Unmade => num_of_tokens_ = 0 /\ capacity = 0
    BY DEF Unmade
  <2>2. Unmade => at # "crashed"
    BY DEF Unmade
  <2>3. QED
    BY <2>1, <2>2 DEF InsideArray
<1>3. Lost => InsideArray
  BY DEF Lost, InsideArray
<1>4. QED
  BY <1>1, <1>2, <1>3 DEF ArrayInv

\* A pointer is stored in its place, behind those of the same line, which stay.
Put(s, n, e) == SubSeq(s, 1, n) \o << e >> \o SubSeq(s, n + 2, Len(s))

LEMMA StorePuts ==
  ASSUME NEW S, NEW s \in Seq(S), NEW n \in Nat, n <= Len(s), NEW e \in S
  PROVE  /\ Put(s, n, e) \in Seq(S) /\ Len(Put(s, n, e)) >= n + 1
         /\ Put(s, n, e)[n + 1] = e /\ \A k \in 1 .. n : Put(s, n, e)[k] = s[k]
<1> DEFINE a == SubSeq(s, 1, n)
           b == SubSeq(s, n + 2, Len(s))
           m == a \o << e >>
<1>1. Len(s) \in Nat
  OBVIOUS
<1>2. a \in Seq(S) /\ Len(a) = n /\ \A i \in 1 .. n : a[i] = s[i]
  OBVIOUS
<1>3. b \in Seq(S)
  BY <1>1
<1>4. << e >> \in Seq(S) /\ Len(<< e >>) = 1 /\ << e >>[1] = e
  OBVIOUS
<1>5. Put(s, n, e) = m \o b
  BY DEF Put
<1> HIDE DEF a, b
<1>6. m \in Seq(S) /\ Len(m) = n + 1
  BY <1>2, <1>4
<1>7. m[n + 1] = e /\ \A i \in 1 .. n : m[i] = s[i]
  BY <1>2, <1>4
<1> HIDE DEF m
<1>8. m \o b \in Seq(S) /\ Len(m \o b) >= n + 1
  BY <1>3, <1>6
<1>9. \A i \in 1 .. n + 1 : (m \o b)[i] = m[i]
  BY <1>3, <1>6
<1>10. n + 1 \in 1 .. n + 1 /\ \A k \in 1 .. n : k \in 1 .. n + 1
  OBVIOUS
<1>11. QED
  BY <1>5, <1>7, <1>8, <1>9, <1>10

\* saveTokenAddr() stores the word in an array that has room for it, gives up on the line
\* with at least one word stored or because there is no array, or writes through NULL.
LEMMA NextWordStores ==
  ASSUME ArrayInv, Len(tokens_) >= num_of_tokens_, NextWord
  PROVE  /\ ArrayInv'
         /\ \/ /\ at' = "split" /\ num_of_tokens_' = num_of_tokens_ + 1
               /\ word' = word + 1 /\ cut' = cut /\ unmade' = unmade
               /\ Len(tokens_') >= num_of_tokens_'
               /\ tokens_'[num_of_tokens_'] = << line_num, word >>
               /\ \A k \in 1 .. num_of_tokens_ : tokens_'[k] = tokens_[k]
            \/ /\ at' = "split done" /\ cut' = TRUE
               /\ UNCHANGED << num_of_tokens_, tokens_, word >>
               /\ \/ num_of_tokens_ # 0 /\ unmade' = unmade
                  \/ unmade = 0 /\ unmade' = line_num
            \/ /\ at' = "crashed" /\ unmade' = unmade
               /\ Len(tokens_') >= num_of_tokens_'
         /\ UNCHANGED << file, line_num, calls, skip_empty >>
<1> DEFINE t == Put(tokens_, num_of_tokens_, << line_num, word >>)
<1>1. /\ at = "split" /\ saveTokenAddr
      /\ UNCHANGED << file, line_num, hint_size_, calls, skip_empty >>
  BY DEF NextWord, arguments
<1>2. ParseTypes /\ (Sized \/ Unmade)
  BY <1>1 DEF ArrayInv, Lost
<1>3. /\ capacity \in Nat /\ num_of_tokens_ \in Nat /\ max_tokens_ \in Nat
      /\ hint_size_ \in Nat \ {0}
      /\ word \in Nat /\ tokens_ \in Seq(Nat \X Nat) /\ file \in Seq(Nat)
      /\ line_num \in 0 .. Len(file) /\ line_num # 0
  BY <1>1, <1>2 DEF ParseTypes
<1>4. Len(file) \in Nat
  BY <1>3, LenProperties
<1>5. line_num \in Nat
  BY <1>3, <1>4
<1>6. << line_num, word >> \in Nat \X Nat
  BY <1>3, <1>5
<1>7. /\ t \in Seq(Nat \X Nat) /\ Len(t) >= num_of_tokens_ + 1
      /\ t[num_of_tokens_ + 1] = << line_num, word >>
      /\ \A k \in 1 .. num_of_tokens_ : t[k] = tokens_[k]
  <2>1. Len(tokens_) >= num_of_tokens_ /\ num_of_tokens_ <= Len(tokens_)
    BY <1>3, LenProperties
  <2> DEFINE S == Nat \X Nat
             e == << line_num, word >>
  <2>2. tokens_ \in Seq(S) /\ e \in S /\ num_of_tokens_ \in Nat
    BY <1>3, <1>6
  <2> HIDE DEF S, e
  <2>3. /\ Put(tokens_, num_of_tokens_, e) \in Seq(S)
        /\ Len(Put(tokens_, num_of_tokens_, e)) >= num_of_tokens_ + 1
        /\ Put(tokens_, num_of_tokens_, e)[num_of_tokens_ + 1] = e
        /\ \A k \in 1 .. num_of_tokens_ :
              Put(tokens_, num_of_tokens_, e)[k] = tokens_[k]
    BY <2>1, <2>2, StorePuts
  <2>4. QED
    BY <2>3 DEF S, e
<1> HIDE DEF t
<1>8. ASSUME NEW size \in Nat, NEW max \in Nat, Store(size, max)
      PROVE  /\ capacity' = size /\ max_tokens_' = max /\ num_of_tokens_' = num_of_tokens_ + 1
             /\ tokens_' = t /\ word' = word + 1 /\ cut' = cut /\ unmade' = unmade
             /\ at' = IF num_of_tokens_ < size THEN "split" ELSE "crashed"
             /\ ParseTypes'
  <2>1. /\ capacity' = size /\ max_tokens_' = max /\ num_of_tokens_' = num_of_tokens_ + 1
        /\ tokens_' = t /\ word' = word + 1 /\ cut' = cut /\ unmade' = unmade
        /\ at' = IF num_of_tokens_ < size THEN "split" ELSE "crashed"
    BY <1>1, <1>8 DEF Store, t, Put
  <2>2. num_of_tokens_ + 1 \in Nat /\ word + 1 \in Nat /\ at' \in Places
    BY <1>3, <2>1 DEF Places
  <2>3. ParseTypes'
    BY <1>1, <1>3, <1>7, <2>1, <2>2 DEF ParseTypes
  <2>4. QED
    BY <2>1, <2>3
<1>9. ASSUME Sized, NEW size \in Nat, num_of_tokens_ < size, Store(size, size)
      PROVE  at' = "split" /\ ArrayInv'
  <2>1. unmade = 0
    BY <1>1, <1>9 DEF Sized
  <2>2. /\ capacity' = size /\ max_tokens_' = size /\ num_of_tokens_' = num_of_tokens_ + 1
        /\ unmade' = 0 /\ at' = "split" /\ ParseTypes'
    BY <1>8, <1>9, <2>1
  <2>3. Sized'
    BY <1>3, <1>9, <2>2 DEF Sized
  <2>4. QED
    BY <2>2, <2>3 DEF ArrayInv
<1>10. CASE Sized /\ num_of_tokens_ # max_tokens_ /\ Store(capacity, max_tokens_)
  <2>1. num_of_tokens_ < capacity /\ max_tokens_ = capacity
    BY <1>3, <1>10 DEF Sized
  <2>2. QED
    BY <1>1, <1>3, <1>7, <1>8, <1>9, <1>10, <2>1
<1>11. CASE Sized /\ num_of_tokens_ = max_tokens_ /\ Store(More, More)
  <2>1. More \in Nat /\ num_of_tokens_ < More
    BY <1>3, <1>11 DEF More
  <2>2. QED
    BY <1>1, <1>3, <1>7, <1>8, <1>9, <1>11, <2>1
<1>12. CASE Unmade /\ Store(capacity, max_tokens_)
  <2>1. /\ "malloc" \in Failures /\ capacity = 0 /\ num_of_tokens_ = 0
        /\ unmade \in 1 .. line_num /\ unmade # line_num
    BY <1>1, <1>12 DEF Unmade
  <2>2. unmade \in 1 .. line_num - 1
    BY <1>5, <2>1
  <2>3. /\ capacity' = 0 /\ num_of_tokens_' = 1 /\ at' = "crashed" /\ unmade' = unmade
        /\ tokens_' = t /\ ParseTypes'
    BY <1>3, <1>8, <1>12, <2>1
  <2>4. Lost'
    BY <1>1, <2>1, <2>2, <2>3 DEF Lost
  <2>5. Len(tokens_') >= num_of_tokens_'
    BY <1>7, <2>1, <2>3
  <2>6. QED
    BY <1>1, <2>3, <2>4, <2>5 DEF ArrayInv
<1>13. CASE /\ Sized /\ num_of_tokens_ = max_tokens_ /\ capacity = 0
            /\ "malloc" \in Failures /\ GiveUp(More) /\ unmade' = line_num
  <2>1. /\ unmade = 0 /\ max_tokens_ = 0 /\ num_of_tokens_ = 0 /\ More = hint_size_
    BY <1>1, <1>3, <1>13 DEF Sized, More
  <2>2. /\ max_tokens_' = hint_size_ /\ at' = "split done" /\ cut' = TRUE
        /\ UNCHANGED << capacity, num_of_tokens_, tokens_, word >>
    BY <1>13, <2>1 DEF GiveUp
  <2>3. line_num \in 1 .. line_num
    BY <1>3, <1>5
  <2>4. /\ capacity' = 0 /\ num_of_tokens_' = 0 /\ hint_size_' = hint_size_
        /\ unmade' \in 1 .. line_num'
    BY <1>1, <1>13, <2>1, <2>2, <2>3
  <2>5. Unmade'
    BY <1>13, <2>2, <2>4 DEF Unmade
  <2>6. ParseTypes'
    BY <1>1, <1>3, <2>2 DEF ParseTypes, Places
  <2>7. QED
    BY <1>1, <1>13, <2>1, <2>2, <2>5, <2>6 DEF ArrayInv
<1>14. CASE /\ Sized /\ num_of_tokens_ = max_tokens_ /\ capacity # 0
            /\ GiveUp(More - hint_size_) /\ UNCHANGED unmade
  <2>1. More - hint_size_ = max_tokens_
    BY <1>3 DEF More
  <2>2. /\ max_tokens_' = max_tokens_ /\ at' = "split done" /\ cut' = TRUE
        /\ num_of_tokens_ # 0 /\ unmade' = unmade
        /\ UNCHANGED << capacity, num_of_tokens_, tokens_, word >>
    BY <1>3, <1>14, <2>1 DEF GiveUp, Sized
  <2>3. Sized'
    BY <1>1, <1>14, <2>2 DEF Sized
  <2>4. ParseTypes'
    BY <1>1, <1>3, <2>2 DEF ParseTypes, Places
  <2>5. QED
    BY <1>1, <2>2, <2>3, <2>4 DEF ArrayInv
<1>15. Unmade => num_of_tokens_ # max_tokens_
  BY <1>3 DEF Unmade
<1>16. \/ num_of_tokens_ # max_tokens_ /\ Store(capacity, max_tokens_)
       \/ num_of_tokens_ = max_tokens_ /\ Store(More, More)
       \/ /\ num_of_tokens_ = max_tokens_ /\ capacity = 0
          /\ "malloc" \in Failures /\ GiveUp(More) /\ unmade' = line_num
       \/ /\ num_of_tokens_ = max_tokens_ /\ capacity # 0
          /\ GiveUp(More - hint_size_) /\ UNCHANGED unmade
  BY <1>1 DEF saveTokenAddr
<1>17. QED
  BY <1>2, <1>10, <1>11, <1>12, <1>13, <1>14, <1>15, <1>16

-----------------------------------------------------------------------------
(* The lines. *)

\* What the array holds of the line being split: all words up to the present one, and a
\* word of every line that has one.
WordsInv ==
  /\ Len(tokens_) >= num_of_tokens_
  /\ at \in { "split", "split done" } =>
       /\ \A k \in 1 .. num_of_tokens_ : tokens_[k] = << line_num, k >>
       /\ num_of_tokens_ <= file[line_num]
  /\ at = "split" => ~cut /\ word = num_of_tokens_ + 1
  /\ at = "split done" =>
       /\ cut \/ num_of_tokens_ = file[line_num]
       /\ num_of_tokens_ = 0 => file[line_num] = 0 \/ line_num = unmade

ParseInv == ArrayInv /\ WordsInv

\* Every step keeps the array and what it holds.
LEMMA ParseStepKeeps ==
  ASSUME ParseInv, ParseNext
  PROVE  ParseInv'
<1>0. /\ ParseTypes /\ (Sized \/ Unmade \/ Lost) /\ WordsInv /\ Len(file) \in Nat
      /\ Len(tokens_) \in Nat
  BY LenProperties DEF ParseInv, ArrayInv, ParseTypes
<1>1. \A n \in 1 .. Len(file) : file[n] \in Nat
  BY <1>0, ElementOfSeq DEF ParseTypes
<1>2. ASSUME NEW f \in Contents, NEW skip \in BOOLEAN, NEW hint \in Hints, Begin(f, skip, hint)
      PROVE  ParseInv'
  <2>1. f \in Seq(Nat) /\ Len(f) \in Nat /\ hint \in Nat
    BY ParserAssumption, LenProperties
  <2>2. << >> \in Seq(Nat \X Nat) /\ Len(<< >>) = 0
    BY EmptySeq
  <2>3. /\ at' = "read" /\ file' = f /\ line_num' = 0 /\ word' = 1
        /\ hint_size_' \in Nat \ {0}
        /\ capacity' = 0 /\ max_tokens_' = 0 /\ num_of_tokens_' = 0 /\ tokens_' = << >>
        /\ unmade' = 0
    BY <1>2, <2>1 DEF Begin, NoTokens, DEFAULT_HINT_SIZE
  <2>4. ParseTypes' /\ Sized'
    BY <2>1, <2>2, <2>3 DEF ParseTypes, Sized, Places
  <2>5. WordsInv'
    BY <2>2, <2>3 DEF WordsInv
  <2>6. QED
    BY <2>4, <2>5 DEF ParseInv, ArrayInv
<1>3. CASE ReadLine
  <2>1. /\ at = "read" /\ at' = "split" /\ line_num' = line_num + 1 /\ line_num < Len(file)
        /\ num_of_tokens_' = 0 /\ word' = 1 /\ cut' = FALSE
        /\ UNCHANGED << file, hint_size_, capacity, max_tokens_, tokens_, unmade >>
    BY <1>3 DEF ReadLine, arguments
  <2>2. line_num' \in 1 .. Len(file)
    BY <1>0, <2>1 DEF ParseTypes
  <2>3. file[line_num'] \in Nat
    BY <1>1, <2>2
  <2>4. ParseTypes'
    BY <1>0, <2>1, <2>2 DEF ParseTypes, Places
  <2>5. Sized' \/ Unmade'
    <3>1. line_num \in Nat /\ line_num' = line_num + 1 /\ capacity \in Nat
      BY <1>0, <2>1 DEF ParseTypes
    <3>2. Sized => Sized'
      BY <2>1, <3>1 DEF Sized
    <3>3. ASSUME Unmade PROVE Unmade'
      <4>1. unmade \in 1 .. line_num
        BY <3>3 DEF Unmade
      <4>2. unmade \in 1 .. line_num + 1 /\ unmade # line_num + 1
        BY <3>1, <4>1
      <4>3. QED
        BY <2>1, <3>1, <3>3, <4>2 DEF Unmade
    <3>4. ~Lost
      BY <2>1 DEF Lost
    <3>5. QED
      BY <1>0, <3>2, <3>3, <3>4
  <2>6. WordsInv'
    BY <1>0, <2>1, <2>3 DEF WordsInv
  <2>7. QED
    BY <2>4, <2>6, <2>5 DEF ParseInv, ArrayInv
<1>4. CASE NextWord
  <2>1. /\ ArrayInv'
        /\ \/ /\ at' = "split" /\ num_of_tokens_' = num_of_tokens_ + 1
              /\ word' = word + 1 /\ cut' = cut
              /\ Len(tokens_') >= num_of_tokens_'
              /\ tokens_'[num_of_tokens_'] = << line_num, word >>
              /\ \A k \in 1 .. num_of_tokens_ : tokens_'[k] = tokens_[k]
           \/ /\ at' = "split done" /\ cut' = TRUE
              /\ num_of_tokens_ # 0 \/ unmade' = line_num
              /\ UNCHANGED << num_of_tokens_, tokens_, word >>
           \/ at' = "crashed" /\ Len(tokens_') >= num_of_tokens_'
        /\ UNCHANGED << file, line_num >>
    BY <1>0, <1>4, NextWordStores DEF ParseInv, WordsInv
  <2>2. at = "split" /\ word <= file[line_num] /\ word = num_of_tokens_ + 1 /\ ~cut
    BY <1>0, <1>4 DEF NextWord, WordsInv
  <2>3. line_num \in 1 .. Len(file) /\ file[line_num] \in Nat /\ num_of_tokens_ \in Nat
    BY <1>0, <1>1, <2>2 DEF ParseTypes
  <2>4. CASE at' = "split"
    <3>1. \A k \in 1 .. num_of_tokens_ : tokens_[k] = << line_num, k >>
      BY <1>0, <2>2 DEF WordsInv
    <3>2. \A k \in 1 .. num_of_tokens_ + 1 : k \in 1 .. num_of_tokens_ \/ k = num_of_tokens_ + 1
      BY <2>3
    <3>3. \A k \in 1 .. num_of_tokens_' : tokens_'[k] = << line_num, k >>
      BY <2>1, <2>2, <2>4, <3>1, <3>2
    <3>4. /\ num_of_tokens_' = num_of_tokens_ + 1 /\ word' = word + 1 /\ cut' = cut
          /\ Len(tokens_') >= num_of_tokens_' /\ file' = file /\ line_num' = line_num
      BY <2>1, <2>4
    <3>5. num_of_tokens_' <= file'[line_num']
      BY <2>2, <2>3, <3>4
    <3>6. WordsInv'
      BY <2>2, <2>3, <2>4, <3>3, <3>4, <3>5 DEF WordsInv
    <3>7. QED
      BY <2>1, <3>6 DEF ParseInv
  <2>5. CASE at' = "split done"
    BY <1>0, <2>1, <2>2, <2>3, <2>5 DEF ParseInv, WordsInv
  <2>6. CASE at' = "crashed"
    BY <2>1, <2>6 DEF ParseInv, WordsInv
  <2>7. QED
    BY <2>1, <2>4, <2>5, <2>6
<1>5. CASE NoMoreWords
  <2>1. /\ at = "split" /\ word > file[line_num] /\ at' = "split done"
        /\ UNCHANGED << file, hint_size_, line_num, capacity, max_tokens_, num_of_tokens_,
                        tokens_, word, cut, unmade >>
    BY <1>5 DEF NoMoreWords, tokens, arguments
  <2>2. line_num \in 0 .. Len(file) /\ line_num # 0
    BY <1>0, <2>1 DEF ParseTypes
  <2>3. file[line_num] \in Nat
    BY <1>0, <1>1, <2>2
  <2>4. ParseTypes' /\ (Sized' \/ Unmade')
    BY <1>0, <2>1 DEF ParseTypes, Sized, Unmade, Lost, Places
  <2>5. num_of_tokens_ = file[line_num]
    <3>1. num_of_tokens_ \in Nat
      BY <1>0 DEF ParseTypes
    <3>2. num_of_tokens_ <= file[line_num] /\ word = num_of_tokens_ + 1
      BY <1>0, <2>1 DEF WordsInv
    <3>3. word > file[line_num]
      BY <2>1
    <3>4. QED
      BY <2>3, <3>1, <3>2, <3>3
  <2>6. WordsInv'
    BY <1>0, <2>1, <2>5 DEF WordsInv
  <2>7. QED
    BY <2>4, <2>6 DEF ParseInv, ArrayInv
<1>6. ASSUME \/ at = "idle" /\ at' = "idle"
             \/ at = "split done" /\ at' \in { "read", "stopped" },
             UNCHANGED << file, hint_size_, line_num, tokens, word, unmade >>
      PROVE  ParseInv'
  <2>1. /\ at' \in Places /\ at' # "crashed"
        /\ at' \notin { "split", "split done", "crashed" } /\ at' # "split" /\ at' # "split done"
    BY <1>6 DEF Places
  <2>2. UNCHANGED << capacity, max_tokens_, num_of_tokens_, tokens_ >>
    BY <1>6 DEF tokens
  <2>3. ParseTypes'
    BY <1>0, <1>6, <2>1, <2>2 DEF ParseTypes
  <2>4. Sized' \/ Unmade'
    BY <1>0, <1>6, <2>2 DEF Sized, Unmade, Lost
  <2>5. WordsInv'
    BY <1>0, <2>1, <2>2 DEF WordsInv
  <2>6. QED
    BY <2>3, <2>4, <2>5 DEF ParseInv, ArrayInv
<1>7. CASE NotOpened
  BY <1>6, <1>7 DEF NotOpened
<1>8. CASE SkipLine \/ (\E r \in { 0, 1 } : CallBack(r)) \/ Clear
  <2>1. /\ \/ at = "idle" /\ at' = "idle"
           \/ at = "split done" /\ at' \in { "read", "stopped" }
        /\ UNCHANGED << file, hint_size_, line_num, tokens, word, unmade >>
    BY <1>8 DEF SkipLine, CallBack, Clear, arguments
  <2>2. QED
    BY <1>6, <2>1
<1>9. CASE End
  <2>1. << >> \in Seq(Nat \X Nat) /\ Len(<< >>) = 0
    BY EmptySeq
  <2>2. /\ at' = "idle" /\ UNCHANGED << file, hint_size_, line_num, word >>
        /\ capacity' = 0 /\ max_tokens_' = 0 /\ num_of_tokens_' = 0 /\ tokens_' = << >>
    BY <1>9 DEF End, NoTokens, arguments
  <2>3. ParseTypes'
    BY <1>0, <2>1, <2>2 DEF ParseTypes, Places
  <2>4. Sized'
    BY <2>2 DEF Sized
  <2>5. WordsInv'
    BY <2>1, <2>2 DEF WordsInv
  <2>6. QED
    BY <2>3, <2>4, <2>5 DEF ParseInv, ArrayInv
<1>10. QED
  BY <1>2, <1>3, <1>4, <1>5, <1>7, <1>8, <1>9 DEF ParseNext

LEMMA ParseInvariant == ParseSpec => []ParseInv
<1>1. ParseInit => ParseInv
  <2>1. << >> \in Seq(Nat) /\ << >> \in Seq(Nat \X Nat) /\ Len(<< >>) = 0
    BY EmptySeq
  <2>2. QED
    BY <2>1 DEF ParseInit, ParseInv, ArrayInv, ParseTypes, Sized, WordsInv, Places,
                DEFAULT_HINT_SIZE
<1>2. ParseInv /\ [ParseNext]_parseVars => ParseInv'
  <2> SUFFICES ASSUME ParseInv, [ParseNext]_parseVars PROVE ParseInv'
    OBVIOUS
  <2>1. CASE ParseNext
    BY <2>1, ParseStepKeeps
  <2>2. CASE UNCHANGED parseVars
    <3>1. ArrayInv'
      BY <2>2 DEF parseVars, arguments, tokens, ParseInv, ArrayInv, ParseTypes, Sized, Unmade, Lost
    <3>2. WordsInv'
      BY <2>2 DEF parseVars, arguments, tokens, ParseInv, WordsInv
    <3>3. QED
      BY <3>1, <3>2 DEF ParseInv
  <2>3. QED
    BY <2>1, <2>2
<1>3. QED
  BY <1>1, <1>2, PTL DEF ParseSpec

\* For all files, hints and failures: no pointer is written outside the array of Tokens, also
\* in the lines after one that was given up, unless malloc() gave no array in an earlier line;
\* then it is the first word since, and it is written through NULL.
THEOREM NeverOutside == ParseSpec => []InsideArray
BY ParseInvariant, ArrayIsInside, PTL DEF ParseInv

-----------------------------------------------------------------------------
(* The calls. *)

\* The last line that was skipped or called for.
Behind == IF at \in { "split", "split done", "crashed" } THEN line_num - 1 ELSE line_num

CallsInv == calls \in Seq(Nat) /\ EachLineOnce

LEMMA EachLineUpToBehind ==
  EachLineOnce <=>
    /\ \A j, k \in 1 .. Len(calls) : j < k => calls[j] < calls[k]
    /\ { calls[k] : k \in 1 .. Len(calls) } = { n \in 1 .. Behind : Due(n) }
BY DEF EachLineOnce, Behind

\* A step that neither calls nor goes past a line leaves what was called.
LEMMA NoCall ==
  ASSUME CallsInv, UNCHANGED << file, skip_empty, calls >>, Behind' = Behind,
         unmade' = unmade \/ (\A n \in 1 .. Behind : n # unmade /\ n # unmade')
  PROVE  CallsInv'
<1>1. calls \in Seq(Nat) /\ EachLineOnce
  BY DEF CallsInv
<1>2. \A n \in 1 .. Behind : Due(n)' = Due(n)
  BY DEF Due
<1> DEFINE due == { n \in 1 .. Behind : Due(n) }
<1>3. due' = due
  BY <1>2
<1>4. /\ \A j, k \in 1 .. Len(calls) : j < k => calls[j] < calls[k]
      /\ { calls[k] : k \in 1 .. Len(calls) } = due
  BY <1>1, EachLineUpToBehind
<1>5. EachLineOnce'
  BY <1>3, <1>4 DEF EachLineOnce, Behind
<1>6. QED
  BY <1>1, <1>5 DEF CallsInv

\* The last element of an interval.
LEMMA LastOf ==
  ASSUME NEW n \in Nat, n >= 1
  PROVE  \A i : i \in 1 .. n <=> i \in 1 .. n - 1 \/ i = n
OBVIOUS

LEMMA CallStepKeeps ==
  ASSUME ParseInv, CallsInv, ParseNext
  PROVE  CallsInv'
<1>0. ParseTypes /\ WordsInv /\ line_num \in Nat
  <2>1. ParseTypes /\ WordsInv
    BY DEF ParseInv, ArrayInv
  <2>2. Len(file) \in Nat /\ line_num \in 0 .. Len(file)
    BY <2>1, LenProperties DEF ParseTypes
  <2>3. QED
    BY <2>1, <2>2
<1>1. ASSUME NEW f \in Contents, NEW skip \in BOOLEAN, NEW hint \in Hints, Begin(f, skip, hint)
      PROVE  CallsInv'
  <2>1. calls' = << >> /\ line_num' = 0 /\ at' = "read"
    BY <1>1 DEF Begin
  <2>2. << >> \in Seq(Nat) /\ Len(<< >>) = 0 /\ 1 .. 0 = {}
    OBVIOUS
  <2>3. QED
    BY <2>1, <2>2 DEF CallsInv, EachLineOnce
<1>2. CASE ReadLine
  <2>1. /\ at = "read" /\ at' = "split" /\ line_num' = line_num + 1
        /\ UNCHANGED << file, skip_empty, calls, unmade >>
    BY <1>2 DEF ReadLine, arguments
  <2>2. QED
    BY <1>0, <2>1, NoCall DEF Behind
<1>3. CASE NextWord
  <2>1. /\ at = "split" /\ at' \in { "split", "split done", "crashed" }
        /\ unmade' = unmade \/ (unmade = 0 /\ unmade' = line_num)
    BY <1>0, <1>3, NextWordStores DEF ParseInv, WordsInv, NextWord
  <2>2. UNCHANGED << file, line_num, skip_empty, calls >>
    BY <1>3 DEF NextWord, arguments
  <2>3. Behind = line_num - 1 /\ Behind' = Behind
    BY <2>1, <2>2 DEF Behind
  <2>4. unmade' = unmade \/ (\A n \in 1 .. Behind : n # unmade /\ n # unmade')
    <3>1. CASE unmade' = unmade
      BY <3>1
    <3>2. CASE unmade = 0 /\ unmade' = line_num
      <4>1. \A n \in 1 .. line_num - 1 : n # 0 /\ n # line_num
        BY <1>0
      <4>2. QED
        BY <2>3, <3>2, <4>1
    <3>3. QED
      BY <2>1, <3>1, <3>2
  <2>5. QED
    BY <2>2, <2>3, <2>4, NoCall
<1>4. CASE NoMoreWords
  <2>1. /\ at = "split" /\ at' = "split done"
        /\ UNCHANGED << file, line_num, skip_empty, calls, unmade >>
    BY <1>4 DEF NoMoreWords, arguments
  <2>2. QED
    BY <2>1, NoCall DEF Behind
<1>5. CASE NotOpened \/ End \/ Clear
  <2>1. /\ at \in { "idle", "read", "stopped" } /\ at' = "idle"
        /\ UNCHANGED << file, line_num, skip_empty, calls, unmade >>
    BY <1>5 DEF NotOpened, End, Clear, arguments
  <2>2. QED
    BY <2>1, NoCall DEF Behind
<1> DEFINE seen == { calls[k] : k \in 1 .. Len(calls) }
           due(b) == { n \in 1 .. b : Due(n) }
<1>6. ASSUME at = "split done"
      PROVE  /\ calls \in Seq(Nat) /\ Len(calls) \in Nat
             /\ \A j, k \in 1 .. Len(calls) : j < k => calls[j] < calls[k]
             /\ seen = due(line_num - 1)
             /\ line_num >= 1 /\ line_num \in Nat
             /\ (file[line_num] = 0 \/ line_num = unmade) <=> num_of_tokens_ = 0
  <2>1. calls \in Seq(Nat) /\ EachLineOnce
    BY DEF CallsInv
  <2>2. Behind = line_num - 1
    BY <1>6 DEF Behind
  <2>3. /\ \A j, k \in 1 .. Len(calls) : j < k => calls[j] < calls[k]
        /\ seen = due(line_num - 1)
    BY <2>1, <2>2, EachLineUpToBehind
  <2>4. line_num \in 1 .. Len(file) /\ num_of_tokens_ \in Nat /\ file \in Seq(Nat)
    <3>1. /\ line_num \in 0 .. Len(file) /\ line_num # 0
          /\ num_of_tokens_ \in Nat /\ file \in Seq(Nat)
      BY <1>0, <1>6 DEF ParseTypes
    <3>2. Len(file) \in Nat
      BY <3>1, LenProperties
    <3>3. QED
      BY <3>1, <3>2
  <2>5. file[line_num] \in Nat
    BY <2>4, ElementOfSeq
  <2>6. /\ num_of_tokens_ <= file[line_num]
        /\ num_of_tokens_ = 0 => file[line_num] = 0 \/ line_num = unmade
    BY <1>0, <1>6 DEF WordsInv
  <2>7. line_num = unmade => num_of_tokens_ = 0
    <3>1. line_num # 0 /\ (Sized \/ Unmade \/ Lost)
      BY <1>0, <1>6 DEF ParseTypes, ParseInv, ArrayInv
    <3>2. Sized => unmade = 0
      BY <1>6 DEF Sized
    <3>3. Unmade => num_of_tokens_ = 0
      BY DEF Unmade
    <3>4. ~Lost
      BY <1>6 DEF Lost
    <3>5. QED
      BY <3>1, <3>2, <3>3, <3>4
  <2>8. (file[line_num] = 0 \/ line_num = unmade) <=> num_of_tokens_ = 0
    BY <2>4, <2>5, <2>6, <2>7
  <2>9. line_num >= 1 /\ line_num \in Nat /\ Len(calls) \in Nat
    BY <2>1, <2>4, LenProperties
  <2>10. QED
    BY <2>1, <2>3, <2>8, <2>9
<1>7. ASSUME at = "split done", UNCHANGED << file, skip_empty, line_num, unmade >>,
             at' \notin { "split", "split done", "crashed" }, calls' \in Seq(Nat),
             \A j, k \in 1 .. Len(calls') : j < k => calls'[j] < calls'[k],
             { calls'[k] : k \in 1 .. Len(calls') } = due(line_num)
      PROVE  CallsInv'
  <2>1. Behind' = line_num
    BY <1>7 DEF Behind
  <2>2. \A n : Due(n)' = Due(n)
    BY <1>7 DEF Due
  <2>3. EachLineOnce'
    BY <1>7, <2>2 DEF EachLineOnce
  <2>4. QED
    BY <1>7, <2>3 DEF CallsInv
<1>8. CASE SkipLine
  <2>1. /\ at = "split done" /\ num_of_tokens_ = 0 /\ skip_empty /\ at' = "read"
        /\ UNCHANGED << file, skip_empty, line_num, calls, unmade >>
    BY <1>8 DEF SkipLine, arguments
  <2>2. ~Due(line_num)
    BY <1>6, <2>1 DEF Due
  <2>3. line_num >= 1 /\ line_num \in Nat
    BY <1>6, <2>1
  <2>4. line_num \notin 1 .. line_num - 1
    BY <2>3
  <2>5. due(line_num) = due(line_num - 1)
    BY <2>2, <2>3, <2>4, LastOf
  <2>6. QED
    BY <1>6, <1>7, <2>1, <2>5
<1>9. ASSUME NEW rc \in { 0, 1 }, CallBack(rc)
      PROVE  CallsInv'
  <2>1. /\ at = "split done" /\ ~(num_of_tokens_ = 0 /\ skip_empty)
        /\ at' \notin { "split", "split done", "crashed" } /\ calls' = Append(calls, line_num)
        /\ UNCHANGED << file, skip_empty, line_num, unmade >>
    BY <1>9 DEF CallBack, arguments
  <2>2. Due(line_num)
    BY <1>6, <2>1 DEF Due
  <2>3. /\ line_num >= 1 /\ line_num \in Nat
        /\ calls \in Seq(Nat) /\ Len(calls) \in Nat
    BY <1>6, <2>1
  <2>4. due(line_num) = due(line_num - 1) \cup { line_num }
    BY <2>2, <2>3, LastOf
  <2>5. /\ calls' \in Seq(Nat) /\ Len(calls') = Len(calls) + 1
        /\ calls'[Len(calls) + 1] = line_num
        /\ \A k \in 1 .. Len(calls) : calls'[k] = calls[k]
    <3> DEFINE longer == Append(calls, line_num)
    <3>1. /\ longer \in Seq(Nat) /\ Len(longer) = Len(calls) + 1
          /\ longer[Len(calls) + 1] = line_num
          /\ \A k \in 1 .. Len(calls) : longer[k] = calls[k]
      BY <2>3, AppendProperties
    <3>2. calls' = longer
      BY <2>1
    <3> HIDE DEF longer
    <3>3. QED
      BY <3>1, <3>2
  <2>6. \A k : k \in 1 .. Len(calls') <=> k \in 1 .. Len(calls) \/ k = Len(calls) + 1
    BY <2>3, <2>5
  <2>7. { calls'[k] : k \in 1 .. Len(calls') } = seen \cup { line_num }
    BY <2>5, <2>6
  <2>8. \A k \in 1 .. Len(calls) : calls[k] < line_num
    <3>1. \A k \in 1 .. Len(calls) : calls[k] \in 1 .. line_num - 1
      BY <1>6, <2>1
    <3>2. QED
      BY <2>3, <3>1
  <2>9. \A j, k \in 1 .. Len(calls') : j < k => calls'[j] < calls'[k]
    <3> SUFFICES ASSUME NEW j \in 1 .. Len(calls'), NEW k \in 1 .. Len(calls'), j < k
                 PROVE  calls'[j] < calls'[k]
      OBVIOUS
    <3>1. j \in 1 .. Len(calls)
      BY <2>3, <2>5
    <3>2. CASE k \in 1 .. Len(calls)
      BY <1>6, <2>1, <2>5, <3>1, <3>2
    <3>3. CASE k = Len(calls) + 1
      BY <2>5, <2>8, <3>1, <3>3
    <3>4. QED
      BY <2>6, <3>2, <3>3
  <2>10. QED
    BY <1>6, <1>7, <2>1, <2>4, <2>5, <2>7, <2>9
<1>10. QED
  BY <1>1, <1>2, <1>3, <1>4, <1>5, <1>8, <1>9 DEF ParseNext

\* For all files, hints and failures: the callback is called for every line that is due, once
\* and in its turn, with the words of that line and no others, and with all of them unless an
\* allocation failed in this very line; a line for which malloc() gave no array counts as empty.
THEOREM EveryLineDelivered == ParseSpec => []LinesDelivered
<1>1. ParseInit => CallsInv
  <2>1. << >> \in Seq(Nat) /\ Len(<< >>) = 0 /\ 1 .. 0 = {}
    OBVIOUS
  <2>2. QED
    BY <2>1 DEF ParseInit, CallsInv, EachLineOnce
<1>2. ParseInv /\ CallsInv /\ [ParseNext]_parseVars => CallsInv'
  <2> SUFFICES ASSUME ParseInv, CallsInv, [ParseNext]_parseVars PROVE CallsInv'
    OBVIOUS
  <2>1. CASE ParseNext
    BY <2>1, CallStepKeeps
  <2>2. CASE UNCHANGED parseVars
    <3>1. UNCHANGED << at, line_num, file, skip_empty, calls, unmade >>
      BY <2>2 DEF parseVars, arguments
    <3>2. QED
      BY <3>1, NoCall DEF Behind
  <2>3. QED
    BY <2>1, <2>2
<1>3. ParseInv /\ CallsInv => LinesDelivered
  BY DEF ParseInv, CallsInv, WordsInv, LinesDelivered, OwnWords
<1>4. QED
  BY <1>1, <1>2, <1>3, ParseInvariant, PTL DEF ParseSpec
=============================================================================
