-------------------------- MODULE FileHandleProofs --------------------------
(***************************************************************************)
(* Theorems about FileHandle, for every size of its buffer, width of its   *)
(* counter and number of files.                                            *)
(***************************************************************************)
EXTENDS FileHandle, SequenceTheorems, WellFoundedInduction, TLAPS

-----------------------------------------------------------------------------
(* The functions of CString.                                              *)

LEMMA Joined ==
  ASSUME NEW S, NEW s \in Seq(S), NEW t \in Seq(S)
  PROVE  /\ s \o t \in Seq(S) /\ Len(s) \in Nat /\ Len(t) \in Nat
         /\ Len(s \o t) = Len(s) + Len(t)
         /\ \A i \in 1 .. Len(s) : (s \o t)[i] = s[i]
         /\ \A i \in 1 .. Len(t) : (s \o t)[Len(s) + i] = t[i]
<1>1. Len(s) \in Nat /\ Len(t) \in Nat
  OBVIOUS
<1>2. QED
  BY <1>1

\* The equation of the loop of strlcpy().
CopyLoop(src, siz, copy) ==
  copy = [i \in Nat |-> IF siz - (i + 1) = 0          THEN i
                        ELSE IF Byte(src, i + 1) = NUL THEN i + 1
                        ELSE copy[i + 1]]

\* What the loop returns from each place.
CopyEnd(L, M, i) ==
  IF i <= M /\ L >= M THEN M ELSE IF i = M THEN M ELSE IF i >= L THEN i + 1 ELSE L + 1

LEMMA CopyLoopIs ==
  ASSUME NEW Char, NUL \notin Char, NEW src \in Seq(Char), NEW siz \in Nat \ {0}
  PROVE  CopyLoop(src, siz, [i \in Nat |-> CopyEnd(Len(src), siz - 1, i)])
<1> DEFINE L == Len(src)
           M == siz - 1
           g == [i \in Nat |-> CopyEnd(L, M, i)]
<1>1. L \in Nat /\ M \in Nat
  OBVIOUS
<1>2. \A i \in Nat : Byte(src, i + 1) = NUL <=> i >= L
  BY DEF Byte
<1>3. ASSUME NEW i \in Nat
      PROVE  CopyEnd(L, M, i) = IF siz - (i + 1) = 0          THEN i
                                ELSE IF Byte(src, i + 1) = NUL THEN i + 1
                                ELSE CopyEnd(L, M, i + 1)
  <2>1. (siz - (i + 1) = 0) = (i = M)
    OBVIOUS
  <2> HIDE DEF L, M
  <2> QED
    BY <1>1, <1>2, <2>1 DEF CopyEnd
<1>4. \A i \in Nat : g[i] = CopyEnd(L, M, i) /\ g[i + 1] = CopyEnd(L, M, i + 1)
  OBVIOUS
<1> HIDE DEF L, M
<1>5. g = [i \in Nat |-> IF siz - (i + 1) = 0          THEN i
                         ELSE IF Byte(src, i + 1) = NUL THEN i + 1
                         ELSE g[i + 1]]
  BY <1>3, <1>4
<1> QED
  BY <1>5 DEF CopyLoop, L, M

\* A set of naturals that is not empty has a least element.
LEMMA LeastNumber ==
  ASSUME NEW S \in SUBSET Nat, S # {}
  PROVE  \E n \in S : \A m \in S : n <= m
<1>1. \E n \in S : \A m \in S : ~(<< m, n >> \in OpToRel(<, Nat))
  BY NatLessThanWellFounded, WFMin, Zenon
<1>2. PICK n \in S : \A m \in S : ~(<< m, n >> \in OpToRel(<, Nat))
  BY <1>1
<1>3. \A m \in S : ~(m < n)
  BY <1>2 DEF OpToRel
<1> QED
  BY <1>3

\* strlcpy() copies siz - 1 characters, or the string and its terminator if that is less.
LEMMA CopiedIs ==
  ASSUME NEW Char, NUL \notin Char, NEW src \in Seq(Char), NEW siz \in Nat \ {0}
  PROVE  Copied(src, siz) = IF Len(src) >= siz - 1 THEN siz - 1 ELSE Len(src) + 1
<1> DEFINE copy == CHOOSE c : CopyLoop(src, siz, c)
           L == Len(src)
           M == siz - 1
           end == IF L >= M THEN M ELSE L + 1
           last == IF L >= M THEN M ELSE L
<1>1. Copied(src, siz) = copy[0]
  BY DEF Copied, CopyLoop
<1>2. CopyLoop(src, siz, copy)
  BY CopyLoopIs
<1> HIDE DEF copy
<1>3. L \in Nat /\ M \in Nat
  OBVIOUS
<1>4. \A i \in Nat : Byte(src, i + 1) = NUL <=> i >= L
  BY DEF Byte
<1>5. \A i \in Nat : copy[i] = IF i = M THEN i ELSE IF i >= L THEN i + 1 ELSE copy[i + 1]
  <2>1. \A i \in Nat : (siz - (i + 1) = 0) = (i = M)
    OBVIOUS
  <2> HIDE DEF M, L
  <2> QED
    BY <1>2, <1>4, <2>1 DEF CopyLoop
<1>6. last \in Nat
  BY <1>3
<1> HIDE DEF L, M
<1> DEFINE bad == { k \in 0 .. last : copy[last - k] # end }
<1>7. CASE bad = {}
  <2>1. last \in 0 .. last /\ last - last = 0
    BY <1>6
  <2>2. copy[0] = end
    BY <1>7, <2>1
  <2> QED
    BY <1>1, <2>2 DEF L, M
<1>8. CASE bad # {}
  <2>1. PICK k \in bad : \A m \in bad : k <= m
    <3>1. bad \in SUBSET Nat
      BY <1>6
    <3> HIDE DEF bad
    <3> QED
      BY <1>8, <3>1, LeastNumber
  <2>2. k \in 0 .. last /\ copy[last - k] # end
    OBVIOUS
  <2>3. CASE k = 0
    <3>1. copy[last] = end
      BY <1>3, <1>5
    <3> QED
      BY <2>2, <2>3, <3>1, <1>6
  <2>4. CASE k # 0
    <3>1. k - 1 \in 0 .. last /\ k - 1 \notin bad
      BY <2>1, <2>2, <2>4, <1>6
    <3>2. copy[last - (k - 1)] = end
      BY <3>1
    <3>3. last - k \in Nat /\ last - (k - 1) = (last - k) + 1 /\ last - k < last
      BY <2>2, <2>4, <1>6
    <3>4. last - k # M /\ last - k < L
      BY <3>3, <1>3
    <3>5. copy[last - k] = copy[last - k + 1]
      BY <1>5, <3>3, <3>4, <1>3
    <3> QED
      BY <2>2, <3>2, <3>3, <3>5
  <2> QED
    BY <2>3, <2>4
<1> QED
  BY <1>7, <1>8

\* What strlcpy() leaves: as much of the string as fits with its terminator.
LEMMA StrlcpyIs ==
  ASSUME NEW Char, NUL \notin Char, NEW src \in Seq(Char), NEW siz \in Nat \ {0}, NEW dst
  PROVE  /\ strlcpy(dst, src, siz).buf = Stored(dst, 0, Append(Fitting(src, siz), NUL))
         /\ strlcpy(dst, src, siz).ret = Len(src)
<1> DEFINE n == Copied(src, siz)
           res == [ buf |-> IF siz = 0 THEN dst
                            ELSE IF n > Len(src) THEN Stored(dst, 0, Append(src, NUL))
                            ELSE Stored(dst, 0, Append(SubSeq(src, 1, n), NUL)),
                    ret |-> Len(src) ]
<1>1. n = IF Len(src) >= siz - 1 THEN siz - 1 ELSE Len(src) + 1
  BY CopiedIs
<1>2. strlcpy(dst, src, siz) = res
  BY DEF strlcpy
<1>3. Len(src) \in Nat /\ SubSeq(src, 1, Len(src)) = src
  OBVIOUS
<1> HIDE DEF n
<1>4. CASE Len(src) >= siz
  <2>1. n = siz - 1 /\ ~(n > Len(src)) /\ Fitting(src, siz) = SubSeq(src, 1, n)
    BY <1>1, <1>3, <1>4 DEF Fitting
  <2> QED
    BY <1>2, <2>1
<1>5. CASE Len(src) = siz - 1
  <2>1. n = siz - 1
    BY <1>1, <1>3, <1>5
  <2>2. Fitting(src, siz) = src
    BY <1>3, <1>5 DEF Fitting
  <2>3. ~(n > Len(src))
    BY <1>3, <1>5, <2>1
  <2>4. SubSeq(src, 1, n) = src
    BY <1>3, <1>5, <2>1
  <2>5. res.buf = Stored(dst, 0, Append(SubSeq(src, 1, n), NUL)) /\ res.ret = Len(src)
    BY <2>3
  <2> HIDE DEF res
  <2> QED
    BY <1>2, <2>2, <2>4, <2>5
<1>6. CASE Len(src) < siz - 1
  <2>1. n = Len(src) + 1
    BY <1>1, <1>3, <1>6
  <2>2. n > Len(src)
    BY <1>3, <2>1
  <2>3. Fitting(src, siz) = src
    BY <1>3, <1>6 DEF Fitting
  <2> QED
    BY <1>2, <2>2, <2>3
<1> QED
  BY <1>3, <1>4, <1>5, <1>6

\* What fits is a beginning of the string that leaves room for the terminator.
LEMMA FittingIs ==
  ASSUME NEW Char, NEW src \in Seq(Char), NEW n \in Nat \ {0}
  PROVE  /\ Fitting(src, n) \in Seq(Char) /\ Len(Fitting(src, n)) \in 0 .. n - 1
         /\ Len(Fitting(src, n)) <= Len(src)
         /\ Fitting(src, n) = SubSeq(src, 1, Len(Fitting(src, n)))
         /\ Len(src) < n => Fitting(src, n) = src
         /\ Len(src) >= n => Len(Fitting(src, n)) = n - 1
<1>1. Len(src) \in Nat /\ SubSeq(src, 1, Len(src)) = src
  OBVIOUS
<1>2. CASE Len(src) < n
  BY <1>1, <1>2 DEF Fitting
<1>3. CASE Len(src) >= n
  <2>1. SubSeq(src, 1, n - 1) \in Seq(Char) /\ Len(SubSeq(src, 1, n - 1)) = n - 1
    BY <1>1, <1>3
  <2> QED
    BY <1>1, <1>3, <2>1 DEF Fitting
<1> QED
  BY <1>1, <1>2, <1>3

\* The place of the first terminator is the length.
LEMMA LengthIs ==
  ASSUME NEW buf, NEW siz \in Nat, NEW n \in 0 .. siz,
         n = siz \/ buf[n + 1] = NUL, \A k \in 1 .. n : buf[k] # NUL
  PROVE  Length(buf, siz) = n
<1> DEFINE Ends(m) == /\ m = siz \/ buf[m + 1] = NUL
                      /\ \A k \in 1 .. m : buf[k] # NUL
<1>1. Ends(n)
  OBVIOUS
<1>2. ASSUME NEW m \in 0 .. siz, Ends(m) PROVE m = n
  <2>1. CASE m < n
    <3>1. m + 1 \in 1 .. n /\ m # siz
      BY <2>1
    <3> QED
      BY <1>2, <3>1
  <2>2. CASE n < m
    <3>1. n + 1 \in 1 .. m /\ n # siz
      BY <2>2
    <3> QED
      BY <1>2, <3>1
  <2> QED
    BY <2>1, <2>2
<1>3. Length(buf, siz) = CHOOSE m \in 0 .. siz : Ends(m)
  BY DEF Length
<1> HIDE DEF Ends
<1> QED
  BY <1>1, <1>2, <1>3

\* A buffer of N bytes that holds a string of such characters.
Holds(buf, N, Char, s) ==
  /\ buf \in [1 .. N -> Char \cup {NUL}] /\ s \in Seq(Char) /\ Len(s) < N
  /\ \A k \in 1 .. Len(s) : buf[k] = s[k]
  /\ buf[Len(s) + 1] = NUL

LEMMA HeldIs ==
  ASSUME NEW Char, NUL \notin Char, NEW N \in Nat, NEW buf, NEW s, Holds(buf, N, Char, s)
  PROVE  Length(buf, N) = Len(s) /\ Text(buf) = s /\ Len(buf) = N
<1>1. Len(s) \in Nat /\ Len(s) \in 0 .. N
  BY DEF Holds
<1>2. \A k \in 1 .. Len(s) : buf[k] # NUL
  BY DEF Holds
<1>3. Length(buf, N) = Len(s)
  BY <1>1, <1>2, LengthIs DEF Holds
<1>4. Len(buf) = N /\ buf \in Seq(Char \cup {NUL})
  BY DEF Holds
<1>5. /\ SubSeq(buf, 1, Len(s)) \in Seq(Char \cup {NUL}) /\ Len(SubSeq(buf, 1, Len(s))) = Len(s)
      /\ \A k \in 1 .. Len(s) : SubSeq(buf, 1, Len(s))[k] = buf[k]
  BY <1>1, <1>4
<1>6. s \in Seq(Char \cup {NUL}) /\ \A k \in 1 .. Len(s) : buf[k] = s[k]
  BY DEF Holds
<1>7. SubSeq(buf, 1, Len(s)) = s
  BY <1>5, <1>6, SeqEqual
<1> QED
  BY <1>3, <1>4, <1>7 DEF Text

\* A string stored with its terminator behind one that is there already.
LEMMA StoredHolds ==
  ASSUME NEW Char, NEW N \in Nat, NEW buf \in [1 .. N -> Char \cup {NUL}],
         NEW p \in Seq(Char), \A k \in 1 .. Len(p) : buf[k] = p[k],
         NEW s \in Seq(Char), Len(p) + Len(s) < N
  PROVE  Holds(Stored(buf, Len(p), Append(s, NUL)), N, Char, p \o s)
<1> DEFINE t == Append(s, NUL)
           d == Len(p)
           w == Stored(buf, d, t)
           c == p \o s
<1>1. d \in Nat /\ Len(s) \in Nat /\ Len(t) = Len(s) + 1 /\ Len(buf) = N
  OBVIOUS
<1>2. /\ \A k \in 1 .. Len(s) : t[k] = s[k] /\ t[k] \in Char
      /\ t[Len(s) + 1] = NUL
  OBVIOUS
<1>3. w = [k \in 1 .. N |-> IF k > d /\ k <= d + Len(t) THEN t[k - d] ELSE buf[k]]
  BY <1>1 DEF Stored
<1>4. /\ c \in Seq(Char) /\ Len(c) = d + Len(s)
      /\ \A k \in 1 .. d + Len(s) : c[k] = IF k <= d THEN p[k] ELSE s[k - d]
  <2>1. c \in Seq(Char) /\ Len(c) = Len(p) + Len(s)
    OBVIOUS
  <2>2. \A k \in 1 .. Len(p) + Len(s) : c[k] = IF k <= Len(p) THEN p[k] ELSE s[k - Len(p)]
    OBVIOUS
  <2> QED
    BY <2>1, <2>2
<1>5. d + Len(s) < N
  OBVIOUS
<1>6. \A k \in 1 .. d : buf[k] = p[k]
  OBVIOUS
<1> HIDE DEF w, t, d, c
<1>7. \A k \in 1 .. N : k > d /\ k <= d + Len(t) => t[k - d] \in Char \cup {NUL}
  <2> SUFFICES ASSUME NEW k \in 1 .. N, k > d, k <= d + Len(t)
               PROVE  t[k - d] \in Char \cup {NUL}
    OBVIOUS
  <2>1. k - d \in 1 .. Len(s) \/ k - d = Len(s) + 1
    BY <1>1
  <2> QED
    BY <1>2, <2>1
<1>8. w \in [1 .. N -> Char \cup {NUL}]
  BY <1>3, <1>7
<1>9. \A k \in 1 .. Len(c) : w[k] = c[k]
  <2> SUFFICES ASSUME NEW k \in 1 .. d + Len(s) PROVE w[k] = c[k]
    BY <1>4
  <2>1. CASE k <= d
    BY <1>1, <1>3, <1>4, <1>5, <1>6, <2>1
  <2>2. CASE k > d
    <3>1. /\ k - d \in 1 .. Len(s) /\ k \in 1 .. N /\ k <= d + Len(t) /\ ~(k <= d)
      BY <1>1, <1>5, <2>2
    <3>2. w[k] = t[k - d]
      BY <1>3, <2>2, <3>1
    <3>3. c[k] = s[k - d]
      BY <1>4, <3>1
    <3> QED
      BY <1>2, <3>1, <3>2, <3>3
  <2> QED
    BY <2>1, <2>2, <1>1
<1>10. w[Len(c) + 1] = NUL
  <2> DEFINE k == d + Len(s) + 1
  <2>1. /\ k \in 1 .. N /\ k > d /\ k <= d + Len(t) /\ k - d = Len(s) + 1
    BY <1>1, <1>5
  <2>2. w[k] = t[k - d]
    BY <1>3, <2>1
  <2> QED
    BY <1>2, <1>4, <2>1, <2>2
<1>11. Holds(w, N, Char, c)
  BY <1>4, <1>5, <1>8, <1>9, <1>10 DEF Holds
<1> QED
  BY <1>11 DEF w, t, d, c

\* strlcpy() into a whole buffer.
LEMMA StrlcpyHolds ==
  ASSUME NEW Char, NUL \notin Char, NEW N \in Nat \ {0}, NEW buf \in [1 .. N -> Char \cup {NUL}],
         NEW s \in Seq(Char)
  PROVE  /\ Holds(strlcpy(buf, s, N).buf, N, Char, Fitting(s, N))
         /\ strlcpy(buf, s, N).ret = Len(s)
<1> DEFINE f == Fitting(s, N)
           none == << >>
<1>1. f \in Seq(Char) /\ Len(f) \in 0 .. N - 1
  BY FittingIs
<1>2. none \in Seq(Char) /\ Len(none) = 0 /\ \A k \in 1 .. Len(none) : buf[k] = none[k]
  OBVIOUS
<1> HIDE DEF f
<1>3. Holds(Stored(buf, Len(none), Append(f, NUL)), N, Char, none \o f)
  <2>1. N \in Nat /\ Len(none) + Len(f) < N
    BY <1>1, <1>2
  <2> HIDE DEF none
  <2> QED
    BY <1>1, <1>2, <2>1, StoredHolds
<1>4. none \o f = f
  BY <1>1
<1>5. Holds(Stored(buf, 0, Append(f, NUL)), N, Char, f)
  BY <1>2, <1>3, <1>4
<1> QED
  BY <1>5, StrlcpyIs DEF f

\* strlcat() behind the string that a buffer holds.
LEMMA StrlcatHolds ==
  ASSUME NEW Char, NUL \notin Char, NEW N \in Nat, NEW buf, NEW p, Holds(buf, N, Char, p),
         NEW s \in Seq(Char)
  PROVE  /\ Holds(strlcat(buf, s, N).buf, N, Char, p \o Fitting(s, N - Len(p)))
         /\ strlcat(buf, s, N).ret = Len(p) + Len(s)
<1> DEFINE n == N - Len(p)
           f == Fitting(s, n)
<1>1. /\ buf \in [1 .. N -> Char \cup {NUL}] /\ p \in Seq(Char) /\ Len(p) < N
      /\ Len(p) \in Nat /\ n \in Nat \ {0}
      /\ \A k \in 1 .. Len(p) : buf[k] = p[k]
  BY DEF Holds
<1>2. Length(buf, N) = Len(p)
  BY HeldIs
<1>3. f \in Seq(Char) /\ Len(f) \in 0 .. n - 1
  BY <1>1, FittingIs
<1>4. Len(p) + Len(f) < N
  BY <1>1, <1>3
<1>5. strlcat(buf, s, N) = [ buf |-> Stored(buf, Len(p), Append(f, NUL)),
                             ret |-> Len(p) + Len(s) ]
  <2> DEFINE dlen == Length(buf, N)
  <2>1. strlcat(buf, s, N) =
          [ buf |-> IF N - dlen = 0 THEN buf
                    ELSE Stored(buf, dlen, Append(Fitting(s, N - dlen), NUL)),
            ret |-> dlen + Len(s) ]
    BY DEF strlcat
  <2> HIDE DEF dlen
  <2>2. dlen = Len(p) /\ N - dlen # 0
    BY <1>1, <1>2 DEF dlen
  <2> QED
    BY <2>1, <2>2
<1>6. Holds(Stored(buf, Len(p), Append(f, NUL)), N, Char, p \o f)
  <2> HIDE DEF f, n
  <2> QED
    BY <1>1, <1>3, <1>4, StoredHolds
<1> QED
  BY <1>5, <1>6

\* A terminator put behind a beginning of the buffer cuts it there.
LEMMA CutHolds ==
  ASSUME NEW Char, NEW N \in Nat, NEW buf \in [1 .. N -> Char \cup {NUL}],
         NEW p \in Seq(Char), \A k \in 1 .. Len(p) : buf[k] = p[k], Len(p) < N
  PROVE  Holds([buf EXCEPT ![Len(p) + 1] = NUL], N, Char, p)
<1>1. Len(p) \in Nat /\ Len(p) + 1 \in 1 .. N
  OBVIOUS
<1>2. \A k \in 1 .. Len(p) : k \in 1 .. N /\ k # Len(p) + 1
  BY <1>1
<1> QED
  BY <1>1, <1>2 DEF Holds

-----------------------------------------------------------------------------
(* A handle's descriptor and counters.                                     *)

\* What a handle's descriptor and counters can be.
FileTypes ==
  /\ life \in { "new", "set", "gone" }
  /\ created \in 0 .. MaxFiles
  /\ fd_ = -1 \/ (fd_ \in Nat /\ created \in Numbers)
  /\ num_write_ \in 0 .. Modulus - 1
  /\ written \in [Numbers -> Nat] /\ synced \in [Numbers -> Nat]

\* A file that is yet to be opened is empty.
Blank == \A f \in Numbers : f > created => written[f] = 0 /\ synced[f] = 0

\* While messages are written, a count of 0 already means that nothing is left: the
\* destructor's part of LastFileSynced follows from this when it runs.
Unconfigured == life = "new" => fd_ = -1 /\ num_write_ = 0

FileInv ==
  /\ FileTypes
  /\ Blank
  /\ Unconfigured
  /\ OneOpen
  /\ LastFileSynced

\* Opening a file makes it the only one open, and one without messages.
LEMMA OpenKeeps ==
  ASSUME FileInv, NEW others, others = {}, NEW path,
         OpenFails(others) \/ Opened(others, path)
  PROVE  /\ created' \in created .. MaxFiles
         /\ fd_' = -1 \/ (fd_' \in Nat /\ created' > created /\ created' \in Numbers)
         /\ unclosed' = IF fd_' # -1 THEN { created' } ELSE {}
<1>1. CASE OpenFails(others)
  BY <1>1 DEF OpenFails, FileInv, FileTypes
<1>2. CASE Opened(others, path)
  <2>1. created \in 0 .. MaxFiles /\ created < MaxFiles /\ MaxFiles \in Nat
    BY <1>2, FileAssumption DEF Opened, FileInv, FileTypes
  <2>2. fd_' \in Nat /\ created' = created + 1 /\ unclosed' = others \cup { created + 1 }
    BY <1>2, FileAssumption DEF Opened
  <2> QED
    BY <2>1, <2>2 DEF Numbers
<1> QED
  BY <1>1, <1>2

\* mkstemp() is an instance of it.
LEMMA MkstempOpens ==
  ASSUME NEW buf, NEW others, mkstemp(buf, others)
  PROVE  \E path : OpenFails(others) \/ Opened(others, path)
BY DEF mkstemp

\* close() of the present descriptor leaves nothing open.
LEMMA CloseClears ==
  ASSUME FileInv, life # "gone"
  PROVE  close(fd_) = {}
BY DEF close, FileInv, OneOpen

\* A handle with another file, or with none although it wants one, keeps the invariant.
LEMMA NextFile ==
  ASSUME FileInv, NEW others, others = {}, NEW path,
         OpenFails(others) \/ Opened(others, path),
         life' = "set", num_write_' = num_write_, written' = written,
         synced' \in [Numbers -> Nat],
         \A f \in Numbers : f > created => synced'[f] = synced[f]
  PROVE  FileInv'
<1> USE FileAssumption
<1>1. /\ created' \in created .. MaxFiles
      /\ fd_' = -1 \/ (fd_' \in Nat /\ created' > created /\ created' \in Numbers)
      /\ unclosed' = IF fd_' # -1 THEN { created' } ELSE {}
  BY OpenKeeps
<1>2. FileTypes' /\ Unconfigured'
  BY <1>1 DEF FileInv, FileTypes, Unconfigured, Numbers
<1>3. Blank'
  BY <1>1 DEF FileInv, FileTypes, Blank, Numbers
<1>4. OneOpen'
  BY <1>1 DEF OneOpen
<1>5. fd_' # -1 => synced'[created'] = 0 /\ written'[created'] = 0
  BY <1>1 DEF FileInv, Blank
<1>6. LastFileSynced'
  BY <1>1, <1>5 DEF LastFileSynced
<1> QED
  BY <1>2, <1>3, <1>4, <1>6 DEF FileInv

LEMMA FileBegins == FileInit => FileInv
BY FileAssumption
   DEF FileInit, FileInv, FileTypes, Blank, Unconfigured, OneOpen, LastFileSynced, Numbers

\* What is forced to the disk is part of the present file.
LEMMA SyncedNext ==
  ASSUME FileInv, switchFile \/ destroy
  PROVE  /\ synced' \in [Numbers -> Nat]
         /\ \A f \in Numbers : f > created => synced'[f] = synced[f]
<1>1. \/ synced' = synced
      \/ fd_ > 0 /\ synced' = [synced EXCEPT ![created] = written[created]]
  BY DEF switchFile, destroy, MustSync
<1>2. CASE synced' = synced
  BY <1>2 DEF FileInv, FileTypes
<1>3. CASE fd_ > 0 /\ synced' = [synced EXCEPT ![created] = written[created]]
  <2>1. created \in Numbers
    BY <1>3 DEF FileInv, FileTypes
  <2> QED
    BY <1>3, <2>1, FileAssumption DEF FileInv, FileTypes, Numbers
<1> QED
  BY <1>1, <1>2, <1>3

LEMMA FileGoesOn == FileInv /\ [FileNext]_fileVars => FileInv'
<1> SUFFICES ASSUME FileInv, [FileNext]_fileVars PROVE FileInv'
  OBVIOUS
<1> USE FileAssumption
<1>0. synced \in [Numbers -> Nat]
  BY DEF FileInv, FileTypes
<1>1. ASSUME NEW d \in Dirs, setConfig(d) PROVE FileInv'
  <2>1. unclosed = {}
    BY <1>1 DEF setConfig, FileInv, Unconfigured, OneOpen
  <2>2. PICK path : OpenFails(unclosed) \/ Opened(unclosed, path)
    BY <1>1, MkstempOpens DEF setConfig
  <2>3. life' = "set" /\ UNCHANGED << num_write_, written, synced >>
    BY <1>1 DEF setConfig
  <2> QED
    BY <1>0, <2>1, <2>2, <2>3, NextFile
<1>2. ASSUME setConfigTty PROVE FileInv'
  <2>1. unclosed = {}
    BY <1>2 DEF setConfigTty, FileInv, Unconfigured, OneOpen
  <2>2. OpenFails(unclosed) \/ Opened(unclosed, tty)
    BY <1>2 DEF setConfigTty
  <2>3. life' = "set" /\ UNCHANGED << num_write_, written, synced >>
    BY <1>2 DEF setConfigTty
  <2> QED
    BY <1>0, <2>1, <2>2, <2>3, NextFile
<1>3. ASSUME writeMessage PROVE FileInv'
  <2> DEFINE n == (num_write_ + 1) % Modulus
  <2>1. n \in 0 .. Modulus - 1
    BY DEF FileInv, FileTypes
  <2>2. /\ life = "set" /\ fd_ \in Nat /\ created \in Numbers
        /\ written' = [written EXCEPT ![created] = @ + 1]
        /\ UNCHANGED << life, path_len_, fd_, created, unclosed >>
    BY <1>3 DEF writeMessage, FileInv, FileTypes
  <2>3. CASE MustSync(n)
    <3>1. synced' = [synced EXCEPT ![created] = written[created] + 1] /\ num_write_' = 0
      BY <1>3, <2>3 DEF writeMessage
    <3>2. fd_ > 0
      BY <2>3 DEF MustSync
    <3>3. LastFileSynced'
      BY <2>2, <3>1, <3>2 DEF FileInv, FileTypes, LastFileSynced
    <3> QED
      BY <2>2, <3>1, <3>3
         DEF FileInv, FileTypes, Blank, Unconfigured, OneOpen, Numbers
  <2>4. CASE ~MustSync(n)
    <3>1. synced' = synced /\ num_write_' = n
      BY <1>3, <2>4 DEF writeMessage
    <3>2. path_len_ # 0 /\ fd_ # 0 => n # 0
      BY <2>2, <2>4 DEF MustSync, max_write_
    <3> HIDE DEF n
    <3> QED
      BY <2>1, <2>2, <3>1, <3>2
         DEF FileInv, FileTypes, Blank, Unconfigured, OneOpen, LastFileSynced, Numbers
  <2> QED
    BY <2>3, <2>4
<1>4. ASSUME switchFile PROVE FileInv'
  <2>1. close(fd_) = {}
    BY <1>4, CloseClears DEF switchFile
  <2>2. \E path : OpenFails(close(fd_)) \/ Opened(close(fd_), path)
    BY <1>4, MkstempOpens DEF switchFile
  <2>3. PICK path : OpenFails(close(fd_)) \/ Opened(close(fd_), path)
    BY <2>2
  <2>4. life' = "set" /\ UNCHANGED << num_write_, written >>
    BY <1>4 DEF switchFile
  <2> QED
    BY <1>4, <2>1, <2>3, <2>4, SyncedNext, NextFile
<1>5. ASSUME destroy PROVE FileInv'
  <2>1. /\ life # "gone" /\ life' = "gone"
        /\ synced' = IF fd_ > 0 /\ path_len_ # 0 /\ num_write_ # 0
                     THEN [synced EXCEPT ![created] = written[created]] ELSE synced
        /\ unclosed' = IF fd_ > 0 THEN close(fd_) ELSE unclosed
        /\ UNCHANGED << path_len_, num_write_, fd_, created, written >>
    BY <1>5 DEF destroy
  <2>2. fd_ = -1 \/ (fd_ \in Nat /\ created \in Numbers)
    BY DEF FileInv, FileTypes
  <2>3. OneOpen'
    <3>1. unclosed = IF fd_ = -1 THEN {} ELSE { created }
      BY <2>1 DEF FileInv, OneOpen
    <3>2. unclosed' = IF fd_ > 0 THEN {} ELSE unclosed
      BY <2>1, CloseClears
    <3>3. CASE fd_ = -1
      BY <2>1, <3>1, <3>2, <3>3 DEF OneOpen
    <3>4. CASE fd_ = 0
      <4>1. unclosed' = { created }
        BY <3>1, <3>2, <3>4
      <4> QED
        BY <2>1, <3>4, <4>1 DEF OneOpen
    <3>5. CASE fd_ > 0 /\ fd_ # -1 /\ fd_ # 0
      <4>1. unclosed' = {}
        BY <3>2, <3>5
      <4> QED
        BY <2>1, <3>5, <4>1 DEF OneOpen
    <3>6. fd_ = -1 \/ fd_ = 0 \/ (fd_ > 0 /\ fd_ # -1 /\ fd_ # 0)
      BY <2>2
    <3> QED
      BY <3>3, <3>4, <3>5, <3>6
  <2>4. FileTypes' /\ Blank' /\ Unconfigured'
    BY <1>5, <2>1, <2>2, SyncedNext DEF FileInv, FileTypes, Blank, Unconfigured, Numbers
  <2>5. LastFileSynced'
    BY <2>1, <2>2 DEF FileInv, FileTypes, LastFileSynced
  <2> QED
    BY <2>3, <2>4, <2>5 DEF FileInv
<1>6. CASE UNCHANGED fileVars
  BY <1>6
     DEF fileVars, files, FileInv, FileTypes, Blank, Unconfigured, OneOpen,
         LastFileSynced, Numbers
<1> QED
  BY <1>1, <1>2, <1>3, <1>4, <1>5, <1>6 DEF FileNext

LEMMA FileKeepsInv == FileSpec => []FileInv
BY FileBegins, FileGoesOn, PTL DEF FileSpec

\* No file stays open that the handle has left, whatever numbers its descriptors have,
\* however often mkstemp() fails and files are switched; and when the handle is gone only
\* a file on descriptor 0 does.
THEOREM NoDescriptorLost == FileSpec => []OneOpen
<1>1. FileInv => OneOpen
  BY DEF FileInv
<1> QED
  BY <1>1, FileKeepsInv, PTL

\* The last file of a handle is on the disk when the handle is gone, for every width
\* of the counter that decides about it, unless its descriptor is 0: then no message is
\* ever forced there.
THEOREM LastFileOnDisk == FileSpec => []LastFileSynced
<1>1. FileInv => LastFileSynced
  BY DEF FileInv
<1> QED
  BY <1>1, FileKeepsInv, PTL

-----------------------------------------------------------------------------
(* A handle implements LogFile.                                            *)

\* A handle with another file, or with none although it wants one, is LogFile's Begin.
LEMMA AnotherFile ==
  ASSUME FileInv, NEW others, others = {}, NEW path,
         OpenFails(others) \/ Opened(others, path),
         life # "gone", life' = "set", written' = written,
         \A f \in Numbers : f > created => synced'[f] = synced[f]
  PROVE  Promised!Begin
<1>1. fd_' = -1 \/ (fd_' \in Nat /\ created' > created /\ created' \in Numbers)
  BY OpenKeeps
<1>2. fd_' # -1 => written'[created'] = 0 /\ synced'[created'] = 0
  BY <1>1 DEF FileInv, Blank
<1>3. LogFileState \notin { "closed", "left" } /\ LogFileState' \in { "open", "unforced", "none" }
  BY DEF LogFileState
<1> QED
  BY <1>2, <1>3 DEF Promised!Begin, OnDisk

LEMMA StepImplements ==
  FileInv /\ FileInv' /\ [FileNext]_fileVars
    => [Promised!Next]_(Promised!logFile)
<1> SUFFICES ASSUME FileInv, FileInv', [FileNext]_fileVars
             PROVE  Promised!Next \/ UNCHANGED Promised!logFile
  OBVIOUS
<1> USE FileAssumption
<1>1. ASSUME NEW d \in Dirs, setConfig(d) PROVE Promised!Begin
  <2>1. unclosed = {}
    BY <1>1 DEF setConfig, FileInv, Unconfigured, OneOpen
  <2>2. PICK path : OpenFails(unclosed) \/ Opened(unclosed, path)
    BY <1>1, MkstempOpens DEF setConfig
  <2> QED
    BY <1>1, <2>1, <2>2, AnotherFile DEF setConfig
<1>2. ASSUME setConfigTty PROVE Promised!Begin
  <2>1. unclosed = {}
    BY <1>2 DEF setConfigTty, FileInv, Unconfigured, OneOpen
  <2>2. OpenFails(unclosed) \/ Opened(unclosed, tty)
    BY <1>2 DEF setConfigTty
  <2> QED
    BY <1>2, <2>1, <2>2, AnotherFile DEF setConfigTty
<1>3. ASSUME writeMessage PROVE Promised!Write \/ UNCHANGED Promised!logFile
  <2>1. /\ life = "set" /\ fd_ \in Nat /\ fd_ # -1 /\ created \in Numbers
        /\ written' = [written EXCEPT ![created] = @ + 1]
        /\ UNCHANGED << life, path_len_, fd_, created >>
    BY <1>3 DEF writeMessage, FileInv, FileTypes
  <2>2. \/ synced' = synced
        \/ fd_ # 0 /\ synced' = [synced EXCEPT ![created] = written[created] + 1]
    BY <1>3 DEF writeMessage, MustSync
  <2>3. /\ written'[created'] = written[created] + 1
        /\ synced'[created'] = synced[created]
           \/ (fd_ # 0 /\ synced'[created'] = written'[created'])
    BY <2>1, <2>2 DEF FileInv, FileTypes
  <2>4. LogFileState = IF fd_ = 0 THEN "unforced" ELSE "open"
    BY <2>1 DEF LogFileState
  <2>5. LogFileState' = LogFileState
    BY <2>1 DEF LogFileState
  <2>6. CASE path_len_ # 0
    BY <2>1, <2>3, <2>4, <2>5, <2>6 DEF Promised!Write, OnDisk
  <2>7. CASE path_len_ = 0
    BY <2>1, <2>5, <2>7 DEF Promised!logFile, OnDisk
  <2> QED
    BY <2>6, <2>7
<1>4. ASSUME switchFile PROVE Promised!Begin
  <2>1. close(fd_) = {}
    BY <1>4, CloseClears DEF switchFile
  <2>2. \E path : OpenFails(close(fd_)) \/ Opened(close(fd_), path)
    BY <1>4, MkstempOpens DEF switchFile
  <2>3. PICK path : OpenFails(close(fd_)) \/ Opened(close(fd_), path)
    BY <2>2
  <2>4. life # "gone" /\ life' = "set" /\ written' = written
    BY <1>4 DEF switchFile
  <2> QED
    BY <1>4, <2>1, <2>3, <2>4, SyncedNext, AnotherFile
<1>5. ASSUME destroy PROVE Promised!Close \/ Promised!Leave
  <2>1. /\ life \in { "new", "set" } /\ life' = "gone"
        /\ UNCHANGED << path_len_, fd_, created, written >>
    BY <1>5 DEF destroy, FileInv, FileTypes
  <2>2. CASE fd_ = 0
    <3>1. synced' = synced /\ life = "set"
      BY <1>5, <2>1, <2>2 DEF destroy, FileInv, Unconfigured
    <3>2. LogFileState = "unforced" /\ LogFileState' = "left"
      BY <2>1, <2>2, <3>1 DEF LogFileState
    <3> QED
      BY <2>1, <3>1, <3>2 DEF Promised!Leave, OnDisk
  <2>3. CASE fd_ # 0
    <3>1. LogFileState \in { "new", "open", "none" } /\ LogFileState' = "closed"
      BY <2>1, <2>3 DEF LogFileState
    <3>2. OnDisk' => synced'[created'] = written'[created']
      BY <2>1, <2>3 DEF FileInv, LastFileSynced, OnDisk
    <3> QED
      BY <2>1, <3>1, <3>2 DEF Promised!Close, OnDisk
  <2> QED
    BY <2>2, <2>3
<1>6. CASE UNCHANGED fileVars
  BY <1>6 DEF fileVars, files, Promised!logFile, LogFileState, OnDisk
<1> QED
  BY <1>1, <1>2, <1>3, <1>4, <1>5, <1>6 DEF FileNext, Promised!Next

LEMMA InitImplements == FileInit => Promised!Init
BY DEF FileInit, Promised!Init, LogFileState, OnDisk

\* A handle keeps the promises of LogFile, for every width of the counter, whatever numbers
\* its descriptors have, 0 included, and however many files it opens: each of its steps is
\* one of LogFile's or changes nothing there.
THEOREM HandleKeepsPromises == FileSpec => ImplementsLogFile
<1>1. FileInit => Promised!Init
  BY InitImplements
<1>2. FileInv /\ FileInv' /\ [FileNext]_fileVars => [Promised!Next]_(Promised!logFile)
  BY StepImplements
<1> QED
  BY <1>1, <1>2, FileKeepsInv, PTL DEF FileSpec, ImplementsLogFile, Promised!Spec

-----------------------------------------------------------------------------
(* The paths of the files.                                                 *)

\* The characters of paths; that a literal is in STRING is nothing the provers know.
PathChars == (STRING \cup { "/", "t", "X" }) \ { NUL }

\* A directory with its separator.
Separated(d) == d \o (IF endsWith(d, << "/" >>) THEN << >> ELSE << "/" >>)

LEMMA EndsWithOne ==
  ASSUME NEW S, NEW s \in Seq(S), NEW c \in S
  PROVE  endsWith(s, << c >>) <=> Len(s) > 0 /\ s[Len(s)] = c
<1> DEFINE n == Len(s)
<1>1. n \in Nat /\ Len(<< c >>) = 1
  OBVIOUS
<1>2. CASE n > 0
  <2>1. n - 1 + 1 = n /\ n \in 1 .. Len(s)
    BY <1>1, <1>2
  <2>2. Len(SubSeq(s, n, n)) = 1 /\ SubSeq(s, n, n)[1] = s[n] /\ SubSeq(s, n, n) \in Seq(S)
    BY <1>1, <1>2
  <2>3. SubSeq(s, n, n) = << c >> <=> s[n] = c
    <3>1. << c >> \in Seq(S) /\ Len(<< c >>) = 1 /\ << c >>[1] = c
      OBVIOUS
    <3>2. s[n] = c => \A i \in 1 .. 1 : SubSeq(s, n, n)[i] = << c >>[i]
      BY <2>2
    <3> HIDE DEF n
    <3> QED
      BY <2>2, <3>1, <3>2, SeqEqual
  <2> QED
    BY <1>1, <1>2, <2>1, <2>3 DEF endsWith
<1>3. CASE ~(n > 0)
  BY <1>1, <1>3 DEF endsWith
<1> QED
  BY <1>2, <1>3

LEMMA SeparatedIs ==
  ASSUME NEW d \in Seq(PathChars)
  PROVE  /\ Separated(d) \in Seq(PathChars)
         /\ Len(Separated(d)) > 0 /\ Len(Separated(d)) <= Len(d) + 1
         /\ Separated(d)[Len(Separated(d))] = "/"
<1> DEFINE s == << "/" >>
<1>1. "/" \in PathChars /\ Len(d) \in Nat
  BY DEF PathChars, NUL
<1>2. CASE endsWith(d, s)
  <2>1. Separated(d) = d
    BY <1>2 DEF Separated
  <2>2. Len(d) > 0 /\ d[Len(d)] = "/"
    BY <1>1, <1>2, EndsWithOne
  <2> QED
    BY <1>1, <2>1, <2>2
<1>3. CASE ~endsWith(d, s)
  <2>1. Separated(d) = d \o s
    BY <1>3 DEF Separated
  <2>2. d \o s \in Seq(PathChars) /\ Len(d \o s) = Len(d) + 1 /\ (d \o s)[Len(d) + 1] = "/"
    BY <1>1
  <2> QED
    BY <1>1, <2>1, <2>2
<1> QED
  BY <1>2, <1>3

\* A directory and its separator, in a buffer that has room for them.
LEMMA SeparatorHolds ==
  ASSUME NEW N \in Nat, NEW buf \in [1 .. N -> PathChars \cup { NUL }],
         NEW d \in Seq(PathChars), Len(d) < N,
         NEW full,
         LET copy == strlcpy(buf, d, N)
         IN  full = IF endsWith(Text(copy.buf), << "/" >>) THEN copy
                    ELSE strlcat(copy.buf, << "/" >>, N)
  PROVE  /\ full.buf \in [1 .. N -> PathChars \cup { NUL }]
         /\ full.ret = Len(Separated(d))
         /\ Len(Separated(d)) < N => Holds(full.buf, N, PathChars, Separated(d))
<1> DEFINE copy == strlcpy(buf, d, N)
           s == << "/" >>
<1>1. Len(d) \in Nat /\ N \in Nat \ {0}
  OBVIOUS
<1>2. NUL \notin PathChars /\ s \in Seq(PathChars) /\ Len(s) = 1
  BY DEF PathChars, NUL
<1>3. full = IF endsWith(Text(copy.buf), s) THEN copy ELSE strlcat(copy.buf, s, N)
  OBVIOUS
<1> HIDE DEF s
<1>4. Holds(copy.buf, N, PathChars, Fitting(d, N)) /\ copy.ret = Len(d)
  BY <1>1, <1>2, StrlcpyHolds
<1>5. Fitting(d, N) = d /\ (Len(d) + 1 < N => Fitting(s, N - Len(d)) = s)
  BY <1>1, <1>2 DEF Fitting
<1>6. Holds(copy.buf, N, PathChars, d)
  BY <1>4, <1>5
<1>7. Text(copy.buf) = d
  BY <1>2, <1>6, HeldIs
<1> HIDE DEF copy
<1>8. CASE endsWith(d, s)
  <2>1. Separated(d) = d /\ full = copy
    BY <1>3, <1>7, <1>8 DEF Separated, s
  <2> QED
    BY <1>4, <1>6, <2>1 DEF Holds
<1>9. CASE ~endsWith(d, s)
  <2>1. Separated(d) = d \o s /\ full = strlcat(copy.buf, s, N)
    BY <1>3, <1>7, <1>9 DEF Separated, s
  <2>2. /\ Holds(strlcat(copy.buf, s, N).buf, N, PathChars, d \o Fitting(s, N - Len(d)))
        /\ strlcat(copy.buf, s, N).ret = Len(d) + Len(s)
    <3>1. NUL \notin PathChars /\ s \in Seq(PathChars)
      BY <1>2
    <3> QED
      BY <1>6, <3>1, StrlcatHolds
  <2>3. Len(d \o s) = Len(d) + Len(s)
    BY <1>2, Joined
  <2>4. full.buf \in [1 .. N -> PathChars \cup { NUL }]
    BY <2>1, <2>2 DEF Holds
  <2>5. Len(Separated(d)) = Len(d) + 1
    BY <1>2, <2>1, <2>3
  <2> QED
    BY <1>1, <1>2, <1>5, <2>1, <2>2, <2>3, <2>4, <2>5
<1> QED
  BY <1>8, <1>9

\* What setConfig() takes for a directory.
LEMMA DirsAre ==
  ASSUME NEW d \in Dirs
  PROVE  /\ PathMax \in Nat /\ d \in Seq(PathChars) /\ Len(d) + 1 < PathMax
         /\ Separated(d) \in Seq(PathChars) /\ Len(Separated(d)) \in 1 .. PathMax - 1
         /\ Separated(d)[Len(Separated(d))] = "/"
<1>1. PathMax \in Nat /\ d \in Seq(PathChars) /\ Len(d) + 1 < PathMax
  BY DirsAssumption DEF PathChars
<1>2. Len(Separated(d)) > 0 /\ Len(Separated(d)) <= Len(d) + 1
  BY <1>1, SeparatedIs
<1> QED
  BY <1>1, <1>2, SeparatedIs

LEMMA DirectoryIs ==
  ASSUME NEW d \in Dirs, log_file_ \in [1 .. PathMax -> PathChars \cup { NUL }]
  PROVE  /\ Holds(Directory(d).buf, PathMax, PathChars, Separated(d))
         /\ Directory(d).ret = Len(Separated(d))
<1>1. PathMax \in Nat /\ d \in Seq(PathChars) /\ Len(d) + 1 < PathMax
  BY DirsAre
<1> DEFINE empty == [log_file_ EXCEPT ![1] = NUL]
<1>2. empty \in [1 .. PathMax -> PathChars \cup { NUL }]
  OBVIOUS
<1>3. LET copy == strlcpy(empty, d, PathMax)
      IN  Directory(d) = IF endsWith(Text(copy.buf), << "/" >>) THEN copy
                         ELSE strlcat(copy.buf, << "/" >>, PathMax)
  BY DEF Directory
<1> HIDE DEF empty
<1>4. Len(Separated(d)) < PathMax
  BY DirsAre
<1> QED
  BY <1>1, <1>2, <1>3, <1>4, SeparatorHolds

\* The name behind a separator ends as it should only if it was not cut.
LEMMA NotCut ==
  ASSUME NEW p \in Seq(PathChars), Len(p) > 0, p[Len(p)] = "/", NEW n \in Nat \ {0},
         endsWith(p \o Fitting(Basename, n), Basename)
  PROVE  Fitting(Basename, n) = Basename
<1> DEFINE f == Fitting(Basename, n)
           t == p \o f
<1>1. Basename \in Seq(PathChars) /\ Len(Basename) = 2 /\ Basename[2] = "X"
  BY DEF Basename, PathChars, NUL
<1>2. f \in Seq(PathChars) /\ Len(f) \in 0 .. n - 1 /\ (n <= 2 => Len(f) = n - 1)
  <2>1. /\ f \in Seq(PathChars) /\ Len(f) \in 0 .. n - 1
        /\ Len(Basename) >= n => Len(f) = n - 1
    BY <1>1, FittingIs
  <2> HIDE DEF f
  <2> QED
    BY <1>1, <2>1
<1>3. SUFFICES ASSUME n <= 2 PROVE FALSE
  BY <1>1 DEF Fitting
<1>4. t \in Seq(PathChars) /\ Len(t) = Len(p) + Len(f)
  BY <1>2
<1>5. t[Len(t)] = "X"
  <2>1. Len(t) >= 2 /\ SubSeq(t, Len(t) - 1, Len(t)) = Basename
    BY <1>1, <1>4 DEF endsWith
  <2>2. SubSeq(t, Len(t) - 1, Len(t))[2] = t[Len(t)]
    <3> HIDE DEF t
    <3> QED
      BY <1>4, <2>1
  <2> QED
    BY <1>1, <2>1, <2>2
<1>6. CASE n = 1
  <2>1. Len(f) = 0
    BY <1>2, <1>6
  <2>2. t = p
    BY <1>2, <2>1
  <2> QED
    BY <1>5, <2>2
<1>7. CASE n = 2
  <2>1. Len(f) = 1 /\ f = SubSeq(Basename, 1, Len(f))
    BY <1>1, <1>2, <1>7, FittingIs
  <2>2. f[1] = "t"
    BY <2>1 DEF Basename
  <2>3. t[Len(p) + 1] = f[1]
    <3>1. f \in Seq(PathChars) /\ 1 \in 1 .. Len(f)
      BY <1>2, <2>1
    <3> HIDE DEF f
    <3>2. \A i \in 1 .. Len(f) : (p \o f)[Len(p) + i] = f[i]
      BY <3>1, Joined
    <3> QED
      BY <3>1, <3>2
  <2>4. t[Len(t)] = "t"
    BY <1>4, <2>1, <2>2, <2>3
  <2> QED
    BY <1>5, <2>4
<1> QED
  BY <1>3, <1>6, <1>7

\* mkstemp() names a file in the directory, or cuts the name and names none; and it leaves the
\* directory in the buffer.
LEMMA MkstempIs ==
  ASSUME FileInv, NEW d \in Dirs,
         NEW stem, Holds(stem, PathMax, PathChars, Separated(d)),
         NEW others, mkstemp(strlcat(stem, Basename, PathMax).buf, others)
  PROVE  /\ log_file_' \in [1 .. PathMax -> PathChars \cup { NUL }]
         /\ \A k \in 1 .. Len(Separated(d)) : log_file_'[k] = Separated(d)[k]
         /\ \/ UNCHANGED << created, name >>
            \/ /\ created + 1 \in Numbers /\ created' = created + 1
               /\ name' = [name EXCEPT ![created + 1] = Separated(d) \o Unique(created + 1)]
<1> DEFINE p == Separated(d)
           n == PathMax - Len(p)
           f == Fitting(Basename, n)
           b == strlcat(stem, Basename, PathMax).buf
           t == Text(b)
           u == Unique(created + 1)
           path == SubSeq(t, 1, Len(t) - Len(Basename)) \o u
<1>1. /\ p \in Seq(PathChars) /\ Len(p) \in Nat /\ Len(p) > 0 /\ Len(p) < PathMax
      /\ p[Len(p)] = "/" /\ PathMax \in Nat /\ n \in Nat \ {0}
  BY DirsAre
<1>2. NUL \notin PathChars /\ Basename \in Seq(PathChars) /\ Len(Basename) = 2
  BY DEF PathChars, NUL, Basename
<1>3. Holds(b, PathMax, PathChars, p \o f)
  <2>1. Holds(stem, PathMax, PathChars, p)
    OBVIOUS
  <2> HIDE DEF p
  <2> QED
    BY <1>1, <1>2, <2>1, StrlcatHolds
<1>4. t = p \o f
  <2> HIDE DEF b, p, f
  <2> QED
    BY <1>1, <1>2, <1>3, HeldIs
<1>5. f \in Seq(PathChars)
  BY <1>1, <1>2, FittingIs
<1>6. mkstemp(b, others)
  OBVIOUS
<1>7. \/ OpenFails(others) /\ log_file_' = b
      \/ endsWith(t, Basename) /\ Opened(others, path) /\ log_file_' = Stored(b, 0, path)
  BY <1>6 DEF mkstemp
<1> HIDE DEF p, n, f, b, t, u
<1>8. /\ b \in [1 .. PathMax -> PathChars \cup { NUL }]
      /\ \A k \in 1 .. Len(p) : b[k] = p[k]
  <2>1. /\ p \o f \in Seq(PathChars) /\ Len(p \o f) = Len(p) + Len(f) /\ Len(f) \in Nat
        /\ \A k \in 1 .. Len(p) : (p \o f)[k] = p[k]
    BY <1>1, <1>5, Joined
  <2> QED
    BY <1>1, <1>3, <2>1 DEF Holds
<1>9. CASE OpenFails(others) /\ log_file_' = b
  BY <1>8, <1>9 DEF OpenFails, p
<1>10. CASE /\ endsWith(t, Basename) /\ Opened(others, path)
            /\ log_file_' = Stored(b, 0, path)
  <2>1. created < MaxFiles /\ created + 1 \in Numbers
    BY <1>10, FileAssumption DEF Opened, FileInv, FileTypes, Numbers
  <2>2. u \in Seq(PathChars) /\ Len(u) = 2
    BY <2>1, FileAssumption DEF u, Unique, PathChars, NUL, Numbers
  <2>3. f = Basename
    BY <1>1, <1>4, <1>10, NotCut DEF f
  <2>4. SubSeq(t, 1, Len(t) - Len(Basename)) = p
    <3>1. Len(t) - Len(Basename) = Len(p)
      <4>1. p \in Seq(PathChars) /\ f \in Seq(PathChars)
        BY <1>1, <1>5
      <4>2. Len(p \o f) = Len(p) + Len(f)
        BY <4>1, Joined
      <4> QED
        BY <1>1, <1>2, <1>4, <2>3, <4>2
    <3>2. /\ t \in Seq(PathChars) /\ Len(p) <= Len(t) /\ Len(t) \in Nat
          /\ \A k \in 1 .. Len(p) : t[k] = p[k]
      BY <1>1, <1>2, <1>4, <1>5, <3>1, Joined
    <3>3. /\ SubSeq(t, 1, Len(p)) \in Seq(PathChars) /\ Len(SubSeq(t, 1, Len(p))) = Len(p)
          /\ \A k \in 1 .. Len(p) : SubSeq(t, 1, Len(p))[k] = t[k]
      BY <1>1, <3>2
    <3>4. SubSeq(t, 1, Len(p)) = p
      BY <1>1, <3>2, <3>3, SeqEqual
    <3> QED
      BY <3>1, <3>4
  <2>5. path = p \o u
    BY <2>4
  <2> HIDE DEF path
  <2>6. /\ path \in Seq(PathChars) /\ Len(path) = Len(p) + 2
        /\ \A k \in 1 .. Len(p) : path[k] = p[k]
    <3>1. p \in Seq(PathChars) /\ u \in Seq(PathChars)
      BY <1>1, <2>2
    <3>2. /\ p \o u \in Seq(PathChars) /\ Len(p \o u) = Len(p) + Len(u)
          /\ \A k \in 1 .. Len(p) : (p \o u)[k] = p[k]
      BY <3>1, Joined
    <3> QED
      BY <2>2, <2>5, <3>2
  <2>7. Len(b) = PathMax
    BY <1>1, <1>8
  <2>8. Stored(b, 0, path) =
          [k \in 1 .. PathMax |-> IF k > 0 /\ k <= Len(path) THEN path[k - 0] ELSE b[k]]
    BY <2>7, <2>6 DEF Stored
  <2>9. ASSUME NEW k \in 1 .. PathMax
        PROVE  /\ Stored(b, 0, path)[k] \in PathChars \cup { NUL }
               /\ k <= Len(p) => Stored(b, 0, path)[k] = p[k]
    <3>1. k - 0 = k /\ k > 0
      OBVIOUS
    <3>2. Stored(b, 0, path)[k] = IF k <= Len(path) THEN path[k] ELSE b[k]
      BY <2>8, <3>1
    <3>3. k <= Len(path) => path[k] \in PathChars
      BY <2>6, <1>1
    <3> QED
      BY <1>1, <1>8, <2>6, <3>2, <3>3
  <2>10. Stored(b, 0, path) \in [1 .. PathMax -> PathChars \cup { NUL }]
    BY <2>8, <2>9
  <2>11. \A k \in 1 .. Len(p) : k \in 1 .. PathMax /\ k <= Len(p)
    BY <1>1
  <2>12. name' = [name EXCEPT ![created + 1] = p \o u] /\ created' = created + 1
    BY <1>10, <2>5 DEF Opened
  <2> QED
    BY <1>10, <2>1, <2>9, <2>10, <2>11, <2>12 DEF p, u
<1> QED
  BY <1>7, <1>9, <1>10

\* What the buffer holds of the directory, from the first file on.
PathInv ==
  /\ log_file_ \in [1 .. PathMax -> PathChars \cup { NUL }]
  /\ DOMAIN name = Numbers
  /\ life = "new" => created = 0 /\ path_len_ = 0
  /\ path_len_ # 0 => /\ dir \in Dirs /\ path_len_ = Len(Separated(dir))
                      /\ \A k \in 1 .. Len(Separated(dir)) : log_file_[k] = Separated(dir)[k]
  /\ InDirectory

LEMMA PathBegins == FileInit => PathInv
<1> SUFFICES ASSUME FileInit PROVE PathInv
  OBVIOUS
<1>1. created = 0 /\ path_len_ = 0 /\ DOMAIN name = Numbers
  BY DEF FileInit
<1>2. log_file_ \in [1 .. PathMax -> PathChars \cup { NUL }]
  BY DEF FileInit
<1>3. InDirectory
  BY <1>1 DEF InDirectory
<1> QED
  BY <1>1, <1>2, <1>3 DEF PathInv

\* One more file in the directory.
LEMMA OneMoreInDirectory ==
  ASSUME FileInv, DOMAIN name = Numbers, InDirectory,
         dir' = dir \/ created = 0,
         \/ UNCHANGED << created, name >>
         \/ /\ created + 1 \in Numbers /\ created' = created + 1
            /\ \/ name' = [name EXCEPT ![created + 1] = Separated(dir') \o Unique(created + 1)]
               \/ name' = [name EXCEPT ![created + 1] = tty]
  PROVE  DOMAIN name' = Numbers /\ InDirectory'
<1>1. created \in Nat /\ 1 .. created \subseteq Numbers
  BY FileAssumption DEF FileInv, FileTypes, Numbers
<1>2. \A f \in 1 .. created : name[f] # tty => name[f] = Separated(dir) \o Unique(f)
  BY DEF InDirectory, Separated
<1>3. CASE UNCHANGED << created, name >>
  <2>1. CASE dir' = dir
    BY <1>3, <2>1 DEF InDirectory
  <2>2. CASE created = 0
    BY <1>3, <2>2 DEF InDirectory
  <2> QED
    BY <1>3, <2>1, <2>2
<1>4. ASSUME created + 1 \in Numbers, created' = created + 1,
             NEW path, path = tty \/ path = Separated(dir') \o Unique(created + 1),
             name' = [name EXCEPT ![created + 1] = path]
      PROVE  DOMAIN name' = Numbers /\ InDirectory'
  <2>1. \A f \in 1 .. created' : name'[f] # tty => name'[f] = Separated(dir') \o Unique(f)
    <3> SUFFICES ASSUME NEW f \in 1 .. created', name'[f] # tty
                 PROVE  name'[f] = Separated(dir') \o Unique(f)
      OBVIOUS
    <3>1. CASE f = created + 1
      BY <1>4, <3>1
    <3>2. CASE f # created + 1
      <4>1. f \in 1 .. created /\ created # 0
        BY <1>1, <1>4, <3>2
      <4>2. name'[f] = name[f] /\ dir' = dir
        BY <1>1, <1>4, <3>2, <4>1
      <4> QED
        BY <1>2, <4>1, <4>2
    <3> QED
      BY <3>1, <3>2
  <2>2. InDirectory'
    BY <2>1 DEF InDirectory, Separated, Unique
  <2> QED
    BY <1>4, <2>2
<1> QED
  BY <1>3, <1>4

LEMMA PathGoesOn == FileInv /\ PathInv /\ [FileNext]_fileVars => PathInv'
<1> SUFFICES ASSUME FileInv, PathInv, [FileNext]_fileVars PROVE PathInv'
  OBVIOUS
<1>1. /\ log_file_ \in [1 .. PathMax -> PathChars \cup { NUL }]
      /\ DOMAIN name = Numbers /\ InDirectory
  BY DEF PathInv
<1>2. ASSUME NEW d \in Dirs, setConfig(d) PROVE PathInv'
  <2>1. created = 0 /\ life' = "set" /\ dir' = d
    BY <1>2 DEF setConfig, PathInv
  <2>2. /\ Holds(Directory(d).buf, PathMax, PathChars, Separated(d))
        /\ Directory(d).ret = Len(Separated(d))
    BY <1>1, DirectoryIs
  <2>3. /\ mkstemp(strlcat(Directory(d).buf, Basename, PathMax).buf, unclosed)
        /\ path_len_' = Directory(d).ret
    BY <1>2 DEF setConfig
  <2>4. /\ log_file_' \in [1 .. PathMax -> PathChars \cup { NUL }]
        /\ \A k \in 1 .. Len(Separated(d)) : log_file_'[k] = Separated(d)[k]
        /\ \/ UNCHANGED << created, name >>
           \/ /\ created + 1 \in Numbers /\ created' = created + 1
              /\ name' = [name EXCEPT ![created + 1] = Separated(d) \o Unique(created + 1)]
    BY <2>2, <2>3, MkstempIs
  <2>5. DOMAIN name' = Numbers /\ InDirectory'
    BY <1>1, <2>1, <2>4, OneMoreInDirectory
  <2>6. (Separated(dir))' = Separated(d)
    BY <2>1 DEF Separated
  <2> QED
    BY <2>1, <2>2, <2>3, <2>4, <2>5, <2>6 DEF PathInv
<1>3. ASSUME setConfigTty PROVE PathInv'
  <2>1. /\ created = 0 /\ path_len_' = 0 /\ life' = "set" /\ dir' = dir
        /\ log_file_' = [log_file_ EXCEPT ![1] = NUL]
    BY <1>3 DEF setConfigTty, PathInv
  <2>2. \/ UNCHANGED << created, name >>
        \/ /\ created + 1 \in Numbers /\ created' = created + 1
           /\ name' = [name EXCEPT ![created + 1] = tty]
    BY <1>3, FileAssumption
       DEF setConfigTty, OpenFails, Opened, FileInv, FileTypes, Numbers
  <2>3. DOMAIN name' = Numbers /\ InDirectory'
    BY <1>1, <2>1, <2>2, OneMoreInDirectory
  <2>4. log_file_' \in [1 .. PathMax -> PathChars \cup { NUL }]
    BY <1>1, <2>1
  <2> QED
    BY <2>1, <2>3, <2>4 DEF PathInv
<1>4. ASSUME switchFile PROVE PathInv'
  <2> DEFINE stem == [log_file_ EXCEPT ![path_len_ + 1] = NUL]
  <2>1. /\ life = "set" /\ path_len_ # 0 /\ UNCHANGED << life, dir, path_len_ >>
        /\ mkstemp(strlcat(stem, Basename, PathMax).buf, close(fd_))
    BY <1>4 DEF switchFile
  <2>2. /\ dir \in Dirs /\ path_len_ = Len(Separated(dir))
        /\ \A k \in 1 .. Len(Separated(dir)) : log_file_[k] = Separated(dir)[k]
    BY <2>1 DEF PathInv
  <2>3. Holds(stem, PathMax, PathChars, Separated(dir))
    <3>1. /\ Separated(dir) \in Seq(PathChars) /\ Len(Separated(dir)) < PathMax
          /\ PathMax \in Nat
      BY <2>2, DirsAre
    <3>2. Holds([log_file_ EXCEPT ![Len(Separated(dir)) + 1] = NUL], PathMax, PathChars,
                Separated(dir))
      BY <1>1, <2>2, <3>1, CutHolds
    <3> QED
      BY <2>2, <3>2
  <2> HIDE DEF stem
  <2>4. /\ log_file_' \in [1 .. PathMax -> PathChars \cup { NUL }]
        /\ \A k \in 1 .. Len(Separated(dir)) : log_file_'[k] = Separated(dir)[k]
        /\ \/ UNCHANGED << created, name >>
           \/ /\ created + 1 \in Numbers /\ created' = created + 1
              /\ name' = [name EXCEPT ![created + 1] = Separated(dir) \o Unique(created + 1)]
    BY <2>1, <2>2, <2>3, MkstempIs
  <2>5. DOMAIN name' = Numbers /\ InDirectory'
    BY <1>1, <2>1, <2>4, OneMoreInDirectory
  <2>6. (Separated(dir))' = Separated(dir)
    BY <2>1 DEF Separated
  <2> QED
    BY <2>1, <2>2, <2>4, <2>5, <2>6 DEF PathInv
<1>5. ASSUME UNCHANGED << dir, log_file_, path_len_, created, name >>,
             life' = "new" => life = "new"
      PROVE  PathInv'
  BY <1>5 DEF PathInv, InDirectory, Separated, Unique
<1>6. CASE writeMessage
  BY <1>5, <1>6 DEF writeMessage
<1>7. CASE destroy
  BY <1>5, <1>7 DEF destroy
<1>8. CASE UNCHANGED fileVars
  BY <1>5, <1>8 DEF fileVars, files
<1> QED
  BY <1>2, <1>3, <1>4, <1>6, <1>7, <1>8 DEF FileNext

\* Every file lies in the configured directory under a whole name, for directories of every
\* length that leaves room for a separator, and every size of the buffer: a name that had to
\* be cut is never opened, and what mkstemp() wrote into the buffer is never built on.
THEOREM FilesInDirectory == FileSpec => []InDirectory
<1>1. PathInv => InDirectory
  BY DEF PathInv
<1> QED
  BY <1>1, PathBegins, PathGoesOn, FileKeepsInv, PTL DEF FileSpec
=============================================================================
