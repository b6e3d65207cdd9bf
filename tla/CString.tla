------------------------------ MODULE CString ------------------------------
(***************************************************************************)
(* The functions of nebula::String that cut what does not fit:             *)
(* strlcpy() and strlcat(), and endsWith().  A C string is a sequence of   *)
(* characters, a buffer a sequence of bytes, in which NUL ends the string. *)
(***************************************************************************)
EXTENDS Integers, Sequences

NUL == "\\0"

\* The i-th byte of a string as it lies in memory.
Byte(s, i) == IF i <= Len(s) THEN s[i] ELSE NUL

\* strlen(), but no further than the first siz bytes.
Length(buf, siz) ==
  CHOOSE n \in 0 .. siz :
    /\ n = siz \/ buf[n + 1] = NUL
    /\ \A k \in 1 .. n : buf[k] # NUL

Text(buf) == SubSeq(buf, 1, Length(buf, Len(buf)))

\* buf with the bytes of s from position d on, in place of what was there.
Stored(buf, d, s) ==
  [k \in 1 .. Len(buf) |->
     IF k > d /\ k <= d + Len(s) THEN s[k - d] ELSE buf[k]]

\* The bytes that the loop of strlcpy() copies with n counted down before each
\* of them: the terminator is one of them if it comes before n runs out.
Copied(src, siz) ==
  LET copy[i \in Nat] ==
        IF siz - (i + 1) = 0        THEN i
        ELSE IF Byte(src, i + 1) = NUL THEN i + 1
        ELSE copy[i + 1]
  IN  copy[0]

\* The buffer after strlcpy(), and what it returns.
strlcpy(dst, src, siz) ==
  [ buf |-> IF siz = 0 THEN dst
            ELSE LET n == Copied(src, siz)
                 IN  IF n > Len(src) THEN Stored(dst, 0, Append(src, NUL))
                     ELSE Stored(dst, 0, Append(SubSeq(src, 1, n), NUL)),
    ret |-> Len(src) ]

\* Mutant: the space for the terminator is not kept.
FittingTight(src, n) == IF Len(src) < n THEN src ELSE SubSeq(src, 1, n)

\* What strlcat() appends with n bytes left.
Fitting(src, n) == IF Len(src) < n THEN src ELSE SubSeq(src, 1, n - 1)

strlcat(dst, src, siz) ==
  LET dlen == Length(dst, siz)
      n    == siz - dlen
  IN  [ buf |-> IF n = 0 THEN dst
                ELSE Stored(dst, dlen, Append(Fitting(src, n), NUL)),
        ret |-> dlen + Len(src) ]

endsWith(str, suffix) ==
  /\ Len(str) >= Len(suffix)
  /\ SubSeq(str, Len(str) - Len(suffix) + 1, Len(str)) = suffix
=============================================================================
