--------------------------- MODULE RuntimeStrings ---------------------------
(***************************************************************************)
(* The strings of a script (TenshiRuntime.c): functions from strings to    *)
(* new strings, of bytes.  A string is a sequence of numbers, one a byte;  *)
(* NULL is the pointer to no string at all, which stands for the empty     *)
(* string, and which every function that makes a string of no bytes        *)
(* returns (teStrAlloc).  A negative count is left out.                    *)
(***************************************************************************)
EXTENDS Integers, SequencesExt, FiniteSetsExt, Pointers

CONSTANTS
  Texts,           \* the strings that the functions are called with
  Searches,        \* the strings that are searched for
  Codepoints,      \* the code points that are encoded
  MAX_OCCURRENCES  \* how many occurrences teStrFindRm takes note of

VARIABLES text, search, count, codepoint
stringVars == <<text, search, count, codepoint>>

\* teStrAlloc of n bytes, with those of s.
StrAlloc(s) == IF Len(s) = 0 THEN NULL ELSE s
Bytes(s) == IF s = NULL THEN <<>> ELSE s

-----------------------------------------------------------------------------
(* Parts of a string. *)

StrDup(s) == IF s = NULL THEN NULL ELSE StrAlloc(s)

StrConcat(a, b) ==
  IF a # NULL /\ b # NULL THEN StrAlloc(a \o b) ELSE StrDup(IF a # NULL THEN a ELSE b)

\* A slash, 47, goes between a directory and what is in it.
StrCatDir(a, b) ==
  IF a = NULL \/ b = NULL THEN StrConcat(a, b)
  ELSE IF a # <<>> /\ Last(a) # 47 THEN StrAlloc(a \o <<47>> \o b) ELSE StrAlloc(a \o b)

StrRepeat(s, n) ==
  IF s = NULL \/ n = 0 THEN NULL
  ELSE StrAlloc([i \in 1 .. Len(s) * n |-> s[((i - 1) % Len(s)) + 1]])

StrLeft(s, n) ==
  IF s = NULL THEN NULL ELSE IF n >= Len(s) THEN StrDup(s) ELSE StrAlloc(SubSeq(s, 1, n))

\* pos counts from 0.
StrMidLen(s, pos, n) ==
  IF s = NULL \/ n = 0 THEN NULL
  ELSE LET off == IF pos < Len(s) THEN pos ELSE Len(s)
           len == IF off + n > Len(s) THEN Len(s) - off ELSE n
       IN StrAlloc(SubSeq(s, off + 1, off + len))

StrRight(s, n) ==
  IF s = NULL \/ n = 0 THEN NULL
  ELSE LET len == IF n <= Len(s) THEN n ELSE Len(s)
       IN StrAlloc(SubSeq(s, Len(s) - len + 1, Len(s)))

\* A faulty skip, one byte short.
StrSkipShort(s, n) ==
  IF s = NULL THEN NULL ELSE StrDup(SubSeq(s, Max({1, Min({n, Len(s)})}), Len(s)))

\* The loop steps over n bytes, and stops at the end.
StrSkip(s, n) ==
  IF s = NULL THEN NULL ELSE StrDup(SubSeq(s, Min({n, Len(s)}) + 1, Len(s)))

StrDrop(s, n) ==
  IF s = NULL \/ (n > 0 /\ n >= Len(s)) THEN NULL
  ELSE IF n = 0 THEN StrDup(s) ELSE StrAlloc(SubSeq(s, 1, Len(s) - n))

HasPrefix(s, prefix) ==
  Bytes(prefix) = <<>> \/ (Bytes(s) # <<>> /\ IsPrefix(prefix, s))

HasSuffix(s, suffix) ==
  \/ Bytes(suffix) = <<>>
  \/ /\ Bytes(s) # <<>> /\ Len(suffix) <= Len(s)
     /\ SubSeq(s, Len(s) - Len(suffix) + 1, Len(s)) = suffix

\* strstr, from the byte after `from`: how many bytes are in front of the first
\* place where b stands, -1 when there is none.
Strstr(a, from, b) ==
  LET at == {i \in from .. Len(a) - Len(b) : SubSeq(a, i + 1, i + Len(b)) = b}
  IN IF at = {} THEN -1 ELSE Min(at)

StrContains(s, b) == Bytes(b) = <<>> \/ (Bytes(s) # <<>> /\ Strstr(s, 0, b) >= 0)

-----------------------------------------------------------------------------
(* teStrFindRm. *)

\* The occurrences that the inner loop takes note of: those it finds one after
\* the other, and the end of the string when it finds no more.
Occurrences(a, b) ==
  LET At[n \in Nat] ==
        LET from == IF n = 0 THEN 0 ELSE At[n - 1] + Len(b)
            t == Strstr(a, from, b)
        IN IF t < 0 THEN Len(a) ELSE t
      found == CHOOSE n \in 0 .. Len(a) : At[n] = Len(a) /\ \A m \in 0 .. n - 1 : At[m] < Len(a)
  IN [i \in 1 .. found + 1 |-> At[i - 1]]

\* What lies in front of each occurrence is copied, after the one before it.  The
\* string is a itself when nothing is searched for.
StrFindRm(a, b) ==
  IF a = NULL \/ Bytes(b) = <<>> THEN a
  ELSE LET at == Occurrences(a, b)
           base(i) == IF i = 1 THEN 0 ELSE at[i - 1] + Len(b)
       IN StrAlloc(FlattenSeq([i \in 1 .. Len(at) |-> SubSeq(a, base(i) + 1, at[i])]))

-----------------------------------------------------------------------------
(* Numbers and code points. *)

\* teCastUIntPart_, teStr_Bin, teStr_Hex, teStr_Oct: from the last digit back.
Digits(v, base) ==
  LET D[n \in Nat] == IF n < base THEN <<n>> ELSE Append(D[n \div base], n % base)
  IN D[v]

\* The bits of c from bit b on, as many as fit below 2^w.
Bits(c, b, w) == (c \div 2^b) % 2^w

\* A faulty encoding, with one threshold off by one.
StrChrLate(c) ==
  IF c > 65536 THEN <<240 + Bits(c, 18, 3), 128 + Bits(c, 12, 6),
                      128 + Bits(c, 6, 6), 128 + Bits(c, 0, 6)>>
  ELSE IF c > 2048 THEN <<224 + Bits(c, 12, 4), 128 + Bits(c, 6, 6), 128 + Bits(c, 0, 6)>>
  ELSE IF c > 127 THEN <<192 + Bits(c, 6, 5), 128 + Bits(c, 0, 6)>>
  ELSE StrAlloc(IF c = 0 THEN <<>> ELSE <<c>>)

StrChr(c) ==
  IF c > 65536 THEN <<240 + Bits(c, 18, 3), 128 + Bits(c, 12, 6),
                      128 + Bits(c, 6, 6), 128 + Bits(c, 0, 6)>>
  ELSE IF c > 2047 THEN <<224 + Bits(c, 12, 4), 128 + Bits(c, 6, 6), 128 + Bits(c, 0, 6)>>
  ELSE IF c > 127 THEN <<192 + Bits(c, 6, 5), 128 + Bits(c, 0, 6)>>
  ELSE StrAlloc(IF c = 0 THEN <<>> ELSE <<c>>)

\* How many bytes the code point that starts with byte b has.
Span(b) == IF b >= 240 THEN 4 ELSE IF b >= 224 THEN 3 ELSE IF b >= 192 THEN 2 ELSE 1

\* teStepUTF8Decode after `from` bytes: [ch, p], p the bytes then behind it.
StepUTF8Decode(s, from) ==
  LET n == Span(s[from + 1])
      lead == Bits(s[from + 1], 0, IF n = 1 THEN 7 ELSE 7 - n)
  IN IF from + n > Len(s) THEN [ch |-> 65533, p |-> Len(s)]
     ELSE [ch |-> FoldLeft(LAMBDA ch, b : ch * 64 + Bits(b, 0, 6), lead,
                           SubSeq(s, from + 2, from + n)),
           p |-> from + n]

\* Where the loop over s that decodes from byte `from` finds c: in this order.
CharsAt(s, from, c) ==
  LET P[p \in Nat] ==
        IF p >= Len(s) THEN <<>>
        ELSE LET r == StepUTF8Decode(s, p)
             IN (IF r.ch = c THEN <<p>> ELSE <<>>) \o P[r.p]
      \* strchr and strrchr compare bytes.
      B == SelectSeq([i \in 1 .. Len(s) |-> i - 1], LAMBDA p : p >= from /\ s[p + 1] = c)
  IN IF c < 128 THEN B ELSE P[from]

FindFirstChar(s, c) == IF CharsAt(s, 0, c) = <<>> THEN -1 ELSE CharsAt(s, 0, c)[1]
FindNextChar(s, lastIndex, c) ==
  IF CharsAt(s, lastIndex + 1, c) = <<>> THEN -1 ELSE CharsAt(s, lastIndex + 1, c)[1]
FindLastChar(s, c) == IF CharsAt(s, 0, c) = <<>> THEN -1 ELSE Last(CharsAt(s, 0, c))

-----------------------------------------------------------------------------
StringInit == text \in Texts /\ search = NULL /\ count = 0 /\ codepoint = 0

\* A script calls the functions with one set of arguments after the other.
StringNext ==
  \/ /\ search' \in Searches \cup {NULL} /\ count' \in 0 .. Cardinality(Searches) /\ codepoint' = 0
     /\ UNCHANGED text
  \/ codepoint' \in Codepoints /\ search' = NULL /\ count' = 0 /\ UNCHANGED text

-----------------------------------------------------------------------------
(* The parts that the functions take of a string are the string's: cut at   *)
(* any place, from the front or the back, its two parts make it up again,   *)
(* a middle part is the front of a back, each part is found in the whole,   *)
(* and what FindRm leaves is the string without the occurrences, first to   *)
(* last.  (StrFindRm is compared where its occurrences fit its table.)      *)
Without(a, b) ==
  LET W[s \in Seq(Nat)] ==
        IF Strstr(s, 0, b) < 0 THEN s
        ELSE SubSeq(s, 1, Strstr(s, 0, b)) \o W[SubSeq(s, Strstr(s, 0, b) + Len(b) + 1, Len(s))]
  IN W[a]

PartsFit ==
  LET s == text  n == count  whole == Bytes(text) IN
  /\ Bytes(StrLeft(s, n)) \o Bytes(StrSkip(s, n)) = whole
  /\ Bytes(StrDrop(s, n)) \o Bytes(StrRight(s, n)) = whole
  /\ \A pos \in 0 .. 3 : StrMidLen(s, pos, n) = StrLeft(StrSkip(s, pos), n)
  /\ HasPrefix(s, StrLeft(s, n)) /\ HasSuffix(s, StrRight(s, n))
  /\ StrContains(s, StrMidLen(s, 1, n))
  /\ StrContains(s, search) <=> \E pos \in 0 .. Len(whole) : HasPrefix(StrSkip(s, pos), search)
  /\ Bytes(search) # <<>> /\ Len(Occurrences(whole, search)) <= MAX_OCCURRENCES =>
       Bytes(StrFindRm(s, search)) = Without(whole, search)
  /\ StrRight(StrCatDir(s, search), Len(Bytes(search))) = StrDup(search)
  /\ n > 0 => StrRepeat(s, n) = StrConcat(s, StrRepeat(s, n - 1))

\* A code point written by teStr_Chr is read back by teStepUTF8Decode, alone and
\* within a text, where the searches forward meet each place that it stands at,
\* in order, and the search backward the last of them; and the digits written of
\* a number are its own.  Code point 0x10000 is the exception: it is encoded in
\* three bytes, which do not hold it.
CodepointsReadBack ==
  LET ch == StrChr(codepoint)
      s == Bytes(text) \o ch \o Bytes(text) \o ch
      first == Len(Bytes(text))
      last == 2 * first + Len(ch)
  IN codepoint \notin {0, 65536} =>
       /\ StepUTF8Decode(ch, 0) = [ch |-> codepoint, p |-> Len(ch)]
       /\ codepoint \notin ToSet(Bytes(text)) =>
            /\ FindFirstChar(s, codepoint) = first
            /\ FindNextChar(s, first, codepoint) = last
            /\ FindNextChar(s, last, codepoint) = -1
            /\ FindLastChar(s, codepoint) = last
       /\ \A base \in {2, 8, 10, 16} :
            /\ Digits(codepoint, base)[1] # 0
            /\ FoldLeft(LAMBDA v, d : v * base + d, 0, Digits(codepoint, base)) = codepoint
=============================================================================
