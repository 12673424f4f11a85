----------------------------- MODULE CoreString ------------------------------
(***************************************************************************)
(* The texts of Core/String.cpp.  First the encodings, UTF-8, UTF-16 and   *)
(* UTF-32: sequences of units, each a number; and their bytes in files.    *)
(***************************************************************************)
EXTENDS Integers, SequencesExt, FiniteSetsExt, TLC

Replacement == 65533        \* U+FFFD
Astral == 65536             \* the first code point that has two units in UTF-16

\* The bytes that a first byte says its code point has.
Span(b) == IF b >= 240 THEN 4 ELSE IF b >= 224 THEN 3 ELSE IF b >= 192 THEN 2 ELSE 1

CodePoint(bytes) ==
  LET lead == Head(bytes) % (CASE Len(bytes) = 4 -> 8 [] Len(bytes) = 3 -> 16
                               [] Len(bytes) = 2 -> 32 [] OTHER -> 128)
  IN FoldLeft(LAMBDA value, b : 64 * value + (b % 64), lead, Tail(bytes))

\* One step of decoding: the code point, and what is left.
Step(cp, rest) == [cp |-> cp, rest |-> rest]
StepUTF8(s) ==
  LET n == Span(Head(s)) IN
  IF n > Len(s) THEN Step(Replacement, <<>>)
  ELSE Step(CodePoint(SubSeq(s, 1, n)), SubSeq(s, n + 1, Len(s)))

HighSurrogate == 55296 .. 56319
LowSurrogate == 56320 .. 57343
Paired(hi, lo) == Astral + 1024 * (hi - 55296) + (lo - 56320)
StepUTF16(s) ==
  CASE Head(s) \notin HighSurrogate \cup LowSurrogate -> Step(Head(s), Tail(s))
    [] OTHER ->
       IF Len(s) = 1 THEN Step(Replacement, <<>>)
       ELSE IF Head(s) \in HighSurrogate /\ s[2] \in LowSurrogate
            THEN Step(Paired(s[1], s[2]), Tail(Tail(s)))
            ELSE Step(Replacement, Tail(Tail(s)))

\* All the code points of a text, which has its length.
RECURSIVE DecodeUTF8(_), DecodeUTF16(_)
DecodeUTF8(s) == IF s = <<>> THEN <<>> ELSE LET r == StepUTF8(s) IN <<r.cp>> \o DecodeUTF8(r.rest)
DecodeUTF16(s) == IF s = <<>> THEN <<>> ELSE LET r == StepUTF16(s) IN <<r.cp>> \o DecodeUTF16(r.rest)

\* AppendUTF16: to a code point of its own, without an error: a first surrogate that
\* has no second is left out, a second without a first takes the next unit with it.
RECURSIVE AppendUTF16(_)
AppendUTF16(s) ==
  IF s = <<>> THEN <<>>
  ELSE CASE Head(s) \in LowSurrogate -> <<Replacement>> \o AppendUTF16(SubSeq(s, 3, Len(s)))
         [] Head(s) \in HighSurrogate ->
              IF Len(s) > 1 /\ s[2] \in LowSurrogate
              THEN <<Paired(s[1], s[2])>> \o AppendUTF16(SubSeq(s, 3, Len(s)))
              ELSE AppendUTF16(Tail(s))
         [] OTHER -> <<Head(s)>> \o AppendUTF16(Tail(s))

-----------------------------------------------------------------------------
Trailing(cp, shift) == 128 + ((cp \div (2 ^ shift)) % 64)

UTF8BytesFrom(cp, fourFrom) ==
  IF cp >= fourFrom THEN <<240 + ((cp \div (2 ^ 18)) % 8), Trailing(cp, 12), Trailing(cp, 6), Trailing(cp, 0)>>
  ELSE IF cp > 2047 THEN <<224 + ((cp \div (2 ^ 12)) % 16), Trailing(cp, 6), Trailing(cp, 0)>>
  ELSE IF cp > 127 THEN <<192 + ((cp \div 64) % 32), Trailing(cp, 0)>>
  ELSE <<cp>>

UTF8BytesLate(cp) == UTF8BytesFrom(cp, Astral + 2)

\* The first code point that needs four bytes is given three, which hold no more
\* than its lowest sixteen bits.
UTF8Bytes(cp) == UTF8BytesFrom(cp, Astral + 1)

\* Of a code point that needs two units all of the lowest twenty bits are kept,
\* without taking Astral away first.
UTF16Units(cp) ==
  IF cp >= Astral THEN <<55296 + ((cp \div 1024) % 1024), 56320 + (cp % 1024)>> ELSE <<cp>>

EncodeUTF8(cps) == FlattenSeq([i \in DOMAIN cps |-> UTF8Bytes(cps[i])])
EncodeUTF16(cps) == FlattenSeq([i \in DOMAIN cps |-> UTF16Units(cps[i])])

\* The encoders of a text into room for so many units: each code point whole, and
\* the terminator, while one more unit is left than what it needs.
Encoded(parts, room) ==
  LET fits(n) == Len(FlattenSeq(SubSeq(parts, 1, n))) < room
      most == CHOOSE n \in 0 .. Len(parts) : \A m \in 0 .. Len(parts) : m <= n <=> m = 0 \/ fits(m)
      units == FlattenSeq(SubSeq(parts, 1, most))
  IN [ok |-> most = Len(parts), units |-> IF most = Len(parts) THEN Append(units, 0) ELSE units]
IntoUTF8(cps, room) == Encoded([i \in DOMAIN cps |-> UTF8Bytes(cps[i])], room)
IntoUTF16(cps, room) == Encoded([i \in DOMAIN cps |-> UTF16Units(cps[i])], room)
\* What does not fit is left out, which is not an error.
IntoUTF32(cps, room) ==
  [ok |-> TRUE, units |-> Append(SubSeq(cps, 1, IF Len(cps) < room THEN Len(cps) ELSE room - 1), 0)]

-----------------------------------------------------------------------------
\* The conversions of a String: a code point that is cut short ends the text.
RECURSIVE WholeCodePoints(_)
WholeCodePoints(s) ==
  IF s = <<>> \/ Span(Head(s)) > Len(s) THEN <<>>
  ELSE LET r == StepUTF8(s) IN <<r.cp>> \o WholeCodePoints(r.rest)
ConvertUTF16(s, room) == IntoUTF16(WholeCodePoints(s), room)
ConvertUTF32(s, room) ==
  LET cps == WholeCodePoints(s) IN
  IF Len(cps) < room THEN [ok |-> TRUE, units |-> Append(cps, 0)]
  ELSE [ok |-> FALSE, units |-> SubSeq(cps, 1, room - 1)]
ToUTF16(s) == ConvertUTF16(s, Len(s) + 1)
ToUTF32(s) == ConvertUTF32(s, Len(s))

RECURSIVE UTF8Len(_)
UTF8Len(s) == IF s = <<>> THEN 0 ELSE 1 + UTF8Len(SubSeq(s, Span(Head(s)) + 1, Len(s)))

\* The offset of a code point by its index, from 0, and of the end; or -1.
UTF8Index(s, index) ==
  LET at[n \in 0 .. index] ==
        IF n = 0 THEN 0
        ELSE LET before == at[n - 1] IN
             IF before \in 0 .. Len(s) - 1 THEN before + Span(s[before + 1]) ELSE -1
  IN at[index]
\* At an offset from 0.  The other decoder takes text by its terminator.
CodePointFromOffset(s, i) == IF i >= Len(s) THEN 0 ELSE StepUTF8(SubSeq(s, i + 1, Len(s))).cp
UTF8CodePoint(s) ==
  [cp |-> CodePointFromOffset(s, 0), bytes |-> IF s = <<>> THEN 1 ELSE IF Span(Head(s)) > Len(s) THEN Len(s) ELSE Span(Head(s))]

-----------------------------------------------------------------------------
Encodings == {"utf8", "utf16be", "utf16le", "utf32be", "utf32le"}
\* A unit of so many bytes.
UnitBytes(unit, n, big) ==
  [i \in 1 .. n |-> (unit \div (256 ^ (IF big THEN n - i ELSE i - 1))) % 256]
BytesOf(cp, enc) ==
  CASE enc \in {"utf16be", "utf16le"} ->
         FlattenSeq([i \in DOMAIN UTF16Units(cp) |-> UnitBytes(UTF16Units(cp)[i], 2, enc = "utf16be")])
    [] enc \in {"utf32be", "utf32le"} -> UnitBytes(cp, 4, enc = "utf32be")

Mark(enc) ==
  CASE enc = "utf8" -> <<239, 187, 191>>
    [] enc = "utf16be" -> <<254, 255>> [] enc = "utf16le" -> <<255, 254>>
    [] enc = "utf32be" -> <<0, 0, 254, 255>> [] enc = "utf32le" -> <<255, 254, 0, 0>>
\* axstr_write_bom writes one only to a buffer that has no more than four bytes.
WriteBOM(bytes, enc, bom) == IF bytes <= 4 /\ bom THEN Mark(enc) ELSE <<>>

\* What axstr_to_encoding_n writes, with a code point 0 for a text that is empty;
\* nothing when it does not fit.
ToEncoding(s, enc, bytes, bom) ==
  LET cps == IF s = <<>> THEN <<0>> ELSE DecodeUTF8(s)
      made == WriteBOM(bytes, enc, bom)
                \o (IF enc = "utf8" THEN s ELSE FlattenSeq([i \in DOMAIN cps |-> BytesOf(cps[i], enc)]))
  IN IF Len(made) <= bytes THEN made ELSE <<>>

StartsWith(s, t) == IsPrefix(t, s)
DetectEncoding(four) ==
  IF StartsWith(four, Mark("utf32be")) THEN "utf32be"
  ELSE IF StartsWith(four, Mark("utf8")) THEN "utf8"
  ELSE IF StartsWith(four, Mark("utf16be")) THEN "utf16be"
  ELSE IF StartsWith(four, Mark("utf32le")) THEN "utf32le"
  ELSE IF StartsWith(four, Mark("utf16le")) THEN "utf16le" ELSE "utf8"

\* A String's own conversions, to the bytes of a file and from them.
ConvertToEncoding(s, enc, bom) ==
  (IF bom THEN Mark(enc) ELSE <<>>)
    \o IF enc = "utf8" THEN s
       ELSE FlattenSeq([i \in DOMAIN WholeCodePoints(s) |-> BytesOf(WholeCodePoints(s)[i], enc)])

UnitsOf(bytes, n, big) ==
  [u \in 1 .. Len(bytes) \div n |->
     FoldLeft(LAMBDA v, i : 256 * v + bytes[n * (u - 1) + i], 0,
              [i \in 1 .. n |-> IF big THEN i ELSE n + 1 - i])]
\* Of two units, which are put above 2^20; a unit that should have had another takes
\* the next one with it.  (At the end of the bytes it takes two that are not there.)
RECURSIVE PairsOf(_)
PairsOf(units) ==
  IF units = <<>> THEN <<>>
  ELSE IF Head(units) \notin HighSurrogate \cup LowSurrogate THEN <<Head(units)>> \o PairsOf(Tail(units))
  ELSE <<IF Head(units) \in HighSurrogate /\ Len(units) > 1 /\ units[2] \in LowSurrogate
         THEN 16 * Astral + 1024 * (Head(units) - 55296) + (units[2] - 56320) ELSE Replacement>>
         \o PairsOf(SubSeq(units, 3, Len(units)))
Detected(data) == DetectEncoding(SubSeq(data \o <<0, 0, 0, 0>>, 1, 4))
BytesAs(data, enc) ==
  CASE enc \in {"utf16be", "utf16le"} -> EncodeUTF8(PairsOf(UnitsOf(data, 2, enc = "utf16be")))
    [] enc \in {"utf32be", "utf32le"} -> EncodeUTF8(UnitsOf(data, 4, enc = "utf32be"))
    [] OTHER -> data
\* From an encoding that is not known.  (There is room for as many bytes as there
\* are behind the mark.)
ConvertFromEncoding(data) ==
  BytesAs(IF StartsWith(data, Mark(Detected(data)))
          THEN SubSeq(data, Len(Mark(Detected(data))) + 1, Len(data)) ELSE data, Detected(data))

-----------------------------------------------------------------------------
\* Code points that the encoders do not keep: the first after those of one unit in
\* UTF-8, and all that need two units in UTF-16.
KeptByUTF8(cps) == Astral \notin Range(cps)
KeptByUTF16(cps) == \A i \in DOMAIN cps : cps[i] < Astral

\* A text comes back as it was from each encoding that keeps it; the conversions
\* stay in their room, and refuse or cut short only what does not fit; a file is
\* read as what was written to it; the two ways to convert agree, ToUTF16 has room enough and ToUTF32 has it only when
\* some code point has more than one byte; code points are found by their index.
EncodingsAgree(cps, room) ==
  \A bytes \in {EncodeUTF8(cps)}, units \in {EncodeUTF16(cps)} :
     KeptByUTF8(cps) =>
     /\ DecodeUTF8(bytes) = cps /\ WholeCodePoints(bytes) = cps
     /\ KeptByUTF16(cps) => DecodeUTF16(units) = cps /\ AppendUTF16(units) = cps
     /\ \A made \in {IntoUTF8(cps, room), IntoUTF16(cps, room), IntoUTF32(cps, room)} :
          Len(made.units) <= room
     /\ IntoUTF8(cps, room).ok <=> Len(bytes) < room
     /\ IntoUTF16(cps, room).ok <=> Len(units) < room
     /\ ConvertUTF16(bytes, room) = IntoUTF16(cps, room)
     /\ bytes # <<>> => /\ ToUTF16(bytes) = [ok |-> TRUE, units |-> Append(units, 0)]
                        /\ ToUTF32(bytes).ok <=> Len(bytes) > Len(cps)
     /\ UTF8Len(bytes) = Len(cps)
     /\ \A i \in 0 .. Len(cps) :
          \A offset \in {UTF8Index(bytes, i)} :
          /\ offset = Len(EncodeUTF8(SubSeq(cps, 1, i)))
          /\ i < Len(cps) => /\ CodePointFromOffset(bytes, offset) = cps[i + 1]
                             /\ UTF8CodePoint(SubSeq(bytes, offset + 1, Len(bytes)))
                                  = [cp |-> cps[i + 1], bytes |-> Len(UTF8Bytes(cps[i + 1]))]
     /\ \A enc \in Encodings : \A file \in {ConvertToEncoding(bytes, enc, TRUE)} :
          \/ ~KeptByUTF16(cps) /\ enc \in {"utf16be", "utf16le"}
          \/ enc = "utf16le" /\ Head(Append(cps, 0)) = 0
          \/ /\ ConvertFromEncoding(file) = bytes
             \* There is room for it, but for three bytes of one unit.
             /\ \/ Len(bytes) <= Len(file) - Len(Mark(enc))
                \/ enc \in {"utf16be", "utf16le"} /\ \E i \in DOMAIN cps : cps[i] > 2047
     /\ \A enc \in Encodings \ {"utf8"} :
          LET file == Mark(enc) \o ToEncoding(bytes, enc, 4 * Len(cps) + 5, TRUE) IN
          DetectEncoding(SubSeq(file, 1, 4)) =
            IF enc = "utf16le" /\ Head(Append(cps, 0)) = 0 THEN "utf32le" ELSE enc

\* Text that is cut at any byte is decoded without an error: what was whole before
\* the cut comes back, with one replacement for the rest.
CutsDecode(cps) ==
  \A bytes \in {EncodeUTF8(cps)} :
  KeptByUTF8(cps) =>
    \A n \in 0 .. Len(bytes) :
      \A whole \in {WholeCodePoints(SubSeq(bytes, 1, n))} :
      /\ IsPrefix(whole, cps)
      /\ DecodeUTF8(SubSeq(bytes, 1, n))
           = whole \o (IF EncodeUTF8(whole) = SubSeq(bytes, 1, n) THEN <<>> ELSE <<Replacement>>)

-----------------------------------------------------------------------------
(* What the functions of Core/String.cpp make of texts: parts of them,     *)
(* escapes, lists, paths and numbers.  A text is a sequence of bytes.      *)

Tab == 9
Newline == 10
Quotation == 34
Dot == 46
Slash == 47
Backslash == 92

From(s, offset) == SubSeq(s, offset + 1, Len(s))
Between(s, start, end) == SubSeq(s, start + 1, end)

\* Offsets, or -1.  Nothing is found at or behind the end.
FindPositions(s, t, from) == {i \in from .. Len(s) - Len(t) : i < Len(s) /\ Between(s, i, i + Len(t)) = t}
Find(s, t, from) == IF FindPositions(s, t, from) = {} THEN -1 ELSE Min(FindPositions(s, t, from))
FindLast(s, t) == IF t = <<>> \/ FindPositions(s, t, 0) = {} THEN -1 ELSE Max(FindPositions(s, t, 0))

\* The comparison is as long as the shorter of them, and of nothing at the end if the
\* other is longer than the text.
CompareStart(s, t) == Between(s, 0, Min({Len(s), Len(t)})) = Between(t, 0, Min({Len(s), Len(t)}))
CompareEnd(s, t) == Len(t) > Len(s) \/ From(s, Len(s) - Len(t)) = t

Case(s, from, to) == [i \in DOMAIN s |-> IF s[i] \in from .. from + 25 THEN s[i] - from + to ELSE s[i]]
ToLower(s) == Case(s, 65, 97)
ToUpper(s) == Case(s, 97, 65)
Trim(s) ==
  LET printed == {i \in DOMAIN s : s[i] > 32}
  IN IF printed = {} THEN <<>> ELSE SubSeq(s, Min(printed), Max(printed))

-----------------------------------------------------------------------------
(* Escapes. *)

EscapeLetter ==
  7 :> 97 @@ 8 :> 98 @@ 12 :> 102 @@ Newline :> 110 @@ 13 :> 114 @@ Tab :> 116 @@ 11 :> 118
    @@ [c \in {39, Quotation, 63, Backslash} |-> c]
Unletter(c) == {b \in DOMAIN EscapeLetter : EscapeLetter[b] = c}
HexDigit(n) == IF n < 10 THEN 48 + n ELSE 55 + n
EscapeByte(b) ==
  IF b \in DOMAIN EscapeLetter THEN <<Backslash, EscapeLetter[b]>>
  ELSE IF b < 32 THEN <<Backslash, 120, HexDigit(b \div 16), HexDigit(b % 16)>> ELSE <<b>>
Escape(s) == FlattenSeq([i \in DOMAIN s |-> EscapeByte(s[i])])

\* GetDigit, or -1.
GetDigit(c, radix) ==
  LET value == CASE c \in 48 .. 57 -> c - 48 [] c \in 97 .. 122 -> c - 87 [] c \in 65 .. 90 -> c - 55 [] OTHER -> radix
  IN IF value < radix THEN value ELSE -1
Digits(s, n) == {GetDigit(s[i], 16) : i \in 1 .. n}
HexValue(s, n) == FoldLeft(LAMBDA v, c : 16 * v + GetDigit(c, 16), 0, SubSeq(s, 1, n))
NoZero(b) == IF b = 0 THEN <<>> ELSE <<b>>

\* What the characters behind a backslash stand for, and how many they are: with too
\* few of them behind it the letter x, u or U is text.
EscapeAt(s) ==
  LET wide(n) == IF Len(s) <= n THEN [text |-> <<>>, n |-> 0]
                 ELSE [text |-> IF -1 \in Digits(Tail(s), n) THEN <<>> ELSE UTF8Bytes(HexValue(Tail(s), n)), n |-> n + 1]
  IN CASE s[1] = 120 -> IF Len(s) < 3 THEN [text |-> <<>>, n |-> 0]
                        ELSE [text |-> NoZero(HexValue(Tail(s), 2) % 256), n |-> 3]
       [] s[1] = 117 -> wide(4)
       [] s[1] = 85 -> wide(8)
       [] s[1] \in Range(EscapeLetter) /\ s[1] > 96 -> [text |-> <<CHOOSE b \in Unletter(s[1]) : TRUE>>, n |-> 1]
       [] OTHER -> [text |-> <<s[1]>>, n |-> 1]
\* (A text that ends in an escape, and one without any bytes, make it read in front of
\* the text.)
RECURSIVE Unescape(_), Unescaped(_, _)
Unescape(s) ==
  IF s = <<>> THEN <<>>
  ELSE IF Head(s) = Backslash THEN Unescaped(Tail(s), EscapeAt(Tail(s))) ELSE <<Head(s)>> \o Unescape(Tail(s))
Unescaped(s, escape) == escape.text \o Unescape(From(s, escape.n))
EndsInEscape(s) == s = <<>> \/ Last(s) \in DOMAIN EscapeLetter \cup 0 .. 31

Quote(s) == <<Quotation>> \o s \o <<Quotation>>
\* The quotation mark at the end stays.
Unquote(s) ==
  IF CompareStart(s, <<Quotation>>) /\ CompareEnd(s, <<Quotation>>) THEN From(s, 1) ELSE s

\* A tab at the start of each line, the one behind the last line end too.
TabSelf(s) ==
  FoldLeft(LAMBDA t, c : t \o (IF c = Newline THEN <<Newline, Tab>> ELSE <<c>>), <<Tab>>, s)
UntabSelf(s) ==
  LET goes(i) == s[i] = Tab /\ (i = 1 \/ s[i - 1] = Newline)
      kept == SelectSeq([i \in DOMAIN s |-> i], LAMBDA i : ~goes(i))
  IN [k \in DOMAIN kept |-> s[kept[k]]]

-----------------------------------------------------------------------------
(* Lists. *)

\* A faulty Split, which goes on one byte further whatever was found.
RECURSIVE SplitOneFrom(_, _, _, _, _)
SplitOneFrom(s, separator, keepEmpty, index, found) ==
  LET end == IF found = -1 THEN Len(s) ELSE found
      next == IF found = -1 THEN Len(s) ELSE found + 1
      entry == IF end # index \/ keepEmpty THEN <<Between(s, index, end)>> ELSE <<>>
  IN IF next = Len(s) THEN entry
     ELSE entry \o SplitOneFrom(s, separator, keepEmpty, next, Find(s, separator, next))

\* Split: a separator at the end has no entry behind it.
RECURSIVE SplitFrom(_, _, _, _, _)
SplitFrom(s, separator, keepEmpty, index, found) ==
  LET end == IF found = -1 THEN Len(s) ELSE found
      next == IF found = -1 THEN Len(s) ELSE found + Len(separator)
      entry == IF end # index \/ keepEmpty THEN <<Between(s, index, end)>> ELSE <<>>
  IN IF next = Len(s) THEN entry
     ELSE entry \o SplitFrom(s, separator, keepEmpty, next, Find(s, separator, next))
Split(s, separator, keepEmpty) == SplitFrom(s, separator, keepEmpty, 0, Find(s, separator, 0))

\* SplitUnquoted at offset p, in an entry that began at index.  A quotation that ends
\* ends the entry.
RECURSIVE SplitUnquotedFrom(_, _, _, _, _, _, _)
SplitUnquotedFrom(s, separator, escape, keepQuotes, index, p, inQuote) ==
  LET at(q) == CompareStart(From(s, q), separator) /\ Len(s) - q >= Len(separator)
      go(i, q, in) == IF q > Len(s) THEN <<>> ELSE SplitUnquotedFrom(s, separator, escape, keepQuotes, i, q, in)
      quoted == <<IF keepQuotes THEN Between(s, index, p + 1) ELSE Between(s, index + 1, p)>>
      next == IF at(p + 1) THEN p + 1 + Len(separator) ELSE p + 1
  IN CASE p < Len(s) /\ s[p + 1] = Quotation ->
            IF ~inQuote THEN go(index, p + 1, TRUE)
            ELSE quoted \o (IF next = Len(s) THEN <<>> ELSE go(next, next, FALSE))
       [] p = Len(s) \/ (s[p + 1] # Quotation /\ at(p) /\ ~inQuote) ->
            <<Between(s, index, p)>> \o go(p + Len(separator), p + Len(separator), inQuote)
       [] OTHER -> go(index, IF escape # 0 /\ s[p + 1] = escape THEN p + 2 ELSE p + 1, inQuote)
SplitUnquoted(s, separator, escape, keepQuotes) ==
  IF s = <<>> THEN <<>> ELSE SplitUnquotedFrom(s, separator, escape, keepQuotes, 0, 0, FALSE)

\* The glue is behind the last entry too.
Merge(entries, glue) == FlattenSeq([i \in DOMAIN entries |-> entries[i] \o glue])

-----------------------------------------------------------------------------
(* Paths. *)

FindExtension(s) ==
  IF Find(s, <<Slash>>, FindLast(s, <<Dot>>) + 1) # -1 THEN -1 ELSE FindLast(s, <<Dot>>)
FilenameAt(s) == FindLast(s, <<Slash>>) + 1
ExtractExtension(s) == IF FindExtension(s) = -1 THEN <<>> ELSE From(s, FindExtension(s))
ExtractFilename(s) == From(s, FilenameAt(s))
ExtractDirectory(s) == Between(s, 0, FilenameAt(s))
ExtractBasename(s) ==
  Between(s, FilenameAt(s), IF FindExtension(s) = -1 THEN Len(s) ELSE FindExtension(s))
ReplaceExtension(s, new) == (IF FindExtension(s) = -1 THEN s ELSE Between(s, 0, FindExtension(s))) \o new

AppendDirectorySeparator(s) ==
  IF s = <<>> \/ CompareEnd(s, <<Slash>>) \/ CompareEnd(s, <<Backslash>>) THEN s ELSE Append(s, Slash)
AppendPath(s, other) == AppendDirectorySeparator(s) \o other

\* Into a buffer of so many bytes, with the terminator.
StrCpy(room, s) == Between(s, 0, Min({Len(s), room - 1}))
StrCpyN(room, s, n) == Between(s, 0, Min({Len(s), room - 1, Max({n - 1, 0})}))
AppendString(room, s, t) == s \o Between(t, 0, Min({Len(t), room - 1 - Len(s)}))

\* GetRelativePath, of two paths that are not the same: when what they have in common
\* has no separator in it, or when it is all of `from` and a separator follows.
Common(s, t) == Max({n \in 0 .. Min({Len(s), Len(t)}) : Between(s, 0, n) = Between(t, 0, n)})
UpsFrom(s) ==
  LET groups == {i \in DOMAIN s : s[i] = Slash /\ (i = Len(s) \/ s[i + 1] # Slash)}
  IN FlattenSeq([i \in 1 .. Cardinality(groups) |-> <<Dot, Dot, Slash>>])
RelativeFrom(room, from, to, i, j) ==
  IF i = 0 THEN StrCpy(room, to)
  ELSE AppendString(room, AppendString(room, <<>>, UpsFrom(From(from, i))), From(to, j))
GetRelativePath(room, from, to) ==
  LET common == Common(from, to)
      directory == FilenameAt(Between(from, 0, common))
  IN IF common = Len(from) /\ to[common + 1] \in {Slash, Backslash}
     THEN RelativeFrom(room, from, to, common, common + 1)
     ELSE RelativeFrom(room, from, to, directory, directory)

\* FindCommonText: for each offset of the first text the longest part from there that
\* all the others have; of those the longest, and the first of them.
LongestMatch(s, t) == Max({0} \cup {n \in DOMAIN s : Find(t, Between(s, 0, n), 0) # -1})
CommonFrom(texts, i) == Min({LongestMatch(From(texts[1], i), texts[k]) : k \in 2 .. Len(texts)})
FindCommonText(room, texts) ==
  LET offsets == 0 .. Len(texts[1]) - 1
      longest == Max({0} \cup {CommonFrom(texts, i) : i \in offsets})
      first == Min({i \in offsets : CommonFrom(texts, i) = longest})
  IN IF longest = 0 THEN <<>> ELSE Between(texts[1], first, first + Min({longest, room - 1}))

-----------------------------------------------------------------------------
(* Numbers.  Unsigned ones are taken modulo Word (2^64). *)

Word == 65536
CStyle == 0
BasicStyle == -1
Radix(n, rest) == [radix |-> n, rest |-> rest]

SkipWhitespaceOf(s) == LET print == {i \in DOMAIN s : s[i] > 32} IN IF print = {} THEN <<>> ELSE SubSeq(s, Min(print), Len(s))
DigitsBefore(s, letters) == {n \in 0 .. Len(s) - 1 : s[n + 1] \in letters /\ \A i \in 1 .. n : s[i] \in 48 .. 57}
Decimal(s) == FoldLeft(LAMBDA v, c : 10 * v + (c - 48), 0, s)
PrefixRadix(s, radixes) ==
  IF Len(s) > 1 /\ s[2] \in DOMAIN radixes THEN Radix(radixes[s[2]], From(s, 2)) ELSE Radix(10, s)
DecodeRadix(s, style) ==
  CASE style = CStyle ->
         IF s = <<>> \/ s[1] # 48 THEN Radix(10, s)
         ELSE IF Len(s) > 1 /\ s[2] \in {120, 88, 98, 66}
              THEN PrefixRadix(s, [c \in {120, 88} |-> 16] @@ [c \in {98, 66} |-> 2])
              ELSE IF Len(s) > 1 /\ s[2] = Dot THEN Radix(10, s) ELSE Radix(8, Tail(s))
    [] style = BasicStyle ->
         LET named == {n \in DigitsBefore(s, {120, 88}) : Decimal(Between(s, 0, n)) \in 2 .. 36} IN
         IF s = <<>> THEN Radix(10, s)
         ELSE IF s[1] = 37 THEN Radix(2, Tail(s)) ELSE IF s[1] = 36 THEN Radix(16, Tail(s))
         ELSE IF s[1] = 48
              THEN PrefixRadix(s, [c \in {98, 66} |-> 2] @@ [c \in {99, 67} |-> 8] @@ [c \in {100, 68} |-> 10]
                                    @@ [c \in {104, 72, 120, 88} |-> 16])
         ELSE IF named = {} THEN Radix(10, s)
              ELSE Radix(Decimal(Between(s, 0, Min(named))), From(s, Min(named) + 1))
    [] OTHER -> Radix(style, s)

\* A separator stands in front of a digit.
RECURSIVE ReadUIntPart(_, _, _, _)
ReadUIntPart(s, radix, separator, n) ==
  LET digits == IF s # <<>> /\ s[1] = separator THEN Tail(s) ELSE s
  IN IF digits = <<>> \/ GetDigit(digits[1], radix) = -1 THEN n
     ELSE ReadUIntPart(Tail(digits), radix, separator, (n * radix + GetDigit(digits[1], radix)) % Word)
ToUnsignedInteger(s, style, separator) ==
  LET r == DecodeRadix(SkipWhitespaceOf(s), style) IN ReadUIntPart(r.rest, r.radix, separator, 0)
Signed64(n) == IF n < Word \div 2 THEN n ELSE n - Word
ToInteger(s, style, separator) ==
  LET t == SkipWhitespaceOf(s)
      signed == t # <<>> /\ t[1] \in {43, 45}
  IN Signed64(ToUnsignedInteger(IF signed THEN Tail(t) ELSE t, style, separator))
       * (IF signed /\ t[1] = 45 THEN -1 ELSE 1)

\* From the right: every group of digits after the first has one more.
RECURSIVE DigitsOf(_, _, _, _, _)
DigitsOf(n, radix, left, group, separator) ==
  IF n = 0 THEN <<>>
  ELSE IF left = 0 THEN DigitsOf(n \div radix, radix, group, group, separator) \o <<HexDigit(n % radix), separator>>
       ELSE DigitsOf(n \div radix, radix, left - 1, group, separator) \o <<HexDigit(n % radix)>>
FromUnsignedInteger(n, radix, group, separator) ==
  IF n = 0 THEN <<48>>
  ELSE IF radix \notin 2 .. 36 THEN <<>>
  ELSE DigitsOf(n, radix, IF group > 0 THEN group ELSE Word - 1, group, separator)
\* The digits of a negative number are those of the unsigned one.
FromInteger(n, radix, group, separator) ==
  IF n < 0 THEN <<45>> \o FromUnsignedInteger(n % Word, radix, group, separator)
  ELSE FromUnsignedInteger(n, radix, group, separator)

-----------------------------------------------------------------------------
Colons == <<58, 58>>
Has(s, b) == \E i \in DOMAIN s : s[i] = b

\* What is done to a text is undone: escapes, tabs, parts of paths, and lists that
\* are split at a separator and merged.  A quotation is an entry of its own.
TextsComeBack(s, t) ==
  /\ ~EndsInEscape(s) => Unescape(Escape(s)) = s
  /\ UntabSelf(TabSelf(s)) = s
  /\ ToLower(ToUpper(s)) = ToLower(s) /\ (Trim(s) = s \/ Len(Trim(s)) < Len(s))
  /\ AppendPath(ExtractDirectory(s), ExtractFilename(s)) = s
  /\ ExtractBasename(s) \o ExtractExtension(s) = ExtractFilename(s)
  /\ ExtractDirectory(ReplaceExtension(s, <<Dot, 97>>)) = ExtractDirectory(s)
  /\ ExtractExtension(ReplaceExtension(s, <<Dot, 97>>)) = <<Dot, 97>>
  /\ \A entries \in {Split(s, Colons, TRUE)} :
     /\ Merge(entries, Colons) \in {s, s \o Colons}
     /\ \A i \in DOMAIN entries : Find(entries[i], Colons, 0) = -1
     /\ Split(s, Colons, FALSE) = SelectSeq(entries, LAMBDA e : e # <<>>)
     /\ s # <<>> /\ ~Has(s, Quotation) /\ ~Has(s, Backslash) =>
          SplitUnquoted(s, Colons, Backslash, TRUE)
            = entries \o (IF Merge(entries, Colons) = s THEN << <<>> >> ELSE <<>>)
  /\ SplitUnquoted(Quote(Escape(s)) \o Colons \o Quote(Escape(t)), Colons, Backslash, FALSE)
       = <<Escape(s), Escape(t)>>

\* A path, without the parts of it that go up.
RECURSIVE Resolved(_, _)
Resolved(directory, path) ==
  IF IsPrefix(<<Dot, Dot, Slash>>, path)
  THEN Resolved(ExtractDirectory(Front(directory)), From(path, 3)) ELSE directory \o path
DoubleSlash(s) == Find(s, <<Slash, Slash>>, 0) # -1

\* The relative path leads from the directory of one file, or from the one itself if
\* that is a directory of the other, to the other.  What texts have in common is in
\* all of them, and nothing longer is; all of it fits in its room.
PathsAgree(s, t) ==
  /\ s # t /\ ~DoubleSlash(s) /\ ~DoubleSlash(t) =>
       \A path \in {GetRelativePath(3 * Len(s) + Len(t) + 1, s, t)} :
         IF s # <<>> /\ IsPrefix(Append(s, Slash), t) THEN Append(s, Slash) \o path = t
         ELSE IF Has(Between(s, 0, Common(s, t)), Slash) THEN Resolved(ExtractDirectory(s), path) = t
         ELSE path = t
  /\ s # t => \A room \in 2 .. 4 : Len(GetRelativePath(room, s, t)) < room
  /\ \A room \in 2 .. 4 : StrCpyN(room, s, Len(s) + 1) = StrCpy(room, s) /\ Len(StrCpy(room, s)) < room
  /\ s # <<>> /\ t # <<>> =>
       \A common \in {FindCommonText(Len(s) + 1, <<s, t>>)} :
       /\ common # <<>> => Find(s, common, 0) # -1 /\ Find(t, common, 0) # -1
       /\ \A i \in 0 .. Len(s), j \in 0 .. Len(s) :
            j - i > Len(common) => Find(t, Between(s, i, j), 0) = -1
       /\ FindCommonText(2, <<s, t>>) = Between(common, 0, Min({1, Len(common)}))

\* A number that was written is read again, with the separators that it was given.
NumbersReadBack(n, radix, group) ==
  /\ ToUnsignedInteger(FromUnsignedInteger(n, radix, group, 44), radix, 44) = n
  /\ n < Word \div 2 => ToInteger(FromInteger(n, radix, group, 44), radix, 44) = n
  /\ ToInteger(<<32, 45>> \o FromUnsignedInteger(n, radix, group, 44), radix, 44) = -Signed64(n)
  /\ radix = 16 => /\ ToUnsignedInteger(<<48, 120>> \o FromUnsignedInteger(n, 16, group, 44), CStyle, 44) = n
                   /\ ToUnsignedInteger(<<36>> \o FromUnsignedInteger(n, 16, group, 44), BasicStyle, 44) = n
  /\ radix = 2 => ToUnsignedInteger(<<37>> \o FromUnsignedInteger(n, 2, group, 44), BasicStyle, 44) = n
  /\ radix = 10 /\ group = 0 => ToUnsignedInteger(FromUnsignedInteger(n, 10, 0, 44), CStyle, 44) = n
=============================================================================
