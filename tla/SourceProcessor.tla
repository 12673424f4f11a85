--------------------------- MODULE SourceProcessor ---------------------------
(***************************************************************************)
(* How CSource and its CSourceProcessor (Libs/Parser/Source.cpp) make      *)
(* lines and tokens of the characters of a text: strings and what is       *)
(* escaped in them, numbers, names and keywords of several words, and      *)
(* operators.  TokenStream has the comments, and the order of tokens.      *)
(*                                                                         *)
(* A text is a sequence of bytes, a place the number of them in front of   *)
(* it.  A processor is what it was told: its flags, escapes, operators,    *)
(* keywords, what ends a name, and what else has a meaning.  Its keywords  *)
(* are kept under keys, for which the case of letters does not matter.     *)
(***************************************************************************)
EXTENDS CoreString

At(s, p) == IF p < Len(s) THEN s[p + 1] ELSE 0
Cmp(s, p, t) == p + Len(t) <= Len(s) /\ Between(s, p, p + Len(t)) = t

-----------------------------------------------------------------------------
(* ProcessText.  What two question marks and another character stand for    *)
(* is put in their place, which is nothing if they do not stand for any.    *)

RECURSIVE ExpandTrigraphs(_, _)
ExpandTrigraphs(map, s) ==
  IF s = <<>> THEN <<>>
  ELSE IF Len(s) < 3 \/ ~Cmp(s, 0, <<63, 63>>) THEN <<s[1]>> \o ExpandTrigraphs(map, Tail(s))
  ELSE (IF s[3] \in DOMAIN map THEN <<map[s[3]]>> ELSE <<>>) \o ExpandTrigraphs(map, From(s, 3))

LineEnd(s) == IF Cmp(s, 0, <<13, 10>>) THEN 2 ELSE IF At(s, 0) \in {10, 13} THEN 1 ELSE 0

\* Every end of a line becomes one newline, those behind the character that should join
\* two lines as well: only that goes.
RECURSIVE ProcessLines(_, _, _)
ProcessLines(proc, s, out) ==
  LET cat == IF "CombineLines" \in proc.flags /\ Cmp(s, 0, proc.lineCat) THEN Len(proc.lineCat) ELSE 0
      end == LineEnd(From(s, cat))
  IN IF s = <<>> THEN out
     ELSE IF end = 0 THEN ProcessLines(proc, Tail(s), [out EXCEPT !.text = Append(@, s[1])])
     ELSE ProcessLines(proc, From(s, cat + end),
                       [text |-> Append(out.text, Newline), lines |-> Append(out.lines, Len(out.text) + 1)])
ProcessText(proc, s) ==
  ProcessLines(proc, IF "ExpandTrigraphs" \in proc.flags THEN ExpandTrigraphs(proc.trigraphs, s) ELSE s,
               [text |-> <<>>, lines |-> <<0>>])

\* The line of a place; the last line is counted as the one in front of it.
CalculateLineInfo(lines, place) ==
  LET i == Cardinality({k \in DOMAIN lines : lines[k] <= place}) IN IF i = Len(lines) THEN i - 1 ELSE i

-----------------------------------------------------------------------------
(* SkipString.  r is where it is: the place, from where what is there goes  *)
(* into the data as it is, the data, and whether a line ended.              *)

Inserted(x, asByte) == IF x = 0 THEN <<>> ELSE IF asByte THEN <<x>> ELSE UTF8Bytes(x)
\* n digits, which are read up to the end of the text, whatever they are.
Sized(s, p, n, asByte) ==
  [p |-> Min({p + n, Len(s)}),
   text |-> IF p + n > Len(s) \/ -1 \in Digits(From(s, p), n) THEN <<>>
            ELSE Inserted(HexValue(From(s, p), n), asByte)]

\* Up to eight digits between braces.
BracedTo(s, p, end) ==
  [p |-> IF At(s, end) = 125 THEN end + 1 ELSE end, text |-> Sized(s, p + 1, end - p - 1, FALSE).text]
Braced(s, p) ==
  IF At(s, p) # 123 THEN [p |-> p, text |-> <<>>]
  ELSE BracedTo(s, p, Min({q \in p + 1 .. p + 9 : q = p + 9 \/ At(s, q) \in {0, Quotation, 125}}))

EscapedText(proc, s, p, c) ==
  CASE c \in DOMAIN proc.replaced -> [p |-> p + 1, text |-> NoZero(proc.replaced[c])]
    [] c \in DOMAIN proc.digits -> Sized(s, p + 1, proc.digits[c], proc.digits[c] = 2)
    [] c \in proc.braced -> Braced(s, p + 1)
    [] OTHER -> [p |-> p + 1, text |-> <<>>]

Taken(proc, s, r, e) ==
  [r EXCEPT !.p = e.p, !.from = e.p, !.data = @ \o Between(s, r.from, r.p) \o e.text]

\* Behind an escape that is not printed, what was taken is taken again.
Escaped(proc, s, r) ==
  IF At(s, r.p + 1) \notin 33 .. 126
  THEN [r EXCEPT !.p = Min({@ + 2, Len(s)}), !.data = @ \o Between(s, r.from, r.p)]
  ELSE Taken(proc, s, r, EscapedText(proc, s, r.p + 1, At(s, r.p + 1)))

RECURSIVE Collect(_, _, _)
Collect(proc, s, r) ==
  LET c == At(s, r.p)
      breaks == c = Newline /\ "StringLineBreaks" \in proc.flags
  IN IF c \in {Quotation, 0} \/ (c = Newline /\ ~breaks) THEN [r EXCEPT !.data = @ \o Between(s, r.from, r.p)]
     ELSE IF c = proc.escape THEN Collect(proc, s, Escaped(proc, s, r))
     ELSE Collect(proc, s, [r EXCEPT !.p = @ + 1, !.crossed = @ \/ breaks])

\* Not escaped: up to the next quotation mark, over lines that it does not count.
PlainTo(s, p, end) == [p |-> end, from |-> p, data |-> Between(s, p, end), crossed |-> FALSE]
Plain(s, p) == PlainTo(s, p, Min({q \in p .. Len(s) : At(s, q) \in {Quotation, 0}}))

Encoding(proc, s, p) ==
  IF "CStringEncodings" \notin proc.flags THEN [n |-> 0, encoding |-> "Unqualified"]
  ELSE CASE Cmp(s, p, <<76>>) -> [n |-> 1, encoding |-> "Wide"]
         [] Cmp(s, p, <<117, 56>>) -> [n |-> 2, encoding |-> "UTF8"]
         [] Cmp(s, p, <<117>>) /\ ~Cmp(s, p, <<117, 56>>) -> [n |-> 1, encoding |-> "UTF16LE"]
         [] Cmp(s, p, <<85>>) -> [n |-> 1, encoding |-> "UTF32LE"]
         [] OTHER -> [n |-> 0, encoding |-> "Unqualified"]

\* Quoted, from the quotation mark on.
QuotedTo(s, r, encoding) ==
  [p |-> IF At(s, r.p) = Quotation THEN r.p + 1 ELSE r.p, crossed |-> r.crossed, data |-> r.data, encoding |-> encoding]
Quoted(proc, s, p, q, escaped, encoding) ==
  IF At(s, q) # Quotation THEN [p |-> p, crossed |-> FALSE]
  ELSE QuotedTo(s, IF escaped THEN Collect(proc, s, [p |-> q + 1, from |-> q + 1, data |-> <<>>, crossed |-> FALSE])
                   ELSE Plain(s, q + 1), encoding)
Prefixed(proc, s, p, e) ==
  IF "StringEscapesPrefixed" \in proc.flags /\ At(s, p + e.n) = proc.escapePrefix
  THEN Quoted(proc, s, p, p + e.n + 1, TRUE, e.encoding)
  ELSE Quoted(proc, s, p, p + e.n, "StringEscapesPrefixed" \notin proc.flags, e.encoding)
SkipString(proc, s, p) == Prefixed(proc, s, p, Encoding(proc, s, p))

-----------------------------------------------------------------------------
(* SkipName and SkipIdentifier.  The key of a name has a mark and digits    *)
(* for what is not a letter, a digit or an underscore.                      *)

Letter(c) == c \in 65 .. 90 \/ c \in 97 .. 122 \/ c = 95
NameStartRanges ==
  {<<168, 168>>, <<170, 170>>, <<173, 173>>, <<175, 175>>, <<178, 181>>, <<183, 186>>, <<188, 190>>,
   <<192, 214>>, <<216, 246>>, <<248, 767>>, <<880, 5759>>, <<5761, 6157>>, <<6159, 7615>>, <<7680, 8191>>,
   <<8203, 8205>>, <<8234, 8238>>, <<8255, 8256>>, <<8276, 8276>>, <<8288, 8399>>, <<8448, 8591>>,
   <<9312, 9471>>, <<10102, 10131>>, <<11264, 11775>>, <<11904, 12287>>, <<12292, 12295>>, <<12321, 12335>>,
   <<12337, 55295>>, <<63744, 64829>>, <<64832, 64975>>, <<65008, 65055>>, <<65072, 65092>>, <<65095, 65533>>}
NameRanges == {<<768, 879>>, <<7616, 7679>>, <<8400, 8447>>, <<65056, 65071>>}
InRanges(cp, ranges) == \E r \in ranges : cp \in r[1] .. r[2]
\* In the planes above the first one all but the last two, and in one of them less.
UnicodeNameStart(cp) ==
  \/ InRanges(cp, NameStartRanges)
  \/ cp \in Astral .. 983037 /\ cp % Astral <= (IF cp \div Astral = 9 THEN 13 ELSE 65533)
UnicodeName(cp) == UnicodeNameStart(cp) \/ InRanges(cp, NameRanges)

HexDigits(cp, n) == [i \in 1 .. n |-> HexDigit((cp \div (16 ^ (n - i))) % 16)]
EncodeEntry(cp) == IF cp > 65535 THEN <<245>> \o HexDigits(cp, 5) ELSE <<244>> \o HexDigits(cp, 4)

\* (The code points are one byte each, if printed.)
EncodeKeyword(name) ==
  LET cps == DecodeUTF8(name) IN
  FlattenSeq([i \in DOMAIN cps |-> IF cps[i] \in 32 .. 126 THEN <<cps[i]>> ELSE EncodeEntry(cps[i])])

\* What comes next of a name, as its first character or another: how much, and its key.
UnicodePart(d, left, first) ==
  IF IF first THEN UnicodeNameStart(d.cp) ELSE UnicodeName(d.cp)
  THEN [n |-> left - Len(d.rest), key |-> EncodeEntry(d.cp)] ELSE [n |-> 0, key |-> <<>>]
NamePart(proc, s, p, c, first) ==
  IF Letter(c) \/ (~first /\ c \in 48 .. 57) THEN [n |-> 1, key |-> <<c>>]
  ELSE IF c > 127 /\ "UnicodeNames" \in proc.flags THEN UnicodePart(StepUTF8(From(s, p)), Len(s) - p, first)
       ELSE [n |-> 0, key |-> <<>>]

RECURSIVE NameParts(_, _, _), NameBehind(_, _, _, _)
NameBehind(proc, s, r, part) ==
  IF part.n = 0 THEN r ELSE NameParts(proc, s, [p |-> r.p + part.n, key |-> r.key \o part.key])
NameParts(proc, s, r) == NameBehind(proc, s, r, NamePart(proc, s, r.p, At(s, r.p), r.key = <<>>))
RECURSIVE Endings(_, _, _)
Endings(proc, s, r) ==
  IF At(s, r.p) \in proc.endings THEN Endings(proc, s, [p |-> r.p + 1, key |-> Append(r.key, At(s, r.p))]) ELSE r
Ended(proc, s, r) == IF r.key = <<>> THEN r ELSE Endings(proc, s, r)
SkipName(proc, s, p) == Ended(proc, s, NameParts(proc, s, [p |-> p, key |-> <<>>]))

\* AddKeywords: one that is there already is an error, or stays, or is replaced.
AddKeyword(keywords, name, mode) ==
  LET key == ToLower(EncodeKeyword(name)) IN
  IF key \in DOMAIN keywords /\ mode = "Ignore" THEN keywords ELSE (key :> name) @@ keywords

\* The words so far are one key.
NextKey(r, n) == IF r.user = -1 THEN n.key ELSE Append(r.key, 32) \o n.key

\* Each word behind one blank may make a longer keyword; if none does, the first is it.
RECURSIVE SkipWords(_, _, _)
WithWord(proc, s, r, n, key) ==
  LET found == key \in DOMAIN proc.keywords
      next == [r EXCEPT !.key = key, !.user = IF @ = -1 THEN n.p ELSE @, !.p = IF found THEN n.p ELSE @,
                        !.keyword = IF found THEN {proc.keywords[key]} ELSE @, !.check = n.p + 1]
  IN IF "SpacedNames" \in proc.flags /\ At(s, n.p) = 32 THEN SkipWords(proc, s, next) ELSE next
NextWord(proc, s, r, n) == IF n.p = r.check THEN r ELSE WithWord(proc, s, r, n, ToLower(NextKey(r, n)))
SkipWords(proc, s, r) == NextWord(proc, s, r, SkipName(proc, s, r.check))
Identified(r) == [p |-> IF r.keyword = {} /\ r.user # -1 THEN r.user ELSE r.p, keyword |-> r.keyword]
SkipIdentifier(proc, s, p) ==
  Identified(SkipWords(proc, s, [check |-> p, key |-> <<>>, user |-> -1, p |-> p, keyword |-> {}]))

-----------------------------------------------------------------------------
(* SkipNumber. *)

ArbitraryBase(s, p, named) ==
  IF named = {} THEN [radix |-> 10, p |-> p]
  ELSE [radix |-> Decimal(Between(s, p, p + Min(named))), p |-> p + Min(named) + 1]
NumberRadix(proc, s, p, first, second) ==
  CASE first = 37 /\ GetDigit(second, 2) # -1 /\ "BasicBinaries" \in proc.flags -> [radix |-> 2, p |-> p + 1]
    [] first = 36 /\ GetDigit(second, 16) # -1 /\ "BasicHexadecimals" \in proc.flags -> [radix |-> 16, p |-> p + 1]
    [] first = 48 /\ second \in {98, 66} -> [radix |-> 2, p |-> p + 2]
    [] first = 48 /\ second \in {99, 67} /\ "BasicOctals" \in proc.flags -> [radix |-> 8, p |-> p + 2]
    [] first = 48 /\ second \in {120, 88} -> [radix |-> 16, p |-> p + 2]
    [] first = 48 /\ second \notin {98, 66, 120, 88} /\ "BasicOctals" \notin proc.flags -> [radix |-> 8, p |-> p + 1]
    [] first \in 49 .. 57 /\ "ArbitraryBases" \in proc.flags ->
         ArbitraryBase(s, p, {n \in DigitsBefore(From(s, p), {120, 88}) : Decimal(Between(s, p, p + n)) \in 2 .. 36})
    [] OTHER -> [radix |-> 10, p |-> p]

\* A separator stands in front of a digit.
RECURSIVE UInt(_, _, _, _)
UIntPart(proc, s, radix, r, p, digit) ==
  IF digit = -1 THEN r ELSE UInt(proc, s, radix, [p |-> p + 1, n |-> (r.n * radix + digit) % Word])
DigitFrom(proc, s, radix, r, p) == UIntPart(proc, s, radix, r, p, GetDigit(At(s, p), radix))
UInt(proc, s, radix, r) ==
  DigitFrom(proc, s, radix, r, IF At(s, r.p) = proc.digitSeparator THEN r.p + 1 ELSE r.p)
UIntAt(proc, s, radix, p) == UInt(proc, s, radix, [p |-> p, n |-> 0])

\* The power of the radix above the fraction: zeros at its start do not count.
RECURSIVE Magnitude(_, _)
Magnitude(radix, fract) == IF fract = 0 THEN 1 ELSE radix * Magnitude(radix, fract \div radix)

SignedExponent(sign, r) == [p |-> r.p, has |-> TRUE, n |-> sign * r.n]
Exponent(proc, s, radix, p) ==
  IF (radix < 16 /\ At(s, p) \in {69, 101}) \/ (radix < 26 /\ At(s, p) \in {80, 112})
  THEN SignedExponent(IF At(s, p + 1) = 45 THEN -1 ELSE 1,
                      UIntAt(proc, s, radix, IF At(s, p + 1) \in {43, 45} THEN p + 2 ELSE p + 1))
  ELSE [p |-> p, has |-> FALSE, n |-> 0]

\* Up to seven letters and digits; those that mean nothing are read as well.
Bits == {<<56>>, <<49, 54>>, <<51, 50>>, <<54, 52>>}
QualifierOf(q) ==
  CASE q = <<70>> -> <<"Float">>
    [] q \in {<<76>>, <<76, 76>>} -> <<"Long", Len(q)>>
    [] q \in {<<85>>, <<85, 76>>, <<85, 76, 76>>} -> <<"Unsigned", Len(q)>>
    [] \E b \in Bits : q = <<73>> \o b -> <<"SignedInt", Decimal(Tail(q))>>
    [] \E b \in Bits : q \in {<<85>> \o b, <<85, 73>> \o b, <<73>> \o b \o <<85>>} ->
         <<"UnsignedInt", Decimal(CHOOSE b \in Bits : q \in {<<85>> \o b, <<85, 73>> \o b, <<73>> \o b \o <<85>>})>>
    [] OTHER -> <<"Unqualified">>
Wordly(c) == c \in 48 .. 57 \/ c \in 65 .. 90 \/ c \in 97 .. 122
QualifierTo(s, p, n) == [p |-> p + n, is |-> QualifierOf(ToUpper(Between(s, p, p + n)))]
Qualifier(proc, s, p) ==
  IF "NoNumberQualifiers" \in proc.flags THEN [p |-> p, is |-> <<"Unqualified">>]
  ELSE QualifierTo(s, p, Max({k \in 0 .. 7 : \A i \in 0 .. k - 1 : Wordly(At(s, p + i))}))

\* A whole number; or one that is n over d, ten to the power e times.
RealValue(whole, fract, d, e) == [n |-> whole * d + fract, d |-> d, e |-> e]
Number(radix, whole, fract, e, q, real) ==
  [p |-> q.p, radix |-> radix, qualifier |-> q.is, real |-> real,
   value |-> IF real THEN RealValue(whole.n, fract.n, Magnitude(radix, fract.n), e.n) ELSE [n |-> whole.n, d |-> 1, e |-> 0]]
WithExponent(proc, s, radix, whole, fract, e, q) ==
  Number(radix, whole, fract, e, q, fract.p # whole.p \/ e.has \/ q.is = <<"Float">>)
WithFraction(proc, s, radix, whole, fract, e) == WithExponent(proc, s, radix, whole, fract, e, Qualifier(proc, s, e.p))
WithWhole(proc, s, radix, whole, fract) == WithFraction(proc, s, radix, whole, fract, Exponent(proc, s, radix, fract.p))
NumberFrom(proc, s, p, radix, whole) ==
  IF whole.p = p /\ ~(At(s, p) = Dot /\ At(s, p + 1) \in 48 .. 57) THEN [p |-> p]
  ELSE WithWhole(proc, s, radix, whole, IF At(s, whole.p) = Dot THEN UIntAt(proc, s, radix, whole.p + 1)
                                        ELSE [p |-> whole.p, n |-> 0])
WithRadix(proc, s, p, r) == NumberFrom(proc, s, p, r.radix, UIntAt(proc, s, r.radix, r.p))
SkipNumber(proc, s, p) == WithRadix(proc, s, p, NumberRadix(proc, s, p, At(s, p), At(s, p + 1)))

-----------------------------------------------------------------------------
(* SkipPunctuation, and CSource::ReadToken.                                 *)

\* The first of the operators, in their order, that is there.
Longest(proc, p, there) == IF there = {} THEN p ELSE p + Len(proc.operators[Min(there)])
SkipPunctuation(proc, s, p) == Longest(proc, p, {i \in DOMAIN proc.operators : Cmp(s, p, proc.operators[i])})

\* r: the place, whether a line ended, what strings stand for, and the tokens.
Read(r, p, is, value, crossed) ==
  [r EXCEPT !.p = p, !.crossed = crossed,
            !.tokens = Append(@, [is |-> is, at |-> r.p, n |-> p - r.p, line |-> r.crossed, value |-> value])]

WideUnits(u) == IF u.ok THEN u.units ELSE <<>>
DataOf(string) ==
  CASE string.encoding \in {"Wide", "UTF16LE"} -> ToUTF16(string.data).units
    [] string.encoding = "UTF32LE" -> WideUnits(ToUTF32(string.data))
    [] OTHER -> Append(string.data, 0)
\* What a string stands for is kept behind that of those in front of it, with its end.
Keep(r, string, data) ==
  [Read(r, string.p, "string", [at |-> Len(r.data), n |-> Len(data)], FALSE) EXCEPT !.data = @ \o data]
ReadString(r, string) == Keep([r EXCEPT !.crossed = @ \/ string.crossed], string, DataOf(string))

BlanksTo(s, r, end) == [r EXCEPT !.p = end, !.crossed = @ \/ Newline \in ToSet(Between(s, r.p, end))]
SkipBlanks(s, r) == BlanksTo(s, r, Min({q \in r.p .. Len(s) : q = Len(s) \/ At(s, q) > 32}))

\* Strings come before names and numbers, which may start like them; a character that
\* starts none ends the text.
FirstOf(proc, s, r, string, number, name, operator) ==
  IF string.p # r.p THEN ReadString(r, string)
  ELSE IF number.p # r.p THEN Read(r, number.p, "number", number, FALSE)
  ELSE IF name.p # r.p THEN Read(r, name.p, "name", name.keyword, FALSE)
  ELSE IF operator # r.p THEN Read(r, operator, "punctuation", 0, Between(s, r.p, operator) = proc.lineSeparator)
  ELSE [r EXCEPT !.p = Len(s)]
ReadToken(proc, s, r) ==
  FirstOf(proc, s, r, SkipString(proc, s, r.p), SkipNumber(proc, s, r.p), SkipIdentifier(proc, s, r.p),
          SkipPunctuation(proc, s, r.p))

RECURSIVE ReadTokens(_, _, _)
TokensFrom(proc, s, r) == IF r.p = Len(s) THEN r ELSE ReadTokens(proc, s, ReadToken(proc, s, r))
ReadTokens(proc, s, r) == TokensFrom(proc, s, SkipBlanks(s, r))
Tokens(proc, s) == ReadTokens(proc, s, [p |-> 0, crossed |-> TRUE, data |-> <<>>, tokens |-> <<>>])

-----------------------------------------------------------------------------
(* The processor of Tenshi.  Characters are written as they are printed,    *)
(* but for quotation marks and the backslash.                               *)

Printed == " !#$%&'()*+,-./0123456789:;<=>?@ABCDEFGHIJKLMNOPQRSTUVWXYZ[]^_abcdefghijklmnopqrstuvwxyz{|}~"
Code(i) == i + (IF i <= 2 THEN 31 ELSE IF i <= 59 THEN 32 ELSE IF i <= 62 THEN 33 ELSE 34)
Ord == [c \in {SubSeq(Printed, i, i) : i \in 1 .. 92} |-> Code(CHOOSE i \in 1 .. 92 : SubSeq(Printed, i, i) = c)]
Bytes(text) == [i \in 1 .. Len(text) |-> Ord[SubSeq(text, i, i)]]
Words(texts) == [i \in DOMAIN texts |-> Bytes(texts[i])]

Escapes(letters, bytes) ==
  [c \in Range(Bytes(letters)) |-> bytes[CHOOSE i \in DOMAIN bytes : Bytes(letters)[i] = c]]
SetStringEscapes ==
  Escapes("0abfnqrtv", <<0, 7, 8, 12, 10, 34, 13, 9, 11>>) @@ Escapes("ABFNQRTV", <<7, 8, 12, 10, 34, 13, 9, 11>>)
    @@ [c \in {39, Quotation, 63, Backslash} |-> c]
SetOperators ==
  Words(<<"~<<=", "~>>=", "<<=", ">>=", "~<<", "~>>", "%%=", "<>", "!=", "<=", ">=", ":=", "==", "+=", "-=", "*=",
          "/=", "^=", "<<", ">>", "~~", "||", "&&", "%%", "&=", "|=", "~=", "=>", "+", "-", "*", "/", "^", "=", "!",
          "<", ">", "~", "&", "|", "(", ")", "[", "]", "@", ",", ";", ".", ":", "#">>)
\* Some of them: of one word and of more, which begin like one another or not.
CoreKeywords ==
  {"IF", "TYPE", "SELECT", "CASE", "CASE DEFAULT", "INC", "PRE INC", "ATOMIC INC", "ATOMIC COMPARE SET",
   "IS ANY OF", "DOUBLE INTEGER", "INTEGER"}
SetCoreKeywords ==
  FoldSet(LAMBDA name, keywords : AddKeyword(keywords, Bytes(name), "Error"), << >>, CoreKeywords)
ConfigureSourceProcessor ==
  [flags |-> {"CombineLines", "ArbitraryBases", "UnicodeNames", "SpacedNames", "BasicOctals",
              "BasicBinaries", "StringEscapesPrefixed", "SpecialEndings", "BasicHexadecimals", "NoNumberQualifiers"},
   escape |-> Backslash, escapePrefix |-> Ord["~"], replaced |-> SetStringEscapes,
   digits |-> [c \in {Ord["x"], Ord["X"]} |-> 2], braced |-> {Ord["u"], Ord["U"]},
   operators |-> SetOperators, keywords |-> SetCoreKeywords, endings |-> Range(Bytes("#$?")),
   digitSeparator |-> Ord["_"], lineCat |-> <<Backslash>>, lineSeparator |-> <<Ord[":"]>>, trigraphs |-> << >>]

\* One for C: UseCStringEscapes, AddCOperators.
CProcessor ==
  [flags |-> {"ExpandTrigraphs", "CombineLines", "StringLineBreaks", "CStringEncodings"},
   escape |-> Backslash, escapePrefix |-> Backslash,
   replaced |-> Escapes("0abfnrtv", <<0, 7, 8, 12, 10, 13, 9, 11>>) @@ [c \in {39, Quotation, 63, Backslash} |-> c],
   digits |-> Ord["x"] :> 2 @@ Ord["u"] :> 4 @@ Ord["U"] :> 8, braced |-> {},
   operators |-> Words(<<"<<=", ">>=", "...", "~=", "!=", "%=", "^=", "&=", "*=", "-=", "+=", "==", "|=", "<=", ">=",
                         "/=", "&&", "||", "<<", ">>", "->", "++", "--", "~", "!", "%", "^", "&", "*", "(", ")", "-",
                         "+", "=", "/", "[", "]", "{", "}", "|", ";", ":", ",", ".", "<", ">", "?">>),
   keywords |-> << >>, endings |-> {}, digitSeparator |-> 0, lineCat |-> <<Backslash>>, lineSeparator |-> <<>>,
   trigraphs |-> Escapes("=/'()!<>-", <<35, Backslash>> \o Bytes("^[]|{}~"))]

-----------------------------------------------------------------------------
(* Pieces of source text, each with the token that it should be.            *)

Quoting(prefix, text) == Bytes(prefix) \o <<Quotation>> \o text \o <<Quotation>>
Written(text, is, value) == [text |-> text, is |-> is, value |-> value]
Name(text) == Written(Bytes(text), "name", {})
Keyword(text) == Written(Bytes(text), "name", {ToUpper(Bytes(text))})
NumberOf(text, n, d, e, real) == Written(Bytes(text), "number", [real |-> real, value |-> [n |-> n, d |-> d, e |-> e]])
Whole(text, n) == NumberOf(text, n, 1, 0, FALSE)
Real(text, n, d, e) == NumberOf(text, n, d, e, TRUE)
String(text, data) == Written(text, "string", data)
OperatorPieces(operators) == [i \in DOMAIN operators |-> Written(operators[i], "punctuation", 0)]

EAcute == <<195, 169>>
Escape2(letter, more) == <<Backslash, Ord[letter]>> \o Bytes(more)
TenshiPieces ==
  <<Name("a"), Name("a1$"), Written(EAcute \o <<49>>, "name", {}), Name("IS"), Name("ANY"), Name("PRE"),
    Keyword("if"), Keyword("case"), Keyword("Case Default"), Keyword("INC"), Keyword("atomic compare set"),
    Whole("12", 12), Whole("0x1F", 31), Whole("0b10", 2), Whole("%10", 2), Whole("$1f", 31), Whole("0c17", 15),
    Whole("017", 17), Whole("7x20", 14), Whole("1_000", 1000), Real("1.5", 15, 10, 0), Real("3.", 3, 1, 0),
    Real(".25", 25, 100, 0), Real("2E-3", 2, 1, -3), Real("1.5e2", 15, 10, 2),
    String(Quoting("", <<>>), <<0>>), String(Quoting("", Bytes("a b")), Bytes("a b") \o <<0>>),
    String(Quoting("", Escape2("n", "")), Escape2("n", "") \o <<0>>),
    String(Quoting("~", Escape2("n", "a") \o Escape2("q", "")), <<Newline, 97, Quotation, 0>>),
    String(Quoting("~", Bytes("a") \o Escape2("x", "41b") \o Escape2("u", "{e9}c")), <<97, 65, 98>> \o EAcute \o <<99, 0>>),
    String(Quoting("~", Escape2("z", "a")), <<97, 0>>)>>
    \o OperatorPieces(SetOperators)
CPieces ==
  <<Name("Lx"), Name("u"), Whole("017", 15), Whole("0x1FuLL", 31), Whole("10UL", 10), Real("1.5f", 15, 10, 0),
    String(Quoting("L", Bytes("ab")), <<97, 98, 0>>), String(Quoting("u8", EAcute), EAcute \o <<0>>),
    String(Quoting("u", EAcute \o <<97>>), <<233, 97, 0>>), String(Quoting("U", EAcute), <<233, 0>>),
    String(Quoting("", Escape2("x", "41b") \o Escape2("u", "00e9c") \o <<Newline>>), <<65, 98>> \o EAcute \o <<99, 10, 0>>)>>
    \o OperatorPieces(CProcessor.operators)

\* Pieces that stay what they are when one is right behind the other, and with a blank.
MayTouch(proc, a, b) ==
  \/ a.is = "string" /\ "CStringEncodings" \notin proc.flags
  \/ a.is = "punctuation" /\ b.is = "name"
  \/ a.is = "punctuation" /\ b.is = "number" /\ a.text # <<Dot>>
  \/ a.is = "punctuation" /\ b.is = "string" /\ a.text # <<proc.escapePrefix>>
  \/ b.is = "punctuation" /\ a.is = "name" /\ Head(b.text) \notin proc.endings
  \/ b.is = "punctuation" /\ a.is = "number" /\ b.text[1] # Dot
MayFollow(proc, a, b) == ToLower(a.text \o <<32>> \o b.text) \notin DOMAIN proc.keywords

ValueRead(token, data) ==
  CASE token.is = "string" -> Between(data, token.value.at, token.value.at + token.value.n)
    [] token.is = "number" -> [real |-> token.value.real, value |-> token.value.value]
    [] OTHER -> token.value

\* Two pieces are read as the two tokens that they are, each at its place, with what it
\* stands for, and with the mark of a line's start when it has one; what strings stand
\* for lies one behind the other.
PiecesRead(proc, a, b, between) ==
  \A r \in {Tokens(proc, a.text \o between \o b.text)} :
  /\ Len(r.tokens) = 2
  /\ \A i \in 1 .. 2 : \A piece \in {IF i = 1 THEN a ELSE b}, token \in {r.tokens[i]} :
       /\ token.is = piece.is /\ token.n = Len(piece.text)
       /\ token.at = (IF i = 1 THEN 0 ELSE Len(a.text \o between))
       /\ token.line <=> \/ i = 1 \/ between = <<Newline>> \/ a.text = proc.lineSeparator
                         \/ piece.is = "string" /\ Has(piece.text, Newline)
       /\ ValueRead(token, r.data) = piece.value
  /\ r.data = FlattenSeq([i \in 1 .. 2 |-> LET p == IF i = 1 THEN a ELSE b IN IF p.is = "string" THEN p.value ELSE <<>>])
TokensRead(proc, pieces, i, j, between) ==
  \/ between = <<>> /\ ~MayTouch(proc, pieces[i], pieces[j])
  \/ between = <<32>> /\ ~MayFollow(proc, pieces[i], pieces[j])
  \/ PiecesRead(proc, pieces[i], pieces[j], between)

\* A keyword of several words is one token over single blanks, and only over those.
WordsRead(proc) ==
  \A between \in {<<32>>, <<32, 32>>, <<Newline>>} :
    \A r \in {Tokens(proc, Bytes("pre") \o between \o Bytes("inc"))} :
      Len(r.tokens) = (IF between = <<32>> THEN 1 ELSE 2)

Processed(proc, s) == IF "ExpandTrigraphs" \in proc.flags THEN ExpandTrigraphs(proc.trigraphs, s) ELSE s
Ends(t) == {i \in DOMAIN t : t[i] = Newline \/ (t[i] = 13 /\ At(t, i) # Newline)}
Newlines(t) == {i \in DOMAIN t : t[i] = Newline}
LineOf(t, p) == 1 + Cardinality({i \in Newlines(t) : i <= p})

\* The ends of lines that the character stands in front of that should join two lines.
Joins(proc, t) ==
  {i \in Ends(t) : LET first == IF i > 1 /\ t[i] = Newline /\ t[i - 1] = 13 THEN i - 1 ELSE i
                        cat == Len(proc.lineCat)
                    IN "CombineLines" \in proc.flags /\ first > cat /\ Between(t, first - 1 - cat, first - 1) = proc.lineCat}

(* "Combine lines separated by the concatenation symbol" (Source.hpp:111):  *)
(* each end of a line that joins no two lines is one newline, and the       *)
(* others are none.  ProcessText appends one for them all                   *)
(* (Source.cpp:179).                                                        *)
LinesJoined(proc, s) ==
  \A t \in {Processed(proc, s)} :
    Cardinality(Newlines(ProcessText(proc, s).text)) = Cardinality(Ends(t) \ Joins(proc, t))

(* "Retrieve line information for the position given" (Source.hpp:467): a   *)
(* place is on the line that it is on.  CalculateLineInfo takes the last    *)
(* line for the one in front of it (Source.cpp:1744).                       *)
LinesKnown(proc, s) ==
  \A r \in {ProcessText(proc, s)} : \A p \in 0 .. Len(r.text) : CalculateLineInfo(r.lines, p) = LineOf(r.text, p)

\* In a text that joins no lines, each line end is one newline; the lines start behind the
\* newlines, nothing else is lost or added, and a place that is not on the last line is on
\* the line that it is on.
LinesAgree(proc, s) ==
  \A t \in {Processed(proc, s)}, r \in {ProcessText(proc, s)} :
     /\ Joins(proc, t) = {} => LinesJoined(proc, s)
     /\ 13 \notin Range(r.text) /\ (Find(s, <<63, 63>>, 0) = -1 => t = s)
     /\ (\A i \in 2 .. Len(r.lines) : r.lines[i - 1] < r.lines[i]) /\ Range(r.lines) = {0} \union Newlines(r.text)
     /\ SelectSeq(r.text, LAMBDA c : c = 97) = SelectSeq(t, LAMBDA c : c = 97)
     /\ \A p \in 0 .. Len(r.text) :
          LineOf(r.text, p) # Len(r.lines) => CalculateLineInfo(r.lines, p) = LineOf(r.text, p)
=============================================================================
