----------------------------- MODULE TokenStream -----------------------------
(***************************************************************************)
(* The compiler's lexer: CSource (Source.cpp) reads tokens from a text one *)
(* at a time, and CLexer (Lexer.cpp) makes of them the stream that the     *)
(* parser reads, forward and back.  The lexer tells labels from other      *)
(* colons, writes operators that have names as punctuation, and turns      *)
(* IF x THEN f() on one line into an IF block with an ENDIF of its own.    *)
(*                                                                         *)
(* A text is a sequence of what it is made of, each apart from the next by *)
(* a blank, but for a colon written ":", which follows without one.        *)
(***************************************************************************)
EXTENDS Naturals, SequencesExt, FiniteSetsExt

CONSTANTS
  SourceTexts,   \* the texts, each a sequence of pieces
  AvoidedTexts   \* the shapes of text that are left out, by the names below

TextShapes == {"THEN in block", "IF after THEN", "IF THEN last",
               "lower-case remend", "unclosed comment", "comment ends line",
               "after directive"}

ASSUME AvoidedTextsAssumption == AvoidedTexts \subseteq TextShapes

VARIABLES
  m_Text,
  m_Current,       \* CSource: how much of the text was read
  m_bDidCrossLine,
  sourceTokens,    \* CSource::m_Tokens
  sourceToken,     \* CSource::m_CurrentToken: its number in them
  m_Tokens,        \* CLexer::m_Tokens
  m_CurrentToken,  \* how many of them the parser has read
  m_IfState, m_cEndifs

lexerVars == <<m_Text, m_Current, m_bDidCrossLine, sourceTokens, sourceToken,
               m_Tokens, m_CurrentToken, m_IfState, m_cEndifs>>

NullTok == [kind |-> "end of file", at |-> 0, line |-> FALSE]
Endif == [kind |-> "endif", at |-> 0, line |-> TRUE]
Colons == {":", " :"}

-----------------------------------------------------------------------------
(* CSourceProcessor: comments.  A place in the text is the number of pieces *)
(* in front of it.                                                          *)

PiecesAfter(p, S) == {q \in p + 1 .. Len(m_Text) : m_Text[q] \in S}

\* SkipLine goes past the end of the line, and says whether it found one.
SkipLineFrom(p) ==
  LET nl == PiecesAfter(p, {"newline"})
  IN IF nl = {} THEN [p |-> Len(m_Text), crossed |-> FALSE]
     ELSE [p |-> Min(nl), crossed |-> TRUE]

\* SkipNestedSection.  (It does not stop at the end of the text.)
SkipNestedSection(p) ==
  LET Level[q \in p .. Len(m_Text)] ==
        IF q = p THEN 0
        ELSE Level[q - 1] + (CASE m_Text[q] = "/*" -> 1 [] m_Text[q] = "*/" -> -1 [] OTHER -> 0)
      last == Min({q \in p + 1 .. Len(m_Text) : Level[q] = 0})
  IN [p |-> last, crossed |-> \E q \in p .. last : q > p /\ m_Text[q] = "newline"]

\* FindWord looks for a lower-case or an upper-case first letter, whichever is
\* nearer; when the text has no upper-case one any more, for neither.
FindRemend(p) ==
  {q \in PiecesAfter(p, {"remend", "REMEND"}) :
     m_Text[q] = "REMEND" \/ PiecesAfter(q, {"REMEND"}) # {}}

\* The line ends in a REM block are not noted.
SkipRemBlock(p) ==
  [p |-> IF FindRemend(p) = {} THEN Len(m_Text) ELSE Min(FindRemend(p)), crossed |-> FALSE]

\* SkipWhitespace, the loop of CSourceProcessor: from place p.
SkipWhitespace(p) ==
  LET Skip[q \in 0 .. Len(m_Text)] ==
        LET past(r) == LET rest == Skip[r.p]
                       IN [p |-> rest.p, crossed |-> r.crossed \/ rest.crossed]
        IN IF q = Len(m_Text) THEN [p |-> q, crossed |-> FALSE]
           ELSE CASE m_Text[q + 1] = "newline" -> past([p |-> q + 1, crossed |-> TRUE])
                  [] m_Text[q + 1] \in {"//", "rem"} -> past(SkipLineFrom(q + 1))
                  [] m_Text[q + 1] = "/*" -> past(SkipNestedSection(q))
                  [] m_Text[q + 1] = "remstart" -> past(SkipRemBlock(q + 1))
                  [] OTHER -> [p |-> q, crossed |-> FALSE]
  IN Skip[p]

-----------------------------------------------------------------------------
(* CSource.  r is a source's state while a function of the lexer runs.      *)

Reading == [current |-> m_Current, crossed |-> m_bDidCrossLine,
            tokens |-> sourceTokens, token |-> sourceToken]

\* ReadToken.  The token that was read is the current one, if there was one.
SourceAtEnd(r) == r.token = Len(r.tokens) /\ SkipWhitespace(r.current).p = Len(m_Text)
Tokenize(r, p, crossed) ==
  IF p = Len(m_Text) THEN [r EXCEPT !.current = p, !.crossed = crossed]
  ELSE [current |-> p + 1,
        crossed |-> m_Text[p + 1] \in Colons,
        tokens |-> Append(r.tokens, [kind |-> m_Text[p + 1], at |-> p + 1, line |-> crossed]),
        token |-> r.token + 1]
TokenizeAfter(r, skipped) == Tokenize(r, skipped.p, r.crossed \/ skipped.crossed)
ReadToken(r) ==
  IF r.token < Len(r.tokens) THEN [r EXCEPT !.token = @ + 1]
  ELSE TokenizeAfter(r, SkipWhitespace(r.current))

\* UnreadToken keeps the first.
UnreadToken(r) == [r EXCEPT !.token = IF @ <= 1 THEN @ ELSE @ - 1]

\* SkipLine stays in front of the end of the line.
SkipLine(r) ==
  [r EXCEPT !.current = LET nl == PiecesAfter(@, {"newline"})
                        IN IF nl = {} THEN Len(m_Text) ELSE Min(nl) - 1]

TokenRead(r) == r.tokens[r.token]

-----------------------------------------------------------------------------
(* CLexer. *)

NewlineFollows(tok) ==
  tok.at < Len(m_Text) /\ m_Text[tok.at + 1] \in {"newline", "//", "rem"}
NewlinePrecedes(r) == r.token = 1 \/ NewlineFollows(r.tokens[r.token - 1])

ProcessNamedOperator(tok) == IF tok.kind = "and" THEN [tok EXCEPT !.kind = "&&"] ELSE tok

\* What a turn of the loop in Lex does with a token: the source's state after it,
\* the tokens for the parser, or none and another turn; whether the next token is
\* to start a line; the state of IF and THEN.
Turn(r, out, force, state, endifs) ==
  [r |-> r, out |-> out, force |-> force, state |-> state, endifs |-> endifs]

\* A faulty ENDIF, which drops the token that stands behind it.
VirtualEndifEating(r, s) ==
  LET left == IF s.endifs = 0 THEN 2 * Len(m_Text) ELSE s.endifs - 1
  IN Turn(r, <<Endif>>, FALSE, IF left = 0 THEN "None" ELSE s.state, left)

\* An ENDIF at the end of a line with THEN, once for each IF; a count of 0 wraps.
VirtualEndif(r, s) ==
  LET left == IF s.endifs = 0 THEN 2 * Len(m_Text) ELSE s.endifs - 1
  IN Turn(UnreadToken(r), <<Endif>>, FALSE, IF left = 0 THEN "None" ELSE s.state, left)

\* A name that starts a line may be a label.  A colon that follows it otherwise is
\* dropped, as others are; anything else that follows it is put back.
NameThen(r, s, next, atEnd) ==
  LET colon == ~atEnd /\ TokenRead(next).kind \in Colons
      label == /\ colon /\ TokenRead(next).kind = ":"
               /\ TokenRead(next).at = TokenRead(r).at + 1
               /\ NewlineFollows(TokenRead(next)) /\ NewlinePrecedes(r)
  IN Turn(IF colon \/ atEnd THEN next ELSE UnreadToken(next),
          IF label THEN <<TokenRead(r), TokenRead(next)>> ELSE <<TokenRead(r)>>,
          FALSE, s.state, s.endifs)
NameAtLineStart(r, s) == NameThen(r, s, ReadToken(r), SourceAtEnd(r))

LexTurnOn(s, r, tok) ==
  IF tok.line /\ s.state = "HaveThen" /\ NewlinePrecedes(r) THEN VirtualEndif(r, s)
  ELSE CASE tok.kind = "#" /\ tok.line /\ NewlinePrecedes(r) ->
              Turn(SkipLine(r), <<>>, FALSE, s.state, s.endifs)
         [] tok.kind = "x" /\ tok.line -> NameAtLineStart(r, s)
         [] tok.kind = "if" -> Turn(r, <<tok>>, FALSE, "HaveIf", s.endifs)
         [] tok.kind = "elseif" -> Turn(r, <<tok>>, FALSE, "HaveElseIf", s.endifs)
         [] tok.kind = "then" /\ s.state \in {"HaveIf", "HaveElseIf"} ->
              Turn(r, <<>>, TRUE, "HaveThen",
                   IF s.state = "HaveIf" THEN s.endifs + 1 ELSE s.endifs)
         [] tok.kind \in Colons -> Turn(r, <<>>, FALSE, s.state, s.endifs)
         [] OTHER -> Turn(r, <<ProcessNamedOperator(tok)>>, FALSE, s.state, s.endifs)
LexTurnRead(s, r) == LexTurnOn(s, r, TokenRead(r))
Forced(read, force) == IF force THEN [read EXCEPT !.tokens[read.token].line = TRUE] ELSE read
LexTurnAt(s, read, atEnd) ==
  IF atEnd THEN Turn(read, <<NullTok>>, FALSE, s.state, s.endifs)
  ELSE LexTurnRead(s, Forced(read, s.force))
LexTurn(s) ==
  IF s.out # <<>> THEN s ELSE LexTurnAt(s, ReadToken(s.r), SourceAtEnd(s.r))

\* Turns are taken until there is a token.
Turns ==
  LET T[n \in Nat] ==
        IF n = 0 THEN Turn(Reading, <<>>, FALSE, m_IfState, m_cEndifs) ELSE LexTurn(T[n - 1])
  IN T[Len(m_Text) + 2]

\* Lex and, in a function that the token does not suit, Unlex: LexLine, Check.
LexThen(back(_)) ==
  IF m_CurrentToken < Len(m_Tokens)
  THEN /\ m_CurrentToken' = m_CurrentToken + 1 - back(m_Tokens[m_CurrentToken + 1])
       /\ UNCHANGED <<m_Text, m_Current, m_bDidCrossLine, sourceTokens, sourceToken,
                      m_Tokens, m_IfState, m_cEndifs>>
  ELSE \E t \in {Turns} :
       /\ m_Current' = t.r.current /\ m_bDidCrossLine' = t.r.crossed
       /\ sourceTokens' = t.r.tokens /\ sourceToken' = t.r.token
       /\ m_Tokens' = m_Tokens \o t.out
       /\ m_CurrentToken' = m_CurrentToken + 1 - back(t.out[1])
       /\ m_IfState' = t.state /\ m_cEndifs' = t.endifs
       /\ UNCHANGED m_Text

\* How far the parser reads past the end.
MoreToRead == \/ m_CurrentToken < Len(m_Tokens)
              \/ Cardinality({i \in DOMAIN m_Tokens : m_Tokens[i] = NullTok}) < 2
                   /\ Len(m_Tokens) < 3 * Len(m_Text)

Lex == MoreToRead /\ LexThen(LAMBDA tok : 0)
LexLine == MoreToRead /\ LexThen(LAMBDA tok : IF tok.line THEN 1 ELSE 0)
\* Check finds the token unsuitable; otherwise it does what Lex does.
Check == MoreToRead /\ LexThen(LAMBDA tok : 1)

Unlex ==
  /\ m_CurrentToken > 0 /\ m_CurrentToken' = m_CurrentToken - 1
  /\ UNCHANGED <<m_Text, m_Current, m_bDidCrossLine, sourceTokens, sourceToken,
                 m_Tokens, m_IfState, m_cEndifs>>

LexerNext == Lex \/ LexLine \/ Check \/ Unlex

-----------------------------------------------------------------------------
(* What the stream is to be, of a text taken as a whole.                    *)

\* How each piece stands: in code, in a comment that the line ends, or in a
\* comment of another kind.
Standing(t) ==
  LET S[i \in 0 .. Len(t)] ==
        IF i = 0 THEN [mode |-> "code", depth |-> 0, skip |-> FALSE]
        ELSE LET s == S[i - 1] IN
          CASE s.mode = "code" /\ t[i] \in {"//", "rem"} ->
                 [mode |-> "line", depth |-> 0, skip |-> TRUE]
            [] s.mode = "code" /\ t[i] = "/*" -> [mode |-> "nest", depth |-> 1, skip |-> TRUE]
            [] s.mode = "code" /\ t[i] = "remstart" ->
                 [mode |-> "block", depth |-> 0, skip |-> TRUE]
            [] s.mode = "line" /\ t[i] = "newline" ->
                 [mode |-> "code", depth |-> 0, skip |-> FALSE]
            [] s.mode = "nest" /\ t[i] \in {"/*", "*/"} ->
                 LET d == IF t[i] = "/*" THEN s.depth + 1 ELSE s.depth - 1
                 IN [mode |-> IF d = 0 THEN "code" ELSE "nest", depth |-> d, skip |-> TRUE]
            [] s.mode = "nest" /\ t[i] = "newline" -> [s EXCEPT !.skip = FALSE]
            [] s.mode = "block" /\ t[i] \in {"remend", "REMEND"} ->
                 [mode |-> "code", depth |-> 0, skip |-> TRUE]
            [] OTHER -> [s EXCEPT !.skip = s.mode # "code"]
  IN [i \in 1 .. Len(t) |-> S[i]]

\* The lines of a text, each a sequence of pieces without its comments.
LinesOf(t) ==
  LET st == Standing(t)
      code == SelectSeq([i \in 1 .. Len(t) |-> i], LAMBDA i : ~st[i].skip)
      \* A comment in between is a blank.
      piece(i) == IF t[i] = ":" /\ i > 1 /\ st[i - 1].skip THEN " :" ELSE t[i]
      cut(lines, i) == IF t[i] = "newline" THEN Append(lines, <<>>)
                       ELSE Append(Front(lines), Append(Last(lines), piece(i)))
  IN FoldLeft(cut, << <<>> >>, code)

\* A line that has THEN becomes an IF with an ENDIF for each IF of it.
TokensOf(line) ==
  LET starts(i) == i = 1 \/ line[i - 1] \in Colons \cup {"then"}
      token(i) == [kind |-> IF line[i] = "and" THEN "&&" ELSE line[i], line |-> starts(i)]
      kept == SelectSeq([i \in 1 .. Len(line) |-> i], LAMBDA i : line[i] \notin Colons \cup {"then"})
      ifs == Cardinality({i \in DOMAIN line : line[i] = "if"})
      endif == [kind |-> "endif", line |-> TRUE]
  IN IF line = <<>> \/ line[1] = "#" THEN <<>>
     ELSE IF line = <<"x", ":">> THEN <<[kind |-> "x", line |-> TRUE], [kind |-> ":", line |-> FALSE]>>
     ELSE [i \in DOMAIN kept |-> token(kept[i])]
            \o IF \E i \in DOMAIN line : line[i] = "then" THEN [i \in 1 .. ifs |-> endif] ELSE <<>>

Stream(t) == FlattenSeq([i \in DOMAIN LinesOf(t) |-> TokensOf(LinesOf(t)[i])])

\* The shapes of text that the code makes something else of.
HasShape(t) ==
  LET lines == LinesOf(t)
      st == Standing(t)
      tests(line) == SelectSeq(line, LAMBDA w : w \in {"if", "elseif", "then"})
      later(i, S) == \E j \in i + 1 .. Len(t) : t[j] \in S
  IN [\* THEN on a line that does not begin its IF.
      thenInBlock |-> \E i \in DOMAIN lines :
                        LET k == tests(lines[i]) IN
                        \E j \in DOMAIN k : k[j] = "then" /\
                          (j = 1 \/ k[1] # "if" \/ k[j - 1] = "then"),
      \* An IF without THEN on a line that has one.
      ifAfterThen |-> \E i \in DOMAIN lines :
                        LET k == tests(lines[i]) IN
                        "then" \in ToSet(k) /\ \E j \in DOMAIN k :
                          k[j] # "then" /\ (j = Len(k) \/ k[j + 1] # "then"),
      ifThenLast |-> LET code == SelectSeq(lines, LAMBDA l : l # <<>>)
                     IN code # <<>> /\ "then" \in ToSet(Last(code)),
      remend |-> \E i \in DOMAIN t : st[i].skip /\ t[i] = "remend" /\ ~later(i, {"REMEND"}),
      unclosed |-> \E i \in DOMAIN t : t[i] \in {"/*", "remstart"} /\ Last(st).mode # "code",
      \* A line that ends in or behind a block comment, where that makes a difference.
      endsLine |-> /\ ToSet(t) \cap {"#", ":", "then"} # {}
                   /\ \E i \in 1 .. Len(t) - 1 :
                        /\ t[i + 1] = "newline"
                        /\ st[i].mode \in {"nest", "block"} \/ t[i] \in {"*/", "remend", "REMEND"},
      \* A directive or a label on the line after a directive.
      directive |-> LET code == SelectSeq(lines, LAMBDA l : l # <<>>)
                    IN \E i \in 1 .. Len(code) - 1 :
                         /\ code[i][1] = "#" /\ Len(code[i]) > 1
                         /\ code[i + 1][1] = "#" \/ code[i + 1] = <<"x", ":">>]

Excluded(t) ==
  LET h == HasShape(t) IN
  \/ "THEN in block" \in AvoidedTexts /\ h.thenInBlock
  \/ "IF after THEN" \in AvoidedTexts /\ h.ifAfterThen
  \/ "IF THEN last" \in AvoidedTexts /\ h.ifThenLast
  \/ "lower-case remend" \in AvoidedTexts /\ h.remend
  \/ "unclosed comment" \in AvoidedTexts /\ h.unclosed
  \/ "comment ends line" \in AvoidedTexts /\ h.endsLine
  \/ "after directive" \in AvoidedTexts /\ h.directive

\* LoadText.  A text whose last line has no end is given one.
LoadText(t) ==
  /\ m_Text = Append(t, "newline")
  /\ m_Current = 0 /\ m_bDidCrossLine = TRUE
  /\ sourceTokens = <<>> /\ sourceToken = 0
  /\ m_Tokens = <<>> /\ m_CurrentToken = 0
  /\ m_IfState = "None" /\ m_cEndifs = 0

LexerInit == \E t \in {u \in SourceTexts : ~Excluded(Append(u, "newline"))} : LoadText(t)

\* Whichever way the parser goes forward and back, the tokens that it is given
\* are those of the text's lines, in order: no comment hides what is behind it,
\* a label is told from a statement, and each IF with THEN on its line is closed
\* at the end of that line, once.
TokensAsWritten ==
  LET given == SelectSeq(m_Tokens, LAMBDA tok : tok # NullTok)
      seen == [i \in DOMAIN given |-> [kind |-> given[i].kind, line |-> given[i].line]]
      \* A tight colon is a colon.
      due == Stream(m_Text)
  IN IF NullTok \in ToSet(m_Tokens) THEN seen = due ELSE IsPrefix(seen, due)
=============================================================================
