------------------------------- MODULE Syntax --------------------------------
(***************************************************************************)
(* How CParser makes a tree of the tokens of an expression (Parser.cpp):   *)
(* operators by precedence, all that have two operands to the left first,  *)
(* names with the members, subscripts and calls that follow them, lists.   *)
(* Line ends mean nothing within an expression.                            *)
(***************************************************************************)
EXTENDS Naturals, TLC, SequencesExt, Pointers

CONSTANTS Literals, Keywords   \* the tokens that are literals; the keywords

VARIABLE lexed   \* the tokens, as the lexer gives them

Precedence ==
  [op \in {"||", "~~"} |-> 110] @@ [op \in {"&&"} |-> 120]
  @@ [op \in {"<", ">", "<=", ">=", "==", "=", "!=", "<>"} |-> 130]
  @@ [op \in {"~", "|", "+", "-"} |-> 140] @@ [op \in {"*", "/", "%%", "&"} |-> 150]
  @@ [op \in {"<<", ">>", "~<<", "~>>", "^"} |-> 160] @@ [op \in {"."} |-> 255]
BinaryOps == DOMAIN Precedence
UnaryOps == {"+", "-", "~", "!", "&", "*"}
UnaryPrecedence == 250

AssignmentOps == {"=", "+=", "-=", "*=", "/=", "^=", "%%=", "<<=", ">>=",
                  "&=", "|=", "~=", "~<<=", "~>>="}
Punctuation == BinaryOps \cup UnaryOps \cup AssignmentOps
                 \cup {"(", ")", "[", "]", ",", ":", "=>"}

EndOfFile == [is |-> "end of file", line |-> FALSE]
Tok(i) == IF i \in DOMAIN lexed THEN lexed[i] ELSE EndOfFile
IsPunctuation(tok) == tok.is \in Punctuation
IsName(tok) == tok # EndOfFile /\ tok.is \notin Punctuation \cup Literals
IsKeyword(tok) == tok.is \in Keywords

\* A tree: what stands at its root, and the trees under that.
Node(kind, is, kids) == [kind |-> kind, is |-> is, kids |-> kids]
NameExpr(name) == Node("name", name, <<>>)

\* What a function of the parser returns: a tree, or NULL after an error, and the
\* place of the token that is to be read next.
Parsed(node, i) == [node |-> node, at |-> i]
Failed == Parsed(NULL, 0)
Then(r, F(_)) == IF r.node = NULL THEN Failed ELSE F(r)
Expect(is, i, r) == IF Tok(i).is = is THEN r ELSE Failed

RECURSIVE ParseSubexpression(_, _), ExpressionList(_, _, _), Postfixes(_), Climb(_, _)

\* ParseExpressionList, where `list` has been read; close is "" for a list without
\* brackets.  A comma may stand in front of the closing bracket.
ExpressionList(i, close, list) ==
  IF close # "" /\ Tok(i).is = close THEN Parsed(list, i + 1)
  ELSE Then(ParseSubexpression(i, 0), LAMBDA e :
         CASE Tok(e.at).is = "," -> ExpressionList(e.at + 1, close, Append(list, e.node))
           [] Tok(e.at).is # "," /\ close = "" -> Parsed(Append(list, e.node), e.at)
           [] OTHER -> Expect(close, e.at, Parsed(Append(list, e.node), e.at + 1)))
ParseExpressionList(i, close) == ExpressionList(i, close, <<>>)

\* ParseNameTerminal.
Postfixes(left) ==
  LET bracketed(kind, close) ==
        Then(ParseExpressionList(left.at + 1, close), LAMBDA list :
          Postfixes(Parsed(Node(kind, kind, <<left.node>> \o list.node), list.at)))
  IN CASE Tok(left.at).is = "." ->
            IF ~IsName(Tok(left.at + 1)) THEN Failed
            ELSE Postfixes(Parsed(Node("member", Tok(left.at + 1).is, <<left.node>>), left.at + 2))
       [] Tok(left.at).is = "[" -> bracketed("subscript", "]")
       [] Tok(left.at).is = "(" -> bracketed("call", ")")
       [] OTHER -> left
ParseNameTerminal(i) ==
  IF IsName(Tok(i)) THEN Postfixes(Parsed(NameExpr(Tok(i).is), i + 1)) ELSE Failed

\* Nothing is looked for behind a closing bracket or a literal.
ParseTerminal(i) ==
  CASE Tok(i).is = "(" -> Then(ParseSubexpression(i + 1, 0), LAMBDA e :
                            Expect(")", e.at, Parsed(e.node, e.at + 1)))
    [] Tok(i).is \in Literals -> Parsed(Node("literal", Tok(i).is, <<>>), i + 1)
    [] OTHER -> ParseNameTerminal(i)

\* (No operator that follows its operand is declared.)
ParseUnaryExpression(i) ==
  IF Tok(i).is \in UnaryOps
  THEN Then(ParseSubexpression(i + 1, UnaryPrecedence), LAMBDA e :
         Parsed(Node("unary", Tok(i).is, <<e.node>>), e.at))
  ELSE ParseTerminal(i)

\* A faulty climb, in which the operators group to the right.
ClimbRight(tree, level) ==
  LET op == Tok(tree.at).is
  IN IF op \in BinaryOps /\ Precedence[op] >= level
     THEN Then(ParseSubexpression(tree.at + 1, Precedence[op]), LAMBDA right :
            Climb(Parsed(Node("binary", op, <<tree.node, right.node>>), right.at), level))
     ELSE tree

\* ParseSubexpression, once it has the tree of an operand.
Climb(tree, level) ==
  LET op == Tok(tree.at).is
  IN IF op \in BinaryOps /\ Precedence[op] >= level
     THEN Then(ParseSubexpression(tree.at + 1, Precedence[op] + 1), LAMBDA right :
            Climb(Parsed(Node("binary", op, <<tree.node, right.node>>), right.at), level))
     ELSE tree
ParseSubexpression(i, level) ==
  Then(ParseUnaryExpression(i), LAMBDA operand : Climb(operand, level))

ParseExpression(i) == ParseSubexpression(i, 0)

-----------------------------------------------------------------------------
(* The words of a tree, in brackets where it stands at a higher level than   *)
(* its operator has: an operator takes operands of its own precedence on its *)
(* left, and of a higher one on its right.                                   *)

RECURSIVE ExprWords(_, _), ListWords(_)
ListWords(list) ==
  IF list = <<>> THEN <<>>
  ELSE ExprWords(Head(list), 0)
         \o (IF Len(list) = 1 THEN <<>> ELSE <<",">> \o ListWords(Tail(list)))
ExprWords(e, level) ==
  LET bracketed(p, words) == IF p < level THEN <<"(">> \o words \o <<")">> ELSE words
  IN CASE e.kind \in {"name", "literal"} -> <<e.is>>
       [] e.kind = "member" -> ExprWords(e.kids[1], 0) \o <<".", e.is>>
       [] e.kind = "subscript" -> ExprWords(e.kids[1], 0) \o <<"[">> \o ListWords(Tail(e.kids)) \o <<"]">>
       [] e.kind = "call" -> ExprWords(e.kids[1], 0) \o <<"(">> \o ListWords(Tail(e.kids)) \o <<")">>
       [] e.kind = "unary" -> bracketed(UnaryPrecedence, <<e.is>> \o ExprWords(e.kids[1], UnaryPrecedence))
       [] e.kind = "binary" ->
            LET p == Precedence[e.is]
            IN bracketed(p, ExprWords(e.kids[1], p) \o <<e.is>> \o ExprWords(e.kids[2], p + 1))

-----------------------------------------------------------------------------
(* How CParser makes statements of tokens (Parser.cpp, and the Parse       *)
(* functions in StmtParser.cpp, FunctionParser.cpp and UDTParser.cpp), one *)
(* statement of the program after the other.  A statement begins at the    *)
(* start of a line.  Where it stands decides what it may be: a sequence    *)
(* has a type and knows whether a loop or a function is around it.         *)

CONSTANTS
  ProgramsWritten,  \* the programs, as sequences of statements
  TypeKeywords,     \* the keywords that name types
  AvoidedSyntax     \* the shapes of source that are left out, by these names:

SyntaxShapes == {"ELSEIF", "name after type", "names after type", "comma at end"}
ASSUME AvoidedSyntaxAssumption == AvoidedSyntax \subseteq SyntaxShapes

VARIABLES
  written,          \* the program that the tokens were made from
  edit,             \* what was done to them
  m_Stmts, m_FuncDecls, m_Types,
  nextToken,
  parsing           \* "running", "done" or "failed"

syntaxVars == <<lexed, written, edit, m_Stmts, m_FuncDecls, m_Types, nextToken, parsing>>

\* A statement: its kind, the words that tell it from others of its kind, its
\* expressions (or NULL, for none) and the sequences in it.
Stmt(is, words, exprs, body) == [is |-> is, words |-> words, exprs |-> exprs, body |-> body]

\* CStatementSequence: m_Type, m_bInLoop, m_bInFunction; Inherit.
Inside(type, seq) ==
  [type |-> type, inLoop |-> seq.inLoop \/ type = "LoopBlock",
   inFunction |-> seq.inFunction \/ type = "Function"]
ProgramSequence == [type |-> "Program", inLoop |-> FALSE, inFunction |-> FALSE]

IsUserName(tok) == IsName(tok) /\ ~IsKeyword(tok)
OnLine(tok) == tok # EndOfFile /\ ~tok.line

RECURSIVE ParseStatement(_, _), ParseBlock(_, _, _), IfBranches(_, _), SelectCases(_, _, _),
          Parameters(_, _, _), Fields(_, _), FieldNames(_, _, _)

\* The loop of each statement that has others in it, up to one of `ends`, which is
\* not passed.
ParseBlock(i, seq, ends) ==
  CASE ~Tok(i).line -> Failed
    [] Tok(i).line /\ Tok(i).is \in ends -> Parsed(<<>>, i)
    [] OTHER -> Then(ParseStatement(i, seq), LAMBDA s :
                  Then(ParseBlock(s.at, seq, ends), LAMBDA rest :
                    Parsed(<<s.node>> \o rest.node, rest.at)))

-----------------------------------------------------------------------------
(* Loops and conditions. *)

ParseDoLoop(i, seq) ==
  Then(ParseBlock(i + 1, Inside("LoopBlock", seq), {"loop"}), LAMBDA b :
    Parsed(Stmt("do", <<>>, <<>>, <<b.node>>), b.at + 1))
ParseWhileLoop(i, seq) ==
  Then(ParseExpression(i + 1), LAMBDA e :
    Then(ParseBlock(e.at, Inside("LoopBlock", seq), {"endwhile"}), LAMBDA b :
      Parsed(Stmt("while", <<>>, <<e.node>>, <<b.node>>), b.at + 1)))
ParseRepeatLoop(i, seq) ==
  Then(ParseBlock(i + 1, Inside("LoopBlock", seq), {"until"}), LAMBDA b :
    Then(ParseExpression(b.at + 1), LAMBDA e :
      Parsed(Stmt("repeat", <<>>, <<e.node>>, <<b.node>>), e.at)))

\* NEXT may have the name of the variable after it, and no other.
ParseNext(i, stmt) ==
  IF OnLine(Tok(i)) /\ IsName(Tok(i))
  THEN Expect(stmt.words[1], i, Parsed([stmt EXCEPT !.words = Append(@, Tok(i).is)], i + 1))
  ELSE Parsed(stmt, i)
ParseStep(i) ==
  IF Tok(i).is = "step" THEN Then(ParseExpression(i + 1), LAMBDA e : Parsed(<<e.node>>, e.at))
  ELSE Parsed(<<>>, i)
ParseForLoop(i, seq) ==
  IF ~(OnLine(Tok(i + 1)) /\ IsUserName(Tok(i + 1)) /\ Tok(i + 2).is = "=") THEN Failed
  ELSE Then(ParseExpression(i + 3), LAMBDA init :
         IF Tok(init.at).is \notin {"to", "until"} THEN Failed
         ELSE Then(ParseExpression(init.at + 1), LAMBDA cond :
           Then(ParseStep(cond.at), LAMBDA step :
             Then(ParseBlock(step.at, Inside("LoopBlock", seq), {"next"}), LAMBDA b :
               ParseNext(b.at + 1, Stmt("for", <<Tok(i + 1).is, Tok(init.at).is>>,
                                        <<init.node, cond.node>> \o step.node, <<b.node>>))))))

\* IF, up to its ENDIF: the conditions after the first, and the sequences.  An
\* ELSEIF is appended to m_ElseStmts twice.
IfBranches(i, seq) ==
  LET branch(j) == ParseBlock(j, Inside("None", seq), {"elseif", "else", "endif"})
  IN Then(branch(i), LAMBDA b :
       CASE Tok(b.at).is = "endif" -> Parsed([exprs |-> <<>>, body |-> <<b.node>>], b.at + 1)
         [] Tok(b.at).is = "elseif" ->
              Then(ParseExpression(b.at + 1), LAMBDA e : Then(IfBranches(e.at, seq), LAMBDA rest :
                Parsed([exprs |-> <<e.node, e.node>> \o rest.node.exprs,
                        body |-> <<b.node, Head(rest.node.body)>> \o rest.node.body], rest.at)))
         [] Tok(b.at).is = "else" ->
              Then(branch(b.at + 1), LAMBDA c :
                Expect("endif", c.at, Parsed([exprs |-> <<>>, body |-> <<b.node, c.node>>], c.at + 1))))
ParseIf(i, seq) ==
  Then(ParseExpression(i + 1), LAMBDA e : Then(IfBranches(e.at, seq), LAMBDA rest :
    Parsed(Stmt("if", <<>>, <<e.node>> \o rest.node.exprs, rest.node.body), rest.at)))

\* A CASE ends at ENDCASE or at the next CASE, and not at ENDSELECT.
CaseStatements(i, case, seq) ==
  Then(ParseBlock(i, Inside("CaseBlock", seq), {"endcase", "case", "case default"}), LAMBDA b :
    Parsed([case EXCEPT !.body = <<b.node>>], IF Tok(b.at).is = "endcase" THEN b.at + 1 ELSE b.at))
ParseCase(i, seq) ==
  IF Tok(i).is = "case"
  THEN Then(ParseExpression(i + 1), LAMBDA e :
         CaseStatements(e.at, Stmt("case", <<>>, <<e.node>>, <<>>), seq))
  ELSE CaseStatements(i + 1, Stmt("case default", <<>>, <<>>, <<>>), seq)
SelectCases(i, seq, hadDefault) ==
  CASE ~Tok(i).line \/ Tok(i).is \notin {"case", "case default", "endselect"} -> Failed
    [] Tok(i).line /\ Tok(i).is = "endselect" -> Parsed(<<>>, i + 1)
    [] OTHER -> IF Tok(i).is = "case default" /\ hadDefault THEN Failed
                ELSE Then(ParseCase(i, seq), LAMBDA c :
                       Then(SelectCases(c.at, seq, hadDefault \/ Tok(i).is = "case default"),
                            LAMBDA rest : Parsed(<<c.node>> \o rest.node, rest.at)))
ParseSelect(i, seq) ==
  Then(ParseExpression(i + 1), LAMBDA e :
    Then(SelectCases(e.at, Inside("None", seq), FALSE), LAMBDA cases :
      Parsed(Stmt("select", <<>>, <<e.node>>, <<cases.node>>), cases.at)))

-----------------------------------------------------------------------------
(* Declarations. *)

\* CTypeDecl::Parse: a name, and brackets.  A second name ends the type and is not
\* put back.
TypeDecl(type, i) ==
  LET brackets[j \in Nat] == IF OnLine(Tok(j)) /\ Tok(j).is = "[" /\ Tok(j + 1).is = "]"
                             THEN brackets[j + 2] ELSE j
      last == brackets[i]
  IN CASE IsKeyword(type) /\ type.is \notin TypeKeywords -> Failed
       [] OnLine(Tok(last)) /\ Tok(last).is = "[" -> Failed
       [] OTHER -> Parsed(<<type.is>> \o [j \in 1 .. last - i |-> IF j % 2 = 1 THEN "[" ELSE "]"],
                          IF OnLine(Tok(last)) /\ IsName(Tok(last)) THEN last + 1 ELSE last)
ParseType(i) == IF OnLine(Tok(i)) /\ IsName(Tok(i)) THEN TypeDecl(Tok(i), i + 1) ELSE Failed

\* "=" and an expression, or nothing.
Default(i, wanted) ==
  IF wanted /\ Tok(i).is = "=" THEN Then(ParseExpression(i + 1), LAMBDA e : Parsed(<<e.node>>, e.at))
  ELSE Parsed(<<>>, i)
\* Declared as `name AS type`; and as `type name, ...`, where only the last name
\* stays.  No DIM is modelled.
AsDeclaration(scope, name, i) ==
  Then(ParseType(i), LAMBDA type : Then(Default(type.at, scope = "as" \/ OnLine(Tok(type.at))), LAMBDA def :
    Parsed(Stmt("declare", <<scope, name, "as">> \o type.node, def.node, <<>>), def.at)))
RECURSIVE NamesAfterType(_, _, _)
NamesAfterType(scope, type, i) ==
  IF ~(OnLine(Tok(i)) /\ IsUserName(Tok(i))) THEN Failed
  ELSE Then(TypeDecl(type, i + 1), LAMBDA t : Then(Default(t.at, OnLine(Tok(t.at))), LAMBDA def :
         IF OnLine(Tok(def.at)) /\ Tok(def.at).is = "," THEN NamesAfterType(scope, type, def.at + 1)
         ELSE Parsed(Stmt("declare", <<scope, type.is, Tok(i).is>> \o Tail(t.node), def.node, <<>>), def.at)))
ParseVariableDeclaration(i) ==
  LET first == Tok(i + 1)
      next == Tok(i + 2)
  IN CASE ~(OnLine(first) /\ IsName(first)) -> Failed
       [] OnLine(first) /\ IsName(first) /\ OnLine(next) /\ next.is = "as" ->
            IF IsKeyword(first) THEN Failed ELSE AsDeclaration(Tok(i).is, first.is, i + 3)
       [] OnLine(first) /\ IsName(first) /\ OnLine(next) /\ IsName(next) /\ next.is # "as" ->
            NamesAfterType(Tok(i).is, first, i + 2)
       [] OTHER -> Then(Default(i + 2, OnLine(next)), LAMBDA def :
                     Parsed(Stmt("declare", <<Tok(i).is, first.is>>, def.node, <<>>), def.at))

\* CReturnStmt::Parse: "=>" and an expression, or one if the line goes on.
ParseReturn(i) ==
  IF Tok(i).is # "=>" /\ ~OnLine(Tok(i + 1)) THEN Parsed(Stmt("return", <<Tok(i).is>>, <<>>, <<>>), i + 1)
  ELSE Then(ParseExpression(i + 1), LAMBDA e :
         Parsed(Stmt("return", <<Tok(i).is>>, <<e.node>>, <<>>), e.at))

\* ParseParameters, from a parameter on: the statement says what was read.  After
\* one that has a default all must have one.
AsType(i) ==
  IF Tok(i).is # "as" THEN Parsed(<<>>, i)
  ELSE Then(ParseType(i + 1), LAMBDA t : Parsed(<<"as">> \o t.node, t.at))
Parameters(i, list, hadDefault) ==
  IF ~IsUserName(Tok(i)) THEN Failed
  ELSE Then(AsType(i + 1), LAMBDA t : Then(Default(t.at, TRUE), LAMBDA def :
         LET all == Append(list, Stmt("parameter", <<Tok(i).is>> \o t.node, def.node, <<>>))
         IN CASE hadDefault /\ def.node = <<>> -> Failed
              [] ~(hadDefault /\ def.node = <<>>) /\ Tok(def.at).is = "," ->
                   Parameters(def.at + 1, all, def.node # <<>>)
              [] OTHER -> Expect(")", def.at, Parsed(all, def.at + 1))))
ParseParameters(i) ==
  Expect("(", i, IF Tok(i + 1).is = ")" THEN Parsed(<<>>, i + 2) ELSE Parameters(i + 1, <<>>, FALSE))

\* CFunctionDecl::Parse.
ParseFunction(i) ==
  IF ~(OnLine(Tok(i + 1)) /\ IsUserName(Tok(i + 1))) THEN Failed
  ELSE Then(ParseParameters(i + 2), LAMBDA parms :
         Then(IF OnLine(Tok(parms.at)) THEN AsType(parms.at) ELSE Parsed(<<>>, parms.at), LAMBDA t :
           LET func(stmts) == Stmt("function", <<Tok(i + 1).is>> \o t.node, <<>>, <<parms.node, stmts>>)
               seq == Inside("Function", ProgramSequence)
           IN IF Tok(t.at).is = "=>"
              THEN Then(ParseReturn(t.at), LAMBDA r : Parsed(func(<<r.node>>), r.at))
              ELSE Then(ParseBlock(t.at, seq, {"endfunction"}), LAMBDA b :
                     Then(ParseReturn(b.at), LAMBDA r : Parsed(func(Append(b.node, r.node)), r.at)))))

\* CUserDefinedType::Parse: lines of `name, ...`, of `name AS type` and of
\* `type name, ...`.  A list of the last kind that goes wrong ends there, one token
\* further, and the type goes on.
FieldNames(i, named, names) ==
  IF ~named THEN Parsed(names, i)
  ELSE LET next == IF Tok(i).is = "," /\ OnLine(Tok(i)) THEN i + 1 ELSE 0
       IN IF next = 0 THEN Parsed(names, i)
          ELSE FieldNames(next + 1, TRUE, Append(names, Tok(next).is))
Fields(i, list) ==
  LET next == Tok(i + 1)
      more(field, j) == Fields(j, Append(list, field))
      listed(first, j) == FieldNames(j, TRUE, <<Tok(first).is>>)
  IN CASE ~Tok(i).line -> Failed
       [] Tok(i).line /\ Tok(i).is = "endtype" -> Parsed(list, i + 1)
       [] Tok(i).line /\ Tok(i).is # "endtype" /\ (next.line \/ next.is = ",") ->
            LET names == listed(i, i + 1)
            IN IF \E k \in DOMAIN names.node :
                    \/ names.node[k] \in Keywords
                    \/ k > 1 /\ ~IsName(Tok(i + 2 * k - 2))
               THEN Failed ELSE more(Stmt("fields", names.node, <<>>, <<>>), names.at)
       [] Tok(i).line /\ Tok(i).is # "endtype" /\ OnLine(next) /\ next.is = "as" ->
            Then(ParseType(i + 2), LAMBDA t :
              more(Stmt("field", <<Tok(i).is, "as">> \o t.node, <<>>, <<>>), t.at))
       [] OTHER ->
            IF ~IsName(Tok(i)) \/ (IsKeyword(Tok(i)) /\ Tok(i).is \notin TypeKeywords) THEN Failed
            ELSE LET names == listed(i + 1, i + 2)
                     bad == {k \in DOMAIN names.node :
                               LET t == Tok(i + 2 * k - 1) IN ~(OnLine(t) /\ IsName(t))}
                     first == CHOOSE k \in bad : \A m \in bad : k <= m
                 IN IF bad = {} THEN more(Stmt("typed fields", <<Tok(i).is>> \o names.node, <<>>, <<>>), names.at)
                    ELSE more(Stmt("typed fields", <<Tok(i).is>> \o SubSeq(names.node, 1, first - 1), <<>>, <<>>),
                              i + 2 * first)
ParseUserDefinedType(i) ==
  IF ~(OnLine(Tok(i + 1)) /\ IsUserName(Tok(i + 1))) THEN Failed
  ELSE Then(Fields(i + 2, <<>>), LAMBDA f :
         Parsed(Stmt("type", <<Tok(i + 1).is>>, <<>>, <<f.node>>), f.at))

-----------------------------------------------------------------------------
\* A statement that begins with a name that is no keyword.
Command(i, r) ==
  IF OnLine(Tok(r.at)) THEN Then(ParseExpressionList(r.at, ""), LAMBDA list :
                              Parsed(Stmt("command", <<Tok(i).is>>, list.node, <<>>), list.at))
  ELSE Parsed(Stmt("command", <<Tok(i).is>>, <<>>, <<>>), r.at)
NamedStatement(i, seq) ==
  CASE Tok(i + 1).is = ":" /\ OnLine(Tok(i + 1)) ->
         Parsed(Stmt("label", <<Tok(i).is>>, <<>>, <<>>), i + 2)
    [] Tok(i + 1).is = "as" -> AsDeclaration("as", Tok(i).is, i + 2)
    [] OTHER -> Then(ParseNameTerminal(i), LAMBDA r :
         CASE OnLine(Tok(r.at)) /\ IsPunctuation(Tok(r.at)) ->
                IF Tok(r.at).is \notin AssignmentOps THEN Failed
                ELSE Then(ParseExpression(r.at + 1), LAMBDA e :
                       Parsed(Stmt("assign", <<Tok(r.at).is>>, <<r.node, e.node>>, <<>>), e.at))
           [] ~(OnLine(Tok(r.at)) /\ IsPunctuation(Tok(r.at))) /\ r.node.kind = "call" ->
                Parsed(Stmt("call", <<>>, <<r.node>>, <<>>), r.at)
           [] OTHER -> IF r.node.kind = "name" THEN Command(i, r) ELSE Failed)

LoopFlow == {"exit", "break", "continue"}
MayStand(word, seq) ==
  CASE word = "exit" -> seq.inLoop \/ seq.type = "CaseBlock"
    [] word \in {"break", "continue"} -> seq.inLoop
    [] word = "fallthrough" -> seq.type = "CaseBlock"
    [] word = "exitfunction" -> seq.inFunction
    [] word \in {"type", "function"} -> seq.type = "Program"
    [] OTHER -> TRUE

ParseStatement(i, seq) ==
  LET word == Tok(i).is
      alone == Parsed(Stmt(word, <<>>, <<>>, <<>>), i + 1)
  IN CASE ~Tok(i).line \/ ~MayStand(word, seq) -> Failed
       [] Tok(i).line /\ MayStand(word, seq) ->
            CASE IsUserName(Tok(i)) -> NamedStatement(i, seq)
              [] word \in Literals -> Then(ParseExpression(i), LAMBDA e :
                                        Parsed(Stmt("print", <<>>, <<e.node>>, <<>>), e.at))
              [] word \in {"goto", "gosub"} ->
                   IF OnLine(Tok(i + 1)) /\ IsName(Tok(i + 1))
                   THEN Parsed(Stmt(word, <<Tok(i + 1).is>>, <<>>, <<>>), i + 2) ELSE Failed
              [] word \in {"goback", "fallthrough"} \cup LoopFlow -> alone
              [] word = "do" -> ParseDoLoop(i, seq)
              [] word = "while" -> ParseWhileLoop(i, seq)
              [] word = "repeat" -> ParseRepeatLoop(i, seq)
              [] word = "for" -> ParseForLoop(i, seq)
              [] word = "select" -> ParseSelect(i, seq)
              [] word = "if" -> ParseIf(i, seq)
              [] word \in {"local", "global"} -> ParseVariableDeclaration(i)
              [] word = "type" -> ParseUserDefinedType(i)
              [] word = "function" -> ParseFunction(i)
              [] word = "exitfunction" -> ParseReturn(i)
              [] OTHER -> Failed

\* A turn of the loop of ParseProgram.
ParseProgram ==
  /\ parsing = "running"
  /\ IF nextToken > Len(lexed)
     THEN parsing' = "done" /\ UNCHANGED <<m_Stmts, m_FuncDecls, m_Types, nextToken>>
     ELSE \E s \in {ParseStatement(nextToken, ProgramSequence)} :
          IF s.node = NULL
          THEN parsing' = "failed" /\ UNCHANGED <<m_Stmts, m_FuncDecls, m_Types, nextToken>>
          ELSE /\ nextToken' = s.at /\ UNCHANGED parsing
               /\ m_Types' = IF s.node.is = "type" THEN Append(m_Types, s.node) ELSE m_Types
               /\ m_FuncDecls' = IF s.node.is = "function" THEN Append(m_FuncDecls, s.node)
                                 ELSE m_FuncDecls
               /\ m_Stmts' = IF s.node.is \in {"type", "function"} THEN m_Stmts
                             ELSE Append(m_Stmts, s.node)
  /\ UNCHANGED <<lexed, written, edit>>

SyntaxNext == ParseProgram

-----------------------------------------------------------------------------
(* Programs as tokens: each statement on lines of its own. *)

Line(words) == [i \in DOMAIN words |-> [is |-> words[i], line |-> i = 1]]
Separated(names) == [i \in 1 .. 2 * Len(names) - 1 |-> IF i % 2 = 1 THEN names[(i + 1) \div 2] ELSE ","]
OptionalDefault(s) == IF s.exprs = <<>> THEN <<>> ELSE <<"=">> \o ExprWords(s.exprs[1], 0)

RECURSIVE Lines(_), SeqLines(_), ParameterWords(_), BranchLines(_, _)
SeqLines(stmts) == FlattenSeq([i \in DOMAIN stmts |-> Lines(stmts[i])])
ParameterWords(list) ==
  IF list = <<>> THEN <<>>
  ELSE Head(list).words \o OptionalDefault(Head(list))
         \o (IF Len(list) = 1 THEN <<>> ELSE <<",">> \o ParameterWords(Tail(list)))
\* After the sequence k of an IF.
BranchLines(s, k) ==
  SeqLines(s.body[k])
    \o IF k = Len(s.body) THEN Line(<<"endif">>)
       ELSE (IF k < Len(s.exprs) THEN Line(<<"elseif">> \o ExprWords(s.exprs[k + 1], 0)) ELSE Line(<<"else">>))
              \o BranchLines(s, k + 1)
\* Of a SELECT, only the last CASE has its ENDCASE.
CaseLines(s) ==
  (IF s.is = "case" THEN Line(<<"case">> \o ExprWords(s.exprs[1], 0)) ELSE Line(<<"case default">>))
    \o SeqLines(s.body[1])
Lines(s) ==
  LET expr(k) == ExprWords(s.exprs[k], 0)
  IN CASE s.is \in {"goback", "fallthrough"} \cup LoopFlow -> Line(<<s.is>>)
       [] s.is \in {"goto", "gosub"} -> Line(<<s.is>> \o s.words)
       [] s.is = "label" -> Line(s.words \o <<":">>)
       [] s.is \in {"call", "print"} -> Line(expr(1))
       [] s.is = "command" -> Line(s.words \o ListWords(s.exprs))
       [] s.is = "assign" -> Line(expr(1) \o s.words \o expr(2))
       [] s.is = "return" -> Line(s.words \o (IF s.exprs = <<>> THEN <<>> ELSE expr(1)))
       [] s.is = "declare" ->
            Line((IF s.words[1] = "as" THEN Tail(s.words) ELSE s.words) \o OptionalDefault(s))
       [] s.is = "do" -> Line(<<"do">>) \o SeqLines(s.body[1]) \o Line(<<"loop">>)
       [] s.is = "while" -> Line(<<"while">> \o expr(1)) \o SeqLines(s.body[1]) \o Line(<<"endwhile">>)
       [] s.is = "repeat" -> Line(<<"repeat">>) \o SeqLines(s.body[1]) \o Line(<<"until">> \o expr(1))
       [] s.is = "for" ->
            Line(<<"for", s.words[1], "=">> \o expr(1) \o <<s.words[2]>> \o expr(2)
                   \o (IF Len(s.exprs) = 3 THEN <<"step">> \o expr(3) ELSE <<>>))
              \o SeqLines(s.body[1]) \o Line(<<"next">> \o SubSeq(s.words, 3, Len(s.words)))
       [] s.is = "if" -> Line(<<"if">> \o expr(1)) \o BranchLines(s, 1)
       [] s.is = "select" ->
            Line(<<"select">> \o expr(1)) \o FlattenSeq([i \in DOMAIN s.body[1] |-> CaseLines(s.body[1][i])])
              \o (IF s.body[1] = <<>> THEN <<>> ELSE Line(<<"endcase">>)) \o Line(<<"endselect">>)
       [] s.is = "function" ->
            LET short == s.body[2][1].is = "return" /\ s.body[2][1].words = <<"=>">>
                head == <<"function", s.words[1], "(">> \o ParameterWords(s.body[1]) \o <<")">> \o Tail(s.words)
            IN IF short THEN Line(head \o <<"=>">> \o ExprWords(s.body[2][1].exprs[1], 0))
               ELSE Line(head) \o SeqLines(s.body[2])
       [] s.is = "type" -> Line(<<"type">> \o s.words) \o SeqLines(s.body[1]) \o Line(<<"endtype">>)
       [] s.is = "fields" -> Line(Separated(s.words))
       [] s.is = "field" -> Line(s.words)
       [] s.is = "typed fields" -> Line(<<s.words[1]>> \o Separated(Tail(s.words)))

\* One token of a program may be left out, or two lines of it be made one.
Edited(tokens, e) ==
  CASE e.what = "none" -> tokens
    [] e.what = "drop" -> RemoveAt(tokens, e.at)
    [] e.what = "join" -> [tokens EXCEPT ![e.at].line = FALSE]
Edits(tokens) ==
  {[what |-> "none", at |-> 0]} \cup {[what |-> "drop", at |-> k] : k \in DOMAIN tokens}
    \cup {[what |-> "join", at |-> k] : k \in {j \in DOMAIN tokens : j > 1 /\ tokens[j].line}}

SourceHasShape(shape, t) ==
  CASE shape = "ELSEIF" -> \E i \in DOMAIN t : t[i].is = "elseif"
    [] shape = "name after type" ->
         \E i \in 3 .. Len(t) :
           /\ OnLine(t[i]) /\ IsName(t[i])
           /\ \/ t[i - 1].is \in TypeKeywords /\ t[i - 2].is = "as"
              \/ t[i - 1].is = "]"
              \/ t[i - 2].is \in TypeKeywords /\ IsUserName(t[i - 1])
    [] shape = "names after type" ->
         \E i, j \in DOMAIN t : i + 3 <= j /\ t[i].is \in {"local", "global"} /\ t[j].is = ","
           /\ t[i + 1].is # "as" /\ \A k \in i + 1 .. j : ~t[k].line
    [] shape = "comma at end" -> \E i \in DOMAIN t : t[i].is = "," /\
                                   (i = Len(t) \/ t[i + 1].line \/ t[i + 1].is \in {")", "]"})

Parses(p) ==
  /\ written = p
  /\ \E tokens \in {SeqLines(written)} :
       edit \in Edits(tokens) /\ lexed = Edited(tokens, edit)
  /\ \A shape \in AvoidedSyntax : ~SourceHasShape(shape, lexed)
  /\ m_Stmts = <<>> /\ m_FuncDecls = <<>> /\ m_Types = <<>> /\ nextToken = 1
  /\ parsing = "running"

SyntaxInit == \E p \in ProgramsWritten : Parses(p)

\* Whether each statement of a sequence stands where the language lets it.
RECURSIVE Legal(_, _, _, _)
Legal(stmts, place, inLoop, inFunction) ==
  \A i \in DOMAIN stmts :
    LET s == stmts[i]
        loop == s.is \in {"do", "while", "repeat", "for"}
    IN /\ s.is = "exit" => inLoop \/ place = "case"
       /\ s.is \in {"break", "continue"} => inLoop
       /\ s.is = "fallthrough" => place = "case"
       /\ s.is = "return" /\ s.words = <<"exitfunction">> => inFunction
       /\ s.is \in {"function", "type"} => place = "program"
       /\ \A k \in DOMAIN s.body :
            s.is # "type" /\ ~(s.is = "function" /\ k = 1) =>
              Legal(s.body[k], IF s.is \in {"case", "case default"} THEN "case" ELSE "block",
                    inLoop \/ loop, inFunction \/ s.is = "function")

\* The tree of a program is the program that was written; one that has a statement
\* where it may not be is refused.  Of what was written with a mistake, whatever is
\* accepted has all its words in the tree, but for brackets that it does not need:
\* none is passed over.
ReadsAsWritten ==
  LET all == m_Types \o m_FuncDecls \o m_Stmts
      words(tokens) == SelectSeq([i \in DOMAIN tokens |-> tokens[i].is],
                                 LAMBDA w : w \notin {"(", ")"})
  IN /\ edit.what = "none" /\ parsing # "running" =>
          IF Legal(written, "program", FALSE, FALSE) THEN parsing = "done" /\ all = written
          ELSE parsing = "failed"
     /\ parsing = "done" => words(SeqLines(all)) = words(lexed)
=============================================================================
