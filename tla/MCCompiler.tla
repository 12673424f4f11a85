----------------------------- MODULE MCCompiler -----------------------------
(***************************************************************************)
(* The parts of the compiler: the lexer, the parser, the scopes, the       *)
(* types, the commands of plug-ins, the generation of code, the building   *)
(* of projects, and the texts that they are made with.  A behaviour is one *)
(* of one of them, named by part, and the others stay as they were made.   *)
(***************************************************************************)
EXTENDS CodeGenFlow, Scopes, TokenStream, Syntax

CONSTANTS TargetConditions, Pieces, Granule, MaxText, Separator, FieldTypes, MaxTypes, MaxFields,
          ProjectFiles, SourceModules, StopsAt

VARIABLES
  part,
  expression,  \* whose types are looked at
  commandLines, linesRead, ignoring, directives, overloads, keywords,
  sample,      \* texts, or a number, that are looked at
  m_pStr, m_cStr, overran, content,
  userTypes, generated, stage, table,
  meant, projectText, phase, options, projects, building, declared, made, links, failed

Types == INSTANCE ExpressionTypes
Commands == INSTANCE CommandFiles
Texts == INSTANCE CoreString
Scan == INSTANCE SourceProcessor
Buffer == INSTANCE TextBuffer
Tables == INSTANCE TypeTables
Build == INSTANCE Projects
commandVars == <<commandLines, linesRead, ignoring, directives, overloads, keywords>>
bufferVars == <<m_pStr, m_cStr, overran, content>>
tableVars == <<userTypes, generated, stage, table>>
projectVars == <<meant, projectText, phase, options, projects, building, declared, made, links, failed>>

-----------------------------------------------------------------------------
(* Programs to generate code for: those of a few statements from one of     *)
(* these sets of constructs.                                                *)
MCThemes == {
  Loops \union {"if", "exit", "continue"},
  {"while", "for until", "if", "and", "or", "return"},
  {"while", "if", "exit", "goto", "label"},
  {"while", "if", "temp", "return"}}

-----------------------------------------------------------------------------
(* Texts for the lexer: up to so many pieces of an alphabet.                *)
UpTo(n, alphabet) == UNION {[1 .. k -> alphabet] : k \in 0 .. n}

MCSourceTexts ==
  UpTo(4, {"x", "newline", ":", " :", "#"})
    \union UpTo(5, {"if", "then", "x", "newline"})
    \union UpTo(4, {"if", "elseif", "then", "newline", " :"})
    \union UpTo(4, {"x", "newline", "//", "/*", "*/"})
    \union UpTo(4, {"x", "newline", "remstart", "remend", "REMEND"})
    \union UpTo(3, {"and", "rem", "newline"})
    \union UpTo(4, {"x", ":", "newline", "/*", "*/"})

-----------------------------------------------------------------------------
(* Programs for the parser.  Expressions of up to two operators.            *)
X == NameExpr("x")
One == Node("literal", "1", <<>>)
Operands == {X, One}

Binary(op, l, r) == Node("binary", op, <<l, r>>)
Unary(op, e) == Node("unary", op, <<e>>)
CallF(args) == Node("call", "call", <<NameExpr("f")>> \o args)
Subscript(e) == Node("subscript", "subscript", <<X, e>>)

Terms == Operands \union {Node("member", "f", <<X>>), Subscript(One), CallF(<<One, X>>), CallF(<<>>)}
\* One operator of each precedence, and of each kind.
Binaries == {"||", "&&", "<", "+", "*", "<<"}
Unaries == {"-", "&"}
OneOperator ==
  {Binary(op, l, r) : op \in Binaries, l \in Operands, r \in Operands}
    \union {Unary(op, e) : op \in Unaries, e \in Operands} \union {Binary(".", One, X)}
TwoOperators ==
  LET inner == OneOperator \union Terms IN
  {Binary(op, l, X) : op \in Binaries, l \in inner}
    \union {Binary(op, One, r) : op \in Binaries, r \in inner}
    \union {Unary(op, e) : op \in Unaries, e \in OneOperator}
    \union {Binary(".", l, X) : l \in OneOperator \ {Binary(".", One, X)}}
    \union {CallF(<<e, One>>) : e \in OneOperator} \union {Subscript(e) : e \in OneOperator}

\* Statements, with blocks in blocks.
Jump(is) == Stmt(is, <<>>, <<>>, <<>>)
JumpStmts == {Jump(w) : w \in LoopFlow \union {"fallthrough"}}
               \union {Stmt("return", <<"exitfunction">>, <<>>, <<>>)}
PlainStmts ==
  {Stmt("declare", <<"local", "integer", "x", ",", "f">>, <<>>, <<>>),
   Stmt("declare", <<"local", "x">>, <<>>, <<>>),
   Stmt("declare", <<"global", "x", "as", "integer">>, <<One>>, <<>>),
   Stmt("declare", <<"local", "integer", "x">>, <<One>>, <<>>),
   Stmt("declare", <<"as", "x", "as", "integer", "[", "]">>, <<>>, <<>>),
   Stmt("assign", <<"+=">>, <<X, One>>, <<>>), Stmt("call", <<>>, <<CallF(<<X>>)>>, <<>>),
   Stmt("command", <<"f">>, <<>>, <<>>), Stmt("command", <<"f">>, <<One, X>>, <<>>),
   Stmt("print", <<>>, <<One>>, <<>>), Stmt("label", <<"x">>, <<>>, <<>>),
   Stmt("goto", <<"x">>, <<>>, <<>>), Jump("goback"),
   Stmt("return", <<"exitfunction">>, <<X>>, <<>>)}

BlocksOf(body) ==
  {Stmt("do", <<>>, <<>>, <<body>>), Stmt("while", <<>>, <<X>>, <<body>>),
   Stmt("repeat", <<>>, <<X>>, <<body>>), Stmt("for", <<"x", "to">>, <<One, X>>, <<body>>),
   Stmt("for", <<"x", "until", "x">>, <<One, X, One>>, <<body>>),
   Stmt("if", <<>>, <<X>>, <<body>>), Stmt("if", <<>>, <<X>>, <<<<>>, body>>),
   Stmt("if", <<>>, <<X, One>>, <<<<>>, body, <<>>>>),
   Stmt("select", <<>>, <<X>>, <<<<Stmt("case", <<>>, <<One>>, <<body>>),
                                   Stmt("case default", <<>>, <<>>, <<body>>)>>>>)}
BlocksOfAny(bodies) == UNION {BlocksOf(body) : body \in bodies}
OneBlock == BlocksOfAny({<<>>} \union {<<s>> : s \in JumpStmts})
BlockInBlock == BlocksOfAny({<<s>> : s \in OneBlock})

EndFunction(exprs) == Stmt("return", <<"endfunction">>, exprs, <<>>)
Parm(words, default) == Stmt("parameter", words, default, <<>>)
FunctionsOf(body) ==
  {Stmt("function", <<"f">>, <<>>, <<<<>>, Append(body, EndFunction(<<>>))>>),
   Stmt("function", <<"f", "as", "integer">>, <<>>,
        <<<<Parm(<<"x", "as", "integer">>, <<>>), Parm(<<"f">>, <<One>>)>>,
          Append(body, EndFunction(<<X>>))>>)}
ShortFunction ==
  Stmt("function", <<"f">>, <<>>,
       <<<<Parm(<<"x">>, <<>>)>>, <<Stmt("return", <<"=>">>, <<X>>, <<>>)>>>>)
UserType ==
  Stmt("type", <<"T">>, <<>>,
       <<<<Stmt("fields", <<"x", "f">>, <<>>, <<>>), Stmt("field", <<"x", "as", "integer">>, <<>>, <<>>),
           Stmt("typed fields", <<"integer", "x", "f">>, <<>>, <<>>), Stmt("fields", <<"x">>, <<>>, <<>>)>>>>)

MCProgramsWritten ==
  {<<Stmt("assign", <<"=">>, <<X, e>>, <<>>)>> : e \in Terms \union OneOperator \union TwoOperators}
    \union {<<s>> : s \in PlainStmts \union JumpStmts \union OneBlock \union BlockInBlock}
    \union {<<f>> : f \in UNION {FunctionsOf(body) :
                                   body \in {<<>>} \union {<<s>> : s \in JumpStmts \union OneBlock}}}
    \union {<<s, t>> : s \in PlainStmts, t \in PlainStmts}
    \union {<<s, Stmt("command", <<"f">>, <<>>, <<>>)>> : s \in BlocksOfAny({<<s>> : s \in PlainStmts})}
    \union {<<ShortFunction>>, <<UserType>>,
            <<UserType, ShortFunction, Stmt("label", <<"x">>, <<>>, <<>>)>>}
    \union {<<b>> : b \in BlocksOfAny({<<UserType>>, <<ShortFunction>>})}

\* The lexer yields the tokens that are written, and the parser the program.
SourceAsWritten == TokensAsWritten /\ ReadsAsWritten

-----------------------------------------------------------------------------
(* Expressions for the types: of each operator on each two types, and of two *)
(* operators; subscripts; calls of one and of two overloads; axes; and the   *)
(* statements that store, declare and return a value.                       *)
V(t) == Types!Tree("variable", t, <<>>)
FewTypes == {"Boolean", "Int8", "UInt16", "Int32", "UInt64", "Float32", "ConstUTF8Pointer", "StringObject"}
FewOps == {"Add", "BitAnd", "CmpLt", "RelAnd", "Mul"}
PlainOperands ==
  {V(t) : t \in Types!PlainTypes} \union {Types!Tree("literal", q, <<>>) : q \in DOMAIN Types!LiteralType}
FewOperands == {V(t) : t \in FewTypes}
OfTwo(ops, ls, rs) == {Types!Tree("binary", op, <<l, r>>) : op \in ops, l \in ls, r \in rs}
FewOfTwo == OfTwo(FewOps, FewOperands, FewOperands)
CallOf(functions, args) == {Types!Tree("call", f, a) : f \in functions, a \in args}

Expressions ==
  OfTwo(Types!BinaryOpNames, PlainOperands, PlainOperands)
    \union {Types!Tree("unary", op, <<e>>) : op \in Types!UnaryOpNames, e \in FewOfTwo \union PlainOperands}
    \union {Types!Tree("subscript", "subscript", <<V("ArrayObject")>> \o s) :
               s \in {<<l>> : l \in FewOfTwo \union PlainOperands} \union ({V("Int64"), V("Int32")} \X FewOperands)}
    \union OfTwo(FewOps, {V("Int32"), V("StringObject")}, FewOfTwo)
    \union {Types!Tree("assign", op, <<V(t), e>>) : op \in {"None", "Add"}, t \in Types!PlainTypes, e \in PlainOperands}
    \union {Types!Tree("assign", "None", <<e, V("Int32")>>) : e \in FewOfTwo}
    \union {Types!Tree(kind, t, <<e>>) : kind \in {"declare", "return"}, t \in Types!PlainTypes, e \in PlainOperands}
    \union {Types!Tree("return", t, <<e>>) : t \in FewTypes, e \in FewOfTwo}
Calls ==
  CallOf({<<<<p, q>>>> : p \in FewTypes, q \in FewTypes}, FewOperands \X {V("Int32"), V("StringObject")})
    \union CallOf({<<<<"Int32", p>>, <<"Float32", q>>>> : p \in FewTypes, q \in FewTypes},
                  {V("Int32"), V("StringObject")} \X FewOperands)
    \union CallOf({<<<<p>>>> : p \in Types!ShortInts}, {<<V(t)>> : t \in Types!ShortInts})

\* Axes of vectors, read and written.
AxesOf(vectors) ==
  {Types!Tree("member", axes, <<V(t)>>) : t \in vectors, axes \in UNION {[1 .. n -> 0 .. 3] : n \in 1 .. 4}}
Swizzles ==
  AxesOf({"Vector2f", "Vector3f", "Vector4f", "Matrix23f", "SIMDVector128_2Float64", "Int32"})
    \union {Types!Tree("member", <<0, 1, 2, 3, 0>>, <<V("Vector4f")>>)}

-----------------------------------------------------------------------------
(* Lines of the text of a plug-in.                                          *)
Patterns ==
  {"", "0", "GS", "L", "I4", "IPUP", "DV4RQ", "#4", "G*S", "LS>", "S+L", "H<", "V4", "EF4QA", "EF", "Z", "LZ"}
CommandTexts ==
  LET commands == {Commands!Command("f", r, p, "g") : r \in BOOLEAN, p \in Patterns}
      condition(n) == [is |-> "?", name |-> n]
      start == [is |-> "directive", name |-> "fn-init", value |-> "g"]
  IN {<<>>} \union {<<c>> : c \in commands} \union {<<c, d>> : c \in commands, d \in commands}
       \union {<<condition(n), start, condition(m), start, c>> :
                 n \in {"", "Linux", "Windows"}, m \in {"", "Linux", "Windows"}, c \in commands}

\* An expression that is accepted and avoids the shapes named there is given the types that
\* it has; the overloads of the commands it may call are as their lines declare them; and
\* the types of a program are laid out, and described to the runtime, as its code uses them.
TypesAgree ==
  /\ part = "types" => Types!TypesAgree(expression)
  /\ Commands!CommandsAsDeclared
  /\ part = "tables" => Tables!TablesAgree

-----------------------------------------------------------------------------
(* Texts, of a few of the bytes that matter to the functions that they are  *)
(* for; code points at the ends of the ranges; numbers.                     *)
Sample(is, s, t) == [is |-> is, s |-> s, t |-> t]
CodePointsAtEdges == {0, 97, 127, 128, 2047, 2048, 65535, 65536, 65537, 1114111}
\* Pairs of pieces of source text, of which one is one of a few of each kind.
SomeTenshi == {1, 2, 4, 7, 12, 15, 21, 29}
SomeC == {1, 2, 3, 6, 7, 11}
Pairs(some, pieces) == (some \X (DOMAIN pieces)) \union ((DOMAIN pieces) \X some)
BetweenPieces == {<<>>, <<32>>, <<10>>}

Samples ==
  {Sample("Tenshi", pair, between) : pair \in Pairs(SomeTenshi, Scan!TenshiPieces), between \in BetweenPieces}
    \union {Sample("C", pair, between) : pair \in Pairs(SomeC, Scan!CPieces), between \in BetweenPieces}
    \union {Sample("lines", s, <<>>) : s \in UpTo(4, {97, 13, 10, 92, 63, 61})}
    \union {Sample("text", s, t) : s \in UpTo(3, {97, 34, 92, 10, 58}), t \in UpTo(1, {97, 34, 58})}
    \union {Sample("text", s, <<>>) : s \in UpTo(3, {97, 9, 46, 47, 1}) \union UpTo(5, {58, 97})}
    \union {Sample("paths", s, t) : s \in UpTo(3, {97, 98, 47}), t \in UpTo(4, {97, 98, 47})}
    \union {Sample("number", <<n>>, <<radix, group>>) :
               n \in {0, 1, 9, 10, 255, 999, 1000, 12345, 32767, 32768, 65535}, radix \in {2, 8, 10, 16, 36}, group \in 0 .. 3}
    \union {Sample("code points", s, <<room>>) : s \in UpTo(2, CodePointsAtEdges), room \in {1, 4}}

\* Texts, numbers and code points are what they were when what was done is undone, and
\* pieces of source text are read as the tokens that they are.
SampleAgrees ==
  CASE sample.is = "text" -> Texts!TextsComeBack(sample.s, sample.t)
    [] sample.is = "paths" -> Texts!PathsAgree(sample.s, sample.t)
    [] sample.is = "number" -> Texts!NumbersReadBack(sample.s[1], sample.t[1], sample.t[2])
    [] sample.is = "Tenshi" ->
         /\ Scan!TokensRead(Scan!ConfigureSourceProcessor, Scan!TenshiPieces, sample.s[1], sample.s[2], sample.t)
         /\ sample.s = <<1, 1>> => Scan!WordsRead(Scan!ConfigureSourceProcessor)
    [] sample.is = "C" -> Scan!TokensRead(Scan!CProcessor, Scan!CPieces, sample.s[1], sample.s[2], sample.t)
    [] sample.is = "lines" ->
         Scan!LinesAgree(Scan!ConfigureSourceProcessor, sample.s) /\ Scan!LinesAgree(Scan!CProcessor, sample.s)
    [] sample.is = "code points" -> Texts!EncodingsAgree(sample.s, sample.t[1]) /\ Texts!CutsDecode(sample.s)

\* What Source.hpp says of lines that are joined, and of the line of a place.
SampleLines == part = "text" /\ sample.is = "lines"
JoinedAsSaid == SampleLines => Scan!LinesJoined(Scan!ConfigureSourceProcessor, sample.s)
LinesAsSaid == SampleLines => Scan!LinesKnown(Scan!ConfigureSourceProcessor, sample.s)

MCPieces == {<<>>, <<"a">>, <<"/">>, <<"/", "/">>, <<"a", "b", "a">>, <<"b", "a">>}

\* And the block of a String holds the text that the calls were to make.
TextsAgree == (part = "text" => SampleAgrees) /\ (part = "buffer" => Buffer!BufferHolds)

-----------------------------------------------------------------------------
(* Project files, command lines, and sources that fail and that do not.     *)
MCStopsAt == "a" :> "none" @@ "b" :> "none" @@ "unreadable" :> "load" @@ "mistaken" :> "syntax"
               @@ "untranslated" :> "translation"
MCSourceModules == "a" :> <<"m">> @@ "b" :> <<"core", "n", "m">> @@ "unreadable" :> <<>> @@ "mistaken" :> <<"m">>
                     @@ "untranslated" :> <<"n">>

Compile(source) == <<"Compile", source>>
TargetT == <<"Target", "t">>
ProjectTexts ==
  {Append(s, Compile("a")) : s \in UpTo(3, {<<"Type", "Application">>, <<"Type", "StaticLibrary">>, TargetT,
                                            <<"-TargetPrefix">>, <<"-TargetSuffix">>})}
    \union {<<TargetT>> \o s : s \in UpTo(3, {<<"+ASMList">>, <<"-ASMList">>, <<"+IRList">>, <<"?1">>,
                                               <<"?Debug", "Compile", "a">>, <<"?Release", "?1", "Compile", "b">>,
                                               <<"Compile", "b", "o">>})}
    \union UpTo(3, {<<>>, <<"#">>, Compile("a"), <<"Name", "n">>})
    \union {<<l, Compile("a")>> : l \in {<<"Compile">>, <<"Compile", "a", "b", "o">>, <<"Name">>, <<"Type", "Foo">>,
                                         <<"-ASMList", "x">>, <<"EmitModules", "x">>, <<"Foo">>, <<"Type", "Game">>,
                                         <<"Type", "DynamicLibrary">>, <<"+TargetPrefix">>, <<"+TargetSuffix">>,
                                         <<"-IRList">>}}
    \union {<<TargetT, Compile(s), Compile(t)>> : s \in DOMAIN StopsAt, t \in DOMAIN StopsAt}
OtherProject == <<<<"Target", "q">>, Compile("b")>>
TwoProjects(text) == "p.teproj" :> text @@ "q.teproj" :> OtherProject

Outputs == {Build!Meaning("output", "f", form) : form \in {"-o f", "-of", "--output-file=f", "--output-file f"}}
Says ==
  Outputs \union {Build!Meaning("compile", "", form) : form \in {"-c", "-compile", "--compile"}}
    \union {Build!Meaning("input", i, "") : i \in {"a", "untranslated", "p.teproj", "q.teproj", "text.te"}}
    \union {Build!Meaning("rest", "", ""), Build!Meaning("help", "", "-h")}
CommandLines ==
  UpTo(2, Says) \union {<<o>> \o s : o \in Outputs, s \in [1 .. 2 -> {m \in Says : m.is = "input"}]}

\* What is meant by the command line, and written in project files, is what is built; and
\* that it was is what is told.
BuiltAsWritten == part = "projects" => Build!BuiltAsWritten

\* What the help says of --compile.  The code links: this fails when it is added to
\* MCCompiler.cfg.
CompilesOnly == part = "projects" => Build!CompileOnlyLinksNothing

-----------------------------------------------------------------------------
NoCode ==
  /\ program = [main |-> TRUE, body |-> <<>>] /\ blocks = << <<Ret(<<>>)>> >>
  /\ at = [block |-> 1, i |-> 1] /\ from = 0 /\ flag = FALSE /\ live = {} /\ rest = <<>>

others == <<expression, commandVars, sample, bufferVars, tableVars, projectVars>>

CompilerInit ==
  /\ part \in {"code", "scopes", "lexer", "parser", "types", "commands", "text", "buffer", "tables", "projects"}
  /\ ScopesInit
  /\ IF part = "code" THEN Init ELSE NoCode
  /\ IF part = "lexer" THEN LexerInit ELSE LoadText(<<>>)
  /\ IF part = "parser" THEN SyntaxInit ELSE Parses(<<>>)
  /\ IF part = "types" THEN expression \in Expressions \/ expression \in Calls \/ expression \in Swizzles
     ELSE expression = V("Int32")
  /\ IF part = "commands" THEN \E text \in CommandTexts : Commands!LoadsText(text)
     ELSE Commands!LoadsText(<<>>)
  /\ IF part = "text" THEN sample \in Samples ELSE sample = Sample("text", <<>>, <<>>)
  /\ Buffer!BufferInit /\ Tables!TablesInit
  /\ IF part = "projects"
     THEN \/ \E text \in ProjectTexts :
               Build!StartsWith(<<Build!Meaning("input", "p.teproj", "")>>, TwoProjects(text))
          \/ Build!StartsWith([i \in 1 .. 2 |-> Build!Meaning("input", <<"a", "p.teproj">>[i], "")],
                              TwoProjects(<<Compile("a"), <<"Foo">>>>))
          \/ \E m \in CommandLines : Build!StartsWith(m, TwoProjects(<<TargetT, Compile("a")>>))
     ELSE Build!StartsWith(<<>>, <<>>)

CompilerNext ==
  /\ UNCHANGED <<part, expression, sample>>
  /\ \/ part = "code" /\ Next /\ UNCHANGED <<scopeVars, lexerVars, syntaxVars, commandVars, bufferVars, tableVars, projectVars>>
     \/ part = "scopes" /\ ScopesNext /\ UNCHANGED <<vars, lexerVars, syntaxVars, commandVars, bufferVars, tableVars, projectVars>>
     \/ part = "lexer" /\ LexerNext /\ UNCHANGED <<vars, scopeVars, syntaxVars, commandVars, bufferVars, tableVars, projectVars>>
     \/ part = "parser" /\ SyntaxNext /\ UNCHANGED <<vars, scopeVars, lexerVars, commandVars, bufferVars, tableVars, projectVars>>
     \/ part = "commands" /\ Commands!CommandsNext /\ UNCHANGED <<vars, scopeVars, lexerVars, syntaxVars, bufferVars, tableVars, projectVars>>
     \/ part = "buffer" /\ Buffer!BufferNext /\ UNCHANGED <<vars, scopeVars, lexerVars, syntaxVars, commandVars, tableVars, projectVars>>
     \/ part = "tables" /\ Tables!TablesNext
        /\ UNCHANGED <<vars, scopeVars, lexerVars, syntaxVars, commandVars, bufferVars, projectVars>>
     \/ part = "projects" /\ Build!ProjectsNext
        /\ UNCHANGED <<vars, scopeVars, lexerVars, syntaxVars, commandVars, bufferVars, tableVars>>

CompilerSpec ==
  CompilerInit /\ [][CompilerNext]_<<part, vars, scopeVars, lexerVars, syntaxVars, others>>
=============================================================================
