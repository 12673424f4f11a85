--------------------------- MODULE StructuredFlow ---------------------------
(***************************************************************************)
(* The control flow of a Tenshi function or main program: the programs     *)
(* that the parser accepts, up to a size, and what running one does.  A    *)
(* run is a sequence of events: a statement with no flow of its own takes  *)
(* place, a condition is tested, a FOR loop's variable is set or stepped,  *)
(* control returns.  What an expression is worth is left open: a test may  *)
(* come out either way.  The loops are those of TechDocs/CodeGen IR.txt:   *)
(* a DO goes round until EXIT, whatever its safety loop says, and CONTINUE *)
(* in a REPEAT goes to the first statement.  (The branch that ends the     *)
(* body of a WHILE is missing there, and taken to be meant.)               *)
(*                                                                         *)
(* A statement is known by the path to it: its place in a sequence, after  *)
(* the path of the sequence.  Body k of a statement at p has path p.k, its *)
(* condition p.0, and the operands of a condition at p have p.1 and p.2.   *)
(***************************************************************************)
EXTENDS Integers, Sequences

CONSTANTS
  Themes,    \* sets of constructs; a program uses the constructs of one
  MaxStmts,  \* bound on a program's statements, but for the RETURN of ENDFUNCTION
  Avoided    \* the shapes of program that are left out, by the names below

\* "stopped DO": the runtime's safety loop asks for the program to be stopped.
Shapes == {"dead code", "jump ends loop", "continue FOR/TO", "continue REPEAT", "stopped DO",
           "ELSEIF", "nested AND/OR", "nested temporary"}

ASSUME ShapesAssumption == Avoided \subseteq Shapes
ASSUME SizeAssumption == MaxStmts \in Nat \ {0}

Jumps == {"exit", "continue", "return", "goto"}
Loops == {"do", "while", "repeat", "for to", "for until"}

(***************************************************************************)
(* Programs.  A context says where a sequence of statements stands.        *)
(***************************************************************************)
Test(temp) == [op |-> "test", temp |-> temp]
NoCondition == [op |-> "none"]
Plain == Test(FALSE)

\* temp: a condition that makes a string.
Conditions(ctx) ==
  LET join(l) == {[op |-> o, l |-> l, r |-> Plain] : o \in {"and", "or"} \cap ctx.theme}
  IN  {Plain} \union join(Plain)
      \union {Test(TRUE) : x \in {y \in {"temp"} \cap ctx.theme :
                                   ctx.top \/ "nested temporary" \notin Avoided}}
      \union (IF "nested AND/OR" \in Avoided THEN {} ELSE UNION {join(c) : c \in join(Plain)})

\* ParseStatement takes EXIT and CONTINUE in a loop only, EXITFUNCTION in a
\* function only, and a label is found from the main program only.
Leaves(ctx) ==
  LET temps == {FALSE} \union {TRUE : x \in {"temp"} \cap ctx.theme}
      ops == {o \in ctx.theme \cap {"exit", "continue", "goto", "label"} :
                CASE o = "exit" -> ctx.loop # "none"
                  [] o = "continue" ->
                       ctx.loop \notin {"none"} \union
                         (IF "continue FOR/TO" \in Avoided THEN {"for to"} ELSE {}) \union
                         (IF "continue REPEAT" \in Avoided THEN {"repeat"} ELSE {})
                  [] o = "goto" -> ctx.main
                  [] OTHER -> ctx.main /\ ctx.top}
  IN  [op : ops] \union [op : {"print"}, temp : temps]
      \union (IF ctx.main THEN {} ELSE [op : ctx.theme \cap {"return"}, temp : temps])

RECURSIVE Bodies(_, _)

\* IF, alone or with one ELSE or ELSEIF that takes k of n statements.
Ifs(n, ctx) ==
  LET inner == [ctx EXCEPT !.top = FALSE]
      others(k) ==
        IF k = 0 THEN {<<>>}
        ELSE {<<[cond |-> c, body |-> b]>> :
                c \in {NoCondition} \union (IF "ELSEIF" \in Avoided THEN {} ELSE {Plain}),
                b \in Bodies(k, inner)}
  IN  UNION {[op : {"if"}, cond : Conditions(ctx), body : Bodies(n - k, inner),
              others : others(k)] : k \in 0..(n - 1)}

LoopStmts(n, ctx) ==
  UNION {LET bodies == Bodies(n, [ctx EXCEPT !.top = FALSE, !.loop = o])
             ends(b) == b[Len(b)].op \in Jumps
         IN  [op : {o},
              cond : IF o \in {"while", "repeat"}
                     THEN Conditions([ctx EXCEPT !.top = FALSE]) ELSE {Plain},
              body : {b \in bodies :
                        /\ "jump ends loop" \in Avoided /\ o \in {"do", "while", "repeat"} => ~ends(b)
                        /\ o \in {"do", "repeat"} => b[1].op \notin Jumps}] :
           o \in Loops \cap ctx.theme}

\* Sequences of n statements, those in the bodies of others counted.
Bodies(n, ctx) ==
  LET stmts(k) ==
        IF k = 1 THEN Leaves(ctx)
        ELSE LoopStmts(k - 1, ctx)
             \union (IF "if" \in ctx.theme THEN Ifs(k - 1, ctx) ELSE {})
      tails(s, k) == IF k = 0 THEN {<<>>}
                     ELSE IF s.op \in Jumps /\ "dead code" \in Avoided THEN {}
                     ELSE Bodies(k, ctx)
  IN  UNION {{<<s>> \o t : t \in tails(s, n - k)} : <<s, k>> \in
               UNION {stmts(k) \X {k} : k \in 1..n}}

RECURSIVE Uses(_, _)
Uses(stmts, op) ==
  \E i \in DOMAIN stmts :
    LET s == stmts[i]
    IN  \/ s.op = op
        \/ s.op \in Loops \union {"if"} /\ Uses(s.body, op)
        \/ s.op = "if" /\ \E j \in DOMAIN s.others : Uses(s.others[j].body, op)

\* A label is declared once, and a GOTO needs it.  ENDFUNCTION is a RETURN.
\* A program does not go round without an event: no DO or REPEAT begins with
\* a jump, nor is a label followed by a GOTO or a DO.
Programs ==
  LET ctx(theme, main) == [theme |-> theme, main |-> main, loop |-> "none", top |-> TRUE]
      labels(b) == {i \in DOMAIN b : b[i].op = "label"}
      bodies(theme, main) == UNION {Bodies(n, ctx(theme, main)) : n \in 1..MaxStmts}
      valid(b) == /\ \A i, j \in labels(b) : i = j
                  /\ Uses(b, "goto") <=> labels(b) # {}
                  /\ \A i \in labels(b) : i = Len(b) \/ b[i + 1].op \notin {"goto", "do"}
      ending == {<<[op |-> "return", temp |-> t]>> : t \in BOOLEAN}
  IN  UNION {[main : {TRUE}, body : {b \in bodies(theme, TRUE) : valid(b)}]
             \union [main : {FALSE},
                     body : {b \o e : b \in {c \in bodies(theme, FALSE) :
                                               "dead code" \in Avoided => c[Len(c)].op \notin Jumps},
                                      e \in IF "temp" \in theme THEN ending
                                            ELSE {<<[op |-> "return", temp |-> FALSE]>>}}] :
               theme \in Themes}

(***************************************************************************)
(* Running a program: what is left to do is a sequence of parts.           *)
(***************************************************************************)
Do(p) == [part |-> "do", at |-> p]
Branch(p, yes, no) == [part |-> "test", at |-> p, yes |-> yes, no |-> no]
Block(stmts, p) == [part |-> "block", stmts |-> stmts, at |-> p, i |-> 1]
Again(s, p) == [part |-> "again", stmt |-> s, at |-> p]
Return(p) == [part |-> "return", at |-> p]

RECURSIVE Decide(_, _, _, _)
Decide(c, p, yes, no) ==
  CASE c.op = "and" -> Decide(c.l, p \o <<1>>, Decide(c.r, p \o <<2>>, yes, no), no)
    [] c.op = "or"  -> Decide(c.l, p \o <<1>>, yes, Decide(c.r, p \o <<2>>, yes, no))
    [] OTHER -> <<Branch(p, yes, no)>>

\* One pass of a loop whose body is entered, up to where it is decided
\* whether there is another.
Pass(s, p) == <<Block(s.body, p \o <<1>>), Again(s, p)>>

\* The loop is entered; control has come to the end of its body; CONTINUE.
Enter(s, p) ==
  CASE s.op = "while" -> Decide(s.cond, p \o <<0>>, Pass(s, p), <<>>)
    [] s.op = "for to" -> <<Do(p)>> \o Pass(s, p)
    [] s.op = "for until" -> <<Do(p), Branch(p \o <<0>>, <<>>, Pass(s, p))>>
    [] OTHER -> Pass(s, p)

AtEnd(s, p) ==
  CASE s.op = "while" -> Enter(s, p)
    [] s.op = "repeat" -> Decide(s.cond, p \o <<0>>, <<>>, Pass(s, p))
    [] s.op = "do" -> <<Branch(p \o <<0>>, Pass(s, p), Pass(s, p))>>
    [] s.op = "for to" -> <<Branch(p \o <<0>>, <<>>, <<Do(p \o <<2>>)>> \o Pass(s, p))>>
    [] OTHER -> <<Do(p \o <<2>>), Branch(p \o <<0>>, <<>>, Pass(s, p))>>

Continue(s, p) == IF s.op \in {"do", "repeat"} THEN Pass(s, p) ELSE AtEnd(s, p)

RECURSIVE Choose(_, _, _)
Choose(others, k, p) ==
  IF k > Len(others) THEN <<>>
  ELSE LET body == <<Block(others[k].body, p \o <<k + 1>>)>>
       IN  IF others[k].cond = NoCondition THEN body
           ELSE Decide(others[k].cond, p \o <<k + 1, 0>>, body, Choose(others, k + 1, p))

\* The rest of the run from the innermost loop's end on.
RECURSIVE Innermost(_)
Innermost(rest) == IF Head(rest).part = "again" THEN rest ELSE Innermost(Tail(rest))

LabelAt(program) == CHOOSE i \in DOMAIN program.body : program.body[i].op = "label"

\* Whatever leads to no event is done, until an event is due.
RECURSIVE Settle(_, _)
Settle(program, rest) ==
  LET part == Head(rest)
      then == Tail(rest)
      s == part.stmts[part.i]
      p == part.at \o <<part.i>>
      after == <<[part EXCEPT !.i = @ + 1]>> \o then
  IN  CASE rest = <<>> -> <<Return(<<>>)>>
        [] part.part = "again" -> Settle(program, AtEnd(part.stmt, part.at) \o then)
        [] part.part # "block" -> rest
        [] part.i > Len(part.stmts) -> Settle(program, then)
        [] s.op = "print" -> <<Do(p)>> \o after
        [] s.op = "return" -> <<Return(p)>>
        [] s.op = "label" -> Settle(program, after)
        [] s.op = "goto" ->
             Settle(program, <<[Block(program.body, <<>>) EXCEPT !.i = LabelAt(program)]>>)
        [] s.op = "exit" -> Settle(program, Tail(Innermost(then)))
        [] s.op = "continue" ->
             LET loop == Innermost(then)
             IN  Settle(program, Continue(Head(loop).stmt, Head(loop).at) \o Tail(loop))
        [] s.op = "if" ->
             Settle(program, Decide(s.cond, p \o <<0>>, <<Block(s.body, p \o <<1>>)>>,
                                    Choose(s.others, 1, p)) \o after)
        [] OTHER -> Settle(program, Enter(s, p) \o after)

Begin(program) == Settle(program, <<Block(program.body, <<>>)>>)

\* The rest of the run after its next event, a test having come out as b.
After(program, rest, b) ==
  LET part == Head(rest)
  IN  CASE part.part = "return" -> <<>>
        [] part.part = "do" -> Settle(program, Tail(rest))
        [] OTHER -> Settle(program, (IF b THEN part.yes ELSE part.no) \o Tail(rest))
=============================================================================
