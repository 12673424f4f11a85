---------------------------- MODULE CodeGenFlow ----------------------------
(***************************************************************************)
(* Code generation for a function or for the main program (StmtParser.cpp, *)
(* CodeGen_Labels.cpp, CodeGen_Expr.cpp), and a run of the code that comes *)
(* out.  The generator g has basic blocks, which are sequences of          *)
(* instructions, a current one that instructions are appended to, the      *)
(* points to leave or continue the loops it is in, and for each clean-up   *)
(* scope the temporary strings to be reclaimed.  CodeGen of a statement s  *)
(* at path p takes g to the generator it leaves.  Instructions that do no  *)
(* more than compute are left out; those of a FOR loop that set, compare   *)
(* and step its variable are one event each.                               *)
(***************************************************************************)
EXTENDS StructuredFlow, FiniteSets, SequencesExt

VARIABLES
  program,
  blocks,   \* the code that was generated for program
  at,       \* [block, i]: the next instruction
  from,     \* the block that branched to this one
  flag,     \* the value of the last condition or PHI
  live,     \* temporaries that were made and not reclaimed
  rest      \* what is left of the program's run, by StructuredFlow

vars == <<program, blocks, at, from, flag, live, rest>>

(***************************************************************************)
(* Instructions.                                                           *)
(***************************************************************************)
Event(p) == [i |-> "event", at |-> p]
Compute(p) == [i |-> "test", at |-> p]
SafeSync(p) == [i |-> "sync", at |-> p]
Make(p) == [i |-> "make", at |-> p]
Reclaim(p) == [i |-> "reclaim", at |-> p]
Br(b) == [i |-> "br", to |-> b]
CondBr(yes, no) == [i |-> "condbr", yes |-> yes, no |-> no]
Phi(lhs, rhs, const) == [i |-> "phi", lhs |-> lhs, rhs |-> rhs, const |-> const]
Ret(p) == [i |-> "ret", at |-> p]

Terminators == {"br", "condbr", "ret"}

(***************************************************************************)
(* MCodeGen: blocks, loop points, clean-up scopes.                         *)
(***************************************************************************)
Emit(g, instruction) == [g EXCEPT !.blocks[g.cur] = Append(@, instruction)]

Create(g, n) == [g EXCEPT !.blocks = @ \o [i \in 1..n |-> <<>>]]

HasTerminator(g) ==
  LET block == g.blocks[g.cur] IN block # <<>> /\ Last(block).i \in Terminators
Ended(g, instruction) == IF HasTerminator(g) THEN g ELSE Emit(g, instruction)

\* A branch is appended though the block ends in one already.
SetCurrentBlockAlways(g, b) ==
  IF g.cur = b THEN g ELSE [Emit(g, Br(b)) EXCEPT !.cur = b]

SetCurrentBlock(g, b) ==
  IF g.cur = b THEN g
  ELSE [Ended(g, Br(b)) EXCEPT !.cur = b]

EmitLabel(g) == SetCurrentBlock(Create(g, 1), Len(g.blocks) + 1)

EnterLoop(g, brk, cont) == [g EXCEPT !.loops = Append(@, [brk |-> brk, cont |-> cont])]
LeaveLoop(g) == [g EXCEPT !.loops = Front(@)]
BreakLoop(g) == Emit(g, Br(Last(g.loops).brk))
ContinueLoop(g) == Emit(g, Br(Last(g.loops).cont))

EnterScope(g) == [g EXCEPT !.scopes = Append(@, <<>>)]
LeaveScope(g) == [g EXCEPT !.scopes = Front(@)]
AddCleanCall(g, p) == [g EXCEPT !.scopes[Len(g.scopes)] = Append(@, p)]

EmitCleanup(g, scope, ignored) ==
  LET values == SelectSeq(Reverse(scope), LAMBDA p : p \notin ignored)
  IN  [g EXCEPT !.blocks[g.cur] = @ \o [i \in 1..Len(values) |-> Reclaim(values[i])]]

CleanScope(g) == EmitCleanup(g, Last(g.scopes), {})
CleanTopLevel(g, ignored) ==
  FoldLeft(LAMBDA h, scope : EmitCleanup(h, scope, ignored), g, Reverse(g.scopes))

\* An expression that makes a string, or one that does not.
MakeValue(g, p, temp) == IF temp THEN AddCleanCall(Emit(g, Make(p)), p) ELSE g

(***************************************************************************)
(* CBinaryExpr::CodeGen for && and ||, under EmitCondition.                *)
(***************************************************************************)
RECURSIVE EmitCondition(_, _, _)
EmitCondition(g, c, p) ==
  IF c.op = "test" THEN Emit(MakeValue(g, p, c.temp), Compute(p))
  ELSE LET lhs == g.cur
           rhs == Len(g.blocks) + 1
           end == rhs + 1
           left == EmitCondition(Create(g, 2), c.l, p \o <<1>>)
           jump == IF c.op = "and" THEN CondBr(rhs, end) ELSE CondBr(end, rhs)
           right == EmitCondition(SetCurrentBlock(Emit(left, jump), rhs), c.r, p \o <<2>>)
       IN  Emit(SetCurrentBlock(right, end), Phi(lhs, rhs, c.op = "or"))

(***************************************************************************)
(* Statements without a body.                                              *)
(***************************************************************************)
FunctionCall(g, s, p) ==
  LeaveScope(CleanScope(Emit(MakeValue(EnterScope(g), p, s.temp), Event(p))))

\* Only the statement's own scope is cleaned.
ExitFunctionOneScope(g, s, p) ==
  LET value == MakeValue(EnterScope(g), p, s.temp)
  IN  Emit(LeaveScope(EmitCleanup(value, Last(value.scopes), IF s.temp THEN {p} ELSE {})), Ret(p))

ExitFunction(g, s, p) ==
  LET value == MakeValue(EnterScope(g), p, s.temp)
  IN  Emit(LeaveScope(CleanTopLevel(value, IF s.temp THEN {p} ELSE {})), Ret(p))

Simple(g, s, p) ==
  CASE s.op = "print" -> FunctionCall(g, s, p)
    [] s.op = "return" -> ExitFunction(g, s, p)
    [] s.op = "exit" -> BreakLoop(g)
    [] s.op = "continue" -> ContinueLoop(g)
    [] s.op = "goto" -> Emit(g, Br(g.label))
    [] s.op = "label" -> SetCurrentBlock(g, g.label)

(***************************************************************************)
(* Statements with a body.                                                 *)
(***************************************************************************)
RECURSIVE CodeGen(_, _, _)

\* CStatementSequence::CodeGen
Sequence(g, stmts, p) ==
  FoldLeft(LAMBDA h, i : CodeGen(h, stmts[i], p \o <<i>>), g, [i \in 1..Len(stmts) |-> i])

DoLoop(g, s, p) ==
  LET enter == Len(g.blocks) + 1
      leave == enter + 1
      body == Sequence(EnterLoop(Create(EmitLabel(g), 1), leave, enter), s.body, p \o <<1>>)
      end == Emit(Emit(LeaveLoop(body), SafeSync(p \o <<0>>)), CondBr(enter, leave))
  IN  SetCurrentBlock(end, leave)

\* The loop is never left: EXIT after it belongs to it.
WhileLoopStaying(g, s, p) ==
  LET enter == Len(g.blocks) + 1
      main == enter + 1
      leave == enter + 2
      cond == EmitCondition(EnterLoop(Create(EmitLabel(g), 2), leave, enter), s.cond, p \o <<0>>)
      body == Sequence(SetCurrentBlock(Emit(cond, CondBr(main, leave)), main), s.body, p \o <<1>>)
  IN  SetCurrentBlock(Emit(body, Br(enter)), leave)

WhileLoop(g, s, p) ==
  LET enter == Len(g.blocks) + 1
      main == enter + 1
      leave == enter + 2
      cond == EmitCondition(EnterLoop(Create(EmitLabel(g), 2), leave, enter), s.cond, p \o <<0>>)
      body == Sequence(SetCurrentBlock(Emit(cond, CondBr(main, leave)), main), s.body, p \o <<1>>)
  IN  LeaveLoop(SetCurrentBlock(Emit(body, Br(enter)), leave))

RepeatLoop(g, s, p) ==
  LET enter == Len(g.blocks) + 1
      step == enter + 1
      leave == enter + 2
      body == Sequence(EnterLoop(Create(EmitLabel(g), 2), leave, step), s.body, p \o <<1>>)
      cond == EmitCondition(SetCurrentBlock(Emit(body, Br(step)), step), s.cond, p \o <<0>>)
  IN  LeaveLoop(SetCurrentBlock(Emit(cond, CondBr(leave, enter)), leave))

\* FOR/TO has its body in the first of its two blocks and the comparison in
\* the second, FOR/UNTIL the other way about.
ForLoop(g, s, p) ==
  LET until == s.op = "for until"
      enter == Len(g.blocks) + 1
      second == enter + 1
      step == enter + 2
      leave == enter + 3
      compare(h) == Emit(Emit(h, Compute(p \o <<0>>)),
                         CondBr(leave, IF until THEN second ELSE step))
      body(h) == Sequence(h, s.body, p \o <<1>>)
      start == EnterLoop(Create(Emit(g, Event(p)), 4), leave, step)
      first == SetCurrentBlock(start, enter)
      one == IF until THEN compare(first) ELSE body(first)
      two == SetCurrentBlock(one, second)
      last == SetCurrentBlock(IF until THEN body(two) ELSE compare(two), step)
      stepped == Emit(Emit(last, Event(p \o <<2>>)), Br(enter))
  IN  LeaveLoop(SetCurrentBlock(stepped, leave))

\* The statements after this one that CIfStmt::CodeGen goes through: Parse
\* appends an ELSEIF to m_ElseStmts two times.
ElseStmts(s) ==
  FoldLeft(LAMBDA e, k : e \o IF s.others[k].cond = NoCondition THEN <<k>> ELSE <<k, k>>,
           <<>>, [k \in 1..Len(s.others) |-> k])

\* The branches of an IF are 0, for the IF, and the numbers of its others.
\* pDestBlock belongs to the statement: one that is listed twice keeps the
\* block that was created last.
If(g, s, p) ==
  LET elses == ElseStmts(s)
      all == <<0>> \o elses
      first == Len(g.blocks) + 1
      end == first + Len(all)
      dest(k) == first - 1 + CHOOSE j \in DOMAIN all :
                               all[j] = k /\ \A l \in (j + 1)..Len(all) : all[l] # k
      next(j) == IF j < Len(all) THEN dest(all[j + 1]) ELSE end
      stmt(k) == IF k = 0 THEN s ELSE s.others[k]
      path(k) == p \o <<k + 1>>
      condAt(k) == IF k = 0 THEN p \o <<0>> ELSE path(k) \o <<0>>
      guarded(h, j) ==
        LET cond == Create(EmitCondition(h, stmt(all[j]).cond, condAt(all[j])), 1)
            after == Len(cond.blocks)
        IN  SetCurrentBlock(Emit(cond, CondBr(after, next(j))), after)
      branch(h, j) ==
        LET entered == SetCurrentBlock(h, dest(all[j]))
            ready == IF stmt(all[j]).cond = NoCondition THEN entered ELSE guarded(entered, j)
        IN  Ended(Sequence(ready, stmt(all[j]).body, path(all[j])), Br(end))
  IN  SetCurrentBlock(FoldLeft(branch, Create(g, Len(all) + 1), [j \in 1..Len(all) |-> j]), end)

CodeGen(g, s, p) ==
  CASE s.op = "do" -> DoLoop(g, s, p)
    [] s.op = "while" -> WhileLoop(g, s, p)
    [] s.op = "repeat" -> RepeatLoop(g, s, p)
    [] s.op \in {"for to", "for until"} -> ForLoop(g, s, p)
    [] s.op = "if" -> If(g, s, p)
    [] OTHER -> Simple(g, s, p)

(***************************************************************************)
(* CFunctionDecl::CodeGen; for the main program, CParser::CodeGen and      *)
(* CompleteMain.  The label's block is made by the parser; it is block 2.  *)
(***************************************************************************)
GenerateBody(prog) ==
  LET labelled == Uses(prog.body, "label")
      g == [blocks |-> IF labelled THEN << <<>>, <<>> >> ELSE << <<>> >>,
            cur |-> 1, loops |-> <<>>, scopes |-> <<>>, label |-> 2]
  IN  Sequence(EnterScope(g), prog.body, <<>>)
Complete(main, g) ==
  IF main THEN Ended(LeaveScope(CleanTopLevel(g, {})), Ret(<<>>)) ELSE LeaveScope(g)
Generate(prog) == Complete(prog.main, GenerateBody(prog)).blocks

(***************************************************************************)
(* Running the code.                                                       *)
(***************************************************************************)
Runs(p) ==
  /\ program = p
  /\ blocks = Generate(program)
  /\ at = [block |-> 1, i |-> 1]
  /\ from = 0
  /\ flag = FALSE
  /\ live = {}
  /\ rest = Begin(program)

Init == \E p \in Programs : Runs(p)

Current == blocks[at.block][at.i]
Running == at.i \in DOMAIN blocks[at.block]

Advance == at' = [at EXCEPT !.i = @ + 1] /\ UNCHANGED from
Goto(b) == at' = [block |-> b, i |-> 1] /\ from' = at.block

Happens ==
  /\ Running /\ Current.i = "event" /\ rest # <<>>
  /\ Advance
  /\ rest' = After(program, rest, FALSE)
  /\ UNCHANGED <<program, blocks, flag, live>>

\* teSafeSync asks a callback whether the program may go on.
Tests ==
  /\ Running /\ Current.i \in {"test", "sync"} /\ rest # <<>>
  /\ flag' \in IF Current.i = "sync" /\ "stopped DO" \in Avoided THEN {TRUE} ELSE BOOLEAN
  /\ Advance
  /\ rest' = After(program, rest, flag')
  /\ UNCHANGED <<program, blocks, live>>

Joins ==
  /\ Running /\ Current.i = "phi"
  /\ flag' = IF from = Current.lhs THEN Current.const ELSE flag
  /\ Advance
  /\ UNCHANGED <<program, blocks, live, rest>>

Branches ==
  /\ Running /\ Current.i \in {"br", "condbr"}
  /\ Goto(IF Current.i = "br" THEN Current.to ELSE IF flag THEN Current.yes ELSE Current.no)
  /\ UNCHANGED <<program, blocks, flag, live, rest>>

Reclaims ==
  /\ Running /\ Current.i \in {"make", "reclaim"}
  /\ live' = IF Current.i = "make" THEN live \union {Current.at} ELSE live \ {Current.at}
  /\ Advance
  /\ UNCHANGED <<program, blocks, flag, rest>>

Returns ==
  /\ Running /\ Current.i = "ret" /\ rest # <<>>
  /\ rest' = After(program, rest, FALSE)
  /\ UNCHANGED <<program, blocks, at, from, flag, live>>

Next == Happens \/ Tests \/ Joins \/ Branches \/ Reclaims \/ Returns

Spec == Init /\ [][Next]_vars

(***************************************************************************)
(* Properties.                                                             *)
(***************************************************************************)
Successors(b) ==
  LET last == Last(blocks[b])
  IN  CASE last.i = "br" -> {last.to}
        [] last.i = "condbr" -> {last.yes, last.no}
        [] OTHER -> {}

\* Every block ends in a terminator, has no other, and a PHI names the
\* blocks that branch to its block, whatever jumps, nested loops and
\* conditions the program has: what llvm::verifyFunction asks for after
\* CFunctionDecl::CodeGen.
WellFormed ==
  at = [block |-> 1, i |-> 1] =>
    \A b \in DOMAIN blocks :
      /\ blocks[b] # <<>>
      /\ \A i \in DOMAIN blocks[b] :
           /\ blocks[b][i].i \in Terminators <=> i = Len(blocks[b])
           /\ blocks[b][i].i = "phi" =>
                {blocks[b][i].lhs, blocks[b][i].rhs} =
                  {c \in DOMAIN blocks : b \in Successors(c)}

\* Each time that the code does something that the program says, it is what
\* the program does next, its jumps taken and its conditions decided as they
\* came out: EXIT and CONTINUE go to the right loop, AND and OR stop where
\* they should, GOTO leaves the loops it is in.
FlowAgrees ==
  Running /\ Current.i \in {"event", "test", "sync", "ret"} =>
    /\ rest # <<>> => Head(rest).at = Current.at
    /\ rest # <<>> => (Head(rest).part = "return" <=> Current.i = "ret")

\* A temporary string is made anew only once it was reclaimed, reclaimed only
\* if it was made on the way here, and none but the value is left when the
\* function returns: the calls of a function's scopes are emitted at every
\* RETURN, whichever statements a run went through before.
TemporariesReclaimed ==
  Running =>
    CASE Current.i = "make" -> Current.at \notin live
      [] Current.i = "reclaim" -> Current.at \in live
      [] Current.i = "ret" -> live \subseteq {Current.at}
      [] OTHER -> TRUE

\* What is emitted is code that can be run, and leaves no temporary.
CodeSound == WellFormed /\ TemporariesReclaimed
=============================================================================
