------------------------------- MODULE Scopes -------------------------------
(***************************************************************************)
(* Names and scopes in the compiler (Symbol.cpp, Program.cpp): the global  *)
(* scope, one for each function and one for each user-defined type, all of *)
(* whose symbols are in the one dictionary of the environment, under names *)
(* that begin with the scope's prefix.  A prefix ends in a character that  *)
(* no name has, so a key of the dictionary is a prefix and a name.  CParser*)
(* runs over a source in passes (Parser_Compile.cpp): labels while it is   *)
(* parsed, types, the functions' declarations, the program's statements,   *)
(* then the functions' bodies.  Sources are compiled one after the other.  *)
(***************************************************************************)
EXTENDS Naturals, Sequences, FiniteSets, Pointers

CONSTANTS
  FunctionNames, TypeNames, VarNames,
  Sources,          \* how many sources are compiled
  NamesReused       \* TRUE: functions and types of two sources may share names

VARIABLES
  entries,     \* the dictionary: the symbol under each key, or NULL
  m_ScopeStack,
  symbols,     \* the symbols declared by the source being compiled
  pass,        \* "parse", "types", "functions", "program", "bodies", "done", "failed"
  bodiesLeft,  \* the functions whose bodies are still to be looked at
  earlier,     \* the functions and types that the sources before this declared
  sourceNo

scopeVars == <<entries, m_ScopeStack, symbols, pass, bodiesLeft, earlier, sourceNo>>

GlobalScope == "global"
ScopeIds == {GlobalScope} \cup FunctionNames \cup TypeNames
SymbolNames == FunctionNames \cup TypeNames \cup VarNames
Symbols == [scope : ScopeIds, name : SymbolNames, is : {"label", "type", "func", "field", "var"}]

\* No name has the prefix of a scope, and a symbol is not the null pointer.
ASSUME ScopesAssumption == GlobalScope \notin SymbolNames /\ NULL \notin Symbols

\* A function's scope is in the global one; a type's is in none (Semant makes it).
Parent(scope) == IF scope \in FunctionNames THEN GlobalScope ELSE NULL

ScopesInit ==
  /\ entries = [key \in ScopeIds \X SymbolNames |-> NULL]
  /\ m_ScopeStack = <<>> /\ symbols = {} /\ pass = "parse"
  /\ bodiesLeft = {} /\ earlier = {} /\ sourceNo = 1

CurrentScope ==
  IF m_ScopeStack = <<>> THEN GlobalScope ELSE m_ScopeStack[Len(m_ScopeStack)]

\* CScope::FindSymbol.
FindThisScopeOnly(e, scope, name) == e[<<scope, name>>]
\* A faulty search, which begins with the scope around.
FindSymbolOutside(e, scope, name) ==
  IF Parent(scope) = NULL \/ e[<<Parent(scope), name>>] = NULL THEN e[<<scope, name>>]
  ELSE e[<<Parent(scope), name>>]

FindSymbol(e, scope, name) ==
  IF e[<<scope, name>>] # NULL \/ Parent(scope) = NULL THEN e[<<scope, name>>]
  ELSE e[<<Parent(scope), name>>]

\* CScope::AddSymbol, of a symbol that has the fields of `is`: NULL for a name
\* that the scope has.
Symbol(scope, name, is) == [scope |-> scope, name |-> name, is |-> is]
ScopeAdds(e, scope, name) == e[<<scope, name>>] = NULL
Added(e, scope, name, is) == [e EXCEPT ![<<scope, name>>] = Symbol(scope, name, is)]

\* CProgram::AddSymbol refuses the names of the scopes around it too.
ProgramAdds(e, scope, name) == FindSymbol(e, scope, name) = NULL

\* A pass stops at the first error, and the source fails; a function that was
\* being looked at takes its scope from the stack first.
SourceFails == pass' = "failed" /\ m_ScopeStack' = <<>> /\ UNCHANGED bodiesLeft
Fail == SourceFails /\ UNCHANGED <<entries, symbols>>

Declare(scope, name, is) ==
  /\ entries' = Added(entries, scope, name, is)
  /\ symbols' = symbols \cup {Symbol(scope, name, is)}

-----------------------------------------------------------------------------
\* ParseStatement declares a label when it meets one: the scope stack is empty
\* then, also within a function.
ParseLabel(name) ==
  /\ pass = "parse"
  /\ IF ProgramAdds(entries, CurrentScope, name)
     THEN Declare(CurrentScope, name, "label") /\ UNCHANGED <<m_ScopeStack, pass, bodiesLeft>>
     ELSE Fail

MayDeclare(name) == NamesReused \/ name \notin earlier

\* The first n names can be added to a scope one after the other.  (The scope is
\* not empty if an earlier source left something in it.)
Fits(scope, names, n) ==
  \A i \in 1 .. n : ScopeAdds(entries, scope, names[i]) /\ \A j \in 1 .. i - 1 : names[j] # names[i]

\* A type or a function that the global scope adds, and those of its members or
\* parameters that its own scope adds before one is refused, or before the type
\* of one that was added turns out not to be there: what was added stays.
\* Whether more follows says if something else may fail after the last.
DeclareWith(name, is, members, memberIs, more) ==
  \E n \in 0 .. Len(members) :
    LET added == {members[i] : i \in 1 .. n}
        all == n = Len(members)
    IN /\ Fits(name, members, n)
       /\ entries' = [key \in DOMAIN entries |->
                        IF key = <<GlobalScope, name>> THEN Symbol(GlobalScope, name, is)
                        ELSE IF key[1] = name /\ key[2] \in added THEN Symbol(name, key[2], memberIs)
                        ELSE entries[key]]
       /\ symbols' = symbols \cup {Symbol(GlobalScope, name, is)}
                             \cup {Symbol(name, x, memberIs) : x \in added}
       /\ \/ /\ all /\ UNCHANGED <<m_ScopeStack, pass>>
             /\ bodiesLeft' = IF is = "func" THEN bodiesLeft \cup {name} ELSE bodiesLeft
          \/ /\ n > 0 \/ (all /\ more) \/ (~all /\ ~Fits(name, members, n + 1))
             /\ SourceFails

\* CUserDefinedType::Semant.
SemantType(type, fields) ==
  /\ pass = "types" /\ MayDeclare(type)
  /\ IF ScopeAdds(entries, GlobalScope, type) THEN DeclareWith(type, "type", fields, "field", FALSE)
     ELSE Fail

\* CFunctionDecl::PreSemant adds the parameters to the function's own scope, and
\* so they may have names of the global scope.  The type it returns comes last.
PreSemantFunction(func, parms) ==
  /\ pass = "functions" /\ MayDeclare(func)
  /\ IF ScopeAdds(entries, GlobalScope, func) THEN DeclareWith(func, "func", parms, "var", TRUE)
     ELSE Fail

InStatements == pass = "program" \/ (pass = "bodies" /\ m_ScopeStack # <<>>)

\* CVarDeclStmt::Semant.
DeclareVariable(name) ==
  /\ InStatements
  /\ IF ProgramAdds(entries, CurrentScope, name)
     THEN Declare(CurrentScope, name, "var") /\ UNCHANGED <<m_ScopeStack, pass, bodiesLeft>>
     ELSE Fail

\* CForLoopStmt::Semant: the loop's variable is a variable there is, or is made.
SemantFor(name) ==
  /\ InStatements
  /\ LET sym == FindSymbol(entries, CurrentScope, name) IN
     \/ /\ sym = NULL /\ Declare(CurrentScope, name, "var")
        /\ UNCHANGED <<m_ScopeStack, pass, bodiesLeft>>
     \/ /\ sym # NULL
        /\ IF sym.is = "var"
           THEN UNCHANGED <<entries, m_ScopeStack, symbols, pass, bodiesLeft>>
           ELSE Fail

\* CGotoStmt::Semant looks in the current scope only.
SemantGoto(name) ==
  /\ InStatements
  /\ LET sym == FindThisScopeOnly(entries, CurrentScope, name)
     IN IF sym # NULL /\ sym.is = "label"
        THEN UNCHANGED <<entries, m_ScopeStack, symbols, pass, bodiesLeft>>
        ELSE Fail

\* CFunctionDecl::Semant pushes the function's scope around its statements.
PushScope ==
  /\ pass = "bodies" /\ m_ScopeStack = <<>>
  /\ \E func \in bodiesLeft :
       /\ m_ScopeStack' = Append(m_ScopeStack, func)
       /\ bodiesLeft' = bodiesLeft \ {func}
  /\ UNCHANGED <<entries, symbols, pass>>

PopScope ==
  /\ pass = "bodies" /\ m_ScopeStack # <<>>
  /\ m_ScopeStack' = SubSeq(m_ScopeStack, 1, Len(m_ScopeStack) - 1)
  /\ UNCHANGED <<entries, symbols, pass, bodiesLeft>>

PassAfter == [parse |-> "types", types |-> "functions", functions |-> "program",
              program |-> "bodies", bodies |-> "done"]
NextPass ==
  /\ pass \in DOMAIN PassAfter
  /\ pass = "bodies" => bodiesLeft = {} /\ m_ScopeStack = <<>>
  /\ pass' = PassAfter[pass]
  /\ UNCHANGED <<entries, m_ScopeStack, symbols, bodiesLeft>>

\* CProgram::ClearParser.  CScope::Clear deletes the symbols of the global scope,
\* and each takes itself from its entry; it deletes the functions' scopes, whose
\* symbols stay where they are, as those of the types' scopes do.
SetParser ==
  /\ pass \in {"done", "failed"} /\ sourceNo < Sources
  /\ entries' = [key \in DOMAIN entries |->
                   IF key[1] = GlobalScope THEN NULL ELSE entries[key]]
  /\ m_ScopeStack' = <<>> /\ symbols' = {} /\ pass' = "parse" /\ bodiesLeft' = {}
  /\ earlier' = earlier \cup {sym.name : sym \in {s \in symbols : s.is \in {"func", "type"}}}
  /\ sourceNo' = sourceNo + 1

\* Up to two members, which may have the same name.
MemberLists == {<<>>} \cup {<<n>> : n \in VarNames} \cup (VarNames \X VarNames)

Declaring ==
  \/ \E name \in VarNames : ParseLabel(name) \/ DeclareVariable(name)
                              \/ SemantFor(name) \/ SemantGoto(name)
  \/ \E func \in FunctionNames, names \in MemberLists : PreSemantFunction(func, names)
  \/ \E type \in TypeNames, names \in MemberLists : SemantType(type, names)
  \/ PushScope \/ PopScope \/ NextPass

ScopesNext == SetParser \/ (Declaring /\ UNCHANGED <<earlier, sourceNo>>)

ScopesSpec == ScopesInit /\ [][ScopesNext]_scopeVars

-----------------------------------------------------------------------------
(* What a name means is decided by the declarations of the source that is   *)
(* being compiled: looked up in a scope, it is the one symbol declared in   *)
(* that scope, or else the one declared in the scope around it, and nothing *)
(* that another source, a failed declaration or another scope left behind.  *)
Declared(scope, name) == {sym \in symbols : sym.scope = scope /\ sym.name = name}
Means(scope, name) ==
  IF Declared(scope, name) # {} THEN Declared(scope, name)
  ELSE IF Parent(scope) = NULL THEN {} ELSE Declared(Parent(scope), name)

ScopeIdsInUse == {GlobalScope} \cup {sym.name : sym \in {s \in symbols : s.is \in {"func", "type"}}}

NamesResolved ==
  \A scope \in ScopeIdsInUse, name \in SymbolNames :
    IF FindSymbol(entries, scope, name) = NULL THEN Means(scope, name) = {}
    ELSE Means(scope, name) = {FindSymbol(entries, scope, name)}
=============================================================================
