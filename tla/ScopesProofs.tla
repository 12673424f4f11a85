---------------------------- MODULE ScopesProofs ----------------------------
(***************************************************************************)
(* A name means what the source being compiled declares, whatever sources  *)
(* were compiled before it, as long as they do not share the names of      *)
(* functions and types.  Every scope that the source has made has in the   *)
(* dictionary what was declared in it, and a scope that no source has made *)
(* has nothing there.                                                      *)
(***************************************************************************)
EXTENDS Scopes, TLAPS

ScopesPlaced ==
  /\ entries \in [ScopeIds \X SymbolNames -> Symbols \cup {NULL}]
  /\ symbols \subseteq Symbols
  /\ \A sym \in symbols :
       /\ sym.scope \in ScopeIdsInUse
       /\ sym.is \in {"func", "type"} => sym.scope = GlobalScope /\ sym.name \in FunctionNames \cup TypeNames
  /\ m_ScopeStack # <<>> => \E scope \in ScopeIdsInUse : m_ScopeStack = <<scope>>
  /\ bodiesLeft \subseteq ScopeIdsInUse

Holds(scope, name) == IF entries[<<scope, name>>] = NULL THEN {} ELSE {entries[<<scope, name>>]}

ScopesMatch == \A scope \in ScopeIdsInUse, name \in SymbolNames : Declared(scope, name) = Holds(scope, name)

UnmadeEmpty ==
  \A scope \in ScopeIds \ ScopeIdsInUse, name \in SymbolNames :
    scope \notin earlier => entries[<<scope, name>>] = NULL

ScopesInv == ScopesPlaced /\ ScopesMatch /\ UnmadeEmpty

LEMMA InUseAreScopes ==
  ASSUME ScopesPlaced
  PROVE  ScopeIdsInUse \subseteq ScopeIds /\ GlobalScope \in ScopeIdsInUse
BY DEF ScopesPlaced, ScopeIdsInUse, ScopeIds

LEMMA CurrentInUse ==
  ASSUME ScopesPlaced
  PROVE  CurrentScope \in ScopeIdsInUse
<1>1. CASE m_ScopeStack = <<>>
  BY <1>1, InUseAreScopes DEF CurrentScope
<1>2. CASE m_ScopeStack # <<>>
  <2>1. PICK scope \in ScopeIdsInUse : m_ScopeStack = <<scope>>
    BY <1>2 DEF ScopesPlaced
  <2> QED
    BY <2>1 DEF CurrentScope
<1> QED
  BY <1>1, <1>2

\* What is not found in a scope or around it is not in it.
LEMMA NotFound ==
  ASSUME NEW scope, NEW name, FindSymbol(entries, scope, name) = NULL
  PROVE  entries[<<scope, name>>] = NULL
BY DEF FindSymbol

LEMMA ScopesInitInv == ScopesInit => ScopesInv
<1> SUFFICES ASSUME ScopesInit PROVE ScopesInv
  OBVIOUS
<1>1. ScopesPlaced
  BY DEF ScopesInit, ScopesPlaced
<1>2. ScopeIdsInUse \subseteq ScopeIds
  BY <1>1, InUseAreScopes
<1>3. ScopesMatch /\ UnmadeEmpty
  BY <1>2 DEF ScopesInit, ScopesMatch, UnmadeEmpty, Declared, Holds
<1> QED
  BY <1>1, <1>3 DEF ScopesInv

\* A variable or a label, in a scope that does not have its name.
LEMMA DeclareInv ==
  ASSUME ScopesInv, NEW scope \in ScopeIdsInUse, NEW name \in SymbolNames, NEW is \in {"label", "var"},
         entries[<<scope, name>>] = NULL, Declare(scope, name, is),
         UNCHANGED <<m_ScopeStack, bodiesLeft, earlier>>
  PROVE  ScopesInv'
<1> DEFINE new == Symbol(scope, name, is)
<1>1. scope \in ScopeIds
  BY InUseAreScopes DEF ScopesInv
<1>2. new \in Symbols /\ new # NULL /\ new.scope = scope /\ new.name = name /\ new.is = is
  BY <1>1, ScopesAssumption DEF Symbol, Symbols
<1>3. symbols' = symbols \cup {new} /\ entries' = [entries EXCEPT ![<<scope, name>>] = new]
  BY DEF Declare, Added
<1> HIDE DEF new
<1>4. ScopeIdsInUse' = ScopeIdsInUse
  BY <1>2, <1>3 DEF ScopeIdsInUse
<1>5. ScopesPlaced'
  BY <1>1, <1>2, <1>3, <1>4 DEF ScopesInv, ScopesPlaced
<1>6. ScopesMatch'
  <2> SUFFICES ASSUME NEW s \in ScopeIdsInUse, NEW x \in SymbolNames
               PROVE  Declared(s, x)' = Holds(s, x)'
    BY <1>4 DEF ScopesMatch
  <2>1. s \in ScopeIds /\ <<s, x>> \in ScopeIds \X SymbolNames /\ DOMAIN entries = ScopeIds \X SymbolNames
    BY InUseAreScopes DEF ScopesInv, ScopesPlaced
  <2>2. Declared(s, x) = Holds(s, x)
    BY DEF ScopesInv, ScopesMatch
  <2>3. CASE s = scope /\ x = name
    <3>1. Declared(s, x) = {}
      BY <2>2, <2>3 DEF Holds
    <3>2. Declared(s, x)' = {new}
      BY <1>2, <1>3, <2>3, <3>1 DEF Declared
    <3>3. entries'[<<s, x>>] = new
      BY <1>3, <2>1, <2>3
    <3> QED
      BY <1>2, <3>2, <3>3 DEF Holds
  <2>4. CASE ~(s = scope /\ x = name)
    <3>1. Declared(s, x)' = Declared(s, x)
      BY <1>2, <1>3, <2>4 DEF Declared
    <3>2. entries'[<<s, x>>] = entries[<<s, x>>]
      BY <1>3, <2>1, <2>4
    <3> QED
      BY <2>2, <3>1, <3>2 DEF Holds
  <2> QED
    BY <2>3, <2>4
<1>7. UnmadeEmpty'
  <2> SUFFICES ASSUME NEW s \in ScopeIds \ ScopeIdsInUse, NEW x \in SymbolNames, s \notin earlier
               PROVE  entries'[<<s, x>>] = NULL
    BY <1>4 DEF UnmadeEmpty
  <2>1. entries[<<s, x>>] = NULL /\ s # scope
    BY DEF ScopesInv, UnmadeEmpty
  <2>2. <<s, x>> \in DOMAIN entries
    BY DEF ScopesInv, ScopesPlaced
  <2> QED
    BY <1>3, <2>1, <2>2
<1> QED
  BY <1>5, <1>6, <1>7 DEF ScopesInv

LEMMA MembersAreNames ==
  ASSUME NEW members \in MemberLists, NEW n \in 0 .. Len(members), NEW i \in 1 .. n
  PROVE  members[i] \in VarNames
<1>1. CASE members = <<>>
  BY <1>1
<1>2. ASSUME NEW a \in VarNames, members = <<a>> PROVE members[i] \in VarNames
  BY <1>2
<1>3. ASSUME NEW a \in VarNames, NEW b \in VarNames, members = <<a, b>> PROVE members[i] \in VarNames
  BY <1>3
<1> QED
  BY <1>1, <1>2, <1>3 DEF MemberLists

\* A type or a function with its members, whose scope no source has made before.
LEMMA DeclareWithInv ==
  ASSUME ScopesInv, NEW name \in FunctionNames \cup TypeNames, name \notin earlier,
         ScopeAdds(entries, GlobalScope, name),
         NEW members \in MemberLists, NEW is \in {"func", "type"}, NEW memberIs \in {"field", "var"},
         NEW more, DeclareWith(name, is, members, memberIs, more), UNCHANGED earlier
  PROVE  ScopesInv'
<1>1. PICK added \in SUBSET VarNames :
        /\ entries' = [key \in DOMAIN entries |->
                         IF key = <<GlobalScope, name>> THEN Symbol(GlobalScope, name, is)
                         ELSE IF key[1] = name /\ key[2] \in added THEN Symbol(name, key[2], memberIs)
                         ELSE entries[key]]
        /\ symbols' = symbols \cup {Symbol(GlobalScope, name, is)}
                              \cup {Symbol(name, x, memberIs) : x \in added}
        /\ m_ScopeStack' \in {m_ScopeStack, <<>>}
        /\ bodiesLeft' \subseteq bodiesLeft \cup {name}
  <2>1. PICK n \in 0 .. Len(members) :
          LET added == {members[i] : i \in 1 .. n}
          IN /\ entries' = [key \in DOMAIN entries |->
                              IF key = <<GlobalScope, name>> THEN Symbol(GlobalScope, name, is)
                              ELSE IF key[1] = name /\ key[2] \in added THEN Symbol(name, key[2], memberIs)
                              ELSE entries[key]]
             /\ symbols' = symbols \cup {Symbol(GlobalScope, name, is)}
                                   \cup {Symbol(name, x, memberIs) : x \in added}
             /\ m_ScopeStack' \in {m_ScopeStack, <<>>}
             /\ bodiesLeft' \subseteq bodiesLeft \cup {name}
    BY DEF DeclareWith, SourceFails
  <2>2. {members[i] : i \in 1 .. n} \in SUBSET VarNames
    BY MembersAreNames
  <2> QED
    BY <2>1, <2>2
<1> DEFINE own == Symbol(GlobalScope, name, is)
           member(x) == Symbol(name, x, memberIs)
<1>2. name \in ScopeIds /\ name \in SymbolNames /\ name # GlobalScope /\ GlobalScope \in ScopeIds
      /\ VarNames \subseteq SymbolNames
  BY ScopesAssumption DEF ScopeIds, SymbolNames
<1>3. own \in Symbols /\ own # NULL /\ own.scope = GlobalScope /\ own.name = name /\ own.is = is
  BY <1>2, ScopesAssumption DEF Symbol, Symbols
<1>4. \A x \in added : /\ member(x) \in Symbols /\ member(x) # NULL
                       /\ member(x).scope = name /\ member(x).name = x /\ member(x).is = memberIs
  BY <1>2, ScopesAssumption DEF Symbol, Symbols
<1>5. /\ symbols' = symbols \cup {own} \cup {member(x) : x \in added}
      /\ entries' = [key \in DOMAIN entries |->
                       IF key = <<GlobalScope, name>> THEN own
                       ELSE IF key[1] = name /\ key[2] \in added THEN member(key[2])
                       ELSE entries[key]]
  BY <1>1
<1> HIDE DEF own, member
<1>6. DOMAIN entries = ScopeIds \X SymbolNames
  BY DEF ScopesInv, ScopesPlaced
<1>7. ScopeIdsInUse' = ScopeIdsInUse \cup {name}
  <2>1. {s \in symbols' : s.is \in {"func", "type"}} = {s \in symbols : s.is \in {"func", "type"}} \cup {own}
    BY <1>3, <1>4, <1>5
  <2> QED
    BY <1>3, <2>1 DEF ScopeIdsInUse
<1>8. name \notin ScopeIdsInUse
  <2>1. Declared(GlobalScope, name) = {}
    BY <1>2, InUseAreScopes DEF ScopesInv, ScopesMatch, Holds, ScopeAdds
  <2> QED
    BY <1>2, <2>1 DEF ScopesInv, ScopesPlaced, ScopeIdsInUse, Declared
<1>9. ScopesPlaced'
  <2>1. entries' \in [ScopeIds \X SymbolNames -> Symbols \cup {NULL}]
    BY <1>3, <1>4, <1>5, <1>6 DEF ScopesInv, ScopesPlaced
  <2>2. symbols' \subseteq Symbols
    BY <1>3, <1>4, <1>5 DEF ScopesInv, ScopesPlaced
  <2>3. \A sym \in symbols' :
          /\ sym.scope \in ScopeIdsInUse'
          /\ sym.is \in {"func", "type"} => sym.scope = GlobalScope /\ sym.name \in FunctionNames \cup TypeNames
    <3> SUFFICES ASSUME NEW sym \in symbols'
                 PROVE  /\ sym.scope \in ScopeIdsInUse \cup {name}
                        /\ sym.is \in {"func", "type"} =>
                             sym.scope = GlobalScope /\ sym.name \in FunctionNames \cup TypeNames
      BY <1>7
    <3>1. CASE sym \in symbols
      BY <3>1 DEF ScopesInv, ScopesPlaced
    <3>2. CASE sym = own
      BY <1>3, <3>2, InUseAreScopes DEF ScopesInv
    <3>3. ASSUME NEW x \in added, sym = member(x)
          PROVE  sym.scope = name /\ sym.is \notin {"func", "type"}
      BY <1>4, <3>3
    <3> QED
      BY <1>5, <3>1, <3>2, <3>3
  <2>4. m_ScopeStack' # <<>> => \E scope \in ScopeIdsInUse' : m_ScopeStack' = <<scope>>
    BY <1>1, <1>7 DEF ScopesInv, ScopesPlaced
  <2>5. bodiesLeft' \subseteq ScopeIdsInUse'
    BY <1>1, <1>7 DEF ScopesInv, ScopesPlaced
  <2> QED
    BY <2>1, <2>2, <2>3, <2>4, <2>5 DEF ScopesPlaced
<1>10. ScopesMatch'
  <2> SUFFICES ASSUME NEW s \in ScopeIdsInUse \cup {name}, NEW x \in SymbolNames
               PROVE  Declared(s, x)' = Holds(s, x)'
    BY <1>7 DEF ScopesMatch
  <2>1. s \in ScopeIds /\ <<s, x>> \in DOMAIN entries
    BY <1>2, <1>6, InUseAreScopes DEF ScopesInv
  <2>2. Declared(s, x) = Holds(s, x)
    <3>1. CASE s \in ScopeIdsInUse
      BY <3>1 DEF ScopesInv, ScopesMatch
    <3>2. CASE s = name
      <4>1. entries[<<s, x>>] = NULL
        BY <1>2, <1>8, <3>2 DEF ScopesInv, UnmadeEmpty
      <4>2. Declared(s, x) = {}
        BY <1>8, <3>2 DEF ScopesInv, ScopesPlaced, Declared
      <4> QED
        BY <4>1, <4>2 DEF Holds
    <3> QED
      BY <3>1, <3>2
  <2>3. entries'[<<s, x>>] = IF s = GlobalScope /\ x = name THEN own
                            ELSE IF s = name /\ x \in added THEN member(x) ELSE entries[<<s, x>>]
    BY <1>5, <2>1
  <2>4. CASE s = GlobalScope /\ x = name
    <3>1. Declared(s, x) = {}
      BY <2>2, <2>4 DEF Holds, ScopeAdds
    <3>2. Declared(s, x)' = {own}
      BY <1>2, <1>3, <1>4, <1>5, <2>4, <3>1 DEF Declared
    <3> QED
      BY <1>3, <2>3, <2>4, <3>2 DEF Holds
  <2>5. CASE s = name /\ x \in added
    <3>1. Declared(s, x) = {}
      BY <1>8, <2>5 DEF ScopesInv, ScopesPlaced, Declared
    <3>2. Declared(s, x)' = {member(x)}
      BY <1>2, <1>3, <1>4, <1>5, <2>5, <3>1 DEF Declared
    <3> QED
      BY <1>2, <1>4, <2>3, <2>5, <3>2 DEF Holds
  <2>6. CASE ~(s = GlobalScope /\ x = name) /\ ~(s = name /\ x \in added)
    <3>1. Declared(s, x)' = Declared(s, x)
      BY <1>3, <1>4, <1>5, <2>6 DEF Declared
    <3>2. entries'[<<s, x>>] = entries[<<s, x>>]
      BY <2>3, <2>6
    <3> QED
      BY <2>2, <3>1, <3>2 DEF Holds
  <2> QED
    BY <2>4, <2>5, <2>6
<1>11. UnmadeEmpty'
  <2> SUFFICES ASSUME NEW s \in ScopeIds \ (ScopeIdsInUse \cup {name}), NEW x \in SymbolNames, s \notin earlier
               PROVE  entries'[<<s, x>>] = NULL
    BY <1>7 DEF UnmadeEmpty
  <2>1. s # name /\ s # GlobalScope /\ entries[<<s, x>>] = NULL
    BY InUseAreScopes DEF ScopesInv, UnmadeEmpty
  <2> QED
    BY <1>5, <1>6, <2>1
<1> QED
  BY <1>9, <1>10, <1>11 DEF ScopesInv

\* What changes neither the dictionary nor what was declared.
LEMMA SameInv ==
  ASSUME ScopesInv, UNCHANGED <<entries, symbols, earlier>>,
         m_ScopeStack' # <<>> => \E scope \in ScopeIdsInUse : m_ScopeStack' = <<scope>>,
         bodiesLeft' \subseteq bodiesLeft
  PROVE  ScopesInv'
<1>1. ScopeIdsInUse' = ScopeIdsInUse
  BY DEF ScopeIdsInUse
<1>2. ScopesPlaced'
  BY <1>1 DEF ScopesInv, ScopesPlaced
<1>3. ScopesMatch' /\ UnmadeEmpty'
  BY <1>1 DEF ScopesInv, ScopesMatch, UnmadeEmpty, Declared, Holds
<1> QED
  BY <1>2, <1>3 DEF ScopesInv

LEMMA FailInv ==
  ASSUME ScopesInv, Fail, UNCHANGED earlier
  PROVE  ScopesInv'
BY SameInv DEF Fail, SourceFails

\* The next source: of the scopes, only the global one is emptied.
LEMMA SetParserInv ==
  ASSUME ScopesInv, SetParser
  PROVE  ScopesInv'
<1>1. /\ entries' = [key \in DOMAIN entries |-> IF key[1] = GlobalScope THEN NULL ELSE entries[key]]
      /\ m_ScopeStack' = <<>> /\ symbols' = {} /\ bodiesLeft' = {}
      /\ \A scope \in ScopeIdsInUse \cup earlier : scope = GlobalScope \/ scope \in earlier'
  BY DEF SetParser, ScopeIdsInUse
<1>2. ScopeIdsInUse' = {GlobalScope}
  BY <1>1 DEF ScopeIdsInUse
<1>3. DOMAIN entries = ScopeIds \X SymbolNames
  BY DEF ScopesInv, ScopesPlaced
<1>4. ScopesPlaced'
  BY <1>1, <1>2, <1>3 DEF ScopesInv, ScopesPlaced
<1>5. ScopesMatch'
  <2> SUFFICES ASSUME NEW x \in SymbolNames PROVE Declared(GlobalScope, x)' = Holds(GlobalScope, x)'
    BY <1>2 DEF ScopesMatch
  <2>1. <<GlobalScope, x>> \in DOMAIN entries
    BY <1>3 DEF ScopeIds
  <2> QED
    BY <1>1, <2>1 DEF Declared, Holds
<1>6. UnmadeEmpty'
  <2> SUFFICES ASSUME NEW s \in ScopeIds \ {GlobalScope}, NEW x \in SymbolNames, s \notin earlier'
               PROVE  entries'[<<s, x>>] = NULL
    BY <1>2 DEF UnmadeEmpty
  <2>1. s \notin ScopeIdsInUse /\ s \notin earlier
    BY <1>1
  <2>2. entries[<<s, x>>] = NULL /\ <<s, x>> \in DOMAIN entries
    BY <1>3, <2>1 DEF ScopesInv, UnmadeEmpty
  <2> QED
    BY <1>1, <2>2
<1> QED
  BY <1>4, <1>5, <1>6 DEF ScopesInv

LEMMA DeclaringInv ==
  ASSUME NamesReused = FALSE, ScopesInv, Declaring, UNCHANGED earlier
  PROVE  ScopesInv'
<1>0. CurrentScope \in ScopeIdsInUse
  BY CurrentInUse DEF ScopesInv
<1>1. ASSUME NEW name \in VarNames, NEW is \in {"label", "var"}, FindSymbol(entries, CurrentScope, name) = NULL,
             Declare(CurrentScope, name, is), UNCHANGED <<m_ScopeStack, bodiesLeft>>
      PROVE  ScopesInv'
  <2>1. name \in SymbolNames
    BY DEF SymbolNames
  <2>2. entries[<<CurrentScope, name>>] = NULL
    BY <1>1, NotFound
  <2> QED
    BY <1>0, <1>1, <2>1, <2>2, DeclareInv
<1>2. ASSUME NEW name \in VarNames, ParseLabel(name) \/ DeclareVariable(name) PROVE ScopesInv'
  BY <1>1, <1>2, FailInv DEF ParseLabel, DeclareVariable, ProgramAdds
<1>s. ASSUME UNCHANGED <<entries, m_ScopeStack, symbols, bodiesLeft>> PROVE ScopesInv'
  BY <1>s, SameInv DEF ScopesInv, ScopesPlaced
<1>3. ASSUME NEW name \in VarNames, SemantFor(name) PROVE ScopesInv'
  BY <1>1, <1>s, <1>3, FailInv DEF SemantFor
<1>4. ASSUME NEW name \in VarNames, SemantGoto(name) PROVE ScopesInv'
  BY <1>s, <1>4, FailInv DEF SemantGoto
<1>5. ASSUME NEW func \in FunctionNames, NEW names \in MemberLists, PreSemantFunction(func, names) PROVE ScopesInv'
  <2>1. func \notin earlier
    BY <1>5 DEF PreSemantFunction, MayDeclare
  <2> QED
    BY <1>5, <2>1, DeclareWithInv, FailInv DEF PreSemantFunction
<1>6. ASSUME NEW type \in TypeNames, NEW names \in MemberLists, SemantType(type, names) PROVE ScopesInv'
  <2>1. type \notin earlier
    BY <1>6 DEF SemantType, MayDeclare
  <2> QED
    BY <1>6, <2>1, DeclareWithInv, FailInv DEF SemantType
<1>7. CASE PushScope
  <2>1. PICK func \in bodiesLeft : m_ScopeStack' = Append(m_ScopeStack, func) /\ bodiesLeft' = bodiesLeft \ {func}
    BY <1>7 DEF PushScope
  <2>2. func \in ScopeIdsInUse /\ m_ScopeStack' = <<func>>
    BY <1>7, <2>1 DEF PushScope, ScopesInv, ScopesPlaced
  <2> QED
    BY <1>7, <2>1, <2>2, SameInv DEF PushScope
<1>8. CASE PopScope
  <2>1. PICK scope : m_ScopeStack = <<scope>>
    BY <1>8 DEF PopScope, ScopesInv, ScopesPlaced
  <2>2. m_ScopeStack' = <<>>
    BY <1>8, <2>1 DEF PopScope
  <2> QED
    BY <1>8, <2>2, SameInv DEF PopScope
<1>9. CASE NextPass
  BY <1>s, <1>9 DEF NextPass
<1> QED
  BY <1>2, <1>3, <1>4, <1>5, <1>6, <1>7, <1>8, <1>9 DEF Declaring

\* A name looked up in a scope is the symbol that the source being compiled has
\* declared in it or around it, whatever sources came before and how they ended.
THEOREM ResolvesNames ==
  ASSUME NamesReused = FALSE
  PROVE  ScopesSpec => []NamesResolved
<1>1. ScopesInit => ScopesInv
  BY ScopesInitInv
<1>2. ScopesInv /\ [ScopesNext]_scopeVars => ScopesInv'
  <2> SUFFICES ASSUME ScopesInv, [ScopesNext]_scopeVars PROVE ScopesInv'
    OBVIOUS
  <2>1. CASE UNCHANGED scopeVars
    BY <2>1, SameInv DEF scopeVars, ScopesInv, ScopesPlaced
  <2> QED
    BY <2>1, SetParserInv, DeclaringInv DEF ScopesNext
<1>3. ScopesInv => NamesResolved
  <2> SUFFICES ASSUME ScopesInv, NEW scope \in ScopeIdsInUse, NEW name \in SymbolNames
               PROVE  IF FindSymbol(entries, scope, name) = NULL THEN Means(scope, name) = {}
                      ELSE Means(scope, name) = {FindSymbol(entries, scope, name)}
    BY DEF NamesResolved
  <2>1. Declared(scope, name) = Holds(scope, name)
    BY DEF ScopesInv, ScopesMatch
  <2>2. CASE entries[<<scope, name>>] # NULL
    BY <2>1, <2>2 DEF Holds, FindSymbol, Means
  <2>3. CASE entries[<<scope, name>>] = NULL /\ Parent(scope) = NULL
    BY <2>1, <2>3 DEF Holds, FindSymbol, Means
  <2>4. CASE entries[<<scope, name>>] = NULL /\ Parent(scope) # NULL
    <3>1. Parent(scope) \in ScopeIdsInUse
      BY <2>4, InUseAreScopes DEF ScopesInv, Parent
    <3>2. Declared(Parent(scope), name) = Holds(Parent(scope), name)
      BY <3>1 DEF ScopesInv, ScopesMatch
    <3> QED
      BY <2>1, <2>4, <3>2 DEF Holds, FindSymbol, Means
  <2> QED
    BY <2>2, <2>3, <2>4
<1> QED
  BY <1>1, <1>2, <1>3, PTL DEF ScopesSpec
=============================================================================
