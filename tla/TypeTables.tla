----------------------------- MODULE TypeTables ------------------------------
(***************************************************************************)
(* The types that a program declares, the code of their layout, and the    *)
(* table of them that the runtime is given (UDTParser.cpp, Node.cpp,       *)
(* CodeGen_Types.cpp); and what the compiler tells the runtime of the      *)
(* other types: the items of an array, where they are, and the functions   *)
(* that it calls (StmtParser.cpp, ExprParser.cpp, CodeGen_Main.cpp).       *)
(* Pointers have 8 bytes.                                                  *)
(***************************************************************************)
EXTENDS BuiltinTypes, FiniteSetsExt

CONSTANTS
  FieldTypes,   \* built-in types that fields are of
  MaxTypes,     \* bound: how many types a program declares
  MaxFields     \* bound: how many fields a type has

VARIABLES
  userTypes,    \* the types declared, in order
  generated,    \* how many of them have code
  stage,        \* "declaring", and then "refused" or "emitted"
  table         \* what EmitReflectionData emits

tableVars == <<userTypes, generated, stage, table>>

PointerSize == 8
IsTrivial(t) == t \notin Containers \cup {"StringObject"}
RoundUp(n, align) == n + ((align - (n % align)) % align)

-----------------------------------------------------------------------------
(* User-defined types.  A field is of a built-in type, or of the user type  *)
(* with the number `of`, which may be the one that is being declared.       *)
Field(t) == [type |-> t, of |-> 0]
UserField(i) == [type |-> "UserDefined", of |-> i]

TablesInit ==
  /\ userTypes = <<>> /\ generated = 0 /\ stage = "declaring"
  /\ table = [count |-> 0, data |-> <<>>, entries |-> <<>>]

NewType == [members |-> <<>>, offsets |-> <<>>, cBytes |-> 0, uAlignment |-> PointerSize, trivial |-> TRUE]

\* CUDTField::Semant.  A type that contains itself contains what there is of it so far.
\* The four flags are cleared together.
WithField(info, types, field) ==
  LET custom == IF field.of > Len(types) THEN info ELSE types[field.of]
      builtin == field.of = 0
      offset == RoundUp(info.cBytes, IF builtin THEN PointerSize ELSE custom.uAlignment)
  IN [info EXCEPT !.members = Append(@, field),
        !.offsets = Append(@, offset),
        !.cBytes = offset + (IF builtin THEN TypeSize(field.type) ELSE custom.cBytes),
        !.trivial = @ /\ (IF builtin THEN IsTrivial(field.type) ELSE custom.trivial)]

DeclareType(fields) ==
  /\ stage = "declaring" /\ generated = 0 /\ Len(userTypes) < MaxTypes
  /\ userTypes' = Append(userTypes, FoldLeft(LAMBDA info, f : WithField(info, userTypes, f), NewType, fields))
  /\ UNCHANGED <<generated, stage, table>>

\* CUserDefinedType::CodeGen, in order: a type that contains itself has no LLVM type yet.
CodeGenType ==
  /\ stage = "declaring" /\ generated < Len(userTypes)
  /\ IF \E i \in DOMAIN userTypes[generated + 1].members : userTypes[generated + 1].members[i].of > generated
     THEN stage' = "refused" /\ UNCHANGED generated
     ELSE generated' = generated + 1 /\ UNCHANGED stage
  /\ UNCHANGED <<userTypes, table>>

\* GetTypePattern of the members of each type.
UserPatterns ==
  FoldLeft(LAMBDA patterns, info :
             Append(patterns,
               FoldLeft(LAMBDA p, m :
                          p \o IF m.of = 0 THEN TypeCode[m.type] ELSE "X(" \o patterns[m.of] \o ")",
                        "", info.members)),
           <<>>, userTypes)

\* A name's end is counted with it, and one more is written.
TypeName(i) == <<"T", "TT", "TTT">>[i]
NUL == ""
Chars(s) == [i \in 1 .. Len(s) |-> SubSeq(s, i, i)]
Described == SelectSeq([i \in DOMAIN userTypes |-> i], LAMBDA i : userTypes[i].members # <<>>)
Texts(patterns) ==
  FoldLeft(LAMBDA t, i :
             LET named == t.data \o Chars(TypeName(i)) \o <<NUL, NUL>>
             IN [offsets |-> t.offsets \o <<Len(t.data), Len(named)>>,
                 data |-> named \o Chars(patterns[i]) \o <<NUL, NUL>>],
           [offsets |-> <<>>, data |-> <<>>], Described)

\* Of the four functions of a type that is trivial there is none.
Entry(i, offsets, n) ==
  [flags |-> IF userTypes[i].trivial THEN 15 ELSE 0, cBytes |-> userTypes[i].cBytes,
   pszName |-> offsets[2 * n - 1], pszPattern |-> offsets[2 * n],
   functions |-> IF userTypes[i].trivial THEN {} ELSE {"Init", "Fini", "Copy", "Move"}]

EmitReflectionData ==
  /\ stage = "declaring" /\ generated = Len(userTypes)
  /\ stage' = "emitted"
  /\ \E texts \in {Texts(UserPatterns)} :
       table' = [count |-> Len(userTypes), data |-> texts.data,
                 entries |-> [n \in DOMAIN Described |-> Entry(Described[n], texts.offsets, n)]]
  /\ UNCHANGED <<userTypes, generated>>

Fields == {Field(t) : t \in FieldTypes} \cup {UserField(i) : i \in 1 .. Len(userTypes) + 1}
TablesNext ==
  \/ \E n \in 0 .. MaxFields : \E fields \in [1 .. n -> Fields] : DeclareType(fields)
  \/ CodeGenType
  \/ EmitReflectionData

-----------------------------------------------------------------------------
(* LLVM's layout: what the code that is generated uses.                     *)
\* MCodeGen::GetBuiltinType makes a vector of four doubles one of four floats.
LLVMSize(t) == IF t = "SIMDVector256_4Float64" THEN 16 ELSE TypeSize(t)
LLVMAlign(t) ==
  IF t \in SIMDTypes THEN LLVMSize(t)
  ELSE IF t \in DOMAIN Shape THEN 4 ELSE IF TypeSize(t) > 8 THEN 8 ELSE TypeSize(t)

\* Of each type: the alignment, the ends of its fields and its size.
Laid(types) ==
  FoldLeft(LAMBDA laid, info :
    Append(laid,
      LET size(m) == IF m.of = 0 THEN LLVMSize(m.type) ELSE laid[m.of].size
          align(m) == IF m.of = 0 THEN LLVMAlign(m.type) ELSE laid[m.of].align
          struct == FoldLeft(LAMBDA s, m :
                      LET start == RoundUp(s.end, align(m))
                      IN [end |-> start + size(m), starts |-> Append(s.starts, start),
                          align |-> IF align(m) > s.align THEN align(m) ELSE s.align],
                      [end |-> 0, starts |-> <<>>, align |-> 1], info.members)
      IN [starts |-> struct.starts, align |-> struct.align, size |-> RoundUp(struct.end, struct.align)]),
    <<>>, types)

\* A type with such a field, or of one, has a field that must be aligned to more than a pointer.
Wide(types) ==
  FoldLeft(LAMBDA wide, info :
             Append(wide, \E i \in DOMAIN info.members :
                            LET m == info.members[i] IN IF m.of = 0 THEN LLVMAlign(m.type) > PointerSize ELSE wide[m.of]),
           <<>>, types)

ReadText(data, offset) ==
  LET end == CHOOSE e \in offset + 1 .. Len(data) :
               data[e] = NUL /\ \A k \in offset + 1 .. e - 1 : data[k] # NUL
  IN SubSeq(data, offset + 1, end - 1)

(* The table has an entry for every type that has members, in the order of   *)
(* their declaration, whose texts are its name and its pattern, and which    *)
(* is trivial, and has no functions, only if nothing in it, however deep, is *)
(* a string or a container.  Its count is that of all types, so that the     *)
(* runtime is told of as many too many as have no members; and a type's      *)
(* number is where its entry is only if there are none before it.            *)
TableDescribes ==
  stage = "emitted" =>
    \E patterns \in {UserPatterns} :
      /\ Len(table.entries) <= table.count
      /\ (\A i \in DOMAIN userTypes : userTypes[i].members # <<>>) => Len(table.entries) = table.count
      /\ \A n \in DOMAIN table.entries :
           /\ n \in DOMAIN Described
           /\ ReadText(table.data, table.entries[n].pszName) = Chars(TypeName(Described[n]))
           /\ ReadText(table.data, table.entries[n].pszPattern) = Chars(patterns[Described[n]])
           /\ table.entries[n].functions = {} <=>
                \A k \in 1 .. Len(patterns[Described[n]]) : SubSeq(patterns[Described[n]], k, k) \notin {"G", "H", "K", "M"}
           /\ table.entries[n].flags = 15 <=> table.entries[n].functions = {}

(* The code never reaches past the bytes that the table gives a type, up to  *)
(* a multiple of a pointer's, and no field is further in than is reckoned,   *)
(* unless a field of it is aligned to more than a pointer; fields do not     *)
(* overlap; and a type that contains itself gets no code.                    *)
LayoutsHold ==
  IF generated = 0 THEN stage = "refused" => UserField(1) \in ToSet(userTypes[1].members)
  ELSE \E types \in {SubSeq(userTypes, 1, generated)} : \E laid \in {Laid(types)}, wide \in {Wide(types)} :
    \A i \in DOMAIN types :
      LET last == Len(types[i].members) IN
      /\ \A m \in ToSet(types[i].members) : m.of < i
      /\ \A k \in 1 .. last - 1 : laid[i].starts[k] < laid[i].starts[k + 1] \/ types[i].members[k].of # 0
      /\ ~wide[i] =>
           /\ \A k \in 1 .. last : laid[i].starts[k] <= types[i].offsets[k]
           /\ laid[i].size <= RoundUp(types[i].cBytes, PointerSize)

-----------------------------------------------------------------------------
(* References to types, as sequences: the types of arrays from the outside  *)
(* in, and what the last is of.                                             *)
Refused == <<"refused">>

\* CTypeDecl::Semant, on a chain of "name", "array" and "const": what comes after a name
\* is put before it, and what has no name yet is named after the variable.
SemantChain(chain, inferred) ==
  LET step(layers, part) ==
        CASE layers = Refused -> Refused
          [] layers # Refused /\ part = "name" ->
               IF layers = <<>> THEN <<"T">>
               ELSE IF Last(layers) = "ArrayObject" THEN Append(layers, "T") ELSE Refused
          [] layers # Refused /\ part = "array" ->
               IF layers = <<>> THEN <<"ArrayObject">> ELSE Front(layers) \o <<"ArrayObject", Last(layers)>>
          [] layers # Refused /\ part = "const" -> layers
          [] OTHER -> Refused
      layers == FoldLeft(step, <<>>, chain)
  IN IF layers = Refused THEN Refused
     ELSE IF layers = <<>> \/ Last(layers) = "ArrayObject" THEN Append(layers, inferred) ELSE layers

\* STypeRef::Semant, of a name without a type.
TypeOfName(last) == CASE last = "$" -> "StringObject" [] last = "#" -> "Float32" [] OTHER -> "Int64"

\* CVarDeclStmt::Semant: a default value gives its type where none is named, dimensions
\* make an array of it.
DeclaredType(chain, valueType, dims, last) ==
  LET base == IF chain = <<>>
              THEN IF valueType # <<>> THEN valueType ELSE <<TypeOfName(last)>>
              ELSE SemantChain(chain, TypeOfName(last))
  IN IF base = Refused \/ dims > 9 THEN Refused
     ELSE IF dims >= 0 THEN <<"ArrayObject">> \o base ELSE base

\* STypeRef::CodeGen: how deep a pointer to the last layer's type it is.
PointerDepth(layers) == Len(layers) - 1

(* A type has as many dimensions, one in another, as its chain has brackets, *)
(* wherever they are; only a chain with two names, or with what is no type,  *)
(* is refused.                                                               *)
ChainsAgree(chain) ==
  LET arrays == Cardinality({i \in DOMAIN chain : chain[i] = "array"})
      names == Cardinality({i \in DOMAIN chain : chain[i] = "name"})
      layers == SemantChain(chain, "Int64")
  IN /\ layers = Refused <=> "pointer" \in ToSet(chain) \/ names > 1
     /\ layers # Refused =>
          /\ PointerDepth(layers) = arrays
          /\ \A i \in 1 .. arrays : layers[i] = "ArrayObject"
          /\ Last(layers) = IF names = 0 THEN "Int64" ELSE "T"
          /\ DeclaredType(chain, <<>>, 2, "") =
               <<"ArrayObject">> \o IF chain = <<>> THEN <<TypeOfName("")>> ELSE layers

-----------------------------------------------------------------------------
(* Arrays.                                                                  *)
GetBuiltinTypeId ==
  "Int8" :> 1 @@ "Int16" :> 2 @@ "Int32" :> 3 @@ "Int64" :> 4 @@ "Int128" :> 5
  @@ "UInt8" :> 7 @@ "UInt16" :> 8 @@ "UInt32" :> 9 @@ "UInt64" :> 10 @@ "UInt128" :> 11
  @@ "Float16" :> 13 @@ "Float32" :> 14 @@ "Float64" :> 15 @@ "Boolean" :> 16
  @@ "StringObject" :> 17 @@ "ArrayObject" :> 18 @@ "LinkedListObject" :> 19 @@ "BinaryTreeObject" :> 20

\* The runtime's teFixType, of such a number: all of them are said to be trivial.
NativeTy ==
  << <<1, "C">>, <<2, "N">>, <<4, "L">>, <<8, "R">>, <<16, "EI16">>, <<8, "IP">>,
     <<1, "Y">>, <<2, "W">>, <<4, "D">>, <<8, "Q">>, <<16, "EU16">>, <<8, "UP">>,
     <<2, "A">>, <<4, "F">>, <<8, "O">>, <<1, "B">>, <<8, "G">>, <<8, "H">>, <<8, "K">>, <<8, "M">> >>

\* The runtime and the code agree on where the items of an array are, and what they are.
ItemsAgree ==
  \A t \in DOMAIN GetBuiltinTypeId :
    /\ NativeTy[GetBuiltinTypeId[t]] = <<LLVMSize(t), TypeCode[t]>>
    /\ IsTrivial(t) <=> GetBuiltinTypeId[t] < 17

\* CVarDeclStmt::CodeGen: a declared limit is the last subscript.
Lengths(limits) == [i \in DOMAIN limits |-> limits[i] + 1]
CalculateItemCount(lengths) == IF lengths = <<>> THEN 0 ELSE FoldLeft(LAMBDA n, l : n * l, 1, lengths)

\* CArraySubscriptExpr::CodeGen, with teArrayDimensionLen of the dimension before.
ItemIndex(lengths, subscripts) ==
  FoldLeft(LAMBDA at, i :
             LET resolution == at.resolution * (IF i = 1 THEN 1 ELSE lengths[i - 1])
             IN [resolution |-> resolution, index |-> at.index + subscripts[i] * resolution],
           [resolution |-> 1, index |-> 0], [i \in DOMAIN subscripts |-> i]).index

\* Every item of an array has subscripts of its own.
SubscriptsAgree(limits) ==
  LET lengths == Lengths(limits)
      within == {s \in [DOMAIN limits -> 0 .. 2] : \A i \in DOMAIN limits : s[i] <= limits[i]}
  IN limits # <<>> => {ItemIndex(lengths, s) : s \in within} = 0 .. CalculateItemCount(lengths) - 1

-----------------------------------------------------------------------------
(* The functions of the runtime that the code calls: the codes of what they  *)
(* return and take, 0 for nothing, as MakeIntFunc is given them ...          *)
CastsTo(letters) == [f \in DOMAIN letters |-> <<"S", <<letters[f]>> >>]
InternalFunctions ==
  "teAutoprint" :> <<"0", <<"S">>>> @@ "teSafeSync" :> <<"B", <<>>>> @@ "teStrDup" :> <<"S", <<"S">>>>
  @@ [f \in {"teStrConcat", "teStrFindRm", "teStrCatDir"} |-> <<"S", <<"S", "S">>>>]
  @@ "teStrRepeat" :> <<"S", <<"S", "U">>>> @@ "teStrReclaim" :> <<"0", <<"S">>>>
  @@ "teStrEq" :> <<"B", <<"S", "S">>>> @@ "teStrCmp" :> <<"D", <<"S", "S">>>>
  @@ CastsTo("teCastInt8ToStr" :> "Y" @@ "teCastInt16ToStr" :> "W" @@ "teCastInt32ToStr" :> "D"
             @@ "teCastInt64ToStr" :> "Q" @@ "teCastInt128ToStr" :> "Z" @@ "teCastUInt8ToStr" :> "Y"
             @@ "teCastUInt16ToStr" :> "W" @@ "teCastUInt32ToStr" :> "D" @@ "teCastUInt64ToStr" :> "Q"
             @@ "teCastUInt128ToStr" :> "Z" @@ "teCastFloat16ToStr" :> "H" @@ "teCastFloat32ToStr" :> "F"
             @@ "teCastFloat64ToStr" :> "O" @@ "teCastUTF16PtrToStr" :> "T")
  @@ "teArrayDim" :> <<"P", <<"P", "U", "P">>>> @@ "teArrayRedim" :> <<"P", <<"P", "P", "U", "P">>>>
  @@ "teArrayUndim" :> <<"P", <<"P">>>> @@ "teArrayDimensionLen" :> <<"U", <<"P", "U">>>>
  @@ "teArrayCurrentIndex" :> <<"U", <<"P">>>>
CodeBits ==
  "0" :> 0 @@ "B" :> 1 @@ "Y" :> 8 @@ "W" :> 16 @@ "D" :> 32 @@ "Q" :> 64 @@ "Z" :> 128
  @@ "H" :> 16 @@ "F" :> 32 @@ "O" :> 64 @@ "S" :> 64 @@ "T" :> 64 @@ "U" :> 64 @@ "P" :> 64

(* ... and as the runtime defines them, in bits.                             *)
RuntimeFunctions ==
  "teAutoprint" :> <<0, <<64>>>> @@ "teSafeSync" :> <<32, <<>>>> @@ "teStrDup" :> <<64, <<64>>>>
  @@ [f \in {"teStrConcat", "teStrFindRm", "teStrCatDir", "teStrRepeat"} |-> <<64, <<64, 64>>>>]
  @@ "teStrReclaim" :> <<64, <<64>>>> @@ "teStrEq" :> <<32, <<64, 64>>>>
  @@ [f \in {"teCastInt8ToStr", "teCastUInt8ToStr"} |-> <<64, <<8>>>>]
  @@ [f \in {"teCastInt16ToStr", "teCastUInt16ToStr"} |-> <<64, <<16>>>>]
  @@ [f \in {"teCastInt32ToStr", "teCastUInt32ToStr", "teCastFloat32ToStr"} |-> <<64, <<32>>>>]
  @@ [f \in {"teCastInt64ToStr", "teCastUInt64ToStr", "teCastFloat64ToStr"} |-> <<64, <<64>>>>]
  @@ [f \in {"teCastInt128ToStr", "teCastUInt128ToStr"} |-> <<64, <<128>>>>]
  @@ "teArrayDim" :> <<64, <<64, 64, 64>>>> @@ "teArrayRedim" :> <<64, <<64, 64, 64, 64>>>>
  @@ "teArrayUndim" :> <<64, <<64>>>> @@ "teArrayDimensionLen" :> <<64, <<64, 64>>>>
  @@ "teArrayCurrentIndex" :> <<64, <<64>>>>

\* What is called is defined, and takes what it is given, and no more is read of what it
\* returns than it returns.  Three functions are not defined: strings cannot be ordered,
\* and no string is made of a half or of UTF-16.
CallsAgree ==
  /\ DOMAIN InternalFunctions \ DOMAIN RuntimeFunctions = {"teStrCmp", "teCastFloat16ToStr", "teCastUTF16PtrToStr"}
  /\ \A f \in DOMAIN RuntimeFunctions :
       /\ [i \in DOMAIN InternalFunctions[f][2] |-> CodeBits[InternalFunctions[f][2][i]]] = RuntimeFunctions[f][2]
       /\ CodeBits[InternalFunctions[f][1]] <= RuntimeFunctions[f][1]

-----------------------------------------------------------------------------
(* What a variable of a type holds first, as the bits of the constant: 0 for *)
(* none, when it is left as it was.                                          *)
Numbers == SignedInts \cup UnsignedInts \cup SNorms \cup UNorms \cup Scalars \cup {"Boolean"}
GetDefaultConstant(t) == IF t \in Numbers THEN Bits(t) ELSE IF t = "StringObject" THEN 64 ELSE 0
EmitDefaultInstance(t) ==
  CASE t \in {"Int128", "UInt128"} -> 16
    [] t \in Numbers \ {"Int128", "UInt128"} -> Bits(t)
    [] t \in {"ConstUTF8Pointer", "StringObject", "ArrayObject", "BinaryTreeObject"} -> 64
    [] OTHER -> 0

\* What EmitDestruct has called with the variable, at the end of its scope.
EmitDestruct(t) ==
  CASE t = "ArrayObject" -> "teArrayUndim" [] t = "StringObject" -> "teStrReclaim" [] OTHER -> "none"

\* What is made at all is as wide as the variable, but for the default of 128 bits, and
\* what is not trivial is ended, but for the containers that there are not yet.
DefaultsAgree ==
  \A t \in Numbers \cup Strings \cup Containers \cup DOMAIN Shape :
    /\ GetDefaultConstant(t) \in {0, IF IsPointer(t) THEN 64 ELSE Bits(t)}
    /\ t \notin {"Int128", "UInt128"} /\ GetDefaultConstant(t) # 0 => EmitDefaultInstance(t) = GetDefaultConstant(t)
    /\ EmitDestruct(t) = "none" <=> IsTrivial(t) \/ t \in {"LinkedListObject", "BinaryTreeObject"}

TablesAgree ==
  /\ TableDescribes /\ LayoutsHold
  /\ userTypes = <<>> /\ stage = "declaring" =>
       /\ ItemsAgree /\ CallsAgree /\ DefaultsAgree
       /\ \A n \in 0 .. 4 : \A chain \in [1 .. n -> {"name", "array", "const", "pointer"}] : ChainsAgree(chain)
       /\ \A n \in 0 .. 3 : \A limits \in [1 .. n -> 0 .. 2] : SubscriptsAgree(limits)
=============================================================================
