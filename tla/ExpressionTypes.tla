---------------------------- MODULE ExpressionTypes ----------------------------
(***************************************************************************)
(* The types of expressions (ExprParser.cpp), and of the statements that   *)
(* give a value a place (StmtParser.cpp): what Semant accepts and the type *)
(* it gives, and what CodeGen emits for what was accepted, in the types of *)
(* LLVM, whose instructions are external.                                  *)
(***************************************************************************)
EXTENDS BuiltinTypes

\* A tree: a literal by its qualifier, a variable by its type, operators by their
\* EBuiltinOp, "subscript", and a call, by the types of the parameters, of a
\* function that returns the first of them; a member, by the axes of its name.  And an
\* assignment, by its EBuiltinOp, a declaration, by the type declared, and a return,
\* by the type that the function returns.
Tree(kind, is, kids) == [kind |-> kind, is |-> is, kids |-> kids]

RelOps == {"RelAnd", "RelOr", "RelXor"}
CmpOps == {"CmpEq", "CmpNe", "CmpLt", "CmpLe", "CmpGt", "CmpGe"}
ArithOps == {"Add", "Sub", "Mul", "Div", "Mod"}
BitOps == {"BitAnd", "BitOr", "BitXor", "BitSL", "BitSR"}
BinaryOpNames == RelOps \cup CmpOps \cup ArithOps \cup BitOps \cup {"BitRL", "BitRR", "Pow"}
UnaryOpNames == {"Neg", "Deref", "Addr", "RelNot", "BitNot"}

-----------------------------------------------------------------------------
(* Semant: a type, or "Invalid" after an error.                             *)

\* CLiteralExpr.  kBiggest32 is the largest of all, so no literal exceeds it: the
\* value of an unqualified one does not matter.
LiteralType ==
  "Real" :> "Float32" @@ "Real Long" :> "Float64" @@ "Unqualified" :> "Int32"
  @@ "Unsigned" :> "UInt32" @@ "Long" :> "Int32" @@ "LongLong" :> "Int64"
  @@ "UnsignedLongLong" :> "UInt64" @@ "String" :> "ConstUTF8Pointer"

\* What CBinaryExpr::Semant makes of an operator on strings, the second of which
\* may be a number.
StringOp ==
  "Add" :> "StrConcat" @@ "Sub" :> "StrRemove" @@ "Mul" :> "StrRepeat" @@ "Div" :> "StrAddPath"

\* The facts that Semant leaves to CodeGen.
OperandCasts(op, l, r, promotion, result, rhsTo) ==
  LET refused == \/ "UserDefined" \in {l, r} \/ promotion = "Invalid"
                 \/ IsString(result) /\ op \notin DOMAIN StringOp
      facts(lhsCast, rhsCast) ==
        [op |-> IF IsString(result) /\ op \in DOMAIN StringOp THEN StringOp[op] ELSE op,
         promotion |-> promotion, lhsCast |-> lhsCast, rhsCast |-> rhsCast,
         result |-> IF refused \/ InvalidCast \in {lhsCast, rhsCast} THEN "Invalid" ELSE result]
  IN facts(GetCastForTypes(l, promotion, "Input"), GetCastForTypes(r, rhsTo, "Input"))
Promoted(op, l, r, promotion, result) ==
  LET toCount == op = "Mul" \/ (op = "Sub" /\ IsIntNumber(r))
  IN OperandCasts(op, l, r, promotion, result,
                  IF IsString(result) /\ toCount THEN UIntPtrType ELSE promotion)
PromotedTo(op, l, r, promotion) ==
  Promoted(op, l, r, promotion, IF op \in CmpOps THEN "Boolean" ELSE promotion)
BinaryFacts(op, l, r) ==
  PromotedTo(op, l, r, IF op \in RelOps THEN "Boolean" ELSE FindTypePromotion(l, r))

\* STypeRef::Cast for a parameter of a type, which is read only.
ArgumentCast(from, to) == GetCastForTypes(from, to, "Input")

\* SFunctionInfo::FindMatch: of the overloads with as many parameters, the first of
\* those that need the fewest casts; none is an empty one.
Castable(params, args) ==
  Len(params) = Len(args) /\ \A i \in DOMAIN args : ArgumentCast(args[i], params[i]) # InvalidCast
CastCount(params, args) ==
  Cardinality({i \in DOMAIN args : ArgumentCast(args[i], params[i]) # NoCast})
FirstOfFewest(candidates, args) ==
  LET best(params) == \A q \in ToSet(candidates) : CastCount(params, args) <= CastCount(q, args)
  IN IF candidates = <<>> THEN <<>> ELSE SelectSeq(candidates, best)[1]
FindMatch(overloads, args) ==
  FirstOfFewest(SelectSeq(overloads, LAMBDA params : Castable(params, args)), args)

UnarySemant(op, t) ==
  CASE op = "Neg" -> IF IsNumber(t) THEN t ELSE "Invalid"
    [] op = "Deref" -> IF IsIntNumber(t) THEN "Any" ELSE "Invalid"
    [] op = "Addr" -> UIntPtrType
    [] op = "RelNot" ->
         IF GetCastForTypes(t, "Boolean", "Explicit") = InvalidCast THEN "Invalid" ELSE "Boolean"
    [] OTHER -> "Invalid"

\* CMemberExpr::Semant of a vector, whose axes are 0 for x to 3 for w: an axis may be
\* one that the vector has not.
GetVectorSwizzleType(component, axes) ==
  CASE axes <= 1 -> component
    [] axes \in 2 .. 4 /\ component = "Float32" -> <<"Vector2f", "Vector3f", "Vector4f">>[axes - 1]
    [] OTHER -> "Invalid"
Axis(axes, i) == IF i \in DOMAIN axes THEN axes[i] ELSE 0
MakeSwizzleMask(axes) == Axis(axes, 1) * 64 + Axis(axes, 2) * 16 + Axis(axes, 3) * 4 + Axis(axes, 4)
SwizzleIsLValue(mask, count, columns) ==
  LET v == <<(mask \div 64) % 4, (mask \div 16) % 4, (mask \div 4) % 4, mask % 4>>
  IN count <= columns
     /\ \A i \in 1 .. count : v[i] < columns /\ \A j \in i + 1 .. count : v[i] # v[j]
MemberSemant(axes, t) ==
  IF Columns(t) = 0 THEN "Invalid" ELSE GetVectorSwizzleType(ComponentType(t), Len(axes))

\* CExpression::IsLValue, by the access of the type that Semant gives.
IsLValue(e, types) ==
  CASE e.kind \in {"variable", "subscript"} -> TRUE
    [] e.kind = "member" -> SwizzleIsLValue(MakeSwizzleMask(e.is), Len(e.is), Columns(types[1]))
    [] OTHER -> FALSE

\* STypeRef::Cast to what may be written.
StoreCast(from, to) == GetCastForTypes(from, to, "Output")
StoreSemant(from, to) == IF StoreCast(from, to) = InvalidCast THEN "Invalid" ELSE to

CallType(params) == IF params = <<>> THEN "Invalid" ELSE params[1]
SemantOf(e, kids) ==
  IF "Invalid" \in ToSet(kids) THEN "Invalid"
  ELSE CASE e.kind = "literal" -> LiteralType[e.is]
         [] e.kind = "variable" -> e.is
         [] e.kind = "unary" -> UnarySemant(e.is, kids[1])
         [] e.kind = "binary" -> BinaryFacts(e.is, kids[1], kids[2]).result
         [] e.kind = "member" -> MemberSemant(e.is, kids[1])
         \* CVarAssignStmt, CVarDeclStmt, CReturnStmt.
         [] e.kind = "assign" ->
              IF IsLValue(e.kids[1], <<kids[1]>>) THEN StoreSemant(kids[2], kids[1]) ELSE "Invalid"
         [] e.kind \in {"declare", "return"} -> StoreSemant(kids[1], e.is)
         \* CArraySubscriptExpr, of an array of Int32.
         [] e.kind = "subscript" ->
              IF kids[1] = "ArrayObject" /\ \A i \in 2 .. Len(kids) : IsIntNumber(kids[i])
              THEN "Int32" ELSE "Invalid"
         \* CFuncCallExpr.
         [] e.kind = "call" ->
              CallType(FindMatch(e.is, kids))

RECURSIVE Semant(_)
Semant(e) == SemantOf(e, [i \in DOMAIN e.kids |-> Semant(e.kids[i])])
TypesOf(e) == [i \in DOMAIN e.kids |-> Semant(e.kids[i])]

-----------------------------------------------------------------------------
(* CodeGen: the LLVM type of what is emitted; Bad where an instruction gets *)
(* operands that it does not take or an assertion of the code fails, and    *)
(* Refused after an error.                                                  *)
LLVM(is, bits, count) == [is |-> is, bits |-> bits, count |-> count]
Bad == LLVM("bad", 0, 0)
Refused == LLVM("refused", 0, 0)
IntTy(bits) == LLVM("int", bits, 1)
PtrTy == LLVM("pointer", 8, 1)

\* MCodeGen::GetBuiltinType.
GetBuiltinType(t) ==
  CASE t \in {"ConstUTF8Pointer", "StringObject"} -> PtrTy
    [] t = "ConstUTF16Pointer" -> LLVM("pointer", 16, 1)
    [] t \in Scalars -> LLVM("float", Bits(t), 1)
    [] t = "SIMDVector256_4Float64" -> LLVM("float", 32, 4)
    [] t \in (SIMDTypes \cap DOMAIN Shape) \ {"SIMDVector256_4Float64"} ->
         LLVM(IF IsFloat(t) THEN "float" ELSE "int", Bits(ComponentType(t)), Rows(t))
    [] t \in DOMAIN Shape \ SIMDTypes -> LLVM("array", 32, Rows(t) * Columns(t))
    [] t = "Boolean" \/ t \in SignedInts \cup UnsignedInts \cup SNorms \cup UNorms -> IntTy(Bits(t))
    [] t = "ArrayObject" -> LLVM("pointer", 32, 1)
    [] OTHER -> Bad

\* IRBuilder: an instruction on values of one class, of one type or of any width.
Same(is, a, b) == IF a = b /\ a.is = is THEN a ELSE Bad
Resized(is, v, to, wider) ==
  IF v.is = is /\ to.is = is /\ v.count = to.count
       /\ (IF wider THEN v.bits <= to.bits ELSE v.bits >= to.bits)
  THEN to ELSE Bad
Turned(is, v, becomes, to) == IF v.is = is /\ to.is = becomes /\ v.count = to.count THEN to ELSE Bad
Compared(v) == IF v.is \in {"int", "float", "pointer"} THEN LLVM("int", 1, v.count) ELSE Bad
Called(args, params, result) == IF args = params THEN result ELSE Bad

\* MCodeGen::EmitCast.
EmitCast(cast, dst, v) ==
  LET to == GetBuiltinType(dst)
  IN CASE Bad \in {v, to} \/ cast.op = "Invalid" -> Bad
       [] OTHER ->
          CASE cast.op = "None" -> v
            [] cast.op \in {"SignExtend", "ZeroExtend"} -> Resized("int", v, to, TRUE)
            [] cast.op \in {"SignTrunc", "ZeroTrunc"} -> Resized("int", v, to, FALSE)
            [] cast.op = "RealExtend" -> Resized("float", v, to, TRUE)
            [] cast.op = "RealTrunc" -> Resized("float", v, to, FALSE)
            [] cast.op \in {"SignedIntToFloat", "UnsignedIntToFloat"} -> Turned("int", v, "float", to)
            [] cast.op \in {"FloatToSignedInt", "FloatToUnsignedInt"} -> Turned("float", v, "int", to)
            [] cast.op = "IntToBool" -> IF v.is \in {"int", "pointer"} THEN Compared(v) ELSE Bad
            [] cast.op = "FloatToBool" -> IF v.is = "float" THEN Compared(v) ELSE Bad
            [] cast.op = "ToStr" ->
                 Called(IF cast.of = "Int8" /\ v = IntTy(1) THEN IntTy(8) ELSE v,
                        GetBuiltinType(cast.of), PtrTy)
            [] cast.op = "UTF8PtrToStr" -> Called(v, PtrTy, PtrTy)
            [] cast.op = "UTF16PtrToStr" -> Called(v, GetBuiltinType("ConstUTF16Pointer"), PtrTy)

\* The switch of CBinaryExpr::CodeGen, on operands of type t.
EmitOperator(op, t, lhs, rhs) ==
  LET class == IF IsIntNumber(t) THEN "int" ELSE "float"
      number == ~IsString(t) /\ IsNumber(t)
  IN CASE op \in ArithOps -> IF number THEN Same(class, lhs, rhs) ELSE Bad
       [] op \in BitOps -> Same("int", lhs, rhs)
       [] op \in {"StrConcat", "StrRemove", "StrAddPath"} -> Called(<<lhs, rhs>>, <<PtrTy, PtrTy>>, PtrTy)
       [] op = "StrRepeat" -> Called(<<lhs, rhs>>, <<PtrTy, IntTy(64)>>, PtrTy)
       [] op \in CmpOps ->
            IF IsString(t) THEN Called(<<lhs, rhs>>, <<PtrTy, PtrTy>>, IntTy(1))
            ELSE IF lhs = rhs /\ lhs.is = class THEN Compared(lhs) ELSE Bad
       [] op \in {"BitRL", "BitRR", "Pow"} -> Bad

OperatorCodeGen(op, f, lhs, rhs) ==
  IF Bad \in {lhs, rhs} THEN Bad
  \* The PHI of RelXor names a block that does not lead to it.
  ELSE IF op \in RelOps THEN IF op = "RelXor" THEN Bad ELSE Same("int", IntTy(1), rhs)
  ELSE EmitOperator(f.op, f.promotion, lhs, rhs)
BinaryCodeGenOf(op, f, lhsPre, rhsPre) ==
  OperatorCodeGen(op, f, EmitCast(f.lhsCast, f.promotion, lhsPre),
                  EmitCast(f.rhsCast, IF f.op = "StrRepeat" THEN UIntPtrType ELSE f.promotion, rhsPre))
BinaryCodeGen(op, l, r, lhsPre, rhsPre) == BinaryCodeGenOf(op, BinaryFacts(op, l, r), lhsPre, rhsPre)

UnaryCodeGen(op, e, t, v) ==
  CASE op = "Deref" -> Refused
    [] op = "Addr" -> IF e.kind \in {"variable", "subscript"} THEN IntTy(64) ELSE Refused
    [] op = "Neg" ->
         IF v.is = (IF IsIntNumber(t) THEN "int" ELSE "float") THEN v ELSE Bad
    [] op = "RelNot" -> EmitCast(GetCastForTypes(t, "Boolean", "Explicit"), "Boolean", v)

\* CArraySubscriptExpr::CodeGen: the indices after the first are multiplied with
\* dimensions, which are pointer-sized, and added to the first.
SubscriptCodeGen(indices) ==
  IF Len(indices) > 1 /\ \E i \in DOMAIN indices : indices[i] # IntTy(64) THEN Bad
  ELSE IF \A i \in DOMAIN indices : indices[i].is = "int" THEN IntTy(32) ELSE Bad

CallCodeGen(params, types, values) ==
  LET passed == [i \in DOMAIN values |->
                   EmitCast(ArgumentCast(types[i], params[i]), params[i], values[i])]
  IN Called(passed, [i \in DOMAIN values |-> GetBuiltinType(params[i])], GetBuiltinType(params[1]))

\* CVarAssignStmt::CodeGen and CReturnStmt::CodeGen, which cast the value; and that of
\* CVarDeclStmt, whose EmitStore does not.
StoreCodeGen(place, v) == IF v = place THEN place ELSE Bad
AssignCodeGen(op, types, values) ==
  IF op # "None" THEN Refused
  ELSE StoreCodeGen(values[1], EmitCast(StoreCast(types[2], types[1]), types[1], values[2]))
ReturnCodeGen(type, t, v) == StoreCodeGen(GetBuiltinType(type), EmitCast(StoreCast(t, type), type, v))
DeclareCodeGen(type, v) == StoreCodeGen(GetBuiltinType(type), v)

CodeGenOf(e, types, values) ==
  IF Refused \in ToSet(values) THEN Refused
  ELSE IF Bad \in ToSet(values) THEN Bad
  ELSE CASE e.kind = "literal" -> GetBuiltinType(LiteralType[e.is])
         [] e.kind = "variable" -> GetBuiltinType(e.is)
         [] e.kind = "unary" -> UnaryCodeGen(e.is, e.kids[1], types[1], values[1])
         [] e.kind = "binary" -> BinaryCodeGen(e.is, types[1], types[2], values[1], values[2])
         [] e.kind = "subscript" -> SubscriptCodeGen(Tail(values))
         [] e.kind = "call" -> CallCodeGen(FindMatch(e.is, types), types, values)
         \* An assertion fails: there is no code for the axes of a vector.
         [] e.kind = "member" -> Bad
         [] e.kind = "assign" -> AssignCodeGen(e.is, types, values)
         [] e.kind = "declare" -> DeclareCodeGen(e.is, values[1])
         [] e.kind = "return" -> ReturnCodeGen(e.is, types[1], values[1])

RECURSIVE CodeGen(_)
CodeGen(e) == CodeGenOf(e, TypesOf(e), [i \in DOMAIN e.kids |-> CodeGen(e.kids[i])])

-----------------------------------------------------------------------------
(* Shapes for which what Semant accepts is not what CodeGen can emit.       *)

\* Types that are not numbers to CodeGen though IsNumber says so, or have no
\* instructions of their own.
PlainTypes == {"Boolean", "StringObject", "ConstUTF8Pointer"} \cup SignedInts \cup UnsignedInts \cup Scalars
BooleanAndByte(l, r) == "Boolean" \in {l, r} /\ {l, r} \cap {"Int8", "UInt8"} # {}
CountOfString(op, l, r) ==
  /\ IsString(l) \/ IsString(r)
  /\ \/ op = "Sub" /\ IsIntNumber(r) /\ ~IsString(r)
     \/ op = "Mul" /\ IsString(r)
OnFloat(op, l, r) == op \in BitOps /\ IsFloat(FindTypePromotion(l, r))

ArgumentsAvoid(types, params) ==
  \A i \in DOMAIN params :
    /\ IsString(types[i]) => IsString(params[i]) \/ params[i] = "Boolean"
    /\ ~(BooleanAndByte(types[i], params[i]) /\ types[i] = "Boolean")
AvoidsOf(e, types) ==
  /\ "Invalid" \notin ToSet(types)
  /\ e.kind = "unary" /\ e.is = "Neg" => ~IsString(types[1])
  /\ e.kind = "binary" =>
       /\ e.is \notin {"RelXor", "BitRL", "BitRR", "Pow"}
       /\ ~BooleanAndByte(types[1], types[2]) \/ e.is \in RelOps
       /\ ~CountOfString(e.is, types[1], types[2]) /\ ~OnFloat(e.is, types[1], types[2])
  /\ e.kind = "subscript" =>
       /\ \A i \in 2 .. Len(types) : ~IsString(types[i])
       /\ Len(e.kids) <= 2 \/ \A i \in 2 .. Len(types) : Bits(types[i]) = 64
  /\ e.kind = "call" => ArgumentsAvoid(types, FindMatch(e.is, types))
  /\ e.kind # "member"
  /\ e.kind = "assign" => ArgumentsAvoid(<<types[2]>>, <<types[1]>>)
  /\ e.kind = "return" => ArgumentsAvoid(types, <<e.is>>)
  /\ e.kind = "declare" => StoreCast(types[1], e.is) = NoCast /\ ArgumentsAvoid(types, <<e.is>>)

RECURSIVE Avoids(_)
Avoids(e) == AvoidsOf(e, TypesOf(e)) /\ \A i \in DOMAIN e.kids : Avoids(e.kids[i])

\* What an integer of one type becomes as one of the other, by the bits that the
\* instruction of the cast makes.
Signed(pattern, bits) == IF pattern >= 2 ^ (bits - 1) THEN pattern - 2 ^ bits ELSE pattern
CastValue(cast, from, to, v) ==
  LET pattern == v % 2 ^ Bits(from)
      wide == IF cast.op = "SignExtend" THEN Signed(pattern, Bits(from)) ELSE pattern
      made == wide % 2 ^ Bits(to)
  IN IF IsSigned(to) THEN Signed(made, Bits(to)) ELSE made
Holds(t, v) ==
  IF IsSigned(t) THEN -(2 ^ (Bits(t) - 1)) <= v /\ v < 2 ^ (Bits(t) - 1) ELSE 0 <= v /\ v < 2 ^ Bits(t)
ShortInts == {"Int8", "Int16", "UInt8", "UInt16"}
EdgeValues == {-32768, -129, -128, -1, 0, 1, 127, 128, 255, 256, 32767, 32768, 65535}

\* A value that both types hold is passed as it is, but for one shape: an unsigned
\* integer to a wider signed one is extended as if it were signed.
ValuesKept(types, params) ==
  \A i \in DOMAIN params :
    {types[i], params[i]} \subseteq ShortInts =>
      \A v \in EdgeValues :
        Holds(types[i], v) /\ Holds(params[i], v)
          /\ ~(IsUnsigned(types[i]) /\ IsSigned(params[i]) /\ Bits(types[i]) < Bits(params[i]))
          => CastValue(ArgumentCast(types[i], params[i]), types[i], params[i], v) = v
ArgumentsKept(e) ==
  e.kind = "call" =>
    \A types \in {TypesOf(e)} : ValuesKept(types, FindMatch(e.is, types))

\* Axes may be written if each is one of the vector's, and no two are the same; what is
\* read of them has as many components as there are axes.
SwizzlesAgree(e) ==
  e.kind = "member" =>
    \A t \in {Semant(e)}, columns \in {Columns(Semant(e.kids[1]))} :
      t # "Invalid" =>
        /\ Columns(t) = IF Len(e.is) = 1 THEN 0 ELSE Len(e.is)
        /\ IsLValue(e, TypesOf(e)) <=>
             ToSet(e.is) \subseteq 0 .. columns - 1 /\ Cardinality(ToSet(e.is)) = Len(e.is)

\* What Semant accepts, and gives a type, CodeGen emits with operands that each
\* instruction takes, and with the type it was given: the casts that the one
\* settles are those that the other needs.
TypesAgree(e) ==
  /\ SwizzlesAgree(e)
  /\ \A t \in {Semant(e)} :
     t \notin {"Invalid", "Any"} /\ Avoids(e) =>
       CodeGen(e) \in {Refused, GetBuiltinType(t)} /\ ArgumentsKept(e)
=============================================================================
