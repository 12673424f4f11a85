---------------------------- MODULE BuiltinTypes -----------------------------
(***************************************************************************)
(* The built-in types of the language (BuiltinType.cpp): what is known of  *)
(* each, the type that two are promoted to, the cast between two; and the  *)
(* patterns that types are written with (TypeInformation.cpp).             *)
(***************************************************************************)
EXTENDS Integers, TLC, SequencesExt

SignedInts == {"Int8", "Int16", "Int32", "Int64", "Int128"}
UnsignedInts == {"UInt8", "UInt16", "UInt32", "UInt64", "UInt128"}
SNorms == {"SNorm8", "SNorm16", "SNorm32", "SNorm64"}
UNorms == {"UNorm8", "UNorm16", "UNorm32", "UNorm64"}
Scalars == {"Float16", "Float32", "Float64"}
Strings == {"ConstUTF8Pointer", "ConstUTF16Pointer", "StringObject"}
Containers == {"ArrayObject", "LinkedListObject", "BinaryTreeObject"}

\* Columns and rows of the types that have them.
Shape ==
  "SIMDVector128_4Float32" :> <<1, 4>> @@ "SIMDVector128_2Float64" :> <<1, 2>>
  @@ "SIMDVector128_4Int32" :> <<1, 4>> @@ "SIMDVector128_2Int64" :> <<1, 2>>
  @@ "SIMDVector256_8Float32" :> <<1, 8>> @@ "SIMDVector256_4Float64" :> <<1, 4>>
  @@ "SIMDVector256_8Int32" :> <<1, 8>> @@ "SIMDVector256_4Int64" :> <<1, 4>>
  @@ "Vector2f" :> <<2, 1>> @@ "Vector3f" :> <<3, 1>> @@ "Vector4f" :> <<4, 1>>
  @@ "Matrix2f" :> <<2, 2>> @@ "Matrix3f" :> <<3, 3>> @@ "Matrix4f" :> <<4, 4>>
  @@ "Matrix23f" :> <<2, 3>> @@ "Matrix24f" :> <<2, 4>> @@ "Matrix32f" :> <<3, 2>>
  @@ "Matrix34f" :> <<3, 4>> @@ "Matrix42f" :> <<4, 2>> @@ "Matrix43f" :> <<4, 3>>
  @@ "Quaternionf" :> <<4, 1>>
Rows(t) == IF t \in DOMAIN Shape THEN Shape[t][2] ELSE 0
Columns(t) == IF t \in DOMAIN Shape THEN Shape[t][1] ELSE 0

\* GetVectorTypeComponentType.
ComponentType(t) ==
  IF t \in {"SIMDVector128_4Int32", "SIMDVector256_8Int32"} THEN "Int32"
  ELSE IF t \in {"SIMDVector128_2Int64", "SIMDVector256_4Int64"} THEN "Int64"
  ELSE IF t \in {"SIMDVector128_2Float64", "SIMDVector256_4Float64"} THEN "Float64"
  ELSE IF t \in DOMAIN Shape THEN "Float32" ELSE "Invalid"

SIMDTypes == {t \in DOMAIN Shape : Shape[t][1] = 1} \cup {"SIMDVector128", "SIMDVector256"}
BuiltinTypes ==
  {"Void", "Any", "Boolean"} \cup SignedInts \cup UnsignedInts \cup SNorms \cup UNorms
    \cup Scalars \cup Strings \cup Containers \cup SIMDTypes \cup DOMAIN Shape

IsString(t) == t \in Strings
IsPointer(t) == t \in Strings \cup Containers
IsSigned(t) == t \in SignedInts \cup SNorms \/ ComponentType(t) \in SignedInts
IsUnsigned(t) == t \in {"Boolean"} \cup UnsignedInts \cup UNorms \/ IsPointer(t)
IsFloat(t) == t \in Scalars \/ ComponentType(t) \in Scalars
IsNormalized(t) == t \in SNorms \cup UNorms
IsIntNumber(t) == IsSigned(t) \/ IsUnsigned(t)
IsRealNumber(t) == IsFloat(t) \/ IsNormalized(t)
IsNumber(t) == IsIntNumber(t) \/ IsRealNumber(t)
NoPromote(t) == t \in {"Invalid", "UserDefined", "Void"} \cup Containers

WidthOf ==
  "Boolean" :> 1 @@ "Float16" :> 16 @@ "Float32" :> 32 @@ "Float64" :> 64
  @@ [t \in {"Int8", "UInt8", "SNorm8", "UNorm8"} |-> 8]
  @@ [t \in {"Int16", "UInt16", "SNorm16", "UNorm16"} |-> 16]
  @@ [t \in {"Int32", "UInt32", "SNorm32", "UNorm32"} |-> 32]
  @@ [t \in {"Int64", "UInt64", "SNorm64", "UNorm64"} |-> 64]
  @@ [t \in {"Int128", "UInt128", "SIMDVector128"} |-> 128] @@ ("SIMDVector256" :> 256)
Bits(t) ==
  IF t \in DOMAIN WidthOf THEN WidthOf[t]
  ELSE IF t \in DOMAIN Shape THEN Rows(t) * Columns(t) * WidthOf[ComponentType(t)] ELSE 0

\* The compiler is built for targets with 64-bit pointers.
UIntPtrType == "UInt64"
TypeSize(t) == IF IsPointer(t) THEN 8 ELSE (Bits(t) + 7) \div 8

-----------------------------------------------------------------------------
Widest(S, bits) == IF \E t \in S : Bits(t) = bits THEN CHOOSE t \in S : Bits(t) = bits ELSE "Invalid"
MaxOf(a, b) == IF a > b THEN a ELSE b

FindTypePromotion(t1, t2) ==
  LET largest(P(_), S) ==
        Widest(S, MaxOf(IF P(t1) THEN Bits(t1) ELSE 0, IF P(t2) THEN Bits(t2) ELSE 0))
      either(P(_)) == P(t1) \/ P(t2)
      firstUnless(n1, n2) == IF n1 >= n2 THEN t1 ELSE t2
  IN CASE t1 = t2 -> t1
       [] t1 # t2 /\ either(NoPromote) -> "Invalid"
       [] OTHER ->
          IF either(IsString) THEN "StringObject"
          ELSE IF Rows(t1) # 0 \/ Rows(t2) # 0
               THEN firstUnless(Rows(t1) * Columns(t1), Rows(t2) * Columns(t2))
          ELSE IF either(IsFloat)
               THEN firstUnless(IF IsFloat(t1) THEN Bits(t1) ELSE 0, IF IsFloat(t2) THEN Bits(t2) ELSE 0)
          ELSE IF either(IsNormalized)
               THEN largest(IsNormalized, IF either(IsSigned) THEN SNorms ELSE UNorms)
          ELSE IF either(IsUnsigned) THEN largest(IsIntNumber, UnsignedInts)
          ELSE IF either(IsSigned) THEN largest(IsIntNumber, SignedInts)
          ELSE "Invalid"

\* A cast by its name; the casts from a number to a string by the number's type.
Cast(op) == [op |-> op, of |-> "Invalid"]
InvalidCast == Cast("Invalid")
NoCast == Cast("None")
ToStrTypes == SignedInts \cup UnsignedInts \cup Scalars

\* Between numbers.  The type cast to says how an integer is extended.
SizeCast(from, to, extend, trunc) ==
  IF TypeSize(from) < TypeSize(to) THEN Cast(extend)
  ELSE IF TypeSize(from) > TypeSize(to) THEN Cast(trunc) ELSE NoCast
NumberCast(from, to) ==
  CASE IsIntNumber(from) /\ IsIntNumber(to) ->
         IF IsUnsigned(to) THEN SizeCast(from, to, "ZeroExtend", "ZeroTrunc")
         ELSE SizeCast(from, to, "SignExtend", "SignTrunc")
    [] IsIntNumber(from) /\ ~IsIntNumber(to) /\ IsRealNumber(to) ->
         Cast(IF IsUnsigned(from) THEN "UnsignedIntToFloat" ELSE "SignedIntToFloat")
    [] ~IsIntNumber(from) /\ IsRealNumber(from) /\ IsIntNumber(to) ->
         Cast(IF IsUnsigned(to) THEN "FloatToUnsignedInt" ELSE "FloatToSignedInt")
    [] ~IsIntNumber(from) /\ IsRealNumber(from) /\ ~IsIntNumber(to) /\ IsRealNumber(to) ->
         SizeCast(from, to, "RealExtend", "RealTrunc")
    [] OTHER -> InvalidCast

CastSafeTypeItself(t) == t

CastSafeType(t) == IF t = "Boolean" THEN "Int8" ELSE t

GetCastForTypes(fromT, toT, mode) ==
  LET from == CastSafeType(fromT)
      to == CastSafeType(toT)
  IN IF fromT = toT \/ "Any" \in {fromT, toT} THEN NoCast
     ELSE IF toT = "Boolean" /\ IsIntNumber(fromT) THEN Cast("IntToBool")
     ELSE IF toT = "Boolean" /\ IsRealNumber(fromT) THEN Cast("FloatToBool")
     ELSE IF IsString(to) /\ from \in ToStrTypes THEN [op |-> "ToStr", of |-> from]
     ELSE IF IsString(to) /\ mode = "Input" /\ IsString(from) THEN NoCast
     ELSE IF to = "StringObject" /\ from = "ConstUTF8Pointer" THEN Cast("UTF8PtrToStr")
     ELSE IF to = "StringObject" /\ from = "ConstUTF16Pointer" THEN Cast("UTF16PtrToStr")
     ELSE NumberCast(from, to)

-----------------------------------------------------------------------------
(* Type patterns (TypeInformation.cpp): the characters that stand for the  *)
(* members of a structure or the parameters of a function.                 *)

\* Members of patterns, and what GetTypePattern writes for a type.
Member(type, passBy, access, passMod) ==
  [type |-> type, passBy |-> passBy, access |-> access, passMod |-> passMod]

TypeCode ==
  "Void" :> "0" @@ "Any" :> "X" @@ "Boolean" :> "B" @@ "ArrayObject" :> "H"
  @@ "BinaryTreeObject" :> "M" @@ "LinkedListObject" :> "K"
  @@ "ConstUTF8Pointer" :> "S" @@ "ConstUTF16Pointer" :> "T" @@ "StringObject" :> "G"
  @@ "Float16" :> "A" @@ "Float32" :> "F" @@ "Float64" :> "O"
  @@ "Int8" :> "C" @@ "Int16" :> "N" @@ "Int32" :> "L" @@ "Int64" :> "R" @@ "Int128" :> "EI16"
  @@ "UInt8" :> "Y" @@ "UInt16" :> "W" @@ "UInt32" :> "D" @@ "UInt64" :> "Q" @@ "UInt128" :> "EU16"
  @@ "SIMDVector128" :> "V4X" @@ "SIMDVector128_4Float32" :> "V4F" @@ "SIMDVector128_4Int32" :> "V4L"
  @@ "SIMDVector128_2Float64" :> "V2O" @@ "SIMDVector128_2Int64" :> "V2R"
  @@ "SIMDVector256" :> "V8X" @@ "SIMDVector256_8Float32" :> "V8F" @@ "SIMDVector256_8Int32" :> "V8L"
  @@ "SIMDVector256_4Float64" :> "V4O" @@ "SIMDVector256_4Int64" :> "V4R"
  @@ "SNorm8" :> "ESN1" @@ "SNorm16" :> "ESN2" @@ "SNorm32" :> "ESN4" @@ "SNorm64" :> "ESN8"
  @@ "UNorm8" :> "EUN1" @@ "UNorm16" :> "EUN2" @@ "UNorm32" :> "EUN4" @@ "UNorm64" :> "EUN8"
  @@ "Vector2f" :> "EF21" @@ "Vector3f" :> "EF31" @@ "Vector4f" :> "EF41"
  @@ "Matrix2f" :> "EF22" @@ "Matrix3f" :> "EF33" @@ "Matrix4f" :> "EF44"
  @@ "Matrix23f" :> "EF23" @@ "Matrix24f" :> "EF24" @@ "Matrix32f" :> "EF32"
  @@ "Matrix34f" :> "EF34" @@ "Matrix42f" :> "EF42" @@ "Matrix43f" :> "EF43" @@ "Quaternionf" :> "EF4Q"
AccessCode == "ReadOnly" :> "<" @@ "WriteOnly" :> ">" @@ "ReadWrite" :> "*"
PassModCode ==
  "Direct" :> "" @@ "ArrayOfZeroOrMoreReferences" :> "~" @@ "ArrayOfOneOrMoreReferences" :> "+"
  @@ "OptionalPointer" :> "?"

GetTypePattern(members) ==
  LET code(m) == TypeCode[m.type] \o (IF m.passBy = "Reference" THEN AccessCode[m.access] ELSE "")
                   \o PassModCode[m.passMod]
  IN FoldLeft(LAMBDA pattern, m : pattern \o code(m), "", members)

-----------------------------------------------------------------------------
\* The codes that are read: those that are written, and the sizes of numbers.
OtherCodes ==
  "I1" :> "Int8" @@ "I2" :> "Int16" @@ "I4" :> "Int32" @@ "I8" :> "Int64" @@ "IP" :> "Int64"
  @@ "U1" :> "UInt8" @@ "U2" :> "UInt16" @@ "U4" :> "UInt32" @@ "U8" :> "UInt64" @@ "UP" :> UIntPtrType
  @@ "#2" :> "Float16" @@ "#4" :> "Float32" @@ "#8" :> "Float64"
TypeOfCode ==
  OtherCodes @@ [c \in Range(TypeCode) |-> CHOOSE t \in DOMAIN TypeCode : TypeCode[t] = c]

Refusal == [ok |-> FALSE]
Start(s, n) == IF n < Len(s) THEN SubSeq(s, 1, n) ELSE s
Skipped(s, n) == IF n < Len(s) THEN SubSeq(s, n + 1, Len(s)) ELSE ""
\* What the first character of s is the code of, if it is any.
Written(f, s) == IF s = "" THEN {} ELSE {x \in DOMAIN f : f[x] = Start(s, 1)}

\* The first member of a pattern that is not empty, and the rest of the pattern: the
\* code of a type, of how it may be accessed, and of what more than one it may be.
MemberWith(member, s, mods) ==
  [ok |-> TRUE, rest |-> Skipped(s, Cardinality(mods)),
   member |-> [member EXCEPT !.passMod = IF mods = {} THEN @ ELSE CHOOSE m \in mods : TRUE]]
MemberModified(member, s) == MemberWith(member, s, Written(PassModCode, s))
MemberAccessed(type, s, access) ==
  MemberModified(Member(type, IF access # {} \/ type = "ArrayObject" THEN "Reference" ELSE "Value",
                        IF access # {} THEN CHOOSE a \in access : TRUE ELSE "ReadOnly", "Direct"),
                 Skipped(s, Cardinality(access)))
MemberOfType(type, s) == MemberAccessed(type, s, Written(AccessCode, s))
ParseTypePatternPart(p) ==
  LET codes == {c \in DOMAIN TypeOfCode : Start(p, Len(c)) = c} IN
  IF codes = {} THEN Refusal
  ELSE LET code == CHOOSE c \in codes : TRUE IN MemberOfType(TypeOfCode[code], Skipped(p, Len(code)))

\* All of a pattern: the members read before one that is refused stay.
RECURSIVE ParseFrom(_, _)
ParseFrom(members, p) ==
  IF p = "" THEN [ok |-> TRUE, members |-> members]
  ELSE LET part == ParseTypePatternPart(p) IN
       IF part.ok THEN ParseFrom(Append(members, part.member), part.rest)
       ELSE [ok |-> FALSE, members |-> members]
ParseTypePattern(p) == ParseFrom(<<>>, p)

\* The pattern of one member: the rest of the pattern is not looked at.
ParseReturn(p) ==
  IF p \in {"", "0"} THEN [ok |-> TRUE, member |-> Member("Void", "Direct", "ReadOnly", "Direct")]
  ELSE ParseTypePatternPart(p)

\* The offsets that ParseTypePattern gives, to a multiple of TypeMemberAlignment.
TypeMemberAlignment == 4
Aligned(n) == n + ((TypeMemberAlignment - (n % TypeMemberAlignment)) % TypeMemberAlignment)
Offsets(members) ==
  LET end[i \in 0 .. Len(members)] == IF i = 0 THEN 0 ELSE Aligned(end[i - 1] + TypeSize(members[i].type))
  IN [i \in DOMAIN members |-> end[i - 1]]
=============================================================================
