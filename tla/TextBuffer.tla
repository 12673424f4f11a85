------------------------------ MODULE TextBuffer ------------------------------
(***************************************************************************)
(* A String (Core/String.cpp) as the block of bytes that holds its text:   *)
(* how the block grows, and how texts are put into it and taken out of it. *)
(* m_cMax is the length of m_pStr, which is <<>> for a null pointer.       *)
(***************************************************************************)
EXTENDS Integers, SequencesExt, FiniteSetsExt

CONSTANTS
  Pieces,     \* the texts that are put in, looked for and substituted
  Granule,    \* blocks are a multiple of this (16)
  MaxText,    \* a bound on the length of the text
  Separator   \* of directories

AddressSpace == 65536   \* sizes and offsets are taken modulo this (2^64)

VARIABLES
  m_pStr, m_cStr,
  overran,    \* whether a byte was written outside of the block
  content     \* the text that the calls are to have made

bufferVars == <<m_pStr, m_cStr, overran, content>>

NUL == "NUL"
Stale == "?"   \* a byte that holds nothing that may be read

Block(str, len, out) == [str |-> str, len |-> len, overran |-> out]
Now == Block(m_pStr, m_cStr, overran)

\* memcpy and memmove of s to an offset.
Put(b, at, s) ==
  Block([i \in DOMAIN b.str |-> IF i - 1 \in at .. at + Len(s) - 1 THEN s[i - at] ELSE b.str[i]],
        b.len, b.overran \/ at + Len(s) > Len(b.str))
\* The same with the terminator, which is where the text ends now.
PutLast(b, at, s) == [Put(b, at, Append(s, NUL)) EXCEPT !.len = at + Len(s)]
\* What a call leaves behind the terminator.
Settled(b) == [b EXCEPT !.str = [i \in DOMAIN @ |-> IF i > b.len + 1 THEN Stale ELSE @[i]]]

SetCapacity(b, bytes) ==
  [b EXCEPT !.str = [i \in 1 .. bytes |-> IF i <= b.len THEN @[i] ELSE IF i = b.len + 1 THEN NUL ELSE Stale]]
RoundUp(n) == Granule * ((n + Granule - 1) \div Granule)

Reserve(b, numChars) ==
  IF Len(b.str) > numChars THEN b ELSE SetCapacity(b, RoundUp(numChars + 1))

\* GetOffsetAndSize: a negative first counts from the end, a negative count is one
\* more than what is missing from the whole; all without a sign.
OffsetAndSize(n, first, count) ==
  LET unsigned(i) == i % AddressSpace
      offset == Min({n, unsigned(IF first < 0 THEN n + first ELSE first)})
      size == unsigned(IF count < 0 THEN n + 1 + count ELSE count)
  IN IF n = 0 THEN [at |-> 0, n |-> 0]
     ELSE [at |-> offset, n |-> IF unsigned(offset + size) > n THEN n - offset ELSE size]
Taken(p, os) == SubSeq(p, os.at + 1, os.at + os.n)
Piece(p, first, count) == Taken(p, OffsetAndSize(Len(p), first, count))

Assigned(b, p) == PutLast(Reserve(b, Len(p)), 0, p)
Appended(b, p) == PutLast(Reserve(b, b.len + Len(p)), b.len, p)
InsertedAt(b, p, at) ==
  LET moved == Put(b, at + Len(p), SubSeq(b.str, at + 1, b.len))
  IN PutLast(Put(moved, at, p), b.len + Len(p), <<>>)
Inserted(b, p, before) ==
  InsertedAt(Reserve(b, b.len + Len(p)), p, IF before < 0 THEN b.len + 1 + before ELSE before)
Removed(b, os) ==
  PutLast(Put(b, os.at, SubSeq(b.str, os.at + os.n + 1, b.len)), b.len - os.n, <<>>)

\* Find, from an offset on: strstr.
Occurrences(b, s, from) ==
  {i \in from .. b.len - Len(s) : i < b.len /\ SubSeq(b.str, i + 1, i + Len(s)) = s}

\* Replace looks on from where it put the substitution: it ends if what it looks for
\* is not in that.
RECURSIVE Replaced(_, _, _, _)
Replaced(b, search, substitution, from) ==
  LET found == Occurrences(b, search, from) IN
  IF found = {} THEN b
  ELSE LET removed == Removed(b, [at |-> Min(found), n |-> Len(search)])
       IN Replaced(Inserted(removed, substitution, Min(found)), search, substitution, Min(found))

RECURSIVE CleanedPathSlashes(_), AppendedTimes(_, _, _)
CleanedPathSlashes(b) ==
  IF Occurrences(b, <<Separator, Separator>>, 0) = {} THEN b
  ELSE CleanedPathSlashes(Replaced(b, <<Separator, Separator>>, <<Separator>>, 0))
AppendedTimes(b, p, n) == IF n = 0 THEN b ELSE AppendedTimes(Appended(b, p), p, n - 1)

-----------------------------------------------------------------------------
BufferInit == m_pStr = <<>> /\ m_cStr = 0 /\ overran = FALSE /\ content = <<>>

Becomes(b, c) ==
  /\ Len(c) <= MaxText
  /\ m_pStr' = Settled(b).str /\ m_cStr' = b.len /\ overran' = b.overran /\ content' = c

\* The positions of a text of length n that a first and a count are to mean.
Meant(p, first, count) ==
  LET from == IF first < 0 THEN Len(p) + first ELSE first
      number == IF count < 0 THEN Len(p) + 1 + count ELSE count
  IN IF from < 0 THEN {} ELSE {i \in DOMAIN p : i > from /\ i <= from + number}
At(p, S) == [k \in 1 .. Cardinality(S) |-> p[Min(S) + k - 1]]

Assign(p, first, count) ==
  Becomes(Assigned(Now, Piece(p, first, count)), At(p, Meant(p, first, count)))
AppendText(p, first, count) ==
  Becomes(Appended(Now, Piece(p, first, count)), content \o At(p, Meant(p, first, count)))
\* In front of a byte of the text, or behind the last one.
InsertText(p, before) ==
  LET at == IF before < 0 THEN m_cStr + 1 + before ELSE before IN
  /\ at \in 0 .. m_cStr
  /\ Becomes(Inserted(Now, p, before), SubSeq(content, 1, at) \o p \o SubSeq(content, at + 1, Len(content)))
\* Where no memory can be had the call fails, and leaves the text alone.
GrowFails(p) ==
  /\ Len(m_pStr) <= m_cStr + Len(p)
  /\ UNCHANGED bufferVars
\* A String that never held a text has no byte for the terminator.
RemoveText(first, count) ==
  /\ m_pStr # <<>>
  /\ LET gone == Meant(content, first, count) IN
     Becomes(Removed(Now, OffsetAndSize(m_cStr, first, count)),
             IF gone = {} THEN content
             ELSE SubSeq(content, 1, Min(gone) - 1) \o SubSeq(content, Max(gone) + 1, Len(content)))

RECURSIVE Substituted(_, _, _)
Substituted(s, search, substitution) ==
  IF Len(s) < Len(search) THEN s
  ELSE IF IsPrefix(search, s)
       THEN Substituted(substitution \o SubSeq(s, Len(search) + 1, Len(s)), search, substitution)
       ELSE <<Head(s)>> \o Substituted(Tail(s), search, substitution)
ReplaceText(search, substitution) ==
  /\ search # <<>> /\ Occurrences([str |-> substitution, len |-> Len(substitution)], search, 0) = {}
  /\ Len(m_pStr) > 0
  /\ Becomes(Replaced(Now, search, substitution, 0), Substituted(content, search, substitution))
\* From start up to end, or to the end of the text.
Fill(start, end, value) ==
  LET last == Min({end, m_cStr}) IN
  Becomes(IF start < last THEN Put(Now, start, [i \in 1 .. last - start |-> value]) ELSE Now,
          [i \in DOMAIN content |-> IF i > start /\ i <= end THEN value ELSE content[i]])
CleanPathSlashes ==
  Becomes(CleanedPathSlashes(Now),
          FoldLeft(LAMBDA s, c : IF s # <<>> /\ c = Separator /\ Last(s) = Separator THEN s ELSE Append(s, c),
                   <<>>, content))
\* operator*=, and Empty, which it is for no times.
Multiply(n) ==
  Becomes(IF n = 0 THEN (IF m_pStr = <<>> THEN Now ELSE PutLast(Now, 0, <<>>))
          ELSE AppendedTimes(Reserve(Now, m_cStr * n), SubSeq(m_pStr, 1, m_cStr), n - 1),
          FlattenSeq([i \in 1 .. n |-> content]))

BufferNext ==
  \/ \E p \in Pieces, first \in -2 .. 2, count \in -2 .. 2 :
       Assign(p, first, count) \/ AppendText(p, first, count)
  \/ \E p \in Pieces, before \in -2 .. MaxText : InsertText(p, before)
  \/ \E p \in Pieces : GrowFails(p)
  \/ \E first \in -2 .. 2, count \in -2 .. 2 : RemoveText(first, count)
  \/ \E s \in Pieces, t \in Pieces : ReplaceText(s, t)
  \/ \E start \in 0 .. 2, end \in 0 .. MaxText, s \in Pieces : Len(s) = 1 /\ Fill(start, end, s[1])
  \/ CleanPathSlashes
  \/ \E n \in 0 .. 2 : Multiply(n)

-----------------------------------------------------------------------------
\* Whatever calls were made, no byte was written outside of the block, the block
\* holds the text that they are to have made, and the terminator is behind it.
BufferHolds ==
  /\ ~overran
  /\ m_cStr = Len(content)
  /\ m_pStr = <<>> \/ (m_cStr < Len(m_pStr) /\ SubSeq(m_pStr, 1, m_cStr + 1) = Append(content, NUL))
=============================================================================
