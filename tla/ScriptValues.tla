---------------------------- MODULE ScriptValues -----------------------------
(***************************************************************************)
(* The commands of a script that work on values (TenshiRuntime.c):         *)
(* arithmetic, random numbers, and blocks of memory.                       *)
(***************************************************************************)
EXTENDS Integers, SequencesExt, FiniteSetsExt

(* The arithmetic that a script calls (TenshiRuntime.c, "BASIC MATH"): how *)
(* it rounds, keeps angles in the circle, limits, mixes and shapes values, *)
(* and packs colours.  A float is the fraction that it stands for, n / d   *)
(* with d > 0: that it keeps 24 bits matters only to teFloor, which tells  *)
(* what has a fraction by the last 21 of them.  Values are small, and no   *)
(* float is NaN, infinite or -0.                                           *)

CONSTANTS
  Channel,  \* how many values a part of a colour has, 256
  Circle    \* 360

Abs(n) == IF n < 0 THEN -n ELSE n
Trunc(n, d) == IF n >= 0 THEN n \div d ELSE -((-n) \div d)
Floor(n, d) == n \div d   \* TLA+'s, for any n

\* Three bits are enough for the number; the other 21 of its bits are 0.
FewBits(n, d) == \E s \in 0 .. 7, e \in 0 .. 7 : n * 2 ^ e = s * d \/ n = s * d * 2 ^ e

\* A negative number is taken to be whole when three bits are enough for it.
teFloor(n, d) == IF n < 0 /\ ~FewBits(-n, d) THEN Trunc(n, d) - 1 ELSE Trunc(n, d)
teFrac(n, d) == n - teFloor(n, d) * d   \* of d

\* Of angles only those in the circle are left alone: a sign bit makes the rest larger.
teWrap360(n, d) == IF n < 0 \/ n >= Circle * d THEN n - teFloor(n, Circle * d) * Circle * d ELSE n
teWrap180(n, d) ==
  LET angle == teWrap360(n, d) IN IF 2 * angle > Circle * d THEN angle - Circle * d ELSE angle
teAngleDelta(a, b) == teWrap180(a - b, 1)

\* A step from a towards da, one part of sp of the way back from da; in parts of sp.
teCurveAngle(a, da, sp) ==
  LET from == teWrap360(a, 1)
      to == teWrap360(da, 1)
      diff == from - to
      short == IF 2 * diff < -Circle THEN from + Circle - to
               ELSE IF 2 * diff > Circle THEN from - (to + Circle) ELSE diff
      parts == IF sp < 1 THEN 1 ELSE sp
  IN teWrap360(to * parts + short, parts)
teCurveValue(a, da, sp) == IF sp < 1 THEN a * sp ELSE da * sp + (a - da)   \* of sp

\* TENSHI_SSE_ENABLED is never defined: both halves keep the smaller.
teClamp(x, l, h) ==
  LET r == (x + h - Abs(x - h)) \div 2 IN (r + l - Abs(r - l)) \div 2
teSaturate(x, one) == teClamp(x, 0, one)

\* Of parts of one.
teLerp(x, y, t, one) == x * one + (y - x) * t
teMix(a, b, t, one) == teLerp(a, b, teSaturate(t, one), one)
teCerp(x, y, z, w, t, one) ==
  LET a == (w - z) - (x - y)
      b == (x - y) - a
      c == z - x
  IN t * (t * (t * a + b * one) + c * one * one) + y * one * one * one
teOver(x, y, one) == one * one - (one - x) * (one - y)
teStep(a, x) == IF x < a THEN 0 ELSE 1

\* The fraction that the curve is at x, of (b - a) to the third.
teSmoothStep(a, b, x) ==
  LET d == b - a
      y == x - a
  IN IF x < a THEN 0 ELSE IF x > b THEN d * d * d ELSE y * y * (3 * d - 2 * y)

\* Waves: where in the period x is, up to a and down from there; a fraction [n, d].
Ramp(a, f, one) == IF f < a THEN [n |-> f, d |-> a] ELSE [n |-> (one - a) - (f - a), d |-> one - a]
teSawWave(x, a, one) == Ramp(a, teFrac(x, one), one)
teTriWave(a, x) ==
  LET f == teFrac(x, Circle)
      g == IF f < 0 THEN Circle + f ELSE f
      r == Ramp(a, g, Circle)
  IN [n |-> 2 * r.n - r.d, d |-> r.d]

-----------------------------------------------------------------------------
(* Colours, alpha first.                                                    *)
teArgb(r, g, b, a) == FoldLeft(LAMBDA argb, x : argb * Channel + (x % Channel), 0, <<a, r, g, b>>)
teRgb(r, g, b) == teArgb(r, g, b, Channel - 1)
teRgbA(argb) == (argb \div Channel ^ 3) % Channel
teRgbR(argb) == (argb \div Channel ^ 2) % Channel
teRgbG(argb) == (argb \div Channel) % Channel
teRgbB(argb) == argb % Channel

\* Channels of floats, in parts of one.
teFloatToChannel(x, one) == Trunc(teSaturate(x, one) * (Channel - 1), one)
teArgbF(r, g, b, a, one) ==
  teArgb(teFloatToChannel(r, one), teFloatToChannel(g, one), teFloatToChannel(b, one), teFloatToChannel(a, one))

-----------------------------------------------------------------------------
\* Where teFloor is wrong: below a fraction that three bits hold, and at a whole number
\* that they do not.
Misread(n, d) == n < 0 /\ (FewBits(-n, d) <=> n % d # 0)

(* FLOOR rounds "a value down" (Math System.txt).  The code does not, for   *)
(* a negative number that is misread.                                       *)
FloorAgrees(n) == \A d \in {1, 2, 4, 8} : teFloor(n, d) = Floor(n, d)

(* Where no number is misread, rounding down, fractions, angles and curves  *)
(* are what they are for: in the circle, the same angle, the shorter way    *)
(* round, not past the end.  Nothing is said of the others, the negative    *)
(* angles of whole eighths of the circle among them.                        *)
AnglesAgree(n, m) ==
  /\ \A d \in {1, 2, 4, 8} : ~Misread(n, d) => teFloor(n, d) = Floor(n, d) /\ teFrac(n, d) \in 0 .. d - 1
  /\ ~Misread(n, Circle) =>
       /\ teWrap360(n, 1) = n % Circle
       /\ 2 * teWrap180(n, 1) \in 1 - Circle .. Circle /\ (teWrap180(n, 1) - n) % Circle = 0
  /\ ~Misread(n - m, Circle) => (m + teAngleDelta(n, m) - n) % Circle = 0
  /\ ~(Misread(n, Circle) \/ Misread(m, Circle)) =>
       \A sp \in {0, 1, 2, 4} :
         LET parts == IF sp < 1 THEN 1 ELSE sp
             delta == teAngleDelta(n % Circle, m % Circle)
             target == (m % Circle) * parts + (IF 2 * delta = Circle /\ (n % Circle) < (m % Circle) THEN -delta ELSE delta)
         IN ~Misread(target, Circle * parts) /\ ~Misread((n % Circle) - (m % Circle), Circle) =>
              teCurveAngle(n, m, sp) = target % (Circle * parts)

(* CLAMP returns a value "if it's between min and max", and else the one of  *)
(* the two that is nearer (Math System.txt).  The code's never returns more  *)
(* than the lower limit.                                                     *)
ClampAgrees(x, l, h) == l <= h => teClamp(x, l, h) = Max({l, Min({x, h})})

\* Curves end where they should, rise where they rise, and stay between 0 and 1; and the
\* parts of a colour are those that it was made of.  Of what is made with teClamp, nothing is
\* said but that a mix starts at its first value.
CurvesAgree(n, m, one) ==
  /\ teCerp(1, n, m, 2, 0, one) = n * one ^ 3 /\ teCerp(1, n, m, 2, one, one) = m * one ^ 3
  /\ teLerp(n, m, 0, one) = n * one /\ teLerp(n, m, one, one) = m * one
  /\ teOver(n, m, one) = teOver(m, n, one)
  /\ n < m => \A x \in n - 1 .. m :
       /\ teSmoothStep(n, m, x) \in 0 .. (m - n) ^ 3
       /\ teSmoothStep(n, m, x) <= teSmoothStep(n, m, x + 1)
       /\ teStep(n, x) <= teStep(n, x + 1)
  /\ n \in 1 .. one - 1 /\ ~Misread(m, one) =>
       LET wave == teSawWave(m, n, one) IN 0 <= wave.n /\ wave.n <= wave.d
  /\ n \in 1 .. Circle - 1 /\ ~Misread(m, Circle) =>
       LET wave == teTriWave(n, m) IN -wave.d <= wave.n /\ wave.n <= wave.d
  /\ teMix(n, m, 0, one) = n * one
ColoursAgree(r, g, b, a) ==
  LET argb == teArgb(r, g, b, a)
  IN <<teRgbR(argb), teRgbG(argb), teRgbB(argb), teRgbA(argb)>> = [i \in 1 .. 4 |-> <<r, g, b, a>>[i] % Channel]

MathsAgree(n, m) ==
  /\ AnglesAgree(n, m)
  /\ Abs(n) <= 4 /\ Abs(m) <= 4 => CurvesAgree(n, m, 4)
  /\ n \in 0 .. Channel /\ m \in 0 .. Channel => ColoursAgree(n, m, m + 1, n + 1) /\ teRgb(n, m, 0) = teArgb(n, m, 0, -1)

-----------------------------------------------------------------------------
(* The random numbers of a script (TenshiRuntime.c, "RANDOM NUMBER"): the  *)
(* program's generator and those that the script makes, each a PCG.  The   *)
(* 64 bits of a state are StateBits here, and the 32 of a value half of    *)
(* those: the multiplier and the first state are their low bits, which     *)
(* those of the state depend on alone.  A value is made of the high bits   *)
(* of the state, and may be any.                                           *)

CONSTANTS
  Generators,     \* the numbers of generators: 0 is the program's
  HalfBits,       \* of a value and of a seed, 32
  MaxTurns,       \* how often a value that is too small is replaced, 32
  MaxDraws        \* bound: how many calls there are

VARIABLES
  pcg,      \* of each generator: its state and inc, or None
  drawn,    \* the last value drawn, and the limits it was to be within
  draws

randomVars == <<pcg, drawn, draws>>

StateBits == 2 * HalfBits
States == 2 ^ StateBits
Range32 == 2 ^ HalfBits

None == [state |-> 0, inc |-> 0]
First == [state |-> 155 % States, inc |-> 219 % States] \* TENSHI_PCG_STATE_INIT, TENSHI_PCG_INC_INIT
Multiplier == 45                                        \* 6364136223846793005

RandomInit ==
  /\ pcg = [g \in Generators |-> IF g = 0 THEN First ELSE None]
  /\ drawn = [value |-> 0, low |-> 0, high |-> 1] /\ draws = 0

Drawing == draws < MaxDraws /\ draws' = draws + 1

tePCGRnd(r) == [r EXCEPT !.state = (@ * Multiplier + r.inc) % States]

tePCGSeed(state, seq) ==
  LET r == tePCGRnd([state |-> 0, inc |-> (2 * seq + 1) % States])
  IN tePCGRnd([r EXCEPT !.state = (@ + state) % States])

\* The halves of the seed, exchanged: with no bit in common, | adds them.
Turned(seed) == (seed \div 2 ^ (HalfBits \div 2)) + ((seed * 2 ^ (HalfBits \div 2)) % Range32)
tePCGRandomize(seed) ==
  LET state == seed * Range32 + (Range32 - 1 - Turned(seed))
  IN tePCGSeed(state, (state - ((seed * seed * seed) % Range32) + state * state - seed) % States)

\* A fault: no value is too small, and the low results come more often.
ThresholdNone(bound) == 0
Threshold(bound) == (Range32 - bound) % bound

\* What tePCGBoundedRnd may return after so many turns.
BoundedAfter(turns, bound) ==
  {v % bound : v \in IF turns < MaxTurns THEN Threshold(bound) .. Range32 - 1 ELSE 0 .. Range32 - 1}
Signed(n) == IF n >= Range32 \div 2 THEN n - Range32 ELSE n
After(r, turns) == FoldLeft(LAMBDA q, i : tePCGRnd(q), r, [i \in 1 .. turns |-> i])

MakeRNG(g) ==
  /\ Drawing /\ g # 0 /\ pcg[g] = None
  /\ pcg' = [pcg EXCEPT ![g] = First]
  /\ UNCHANGED drawn
DeleteRNG(g) ==
  /\ Drawing /\ g # 0 /\ pcg[g] # None
  /\ pcg' = [pcg EXCEPT ![g] = None]
  /\ UNCHANGED drawn

Randomize(g) ==
  /\ Drawing /\ pcg[g] # None
  /\ \E seed \in 0 .. Range32 - 1 : pcg' = [pcg EXCEPT ![g] = tePCGRandomize(seed)]
  /\ UNCHANGED drawn

\* With a number that no generator has, the value is 0.
Generate(g) ==
  /\ Drawing
  /\ pcg' = IF pcg[g] = None THEN pcg ELSE [pcg EXCEPT ![g] = tePCGRnd(@)]
  /\ drawn' \in {[value |-> v, low |-> 0, high |-> Range32] : v \in IF pcg[g] = None THEN {0} ELSE {0, Range32 - 1}}

\* The limits must differ: the rest of a division by 0 is asked for else.
RangedGenerate(g, low, high) ==
  /\ Drawing /\ pcg[g] # None /\ low # high
  /\ \E turns \in 1 .. MaxTurns : \E v \in BoundedAfter(turns, (high - low) % Range32) :
       /\ drawn' = [value |-> Signed((low + v) % Range32), low |-> low, high |-> high]
       /\ pcg' = [pcg EXCEPT ![g] = After(@, turns)]

RandomNext ==
  \E g \in Generators :
    \/ MakeRNG(g) \/ DeleteRNG(g) \/ Randomize(g) \/ Generate(g)
    \/ \E low \in {-2, 2}, high \in {-1, 1, 2} : RangedGenerate(g, low, high)

-----------------------------------------------------------------------------
\* A bound's threshold leaves as many values for each of the results, and no two seeds make
\* the same generator.
DrawsEven ==
  \A bound \in 1 .. Range32 - 1 :
    \A v \in 0 .. bound - 1 :
      Cardinality({x \in Threshold(bound) .. Range32 - 1 : x % bound = v}) = (Range32 - Threshold(bound)) \div bound
SeedsApart == Cardinality({tePCGRandomize(seed) : seed \in 0 .. Range32 - 1}) = Range32

\* A generator comes through every state before it repeats one, because its inc is odd.
\* What is seen is doubled each time, by going ahead as far as it is long.
Orbit(r) ==
  LET step == [state \in 0 .. States - 1 |-> tePCGRnd([r EXCEPT !.state = state]).state]
      Twice(o, i) == [seen |-> o.seen \cup {o.ahead[state] : state \in o.seen},
                      ahead |-> [state \in DOMAIN step |-> o.ahead[o.ahead[state]]]]
  IN FoldLeft(Twice, [seen |-> {r.state}, ahead |-> step], [i \in 1 .. StateBits |-> i]).seen

(* What is drawn is within its limits, and with those exchanged not between   *)
(* them, however often values had to be replaced and whatever was made,       *)
(* seeded or deleted in between; no generator's period is shorter than it     *)
(* could be; and drawing favours nothing that it need not.                    *)
RandomAgrees ==
  /\ IF drawn.low < drawn.high THEN drawn.value \in drawn.low .. drawn.high - 1
                               ELSE drawn.value \notin drawn.high .. drawn.low - 1
  /\ \A g \in Generators : pcg[g] # None => pcg[g].inc % 2 = 1
  /\ draws = 0 => /\ DrawsEven /\ SeedsApart
                  /\ \A seed \in {0, 1, 6} : Cardinality(Orbit(tePCGRandomize(seed))) = States

-----------------------------------------------------------------------------
(* Blocks of memory that a script makes, reads, writes and copies          *)
(* (TenshiRuntime.c, "MEMBLOCKS").  A block is its bytes, which have Byte  *)
(* values; addresses and sizes wrap at Word.  Numbers are those of the     *)
(* pool that keeps the blocks.  Memory is always got.                      *)

CONSTANTS
  MemblockNumbers,
  MemblockSizes,   \* in bytes
  BlockPositions,       \* that a script gives
  Byte,            \* 256
  Word,            \* 2^64
  MaxCalls         \* bound: how many calls there are

VARIABLES
  memblocks,   \* the bytes of each block, or NoBlock
  valueWritten, \* the last write: to which block, where, how many bytes and what, while they are there
  outside,     \* a call went past a block, or before it
  memCalls

memblockVars == <<memblocks, valueWritten, outside, memCalls>>

NoBlock == <<>>  \* no block has 0 bytes
Lengths == {1, 2, 4}
NothingWritten == [number |-> 0, pos |-> 0, length |-> 1, value |-> 0]

MemblockInit ==
  /\ memblocks = [b \in MemblockNumbers |-> NoBlock]
  /\ valueWritten = NothingWritten /\ outside = FALSE /\ memCalls = 0

Calling == memCalls < MaxCalls /\ memCalls' = memCalls + 1 /\ ~outside

MakeMemblock(b, cBytes) ==
  /\ Calling /\ memblocks[b] = NoBlock
  /\ memblocks' = [memblocks EXCEPT ![b] = [i \in 1 .. cBytes |-> 0]]
  /\ UNCHANGED <<valueWritten, outside>>
DeleteMemblock(b) ==
  /\ Calling /\ memblocks[b] # NoBlock
  /\ memblocks' = [memblocks EXCEPT ![b] = NoBlock]
  /\ valueWritten' = IF valueWritten.number = b THEN NothingWritten ELSE valueWritten
  /\ UNCHANGED outside

\* What a call may touch, as it looks to the test, and as it is.
Allowed(b, uPos, n) == memblocks[b] # NoBlock /\ (uPos + n) % Word <= Len(memblocks[b])
Inside(b, uPos, n) == uPos + n <= Len(memblocks[b])

ByteOf(value, i) == (value \div Byte ^ i) % Byte
ReadMemblock(b, uPos, n) ==
  IF Allowed(b, uPos, n)
  THEN FoldLeft(LAMBDA x, i : x * Byte + memblocks[b][uPos + n - i + 1], 0, [i \in 1 .. n |-> i])
  ELSE 0

\* What a write past the block changes is not the block's.
WriteMemblock(b, uPos, n, value) ==
  /\ Calling
  /\ outside' = (Allowed(b, uPos, n) /\ ~Inside(b, uPos, n))
  /\ IF Allowed(b, uPos, n) /\ Inside(b, uPos, n)
     THEN /\ memblocks' = [memblocks EXCEPT ![b] =
               [i \in DOMAIN @ |-> IF i \in uPos + 1 .. uPos + n THEN ByteOf(value, i - uPos - 1) ELSE @[i]]]
          /\ valueWritten' = [number |-> b, pos |-> uPos, length |-> n, value |-> value]
     ELSE UNCHANGED <<memblocks, valueWritten>>

\* memcpy between blocks and memmove within one come to the same: what was there is copied.
CopyMemblock(from, to, uPosFrom, uPosTo, cBytes) ==
  /\ Calling /\ cBytes # 0
  /\ LET allowed == Allowed(from, uPosFrom, cBytes) /\ Allowed(to, uPosTo, cBytes)
         inside == Inside(from, uPosFrom, cBytes) /\ Inside(to, uPosTo, cBytes)
         over == uPosTo + 1 .. uPosTo + cBytes
     IN /\ outside' = (allowed /\ ~inside)
        /\ IF allowed /\ inside
           THEN /\ memblocks' = [memblocks EXCEPT ![to] =
                     [i \in DOMAIN @ |-> IF i \in over THEN memblocks[from][uPosFrom + i - uPosTo] ELSE @[i]]]
                /\ valueWritten' =
                     IF valueWritten.number = to
                        /\ over \cap (valueWritten.pos + 1 .. valueWritten.pos + valueWritten.length) # {}
                     THEN NothingWritten ELSE valueWritten
           ELSE UNCHANGED <<memblocks, valueWritten>>

MemblockNext ==
  \E b \in MemblockNumbers :
    \/ \E cBytes \in MemblockSizes : MakeMemblock(b, cBytes)
    \/ DeleteMemblock(b)
    \/ \E uPos \in BlockPositions, n \in Lengths :
         \E value \in {1, Byte ^ n - 2} : WriteMemblock(b, uPos, n, value)
    \/ \E c \in MemblockNumbers, uPosFrom, uPosTo \in BlockPositions, cBytes \in Lengths :
         CopyMemblock(b, c, uPosFrom, uPosTo, cBytes)

-----------------------------------------------------------------------------
(* What was written is read, in whole or in halves, until it is overwritten; *)
(* what is read in one piece is what is read in two, whatever was written    *)
(* how; and only a position that wraps leads outside: an end that passes     *)
(* 2^64 looks as though it were in the block.                                *)
MemblocksAgree ==
  /\ valueWritten # NothingWritten =>
       ReadMemblock(valueWritten.number, valueWritten.pos, valueWritten.length) = valueWritten.value
  /\ \A b \in MemblockNumbers : \A uPos \in 0 .. Len(memblocks[b]) - 1, n \in {1, 2} :
       Allowed(b, uPos, 2 * n) =>
         ReadMemblock(b, uPos, 2 * n) = ReadMemblock(b, uPos, n) + Byte ^ n * ReadMemblock(b, uPos + n, n)
  /\ outside => \E uPos \in BlockPositions, n \in Lengths : uPos + n > Word
  /\ \A b \in MemblockNumbers : memblocks[b] = NoBlock => \A uPos \in BlockPositions : ReadMemblock(b, uPos, 1) = 0
=============================================================================
