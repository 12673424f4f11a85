----------------------------- MODULE MemoryTags -----------------------------
(***************************************************************************)
(* Ax::Alloc and Ax::Dealloc (Libs/Allocation/Allocator.cpp): memory under *)
(* tags, each with an allocator of its own or none and with counts that    *)
(* every thread adds to without a lock.  One step is one atomic operation  *)
(* or one read of what the threads share.  Memory is always got, sizes are *)
(* not 0, and a block is given back once.                                  *)
(***************************************************************************)
EXTENDS Integers, SequencesExt, FiniteSetsExt

CONSTANTS
  Users,      \* threads
  Requests,   \* what is asked for: [tag, n]
  Allocators, \* custom allocators
  MaxTags,    \* AX_MAX_MEMTAGS, 256
  StubSize,   \* sizeof(STagStub)
  MaxBlocks   \* bound: how many blocks are got, and allocators set

VARIABLES
  pAllocator, \* of each tag
  Stats,      \* of each tag: cAllocs, cDeallocs, CurMemUsage, MaxMemUsage
  blocks,     \* those that callers hold
  work,       \* what each thread does: where it is, with what block, and what it read
  peak,       \* of each tag, the most that was ever counted
  overlapped, \* a call has begun while another was under way
  alarms,     \* what VerifyAlloc and SetCustomAllocator complained of
  crossed,    \* a block went back to another allocator than it came from
  steps       \* how many blocks were got and allocators set

memoryVars == <<pAllocator, Stats, blocks, work, peak, overlapped, alarms, crossed, steps>>

Misc == 0        \* AX_MEMTAG_MISC
Malloc == "malloc"
Nothing == [id |-> 0, tag |-> Misc, n |-> 0, by |-> Malloc]
Idle == [at |-> "idle", block |-> Nothing, read |-> 0, by |-> Malloc]

Tags == 0 .. MaxTags - 1
GetDetails(tag) == IF tag \in Tags THEN tag ELSE Misc
RealSize(b) == b.n + StubSize

MemoryInit ==
  /\ pAllocator = [g \in Tags |-> Malloc]
  /\ Stats = [g \in Tags |-> [cAllocs |-> 0, cDeallocs |-> 0, CurMemUsage |-> 0, MaxMemUsage |-> 0]]
  /\ blocks = {} /\ work = [u \in Users |-> Idle] /\ peak = [g \in Tags |-> 0]
  /\ overlapped = FALSE /\ alarms = {} /\ crossed = FALSE /\ steps = 0

Tag(u) == GetDetails(work[u].block.tag)
Begin(u) ==
  /\ work[u].at = "idle"
  /\ overlapped' = (overlapped \/ \E v \in Users : work[v].at # "idle")
Goes(u, from, to) == work[u].at = from /\ work' = [work EXCEPT ![u].at = to]
Reads(u, from, to, value) == work[u].at = from /\ work' = [work EXCEPT ![u].at = to, ![u].read = value]

-----------------------------------------------------------------------------
(* Alloc: the memory is there before it is counted.                         *)

AllocGet(u) ==
  /\ Begin(u) /\ steps < MaxBlocks /\ steps' = steps + 1
  /\ \E r \in Requests :
       work' = [work EXCEPT ![u].at = "count",
         ![u].block = [id |-> steps', tag |-> r.tag, n |-> r.n, by |-> pAllocator[GetDetails(r.tag)]]]
  /\ UNCHANGED <<pAllocator, Stats, blocks, peak, alarms, crossed>>

AllocCount(u) ==
  /\ Goes(u, "count", "add")
  /\ Stats' = [Stats EXCEPT ![Tag(u)].cAllocs = @ + 1]
  /\ UNCHANGED <<pAllocator, blocks, peak, overlapped, alarms, crossed, steps>>
\* A faulty one, which leaves out the stub.
AllocAddBare(u) ==
  /\ Goes(u, "add", "current")
  /\ Stats' = [Stats EXCEPT ![Tag(u)].CurMemUsage = @ + work[u].block.n]
  /\ peak' = [peak EXCEPT ![Tag(u)] = IF Stats'[Tag(u)].CurMemUsage > @ THEN Stats'[Tag(u)].CurMemUsage ELSE @]
  /\ UNCHANGED <<pAllocator, blocks, overlapped, alarms, crossed, steps>>
AllocAdd(u) ==
  /\ Goes(u, "add", "current")
  /\ Stats' = [Stats EXCEPT ![Tag(u)].CurMemUsage = @ + RealSize(work[u].block)]
  /\ peak' = [peak EXCEPT ![Tag(u)] = IF Stats'[Tag(u)].CurMemUsage > @ THEN Stats'[Tag(u)].CurMemUsage ELSE @]
  /\ UNCHANGED <<pAllocator, blocks, overlapped, alarms, crossed, steps>>

\* The most is compared with one reading of what there is, and set from another.
AllocReadCurrent(u) ==
  /\ Reads(u, "current", "most", Stats[Tag(u)].CurMemUsage)
  /\ UNCHANGED <<pAllocator, Stats, blocks, peak, overlapped, alarms, crossed, steps>>
AllocCompare(u) ==
  /\ Goes(u, "most", IF work[u].read > Stats[Tag(u)].MaxMemUsage THEN "again" ELSE "got")
  /\ UNCHANGED <<pAllocator, Stats, blocks, peak, overlapped, alarms, crossed, steps>>
AllocReadAgain(u) ==
  /\ Reads(u, "again", "exchange", Stats[Tag(u)].CurMemUsage)
  /\ UNCHANGED <<pAllocator, Stats, blocks, peak, overlapped, alarms, crossed, steps>>
AllocExchange(u) ==
  /\ Goes(u, "exchange", "got")
  /\ Stats' = [Stats EXCEPT ![Tag(u)].MaxMemUsage = work[u].read]
  /\ UNCHANGED <<pAllocator, blocks, peak, overlapped, alarms, crossed, steps>>
AllocReturn(u) ==
  /\ work[u].at = "got" /\ work' = [work EXCEPT ![u] = Idle]
  /\ blocks' = blocks \cup {work[u].block}
  /\ UNCHANGED <<pAllocator, Stats, peak, overlapped, alarms, crossed, steps>>

-----------------------------------------------------------------------------
(* Dealloc: the counts are looked at, and the memory goes before they change. *)

DeallocBegin(u) ==
  /\ Begin(u)
  /\ \E b \in blocks :
       /\ blocks' = blocks \ {b}
       /\ work' = [work EXCEPT ![u] = [at |-> "verify", block |-> b, read |-> 0, by |-> pAllocator[GetDetails(b.tag)]]]
  /\ UNCHANGED <<pAllocator, Stats, peak, alarms, crossed, steps>>

VerifyAllocs(u) ==
  /\ Reads(u, "verify", "deallocs", Stats[Tag(u)].cAllocs)
  /\ UNCHANGED <<pAllocator, Stats, blocks, peak, overlapped, alarms, crossed, steps>>
VerifyDeallocs(u) ==
  /\ Goes(u, "deallocs", IF work[u].read <= Stats[Tag(u)].cDeallocs THEN "free" ELSE "usage")
  /\ alarms' = IF work[u].read <= Stats[Tag(u)].cDeallocs THEN alarms \cup {"cAllocs > cDeallocs"} ELSE alarms
  /\ UNCHANGED <<pAllocator, Stats, blocks, peak, overlapped, crossed, steps>>
VerifyUsage(u) ==
  /\ Goes(u, "usage", "free")
  /\ alarms' = IF Stats[Tag(u)].CurMemUsage < RealSize(work[u].block)
               THEN alarms \cup {"CurMemUsage >= RealSize"} ELSE alarms
  /\ UNCHANGED <<pAllocator, Stats, blocks, peak, overlapped, crossed, steps>>

DeallocFree(u) ==
  /\ Goes(u, "free", "uncount")
  /\ crossed' = (crossed \/ work[u].by # work[u].block.by)
  /\ UNCHANGED <<pAllocator, Stats, blocks, peak, overlapped, alarms, steps>>
DeallocCount(u) ==
  /\ Goes(u, "uncount", "subtract")
  /\ Stats' = [Stats EXCEPT ![Tag(u)].cDeallocs = @ + 1]
  /\ UNCHANGED <<pAllocator, blocks, peak, overlapped, alarms, crossed, steps>>
DeallocSubtract(u) ==
  /\ work[u].at = "subtract" /\ work' = [work EXCEPT ![u] = Idle]
  /\ Stats' = [Stats EXCEPT ![Tag(u)].CurMemUsage = @ - RealSize(work[u].block)]
  /\ UNCHANGED <<pAllocator, blocks, peak, overlapped, alarms, crossed, steps>>

-----------------------------------------------------------------------------
(* SetCustomAllocator: what is outstanding is read, one count at a time.  An *)
(* assertion complains if there is something, in a build that has them; the *)
(* allocator is set all the same.                                           *)

SetBegin(u) ==
  /\ Begin(u) /\ steps < MaxBlocks /\ steps' = steps + 1
  /\ \E g \in Tags, a \in Allocators \cup {Malloc} :
       work' = [work EXCEPT ![u] = [at |-> "set", block |-> [Nothing EXCEPT !.tag = g],
                                    read |-> Stats[g].cAllocs, by |-> a]]
  /\ UNCHANGED <<pAllocator, Stats, blocks, peak, alarms, crossed>>
Outstanding == "numOutstandingAllocs == 0"
SetCustomAllocator(u) ==
  /\ work[u].at = "set" /\ work' = [work EXCEPT ![u] = Idle]
  /\ pAllocator' = [pAllocator EXCEPT ![Tag(u)] = work[u].by]
  /\ alarms' = IF work[u].read # Stats[Tag(u)].cDeallocs THEN alarms \cup {Outstanding} ELSE alarms
  /\ UNCHANGED <<Stats, blocks, peak, overlapped, crossed, steps>>

MemoryNext ==
  \E u \in Users :
    \/ AllocGet(u) \/ AllocCount(u) \/ AllocAdd(u) \/ AllocReadCurrent(u) \/ AllocCompare(u)
    \/ AllocReadAgain(u) \/ AllocExchange(u) \/ AllocReturn(u)
    \/ DeallocBegin(u) \/ VerifyAllocs(u) \/ VerifyDeallocs(u) \/ VerifyUsage(u)
    \/ DeallocFree(u) \/ DeallocCount(u) \/ DeallocSubtract(u)
    \/ SetBegin(u) \/ SetCustomAllocator(u)

MemorySpec == MemoryInit /\ [][MemoryNext]_memoryVars

-----------------------------------------------------------------------------
(* UnsignedIntegerToString, for the messages.  Its loop waits for a value    *)
(* that it never changes, so that every number but 0 is written as many      *)
(* digits long as the buffer is, and the first is in front of it.            *)

ToDigits(n, radix, count) == [i \in 1 .. count |-> (n \div radix ^ (count - i)) % radix]

\* The digits, and where the text starts: with radix 16, "0x" is in front of them.
UnsignedIntegerToString(cOutBufferMax, kPadding, uValue, uRadix) ==
  LET count == IF uValue > 0 THEN cOutBufferMax ELSE IF uRadix = 16 THEN kPadding ELSE 1
  IN [digits |-> ToDigits(uValue, uRadix, count),
      start |-> cOutBufferMax - 1 - count - (IF uRadix = 16 THEN 2 ELSE 0)]

NumbersRead ==
  \A v \in 0 .. 40, radix \in {10, 16} :
    LET text == UnsignedIntegerToString(6, 3, v, radix)
    IN /\ FoldLeft(LAMBDA n, d : n * radix + d, 0, text.digits) = v
       /\ text.start < 0 <=> v > 0

(* What is counted is what is held, whatever the order in which the threads *)
(* get memory and give it back; the most ever held is never overstated, and *)
(* known when no calls overlap.  It is then that no block held by its       *)
(* caller is complained of, and that each goes back to where it came from   *)
(* or SetCustomAllocator has complained.  With calls that overlap,          *)
(* VerifyAlloc's two reads can be of two moments, but a usage that is too   *)
(* small is never seen.                                                     *)
CountsAgree ==
  LET resting == \A u \in Users : work[u].at = "idle"
      held(g) == {b \in blocks : GetDetails(b.tag) = g}
  IN /\ resting => \A g \in Tags :
          /\ Stats[g].cAllocs - Stats[g].cDeallocs = Cardinality(held(g))
          /\ Stats[g].CurMemUsage = MapThenSumSet(RealSize, held(g))
          /\ ~overlapped => Stats[g].MaxMemUsage = peak[g]
     /\ \A g \in Tags : Stats[g].MaxMemUsage <= peak[g]
     /\ alarms \ {Outstanding} \subseteq IF overlapped THEN {"cAllocs > cDeallocs"} ELSE {}
     /\ crossed => overlapped \/ Outstanding \in alarms
     /\ steps = 0 => NumbersRead
=============================================================================
