----------------------------- MODULE ObjectPool -----------------------------
(***************************************************************************)
(* TenshiObjectPool_t (TenshiRuntime.c): the table through which a script  *)
(* holds engine objects (memblocks, random number generators) by number.   *)
(* A number is an index from 1; with SAFE_HANDLES_ENABLED, in debug        *)
(* builds, it also carries the pool's number and the age of its slot,      *)
(* which a deallocation advances, so that a number kept for too long is    *)
(* told from its successor.                                                *)
(*                                                                         *)
(* The ages lie in a word of their own for 16 slots.  The code shifts them *)
(* by the slot's number and not by that times their width, so that they    *)
(* overlap, and compares without a mask; the model does the same.          *)
(* Memory for the table itself does not run out.                           *)
(***************************************************************************)
EXTENDS Integers, Pointers

CONSTANTS
  Objects,      \* what pfnAlloc may return
  RESERVED,     \* RESERVEDPTR
  Pool,         \* this pool's number
  kGrain,       \* the table grows by multiples of this
  LastSlot,     \* a bound: the last slot a script gets to (below 16)
  AgeBits,      \* 4 in the code
  MaxDeallocs   \* a bound on deallocations

\* What a script holds: the number of an object.  NULL is FREEPTR, and stands for no number too.
ObjectNumbers == [index : Nat, pool : Nat, age : Nat]

ASSUME PoolAssumption ==
  /\ NULL # RESERVED /\ {NULL, RESERVED} \cap Objects = {} /\ NULL \notin ObjectNumbers
  /\ Pool \in Nat /\ kGrain \in Nat \ {0} /\ LastSlot \in Nat /\ AgeBits \in Nat /\ MaxDeallocs \in Nat

\* What is shifted by a slot's number, or by the width of an age.
ASSUME ShiftsAssumption == \A n \in 0 .. LastSlot + AgeBits : 2^n \in Nat \ {0}

VARIABLES
  ppObjects,    \* the table
  cCapacity,    \* its size, as the pool records it
  pAges,        \* the word of ages
  safe,         \* SAFE_HANDLES_ENABLED
  poolPc,       \* "up", "down" after teFiniEnginePool, or "crashed" in it
  held,         \* the number given out for each object that exists, or NULL
  stale,        \* numbers of objects that were deallocated
  lost,         \* objects that the script wrote over, never to be deallocated
  grown,        \* how often the table has grown: 0, 1, or 2 for more
  deallocs      \* how many objects were deallocated

poolVars == <<ppObjects, cCapacity, pAges, safe, poolPc, held, stale, lost, grown, deallocs>>

PoolSlots == 0 .. LastSlot

PoolInit ==
  /\ ppObjects = [i \in PoolSlots |-> NULL]
  /\ cCapacity = 0
  /\ pAges = 0
  /\ safe \in BOOLEAN
  /\ poolPc = "up"
  /\ held = [o \in Objects |-> NULL]
  /\ stale = {} /\ lost = {} /\ grown = 0 /\ deallocs = 0

-----------------------------------------------------------------------------

\* The 4 bits of slot i, by a shift of i bits.
Age(i) == (pAges \div 2^i) % 2^AgeBits

\* teWrapEngineObject.
Wrap(i) ==
  [index |-> i + 1, pool |-> IF safe THEN Pool ELSE 0, age |-> IF safe THEN Age(i) ELSE 0]

\* A number that a script made up itself.
PlainNumber(i) == [index |-> i + 1, pool |-> 0, age |-> 0]

Slot(h) == h.index - 1

\* The age and the pool are looked at when the number has any.
AgeFits(h) ==
  \/ h.pool = 0 /\ h.age = 0
  \/ h.pool = Pool /\ pAges \div 2^Slot(h) = h.age

\* teUnwrapEngineObject.
Unwrap(h) ==
  IF \/ safe /\ (Slot(h) >= cCapacity \/ ~AgeFits(h))
     \/ ppObjects[Slot(h)] = RESERVED
    THEN NULL
    ELSE ppObjects[Slot(h)]

\* teEngineObjectExists.
ObjectExists(h) == Slot(h) < cCapacity /\ ppObjects[Slot(h)] \notin {NULL, RESERVED}

\* teAllocEngineIndex: the table, its recorded size and the number of growths
\* once slot i is there.  What is recorded is by how much the table has grown.
NewCapacity(i) == (i \div kGrain + 1) * kGrain

MoreGrown == IF grown = 2 THEN 2 ELSE grown + 1

Room(i) ==
  IF i < cCapacity
    THEN [table |-> ppObjects, capacity |-> cCapacity, grown |-> grown]
    ELSE [table |-> [s \in PoolSlots |-> IF s >= cCapacity THEN NULL ELSE ppObjects[s]],
          capacity |-> NewCapacity(i) - cCapacity,
          grown |-> MoreGrown]

FreeSlots == {i \in PoolSlots : i < cCapacity /\ ppObjects[i] = NULL}

\* teFindEngineIndex: the last free slot, or the one after the table.
IsFreeIndex(i) ==
  IF FreeSlots = {} THEN i = cCapacity ELSE i \in FreeSlots /\ \A j \in FreeSlots : j <= i

\* teAllocEngineObject once the slot is chosen, and with it the objects that the
\* script asked to replace.  pfnAlloc may return NULL.
AllocIn(i, replaced) ==
  /\ i \in PoolSlots
  /\ \E o \in {o \in Objects : held[o] = NULL /\ o \notin lost} \cup {NULL} :
       /\ ppObjects' = [Room(i).table EXCEPT ![i] = o]
       /\ held' = [p \in Objects |->
                     IF p = o THEN Wrap(i) ELSE IF p \in replaced THEN NULL ELSE held[p]]
  /\ cCapacity' = Room(i).capacity
  /\ grown' = Room(i).grown
  /\ lost' = lost \cup replaced
  /\ UNCHANGED <<pAges, safe, poolPc, stale, deallocs>>

\* teAllocEngineObject with 0: a slot is found.
Alloc == poolPc = "up" /\ \E i \in PoolSlots : IsFreeIndex(i) /\ AllocIn(i, {})

\* ... with a number of the script's choice: an object of that number is written
\* over.
Make == poolPc = "up" /\ \E i \in PoolSlots : AllocIn(i, {Room(i).table[i]} \cap Objects)

\* teReserveIndexes, from slot first up to and without slot end.
Reserve ==
  /\ poolPc = "up"
  /\ \E first, end \in PoolSlots :
       /\ first < end
       /\ ppObjects' = [s \in PoolSlots |->
                          IF s \in first .. end - 1 /\ Room(end).table[s] = NULL
                            THEN RESERVED ELSE Room(end).table[s]]
       /\ cCapacity' = Room(end).capacity
       /\ grown' = Room(end).grown
  /\ UNCHANGED <<pAges, safe, poolPc, held, stale, lost, deallocs>>

\* The age of slot i after its object is gone.
Aged(i) == pAges - Age(i) * 2^i + ((Age(i) + 1) % 2^AgeBits) * 2^i

ClearedNot(i) == ppObjects
Cleared(i) == [ppObjects EXCEPT ![i] = NULL]

\* teDeallocEngineObject, with a number that was given out, be it for an object
\* that is gone, or with one made up.
Dealloc ==
  /\ poolPc = "up"
  /\ deallocs < MaxDeallocs
  /\ \E h \in {held[o] : o \in Objects} \cup stale
              \cup {PlainNumber(i) : i \in {i \in PoolSlots : i < cCapacity}} :
       LET o == IF h = NULL THEN NULL ELSE Unwrap(h)
       IN /\ o # NULL
          /\ ppObjects' = Cleared(Slot(h))
          /\ pAges' = IF safe THEN Aged(Slot(h)) ELSE pAges
          /\ stale' = IF held[o] = NULL THEN stale ELSE stale \cup {held[o]}
          /\ held' = [held EXCEPT ![o] = NULL]
  /\ deallocs' = deallocs + 1
  /\ UNCHANGED <<cCapacity, safe, poolPc, lost, grown>>

\* teFiniEnginePool passes what is in a slot to pfnDealloc, RESERVEDPTR included.
Fini ==
  LET all == {i \in PoolSlots : i < cCapacity}
      gone == {o \in Objects : \E i \in all : ppObjects[i] = o}
  IN /\ poolPc = "up"
     /\ poolPc' = IF \E i \in all : ppObjects[i] = RESERVED THEN "crashed" ELSE "down"
     /\ ppObjects' = [i \in PoolSlots |-> IF i \in all THEN NULL ELSE ppObjects[i]]
     /\ cCapacity' = 0
     /\ held' = [o \in Objects |-> IF o \in gone THEN NULL ELSE held[o]]
     /\ UNCHANGED <<pAges, safe, stale, lost, grown, deallocs>>

PoolNext == Alloc \/ Make \/ Reserve \/ Dealloc \/ Fini

PoolSpec == PoolInit /\ [][PoolNext]_poolVars

-----------------------------------------------------------------------------

\* Without safe handles, and until the table grows for a second time, the number
\* a script holds leads to its object, whatever others were made, deleted and
\* made again in between: no two objects share a slot, and a deallocated object
\* is not found in any.
LiveReachable ==
  poolPc = "up" /\ ~safe /\ grown <= 1 =>
    \A o \in Objects : held[o] # NULL => Unwrap(held[o]) = o /\ ObjectExists(held[o])

\* The table never leads to an object that was passed to pfnDealloc.
NoDangling ==
  \A i \in PoolSlots : ppObjects[i] \in Objects => held[ppObjects[i]] # NULL

\* While a pool has had one object at a time, in one slot, the number of an
\* object that is gone leads nowhere, until the ages come round.
GivenOut == stale \cup ({held[o] : o \in Objects} \ {NULL})
OneSlot == \A h, g \in GivenOut : h.index = g.index
StaleRefused ==
  poolPc = "up" /\ safe /\ OneSlot /\ deallocs < 2^AgeBits =>
    \A h \in stale : Pool # 0 \/ h.age # 0 => Unwrap(h) = NULL

\* When the runtime closes, every object is deallocated whose slot was not
\* written over, unless the table grew for a second time.
FiniFreesAll == poolPc = "down" /\ grown <= 1 => \A o \in Objects : held[o] = NULL

\* The number of an object leads to it for as long as it exists, and to no object
\* after: neither to memory that was deallocated nor, while the ages tell them
\* apart, to the object that has taken its slot; and when the pool is finished it
\* has deallocated all.
NumbersLead == LiveReachable /\ NoDangling /\ StaleRefused /\ FiniFreesAll
=============================================================================
