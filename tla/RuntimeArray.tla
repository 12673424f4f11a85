---------------------------- MODULE RuntimeArray ----------------------------
(***************************************************************************)
(* The arrays of a script (TenshiRuntime.c): a header, with the dimensions *)
(* the array was made with, the number of its items and a current index,   *)
(* in front of the items themselves.  An array of one dimension is         *)
(* modelled, whose items have an instance that pfnInit makes, pfnMove      *)
(* takes away and pfnFini ends.  A built-in type has no pfnMove to call,   *)
(* so an insertion into its array, or a deletion, may be one at the end    *)
(* only.  A command that gets no memory changes nothing and is left out.   *)
(***************************************************************************)
EXTENDS Naturals, Sequences, FiniteSetsExt, Pointers

CONSTANTS
  Instances,        \* the instances that can exist at once
  MaxQuantity,      \* the most items that one command adds or removes
  RedimAfterResize  \* TRUE: an array may be redimensioned after its size changed

\* An array of the script's is at an address, and so is an item.
Arrays == [items : Seq(Instances \cup {NULL}), cItems : Nat, uDimension : Nat, uIndex : Nat]

ASSUME InstancesAssumption == Instances \subseteq Nat /\ NULL \notin Instances
ASSUME ArraysAssumption == NULL \notin Arrays
ASSUME QuantityAssumption == MaxQuantity \in Nat

VARIABLES
  pArr,      \* the script's array, NULL when there is none
  made,      \* the instances that were made and not yet ended
  endings    \* the slots that the last command ended, in order

arrayVars == <<pArr, made, endings>>

\* What a slot holds once its instance was moved away or ended.
Husk == NULL

ArrayInit == pArr = NULL /\ made = {} /\ endings = <<>>

\* teInitTypeInstance on n slots.
Fresh(n) == {q \in [1 .. n -> Instances \ made] : \A i, j \in 1 .. n : i < j => q[i] < q[j]}

Held(q) == {q[i] : i \in DOMAIN q} \ {Husk}

Husks(n) == [i \in 1 .. n |-> Husk]

\* The command leaves the array a, having made the instances of `new`, and called
\* teFiniTypeInstance on the slots of `old`, of which a husk has nothing to end.
Leaves(a, new, old) ==
  /\ pArr' = a
  /\ made' = (made \cup Held(new)) \ Held(old)
  /\ endings' = old

-----------------------------------------------------------------------------
(* Dimensions. *)

Array(items, uDimension, uIndex) ==
  [items |-> items, cItems |-> Len(items), uDimension |-> uDimension, uIndex |-> uIndex]

\* teArrayDim.
Dim(n) ==
  /\ pArr = NULL
  /\ \E new \in Fresh(n) : Leaves(Array(new, n, 0), new, <<>>)

\* teArrayUndim ends the first cItems slots.
Undim ==
  /\ pArr # NULL
  /\ Leaves(NULL, <<>>, SubSeq(pArr.items, 1, pArr.cItems))

\* teArrayRedim: as many items are moved as the old dimension says there are.
\* teArrayUndim then ends what the old array still has.
Redim(n) ==
  /\ pArr # NULL
  /\ RedimAfterResize \/ pArr.uDimension = pArr.cItems
  /\ LET cMoveItems == Min({pArr.uDimension, n})
         left == Husks(cMoveItems) \o SubSeq(pArr.items, cMoveItems + 1, pArr.cItems)
     IN \E new \in Fresh(n - cMoveItems) :
          Leaves(Array(SubSeq(pArr.items, 1, cMoveItems) \o new, n, 0), new, left)

-----------------------------------------------------------------------------
(* Insertion and deletion. *)

\* A faulty insertion, which copies the remainder from one too far on.
InsertElementsSkipping(a, uBefore, new) ==
  LET uTop == Min({uBefore, a.cItems})
  IN Array(SubSeq(a.items, 1, uTop) \o new \o SubSeq(a.items, uTop + 2, a.cItems),
           a.uDimension, uTop)

\* A faulty insertion, which puts the remainder in front.
InsertElementsTurned(a, uBefore, new) ==
  LET uTop == Min({uBefore, a.cItems})
  IN Array(SubSeq(a.items, uTop + 1, a.cItems) \o new \o SubSeq(a.items, 1, uTop),
           a.uDimension, uTop)

\* teArrayInsertElements: a larger array takes the place of the old one, whose
\* dimensions it keeps.  The old slots are ended as husks.
InsertElements(a, uBefore, new) ==
  LET uTop == Min({uBefore, a.cItems})
  IN Array(SubSeq(a.items, 1, uTop) \o new \o SubSeq(a.items, uTop + 1, a.cItems),
           a.uDimension, uTop)

\* teArrayDeleteElements: the last of the slots is ended first, those after them
\* are moved down one by one, and nothing is moved over the slots at the end.
Top(a, uFirst, cDeletes) == Min({uFirst + cDeletes, a.cItems})
DeletedSlots(a, uFirst, cDeletes) ==
  [i \in 1 .. Top(a, uFirst, cDeletes) - uFirst |->
     a.items[Top(a, uFirst, cDeletes) + 1 - i]]
DeleteElements(a, uFirst, cDeletes) ==
  LET uTop == Top(a, uFirst, cDeletes)
      uRemainder == a.cItems - uTop
  IN [a EXCEPT
        !.items = SubSeq(@, 1, uFirst) \o SubSeq(@, uTop + 1, a.cItems)
                    \o Husks(Len(@) - uFirst - uRemainder),
        !.cItems = @ - (uTop - uFirst)]

IndexToBottom(a) == [a EXCEPT !.uIndex = IF a.cItems > 0 THEN a.cItems - 1 ELSE 0]
IndexToTop(a) == [a EXCEPT !.uIndex = 0]

\* teArrayInsertAtTop, ...AtBottom, ...AtElement and those of a quantity.
InsertItems(uBefore, n) ==
  /\ pArr # NULL
  /\ \E new \in Fresh(n) : Leaves(InsertElements(pArr, uBefore, new), new, <<>>)

\* teArrayDeleteElementAt, teArrayDeleteElement, teEmptyArray.
DeleteItems(uFirst, n) ==
  /\ pArr # NULL /\ uFirst < pArr.cItems
  /\ Leaves(DeleteElements(pArr, uFirst, n), <<>>, DeletedSlots(pArr, uFirst, n))

\* teAddToStack, teAddToQueue: an item at either end, and the index on the last.
Add(uBefore) ==
  /\ pArr # NULL
  /\ \E new \in Fresh(1) :
       Leaves(IndexToBottom(InsertElements(pArr, uBefore, new)), new, <<>>)

\* teRemoveFromStack, which does nothing to an empty array.
RemoveFromStack ==
  /\ pArr # NULL /\ pArr.cItems > 0
  /\ Leaves(IndexToBottom(DeleteElements(pArr, pArr.cItems - 1, 1)), <<>>,
            DeletedSlots(pArr, pArr.cItems - 1, 1))

\* teRemoveFromQueue, which moves the index of an empty array too.
RemoveFromQueue ==
  /\ pArr # NULL
  /\ IF pArr.cItems > 0
     THEN Leaves(IndexToTop(DeleteElements(pArr, 0, 1)), <<>>, DeletedSlots(pArr, 0, 1))
     ELSE Leaves(IndexToTop(pArr), <<>>, <<>>)

\* teArrayIndexToTop, ...ToBottom, ...ToNext, ...ToPrevious, ...ToStack, ...ToQueue.
MoveIndex ==
  /\ pArr # NULL
  /\ \E a \in {IndexToTop(pArr), IndexToBottom(pArr),
               [pArr EXCEPT !.uIndex = IF @ + 1 < pArr.cItems THEN @ + 1 ELSE @],
               [pArr EXCEPT !.uIndex = IF @ > 0 THEN @ - 1 ELSE 0]} :
       Leaves(a, <<>>, <<>>)

ArrayNext ==
  \/ \E n \in 0 .. MaxQuantity : Dim(n) \/ Redim(n)
  \/ Undim
  \/ pArr # NULL /\ \E u \in 0 .. pArr.cItems, n \in 1 .. MaxQuantity :
       InsertItems(u, n) \/ DeleteItems(u, n)
  \/ pArr # NULL /\ (Add(0) \/ Add(pArr.cItems))
  \/ RemoveFromStack \/ RemoveFromQueue \/ MoveIndex

ArraySpec == ArrayInit /\ [][ArrayNext]_arrayVars

-----------------------------------------------------------------------------
(* Every instance that was made and not ended is the item of one place of   *)
(* the array, every place has one, and a command ends no instance twice:    *)
(* items are moved between arrays and within one by teArrayRedim,           *)
(* teArrayInsertElements and teArrayDeleteElements without being lost.      *)
ArrayOwns ==
  /\ \A i, j \in DOMAIN endings : endings[i] = endings[j] /\ endings[i] # Husk => i = j
  /\ IF pArr = NULL THEN made = {}
     ELSE LET here == SubSeq(pArr.items, 1, pArr.cItems)
          IN /\ pArr.cItems <= Len(pArr.items)
             /\ Held(here) = made /\ Cardinality(made) = pArr.cItems

\* No command swaps two items that it keeps, wherever it inserts or deletes.
Before(x, y) ==
  pArr # NULL /\ \E i, j \in 1 .. pArr.cItems :
                   i < j /\ pArr.items[i] = x /\ pArr.items[j] = y
KeepsOrder == \A x, y \in made \cap made' : Before(x, y) /\ pArr' # NULL => Before(x, y)'
ArrayKeepsOrder == [][KeepsOrder]_arrayVars
=============================================================================
