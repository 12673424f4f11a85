---------------------------- MODULE RuntimeList ----------------------------
(***************************************************************************)
(* TenshiList_t (TenshiRuntime.c): a doubly linked list with a current     *)
(* node and a cache of the last node looked up by index.  A script calls   *)
(* its functions one at a time, in any order.  teEmptyList is a loop, and  *)
(* has a step for each turn of it; every other function is one step.       *)
(*                                                                         *)
(* Functions over items (teListInsert, teListAt, ...) are the ones over    *)
(* nodes, with the item's address in place of the node's.  An insertion    *)
(* that gets no memory changes nothing and is left out.                    *)
(***************************************************************************)
EXTENDS Naturals, Pointers

CONSTANTS
  Nodes,       \* the nodes that can be allocated at once
  SingleMoves  \* TRUE: the only item of a list may be moved to its front or back

ASSUME NULLAssumption == NULL \notin Nodes

VARIABLES
  list,   \* the list and the links of its nodes
  live,   \* the nodes that are allocated
  pc      \* "idle", "emptying", "deleting", or "none" before teNewList

vars == <<list, live, pc>>

NoNodes == [n \in Nodes |-> NULL]

NewList ==
  [pHead |-> NULL, pTail |-> NULL, pCurr |-> NULL, cItems |-> 0,
   uCachedIndex |-> 0, pCachedIndex |-> NULL, pNext |-> NoNodes, pPrev |-> NoNodes]

Init == list = NewList /\ live = {} /\ pc = "none"

\* teNewList.
New == pc = "none" /\ pc' = "idle" /\ UNCHANGED <<list, live>>

\* The cache is dropped.
UncachedIndex(l) == [l EXCEPT !.uCachedIndex = 0]
Uncached(l) == [l EXCEPT !.pCachedIndex = NULL, !.uCachedIndex = 0]

-----------------------------------------------------------------------------
(* Links. *)

\* The list after its node p was told its successor is x, where p = NULL stands
\* for the list's head; and the other way round.
SetNext(l, p, x) ==
  IF p = NULL THEN [l EXCEPT !.pHead = x] ELSE [l EXCEPT !.pNext[p] = x]

SetPrev(l, x, p) ==
  IF x = NULL THEN [l EXCEPT !.pTail = p] ELSE [l EXCEPT !.pPrev[x] = p]

\* Between p and x, both told.
Link(l, p, n, x) ==
  SetPrev(SetNext([l EXCEPT !.pPrev[n] = p, !.pNext[n] = x], p, n), x, n)

\* n is taken from between its neighbours.
BypassOneWay(l, n) ==
  [SetPrev(l, l.pNext[n], l.pPrev[n]) EXCEPT !.pPrev[n] = NULL, !.pNext[n] = NULL]
Bypass(l, n) ==
  [SetPrev(SetNext(l, l.pPrev[n], l.pNext[n]), l.pNext[n], l.pPrev[n])
     EXCEPT !.pPrev[n] = NULL, !.pNext[n] = NULL]

\* List_Unlink.  List_FixCachedIndex moves the cache off the node; as another
\* node is cached by then, or none, the cache is then dropped.
UnlinkKeepingCurr(l, n) == Uncached(Bypass(l, n))
Unlink(l, n) == Uncached([Bypass(l, n) EXCEPT !.pCurr = IF @ = n THEN NULL ELSE @])

-----------------------------------------------------------------------------
(* The functions of a script. *)

\* teListInsertBeforeNode, to which every insertion comes down: in front of x,
\* or at the back when x is NULL.
InsertBefore(x) ==
  \E n \in Nodes \ live :
    /\ live' = live \cup {n}
    /\ list' = Uncached([Link(list, IF x = NULL THEN list.pTail ELSE list.pPrev[x], n, x)
                           EXCEPT !.cItems = @ + 1])
    /\ UNCHANGED pc

\* Before or after a node of the script's choice, before the current one, and
\* in front and at the back.
Insert ==
  /\ pc = "idle"
  /\ \/ \E n \in live : InsertBefore(n) \/ InsertBefore(list.pNext[n])
     \/ InsertBefore(list.pCurr)
     \/ InsertBefore(list.pHead)
     \/ InsertBefore(NULL)

Deleted(n) == [Unlink(list, n) EXCEPT !.cItems = @ - 1]

\* teListDeleteNode, teListDeleteFront, teListDeleteBack, teListDelete.
Delete ==
  /\ pc = "idle"
  /\ \E n \in live : list' = Deleted(n) /\ live' = live \ {n}
  /\ UNCHANGED pc

\* teListToFront, ToBack, ResetCurrent; ToPrevious and ToNext of a current node.
Seek ==
  /\ pc = "idle"
  /\ \E n \in {list.pHead, list.pTail, NULL} \cup
              (IF list.pCurr = NULL THEN {} ELSE {list.pPrev[list.pCurr], list.pNext[list.pCurr]}) :
       list' = [list EXCEPT !.pCurr = n]
  /\ UNCHANGED <<live, pc>>

\* teListMoveToFront and teListMoveToBack.  When no other node is left, only the
\* one end of the list is set.
MovedToFront(l, n) ==
  IF l.pHead = NULL
    THEN [l EXCEPT !.pHead = n]
    ELSE [l EXCEPT !.pNext[n] = l.pHead, !.pPrev[l.pHead] = n, !.pHead = n]

MovedToBackUnlinked(l, n) ==
  IF l.pTail = NULL
    THEN [l EXCEPT !.pTail = n]
    ELSE [l EXCEPT !.pPrev[n] = l.pTail, !.pTail = n]

MovedToBack(l, n) ==
  IF l.pTail = NULL
    THEN [l EXCEPT !.pTail = n]
    ELSE [l EXCEPT !.pPrev[n] = l.pTail, !.pNext[l.pTail] = n, !.pTail = n]

MoveToEnd ==
  /\ pc = "idle"
  /\ list.pCurr # NULL
  /\ SingleMoves \/ list.cItems > 1
  /\ LET l == Unlink(list, list.pCurr)
     IN list' \in {MovedToFront(l, list.pCurr), MovedToBack(l, list.pCurr)}
  /\ UNCHANGED <<live, pc>>

\* teListMoveToPrevious and teListMoveToNext: the current node is taken out and
\* put on the other side of its neighbour, and stays current.
MovePast ==
  /\ pc = "idle"
  /\ list.pCurr # NULL
  /\ LET n == list.pCurr
         l == Unlink(list, n)
         before == list.pPrev[n]
         after == list.pNext[n]
     IN \/ before # NULL /\ list' = [Link(l, l.pPrev[before], n, before) EXCEPT !.pCurr = n]
        \/ after # NULL /\ list' = [Link(l, after, n, l.pNext[after]) EXCEPT !.pCurr = n]
  /\ UNCHANGED <<live, pc>>

\* The node k links away from n, or NULL where the links end before.
Away(link, n, k) ==
  LET at[j \in 0 .. k] ==
        IF j = 0 THEN n ELSE IF at[j - 1] = NULL THEN NULL ELSE link[at[j - 1]]
  IN at[k]

\* teListNodeAt walks from the cached node, or else from the nearer end.  (A walk
\* that meets NULL dereferences it: such a call is not followed further.)
FromNearerEnd(l, u) ==
  IF u > l.cItems \div 2
    THEN [l EXCEPT !.pCachedIndex = l.pTail, !.uCachedIndex = l.cItems - 1]
    ELSE [l EXCEPT !.pCachedIndex = l.pHead, !.uCachedIndex = 0]

NodeAt ==
  /\ pc = "idle"
  /\ \E u \in 0 .. list.cItems - 1 :
       LET l == IF list.pCachedIndex = NULL THEN FromNearerEnd(list, u) ELSE list
           node == IF l.uCachedIndex < u
                     THEN Away(l.pNext, l.pCachedIndex, u - l.uCachedIndex)
                     ELSE Away(l.pPrev, l.pCachedIndex, l.uCachedIndex - u)
       IN node # NULL /\ list' = [l EXCEPT !.uCachedIndex = u, !.pCachedIndex = node]
  /\ UNCHANGED <<live, pc>>

-----------------------------------------------------------------------------
(* teEmptyList and teDeleteList. *)

Empty == pc = "idle" /\ pc' \in {"emptying", "deleting"} /\ UNCHANGED <<list, live>>

\* A turn of the loop; deleting a NULL node does nothing.
EmptyTurn ==
  /\ pc \in {"emptying", "deleting"}
  /\ list.pHead # NULL
  /\ list.pTail # NULL
  /\ list' = Deleted(list.pTail)
  /\ live' = live \ {list.pTail}
  /\ UNCHANGED pc

\* The list is empty: teEmptyList returns, and teDeleteList frees it.
Emptied ==
  /\ pc \in {"emptying", "deleting"}
  /\ list.pHead = NULL
  /\ pc' = IF pc = "emptying" THEN "idle" ELSE "none"
  /\ list' = IF pc = "emptying" THEN list ELSE NewList
  /\ UNCHANGED live

Next ==
  New \/ Insert \/ Delete \/ Seek \/ MoveToEnd \/ MovePast \/ NodeAt
      \/ Empty \/ EmptyTurn \/ Emptied

Spec == Init /\ [][Next]_vars

\* A function that was called is executed.
FairSpec == Spec /\ WF_vars(EmptyTurn) /\ WF_vars(Emptied)

-----------------------------------------------------------------------------
(* Properties. *)

\* No link leads to a node that was freed.
TypeOK ==
  /\ live \subseteq Nodes
  /\ pc \in {"none", "idle", "emptying", "deleting"}
  /\ list \in [pHead : live \cup {NULL}, pTail : live \cup {NULL},
               pCurr : live \cup {NULL}, pCachedIndex : live \cup {NULL},
               cItems : Nat, uCachedIndex : Nat,
               pNext : [Nodes -> live \cup {NULL}], pPrev : [Nodes -> live \cup {NULL}]]

\* The items in order, as a walk along pNext meets them.
Items == [i \in 1 .. list.cItems |-> Away(list.pNext, list.pHead, i - 1)]

\* A walk from the head meets every node once and ends, and a walk back from the
\* tail meets the same nodes in the opposite order: what is inserted is neither
\* lost nor shown twice, whichever way a script goes.
Linked ==
  /\ {Items[i] : i \in 1 .. list.cItems} = live
  /\ \A i, j \in 1 .. list.cItems : Items[i] = Items[j] => i = j
  /\ \A i \in 1 .. list.cItems :
       Items[i] = Away(list.pPrev, list.pTail, list.cItems - i)
  /\ live = {} => list.pHead = NULL /\ list.pTail = NULL
  /\ live # {} => list.pPrev[list.pHead] = NULL /\ list.pNext[list.pTail] = NULL

\* The cached node is the one at the cached index, after every insertion,
\* deletion and move: teListNodeAt, which walks from it, finds the right node.
CacheRight ==
  list.pCachedIndex # NULL =>
    list.uCachedIndex < list.cItems /\ Items[list.uCachedIndex + 1] = list.pCachedIndex

\* So whatever was inserted, deleted and moved, by whichever way: an index, a walk
\* and a walk back show one order.
Consistent == Linked /\ CacheRight

\* The list is a sequence of items with a current one: no operation of a script
\* disturbs the order or the current item other than its name says.
Sequence == INSTANCE ItemSequence WITH items <- Items, current <- list.pCurr
ImplementsSequence == Sequence!Spec

\* "Return zero = DELETE LIST( List )": emptying a list comes to an end.
EmptyReturns == pc \in {"emptying", "deleting"} ~> pc \in {"idle", "none"}
=============================================================================
