---------------------------- MODULE ItemSequence ----------------------------
(***************************************************************************)
(* What a LIST of the Tenshi language is to a program: its items in order, *)
(* and a current item.  RuntimeList implements it with links.              *)
(***************************************************************************)
EXTENDS Naturals, SequencesExt

CONSTANTS Nodes, NULL

VARIABLES items, current

seqVars == <<items, current>>

Init == items = <<>> /\ current = NULL

Insert ==
  /\ \E n \in Nodes \ ToSet(items), i \in 1 .. Len(items) + 1 : items' = InsertAt(items, i, n)
  /\ UNCHANGED current

Take ==
  \E i \in 1 .. Len(items) :
    /\ items' = RemoveAt(items, i)
    /\ current' = IF current = items[i] THEN NULL ELSE current

\* The current item becomes the first or the last, and none is current.
MoveToEnd ==
  /\ current # NULL
  /\ \E i \in 1 .. Len(items) :
       /\ items[i] = current
       /\ items' \in {<<current>> \o RemoveAt(items, i), Append(RemoveAt(items, i), current)}
  /\ current' = NULL

\* The current item changes places with a neighbour.
MovePast ==
  /\ current # NULL
  /\ \E i \in 1 .. Len(items) - 1 :
       /\ current \in {items[i], items[i + 1]}
       /\ items' = [items EXCEPT ![i] = items[i + 1], ![i + 1] = items[i]]
  /\ UNCHANGED current

\* An end of the list, a neighbour of the current item, or nothing.
Seek ==
  /\ \/ current' = NULL
     \/ items # <<>> /\ current' \in {items[1], items[Len(items)]}
     \/ \E i \in 1 .. Len(items) - 1 :
          {current, current'} = {items[i], items[i + 1]}
  /\ UNCHANGED items

Next == Insert \/ Take \/ MoveToEnd \/ MovePast \/ Seek

Spec == Init /\ [][Next]_seqVars
=============================================================================
