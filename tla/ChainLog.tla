------------------------------ MODULE ChainLog ------------------------------
(***************************************************************************)
(* What the priority chains of the scheduler promise to the workers: every *)
(* level is a log that grows by one submission at a time and is never      *)
(* otherwise changed, and what was accepted is entered once, in the level  *)
(* of its chain.  Workers read a prefix of it.  A chain that is submitted  *)
(* twice is entered twice.                                                 *)
(***************************************************************************)
EXTENDS Naturals, Sequences

CONSTANTS Submissions, Levels, Priority

VARIABLES
  accepted,  \* submissions that were not refused
  log        \* of each level, the submissions in their order

Logged == {s \in Submissions : \E l \in Levels : \E i \in DOMAIN log[l] : log[l][i] = s}

Init ==
  /\ accepted = {}
  /\ log = [l \in Levels |-> <<>>]

\* A batch is taken as a whole, and what was accepted stays so.
Accept ==
  /\ accepted \subseteq accepted' /\ accepted' \subseteq Submissions
  /\ UNCHANGED log

AppendChain(s) ==
  /\ s \in accepted \ Logged
  /\ log' = [log EXCEPT ![Priority[s.chain]] = Append(@, s)]
  /\ UNCHANGED accepted

Next == Accept \/ \E s \in Submissions : AppendChain(s)

Spec == Init /\ [][Next]_<<accepted, log>>
=============================================================================
