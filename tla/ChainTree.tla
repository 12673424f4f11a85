----------------------------- MODULE ChainTree -----------------------------
(***************************************************************************)
(* Job chains before they are submitted (RJobChain, Scheduler04.cpp): the  *)
(* jobs they are given, the tree they are put into, and FixForSubmit of a  *)
(* root.  The chains are of static storage: the constructor leaves the     *)
(* five links as they are, and on the stack they are not null.             *)
(*                                                                         *)
(* The caller keeps to what is asserted: a chain that was submitted is not *)
(* changed, and its parent is neither itself nor below it.                 *)
(***************************************************************************)
EXTENDS Integers, SequencesExt, FiniteSetsExt

CONSTANTS
  Chains,
  Kernels,  \* of each chain, what SetJobKernel sets, but null
  kAlign,   \* 64
  MaxJobs   \* bound: how many jobs each chain is given; each comes with a kernel of its own

VARIABLES
  debug,      \* AX_DEBUG_ENABLED: assertions are looked at
  m_pJobs,    \* of each chain, the kernels of its m_cJobs jobs
  m_pParent, m_pPrevious, m_pFollowing, m_pFirst, m_pLast, \* its links: m_pPrev, m_pNext, m_pHead and m_pTail
  m_cRemaining,
  hanging,    \* in an IsDescendant that does not return
  given,      \* the jobs each chain was given
  children    \* the chains each was made the parent of, and still is

treeVars ==
  <<debug, m_pJobs, m_pParent, m_pPrevious, m_pFollowing, m_pFirst, m_pLast, m_cRemaining, hanging, given, children>>

Null == "null"
NoKernel == 0

TreeInit ==
  /\ debug \in BOOLEAN
  /\ m_pJobs = [c \in Chains |-> <<>>] /\ m_cRemaining = [c \in Chains |-> 0]
  /\ m_pParent = [c \in Chains |-> Null] /\ m_pPrevious = [c \in Chains |-> Null]
  /\ m_pFollowing = [c \in Chains |-> Null]
  /\ m_pFirst = [c \in Chains |-> Null] /\ m_pLast = [c \in Chains |-> Null]
  /\ hanging = FALSE
  /\ given = [c \in Chains |-> <<>>] /\ children = [c \in Chains |-> <<>>]

WasSubmitted(c) == m_cRemaining[c] # 0

-----------------------------------------------------------------------------
(* Jobs.                                                                    *)

\* The jobs up to the last that has a kernel.
Real(jobs) == SubSeq(jobs, 1, Max({0} \cup {i \in DOMAIN jobs : jobs[i] # NoKernel}))

\* More jobs, behind the real ones and over the blanks; with new blanks if there is no room.
WithJobs(jobs, more) ==
  LET needed == Real(jobs) \o more
      n == Len(needed)
      room == IF n > Len(jobs) THEN n - (n % kAlign) + kAlign ELSE Len(jobs)
  IN [i \in 1 .. room |-> IF i <= n THEN needed[i] ELSE IF n > Len(jobs) THEN NoKernel ELSE jobs[i]]

AddJobs(c, more) ==
  /\ ~hanging /\ ~WasSubmitted(c)
  /\ Len(given[c]) + Len(more) <= MaxJobs[c]
  /\ m_pJobs' = [m_pJobs EXCEPT ![c] = WithJobs(@, more)]
  /\ given' = [given EXCEPT ![c] = @ \o more]
  /\ UNCHANGED <<debug, m_pParent, m_pPrevious, m_pFollowing, m_pFirst, m_pLast, m_cRemaining, hanging, children>>

SetJobKernel(c, i, kernel) ==
  /\ ~hanging /\ ~WasSubmitted(c) /\ i \in DOMAIN given[c]
  /\ m_pJobs' = [m_pJobs EXCEPT ![c][i] = kernel]
  /\ given' = [given EXCEPT ![c][i] = kernel]
  /\ UNCHANGED <<debug, m_pParent, m_pPrevious, m_pFollowing, m_pFirst, m_pLast, m_cRemaining, hanging, children>>

-----------------------------------------------------------------------------
(* The tree.                                                                *)

\* The links, as one value; Leave and Enter are the two halves of SetParent.
Links == [parent |-> m_pParent, prev |-> m_pPrevious, next |-> m_pFollowing, head |-> m_pFirst, tail |-> m_pLast]
Becomes(h) ==
  /\ m_pParent' = h.parent /\ m_pPrevious' = h.prev /\ m_pFollowing' = h.next
  /\ m_pFirst' = h.head /\ m_pLast' = h.tail

Leave(h, c) ==
  LET p == h.parent[c]
      before == h.prev[c]
      after == h.next[c]
      h1 == IF before # Null THEN [h EXCEPT !.next[before] = after]
            ELSE IF p # Null THEN [h EXCEPT !.head[p] = after] ELSE h
  IN IF after # Null THEN [h1 EXCEPT !.prev[after] = before]
     ELSE IF p # Null THEN [h1 EXCEPT !.tail[p] = before] ELSE h1

Enter(h, c, p) ==
  IF p = Null THEN [h EXCEPT !.prev[c] = Null, !.next[c] = Null, !.parent[c] = Null]
  ELSE LET last == h.tail[p]
           h1 == [h EXCEPT !.prev[c] = last, !.next[c] = Null, !.parent[c] = p, !.tail[p] = c]
       IN IF last # Null THEN [h1 EXCEPT !.next[last] = c] ELSE [h1 EXCEPT !.head[p] = c]

\* Those above c.
RECURSIVE Above(_, _)
Above(c, seen) == IF m_pParent[c] = Null THEN seen ELSE Above(m_pParent[c], seen \cup {m_pParent[c]})

\* IsDescendant looks at the parent alone, over and over if it is another.
Loops(p, ancestor) == m_pParent[p] \notin {Null, ancestor}

SetParent(c, p) ==
  /\ ~hanging /\ ~WasSubmitted(c) /\ p # c
  /\ p # Null => ~WasSubmitted(p) /\ c \notin Above(p, {})
  /\ hanging' = (debug /\ p # Null /\ Loops(p, c))
  /\ IF debug /\ p # Null /\ Loops(p, c)
     THEN UNCHANGED <<m_pParent, m_pPrevious, m_pFollowing, m_pFirst, m_pLast, children>>
     ELSE /\ Becomes(Enter(Leave(Links, c), c, p))
          /\ children' = [q \in Chains |-> IF q = p THEN Append(SelectSeq(children[q], LAMBDA x : x # c), c)
                                           ELSE SelectSeq(children[q], LAMBDA x : x # c)]
  /\ UNCHANGED <<debug, m_pJobs, m_cRemaining, given>>

\* The chains that FixForSubmit goes to from c: c, and those it finds along the links.
RECURSIVE Reached(_)
RECURSIVE ReachedFrom(_)
Reached(c) == {c} \cup ReachedFrom(m_pFirst[c])
ReachedFrom(c) == IF c = Null THEN {} ELSE Reached(c) \cup ReachedFrom(m_pFollowing[c])

\* Of a root, by Submit; each chain has a job (asserted).
FixForSubmit(c) ==
  /\ ~hanging /\ ~WasSubmitted(c) /\ m_pParent[c] = Null
  /\ \A x \in Reached(c) : Real(m_pJobs[x]) # <<>>
  /\ m_pJobs' = [x \in Chains |-> IF x \in Reached(c) THEN Real(m_pJobs[x]) ELSE m_pJobs[x]]
  /\ m_cRemaining' = [x \in Chains |-> IF x \in Reached(c) THEN Len(Real(m_pJobs[x])) ELSE m_cRemaining[x]]
  /\ UNCHANGED <<debug, m_pParent, m_pPrevious, m_pFollowing, m_pFirst, m_pLast, hanging, given, children>>

TreeNext ==
  \E c \in Chains :
    \/ \E n \in 1 .. MaxJobs[c] : AddJobs(c, [i \in 1 .. n |-> Len(given[c]) + i])
    \/ \E i \in 1 .. MaxJobs[c], k \in Kernels[c] : SetJobKernel(c, i, k)
    \/ \E p \in Chains \cup {Null} : SetParent(c, p)
    \/ FixForSubmit(c)

-----------------------------------------------------------------------------
(* What the links should say.                                               *)
FirstOf(q) == IF q = <<>> THEN Null ELSE q[1]
LastOf(q) == IF q = <<>> THEN Null ELSE q[Len(q)]

\* Each chain has its children, in the order they came to it, linked in both directions; a
\* chain has its jobs, and then blanks; and of the chains of a tree that is submitted each
\* awaits as many jobs as it was given.
TreeHolds ==
  /\ \A p \in Chains :
       /\ m_pFirst[p] = FirstOf(children[p]) /\ m_pLast[p] = LastOf(children[p])
       /\ \A i \in DOMAIN children[p] :
            LET c == children[p][i] IN
            /\ m_pParent[c] = p
            /\ m_pPrevious[c] = (IF i = 1 THEN Null ELSE children[p][i - 1])
            /\ m_pFollowing[c] = (IF i = Len(children[p]) THEN Null ELSE children[p][i + 1])
  /\ \A c \in Chains :
       /\ (\A p \in Chains : c \notin ToSet(children[p])) =>
             m_pParent[c] = Null /\ m_pPrevious[c] = Null /\ m_pFollowing[c] = Null
       /\ Real(m_pJobs[c]) = given[c]
       /\ WasSubmitted(c) =>
            /\ m_cRemaining[c] = Len(given[c]) /\ m_pJobs[c] = given[c]
            /\ \A x \in ToSet(children[c]) : WasSubmitted(x)
============================================================================
