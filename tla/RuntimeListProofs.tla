------------------------- MODULE RuntimeListProofs -------------------------
(***************************************************************************)
(* The links of a list are those of one sequence of items.                 *)
(***************************************************************************)
EXTENDS RuntimeList, FiniteSetTheorems, SequenceTheorems, TLAPS

\* A set of numbers that has any has a least.
LEMMA LeastElement ==
  ASSUME NEW A \in SUBSET Nat, A # {}
  PROVE  \E m \in A : \A k \in A : m <= k
<1> DEFINE Upto(k) == 0 .. k - 1
           T == {Upto(k) : k \in A}
<1>1. T \subseteq FiniteSubsetsOf(Nat) /\ T # {}
  <2>1. ASSUME NEW k \in A PROVE Upto(k) \in SUBSET Nat /\ IsFiniteSet(Upto(k))
    <3>1. k - 1 \in Int /\ 0 \in Int
      OBVIOUS
    <3> QED
      BY <3>1, FS_Interval
  <2> QED
    BY <2>1 DEF FiniteSubsetsOf
<1>2. PICK X \in T : \A Y \in T : <<Y, X>> \notin StrictSubsetOrdering(Nat)
  <2> HIDE DEF T
  <2>1. IsWellFoundedOn(StrictSubsetOrdering(Nat), FiniteSubsetsOf(Nat))
    BY FS_StrictSubsetOrderingWellFounded
  <2> QED
    BY <1>1, <2>1, WFMin
<1>3. PICK m \in A : X = Upto(m)
  OBVIOUS
<1>4. ASSUME NEW k \in A, k < m PROVE FALSE
  <2>1. Upto(k) \subseteq Upto(m) /\ k \in Upto(m) /\ k \notin Upto(k)
    BY <1>4
  <2>2. <<Upto(k), Upto(m)>> \in StrictSubsetOrdering(Nat)
    BY <1>1, <2>1 DEF StrictSubsetOrdering
  <2> QED
    BY <1>2, <1>3, <2>2
<1> QED
  BY <1>4

\* Step by step along the links from n.
LEMMA AwayIs ==
  ASSUME NEW link, NEW n, NEW k \in Nat, NEW s, s[0] = n,
         \A j \in 1 .. k : s[j] = IF s[j - 1] = NULL THEN NULL ELSE link[s[j - 1]]
  PROVE  Away(link, n, k) = s[k]
<1> DEFINE F(f) == [j \in 0 .. k |-> IF j = 0 THEN n
                                     ELSE IF f[j - 1] = NULL THEN NULL ELSE link[f[j - 1]]]
           at == CHOOSE f : f = F(f)
           r == [j \in 0 .. k |-> s[j]]
<1>1. r = F(r)
  OBVIOUS
<1>2. at = F(at)
  <2> HIDE DEF F
  <2> QED
    BY <1>1
<1>3. Away(link, n, k) = at[k]
  BY DEF Away
<1> HIDE DEF at
<1>4. \A j \in 0 .. k : at[j] = s[j]
  <2> DEFINE A == {j \in 0 .. k : at[j] # s[j]}
  <2>1. SUFFICES ASSUME A # {} PROVE FALSE
    OBVIOUS
  <2>2. PICK m \in A : \A j \in A : m <= j
    <3>1. A \in SUBSET Nat
      OBVIOUS
    <3> HIDE DEF A
    <3> QED
      BY <2>1, <3>1, LeastElement
  <2>3. CASE m = 0
    BY <1>2, <2>3
  <2>4. CASE m # 0
    <3>1. m - 1 \in 0 .. k /\ m - 1 \notin A
      BY <2>2, <2>4
    <3>2. at[m - 1] = s[m - 1]
      BY <3>1
    <3> QED
      BY <1>2, <2>4, <3>2
  <2> QED
    BY <2>3, <2>4
<1> QED
  BY <1>3, <1>4

-----------------------------------------------------------------------------
(* Sequences of nodes. *)

\* What is before the first and behind the last is NULL.
Nth(s, i) == IF i \in 1 .. Len(s) THEN s[i] ELSE NULL

Distinct(s) == s \in Seq(Nodes) /\ \A i, j \in 1 .. Len(s) : s[i] = s[j] => i = j

Inserted(s, i, n) ==
  [j \in 1 .. Len(s) + 1 |-> IF j < i THEN s[j] ELSE IF j = i THEN n ELSE s[j - 1]]

Without(s, i) == [j \in 1 .. Len(s) - 1 |-> IF j < i THEN s[j] ELSE s[j + 1]]

LEMMA SequenceFacts ==
  ASSUME NEW s \in Seq(Nodes)
  PROVE  /\ Len(s) \in Nat /\ DOMAIN s = 1 .. Len(s) /\ s = [j \in 1 .. Len(s) |-> s[j]]
         /\ \A j \in 1 .. Len(s) : s[j] \in Nodes
         /\ Range(s) = {s[j] : j \in 1 .. Len(s)}
BY LenProperties DEF Range

LEMMA InsertedFacts ==
  ASSUME NEW s, Distinct(s), NEW i \in 1 .. Len(s) + 1, NEW n \in Nodes \ Range(s)
  PROVE  /\ Distinct(Inserted(s, i, n))
         /\ Len(Inserted(s, i, n)) = Len(s) + 1
         /\ Range(Inserted(s, i, n)) = Range(s) \cup {n}
         /\ \A j \in 1 .. Len(s) + 1 :
              Inserted(s, i, n)[j] = IF j < i THEN s[j] ELSE IF j = i THEN n ELSE s[j - 1]
<1> DEFINE t == Inserted(s, i, n)
<1>1. s \in Seq(Nodes)
  BY DEF Distinct
<1>2. Len(s) \in Nat /\ \A j \in 1 .. Len(s) : s[j] \in Nodes
  BY <1>1, SequenceFacts
<1>3. \A j \in 1 .. Len(s) : s[j] # n
  BY <1>1, SequenceFacts
<1>4. t \in [1 .. Len(s) + 1 -> Nodes]
  BY <1>2 DEF Inserted
<1>5. t \in Seq(Nodes) /\ Len(t) = Len(s) + 1 /\ DOMAIN t = 1 .. Len(s) + 1
  BY <1>2, <1>4, SeqDef
<1>6. \A j \in 1 .. Len(s) + 1 : t[j] = IF j < i THEN s[j] ELSE IF j = i THEN n ELSE s[j - 1]
  BY DEF Inserted
<1>7. ASSUME NEW j \in 1 .. Len(s) + 1, NEW k \in 1 .. Len(s) + 1, t[j] = t[k]
      PROVE  j = k
  <2>1. \A a, b \in 1 .. Len(s) : s[a] = s[b] => a = b
    BY DEF Distinct
  <2>2. (j < i => j \in 1 .. Len(s)) /\ (k < i => k \in 1 .. Len(s))
        /\ (j > i => j - 1 \in 1 .. Len(s)) /\ (k > i => k - 1 \in 1 .. Len(s))
    BY <1>2
  <2> HIDE DEF t
  <2> QED
    BY <1>2, <1>3, <1>6, <1>7, <2>1, <2>2
<1>8. Range(t) = Range(s) \cup {n}
  <2>1. \A j \in 1 .. Len(s) : \E k \in 1 .. Len(s) + 1 : t[k] = s[j]
    <3>1. ASSUME NEW j \in 1 .. Len(s), j < i PROVE j \in 1 .. Len(s) + 1 /\ t[j] = s[j]
      BY <1>2, <1>6, <3>1
    <3>2. ASSUME NEW j \in 1 .. Len(s), ~(j < i)
          PROVE  j + 1 \in 1 .. Len(s) + 1 /\ t[j + 1] = s[j]
      BY <1>2, <1>6, <3>2
    <3> QED
      BY <3>1, <3>2
  <2>2. i \in 1 .. Len(s) + 1 /\ t[i] = n
    BY <1>2, <1>6
  <2>3. \A k \in 1 .. Len(s) + 1 : t[k] = n \/ \E j \in 1 .. Len(s) : t[k] = s[j]
    <3>1. ASSUME NEW k \in 1 .. Len(s) + 1, k < i PROVE k \in 1 .. Len(s) /\ t[k] = s[k]
      BY <1>2, <1>6, <3>1
    <3>2. ASSUME NEW k \in 1 .. Len(s) + 1, i < k
          PROVE  k - 1 \in 1 .. Len(s) /\ t[k] = s[k - 1]
      BY <1>2, <1>6, <3>2
    <3> QED
      BY <3>1, <3>2, <2>2
  <2> HIDE DEF t
  <2>4. Range(s) = {s[j] : j \in 1 .. Len(s)} /\ Range(t) = {t[j] : j \in 1 .. Len(s) + 1}
    BY <1>1, <1>5, SequenceFacts
  <2> QED
    BY <2>1, <2>2, <2>3, <2>4
<1> QED
  BY <1>5, <1>6, <1>7, <1>8 DEF Distinct

LEMMA WithoutFacts ==
  ASSUME NEW s, Distinct(s), NEW i \in 1 .. Len(s)
  PROVE  /\ Distinct(Without(s, i))
         /\ Len(Without(s, i)) = Len(s) - 1
         /\ Range(Without(s, i)) = Range(s) \ {s[i]}
         /\ \A j \in 1 .. Len(s) - 1 : Without(s, i)[j] = IF j < i THEN s[j] ELSE s[j + 1]
<1> DEFINE t == Without(s, i)
<1>1. s \in Seq(Nodes)
  BY DEF Distinct
<1>2. Len(s) \in Nat \ {0} /\ \A j \in 1 .. Len(s) : s[j] \in Nodes
  BY <1>1, SequenceFacts
<1>3. Len(s) - 1 \in Nat
  BY <1>2
<1>4. t \in [1 .. Len(s) - 1 -> Nodes]
  BY <1>2 DEF Without
<1>5. t \in Seq(Nodes) /\ Len(t) = Len(s) - 1 /\ DOMAIN t = 1 .. Len(s) - 1
  BY <1>3, <1>4, SeqDef
<1>6. \A j \in 1 .. Len(s) - 1 : t[j] = IF j < i THEN s[j] ELSE s[j + 1]
  BY DEF Without
<1>9. \A a, b \in 1 .. Len(s) : s[a] = s[b] => a = b
  BY DEF Distinct
<1>7. ASSUME NEW j \in 1 .. Len(s) - 1, NEW k \in 1 .. Len(s) - 1, t[j] = t[k]
      PROVE  j = k
  <2>1. j \in 1 .. Len(s) /\ j + 1 \in 1 .. Len(s) /\ k \in 1 .. Len(s) /\ k + 1 \in 1 .. Len(s)
    BY <1>2
  <2> HIDE DEF t
  <2> QED
    BY <1>2, <1>6, <1>7, <1>9, <2>1
<1>8. Range(t) = Range(s) \ {s[i]}
  <2>1. \A j \in 1 .. Len(s) : j # i => \E k \in 1 .. Len(s) - 1 : t[k] = s[j]
    <3>1. ASSUME NEW j \in 1 .. Len(s), j < i PROVE j \in 1 .. Len(s) - 1 /\ t[j] = s[j]
      BY <1>2, <1>6, <3>1
    <3>2. ASSUME NEW j \in 1 .. Len(s), i < j
          PROVE  j - 1 \in 1 .. Len(s) - 1 /\ t[j - 1] = s[j]
      BY <1>2, <1>6, <3>2
    <3> QED
      BY <3>1, <3>2
  <2>2. \A k \in 1 .. Len(s) - 1 : \E j \in 1 .. Len(s) : j # i /\ t[k] = s[j]
    <3>1. ASSUME NEW k \in 1 .. Len(s) - 1, k < i
          PROVE  k \in 1 .. Len(s) /\ k # i /\ t[k] = s[k]
      BY <1>2, <1>6, <3>1
    <3>2. ASSUME NEW k \in 1 .. Len(s) - 1, ~(k < i)
          PROVE  k + 1 \in 1 .. Len(s) /\ k + 1 # i /\ t[k] = s[k + 1]
      BY <1>2, <1>6, <3>2
    <3> QED
      BY <3>1, <3>2
  <2> HIDE DEF t
  <2>4. Range(s) = {s[j] : j \in 1 .. Len(s)} /\ Range(t) = {t[j] : j \in 1 .. Len(s) - 1}
    BY <1>1, <1>5, SequenceFacts
  <2>5. ASSUME NEW v \in Range(t) PROVE v \in Range(s) /\ v # s[i]
    <3>1. PICK j \in 1 .. Len(s) : j # i /\ v = s[j]
      BY <2>2, <2>4
    <3> QED
      BY <1>9, <2>4, <3>1
  <2>6. ASSUME NEW v \in Range(s), v # s[i] PROVE v \in Range(t)
    BY <2>1, <2>4, <2>6
  <2> QED
    BY <2>4, <2>5, <2>6
<1> QED
  BY <1>5, <1>6, <1>7, <1>8 DEF Distinct

-----------------------------------------------------------------------------
(* Links. *)

Maybe == Nodes \cup {NULL}

ListType ==
  [pHead : Maybe, pTail : Maybe, pCurr : Maybe, cItems : Nat, uCachedIndex : Nat,
   pCachedIndex : Maybe, pNext : [Nodes -> Maybe], pPrev : [Nodes -> Maybe]]

\* The links of l, and the ends, are those of the nodes s in their order; a
\* node that is not among them has none.
Follows(l, s) ==
  /\ l.pHead = Nth(s, 1)
  /\ l.pTail = Nth(s, Len(s))
  /\ \A i \in 1 .. Len(s) :
       l.pNext[s[i]] = Nth(s, i + 1) /\ l.pPrev[s[i]] = Nth(s, i - 1)
  /\ \A n \in Nodes \ Range(s) : l.pNext[n] = NULL /\ l.pPrev[n] = NULL

\* What no link says.
SameRest(l, r) ==
  /\ r.pCurr = l.pCurr
  /\ r.cItems = l.cItems
  /\ r.uCachedIndex = l.uCachedIndex
  /\ r.pCachedIndex = l.pCachedIndex

LEMMA SetNextFields ==
  ASSUME NEW l \in ListType, NEW p \in Maybe, NEW x \in Maybe
  PROVE  /\ SetNext(l, p, x) \in ListType
         /\ SameRest(l, SetNext(l, p, x))
         /\ SetNext(l, p, x).pHead = (IF p = NULL THEN x ELSE l.pHead)
         /\ SetNext(l, p, x).pTail = l.pTail
         /\ SetNext(l, p, x).pPrev = l.pPrev
         /\ \A m \in Nodes : SetNext(l, p, x).pNext[m] = IF m = p THEN x ELSE l.pNext[m]
<1> USE NULLAssumption
<1>1. CASE p = NULL
  BY <1>1 DEF SetNext, ListType, SameRest, Maybe
<1>2. CASE p # NULL
  <2>1. p \in Nodes /\ SetNext(l, p, x) = [l EXCEPT !.pNext = [l.pNext EXCEPT ![p] = x]]
    BY <1>2 DEF SetNext, Maybe
  <2>2. [l.pNext EXCEPT ![p] = x] \in [Nodes -> Maybe]
    BY DEF ListType
  <2> DEFINE q == [l.pNext EXCEPT ![p] = x]
  <2>3. \A m \in Nodes : q[m] = IF m = p THEN x ELSE l.pNext[m]
    BY DEF ListType
  <2> HIDE DEF q
  <2> QED
    BY <1>2, <2>1, <2>2, <2>3 DEF ListType, SameRest
<1> QED
  BY <1>1, <1>2

LEMMA SetPrevFields ==
  ASSUME NEW l \in ListType, NEW p \in Maybe, NEW x \in Maybe
  PROVE  /\ SetPrev(l, x, p) \in ListType
         /\ SameRest(l, SetPrev(l, x, p))
         /\ SetPrev(l, x, p).pTail = (IF x = NULL THEN p ELSE l.pTail)
         /\ SetPrev(l, x, p).pHead = l.pHead
         /\ SetPrev(l, x, p).pNext = l.pNext
         /\ \A m \in Nodes : SetPrev(l, x, p).pPrev[m] = IF m = x THEN p ELSE l.pPrev[m]
<1> USE NULLAssumption
<1>1. CASE x = NULL
  BY <1>1 DEF SetPrev, ListType, SameRest, Maybe
<1>2. CASE x # NULL
  <2>1. x \in Nodes /\ SetPrev(l, x, p) = [l EXCEPT !.pPrev = [l.pPrev EXCEPT ![x] = p]]
    BY <1>2 DEF SetPrev, Maybe
  <2>2. [l.pPrev EXCEPT ![x] = p] \in [Nodes -> Maybe]
    BY DEF ListType
  <2> DEFINE q == [l.pPrev EXCEPT ![x] = p]
  <2>3. \A m \in Nodes : q[m] = IF m = x THEN p ELSE l.pPrev[m]
    BY DEF ListType
  <2> HIDE DEF q
  <2> QED
    BY <1>2, <2>1, <2>2, <2>3 DEF ListType, SameRest
<1> QED
  BY <1>1, <1>2

\* Both links of one node.
SetBoth(l, n, p, x) == [l EXCEPT !.pPrev[n] = p, !.pNext[n] = x]

LEMMA SetBothFields ==
  ASSUME NEW l \in ListType, NEW n \in Nodes, NEW p \in Maybe, NEW x \in Maybe
  PROVE  /\ SetBoth(l, n, p, x) \in ListType
         /\ SameRest(l, SetBoth(l, n, p, x))
         /\ SetBoth(l, n, p, x).pHead = l.pHead
         /\ SetBoth(l, n, p, x).pTail = l.pTail
         /\ \A m \in Nodes : SetBoth(l, n, p, x).pNext[m] = IF m = n THEN x ELSE l.pNext[m]
         /\ \A m \in Nodes : SetBoth(l, n, p, x).pPrev[m] = IF m = n THEN p ELSE l.pPrev[m]
<1> DEFINE a == [l.pPrev EXCEPT ![n] = p]
           b == [l.pNext EXCEPT ![n] = x]
<1>1. a \in [Nodes -> Maybe] /\ \A m \in Nodes : a[m] = IF m = n THEN p ELSE l.pPrev[m]
  BY DEF ListType
<1>2. b \in [Nodes -> Maybe] /\ \A m \in Nodes : b[m] = IF m = n THEN x ELSE l.pNext[m]
  BY DEF ListType
<1>3. SetBoth(l, n, p, x) = [l EXCEPT !.pPrev = a, !.pNext = b]
  BY DEF ListType, SetBoth
<1> HIDE DEF a, b
<1> QED
  BY <1>1, <1>2, <1>3 DEF ListType, SameRest

LEMMA LinkFields ==
  ASSUME NEW l \in ListType, NEW n \in Nodes, NEW p \in Maybe \ {n}, NEW x \in Maybe \ {n}
  PROVE  /\ Link(l, p, n, x) \in ListType
         /\ SameRest(l, Link(l, p, n, x))
         /\ Link(l, p, n, x).pHead = (IF p = NULL THEN n ELSE l.pHead)
         /\ Link(l, p, n, x).pTail = (IF x = NULL THEN n ELSE l.pTail)
         /\ \A m \in Nodes :
              /\ Link(l, p, n, x).pNext[m] = (IF m = p THEN n ELSE IF m = n THEN x ELSE l.pNext[m])
              /\ Link(l, p, n, x).pPrev[m] = (IF m = x THEN n ELSE IF m = n THEN p ELSE l.pPrev[m])
<1>0. PICK a : a = SetBoth(l, n, p, x)
  OBVIOUS
<1>1. /\ a \in ListType
      /\ SameRest(l, a)
      /\ a.pHead = l.pHead /\ a.pTail = l.pTail
      /\ \A m \in Nodes : a.pNext[m] = IF m = n THEN x ELSE l.pNext[m]
      /\ \A m \in Nodes : a.pPrev[m] = IF m = n THEN p ELSE l.pPrev[m]
  BY <1>0, SetBothFields
<1>2. n \in Maybe
  BY DEF Maybe
<1>3. PICK b \in ListType :
        /\ b = SetNext(a, p, n)
        /\ SameRest(a, b)
        /\ b.pHead = (IF p = NULL THEN n ELSE a.pHead)
        /\ b.pTail = a.pTail
        /\ b.pPrev = a.pPrev
        /\ \A m \in Nodes : b.pNext[m] = IF m = p THEN n ELSE a.pNext[m]
  BY <1>1, <1>2, SetNextFields
<1>4. PICK c \in ListType :
        /\ c = SetPrev(b, x, n)
        /\ SameRest(b, c)
        /\ c.pTail = (IF x = NULL THEN n ELSE b.pTail)
        /\ c.pHead = b.pHead
        /\ c.pNext = b.pNext
        /\ \A m \in Nodes : c.pPrev[m] = IF m = x THEN n ELSE b.pPrev[m]
  BY <1>2, SetPrevFields
<1>5. c = Link(l, p, n, x)
  BY <1>0, <1>3, <1>4 DEF Link, SetBoth
<1>6. SameRest(l, c)
  BY <1>1, <1>3, <1>4 DEF SameRest
<1>7. c.pHead = (IF p = NULL THEN n ELSE l.pHead) /\ c.pTail = (IF x = NULL THEN n ELSE l.pTail)
  BY <1>1, <1>3, <1>4
<1>8. \A m \in Nodes : c.pNext[m] = IF m = p THEN n ELSE IF m = n THEN x ELSE l.pNext[m]
  BY <1>1, <1>3, <1>4
<1>9. \A m \in Nodes : c.pPrev[m] = IF m = x THEN n ELSE IF m = n THEN p ELSE l.pPrev[m]
  BY <1>1, <1>3, <1>4
<1> QED
  BY <1>5, <1>6, <1>7, <1>8, <1>9

LEMMA BypassFields ==
  ASSUME NEW l \in ListType, NEW n \in Nodes, l.pPrev[n] # n, l.pNext[n] # n
  PROVE  /\ Bypass(l, n) \in ListType
         /\ SameRest(l, Bypass(l, n))
         /\ Bypass(l, n).pHead = (IF l.pPrev[n] = NULL THEN l.pNext[n] ELSE l.pHead)
         /\ Bypass(l, n).pTail = (IF l.pNext[n] = NULL THEN l.pPrev[n] ELSE l.pTail)
         /\ \A m \in Nodes :
              /\ Bypass(l, n).pNext[m] = (IF m = n THEN NULL ELSE IF m = l.pPrev[n] THEN l.pNext[n] ELSE l.pNext[m])
              /\ Bypass(l, n).pPrev[m] = (IF m = n THEN NULL ELSE IF m = l.pNext[n] THEN l.pPrev[n] ELSE l.pPrev[m])
<1>12. ASSUME NEW c \in ListType, NEW z \in Maybe
       PROVE  \E d \in ListType :
                /\ d = SetBoth(c, n, z, z)
                /\ SameRest(c, d)
                /\ d.pHead = c.pHead /\ d.pTail = c.pTail
                /\ \A m \in Nodes : d.pNext[m] = IF m = n THEN z ELSE c.pNext[m]
                /\ \A m \in Nodes : d.pPrev[m] = IF m = n THEN z ELSE c.pPrev[m]
  BY SetBothFields
<1>1. PICK p \in Maybe : p = l.pPrev[n]
  BY DEF ListType
<1>2. PICK x \in Maybe : x = l.pNext[n]
  BY DEF ListType
<1>3. PICK b \in ListType :
        /\ b = SetNext(l, p, x)
        /\ SameRest(l, b)
        /\ b.pHead = (IF p = NULL THEN x ELSE l.pHead)
        /\ b.pTail = l.pTail
        /\ b.pPrev = l.pPrev
        /\ \A m \in Nodes : b.pNext[m] = IF m = p THEN x ELSE l.pNext[m]
  BY SetNextFields
<1>4. PICK c \in ListType :
        /\ c = SetPrev(b, x, p)
        /\ SameRest(b, c)
        /\ c.pTail = (IF x = NULL THEN p ELSE b.pTail)
        /\ c.pHead = b.pHead
        /\ c.pNext = b.pNext
        /\ \A m \in Nodes : c.pPrev[m] = IF m = x THEN p ELSE b.pPrev[m]
  BY SetPrevFields
<1>5. PICK z \in Maybe : z = NULL
  BY DEF Maybe
<1>6. PICK d \in ListType :
        /\ d = SetBoth(c, n, z, z)
        /\ SameRest(c, d)
        /\ d.pHead = c.pHead /\ d.pTail = c.pTail
        /\ \A m \in Nodes : d.pNext[m] = IF m = n THEN z ELSE c.pNext[m]
        /\ \A m \in Nodes : d.pPrev[m] = IF m = n THEN z ELSE c.pPrev[m]
  BY <1>12
<1>7. d = Bypass(l, n)
  BY <1>1, <1>2, <1>3, <1>4, <1>5, <1>6 DEF Bypass, SetBoth
<1>8. SameRest(l, d)
  BY <1>3, <1>4, <1>6 DEF SameRest
<1>9. d.pHead = (IF p = NULL THEN x ELSE l.pHead) /\ d.pTail = (IF x = NULL THEN p ELSE l.pTail)
  BY <1>3, <1>4, <1>6
<1>10. \A m \in Nodes : d.pNext[m] = IF m = n THEN NULL ELSE IF m = p THEN x ELSE l.pNext[m]
  BY <1>3, <1>4, <1>5, <1>6
<1>11. \A m \in Nodes : d.pPrev[m] = IF m = n THEN NULL ELSE IF m = x THEN p ELSE l.pPrev[m]
  BY <1>3, <1>4, <1>5, <1>6
<1> QED
  BY <1>1, <1>2, <1>6, <1>7, <1>8, <1>9, <1>10, <1>11

LEMMA NthFacts ==
  ASSUME NEW s, Distinct(s)
  PROVE  /\ Len(s) \in Nat
         /\ \A j \in Int : Nth(s, j) \in Range(s) \cup {NULL}
         /\ \A j \in Int : Nth(s, j) # NULL <=> j \in 1 .. Len(s)
         /\ \A j, k \in Int : Nth(s, j) = Nth(s, k) /\ Nth(s, j) # NULL => j = k
         /\ \A m \in Range(s) : \E j \in 1 .. Len(s) : m = Nth(s, j)
         /\ Range(s) \subseteq Nodes
         /\ \A j \in 1 .. Len(s) : s[j] = Nth(s, j)
<1>1. s \in Seq(Nodes)
  BY DEF Distinct
<1>2. Len(s) \in Nat /\ (\A j \in 1 .. Len(s) : s[j] \in Nodes)
      /\ Range(s) = {s[j] : j \in 1 .. Len(s)}
  BY <1>1, SequenceFacts
<1>3. \A j, k \in 1 .. Len(s) : s[j] = s[k] => j = k
  BY DEF Distinct
<1>4. \A j \in Int : Nth(s, j) # NULL <=> j \in 1 .. Len(s)
  BY <1>2, NULLAssumption DEF Nth
<1>5. \A j \in 1 .. Len(s) : s[j] = Nth(s, j)
  BY DEF Nth
<1> QED
  BY <1>2, <1>3, <1>4, <1>5 DEF Nth

LEMMA NthInserted ==
  ASSUME NEW s, Distinct(s), NEW i \in 1 .. Len(s) + 1, NEW n \in Nodes \ Range(s),
         NEW j \in Int
  PROVE  Nth(Inserted(s, i, n), j)
           = IF j < i THEN Nth(s, j) ELSE IF j = i THEN n ELSE Nth(s, j - 1)
<1>1. Len(s) \in Nat
  BY NthFacts
<1>2. /\ Len(Inserted(s, i, n)) = Len(s) + 1
      /\ j \in 1 .. Len(s) + 1 =>
           Inserted(s, i, n)[j] = IF j < i THEN s[j] ELSE IF j = i THEN n ELSE s[j - 1]
  BY InsertedFacts
<1> QED
  BY <1>1, <1>2 DEF Nth

LEMMA NthWithout ==
  ASSUME NEW s, Distinct(s), NEW i \in 1 .. Len(s), NEW j \in Int
  PROVE  Nth(Without(s, i), j) = IF j < i THEN Nth(s, j) ELSE Nth(s, j + 1)
<1>1. Len(s) \in Nat
  BY NthFacts
<1>2. /\ Len(Without(s, i)) = Len(s) - 1
      /\ j \in 1 .. Len(s) - 1 =>
           Without(s, i)[j] = IF j < i THEN s[j] ELSE s[j + 1]
  BY WithoutFacts
<1> QED
  BY <1>1, <1>2 DEF Nth

LEMMA FollowsNth ==
  ASSUME NEW s, Distinct(s), NEW l
  PROVE  Follows(l, s) <=>
           /\ l.pHead = Nth(s, 1)
           /\ l.pTail = Nth(s, Len(s))
           /\ \A j \in 1 .. Len(s) : l.pNext[Nth(s, j)] = Nth(s, j + 1)
           /\ \A j \in 1 .. Len(s) : l.pPrev[Nth(s, j)] = Nth(s, j - 1)
           /\ \A n \in Nodes \ Range(s) : l.pNext[n] = NULL /\ l.pPrev[n] = NULL
<1>1. \A j \in 1 .. Len(s) : s[j] = Nth(s, j)
  BY NthFacts
<1> QED
  BY <1>1 DEF Follows

\* A node is linked between two neighbours.
LEMMA LinkFollows ==
  ASSUME NEW s, Distinct(s), NEW i \in 1 .. Len(s) + 1, NEW n \in Nodes \ Range(s),
         NEW l \in ListType, Follows(l, s)
  PROVE  Follows(Link(l, Nth(s, i - 1), n, Nth(s, i)), Inserted(s, i, n))
<1>0. PICK N \in Nat : N = Len(s)
  BY NthFacts
<1>1. i \in 1 .. N + 1 /\ n # NULL
  BY <1>0, NULLAssumption
<1>2. PICK t : t = Inserted(s, i, n)
  OBVIOUS
<1>3. Distinct(t) /\ Len(t) = N + 1 /\ Range(t) = Range(s) \cup {n}
  BY <1>0, <1>2, InsertedFacts
<1>4. PICK at : at = [j \in Int |-> Nth(s, j)]
  OBVIOUS
<1>5. /\ \A j \in Int : at[j] \in Range(s) \cup {NULL}
      /\ \A j \in Int : at[j] # NULL <=> j \in 1 .. N
      /\ \A j, k \in Int : at[j] = at[k] /\ at[j] # NULL => j = k
      /\ Range(s) \subseteq Nodes
  BY <1>0, <1>4, NthFacts
<1>6. \A j \in Int : Nth(t, j) = IF j < i THEN at[j] ELSE IF j = i THEN n ELSE at[j - 1]
  BY <1>2, <1>4, NthInserted
<1>7. /\ l.pHead = at[1] /\ l.pTail = at[N]
      /\ \A j \in 1 .. N : l.pNext[at[j]] = at[j + 1]
      /\ \A j \in 1 .. N : l.pPrev[at[j]] = at[j - 1]
      /\ \A m \in Nodes \ Range(s) : l.pNext[m] = NULL /\ l.pPrev[m] = NULL
  BY <1>0, <1>4, FollowsNth
<1>8. PICK p \in Maybe \ {n}, x \in Maybe \ {n} : p = at[i - 1] /\ x = at[i]
  BY <1>1, <1>5 DEF Maybe
<1>9. PICK r : r = Link(l, p, n, x)
  OBVIOUS
<1>10. /\ r.pHead = (IF p = NULL THEN n ELSE l.pHead)
       /\ r.pTail = (IF x = NULL THEN n ELSE l.pTail)
       /\ \A m \in Nodes : r.pNext[m] = IF m = p THEN n ELSE IF m = n THEN x ELSE l.pNext[m]
       /\ \A m \in Nodes : r.pPrev[m] = IF m = x THEN n ELSE IF m = n THEN p ELSE l.pPrev[m]
  BY <1>9, LinkFields
<1>11. r.pHead = Nth(t, 1) /\ r.pTail = Nth(t, N + 1)
  BY <1>1, <1>5, <1>6, <1>7, <1>8, <1>10
<1>12. ASSUME NEW j \in 1 .. N + 1
       PROVE  r.pNext[Nth(t, j)] = Nth(t, j + 1) /\ r.pPrev[Nth(t, j)] = Nth(t, j - 1)
  <2>1. CASE j < i
    <3>1. Nth(t, j) = at[j] /\ j \in 1 .. N /\ at[j] \in Nodes /\ at[j] # n
      BY <1>1, <1>5, <1>6, <2>1
    <3>2. at[j] = p <=> j = i - 1
      BY <1>1, <1>5, <1>8, <2>1, <3>1
    <3>3. at[j] # x
      BY <1>1, <1>5, <1>8, <2>1, <3>1
    <3>4. r.pPrev[at[j]] = l.pPrev[at[j]] /\ l.pPrev[at[j]] = at[j - 1]
      BY <1>7, <1>10, <3>1, <3>3
    <3>5. r.pNext[at[j]] = (IF j = i - 1 THEN n ELSE l.pNext[at[j]]) /\ l.pNext[at[j]] = at[j + 1]
      BY <1>7, <1>10, <3>1, <3>2
    <3>6. Nth(t, j - 1) = at[j - 1] /\ Nth(t, j + 1) = IF j = i - 1 THEN n ELSE at[j + 1]
      BY <1>1, <1>6, <2>1, <3>1
    <3> QED
      BY <3>1, <3>4, <3>5, <3>6
  <2>2. CASE j = i
    BY <1>1, <1>5, <1>6, <1>8, <1>10, <2>2
  <2>3. CASE i < j
    <3>1. Nth(t, j) = at[j - 1] /\ j - 1 \in 1 .. N /\ at[j - 1] \in Nodes /\ at[j - 1] # n
      BY <1>1, <1>5, <1>6, <2>3
    <3>2. at[j - 1] = x <=> j - 1 = i
      BY <1>1, <1>5, <1>8, <2>3, <3>1
    <3>3. at[j - 1] # p
      BY <1>1, <1>5, <1>8, <2>3, <3>1
    <3>4. r.pNext[at[j - 1]] = l.pNext[at[j - 1]] /\ l.pNext[at[j - 1]] = at[j]
      <4>1. j - 1 + 1 = j
        OBVIOUS
      <4> QED
        BY <1>7, <1>10, <3>1, <3>3, <4>1
    <3>5. r.pPrev[at[j - 1]] = (IF j - 1 = i THEN n ELSE l.pPrev[at[j - 1]])
          /\ l.pPrev[at[j - 1]] = at[j - 2]
      <4>1. j - 1 - 1 = j - 2
        OBVIOUS
      <4> QED
        BY <1>7, <1>10, <3>1, <3>2, <4>1
    <3>6. Nth(t, j + 1) = at[j] /\ Nth(t, j - 1) = IF j - 1 = i THEN n ELSE at[j - 2]
      BY <1>1, <1>6, <2>3, <3>1
    <3> QED
      BY <3>1, <3>4, <3>5, <3>6
  <2> QED
    BY <1>1, <2>1, <2>2, <2>3
<1>13. ASSUME NEW m \in Nodes \ Range(t) PROVE r.pNext[m] = NULL /\ r.pPrev[m] = NULL
  <2>1. m \in Nodes \ Range(s) /\ m # n /\ m # p /\ m # x
    BY <1>3, <1>5, <1>8, <1>13, NULLAssumption
  <2> QED
    BY <1>7, <1>10, <2>1
<1>14. Follows(r, t)
  BY <1>3, <1>11, <1>12, <1>13, FollowsNth
<1> QED
  BY <1>2, <1>4, <1>8, <1>9, <1>14

\* A node is taken from between its neighbours.
LEMMA BypassFollows ==
  ASSUME NEW s, Distinct(s), NEW i \in 1 .. Len(s), NEW l \in ListType, Follows(l, s)
  PROVE  /\ Follows(Bypass(l, Nth(s, i)), Without(s, i))
         /\ Bypass(l, Nth(s, i)) \in ListType
         /\ SameRest(l, Bypass(l, Nth(s, i)))
<1>0. PICK N \in Nat : N = Len(s)
  BY NthFacts
<1>1. i \in 1 .. N
  BY <1>0
<1>2. PICK t : t = Without(s, i)
  OBVIOUS
<1>4. PICK at : at = [j \in Int |-> Nth(s, j)]
  OBVIOUS
<1>5. /\ \A j \in Int : at[j] \in Range(s) \cup {NULL}
      /\ \A j \in Int : at[j] # NULL <=> j \in 1 .. N
      /\ \A j, k \in Int : at[j] = at[k] /\ at[j] # NULL => j = k
      /\ Range(s) \subseteq Nodes
  BY <1>0, <1>4, NthFacts
<1>6. \A j \in Int : Nth(t, j) = IF j < i THEN at[j] ELSE at[j + 1]
  BY <1>2, <1>4, NthWithout
<1>7. /\ l.pHead = at[1] /\ l.pTail = at[N]
      /\ \A j \in 1 .. N : l.pNext[at[j]] = at[j + 1]
      /\ \A j \in 1 .. N : l.pPrev[at[j]] = at[j - 1]
      /\ \A m \in Nodes \ Range(s) : l.pNext[m] = NULL /\ l.pPrev[m] = NULL
  BY <1>0, <1>4, FollowsNth
<1>8. PICK n \in Nodes : n = at[i]
  BY <1>1, <1>5
<1>3. Distinct(t) /\ Len(t) = N - 1 /\ Range(t) = Range(s) \ {n}
  <2>1. n = s[i]
    BY <1>1, <1>4, <1>8, NthFacts
  <2> QED
    BY <1>0, <1>2, <2>1, WithoutFacts
<1>9. l.pPrev[n] = at[i - 1] /\ l.pNext[n] = at[i + 1]
  BY <1>1, <1>7, <1>8
<1>15. l.pPrev[n] # n /\ l.pNext[n] # n
  BY <1>1, <1>5, <1>8, <1>9, NULLAssumption
<1>16. PICK r : r = Bypass(l, n)
  OBVIOUS
<1>10. /\ r \in ListType /\ SameRest(l, r)
       /\ r.pHead = (IF at[i - 1] = NULL THEN at[i + 1] ELSE l.pHead)
       /\ r.pTail = (IF at[i + 1] = NULL THEN at[i - 1] ELSE l.pTail)
       /\ \A m \in Nodes : r.pNext[m] = IF m = n THEN NULL ELSE IF m = at[i - 1] THEN at[i + 1] ELSE l.pNext[m]
       /\ \A m \in Nodes : r.pPrev[m] = IF m = n THEN NULL ELSE IF m = at[i + 1] THEN at[i - 1] ELSE l.pPrev[m]
  BY <1>9, <1>15, <1>16, BypassFields
<1>11. r.pHead = Nth(t, 1) /\ r.pTail = Nth(t, N - 1)
  <2>1. Nth(t, 1) = (IF 1 < i THEN at[1] ELSE at[2]) /\ (~(1 < i) => i = 1)
    BY <1>1, <1>6
  <2>2. Nth(t, N - 1) = (IF N - 1 < i THEN at[N - 1] ELSE at[N]) /\ (N - 1 < i => i = N)
    <3>1. N - 1 \in Int /\ N - 1 + 1 = N /\ (N - 1 < i => i = N)
      BY <1>1
    <3> QED
      BY <1>6, <3>1
  <2>3. (at[i - 1] = NULL <=> i = 1) /\ (at[i + 1] = NULL <=> i = N)
    BY <1>1, <1>5
  <2> QED
    BY <1>1, <1>7, <1>10, <2>1, <2>2, <2>3
<1>12. ASSUME NEW j \in 1 .. N - 1
       PROVE  r.pNext[Nth(t, j)] = Nth(t, j + 1) /\ r.pPrev[Nth(t, j)] = Nth(t, j - 1)
  <2>1. CASE j < i
    <3>1. Nth(t, j) = at[j] /\ j \in 1 .. N /\ at[j] \in Nodes /\ at[j] # n
      BY <1>1, <1>5, <1>6, <1>8, <2>1
    <3>2. at[j] = at[i - 1] <=> j = i - 1
      BY <1>1, <1>5, <2>1, <3>1
    <3>3. at[j] # at[i + 1]
      BY <1>1, <1>5, <2>1, <3>1
    <3>4. r.pPrev[at[j]] = l.pPrev[at[j]] /\ l.pPrev[at[j]] = at[j - 1]
      BY <1>7, <1>10, <3>1, <3>3
    <3>5. r.pNext[at[j]] = (IF j = i - 1 THEN at[i + 1] ELSE l.pNext[at[j]])
          /\ l.pNext[at[j]] = at[j + 1]
      <4>1. l.pNext[at[j]] = at[j + 1]
        BY <1>7, <3>1
      <4>2. PICK m \in Nodes : m = at[j]
        BY <3>1
      <4>3. r.pNext[m] = IF m = n THEN NULL ELSE IF m = at[i - 1] THEN at[i + 1] ELSE l.pNext[m]
        BY <1>10
      <4>4. m # n
        BY <3>1, <4>2
      <4>5. r.pNext[at[j]] = (IF at[j] = at[i - 1] THEN at[i + 1] ELSE l.pNext[at[j]])
        BY <4>2, <4>3, <4>4
      <4>6. CASE j = i - 1
        BY <3>2, <4>1, <4>5, <4>6
      <4>7. CASE j # i - 1
        <5>1. at[j] # at[i - 1]
          BY <3>2, <4>7
        <5> QED
          BY <4>1, <4>5, <4>7, <5>1
      <4> QED
        BY <4>6, <4>7
    <3>6. Nth(t, j - 1) = at[j - 1] /\ Nth(t, j + 1) = IF j = i - 1 THEN at[i + 1] ELSE at[j + 1]
      <4>1. j - 1 \in Int /\ j + 1 \in Int /\ j - 1 < i /\ j + 1 + 1 = j + 2
            /\ (j + 1 < i <=> j # i - 1) /\ (j = i - 1 => j + 2 = i + 1)
        BY <1>1, <2>1
      <4>2. Nth(t, j - 1) = at[j - 1]
        BY <1>6, <4>1
      <4>3. Nth(t, j + 1) = IF j + 1 < i THEN at[j + 1] ELSE at[j + 2]
        BY <1>6, <4>1
      <4> QED
        BY <4>1, <4>2, <4>3
    <3> QED
      BY <3>1, <3>4, <3>5, <3>6
  <2>2. CASE ~(j < i)
    <3>0. j + 1 \in 1 .. N /\ j + 1 # i /\ i \in Int
      BY <1>1, <2>2
    <3>1. Nth(t, j) = at[j + 1] /\ j + 1 \in 1 .. N /\ at[j + 1] \in Nodes /\ at[j + 1] # n
      <4>1. j \in Int
        OBVIOUS
      <4>4. Nth(t, j) = at[j + 1]
        BY <1>6, <2>2, <4>1
      <4>2. at[j + 1] # NULL /\ at[j + 1] \in Nodes
        BY <1>5, <3>0
      <4>3. at[j + 1] # at[i]
        BY <1>5, <3>0, <4>2
      <4> QED
        BY <1>8, <3>0, <4>2, <4>3, <4>4
    <3>2. at[j + 1] = at[i + 1] <=> j = i
      BY <1>1, <1>5, <2>2, <3>1
    <3>3. at[j + 1] # at[i - 1]
      BY <1>1, <1>5, <2>2, <3>1
    <3>4. r.pNext[at[j + 1]] = l.pNext[at[j + 1]] /\ l.pNext[at[j + 1]] = at[j + 2]
      <4>1. j + 1 + 1 = j + 2
        OBVIOUS
      <4> QED
        BY <1>7, <1>10, <3>1, <3>3, <4>1
    <3>5. r.pPrev[at[j + 1]] = (IF j = i THEN at[i - 1] ELSE l.pPrev[at[j + 1]])
          /\ l.pPrev[at[j + 1]] = at[j]
      <4>1. j + 1 - 1 = j
        OBVIOUS
      <4>2. l.pPrev[at[j + 1]] = at[j]
        BY <1>7, <3>1, <4>1
      <4>3. PICK m \in Nodes : m = at[j + 1]
        BY <3>1
      <4>4. r.pPrev[m] = IF m = n THEN NULL ELSE IF m = at[i + 1] THEN at[i - 1] ELSE l.pPrev[m]
        BY <1>10
      <4>5. m # n
        BY <3>1, <4>3
      <4>6. r.pPrev[at[j + 1]] = (IF at[j + 1] = at[i + 1] THEN at[i - 1] ELSE l.pPrev[at[j + 1]])
        BY <4>3, <4>4, <4>5
      <4>7. CASE j = i
        BY <3>2, <4>2, <4>6, <4>7
      <4>8. CASE j # i
        <5>1. at[j + 1] # at[i + 1]
          BY <3>2, <4>8
        <5> QED
          BY <4>2, <4>6, <4>8, <5>1
      <4> QED
        BY <4>7, <4>8
    <3>6. Nth(t, j + 1) = at[j + 2] /\ Nth(t, j - 1) = IF j = i THEN at[i - 1] ELSE at[j]
      <4>1. j + 1 \in Int /\ j - 1 \in Int /\ j + 1 + 1 = j + 2 /\ j - 1 + 1 = j
            /\ ~(j + 1 < i) /\ (j - 1 < i <=> j = i)
        BY <1>1, <2>2
      <4>2. Nth(t, j + 1) = at[j + 2]
        BY <1>6, <4>1
      <4>3. Nth(t, j - 1) = IF j - 1 < i THEN at[j - 1] ELSE at[j]
        BY <1>6, <4>1
      <4> QED
        BY <4>1, <4>2, <4>3
    <3> QED
      BY <3>1, <3>4, <3>5, <3>6
  <2> QED
    BY <2>1, <2>2
<1>13. ASSUME NEW m \in Nodes \ Range(t) PROVE r.pNext[m] = NULL /\ r.pPrev[m] = NULL
  <2>1. CASE m = n
    BY <1>10, <2>1
  <2>2. CASE m # n
    <3>1. m \in Nodes \ Range(s) /\ m # at[i - 1] /\ m # at[i + 1]
      BY <1>1, <1>3, <1>5, <1>13, <2>2, NULLAssumption
    <3> QED
      BY <1>7, <1>10, <2>2, <3>1
  <2> QED
    BY <2>1, <2>2
<1>14. Follows(r, t)
  BY <1>3, <1>11, <1>12, <1>13, FollowsNth
<1> QED
  BY <1>2, <1>4, <1>8, <1>10, <1>14, <1>16

-----------------------------------------------------------------------------
(* Walks. *)

LEMMA WalkNext ==
  ASSUME NEW s, Distinct(s), NEW l, Follows(l, s),
         NEW i \in 1 .. Len(s), NEW k \in Nat, i + k <= Len(s)
  PROVE  Away(l.pNext, Nth(s, i), k) = Nth(s, i + k)
<1> DEFINE g == [j \in 0 .. k |-> Nth(s, i + j)]
<1>1. Len(s) \in Nat /\ \A j \in Int : Nth(s, j) # NULL <=> j \in 1 .. Len(s)
  BY NthFacts
<1>2. g[0] = Nth(s, i)
  BY <1>1
<1>3. ASSUME NEW j \in 1 .. k
      PROVE  g[j] = IF g[j - 1] = NULL THEN NULL ELSE l.pNext[g[j - 1]]
  <2>1. g[j] = Nth(s, i + j) /\ g[j - 1] = Nth(s, i + (j - 1))
    OBVIOUS
  <2>2. i + (j - 1) \in 1 .. Len(s) /\ i + (j - 1) + 1 = i + j
    BY <1>1
  <2>3. l.pNext[Nth(s, i + (j - 1))] = Nth(s, i + j)
    BY <2>2, FollowsNth
  <2>4. Nth(s, i + (j - 1)) # NULL
    BY <1>1, <2>2
  <2> QED
    BY <2>1, <2>3, <2>4
<1>4. g[k] = Nth(s, i + k)
  OBVIOUS
<1> HIDE DEF g
<1>5. Away(l.pNext, Nth(s, i), k) = g[k]
  BY <1>2, <1>3, AwayIs
<1> QED
  BY <1>4, <1>5

LEMMA WalkPrev ==
  ASSUME NEW s, Distinct(s), NEW l, Follows(l, s),
         NEW i \in 1 .. Len(s), NEW k \in Nat, k < i
  PROVE  Away(l.pPrev, Nth(s, i), k) = Nth(s, i - k)
<1> DEFINE g == [j \in 0 .. k |-> Nth(s, i - j)]
<1>1. Len(s) \in Nat /\ \A j \in Int : Nth(s, j) # NULL <=> j \in 1 .. Len(s)
  BY NthFacts
<1>2. g[0] = Nth(s, i)
  BY <1>1
<1>3. ASSUME NEW j \in 1 .. k
      PROVE  g[j] = IF g[j - 1] = NULL THEN NULL ELSE l.pPrev[g[j - 1]]
  <2>1. g[j] = Nth(s, i - j) /\ g[j - 1] = Nth(s, i - (j - 1))
    OBVIOUS
  <2>2. i - (j - 1) \in 1 .. Len(s) /\ i - (j - 1) - 1 = i - j
    BY <1>1
  <2>3. l.pPrev[Nth(s, i - (j - 1))] = Nth(s, i - j)
    BY <2>2, FollowsNth
  <2>4. Nth(s, i - (j - 1)) # NULL
    BY <1>1, <2>2
  <2> QED
    BY <2>1, <2>3, <2>4
<1>4. g[k] = Nth(s, i - k)
  OBVIOUS
<1> HIDE DEF g
<1>5. Away(l.pPrev, Nth(s, i), k) = g[k]
  BY <1>2, <1>3, AwayIs
<1> QED
  BY <1>4, <1>5

-----------------------------------------------------------------------------
(* The invariant: there is a sequence of the live nodes that the list shows. *)

Shown(l, nodes, s) ==
  /\ l \in ListType
  /\ Distinct(s)
  /\ Range(s) = nodes
  /\ Follows(l, s)
  /\ l.cItems = Len(s)
  /\ l.pCurr \in nodes \cup {NULL}
  /\ l.pCachedIndex # NULL =>
       l.uCachedIndex < Len(s) /\ l.pCachedIndex = Nth(s, l.uCachedIndex + 1)

LEMMA ShownFacts ==
  ASSUME NEW l, NEW nodes, NEW s, Shown(l, nodes, s)
  PROVE  /\ Distinct(s) /\ Range(s) = nodes /\ nodes \subseteq Nodes
         /\ Len(s) \in Nat /\ l.cItems = Len(s) /\ Follows(l, s)
         /\ \A j \in 1 .. Len(s) : s[j] \in nodes
         /\ \A n \in nodes : \E j \in 1 .. Len(s) : n = s[j]
<1>1. Distinct(s) /\ Range(s) = nodes /\ l.cItems = Len(s) /\ Follows(l, s)
  BY DEF Shown
<1>2. s \in Seq(Nodes)
  BY <1>1 DEF Distinct
<1>3. /\ Len(s) \in Nat
      /\ \A j \in 1 .. Len(s) : s[j] \in Nodes
      /\ Range(s) = {s[j] : j \in 1 .. Len(s)}
  BY <1>2, SequenceFacts
<1> QED
  BY <1>1, <1>3

ListInv ==
  /\ pc \in {"none", "idle", "emptying", "deleting"}
  /\ \E s : Shown(list, live, s)

\* The walk that defines Items meets that sequence.
LEMMA WalkShown ==
  ASSUME NEW l, NEW nodes, NEW s, Shown(l, nodes, s)
  PROVE  [i \in 1 .. l.cItems |-> Away(l.pNext, l.pHead, i - 1)] = s
<1>1. /\ Distinct(s) /\ Follows(l, s) /\ l.cItems = Len(s)
      /\ s \in Seq(Nodes) /\ l.pHead = Nth(s, 1)
  BY DEF Shown, Distinct, Follows
<1>2. Len(s) \in Nat /\ s = [j \in 1 .. Len(s) |-> s[j]]
  BY <1>1, SequenceFacts
<1>3. ASSUME NEW i \in 1 .. Len(s) PROVE Away(l.pNext, l.pHead, i - 1) = s[i]
  <2>1. 1 \in 1 .. Len(s) /\ i - 1 \in Nat /\ 1 + (i - 1) <= Len(s) /\ 1 + (i - 1) = i
    BY <1>2
  <2>2. Away(l.pNext, Nth(s, 1), i - 1) = Nth(s, 1 + (i - 1))
    BY <1>1, <2>1, WalkNext
  <2> QED
    BY <1>1, <2>1, <2>2, NthFacts
<1>4. [i \in 1 .. Len(s) |-> Away(l.pNext, l.pHead, i - 1)] = [i \in 1 .. Len(s) |-> s[i]]
  BY <1>3
<1> QED
  BY <1>1, <1>2, <1>4

LEMMA ItemsShown ==
  ASSUME NEW s, Shown(list, live, s)
  PROVE  Items = s
BY WalkShown DEF Items

LEMMA ShownConsistent ==
  ASSUME NEW s, Shown(list, live, s)
  PROVE  Consistent
<1>1. /\ Distinct(s) /\ Follows(list, s) /\ list.cItems = Len(s) /\ Range(s) = live
      /\ s \in Seq(Nodes) /\ list \in ListType
      /\ list.pHead = Nth(s, 1) /\ list.pTail = Nth(s, Len(s))
  BY DEF Shown, Distinct, Follows
<1>2. Items = s
  BY ItemsShown
<1>3. Len(s) \in Nat
  BY <1>1, SequenceFacts
<1>4. {Items[i] : i \in 1 .. list.cItems} = live
  BY <1>1, <1>2, SequenceFacts
<1>5. \A i, j \in 1 .. list.cItems : Items[i] = Items[j] => i = j
  BY <1>1, <1>2 DEF Distinct
<1>6. ASSUME NEW i \in 1 .. list.cItems
      PROVE  Items[i] = Away(list.pPrev, list.pTail, list.cItems - i)
  <2>1. i \in 1 .. Len(s) /\ Len(s) \in 1 .. Len(s) /\ Len(s) - i \in Nat /\ Len(s) - i < Len(s)
        /\ Len(s) - (Len(s) - i) = i
    BY <1>1, <1>3
  <2>2. Away(list.pPrev, Nth(s, Len(s)), Len(s) - i) = Nth(s, Len(s) - (Len(s) - i))
    BY <1>1, <2>1, WalkPrev
  <2>3. s[i] = Nth(s, i)
    BY <2>1 DEF Nth
  <2> QED
    BY <1>1, <1>2, <2>1, <2>2, <2>3
<1>7. live = {} => list.pHead = NULL /\ list.pTail = NULL
  <2>1. ASSUME live = {} PROVE Len(s) = 0
    <3>1. ASSUME 1 \in 1 .. Len(s) PROVE s[1] \in live
      BY <1>1, <3>1, SequenceFacts
    <3> QED
      BY <1>3, <2>1, <3>1
  <2> QED
    BY <1>1, <2>1 DEF Nth
<1>8. ASSUME live # {} PROVE list.pPrev[list.pHead] = NULL /\ list.pNext[list.pTail] = NULL
  <2>1. Len(s) # 0
    BY <1>1, <1>8, SequenceFacts
  <2>2. 1 \in 1 .. Len(s) /\ Len(s) \in 1 .. Len(s)
    BY <1>3, <2>1
  <2>3. list.pPrev[Nth(s, 1)] = Nth(s, 1 - 1) /\ list.pNext[Nth(s, Len(s))] = Nth(s, Len(s) + 1)
    BY <1>1, <2>2, FollowsNth
  <2>4. Nth(s, 1 - 1) = NULL /\ Nth(s, Len(s) + 1) = NULL
    BY <1>3 DEF Nth
  <2> QED
    BY <1>1, <2>3, <2>4
<1>9. Linked
  BY <1>4, <1>5, <1>6, <1>7, <1>8 DEF Linked
<1>10. CacheRight
  <2>1. SUFFICES ASSUME list.pCachedIndex # NULL
                 PROVE  list.uCachedIndex < Len(s) /\ s[list.uCachedIndex + 1] = list.pCachedIndex
    BY <1>1, <1>2 DEF CacheRight
  <2>2. list.uCachedIndex < Len(s) /\ list.pCachedIndex = Nth(s, list.uCachedIndex + 1)
    BY <2>1 DEF Shown
  <2>3. list.uCachedIndex \in Nat
    BY <1>1 DEF ListType
  <2>4. list.uCachedIndex + 1 \in 1 .. Len(s)
    BY <1>3, <2>2, <2>3
  <2> QED
    BY <2>2, <2>4 DEF Nth
<1> QED
  BY <1>9, <1>10 DEF Consistent

LEMMA ShownType ==
  ASSUME ListInv
  PROVE  TypeOK
<1>1. PICK s : Shown(list, live, s)
  BY DEF ListInv
<1>2. /\ Distinct(s) /\ Follows(list, s) /\ Range(s) = live /\ list \in ListType
      /\ list.pHead = Nth(s, 1) /\ list.pTail = Nth(s, Len(s))
      /\ list.pCurr \in live \cup {NULL}
  BY <1>1 DEF Shown, Follows
<1>3. /\ Len(s) \in Nat
      /\ \A j \in Int : Nth(s, j) \in live \cup {NULL}
      /\ live \subseteq Nodes
      /\ \A m \in live : \E j \in 1 .. Len(s) : m = Nth(s, j)
  BY <1>2, NthFacts
<1>4. list.pHead \in live \cup {NULL} /\ list.pTail \in live \cup {NULL}
  BY <1>2, <1>3
<1>5. list.pCachedIndex \in live \cup {NULL}
  <2>1. list.uCachedIndex + 1 \in Int
    BY <1>2 DEF ListType
  <2> QED
    BY <1>1, <1>3, <2>1 DEF Shown
<1>6. ASSUME NEW m \in Nodes
      PROVE  list.pNext[m] \in live \cup {NULL} /\ list.pPrev[m] \in live \cup {NULL}
  <2>1. CASE m \in live
    <3>1. PICK j \in 1 .. Len(s) : m = Nth(s, j)
      BY <1>3, <2>1
    <3>2. list.pNext[m] = Nth(s, j + 1) /\ list.pPrev[m] = Nth(s, j - 1)
      BY <1>2, <3>1, FollowsNth
    <3> QED
      BY <1>3, <3>2
  <2>2. CASE m \notin live
    BY <1>2, <2>2 DEF Follows
  <2> QED
    BY <2>1, <2>2
<1>7. list.pNext \in [Nodes -> live \cup {NULL}] /\ list.pPrev \in [Nodes -> live \cup {NULL}]
  BY <1>2, <1>6 DEF ListType
<1>8. list.cItems \in Nat /\ list.uCachedIndex \in Nat
  BY <1>2 DEF ListType
<1>9. list = [pHead |-> list.pHead, pTail |-> list.pTail, pCurr |-> list.pCurr,
              cItems |-> list.cItems, uCachedIndex |-> list.uCachedIndex,
              pCachedIndex |-> list.pCachedIndex, pNext |-> list.pNext, pPrev |-> list.pPrev]
  BY <1>2 DEF ListType
<1> QED
  BY <1>2, <1>3, <1>4, <1>5, <1>7, <1>8, <1>9 DEF TypeOK, ListInv

-----------------------------------------------------------------------------
(* What the functions of a script make of a list that shows s. *)

\* Follows looks at the links and the ends only.
LEMMA SameLinks ==
  ASSUME NEW l, NEW r, NEW s, Follows(l, s),
         r.pHead = l.pHead, r.pTail = l.pTail, r.pNext = l.pNext, r.pPrev = l.pPrev
  PROVE  Follows(r, s)
BY DEF Follows

\* A new node before the ith, or behind all.
LEMMA InsertShown ==
  ASSUME NEW l, NEW nodes, NEW s, Shown(l, nodes, s),
         NEW i \in 1 .. Len(s) + 1, NEW n \in Nodes \ nodes
  PROVE  Shown(Uncached([Link(l, Nth(s, i - 1), n, Nth(s, i)) EXCEPT !.cItems = @ + 1]),
               nodes \cup {n}, Inserted(s, i, n))
<1>1. l \in ListType /\ Distinct(s) /\ Range(s) = nodes /\ Follows(l, s) /\ l.cItems = Len(s)
      /\ l.pCurr \in nodes \cup {NULL}
  BY DEF Shown
<1>2. PICK p \in Maybe \ {n}, x \in Maybe \ {n} : p = Nth(s, i - 1) /\ x = Nth(s, i)
  <2>1. i - 1 \in Int /\ i \in Int /\ n # NULL
    BY <1>1, NthFacts, NULLAssumption
  <2> QED
    BY <1>1, <2>1, NthFacts DEF Maybe
<1>3. PICK k : k = Link(l, p, n, x)
  OBVIOUS
<1>4. k \in ListType /\ SameRest(l, k)
  BY <1>1, <1>3, LinkFields
<1>5. Follows(k, Inserted(s, i, n))
  BY <1>1, <1>2, <1>3, LinkFollows
<1>0. PICK q : q = [k EXCEPT !.cItems = @ + 1]
  OBVIOUS
<1>11. /\ q \in ListType
       /\ q.pHead = k.pHead /\ q.pTail = k.pTail /\ q.pNext = k.pNext /\ q.pPrev = k.pPrev
       /\ q.cItems = k.cItems + 1 /\ q.pCurr = k.pCurr
  BY <1>0, <1>4 DEF ListType
<1>6. PICK r : r = Uncached(q)
  OBVIOUS
<1>7. /\ r \in ListType
      /\ r.pHead = k.pHead /\ r.pTail = k.pTail /\ r.pNext = k.pNext /\ r.pPrev = k.pPrev
      /\ r.cItems = k.cItems + 1 /\ r.pCurr = k.pCurr /\ r.pCachedIndex = NULL
  BY <1>11, <1>6 DEF Uncached, ListType, Maybe
<1>8. Follows(r, Inserted(s, i, n))
  BY <1>5, <1>7, SameLinks
<1>9. /\ Distinct(Inserted(s, i, n)) /\ Len(Inserted(s, i, n)) = Len(s) + 1
      /\ Range(Inserted(s, i, n)) = nodes \cup {n}
  BY <1>1, InsertedFacts
<1>10. Shown(r, nodes \cup {n}, Inserted(s, i, n))
  BY <1>1, <1>4, <1>7, <1>8, <1>9 DEF Shown, SameRest
<1> QED
  BY <1>0, <1>2, <1>3, <1>6, <1>10

\* List_Unlink of the ith.
LEMMA UnlinkFields ==
  ASSUME NEW l, NEW nodes, NEW s, Shown(l, nodes, s), NEW i \in 1 .. Len(s)
  PROVE  /\ Unlink(l, s[i]) \in ListType
         /\ Follows(Unlink(l, s[i]), Without(s, i))
         /\ Unlink(l, s[i]).cItems = l.cItems
         /\ Unlink(l, s[i]).pCurr = IF l.pCurr = s[i] THEN NULL ELSE l.pCurr
         /\ Unlink(l, s[i]).pCachedIndex = NULL
<1>1. l \in ListType /\ Distinct(s) /\ Follows(l, s)
  BY DEF Shown
<1>2. PICK n : n = s[i]
  OBVIOUS
<1>3. n = Nth(s, i)
  BY <1>2 DEF Nth
<1>4. PICK b : b = Bypass(l, n)
  OBVIOUS
<1>5. b \in ListType /\ SameRest(l, b) /\ Follows(b, Without(s, i))
  BY <1>1, <1>3, <1>4, BypassFollows
<1>6. PICK r : r = Uncached([b EXCEPT !.pCurr = IF @ = n THEN NULL ELSE @])
  OBVIOUS
<1>7. /\ r \in ListType
      /\ r.pHead = b.pHead /\ r.pTail = b.pTail /\ r.pNext = b.pNext /\ r.pPrev = b.pPrev
      /\ r.cItems = b.cItems /\ r.pCurr = (IF b.pCurr = n THEN NULL ELSE b.pCurr)
      /\ r.pCachedIndex = NULL
  BY <1>5, <1>6 DEF Uncached, ListType, Maybe
<1>8. Follows(r, Without(s, i))
  BY <1>5, <1>7, SameLinks
<1>9. r = Unlink(l, n)
  BY <1>4, <1>6 DEF Unlink
<1>10. r.cItems = l.cItems /\ r.pCurr = IF l.pCurr = n THEN NULL ELSE l.pCurr
  BY <1>5, <1>7 DEF SameRest
<1> QED
  BY <1>2, <1>7, <1>8, <1>9, <1>10

\* The ith is deleted.
LEMMA DeleteShown ==
  ASSUME NEW s, Shown(list, live, s), NEW i \in 1 .. Len(s)
  PROVE  /\ Shown(Deleted(s[i]), live \ {s[i]}, Without(s, i))
         /\ Deleted(s[i]).pCurr = IF list.pCurr = s[i] THEN NULL ELSE list.pCurr
<1>1. Distinct(s) /\ Range(s) = live /\ list.cItems = Len(s) /\ list.pCurr \in live \cup {NULL}
  BY DEF Shown
<1>2. PICK n : n = s[i]
  OBVIOUS
<1>3. PICK u : u = Unlink(list, n)
  OBVIOUS
<1>4. /\ u \in ListType /\ Follows(u, Without(s, i)) /\ u.cItems = list.cItems
      /\ u.pCurr = (IF list.pCurr = n THEN NULL ELSE list.pCurr)
      /\ u.pCachedIndex = NULL
  BY <1>2, <1>3, UnlinkFields
<1>5. PICK r : r = [u EXCEPT !.cItems = @ - 1]
  OBVIOUS
<1>6. Len(s) - 1 \in Nat
  BY <1>1, NthFacts
<1>7. /\ r \in ListType /\ r.cItems = Len(s) - 1 /\ r.pCurr = u.pCurr /\ r.pCachedIndex = NULL
      /\ r.pHead = u.pHead /\ r.pTail = u.pTail /\ r.pNext = u.pNext /\ r.pPrev = u.pPrev
  BY <1>1, <1>4, <1>5, <1>6 DEF ListType
<1>8. Follows(r, Without(s, i))
  BY <1>4, <1>7, SameLinks
<1>9. /\ Distinct(Without(s, i)) /\ Len(Without(s, i)) = Len(s) - 1
      /\ Range(Without(s, i)) = live \ {n}
  BY <1>1, <1>2, WithoutFacts
<1>10. r.pCurr \in (live \ {n}) \cup {NULL}
  BY <1>1, <1>4, <1>7
<1>11. Shown(r, live \ {n}, Without(s, i))
  BY <1>7, <1>8, <1>9, <1>10 DEF Shown
<1>12. r = Deleted(n)
  BY <1>3, <1>5 DEF Deleted
<1> QED
  BY <1>2, <1>4, <1>7, <1>11, <1>12

\* A node that was taken out, or a new one, is linked before the kth.
LEMMA Relinked ==
  ASSUME NEW u \in ListType, NEW t, Distinct(t), Follows(u, t),
         NEW k \in 1 .. Len(t) + 1, NEW n \in Nodes \ Range(t)
  PROVE  /\ Link(u, Nth(t, k - 1), n, Nth(t, k)) \in ListType
         /\ SameRest(u, Link(u, Nth(t, k - 1), n, Nth(t, k)))
         /\ Follows(Link(u, Nth(t, k - 1), n, Nth(t, k)), Inserted(t, k, n))
<1>1. PICK p \in Maybe \ {n}, x \in Maybe \ {n} : p = Nth(t, k - 1) /\ x = Nth(t, k)
  <2>1. k - 1 \in Int /\ k \in Int /\ n # NULL
    BY NthFacts, NULLAssumption
  <2> QED
    BY <2>1, NthFacts DEF Maybe
<1>2. Link(u, p, n, x) \in ListType /\ SameRest(u, Link(u, p, n, x))
  BY LinkFields
<1>3. Follows(Link(u, Nth(t, k - 1), n, Nth(t, k)), Inserted(t, k, n))
  BY LinkFollows
<1> QED
  BY <1>1, <1>2, <1>3

\* Writing to a function what it says already changes nothing.
LEMMA SameValue ==
  ASSUME NEW S, NEW T, NEW f \in [S -> T], NEW x, f[x] = NULL
  PROVE  [f EXCEPT ![x] = NULL] = f
OBVIOUS

\* With other nodes in the list, teListMoveToFront and teListMoveToBack link.
LEMMA MovedLinks ==
  ASSUME NEW u \in ListType, NEW n \in Nodes, u.pNext[n] = NULL, u.pPrev[n] = NULL,
         u.pHead # NULL, u.pTail # NULL, u.pHead # n, u.pTail # n
  PROVE  /\ MovedToFront(u, n) = Link(u, NULL, n, u.pHead)
         /\ MovedToBack(u, n) = Link(u, u.pTail, n, NULL)
<1>1. u.pHead \in Nodes /\ u.pTail \in Nodes /\ u.pNext \in [Nodes -> Maybe]
      /\ u.pPrev \in [Nodes -> Maybe]
  BY DEF ListType, Maybe
<1>2. [u.pPrev EXCEPT ![n] = NULL] = u.pPrev /\ [u.pNext EXCEPT ![n] = NULL] = u.pNext
  BY <1>1, SameValue
<1>3. MovedToFront(u, n) = Link(u, NULL, n, u.pHead)
  <2> DEFINE h == u.pHead
             a == [u.pNext EXCEPT ![n] = h]
             b == [u.pPrev EXCEPT ![h] = n]
  <2>1. MovedToFront(u, n) = [u EXCEPT !.pNext = a, !.pPrev = b, !.pHead = n]
    BY DEF MovedToFront, ListType
  <2>2. [u EXCEPT !.pPrev[n] = NULL, !.pNext[n] = h] = [u EXCEPT !.pNext = a]
    <3>1. [u EXCEPT !.pPrev[n] = NULL, !.pNext[n] = h]
            = [u EXCEPT !.pPrev = [u.pPrev EXCEPT ![n] = NULL], !.pNext = a]
      BY DEF ListType
    <3> HIDE DEF a, h
    <3> QED
      BY <1>2, <3>1 DEF ListType
  <2>3. Link(u, NULL, n, h) = [[[u EXCEPT !.pNext = a] EXCEPT !.pHead = n] EXCEPT !.pPrev[h] = n]
    <3> HIDE DEF a, h
    <3>1. h # NULL
      BY DEF h
    <3> QED
      BY <2>2, <3>1 DEF Link, SetNext, SetPrev
  <2>4. [[[u EXCEPT !.pNext = a] EXCEPT !.pHead = n] EXCEPT !.pPrev[h] = n]
          = [u EXCEPT !.pNext = a, !.pPrev = b, !.pHead = n]
    <3>1. b = [u.pPrev EXCEPT ![h] = n]
      OBVIOUS
    <3> HIDE DEF a, h, b
    <3> QED
      BY <3>1 DEF ListType
  <2> QED
    BY <2>1, <2>3, <2>4
<1>4. MovedToBack(u, n) = Link(u, u.pTail, n, NULL)
  <2> DEFINE h == u.pTail
             a == [u.pPrev EXCEPT ![n] = h]
             b == [u.pNext EXCEPT ![h] = n]
  <2>1. MovedToBack(u, n) = [u EXCEPT !.pPrev = a, !.pNext = b, !.pTail = n]
    BY DEF MovedToBack, ListType
  <2>2. [u EXCEPT !.pPrev[n] = h, !.pNext[n] = NULL] = [u EXCEPT !.pPrev = a]
    <3>1. [u EXCEPT !.pPrev[n] = h, !.pNext[n] = NULL]
            = [u EXCEPT !.pPrev = a, !.pNext = [u.pNext EXCEPT ![n] = NULL]]
      BY DEF ListType
    <3> HIDE DEF a, h
    <3> QED
      BY <1>2, <3>1 DEF ListType
  <2>3. Link(u, h, n, NULL) = [[[u EXCEPT !.pPrev = a] EXCEPT !.pNext[h] = n] EXCEPT !.pTail = n]
    <3> HIDE DEF a, h
    <3>1. h # NULL
      BY DEF h
    <3> QED
      BY <2>2, <3>1 DEF Link, SetNext, SetPrev
  <2>4. [[[u EXCEPT !.pPrev = a] EXCEPT !.pNext[h] = n] EXCEPT !.pTail = n]
          = [u EXCEPT !.pPrev = a, !.pNext = b, !.pTail = n]
    <3>1. b = [u.pNext EXCEPT ![h] = n]
      OBVIOUS
    <3> HIDE DEF a, h, b
    <3> QED
      BY <3>1 DEF ListType
  <2> QED
    BY <2>1, <2>3, <2>4
<1> QED
  BY <1>3, <1>4

\* What is taken out of a list that shows s and linked again before the kth of
\* the others is then the kth.
LEMMA MovedShown ==
  ASSUME NEW s, Shown(list, live, s), NEW i \in 1 .. Len(s), NEW k \in 1 .. Len(s),
         NEW r, NEW c \in live \cup {NULL},
         r = [Link(Unlink(list, s[i]), Nth(Without(s, i), k - 1), s[i], Nth(Without(s, i), k))
                EXCEPT !.pCurr = c]
  PROVE  Shown(r, live, Inserted(Without(s, i), k, s[i])) /\ r.pCurr = c
<1>1. Distinct(s) /\ Range(s) = live /\ list.cItems = Len(s) /\ Len(s) \in Nat
      /\ s[i] \in live /\ live \subseteq Nodes
  BY ShownFacts
<1>2. PICK t : t = Without(s, i)
  OBVIOUS
<1>3. PICK n \in Nodes : n = s[i]
  BY <1>1
<1>4. Distinct(t) /\ Len(t) = Len(s) - 1 /\ Range(t) = live \ {n}
  BY <1>1, <1>2, <1>3, WithoutFacts
<1>5. PICK u : u = Unlink(list, n)
  OBVIOUS
<1>6. u \in ListType /\ Follows(u, t) /\ u.cItems = Len(s) /\ u.pCachedIndex = NULL
  BY <1>1, <1>2, <1>3, <1>5, UnlinkFields
<1>7. k \in 1 .. Len(t) + 1 /\ n \in Nodes \ Range(t)
  BY <1>1, <1>4
<1>8. PICK q : q = Link(u, Nth(t, k - 1), n, Nth(t, k))
  OBVIOUS
<1>9. q \in ListType /\ SameRest(u, q) /\ Follows(q, Inserted(t, k, n))
  BY <1>4, <1>6, <1>7, <1>8, Relinked
<1>10. r = [q EXCEPT !.pCurr = c]
  BY <1>2, <1>3, <1>5, <1>8
<1>11. c \in Maybe
  BY <1>1 DEF Maybe
<1>12. /\ r \in ListType /\ r.pCurr = c /\ r.cItems = q.cItems
       /\ r.pCachedIndex = q.pCachedIndex
       /\ r.pHead = q.pHead /\ r.pTail = q.pTail /\ r.pNext = q.pNext /\ r.pPrev = q.pPrev
  BY <1>9, <1>10, <1>11 DEF ListType
<1>13. Follows(r, Inserted(t, k, n))
  BY <1>9, <1>12, SameLinks
<1>14. /\ Distinct(Inserted(t, k, n)) /\ Len(Inserted(t, k, n)) = Len(t) + 1
       /\ Range(Inserted(t, k, n)) = Range(t) \cup {n}
  BY <1>4, <1>7, InsertedFacts
<1>15. Len(Inserted(t, k, n)) = Len(s) /\ Range(Inserted(t, k, n)) = live
  BY <1>1, <1>3, <1>4, <1>14
<1>16. r.cItems = Len(s) /\ r.pCachedIndex = NULL
  BY <1>6, <1>9, <1>12 DEF SameRest
<1>17. Shown(r, live, Inserted(t, k, n))
  BY <1>12, <1>13, <1>14, <1>15, <1>16 DEF Shown
<1> QED
  BY <1>2, <1>3, <1>12, <1>17

\* teListMoveToFront and teListMoveToBack of a list with other items.
LEMMA EndShown ==
  ASSUME NEW s, Shown(list, live, s), NEW i \in 1 .. Len(s), list.pCurr = s[i], Len(s) > 1
  PROVE  /\ Shown(MovedToFront(Unlink(list, s[i]), s[i]), live, Inserted(Without(s, i), 1, s[i]))
         /\ Shown(MovedToBack(Unlink(list, s[i]), s[i]), live,
                  Inserted(Without(s, i), Len(s), s[i]))
         /\ MovedToFront(Unlink(list, s[i]), s[i]).pCurr = NULL
         /\ MovedToBack(Unlink(list, s[i]), s[i]).pCurr = NULL
<1>1. Distinct(s) /\ Range(s) = live /\ Len(s) \in Nat /\ s[i] \in live /\ live \subseteq Nodes
  BY ShownFacts
<1>2. PICK t : t = Without(s, i)
  OBVIOUS
<1>3. PICK n \in Nodes : n = s[i]
  BY <1>1
<1>4. Distinct(t) /\ Len(t) = Len(s) - 1 /\ Range(t) = live \ {n}
  BY <1>1, <1>2, <1>3, WithoutFacts
<1>5. PICK u : u = Unlink(list, n)
  OBVIOUS
<1>6. u \in ListType /\ Follows(u, t) /\ u.pCurr = NULL
  BY <1>2, <1>3, <1>5, UnlinkFields
<1>7. u.pHead = Nth(t, 1) /\ u.pTail = Nth(t, Len(t)) /\ u.pNext[n] = NULL /\ u.pPrev[n] = NULL
  BY <1>4, <1>6 DEF Follows
<1>8. /\ Nth(t, 1) \in Range(t) /\ Nth(t, 1) # NULL
      /\ Nth(t, Len(t)) \in Range(t) /\ Nth(t, Len(t)) # NULL
  <2>1. 1 \in 1 .. Len(t) /\ Len(t) \in 1 .. Len(t)
    BY <1>1, <1>4
  <2> QED
    BY <1>4, <2>1, NthFacts
<1>9. u.pHead # NULL /\ u.pTail # NULL /\ u.pHead # n /\ u.pTail # n
  BY <1>4, <1>7, <1>8
<1>10. /\ MovedToFront(u, n) = Link(u, NULL, n, u.pHead)
       /\ MovedToBack(u, n) = Link(u, u.pTail, n, NULL)
  BY <1>6, <1>7, <1>9, MovedLinks
<1>11. Nth(t, 1 - 1) = NULL /\ Nth(t, Len(s)) = NULL /\ Len(s) - 1 = Len(t)
  BY <1>1, <1>4 DEF Nth
<1>12. ASSUME NEW k \in {1, Len(s)}, NEW q, q = Link(u, Nth(t, k - 1), n, Nth(t, k))
       PROVE  Shown(q, live, Inserted(t, k, n)) /\ q.pCurr = NULL
  <2>1. k \in 1 .. Len(s) /\ k \in 1 .. Len(t) + 1
    BY <1>1, <1>4
  <2>2. q \in ListType /\ SameRest(u, q)
    BY <1>4, <1>6, <1>12, <2>1, Relinked
  <2>3. q.pCurr = NULL
    BY <1>6, <2>2 DEF SameRest
  <2>4. q = [q EXCEPT !.pCurr = NULL]
    BY <2>2, <2>3 DEF ListType
  <2>5. PICK c \in live \cup {NULL} : c = NULL
    OBVIOUS
  <2>6. q = [Link(Unlink(list, s[i]), Nth(Without(s, i), k - 1), s[i], Nth(Without(s, i), k))
               EXCEPT !.pCurr = c]
    BY <1>2, <1>3, <1>5, <1>12, <2>4, <2>5
  <2>7. Shown(q, live, Inserted(Without(s, i), k, s[i]))
    BY <2>1, <2>6, MovedShown
  <2> QED
    BY <1>2, <1>3, <2>3, <2>7
<1>13. MovedToFront(u, n) = Link(u, Nth(t, 1 - 1), n, Nth(t, 1))
  BY <1>7, <1>10, <1>11
<1>14. MovedToBack(u, n) = Link(u, Nth(t, Len(s) - 1), n, Nth(t, Len(s)))
  BY <1>7, <1>10, <1>11
<1> QED
  BY <1>2, <1>3, <1>5, <1>12, <1>13, <1>14

\* teListMoveToPrevious, and then teListMoveToNext.
LEMMA PreviousShown ==
  ASSUME NEW s, Shown(list, live, s), NEW i \in 1 .. Len(s), list.pPrev[s[i]] # NULL,
         NEW r,
         r = [Link(Unlink(list, s[i]), Unlink(list, s[i]).pPrev[list.pPrev[s[i]]], s[i],
                   list.pPrev[s[i]]) EXCEPT !.pCurr = s[i]]
  PROVE  /\ i > 1
         /\ Shown(r, live, Inserted(Without(s, i), i - 1, s[i]))
         /\ r.pCurr = s[i]
<1>1. Distinct(s) /\ Range(s) = live /\ Len(s) \in Nat /\ s[i] \in live /\ live \subseteq Nodes
      /\ Follows(list, s)
  BY ShownFacts
<1>2. PICK t : t = Without(s, i)
  OBVIOUS
<1>3. PICK n \in Nodes : n = s[i]
  BY <1>1
<1>4. Distinct(t) /\ Len(t) = Len(s) - 1 /\ Range(t) = live \ {n}
  BY <1>1, <1>2, <1>3, WithoutFacts
<1>5. PICK u : u = Unlink(list, n)
  OBVIOUS
<1>6. u \in ListType /\ Follows(u, t)
  BY <1>2, <1>3, <1>5, UnlinkFields
<1>7. list.pPrev[n] = Nth(s, i - 1) /\ list.pNext[n] = Nth(s, i + 1)
  BY <1>1, <1>3, FollowsNth, NthFacts
<1>8. \A j \in Int : Nth(s, j) # NULL <=> j \in 1 .. Len(s)
  BY <1>1, NthFacts
<1>9. i - 1 \in 1 .. Len(s) /\ i - 1 \in Int
  BY <1>1, <1>3, <1>7, <1>8
<1>10. list.pPrev[n] = Nth(t, i - 1) /\ u.pPrev[list.pPrev[n]] = Nth(t, i - 1 - 1)
  <2>1. Nth(t, i - 1) = Nth(s, i - 1)
    BY <1>1, <1>2, <1>9, NthWithout
  <2>2. i - 1 \in 1 .. Len(t)
    BY <1>1, <1>4, <1>9
  <2> QED
    BY <1>4, <1>6, <1>7, <2>1, <2>2, FollowsNth
<1>11. r = [Link(u, Nth(t, i - 1 - 1), n, Nth(t, i - 1)) EXCEPT !.pCurr = n]
  BY <1>3, <1>5, <1>10
<1> QED
  BY <1>1, <1>2, <1>3, <1>5, <1>9, <1>11, MovedShown

LEMMA NextShown ==
  ASSUME NEW s, Shown(list, live, s), NEW i \in 1 .. Len(s), list.pNext[s[i]] # NULL,
         NEW r,
         r = [Link(Unlink(list, s[i]), list.pNext[s[i]], s[i],
                   Unlink(list, s[i]).pNext[list.pNext[s[i]]]) EXCEPT !.pCurr = s[i]]
  PROVE  /\ i < Len(s)
         /\ Shown(r, live, Inserted(Without(s, i), i + 1, s[i]))
         /\ r.pCurr = s[i]
<1>1. Distinct(s) /\ Range(s) = live /\ Len(s) \in Nat /\ s[i] \in live /\ live \subseteq Nodes
      /\ Follows(list, s)
  BY ShownFacts
<1>2. PICK t : t = Without(s, i)
  OBVIOUS
<1>3. PICK n \in Nodes : n = s[i]
  BY <1>1
<1>4. Distinct(t) /\ Len(t) = Len(s) - 1 /\ Range(t) = live \ {n}
  BY <1>1, <1>2, <1>3, WithoutFacts
<1>5. PICK u : u = Unlink(list, n)
  OBVIOUS
<1>6. u \in ListType /\ Follows(u, t)
  BY <1>2, <1>3, <1>5, UnlinkFields
<1>7. list.pPrev[n] = Nth(s, i - 1) /\ list.pNext[n] = Nth(s, i + 1)
  BY <1>1, <1>3, FollowsNth, NthFacts
<1>8. \A j \in Int : Nth(s, j) # NULL <=> j \in 1 .. Len(s)
  BY <1>1, NthFacts
<1>9. i + 1 \in 1 .. Len(s) /\ i \in Int /\ i + 1 - 1 = i
  BY <1>1, <1>3, <1>7, <1>8
<1>10. list.pNext[n] = Nth(t, i) /\ u.pNext[list.pNext[n]] = Nth(t, i + 1)
  <2>1. Nth(t, i) = Nth(s, i + 1)
    BY <1>1, <1>2, <1>9, NthWithout
  <2>2. i \in 1 .. Len(t)
    BY <1>1, <1>4, <1>9
  <2> QED
    BY <1>4, <1>6, <1>7, <2>1, <2>2, FollowsNth
<1>11. r = [Link(u, Nth(t, i + 1 - 1), n, Nth(t, i + 1)) EXCEPT !.pCurr = n]
  BY <1>3, <1>5, <1>9, <1>10
<1> QED
  BY <1>1, <1>2, <1>3, <1>5, <1>9, <1>11, MovedShown

-----------------------------------------------------------------------------
(* The operators of the abstract list say the same. *)

LEMMA InsertAtIs ==
  ASSUME NEW s, Distinct(s), NEW i \in 1 .. Len(s) + 1, NEW n \in Nodes \ Range(s)
  PROVE  Sequence!InsertAt(s, i, n) = Inserted(s, i, n)
<1>1. s \in Seq(Nodes) /\ Len(s) \in Nat /\ \A j \in 1 .. Len(s) : s[j] \in Nodes
  BY SequenceFacts DEF Distinct
<1>2. PICK a : a = SubSeq(s, 1, i - 1)
  OBVIOUS
<1>3. PICK b : b = SubSeq(s, i, Len(s))
  OBVIOUS
<1>4. PICK m : m = <<n>>
  OBVIOUS
<1>5. a \in Seq(Nodes) /\ Len(a) = i - 1 /\ \A j \in 1 .. i - 1 : a[j] = s[j]
  <2>1. 1 \in Int /\ i - 1 \in Int /\ \A j \in 1 .. i - 1 : s[j] \in Nodes
    BY <1>1
  <2>2. /\ a \in Seq(Nodes) /\ Len(a) = IF 1 <= i - 1 THEN i - 1 - 1 + 1 ELSE 0
        /\ \A j \in 1 .. i - 1 - 1 + 1 : a[j] = s[1 + j - 1]
    BY <1>2, <2>1, SubSeqProperties
  <2> QED
    BY <1>1, <2>2
<1>6. b \in Seq(Nodes) /\ Len(b) = Len(s) - i + 1 /\ \A j \in 1 .. Len(s) - i + 1 : b[j] = s[i + j - 1]
  <2>1. i \in Int /\ Len(s) \in Int /\ \A j \in i .. Len(s) : s[j] \in Nodes
    BY <1>1
  <2>2. /\ b \in Seq(Nodes) /\ Len(b) = IF i <= Len(s) THEN Len(s) - i + 1 ELSE 0
        /\ \A j \in 1 .. Len(s) - i + 1 : b[j] = s[i + j - 1]
    BY <1>3, <2>1, SubSeqProperties
  <2> QED
    BY <1>1, <2>2
<1>7. m \in Seq(Nodes) /\ Len(m) = 1 /\ m[1] = n
  BY <1>4
<1>8. PICK am : am = a \o m
  OBVIOUS
<1>9. am \in Seq(Nodes) /\ Len(am) = i /\ \A j \in 1 .. i : am[j] = IF j <= i - 1 THEN s[j] ELSE n
  <2>1. /\ am \in Seq(Nodes) /\ Len(am) = Len(a) + Len(m)
        /\ \A j \in 1 .. Len(a) + Len(m) : am[j] = IF j <= Len(a) THEN a[j] ELSE m[j - Len(a)]
    BY <1>5, <1>7, <1>8, ConcatProperties
  <2>2. Len(a) + Len(m) = i
    BY <1>1, <1>5, <1>7
  <2>3. ASSUME NEW j \in 1 .. i PROVE am[j] = IF j <= i - 1 THEN s[j] ELSE n
    <3>1. j <= i - 1 => j \in 1 .. i - 1
      BY <1>1
    <3>2. ~(j <= i - 1) => j - Len(a) = 1
      BY <1>1, <1>5
    <3> QED
      BY <1>5, <1>7, <2>1, <2>2, <3>1, <3>2
  <2> QED
    BY <2>1, <2>2, <2>3
<1>10. PICK t : t = am \o b
  OBVIOUS
<1>11. /\ t \in Seq(Nodes) /\ Len(t) = Len(s) + 1
       /\ \A j \in 1 .. Len(s) + 1 : t[j] = IF j < i THEN s[j] ELSE IF j = i THEN n ELSE s[j - 1]
  <2>1. /\ t \in Seq(Nodes) /\ Len(t) = Len(am) + Len(b)
        /\ \A j \in 1 .. Len(am) + Len(b) : t[j] = IF j <= Len(am) THEN am[j] ELSE b[j - Len(am)]
    BY <1>6, <1>9, <1>10, ConcatProperties
  <2>2. Len(am) + Len(b) = Len(s) + 1
    BY <1>1, <1>6, <1>9
  <2>3. ASSUME NEW j \in 1 .. Len(s) + 1
        PROVE  t[j] = IF j < i THEN s[j] ELSE IF j = i THEN n ELSE s[j - 1]
    <3>1. CASE j <= i
      <4>1. t[j] = am[j] /\ j \in 1 .. i
        BY <1>1, <1>9, <2>1, <2>2, <3>1
      <4> QED
        BY <1>1, <1>9, <3>1, <4>1
    <3>2. CASE ~(j <= i)
      <4>1. j - i \in 1 .. Len(s) - i + 1 /\ i + (j - i) - 1 = j - 1
        BY <1>1, <3>2
      <4>2. t[j] = b[j - i]
        BY <1>9, <2>1, <2>2, <3>2
      <4>3. b[j - i] = s[i + (j - i) - 1]
        BY <1>6, <4>1
      <4> QED
        BY <1>1, <3>2, <4>1, <4>2, <4>3
    <3> QED
      BY <3>1, <3>2
  <2> QED
    BY <2>1, <2>2, <2>3
<1>12. t = Sequence!InsertAt(s, i, n)
  BY <1>2, <1>3, <1>4, <1>8, <1>10 DEF Sequence!InsertAt
<1>13. PICK r : r = Inserted(s, i, n)
  OBVIOUS
<1>14. /\ r \in Seq(Nodes) /\ Len(r) = Len(s) + 1
       /\ \A j \in 1 .. Len(s) + 1 : r[j] = IF j < i THEN s[j] ELSE IF j = i THEN n ELSE s[j - 1]
  BY <1>13, InsertedFacts DEF Distinct
<1>15. t = r
  BY <1>11, <1>14, SeqEqual
<1> QED
  BY <1>12, <1>13, <1>15

LEMMA RemoveAtIs ==
  ASSUME NEW s, Distinct(s), NEW i \in 1 .. Len(s)
  PROVE  Sequence!RemoveAt(s, i) = Without(s, i)
<1>1. s \in Seq(Nodes) /\ Len(s) \in Nat /\ \A j \in 1 .. Len(s) : s[j] \in Nodes
  BY SequenceFacts DEF Distinct
<1>2. PICK a : a = SubSeq(s, 1, i - 1)
  OBVIOUS
<1>3. PICK b : b = SubSeq(s, i + 1, Len(s))
  OBVIOUS
<1>5. a \in Seq(Nodes) /\ Len(a) = i - 1 /\ \A j \in 1 .. i - 1 : a[j] = s[j]
  <2>1. 1 \in Int /\ i - 1 \in Int /\ \A j \in 1 .. i - 1 : s[j] \in Nodes
    BY <1>1
  <2>2. /\ a \in Seq(Nodes) /\ Len(a) = IF 1 <= i - 1 THEN i - 1 - 1 + 1 ELSE 0
        /\ \A j \in 1 .. i - 1 - 1 + 1 : a[j] = s[1 + j - 1]
    BY <1>2, <2>1, SubSeqProperties
  <2> QED
    BY <1>1, <2>2
<1>6. b \in Seq(Nodes) /\ Len(b) = Len(s) - i /\ \A j \in 1 .. Len(s) - i : b[j] = s[i + j]
  <2>1. i + 1 \in Int /\ Len(s) \in Int /\ \A j \in i + 1 .. Len(s) : s[j] \in Nodes
    BY <1>1
  <2>2. /\ b \in Seq(Nodes) /\ Len(b) = IF i + 1 <= Len(s) THEN Len(s) - (i + 1) + 1 ELSE 0
        /\ \A j \in 1 .. Len(s) - (i + 1) + 1 : b[j] = s[i + 1 + j - 1]
    BY <1>3, <2>1, SubSeqProperties
  <2> QED
    BY <1>1, <2>2
<1>10. PICK t : t = a \o b
  OBVIOUS
<1>11. /\ t \in Seq(Nodes) /\ Len(t) = Len(s) - 1
       /\ \A j \in 1 .. Len(s) - 1 : t[j] = IF j < i THEN s[j] ELSE s[j + 1]
  <2>1. /\ t \in Seq(Nodes) /\ Len(t) = Len(a) + Len(b)
        /\ \A j \in 1 .. Len(a) + Len(b) : t[j] = IF j <= Len(a) THEN a[j] ELSE b[j - Len(a)]
    BY <1>5, <1>6, <1>10, ConcatProperties
  <2>2. Len(a) + Len(b) = Len(s) - 1
    BY <1>1, <1>5, <1>6
  <2>3. ASSUME NEW j \in 1 .. Len(s) - 1
        PROVE  t[j] = IF j < i THEN s[j] ELSE s[j + 1]
    <3>1. CASE j < i
      <4>1. t[j] = a[j] /\ j \in 1 .. i - 1
        BY <1>1, <1>5, <2>1, <2>2, <3>1
      <4> QED
        BY <1>5, <3>1, <4>1
    <3>2. CASE ~(j < i)
      <4>1. j - (i - 1) \in 1 .. Len(s) - i /\ i + (j - (i - 1)) = j + 1 /\ ~(j <= i - 1)
        BY <1>1, <3>2
      <4>2. t[j] = b[j - (i - 1)]
        BY <1>5, <2>1, <2>2, <4>1
      <4>3. b[j - (i - 1)] = s[i + (j - (i - 1))]
        BY <1>6, <4>1
      <4> QED
        BY <3>2, <4>1, <4>2, <4>3
    <3> QED
      BY <3>1, <3>2
  <2> QED
    BY <2>1, <2>2, <2>3
<1>12. t = Sequence!RemoveAt(s, i)
  BY <1>2, <1>3, <1>10 DEF Sequence!RemoveAt
<1>13. PICK r : r = Without(s, i)
  OBVIOUS
<1>14. /\ r \in Seq(Nodes) /\ Len(r) = Len(s) - 1
       /\ \A j \in 1 .. Len(s) - 1 : r[j] = IF j < i THEN s[j] ELSE s[j + 1]
  BY <1>13, WithoutFacts DEF Distinct
<1>15. t = r
  BY <1>11, <1>14, SeqEqual
<1> QED
  BY <1>12, <1>13, <1>15

LEMMA EndsAre ==
  ASSUME NEW t, Distinct(t), NEW n \in Nodes \ Range(t)
  PROVE  /\ <<n>> \o t = Inserted(t, 1, n)
         /\ Append(t, n) = Inserted(t, Len(t) + 1, n)
<1>1. t \in Seq(Nodes) /\ Len(t) \in Nat
  BY SequenceFacts DEF Distinct
<1>2. 1 \in 1 .. Len(t) + 1 /\ Len(t) + 1 \in 1 .. Len(t) + 1
  BY <1>1
<1>3. PICK m : m = <<n>>
  OBVIOUS
<1>4. m \in Seq(Nodes) /\ Len(m) = 1 /\ m[1] = n
  BY <1>3
<1>5. PICK a : a = m \o t
  OBVIOUS
<1>6. PICK b : b = Append(t, n)
  OBVIOUS
<1>7. PICK c : c = Inserted(t, 1, n)
  OBVIOUS
<1>8. PICK d : d = Inserted(t, Len(t) + 1, n)
  OBVIOUS
<1>9. /\ c \in Seq(Nodes) /\ Len(c) = Len(t) + 1
      /\ \A j \in 1 .. Len(t) + 1 : c[j] = IF j < 1 THEN t[j] ELSE IF j = 1 THEN n ELSE t[j - 1]
  BY <1>2, <1>7, InsertedFacts DEF Distinct
<1>10. /\ d \in Seq(Nodes) /\ Len(d) = Len(t) + 1
       /\ \A j \in 1 .. Len(t) + 1 :
            d[j] = IF j < Len(t) + 1 THEN t[j] ELSE IF j = Len(t) + 1 THEN n ELSE t[j - 1]
  BY <1>2, <1>8, InsertedFacts DEF Distinct
<1>11. a = c
  <2>1. /\ a \in Seq(Nodes) /\ Len(a) = Len(m) + Len(t)
        /\ \A j \in 1 .. Len(m) + Len(t) : a[j] = IF j <= Len(m) THEN m[j] ELSE t[j - Len(m)]
    BY <1>1, <1>4, <1>5, ConcatProperties
  <2>2. Len(a) = Len(c) /\ \A j \in 1 .. Len(a) : a[j] = c[j]
    <3>1. Len(a) = Len(c)
      BY <1>1, <1>4, <1>9, <2>1
    <3>2. ASSUME NEW j \in 1 .. Len(a) PROVE a[j] = c[j]
      <4>1. /\ a[j] = (IF j <= 1 THEN m[j] ELSE t[j - 1])
            /\ c[j] = (IF j < 1 THEN t[j] ELSE IF j = 1 THEN n ELSE t[j - 1])
        BY <1>1, <1>4, <1>9, <2>1, <3>1
      <4>2. (j <= 1 <=> j = 1) /\ ~(j < 1)
        BY <2>1, <1>1, <1>4
      <4> QED
        BY <1>4, <4>1, <4>2
    <3> QED
      BY <3>1, <3>2
  <2> QED
    BY <1>9, <2>1, <2>2, SeqEqual
<1>12. b = d
  <2>1. /\ b \in Seq(Nodes) /\ Len(b) = Len(t) + 1 /\ b[Len(t) + 1] = n
        /\ \A j \in 1 .. Len(t) : b[j] = t[j]
    BY <1>1, <1>6, AppendProperties
  <2>2. ASSUME NEW j \in 1 .. Len(t) + 1 PROVE b[j] = d[j]
    <3>1. CASE j = Len(t) + 1
      BY <1>1, <1>10, <2>1, <3>1
    <3>2. CASE j # Len(t) + 1
      <4>1. j \in 1 .. Len(t) /\ j < Len(t) + 1
        BY <1>1, <3>2
      <4> QED
        BY <1>10, <2>1, <4>1
    <3> QED
      BY <3>1, <3>2
  <2>3. Len(b) = Len(d) /\ \A j \in 1 .. Len(b) : b[j] = d[j]
    BY <1>10, <2>1, <2>2
  <2> QED
    BY <1>10, <2>1, <2>3, SeqEqual
<1> QED
  BY <1>3, <1>5, <1>6, <1>7, <1>8, <1>11, <1>12

\* An item that is put behind its successor, and one that is put before its
\* predecessor, change places with it.
LEMMA SwapIs ==
  ASSUME NEW s, Distinct(s), NEW i \in 1 .. Len(s) - 1
  PROVE  /\ [s EXCEPT ![i] = s[i + 1], ![i + 1] = s[i]] = Inserted(Without(s, i), i + 1, s[i])
         /\ [s EXCEPT ![i] = s[i + 1], ![i + 1] = s[i]] = Inserted(Without(s, i + 1), i, s[i + 1])
<1>1. s \in Seq(Nodes) /\ Len(s) \in Nat /\ s = [j \in 1 .. Len(s) |-> s[j]]
      /\ \A j \in 1 .. Len(s) : s[j] \in Nodes
  BY SequenceFacts DEF Distinct
<1>2. i \in 1 .. Len(s) /\ i + 1 \in 1 .. Len(s) /\ i \in Int
  BY <1>1
<1>3. PICK x : x = [s EXCEPT ![i] = s[i + 1], ![i + 1] = s[i]]
  OBVIOUS
<1>4. x = [j \in 1 .. Len(s) |-> IF j = i THEN s[i + 1] ELSE IF j = i + 1 THEN s[i] ELSE s[j]]
  BY <1>1, <1>2, <1>3
<1>5. ASSUME NEW k \in {i, i + 1}
      PROVE  Inserted(Without(s, k), IF k = i THEN i + 1 ELSE i, s[k]) = x
  <2>1. k \in 1 .. Len(s)
    BY <1>2
  <2>2. PICK t : t = Without(s, k)
    OBVIOUS
  <2>3. /\ Distinct(t) /\ Len(t) = Len(s) - 1 /\ Range(t) = Range(s) \ {s[k]}
        /\ \A j \in 1 .. Len(s) - 1 : t[j] = IF j < k THEN s[j] ELSE s[j + 1]
    BY <2>1, <2>2, WithoutFacts
  <2>4. PICK p \in 1 .. Len(s) : p = IF k = i THEN i + 1 ELSE i
    BY <1>2
  <2>5. PICK n : n = s[k]
    OBVIOUS
  <2>6. PICK y : y = Inserted(t, p, n)
    OBVIOUS
  <2>7. Len(t) + 1 = Len(s)
    BY <1>1, <2>3
  <2>8. y = [j \in 1 .. Len(s) |-> IF j < p THEN t[j] ELSE IF j = p THEN n ELSE t[j - 1]]
    BY <2>6, <2>7 DEF Inserted
  <2>9. ASSUME NEW j \in 1 .. Len(s)
        PROVE  (IF j < p THEN t[j] ELSE IF j = p THEN n ELSE t[j - 1])
                 = IF j = i THEN s[i + 1] ELSE IF j = i + 1 THEN s[i] ELSE s[j]
    <3>1. CASE j < p
      <4>1. j \in 1 .. Len(s) - 1
        BY <1>1, <2>4, <3>1
      <4>2. t[j] = IF j < k THEN s[j] ELSE s[j + 1]
        BY <2>3, <4>1
      <4> QED
        BY <1>1, <1>2, <2>4, <3>1, <4>2
    <3>2. CASE j = p
      BY <1>1, <1>2, <2>4, <2>5, <3>2
    <3>3. CASE p < j
      <4>1. j - 1 \in 1 .. Len(s) - 1 /\ j - 1 + 1 = j
        BY <1>1, <2>4, <3>3
      <4>2. t[j - 1] = IF j - 1 < k THEN s[j - 1] ELSE s[j]
        BY <2>3, <4>1
      <4> QED
        BY <1>1, <1>2, <2>4, <3>3, <4>2
    <3> QED
      BY <1>1, <2>4, <3>1, <3>2, <3>3
  <2>10. y = x
    BY <1>4, <2>8, <2>9
  <2> QED
    BY <2>2, <2>4, <2>5, <2>6, <2>10
<1>6. i + 1 # i
  BY <1>2
<1> QED
  BY <1>3, <1>5, <1>6

-----------------------------------------------------------------------------
(* What a step of a script makes of the items, as the abstract list has it. *)

LEMMA ItemsThen ==
  ASSUME NEW t, Shown(list', live', t)
  PROVE  Items' = t
BY WalkShown DEF Items

LEMMA InsertStep ==
  ASSUME NEW s, Shown(list, live, s), NEW i \in 1 .. Len(s) + 1, NEW n \in Nodes \ live,
         Shown(list', live', Inserted(s, i, n)), list'.pCurr = list.pCurr
  PROVE  Sequence!Next
<1>1. Distinct(s) /\ Range(s) = live /\ s \in Seq(Nodes)
  BY DEF Shown, Distinct
<1>2. Items = s /\ Items' = Inserted(s, i, n)
  BY ItemsShown, ItemsThen
<1>3. Sequence!InsertAt(s, i, n) = Inserted(s, i, n)
  BY <1>1, InsertAtIs
<1>4. Sequence!ToSet(s) = live
  BY <1>1, SequenceFacts DEF Sequence!ToSet
<1>5. \E m \in Nodes \ Sequence!ToSet(Items), j \in 1 .. Len(Items) + 1 :
         Items' = Sequence!InsertAt(Items, j, m)
  BY <1>2, <1>3, <1>4
<1> QED
  BY <1>5 DEF Sequence!Next, Sequence!Insert

LEMMA TakeStep ==
  ASSUME NEW s, Shown(list, live, s), NEW i \in 1 .. Len(s),
         Shown(list', live', Without(s, i)),
         list'.pCurr = IF list.pCurr = s[i] THEN NULL ELSE list.pCurr
  PROVE  Sequence!Next
<1>1. Items = s /\ Items' = Without(s, i)
  BY ItemsShown, ItemsThen
<1>2. Sequence!RemoveAt(s, i) = Without(s, i)
  BY RemoveAtIs DEF Shown
<1>3. \E j \in 1 .. Len(Items) :
        /\ Items' = Sequence!RemoveAt(Items, j)
        /\ list'.pCurr = IF list.pCurr = Items[j] THEN NULL ELSE list.pCurr
  BY <1>1, <1>2
<1> QED
  BY <1>3 DEF Sequence!Next, Sequence!Take

LEMMA EndStep ==
  ASSUME NEW s, Shown(list, live, s), NEW i \in 1 .. Len(s), list.pCurr = s[i],
         NEW k \in {1, Len(s)},
         Shown(list', live', Inserted(Without(s, i), k, s[i])), list'.pCurr = NULL
  PROVE  Sequence!Next
<1>1. Distinct(s) /\ Range(s) = live /\ Len(s) \in Nat /\ s[i] \in live /\ live \subseteq Nodes
  BY ShownFacts
<1>2. PICK n \in Nodes : n = s[i]
  BY <1>1
<1>3. PICK t : t = Without(s, i)
  OBVIOUS
<1>4. Distinct(t) /\ Len(t) = Len(s) - 1 /\ Range(t) = live \ {n}
  BY <1>1, <1>2, <1>3, WithoutFacts
<1>5. Items = s /\ Items' = Inserted(t, k, n)
  BY <1>2, <1>3, ItemsShown, ItemsThen
<1>6. <<n>> \o t = Inserted(t, 1, n) /\ Append(t, n) = Inserted(t, Len(t) + 1, n)
  BY <1>4, EndsAre
<1>7. Sequence!RemoveAt(Items, i) = t
  BY <1>1, <1>3, <1>5, RemoveAtIs
<1>8. Len(t) + 1 = Len(s)
  BY <1>1, <1>4
<1>9. Items' \in {<<n>> \o t, Append(t, n)}
  BY <1>5, <1>6, <1>8
<1>10. n # NULL /\ list.pCurr = n
  BY <1>2, NULLAssumption
<1>11. \E j \in 1 .. Len(Items) :
         /\ Items[j] = list.pCurr
         /\ Items' \in {<<list.pCurr>> \o Sequence!RemoveAt(Items, j),
                        Append(Sequence!RemoveAt(Items, j), list.pCurr)}
  BY <1>2, <1>5, <1>7, <1>9, <1>10
<1> QED
  BY <1>10, <1>11 DEF Sequence!Next, Sequence!MoveToEnd

\* The current item changes places with its successor, or its predecessor.
LEMMA PastStep ==
  ASSUME NEW s, Shown(list, live, s), NEW i \in 1 .. Len(s) - 1,
         list.pCurr \in {s[i], s[i + 1]}, list'.pCurr = list.pCurr,
         Shown(list', live', IF list.pCurr = s[i] THEN Inserted(Without(s, i), i + 1, s[i])
                                                  ELSE Inserted(Without(s, i + 1), i, s[i + 1]))
  PROVE  Sequence!Next
<1>1. Distinct(s) /\ Range(s) = live /\ Len(s) \in Nat /\ live \subseteq Nodes
  BY ShownFacts
<1>2. i \in 1 .. Len(s) /\ i + 1 \in 1 .. Len(s)
  BY <1>1
<1>3. s[i] \in Nodes /\ s[i + 1] \in Nodes
  BY <1>1, <1>2, SequenceFacts DEF Distinct
<1>4. Items = s
  BY ItemsShown
<1>5. Items' = [s EXCEPT ![i] = s[i + 1], ![i + 1] = s[i]]
  <2>1. Items' = IF list.pCurr = s[i] THEN Inserted(Without(s, i), i + 1, s[i])
                                      ELSE Inserted(Without(s, i + 1), i, s[i + 1])
    BY ItemsThen
  <2> QED
    BY <1>1, <2>1, SwapIs
<1>6. list.pCurr # NULL
  BY <1>3, NULLAssumption
<1>7. \E j \in 1 .. Len(Items) - 1 :
        /\ list.pCurr \in {Items[j], Items[j + 1]}
        /\ Items' = [Items EXCEPT ![j] = Items[j + 1], ![j + 1] = Items[j]]
  BY <1>4, <1>5
<1> QED
  BY <1>6, <1>7 DEF Sequence!Next, Sequence!MovePast

LEMMA SeekStep ==
  ASSUME NEW s, Shown(list, live, s), Shown(list', live', s),
         \/ list'.pCurr = NULL
         \/ Len(s) # 0 /\ list'.pCurr \in {s[1], s[Len(s)]}
         \/ \E i \in 1 .. Len(s) - 1 : {list.pCurr, list'.pCurr} = {s[i], s[i + 1]}
  PROVE  Sequence!Next
<1>1. Items = s /\ Items' = s
  BY ItemsShown, ItemsThen
<1>2. Len(s) # 0 => Items # <<>>
  BY <1>1
<1>3. Sequence!Seek
  BY <1>1, <1>2 DEF Sequence!Seek
<1> QED
  BY <1>3 DEF Sequence!Next

LEMMA StillStep ==
  ASSUME NEW s, Shown(list, live, s), Shown(list', live', s), list'.pCurr = list.pCurr
  PROVE  UNCHANGED Sequence!seqVars
<1>1. Items = s /\ Items' = s
  BY ItemsShown, ItemsThen
<1> QED
  BY <1>1 DEF Sequence!seqVars

-----------------------------------------------------------------------------
(* The steps. *)

\* What the list keeps when only its cache is set.
LEMMA CachedShown ==
  ASSUME NEW s, Shown(list, live, s), NEW u \in 0 .. Len(s) - 1
  PROVE  /\ Shown([list EXCEPT !.uCachedIndex = u, !.pCachedIndex = Nth(s, u + 1)], live, s)
         /\ [list EXCEPT !.uCachedIndex = u, !.pCachedIndex = Nth(s, u + 1)].pCurr = list.pCurr
<1>1. list \in ListType /\ Distinct(s) /\ Len(s) \in Nat /\ Range(s) \subseteq Nodes
      /\ Follows(list, s)
  BY NthFacts DEF Shown
<1>2. u \in Nat /\ u < Len(s) /\ u + 1 \in Int
  BY <1>1
<1>3. PICK c \in Maybe : c = Nth(s, u + 1)
  BY <1>1, <1>2, NthFacts DEF Maybe
<1>4. PICK r : r = [list EXCEPT !.uCachedIndex = u, !.pCachedIndex = c]
  OBVIOUS
<1>5. /\ r \in ListType /\ r.uCachedIndex = u /\ r.pCachedIndex = c
      /\ r.pCurr = list.pCurr /\ r.cItems = list.cItems
      /\ r.pHead = list.pHead /\ r.pTail = list.pTail
      /\ r.pNext = list.pNext /\ r.pPrev = list.pPrev
  BY <1>1, <1>2, <1>4 DEF ListType
<1>6. Follows(r, s)
  BY <1>1, <1>5, SameLinks
<1>7. Shown(r, live, s)
  BY <1>2, <1>3, <1>5, <1>6 DEF Shown
<1> QED
  BY <1>3, <1>4, <1>5, <1>7

\* teListNodeAt finds the node of the index it is given, from whichever place it
\* sets out.
LEMMA NodeAtFinds ==
  ASSUME NEW s, Shown(list, live, s), NEW u \in 0 .. Len(s) - 1,
         NEW l, l = (IF list.pCachedIndex = NULL THEN FromNearerEnd(list, u) ELSE list)
  PROVE  (IF l.uCachedIndex < u
            THEN Away(l.pNext, l.pCachedIndex, u - l.uCachedIndex)
            ELSE Away(l.pPrev, l.pCachedIndex, l.uCachedIndex - u)) = Nth(s, u + 1)
<1>1. list \in ListType /\ Distinct(s) /\ Len(s) \in Nat /\ Follows(list, s)
      /\ list.cItems = Len(s) /\ list.pHead = Nth(s, 1) /\ list.pTail = Nth(s, Len(s))
  BY NthFacts DEF Shown, Follows
<1>2. u \in Nat /\ u + 1 \in 1 .. Len(s) /\ Len(s) - 1 \in Nat
  BY <1>1
<1>3. PICK v \in 0 .. Len(s) - 1 : l.uCachedIndex = v /\ l.pCachedIndex = Nth(s, v + 1)
  <2>1. CASE list.pCachedIndex # NULL
    <3>1. list.uCachedIndex < Len(s) /\ list.pCachedIndex = Nth(s, list.uCachedIndex + 1)
      BY <2>1 DEF Shown
    <3>2. list.uCachedIndex \in Nat
      BY <1>1 DEF ListType
    <3> QED
      BY <1>1, <2>1, <3>1, <3>2
  <2>2. CASE list.pCachedIndex = NULL
    <3>1. \/ l.uCachedIndex = Len(s) - 1 /\ l.pCachedIndex = Nth(s, Len(s))
          \/ l.uCachedIndex = 0 /\ l.pCachedIndex = Nth(s, 1)
      <4>1. l \in {[list EXCEPT !.pCachedIndex = list.pTail, !.uCachedIndex = list.cItems - 1],
                   [list EXCEPT !.pCachedIndex = list.pHead, !.uCachedIndex = 0]}
        BY <2>2, Zenon DEF FromNearerEnd
      <4>2. ASSUME NEW v \in Nat, NEW c \in Maybe,
                   l = [list EXCEPT !.pCachedIndex = c, !.uCachedIndex = v]
            PROVE  l.uCachedIndex = v /\ l.pCachedIndex = c
        BY <1>1, <4>2 DEF ListType
      <4>3. list.cItems - 1 \in Nat /\ 0 \in Nat /\ list.pTail \in Maybe /\ list.pHead \in Maybe
        BY <1>1, <1>2 DEF ListType
      <4>4. \/ l.uCachedIndex = list.cItems - 1 /\ l.pCachedIndex = list.pTail
            \/ l.uCachedIndex = 0 /\ l.pCachedIndex = list.pHead
        BY <4>1, <4>2, <4>3
      <4>5. list.cItems - 1 = Len(s) - 1
        BY <1>1
      <4> QED
        BY <1>1, <4>4, <4>5, Zenon
    <3>2. Len(s) - 1 + 1 = Len(s) /\ Len(s) - 1 \in 0 .. Len(s) - 1 /\ 0 \in 0 .. Len(s) - 1
          /\ 0 + 1 = 1
      BY <1>1, <1>2
    <3> QED
      BY <3>1, <3>2
  <2> QED
    BY <2>1, <2>2
<1>4. l.pNext = list.pNext /\ l.pPrev = list.pPrev
  BY <1>1 DEF FromNearerEnd, ListType
<1>5. v + 1 \in 1 .. Len(s)
  BY <1>1
<1>6. ASSUME v < u PROVE Away(list.pNext, Nth(s, v + 1), u - v) = Nth(s, u + 1)
  <2>1. u - v \in Nat /\ v + 1 + (u - v) = u + 1 /\ v + 1 + (u - v) <= Len(s)
    BY <1>1, <1>2, <1>6
  <2>2. Away(list.pNext, Nth(s, v + 1), u - v) = Nth(s, v + 1 + (u - v))
    BY <1>1, <1>5, <2>1, WalkNext
  <2> QED
    BY <2>1, <2>2
<1>7. ASSUME ~(v < u) PROVE Away(list.pPrev, Nth(s, v + 1), v - u) = Nth(s, u + 1)
  <2>1. v - u \in Nat /\ v + 1 - (v - u) = u + 1 /\ v - u < v + 1
    BY <1>1, <1>2, <1>7
  <2>2. Away(list.pPrev, Nth(s, v + 1), v - u) = Nth(s, v + 1 - (v - u))
    BY <1>1, <1>5, <2>1, WalkPrev
  <2> QED
    BY <2>1, <2>2
<1> QED
  BY <1>3, <1>4, <1>6, <1>7

\* A step that leaves a list that shows some sequence, as the abstract list may.
Steps == (\E t : Shown(list', live', t)) /\ [Sequence!Next]_(Sequence!seqVars)

LEMMA NodeAtStep ==
  ASSUME NEW s, Shown(list, live, s), NodeAt
  PROVE  Steps
<1>1. list \in ListType /\ Distinct(s) /\ Len(s) \in Nat /\ list.cItems = Len(s)
  BY NthFacts DEF Shown
<1>2. PICK u \in 0 .. Len(s) - 1 :
        LET l == IF list.pCachedIndex = NULL THEN FromNearerEnd(list, u) ELSE list
            node == IF l.uCachedIndex < u
                      THEN Away(l.pNext, l.pCachedIndex, u - l.uCachedIndex)
                      ELSE Away(l.pPrev, l.pCachedIndex, l.uCachedIndex - u)
        IN list' = [l EXCEPT !.uCachedIndex = u, !.pCachedIndex = node]
  BY <1>1 DEF NodeAt
<1>3. PICK l : l = IF list.pCachedIndex = NULL THEN FromNearerEnd(list, u) ELSE list
  OBVIOUS
<1>4. (IF l.uCachedIndex < u
         THEN Away(l.pNext, l.pCachedIndex, u - l.uCachedIndex)
         ELSE Away(l.pPrev, l.pCachedIndex, l.uCachedIndex - u)) = Nth(s, u + 1)
  BY <1>3, NodeAtFinds
<1>5. PICK c : c = Nth(s, u + 1)
  OBVIOUS
<1>6. list' = [l EXCEPT !.uCachedIndex = u, !.pCachedIndex = c]
  BY <1>2, <1>3, <1>4, <1>5
<1>7. [l EXCEPT !.uCachedIndex = u, !.pCachedIndex = c]
        = [list EXCEPT !.uCachedIndex = u, !.pCachedIndex = c]
  BY <1>1, <1>3 DEF FromNearerEnd, ListType
<1>8. live' = live
  BY DEF NodeAt
<1>9. Shown(list', live', s) /\ list'.pCurr = list.pCurr
  BY <1>5, <1>6, <1>7, <1>8, CachedShown
<1> QED
  BY <1>9, StillStep DEF Steps

LEMMA InsertSteps ==
  ASSUME NEW s, Shown(list, live, s), Insert
  PROVE  Steps
<1>1. Distinct(s) /\ Range(s) = live /\ Follows(list, s)
      /\ list.pHead = Nth(s, 1) /\ list.pTail = Nth(s, Len(s))
      /\ list.pCurr \in live \cup {NULL}
  BY DEF Shown, Follows
<1>2. /\ Len(s) \in Nat
      /\ \A j \in Int : Nth(s, j) \in live \cup {NULL}
      /\ \A j \in Int : Nth(s, j) # NULL <=> j \in 1 .. Len(s)
      /\ \A m \in live : \E j \in 1 .. Len(s) : m = Nth(s, j)
  BY <1>1, NthFacts
<1>3. PICK x \in live \cup {NULL} : InsertBefore(x)
  <2>1. ASSUME NEW m \in live PROVE list.pNext[m] \in live \cup {NULL}
    <3>1. PICK j \in 1 .. Len(s) : m = Nth(s, j)
      BY <1>2, <2>1
    <3>2. list.pNext[m] = Nth(s, j + 1)
      BY <1>1, <3>1, FollowsNth
    <3> QED
      BY <1>2, <3>2
  <2>2. list.pHead \in live \cup {NULL}
    BY <1>1, <1>2
  <2> QED
    BY <1>1, <2>1, <2>2 DEF Insert
<1>4. PICK i \in 1 .. Len(s) + 1 : x = Nth(s, i)
  <2>1. CASE x = NULL
    <3>1. Len(s) + 1 \in 1 .. Len(s) + 1 /\ Len(s) + 1 \notin 1 .. Len(s)
      BY <1>2
    <3>2. Nth(s, Len(s) + 1) = NULL
      BY <3>1 DEF Nth
    <3> QED
      BY <2>1, <3>1, <3>2
  <2>2. CASE x # NULL
    BY <1>2, <2>2
  <2> QED
    BY <2>1, <2>2
<1>5. (IF x = NULL THEN list.pTail ELSE list.pPrev[x]) = Nth(s, i - 1)
  <2>1. CASE x = NULL
    <3>1. i \in Int /\ Nth(s, i) = NULL
      BY <1>2, <1>4, <2>1
    <3>2. i \notin 1 .. Len(s)
      BY <1>2, <3>1
    <3>3. i - 1 = Len(s)
      BY <1>2, <3>2
    <3> QED
      BY <1>1, <2>1, <3>3
  <2>2. CASE x # NULL
    <3>1. i \in 1 .. Len(s)
      BY <1>2, <1>4, <2>2
    <3> QED
      BY <1>1, <1>4, <2>2, <3>1, FollowsNth
  <2> QED
    BY <2>1, <2>2
<1>6. PICK n \in Nodes \ live :
        /\ live' = live \cup {n}
        /\ list' = Uncached([Link(list, Nth(s, i - 1), n, Nth(s, i)) EXCEPT !.cItems = @ + 1])
  BY <1>3, <1>4, <1>5 DEF InsertBefore
<1>7. Shown(list', live', Inserted(s, i, n))
  BY <1>6, InsertShown
<1>8. list'.pCurr = list.pCurr
  <2>1. i - 1 \in Int /\ i \in Int /\ n # NULL /\ n \in Nodes /\ live \subseteq Nodes
        /\ list \in ListType
    BY <1>1, <1>6, NthFacts, NULLAssumption DEF Shown
  <2>2. PICK p \in Maybe \ {n}, y \in Maybe \ {n} : p = Nth(s, i - 1) /\ y = Nth(s, i)
    BY <1>2, <1>6, <2>1 DEF Maybe
  <2>3. PICK k : k = Link(list, p, n, y)
    OBVIOUS
  <2>4. k \in ListType /\ SameRest(list, k)
    BY <2>1, <2>3, LinkFields
  <2>5. list' = Uncached([k EXCEPT !.cItems = @ + 1])
    BY <1>6, <2>2, <2>3
  <2> QED
    BY <2>4, <2>5 DEF Uncached, ListType, SameRest
<1> QED
  BY <1>7, <1>8, InsertStep DEF Steps

LEMMA DeleteSteps ==
  ASSUME NEW s, Shown(list, live, s), NEW n \in live,
         list' = Deleted(n), live' = live \ {n}
  PROVE  Steps
<1>1. PICK i \in 1 .. Len(s) : n = s[i]
  BY SequenceFacts DEF Shown, Distinct
<1>2. /\ Shown(Deleted(s[i]), live \ {s[i]}, Without(s, i))
      /\ Deleted(s[i]).pCurr = IF list.pCurr = s[i] THEN NULL ELSE list.pCurr
  BY DeleteShown
<1>3. /\ Shown(list', live', Without(s, i))
      /\ list'.pCurr = IF list.pCurr = s[i] THEN NULL ELSE list.pCurr
  BY <1>1, <1>2
<1> QED
  BY <1>3, TakeStep DEF Steps

LEMMA SeekSteps ==
  ASSUME NEW s, Shown(list, live, s), Seek
  PROVE  Steps
<1>1. list \in ListType /\ Distinct(s) /\ Range(s) = live /\ Follows(list, s)
      /\ list.pHead = Nth(s, 1) /\ list.pTail = Nth(s, Len(s))
      /\ list.pCurr \in live \cup {NULL}
  BY DEF Shown, Follows
<1>2. /\ Len(s) \in Nat
      /\ \A j \in Int : Nth(s, j) \in live \cup {NULL}
      /\ \A j \in Int : Nth(s, j) # NULL <=> j \in 1 .. Len(s)
      /\ \A m \in live : \E j \in 1 .. Len(s) : m = Nth(s, j)
      /\ \A j \in 1 .. Len(s) : s[j] = Nth(s, j)
      /\ live \subseteq Nodes
  BY <1>1, NthFacts
<1>3. PICK c \in {list.pHead, list.pTail, NULL} \cup
                 (IF list.pCurr = NULL THEN {} ELSE {list.pPrev[list.pCurr], list.pNext[list.pCurr]}) :
        list' = [list EXCEPT !.pCurr = c]
  BY DEF Seek
<1>4. /\ c \in live \cup {NULL}
      /\ \/ c = NULL
         \/ Len(s) # 0 /\ c \in {s[1], s[Len(s)]}
         \/ \E i \in 1 .. Len(s) - 1 : {list.pCurr, c} = {s[i], s[i + 1]}
  <2>1. CASE c = NULL
    BY <2>1
  <2>2. CASE c # NULL /\ c \in {list.pHead, list.pTail}
    <3>1. Len(s) # 0
      BY <1>1, <1>2, <2>2 DEF Nth
    <3>2. 1 \in 1 .. Len(s) /\ Len(s) \in 1 .. Len(s) /\ 1 \in Int /\ Len(s) \in Int
      BY <1>2, <3>1
    <3> QED
      BY <1>1, <1>2, <2>2, <3>1, <3>2
  <2>3. CASE /\ c # NULL /\ list.pCurr # NULL
             /\ c \in {list.pPrev[list.pCurr], list.pNext[list.pCurr]}
    <3>1. PICK j \in 1 .. Len(s) : list.pCurr = Nth(s, j)
      BY <1>1, <1>2, <2>3
    <3>2. list.pPrev[list.pCurr] = Nth(s, j - 1) /\ list.pNext[list.pCurr] = Nth(s, j + 1)
      BY <1>1, <3>1, FollowsNth
    <3>3. PICK k \in {j - 1, j + 1} : c = Nth(s, k)
      BY <2>3, <3>2
    <3>4. k \in Int /\ k \in 1 .. Len(s)
      BY <1>2, <2>3, <3>3
    <3>5. c = s[k] /\ list.pCurr = s[j] /\ c \in live \cup {NULL}
      BY <1>2, <3>1, <3>3, <3>4
    <3>6. PICK i \in 1 .. Len(s) - 1 : i = IF k = j - 1 THEN k ELSE j
      BY <1>2, <3>3, <3>4
    <3>7. (i = j /\ i + 1 = k) \/ (i = k /\ i + 1 = j)
      <4>1. CASE k = j - 1
        BY <3>6, <4>1
      <4>2. CASE k = j + 1
        <5>1. k # j - 1
          BY <4>2
        <5>2. i = j
          BY <3>6, <5>1
        <5> QED
          BY <4>2, <5>2
      <4> QED
        BY <3>3, <4>1, <4>2
    <3>8. {list.pCurr, c} = {s[i], s[i + 1]}
      BY <3>5, <3>7
    <3> QED
      BY <3>5, <3>8
  <2> QED
    BY <1>3, <2>1, <2>2, <2>3
<1>5. live' = live
  BY DEF Seek
<1>6. c \in Maybe
  BY <1>2, <1>4 DEF Maybe
<1>7. PICK r : r = [list EXCEPT !.pCurr = c]
  OBVIOUS
<1>8. /\ r \in ListType /\ r.pCurr = c /\ r.cItems = list.cItems
      /\ r.uCachedIndex = list.uCachedIndex /\ r.pCachedIndex = list.pCachedIndex
      /\ r.pHead = list.pHead /\ r.pTail = list.pTail
      /\ r.pNext = list.pNext /\ r.pPrev = list.pPrev
  BY <1>1, <1>6, <1>7 DEF ListType
<1>9. Follows(r, s)
  BY <1>1, <1>8, SameLinks
<1>10. Shown(r, live, s)
  BY <1>4, <1>8, <1>9 DEF Shown
<1>11. Shown(list', live', s) /\ list'.pCurr = c
  BY <1>3, <1>5, <1>7, <1>8, <1>10
<1> QED
  BY <1>4, <1>11, SeekStep DEF Steps

LEMMA MoveToEndSteps ==
  ASSUME ~SingleMoves, NEW s, Shown(list, live, s), MoveToEnd
  PROVE  Steps
<1>1. Len(s) > 1 /\ list.pCurr \in live /\ live' = live
  BY DEF MoveToEnd, Shown
<1>2. PICK i \in 1 .. Len(s) : list.pCurr = s[i]
  BY <1>1, ShownFacts
<1>3. list' \in {MovedToFront(Unlink(list, s[i]), s[i]), MovedToBack(Unlink(list, s[i]), s[i])}
  BY <1>2 DEF MoveToEnd
<1>4. /\ Shown(MovedToFront(Unlink(list, s[i]), s[i]), live, Inserted(Without(s, i), 1, s[i]))
      /\ Shown(MovedToBack(Unlink(list, s[i]), s[i]), live,
               Inserted(Without(s, i), Len(s), s[i]))
      /\ MovedToFront(Unlink(list, s[i]), s[i]).pCurr = NULL
      /\ MovedToBack(Unlink(list, s[i]), s[i]).pCurr = NULL
  BY <1>1, <1>2, EndShown
<1>5. PICK k \in {1, Len(s)} :
        Shown(list', live', Inserted(Without(s, i), k, s[i])) /\ list'.pCurr = NULL
  BY <1>1, <1>3, <1>4
<1> QED
  BY <1>2, <1>5, EndStep DEF Steps

LEMMA MovePastSteps ==
  ASSUME NEW s, Shown(list, live, s), MovePast
  PROVE  Steps
<1>1. list.pCurr \in live /\ live' = live /\ Distinct(s) /\ Len(s) \in Nat
  BY NthFacts DEF MovePast, Shown
<1>2. PICK i \in 1 .. Len(s) : list.pCurr = s[i]
  BY <1>1, ShownFacts
<1>3. \/ /\ list.pPrev[s[i]] # NULL
         /\ list' = [Link(Unlink(list, s[i]), Unlink(list, s[i]).pPrev[list.pPrev[s[i]]], s[i],
                          list.pPrev[s[i]]) EXCEPT !.pCurr = s[i]]
      \/ /\ list.pNext[s[i]] # NULL
         /\ list' = [Link(Unlink(list, s[i]), list.pNext[s[i]], s[i],
                          Unlink(list, s[i]).pNext[list.pNext[s[i]]]) EXCEPT !.pCurr = s[i]]
  BY <1>2, Zenon DEF MovePast
<1>4. \/ /\ i > 1
         /\ Shown(list', live', Inserted(Without(s, i), i - 1, s[i]))
         /\ list'.pCurr = s[i]
      \/ /\ i < Len(s)
         /\ Shown(list', live', Inserted(Without(s, i), i + 1, s[i]))
         /\ list'.pCurr = s[i]
  <2>1. CASE /\ list.pPrev[s[i]] # NULL
             /\ list' = [Link(Unlink(list, s[i]), Unlink(list, s[i]).pPrev[list.pPrev[s[i]]], s[i],
                              list.pPrev[s[i]]) EXCEPT !.pCurr = s[i]]
    <3>1. PICK r : r = list'
      BY Zenon
    <3>2. i > 1 /\ Shown(r, live, Inserted(Without(s, i), i - 1, s[i])) /\ r.pCurr = s[i]
      BY <2>1, <3>1, PreviousShown, Zenon
    <3> QED
      BY <1>1, <3>1, <3>2
  <2>2. CASE /\ list.pNext[s[i]] # NULL
             /\ list' = [Link(Unlink(list, s[i]), list.pNext[s[i]], s[i],
                              Unlink(list, s[i]).pNext[list.pNext[s[i]]]) EXCEPT !.pCurr = s[i]]
    <3>1. PICK r : r = list'
      BY Zenon
    <3>2. i < Len(s) /\ Shown(r, live, Inserted(Without(s, i), i + 1, s[i])) /\ r.pCurr = s[i]
      BY <2>2, <3>1, NextShown, Zenon
    <3> QED
      BY <1>1, <3>1, <3>2
  <2> QED
    BY <1>3, <2>1, <2>2, Zenon
<1>5. ASSUME i > 1, Shown(list', live', Inserted(Without(s, i), i - 1, s[i])), list'.pCurr = s[i]
      PROVE  Steps
  <2>1. PICK k \in 1 .. Len(s) - 1 : k = i - 1
    BY <1>1, <1>5
  <2>2. k + 1 = i /\ k \in 1 .. Len(s) /\ k # i
    BY <1>1, <2>1
  <2>3. s[k] # s[i]
    BY <1>1, <2>2 DEF Distinct
  <2>4. Shown(list', live', IF list.pCurr = s[k] THEN Inserted(Without(s, k), k + 1, s[k])
                                                 ELSE Inserted(Without(s, k + 1), k, s[k + 1]))
    BY <1>2, <1>5, <2>1, <2>2, <2>3
  <2>5. list.pCurr \in {s[k], s[k + 1]} /\ list'.pCurr = list.pCurr
    BY <1>2, <1>5, <2>2
  <2> QED
    BY <2>4, <2>5, PastStep DEF Steps
<1>6. ASSUME i < Len(s), Shown(list', live', Inserted(Without(s, i), i + 1, s[i])),
             list'.pCurr = s[i]
      PROVE  Steps
  <2>1. i \in 1 .. Len(s) - 1
    BY <1>1, <1>6
  <2>2. Shown(list', live', IF list.pCurr = s[i] THEN Inserted(Without(s, i), i + 1, s[i])
                                                 ELSE Inserted(Without(s, i + 1), i, s[i + 1]))
    BY <1>2, <1>6
  <2> QED
    BY <1>2, <1>6, <2>1, <2>2, PastStep DEF Steps
<1> QED
  BY <1>4, <1>5, <1>6, Zenon

\* A new list is empty.
LEMMA NewShown == Shown(NewList, {}, <<>>)
<1>1. NewList \in ListType
  BY DEF NewList, ListType, NoNodes, Maybe
<1>2. <<>> \in Seq(Nodes) /\ Len(<<>>) = 0 /\ Range(<<>>) = {} /\ Distinct(<<>>)
  <2>1. <<>> \in Seq(Nodes) /\ Len(<<>>) = 0
    OBVIOUS
  <2>2. \A j \in 1 .. Len(<<>>) : FALSE
    BY <2>1
  <2>3. Range(<<>>) = {}
    <3>1. Range(<<>>) = {<<>>[j] : j \in 1 .. Len(<<>>)}
      BY <2>1, SequenceFacts
    <3> QED
      BY <2>2, <3>1
  <2> QED
    BY <2>1, <2>2, <2>3 DEF Distinct
<1>3. /\ NewList.pHead = NULL /\ NewList.pTail = NULL /\ NewList.pCurr = NULL
      /\ NewList.cItems = 0 /\ NewList.pCachedIndex = NULL
      /\ \A n \in Nodes : NewList.pNext[n] = NULL /\ NewList.pPrev[n] = NULL
  BY DEF NewList, NoNodes
<1>4. Nth(<<>>, 1) = NULL /\ Nth(<<>>, Len(<<>>)) = NULL
  BY <1>2 DEF Nth
<1>5. Follows(NewList, <<>>)
  BY <1>2, <1>3, <1>4 DEF Follows
<1> QED
  BY <1>1, <1>2, <1>3, <1>5 DEF Shown

LEMMA EmptySteps ==
  ASSUME NEW s, Shown(list, live, s), EmptyTurn \/ Emptied
  PROVE  Steps
<1>1. Distinct(s) /\ Range(s) = live /\ list.pHead = Nth(s, 1) /\ list.pTail = Nth(s, Len(s))
      /\ list.cItems = Len(s)
  BY DEF Shown, Follows
<1>2. Len(s) \in Nat /\ \A j \in Int : Nth(s, j) \in live \cup {NULL}
  BY <1>1, NthFacts
<1>3. CASE EmptyTurn
  <2>1. list.pTail \in live
    BY <1>1, <1>2, <1>3 DEF EmptyTurn
  <2> QED
    BY <1>3, <2>1, DeleteSteps DEF EmptyTurn
<1>4. CASE Emptied
  <2>1. Len(s) = 0
    <3>1. ~(1 \in 1 .. Len(s))
      BY <1>1, <1>4, NthFacts DEF Emptied
    <3> QED
      BY <1>2, <3>1
  <2>2. s = <<>> /\ live = {} /\ list.pCurr = NULL
    <3>1. \A j \in 1 .. Len(s) : FALSE
      BY <2>1
    <3>2. live = {}
      BY <1>1, <3>1, SequenceFacts DEF Distinct
    <3>3. s = <<>>
      BY <1>1, <2>1, SequenceFacts DEF Distinct
    <3> QED
      BY <3>2, <3>3 DEF Shown
  <2>3. NewList \in ListType /\ NewList.pCurr = NULL /\ Shown(NewList, {}, <<>>)
    BY NewShown DEF Shown, NewList
  <2>4. Shown(list', live', s) /\ list'.pCurr = list.pCurr
    BY <1>4, <2>2, <2>3 DEF Emptied
  <2> QED
    BY <2>4, StillStep DEF Steps
<1> QED
  BY <1>3, <1>4

\* A script's calls, but the move of the only item to an end, leave the list
\* with links that show a sequence of its nodes, and change that sequence as
\* the abstract list may.
LEMMA StepShows ==
  ASSUME ~SingleMoves, ListInv, [Next]_vars
  PROVE  ListInv' /\ [Sequence!Next]_(Sequence!seqVars)
<1>1. PICK s : Shown(list, live, s)
  BY DEF ListInv
<1>2. Steps
  <2>1. CASE Insert
    BY <1>1, <2>1, InsertSteps
  <2>2. CASE Delete
    BY <1>1, <2>2, DeleteSteps DEF Delete
  <2>3. CASE Seek
    BY <1>1, <2>3, SeekSteps
  <2>4. CASE MoveToEnd
    BY <1>1, <2>4, MoveToEndSteps
  <2>5. CASE MovePast
    BY <1>1, <2>5, MovePastSteps
  <2>6. CASE NodeAt
    BY <1>1, <2>6, NodeAtStep
  <2>7. CASE EmptyTurn \/ Emptied
    BY <1>1, <2>7, EmptySteps
  <2>8. CASE New \/ Empty \/ UNCHANGED vars
    <3>1. list' = list /\ live' = live
      BY <2>8 DEF New, Empty, vars
    <3>2. Shown(list', live', s) /\ list'.pCurr = list.pCurr
      BY <1>1, <3>1, Zenon
    <3> QED
      BY <1>1, <3>2, StillStep DEF Steps
  <2> QED
    BY <2>1, <2>2, <2>3, <2>4, <2>5, <2>6, <2>7, <2>8 DEF Next
<1>3. pc' \in {"none", "idle", "emptying", "deleting"}
  <2>1. pc \in {"none", "idle", "emptying", "deleting"}
    BY DEF ListInv
  <2>2. CASE pc' = pc
    BY <2>1, <2>2
  <2>3. CASE New \/ Empty \/ Emptied
    BY <2>3 DEF New, Empty, Emptied
  <2> QED
    BY <2>2, <2>3 DEF Next, vars, Insert, InsertBefore, Delete, Seek, MoveToEnd, MovePast, NodeAt,
                      EmptyTurn
<1> QED
  BY <1>2, <1>3 DEF Steps, ListInv

-----------------------------------------------------------------------------
(* What holds of every list, however many nodes a script has. *)

LEMMA InitShows == Init => ListInv /\ Sequence!Init
<1> SUFFICES ASSUME Init PROVE ListInv /\ Sequence!Init
  OBVIOUS
<1>1. list = NewList /\ live = {} /\ pc = "none"
  BY DEF Init
<1>2. Shown(list, live, <<>>)
  BY <1>1, NewShown
<1>3. Items = <<>>
  BY <1>2, ItemsShown
<1>4. list.pCurr = NULL
  BY <1>1 DEF NewList
<1> QED
  BY <1>1, <1>2, <1>3, <1>4 DEF ListInv, Sequence!Init

\* No link of a list, nor its cache, leads to a freed node (TenshiRuntime.c).
THEOREM TypeCorrect ==
  ASSUME ~SingleMoves
  PROVE  Spec => []TypeOK
<1>1. ListInv /\ [Next]_vars => ListInv'
  BY StepShows
<1>2. ListInv => TypeOK
  BY ShownType
<1> QED
  BY <1>1, <1>2, InitShows, PTL DEF Spec

\* A walk along a list, a walk back and a look-up by index show one order, after
\* any calls of a script: as long as none moves the only item of a list to an
\* end, which loses the list's other end.
THEOREM ShowsOneOrder ==
  ASSUME ~SingleMoves
  PROVE  Spec => []Consistent
<1>1. ListInv /\ [Next]_vars => ListInv'
  BY StepShows
<1>2. ListInv => Consistent
  BY ShownConsistent DEF ListInv
<1> QED
  BY <1>1, <1>2, InitShows, PTL DEF Spec

\* The linked list is the LIST of the language: each function of a script inserts,
\* takes, moves or seeks an item of a sequence, or does nothing to it.
THEOREM IsSequence ==
  ASSUME ~SingleMoves
  PROVE  Spec => ImplementsSequence
<1>1. ListInv /\ [Next]_vars => ListInv' /\ [Sequence!Next]_(Sequence!seqVars)
  BY StepShows
<1> QED
  BY <1>1, InitShows, PTL DEF Spec, ImplementsSequence, Sequence!Spec
=============================================================================
