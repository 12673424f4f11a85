---------------------------- MODULE Populations ----------------------------
(***************************************************************************)
(* How many threads are at certain places of a program, and how that       *)
(* number changes when one of them moves.  The locks of the Async library  *)
(* (QuickMutex.hpp, RWLock.hpp) count their threads with atomic additions, *)
(* and the scheduler its sleeping workers (Scheduler04.cpp); these facts   *)
(* relate a count to the threads it counts.                                *)
(***************************************************************************)
EXTENDS Integers, FiniteSets, FiniteSetTheorems, TLAPS

\* The threads whose place is one of S.
Where(p, S) == {t \in DOMAIN p : p[t] \in S}

\* A population is finite.
LEMMA PopulationFinite ==
  ASSUME NEW p, IsFiniteSet(DOMAIN p), NEW S
  PROVE  IsFiniteSet(Where(p, S)) /\ Cardinality(Where(p, S)) \in Nat
BY FS_Subset, FS_CardinalityType DEF Where

\* A population of zero is empty.
LEMMA PopulationZero ==
  ASSUME NEW p, IsFiniteSet(DOMAIN p), NEW S, Cardinality(Where(p, S)) = 0
  PROVE  \A t \in DOMAIN p : p[t] \notin S
BY PopulationFinite, FS_EmptySet DEF Where

\* In a population of at most one there are no two.
LEMMA PopulationOne ==
  ASSUME NEW p, IsFiniteSet(DOMAIN p), NEW S, Cardinality(Where(p, S)) <= 1,
         NEW t \in DOMAIN p, NEW u \in DOMAIN p, p[t] \in S, p[u] \in S
  PROVE  t = u
<1>1. SUFFICES ASSUME t # u PROVE FALSE
  OBVIOUS
<1>2. {t, u} \subseteq Where(p, S)
  BY DEF Where
<1>3. Cardinality({t, u}) <= Cardinality(Where(p, S))
  BY <1>2, PopulationFinite, FS_Subset
<1>4. IsFiniteSet({t}) /\ Cardinality({t}) = 1
  BY FS_Singleton
<1>5. Cardinality({t} \cup {u}) = 2
  <2>1. u \notin {t}
    BY <1>1
  <2>2. Cardinality({t} \cup {u}) = Cardinality({t}) + 1
    BY <1>4, <2>1, FS_AddElement
  <2> QED
    BY <1>4, <2>2
<1>6. {t} \cup {u} = {t, u}
  OBVIOUS
<1> QED
  BY <1>3, <1>5, <1>6, PopulationFinite

\* A population that somebody is in is not zero.
LEMMA PopulationSome ==
  ASSUME NEW p, IsFiniteSet(DOMAIN p), NEW S, NEW t \in DOMAIN p, p[t] \in S
  PROVE  Cardinality(Where(p, S)) >= 1
<1>1. Cardinality(Where(p, S)) # 0
  BY PopulationZero
<1> QED
  BY <1>1, PopulationFinite

\* One that moves into the places S is one more.
LEMMA PopulationEnter ==
  ASSUME NEW p, IsFiniteSet(DOMAIN p), NEW S, NEW t \in DOMAIN p, NEW n,
         p[t] \notin S, n \in S
  PROVE  Cardinality(Where([p EXCEPT ![t] = n], S)) = Cardinality(Where(p, S)) + 1
<1>1. Where([p EXCEPT ![t] = n], S) = Where(p, S) \cup {t}
  BY DEF Where
<1>2. t \notin Where(p, S)
  BY DEF Where
<1> QED
  BY <1>1, <1>2, PopulationFinite, FS_AddElement

\* One that moves out of them is one less.
LEMMA PopulationLeave ==
  ASSUME NEW p, IsFiniteSet(DOMAIN p), NEW S, NEW t \in DOMAIN p, NEW n,
         p[t] \in S, n \notin S
  PROVE  Cardinality(Where([p EXCEPT ![t] = n], S)) = Cardinality(Where(p, S)) - 1
<1>1. Where([p EXCEPT ![t] = n], S) = Where(p, S) \ {t}
  BY DEF Where
<1>2. t \in Where(p, S)
  BY DEF Where
<1> QED
  BY <1>1, <1>2, PopulationFinite, FS_RemoveElement

\* One that moves within them, or outside, changes nothing.
LEMMA PopulationStay ==
  ASSUME NEW p, NEW S, NEW t \in DOMAIN p, NEW n, p[t] \in S <=> n \in S
  PROVE  Where([p EXCEPT ![t] = n], S) = Where(p, S)
BY DEF Where

\* A population has at most as many members as there are threads.
LEMMA PopulationBound ==
  ASSUME NEW p, IsFiniteSet(DOMAIN p), NEW S
  PROVE  Cardinality(Where(p, S)) <= Cardinality(DOMAIN p)
<1>1. Where(p, S) \subseteq DOMAIN p
  BY DEF Where
<1> QED
  BY <1>1, FS_Subset
=============================================================================
