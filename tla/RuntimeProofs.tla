--------------------------- MODULE RuntimeProofs ---------------------------
(***************************************************************************)
(* An array of a script owns each of its instances once, and keeps their   *)
(* order: each command cuts a part out of the array's items, puts new ones *)
(* in its place, and moves the rest.  The modules of a program are closed  *)
(* in the reverse of the order in which they were started.  The number of  *)
(* an object of a pool leads to that object.                               *)
(***************************************************************************)
EXTENDS RuntimeArray, ModuleStartup, ObjectPool, FiniteSetTheorems, SequenceTheorems, TLAPS

-----------------------------------------------------------------------------
(* Facts about sets.                                                        *)

Slots == Instances \cup {NULL}

LEMMA MinIs ==
  ASSUME NEW a \in Int, NEW b \in Int
  PROVE  Min({a, b}) = IF a <= b THEN a ELSE b
<1>1. \E x \in {a, b} : \A y \in {a, b} : x <= y
  OBVIOUS
<1>2. Min({a, b}) \in {a, b} /\ \A y \in {a, b} : Min({a, b}) <= y
  BY <1>1 DEF Min
<1> QED
  BY <1>2

\* A set that is counted through, once each, has as many members.
LEMMA Counted ==
  ASSUME NEW c \in Nat, NEW s, \A i, j \in 1 .. c : s[i] = s[j] => i = j
  PROVE  Cardinality({s[i] : i \in 1 .. c}) = c
<1> DEFINE S == {s[i] : i \in 1 .. c}
           f == [i \in 1 .. c |-> s[i]]
<1>1. f \in [1 .. c -> S] /\ DOMAIN f = 1 .. c
  OBVIOUS
<1>2. \A i, j \in 1 .. c : f[i] = f[j] => i = j
  OBVIOUS
<1>3. \A x \in S : \E i \in 1 .. c : f[i] = x
  OBVIOUS
<1> HIDE DEF S, f
<1>4. f \in Bijection(1 .. c, S)
  BY <1>1, <1>2, <1>3 DEF Bijection, Injection, Surjection, IsInjective
<1>5. ExistsBijection(1 .. c, S)
  BY <1>4 DEF ExistsBijection
<1>6. Cardinality(S) = c
  BY <1>5, FS_CountingElements
<1> QED
  BY <1>6 DEF S

-----------------------------------------------------------------------------
(* Cutting and joining.                                                     *)

\* The first d of t are the first c of s, with those from u + 1 to w cut out and q
\* in their place.
Spliced(s, c, t, d, u, q, w) ==
  /\ c \in Nat /\ d \in Nat /\ u \in Nat /\ w \in Nat /\ Len(q) \in Nat
  /\ u <= w /\ w <= c /\ d = u + Len(q) + (c - w)
  /\ \A j \in 1 .. u : t[j] = s[j]
  /\ \A j \in 1 .. Len(q) : t[u + j] = q[j]
  /\ \A j \in w + 1 .. c : t[u + Len(q) + (j - w)] = s[j]

LEMMA Joined ==
  ASSUME NEW S, NEW s \in Seq(S), NEW q \in Seq(S),
         NEW c \in Nat, NEW u \in Nat, NEW w \in Nat, u <= w, w <= c, c <= Len(s)
  PROVE  LET t == SubSeq(s, 1, u) \o q \o SubSeq(s, w + 1, c)
         IN t \in Seq(S) /\ Spliced(s, c, t, Len(t), u, q, w)
<1>1. Len(s) \in Nat /\ Len(q) \in Nat /\ \A j \in 1 .. Len(s) : s[j] \in S
  BY LenProperties, ElementOfSeq
<1>2. PICK a : a = SubSeq(s, 1, u)
  OBVIOUS
<1>3. PICK b : b = SubSeq(s, w + 1, c)
  OBVIOUS
<1>4. a \in Seq(S) /\ Len(a) = u /\ \A j \in 1 .. u : a[j] = s[j]
  <2>1. 1 \in Int /\ u \in Int /\ \A j \in 1 .. u : s[j] \in S
    BY <1>1
  <2>2. /\ a \in Seq(S) /\ Len(a) = IF 1 <= u THEN u - 1 + 1 ELSE 0
        /\ \A j \in 1 .. u - 1 + 1 : a[j] = s[1 + j - 1]
    BY <1>2, <2>1, SubSeqProperties
  <2> QED
    BY <2>2
<1>5. b \in Seq(S) /\ Len(b) = c - w /\ \A j \in 1 .. c - w : b[j] = s[w + j]
  <2>1. w + 1 \in Int /\ c \in Int /\ \A j \in w + 1 .. c : s[j] \in S
    BY <1>1
  <2>2. /\ b \in Seq(S) /\ Len(b) = IF w + 1 <= c THEN c - (w + 1) + 1 ELSE 0
        /\ \A j \in 1 .. c - (w + 1) + 1 : b[j] = s[w + 1 + j - 1]
    BY <1>3, <2>1, SubSeqProperties
  <2> QED
    BY <2>2
<1>6. PICK m : m = a \o q
  OBVIOUS
<1>7. /\ m \in Seq(S) /\ Len(m) = u + Len(q)
      /\ \A j \in 1 .. u + Len(q) : m[j] = IF j <= u THEN a[j] ELSE q[j - u]
  BY <1>4, <1>6, ConcatProperties
<1>8. PICK t : t = m \o b
  OBVIOUS
<1>9. /\ t \in Seq(S) /\ Len(t) = Len(m) + Len(b)
      /\ \A j \in 1 .. Len(m) + Len(b) : t[j] = IF j <= Len(m) THEN m[j] ELSE b[j - Len(m)]
  <2>1. m \in Seq(S) /\ b \in Seq(S)
    BY <1>5, <1>7
  <2> QED
    BY <1>8, <2>1, ConcatProperties
<1>10. Len(m) + Len(b) = u + Len(q) + (c - w) /\ Len(t) \in Nat
  BY <1>1, <1>5, <1>7, <1>9
<1>11. ASSUME NEW j \in 1 .. u PROVE t[j] = s[j]
  <2>1. j \in 1 .. Len(m) + Len(b) /\ j <= Len(m) /\ j \in 1 .. u + Len(q)
    BY <1>1, <1>7, <1>10
  <2> QED
    BY <1>4, <1>7, <1>9, <2>1
<1>12. ASSUME NEW j \in 1 .. Len(q) PROVE t[u + j] = q[j]
  <2>1. u + j \in 1 .. Len(m) + Len(b) /\ u + j <= Len(m) /\ u + j \in 1 .. u + Len(q)
        /\ ~(u + j <= u) /\ u + j - u = j
    BY <1>1, <1>7, <1>10
  <2>2. t[u + j] = m[u + j] /\ m[u + j] = q[u + j - u]
    BY <1>7, <1>9, <2>1
  <2> QED
    BY <2>1, <2>2
<1>13. ASSUME NEW j \in w + 1 .. c PROVE t[u + Len(q) + (j - w)] = s[j]
  <2>0. u + Len(q) + (j - w) \in Int
    BY <1>1
  <2>1. PICK k \in Int : k = u + Len(q) + (j - w)
    BY <2>0
  <2>2. k \in 1 .. Len(m) + Len(b) /\ ~(k <= Len(m)) /\ k - Len(m) = j - w
        /\ j - w \in 1 .. c - w /\ w + (j - w) = j
    BY <1>1, <1>7, <1>10, <2>1
  <2>3. t[k] = b[j - w]
    BY <1>9, <2>2
  <2>4. b[j - w] = s[j]
    BY <1>5, <2>2
  <2> QED
    BY <2>1, <2>3, <2>4
<1>14. Spliced(s, c, t, Len(t), u, q, w)
  BY <1>1, <1>9, <1>10, <1>11, <1>12, <1>13 DEF Spliced
<1> QED
  BY <1>2, <1>3, <1>6, <1>8, <1>9, <1>14

\* The members of a part of s, from u + 1 to w.
Part(s, u, w) == {s[i] : i \in u + 1 .. w}

\* Where each of t comes from.
LEMMA SplicedFrom ==
  ASSUME NEW s, NEW c, NEW t, NEW d, NEW u, NEW q, NEW w, Spliced(s, c, t, d, u, q, w),
         NEW k \in 1 .. d
  PROVE  \/ k \in 1 .. u /\ k \in 1 .. c /\ t[k] = s[k]
         \/ k - u \in 1 .. Len(q) /\ t[k] = q[k - u]
         \/ k - u - Len(q) + w \in w + 1 .. c /\ t[k] = s[k - u - Len(q) + w]
<1>1. /\ c \in Nat /\ d \in Nat /\ u \in Nat /\ w \in Nat /\ Len(q) \in Nat
      /\ u <= w /\ w <= c /\ d = u + Len(q) + (c - w)
  BY DEF Spliced
<1>2. CASE k <= u
  <2>1. k \in 1 .. u /\ k \in 1 .. c
    BY <1>1, <1>2
  <2> QED
    BY <2>1 DEF Spliced
<1>3. CASE u < k /\ k <= u + Len(q)
  <2>1. k - u \in 1 .. Len(q) /\ u + (k - u) = k
    BY <1>1, <1>3
  <2>2. t[u + (k - u)] = q[k - u]
    BY <2>1 DEF Spliced
  <2> QED
    BY <2>1, <2>2
<1>4. CASE u + Len(q) < k
  <2>0. k - u - Len(q) + w \in Int
    BY <1>1
  <2>1. PICK j \in Int : j = k - u - Len(q) + w
    BY <2>0
  <2>2. j \in w + 1 .. c /\ u + Len(q) + (j - w) = k
    BY <1>1, <1>4, <2>1
  <2>3. t[u + Len(q) + (j - w)] = s[j]
    BY <2>2 DEF Spliced
  <2> QED
    BY <2>1, <2>2, <2>3
<1> QED
  BY <1>1, <1>2, <1>3, <1>4

\* If neither s nor q has one twice, and they have none in common, neither has t, and
\* t has those of s and q but the ones cut out.
LEMMA SplicedOnce ==
  ASSUME NEW s, NEW c, NEW t, NEW d, NEW u, NEW q, NEW w, Spliced(s, c, t, d, u, q, w),
         \A i, j \in 1 .. c : s[i] = s[j] => i = j,
         \A i, j \in 1 .. Len(q) : q[i] = q[j] => i = j,
         \A i \in 1 .. c, j \in 1 .. Len(q) : s[i] # q[j]
  PROVE  /\ \A i, j \in 1 .. d : t[i] = t[j] => i = j
         /\ Part(t, 0, d) = (Part(s, 0, c) \cup Part(q, 0, Len(q))) \ Part(s, u, w)
<1>1. /\ c \in Nat /\ d \in Nat /\ u \in Nat /\ w \in Nat /\ Len(q) \in Nat
      /\ u <= w /\ w <= c /\ d = u + Len(q) + (c - w)
  BY DEF Spliced
<1>2. PICK n \in Nat : n = Len(q)
  BY <1>1
<1>3. ASSUME NEW k \in 1 .. d
      PROVE  \/ k \in 1 .. u /\ k \in 1 .. c /\ t[k] = s[k]
             \/ k - u \in 1 .. n /\ t[k] = q[k - u]
             \/ /\ k - u - n + w \in w + 1 .. c /\ k - u - n + w \in 1 .. c
                /\ t[k] = s[k - u - n + w]
  <2>1. \/ k \in 1 .. u /\ k \in 1 .. c /\ t[k] = s[k]
        \/ k - u \in 1 .. n /\ t[k] = q[k - u]
        \/ k - u - n + w \in w + 1 .. c /\ t[k] = s[k - u - n + w]
    BY <1>2, SplicedFrom
  <2>2. k - u - n + w \in w + 1 .. c => k - u - n + w \in 1 .. c
    BY <1>1
  <2> QED
    BY <2>1, <2>2
<1>4. ASSUME NEW i \in 1 .. d, NEW j \in 1 .. d, t[i] = t[j] PROVE i = j
  <2>1. CASE i \in 1 .. u /\ i \in 1 .. c /\ t[i] = s[i]
    <3>1. CASE j \in 1 .. u /\ j \in 1 .. c /\ t[j] = s[j]
      BY <1>4, <2>1, <3>1
    <3>2. CASE j - u \in 1 .. n /\ t[j] = q[j - u]
      BY <1>2, <1>4, <2>1, <3>2
    <3>3. CASE /\ j - u - n + w \in w + 1 .. c /\ j - u - n + w \in 1 .. c
               /\ t[j] = s[j - u - n + w]
      <4>1. i = j - u - n + w
        BY <1>4, <2>1, <3>3
      <4> QED
        BY <1>1, <2>1, <3>3, <4>1
    <3> QED
      BY <1>3, <3>1, <3>2, <3>3
  <2>2. CASE i - u \in 1 .. n /\ t[i] = q[i - u]
    <3>1. CASE j \in 1 .. u /\ j \in 1 .. c /\ t[j] = s[j]
      BY <1>2, <1>4, <2>2, <3>1
    <3>2. CASE j - u \in 1 .. n /\ t[j] = q[j - u]
      <4>1. i - u = j - u
        BY <1>2, <1>4, <2>2, <3>2
      <4> QED
        BY <1>1, <4>1
    <3>3. CASE /\ j - u - n + w \in w + 1 .. c /\ j - u - n + w \in 1 .. c
               /\ t[j] = s[j - u - n + w]
      BY <1>2, <1>4, <2>2, <3>3
    <3> QED
      BY <1>3, <3>1, <3>2, <3>3
  <2>3. CASE /\ i - u - n + w \in w + 1 .. c /\ i - u - n + w \in 1 .. c
             /\ t[i] = s[i - u - n + w]
    <3>1. CASE j \in 1 .. u /\ j \in 1 .. c /\ t[j] = s[j]
      <4>1. j = i - u - n + w
        BY <1>4, <2>3, <3>1
      <4> QED
        BY <1>1, <2>3, <3>1, <4>1
    <3>2. CASE j - u \in 1 .. n /\ t[j] = q[j - u]
      BY <1>2, <1>4, <2>3, <3>2
    <3>3. CASE /\ j - u - n + w \in w + 1 .. c /\ j - u - n + w \in 1 .. c
               /\ t[j] = s[j - u - n + w]
      <4>1. i - u - n + w = j - u - n + w
        BY <1>4, <2>3, <3>3
      <4> QED
        BY <1>1, <1>2, <4>1
    <3> QED
      BY <1>3, <3>1, <3>2, <3>3
  <2> QED
    BY <1>3, <2>1, <2>2, <2>3
<1>5. ASSUME NEW k \in 1 .. d
      PROVE  /\ \/ \E i \in 1 .. c : t[k] = s[i]
                \/ \E i \in 1 .. n : t[k] = q[i]
             /\ \A i \in u + 1 .. w : t[k] # s[i]
  <2>0. \A i \in u + 1 .. w : i \in 1 .. c
    BY <1>1
  <2>1. CASE k \in 1 .. u /\ k \in 1 .. c /\ t[k] = s[k]
    <3>1. \A i \in u + 1 .. w : i # k
      BY <1>1, <2>1
    <3> QED
      BY <2>0, <2>1, <3>1
  <2>2. CASE k - u \in 1 .. n /\ t[k] = q[k - u]
    BY <1>2, <2>0, <2>2
  <2>3. CASE /\ k - u - n + w \in w + 1 .. c /\ k - u - n + w \in 1 .. c
             /\ t[k] = s[k - u - n + w]
    <3>1. \A i \in u + 1 .. w : i # k - u - n + w
      BY <1>1, <2>3
    <3> QED
      BY <2>0, <2>3, <3>1
  <2> QED
    BY <1>3, <2>1, <2>2, <2>3
<1>6. ASSUME NEW i \in 1 .. c, \A j \in u + 1 .. w : s[i] # s[j]
      PROVE  \E k \in 1 .. d : t[k] = s[i]
  <2>1. CASE i <= u
    <3>1. i \in 1 .. u /\ i \in 1 .. d
      BY <1>1, <2>1
    <3> QED
      BY <3>1 DEF Spliced
  <2>2. CASE u < i
    <3>1. i \notin u + 1 .. w
      BY <1>6
    <3>2. i \in w + 1 .. c /\ u + Len(q) + (i - w) \in 1 .. d
      BY <1>1, <2>2, <3>1
    <3>3. t[u + Len(q) + (i - w)] = s[i]
      BY <3>2 DEF Spliced
    <3> QED
      BY <3>2, <3>3
  <2> QED
    BY <1>1, <2>1, <2>2
<1>7. ASSUME NEW i \in 1 .. Len(q) PROVE \E k \in 1 .. d : t[k] = q[i]
  <2>1. u + i \in 1 .. d
    BY <1>1
  <2> QED
    BY <2>1 DEF Spliced
<1>8. ASSUME NEW i \in 1 .. Len(q), NEW j \in u + 1 .. w PROVE q[i] # s[j]
  <2>1. j \in 1 .. c
    BY <1>1
  <2> QED
    BY <2>1
<1>9. {t[i] : i \in 1 .. d}
        = ({s[i] : i \in 1 .. c} \cup {q[i] : i \in 1 .. Len(q)}) \ {s[i] : i \in u + 1 .. w}
  <2>1. ASSUME NEW x \in {t[i] : i \in 1 .. d}
        PROVE  x \in ({s[i] : i \in 1 .. c} \cup {q[i] : i \in 1 .. Len(q)})
                       \ {s[i] : i \in u + 1 .. w}
    <3>1. PICK k \in 1 .. d : x = t[k]
      OBVIOUS
    <3> QED
      BY <1>2, <1>5, <3>1
  <2>2. ASSUME NEW x \in ({s[i] : i \in 1 .. c} \cup {q[i] : i \in 1 .. Len(q)})
                           \ {s[i] : i \in u + 1 .. w}
        PROVE  x \in {t[i] : i \in 1 .. d}
    <3>1. CASE x \in {s[i] : i \in 1 .. c}
      <4>1. PICK i \in 1 .. c : x = s[i]
        BY <3>1
      <4>2. \A j \in u + 1 .. w : s[i] # s[j]
        BY <4>1
      <4> QED
        BY <1>6, <4>1, <4>2
    <3>2. CASE x \in {q[i] : i \in 1 .. Len(q)}
      BY <1>7, <3>2
    <3> QED
      BY <3>1, <3>2
  <2> QED
    BY <2>1, <2>2
<1>10. ASSUME NEW x, NEW e PROVE Part(x, 0, e) = {x[i] : i \in 1 .. e}
  BY DEF Part
<1>11. Part(s, u, w) = {s[i] : i \in u + 1 .. w}
  BY DEF Part
<1> QED
  BY <1>4, <1>9, <1>10, <1>11, Zenon

\* Two of s that are not cut out are in t, in the same order.
LEMMA SplicedOrder ==
  ASSUME NEW s, NEW c, NEW t, NEW d, NEW u, NEW q, NEW w, Spliced(s, c, t, d, u, q, w),
         NEW i \in 1 .. c, NEW j \in 1 .. c, i < j, i \notin u + 1 .. w, j \notin u + 1 .. w
  PROVE  \E k, l \in 1 .. d : k < l /\ t[k] = s[i] /\ t[l] = s[j]
<1>1. /\ c \in Nat /\ d \in Nat /\ u \in Nat /\ w \in Nat /\ Len(q) \in Nat
      /\ u <= w /\ w <= c /\ d = u + Len(q) + (c - w)
  BY DEF Spliced
<1>2. ASSUME NEW k \in 1 .. c, k <= u PROVE k \in 1 .. d /\ t[k] = s[k]
  <2>1. k \in 1 .. u /\ k \in 1 .. d
    BY <1>1, <1>2
  <2> QED
    BY <2>1 DEF Spliced
<1>3. ASSUME NEW k \in 1 .. c, w < k
      PROVE  u + Len(q) + (k - w) \in 1 .. d /\ t[u + Len(q) + (k - w)] = s[k]
  <2>1. k \in w + 1 .. c /\ u + Len(q) + (k - w) \in 1 .. d
    BY <1>1, <1>3
  <2> QED
    BY <2>1 DEF Spliced
<1>4. (i <= u \/ w < i) /\ (j <= u \/ w < j)
  BY <1>1
<1>5. CASE j <= u
  BY <1>1, <1>2, <1>5
<1>6. CASE i <= u /\ w < j
  <2>1. i < u + Len(q) + (j - w)
    BY <1>1, <1>6
  <2> QED
    BY <1>2, <1>3, <1>6, <2>1
<1>7. CASE w < i /\ w < j
  <2>1. u + Len(q) + (i - w) < u + Len(q) + (j - w)
    BY <1>1, <1>7
  <2> QED
    BY <1>3, <1>7, <2>1
<1> QED
  BY <1>1, <1>4, <1>5, <1>6, <1>7

-----------------------------------------------------------------------------
(* The invariant: the first cItems slots have the instances, once each.     *)

Owns(a, instances) ==
  /\ a \in Arrays
  /\ a.cItems <= Len(a.items)
  /\ \A i, j \in 1 .. a.cItems : a.items[i] = a.items[j] => i = j
  /\ Part(a.items, 0, a.cItems) = instances

\* teFiniTypeInstance ends none twice.
EndsOnce(q) == \A i, j \in DOMAIN q : q[i] = q[j] /\ q[i] # Husk => i = j

ArrayInv ==
  /\ made \subseteq Instances
  /\ EndsOnce(endings)
  /\ IF pArr = NULL THEN made = {} ELSE Owns(pArr, made)

LEMMA OwnsFacts ==
  ASSUME NEW a, NEW instances, Owns(a, instances)
  PROVE  /\ a.items \in Seq(Slots) /\ a.cItems \in Nat /\ a.uDimension \in Nat /\ a.uIndex \in Nat
         /\ Len(a.items) \in Nat /\ a.cItems <= Len(a.items)
         /\ a = [items |-> a.items, cItems |-> a.cItems, uDimension |-> a.uDimension,
                 uIndex |-> a.uIndex]
         /\ \A i \in 1 .. a.cItems : a.items[i] \in instances
         /\ a # NULL
BY LenProperties, ArraysAssumption DEF Owns, Arrays, Slots, Part

\* The cut-out instances of `old`, and the new ones of q.
LEMMA Exchange ==
  ASSUME ArrayInv, pArr # NULL, NEW b \in Arrays, NEW u, NEW q, NEW w,
         b.cItems <= Len(b.items),
         Spliced(pArr.items, pArr.cItems, b.items, b.cItems, u, q, w),
         q \in Fresh(Len(q)), NEW old, EndsOnce(old),
         Held(old) = Part(pArr.items, u, w), Leaves(b, q, old)
  PROVE  ArrayInv' /\ KeepsOrder
<1>1. Owns(pArr, made) /\ made \subseteq Instances
  BY DEF ArrayInv
<1>2. PICK s : s = pArr.items
  OBVIOUS
<1>3. PICK c \in Nat : c = pArr.cItems
  BY <1>1, OwnsFacts
<1>4. PICK t : t = b.items
  OBVIOUS
<1>5. PICK d \in Nat : d = b.cItems
  BY DEF Arrays
<1>6. Spliced(s, c, t, d, u, q, w)
  BY <1>2, <1>3, <1>4, <1>5
<1>7. (\A i, j \in 1 .. c : s[i] = s[j] => i = j) /\ Part(s, 0, c) = made
  BY <1>1, <1>2, <1>3 DEF Owns
<1>8. /\ c \in Nat /\ u \in Nat /\ w \in Nat /\ Len(q) \in Nat /\ u <= w /\ w <= c
  BY <1>6 DEF Spliced
<1>9. /\ q \in [1 .. Len(q) -> Instances \ made]
      /\ \A i, j \in 1 .. Len(q) : i < j => q[i] < q[j]
  BY DEF Fresh
<1>10. \A i, j \in 1 .. Len(q) : q[i] = q[j] => i = j
  <2>1. \A i \in 1 .. Len(q) : q[i] \in Nat
    BY <1>9, InstancesAssumption
  <2> QED
    BY <1>8, <1>9, <2>1
<1>11. \A i \in 1 .. c, j \in 1 .. Len(q) : s[i] # q[j]
  BY <1>7, <1>9 DEF Part
<1>12. Held(q) = Part(q, 0, Len(q))
  <2>1. \A i \in 1 .. Len(q) : q[i] # NULL
    BY <1>9, InstancesAssumption
  <2> QED
    BY <1>9, <2>1 DEF Held, Husk, Part
<1>13. /\ \A i, j \in 1 .. d : t[i] = t[j] => i = j
       /\ Part(t, 0, d) = (made \cup Held(q)) \ Held(old)
  <2>1. /\ \A i, j \in 1 .. d : t[i] = t[j] => i = j
        /\ Part(t, 0, d) = (Part(s, 0, c) \cup Part(q, 0, Len(q))) \ Part(s, u, w)
    BY <1>6, <1>7, <1>10, <1>11, SplicedOnce
  <2> QED
    BY <1>2, <1>7, <1>12, <2>1
<1>14. pArr' = b /\ made' = (made \cup Held(q)) \ Held(old) /\ endings' = old
  BY DEF Leaves
<1>15. b # NULL
  BY ArraysAssumption
<1>16. Owns(b, made')
  BY <1>4, <1>5, <1>13, <1>14 DEF Owns
<1>17. ArrayInv'
  <2>1. made' \subseteq Instances
    BY <1>1, <1>9, <1>12, <1>14 DEF Part
  <2>2. EndsOnce(endings')
    BY <1>14
  <2>3. pArr' # NULL /\ Owns(pArr', made')
    BY <1>14, <1>15, <1>16
  <2> QED
    BY <2>1, <2>2, <2>3 DEF ArrayInv, EndsOnce
<1>18. KeepsOrder
  <2>1. SUFFICES ASSUME NEW x \in made \cap made', NEW y \in made \cap made', Before(x, y)
                 PROVE  Before(x, y)'
    BY DEF KeepsOrder
  <2>2. PICK i \in 1 .. c, j \in 1 .. c : i < j /\ s[i] = x /\ s[j] = y
    BY <1>2, <1>3, <2>1 DEF Before
  <2>3. x \notin Held(old) /\ y \notin Held(old)
    BY <1>14
  <2>4. i \notin u + 1 .. w /\ j \notin u + 1 .. w
    BY <1>2, <2>2, <2>3 DEF Part
  <2>5. \E k, l \in 1 .. d : k < l /\ t[k] = x /\ t[l] = y
    BY <1>6, <2>2, <2>4, SplicedOrder
  <2>6. pArr' # NULL /\ \E k, l \in 1 .. pArr'.cItems :
                           k < l /\ pArr'.items[k] = x /\ pArr'.items[l] = y
    BY <1>4, <1>5, <1>14, <1>15, <2>5
  <2> QED
    BY <2>6 DEF Before
<1> QED
  BY <1>17, <1>18

\* An array of new instances alone.
LEMMA FreshFacts ==
  ASSUME NEW n \in Nat, NEW q \in Fresh(n), made \subseteq Instances
  PROVE  /\ Len(q) = n /\ DOMAIN q = 1 .. n /\ q \in Fresh(Len(q)) /\ q \in Seq(Slots)
         /\ \A i, j \in 1 .. n : q[i] = q[j] => i = j
         /\ Held(q) = Part(q, 0, n) /\ Held(q) \subseteq Instances \ made
<1>1. q \in [1 .. n -> Instances \ made] /\ \A i, j \in 1 .. n : i < j => q[i] < q[j]
  BY DEF Fresh
<1>2. q \in [1 .. n -> Slots]
  BY <1>1 DEF Slots
<1>3. q \in Seq(Slots) /\ Len(q) = n /\ DOMAIN q = 1 .. n
  BY <1>2, SeqDef
<1>4. \A i, j \in 1 .. n : q[i] = q[j] => i = j
  <2>1. \A i \in 1 .. n : q[i] \in Nat
    BY <1>1, InstancesAssumption
  <2> QED
    BY <1>1, <2>1
<1>5. Held(q) = Part(q, 0, n)
  <2>1. \A i \in 1 .. n : q[i] # NULL
    BY <1>1, InstancesAssumption
  <2> QED
    BY <1>3, <2>1 DEF Held, Husk, Part
<1>6. Held(q) \subseteq Instances \ made
  BY <1>1, <1>5 DEF Part
<1> QED
  BY <1>3, <1>4, <1>5, <1>6

-----------------------------------------------------------------------------
(* The commands.                                                            *)

LEMMA IndexFacts ==
  ASSUME NEW a \in Arrays, NEW r \in {a, IndexToTop(a), IndexToBottom(a)}
  PROVE  r \in Arrays /\ r.items = a.items /\ r.cItems = a.cItems
<1>1. a.cItems \in Nat
  BY DEF Arrays
<1>2. PICK v \in Nat : v = IF a.cItems > 0 THEN a.cItems - 1 ELSE 0
  BY <1>1
<1>3. IndexToBottom(a) = [a EXCEPT !.uIndex = v]
  BY <1>2 DEF IndexToBottom
<1>4. IndexToTop(a) = [a EXCEPT !.uIndex = 0]
  BY DEF IndexToTop
<1> QED
  BY <1>3, <1>4 DEF Arrays

LEMMA NoneHeld ==
  ASSUME NEW s, NEW u \in Nat
  PROVE  EndsOnce(<<>>) /\ Held(<<>>) = Part(s, u, u)
<1>1. \A i \in DOMAIN <<>> : FALSE
  OBVIOUS
<1>2. \A i \in u + 1 .. u : FALSE
  OBVIOUS
<1> QED
  BY <1>1, <1>2 DEF EndsOnce, Held, Part

\* teArrayInsertElements.
LEMMA Inserting ==
  ASSUME ArrayInv, pArr # NULL, NEW uBefore \in Nat, NEW n \in Nat, NEW q \in Fresh(n),
         NEW b, b = InsertElements(pArr, uBefore, q),
         NEW r \in {b, IndexToBottom(b)}, Leaves(r, q, <<>>)
  PROVE  ArrayInv' /\ KeepsOrder
<1>1. Owns(pArr, made) /\ made \subseteq Instances
  BY DEF ArrayInv
<1>2. PICK s \in Seq(Slots) : s = pArr.items
  BY <1>1, OwnsFacts
<1>3. PICK c \in Nat : c = pArr.cItems /\ c <= Len(s)
  BY <1>1, <1>2, OwnsFacts
<1>4. PICK u \in Nat : u = Min({uBefore, c}) /\ u <= c
  <2>1. Min({uBefore, c}) = IF uBefore <= c THEN uBefore ELSE c
    BY MinIs
  <2> QED
    BY <2>1
<1>5. q \in Seq(Slots) /\ q \in Fresh(Len(q)) /\ Len(q) = n
  BY <1>1, FreshFacts
<1>6. PICK t : t = SubSeq(s, 1, u) \o q \o SubSeq(s, u + 1, c)
  OBVIOUS
<1>7. t \in Seq(Slots) /\ Spliced(s, c, t, Len(t), u, q, u)
  <2>1. u <= u
    OBVIOUS
  <2> QED
    BY <1>3, <1>4, <1>5, <1>6, <2>1, Joined
<1>8. b = [items |-> t, cItems |-> Len(t), uDimension |-> pArr.uDimension, uIndex |-> u]
  BY <1>2, <1>3, <1>4, <1>6 DEF InsertElements, Array
<1>9. Len(t) \in Nat /\ pArr.uDimension \in Nat
  BY <1>1, <1>7, OwnsFacts DEF Spliced
<1>10. b \in Arrays /\ b.items = t /\ b.cItems = Len(t)
  BY <1>7, <1>8, <1>9 DEF Arrays, Slots
<1>11. r \in Arrays /\ r.items = t /\ r.cItems = Len(t) /\ r.cItems <= Len(r.items)
  BY <1>9, <1>10, IndexFacts
<1>12. EndsOnce(<<>>) /\ Held(<<>>) = Part(pArr.items, u, u)
  BY NoneHeld
<1>13. Spliced(pArr.items, pArr.cItems, r.items, r.cItems, u, q, u)
  BY <1>2, <1>3, <1>7, <1>11
<1> QED
  BY <1>5, <1>11, <1>12, <1>13, Exchange

\* What is behind the first d of t does not matter.
LEMMA SplicedLonger ==
  ASSUME NEW s, NEW c, NEW t, NEW d, NEW u, NEW q, NEW w, Spliced(s, c, t, d, u, q, w),
         NEW z, \A j \in 1 .. d : z[j] = t[j]
  PROVE  Spliced(s, c, z, d, u, q, w)
<1>1. /\ c \in Nat /\ d \in Nat /\ u \in Nat /\ w \in Nat /\ Len(q) \in Nat
      /\ u <= w /\ w <= c /\ d = u + Len(q) + (c - w)
  BY DEF Spliced
<1>2. \A j \in 1 .. u : j \in 1 .. d
  BY <1>1
<1>3. \A j \in 1 .. Len(q) : u + j \in 1 .. d
  BY <1>1
<1>4. \A j \in w + 1 .. c : u + Len(q) + (j - w) \in 1 .. d
  BY <1>1
<1>5. \A j \in 1 .. u : z[j] = s[j]
  BY <1>2 DEF Spliced
<1>6. \A j \in 1 .. Len(q) : z[u + j] = q[j]
  BY <1>3 DEF Spliced
<1>7. \A j \in w + 1 .. c : z[u + Len(q) + (j - w)] = s[j]
  BY <1>4 DEF Spliced
<1> QED
  BY <1>1, <1>5, <1>6, <1>7 DEF Spliced

LEMMA HusksFacts ==
  ASSUME NEW n \in Nat
  PROVE  Husks(n) \in Seq(Slots) /\ Len(Husks(n)) = n /\ \A j \in 1 .. n : Husks(n)[j] = NULL
<1>1. Husks(n) \in [1 .. n -> Slots]
  BY DEF Husks, Husk, Slots
<1> QED
  BY <1>1, SeqDef DEF Husks, Husk

\* teArrayDeleteElements.
LEMMA Deleting ==
  ASSUME ArrayInv, pArr # NULL, NEW u \in Nat, u <= pArr.cItems, NEW n \in Nat,
         NEW b, b = DeleteElements(pArr, u, n),
         NEW r \in {b, IndexToBottom(b), IndexToTop(b)}, Leaves(r, <<>>, DeletedSlots(pArr, u, n))
  PROVE  ArrayInv' /\ KeepsOrder
<1>1. Owns(pArr, made) /\ made \subseteq Instances
  BY DEF ArrayInv
<1>2. PICK s \in Seq(Slots) : s = pArr.items
  BY <1>1, OwnsFacts
<1>3. PICK c \in Nat : c = pArr.cItems /\ c <= Len(s) /\ Len(s) \in Nat
  BY <1>1, <1>2, OwnsFacts
<1>4. PICK w \in Nat : w = Top(pArr, u, n) /\ u <= w /\ w <= c
  <2>1. u + n \in Int
    OBVIOUS
  <2>2. Min({u + n, c}) = IF u + n <= c THEN u + n ELSE c
    BY <2>1, MinIs
  <2> QED
    BY <1>3, <2>2 DEF Top
<1>5. PICK q : q = <<>>
  OBVIOUS
<1>6. q \in Seq(Slots) /\ Len(q) = 0 /\ q \in Fresh(Len(q))
  BY <1>5 DEF Fresh
<1>7. PICK t : t = SubSeq(s, 1, u) \o SubSeq(s, w + 1, c)
  OBVIOUS
<1>8. t \in Seq(Slots) /\ Spliced(s, c, t, Len(t), u, q, w)
  <2>1. \A j \in 1 .. u : s[j] \in Slots
    BY <1>2, <1>3, <1>4, ElementOfSeq
  <2>2. SubSeq(s, 1, u) \in Seq(Slots)
    BY <2>1, SubSeqProperties
  <2>3. SubSeq(s, 1, u) \o q = SubSeq(s, 1, u)
    BY <1>5, <2>2, ConcatEmptySeq
  <2>4. t = SubSeq(s, 1, u) \o q \o SubSeq(s, w + 1, c)
    BY <1>7, <2>3
  <2> QED
    BY <1>3, <1>4, <1>6, <2>4, Joined
<1>9. Len(t) \in Nat /\ Len(t) = c - (w - u) /\ Len(s) - u - (c - w) \in Nat
  BY <1>3, <1>4, <1>6, <1>8 DEF Spliced
<1>10. PICK h : h = Husks(Len(s) - u - (c - w))
  OBVIOUS
<1>11. h \in Seq(Slots) /\ Len(h) = Len(s) - u - (c - w)
  BY <1>9, <1>10, HusksFacts
<1>12. PICK z : z = t \o h
  OBVIOUS
<1>13. z \in Seq(Slots) /\ Len(z) = Len(s) /\ \A j \in 1 .. Len(t) : z[j] = t[j]
  <2>1. /\ z \in Seq(Slots) /\ Len(z) = Len(t) + Len(h)
        /\ \A j \in 1 .. Len(t) + Len(h) : z[j] = IF j <= Len(t) THEN t[j] ELSE h[j - Len(t)]
    BY <1>8, <1>11, <1>12, ConcatProperties
  <2>2. \A j \in 1 .. Len(t) : j \in 1 .. Len(t) + Len(h) /\ j <= Len(t)
    BY <1>9, <1>11
  <2>3. Len(t) + Len(h) = Len(s)
    <3>1. PICK x \in Nat : x = Len(s)
      BY <1>3
    <3>2. Len(t) = c - (w - u) /\ Len(h) = x - u - (c - w)
      BY <1>9, <1>11, <3>1
    <3>3. c - (w - u) + (x - u - (c - w)) = x
      BY <1>3, <1>4
    <3> QED
      BY <3>1, <3>2, <3>3
  <2>4. \A j \in 1 .. Len(t) : z[j] = t[j]
    BY <2>1, <2>2
  <2> QED
    BY <2>1, <2>3, <2>4
<1>14. Spliced(s, c, z, Len(t), u, q, w)
  BY <1>8, <1>13, SplicedLonger
<1>15. b = [pArr EXCEPT !.items = z, !.cItems = Len(t)]
  BY <1>2, <1>3, <1>4, <1>7, <1>9, <1>10, <1>12 DEF DeleteElements
<1>16. b \in Arrays /\ b.items = z /\ b.cItems = Len(t)
  <2>1. pArr \in Arrays
    BY <1>1 DEF Owns
  <2> QED
    BY <1>9, <1>13, <1>15, <2>1 DEF Arrays, Slots
<1>17. r \in Arrays /\ r.items = z /\ r.cItems = Len(t) /\ r.cItems <= Len(r.items)
  <2>1. r \in Arrays /\ r.items = z /\ r.cItems = Len(t)
    BY <1>16, IndexFacts
  <2> QED
    BY <1>3, <1>4, <1>9, <1>13, <2>1
<1>18. PICK old : old = DeletedSlots(pArr, u, n)
  OBVIOUS
<1>19. old = [i \in 1 .. w - u |-> s[w + 1 - i]]
  BY <1>2, <1>4, <1>18 DEF DeletedSlots
<1>20. \A i \in 1 .. w - u : w + 1 - i \in u + 1 .. w /\ w + 1 - i \in 1 .. c
  BY <1>3, <1>4
<1>21. EndsOnce(old)
  <2>1. \A i, j \in 1 .. c : s[i] = s[j] => i = j
    BY <1>1, <1>2, <1>3 DEF Owns
  <2>2. ASSUME NEW i \in 1 .. w - u, NEW j \in 1 .. w - u, old[i] = old[j] PROVE i = j
    <3>1. w + 1 - i = w + 1 - j
      BY <1>19, <1>20, <2>1, <2>2
    <3> QED
      BY <1>4, <3>1
  <2> QED
    BY <1>19, <2>2 DEF EndsOnce
<1>22. Held(old) = Part(s, u, w)
  <2>1. \A i \in 1 .. c : s[i] # NULL
    BY <1>1, <1>2, <1>3, OwnsFacts, InstancesAssumption
  <2>2. ASSUME NEW x \in Held(old) PROVE x \in Part(s, u, w)
    <3>1. PICK i \in 1 .. w - u : x = s[w + 1 - i]
      BY <1>19, <2>2 DEF Held
    <3> QED
      BY <1>20, <3>1 DEF Part
  <2>3. ASSUME NEW x \in Part(s, u, w) PROVE x \in Held(old)
    <3>1. PICK i \in u + 1 .. w : x = s[i]
      BY <2>3 DEF Part
    <3>2. w + 1 - i \in 1 .. w - u /\ w + 1 - (w + 1 - i) = i /\ i \in 1 .. c
      BY <1>3, <1>4
    <3>3. old[w + 1 - i] = x /\ x # NULL
      BY <1>19, <2>1, <3>1, <3>2
    <3> QED
      BY <1>19, <3>2, <3>3 DEF Held, Husk
  <2> QED
    BY <2>2, <2>3
<1>23. Spliced(pArr.items, pArr.cItems, r.items, r.cItems, u, q, w)
  BY <1>2, <1>3, <1>14, <1>17
<1> QED
  BY <1>2, <1>5, <1>6, <1>17, <1>18, <1>21, <1>22, <1>23, Exchange

\* teArrayDim.
LEMMA Dimensioning ==
  ASSUME ArrayInv, NEW n \in Nat, Dim(n)
  PROVE  ArrayInv' /\ KeepsOrder
<1>1. pArr = NULL /\ made = {}
  BY DEF ArrayInv, Dim
<1>2. PICK q \in Fresh(n) : Leaves(Array(q, n, 0), q, <<>>)
  BY DEF Dim
<1>3. /\ Len(q) = n /\ q \in Seq(Slots)
      /\ \A i, j \in 1 .. n : q[i] = q[j] => i = j
      /\ Held(q) = Part(q, 0, n) /\ Held(q) \subseteq Instances \ made
  <2>1. made \subseteq Instances
    BY <1>1
  <2> QED
    BY <2>1, FreshFacts
<1>4. EndsOnce(<<>>) /\ Held(<<>>) = {}
  <2>1. \A i \in DOMAIN <<>> : FALSE
    OBVIOUS
  <2> QED
    BY <2>1 DEF EndsOnce, Held
<1>5. PICK b : b = Array(q, n, 0)
  OBVIOUS
<1>6. b = [items |-> q, cItems |-> n, uDimension |-> n, uIndex |-> 0]
  BY <1>3, <1>5 DEF Array
<1>7. b \in Arrays /\ b.items = q /\ b.cItems = n
  BY <1>3, <1>6 DEF Arrays, Slots
<1>8. pArr' = b /\ made' = Part(q, 0, n) /\ endings' = <<>>
  BY <1>1, <1>2, <1>3, <1>4, <1>5 DEF Leaves
<1>9. Owns(b, made')
  BY <1>3, <1>7, <1>8 DEF Owns
<1>10. pArr' # NULL
  BY <1>7, <1>8, ArraysAssumption
<1>11. ArrayInv'
  <2>1. made' \subseteq Instances
    BY <1>3, <1>8
  <2>2. EndsOnce(endings')
    BY <1>4, <1>8
  <2>3. Owns(pArr', made')
    BY <1>8, <1>9
  <2> QED
    BY <1>10, <2>1, <2>2, <2>3 DEF ArrayInv, EndsOnce
<1>12. KeepsOrder
  BY <1>1 DEF KeepsOrder, Before
<1> QED
  BY <1>11, <1>12

\* teArrayUndim.
LEMMA Undimensioning ==
  ASSUME ArrayInv, Undim
  PROVE  ArrayInv' /\ KeepsOrder
<1>1. pArr # NULL /\ Owns(pArr, made) /\ made \subseteq Instances
  BY DEF ArrayInv, Undim
<1>2. PICK s \in Seq(Slots) : s = pArr.items
  BY <1>1, OwnsFacts
<1>3. PICK c \in Nat : c = pArr.cItems /\ c <= Len(s) /\ Len(s) \in Nat
  BY <1>1, <1>2, OwnsFacts
<1>4. PICK old : old = SubSeq(s, 1, c)
  OBVIOUS
<1>5. DOMAIN old = 1 .. c /\ \A i \in 1 .. c : old[i] = s[i]
  <2>1. \A j \in 1 .. c : s[j] \in Slots
    BY <1>3, ElementOfSeq
  <2>2. /\ Len(old) = IF 1 <= c THEN c - 1 + 1 ELSE 0
        /\ \A j \in 1 .. c - 1 + 1 : old[j] = s[1 + j - 1]
        /\ old \in Seq(Slots)
    BY <1>4, <2>1, SubSeqProperties
  <2>3. Len(old) = c /\ c - 1 + 1 = c
    BY <1>3, <2>2
  <2>4. DOMAIN old = 1 .. c
    BY <2>2, <2>3, LenProperties
  <2> QED
    BY <2>2, <2>3, <2>4
<1>6. /\ \A i, j \in 1 .. c : s[i] = s[j] => i = j
      /\ made = {s[i] : i \in 1 .. c}
  BY <1>1, <1>2, <1>3 DEF Owns, Part
<1>7. \A i \in 1 .. c : s[i] # NULL
  BY <1>1, <1>6, InstancesAssumption
<1>8. Held(old) = made
  BY <1>5, <1>6, <1>7 DEF Held, Husk
<1>9. Held(<<>>) = {}
  <2>1. \A i \in DOMAIN <<>> : FALSE
    OBVIOUS
  <2> QED
    BY <2>1 DEF Held
<1>10. pArr' = NULL /\ made' = {} /\ endings' = old
  BY <1>2, <1>3, <1>4, <1>8, <1>9 DEF Undim, Leaves
<1>11. EndsOnce(old)
  BY <1>5, <1>6 DEF EndsOnce
<1>12. ArrayInv'
  BY <1>10, <1>11 DEF ArrayInv, EndsOnce
<1>13. KeepsOrder
  BY <1>10 DEF KeepsOrder
<1> QED
  BY <1>12, <1>13

\* teArrayRedim, while the array has the size that it was dimensioned with: all of
\* its items are moved, or those that the new dimension has room for.
LEMMA Redimensioning ==
  ASSUME ~RedimAfterResize, ArrayInv, NEW n \in Nat, Redim(n)
  PROVE  ArrayInv' /\ KeepsOrder
<1>1. /\ pArr # NULL /\ Owns(pArr, made) /\ made \subseteq Instances
      /\ pArr.uDimension = pArr.cItems
  BY DEF ArrayInv, Redim
<1>2. PICK s \in Seq(Slots) : s = pArr.items
  BY <1>1, OwnsFacts
<1>3. PICK c \in Nat : c = pArr.cItems /\ c <= Len(s) /\ Len(s) \in Nat
  BY <1>1, <1>2, OwnsFacts
<1>4. PICK u \in Nat : u = Min({c, n}) /\ u <= c /\ n - u \in Nat
  <2>1. Min({c, n}) = IF c <= n THEN c ELSE n
    BY MinIs
  <2> QED
    BY <2>1
<1>5. PICK q \in Fresh(n - u) :
        Leaves(Array(SubSeq(s, 1, u) \o q, n, 0), q, Husks(u) \o SubSeq(s, u + 1, c))
  BY <1>1, <1>2, <1>3, <1>4 DEF Redim
<1>6. q \in Seq(Slots) /\ q \in Fresh(Len(q))
  BY <1>1, <1>4, FreshFacts
<1>7. PICK t : t = SubSeq(s, 1, u) \o q
  OBVIOUS
<1>8. t \in Seq(Slots) /\ Spliced(s, c, t, Len(t), u, q, c)
  <2>1. \A j \in 1 .. u : s[j] \in Slots
    BY <1>3, <1>4, ElementOfSeq
  <2>2. SubSeq(s, 1, u) \in Seq(Slots)
    BY <2>1, SubSeqProperties
  <2>3. t \in Seq(Slots)
    BY <1>6, <1>7, <2>2, ConcatProperties
  <2>4. SubSeq(s, c + 1, c) = <<>>
    BY <1>3, SubSeqEmpty
  <2>5. t = SubSeq(s, 1, u) \o q \o SubSeq(s, c + 1, c)
    BY <1>7, <2>3, <2>4, ConcatEmptySeq
  <2>6. c <= c
    BY <1>3
  <2> QED
    BY <1>3, <1>4, <1>6, <2>5, <2>6, Joined
<1>9. PICK b : b = Array(t, n, 0)
  OBVIOUS
<1>10. b \in Arrays /\ b.items = t /\ b.cItems = Len(t) /\ b.cItems <= Len(b.items)
  <2>1. Len(t) \in Nat
    BY <1>8, LenProperties
  <2> QED
    BY <1>8, <1>9, <2>1 DEF Array, Arrays, Slots
<1>11. PICK old : old = Husks(u) \o SubSeq(s, u + 1, c)
  OBVIOUS
<1>12. DOMAIN old = 1 .. c /\ \A j \in 1 .. c : old[j] = IF j <= u THEN NULL ELSE s[j]
  <2>1. PICK h : h = Husks(u)
    OBVIOUS
  <2>2. h \in Seq(Slots) /\ Len(h) = u /\ \A j \in 1 .. u : h[j] = NULL
    BY <2>1, HusksFacts
  <2>3. PICK e : e = SubSeq(s, u + 1, c)
    OBVIOUS
  <2>4. e \in Seq(Slots) /\ Len(e) = c - u /\ \A j \in 1 .. c - u : e[j] = s[u + j]
    <3>0. \A j \in u + 1 .. c : j \in 1 .. Len(s)
      BY <1>3, <1>4
    <3>1. \A j \in u + 1 .. c : s[j] \in Slots
      BY <3>0, ElementOfSeq
    <3>2. /\ e \in Seq(Slots) /\ Len(e) = IF u + 1 <= c THEN c - (u + 1) + 1 ELSE 0
          /\ \A j \in 1 .. c - (u + 1) + 1 : e[j] = s[u + 1 + j - 1]
      <4>1. u + 1 \in Int /\ c \in Int
        OBVIOUS
      <4> QED
        BY <2>3, <3>1, <4>1, SubSeqProperties
    <3>3. c - (u + 1) + 1 = c - u /\ Len(e) = c - u
      BY <1>3, <1>4, <3>2
    <3>4. ASSUME NEW j \in 1 .. c - u PROVE e[j] = s[u + j]
      <4>1. e[j] = s[u + 1 + j - 1] /\ u + 1 + j - 1 = u + j
        BY <3>2, <3>3
      <4> QED
        BY <4>1
    <3> QED
      BY <3>2, <3>3, <3>4
  <2>5. /\ old \in Seq(Slots) /\ Len(old) = Len(h) + Len(e)
        /\ \A j \in 1 .. Len(h) + Len(e) : old[j] = IF j <= Len(h) THEN h[j] ELSE e[j - Len(h)]
    <3>1. h \in Seq(Slots) /\ e \in Seq(Slots) /\ old = h \o e
      BY <1>11, <2>1, <2>2, <2>3, <2>4
    <3> QED
      BY <3>1, ConcatProperties
  <2>6. Len(h) + Len(e) = c
    BY <1>3, <1>4, <2>2, <2>4
  <2>7. DOMAIN old = 1 .. c
    BY <2>5, <2>6, LenProperties
  <2>8. ASSUME NEW j \in 1 .. c PROVE old[j] = IF j <= u THEN NULL ELSE s[j]
    <3>1. old[j] = IF j <= u THEN h[j] ELSE e[j - u]
      BY <2>2, <2>5, <2>6
    <3>2. CASE j <= u
      <4>1. j \in 1 .. u
        BY <1>4, <3>2
      <4> QED
        BY <2>2, <3>1, <3>2, <4>1
    <3>3. CASE ~(j <= u)
      <4>1. j - u \in 1 .. c - u /\ u + (j - u) = j
        BY <1>3, <1>4, <3>3
      <4>2. e[j - u] = s[u + (j - u)]
        BY <2>4, <4>1
      <4> QED
        BY <3>1, <3>3, <4>1, <4>2
    <3> QED
      BY <3>2, <3>3
  <2> QED
    BY <2>7, <2>8
<1>13. /\ \A i, j \in 1 .. c : s[i] = s[j] => i = j
       /\ \A i \in 1 .. c : s[i] # NULL
  BY <1>1, <1>2, <1>3, OwnsFacts, InstancesAssumption DEF Owns
<1>14. EndsOnce(old)
  BY <1>12, <1>13 DEF EndsOnce, Husk
<1>15. Held(old) = Part(s, u, c)
  <2>1. ASSUME NEW x \in Held(old) PROVE x \in Part(s, u, c)
    <3>1. PICK i \in 1 .. c : x = old[i] /\ x # NULL
      BY <1>12, <2>1 DEF Held, Husk
    <3>2. ~(i <= u) /\ x = s[i]
      BY <1>12, <3>1
    <3>3. i \in u + 1 .. c
      BY <1>4, <3>2
    <3> QED
      BY <3>2, <3>3 DEF Part
  <2>2. ASSUME NEW x \in Part(s, u, c) PROVE x \in Held(old)
    <3>1. PICK i \in u + 1 .. c : x = s[i]
      BY <2>2 DEF Part
    <3>2. i \in 1 .. c /\ ~(i <= u)
      BY <1>4
    <3>3. x = old[i] /\ x # NULL
      BY <1>12, <1>13, <3>1, <3>2
    <3> QED
      BY <1>12, <3>2, <3>3 DEF Held, Husk
  <2> QED
    BY <2>1, <2>2
<1>16. Leaves(b, q, old)
  BY <1>5, <1>7, <1>9, <1>11
<1>17. Spliced(pArr.items, pArr.cItems, b.items, b.cItems, u, q, c)
  BY <1>2, <1>3, <1>8, <1>10
<1> QED
  BY <1>1, <1>2, <1>6, <1>10, <1>14, <1>15, <1>16, <1>17, Exchange

\* The index moves and the items stay.
LEMMA Indexing ==
  ASSUME ArrayInv, pArr # NULL, NEW b \in Arrays, b.items = pArr.items, b.cItems = pArr.cItems,
         Leaves(b, <<>>, <<>>)
  PROVE  ArrayInv' /\ KeepsOrder
<1>1. Owns(pArr, made)
  BY DEF ArrayInv
<1>2. PICK s \in Seq(Slots) : s = pArr.items
  BY <1>1, OwnsFacts
<1>3. PICK c \in Nat : c = pArr.cItems /\ c <= Len(s)
  BY <1>1, <1>2, OwnsFacts
<1>4. PICK q : q = <<>>
  OBVIOUS
<1>5. Len(q) = 0 /\ q \in Fresh(Len(q))
  BY <1>4 DEF Fresh
<1>6. Spliced(s, c, s, c, 0, q, 0)
  BY <1>3, <1>5 DEF Spliced
<1>7. EndsOnce(q) /\ Held(q) = Part(pArr.items, 0, 0)
  BY <1>4, NoneHeld
<1>8. Spliced(pArr.items, pArr.cItems, b.items, b.cItems, 0, q, 0) /\ b.cItems <= Len(b.items)
  BY <1>2, <1>3, <1>6
<1> QED
  BY <1>4, <1>5, <1>7, <1>8, Exchange

-----------------------------------------------------------------------------
(* Every step keeps the invariant, and the order of what it keeps.          *)

LEMMA StartsOwning == ArrayInit => ArrayInv
<1>1. \A i \in DOMAIN <<>> : FALSE
  OBVIOUS
<1> QED
  BY <1>1 DEF ArrayInit, ArrayInv, EndsOnce

LEMMA StepKeeps ==
  ASSUME ~RedimAfterResize, ArrayInv, [ArrayNext]_arrayVars
  PROVE  ArrayInv' /\ [KeepsOrder]_arrayVars
<1>0. made \subseteq Instances /\ (pArr # NULL => Owns(pArr, made))
  BY DEF ArrayInv
<1>1. ASSUME pArr # NULL
      PROVE  pArr \in Arrays /\ pArr.cItems \in Nat /\ pArr.uIndex \in Nat
  BY <1>0, <1>1, OwnsFacts DEF Owns
<1>2. ASSUME NEW n \in 0 .. MaxQuantity, Dim(n) PROVE ArrayInv' /\ KeepsOrder
  <2>1. n \in Nat
    BY QuantityAssumption
  <2> QED
    BY <1>2, <2>1, Dimensioning
<1>3. ASSUME NEW n \in 0 .. MaxQuantity, Redim(n) PROVE ArrayInv' /\ KeepsOrder
  <2>1. n \in Nat
    BY QuantityAssumption
  <2> QED
    BY <1>3, <2>1, Redimensioning
<1>4. CASE Undim
  BY <1>4, Undimensioning
<1>5. ASSUME NEW u \in 0 .. pArr.cItems, NEW n \in 1 .. MaxQuantity, InsertItems(u, n)
      PROVE  ArrayInv' /\ KeepsOrder
  <2>1. pArr # NULL
    BY <1>5 DEF InsertItems
  <2>2. u \in Nat /\ n \in Nat
    BY <1>1, <2>1, QuantityAssumption
  <2>3. PICK q \in Fresh(n) : Leaves(InsertElements(pArr, u, q), q, <<>>)
    BY <1>5 DEF InsertItems
  <2> QED
    BY <2>1, <2>2, <2>3, Inserting
<1>6. ASSUME NEW u \in 0 .. pArr.cItems, NEW n \in 1 .. MaxQuantity, DeleteItems(u, n)
      PROVE  ArrayInv' /\ KeepsOrder
  <2>1. pArr # NULL /\ Leaves(DeleteElements(pArr, u, n), <<>>, DeletedSlots(pArr, u, n))
    BY <1>6 DEF DeleteItems
  <2>2. u \in Nat /\ n \in Nat /\ u <= pArr.cItems
    BY <1>1, <2>1, QuantityAssumption
  <2> QED
    BY <2>1, <2>2, Deleting
<1>7. ASSUME NEW u \in Nat, Add(u) PROVE ArrayInv' /\ KeepsOrder
  <2>1. pArr # NULL
    BY <1>7 DEF Add
  <2>2. PICK q \in Fresh(1) : Leaves(IndexToBottom(InsertElements(pArr, u, q)), q, <<>>)
    BY <1>7 DEF Add
  <2> QED
    BY <2>1, <2>2, Inserting
<1>8. CASE RemoveFromStack
  <2>1. /\ pArr # NULL /\ pArr.cItems > 0
        /\ Leaves(IndexToBottom(DeleteElements(pArr, pArr.cItems - 1, 1)), <<>>,
                  DeletedSlots(pArr, pArr.cItems - 1, 1))
    BY <1>8 DEF RemoveFromStack
  <2>2. PICK u \in Nat : u = pArr.cItems - 1 /\ u <= pArr.cItems
    BY <1>1, <2>1
  <2> QED
    BY <2>1, <2>2, Deleting
<1>9. CASE RemoveFromQueue
  <2>1. pArr # NULL
    BY <1>9 DEF RemoveFromQueue
  <2>2. CASE pArr.cItems > 0
    <3>1. Leaves(IndexToTop(DeleteElements(pArr, 0, 1)), <<>>, DeletedSlots(pArr, 0, 1))
      BY <1>9, <2>2 DEF RemoveFromQueue
    <3>2. 0 <= pArr.cItems
      BY <1>1, <2>1
    <3> QED
      BY <2>1, <3>1, <3>2, Deleting
  <2>3. CASE ~(pArr.cItems > 0)
    <3>1. Leaves(IndexToTop(pArr), <<>>, <<>>)
      BY <1>9, <2>3 DEF RemoveFromQueue
    <3> QED
      BY <1>1, <2>1, <3>1, IndexFacts, Indexing
  <2> QED
    BY <2>2, <2>3
<1>10. CASE MoveIndex
  <2>1. pArr # NULL
    BY <1>10 DEF MoveIndex
  <2>2. PICK a \in {IndexToTop(pArr), IndexToBottom(pArr),
                    [pArr EXCEPT !.uIndex = IF @ + 1 < pArr.cItems THEN @ + 1 ELSE @],
                    [pArr EXCEPT !.uIndex = IF @ > 0 THEN @ - 1 ELSE 0]} :
          Leaves(a, <<>>, <<>>)
    BY <1>10 DEF MoveIndex
  <2>3. PICK v \in Nat : v = IF pArr.uIndex + 1 < pArr.cItems THEN pArr.uIndex + 1 ELSE pArr.uIndex
    BY <1>1, <2>1
  <2>4. PICK x \in Nat : x = IF pArr.uIndex > 0 THEN pArr.uIndex - 1 ELSE 0
    BY <1>1, <2>1
  <2>5. \/ a \in {IndexToTop(pArr), IndexToBottom(pArr)}
        \/ a \in {[pArr EXCEPT !.uIndex = v], [pArr EXCEPT !.uIndex = x]}
    BY <1>1, <2>1, <2>2, <2>3, <2>4 DEF Arrays
  <2>6. ASSUME NEW k \in Nat, a = [pArr EXCEPT !.uIndex = k]
        PROVE  a \in Arrays /\ a.items = pArr.items /\ a.cItems = pArr.cItems
    BY <1>1, <2>1, <2>6 DEF Arrays
  <2>7. a \in Arrays /\ a.items = pArr.items /\ a.cItems = pArr.cItems
    BY <1>1, <2>1, <2>5, <2>6, IndexFacts
  <2> QED
    BY <2>1, <2>2, <2>7, Indexing
<1>11. ASSUME UNCHANGED arrayVars PROVE ArrayInv' /\ [KeepsOrder]_arrayVars
  BY <1>11 DEF arrayVars, ArrayInv, EndsOnce, Owns
<1>12. CASE ArrayNext
  <2>1. pArr # NULL /\ (Add(0) \/ Add(pArr.cItems)) => ArrayInv' /\ KeepsOrder
    BY <1>1, <1>7
  <2> QED
    BY <1>2, <1>3, <1>4, <1>5, <1>6, <1>8, <1>9, <1>10, <1>12, <2>1 DEF ArrayNext
<1> QED
  BY <1>11, <1>12

\* The first cItems slots are what a script sees of an array.
LEMMA OwningShows == ArrayInv => ArrayOwns
<1> SUFFICES ASSUME ArrayInv PROVE ArrayOwns
  OBVIOUS
<1>1. CASE pArr = NULL
  BY <1>1 DEF ArrayInv, ArrayOwns, EndsOnce
<1>2. CASE pArr # NULL
  <2>1. Owns(pArr, made) /\ made \subseteq Instances
    BY <1>2 DEF ArrayInv
  <2>2. PICK s \in Seq(Slots) : s = pArr.items
    BY <2>1, OwnsFacts
  <2>3. PICK c \in Nat : c = pArr.cItems /\ c <= Len(s) /\ Len(s) \in Nat
    BY <2>1, <2>2, OwnsFacts
  <2>4. PICK here : here = SubSeq(s, 1, c)
    OBVIOUS
  <2>5. DOMAIN here = 1 .. c /\ \A i \in 1 .. c : here[i] = s[i]
    <3>1. \A j \in 1 .. c : s[j] \in Slots
      BY <2>3, ElementOfSeq
    <3>2. /\ Len(here) = IF 1 <= c THEN c - 1 + 1 ELSE 0
          /\ \A j \in 1 .. c - 1 + 1 : here[j] = s[1 + j - 1]
          /\ here \in Seq(Slots)
      BY <2>4, <3>1, SubSeqProperties
    <3>3. Len(here) = c /\ c - 1 + 1 = c
      BY <2>3, <3>2
    <3>4. DOMAIN here = 1 .. c
      BY <3>2, <3>3, LenProperties
    <3> QED
      BY <3>2, <3>3, <3>4
  <2>6. /\ \A i, j \in 1 .. c : s[i] = s[j] => i = j
        /\ made = {s[i] : i \in 1 .. c}
    BY <2>1, <2>2, <2>3 DEF Owns, Part
  <2>7. \A i \in 1 .. c : s[i] # NULL
    BY <2>1, <2>6, InstancesAssumption
  <2>8. Held(here) = made
    BY <2>5, <2>6, <2>7 DEF Held, Husk
  <2>9. Cardinality(made) = c
    BY <2>6, Counted
  <2>10. \A i, j \in DOMAIN endings : endings[i] = endings[j] /\ endings[i] # Husk => i = j
    BY DEF ArrayInv, EndsOnce
  <2> QED
    BY <1>2, <2>2, <2>3, <2>4, <2>8, <2>9, <2>10 DEF ArrayOwns
<1> QED
  BY <1>1, <1>2

-----------------------------------------------------------------------------
(* Whatever commands a script gives to an array, in any order, every instance
   that teInitTypeInstance made for it is at one place of the array or was ended,
   and teFiniTypeInstance ends none twice within a command.  The array is given a
   new dimension only while its size is the one it was dimensioned with: the code
   of teArrayRedim, which goes by the old dimension, is wrong otherwise. *)
THEOREM OwnsItems ==
  ASSUME ~RedimAfterResize PROVE ArraySpec => []ArrayOwns
<1>1. ArrayInit => ArrayInv
  BY StartsOwning
<1>2. ArrayInv /\ [ArrayNext]_arrayVars => ArrayInv'
  BY StepKeeps
<1>3. ArrayInv => ArrayOwns
  BY OwningShows
<1> QED
  BY <1>1, <1>2, <1>3, PTL DEF ArraySpec

\* No command swaps two of the items that it keeps: teArrayRedim,
\* teArrayInsertElements and teArrayDeleteElements move them in the order they have.
THEOREM OrderKept ==
  ASSUME ~RedimAfterResize PROVE ArraySpec => ArrayKeepsOrder
<1>1. ArrayInit => ArrayInv
  BY StartsOwning
<1>2. ArrayInv /\ [ArrayNext]_arrayVars => ArrayInv' /\ [KeepsOrder]_arrayVars
  BY StepKeeps
<1> QED
  BY <1>1, <1>2, PTL DEF ArraySpec, ArrayKeepsOrder

-----------------------------------------------------------------------------
(* Starting and closing modules.                                            *)

Ascends(s) == \A i, j \in DOMAIN s : i < j => s[i] < s[j]
Descends(s) == \A i, j \in DOMAIN s : i < j => s[j] < s[i]

Erred == uModule \in Modules /\ inits[uModule] = "errors"

\* The modules up to top were started, and those closed are the last of them.
StartedTo(top) ==
  /\ \A m \in 1 .. top : inits[m] \in {"none", "succeeds"}
  /\ ToSet(started) = {m \in 1 .. top : inits[m] = "succeeds"}
  /\ startPc = "init" => top = uModule - 1 /\ ToSet(closed) = {}
  /\ startPc = "main" => top = ModuleCount /\ ToSet(closed) = {}
  /\ startPc \in {"rollback", "fini"} =>
       uModule <= top /\ ToSet(closed) = {m \in uModule + 1 .. top : finis[m]}
  /\ startPc = "pools" \/ (startPc = "exit" /\ ~Erred) =>
       ToSet(closed) = {m \in 1 .. top : finis[m]}
  /\ startPc = "exit" /\ Erred => ToSet(closed) = {}

StartInv ==
  /\ inits \in [Modules -> {"none", "succeeds", "fails", "errors"}]
  /\ finis \in [Modules -> BOOLEAN]
  /\ startPc \in {"init", "rollback", "main", "fini", "pools", "exit"}
  /\ uModule \in 0 .. ModuleCount + 1
  /\ started \in Seq(Modules) /\ closed \in Seq(Modules) /\ engineTypes \in Seq(Nat)
  /\ Ascends(started) /\ Descends(closed)
  /\ startPc = "pools" => uModule = 0
  /\ startPc \in {"pools", "exit"} \/ Len(engineTypes) >= 2
  /\ \E top \in 0 .. ModuleCount : StartedTo(top)

\* A sequence with another at its end.
LEMMA Appended ==
  ASSUME NEW s \in Seq(Modules), NEW e \in Modules
  PROVE  /\ Append(s, e) \in Seq(Modules)
         /\ ToSet(Append(s, e)) = ToSet(s) \cup {e}
         /\ Ascends(s) /\ (\A m \in ToSet(s) : m < e) => Ascends(Append(s, e))
         /\ Descends(s) /\ (\A m \in ToSet(s) : e < m) => Descends(Append(s, e))
<1>1. PICK t : t = Append(s, e)
  OBVIOUS
<1>2. PICK n \in Nat : n = Len(s) /\ DOMAIN s = 1 .. n
  BY LenProperties
<1>3. /\ t \in Seq(Modules) /\ DOMAIN t = 1 .. n + 1
      /\ \A i \in 1 .. n : t[i] = s[i]
      /\ t[n + 1] = e
  BY <1>1, <1>2, AppendProperties, LenProperties
<1>4. \A i \in 1 .. n + 1 : i \in 1 .. n \/ i = n + 1
  OBVIOUS
<1>5. ToSet(t) = ToSet(s) \cup {e}
  <2>1. \A i \in 1 .. n : i \in 1 .. n + 1
    OBVIOUS
  <2>2. n + 1 \in 1 .. n + 1
    OBVIOUS
  <2> QED
    BY <1>2, <1>3, <1>4, <2>1, <2>2, Zenon DEF ToSet
<1>6. \A i \in 1 .. n : t[i] \in ToSet(s)
  BY <1>2, <1>3 DEF ToSet
<1>7. \A i, j \in 1 .. n + 1 : i < j => i \in 1 .. n /\ (j \in 1 .. n \/ j = n + 1)
  OBVIOUS
<1>8. Ascends(s) /\ (\A m \in ToSet(s) : m < e) => Ascends(t)
  BY <1>2, <1>3, <1>6, <1>7 DEF Ascends
<1>9. Descends(s) /\ (\A m \in ToSet(s) : e < m) => Descends(t)
  BY <1>2, <1>3, <1>6, <1>7 DEF Descends
<1> QED
  BY <1>1, <1>3, <1>5, <1>8, <1>9

LEMMA NoneYet ==
  /\ <<>> \in Seq(Modules) /\ <<>> \in Seq(Nat) /\ ToSet(<<>>) = {}
  /\ Ascends(<<>>) /\ Descends(<<>>)
  BY DEF ToSet, Ascends, Descends

LEMMA EnginePools ==
  ASSUME NEW p \in Seq(Nat), NEW owner \in Nat
  PROVE  /\ AllocEnginePool(p, owner) \in Seq(Nat)
         /\ Len(AllocEnginePool(p, owner)) >= Len(p)
         /\ Len(p) # MaxEngineTypes => Len(AllocEnginePool(p, owner)) = Len(p) + 1
  BY AppendProperties, LenProperties DEF AllocEnginePool

LEMMA StartsNone == StartInit => StartInv
<1> SUFFICES ASSUME StartInit PROVE StartInv
  OBVIOUS
<1>1. ModuleCount \in Nat /\ MaxEngineTypes \in Nat /\ MaxEngineTypes >= 2
  BY EngineTypesAssumption
<1>2. engineTypes \in Seq(Nat) /\ Len(engineTypes) >= 2
  <2>1. PICK e \in Seq(Nat) : e = <<>> /\ Len(e) = 0
    BY EmptySeq
  <2>2. PICK p : p = AllocEnginePool(e, 0)
    OBVIOUS
  <2>3. p \in Seq(Nat) /\ Len(p) = 1
    <3>1. Len(e) # MaxEngineTypes /\ 0 \in Nat
      BY <1>1, <2>1
    <3>2. p \in Seq(Nat) /\ Len(p) = Len(e) + 1
      BY <2>2, <3>1, EnginePools, Zenon
    <3> QED
      BY <2>1, <3>2
  <2>4. engineTypes = AllocEnginePool(p, 0)
    BY <2>1, <2>2 DEF StartInit
  <2>5. engineTypes \in Seq(Nat) /\ Len(engineTypes) = 2
    <3>1. Len(p) # MaxEngineTypes /\ 0 \in Nat
      BY <1>1, <2>3
    <3>2. engineTypes \in Seq(Nat) /\ Len(engineTypes) = Len(p) + 1
      BY <2>3, <2>4, <3>1, EnginePools, Zenon
    <3> QED
      BY <2>3, <3>2
  <2> QED
    BY <2>5
<1>3. StartedTo(0)
  BY NoneYet DEF StartInit, StartedTo
<1>4. 0 \in 0 .. ModuleCount /\ 1 \in 0 .. ModuleCount + 1
  BY <1>1
<1> QED
  BY <1>2, <1>3, <1>4, NoneYet DEF StartInit, StartInv

LEMMA StartKeeps == StartInv /\ [StartNext]_startVars => StartInv'
<1> SUFFICES ASSUME StartInv, [StartNext]_startVars PROVE StartInv'
  OBVIOUS
<1>1. ModuleCount \in Nat /\ MaxEngineTypes \in Nat
  BY EngineTypesAssumption
<1>2. PICK top \in 0 .. ModuleCount : StartedTo(top)
  BY DEF StartInv
<1>3. uModule \in Nat /\ top \in Nat /\ top <= ModuleCount
  BY <1>1, <1>2 DEF StartInv
<1>4. ASSUME InitModule PROVE StartInv'
  <2>1. /\ startPc = "init" /\ uModule \in Modules /\ top = uModule - 1
        /\ ToSet(closed) = {} /\ UNCHANGED <<inits, finis, closed>>
    BY <1>2, <1>4 DEF InitModule, StartedTo
  <2>2. engineTypes' \in Seq(Nat) /\ Len(engineTypes') >= 2
    <3>1. engineTypes \in Seq(Nat) /\ Len(engineTypes) >= 2 /\ Len(engineTypes) \in Nat
      BY <2>1, LenProperties DEF StartInv
    <3>2. engineTypes' \in {engineTypes, AllocEnginePool(engineTypes, uModule)}
      BY <1>4 DEF InitModule
    <3>3. PICK p : p = AllocEnginePool(engineTypes, uModule)
      OBVIOUS
    <3>4. p \in Seq(Nat) /\ Len(p) >= Len(engineTypes) /\ Len(p) \in Nat
      BY <1>3, <3>1, <3>3, EnginePools, LenProperties
    <3> QED
      BY <3>1, <3>2, <3>3, <3>4
  <2>3. /\ uModule + 1 \in 0 .. ModuleCount + 1 /\ uModule - 1 \in 0 .. ModuleCount + 1
        /\ uModule \in 0 .. ModuleCount /\ uModule + 1 - 1 = uModule
        /\ 1 .. uModule = (1 .. top) \cup {uModule} /\ uModule \notin 1 .. top
    BY <1>1, <1>2, <2>1 DEF Modules
  <2>8. PICK next \in 0 .. ModuleCount : next = uModule
    BY <2>3
  <2>4. CASE inits[uModule] = "none"
    <3>1. uModule' = uModule + 1 /\ UNCHANGED <<startPc, started>>
      BY <1>4, <2>4 DEF InitModule
    <3>2. StartedTo(next)'
      BY <1>2, <2>1, <2>3, <2>4, <2>8, <3>1 DEF StartedTo
    <3> QED
      BY <2>1, <2>2, <2>3, <3>1, <3>2 DEF StartInv
  <2>5. CASE inits[uModule] = "succeeds"
    <3>1. uModule' = uModule + 1 /\ started' = Append(started, uModule) /\ UNCHANGED startPc
      BY <1>4, <2>5 DEF InitModule
    <3>2. \A m \in ToSet(started) : m < uModule
      BY <1>2, <2>1, <2>3 DEF StartedTo
    <3>3. /\ started' \in Seq(Modules) /\ ToSet(started') = ToSet(started) \cup {uModule}
          /\ Ascends(started')
      BY <2>1, <3>1, <3>2, Appended DEF StartInv
    <3>4. StartedTo(next)'
      <4>1. ToSet(started') = {m \in 1 .. uModule : inits[m] = "succeeds"}
        BY <1>2, <2>3, <2>5, <3>3 DEF StartedTo
      <4> QED
        BY <1>2, <2>1, <2>3, <2>5, <2>8, <3>1, <4>1 DEF StartedTo
    <3> QED
      BY <2>1, <2>2, <2>3, <3>1, <3>3, <3>4 DEF StartInv
  <2>6. CASE inits[uModule] = "fails"
    <3>1. startPc' = "rollback" /\ uModule' = uModule - 1 /\ UNCHANGED started
      BY <1>4, <2>6 DEF InitModule
    <3>2. StartedTo(top)'
      <4>1. \A m \in uModule' + 1 .. top : FALSE
        BY <1>3, <2>1, <3>1
      <4> QED
        BY <1>2, <1>3, <2>1, <3>1, <4>1 DEF StartedTo
    <3> QED
      BY <1>2, <2>1, <2>2, <2>3, <3>1, <3>2 DEF StartInv
  <2>7. CASE inits[uModule] = "errors"
    <3>1. startPc' = "exit" /\ UNCHANGED <<uModule, started>>
      BY <1>4, <2>7 DEF InitModule
    <3>2. StartedTo(top)'
      BY <1>2, <2>1, <2>7, <3>1 DEF StartedTo, Erred
    <3> QED
      BY <1>2, <2>1, <2>2, <3>1, <3>2 DEF StartInv
  <2> QED
    BY <2>1, <2>4, <2>5, <2>6, <2>7 DEF StartInv
<1>5. ASSUME EnterMain PROVE StartInv'
  <2>1. /\ startPc = "init" /\ uModule > ModuleCount /\ startPc' = "main"
        /\ UNCHANGED <<inits, finis, uModule, started, closed, engineTypes>>
    BY <1>5 DEF EnterMain
  <2>2. top = ModuleCount
    BY <1>1, <1>2, <1>3, <2>1 DEF StartedTo
  <2>3. StartedTo(top)'
    BY <1>2, <2>1, <2>2 DEF StartedTo
  <2> QED
    BY <1>2, <2>1, <2>3 DEF StartInv
<1>6. ASSUME LeaveMain PROVE StartInv'
  <2>1. /\ startPc = "main" /\ startPc' = "fini" /\ uModule' = ModuleCount
        /\ UNCHANGED <<inits, finis, started, closed, engineTypes>>
    BY <1>6 DEF LeaveMain
  <2>2. top = ModuleCount /\ ToSet(closed) = {}
    BY <1>2, <2>1 DEF StartedTo
  <2>3. \A m \in uModule' + 1 .. top : FALSE
    BY <1>3, <2>1, <2>2
  <2>4. StartedTo(top)'
    BY <1>2, <1>3, <2>1, <2>2, <2>3 DEF StartedTo
  <2>5. uModule' \in 0 .. ModuleCount + 1
    BY <1>1, <2>1
  <2> QED
    BY <1>2, <2>1, <2>4, <2>5 DEF StartInv
<1>7. ASSUME CloseModule PROVE StartInv'
  <2>1. /\ startPc \in {"rollback", "fini"} /\ uModule > 0 /\ uModule' = uModule - 1
        /\ closed' = IF finis[uModule] THEN Append(closed, uModule) ELSE closed
        /\ UNCHANGED <<inits, finis, startPc, started, engineTypes>>
    BY <1>7 DEF CloseModule
  <2>2. uModule <= top /\ ToSet(closed) = {m \in uModule + 1 .. top : finis[m]}
    BY <1>2, <2>1 DEF StartedTo
  <2>3. /\ uModule \in Modules /\ uModule' \in 0 .. ModuleCount + 1 /\ uModule' <= top
        /\ uModule' + 1 .. top = (uModule + 1 .. top) \cup {uModule}
    BY <1>1, <1>3, <2>1, <2>2 DEF Modules
  <2>4. \A m \in ToSet(closed) : uModule < m
    BY <1>3, <2>2
  <2>5. /\ closed' \in Seq(Modules) /\ Descends(closed')
        /\ ToSet(closed') = IF finis[uModule] THEN ToSet(closed) \cup {uModule} ELSE ToSet(closed)
    BY <2>1, <2>3, <2>4, Appended DEF StartInv
  <2>6. ToSet(closed') = {m \in uModule' + 1 .. top : finis[m]}
    BY <2>2, <2>3, <2>5
  <2>7. StartedTo(top)'
    BY <1>2, <2>1, <2>3, <2>6 DEF StartedTo
  <2> QED
    BY <1>2, <2>1, <2>3, <2>5, <2>7 DEF StartInv
<1>8. ASSUME ModulesClosed PROVE StartInv'
  <2>1. /\ startPc \in {"rollback", "fini"} /\ uModule = 0 /\ startPc' \in {"exit", "pools"}
        /\ UNCHANGED <<inits, finis, uModule, started, closed, engineTypes>>
    BY <1>8 DEF ModulesClosed
  <2>2. ToSet(closed) = {m \in 1 .. top : finis[m]}
    BY <1>2, <2>1 DEF StartedTo
  <2>3. StartedTo(top)'
    BY <1>2, <2>1, <2>2 DEF StartedTo, Erred, Modules
  <2> QED
    BY <1>2, <2>1, <2>3 DEF StartInv
<1>9. ASSUME FiniEnginePool PROVE StartInv'
  <2>1. /\ startPc = "pools" /\ startPc' \in {"pools", "exit"} /\ uModule = 0
        /\ UNCHANGED <<inits, finis, uModule, started, closed>>
    BY <1>9 DEF FiniEnginePool, StartInv
  <2>2. engineTypes' \in Seq(Nat)
    <3>1. engineTypes \in Seq(Nat)
      BY DEF StartInv
    <3>2. CASE engineTypes = <<>>
      BY <1>9, <3>1, <3>2 DEF FiniEnginePool
    <3>3. CASE engineTypes # <<>>
      <4>1. engineTypes' = SubSeq(engineTypes, 1, Len(engineTypes) - 1)
        BY <1>9, <3>3 DEF FiniEnginePool, Front
      <4> QED
        BY <3>1, <4>1, LenProperties, SubSeqProperties, ElementOfSeq
    <3> QED
      BY <3>2, <3>3
  <2>3. StartedTo(top)'
    BY <1>2, <2>1 DEF StartedTo, Erred, Modules
  <2> QED
    BY <1>2, <2>1, <2>2, <2>3 DEF StartInv
<1>10. CASE UNCHANGED startVars
  BY <1>2, <1>10 DEF startVars, StartInv, StartedTo, Erred, Modules
<1> QED
  BY <1>4, <1>5, <1>6, <1>7, <1>8, <1>9, <1>10 DEF StartNext

LEMMA ClosingShows == StartInv => ClosedInReverse
<1> SUFFICES ASSUME StartInv PROVE ClosedInReverse
  OBVIOUS
<1>1. ModuleCount \in Nat
  BY EngineTypesAssumption
<1>2. PICK top \in 0 .. ModuleCount : StartedTo(top)
  BY DEF StartInv
<1>3. ASSUME startPc = "exit", ~Erred, NEW m \in Modules, inits[m] # "none"
      PROVE  m \in ToSet(closed) <=> m \in ToSet(started) /\ finis[m]
  BY <1>2, <1>3 DEF StartedTo
<1>4. ASSUME NEW m \in Modules, NEW n \in Modules, Precedes(closed, m, n)
      PROVE  m # n /\ ({m, n} \subseteq ToSet(started) => Precedes(started, n, m))
  <2>1. m \in Nat /\ n \in Nat
    BY <1>1 DEF Modules
  <2>2. n < m
    BY <1>4 DEF Precedes, StartInv, Descends
  <2>3. ASSUME {m, n} \subseteq ToSet(started) PROVE Precedes(started, n, m)
    <3>1. PICK i, j \in DOMAIN started : started[i] = n /\ started[j] = m
      BY <2>3 DEF ToSet
    <3>2. i \in Nat /\ j \in Nat
      BY <3>1, LenProperties DEF StartInv
    <3>3. i # j
      BY <2>1, <2>2, <3>1
    <3>4. ~(j < i)
      BY <2>1, <2>2, <3>1 DEF StartInv, Ascends
    <3>5. i < j
      BY <3>2, <3>3, <3>4
    <3> QED
      BY <3>1, <3>5 DEF Precedes
  <2> QED
    BY <2>1, <2>2, <2>3
<1>5. ASSUME startPc = "pools", NEW m \in ToSet(started), finis[m] PROVE m \in ToSet(closed)
  <2>1. /\ ToSet(closed) = {k \in 1 .. top : finis[k]}
        /\ ToSet(started) = {k \in 1 .. top : inits[k] = "succeeds"}
    BY <1>2, <1>5 DEF StartedTo
  <2> QED
    BY <1>5, <2>1
<1>6. Len(engineTypes) < 2 => startPc \in {"pools", "exit"}
  BY LenProperties DEF StartInv
<1> QED
  BY <1>3, <1>4, <1>5, <1>6 DEF ClosedInReverse, Erred

\* A program that starts and ends as it should closes the modules that it started, and
\* those only, in the reverse order, however many there are.
THEOREM ClosesInReverse == StartSpec => []ClosedInReverse
<1>1. StartInit => StartInv
  BY StartsNone
<1>2. StartInv /\ [StartNext]_startVars => StartInv'
  BY StartKeeps
<1>3. StartInv => ClosedInReverse
  BY ClosingShows
<1> QED
  BY <1>1, <1>2, <1>3, PTL DEF StartSpec

-----------------------------------------------------------------------------
(* Objects and their numbers.                                               *)

\* The number of an object is that of slot i; so that no object is in two slots.
Placed(o, i) == held[o] # NULL /\ Slot(held[o]) = i

PoolTyped ==
  /\ ppObjects \in [PoolSlots -> Objects \cup {NULL, RESERVED}]
  /\ cCapacity \in Nat /\ pAges \in Int /\ deallocs \in Nat /\ grown \in 0 .. 2 /\ safe \in BOOLEAN
  /\ held \in [Objects -> ObjectNumbers \cup {NULL}] /\ stale \subseteq ObjectNumbers
  /\ \A o \in Objects : held[o] # NULL => Slot(held[o]) \in PoolSlots
  /\ \A h \in stale : Slot(h) \in PoolSlots
  /\ safe => (\A o \in Objects : held[o] # NULL => held[o].pool = Pool) /\ \A h \in stale : h.pool = Pool

\* The slots lead to objects whose numbers lead to the slots, and until the table grows for a
\* second time every object has a slot.
Located ==
  /\ \A i \in PoolSlots : ppObjects[i] \in Objects => Placed(ppObjects[i], i)
  /\ poolPc = "up" /\ grown <= 1 =>
       \A o \in Objects : held[o] # NULL =>
         ppObjects[Slot(held[o])] = o /\ Slot(held[o]) < cCapacity
  /\ poolPc = "up" /\ grown = 0 => cCapacity = 0

\* While every deallocation was in one slot, the word of ages holds their number there.
Counting == safe /\ deallocs < 2^AgeBits /\ \A h, g \in stale : h.index = g.index

AgesCount ==
  Counting =>
    /\ stale = {} => deallocs = 0 /\ pAges = 0 /\ \A o \in Objects : held[o] # NULL => held[o].age = 0
    /\ \A h \in stale :
         /\ pAges = deallocs * 2^Slot(h) /\ h.age < deallocs
         /\ \A o \in Objects : held[o] # NULL /\ held[o].index = h.index => held[o].age <= deallocs

PoolInv == PoolTyped /\ Located /\ AgesCount /\ FiniFreesAll

LEMMA Quotient ==
  ASSUME NEW d \in Nat, NEW P \in Nat \ {0}
  PROVE  (d * P) \div P = d
<1>1. PICK q : q = (d * P) \div P
  OBVIOUS
<1>2. d * P \in Nat
  OBVIOUS
<1>3. q \in Int /\ P * q <= d * P /\ d * P < P * q + P
  BY <1>1, <1>2
<1>4. ~(q < d)
  <2>1. SUFFICES ASSUME q + 1 <= d PROVE FALSE
    BY <1>3
  <2>2. P * (q + 1) <= P * d
    BY <1>3, <2>1
  <2>3. P * (q + 1) = P * q + P /\ P * d = d * P
    BY <1>3
  <2> QED
    BY <1>3, <2>2, <2>3
<1>5. ~(d < q)
  <2>1. SUFFICES ASSUME d + 1 <= q PROVE FALSE
    BY <1>3
  <2>2. P * (d + 1) <= P * q
    BY <1>3, <2>1
  <2>3. P * (d + 1) = P * d + P /\ P * d = d * P
    OBVIOUS
  <2> QED
    BY <1>3, <2>2, <2>3
<1> QED
  BY <1>1, <1>3, <1>4, <1>5

LEMMA Shifts ==
  /\ 2^AgeBits \in Nat \ {0} /\ \A i \in PoolSlots : 2^i \in Nat \ {0} /\ i \in Nat
<1>1. LastSlot \in Nat /\ AgeBits \in Nat
  BY PoolAssumption
<1>2. AgeBits \in 0 .. LastSlot + AgeBits /\ \A i \in PoolSlots : i \in 0 .. LastSlot + AgeBits /\ i \in Nat
  BY <1>1 DEF PoolSlots
<1> QED
  BY <1>2, ShiftsAssumption

LEMMA AgesAre ==
  ASSUME pAges \in Int, NEW i \in PoolSlots
  PROVE  /\ Age(i) \in Nat /\ Aged(i) \in Int /\ i + 1 \in Nat
         /\ Wrap(i) \in ObjectNumbers /\ Wrap(i) # NULL /\ Slot(Wrap(i)) = i
         /\ Wrap(i).index = i + 1 /\ (safe => Wrap(i).pool = Pool /\ Wrap(i).age = Age(i))
<1>1. PICK P \in Nat \ {0} : P = 2^i
  BY Shifts
<1>2. PICK M \in Nat \ {0} : M = 2^AgeBits
  BY Shifts
<1>3. Age(i) = (pAges \div P) % M /\ (pAges \div P) \in Int
  BY <1>1, <1>2 DEF Age
<1>4. Age(i) \in Nat /\ ((Age(i) + 1) % M) \in Nat
  BY <1>2, <1>3
<1>5. Aged(i) = pAges - Age(i) * P + ((Age(i) + 1) % M) * P
  BY <1>1, <1>2 DEF Aged
<1>6. Age(i) * P \in Int /\ ((Age(i) + 1) % M) * P \in Int
  BY <1>1, <1>4
<1>7. Aged(i) \in Int
  BY <1>5, <1>6
<1>8. i \in Nat /\ i + 1 \in Nat /\ i + 1 - 1 = i
  BY Shifts
<1>9. Pool \in Nat /\ NULL \notin ObjectNumbers
  BY PoolAssumption
<1>10. Wrap(i) \in ObjectNumbers
  BY <1>4, <1>8, <1>9 DEF Wrap, ObjectNumbers
<1> QED
  BY <1>4, <1>7, <1>8, <1>9, <1>10 DEF Wrap, Slot

LEMMA AgesAt ==
  ASSUME NEW d \in Nat, NEW i \in PoolSlots, pAges = d * 2^i, d < 2^AgeBits
  PROVE  /\ pAges \div 2^i = d /\ Age(i) = d
         /\ d + 1 < 2^AgeBits => Aged(i) = (d + 1) * 2^i
<1>1. PICK P \in Nat \ {0} : P = 2^i
  BY Shifts
<1>2. PICK M \in Nat \ {0} : M = 2^AgeBits
  BY Shifts
<1>3. pAges \div P = d /\ pAges = d * P
  BY <1>1, Quotient
<1>4. d % M = d
  BY <1>2
<1>5. Age(i) = d
  BY <1>1, <1>2, <1>3, <1>4 DEF Age
<1>6. ASSUME d + 1 < M PROVE Aged(i) = (d + 1) * P
  <2>1. (d + 1) % M = d + 1
    BY <1>6
  <2>2. Aged(i) = pAges - d * P + (d + 1) * P
    BY <1>1, <1>2, <1>5, <2>1 DEF Aged
  <2>3. d * P \in Int /\ (d + 1) * P \in Int
    BY <1>1
  <2> QED
    BY <1>3, <2>2, <2>3
<1> QED
  BY <1>1, <1>2, <1>3, <1>5, <1>6

\* The table once there is room for slot i.
LEMMA Rooms ==
  ASSUME PoolTyped, poolPc = "up", Located, NEW i \in PoolSlots, NEW r, r = Room(i)
  PROVE  /\ r.table \in [PoolSlots -> Objects \cup {NULL, RESERVED}]
         /\ \A s \in PoolSlots : r.table[s] \in {ppObjects[s], NULL}
         /\ r.capacity \in Nat /\ r.grown \in 1 .. 2 /\ (r.grown <= 1 => i < r.capacity)
         /\ r.grown <= 1 =>
              \/ r.table = ppObjects /\ r.capacity = cCapacity /\ grown <= 1
              \/ grown = 0 /\ \A o \in Objects : held[o] = NULL
         /\ i >= cCapacity => r.table[i] = NULL
<1>1. i \in Nat /\ kGrain \in Nat \ {0} /\ cCapacity \in Nat /\ grown \in 0 .. 2
  BY PoolAssumption, Shifts DEF PoolTyped
<1>2. CASE i < cCapacity
  <2>1. /\ r.table = ppObjects /\ r.capacity = cCapacity /\ r.grown = grown
    BY <1>2 DEF Room
  <2>2. grown # 0
    BY <1>1, <1>2 DEF Located
  <2> QED
    BY <1>1, <1>2, <2>1, <2>2 DEF PoolTyped
<1>3. CASE ~(i < cCapacity)
  <2>1. /\ r.table = [s \in PoolSlots |-> IF s >= cCapacity THEN NULL ELSE ppObjects[s]]
        /\ r.capacity = NewCapacity(i) - cCapacity /\ r.grown = MoreGrown
    BY <1>3 DEF Room
  <2>2. PICK q \in Int : q = i \div kGrain
    BY <1>1
  <2>3. i < (q + 1) * kGrain /\ (q + 1) * kGrain \in Int
    <3>1. i < kGrain * q + kGrain
      BY <1>1, <2>2
    <3>2. (q + 1) * kGrain = kGrain * q + kGrain
      BY <1>1
    <3> QED
      BY <1>1, <3>1, <3>2
  <2>4. NewCapacity(i) \in Int /\ i < NewCapacity(i)
    BY <2>2, <2>3 DEF NewCapacity
  <2>5. r.capacity \in Nat /\ r.grown \in 1 .. 2 /\ (r.grown <= 1 => grown = 0)
    BY <1>1, <1>3, <2>1, <2>4 DEF MoreGrown
  <2>6. ASSUME grown = 0, NEW o \in Objects PROVE held[o] = NULL
    <3>1. cCapacity = 0 /\ (held[o] # NULL => Slot(held[o]) < cCapacity /\ Slot(held[o]) \in PoolSlots)
      BY <1>1, <2>6 DEF Located, PoolTyped
    <3> QED
      BY <3>1, Shifts
  <2>7. r.table \in [PoolSlots -> Objects \cup {NULL, RESERVED}] /\ r.table[i] = NULL
        /\ \A s \in PoolSlots : r.table[s] \in {ppObjects[s], NULL}
    BY <1>1, <1>3, <2>1 DEF PoolTyped
  <2>8. ASSUME r.grown <= 1 PROVE i < r.capacity
    <3>1. cCapacity = 0
      BY <2>5, <2>8 DEF Located
    <3> QED
      BY <1>1, <2>1, <2>4, <3>1
  <2> QED
    BY <1>3, <2>1, <2>5, <2>6, <2>7, <2>8
<1> QED
  BY <1>2, <1>3

LEMMA PoolStarts == PoolInit => PoolInv
<1>1. LastSlot \in Nat /\ 2^AgeBits \in Nat \ {0} /\ NULL \notin Objects
  BY PoolAssumption, Shifts
<1> SUFFICES ASSUME PoolInit PROVE PoolInv
  OBVIOUS
<1>2. /\ ppObjects = [i \in PoolSlots |-> NULL] /\ held = [o \in Objects |-> NULL]
      /\ cCapacity = 0 /\ pAges = 0 /\ safe \in BOOLEAN /\ poolPc = "up"
      /\ stale = {} /\ lost = {} /\ grown = 0 /\ deallocs = 0
  BY DEF PoolInit
<1>3. (\A o \in Objects : held[o] = NULL) /\ \A i \in PoolSlots : ppObjects[i] = NULL
  BY <1>2
<1>4. PoolTyped
  BY <1>2, <1>3 DEF PoolTyped
<1>5. Located
  BY <1>1, <1>2, <1>3 DEF Located
<1>6. AgesCount
  BY <1>2, <1>3 DEF AgesCount
<1>7. FiniFreesAll
  BY <1>2 DEF FiniFreesAll
<1> QED
  BY <1>4, <1>5, <1>6, <1>7 DEF PoolInv

LEMMA Allocating ==
  ASSUME PoolInv, poolPc = "up", NEW i \in PoolSlots, AllocIn(i, {Room(i).table[i]} \cap Objects)
  PROVE  PoolInv'
<1> DEFINE r == Room(i)
           replaced == {r.table[i]} \cap Objects
<1>1. PICK o \in {p \in Objects : held[p] = NULL /\ p \notin lost} \cup {NULL} :
        /\ ppObjects' = [r.table EXCEPT ![i] = o]
        /\ held' = [p \in Objects |->
                      IF p = o THEN Wrap(i) ELSE IF p \in replaced THEN NULL ELSE held[p]]
  BY DEF AllocIn
<1>2. cCapacity' = r.capacity /\ grown' = r.grown /\ UNCHANGED <<pAges, safe, poolPc, stale, deallocs>>
  BY DEF AllocIn
<1>3. /\ r.table \in [PoolSlots -> Objects \cup {NULL, RESERVED}]
      /\ \A s \in PoolSlots : r.table[s] \in {ppObjects[s], NULL}
      /\ r.capacity \in Nat /\ r.grown \in 1 .. 2 /\ (r.grown <= 1 => i < r.capacity)
      /\ r.grown <= 1 =>
           \/ r.table = ppObjects /\ r.capacity = cCapacity /\ grown <= 1
           \/ grown = 0 /\ \A p \in Objects : held[p] = NULL
  BY Rooms DEF PoolInv
<1>4. /\ Age(i) \in Nat /\ i + 1 \in Nat /\ Wrap(i) \in ObjectNumbers /\ Wrap(i) # NULL /\ Slot(Wrap(i)) = i
      /\ Wrap(i).index = i + 1 /\ (safe => Wrap(i).pool = Pool /\ Wrap(i).age = Age(i))
  BY AgesAre DEF PoolInv, PoolTyped
<1>5. NULL # RESERVED /\ NULL \notin Objects /\ RESERVED \notin Objects /\ NULL \notin ObjectNumbers
  BY PoolAssumption
<1> HIDE DEF r
<1>6. o \in Objects \cup {NULL} /\ (o \in Objects => held[o] = NULL)
  BY <1>5
<1>7. /\ ppObjects'[i] = o /\ \A s \in PoolSlots : s # i => ppObjects'[s] = r.table[s]
      /\ ppObjects' \in [PoolSlots -> Objects \cup {NULL, RESERVED}]
  BY <1>1, <1>3
<1>8. ASSUME NEW p \in Objects
      PROVE  held'[p] = IF p = o THEN Wrap(i) ELSE IF p = r.table[i] THEN NULL ELSE held[p]
  BY <1>1
<1>9. \A p \in Objects : r.table[i] = p => ppObjects[i] = p
  BY <1>3, <1>5
<1>10. PoolTyped'
  <2>1. held' \in [Objects -> ObjectNumbers \cup {NULL}]
    BY <1>1, <1>4 DEF PoolInv, PoolTyped
  <2>2. \A p \in Objects : held'[p] # NULL => Slot(held'[p]) \in PoolSlots
    BY <1>4, <1>8 DEF PoolInv, PoolTyped
  <2>3. safe => \A p \in Objects : held'[p] # NULL => held'[p].pool = Pool
    BY <1>4, <1>8 DEF PoolInv, PoolTyped
  <2>4. grown' \in 0 .. 2 /\ cCapacity' \in Nat
    BY <1>2, <1>3
  <2> QED
    BY <1>2, <1>7, <2>1, <2>2, <2>3, <2>4 DEF PoolInv, PoolTyped, Slot
<1>11. Located'
  <2>1. ASSUME NEW s \in PoolSlots, ppObjects'[s] \in Objects PROVE Placed(ppObjects[s], s)'
    <3>1. CASE s = i
      BY <1>4, <1>7, <1>8, <2>1, <3>1 DEF Placed, Slot
    <3>2. CASE s # i
      <4>1. PICK q \in Objects : q = ppObjects'[s]
        BY <2>1
      <4>2. q = ppObjects[s]
        BY <1>3, <1>5, <1>7, <3>2, <4>1
      <4>3. held[q] # NULL /\ Slot(held[q]) = s
        BY <4>2 DEF PoolInv, Located, Placed
      <4>4. q # o /\ q # r.table[i]
        <5>1. ASSUME q = r.table[i] PROVE Slot(held[q]) = i
          BY <1>9, <5>1 DEF PoolInv, Located, Placed
        <5> QED
          BY <1>6, <3>2, <4>3, <5>1
      <4>5. held'[q] = held[q]
        BY <1>8, <4>4
      <4> QED
        BY <4>1, <4>3, <4>5 DEF Placed, Slot
    <3> QED
      BY <3>1, <3>2
  <2>2. ASSUME grown' <= 1, NEW p \in Objects, held'[p] # NULL
        PROVE  ppObjects'[Slot(held'[p])] = p /\ Slot(held'[p]) < cCapacity'
    <3>1. CASE p = o
      BY <1>2, <1>3, <1>4, <1>7, <1>8, <2>2, <3>1
    <3>2. CASE p # o
      <4>1. held'[p] = held[p] /\ held[p] # NULL /\ p # r.table[i]
        BY <1>8, <2>2, <3>2
      <4>2. r.table = ppObjects /\ r.capacity = cCapacity /\ grown <= 1
        BY <1>2, <1>3, <2>2, <4>1
      <4>3. ppObjects[Slot(held[p])] = p /\ Slot(held[p]) < cCapacity /\ Slot(held[p]) \in PoolSlots
        BY <4>1, <4>2 DEF PoolInv, Located, PoolTyped
      <4>4. Slot(held[p]) # i
        BY <4>1, <4>2, <4>3
      <4> QED
        BY <1>2, <1>7, <4>1, <4>2, <4>3, <4>4
    <3> QED
      BY <3>1, <3>2
  <2>3. grown' # 0
    BY <1>2, <1>3
  <2> QED
    BY <2>1, <2>2, <2>3 DEF Located, Slot
<1>12. AgesCount'
  <2>1. SUFFICES ASSUME Counting' PROVE AgesCount'
    BY DEF AgesCount
  <2>2. Counting /\ safe
    BY <1>2, <2>1 DEF Counting
  <2>3. /\ stale = {} => deallocs = 0 /\ pAges = 0 /\ \A p \in Objects : held[p] # NULL => held[p].age = 0
        /\ \A h \in stale :
             /\ pAges = deallocs * 2^Slot(h) /\ h.age < deallocs
             /\ \A p \in Objects : held[p] # NULL /\ held[p].index = h.index => held[p].age <= deallocs
    BY <2>2 DEF PoolInv, AgesCount
  <2>4. deallocs \in Nat /\ deallocs < 2^AgeBits /\ \A h \in stale : h \in ObjectNumbers
    BY <2>2 DEF PoolInv, PoolTyped, Counting
  <2>5. ASSUME stale = {}, NEW p \in Objects, held'[p] # NULL PROVE held'[p].age = 0
    <3>1. pAges = 0 * 2^i /\ 0 \in Nat /\ 0 < 2^AgeBits
      BY <2>3, <2>5, Shifts
    <3>2. Age(i) = 0
      BY <3>1, AgesAt
    <3> QED
      BY <1>4, <1>8, <2>2, <2>3, <2>5, <3>2
  <2>6. ASSUME NEW h \in stale, NEW p \in Objects, held'[p] # NULL, held'[p].index = h.index
        PROVE  held'[p].age <= deallocs
    <3>1. CASE p = o
      <4>1. held'[p] = Wrap(i) /\ h.index = i + 1 /\ i \in Nat
        BY <1>4, <1>8, <2>6, <3>1, Shifts
      <4>2. Slot(h) = i
        BY <2>4, <4>1 DEF Slot
      <4>3. Age(i) = deallocs
        BY <2>3, <2>4, <4>2, AgesAt
      <4> QED
        BY <1>4, <2>2, <2>4, <4>1, <4>3
    <3>2. CASE p # o
      BY <1>8, <2>3, <2>6, <3>2
    <3> QED
      BY <3>1, <3>2
  <2> QED
    BY <1>2, <2>3, <2>5, <2>6 DEF AgesCount, Slot
<1>13. FiniFreesAll'
  BY <1>2 DEF FiniFreesAll
<1> QED
  BY <1>10, <1>11, <1>12, <1>13 DEF PoolInv

LEMMA Reserving == ASSUME PoolInv, Reserve PROVE PoolInv'
<1>1. poolPc = "up" /\ UNCHANGED <<pAges, safe, poolPc, held, stale, lost, deallocs>>
  BY DEF Reserve
<1>2. PICK first, end \in PoolSlots :
        /\ ppObjects' = [s \in PoolSlots |->
                           IF s \in first .. end - 1 /\ Room(end).table[s] = NULL
                             THEN RESERVED ELSE Room(end).table[s]]
        /\ cCapacity' = Room(end).capacity
        /\ grown' = Room(end).grown
  BY DEF Reserve
<1>3. PICK r : r = Room(end)
  OBVIOUS
<1>4. /\ r.table \in [PoolSlots -> Objects \cup {NULL, RESERVED}]
      /\ \A s \in PoolSlots : r.table[s] \in {ppObjects[s], NULL}
      /\ r.capacity \in Nat /\ r.grown \in 1 .. 2
      /\ r.grown <= 1 =>
           \/ r.table = ppObjects /\ r.capacity = cCapacity /\ grown <= 1
           \/ grown = 0 /\ \A p \in Objects : held[p] = NULL
  BY <1>1, <1>3, Rooms DEF PoolInv
<1>5. NULL # RESERVED /\ NULL \notin Objects /\ RESERVED \notin Objects
  BY PoolAssumption
<1>6. /\ ppObjects' \in [PoolSlots -> Objects \cup {NULL, RESERVED}]
      /\ \A s \in PoolSlots : ppObjects'[s] \in {r.table[s], RESERVED}
      /\ \A s \in PoolSlots : r.table[s] # NULL => ppObjects'[s] = r.table[s]
  BY <1>2, <1>3, <1>4
<1>7. PoolTyped'
  <2>1. grown' \in 0 .. 2 /\ cCapacity' \in Nat
    BY <1>2, <1>3, <1>4
  <2> QED
    BY <1>1, <1>6, <2>1 DEF PoolInv, PoolTyped
<1>8. Located'
  <2>1. ASSUME NEW s \in PoolSlots, ppObjects'[s] \in Objects PROVE Placed(ppObjects[s], s)'
    <3>1. ppObjects'[s] = ppObjects[s]
      BY <1>4, <1>5, <1>6, <2>1
    <3> QED
      BY <1>1, <2>1, <3>1 DEF PoolInv, Located, Placed, Slot
  <2>2. ASSUME grown' <= 1, NEW p \in Objects, held[p] # NULL
        PROVE  ppObjects'[Slot(held[p])] = p /\ Slot(held[p]) < cCapacity'
    <3>1. r.table = ppObjects /\ r.capacity = cCapacity /\ grown <= 1
      BY <1>2, <1>3, <1>4, <2>2
    <3>2. ppObjects[Slot(held[p])] = p /\ Slot(held[p]) < cCapacity /\ Slot(held[p]) \in PoolSlots
      BY <1>1, <2>2, <3>1 DEF PoolInv, Located, PoolTyped
    <3> QED
      BY <1>2, <1>3, <1>5, <1>6, <3>1, <3>2
  <2>3. grown' # 0
    BY <1>2, <1>3, <1>4
  <2> QED
    BY <1>1, <2>1, <2>2, <2>3 DEF Located, Slot
<1>9. AgesCount' /\ FiniFreesAll'
  BY <1>1 DEF PoolInv, AgesCount, Counting, FiniFreesAll, Slot
<1> QED
  BY <1>7, <1>8, <1>9 DEF PoolInv

LEMMA Deallocating == ASSUME PoolInv, Dealloc PROVE PoolInv'
<1>1. /\ poolPc = "up" /\ deallocs' = deallocs + 1
      /\ UNCHANGED <<cCapacity, safe, poolPc, lost, grown>>
  BY DEF Dealloc
<1>2. NULL # RESERVED /\ NULL \notin Objects /\ RESERVED \notin Objects /\ NULL \notin ObjectNumbers
      /\ LastSlot \in Nat
  BY PoolAssumption
<1>3. PICK h \in {held[o] : o \in Objects} \cup stale
                  \cup {PlainNumber(i) : i \in {i \in PoolSlots : i < cCapacity}} :
        /\ (IF h = NULL THEN NULL ELSE Unwrap(h)) # NULL
        /\ ppObjects' = Cleared(Slot(h))
        /\ pAges' = IF safe THEN Aged(Slot(h)) ELSE pAges
        /\ LET o == IF h = NULL THEN NULL ELSE Unwrap(h)
           IN /\ stale' = IF held[o] = NULL THEN stale ELSE stale \cup {held[o]}
              /\ held' = [held EXCEPT ![o] = NULL]
  BY DEF Dealloc
<1>4. PICK i \in PoolSlots : i = Slot(h)
  <2>1. h # NULL
    BY <1>3
  <2>2. CASE h \in {held[o] : o \in Objects} \cup stale
    BY <2>1, <2>2 DEF PoolInv, PoolTyped
  <2>3. CASE \E j \in PoolSlots : h = PlainNumber(j)
    BY <2>3, Shifts DEF PlainNumber, Slot
  <2> QED
    BY <1>3, <2>2, <2>3
<1>5. PICK o \in Objects : o = ppObjects[i] /\ o = Unwrap(h)
  <2>1. Unwrap(h) = ppObjects[i] /\ ppObjects[i] # RESERVED /\ ppObjects[i] # NULL
    BY <1>3, <1>4 DEF Unwrap
  <2> QED
    BY <2>1 DEF PoolInv, PoolTyped
<1>6. held[o] # NULL /\ Slot(held[o]) = i /\ held[o] \in ObjectNumbers
  BY <1>5 DEF PoolInv, PoolTyped, Located, Placed
<1>7. /\ ppObjects' = [ppObjects EXCEPT ![i] = NULL]
      /\ pAges' = IF safe THEN Aged(i) ELSE pAges
      /\ stale' = stale \cup {held[o]}
      /\ held' = [held EXCEPT ![o] = NULL]
  <2>1. (IF h = NULL THEN NULL ELSE Unwrap(h)) = o
    BY <1>3, <1>5
  <2> QED
    BY <1>3, <1>4, <1>6, <2>1 DEF Cleared
<1>8. /\ \A s \in PoolSlots : ppObjects'[s] = IF s = i THEN NULL ELSE ppObjects[s]
      /\ \A p \in Objects : held'[p] = IF p = o THEN NULL ELSE held[p]
  BY <1>7 DEF PoolInv, PoolTyped
<1>9. PoolTyped'
  <2>1. ppObjects' \in [PoolSlots -> Objects \cup {NULL, RESERVED}]
        /\ held' \in [Objects -> ObjectNumbers \cup {NULL}]
    BY <1>7 DEF PoolInv, PoolTyped
  <2>2. pAges' \in Int /\ deallocs' \in Nat
    BY <1>1, <1>7, AgesAre DEF PoolInv, PoolTyped
  <2>3. stale' \subseteq ObjectNumbers /\ \A g \in stale' : Slot(g) \in PoolSlots
    BY <1>6, <1>7 DEF PoolInv, PoolTyped
  <2>4. safe => \A g \in stale' : g.pool = Pool
    BY <1>6, <1>7 DEF PoolInv, PoolTyped
  <2>5. /\ \A p \in Objects : held'[p] # NULL => Slot(held'[p]) \in PoolSlots
        /\ safe => \A p \in Objects : held'[p] # NULL => held'[p].pool = Pool
    BY <1>8 DEF PoolInv, PoolTyped
  <2>6. cCapacity' \in Nat /\ grown' \in 0 .. 2 /\ safe' \in BOOLEAN
    BY <1>1 DEF PoolInv, PoolTyped
  <2> QED
    BY <1>1, <2>1, <2>2, <2>3, <2>4, <2>5, <2>6 DEF PoolTyped, Slot
<1>10. Located'
  <2>1. ASSUME NEW s \in PoolSlots, ppObjects'[s] \in Objects PROVE Placed(ppObjects[s], s)'
    <3>1. PICK q \in Objects : q = ppObjects'[s]
      BY <2>1
    <3>2. s # i /\ q = ppObjects[s]
      BY <1>2, <1>8, <2>1, <3>1
    <3>3. held[q] # NULL /\ Slot(held[q]) = s
      BY <3>1, <3>2 DEF PoolInv, Located, Placed
    <3>4. held'[q] = held[q]
      BY <1>6, <1>8, <3>2, <3>3
    <3> QED
      BY <3>1, <3>3, <3>4 DEF Placed, Slot
  <2>2. ASSUME grown' <= 1, NEW p \in Objects, held'[p] # NULL
        PROVE  ppObjects'[Slot(held'[p])] = p /\ Slot(held'[p]) < cCapacity'
    <3>1. p # o /\ held'[p] = held[p] /\ held[p] # NULL
      BY <1>8, <2>2
    <3>2. ppObjects[Slot(held[p])] = p /\ Slot(held[p]) < cCapacity /\ Slot(held[p]) \in PoolSlots
      BY <1>1, <2>2, <3>1 DEF PoolInv, Located, PoolTyped
    <3> QED
      BY <1>1, <1>5, <1>8, <3>1, <3>2
  <2> QED
    BY <1>1, <2>1, <2>2 DEF PoolInv, Located, Slot
<1>11. AgesCount'
  <2>1. SUFFICES ASSUME Counting' PROVE AgesCount'
    BY DEF AgesCount
  <2>2. deallocs \in Nat /\ 2^AgeBits \in Nat /\ 2^i \in Nat /\ i \in Nat
    BY Shifts DEF PoolInv, PoolTyped
  <2>3. /\ safe /\ deallocs + 1 < 2^AgeBits /\ deallocs < 2^AgeBits
        /\ \A g, k \in stale' : g.index = k.index
    BY <1>1, <2>1, <2>2 DEF Counting
  <2>4. Counting
    BY <1>7, <2>3 DEF Counting
  <2>5. /\ stale = {} => deallocs = 0 /\ pAges = 0 /\ \A p \in Objects : held[p] # NULL => held[p].age = 0
        /\ \A g \in stale :
             /\ pAges = deallocs * 2^Slot(g) /\ g.age < deallocs
             /\ \A p \in Objects : held[p] # NULL /\ held[p].index = g.index => held[p].age <= deallocs
    BY <2>4 DEF PoolInv, AgesCount
  <2>6. \A g \in stale' : g.index = held[o].index /\ Slot(g) = i /\ g \in ObjectNumbers
    BY <1>6, <1>7, <1>9, <2>3 DEF Slot, PoolTyped
  <2>7. pAges = deallocs * 2^i
    <3>1. CASE stale = {}
      BY <2>2, <2>5, <3>1
    <3>2. CASE stale # {}
      BY <1>7, <2>5, <2>6, <3>2
    <3> QED
      BY <3>1, <3>2
  <2>8. pAges' = (deallocs + 1) * 2^i
    BY <1>7, <2>2, <2>3, <2>7, AgesAt
  <2>9. ASSUME NEW p \in Objects, held[p] # NULL, held[p].index = held[o].index
        PROVE  held[p].age <= deallocs /\ held[p].age \in Nat
    <3>1. held[p].age \in Nat
      BY <2>9 DEF PoolInv, PoolTyped, ObjectNumbers
    <3>2. CASE stale = {}
      BY <2>2, <2>5, <2>9, <3>1, <3>2
    <3>3. CASE stale # {}
      BY <1>7, <2>5, <2>6, <2>9, <3>1, <3>3
    <3> QED
      BY <3>2, <3>3, <3>1
  <2>10. ASSUME NEW g \in stale' PROVE g.age < deallocs + 1 /\ g.age \in Nat
    <3>1. CASE g \in stale
      <4>1. g.age < deallocs /\ g.age \in Nat
        BY <2>5, <2>6, <3>1 DEF ObjectNumbers
      <4> QED
        BY <2>2, <4>1
    <3>2. CASE g = held[o]
      BY <1>6, <2>2, <2>9, <3>2
    <3> QED
      BY <1>7, <3>1, <3>2
  <2>11. ASSUME NEW g \in stale', NEW p \in Objects, held'[p] # NULL, held'[p].index = g.index
         PROVE  held'[p].age <= deallocs + 1
    <3>1. held'[p] = held[p] /\ held[p] # NULL /\ held[p].index = held[o].index
      BY <1>8, <2>6, <2>11
    <3>2. held[p].age <= deallocs /\ held[p].age \in Nat
      BY <2>9, <3>1
    <3> QED
      BY <2>2, <3>1, <3>2
  <2>12. stale' # {}
    BY <1>7
  <2> QED
    BY <1>1, <2>6, <2>8, <2>10, <2>11, <2>12 DEF AgesCount, Slot
<1>12. FiniFreesAll'
  BY <1>1 DEF FiniFreesAll
<1> QED
  BY <1>9, <1>10, <1>11, <1>12 DEF PoolInv

LEMMA Finishing == ASSUME PoolInv, Fini PROVE PoolInv'
<1> DEFINE all == {i \in PoolSlots : i < cCapacity}
           gone == {o \in Objects : \E i \in all : ppObjects[i] = o}
<1>1. /\ poolPc = "up"
      /\ poolPc' = IF \E i \in all : ppObjects[i] = RESERVED THEN "crashed" ELSE "down"
      /\ ppObjects' = [i \in PoolSlots |-> IF i \in all THEN NULL ELSE ppObjects[i]]
      /\ cCapacity' = 0
      /\ held' = [o \in Objects |-> IF o \in gone THEN NULL ELSE held[o]]
      /\ UNCHANGED <<pAges, safe, stale, lost, grown, deallocs>>
  BY DEF Fini
<1>2. NULL # RESERVED /\ NULL \notin Objects /\ RESERVED \notin Objects
  BY PoolAssumption
<1>3. PoolTyped'
  <2>1. /\ ppObjects' \in [PoolSlots -> Objects \cup {NULL, RESERVED}]
        /\ held' \in [Objects -> ObjectNumbers \cup {NULL}] /\ cCapacity' \in Nat
    BY <1>1 DEF PoolInv, PoolTyped
  <2>2. \A o \in Objects : held'[o] # NULL => held'[o] = held[o]
    BY <1>1
  <2> QED
    BY <1>1, <2>1, <2>2 DEF PoolInv, PoolTyped, Slot
<1>4. poolPc' # "up"
  BY <1>1
<1>5. ASSUME NEW s \in PoolSlots, ppObjects'[s] \in Objects PROVE Placed(ppObjects[s], s)'
  <2>1. PICK q \in Objects : q = ppObjects'[s]
    BY <1>5
  <2>2. s \notin all /\ q = ppObjects[s]
    BY <1>1, <1>2, <2>1
  <2>3. held[q] # NULL /\ Slot(held[q]) = s
    BY <2>1, <2>2 DEF PoolInv, Located, Placed
  <2>4. \A i \in all : ppObjects[i] = q => i = s
    BY <2>3 DEF PoolInv, Located, Placed
  <2>5. held'[q] = held[q]
    BY <1>1, <2>2, <2>4
  <2> QED
    BY <2>1, <2>3, <2>5 DEF Placed, Slot
<1>6. Located'
  BY <1>4, <1>5 DEF Located
<1>7. AgesCount'
  <2>1. \A o \in Objects : held'[o] # NULL => held'[o] = held[o]
    BY <1>1
  <2> QED
    BY <1>1, <2>1 DEF PoolInv, AgesCount, Counting, Slot
<1>8. FiniFreesAll'
  <2>1. SUFFICES ASSUME grown <= 1, NEW o \in Objects PROVE held'[o] = NULL
    BY <1>1 DEF FiniFreesAll
  <2>2. CASE held[o] # NULL
    <3>1. ppObjects[Slot(held[o])] = o /\ Slot(held[o]) \in all
      BY <1>1, <2>1, <2>2 DEF PoolInv, PoolTyped, Located
    <3> QED
      BY <1>1, <3>1
  <2> QED
    BY <1>1, <2>2
<1> QED
  BY <1>3, <1>6, <1>7, <1>8 DEF PoolInv

LEMMA PoolKeeps == PoolInv /\ [PoolNext]_poolVars => PoolInv'
<1> SUFFICES ASSUME PoolInv, [PoolNext]_poolVars PROVE PoolInv'
  OBVIOUS
<1>1. CASE Alloc
  <2>1. PICK i \in PoolSlots : poolPc = "up" /\ IsFreeIndex(i) /\ AllocIn(i, {})
    BY <1>1 DEF Alloc
  <2>2. Room(i).table[i] = NULL
    <3>1. CASE i < cCapacity
      <4>1. cCapacity \in Nat /\ i \in Nat
        BY Shifts DEF PoolInv, PoolTyped
      <4>2. i \in FreeSlots
        BY <2>1, <3>1, <4>1 DEF IsFreeIndex
      <4> QED
        BY <3>1, <4>2 DEF Room, FreeSlots
    <3>2. CASE i >= cCapacity
      BY <2>1, <3>2, Rooms DEF PoolInv
    <3> QED
      BY <3>1, <3>2, Shifts DEF PoolInv, PoolTyped
  <2>3. {Room(i).table[i]} \cap Objects = {}
    BY <2>2, PoolAssumption
  <2> QED
    BY <2>1, <2>3, Allocating
<1>2. CASE Make
  BY <1>2, Allocating DEF Make
<1>3. CASE Reserve
  BY <1>3, Reserving
<1>4. CASE Dealloc
  BY <1>4, Deallocating
<1>5. CASE Fini
  BY <1>5, Finishing
<1>6. CASE UNCHANGED poolVars
  <2>1. /\ ppObjects' = ppObjects /\ cCapacity' = cCapacity /\ pAges' = pAges /\ safe' = safe
        /\ poolPc' = poolPc /\ held' = held /\ stale' = stale /\ grown' = grown /\ deallocs' = deallocs
    BY <1>6 DEF poolVars
  <2> QED
    BY <2>1 DEF PoolInv, PoolTyped, Located, Placed, AgesCount, Counting, FiniFreesAll, Slot
<1> QED
  BY <1>1, <1>2, <1>3, <1>4, <1>5, <1>6 DEF PoolNext

LEMMA NumbersShow == PoolInv => NumbersLead
<1> SUFFICES ASSUME PoolInv PROVE NumbersLead
  OBVIOUS
<1>1. NULL # RESERVED /\ NULL \notin Objects /\ RESERVED \notin Objects
  BY PoolAssumption
<1>2. ASSUME poolPc = "up", ~safe, grown <= 1, NEW o \in Objects, held[o] # NULL
      PROVE  Unwrap(held[o]) = o /\ ObjectExists(held[o])
  BY <1>1, <1>2 DEF PoolInv, Located, Unwrap, ObjectExists
<1>3. NoDangling
  BY DEF PoolInv, Located, Placed, NoDangling
<1>4. ASSUME safe, OneSlot, deallocs < 2^AgeBits, NEW h \in stale, Pool # 0 \/ h.age # 0
      PROVE  Unwrap(h) = NULL
  <2>1. \A g, k \in stale : g.index = k.index
    BY <1>4 DEF OneSlot, GivenOut
  <2>2. pAges = deallocs * 2^Slot(h) /\ h.age < deallocs
    BY <1>4, <2>1 DEF PoolInv, AgesCount, Counting
  <2>3. h.age \in Nat /\ deallocs \in Nat /\ Slot(h) \in PoolSlots /\ h.pool = Pool
    BY <1>4 DEF PoolInv, PoolTyped, ObjectNumbers
  <2>4. pAges \div 2^Slot(h) = deallocs
    BY <1>4, <2>2, <2>3, AgesAt
  <2>5. ~AgeFits(h)
    BY <1>4, <2>2, <2>3, <2>4 DEF AgeFits
  <2> QED
    BY <1>4, <2>5 DEF Unwrap
<1> QED
  BY <1>2, <1>3, <1>4 DEF NumbersLead, LiveReachable, StaleRefused, PoolInv

\* The number of an object leads to it and to no other, in a table of any size that grows by
\* any amount, with ages of any width.
THEOREM NumbersLeadToThem == PoolSpec => []NumbersLead
<1>1. PoolInit => PoolInv
  BY PoolStarts
<1>2. PoolInv /\ [PoolNext]_poolVars => PoolInv'
  BY PoolKeeps
<1>3. PoolInv => NumbersLead
  BY NumbersShow
<1> QED
  BY <1>1, <1>2, <1>3, PTL DEF PoolSpec
=============================================================================
