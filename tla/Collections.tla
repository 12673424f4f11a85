----------------------------- MODULE Collections -----------------------------
(***************************************************************************)
(* The collections of Libs/Collections: lists, the dictionary, the array.  *)
(***************************************************************************)
EXTENDS Integers, SequencesExt, FiniteSetsExt

(* The lists of Libs/Collections/List.hpp: links that are in at most one   *)
(* list at a time, and know it (TIntrusiveLink, TIntrusiveList), and the   *)
(* lists that make and delete the links of their elements (TList).  A link *)
(* that is made has an owner, whose key lists are sorted by, or none.      *)
(*                                                                         *)
(* The caller keeps to what the code does not check: the link that one is  *)
(* put next to is another one, and is in the list that is asked.           *)

CONSTANTS
  Links, Lists,
  Key       \* the key of each link's owner

VARIABLES
  m_pPrev, m_pNext, m_pList, m_pNode, \* of each link; m_pNode is whether it has an owner
  m_pHead, m_pTail, \* of each list
  made,   \* the links that are constructed
  order   \* what each list should hold

listVars == <<m_pPrev, m_pNext, m_pList, m_pNode, m_pHead, m_pTail, made, order>>

Null == "null"

\* The links and the lists, as one value.
Here == [prev |-> m_pPrev, next |-> m_pNext, list |-> m_pList, head |-> m_pHead, tail |-> m_pTail]
Becomes(h) ==
  /\ m_pPrev' = h.prev /\ m_pNext' = h.next /\ m_pList' = h.list
  /\ m_pHead' = h.head /\ m_pTail' = h.tail

\* What comes after p in list l, from now on, is x; Null stands for the ends of the list.
SetNext(h, l, p, x) == IF p = Null THEN [h EXCEPT !.head[l] = x] ELSE [h EXCEPT !.next[p] = x]
SetPrev(h, l, p, x) == IF p = Null THEN [h EXCEPT !.tail[l] = x] ELSE [h EXCEPT !.prev[p] = x]
SetSelf(h, l, x, before, after) == [h EXCEPT !.prev[x] = before, !.next[x] = after, !.list[x] = l]

UnlinkFrom(h, l, x) ==
  IF h.list[x] # l THEN h
  ELSE SetSelf(SetPrev(SetNext(h, l, h.prev[x], h.next[x]), l, h.next[x], h.prev[x]), Null, x, Null, Null)
Unlink(h, x) == IF h.list[x] = Null THEN h ELSE UnlinkFrom(h, h.list[x], x)

\* A faulty insertion, which looks for the neighbours before the link has left them.
InsertBeforeEarly(h, l, x, before) ==
  LET p == h.prev[before] IN SetSelf(SetPrev(SetNext(Unlink(h, x), l, p, x), l, before, x), l, x, p, before)
InsertBefore(h, l, x, before) ==
  LET u == Unlink(h, x)
      p == u.prev[before]
  IN SetSelf(SetPrev(SetNext(u, l, p, x), l, before, x), l, x, p, before)
InsertAfter(h, l, x, after) ==
  LET u == Unlink(h, x)
      n == u.next[after]
  IN SetSelf(SetNext(SetPrev(u, l, n, x), l, after, x), l, x, after, n)

Alone(h, l, x) == SetSelf([Unlink(h, x) EXCEPT !.head[l] = x, !.tail[l] = x], l, x, Null, Null)
AddHead(h, l, x) ==
  IF x = h.head[l] THEN h ELSE IF h.head[l] # Null THEN InsertBefore(h, l, x, h.head[l]) ELSE Alone(h, l, x)
AddTail(h, l, x) ==
  IF x = h.tail[l] THEN h ELSE IF h.tail[l] # Null THEN InsertAfter(h, l, x, h.tail[l]) ELSE Alone(h, l, x)

RECURSIVE Clear(_, _)
Clear(h, l) == IF h.head[l] = Null THEN h ELSE Clear(UnlinkFrom(h, l, h.head[l]), l)

-----------------------------------------------------------------------------
(* Sort: neighbours change places until a pass finds none to change.  A     *)
(* link without an owner stays where it is.  The operator < answers 1 for a *)
(* first that is less, which puts the greater one first.                    *)

Compare(less, x, y) ==
  IF less THEN (IF Key[x] < Key[y] THEN 1 ELSE 0) ELSE Key[x] - Key[y]

\* The next of p comes before p.
Swap(h, l, p) ==
  LET t == h.next[p]
      u == Unlink(h, t)
  IN SetPrev(SetNext(SetSelf(u, l, t, u.prev[p], p), l, u.prev[p], t), l, p, t)

RECURSIVE Pass(_, _, _, _, _)
Pass(h, l, less, p, swaps) ==
  IF p = Null THEN [h |-> h, swaps |-> swaps]
  ELSE IF \/ ~m_pNode[p] \/ h.next[p] = Null
          \/ h.next[p] # Null /\ (~m_pNode[h.next[p]] \/ Compare(less, p, h.next[p]) <= 0)
       THEN Pass(h, l, less, h.next[p], swaps)
       ELSE LET s == Swap(h, l, p) IN Pass(s, l, less, s.next[p], swaps + 1)

RECURSIVE Sorted(_, _, _)
Sorted(h, l, less) ==
  LET r == Pass(h, l, less, h.head[l], 0) IN IF r.swaps = 0 THEN r.h ELSE Sorted(r.h, l, less)

-----------------------------------------------------------------------------
(* What the lists should hold. *)

Without(x) == [l \in Lists |-> SelectSeq(order[l], LAMBDA y : y # x)]
Place(q, y) == CHOOSE i \in DOMAIN q : q[i] = y
Ahead(l, x, y) == [Without(x) EXCEPT ![l] = InsertAt(@, Place(@, y), x)]
Behind(l, x, y) == [Without(x) EXCEPT ![l] = InsertAt(@, Place(@, y) + 1, x)]
First(l, x) == [Without(x) EXCEPT ![l] = <<x>> \o @]
Final(l, x) == [Without(x) EXCEPT ![l] = Append(@, x)]

\* Those between two links without owners are in order, equal ones as they were.
InOrder(q, less) ==
  LET together(x, y) == \A i \in DOMAIN q : i \in Place(q, x) .. Place(q, y) \cup Place(q, y) .. Place(q, x) => m_pNode[q[i]]
      ranks(p) == \A i, j \in DOMAIN p : i < j /\ together(p[i], p[j]) =>
                    \/ Compare(less, p[i], p[j]) < 0 \/ Compare(less, p[j], p[i]) > 0
                    \/ Key[p[i]] = Key[p[j]] /\ Place(q, p[i]) < Place(q, p[j])
      stays(p) == \A i \in DOMAIN p : p[i] = q[i] \/ together(p[i], q[i])
  IN CHOOSE p \in {[i \in DOMAIN q |-> q[f[i]]] : f \in Permutations(DOMAIN q)} : ranks(p) /\ stays(p)

-----------------------------------------------------------------------------
ListInit ==
  /\ m_pPrev = [x \in Links |-> Null] /\ m_pNext = [x \in Links |-> Null]
  /\ m_pList = [x \in Links |-> Null] /\ m_pNode = [x \in Links |-> FALSE]
  /\ m_pHead = [l \in Lists |-> Null] /\ m_pTail = [l \in Lists |-> Null]
  /\ made = {} /\ order = [l \in Lists |-> <<>>]

\* A link is made, by itself or at the end of a list, as the lists that own their
\* elements do; and deleted, wherever it is.
Make(x, owned, place) ==
  /\ x \notin made
  /\ made' = made \cup {x} /\ m_pNode' = [m_pNode EXCEPT ![x] = owned]
  /\ \/ place = Null /\ UNCHANGED order /\ Becomes(Here)
     \/ place # Null /\ order' = Final(place, x) /\ Becomes(AddTail(Here, place, x))

Delete(x) ==
  /\ x \in made
  /\ made' = made \ {x} /\ order' = Without(x) /\ m_pNode' = [m_pNode EXCEPT ![x] = FALSE]
  /\ Becomes(Unlink(Here, x))

Insert(x, y) ==
  /\ x \in made /\ y \in made \ {x} /\ m_pList[y] # Null
  /\ \/ order' = Ahead(m_pList[y], x, y) /\ Becomes(InsertBefore(Here, m_pList[y], x, y))
     \/ order' = Behind(m_pList[y], x, y) /\ Becomes(InsertAfter(Here, m_pList[y], x, y))
  /\ UNCHANGED <<m_pNode, made>>

Add(l, x) ==
  /\ x \in made
  /\ \/ order' = First(l, x) /\ Becomes(AddHead(Here, l, x))
     \/ order' = Final(l, x) /\ Becomes(AddTail(Here, l, x))
  /\ UNCHANGED <<m_pNode, made>>

\* ToPrior and ToNext.
Move(x) ==
  /\ x \in made /\ m_pList[x] # Null
  /\ \/ m_pPrev[x] # Null /\ order' = Ahead(m_pList[x], x, m_pPrev[x])
        /\ Becomes(InsertBefore(Here, m_pList[x], x, m_pPrev[x]))
     \/ m_pNext[x] # Null /\ order' = Behind(m_pList[x], x, m_pNext[x])
        /\ Becomes(InsertAfter(Here, m_pList[x], x, m_pNext[x]))
  /\ UNCHANGED <<m_pNode, made>>

Leave(x) ==
  /\ x \in made /\ order' = Without(x) /\ Becomes(Unlink(Here, x))
  /\ UNCHANGED <<m_pNode, made>>

Empty(l) ==
  /\ order' = [order EXCEPT ![l] = <<>>] /\ Becomes(Clear(Here, l))
  /\ UNCHANGED <<m_pNode, made>>

Sort(l, less) ==
  /\ order' = [order EXCEPT ![l] = InOrder(@, less)] /\ Becomes(Sorted(Here, l, less))
  /\ UNCHANGED <<m_pNode, made>>

ListNext ==
  \/ \E x \in Links, owned \in BOOLEAN, place \in Lists \cup {Null} : Make(x, owned, place)
  \/ \E x \in Links : Delete(x) \/ Move(x) \/ Leave(x)
  \/ \E x, y \in Links : Insert(x, y)
  \/ \E l \in Lists : Empty(l) \/ (\E x \in Links : Add(l, x)) \/ (\E less \in BOOLEAN : Sort(l, less))

-----------------------------------------------------------------------------
(* Whatever was put where, a list holds what it should in that order, both  *)
(* from its head and from its tail, and a link knows the list it is in: no  *)
(* list reaches a link that has left it, was deleted, or is in another.     *)
Around(q, i) == IF i \in DOMAIN q THEN q[i] ELSE Null
ListsHold ==
  /\ \A l \in Lists : LET q == order[l] IN
       /\ m_pHead[l] = Around(q, 1) /\ m_pTail[l] = Around(q, Len(q))
       /\ \A i \in DOMAIN q :
            m_pPrev[q[i]] = Around(q, i - 1) /\ m_pNext[q[i]] = Around(q, i + 1) /\ m_pList[q[i]] = l
  /\ \A x \in Links : m_pList[x] = Null => \A l \in Lists : x \notin ToSet(order[l])

-----------------------------------------------------------------------------
(* TDictionary (Libs/Collections/Dictionary.hpp): a tree of tables, one    *)
(* step down for each byte of a key.  A table has one entry for each byte  *)
(* that is allowed in keys, or for both cases of a letter; the conversion  *)
(* map says which.  A table is known by the indexes that lead to it, and   *)
(* an entry by those that lead to it and its own.                          *)

CONSTANTS
  Alphabets, \* what Init may be told to allow: sequences of bytes, and whether case matters
  DictKeys   \* the keys looked for, sequences of bytes

VARIABLES
  alphabet,  \* what Init was told: [allowed, sensitive]
  tables,    \* the tables that are allocated
  data,      \* what each entry holds that holds anything
  stored     \* what was stored under each key, in order

dictVars == <<alphabet, tables, data, stored>>

Nothing == <<-1>>  \* no entry: indexes are 0 or more
Invalid == 255
Upper == 65 .. 90
Lower == 97 .. 122
Other(k) == IF k \in Upper THEN k + 32 ELSE IF k \in Lower THEN k - 32 ELSE k

-----------------------------------------------------------------------------
(* GenerateConvmap: the map, and how many entries a table has; none when    *)
(* what is allowed cannot be used.  The last byte of the map is not set:    *)
(* it is what it was made with, 0.                                          *)

Unset == [k \in 0 .. 255 |-> IF k = 255 THEN 0 ELSE Invalid]

\* A letter whose other case is there is passed over, and those after it move up.
Assigned(allowed, sensitive) ==
  FoldLeftDomain(LAMBDA r, i :
    LET k == allowed[i] IN
    IF ~sensitive /\ Other(k) # k /\ r.map[Other(k)] # Invalid
    THEN [r EXCEPT !.bias = @ + 1]
    ELSE [r EXCEPT !.map[k] = i - 1 - r.bias],
  [map |-> Unset, bias |-> 0], allowed)

Twice(allowed, n) == \E j, k \in 1 .. n : j < k /\ allowed[j] = allowed[k]

\* The other case gets the entry of this one, and has none of its own.
Cased(map, n, cases) ==
  [map |-> [k \in 0 .. 255 |-> IF k \in cases THEN map[Other(k)] ELSE map[k]],
   n |-> n - Cardinality({k \in cases : map[k] # Invalid})]

GenerateConvmap(allowed, sensitive) ==
  LET r == Assigned(allowed, sensitive)
      n == Len(allowed) - r.bias
  IN IF 255 \in ToSet(allowed) \/ Twice(allowed, n) THEN [map |-> r.map, n |-> 0]
     ELSE IF sensitive THEN [map |-> r.map, n |-> n]
     ELSE IF r.map[97] # Invalid THEN Cased(r.map, n, Upper)
     ELSE IF r.map[65] # Invalid THEN Cased(r.map, n, Lower)
     ELSE [map |-> r.map, n |-> 0]

-----------------------------------------------------------------------------
(* FindFromEntry, from the table that `table` leads to: the entry, or       *)
(* Nothing, and the tables there are then.                                  *)

FindFromEntry(map, ts, table, key, create) ==
  LET f[i \in Nat] ==   \* after i steps down
        IF i = 0 THEN [at |-> table, ts |-> ts, ok |-> TRUE]
        ELSE LET r == f[i - 1]
                 down == Append(r.at, map[key[i]]) IN
             IF ~r.ok \/ map[key[i]] = Invalid THEN [r EXCEPT !.ok = FALSE]
             ELSE IF i = Len(key) \/ down \in r.ts THEN [r EXCEPT !.at = down]
             ELSE IF create THEN [r EXCEPT !.at = down, !.ts = @ \cup {down}]
             ELSE [r EXCEPT !.ok = FALSE]
  IN IF key = <<>> THEN [at |-> Nothing, ts |-> ts]   \* the map has no entry for the terminator
     ELSE [at |-> IF f[Len(key)].ok THEN f[Len(key)].at ELSE Nothing, ts |-> f[Len(key)].ts]

Map == GenerateConvmap(alphabet.allowed, alphabet.sensitive).map
Find(key) == FindFromEntry(Map, tables, <<>>, key, FALSE).at
Lookup(key) == FindFromEntry(Map, tables, <<>>, key, TRUE)

\* From an entry: it may have no table yet.
FindFrom(key, entry) == IF entry \notin tables THEN Nothing ELSE FindFromEntry(Map, tables, entry, key, FALSE).at
LookupFrom(key, entry) == FindFromEntry(Map, tables \cup {entry}, entry, key, TRUE)

-----------------------------------------------------------------------------
DictInit ==
  /\ alphabet \in {a \in Alphabets : GenerateConvmap(a.allowed, a.sensitive).n > 0}
  /\ tables = {<<>>} /\ data = << >> /\ stored = <<>>

Put(r, key, x) ==
  /\ tables' = r.ts
  /\ IF r.at = Nothing THEN UNCHANGED <<data, stored>>
     ELSE /\ data' = [e \in DOMAIN data \cup {r.at} |-> IF e = r.at THEN x ELSE data[e]]
          /\ stored' = Append(stored, [key |-> key, data |-> x])
  /\ UNCHANGED alphabet

Store(key, x) == Put(Lookup(key), key, x)
StoreFrom(first, rest, x) == Find(first) # Nothing /\ Put(LookupFrom(rest, Find(first)), first \o rest, x)

\* Purge frees the tables below the first, and with them what leads to the data.
Purge ==
  /\ tables' = {<<>>} /\ data' = << >> /\ stored' = <<>>
  /\ UNCHANGED alphabet

DictNext ==
  \/ Len(stored) < 2 /\ \E key \in DictKeys : Store(key, Len(stored) + 1)
  \/ Len(stored) < 2 /\ \E first, rest \in DictKeys : StoreFrom(first, rest, Len(stored) + 1)
  \/ Purge

-----------------------------------------------------------------------------
Allows(k) == k \in ToSet(alphabet.allowed) \/ (~alphabet.sensitive /\ Other(k) \in ToSet(alphabet.allowed))
Same(a, b) ==
  Len(a) = Len(b) /\ \A i \in DOMAIN a : a[i] = b[i] \/ (~alphabet.sensitive /\ a[i] = Other(b[i]))

\* What must be left out: byte 255; and, where case does not matter, letters that are
\* allowed in one case only, unless all are in that of the letter a that is allowed.
CasesMeet ==
  LET cases == ToSet(alphabet.allowed) \cap (IF 97 \in ToSet(alphabet.allowed) THEN Upper ELSE Lower)
  IN alphabet.sensitive \/ \A k \in cases : Other(k) \in ToSet(alphabet.allowed)
Usable(key) == key # <<>> /\ \A i \in DOMAIN key : key[i] # 255 /\ Allows(key[i])

(* Keys that are the same lead to one entry and others to others, within    *)
(* the tables; what is found under a key is what was stored last under it,  *)
(* in one step or in two, and nothing if nothing was; and a key with a byte *)
(* that is not allowed is never found.                                      *)
KeysLead ==
  CasesMeet /\ (\A i \in DOMAIN stored : 255 \notin ToSet(stored[i].key)) =>
    /\ \A a, b \in DictKeys : Usable(a) /\ Usable(b) => (Lookup(a).at = Lookup(b).at <=> Same(a, b))
    /\ \A k \in 0 .. 254 : Allows(k) => Map[k] < GenerateConvmap(alphabet.allowed, alphabet.sensitive).n
    /\ \A key \in DictKeys : Usable(key) =>
         LET under == SelectSeq(stored, LAMBDA s : Same(s.key, key))
             e == Find(key) IN
         /\ under # <<>> => e \in DOMAIN data /\ data[e] = Last(under).data
         /\ under = <<>> => e \notin DOMAIN data
    /\ \A key \in DictKeys : ~Usable(key) /\ 255 \notin ToSet(key) => Find(key) = Nothing

-----------------------------------------------------------------------------
(* TArray (Libs/Collections/Array.hpp): elements that are constructed one  *)
(* by one in memory that grows.  The memory is a sequence of cells, each   *)
(* raw or constructed; faulty is whether a step read or ended a raw cell,  *)
(* constructed one that was not raw, or went past the memory.              *)
(*                                                                         *)
(* Memory is always got.  An element takes one byte: of larger ones, Index *)
(* divides by the size twice.                                              *)

CONSTANTS
  Values,           \* what elements are worth
  m_cGranularity,
  MaxItems          \* bound: how many elements a caller asks for

VARIABLES
  m_pArr,   \* the cells; there are m_cMax
  m_cArr,   \* how many elements there are
  items,    \* what they should be
  lost,     \* the places of those that the last call failed to put there or to keep there
  faulty

arrayVars == <<m_pArr, m_cArr, items, lost, faulty>>

Raw == 0
Freed == -1  \* what is read from memory that was given back

Memory == [cells |-> m_pArr, n |-> m_cArr, faulty |-> FALSE]
At(r, i) == IF i < Len(r.cells) THEN r.cells[i + 1] ELSE Raw

Construct(r, i, x) ==
  [r EXCEPT !.cells[i + 1] = x, !.faulty = @ \/ i >= Len(r.cells) \/ At(r, i) # Raw \/ x \in {Raw, Freed}]
Destroy(r, i) == [r EXCEPT !.cells[i + 1] = Raw, !.faulty = @ \/ At(r, i) = Raw]

\* The first n cells, or those from n down to first, in that order.
DestroyDown(r, n, first) == FoldLeftDomain(LAMBDA s, i : Destroy(s, n - i), r, [i \in 1 .. n - first |-> i])

\* The elements past the new size end here; the others are copied, and not ended.
SetAllocated(r, size) ==
  LET n == IF r.n < size THEN r.n ELSE size
      s == DestroyDown(r, r.n, n)
  IN [s EXCEPT !.cells = [i \in 1 .. size |-> IF i <= n THEN s.cells[i] ELSE Raw], !.n = n]

Granulated(size) ==
  IF size % m_cGranularity # 0 THEN size + (m_cGranularity - (size % m_cGranularity)) ELSE size
Reserve(r, size) == IF Len(r.cells) >= size THEN r ELSE SetAllocated(r, Granulated(size))

Resize(r, size, x) ==
  LET s == Reserve(r, size)
      t == DestroyDown(s, r.n, size)
  IN [FoldLeftDomain(LAMBDA u, i : Construct(u, r.n + i - 1, x), t, [i \in 1 .. size - r.n |-> i]) EXCEPT !.n = size]

\* What is copied comes from elsewhere, or from the array itself, from an index on.
Source(r, own, from, given, i) ==
  IF ~own THEN given[i] ELSE IF Len(r.cells) # Len(m_pArr) THEN Freed ELSE At(r, from + i - 1)
Copy(r, at, own, from, given) ==
  FoldLeftDomain(LAMBDA s, i : Construct(s, at + i - 1, Source(s, own, from, given, i)), r, given)

AppendItems(r, own, from, given) ==
  [Copy(Reserve(r, r.n + Len(given)), r.n, own, from, given) EXCEPT !.n = r.n + Len(given)]

Assign(r, own, from, given) ==
  LET s == Reserve(r, Len(given))
  IN [Copy(DestroyDown(s, s.n, 0), 0, own, from, given) EXCEPT !.n = Len(given)]

\* Those from cBefore on are moved up, each from one cell too far to one too far.
MoveUp(r, cBefore, k) ==
  FoldLeftDomain(LAMBDA s, i : Destroy(Construct(s, r.n + k - i + 1, At(s, r.n - i + 1)), r.n - i + 1),
                 r, [i \in 1 .. r.n - cBefore |-> i])
InsertItems(r, given, cBefore) ==
  LET s == Reserve(r, r.n + Len(given))
  IN [Copy(MoveUp(s, cBefore, Len(given)), cBefore, FALSE, 0, given) EXCEPT !.n = r.n + Len(given)]

RemoveItems(r, first, count) ==
  LET top == IF first + count > r.n THEN r.n ELSE first + count
      s == DestroyDown(r, top, first)
      t == FoldLeftDomain(LAMBDA u, i : Destroy(Construct(u, first + i - 1, At(u, top + i - 1)), top + i - 1),
                          s, [i \in 1 .. r.n - top |-> i])
  IN IF first >= r.n \/ count = 0 THEN r
     ELSE [t EXCEPT !.n = r.n - (IF count > r.n THEN r.n ELSE count)]

-----------------------------------------------------------------------------
ArrayInit ==
  /\ m_pArr = <<>> /\ m_cArr = 0
  /\ items = <<>> /\ lost = {} /\ faulty = FALSE

\* The array is r, and should hold q, as it does but for the places that are wrong.
ArrayBecomes(r, q, wrong) ==
  /\ m_pArr' = r.cells /\ m_cArr' = r.n /\ faulty' = r.faulty
  /\ items' = q /\ lost' = wrong

Up(q, from, k) == SubSeq(q, from + 1, from + k)
Given == UNION {[1 .. k -> Values] : k \in 0 .. 2}
Room(k) == m_cArr + k <= MaxItems

AppendGiven == \E given \in Given :
  Room(Len(given)) /\ ArrayBecomes(AppendItems(Memory, FALSE, 0, given), items \o given, {})

\* Of its own elements.  When it grows by them they are read from the memory given back.
AppendOwn == \E from \in 0 .. m_cArr - 1, k \in 1 .. 2 :
  /\ from + k <= m_cArr /\ Room(k)
  /\ ArrayBecomes(AppendItems(Memory, TRUE, from, Up(items, from, k)), items \o Up(items, from, k),
                  IF m_cArr + k > Len(m_pArr) THEN m_cArr + 1 .. m_cArr + k ELSE {})

AssignItems == \E given \in Given : ArrayBecomes(Assign(Memory, FALSE, 0, given), given, {})

\* Of its own elements, which end before they are copied.
AssignOwn == \E from \in 0 .. m_cArr - 1 :
  ArrayBecomes(Assign(Memory, TRUE, from, Up(items, from, 1)), Up(items, from, 1), {1})

\* Each is moved from one cell too far: the one that is inserted before is written over,
\* and nothing put after the new ones.  With nothing to insert the rest end where they are.
Overwritten(k, cBefore) ==
  IF cBefore = m_cArr THEN {} ELSE IF k > 0 THEN {cBefore + k + 1} ELSE cBefore + 2 .. m_cArr + 1
InsertGiven == \E given \in Given, cBefore \in 0 .. m_cArr :
  Room(Len(given)) /\ ArrayBecomes(InsertItems(Memory, given, cBefore),
                              Up(items, 0, cBefore) \o given \o Up(items, cBefore, m_cArr - cBefore),
                              Overwritten(Len(given), cBefore))
Prepend == \E given \in Given :
  Room(Len(given)) /\ ArrayBecomes(IF m_cArr = 0 THEN AppendItems(Memory, FALSE, 0, given)
                              ELSE InsertItems(Memory, given, 0), given \o items, Overwritten(Len(given), 0))

\* Past the end as many are taken off the count as were asked for, not as there were.
RemoveRange == \E first \in 0 .. m_cArr, count \in 0 .. 3 :
  LET rest == IF first + count >= m_cArr THEN <<>> ELSE Up(items, first + count, m_cArr - first - count)
  IN ArrayBecomes(RemoveItems(Memory, first, count), Up(items, 0, first) \o rest,
                  IF first < m_cArr /\ first + count > m_cArr
                  THEN (IF count > m_cArr THEN 0 ELSE m_cArr - count) + 1 .. first ELSE {})

Size == \E size \in 0 .. MaxItems, x \in Values :
  ArrayBecomes(Resize(Memory, size, x),
          [i \in 1 .. size |-> IF i <= m_cArr THEN items[i] ELSE x], {})
PopLast == m_cArr > 0 /\ ArrayBecomes(Resize(Memory, m_cArr - 1, Raw), Front(items), {})

\* Purge is SetAllocated(0).
Allocate == \E size \in 0 .. MaxItems :
  ArrayBecomes(SetAllocated(Memory, size), IF size < m_cArr THEN Up(items, 0, size) ELSE items, {})
ClearAll == ArrayBecomes([DestroyDown(Memory, m_cArr, 0) EXCEPT !.n = 0], <<>>, {})

\* After a loss the array goes on with raw cells that it counts; the model stops there.
ArrayNext ==
  /\ lost = {} /\ ~faulty
  /\ \/ AppendGiven \/ AppendOwn \/ AssignItems \/ AssignOwn \/ InsertGiven \/ Prepend
     \/ RemoveRange \/ Size \/ PopLast \/ Allocate \/ ClearAll

-----------------------------------------------------------------------------
(* Whatever is called, each place that the call did not lose has the        *)
(* element that should be there, and counts it; and where none was lost     *)
(* those elements are all there are, each constructed once, and every cell  *)
(* after them is raw.                                                       *)
ArrayHolds ==
  /\ \A i \in DOMAIN items \ lost : i <= m_cArr /\ i <= Len(m_pArr) /\ m_pArr[i] = items[i]
  /\ lost = {} =>
       /\ ~faulty
       /\ m_cArr = Len(items) /\ m_cArr <= Len(m_pArr)
       /\ \A i \in m_cArr + 1 .. Len(m_pArr) : m_pArr[i] = Raw
=============================================================================
