------------------------ MODULE PriorityChainProofs ------------------------
(***************************************************************************)
(* Proofs about PriorityChain for every number of threads, chains, levels  *)
(* and slots, with a compare-and-swap that stores Src (CasSwapped FALSE).  *)
(* Any array of chains may be submitted, a chain also more than once.      *)
(*                                                                         *)
(* NoHole is not inductive: that a claimed slot is the one at cChains      *)
(* depends on what every thread inside the loop has read and holds.  IInv  *)
(* says so: a submission is in one batch at most, the slot at              *)
(* cChains is taken only by a thread about to increment, and the others    *)
(* have read a count that is not ahead of the level's.                     *)
(***************************************************************************)
EXTENDS PriorityChain, FiniteSetTheorems, SequenceTheorems, TLAPS

\* A thread is busy exactly while its batch has submissions left.
BusyHasWork == \A t \in Threads : pc[t] = "idle" <=> todo[t] = <<>>

TypeInv == TypeOK /\ BusyHasWork

\* The counter bounds the indices it handed out.
IndexInv ==
  /\ cSubmittedChains <= MaxAttempts
  /\ \A s \in accepted : s.index < cSubmittedChains
  /\ OwnStats

\* Batches hold accepted submissions, and none is in two places.
BatchInv ==
  /\ \A t \in Threads : \A i \in 1 .. Len(todo[t]) : todo[t][i] \in accepted
  /\ \A t, u \in Threads : \A i \in 1 .. Len(todo[t]) : \A j \in 1 .. Len(todo[u]) :
       todo[t][i] = todo[u][j] => t = u /\ i = j

\* What is in a slot was accepted; if some thread still has it to publish, that
\* thread has claimed the slot and is about to increment the count.
SlotInv ==
  \A l \in Levels : \A i \in Slots : pChains[l][i] # NoChain =>
    /\ pChains[l][i] \in accepted
    /\ Priority[pChains[l][i].chain] = l
    /\ \A t \in Threads : \A j \in 1 .. Len(todo[t]) :
         todo[t][j] = pChains[l][i] => j = 1 /\ pc[t] = "inc"

\* Slots below the count are taken, those above are free, and the one at the
\* count is taken only by a thread that has still to increment the count.
CountInv ==
  \A l \in Levels :
    /\ cChains[l] <= kMaxChains
    /\ \A i \in Slots : i < cChains[l] => pChains[l][i] # NoChain
    /\ \A i \in Slots : i > cChains[l] => pChains[l][i] = NoChain
    /\ \A i \in Slots : i = cChains[l] /\ pChains[l][i] # NoChain =>
         \E t \in Threads : pc[t] = "inc" /\ Current(t) = pChains[l][i]

\* What a thread has read is not ahead of the count, and is the count itself
\* once it holds the slot.
SeenInv ==
  \A t \in Threads :
    /\ pc[t] = "cas" => seen[t] <= cChains[Level(t)]
    /\ pc[t] = "inc" => /\ seen[t] = cChains[Level(t)]
                        /\ seen[t] \in Slots
                        /\ pChains[Level(t)][seen[t]] = Current(t)

IInv ==
  /\ TypeInv /\ IndexInv /\ BatchInv /\ SlotInv /\ OneSlotEach
  /\ CountInv /\ SeenInv

-----------------------------------------------------------------------------

\* A busy thread has a current chain, with a level.
LEMMA CurrentType ==
  ASSUME TypeInv, NEW t \in Threads, pc[t] # "idle"
  PROVE  /\ todo[t] \in Seq(Submissions) /\ Len(todo[t]) \in Nat \ {0}
         /\ Current(t) = todo[t][1] /\ Current(t) \in Submissions
         /\ Level(t) \in Levels
         /\ Tail(todo[t]) \in Seq(Submissions)
         /\ Len(Tail(todo[t])) = Len(todo[t]) - 1
         /\ Len(todo[t]) = 1 <=> Tail(todo[t]) = <<>>
         /\ \A i \in 1 .. Len(todo[t]) - 1 : Tail(todo[t])[i] = todo[t][i + 1]
<1>1. todo[t] \in Seq(Submissions) /\ todo[t] # <<>>
  BY DEF TypeInv, TypeOK, BusyHasWork
<1>2. Tail(todo[t]) \in Seq(Submissions) /\ Len(Tail(todo[t])) = Len(todo[t]) - 1
  BY <1>1, HeadTailProperties
<1>3. Len(todo[t]) = 1 <=> Tail(todo[t]) = <<>>
  <2>1. Len(todo[t]) \in Nat
    BY <1>1
  <2>2. Tail(todo[t]) = <<>> => Len(Tail(todo[t])) = 0
    BY EmptySeq, Zenon
  <2>3. Tail(todo[t]) # <<>> => Len(Tail(todo[t])) # 0
    BY <1>2, EmptySeq, Zenon
  <2> QED BY <1>2, <2>1, <2>2, <2>3
<1> QED
  <2>1. Current(t) = todo[t][1] /\ Current(t) \in Submissions
    BY <1>1, HeadTailProperties DEF Current
  <2>2. Level(t) \in Levels
    BY <2>1, PriorityChainAssumption DEF Submissions, Level
  <2> QED BY <1>1, <1>2, <1>3, <2>1, <2>2, HeadTailProperties, EmptySeq

LEMMA TypeInit == Init => TypeInv
<1> SUFFICES ASSUME Init PROVE TypeInv
  OBVIOUS
<1>1. todo \in [Threads -> Seq(Submissions)]
  BY DEF Init
<1>2. pChains \in [Levels -> [Slots -> Submissions \cup {NoChain}]]
  BY DEF Init
<1>3. accepted \subseteq Submissions
  BY DEF Init
<1>4. TypeOK
  BY <1>1, <1>2, <1>3 DEF Init, TypeOK
<1> QED BY <1>4 DEF Init, TypeInv, BusyHasWork

\* The submissions of a batch: new numbers, one each.
LEMMA NumberedType ==
  ASSUME TypeInv, NEW b \in Batches, cSubmittedChains + Len(b) <= MaxAttempts
  PROVE  /\ Len(b) \in Nat \ {0}
         /\ Numbered(b) \in Seq(Submissions) /\ Numbered(b) # <<>>
         /\ Len(Numbered(b)) = Len(b) /\ DOMAIN Numbered(b) = 1 .. Len(b)
         /\ \A i \in 1 .. Len(b) : Numbered(b)[i].index = cSubmittedChains + i - 1
         /\ Range(Numbered(b)) \subseteq Submissions
         /\ \A s \in Range(Numbered(b)) : \E i \in 1 .. Len(b) : s = Numbered(b)[i]
<1> DEFINE s == Numbered(b)
<1>1. /\ Len(b) \in Nat \ {0} /\ DOMAIN b = 1 .. Len(b)
      /\ \A i \in 1 .. Len(b) : b[i] \in Chains
  BY PriorityChainAssumption DEF Batches
<1>2. s = [i \in 1 .. Len(b) |-> [chain |-> b[i], index |-> cSubmittedChains + i - 1]]
  BY <1>1 DEF Numbered
<1>3. \A i \in 1 .. Len(b) : cSubmittedChains + i - 1 \in 0 .. MaxAttempts - 1
  BY <1>1, PriorityChainAssumption DEF TypeInv, TypeOK
<1>4. \A i \in 1 .. Len(b) : s[i] \in Submissions /\ s[i].index = cSubmittedChains + i - 1
  BY <1>1, <1>2, <1>3 DEF Submissions
<1> HIDE DEF s
<1>5. s \in Seq(Submissions) /\ Len(s) = Len(b) /\ DOMAIN s = 1 .. Len(b)
  BY <1>1, <1>2, <1>4
<1>6. s # <<>>
  BY <1>1, <1>5
<1>7. \A x \in Range(s) : \E i \in 1 .. Len(b) : x = s[i]
  BY <1>5 DEF Range
<1> QED BY <1>1, <1>4, <1>5, <1>6, <1>7 DEF s

LEMMA TypeStep == TypeInv /\ [Next]_vars => TypeInv'
<1> SUFFICES ASSUME TypeInv, [Next]_vars PROVE TypeInv'
  OBVIOUS
<1> USE PriorityChainAssumption
<1>1. ASSUME NEW t \in Threads, NEW b \in Batches, Submit(t, b) PROVE TypeInv'
  <2>1. cSubmittedChains' \in Nat
    BY <1>1 DEF Submit, Batches, TypeInv, TypeOK
  <2>2. Fits(b) => Numbered(b) \in Seq(Submissions) /\ Numbered(b) # <<>>
    BY <1>1, NumberedType DEF Submit
  <2>3. accepted' \subseteq Submissions
    BY <1>1, NumberedType DEF Submit, TypeInv, TypeOK
  <2> QED BY <2>1, <2>2, <2>3, <1>1 DEF Submit, TypeInv, TypeOK, BusyHasWork
<1>2. ASSUME NEW t \in Threads, NextChain(t), pc[t] # "idle",
             UNCHANGED <<cSubmittedChains, pChains, accepted, bIsQuitting, seen>>,
             cChains' \in [Levels -> Nat]
      PROVE TypeInv'
  <2>1. todo' \in [Threads -> Seq(Submissions)]
    BY <1>2, CurrentType DEF NextChain, TypeInv, TypeOK
  <2>3. pc' \in [Threads -> {"idle", "verify", "read", "cas", "spin", "inc"}]
    BY <1>2 DEF NextChain, TypeInv, TypeOK
  <2>2. BusyHasWork'
    <3>1. Len(todo[t]) = 1 <=> Tail(todo[t]) = <<>>
      BY <1>2, CurrentType
    <3>2. \A u \in Threads \ {t} : pc'[u] = pc[u] /\ todo'[u] = todo[u]
      BY <1>2 DEF NextChain, TypeInv, TypeOK
    <3>3. pc'[t] = "idle" <=> todo'[t] = <<>>
      BY <1>2, <3>1 DEF NextChain, TypeInv, TypeOK
    <3> QED BY <3>2, <3>3 DEF TypeInv, BusyHasWork
  <2> QED BY <1>2, <2>1, <2>2, <2>3 DEF TypeInv, TypeOK
<1>3. ASSUME NEW t \in Threads, Verify(t) PROVE TypeInv'
  BY <1>2, <1>3 DEF Verify, TypeInv, TypeOK, BusyHasWork
<1>4. ASSUME NEW t \in Threads, ReadCount(t) PROVE TypeInv'
  BY <1>4, CurrentType DEF ReadCount, TypeInv, TypeOK, BusyHasWork
<1>5. ASSUME NEW t \in Threads, Claim(t) PROVE TypeInv'
  <2>1. Current(t) \in Submissions /\ Level(t) \in Levels
    BY <1>5, CurrentType DEF Claim
  <2>2. pChains' \in [Levels -> [Slots -> Submissions \cup {NoChain}]]
    <3>1. pChains[Level(t)][seen[t]] \in Submissions \cup {NoChain} \/ seen[t] \notin Slots
      BY <2>1 DEF TypeInv, TypeOK
    <3> QED BY <1>5, <2>1, <3>1 DEF Claim, CompareExchange, TypeInv, TypeOK
  <2> QED BY <1>5, <2>2 DEF Claim, TypeInv, TypeOK, BusyHasWork
<1>6. ASSUME NEW t \in Threads, Spin(t) PROVE TypeInv'
  BY <1>2, <1>6 DEF Spin, TypeInv, TypeOK, BusyHasWork
<1>7. ASSUME NEW t \in Threads, Publish(t) PROVE TypeInv'
  <2>1. cChains' \in [Levels -> Nat]
    BY <1>7, CurrentType DEF Publish, TypeInv, TypeOK
  <2> QED BY <1>2, <1>7, <2>1 DEF Publish
<1>8. CASE Quit
  BY <1>8 DEF Quit, TypeInv, TypeOK, BusyHasWork
<1>9. CASE UNCHANGED vars
  BY <1>9 DEF vars, TypeInv, TypeOK, BusyHasWork
<1> QED BY <1>1, <1>3, <1>4, <1>5, <1>6, <1>7, <1>8, <1>9 DEF Next, Step

\* TypeOK: every variable keeps its type (Scheduler04.cpp, Submit and
\* SubmitToPriorityChain), and a busy thread has chains left to publish.
THEOREM TypeCorrect == Spec => []TypeOK
<1>1. TypeInv => TypeOK
  BY DEF TypeInv
<1> QED BY <1>1, TypeInit, TypeStep, PTL DEF Spec

-----------------------------------------------------------------------------

\* A thread with a chain still to claim finds room in its level: the chains in
\* the slots and its own have distinct indices below kMaxChains.
LEMMA RoomLeft ==
  ASSUME IInv, NEW t \in Threads, pc[t] \in {"verify", "read", "cas", "spin"}
  PROVE  cChains[Level(t)] < kMaxChains
<1> USE PriorityChainAssumption
<1> DEFINE l == Level(t)
           F == [i \in 0 .. kMaxChains |->
                   (IF i = kMaxChains THEN Current(t) ELSE pChains[l][i]).index]
<1>1. /\ TypeOK /\ l \in Levels /\ Current(t) \in accepted /\ Current(t) = todo[t][1]
      /\ 1 \in 1 .. Len(todo[t])
  BY CurrentType DEF IInv, TypeInv, BatchInv
<1>2. SUFFICES ASSUME cChains[l] >= kMaxChains PROVE FALSE
  BY <1>1 DEF TypeOK
<1>3. ASSUME NEW i \in Slots
      PROVE  pChains[l][i] \in accepted /\ pChains[l][i] # Current(t)
  <2>1. pChains[l][i] # NoChain
    BY <1>1, <1>2 DEF IInv, CountInv, TypeOK, Slots
  <2> QED BY <1>1, <2>1 DEF IInv, SlotInv
<1>4. \A c \in accepted : c.index \in 0 .. kMaxChains - 1
  BY <1>1 DEF IInv, IndexInv, OwnStats, TypeOK, Submissions
<1>5. F \in [0 .. kMaxChains -> 0 .. kMaxChains - 1]
  BY <1>1, <1>3, <1>4 DEF Slots
<1>6. /\ IsFiniteSet(0 .. kMaxChains) /\ Cardinality(0 .. kMaxChains) = kMaxChains + 1
      /\ IsFiniteSet(0 .. kMaxChains - 1) /\ Cardinality(0 .. kMaxChains - 1) = kMaxChains
  BY FS_Interval
<1>7. PICK i, j \in 0 .. kMaxChains : i # j /\ F[i] = F[j]
  <2> DEFINE S == 0 .. kMaxChains
             T == 0 .. kMaxChains - 1
  <2>1. IsFiniteSet(S) /\ IsFiniteSet(T) /\ Cardinality(T) < Cardinality(S)
    BY <1>6
  <2>2. F \in [S -> T]
    BY <1>5
  <2> HIDE DEF F, S, T
  <2>3. \E x, y \in S : x # y /\ F[x] = F[y]
    BY <2>1, <2>2, FS_PigeonHole
  <2> QED BY <2>3 DEF S
<1>8. \A c, d \in accepted : c.index = d.index => c = d
  BY DEF IInv, IndexInv, OwnStats
<1>9. CASE i # kMaxChains /\ j # kMaxChains
  <2>1. i \in Slots /\ j \in Slots
    BY <1>9 DEF Slots
  <2>2. pChains[l][i] = pChains[l][j]
    <3>1. pChains[l][i].index = pChains[l][j].index
      BY <1>7, <1>9
    <3> QED BY <1>3, <1>8, <2>1, <3>1
  <2>3. pChains[l][i] # NoChain
    <3>1. pChains[l][i] \in Submissions
      BY <1>1, <1>3, <2>1 DEF TypeOK
    <3> QED BY <3>1
  <2>4. \A x, y \in Slots :
          pChains[l][x] # NoChain /\ pChains[l][x] = pChains[l][y] => x = y
    BY <1>1 DEF IInv, OneSlotEach
  <2> QED BY <1>7, <2>1, <2>2, <2>3, <2>4
<1>10. CASE i = kMaxChains
  <2>1. j \in Slots
    BY <1>7, <1>10 DEF Slots
  <2>2. Current(t).index = pChains[l][j].index
    BY <1>7, <1>10
  <2> QED BY <1>1, <1>3, <1>8, <2>1, <2>2
<1>11. CASE j = kMaxChains
  <2>1. i \in Slots
    BY <1>7, <1>11 DEF Slots
  <2>2. Current(t).index = pChains[l][i].index
    BY <1>7, <1>11
  <2> QED BY <1>1, <1>3, <1>8, <2>1, <2>2
<1> QED BY <1>9, <1>10, <1>11

LEMMA SafeInit == Init => IInv
<1> SUFFICES ASSUME Init PROVE IInv
  OBVIOUS
<1> USE PriorityChainAssumption
<1>1. TypeInv
  BY TypeInit
<1>2. accepted = {} /\ (\A t \in Threads : Len(todo[t]) = 0 /\ pc[t] = "idle")
  BY DEF Init
<1>3. \A l \in Levels : cChains[l] = 0 /\ \A i \in Slots : pChains[l][i] = NoChain
  BY DEF Init
<1>4. IndexInv
  BY <1>2 DEF Init, IndexInv, OwnStats
<1>5. BatchInv
  BY <1>2 DEF BatchInv
<1>6. SlotInv /\ OneSlotEach /\ CountInv
  BY <1>3 DEF SlotInv, OneSlotEach, CountInv, Slots
<1> QED BY <1>1, <1>2, <1>4, <1>5, <1>6 DEF IInv, SeenInv

LEMMA SubmitStep ==
  ASSUME IInv, TypeInv', NEW t \in Threads, NEW b \in Batches, Submit(t, b)
  PROVE  IInv'
<1> USE PriorityChainAssumption
<1>1. CASE ~Fits(b)
  <2>1. UNCHANGED <<pChains, cChains, accepted, bIsQuitting, pc, todo, seen>>
    BY <1>1 DEF Submit
  <2>2. /\ cSubmittedChains' \in Nat /\ cSubmittedChains' >= cSubmittedChains
        /\ cSubmittedChains' <= MaxAttempts
    BY DEF Submit, Batches, IInv, TypeInv, TypeOK
  <2>3. IndexInv'
    BY <2>1, <2>2 DEF IInv, IndexInv, OwnStats, TypeInv, TypeOK, Submissions
  <2> QED
    BY <2>1, <2>3 DEF IInv, BatchInv, SlotInv, OneSlotEach, CountInv, SeenInv,
                      Level, Current
<1>2. CASE Fits(b)
  <2> DEFINE n == Numbered(b)
             New == Range(n)
  <2>1. /\ Len(b) \in Nat \ {0} /\ n \in Seq(Submissions) /\ Len(n) = Len(b)
        /\ DOMAIN n = 1 .. Len(b) /\ New \subseteq Submissions
        /\ \A i \in 1 .. Len(b) : n[i].index = cSubmittedChains + i - 1
        /\ \A s \in New : \E i \in 1 .. Len(b) : s = n[i]
    BY NumberedType DEF Submit, IInv
  <2>2. \A i \in 1 .. Len(b) : n[i] \in New
    BY <2>1 DEF Range
  <2>3. /\ cSubmittedChains \in Nat
        /\ cSubmittedChains' = cSubmittedChains + Len(b)
        /\ cSubmittedChains' <= MaxAttempts /\ cSubmittedChains' <= kMaxChains
        /\ todo' = [todo EXCEPT ![t] = n] /\ pc' = [pc EXCEPT ![t] = "verify"]
        /\ pc[t] = "idle" /\ accepted' = accepted \cup New
        /\ UNCHANGED <<pChains, cChains, bIsQuitting, seen>>
    BY <1>2 DEF Submit, Fits, IInv, TypeInv, TypeOK
  <2> HIDE DEF n
  <2>4. /\ \A s \in accepted : s.index \in Nat /\ s.index < cSubmittedChains
        /\ \A s \in New : /\ s.index \in Nat /\ s.index >= cSubmittedChains
                         /\ s.index < cSubmittedChains'
    <3>1. \A s \in accepted : s.index \in Nat
      BY PriorityChainAssumption DEF IInv, TypeInv, TypeOK, Submissions
    <3>2. \A s \in accepted : s.index < cSubmittedChains
      BY DEF IInv, IndexInv
    <3>3. \A s \in New : /\ s.index \in Nat /\ s.index >= cSubmittedChains
                       /\ s.index < cSubmittedChains'
      BY <2>1, <2>3
    <3> QED BY <3>1, <3>2, <3>3
  <2>5. /\ New \cap accepted = {}
        /\ \A r, s \in New : r.index = s.index => r = s
        /\ \A i, j \in 1 .. Len(b) : n[i] = n[j] => i = j
    <3>1. New \cap accepted = {}
      BY <2>3, <2>4
    <3>2. \A r, s \in New : r.index = s.index => r = s
      <4> SUFFICES ASSUME NEW r \in New, NEW s \in New, r.index = s.index PROVE r = s
        OBVIOUS
      <4>1. PICK i \in 1 .. Len(b) : r = n[i]
        BY <2>1
      <4>2. PICK j \in 1 .. Len(b) : s = n[j]
        BY <2>1
      <4>3. i = j
        BY <2>1, <2>3, <4>1, <4>2
      <4> QED BY <4>1, <4>2, <4>3
    <3>3. \A i, j \in 1 .. Len(b) : n[i] = n[j] => i = j
      BY <2>1, <2>3
    <3> QED BY <3>1, <3>2, <3>3
  <2>6. IndexInv'
    <3>1. \A s \in accepted' : s.index < cSubmittedChains' /\ s.index < kMaxChains
      BY <2>1, <2>3, <2>4
    <3>2. ASSUME NEW r \in accepted', NEW s \in accepted', r.index = s.index
          PROVE  r = s
      <4>1. CASE r \in New /\ s \in New
        BY <2>5, <3>2, <4>1
      <4>2. CASE r \notin New /\ s \notin New
        BY <2>3, <3>2, <4>2 DEF IInv, IndexInv, OwnStats
      <4>3. CASE r \in New /\ s \notin New
        BY <2>3, <2>4, <3>2, <4>3
      <4>4. CASE r \notin New /\ s \in New
        BY <2>3, <2>4, <3>2, <4>4
      <4> QED BY <4>1, <4>2, <4>3, <4>4
    <3> QED BY <2>3, <3>1, <3>2 DEF IndexInv, OwnStats
  <2>7. /\ todo'[t] = n /\ pc'[t] = "verify"
        /\ \A u \in Threads \ {t} : todo'[u] = todo[u] /\ pc'[u] = pc[u]
    BY <2>3 DEF IInv, TypeInv, TypeOK
  <2>8. BatchInv'
    <3>1. \A u \in Threads : \A i \in 1 .. Len(todo'[u]) : todo'[u][i] \in accepted'
      BY <2>1, <2>2, <2>3, <2>7 DEF IInv, BatchInv
    <3>2. ASSUME NEW u \in Threads, NEW v \in Threads,
                 NEW i \in 1 .. Len(todo'[u]), NEW j \in 1 .. Len(todo'[v]),
                 todo'[u][i] = todo'[v][j]
          PROVE  u = v /\ i = j
      <4>1. CASE u = t /\ v = t
        BY <2>1, <2>5, <2>7, <3>2, <4>1
      <4>2. CASE u # t /\ v # t
        BY <2>7, <3>2, <4>2 DEF IInv, BatchInv
      <4>3. CASE u = t /\ v # t
        <5>1. todo'[u][i] \notin accepted /\ todo'[v][j] \in accepted
          BY <2>1, <2>2, <2>5, <2>7, <4>3 DEF IInv, BatchInv
        <5> QED BY <3>2, <5>1
      <4>4. CASE u # t /\ v = t
        <5>1. todo'[v][j] \notin accepted /\ todo'[u][i] \in accepted
          BY <2>1, <2>2, <2>5, <2>7, <4>4 DEF IInv, BatchInv
        <5> QED BY <3>2, <5>1
      <4> QED BY <4>1, <4>2, <4>3, <4>4
    <3> QED BY <3>1, <3>2 DEF BatchInv
  <2>9. SlotInv'
    BY <2>1, <2>2, <2>3, <2>5, <2>7 DEF IInv, SlotInv
  <2>10. OneSlotEach'
    BY <2>3 DEF IInv, OneSlotEach
  <2>11. \A u \in Threads : u # t => Current(u)' = Current(u) /\ Level(u)' = Level(u)
    BY <2>7 DEF Current, Level
  <2>12. CountInv'
    BY <2>3, <2>7, <2>11 DEF IInv, CountInv
  <2>13. SeenInv'
    BY <2>3, <2>7, <2>11 DEF IInv, SeenInv
  <2> QED BY <2>6, <2>8, <2>9, <2>10, <2>12, <2>13 DEF IInv
<1> QED BY <1>1, <1>2

\* Going on with the next chain: t holds a suffix of what it held, and the
\* chains it still has to publish are in no slot.
LEMMA AdvanceStep ==
  ASSUME IInv, NEW t \in Threads, pc[t] # "idle", NextChain(t),
         UNCHANGED <<pChains, accepted>>
  PROVE  /\ BatchInv' /\ SlotInv'
         /\ pc'[t] \in {"idle", "verify"}
         /\ \A u \in Threads \ {t} : pc'[u] = pc[u] /\ todo'[u] = todo[u]
<1>1. /\ Len(todo[t]) \in Nat \ {0} /\ todo'[t] = Tail(todo[t])
      /\ Len(todo'[t]) = Len(todo[t]) - 1
      /\ \A i \in 1 .. Len(todo'[t]) : todo'[t][i] = todo[t][i + 1]
                                       /\ i + 1 \in 1 .. Len(todo[t]) /\ i + 1 # 1
  BY CurrentType DEF NextChain, IInv, TypeInv, TypeOK
<1>2. /\ pc'[t] \in {"idle", "verify"}
      /\ \A u \in Threads \ {t} : pc'[u] = pc[u] /\ todo'[u] = todo[u]
  BY DEF NextChain, IInv, TypeInv, TypeOK
<1>3. accepted' = accepted
  OBVIOUS
<1> DEFINE shift(u) == IF u = t THEN 1 ELSE 0
<1>4. ASSUME NEW u \in Threads, NEW i \in 1 .. Len(todo'[u])
      PROVE  /\ i + shift(u) \in 1 .. Len(todo[u])
             /\ todo'[u][i] = todo[u][i + shift(u)]
  <2>1. CASE u = t
    BY <1>1, <1>4, <2>1
  <2>2. CASE u # t
    <3>1. todo[u] \in Seq(Submissions)
      BY DEF IInv, TypeInv, TypeOK
    <3> QED BY <1>2, <1>4, <2>2, <3>1
  <2> QED BY <2>1, <2>2
<1>5. BatchInv'
  <2>1. ASSUME NEW u \in Threads, NEW i \in 1 .. Len(todo'[u])
        PROVE  todo'[u][i] \in accepted'
    <3>1. todo[u][i + shift(u)] \in accepted
      <4> HIDE DEF shift
      <4> QED BY <1>4 DEF IInv, BatchInv
    <3> QED BY <1>3, <1>4, <3>1
  <2>2. ASSUME NEW u \in Threads, NEW v \in Threads,
               NEW i \in 1 .. Len(todo'[u]), NEW j \in 1 .. Len(todo'[v]),
               todo'[u][i] = todo'[v][j]
        PROVE  u = v /\ i = j
    <3>1. todo[u][i + shift(u)] = todo[v][j + shift(v)]
      BY <1>4, <2>2
    <3>2. u = v /\ i + shift(u) = j + shift(v)
      <4> HIDE DEF shift
      <4> QED BY <1>4, <3>1 DEF IInv, BatchInv
    <3> QED BY <3>2
  <2> QED BY <2>1, <2>2 DEF BatchInv
<1>6. SlotInv'
  <2> SUFFICES ASSUME NEW l \in Levels, NEW i \in Slots, pChains[l][i] # NoChain,
                      NEW u \in Threads, NEW j \in 1 .. Len(todo'[u]),
                      todo'[u][j] = pChains[l][i]
               PROVE  j = 1 /\ pc'[u] = "inc"
    <3>1. \A l \in Levels : \A i \in Slots : pChains[l][i] # NoChain =>
            pChains[l][i] \in accepted /\ Priority[pChains[l][i].chain] = l
      BY DEF IInv, SlotInv
    <3> QED BY <1>3, <3>1 DEF SlotInv
  <2>1. j + shift(u) = 1 /\ pc[u] = "inc"
    <3> HIDE DEF shift
    <3> QED BY <1>4 DEF IInv, SlotInv
  <2> QED BY <1>2, <2>1
<1> QED BY <1>2, <1>5, <1>6

\* A failed attempt that is given up while the scheduler quits, or tried again.
LEMMA SpinStep ==
  ASSUME IInv, TypeInv', NEW t \in Threads, Spin(t)
  PROVE  IInv'
<1>1. IndexInv' /\ OneSlotEach'
  BY DEF Spin, IInv, IndexInv, OneSlotEach, OwnStats
<1>2. /\ BatchInv' /\ SlotInv'
      /\ pc'[t] \notin {"cas", "inc"}
      /\ \A u \in Threads \ {t} : pc'[u] = pc[u] /\ todo'[u] = todo[u]
  <2>1. CASE NextChain(t)
    BY <2>1, AdvanceStep DEF Spin
  <2>2. CASE ~NextChain(t)
    <3>1. todo' = todo /\ pc' = [pc EXCEPT ![t] = "read"] /\ pc[t] = "spin"
      BY <2>2 DEF Spin
    <3>2. UNCHANGED <<pChains, accepted>> /\ accepted' = accepted
      BY DEF Spin
    <3> QED BY <3>1, <3>2 DEF IInv, BatchInv, SlotInv, TypeInv, TypeOK
  <2> QED BY <2>1, <2>2
<1>3. \A u \in Threads \ {t} : Current(u)' = Current(u) /\ Level(u)' = Level(u)
  BY <1>2 DEF Current, Level
<1>4. pc[t] = "spin" /\ UNCHANGED <<pChains, cChains, seen>>
  BY DEF Spin
<1>5. CountInv' /\ SeenInv'
  BY <1>2, <1>3, <1>4 DEF IInv, CountInv, SeenInv
<1> QED BY <1>1, <1>2, <1>5 DEF IInv

\* The capacity test ahead of the loop, and the read of the count.
LEMMA ReadStep ==
  ASSUME IInv, TypeInv', NEW t \in Threads, Verify(t) \/ ReadCount(t)
  PROVE  IInv'
<1>1. /\ pc[t] \in {"verify", "read"} /\ todo' = todo
      /\ UNCHANGED <<cSubmittedChains, pChains, cChains, accepted>>
      /\ pc'[t] \in {"read", "cas"}
      /\ \A u \in Threads \ {t} : pc'[u] = pc[u] /\ seen'[u] = seen[u]
      /\ pc'[t] = "cas" => seen'[t] = cChains[Level(t)]
  BY RoomLeft DEF Verify, ReadCount, IInv, TypeInv, TypeOK
<1>2. /\ accepted' = accepted
      /\ \A u \in Threads : Current(u)' = Current(u) /\ Level(u)' = Level(u)
  BY <1>1 DEF Current, Level
<1>3. IndexInv' /\ OneSlotEach' /\ BatchInv' /\ SlotInv'
  BY <1>1, <1>2 DEF IInv, IndexInv, OwnStats, OneSlotEach, BatchInv, SlotInv
<1>4. CountInv'
  BY <1>1, <1>2 DEF IInv, CountInv
<1>5. SeenInv'
  <2>1. cChains[Level(t)] \in Nat
    BY <1>1, CurrentType DEF IInv, TypeInv, TypeOK
  <2>2. ASSUME NEW u \in Threads
        PROVE  /\ pc'[u] = "cas" => seen'[u] <= cChains'[Level(u)']
               /\ pc'[u] = "inc" => /\ seen'[u] = cChains'[Level(u)']
                                    /\ seen'[u] \in Slots
                                    /\ pChains'[Level(u)'][seen'[u]] = Current(u)'
    <3>1. CASE u = t
      BY <1>1, <1>2, <2>1, <3>1
    <3>2. CASE u # t
      BY <1>1, <1>2, <3>2 DEF IInv, SeenInv
    <3> QED BY <3>1, <3>2
  <2> QED BY <2>2 DEF SeenInv
<1> QED BY <1>3, <1>4, <1>5 DEF IInv

\* The compare-and-swap: the winner's chain goes to the slot at the count, and
\* into no other; a loser changes nothing but its place in the loop.
LEMMA ClaimStep ==
  ASSUME IInv, TypeInv', ~CasSwapped, NEW t \in Threads, Claim(t)
  PROVE  IInv'
<1> DEFINE l == Level(t)
           s == seen[t]
<1>1. /\ pc[t] = "cas" /\ todo' = todo
      /\ UNCHANGED <<cSubmittedChains, cChains, accepted, seen>>
      /\ \A u \in Threads \ {t} : pc'[u] = pc[u]
  BY DEF Claim, IInv, TypeInv, TypeOK
<1>2. /\ l \in Levels /\ Current(t) = todo[t][1] /\ 1 \in 1 .. Len(todo[t])
      /\ Current(t) \in Submissions /\ Priority[Current(t).chain] = l
  BY <1>1, CurrentType DEF IInv, Level
<1>3. s \in Slots /\ s <= cChains[l] /\ cChains[l] \in Nat
  <2>1. cChains[l] < kMaxChains /\ s <= cChains[l]
    BY <1>1, RoomLeft DEF IInv, SeenInv
  <2>2. s \in Nat /\ cChains[l] \in Nat
    BY <1>2 DEF IInv, TypeInv, TypeOK
  <2> QED BY <2>1, <2>2, PriorityChainAssumption DEF Slots
<1>4. /\ accepted' = accepted
      /\ \A u \in Threads : Current(u)' = Current(u) /\ Level(u)' = Level(u)
  BY <1>1 DEF Current, Level
<1>5. IndexInv' /\ BatchInv'
  BY <1>1, <1>4 DEF IInv, IndexInv, OwnStats, BatchInv
<1>6. CASE pChains[l][s] # NoChain
  <2>1. pChains' = pChains /\ pc'[t] = "spin"
    BY <1>2, <1>3, <1>6 DEF Claim, CompareExchange, IInv, TypeInv, TypeOK
  <2>2. SlotInv' /\ OneSlotEach'
    BY <1>1, <1>4, <2>1 DEF IInv, SlotInv, OneSlotEach
  <2>3. CountInv' /\ SeenInv'
    BY <1>1, <1>4, <2>1 DEF IInv, CountInv, SeenInv
  <2> QED BY <1>5, <2>2, <2>3 DEF IInv
<1>7. CASE pChains[l][s] = NoChain
  <2>1. /\ pc'[t] = "inc"
        /\ pChains'[l][s] = Current(t)
        /\ \A m \in Levels : \A i \in Slots :
             ~(m = l /\ i = s) => pChains'[m][i] = pChains[m][i]
    BY <1>2, <1>3, <1>7 DEF Claim, CompareExchange, IInv, TypeInv, TypeOK
  <2>2. s = cChains[l]
    <3>1. ~(s < cChains[l])
      BY <1>2, <1>3, <1>7 DEF IInv, CountInv
    <3>2. s \in Nat
      BY <1>3, PriorityChainAssumption DEF Slots
    <3> QED BY <1>3, <3>1, <3>2
  <2>3. /\ Current(t) \in accepted /\ Current(t) # NoChain
        /\ \A m \in Levels : \A i \in Slots : pChains[m][i] # Current(t)
    BY <1>1, <1>2, PriorityChainAssumption DEF IInv, BatchInv, SlotInv
  <2>4. ASSUME NEW m \in Levels, NEW i \in Slots, pChains'[m][i] # NoChain
        PROVE  /\ pChains'[m][i] \in accepted'
               /\ Priority[pChains'[m][i].chain] = m
               /\ \A u \in Threads : \A j \in 1 .. Len(todo'[u]) :
                    todo'[u][j] = pChains'[m][i] => j = 1 /\ pc'[u] = "inc"
    <3>1. CASE m = l /\ i = s
      BY <1>1, <1>2, <1>4, <2>1, <2>3, <3>1 DEF IInv, BatchInv
    <3>2. CASE ~(m = l /\ i = s)
      BY <1>1, <1>4, <2>1, <2>4, <3>2 DEF IInv, SlotInv
    <3> QED BY <3>1, <3>2
  <2>5. SlotInv'
    BY <2>4 DEF SlotInv
  <2>6. OneSlotEach'
    <3> SUFFICES ASSUME NEW m \in Levels, NEW n \in Levels,
                        NEW i \in Slots, NEW j \in Slots,
                        pChains'[m][i] # NoChain, pChains'[m][i] = pChains'[n][j]
                 PROVE  m = n /\ i = j
      BY <2>4 DEF OneSlotEach
    <3>1. CASE m = l /\ i = s
      BY <2>1, <2>3, <3>1
    <3>2. CASE n = l /\ j = s
      BY <2>1, <2>3, <3>2
    <3>3. CASE ~(m = l /\ i = s) /\ ~(n = l /\ j = s)
      BY <2>1, <3>3 DEF IInv, OneSlotEach
    <3> QED BY <3>1, <3>2, <3>3
  <2>7. CountInv'
    <3> SUFFICES ASSUME NEW m \in Levels
                 PROVE  /\ \A i \in Slots : i < cChains[m] => pChains'[m][i] # NoChain
                        /\ \A i \in Slots : i > cChains[m] => pChains'[m][i] = NoChain
                        /\ cChains[m] <= kMaxChains
                        /\ \A i \in Slots : i = cChains[m] /\ pChains'[m][i] # NoChain =>
                             \E u \in Threads :
                               pc'[u] = "inc" /\ Current(u)' = pChains'[m][i]
      BY <1>1 DEF CountInv
    <3>1. CASE m = l
      BY <1>3, <2>1, <2>2, <1>4, <2>3, <3>1 DEF IInv, CountInv
    <3>2. CASE m # l
      <4>1. \A i \in Slots : pChains'[m][i] = pChains[m][i]
        BY <2>1, <3>2
      <4> QED BY <1>1, <1>4, <4>1 DEF IInv, CountInv
    <3> QED BY <3>1, <3>2
  <2>8. SeenInv'
    <3> SUFFICES ASSUME NEW u \in Threads
                 PROVE  /\ pc'[u] = "cas" => seen[u] <= cChains[Level(u)]
                        /\ pc'[u] = "inc" => /\ seen[u] = cChains[Level(u)]
                                             /\ seen[u] \in Slots
                                             /\ pChains'[Level(u)][seen[u]] = Current(u)
      BY <1>1, <1>4 DEF SeenInv
    <3>1. CASE u = t
      BY <1>3, <2>1, <2>2, <3>1
    <3>2. CASE u # t /\ pc[u] = "inc"
      <4>1. /\ Level(u) \in Levels /\ seen[u] \in Slots
            /\ Current(u) \in Submissions
            /\ pChains[Level(u)][seen[u]] = Current(u)
            /\ seen[u] = cChains[Level(u)]
        BY <3>2, CurrentType DEF IInv, SeenInv
      <4>2. ~(Level(u) = l /\ seen[u] = s)
        BY <1>7, <4>1, PriorityChainAssumption
      <4> QED BY <1>1, <2>1, <3>2, <4>1, <4>2
    <3>3. CASE u # t /\ pc[u] # "inc"
      BY <1>1, <3>3 DEF IInv, SeenInv
    <3> QED BY <3>1, <3>2, <3>3
  <2> QED BY <1>5, <2>5, <2>6, <2>7, <2>8 DEF IInv
<1> QED BY <1>6, <1>7

\* The increment: the slot t holds is the one at the count, so the slots below
\* the new count are taken and nobody else holds a slot of this level.
LEMMA PublishStep ==
  ASSUME IInv, TypeInv', NEW t \in Threads, Publish(t)
  PROVE  IInv'
<1> DEFINE l == Level(t)
<1>1. /\ pc[t] = "inc"
      /\ UNCHANGED <<cSubmittedChains, pChains, accepted, seen>>
      /\ NextChain(t)
  BY DEF Publish
<1>2. /\ l \in Levels /\ Current(t) = todo[t][1] /\ 1 \in 1 .. Len(todo[t])
      /\ Priority[Current(t).chain] = l
  BY <1>1, CurrentType DEF IInv, Level
<1>3. /\ cChains[l] \in Nat /\ cChains'[l] = cChains[l] + 1
      /\ \A m \in Levels \ {l} : cChains'[m] = cChains[m]
  BY <1>2 DEF Publish, IInv, TypeInv, TypeOK
<1>4. /\ BatchInv' /\ SlotInv' /\ pc'[t] \in {"idle", "verify"}
      /\ \A u \in Threads \ {t} : pc'[u] = pc[u] /\ todo'[u] = todo[u]
  BY <1>1, AdvanceStep
<1>5. \A u \in Threads \ {t} : Current(u)' = Current(u) /\ Level(u)' = Level(u)
  BY <1>4 DEF Current, Level
<1>6. IndexInv' /\ OneSlotEach'
  BY <1>1 DEF IInv, IndexInv, OneSlotEach, OwnStats
<1>7. /\ seen[t] = cChains[l] /\ seen[t] \in Slots
      /\ pChains[l][seen[t]] = Current(t) /\ Current(t) # NoChain
  BY <1>1, CurrentType, PriorityChainAssumption DEF IInv, SeenInv
<1>8. CountInv'
  <2> SUFFICES ASSUME NEW m \in Levels
               PROVE  /\ \A i \in Slots : i < cChains'[m] => pChains[m][i] # NoChain
                      /\ \A i \in Slots : i > cChains'[m] => pChains[m][i] = NoChain
                      /\ cChains'[m] <= kMaxChains
                      /\ \A i \in Slots : i = cChains'[m] /\ pChains[m][i] # NoChain =>
                           \E u \in Threads : pc'[u] = "inc" /\ Current(u)' = pChains[m][i]
    BY <1>1 DEF CountInv
  <2>1. CASE m = l
    <3>1. \A i \in Slots : i \in Int /\ i + 1 <= kMaxChains
      BY PriorityChainAssumption DEF Slots
    <3> QED BY <1>3, <1>7, <2>1, <3>1 DEF IInv, CountInv
  <2>2. CASE m # l
    <3>1. ASSUME NEW i \in Slots, i = cChains[m], pChains[m][i] # NoChain
          PROVE  \E u \in Threads : pc'[u] = "inc" /\ Current(u)' = pChains[m][i]
      <4>1. PICK u \in Threads : pc[u] = "inc" /\ Current(u) = pChains[m][i]
        BY <3>1 DEF IInv, CountInv
      <4>2. u # t
        BY <1>2, <2>2, <3>1, <4>1 DEF IInv, SlotInv
      <4> QED BY <1>4, <1>5, <4>1, <4>2
    <3> QED BY <1>3, <2>2, <3>1 DEF IInv, CountInv
  <2> QED BY <2>1, <2>2
<1>9. SeenInv'
  <2> SUFFICES ASSUME NEW u \in Threads \ {t}
               PROVE  /\ pc[u] = "cas" => seen[u] <= cChains'[Level(u)]
                      /\ pc[u] = "inc" => /\ seen[u] = cChains'[Level(u)]
                                          /\ seen[u] \in Slots
                                          /\ pChains[Level(u)][seen[u]] = Current(u)
    BY <1>1, <1>4, <1>5 DEF SeenInv
  <2>1. CASE pc[u] = "cas"
    <3>1. Level(u) \in Levels /\ seen[u] \in Nat /\ cChains[Level(u)] \in Nat
      BY <2>1, CurrentType DEF IInv, TypeInv, TypeOK
    <3>2. seen[u] <= cChains[Level(u)]
      BY <2>1 DEF IInv, SeenInv
    <3> QED BY <1>3, <2>1, <3>1, <3>2
  <2>2. CASE pc[u] = "inc"
    <3>1. /\ Level(u) \in Levels /\ Current(u) = todo[u][1] /\ 1 \in 1 .. Len(todo[u])
      BY <2>2, CurrentType DEF IInv
    <3>2. Current(u) # Current(t)
      BY <1>2, <3>1 DEF IInv, BatchInv
    <3>3. Level(u) # l
      BY <1>7, <2>2, <3>2 DEF IInv, SeenInv
    <3> QED BY <1>3, <2>2, <3>1, <3>3 DEF IInv, SeenInv
  <2> QED BY <2>1, <2>2
<1> QED BY <1>4, <1>6, <1>8, <1>9 DEF IInv

LEMMA SafeStep == ~CasSwapped /\ IInv /\ [Next]_vars => IInv'
<1> SUFFICES ASSUME ~CasSwapped, IInv, [Next]_vars PROVE IInv'
  OBVIOUS
<1>1. TypeInv'
  BY TypeStep DEF IInv
<1>2. CASE \E t \in Threads : \E b \in Batches : Submit(t, b)
  BY <1>1, <1>2, SubmitStep
<1>3. CASE \E t \in Threads : Verify(t) \/ ReadCount(t)
  BY <1>1, <1>3, ReadStep
<1>4. CASE \E t \in Threads : Claim(t)
  BY <1>1, <1>4, ClaimStep
<1>5. CASE \E t \in Threads : Spin(t)
  BY <1>1, <1>5, SpinStep
<1>6. CASE \E t \in Threads : Publish(t)
  BY <1>1, <1>6, PublishStep
<1>7. CASE Quit \/ UNCHANGED vars
  <2>1. UNCHANGED <<cSubmittedChains, pChains, cChains, accepted, pc, todo, seen>>
    BY <1>7 DEF Quit, vars
  <2> QED
    BY <1>1, <2>1 DEF IInv, IndexInv, OwnStats, BatchInv, SlotInv, OneSlotEach,
                      CountInv, SeenInv, Current, Level
<1> QED BY <1>2, <1>3, <1>4, <1>5, <1>6, <1>7 DEF Next, Step

\* NoHole, OneSlotEach, ClaimInBounds and OwnStats: with a compare-and-swap
\* that stores what it is given, SubmitToPriorityChain never counts an empty
\* slot, never enters one submission twice or two in one slot, and never leaves
\* its arrays, whatever arrays of chains its callers hand to Submit.
THEOREM PublishesSafely ==
  ASSUME ~CasSwapped
  PROVE  Spec => [](NoHole /\ OneSlotEach /\ ClaimInBounds /\ OwnStats)
<1>1. IInv => NoHole /\ OneSlotEach /\ OwnStats
  BY DEF IInv, CountInv, NoHole, IndexInv
<1>2. IInv => ClaimInBounds
  <2> SUFFICES ASSUME IInv, NEW t \in Threads, pc[t] = "cas" PROVE seen[t] < kMaxChains
    BY DEF ClaimInBounds
  <2>1. seen[t] <= cChains[Level(t)] /\ cChains[Level(t)] < kMaxChains
    BY RoomLeft DEF IInv, SeenInv
  <2>2. seen[t] \in Nat /\ cChains[Level(t)] \in Nat
    BY CurrentType DEF IInv, TypeInv, TypeOK
  <2> QED BY <2>1, <2>2, PriorityChainAssumption
<1> QED BY <1>1, <1>2, SafeInit, SafeStep, PTL DEF Spec

\* What is published stays: the swap only fills the slot at the count.
LEMMA KeepStep ==
  ASSUME ~CasSwapped, IInv, [Next]_vars,
         NEW l \in Levels, NEW i \in Slots, i < cChains[l]
  PROVE  cChains'[l] >= cChains[l] /\ pChains'[l][i] = pChains[l][i]
<1>1. cChains[l] \in Nat /\ pChains[l][i] # NoChain
  BY DEF IInv, CountInv, TypeInv, TypeOK
<1>2. CASE UNCHANGED <<pChains, cChains>>
  BY <1>1, <1>2
<1>3. ASSUME NEW t \in Threads, Claim(t)
      PROVE  cChains'[l] >= cChains[l] /\ pChains'[l][i] = pChains[l][i]
  BY <1>1, <1>3 DEF Claim, CompareExchange, IInv, TypeInv, TypeOK
<1>4. ASSUME NEW t \in Threads, Publish(t)
      PROVE  cChains'[l] >= cChains[l] /\ pChains'[l][i] = pChains[l][i]
  BY <1>1, <1>4 DEF Publish, IInv, TypeInv, TypeOK
<1> QED
  BY <1>2, <1>3, <1>4
  DEF Next, Step, Submit, Verify, ReadCount, Spin, Quit, vars

\* Stable: what ExecuteUntilNoWork may read in a slot below cChains is never
\* moved, replaced or withdrawn while chains are being submitted.
THEOREM PublishedIsStable == ASSUME ~CasSwapped PROVE Spec => Stable
<1>1. IInv /\ [Next]_vars =>
        \A l \in Levels : \A i \in Slots :
          i < cChains[l] => cChains'[l] >= cChains[l] /\ pChains'[l][i] = pChains[l][i]
  BY KeepStep
<1> QED BY <1>1, SafeInit, SafeStep, PTL DEF Spec, Stable

\* AppendsAtomically: publication implements ChainLog.  Submit accepts, Publish
\* appends what was accepted and not yet appended, and every other step leaves
\* the published prefixes alone: what Submit accepted is entered once, with its
\* own number, also when the chain was submitted before.
THEOREM ImplementsLog == ASSUME ~CasSwapped PROVE Spec => AppendsAtomically
<1>1. Init => Log!Init
  <2> SUFFICES ASSUME Init PROVE accepted = {} /\ log = [l \in Levels |-> <<>>]
    BY DEF Log!Init
  <2>1. \A l \in Levels : [i \in 1 .. cChains[l] |-> pChains[l][i - 1]] = <<>>
    BY DEF Init
  <2> QED BY <2>1 DEF log, Init
<1>2. ASSUME IInv, IInv', [Next]_vars PROVE [Log!Next]_<<accepted, log>>
  <2>1. ASSUME NEW t \in Threads, Publish(t) PROVE Log!Next
    <3> DEFINE l == Level(t)
               c == Current(t)
               n == cChains[l]
    <3>1. pc[t] = "inc" /\ pChains' = pChains /\ accepted' = accepted
      BY <2>1 DEF Publish
    <3>2. l \in Levels /\ c \in Submissions /\ Priority[c.chain] = l
      BY <3>1, CurrentType, <1>2 DEF IInv, Level
    <3>3. /\ n \in Nat /\ cChains'[l] = n + 1
          /\ \A m \in Levels \ {l} : cChains'[m] = cChains[m]
      BY <1>2, <2>1, <3>2 DEF Publish, IInv, TypeInv, TypeOK
    <3>4. n \in Slots /\ pChains[l][n] = c
      BY <1>2, <3>1 DEF IInv, SeenInv
    <3>5. c \in accepted
      BY <1>2, <3>2, <3>4, PriorityChainAssumption DEF IInv, SlotInv
    <3>6. c \notin Log!Logged
      <4> SUFFICES ASSUME NEW m \in Levels, NEW i \in 1 .. cChains[m],
                          pChains[m][i - 1] = c
                   PROVE  FALSE
        BY DEF Log!Logged, log
      <4>1. cChains[m] \in Nat
        BY <1>2 DEF IInv, TypeInv, TypeOK
      <4>2. i - 1 \in Slots
        BY <1>2, <4>1, PriorityChainAssumption DEF IInv, CountInv, Slots
      <4>3. m = l /\ i - 1 = n
        BY <1>2, <3>2, <3>4, <4>2, PriorityChainAssumption DEF IInv, OneSlotEach
      <4> QED BY <3>3, <4>3
    <3>7. log' = [log EXCEPT ![l] = Append(@, c)]
      <4>1. \A m \in Levels \ {l} : log'[m] = log[m]
        BY <3>1, <3>3 DEF log
      <4>2. log'[l] = Append(log[l], c)
        <5>1. log[l] = [i \in 1 .. n |-> pChains[l][i - 1]]
              /\ log'[l] = [i \in 1 .. n + 1 |-> pChains[l][i - 1]]
          BY <3>1, <3>2, <3>3 DEF log
        <5>2. Len(log[l]) = n
          BY <3>3, <5>1
        <5> QED BY <3>3, <3>4, <5>1, <5>2
      <4>3. log' = [m \in Levels |-> log'[m]]
        BY DEF log
      <4>4. log = [m \in Levels |-> log[m]]
        BY DEF log
      <4> QED BY <3>2, <4>1, <4>2, <4>3, <4>4
    <3> QED BY <3>1, <3>2, <3>5, <3>6, <3>7 DEF Log!Next, Log!AppendChain
  <2>2. ASSUME \A t \in Threads : ~Publish(t) PROVE UNCHANGED log
    <3>1. cChains' = cChains
      BY <1>2, <2>2 DEF Next, Step, Submit, Verify, ReadCount, Claim, Spin, Quit, vars
    <3>2. ASSUME NEW l \in Levels, NEW i \in 1 .. cChains[l]
          PROVE  pChains'[l][i - 1] = pChains[l][i - 1]
      <4>1. cChains[l] \in Nat /\ cChains[l] <= kMaxChains
        BY <1>2 DEF IInv, CountInv, TypeInv, TypeOK
      <4>2. i - 1 \in Slots /\ i - 1 < cChains[l]
        BY <4>1, PriorityChainAssumption DEF Slots
      <4> QED BY <1>2, <4>2, KeepStep
    <3> QED BY <3>1, <3>2 DEF log
  <2>3. accepted \subseteq accepted' /\ accepted' \subseteq Submissions
    <3>1. accepted' \subseteq Submissions
      BY <1>2 DEF IInv, TypeInv, TypeOK
    <3>2. accepted \subseteq accepted'
      BY <1>2 DEF Next, Step, Submit, Verify, ReadCount, Claim, Spin, Publish, Quit, vars
    <3> QED BY <3>1, <3>2
  <2> QED BY <2>1, <2>2, <2>3 DEF Log!Next, Log!Accept
<1> QED BY <1>1, <1>2, SafeInit, SafeStep, PTL DEF Spec, AppendsAtomically, Log!Spec

\* NoHole alone: what ExecuteUntilNoWork dereferences below cChains is a chain.
THEOREM CountsNoHole == ASSUME ~CasSwapped PROVE Spec => []NoHole
<1>1. NoHole /\ OneSlotEach /\ ClaimInBounds /\ OwnStats => NoHole
  OBVIOUS
<1> QED BY <1>1, PublishesSafely, PTL

-----------------------------------------------------------------------------

\* What a step does to the places of a submission: published, it stays so; in a
\* batch, it leaves the batch only when it is published, or when the scheduler
\* quits; accepted, it starts in a batch.
LEMMA PublishedStays ==
  ASSUME ~CasSwapped, IInv, [Next]_vars, NEW c \in Submissions, Published(c)
  PROVE  Published(c)'
<1>1. Priority[c.chain] \in Levels
  BY PriorityChainAssumption DEF Submissions
<1>2. PICK i \in Slots : i < cChains[Priority[c.chain]] /\ pChains[Priority[c.chain]][i] = c
  BY DEF Published
<1>3. cChains'[Priority[c.chain]] >= cChains[Priority[c.chain]] /\ pChains'[Priority[c.chain]][i] = c
  BY <1>1, <1>2, KeepStep
<1>4. cChains[Priority[c.chain]] \in Nat /\ cChains'[Priority[c.chain]] \in Nat /\ i \in Int
  BY <1>1, SafeStep DEF IInv, TypeInv, TypeOK, Slots
<1>5. i < cChains'[Priority[c.chain]]
  BY <1>2, <1>3, <1>4
<1> QED BY <1>3, <1>5 DEF Published

\* NextChain drops the current chain of the batch and no other.
LEMMA NextKeeps ==
  ASSUME IInv, NEW t \in Threads, pc[t] # "idle", NextChain(t),
         NEW c \in Submissions, InFlight(c), c # Current(t)
  PROVE  InFlight(c)'
<1>1. todo \in [Threads -> Seq(Submissions)]
  BY DEF IInv, TypeInv, TypeOK
<1>2. /\ todo[t] \in Seq(Submissions) /\ Len(todo[t]) \in Nat \ {0} /\ Current(t) = todo[t][1]
      /\ Tail(todo[t]) \in Seq(Submissions) /\ Len(Tail(todo[t])) = Len(todo[t]) - 1
      /\ \A i \in 1 .. Len(todo[t]) - 1 : Tail(todo[t])[i] = todo[t][i + 1]
  BY CurrentType DEF IInv
<1>3. todo'[t] = Tail(todo[t]) /\ \A u \in Threads \ {t} : todo'[u] = todo[u]
  BY <1>1 DEF NextChain
<1>4. PICK u \in Threads : \E i \in DOMAIN todo[u] : todo[u][i] = c
  BY DEF InFlight
<1>5. CASE u # t
  BY <1>3, <1>4, <1>5 DEF InFlight
<1>6. CASE u = t
  <2>1. PICK i \in 1 .. Len(todo[t]) : todo[t][i] = c
    BY <1>2, <1>4, <1>6
  <2>2. i - 1 \in 1 .. Len(todo[t]) - 1 /\ (i - 1) + 1 = i
    BY <1>2, <2>1
  <2>3. i - 1 \in DOMAIN todo'[t] /\ todo'[t][i - 1] = c
    BY <1>2, <1>3, <2>1, <2>2
  <2> QED BY <2>3 DEF InFlight
<1> QED BY <1>5, <1>6

LEMMA LostStep ==
  ASSUME ~CasSwapped, IInv, NoLostChain, [Next]_vars
  PROVE  NoLostChain'
<1> SUFFICES ASSUME ~bIsQuitting', NEW c \in accepted'
             PROVE  Published(c)' \/ InFlight(c)'
  BY DEF NoLostChain
<1>0. todo \in [Threads -> Seq(Submissions)] /\ ~bIsQuitting /\ c \in Submissions
  BY TypeStep DEF IInv, TypeInv, TypeOK, Next, Step, Submit, Verify, ReadCount, Claim, Spin, Publish, Quit, vars
<1>1. CASE Published(c)
  BY <1>0, <1>1, PublishedStays
<1>2. CASE c \in accepted /\ InFlight(c)
  <2>1. ASSUME UNCHANGED todo PROVE InFlight(c)'
    BY <1>2, <2>1 DEF InFlight
  <2>2. ASSUME NEW t \in Threads, NEW b \in Batches, Submit(t, b) PROVE InFlight(c)'
    <3>1. PICK u \in Threads : \E i \in DOMAIN todo[u] : todo[u][i] = c
      BY <1>2 DEF InFlight
    <3>2. pc[t] = "idle" /\ todo[t] = <<>>
      BY <2>2 DEF Submit, IInv, TypeInv, BusyHasWork
    <3>3. u # t
      BY <3>1, <3>2
    <3>4. todo'[u] = todo[u]
      BY <1>0, <2>2, <3>3 DEF Submit
    <3> QED BY <3>1, <3>4 DEF InFlight
  <2>3. ASSUME NEW t \in Threads, Verify(t) \/ Spin(t) PROVE InFlight(c)'
    <3>1. pc[t] \in {"verify", "spin"} /\ cChains[Level(t)] < kMaxChains
      BY <2>3, RoomLeft DEF Verify, Spin
    <3>2. cChains[Level(t)] \in Nat /\ kMaxChains \in Nat
      BY <3>1, CurrentType, PriorityChainAssumption DEF IInv, TypeInv, TypeOK
    <3>3. UNCHANGED todo
      BY <1>0, <2>3, <3>1, <3>2 DEF Verify, Spin
    <3> QED BY <2>1, <3>3
  <2>4. ASSUME NEW t \in Threads, Publish(t) PROVE Published(c)' \/ InFlight(c)'
    <3>1. pc[t] = "inc" /\ NextChain(t) /\ pChains' = pChains
          /\ cChains' = [cChains EXCEPT ![Level(t)] = @ + 1]
      BY <2>4 DEF Publish
    <3>2. CASE c # Current(t)
      BY <1>0, <1>2, <3>1, <3>2, NextKeeps
    <3>3. CASE c = Current(t)
      <4>1. Level(t) \in Levels /\ Level(t) = Priority[c.chain] /\ cChains \in [Levels -> Nat]
        BY <3>1, <3>3, CurrentType DEF IInv, TypeInv, TypeOK, Level
      <4>2. /\ seen[t] = cChains[Level(t)] /\ seen[t] \in Slots
            /\ pChains[Level(t)][seen[t]] = c
        BY <3>1, <3>3 DEF IInv, SeenInv
      <4>3. seen[t] < cChains'[Level(t)]
        BY <3>1, <4>1, <4>2
      <4> QED BY <3>1, <4>1, <4>2, <4>3 DEF Published
    <3> QED BY <3>2, <3>3
  <2> QED
    BY <2>1, <2>2, <2>3, <2>4 DEF Next, Step, ReadCount, Claim, Quit, vars
<1>3. CASE c \notin accepted
  <2>1. PICK t \in Threads, b \in Batches : Submit(t, b)
    BY <1>3 DEF Next, Step, Verify, ReadCount, Claim, Spin, Publish, Quit, vars
  <2>2. Fits(b) /\ c \in Range(Numbered(b))
    BY <1>3, <2>1 DEF Submit
  <2>3. \E i \in DOMAIN Numbered(b) : Numbered(b)[i] = c
    BY <2>2 DEF Range
  <2>4. todo'[t] = Numbered(b)
    BY <1>0, <2>1, <2>2 DEF Submit
  <2> QED BY <2>3, <2>4 DEF InFlight
<1> QED BY <1>0, <1>1, <1>2, <1>3 DEF NoLostChain

\* NoLostChain: nothing Submit accepted is dropped before the scheduler quits,
\* however its submitters interleave: the room SubmitToPriorityChain tests for
\* was reserved by the atomic add, so the test cannot fail.
THEOREM LosesNoChain == ASSUME ~CasSwapped PROVE Spec => []NoLostChain
<1>1. Init => NoLostChain
  BY DEF Init, NoLostChain
<1>2. (IInv /\ NoLostChain) /\ [Next]_vars => (IInv /\ NoLostChain)'
  BY SafeStep, LostStep
<1> QED BY <1>1, <1>2, SafeInit, PTL DEF Spec
=============================================================================
