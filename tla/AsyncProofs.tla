---------------------------- MODULE AsyncProofs ----------------------------
(***************************************************************************)
(* What the objects of the Async library promise, for any number of        *)
(* threads: the reader-writer lock and the spin lock exclude, the          *)
(* semaphore's counter keeps its bounds, the barrier's event is on when    *)
(* its level has reached the target, and one thread runs on a thread       *)
(* object.                                                                 *)
(*                                                                         *)
(* The reader-writer lock first.  Its invariant: m_uReaderCount is         *)
(* kMaxReaders times the writers that have added it plus the readers that  *)
(* have added one, m_uWriterFetch counts the writers that have asked for   *)
(* the privilege, and one at most has it.  A count below kMaxReaders       *)
(* therefore means that no writer has added, and one of kMaxReaders or     *)
(* less, read by a writer that has, that it is alone.                      *)
(***************************************************************************)
EXTENDS RWLock, QuickLocks, Barrier, ThreadLife, Populations

Readers == {"refused", "reading"}                     \* have added one
Added == {"drain", "yield", "writing"}                \* have added kMaxReaders
Fetched == {"fetched", "add", "drain", "yield"}       \* have asked
Privileged == {"add", "drain", "yield"}               \* and were first to

N(S) == Cardinality(Where(pc, S))

CountInv ==
  /\ uReaderCount = kMaxReaders * N(Added) + N(Readers)
  /\ uWriterFetch = N(Fetched)

OnePrivileged ==
  \A t, u \in Threads : pc[t] \in Privileged /\ pc[u] \in Privileged => t = u

Placed == pc \in [Threads -> Locations]

IInv == Placed /\ CountInv /\ OnePrivileged /\ Exclusive

\* What a count says of its parts.
LEMMA CountParts ==
  ASSUME NEW K \in Nat \ {0}, NEW a \in Nat, NEW r \in Nat
  PROVE  /\ K * a + r \in Nat
         /\ K * (a + 1) = K * a + K
         /\ K * (a - 1) = K * a - K
         /\ a >= 1 => K * a + r >= K
         /\ K * a + r <= K /\ a >= 1 => a = 1 /\ r = 0
<1>1. K * a \in Nat /\ K * (a + 1) = K * a + K /\ K * (a - 1) = K * a - K
  OBVIOUS
<1>2. ASSUME a >= 1 PROVE K * a >= K
  <2>1. PICK b \in Nat : a = b + 1
    BY <1>2, a - 1 \in Nat
  <2>2. K * a = K * b + K /\ K * b \in Nat
    BY <2>1
  <2> QED
    BY <2>2
<1>3. ASSUME a >= 2 PROVE K * a >= K + K
  <2>1. PICK b \in Nat : a = b + 2
    BY <1>3, a - 2 \in Nat
  <2>2. K * a = K * b + K + K /\ K * b \in Nat
    BY <2>1
  <2> QED
    BY <2>2
<1>4. ASSUME K * a + r <= K, a >= 1 PROVE a = 1 /\ r = 0
  <2>1. ~(a >= 2)
    <3>1. ASSUME a >= 2 PROVE FALSE
      BY <1>1, <1>3, <1>4, <3>1
    <3> QED
      BY <3>1
  <2>2. a = 1
    BY <2>1, <1>4
  <2> QED
    BY <1>1, <1>4, <2>2
<1> QED
  BY <1>1, <1>2, <1>4

\* The populations are numbers.
LEMMA Populated ==
  ASSUME Placed
  PROVE  /\ DOMAIN pc = Threads /\ IsFiniteSet(DOMAIN pc)
         /\ N(Added) \in Nat /\ N(Readers) \in Nat /\ N(Fetched) \in Nat
BY ThreadsFinite, PopulationFinite DEF Placed, N

\* A reader that is let in sees no writer, and one that sees a writer is not.
LEMMA NoWriter ==
  ASSUME IInv, ~Refused(uReaderCount + 1)
  PROVE  \A t \in Threads : pc[t] \notin Added
<1>1. N(Added) \in Nat /\ N(Readers) \in Nat
  BY Populated DEF IInv
<1>2. uReaderCount < kMaxReaders /\ uReaderCount \in Nat
  BY <1>1, RWLockAssumption DEF Refused, IInv, CountInv
<1>3. ~(N(Added) >= 1)
  BY <1>1, <1>2, CountParts, RWLockAssumption DEF IInv, CountInv
<1>4. N(Added) = 0
  BY <1>1, <1>3
<1> QED
  BY <1>4, Populated, PopulationZero DEF N, IInv

\* A writer that sees the count drained is the only thread in it.
LEMMA DrainedAlone ==
  ASSUME IInv, Drained, NEW t \in Threads, pc[t] \in Added
  PROVE  \A u \in Threads : pc[u] \notin Readers /\ (pc[u] \in Added => u = t)
<1>1. N(Added) \in Nat /\ N(Readers) \in Nat
  BY Populated DEF IInv
<1>2. N(Added) >= 1
  BY Populated, PopulationSome DEF IInv, N
<1>3. N(Added) = 1 /\ N(Readers) = 0
  BY <1>1, <1>2, CountParts, RWLockAssumption DEF Drained, IInv, CountInv
<1>4. \A u \in Threads : pc[u] \notin Readers
  BY <1>3, Populated, PopulationZero DEF N, IInv
<1>5. \A u \in Threads : pc[u] \in Added => u = t
  <2> SUFFICES ASSUME NEW u \in Threads, pc[u] \in Added PROVE u = t
    OBVIOUS
  <2>1. Cardinality(Where(pc, Added)) <= 1
    BY <1>3 DEF N
  <2> QED
    BY <2>1, Populated, PopulationOne DEF IInv
<1> QED
  BY <1>4, <1>5

LEMMA InitInv == Init => IInv
<1> SUFFICES ASSUME Init PROVE IInv
  OBVIOUS
<1>1. Placed /\ OnePrivileged /\ Exclusive
  BY DEF Init, Placed, Locations, OnePrivileged, Privileged, Exclusive, Writing
<1>2. Where(pc, Added) = {} /\ Where(pc, Readers) = {} /\ Where(pc, Fetched) = {}
  BY DEF Init, Where, Added, Readers, Fetched
<1>3. CountInv
  BY <1>2, FS_EmptySet, RWLockAssumption DEF Init, CountInv, N
<1> QED
  BY <1>1, <1>3 DEF IInv

\* How the three populations change when one thread moves.
Change(S, here, next) ==
  IF here \in S THEN IF next \in S THEN 0 ELSE -1
                ELSE IF next \in S THEN 1 ELSE 0

LEMMA Moved ==
  ASSUME Placed, NEW t \in Threads, NEW next \in Locations,
         pc' = [pc EXCEPT ![t] = next], NEW S
  PROVE  N(S)' = N(S) + Change(S, pc[t], next)
<1>1. DOMAIN pc = Threads /\ IsFiniteSet(DOMAIN pc) /\ N(S) \in Nat
  BY ThreadsFinite, PopulationFinite DEF Placed, N
<1>2. CASE pc[t] \in S /\ next \notin S
  <2>1. N(S)' = N(S) - 1
    BY <1>1, <1>2, PopulationLeave DEF N
  <2> QED
    BY <1>1, <1>2, <2>1 DEF Change
<1>3. CASE pc[t] \notin S /\ next \in S
  <2>1. N(S)' = N(S) + 1
    BY <1>1, <1>3, PopulationEnter DEF N
  <2> QED
    BY <1>1, <1>3, <2>1 DEF Change
<1>4. CASE pc[t] \in S <=> next \in S
  <2>1. N(S)' = N(S)
    BY <1>1, <1>4, PopulationStay DEF N
  <2> QED
    BY <1>1, <1>4, <2>1 DEF Change
<1> QED
  BY <1>2, <1>3, <1>4

\* The counts stay right when the step adds to each what it should.
LEMMA CountsKept ==
  ASSUME Placed, CountInv, NEW t \in Threads, NEW next \in Locations,
         pc' = [pc EXCEPT ![t] = next],
         uWriterFetch' = uWriterFetch + Change(Fetched, pc[t], next),
         \/ /\ Change(Added, pc[t], next) = 0
            /\ uReaderCount' = uReaderCount + Change(Readers, pc[t], next)
         \/ /\ Change(Added, pc[t], next) = 1 /\ Change(Readers, pc[t], next) = 0
            /\ uReaderCount' = uReaderCount + kMaxReaders
         \/ /\ Change(Added, pc[t], next) = -1 /\ Change(Readers, pc[t], next) = 0
            /\ uReaderCount' = uReaderCount - kMaxReaders
  PROVE  Placed' /\ CountInv'
<1>1. Placed'
  BY DEF Placed
<1>2. N(Added) \in Nat /\ N(Readers) \in Nat /\ N(Fetched) \in Nat
  BY Populated
<1>3. /\ N(Added)' = N(Added) + Change(Added, pc[t], next)
      /\ N(Readers)' = N(Readers) + Change(Readers, pc[t], next)
      /\ N(Fetched)' = N(Fetched) + Change(Fetched, pc[t], next)
  BY Moved
<1>4. /\ kMaxReaders \in Nat \ {0}
      /\ kMaxReaders * (N(Added) + 1) = kMaxReaders * N(Added) + kMaxReaders
      /\ kMaxReaders * (N(Added) - 1) = kMaxReaders * N(Added) - kMaxReaders
      /\ kMaxReaders * N(Added) \in Nat
  BY <1>2, CountParts, RWLockAssumption
<1>5. Change(Readers, pc[t], next) \in Int
  BY DEF Change
<1>6. uWriterFetch' = N(Fetched)'
  BY <1>3 DEF CountInv
<1>7. uReaderCount' = kMaxReaders * N(Added)' + N(Readers)'
  <2>1. CASE /\ Change(Added, pc[t], next) = 0
             /\ uReaderCount' = uReaderCount + Change(Readers, pc[t], next)
    <3>1. N(Added)' = N(Added)
      BY <1>2, <1>3, <2>1
    <3> QED
      BY <1>2, <1>3, <1>4, <1>5, <2>1, <3>1 DEF CountInv
  <2>2. CASE /\ Change(Added, pc[t], next) = 1 /\ Change(Readers, pc[t], next) = 0
             /\ uReaderCount' = uReaderCount + kMaxReaders
    <3>1. N(Added)' = N(Added) + 1 /\ N(Readers)' = N(Readers)
      BY <1>2, <1>3, <2>2
    <3> QED
      BY <1>2, <1>4, <2>2, <3>1 DEF CountInv
  <2>3. CASE /\ Change(Added, pc[t], next) = -1 /\ Change(Readers, pc[t], next) = 0
             /\ uReaderCount' = uReaderCount - kMaxReaders
    <3>1. N(Added)' = N(Added) - 1 /\ N(Readers)' = N(Readers)
      BY <1>2, <1>3, <2>3
    <3> QED
      BY <1>2, <1>4, <2>3, <3>1 DEF CountInv
  <2> QED
    BY <2>1, <2>2, <2>3
<1> QED
  BY <1>1, <1>6, <1>7 DEF CountInv

\* A move that lets nobody in leaves the others excluded.
LEMMA KeepExclusive ==
  ASSUME Placed, Exclusive, NEW t \in Threads, NEW next \in Locations,
         pc' = [pc EXCEPT ![t] = next],
         next \notin {"reading", "yield", "writing"} \/ (next = "writing" /\ pc[t] = "yield")
  PROVE  Exclusive'
<1> SUFFICES ASSUME NEW w \in Writing' PROVE Writing' = {w} /\ Reading' = {}
  BY DEF Exclusive
<1>1. Writing' \subseteq Writing /\ Reading' \subseteq Reading
  BY DEF Placed, Writing, Reading
<1>2. w \in Writing
  BY <1>1
<1>3. Writing = {w} /\ Reading = {}
  BY <1>2 DEF Exclusive
<1> QED
  BY <1>1, <1>3

\* So does a move that gives nobody the privilege.
LEMMA KeepPrivileged ==
  ASSUME Placed, OnePrivileged, NEW t \in Threads, NEW next \in Locations,
         pc' = [pc EXCEPT ![t] = next],
         next \notin Privileged \/ pc[t] \in Privileged
  PROVE  OnePrivileged'
BY DEF Placed, OnePrivileged

LEMMA ReadIncStep ==
  ASSUME IInv, NEW t \in Threads, ReadInc(t)
  PROVE  IInv'
<1>1. PICK next \in {"refused", "reading"} :
        /\ pc' = [pc EXCEPT ![t] = next]
        /\ next = "reading" => ~Refused(uReaderCount + 1)
  BY DEF ReadInc, At
<1>2. pc[t] = "readLock" /\ next \in Locations
  BY <1>1 DEF ReadInc, At, Locations
<1>3. Placed' /\ CountInv'
  <2>1. /\ Change(Added, pc[t], next) = 0
        /\ Change(Readers, pc[t], next) = 1
        /\ Change(Fetched, pc[t], next) = 0
    BY <1>1, <1>2 DEF Change, Added, Readers, Fetched
  <2>2. uReaderCount' = uReaderCount + 1 /\ uWriterFetch' = uWriterFetch + 0
    BY Populated DEF ReadInc, IInv, CountInv
  <2> QED
    BY <1>1, <1>2, <2>1, <2>2, CountsKept DEF IInv
<1>4. OnePrivileged'
  BY <1>1, <1>2, KeepPrivileged DEF IInv, Privileged
<1>5. Exclusive'
  <2>1. CASE next = "refused"
    BY <1>1, <1>2, <2>1, KeepExclusive DEF IInv
  <2>2. CASE next = "reading"
    <3>1. \A u \in Threads : pc[u] \notin Added
      BY <1>1, <2>2, NoWriter
    <3>2. Writing' = {}
      BY <1>1, <2>2, <3>1 DEF Writing, Added, IInv, Placed
    <3> QED
      BY <3>2 DEF Exclusive
  <2> QED
    BY <2>1, <2>2
<1> QED
  BY <1>3, <1>4, <1>5 DEF IInv

LEMMA FetchStep ==
  ASSUME IInv, NEW t \in Threads, Fetch(t)
  PROVE  IInv'
<1>1. PICK next \in {"add", "fetched"} :
        /\ pc' = [pc EXCEPT ![t] = next]
        /\ next = "add" => uWriterFetch = 0
  BY DEF Fetch, At
<1>2. pc[t] = "writeLock" /\ next \in Locations
  BY <1>1 DEF Fetch, At, Locations
<1>3. Placed' /\ CountInv'
  <2>1. /\ Change(Added, pc[t], next) = 0
        /\ Change(Readers, pc[t], next) = 0
        /\ Change(Fetched, pc[t], next) = 1
    BY <1>1, <1>2 DEF Change, Added, Readers, Fetched
  <2>2. uReaderCount \in Nat
    BY Populated, CountParts, RWLockAssumption DEF IInv, CountInv
  <2>3. uReaderCount' = uReaderCount + 0 /\ uWriterFetch' = uWriterFetch + 1
    BY <2>2 DEF Fetch
  <2> QED
    BY <1>1, <1>2, <2>1, <2>3, CountsKept DEF IInv
<1>4. OnePrivileged'
  <2>1. CASE next = "fetched"
    BY <1>1, <1>2, <2>1, KeepPrivileged DEF IInv, Privileged
  <2>2. CASE next = "add"
    <3>1. \A u \in Threads : pc[u] \notin Fetched
      BY <1>1, <2>2, Populated, PopulationZero DEF IInv, CountInv, N
    <3>2. \A u \in Threads : pc[u] \notin Privileged
      BY <3>1 DEF Fetched, Privileged
    <3> QED
      BY <1>1, <3>2 DEF OnePrivileged, IInv, Placed
  <2> QED
    BY <2>1, <2>2
<1>5. Exclusive'
  BY <1>1, <1>2, KeepExclusive DEF IInv
<1> QED
  BY <1>3, <1>4, <1>5 DEF IInv

LEMMA DrainStep ==
  ASSUME IInv, NEW t \in Threads, Drain(t)
  PROVE  IInv'
<1>1. pc[t] = "drain" /\ pc' = [pc EXCEPT ![t] = "yield"] /\ Drained
  BY DEF Drain, At
<1>2. pc[t] \in Added /\ "yield" \in Locations
  BY <1>1 DEF Added, Locations
<1>3. Placed' /\ CountInv'
  <2>1. /\ Change(Added, pc[t], "yield") = 0
        /\ Change(Readers, pc[t], "yield") = 0
        /\ Change(Fetched, pc[t], "yield") = 0
    BY <1>1 DEF Change, Added, Readers, Fetched
  <2>2. uReaderCount \in Nat /\ uWriterFetch \in Nat
    BY Populated, CountParts, RWLockAssumption DEF IInv, CountInv
  <2>3. uReaderCount' = uReaderCount + 0 /\ uWriterFetch' = uWriterFetch + 0
    BY <2>2 DEF Drain
  <2> QED
    BY <1>1, <1>2, <2>1, <2>3, CountsKept DEF IInv
<1>4. OnePrivileged'
  BY <1>1, <1>2, KeepPrivileged DEF IInv, Privileged
<1>5. Exclusive'
  <2>1. \A u \in Threads : pc[u] \notin Readers /\ (pc[u] \in Added => u = t)
    BY <1>1, <1>2, DrainedAlone
  <2>2. Writing' = {t} /\ Reading' = {}
    BY <1>1, <2>1 DEF Writing, Reading, Added, Readers, IInv, Placed
  <2> QED
    BY <2>2 DEF Exclusive
<1> QED
  BY <1>3, <1>4, <1>5 DEF IInv

\* The other steps let nobody in.
LEMMA OtherStep ==
  ASSUME IInv, NEW t \in Threads,
         \/ Call(t) \/ ReadBackOff(t) \/ ReadUnlock(t) \/ FetchBackOff(t)
         \/ WriteAdd(t) \/ FetchRelease(t) \/ WriteUnlock(t)
  PROVE  IInv'
<1>0. uReaderCount \in Nat /\ uWriterFetch \in Nat /\ kMaxReaders \in Nat
  BY Populated, CountParts, RWLockAssumption DEF IInv, CountInv
<1>1. PICK next \in Locations :
        /\ pc' = [pc EXCEPT ![t] = next]
        /\ \/ pc[t] = "idle" /\ next \in {"readLock", "writeLock"} /\ Call(t)
           \/ pc[t] = "refused" /\ next = "readLock" /\ ReadBackOff(t)
           \/ pc[t] = "reading" /\ next = "idle" /\ ReadUnlock(t)
           \/ pc[t] = "fetched" /\ next = "writeLock" /\ FetchBackOff(t)
           \/ pc[t] = "add" /\ next = "drain" /\ WriteAdd(t)
           \/ pc[t] = "yield" /\ next = "writing" /\ FetchRelease(t)
           \/ pc[t] = "writing" /\ next = "idle" /\ WriteUnlock(t)
  BY DEF Call, ReadBackOff, ReadUnlock, FetchBackOff, WriteAdd, FetchRelease,
         WriteUnlock, At, Locations
<1>2. uWriterFetch' = uWriterFetch + Change(Fetched, pc[t], next)
  BY <1>0, <1>1 DEF Change, Fetched, Call, ReadBackOff, ReadUnlock, FetchBackOff,
                    WriteAdd, FetchRelease, WriteUnlock
<1>3. \/ /\ Change(Added, pc[t], next) = 0
         /\ uReaderCount' = uReaderCount + Change(Readers, pc[t], next)
      \/ /\ Change(Added, pc[t], next) = 1 /\ Change(Readers, pc[t], next) = 0
         /\ uReaderCount' = uReaderCount + kMaxReaders
      \/ /\ Change(Added, pc[t], next) = -1 /\ Change(Readers, pc[t], next) = 0
         /\ uReaderCount' = uReaderCount - kMaxReaders
  BY <1>0, <1>1 DEF Change, Added, Readers, Call, ReadBackOff, ReadUnlock,
                    FetchBackOff, WriteAdd, FetchRelease, WriteUnlock
<1>4. Placed' /\ CountInv'
  BY <1>1, <1>2, <1>3, CountsKept DEF IInv
<1>5. OnePrivileged'
  BY <1>1, KeepPrivileged DEF IInv, Privileged
<1>6. Exclusive'
  BY <1>1, KeepExclusive DEF IInv
<1> QED
  BY <1>4, <1>5, <1>6 DEF IInv

LEMMA StepInv == IInv /\ [Next]_vars => IInv'
<1> SUFFICES ASSUME IInv, [Next]_vars PROVE IInv'
  OBVIOUS
<1>1. ASSUME NEW t \in Threads, Step(t) PROVE IInv'
  BY <1>1, ReadIncStep, FetchStep, DrainStep, OtherStep DEF Step
<1>2. CASE UNCHANGED vars
  BY <1>2 DEF vars, IInv, Placed, CountInv, N, OnePrivileged, Exclusive, Writing, Reading
<1> QED
  BY <1>1, <1>2 DEF Next

LEMMA Invariant == Spec => []IInv
BY InitInv, StepInv, PTL DEF Spec

-----------------------------------------------------------------------------

\* Neither count wraps below zero, whatever the interleaving.
THEOREM TypeCorrect == Spec => []TypeOK
<1>1. IInv => TypeOK
  <2> SUFFICES ASSUME IInv PROVE TypeOK
    OBVIOUS
  <2>1. uReaderCount \in Nat /\ uWriterFetch \in Nat
    BY Populated, CountParts, RWLockAssumption DEF IInv, CountInv
  <2> QED
    BY <2>1 DEF TypeOK, IInv, Placed
<1> QED
  BY <1>1, Invariant, PTL

\* A writer that has been let in is alone.
THEOREM Excludes == Spec => []Exclusive
<1>1. IInv => Exclusive
  BY DEF IInv
<1> QED
  BY <1>1, Invariant, PTL

\* At most one writer waits for the readers to drain.
THEOREM OneWriterDrains == Spec => []OneDrains
<1>1. IInv => OneDrains
  BY DEF IInv, OnePrivileged, Privileged, OneDrains
<1> QED
  BY <1>1, Invariant, PTL

\* No reader is let in past a writer that waits.
THEOREM WritersFirst == Spec => WriterFirst
<1>1. IInv /\ [Next]_vars =>
        [(\E w \in Threads : pc[w] = "drain") => Reading' \subseteq Reading]_vars
  <2> SUFFICES ASSUME IInv, Next, NEW w \in Threads, pc[w] = "drain",
                      NEW t \in Reading'
               PROVE  t \in Reading
    OBVIOUS
  <2>1. pc[w] \in Added
    BY DEF Added
  <2>2. Refused(uReaderCount + 1)
    BY <2>1, NoWriter
  <2>3. PICK u \in Threads : Step(u)
    BY DEF Next
  <2>4. PICK next \in Locations \ {"reading"} : pc' = [pc EXCEPT ![u] = next]
    BY <2>2, <2>3 DEF Step, Call, ReadInc, ReadBackOff, ReadUnlock, Fetch, FetchBackOff,
              WriteAdd, Drain, FetchRelease, WriteUnlock, At, Locations
  <2> QED
    BY <2>4 DEF Reading, IInv, Placed
<1> QED
  BY <1>1, Invariant, PTL DEF Spec, WriterFirst

-----------------------------------------------------------------------------
(* The spin lock: the word counts those between their addition and their    *)
(* subtraction, and at most one of them found it at zero.                   *)

\* Threads that have added one and not taken it back.
Counted == {"held", "again", "fail"}

MutexInv ==
  /\ mutexPc \in [MutexThreads -> MutexLocations]
  /\ uLock = Cardinality(Where(mutexPc, Counted))
  /\ MutualExclusion

LEMMA MutexInitInv == MutexInit => MutexInv
<1> SUFFICES ASSUME MutexInit PROVE MutexInv
  OBVIOUS
<1>1. mutexPc \in [MutexThreads -> MutexLocations] /\ MutualExclusion
  BY DEF MutexInit, MutexLocations, MutualExclusion
<1>2. Where(mutexPc, Counted) = {}
  BY DEF MutexInit, Where, Counted
<1>3. uLock = Cardinality(Where(mutexPc, Counted))
  BY <1>2, FS_EmptySet DEF MutexInit
<1> QED
  BY <1>1, <1>3 DEF MutexInv

LEMMA MutexStepInv ==
  ASSUME IsFiniteSet(MutexThreads), MutexInv, [MutexNext]_mutexVars
  PROVE  MutexInv'
<1>0. DOMAIN mutexPc = MutexThreads /\ IsFiniteSet(DOMAIN mutexPc)
  BY DEF MutexInv
<1>n. Cardinality(Where(mutexPc, Counted)) \in Nat
  BY <1>0, PopulationFinite
<1>1. ASSUME NEW t \in MutexThreads, MutexCall(t) PROVE MutexInv'
  <2>1. PICK n \in {"acquire", "try"} : mutexPc' = [mutexPc EXCEPT ![t] = n]
    BY <1>1 DEF MutexCall, MutexGoto
  <2>2. mutexPc[t] \in Counted <=> n \in Counted
    BY <1>1, <2>1 DEF MutexCall, Counted
  <2>e. Where(mutexPc', Counted) = Where(mutexPc, Counted)
    BY <1>0, <2>1, <2>2, PopulationStay
  <2>3. (mutexPc \in [MutexThreads -> MutexLocations])' /\ MutualExclusion'
    BY <2>1 DEF MutexInv, MutexLocations, MutualExclusion
  <2> QED
    BY <1>1, <2>e, <2>3 DEF MutexInv, MutexCall
<1>2. ASSUME NEW t \in MutexThreads, MutexInc(t) PROVE MutexInv'
  <2>1. PICK n \in Counted : mutexPc' = [mutexPc EXCEPT ![t] = n] /\ (n = "held" => Free)
    BY <1>2 DEF MutexInc, MutexGoto, Counted
  <2>2. mutexPc[t] \notin Counted
    BY <1>2 DEF MutexInc, Counted
  <2>3. Cardinality(Where(mutexPc', Counted)) = Cardinality(Where(mutexPc, Counted)) + 1
    BY <1>0, <2>1, <2>2, PopulationEnter
  <2>4. (mutexPc \in [MutexThreads -> MutexLocations])'
    BY <2>1 DEF MutexInv, MutexLocations, Counted
  <2>5. MutualExclusion'
    <3>1. CASE n = "held"
      <4>1. \A u \in MutexThreads : mutexPc[u] # "held"
        BY <1>0, <2>1, <3>1, PopulationZero DEF MutexInv, Free, Counted
      <4> QED
        BY <2>1, <4>1 DEF MutexInv, MutualExclusion
    <3>2. CASE n # "held"
      BY <2>1, <3>2 DEF MutexInv, MutualExclusion
    <3> QED
      BY <3>1, <3>2
  <2> QED
    BY <1>2, <2>3, <2>4, <2>5 DEF MutexInv, MutexInc
<1>3. ASSUME NEW t \in MutexThreads, MutexDec(t) \/ MutexRelease(t) PROVE MutexInv'
  <2>1. PICK n \in {"acquire", "idle"} : mutexPc' = [mutexPc EXCEPT ![t] = n]
    BY <1>3 DEF MutexDec, MutexRelease, MutexGoto
  <2>2. mutexPc[t] \in Counted /\ n \notin Counted /\ uLock' = uLock - 1
    BY <1>3 DEF MutexDec, MutexRelease, Counted
  <2>3. Cardinality(Where(mutexPc', Counted)) = Cardinality(Where(mutexPc, Counted)) - 1
    BY <1>0, <2>1, <2>2, PopulationLeave
  <2>4. (mutexPc \in [MutexThreads -> MutexLocations])' /\ MutualExclusion'
    BY <2>1 DEF MutexInv, MutexLocations, MutualExclusion
  <2> QED
    BY <2>2, <2>3, <2>4 DEF MutexInv
<1>4. CASE UNCHANGED mutexVars
  BY <1>4 DEF mutexVars, MutexInv, MutualExclusion
<1> QED
  BY <1>1, <1>2, <1>3, <1>4 DEF MutexNext, MutexStep

\* Every reachable state satisfies the invariant.
LEMMA MutexInvariant ==
  ASSUME IsFiniteSet(MutexThreads)
  PROVE  MutexSpec => []MutexInv
<1>1. MutexInv /\ [MutexNext]_mutexVars => MutexInv'
  BY MutexStepInv
<1> QED
  BY <1>1, MutexInitInv, PTL DEF MutexSpec

\* The lock never counts more than the threads there are, and never wraps
\* below zero.
THEOREM MutexTypeCorrect ==
  ASSUME IsFiniteSet(MutexThreads)
  PROVE  MutexSpec => []MutexTypeOK
<1>0. MutexSpec => []MutexInv
  BY MutexInvariant
<1>1. MutexInv => MutexTypeOK
  <2> SUFFICES ASSUME MutexInv PROVE MutexTypeOK
    OBVIOUS
  <2>1. IsFiniteSet(DOMAIN mutexPc) /\ DOMAIN mutexPc = MutexThreads
    BY DEF MutexInv
  <2>2. Cardinality(MutexThreads) \in Nat
    BY <2>1, FS_CardinalityType
  <2>3. uLock \in Nat /\ uLock <= Cardinality(MutexThreads)
    BY <2>1, PopulationFinite, PopulationBound DEF MutexInv
  <2> QED
    BY <2>2, <2>3 DEF MutexTypeOK, MutexInv
<1> QED
  BY <1>1, <1>0, PTL

\* Two threads never have the lock at once.
THEOREM MutexExcludes ==
  ASSUME IsFiniteSet(MutexThreads)
  PROVE  MutexSpec => []MutualExclusion
<1>0. MutexSpec => []MutexInv
  BY MutexInvariant
<1>1. MutexInv => MutualExclusion
  BY DEF MutexInv
<1> QED
  BY <1>1, <1>0, PTL

\* When no thread is in the lock's functions or has it, it is free again.
THEOREM FreeAgain ==
  ASSUME IsFiniteSet(MutexThreads)
  PROVE  MutexSpec => []FreeWhenIdle
<1>0. MutexSpec => []MutexInv
  BY MutexInvariant
<1>1. MutexInv => FreeWhenIdle
  <2> SUFFICES ASSUME MutexInv, \A t \in MutexThreads : mutexPc[t] = "idle" PROVE Free
    BY DEF FreeWhenIdle
  <2>1. Where(mutexPc, Counted) = {}
    BY DEF MutexInv, Where, Counted
  <2> QED
    BY <2>1, FS_EmptySet DEF MutexInv, Free
<1> QED
  BY <1>1, <1>0, PTL

-----------------------------------------------------------------------------
(* The semaphore, whose compare-and-swap is that of MSVC: in any state the   *)
(* counter is within the maximum, what is to be stored by a signal fits, and *)
(* what is to be stored by a wait was found above zero.                      *)

\* What the constructor asserts, and counts that do not wrap the sum in Signal.
SemaphoreFits ==
  /\ uMaximum \in Nat /\ BaseCount \in 0 .. uMaximum
  /\ SemaphoreWidth \in Nat /\ Counts \subseteq Nat
  /\ \A n \in Counts \cup {0} : uMaximum + n < 2^SemaphoreWidth
  /\ CasSwapped = FALSE

SemaphoreLocations == {"idle", "true", "false", "signal", "test", "setSignal", "tryWait", "setWait"}

SemaphorePlaced == semaphorePc \in [Callers -> SemaphoreLocations]

SignalFits == \A t \in Callers : semaphorePc[t] = "setSignal" => seen[t] + count[t] <= uMaximum
WaitFound == \A t \in Callers : semaphorePc[t] = "setWait" => seen[t] > 0

SemaphoreInv == SemaphoreTypeOK /\ SemaphorePlaced /\ SignalFits /\ WaitFound

\* The sum in Signal is a sum.
LEMMA UpdatedSum ==
  ASSUME SemaphoreFits, SemaphoreTypeOK, NEW t \in Callers
  PROVE  Updated(t) = seen[t] + count[t] /\ seen[t] \in Nat /\ count[t] \in Nat
<1>1. seen[t] \in 0 .. uMaximum /\ count[t] \in Counts \cup {0}
  BY DEF SemaphoreTypeOK
<1>f. /\ uMaximum \in Nat /\ SemaphoreWidth \in Nat /\ Counts \subseteq Nat
      /\ \A n \in Counts \cup {0} : uMaximum + n < 2^SemaphoreWidth
  BY DEF SemaphoreFits
<1>2. seen[t] \in Nat /\ count[t] \in Nat /\ uMaximum \in Nat /\ seen[t] <= uMaximum
  <2>1. seen[t] \in Nat /\ seen[t] <= uMaximum
    BY <1>1, <1>f
  <2>2. count[t] \in Nat
    <3>1. Counts \subseteq Nat /\ count[t] \in Counts \cup {0}
      BY <1>1, <1>f
    <3>2. count[t] \in Counts \/ count[t] = 0
      BY <3>1
    <3>3. CASE count[t] \in Counts
      BY <3>1, <3>3
    <3>4. CASE count[t] = 0
      BY <3>4
    <3> QED
      BY <3>2, <3>3, <3>4
  <2> QED
    BY <2>1, <2>2, <1>f
<1>3. uMaximum + count[t] < 2^SemaphoreWidth /\ 2^SemaphoreWidth \in Int
  <2>1. uMaximum + count[t] < 2^SemaphoreWidth
    BY <1>1, <1>f
  <2>2. 2^SemaphoreWidth \in Int
    BY <1>f
  <2> QED
    BY <2>1, <2>2
<1>4. seen[t] + count[t] \in Nat /\ seen[t] + count[t] < 2^SemaphoreWidth
  BY <1>2, <1>3
<1> QED
  BY <1>2, <1>3, <1>4 DEF Updated

LEMMA SemaphoreInitInv ==
  ASSUME SemaphoreFits, SemaphoreInit
  PROVE  SemaphoreInv
<1>1. SemaphoreTypeOK
  BY DEF SemaphoreFits, SemaphoreInit, SemaphoreTypeOK
<1>2. SemaphorePlaced /\ SignalFits /\ WaitFound
  BY DEF SemaphoreInit, SemaphorePlaced, SemaphoreLocations, SignalFits, WaitFound
<1> QED
  BY <1>1, <1>2 DEF SemaphoreInv

\* What the exchange leaves in the counter.
LEMMA ExchangeKeeps ==
  ASSUME SemaphoreFits, SemaphoreTypeOK, NEW t \in Callers, NEW src \in 0 .. uMaximum, Exchange(t, src)
  PROVE  uCurrent' \in 0 .. uMaximum /\ swaps' \in [Callers -> 0 .. 2]
<1>1. uCurrent' \in 0 .. uMaximum
  BY DEF Exchange, Stored, SemaphoreTypeOK
<1>2. PICK n \in 0 .. 2 : swaps' = [swaps EXCEPT ![t] = n]
  <2> DEFINE n == IF uCurrent' = uCurrent THEN swaps[t] ELSE IF swaps[t] = 0 THEN 1 ELSE 2
  <2>1. swaps[t] \in 0 .. 2
    BY DEF SemaphoreTypeOK
  <2>2. n \in 0 .. 2
    BY <2>1
  <2>3. swaps' = [swaps EXCEPT ![t] = n]
    BY DEF Exchange
  <2> QED
    BY <2>2, <2>3
<1>3. swaps' \in [Callers -> 0 .. 2]
  BY <1>2 DEF SemaphoreTypeOK
<1> QED
  BY <1>1, <1>3

LEMMA SignalInv ==
  ASSUME SemaphoreFits, SemaphoreInv, NEW t \in Signallers,
         SignalStep(t) \/ \E n \in Counts : CallSignal(t, n)
  PROVE  SemaphoreInv'
<1>0. t \in Callers
  BY DEF Callers
<1>1. ASSUME NEW n \in Counts, CallSignal(t, n) PROVE SemaphoreInv'
  <2>1. SemaphoreTypeOK'
    BY <1>0, <1>1 DEF SemaphoreInv, SemaphoreTypeOK, CallSignal
  <2>2. SemaphorePlaced' /\ SignalFits' /\ WaitFound'
    BY <1>0, <1>1 DEF SemaphoreInv, SemaphoreTypeOK, SemaphorePlaced, SemaphoreLocations,
      SignalFits, WaitFound, CallSignal, SemaphoreGoto
  <2> QED
    BY <2>1, <2>2 DEF SemaphoreInv
<1>2. CASE ReadSignal(t)
  <2>1. SemaphoreTypeOK'
    BY <1>0, <1>2 DEF SemaphoreInv, SemaphoreTypeOK, ReadSignal
  <2>2. SemaphorePlaced' /\ SignalFits' /\ WaitFound'
    BY <1>0, <1>2 DEF SemaphoreInv, SemaphoreTypeOK, SemaphorePlaced, SemaphoreLocations,
      SignalFits, WaitFound, ReadSignal, SemaphoreGoto
  <2> QED
    BY <2>1, <2>2 DEF SemaphoreInv
<1>3. CASE Test(t)
  <2>1. SemaphoreTypeOK'
    BY <1>3 DEF SemaphoreInv, SemaphoreTypeOK, Test
  <2>2. SemaphorePlaced' /\ WaitFound'
    BY <1>0, <1>3 DEF SemaphoreInv, SemaphorePlaced, SemaphoreLocations, WaitFound, Test, SemaphoreGoto
  <2>3. SignalFits'
    <3>1. ~TooMany(t) => seen[t] + count[t] <= uMaximum
      <4>1. Updated(t) = seen[t] + count[t] /\ seen[t] \in Nat /\ count[t] \in Nat
        BY <1>0, UpdatedSum DEF SemaphoreInv
      <4>2. uMaximum \in Nat
        BY DEF SemaphoreFits
      <4> QED
        BY <4>1, <4>2 DEF TooMany
    <3> QED
      BY <1>0, <1>3, <3>1 DEF SemaphoreInv, SemaphorePlaced, SignalFits, Test, SemaphoreGoto
  <2> QED
    BY <2>1, <2>2, <2>3 DEF SemaphoreInv
<1>4. CASE SetSignal(t)
  <2>1. Updated(t) \in 0 .. uMaximum
    <3>1. Updated(t) = seen[t] + count[t] /\ seen[t] \in Nat /\ count[t] \in Nat
      BY <1>0, UpdatedSum DEF SemaphoreInv
    <3>2. seen[t] + count[t] <= uMaximum
      BY <1>0, <1>4 DEF SetSignal, SemaphoreInv, SignalFits
    <3>3. uMaximum \in Nat
      BY DEF SemaphoreFits
    <3> QED
      BY <3>1, <3>2, <3>3
  <2>2. SemaphoreTypeOK'
    BY <1>0, <1>4, <2>1, ExchangeKeeps DEF SemaphoreInv, SemaphoreTypeOK, SetSignal
  <2>3. SemaphorePlaced' /\ SignalFits' /\ WaitFound'
    BY <1>0, <1>4 DEF SemaphoreInv, SemaphorePlaced, SemaphoreLocations, SignalFits, WaitFound,
      SetSignal, Exchange, SemaphoreGoto
  <2> QED
    BY <2>2, <2>3 DEF SemaphoreInv
<1> QED
  BY <1>1, <1>2, <1>3, <1>4 DEF SignalStep

LEMMA WaitInv ==
  ASSUME SemaphoreFits, SemaphoreInv, NEW t \in Waiters, CallWait(t) \/ WaitStep(t)
  PROVE  SemaphoreInv'
<1>0. t \in Callers
  BY DEF Callers
<1>1. CASE CallWait(t)
  BY <1>0, <1>1 DEF SemaphoreInv, SemaphoreTypeOK, SemaphorePlaced, SemaphoreLocations,
    SignalFits, WaitFound, CallWait, SemaphoreGoto
<1>2. CASE ReadWait(t)
  <2>1. SemaphoreTypeOK'
    BY <1>0, <1>2 DEF SemaphoreInv, SemaphoreTypeOK, ReadWait
  <2>2. PICK where \in {"false", "tryWait", "setWait"} :
          /\ semaphorePc' = [semaphorePc EXCEPT ![t] = where]
          /\ where = "setWait" => uCurrent # 0
    BY <1>2 DEF ReadWait, Fail, SemaphoreGoto
  <2>3. uCurrent # 0 => uCurrent > 0
    BY DEF SemaphoreInv, SemaphoreTypeOK, SemaphoreFits
  <2>4. SemaphorePlaced' /\ SignalFits' /\ WaitFound'
    BY <1>0, <1>2, <2>2, <2>3 DEF SemaphoreInv, SemaphoreTypeOK, SemaphorePlaced, SemaphoreLocations,
      SignalFits, WaitFound, ReadWait
  <2> QED
    BY <2>1, <2>4 DEF SemaphoreInv
<1>3. CASE SetWait(t)
  <2>1. seen[t] - 1 \in 0 .. uMaximum
    BY <1>0, <1>3 DEF SetWait, SemaphoreInv, SemaphoreTypeOK, WaitFound, SemaphoreFits
  <2>2. SemaphoreTypeOK'
    BY <1>0, <1>3, <2>1, ExchangeKeeps DEF SemaphoreInv, SemaphoreTypeOK, SetWait
  <2>3. PICK where \in {"false", "tryWait", "true"} : semaphorePc' = [semaphorePc EXCEPT ![t] = where]
    BY <1>3 DEF SetWait, Fail, SemaphoreGoto
  <2>4. SemaphorePlaced' /\ SignalFits' /\ WaitFound'
    BY <1>0, <1>3, <2>3 DEF SemaphoreInv, SemaphorePlaced, SemaphoreLocations, SignalFits, WaitFound, SetWait, Exchange
  <2> QED
    BY <2>2, <2>4 DEF SemaphoreInv
<1> QED
  BY <1>1, <1>2, <1>3 DEF WaitStep

LEMMA SemaphoreInvariant ==
  ASSUME SemaphoreFits
  PROVE  SemaphoreSpec => []SemaphoreInv
<1>1. SemaphoreInit => SemaphoreInv
  BY SemaphoreInitInv
<1>2. SemaphoreInv /\ [SemaphoreNext]_semaphoreVars => SemaphoreInv'
  <2> SUFFICES ASSUME SemaphoreInv, [SemaphoreNext]_semaphoreVars PROVE SemaphoreInv'
    OBVIOUS
  <2>1. CASE SemaphoreNext
    BY <2>1, SignalInv, WaitInv DEF SemaphoreNext
  <2>2. CASE UNCHANGED semaphoreVars
    BY <2>2 DEF semaphoreVars, SemaphoreInv, SemaphoreTypeOK, SemaphorePlaced, SignalFits, WaitFound
  <2> QED
    BY <2>1, <2>2
<1> QED
  BY <1>1, <1>2, PTL DEF SemaphoreSpec

\* The counter stays within the maximum, however signals and waits interleave.
THEOREM StaysInBounds ==
  ASSUME SemaphoreFits
  PROVE  SemaphoreSpec => []SemaphoreTypeOK
<1>0. SemaphoreSpec => []SemaphoreInv
  BY SemaphoreInvariant
<1>1. SemaphoreInv => SemaphoreTypeOK
  BY DEF SemaphoreInv
<1> QED
  BY <1>0, <1>1, PTL

-----------------------------------------------------------------------------
(* The barrier.  A thread between the addition of Raise and the trigger has *)
(* itself raised the level as far as what it found says, and one thread by  *)
(* itself leaves the event as the level asks whenever a call ends; what the *)
(* event still lacks in the middle of one is what the call is about to do.  *)

\* One thread by itself uses the event that can be turned off, of Windows.
BarrierUsages ==
  /\ IsFiniteSet(BarrierThreads)
  /\ Targets \subseteq Nat \ {0}
  /\ BarrierWidth \in Nat
  /\ \A u \in Usages : /\ u.callers \subseteq BarrierThreads
                       /\ u.stateless \in BOOLEAN
                       /\ Cardinality(u.callers) = 1 => ~u.stateless

\* Neither the level nor the target is about to wrap.
NoWrap == level + 1 < 2^BarrierWidth /\ uTarget + 1 < 2^BarrierWidth

BarrierLocations == {"idle", "raised", "trigger", "lowered", "off", "zero", "increased", "waiting"}

BarrierPlaced ==
  /\ level \in Nat
  /\ uTarget \in Nat \ {0}
  /\ event \in BOOLEAN
  /\ barrierPc \in [BarrierThreads -> BarrierLocations]
  /\ prior \in [BarrierThreads -> Nat]
  /\ usage \in Usages

RaisedInv ==
  OnlyRaised =>
    /\ event => level >= uTarget
    /\ \A t \in BarrierThreads :
         /\ barrierPc[t] \in {"idle", "raised", "trigger", "waiting"}
         /\ barrierPc[t] \in {"raised", "trigger"} => prior[t] < level
         /\ barrierPc[t] = "trigger" => prior[t] + 1 >= uTarget

Settled == level >= uTarget => event
SettledBefore(t) == prior[t] >= uTarget => event

ByItself(c) ==
  /\ \A t \in BarrierThreads \ {c} : barrierPc[t] = "idle"
  /\ barrierPc[c] \in {"idle", "waiting", "increased"} => Settled
  /\ barrierPc[c] = "raised" => level = prior[c] + 1 /\ SettledBefore(c)
  /\ barrierPc[c] = "lowered" => prior[c] = level + 1 /\ SettledBefore(c)
  /\ barrierPc[c] = "off" => level < uTarget

AloneInv == \A c \in BarrierThreads : usage.callers = {c} => ByItself(c)

BarrierInv == BarrierPlaced /\ RaisedInv /\ AloneInv

\* What a step of the barrier needs of the words.
LEMMA Words ==
  ASSUME BarrierUsages, BarrierPlaced, NoWrap
  PROVE  /\ Word(level + 1) = level + 1
         /\ Word(uTarget + 1) = uTarget + 1
         /\ Word(uTarget - 1) = uTarget - 1
         /\ level > 0 => Word(level - 1) = level - 1
<1>1. 2^BarrierWidth \in Int /\ level \in Nat /\ uTarget \in Nat \ {0}
  BY DEF BarrierUsages, BarrierPlaced
<1> QED
  BY <1>1 DEF NoWrap, Word

\* A thread that is alone has the event that can be turned off.
LEMMA Sole ==
  ASSUME BarrierUsages, BarrierPlaced, NEW c \in BarrierThreads, usage.callers = {c}
  PROVE  ~usage.stateless /\ Cardinality(usage.callers) = 1
<1>1. Cardinality({c}) = 1
  BY FS_Singleton
<1> QED
  BY <1>1 DEF BarrierUsages, BarrierPlaced

LEMMA BarrierInitInv ==
  ASSUME BarrierUsages, BarrierInit
  PROVE  BarrierInv
<1>1. BarrierPlaced
  BY DEF BarrierUsages, BarrierInit, BarrierPlaced, BarrierLocations
<1>2. level < uTarget
  BY <1>1 DEF BarrierInit, BarrierPlaced
<1>3. RaisedInv /\ AloneInv
  BY <1>1, <1>2 DEF BarrierInit, RaisedInv, AloneInv, ByItself, Settled, BarrierPlaced
<1> QED
  BY <1>1, <1>3 DEF BarrierInv

LEMMA RaiseStep ==
  ASSUME BarrierUsages, BarrierInv, NoWrap, NEW t \in BarrierThreads, Raise(t), UNCHANGED usage
  PROVE  BarrierInv'
<1>w. /\ Word(level + 1) = level + 1 /\ Word(uTarget + 1) = uTarget + 1 /\ Word(uTarget - 1) = uTarget - 1
      /\ level > 0 => Word(level - 1) = level - 1
  BY Words DEF BarrierInv
<1>1. BarrierPlaced'
  BY <1>w DEF BarrierInv, BarrierPlaced, BarrierLocations, Raise, BarrierAt, BarrierCall
<1>2. RaisedInv'
  BY <1>w DEF BarrierInv, BarrierPlaced, RaisedInv, OnlyRaised, Raise, BarrierAt, BarrierCall
<1>3. AloneInv'
  <2> SUFFICES ASSUME NEW c \in BarrierThreads, usage.callers = {c} PROVE ByItself(c)'
    BY DEF AloneInv
  <2>1. ByItself(c) /\ t = c
    BY DEF BarrierInv, AloneInv, ByItself, Raise, BarrierCall, BarrierAt
  <2>2. level \in Nat /\ uTarget \in Nat \ {0} /\ prior[t] \in Nat
    BY DEF BarrierInv, BarrierPlaced
  <2> QED
    BY <2>1, <2>2, <1>w DEF ByItself, Settled, SettledBefore, BarrierInv, BarrierPlaced, Raise, BarrierAt, BarrierCall
<1> QED
  BY <1>1, <1>2, <1>3 DEF BarrierInv

LEMMA RaiseTestStep ==
  ASSUME BarrierUsages, BarrierInv, NoWrap, NEW t \in BarrierThreads, RaiseTest(t), UNCHANGED usage
  PROVE  BarrierInv'
<1>w. /\ Word(level + 1) = level + 1 /\ Word(uTarget + 1) = uTarget + 1 /\ Word(uTarget - 1) = uTarget - 1
      /\ level > 0 => Word(level - 1) = level - 1
  BY Words DEF BarrierInv
<1>1. BarrierPlaced'
  BY DEF BarrierInv, BarrierPlaced, BarrierLocations, RaiseTest, BarrierAt, BarrierCall
<1>2. RaisedInv'
  BY <1>w DEF BarrierInv, BarrierPlaced, RaisedInv, OnlyRaised, RaiseTest, Reached, BarrierAt
<1>3. AloneInv'
  <2> SUFFICES ASSUME NEW c \in BarrierThreads, usage.callers = {c} PROVE ByItself(c)'
    BY DEF AloneInv
  <2>1. ByItself(c) /\ t = c
    BY DEF BarrierInv, AloneInv, ByItself, RaiseTest, BarrierCall, BarrierAt
  <2>2. level \in Nat /\ uTarget \in Nat \ {0} /\ prior[t] \in Nat
    BY DEF BarrierInv, BarrierPlaced
  <2> QED
    BY <2>1, <2>2, <1>w DEF ByItself, Settled, SettledBefore, BarrierInv, BarrierPlaced, RaiseTest, BarrierAt, BarrierCall, Reached
<1> QED
  BY <1>1, <1>2, <1>3 DEF BarrierInv

LEMMA RaiseTriggerStep ==
  ASSUME BarrierUsages, BarrierInv, NoWrap, NEW t \in BarrierThreads, RaiseTrigger(t), UNCHANGED usage
  PROVE  BarrierInv'
<1>1. BarrierPlaced'
  BY DEF BarrierInv, BarrierPlaced, BarrierLocations, RaiseTrigger, BarrierAt, BarrierCall
<1>2. RaisedInv'
  BY DEF BarrierInv, BarrierPlaced, RaisedInv, OnlyRaised, RaiseTrigger, BarrierAt, BarrierCall
<1>3. AloneInv'
  <2> SUFFICES ASSUME NEW c \in BarrierThreads, usage.callers = {c} PROVE ByItself(c)'
    BY DEF AloneInv
  <2>1. ByItself(c) /\ t = c
    BY DEF BarrierInv, AloneInv, ByItself, RaiseTrigger, BarrierCall, BarrierAt
  <2>2. ~usage.stateless
    BY Sole DEF BarrierInv
  <2> QED
    BY <2>1, <2>2 DEF ByItself, Settled, SettledBefore, BarrierInv, BarrierPlaced, RaiseTrigger, BarrierAt, BarrierCall
<1> QED
  BY <1>1, <1>2, <1>3 DEF BarrierInv

LEMMA LowerStep ==
  ASSUME BarrierUsages, BarrierInv, NoWrap, NEW t \in BarrierThreads, Lower(t), UNCHANGED usage
  PROVE  BarrierInv'
<1>w. /\ Word(level + 1) = level + 1 /\ Word(uTarget + 1) = uTarget + 1 /\ Word(uTarget - 1) = uTarget - 1
      /\ level > 0 => Word(level - 1) = level - 1
  BY Words DEF BarrierInv
<1>1. BarrierPlaced'
  BY <1>w DEF BarrierInv, BarrierPlaced, BarrierLocations, Lower, BarrierAt, BarrierCall
<1>2. RaisedInv'
  <2>1. ~OnlyRaised'
    BY DEF Lower, BarrierCall, OnlyRaised
  <2> QED
    BY <2>1 DEF RaisedInv
<1>3. AloneInv'
  <2> SUFFICES ASSUME NEW c \in BarrierThreads, usage.callers = {c} PROVE ByItself(c)'
    BY DEF AloneInv
  <2>1. ByItself(c) /\ t = c
    BY DEF BarrierInv, AloneInv, ByItself, Lower, BarrierCall, BarrierAt
  <2>2. level \in Nat /\ uTarget \in Nat \ {0} /\ prior[t] \in Nat
    BY DEF BarrierInv, BarrierPlaced
  <2> QED
    BY <2>1, <2>2, <1>w DEF ByItself, Settled, SettledBefore, BarrierInv, BarrierPlaced, Lower, BarrierAt, BarrierCall
<1> QED
  BY <1>1, <1>2, <1>3 DEF BarrierInv

LEMMA LowerTestStep ==
  ASSUME BarrierUsages, BarrierInv, NoWrap, NEW t \in BarrierThreads, LowerTest(t), UNCHANGED usage
  PROVE  BarrierInv'
<1>1. BarrierPlaced'
  BY DEF BarrierInv, BarrierPlaced, BarrierLocations, LowerTest, BarrierAt, BarrierCall
<1>2. RaisedInv'
  <2>1. ~OnlyRaised
    BY DEF LowerTest, BarrierAt, BarrierInv, RaisedInv
  <2> QED
    BY <2>1 DEF RaisedInv, OnlyRaised
<1>3. AloneInv'
  <2> SUFFICES ASSUME NEW c \in BarrierThreads, usage.callers = {c} PROVE ByItself(c)'
    BY DEF AloneInv
  <2>1. ByItself(c) /\ t = c
    BY DEF BarrierInv, AloneInv, ByItself, LowerTest, BarrierCall, BarrierAt
  <2>2. level \in Nat /\ uTarget \in Nat \ {0} /\ prior[t] \in Nat
    BY DEF BarrierInv, BarrierPlaced
  <2> QED
    BY <2>1, <2>2 DEF ByItself, Settled, SettledBefore, BarrierInv, BarrierPlaced, LowerTest, BarrierAt, BarrierCall
<1> QED
  BY <1>1, <1>2, <1>3 DEF BarrierInv

LEMMA ClearStep ==
  ASSUME BarrierUsages, BarrierInv, NoWrap, NEW t \in BarrierThreads, Clear(t), UNCHANGED usage
  PROVE  BarrierInv'
<1>1. BarrierPlaced'
  BY DEF BarrierInv, BarrierPlaced, BarrierLocations, Clear, BarrierAt, BarrierCall
<1>2. RaisedInv'
  <2>1. ~OnlyRaised'
    BY DEF Clear, BarrierCall, OnlyRaised
  <2> QED
    BY <2>1 DEF RaisedInv
<1>3. AloneInv'
  <2> SUFFICES ASSUME NEW c \in BarrierThreads, usage.callers = {c} PROVE ByItself(c)'
    BY DEF AloneInv
  <2>1. ByItself(c) /\ t = c
    BY DEF BarrierInv, AloneInv, ByItself, Clear, BarrierCall, BarrierAt
  <2>2. level \in Nat /\ uTarget \in Nat \ {0} /\ prior[t] \in Nat
    BY DEF BarrierInv, BarrierPlaced
  <2> QED
    BY <2>1, <2>2 DEF ByItself, Settled, SettledBefore, BarrierInv, BarrierPlaced, Clear, BarrierAt, BarrierCall
<1> QED
  BY <1>1, <1>2, <1>3 DEF BarrierInv

LEMMA ResetStep ==
  ASSUME BarrierUsages, BarrierInv, NoWrap, NEW t \in BarrierThreads, Reset(t), UNCHANGED usage
  PROVE  BarrierInv'
<1>1. BarrierPlaced'
  BY DEF BarrierInv, BarrierPlaced, BarrierLocations, Reset, BarrierAt, BarrierCall, BarrierUsages
<1>2. RaisedInv'
  <2>1. ~OnlyRaised'
    BY DEF Reset, BarrierCall, OnlyRaised
  <2> QED
    BY <2>1 DEF RaisedInv
<1>3. AloneInv'
  <2> SUFFICES ASSUME NEW c \in BarrierThreads, usage.callers = {c} PROVE ByItself(c)'
    BY DEF AloneInv
  <2>1. ByItself(c) /\ t = c
    BY DEF BarrierInv, AloneInv, ByItself, Reset, BarrierCall, BarrierAt
  <2>2. level \in Nat /\ uTarget \in Nat \ {0} /\ prior[t] \in Nat
    BY DEF BarrierInv, BarrierPlaced
  <2> QED
    BY <2>1, <2>2 DEF ByItself, Settled, SettledBefore, BarrierInv, BarrierPlaced, Reset, BarrierAt, BarrierCall
<1> QED
  BY <1>1, <1>2, <1>3 DEF BarrierInv

LEMMA ResetLevelStep ==
  ASSUME BarrierUsages, BarrierInv, NoWrap, NEW t \in BarrierThreads, ResetLevel(t), UNCHANGED usage
  PROVE  BarrierInv'
<1>1. BarrierPlaced'
  BY DEF BarrierInv, BarrierPlaced, BarrierLocations, ResetLevel, BarrierAt, BarrierCall
<1>2. RaisedInv'
  <2>1. ~OnlyRaised
    BY DEF ResetLevel, BarrierAt, BarrierInv, RaisedInv
  <2> QED
    BY <2>1 DEF RaisedInv, OnlyRaised
<1>3. AloneInv'
  <2> SUFFICES ASSUME NEW c \in BarrierThreads, usage.callers = {c} PROVE ByItself(c)'
    BY DEF AloneInv
  <2>1. ByItself(c) /\ t = c
    BY DEF BarrierInv, AloneInv, ByItself, ResetLevel, BarrierCall, BarrierAt
  <2>2. level \in Nat /\ uTarget \in Nat \ {0} /\ prior[t] \in Nat
    BY DEF BarrierInv, BarrierPlaced
  <2> QED
    BY <2>1, <2>2 DEF ByItself, Settled, SettledBefore, BarrierInv, BarrierPlaced, ResetLevel, BarrierAt, BarrierCall
<1> QED
  BY <1>1, <1>2, <1>3 DEF BarrierInv

LEMMA IncreaseTargetStep ==
  ASSUME BarrierUsages, BarrierInv, NoWrap, NEW t \in BarrierThreads, IncreaseTarget(t), UNCHANGED usage
  PROVE  BarrierInv'
<1>w. /\ Word(level + 1) = level + 1 /\ Word(uTarget + 1) = uTarget + 1 /\ Word(uTarget - 1) = uTarget - 1
      /\ level > 0 => Word(level - 1) = level - 1
  BY Words DEF BarrierInv
<1>1. BarrierPlaced'
  BY <1>w DEF BarrierInv, BarrierPlaced, BarrierLocations, IncreaseTarget, BarrierAt, BarrierCall
<1>2. RaisedInv'
  <2>1. ~OnlyRaised'
    BY DEF IncreaseTarget, BarrierCall, OnlyRaised
  <2> QED
    BY <2>1 DEF RaisedInv
<1>3. AloneInv'
  <2> SUFFICES ASSUME NEW c \in BarrierThreads, usage.callers = {c} PROVE ByItself(c)'
    BY DEF AloneInv
  <2>1. ByItself(c) /\ t = c
    BY DEF BarrierInv, AloneInv, ByItself, IncreaseTarget, BarrierCall, BarrierAt
  <2>2. level \in Nat /\ uTarget \in Nat \ {0} /\ prior[t] \in Nat
    BY DEF BarrierInv, BarrierPlaced
  <2> QED
    BY <2>1, <2>2, <1>w DEF ByItself, Settled, SettledBefore, BarrierInv, BarrierPlaced, IncreaseTarget, BarrierAt, BarrierCall
<1> QED
  BY <1>1, <1>2, <1>3 DEF BarrierInv

LEMMA IncreaseTestStep ==
  ASSUME BarrierUsages, BarrierInv, NoWrap, NEW t \in BarrierThreads, IncreaseTest(t), UNCHANGED usage
  PROVE  BarrierInv'
<1>1. BarrierPlaced'
  BY DEF BarrierInv, BarrierPlaced, BarrierLocations, IncreaseTest, BarrierAt, BarrierCall
<1>2. RaisedInv'
  <2>1. ~OnlyRaised
    BY DEF IncreaseTest, BarrierAt, BarrierInv, RaisedInv
  <2> QED
    BY <2>1 DEF RaisedInv, OnlyRaised
<1>3. AloneInv'
  <2> SUFFICES ASSUME NEW c \in BarrierThreads, usage.callers = {c} PROVE ByItself(c)'
    BY DEF AloneInv
  <2>1. ByItself(c) /\ t = c
    BY DEF BarrierInv, AloneInv, ByItself, IncreaseTest, BarrierCall, BarrierAt
  <2>2. level \in Nat /\ uTarget \in Nat \ {0} /\ prior[t] \in Nat
    BY DEF BarrierInv, BarrierPlaced
  <2> QED
    BY <2>1, <2>2 DEF ByItself, Settled, SettledBefore, BarrierInv, BarrierPlaced, IncreaseTest, BarrierAt, BarrierCall
<1> QED
  BY <1>1, <1>2, <1>3 DEF BarrierInv

LEMMA OffStep ==
  ASSUME BarrierUsages, BarrierInv, NoWrap, NEW t \in BarrierThreads, Off(t), UNCHANGED usage
  PROVE  BarrierInv'
<1>1. BarrierPlaced'
  BY DEF BarrierInv, BarrierPlaced, BarrierLocations, Off, BarrierAt, BarrierCall
<1>2. RaisedInv'
  <2>1. ~OnlyRaised
    BY DEF Off, BarrierAt, BarrierInv, RaisedInv
  <2> QED
    BY <2>1 DEF RaisedInv, OnlyRaised
<1>3. AloneInv'
  <2> SUFFICES ASSUME NEW c \in BarrierThreads, usage.callers = {c} PROVE ByItself(c)'
    BY DEF AloneInv
  <2>1. ByItself(c) /\ t = c
    BY DEF BarrierInv, AloneInv, ByItself, Off, BarrierCall, BarrierAt
  <2>2. level \in Nat /\ uTarget \in Nat \ {0} /\ prior[t] \in Nat
    BY DEF BarrierInv, BarrierPlaced
  <2> QED
    BY <2>1, <2>2 DEF ByItself, Settled, SettledBefore, BarrierInv, BarrierPlaced, Off, BarrierAt, BarrierCall
<1> QED
  BY <1>1, <1>2, <1>3 DEF BarrierInv

LEMMA BarrierWaitStep ==
  ASSUME BarrierUsages, BarrierInv, NoWrap, NEW t \in BarrierThreads, Wait(t), UNCHANGED usage
  PROVE  BarrierInv'
<1>1. BarrierPlaced'
  BY DEF BarrierInv, BarrierPlaced, BarrierLocations, Wait, BarrierAt, BarrierCall
<1>2. RaisedInv'
  BY DEF BarrierInv, BarrierPlaced, RaisedInv, OnlyRaised, Wait, BarrierAt, BarrierCall
<1>3. AloneInv'
  <2> SUFFICES ASSUME NEW c \in BarrierThreads, usage.callers = {c} PROVE ByItself(c)'
    BY DEF AloneInv
  <2>1. ByItself(c) /\ t = c
    BY DEF BarrierInv, AloneInv, ByItself, Wait, BarrierCall, BarrierAt
  <2> QED
    BY <2>1 DEF ByItself, Settled, SettledBefore, BarrierInv, BarrierPlaced, Wait, BarrierAt, BarrierCall
<1> QED
  BY <1>1, <1>2, <1>3 DEF BarrierInv

LEMMA PassStep ==
  ASSUME BarrierUsages, BarrierInv, NoWrap, NEW t \in BarrierThreads, Pass(t), UNCHANGED usage
  PROVE  BarrierInv'
<1>1. BarrierPlaced'
  BY DEF BarrierInv, BarrierPlaced, BarrierLocations, Pass, BarrierAt, BarrierCall
<1>2. RaisedInv'
  BY DEF BarrierInv, BarrierPlaced, RaisedInv, OnlyRaised, Pass, BarrierAt, BarrierCall
<1>3. AloneInv'
  <2> SUFFICES ASSUME NEW c \in BarrierThreads, usage.callers = {c} PROVE ByItself(c)'
    BY DEF AloneInv
  <2>1. ByItself(c) /\ t = c
    BY DEF BarrierInv, AloneInv, ByItself, Pass, BarrierCall, BarrierAt
  <2> QED
    BY <2>1 DEF ByItself, Settled, SettledBefore, BarrierInv, BarrierPlaced, Pass, BarrierAt, BarrierCall
<1> QED
  BY <1>1, <1>2, <1>3 DEF BarrierInv

LEMMA SpuriousStep ==
  ASSUME BarrierUsages, BarrierInv, NoWrap, NEW t \in BarrierThreads, Spurious(t), UNCHANGED usage
  PROVE  BarrierInv'
<1>1. BarrierPlaced'
  BY DEF BarrierInv, BarrierPlaced, BarrierLocations, Spurious, BarrierAt, BarrierCall
<1>2. RaisedInv'
  BY DEF BarrierInv, BarrierPlaced, RaisedInv, OnlyRaised, Spurious, BarrierAt, BarrierCall
<1>3. AloneInv'
  <2> SUFFICES ASSUME NEW c \in BarrierThreads, usage.callers = {c} PROVE ByItself(c)'
    BY DEF AloneInv
  <2>1. ByItself(c) /\ t = c
    BY DEF BarrierInv, AloneInv, ByItself, Spurious, BarrierCall, BarrierAt
  <2> QED
    BY <2>1 DEF ByItself, Settled, SettledBefore, BarrierInv, BarrierPlaced, Spurious, BarrierAt, BarrierCall
<1> QED
  BY <1>1, <1>2, <1>3 DEF BarrierInv

LEMMA BarrierStepInv ==
  ASSUME BarrierUsages, BarrierInv, NoWrap, [BarrierNext]_barrierVars
  PROVE  BarrierInv'
<1>1. ASSUME NEW t \in BarrierThreads, BarrierStep(t) PROVE BarrierInv'
  BY <1>1, RaiseTestStep, RaiseTriggerStep, LowerTestStep, ResetLevelStep, IncreaseTestStep, OffStep, PassStep
     DEF BarrierStep
<1>2. ASSUME NEW t \in BarrierThreads, BarrierBegin(t) PROVE BarrierInv'
  BY <1>2, RaiseStep, LowerStep, ClearStep, ResetStep, IncreaseTargetStep, BarrierWaitStep DEF BarrierBegin
<1>3. ASSUME NEW t \in BarrierThreads, Spurious(t) PROVE BarrierInv'
  BY <1>3, SpuriousStep DEF Spurious
<1>4. CASE UNCHANGED barrierVars
  BY <1>4 DEF barrierVars, BarrierInv, BarrierPlaced, RaisedInv, OnlyRaised, AloneInv, ByItself, Settled, SettledBefore
<1> QED
  BY <1>1, <1>2, <1>3, <1>4 DEF BarrierNext

\* While neither counter wraps, the event agrees with the level: nobody passes a
\* barrier that is only raised before it is reached, and one thread that uses it
\* in any way finds the event on once the level has reached the target.
THEOREM EventFollowsLevel ==
  ASSUME BarrierUsages
  PROVE  BarrierSpec /\ []NoWrap => []EventMatchesLevel
<1>1. BarrierInit => BarrierInv
  BY BarrierInitInv
<1>2. BarrierInv /\ NoWrap /\ [BarrierNext]_barrierVars => BarrierInv'
  BY BarrierStepInv
<1>3. BarrierInv => EventMatchesLevel
  <2> SUFFICES ASSUME BarrierInv PROVE EventMatchesLevel
    OBVIOUS
  <2>1. OnlyRaised /\ event => level >= uTarget
    BY DEF BarrierInv, RaisedInv
  <2>2. ASSUME Cardinality(usage.callers) = 1, Quiet, level >= uTarget PROVE event
    <3>1. usage.callers \subseteq BarrierThreads /\ IsFiniteSet(BarrierThreads)
      BY DEF BarrierInv, BarrierPlaced, BarrierUsages
    <3>2. IsFiniteSet(usage.callers)
      BY <3>1, FS_Subset
    <3>3. PICK c : usage.callers = {c}
      BY <2>2, <3>2, FS_Singleton
    <3>4. c \in BarrierThreads /\ ByItself(c)
      BY <3>1, <3>3 DEF BarrierInv, AloneInv
    <3> QED
      BY <2>2, <3>4 DEF Quiet, ByItself, Settled
  <2> QED
    BY <2>1, <2>2 DEF EventMatchesLevel
<1> QED
  BY <1>1, <1>2, <1>3, PTL DEF BarrierSpec

-----------------------------------------------------------------------------
(* The thread object.  Until a Stop gives up, a thread that has not ended is *)
(* the one the handle is for, and a new one is started only when there is no *)
(* handle; the threads that were asked to stop had been started, so the next *)
(* one, for which the request is forgotten, is none of them.                 *)

\* The seven priorities of EPriority, of which Normal is the fourth.
PriorityNumbers == Priorities = 7 /\ NormalOf = 3 /\ MaxThreads \in Nat

ThreadStates ==
  [at : {"none", "created", "running", "ended", "cancelled"}, priority : 0 .. 6,
   returned : ExitValues \cup {0}]

LifePlaced ==
  /\ mswin \in BOOLEAN /\ bTerminate \in BOOLEAN /\ late \in BOOLEAN
  /\ handle \in Numbers \cup {NoThread, Stale}
  /\ threads \in [Numbers -> ThreadStates]
  /\ asked \subseteq Numbers

Begun == \A n \in asked : threads[n].at # "none"

Windows == mswin => uThreadId = handle /\ handle # Stale

Held ==
  /\ Live \subseteq {handle}
  /\ owner = "gone" => Live = {}
  /\ asked \cap Live # {} => bTerminate

Remembered ==
  mswin /\ handle # NoThread /\ threads[handle].at = "ended" => iExitValue = threads[handle].returned

LifeInv == LifePlaced /\ Begun /\ Windows /\ (~late => Held /\ Remembered)

\* Threads have numbers, which no handle without a thread is.
LEMMA ThreadNumbers ==
  ASSUME PriorityNumbers
  PROVE  Numbers \subseteq Int /\ NoThread \notin Numbers /\ Stale \notin Numbers
BY DEF PriorityNumbers, Numbers, NoThread, Stale

\* When the object thinks that nothing was started, nothing runs.
LEMMA NothingRuns ==
  ASSUME PriorityNumbers, LifeInv, ~Started, ~late
  PROVE  Live = {} /\ handle = NoThread
<1>1. handle = NoThread
  BY DEF Started, LifeInv, Windows, LifePlaced, NoThread
<1>2. Live \subseteq {NoThread} /\ Live \subseteq Numbers
  BY <1>1 DEF LifeInv, Held, Live
<1> QED
  BY <1>1, <1>2, ThreadNumbers

LEMMA LifeInitInv ==
  ASSUME PriorityNumbers, LifeInit
  PROVE  LifeInv
<1>1. LifePlaced
  <2>1. Fresh \in ThreadStates
    BY DEF PriorityNumbers, ThreadStates, Fresh
  <2> QED
    BY <2>1 DEF LifeInit, LifePlaced
<1>2. Live = {}
  BY DEF LifeInit, Live, Fresh
<1> QED
  BY <1>1, <1>2 DEF LifeInit, LifeInv, Begun, Windows, Held, Remembered, Stale, NoThread

LEMMA StartInv ==
  ASSUME PriorityNumbers, LifeInv, Start
  PROVE  LifeInv'
<1>1. PICK n \in Numbers :
        /\ threads[n].at = "none"
        /\ threads' = [threads EXCEPT ![n].at = "created"]
        /\ handle' = n
        /\ uThreadId' = IF mswin THEN n ELSE 0
  BY DEF Start
<1>2. LifePlaced'
  <2>1. [threads[n] EXCEPT !.at = "created"] \in ThreadStates
    BY DEF LifeInv, LifePlaced, ThreadStates
  <2>2. threads' = [threads EXCEPT ![n] = [threads[n] EXCEPT !.at = "created"]]
    BY <1>1 DEF LifeInv, LifePlaced
  <2>3. (threads \in [Numbers -> ThreadStates])'
    BY <2>1, <2>2 DEF LifeInv, LifePlaced
  <2> QED
    BY <1>1, <2>3 DEF LifeInv, LifePlaced, Start
<1>3. Begun' /\ Windows'
  BY <1>1, ThreadNumbers DEF LifeInv, LifePlaced, ThreadStates, Begun, Windows, Start
<1>4. ASSUME ~late' PROVE Held' /\ Remembered'
  <2>1. Live = {}
    BY <1>4, NothingRuns DEF Start
  <2>2. Live' \subseteq {n}
    BY <1>1, <2>1 DEF Live, LifeInv, LifePlaced, ThreadStates
  <2>3. n \notin asked
    BY <1>1 DEF LifeInv, Begun
  <2>4. Held'
    BY <1>1, <2>2, <2>3 DEF Held, Start
  <2>5. Remembered'
    BY <1>1 DEF Remembered, LifeInv, LifePlaced, ThreadStates
  <2> QED
    BY <2>4, <2>5
<1> QED
  BY <1>2, <1>3, <1>4 DEF LifeInv

LEMMA StartFailsInv ==
  ASSUME PriorityNumbers, LifeInv, StartFails
  PROVE  LifeInv'
<1>1. Live' = Live
  BY DEF StartFails, Live
<1>2. LifePlaced'
  BY DEF LifeInv, LifePlaced, StartFails
<1>w. Begun' /\ Windows'
  BY DEF LifeInv, Begun, Windows, StartFails, NoThread, Stale
<1>3. ASSUME ~late' PROVE Held' /\ Remembered'
  <2>1. Live = {}
    BY <1>3, NothingRuns DEF StartFails
  <2>2. mswin => handle' = NoThread
    BY DEF StartFails
  <2> QED
    BY <1>1, <2>1, <2>2 DEF Held, Remembered, StartFails
<1> QED
  BY <1>2, <1>w, <1>3 DEF LifeInv

\* Threads are entered and return, or are cancelled, by themselves.
LEMMA EnterInv ==
  ASSUME PriorityNumbers, LifeInv, NEW n \in Numbers, Enter(n)
  PROVE  LifeInv'
<1>1. threads[n].at = "created" /\ threads' = [threads EXCEPT ![n].at = "running"]
  BY DEF Enter
<1>2. Live' = Live
  BY <1>1 DEF Live, LifeInv, LifePlaced, ThreadStates
<1>3. LifePlaced' /\ Begun' /\ Windows'
  BY <1>1 DEF LifeInv, LifePlaced, ThreadStates, Begun, Windows, Enter
<1>4. ASSUME ~late' PROVE Held' /\ Remembered'
  <2>1. Held'
    BY <1>2, <1>4 DEF LifeInv, Held, Enter
  <2>2. Remembered'
    BY <1>1, <1>4 DEF LifeInv, LifePlaced, Windows, ThreadStates, Remembered, Enter, NoThread, Stale
  <2> QED
    BY <2>1, <2>2
<1> QED
  BY <1>3, <1>4 DEF LifeInv

LEMMA ReturnInv ==
  ASSUME PriorityNumbers, LifeInv, NEW n \in Numbers, Return(n)
  PROVE  LifeInv'
<1>1. PICK x \in ExitValues :
        /\ iExitValue' = x
        /\ threads' = [threads EXCEPT ![n].at = "ended", ![n].returned = x]
  BY DEF Return
<1>2. Live' = Live \ {n} /\ n \in Live
  BY <1>1 DEF Live, LifeInv, LifePlaced, ThreadStates, Return
<1>3. LifePlaced'
  <2>1. [threads[n] EXCEPT !.at = "ended", !.returned = x] \in ThreadStates
    BY DEF LifeInv, LifePlaced, ThreadStates
  <2>2. threads' = [threads EXCEPT ![n] = [threads[n] EXCEPT !.at = "ended", !.returned = x]]
    BY <1>1 DEF LifeInv, LifePlaced
  <2>3. (threads \in [Numbers -> ThreadStates])'
    BY <2>1, <2>2 DEF LifeInv, LifePlaced
  <2> QED
    BY <2>3 DEF LifeInv, LifePlaced, Return
<1>4. Begun' /\ Windows'
  BY <1>1 DEF LifeInv, LifePlaced, ThreadStates, Begun, Windows, Return
<1>5. ASSUME ~late' PROVE Held' /\ Remembered'
  <2>1. handle = n
    BY <1>2, <1>5 DEF LifeInv, Held, Return
  <2>2. Held'
    BY <1>2, <1>5 DEF LifeInv, Held, Return
  <2>3. Remembered'
    BY <1>1, <2>1 DEF LifeInv, LifePlaced, ThreadStates, Remembered, Return
  <2> QED
    BY <2>2, <2>3
<1> QED
  BY <1>3, <1>4, <1>5 DEF LifeInv

LEMMA CancelledInv ==
  ASSUME PriorityNumbers, LifeInv, Cancelled
  PROVE  LifeInv'
<1>1. handle \in Numbers /\ threads' = [threads EXCEPT ![handle].at = "cancelled"] /\ ~mswin
  BY DEF Cancelled, Live
<1>2. Live' = Live \ {handle}
  BY <1>1 DEF Live, LifeInv, LifePlaced, ThreadStates
<1>3. LifePlaced'
  BY <1>1 DEF LifeInv, LifePlaced, ThreadStates, Cancelled
<1>4. Begun' /\ Windows' /\ Remembered'
  BY <1>1 DEF LifeInv, LifePlaced, ThreadStates, Begun, Windows, Remembered, Cancelled
<1>5. ASSUME ~late' PROVE Held'
  BY <1>2, <1>5 DEF LifeInv, Held, Cancelled
<1> QED
  BY <1>3, <1>4, <1>5 DEF LifeInv

\* What the owner does to the object alone.
LEMMA AskInv ==
  ASSUME PriorityNumbers, LifeInv, SignalStop \/ Destroy \/ \E whole \in BOOLEAN : Stop(whole)
  PROVE  LifeInv'
<1>1. Live' = Live /\ UNCHANGED <<mswin, handle, uThreadId, iExitValue, threads, late>>
  BY DEF SignalStop, Stop, Destroy, Live
<1>2. \/ asked' = asked /\ bTerminate' = bTerminate
      \/ asked' = Live /\ bTerminate' = TRUE
  BY DEF SignalStop, Stop, Destroy
<1>3. LifePlaced' /\ Begun' /\ Windows'
  BY <1>1, <1>2 DEF LifeInv, LifePlaced, Begun, Windows, Live
<1>4. ASSUME ~late' PROVE Held' /\ Remembered'
  <2>1. owner' = "gone" => Live = {}
    BY <1>1, <1>4, NothingRuns DEF SignalStop, Stop, Destroy
  <2> QED
    BY <1>1, <1>2, <1>4, <2>1 DEF LifeInv, Held, Remembered
<1> QED
  BY <1>3, <1>4 DEF LifeInv

\* A Stop that ends: the thread ended, or the Stop gave up.
LEMMA StopEndsInv ==
  ASSUME PriorityNumbers, LifeInv, StopInTime \/ StopLate \/ Joined
  PROVE  LifeInv'
<1>1. Live' = Live /\ UNCHANGED <<mswin, bTerminate, iExitValue, threads, asked>>
  BY DEF StopInTime, StopLate, Joined, Live
<1>h. /\ handle' = handle \/ handle' = NoThread
      /\ late' \in {late, TRUE}
      /\ mswin => \/ uThreadId' = uThreadId /\ handle' = handle
                  \/ uThreadId' = 0 /\ handle' = NoThread
  BY DEF StopInTime, StopLate, Joined
<1>2. LifePlaced'
  BY <1>1, <1>h DEF LifeInv, LifePlaced
<1>w. Begun' /\ Windows'
  BY <1>1, <1>h DEF LifeInv, Begun, Windows, NoThread, Stale
<1>3. ASSUME ~late' PROVE Held' /\ Remembered'
  <2>1. ~late /\ handle \notin Live
    BY <1>3 DEF StopInTime, StopLate, Joined
  <2>2. Live = {}
    BY <2>1 DEF LifeInv, Held
  <2>3. handle' = handle \/ ~mswin
    BY <1>3 DEF StopInTime, StopLate, Joined
  <2> QED
    BY <1>1, <2>1, <2>2, <2>3 DEF LifeInv, Held, Remembered
<1> QED
  BY <1>2, <1>w, <1>3 DEF LifeInv

LEMMA PriorityInv ==
  ASSUME PriorityNumbers, LifeInv, NEW prio \in 0 .. Priorities - 1, SetPriority(prio)
  PROVE  LifeInv'
<1>0. prio \in 0 .. 6
  BY DEF PriorityNumbers
<1>1. UNCHANGED <<mswin, handle, uThreadId, bTerminate, iExitValue, owner, asked, late>>
  BY DEF SetPriority
<1>2. /\ threads' \in [Numbers -> ThreadStates]
      /\ \A n \in Numbers : threads'[n].at = threads[n].at /\ threads'[n].returned = threads[n].returned
  <2>1. CASE handle \in Live
    <3>1. threads' = [threads EXCEPT ![handle].priority = prio] /\ handle \in Numbers
      BY <2>1 DEF SetPriority, Live
    <3> QED
      BY <1>0, <3>1 DEF LifeInv, LifePlaced, ThreadStates
  <2>2. CASE handle \notin Live
    BY <2>2 DEF SetPriority, LifeInv, LifePlaced
  <2> QED
    BY <2>1, <2>2
<1>3. Live' = Live
  BY <1>2 DEF Live
<1>4. LifePlaced' /\ Begun' /\ Windows'
  BY <1>1, <1>2 DEF LifeInv, LifePlaced, Begun, Windows
<1>5. Held' <=> Held
  BY <1>1, <1>3 DEF Held
<1>6. Remembered => Remembered'
  BY <1>1, <1>2 DEF LifeInv, LifePlaced, Windows, Remembered
<1> QED
  BY <1>1, <1>4, <1>5, <1>6 DEF LifeInv

LEMMA LifeInvariant ==
  ASSUME PriorityNumbers
  PROVE  LifeSpec => []LifeInv
<1>1. LifeInit => LifeInv
  BY LifeInitInv
<1>2. LifeInv /\ [LifeNext]_lifeVars => LifeInv'
  <2> SUFFICES ASSUME LifeInv, [LifeNext]_lifeVars PROVE LifeInv'
    OBVIOUS
  <2>1. CASE LifeNext
    <3>1. CASE StartAgain
      BY <3>1 DEF StartAgain, lifeVars, LifeInv, LifePlaced, Begun, Windows, Held, Remembered, Live
    <3> QED
      BY <2>1, <3>1, StartInv, StartFailsInv, EnterInv, ReturnInv, CancelledInv, AskInv, StopEndsInv, PriorityInv
         DEF LifeNext
  <2>2. CASE UNCHANGED lifeVars
    BY <2>2 DEF lifeVars, LifeInv, LifePlaced, Begun, Windows, Held, Remembered, Live
  <2> QED
    BY <2>1, <2>2
<1> QED
  BY <1>1, <1>2, PTL DEF LifeSpec

\* The priority asked of Windows is the one that was set.
LEMMA PriorityBack ==
  ASSUME NEW p \in 0 .. 6
  PROVE  FromReal(RealPriority[p + 1]) = p
<1>1. DOMAIN RealPriority = 1 .. 7 /\ p + 1 \in 1 .. 7
  BY DEF RealPriority
<1>2. \A q \in 1 .. 7 : RealPriority[q] = RealPriority[p + 1] => q = p + 1
  BY DEF RealPriority
<1> DEFINE Q == CHOOSE q \in DOMAIN RealPriority : RealPriority[q] = RealPriority[p + 1]
<1>3. \E q \in DOMAIN RealPriority : RealPriority[q] = RealPriority[p + 1]
  BY <1>1
<1>4. Q \in DOMAIN RealPriority /\ RealPriority[Q] = RealPriority[p + 1]
  BY <1>3
<1>5. Q = p + 1
  BY <1>1, <1>2, <1>4
<1>6. FromReal(RealPriority[p + 1]) = Q - 1
  BY <1>3, Zenon DEF FromReal
<1> HIDE DEF Q
<1> QED
  BY <1>5, <1>6

\* Unless a Stop gave up, one thread at most runs on the object, asked to stop
\* until it does, and what the object says of it is so.
THEOREM RunsOneThread ==
  ASSUME PriorityNumbers
  PROVE  LifeSpec => []OneThreadRuns
<1>0. LifeSpec => []LifeInv
  BY LifeInvariant
<1>1. LifeInv => OneThreadRuns
  <2> SUFFICES ASSUME LifeInv, ~late
               PROVE  /\ Held
                      /\ mswin => /\ IsRunning <=> Live # {}
                                  /\ Remembered
                                  /\ handle # NoThread => GetPriority = threads[handle].priority
    BY DEF OneThreadRuns, Held, Remembered
  <2>1. Held /\ Remembered
    BY DEF LifeInv
  <2>2. mswin => (IsRunning <=> Live # {})
    <3>1. NoThread \notin Live
      BY ThreadNumbers DEF Live
    <3> QED
      BY <2>1, <3>1 DEF Held, IsRunning
  <2>3. mswin /\ handle # NoThread => GetPriority = threads[handle].priority
    <3> SUFFICES ASSUME mswin, handle # NoThread PROVE GetPriority = threads[handle].priority
      OBVIOUS
    <3>1. handle \in Numbers
      BY DEF LifeInv, LifePlaced, Windows
    <3>2. threads[handle].priority \in 0 .. 6
      BY <3>1 DEF LifeInv, LifePlaced, ThreadStates
    <3> QED
      BY <3>2, PriorityBack DEF GetPriority
  <2> QED
    BY <2>1, <2>2, <2>3
<1> QED
  BY <1>0, <1>1, PTL
=============================================================================
