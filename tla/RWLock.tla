------------------------------- MODULE RWLock -------------------------------
(***************************************************************************)
(* CRWLock (RWLock.hpp): many readers or one writer, by counting.  A       *)
(* reader adds one to m_uReaderCount, a writer adds kMaxReaders, and each  *)
(* judges by the value it found there.  A refused reader takes its one     *)
(* back and tries again, so the count is seldom the number of readers.     *)
(*                                                                         *)
(* One action is one atomic operation or one read.  A count is at most     *)
(* twice kMaxReaders and the number of threads: it does not wrap.          *)
(***************************************************************************)
EXTENDS Integers, FiniteSets

CONSTANTS
  Threads,     \* those that share the lock
  kMaxReaders  \* 64 in the code

ASSUME ThreadsFinite == IsFiniteSet(Threads)
ASSUME RWLockAssumption == kMaxReaders \in Nat \ {0}

VARIABLES
  uReaderCount,  \* m_uReaderCount
  uWriterFetch,  \* m_uWriterFetch
  pc             \* where each thread is in the lock's functions

vars == <<uReaderCount, uWriterFetch, pc>>

Init ==
  /\ uReaderCount = 0
  /\ uWriterFetch = 0
  /\ pc = [t \in Threads |-> "idle"]

At(t, here, next) == pc[t] = here /\ pc' = [pc EXCEPT ![t] = next]

\* A thread that holds nothing calls ReadLock or WriteLock.
Call(t) ==
  /\ At(t, "idle", "readLock") \/ At(t, "idle", "writeLock")
  /\ UNCHANGED <<uReaderCount, uWriterFetch>>

-----------------------------------------------------------------------------
(* ReadLock, ReadUnlock *)

\* readers >= kMaxReaders - 1, readers being the count with this one.
RefusedNever(readers) == FALSE
Refused(readers) == readers >= kMaxReaders - 1

ReadInc(t) ==
  /\ IF Refused(uReaderCount + 1) THEN At(t, "readLock", "refused")
                                  ELSE At(t, "readLock", "reading")
  /\ uReaderCount' = uReaderCount + 1
  /\ UNCHANGED uWriterFetch

ReadBackOff(t) ==
  /\ At(t, "refused", "readLock")
  /\ uReaderCount' = uReaderCount - 1
  /\ UNCHANGED uWriterFetch

\* Taken back twice.
ReadUnlockTwice(t) ==
  /\ At(t, "reading", "idle")
  /\ uReaderCount' = uReaderCount - 2
  /\ UNCHANGED uWriterFetch

ReadUnlock(t) ==
  /\ At(t, "reading", "idle")
  /\ uReaderCount' = uReaderCount - 1
  /\ UNCHANGED uWriterFetch

-----------------------------------------------------------------------------
(* WriteLock, WriteUnlock *)

\* AcquireWritePrivilege
Fetch(t) ==
  /\ IF uWriterFetch = 0 THEN At(t, "writeLock", "add") ELSE At(t, "writeLock", "fetched")
  /\ uWriterFetch' = uWriterFetch + 1
  /\ UNCHANGED uReaderCount

FetchBackOff(t) ==
  /\ At(t, "fetched", "writeLock")
  /\ uWriterFetch' = uWriterFetch - 1
  /\ UNCHANGED uReaderCount

WriteAdd(t) ==
  /\ At(t, "add", "drain")
  /\ uReaderCount' = uReaderCount + kMaxReaders
  /\ UNCHANGED uWriterFetch

\* while( m_uReaderCount > kMaxReaders ): the read that ends the loop.
DrainedEarly == uReaderCount <= kMaxReaders + 1
Drained == uReaderCount <= kMaxReaders

Drain(t) ==
  /\ At(t, "drain", "yield")
  /\ Drained
  /\ UNCHANGED <<uReaderCount, uWriterFetch>>

\* ReleaseWritePrivilege
FetchRelease(t) ==
  /\ At(t, "yield", "writing")
  /\ uWriterFetch' = uWriterFetch - 1
  /\ UNCHANGED uReaderCount

WriteUnlock(t) ==
  /\ At(t, "writing", "idle")
  /\ uReaderCount' = uReaderCount - kMaxReaders
  /\ UNCHANGED uWriterFetch

-----------------------------------------------------------------------------

Step(t) ==
  \/ Call(t)
  \/ ReadInc(t) \/ ReadBackOff(t) \/ ReadUnlock(t)
  \/ Fetch(t) \/ FetchBackOff(t) \/ WriteAdd(t) \/ Drain(t) \/ FetchRelease(t)
  \/ WriteUnlock(t)

Next == \E t \in Threads : Step(t)

Spec == Init /\ [][Next]_vars

Locations == {"idle", "readLock", "refused", "reading", "writeLock", "fetched",
              "add", "drain", "yield", "writing"}

Reading == {t \in Threads : pc[t] = "reading"}
Writing == {t \in Threads : pc[t] \in {"yield", "writing"}}

TypeOK ==
  /\ uReaderCount \in Nat
  /\ uWriterFetch \in Nat
  /\ pc \in [Threads -> Locations]

\* "Single-writer multiple-reader": a writer that has been let in is alone.
Exclusive ==
  \A w \in Writing : Writing = {w} /\ Reading = {}

\* "only one writer can acquire access at a time, to avoid deadlock": two that
\* have both added kMaxReaders and wait would each keep the other waiting.
OneDrains == \A t, u \in Threads : pc[t] = "drain" /\ pc[u] = "drain" => t = u

\* Writers come first: while one waits for the readers to drain, no reader is
\* let in, though readers keep counting themselves in and out.
WriterFirst ==
  [][(\E w \in Threads : pc[w] = "drain") => Reading' \subseteq Reading]_vars
=============================================================================
