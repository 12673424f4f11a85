----------------------------- MODULE QuickLocks -----------------------------
(***************************************************************************)
(* The locks of the Async library that are one word each, and no object of *)
(* the system: CQuickMutex and CQuickSemaphore.                            *)
(***************************************************************************)
EXTENDS Integers, FiniteSets

-----------------------------------------------------------------------------
(* CQuickMutex (QuickMutex.hpp): a spin lock that counts.  Whoever finds     *)
(* the count at zero when it adds one has the lock; the others take their    *)
(* one back, Acquire to try again and TryAcquire to give up.  The count is   *)
(* a uint32 and never exceeds the number of threads.                         *)

CONSTANT MutexThreads  \* those that share the lock

VARIABLES
  uLock,   \* m_uLock
  mutexPc  \* where each thread is

mutexVars == <<uLock, mutexPc>>

MutexInit ==
  /\ uLock = 0
  /\ mutexPc = [t \in MutexThreads |-> "idle"]

MutexGoto(t, where) == mutexPc' = [mutexPc EXCEPT ![t] = where]

\* Acquire, or TryAcquire.
MutexCall(t) ==
  /\ mutexPc[t] = "idle"
  /\ MutexGoto(t, "acquire") \/ MutexGoto(t, "try")
  /\ UNCHANGED uLock

\* AtomicInc( &m_uLock ) == 0, in TryAcquireUnsafe and in TryAcquire.
FreeOrOne == uLock <= 1
Free == uLock = 0

MutexInc(t) ==
  /\ \/ mutexPc[t] = "acquire" /\ MutexGoto(t, IF Free THEN "held" ELSE "again")
     \/ mutexPc[t] = "try" /\ MutexGoto(t, IF Free THEN "held" ELSE "fail")
  /\ uLock' = uLock + 1

\* A failed TryAcquire forgets to take its one back.
DecAgainOnly(t) ==
  /\ \/ mutexPc[t] = "again" /\ MutexGoto(t, "acquire") /\ uLock' = uLock - 1
     \/ mutexPc[t] = "fail" /\ MutexGoto(t, "idle") /\ UNCHANGED uLock

\* The decrement after the back-off of Acquire, and that of TryAcquire.
MutexDec(t) ==
  /\ \/ mutexPc[t] = "again" /\ MutexGoto(t, "acquire")
     \/ mutexPc[t] = "fail" /\ MutexGoto(t, "idle")
  /\ uLock' = uLock - 1

\* Release by the thread that has the lock.
MutexRelease(t) ==
  /\ mutexPc[t] = "held"
  /\ MutexGoto(t, "idle")
  /\ uLock' = uLock - 1

MutexStep(t) == MutexCall(t) \/ MutexInc(t) \/ MutexDec(t) \/ MutexRelease(t)

MutexNext == \E t \in MutexThreads : MutexStep(t)

MutexSpec == MutexInit /\ [][MutexNext]_mutexVars

MutexLocations == {"idle", "acquire", "try", "held", "again", "fail"}

MutexTypeOK ==
  /\ uLock \in 0 .. Cardinality(MutexThreads)
  /\ mutexPc \in [MutexThreads -> MutexLocations]

\* One thread at a time has the lock, whatever the others add and take back.
MutualExclusion ==
  \A t, u \in MutexThreads : mutexPc[t] = "held" /\ mutexPc[u] = "held" => t = u

\* Once everybody has left, the lock is free: every addition was taken back,
\* by Acquire, by TryAcquire and by Release.
FreeWhenIdle == (\A t \in MutexThreads : mutexPc[t] = "idle") => Free

-----------------------------------------------------------------------------
(* CQuickSemaphore (QuickSemaphore.hpp) is kept in one counter, which Signal *)
(* and TryWait read and then replace with a compare-and-swap.  Wait and       *)
(* TimedWait call TryWait until it succeeds or time is up.                    *)
(*                                                                            *)
(* Both compare the result of AtomicSetEq with the value they stored.  The    *)
(* result is the value that was there before, so this decides wrongly; the    *)
(* model does what the code does.                                             *)

CONSTANTS
  Signallers,  \* threads that call Signal
  Waiters,     \* threads that call Wait, TimedWait or TryWait
  uMaximum,    \* m_uMaximum
  BaseCount,   \* baseCount
  Counts,      \* bound: arguments of Signal
  SemaphoreWidth,  \* bits of the counter, 32 in the code
  CasSwapped   \* TRUE for the GCC/Clang macro, FALSE for the MSVC one

VARIABLES
  uCurrent,     \* m_uCurrent
  semaphorePc,  \* where each thread is
  seen,         \* currentValue of each thread
  count,        \* the argument of its Signal
  swaps         \* how often its call has changed the counter: 2 is twice or more

semaphoreVars == <<uCurrent, semaphorePc, seen, count, swaps>>

Callers == Signallers \cup Waiters

SemaphoreInit ==
  /\ uCurrent = BaseCount
  /\ semaphorePc = [t \in Callers |-> "idle"]
  /\ seen = [t \in Callers |-> 0]
  /\ count = [t \in Callers |-> 0]
  /\ swaps = [t \in Callers |-> 0]

SemaphoreGoto(t, where) == semaphorePc' = [semaphorePc EXCEPT ![t] = where]

CallSignal(t, n) ==
  /\ semaphorePc[t] \in {"idle", "true", "false"}
  /\ SemaphoreGoto(t, "signal")
  /\ count' = [count EXCEPT ![t] = n]
  /\ swaps' = [swaps EXCEPT ![t] = 0]
  /\ UNCHANGED <<uCurrent, seen>>

CallWait(t) ==
  /\ semaphorePc[t] \in {"idle", "true", "false"}
  /\ SemaphoreGoto(t, "tryWait")
  /\ swaps' = [swaps EXCEPT ![t] = 0]
  /\ UNCHANGED <<uCurrent, seen, count>>

\* updatedValue of Signal, a uint32, and the test for the maximum.
Updated(t) == (seen[t] + count[t]) % 2^SemaphoreWidth
TooManyLate(t) == Updated(t) > uMaximum + 1
TooMany(t) == Updated(t) > uMaximum

ReadSignal(t) ==
  /\ semaphorePc[t] = "signal"
  /\ seen' = [seen EXCEPT ![t] = uCurrent]
  /\ SemaphoreGoto(t, "test")
  /\ UNCHANGED <<uCurrent, count, swaps>>

Test(t) ==
  /\ semaphorePc[t] = "test"
  /\ SemaphoreGoto(t, IF TooMany(t) THEN "false" ELSE "setSignal")
  /\ UNCHANGED <<uCurrent, seen, count, swaps>>

\* What AtomicSetEq( &m_uCurrent, src, cmp ) leaves there; it returns the value
\* it found.
Stored(src, cmp) ==
  IF CasSwapped
    THEN IF uCurrent = src THEN cmp ELSE uCurrent
    ELSE IF uCurrent = cmp THEN src ELSE uCurrent

\* The exchange; the call has changed the counter when that has another value.
Exchange(t, src) ==
  /\ uCurrent' = Stored(src, seen[t])
  /\ swaps' = [swaps EXCEPT ![t] = IF uCurrent' = uCurrent THEN @ ELSE IF @ = 0 THEN 1 ELSE 2]

\* Success is uCurrent, the value found, being the value to be stored.
SetSignal(t) ==
  /\ semaphorePc[t] = "setSignal"
  /\ Exchange(t, Updated(t))
  /\ SemaphoreGoto(t, IF uCurrent = Updated(t) THEN "true" ELSE "signal")
  /\ UNCHANGED <<seen, count>>

\* TryWait, and the loops around it: a failed one may be tried again, or the
\* caller has had enough.
Fail(t) == SemaphoreGoto(t, "false") \/ SemaphoreGoto(t, "tryWait")

ReadWait(t) ==
  /\ semaphorePc[t] = "tryWait"
  /\ seen' = [seen EXCEPT ![t] = uCurrent]
  /\ IF uCurrent = 0 THEN Fail(t) ELSE SemaphoreGoto(t, "setWait")
  /\ UNCHANGED <<uCurrent, count, swaps>>

SetWait(t) ==
  /\ semaphorePc[t] = "setWait"
  /\ Exchange(t, seen[t] - 1)
  /\ IF uCurrent = seen[t] - 1 THEN SemaphoreGoto(t, "true") ELSE Fail(t)
  /\ UNCHANGED <<seen, count>>

SignalStep(t) == ReadSignal(t) \/ Test(t) \/ SetSignal(t)
WaitStep(t) == ReadWait(t) \/ SetWait(t)

SemaphoreNext ==
  \/ \E t \in Signallers : SignalStep(t) \/ \E n \in Counts : CallSignal(t, n)
  \/ \E t \in Waiters : CallWait(t) \/ WaitStep(t)

SemaphoreSpec == SemaphoreInit /\ [][SemaphoreNext]_semaphoreVars

-----------------------------------------------------------------------------

\* uCurrent stays within the maximum, however signals and waits interleave.
SemaphoreTypeOK ==
  /\ uCurrent \in 0 .. uMaximum
  /\ seen \in [Callers -> 0 .. uMaximum]
  /\ count \in [Callers -> Counts \cup {0}]
  /\ swaps \in [Callers -> 0 .. 2]

\* The result of a call is the truth: a Signal or a wait that says it has succeeded has
\* changed the counter once, and one that says it has not has left it alone.
ResultsTell ==
  \A t \in Callers :
    /\ semaphorePc[t] = "true" => swaps[t] = 1
    /\ semaphorePc[t] = "false" => swaps[t] = 0
=============================================================================
