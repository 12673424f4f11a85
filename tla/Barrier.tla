------------------------------ MODULE Barrier ------------------------------
(***************************************************************************)
(* CBarrier (Barrier.hpp) over CSignal (Signal.hpp): a level that threads  *)
(* raise and lower, and an event that is on from the moment the level has  *)
(* reached its target.  The level and the event are changed one after the  *)
(* other, so another thread may come in between.                           *)
(*                                                                         *)
(* The event is the Windows one, a manual-reset event, or the pthread one, *)
(* a condition variable without a state: Trigger wakes a thread that waits *)
(* and is forgotten when there is none.                                    *)
(***************************************************************************)
EXTENDS Integers, FiniteSets

CONSTANTS
  BarrierThreads,
  Usages,    \* ways of use: who calls, which functions, how often (a bound),
             \* and whether the event is the stateless one of pthread
  Targets,   \* arguments of the constructor and of Reset
  BarrierWidth  \* bits of uintcpu

VARIABLES
  level,     \* m_uCurrent
  uTarget,   \* m_uTarget
  event,     \* m_Event is on
  barrierPc, \* where each thread is
  prior,     \* what its atomic operation returned
  calls,     \* calls each thread has made
  usage      \* the way this barrier is used

barrierVars == <<level, uTarget, event, barrierPc, prior, calls, usage>>

BarrierInit ==
  /\ level = 0
  /\ uTarget \in Targets
  /\ event = FALSE
  /\ barrierPc = [t \in BarrierThreads |-> "idle"]
  /\ prior = [t \in BarrierThreads |-> 0]
  /\ calls = [t \in BarrierThreads |-> 0]
  /\ usage \in Usages

\* Arithmetic of uintcpu.
Word(n) == n % 2^BarrierWidth

BarrierAt(t, here, next) == barrierPc[t] = here /\ barrierPc' = [barrierPc EXCEPT ![t] = next]

BarrierCall(t, op, next) ==
  /\ t \in usage.callers
  /\ op \in usage.ops
  /\ calls[t] < usage.calls
  /\ BarrierAt(t, "idle", next)
  /\ calls' = [calls EXCEPT ![t] = @ + 1]

\* AtomicInc, and later the test of what it returned.
Raise(t) ==
  /\ BarrierCall(t, "raise", "raised")
  /\ level' = Word(level + 1)
  /\ prior' = [prior EXCEPT ![t] = level]
  /\ UNCHANGED <<uTarget, event>>

\* >= m_uTarget - 1, in which a target of 0 wraps.
ReachedLate(t) == prior[t] >= uTarget
ReachedEarly(t) == prior[t] + 1 >= Word(uTarget - 1)
Reached(t) == prior[t] >= Word(uTarget - 1)

RaiseTest(t) ==
  /\ BarrierAt(t, "raised", IF Reached(t) THEN "trigger" ELSE "idle")
  /\ UNCHANGED <<level, uTarget, event, prior, calls>>

\* m_Event.Trigger().
RaiseTrigger(t) ==
  /\ barrierPc[t] = "trigger"
  /\ LET woken == {u \in BarrierThreads : barrierPc[u] = "waiting"}
         free == [barrierPc EXCEPT ![t] = "idle"]
     IN IF usage.stateless /\ woken # {}
          THEN \E u \in woken : barrierPc' = [free EXCEPT ![u] = "idle"]
          ELSE barrierPc' = free
  /\ event' = ~usage.stateless
  /\ UNCHANGED <<level, uTarget, prior, calls>>

\* A caller lowers what was raised.
Lower(t) ==
  /\ level > 0
  /\ BarrierCall(t, "lower", "lowered")
  /\ level' = Word(level - 1)
  /\ prior' = [prior EXCEPT ![t] = level]
  /\ UNCHANGED <<uTarget, event>>

LowerTest(t) ==
  /\ BarrierAt(t, "lowered", IF prior[t] < uTarget THEN "off" ELSE "idle")
  /\ UNCHANGED <<level, uTarget, event, prior, calls>>

Clear(t) ==
  /\ BarrierCall(t, "clear", "off")
  /\ level' = 0
  /\ UNCHANGED <<uTarget, event, prior>>

\* Reset stores the target, then the level.
Reset(t) ==
  /\ BarrierCall(t, "reset", "zero")
  /\ uTarget' \in Targets
  /\ UNCHANGED <<level, event, prior>>

ResetLevel(t) ==
  /\ BarrierAt(t, "zero", "off")
  /\ level' = 0
  /\ UNCHANGED <<uTarget, event, prior, calls>>

IncreaseTarget(t) ==
  /\ BarrierCall(t, "increase", "increased")
  /\ uTarget' = Word(uTarget + 1)
  /\ UNCHANGED <<level, event, prior>>

IncreaseTest(t) ==
  /\ BarrierAt(t, "increased", IF level < uTarget THEN "off" ELSE "idle")
  /\ UNCHANGED <<level, uTarget, event, prior, calls>>

\* m_Event.Reset().  Under pthread it asserts that it is not implemented.
Off(t) ==
  /\ ~usage.stateless
  /\ BarrierAt(t, "off", "idle")
  /\ event' = FALSE
  /\ UNCHANGED <<level, uTarget, prior, calls>>

Wait(t) ==
  /\ BarrierCall(t, "wait", "waiting")
  /\ UNCHANGED <<level, uTarget, event, prior>>

\* The event is on.
Pass(t) ==
  /\ event
  /\ BarrierAt(t, "waiting", "idle")
  /\ UNCHANGED <<level, uTarget, event, prior, calls>>

\* pthread_cond_wait may return without a signal.
Spurious(t) ==
  /\ usage.stateless
  /\ BarrierAt(t, "waiting", "idle")
  /\ UNCHANGED <<level, uTarget, event, prior, calls, usage>>

BarrierStep(t) ==
  /\ \/ RaiseTest(t) \/ RaiseTrigger(t) \/ LowerTest(t) \/ ResetLevel(t)
     \/ IncreaseTest(t) \/ Off(t) \/ Pass(t)
  /\ UNCHANGED usage

BarrierBegin(t) ==
  /\ Raise(t) \/ Lower(t) \/ Clear(t) \/ Reset(t) \/ IncreaseTarget(t) \/ Wait(t)
  /\ UNCHANGED usage

BarrierNext == \E t \in BarrierThreads : BarrierStep(t) \/ BarrierBegin(t) \/ Spurious(t)

BarrierSpec == BarrierInit /\ [][BarrierNext]_barrierVars

\* A call that was made proceeds.
BarrierFairSpec == BarrierSpec /\ \A t \in BarrierThreads : WF_barrierVars(BarrierStep(t))

-----------------------------------------------------------------------------

Quiet == \A t \in BarrierThreads : barrierPc[t] \in {"idle", "waiting"}

OnlyRaised == usage.ops = {"raise", "wait"} /\ ~usage.stateless

\* "triggering the signal if it reaches the expected level": whoever waits for
\* a level that has been reached passes.
ReachedPasses ==
  \A t \in BarrierThreads :
    OnlyRaised /\ barrierPc[t] = "waiting" /\ level >= uTarget ~> barrierPc[t] = "idle"

\* While threads only raise the barrier, its event is not on before the level has
\* reached the target, so nobody passes early.  And after any calls of one thread,
\* among them lowerings, clears, resets and increases of the target, a level that
\* has reached the target has the event on.
EventMatchesLevel ==
  /\ OnlyRaised /\ event => level >= uTarget
  /\ Cardinality(usage.callers) = 1 /\ Quiet /\ level >= uTarget => event
=============================================================================
