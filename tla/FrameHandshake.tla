--------------------------- MODULE FrameHandshake ---------------------------
(***************************************************************************)
(* Frames, sleep and shutdown of the scheduler (Scheduler04.cpp): the main *)
(* thread tells every worker thread through its m_FramePhase that a frame  *)
(* begins or ends, the worker acknowledges by writing None, and one that   *)
(* has had nothing to do for a second sleeps on a semaphore shared by all. *)
(* EnterFrame clears the arrays that workers walk without a lock, so the   *)
(* acknowledgement of Leave is what keeps them apart.                      *)
(*                                                                         *)
(* One action is one access to a shared variable.  What a worker does in   *)
(* ExecuteUntilNoWork, and WaitForAllJobs, are JobExecution's subject;     *)
(* here a worker is in it or it is not.                                    *)
(***************************************************************************)
EXTENDS Integers, FiniteSets

CONSTANTS
  cWorkers,    \* m_cWorkers; worker 0 is the main thread
  MaxFrames    \* bound: frames the main thread enters

ASSUME FrameHandshakeAssumption ==
  /\ cWorkers \in Nat \ {0}
  /\ MaxFrames \in Nat

VARIABLES
  phase,     \* m_FramePhase of each worker
  bCanWork,  \* the worker's own flag
  cSleeping, \* m_cSleepingWorkers
  tokens,    \* count of m_WakeSemaphore
  terminate, \* m_bTerminate of each worker's thread
  workerPc,        \* where each worker thread is in OnRun
  main,      \* where the main thread is
  ix,        \* the worker its loop has come to
  cSignal,   \* argument of the call to Signal
  frames,    \* frames entered
  forced,    \* workers whose thread Stop gave up waiting for
  overtaken, \* workers that had read Enter and not answered it when Leave was written
  late       \* workers that went to sleep after the count of sleepers was read

workerVars == <<bCanWork, workerPc>>
mainVars == <<main, ix, frames, forced>>
history == <<overtaken, late>>
frameVars == <<phase, cSleeping, tokens, terminate, cSignal, workerVars, mainVars, history>>

\* Those that have a thread.
Workers == 1 .. cWorkers - 1

FrameInit ==
  /\ phase = [w \in Workers |-> "None"]
  /\ bCanWork = [w \in Workers |-> FALSE]
  /\ cSleeping = 0
  /\ tokens = 0
  /\ terminate = [w \in Workers |-> FALSE]
  /\ workerPc = [w \in Workers |-> "top"]
  /\ main = "out"
  /\ ix = 1
  /\ cSignal = 0
  /\ frames = 0
  /\ forced = {}
  /\ overtaken = {}
  /\ late = {}

-----------------------------------------------------------------------------
(* LWorkerThread::OnRun *)

Goto(w, where) == workerPc' = [workerPc EXCEPT ![w] = where]

\* while( !IsQuitting() )
Top(w) ==
  /\ workerPc[w] = "top"
  /\ Goto(w, IF terminate[w] THEN "exited" ELSE "isEnter")
  /\ UNCHANGED <<phase, cSleeping, tokens, terminate, cSignal, bCanWork, mainVars, history>>

\* m_FramePhase is read for Enter, and then again for Leave.
ReadPhase(w) ==
  /\ \/ workerPc[w] = "isEnter" /\ Goto(w, IF phase[w] = "Enter" THEN "ackEnter" ELSE "isLeave")
     \/ workerPc[w] = "isLeave" /\ Goto(w, IF phase[w] = "Leave" THEN "ackLeave" ELSE "time")
  /\ UNCHANGED <<phase, cSleeping, tokens, terminate, cSignal, bCanWork, mainVars, history>>

\* Leave is not answered.
AckEnterOnly(w) ==
  /\ \/ workerPc[w] = "ackEnter" /\ phase' = [phase EXCEPT ![w] = "None"]
     \/ workerPc[w] = "ackLeave" /\ UNCHANGED phase
  /\ bCanWork' = [bCanWork EXCEPT ![w] = workerPc[w] = "ackEnter"]
  /\ Goto(w, "time")
  /\ UNCHANGED <<cSleeping, tokens, terminate, cSignal, mainVars, history>>

\* m_FramePhase = None, and the worker may or may not work from now on.
Ack(w) ==
  /\ workerPc[w] \in {"ackEnter", "ackLeave"}
  /\ phase' = [phase EXCEPT ![w] = "None"]
  /\ bCanWork' = [bCanWork EXCEPT ![w] = workerPc[w] = "ackEnter"]
  /\ Goto(w, "time")
  /\ UNCHANGED <<cSleeping, tokens, terminate, cSignal, mainVars, history>>

\* The time since the last work or frame change is over the threshold, or it
\* is not and the worker works if it may.
Time(w) ==
  /\ workerPc[w] = "time"
  /\ \/ Goto(w, "sleep")
     \/ Goto(w, IF bCanWork[w] THEN "execute" ELSE "top")
  /\ UNCHANGED <<phase, cSleeping, tokens, terminate, cSignal, bCanWork, mainVars, history>>

\* ExecuteUntilNoWork returns.
Execute(w) ==
  /\ workerPc[w] = "execute"
  /\ Goto(w, "top")
  /\ UNCHANGED <<phase, cSleeping, tokens, terminate, cSignal, bCanWork, mainVars, history>>

\* Main-thread locations past its reads of m_cSleepingWorkers.
HasRead == main \in {"wakeSignal", "await", "finiSignal", "join", "over"}

\* LWorker::Sleep: AtomicInc, Wait, AtomicDec.
SleepInc(w) ==
  /\ workerPc[w] = "sleep"
  /\ cSleeping' = cSleeping + 1
  /\ Goto(w, "wait")
  /\ late' = IF HasRead THEN late \cup {w} ELSE late
  /\ UNCHANGED <<phase, tokens, terminate, cSignal, bCanWork, mainVars, overtaken>>

SleepWait(w) ==
  /\ workerPc[w] = "wait"
  /\ tokens > 0
  /\ tokens' = tokens - 1
  /\ Goto(w, "awake")
  /\ UNCHANGED <<phase, cSleeping, terminate, cSignal, bCanWork, mainVars, history>>

\* The count is left as it was.
SleepNoDec(w) ==
  /\ workerPc[w] = "awake"
  /\ Goto(w, "top")
  /\ UNCHANGED <<phase, cSleeping, tokens, terminate, cSignal, bCanWork, mainVars, history>>

SleepDec(w) ==
  /\ workerPc[w] = "awake"
  /\ cSleeping' = cSleeping - 1
  /\ Goto(w, "top")
  /\ UNCHANGED <<phase, tokens, terminate, cSignal, bCanWork, mainVars, history>>

-----------------------------------------------------------------------------
(* MScheduler::EnterFrame, LeaveFrame, WakeWorkers *)

\* One turn of the loop "for i = 1 .. m_cWorkers - 1" at main-thread location
\* here: the worker ix is dealt with, or there is none left.
More == ix < cWorkers

Turn(here, next) ==
  /\ main = here
  /\ ix' = IF More THEN ix + 1 ELSE 1
  /\ main' = IF More THEN here ELSE next

\* What the turn stores for its worker.
Told(flags, value) == IF More THEN [flags EXCEPT ![ix] = value] ELSE flags

\* The arrays are cleared, in one action: a worker in ExecuteUntilNoWork reads
\* them at its peril, ResetAlone says.
EnterFrame ==
  /\ main = "out"
  /\ frames < MaxFrames
  /\ frames' = frames + 1
  /\ main' = "enter"
  /\ UNCHANGED <<phase, cSleeping, tokens, terminate, cSignal, workerVars, ix, forced, history>>

TellEnter ==
  /\ Turn("enter", "in")
  /\ phase' = Told(phase, "Enter")
  /\ overtaken' = IF More THEN overtaken \ {ix} ELSE overtaken
  /\ UNCHANGED <<cSleeping, tokens, cSignal, workerVars, frames, terminate, forced, late>>

LeaveFrame ==
  /\ main = "in"
  /\ main' = "leave"
  /\ late' = {}
  /\ UNCHANGED <<phase, cSleeping, tokens, terminate, cSignal, workerVars, ix, frames, forced, overtaken>>

\* The worker may have read Enter, and be about to answer it.
TellLeave ==
  /\ Turn("leave", "wake")
  /\ phase' = Told(phase, "Leave")
  /\ overtaken' = IF More /\ workerPc[ix] = "ackEnter" THEN overtaken \cup {ix} ELSE overtaken
  /\ UNCHANGED <<cSleeping, tokens, cSignal, workerVars, frames, terminate, forced, late>>

\* The same code in WakeWorkers and in Fini: m_cSleepingWorkers is read to see
\* whether it is zero, and again for the argument of Signal.
Wakes ==
  {[test |-> "wake", count |-> "wakeCount", signal |-> "wakeSignal", next |-> "await"],
   [test |-> "finiWake", count |-> "finiCount", signal |-> "finiSignal", next |-> "join"]}

WakeTest ==
  /\ \E k \in Wakes : /\ main = k.test
                      /\ main' = IF cSleeping = 0 THEN k.next ELSE k.count
  /\ UNCHANGED <<phase, cSleeping, tokens, terminate, cSignal, workerVars, ix, frames, forced, history>>

WakeCount ==
  /\ \E k \in Wakes : main = k.count /\ main' = k.signal
  /\ cSignal' = cSleeping
  /\ UNCHANGED <<phase, cSleeping, tokens, terminate, workerVars, ix, frames, forced, history>>

\* One thread is woken.
SignalOne ==
  /\ \E k \in Wakes : main = k.signal /\ main' = k.next
  /\ tokens' = tokens + 1
  /\ UNCHANGED <<phase, cSleeping, terminate, cSignal, workerVars, ix, frames, forced, history>>

Signal ==
  /\ \E k \in Wakes : main = k.signal /\ main' = k.next
  /\ tokens' = tokens + cSignal
  /\ UNCHANGED <<phase, cSleeping, terminate, cSignal, workerVars, ix, frames, forced, history>>

\* The acknowledgement is not waited for.
AwaitNothing ==
  /\ Turn("await", "out")
  /\ UNCHANGED <<cSleeping, tokens, cSignal, workerVars, frames, phase, terminate, forced, history>>

\* while( m_FramePhase != None ) LocalSpin(), worker after worker.
Await ==
  /\ Turn("await", "out")
  /\ More => phase[ix] = "None"
  /\ UNCHANGED <<cSleeping, tokens, cSignal, workerVars, frames, phase, terminate, forced, history>>

-----------------------------------------------------------------------------
(* MScheduler::Fini *)

Fini ==
  /\ main = "out"
  /\ main' = "fini"
  /\ late' = {}
  /\ UNCHANGED <<phase, cSleeping, tokens, terminate, cSignal, workerVars, ix, frames, forced, overtaken>>

\* The threads are not told.
SignalNobody ==
  /\ Turn("fini", "finiWake")
  /\ UNCHANGED <<cSleeping, tokens, cSignal, workerVars, frames, phase, terminate, forced, history>>

SignalStop ==
  /\ Turn("fini", "finiWake")
  /\ terminate' = Told(terminate, TRUE)
  /\ UNCHANGED <<cSleeping, tokens, cSignal, workerVars, frames, phase, forced, history>>

\* CThread::Stop: a thread that runs gets to its end within the half second
\* it is given; one that sleeps with nobody left to wake it does not.
Asleep(w) == workerPc[w] = "wait" /\ tokens = 0

Stop ==
  /\ Turn("join", "over")
  /\ More => workerPc[ix] = "exited" \/ Asleep(ix)
  /\ forced' = IF More /\ Asleep(ix) THEN forced \cup {ix} ELSE forced
  /\ UNCHANGED <<cSleeping, tokens, cSignal, workerVars, frames, phase, terminate, history>>

-----------------------------------------------------------------------------

WorkerStep(w) ==
  \/ Top(w) \/ ReadPhase(w) \/ Ack(w) \/ Time(w) \/ Execute(w)
  \/ SleepInc(w) \/ SleepWait(w) \/ SleepDec(w)

\* The main thread inside one of the scheduler's calls.
MainStep ==
  \/ TellEnter \/ TellLeave \/ WakeTest \/ WakeCount \/ Signal \/ Await
  \/ SignalStop \/ Stop

FrameNext == EnterFrame \/ LeaveFrame \/ Fini \/ MainStep \/ \E w \in Workers : WorkerStep(w)

FrameSpec == FrameInit /\ [][FrameNext]_frameVars

\* Threads run; the semaphore hands a token to a waiting thread when it can.
FrameFairSpec == FrameSpec /\ WF_frameVars(MainStep) /\ \A w \in Workers : WF_frameVars(WorkerStep(w))

-----------------------------------------------------------------------------

FrameTypeOK ==
  /\ phase \in [Workers -> {"None", "Enter", "Leave"}]
  /\ bCanWork \in [Workers -> BOOLEAN]
  /\ cSleeping \in 0 .. cWorkers - 1
  /\ tokens \in Nat
  /\ terminate \in [Workers -> BOOLEAN]
  /\ ix \in 1 .. cWorkers
  /\ cSignal \in 0 .. cWorkers - 1
  /\ forced \subseteq Workers
  /\ overtaken \subseteq Workers
  /\ late \subseteq Workers

\* EnterFrame clears pChains, cChains and m_uCurrentChain when no worker walks them:
\* LeaveFrame has seen every worker out of ExecuteUntilNoWork for good, but for those
\* whose answer to Enter it took for an answer to Leave.
ResetAlone ==
  [][EnterFrame => \A w \in Workers \ overtaken : workerPc[w] # "execute" /\ ~bCanWork[w]]_frameVars

\* A worker in phase None is "not inside of a frame" (Scheduler04.hpp:43): none works
\* when LeaveFrame has returned.
OutOfFrame == main = "out" => \A w \in Workers : workerPc[w] # "execute"

\* The same of all but those whose answer to Enter was overtaken.
OutUnlessOvertaken == main = "out" => \A w \in Workers \ overtaken : workerPc[w] # "execute"

\* Fini wakes all that sleep "to have them exit gracefully": it gives up on no more
\* threads than have gone to sleep after it read their number.
ExitGracefully == main = "over" => Cardinality(forced) <= Cardinality(late)

\* LeaveFrame returns.
LeaveReturns == main = "leave" ~> main = "out"

\* LeaveFrame returns, or a worker has gone to sleep after it read the number of sleepers.
LeaveReturnsUnlessLate == main = "leave" ~> main = "out" \/ late # {}

\* Fini returns: every worker sees that it is to stop, or is given up.
FiniEnds == main = "fini" ~> main = "over"
=============================================================================
