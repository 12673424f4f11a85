------------------------ MODULE FrameHandshakeProofs ------------------------
(***************************************************************************)
(* The handshake of frames keeps the main thread's reset of the chains and *)
(* the walk over them of every worker apart that was not overtaken by      *)
(* Leave, and shutdown gives up on no more threads than went to sleep too  *)
(* late to be counted: for any number of workers and of frames.            *)
(***************************************************************************)
EXTENDS FrameHandshake, Populations

Places ==
  {"top", "isEnter", "isLeave", "ackEnter", "ackLeave", "time", "execute",
   "sleep", "wait", "awake", "exited"}

\* The scheduler's calls, in the order in which the main thread comes to
\* their locations; fini and what follows it is never left again.
Awaking == {"wake", "wakeCount", "wakeSignal"}
Ending == {"fini", "finiWake", "finiCount", "finiSignal", "join", "over"}
Loops == {"enter", "leave", "await", "fini", "join"}

\* m_cSleepingWorkers counts the threads between its increment and its
\* decrement, and the main thread's loops begin with worker 1.
CountInv ==
  /\ FrameTypeOK
  /\ workerPc \in [Workers -> Places]
  /\ main \in {"out", "in"} \cup Awaking \cup Ending \cup Loops
  /\ cSleeping = Cardinality(Where(workerPc, {"wait", "awake"}))
  /\ main \notin Loops => ix = 1

\* Where the main thread has a worker: out of the frame, told to enter it, or
\* told to leave it.
IsOut(w) ==
  \/ main = "out" \/ main \in Ending
  \/ main = "enter" /\ ix <= w
  \/ main = "await" /\ w < ix

IsIn(w) ==
  \/ main = "in"
  \/ main = "enter" /\ w < ix
  \/ main = "leave" /\ ix <= w

IsLeaving(w) ==
  \/ main \in Awaking
  \/ main = "leave" /\ w < ix
  \/ main = "await" /\ ix <= w

\* A worker that will not look at the chains until it reads Enter.
Still(w) == ~bCanWork[w] /\ workerPc[w] \notin {"execute", "ackEnter", "ackLeave"}

\* Once Fini has read how many sleep, those that still go to sleep are late;
\* they have been told to stop, and sleep no second time.
Waiters == Cardinality(Where(workerPc, {"wait"}))
Joining == {"join", "over"}

ToldInv ==
  /\ main = "fini" => \A w \in Workers : w < ix => terminate[w]
  /\ main \in Ending \ {"fini"} => \A w \in Workers : terminate[w]

LateInv ==
  /\ main \in Ending /\ ~HasRead => late = {}
  /\ main \in Ending => \A w \in late : workerPc[w] \in {"wait", "awake", "top", "exited"}

\* Those that wait are counted or late, and none is given up while there is a token.
SentInv ==
  /\ main = "finiSignal" => Waiters <= cSignal + Cardinality(late)
  /\ main \in Joining => Waiters <= tokens + Cardinality(late)

ForcedInv ==
  /\ \A w \in forced : workerPc[w] = "wait"
  /\ forced # {} => tokens = 0 /\ main \in Joining

WakeInv == ToldInv /\ LateInv /\ SentInv /\ ForcedInv

LEMMA WorkersFinite ==
  /\ cWorkers \in Nat \ {0}
  /\ IsFiniteSet(Workers)
  /\ Cardinality(Workers) = cWorkers - 1
<1>1. cWorkers \in Nat \ {0}
  BY FrameHandshakeAssumption
<1>2. cWorkers - 1 \in Nat /\ 1 \in Int
  BY <1>1
<1> QED
  BY <1>1, <1>2, FS_Interval DEF Workers

LEMMA CountInit == FrameInit => CountInv
<1> SUFFICES ASSUME FrameInit PROVE CountInv
  OBVIOUS
<1>1. FrameTypeOK
  BY WorkersFinite DEF FrameInit, FrameTypeOK
<1>2. Where(workerPc, {"wait", "awake"}) = {}
  BY DEF FrameInit, Where
<1>3. cSleeping = Cardinality(Where(workerPc, {"wait", "awake"}))
  BY <1>2, FS_EmptySet DEF FrameInit
<1> QED
  BY <1>1, <1>3 DEF FrameInit, CountInv, Places, Loops

\* A step of a worker moves it to another place, counts it when it goes to
\* sleep and no longer once it is awake.
LEMMA CountWorker ==
  ASSUME CountInv, NEW w \in Workers, WorkerStep(w)
  PROVE  CountInv'
<1> DEFINE Sleepers == {"wait", "awake"}
<1>0. DOMAIN workerPc = Workers /\ IsFiniteSet(DOMAIN workerPc) /\ w \in DOMAIN workerPc
  BY WorkersFinite DEF CountInv
<1>1. Cardinality(Where(workerPc, Sleepers)) \in Nat
  BY <1>0, PopulationFinite
<1>2. cSleeping = Cardinality(Where(workerPc, Sleepers))
  BY DEF CountInv
<1>3. PICK n \in Places : workerPc' = [workerPc EXCEPT ![w] = n]
  BY DEF WorkerStep, Top, ReadPhase, Ack, Time, Execute, SleepInc, SleepWait, SleepDec,
         Goto, Places
<1>4. workerPc' \in [Workers -> Places]
  BY <1>3 DEF CountInv
<1>5. UNCHANGED <<terminate, cSignal, mainVars, overtaken>> /\ late' \subseteq late \cup {w}
  BY DEF WorkerStep, Top, ReadPhase, Ack, Time, Execute, SleepInc, SleepWait, SleepDec, history
<1>6. cSleeping' = Cardinality(Where(workerPc', Sleepers))
  <2>1. CASE SleepInc(w)
    <3>1. workerPc[w] \notin Sleepers /\ workerPc' = [workerPc EXCEPT ![w] = "wait"] /\ cSleeping' = cSleeping + 1
      BY <2>1 DEF SleepInc, Goto
    <3> QED
      BY <3>1, <1>0, <1>2, PopulationEnter
  <2>2. CASE SleepDec(w)
    <3>1. workerPc[w] \in Sleepers /\ workerPc' = [workerPc EXCEPT ![w] = "top"] /\ cSleeping' = cSleeping - 1
      BY <2>2 DEF SleepDec, Goto
    <3>2. "top" \notin Sleepers
      OBVIOUS
    <3> HIDE DEF Sleepers
    <3>3. Cardinality(Where([workerPc EXCEPT ![w] = "top"], Sleepers))
            = Cardinality(Where(workerPc, Sleepers)) - 1
      BY <3>1, <3>2, <1>0, PopulationLeave
    <3> QED
      BY <3>1, <3>3, <1>2
  <2>3. CASE Top(w) \/ ReadPhase(w) \/ Ack(w) \/ Time(w) \/ Execute(w) \/ SleepWait(w)
    <3>1. workerPc[w] \in Sleepers <=> workerPc'[w] \in Sleepers
      BY <2>3, <1>0 DEF Top, ReadPhase, Ack, Time, Execute, SleepWait, Goto
    <3>2. Where(workerPc', Sleepers) = Where(workerPc, Sleepers)
      BY <1>0, <1>3, <3>1, PopulationStay
    <3>3. cSleeping' = cSleeping
      BY <2>3 DEF Top, ReadPhase, Ack, Time, Execute, SleepWait
    <3> QED
      BY <3>2, <3>3, <1>2
  <2> QED
    BY <2>1, <2>2, <2>3 DEF WorkerStep
<1>7. cSleeping' \in 0 .. cWorkers - 1
  <2>1. DOMAIN workerPc' = Workers /\ IsFiniteSet(DOMAIN workerPc')
    BY <1>4, WorkersFinite
  <2>2. Cardinality(Where(workerPc', Sleepers)) \in Nat
        /\ Cardinality(Where(workerPc', Sleepers)) <= cWorkers - 1
    BY <2>1, WorkersFinite, PopulationFinite, PopulationBound
  <2> QED
    BY <2>2, <1>6, WorkersFinite
<1>8. phase' \in [Workers -> {"None", "Enter", "Leave"}]
  BY DEF WorkerStep, Top, ReadPhase, Ack, Time, Execute, SleepInc, SleepWait, SleepDec,
         CountInv, FrameTypeOK
<1>9. bCanWork' \in [Workers -> BOOLEAN]
  <2>1. bCanWork \in [Workers -> BOOLEAN]
    BY DEF CountInv, FrameTypeOK
  <2>2. bCanWork' = bCanWork \/ bCanWork' = [bCanWork EXCEPT ![w] = workerPc[w] = "ackEnter"]
    BY DEF WorkerStep, Top, ReadPhase, Ack, Time, Execute, SleepInc, SleepWait, SleepDec
  <2>3. (workerPc[w] = "ackEnter") \in BOOLEAN
    OBVIOUS
  <2> QED
    BY <2>1, <2>2, <2>3
<1>10. tokens' \in Nat
  BY DEF WorkerStep, Top, ReadPhase, Ack, Time, Execute, SleepInc, SleepWait, SleepDec,
         CountInv, FrameTypeOK
<1>11. FrameTypeOK'
  BY <1>5, <1>7, <1>8, <1>9, <1>10 DEF CountInv, FrameTypeOK, mainVars
<1> QED
  BY <1>4, <1>5, <1>6, <1>11 DEF CountInv, mainVars

\* One turn of a loop of the main thread.
LEMMA TurnOfLoop ==
  ASSUME CountInv, NEW here \in Loops, NEW next, Turn(here, next)
  PROVE  /\ main = here /\ main' \in {here, next}
         /\ ix' \in 1 .. cWorkers
         /\ main' = next /\ next # here => ix' = 1
         /\ More => ix \in Workers
<1>1. ix \in 1 .. cWorkers /\ cWorkers \in Nat \ {0}
  BY WorkersFinite DEF CountInv, FrameTypeOK
<1> QED
  BY <1>1 DEF Turn, More, Workers

\* A step of the main thread, and one that changes nothing.
LEMMA CountMain ==
  ASSUME CountInv,
         EnterFrame \/ LeaveFrame \/ Fini \/ MainStep \/ UNCHANGED frameVars
  PROVE  CountInv'
<1>1. CASE UNCHANGED frameVars
  BY <1>1 DEF CountInv, FrameTypeOK, frameVars, workerVars, mainVars, history
<1>2. CASE EnterFrame \/ LeaveFrame \/ Fini
  BY <1>2 DEF EnterFrame, LeaveFrame, Fini, CountInv, FrameTypeOK, workerVars, mainVars,
              history, Loops, Ending
<1>3. CASE WakeTest
  BY <1>3 DEF WakeTest, Wakes, CountInv, FrameTypeOK, workerVars, history, Loops, Awaking, Ending
<1>4. CASE WakeCount
  BY <1>4 DEF WakeCount, Wakes, CountInv, FrameTypeOK, workerVars, history, Loops, Awaking, Ending
<1>5. CASE Signal
  <2>1. tokens' \in Nat
    BY <1>5, WorkersFinite DEF Signal, CountInv, FrameTypeOK
  <2> QED
    BY <1>5, <2>1 DEF Signal, Wakes, CountInv, FrameTypeOK, workerVars, history, Loops, Awaking, Ending
<1>6. ASSUME NEW here \in Loops, NEW next \in {"in", "wake", "out", "finiWake", "over"},
             Turn(here, next), UNCHANGED <<cSleeping, tokens, cSignal, workerVars, frames>>,
             phase' \in [Workers -> {"None", "Enter", "Leave"}],
             terminate' \in [Workers -> BOOLEAN], forced' \subseteq Workers,
             overtaken' \subseteq Workers, late' \subseteq Workers
      PROVE  CountInv'
  <2>1. ix' \in 1 .. cWorkers /\ main' \in {here, next}
    BY <1>6, TurnOfLoop
  <2>2. main' \notin Loops => ix' = 1
    BY <1>6, TurnOfLoop DEF Loops
  <2>3. main' \in {"out", "in"} \cup Awaking \cup Ending \cup Loops
    BY <2>1 DEF Awaking, Ending
  <2>4. FrameTypeOK'
    BY <1>6, <2>1 DEF CountInv, FrameTypeOK, workerVars
  <2> QED
    BY <1>6, <2>2, <2>3, <2>4 DEF CountInv, workerVars
<1>7. CASE TellEnter \/ TellLeave \/ Await \/ SignalStop \/ Stop
  <2>1. PICK here \in Loops, next \in {"in", "wake", "out", "finiWake", "over"} :
          Turn(here, next)
    BY <1>7 DEF TellEnter, TellLeave, Await, SignalStop, Stop, Loops
  <2>2. UNCHANGED <<cSleeping, tokens, cSignal, workerVars, frames>>
    BY <1>7 DEF TellEnter, TellLeave, Await, SignalStop, Stop
  <2>3. phase' \in [Workers -> {"None", "Enter", "Leave"}]
    BY <1>7 DEF TellEnter, TellLeave, Await, SignalStop, Stop, Told, CountInv, FrameTypeOK
  <2>4. terminate' \in [Workers -> BOOLEAN]
    BY <1>7 DEF TellEnter, TellLeave, Await, SignalStop, Stop, Told, CountInv, FrameTypeOK
  <2>5. More => ix \in Workers
    BY <2>1, TurnOfLoop
  <2>6. forced' \subseteq Workers
    BY <1>7, <2>5 DEF TellEnter, TellLeave, Await, SignalStop, Stop, CountInv, FrameTypeOK
  <2>7. overtaken' \subseteq Workers
    BY <1>7, <2>5 DEF TellEnter, TellLeave, Await, SignalStop, Stop, history, CountInv, FrameTypeOK
  <2>8. late' \subseteq Workers
    BY <1>7 DEF TellEnter, TellLeave, Await, SignalStop, Stop, history, CountInv, FrameTypeOK
  <2> QED
    BY <1>6, <2>1, <2>2, <2>3, <2>4, <2>6, <2>7, <2>8
<1> QED
  BY <1>1, <1>2, <1>3, <1>4, <1>5, <1>7 DEF MainStep

LEMMA CountStep == CountInv /\ [FrameNext]_frameVars => CountInv'
BY CountWorker, CountMain DEF FrameNext

LEMMA CountHolds == FrameSpec => []CountInv
BY CountInit, CountStep, PTL DEF FrameSpec

\* m_cSleepingWorkers counts no more than the threads there are, and what
\* WakeWorkers hands to Signal is such a count.
THEOREM CountsSleepers == FrameSpec => []FrameTypeOK
<1>1. CountInv => FrameTypeOK
  BY DEF CountInv
<1> QED
  BY <1>1, CountHolds, PTL

-----------------------------------------------------------------------------
(* ResetAlone *)

\* PhaseInv says something of each worker that depends on that worker's own
\* variables and on where the main thread has it.
Agrees(w) ==
  /\ IsOut(w) => /\ phase[w] = "None"
                 /\ workerPc[w] \notin {"ackEnter", "ackLeave"}
                 /\ w \notin overtaken => Still(w)
  /\ IsIn(w) => /\ phase[w] \in {"None", "Enter"}
                /\ w \notin overtaken
                /\ workerPc[w] # "ackLeave"
                /\ workerPc[w] = "ackEnter" => phase[w] = "Enter"
  /\ IsLeaving(w) => /\ phase[w] \in {"None", "Leave"}
                     /\ workerPc[w] \in {"ackEnter", "ackLeave"} => phase[w] = "Leave"
                     /\ phase[w] = "Leave" => (workerPc[w] = "ackEnter" <=> w \in overtaken)
                     /\ phase[w] = "None" /\ w \notin overtaken => Still(w)

PhaseInv == \A w \in Workers : Agrees(w)

LEMMA PhaseInit == FrameInit => PhaseInv
BY DEF FrameInit, PhaseInv, Agrees, IsOut, IsIn, IsLeaving, Still, Ending, Awaking

\* A worker reads its m_FramePhase and answers what it has read.
LEMMA PhaseWorker ==
  ASSUME CountInv, PhaseInv, NEW w \in Workers, WorkerStep(w)
  PROVE  PhaseInv'
<1>1. main' = main /\ ix' = ix /\ overtaken' = overtaken
  BY DEF WorkerStep, Top, ReadPhase, Ack, Time, Execute, SleepInc, SleepWait, SleepDec,
         mainVars, history
<1>2. \A u \in Workers : (IsOut(u)' <=> IsOut(u)) /\ (IsIn(u)' <=> IsIn(u))
                         /\ (IsLeaving(u)' <=> IsLeaving(u))
  BY <1>1 DEF IsOut, IsIn, IsLeaving
<1>3. phase \in [Workers -> {"None", "Enter", "Leave"}] /\ workerPc \in [Workers -> Places]
      /\ bCanWork \in [Workers -> BOOLEAN]
  BY DEF CountInv, FrameTypeOK
<1>4. PICK n \in Places : workerPc' = [workerPc EXCEPT ![w] = n]
  BY DEF WorkerStep, Top, ReadPhase, Ack, Time, Execute, SleepInc, SleepWait, SleepDec,
         Goto, Places
<1>5. \A u \in Workers : u # w => workerPc'[u] = workerPc[u] /\ phase'[u] = phase[u]
                                  /\ bCanWork'[u] = bCanWork[u]
  <2>1. phase' = phase \/ phase' = [phase EXCEPT ![w] = "None"]
    BY DEF WorkerStep, Top, ReadPhase, Ack, Time, Execute, SleepInc, SleepWait, SleepDec
  <2>2. bCanWork' = bCanWork \/ bCanWork' = [bCanWork EXCEPT ![w] = workerPc[w] = "ackEnter"]
    BY DEF WorkerStep, Top, ReadPhase, Ack, Time, Execute, SleepInc, SleepWait, SleepDec
  <2> QED
    BY <1>3, <1>4, <2>1, <2>2
<1>6. Agrees(w)
  BY DEF PhaseInv
<1>7. Agrees(w)'
  <2>1. CASE Ack(w)
    <3>1. phase'[w] = "None" /\ bCanWork'[w] = (workerPc[w] = "ackEnter") /\ workerPc'[w] = "time"
      BY <1>3, <2>1 DEF Ack, Goto
    <3>2. workerPc[w] \in {"ackEnter", "ackLeave"}
      BY <2>1 DEF Ack
    <3> QED
      BY <1>1, <1>2, <1>6, <3>1, <3>2 DEF Agrees, Still
  <2>2. CASE ReadPhase(w)
    <3>1. phase' = phase /\ bCanWork' = bCanWork
      BY <2>2 DEF ReadPhase
    <3>2. /\ workerPc[w] \notin {"ackEnter", "ackLeave"}
          /\ \/ workerPc'[w] \in {"isLeave", "time"}
             \/ workerPc'[w] = "ackEnter" /\ phase[w] = "Enter"
             \/ workerPc'[w] = "ackLeave" /\ phase[w] = "Leave"
      BY <1>3, <2>2 DEF ReadPhase, Goto
    <3> QED
      BY <1>1, <1>2, <1>6, <3>1, <3>2 DEF Agrees, Still
  <2>3. CASE Top(w) \/ Time(w) \/ Execute(w) \/ SleepInc(w) \/ SleepWait(w) \/ SleepDec(w)
    <3>1. phase' = phase /\ bCanWork' = bCanWork
      BY <2>3 DEF Top, Time, Execute, SleepInc, SleepWait, SleepDec
    <3>2. workerPc[w] \notin {"ackEnter", "ackLeave"} /\ workerPc'[w] \notin {"ackEnter", "ackLeave"}
          /\ (workerPc'[w] = "execute" => bCanWork[w])
      BY <1>3, <2>3 DEF Top, Time, Execute, SleepInc, SleepWait, SleepDec, Goto
    <3> QED
      BY <1>1, <1>2, <1>6, <3>1, <3>2 DEF Agrees, Still
  <2> QED
    BY <2>1, <2>2, <2>3 DEF WorkerStep
<1> QED
  BY <1>1, <1>2, <1>5, <1>7 DEF PhaseInv, Agrees, Still

\* The main thread takes a worker from one part of the handshake to the next
\* only when it has told it so, or has seen its answer.
LEMMA PhaseMain ==
  ASSUME CountInv, PhaseInv,
         EnterFrame \/ LeaveFrame \/ Fini \/ MainStep \/ UNCHANGED frameVars
  PROVE  PhaseInv'
<1>1. phase \in [Workers -> {"None", "Enter", "Leave"}] /\ ix \in 1 .. cWorkers
      /\ cWorkers \in Nat \ {0} /\ (main \notin Loops => ix = 1)
  BY WorkersFinite DEF CountInv, FrameTypeOK
<1>2. \A w \in Workers : w \in Int /\ 1 <= w /\ w < cWorkers
  BY <1>1 DEF Workers
<1>3. SUFFICES ASSUME NEW w \in Workers PROVE Agrees(w)'
  BY DEF PhaseInv
<1>4. Agrees(w)
  BY DEF PhaseInv
<1>5. workerPc' = workerPc /\ bCanWork' = bCanWork
  BY DEF EnterFrame, LeaveFrame, Fini, MainStep, TellEnter, TellLeave, WakeTest,
         WakeCount, Signal, Await, SignalStop, Stop, frameVars, workerVars
<1>6. Still(w)' <=> Still(w)
  BY <1>5 DEF Still
<1>7. CASE UNCHANGED frameVars
  BY <1>4, <1>7 DEF frameVars, workerVars, mainVars, history, Agrees, IsOut, IsIn, IsLeaving, Still
<1>8. CASE EnterFrame \/ LeaveFrame \/ Fini
  <2>1. phase' = phase /\ overtaken' = overtaken /\ ix' = ix /\ ix = 1
    BY <1>1, <1>8 DEF EnterFrame, LeaveFrame, Fini, Loops, history
  <2>2. (IsOut(w)' <=> IsOut(w)) /\ (IsIn(w)' <=> IsIn(w)) /\ ~IsLeaving(w)'
    BY <1>2, <1>8, <2>1 DEF EnterFrame, LeaveFrame, Fini, IsOut, IsIn, IsLeaving,
                           Ending, Awaking
  <2> QED
    BY <1>4, <1>5, <1>6, <2>1, <2>2 DEF Agrees
<1>9. CASE WakeTest \/ WakeCount \/ Signal
  <2>1. phase' = phase /\ overtaken' = overtaken /\ ix' = ix /\ ix = 1
    BY <1>1, <1>9 DEF WakeTest, WakeCount, Signal, Wakes, Loops, history
  <2>2. \/ main \in Awaking /\ main' \in Awaking \cup {"await"}
        \/ main \in Ending /\ main' \in Ending
    BY <1>9 DEF WakeTest, WakeCount, Signal, Wakes, Ending, Awaking
  <2>3. (IsOut(w)' <=> IsOut(w)) /\ ~IsIn(w)' /\ (IsLeaving(w)' <=> IsLeaving(w))
    BY <1>2, <2>1, <2>2 DEF IsOut, IsIn, IsLeaving, Ending, Awaking
  <2> QED
    BY <1>4, <1>5, <1>6, <2>1, <2>3 DEF Agrees
<1>10. CASE SignalStop \/ Stop
  <2>1. phase' = phase /\ overtaken' = overtaken /\ main \in Ending /\ main' \in Ending
    BY <1>10 DEF SignalStop, Stop, Turn, Ending, history
  <2>2. IsOut(w) /\ IsOut(w)' /\ ~IsIn(w)' /\ ~IsLeaving(w)'
    BY <2>1 DEF IsOut, IsIn, IsLeaving, Ending, Awaking
  <2> QED
    BY <1>4, <1>5, <1>6, <2>1, <2>2 DEF Agrees
<1>11. CASE TellEnter
  <2>1. main = "enter" /\ ix' = (IF More THEN ix + 1 ELSE 1)
        /\ main' = (IF More THEN "enter" ELSE "in")
    BY <1>11 DEF TellEnter, Turn
  <2>2. CASE More /\ w = ix
    <3>1. IsOut(w) /\ IsIn(w)' /\ ~IsOut(w)' /\ ~IsLeaving(w)'
      BY <1>1, <1>2, <2>1, <2>2 DEF IsOut, IsIn, IsLeaving, Ending, Awaking
    <3>2. phase'[w] = "Enter" /\ w \notin overtaken'
      BY <1>1, <1>11, <2>2 DEF TellEnter, Told
    <3> QED
      BY <1>4, <1>5, <3>1, <3>2 DEF Agrees, Still
  <2>3. CASE ~(More /\ w = ix)
    <3>1. (IsOut(w)' <=> IsOut(w)) /\ (IsIn(w)' <=> IsIn(w)) /\ ~IsLeaving(w)'
      BY <1>1, <1>2, <2>1, <2>3 DEF IsOut, IsIn, IsLeaving, Ending, Awaking, More
    <3>2. phase'[w] = phase[w] /\ (w \in overtaken' <=> w \in overtaken)
      BY <1>1, <1>11, <2>3 DEF TellEnter, Told
    <3> QED
      BY <1>4, <1>5, <1>6, <3>1, <3>2 DEF Agrees
  <2> QED
    BY <2>2, <2>3
<1>12. CASE TellLeave
  <2>1. main = "leave" /\ ix' = (IF More THEN ix + 1 ELSE 1)
        /\ main' = (IF More THEN "leave" ELSE "wake")
    BY <1>12 DEF TellLeave, Turn
  <2>2. CASE More /\ w = ix
    <3>1. IsIn(w) /\ IsLeaving(w)' /\ ~IsOut(w)' /\ ~IsIn(w)'
      BY <1>1, <1>2, <2>1, <2>2 DEF IsOut, IsIn, IsLeaving, Ending, Awaking
    <3>2. phase'[w] = "Leave"
          /\ (w \in overtaken' <=> w \in overtaken \/ workerPc[w] = "ackEnter")
      BY <1>1, <1>12, <2>2 DEF TellLeave, Told
    <3> QED
      BY <1>4, <1>5, <3>1, <3>2 DEF Agrees
  <2>3. CASE ~(More /\ w = ix)
    <3>1. ~IsOut(w)' /\ (IsIn(w)' <=> IsIn(w)) /\ (IsLeaving(w)' <=> IsLeaving(w))
      BY <1>1, <1>2, <2>1, <2>3 DEF IsOut, IsIn, IsLeaving, Ending, Awaking, More
    <3>2. phase'[w] = phase[w] /\ (w \in overtaken' <=> w \in overtaken)
      BY <1>1, <1>12, <2>3 DEF TellLeave, Told
    <3> QED
      BY <1>4, <1>5, <1>6, <3>1, <3>2 DEF Agrees
  <2> QED
    BY <2>2, <2>3
<1>13. CASE Await
  <2>1. main = "await" /\ ix' = (IF More THEN ix + 1 ELSE 1) /\ phase' = phase
        /\ main' = (IF More THEN "await" ELSE "out") /\ overtaken' = overtaken
    BY <1>13 DEF Await, Turn, history
  <2>2. CASE More /\ w = ix
    <3>1. IsLeaving(w) /\ IsOut(w)' /\ ~IsLeaving(w)' /\ ~IsIn(w)'
      BY <1>1, <1>2, <2>1, <2>2 DEF IsOut, IsIn, IsLeaving, Ending, Awaking
    <3>2. phase[w] = "None"
      BY <1>13, <2>2 DEF Await
    <3> QED
      BY <1>4, <1>5, <1>6, <2>1, <3>1, <3>2 DEF Agrees
  <2>3. CASE ~(More /\ w = ix)
    <3>1. (IsOut(w)' <=> IsOut(w)) /\ ~IsIn(w)' /\ (IsLeaving(w)' <=> IsLeaving(w))
      BY <1>1, <1>2, <2>1, <2>3 DEF IsOut, IsIn, IsLeaving, Ending, Awaking, More
    <3> QED
      BY <1>4, <1>5, <1>6, <2>1, <3>1 DEF Agrees
  <2> QED
    BY <2>2, <2>3
<1> QED
  BY <1>7, <1>8, <1>9, <1>10, <1>11, <1>12, <1>13 DEF MainStep

LEMMA PhaseStep == CountInv /\ PhaseInv /\ [FrameNext]_frameVars => PhaseInv'
BY PhaseWorker, PhaseMain DEF FrameNext

LEMMA PhaseHolds == FrameSpec => []PhaseInv
BY PhaseStep, PhaseInit, CountHolds, PTL DEF FrameSpec

\* EnterFrame clears the chains while every worker is out of
\* ExecuteUntilNoWork and may not go there, for any number of workers and of
\* frames, but for those whose answer to the Enter before it came after Leave.
THEOREM ResetsAlone == FrameSpec => ResetAlone
<1>1. PhaseInv /\ [FrameNext]_frameVars
        => [EnterFrame => \A w \in Workers \ overtaken : workerPc[w] # "execute" /\ ~bCanWork[w]]_frameVars
  BY DEF EnterFrame, PhaseInv, Agrees, IsOut, Still
<1> QED
  BY <1>1, PhaseHolds, PTL DEF FrameSpec, ResetAlone

\* No other worker is left in ExecuteUntilNoWork when LeaveFrame has returned.
THEOREM OutAfterLeave == FrameSpec => []OutUnlessOvertaken
<1>1. PhaseInv => OutUnlessOvertaken
  BY DEF PhaseInv, Agrees, IsOut, Still, OutUnlessOvertaken
<1> QED
  BY <1>1, PhaseHolds, PTL

-----------------------------------------------------------------------------
(* ExitGracefully *)

LEMMA WakeInit == FrameInit => WakeInv
BY DEF FrameInit, WakeInv, ToldInv, LateInv, SentInv, ForcedInv, Ending, Joining

\* A worker that goes to sleep is counted, or late if it is not; one that takes
\* a token was waiting for it.
LEMMA WakeWorker ==
  ASSUME CountInv, WakeInv, NEW w \in Workers, WorkerStep(w)
  PROVE  WakeInv'
<1>0. DOMAIN workerPc = Workers /\ IsFiniteSet(DOMAIN workerPc) /\ w \in DOMAIN workerPc
  BY WorkersFinite DEF CountInv
<1>1. UNCHANGED <<terminate, forced, main, ix, cSignal>> /\ (HasRead' <=> HasRead)
  BY DEF WorkerStep, Top, ReadPhase, Ack, Time, Execute, SleepInc, SleepWait, SleepDec,
         mainVars, HasRead
<1>2. tokens \in Nat /\ cSignal \in Nat /\ Waiters \in Nat
      /\ IsFiniteSet(late) /\ Cardinality(late) \in Nat
  <2>1. IsFiniteSet(late)
    BY WorkersFinite, FS_Subset DEF CountInv, FrameTypeOK
  <2> QED
    BY <1>0, <2>1, PopulationFinite, FS_CardinalityType, WorkersFinite
    DEF CountInv, FrameTypeOK, Waiters
<1>3. PICK n \in Places : workerPc' = [workerPc EXCEPT ![w] = n]
  BY DEF WorkerStep, Top, ReadPhase, Ack, Time, Execute, SleepInc, SleepWait, SleepDec,
         Goto, Places
<1>4. late \subseteq Workers
  BY DEF CountInv, FrameTypeOK
<1>5. ToldInv'
  BY <1>1 DEF WakeInv, ToldInv
<1>6. CASE SleepInc(w)
  <2>1. workerPc[w] = "sleep" /\ workerPc' = [workerPc EXCEPT ![w] = "wait"] /\ tokens' = tokens
        /\ late' = (IF HasRead THEN late \cup {w} ELSE late)
    BY <1>6 DEF SleepInc, Goto
  <2>2. Waiters' = Waiters + 1
    <3>1. ASSUME NEW S, workerPc[w] \notin S, "wait" \in S
          PROVE  Cardinality(Where([workerPc EXCEPT ![w] = "wait"], S))
                   = Cardinality(Where(workerPc, S)) + 1
      BY <1>0, <3>1, PopulationEnter
    <3> QED
      BY <2>1, <3>1 DEF Waiters
  <2>3. LateInv'
    BY <1>0, <1>1, <1>4, <2>1 DEF WakeInv, LateInv
  <2>4. ASSUME main \in {"finiSignal"} \cup Joining
        PROVE  Cardinality(late') = Cardinality(late) + 1
    <3>1. HasRead /\ main \in Ending
      BY <2>4 DEF HasRead, Joining, Ending
    <3>2. w \notin late
      BY <2>1, <3>1 DEF WakeInv, LateInv
    <3> QED
      BY <1>2, <2>1, <3>1, <3>2, FS_AddElement
  <2>5. SentInv'
    BY <1>1, <1>2, <2>1, <2>2, <2>4 DEF WakeInv, SentInv
  <2>6. ForcedInv'
    BY <1>0, <1>1, <2>1 DEF WakeInv, ForcedInv, CountInv, FrameTypeOK
  <2> QED
    BY <1>5, <2>3, <2>5, <2>6 DEF WakeInv
<1>7. CASE SleepWait(w)
  <2>1. workerPc[w] = "wait" /\ workerPc' = [workerPc EXCEPT ![w] = "awake"]
        /\ tokens' = tokens - 1 /\ tokens > 0 /\ late' = late
    BY <1>7 DEF SleepWait, Goto, history
  <2>2. Waiters' = Waiters - 1
    <3>1. ASSUME NEW S, workerPc[w] \in S, "awake" \notin S
          PROVE  Cardinality(Where([workerPc EXCEPT ![w] = "awake"], S))
                   = Cardinality(Where(workerPc, S)) - 1
      BY <1>0, <3>1, PopulationLeave
    <3> QED
      BY <2>1, <3>1 DEF Waiters
  <2>3. LateInv'
    BY <1>0, <1>1, <1>4, <2>1 DEF WakeInv, LateInv
  <2>4. Cardinality(late') = Cardinality(late)
    BY <2>1
  <2>5. SentInv'
    <3>1. main = "finiSignal" => Waiters' <= cSignal' + Cardinality(late')
      BY <1>1, <1>2, <2>2, <2>4 DEF WakeInv, SentInv
    <3>2. main \in Joining => Waiters' <= tokens' + Cardinality(late')
      BY <1>2, <2>1, <2>2, <2>4 DEF WakeInv, SentInv
    <3> QED
      BY <1>1, <3>1, <3>2 DEF SentInv
  <2>6. ForcedInv'
    BY <1>1, <1>2, <2>1 DEF WakeInv, ForcedInv
  <2> QED
    BY <1>5, <2>3, <2>5, <2>6 DEF WakeInv
<1>8. CASE Top(w) \/ ReadPhase(w) \/ Ack(w) \/ Time(w) \/ Execute(w) \/ SleepDec(w)
  <2>1. (workerPc[w] = "wait" <=> n = "wait") /\ workerPc[w] # "wait"
    BY <1>0, <1>3, <1>8 DEF Top, ReadPhase, Ack, Time, Execute, SleepDec, Goto
  <2>2. Waiters' = Waiters
    BY <1>0, <1>3, <2>1, PopulationStay DEF Waiters
  <2>3. tokens' = tokens /\ late' = late
    BY <1>8 DEF Top, ReadPhase, Ack, Time, Execute, SleepDec, history
  <2>4. ASSUME main \in Ending, w \in late
        PROVE  n \in {"top", "exited"}
    <3>1. HasRead
      BY <2>4 DEF WakeInv, LateInv
    <3>2. terminate[w]
      BY <2>4, <3>1 DEF WakeInv, ToldInv, HasRead
    <3>3. workerPc[w] \in {"awake", "top", "exited"}
      BY <2>1, <2>4 DEF WakeInv, LateInv
    <3>4. n = workerPc'[w]
      BY <1>0, <1>3
    <3> QED
      BY <1>0, <1>8, <3>2, <3>3, <3>4
      DEF Top, ReadPhase, Ack, Time, Execute, SleepDec, Goto
  <2>5. LateInv'
    BY <1>0, <1>1, <1>3, <1>4, <2>3, <2>4 DEF WakeInv, LateInv
  <2>6. SentInv'
    BY <1>1, <2>2, <2>3 DEF WakeInv, SentInv
  <2>7. ForcedInv'
    BY <1>0, <1>1, <1>3, <2>1, <2>3 DEF WakeInv, ForcedInv, CountInv, FrameTypeOK
  <2> QED
    BY <1>5, <2>5, <2>6, <2>7 DEF WakeInv
<1> QED
  BY <1>6, <1>7, <1>8 DEF WorkerStep

\* Fini begins with nobody late; what it hands to Signal is the number of those
\* that wait, or more, and Stop gives up a thread only when no token is left.
LEMMA WakeMain ==
  ASSUME CountInv, WakeInv,
         EnterFrame \/ LeaveFrame \/ Fini \/ MainStep \/ UNCHANGED frameVars
  PROVE  WakeInv'
<1>0. DOMAIN workerPc = Workers /\ IsFiniteSet(DOMAIN workerPc)
  BY WorkersFinite DEF CountInv
<1>1. tokens \in Nat /\ cSignal \in Nat /\ cSleeping \in Nat /\ Waiters \in Nat
      /\ Cardinality(late) \in Nat /\ ix \in 1 .. cWorkers /\ cWorkers \in Nat \ {0}
  <2>1. IsFiniteSet(late)
    BY WorkersFinite, FS_Subset DEF CountInv, FrameTypeOK
  <2> QED
    BY <1>0, <2>1, PopulationFinite, FS_CardinalityType, WorkersFinite
    DEF CountInv, FrameTypeOK, Waiters
<1>2. workerPc' = workerPc
  BY DEF EnterFrame, LeaveFrame, Fini, MainStep, TellEnter, TellLeave, WakeTest,
         WakeCount, Signal, Await, SignalStop, Stop, frameVars, workerVars
<1>3. Waiters' = Waiters
  BY <1>2 DEF Waiters
<1>4. Waiters <= cSleeping
  <2>1. Where(workerPc, {"wait"}) \subseteq Where(workerPc, {"wait", "awake"})
    BY DEF Where
  <2>2. Waiters <= Cardinality(Where(workerPc, {"wait", "awake"}))
    BY <1>0, <2>1, PopulationFinite, FS_Subset DEF Waiters
  <2> QED
    BY <2>2 DEF CountInv
<1> USE DEF WakeInv
<1>5. CASE UNCHANGED frameVars
  BY <1>2, <1>3, <1>5
  DEF ToldInv, LateInv, SentInv, ForcedInv, HasRead, frameVars, mainVars, history
<1>6. CASE Fini
  <2>1. main = "out" /\ main' = "fini" /\ late' = {} /\ ix' = 1
        /\ UNCHANGED <<terminate, tokens, cSignal, forced>>
    BY <1>6 DEF Fini, CountInv, Loops
  <2>2. forced = {}
    BY <2>1 DEF ForcedInv, Joining
  <2>3. ToldInv'
    BY <2>1 DEF ToldInv, Workers, Ending
  <2> QED
    BY <2>1, <2>2, <2>3 DEF LateInv, SentInv, ForcedInv, Joining
<1>7. CASE WakeTest
  <2>1. UNCHANGED <<terminate, tokens, cSignal, forced, late>>
    BY <1>7 DEF WakeTest, history
  <2>2. \/ main = "finiWake" /\ cSleeping = 0 /\ main' = "join"
        \/ main = "finiWake" /\ main' = "finiCount"
        \/ main = "wake" /\ main' \notin Ending
    BY <1>7 DEF WakeTest, Wakes, Ending
  <2>3. ToldInv'
    BY <2>1, <2>2 DEF ToldInv, Ending
  <2>4. LateInv'
    BY <1>2, <2>1, <2>2 DEF LateInv, HasRead, Ending
  <2>5. SentInv'
    BY <1>1, <1>3, <1>4, <2>1, <2>2 DEF SentInv, Joining, Ending
  <2>6. ForcedInv'
    BY <1>2, <2>1, <2>2 DEF ForcedInv, Joining
  <2> QED
    BY <2>3, <2>4, <2>5, <2>6
<1>8. CASE WakeCount
  <2>1. UNCHANGED <<terminate, tokens, forced, late>> /\ cSignal' = cSleeping
    BY <1>8 DEF WakeCount, history
  <2>2. \/ main = "finiCount" /\ main' = "finiSignal"
        \/ main = "wakeCount" /\ main' \notin Ending
    BY <1>8 DEF WakeCount, Wakes, Ending
  <2>3. ToldInv'
    BY <2>1, <2>2 DEF ToldInv, Ending
  <2>4. LateInv'
    BY <1>2, <2>1, <2>2 DEF LateInv, HasRead, Ending
  <2>5. SentInv'
    BY <1>1, <1>3, <1>4, <2>1, <2>2 DEF SentInv, Joining, Ending
  <2>6. ForcedInv'
    BY <1>2, <2>1, <2>2 DEF ForcedInv, Joining
  <2> QED
    BY <2>3, <2>4, <2>5, <2>6
<1>9. CASE Signal
  <2>1. UNCHANGED <<terminate, cSignal, forced, late>> /\ tokens' = tokens + cSignal
    BY <1>9 DEF Signal, history
  <2>2. \/ main = "finiSignal" /\ main' = "join"
        \/ main = "wakeSignal" /\ main' \notin Ending
    BY <1>9 DEF Signal, Wakes, Ending
  <2>3. ToldInv'
    BY <2>1, <2>2 DEF ToldInv, Ending
  <2>4. LateInv'
    BY <1>2, <2>1, <2>2 DEF LateInv, HasRead, Ending
  <2>5. SentInv'
    BY <1>1, <1>3, <2>1, <2>2 DEF SentInv, Joining, Ending
  <2>6. ForcedInv'
    <3>1. forced = {}
      BY <2>2 DEF ForcedInv, Joining
    <3> QED
      BY <2>1, <3>1 DEF ForcedInv
  <2> QED
    BY <2>3, <2>4, <2>5, <2>6
<1>10. CASE EnterFrame \/ LeaveFrame \/ TellEnter \/ TellLeave \/ Await
  <2>1. UNCHANGED forced /\ main' \notin Ending /\ main \notin Ending
    BY <1>10 DEF EnterFrame, LeaveFrame, TellEnter, TellLeave, Await, Turn, Ending
  <2>2. forced = {}
    BY <2>1 DEF ForcedInv, Joining, Ending
  <2> QED
    BY <2>1, <2>2 DEF ToldInv, LateInv, SentInv, ForcedInv, Joining, Ending
<1>11. CASE SignalStop
  <2>1. UNCHANGED <<tokens, cSignal, forced, late>> /\ main = "fini"
        /\ ix' = (IF More THEN ix + 1 ELSE 1)
        /\ main' = (IF More THEN "fini" ELSE "finiWake")
        /\ terminate' = (IF More THEN [terminate EXCEPT ![ix] = TRUE] ELSE terminate)
    BY <1>11 DEF SignalStop, Turn, Told, history
  <2>2. terminate \in [Workers -> BOOLEAN]
    BY DEF CountInv, FrameTypeOK
  <2>3. ToldInv'
    <3>1. CASE More
      BY <1>1, <2>1, <2>2, <3>1 DEF ToldInv, Ending, Workers
    <3>2. CASE ~More
      <4>1. \A w \in Workers : terminate[w]
        BY <1>1, <2>1, <3>2 DEF ToldInv, More, Workers
      <4> QED
        BY <2>1, <3>2, <4>1 DEF ToldInv
    <3> QED
      BY <3>1, <3>2
  <2>4. late = {} /\ forced = {}
    BY <2>1 DEF LateInv, ForcedInv, HasRead, Ending, Joining
  <2> QED
    BY <2>1, <2>3, <2>4 DEF LateInv, SentInv, ForcedInv, Joining
<1>12. CASE Stop
  <2>1. UNCHANGED <<terminate, tokens, cSignal, late>> /\ main = "join"
        /\ main' \in {"join", "over"}
        /\ forced' = (IF More /\ Asleep(ix) THEN forced \cup {ix} ELSE forced)
    BY <1>12 DEF Stop, Turn, history
  <2>2. ToldInv'
    BY <2>1 DEF ToldInv, Ending
  <2>3. LateInv'
    BY <1>2, <2>1 DEF LateInv, HasRead, Ending
  <2>4. SentInv'
    BY <1>3, <2>1 DEF SentInv, Joining
  <2>5. ForcedInv'
    BY <1>2, <2>1 DEF ForcedInv, Asleep, Joining
  <2> QED
    BY <2>2, <2>3, <2>4, <2>5
<1> QED
  BY <1>5, <1>6, <1>7, <1>8, <1>9, <1>10, <1>11, <1>12 DEF MainStep

LEMMA WakeHolds == FrameSpec => []WakeInv
<1>1. CountInv /\ WakeInv /\ [FrameNext]_frameVars => WakeInv'
  BY WakeWorker, WakeMain DEF FrameNext
<1> QED
  BY <1>1, WakeInit, CountHolds, PTL DEF FrameSpec

\* Fini sends a token to every thread that it has counted on m_WakeSemaphore,
\* however many frames came before and however many tokens those left or took: of
\* the threads it stops by force there are no more than went to sleep after it
\* counted them.
THEOREM ExitsGracefully == FrameSpec => []ExitGracefully
<1>1. CountInv /\ WakeInv => ExitGracefully
  <2> SUFFICES ASSUME CountInv, WakeInv, main = "over"
               PROVE  Cardinality(forced) <= Cardinality(late)
    BY DEF ExitGracefully
  <2>1. DOMAIN workerPc = Workers /\ IsFiniteSet(DOMAIN workerPc) /\ forced \subseteq Workers
        /\ IsFiniteSet(late)
    BY WorkersFinite, FS_Subset DEF CountInv, FrameTypeOK
  <2>2. IsFiniteSet(Where(workerPc, {"wait"})) /\ Waiters \in Nat /\ Cardinality(late) \in Nat
    BY <2>1, PopulationFinite, FS_CardinalityType DEF Waiters
  <2>3. forced \subseteq Where(workerPc, {"wait"})
    BY <2>1 DEF WakeInv, ForcedInv, Where
  <2>4. Cardinality(forced) \in Nat /\ Cardinality(forced) <= Waiters
    BY <2>2, <2>3, FS_Subset, FS_CardinalityType DEF Waiters
  <2>5. Waiters <= tokens + Cardinality(late)
    BY DEF WakeInv, SentInv, Joining
  <2>6. CASE forced = {}
    BY <2>2, <2>6, FS_EmptySet
  <2>7. CASE forced # {}
    <3>1. tokens = 0
      BY <2>7 DEF WakeInv, ForcedInv
    <3> QED
      BY <2>2, <2>4, <2>5, <3>1
  <2> QED
    BY <2>6, <2>7
<1> QED
  BY <1>1, CountHolds, WakeHolds, PTL
=============================================================================
