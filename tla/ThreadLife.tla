----------------------------- MODULE ThreadLife -----------------------------
(***************************************************************************)
(* CThread (Libs/Async/Thread.cpp), the object that starts a thread and    *)
(* stops it, as both systems build it: one owner starts and stops it, and  *)
(* in the end destroys it, while the threads it started run Main_f on it.  *)
(* The system's threads are external, and so is OnRun, which each object   *)
(* overrides: it may look at IsQuitting, and may return whenever it likes. *)
(***************************************************************************)
EXTENDS Integers, FiniteSets

CONSTANTS
  Priorities,   \* how many priorities EPriority has, from 0 on
  NormalOf,     \* the one called Normal
  ExitValues,   \* what OnRun may return, EXIT_SUCCESS (0) among them or not
  MaxThreads,   \* bound: how many threads are started
  MaxAdjusts    \* bound: how often a priority is set

VARIABLES
  mswin,        \* AX_THREAD_MODEL_WINDOWS, or else AX_THREAD_MODEL_PTHREAD
  handle,       \* m_hThread or m_Thread: the thread, NoThread, or Stale
  uThreadId,    \* m_uThreadId or m_ThreadId
  bTerminate, iExitValue,
  threads,      \* of each of the system's threads: how far it is, its priority, what OnRun returned
  open,         \* the threads that a handle is open to (Windows)
  owner,        \* what the owner does: "idle", "stopping", "destroying" or "gone"
  asked,        \* the threads that were running when a stop was last asked for
  late,         \* a Stop gave up waiting
  adjusts

lifeVars == <<mswin, handle, uThreadId, bTerminate, iExitValue, threads, open, owner, asked, late, adjusts>>

NoThread == 0
Stale == -1    \* what a failed pthread_create may leave in m_Thread
Process == 99  \* getpid(), no thread's own number

Numbers == 1 .. MaxThreads
Fresh == [at |-> "none", priority |-> NormalOf, returned |-> 0]
Live == {n \in Numbers : threads[n].at \in {"created", "running"}}

LifeInit ==
  /\ mswin \in BOOLEAN
  /\ handle = NoThread /\ uThreadId = 0 /\ bTerminate = FALSE /\ iExitValue = 0
  /\ threads = [n \in Numbers |-> Fresh] /\ open = {} /\ owner = "idle"
  /\ asked = {} /\ late = FALSE /\ adjusts = 0

Started == IF mswin THEN uThreadId # 0 ELSE handle # NoThread

\* A faulty one, which clears the request to stop before it looks.
StartAgainCleared ==
  /\ owner = "idle" /\ Started /\ bTerminate' = FALSE
  /\ UNCHANGED <<mswin, handle, uThreadId, iExitValue, threads, open, owner, asked, late, adjusts>>

\* A thread that was started already is taken for running, whether it is or not.
StartAgain == owner = "idle" /\ Started /\ UNCHANGED lifeVars

Start ==
  /\ owner = "idle" /\ ~Started
  /\ bTerminate' = FALSE /\ iExitValue' = 0
  /\ \E n \in Numbers :
       /\ threads[n].at = "none" /\ \A k \in Numbers : k < n => threads[k].at # "none"
       /\ threads' = [threads EXCEPT ![n].at = "created"]
       /\ handle' = n /\ uThreadId' = IF mswin THEN n ELSE 0
       /\ open' = IF mswin THEN open \cup {n} ELSE open
  /\ UNCHANGED <<mswin, owner, asked, late, adjusts>>

StartFails ==
  /\ owner = "idle" /\ ~Started
  /\ bTerminate' = FALSE /\ iExitValue' = 0
  /\ handle' \in IF mswin THEN {NoThread} ELSE {NoThread, Stale}
  /\ uThreadId' = 0
  /\ UNCHANGED <<mswin, threads, open, owner, asked, late, adjusts>>

\* Main_f, up to the call of OnRun.
Enter(n) ==
  /\ threads[n].at = "created"
  /\ threads' = [threads EXCEPT ![n].at = "running"]
  /\ uThreadId' = IF mswin THEN uThreadId ELSE Process
  /\ UNCHANGED <<mswin, handle, bTerminate, iExitValue, open, owner, asked, late, adjusts>>

\* OnRun returns, of itself or because IsQuitting told it to.
Return(n) ==
  /\ threads[n].at = "running"
  /\ \E x \in ExitValues :
       /\ iExitValue' = x
       /\ threads' = [threads EXCEPT ![n].at = "ended", ![n].returned = x]
  /\ UNCHANGED <<mswin, handle, uThreadId, bTerminate, open, owner, asked, late, adjusts>>

SignalStop ==
  /\ owner = "idle"
  /\ bTerminate' = TRUE /\ asked' = Live
  /\ UNCHANGED <<mswin, handle, uThreadId, iExitValue, threads, open, owner, late, adjusts>>

\* Stop, and the destructor, which is a Stop: first what asks the thread to end.
Stop(whole) ==
  /\ owner = "idle" /\ Started
  /\ bTerminate' = TRUE /\ asked' = Live
  /\ owner' = IF whole THEN "destroying" ELSE "stopping"
  /\ UNCHANGED <<mswin, handle, uThreadId, iExitValue, threads, open, late, adjusts>>
Destroy ==
  /\ owner = "idle" /\ ~Started
  /\ owner' = "gone"
  /\ UNCHANGED <<mswin, handle, uThreadId, bTerminate, iExitValue, threads, open, asked, late, adjusts>>

Back == IF owner = "destroying" THEN "gone" ELSE "idle"
Waiting == owner \in {"stopping", "destroying"}

\* Windows: it ended in time, and nothing is closed; or it did not, and is left alone.
StopInTime ==
  /\ Waiting /\ mswin /\ handle \notin Live
  /\ owner' = Back
  /\ UNCHANGED <<mswin, handle, uThreadId, bTerminate, iExitValue, threads, open, asked, late, adjusts>>
StopLate ==
  /\ Waiting /\ mswin /\ handle \in Live
  /\ uThreadId' = 0 /\ handle' = NoThread /\ open' = open \ {handle}
  /\ owner' = Back /\ late' = TRUE
  /\ UNCHANGED <<mswin, bTerminate, iExitValue, threads, asked, adjusts>>

\* Elsewhere: the thread is cancelled where it can be, and waited for.
Cancelled ==
  /\ Waiting /\ ~mswin /\ handle \in Live
  /\ threads' = [threads EXCEPT ![handle].at = "cancelled"]
  /\ UNCHANGED <<mswin, handle, uThreadId, bTerminate, iExitValue, open, owner, asked, late, adjusts>>
Joined ==
  /\ Waiting /\ ~mswin /\ handle \notin Live
  /\ handle' = NoThread /\ owner' = Back
  /\ UNCHANGED <<mswin, uThreadId, bTerminate, iExitValue, threads, open, asked, late, adjusts>>

\* Elsewhere waitpid is asked of the process itself, which is not its own child.
IsRunning == mswin /\ handle # NoThread /\ handle \in Live

-----------------------------------------------------------------------------
(* Priorities, and what Windows calls them.                                 *)

RealPriority == <<-15, -2, -1, 0, 1, 2, 15>>
Lowest == -2
Highest == 2

FromReal(prio) ==
  IF \E p \in DOMAIN RealPriority : RealPriority[p] = prio
  THEN (CHOOSE p \in DOMAIN RealPriority : RealPriority[p] = prio) - 1
  ELSE IF prio < Lowest THEN 1 ELSE IF prio > Highest THEN 5 ELSE NormalOf

GetPriority == IF mswin THEN FromReal(RealPriority[threads[handle].priority + 1]) ELSE NormalOf

\* The handle must be a thread's; setting the priority of one that has ended may fail.
SetPriority(prio) ==
  /\ owner = "idle" /\ adjusts < MaxAdjusts /\ adjusts' = adjusts + 1
  /\ mswin /\ uThreadId # 0 /\ handle # NoThread
  /\ threads' = IF handle \in Live THEN [threads EXCEPT ![handle].priority = prio] ELSE threads
  /\ UNCHANGED <<mswin, handle, uThreadId, bTerminate, iExitValue, open, owner, asked, late>>

LifeNext ==
  \/ StartAgain \/ Start \/ StartFails \/ SignalStop \/ Destroy
  \/ \E n \in Numbers : Enter(n) \/ Return(n)
  \/ \E whole \in BOOLEAN : Stop(whole)
  \/ StopInTime \/ StopLate \/ Cancelled \/ Joined
  \/ \E prio \in 0 .. Priorities - 1 : SetPriority(prio)

LifeSpec == LifeInit /\ [][LifeNext]_lifeVars

-----------------------------------------------------------------------------
(* Unless a Stop gave up on it, one thread at most runs on the object, it is  *)
(* the one the handle is for, it sees that it was asked to stop whatever was  *)
(* called since, none is left once the object is gone, and IsRunning and the  *)
(* exit value are what it is and what it returned.  The hazard is a Start     *)
(* between a request to stop and the end, which must not undo the request.    *)
OneThreadRuns ==
  ~late =>
    /\ Live \subseteq {handle}
    /\ owner = "gone" => Live = {}
    /\ asked \cap Live # {} => bTerminate
    /\ mswin => /\ IsRunning <=> Live # {}
                /\ handle # NoThread /\ threads[handle].at = "ended" => iExitValue = threads[handle].returned
                /\ handle # NoThread => GetPriority = threads[handle].priority
=============================================================================
