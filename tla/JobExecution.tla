---------------------------- MODULE JobExecution ----------------------------
(***************************************************************************)
(* One frame of the scheduler (Scheduler04.cpp): worker 0, the main        *)
(* thread, submits root chains and calls WaitForAllJobs; the other workers *)
(* are threads that call LWorker::ExecuteUntilNoWork for ever.  A worker   *)
(* walks the priority levels from the highest down, claims the jobs of     *)
(* each chain one by one with a compare-and-swap, and whoever takes a      *)
(* chain's m_cRemaining to zero submits the chains that depend on it.      *)
(*                                                                         *)
(* One action is one access to memory that other workers write.  Appending *)
(* to a level is one action: PriorityChain shows that publication          *)
(* implements exactly that.  A scan over values that only grow within a    *)
(* frame (CheckNewWork, the jobs already claimed) is one action: its       *)
(* result is what a scan in one instant would have given.  m_uIndex and    *)
(* m_pExecStats, which lead to statistics only, are left out.              *)
(***************************************************************************)
EXTENDS Integers, Sequences, Functions

CONSTANTS
  cWorkers,           \* m_cWorkers; worker 0 is the main thread
  Chains,             \* job chains
  Roots,              \* the chains the main thread submits, in order
  Deps,               \* the children of each chain, m_pHead to m_pTail
  Priority,           \* m_Priority of each chain
  NoChain,            \* chain of a worker that is in no ExecuteJobs
  cJobs,              \* m_cJobs of each chain, blanks trimmed
  cRoom,              \* entries of its array, which AddJobs blanks behind the jobs
  kNumPriorityLevels,
  kJobsPerFence       \* distance between the workers' first jobs

kMaxDeps == 8  \* children handed to one Submit call

ASSUME JobExecutionAssumption ==
  /\ cWorkers \in Nat \ {0}
  /\ kNumPriorityLevels \in Nat \ {0}
  /\ kJobsPerFence \in Nat \ {0}
  /\ Roots \in Seq(Chains)
  /\ Deps \in [Chains -> Seq(Chains)]
  /\ \A c \in Chains : Len(Deps[c]) <= kMaxDeps
  /\ Priority \in [Chains -> 0 .. kNumPriorityLevels - 1]
  /\ cJobs \in [Chains -> Nat \ {0}]
  /\ NoChain \notin Chains

\* A scan goes on to the worker's offset, also behind the jobs.  It stays in the
\* array: entries come in multiples of 64 with one blank at least, and eight
\* jobs are the distance of two workers where a pointer has eight bytes.  With
\* more than nine workers and a short chain the code reads past the end.
ASSUME RoomAssumption ==
  \A c \in Chains : cRoom[c] \in Nat /\ cRoom[c] >= cJobs[c]
                    /\ cRoom[c] >= (cWorkers - 1) * kJobsPerFence

\* A chain has one m_pParent, and those the main thread submits have none.
ASSUME TreeAssumption ==
  \A c \in Chains : \A i \in 1 .. Len(Deps[c]) :
    /\ \A d \in Chains : \A j \in 1 .. Len(Deps[d]) : Deps[d][j] = Deps[c][i] => d = c
    /\ \A j \in 1 .. Len(Roots) : Roots[j] # Deps[c][i]

VARIABLES
  pChains,       \* the chains of every level, in order; cChains is its length
  claimed,       \* jobs of a chain whose pfnKernel is kClaimed
  runs,          \* times each job was started
  done,          \* jobs of a chain whose kernel has returned
  cRemaining,    \* m_cRemaining of each chain
  bIsWorking,    \* m_bIsWorking of each worker
  executePc,     \* where each worker is
  uCurrentChain, \* m_uCurrentChain of each worker
  uPriority,     \* level a worker is at
  uCheck,        \* level its check for work of higher priority has come to
  cSeen,         \* the local cChains of the level's loop
  chain,         \* chain whose ExecuteJobs a worker is in
  pos,           \* jobs of that chain the worker has gone past
  cExecuted,     \* jobs of it the worker has run
  arming,        \* chains FixForSubmit is still to come to, in its order
  pending,       \* chains a worker has still to publish
  look           \* next worker whose flag IsWorking reads

shared == <<pChains, claimed, runs, done, cRemaining, bIsWorking>>
loops == <<uCurrentChain, uPriority, uCheck, cSeen>>
jobs == <<chain, pos, cExecuted>>
hands == <<arming, pending>>
executionVars == <<shared, executePc, loops, jobs, hands, look>>

Workers == 0 .. cWorkers - 1
Levels == 0 .. kNumPriorityLevels - 1
Top == kNumPriorityLevels - 1
Jobs(c) == 0 .. cJobs[c] - 1

ExecutionInit ==
  /\ pChains = [l \in Levels |-> <<>>]
  /\ claimed = [c \in Chains |-> {}]
  /\ runs = [c \in Chains |-> [j \in Jobs(c) |-> 0]]
  /\ done = [c \in Chains |-> {}]
  /\ cRemaining = [c \in Chains |-> 0]
  /\ bIsWorking = [w \in Workers |-> FALSE]
  /\ executePc = [w \in Workers |-> IF w = 0 THEN "submit" ELSE "check"]
  /\ uCurrentChain = [w \in Workers |-> [l \in Levels |-> 0]]
  /\ uPriority = [w \in Workers |-> 0]
  /\ uCheck = [w \in Workers |-> 0]
  /\ cSeen = [w \in Workers |-> 0]
  /\ chain = [w \in Workers |-> NoChain]
  /\ pos = [w \in Workers |-> 0]
  /\ cExecuted = [w \in Workers |-> 0]
  /\ arming = [w \in Workers |-> <<>>]
  /\ pending = [w \in Workers |-> <<>>]
  /\ look = 1

Goto(w, where) == executePc' = [executePc EXCEPT ![w] = where]

-----------------------------------------------------------------------------
(* MScheduler::Submit: FixForSubmit on every chain of the array and on its
   children, then one append after the other. *)

\* The array a worker submits: the children of the chain it has completed, or
\* the roots.
Array(w) == IF chain[w] = NoChain THEN Roots ELSE Deps[chain[w]]

\* The main thread submits the roots of the frame; if( !cChains ) return.
SubmitRoots ==
  /\ executePc[0] = "submit"
  /\ arming' = [arming EXCEPT ![0] = Roots]
  /\ Goto(0, IF Roots = <<>> THEN "check" ELSE "fix")
  /\ UNCHANGED <<shared, loops, jobs, pending, look>>

\* A worker submits the chains that depend on the one it has completed.
SubmitDeps(w) ==
  /\ executePc[w] = "deps"
  /\ arming' = [arming EXCEPT ![w] = Deps[chain[w]]]
  /\ Goto(w, "fix")
  /\ UNCHANGED <<shared, loops, jobs, pending, look>>

\* FixForSubmit of one chain: m_cRemaining = m_cJobs, then on to its children,
\* and behind them to the rest of the array.
FixForSubmit(w) ==
  LET c == Head(arming[w])
  IN
  /\ executePc[w] = "fix"
  /\ cRemaining' = [cRemaining EXCEPT ![c] = cJobs[c]]
  /\ arming' = [arming EXCEPT ![w] = Deps[c] \o Tail(@)]
  /\ IF Deps[c] \o Tail(arming[w]) = <<>>
       THEN pending' = [pending EXCEPT ![w] = Array(w)] /\ Goto(w, "publish")
       ELSE UNCHANGED <<pending, executePc>>
  /\ UNCHANGED <<pChains, claimed, runs, done, bIsWorking, loops, jobs, look>>

\* SubmitToPriorityChain for the next chain of the array.
Publish(w) ==
  /\ executePc[w] = "publish"
  /\ LET c == Head(pending[w])
     IN pChains' = [pChains EXCEPT ![Priority[c]] = Append(@, c)]
  /\ pending' = [pending EXCEPT ![w] = Tail(@)]
  /\ Goto(w, IF Len(pending[w]) > 1 THEN "publish"
             ELSE IF chain[w] = NoChain THEN "check" ELSE "pick")
  /\ UNCHANGED <<claimed, runs, done, cRemaining, bIsWorking, loops, jobs, arming, look>>

-----------------------------------------------------------------------------
(* LWorker::ExecuteUntilNoWork *)

CheckNewWork(w) == \E l \in Levels : uCurrentChain[w][l] < Len(pChains[l])

\* There is work; a thread without work backs off and asks again, the main
\* thread goes on to ask whether the others are working.
Check(w) ==
  /\ executePc[w] = "check"
  /\ \/ CheckNewWork(w) /\ Goto(w, "mark")
     \/ ~CheckNewWork(w) /\ w = 0 /\ Goto(w, "look")
  /\ UNCHANGED <<shared, loops, jobs, hands, look>>

\* m_bIsWorking = true, and start at the highest level.
Mark(w) ==
  /\ executePc[w] = "mark"
  /\ bIsWorking' = [bIsWorking EXCEPT ![w] = TRUE]
  /\ uPriority' = [uPriority EXCEPT ![w] = Top]
  /\ Goto(w, "level")
  /\ UNCHANGED <<pChains, claimed, runs, done, cRemaining,
                 uCurrentChain, uCheck, cSeen, jobs, hands, look>>

\* const uint32 cChains = PriorityChain.cChains: read once for the level's loop.
Level(w) ==
  /\ executePc[w] = "level"
  /\ cSeen' = [cSeen EXCEPT ![w] = Len(pChains[uPriority[w]])]
  /\ Goto(w, "pick")
  /\ UNCHANGED <<shared, uCurrentChain, uPriority, uCheck, jobs, hands, look>>

\* The chain to try next: each worker starts its round at its own id.
ChainIndex(w, u, n) == (u + w) % n

Pick(w) ==
  LET l == uPriority[w]
      u == uCurrentChain[w][l]
  IN
  /\ executePc[w] = "pick"
  /\ IF u < cSeen[w]
       THEN /\ chain' = [chain EXCEPT ![w] = pChains[l][ChainIndex(w, u, cSeen[w]) + 1]]
            /\ uCurrentChain' = [uCurrentChain EXCEPT ![w][l] = u + 1]
            /\ Goto(w, "enter")
            /\ UNCHANGED uCheck
       ELSE /\ chain' = [chain EXCEPT ![w] = NoChain]
            /\ uCheck' = [uCheck EXCEPT ![w] = Top]
            /\ Goto(w, "higher")
            /\ UNCHANGED uCurrentChain
  /\ UNCHANGED <<shared, uPriority, cSeen, pos, cExecuted, hands, look>>

\* Has a level above the current one got work? Then continue there; else go
\* one level down, and below the lowest the call is over.
Higher(w) ==
  LET i == uCheck[w]
      l == uPriority[w]
  IN
  /\ executePc[w] = "higher"
  /\ \/ /\ i > l /\ uCurrentChain[w][i] < Len(pChains[i])
        /\ uPriority' = [uPriority EXCEPT ![w] = i]
        /\ Goto(w, "level") /\ UNCHANGED uCheck
     \/ /\ i > l /\ ~(uCurrentChain[w][i] < Len(pChains[i]))
        /\ uCheck' = [uCheck EXCEPT ![w] = i - 1]
        /\ UNCHANGED <<executePc, uPriority>>
     \/ /\ i <= l /\ l > 0
        /\ uPriority' = [uPriority EXCEPT ![w] = l - 1]
        /\ Goto(w, "level") /\ UNCHANGED uCheck
     \/ /\ i <= l /\ l = 0
        /\ Goto(w, "leave") /\ UNCHANGED <<uPriority, uCheck>>
  /\ UNCHANGED <<shared, uCurrentChain, cSeen, jobs, hands, look>>

\* m_bIsWorking = false, and return true.
LeaveWorking(w) ==
  /\ executePc[w] = "leave"
  /\ Goto(w, IF w = 0 THEN "look" ELSE "check")
  /\ UNCHANGED <<shared, loops, jobs, hands, look>>

Leave(w) ==
  /\ executePc[w] = "leave"
  /\ bIsWorking' = [bIsWorking EXCEPT ![w] = FALSE]
  /\ Goto(w, IF w = 0 THEN "look" ELSE "check")
  /\ UNCHANGED <<pChains, claimed, runs, done, cRemaining, loops, jobs, hands, look>>

-----------------------------------------------------------------------------
(* RJobChain::ExecuteJobs *)

\* if( !m_cRemaining ) return
EnterChain(w) ==
  /\ executePc[w] = "enter"
  /\ IF cRemaining[chain[w]] = 0
       THEN Goto(w, "pick") /\ UNCHANGED <<pos, cExecuted>>
       ELSE /\ pos' = [pos EXCEPT ![w] = 0]
            /\ cExecuted' = [cExecuted EXCEPT ![w] = 0]
            /\ Goto(w, "claim")
  /\ UNCHANGED <<shared, loops, chain, hands, look>>

\* The p-th entry that worker w looks at: from its offset to the last job, then
\* those before the offset, which may lie behind the jobs.
JobAt(w, c, p) ==
  LET uOffset == w * kJobsPerFence
  IN IF uOffset < cJobs[c] THEN (uOffset + p) % cJobs[c] ELSE p

Scanned(w, c) ==
  LET uOffset == w * kJobsPerFence IN IF uOffset < cJobs[c] THEN cJobs[c] ELSE uOffset

\* An entry the scan does not pass over.  Behind the jobs it finds blanks: null,
\* or kClaimed, which it has put there itself.
Takes(c, j) == j \in Jobs(c) \ claimed[c]
Unclaimed(w) ==
  {p \in pos[w] .. Scanned(w, chain[w]) - 1 : Takes(chain[w], JobAt(w, chain[w], p))}

\* The compare-and-swap stores kClaimed; TakenUnmarked is one that does not.
TakenUnmarked(c, j) == claimed
Taken(c, j) == [claimed EXCEPT ![c] = @ \cup {j}]

\* Claim the first job not yet claimed, and call its kernel.
Claim(w) ==
  LET c == chain[w]
      p == CHOOSE q \in Unclaimed(w) : \A r \in Unclaimed(w) : q <= r
      j == JobAt(w, c, p)
  IN
  /\ executePc[w] = "claim"
  /\ Unclaimed(w) # {}
  /\ claimed' = Taken(c, j)
  /\ runs' = [runs EXCEPT ![c][j] = @ + 1]
  /\ pos' = [pos EXCEPT ![w] = p]
  /\ Goto(w, "run")
  /\ UNCHANGED <<pChains, done, cRemaining, bIsWorking, loops, chain, cExecuted, hands, look>>

\* The kernel returns.
Run(w) ==
  LET c == chain[w]
  IN
  /\ executePc[w] = "run"
  /\ done' = [done EXCEPT ![c] = @ \cup {JobAt(w, c, pos[w])}]
  /\ pos' = [pos EXCEPT ![w] = @ + 1]
  /\ cExecuted' = [cExecuted EXCEPT ![w] = @ + 1]
  /\ Goto(w, "claim")
  /\ UNCHANGED <<pChains, claimed, runs, cRemaining, bIsWorking, loops, chain, hands, look>>

\* A worker accounts for the jobs it ran itself.
ShareAll(w) == cJobs[chain[w]]
Share(w) == cExecuted[w]

\* The prior value of m_cRemaining equals that share: this worker finished the
\* chain.  FinishedNew compares the value after the subtraction.
FinishedAny(w) == TRUE
FinishedNew(w) == cRemaining[chain[w]] - cExecuted[w] = cExecuted[w]
Finished(w) == cRemaining[chain[w]] = cExecuted[w]

\* AX_ATOMIC_FETCH_SUB_REL32( &m_cRemaining, cExecuted ) == cExecuted
Retire(w) ==
  LET c == chain[w]
  IN
  /\ executePc[w] = "claim"
  /\ Unclaimed(w) = {}
  /\ cRemaining' = [cRemaining EXCEPT ![c] = @ - Share(w)]
  /\ Goto(w, IF Finished(w) /\ Deps[c] # <<>> THEN "deps" ELSE "pick")
  /\ UNCHANGED <<pChains, claimed, runs, done, bIsWorking, loops, jobs, hands, look>>

-----------------------------------------------------------------------------
(* MScheduler::WaitForAllJobs and IsWorking *)

\* Number of the flag after the last one IsWorking reads.
LookEndShort == cWorkers - 1
LookEnd == cWorkers

\* IsWorking reads the flags of workers 1, 2, ...; one that is set sends the
\* main thread back to work.  Its own flag, read last, is clear.
Look ==
  /\ executePc[0] = "look"
  /\ \/ look < LookEnd /\ bIsWorking[look] /\ look' = 1 /\ Goto(0, "check")
     \/ look < LookEnd /\ ~bIsWorking[look] /\ look' = look + 1 /\ UNCHANGED executePc
     \/ look >= LookEnd /\ look' = 1 /\ Goto(0, "returned")
  /\ UNCHANGED <<shared, loops, jobs, hands>>

ExecuteStep(w) ==
  \/ SubmitDeps(w) \/ FixForSubmit(w) \/ Publish(w) \/ Check(w) \/ Mark(w) \/ Level(w) \/ Pick(w)
  \/ Higher(w) \/ Leave(w) \/ EnterChain(w) \/ Claim(w) \/ Run(w) \/ Retire(w)

MainStep == SubmitRoots \/ Look

ExecutionNext == MainStep \/ \E w \in Workers : ExecuteStep(w)

ExecutionSpec == ExecutionInit /\ [][ExecutionNext]_executionVars

\* Every worker is a thread of its own and jobs return.
ExecutionFairSpec == ExecutionSpec /\ WF_executionVars(MainStep) /\ \A w \in Workers : WF_executionVars(ExecuteStep(w))

-----------------------------------------------------------------------------

ExecutionTypeOK ==
  /\ \A l \in Levels : Range(pChains[l]) \subseteq Chains
  /\ \A c \in Chains : done[c] \subseteq Jobs(c) /\ claimed[c] \subseteq Jobs(c)
  /\ cRemaining \in [Chains -> Nat]
  /\ bIsWorking \in [Workers -> BOOLEAN]
  /\ uCurrentChain \in [Workers -> [Levels -> Nat]]
  /\ uPriority \in [Workers -> Levels]
  /\ \A w \in Workers : pos[w] \in Nat /\ cExecuted[w] \in Nat
  /\ look \in Nat

\* No job runs twice, whichever workers find its chain and however often.
AtMostOnce == \A c \in Chains : \A j \in Jobs(c) : runs[c][j] <= 1

\* A job of a dependent chain starts only when every job of the chain it
\* depends on has returned.
ParentFirst ==
  \A c \in Chains : \A d \in Range(Deps[c]) :
    (\E j \in Jobs(d) : runs[d][j] > 0) => done[c] = Jobs(c)

Published == UNION {Range(pChains[l]) : l \in Levels}

\* WaitForAllJobs returns only when the chains the main thread submitted have
\* run to their end, also those another worker was still in.
RootsDone == executePc[0] = "returned" => \A c \in Range(Roots) : done[c] = Jobs(c)

\* "Wait for all currently submitted jobs to complete": the same of every chain
\* in the levels, so also of the dependents.
PublishedDone == executePc[0] = "returned" => \A c \in Published : done[c] = Jobs(c)

\* A chain all of whose jobs have returned has released its dependents, unless
\* a worker is still inside its ExecuteJobs.
DepsReleased ==
  \A c \in Published :
    done[c] = Jobs(c) /\ (\A w \in Workers : chain[w] # c) =>
      Range(Deps[c]) \subseteq Published

\* Once the roots are being submitted, WaitForAllJobs returns.
WaitReturns == executePc[0] # "submit" ~> executePc[0] = "returned"
=============================================================================
