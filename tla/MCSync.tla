------------------------------- MODULE MCSync -------------------------------
(***************************************************************************)
(* The objects of the libraries below the compiler: those the threads of   *)
(* the Async library synchronise with, each used by the same few threads,  *)
(* a frame of its jobs, the tree of its job chains, the threads            *)
(* themselves, memory under tags, and the collections.  The objects do not *)
(* interact: a behaviour is one of one of them, named by object, while the *)
(* others stay as they were made.                                          *)
(***************************************************************************)
EXTENDS RWLock, QuickLocks, Barrier, ThreadLife, MCJobExecution, Sequences

CONSTANTS t1, t2, t3

MCThreads == {t1, t2, t3}

VARIABLES
  object,
  m_pPrev, m_pNext, m_pList, m_pNode, m_pHead, m_pTail, made, order,
  alphabet, tables, data, stored,
  m_pArr, m_cArr, items, lost, faulty,
  pAllocator, Stats, blocks, work, peak, overlapped, alarms, crossed, steps,
  debug, m_pJobs, m_pParent, m_pPrevious, m_pFollowing, m_pFirst, m_pLast, m_cRemaining, hanging, given, children

\* Two threads signal a semaphore that the third waits for.
MCSignallers == {t1, t2}
MCWaiters == {t3}

\* The barrier is raised and waited for by all, or used in every way by one.
Together == [callers |-> MCThreads, ops |-> {"raise", "wait"}, calls |-> 2,
             stateless |-> FALSE]
Pthread == [Together EXCEPT !.stateless = TRUE]
Alone == [callers |-> {t1}, calls |-> 6, stateless |-> FALSE,
          ops |-> {"raise", "lower", "clear", "reset", "increase", "wait"}]

MCUsages == {Together, Pthread, Alone}

\* Three links, one with a greater key; and words over a few letters.
LinkKey == [x \in {"a", "b", "c"} |-> IF x = "b" THEN 2 ELSE 1]
Alphabets == [allowed : {<<97, 98, 95>>, <<98, 97, 65, 66, 48>>, <<65, 98>>, <<97, 97>>}, sensitive : BOOLEAN]
Words == {<<97>>, <<66, 97>>, <<97, 95>>, <<98>>, <<255>>, <<>>}

Kept == INSTANCE Collections WITH
  Links <- {"a", "b", "c"}, Lists <- {"l", "m"}, Key <- LinkKey, DictKeys <- Words,
  Values <- {1, 2}, m_cGranularity <- 2, MaxItems <- 4

\* Two threads that allocate; there are two tags, and what is asked for under a third is of the first.
Requests == {[tag |-> 0, n |-> 1], [tag |-> 1, n |-> 1], [tag |-> 2, n |-> 2]}
Memory == INSTANCE MemoryTags WITH
  Users <- {t1, t2}, Requests <- Requests, Allocators <- {"pool"}, MaxTags <- 2, StubSize <- 1, MaxBlocks <- 2

\* Four chains, so that one has a first child, a last and one between; one may be given three jobs.
Tree == INSTANCE ChainTree WITH
  Chains <- {"a", "b", "c", "d"}, Kernels <- [c \in {"a", "b", "c", "d"} |-> IF c = "b" THEN {9} ELSE {}],
  kAlign <- 2, MaxJobs <- [c \in {"a", "b", "c", "d"} |-> IF c = "a" THEN 3 ELSE 1]

linkVars == <<m_pPrev, m_pNext, m_pList, m_pNode, m_pHead, m_pTail, made, order>>
keyVars == <<alphabet, tables, data, stored>>
cellVars == <<m_pArr, m_cArr, items, lost, faulty>>
collectionVars == <<linkVars, keyVars, cellVars>>
memoryVars == <<pAllocator, Stats, blocks, work, peak, overlapped, alarms, crossed, steps>>
treeVars ==
  <<debug, m_pJobs, m_pParent, m_pPrevious, m_pFollowing, m_pFirst, m_pLast, m_cRemaining, hanging, given, children>>

SyncInit ==
  /\ object \in {"rwlock", "mutex", "semaphore", "barrier", "lists", "dictionary", "array", "thread", "memory", "tree",
                "jobs"}
  /\ Init /\ ExecutionInit /\ MutexInit /\ SemaphoreInit /\ BarrierInit
  /\ object # "barrier" => usage = Alone /\ uTarget = 1
  /\ Kept!ListInit /\ Kept!DictInit /\ Kept!ArrayInit
  /\ LifeInit /\ Memory!MemoryInit /\ Tree!TreeInit
  /\ object # "tree" => ~debug
  /\ object # "thread" => ~mswin
  /\ object # "dictionary" => alphabet = [allowed |-> <<65, 98>>, sensitive |-> TRUE]

queueVars == <<mutexVars, semaphoreVars, barrierVars>>
hostVars == <<lifeVars, memoryVars, treeVars, executionVars>>

SyncNext ==
  /\ UNCHANGED object
  /\ \/ /\ object = "rwlock" /\ Next
        /\ UNCHANGED <<queueVars, collectionVars, hostVars>>
     \/ /\ object = "mutex" /\ MutexNext
        /\ UNCHANGED <<vars, semaphoreVars, barrierVars, collectionVars, hostVars>>
     \/ /\ object = "semaphore" /\ SemaphoreNext
        /\ UNCHANGED <<vars, mutexVars, barrierVars, collectionVars, hostVars>>
     \/ /\ object = "barrier" /\ BarrierNext
        /\ UNCHANGED <<vars, mutexVars, semaphoreVars, collectionVars, hostVars>>
     \/ /\ object = "lists" /\ Kept!ListNext
        /\ UNCHANGED <<vars, queueVars, keyVars, cellVars, hostVars>>
     \/ /\ object = "dictionary" /\ Kept!DictNext
        /\ UNCHANGED <<vars, queueVars, linkVars, cellVars, hostVars>>
     \/ /\ object = "array" /\ Kept!ArrayNext
        /\ UNCHANGED <<vars, queueVars, linkVars, keyVars, hostVars>>
     \/ /\ object = "thread" /\ LifeNext
        /\ UNCHANGED <<vars, queueVars, collectionVars, memoryVars, treeVars, executionVars>>
     \/ /\ object = "memory" /\ Memory!MemoryNext
        /\ UNCHANGED <<vars, queueVars, collectionVars, lifeVars, treeVars, executionVars>>
     \/ /\ object = "tree" /\ Tree!TreeNext
        /\ UNCHANGED <<vars, queueVars, collectionVars, lifeVars, memoryVars, executionVars>>
     \/ /\ object = "jobs" /\ ExecutionNext
        /\ UNCHANGED <<vars, queueVars, collectionVars, lifeVars, memoryVars, treeVars>>

\* Two properties need fairness: BarrierFairSpec's and ExecutionFairSpec's.
SyncSpec ==
  /\ SyncInit /\ [][SyncNext]_<<object, vars, queueVars, collectionVars, hostVars>>
  /\ \A t \in MCThreads : WF_barrierVars(object = "barrier" /\ BarrierStep(t))
  /\ WF_executionVars(object = "jobs" /\ MainStep)
  /\ \A w \in Workers : WF_executionVars(object = "jobs" /\ ExecuteStep(w))

\* What a tag counts is what is held under it, and what holds while calls do not overlap.
CountsAgree == object = "memory" => Memory!CountsAgree

(* The collections, and the tree of job chains, hold what was put into      *)
(* them, in its order and under its keys, and nothing that has left:        *)
(* ListsHold, KeysLead, ArrayHolds and TreeHolds.                           *)
CollectionsHold ==
  /\ object = "lists" => Kept!ListsHold
  /\ object = "dictionary" => Kept!KeysLead
  /\ object = "array" => Kept!ArrayHolds
  /\ object = "tree" => Tree!TreeHolds
=============================================================================
