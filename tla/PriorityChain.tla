--------------------------- MODULE PriorityChain ---------------------------
(***************************************************************************)
(* Publication of job chains to the scheduler (Scheduler04.cpp):           *)
(* MScheduler::Submit reserves execution-statistics slots with one atomic  *)
(* add, then SubmitToPriorityChain publishes each chain in the array of    *)
(* its priority level with a compare-and-swap on the first free slot and   *)
(* an atomic increment of the level's count.  Any number of threads may    *)
(* submit at once: the main thread submits root chains, workers submit the *)
(* dependents of the chains they finish.                                   *)
(*                                                                         *)
(* A chain may be handed to Submit again: AddJobs forbids it in debug      *)
(* builds only, and JobExecution shows ExecuteJobs do it.  What is told    *)
(* apart is therefore not the chain but the submission: a chain and the    *)
(* number that the atomic add gave it.  The code keeps the pointer alone   *)
(* in the slots and in the batch; the number beside it is history.         *)
(*                                                                         *)
(* One action is one access to shared memory.  The counters are far from   *)
(* 2^32 here (kMaxChains is 2048), so they are plain naturals.  The fields *)
(* of the chains that Submit fills in are JobExecution's subject.          *)
(***************************************************************************)
EXTENDS Integers, Sequences, FiniteSets, Functions

CONSTANTS
  Threads,       \* threads that call Submit
  Chains,        \* job chains
  Levels,        \* priority levels (EPriority)
  Priority,      \* m_Priority of each chain
  NoChain,       \* nullptr in a slot of pChains
  kMaxChains,    \* capacity of every level, and of m_ChainStats
  MaxBatch,      \* bound: longest array handed to one Submit call
  MaxAttempts,   \* bound: chains ever handed to Submit, refused ones included
  CasSwapped     \* TRUE for the GCC/Clang macro, FALSE for the MSVC one

Submissions == [chain : Chains, index : 0 .. MaxAttempts - 1]

ASSUME PriorityChainAssumption ==
  /\ IsFiniteSet(Threads)
  /\ IsFiniteSet(Chains)
  /\ Priority \in [Chains -> Levels]
  /\ NoChain \notin Submissions
  /\ kMaxChains \in Nat \ {0}
  /\ MaxBatch \in Nat
  /\ MaxAttempts \in Nat
  /\ CasSwapped \in BOOLEAN

VARIABLES
  cSubmittedChains,  \* m_cSubmittedChains
  pChains,           \* pChains[level][slot]
  cChains,           \* cChains[level]
  accepted,          \* history: submissions that were not refused
  bIsQuitting,       \* m_bIsQuitting, set by Fini
  pc,                \* where each thread is inside Submit
  todo,              \* submissions of its batch a thread has still to publish
  seen               \* cChains as the thread read it to address its slot

vars == <<cSubmittedChains, pChains, cChains, accepted, bIsQuitting, pc, todo, seen>>

Slots == 0 .. kMaxChains - 1
\* Arrays a caller may hand to Submit: any chains, also the same one twice.
Batches == UNION {[1 .. n -> Chains] : n \in 1 .. MaxBatch}

Init ==
  /\ cSubmittedChains = 0
  /\ pChains = [l \in Levels |-> [i \in Slots |-> NoChain]]
  /\ cChains = [l \in Levels |-> 0]
  /\ accepted = {}
  /\ bIsQuitting = FALSE
  /\ pc = [t \in Threads |-> "idle"]
  /\ todo = [t \in Threads |-> <<>>]
  /\ seen = [t \in Threads |-> 0]

Current(t) == Head(todo[t])
Level(t) == Priority[Current(t).chain]

\* SubmitToPriorityChain returned: go on with the next chain of the batch.
NextChain(t) ==
  /\ todo' = [todo EXCEPT ![t] = Tail(@)]
  /\ pc' = [pc EXCEPT ![t] = IF Len(todo[t]) = 1 THEN "idle" ELSE "verify"]

\* AX_VERIFY_MSG( uBase + cChains <= kMaxChains ), uBase being the prior count.
FitsUnchecked(b) == TRUE
Fits(b) == cSubmittedChains + Len(b) <= kMaxChains

\* Chain i of the batch gets m_uIndex = uBase + i and that entry of m_ChainStats.
Numbered(b) == [i \in DOMAIN b |-> [chain |-> b[i], index |-> cSubmittedChains + i - 1]]

\* The atomic add and the capacity test.  A refused batch keeps its share of
\* the count.
Submit(t, b) ==
  /\ pc[t] = "idle"
  /\ cSubmittedChains + Len(b) <= MaxAttempts
  /\ cSubmittedChains' = cSubmittedChains + Len(b)
  /\ IF Fits(b)
       THEN /\ accepted' = accepted \cup Range(Numbered(b))
            /\ todo' = [todo EXCEPT ![t] = Numbered(b)]
            /\ pc' = [pc EXCEPT ![t] = "verify"]
       ELSE UNCHANGED <<accepted, todo, pc>>
  /\ UNCHANGED <<pChains, cChains, bIsQuitting, seen>>

\* AX_VERIFY_MSG( PriorityChain.cChains < kMaxChains ), ahead of the loop.
Verify(t) ==
  /\ pc[t] = "verify"
  /\ IF cChains[Level(t)] < kMaxChains
       THEN pc' = [pc EXCEPT ![t] = "read"] /\ UNCHANGED todo
       ELSE NextChain(t)
  /\ UNCHANGED <<cSubmittedChains, pChains, cChains, accepted, bIsQuitting, seen>>

\* Evaluate &PriorityChain.pChains[ PriorityChain.cChains ].
ReadCount(t) ==
  /\ pc[t] = "read"
  /\ seen' = [seen EXCEPT ![t] = cChains[Level(t)]]
  /\ pc' = [pc EXCEPT ![t] = "cas"]
  /\ UNCHANGED <<cSubmittedChains, pChains, cChains, accepted, bIsQuitting, todo>>

\* AX_ATOMIC_COMPARE_EXCHANGE_FULLPTR( Dst, Src, Cmp ) as each header expands
\* it: MSVC stores Src when *Dst = Cmp; GCC hands Src to
\* __sync_val_compare_and_swap as the expected value and Cmp as the new one.
\* Either way the result is the value *Dst had.
CompareExchange(old, src, cmp) ==
  IF CasSwapped
    THEN IF old = src THEN cmp ELSE old
    ELSE IF old = cmp THEN src ELSE old

\* A store ahead of the test overwrites a slot that was taken meanwhile.
ClaimByStore(t) ==
  /\ pc[t] = "cas"
  /\ pChains' = [pChains EXCEPT ![Level(t)][seen[t]] = Current(t)]
  /\ pc' = [pc EXCEPT ![t] =
              IF pChains[Level(t)][seen[t]] = NoChain THEN "inc" ELSE "spin"]
  /\ UNCHANGED <<cSubmittedChains, cChains, accepted, bIsQuitting, todo, seen>>

\* The result of the swap is not looked at.
ClaimUntested(t) ==
  /\ pc[t] = "cas"
  /\ pChains' = [pChains EXCEPT ![Level(t)][seen[t]] =
                   CompareExchange(@, Current(t), NoChain)]
  /\ pc' = [pc EXCEPT ![t] = "inc"]
  /\ UNCHANGED <<cSubmittedChains, cChains, accepted, bIsQuitting, todo, seen>>

\* The compare-and-swap of the free slot; the loop ends when it was free.
Claim(t) ==
  /\ pc[t] = "cas"
  /\ LET l == Level(t)
         old == pChains[l][seen[t]]
     IN /\ pChains' = [pChains EXCEPT ![l][seen[t]] =
                         CompareExchange(old, Current(t), NoChain)]
        /\ pc' = [pc EXCEPT ![t] = IF old = NoChain THEN "inc" ELSE "spin"]
  /\ UNCHANGED <<cSubmittedChains, cChains, accepted, bIsQuitting, todo, seen>>

\* A failed swap is not tried again.
SpinOnce(t) ==
  /\ pc[t] = "spin"
  /\ NextChain(t)
  /\ UNCHANGED <<cSubmittedChains, pChains, cChains, accepted, bIsQuitting, seen>>

\* Loop body after a failed swap: give up when the scheduler quits or the
\* level is full, else evaluate the loop condition again.
Spin(t) ==
  /\ pc[t] = "spin"
  /\ IF bIsQuitting \/ cChains[Level(t)] >= kMaxChains
       THEN NextChain(t)
       ELSE pc' = [pc EXCEPT ![t] = "read"] /\ UNCHANGED todo
  /\ UNCHANGED <<cSubmittedChains, pChains, cChains, accepted, bIsQuitting, seen>>

\* The count is not incremented.
PublishUncounted(t) ==
  /\ pc[t] = "inc"
  /\ NextChain(t)
  /\ UNCHANGED <<cSubmittedChains, pChains, cChains, accepted, bIsQuitting, seen>>

\* A subtraction for the addition.
PublishBackwards(t) ==
  /\ pc[t] = "inc"
  /\ cChains' = [cChains EXCEPT ![Level(t)] = @ - 1]
  /\ NextChain(t)
  /\ UNCHANGED <<cSubmittedChains, pChains, accepted, bIsQuitting, seen>>

\* AX_ATOMIC_FETCH_ADD_FULL32( &PriorityChain.cChains, 1 ): workers see it now.
Publish(t) ==
  /\ pc[t] = "inc"
  /\ cChains' = [cChains EXCEPT ![Level(t)] = @ + 1]
  /\ NextChain(t)
  /\ UNCHANGED <<cSubmittedChains, pChains, accepted, bIsQuitting, seen>>

\* MScheduler::Fini forbids further submissions.
Quit ==
  /\ ~bIsQuitting
  /\ bIsQuitting' = TRUE
  /\ UNCHANGED <<cSubmittedChains, pChains, cChains, accepted, pc, todo, seen>>

Step(t) == Verify(t) \/ ReadCount(t) \/ Claim(t) \/ Spin(t) \/ Publish(t)

Next ==
  \/ \E t \in Threads : \E b \in Batches : Submit(t, b)
  \/ \E t \in Threads : Step(t)
  \/ Quit

Spec == Init /\ [][Next]_vars

\* Every thread inside Submit keeps running; nobody is obliged to submit or quit.
FairSpec == Spec /\ \A t \in Threads : WF_vars(Step(t))

-----------------------------------------------------------------------------

TypeOK ==
  /\ cSubmittedChains \in Nat
  /\ pChains \in [Levels -> [Slots -> Submissions \cup {NoChain}]]
  /\ cChains \in [Levels -> Nat]
  /\ accepted \subseteq Submissions
  /\ bIsQuitting \in BOOLEAN
  /\ pc \in [Threads -> {"idle", "verify", "read", "cas", "spin", "inc"}]
  /\ todo \in [Threads -> Seq(Submissions)]
  /\ seen \in [Threads -> Nat]

\* Slots that a worker may read hold a chain: ExecuteUntilNoWork dereferences
\* pChains[i] for every i below cChains without a test.
NoHole == \A l \in Levels : \A i \in Slots : i < cChains[l] => pChains[l][i] # NoChain

\* A submission occupies at most one slot, and one of its chain's level: one
\* entered twice would be executed twice, one overwritten would never run.
OneSlotEach ==
  \A l, m \in Levels : \A i, j \in Slots :
    pChains[l][i] # NoChain =>
      /\ Priority[pChains[l][i].chain] = l
      /\ pChains[l][i] = pChains[m][j] => l = m /\ i = j

\* The compare-and-swap never addresses a slot past the end of pChains, though
\* the count it uses was tested against kMaxChains before it was read.
ClaimInBounds == \A t \in Threads : pc[t] = "cas" => seen[t] < kMaxChains

\* Every submission that was not refused has an entry of m_ChainStats to
\* itself, inside the array.
OwnStats ==
  \A r, s \in accepted : r.index < kMaxChains /\ (r.index = s.index => r = s)

Published(s) ==
  \E i \in Slots : i < cChains[Priority[s.chain]] /\ pChains[Priority[s.chain]][i] = s
InFlight(s) == \E t \in Threads : \E i \in DOMAIN todo[t] : todo[t][i] = s

\* Unless the scheduler is quitting, what Submit accepted is published or still
\* being published: none is dropped, however the submitters interleave, and
\* also when two of them submit one chain.
NoLostChain == ~bIsQuitting => \A s \in accepted : Published(s) \/ InFlight(s)

\* A worker that saw a chain in a slot below cChains may keep the index: what
\* is published is never moved, replaced or withdrawn within a frame.
Stable ==
  [][\A l \in Levels : \A i \in Slots :
       i < cChains[l] => cChains'[l] >= cChains[l] /\ pChains'[l][i] = pChains[l][i]]_vars

\* A Submit call returns: a thread whose swap failed is let through once the
\* thread that took the slot has incremented the count.
SubmitReturns == \A t \in Threads : pc[t] # "idle" ~> pc[t] = "idle"

-----------------------------------------------------------------------------

\* What publication promises, with its steps hidden: each level is a log to
\* which the submissions that were accepted are appended one at a time.
log == [l \in Levels |-> [i \in 1 .. cChains[l] |-> pChains[l][i - 1]]]
Log == INSTANCE ChainLog WITH log <- log, accepted <- accepted
AppendsAtomically == Log!Spec
=============================================================================
