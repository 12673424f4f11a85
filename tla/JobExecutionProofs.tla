------------------------- MODULE JobExecutionProofs -------------------------
(***************************************************************************)
(* Proofs about JobExecution for every number of workers, chains, jobs and *)
(* levels and every tree of chains.                                        *)
(*                                                                         *)
(* None of the properties is inductive, and each needs the ones before it. *)
(* ClaimInv says who holds which job; ShareInv that m_cRemaining is not    *)
(* below what has not been subtracted yet, so that a worker whose share is *)
(* all of it knows every job of the chain has returned; MainInv what the   *)
(* main thread has seen on its way down the levels; ReleaseInv where the   *)
(* dependents of a finished chain are.                                     *)
(*                                                                         *)
(* The counter is compared to a sum of shares.  A sum over the workers     *)
(* would be a recursive definition, so ShareInv says there are sets with   *)
(* these many members: the jobs whose worker has subtracted its share, and *)
(* those each worker in the chain has run itself.                          *)
(***************************************************************************)
EXTENDS JobExecution, FiniteSetTheorems, SequenceTheorems, TLAPS

Places == {"submit", "fix", "publish", "check", "mark", "level", "pick", "higher", "leave",
           "enter", "claim", "run", "deps", "look", "returned"}

\* A worker there has read the count of the level it is at, or 0.
Walking == {"submit", "fix", "publish", "pick", "enter", "claim", "run", "deps"}

\* Every job started is claimed, and claimed once.
JobsInv ==
  /\ claimed \in [Chains -> SUBSET Nat] /\ done \in [Chains -> SUBSET Nat]
  /\ \A c \in Chains : claimed[c] \subseteq Jobs(c)
  /\ runs = [c \in Chains |-> [j \in Jobs(c) |-> IF j \in claimed[c] THEN 1 ELSE 0]]

VarsInv ==
  /\ pChains \in [Levels -> Seq(Chains)]
  /\ cRemaining \in [Chains -> Int]
  /\ bIsWorking \in [Workers -> BOOLEAN]
  /\ executePc \in [Workers -> Places]
  /\ uCurrentChain \in [Workers -> [Levels -> Nat]]
  /\ uPriority \in [Workers -> Levels] /\ uCheck \in [Workers -> Levels]
  /\ cSeen \in [Workers -> Nat]
  /\ chain \in [Workers -> Chains \cup {NoChain}]
  /\ pos \in [Workers -> Nat] /\ cExecuted \in [Workers -> Nat]
  /\ arming \in [Workers -> Seq(Chains)] /\ pending \in [Workers -> Seq(Chains)]
  /\ look \in Nat \ {0}

\* What is known of a worker from where it is.
At(w) ==
  /\ executePc[w] \in {"submit", "look", "returned"} => w = 0
  /\ executePc[w] = "submit" => chain[w] = NoChain
  /\ executePc[w] \in {"enter", "claim", "run", "deps"} => chain[w] \in Chains
  /\ executePc[w] = "fix" => arming[w] # <<>> /\ Array(w) # <<>>
  /\ executePc[w] = "fix" /\ chain[w] = NoChain => w = 0
  /\ IF executePc[w] = "publish" THEN pending[w] # <<>> ELSE pending[w] = <<>>
  /\ executePc[w] = "deps" => Deps[chain[w]] # <<>>
  /\ executePc[w] = "leave" => uPriority[w] = 0
  /\ executePc[w] \in Walking => cSeen[w] <= Len(pChains[uPriority[w]])
  /\ executePc[w] = "run" => pos[w] < cJobs[chain[w]]

TypeInv == JobsInv /\ VarsInv /\ \A w \in Workers : At(w)

\* The job worker w is about to run or running.
Mine(w) == JobAt(w, chain[w], pos[w])

\* A claimed job is run by one worker until it is done, and a worker has gone
\* past claimed jobs only.
ClaimInv ==
  /\ \A c \in Chains : done[c] \subseteq claimed[c]
  /\ \A w \in Workers : executePc[w] = "run" =>
       Mine(w) \in claimed[chain[w]] \ done[chain[w]]
  /\ \A w, v \in Workers :
       executePc[w] = "run" /\ executePc[v] = "run" /\ chain[w] = chain[v] /\ Mine(w) = Mine(v) => w = v
  /\ \A c \in Chains : \A j \in claimed[c] \ done[c] :
       \E w \in Workers : executePc[w] = "run" /\ chain[w] = c /\ Mine(w) = j
  /\ \A w \in Workers : executePc[w] \in {"claim", "run"} =>
       \A p \in 0 .. pos[w] - 1 : p < cJobs[chain[w]] => JobAt(w, chain[w], p) \in claimed[chain[w]]

-----------------------------------------------------------------------------
(* Who has which share of m_cRemaining. *)

\* Worker w is in the loops of ExecuteJobs of c.
Within(w, c) == chain[w] = c /\ executePc[w] \in {"claim", "run"}

\* own[w] are the jobs of c worker w has run and not yet subtracted, retired
\* those that have been; only a chain that is submitted twice counts too much.
Shares(c, own, retired) ==
  /\ own \in [Workers -> SUBSET Jobs(c)] /\ retired \in SUBSET Jobs(c)
  /\ \A w \in Workers :
       /\ own[w] \cap retired = {}
       /\ \A v \in Workers : v # w => own[w] \cap own[v] = {}
       /\ IF Within(w, c) THEN Cardinality(own[w]) = cExecuted[w] ELSE own[w] = {}
  /\ done[c] = retired \cup UNION {own[w] : w \in Workers}
  /\ cJobs[c] - Cardinality(retired) <= cRemaining[c]
  /\ c \in Range(Roots) => cJobs[c] - Cardinality(retired) = cRemaining[c]

Account(c) ==
  \E own \in [Workers -> SUBSET Jobs(c)], retired \in SUBSET Jobs(c) : Shares(c, own, retired)

\* Submitted: in a level, or in the hands of a worker that is to put it there.
Handed(c) == c \in Published \/ \E w \in Workers : c \in Range(pending[w])

\* The main thread has not armed the roots yet.
Arming == executePc[0] = "submit" \/ (executePc[0] = "fix" /\ chain[0] = NoChain)

\* What a worker arms is no root, unless it arms for the main thread; and what it
\* is to submit is armed behind it.
FixInv ==
  /\ Arming => \A c \in Chains : ~Handed(c)
  /\ \A w \in Workers : executePc[w] = "fix" =>
       /\ chain[w] # NoChain => Range(arming[w]) \cap Range(Roots) = {}
       /\ \A c \in Range(Array(w)) :
            c \in Range(arming[w]) \/ Handed(c) \/ cRemaining[c] = cJobs[c]

ShareInv ==
  /\ \A w \in Workers : chain[w] # NoChain => chain[w] \in Published
  /\ \A c \in Chains : claimed[c] # {} => c \in Published
  /\ \A c \in Chains : Handed(c) => Account(c)
  /\ \A w \in Workers : executePc[w] \in {"deps", "fix"} /\ chain[w] # NoChain =>
       done[chain[w]] = Jobs(chain[w])
  /\ \A c \in Chains : \A d \in Range(Deps[c]) : Handed(d) => done[c] = Jobs(c)
  /\ FixInv
  /\ \A c \in Chains : cRemaining[c] >= 0

-----------------------------------------------------------------------------
(* What the main thread has seen. *)

\* It is still submitting the roots.
Fresh == Arming \/ (executePc[0] = "publish" /\ chain[0] = NoChain)

\* It has been through every root of level l.
Seen(l) ==
  \A i \in 1 .. Len(pChains[l]) : pChains[l][i] \in Range(Roots) => i <= uCurrentChain[0][l]

\* A root is in the main thread's hands until it is in a level.
HandInv ==
  /\ ~Arming => Range(Roots) \subseteq Published \cup Range(pending[0])
  /\ ~Fresh => Range(Roots) \subseteq Published
  /\ \A w \in Workers : w # 0 \/ ~Fresh => Range(pending[w]) \cap Range(Roots) = {}

\* Every job of a chain the main thread has been through is claimed.
VisitInv ==
  /\ \A w \in Workers : \A l \in Levels : uCurrentChain[w][l] <= Len(pChains[l])
  /\ \A l \in Levels : \A i \in 1 .. Len(pChains[l]) : i <= uCurrentChain[0][l] =>
       \/ claimed[pChains[l][i]] = Jobs(pChains[l][i])
       \/ chain[0] = pChains[l][i] /\ executePc[0] \in {"enter", "claim", "run"}

\* Going down the levels it leaves no root behind.
SeenInv ==
  /\ ~Fresh /\ executePc[0] \notin {"check", "mark"} => \A l \in Levels : l > uPriority[0] => Seen(l)
  /\ ~Fresh /\ executePc[0] \in {"pick", "enter", "claim", "run", "deps", "fix", "publish"} =>
       \A i \in 1 .. Len(pChains[uPriority[0]]) :
         pChains[uPriority[0]][i] \in Range(Roots) => i <= cSeen[0]
  /\ executePc[0] \in {"higher", "leave"} => Seen(uPriority[0])
  /\ executePc[0] \in {"look", "returned"} => \A l \in Levels : Seen(l)

\* A worker whose flag was clear after that runs no job of a root again.
FlagInv ==
  /\ executePc[0] # "look" => look = 1
  /\ \A w \in Workers : w # 0 /\ executePc[w] \notin {"check", "mark"} => bIsWorking[w]
  /\ \A w \in Workers : w # 0 /\ ((executePc[0] = "look" /\ w < look) \/ executePc[0] = "returned") =>
       ~(executePc[w] = "run" /\ chain[w] \in Range(Roots))

MainInv == HandInv /\ VisitInv /\ SeenInv /\ FlagInv

-----------------------------------------------------------------------------
(* Where the dependents of a finished root are. *)

ReleaseInv ==
  \A c \in Range(Roots) : Handed(c) /\ cRemaining[c] = 0 =>
    \A d \in Range(Deps[c]) :
      \/ d \in Published
      \/ \E w \in Workers :
           /\ chain[w] = c
           /\ executePc[w] \in {"deps", "fix"} \/ (executePc[w] = "publish" /\ d \in Range(pending[w]))
-----------------------------------------------------------------------------
(* Numbers. *)

\* A set of numbers has a least member, and CHOOSE finds it.
LEMMA Least ==
  ASSUME NEW S \in SUBSET Nat, S # {}
  PROVE  LET m == CHOOSE q \in S : \A r \in S : q <= r
         IN m \in S /\ \A r \in S : m <= r
<1> DEFINE R == OpToRel(<, Nat)
<1>0. R = {ss \in Nat \X Nat : ss[1] < ss[2]}
  BY DEF OpToRel
<1>1. IsWellFoundedOn(R, Nat)
  BY NatLessThanWellFounded
<1> HIDE DEF R
<1>2. \E q \in S : \A r \in S : <<r, q>> \notin R
  BY <1>1, WFMin
<1>3. \A q, r \in Nat : r < q => <<r, q>> \in R
  BY <1>0
<1>4. \E q \in S : \A r \in S : q <= r
  <2>1. PICK q \in S : \A r \in S : <<r, q>> \notin R
    BY <1>2
  <2>2. ASSUME NEW r \in S PROVE q <= r
    <3>1. q \in Nat /\ r \in Nat
      OBVIOUS
    <3>2. ~(r < q)
      BY <1>3, <2>1, <3>1
    <3> QED BY <3>1, <3>2
  <2> QED BY <2>2
<1> DEFINE m == CHOOSE q \in S : \A r \in S : q <= r
<1>5. m \in S /\ \A r \in S : m <= r
  <2> HIDE DEF R
  <2> QED BY <1>4
<1> QED BY <1>5

LEMMA Rotation ==
  ASSUME NEW n \in Nat \ {0}, NEW u \in 0 .. n - 1, NEW p \in 0 .. n - 1
  PROVE  (u + p) % n = IF u + p < n THEN u + p ELSE u + p - n
OBVIOUS

LEMMA Remainder == ASSUME NEW n \in Nat \ {0}, NEW a \in Nat PROVE a % n \in 0 .. n - 1
OBVIOUS

\* Within a chain, JobAt turns its jobs by the worker's offset.
LEMMA JobAtTurns ==
  ASSUME NEW w \in Workers, NEW c \in Chains, NEW p \in Jobs(c)
  PROVE  LET u == w * kJobsPerFence
         IN JobAt(w, c, p) = IF u < cJobs[c] /\ u + p < cJobs[c] THEN u + p
                             ELSE IF u < cJobs[c] THEN u + p - cJobs[c] ELSE p
<1> USE JobExecutionAssumption
<1> DEFINE n == cJobs[c]
           u == w * kJobsPerFence
<1>1. n \in Nat \ {0} /\ p \in Nat /\ p < n
  BY DEF Jobs
<1>2. u \in Nat
  BY DEF Workers
<1>3. JobAt(w, c, p) = IF u < n THEN (u + p) % n ELSE p
  BY DEF JobAt
<1> HIDE DEF n, u
<1>4. u < n => (u + p) % n = IF u + p < n THEN u + p ELSE u + p - n
  <2> SUFFICES ASSUME u < n PROVE (u + p) % n = IF u + p < n THEN u + p ELSE u + p - n
    OBVIOUS
  <2>1. u \in 0 .. n - 1 /\ p \in 0 .. n - 1
    BY <1>1, <1>2
  <2> QED BY <1>1, <2>1, Rotation
<1>5. JobAt(w, c, p) = IF u < n /\ u + p < n THEN u + p
                       ELSE IF u < n THEN u + p - n ELSE p
  BY <1>3, <1>4
<1> QED BY <1>5 DEF n, u

LEMMA JobAtType ==
  ASSUME NEW w \in Workers, NEW c \in Chains, NEW p \in Jobs(c)
  PROVE  JobAt(w, c, p) \in Jobs(c)
<1> DEFINE u == w * kJobsPerFence
<1>1. u \in Nat /\ cJobs[c] \in Nat
  BY JobExecutionAssumption DEF Workers
<1>2. JobAt(w, c, p) = IF u < cJobs[c] /\ u + p < cJobs[c] THEN u + p
                       ELSE IF u < cJobs[c] THEN u + p - cJobs[c] ELSE p
  BY JobAtTurns
<1> HIDE DEF u
<1> QED BY <1>1, <1>2 DEF Jobs

\* The scan covers the jobs, and finds none behind them.
LEMMA ScannedType ==
  ASSUME NEW w \in Workers, NEW c \in Chains
  PROVE  /\ Scanned(w, c) \in Nat /\ Jobs(c) \subseteq 0 .. Scanned(w, c) - 1
         /\ \A p \in 0 .. Scanned(w, c) - 1 : JobAt(w, c, p) \in Jobs(c) => p \in Jobs(c)
<1>1. w * kJobsPerFence \in Nat /\ cJobs[c] \in Nat \ {0}
  BY JobExecutionAssumption DEF Workers
<1>2. Scanned(w, c) \in Nat /\ Jobs(c) \subseteq 0 .. Scanned(w, c) - 1
  BY <1>1 DEF Scanned, Jobs
<1>3. ASSUME NEW p \in 0 .. Scanned(w, c) - 1, JobAt(w, c, p) \in Jobs(c) PROVE p \in Jobs(c)
  <2>1. CASE w * kJobsPerFence < cJobs[c]
    BY <1>1, <2>1 DEF Scanned, Jobs
  <2>2. CASE ~(w * kJobsPerFence < cJobs[c])
    BY <1>1, <1>3, <2>2 DEF JobAt
  <2> QED BY <2>1, <2>2
<1> QED BY <1>2, <1>3

\* Every job is at one of the places.
LEMMA JobAtOnto ==
  ASSUME NEW w \in Workers, NEW c \in Chains, NEW j \in Jobs(c)
  PROVE  \E p \in Jobs(c) : JobAt(w, c, p) = j
<1> DEFINE u == w * kJobsPerFence
           p == IF u < cJobs[c] THEN (IF j >= u THEN j - u ELSE j - u + cJobs[c]) ELSE j
<1>1. u \in Nat /\ cJobs[c] \in Nat
  BY JobExecutionAssumption DEF Workers
<1>2. \A q \in Jobs(c) :
        JobAt(w, c, q) = IF u < cJobs[c] /\ u + q < cJobs[c] THEN u + q
                         ELSE IF u < cJobs[c] THEN u + q - cJobs[c] ELSE q
  BY JobAtTurns
<1> HIDE DEF u
<1>3. p \in Jobs(c)
  BY <1>1 DEF Jobs
<1>4. JobAt(w, c, p) = j
  BY <1>1, <1>2, <1>3 DEF Jobs
<1> QED BY <1>3, <1>4
-----------------------------------------------------------------------------
(* Types, and what is known at each place. *)

LEMMA MainIsWorker == 0 \in Workers
BY JobExecutionAssumption DEF Workers

LEMMA GotoPlace ==
  ASSUME executePc \in [Workers -> Places], NEW w \in Workers, NEW p \in Places, Goto(w, p)
  PROVE  executePc' \in [Workers -> Places] /\ executePc'[w] = p /\ \A v \in Workers \ {w} : executePc'[v] = executePc[v]
BY DEF Goto

LEMMA LenEmpty == Len(<<>>) = 0
OBVIOUS

LEMMA TailOfMore ==
  ASSUME NEW S, NEW s \in Seq(S), s # <<>>
  PROVE  /\ Head(s) \in S /\ Tail(s) \in Seq(S)
         /\ Len(s) > 1 => Tail(s) # <<>>
         /\ ~(Len(s) > 1) => Tail(s) = <<>>
<1>1. /\ Len(s) \in Nat \ {0} /\ Head(s) \in S
      /\ Tail(s) \in Seq(S) /\ Len(Tail(s)) = Len(s) - 1
  BY HeadTailProperties, EmptySeq
<1>2. Tail(s) = <<>> <=> Len(Tail(s)) = 0
  BY <1>1, EmptySeq, Zenon
<1>3. Len(s) > 1 <=> Len(Tail(s)) # 0
  <2>1. PICK n \in Nat \ {0} : n = Len(s)
    BY <1>1
  <2>2. Len(Tail(s)) = n - 1
    BY <1>1, <2>1
  <2>3. n > 1 <=> n - 1 # 0
    OBVIOUS
  <2> QED BY <2>1, <2>2, <2>3, Zenon
<1>4. (Len(s) > 1 => Tail(s) # <<>>) /\ (~(Len(s) > 1) => Tail(s) = <<>>)
  BY <1>2, <1>3, Zenon
<1> QED BY <1>1, <1>4, Zenon

LEMMA TypeInit == ExecutionInit => TypeInv
<1> SUFFICES ASSUME ExecutionInit PROVE TypeInv
  OBVIOUS
<1> USE JobExecutionAssumption
<1>1. 0 \in Workers /\ 0 \in Levels
  BY DEF Workers, Levels
<1>2. JobsInv
  BY DEF ExecutionInit, JobsInv, Jobs
<1>3. VarsInv
  BY <1>1 DEF ExecutionInit, VarsInv, Places
<1>4. \A w \in Workers : At(w)
  BY <1>1 DEF ExecutionInit, At, Walking
<1> QED BY <1>2, <1>3, <1>4 DEF TypeInv

\* A step of w leaves what is known of the others: levels only grow.
LEMMA AtOthers ==
  ASSUME VarsInv, \A v \in Workers : At(v), NEW w \in Workers, At(w)',
         \A l \in Levels : Len(pChains[l]) \in Nat /\ Len(pChains'[l]) \in Nat
                           /\ Len(pChains[l]) <= Len(pChains'[l]),
         \A v \in Workers \ {w} :
           /\ executePc'[v] = executePc[v] /\ chain'[v] = chain[v]
           /\ arming'[v] = arming[v] /\ pending'[v] = pending[v]
           /\ uPriority'[v] = uPriority[v] /\ cSeen'[v] = cSeen[v] /\ pos'[v] = pos[v]
  PROVE  \A v \in Workers : At(v)'
<1> SUFFICES ASSUME NEW v \in Workers, v # w PROVE At(v)'
  OBVIOUS
<1>1. uPriority[v] \in Levels /\ cSeen[v] \in Nat
  BY DEF VarsInv
<1>2. /\ executePc'[v] = executePc[v] /\ chain'[v] = chain[v]
      /\ arming'[v] = arming[v] /\ pending'[v] = pending[v]
      /\ uPriority'[v] = uPriority[v] /\ cSeen'[v] = cSeen[v] /\ pos'[v] = pos[v]
  OBVIOUS
<1>3. cSeen[v] <= Len(pChains[uPriority[v]]) => cSeen'[v] <= Len(pChains'[uPriority'[v]])
  BY <1>1, <1>2
<1>4. At(v)
  OBVIOUS
<1> QED BY <1>2, <1>3, <1>4 DEF At, Array

\* The levels stay as they are in all steps but Publish.
LEMMA LevelsStay ==
  ASSUME VarsInv, UNCHANGED pChains
  PROVE  \A l \in Levels : Len(pChains[l]) \in Nat /\ Len(pChains'[l]) \in Nat
                           /\ Len(pChains[l]) <= Len(pChains'[l])
<1>1. \A l \in Levels : pChains[l] \in Seq(Chains)
  BY DEF VarsInv
<1> QED BY <1>1

\* What Claim claims: the first job on the worker's way that nobody has.
LEMMA ClaimFacts ==
  ASSUME TypeInv, NEW w \in Workers, Claim(w)
  PROVE  \E p \in Jobs(chain[w]) :
           LET c == chain[w]
               j == JobAt(w, c, p)
           IN /\ c \in Chains /\ j \in Jobs(c) /\ j \notin claimed[c]
              /\ pos[w] <= p
              /\ \A q \in pos[w] .. p - 1 : JobAt(w, c, q) \in claimed[c]
              /\ claimed' = [claimed EXCEPT ![c] = @ \cup {j}]
              /\ runs' = [runs EXCEPT ![c][j] = @ + 1]
              /\ pos' = [pos EXCEPT ![w] = p]
<1> DEFINE c == chain[w]
           p == CHOOSE q \in Unclaimed(w) : \A r \in Unclaimed(w) : q <= r
           j == JobAt(w, c, p)
<1>1. c \in Chains /\ pos[w] \in Nat /\ cJobs[c] \in Nat
  BY JobExecutionAssumption DEF TypeInv, VarsInv, At, Claim
<1>2. Unclaimed(w) \in SUBSET Nat /\ Unclaimed(w) # {}
  BY <1>1, ScannedType DEF Unclaimed, Claim
<1>3. p \in Unclaimed(w) /\ \A r \in Unclaimed(w) : p <= r
  BY <1>2, Least
<1>4. /\ claimed' = [claimed EXCEPT ![c] = @ \cup {j}]
      /\ runs' = [runs EXCEPT ![c][j] = @ + 1]
      /\ pos' = [pos EXCEPT ![w] = p]
  BY DEF Claim, Taken
<1> HIDE DEF p
<1>5. /\ p \in pos[w] .. Scanned(w, c) - 1 /\ Scanned(w, c) \in Nat /\ p \in Nat /\ pos[w] <= p
      /\ j \in Jobs(c) /\ j \notin claimed[c]
  BY <1>1, <1>2, <1>3, ScannedType DEF Unclaimed, Takes
<1>6. p \in Jobs(c)
  BY <1>1, <1>5, ScannedType
<1>7. ASSUME NEW q \in pos[w] .. p - 1 PROVE JobAt(w, c, q) \in claimed[c]
  <2>1. q \in pos[w] .. Scanned(w, c) - 1 /\ ~(p <= q)
    BY <1>1, <1>5
  <2>2. ~Takes(c, JobAt(w, c, q))
    BY <1>3, <2>1 DEF Unclaimed
  <2>3. q \in Jobs(c)
    BY <1>1, <1>5, <1>6 DEF Jobs
  <2>4. JobAt(w, c, q) \in Jobs(c)
    BY <1>1, <2>3, JobAtType
  <2> QED BY <2>2, <2>4 DEF Takes
<1> QED BY <1>1, <1>4, <1>5, <1>6, <1>7

LEMMA RangeOf ==
  ASSUME NEW S, NEW s \in Seq(S)
  PROVE  Range(s) = {s[i] : i \in 1 .. Len(s)} /\ Range(s) \subseteq S
<1>1. DOMAIN s = 1 .. Len(s)
  OBVIOUS
<1>2. Range(s) = {s[i] : i \in 1 .. Len(s)}
  BY <1>1, Zenon DEF Range
<1>3. \A i \in 1 .. Len(s) : s[i] \in S
  BY ElementOfSeq
<1> QED BY <1>2, <1>3, Zenon

\* The range of a sequence that is not empty.
LEMMA RangeOfMore ==
  ASSUME NEW S, NEW s \in Seq(S), s # <<>>
  PROVE  Range(s) = {Head(s)} \cup Range(Tail(s))
<1>1. /\ Len(s) \in Nat \ {0} /\ Head(s) = s[1]
      /\ Tail(s) \in Seq(S) /\ Len(Tail(s)) = Len(s) - 1
      /\ \A i \in 1 .. Len(s) - 1 : Tail(s)[i] = s[i + 1]
  BY HeadTailProperties, EmptySeq
<1>2. ASSUME NEW i \in 1 .. Len(s), i # 1 PROVE s[i] \in Range(Tail(s))
  <2>1. i - 1 \in 1 .. Len(Tail(s)) /\ Tail(s)[i - 1] = s[i]
    BY <1>1, <1>2
  <2>2. Range(Tail(s)) = {Tail(s)[k] : k \in 1 .. Len(Tail(s))}
    BY <1>1, RangeOf
  <2> QED BY <2>1, <2>2
<1>3. ASSUME NEW i \in 1 .. Len(Tail(s)) PROVE Tail(s)[i] \in Range(s)
  <2>1. i + 1 \in 1 .. Len(s) /\ Tail(s)[i] = s[i + 1]
    BY <1>1
  <2> QED BY <1>1, <2>1 DEF Range
<1>4. 1 \in 1 .. Len(s)
  BY <1>1
<1>5. Range(s) = {s[i] : i \in 1 .. Len(s)} /\ Range(Tail(s)) = {Tail(s)[i] : i \in 1 .. Len(Tail(s))}
  BY <1>1, RangeOf
<1> QED BY <1>1, <1>2, <1>3, <1>4, <1>5

\* What FixForSubmit does, of the chain it has come to.
LEMMA FixFacts ==
  ASSUME TypeInv, NEW w \in Workers, FixForSubmit(w)
  PROVE  LET c == Head(arming[w])
         IN /\ c \in Chains /\ cRemaining' = [cRemaining EXCEPT ![c] = cJobs[c]]
            /\ cRemaining' \in [Chains -> Int]
            /\ arming' \in [Workers -> Seq(Chains)] /\ pending' \in [Workers -> Seq(Chains)]
            /\ executePc' \in [Workers -> Places]
            /\ Range(arming[w]) \subseteq {c} \cup Range(arming'[w])
            /\ c \in Range(arming[w]) /\ pending[w] = <<>>
            /\ Range(arming'[w]) \subseteq Range(Deps[c]) \cup Range(arming[w])
            /\ \/ /\ executePc'[w] = "publish" /\ arming'[w] = <<>>
                  /\ pending'[w] = Array(w) /\ pending'[w] # <<>>
               \/ executePc'[w] = "fix" /\ arming'[w] # <<>> /\ pending'[w] = pending[w]
            /\ \A v \in Workers \ {w} :
                 executePc'[v] = executePc[v] /\ arming'[v] = arming[v] /\ pending'[v] = pending[v]
<1> DEFINE c == Head(arming[w])
           t == Deps[c] \o Tail(arming[w])
<1>1. /\ arming \in [Workers -> Seq(Chains)] /\ pending \in [Workers -> Seq(Chains)]
      /\ cRemaining \in [Chains -> Int] /\ executePc \in [Workers -> Places]
      /\ arming[w] \in Seq(Chains) /\ arming[w] # <<>> /\ Array(w) # <<>>
      /\ Array(w) \in Seq(Chains) /\ executePc[w] = "fix" /\ pending[w] = <<>>
  BY JobExecutionAssumption DEF TypeInv, VarsInv, At, FixForSubmit, Array
<1>2. c \in Chains /\ Tail(arming[w]) \in Seq(Chains)
  BY <1>1, TailOfMore
<1>3. Deps[c] \in Seq(Chains) /\ cJobs[c] \in Int
  BY <1>2, JobExecutionAssumption
<1>4. t \in Seq(Chains) /\ Range(t) = Range(Deps[c]) \cup Range(Tail(arming[w]))
  <2>1. \A a, b \in Seq(Chains) : Range(a \o b) = Range(a) \cup Range(b)
    BY RangeConcatenation
  <2>2. t \in Seq(Chains)
    BY <1>2, <1>3
  <2> QED BY <1>2, <1>3, <2>1, <2>2
<1>5. Range(arming[w]) = {c} \cup Range(Tail(arming[w]))
  BY <1>1, RangeOfMore
<1>6. /\ cRemaining' = [cRemaining EXCEPT ![c] = cJobs[c]]
      /\ arming' = [arming EXCEPT ![w] = t]
      /\ \/ t = <<>> /\ pending' = [pending EXCEPT ![w] = Array(w)] /\ Goto(w, "publish")
         \/ t # <<>> /\ UNCHANGED <<pending, executePc>>
  BY DEF FixForSubmit
<1> HIDE DEF c, t
<1>7. /\ cRemaining' \in [Chains -> Int] /\ arming' \in [Workers -> Seq(Chains)]
      /\ arming'[w] = t /\ \A v \in Workers \ {w} : arming'[v] = arming[v]
  BY <1>1, <1>2, <1>3, <1>4, <1>6
<1>8. /\ pending' \in [Workers -> Seq(Chains)] /\ executePc' \in [Workers -> Places]
      /\ \A v \in Workers \ {w} : executePc'[v] = executePc[v] /\ pending'[v] = pending[v]
      /\ \/ t = <<>> /\ executePc'[w] = "publish" /\ pending'[w] = Array(w)
         \/ t # <<>> /\ executePc'[w] = "fix" /\ pending'[w] = pending[w]
  BY <1>1, <1>6 DEF Goto, Places
<1> QED
  BY <1>1, <1>2, <1>4, <1>5, <1>6, <1>7, <1>8 DEF c

LEMMA TypeStep == TypeInv /\ [ExecutionNext]_executionVars => TypeInv'
<1> SUFFICES ASSUME TypeInv, [ExecutionNext]_executionVars PROVE TypeInv'
  OBVIOUS
<1>0. /\ VarsInv /\ JobsInv /\ \A v \in Workers : At(v)
      /\ 0 \in Workers /\ Top \in Levels /\ 0 \in Levels /\ NoChain \notin Chains
  BY JobExecutionAssumption DEF TypeInv, Workers, Levels, Top
<1>1. CASE SubmitRoots
  <2>same. UNCHANGED <<pChains, claimed, runs, done, bIsWorking,
                      uCurrentChain, uPriority, uCheck, cSeen,
                      cRemaining, chain, pos, cExecuted, pending, look>>
    BY <1>1 DEF SubmitRoots, shared, loops, jobs
  <2>executePc. executePc' \in [Workers -> Places]
    BY <1>0, <1>1 DEF SubmitRoots, VarsInv, Goto, Places
  <2>arming. arming' \in [Workers -> Seq(Chains)]
    BY <1>0, <1>1, JobExecutionAssumption DEF SubmitRoots, VarsInv, Goto
  <2>executionVars. VarsInv'
    BY <1>0, <2>same, <2>executePc, <2>arming DEF VarsInv
  <2>jobs. JobsInv'
    BY <1>0, <2>same DEF JobsInv
  <2>at. At(0)'
    BY <1>0, <1>1, <2>same DEF SubmitRoots, At, Array, Walking, VarsInv, Goto
  <2>len. \A l \in Levels : Len(pChains[l]) \in Nat /\ Len(pChains'[l]) \in Nat
                            /\ Len(pChains[l]) <= Len(pChains'[l])
    BY <1>0, <2>same, LevelsStay
  <2>move. \A v \in Workers \ {0} : executePc'[v] = executePc[v] /\ arming'[v] = arming[v]
    BY <1>0, <1>1 DEF SubmitRoots, VarsInv, Goto
  <2>rest. \A v \in Workers \ {0} :
          /\ executePc'[v] = executePc[v] /\ chain'[v] = chain[v]
          /\ arming'[v] = arming[v] /\ pending'[v] = pending[v]
          /\ uPriority'[v] = uPriority[v] /\ cSeen'[v] = cSeen[v] /\ pos'[v] = pos[v]
    BY <2>same, <2>move
  <2> QED BY <1>0, <2>executionVars, <2>jobs, <2>at, <2>len, <2>rest, AtOthers DEF TypeInv
<1>2. ASSUME NEW w \in Workers, SubmitDeps(w) PROVE TypeInv'
  <2>1. Deps[chain[w]] \in Seq(Chains) /\ Deps[chain[w]] # <<>>
    BY <1>0, <1>2, JobExecutionAssumption DEF SubmitDeps, At
  <2>same. UNCHANGED <<pChains, claimed, runs, done, bIsWorking,
                      uCurrentChain, uPriority, uCheck, cSeen,
                      cRemaining, chain, pos, cExecuted, pending, look>>
    BY <1>2 DEF SubmitDeps, shared, loops, jobs
  <2>executePc. executePc' \in [Workers -> Places]
    BY <1>0, <1>2, <2>1 DEF SubmitDeps, VarsInv, Goto, Places
  <2>arming. arming' \in [Workers -> Seq(Chains)]
    BY <1>0, <1>2, <2>1, JobExecutionAssumption DEF SubmitDeps, VarsInv, Goto
  <2>executionVars. VarsInv'
    BY <1>0, <2>same, <2>executePc, <2>arming DEF VarsInv
  <2>jobs. JobsInv'
    BY <1>0, <2>same DEF JobsInv
  <2>at. At(w)'
    BY <1>0, <1>2, <2>1, <2>same DEF SubmitDeps, At, Array, Walking, VarsInv, Goto
  <2>len. \A l \in Levels : Len(pChains[l]) \in Nat /\ Len(pChains'[l]) \in Nat
                            /\ Len(pChains[l]) <= Len(pChains'[l])
    BY <1>0, <2>same, LevelsStay
  <2>move. \A v \in Workers \ {w} : executePc'[v] = executePc[v] /\ arming'[v] = arming[v]
    BY <1>0, <1>2 DEF SubmitDeps, VarsInv, Goto
  <2>rest. \A v \in Workers \ {w} :
          /\ executePc'[v] = executePc[v] /\ chain'[v] = chain[v]
          /\ arming'[v] = arming[v] /\ pending'[v] = pending[v]
          /\ uPriority'[v] = uPriority[v] /\ cSeen'[v] = cSeen[v] /\ pos'[v] = pos[v]
    BY <2>same, <2>move
  <2> QED BY <1>0, <2>executionVars, <2>jobs, <2>at, <2>len, <2>rest, AtOthers DEF TypeInv
<1>3. ASSUME NEW w \in Workers, Publish(w) PROVE TypeInv'
  <2>1. pending[w] \in Seq(Chains) /\ pending[w] # <<>>
    BY <1>0, <1>3 DEF Publish, VarsInv, At
  <2>2. /\ Head(pending[w]) \in Chains /\ Tail(pending[w]) \in Seq(Chains)
        /\ Len(pending[w]) > 1 => Tail(pending[w]) # <<>>
        /\ ~(Len(pending[w]) > 1) => Tail(pending[w]) = <<>>
    BY <2>1, TailOfMore
  <2>3. Priority[Head(pending[w])] \in Levels
    BY <2>2, JobExecutionAssumption DEF Levels
  <2>same. UNCHANGED <<claimed, runs, done, cRemaining, bIsWorking,
                      uCurrentChain, uPriority, uCheck, cSeen,
                      chain, pos, cExecuted, arming, look>>
    BY <1>3 DEF Publish, loops, jobs
  <2>executePc. executePc' \in [Workers -> Places]
    BY <1>0, <1>3, <2>1, <2>2, <2>3 DEF Publish, VarsInv, Goto, Places
  <2>pChains. pChains' \in [Levels -> Seq(Chains)]
    <3>1. pChains \in [Levels -> Seq(Chains)]
      BY <1>0 DEF VarsInv
    <3>2. pChains' = [pChains EXCEPT ![Priority[Head(pending[w])]] = Append(@, Head(pending[w]))]
      BY <1>3 DEF Publish
    <3>3. Append(pChains[Priority[Head(pending[w])]], Head(pending[w])) \in Seq(Chains)
      BY <2>2, <2>3, <3>1
    <3> QED BY <3>1, <3>2, <3>3
  <2>pending. pending' \in [Workers -> Seq(Chains)]
    BY <1>0, <1>3, <2>1, <2>2, <2>3 DEF Publish, VarsInv, Goto
  <2>executionVars. VarsInv'
    BY <1>0, <2>same, <2>executePc, <2>pChains, <2>pending DEF VarsInv
  <2>jobs. JobsInv'
    BY <1>0, <2>same DEF JobsInv
  <2>len. \A l \in Levels : Len(pChains[l]) \in Nat /\ Len(pChains'[l]) \in Nat
                            /\ Len(pChains[l]) <= Len(pChains'[l])
    <3>1. \A l \in Levels : pChains[l] \in Seq(Chains)
      BY <1>0 DEF VarsInv
    <3>2. ASSUME NEW l \in Levels
          PROVE  pChains'[l] = pChains[l] \/ pChains'[l] = Append(pChains[l], Head(pending[w]))
      BY <1>0, <1>3 DEF Publish, VarsInv
    <3> QED BY <2>2, <3>1, <3>2
  <2>at. At(w)'
    <3>1. uPriority[w] \in Levels /\ cSeen[w] \in Nat
      BY <1>0 DEF VarsInv
    <3>2. cSeen[w] <= Len(pChains'[uPriority[w]])
      BY <1>0, <1>3, <2>len, <3>1 DEF Publish, At, Walking
    <3>3. /\ executePc'[w] \in {"publish", "check", "pick"}
          /\ IF executePc'[w] = "publish" THEN pending'[w] # <<>> ELSE pending'[w] = <<>>
      BY <1>0, <1>3, <2>2 DEF Publish, VarsInv, Goto
    <3> QED BY <2>same, <3>2, <3>3 DEF At
  <2>move. \A v \in Workers \ {w} : executePc'[v] = executePc[v] /\ pending'[v] = pending[v]
    BY <1>0, <1>3 DEF Publish, VarsInv, Goto
  <2>rest. \A v \in Workers \ {w} :
          /\ executePc'[v] = executePc[v] /\ chain'[v] = chain[v]
          /\ arming'[v] = arming[v] /\ pending'[v] = pending[v]
          /\ uPriority'[v] = uPriority[v] /\ cSeen'[v] = cSeen[v] /\ pos'[v] = pos[v]
    BY <2>same, <2>move
  <2> QED BY <1>0, <2>executionVars, <2>jobs, <2>at, <2>len, <2>rest, AtOthers DEF TypeInv
<1>4. ASSUME NEW w \in Workers, Check(w) PROVE TypeInv'
  <2>same. UNCHANGED <<pChains, claimed, runs, done, cRemaining,
                      bIsWorking, uCurrentChain, uPriority,
                      uCheck, cSeen, chain, pos, cExecuted,
                      arming, pending, look>>
    BY <1>4 DEF Check, shared, loops, jobs, hands
  <2>executePc. executePc' \in [Workers -> Places]
    BY <1>0, <1>4 DEF Check, VarsInv, Goto, Places
  <2>executionVars. VarsInv'
    BY <1>0, <2>same, <2>executePc DEF VarsInv
  <2>jobs. JobsInv'
    BY <1>0, <2>same DEF JobsInv
  <2>at. At(w)'
    BY <1>0, <1>4, <2>same DEF Check, At, Walking, VarsInv, Goto
  <2>len. \A l \in Levels : Len(pChains[l]) \in Nat /\ Len(pChains'[l]) \in Nat
                            /\ Len(pChains[l]) <= Len(pChains'[l])
    BY <1>0, <2>same, LevelsStay
  <2>move. \A v \in Workers \ {w} : executePc'[v] = executePc[v]
    BY <1>0, <1>4 DEF Check, VarsInv, Goto
  <2>rest. \A v \in Workers \ {w} :
          /\ executePc'[v] = executePc[v] /\ chain'[v] = chain[v]
          /\ arming'[v] = arming[v] /\ pending'[v] = pending[v]
          /\ uPriority'[v] = uPriority[v] /\ cSeen'[v] = cSeen[v] /\ pos'[v] = pos[v]
    BY <2>same, <2>move
  <2> QED BY <1>0, <2>executionVars, <2>jobs, <2>at, <2>len, <2>rest, AtOthers DEF TypeInv
<1>5. ASSUME NEW w \in Workers, Mark(w) PROVE TypeInv'
  <2>same. UNCHANGED <<pChains, claimed, runs, done, cRemaining,
                      uCurrentChain, uCheck, cSeen, chain,
                      pos, cExecuted, arming, pending, look>>
    BY <1>5 DEF Mark, jobs, hands
  <2>executePc. executePc' \in [Workers -> Places]
    BY <1>0, <1>5 DEF Mark, VarsInv, Goto, Places
  <2>bIsWorking. bIsWorking' \in [Workers -> BOOLEAN]
    BY <1>0, <1>5 DEF Mark, VarsInv, Goto
  <2>uPriority. uPriority' \in [Workers -> Levels]
    BY <1>0, <1>5 DEF Mark, VarsInv, Goto
  <2>executionVars. VarsInv'
    BY <1>0, <2>same, <2>executePc, <2>bIsWorking, <2>uPriority DEF VarsInv
  <2>jobs. JobsInv'
    BY <1>0, <2>same DEF JobsInv
  <2>at. At(w)'
    BY <1>0, <1>5, <2>same DEF Mark, At, Walking, VarsInv, Goto
  <2>len. \A l \in Levels : Len(pChains[l]) \in Nat /\ Len(pChains'[l]) \in Nat
                            /\ Len(pChains[l]) <= Len(pChains'[l])
    BY <1>0, <2>same, LevelsStay
  <2>move. \A v \in Workers \ {w} : executePc'[v] = executePc[v] /\ uPriority'[v] = uPriority[v]
    BY <1>0, <1>5 DEF Mark, VarsInv, Goto
  <2>rest. \A v \in Workers \ {w} :
          /\ executePc'[v] = executePc[v] /\ chain'[v] = chain[v]
          /\ arming'[v] = arming[v] /\ pending'[v] = pending[v]
          /\ uPriority'[v] = uPriority[v] /\ cSeen'[v] = cSeen[v] /\ pos'[v] = pos[v]
    BY <2>same, <2>move
  <2> QED BY <1>0, <2>executionVars, <2>jobs, <2>at, <2>len, <2>rest, AtOthers DEF TypeInv
<1>6. ASSUME NEW w \in Workers, Level(w) PROVE TypeInv'
  <2>1. uPriority[w] \in Levels /\ Len(pChains[uPriority[w]]) \in Nat
    BY <1>0 DEF VarsInv
  <2>same. UNCHANGED <<pChains, claimed, runs, done, cRemaining,
                      bIsWorking, uCurrentChain, uPriority,
                      uCheck, chain, pos, cExecuted, arming, pending,
                      look>>
    BY <1>6 DEF Level, shared, jobs, hands
  <2>executePc. executePc' \in [Workers -> Places]
    BY <1>0, <1>6, <2>1 DEF Level, VarsInv, Goto, Places
  <2>cSeen. cSeen' \in [Workers -> Nat]
    BY <1>0, <1>6, <2>1 DEF Level, VarsInv, Goto
  <2>executionVars. VarsInv'
    BY <1>0, <2>same, <2>executePc, <2>cSeen DEF VarsInv
  <2>jobs. JobsInv'
    BY <1>0, <2>same DEF JobsInv
  <2>at. At(w)'
    BY <1>0, <1>6, <2>1, <2>same DEF Level, At, Walking, VarsInv, Goto
  <2>len. \A l \in Levels : Len(pChains[l]) \in Nat /\ Len(pChains'[l]) \in Nat
                            /\ Len(pChains[l]) <= Len(pChains'[l])
    BY <1>0, <2>same, LevelsStay
  <2>move. \A v \in Workers \ {w} : executePc'[v] = executePc[v] /\ cSeen'[v] = cSeen[v]
    BY <1>0, <1>6 DEF Level, VarsInv, Goto
  <2>rest. \A v \in Workers \ {w} :
          /\ executePc'[v] = executePc[v] /\ chain'[v] = chain[v]
          /\ arming'[v] = arming[v] /\ pending'[v] = pending[v]
          /\ uPriority'[v] = uPriority[v] /\ cSeen'[v] = cSeen[v] /\ pos'[v] = pos[v]
    BY <2>same, <2>move
  <2> QED BY <1>0, <2>executionVars, <2>jobs, <2>at, <2>len, <2>rest, AtOthers DEF TypeInv
<1>7. ASSUME NEW w \in Workers, Pick(w) PROVE TypeInv'
  <2>1. /\ uPriority[w] \in Levels /\ uCurrentChain[w][uPriority[w]] \in Nat
        /\ cSeen[w] \in Nat /\ cSeen[w] <= Len(pChains[uPriority[w]])
        /\ pChains[uPriority[w]] \in Seq(Chains)
    BY <1>0, <1>7 DEF Pick, VarsInv, At, Walking
  <2>2. uCurrentChain[w][uPriority[w]] < cSeen[w] =>
          pChains[uPriority[w]][ChainIndex(w, uCurrentChain[w][uPriority[w]], cSeen[w]) + 1] \in Chains
    <3> DEFINE n == cSeen[w]
               u == uCurrentChain[w][uPriority[w]]
    <3> SUFFICES ASSUME u < n PROVE pChains[uPriority[w]][ChainIndex(w, u, n) + 1] \in Chains
      OBVIOUS
    <3>1. n \in Nat \ {0} /\ u + w \in Nat
      BY <2>1 DEF Workers
    <3> HIDE DEF n, u
    <3>2. (u + w) % n \in 0 .. n - 1
      BY <3>1
    <3>3. ChainIndex(w, u, n) + 1 \in 1 .. n
      BY <3>1, <3>2 DEF ChainIndex
    <3>4. ChainIndex(w, u, n) + 1 \in 1 .. Len(pChains[uPriority[w]])
      BY <2>1, <3>3 DEF n
    <3> QED BY <2>1, <3>4
  <2>same. UNCHANGED <<pChains, claimed, runs, done, cRemaining,
                      bIsWorking, uPriority, cSeen, pos,
                      cExecuted, arming, pending, look>>
    BY <1>7 DEF Pick, shared, hands
  <2>goto. /\ executePc' \in [Workers -> Places]
           /\ (executePc'[w] = "enter" /\ chain'[w] \in Chains) \/ executePc'[w] = "higher"
    <3>1. executePc \in [Workers -> Places] /\ chain \in [Workers -> Chains \cup {NoChain}]
      BY <1>0 DEF VarsInv
    <3>2. CASE uCurrentChain[w][uPriority[w]] < cSeen[w]
      <4>1. /\ Goto(w, "enter")
            /\ chain' = [chain EXCEPT ![w] = pChains[uPriority[w]]
                           [ChainIndex(w, uCurrentChain[w][uPriority[w]], cSeen[w]) + 1]]
        BY <1>7, <3>2 DEF Pick
      <4>2. "enter" \in Places
        BY DEF Places
      <4>3. executePc' \in [Workers -> Places] /\ executePc'[w] = "enter"
        BY <3>1, <4>1, <4>2, GotoPlace
      <4>4. chain'[w] \in Chains
        BY <2>2, <3>1, <3>2, <4>1
      <4> QED BY <4>3, <4>4
    <3>3. CASE ~(uCurrentChain[w][uPriority[w]] < cSeen[w])
      <4>1. Goto(w, "higher") /\ "higher" \in Places
        BY <1>7, <3>3 DEF Pick, Places
      <4> QED BY <3>1, <4>1, GotoPlace
    <3> QED BY <3>2, <3>3
  <2>executePc. executePc' \in [Workers -> Places]
    BY <2>goto
  <2>uCurrentChain. uCurrentChain' \in [Workers -> [Levels -> Nat]]
    <3>1. uCurrentChain \in [Workers -> [Levels -> Nat]]
      BY <1>0 DEF VarsInv
    <3>2. \/ uCurrentChain' = uCurrentChain
          \/ uCurrentChain' = [uCurrentChain EXCEPT ![w][uPriority[w]] =
                                uCurrentChain[w][uPriority[w]] + 1]
      BY <1>7 DEF Pick
    <3>3. [uCurrentChain[w] EXCEPT ![uPriority[w]] = uCurrentChain[w][uPriority[w]] + 1]
            \in [Levels -> Nat]
      BY <2>1, <3>1
    <3> QED BY <3>1, <3>2, <3>3
  <2>uCheck. uCheck' \in [Workers -> Levels]
    BY <1>0, <1>7, <2>1, <2>2 DEF Pick, VarsInv, Goto
  <2>chain. chain' \in [Workers -> Chains \cup {NoChain}]
    BY <1>0, <1>7, <2>1, <2>2 DEF Pick, VarsInv, Goto
  <2>executionVars. VarsInv'
    BY <1>0, <2>same, <2>executePc, <2>uCurrentChain, <2>uCheck, <2>chain DEF VarsInv
  <2>jobs. JobsInv'
    BY <1>0, <2>same DEF JobsInv
  <2>at. At(w)'
    <3>1. pending[w] = <<>>
      BY <1>0, <1>7 DEF Pick, At
    <3> QED BY <2>1, <2>goto, <2>same, <3>1 DEF At
  <2>len. \A l \in Levels : Len(pChains[l]) \in Nat /\ Len(pChains'[l]) \in Nat
                            /\ Len(pChains[l]) <= Len(pChains'[l])
    BY <1>0, <2>same, LevelsStay
  <2>move. \A v \in Workers \ {w} : executePc'[v] = executePc[v] /\ chain'[v] = chain[v]
    BY <1>0, <1>7 DEF Pick, VarsInv, Goto
  <2>rest. \A v \in Workers \ {w} :
          /\ executePc'[v] = executePc[v] /\ chain'[v] = chain[v]
          /\ arming'[v] = arming[v] /\ pending'[v] = pending[v]
          /\ uPriority'[v] = uPriority[v] /\ cSeen'[v] = cSeen[v] /\ pos'[v] = pos[v]
    BY <2>same, <2>move
  <2> QED BY <1>0, <2>executionVars, <2>jobs, <2>at, <2>len, <2>rest, AtOthers DEF TypeInv
<1>8. ASSUME NEW w \in Workers, Higher(w) PROVE TypeInv'
  <2>1. /\ uPriority[w] > 0 => uPriority[w] - 1 \in Levels
        /\ uCheck[w] > uPriority[w] => uCheck[w] - 1 \in Levels
    <3>1. uPriority[w] \in Levels /\ uCheck[w] \in Levels /\ kNumPriorityLevels \in Nat
      BY <1>0, JobExecutionAssumption DEF VarsInv
    <3> QED BY <3>1 DEF Levels
  <2>same. UNCHANGED <<pChains, claimed, runs, done, cRemaining,
                      bIsWorking, uCurrentChain, cSeen, chain,
                      pos, cExecuted, arming, pending, look>>
    BY <1>8 DEF Higher, shared, jobs, hands
  <2>executePc. executePc' \in [Workers -> Places]
    <3>1. executePc \in [Workers -> Places]
      BY <1>0 DEF VarsInv
    <3>2. Goto(w, "level") \/ Goto(w, "leave") \/ executePc' = executePc
      BY <1>8 DEF Higher
    <3>3. "level" \in Places /\ "leave" \in Places
      BY DEF Places
    <3> QED BY <3>1, <3>2, <3>3, GotoPlace
  <2>uPriority. uPriority' \in [Workers -> Levels]
    BY <1>0, <1>8, <2>1 DEF Higher, VarsInv, Goto
  <2>uCheck. uCheck' \in [Workers -> Levels]
    BY <1>0, <1>8, <2>1 DEF Higher, VarsInv, Goto
  <2>executionVars. VarsInv'
    BY <1>0, <2>same, <2>executePc, <2>uPriority, <2>uCheck DEF VarsInv
  <2>jobs. JobsInv'
    BY <1>0, <2>same DEF JobsInv
  <2>at. At(w)'
    BY <1>0, <1>8, <2>1, <2>same DEF Higher, At, Walking, VarsInv, Goto
  <2>len. \A l \in Levels : Len(pChains[l]) \in Nat /\ Len(pChains'[l]) \in Nat
                            /\ Len(pChains[l]) <= Len(pChains'[l])
    BY <1>0, <2>same, LevelsStay
  <2>move. \A v \in Workers \ {w} : executePc'[v] = executePc[v] /\ uPriority'[v] = uPriority[v]
    BY <1>0, <1>8 DEF Higher, VarsInv, Goto
  <2>rest. \A v \in Workers \ {w} :
          /\ executePc'[v] = executePc[v] /\ chain'[v] = chain[v]
          /\ arming'[v] = arming[v] /\ pending'[v] = pending[v]
          /\ uPriority'[v] = uPriority[v] /\ cSeen'[v] = cSeen[v] /\ pos'[v] = pos[v]
    BY <2>same, <2>move
  <2> QED BY <1>0, <2>executionVars, <2>jobs, <2>at, <2>len, <2>rest, AtOthers DEF TypeInv
<1>9. ASSUME NEW w \in Workers, Leave(w) PROVE TypeInv'
  <2>same. UNCHANGED <<pChains, claimed, runs, done, cRemaining,
                      uCurrentChain, uPriority, uCheck, cSeen,
                      chain, pos, cExecuted, arming, pending, look>>
    BY <1>9 DEF Leave, loops, jobs, hands
  <2>executePc. executePc' \in [Workers -> Places]
    BY <1>0, <1>9 DEF Leave, VarsInv, Goto, Places
  <2>bIsWorking. bIsWorking' \in [Workers -> BOOLEAN]
    BY <1>0, <1>9 DEF Leave, VarsInv, Goto
  <2>executionVars. VarsInv'
    BY <1>0, <2>same, <2>executePc, <2>bIsWorking DEF VarsInv
  <2>jobs. JobsInv'
    BY <1>0, <2>same DEF JobsInv
  <2>at. At(w)'
    BY <1>0, <1>9, <2>same DEF Leave, At, Walking, VarsInv, Goto
  <2>len. \A l \in Levels : Len(pChains[l]) \in Nat /\ Len(pChains'[l]) \in Nat
                            /\ Len(pChains[l]) <= Len(pChains'[l])
    BY <1>0, <2>same, LevelsStay
  <2>move. \A v \in Workers \ {w} : executePc'[v] = executePc[v]
    BY <1>0, <1>9 DEF Leave, VarsInv, Goto
  <2>rest. \A v \in Workers \ {w} :
          /\ executePc'[v] = executePc[v] /\ chain'[v] = chain[v]
          /\ arming'[v] = arming[v] /\ pending'[v] = pending[v]
          /\ uPriority'[v] = uPriority[v] /\ cSeen'[v] = cSeen[v] /\ pos'[v] = pos[v]
    BY <2>same, <2>move
  <2> QED BY <1>0, <2>executionVars, <2>jobs, <2>at, <2>len, <2>rest, AtOthers DEF TypeInv
<1>10. ASSUME NEW w \in Workers, EnterChain(w) PROVE TypeInv'
  <2>same. UNCHANGED <<pChains, claimed, runs, done, cRemaining,
                      bIsWorking, uCurrentChain, uPriority,
                      uCheck, cSeen, chain, arming, pending, look>>
    BY <1>10 DEF EnterChain, shared, loops, hands
  <2>goto. executePc' \in [Workers -> Places] /\ executePc'[w] \in {"pick", "claim"}
    <3>1. executePc \in [Workers -> Places]
      BY <1>0 DEF VarsInv
    <3>2. Goto(w, "pick") \/ Goto(w, "claim")
      BY <1>10 DEF EnterChain
    <3>3. "pick" \in Places /\ "claim" \in Places
      BY DEF Places
    <3> QED BY <3>1, <3>2, <3>3, GotoPlace
  <2>executePc. executePc' \in [Workers -> Places]
    BY <2>goto
  <2>pos. pos' \in [Workers -> Nat]
    <3>1. pos \in [Workers -> Nat]
      BY <1>0 DEF VarsInv
    <3> QED BY <1>10, <3>1 DEF EnterChain
  <2>cExecuted. cExecuted' \in [Workers -> Nat]
    <3>1. cExecuted \in [Workers -> Nat]
      BY <1>0 DEF VarsInv
    <3> QED BY <1>10, <3>1 DEF EnterChain
  <2>executionVars. VarsInv'
    BY <1>0, <2>same, <2>executePc, <2>pos, <2>cExecuted DEF VarsInv
  <2>jobs. JobsInv'
    BY <1>0, <2>same DEF JobsInv
  <2>at. At(w)'
    <3>1. /\ chain[w] \in Chains
          /\ cSeen[w] <= Len(pChains[uPriority[w]]) /\ pending[w] = <<>>
      BY <1>0, <1>10 DEF EnterChain, At, Walking
    <3> QED BY <2>goto, <2>same, <3>1 DEF At
  <2>len. \A l \in Levels : Len(pChains[l]) \in Nat /\ Len(pChains'[l]) \in Nat
                            /\ Len(pChains[l]) <= Len(pChains'[l])
    BY <1>0, <2>same, LevelsStay
  <2>move. \A v \in Workers \ {w} : executePc'[v] = executePc[v] /\ pos'[v] = pos[v]
    BY <1>0, <1>10 DEF EnterChain, VarsInv, Goto
  <2>rest. \A v \in Workers \ {w} :
          /\ executePc'[v] = executePc[v] /\ chain'[v] = chain[v]
          /\ arming'[v] = arming[v] /\ pending'[v] = pending[v]
          /\ uPriority'[v] = uPriority[v] /\ cSeen'[v] = cSeen[v] /\ pos'[v] = pos[v]
    BY <2>same, <2>move
  <2> QED BY <1>0, <2>executionVars, <2>jobs, <2>at, <2>len, <2>rest, AtOthers DEF TypeInv
<1>11. ASSUME NEW w \in Workers, Claim(w) PROVE TypeInv'
  <2>1. PICK p \in Jobs(chain[w]) :
          /\ chain[w] \in Chains
          /\ JobAt(w, chain[w], p) \in Jobs(chain[w])
          /\ JobAt(w, chain[w], p) \notin claimed[chain[w]]
          /\ claimed' = [claimed EXCEPT ![chain[w]] = @ \cup {JobAt(w, chain[w], p)}]
          /\ runs' = [runs EXCEPT ![chain[w]][JobAt(w, chain[w], p)] = @ + 1]
          /\ pos' = [pos EXCEPT ![w] = p]
    BY <1>11, ClaimFacts
  <2>2. p \in Nat /\ p < cJobs[chain[w]]
    BY <2>1, JobExecutionAssumption DEF Jobs
  <2>3. \A c \in Chains : Jobs(c) \subseteq Nat
    BY DEF Jobs
  <2>same. UNCHANGED <<pChains, done, cRemaining, bIsWorking,
                      uCurrentChain, uPriority, uCheck, cSeen,
                      chain, cExecuted, arming, pending, look>>
    BY <1>11 DEF Claim, loops, hands
  <2>executePc. executePc' \in [Workers -> Places]
    BY <1>0, <1>11, <2>1, <2>2, <2>3 DEF Claim, VarsInv, Goto, Places
  <2>pos. pos' \in [Workers -> Nat]
    BY <1>0, <1>11, <2>1, <2>2, <2>3 DEF Claim, VarsInv, Goto
  <2>executionVars. VarsInv'
    BY <1>0, <2>same, <2>executePc, <2>pos DEF VarsInv
  <2>4. ASSUME NEW c \in Chains, NEW j \in Jobs(c)
        PROVE  runs'[c][j] = IF j \in claimed'[c] THEN 1 ELSE 0
    BY <1>0, <2>1, <2>4 DEF JobsInv
  <2>5. runs' = [c \in Chains |-> [j \in Jobs(c) |-> runs'[c][j]]]
    BY <1>0, <2>1 DEF JobsInv
  <2>6. runs' = [c \in Chains |-> [j \in Jobs(c) |-> IF j \in claimed'[c] THEN 1 ELSE 0]]
    BY <2>4, <2>5
  <2>7. /\ claimed' \in [Chains -> SUBSET Nat]
        /\ \A c \in Chains : claimed'[c] \subseteq Jobs(c)
    BY <1>0, <2>1, <2>3 DEF JobsInv
  <2>jobs. JobsInv'
    BY <1>0, <2>same, <2>6, <2>7 DEF JobsInv
  <2>at. At(w)'
    BY <1>0, <1>11, <2>1, <2>2, <2>3, <2>same DEF Claim, At, Walking, VarsInv, Goto
  <2>len. \A l \in Levels : Len(pChains[l]) \in Nat /\ Len(pChains'[l]) \in Nat
                            /\ Len(pChains[l]) <= Len(pChains'[l])
    BY <1>0, <2>same, LevelsStay
  <2>move. \A v \in Workers \ {w} : executePc'[v] = executePc[v] /\ pos'[v] = pos[v]
    BY <1>0, <1>11 DEF Claim, VarsInv, Goto
  <2>rest. \A v \in Workers \ {w} :
          /\ executePc'[v] = executePc[v] /\ chain'[v] = chain[v]
          /\ arming'[v] = arming[v] /\ pending'[v] = pending[v]
          /\ uPriority'[v] = uPriority[v] /\ cSeen'[v] = cSeen[v] /\ pos'[v] = pos[v]
    BY <2>same, <2>move
  <2> QED BY <1>0, <2>executionVars, <2>jobs, <2>at, <2>len, <2>rest, AtOthers DEF TypeInv
<1>12. ASSUME NEW w \in Workers, Run(w) PROVE TypeInv'
  <2>1. chain[w] \in Chains /\ JobAt(w, chain[w], pos[w]) \in Nat
    <3>1. chain[w] \in Chains /\ pos[w] \in Jobs(chain[w])
      <4>1. pos[w] \in Nat /\ chain[w] \in Chains /\ pos[w] < cJobs[chain[w]]
        BY <1>0, <1>12 DEF Run, VarsInv, At
      <4> QED BY <4>1, JobExecutionAssumption DEF Jobs
    <3>2. JobAt(w, chain[w], pos[w]) \in Jobs(chain[w])
      BY <3>1, JobAtType
    <3> QED BY <3>1, <3>2 DEF Jobs
  <2>same. UNCHANGED <<pChains, claimed, runs, cRemaining, bIsWorking,
                      uCurrentChain, uPriority, uCheck, cSeen,
                      chain, arming, pending, look>>
    BY <1>12 DEF Run, loops, hands
  <2>executePc. executePc' \in [Workers -> Places]
    BY <1>0, <1>12, <2>1 DEF Run, VarsInv, Goto, Places
  <2>pos. pos' \in [Workers -> Nat]
    <3>1. pos \in [Workers -> Nat]
      BY <1>0 DEF VarsInv
    <3> QED BY <1>12, <3>1 DEF Run
  <2>cExecuted. cExecuted' \in [Workers -> Nat]
    <3>1. cExecuted \in [Workers -> Nat]
      BY <1>0 DEF VarsInv
    <3> QED BY <1>12, <3>1 DEF Run
  <2>executionVars. VarsInv'
    BY <1>0, <2>same, <2>executePc, <2>pos, <2>cExecuted DEF VarsInv
  <2>jobs. JobsInv'
    BY <1>0, <1>12, <2>1, <2>same DEF JobsInv, Run
  <2>at. At(w)'
    BY <1>0, <1>12, <2>1, <2>same DEF Run, At, Walking, VarsInv, Goto
  <2>len. \A l \in Levels : Len(pChains[l]) \in Nat /\ Len(pChains'[l]) \in Nat
                            /\ Len(pChains[l]) <= Len(pChains'[l])
    BY <1>0, <2>same, LevelsStay
  <2>move. \A v \in Workers \ {w} : executePc'[v] = executePc[v] /\ pos'[v] = pos[v]
    BY <1>0, <1>12 DEF Run, VarsInv, Goto
  <2>rest. \A v \in Workers \ {w} :
          /\ executePc'[v] = executePc[v] /\ chain'[v] = chain[v]
          /\ arming'[v] = arming[v] /\ pending'[v] = pending[v]
          /\ uPriority'[v] = uPriority[v] /\ cSeen'[v] = cSeen[v] /\ pos'[v] = pos[v]
    BY <2>same, <2>move
  <2> QED BY <1>0, <2>executionVars, <2>jobs, <2>at, <2>len, <2>rest, AtOthers DEF TypeInv
<1>13. ASSUME NEW w \in Workers, Retire(w) PROVE TypeInv'
  <2>same. UNCHANGED <<pChains, claimed, runs, done, bIsWorking,
                      uCurrentChain, uPriority, uCheck, cSeen,
                      chain, pos, cExecuted, arming, pending, look>>
    BY <1>13 DEF Retire, loops, jobs, hands
  <2>executePc. executePc' \in [Workers -> Places]
    BY <1>0, <1>13 DEF Retire, VarsInv, Goto, Places
  <2>cRemaining. cRemaining' \in [Chains -> Int]
    <3>1. cRemaining \in [Chains -> Int] /\ cExecuted[w] \in Nat
      BY <1>0 DEF VarsInv
    <3>2. /\ chain[w] \in Chains
          /\ cRemaining' = [cRemaining EXCEPT ![chain[w]] = cRemaining[chain[w]] - cExecuted[w]]
      BY <1>0, <1>13 DEF Retire, Share, At
    <3>3. cRemaining[chain[w]] - cExecuted[w] \in Int
      BY <3>1, <3>2
    <3> QED BY <3>1, <3>2, <3>3
  <2>executionVars. VarsInv'
    BY <1>0, <2>same, <2>executePc, <2>cRemaining DEF VarsInv
  <2>jobs. JobsInv'
    BY <1>0, <2>same DEF JobsInv
  <2>at. At(w)'
    BY <1>0, <1>13, <2>same DEF Retire, At, Walking, VarsInv, Goto
  <2>len. \A l \in Levels : Len(pChains[l]) \in Nat /\ Len(pChains'[l]) \in Nat
                            /\ Len(pChains[l]) <= Len(pChains'[l])
    BY <1>0, <2>same, LevelsStay
  <2>move. \A v \in Workers \ {w} : executePc'[v] = executePc[v]
    BY <1>0, <1>13 DEF Retire, VarsInv, Goto
  <2>rest. \A v \in Workers \ {w} :
          /\ executePc'[v] = executePc[v] /\ chain'[v] = chain[v]
          /\ arming'[v] = arming[v] /\ pending'[v] = pending[v]
          /\ uPriority'[v] = uPriority[v] /\ cSeen'[v] = cSeen[v] /\ pos'[v] = pos[v]
    BY <2>same, <2>move
  <2> QED BY <1>0, <2>executionVars, <2>jobs, <2>at, <2>len, <2>rest, AtOthers DEF TypeInv
<1>14. CASE Look
  <2>same. UNCHANGED <<pChains, claimed, runs, done, cRemaining,
                      bIsWorking, uCurrentChain, uPriority,
                      uCheck, cSeen, chain, pos, cExecuted,
                      arming, pending>>
    BY <1>14 DEF Look, shared, loops, jobs, hands
  <2>goto. executePc' \in [Workers -> Places] /\ executePc'[0] \in {"check", "look", "returned"}
    <3>1. executePc \in [Workers -> Places]
      BY <1>0 DEF VarsInv
    <3>2. Goto(0, "check") \/ Goto(0, "returned") \/ (executePc' = executePc /\ executePc[0] = "look")
      BY <1>14 DEF Look
    <3>3. "check" \in Places /\ "returned" \in Places /\ 0 \in Workers
      BY MainIsWorker DEF Places
    <3> QED BY <3>1, <3>2, <3>3, GotoPlace
  <2>executePc. executePc' \in [Workers -> Places]
    BY <2>goto
  <2>look. look' \in Nat \ {0}
    <3>1. look \in Nat \ {0}
      BY <1>0 DEF VarsInv
    <3> QED BY <1>14, <3>1 DEF Look
  <2>executionVars. VarsInv'
    BY <1>0, <2>same, <2>executePc, <2>look DEF VarsInv
  <2>jobs. JobsInv'
    BY <1>0, <2>same DEF JobsInv
  <2>at. At(0)'
    <3>1. pending[0] = <<>>
      BY <1>0, <1>14 DEF Look, At
    <3> QED BY <2>goto, <2>same, <3>1 DEF At, Walking
  <2>len. \A l \in Levels : Len(pChains[l]) \in Nat /\ Len(pChains'[l]) \in Nat
                            /\ Len(pChains[l]) <= Len(pChains'[l])
    BY <1>0, <2>same, LevelsStay
  <2>move. \A v \in Workers \ {0} : executePc'[v] = executePc[v]
    BY <1>0, <1>14 DEF Look, VarsInv, Goto
  <2>rest. \A v \in Workers \ {0} :
          /\ executePc'[v] = executePc[v] /\ chain'[v] = chain[v]
          /\ arming'[v] = arming[v] /\ pending'[v] = pending[v]
          /\ uPriority'[v] = uPriority[v] /\ cSeen'[v] = cSeen[v] /\ pos'[v] = pos[v]
    BY <2>same, <2>move
  <2> QED BY <1>0, <2>executionVars, <2>jobs, <2>at, <2>len, <2>rest, AtOthers DEF TypeInv
<1>15. CASE UNCHANGED executionVars
  <2>1. UNCHANGED <<pChains, claimed, runs, done, cRemaining, bIsWorking, executePc, uCurrentChain,
                    uPriority, uCheck, cSeen, chain, pos, cExecuted, arming, pending, look>>
    BY <1>15 DEF executionVars, shared, loops, jobs, hands
  <2>2. JobsInv'
    BY <1>0, <2>1 DEF JobsInv
  <2>3. VarsInv'
    BY <1>0, <2>1 DEF VarsInv
  <2>4. \A w \in Workers : At(w)'
    BY <1>0, <2>1 DEF At, Array
  <2> QED BY <2>2, <2>3, <2>4 DEF TypeInv
<1>16. ASSUME NEW w \in Workers, FixForSubmit(w) PROVE TypeInv'
  <2>same. UNCHANGED <<pChains, claimed, runs, done, bIsWorking,
                      uCurrentChain, uPriority, uCheck, cSeen,
                      chain, pos, cExecuted, look>>
    BY <1>16 DEF FixForSubmit, loops, jobs
  <2>1. /\ cRemaining' \in [Chains -> Int]
        /\ arming' \in [Workers -> Seq(Chains)] /\ pending' \in [Workers -> Seq(Chains)]
        /\ executePc' \in [Workers -> Places]
        /\ \/ executePc'[w] = "publish" /\ pending'[w] # <<>>
           \/ executePc'[w] = "fix" /\ arming'[w] # <<>> /\ pending'[w] = <<>>
        /\ \A v \in Workers \ {w} :
             executePc'[v] = executePc[v] /\ arming'[v] = arming[v] /\ pending'[v] = pending[v]
    BY <1>16, FixFacts
  <2>executionVars. VarsInv'
    BY <1>0, <2>same, <2>1 DEF VarsInv
  <2>jobs. JobsInv'
    BY <1>0, <2>same DEF JobsInv
  <2>at. At(w)'
    <3>1. /\ executePc[w] = "fix" /\ Array(w) # <<>> /\ (chain[w] = NoChain => w = 0)
          /\ cSeen[w] <= Len(pChains[uPriority[w]])
      BY <1>0, <1>16 DEF FixForSubmit, At, Walking
    <3> QED BY <2>same, <2>1, <3>1 DEF At, Array
  <2>len. \A l \in Levels : Len(pChains[l]) \in Nat /\ Len(pChains'[l]) \in Nat
                            /\ Len(pChains[l]) <= Len(pChains'[l])
    BY <1>0, <2>same, LevelsStay
  <2>rest. \A v \in Workers \ {w} :
          /\ executePc'[v] = executePc[v] /\ chain'[v] = chain[v]
          /\ arming'[v] = arming[v] /\ pending'[v] = pending[v]
          /\ uPriority'[v] = uPriority[v] /\ cSeen'[v] = cSeen[v] /\ pos'[v] = pos[v]
    BY <2>same, <2>1
  <2> QED BY <1>0, <2>executionVars, <2>jobs, <2>at, <2>len, <2>rest, AtOthers DEF TypeInv
<1> QED
  BY <1>1, <1>2, <1>3, <1>4, <1>5, <1>6, <1>7, <1>8, <1>9, <1>10, <1>11, <1>12, <1>13, <1>14, <1>15, <1>16
  DEF ExecutionNext, MainStep, ExecuteStep

\* A job is started once and by one worker, for ever.
THEOREM RunsOnce == ExecutionSpec => []AtMostOnce
<1>1. TypeInv => AtMostOnce
  BY DEF TypeInv, JobsInv, AtMostOnce
<1> QED BY <1>1, TypeInit, TypeStep, PTL DEF ExecutionSpec

-----------------------------------------------------------------------------
(* Who has which job. *)

\* Steps outside of the loops of ExecuteJobs.
Outside ==
  \/ SubmitRoots \/ Look \/ UNCHANGED executionVars
  \/ \E w \in Workers : SubmitDeps(w) \/ FixForSubmit(w) \/ Publish(w) \/ Check(w) \/ Mark(w)
                        \/ Level(w) \/ Pick(w) \/ Higher(w) \/ Leave(w)

\* They leave alone what happens in the loops.
LoopsStay ==
  /\ UNCHANGED <<claimed, done, runs, pos, cExecuted>>
  /\ \A v \in Workers : executePc[v] \in {"claim", "run"} \/ executePc'[v] \in {"claim", "run"} =>
       executePc'[v] = executePc[v] /\ chain'[v] = chain[v]

LEMMA OutsideStep == ASSUME TypeInv, Outside PROVE LoopsStay
<1>0. /\ executePc \in [Workers -> Places] /\ chain \in [Workers -> Chains \cup {NoChain}]
      /\ 0 \in Workers
  BY MainIsWorker DEF TypeInv, VarsInv
<1>1. CASE SubmitRoots
  BY <1>0, <1>1 DEF SubmitRoots, Goto, shared, loops, jobs, LoopsStay
<1>2. CASE Look
  BY <1>0, <1>2 DEF Look, Goto, shared, loops, jobs, LoopsStay
<1>3. CASE UNCHANGED executionVars
  BY <1>3 DEF executionVars, shared, jobs, LoopsStay
<1>4. ASSUME NEW w \in Workers, SubmitDeps(w) PROVE LoopsStay
  BY <1>0, <1>4 DEF SubmitDeps, Goto, shared, loops, jobs, LoopsStay
<1>5. ASSUME NEW w \in Workers, Publish(w) PROVE LoopsStay
  BY <1>0, <1>5 DEF Publish, Goto, loops, jobs, LoopsStay
<1>6. ASSUME NEW w \in Workers, Check(w) PROVE LoopsStay
  BY <1>0, <1>6 DEF Check, Goto, shared, jobs, LoopsStay
<1>7. ASSUME NEW w \in Workers, Mark(w) PROVE LoopsStay
  BY <1>0, <1>7 DEF Mark, Goto, jobs, LoopsStay
<1>8. ASSUME NEW w \in Workers, Level(w) PROVE LoopsStay
  BY <1>0, <1>8 DEF Level, Goto, shared, jobs, LoopsStay
<1>9. ASSUME NEW w \in Workers, Pick(w) PROVE LoopsStay
  BY <1>0, <1>9 DEF Pick, Goto, shared, LoopsStay
<1>10. ASSUME NEW w \in Workers, Higher(w) PROVE LoopsStay
  BY <1>0, <1>10 DEF Higher, Goto, shared, jobs, LoopsStay
<1>11. ASSUME NEW w \in Workers, Leave(w) PROVE LoopsStay
  BY <1>0, <1>11 DEF Leave, Goto, jobs, LoopsStay
<1>12. ASSUME NEW w \in Workers, FixForSubmit(w) PROVE LoopsStay
  <2>1. /\ executePc[w] = "fix" /\ executePc'[w] \in {"fix", "publish"}
        /\ \A v \in Workers \ {w} : executePc'[v] = executePc[v]
    BY <1>12, FixFacts DEF FixForSubmit
  <2>2. UNCHANGED <<claimed, done, runs, pos, cExecuted, chain>>
    BY <1>12 DEF FixForSubmit, jobs
  <2> QED BY <2>1, <2>2 DEF LoopsStay
<1> QED
  BY <1>1, <1>2, <1>3, <1>4, <1>5, <1>6, <1>7, <1>8, <1>9, <1>10, <1>11, <1>12 DEF Outside

\* Every step is outside, or is one of ExecuteJobs.
LEMMA Steps ==
  ASSUME [ExecutionNext]_executionVars
  PROVE  Outside \/ \E w \in Workers : EnterChain(w) \/ Claim(w) \/ Run(w) \/ Retire(w)
BY DEF ExecutionNext, MainStep, ExecuteStep, Outside

LEMMA ClaimInit == ExecutionInit => ClaimInv
BY DEF ExecutionInit, ClaimInv

LEMMA ClaimStep ==
  ASSUME TypeInv, ClaimInv, [ExecutionNext]_executionVars
  PROVE  ClaimInv'
<1>0. /\ executePc \in [Workers -> Places] /\ chain \in [Workers -> Chains \cup {NoChain}]
      /\ pos \in [Workers -> Nat]
      /\ claimed \in [Chains -> SUBSET Nat] /\ done \in [Chains -> SUBSET Nat]
      /\ \A w \in Workers : executePc[w] \in {"enter", "claim", "run", "deps"} => chain[w] \in Chains
  BY DEF TypeInv, VarsInv, JobsInv, At
<1>1. CASE Outside
  <2>1. LoopsStay
    BY <1>1, OutsideStep
  <2> QED BY <2>1 DEF ClaimInv, LoopsStay, Mine
<1>2. ASSUME NEW w \in Workers, EnterChain(w) PROVE ClaimInv'
  <2>1. UNCHANGED <<claimed, done, chain>>
    BY <1>2 DEF EnterChain, shared, loops
  <2>2. executePc'[w] \in {"pick", "claim"} /\ executePc[w] = "enter" /\ (executePc'[w] = "claim" => pos'[w] = 0)
    BY <1>0, <1>2 DEF EnterChain, Goto
  <2>3. \A v \in Workers \ {w} : executePc'[v] = executePc[v] /\ pos'[v] = pos[v]
    BY <1>0, <1>2 DEF EnterChain, Goto
  <2> QED BY <2>1, <2>2, <2>3 DEF ClaimInv, Mine
<1>3. ASSUME NEW w \in Workers, Claim(w) PROVE ClaimInv'
  <2> DEFINE c == chain[w]
  <2>1. PICK p \in Jobs(c) :
          /\ c \in Chains /\ JobAt(w, c, p) \notin claimed[c] /\ pos[w] <= p
          /\ \A q \in pos[w] .. p - 1 : JobAt(w, c, q) \in claimed[c]
          /\ claimed' = [claimed EXCEPT ![c] = @ \cup {JobAt(w, c, p)}]
          /\ pos' = [pos EXCEPT ![w] = p]
    BY <1>3, ClaimFacts
  <2>2. UNCHANGED <<done, chain>> /\ executePc[w] = "claim" /\ executePc' = [executePc EXCEPT ![w] = "run"]
    BY <1>3 DEF Claim, Goto
  <2>3. executePc'[w] = "run" /\ pos'[w] = p /\ Mine(w)' = JobAt(w, c, p)
    BY <1>0, <2>1, <2>2 DEF Mine
  <2>4. \A v \in Workers \ {w} : executePc'[v] = executePc[v] /\ pos'[v] = pos[v] /\ Mine(v)' = Mine(v)
    BY <1>0, <2>1, <2>2 DEF Mine
  <2>5. /\ claimed'[c] = claimed[c] \cup {JobAt(w, c, p)}
        /\ \A d \in Chains \ {c} : claimed'[d] = claimed[d]
    BY <1>0, <2>1
  <2> DEFINE j == JobAt(w, c, p)
  <2> HIDE DEF c, j
  <2>6. \A d \in Chains : done'[d] \subseteq claimed'[d]
    BY <2>2, <2>5 DEF ClaimInv
  <2>7. \A v \in Workers : executePc'[v] = "run" => Mine(v)' \in claimed'[chain'[v]] \ done'[chain'[v]]
    <3>1. Mine(w)' \in claimed'[chain'[w]] \ done'[chain'[w]]
      BY <2>1, <2>2, <2>3, <2>5 DEF ClaimInv, c
    <3>2. ASSUME NEW v \in Workers \ {w}, executePc'[v] = "run"
          PROVE  Mine(v)' \in claimed'[chain'[v]] \ done'[chain'[v]]
      BY <1>0, <2>2, <2>4, <2>5, <3>2 DEF ClaimInv
    <3> QED BY <3>1, <3>2
  <2>8. \A v \in Workers \ {w} : executePc[v] = "run" /\ chain[v] = c => Mine(v) # Mine(w)'
    BY <2>1, <2>3 DEF ClaimInv
  <2>9. \A u, v \in Workers :
          executePc'[u] = "run" /\ executePc'[v] = "run" /\ chain'[u] = chain'[v] /\ Mine(u)' = Mine(v)' => u = v
    BY <2>2, <2>4, <2>8 DEF ClaimInv, c
  <2>10. ASSUME NEW d \in Chains, NEW i \in claimed'[d] \ done'[d]
         PROVE  \E v \in Workers : executePc'[v] = "run" /\ chain'[v] = d /\ Mine(v)' = i
    <3>1. CASE i \in claimed[d]
      <4>1. PICK v \in Workers : executePc[v] = "run" /\ chain[v] = d /\ Mine(v) = i
        BY <2>2, <2>10, <3>1 DEF ClaimInv
      <4> QED BY <2>2, <2>4, <4>1
    <3>2. CASE i \notin claimed[d]
      BY <2>2, <2>3, <2>5, <2>10, <3>2 DEF c
    <3> QED BY <3>1, <3>2
  <2>11. ASSUME NEW v \in Workers, executePc'[v] \in {"claim", "run"}, NEW q \in 0 .. pos'[v] - 1,
                q < cJobs[chain'[v]]
         PROVE  JobAt(v, chain'[v], q) \in claimed'[chain'[v]]
    <3>1. CASE v = w
      <4>1. CASE q < pos[w]
        <5>1. JobAt(w, c, q) \in claimed[c]
          BY <1>0, <2>2, <2>11, <3>1, <4>1 DEF ClaimInv, c
        <5> QED BY <2>2, <2>5, <3>1, <5>1 DEF c
      <4>2. CASE ~(q < pos[w])
        <5>1. q \in pos[w] .. p - 1
          BY <1>0, <2>3, <2>11, <3>1, <4>2
        <5> QED BY <2>1, <2>2, <2>5, <3>1, <5>1 DEF c
      <4> QED BY <4>1, <4>2
    <3>2. CASE v # w
      <4>1. JobAt(v, chain[v], q) \in claimed[chain[v]] /\ chain[v] \in Chains
        BY <1>0, <2>2, <2>4, <2>11, <3>2 DEF ClaimInv
      <4> QED BY <2>2, <2>5, <4>1
    <3> QED BY <3>1, <3>2
  <2> QED BY <2>6, <2>7, <2>9, <2>10, <2>11 DEF ClaimInv
<1>4. ASSUME NEW w \in Workers, Run(w) PROVE ClaimInv'
  <2> DEFINE c == chain[w]
             j == Mine(w)
  <2>1. /\ UNCHANGED <<claimed, chain>> /\ executePc[w] = "run" /\ executePc' = [executePc EXCEPT ![w] = "claim"]
        /\ pos' = [pos EXCEPT ![w] = @ + 1] /\ done' = [done EXCEPT ![c] = @ \cup {j}]
    BY <1>4 DEF Run, Goto, Mine
  <2>2. c \in Chains /\ j \in claimed[c]
    BY <1>0, <2>1 DEF ClaimInv
  <2>3. /\ done'[c] = done[c] \cup {j} /\ \A d \in Chains \ {c} : done'[d] = done[d]
        /\ executePc'[w] = "claim" /\ pos'[w] = pos[w] + 1
    BY <1>0, <2>1, <2>2
  <2>4. \A v \in Workers \ {w} : executePc'[v] = executePc[v] /\ pos'[v] = pos[v] /\ Mine(v)' = Mine(v)
    BY <1>0, <2>1 DEF Mine
  <2> HIDE DEF c, j
  <2>5. \A d \in Chains : done'[d] \subseteq claimed'[d]
    BY <2>1, <2>2, <2>3 DEF ClaimInv
  <2>6. ASSUME NEW v \in Workers, executePc'[v] = "run"
        PROVE  Mine(v)' \in claimed'[chain'[v]] \ done'[chain'[v]]
    <3>1. v # w /\ executePc[v] = "run" /\ chain[v] \in Chains /\ Mine(v)' = Mine(v)
      BY <1>0, <2>3, <2>4, <2>6
    <3>2. chain[v] = c => Mine(v) # j
      BY <2>1, <3>1 DEF ClaimInv, c, j
    <3> QED BY <2>1, <2>3, <3>1, <3>2 DEF ClaimInv
  <2>7. \A u, v \in Workers :
          executePc'[u] = "run" /\ executePc'[v] = "run" /\ chain'[u] = chain'[v] /\ Mine(u)' = Mine(v)' => u = v
    BY <2>1, <2>3, <2>4 DEF ClaimInv
  <2>8. ASSUME NEW d \in Chains, NEW i \in claimed'[d] \ done'[d]
        PROVE  \E v \in Workers : executePc'[v] = "run" /\ chain'[v] = d /\ Mine(v)' = i
    <3>1. i \in claimed[d] \ done[d] /\ ~(d = c /\ i = j)
      BY <2>1, <2>3, <2>8
    <3>2. PICK v \in Workers : executePc[v] = "run" /\ chain[v] = d /\ Mine(v) = i
      BY <3>1 DEF ClaimInv
    <3>3. v # w
      BY <3>1, <3>2 DEF c, j
    <3> QED BY <2>1, <2>4, <3>2, <3>3
  <2>9. ASSUME NEW v \in Workers, executePc'[v] \in {"claim", "run"}, NEW q \in 0 .. pos'[v] - 1,
               q < cJobs[chain'[v]]
        PROVE  JobAt(v, chain'[v], q) \in claimed'[chain'[v]]
    <3>1. CASE v = w /\ q = pos[w]
      BY <2>1, <2>2, <3>1 DEF c, j, Mine
    <3>2. CASE v = w /\ q # pos[w]
      <4>1. q \in 0 .. pos[w] - 1
        BY <1>0, <2>3, <2>9, <3>2
      <4> QED BY <2>1, <2>9, <3>2, <4>1 DEF ClaimInv
    <3>3. CASE v # w
      BY <2>1, <2>4, <2>9, <3>3 DEF ClaimInv
    <3> QED BY <3>1, <3>2, <3>3
  <2> QED BY <2>5, <2>6, <2>7, <2>8, <2>9 DEF ClaimInv
<1>5. ASSUME NEW w \in Workers, Retire(w) PROVE ClaimInv'
  <2>1. /\ UNCHANGED <<claimed, done, chain, pos>> /\ executePc[w] = "claim"
        /\ executePc'[w] \in {"deps", "pick"} /\ \A v \in Workers \ {w} : executePc'[v] = executePc[v]
    BY <1>0, <1>5 DEF Retire, Goto, loops, jobs
  <2> QED BY <2>1 DEF ClaimInv, Mine
<1> QED BY <1>1, <1>2, <1>3, <1>4, <1>5, Steps

-----------------------------------------------------------------------------
(* What is submitted. *)

\* What Publish does, of the chain it takes from the worker's hands.
LEMMA PublishFacts ==
  ASSUME TypeInv, NEW w \in Workers, Publish(w)
  PROVE  LET c == Head(pending[w])
         IN /\ c \in Chains /\ Priority[c] \in Levels
            /\ pChains' = [pChains EXCEPT ![Priority[c]] = Append(@, c)]
            /\ pChains'[Priority[c]] = Append(pChains[Priority[c]], c)
            /\ \A l \in Levels \ {Priority[c]} : pChains'[l] = pChains[l]
            /\ Published' = Published \cup {c}
            /\ Range(pending[w]) = {c} \cup Range(pending'[w])
            /\ \A v \in Workers \ {w} : pending'[v] = pending[v]
<1> DEFINE c == Head(pending[w])
           l == Priority[c]
<1>1. /\ pending[w] \in Seq(Chains) /\ pending[w] # <<>>
      /\ pending \in [Workers -> Seq(Chains)] /\ pChains \in [Levels -> Seq(Chains)]
  BY DEF TypeInv, VarsInv, At, Publish
<1>2. c \in Chains /\ Tail(pending[w]) \in Seq(Chains)
  BY <1>1, TailOfMore
<1>3. l \in Levels
  BY <1>2, JobExecutionAssumption DEF Levels
<1>4. pChains' = [pChains EXCEPT ![l] = Append(@, c)] /\ pending' = [pending EXCEPT ![w] = Tail(@)]
  BY DEF Publish
<1> HIDE DEF c, l
<1>5. /\ pChains'[l] = Append(pChains[l], c)
      /\ \A k \in Levels \ {l} : pChains'[k] = pChains[k]
  BY <1>1, <1>3, <1>4
<1>6. Range(Append(pChains[l], c)) = Range(pChains[l]) \cup {c}
  <2>1. pChains[l] \in Seq(Chains) /\ Append(pChains[l], c) \in Seq(Chains)
        /\ Len(Append(pChains[l], c)) = Len(pChains[l]) + 1
        /\ \A i \in 1 .. Len(pChains[l]) + 1 :
             Append(pChains[l], c)[i] = IF i <= Len(pChains[l]) THEN pChains[l][i] ELSE c
    BY <1>1, <1>2, <1>3, AppendProperties
  <2>2. \A x \in Range(Append(pChains[l], c)) : x \in Range(pChains[l]) \cup {c}
    BY <2>1 DEF Range
  <2>3. \A x \in Range(pChains[l]) : x \in Range(Append(pChains[l], c))
    <3> SUFFICES ASSUME NEW i \in 1 .. Len(pChains[l])
                 PROVE  pChains[l][i] \in Range(Append(pChains[l], c))
      BY <2>1 DEF Range
    <3>1. i \in 1 .. Len(pChains[l]) + 1 /\ Append(pChains[l], c)[i] = pChains[l][i]
      BY <2>1
    <3> QED BY <2>1, <3>1 DEF Range
  <2>4. c \in Range(Append(pChains[l], c))
    <3>1. Len(pChains[l]) + 1 \in 1 .. Len(pChains[l]) + 1
          /\ Append(pChains[l], c)[Len(pChains[l]) + 1] = c
      BY <2>1
    <3> QED BY <2>1, <3>1 DEF Range
  <2> QED BY <2>2, <2>3, <2>4
<1>7. Published' = Published \cup {c}
  BY <1>3, <1>5, <1>6 DEF Published
<1>8. Range(pending[w]) = {c} \cup Range(Tail(pending[w]))
  BY <1>1, RangeOfMore DEF c
<1>9. /\ pending'[w] = Tail(pending[w])
      /\ \A v \in Workers \ {w} : pending'[v] = pending[v]
  BY <1>1, <1>4
<1> QED
  BY <1>2, <1>3, <1>4, <1>5, <1>7, <1>8, <1>9 DEF c, l

\* Pick takes a chain of the level the worker is at.
LEMMA PickFacts ==
  ASSUME TypeInv, NEW w \in Workers, Pick(w)
  PROVE  LET l == uPriority[w]
             u == uCurrentChain[w][l]
             i == ChainIndex(w, u, cSeen[w]) + 1
         IN \/ /\ u < cSeen[w] /\ i \in 1 .. Len(pChains[l])
               /\ chain'[w] = pChains[l][i] /\ chain'[w] \in Chains /\ chain'[w] \in Published
               /\ executePc'[w] = "enter" /\ uCurrentChain' = [uCurrentChain EXCEPT ![w][l] = u + 1]
            \/ /\ u >= cSeen[w] /\ chain'[w] = NoChain
               /\ executePc'[w] = "higher" /\ uCurrentChain' = uCurrentChain
<1> DEFINE l == uPriority[w]
           u == uCurrentChain[w][l]
           i == ChainIndex(w, u, cSeen[w]) + 1
<1>1. /\ executePc \in [Workers -> Places] /\ chain \in [Workers -> Chains \cup {NoChain}]
      /\ l \in Levels /\ u \in Nat /\ cSeen[w] \in Nat /\ w \in Nat
      /\ pChains[l] \in Seq(Chains) /\ cSeen[w] <= Len(pChains[l])
  <2>1. w \in Nat
    BY JobExecutionAssumption DEF Workers
  <2>2. VarsInv /\ At(w) /\ executePc[w] \in Walking
    BY DEF TypeInv, Pick, Walking
  <2> QED BY <2>1, <2>2 DEF VarsInv, At
<1>2. CASE u < cSeen[w]
  <2>1. i \in 1 .. cSeen[w]
    <3>1. u + w \in Nat /\ cSeen[w] \in Nat \ {0}
      BY <1>1, <1>2
    <3>2. (u + w) % cSeen[w] \in 0 .. cSeen[w] - 1
      BY <3>1, Remainder
    <3> HIDE DEF u
    <3> QED BY <1>1, <3>2 DEF ChainIndex
  <2>2. i \in 1 .. Len(pChains[l])
    BY <1>1, <2>1
  <2>3. chain'[w] = pChains[l][i] /\ executePc'[w] = "enter"
        /\ uCurrentChain' = [uCurrentChain EXCEPT ![w][l] = u + 1]
    BY <1>1, <1>2 DEF Pick, Goto
  <2>4. pChains[l][i] \in Chains /\ pChains[l][i] \in Range(pChains[l])
    BY <1>1, <2>2, RangeOf
  <2>5. pChains[l][i] \in Published
    BY <1>1, <2>4 DEF Published
  <2> QED BY <1>2, <2>2, <2>3, <2>4, <2>5
<1>3. CASE ~(u < cSeen[w])
  BY <1>1, <1>3 DEF Pick, Goto
<1> QED BY <1>2, <1>3

\* Steps that hand nothing out and publish nothing.
LEMMA HandsStay ==
  ASSUME UNCHANGED <<pChains, pending>>
  PROVE  Published' = Published /\ \A c \in Chains : Handed(c)' <=> Handed(c)
BY DEF Published, Handed

\* A chain is handed out when the array it is in is armed, and never else.
LEMMA HandedStep ==
  ASSUME TypeInv, [ExecutionNext]_executionVars
  PROVE  /\ Published \subseteq Published'
         /\ \A c \in Chains : Handed(c)' =>
              Handed(c) \/ \E w \in Workers : FixForSubmit(w) /\ c \in Range(Array(w))
<1> DEFINE Good == /\ Published \subseteq Published'
                   /\ \A c \in Chains : Handed(c)' =>
                        Handed(c) \/ \E w \in Workers : FixForSubmit(w) /\ c \in Range(Array(w))
<1>1. ASSUME NEW w \in Workers, FixForSubmit(w) PROVE Good
  <2>1. Published' = Published
    BY <1>1 DEF FixForSubmit, Published
  <2>2. /\ pending'[w] \in {Array(w), pending[w]}
        /\ \A v \in Workers \ {w} : pending'[v] = pending[v]
    BY <1>1, FixFacts
  <2> QED BY <1>1, <2>1, <2>2 DEF Handed
<1>2. ASSUME NEW w \in Workers, Publish(w) PROVE Good
  <2>1. /\ Published' = Published \cup {Head(pending[w])}
        /\ Range(pending[w]) = {Head(pending[w])} \cup Range(pending'[w])
        /\ \A v \in Workers \ {w} : pending'[v] = pending[v]
    BY <1>2, PublishFacts
  <2>2. \A c \in Chains : Handed(c)' => Handed(c)
    BY <2>1 DEF Handed
  <2> QED BY <2>1, <2>2
<1>3. ASSUME UNCHANGED <<pChains, pending>> PROVE Good
  BY <1>3, HandsStay
<1>4. ASSUME UNCHANGED executionVars PROVE Good
  BY <1>3, <1>4 DEF executionVars, shared, hands
<1> HIDE DEF Good
<1>6. \/ \E w \in Workers : FixForSubmit(w) \/ Publish(w)
      \/ UNCHANGED executionVars \/ UNCHANGED <<pChains, pending>>
  BY DEF ExecutionNext, MainStep, ExecuteStep, SubmitRoots, SubmitDeps, Look, Check, Mark, Level, Pick, Higher,
         Leave, EnterChain, Claim, Run, Retire, shared, hands
<1>5. Good
  BY <1>1, <1>2, <1>3, <1>4, <1>6
<1> QED BY <1>5 DEF Good

-----------------------------------------------------------------------------
(* The accounts of a chain. *)

LEMMA JobsCount ==
  ASSUME NEW c \in Chains
  PROVE  /\ cJobs[c] \in Nat \ {0} /\ IsFiniteSet(Jobs(c)) /\ Cardinality(Jobs(c)) = cJobs[c]
         /\ \A S \in SUBSET Jobs(c) : IsFiniteSet(S) /\ Cardinality(S) \in Nat
<1>1. cJobs[c] \in Nat \ {0}
  BY JobExecutionAssumption
<1>2. IsFiniteSet(Jobs(c)) /\ Cardinality(Jobs(c)) = cJobs[c]
  <2>1. /\ IsFiniteSet(0 .. cJobs[c] - 1)
        /\ Cardinality(0 .. cJobs[c] - 1) =
             IF 0 > cJobs[c] - 1 THEN 0 ELSE (cJobs[c] - 1) - 0 + 1
    <3>1. 0 \in Int /\ cJobs[c] - 1 \in Int
      BY <1>1
    <3> QED BY <3>1, FS_Interval
  <2>2. ~(0 > cJobs[c] - 1) /\ (cJobs[c] - 1) - 0 + 1 = cJobs[c]
    BY <1>1
  <2> QED BY <2>1, <2>2 DEF Jobs
<1>3. ASSUME NEW S \in SUBSET Jobs(c) PROVE IsFiniteSet(S) /\ Cardinality(S) \in Nat
  BY <1>2, FS_Subset, FS_CardinalityType
<1> QED BY <1>1, <1>2, <1>3

\* A chain that has just been armed.
LEMMA AccountFresh ==
  ASSUME NEW c \in Chains, cRemaining'[c] = cJobs[c], done'[c] = {},
         \A v \in Workers : ~Within(v, c)'
  PROVE  Account(c)'
<1> DEFINE own == [v \in Workers |-> {}]
<1>1. own \in [Workers -> SUBSET Jobs(c)] /\ {} \in SUBSET Jobs(c) /\ cJobs[c] \in Nat
  BY JobsCount
<1>2. done'[c] = {} \cup UNION {own[v] : v \in Workers}
  OBVIOUS
<1>3. cJobs[c] - Cardinality({}) = cRemaining'[c]
  BY <1>1, FS_EmptySet
<1>4. Shares(c, own, {})'
  BY <1>1, <1>2, <1>3 DEF Shares
<1> QED BY <1>1, <1>4 DEF Account

\* Workers may enter, and a chain below the roots may be armed again.
LEMMA AccountKept ==
  ASSUME NEW c \in Chains, Account(c), cRemaining[c] \in Int, done'[c] = done[c],
         \/ cRemaining'[c] = cRemaining[c]
         \/ c \notin Range(Roots) /\ cRemaining'[c] = cJobs[c],
         \A v \in Workers :
           \/ Within(v, c) /\ Within(v, c)' /\ cExecuted'[v] = cExecuted[v]
           \/ ~Within(v, c) /\ (Within(v, c)' => cExecuted'[v] = 0)
  PROVE  Account(c)'
<1>1. PICK own \in [Workers -> SUBSET Jobs(c)], retired \in SUBSET Jobs(c) :
        Shares(c, own, retired)
  BY DEF Account
<1>2. Cardinality(retired) \in Nat /\ cJobs[c] \in Nat /\ Cardinality({}) = 0
  BY JobsCount, FS_EmptySet
<1>3. /\ cJobs[c] - Cardinality(retired) <= cRemaining'[c]
      /\ c \in Range(Roots) => cJobs[c] - Cardinality(retired) = cRemaining'[c]
  BY <1>1, <1>2 DEF Shares
<1>4. ASSUME NEW v \in Workers
      PROVE  IF Within(v, c)' THEN Cardinality(own[v]) = cExecuted'[v] ELSE own[v] = {}
  BY <1>1, <1>2 DEF Shares
<1>5. Shares(c, own, retired)'
  BY <1>1, <1>3, <1>4 DEF Shares
<1> QED BY <1>5 DEF Account

\* The kernel of a job returns: the job is its worker's own.
LEMMA AccountRun ==
  ASSUME NEW c \in Chains, NEW w \in Workers, NEW j \in Jobs(c) \ done[c],
         Account(c), done'[c] = done[c] \cup {j}, cRemaining' = cRemaining,
         Within(w, c), Within(w, c)', cExecuted'[w] = cExecuted[w] + 1,
         \A v \in Workers \ {w} :
           (Within(v, c)' <=> Within(v, c)) /\ cExecuted'[v] = cExecuted[v]
  PROVE  Account(c)'
<1>1. PICK own \in [Workers -> SUBSET Jobs(c)], retired \in SUBSET Jobs(c) :
        Shares(c, own, retired)
  BY DEF Account
<1> DEFINE has == [own EXCEPT ![w] = @ \cup {j}]
<1>2. /\ has \in [Workers -> SUBSET Jobs(c)] /\ has[w] = own[w] \cup {j}
      /\ \A v \in Workers \ {w} : has[v] = own[v]
  OBVIOUS
<1>3. j \notin retired /\ \A v \in Workers : j \notin own[v]
  BY <1>1 DEF Shares
<1>4. Cardinality(has[w]) = cExecuted'[w]
  <2>1. IsFiniteSet(own[w]) /\ Cardinality(own[w]) = cExecuted[w]
    BY <1>1, JobsCount DEF Shares
  <2>2. Cardinality(own[w] \cup {j}) = Cardinality(own[w]) + 1
    BY <1>3, <2>1, FS_AddElement
  <2> QED BY <1>2, <2>1, <2>2
<1> HIDE DEF has
<1>5. done'[c] = retired \cup UNION {has[v] : v \in Workers}
  <2>1. done[c] = retired \cup UNION {own[v] : v \in Workers}
    BY <1>1 DEF Shares
  <2>2. ASSUME NEW x PROVE x \in done'[c] <=> x \in retired \/ \E v \in Workers : x \in has[v]
    BY <1>2, <2>1
  <2> QED BY <2>2
<1>6. ASSUME NEW v \in Workers
      PROVE  /\ has[v] \cap retired = {}
             /\ \A u \in Workers : u # v => has[v] \cap has[u] = {}
             /\ IF Within(v, c)' THEN Cardinality(has[v]) = cExecuted'[v] ELSE has[v] = {}
  <2>1. /\ own[v] \cap retired = {}
        /\ \A u \in Workers : u # v => own[v] \cap own[u] = {}
        /\ IF Within(v, c) THEN Cardinality(own[v]) = cExecuted[v] ELSE own[v] = {}
    BY <1>1 DEF Shares
  <2>2. CASE v = w
    BY <1>2, <1>3, <1>4, <2>1, <2>2
  <2>3. CASE v # w
    BY <1>2, <1>3, <2>1, <2>3
  <2> QED BY <2>2, <2>3
<1>7. Shares(c, has, retired)'
  BY <1>1, <1>2, <1>5, <1>6 DEF Shares
<1> QED BY <1>2, <1>7 DEF Account

\* A worker subtracts its share, and if that is all that was left, every job
\* of the chain has returned.
LEMMA AccountRetire ==
  ASSUME NEW c \in Chains, NEW w \in Workers, Account(c), done'[c] = done[c],
         cRemaining[c] \in Int, cExecuted[w] \in Nat,
         cRemaining'[c] = cRemaining[c] - cExecuted[w],
         Within(w, c), ~Within(w, c)',
         \A v \in Workers \ {w} :
           (Within(v, c)' <=> Within(v, c)) /\ cExecuted'[v] = cExecuted[v]
  PROVE  /\ Account(c)' /\ cRemaining'[c] >= 0
         /\ cRemaining[c] = cExecuted[w] => done[c] = Jobs(c)
<1>1. PICK own \in [Workers -> SUBSET Jobs(c)], retired \in SUBSET Jobs(c) :
        Shares(c, own, retired)
  BY DEF Account
<1> DEFINE has == [own EXCEPT ![w] = {}]
           gone == retired \cup own[w]
<1>2. /\ has \in [Workers -> SUBSET Jobs(c)] /\ has[w] = {} /\ gone \in SUBSET Jobs(c)
      /\ \A v \in Workers \ {w} : has[v] = own[v]
  OBVIOUS
<1>3. /\ Cardinality(gone) = Cardinality(retired) + cExecuted[w]
      /\ Cardinality(gone) \in Nat /\ Cardinality(retired) \in Nat /\ cJobs[c] \in Nat
      /\ Cardinality(gone) <= cJobs[c] /\ (Cardinality(gone) = cJobs[c] => gone = Jobs(c))
  <2>1. /\ IsFiniteSet(own[w]) /\ Cardinality(own[w]) = cExecuted[w]
        /\ IsFiniteSet(retired) /\ own[w] \cap retired = {}
        /\ Cardinality(retired) \in Nat /\ Cardinality(own[w]) \in Nat /\ cJobs[c] \in Nat
        /\ IsFiniteSet(Jobs(c)) /\ Cardinality(Jobs(c)) = cJobs[c]
    BY <1>1, JobsCount DEF Shares
  <2>5. Cardinality(gone) \in Nat
    BY <1>2, JobsCount
  <2>2. Cardinality(gone) = Cardinality(retired) + Cardinality(own[w]) - Cardinality(retired \cap own[w])
    BY <2>1, FS_Union
  <2>3. retired \cap own[w] = {} /\ Cardinality({}) = 0
    BY <2>1, FS_EmptySet
  <2>4. /\ Cardinality(gone) <= cJobs[c]
        /\ Cardinality(gone) = cJobs[c] => gone = Jobs(c)
    BY <1>2, <2>1, FS_Subset
  <2> HIDE DEF gone
  <2> QED BY <2>1, <2>2, <2>3, <2>4, <2>5
<1>4. /\ cJobs[c] - Cardinality(retired) <= cRemaining[c]
      /\ c \in Range(Roots) => cJobs[c] - Cardinality(retired) = cRemaining[c]
      /\ done[c] = retired \cup UNION {own[v] : v \in Workers}
  BY <1>1 DEF Shares
<1>5. done'[c] = gone \cup UNION {has[v] : v \in Workers}
  <2> HIDE DEF has
  <2> QED BY <1>2, <1>4
<1>6. ASSUME NEW v \in Workers
      PROVE  /\ has[v] \cap gone = {}
             /\ \A u \in Workers : u # v => has[v] \cap has[u] = {}
             /\ IF Within(v, c)' THEN Cardinality(has[v]) = cExecuted'[v] ELSE has[v] = {}
  <2>1. /\ own[v] \cap retired = {}
        /\ \A u \in Workers : u # v => own[v] \cap own[u] = {}
        /\ IF Within(v, c) THEN Cardinality(own[v]) = cExecuted[v] ELSE own[v] = {}
    BY <1>1 DEF Shares
  <2> HIDE DEF has
  <2>2. CASE v = w
    BY <1>2, <2>1, <2>2
  <2>3. CASE v # w
    BY <1>2, <2>1, <2>3
  <2> QED BY <2>2, <2>3
<1> HIDE DEF has, gone
<1>7. /\ cJobs[c] - Cardinality(gone) <= cRemaining'[c]
      /\ c \in Range(Roots) => cJobs[c] - Cardinality(gone) = cRemaining'[c]
      /\ cRemaining'[c] >= 0
      /\ cRemaining[c] = cExecuted[w] => gone = Jobs(c)
  BY <1>3, <1>4
<1>8. Shares(c, has, gone)'
  BY <1>2, <1>5, <1>6, <1>7 DEF Shares
<1>9. gone = Jobs(c) => done[c] = Jobs(c)
  BY <1>1, <1>4 DEF gone
<1> QED BY <1>2, <1>7, <1>8, <1>9 DEF Account

\* A chain with nothing left has run to its end.
LEMMA AccountZero ==
  ASSUME NEW c \in Chains, Account(c), cRemaining[c] = 0
  PROVE  done[c] = Jobs(c)
<1>1. PICK own \in [Workers -> SUBSET Jobs(c)], retired \in SUBSET Jobs(c) :
        Shares(c, own, retired)
  BY DEF Account
<1>2. /\ IsFiniteSet(Jobs(c)) /\ Cardinality(Jobs(c)) = cJobs[c] /\ cJobs[c] \in Nat
      /\ Cardinality(retired) \in Nat
  BY JobsCount
<1>3. Cardinality(retired) <= cJobs[c] /\ (Cardinality(retired) = cJobs[c] => retired = Jobs(c))
  BY <1>2, FS_Subset
<1>4. cJobs[c] - Cardinality(retired) <= 0
  BY <1>1 DEF Shares
<1>5. retired = Jobs(c)
  BY <1>2, <1>3, <1>4
<1> QED BY <1>1, <1>5 DEF Shares
-----------------------------------------------------------------------------
(* A worker that finds its share is all that was left has seen the chain
   through. *)

LEMMA Tree ==
  ASSUME NEW c \in Chains, NEW d \in Range(Deps[c])
  PROVE  /\ d \in Chains /\ d \notin Range(Roots)
         /\ \A b \in Chains : d \in Range(Deps[b]) => b = c
<1>1. /\ \A b \in Chains : Deps[b] \in Seq(Chains)
                           /\ Range(Deps[b]) = {Deps[b][i] : i \in 1 .. Len(Deps[b])}
      /\ Range(Roots) = {Roots[i] : i \in 1 .. Len(Roots)}
  <2>1. Roots \in Seq(Chains) /\ \A b \in Chains : Deps[b] \in Seq(Chains)
    BY JobExecutionAssumption
  <2> QED BY <2>1, RangeOf
<1>2. PICK i \in 1 .. Len(Deps[c]) : d = Deps[c][i]
  BY <1>1
<1>3. Deps[c][i] \in Chains
  BY <1>1
<1>4. d \notin Range(Roots)
  BY <1>1, <1>2, TreeAssumption
<1>5. ASSUME NEW b \in Chains, d \in Range(Deps[b]) PROVE b = c
  <2>0. d \in {Deps[b][j] : j \in 1 .. Len(Deps[b])}
    BY <1>1, <1>5
  <2>1. PICK j \in 1 .. Len(Deps[b]) : Deps[b][j] = Deps[c][i]
    BY <1>2, <2>0
  <2> QED BY <2>1, TreeAssumption
<1> QED BY <1>2, <1>3, <1>4, <1>5

LEMMA ArrayChains ==
  ASSUME TypeInv, NEW w \in Workers
  PROVE  Array(w) \in Seq(Chains) /\ Range(Array(w)) \subseteq Chains
<1>1. Array(w) \in Seq(Chains)
  BY JobExecutionAssumption DEF TypeInv, VarsInv, Array
<1> QED BY <1>1, RangeOf

LEMMA ShareInit == ExecutionInit => ShareInv
<1> SUFFICES ASSUME ExecutionInit PROVE ShareInv
  OBVIOUS
<1>1. Range(<<>>) = {}
  BY DEF Range
<1>2. Published = {} /\ \A w \in Workers : Range(pending[w]) = {}
  BY <1>1 DEF ExecutionInit, Published
<1>3. /\ \A w \in Workers : chain[w] = NoChain /\ executePc[w] \notin {"deps", "fix"}
      /\ \A c \in Chains : claimed[c] = {} /\ cRemaining[c] = 0
  BY DEF ExecutionInit
<1> QED BY <1>2, <1>3 DEF ShareInv, FixInv, Handed

\* Steps that submit nothing, return from no job and subtract nothing.
LEMMA ShareQuiet ==
  ASSUME TypeInv, ShareInv,
         UNCHANGED <<pChains, done, cRemaining, pending>>,
         \A c \in Chains : claimed'[c] # {} => c \in Published,
         FixInv',
         \A v \in Workers :
           /\ chain'[v] # NoChain => chain'[v] \in Published
           /\ executePc'[v] \in {"deps", "fix"} /\ chain'[v] # NoChain =>
                executePc[v] \in {"deps", "fix"} /\ chain'[v] = chain[v]
           /\ \A c \in Chains :
                \/ Within(v, c) /\ Within(v, c)' /\ cExecuted'[v] = cExecuted[v]
                \/ ~Within(v, c) /\ (Within(v, c)' => cExecuted'[v] = 0)
  PROVE  ShareInv'
<1>1. Published' = Published /\ \A c \in Chains : Handed(c)' <=> Handed(c)
  BY HandsStay
<1>2. ASSUME NEW c \in Chains, Handed(c)' PROVE Account(c)'
  <2>1. cRemaining[c] \in Int
    BY DEF TypeInv, VarsInv
  <2>2. Account(c)
    BY <1>1, <1>2 DEF ShareInv
  <2>3. \A v \in Workers :
           \/ Within(v, c) /\ Within(v, c)' /\ cExecuted'[v] = cExecuted[v]
           \/ ~Within(v, c) /\ (Within(v, c)' => cExecuted'[v] = 0)
    OBVIOUS
  <2> QED BY <2>1, <2>2, <2>3, AccountKept
<1>3. ASSUME NEW v \in Workers, executePc'[v] \in {"deps", "fix"}, chain'[v] # NoChain
      PROVE  done'[chain'[v]] = Jobs(chain'[v])
  BY <1>3 DEF ShareInv
<1>4. ASSUME NEW c \in Chains, NEW d \in Range(Deps[c]), Handed(d)' PROVE done'[c] = Jobs(c)
  BY <1>1, <1>4, Tree DEF ShareInv
<1>5. \A c \in Chains : cRemaining'[c] >= 0
  BY DEF ShareInv
<1>7. /\ \A v \in Workers : chain'[v] # NoChain => chain'[v] \in Published'
      /\ \A c \in Chains : claimed'[c] # {} => c \in Published'
  BY <1>1
<1> QED BY <1>2, <1>3, <1>4, <1>5, <1>7 DEF ShareInv

\* Nothing of it is undone where nobody gets to it, hands nothing out and
\* changes the count of no chain that is not handed out.
LEMMA FixQuiet ==
  ASSUME TypeInv, FixInv,
         \A c \in Chains : Handed(c)' => Handed(c),
         \A c \in Chains : Handed(c) => Handed(c)',
         \A c \in Chains : Handed(c) \/ cRemaining'[c] = cRemaining[c],
         Arming' => Arming,
         \A v \in Workers : executePc'[v] = "fix" =>
           executePc[v] = "fix" /\ chain'[v] = chain[v] /\ arming'[v] = arming[v]
  PROVE  FixInv'
<1>1. ASSUME NEW v \in Workers, executePc'[v] = "fix"
      PROVE  /\ chain'[v] # NoChain => Range(arming'[v]) \cap Range(Roots) = {}
             /\ \A c \in Range(Array(v)') :
                  c \in Range(arming'[v]) \/ Handed(c)' \/ cRemaining'[c] = cJobs[c]
  <2>1. executePc[v] = "fix" /\ chain'[v] = chain[v] /\ arming'[v] = arming[v] /\ Array(v)' = Array(v)
    BY <1>1 DEF Array
  <2>2. Range(Array(v)) \subseteq Chains
    BY ArrayChains
  <2> QED BY <2>1, <2>2 DEF FixInv
<1> QED BY <1>1 DEF FixInv

LEMMA NotHanded ==
  ASSUME ShareInv, ClaimInv, TypeInv, NEW c \in Chains, ~Handed(c)
  PROVE  claimed[c] = {} /\ done[c] = {} /\ \A v \in Workers : chain[v] # c
<1>1. c \notin Published /\ c # NoChain
  BY JobExecutionAssumption DEF Handed
<1> QED BY <1>1 DEF ShareInv, ClaimInv

\* A worker takes up the array it is to submit.
LEMMA ShareSubmit ==
  ASSUME TypeInv, ClaimInv, ShareInv, NEW w \in Workers,
         SubmitDeps(w) \/ (w = 0 /\ SubmitRoots)
  PROVE  ShareInv'
<1>0. /\ executePc \in [Workers -> Places] /\ arming \in [Workers -> Seq(Chains)] /\ 0 \in Workers
      /\ NoChain \notin Chains
  BY MainIsWorker, JobExecutionAssumption DEF TypeInv, VarsInv
<1>1. /\ UNCHANGED <<pChains, claimed, done, cRemaining, pending, chain, cExecuted>>
      /\ arming' = [arming EXCEPT ![w] = Array(w)]
      /\ \/ executePc[w] = "deps" /\ chain[w] \in Chains /\ executePc'[w] = "fix"
         \/ executePc[w] = "submit" /\ w = 0 /\ chain[w] = NoChain /\ executePc'[w] \in {"fix", "check"}
      /\ \A v \in Workers \ {w} : executePc'[v] = executePc[v]
  BY <1>0 DEF SubmitDeps, SubmitRoots, Goto, Array, shared, jobs, TypeInv, At
<1>2. /\ arming'[w] = Array(w) /\ \A v \in Workers \ {w} : arming'[v] = arming[v]
      /\ \A v \in Workers : Array(v)' = Array(v)
  BY <1>0, <1>1 DEF Array
<1>3. \A c \in Chains : Handed(c)' <=> Handed(c)
  BY <1>1, HandsStay
<1>4. Arming' => Arming
  BY <1>0, <1>1 DEF Arming
<1>5. ASSUME NEW v \in Workers, executePc'[v] = "fix"
      PROVE  /\ chain'[v] # NoChain => Range(arming'[v]) \cap Range(Roots) = {}
             /\ \A c \in Range(Array(v)') :
                  c \in Range(arming'[v]) \/ Handed(c)' \/ cRemaining'[c] = cJobs[c]
  <2>1. CASE v = w
    <3>1. chain'[w] # NoChain => chain[w] \in Chains /\ Array(w) = Deps[chain[w]]
      BY <1>1 DEF Array
    <3>2. chain'[w] # NoChain => Range(arming'[w]) \cap Range(Roots) = {}
      BY <1>2, <3>1, Tree
    <3> QED BY <1>2, <2>1, <3>2
  <2>2. CASE v # w
    <3>1. /\ executePc[v] = "fix" /\ chain'[v] = chain[v] /\ arming'[v] = arming[v]
          /\ Range(Array(v)) \subseteq Chains
      BY <1>1, <1>2, <1>5, <2>2, ArrayChains
    <3> QED BY <1>1, <1>2, <1>3, <3>1 DEF ShareInv, FixInv
  <2> QED BY <2>1, <2>2
<1>6. FixInv'
  BY <1>3, <1>4, <1>5 DEF ShareInv, FixInv
<1>7. ASSUME NEW v \in Workers
      PROVE  /\ chain'[v] # NoChain => chain'[v] \in Published
             /\ executePc'[v] \in {"deps", "fix"} /\ chain'[v] # NoChain =>
                  executePc[v] \in {"deps", "fix"} /\ chain'[v] = chain[v]
             /\ \A c \in Chains :
                  \/ Within(v, c) /\ Within(v, c)' /\ cExecuted'[v] = cExecuted[v]
                  \/ ~Within(v, c) /\ (Within(v, c)' => cExecuted'[v] = 0)
  BY <1>1 DEF ShareInv, Within
<1>8. \A c \in Chains : claimed'[c] # {} => c \in Published
  BY <1>1 DEF ShareInv
<1> QED BY <1>1, <1>6, <1>7, <1>8, ShareQuiet

\* Only where a worker is through with its array does it hand one out.
LEMMA FixHands ==
  ASSUME TypeInv, FixInv, NEW w \in Workers, FixForSubmit(w),
         NEW c \in Chains, Handed(c)', ~Handed(c)
  PROVE  c \in Range(Array(w)) /\ cRemaining'[c] = cJobs[c] /\ executePc'[w] = "publish"
<1> DEFINE h == Head(arming[w])
<1>0. executePc[w] = "fix" /\ cRemaining \in [Chains -> Int] /\ Range(<<>>) = {}
  BY DEF FixForSubmit, TypeInv, VarsInv, Range
<1>1. /\ h \in Chains /\ cRemaining' = [cRemaining EXCEPT ![h] = cJobs[h]]
      /\ Range(arming[w]) \subseteq {h} \cup Range(arming'[w])
      /\ \/ executePc'[w] = "publish" /\ arming'[w] = <<>> /\ pending'[w] = Array(w)
         \/ executePc'[w] = "fix" /\ pending'[w] = pending[w]
      /\ \A v \in Workers \ {w} : pending'[v] = pending[v]
  BY FixFacts
<1> HIDE DEF h
<1>2. Published' = Published
  BY DEF FixForSubmit, Published
<1>3. pending'[w] = Array(w) /\ arming'[w] = <<>> /\ c \in Range(Array(w)) /\ executePc'[w] = "publish"
  BY <1>1, <1>2 DEF Handed
<1>4. c \in Range(arming[w]) \/ cRemaining[c] = cJobs[c]
  BY <1>0, <1>3 DEF FixInv
<1>5. c = h \/ cRemaining[c] = cJobs[c]
  BY <1>0, <1>1, <1>3, <1>4
<1>6. cRemaining'[c] = cJobs[c]
  BY <1>0, <1>1, <1>5
<1> QED BY <1>3, <1>6

\* A worker arms a chain: one that nobody has yet, or one below the roots.
LEMMA ShareFix ==
  ASSUME TypeInv, ClaimInv, ShareInv, NEW w \in Workers, FixForSubmit(w)
  PROVE  ShareInv'
<1> DEFINE h == Head(arming[w])
<1>0. /\ executePc \in [Workers -> Places] /\ 0 \in Workers /\ NoChain \notin Chains
      /\ chain \in [Workers -> Chains \cup {NoChain}]
      /\ \A c \in Chains : cRemaining[c] \in Int /\ cRemaining[c] >= 0 /\ cJobs[c] \in Nat
      /\ cRemaining \in [Chains -> Int]
  BY MainIsWorker, JobExecutionAssumption DEF TypeInv, VarsInv, ShareInv
<1>1. /\ UNCHANGED <<pChains, claimed, done, chain, cExecuted>> /\ executePc[w] = "fix"
      /\ chain[w] = NoChain => w = 0
  BY <1>0 DEF FixForSubmit, jobs, TypeInv, At
<1>2. /\ h \in Chains /\ cRemaining' = [cRemaining EXCEPT ![h] = cJobs[h]]
      /\ Range(arming[w]) \subseteq {h} \cup Range(arming'[w])
      /\ h \in Range(arming[w]) /\ pending[w] = <<>>
      /\ Range(arming'[w]) \subseteq Range(Deps[h]) \cup Range(arming[w])
      /\ \/ executePc'[w] = "publish" /\ arming'[w] = <<>> /\ pending'[w] = Array(w)
         \/ executePc'[w] = "fix" /\ pending'[w] = pending[w]
      /\ \A v \in Workers \ {w} :
           executePc'[v] = executePc[v] /\ arming'[v] = arming[v] /\ pending'[v] = pending[v]
  BY FixFacts
<1> HIDE DEF h
<1>3. /\ cRemaining'[h] = cJobs[h] /\ \A c \in Chains \ {h} : cRemaining'[c] = cRemaining[c]
  BY <1>0, <1>2
<1>4. Published' = Published /\ \A v \in Workers : Array(v)' = Array(v)
  BY <1>1 DEF Published, Array
<1>5. \A v \in Workers : Range(Array(v)) \subseteq Chains
  BY ArrayChains
<1>6. Range(<<>>) = {}
  BY DEF Range
<1>7. chain[w] = NoChain => \A c \in Chains : ~Handed(c)
  BY <1>1 DEF ShareInv, FixInv, Arming
<1>8. chain[w] # NoChain => /\ chain[w] \in Chains /\ done[chain[w]] = Jobs(chain[w])
                            /\ chain[w] \in Published /\ Array(w) = Deps[chain[w]]
                            /\ h \notin Range(Roots)
  BY <1>0, <1>1, <1>2 DEF ShareInv, FixInv, Array
<1>9. ASSUME NEW c \in Chains, Handed(c)', ~Handed(c)
      PROVE  /\ c \in Range(Array(w)) /\ cRemaining'[c] = cJobs[c]
             /\ executePc'[w] = "publish"
  BY <1>9, FixHands DEF ShareInv
<1>10. \A c \in Chains : Handed(c) => Handed(c)'
  BY <1>2, <1>4, <1>6 DEF Handed
<1>11. ASSUME NEW c \in Chains, Handed(c)' PROVE Account(c)'
  <2>1. CASE Handed(c)
    <3>1. Account(c) /\ cRemaining[c] \in Int /\ done'[c] = done[c]
      BY <1>0, <1>1, <2>1 DEF ShareInv
    <3>2. \/ cRemaining'[c] = cRemaining[c]
          \/ c \notin Range(Roots) /\ cRemaining'[c] = cJobs[c]
      BY <1>3, <1>7, <1>8, <2>1
    <3>3. ASSUME NEW v \in Workers
          PROVE  (Within(v, c)' <=> Within(v, c)) /\ cExecuted'[v] = cExecuted[v]
      BY <1>1, <1>2 DEF Within
    <3> QED BY <3>1, <3>2, <3>3, AccountKept
  <2>2. CASE ~Handed(c)
    <3>1. done[c] = {} /\ \A v \in Workers : chain[v] # c
      BY <2>2, NotHanded
    <3>2. cRemaining'[c] = cJobs[c]
      BY <1>9, <1>11, <2>2
    <3>3. done'[c] = {} /\ \A v \in Workers : ~Within(v, c)'
      BY <1>1, <3>1 DEF Within
    <3> QED BY <3>2, <3>3, AccountFresh
  <2> QED BY <2>1, <2>2
<1>12. ASSUME NEW c \in Chains, NEW d \in Range(Deps[c]), Handed(d)' PROVE done'[c] = Jobs(c)
  <2>1. d \in Chains /\ d \notin Range(Roots)
        /\ \A b \in Chains : d \in Range(Deps[b]) => b = c
    BY Tree
  <2>2. CASE Handed(d)
    BY <1>1, <2>2 DEF ShareInv
  <2>3. CASE ~Handed(d)
    <3>1. d \in Range(Array(w))
      BY <1>9, <1>12, <2>1, <2>3
    <3>2. chain[w] # NoChain
      BY <2>1, <3>1 DEF Array
    <3> QED BY <1>1, <1>8, <2>1, <3>1, <3>2
  <2> QED BY <2>2, <2>3
<1>13. FixInv'
  <2>1. Arming' => \A c \in Chains : ~Handed(c)'
    <3> SUFFICES ASSUME Arming', NEW c \in Chains, Handed(c)' PROVE FALSE
      OBVIOUS
    <3>1. Arming
      BY <1>1, <1>2, <1>0 DEF Arming
    <3>2. ~Handed(c)
      BY <3>1 DEF ShareInv, FixInv
    <3>3. executePc'[w] = "publish" /\ (chain[w] # NoChain => Handed(chain[w]))
      BY <1>8, <1>9, <3>2 DEF Handed
    <3>4. chain[w] = NoChain /\ w = 0
      BY <1>1, <1>8, <3>1, <3>3 DEF ShareInv, FixInv
    <3> QED BY <1>1, <3>3, <3>4 DEF Arming
  <2>2. ASSUME NEW v \in Workers, executePc'[v] = "fix", chain'[v] # NoChain
        PROVE  Range(arming'[v]) \cap Range(Roots) = {}
    <3>1. CASE v = w
      <4>1. Range(arming[w]) \cap Range(Roots) = {}
        BY <1>1, <2>2, <3>1 DEF ShareInv, FixInv
      <4>2. Range(Deps[h]) \cap Range(Roots) = {}
        BY <1>2, Tree
      <4> QED BY <1>2, <3>1, <4>1, <4>2
    <3>2. CASE v # w
      BY <1>1, <1>2, <2>2, <3>2 DEF ShareInv, FixInv
    <3> QED BY <3>1, <3>2
  <2>3. ASSUME NEW v \in Workers, executePc'[v] = "fix", NEW c \in Range(Array(v))
        PROVE  c \in Range(arming'[v]) \/ Handed(c)' \/ cRemaining'[c] = cJobs[c]
    <3>1. c \in Chains /\ executePc[v] = "fix"
      BY <1>1, <1>2, <1>5, <2>3
    <3>2. c \in Range(arming[v]) \/ Handed(c) \/ cRemaining[c] = cJobs[c]
      BY <2>3, <3>1 DEF ShareInv, FixInv
    <3>3. CASE c \in Range(arming[v])
      BY <1>2, <1>3, <3>3
    <3>4. CASE cRemaining[c] = cJobs[c]
      BY <1>3, <3>1, <3>4
    <3>5. CASE Handed(c)
      BY <1>10, <3>1, <3>5
    <3> QED BY <3>2, <3>3, <3>4, <3>5
  <2> QED BY <1>1, <1>4, <2>1, <2>2, <2>3 DEF FixInv
<1>15. \A c \in Chains : cRemaining'[c] >= 0
  BY <1>0, <1>3
<1>16. ASSUME NEW v \in Workers, executePc'[v] \in {"deps", "fix"}, chain'[v] # NoChain
       PROVE  done'[chain'[v]] = Jobs(chain'[v])
  BY <1>1, <1>2, <1>16 DEF ShareInv
<1> QED BY <1>1, <1>4, <1>11, <1>12, <1>13, <1>15, <1>16 DEF ShareInv

LEMMA SharePublish ==
  ASSUME TypeInv, ClaimInv, ShareInv, NEW w \in Workers, Publish(w)
  PROVE  ShareInv'
<1>1. executePc \in [Workers -> Places] /\ 0 \in Workers
  BY MainIsWorker DEF TypeInv, VarsInv
<1>2. /\ Head(pending[w]) \in Chains
      /\ Published' = Published \cup {Head(pending[w])}
      /\ Range(pending[w]) = {Head(pending[w])} \cup Range(pending'[w])
      /\ \A v \in Workers \ {w} : pending'[v] = pending[v]
  BY PublishFacts
<1>3. UNCHANGED <<claimed, done, cRemaining, chain, cExecuted, arming>>
  BY DEF Publish, jobs
<1>4. /\ executePc[w] = "publish" /\ executePc'[w] \in {"publish", "check", "pick"}
      /\ \A v \in Workers \ {w} : executePc'[v] = executePc[v]
  BY <1>1 DEF Publish, Goto
<1>5. \A c \in Chains : Handed(c)' => Handed(c)
  BY <1>2 DEF Handed
<1>7. FixInv'
  <2>1. Arming' => Arming
    BY <1>1, <1>3, <1>4 DEF Arming
  <2>2. \A c \in Chains : Handed(c) => Handed(c)'
    BY <1>2 DEF Handed
  <2> QED BY <1>3, <1>4, <1>5, <2>1, <2>2, FixQuiet DEF ShareInv
<1>8. ASSUME NEW c \in Chains, Handed(c)' PROVE Account(c)'
  <2>1. Account(c) /\ cRemaining[c] \in Int /\ UNCHANGED <<done, cRemaining>>
    BY <1>3, <1>5, <1>8 DEF ShareInv, TypeInv, VarsInv
  <2>2. ASSUME NEW v \in Workers
        PROVE  (Within(v, c)' <=> Within(v, c)) /\ cExecuted'[v] = cExecuted[v]
    BY <1>3, <1>4 DEF Within
  <2> QED BY <2>1, <2>2, AccountKept
<1>9. ASSUME NEW c \in Chains, NEW d \in Range(Deps[c]), Handed(d)' PROVE done'[c] = Jobs(c)
  <2>1. d \in Chains
    BY Tree
  <2>2. Handed(d)
    BY <1>5, <1>9, <2>1
  <2> QED BY <1>3, <2>2 DEF ShareInv
<1>10. \A v \in Workers : executePc'[v] \in {"deps", "fix"} /\ chain'[v] # NoChain =>
         done'[chain'[v]] = Jobs(chain'[v])
  BY <1>3, <1>4 DEF ShareInv
<1>11. /\ \A v \in Workers : chain'[v] # NoChain => chain'[v] \in Published'
       /\ \A c \in Chains : claimed'[c] # {} => c \in Published'
       /\ \A c \in Chains : cRemaining'[c] >= 0
  BY <1>2, <1>3 DEF ShareInv
<1> QED BY <1>7, <1>8, <1>9, <1>10, <1>11 DEF ShareInv

LEMMA ShareStep ==
  ASSUME TypeInv, ClaimInv, ShareInv, [ExecutionNext]_executionVars
  PROVE  ShareInv'
<1>0. /\ executePc \in [Workers -> Places] /\ chain \in [Workers -> Chains \cup {NoChain}]
      /\ cExecuted \in [Workers -> Nat] /\ 0 \in Workers
      /\ cRemaining \in [Chains -> Int]
      /\ done \in [Chains -> SUBSET Nat] /\ claimed \in [Chains -> SUBSET Nat]
      /\ \A v \in Workers : chain[v] # NoChain => chain[v] \in Published
      /\ \A c \in Chains : claimed[c] # {} => c \in Published
  BY MainIsWorker DEF TypeInv, VarsInv, JobsInv, ShareInv
<1> DEFINE Still == UNCHANGED <<pChains, done, cRemaining, hands>>
           Quiet(w) ==
             /\ \A v \in Workers \ {w} :
                  executePc'[v] = executePc[v] /\ chain'[v] = chain[v] /\ cExecuted'[v] = cExecuted[v]
             /\ executePc'[w] \notin {"submit", "deps", "fix"}
             /\ chain'[w] # NoChain => chain'[w] \in Published
             /\ \A c \in Chains :
                  \/ Within(w, c) /\ Within(w, c)' /\ cExecuted'[w] = cExecuted[w]
                  \/ ~Within(w, c) /\ (Within(w, c)' => cExecuted'[w] = 0)
<1>1. ASSUME NEW w \in Workers, Still, Quiet(w),
             \A c \in Chains : claimed'[c] # {} => c \in Published
      PROVE  ShareInv'
  <2>1. ASSUME NEW v \in Workers
        PROVE  /\ chain'[v] # NoChain => chain'[v] \in Published
               /\ executePc'[v] \in {"deps", "fix"} => executePc[v] = executePc'[v] /\ chain'[v] = chain[v]
               /\ \A c \in Chains :
                    \/ Within(v, c) /\ Within(v, c)' /\ cExecuted'[v] = cExecuted[v]
                    \/ ~Within(v, c) /\ (Within(v, c)' => cExecuted'[v] = 0)
    BY <1>0, <1>1 DEF Within
  <2>2. Arming' => Arming
    BY <1>0, <1>1 DEF Arming
  <2>3. UNCHANGED <<pChains, done, cRemaining, arming, pending>>
    BY <1>1 DEF hands
  <2>4. \A c \in Chains : Handed(c)' <=> Handed(c)
    BY <2>3, HandsStay
  <2>5. FixInv'
    BY <2>1, <2>2, <2>3, <2>4, FixQuiet DEF ShareInv
  <2> QED BY <1>1, <2>1, <2>3, <2>5, ShareQuiet
<1>2. CASE SubmitRoots
  BY <1>0, <1>2, ShareSubmit
<1>3. ASSUME NEW w \in Workers, SubmitDeps(w) \/ FixForSubmit(w) PROVE ShareInv'
  BY <1>3, ShareSubmit, ShareFix
<1>4. ASSUME NEW w \in Workers, Publish(w) PROVE ShareInv'
  BY <1>4, SharePublish
<1>5. CASE UNCHANGED executionVars
  <2>1. UNCHANGED <<pChains, claimed, done, cRemaining, arming, pending, executePc, chain, cExecuted>>
    BY <1>5 DEF executionVars, shared, jobs, hands
  <2>2. /\ \A v \in Workers : executePc'[v] = executePc[v]
        /\ \A v \in Workers : chain'[v] = chain[v] /\ cExecuted'[v] = cExecuted[v]
        /\ \A v \in Workers, c \in Chains : Within(v, c)' <=> Within(v, c)
    BY <2>1 DEF Within
  <2>3. Arming' <=> Arming
    BY <2>1 DEF Arming
  <2>4. \A c \in Chains : Handed(c)' <=> Handed(c)
    BY <2>1, HandsStay
  <2>5. FixInv'
    BY <2>1, <2>3, <2>4, FixQuiet DEF ShareInv
  <2> QED BY <1>0, <2>1, <2>2, <2>5, ShareQuiet
<1>6. ASSUME NEW w \in Workers,
             Check(w) \/ Mark(w) \/ Level(w) \/ Pick(w) \/ Higher(w) \/ Leave(w)
             \/ EnterChain(w) \/ Claim(w) \/ (Look /\ w = 0)
      PROVE  ShareInv'
  <2>1. CASE Check(w) \/ Mark(w) \/ Level(w) \/ Higher(w) \/ Leave(w) \/ (Look /\ w = 0)
    <3>1. Still /\ UNCHANGED <<claimed, chain, cExecuted>>
      BY <2>1 DEF Check, Mark, Level, Higher, Leave, Look, shared, jobs
    <3>2. /\ executePc[w] \notin {"claim", "run"}
          /\ executePc'[w] \notin {"submit", "deps", "fix", "claim", "run"}
          /\ \A v \in Workers \ {w} : executePc'[v] = executePc[v]
      BY <1>0, <2>1 DEF Check, Mark, Level, Higher, Leave, Look, Goto
    <3>3. Quiet(w)
      BY <1>0, <3>1, <3>2 DEF Within
    <3> QED BY <1>0, <1>1, <3>1, <3>3
  <2>2. CASE Pick(w)
    <3>1. Still /\ UNCHANGED <<claimed, cExecuted>>
      BY <2>2 DEF Pick, shared
    <3>2. /\ executePc[w] = "pick" /\ executePc'[w] \in {"enter", "higher"}
          /\ \A v \in Workers \ {w} : executePc'[v] = executePc[v] /\ chain'[v] = chain[v]
      BY <1>0, <2>2 DEF Pick, Goto
    <3>3. chain'[w] # NoChain => chain'[w] \in Published
      BY <2>2, PickFacts
    <3>4. Quiet(w)
      BY <1>0, <3>1, <3>2, <3>3 DEF Within
    <3> QED BY <1>0, <1>1, <3>1, <3>4
  <2>3. CASE EnterChain(w)
    <3>1. Still /\ UNCHANGED <<claimed, chain>>
      BY <2>3 DEF EnterChain, shared
    <3>2. /\ executePc[w] = "enter" /\ executePc'[w] \in {"pick", "claim"}
          /\ executePc'[w] = "claim" => cExecuted'[w] = 0
          /\ \A v \in Workers \ {w} : executePc'[v] = executePc[v] /\ cExecuted'[v] = cExecuted[v]
      BY <1>0, <2>3 DEF EnterChain, Goto
    <3>3. Quiet(w)
      BY <1>0, <3>1, <3>2 DEF Within
    <3> QED BY <1>0, <1>1, <3>1, <3>3
  <2>4. CASE Claim(w)
    <3>1. Still /\ UNCHANGED <<chain, cExecuted>>
      BY <2>4 DEF Claim
    <3>2. /\ executePc[w] = "claim" /\ executePc'[w] = "run"
          /\ \A v \in Workers \ {w} : executePc'[v] = executePc[v]
      BY <1>0, <2>4 DEF Claim, Goto
    <3>3. Quiet(w)
      BY <1>0, <3>1, <3>2 DEF Within
    <3>4. chain[w] \in Chains /\ \A c \in Chains \ {chain[w]} : claimed'[c] = claimed[c]
      BY <1>0, <2>4, ClaimFacts
    <3>5. chain[w] \in Published
      BY <1>0, <3>4, JobExecutionAssumption
    <3> QED BY <1>0, <1>1, <3>1, <3>3, <3>4, <3>5
  <2> QED BY <1>6, <2>1, <2>2, <2>3, <2>4
<1>7. CASE Look
  BY <1>0, <1>6, <1>7
<1>8. ASSUME NEW w \in Workers, Run(w) PROVE ShareInv'
  <2> DEFINE p == chain[w]
             j == Mine(w)
  <2>1. /\ UNCHANGED <<pChains, claimed, cRemaining, arming, pending, chain>>
        /\ done' = [done EXCEPT ![p] = @ \cup {j}]
        /\ cExecuted' = [cExecuted EXCEPT ![w] = @ + 1]
        /\ executePc[w] = "run" /\ executePc' = [executePc EXCEPT ![w] = "claim"]
    BY <1>8 DEF Run, Goto, Mine, hands
  <2>2. p \in Chains /\ j \in claimed[p] \ done[p]
    BY <2>1 DEF TypeInv, At, ClaimInv
  <2>3. j \in Jobs(p) \ done[p]
    BY <2>2 DEF TypeInv, JobsInv
  <2> HIDE DEF j, p
  <2>4. /\ done'[p] = done[p] \cup {j} /\ \A c \in Chains \ {p} : done'[c] = done[c]
        /\ cExecuted'[w] = cExecuted[w] + 1
        /\ \A v \in Workers \ {w} : cExecuted'[v] = cExecuted[v] /\ executePc'[v] = executePc[v]
        /\ executePc'[w] = "claim"
    BY <1>0, <2>1, <2>2
  <2>5. Published' = Published /\ \A c \in Chains : Handed(c)' <=> Handed(c)
    BY <2>1, HandsStay
  <2>6. ASSUME NEW c \in Chains, Handed(c)' PROVE Account(c)'
    <3>1. Account(c) /\ cRemaining[c] \in Int /\ cRemaining' = cRemaining
      BY <1>0, <2>1, <2>5, <2>6 DEF ShareInv
    <3>2. CASE c = p
      <4>1. \A v \in Workers \ {w} :
              (Within(v, c)' <=> Within(v, c)) /\ cExecuted'[v] = cExecuted[v]
        BY <2>1, <2>4 DEF Within
      <4>2. Within(w, c) /\ Within(w, c)'
        BY <2>1, <2>4, <3>2 DEF Within, p
      <4> QED BY <2>3, <2>4, <3>1, <3>2, <4>1, <4>2, AccountRun
    <3>3. CASE c # p
      <4>1. ASSUME NEW v \in Workers
            PROVE  \/ Within(v, c) /\ Within(v, c)' /\ cExecuted'[v] = cExecuted[v]
                   \/ ~Within(v, c) /\ (Within(v, c)' => cExecuted'[v] = 0)
        BY <2>1, <2>4, <3>3 DEF Within, p
      <4>2. done'[c] = done[c]
        BY <2>4, <3>3
      <4> QED BY <3>1, <4>1, <4>2, AccountKept
    <3> QED BY <3>2, <3>3
  <2>7. \A c \in Chains : done[c] = Jobs(c) => done'[c] = Jobs(c)
    BY <2>3, <2>4
  <2>8. ASSUME NEW v \in Workers, executePc'[v] \in {"deps", "fix"}, chain'[v] # NoChain
        PROVE  done'[chain'[v]] = Jobs(chain'[v])
    <3>1. chain[v] \in Chains /\ done[chain[v]] = Jobs(chain[v])
      BY <1>0, <2>1, <2>4, <2>8 DEF ShareInv
    <3> QED BY <2>1, <2>7, <3>1
  <2>9. ASSUME NEW c \in Chains, NEW d \in Range(Deps[c]), Handed(d)' PROVE done'[c] = Jobs(c)
    <3>1. Handed(d)
      BY <2>5, <2>9, Tree
    <3> QED BY <2>7, <3>1 DEF ShareInv
  <2>10. FixInv'
    <3>1. Arming' => Arming
      BY <1>0, <2>1, <2>4 DEF Arming
    <3> QED BY <2>1, <2>4, <2>5, <3>1, FixQuiet DEF ShareInv
  <2>11. \A c \in Chains : cRemaining'[c] >= 0
    BY <2>1 DEF ShareInv
  <2> QED BY <1>0, <2>1, <2>5, <2>6, <2>8, <2>9, <2>10, <2>11 DEF ShareInv
<1>9. ASSUME NEW w \in Workers, Retire(w) PROVE ShareInv'
  <2>0. PICK p \in Chains : p = chain[w]
    BY <1>9 DEF Retire, TypeInv, At
  <2>1. /\ UNCHANGED <<pChains, claimed, done, arming, pending, chain, cExecuted>>
        /\ cRemaining' = [cRemaining EXCEPT ![p] = @ - cExecuted[w]]
        /\ executePc[w] = "claim" /\ executePc'[w] \in {"deps", "pick"}
        /\ executePc'[w] = "deps" => cRemaining[p] = cExecuted[w]
        /\ \A v \in Workers \ {w} : executePc'[v] = executePc[v]
    BY <1>0, <1>9, <2>0 DEF Retire, Goto, Share, Finished, jobs, hands
  <2>2. p \in Chains /\ p \in Published
    BY <1>0, <2>0, JobExecutionAssumption
  <2>3. /\ cRemaining'[p] = cRemaining[p] - cExecuted[w]
        /\ \A c \in Chains \ {p} : cRemaining'[c] = cRemaining[c]
    BY <1>0, <2>1, <2>2
  <2>4. Published' = Published /\ \A c \in Chains : Handed(c)' <=> Handed(c)
    BY <2>1, HandsStay
  <2>5. /\ Account(p)' /\ cRemaining'[p] >= 0
        /\ cRemaining[p] = cExecuted[w] => done[p] = Jobs(p)
    <3>1. Account(p) /\ cRemaining[p] \in Int /\ cExecuted[w] \in Nat /\ done'[p] = done[p]
      BY <1>0, <2>1, <2>2 DEF ShareInv, Handed
    <3>2. Within(w, p) /\ ~Within(w, p)'
      BY <2>0, <2>1 DEF Within
    <3>3. \A v \in Workers \ {w} :
            (Within(v, p)' <=> Within(v, p)) /\ cExecuted'[v] = cExecuted[v]
      BY <2>1 DEF Within
    <3> QED BY <2>0, <2>2, <2>3, <3>1, <3>2, <3>3, AccountRetire
  <2>6. ASSUME NEW c \in Chains, Handed(c)', c # p PROVE Account(c)'
    <3>1. Account(c) /\ cRemaining[c] \in Int /\ cRemaining'[c] = cRemaining[c] /\ done'[c] = done[c]
      BY <1>0, <2>1, <2>3, <2>4, <2>6 DEF ShareInv
    <3>2. ASSUME NEW v \in Workers
          PROVE  (Within(v, c)' <=> Within(v, c)) /\ cExecuted'[v] = cExecuted[v]
      BY <2>0, <2>1, <2>6 DEF Within
    <3> QED BY <3>1, <3>2, AccountKept
  <2>7. ASSUME NEW v \in Workers, executePc'[v] \in {"deps", "fix"}, chain'[v] # NoChain
        PROVE  done'[chain'[v]] = Jobs(chain'[v])
    <3>1. CASE v = w
      BY <2>0, <2>1, <2>5, <2>7, <3>1
    <3>2. CASE v # w
      BY <2>1, <2>7, <3>2 DEF ShareInv
    <3> QED BY <3>1, <3>2
  <2>8. ASSUME NEW c \in Chains, NEW d \in Range(Deps[c]), Handed(d)' PROVE done'[c] = Jobs(c)
    <3>1. Handed(d)
      BY <2>4, <2>8, Tree
    <3> QED BY <2>1, <3>1 DEF ShareInv
  <2>9. FixInv'
    <3>1. Arming' => Arming
      BY <1>0, <2>1 DEF Arming
    <3>2. Handed(p)
      BY <2>2 DEF Handed
    <3> QED BY <2>1, <2>3, <2>4, <3>1, <3>2, FixQuiet DEF ShareInv
  <2>10. \A c \in Chains : cRemaining'[c] >= 0
    BY <2>3, <2>5 DEF ShareInv
  <2> QED BY <1>0, <2>1, <2>4, <2>5, <2>6, <2>7, <2>8, <2>9, <2>10 DEF ShareInv
<1> HIDE DEF Still, Quiet
<1> QED
  BY <1>2, <1>3, <1>4, <1>5, <1>6, <1>7, <1>8, <1>9 DEF ExecutionNext, MainStep, ExecuteStep

LEMMA Invariants3 == ExecutionSpec => [](TypeInv /\ ClaimInv /\ ShareInv)
<1>1. ExecutionInit => TypeInv /\ ClaimInv /\ ShareInv
  BY TypeInit, ClaimInit, ShareInit
<1>2. (TypeInv /\ ClaimInv /\ ShareInv) /\ [ExecutionNext]_executionVars => (TypeInv /\ ClaimInv /\ ShareInv)'
  BY TypeStep, ClaimStep, ShareStep
<1> QED BY <1>1, <1>2, PTL DEF ExecutionSpec

\* The variables have their types; m_cRemaining, an unsigned word in the code,
\* is never brought below zero by the workers that subtract their shares.
THEOREM TypeCorrect == ExecutionSpec => []ExecutionTypeOK
<1>1. TypeInv /\ ClaimInv /\ ShareInv => ExecutionTypeOK
  <2> SUFFICES ASSUME TypeInv, ClaimInv, ShareInv PROVE ExecutionTypeOK
    OBVIOUS
  <2>1. \A l \in Levels : Range(pChains[l]) \subseteq Chains
    <3>1. \A l \in Levels : pChains[l] \in Seq(Chains)
      BY DEF TypeInv, VarsInv
    <3> QED BY <3>1, RangeOf
  <2>2. \A c \in Chains : done[c] \subseteq Jobs(c) /\ claimed[c] \subseteq Jobs(c)
    BY DEF TypeInv, JobsInv, ClaimInv
  <2>3. cRemaining \in [Chains -> Nat]
    <3>1. cRemaining \in [Chains -> Int] /\ \A c \in Chains : cRemaining[c] >= 0
      BY DEF TypeInv, VarsInv, ShareInv
    <3>2. \A c \in Chains : cRemaining[c] \in Nat
      BY <3>1
    <3> QED BY <3>1, <3>2
  <2>4. /\ bIsWorking \in [Workers -> BOOLEAN]
        /\ uCurrentChain \in [Workers -> [Levels -> Nat]]
        /\ uPriority \in [Workers -> Levels]
        /\ \A w \in Workers : pos[w] \in Nat /\ cExecuted[w] \in Nat
        /\ look \in Nat
    BY DEF TypeInv, VarsInv
  <2> QED BY <2>1, <2>2, <2>3, <2>4 DEF ExecutionTypeOK
<1> QED BY <1>1, Invariants3, PTL

\* A worker submits the dependents of a chain only when its share is all that
\* m_cRemaining holds: then every job of the chain has returned, whichever
\* workers ran them.
THEOREM ParentBeforeChild == ExecutionSpec => []ParentFirst
<1>1. TypeInv /\ ClaimInv /\ ShareInv => ParentFirst
  <2> SUFFICES ASSUME TypeInv, ShareInv, NEW c \in Chains, NEW d \in Range(Deps[c]),
                      NEW j \in Jobs(d), runs[d][j] > 0
               PROVE  done[c] = Jobs(c)
    BY DEF ParentFirst
  <2>1. d \in Chains
    BY Tree
  <2>2. j \in claimed[d]
    BY <2>1 DEF TypeInv, JobsInv
  <2>3. Handed(d)
    BY <2>1, <2>2 DEF ShareInv, Handed
  <2> QED BY <2>3 DEF ShareInv
<1> QED BY <1>1, Invariants3, PTL

-----------------------------------------------------------------------------
(* The main thread's way through the roots. *)

\* A step is of one worker, and leaves the other workers' variables.
LEMMA Alone ==
  ASSUME TypeInv, [ExecutionNext]_executionVars
  PROVE  \/ UNCHANGED executionVars
         \/ \E w \in Workers :
              /\ ExecuteStep(w) \/ (w = 0 /\ MainStep)
              /\ \A v \in Workers \ {w} :
                   /\ executePc'[v] = executePc[v] /\ chain'[v] = chain[v]
                   /\ arming'[v] = arming[v] /\ pending'[v] = pending[v]
                   /\ uCurrentChain'[v] = uCurrentChain[v] /\ uPriority'[v] = uPriority[v]
                   /\ cSeen'[v] = cSeen[v] /\ bIsWorking'[v] = bIsWorking[v]
<1>0. /\ executePc \in [Workers -> Places] /\ chain \in [Workers -> Chains \cup {NoChain}]
      /\ arming \in [Workers -> Seq(Chains)]
      /\ pending \in [Workers -> Seq(Chains)] /\ uPriority \in [Workers -> Levels]
      /\ uCurrentChain \in [Workers -> [Levels -> Nat]] /\ cSeen \in [Workers -> Nat]
      /\ bIsWorking \in [Workers -> BOOLEAN] /\ 0 \in Workers
  BY MainIsWorker DEF TypeInv, VarsInv
<1> DEFINE Rest(w) ==
      \A v \in Workers \ {w} :
        /\ executePc'[v] = executePc[v] /\ chain'[v] = chain[v]
        /\ arming'[v] = arming[v] /\ pending'[v] = pending[v]
        /\ uCurrentChain'[v] = uCurrentChain[v] /\ uPriority'[v] = uPriority[v]
        /\ cSeen'[v] = cSeen[v] /\ bIsWorking'[v] = bIsWorking[v]
<1>1. ASSUME MainStep PROVE Rest(0)
  BY <1>0, <1>1 DEF MainStep, SubmitRoots, Look, Goto, shared, loops, jobs, hands
<1>2. ASSUME NEW w \in Workers, ExecuteStep(w) PROVE Rest(w)
  <2>1. ASSUME SubmitDeps(w) \/ Publish(w) \/ Run(w) \/ Retire(w) \/ Claim(w) PROVE Rest(w)
    BY <1>0, <2>1 DEF SubmitDeps, Publish, Run, Retire, Claim, Goto, shared, loops, jobs, hands
  <2>2. ASSUME Check(w) \/ Level(w) \/ Higher(w) \/ EnterChain(w) PROVE Rest(w)
    BY <1>0, <2>2 DEF Check, Level, Higher, EnterChain, Goto, shared, loops, jobs, hands
  <2>3. ASSUME Mark(w) \/ Leave(w) PROVE Rest(w)
    BY <1>0, <2>3 DEF Mark, Leave, Goto, loops, jobs, hands
  <2>5. ASSUME FixForSubmit(w) PROVE Rest(w)
    <3>1. UNCHANGED <<bIsWorking, loops, jobs>>
      BY <2>5 DEF FixForSubmit
    <3>2. \A v \in Workers \ {w} :
            executePc'[v] = executePc[v] /\ arming'[v] = arming[v] /\ pending'[v] = pending[v]
      BY <2>5, FixFacts
    <3> QED BY <3>1, <3>2 DEF loops, jobs
  <2>4. ASSUME Pick(w) PROVE Rest(w)
    <3>1. UNCHANGED <<shared, uPriority, cSeen, arming, pending>>
      BY <2>4 DEF Pick, hands
    <3>2. \A v \in Workers \ {w} : executePc'[v] = executePc[v] /\ chain'[v] = chain[v]
      BY <1>0, <2>4 DEF Pick, Goto
    <3>3. \A v \in Workers \ {w} : uCurrentChain'[v] = uCurrentChain[v]
      BY <1>0, <2>4, PickFacts
    <3> QED BY <3>1, <3>2, <3>3 DEF shared
  <2> HIDE DEF Rest
  <2> QED BY <1>2, <2>1, <2>2, <2>3, <2>4, <2>5 DEF ExecuteStep
<1> HIDE DEF Rest
<1>3. UNCHANGED executionVars \/ \E w \in Workers : (ExecuteStep(w) \/ (w = 0 /\ MainStep)) /\ Rest(w)
  BY <1>0, <1>1, <1>2 DEF ExecutionNext
<1> QED BY <1>3 DEF Rest

\* What it holds in its hands.
LEMMA HandInit == ExecutionInit => HandInv
<1> SUFFICES ASSUME ExecutionInit PROVE HandInv
  OBVIOUS
<1>1. Range(<<>>) = {}
  BY DEF Range
<1>2. executePc[0] = "submit" /\ \A w \in Workers : pending[w] = <<>>
  BY MainIsWorker DEF ExecutionInit
<1> QED BY <1>1, <1>2 DEF HandInv, Fresh, Arming

LEMMA HandStep ==
  ASSUME TypeInv, HandInv, [ExecutionNext]_executionVars
  PROVE  HandInv'
<1>0. /\ executePc \in [Workers -> Places] /\ pending \in [Workers -> Seq(Chains)] /\ 0 \in Workers
      /\ Range(<<>>) = {} /\ Published \subseteq Published'
      /\ Roots \in Seq(Chains) /\ NoChain \notin Chains
  <2>1. executePc \in [Workers -> Places] /\ pending \in [Workers -> Seq(Chains)]
    BY DEF TypeInv, VarsInv
  <2>2. Roots \in Seq(Chains) /\ NoChain \notin Chains
    BY JobExecutionAssumption
  <2>3. Published \subseteq Published'
    BY HandedStep
  <2>4. Range(<<>>) = {}
    BY DEF Range
  <2> QED BY <2>1, <2>2, <2>3, <2>4, MainIsWorker
<1>1. CASE SubmitRoots
  <2>1. /\ UNCHANGED <<pending, chain>> /\ executePc[0] = "submit" /\ chain[0] = NoChain
        /\ executePc'[0] = IF Roots = <<>> THEN "check" ELSE "fix"
    BY <1>0, <1>1 DEF SubmitRoots, Goto, jobs, TypeInv, At
  <2>2. (Fresh /\ Arming' /\ Fresh') \/ Roots = <<>>
    BY <2>1 DEF Fresh, Arming
  <2>3. CASE Roots = <<>>
    BY <1>0, <2>3 DEF HandInv
  <2> QED BY <1>0, <2>1, <2>2, <2>3 DEF HandInv
<1>2. ASSUME NEW w \in Workers, FixForSubmit(w) PROVE HandInv'
  <2>1. /\ executePc[w] = "fix" /\ chain' = chain /\ pending[w] = <<>>
        /\ \/ executePc'[w] = "publish" /\ pending'[w] = Array(w)
           \/ executePc'[w] = "fix" /\ pending'[w] = <<>>
        /\ \A v \in Workers \ {w} : executePc'[v] = executePc[v] /\ pending'[v] = pending[v]
    BY <1>2, FixFacts DEF FixForSubmit, jobs
  <2>2. CASE chain[w] = NoChain
    <3>1. w = 0 /\ Array(w) = Roots
      BY <1>2, <2>1, <2>2 DEF TypeInv, At, Array
    <3>2. Fresh /\ Fresh' /\ (Arming' \/ pending'[0] = Roots)
      BY <2>1, <2>2, <3>1 DEF Fresh, Arming
    <3> QED BY <1>0, <2>1, <3>1, <3>2 DEF HandInv
  <2>3. CASE chain[w] # NoChain
    <3>1. chain[w] \in Chains /\ Array(w) = Deps[chain[w]]
      BY <2>3 DEF TypeInv, VarsInv, Array
    <3>2. Range(pending'[w]) \cap Range(Roots) = {}
      BY <1>0, <2>1, <3>1, Tree
    <3>3. (Arming' <=> Arming) /\ (Fresh' <=> Fresh) /\ (w = 0 => ~Fresh /\ ~Arming)
      BY <1>0, <2>1, <2>3 DEF Fresh, Arming
    <3> QED BY <1>0, <2>1, <3>2, <3>3 DEF HandInv
  <2> QED BY <2>2, <2>3
<1>3. ASSUME NEW w \in Workers, Publish(w) PROVE HandInv'
  <2>1. /\ Published' = Published \cup {Head(pending[w])}
        /\ Range(pending[w]) = {Head(pending[w])} \cup Range(pending'[w])
        /\ \A v \in Workers \ {w} : pending'[v] = pending[v]
    BY <1>3, PublishFacts
  <2>2. /\ chain' = chain /\ executePc[w] = "publish" /\ \A v \in Workers \ {w} : executePc'[v] = executePc[v]
        /\ executePc'[w] \notin {"submit", "fix"}
        /\ executePc'[w] = "publish" \/ chain[w] # NoChain \/ pending'[w] = <<>>
    <3>1. pending[w] \in Seq(Chains) /\ pending[w] # <<>> /\ pending'[w] = Tail(pending[w])
      BY <1>0, <1>3 DEF Publish, TypeInv, At
    <3>2. ~(Len(pending[w]) > 1) => pending'[w] = <<>>
      BY <3>1, TailOfMore
    <3> QED BY <1>0, <1>3, <3>2 DEF Publish, Goto, jobs
  <2>3. CASE w = 0
    <3>1. (Fresh' => Fresh) /\ ~Arming /\ ~Arming'
      BY <2>2, <2>3 DEF Fresh, Arming
    <3>2. Fresh /\ ~Fresh' => pending'[0] = <<>>
      BY <2>2, <2>3 DEF Fresh, Arming
    <3> QED BY <1>0, <2>1, <2>2, <2>3, <3>1, <3>2 DEF HandInv
  <2>4. CASE w # 0
    <3>1. (Fresh' <=> Fresh) /\ (Arming' <=> Arming) /\ pending'[0] = pending[0]
      BY <1>0, <2>1, <2>2, <2>4 DEF Fresh, Arming
    <3> QED BY <1>0, <2>1, <2>4, <3>1 DEF HandInv
  <2> QED BY <2>3, <2>4
<1>4. ASSUME UNCHANGED pending, Arming' <=> Arming, Fresh' <=> Fresh
      PROVE  HandInv'
  BY <1>0, <1>4 DEF HandInv
<1>5. CASE UNCHANGED executionVars
  BY <1>4, <1>5 DEF executionVars, Fresh, Arming, jobs, hands
<1>6. ASSUME NEW w \in Workers,
             \/ Check(w) \/ Mark(w) \/ Level(w) \/ Higher(w) \/ Leave(w) \/ EnterChain(w) \/ Pick(w)
             \/ Claim(w) \/ Run(w) \/ Retire(w) \/ SubmitDeps(w) \/ (w = 0 /\ Look)
      PROVE  HandInv'
  <2>1. /\ UNCHANGED pending
        /\ executePc[w] \notin {"submit", "fix", "publish"}
        /\ executePc'[w] \notin {"submit", "fix", "publish"} \/ (executePc'[w] = "fix" /\ chain'[w] # NoChain)
        /\ \A v \in Workers \ {w} : executePc'[v] = executePc[v]
    <3>1. CASE SubmitDeps(w)
      BY <1>0, <3>1 DEF SubmitDeps, Goto, jobs, TypeInv, At
    <3>2. CASE ~SubmitDeps(w)
      BY <1>0, <1>6, <3>2
      DEF Check, Mark, Level, Higher, Leave, EnterChain, Pick, Claim, Run, Retire, Look, Goto, hands
    <3> QED BY <3>1, <3>2
  <2>2. \A v \in Workers \ {w} : chain'[v] = chain[v]
    BY <1>6, TypeInv
    DEF Check, Mark, Level, Higher, Leave, EnterChain, Pick, Claim, Run, Retire, SubmitDeps, Look, jobs,
        TypeInv, VarsInv
  <2>3. Arming' <=> Arming
    BY <1>0, <2>1, <2>2 DEF Arming
  <2>4. Fresh' <=> Fresh
    BY <1>0, <2>1, <2>2, <2>3 DEF Fresh
  <2> QED BY <1>4, <2>1, <2>3, <2>4
<1> QED
  BY <1>0, <1>1, <1>2, <1>3, <1>5, <1>6 DEF ExecutionNext, MainStep, ExecuteStep

\* Levels grow at their ends, by the chains that are published.
LEMMA Grow ==
  ASSUME TypeInv, [ExecutionNext]_executionVars, NEW l \in Levels
  PROVE  /\ Len(pChains[l]) \in Nat /\ Len(pChains'[l]) \in Nat
         /\ Len(pChains[l]) <= Len(pChains'[l])
         /\ \A i \in 1 .. Len(pChains[l]) : pChains[l][i] \in Chains /\ pChains'[l][i] = pChains[l][i]
         /\ \A i \in 1 .. Len(pChains'[l]) : i > Len(pChains[l]) =>
              \E w \in Workers : Publish(w) /\ pChains'[l][i] = Head(pending[w])
<1>1. pChains[l] \in Seq(Chains)
  BY DEF TypeInv, VarsInv
<1>2. CASE UNCHANGED pChains
  BY <1>1, <1>2
<1>3. ASSUME NEW w \in Workers, Publish(w)
      PROVE  /\ Len(pChains[l]) \in Nat /\ Len(pChains'[l]) \in Nat
             /\ Len(pChains[l]) <= Len(pChains'[l])
             /\ \A i \in 1 .. Len(pChains[l]) : pChains[l][i] \in Chains /\ pChains'[l][i] = pChains[l][i]
             /\ \A i \in 1 .. Len(pChains'[l]) : i > Len(pChains[l]) => pChains'[l][i] = Head(pending[w])
  <2>1. /\ Head(pending[w]) \in Chains
        /\ pChains'[l] = Append(pChains[l], Head(pending[w])) \/ pChains'[l] = pChains[l]
    BY <1>3, PublishFacts
  <2>2. CASE pChains'[l] = pChains[l]
    BY <1>1, <2>2
  <2>3. CASE pChains'[l] = Append(pChains[l], Head(pending[w]))
    <3> DEFINE c == Head(pending[w])
               s == pChains[l]
    <3>1. /\ Len(Append(s, c)) = Len(s) + 1 /\ Len(s) \in Nat
          /\ \A i \in 1 .. Len(s) + 1 : Append(s, c)[i] = IF i <= Len(s) THEN s[i] ELSE c
          /\ \A i \in 1 .. Len(s) : s[i] \in Chains
      BY <1>1, <2>1, AppendProperties
    <3> HIDE DEF c, s
    <3> QED BY <2>3, <3>1 DEF c, s
  <2> QED BY <2>1, <2>2, <2>3
<1>4. (\E w \in Workers : Publish(w)) \/ UNCHANGED pChains
  BY DEF ExecutionNext, MainStep, ExecuteStep, SubmitRoots, Look, SubmitDeps, FixForSubmit, Check, Mark, Level, Pick, Higher,
         Leave, EnterChain, Claim, Run, Retire, shared, executionVars
<1> QED BY <1>2, <1>3, <1>4

\* Claimed jobs stay claimed.
LEMMA ClaimedStays ==
  ASSUME TypeInv, [ExecutionNext]_executionVars, NEW c \in Chains
  PROVE  /\ claimed[c] \subseteq claimed'[c]
         /\ claimed[c] = Jobs(c) => claimed'[c] = Jobs(c)
<1>1. claimed[c] \subseteq claimed'[c]
  <2>1. claimed \in [Chains -> SUBSET Nat]
    BY DEF TypeInv, JobsInv
  <2>2. ASSUME NEW w \in Workers, Claim(w) PROVE claimed[c] \subseteq claimed'[c]
    <3>1. PICK j \in Jobs(chain[w]) : claimed' = [claimed EXCEPT ![chain[w]] = @ \cup {j}]
      BY <2>2, ClaimFacts
    <3> QED BY <2>1, <3>1
  <2>3. CASE UNCHANGED claimed
    BY <2>3
  <2> QED
    BY <2>2, <2>3
    DEF ExecutionNext, MainStep, ExecuteStep, SubmitRoots, Look, SubmitDeps, FixForSubmit, Publish, Check, Mark, Level,
        Pick, Higher, Leave, EnterChain, Run, Retire, shared, executionVars
<1>2. claimed'[c] \subseteq Jobs(c)
  BY TypeStep DEF TypeInv, JobsInv
<1> QED BY <1>1, <1>2

\* A worker that finds no job to claim has gone past all of them.
LEMMA AllClaimed ==
  ASSUME TypeInv, ClaimInv, NEW w \in Workers, executePc[w] = "claim", Unclaimed(w) = {}
  PROVE  claimed[chain[w]] = Jobs(chain[w])
<1>1. /\ chain[w] \in Chains /\ pos[w] \in Nat /\ claimed[chain[w]] \subseteq Jobs(chain[w])
      /\ cJobs[chain[w]] \in Nat
  BY JobExecutionAssumption DEF TypeInv, VarsInv, JobsInv, At
<1>2. ASSUME NEW j \in Jobs(chain[w]) PROVE j \in claimed[chain[w]]
  <2>1. PICK p \in Jobs(chain[w]) : JobAt(w, chain[w], p) = j
    BY <1>1, JobAtOnto
  <2>2. CASE p < pos[w]
    <3>1. p \in 0 .. pos[w] - 1 /\ p < cJobs[chain[w]]
      BY <1>1, <2>2 DEF Jobs
    <3> QED BY <2>1, <3>1 DEF ClaimInv
  <2>3. CASE ~(p < pos[w])
    <3>1. p \in pos[w] .. Scanned(w, chain[w]) - 1
      BY <1>1, <2>1, <2>3, ScannedType DEF Jobs
    <3> QED BY <2>1, <3>1 DEF Unclaimed, Takes
  <2> QED BY <2>2, <2>3
<1> QED BY <1>1, <1>2

\* The main thread leaves a chain when every job of it is claimed.
LEMMA ThroughChain ==
  ASSUME TypeInv, ClaimInv, ShareInv, [ExecutionNext]_executionVars,
         executePc[0] \in {"enter", "claim", "run"}, NEW c \in Chains, chain[0] = c
  PROVE  \/ claimed'[c] = Jobs(c)
         \/ chain'[0] = c /\ executePc'[0] \in {"enter", "claim", "run"}
<1>0. executePc \in [Workers -> Places] /\ 0 \in Workers
  BY MainIsWorker DEF TypeInv, VarsInv
<1>1. CASE EnterChain(0)
  <2>1. CASE cRemaining[c] = 0
    <3>1. Handed(c) /\ claimed[c] \subseteq Jobs(c)
      BY <1>0, JobExecutionAssumption DEF ShareInv, Handed, TypeInv, JobsInv
    <3>2. done[c] = Jobs(c)
      BY <2>1, <3>1, AccountZero DEF ShareInv
    <3>3. claimed[c] = Jobs(c)
      <4>1. done[c] \subseteq claimed[c]
        BY DEF ClaimInv
      <4> QED BY <3>1, <3>2, <4>1
    <3> QED BY <1>1, <3>3 DEF EnterChain, shared
  <2>2. CASE cRemaining[c] # 0
    BY <1>0, <1>1, <2>2 DEF EnterChain, Goto
  <2> QED BY <2>1, <2>2
<1>2. CASE Claim(0)
  BY <1>0, <1>2 DEF Claim, Goto
<1>3. CASE Run(0)
  BY <1>0, <1>3 DEF Run, Goto
<1>4. CASE Retire(0)
  BY <1>0, <1>4, AllClaimed DEF Retire
<1>5. CASE executePc'[0] = executePc[0] /\ chain'[0] = chain[0]
  BY <1>5
<1>6. \/ EnterChain(0) \/ Claim(0) \/ Run(0) \/ Retire(0)
      \/ executePc'[0] = executePc[0] /\ chain'[0] = chain[0]
  <2>1. CASE UNCHANGED executionVars
    BY <2>1 DEF executionVars, jobs
  <2>2. ASSUME NEW w \in Workers, ExecuteStep(w) \/ (w = 0 /\ MainStep),
               \A v \in Workers \ {w} : executePc'[v] = executePc[v] /\ chain'[v] = chain[v]
        PROVE  \/ EnterChain(0) \/ Claim(0) \/ Run(0) \/ Retire(0)
               \/ executePc'[0] = executePc[0] /\ chain'[0] = chain[0]
    <3>1. CASE w = 0
      BY <2>2, <3>1 DEF ExecuteStep, MainStep, SubmitRoots, SubmitDeps, FixForSubmit, Publish, Check, Mark,
                        Level, Pick, Higher, Leave, Look
    <3> QED BY <1>0, <2>2, <3>1
  <2> QED BY <2>1, <2>2, Alone
<1> QED BY <1>1, <1>2, <1>3, <1>4, <1>5, <1>6

LEMMA VisitInit == ExecutionInit => VisitInv
<1> SUFFICES ASSUME ExecutionInit PROVE VisitInv
  OBVIOUS
<1>1. \A w \in Workers, l \in Levels : uCurrentChain[w][l] = 0 /\ pChains[l] = <<>>
  BY DEF ExecutionInit
<1>2. \A l \in Levels : Len(pChains[l]) = 0
  <2>1. \A l \in Levels : pChains[l] = <<>>
    BY <1>1, MainIsWorker, Zenon
  <2> QED BY <2>1, LenEmpty, Zenon
<1> QED BY <1>1, <1>2, MainIsWorker DEF VisitInv

LEMMA VisitStep ==
  ASSUME TypeInv, ClaimInv, ShareInv, VisitInv, [ExecutionNext]_executionVars
  PROVE  VisitInv'
<1>0. /\ uCurrentChain \in [Workers -> [Levels -> Nat]] /\ 0 \in Workers
      /\ uPriority \in [Workers -> Levels] /\ cSeen \in [Workers -> Nat]
  BY MainIsWorker DEF TypeInv, VarsInv
<1>1. CASE UNCHANGED uCurrentChain
  <2>1. ASSUME NEW w \in Workers, NEW l \in Levels
        PROVE  uCurrentChain'[w][l] <= Len(pChains'[l])
    <3>1. uCurrentChain[w][l] <= Len(pChains[l]) /\ uCurrentChain[w][l] \in Nat
      BY <1>0 DEF VisitInv
    <3>2. Len(pChains[l]) \in Nat /\ Len(pChains'[l]) \in Nat /\ Len(pChains[l]) <= Len(pChains'[l])
      BY Grow
    <3> QED BY <1>1, <3>1, <3>2
  <2>2. ASSUME NEW l \in Levels, NEW i \in 1 .. Len(pChains'[l]), i <= uCurrentChain'[0][l]
        PROVE  \/ claimed'[pChains'[l][i]] = Jobs(pChains'[l][i])
               \/ chain'[0] = pChains'[l][i] /\ executePc'[0] \in {"enter", "claim", "run"}
    <3>1. i \in 1 .. Len(pChains[l]) /\ i <= uCurrentChain[0][l]
      <4>1. uCurrentChain[0][l] <= Len(pChains[l]) /\ uCurrentChain[0][l] \in Nat
        BY <1>0 DEF VisitInv
      <4>2. Len(pChains[l]) \in Nat /\ Len(pChains'[l]) \in Nat
        BY Grow
      <4> QED BY <1>1, <2>2, <4>1, <4>2
    <3>2. PICK c \in Chains : c = pChains[l][i] /\ c = pChains'[l][i]
      BY <3>1, Grow
    <3>3. claimed[c] = Jobs(c) \/ (chain[0] = c /\ executePc[0] \in {"enter", "claim", "run"})
      BY <3>1, <3>2 DEF VisitInv
    <3>4. claimed'[c] = Jobs(c) \/ (chain'[0] = c /\ executePc'[0] \in {"enter", "claim", "run"})
      BY <3>3, ClaimedStays, ThroughChain
    <3> QED BY <3>2, <3>4
  <2> QED BY <2>1, <2>2 DEF VisitInv
<1>2. ASSUME NEW w \in Workers, Pick(w), ~UNCHANGED uCurrentChain PROVE VisitInv'
  <2> DEFINE k == uPriority[w]
             u == uCurrentChain[w][k]
  <2>1. /\ u < cSeen[w] /\ ChainIndex(w, u, cSeen[w]) + 1 \in 1 .. Len(pChains[k])
        /\ chain'[w] = pChains[k][ChainIndex(w, u, cSeen[w]) + 1]
        /\ executePc'[w] = "enter" /\ uCurrentChain' = [uCurrentChain EXCEPT ![w][k] = u + 1]
    BY <1>2, PickFacts
  <2>2. UNCHANGED <<pChains, claimed>> /\ executePc[w] = "pick"
    BY <1>2 DEF Pick, shared
  <2>3. cSeen[w] <= Len(pChains[k])
    BY <2>2 DEF TypeInv, At, Walking
  <2>4. k \in Levels /\ u \in Nat /\ cSeen[w] \in Nat /\ Len(pChains[k]) \in Nat
    BY <1>0 DEF TypeInv, VarsInv
  <2> HIDE DEF k, u
  <2>5. ASSUME NEW v \in Workers, NEW l \in Levels
        PROVE  /\ v = w /\ l = k => uCurrentChain'[v][l] = u + 1
               /\ v # w \/ l # k => uCurrentChain'[v][l] = uCurrentChain[v][l]
    BY <1>0, <2>1
  <2>6. ASSUME NEW v \in Workers, NEW l \in Levels
        PROVE  uCurrentChain'[v][l] <= Len(pChains'[l])
    <3>1. u + 1 <= Len(pChains[k])
      BY <2>1, <2>3, <2>4
    <3>2. uCurrentChain[v][l] <= Len(pChains[l])
      BY DEF VisitInv
    <3> QED BY <2>2, <2>5, <3>1, <3>2
  <2>7. ASSUME NEW l \in Levels, NEW i \in 1 .. Len(pChains'[l]), i <= uCurrentChain'[0][l]
        PROVE  \/ claimed'[pChains'[l][i]] = Jobs(pChains'[l][i])
               \/ chain'[0] = pChains'[l][i] /\ executePc'[0] \in {"enter", "claim", "run"}
    <3>1. CASE i <= uCurrentChain[0][l]
      <4>1. \/ claimed[pChains[l][i]] = Jobs(pChains[l][i])
            \/ chain[0] = pChains[l][i] /\ executePc[0] \in {"enter", "claim", "run"}
        BY <2>2, <2>7, <3>1 DEF VisitInv
      <4>2. w # 0 => executePc'[0] = executePc[0] /\ chain'[0] = chain[0]
        <5>1. executePc \in [Workers -> Places] /\ chain \in [Workers -> Chains \cup {NoChain}]
          BY DEF TypeInv, VarsInv
        <5> QED BY <1>0, <1>2, <5>1 DEF Pick, Goto
      <4> QED BY <2>2, <4>1, <4>2
    <3>2. CASE ~(i <= uCurrentChain[0][l])
      <4>1. w = 0 /\ l = k /\ i = u + 1
        <5>1. uCurrentChain[0][l] \in Nat /\ i \in Nat
          BY <1>0, <2>4
        <5>2. w = 0 /\ l = k
          BY <1>0, <2>5, <2>7, <3>2
        <5>3. i <= u + 1 /\ ~(i <= u)
          BY <1>0, <2>5, <2>7, <3>2, <5>2 DEF u, k
        <5> QED BY <2>4, <5>1, <5>2, <5>3
      <4>2. ChainIndex(w, u, cSeen[w]) = u
        <5>1. cSeen[w] \in Nat \ {0} /\ u \in 0 .. cSeen[w] - 1 /\ 0 \in 0 .. cSeen[w] - 1
          BY <2>1, <2>4
        <5>2. (u + 0) % cSeen[w] = IF u + 0 < cSeen[w] THEN u + 0 ELSE u + 0 - cSeen[w]
          BY <5>1, Rotation
        <5> QED BY <2>1, <2>4, <4>1, <5>2 DEF ChainIndex
      <4> QED BY <2>1, <2>2, <4>1, <4>2
    <3> QED BY <3>1, <3>2
  <2> QED BY <2>6, <2>7 DEF VisitInv
<1> QED
  BY <1>1, <1>2
  DEF ExecutionNext, MainStep, ExecuteStep, SubmitRoots, Look, SubmitDeps, FixForSubmit, Publish, Check, Mark, Level,
      Higher, Leave, EnterChain, Claim, Run, Retire, loops, executionVars

\* With the roots submitted no root is published any more.
LEMMA NoNewRoots ==
  ASSUME TypeInv, HandInv, [ExecutionNext]_executionVars, ~Fresh, NEW l \in Levels,
         NEW i \in 1 .. Len(pChains'[l]), pChains'[l][i] \in Range(Roots)
  PROVE  i \in 1 .. Len(pChains[l]) /\ pChains[l][i] = pChains'[l][i]
<1>1. CASE i > Len(pChains[l])
  <2>1. PICK w \in Workers : Publish(w) /\ pChains'[l][i] = Head(pending[w])
    BY <1>1, Grow
  <2>2. Head(pending[w]) \in Range(pending[w])
    BY <2>1, PublishFacts
  <2> QED BY <2>1, <2>2 DEF HandInv
<1>2. CASE ~(i > Len(pChains[l]))
  <2>1. Len(pChains[l]) \in Nat /\ Len(pChains'[l]) \in Nat
    BY Grow
  <2>2. i \in 1 .. Len(pChains[l])
    BY <1>2, <2>1
  <2> QED BY <2>2, Grow
<1> QED BY <1>1, <1>2

\* The main thread goes through a level forwards.
LEMMA Forwards ==
  ASSUME TypeInv, [ExecutionNext]_executionVars, NEW l \in Levels
  PROVE  /\ uCurrentChain[0][l] \in Nat /\ uCurrentChain'[0][l] \in Nat
         /\ uCurrentChain[0][l] <= uCurrentChain'[0][l]
<1>0. uCurrentChain \in [Workers -> [Levels -> Nat]] /\ 0 \in Workers
  BY MainIsWorker DEF TypeInv, VarsInv
<1>1. CASE UNCHANGED uCurrentChain
  BY <1>0, <1>1
<1>2. ASSUME NEW w \in Workers, Pick(w) PROVE uCurrentChain[0][l] <= uCurrentChain'[0][l]
                                              /\ uCurrentChain'[0][l] \in Nat
  <2> DEFINE k == uPriority[w]
             u == uCurrentChain[w][k]
  <2>1. \/ uCurrentChain' = [uCurrentChain EXCEPT ![w][k] = u + 1]
        \/ uCurrentChain' = uCurrentChain
    BY <1>2, PickFacts
  <2>2. CASE w = 0 /\ k = l /\ uCurrentChain' = [uCurrentChain EXCEPT ![w][k] = u + 1]
    BY <1>0, <2>2
  <2>3. CASE ~(w = 0 /\ k = l) /\ uCurrentChain' = [uCurrentChain EXCEPT ![w][k] = u + 1]
    <3> HIDE DEF u, k
    <3> QED BY <1>0, <2>3
  <2>4. CASE uCurrentChain' = uCurrentChain
    <3>1. uCurrentChain[0][l] \in Nat
      BY <1>0
    <3>2. uCurrentChain'[0][l] = uCurrentChain[0][l]
      BY <2>4, Zenon
    <3> HIDE DEF u, k
    <3> QED BY <3>1, <3>2
  <2> QED BY <2>1, <2>2, <2>3, <2>4
<1>3. (\E w \in Workers : Pick(w)) \/ UNCHANGED uCurrentChain
  BY DEF ExecutionNext, MainStep, ExecuteStep, SubmitRoots, Look, SubmitDeps, FixForSubmit, Publish, Check, Mark,
         Level, Higher, Leave, EnterChain, Claim, Run, Retire, loops, executionVars
<1> QED BY <1>0, <1>1, <1>2, <1>3

LEMMA SeenStays ==
  ASSUME TypeInv, HandInv, [ExecutionNext]_executionVars, ~Fresh, NEW l \in Levels, Seen(l)
  PROVE  Seen(l)'
<1> SUFFICES ASSUME NEW i \in 1 .. Len(pChains'[l]), pChains'[l][i] \in Range(Roots)
             PROVE  i <= uCurrentChain'[0][l]
  BY DEF Seen
<1>1. i \in 1 .. Len(pChains[l]) /\ pChains[l][i] \in Range(Roots)
  BY NoNewRoots
<1>2. i <= uCurrentChain[0][l]
  BY <1>1 DEF Seen
<1>3. Len(pChains[l]) \in Nat
  BY Grow
<1> QED BY <1>1, <1>2, <1>3, Forwards

LEMMA SeenInit == ExecutionInit => SeenInv
BY MainIsWorker DEF ExecutionInit, SeenInv, Fresh, Arming

LEMMA SeenStep ==
  ASSUME TypeInv, HandInv, SeenInv, [ExecutionNext]_executionVars
  PROVE  SeenInv'
<1>0. /\ executePc \in [Workers -> Places] /\ 0 \in Workers
      /\ uPriority \in [Workers -> Levels] /\ uPriority[0] \in Levels
      /\ chain \in [Workers -> Chains \cup {NoChain}]
      /\ cSeen \in [Workers -> Nat] /\ uCheck \in [Workers -> Levels]
      /\ \A l \in Levels : Len(pChains[l]) \in Nat
      /\ Levels \subseteq Int
  <2>1. VarsInv /\ 0 \in Workers /\ \A l \in Levels : Len(pChains[l]) \in Nat
    BY MainIsWorker, Grow DEF TypeInv
  <2>2. Levels \subseteq Int
    BY DEF Levels
  <2> QED BY <2>1, <2>2 DEF VarsInv
<1> DEFINE In == {"pick", "enter", "claim", "run", "deps", "fix", "publish"}
           Above == \A l \in Levels : l > uPriority[0] => Seen(l)
           Behind == \A i \in 1 .. Len(pChains[uPriority[0]]) :
                       pChains[uPriority[0]][i] \in Range(Roots) => i <= cSeen[0]
\* A step that stays at its level.
<1>1. ASSUME ~Fresh, uPriority'[0] = uPriority[0], Above PROVE Above'
  BY <1>1, SeenStays
<1>2. ASSUME ~Fresh, uPriority'[0] = uPriority[0], cSeen'[0] = cSeen[0], Behind PROVE Behind'
  BY <1>0, <1>2, NoNewRoots
<1>3. ASSUME ~Fresh, executePc[0] \in In, executePc'[0] \in In,
             uPriority'[0] = uPriority[0], cSeen'[0] = cSeen[0]
      PROVE  SeenInv'
  <2>1. Above /\ Behind
    BY <1>3 DEF SeenInv
  <2>2. Above' /\ Behind'
    BY <1>1, <1>2, <1>3, <2>1
  <2> QED BY <1>3, <2>2 DEF SeenInv
<1>4. ASSUME executePc'[0] \in {"check", "mark"} PROVE SeenInv'
  BY <1>4 DEF SeenInv
<1>5. ASSUME Fresh' PROVE SeenInv'
  BY <1>5 DEF SeenInv, Fresh, Arming
<1>6. ASSUME executePc'[0] = executePc[0], chain'[0] = chain[0],
             uPriority'[0] = uPriority[0], cSeen'[0] = cSeen[0]
      PROVE  SeenInv'
  <2>1. Fresh' <=> Fresh
    BY <1>6 DEF Fresh, Arming
  <2>2. CASE Fresh
    BY <1>5, <2>1, <2>2
  <2>3. CASE ~Fresh /\ executePc[0] \in In
    BY <1>3, <1>6, <2>3
  <2>4. CASE ~Fresh /\ executePc[0] \notin In
    <3>1. executePc[0] \notin {"check", "mark"} => Above'
      BY <1>1, <1>6, <2>4 DEF SeenInv
    <3>2. executePc[0] \in {"higher", "leave"} => Seen(uPriority[0])'
      BY <1>0, <1>6, <2>4, SeenStays DEF SeenInv
    <3>3. executePc[0] \in {"look", "returned"} => \A l \in Levels : Seen(l)'
      BY <2>4, SeenStays DEF SeenInv
    <3> QED BY <1>6, <2>4, <3>1, <3>2, <3>3 DEF SeenInv
  <2> QED BY <2>2, <2>3, <2>4
<1>7. CASE UNCHANGED executionVars
  BY <1>6, <1>7 DEF executionVars, loops, jobs
<1>8. ASSUME NEW w \in Workers, w # 0,
             \A v \in Workers \ {w} :
               /\ executePc'[v] = executePc[v] /\ chain'[v] = chain[v]
               /\ uPriority'[v] = uPriority[v] /\ cSeen'[v] = cSeen[v]
      PROVE  SeenInv'
  BY <1>0, <1>6, <1>8
<1>9. CASE SubmitRoots
  <2>1. executePc'[0] = "check" \/ Fresh'
    BY <1>0, <1>9 DEF SubmitRoots, Goto, jobs, Fresh, Arming, TypeInv, At
  <2> QED BY <1>4, <1>5, <2>1
<1>10. CASE Look
  <2>1. /\ executePc[0] = "look" /\ ~Fresh /\ executePc'[0] \in {"check", "look", "returned"}
        /\ uPriority' = uPriority
    BY <1>0, <1>10 DEF Look, Goto, Fresh, Arming, loops
  <2>2. \A l \in Levels : Seen(l)'
    BY <2>1, SeenStays DEF SeenInv
  <2> QED BY <2>1, <2>2 DEF SeenInv
<1>11. CASE SubmitDeps(0)
  <2>1. /\ executePc[0] = "deps" /\ ~Fresh /\ executePc'[0] = "fix" /\ UNCHANGED <<uPriority, cSeen>>
    BY <1>0, <1>11 DEF SubmitDeps, Goto, Fresh, Arming, loops
  <2> QED BY <1>3, <2>1
<1>21. CASE FixForSubmit(0)
  <2>1. /\ executePc[0] = "fix" /\ executePc'[0] \in {"fix", "publish"} /\ UNCHANGED <<uPriority, cSeen, chain>>
    BY <1>0, <1>21, FixFacts DEF FixForSubmit, loops, jobs
  <2>2. CASE Fresh
    <3>1. Fresh'
      BY <2>1, <2>2 DEF Fresh, Arming
    <3> QED BY <1>5, <3>1
  <2>3. CASE ~Fresh
    BY <1>3, <2>1, <2>3
  <2> QED BY <2>2, <2>3
<1>12. CASE Publish(0)
  <2>1. /\ executePc[0] = "publish" /\ UNCHANGED <<uPriority, cSeen, chain>>
        /\ executePc'[0] \in {"publish", "check", "pick"}
        /\ chain[0] = NoChain => executePc'[0] # "pick"
    BY <1>0, <1>12 DEF Publish, Goto, loops, jobs
  <2>2. CASE Fresh
    <3>1. executePc'[0] = "check" \/ Fresh'
      BY <2>1, <2>2 DEF Fresh, Arming
    <3> QED BY <1>4, <1>5, <3>1
  <2>3. CASE ~Fresh
    BY <1>3, <1>4, <2>1, <2>3
  <2> QED BY <2>2, <2>3
<1>13. CASE Check(0)
  <2>1. CASE executePc'[0] = "mark"
    BY <1>4, <2>1
  <2>2. CASE executePc'[0] # "mark"
    <3>1. executePc'[0] = "look" /\ ~CheckNewWork(0) /\ UNCHANGED <<pChains, uCurrentChain>>
      BY <1>0, <1>13, <2>2 DEF Check, Goto, shared, loops
    <3>2. ASSUME NEW l \in Levels PROVE Seen(l)'
      <4>1. ~(uCurrentChain[0][l] < Len(pChains[l])) /\ uCurrentChain[0][l] \in Nat
        BY <3>1, Forwards DEF CheckNewWork
      <4>2. \A i \in 1 .. Len(pChains[l]) : i <= uCurrentChain[0][l]
        BY <1>0, <4>1
      <4> QED BY <3>1, <4>2 DEF Seen
    <3> QED BY <3>1, <3>2 DEF SeenInv
  <2> QED BY <2>1, <2>2
<1>14. CASE Mark(0)
  <2>1. executePc'[0] = "level" /\ uPriority'[0] = Top
    BY <1>0, <1>14 DEF Mark, Goto
  <2>2. \A l \in Levels : ~(l > Top)
    BY JobExecutionAssumption DEF Levels, Top
  <2> QED BY <2>1, <2>2 DEF SeenInv
<1>15. CASE Level(0)
  <2>1. /\ executePc[0] = "level" /\ ~Fresh /\ executePc'[0] = "pick" /\ UNCHANGED <<uPriority, pChains>>
        /\ cSeen'[0] = Len(pChains[uPriority[0]])
    BY <1>0, <1>15 DEF Level, Goto, Fresh, Arming, shared
  <2>2. Above'
    BY <1>1, <2>1 DEF SeenInv
  <2>3. Behind'
    BY <1>0, <2>1
  <2> QED BY <2>1, <2>2, <2>3 DEF SeenInv
<1>16. CASE Pick(0)
  <2>1. /\ executePc[0] = "pick" /\ ~Fresh /\ UNCHANGED <<uPriority, cSeen, pChains>>
        /\ \/ executePc'[0] = "enter"
           \/ /\ executePc'[0] = "higher" /\ UNCHANGED uCurrentChain
              /\ uCurrentChain[0][uPriority[0]] >= cSeen[0]
    BY <1>0, <1>16, PickFacts DEF Pick, Fresh, Arming, shared
  <2>2. CASE executePc'[0] = "enter"
    BY <1>3, <2>1, <2>2
  <2>3. CASE executePc'[0] = "higher"
    <3>1. Above'
      BY <1>1, <2>1 DEF SeenInv
    <3>2. Seen(uPriority[0])
      <4>1. Behind
        BY <2>1 DEF SeenInv
      <4>2. uCurrentChain[0][uPriority[0]] \in Nat /\ cSeen[0] \in Nat
            /\ uCurrentChain[0][uPriority[0]] >= cSeen[0]
        BY <1>0, <2>1, <2>3, Forwards
      <4> QED BY <1>0, <4>1, <4>2 DEF Seen
    <3>3. Seen(uPriority[0])'
      BY <2>1, <2>3, <3>2 DEF Seen
    <3> QED BY <2>1, <2>3, <3>1, <3>3 DEF SeenInv
  <2> QED BY <2>1, <2>2, <2>3
<1>17. CASE Higher(0)
  <2>0. PICK l \in Levels, i \in Levels : l = uPriority[0] /\ i = uCheck[0]
    BY <1>0
  <2>1. /\ executePc[0] = "higher" /\ ~Fresh /\ Above /\ Seen(l)
        /\ \/ executePc'[0] = "level" /\ i > l /\ uPriority'[0] = i
           \/ executePc'[0] = "higher" /\ uPriority'[0] = l
           \/ executePc'[0] = "level" /\ uPriority'[0] = l - 1
           \/ executePc'[0] = "leave" /\ uPriority'[0] = l
    BY <1>0, <1>17, <2>0 DEF Higher, Goto, Fresh, Arming, SeenInv
  <2>2. ASSUME NEW k \in Levels, k >= l PROVE Seen(k)'
    <3>1. k \in Int /\ l \in Int
      BY <1>0
    <3>2. k > l \/ k = l
      BY <2>2, <3>1
    <3>3. Seen(k)
      BY <2>0, <2>1, <3>2
    <3> QED BY <2>1, <3>3, SeenStays
  <2>3. ASSUME NEW k \in Levels, k > uPriority'[0] PROVE Seen(k)'
    <3>1. l \in Int /\ i \in Int /\ k \in Int
      BY <1>0
    <3>2. k >= l
      BY <2>1, <2>3, <3>1
    <3> QED BY <2>2, <3>2
  <2>4. executePc'[0] \in {"higher", "leave"} => Seen(uPriority[0])'
    <3>1. executePc'[0] \in {"higher", "leave"} => uPriority'[0] = l
      BY <2>1
    <3>2. Seen(l)'
      BY <2>1, SeenStays
    <3> QED BY <3>1, <3>2 DEF Seen
  <2>5. executePc'[0] \in {"level", "higher", "leave"}
    BY <2>1
  <2> QED BY <2>3, <2>4, <2>5 DEF SeenInv
<1>18. CASE Leave(0)
  <2>1. executePc[0] = "leave" /\ ~Fresh /\ uPriority[0] = 0 /\ executePc'[0] = "look"
    BY <1>0, <1>18 DEF Leave, Goto, Fresh, Arming, TypeInv, At
  <2>2. ASSUME NEW l \in Levels PROVE Seen(l)'
    <3>1. l = 0 \/ l > 0
      BY DEF Levels
    <3>2. Seen(l)
      BY <2>1, <3>1 DEF SeenInv
    <3> QED BY <2>1, <3>2, SeenStays
  <2> QED BY <2>1, <2>2 DEF SeenInv
<1>19. CASE EnterChain(0) \/ Claim(0) \/ Run(0) \/ Retire(0)
  <2>1. /\ executePc[0] \in In \ {"fix", "publish"} /\ executePc'[0] \in In /\ UNCHANGED <<uPriority, cSeen>>
    BY <1>0, <1>19 DEF EnterChain, Claim, Run, Retire, Goto, loops
  <2>2. ~Fresh
    BY <2>1 DEF Fresh, Arming
  <2> QED BY <1>3, <2>1, <2>2
<1>20. ASSUME ExecuteStep(0) \/ MainStep PROVE SeenInv'
  BY <1>9, <1>10, <1>11, <1>12, <1>13, <1>14, <1>15, <1>16, <1>17, <1>18, <1>19, <1>20, <1>21
  DEF ExecuteStep, MainStep
<1> QED
  <2> HIDE DEF Above, Behind, In
  <2> QED BY <1>7, <1>8, <1>20, Alone

\* When the main thread looks at the flags every job of a root is claimed.
LEMMA RootsClaimed ==
  ASSUME TypeInv, HandInv, VisitInv, SeenInv, executePc[0] \in {"look", "returned"},
         NEW c \in Range(Roots)
  PROVE  claimed[c] = Jobs(c)
<1>1. c \in Published
  BY DEF HandInv, Fresh, Arming
<1>2. PICK l \in Levels : c \in Range(pChains[l])
  BY <1>1 DEF Published
<1>3. pChains[l] \in Seq(Chains)
  BY DEF TypeInv, VarsInv
<1>4. PICK i \in 1 .. Len(pChains[l]) : pChains[l][i] = c
  BY <1>2, <1>3, RangeOf
<1>5. i <= uCurrentChain[0][l]
  BY <1>4 DEF SeenInv, Seen
<1> QED BY <1>4, <1>5 DEF VisitInv

LEMMA FlagInit == ExecutionInit => FlagInv
BY MainIsWorker DEF ExecutionInit, FlagInv

LEMMA FlagStep ==
  ASSUME TypeInv, HandInv, VisitInv, SeenInv, FlagInv, [ExecutionNext]_executionVars
  PROVE  FlagInv'
<1>0. /\ executePc \in [Workers -> Places] /\ 0 \in Workers /\ bIsWorking \in [Workers -> BOOLEAN]
      /\ chain \in [Workers -> Chains \cup {NoChain}] /\ look \in Nat \ {0}
      /\ \A v \in Workers : v \in Nat /\ v < cWorkers
  <2>1. \A v \in Workers : v \in Nat /\ v < cWorkers
    BY JobExecutionAssumption DEF Workers
  <2> QED BY <2>1, MainIsWorker DEF TypeInv, VarsInv
<1> DEFINE Marked == \A w \in Workers : w # 0 /\ executePc[w] \notin {"check", "mark"} => bIsWorking[w]
           Idle == \A w \in Workers : w # 0 /\ ((executePc[0] = "look" /\ w < look) \/ executePc[0] = "returned") =>
                     ~(executePc[w] = "run" /\ chain[w] \in Range(Roots))
           First == executePc[0] # "look" => look = 1
<1>1. First /\ Marked /\ Idle
  BY DEF FlagInv
<1>flags. First' /\ Marked' /\ Idle' => FlagInv'
  BY DEF FlagInv
<1>2. CASE UNCHANGED executionVars
  <2>1. UNCHANGED <<executePc, bIsWorking, chain, look>>
    BY <1>2 DEF executionVars, shared, jobs
  <2>2. First' /\ Marked' /\ Idle'
    BY <1>1, <2>1
  <2> QED BY <1>flags, <2>2, Zenon
<1>3. ASSUME NEW w \in Workers \ {0}, ExecuteStep(w),
             \A v \in Workers \ {w} : executePc'[v] = executePc[v] /\ chain'[v] = chain[v]
                                      /\ bIsWorking'[v] = bIsWorking[v]
      PROVE  FlagInv'
  <2>1. UNCHANGED look /\ executePc'[0] = executePc[0]
    BY <1>0, <1>3
    DEF ExecuteStep, SubmitDeps, FixForSubmit, Publish, Check, Mark, Level, Pick, Higher, Leave, EnterChain, Claim, Run, Retire
  <2>2. executePc'[w] \notin {"check", "mark"} => bIsWorking'[w]
    <3>1. CASE Mark(w)
      BY <1>0, <3>1 DEF Mark
    <3>2. CASE Leave(w) \/ Check(w)
      BY <1>0, <1>3, <3>2 DEF Leave, Check, Goto
    <3>3. CASE SubmitDeps(w) \/ FixForSubmit(w) \/ Publish(w) \/ Level(w) \/ Pick(w) \/ Higher(w) \/ EnterChain(w)
               \/ Claim(w) \/ Run(w) \/ Retire(w)
      <4>1. bIsWorking' = bIsWorking /\ executePc[w] \notin {"check", "mark"}
        BY <3>3 DEF SubmitDeps, FixForSubmit, Publish, Level, Pick, Higher, EnterChain, Claim, Run, Retire, shared
      <4>2. bIsWorking[w]
        BY <1>1, <4>1
      <4> QED BY <4>1, <4>2
    <3> QED BY <1>3, <3>1, <3>2, <3>3 DEF ExecuteStep
  <2>3. ASSUME executePc[0] \in {"look", "returned"}, executePc'[w] = "run", chain'[w] \in Range(Roots)
        PROVE  executePc[w] = "run" /\ chain'[w] = chain[w]
    <3>1. CASE Claim(w)
      <4>1. chain'[w] = chain[w]
        BY <3>1 DEF Claim
      <4>2. claimed[chain[w]] = Jobs(chain[w])
        BY <2>3, <4>1, RootsClaimed
      <4> QED BY <3>1, <4>2, ClaimFacts
    <3>2. CASE ~Claim(w)
      BY <1>0, <1>3, <2>3, <3>2
      DEF ExecuteStep, SubmitDeps, FixForSubmit, Publish, Check, Mark, Level, Pick, Higher, Leave, EnterChain, Run,
          Retire, Goto, jobs
    <3> QED BY <3>1, <3>2
  <2>4. First'
    BY <1>1, <2>1
  <2>5. Marked'
    BY <1>1, <1>3, <2>2
  <2>6. Idle'
    BY <1>0, <1>1, <1>3, <2>1, <2>3
  <2> QED BY <1>flags, <2>4, <2>5, <2>6, Zenon
<1>4. ASSUME ExecuteStep(0) \/ MainStep,
             \A v \in Workers \ {0} : executePc'[v] = executePc[v] /\ chain'[v] = chain[v]
                                      /\ bIsWorking'[v] = bIsWorking[v]
      PROVE  FlagInv'
  <2>1. Marked'
    BY <1>1, <1>4
  <2>2. CASE Look
    <3>1. executePc[0] = "look"
      BY <2>2 DEF Look
    <3>2. CASE look < LookEnd /\ bIsWorking[look] /\ look' = 1 /\ Goto(0, "check")
      <4>1. executePc'[0] = "check"
        BY <1>0, <3>2 DEF Goto
      <4> QED BY <1>flags, <2>1, <3>2, <4>1, Zenon
    <3>3. CASE look < LookEnd /\ ~bIsWorking[look] /\ look' = look + 1 /\ UNCHANGED executePc
      <4>1. ASSUME NEW v \in Workers, v # 0, v < look', executePc'[v] = "run"
            PROVE  v < look
        <5>1. v = look => executePc[v] \in {"check", "mark"}
          BY <1>1, <3>3, <4>1
        <5>2. v # look
          BY <3>3, <4>1, <5>1
        <5> QED BY <1>0, <3>3, <4>1, <5>2
      <4>2. Idle'
        BY <1>1, <1>4, <3>1, <3>3, <4>1
      <4>3. First'
        BY <3>1, <3>3
      <4> QED BY <1>flags, <2>1, <4>2, <4>3, Zenon
    <3>4. CASE look >= LookEnd /\ look' = 1 /\ Goto(0, "returned")
      <4>1. \A v \in Workers : v < look
        BY <1>0, <3>4, JobExecutionAssumption DEF LookEnd
      <4>2. Idle'
        BY <1>1, <1>4, <3>1, <4>1
      <4>3. First'
        BY <3>4
      <4> QED BY <1>flags, <2>1, <4>2, <4>3, Zenon
    <3> QED BY <2>2, <3>2, <3>3, <3>4 DEF Look
  <2>3. CASE ~Look
    <3>1. look' = look /\ executePc[0] \notin {"look", "returned"} /\ executePc'[0] # "returned"
      BY <1>0, <1>4, <2>3
      DEF MainStep, ExecuteStep, SubmitRoots, SubmitDeps, FixForSubmit, Publish, Check, Mark, Level, Pick, Higher, Leave,
          EnterChain, Claim, Run, Retire, Goto
    <3>2. look' = 1
      BY <1>1, <3>1
    <3>3. First'
      BY <3>2
    <3>4. \A v \in Workers : v # 0 => ~(v < look')
      BY <1>0, <3>2
    <3>5. Idle'
      BY <3>1, <3>4
    <3> QED BY <1>flags, <2>1, <3>3, <3>5, Zenon
  <2> QED BY <2>2, <2>3
<1> HIDE DEF Marked, Idle, First
<1> QED BY <1>2, <1>3, <1>4, Alone

LEMMA Invariants4 == ExecutionSpec => [](TypeInv /\ ClaimInv /\ ShareInv /\ MainInv)
<1> DEFINE I == TypeInv /\ ClaimInv /\ ShareInv /\ HandInv /\ VisitInv /\ SeenInv /\ FlagInv
<1>1. ExecutionInit => I
  BY TypeInit, ClaimInit, ShareInit, HandInit, VisitInit, SeenInit, FlagInit
<1>2. I /\ [ExecutionNext]_executionVars => I'
  BY TypeStep, ClaimStep, ShareStep, HandStep, VisitStep, SeenStep, FlagStep
<1>3. I => TypeInv /\ ClaimInv /\ ShareInv /\ MainInv
  BY DEF MainInv
<1> QED BY <1>1, <1>2, <1>3, PTL DEF ExecutionSpec

\* WaitForAllJobs returns only with the jobs of all submitted roots done: the
\* main thread claims what nobody else has, and a worker that still runs a job
\* of a root has set its flag before the flags are read.
THEOREM WaitsForRoots == ExecutionSpec => []RootsDone
<1>1. TypeInv /\ ClaimInv /\ ShareInv /\ MainInv => RootsDone
  <2> SUFFICES ASSUME TypeInv, ClaimInv, MainInv, executePc[0] = "returned", NEW c \in Range(Roots)
               PROVE  done[c] = Jobs(c)
    BY DEF RootsDone
  <2>1. c \in Chains /\ claimed[c] = Jobs(c)
    <3>1. Roots \in Seq(Chains)
      BY JobExecutionAssumption
    <3> QED BY <3>1, RangeOf, RootsClaimed DEF MainInv
  <2>2. \A w \in Workers : ~(executePc[w] = "run" /\ chain[w] = c)
    BY DEF MainInv, FlagInv
  <2>3. done[c] \subseteq claimed[c]
    BY <2>1 DEF ClaimInv
  <2>4. claimed[c] \ done[c] = {}
    BY <2>1, <2>2 DEF ClaimInv
  <2> QED BY <2>1, <2>3, <2>4
<1> QED BY <1>1, Invariants4, PTL

-----------------------------------------------------------------------------
(* Where the dependents of a root go. *)

LEMMA ReleaseInit == ExecutionInit => ReleaseInv
<1> SUFFICES ASSUME ExecutionInit, NEW c \in Range(Roots), Handed(c) PROVE FALSE
  BY DEF ReleaseInv
<1>1. Range(<<>>) = {}
  BY DEF Range
<1>2. Published = {} /\ \A w \in Workers : Range(pending[w]) = {}
  BY <1>1 DEF ExecutionInit, Published
<1> QED BY <1>2 DEF Handed

LEMMA ReleaseStep ==
  ASSUME TypeInv, ShareInv, ReleaseInv, [ExecutionNext]_executionVars
  PROVE  ReleaseInv'
<1>0. /\ executePc \in [Workers -> Places] /\ pending \in [Workers -> Seq(Chains)]
      /\ chain \in [Workers -> Chains \cup {NoChain}] /\ cRemaining \in [Chains -> Int]
      /\ cExecuted \in [Workers -> Nat] /\ Published \subseteq Published'
      /\ Roots \in Seq(Chains) /\ Range(Roots) \subseteq Chains
      /\ \A c \in Chains : cJobs[c] \in Nat \ {0} /\ Deps[c] \in Seq(Chains)
  <2>1. /\ Roots \in Seq(Chains)
        /\ \A c \in Chains : cJobs[c] \in Nat \ {0} /\ Deps[c] \in Seq(Chains)
    BY JobExecutionAssumption
  <2>2. Range(Roots) \subseteq Chains
    BY <2>1, RangeOf
  <2> QED BY <2>1, <2>2, HandedStep DEF TypeInv, VarsInv
<1> SUFFICES ASSUME NEW c \in Range(Roots), Handed(c)', cRemaining'[c] = 0,
                    NEW d \in Range(Deps[c]), d \notin Published'
             PROVE  \E w \in Workers :
                      /\ chain'[w] = c
                      /\ \/ executePc'[w] \in {"deps", "fix"}
                         \/ executePc'[w] = "publish" /\ d \in Range(pending'[w])
  BY DEF ReleaseInv
<1> DEFINE Holds(w) ==
      /\ chain[w] = c
      /\ executePc[w] \in {"deps", "fix"} \/ (executePc[w] = "publish" /\ d \in Range(pending[w]))
<1>1. c \in Chains /\ NoChain \notin Chains
  BY <1>0, JobExecutionAssumption
<1>2. Handed(c)
  <2>1. ASSUME NEW w \in Workers, FixForSubmit(w), ~Handed(c) PROVE FALSE
    <3>1. cRemaining'[c] = cJobs[c]
      BY <1>1, <2>1, FixHands DEF ShareInv
    <3> QED BY <1>0, <1>1, <3>1
  <2> QED BY <1>1, <2>1, HandedStep
<1>3. d \notin Published
  BY <1>0
\* Nothing was left of it before, or this step took the last share.
<1>4. ASSUME cRemaining[c] # 0
      PROVE  \E w \in Workers : chain'[w] = c /\ executePc'[w] = "deps"
  <2>1. ASSUME NEW w \in Workers, FixForSubmit(w) PROVE FALSE
    <3>1. PICK h \in Chains : cRemaining' = [cRemaining EXCEPT ![h] = cJobs[h]]
      BY <2>1, FixFacts
    <3> QED BY <1>0, <1>1, <1>4, <3>1
  <2>2. PICK w \in Workers : Retire(w)
    BY <1>1, <1>4, <2>1
    DEF ExecutionNext, MainStep, ExecuteStep, SubmitRoots, SubmitDeps, Look, Publish, Check, Mark, Level, Pick, Higher, Leave, EnterChain,
        Claim, Run, shared, executionVars
  <2>3. cRemaining' = [cRemaining EXCEPT ![chain[w]] = cRemaining[chain[w]] - cExecuted[w]]
    BY <2>2 DEF Retire, Share
  <2>4. chain[w] = c /\ cRemaining[c] = cExecuted[w]
    <3>1. chain[w] = c
      BY <1>0, <1>1, <1>4, <2>3
    <3>2. cRemaining[c] - cExecuted[w] = 0 /\ cRemaining[c] \in Int /\ cExecuted[w] \in Nat
      BY <1>0, <1>1, <2>3, <3>1
    <3> QED BY <3>1, <3>2
  <2>5. Deps[c] # <<>>
    <3>1. Range(<<>>) = {}
      BY DEF Range
    <3> QED BY <3>1
  <2>6. executePc'[w] = "deps" /\ chain' = chain
    BY <1>0, <2>2, <2>4, <2>5 DEF Retire, Finished, Goto, jobs
  <2> QED BY <2>4, <2>6
\* Somebody had the dependent in hand, and has it still.
<1>5. ASSUME NEW w \in Workers, Holds(w) PROVE Holds(w)'
  <2>1. CASE SubmitDeps(w) \/ FixForSubmit(w)
    <3>1. /\ chain' = chain
          /\ \/ executePc'[w] = "fix"
             \/ executePc'[w] = "publish" /\ pending'[w] = Array(w)
      BY <1>0, <2>1, FixFacts DEF SubmitDeps, FixForSubmit, Goto, jobs
    <3>2. Array(w) = Deps[c]
      BY <1>1, <1>5 DEF Array
    <3> QED BY <1>5, <3>1, <3>2
  <2>2. CASE Publish(w)
    <3>1. /\ Published' = Published \cup {Head(pending[w])}
          /\ Range(pending[w]) = {Head(pending[w])} \cup Range(pending'[w])
      BY <2>2, PublishFacts
    <3>2. chain' = chain /\ executePc[w] = "publish" /\ pending'[w] = Tail(pending[w])
          /\ pending[w] \in Seq(Chains) /\ pending[w] # <<>>
      BY <1>0, <2>2 DEF Publish, jobs, TypeInv, At
    <3>3. d \in Range(pending'[w])
      BY <1>5, <3>1, <3>2
    <3>4. Len(pending[w]) > 1
      <4>1. pending'[w] # <<>>
        BY <3>3 DEF Range
      <4> QED BY <3>2, <4>1, TailOfMore
    <3>5. executePc'[w] = "publish"
      BY <1>0, <2>2, <3>4 DEF Publish, Goto
    <3> QED BY <1>5, <3>2, <3>3, <3>5
  <2>3. CASE executePc'[w] = executePc[w] /\ chain'[w] = chain[w] /\ pending'[w] = pending[w]
    BY <1>5, <2>3
  <2>4. \/ SubmitDeps(w) \/ FixForSubmit(w) \/ Publish(w)
        \/ executePc'[w] = executePc[w] /\ chain'[w] = chain[w] /\ pending'[w] = pending[w]
    <3>1. CASE UNCHANGED executionVars
      BY <3>1 DEF executionVars, jobs, hands
    <3>2. ASSUME NEW v \in Workers, ExecuteStep(v) \/ (v = 0 /\ MainStep),
                 \A u \in Workers \ {v} :
                   executePc'[u] = executePc[u] /\ chain'[u] = chain[u] /\ pending'[u] = pending[u]
          PROVE  \/ SubmitDeps(w) \/ FixForSubmit(w) \/ Publish(w)
                 \/ executePc'[w] = executePc[w] /\ chain'[w] = chain[w] /\ pending'[w] = pending[w]
      <4>1. CASE v = w
        BY <1>5, <3>2, <4>1
        DEF ExecuteStep, MainStep, SubmitRoots, Check, Mark, Level, Pick, Higher, Leave, EnterChain, Claim,
            Run, Retire, Look, hands
      <4> QED BY <3>2, <4>1
    <3> QED BY <3>1, <3>2, Alone
  <2> HIDE DEF Holds
  <2> QED BY <2>1, <2>2, <2>3, <2>4
<1>6. CASE cRemaining[c] = 0
  <2>1. PICK w \in Workers : Holds(w)
    BY <1>2, <1>3, <1>6 DEF ReleaseInv
  <2>2. Holds(w)'
    BY <1>5, <2>1
  <2> QED BY <2>2
<1> QED BY <1>4, <1>6

\* A finished root that no worker is in has nothing left.
LEMMA RootAtRest ==
  ASSUME NEW c \in Chains, c \in Range(Roots), Account(c), done[c] = Jobs(c),
         \A w \in Workers : chain[w] # c
  PROVE  cRemaining[c] = 0
<1>1. PICK own \in [Workers -> SUBSET Jobs(c)], retired \in SUBSET Jobs(c) :
        Shares(c, own, retired)
  BY DEF Account
<1>2. \A w \in Workers : own[w] = {}
  BY <1>1 DEF Shares, Within
<1>3. done[c] = retired
  BY <1>1, <1>2 DEF Shares
<1>4. cJobs[c] - Cardinality(Jobs(c)) = cRemaining[c]
  BY <1>1, <1>3 DEF Shares
<1> QED BY <1>4, JobsCount

\* The dependents of a root are in the levels when all jobs of the root have
\* returned and no worker is in it: whoever subtracts the last share, which
\* the workers may do in any order, submits them.
RootsRelease ==
  \A c \in Range(Roots) \cap Published :
    done[c] = Jobs(c) /\ (\A w \in Workers : chain[w] # c) =>
      Range(Deps[c]) \subseteq Published

THEOREM ReleasesOfRoots == ExecutionSpec => []RootsRelease
<1>1. ExecutionInit => TypeInv /\ ClaimInv /\ ShareInv /\ ReleaseInv
  BY TypeInit, ClaimInit, ShareInit, ReleaseInit
<1>2. (TypeInv /\ ClaimInv /\ ShareInv /\ ReleaseInv) /\ [ExecutionNext]_executionVars =>
        (TypeInv /\ ClaimInv /\ ShareInv /\ ReleaseInv)'
  BY TypeStep, ClaimStep, ShareStep, ReleaseStep
<1>3. TypeInv /\ ClaimInv /\ ShareInv /\ ReleaseInv => RootsRelease
  <2> SUFFICES ASSUME TypeInv, ShareInv, ReleaseInv, NEW c \in Range(Roots), c \in Published,
                      done[c] = Jobs(c), \A w \in Workers : chain[w] # c,
                      NEW d \in Range(Deps[c])
               PROVE  d \in Published
    BY DEF RootsRelease
  <2>1. c \in Chains
    <3>1. Roots \in Seq(Chains)
      BY JobExecutionAssumption
    <3> QED BY <3>1, RangeOf
  <2>2. Handed(c) /\ Account(c)
    BY <2>1 DEF Handed, ShareInv
  <2>3. cRemaining[c] = 0
    BY <2>1, <2>2, RootAtRest
  <2> QED BY <2>2, <2>3 DEF ReleaseInv
<1> QED BY <1>1, <1>2, <1>3, PTL DEF ExecutionSpec

\* Chains that have dependents are roots: two generations.  In a deeper tree
\* the two workers that see a root finished arm its child twice, and the
\* child's count need not come to zero.
OnlyRootsHaveDeps == \A c \in Chains : Deps[c] # <<>> => c \in Range(Roots)

\* In a tree of two generations every finished chain that no worker is in has
\* released its dependents.
THEOREM ReleasesDependents ==
  ASSUME OnlyRootsHaveDeps
  PROVE  ExecutionSpec => []DepsReleased
<1>1. TypeInv /\ ClaimInv /\ ShareInv /\ RootsRelease => DepsReleased
  <2> SUFFICES ASSUME TypeInv, RootsRelease, NEW c \in Published, done[c] = Jobs(c),
                      \A w \in Workers : chain[w] # c
               PROVE  Range(Deps[c]) \subseteq Published
    BY DEF DepsReleased
  <2>1. c \in Chains
    <3>1. \A l \in Levels : pChains[l] \in Seq(Chains)
      BY DEF TypeInv, VarsInv
    <3>2. \A l \in Levels : Range(pChains[l]) \subseteq Chains
      BY <3>1, RangeOf
    <3> QED BY <3>2 DEF Published
  <2>2. CASE Deps[c] = <<>>
    BY <2>2 DEF Range
  <2>3. CASE Deps[c] # <<>>
    BY <2>1, <2>3 DEF OnlyRootsHaveDeps, RootsRelease
  <2> QED BY <2>2, <2>3
<1> QED BY <1>1, Invariants3, ReleasesOfRoots, PTL
=============================================================================
