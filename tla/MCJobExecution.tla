--------------------------- MODULE MCJobExecution ---------------------------
(***************************************************************************)
(* Instances of JobExecution: three chains and the trees over them.        *)
(***************************************************************************)
EXTENDS JobExecution

CONSTANTS chA, chB, chC

MCChains == {chA, chB, chC}

\* Two roots, one with a dependent of a lower level.
MCRoots == <<chA, chB>>
MCDeps == [x \in MCChains |-> IF x = chA THEN <<chC>> ELSE <<>>]
MCPriority == [x \in MCChains |-> IF x = chC THEN 0 ELSE 1]
MCJobs == [x \in MCChains |-> CASE x = chA -> 3 [] x = chB -> 1 [] x = chC -> 2]

\* AddJobs rounds up to a multiple of kAlign that is larger than the jobs.
kAlign == 4
MCRoom == [x \in MCChains |-> kAlign]

\* One root; every chain has the lowest priority, EPriority::Lowest.
MCOneRoot == <<chA>>
MCSamePriority == [x \in MCChains |-> 0]

\* It has one dependent.
MCPair == [x \in MCChains |-> IF x = chA THEN <<chB>> ELSE <<>>]

\* Its dependent, of two jobs, has a dependent of its own.
MCLine == [x \in MCChains |-> CASE x = chA -> <<chB>> [] x = chB -> <<chC>> [] x = chC -> <<>>]
MCLineJobs == [x \in MCChains |-> IF x = chB THEN 2 ELSE 1]
=============================================================================
