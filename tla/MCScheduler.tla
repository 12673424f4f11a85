---------------------------- MODULE MCScheduler ----------------------------
(***************************************************************************)
(* The scheduler's arrays of chains and its frames: small instances of     *)
(* PriorityChain and of FrameHandshake.  A behaviour is one of one of      *)
(* them, named by part, while the other stays as it began.  Two chains     *)
(* contend for one level, which holds three; the third chain has a level   *)
(* of its own.  Each may be submitted several times.                       *)
(***************************************************************************)
EXTENDS PriorityChain, FrameHandshake

CONSTANTS c1, c2, c3

MCChains == {c1, c2, c3}
MCLevels == {"Normal", "High"}
MCPriority == [c \in MCChains |-> IF c = c3 THEN "High" ELSE "Normal"]

VARIABLE part

SchedulerInit == part \in {"publication", "frames"} /\ Init /\ FrameInit

SchedulerNext ==
  /\ UNCHANGED part
  /\ \/ part = "publication" /\ Next /\ UNCHANGED frameVars
     \/ part = "frames" /\ FrameNext /\ UNCHANGED vars

\* With the fairness of FairSpec and of FrameFairSpec.
SchedulerSpec ==
  /\ SchedulerInit /\ [][SchedulerNext]_<<part, vars, frameVars>>
  /\ \A t \in Threads : WF_vars(part = "publication" /\ Step(t))
  /\ WF_frameVars(part = "frames" /\ MainStep)
  /\ \A w \in Workers : WF_frameVars(part = "frames" /\ WorkerStep(w))
=============================================================================
