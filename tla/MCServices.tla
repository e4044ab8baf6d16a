----------------------------- MODULE MCServices -----------------------------
(***************************************************************************)
(* The services that do not share state, checked in one run: `part` says   *)
(* which of them moves, and the others stand where they start.  So the     *)
(* states of the run are the sum, not the product, of those of the parts.  *)
(***************************************************************************)
EXTENDS Scheduler, WorkflowDag, ControlPlane, EventFeed, HarnessLab

CONSTANT ghost              \* an id that no submitted node has

VARIABLE part

Parts == {"scheduler", "workflow", "control", "feed", "trace", "lab"}

MCId == Node \cup {ghost}

\* A part that does not move has one initial state.
Stands ==
  /\ part # "workflow" => edges = [n \in Node |-> {}]
  /\ part # "control" =>
       post = [q \in Post |-> [kind |-> "runs", key |-> NoKey, at |-> "new",
                               answer |-> NoResponse]]
  /\ part # "feed" => transport = "sse"

ServicesInit ==
  /\ part \in Parts
  /\ Stands
  /\ SchedulerInit /\ DagInit /\ ControlInit /\ FeedInit /\ TraceInit /\ HarnessInit

labVars == <<trace, harnessVars>>
platformVars == <<allVars, dagVars, controlVars, feedVars>>
servicesVars == <<part, platformVars, labVars>>

SchedulerMoves ==
  /\ part = "scheduler" /\ SchedulerNext
  /\ UNCHANGED <<part, dagVars, controlVars, feedVars, labVars>>

DagMoves ==
  /\ part = "workflow" /\ DagNext
  /\ UNCHANGED <<part, allVars, controlVars, feedVars, labVars>>

ControlMoves ==
  /\ part = "control" /\ ControlNext
  /\ UNCHANGED <<part, allVars, dagVars, feedVars, labVars>>

FeedMoves ==
  /\ part = "feed" /\ FeedNext
  /\ UNCHANGED <<part, allVars, dagVars, controlVars, labVars>>

TraceMoves ==
  /\ part = "trace" /\ TraceNext
  /\ UNCHANGED <<part, platformVars, harnessVars>>

LabMoves ==
  /\ part = "lab" /\ HarnessNext
  /\ UNCHANGED <<part, platformVars, trace>>

ServicesNext ==
  \/ SchedulerMoves \/ DagMoves \/ ControlMoves \/ FeedMoves \/ TraceMoves \/ LabMoves

\* The fairness of each part is that of its module.
ServicesSpec ==
  /\ ServicesInit /\ [][ServicesNext]_servicesVars
  /\ part = "scheduler" => SchedulerFairness
  /\ part = "lab" => HarnessFairness

=============================================================================
