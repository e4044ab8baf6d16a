-------------------------------- MODULE DagRun --------------------------------
(***************************************************************************)
(* What Fleet promises to whoever submits a workflow, with no lease, call, *)
(* worker or crash in sight: a node is started only when all it depends on *)
(* is done, only when an operator allowed it if it needs that, and at most *)
(* MaxAttempts times; a workflow is completed only when all of it is done, *)
(* and failed only when a node of it has failed.  Nodes that are done or   *)
(* failed, and workflows that have a verdict, stay so.                     *)
(***************************************************************************)
EXTENDS Integers

CONSTANTS Workflow, Node, WorkflowOf, Deps, Gated, MaxAttempts

VARIABLES
  verdict,   (* workflow -> "absent", "running", "completed" or "failed"    *)
  phase,     (* node -> "absent", "waiting", "running", "done" or "failed"  *)
  starts,    (* node -> how often it was started                            *)
  allowed    (* the nodes an operator has allowed to start                  *)

vars == <<verdict, phase, starts, allowed>>

Init ==
  /\ verdict = [w \in Workflow |-> "absent"]
  /\ phase = [n \in Node |-> "absent"]
  /\ starts = [n \in Node |-> 0]
  /\ allowed = {}

Ready(n) == \A m \in Deps[n] : phase[m] = "done"

Submit(w) ==
  /\ verdict[w] = "absent"
  /\ verdict' = [verdict EXCEPT ![w] = "running"]
  /\ phase' = [n \in Node |-> IF WorkflowOf[n] = w THEN "waiting" ELSE phase[n]]
  /\ UNCHANGED <<starts, allowed>>

Allow(n) ==
  /\ n \in Gated
  /\ phase[n] = "waiting"
  /\ Ready(n)
  /\ allowed' = allowed \cup {n}
  /\ UNCHANGED <<verdict, phase, starts>>

Start(n) ==
  /\ phase[n] = "waiting"
  /\ Ready(n)
  /\ n \in Gated => n \in allowed
  /\ starts[n] < MaxAttempts[n]
  /\ phase' = [phase EXCEPT ![n] = "running"]
  /\ starts' = [starts EXCEPT ![n] = @ + 1]
  /\ UNCHANGED <<verdict, allowed>>

(* A run ends in success, in failure, or back in the queue if it may be     *)
(* started once more.                                                       *)
Stop(n, outcome) ==
  /\ phase[n] = "running"
  /\ outcome = "waiting" => starts[n] < MaxAttempts[n]
  /\ phase' = [phase EXCEPT ![n] = outcome]
  /\ UNCHANGED <<verdict, starts, allowed>>

(* The operator refuses a node that is ready and has not been allowed.      *)
Refuse(n) ==
  /\ n \in Gated \ allowed
  /\ phase[n] = "waiting"
  /\ Ready(n)
  /\ phase' = [phase EXCEPT ![n] = "failed"]
  /\ UNCHANGED <<verdict, starts, allowed>>

Complete(w) ==
  /\ verdict[w] = "running"
  /\ \A n \in Node : WorkflowOf[n] = w => phase[n] = "done"
  /\ verdict' = [verdict EXCEPT ![w] = "completed"]
  /\ UNCHANGED <<phase, starts, allowed>>

Abort(w) ==
  /\ verdict[w] = "running"
  /\ \E n \in Node : WorkflowOf[n] = w /\ phase[n] = "failed"
  /\ verdict' = [verdict EXCEPT ![w] = "failed"]
  /\ UNCHANGED <<phase, starts, allowed>>

Next ==
  \/ \E w \in Workflow : Submit(w) \/ Complete(w) \/ Abort(w)
  \/ \E n \in Node :
       \/ Allow(n)
       \/ Start(n)
       \/ \E outcome \in {"waiting", "done", "failed"} : Stop(n, outcome)
       \/ Refuse(n)

Spec == Init /\ [][Next]_vars
=============================================================================
