----------------------------- MODULE AgentRuntime -----------------------------
(***************************************************************************)
(* The agent Runtime (services/runtime, runtime.py over store.py): runs    *)
(* that ask a model for turns, execute the tools it requests under the     *)
(* policy, and stop for human approval.                                    *)
(*                                                                         *)
(* A run is driven by _execute at first, and after that by the             *)
(* decide_approval call of each approval it asked for.  Both await the     *)
(* model and the tools and leave the event loop to others there; between   *)
(* two awaits they hold it ("loop"), and only a crash can come in between  *)
(* their commits.  Sessions, messages, memory, usage and event rows are    *)
(* abstracted, and so are failures of the database itself.                 *)
(***************************************************************************)
EXTENDS Integers, Sequences

CONSTANTS
  Run,        (* run ids                                                    *)
  Tool,       (* names a model may call                                     *)
  Action,     (* tool -> what ToolPolicy.decide says; "unknown": no tool    *)
  Turns,      (* the tool_calls lists a model turn may hold                 *)
  MaxSteps,   (* max_tool_steps                                             *)
  MaxAsks,    (* bound of the model: approvals a run may ask for            *)
  None

ASSUME RuntimeAssumption ==
  /\ Action \in [Tool -> {"execute", "approve", "deny", "unknown"}]
  /\ Turns \subseteq Seq(Tool)
  /\ MaxSteps \in Nat
  /\ MaxAsks \in Nat

(* The approvals a run may ask for; each one names its run.                 *)
Approval == Run \X (1..MaxAsks)

(* What may drive run r: _execute, as <<r, 0>>, or the call that decides    *)
(* one of its approvals, under the name of that approval.                   *)
Driver == Run \X (0..MaxAsks)

ASSUME NoneAssumption == None \notin Driver

Executor(r) == <<r, 0>>

RunOf(d) == d[1]

ApprovalsOf(r) == {a \in Approval : RunOf(a) = r}

DriversOf(r) == {d \in Driver : RunOf(d) = r}

VARIABLES
  status,     (* runs.status, "absent" before the INSERT                    *)
  approval,   (* approvals.status, "absent" before the INSERT               *)
  effects,    (* approval -> how often its tool has completed               *)
  drive,      (* what each driver is doing                                  *)
  loop        (* the driver that is between two awaits, or None             *)

vars == <<status, approval, effects, drive, loop>>

(* "created": the task exists; "model", "tool", "risky": awaiting the model,*)
(* a low-risk tool, an approved tool; "calls": in the loop over tool_calls; *)
(* "asked": the approval row is written; "decided": its decision is.        *)
Position ==
  {"off", "created", "model", "tool", "risky", "calls", "asked", "decided"}

Drive ==
  [at : Position,
   step : 0..MaxSteps,     (* step of the range in _drive                   *)
   calls : Seq(Tool)]      (* tool calls of the turn still to be handled    *)

Off == [at |-> "off", step |-> 0, calls |-> <<>>]

TypeOK ==
  /\ status \in [Run -> {"absent", "accepted", "running", "awaiting_approval",
                         "completed", "failed"}]
  /\ approval \in [Approval -> {"absent", "pending", "approved", "denied"}]
  /\ effects \in [Approval -> Nat]
  /\ drive \in [Driver -> Drive]
  /\ loop \in Driver \cup {None}

Init ==
  /\ status = [r \in Run |-> "absent"]
  /\ approval = [a \in Approval |-> "absent"]
  /\ effects = [a \in Approval |-> 0]
  /\ drive = [d \in Driver |-> Off]
  /\ loop = None

(* d is now at "at", in that step and with those calls to be handled.       *)
Goes(d, at, step, calls) ==
  drive' = [drive EXCEPT ![d] = [at |-> at, step |-> step, calls |-> calls]]

Moves(d, at) == Goes(d, at, drive[d].step, drive[d].calls)

Ends(d) == drive' = [drive EXCEPT ![d] = Off]

Asked(r) == {a \in ApprovalsOf(r) : approval[a] # "absent"}

Pending(r) == {a \in ApprovalsOf(r) : approval[a] = "pending"}

Driven(r) == {d \in DriversOf(r) : drive[d].at # "off"}
-----------------------------------------------------------------------------
(* accept, then create_task(_execute) or the first steps of run_once.       *)
Accept(r) ==
  /\ loop = None
  /\ status[r] = "absent"
  /\ status' = [status EXCEPT ![r] = "accepted"]
  /\ Moves(Executor(r), "created")
  /\ UNCHANGED <<approval, effects, loop>>

(* _execute up to the await of the first model turn.                        *)
Start(r) ==
  /\ loop = None
  /\ drive[Executor(r)].at = "created"
  /\ status' = [status EXCEPT ![r] = "running"]
  /\ Moves(Executor(r), "model")
  /\ UNCHANGED <<approval, effects, loop>>

(* Mutant: a run that stopped is not marked failed.                         *)
StopUnmarked(d) ==
  /\ Ends(d)
  /\ UNCHANGED status

(* An exception leaves the drive: _execute marks the run failed; in         *)
(* decide_approval nobody catches it.                                       *)
Stop(d) ==
  /\ Ends(d)
  /\ status' = IF d = Executor(RunOf(d))
               THEN [status EXCEPT ![RunOf(d)] = "failed"] ELSE status

(* A turn without tool calls completes the run.                             *)
ModelFinishes(d) ==
  /\ loop = None
  /\ drive[d].at = "model"
  /\ Ends(d)
  /\ status' = [status EXCEPT ![RunOf(d)] = "completed"]
  /\ UNCHANGED <<approval, effects, loop>>

(* A turn with tool calls.  It asks for an approval only while the run may. *)
ModelCalls(d, turn) ==
  /\ loop = None
  /\ drive[d].at = "model"
  /\ turn # <<>>
  /\ (\E i \in 1..Len(turn) : Action[turn[i]] = "approve") =>
        Asked(RunOf(d)) # ApprovalsOf(RunOf(d))
  /\ Goes(d, "calls", drive[d].step, turn)
  /\ loop' = d
  /\ UNCHANGED <<status, approval, effects>>

ModelRaises(d) ==
  /\ loop = None
  /\ drive[d].at = "model"
  /\ Stop(d)
  /\ UNCHANGED <<approval, effects, loop>>
-----------------------------------------------------------------------------
NextCall(d) == Head(drive[d].calls)

(* The next tool call of the turn, which the policy wants to be handled so. *)
Handles(d, action) ==
  /\ loop = d
  /\ drive[d].at = "calls"
  /\ drive[d].calls # <<>>
  /\ Action[NextCall(d)] = action

CallUnknown(d) ==
  /\ Handles(d, "unknown")
  /\ Stop(d)
  /\ loop' = None
  /\ UNCHANGED <<approval, effects>>

CallDenied(d) ==
  /\ Handles(d, "deny")
  /\ Goes(d, "calls", drive[d].step, Tail(drive[d].calls))
  /\ UNCHANGED <<status, approval, effects, loop>>

CallTool(d) ==
  /\ Handles(d, "execute")
  /\ Goes(d, "tool", drive[d].step, Tail(drive[d].calls))
  /\ loop' = None
  /\ UNCHANGED <<status, approval, effects>>

ToolReturns(d) ==
  /\ loop = None
  /\ drive[d].at = "tool"
  /\ Moves(d, "calls")
  /\ loop' = d
  /\ UNCHANGED <<status, approval, effects>>

ToolRaises(d) ==
  /\ loop = None
  /\ drive[d].at = "tool"
  /\ Stop(d)
  /\ UNCHANGED <<approval, effects, loop>>

(* create_approval.                                                         *)
Ask(d, a) ==
  /\ Handles(d, "approve")
  /\ RunOf(a) = RunOf(d)
  /\ approval[a] = "absent"
  /\ approval' = [approval EXCEPT ![a] = "pending"]
  /\ Moves(d, "asked")
  /\ UNCHANGED <<status, effects, loop>>

(* Mutant: the return is missing.                                           *)
ParkAndGoOn(d) ==
  /\ loop = d
  /\ drive[d].at = "asked"
  /\ status' = [status EXCEPT ![RunOf(d)] = "awaiting_approval"]
  /\ Goes(d, "calls", drive[d].step, Tail(drive[d].calls))
  /\ UNCHANGED <<approval, effects, loop>>

(* update_run(AWAITING_APPROVAL) and return: what is left of the turn, and  *)
(* of the steps, is dropped.                                                *)
Park(d) ==
  /\ loop = d
  /\ drive[d].at = "asked"
  /\ status' = [status EXCEPT ![RunOf(d)] = "awaiting_approval"]
  /\ Ends(d)
  /\ loop' = None
  /\ UNCHANGED <<approval, effects>>

(* All calls of the turn are handled: the next step of the range, if any.   *)
Step(d) ==
  /\ loop = d
  /\ drive[d].at = "calls"
  /\ drive[d].calls = <<>>
  /\ drive[d].step < MaxSteps
  /\ Goes(d, "model", drive[d].step + 1, <<>>)
  /\ loop' = None
  /\ UNCHANGED <<status, approval, effects>>

(* "Tool step budget exceeded".                                             *)
OverBudget(d) ==
  /\ loop = d
  /\ drive[d].at = "calls"
  /\ drive[d].calls = <<>>
  /\ drive[d].step = MaxSteps
  /\ Stop(d)
  /\ loop' = None
  /\ UNCHANGED <<approval, effects>>
-----------------------------------------------------------------------------
(* Mutant: the status of the approval is not looked at.                     *)
DecideAnyway(a, verdict) ==
  /\ loop = None
  /\ approval[a] # "absent"
  /\ approval' = [approval EXCEPT ![a] = verdict]
  /\ Moves(a, IF verdict = "approved" THEN "risky" ELSE "decided")
  /\ loop' = IF verdict = "approved" THEN None ELSE a
  /\ UNCHANGED <<status, effects>>

(* decide_approval: the row is pending and is updated; there is no await in *)
(* between.  Then the approved tool is awaited.                             *)
Decide(a, verdict) ==
  /\ loop = None
  /\ approval[a] = "pending"
  /\ approval' = [approval EXCEPT ![a] = verdict]
  /\ Moves(a, IF verdict = "approved" THEN "risky" ELSE "decided")
  /\ loop' = IF verdict = "approved" THEN None ELSE a
  /\ UNCHANGED <<status, effects>>

(* The approved tool has had its effect.                                    *)
RiskyReturns(a) ==
  /\ loop = None
  /\ drive[a].at = "risky"
  /\ effects' = [effects EXCEPT ![a] = @ + 1]
  /\ Moves(a, "decided")
  /\ loop' = a
  /\ UNCHANGED <<status, approval>>

RiskyRaises(a) ==
  /\ loop = None
  /\ drive[a].at = "risky"
  /\ Ends(a)
  /\ UNCHANGED <<status, approval, effects, loop>>

(* The result is in the history: update_run(RUNNING), and a new _drive.     *)
Resume(a) ==
  /\ loop = a
  /\ drive[a].at = "decided"
  /\ status' = [status EXCEPT ![RunOf(a)] = "running"]
  /\ Moves(a, "model")
  /\ loop' = None
  /\ UNCHANGED <<approval, effects>>

(* The process dies.  Nothing takes the runs up again after the restart.    *)
Crash ==
  /\ \E d \in Driver : drive[d].at # "off"
  /\ drive' = [d \in Driver |-> Off]
  /\ loop' = None
  /\ UNCHANGED <<status, approval, effects>>

(* What a run does once it is accepted; model and tools may take their time *)
(* and may raise.                                                           *)
DriverStep(d) ==
  \/ ModelFinishes(d)
  \/ \E turn \in Turns : ModelCalls(d, turn)
  \/ ModelRaises(d)
  \/ CallUnknown(d) \/ CallDenied(d) \/ CallTool(d)
  \/ ToolReturns(d) \/ ToolRaises(d)
  \/ (\E a \in Approval : Ask(d, a))
  \/ Park(d)
  \/ Step(d) \/ OverBudget(d)

ApprovalStep(a) == RiskyReturns(a) \/ RiskyRaises(a) \/ Resume(a)

Progress(r) ==
  \/ Start(r)
  \/ \E d \in DriversOf(r) : DriverStep(d)
  \/ \E a \in ApprovalsOf(r) : ApprovalStep(a)

Decision == \E a \in Approval, verdict \in {"approved", "denied"} : Decide(a, verdict)

Operation == (\E r \in Run : Accept(r) \/ Progress(r)) \/ Decision

Next == Operation \/ Crash

Spec == Init /\ [][Next]_vars

(***************************************************************************)
(* Fairness.  asyncio resumes coroutines in the order in which they become *)
(* ready, so a run that can go on does so although others keep taking the  *)
(* loop; the provider's and the tools' HTTP timeouts make their awaits     *)
(* end.  Nothing is assumed of submissions and operators.                  *)
(***************************************************************************)
Fairness == \A r \in Run : SF_vars(Progress(r))

FairSpec == Spec /\ Fairness
-----------------------------------------------------------------------------
(* A run is never driven twice at once: not by two decisions, nor by a      *)
(* decision and the drive that asked for it.  Two drives would interleave   *)
(* their messages and overwrite each other's status.                        *)
OneDriver == \A r \in Run : \A d, e \in Driven(r) : d = e

(* The tool of an approval completes at most once, and only if the operator *)
(* approved it; a denied one never does, whatever is retried or crashes.    *)
GovernedEffect ==
  \A a \in Approval : /\ effects[a] <= 1
                      /\ effects[a] = 1 => approval[a] = "approved"

(* While a decision is open nothing else drives the run, it has no other    *)
(* open decision and no verdict: the operator decides on the latest state.  *)
OpenDecisionIsCurrent ==
  \A r \in Run : \A a \in Pending(r) :
    /\ Pending(r) = {a}
    /\ \A d \in Driven(r) : drive[d].at = "asked"
    /\ status[r] \in {"running", "awaiting_approval"}

(* A completed or failed run keeps its verdict and asks for nothing more.   *)
SettledIsFinal ==
  [][\A r \in Run :
       status[r] \in {"completed", "failed"} =>
         /\ status'[r] = status[r]
         /\ Asked(r)' = Asked(r)
         /\ \A a \in ApprovalsOf(r) : effects'[a] = effects[a]]_vars

LeavesVerdict(d) ==
  drive[d].at # "off" /\ drive'[d].at = "off" =>
    \/ status'[RunOf(d)] \in {"completed", "failed"}
    \/ status'[RunOf(d)] = "awaiting_approval" /\ Pending(RunOf(d))' # {}

(* When _execute ends other than by a crash, the run has a verdict or waits *)
(* for a decision that can still be made.                                   *)
ExecutorLeavesVerdict ==
  [][Crash \/ \A r \in Run : LeavesVerdict(Executor(r))]_vars

(* "persist every provider/tool boundary failure" (runtime.py): the same of *)
(* the drives that decide_approval resumes.                                 *)
EveryDriveLeavesVerdict ==
  [][Crash \/ \A d \in Driver : LeavesVerdict(d)]_vars

(***************************************************************************)
(* The inductive invariant.                                                *)
(***************************************************************************)

(* Whoever is between two awaits holds the loop, and nobody else is.        *)
LoopIsHeld ==
  \A d \in Driver : drive[d].at \in {"calls", "asked", "decided"} <=> loop = d

(* An approval drives its run only once it is decided, and its tool is      *)
(* awaited only if it was approved and has not completed yet.               *)
DecisionComesFirst ==
  \A a \in Approval :
    /\ approval[a] \in {"absent", "pending"} => drive[a].at = "off"
    /\ approval[a] # "approved" => effects[a] = 0
    /\ drive[a].at = "risky" => approval[a] = "approved" /\ effects[a] = 0
    /\ drive[a].at # "created"

(* A run without a task has asked for nothing, and one with a verdict is    *)
(* not driven.                                                              *)
StatusMatchesDrive ==
  \A r \in Run :
    /\ status[r] \in {"absent", "completed", "failed"} => Driven(r) = {}
    /\ status[r] \in {"absent", "accepted"} => Asked(r) = {}
    /\ status[r] = "accepted" => \A d \in Driven(r) : drive[d].at = "created"
    /\ \A d \in Driven(r) : drive[d].at = "created" => status[r] = "accepted"

(* All of it: what keeps decisions, drives and statuses of runtime.py and   *)
(* store.py together, and with them OneDriver and GovernedEffect.           *)
RunInv ==
  /\ TypeOK
  /\ OneDriver
  /\ GovernedEffect
  /\ OpenDecisionIsCurrent
  /\ LoopIsHeld
  /\ DecisionComesFirst
  /\ StatusMatchesDrive

=============================================================================
