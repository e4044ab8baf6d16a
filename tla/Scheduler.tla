------------------------------ MODULE Scheduler ------------------------------
(***************************************************************************)
(* The interval scheduler (services/runtime, scheduler.py), next to the    *)
(* prompt promotions that share its event loop and its database: a job is  *)
(* submitted only if AgentRuntime.accept finds an active prompt.           *)
(*                                                                         *)
(* runtime.submit suspends nowhere, so a scan holds the event loop from    *)
(* its SELECT to its sleep, and only a crash comes between its commits.    *)
(* Runs themselves are those of AgentRuntime; here they are counted.  The  *)
(* clock is the action that makes a job due.                               *)
(***************************************************************************)
EXTENDS PromptEvolution

CONSTANTS
  Job,       (* job ids                                                     *)
  MaxDue     (* bound of the model: how often a job comes due               *)

ASSUME SchedulerAssumption == MaxDue \in Nat /\ None \notin Job

VARIABLES
  job,       (* next_run_at of each row against the clock                   *)
  task,      (* the task of _loop                                           *)
  left,      (* the rows of its SELECT that it has not submitted yet        *)
  current,   (* the row that is submitted and not moved yet, or None        *)
  submitted, (* job -> runs accepted for it                                 *)
  moved      (* job -> how often its next_run_at was moved                  *)

schedulerVars == <<job, task, left, current, submitted, moved>>
allVars == <<vars, schedulerVars>>

SchedulerTypeOK ==
  /\ TypeOK
  /\ job \in [Job -> {"absent", "waiting", "due"}]
  /\ task \in {"off", "running", "dead"}
  /\ left \in SUBSET Job
  /\ current \in Job \cup {None}
  /\ submitted \in [Job -> 0..(MaxDue + MaxCrashes)]
  /\ moved \in [Job -> 0..MaxDue]

SchedulerInit ==
  /\ Init
  /\ job = [j \in Job |-> "absent"]
  /\ task = "running"
  /\ left = {}
  /\ current = None
  /\ submitted = [j \in Job |-> 0]
  /\ moved = [j \in Job |-> 0]

Due == {j \in Job : job[j] = "due"}
-----------------------------------------------------------------------------
(* create.                                                                  *)
CreateJob(j) ==
  /\ loop = "free"
  /\ job[j] = "absent"
  /\ job' = [job EXCEPT ![j] = "waiting"]
  /\ UNCHANGED <<vars, task, left, current, submitted, moved>>

(* The clock passes next_run_at.                                            *)
ComesDue(j) ==
  /\ job[j] = "waiting"
  /\ moved[j] < MaxDue
  /\ job' = [job EXCEPT ![j] = "due"]
  /\ UNCHANGED <<vars, task, left, current, submitted, moved>>

(* The task of _loop wakes up and selects the due rows.                     *)
Scan ==
  /\ TakeLoop
  /\ task = "running"
  /\ Due # {}
  /\ left' = Due
  /\ UNCHANGED <<job, task, current, submitted, moved>>

(* runtime.submit: accept pins the run to the active prompt and commits.    *)
Submit(j) ==
  /\ loop = "scheduler"
  /\ current = None
  /\ j \in left
  /\ Active # {}
  /\ submitted' = [submitted EXCEPT ![j] = @ + 1]
  /\ left' = left \ {j}
  /\ current' = j
  /\ UNCHANGED <<vars, job, task, moved>>

(* Mutant: the exception is caught and the loop goes on to the UPDATE.      *)
SubmitSwallows(j) ==
  /\ loop = "scheduler"
  /\ current = None
  /\ j \in left
  /\ Active = {}
  /\ left' = left \ {j}
  /\ current' = j
  /\ UNCHANGED <<vars, job, task, submitted, moved>>

(* active_prompt raises, and nothing in _loop catches it: the task ends.    *)
SubmitRaises(j) ==
  /\ LeaveLoop
  /\ current = None
  /\ j \in left
  /\ Active = {}
  /\ task' = "dead"
  /\ left' = {}
  /\ UNCHANGED <<job, current, submitted, moved>>

(* The UPDATE of next_run_at; after the last row the loop sleeps.           *)
Move(j) ==
  /\ IF left = {} THEN LeaveLoop ELSE loop = "scheduler" /\ UNCHANGED vars
  /\ current = j
  /\ job' = [job EXCEPT ![j] = "waiting"]
  /\ moved' = [moved EXCEPT ![j] = @ + 1]
  /\ current' = None
  /\ UNCHANGED <<task, left, submitted>>

(* Mutant: the lifespan of a restarted process forgets scheduler.start().   *)
StopForGood ==
  /\ Crash
  /\ task' = "off"
  /\ left' = {}
  /\ current' = None
  /\ UNCHANGED <<job, submitted, moved>>

(* A crash, or an orderly stop, and the start of the next process.          *)
Restart ==
  /\ Crash
  /\ task' = "running"
  /\ left' = {}
  /\ current' = None
  /\ UNCHANGED <<job, submitted, moved>>

SchedulerStep ==
  \/ Scan
  \/ \E j \in Job : Submit(j)
  \/ \E j \in Job : SubmitRaises(j)
  \/ \E j \in Job : Move(j)

SchedulerNext ==
  \/ EvolutionStep /\ UNCHANGED schedulerVars
  \/ \E j \in Job : CreateJob(j)
  \/ \E j \in Job : ComesDue(j)
  \/ SchedulerStep
  \/ Restart

SchedulerSpec == SchedulerInit /\ [][SchedulerNext]_allVars

(* Commits follow each other, and the one-second sleep ends.  A promotion   *)
(* between its commits holds the loop, so it is scheduled like the scan.    *)
SchedulerFairness ==
  /\ WF_allVars(SchedulerStep)
  /\ WF_allVars((Insert \/ MarkPromoted) /\ UNCHANGED schedulerVars)

FairSchedulerSpec == SchedulerSpec /\ SchedulerFairness
-----------------------------------------------------------------------------
(* The submit commits before next_run_at moves (scheduler.py, _loop): no    *)
(* occurrence of a job is lost, and a crash repeats a job at most once.     *)
OccurrencesAreKept ==
  \A j \in Job :
    LET handled == moved[j] + (IF current = j THEN 1 ELSE 0)
    IN  submitted[j] \in handled..(handled + crashes)

(* A due job is submitted and moved, or the task of _loop has ended.        *)
JobFires == \A j \in Job : job[j] = "due" ~> job[j] = "waiting" \/ task = "dead"

(* The task of _loop ends only when a crash has hit a promotion.            *)
LoopSurvives == task = "dead" => crashes > 0

(***************************************************************************)
(* The inductive invariant, next to EvolutionInv.                          *)
(***************************************************************************)

(* A scan holds the loop, and the rows it still has to handle are due.      *)
ScanIsCurrent ==
  /\ loop = "scheduler" => task = "running"
  /\ loop # "scheduler" => left = {} /\ current = None
  /\ \A j \in left : job[j] = "due"
  /\ current # None => job[current] = "due" /\ current \notin left
  /\ \A j \in Job : job[j] = "due" => moved[j] < MaxDue

SchedulerInv ==
  /\ SchedulerTypeOK
  /\ ScanIsCurrent
  /\ OccurrencesAreKept
  /\ LoopSurvives
=============================================================================
