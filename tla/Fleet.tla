-------------------------------- MODULE Fleet --------------------------------
(***************************************************************************)
(* The Fleet orchestrator (services/fleet, orchestrator.py over store.py): *)
(* workflows that are DAGs of nodes, workers that claim nodes under        *)
(* expiring leases, human approval, retries.                               *)
(*                                                                         *)
(* Granularity.  Store.execute commits on its own, so one API call is a    *)
(* sequence of commits.  Each action below is one commit, or the read that *)
(* opens a call.  What a call remembers between two of them (the row       *)
(* fetched by _lease, the rows fetched by sweep_expired, the statuses read *)
(* by _advance) is kept in call[h], where h is the context that runs it.   *)
(* The API handlers are coroutines that never await inside a call, so one  *)
(* event loop is one Handler; several Handlers are several threads that    *)
(* share a Store.  A crash loses call[h] and keeps every committed row.    *)
(*                                                                         *)
(* Abstracted: payloads, artifacts, route metrics, event rows, timestamps. *)
(* A lease deadline is the flag "expired" (lease_expires < time.time()),   *)
(* raised by Lapse at any moment and cleared by a heartbeat.  A request    *)
(* whose worker/token pair matches no leased row raises ValueError before  *)
(* anything is written: it is a stuttering step.                           *)
(***************************************************************************)
EXTENDS Integers, FiniteSets

CONSTANTS
  Workflow,      (* workflow ids                                            *)
  Node,          (* rows of table nodes, that is (workflow_id, node_id)     *)
  Worker,        (* worker ids                                              *)
  Capability,    (* capability names                                        *)
  Handler,       (* execution contexts that may run an API call             *)
  None,          (* SQL NULL                                                *)
  WorkflowOf,    (* node -> its workflow                                    *)
  Deps,          (* node -> the nodes of depends_on                         *)
  Gated,         (* the nodes with approval_required                        *)
  Needs,         (* node -> its capabilities                                *)
  MaxAttempts,   (* node -> max_attempts                                    *)
  Rank,          (* node -> position of node_id in its workflow             *)
  Registrations  (* the registrations workers may send                      *)

Registration == [capabilities : SUBSET Capability, max_concurrency : Nat \ {0}]

Lease == [by : Worker, token : Nat, expired : BOOLEAN]

(***************************************************************************)
(* What WorkflowSpec.validate_dag and the field bounds of models.py        *)
(* guarantee.  Acyclicity is not needed for safety and is left to module   *)
(* WorkflowDag.                                                            *)
(***************************************************************************)
ASSUME FleetAssumption ==
  /\ IsFiniteSet(Workflow)
  /\ IsFiniteSet(Node)
  /\ WorkflowOf \in [Node -> Workflow]
  /\ \A w \in Workflow : \E n \in Node : WorkflowOf[n] = w
  /\ Deps \in [Node -> SUBSET Node]
  /\ \A n \in Node : \A m \in Deps[n] : WorkflowOf[m] = WorkflowOf[n]
  /\ Gated \subseteq Node
  /\ Needs \in [Node -> SUBSET Capability]
  /\ MaxAttempts \in [Node -> Nat \ {0}]
  /\ Rank \in [Node -> Nat]
  /\ Registrations \subseteq Registration
  /\ None \notin Node \cup Workflow \cup Worker
  /\ None \notin Registration \cup Lease

VARIABLES
  workflow,   (* workflows.status, "absent" before the INSERT               *)
  created,    (* workflows.created_at, as the rank of the submission        *)
  status,     (* nodes.status, "absent" before the INSERT                   *)
  attempts,   (* nodes.attempts                                             *)
  lease,      (* nodes.(leased_by, lease_token, lease_expires)              *)
  decision,   (* nodes.(approval_actor, error) as written by approve        *)
  worker,     (* workers row, None before register                          *)
  call        (* the API call each handler is in the middle of              *)

vars == <<workflow, created, status, attempts, lease, decision, worker, call>>

NodesOf(w) == {n \in Node : WorkflowOf[n] = w}

NodeStatus == {"blocked", "queued", "awaiting_approval", "leased", "completed", "failed"}

Call ==
  [at      : {"idle", "sweep", "complete", "advance", "unblock", "close",
              "retry", "fail", "abort"},
   worker  : Worker \cup {None},   (* caller of claim                       *)
   scope   : SUBSET Workflow,      (* workflow filter of claim              *)
   node    : Node \cup {None},     (* row the call is about                 *)
   token   : Nat,                  (* its lease_token when it was read      *)
   requeue : SUBSET Node,          (* expired rows still to be requeued     *)
   exhaust : SUBSET Node,          (* expired rows still to be failed       *)
   ready   : SUBSET Node]          (* blocked rows still to be released     *)

Idle ==
  [at |-> "idle", worker |-> None, scope |-> {}, node |-> None, token |-> 0,
   requeue |-> {}, exhaust |-> {}, ready |-> {}]

Sweeping(k, scope, requeue, exhaust) ==
  [at |-> "sweep", worker |-> k, scope |-> scope, node |-> None, token |-> 0,
   requeue |-> requeue, exhaust |-> exhaust, ready |-> {}]

(* Between two commits of complete, fail or approve on row n.               *)
Amid(step, n, token, ready) ==
  [at |-> step, worker |-> None, scope |-> {}, node |-> n, token |-> token,
   requeue |-> {}, exhaust |-> {}, ready |-> ready]

TypeOK ==
  /\ workflow \in [Workflow -> {"absent", "running", "completed", "failed"}]
  /\ created \in [Workflow -> Nat]
  /\ status \in [Node -> NodeStatus \cup {"absent"}]
  /\ attempts \in [Node -> Nat]
  /\ lease \in [Node -> Lease \cup {None}]
  /\ decision \in [Node -> {"none", "approved", "denied"}]
  /\ worker \in [Worker -> Registration \cup {None}]
  /\ call \in [Handler -> Call]

Init ==
  /\ workflow = [w \in Workflow |-> "absent"]
  /\ created = [w \in Workflow |-> 0]
  /\ status = [n \in Node |-> "absent"]
  /\ attempts = [n \in Node |-> 0]
  /\ lease = [n \in Node |-> None]
  /\ decision = [n \in Node |-> "none"]
  /\ worker = [k \in Worker |-> None]
  /\ call = [h \in Handler |-> Idle]

(* The status a node takes once nothing it depends on is missing.           *)
ReadyStatus(n) == IF n \in Gated THEN "awaiting_approval" ELSE "queued"

(* Mutant: the sweep passes over leases that have no attempt left.          *)
RetryableExpiredRows ==
  {n \in Node : status[n] = "leased" /\ lease[n].expired /\ attempts[n] < MaxAttempts[n]}

(* The SQL "status='leased' AND lease_expires<?" of sweep_expired.          *)
ExpiredRows == {n \in Node : status[n] = "leased" /\ lease[n].expired}

(* _lease: the row is leased to the caller and has not expired.             *)
Live(n) == status[n] = "leased" /\ ~lease[n].expired

Retryable(n) == attempts[n] < MaxAttempts[n]

DepsCompleted(n) == \A m \in Deps[n] : status[m] = "completed"

Leases(k) == {n \in Node : status[n] = "leased" /\ lease[n].by = k}

-----------------------------------------------------------------------------
(* submit: the workflow row and its node rows, in one transaction.          *)
Submit(h, w) ==
  /\ call[h].at = "idle"
  /\ workflow[w] = "absent"
  /\ workflow' = [workflow EXCEPT ![w] = "running"]
  /\ created' = [created EXCEPT ![w] =
                   1 + Cardinality({v \in Workflow : workflow[v] # "absent"})]
  /\ status' = [n \in Node |->
                  IF WorkflowOf[n] # w THEN status[n]
                  ELSE IF Deps[n] # {} THEN "blocked" ELSE ReadyStatus(n)]
  /\ UNCHANGED <<attempts, lease, decision, worker, call>>

(* register: an upsert, so a worker may come back with other capabilities.  *)
Register(h, k, r) ==
  /\ call[h].at = "idle"
  /\ worker' = [worker EXCEPT ![k] = r]
  /\ UNCHANGED <<workflow, created, status, attempts, lease, decision, call>>

(* heartbeat: the UPDATE asks for status='leased', not for a live deadline. *)
Heartbeat(h, n) ==
  /\ call[h].at = "idle"
  /\ status[n] = "leased"
  /\ lease' = [lease EXCEPT ![n].expired = FALSE]
  /\ UNCHANGED <<workflow, created, status, attempts, decision, worker, call>>

(* Time passes the deadline of a lease.                                     *)
Lapse(n) ==
  /\ lease[n] # None
  /\ lease' = [lease EXCEPT ![n].expired = TRUE]
  /\ UNCHANGED <<workflow, created, status, attempts, decision, worker, call>>
-----------------------------------------------------------------------------
(* Mutant: the sweep requeues every expired row.                            *)
SweepWithoutBound(h, k, scope) ==
  /\ call[h].at = "idle"
  /\ call' = [call EXCEPT ![h] = Sweeping(k, scope, ExpiredRows, {})]
  /\ UNCHANGED <<workflow, created, status, attempts, lease, decision, worker>>

(* claim(k, scope) begins with sweep_expired, which decides from the rows   *)
(* of one SELECT which of them it will requeue and which it will fail.      *)
BeginClaim(h, k, scope) ==
  /\ call[h].at = "idle"
  /\ call' = [call EXCEPT ![h] =
                Sweeping(k, scope, {n \in ExpiredRows : Retryable(n)},
                         {n \in ExpiredRows : ~Retryable(n)})]
  /\ UNCHANGED <<workflow, created, status, attempts, lease, decision, worker>>

(* One UPDATE of sweep_expired; it names the row and nothing else.          *)
SweepRow(h, n) ==
  /\ call[h].at = "sweep"
  /\ n \in call[h].requeue \cup call[h].exhaust
  /\ status' = [status EXCEPT ![n] = IF n \in call[h].requeue THEN "queued" ELSE "failed"]
  /\ lease' = [lease EXCEPT ![n] = None]
  /\ call' = [call EXCEPT ![h] =
                Sweeping(call[h].worker, call[h].scope,
                         call[h].requeue \ {n}, call[h].exhaust \ {n})]
  /\ UNCHANGED <<workflow, created, attempts, decision, worker>>

Swept(h) ==
  /\ call[h].at = "sweep"
  /\ call[h].requeue = {}
  /\ call[h].exhaust = {}

(* Mutant: off by one.                                                      *)
HasCapacityOrOne(k) ==
  worker[k] # None /\ Cardinality(Leases(k)) <= worker[k].max_concurrency

HasCapacity(k) ==
  worker[k] # None /\ Cardinality(Leases(k)) < worker[k].max_concurrency

Eligible(k, scope) ==
  {n \in Node : /\ worker[k] # None
                /\ status[n] = "queued"
                /\ WorkflowOf[n] \in scope
                /\ Needs[n] \subseteq worker[k].capabilities}

(* ORDER BY created_at, node_id.                                            *)
NotAfter(n, m) ==
  \/ created[WorkflowOf[n]] < created[WorkflowOf[m]]
  \/ /\ created[WorkflowOf[n]] = created[WorkflowOf[m]]
     /\ Rank[n] <= Rank[m]

(* Mutant: the UPDATE lacks attempts=attempts+1.                            *)
GrantUncounted(h, n) ==
  LET k == call[h].worker
  IN  /\ Swept(h)
      /\ HasCapacity(k)
      /\ n \in Eligible(k, call[h].scope)
      /\ status' = [status EXCEPT ![n] = "leased"]
      /\ lease' = [lease EXCEPT ![n] = [by |-> k, token |-> attempts[n], expired |-> FALSE]]
      /\ call' = [call EXCEPT ![h] = Idle]
      /\ UNCHANGED <<workflow, created, attempts, decision, worker>>

(* The block under store.lock: the first eligible row becomes the lease.    *)
(* The fresh uuid of the token is the attempt number, unique on the row.    *)
GrantLease(h, n) ==
  LET k == call[h].worker
  IN  /\ Swept(h)
      /\ HasCapacity(k)
      /\ n \in Eligible(k, call[h].scope)
      /\ \A m \in Eligible(k, call[h].scope) : NotAfter(n, m)
      /\ status' = [status EXCEPT ![n] = "leased"]
      /\ attempts' = [attempts EXCEPT ![n] = @ + 1]
      /\ lease' = [lease EXCEPT ![n] =
                     [by |-> k, token |-> attempts[n] + 1, expired |-> FALSE]]
      /\ call' = [call EXCEPT ![h] = Idle]
      /\ UNCHANGED <<workflow, created, decision, worker>>

(* Unregistered worker, worker at max_concurrency, or no eligible row.      *)
GrantNothing(h) ==
  /\ Swept(h)
  /\ \/ ~HasCapacity(call[h].worker)
     \/ Eligible(call[h].worker, call[h].scope) = {}
  /\ call' = [call EXCEPT ![h] = Idle]
  /\ UNCHANGED <<workflow, created, status, attempts, lease, decision, worker>>
-----------------------------------------------------------------------------
(* Mutant: a late result is taken from a row that is queued again.          *)
BeginLateCompletion(h, n) ==
  /\ call[h].at = "idle"
  /\ status[n] \in {"leased", "queued"}
  /\ call' = [call EXCEPT ![h] = Amid("complete", n, attempts[n], {})]
  /\ UNCHANGED <<workflow, created, status, attempts, lease, decision, worker>>

(* complete: the _lease check that opens the call.                          *)
BeginComplete(h, n) ==
  /\ call[h].at = "idle"
  /\ Live(n)
  /\ call' = [call EXCEPT ![h] = Amid("complete", n, lease[n].token, {})]
  /\ UNCHANGED <<workflow, created, status, attempts, lease, decision, worker>>

(* A budget overrun or a bad artifact name raises before the UPDATE.        *)
RejectCompletion(h) ==
  /\ call[h].at = "complete"
  /\ call' = [call EXCEPT ![h] = Idle]
  /\ UNCHANGED <<workflow, created, status, attempts, lease, decision, worker>>

(* Mutant: complete returns without _advance.                               *)
CommitAndReturn(h) ==
  LET n == call[h].node
  IN  /\ call[h].at = "complete"
      /\ status' = [status EXCEPT ![n] = "completed"]
      /\ lease' = [lease EXCEPT ![n] = None]
      /\ call' = [call EXCEPT ![h] = Idle]
      /\ UNCHANGED <<workflow, created, attempts, decision, worker>>

(* The UPDATE names the row, neither the token nor the status.              *)
CommitCompletion(h) ==
  LET n == call[h].node
  IN  /\ call[h].at = "complete"
      /\ status' = [status EXCEPT ![n] = "completed"]
      /\ lease' = [lease EXCEPT ![n] = None]
      /\ call' = [call EXCEPT ![h] = Amid("advance", n, 0, {})]
      /\ UNCHANGED <<workflow, created, attempts, decision, worker>>

(* _advance, first query: the blocked rows whose parents are all completed. *)
ReadReady(h) ==
  LET w == WorkflowOf[call[h].node]
  IN  /\ call[h].at = "advance"
      /\ call' = [call EXCEPT ![h] =
                    Amid("unblock", call[h].node, 0,
                         {n \in NodesOf(w) : status[n] = "blocked" /\ DepsCompleted(n)})]
      /\ UNCHANGED <<workflow, created, status, attempts, lease, decision, worker>>

Unblock(h, n) ==
  /\ call[h].at = "unblock"
  /\ n \in call[h].ready
  /\ status' = [status EXCEPT ![n] = ReadyStatus(n)]
  /\ call' = [call EXCEPT ![h] =
                Amid("unblock", call[h].node, 0, call[h].ready \ {n})]
  /\ UNCHANGED <<workflow, created, attempts, lease, decision, worker>>

(* Mutant: the workflow is never closed.                                    *)
ReadNothingRemaining(h) ==
  /\ call[h].at = "unblock"
  /\ call[h].ready = {}
  /\ call' = [call EXCEPT ![h] = Idle]
  /\ UNCHANGED <<workflow, created, status, attempts, lease, decision, worker>>

(* _advance, second query: is every node of the workflow completed?         *)
ReadRemaining(h) ==
  LET n == call[h].node
      done == \A m \in NodesOf(WorkflowOf[n]) : status[m] = "completed"
  IN  /\ call[h].at = "unblock"
      /\ call[h].ready = {}
      /\ call' = [call EXCEPT ![h] =
                    IF done THEN Amid("close", n, 0, {}) ELSE Idle]
      /\ UNCHANGED <<workflow, created, status, attempts, lease, decision, worker>>

CloseWorkflow(h) ==
  /\ call[h].at = "close"
  /\ workflow' = [workflow EXCEPT ![WorkflowOf[call[h].node]] = "completed"]
  /\ call' = [call EXCEPT ![h] = Idle]
  /\ UNCHANGED <<created, status, attempts, lease, decision, worker>>
-----------------------------------------------------------------------------
(* fail: the _lease check, and the verdict computed from the row it read.   *)
BeginFail(h, n, retryable) ==
  /\ call[h].at = "idle"
  /\ Live(n)
  /\ call' = [call EXCEPT ![h] =
                Amid(IF retryable /\ Retryable(n) THEN "retry" ELSE "fail",
                     n, lease[n].token, {})]
  /\ UNCHANGED <<workflow, created, status, attempts, lease, decision, worker>>

CommitRetry(h) ==
  LET n == call[h].node
  IN  /\ call[h].at = "retry"
      /\ status' = [status EXCEPT ![n] = "queued"]
      /\ lease' = [lease EXCEPT ![n] = None]
      /\ call' = [call EXCEPT ![h] = Idle]
      /\ UNCHANGED <<workflow, created, attempts, decision, worker>>

(* Mutant: a terminal failure leaves the workflow alone.                    *)
CommitFailureOnly(h) ==
  LET n == call[h].node
  IN  /\ call[h].at = "fail"
      /\ status' = [status EXCEPT ![n] = "failed"]
      /\ lease' = [lease EXCEPT ![n] = None]
      /\ call' = [call EXCEPT ![h] = Idle]
      /\ UNCHANGED <<workflow, created, attempts, decision, worker>>

CommitFailure(h) ==
  LET n == call[h].node
  IN  /\ call[h].at = "fail"
      /\ status' = [status EXCEPT ![n] = "failed"]
      /\ lease' = [lease EXCEPT ![n] = None]
      /\ call' = [call EXCEPT ![h] = Amid("abort", n, 0, {})]
      /\ UNCHANGED <<workflow, created, attempts, decision, worker>>

AbortWorkflow(h) ==
  /\ call[h].at = "abort"
  /\ workflow' = [workflow EXCEPT ![WorkflowOf[call[h].node]] = "failed"]
  /\ call' = [call EXCEPT ![h] = Idle]
  /\ UNCHANGED <<created, status, attempts, lease, decision, worker>>

(* Mutant: the UPDATE of approve does not ask for awaiting_approval.        *)
ApproveAnyway(h, n) ==
  /\ call[h].at = "idle"
  /\ status[n] # "absent"
  /\ status' = [status EXCEPT ![n] = "queued"]
  /\ decision' = [decision EXCEPT ![n] = "approved"]
  /\ UNCHANGED <<workflow, created, attempts, lease, worker, call>>

(* approve(True): one UPDATE conditional on status='awaiting_approval'.     *)
Approve(h, n) ==
  /\ call[h].at = "idle"
  /\ status[n] = "awaiting_approval"
  /\ status' = [status EXCEPT ![n] = "queued"]
  /\ decision' = [decision EXCEPT ![n] = "approved"]
  /\ UNCHANGED <<workflow, created, attempts, lease, worker, call>>

(* approve(False): the same UPDATE, then the workflow is failed.            *)
Deny(h, n) ==
  /\ call[h].at = "idle"
  /\ status[n] = "awaiting_approval"
  /\ status' = [status EXCEPT ![n] = "failed"]
  /\ decision' = [decision EXCEPT ![n] = "denied"]
  /\ call' = [call EXCEPT ![h] = Amid("abort", n, 0, {})]
  /\ UNCHANGED <<workflow, created, attempts, lease, worker>>
-----------------------------------------------------------------------------
(* The control-plane process dies and restarts on the same database.        *)
Crash ==
  /\ \E h \in Handler : call[h].at # "idle"
  /\ call' = [h \in Handler |-> Idle]
  /\ UNCHANGED <<workflow, created, status, attempts, lease, decision, worker>>

ClaimStep(h) ==
  \/ \E n \in Node : SweepRow(h, n) \/ GrantLease(h, n)
  \/ GrantNothing(h)

CompleteStep(h) ==
  \/ CommitCompletion(h)
  \/ ReadReady(h)
  \/ \E n \in Node : Unblock(h, n)
  \/ ReadRemaining(h)
  \/ CloseWorkflow(h)

FailStep(h) == CommitRetry(h) \/ CommitFailure(h) \/ AbortWorkflow(h)

(* What the shipped workers, the operator and the clock make a live process *)
(* do; neither Worker.run_once nor apps/worker sends heartbeats.            *)
Served ==
  \/ \E n \in Node : Lapse(n)
  \/ \E h \in Handler :
       \/ \E w \in Workflow : Submit(h, w) \/ (\E k \in Worker : BeginClaim(h, k, {w}))
       \/ \E k \in Worker :
            \/ \E r \in Registrations : Register(h, k, r)
            \/ BeginClaim(h, k, Workflow)
       \/ \E n \in Node :
            \/ BeginComplete(h, n)
            \/ \E retryable \in BOOLEAN : BeginFail(h, n, retryable)
            \/ Approve(h, n)
            \/ Deny(h, n)
       \/ RejectCompletion(h)
       \/ ClaimStep(h)
       \/ CompleteStep(h)
       \/ FailStep(h)

Operation == Served \/ \E h \in Handler, n \in Node : Heartbeat(h, n)

Next == Operation \/ Crash

Spec == Init /\ [][Next]_vars

(***************************************************************************)
(* Fairness.  A call that has begun runs to its end, because nothing in it *)
(* awaits.  A worker polls forever and asyncio serves requests in arrival  *)
(* order, so each worker's claim is begun again and again although other   *)
(* calls keep taking the event loop: strong fairness.  Time passes.        *)
(* Nothing is assumed of what a worker does with its lease, nor of the     *)
(* operator, nor of submissions and registrations.                         *)
(***************************************************************************)
Fairness ==
  /\ \A h \in Handler : /\ WF_vars(ClaimStep(h))
                        /\ WF_vars(CompleteStep(h) \/ RejectCompletion(h))
                        /\ WF_vars(FailStep(h))
  /\ \A k \in Worker : SF_vars(\E h \in Handler : BeginClaim(h, k, Workflow))
  /\ \A n \in Node : WF_vars(Lapse(n))

FairSpec == Init /\ [][Served]_vars /\ Fairness
-----------------------------------------------------------------------------
(***************************************************************************)
(* Safety.  The properties of this block hold when calls are serialised    *)
(* (one Handler), whatever crashes happen between two commits.             *)
(***************************************************************************)

(* A node has left "blocked" only if everything it depends on is completed: *)
(* requeues, sweeps, denials and crashed calls never start it early.        *)
ReadyOnlyAfterDeps ==
  \A n \in Node : status[n] \notin {"absent", "blocked"} => DepsCompleted(n)

(* No path (failure, expiry, crash, late call) starts a node more than      *)
(* max_attempts times, and a queued node always has an attempt left.        *)
AttemptsBounded ==
  \A n \in Node : /\ attempts[n] <= MaxAttempts[n]
                  /\ status[n] = "queued" => Retryable(n)

(* A row is leased exactly when it holds lease columns, and they are those  *)
(* of its latest attempt: no earlier grant can pass the _lease check.       *)
OnlyLatestGrantIsLive ==
  \A n \in Node :
    /\ status[n] = "leased" <=> lease[n] # None
    /\ lease[n] # None => lease[n].token = attempts[n]

(* The workflow's verdict agrees with its nodes.                            *)
VerdictAgreesWithNodes ==
  \A w \in Workflow :
    /\ workflow[w] = "completed" => \A n \in NodesOf(w) : status[n] = "completed"
    /\ workflow[w] = "failed" => \E n \in NodesOf(w) : status[n] = "failed"

(* An approval_required node is queued, leased or completed only after      *)
(* approve(True), and one that was denied never becomes anything but failed.*)
ApprovalGate ==
  \A n \in Gated :
    /\ status[n] \in {"queued", "leased", "completed"} => decision[n] = "approved"
    /\ decision[n] = "denied" => status[n] = "failed"

(* A node becomes completed only in a call whose token, checked by _lease   *)
(* some commits earlier, still is the token of the row's lease.             *)
TokenIsCommitCapability ==
  [][\A n \in Node :
       status[n] # "completed" /\ status'[n] = "completed" =>
         /\ status[n] = "leased"
         /\ \E h \in Handler : /\ call[h].at = "complete"
                              /\ call[h].node = n
                              /\ call[h].token = lease[n].token]_vars

(* Nothing rewrites the row of a completed or failed node.                  *)
SettledIsFinal ==
  [][\A n \in Node :
       status[n] \in {"completed", "failed"} =>
         /\ status'[n] = status[n]
         /\ attempts'[n] = attempts[n]
         /\ lease'[n] = lease[n]
         /\ decision'[n] = decision[n]]_vars

(* A claim never takes a worker above the max_concurrency of its current    *)
(* registration, whatever it held before it registered again.               *)
ConcurrencyLimit ==
  [][\A k \in Worker :
       ~(Leases(k)' \subseteq Leases(k)) =>
         /\ worker[k] # None
         /\ Cardinality(Leases(k)') <= worker[k].max_concurrency]_vars

(* Between calls of a process that has never crashed, no blocked node has   *)
(* all its parents completed and no workflow with every node completed is   *)
(* still open.                                                              *)
NothingStranded ==
  (\A h \in Handler : call[h].at = "idle") =>
    \A w \in Workflow :
      /\ \A n \in NodesOf(w) : status[n] = "blocked" => ~DepsCompleted(n)
      /\ (\A n \in NodesOf(w) : status[n] = "completed") =>
           workflow[w] \in {"absent", "completed"}
-----------------------------------------------------------------------------
(***************************************************************************)
(* The inductive invariant.  Beyond the properties above it says that what *)
(* a call remembers still describes the rows it is about to overwrite,     *)
(* which is what makes the UPDATEs that name only the row harmless.        *)
(***************************************************************************)

(* A row that was never queued has not been tried, nor decided upon.        *)
UntouchedBeforeReady ==
  \A n \in Node :
    /\ status[n] = "absent" <=> workflow[WorkflowOf[n]] = "absent"
    /\ status[n] \in {"absent", "blocked", "awaiting_approval"} =>
         attempts[n] = 0 /\ decision[n] = "none"
    /\ status[n] = "awaiting_approval" => n \in Gated

(* Rows remembered by sweep_expired and by the _lease check are still       *)
(* leased, under the token that was read, and the retry verdict is current. *)
RememberedLeaseIsCurrent(h) ==
  /\ call[h].at = "sweep" =>
       /\ call[h].worker \in Worker
       /\ \A n \in call[h].requeue : status[n] = "leased" /\ Retryable(n)
       /\ \A n \in call[h].exhaust : status[n] = "leased" /\ n \notin call[h].requeue
  /\ call[h].at \in {"complete", "retry", "fail"} =>
       /\ call[h].node \in Node
       /\ status[call[h].node] = "leased"
       /\ lease[call[h].node].token = call[h].token
       /\ call[h].at = "retry" => Retryable(call[h].node)

(* What _advance, fail and approve learned before their last commits still  *)
(* holds when they make them.                                               *)
RememberedVerdictIsCurrent(h) ==
  /\ call[h].at \in {"advance", "unblock", "close"} =>
       call[h].node \in Node /\ status[call[h].node] = "completed"
  /\ call[h].at = "unblock" =>
       \A n \in call[h].ready : status[n] = "blocked" /\ DepsCompleted(n)
  /\ call[h].at = "close" =>
       \A n \in NodesOf(WorkflowOf[call[h].node]) : status[n] = "completed"
  /\ call[h].at = "abort" =>
       call[h].node \in Node /\ status[call[h].node] = "failed"

CallsAreCurrent ==
  \A h \in Handler : RememberedLeaseIsCurrent(h) /\ RememberedVerdictIsCurrent(h)

(* The deployment the documentation prescribes for SQLite: one process, and *)
(* one event loop in it.                                                    *)
OneHandler == \A g, h \in Handler : g = h

SerialInv ==
  /\ TypeOK
  /\ ReadyOnlyAfterDeps
  /\ AttemptsBounded
  /\ OnlyLatestGrantIsLive
  /\ VerdictAgreesWithNodes
  /\ ApprovalGate
  /\ UntouchedBeforeReady
  /\ CallsAreCurrent
-----------------------------------------------------------------------------
(***************************************************************************)
(* Refinement: seen from outside, a workflow runs as module DagRun says.   *)
(* Leases, sweeps, calls and crashes are stuttering steps or the end of a  *)
(* run.                                                                    *)
(***************************************************************************)
PhaseOf(s) ==
  CASE s = "absent" -> "absent"
    [] s \in {"blocked", "queued", "awaiting_approval"} -> "waiting"
    [] s = "leased" -> "running"
    [] s = "completed" -> "done"
    [] OTHER -> "failed"

Promise ==
  INSTANCE DagRun WITH
    verdict <- workflow,
    phase <- [n \in Node |-> PhaseOf(status[n])],
    starts <- attempts,
    allowed <- {n \in Node : decision[n] = "approved"}

(* Fleet keeps the promise of module DagRun, crashes included.              *)
KeepsPromise == Promise!Spec
-----------------------------------------------------------------------------
(***************************************************************************)
(* Liveness, under FairSpec.                                               *)
(***************************************************************************)

(* While every worker is capable of every node (a condition on              *)
(* Registrations), a queued node is eventually completed or failed, though  *)
(* workers may drop every lease: the sweep and the attempt bound settle it. *)
QueuedNodeSettles ==
  \A n \in Node :
    (status[n] = "queued" /\ \E k \in Worker : worker[k] # None)
      ~> status[n] \in {"completed", "failed"}

(* A node whose parents have all completed does not stay blocked.           *)
ReadyNodeIsReleased ==
  \A n \in Node : (status[n] = "blocked" /\ DepsCompleted(n)) ~> status[n] # "blocked"

(* A workflow one of whose nodes has failed is eventually marked failed.    *)
FailedNodeFailsWorkflow ==
  \A n \in Node : status[n] = "failed" ~> workflow[WorkflowOf[n]] = "failed"
=============================================================================
