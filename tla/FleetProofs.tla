----------------------------- MODULE FleetProofs -----------------------------
(***************************************************************************)
(* Proofs about the fleet, for every set of workflows, nodes, workers and  *)
(* registrations that satisfies the assumptions of Fleet and FleetWorker.  *)
(*                                                                         *)
(* The first part holds for any number of handlers.  The second is about   *)
(* one handler: SerialInv is an invariant of Fleet, crashes included.      *)
(* Most of its conjuncts look only at the rows, so the proof first reduces *)
(* the actions to the nine things a step can do to the rows (RowCases) and *)
(* then takes the conjuncts one by one; CallsAreCurrent, the only conjunct *)
(* that needs the single handler, goes through the actions themselves.     *)
(* On it rest the promise of DagRun, that nothing is stranded without a    *)
(* crash, and the leases of the worker loops.                              *)
(***************************************************************************)
EXTENDS FleetWorker, FiniteSetTheorems, TLAPS

(* The caller of claim is a worker id as long as the call runs, and a row   *)
(* with status leased has its lease columns set: with these two facts       *)
(* TypeOK is inductive, however many handlers there are.                    *)
ClaimsNameWorkers ==
  \A h \in Handler : call[h].at = "sweep" => call[h].worker \in Worker

LeasedRowsHoldLeases ==
  \A n \in Node : status[n] = "leased" => lease[n] # None

WellFormed == TypeOK /\ ClaimsNameWorkers /\ LeasedRowsHoldLeases

(* The values a call takes are of type Call.                                *)
LEMMA CallValues ==
  /\ Idle \in Call
  /\ \A k \in Worker, scope \in SUBSET Workflow, requeue, exhaust \in SUBSET Node :
       Sweeping(k, scope, requeue, exhaust) \in Call
  /\ \A step \in {"complete", "advance", "unblock", "close", "retry", "fail", "abort"} :
       \A n \in Node \cup {None}, token \in Nat, ready \in SUBSET Node :
         Amid(step, n, token, ready) \in Call
BY DEF Idle, Sweeping, Amid, Call

(* created_at stays a number: submissions are counted among finitely many.  *)
LEMMA SubmissionsAreCounted == TypeOK => 1 + Cardinality({v \in Workflow : workflow[v] # "absent"}) \in Nat
<1> DEFINE Submitted == {v \in Workflow : workflow[v] # "absent"}
<1>1. IsFiniteSet(Submitted)
  BY FleetAssumption, FS_Subset, Submitted \subseteq Workflow
<1> QED
  BY <1>1, FS_CardinalityType

(* The actions of the specification, without the nesting of Next.           *)
LEMMA StepCases ==
  ASSUME [Next]_vars
  PROVE  \/ \E h \in Handler, w \in Workflow : Submit(h, w)
         \/ \E h \in Handler, k \in Worker, r \in Registrations : Register(h, k, r)
         \/ \E n \in Node : Lapse(n)
         \/ \E h \in Handler, k \in Worker, scope \in SUBSET Workflow : BeginClaim(h, k, scope)
         \/ \E h \in Handler, n \in Node :
              Heartbeat(h, n) \/ SweepRow(h, n) \/ GrantLease(h, n) \/ BeginComplete(h, n)
              \/ Unblock(h, n) \/ Approve(h, n) \/ Deny(h, n)
         \/ \E h \in Handler, n \in Node, retryable \in BOOLEAN : BeginFail(h, n, retryable)
         \/ \E h \in Handler :
              GrantNothing(h) \/ RejectCompletion(h) \/ CommitCompletion(h) \/ ReadReady(h)
              \/ ReadRemaining(h) \/ CloseWorkflow(h) \/ CommitRetry(h) \/ CommitFailure(h)
              \/ AbortWorkflow(h)
         \/ Crash
         \/ UNCHANGED vars
<1>1. Workflow \in SUBSET Workflow /\ \A w \in Workflow : {w} \in SUBSET Workflow
  OBVIOUS
<1> QED
  BY <1>1 DEF Next, Operation, Served, ClaimStep, CompleteStep, FailStep

(* Every operation and every crash keeps the tables and the calls well      *)
(* formed, whatever the number of handlers.                                 *)
LEMMA TypeStep == WellFormed /\ [Next]_vars => TypeOK'
<1> SUFFICES ASSUME WellFormed, [Next]_vars
             PROVE  TypeOK'
  OBVIOUS
<1>0. WorkflowOf \in [Node -> Workflow] /\ Deps \in [Node -> SUBSET Node]
  BY FleetAssumption
<1> USE <1>0, CallValues
    DEF WellFormed, TypeOK, ClaimsNameWorkers, LeasedRowsHoldLeases
<1>1. ASSUME NEW h \in Handler, NEW w \in Workflow, Submit(h, w)
      PROVE  TypeOK'
  <2>1. created' \in [Workflow -> Nat]
    BY <1>1, SubmissionsAreCounted DEF Submit
  <2>2. status' \in [Node -> NodeStatus \cup {"absent"}]
    BY <1>1 DEF Submit, NodeStatus, ReadyStatus
  <2> QED
    BY <1>1, <2>1, <2>2 DEF Submit
<1>2. ASSUME NEW h \in Handler, NEW k \in Worker, NEW r \in Registrations, Register(h, k, r)
      PROVE  TypeOK'
  <2>1. r \in Registration
    BY FleetAssumption
  <2> QED
    BY <1>2, <2>1 DEF Register
<1>3. ASSUME NEW h \in Handler, NEW n \in Node, Heartbeat(h, n)
      PROVE  TypeOK'
  <2>1. lease[n] \in Lease
    BY <1>3 DEF Heartbeat
  <2>2. lease' \in [Node -> Lease \cup {None}]
    BY <1>3, <2>1 DEF Heartbeat, Lease
  <2> QED
    BY <1>3, <2>2, Zenon DEF Heartbeat
<1>4. ASSUME NEW n \in Node, Lapse(n)
      PROVE  TypeOK'
  <2>1. lease[n] \in Lease
    BY <1>4 DEF Lapse
  <2>2. lease' \in [Node -> Lease \cup {None}]
    BY <1>4, <2>1 DEF Lapse, Lease
  <2> QED
    BY <1>4, <2>2, Zenon DEF Lapse
<1>5. ASSUME NEW h \in Handler, NEW k \in Worker, NEW scope \in SUBSET Workflow, BeginClaim(h, k, scope)
      PROVE  TypeOK'
  <2> DEFINE again == {n \in ExpiredRows : Retryable(n)}
             spent == {n \in ExpiredRows : ~Retryable(n)}
  <2>1. again \in SUBSET Node /\ spent \in SUBSET Node
    BY DEF ExpiredRows
  <2> HIDE DEF again, spent
  <2>2. Sweeping(k, scope, again, spent) \in Call
    BY <2>1
  <2>3. call' = [call EXCEPT ![h] = Sweeping(k, scope, again, spent)]
    BY <1>5 DEF BeginClaim, again, spent
  <2>4. call' \in [Handler -> Call]
    BY <2>2, <2>3
  <2> QED
    BY <1>5, <2>4, Zenon DEF BeginClaim
<1>6. ASSUME NEW h \in Handler, NEW n \in Node, SweepRow(h, n)
      PROVE  TypeOK'
  <2> DEFINE again == call[h].requeue \ {n}
             spent == call[h].exhaust \ {n}
  <2>1. /\ call[h].worker \in Worker /\ call[h].scope \in SUBSET Workflow
        /\ again \in SUBSET Node /\ spent \in SUBSET Node
    BY <1>6 DEF SweepRow, Call
  <2> HIDE DEF again, spent
  <2>2. Sweeping(call[h].worker, call[h].scope, again, spent) \in Call
    BY <2>1
  <2>3. call' = [call EXCEPT ![h] = Sweeping(call[h].worker, call[h].scope, again, spent)]
    BY <1>6 DEF SweepRow, again, spent
  <2>4. call' \in [Handler -> Call]
    BY <2>2, <2>3
  <2>5. status' \in [Node -> NodeStatus \cup {"absent"}]
    BY <1>6 DEF SweepRow, NodeStatus
  <2>6. lease' \in [Node -> Lease \cup {None}]
    BY <1>6 DEF SweepRow
  <2> QED
    BY <1>6, <2>4, <2>5, <2>6, Zenon DEF SweepRow
<1>7. ASSUME NEW h \in Handler, NEW n \in Node, GrantLease(h, n)
      PROVE  TypeOK'
  <2>1. call[h].worker \in Worker
    BY <1>7 DEF GrantLease, Swept, Call
  <2>2. [by |-> call[h].worker, token |-> attempts[n] + 1, expired |-> FALSE] \in Lease
    BY <2>1 DEF Lease
  <2>3. lease' \in [Node -> Lease \cup {None}]
    BY <1>7, <2>2 DEF GrantLease
  <2>4. status' \in [Node -> NodeStatus \cup {"absent"}]
    BY <1>7 DEF GrantLease, NodeStatus
  <2>5. attempts' \in [Node -> Nat]
    BY <1>7 DEF GrantLease
  <2>6. call' \in [Handler -> Call]
    BY <1>7 DEF GrantLease
  <2> QED
    BY <1>7, <2>3, <2>4, <2>5, <2>6, Zenon DEF GrantLease
<1>8. ASSUME NEW h \in Handler, GrantNothing(h)
      PROVE  TypeOK'
  BY <1>8 DEF GrantNothing
<1>9. ASSUME NEW h \in Handler, NEW n \in Node, BeginComplete(h, n)
      PROVE  TypeOK'
  <2>1. lease[n].token \in Nat
    BY <1>9 DEF BeginComplete, Live, Lease
  <2>2. Amid("complete", n, lease[n].token, {}) \in Call
    BY <2>1
  <2>3. call' \in [Handler -> Call]
    BY <1>9, <2>2 DEF BeginComplete
  <2> QED
    BY <1>9, <2>3, Zenon DEF BeginComplete
<1>10. ASSUME NEW h \in Handler, RejectCompletion(h)
      PROVE  TypeOK'
  BY <1>10 DEF RejectCompletion
<1>11. ASSUME NEW h \in Handler, CommitCompletion(h)
      PROVE  TypeOK'
  <2>1. Amid("advance", call[h].node, 0, {}) \in Call
    BY DEF Call
  <2> QED
    BY <1>11, <2>1 DEF CommitCompletion, NodeStatus
<1>12. ASSUME NEW h \in Handler, ReadReady(h)
      PROVE  TypeOK'
  <2> DEFINE found == {n \in NodesOf(WorkflowOf[call[h].node]) :
                         status[n] = "blocked" /\ DepsCompleted(n)}
  <2>1. call[h].node \in Node \cup {None} /\ found \in SUBSET Node
    BY DEF Call, NodesOf
  <2> HIDE DEF found
  <2>2. Amid("unblock", call[h].node, 0, found) \in Call
    BY <2>1
  <2> QED
    BY <1>12, <2>2 DEF ReadReady, found
<1>13. ASSUME NEW h \in Handler, NEW n \in Node, Unblock(h, n)
      PROVE  TypeOK'
  <2>1. call[h].node \in Node \cup {None} /\ call[h].ready \ {n} \in SUBSET Node
    BY DEF Call
  <2>2. Amid("unblock", call[h].node, 0, call[h].ready \ {n}) \in Call
    BY <2>1
  <2> QED
    BY <1>13, <2>2 DEF Unblock, NodeStatus, ReadyStatus
<1>14. ASSUME NEW h \in Handler, ReadRemaining(h)
      PROVE  TypeOK'
  <2>1. call[h].node \in Node \cup {None}
    BY DEF Call
  <2>2. Amid("close", call[h].node, 0, {}) \in Call /\ Idle \in Call
    BY <2>1
  <2> QED
    BY <1>14, <2>2 DEF ReadRemaining
<1>15. ASSUME NEW h \in Handler, CloseWorkflow(h)
      PROVE  TypeOK'
  BY <1>15 DEF CloseWorkflow
<1>16. ASSUME NEW h \in Handler, NEW n \in Node, NEW retryable \in BOOLEAN, BeginFail(h, n, retryable)
      PROVE  TypeOK'
  <2>1. lease[n].token \in Nat
    BY <1>16 DEF BeginFail, Live, Lease
  <2>2. \A step \in {"retry", "fail"} : Amid(step, n, lease[n].token, {}) \in Call
    BY <2>1
  <2>3. call' \in [Handler -> Call]
    BY <1>16, <2>2 DEF BeginFail
  <2> QED
    BY <1>16, <2>3, Zenon DEF BeginFail
<1>17. ASSUME NEW h \in Handler, CommitRetry(h)
      PROVE  TypeOK'
  <2>1. status' \in [Node -> NodeStatus \cup {"absent"}]
    BY <1>17 DEF CommitRetry, NodeStatus
  <2>2. lease' \in [Node -> Lease \cup {None}]
    BY <1>17 DEF CommitRetry
  <2>3. call' \in [Handler -> Call]
    BY <1>17 DEF CommitRetry
  <2> QED
    BY <1>17, <2>1, <2>2, <2>3, Zenon DEF CommitRetry
<1>18. ASSUME NEW h \in Handler, CommitFailure(h)
      PROVE  TypeOK'
  <2>1. Amid("abort", call[h].node, 0, {}) \in Call
    BY DEF Call
  <2> QED
    BY <1>18, <2>1 DEF CommitFailure, NodeStatus
<1>19. ASSUME NEW h \in Handler, AbortWorkflow(h)
      PROVE  TypeOK'
  BY <1>19 DEF AbortWorkflow
<1>20. ASSUME NEW h \in Handler, NEW n \in Node, Approve(h, n)
      PROVE  TypeOK'
  BY <1>20 DEF Approve, NodeStatus
<1>21. ASSUME NEW h \in Handler, NEW n \in Node, Deny(h, n)
      PROVE  TypeOK'
  BY <1>21 DEF Deny, NodeStatus
<1>22. CASE Crash
  BY <1>22 DEF Crash
<1>23. CASE UNCHANGED vars
  BY <1>23 DEF vars
<1> HIDE DEF WellFormed, TypeOK
<1> QED
  BY StepCases, <1>1, <1>2, <1>3, <1>4, <1>5, <1>6, <1>7, <1>8, <1>9, <1>10, <1>11, <1>12, <1>13, <1>14, <1>15, <1>16, <1>17, <1>18, <1>19, <1>20, <1>21, <1>22, <1>23

(* Only BeginClaim starts a sweep, and it does so for a worker.             *)
LEMMA ClaimStepNamesWorker == WellFormed /\ [Next]_vars => ClaimsNameWorkers'
<1> SUFFICES ASSUME WellFormed, [Next]_vars
             PROVE  ClaimsNameWorkers'
  OBVIOUS
<1> USE DEF WellFormed, TypeOK, ClaimsNameWorkers, Idle, Sweeping, Amid
<1>1. ASSUME NEW h \in Handler, NEW k \in Worker, NEW scope \in SUBSET Workflow, BeginClaim(h, k, scope)
      PROVE  ClaimsNameWorkers'
  BY <1>1 DEF BeginClaim
<1>2. ASSUME NEW h \in Handler, NEW n \in Node, SweepRow(h, n)
      PROVE  ClaimsNameWorkers'
  BY <1>2 DEF SweepRow
<1>3. ASSUME NEW h \in Handler, NEW n \in Node,
             GrantLease(h, n) \/ BeginComplete(h, n) \/ Unblock(h, n) \/ Deny(h, n)
      PROVE  ClaimsNameWorkers'
  BY <1>3 DEF GrantLease, BeginComplete, Unblock, Deny
<1>4. ASSUME NEW h \in Handler, NEW n \in Node, NEW retryable \in BOOLEAN, BeginFail(h, n, retryable)
      PROVE  ClaimsNameWorkers'
  <2>1. CASE retryable /\ Retryable(n)
    BY <1>4, <2>1 DEF BeginFail
  <2>2. CASE ~(retryable /\ Retryable(n))
    BY <1>4, <2>2 DEF BeginFail
  <2> QED
    BY <2>1, <2>2
<1>5. ASSUME NEW h \in Handler,
             GrantNothing(h) \/ RejectCompletion(h) \/ CommitCompletion(h) \/ ReadReady(h)
             \/ ReadRemaining(h) \/ CloseWorkflow(h) \/ CommitRetry(h) \/ CommitFailure(h)
             \/ AbortWorkflow(h)
      PROVE  ClaimsNameWorkers'
  BY <1>5 DEF GrantNothing, RejectCompletion, CommitCompletion, ReadReady, ReadRemaining,
              CloseWorkflow, CommitRetry, CommitFailure, AbortWorkflow
<1>6. ASSUME \/ \E h \in Handler, w \in Workflow : Submit(h, w)
             \/ \E h \in Handler, k \in Worker, r \in Registrations : Register(h, k, r)
             \/ \E n \in Node : Lapse(n)
             \/ \E h \in Handler, n \in Node : Heartbeat(h, n) \/ Approve(h, n)
             \/ UNCHANGED vars
      PROVE  ClaimsNameWorkers'
  <2>1. UNCHANGED call
    BY <1>6 DEF Submit, Register, Lapse, Heartbeat, Approve, vars
  <2> QED
    BY <2>1
<1>7. CASE Crash
  BY <1>7 DEF Crash
<1> HIDE DEF WellFormed, TypeOK, ClaimsNameWorkers
<1> QED
  BY StepCases, <1>1, <1>2, <1>3, <1>4, <1>5, <1>6, <1>7

(* A row becomes leased only together with its lease columns and loses them *)
(* only together with that status.                                          *)
LEMMA LeaseStepIsAtomic == WellFormed /\ [Next]_vars => LeasedRowsHoldLeases'
<1> SUFFICES ASSUME WellFormed, [Next]_vars
             PROVE  LeasedRowsHoldLeases'
  OBVIOUS
<1> USE FleetAssumption DEF WellFormed, TypeOK, ClaimsNameWorkers, LeasedRowsHoldLeases
<1>1. ASSUME NEW h \in Handler, NEW w \in Workflow, Submit(h, w)
      PROVE  LeasedRowsHoldLeases'
  BY <1>1 DEF Submit, ReadyStatus
<1>2. ASSUME NEW n \in Node, NEW expired \in BOOLEAN, lease[n] # None, status' = status,
             lease' = [lease EXCEPT ![n].expired = expired]
      PROVE  LeasedRowsHoldLeases'
  <2>1. lease'[n] \in Lease /\ \A m \in Node \ {n} : lease'[m] = lease[m]
    BY <1>2 DEF Lease
  <2>2. lease'[n] # None
    BY <2>1
  <2> QED
    BY <1>2, <2>1, <2>2
<1>3. ASSUME NEW h \in Handler, NEW n \in Node, GrantLease(h, n)
      PROVE  LeasedRowsHoldLeases'
  <2>1. lease'[n] \in Lease
    BY <1>3 DEF GrantLease, Swept, Lease
  <2>2. lease'[n] # None /\ \A m \in Node \ {n} : lease'[m] = lease[m] /\ status'[m] = status[m]
    BY <1>3, <2>1 DEF GrantLease
  <2> QED
    BY <2>2
<1>4. ASSUME NEW h \in Handler, NEW n \in Node,
             SweepRow(h, n) \/ Unblock(h, n) \/ Approve(h, n) \/ Deny(h, n)
      PROVE  LeasedRowsHoldLeases'
  BY <1>4 DEF SweepRow, Unblock, Approve, Deny, ReadyStatus
<1>5. ASSUME NEW h \in Handler, CommitCompletion(h) \/ CommitRetry(h) \/ CommitFailure(h)
      PROVE  LeasedRowsHoldLeases'
  BY <1>5 DEF CommitCompletion, CommitRetry, CommitFailure
<1>6. ASSUME UNCHANGED <<status, lease>>
      PROVE  LeasedRowsHoldLeases'
  BY <1>6
<1>7. ASSUME NEW n \in Node, Lapse(n) \/ \E h \in Handler : Heartbeat(h, n)
      PROVE  LeasedRowsHoldLeases'
  BY <1>2, <1>7 DEF Lapse, Heartbeat
<1>8. ASSUME \/ \E h \in Handler, k \in Worker, r \in Registrations : Register(h, k, r)
             \/ \E h \in Handler, k \in Worker, scope \in SUBSET Workflow : BeginClaim(h, k, scope)
             \/ \E h \in Handler, n \in Node : BeginComplete(h, n)
             \/ \E h \in Handler, n \in Node, retryable \in BOOLEAN : BeginFail(h, n, retryable)
             \/ \E h \in Handler :
                  GrantNothing(h) \/ RejectCompletion(h) \/ ReadReady(h) \/ ReadRemaining(h)
                  \/ CloseWorkflow(h) \/ AbortWorkflow(h)
             \/ Crash
             \/ UNCHANGED vars
      PROVE  UNCHANGED <<status, lease>>
  BY <1>8 DEF Register, BeginClaim, BeginComplete, BeginFail, GrantNothing, RejectCompletion,
              ReadReady, ReadRemaining, CloseWorkflow, AbortWorkflow, Crash, vars
<1> HIDE DEF WellFormed, TypeOK, LeasedRowsHoldLeases
<1> QED
  BY StepCases, <1>1, <1>3, <1>4, <1>5, <1>6, <1>7, <1>8

(* What Spec maintains for any number of handlers.                          *)
LEMMA AlwaysWellFormed == Spec => []WellFormed
<1>1. Init => WellFormed
  BY FleetAssumption, CallValues
     DEF Init, WellFormed, TypeOK, ClaimsNameWorkers, LeasedRowsHoldLeases, Idle, NodeStatus
<1>2. WellFormed /\ [Next]_vars => WellFormed'
  BY TypeStep, ClaimStepNamesWorker, LeaseStepIsAtomic DEF WellFormed
<1> QED
  BY <1>1, <1>2, PTL DEF Spec

(* The tables and the remembered calls stay well formed, for any number of  *)
(* threads, any crash and any order of commits.                             *)
THEOREM TypeCorrect == Spec => []TypeOK
<1>1. WellFormed => TypeOK
  BY DEF WellFormed
<1> QED
  BY <1>1, AlwaysWellFormed, PTL

(* A grant adds one row to the leases of the caller, and none to others.    *)
LEMMA GrantAddsOneLease ==
  ASSUME WellFormed, NEW h \in Handler, NEW n \in Node, GrantLease(h, n), NEW k \in Worker
  PROVE  /\ k # call[h].worker => Leases(k)' \subseteq Leases(k)
         /\ k = call[h].worker => Leases(k)' = Leases(k) \cup {n} /\ n \notin Leases(k)
<1>1. status[n] = "queued" /\ status' = [status EXCEPT ![n] = "leased"]
  BY DEF GrantLease, Eligible
<1>2. /\ call[h].worker \in Worker
      /\ lease'[n].by = call[h].worker
      /\ \A m \in Node \ {n} : lease'[m] = lease[m]
  BY DEF GrantLease, Swept, WellFormed, TypeOK, ClaimsNameWorkers
<1> QED
  BY <1>1, <1>2 DEF WellFormed, TypeOK, Leases

(* Every other step leaves each worker the leases it has, or fewer.         *)
LEMMA OthersAddNoLease ==
  ASSUME WellFormed, [Next]_vars, ~\E h \in Handler, n \in Node : GrantLease(h, n), NEW k \in Worker
  PROVE  Leases(k)' \subseteq Leases(k)
<1> USE DEF WellFormed, TypeOK, Leases
<1>1. ASSUME NEW n \in Node, NEW expired \in BOOLEAN, lease[n] # None, status' = status,
             lease' = [lease EXCEPT ![n].expired = expired]
      PROVE  Leases(k)' \subseteq Leases(k)
  <2>1. lease'[n].by = lease[n].by /\ \A m \in Node \ {n} : lease'[m] = lease[m]
    BY <1>1 DEF Lease
  <2> QED
    BY <1>1, <2>1
<1>2. ASSUME NEW n \in Node, Lapse(n) \/ \E h \in Handler : Heartbeat(h, n)
      PROVE  Leases(k)' \subseteq Leases(k)
  BY <1>1, <1>2 DEF Lapse, Heartbeat, LeasedRowsHoldLeases
<1>3. ASSUME NEW n \in Node, NEW s \in NodeStatus \ {"leased"},
             status' = [status EXCEPT ![n] = s],
             lease' = lease \/ lease' = [lease EXCEPT ![n] = None]
      PROVE  Leases(k)' \subseteq Leases(k)
  BY <1>3
<1>4. ASSUME NEW h \in Handler, NEW n \in Node,
             SweepRow(h, n) \/ Unblock(h, n) \/ Approve(h, n) \/ Deny(h, n)
      PROVE  Leases(k)' \subseteq Leases(k)
  BY <1>3, <1>4 DEF SweepRow, Unblock, Approve, Deny, ReadyStatus, NodeStatus
<1>5. ASSUME NEW h \in Handler, CommitCompletion(h) \/ CommitRetry(h) \/ CommitFailure(h)
      PROVE  Leases(k)' \subseteq Leases(k)
  BY <1>5 DEF CommitCompletion, CommitRetry, CommitFailure
<1>6. ASSUME NEW h \in Handler, NEW w \in Workflow, Submit(h, w)
      PROVE  Leases(k)' \subseteq Leases(k)
  BY <1>6 DEF Submit, ReadyStatus
<1>7. ASSUME \/ \E h \in Handler, j \in Worker, r \in Registrations : Register(h, j, r)
             \/ \E h \in Handler, j \in Worker, scope \in SUBSET Workflow : BeginClaim(h, j, scope)
             \/ \E h \in Handler, n \in Node : BeginComplete(h, n)
             \/ \E h \in Handler, n \in Node, retryable \in BOOLEAN : BeginFail(h, n, retryable)
             \/ \E h \in Handler :
                  GrantNothing(h) \/ RejectCompletion(h) \/ ReadReady(h) \/ ReadRemaining(h)
                  \/ CloseWorkflow(h) \/ AbortWorkflow(h)
             \/ Crash
             \/ UNCHANGED vars
      PROVE  Leases(k)' \subseteq Leases(k)
  <2>1. UNCHANGED <<status, lease>>
    BY <1>7 DEF Register, BeginClaim, BeginComplete, BeginFail, GrantNothing, RejectCompletion,
                ReadReady, ReadRemaining, CloseWorkflow, AbortWorkflow, Crash, vars
  <2> QED
    BY <2>1
<1> HIDE DEF WellFormed, TypeOK, Leases
<1> QED
  BY StepCases, <1>2, <1>4, <1>5, <1>6, <1>7

(* The capacity check and the grant are one commit, so no interleaving of   *)
(* claims, registrations and sweeps leases a worker one node too many.      *)
THEOREM LimitRespected == Spec => ConcurrencyLimit
<1> DEFINE Limit ==
      \A k \in Worker :
        ~(Leases(k)' \subseteq Leases(k)) =>
          /\ worker[k] # None
          /\ Cardinality(Leases(k)') <= worker[k].max_concurrency
<1>1. WellFormed /\ [Next]_vars => [Limit]_vars
  <2> SUFFICES ASSUME WellFormed, [Next]_vars, NEW k \in Worker,
                      ~(Leases(k)' \subseteq Leases(k))
               PROVE  worker[k] # None /\ Cardinality(Leases(k)') <= worker[k].max_concurrency
    OBVIOUS
  <2>1. PICK h \in Handler, n \in Node : GrantLease(h, n)
    BY OthersAddNoLease
  <2>2. k = call[h].worker /\ Leases(k)' = Leases(k) \cup {n} /\ n \notin Leases(k)
    BY <2>1, GrantAddsOneLease
  <2>3. worker[k] # None /\ Cardinality(Leases(k)) < worker[k].max_concurrency
    BY <2>1, <2>2 DEF GrantLease, HasCapacity
  <2>4. IsFiniteSet(Leases(k))
    BY FleetAssumption, FS_Subset, Leases(k) \subseteq Node DEF Leases
  <2>5. /\ Cardinality(Leases(k) \cup {n}) = Cardinality(Leases(k)) + 1
        /\ Cardinality(Leases(k)) \in Nat
    BY <2>2, <2>4, FS_AddElement, FS_CardinalityType
  <2>6. worker[k].max_concurrency \in Nat
    BY <2>3 DEF WellFormed, TypeOK, Registration
  <2> QED
    BY <2>2, <2>3, <2>5, <2>6
<1> QED
  BY <1>1, AlwaysWellFormed, PTL DEF Spec, ConcurrencyLimit

-----------------------------------------------------------------------------


(* A leased row is completed, failed or put back in the queue.              *)
GivesUpLease(n, s) ==
  /\ status[n] = "leased"
  /\ s \in {"queued", "completed", "failed"}
  /\ s = "queued" => Retryable(n)
  /\ s = "completed" => \E h \in Handler : /\ call[h].at = "complete"
                                           /\ call[h].node = n
                                           /\ call[h].token = lease[n].token
  /\ status' = [status EXCEPT ![n] = s]
  /\ lease' = [lease EXCEPT ![n] = None]
  /\ UNCHANGED <<workflow, attempts, decision>>

(* No row changes, but for the deadlines of leases.                         *)
TouchesNoRow ==
  /\ UNCHANGED <<workflow, status, attempts, decision>>
  /\ \A n \in Node : /\ lease'[n] = None <=> lease[n] = None
                     /\ lease[n] # None => lease'[n].token = lease[n].token

(* A serial state is well formed.                                           *)
LEMMA SerialIsWellFormed == SerialInv => WellFormed
BY DEF SerialInv, WellFormed, ClaimsNameWorkers, LeasedRowsHoldLeases, OnlyLatestGrantIsLive,
       CallsAreCurrent, RememberedLeaseIsCurrent

(* Lapse and Heartbeat change the deadline of a lease and nothing else.     *)
LEMMA DeadlineTouchesNoRow ==
  ASSUME TypeOK, NEW n \in Node, lease[n] # None, NEW expired \in BOOLEAN,
         lease' = [lease EXCEPT ![n].expired = expired],
         UNCHANGED <<workflow, status, attempts, decision>>
  PROVE  TouchesNoRow
<1>1. lease[n] \in Lease
  BY DEF TypeOK
<1>2. lease'[n] \in Lease /\ lease'[n].token = lease[n].token
  BY <1>1 DEF TypeOK, Lease
<1>3. lease'[n] # None
  BY <1>2, FleetAssumption
<1>4. \A m \in Node \ {n} : lease'[m] = lease[m]
  BY DEF TypeOK
<1> QED
  BY <1>2, <1>3, <1>4 DEF TouchesNoRow

(* What a step can do to the rows of the tables.                            *)
LEMMA RowCases ==
  ASSUME SerialInv, [Next]_vars
  PROVE  \/ \E h \in Handler, w \in Workflow : Submit(h, w)
         \/ \E h \in Handler, n \in Node :
              Unblock(h, n) \/ GrantLease(h, n) \/ Approve(h, n) \/ Deny(h, n)
         \/ \E n \in Node, s \in {"queued", "completed", "failed"} : GivesUpLease(n, s)
         \/ \E h \in Handler : CloseWorkflow(h) \/ AbortWorkflow(h)
         \/ TouchesNoRow
<1> USE DEF SerialInv
<1>1. ASSUME NEW n \in Node, Lapse(n)
      PROVE  TouchesNoRow
  BY <1>1, DeadlineTouchesNoRow DEF Lapse
<1>2. ASSUME NEW h \in Handler, NEW n \in Node, Heartbeat(h, n)
      PROVE  TouchesNoRow
  BY <1>2, DeadlineTouchesNoRow DEF Heartbeat, OnlyLatestGrantIsLive
<1>3. ASSUME NEW h \in Handler, NEW n \in Node, SweepRow(h, n)
      PROVE  \E s \in {"queued", "completed", "failed"} : GivesUpLease(n, s)
  BY <1>3 DEF SweepRow, GivesUpLease, CallsAreCurrent, RememberedLeaseIsCurrent
<1>4. ASSUME NEW h \in Handler, CommitCompletion(h)
      PROVE  call[h].node \in Node /\ GivesUpLease(call[h].node, "completed")
  BY <1>4 DEF CommitCompletion, GivesUpLease, CallsAreCurrent, RememberedLeaseIsCurrent
<1>5. ASSUME NEW h \in Handler, CommitRetry(h)
      PROVE  call[h].node \in Node /\ GivesUpLease(call[h].node, "queued")
  BY <1>5 DEF CommitRetry, GivesUpLease, CallsAreCurrent, RememberedLeaseIsCurrent
<1>6. ASSUME NEW h \in Handler, CommitFailure(h)
      PROVE  call[h].node \in Node /\ GivesUpLease(call[h].node, "failed")
  BY <1>6 DEF CommitFailure, GivesUpLease, CallsAreCurrent, RememberedLeaseIsCurrent
<1>7. ASSUME \/ \E h \in Handler, k \in Worker, r \in Registrations : Register(h, k, r)
             \/ \E h \in Handler, k \in Worker, scope \in SUBSET Workflow : BeginClaim(h, k, scope)
             \/ \E h \in Handler, n \in Node : BeginComplete(h, n)
             \/ \E h \in Handler, n \in Node, retryable \in BOOLEAN : BeginFail(h, n, retryable)
             \/ \E h \in Handler :
                  GrantNothing(h) \/ RejectCompletion(h) \/ ReadReady(h) \/ ReadRemaining(h)
             \/ Crash
             \/ UNCHANGED vars
      PROVE  TouchesNoRow
  <2>1. UNCHANGED <<workflow, status, attempts, decision, lease>>
    BY <1>7 DEF Register, BeginClaim, BeginComplete, BeginFail, GrantNothing, RejectCompletion,
                ReadReady, ReadRemaining, Crash, vars
  <2> QED
    BY <2>1 DEF TouchesNoRow
<1> QED
  BY StepCases, <1>1, <1>2, <1>3, <1>4, <1>5, <1>6, <1>7

(* No row is released before what it depends on: once completed a row stays *)
(* so, and only submit and _advance create or release waiting rows.         *)
LEMMA DepsStep == SerialInv /\ [Next]_vars => ReadyOnlyAfterDeps'
<1> SUFFICES ASSUME SerialInv, [Next]_vars
             PROVE  ReadyOnlyAfterDeps'
  OBVIOUS
<1> USE FleetAssumption DEF TypeOK, ReadyOnlyAfterDeps, DepsCompleted
<1>0. TypeOK /\ ReadyOnlyAfterDeps
  BY DEF SerialInv
<1>1. ASSUME NEW h \in Handler, NEW w \in Workflow, Submit(h, w)
      PROVE  ReadyOnlyAfterDeps'
  <2> SUFFICES ASSUME NEW n \in Node, status'[n] \notin {"absent", "blocked"}, NEW m \in Deps[n]
               PROVE  status'[m] = "completed"
    OBVIOUS
  <2>1. m \in Node /\ WorkflowOf[m] = WorkflowOf[n]
    OBVIOUS
  <2>2. WorkflowOf[n] # w
    BY <1>1 DEF Submit
  <2> QED
    BY <1>0, <1>1, <2>1, <2>2 DEF Submit
<1>2. ASSUME NEW h \in Handler, NEW n \in Node, Unblock(h, n)
      PROVE  ReadyOnlyAfterDeps'
  <2>1. status[n] = "blocked" /\ DepsCompleted(n)
    BY <1>2 DEF Unblock, SerialInv, CallsAreCurrent, RememberedVerdictIsCurrent
  <2> QED
    BY <1>0, <1>2, <2>1 DEF Unblock
<1>3. ASSUME NEW n \in Node, NEW s \in {"queued", "leased", "completed", "failed"},
             status[n] \notin {"absent", "blocked", "completed"},
             status' = [status EXCEPT ![n] = s]
      PROVE  ReadyOnlyAfterDeps'
  BY <1>0, <1>3
<1>4. ASSUME NEW n \in Node, \/ \E h \in Handler : GrantLease(h, n) \/ Approve(h, n) \/ Deny(h, n)
                             \/ \E s \in {"queued", "completed", "failed"} : GivesUpLease(n, s)
      PROVE  ReadyOnlyAfterDeps'
  BY <1>3, <1>4 DEF GrantLease, Eligible, Approve, Deny, GivesUpLease
<1>5. ASSUME TouchesNoRow \/ \E h \in Handler : CloseWorkflow(h) \/ AbortWorkflow(h)
      PROVE  ReadyOnlyAfterDeps'
  <2>1. UNCHANGED status
    BY <1>5 DEF TouchesNoRow, CloseWorkflow, AbortWorkflow
  <2> QED
    BY <1>0, <2>1
<1> HIDE DEF TypeOK, ReadyOnlyAfterDeps
<1> QED
  BY RowCases, <1>1, <1>2, <1>4, <1>5

(* The retry verdict counts the attempt being given up, and only a grant    *)
(* uses an attempt of a queued row.                                         *)
LEMMA AttemptsStep == SerialInv /\ [Next]_vars => AttemptsBounded'
<1> SUFFICES ASSUME SerialInv, [Next]_vars
             PROVE  AttemptsBounded'
  OBVIOUS
<1> USE FleetAssumption DEF TypeOK, AttemptsBounded, Retryable
<1>0. TypeOK /\ AttemptsBounded /\ UntouchedBeforeReady
  BY DEF SerialInv
<1>1. ASSUME NEW h \in Handler, NEW w \in Workflow, Submit(h, w)
      PROVE  AttemptsBounded'
  BY <1>0, <1>1 DEF Submit, ReadyStatus, UntouchedBeforeReady
<1>2. ASSUME NEW h \in Handler, NEW n \in Node, Unblock(h, n)
      PROVE  AttemptsBounded'
  <2>1. status[n] = "blocked"
    BY <1>2 DEF Unblock, SerialInv, CallsAreCurrent, RememberedVerdictIsCurrent
  <2> QED
    BY <1>0, <1>2, <2>1 DEF Unblock, ReadyStatus, UntouchedBeforeReady
<1>3. ASSUME NEW h \in Handler, NEW n \in Node, GrantLease(h, n)
      PROVE  AttemptsBounded'
  BY <1>0, <1>3 DEF GrantLease, Eligible
<1>4. ASSUME NEW h \in Handler, NEW n \in Node, Approve(h, n) \/ Deny(h, n)
      PROVE  AttemptsBounded'
  BY <1>0, <1>4 DEF Approve, Deny, UntouchedBeforeReady
<1>5. ASSUME NEW n \in Node, NEW s \in {"queued", "completed", "failed"}, GivesUpLease(n, s)
      PROVE  AttemptsBounded'
  BY <1>0, <1>5 DEF GivesUpLease
<1>6. ASSUME TouchesNoRow \/ \E h \in Handler : CloseWorkflow(h) \/ AbortWorkflow(h)
      PROVE  AttemptsBounded'
  <2>1. UNCHANGED <<status, attempts>>
    BY <1>6 DEF TouchesNoRow, CloseWorkflow, AbortWorkflow
  <2> QED
    BY <1>0, <2>1
<1> HIDE DEF TypeOK, AttemptsBounded
<1> QED
  BY RowCases, <1>1, <1>2, <1>3, <1>4, <1>5, <1>6

(* Lease columns come and go with the status leased, and carry the token of *)
(* the latest attempt.                                                      *)
LEMMA LeaseStep == SerialInv /\ [Next]_vars => OnlyLatestGrantIsLive'
<1> SUFFICES ASSUME SerialInv, [Next]_vars
             PROVE  OnlyLatestGrantIsLive'
  OBVIOUS
<1> USE FleetAssumption DEF TypeOK, OnlyLatestGrantIsLive
<1>0. TypeOK /\ OnlyLatestGrantIsLive /\ UntouchedBeforeReady
  BY DEF SerialInv
<1>1. ASSUME NEW h \in Handler, NEW w \in Workflow, Submit(h, w)
      PROVE  OnlyLatestGrantIsLive'
  BY <1>0, <1>1 DEF Submit, ReadyStatus, UntouchedBeforeReady
<1>2. ASSUME NEW h \in Handler, NEW n \in Node, Unblock(h, n)
      PROVE  OnlyLatestGrantIsLive'
  <2>1. status[n] = "blocked"
    BY <1>2 DEF Unblock, SerialInv, CallsAreCurrent, RememberedVerdictIsCurrent
  <2> QED
    BY <1>0, <1>2, <2>1 DEF Unblock, ReadyStatus
<1>3. ASSUME NEW h \in Handler, NEW n \in Node, GrantLease(h, n)
      PROVE  OnlyLatestGrantIsLive'
  <2>1. call[h].worker \in Worker
    BY <1>3 DEF GrantLease, Swept, SerialInv, CallsAreCurrent, RememberedLeaseIsCurrent
  <2>2. lease'[n] \in Lease /\ lease'[n].token = attempts'[n] /\ status'[n] = "leased"
    BY <1>0, <1>3, <2>1 DEF GrantLease, Lease
  <2>3. \A m \in Node \ {n} : /\ lease'[m] = lease[m]
                              /\ status'[m] = status[m]
                              /\ attempts'[m] = attempts[m]
    BY <1>0, <1>3 DEF GrantLease
  <2> QED
    BY <1>0, <2>2, <2>3
<1>4. ASSUME NEW h \in Handler, NEW n \in Node, Approve(h, n) \/ Deny(h, n)
      PROVE  OnlyLatestGrantIsLive'
  BY <1>0, <1>4 DEF Approve, Deny
<1>5. ASSUME NEW n \in Node, NEW s \in {"queued", "completed", "failed"}, GivesUpLease(n, s)
      PROVE  OnlyLatestGrantIsLive'
  BY <1>0, <1>5 DEF GivesUpLease
<1>6. CASE TouchesNoRow
  BY <1>0, <1>6 DEF TouchesNoRow
<1>7. ASSUME NEW h \in Handler, CloseWorkflow(h) \/ AbortWorkflow(h)
      PROVE  OnlyLatestGrantIsLive'
  BY <1>0, <1>7 DEF CloseWorkflow, AbortWorkflow
<1> HIDE DEF TypeOK, OnlyLatestGrantIsLive
<1> QED
  BY RowCases, <1>1, <1>2, <1>3, <1>4, <1>5, <1>6, <1>7

(* A verdict is written only when the rows justify it, and what justifies   *)
(* it, a completed or failed row, never changes again.                      *)
LEMMA VerdictStep == SerialInv /\ [Next]_vars => VerdictAgreesWithNodes'
<1> SUFFICES ASSUME SerialInv, [Next]_vars
             PROVE  VerdictAgreesWithNodes'
  OBVIOUS
<1> USE FleetAssumption DEF TypeOK, VerdictAgreesWithNodes, NodesOf
<1>0. TypeOK /\ VerdictAgreesWithNodes /\ UntouchedBeforeReady
  BY DEF SerialInv
<1>1. ASSUME NEW h \in Handler, NEW w \in Workflow, Submit(h, w)
      PROVE  VerdictAgreesWithNodes'
  BY <1>0, <1>1 DEF Submit
<1>2. ASSUME NEW n \in Node, NEW s \in NodeStatus, status[n] \notin {"completed", "failed"},
             status' = [status EXCEPT ![n] = s], workflow' = workflow
      PROVE  VerdictAgreesWithNodes'
  BY <1>0, <1>2
<1>3. ASSUME NEW h \in Handler, NEW n \in Node, Unblock(h, n)
      PROVE  VerdictAgreesWithNodes'
  <2>1. status[n] = "blocked"
    BY <1>3 DEF Unblock, SerialInv, CallsAreCurrent, RememberedVerdictIsCurrent
  <2> QED
    BY <1>2, <1>3, <2>1 DEF Unblock, ReadyStatus, NodeStatus
<1>4. ASSUME NEW n \in Node, \/ \E h \in Handler : GrantLease(h, n) \/ Approve(h, n) \/ Deny(h, n)
                             \/ \E s \in {"queued", "completed", "failed"} : GivesUpLease(n, s)
      PROVE  VerdictAgreesWithNodes'
  BY <1>2, <1>4 DEF GrantLease, Eligible, Approve, Deny, GivesUpLease, NodeStatus
<1>5. ASSUME NEW h \in Handler, CloseWorkflow(h)
      PROVE  VerdictAgreesWithNodes'
  <2>1. /\ call[h].node \in Node
        /\ \A m \in NodesOf(WorkflowOf[call[h].node]) : status[m] = "completed"
    BY <1>5 DEF CloseWorkflow, SerialInv, CallsAreCurrent, RememberedVerdictIsCurrent
  <2> QED
    BY <1>0, <1>5, <2>1 DEF CloseWorkflow
<1>6. ASSUME NEW h \in Handler, AbortWorkflow(h)
      PROVE  VerdictAgreesWithNodes'
  <2>1. call[h].node \in Node /\ status[call[h].node] = "failed"
    BY <1>6 DEF AbortWorkflow, SerialInv, CallsAreCurrent, RememberedVerdictIsCurrent
  <2> QED
    BY <1>0, <1>6, <2>1 DEF AbortWorkflow
<1>7. CASE TouchesNoRow
  BY <1>0, <1>7 DEF TouchesNoRow
<1> HIDE DEF TypeOK, VerdictAgreesWithNodes
<1> QED
  BY RowCases, <1>1, <1>3, <1>4, <1>5, <1>6, <1>7

(* A gated row leaves awaiting_approval only through approve.               *)
LEMMA GateStep == SerialInv /\ [Next]_vars => ApprovalGate'
<1> SUFFICES ASSUME SerialInv, [Next]_vars
             PROVE  ApprovalGate'
  OBVIOUS
<1> USE FleetAssumption DEF TypeOK, ApprovalGate
<1>0. TypeOK /\ ApprovalGate /\ UntouchedBeforeReady
  BY DEF SerialInv
<1>1. ASSUME NEW h \in Handler, NEW w \in Workflow, Submit(h, w)
      PROVE  ApprovalGate'
  BY <1>0, <1>1 DEF Submit, ReadyStatus, UntouchedBeforeReady
<1>2. ASSUME NEW h \in Handler, NEW n \in Node, Unblock(h, n)
      PROVE  ApprovalGate'
  <2>1. status[n] = "blocked"
    BY <1>2 DEF Unblock, SerialInv, CallsAreCurrent, RememberedVerdictIsCurrent
  <2> QED
    BY <1>0, <1>2, <2>1 DEF Unblock, ReadyStatus, UntouchedBeforeReady
<1>3. ASSUME NEW h \in Handler, NEW n \in Node, Approve(h, n) \/ Deny(h, n)
      PROVE  ApprovalGate'
  BY <1>0, <1>3 DEF Approve, Deny
<1>4. ASSUME NEW n \in Node, \/ \E h \in Handler : GrantLease(h, n)
                             \/ \E s \in {"queued", "completed", "failed"} : GivesUpLease(n, s)
      PROVE  ApprovalGate'
  BY <1>0, <1>4 DEF GrantLease, Eligible, GivesUpLease
<1>5. ASSUME TouchesNoRow \/ \E h \in Handler : CloseWorkflow(h) \/ AbortWorkflow(h)
      PROVE  ApprovalGate'
  <2>1. UNCHANGED <<status, decision>>
    BY <1>5 DEF TouchesNoRow, CloseWorkflow, AbortWorkflow
  <2> QED
    BY <1>0, <2>1
<1> HIDE DEF TypeOK, ApprovalGate
<1> QED
  BY RowCases, <1>1, <1>2, <1>3, <1>4, <1>5

(* A row that was never queued stays untried and undecided.                 *)
LEMMA UntouchedStep == SerialInv /\ [Next]_vars => UntouchedBeforeReady'
<1> SUFFICES ASSUME SerialInv, [Next]_vars
             PROVE  UntouchedBeforeReady'
  OBVIOUS
<1> USE FleetAssumption DEF TypeOK, UntouchedBeforeReady
<1>0. TypeOK /\ UntouchedBeforeReady
  BY DEF SerialInv
<1>1. ASSUME NEW h \in Handler, NEW w \in Workflow, Submit(h, w)
      PROVE  UntouchedBeforeReady'
  BY <1>0, <1>1 DEF Submit, ReadyStatus
<1>2. ASSUME NEW h \in Handler, NEW n \in Node, Unblock(h, n)
      PROVE  UntouchedBeforeReady'
  <2>1. status[n] = "blocked"
    BY <1>2 DEF Unblock, SerialInv, CallsAreCurrent, RememberedVerdictIsCurrent
  <2> QED
    BY <1>0, <1>2, <2>1 DEF Unblock, ReadyStatus
<1>3. ASSUME NEW n \in Node, NEW s \in {"queued", "leased", "completed", "failed"},
             status[n] # "absent", status' = [status EXCEPT ![n] = s], workflow' = workflow,
             \A m \in Node \ {n} : attempts'[m] = attempts[m] /\ decision'[m] = decision[m]
      PROVE  UntouchedBeforeReady'
  BY <1>0, <1>3
<1>4. ASSUME NEW n \in Node, \/ \E h \in Handler : GrantLease(h, n) \/ Approve(h, n) \/ Deny(h, n)
                             \/ \E s \in {"queued", "completed", "failed"} : GivesUpLease(n, s)
      PROVE  UntouchedBeforeReady'
  BY <1>0, <1>3, <1>4 DEF GrantLease, Eligible, Approve, Deny, GivesUpLease
<1>5. ASSUME NEW h \in Handler, CloseWorkflow(h) \/ AbortWorkflow(h)
      PROVE  UntouchedBeforeReady'
  <2>1. call[h].node \in Node /\ status[call[h].node] # "absent"
    BY <1>5 DEF CloseWorkflow, AbortWorkflow, SerialInv, CallsAreCurrent, RememberedVerdictIsCurrent
  <2> QED
    BY <1>0, <1>5, <2>1 DEF CloseWorkflow, AbortWorkflow
<1>6. CASE TouchesNoRow
  BY <1>0, <1>6 DEF TouchesNoRow
<1> HIDE DEF TypeOK, UntouchedBeforeReady
<1> QED
  BY RowCases, <1>1, <1>2, <1>4, <1>5, <1>6

(* Nobody else touches the rows a call remembers: with one handler the only *)
(* steps between two commits of a call are lapses of deadlines and crashes. *)
LEMMA CallsStep == OneHandler /\ SerialInv /\ [Next]_vars => CallsAreCurrent'
<1> SUFFICES ASSUME OneHandler, SerialInv, [Next]_vars
             PROVE  CallsAreCurrent'
  OBVIOUS
<1> USE FleetAssumption
    DEF TypeOK, CallsAreCurrent, RememberedLeaseIsCurrent, RememberedVerdictIsCurrent
<1>0. TypeOK /\ OnlyLatestGrantIsLive /\ CallsAreCurrent
  BY DEF SerialInv
<1>1. ASSUME NEW h \in Handler, call'[h].at = "idle"
      PROVE  CallsAreCurrent'
  BY <1>1 DEF OneHandler
<1>2. ASSUME NEW h \in Handler, call[h].at = "idle", call' = call
      PROVE  CallsAreCurrent'
  BY <1>1, <1>2
<1>3. ASSUME NEW h \in Handler,
             \/ \E w \in Workflow : Submit(h, w)
             \/ \E k \in Worker, r \in Registrations : Register(h, k, r)
             \/ \E n \in Node : Heartbeat(h, n) \/ Approve(h, n)
      PROVE  CallsAreCurrent'
  BY <1>2, <1>3 DEF Submit, Register, Heartbeat, Approve
<1>4. ASSUME NEW h \in Handler,
             \/ \E n \in Node : GrantLease(h, n)
             \/ GrantNothing(h) \/ RejectCompletion(h) \/ CloseWorkflow(h)
             \/ CommitRetry(h) \/ AbortWorkflow(h)
      PROVE  CallsAreCurrent'
  <2>1. call' = [call EXCEPT ![h] = Idle]
    BY <1>4 DEF GrantLease, GrantNothing, RejectCompletion, CloseWorkflow, CommitRetry, AbortWorkflow
  <2>2. call'[h].at = "idle"
    BY <1>0, <2>1 DEF Idle
  <2> QED
    BY <1>1, <2>2
<1>5. ASSUME NEW n \in Node, Lapse(n)
      PROVE  CallsAreCurrent'
  <2>1. TouchesNoRow
    BY <1>0, <1>5, DeadlineTouchesNoRow DEF Lapse
  <2>2. call' = call /\ status' = status /\ attempts' = attempts
    BY <1>5, <2>1 DEF Lapse, TouchesNoRow
  <2>3. \A m \in Node : status[m] = "leased" => lease'[m].token = lease[m].token
    BY <1>0, <2>1 DEF TouchesNoRow, OnlyLatestGrantIsLive
  <2> QED
    BY <1>0, <2>2, <2>3 DEF Retryable, DepsCompleted, NodesOf
<1>6. ASSUME NEW h \in Handler, NEW k \in Worker, NEW scope \in SUBSET Workflow, BeginClaim(h, k, scope)
      PROVE  CallsAreCurrent'
  <2>1. call'[h] = Sweeping(k, scope, {n \in ExpiredRows : Retryable(n)}, {n \in ExpiredRows : ~Retryable(n)})
    BY <1>0, <1>6 DEF BeginClaim
  <2> QED
    BY <1>0, <1>6, <2>1 DEF BeginClaim, Sweeping, ExpiredRows, Retryable, OneHandler
<1>7. ASSUME NEW h \in Handler, NEW n \in Node, SweepRow(h, n)
      PROVE  CallsAreCurrent'
  <2>1. call'[h] = Sweeping(call[h].worker, call[h].scope, call[h].requeue \ {n}, call[h].exhaust \ {n})
    BY <1>0, <1>7 DEF SweepRow
  <2>2. call[h] \in Call
    BY <1>0
  <2>3. \A m \in (call[h].requeue \cup call[h].exhaust) \ {n} : status'[m] = status[m]
    BY <1>0, <1>7, <2>2 DEF SweepRow, Call
  <2> QED
    BY <1>0, <1>7, <2>1, <2>2, <2>3 DEF SweepRow, Sweeping, Retryable, OneHandler
<1>8. ASSUME NEW h \in Handler, NEW n \in Node, BeginComplete(h, n)
      PROVE  CallsAreCurrent'
  <2>1. call'[h] = Amid("complete", n, lease[n].token, {})
    BY <1>0, <1>8 DEF BeginComplete
  <2> QED
    BY <1>0, <1>8, <2>1 DEF BeginComplete, Live, Amid, OneHandler
<1>9. ASSUME NEW h \in Handler, CommitCompletion(h)
      PROVE  CallsAreCurrent'
  <2>1. call'[h] = Amid("advance", call[h].node, 0, {})
    BY <1>0, <1>9 DEF CommitCompletion
  <2>2. call[h].node \in Node /\ status'[call[h].node] = "completed"
    BY <1>0, <1>9 DEF CommitCompletion
  <2> QED
    BY <2>1, <2>2 DEF Amid, OneHandler
<1>10. ASSUME NEW h \in Handler, ReadReady(h)
       PROVE  CallsAreCurrent'
  <2>1. call'[h] = Amid("unblock", call[h].node, 0,
                        {n \in NodesOf(WorkflowOf[call[h].node]) : status[n] = "blocked" /\ DepsCompleted(n)})
    BY <1>0, <1>10 DEF ReadReady
  <2> QED
    BY <1>0, <1>10, <2>1 DEF ReadReady, Amid, OneHandler, DepsCompleted
<1>11. ASSUME NEW h \in Handler, NEW n \in Node, Unblock(h, n)
       PROVE  CallsAreCurrent'
  <2>1. call'[h] = Amid("unblock", call[h].node, 0, call[h].ready \ {n})
    BY <1>0, <1>11 DEF Unblock
  <2>2. status[n] = "blocked" /\ status' = [status EXCEPT ![n] = ReadyStatus(n)]
    BY <1>0, <1>11 DEF Unblock
  <2>3. call[h].node \in Node /\ status'[call[h].node] = "completed"
    BY <1>0, <1>11, <2>2 DEF Unblock
  <2>4. \A m \in call[h].ready \ {n} : status'[m] = "blocked" /\ DepsCompleted(m)'
    <3>1. call[h].ready \subseteq Node
      BY <1>0 DEF Call
    <3> QED
      BY <1>0, <1>11, <2>2, <3>1 DEF Unblock, DepsCompleted
  <2> QED
    BY <2>1, <2>3, <2>4 DEF Amid, OneHandler
<1>12. ASSUME NEW h \in Handler, ReadRemaining(h)
       PROVE  CallsAreCurrent'
  <2> DEFINE n == call[h].node
  <2>1. CASE \A m \in NodesOf(WorkflowOf[n]) : status[m] = "completed"
    <3>1. call'[h] = Amid("close", n, 0, {})
      BY <1>0, <1>12, <2>1 DEF ReadRemaining
    <3> QED
      BY <1>0, <1>12, <2>1, <3>1 DEF ReadRemaining, Amid, OneHandler, NodesOf
  <2>2. CASE ~\A m \in NodesOf(WorkflowOf[n]) : status[m] = "completed"
    <3>1. call'[h].at = "idle"
      BY <1>0, <1>12, <2>2 DEF ReadRemaining, Idle
    <3> QED
      BY <1>1, <3>1
  <2> QED
    BY <2>1, <2>2
<1>13. ASSUME NEW h \in Handler, NEW n \in Node, NEW retryable \in BOOLEAN, BeginFail(h, n, retryable)
       PROVE  CallsAreCurrent'
  <2>1. CASE retryable /\ Retryable(n)
    <3>1. call'[h] = Amid("retry", n, lease[n].token, {})
      BY <1>0, <1>13, <2>1 DEF BeginFail
    <3> QED
      BY <1>0, <1>13, <2>1, <3>1 DEF BeginFail, Live, Retryable, Amid, OneHandler
  <2>2. CASE ~(retryable /\ Retryable(n))
    <3>1. call'[h] = Amid("fail", n, lease[n].token, {})
      BY <1>0, <1>13, <2>2 DEF BeginFail
    <3> QED
      BY <1>0, <1>13, <3>1 DEF BeginFail, Live, Amid, OneHandler
  <2> QED
    BY <2>1, <2>2
<1>14. ASSUME NEW h \in Handler, CommitFailure(h)
       PROVE  CallsAreCurrent'
  <2>1. call'[h] = Amid("abort", call[h].node, 0, {})
    BY <1>0, <1>14 DEF CommitFailure
  <2>2. call[h].node \in Node /\ status'[call[h].node] = "failed"
    BY <1>0, <1>14 DEF CommitFailure
  <2> QED
    BY <2>1, <2>2 DEF Amid, OneHandler
<1>15. ASSUME NEW h \in Handler, NEW n \in Node, Deny(h, n)
       PROVE  CallsAreCurrent'
  <2>1. call'[h] = Amid("abort", n, 0, {}) /\ status'[n] = "failed"
    BY <1>0, <1>15 DEF Deny
  <2> QED
    BY <2>1 DEF Amid, OneHandler
<1>16. CASE Crash
  <2>1. \A h \in Handler : call'[h].at = "idle"
    BY <1>16 DEF Crash, Idle
  <2> QED
    BY <2>1
<1>17. CASE UNCHANGED vars
  BY <1>0, <1>17 DEF vars, Retryable, DepsCompleted, NodesOf
<1> HIDE DEF TypeOK, CallsAreCurrent
<1> QED
  BY StepCases, <1>3, <1>4, <1>5, <1>6, <1>7, <1>8, <1>9, <1>10, <1>11, <1>12, <1>13, <1>14,
     <1>15, <1>16, <1>17

LEMMA SerialInit == Init => SerialInv
<1> SUFFICES ASSUME Init
             PROVE  SerialInv
  OBVIOUS
<1>1. TypeOK
  BY FleetAssumption, CallValues DEF Init, TypeOK, NodeStatus
<1>2. ReadyOnlyAfterDeps /\ AttemptsBounded /\ OnlyLatestGrantIsLive /\ UntouchedBeforeReady
  BY FleetAssumption DEF Init, ReadyOnlyAfterDeps, AttemptsBounded, OnlyLatestGrantIsLive,
                         UntouchedBeforeReady
<1>3. VerdictAgreesWithNodes /\ ApprovalGate
  BY FleetAssumption DEF Init, VerdictAgreesWithNodes, ApprovalGate
<1>4. CallsAreCurrent
  BY DEF Init, Idle, CallsAreCurrent, RememberedLeaseIsCurrent, RememberedVerdictIsCurrent
<1> QED
  BY <1>1, <1>2, <1>3, <1>4 DEF SerialInv

LEMMA SerialStep == OneHandler /\ SerialInv /\ [Next]_vars => SerialInv'
  BY SerialIsWellFormed, TypeStep, DepsStep, AttemptsStep, LeaseStep, VerdictStep, GateStep,
     UntouchedStep, CallsStep DEF SerialInv

(* With one handler, everything SerialInv says is always true: the rows are *)
(* consistent and every call acts on current knowledge, crashes included.   *)
THEOREM SerialCorrect == OneHandler => (Spec => []SerialInv)
<1> SUFFICES ASSUME OneHandler
             PROVE  Spec => []SerialInv
  OBVIOUS
<1>1. SerialInv /\ [Next]_vars => SerialInv'
  BY SerialStep
<1> QED
  BY <1>1, SerialInit, PTL DEF Spec

(* The rows are consistent with each other: no node before its parents, no  *)
(* attempt above the bound, no lease but the latest, no verdict against the *)
(* rows, no gated node without approval.                                    *)
THEOREM RowsConsistent ==
  OneHandler => (Spec => [](/\ ReadyOnlyAfterDeps
                            /\ AttemptsBounded
                            /\ OnlyLatestGrantIsLive
                            /\ VerdictAgreesWithNodes
                            /\ ApprovalGate))
<1> DEFINE Consistent == /\ ReadyOnlyAfterDeps
                         /\ AttemptsBounded
                         /\ OnlyLatestGrantIsLive
                         /\ VerdictAgreesWithNodes
                         /\ ApprovalGate
<1>1. SerialInv => Consistent
  BY DEF SerialInv
<1> QED
  BY <1>1, SerialCorrect, PTL

(* The UPDATE of complete names only the row, yet the row it completes is   *)
(* still leased under the token its caller presented.                       *)
THEOREM CommitNeedsToken == OneHandler => (Spec => TokenIsCommitCapability)
<1> DEFINE ByToken ==
      \A n \in Node :
        status[n] # "completed" /\ status'[n] = "completed" =>
          /\ status[n] = "leased"
          /\ \E h \in Handler : /\ call[h].at = "complete"
                               /\ call[h].node = n
                               /\ call[h].token = lease[n].token
<1>1. SerialInv /\ [Next]_vars => [ByToken]_vars
  <2> SUFFICES ASSUME SerialInv, [Next]_vars
               PROVE  ByToken
    OBVIOUS
  <2> USE DEF TypeOK
  <2>0. TypeOK
    BY DEF SerialInv
  <2>1. ASSUME NEW h \in Handler, NEW w \in Workflow, Submit(h, w)
        PROVE  ByToken
    BY <2>0, <2>1 DEF Submit, ReadyStatus
  <2>2. ASSUME NEW h \in Handler, NEW n \in Node,
               Unblock(h, n) \/ GrantLease(h, n) \/ Approve(h, n) \/ Deny(h, n)
        PROVE  ByToken
    BY <2>0, <2>2 DEF Unblock, ReadyStatus, GrantLease, Approve, Deny
  <2>3. ASSUME NEW n \in Node, NEW s \in {"queued", "completed", "failed"}, GivesUpLease(n, s)
        PROVE  ByToken
    BY <2>0, <2>3 DEF GivesUpLease
  <2>4. ASSUME TouchesNoRow \/ \E h \in Handler : CloseWorkflow(h) \/ AbortWorkflow(h)
        PROVE  ByToken
    BY <2>0, <2>4 DEF TouchesNoRow, CloseWorkflow, AbortWorkflow
  <2> QED
    BY RowCases, <2>1, <2>2, <2>3, <2>4
<1> QED
  BY <1>1, SerialCorrect, PTL DEF Spec, TokenIsCommitCapability

(* A completed or failed row is never written again: no late completion,    *)
(* sweep, retry or decision reaches it.                                     *)
THEOREM SettledRowsAreFinal == OneHandler => (Spec => SettledIsFinal)
<1> DEFINE Final ==
      \A n \in Node :
        status[n] \in {"completed", "failed"} =>
          /\ status'[n] = status[n]
          /\ attempts'[n] = attempts[n]
          /\ lease'[n] = lease[n]
          /\ decision'[n] = decision[n]
<1>1. SerialInv /\ [Next]_vars => [Final]_vars
  <2> SUFFICES ASSUME SerialInv, [Next]_vars
               PROVE  Final
    OBVIOUS
  <2> USE FleetAssumption DEF TypeOK
  <2>0. TypeOK /\ UntouchedBeforeReady /\ OnlyLatestGrantIsLive
    BY DEF SerialInv
  <2>1. ASSUME NEW h \in Handler, NEW w \in Workflow, Submit(h, w)
        PROVE  Final
    BY <2>0, <2>1 DEF Submit, UntouchedBeforeReady
  <2>2. ASSUME NEW h \in Handler, NEW n \in Node, Unblock(h, n)
        PROVE  Final
    <3>1. status[n] = "blocked"
      BY <2>2 DEF Unblock, SerialInv, CallsAreCurrent, RememberedVerdictIsCurrent
    <3> QED
      BY <2>0, <2>2, <3>1 DEF Unblock
  <2>3. ASSUME NEW h \in Handler, NEW n \in Node, GrantLease(h, n) \/ Approve(h, n) \/ Deny(h, n)
        PROVE  Final
    BY <2>0, <2>3 DEF GrantLease, Eligible, Approve, Deny
  <2>4. ASSUME NEW n \in Node, NEW s \in {"queued", "completed", "failed"}, GivesUpLease(n, s)
        PROVE  Final
    BY <2>0, <2>4 DEF GivesUpLease
  <2>5. ASSUME NEW h \in Handler, CloseWorkflow(h) \/ AbortWorkflow(h)
        PROVE  Final
    BY <2>5 DEF CloseWorkflow, AbortWorkflow
  <2>6. CASE TouchesNoRow
    <3>1. \A n \in Node : status[n] \in {"completed", "failed"} => lease[n] = None /\ lease'[n] = None
      BY <2>0, <2>6 DEF TouchesNoRow, OnlyLatestGrantIsLive
    <3> QED
      BY <2>6, <3>1 DEF TouchesNoRow
  <2> QED
    BY RowCases, <2>1, <2>2, <2>3, <2>4, <2>5, <2>6
<1> QED
  BY <1>1, SerialCorrect, PTL DEF Spec, SettledIsFinal
-----------------------------------------------------------------------------
(***************************************************************************)
(* Fleet implements DagRun when one handler serialises the calls: every    *)
(* step on the rows is a step of the promise or leaves what the promise    *)
(* speaks of unchanged.                                                    *)
(***************************************************************************)

(* The abstract phase and permission of the nodes, as Promise takes them.   *)
phases == [n \in Node |-> PhaseOf(status[n])]
permitted == {n \in Node : decision[n] = "approved"}

(* A change of one row is a change of one phase.                            *)
LEMMA PhaseMove ==
  ASSUME NEW n \in Node, NEW s, TypeOK, status' = [status EXCEPT ![n] = s]
  PROVE  phases' = [phases EXCEPT ![n] = PhaseOf(s)]
BY DEF phases, TypeOK

(* The phase of each status, and which statuses are waiting.                *)
LEMMA PhaseValues ==
  /\ PhaseOf("absent") = "absent"
  /\ \A s \in {"blocked", "queued", "awaiting_approval"} : PhaseOf(s) = "waiting"
  /\ PhaseOf("leased") = "running"
  /\ PhaseOf("completed") = "done"
  /\ PhaseOf("failed") = "failed"
BY DEF PhaseOf

(* Parents that are completed are done.                                     *)
LEMMA DepsAreDone ==
  ASSUME NEW n \in Node, DepsCompleted(n)
  PROVE  \A m \in Deps[n] : phases[m] = "done"
BY FleetAssumption, PhaseValues DEF DepsCompleted, phases

(* Every step of Fleet is a step of DagRun or a stutter.                    *)
LEMMA StepSimulation ==
  ASSUME SerialInv, [Next]_vars
  PROVE  [Promise!Next]_(Promise!vars)
<1> USE FleetAssumption DEF TypeOK
<1>0. /\ TypeOK /\ UntouchedBeforeReady /\ ReadyOnlyAfterDeps
      /\ AttemptsBounded /\ VerdictAgreesWithNodes /\ ApprovalGate
  BY DEF SerialInv
<1>1. ASSUME NEW h \in Handler, NEW w \in Workflow, Submit(h, w)
      PROVE  Promise!Submit(w)
  <2>1. phases' = [n \in Node |-> IF WorkflowOf[n] = w THEN "waiting" ELSE phases[n]]
    BY <1>0, <1>1, PhaseValues DEF Submit, ReadyStatus, phases
  <2>2. UNCHANGED permitted
    BY <1>1 DEF Submit, permitted
  <2> QED
    BY <1>1, <2>1, <2>2 DEF Promise!Submit, Submit, phases, permitted
<1>2. ASSUME NEW h \in Handler, NEW n \in Node, Unblock(h, n)
      PROVE  UNCHANGED Promise!vars
  <2>1. status[n] = "blocked"
    BY <1>2 DEF Unblock, SerialInv, CallsAreCurrent, RememberedVerdictIsCurrent
  <2>2. status' = [status EXCEPT ![n] = ReadyStatus(n)] /\ PhaseOf(ReadyStatus(n)) = "waiting"
    BY <1>2, PhaseValues DEF Unblock, ReadyStatus
  <2>3. phases' = phases
    BY <1>0, <2>1, <2>2, PhaseMove, PhaseValues DEF phases
  <2>4. UNCHANGED <<workflow, attempts, permitted>>
    BY <1>2 DEF Unblock, permitted
  <2> QED
    BY <2>3, <2>4 DEF Promise!vars, phases, permitted
<1>3. ASSUME NEW h \in Handler, NEW n \in Node, GrantLease(h, n)
      PROVE  Promise!Start(n)
  <2>1. status[n] = "queued" /\ status' = [status EXCEPT ![n] = "leased"]
    BY <1>3 DEF GrantLease, Eligible
  <2>2. phases[n] = "waiting" /\ phases' = [phases EXCEPT ![n] = "running"]
    BY <1>0, <2>1, PhaseMove, PhaseValues DEF phases
  <2>3. \A m \in Deps[n] : phases[m] = "done"
    BY <1>0, <2>1, DepsAreDone DEF ReadyOnlyAfterDeps
  <2>4. (n \in Gated => n \in permitted) /\ attempts[n] < MaxAttempts[n]
    BY <1>0, <2>1 DEF ApprovalGate, AttemptsBounded, Retryable, permitted
  <2>5. /\ attempts' = [attempts EXCEPT ![n] = attempts[n] + 1]
        /\ UNCHANGED <<workflow, permitted>>
    BY <1>3 DEF GrantLease, permitted
  <2> QED
    BY <2>2, <2>3, <2>4, <2>5 DEF Promise!Start, Promise!Ready, phases, permitted
<1>4. ASSUME NEW h \in Handler, NEW n \in Node, Approve(h, n)
      PROVE  Promise!Allow(n)
  <2>1. status[n] = "awaiting_approval" /\ status' = [status EXCEPT ![n] = "queued"]
    BY <1>4 DEF Approve
  <2>2. phases[n] = "waiting" /\ phases' = phases
    BY <1>0, <2>1, PhaseMove, PhaseValues DEF phases
  <2>3. n \in Gated /\ \A m \in Deps[n] : phases[m] = "done"
    BY <1>0, <2>1, DepsAreDone DEF ReadyOnlyAfterDeps, UntouchedBeforeReady
  <2>4. permitted' = permitted \cup {n} /\ UNCHANGED <<workflow, attempts>>
    BY <1>0, <1>4 DEF Approve, permitted
  <2> QED
    BY <2>2, <2>3, <2>4 DEF Promise!Allow, Promise!Ready, phases, permitted
<1>5. ASSUME NEW h \in Handler, NEW n \in Node, Deny(h, n)
      PROVE  Promise!Refuse(n)
  <2>1. status[n] = "awaiting_approval" /\ status' = [status EXCEPT ![n] = "failed"]
    BY <1>5 DEF Deny
  <2>2. phases[n] = "waiting" /\ phases' = [phases EXCEPT ![n] = "failed"]
    BY <1>0, <2>1, PhaseMove, PhaseValues DEF phases
  <2>3. n \in Gated \ permitted /\ \A m \in Deps[n] : phases[m] = "done"
    BY <1>0, <2>1, DepsAreDone DEF ReadyOnlyAfterDeps, UntouchedBeforeReady, permitted
  <2>4. permitted' = permitted /\ UNCHANGED <<workflow, attempts>>
    BY <1>0, <1>5, <2>3 DEF Deny, permitted
  <2> QED
    BY <2>2, <2>3, <2>4 DEF Promise!Refuse, Promise!Ready, phases, permitted
<1>6. ASSUME NEW n \in Node, NEW s \in {"queued", "completed", "failed"}, GivesUpLease(n, s)
      PROVE  Promise!Stop(n, PhaseOf(s))
  <2>1. status[n] = "leased" /\ status' = [status EXCEPT ![n] = s]
    BY <1>6 DEF GivesUpLease
  <2>2. phases[n] = "running" /\ phases' = [phases EXCEPT ![n] = PhaseOf(s)]
    BY <1>0, <2>1, PhaseMove, PhaseValues DEF phases
  <2>3. PhaseOf(s) = "waiting" => attempts[n] < MaxAttempts[n]
    BY <1>6, PhaseValues DEF GivesUpLease, Retryable
  <2>4. UNCHANGED <<workflow, attempts, permitted>>
    BY <1>6 DEF GivesUpLease, permitted
  <2> QED
    BY <2>2, <2>3, <2>4 DEF Promise!Stop, phases, permitted
<1>7. ASSUME NEW h \in Handler, CloseWorkflow(h)
      PROVE  \/ \E w \in Workflow : Promise!Complete(w)
             \/ UNCHANGED Promise!vars
  <2> DEFINE w == WorkflowOf[call[h].node]
  <2>1. call[h].node \in Node /\ \A m \in NodesOf(w) : status[m] = "completed"
    BY <1>7 DEF CloseWorkflow, SerialInv, CallsAreCurrent, RememberedVerdictIsCurrent
  <2>2. w \in Workflow /\ workflow' = [workflow EXCEPT ![w] = "completed"]
    BY <1>7, <2>1 DEF CloseWorkflow
  <2>3. workflow[w] \in {"running", "completed"}
    BY <1>0, <2>1, <2>2 DEF VerdictAgreesWithNodes, UntouchedBeforeReady, NodesOf
  <2>4. \A n \in Node : WorkflowOf[n] = w => phases[n] = "done"
    BY <2>1, PhaseValues DEF NodesOf, phases
  <2>5. UNCHANGED <<phases, attempts, permitted>>
    BY <1>7 DEF CloseWorkflow, phases, permitted
  <2> HIDE DEF w
  <2>6. CASE workflow[w] = "running"
    BY <2>2, <2>4, <2>5, <2>6 DEF Promise!Complete, phases, permitted
  <2>7. CASE workflow[w] = "completed"
    <3>1. workflow' = workflow
      BY <1>0, <2>2, <2>7
    <3> QED
      BY <2>5, <3>1 DEF Promise!vars, phases, permitted
  <2> QED
    BY <2>2, <2>3, <2>6, <2>7
<1>8. ASSUME NEW h \in Handler, AbortWorkflow(h)
      PROVE  \/ \E w \in Workflow : Promise!Abort(w)
             \/ UNCHANGED Promise!vars
  <2> DEFINE w == WorkflowOf[call[h].node]
  <2>1. call[h].node \in Node /\ status[call[h].node] = "failed"
    BY <1>8 DEF AbortWorkflow, SerialInv, CallsAreCurrent, RememberedVerdictIsCurrent
  <2>2. w \in Workflow /\ workflow' = [workflow EXCEPT ![w] = "failed"]
    BY <1>8, <2>1 DEF AbortWorkflow
  <2>3. workflow[w] \in {"running", "failed"}
    BY <1>0, <2>1, <2>2 DEF VerdictAgreesWithNodes, UntouchedBeforeReady, NodesOf
  <2>4. \E n \in Node : WorkflowOf[n] = w /\ phases[n] = "failed"
    BY <2>1, PhaseValues DEF phases
  <2>5. UNCHANGED <<phases, attempts, permitted>>
    BY <1>8 DEF AbortWorkflow, phases, permitted
  <2> HIDE DEF w
  <2>6. CASE workflow[w] = "running"
    BY <2>2, <2>4, <2>5, <2>6 DEF Promise!Abort, phases, permitted
  <2>7. CASE workflow[w] = "failed"
    <3>1. workflow' = workflow
      BY <1>0, <2>2, <2>7
    <3> QED
      BY <2>5, <3>1 DEF Promise!vars, phases, permitted
  <2> QED
    BY <2>2, <2>3, <2>6, <2>7
<1>9. CASE TouchesNoRow
  BY <1>9 DEF TouchesNoRow, Promise!vars
<1>10. \A s \in {"queued", "completed", "failed"} : PhaseOf(s) \in {"waiting", "done", "failed"}
  BY PhaseValues
<1> QED
  BY RowCases, <1>1, <1>2, <1>3, <1>4, <1>5, <1>6, <1>7, <1>8, <1>9, <1>10 DEF Promise!Next

(* A run of Fleet, crashes included, is a run of the promise made to the    *)
(* submitter of a workflow.                                                 *)
THEOREM FleetImplementsDagRun == OneHandler => (Spec => KeepsPromise)
<1>1. Init => Promise!Init
  BY PhaseValues DEF Init, Promise!Init
<1> QED
  BY <1>1, StepSimulation, SerialCorrect, PTL DEF Spec, KeepsPromise, Promise!Spec
-----------------------------------------------------------------------------
(* Fleet without a crash: nothing is stranded                              *)

(* A call between CommitCompletion and its end settles what it stranded.    *)
Advancing == {"advance", "unblock", "close"}

WillRelease(h, n) ==
  \/ call[h].at = "advance" /\ WorkflowOf[call[h].node] = WorkflowOf[n]
  \/ call[h].at = "unblock" /\ n \in call[h].ready

WillClose(h, w) == call[h].at \in Advancing /\ WorkflowOf[call[h].node] = w

(* A released row has a call that is about to release it, and a workflow    *)
(* that is done one that is about to close it.                              *)
StrandedAreSeen ==
  /\ \A n \in Node : status[n] = "blocked" /\ DepsCompleted(n) =>
       \E h \in Handler : WillRelease(h, n)
  /\ \A w \in Workflow :
       workflow[w] = "running" /\ (\A n \in NodesOf(w) : status[n] = "completed") =>
         \E h \in Handler : WillClose(h, w)

(* A step of a call that is not completing a row strands none.              *)
LEMMA QuietStep ==
  ASSUME OneHandler, SerialInv, StrandedAreSeen, NEW h \in Handler,
         call[h].at \notin Advancing,
         \A n \in Node : /\ status'[n] = "completed" <=> status[n] = "completed"
                         /\ status'[n] = "blocked" => status[n] = "blocked",
         \A w \in Workflow : workflow'[w] = "running" => workflow[w] = "running"
  PROVE  StrandedAreSeen'
<1>1. \A g \in Handler : g = h
  BY DEF OneHandler
<1>2. \A n \in Node : ~(status[n] = "blocked" /\ DepsCompleted(n))
  BY <1>1 DEF StrandedAreSeen, WillRelease, Advancing
<1>3. \A w \in Workflow :
        ~(workflow[w] = "running" /\ (\A n \in NodesOf(w) : status[n] = "completed"))
  BY <1>1 DEF StrandedAreSeen, WillClose
<1>4. \A n \in Node : Deps[n] \subseteq Node
  BY FleetAssumption
<1>5. \A n \in Node : ~(status'[n] = "blocked" /\ DepsCompleted(n)')
  BY <1>2, <1>4 DEF DepsCompleted
<1>6. \A w \in Workflow :
        ~(workflow'[w] = "running" /\ (\A n \in NodesOf(w) : status'[n] = "completed"))
  BY <1>3 DEF NodesOf
<1> QED
  BY <1>5, <1>6 DEF StrandedAreSeen, NodesOf

LEMMA StrandedStep ==
  OneHandler /\ SerialInv /\ StrandedAreSeen /\ [Served]_vars => StrandedAreSeen'
<1> SUFFICES ASSUME OneHandler, SerialInv, StrandedAreSeen, [Served]_vars
             PROVE  StrandedAreSeen'
  OBVIOUS
<1>0. /\ TypeOK /\ call \in [Handler -> Call] /\ status \in [Node -> NodeStatus \cup {"absent"}]
      /\ workflow \in [Workflow -> {"absent", "running", "completed", "failed"}]
      /\ \A g, h \in Handler : g = h
  BY DEF SerialInv, TypeOK, OneHandler
<1>1. ASSUME NEW h \in Handler, NEW w \in Workflow, Submit(h, w)
      PROVE  StrandedAreSeen'
  <2>1. call[h].at \notin Advancing
    BY <1>1 DEF Submit, Advancing
  <2>2. \A n \in Node : ~(status[n] = "blocked" /\ DepsCompleted(n))
    BY <1>0, <2>1 DEF StrandedAreSeen, WillRelease, Advancing
  <2>3. \A v \in Workflow :
          ~(workflow[v] = "running" /\ (\A n \in NodesOf(v) : status[n] = "completed"))
    BY <1>0, <2>1 DEF StrandedAreSeen, WillClose
  <2>4. /\ \A n \in NodesOf(w) : status'[n] \in {"blocked", "awaiting_approval", "queued"}
        /\ \A n \in NodesOf(w) : status'[n] = "blocked" => Deps[n] # {}
        /\ \A n \in Node \ NodesOf(w) : status'[n] = status[n]
    BY <1>1 DEF Submit, NodesOf, ReadyStatus
  <2>5. \A n \in Node : ~(status'[n] = "blocked" /\ DepsCompleted(n)')
    <3> SUFFICES ASSUME NEW n \in Node, status'[n] = "blocked"
                 PROVE  \E m \in Deps[n] : status'[m] # "completed"
      BY DEF DepsCompleted
    <3>1. \A m \in Deps[n] : m \in Node /\ WorkflowOf[m] = WorkflowOf[n]
      BY FleetAssumption
    <3>2. CASE n \in NodesOf(w)
      BY <2>4, <3>1, <3>2 DEF NodesOf
    <3>3. CASE n \notin NodesOf(w)
      <4>1. \A m \in Deps[n] : status'[m] = status[m]
        BY <2>4, <3>1, <3>3 DEF NodesOf
      <4> QED BY <2>2, <2>4, <3>3, <4>1 DEF DepsCompleted
    <3> QED BY <3>2, <3>3
  <2>6. \A v \in Workflow :
          ~(workflow'[v] = "running" /\ (\A n \in NodesOf(v) : status'[n] = "completed"))
    <3> SUFFICES ASSUME NEW v \in Workflow, workflow'[v] = "running"
                 PROVE  \E n \in NodesOf(v) : status'[n] # "completed"
      OBVIOUS
    <3>1. CASE v = w
      <4>1. PICK n \in Node : WorkflowOf[n] = w
        BY FleetAssumption
      <4> QED BY <2>4, <3>1, <4>1 DEF NodesOf
    <3>2. CASE v # w
      <4>1. workflow[v] = "running"
        BY <1>0, <1>1, <3>2 DEF Submit
      <4>2. \A n \in NodesOf(v) : status'[n] = status[n]
        BY <2>4, <3>2 DEF NodesOf
      <4> QED BY <2>3, <4>1, <4>2
    <3> QED BY <3>1, <3>2
  <2> QED
    BY <2>5, <2>6 DEF StrandedAreSeen, NodesOf
<1>2. ASSUME NEW h \in Handler, call[h].at \notin Advancing,
             status' = status, workflow' = workflow
      PROVE  StrandedAreSeen'
  BY <1>2, QuietStep
<1>3. ASSUME NEW n \in Node, NEW s \in {"queued", "leased", "failed"}, NEW h \in Handler,
             status[n] \notin {"blocked", "completed"}, status' = [status EXCEPT ![n] = s],
             workflow' = workflow, call[h].at \notin Advancing
      PROVE  StrandedAreSeen'
  BY <1>0, <1>3, QuietStep
<1>4. ASSUME NEW h \in Handler,
             \/ \E k \in Worker, r \in Registrations : Register(h, k, r)
             \/ \E k \in Worker, scope \in SUBSET Workflow : BeginClaim(h, k, scope)
             \/ \E n \in Node : BeginComplete(h, n)
             \/ \E n \in Node, retryable \in BOOLEAN : BeginFail(h, n, retryable)
             \/ GrantNothing(h) \/ RejectCompletion(h)
      PROVE  StrandedAreSeen'
  <2>1. /\ call[h].at \notin Advancing
        /\ status' = status /\ workflow' = workflow
    BY <1>4 DEF Register, BeginClaim, BeginComplete, BeginFail, GrantNothing, RejectCompletion,
                Swept, Advancing
  <2> QED BY <1>2, <2>1
<1>5. ASSUME NEW n \in Node, Lapse(n) \/ UNCHANGED vars
      PROVE  StrandedAreSeen'
  BY <1>5 DEF Lapse, vars, StrandedAreSeen, DepsCompleted, WillRelease, WillClose, NodesOf
<1>6. ASSUME NEW h \in Handler, NEW n \in Node,
             SweepRow(h, n) \/ GrantLease(h, n) \/ Approve(h, n) \/ Deny(h, n)
      PROVE  StrandedAreSeen'
  <2>1. /\ call[h].at \notin Advancing /\ workflow' = workflow
        /\ status[n] \notin {"blocked", "completed"}
        /\ \E s \in {"queued", "leased", "failed"} : status' = [status EXCEPT ![n] = s]
    BY <1>6 DEF SweepRow, GrantLease, Approve, Deny, Swept, Eligible, Advancing, SerialInv,
                CallsAreCurrent, RememberedLeaseIsCurrent
  <2> QED BY <1>3, <2>1
<1>7. ASSUME NEW h \in Handler, CommitRetry(h) \/ CommitFailure(h)
      PROVE  StrandedAreSeen'
  <2>1. /\ call[h].at \notin Advancing /\ workflow' = workflow /\ call[h].node \in Node
        /\ status[call[h].node] = "leased"
        /\ \E s \in {"queued", "leased", "failed"} : status' = [status EXCEPT ![call[h].node] = s]
    BY <1>7 DEF CommitRetry, CommitFailure, Advancing, SerialInv, CallsAreCurrent,
                RememberedLeaseIsCurrent
  <2> QED BY <1>3, <2>1
<1>8. ASSUME NEW h \in Handler, AbortWorkflow(h)
      PROVE  StrandedAreSeen'
  <2>1. /\ call[h].at \notin Advancing /\ status' = status
        /\ \A w \in Workflow : workflow'[w] = "running" => workflow[w] = "running"
    BY <1>0, <1>8 DEF AbortWorkflow, Advancing
  <2> QED BY <2>1, QuietStep
<1>9. ASSUME NEW h \in Handler, CommitCompletion(h)
      PROVE  StrandedAreSeen'
  <2> DEFINE n == call[h].node
  <2>1. /\ call[h].at = "complete" /\ n \in Node /\ status[n] = "leased"
    BY <1>9 DEF CommitCompletion, SerialInv, CallsAreCurrent, RememberedLeaseIsCurrent
  <2>2. /\ status' = [status EXCEPT ![n] = "completed"] /\ workflow' = workflow
        /\ call'[h] = Amid("advance", n, 0, {})
    BY <1>0, <1>9 DEF CommitCompletion
  <2>3. call'[h].at = "advance" /\ call'[h].node = n
    BY <2>2 DEF Amid
  <2>4. \A m \in Node : ~(status[m] = "blocked" /\ DepsCompleted(m))
    BY <1>0, <2>1 DEF StrandedAreSeen, WillRelease, Advancing
  <2>5. \A w \in Workflow :
          ~(workflow[w] = "running" /\ (\A m \in NodesOf(w) : status[m] = "completed"))
    BY <1>0, <2>1 DEF StrandedAreSeen, WillClose, Advancing
  <2>6. ASSUME NEW m \in Node, status'[m] = "blocked", DepsCompleted(m)'
        PROVE  WorkflowOf[m] = WorkflowOf[n]
    <3>1. status[m] = "blocked"
      BY <1>0, <2>1, <2>2, <2>6
    <3>2. \A p \in Deps[m] : p \in Node /\ WorkflowOf[p] = WorkflowOf[m]
      BY FleetAssumption
    <3>3. n \in Deps[m]
      <4> SUFFICES ASSUME n \notin Deps[m] PROVE FALSE
        OBVIOUS
      <4>1. \A p \in Deps[m] : status[p] = "completed"
        BY <1>0, <2>1, <2>2, <2>6, <3>2 DEF DepsCompleted
      <4> QED BY <2>4, <3>1, <4>1 DEF DepsCompleted
    <3> QED BY <3>2, <3>3
  <2>7. ASSUME NEW w \in Workflow, workflow'[w] = "running",
               \A m \in NodesOf(w) : status'[m] = "completed"
        PROVE  WorkflowOf[n] = w
    <3> SUFFICES ASSUME WorkflowOf[n] # w PROVE FALSE
      OBVIOUS
    <3>1. \A m \in NodesOf(w) : status[m] = "completed"
      BY <1>0, <2>1, <2>2, <2>7 DEF NodesOf
    <3> QED BY <2>2, <2>5, <2>7, <3>1
  <2> HIDE DEF n
  <2> QED
    BY <2>3, <2>6, <2>7 DEF StrandedAreSeen, WillRelease, WillClose, Advancing, NodesOf
<1>10. ASSUME NEW h \in Handler, ReadReady(h)
       PROVE  StrandedAreSeen'
  <2> DEFINE n == call[h].node
             ready == {m \in NodesOf(WorkflowOf[n]) : status[m] = "blocked" /\ DepsCompleted(m)}
  <2>1. call[h].at = "advance" /\ status' = status /\ workflow' = workflow
    BY <1>10 DEF ReadReady
  <2>2. call'[h] = Amid("unblock", n, 0, ready)
    BY <1>0, <1>10 DEF ReadReady
  <2>3. call'[h].at = "unblock" /\ call'[h].node = n /\ call'[h].ready = ready
    BY <2>2 DEF Amid
  <2>4. ASSUME NEW m \in Node, status[m] = "blocked", DepsCompleted(m)
        PROVE  m \in ready
    BY <1>0, <2>1, <2>4 DEF StrandedAreSeen, WillRelease, NodesOf
  <2>5. ASSUME NEW w \in Workflow, workflow[w] = "running",
               \A m \in NodesOf(w) : status[m] = "completed"
        PROVE  WorkflowOf[n] = w
    BY <1>0, <2>5 DEF StrandedAreSeen, WillClose
  <2> HIDE DEF n, ready
  <2> QED
    BY <2>1, <2>3, <2>4, <2>5
       DEF StrandedAreSeen, WillRelease, WillClose, Advancing, NodesOf, DepsCompleted
<1>11. ASSUME NEW h \in Handler, NEW n \in Node, Unblock(h, n)
       PROVE  StrandedAreSeen'
  <2>1. /\ call[h].at = "unblock" /\ workflow' = workflow
        /\ status' = [status EXCEPT ![n] = ReadyStatus(n)] /\ status[n] = "blocked"
    BY <1>11 DEF Unblock, SerialInv, CallsAreCurrent, RememberedVerdictIsCurrent
  <2>2. call'[h] = Amid("unblock", call[h].node, 0, call[h].ready \ {n})
    BY <1>0, <1>11 DEF Unblock
  <2>3. /\ call'[h].at = "unblock" /\ call'[h].node = call[h].node
        /\ call'[h].ready = call[h].ready \ {n}
    BY <2>2 DEF Amid
  <2>4. \A m \in Node : /\ status'[m] = "completed" <=> status[m] = "completed"
                        /\ status'[m] = "blocked" => status[m] = "blocked" /\ m # n
    BY <1>0, <2>1 DEF ReadyStatus
  <2>5. \A m \in Node : Deps[m] \subseteq Node
    BY FleetAssumption
  <2>6. \A m \in Node : DepsCompleted(m)' => DepsCompleted(m)
    BY <2>4, <2>5 DEF DepsCompleted
  <2>7. ASSUME NEW m \in Node, status'[m] = "blocked", DepsCompleted(m)'
        PROVE  m \in call'[h].ready
    BY <1>0, <2>1, <2>3, <2>4, <2>6, <2>7 DEF StrandedAreSeen, WillRelease
  <2>8. ASSUME NEW w \in Workflow, workflow'[w] = "running",
               \A m \in NodesOf(w) : status'[m] = "completed"
        PROVE  WorkflowOf[call[h].node] = w
    <3>1. \A m \in NodesOf(w) : status[m] = "completed"
      BY <2>4, <2>8 DEF NodesOf
    <3> QED BY <1>0, <2>1, <2>8, <3>1 DEF StrandedAreSeen, WillClose
  <2> QED
    BY <2>3, <2>7, <2>8 DEF StrandedAreSeen, WillRelease, WillClose, Advancing, NodesOf
<1>12. ASSUME NEW h \in Handler, ReadRemaining(h)
       PROVE  StrandedAreSeen'
  <2> DEFINE n == call[h].node
             done == \A m \in NodesOf(WorkflowOf[n]) : status[m] = "completed"
  <2>1. /\ call[h].at = "unblock" /\ call[h].ready = {}
        /\ status' = status /\ workflow' = workflow
    BY <1>12 DEF ReadRemaining
  <2>2. call'[h] = IF done THEN Amid("close", n, 0, {}) ELSE Idle
    BY <1>0, <1>12 DEF ReadRemaining
  <2>3. done => call'[h].at = "close" /\ call'[h].node = n
    BY <2>2 DEF Amid
  <2>4. \A m \in Node : ~(status[m] = "blocked" /\ DepsCompleted(m))
    BY <1>0, <2>1 DEF StrandedAreSeen, WillRelease
  <2>5. ASSUME NEW w \in Workflow, workflow[w] = "running",
               \A m \in NodesOf(w) : status[m] = "completed"
        PROVE  WorkflowOf[n] = w /\ done
    BY <1>0, <2>5 DEF StrandedAreSeen, WillClose
  <2> HIDE DEF n, done
  <2> QED
    BY <2>1, <2>3, <2>4, <2>5
       DEF StrandedAreSeen, WillRelease, WillClose, Advancing, NodesOf, DepsCompleted
<1>13. ASSUME NEW h \in Handler, CloseWorkflow(h)
       PROVE  StrandedAreSeen'
  <2> DEFINE v == WorkflowOf[call[h].node]
  <2>1. call[h].at = "close" /\ status' = status /\ workflow' = [workflow EXCEPT ![v] = "completed"]
    BY <1>13 DEF CloseWorkflow
  <2>2. \A m \in Node : ~(status[m] = "blocked" /\ DepsCompleted(m))
    BY <1>0, <2>1 DEF StrandedAreSeen, WillRelease
  <2>3. \A w \in Workflow : workflow'[w] = "running" => w # v /\ workflow[w] = "running"
    BY <1>0, <2>1
  <2>4. \A w \in Workflow :
          ~(workflow'[w] = "running" /\ (\A m \in NodesOf(w) : status[m] = "completed"))
    BY <1>0, <2>3 DEF StrandedAreSeen, WillClose
  <2> QED
    BY <2>1, <2>2, <2>4 DEF StrandedAreSeen, NodesOf, DepsCompleted
<1>14. CASE UNCHANGED vars
  BY <1>14 DEF vars, StrandedAreSeen, DepsCompleted, WillRelease, WillClose, NodesOf
<1>15. \A w \in Workflow : {w} \in SUBSET Workflow
  OBVIOUS
<1> QED
  BY <1>1, <1>4, <1>5, <1>6, <1>7, <1>8, <1>9, <1>10, <1>11, <1>12, <1>13, <1>14, <1>15
     DEF Served, ClaimStep, CompleteStep, FailStep

(* NothingStranded: as long as the process does not crash, every call that  *)
(* has ended left no released row blocked and no finished workflow open     *)
(* (complete, _advance), for every set of workflows and workers.            *)
THEOREM NothingStaysStranded == OneHandler => (FairSpec => []NothingStranded)
<1> SUFFICES ASSUME OneHandler
             PROVE  FairSpec => []NothingStranded
  OBVIOUS
<1>1. [Served]_vars => [Next]_vars
  BY DEF Next, Operation
<1>2. Init => StrandedAreSeen
  BY FleetAssumption DEF Init, StrandedAreSeen
<1>3. OneHandler
  OBVIOUS
<1>4. SerialInv /\ StrandedAreSeen /\ [Served]_vars => StrandedAreSeen'
  BY <1>3, StrandedStep
<1>5. SerialInv /\ StrandedAreSeen => NothingStranded
  <2> SUFFICES ASSUME SerialInv, StrandedAreSeen, \A h \in Handler : call[h].at = "idle",
                      NEW w \in Workflow
               PROVE  /\ \A n \in NodesOf(w) : status[n] = "blocked" => ~DepsCompleted(n)
                      /\ (\A n \in NodesOf(w) : status[n] = "completed") =>
                           workflow[w] \in {"absent", "completed"}
    BY DEF NothingStranded
  <2>1. \A n \in Node : ~(status[n] = "blocked" /\ DepsCompleted(n))
    BY DEF StrandedAreSeen, WillRelease
  <2>2. ~(workflow[w] = "running" /\ (\A n \in NodesOf(w) : status[n] = "completed"))
    BY DEF StrandedAreSeen, WillClose, Advancing
  <2>3. workflow[w] = "failed" => \E n \in NodesOf(w) : status[n] = "failed"
    BY DEF SerialInv, VerdictAgreesWithNodes
  <2> QED
    BY <2>1, <2>2, <2>3 DEF SerialInv, TypeOK, NodesOf
<1>6. Spec => []SerialInv
  BY <1>3, SerialCorrect
<1> QED
  BY <1>1, <1>2, <1>4, <1>5, <1>6, PTL DEF FairSpec, Spec
-----------------------------------------------------------------------------
(* Module FleetWorker.  A loop turn is not always one step of Fleet (run_once *)
(* registers and claims at once, and a rejected result is failed at once),  *)
(* but it is one for the rows.                                              *)
LEMMA WorkerKeepsSerial ==
  ASSUME OneHandler, SerialInv, WorkerNext
  PROVE  SerialInv'
<1>0. TypeOK /\ \A g, h \in Handler : g = h
  BY DEF SerialInv, OneHandler
<1>1. SerialInv /\ [Next]_vars => SerialInv'
  BY SerialStep
<1>2. ASSUME TypeOK', CallsAreCurrent',
             UNCHANGED <<workflow, created, status, attempts, lease, decision>>
      PROVE  SerialInv'
  BY <1>2 DEF SerialInv, ReadyOnlyAfterDeps, AttemptsBounded, OnlyLatestGrantIsLive,
              VerdictAgreesWithNodes, ApprovalGate, UntouchedBeforeReady, DepsCompleted,
              Retryable, NodesOf
<1>3. ASSUME NEW h \in Handler, NEW k \in Worker, Poll(h, k)
      PROVE  SerialInv'
  <2> DEFINE new == Sweeping(k, Workflow, {n \in ExpiredRows : Retryable(n)},
                             {n \in ExpiredRows : ~Retryable(n)})
  <2>1. /\ UNCHANGED <<workflow, created, status, attempts, lease, decision>>
        /\ worker' = [worker EXCEPT ![k] = Profile[k]] /\ call' = [call EXCEPT ![h] = new]
    BY <1>3 DEF Poll
  <2>2. new \in Call
    BY CallValues DEF ExpiredRows
  <2>3. TypeOK'
    BY <1>0, <2>1, <2>2, ProfileAssumption DEF TypeOK
  <2>4. /\ new.at = "sweep" /\ new.worker = k /\ new.requeue = {n \in ExpiredRows : Retryable(n)}
        /\ new.exhaust = {n \in ExpiredRows : ~Retryable(n)}
    BY DEF Sweeping
  <2> HIDE DEF new
  <2>5. call'[h] = new
    BY <1>0, <2>1 DEF TypeOK
  <2>6. CallsAreCurrent'
    BY <1>0, <2>1, <2>4, <2>5 DEF CallsAreCurrent, RememberedLeaseIsCurrent,
       RememberedVerdictIsCurrent, ExpiredRows, Retryable
  <2> QED BY <1>2, <2>1, <2>3, <2>6
<1>4. ASSUME NEW h \in Handler, NEW k \in Worker, ResultRejected(h, k)
      PROVE  SerialInv'
  <2> DEFINE n == call[h].node
             step == IF Retryable(n) THEN "retry" ELSE "fail"
             new == Amid(step, n, lease[n].token, {})
  <2>1. /\ UNCHANGED <<workflow, created, status, attempts, lease, decision, worker>>
        /\ call' = [call EXCEPT ![h] = new] /\ call[h].at = "complete"
    BY <1>4 DEF ResultRejected
  <2>2. n \in Node /\ status[n] = "leased" /\ lease[n] \in Lease
    BY <1>0, <2>1 DEF SerialInv, TypeOK, CallsAreCurrent, RememberedLeaseIsCurrent,
                      OnlyLatestGrantIsLive
  <2>3. new \in Call
    BY <2>2, CallValues DEF Lease
  <2>4. TypeOK'
    BY <1>0, <2>1, <2>3 DEF TypeOK
  <2>5. new.at = step /\ new.node = n /\ new.token = lease[n].token
    BY DEF Amid
  <2>6. step \in {"retry", "fail"} /\ (step = "retry" => Retryable(n))
    OBVIOUS
  <2> HIDE DEF new, step
  <2>7. call'[h] = new
    BY <1>0, <2>1 DEF TypeOK
  <2>8. CallsAreCurrent'
    BY <1>0, <2>1, <2>2, <2>5, <2>6, <2>7
       DEF CallsAreCurrent, RememberedLeaseIsCurrent, RememberedVerdictIsCurrent, Retryable
  <2> QED BY <1>2, <2>1, <2>4, <2>8
<1>5. ASSUME NEW h \in Handler, NEW k \in Worker, ReportResult(h, k) \/ ReportError(h, k)
      PROVE  [Next]_vars
  <2>1. PICK n \in Node : held[k] = <<n, lease[n].token>>
    BY <1>5 DEF ReportResult, ReportError, StillLeased
  <2>2. held[k][1] \in Node
    BY <2>1
  <2> QED BY <1>5, <2>2 DEF ReportResult, ReportError, Next, Operation, Served
<1>6. ASSUME NEW h \in Handler, NEW k \in Worker, ResultRejectedLate(h, k) \/ LoseLease(h, k)
      PROVE  [Next]_vars
  BY <1>6 DEF ResultRejectedLate, LoseLease, RejectCompletion, Next, Operation, Served
<1>7. ASSUME NEW h \in Handler, Sweep(h) \/ Granted(h) \/ NothingToDo(h) \/ Commit(h)
      PROVE  [Next]_vars
  BY <1>7 DEF Sweep, Granted, NothingToDo, Commit, ClaimStep, Next, Operation, Served
<1>8. ASSUME \/ \E h \in Handler, w \in Workflow : TakeIn(h, w)
             \/ \E h \in Handler, n \in Node : Decide(h, n)
             \/ \E n \in Node : Overrun(n)
      PROVE  [Next]_vars
  BY <1>8 DEF TakeIn, Decide, Overrun, Next, Operation, Served
<1> QED
  BY <1>1, <1>3, <1>4, <1>5, <1>6, <1>7, <1>8 DEF WorkerNext, WorkerStep, CallStep

(* The worker k is in the middle of the call of h, which still has the       *)
(* lease to take away, or has taken it.                                     *)
Reporting(h, k) ==
  \/ /\ call[h].at \in {"complete", "retry", "fail"}
     /\ held[k] = <<call[h].node, call[h].token>>
  \/ /\ call[h].at \in {"advance", "unblock", "close", "abort"}
     /\ \A n \in Node : ~(Live(n) /\ lease[n].by = k)

Hands ==
  /\ loop \in [Worker -> LoopState]
  /\ held \in [Worker -> (Node \X Nat) \cup {None}]
  /\ NoOrphanedLease
  /\ \A k \in Worker :
       /\ loop[k] \in {"poll", "claim", "dead"} => held[k] = None
       /\ held[k] # None => held[k][2] <= attempts[held[k][1]]
       /\ loop[k] = "report" => \E h \in Handler : Reporting(h, k)
  /\ \A j, k \in Worker : loop[j] = "report" /\ loop[k] = "report" => j = k

LEMMA LiveIsHeld ==
  ASSUME SerialInv, NEW n \in Node, Live(n)
  PROVE  lease[n].by \in Worker /\ lease[n].token \in Nat
BY DEF SerialInv, TypeOK, OnlyLatestGrantIsLive, Live, Lease

LEMMA NoneIsNoPair ==
  ASSUME NEW n \in Node, NEW t \in Nat
  PROVE  <<n, t>> # None
<1>1. <<n, t>> \in Node \X Nat
  OBVIOUS
<1> QED BY <1>1, ProfileAssumption

(* A worker whose hands are empty has no lease.                             *)
LEMMA EmptyHands ==
  ASSUME SerialInv, Hands, NEW k \in Worker, held[k] = None, NEW n \in Node
  PROVE  ~(Live(n) /\ lease[n].by = k)
<1> SUFFICES ASSUME Live(n), lease[n].by = k PROVE FALSE
  OBVIOUS
<1>1. held[k] = <<n, lease[n].token>>
  BY DEF Hands, NoOrphanedLease
<1> QED BY <1>1, LiveIsHeld, NoneIsNoPair

(* No lease comes alive.                                                    *)
OnlyLoses ==
  /\ \A n \in Node :
       Live(n)' => Live(n) /\ lease'[n].by = lease[n].by /\ lease'[n].token = lease[n].token
  /\ attempts' = attempts

(* A step that changes no loop.                                             *)
LEMMA LoopsStand ==
  ASSUME Hands, OnlyLoses, UNCHANGED <<loop, held>>,
         \A k \in Worker : loop[k] = "report" => \E h \in Handler : Reporting(h, k)'
  PROVE  Hands'
<1>1. NoOrphanedLease'
  BY DEF Hands, NoOrphanedLease, OnlyLoses
<1> QED BY <1>1 DEF Hands, OnlyLoses

(* A loop that ends its turn, or begins one, with nothing in its hands.      *)
LEMMA LoopTurns ==
  ASSUME SerialInv, Hands, OnlyLoses, NEW k \in Worker, NEW l \in {"poll", "claim", "dead"},
         loop' = [loop EXCEPT ![k] = l], held' = [held EXCEPT ![k] = None],
         \A j \in Worker : loop[j] = "report" => j = k,
         \A n \in Node : ~(Live(n)' /\ lease'[n].by = k)
  PROVE  Hands'
<1>1. /\ loop' \in [Worker -> LoopState]
      /\ \A j \in Worker : loop'[j] = IF j = k THEN l ELSE loop[j]
  BY DEF Hands, LoopState
<1>2. /\ held' \in [Worker -> (Node \X Nat) \cup {None}]
      /\ \A j \in Worker : held'[j] = IF j = k THEN None ELSE held[j]
  BY DEF Hands
<1>3. \A n \in Node : Live(n)' => held'[lease'[n].by] = <<n, lease'[n].token>>
  <2> SUFFICES ASSUME NEW n \in Node, Live(n)'
               PROVE  held'[lease'[n].by] = <<n, lease'[n].token>>
    OBVIOUS
  <2>1. Live(n) /\ lease'[n].by = lease[n].by /\ lease'[n].token = lease[n].token
    BY DEF OnlyLoses
  <2>2. lease[n].by \in Worker
    BY <2>1, LiveIsHeld
  <2> QED BY <1>2, <2>1, <2>2 DEF Hands, NoOrphanedLease, OnlyLoses
<1>4. NoOrphanedLease'
  BY <1>2, <1>3 DEF Hands, NoOrphanedLease
<1> QED BY <1>1, <1>2, <1>4 DEF Hands, OnlyLoses

LEMMA HandsStep ==
  ASSUME OneHandler, SerialInv, SerialInv', Hands, WorkerNext
  PROVE  Hands'
<1> USE FleetAssumption, ProfileAssumption
<1>0. /\ TypeOK /\ call \in [Handler -> Call] /\ status \in [Node -> NodeStatus \cup {"absent"}]
      /\ lease \in [Node -> Lease \cup {None}] /\ attempts \in [Node -> Nat]
      /\ \A g, h \in Handler : g = h
  BY DEF SerialInv, TypeOK, OneHandler
<1>1. ASSUME NEW h \in Handler, call[h].at \in {"idle", "sweep"}
      PROVE  \A k \in Worker : loop[k] # "report"
  BY <1>0, <1>1 DEF Hands, Reporting
<1>2. ASSUME UNCHANGED <<status, attempts, lease>>
      PROVE  OnlyLoses
  BY <1>2 DEF OnlyLoses, Live
<1>3. ASSUME NEW n \in Node, NEW s \in NodeStatus \ {"leased"}, attempts' = attempts,
             status' = [status EXCEPT ![n] = s],
             lease' = lease \/ lease' = [lease EXCEPT ![n] = None]
      PROVE  OnlyLoses /\ ~Live(n)'
  BY <1>0, <1>3 DEF OnlyLoses, Live
<1>4. ASSUME NEW h \in Handler, NEW w \in Workflow, TakeIn(h, w)
      PROVE  Hands'
  <2>1. OnlyLoses
    BY <1>4 DEF TakeIn, Submit, OnlyLoses, Live, ReadyStatus
  <2> QED BY <1>1, <1>4, <2>1, LoopsStand DEF TakeIn, Submit
<1>5. ASSUME NEW h \in Handler, NEW n \in Node, Decide(h, n)
      PROVE  Hands'
  <2>1. OnlyLoses
    BY <1>3, <1>5 DEF Decide, Approve, Deny, NodeStatus
  <2> QED BY <1>1, <1>5, <2>1, LoopsStand DEF Decide, Approve, Deny
<1>6. ASSUME NEW n \in Node, Overrun(n)
      PROVE  Hands'
  <2>1. lease[n] \in Lease
    BY <1>0, <1>6 DEF Overrun, Lapse
  <2>2. /\ status' = status /\ attempts' = attempts /\ call' = call
        /\ lease' = [lease EXCEPT ![n].expired = TRUE]
        /\ UNCHANGED <<loop, held>>
    BY <1>6 DEF Overrun, Lapse
  <2>3. /\ lease'[n].expired = TRUE
        /\ \A m \in Node \ {n} : lease'[m] = lease[m]
    BY <1>0, <2>1, <2>2 DEF Lease
  <2>4. OnlyLoses
    BY <2>2, <2>3 DEF OnlyLoses, Live
  <2>5. \A h \in Handler, k \in Worker : Reporting(h, k) => Reporting(h, k)'
    BY <2>2, <2>4 DEF Reporting, OnlyLoses
  <2> QED BY <2>2, <2>4, <2>5, LoopsStand DEF Hands
<1>7. ASSUME NEW h \in Handler, Sweep(h)
      PROVE  Hands'
  <2>1. PICK n \in Node : SweepRow(h, n)
    BY <1>7 DEF Sweep
  <2>2. OnlyLoses
    BY <1>3, <2>1 DEF SweepRow, NodeStatus
  <2> QED BY <1>1, <1>7, <2>1, <2>2, LoopsStand DEF Sweep, SweepRow
<1>8. ASSUME NEW h \in Handler, NEW k \in Worker, Poll(h, k)
      PROVE  Hands'
  <2>1. /\ OnlyLoses /\ loop[k] = "poll" /\ loop' = [loop EXCEPT ![k] = "claim"]
        /\ call[h].at = "idle" /\ held' = held /\ lease' = lease /\ status' = status
    BY <1>2, <1>8 DEF Poll, LoopIs
  <2>2. held[k] = None /\ held' = [held EXCEPT ![k] = None]
    BY <2>1 DEF Hands
  <2>3. \A n \in Node : ~(Live(n) /\ lease[n].by = k)
    BY <2>2, EmptyHands
  <2>4. \A n \in Node : ~(Live(n)' /\ lease'[n].by = k)
    BY <2>1, <2>3 DEF Live
  <2>5. \A j \in Worker : loop[j] # "report"
    BY <1>1, <2>1
  <2> QED BY <2>1, <2>2, <2>4, <2>5, LoopTurns
<1>9. ASSUME NEW h \in Handler, NothingToDo(h)
      PROVE  Hands'
  <2> DEFINE k == call[h].worker
  <2>1. /\ OnlyLoses /\ loop[k] = "claim" /\ loop' = [loop EXCEPT ![k] = "poll"]
        /\ call[h].at = "sweep" /\ held' = held /\ lease' = lease /\ status' = status
    BY <1>2, <1>9 DEF NothingToDo, LoopIs, GrantNothing, Swept
  <2>2. k \in Worker
    BY <2>1 DEF SerialInv, CallsAreCurrent, RememberedLeaseIsCurrent
  <2>3. held[k] = None /\ held' = [held EXCEPT ![k] = None]
    BY <2>1, <2>2 DEF Hands
  <2>4. \A n \in Node : ~(Live(n) /\ lease[n].by = k)
    BY <2>2, <2>3, EmptyHands
  <2> HIDE DEF k
  <2>5. \A n \in Node : ~(Live(n)' /\ lease'[n].by = k)
    BY <2>1, <2>4 DEF Live
  <2>6. \A j \in Worker : loop[j] # "report"
    BY <1>1, <2>1
  <2> QED BY <2>1, <2>2, <2>3, <2>5, <2>6, LoopTurns
<1>10. ASSUME NEW h \in Handler, Granted(h)
       PROVE  Hands'
  <2> DEFINE k == call[h].worker
  <2>1. PICK n \in Node : /\ GrantLease(h, n)
                          /\ LoopIs(k, "claim", "handle")
                          /\ held' = [held EXCEPT ![k] = <<n, lease'[n].token>>]
    BY <1>10 DEF Granted
  <2>2. /\ call[h].at = "sweep" /\ status[n] = "queued" /\ loop[k] = "claim"
        /\ status' = [status EXCEPT ![n] = "leased"]
        /\ attempts' = [attempts EXCEPT ![n] = @ + 1]
        /\ lease' = [lease EXCEPT ![n] =
                       [by |-> k, token |-> attempts[n] + 1, expired |-> FALSE]]
    BY <2>1 DEF GrantLease, Swept, Eligible, LoopIs
  <2>3. k \in Worker
    BY <2>2 DEF SerialInv, CallsAreCurrent, RememberedLeaseIsCurrent
  <2>4. held[k] = None
    BY <2>2, <2>3 DEF Hands
  <2>5. /\ lease'[n].by = k /\ lease'[n].token = attempts[n] + 1
        /\ attempts'[n] = attempts[n] + 1 /\ attempts[n] \in Nat
        /\ \A m \in Node \ {n} : lease'[m] = lease[m] /\ attempts'[m] = attempts[m]
                                 /\ status'[m] = status[m]
    BY <1>0, <2>2
  <2> HIDE DEF k
  <2>6. /\ held' \in [Worker -> (Node \X Nat) \cup {None}]
        /\ \A j \in Worker : held'[j] = IF j = k THEN <<n, attempts[n] + 1>> ELSE held[j]
    BY <2>1, <2>3, <2>5 DEF Hands
  <2>7. /\ loop' \in [Worker -> LoopState]
        /\ \A j \in Worker : loop'[j] = IF j = k THEN "handle" ELSE loop[j]
    BY <2>1, <2>3 DEF Hands, LoopIs, LoopState
  <2>8. \A j \in Worker : held[j] # None => held[j][2] <= attempts[held[j][1]]
    BY DEF Hands
  <2>9. ASSUME NEW j \in Worker, held'[j] # None
        PROVE  held'[j][2] <= attempts'[held'[j][1]]
    <3>1. CASE j = k
      BY <2>5, <2>6, <3>1
    <3>2. CASE j # k
      <4>1. held[j] \in Node \X Nat /\ held'[j] = held[j]
        BY <2>6, <2>9, <3>2 DEF Hands
      <4>2. PICK m \in Node, t \in Nat : held[j] = <<m, t>>
        BY <4>1
      <4>3. t <= attempts[m] /\ attempts[m] \in Nat
        BY <1>0, <2>8, <2>9, <4>1, <4>2
      <4>4. attempts[m] <= attempts'[m] /\ attempts'[m] \in Nat
        BY <2>5, <4>3
      <4> QED BY <4>1, <4>2, <4>3, <4>4
    <3> QED BY <3>1, <3>2
  <2>10. ASSUME NEW j \in Worker, j # k
         PROVE  held[j] # <<n, attempts[n] + 1>>
    <3> SUFFICES ASSUME held[j] = <<n, attempts[n] + 1>>
                 PROVE  FALSE
      OBVIOUS
    <3>1. held[j] # None
      BY <2>5, NoneIsNoPair
    <3>2. held[j][1] = n /\ held[j][2] = attempts[n] + 1
      OBVIOUS
    <3>3. held[j][2] <= attempts[held[j][1]]
      BY <2>8, <3>1
    <3> HIDE DEF Hands
    <3> QED BY <2>5, <3>2, <3>3
  <2>11. ASSUME NEW m \in Node, Live(m)'
         PROVE  held'[lease'[m].by] = <<m, lease'[m].token>>
    <3>1. CASE m = n
      BY <2>3, <2>5, <2>6, <3>1
    <3>2. CASE m # n
      <4>1. Live(m) /\ lease'[m] = lease[m]
        BY <2>5, <2>11, <3>2 DEF Live
      <4>2. lease[m].by \in Worker /\ held[lease[m].by] = <<m, lease[m].token>>
            /\ lease[m].token \in Nat
        BY <4>1, LiveIsHeld DEF Hands, NoOrphanedLease
      <4>3. lease[m].by # k
        BY <2>3, <2>4, <4>1, EmptyHands
      <4> QED BY <2>6, <4>1, <4>2, <4>3
    <3> QED BY <3>1, <3>2
  <2>12. NoOrphanedLease'
    BY <2>6, <2>10, <2>11 DEF Hands, NoOrphanedLease
  <2>13. \A j \in Worker : loop'[j] # "report"
    BY <1>1, <2>2, <2>7
  <2>14. \A j \in Worker : loop'[j] \in {"poll", "claim", "dead"} => held'[j] = None
    BY <2>6, <2>7 DEF Hands
  <2> QED BY <2>6, <2>7, <2>9, <2>12, <2>13, <2>14 DEF Hands
<1>11. ASSUME NEW h \in Handler, NEW k \in Worker, ReportResult(h, k) \/ ReportError(h, k)
       PROVE  Hands'
  <2>1. PICK n \in Node : Live(n) /\ lease[n].by = k /\ held[k] = <<n, lease[n].token>>
    BY <1>11 DEF ReportResult, ReportError, StillLeased
  <2>2. held[k][1] = n
    BY <2>1
  <2>3. BeginComplete(h, n) \/ BeginFail(h, n, TRUE)
    BY <1>11, <2>2 DEF ReportResult, ReportError
  <2>4. /\ OnlyLoses /\ call[h].at = "idle"
        /\ \E at \in {"complete", "retry", "fail"} :
              call' = [call EXCEPT ![h] = Amid(at, n, lease[n].token, {})]
    BY <1>2, <2>3 DEF BeginComplete, BeginFail
  <2>5. loop[k] = "handle" /\ loop' = [loop EXCEPT ![k] = "report"] /\ held' = held
    BY <1>11 DEF ReportResult, ReportError, LoopIs
  <2>6. Reporting(h, k)'
    BY <1>0, <2>1, <2>4, <2>5 DEF Reporting, Amid
  <2>7. /\ loop' \in [Worker -> LoopState]
        /\ \A j \in Worker : loop'[j] = IF j = k THEN "report" ELSE loop[j]
    BY <2>5 DEF Hands, LoopState
  <2>8. \A j \in Worker : loop[j] # "report"
    BY <1>1, <2>4
  <2>9. NoOrphanedLease'
    BY <2>4, <2>5 DEF Hands, NoOrphanedLease, OnlyLoses
  <2> QED BY <2>4, <2>5, <2>6, <2>7, <2>8, <2>9 DEF Hands, OnlyLoses
<1>12. ASSUME NEW h \in Handler, NEW k \in Worker, LoseLease(h, k) \/ ResultRejectedLate(h, k)
       PROVE  Hands'
  <2>1. /\ OnlyLoses /\ status' = status /\ lease' = lease
        /\ loop' = [loop EXCEPT ![k] = "dead"] /\ held' = [held EXCEPT ![k] = None]
        /\ ~StillLeased(k)
    BY <1>2, <1>12 DEF LoseLease, ResultRejectedLate, LoopIs, vars
  <2>2. \A n \in Node : ~(Live(n) /\ lease[n].by = k)
    BY <2>1, LiveIsHeld DEF StillLeased, Hands, NoOrphanedLease
  <2>3. \A j \in Worker : loop[j] = "report" => j = k
    BY <1>1, <1>12 DEF LoseLease, ResultRejectedLate, LoopIs, Hands
  <2> QED BY <2>1, <2>2, <2>3, LoopTurns DEF Live
<1>13. ASSUME NEW h \in Handler, NEW k \in Worker, ResultRejected(h, k)
       PROVE  Hands'
  <2> DEFINE n == call[h].node
  <2>1. /\ OnlyLoses /\ UNCHANGED <<loop, held>> /\ loop[k] = "report" /\ call[h].at = "complete"
        /\ \E at \in {"retry", "fail"} :
              call' = [call EXCEPT ![h] = Amid(at, n, lease[n].token, {})]
    BY <1>2, <1>13 DEF ResultRejected
  <2>2. lease[n].token = call[h].token
    BY <2>1 DEF SerialInv, CallsAreCurrent, RememberedLeaseIsCurrent
  <2>3. held[k] = <<n, lease[n].token>>
    BY <1>0, <2>1, <2>2 DEF Hands, Reporting
  <2>4. Reporting(h, k)'
    BY <1>0, <2>1, <2>3 DEF Reporting, Amid
  <2>5. \A j \in Worker : loop[j] = "report" => j = k
    BY <2>1 DEF Hands
  <2> QED BY <2>1, <2>4, <2>5, LoopsStand
<1>14. ASSUME NEW h \in Handler, Commit(h)
       PROVE  Hands'
  <2> DEFINE at == call[h].at
  <2>0. PICK n : n = call[h].node
    OBVIOUS
  \* A commit takes the lease of the row or comes after that.
  <2>1. /\ OnlyLoses
        /\ \/ at \in {"complete", "retry", "fail"} /\ n \in Node /\ ~Live(n)'
           \/ at \in {"advance", "unblock", "close", "abort"}
        /\ \/ call'[h].at \in {"advance", "unblock", "close", "abort"}
           \/ call'[h].at = "idle"
    <3>1. CASE CommitCompletion(h) \/ CommitRetry(h) \/ CommitFailure(h)
      <4>1. /\ at \in {"complete", "retry", "fail"} /\ attempts' = attempts
            /\ \E s \in {"completed", "queued", "failed"} : status' = [status EXCEPT ![n] = s]
            /\ lease' = [lease EXCEPT ![n] = None]
            /\ call' = [call EXCEPT ![h] = Idle] \/ call' = [call EXCEPT ![h] = Amid("advance", n, 0, {})]
               \/ call' = [call EXCEPT ![h] = Amid("abort", n, 0, {})]
        BY <2>0, <3>1 DEF CommitCompletion, CommitRetry, CommitFailure
      <4>2. n \in Node
        BY <2>0, <4>1 DEF SerialInv, CallsAreCurrent, RememberedLeaseIsCurrent
      <4>3. OnlyLoses /\ ~Live(n)'
        <5>1. {"completed", "queued", "failed"} \subseteq NodeStatus \ {"leased"}
          BY DEF NodeStatus
        <5> QED BY <1>3, <4>1, <4>2, <5>1
      <4>4. call'[h].at \in {"advance", "abort", "idle"}
        BY <1>0, <4>1 DEF Amid, Idle
      <4> QED BY <4>1, <4>2, <4>3, <4>4
    <3>2. CASE ReadReady(h) \/ ReadRemaining(h) \/ CloseWorkflow(h) \/ AbortWorkflow(h)
      <4>1. OnlyLoses /\ at \in {"advance", "unblock", "close", "abort"}
        BY <1>2, <3>2 DEF ReadReady, ReadRemaining, CloseWorkflow, AbortWorkflow
      <4>2. call'[h].at \in {"unblock", "close", "idle"}
        BY <1>0, <3>2 DEF ReadReady, ReadRemaining, CloseWorkflow, AbortWorkflow, Amid, Idle
      <4> QED BY <4>1, <4>2
    <3>3. CASE \E m \in Node : Unblock(h, m)
      <4>1. PICK m \in Node : Unblock(h, m)
        BY <3>3
      <4>2. OnlyLoses
        BY <1>3, <4>1 DEF Unblock, ReadyStatus, NodeStatus
      <4>3. at = "unblock" /\ call'[h].at = "unblock"
        BY <1>0, <4>1 DEF Unblock, Amid
      <4> QED BY <4>2, <4>3
    <3> QED BY <1>14, <3>1, <3>2, <3>3 DEF Commit, CompleteStep, FailStep
  \* After it, whoever was reporting holds no lease that is alive.
  <2>2. ASSUME NEW k \in Worker, loop[k] = "report", NEW m \in Node
        PROVE  ~(Live(m)' /\ lease'[m].by = k)
    <3> SUFFICES ASSUME Live(m)', lease'[m].by = k
                 PROVE  FALSE
      OBVIOUS
    <3>1. Live(m) /\ lease[m].by = k
      BY <2>1 DEF OnlyLoses
    <3>2. held[k] = <<m, lease[m].token>>
      BY <3>1 DEF Hands, NoOrphanedLease
    <3>3. Reporting(h, k)
      BY <1>0, <2>2 DEF Hands
    <3>4. held[k] = <<n, call[h].token>>
      BY <2>0, <2>1, <3>1, <3>3 DEF Reporting
    <3>5. m = n
      BY <3>2, <3>4
    <3>6. at \in {"complete", "retry", "fail"}
      BY <3>1, <3>3 DEF Reporting
    <3>7. ~Live(n)'
      BY <2>1, <3>6
    <3> QED BY <3>5, <3>7
  <2>3. CASE call'[h].at # "idle"
    <3>1. \A k \in Worker : loop[k] = "report" => Reporting(h, k)'
      BY <1>14, <2>1, <2>2, <2>3 DEF Reporting, Commit
    <3> QED BY <1>14, <2>1, <2>3, <3>1, LoopsStand DEF Commit
  <2>4. CASE call'[h].at = "idle"
    <3>1. CASE \E k \in Worker : LoopIs(k, "report", "poll") /\ held' = [held EXCEPT ![k] = None]
      <4>1. PICK k \in Worker : /\ loop[k] = "report" /\ loop' = [loop EXCEPT ![k] = "poll"]
                                /\ held' = [held EXCEPT ![k] = None]
        BY <3>1 DEF LoopIs
      <4>2. \A j \in Worker : loop[j] = "report" => j = k
        BY <4>1 DEF Hands
      <4> QED BY <2>1, <2>2, <4>1, <4>2, LoopTurns
    <3>2. CASE (\A k \in Worker : loop[k] # "report") /\ UNCHANGED <<loop, held>>
      BY <2>1, <3>2, LoopsStand
    <3> QED BY <1>14, <2>4, <3>1, <3>2 DEF Commit
  <2> QED BY <2>3, <2>4
<1> QED
  BY <1>4, <1>5, <1>6, <1>7, <1>8, <1>9, <1>10, <1>11, <1>12, <1>13, <1>14
     DEF WorkerNext, WorkerStep, CallStep

(* NoOrphanedLease: a lease that is still valid is in the hands of the       *)
(* worker it names, and of nobody else, for any number of workers and nodes *)
(* (run_once, claim, complete, fail).                                       *)
THEOREM LeasesAreInHand == OneHandler => (WorkerSpec => []NoOrphanedLease)
<1> SUFFICES ASSUME OneHandler
             PROVE  WorkerSpec => []NoOrphanedLease
  OBVIOUS
<1>1. OneHandler
  OBVIOUS
<1>2. Init => SerialInv
  BY SerialInit
<1>3. WorkerInit => SerialInv /\ Hands
  <2> SUFFICES ASSUME WorkerInit PROVE SerialInv /\ Hands
    OBVIOUS
  <2>1. SerialInv
    BY <1>2 DEF WorkerInit
  <2>2. \A n \in Node : ~Live(n)
    BY DEF WorkerInit, Init, Live
  <2> QED BY <2>1, <2>2 DEF WorkerInit, Hands, NoOrphanedLease, LoopState
<1>4. SerialInv /\ Hands /\ [WorkerNext]_workerVars => SerialInv' /\ Hands'
  <2> SUFFICES ASSUME SerialInv, Hands, [WorkerNext]_workerVars
               PROVE  SerialInv' /\ Hands'
    OBVIOUS
  <2>1. CASE WorkerNext
    <3>1. SerialInv'
      BY <1>1, <2>1, WorkerKeepsSerial
    <3> QED BY <1>1, <2>1, <3>1, HandsStep
  <2>2. CASE UNCHANGED workerVars
    <3>1. UNCHANGED vars /\ UNCHANGED <<loop, held>>
      BY <2>2 DEF workerVars
    <3>2. SerialInv'
      BY <1>1, <3>1, SerialStep
    <3>3. OnlyLoses /\ \A h \in Handler, k \in Worker : Reporting(h, k)' <=> Reporting(h, k)
      BY <3>1 DEF vars, OnlyLoses, Reporting, Live
    <3>4. Hands'
      BY <3>1, <3>3, LoopsStand DEF Hands
    <3> QED BY <3>2, <3>4
  <2> QED BY <2>1, <2>2
<1>5. Hands => NoOrphanedLease
  BY DEF Hands
<1> QED
  BY <1>3, <1>4, <1>5, PTL DEF WorkerSpec
=============================================================================
