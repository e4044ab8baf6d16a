----------------------------- MODULE FleetWorker -----------------------------
(***************************************************************************)
(* The in-process worker loop (services/fleet, worker.py) around Fleet.    *)
(* run_once registers, claims, awaits the handler and reports.  Only the   *)
(* await lets others run, so the loop is one action up to the call it      *)
(* opens on the orchestrator, and one when the handler returns or raises.  *)
(* Exceptions of complete are reported with fail inside the except block;  *)
(* an exception of fail itself leaves run_forever.                         *)
(***************************************************************************)
EXTENDS Fleet

CONSTANT Profile   (* worker -> its WorkerRegistration                      *)

ASSUME ProfileAssumption ==
  /\ Profile \in [Worker -> Registration]
  /\ None \notin Node \X Nat

VARIABLES
  loop,   (* what run_forever of each worker is doing                       *)
  held    (* the lease run_once holds: <<node, token>>, or None             *)

workerVars == <<vars, loop, held>>

LoopState == {"poll", "claim", "handle", "report", "dead"}

WorkerTypeOK ==
  /\ TypeOK
  /\ loop \in [Worker -> LoopState]
  /\ held \in [Worker -> (Node \X Nat) \cup {None}]

WorkerInit ==
  /\ Init
  /\ loop = [k \in Worker |-> "poll"]
  /\ held = [k \in Worker |-> None]

(* Nothing awaits between the calls of one loop turn.                       *)
LoopIs(k, before, after) == loop[k] = before /\ loop' = [loop EXCEPT ![k] = after]

(* The _lease check with the worker's own id and the token it holds.        *)
StillLeased(k) ==
  \E n \in Node : /\ Live(n)
                  /\ lease[n].by = k
                  /\ held[k] = <<n, lease[n].token>>

-----------------------------------------------------------------------------
(* Mutant: the loop polls again without awaiting its handler.               *)
PollWhileHandling(h, k) ==
  /\ call[h].at = "idle"
  /\ loop[k] \in {"poll", "handle"}
  /\ loop' = [loop EXCEPT ![k] = "claim"]
  /\ worker' = [worker EXCEPT ![k] = Profile[k]]
  /\ call' = [call EXCEPT ![h] = Sweeping(k, Workflow, {}, {})]
  /\ UNCHANGED <<workflow, created, status, attempts, lease, decision, held>>

(* register(self.registration), then claim up to its sweep.                 *)
Poll(h, k) ==
  /\ call[h].at = "idle"
  /\ LoopIs(k, "poll", "claim")
  /\ worker' = [worker EXCEPT ![k] = Profile[k]]
  /\ call' = [call EXCEPT ![h] =
                Sweeping(k, Workflow, {n \in ExpiredRows : Retryable(n)},
                         {n \in ExpiredRows : ~Retryable(n)})]
  /\ UNCHANGED <<workflow, created, status, attempts, lease, decision, held>>

Sweep(h) ==
  /\ \E n \in Node : SweepRow(h, n)
  /\ UNCHANGED <<loop, held>>

Granted(h) ==
  LET k == call[h].worker
  IN  \E n \in Node : /\ GrantLease(h, n)
                      /\ LoopIs(k, "claim", "handle")
                      /\ held' = [held EXCEPT ![k] = <<n, lease'[n].token>>]

(* claim returned None: run_forever sleeps for poll_seconds.                *)
NothingToDo(h) ==
  /\ GrantNothing(h)
  /\ LoopIs(call[h].worker, "claim", "poll")
  /\ UNCHANGED held

(* The handler returned a Completion, and complete passes the lease check.  *)
ReportResult(h, k) ==
  /\ LoopIs(k, "handle", "report")
  /\ StillLeased(k)
  /\ BeginComplete(h, held[k][1])
  /\ UNCHANGED held

(* The handler raised, and fail (retryable by default) passes the check.    *)
ReportError(h, k) ==
  /\ LoopIs(k, "handle", "report")
  /\ StillLeased(k)
  /\ BeginFail(h, held[k][1], TRUE)
  /\ UNCHANGED held

(* complete raised "exceeds node budget", so the except block calls fail.   *)
ResultRejected(h, k) ==
  LET n == call[h].node
  IN  /\ call[h].at = "complete"
      /\ loop[k] = "report"
      /\ StillLeased(k)
      /\ call' = [call EXCEPT ![h] =
                    Amid(IF Retryable(n) THEN "retry" ELSE "fail", n, lease[n].token, {})]
      /\ UNCHANGED <<workflow, created, status, attempts, lease, decision, worker, loop, held>>

(* The same, but the lease ran out between the two checks.                  *)
ResultRejectedLate(h, k) ==
  /\ call[h].at = "complete"
  /\ LoopIs(k, "report", "dead")
  /\ ~StillLeased(k)
  /\ call' = [call EXCEPT ![h] = Idle]
  /\ held' = [held EXCEPT ![k] = None]
  /\ UNCHANGED <<workflow, created, status, attempts, lease, decision, worker>>

(* complete, or fail called directly, finds no live lease; then fail in the *)
(* except block finds none either and its ValueError ends run_forever.      *)
LoseLease(h, k) ==
  /\ call[h].at = "idle"
  /\ LoopIs(k, "handle", "dead")
  /\ ~StillLeased(k)
  /\ held' = [held EXCEPT ![k] = None]
  /\ UNCHANGED vars

(* The commits of complete and fail; the last one ends the loop turn.       *)
Commit(h) ==
  /\ CompleteStep(h) \/ FailStep(h)
  /\ IF call'[h].at # "idle"
     THEN UNCHANGED <<loop, held>>
     ELSE \/ \E k \in Worker : /\ LoopIs(k, "report", "poll")
                               /\ held' = [held EXCEPT ![k] = None]
          \/ /\ \A k \in Worker : loop[k] # "report"
             /\ UNCHANGED <<loop, held>>

(* What others do while the loops await.                                    *)
Decide(h, n) == (Approve(h, n) \/ Deny(h, n)) /\ UNCHANGED <<loop, held>>

TakeIn(h, w) == Submit(h, w) /\ UNCHANGED <<loop, held>>

Overrun(n) == Lapse(n) /\ UNCHANGED <<loop, held>>

WorkerStep(h, k) ==
  Poll(h, k) \/ ReportResult(h, k) \/ ReportError(h, k) \/ LoseLease(h, k)

CallStep(h) ==
  \/ Sweep(h) \/ Granted(h) \/ NothingToDo(h)
  \/ (\E k \in Worker : ResultRejected(h, k) \/ ResultRejectedLate(h, k))
  \/ Commit(h)

WorkerNext ==
  \/ \E h \in Handler :
       \/ \E w \in Workflow : TakeIn(h, w)
       \/ \E n \in Node : Decide(h, n)
       \/ \E k \in Worker : WorkerStep(h, k)
       \/ CallStep(h)
  \/ \E n \in Node : Overrun(n)

(***************************************************************************)
(* Fairness.  The event loop runs its ready coroutines in arrival order,   *)
(* so a worker that can poll or report does so although others keep taking *)
(* turns (strong fairness), and a call that has begun ends.  The handler   *)
(* returns or raises, and the operator answers: assumptions on them.       *)
(***************************************************************************)
WorkerFairness ==
  /\ \A h \in Handler : WF_workerVars(CallStep(h))
  /\ \A k \in Worker : SF_workerVars(\E h \in Handler : WorkerStep(h, k))
  /\ \A n \in Node : SF_workerVars(\E h \in Handler : Decide(h, n))

WorkerSpec == WorkerInit /\ [][WorkerNext]_workerVars /\ WorkerFairness
-----------------------------------------------------------------------------
(* A lease that is still valid is in the hands of the worker it names, so   *)
(* the work behind it will be reported; and no lease is in two hands.       *)
NoOrphanedLease ==
  /\ \A n \in Node : Live(n) => held[lease[n].by] = <<n, lease[n].token>>
  /\ \A j, k \in Worker : held[j] # None /\ held[j] = held[k] => j = k

(* End to end: if handlers return before their deadlines, then capable      *)
(* workers and an operator who answers bring every workflow to a verdict.   *)
WorkflowSettles ==
  [](\A n \in Node : lease[n] # None => ~lease[n].expired) =>
    \A w \in Workflow : workflow[w] = "running" ~> workflow[w] \in {"completed", "failed"}

(* "handlers are an isolation boundary" (worker.py): no handler, however it *)
(* raises or delays, ends the worker's loop.                                *)
HandlersAreIsolated == \A k \in Worker : loop[k] # "dead"
=============================================================================
