----------------------------- MODULE HarnessLab -----------------------------
(***************************************************************************)
(* A run of harnesslab/runtime.py, the event bus of events.py it publishes *)
(* to and the event streams of api.py that read it.                        *)
(*                                                                         *)
(* EventBus.publish takes its lock without suspending, so an emission is   *)
(* one step; so is the registration of a subscriber.  The run suspends in  *)
(* adapter.complete and in a tool, where it can be cancelled.              *)
(***************************************************************************)
EXTENDS TraceContract, SequencesExt

CONSTANTS Reader,           \* connections to /api/runs/{id}/events
          MaxTurns,         \* max_turns
          MaxCalls          \* calls of one model turn

\* What a call's tool does: it is not registered, it writes, or its handler returns
\* or raises.
ToolKinds == {"unknown", "writes", "returns", "raises"}

ASSUME HarnessAssumption == MaxTurns \in Nat \ {0} /\ MaxCalls \in Nat

VARIABLES
  log,          \* EventBus._events of the run
  lab,          \* the run: status, where it is, its turn and the calls it still has to do
  executed,     \* history: the calls whose handler ran, and where in the log each was approved
  reader        \* a connection: at, after, the backlog and its queue, what it was sent

harnessVars == <<log, lab, executed, reader>>

Stream(at, after, backlog, queue, sent) ==
  [at |-> at, after |-> after, backlog |-> backlog, queue |-> queue, sent |-> sent]

HarnessInit ==
  /\ log = <<>>
  /\ lab = [status |-> "none", at |-> "none", turn |-> 0, calls |-> <<>>]
  /\ executed = <<>>
  /\ reader = [r \in Reader |-> Stream("none", 0, <<>>, <<>>, <<>>)]

\* Mutant: a subscriber is registered after its backlog has been sent.
EmitToLive(events) ==
  /\ log' = log \o events
  /\ reader' = [r \in Reader |->
                  IF reader[r].at = "live"
                  THEN [reader[r] EXCEPT !.queue = @ \o
                          [i \in DOMAIN events |-> Len(log) + i]]
                  ELSE reader[r]]

\* publish: a subscriber is in _subscribers from the registration to the `finally` of
\* subscribe, which a connection closed during the backlog does not reach.
Emit(events) ==
  /\ log' = log \o events
  /\ reader' = [r \in Reader |->
                  IF reader[r].at \in {"backlog", "live", "leaked"}
                  THEN [reader[r] EXCEPT !.queue = @ \o
                          [i \in DOMAIN events |-> Len(log) + i]]
                  ELSE reader[r]]

Ends(status, events) ==
  /\ Emit(Append(events, Event(status, NoCall)))
  /\ lab' = [lab EXCEPT !.status = status, !.at = "ended", !.calls = <<>>]

\* run, up to the first adapter.complete
RunBegins ==
  /\ lab.at = "none"
  /\ lab' = [status |-> "running", at |-> "model", turn |-> 1, calls |-> <<>>]
  /\ Emit(<<Event("model", NoCall), Event("model", NoCall)>>)
  /\ UNCHANGED executed

\* adapter.complete returns an answer, returns calls, or raises.
ModelAnswers ==
  /\ lab.at = "model"
  /\ Ends("completed", <<Event("model", NoCall)>>)
  /\ UNCHANGED executed

ModelCalls ==
  /\ lab.at = "model"
  /\ \E calls \in BoundedSeq([id : CallId, kind : ToolKinds], MaxCalls) :
       /\ calls # <<>>
       /\ lab' = [lab EXCEPT !.at = "calls", !.calls = calls]
  /\ Emit(<<Event("model", NoCall)>>)
  /\ UNCHANGED executed

ModelFails == lab.at = "model" /\ Ends("failed", <<>>) /\ UNCHANGED executed

\* _execute_tool, up to the handler: ToolRegistry.get, the request, the policy
CallBegins ==
  /\ lab.at = "calls" /\ lab.calls # <<>>
  /\ LET call == Head(lab.calls)
     IN \/ /\ call.kind = "unknown"
           /\ Ends("failed", <<>>) /\ UNCHANGED executed
        \/ /\ call.kind = "writes"
           /\ Ends("failed", <<Event("requested", call.id), Event("denied", call.id)>>)
           /\ UNCHANGED executed
        \/ /\ call.kind \in {"returns", "raises"}
           /\ Emit(<<Event("requested", call.id), Event("approved", call.id)>>)
           /\ lab' = [lab EXCEPT !.at = "tool"]
           /\ executed' = Append(executed, [call |-> call, approved |-> Len(log) + 2])

\* The handler returns, or raises out of _execute_tool into run.
ToolEnds ==
  /\ lab.at = "tool"
  /\ LET call == Head(lab.calls)
     IN \/ /\ call.kind = "returns"
           /\ Emit(<<Event("resulted", call.id)>>)
           /\ lab' = [lab EXCEPT !.at = "calls", !.calls = Tail(@)]
        \/ call.kind = "raises" /\ Ends("failed", <<>>)
  /\ UNCHANGED executed

TurnEnds ==
  /\ lab.at = "calls" /\ lab.calls = <<>>
  /\ IF lab.turn = MaxTurns THEN Ends("failed", <<>>)
     ELSE /\ Emit(<<Event("model", NoCall)>>)
          /\ lab' = [lab EXCEPT !.at = "model", !.turn = @ + 1]
  /\ UNCHANGED executed

\* The task is cancelled where it suspends: CancelledError passes `except Exception`.
RunCancelled ==
  /\ lab.at \in {"model", "tool"}
  /\ lab' = [lab EXCEPT !.at = "ended", !.calls = <<>>]
  /\ UNCHANGED <<log, executed, reader>>

\* subscribe: the backlog and the queue, under the lock
Connect(r) ==
  /\ lab.at # "none" /\ reader[r].at = "none"
  /\ \E after \in 0 .. Len(log) :
       reader' = [reader EXCEPT ![r] =
         Stream("backlog", after, [i \in 1 .. Len(log) - after |-> after + i], <<>>, <<>>)]
  /\ UNCHANGED <<log, lab, executed>>

\* Mutant: a failed run does not end the stream.
SendUntilCompleted(r, e) ==
  [reader[r] EXCEPT !.sent = Append(@, e),
                    !.at = IF log[e].type = "completed" THEN "closing" ELSE @]

SendTo(r, e) ==
  [reader[r] EXCEPT !.sent = Append(@, e),
                    !.at = IF log[e].type \in Terminals THEN "closing" ELSE @]

\* stream: one more event, and the end after a terminal one
SendBacklog(r) ==
  /\ reader[r].at = "backlog" /\ reader[r].backlog # <<>>
  /\ LET e == Head(reader[r].backlog)
     IN reader' = [reader EXCEPT ![r] =
          [SendTo(r, e) EXCEPT !.backlog = Tail(@),
                               !.at = IF @ = "closing" THEN "leaked" ELSE @]]
  /\ UNCHANGED <<log, lab, executed>>

BacklogEnds(r) ==
  /\ reader[r].at = "backlog" /\ reader[r].backlog = <<>>
  /\ reader' = [reader EXCEPT ![r].at = "live"]
  /\ UNCHANGED <<log, lab, executed>>

SendLive(r) ==
  /\ reader[r].at = "live" /\ reader[r].queue # <<>>
  /\ LET e == Head(reader[r].queue)
     IN reader' = [reader EXCEPT ![r] =
          [SendTo(r, e) EXCEPT !.queue = Tail(@),
                               !.at = IF @ = "closing" THEN "closed" ELSE @]]
  /\ UNCHANGED <<log, lab, executed>>

ReaderLeaves(r) ==
  /\ reader[r].at \in {"backlog", "live"}
  /\ reader' = [reader EXCEPT ![r].at = IF @ = "live" THEN "closed" ELSE "leaked"]
  /\ UNCHANGED <<log, lab, executed>>

HarnessNext ==
  \/ RunBegins \/ ModelAnswers \/ ModelCalls \/ ModelFails
  \/ CallBegins \/ ToolEnds \/ TurnEnds \/ RunCancelled
  \/ \E r \in Reader : Connect(r) \/ SendBacklog(r) \/ BacklogEnds(r) \/ SendLive(r)
                       \/ ReaderLeaves(r)

\* The tasks of the event loop run, and a reader that stays reads what it is sent (no
\* send has a timeout); models and tools may take for ever.
HarnessFairness ==
  /\ WF_harnessVars(CallBegins) /\ WF_harnessVars(TurnEnds)
  /\ \A r \in Reader : WF_harnessVars(SendBacklog(r) \/ BacklogEnds(r) \/ SendLive(r))

HarnessSpec == HarnessInit /\ [][HarnessNext]_harnessVars /\ HarnessFairness

-----------------------------------------------------------------------------

\* A handler runs once for each approval and after it (_execute_tool).
HandlersAreApproved ==
  /\ \A n \in DOMAIN executed :
       /\ executed[n].approved \in DOMAIN log
       /\ log[executed[n].approved] = Event("approved", executed[n].call.id)
       /\ n > 1 => executed[n - 1].approved < executed[n].approved
  /\ \A i \in DOMAIN log :
       log[i].type = "approved" => \E n \in DOMAIN executed : executed[n].approved = i

\* A run that ended by itself keeps the contract but for what its tools and its model
\* did: an approved call whose handler raised has no completion, and a call id that the
\* model used again is a duplicate (_execute_tool, run).
RunsKeepTheContract ==
  (/\ lab.status \in Terminals
   /\ \A c \in CallId : Cardinality(IndexesOf(log, {"requested"}, c)) <= 1)
  => TraceViolations(log) =
       {<<"missing_completion", executed[n].call.id>> :
          n \in {m \in DOMAIN executed : executed[m].call.kind = "raises"}}

\* A reader gets the events after the one it has, each once and in order, whenever it
\* came: what it was sent and what waits for it are the rest of the log (subscribe).
ReadersSeeTheLog ==
  \A r \in Reader : reader[r].at \in {"backlog", "live", "leaked"} =>
    LET all == reader[r].sent \o reader[r].backlog \o reader[r].queue
    IN all = [i \in 1 .. Len(log) - reader[r].after |-> reader[r].after + i]

\* What a client of the lab may rely on, with the contract of TraceContract.
LabInv ==
  ContractIsComplete /\ HandlersAreApproved /\ RunsKeepTheContract /\ ReadersSeeTheLog

\* The stream of a run that ends with an event ends for a reader that reads, unless the
\* reader had that event already (stream of api.py).
StreamsEnd ==
  \A r \in Reader :
    (/\ lab.at = "ended" /\ lab.status # "running"
     /\ reader[r].at \in {"backlog", "live"} /\ reader[r].after < Len(log))
    ~> reader[r].at \in {"closed", "leaked"}

=============================================================================
