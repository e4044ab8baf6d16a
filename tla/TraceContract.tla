--------------------------- MODULE TraceContract ---------------------------
(***************************************************************************)
(* The invariants of harnesslab/trace_contract.py (_trace_violations) as   *)
(* operators on an event log, and a log that grows in every way.           *)
(*                                                                         *)
(* An event is its type and its call_id; NoCall is an event without one,   *)
(* or with an empty one.  "model" stands for every event that is neither   *)
(* a tool event nor a terminal one.  The sequence numbers are the indices. *)
(***************************************************************************)
EXTENDS Integers, Sequences, FiniteSets

CONSTANTS CallId,           \* values of call_id
          MaxTrace          \* the longest log of this module's behaviours

NoCall == "no_call"
Terminals == {"completed", "failed", "cancelled"}
ToolEvents == {"requested", "approved", "denied", "resulted"}

ASSUME TraceAssumption == NoCall \notin CallId /\ MaxTrace \in Nat

Event(type, call) == [type |-> type, call |-> call]

\* The dictionaries requested, policy and resolved keep the last index of a call.
IndexesOf(log, types, c) == {i \in DOMAIN log : log[i].call = c /\ log[i].type \in types}
LastOf(log, types, c) ==
  LET at == IndexesOf(log, types, c)
  IN IF at = {} THEN 0 ELSE CHOOSE i \in at : \A j \in at : j <= i

TerminalIndexes(log) == {i \in DOMAIN log : log[i].type \in Terminals}

\* _trace_violations
TerminalViolations(log) ==
  IF Cardinality(TerminalIndexes(log)) # 1 THEN {<<"terminal_event_count", NoCall>>}
  ELSE IF log[Len(log)].type \notin Terminals THEN {<<"terminal_event_not_last", NoCall>>}
  ELSE {}

Violated(log, c) ==
  LET request == LastOf(log, {"requested"}, c)
      decision == LastOf(log, {"approved", "denied"}, c)
      result == LastOf(log, {"resulted"}, c)
      Twice(types) == Cardinality(IndexesOf(log, types, c)) > 1
  IN [duplicate_request |-> Twice({"requested"}),
      duplicate_policy |-> Twice({"approved", "denied"}),
      duplicate_completion |-> Twice({"resulted"}),
      missing_policy |-> request # 0 /\ decision = 0,
      policy_before_request |-> request # 0 /\ decision # 0 /\ decision <= request,
      missing_completion |->
        request # 0 /\ decision # 0 /\ log[decision].type = "approved" /\ result = 0,
      denied_tool_completed |->
        request # 0 /\ decision # 0 /\ log[decision].type = "denied" /\ result # 0,
      completion_before_policy |->
        request # 0 /\ result # 0 /\ decision # 0 /\ result <= decision,
      policy_without_request |-> request = 0 /\ decision # 0,
      completion_without_request |-> request = 0 /\ result # 0]

CallViolations(log) ==
  {<<v, c>> : v \in {"duplicate_request", "duplicate_policy", "duplicate_completion",
                     "missing_policy", "policy_before_request", "missing_completion",
                     "denied_tool_completed", "completion_before_policy",
                     "policy_without_request", "completion_without_request"},
              c \in CallId}

TraceViolations(log) ==
  TerminalViolations(log) \cup {x \in CallViolations(log) : Violated(log, x[2])[x[1]]}

-----------------------------------------------------------------------------

VARIABLE trace              \* a log, any log

TraceInit == trace = <<>>

Grow ==
  /\ Len(trace) < MaxTrace
  /\ \E type \in {"model"} \cup Terminals \cup ToolEvents, c \in CallId \cup {NoCall} :
       /\ type \notin ToolEvents => c = NoCall
       /\ trace' = Append(trace, Event(type, c))

TraceNext == Grow

\* The contract without a dictionary and without counting: one terminal event and
\* nothing after it, and the tool events of each call are a request, its decision, and
\* a result exactly when it was approved.
ToolEventsOf(log, c) == {i \in DOMAIN log : log[i].call = c /\ log[i].type \in ToolEvents}

WellFormed(log) ==
  /\ log # <<>> /\ log[Len(log)].type \in Terminals
  /\ \A i \in 1 .. Len(log) - 1 : log[i].type \notin Terminals
  /\ \A c \in CallId :
       \/ ToolEventsOf(log, c) = {}
       \/ \E i, j \in DOMAIN log :
            /\ ToolEventsOf(log, c) = {i, j} /\ i < j
            /\ log[i].type = "requested" /\ log[j].type = "denied"
       \/ \E i, j, k \in DOMAIN log :
            /\ ToolEventsOf(log, c) = {i, j, k} /\ i < j /\ j < k
            /\ log[i].type = "requested" /\ log[j].type = "approved"
            /\ log[k].type = "resulted"

\* The checks of _trace_violations together say what docs/TRACE_CONTRACT.md lists: a log
\* has no violation exactly when it is well formed.  Each check alone is far weaker,
\* and each looks at the last event of a kind only.
ContractIsComplete == (TraceViolations(trace) = {}) <=> WellFormed(trace)

=============================================================================
