----------------------------- MODULE EventFeed -----------------------------
(***************************************************************************)
(* The control plane's events: unified_events of evoagent_os/api.py puts   *)
(* those of three stores together, and event_stream and websocket_events   *)
(* poll it once a second and send what the connection has not seen.        *)
(*                                                                         *)
(* An event is its position in the order of created_at, which the model    *)
(* takes to be the order in which events are written.  unified_events and  *)
(* the writers run on one event loop, so that it reads all three stores at *)
(* one moment.                                                             *)
(***************************************************************************)
EXTENDS Integers, Sequences, FiniteSets, FiniteSetsExt

CONSTANTS Window,           \* unified_events(100)
          SeenLimit,        \* 2_000
          SeenKept,         \* 1_000
          MaxEvents         \* bounds the model

ASSUME FeedAssumption ==
  /\ Window \in Nat \ {0} /\ SeenKept \in Nat /\ SeenLimit \in Nat /\ MaxEvents \in Nat
  /\ SeenKept <= SeenLimit /\ Window <= SeenKept

Stores == {"control", "runtime", "fleet"}

VARIABLES
  stored,        \* of every event, the store that has it
  transport,    \* of the connection: event_stream or websocket_events
  seen,         \* the set `seen` of the connection
  sent,         \* history: the events that were ever sent
  batch,        \* history: those sent by the last poll, if it was the last step
  polled        \* history: the number of events at the last poll

feedVars == <<stored, transport, seen, sent, batch, polled>>

FeedInit ==
  /\ stored = <<>> /\ transport \in {"sse", "websocket"}
  /\ seen = {} /\ sent = {} /\ batch = {} /\ polled = 0

Happen ==
  /\ Len(stored) < MaxEvents
  /\ \E s \in Stores : stored' = Append(stored, s)
  /\ batch' = {}
  /\ UNCHANGED <<transport, seen, sent, polled>>

Of(s) == {e \in 1 .. Len(stored) : stored[e] = s}

\* ControlStore.events: ORDER BY seq DESC LIMIT
Newest(n, S) == {e \in S : Cardinality({f \in S : f > e}) < n}

\* Store.events of the runtime and of the fleet, with after = 0: ORDER BY seq LIMIT
Oldest(n, S) == {e \in S : Cardinality({f \in S : f < e}) < n}

Listed ==
  Newest(Window, Of("control")) \cup Oldest(Window, Of("runtime"))
    \cup Oldest(Window, Of("fleet"))

\* Mutant: one event less than the window.
LatestButOne == Newest(Window - 1, Listed)

\* unified_events(100)
Latest == Newest(Window, Listed)

\* One round of either loop; only event_stream cuts its set, and as a set has no
\* order, which events stay is arbitrary.
Poll ==
  /\ batch' = Latest \ seen
  /\ sent' = sent \cup batch'
  /\ LET all == seen \cup Latest
     IN IF transport = "sse" /\ Cardinality(all) > SeenLimit
        THEN seen' \in kSubset(SeenKept, all)
        ELSE seen' = all
  /\ polled' = Len(stored)
  /\ UNCHANGED <<stored, transport>>

FeedNext == Happen \/ Poll

FeedSpec == FeedInit /\ [][FeedNext]_feedVars

-----------------------------------------------------------------------------

\* The stores that give their oldest events still give this one.
Given(e) ==
  stored[e] = "control" \/ Cardinality({f \in 1 .. e - 1 : stored[f] = stored[e]}) < Window

\* What a connection receives (event_stream, websocket_events, unified_events).  New
\* events that their store still gives are all in the next poll unless there are more
\* than Window of them.  What is sent later than that is a repetition: an event that a
\* poll has left out never comes back into the list, so that none arrives out of order;
\* and only event_stream repeats one, once it has sent more than SeenLimit of them.
FeedIsHonest ==
  [][/\ polled' # polled /\ polled' - polled <= Window =>
          \A e \in polled + 1 .. polled' : Given(e)' => e \in batch'
     /\ \A e \in batch' : e <= polled =>
          e \in sent /\ transport = "sse" /\ Cardinality(sent) > SeenLimit]_feedVars

\* "Runtime events will appear here as work executes." (static/app.js:484, of the
\* activity that unified_events lists): the newest event of all is in the list.
RuntimeEventsAppear ==
  stored # <<>> /\ stored[Len(stored)] = "runtime" => Len(stored) \in Latest

=============================================================================
