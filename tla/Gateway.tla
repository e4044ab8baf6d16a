------------------------------- MODULE Gateway -------------------------------
(***************************************************************************)
(* The WebSocket endpoint of echoweave/app.py, from the admission of a     *)
(* connection to the end of its cleanup task, on top of RuntimeFactory.    *)
(*                                                                         *)
(* A connection stands at an await: `open` for the next message without a  *)
(* session, `acquiring` for the factory, `starting` for the start of its   *)
(* candidate session, `abandoning` for the bounded close of a candidate    *)
(* that did not start, `active` for the next message of its session,       *)
(* `cleanup` for its cleanup task.  Emissions only enqueue, and the bodies *)
(* under connection_lock contain no await.                                 *)
(***************************************************************************)
EXTENDS RuntimeFactory

CONSTANTS MaxConnections,   \* max_connections_per_ip; all connections are of one host
          MaxSessions,      \* max_active_sessions
          MaxAttempts       \* start messages a connection may send: 3 in the code

ASSUME GatewayAssumption ==
  /\ IsFiniteSet(Client)
  /\ MaxConnections \in Nat /\ MaxSessions \in Nat /\ MaxAttempts \in Nat

VARIABLES
  conn,         \* where each connection stands
  attempts,     \* start_attempts
  reserved,     \* admission_reserved
  counted,      \* active_metric_registered
  shut,         \* the close of its session: "no", its task is "created", it "runs", or
                \* it was "cut" off and nobody goes on with it
  lifespan,     \* where the application is: it "starts", "warms", "serves", "stops"
  connections,  \* active_connections of the host
  pending,      \* pending_sessions
  active        \* active_sessions

gatewayVars ==
  <<conn, attempts, reserved, counted, shut, connections, pending, active, lifespan>>
entryVars == <<factoryVars, gatewayVars>>

InLoop == {"open", "acquiring", "starting", "releasing", "abandoning", "active"}

GatewayTypeOK ==
  /\ FactoryTypeOK
  /\ conn \in [Client -> InLoop \cup {"new", "cleanup", "gone"}]
  /\ attempts \in [Client -> Nat]
  /\ reserved \in [Client -> BOOLEAN]
  /\ counted \in [Client -> BOOLEAN]
  /\ shut \in [Client -> {"no", "created", "runs", "cut"}]
  /\ lifespan \in {"starts", "warms", "serves", "stops"}
  /\ connections \in Nat /\ pending \in Nat /\ active \in Nat

GatewayInit ==
  /\ FactoryInit
  /\ conn = [c \in Client |-> "new"]
  /\ attempts = [c \in Client |-> 0]
  /\ reserved = [c \in Client |-> FALSE]
  /\ counted = [c \in Client |-> FALSE]
  /\ shut = [c \in Client |-> "no"]
  /\ lifespan = "starts"
  /\ connections = 0 /\ pending = 0 /\ active = 0

GoesTo(c, place) == conn' = [conn EXCEPT ![c] = place]
Less(n) == IF n = 0 THEN 0 ELSE n - 1

\* reserve_session_capacity, release_pending_reservation
Reserves(c) ==
  /\ pending' = pending + 1
  /\ reserved' = [reserved EXCEPT ![c] = TRUE]

Releases(c) ==
  /\ pending' = IF reserved[c] THEN Less(pending) ELSE pending
  /\ reserved' = [reserved EXCEPT ![c] = FALSE]

-----------------------------------------------------------------------------
(* Admission                                                               *)

Connect(c) ==
  /\ conn[c] = "new" /\ lifespan = "serves"
  /\ IF connections >= MaxConnections
     THEN GoesTo(c, "gone") /\ UNCHANGED connections
     ELSE GoesTo(c, "open") /\ connections' = connections + 1
  /\ UNCHANGED <<factoryVars, attempts, reserved, counted, shut, pending, active, lifespan>>

\* The finalizer up to the await of its cleanup task: the slot is given back, and
\* what was reserved unless the session counts as active.  `closing` says what
\* becomes of the close of its session.  What the handler counted is gone.
Finalizes(c, closing) ==
  /\ GoesTo(c, "cleanup")
  /\ attempts' = [attempts EXCEPT ![c] = 0]
  /\ connections' = Less(connections)
  /\ IF counted[c] THEN UNCHANGED <<pending, reserved>> ELSE Releases(c)
  /\ shut' = [shut EXCEPT ![c] = closing]
  /\ UNCHANGED <<counted, active, lifespan>>

\* A start message that is refused before it reserves, or whose persona the
\* registry then refuses: negotiation, authentication, disclosure, token.
StartRefused(c) ==
  /\ conn[c] = "open" /\ attempts[c] < MaxAttempts
  /\ attempts' = [attempts EXCEPT ![c] = @ + 1]
  /\ UNCHANGED <<factoryVars, conn, reserved, counted, shut, connections, pending, active, lifespan>>

HasCapacity == active + pending < MaxSessions

\* A start message that gets as far as the factory, and waits there or is given
\* what is ready at once.
StartAcquires(c) ==
  /\ conn[c] = "open" /\ attempts[c] < MaxAttempts /\ HasCapacity
  /\ attempts' = [attempts EXCEPT ![c] = @ + 1]
  /\ Reserves(c)
  /\ BeginCreate(c)
  /\ GoesTo(c, IF holds'[c] # 0 THEN "starting" ELSE "acquiring")
  /\ UNCHANGED <<counted, shut, connections, active, lifespan>>

\* The factory is closing: RuntimeUnavailable without a wait.
StartFindsClosing(c) ==
  /\ conn[c] = "open" /\ attempts[c] < MaxAttempts /\ HasCapacity /\ Closing
  /\ attempts' = [attempts EXCEPT ![c] = @ + 1]
  /\ UNCHANGED <<factoryVars, conn, reserved, counted, shut, connections, pending, active, lifespan>>

\* server_overloaded, start_attempt_limit
StartTurnedAway(c) ==
  /\ conn[c] = "open"
  /\ \/ attempts[c] < MaxAttempts /\ ~HasCapacity
     \/ attempts[c] >= MaxAttempts
  /\ Finalizes(c, "no")
  /\ UNCHANGED factoryVars

-----------------------------------------------------------------------------
(* Acquisition and start                                                   *)

AcquireContinues(c) ==
  /\ conn[c] = "acquiring"
  /\ ClaimAgain(c)
  /\ GoesTo(c, IF holds'[c] # 0 THEN "starting" ELSE "acquiring")
  /\ UNCHANGED <<attempts, reserved, counted, shut, connections, pending, active, lifespan>>

\* Mutant: the handler of RuntimeUnavailable forgets the reservation.
AcquireFailsKeeping(c) ==
  /\ conn[c] = "acquiring"
  /\ Unavailable(c)
  /\ reserved' = [reserved EXCEPT ![c] = FALSE]
  /\ GoesTo(c, "open")
  /\ UNCHANGED <<attempts, counted, shut, connections, pending, active, lifespan>>

AcquireFails(c) ==
  /\ conn[c] = "acquiring"
  /\ Unavailable(c)
  /\ Releases(c)
  /\ GoesTo(c, "open")
  /\ UNCHANGED <<attempts, counted, shut, connections, active, lifespan>>

AcquireExpires(c) ==
  /\ conn[c] = "acquiring"
  /\ WaitExpires(c)
  /\ Releases(c)
  /\ GoesTo(c, "open")
  /\ UNCHANGED <<attempts, counted, shut, connections, active, lifespan>>

AcquireCancelled(c) ==
  /\ conn[c] = "acquiring"
  /\ WaitCancelled(c)
  /\ Finalizes(c, "no")

\* activate_pending_reservation
StartSucceeds(c) ==
  /\ conn[c] = "starting"
  /\ GoesTo(c, "active")
  /\ Releases(c)
  /\ active' = active + 1
  /\ counted' = [counted EXCEPT ![c] = TRUE]
  /\ UNCHANGED <<factoryVars, attempts, shut, connections, lifespan>>

\* start() times out or raises: the handler creates the close task and awaits it.
StartFails(c) ==
  /\ conn[c] = "starting"
  /\ GoesTo(c, "abandoning")
  /\ shut' = [shut EXCEPT ![c] = "created"]
  /\ UNCHANGED <<factoryVars, attempts, reserved, counted, connections, pending, active, lifespan>>

\* RealtimeSession() raises: the handler awaits release(adapters), which closes
\* them in the handler's own task.
ConstructionFails(c) ==
  /\ conn[c] = "starting" /\ shut[c] = "no"
  /\ GoesTo(c, "releasing")
  /\ UNCHANGED <<factoryVars, attempts, reserved, counted, shut, connections, pending, active, lifespan>>

Released(c) ==
  /\ conn[c] = "releasing"
  /\ Dispose(c)
  /\ Finalizes(c, "no")

\* Its budget ends, or the handler is cancelled, in the middle of the release.
ReleaseIsCut(c) ==
  /\ conn[c] = "releasing"
  /\ Finalizes(c, "cut")
  /\ UNCHANGED factoryVars

\* The candidate is handed to the finalizer, whose cleanup task closes it.
StartCancelled(c) ==
  /\ conn[c] = "starting"
  /\ Finalizes(c, "runs")
  /\ UNCHANGED factoryVars

CloseTaskBegins(c) ==
  /\ shut[c] = "created"
  /\ shut' = [shut EXCEPT ![c] = "runs"]
  /\ UNCHANGED <<factoryVars, conn, attempts, reserved, counted, connections, pending, active, lifespan>>

\* The handler has closed the candidate, or its budget has ended, and leaves.
Abandoned(c) ==
  /\ conn[c] = "abandoning" /\ shut[c] # "created"
  /\ Finalizes(c, shut[c])
  /\ UNCHANGED factoryVars

\* A cancellation reaches the handler.  It cancels the close task, which goes on
\* behind its shield if it has begun and otherwise never begins.
AbandonCancelled(c) ==
  /\ conn[c] = "abandoning"
  /\ Finalizes(c, IF shut[c] = "created" THEN "cut" ELSE shut[c])
  /\ UNCHANGED factoryVars

-----------------------------------------------------------------------------
(* The end of a connection                                                 *)

\* stop, disconnect, deadline, transport failure, exception or cancellation
Leave(c) ==
  /\ conn[c] \in {"open", "active"}
  /\ Finalizes(c, IF conn[c] = "active" THEN "runs" ELSE "no")
  /\ UNCHANGED factoryVars

\* RealtimeSession._close_impl is done with the adapters.
SessionCloses(c) ==
  /\ shut[c] = "runs"
  /\ Dispose(c)
  /\ shut' = [shut EXCEPT ![c] = "no"]
  /\ UNCHANGED <<conn, attempts, reserved, counted, connections, pending, active, lifespan>>

\* The cleanup task has seen the session close or its budget end, has flushed and
\* stopped the pump, and its done callback runs.
CleanupDone(c) ==
  /\ conn[c] = "cleanup"
  /\ GoesTo(c, "gone")
  /\ active' = IF counted[c] THEN Less(active) ELSE active
  /\ counted' = [counted EXCEPT ![c] = FALSE]
  /\ UNCHANGED <<factoryVars, attempts, reserved, shut, connections, pending, lifespan>>

-----------------------------------------------------------------------------
(* The lifespan around the connections, and the factory's own tasks        *)

clientVars == <<conn, attempts, reserved, counted, shut, connections, pending, active>>

\* prepare() comes before the first connection; what it raises it swallows.
Warm ==
  /\ lifespan = "starts"
  /\ BeginCreate(Lifespan)
  /\ lifespan' = "warms"
  /\ UNCHANGED clientVars

WarmEnds ==
  /\ lifespan = "warms"
  /\ ClaimAgain(Lifespan) \/ Unavailable(Lifespan) \/ WaitExpires(Lifespan)
  /\ waiter'[Lifespan] = 0
  /\ lifespan' = "serves"
  /\ UNCHANGED clientVars

\* The server takes no new connections; it need not wait for those it has.
Stops ==
  /\ lifespan = "serves"
  /\ BeginClose
  /\ lifespan' = "stops"
  /\ UNCHANGED clientVars

FactoryWorks == BuildStep /\ UNCHANGED gatewayVars
ShutsDown == (Sweep \/ CleanupEnds \/ CloserWakes \/ CloserExpires) /\ UNCHANGED gatewayVars

Serves(c) ==
  \/ Connect(c)
  \/ StartRefused(c) \/ StartAcquires(c) \/ StartFindsClosing(c) \/ StartTurnedAway(c)
  \/ AcquireContinues(c) \/ AcquireFails(c) \/ AcquireExpires(c) \/ AcquireCancelled(c)
  \/ StartSucceeds(c) \/ StartFails(c) \/ StartCancelled(c)
  \/ ConstructionFails(c) \/ Released(c) \/ ReleaseIsCut(c)
  \/ CloseTaskBegins(c) \/ Abandoned(c) \/ AbandonCancelled(c)
  \/ Leave(c) \/ SessionCloses(c) \/ CleanupDone(c)

GatewayNext ==
  \/ Warm \/ WarmEnds \/ Stops \/ FactoryWorks \/ ShutsDown
  \/ \E c \in Client : Serves(c)

GatewaySpec == GatewayInit /\ [][GatewayNext]_entryVars

-----------------------------------------------------------------------------
(* Properties                                                              *)

\* The budget of model sessions is never exceeded, and the counters say what the
\* connections have taken: whoever is gone has given back everything, on every
\* path out of the endpoint (reserve_session_capacity, the finalizer).
CountsBalance ==
  /\ active + pending <= MaxSessions
  /\ connections <= MaxConnections
  /\ pending = Cardinality({c \in Client : reserved[c]})
  /\ active = Cardinality({c \in Client : counted[c]})
  /\ connections = Cardinality({c \in Client : conn[c] \in InLoop})
  /\ \A c \in Client : conn[c] = "gone" => ~reserved[c] /\ ~counted[c]

\* Adapters that a connection was given are inside the session budget, or are
\* being closed, or their close was cut off before it began: nobody runs a
\* session the gateway does not know of (activate_pending_reservation, the
\* handlers around candidate_session.start()).
RuntimesAreCounted ==
  \A c \in Client : holds[c] # 0 =>
    \/ conn[c] \in InLoop \cup {"cleanup"} /\ (reserved[c] \/ counted[c])
    \/ shut[c] \in {"runs", "cut"}

GatewayInv == GatewayTypeOK /\ CountsBalance /\ RuntimesAreCounted

\* docs/ARCHITECTURE.md:144: readiness reports whether the adapter set was
\* constructed, so a published set means ready (_run_build, create).
PreparedMeansReady == prepared # 0 /\ ~Closing => readiness = "ready"

=============================================================================
