--------------------------- MODULE ServingProofs ----------------------------
(***************************************************************************)
(* Proofs about the services around a realtime session: the factory of     *)
(* adapters, the gateway on top of it, its outbound pump and its limits,   *)
(* and the persona registry.                                               *)
(***************************************************************************)
EXTENDS Gateway, OutboundPump, GatewayLimits, Persona, FiniteSetTheorems,
        WellFoundedInduction, TLAPS

(* The factory                                                             *)

\* FactoryInv alone is not inductive: that a claim finds the build task's result
\* unowned needs that a build without a task has no number, and that the sweep of
\* aclose() loses nothing needs that nothing is published beside what it closes.
Custody ==
  /\ build.at = "none" <=> build.id = 0
  /\ cleanup # 0 => Closing /\ prepared = 0

FactoryIInv == FactoryTypeOK /\ FactoryInv /\ Custody

USE FactoryAssumption DEF Caller, Build, Closing, NoBuild

LEMMA FactoryInitSound == FactoryInit => FactoryIInv
BY DEF FactoryInit, FactoryIInv, FactoryTypeOK, FactoryInv, SingleOwner, OneResultOrBuild, Custody

\* A claim, by a new caller or by one that was overtaken, keeps the owner unique.
LEMMA ClaimKeeps ==
  ASSUME FactoryIInv, NEW c \in Caller, Claim(c)
  PROVE  FactoryIInv'
<1> USE DEF FactoryIInv
<1>1. CASE TakePrepared(c)
  <2>1. FactoryTypeOK'
    BY <1>1 DEF TakePrepared, Awaits, FactoryTypeOK
  <2>2. FactoryInv' /\ Custody'
    BY <1>1, <2>1 DEF TakePrepared, Awaits, FactoryTypeOK, FactoryInv, SingleOwner,
                      OneResultOrBuild, Custody, Claim
  <2> QED BY <2>1, <2>2
<1>2. CASE JoinBuild(c)
  BY <1>2 DEF JoinBuild, Awaits, FactoryTypeOK, FactoryInv, SingleOwner, OneResultOrBuild, Custody
<1>3. CASE StartBuild(c)
  <2>1. PICK b \in Build : /\ Unused(b)
                           /\ build' = [id |-> b, at |-> "building"]
                           /\ outcome' = [outcome EXCEPT ![b] = "pending"]
                           /\ Awaits(c, b)
    BY <1>3 DEF StartBuild
  <2>2. FactoryTypeOK'
    BY <1>3, <2>1 DEF StartBuild, Awaits, FactoryTypeOK
  <2>3. FactoryInv' /\ Custody'
    BY <1>3, <2>1, <2>2 DEF StartBuild, Unused, FactoryTypeOK, FactoryInv, SingleOwner,
                            OneResultOrBuild, Custody
  <2> QED BY <2>2, <2>3
<1> QED BY <1>1, <1>2, <1>3 DEF Claim

\* The build task: it publishes only beside nothing, and only while the factory is open.
LEMMA BuildKeeps == FactoryIInv /\ BuildStep => FactoryIInv'
<1> SUFFICES ASSUME FactoryIInv, BuildStep PROVE FactoryIInv'
  OBVIOUS
<1> USE DEF FactoryIInv, FactoryTypeOK, FactoryInv, SingleOwner, OneResultOrBuild, Custody
<1>1. CASE BuildFails
  BY <1>1 DEF BuildFails
<1>2. CASE BuildPublishes
  BY <1>2 DEF BuildPublishes
<1>3. CASE BuildIsNotWanted
  BY <1>3 DEF BuildIsNotWanted
<1>4. CASE BuildCloses
  BY <1>4 DEF BuildCloses
<1> QED BY <1>1, <1>2, <1>3, <1>4 DEF BuildStep

\* The shutdown: the sweep takes what is published, once.
LEMMA ShutdownKeeps == FactoryIInv /\ ShutdownStep => FactoryIInv'
<1> SUFFICES ASSUME FactoryIInv, ShutdownStep PROVE FactoryIInv'
  OBVIOUS
<1> USE DEF FactoryIInv, FactoryTypeOK, FactoryInv, SingleOwner, OneResultOrBuild, Custody
<1>1. CASE BeginClose
  BY <1>1 DEF BeginClose, HasOwnedResources
<1>2. CASE Sweep
  BY <1>2 DEF Sweep
<1>3. CASE CleanupEnds
  BY <1>3 DEF CleanupEnds
<1>4. CASE CloserWakes
  BY <1>4 DEF CloserWakes, HasOwnedResources
<1>5. CASE CloserExpires
  BY <1>5 DEF CloserExpires
<1> QED BY <1>1, <1>2, <1>3, <1>4, <1>5 DEF ShutdownStep

\* The caller's other steps: a wait that ends without adapters, and the release.
LEMMA CallerKeeps ==
  ASSUME FactoryIInv, NEW c \in Caller,
         Unavailable(c) \/ WaitExpires(c) \/ WaitCancelled(c) \/ Dispose(c)
  PROVE  FactoryIInv'
<1> USE DEF FactoryIInv, FactoryTypeOK, FactoryInv, SingleOwner, OneResultOrBuild, Custody
<1>1. CASE Unavailable(c)
  BY <1>1 DEF Unavailable, Awaits
<1>2. CASE WaitExpires(c)
  BY <1>2 DEF WaitExpires, Awaits
<1>3. CASE WaitCancelled(c)
  BY <1>3 DEF WaitCancelled, Awaits
<1>4. CASE Dispose(c)
  BY <1>4 DEF Dispose
<1> QED BY <1>1, <1>2, <1>3, <1>4

LEMMA FactoryStepSound == FactoryIInv /\ [FactoryNext]_factoryVars => FactoryIInv'
<1> SUFFICES ASSUME FactoryIInv, [FactoryNext]_factoryVars PROVE FactoryIInv'
  OBVIOUS
<1>1. CASE BuildStep
  BY <1>1, BuildKeeps
<1>2. CASE ShutdownStep
  BY <1>2, ShutdownKeeps
<1>3. ASSUME NEW c \in Caller, BeginCreate(c) \/ WaiterStep(c) \/ Dispose(c)
      PROVE  FactoryIInv'
  <2>1. CASE Claim(c)
    BY <2>1, ClaimKeeps
  <2>2. CASE Unavailable(c) \/ WaitExpires(c) \/ WaitCancelled(c) \/ Dispose(c)
    BY <2>2, CallerKeeps
  <2> QED BY <1>3, <2>1, <2>2 DEF BeginCreate, WaiterStep, ClaimAgain
<1>4. CASE UNCHANGED factoryVars
  BY <1>4 DEF factoryVars, FactoryIInv, FactoryTypeOK, FactoryInv, SingleOwner,
              OneResultOrBuild, Custody
<1> QED BY <1>1, <1>2, <1>3, <1>4 DEF FactoryNext

\* "Deterministic result ownership" of runtime.py: for any number of callers, a set of
\* adapters has one owner, and a closing factory leaves nothing published behind.
THEOREM FactoryIsSound == FactorySpec => []FactoryInv
<1>1. FactorySpec => []FactoryIInv
  BY FactoryInitSound, FactoryStepSound, PTL DEF FactorySpec
<1>2. FactoryIInv => FactoryInv
  BY DEF FactoryIInv
<1> QED BY <1>1, <1>2, PTL
-----------------------------------------------------------------------------
(* The gateway on top of the factory                                       *)

\* Every step of the endpoint and of the lifespan is one of the factory or leaves
\* it alone: the connections use the factory through its operations only.
LEMMA GatewayStepIsFactoryStep == [GatewayNext]_entryVars => [FactoryNext]_factoryVars
<1> SUFFICES ASSUME [GatewayNext]_entryVars PROVE [FactoryNext]_factoryVars
  OBVIOUS
<1> USE DEF FactoryNext, WaiterStep
<1>1. CASE Warm
  BY <1>1 DEF Warm
<1>2. CASE WarmEnds
  BY <1>2 DEF WarmEnds
<1>3. CASE Stops
  BY <1>3 DEF Stops, ShutdownStep
<1>4. CASE FactoryWorks \/ ShutsDown
  BY <1>4 DEF FactoryWorks, ShutsDown, ShutdownStep
<1>5. ASSUME NEW c \in Client, Serves(c) PROVE [FactoryNext]_factoryVars
  <2>1. CASE StartAcquires(c)
    BY <2>1 DEF StartAcquires
  <2>2. CASE AcquireContinues(c) \/ AcquireFails(c) \/ AcquireExpires(c) \/ AcquireCancelled(c)
    BY <2>2 DEF AcquireContinues, AcquireFails, AcquireExpires, AcquireCancelled
  <2>3. CASE Released(c) \/ SessionCloses(c)
    BY <2>3 DEF Released, SessionCloses
  <2>4. CASE UNCHANGED factoryVars
    BY <2>4
  <2> QED BY <1>5, <2>1, <2>2, <2>3, <2>4
          DEF Serves, Connect, StartRefused, StartFindsClosing, StartTurnedAway, StartSucceeds,
              StartFails, StartCancelled, ConstructionFails, ReleaseIsCut, CloseTaskBegins,
              Abandoned, AbandonCancelled, Leave, CleanupDone
<1>6. CASE UNCHANGED entryVars
  BY <1>6 DEF entryVars
<1> QED BY <1>1, <1>2, <1>3, <1>4, <1>5, <1>6 DEF GatewayNext

\* The endpoint of app.py implements the factory's protocol: a behaviour of the gateway,
\* seen at the factory, is one of FactorySpec.
THEOREM GatewayUsesFactory == GatewaySpec => FactorySpec
<1>1. GatewayInit => FactoryInit
  BY DEF GatewayInit
<1> QED BY <1>1, GatewayStepIsFactoryStep, PTL DEF GatewaySpec, FactorySpec

\* What the counters count
ReservedSet == {c \in Client : reserved[c]}
CountedSet == {c \in Client : counted[c]}
OpenSet == {c \in Client : conn[c] \in InLoop}

Counted ==
  /\ pending = Cardinality(ReservedSet)
  /\ active = Cardinality(CountedSet)
  /\ connections = Cardinality(OpenSet)

Within == active + pending <= MaxSessions /\ connections <= MaxConnections

\* The place of a connection says what it has taken.  This is what makes the
\* counters inductive: a path out of the endpoint gives back what its place implies.
Holdings(c) ==
  /\ reserved[c] <=> conn[c] \in {"acquiring", "starting", "releasing", "abandoning"}
  /\ counted[c] => conn[c] \in {"active", "cleanup"}
  /\ conn[c] = "active" => counted[c]
  /\ conn[c] \in {"new", "open", "acquiring"} => holds[c] = 0
  /\ conn[c] = "abandoning" => holds[c] = 0 \/ shut[c] \in {"created", "runs"}
  /\ conn[c] \in {"cleanup", "gone"} => holds[c] = 0 \/ shut[c] \in {"runs", "cut"}
  /\ shut[c] = "created" => conn[c] = "abandoning"

GatewayIInv ==
  /\ FactoryIInv
  /\ GatewayTypeOK
  /\ Counted
  /\ Within
  /\ \A c \in Client : Holdings(c)

LEMMA CountMore ==
  ASSUME NEW S \in SUBSET Client, NEW c \in Client \ S
  PROVE  Cardinality(S \cup {c}) = Cardinality(S) + 1 /\ Cardinality(S) \in Nat
<1>1. IsFiniteSet(S)
  BY GatewayAssumption, FS_Subset DEF GatewayAssumption
<1>2. Cardinality(S \cup {c}) = Cardinality(S) + 1
  BY <1>1, FS_AddElement
<1>3. Cardinality(S) \in Nat
  BY <1>1, FS_CardinalityType
<1> QED BY <1>2, <1>3

LEMMA CountLess ==
  ASSUME NEW S \in SUBSET Client, NEW c \in S
  PROVE  /\ Cardinality(S \ {c}) = Cardinality(S) - 1
         /\ Cardinality(S) \in Nat /\ Cardinality(S) > 0
<1>1. IsFiniteSet(S)
  BY GatewayAssumption, FS_Subset DEF GatewayAssumption
<1>2. Cardinality(S \ {c}) = Cardinality(S) - 1
  BY <1>1, FS_RemoveElement
<1>3. Cardinality(S) \in Nat
  BY <1>1, FS_CardinalityType
<1>4. Cardinality(S) # 0
  BY <1>1, FS_EmptySet
<1> QED BY <1>2, <1>3, <1>4

\* reserve_session_capacity keeps `pending` exact.
LEMMA ReserveCounts ==
  ASSUME GatewayTypeOK, pending = Cardinality(ReservedSet),
         NEW c \in Client, ~reserved[c], Reserves(c)
  PROVE  /\ pending' = Cardinality(ReservedSet') /\ pending' = pending + 1 /\ pending' \in Nat
         /\ reserved' \in [Client -> BOOLEAN] /\ reserved'[c]
         /\ \A d \in Client \ {c} : reserved'[d] = reserved[d]
<1>1. ReservedSet' = ReservedSet \cup {c} /\ c \notin ReservedSet
  BY DEF Reserves, ReservedSet, GatewayTypeOK
<1>2. ReservedSet \in SUBSET Client
  BY DEF ReservedSet
<1>3. pending' = Cardinality(ReservedSet') /\ pending' = pending + 1
  BY <1>1, <1>2, CountMore DEF Reserves
<1>4. /\ pending' \in Nat
      /\ reserved' \in [Client -> BOOLEAN] /\ reserved'[c]
      /\ \A d \in Client \ {c} : reserved'[d] = reserved[d]
  BY DEF Reserves, GatewayTypeOK
<1> QED BY <1>3, <1>4

\* release_pending_reservation does, also when there is nothing to release.
LEMMA ReleaseCounts ==
  ASSUME GatewayTypeOK, pending = Cardinality(ReservedSet), NEW c \in Client, Releases(c)
  PROVE  /\ pending' = Cardinality(ReservedSet') /\ pending' \in Nat
         /\ pending' = IF reserved[c] THEN pending - 1 ELSE pending
         /\ reserved' \in [Client -> BOOLEAN] /\ ~reserved'[c]
         /\ \A d \in Client \ {c} : reserved'[d] = reserved[d]
<1>1. CASE reserved[c]
  <2>1. ReservedSet' = ReservedSet \ {c} /\ c \in ReservedSet
    BY <1>1 DEF Releases, ReservedSet, GatewayTypeOK
  <2>2. ReservedSet \in SUBSET Client
    BY DEF ReservedSet
  <2>3. Cardinality(ReservedSet \ {c}) = pending - 1 /\ pending > 0 /\ pending \in Nat
    BY <2>1, <2>2, CountLess
  <2>4. pending' = pending - 1
    BY <1>1, <2>3 DEF Releases, Less
  <2> QED BY <1>1, <2>1, <2>3, <2>4 DEF Releases, GatewayTypeOK
<1>2. CASE ~reserved[c]
  <2>1. ReservedSet' = ReservedSet
    BY <1>2 DEF Releases, ReservedSet, GatewayTypeOK
  <2> QED BY <1>2, <2>1 DEF Releases, GatewayTypeOK
<1> QED BY <1>1, <1>2

\* A connection that enters or leaves the endpoint's loop, or moves in it, and the
\* number of connections.
LEMMA MoveCounts ==
  ASSUME GatewayTypeOK, connections = Cardinality(OpenSet), NEW c \in Client,
         NEW place \in InLoop \cup {"new", "cleanup", "gone"}, GoesTo(c, place)
  PROVE  /\ conn' \in [Client -> InLoop \cup {"new", "cleanup", "gone"}]
         /\ conn'[c] = place /\ \A d \in Client \ {c} : conn'[d] = conn[d]
         /\ conn[c] \in InLoop <=> place \in InLoop => Cardinality(OpenSet') = connections
         /\ conn[c] \in InLoop /\ place \notin InLoop =>
              Cardinality(OpenSet') = Less(connections) /\ Less(connections) \in Nat
         /\ conn[c] \notin InLoop /\ place \in InLoop => Cardinality(OpenSet') = connections + 1
         /\ Less(connections) <= connections
<1> USE DEF GatewayTypeOK, GoesTo
<1>1. OpenSet \in SUBSET Client
  BY DEF OpenSet
<1>2. conn[c] \in InLoop <=> place \in InLoop => OpenSet' = OpenSet
  BY DEF OpenSet
<1>3. conn[c] \in InLoop /\ place \notin InLoop => OpenSet' = OpenSet \ {c} /\ c \in OpenSet
  BY DEF OpenSet
<1>4. conn[c] \notin InLoop /\ place \in InLoop => OpenSet' = OpenSet \cup {c} /\ c \notin OpenSet
  BY DEF OpenSet
<1>5. conn[c] \in InLoop /\ place \notin InLoop =>
         Cardinality(OpenSet') = Less(connections) /\ Less(connections) \in Nat
  BY <1>1, <1>3, CountLess DEF Less
<1>6. conn[c] \notin InLoop /\ place \in InLoop => Cardinality(OpenSet') = connections + 1
  BY <1>1, <1>4, CountMore
<1> QED BY <1>1, <1>2, <1>5, <1>6 DEF Less

\* What a step of the factory does to the adapters the connections hold
LEMMA HoldsAfter ==
  ASSUME FactoryTypeOK, NEW c \in Client
  PROVE  /\ Claim(c) => \A d \in Client \ {c} : holds'[d] = holds[d]
         /\ Dispose(c) => holds'[c] = 0 /\ \A d \in Client \ {c} : holds'[d] = holds[d]
         /\ Unavailable(c) \/ WaitExpires(c) \/ WaitCancelled(c) => UNCHANGED holds
BY DEF FactoryTypeOK, Claim, TakePrepared, JoinBuild, StartBuild, Dispose, Unavailable,
       WaitExpires, WaitCancelled

LEMMA HoldsKept ==
  BuildStep \/ ShutdownStep \/ Claim(Lifespan) \/ Unavailable(Lifespan) \/ WaitExpires(Lifespan)
    => UNCHANGED holds
BY DEF BuildStep, BuildFails, BuildPublishes, BuildIsNotWanted, BuildCloses, ShutdownStep,
       BeginClose, Sweep, CleanupEnds, CloserWakes, CloserExpires, Claim, TakePrepared,
       JoinBuild, StartBuild, Unavailable, WaitExpires

\* A step of one connection leaves the others as they are.
Others(c) ==
  \A d \in Client \ {c} :
    /\ conn'[d] = conn[d] /\ reserved'[d] = reserved[d] /\ counted'[d] = counted[d]
    /\ shut'[d] = shut[d] /\ holds'[d] = holds[d]

LEMMA OthersKeep ==
  ASSUME \A d \in Client : Holdings(d), NEW c \in Client, Others(c), Holdings(c)'
  PROVE  \A d \in Client : Holdings(d)'
BY DEF Holdings, Others

\* The finalizer gives back the slot and the reservation on every path into it.
LEMMA FinalizerCounts ==
  ASSUME GatewayTypeOK, Counted, Within, NEW c \in Client, Holdings(c), conn[c] \in InLoop,
         NEW closing \in {"no", "created", "runs", "cut"}, Finalizes(c, closing)
  PROVE  /\ Counted' /\ Within'
         /\ FactoryTypeOK' => GatewayTypeOK'
         /\ conn'[c] = "cleanup" /\ shut'[c] = closing /\ ~reserved'[c]
         /\ \A d \in Client \ {c} :
              /\ conn'[d] = conn[d] /\ reserved'[d] = reserved[d] /\ shut'[d] = shut[d]
<1>1. GoesTo(c, "cleanup") /\ "cleanup" \notin InLoop
  BY DEF Finalizes, InLoop
<1>2. /\ conn' \in [Client -> InLoop \cup {"new", "cleanup", "gone"}]
      /\ conn'[c] = "cleanup" /\ \A d \in Client \ {c} : conn'[d] = conn[d]
      /\ connections' = Cardinality(OpenSet') /\ connections' \in Nat
      /\ connections' <= connections
  BY <1>1, MoveCounts DEF Counted, Finalizes
<1>3. /\ pending' = Cardinality(ReservedSet') /\ pending' \in Nat /\ pending' <= pending
      /\ reserved' \in [Client -> BOOLEAN] /\ ~reserved'[c]
      /\ \A d \in Client \ {c} : reserved'[d] = reserved[d]
  <2>1. CASE counted[c]
    <3>1. ~reserved[c] /\ UNCHANGED <<pending, reserved>>
      BY <2>1 DEF Holdings, Finalizes, InLoop
    <3>2. ReservedSet' = ReservedSet
      BY <3>1 DEF ReservedSet
    <3> QED BY <3>1, <3>2 DEF Counted, GatewayTypeOK
  <2>2. CASE ~counted[c]
    <3>1. Releases(c)
      BY <2>2 DEF Finalizes
    <3> QED BY <3>1, ReleaseCounts DEF Counted, GatewayTypeOK
  <2> QED BY <2>1, <2>2
<1>4. /\ UNCHANGED <<counted, active, lifespan>>
      /\ attempts' \in [Client -> Nat] /\ shut' \in [Client -> {"no", "created", "runs", "cut"}]
      /\ shut'[c] = closing /\ \A d \in Client \ {c} : shut'[d] = shut[d]
  BY DEF Finalizes, GatewayTypeOK
<1>5. CountedSet' = CountedSet
  BY <1>4 DEF CountedSet
<1>6. Counted'
  BY <1>2, <1>3, <1>4, <1>5 DEF Counted
<1>7. Within'
  BY <1>2, <1>3, <1>4, GatewayAssumption DEF Within, GatewayTypeOK, GatewayAssumption
<1>8. FactoryTypeOK' => GatewayTypeOK'
  BY <1>2, <1>3, <1>4 DEF GatewayTypeOK
<1> QED BY <1>2, <1>3, <1>4, <1>6, <1>7, <1>8

\* Every path into the finalizer hands the adapters on: to the cleanup task, to a close
\* that runs already, or to nobody when the close was cut off.
LEMMA FinalizingKeeps ==
  ASSUME GatewayIInv, FactoryIInv', NEW c \in Client,
         \/ StartTurnedAway(c) \/ Leave(c) \/ ReleaseIsCut(c) \/ StartCancelled(c)
         \/ Abandoned(c) \/ AbandonCancelled(c) \/ AcquireCancelled(c) \/ Released(c)
  PROVE  GatewayIInv'
<1>1. PICK closing \in {"no", "created", "runs", "cut"} : Finalizes(c, closing)
  BY DEF StartTurnedAway, Leave, ReleaseIsCut, StartCancelled, Abandoned, AbandonCancelled,
         AcquireCancelled, Released, GatewayIInv, GatewayTypeOK
<1>2. conn[c] \in InLoop
  BY DEF StartTurnedAway, Leave, ReleaseIsCut, StartCancelled, Abandoned, AbandonCancelled,
         AcquireCancelled, Released, InLoop
<1>3. /\ Counted' /\ Within' /\ GatewayTypeOK'
      /\ conn'[c] = "cleanup" /\ shut'[c] = closing /\ ~reserved'[c] /\ UNCHANGED counted
      /\ \A d \in Client \ {c} :
           /\ conn'[d] = conn[d] /\ reserved'[d] = reserved[d] /\ shut'[d] = shut[d]
  BY <1>1, <1>2, FinalizerCounts DEF GatewayIInv, FactoryIInv, Finalizes
<1>4. \A d \in Client \ {c} : holds'[d] = holds[d]
  BY HoldsAfter DEF StartTurnedAway, Leave, ReleaseIsCut, StartCancelled, Abandoned,
       AbandonCancelled, AcquireCancelled, Released, factoryVars, GatewayIInv, FactoryIInv
<1>5. Others(c)
  BY <1>3, <1>4 DEF Others
<1>6. closing # "created" /\ (holds'[c] = 0 \/ closing \in {"runs", "cut"})
  <2> USE DEF GatewayIInv, Holdings
  <2>1. CASE StartTurnedAway(c) \/ Leave(c)
    BY <2>1, <1>2, <1>3 DEF StartTurnedAway, Leave, Finalizes, factoryVars, GatewayTypeOK
  <2>2. CASE ReleaseIsCut(c) \/ StartCancelled(c)
    BY <2>2, <1>3 DEF ReleaseIsCut, StartCancelled, Finalizes, GatewayTypeOK
  <2>3. CASE Abandoned(c) \/ AbandonCancelled(c)
    BY <2>3, <1>3 DEF Abandoned, AbandonCancelled, Finalizes, factoryVars, GatewayTypeOK
  <2>4. CASE AcquireCancelled(c) \/ Released(c)
    BY <2>4, <1>3, HoldsAfter DEF AcquireCancelled, Released, Finalizes, GatewayTypeOK, FactoryIInv
  <2> QED BY <2>1, <2>2, <2>3, <2>4
<1>7. Holdings(c)'
  BY <1>3, <1>6 DEF Holdings
<1> QED BY <1>3, <1>5, <1>7, OthersKeep DEF GatewayIInv

\* reserve_session_capacity, and the acquisition it reserves for
LEMMA AcquiringKeeps ==
  ASSUME GatewayIInv, FactoryIInv', NEW c \in Client,
         StartAcquires(c) \/ AcquireContinues(c)
  PROVE  GatewayIInv'
<1> USE DEF GatewayIInv, FactoryIInv
<1>1. PICK place \in {"starting", "acquiring"} :
        GoesTo(c, place) /\ (place = "acquiring" => holds'[c] = 0)
  BY DEF StartAcquires, AcquireContinues
<1>2. conn[c] \in InLoop /\ place \in InLoop
  BY <1>1 DEF StartAcquires, AcquireContinues, InLoop
<1>3. /\ conn' \in [Client -> InLoop \cup {"new", "cleanup", "gone"}]
      /\ conn'[c] = place /\ \A d \in Client \ {c} : conn'[d] = conn[d]
      /\ Cardinality(OpenSet') = connections
  BY <1>1, <1>2, MoveCounts DEF Counted
<1>4. /\ pending' = Cardinality(ReservedSet') /\ pending' \in Nat
      /\ active + pending' <= MaxSessions
      /\ reserved' \in [Client -> BOOLEAN] /\ reserved'[c]
      /\ \A d \in Client \ {c} : reserved'[d] = reserved[d]
  <2>1. CASE StartAcquires(c)
    <3>1. ~reserved[c]
      BY <2>1 DEF StartAcquires, Holdings
    <3>2. active + pending + 1 <= MaxSessions
      BY <2>1, GatewayAssumption DEF StartAcquires, HasCapacity, GatewayTypeOK, GatewayAssumption
    <3> QED BY <2>1, <3>1, <3>2, ReserveCounts DEF StartAcquires, Counted, GatewayTypeOK
  <2>2. CASE AcquireContinues(c)
    <3>1. ReservedSet' = ReservedSet
      BY <2>2 DEF AcquireContinues, ReservedSet
    <3> QED BY <2>2, <3>1 DEF AcquireContinues, Holdings, Counted, Within, GatewayTypeOK
  <2> QED BY <2>1, <2>2
<1>5. /\ UNCHANGED <<counted, shut, connections, active, lifespan>>
      /\ attempts' \in [Client -> Nat]
  BY DEF StartAcquires, AcquireContinues, GatewayTypeOK
<1>6. \A d \in Client \ {c} : holds'[d] = holds[d]
  BY HoldsAfter DEF StartAcquires, AcquireContinues, BeginCreate, ClaimAgain
<1>7. CountedSet' = CountedSet
  BY <1>5 DEF CountedSet
<1>8. Counted' /\ Within'
  BY <1>3, <1>4, <1>5, <1>7 DEF Counted, Within
<1>9. GatewayTypeOK'
  BY <1>3, <1>4, <1>5 DEF GatewayTypeOK
<1>10. Holdings(c)'
  BY <1>1, <1>3, <1>4, <1>5 DEF Holdings, StartAcquires, AcquireContinues
<1>11. Others(c)
  BY <1>3, <1>4, <1>5, <1>6 DEF Others
<1> QED BY <1>8, <1>9, <1>10, <1>11, OthersKeep

\* RuntimeUnavailable and the timeout of the acquisition, and the start that succeeds:
\* the reservation ends, and the last of them turns it into a session.
LEMMA ReleasingKeeps ==
  ASSUME GatewayIInv, FactoryIInv', NEW c \in Client,
         AcquireFails(c) \/ AcquireExpires(c) \/ StartSucceeds(c)
  PROVE  GatewayIInv'
<1> USE DEF GatewayIInv, FactoryIInv
<1> DEFINE place == IF StartSucceeds(c) THEN "active" ELSE "open"
<1>1. /\ GoesTo(c, place) /\ place \in InLoop /\ conn[c] \in InLoop /\ reserved[c]
      /\ Releases(c) /\ UNCHANGED <<attempts, shut, connections, lifespan>>
  BY DEF AcquireFails, AcquireExpires, StartSucceeds, InLoop, Holdings
<1>2. /\ conn' \in [Client -> InLoop \cup {"new", "cleanup", "gone"}]
      /\ conn'[c] = place /\ \A d \in Client \ {c} : conn'[d] = conn[d]
      /\ Cardinality(OpenSet') = connections
  <2> HIDE DEF place
  <2> QED BY <1>1, MoveCounts DEF Counted
<1>3. /\ pending' = Cardinality(ReservedSet') /\ pending' \in Nat /\ pending' = pending - 1
      /\ reserved' \in [Client -> BOOLEAN] /\ ~reserved'[c]
      /\ \A d \in Client \ {c} : reserved'[d] = reserved[d]
  BY <1>1, ReleaseCounts DEF Counted
<1>4. /\ \A d \in Client \ {c} : holds'[d] = holds[d]
      /\ conn[c] = "acquiring" => holds'[c] = 0
  BY HoldsAfter DEF AcquireFails, AcquireExpires, StartSucceeds, Holdings, factoryVars
<1>5. /\ active' = Cardinality(CountedSet') /\ active' \in Nat /\ active' + pending' <= MaxSessions
      /\ counted' \in [Client -> BOOLEAN] /\ (place = "active" <=> counted'[c])
      /\ \A d \in Client \ {c} : counted'[d] = counted[d]
  <2>1. CASE StartSucceeds(c)
    <3>1. CountedSet' = CountedSet \cup {c} /\ c \notin CountedSet
      BY <2>1 DEF StartSucceeds, CountedSet, Holdings, GatewayTypeOK
    <3>2. CountedSet \in SUBSET Client
      BY DEF CountedSet
    <3>3. active' = Cardinality(CountedSet') /\ active' = active + 1
      BY <2>1, <3>1, <3>2, CountMore DEF StartSucceeds, Counted
    <3>4. active' \in Nat /\ active' + pending' <= MaxSessions
      BY <1>3, <3>3, GatewayAssumption DEF GatewayTypeOK, Within, GatewayAssumption
    <3> QED BY <2>1, <3>3, <3>4 DEF StartSucceeds, GatewayTypeOK
  <2>2. CASE ~StartSucceeds(c)
    <3>1. UNCHANGED <<active, counted>> /\ ~counted[c]
      BY <2>2 DEF AcquireFails, AcquireExpires, Holdings
    <3>2. CountedSet' = CountedSet
      BY <3>1 DEF CountedSet
    <3> QED BY <1>3, <2>2, <3>1, <3>2, GatewayAssumption
            DEF Counted, Within, GatewayTypeOK, GatewayAssumption
  <2> QED BY <2>1, <2>2
<1>6. Counted' /\ Within' /\ GatewayTypeOK'
  BY <1>1, <1>2, <1>3, <1>5 DEF Counted, Within, GatewayTypeOK
<1>7. Holdings(c)'
  BY <1>1, <1>2, <1>3, <1>4, <1>5
     DEF Holdings, AcquireFails, AcquireExpires, StartSucceeds
<1>8. Others(c)
  BY <1>1, <1>2, <1>3, <1>4, <1>5 DEF Others
<1> QED BY <1>6, <1>7, <1>8, OthersKeep

\* The steps that take and give back nothing but the slot of the connection
LEMMA StayingKeeps ==
  ASSUME GatewayIInv, FactoryIInv', NEW c \in Client,
         \/ Connect(c) \/ StartRefused(c) \/ StartFindsClosing(c) \/ StartFails(c)
         \/ ConstructionFails(c) \/ CloseTaskBegins(c) \/ SessionCloses(c)
  PROVE  GatewayIInv'
<1> USE DEF GatewayIInv, FactoryIInv
<1>1. UNCHANGED <<reserved, counted, pending, active, lifespan>>
  BY DEF Connect, StartRefused, StartFindsClosing, StartFails, ConstructionFails,
         CloseTaskBegins, SessionCloses
<1>2. ReservedSet' = ReservedSet /\ CountedSet' = CountedSet
  BY <1>1 DEF ReservedSet, CountedSet
<1>3. /\ conn' \in [Client -> InLoop \cup {"new", "cleanup", "gone"}]
      /\ \A d \in Client \ {c} : conn'[d] = conn[d]
      /\ connections' = Cardinality(OpenSet') /\ connections' \in Nat
      /\ connections' <= MaxConnections
  <2>1. CASE Connect(c)
    <3>1. conn[c] \notin InLoop /\ "open" \in InLoop /\ "gone" \notin InLoop
      BY <2>1 DEF Connect, InLoop
    <3>2. CASE connections >= MaxConnections
      <4>1. GoesTo(c, "gone") /\ UNCHANGED connections
        BY <2>1, <3>2 DEF Connect
      <4> QED BY <3>1, <4>1, MoveCounts DEF Counted, Within, GatewayTypeOK
    <3>3. CASE ~(connections >= MaxConnections)
      <4>1. GoesTo(c, "open") /\ connections' = connections + 1
        BY <2>1, <3>3 DEF Connect
      <4>2. connections + 1 <= MaxConnections
        BY <3>3, GatewayAssumption DEF GatewayTypeOK, GatewayAssumption
      <4> QED BY <3>1, <4>1, <4>2, MoveCounts DEF Counted, GatewayTypeOK
    <3> QED BY <3>2, <3>3
  <2>2. CASE StartFails(c) \/ ConstructionFails(c)
    <3>1. PICK place \in {"abandoning", "releasing"} : GoesTo(c, place)
      BY <2>2 DEF StartFails, ConstructionFails
    <3>2. conn[c] \in InLoop /\ place \in InLoop /\ UNCHANGED connections
      BY <2>2 DEF StartFails, ConstructionFails, InLoop
    <3> QED BY <3>1, <3>2, MoveCounts DEF Counted, Within, GatewayTypeOK
  <2>3. CASE UNCHANGED <<conn, connections>>
    <3>1. OpenSet' = OpenSet
      BY <2>3 DEF OpenSet
    <3> QED BY <2>3, <3>1 DEF Counted, Within, GatewayTypeOK
  <2> QED BY <2>1, <2>2, <2>3
          DEF StartRefused, StartFindsClosing, CloseTaskBegins, SessionCloses
<1>4. Counted' /\ Within'
  BY <1>1, <1>2, <1>3 DEF Counted, Within
<1>5. /\ shut' \in [Client -> {"no", "created", "runs", "cut"}] /\ attempts' \in [Client -> Nat]
      /\ \A d \in Client \ {c} : shut'[d] = shut[d]
  BY DEF Connect, StartRefused, StartFindsClosing, StartFails, ConstructionFails,
         CloseTaskBegins, SessionCloses, GatewayTypeOK
<1>6. GatewayTypeOK'
  BY <1>1, <1>3, <1>5 DEF GatewayTypeOK
<1>7. \A d \in Client \ {c} : holds'[d] = holds[d]
  BY HoldsAfter DEF Connect, StartRefused, StartFindsClosing, StartFails, ConstructionFails,
       CloseTaskBegins, SessionCloses, factoryVars
<1>8. Others(c)
  BY <1>1, <1>3, <1>5, <1>7 DEF Others
<1>9. Holdings(c)'
  <2> USE DEF Holdings, GatewayTypeOK
  <2>1. CASE Connect(c) \/ StartRefused(c) \/ StartFindsClosing(c)
    BY <2>1 DEF Connect, StartRefused, StartFindsClosing, GoesTo, factoryVars
  <2>2. CASE StartFails(c) \/ ConstructionFails(c)
    BY <2>2 DEF StartFails, ConstructionFails, GoesTo, factoryVars
  <2>3. CASE CloseTaskBegins(c)
    BY <2>3 DEF CloseTaskBegins, factoryVars
  <2>4. CASE SessionCloses(c)
    <3>1. holds'[c] = 0
      BY <2>4, HoldsAfter DEF SessionCloses
    <3> QED BY <2>4, <3>1 DEF SessionCloses
  <2> QED BY <2>1, <2>2, <2>3, <2>4
<1> QED BY <1>4, <1>6, <1>8, <1>9, OthersKeep

\* The done callback of the cleanup task gives back the session.
LEMMA CleanupKeeps ==
  ASSUME GatewayIInv, FactoryIInv', NEW c \in Client, CleanupDone(c)
  PROVE  GatewayIInv'
<1> USE DEF GatewayIInv, FactoryIInv, CleanupDone
<1>1. /\ conn' \in [Client -> InLoop \cup {"new", "cleanup", "gone"}]
      /\ conn'[c] = "gone" /\ \A d \in Client \ {c} : conn'[d] = conn[d]
      /\ connections' = Cardinality(OpenSet')
  BY MoveCounts DEF Counted, InLoop
<1>2. ReservedSet' = ReservedSet
  BY DEF ReservedSet
<1>3. /\ active' = Cardinality(CountedSet') /\ active' \in Nat /\ active' <= active
  <2>1. CASE counted[c]
    <3>1. CountedSet' = CountedSet \ {c} /\ c \in CountedSet
      BY <2>1 DEF CountedSet, GatewayTypeOK
    <3>2. CountedSet \in SUBSET Client
      BY DEF CountedSet
    <3>3. Cardinality(CountedSet \ {c}) = active - 1 /\ active > 0 /\ active \in Nat
      BY <3>1, <3>2, CountLess DEF Counted
    <3> QED BY <2>1, <3>1, <3>3 DEF Less
  <2>2. CASE ~counted[c]
    <3>1. CountedSet' = CountedSet
      BY <2>2 DEF CountedSet, GatewayTypeOK
    <3> QED BY <2>2, <3>1 DEF Counted, GatewayTypeOK
  <2> QED BY <2>1, <2>2
<1>4. Counted' /\ Within'
  BY <1>1, <1>2, <1>3, GatewayAssumption DEF Counted, Within, GatewayTypeOK, GatewayAssumption
<1>5. GatewayTypeOK'
  BY <1>1, <1>3 DEF GatewayTypeOK
<1>6. Others(c) /\ Holdings(c)'
  BY <1>1 DEF Others, Holdings, factoryVars, GatewayTypeOK
<1> QED BY <1>4, <1>5, <1>6, OthersKeep

\* The lifespan and the factory's own tasks leave the connections as they are.
LEMMA LifespanKeeps ==
  ASSUME GatewayIInv, FactoryIInv',
         Warm \/ WarmEnds \/ Stops \/ FactoryWorks \/ ShutsDown \/ UNCHANGED entryVars
  PROVE  GatewayIInv'
<1>1. UNCHANGED clientVars /\ lifespan' \in {"starts", "warms", "serves", "stops"}
  BY DEF Warm, WarmEnds, Stops, FactoryWorks, ShutsDown, entryVars, gatewayVars, clientVars,
         GatewayIInv, GatewayTypeOK
<1>2. UNCHANGED holds
  BY HoldsKept DEF Warm, WarmEnds, Stops, FactoryWorks, ShutsDown, ShutdownStep, BeginCreate,
       ClaimAgain, entryVars, factoryVars
<1>3. ReservedSet' = ReservedSet /\ CountedSet' = CountedSet /\ OpenSet' = OpenSet
  BY <1>1 DEF clientVars, ReservedSet, CountedSet, OpenSet
<1>4. Counted' /\ Within' /\ GatewayTypeOK'
  BY <1>1, <1>3 DEF clientVars, Counted, Within, GatewayTypeOK, GatewayIInv, FactoryIInv
<1>5. \A d \in Client : Holdings(d)'
  BY <1>1, <1>2 DEF clientVars, Holdings, GatewayIInv
<1> QED BY <1>4, <1>5 DEF GatewayIInv

LEMMA GatewayInitSound == GatewayInit => GatewayIInv
<1> SUFFICES ASSUME GatewayInit PROVE GatewayIInv
  OBVIOUS
<1>1. FactoryIInv
  BY FactoryInitSound DEF GatewayInit
<1>2. ReservedSet = {} /\ CountedSet = {} /\ OpenSet = {}
  BY DEF GatewayInit, ReservedSet, CountedSet, OpenSet, InLoop
<1>3. Counted /\ Within
  BY <1>2, FS_EmptySet, GatewayAssumption DEF Counted, Within, GatewayInit, GatewayAssumption
<1>4. GatewayTypeOK
  BY <1>1 DEF FactoryIInv, GatewayInit, GatewayTypeOK
<1>5. \A c \in Client : Holdings(c)
  BY DEF GatewayInit, FactoryInit, Holdings
<1> QED BY <1>1, <1>3, <1>4, <1>5 DEF GatewayIInv

LEMMA GatewayStepSound == GatewayIInv /\ [GatewayNext]_entryVars => GatewayIInv'
<1> SUFFICES ASSUME GatewayIInv, [GatewayNext]_entryVars PROVE GatewayIInv'
  OBVIOUS
<1>1. FactoryIInv'
  BY GatewayStepIsFactoryStep, FactoryStepSound DEF GatewayIInv
<1>2. ASSUME NEW c \in Client, Serves(c) PROVE GatewayIInv'
  BY <1>1, <1>2, FinalizingKeeps, AcquiringKeeps, ReleasingKeeps, StayingKeeps, CleanupKeeps
     DEF Serves
<1> QED BY <1>1, <1>2, LifespanKeeps DEF GatewayNext

\* For any number of connections and any limits: the counters of app.py are exact, the
\* session budget holds, and nobody runs a session the gateway does not know of.
THEOREM GatewayIsSound == GatewaySpec => []GatewayInv
<1>1. GatewaySpec => []GatewayIInv
  BY GatewayInitSound, GatewayStepSound, PTL DEF GatewaySpec
<1>2. GatewayIInv => GatewayInv
  <2> SUFFICES ASSUME GatewayIInv PROVE GatewayInv
    OBVIOUS
  <2>1. CountsBalance
    BY DEF GatewayIInv, Counted, Within, Holdings, CountsBalance, ReservedSet, CountedSet, OpenSet
  <2>2. RuntimesAreCounted
    BY DEF GatewayIInv, GatewayTypeOK, Holdings, RuntimesAreCounted, InLoop
  <2> QED BY <2>1, <2>2 DEF GatewayIInv, GatewayInv
<1> QED BY <1>1, <1>2, PTL
-----------------------------------------------------------------------------
(* The outbound pump of a WebSocket                                        *)

(* A set of natural numbers that is not empty has a least one.              *)
Below == {ss \in Nat \X Nat : ss[1] < ss[2]}

LEMMA BelowIsWellFounded == IsWellFoundedOn(Below, Nat)
BY NatLessThanWellFounded DEF OpToRel, Below

LEMMA LeastOf ==
  ASSUME NEW T, T \subseteq Nat, T # {}
  PROVE  \E m \in T : \A k \in T : m <= k
<1>1. PICK x \in T : \A y \in T : ~ (<<y, x>> \in Below)
  BY BelowIsWellFounded, WFMin
<1>2. \A y \in T : ~ (y < x)
  BY <1>1 DEF Below
<1> QED
  BY <1>2

(* f lists the sums of the first n numbers of q.                            *)
Sums(f, q, n) ==
  /\ f = [i \in 0 .. n |-> f[i]]
  /\ \A i \in 0 .. n : f[i] = IF i = 0 THEN 0 ELSE f[i - 1] + q[i]

LEMMA SumsExist ==
  ASSUME NEW q \in Seq(Nat)
  PROVE  \A n \in 0 .. Len(q) : \E f : Sums(f, q, n)
<1> DEFINE T == {n \in 0 .. Len(q) : ~ \E f : Sums(f, q, n)}
<1> SUFFICES ASSUME T # {} PROVE FALSE
  OBVIOUS
<1>0. T \subseteq Nat
  OBVIOUS
<1>1. PICK n \in T : \A k \in T : n <= k
  <2> HIDE DEF T
  <2> QED
    BY <1>0, LeastOf
<1>2. n # 0
  <2>1. Sums([i \in 0 .. 0 |-> 0], q, 0)
    BY DEF Sums
  <2>2. 0 \notin T
    BY <2>1
  <2> QED
    BY <1>1, <2>2
<1>3. PICK f : Sums(f, q, n - 1)
  <2>1. n - 1 \in 0 .. Len(q) /\ n - 1 \notin T
    BY <1>1, <1>2
  <2> QED
    BY <2>1
<1> DEFINE g == [i \in 0 .. n |-> IF i = n THEN f[n - 1] + q[n] ELSE f[i]]
<1>4. Sums(g, q, n)
  <2>1. \A i \in 0 .. n : g[i] = IF i = 0 THEN 0 ELSE g[i - 1] + q[i]
    <3> SUFFICES ASSUME NEW i \in 0 .. n
                 PROVE  g[i] = IF i = 0 THEN 0 ELSE g[i - 1] + q[i]
      OBVIOUS
    <3>1. n \in Nat /\ n # 0
      BY <1>1, <1>2
    <3>2. \A k \in 0 .. n - 1 : f[k] = IF k = 0 THEN 0 ELSE f[k - 1] + q[k]
      BY <1>3 DEF Sums
    <3>3. CASE i = n
      BY <3>1, <3>3
    <3>4. CASE i # n
      <4>1. i \in 0 .. n - 1 /\ (i # 0 => i - 1 # n /\ i - 1 \in 0 .. n)
        BY <3>1, <3>4
      <4> QED
        BY <3>2, <3>4, <4>1
    <3> QED
      BY <3>3, <3>4
  <2>2. g = [i \in 0 .. n |-> g[i]]
    OBVIOUS
  <2> HIDE DEF g
  <2> QED
    BY <2>1, <2>2 DEF Sums
<1> QED
  BY <1>4

LEMMA UptoIsDefined ==
  ASSUME NEW q \in Seq(Nat)
  PROVE  /\ \A i \in 0 .. Len(q) : Upto(q)[i] = IF i = 0 THEN 0 ELSE Upto(q)[i - 1] + q[i]
<1> DEFINE Def(f) == f = [n \in 0 .. Len(q) |-> IF n = 0 THEN 0 ELSE f[n - 1] + q[n]]
<1>1. Len(q) \in 0 .. Len(q)
  OBVIOUS
<1>2. PICK f : Sums(f, q, Len(q))
  BY <1>1, SumsExist
<1>3. Def(f)
  BY <1>2, Zenon DEF Sums
<1>4. Upto(q) = CHOOSE h : Def(h)
  BY DEF Upto
<1>5. Def(Upto(q))
  BY <1>3, <1>4, Zenon
<1> QED
  BY <1>5

(* Induction over 0 .. n, for a set.                                        *)
LEMMA Upward ==
  ASSUME NEW n \in Nat, NEW S, 0 \in S, \A i \in 0 .. n - 1 : i \in S => i + 1 \in S
  PROVE  0 .. n \subseteq S
<1> DEFINE T == {i \in 0 .. n : i \notin S}
<1> SUFFICES ASSUME T # {} PROVE FALSE
  OBVIOUS
<1>1. T \subseteq Nat
  OBVIOUS
<1>2. PICK m \in T : \A k \in T : m <= k
  <2> HIDE DEF T
  <2> QED
    BY <1>1, LeastOf
<1>3. m # 0 /\ m - 1 \in 0 .. n - 1
  BY <1>2
<1>4. m - 1 \notin T
  BY <1>2
<1> QED
  BY <1>2, <1>3, <1>4

LEMMA UptoIsNat ==
  ASSUME NEW q \in Seq(Nat)
  PROVE  \A i \in 0 .. Len(q) : Upto(q)[i] \in Nat
<1> DEFINE S == {i \in 0 .. Len(q) : Upto(q)[i] \in Nat}
<1>1. 0 \in S
  BY UptoIsDefined
<1>2. ASSUME NEW i \in 0 .. Len(q) - 1, i \in S PROVE i + 1 \in S
  <2>1. Upto(q)[i + 1] = Upto(q)[i] + q[i + 1]
    <3>1. i + 1 \in 0 .. Len(q) /\ i + 1 # 0 /\ (i + 1) - 1 = i
      OBVIOUS
    <3> QED
      BY <3>1, UptoIsDefined
  <2> QED
    BY <1>2, <2>1
<1>3. 0 .. Len(q) \subseteq S
  <2> HIDE DEF S
  <2>1. Len(q) \in Nat
    OBVIOUS
  <2> QED
    BY <1>1, <1>2, <2>1, Upward
<1> QED
  BY <1>3

(* Where q goes on like p, its sums grow like those of p.                   *)
LEMMA SumsInStep ==
  ASSUME NEW p \in Seq(Nat), NEW q \in Seq(Nat), NEW k \in Nat, Len(p) + k <= Len(q),
         \A i \in 1 .. Len(p) : q[i + k] = p[i]
  PROVE  Upto(q)[Len(p) + k] = Upto(q)[k] + Total(p)
<1> DEFINE S == {i \in 0 .. Len(p) : Upto(q)[i + k] = Upto(q)[k] + Upto(p)[i]}
<1>0. Len(p) \in Nat /\ Len(q) \in Nat
  OBVIOUS
<1>1. 0 \in S
  <2>1. Upto(p)[0] = 0 /\ Upto(q)[k] \in Nat /\ 0 + k = k
    BY <1>0, UptoIsDefined, UptoIsNat
  <2> QED
    BY <1>0, <2>1
<1>2. ASSUME NEW i \in 0 .. Len(p) - 1, i \in S PROVE i + 1 \in S
  <2>1. /\ i + 1 \in 0 .. Len(p) /\ i + 1 # 0 /\ (i + 1) - 1 = i
        /\ (i + 1) + k \in 0 .. Len(q) /\ (i + 1) + k # 0 /\ ((i + 1) + k) - 1 = i + k
    <3> HIDE DEF S
    <3>1. i + 1 \in 0 .. Len(p) /\ i + 1 # 0 /\ (i + 1) - 1 = i
      BY <1>0
    <3>2. (i + 1) + k \in 0 .. Len(q) /\ (i + 1) + k # 0 /\ ((i + 1) + k) - 1 = i + k
      BY <1>0
    <3> QED
      BY <3>1, <3>2
  <2>2. Upto(p)[i + 1] = Upto(p)[i] + p[i + 1]
    BY <2>1, UptoIsDefined
  <2>3. Upto(q)[(i + 1) + k] = Upto(q)[i + k] + q[(i + 1) + k]
    BY <2>1, UptoIsDefined
  <2>4. q[(i + 1) + k] = p[i + 1] /\ p[i + 1] \in Nat
    BY <1>0, <2>1
  <2>5. Upto(q)[k] \in Nat /\ Upto(p)[i] \in Nat
    BY <1>0, <2>1, UptoIsNat
  <2>6. Upto(q)[i + k] = Upto(q)[k] + Upto(p)[i]
    BY <1>2
  <2>7. Upto(q)[(i + 1) + k] = Upto(q)[k] + Upto(p)[i + 1]
    <3> HIDE DEF S
    <3>1. (Upto(q)[k] + Upto(p)[i]) + p[i + 1] = Upto(q)[k] + (Upto(p)[i] + p[i + 1])
      <4>1. \A a, b, c \in Nat : (a + b) + c = a + (b + c)
        OBVIOUS
      <4> QED
        BY <2>4, <2>5, <4>1, Zenon
    <3>2. Upto(q)[(i + 1) + k] = (Upto(q)[k] + Upto(p)[i]) + p[i + 1]
      BY <2>3, <2>4, <2>6, Zenon
    <3> QED
      BY <2>2, <3>1, <3>2, Zenon
  <2> QED
    BY <2>1, <2>7
<1>3. Len(p) \in S
  <2>1. 0 .. Len(p) \subseteq S
    <3> HIDE DEF S
    <3> QED
      BY <1>0, <1>1, <1>2, Upward
  <2> HIDE DEF S
  <2> QED
    BY <1>0, <2>1
<1> QED
  BY <1>3 DEF Total

(* What the bytes of a queue come to, when it is empty, and when a message  *)
(* is put in or taken out.                                                  *)
LEMMA Totals ==
  /\ Total(<<>>) = 0
  /\ \A q \in Seq(Nat) : Total(q) \in Nat
  /\ \A q \in Seq(Nat), x \in Nat : Total(Append(q, x)) = Total(q) + x
  /\ \A q \in Seq(Nat) : q # <<>> => Total(Tail(q)) = Total(q) - Head(q)
<1>1. Total(<<>>) = 0
  <2>1. <<>> \in Seq(Nat) /\ Len(<<>>) = 0 /\ 0 \in 0 .. 0
    OBVIOUS
  <2>2. Upto(<<>>)[0] = 0
    BY <2>1, UptoIsDefined
  <2> QED
    BY <2>1, <2>2 DEF Total
<1>2. ASSUME NEW q \in Seq(Nat) PROVE Total(q) \in Nat
  <2>1. Len(q) \in 0 .. Len(q)
    OBVIOUS
  <2> QED
    BY <2>1, UptoIsNat DEF Total
<1>3. ASSUME NEW q \in Seq(Nat), NEW x \in Nat
      PROVE  Total(Append(q, x)) = Total(q) + x
  <2> DEFINE a == Append(q, x)
  <2>1. /\ a \in Seq(Nat) /\ Len(a) = Len(q) + 1 /\ Len(q) \in Nat /\ a[Len(a)] = x
        /\ \A i \in 1 .. Len(q) : a[i + 0] = q[i]
    <3>1. a \in Seq(Nat) /\ Len(a) = Len(q) + 1 /\ Len(q) \in Nat
      OBVIOUS
    <3>2. a[Len(q) + 1] = x /\ \A i \in 1 .. Len(q) : a[i] = q[i]
      OBVIOUS
    <3>3. \A i \in 1 .. Len(q) : i + 0 = i
      OBVIOUS
    <3> QED
      BY <3>1, <3>2, <3>3
  <2> HIDE DEF a
  <2>2. Upto(a)[Len(q) + 0] = Upto(a)[0] + Total(q)
    <3>1. Len(q) + 0 <= Len(a) /\ 0 \in Nat
      BY <2>1
    <3> QED
      BY <2>1, <3>1, SumsInStep
  <2>0. 0 \in 0 .. Len(a) /\ Len(a) \in 0 .. Len(a) /\ Len(a) # 0
    BY <2>1
  <2>3. Upto(a)[0] = 0
    BY <2>0, <2>1, UptoIsDefined
  <2>4. Upto(a)[Len(a)] = Upto(a)[Len(a) - 1] + a[Len(a)]
    BY <2>0, <2>1, UptoIsDefined
  <2>5. Len(a) - 1 = Len(q) + 0 /\ Len(q) + 0 = Len(q)
    BY <2>1
  <2>6. Total(a) = Total(q) + x
    BY <1>2, <2>1, <2>2, <2>3, <2>4, <2>5 DEF Total
  <2> QED
    BY <2>6 DEF a
<1>4. ASSUME NEW q \in Seq(Nat), q # <<>>
      PROVE  Total(Tail(q)) = Total(q) - Head(q)
  <2> DEFINE t == Tail(q)
  <2>1. /\ t \in Seq(Nat) /\ Len(t) + 1 = Len(q) /\ Len(q) \in Nat /\ Len(q) >= 1
        /\ Head(q) = q[1] /\ q[1] \in Nat
        /\ \A i \in 1 .. Len(t) : q[i + 1] = t[i]
    BY <1>4
  <2> HIDE DEF t
  <2>2. Upto(q)[Len(t) + 1] = Upto(q)[1] + Total(t)
    BY <2>1, SumsInStep
  <2>3. Upto(q)[1] = q[1]
    <3>1. 1 \in 0 .. Len(q) /\ 0 \in 0 .. Len(q) /\ 1 - 1 = 0
      BY <2>1
    <3> QED
      BY <2>1, <3>1, UptoIsDefined
  <2>4. Total(t) \in Nat
    BY <1>2, <2>1
  <2>5. Total(q) = q[1] + Total(t)
    BY <2>1, <2>2, <2>3 DEF Total
  <2>6. Total(t) = Total(q) - Head(q)
    BY <2>1, <2>4, <2>5
  <2> QED
    BY <2>6 DEF t
<1> QED
  BY <1>1, <1>2, <1>3, <1>4
-----------------------------------------------------------------------------
(* A message is only in flight while the sender sends it, and only a pump   *)
(* that failed or is being stopped has its sender cancelled.                *)
SenderInv ==
  /\ sender.at # "sends" => inFlight = 0
  /\ sender.cancelled => pumpFailed \/ stopper \in {"stops", "stopped"}
  /\ stopper \in {"stops", "stopped"} =>
       ~ accepting /\ (sender.cancelled \/ sender.at = "done")
  /\ stopper = "stopped" => sender.at = "done"
  /\ discarded => pumpFailed \/ stopper \in {"stops", "stopped"}
  /\ pumpFailed => ~ accepting

PumpInv == PumpTypeOK /\ BytesAreAccounted /\ SenderInv

Senders == [at : {"created", "waits", "sends", "done"}, cancelled : BOOLEAN]

LEMMA SenderMoves ==
  ASSUME NEW s \in Senders
  PROVE  /\ s.at \in {"created", "waits", "sends", "done"} /\ s.cancelled \in BOOLEAN
         /\ \A at \in {"created", "waits", "sends", "done"} :
              LET t == [s EXCEPT !.at = at]
              IN  t \in Senders /\ t.at = at /\ t.cancelled = s.cancelled
         /\ LET t == [s EXCEPT !.cancelled = @ \/ s.at # "done"]
            IN  /\ t \in Senders /\ t.at = s.at
                /\ t.cancelled <=> s.cancelled \/ s.at # "done"
BY DEF Senders

(* The queue, and what leaves it.                                           *)
LEMMA QueueMoves ==
  ASSUME NEW q \in Seq(Sizes)
  PROVE  /\ q \in Seq(Nat) /\ Len(q) \in Nat /\ Total(q) \in Nat
         /\ Total(<<>>) = 0 /\ Len(<<>>) = 0 /\ <<>> \in Seq(Sizes)
         /\ \A x \in Sizes :
              /\ Append(q, x) \in Seq(Sizes)
              /\ Total(Append(q, x)) = Total(q) + x
              /\ Len(Append(q, x)) = Len(q) + 1
         /\ q # <<>> => /\ Tail(q) \in Seq(Sizes) /\ Head(q) \in Sizes
                        /\ Total(Tail(q)) = Total(q) - Head(q)
                        /\ Len(Tail(q)) = Len(q) - 1
<1>1. q \in Seq(Nat)
  <2>1. Len(q) \in Nat /\ q = [i \in 1 .. Len(q) |-> q[i]]
    OBVIOUS
  <2>2. \A i \in 1 .. Len(q) : q[i] \in Sizes
    OBVIOUS
  <2>3. \A i \in 1 .. Len(q) : q[i] \in Nat
    BY <2>2, PumpAssumption
  <2> QED
    BY <2>1, <2>3
<1>2. \A x \in Sizes : x \in Nat
  BY PumpAssumption
<1>3. Total(<<>>) = 0 /\ Total(q) \in Nat
  BY <1>1, Totals
<1>4. \A x \in Sizes : Total(Append(q, x)) = Total(q) + x
  BY <1>1, <1>2, Totals
<1>5. q # <<>> => Total(Tail(q)) = Total(q) - Head(q)
  BY <1>1, Totals
<1> QED
  BY <1>1, <1>3, <1>4, <1>5

LEMMA PumpInitially == PumpInit => PumpInv
<1> SUFFICES ASSUME PumpInit PROVE PumpInv
  OBVIOUS
<1>1. PumpTypeOK
  <2>1. [at |-> "created", cancelled |-> FALSE]
           \in [at : {"created", "waits", "sends", "done"}, cancelled : BOOLEAN]
    OBVIOUS
  <2>2. <<>> \in Seq(Sizes) /\ 0 \in Int
    OBVIOUS
  <2>3. "no" \in {"no", "flushes", "flushed", "unflushed", "stops", "stopped"}
    OBVIOUS
  <2> QED
    BY <2>1, <2>2, <2>3, Zenon DEF PumpInit, PumpTypeOK
<1>2. BytesAreAccounted
  <2>1. Total(<<>>) = 0 /\ 0 + 0 = 0
    BY Totals
  <2>2. Len(<<>>) = 0 /\ 0 <= MaxBytes /\ 0 <= MaxMessages
    BY PumpAssumption
  <2> QED
    BY <2>1, <2>2, Zenon DEF PumpInit, BytesAreAccounted
<1>3. SenderInv
  BY DEF PumpInit, SenderInv
<1> QED
  BY <1>1, <1>2, <1>3 DEF PumpInv

LEMMA PumpStepKeeps ==
  ASSUME PumpInv, [PumpNext]_pumpVars
  PROVE  PumpInv' /\ (stopper = "flushes" /\ stopper' = "flushed" => ~ discarded)
<1> DEFINE Honest == stopper = "flushes" /\ stopper' = "flushed" => ~ discarded
<1>0. outbox \in Seq(Sizes)
  BY DEF PumpInv, PumpTypeOK
<1>1. /\ sender \in Senders /\ queuedBytes \in Int
      /\ inFlight \in Nat /\ inFlight \in Sizes \cup {0}
      /\ pumpFailed \in BOOLEAN /\ accepting \in BOOLEAN /\ discarded \in BOOLEAN
      /\ stopper \in {"no", "flushes", "flushed", "unflushed", "stops", "stopped"}
  BY PumpAssumption DEF PumpInv, PumpTypeOK, Senders
<1>2. BytesAreAccounted /\ SenderInv
  BY DEF PumpInv
<1> DEFINE Typed == /\ outbox' \in Seq(Sizes) /\ sender' \in Senders /\ queuedBytes' \in Int
                    /\ inFlight' \in Sizes \cup {0}
                    /\ pumpFailed' \in BOOLEAN /\ accepting' \in BOOLEAN
                    /\ discarded' \in BOOLEAN
                    /\ stopper' \in {"no", "flushes", "flushed", "unflushed", "stops", "stopped"}
<1>3. SUFFICES Typed /\ BytesAreAccounted' /\ SenderInv' /\ Honest
  BY Zenon DEF PumpInv, PumpTypeOK, Senders
<1>4. /\ Len(outbox) \in Nat /\ Total(outbox) \in Nat
      /\ Total(<<>>) = 0 /\ Len(<<>>) = 0 /\ <<>> \in Seq(Sizes)
      /\ \A x \in Sizes : /\ Append(outbox, x) \in Seq(Sizes)
                          /\ Total(Append(outbox, x)) = Total(outbox) + x
                          /\ Len(Append(outbox, x)) = Len(outbox) + 1
      /\ outbox # <<>> => /\ Tail(outbox) \in Seq(Sizes) /\ Head(outbox) \in Sizes
                          /\ Total(Tail(outbox)) = Total(outbox) - Head(outbox)
                          /\ Len(Tail(outbox)) = Len(outbox) - 1
  BY <1>0, QueueMoves
<1>40. Total(outbox) \in Nat /\ Len(outbox) \in Nat
  BY <1>4
<1>5. \A x \in Sizes : x \in Nat /\ x # 0
  BY PumpAssumption
<1>6. MaxMessages \in Nat /\ MaxBytes \in Nat
  BY PumpAssumption
<1>7. queuedBytes = Total(outbox) + inFlight /\ queuedBytes <= MaxBytes
      /\ Len(outbox) <= MaxMessages /\ (stopper = "stopped" => queuedBytes = 0 /\ outbox = <<>>)
  BY <1>2 DEF BytesAreAccounted
<1>8. ASSUME outbox' = outbox, queuedBytes' = queuedBytes, inFlight' = inFlight,
             stopper' = "stopped" => stopper = "stopped"
      PROVE  BytesAreAccounted'
  BY <1>7, <1>8, Zenon DEF BytesAreAccounted
<1>9. ASSUME outbox' = <<>>, queuedBytes' = 0, inFlight' = 0
      PROVE  BytesAreAccounted'
  <2>1. 0 <= MaxBytes /\ 0 <= MaxMessages /\ 0 + 0 = 0
    BY <1>6
  <2> QED
    BY <1>4, <1>9, <2>1, Zenon DEF BytesAreAccounted
<1> USE <1>1, <1>2
<1>10. ASSUME NEW s \in Sizes, Enqueue(s)
       PROVE  Typed /\ BytesAreAccounted' /\ SenderInv' /\ Honest
  <2>1. /\ Append(outbox, s) \in Seq(Sizes) /\ Len(Append(outbox, s)) = Len(outbox) + 1
        /\ Total(Append(outbox, s)) = Total(outbox) + s /\ s \in Nat
    BY <1>4, <1>5
  <2>2. /\ outbox' = Append(outbox, s) /\ queuedBytes' = queuedBytes + s
        /\ accepting /\ ~ pumpFailed
        /\ Len(outbox) < MaxMessages /\ queuedBytes + s <= MaxBytes
        /\ UNCHANGED <<inFlight, sender, pumpFailed, accepting, stopper, discarded>>
    BY <1>10 DEF Enqueue
  <2>3. /\ Total(outbox)' = Total(outbox) + s /\ Len(outbox)' = Len(outbox) + 1
    BY <2>1, <2>2, Zenon
  <2>4. queuedBytes' = Total(outbox)' + inFlight' /\ Len(outbox)' <= MaxMessages
    BY <1>4, <1>6, <1>7, <2>1, <2>2, <2>3
  <2>5. stopper # "stopped"
    BY <2>2 DEF SenderInv
  <2>6. BytesAreAccounted'
    BY <2>2, <2>4, <2>5, Zenon DEF BytesAreAccounted
  <2> QED
    BY <2>1, <2>2, <2>6 DEF SenderInv
<1>11. ASSUME NEW s \in Sizes, EnqueueOverflows(s)
       PROVE  Typed /\ BytesAreAccounted' /\ SenderInv' /\ Honest
  <2>1. /\ sender' \in Senders /\ sender'.at = sender.at
        /\ sender'.cancelled <=> sender.cancelled \/ sender.at # "done"
    BY <1>11, SenderMoves DEF EnqueueOverflows
  <2> QED
    BY <1>0, <1>8, <1>11, <2>1 DEF EnqueueOverflows, SenderInv
<1>12. CASE SenderBegins
  <2>1. sender' \in Senders /\ sender'.at = "waits" /\ sender'.cancelled = sender.cancelled
    BY <1>12, SenderMoves DEF SenderBegins
  <2> QED
    BY <1>0, <1>8, <1>12, <2>1 DEF SenderBegins, SenderInv
<1>13. ASSUME outbox # <<>>, outbox' = Tail(outbox), inFlight' = Head(outbox),
              queuedBytes' = queuedBytes - inFlight,
              stopper' = stopper, sender.at # "done"
       PROVE  /\ BytesAreAccounted' /\ outbox' \in Seq(Sizes) /\ inFlight' \in Sizes
              /\ queuedBytes' \in Int
  <2>1. /\ Tail(outbox) \in Seq(Sizes) /\ Head(outbox) \in Sizes /\ Head(outbox) \in Nat
        /\ Total(Tail(outbox)) = Total(outbox) - Head(outbox)
        /\ Len(Tail(outbox)) = Len(outbox) - 1
    BY <1>4, <1>5, <1>13
  <2>2. Total(outbox)' = Total(outbox) - Head(outbox) /\ Len(outbox)' = Len(outbox) - 1
    BY <1>13, <2>1, Zenon
  <2>3. queuedBytes' = Total(outbox)' + inFlight' /\ Len(outbox)' <= MaxMessages
        /\ queuedBytes' <= MaxBytes
    BY <1>40, <1>6, <1>7, <1>13, <2>1, <2>2
  <2>4. stopper' # "stopped"
    BY <1>13 DEF SenderInv
  <2>5. BytesAreAccounted'
    BY <2>3, <2>4, Zenon DEF BytesAreAccounted
  <2> QED
    BY <1>13, <2>1, <2>5
<1>14. CASE TakeMessage
  <2>1. sender' \in Senders /\ sender'.at = "sends" /\ sender'.cancelled = sender.cancelled
    BY <1>14, SenderMoves DEF TakeMessage
  <2>2. /\ outbox # <<>> /\ outbox' = Tail(outbox) /\ inFlight' = Head(outbox)
        /\ queuedBytes' = queuedBytes - inFlight
        /\ sender.at = "waits"
        /\ UNCHANGED <<pumpFailed, accepting, stopper, discarded>>
    BY <1>14 DEF TakeMessage, SenderInv
  <2>3. /\ BytesAreAccounted' /\ outbox' \in Seq(Sizes) /\ inFlight' \in Sizes
        /\ queuedBytes' \in Int
    BY <1>13, <2>2
  <2> QED
    BY <2>1, <2>2, <2>3 DEF SenderInv
<1>15. CASE Sent
  <2>1. CASE outbox = <<>>
    <3>1. sender' \in Senders /\ sender'.at = "waits" /\ sender'.cancelled = sender.cancelled
      <4>1. sender' = [sender EXCEPT !.at = "waits"]
        BY <1>15, <2>1 DEF Sent
      <4> QED
        BY <4>1, SenderMoves
    <3>2. /\ sender.at = "sends" /\ outbox' = <<>> /\ inFlight' = 0
          /\ queuedBytes' = queuedBytes - inFlight
          /\ UNCHANGED <<pumpFailed, accepting, stopper, discarded>>
      BY <1>15, <2>1 DEF Sent
    <3>3. queuedBytes' = 0
      BY <1>4, <1>7, <2>1, <3>2
    <3> QED
      BY <1>4, <1>9, <3>1, <3>2, <3>3 DEF SenderInv
  <2>2. CASE outbox # <<>>
    <3>1. /\ sender.at = "sends" /\ outbox' = Tail(outbox) /\ inFlight' = Head(outbox)
          /\ queuedBytes' = queuedBytes - inFlight
          /\ UNCHANGED <<sender, pumpFailed, accepting, stopper, discarded>>
      BY <1>15, <2>2 DEF Sent
    <3>2. /\ BytesAreAccounted' /\ outbox' \in Seq(Sizes) /\ inFlight' \in Sizes
          /\ queuedBytes' \in Int
      BY <1>13, <2>2, <3>1
    <3> QED
      BY <3>1, <3>2 DEF SenderInv
  <2> QED
    BY <2>1, <2>2
<1>16. CASE SendFails
  <2>1. sender' \in Senders /\ sender'.at = "done" /\ sender'.cancelled = sender.cancelled
    BY <1>16, SenderMoves DEF SendFails
  <2>2. /\ outbox' = <<>> /\ inFlight' = 0 /\ pumpFailed' = TRUE /\ accepting' = FALSE
        /\ queuedBytes' = (queuedBytes - inFlight) - Total(outbox)
        /\ discarded' \in BOOLEAN /\ stopper' = stopper /\ sender.at # "done"
    BY <1>16 DEF SendFails, Discards
  <2>3. queuedBytes' = 0
    BY <1>40, <1>7, <2>2
  <2>4. BytesAreAccounted'
    BY <1>9, <2>2, <2>3
  <2>5. SenderInv'
    BY <2>1, <2>2 DEF SenderInv
  <2>6. <<>> \in Seq(Sizes) /\ TRUE \in BOOLEAN /\ FALSE \in BOOLEAN /\ 0 \in Int
    BY <1>4
  <2>7. Honest
    BY <2>2
  <2>8. Typed
    BY <2>1, <2>2, <2>3, <2>6, Zenon
  <2> QED
    BY <2>4, <2>5, <2>7, <2>8
<1>17. CASE SenderCancelled
  <2>1. sender' \in Senders /\ sender'.at = "done" /\ sender'.cancelled = sender.cancelled
    BY <1>17, SenderMoves DEF SenderCancelled
  <2>2. /\ sender.cancelled /\ sender.at # "done" /\ inFlight' = 0
        /\ UNCHANGED <<pumpFailed, accepting, stopper>>
    BY <1>17 DEF SenderCancelled
  <2>3. CASE sender.at = "created"
    <3>1. /\ UNCHANGED <<outbox, queuedBytes, discarded>> /\ inFlight' = inFlight
      BY <1>17, <2>2, <2>3 DEF SenderCancelled, SenderInv
    <3> QED
      BY <1>0, <1>8, <2>1, <2>2, <3>1 DEF SenderInv
  <2>4. CASE sender.at # "created"
    <3>1. /\ outbox' = <<>> /\ queuedBytes' = (queuedBytes - inFlight) - Total(outbox)
          /\ discarded' \in BOOLEAN
      BY <1>17, <2>4 DEF SenderCancelled, Discards
    <3>2. queuedBytes' = 0
      BY <1>40, <1>7, <3>1
    <3> QED
      BY <1>4, <1>9, <2>1, <2>2, <3>1, <3>2 DEF SenderInv
  <2> QED
    BY <2>3, <2>4
<1>18. CASE BeginFlush \/ Joined \/ FlushExpires
  <2>1. /\ UNCHANGED <<outbox, inFlight, queuedBytes, sender, pumpFailed, accepting, discarded>>
        /\ stopper \in {"no", "flushes"} /\ stopper' \in {"flushes", "flushed", "unflushed"}
        /\ stopper' = "flushed" => ~ pumpFailed
    BY <1>18 DEF BeginFlush, Joined, FlushExpires
  <2> QED
    BY <1>0, <1>8, <2>1 DEF SenderInv
<1>19. CASE BeginStop
  <2>1. /\ sender' \in Senders /\ sender'.at = sender.at
        /\ sender'.cancelled <=> sender.cancelled \/ sender.at # "done"
    BY <1>19, SenderMoves DEF BeginStop
  <2> QED
    BY <1>0, <1>8, <1>19, <2>1 DEF BeginStop, SenderInv
<1>20. CASE Stopped
  <2>1. /\ stopper = "stops" /\ sender.at = "done" /\ stopper' = "stopped" /\ outbox' = <<>>
        /\ queuedBytes' = queuedBytes - Total(outbox) /\ discarded' \in BOOLEAN
        /\ UNCHANGED <<inFlight, sender, pumpFailed, accepting>>
    BY <1>20 DEF Stopped, Discards
  <2>2. inFlight' = 0 /\ queuedBytes' = 0
    <3>1. inFlight = 0
      BY <2>1 DEF SenderInv
    <3> QED
      BY <1>40, <1>7, <2>1, <3>1
  <2> QED
    BY <1>4, <1>9, <2>1, <2>2 DEF SenderInv
<1>21. CASE UNCHANGED pumpVars
  BY <1>0, <1>8, <1>21 DEF pumpVars, SenderInv
<1> QED
  BY <1>10, <1>11, <1>12, <1>14, <1>15, <1>16, <1>17, <1>18, <1>19, <1>20, <1>21
     DEF PumpNext, PumpStep

(* app.py _OutboundPump: the byte count is what is queued and in flight and *)
(* within its limits on every path, and flush() says that everything was    *)
(* sent only if nothing was discarded.                                      *)
THEOREM PumpIsHonest == PumpSpec => []BytesAreAccounted /\ FlushIsHonest
<1>1. PumpSpec => []PumpInv
  BY PumpInitially, PumpStepKeeps, PTL DEF PumpSpec
<1>2. PumpInv => BytesAreAccounted /\ PumpTypeOK
  BY DEF PumpInv
<1>3. ASSUME PumpInv, PumpInv', [PumpNext]_pumpVars
      PROVE  /\ stopper = "flushes" /\ stopper' = "flushed" => ~discarded
             /\ PumpTypeOK' /\ BytesAreAccounted'
  BY <1>3, PumpStepKeeps DEF PumpInv
<1> QED
  BY <1>1, <1>2, <1>3, PTL DEF PumpSpec, FlushIsHonest
-----------------------------------------------------------------------------
(* Replay cache and token buckets                                          *)

(* A token that was consumed in its time is in the cache as long as that    *)
(* time lasts, whatever is purged.                                          *)
ConsumedIsCached ==
  \A t \in Token : \A s \in uses[t] :
    s <= Expiry[t] =>
      /\ \A u \in uses[t] : u <= Expiry[t] => u = s
      /\ now <= Expiry[t] => t \in DOMAIN entries /\ entries[t] >= Expiry[t]

(* What a host may still be let through now: the budget with its refill, or *)
(* a full bucket where it is not known.                                     *)
Allowance ==
  IF bucket = Forgotten THEN Burst
  ELSE Lesser(Burst, bucket.budget + (now - bucket.at) * Rate)

(* What was let through since any time and what may still be, together,     *)
(* stay within the burst and the refill.                                    *)
RateIsEarned ==
  /\ bucket # Forgotten => bucket.at <= now
  /\ \A s \in Time : now < s => admitted[s] = 0
  /\ \A s \in 0 .. now : admitted[s] + Allowance <= Burst + Rate * (now - s)
  /\ open => bucket # Forgotten

LimitsInv == LimitsTypeOK /\ ConsumedIsCached /\ RateIsEarned

LEMMA LimitsInitially == LimitsInit => LimitsInv
<1> SUFFICES ASSUME LimitsInit PROVE LimitsInv
  OBVIOUS
<1> USE LimitsAssumption DEF LimitsInit
<1>1. LimitsTypeOK
  <2>1. DOMAIN entries = {}
    OBVIOUS
  <2>2. uses \in [Token -> SUBSET Time] /\ admitted \in [Time -> Nat] /\ now \in Time
    BY DEF Time
  <2> QED
    BY <2>1, <2>2 DEF LimitsTypeOK
<1>2. ConsumedIsCached
  BY DEF ConsumedIsCached
<1>3. RateIsEarned
  BY DEF RateIsEarned, Time, Allowance
<1> QED
  BY <1>1, <1>2, <1>3 DEF LimitsInv

LEMMA Buckets ==
  ASSUME bucket \in [budget : 0 .. Burst, at : Time] \cup {Forgotten}, bucket # Forgotten
  PROVE  /\ bucket.budget \in 0 .. Burst /\ bucket.at \in 0 .. MaxTime
BY DEF Time

LEMMA NewBucket ==
  ASSUME NEW b \in 0 .. Burst, NEW t \in 0 .. MaxTime
  PROVE  /\ [budget |-> b, at |-> t] \in [budget : 0 .. Burst, at : Time]
         /\ [budget |-> b, at |-> t] # Forgotten
<1>1. [budget |-> b, at |-> t].budget # Forgotten.budget
  BY LimitsAssumption DEF Forgotten
<1> QED
  BY <1>1 DEF Time

(* More time earns no less.                                                 *)
LEMMA Earning ==
  ASSUME NEW x \in Nat, NEW y \in Nat, x <= y
  PROVE  x * Rate <= y * Rate /\ x * Rate \in Nat /\ (x + 1) * Rate = x * Rate + Rate
<1>1. Rate \in Nat
  BY LimitsAssumption
<1> QED
  BY <1>1

LEMMA LimitsStep ==
  ASSUME LimitsInv, [LimitsNext]_limitVars
  PROVE  LimitsInv'
<1> USE LimitsAssumption
<1>1. LimitsTypeOK /\ ConsumedIsCached /\ RateIsEarned
  BY DEF LimitsInv
<1>2. CASE Tick
  <2>1. LimitsTypeOK'
    BY <1>1, <1>2 DEF Tick, LimitsTypeOK, Time
  <2>2. ConsumedIsCached'
    BY <1>1, <1>2 DEF Tick, LimitsTypeOK, Time, ConsumedIsCached
  <2>3. now \in Nat /\ now' = now + 1 /\ bucket' = bucket /\ admitted' = admitted
    BY <1>1, <1>2 DEF Tick, LimitsTypeOK, Time
  <2>4. Allowance \in Nat /\ Allowance' \in Nat /\ Allowance' <= Burst /\ Allowance' <= Allowance + Rate
    <3>1. CASE bucket = Forgotten
      BY <2>3, <3>1 DEF Allowance
    <3>2. CASE bucket # Forgotten
      <4>1. bucket.budget \in Nat /\ bucket.at \in Nat /\ now - bucket.at \in Nat
        BY <1>1, <2>3, <3>2, Buckets DEF LimitsTypeOK, RateIsEarned
      <4>2. /\ (now - bucket.at) * Rate \in Nat
            /\ (now' - bucket.at) * Rate = (now - bucket.at) * Rate + Rate
        <5>1. now' - bucket.at = (now - bucket.at) + 1
          BY <2>3, <4>1
        <5> QED
          BY <4>1, <5>1, Earning
      <4> QED
        BY <2>3, <3>2, <4>1, <4>2 DEF Allowance, Lesser
    <3> QED
      BY <3>1, <3>2
  <2>5. RateIsEarned'
    <3>1. bucket' # Forgotten => bucket'.at <= now'
      BY <1>1, <2>3, Buckets DEF LimitsTypeOK, RateIsEarned
    <3>2. \A s \in Time : now' < s => admitted'[s] = 0
      BY <1>1, <2>3 DEF RateIsEarned, Time
    <3>3. ASSUME NEW s \in 0 .. now'
          PROVE  admitted'[s] + Allowance' <= Burst + Rate * (now' - s)
      <4>1. CASE s = now'
        <5>1. admitted'[s] = 0
          BY <1>1, <1>2, <2>3, <4>1 DEF RateIsEarned, Tick, Time, LimitsTypeOK
        <5>2. Rate * (now' - s) = 0
          BY <2>3, <4>1
        <5> QED
          BY <2>4, <5>1, <5>2
      <4>2. CASE s # now'
        <5>1. s \in 0 .. now /\ s \in Time
          BY <1>1, <2>3, <4>2 DEF LimitsTypeOK, Time
        <5>2. admitted[s] + Allowance <= Burst + Rate * (now - s) /\ admitted[s] \in Nat
          BY <1>1, <5>1 DEF RateIsEarned, LimitsTypeOK
        <5>3. Rate * (now' - s) = Rate * (now - s) + Rate /\ Rate * (now - s) \in Nat
          <6>1. now - s \in Nat /\ now' - s = (now - s) + 1
            BY <2>3, <5>1
          <6> QED
            BY <6>1, Earning
        <5> QED
          BY <2>3, <2>4, <5>2, <5>3
      <4> QED
        BY <4>1, <4>2
    <3>4. open' => bucket' # Forgotten
      BY <1>1, <1>2 DEF Tick, RateIsEarned
    <3> QED
      BY <3>1, <3>2, <3>3, <3>4 DEF RateIsEarned
  <2> QED
    BY <2>1, <2>2, <2>5 DEF LimitsInv
<1>3. ASSUME NEW t \in Token, ConsumeToken(t)
      PROVE  LimitsInv'
  <2>0. now \in Nat /\ Expiry[t] \in Nat /\ Greater(Expiry[t], now + Skew) \in Nat
        /\ Greater(Expiry[t], now + Skew) >= Expiry[t]
    BY <1>1 DEF LimitsTypeOK, Time, Greater
  <2>1. DOMAIN Live = {u \in DOMAIN entries : entries[u] >= now}
        /\ \A u \in DOMAIN Live : Live[u] = entries[u]
    BY DEF Live, Restrict
  <2>2. /\ DOMAIN entries' = DOMAIN Live \cup {t}
        /\ entries'[t] = Greater(Expiry[t], now + Skew)
        /\ \A u \in DOMAIN Live \ {t} : entries'[u] = entries[u]
    BY <1>3, <2>1 DEF ConsumeToken
  <2>3. /\ now' = now
        /\ uses'[t] = uses[t] \cup {now}
        /\ \A u \in Token \ {t} : uses'[u] = uses[u]
        /\ uses' \in [Token -> SUBSET Time]
    BY <1>1, <1>3 DEF ConsumeToken, LimitsTypeOK
  <2>4. LimitsTypeOK'
    <3>1. DOMAIN entries' \subseteq Token /\ \A u \in DOMAIN entries' : entries'[u] \in Nat
      BY <1>1, <2>0, <2>1, <2>2 DEF LimitsTypeOK
    <3> QED
      BY <1>1, <1>3, <2>3, <3>1 DEF ConsumeToken, LimitsTypeOK
  <2>5. ConsumedIsCached'
    <3>1. ASSUME NEW u \in Token, NEW s \in uses'[u], s <= Expiry[u]
          PROVE  /\ \A v \in uses'[u] : v <= Expiry[u] => v = s
                 /\ now' <= Expiry[u] => u \in DOMAIN entries' /\ entries'[u] >= Expiry[u]
      <4>1. CASE u # t
        <5>1. uses'[u] = uses[u]
          BY <2>3, <4>1
        <5>2. /\ \A v \in uses[u] : v <= Expiry[u] => v = s
              /\ now <= Expiry[u] => u \in DOMAIN entries /\ entries[u] >= Expiry[u]
          BY <1>1, <3>1, <5>1 DEF ConsumedIsCached
        <5>3. now <= Expiry[u] => u \in DOMAIN Live
          BY <1>1, <2>0, <2>1, <5>2 DEF LimitsTypeOK
        <5> QED
          BY <2>2, <2>3, <4>1, <5>1, <5>2, <5>3
      <4>2. CASE u = t
        <5>1. t \notin DOMAIN Live
          BY <1>3 DEF ConsumeToken
        <5>2. now <= Expiry[t] => \A v \in uses[t] : ~ (v <= Expiry[t])
          BY <1>1, <2>0, <2>1, <5>1 DEF ConsumedIsCached, LimitsTypeOK
        <5>3. \A v, w \in uses[t] : v <= Expiry[t] /\ w <= Expiry[t] => v = w
          BY <1>1 DEF ConsumedIsCached
        <5> QED
          BY <2>0, <2>2, <2>3, <3>1, <4>2, <5>2, <5>3
      <4> QED
        BY <4>1, <4>2
    <3> QED
      BY <3>1 DEF ConsumedIsCached
  <2>6. RateIsEarned'
    BY <1>1, <1>3 DEF ConsumeToken, RateIsEarned, Allowance
  <2> QED
    BY <2>4, <2>5, <2>6 DEF LimitsInv
<1>4. ASSUME NEW t \in Token, RefuseToken(t)
      PROVE  LimitsInv'
  <2>1. /\ DOMAIN entries' = {u \in DOMAIN entries : entries[u] >= now}
        /\ \A u \in DOMAIN entries' : entries'[u] = entries[u]
    BY <1>4 DEF RefuseToken, Live, Restrict
  <2>2. LimitsTypeOK'
    BY <1>1, <1>4, <2>1 DEF RefuseToken, LimitsTypeOK
  <2>3. ConsumedIsCached'
    <3>1. ASSUME NEW u \in Token, now <= Expiry[u], u \in DOMAIN entries, entries[u] >= Expiry[u]
          PROVE  u \in DOMAIN entries' /\ entries'[u] >= Expiry[u]
      BY <1>1, <2>1, <3>1 DEF LimitsTypeOK, Time
    <3> QED
      BY <1>1, <1>4, <3>1 DEF RefuseToken, ConsumedIsCached
  <2>4. RateIsEarned'
    BY <1>1, <1>4 DEF RefuseToken, RateIsEarned, Allowance
  <2> QED
    BY <2>2, <2>3, <2>4 DEF LimitsInv
<1>5. CASE HostConnects
  <2>1. LimitsTypeOK' /\ bucket' # Forgotten
    BY <1>1, <1>5, NewBucket DEF HostConnects, LimitsTypeOK, Time
  <2>2. ConsumedIsCached'
    BY <1>1, <1>5 DEF HostConnects, ConsumedIsCached
  <2>3. Allowance' = Allowance /\ bucket'.at <= now
    <3>1. CASE bucket = Forgotten
      <4>1. bucket' = [budget |-> Burst, at |-> now] /\ now' = now
        BY <1>5, <3>1 DEF HostConnects
      <4>2. bucket'.budget = Burst /\ bucket'.at = now /\ now \in Nat
        BY <1>1, <4>1 DEF LimitsTypeOK, Time
      <4>3. (now' - bucket'.at) * Rate = 0
        BY <4>1, <4>2
      <4> QED
        BY <2>1, <3>1, <4>1, <4>2, <4>3 DEF Allowance, Lesser
    <3>2. CASE bucket # Forgotten
      BY <1>1, <1>5, <3>2 DEF HostConnects, Allowance, RateIsEarned
    <3> QED
      BY <3>1, <3>2
  <2>4. RateIsEarned'
    BY <1>1, <1>5, <2>1, <2>3 DEF HostConnects, RateIsEarned
  <2> QED
    BY <2>1, <2>2, <2>4 DEF LimitsInv
<1>6. CASE HostLeaves
  BY <1>1, <1>6 DEF HostLeaves, LimitsInv, LimitsTypeOK, ConsumedIsCached, RateIsEarned, Allowance
<1>7. CASE EvictHost
  <2>1. LimitsTypeOK'
    BY <1>1, <1>7 DEF EvictHost, LimitsTypeOK
  <2>2. ConsumedIsCached'
    BY <1>1, <1>7 DEF EvictHost, ConsumedIsCached
  <2>3. Allowance = Burst /\ Allowance' = Burst
    <3>1. /\ now \in Nat /\ now' = now /\ bucket # Forgotten /\ now - bucket.at > Stale
          /\ bucket' = Forgotten
      BY <1>1, <1>7 DEF EvictHost, LimitsTypeOK, Time
    <3>2. bucket.budget \in Nat /\ bucket.at \in Nat
      BY <1>1, <3>1, Buckets DEF LimitsTypeOK
    <3>3. (now - bucket.at) * Rate >= Stale * Rate
      <4>1. now - bucket.at \in Nat /\ Stale <= now - bucket.at
        BY <3>1, <3>2
      <4>2. Stale * Rate <= (now - bucket.at) * Rate
        BY <4>1, Earning
      <4> QED
        BY <4>1, <4>2
    <3>4. (now - bucket.at) * Rate \in Nat
      BY <3>1, <3>2
    <3> QED
      BY <3>1, <3>2, <3>3, <3>4 DEF Allowance, Lesser
  <2>4. RateIsEarned'
    BY <1>1, <1>7, <2>3 DEF EvictHost, RateIsEarned
  <2> QED
    BY <2>1, <2>2, <2>4 DEF LimitsInv
<1>8. ASSUME NEW amount \in 1 .. Burst + 1, Consume(amount)
      PROVE  LimitsInv'
  <2> DEFINE allowed == amount <= Allowance
  <2>1. /\ bucket # Forgotten /\ now \in 0 .. MaxTime /\ now' = now
        /\ bucket.budget \in Nat /\ bucket.at \in Nat /\ now - bucket.at \in Nat
    <3>1. bucket # Forgotten /\ now \in 0 .. MaxTime /\ now' = now /\ bucket.at <= now
      BY <1>1, <1>8 DEF Consume, LimitsTypeOK, RateIsEarned, Time
    <3>2. bucket.budget \in 0 .. Burst /\ bucket.at \in 0 .. MaxTime
      BY <1>1, <3>1, Buckets DEF LimitsTypeOK
    <3> QED
      BY <3>1, <3>2
  <2>2. Allowance = Lesser(Burst, bucket.budget + (now - bucket.at) * Rate)
    BY <2>1 DEF Allowance
  <2>3. Allowance \in 0 .. Burst
    <3>1. (now - bucket.at) * Rate \in Nat
      BY <2>1
    <3> QED
      BY <2>1, <2>2, <3>1 DEF Lesser
  <2> DEFINE rest == IF allowed THEN Allowance - amount ELSE Allowance
  <2>4. /\ bucket' = [budget |-> rest, at |-> now]
        /\ admitted' = [s \in Time |-> IF allowed /\ s <= now THEN admitted[s] + amount
                                                             ELSE admitted[s]]
    BY <1>8, <2>2 DEF Consume
  <2>5. rest \in 0 .. Burst
    BY <2>3
  <2>6. bucket' \in [budget : 0 .. Burst, at : Time] /\ bucket' # Forgotten
    BY <2>1, <2>4, <2>5, NewBucket
  <2>7. LimitsTypeOK'
    BY <1>1, <1>8, <2>4, <2>6 DEF Consume, LimitsTypeOK
  <2>8. ConsumedIsCached'
    BY <1>1, <1>8 DEF Consume, ConsumedIsCached
  <2>9. Allowance' = rest /\ bucket'.at = now
    <3>1. bucket'.budget = rest /\ bucket'.at = now
      BY <2>4
    <3>2. (now' - bucket'.at) * Rate = 0
      BY <2>1, <3>1
    <3> HIDE DEF rest
    <3> QED
      BY <2>1, <2>5, <2>6, <3>1, <3>2 DEF Allowance, Lesser
  <2>10. RateIsEarned'
    <3>1. ASSUME NEW s \in Time, now' < s PROVE admitted'[s] = 0
      BY <1>1, <2>1, <2>4, <3>1 DEF RateIsEarned, Time
    <3>2. ASSUME NEW s \in 0 .. now'
          PROVE  admitted'[s] + Allowance' <= Burst + Rate * (now' - s)
      <4>1. s \in Time /\ s <= now /\ s \in 0 .. now
        BY <2>1 DEF Time
      <4>2. admitted[s] \in Nat /\ admitted[s] + Allowance <= Burst + Rate * (now - s)
        BY <1>1, <4>1 DEF LimitsTypeOK, RateIsEarned
      <4>3. admitted'[s] + rest = admitted[s] + Allowance
        BY <2>3, <2>4, <4>1, <4>2
      <4> HIDE DEF rest
      <4> QED
        BY <2>1, <2>9, <4>2, <4>3
    <3>3. (bucket' # Forgotten => bucket'.at <= now') /\ (open' => bucket' # Forgotten)
      BY <2>1, <2>6, <2>9
    <3> QED
      BY <3>1, <3>2, <3>3 DEF RateIsEarned
  <2> QED
    BY <2>7, <2>8, <2>10 DEF LimitsInv
<1>9. CASE UNCHANGED limitVars
  BY <1>1, <1>9 DEF limitVars, LimitsInv, LimitsTypeOK, ConsumedIsCached, RateIsEarned, Allowance
<1> QED
  BY <1>2, <1>3, <1>4, <1>5, <1>6, <1>7, <1>8, <1>9 DEF LimitsNext

(* auth.py, app.py: a session token starts one session until it expires,    *)
(* and a host is let through no more than its burst and the refill in any   *)
(* window, also across evictions of its bucket.                             *)
THEOREM LimitsAreKept == LimitsSpec => []LimitsHold
<1>1. LimitsInv => LimitsHold
  <2> SUFFICES ASSUME LimitsInv PROVE LimitsHold
    OBVIOUS
  <2>1. TokenIsUsedOnce
    <3> SUFFICES ASSUME NEW t \in Token
                 PROVE  Cardinality({s \in uses[t] : s <= Expiry[t]}) <= 1
      BY DEF TokenIsUsedOnce
    <3> DEFINE inTime == {s \in uses[t] : s <= Expiry[t]}
    <3>1. \A v, w \in inTime : v = w
      BY DEF LimitsInv, ConsumedIsCached
    <3>2. inTime = {} \/ \E v : inTime = {v}
      BY <3>1
    <3> HIDE DEF inTime
    <3>3. inTime = {} => Cardinality(inTime) = 0
      BY FS_EmptySet
    <3>4. ASSUME NEW v, inTime = {v} PROVE Cardinality(inTime) = 1
      BY <3>4, FS_Singleton
    <3>5. Cardinality(inTime) <= 1
      BY <3>2, <3>3, <3>4
    <3> QED
      BY <3>5, Zenon DEF inTime
  <2>2. RateIsBounded
    <3> SUFFICES ASSUME NEW s \in 0 .. now
                 PROVE  admitted[s] <= Burst + Rate * (now - s)
      BY DEF RateIsBounded
    <3>1. /\ s \in Time /\ now \in Nat /\ admitted[s] \in Nat
          /\ admitted[s] + Allowance <= Burst + Rate * (now - s)
      <4>1. now \in 0 .. MaxTime /\ admitted \in [Time -> Nat]
        BY DEF LimitsInv, LimitsTypeOK, Time
      <4>2. admitted[s] + Allowance <= Burst + Rate * (now - s)
        BY Zenon DEF LimitsInv, RateIsEarned
      <4>3. s \in Time
        BY <4>1, LimitsAssumption DEF Time
      <4> QED
        BY <4>1, <4>2, <4>3
    <3>2. Allowance \in Nat
      <4>1. CASE bucket = Forgotten
        BY <4>1, LimitsAssumption DEF Allowance
      <4>2. CASE bucket # Forgotten
        <5>1. bucket.budget \in Nat /\ bucket.at \in Nat /\ now - bucket.at \in Nat
          BY <3>1, <4>2, Buckets DEF LimitsInv, LimitsTypeOK, RateIsEarned
        <5>2. (now - bucket.at) * Rate \in Nat
          BY <5>1, LimitsAssumption
        <5> QED
          BY <4>2, <5>1, <5>2, LimitsAssumption DEF Allowance, Lesser
      <4> QED
        BY <4>1, <4>2
    <3>3. Rate * (now - s) \in Nat /\ Burst \in Nat
      BY <3>1, LimitsAssumption
    <3> QED
      BY <3>1, <3>2, <3>3
  <2> QED
    BY <2>1, <2>2 DEF LimitsInv, LimitsHold
<1> QED
  BY <1>1, LimitsInitially, LimitsStep, PTL DEF LimitsSpec
-----------------------------------------------------------------------------
(* The persona registry                                                    *)

Entry == [revision : 1 .. MaxRevision, digest : Manifest, persona : PersonaId,
          withdrawn : BOOLEAN]

PersonaTypeOK ==
  /\ file \in [PersonaId -> Manifest \cup {NoManifest}]
  /\ consents \in [ConsentId -> Entry \cup {NoState}]
  /\ saved \in [ConsentId -> Entry \cup {NoState}]
  /\ grants \in [Session -> Manifest \cup {NoManifest}]
  /\ latest \in [ConsentId -> Manifest \cup {NothingYet, Withdrew}]

\* An entry as strict as another covers what that one covers.
AsStrict(new, old) ==
  \A did \in Manifest \cup {NothingYet, Withdrew} : Covers(old, did) => Covers(new, did)

\* The file may be ahead of the memory, after an fsync that failed, and never behind:
\* a call that finds its entry in memory relies on the file without writing it.
PersonaIInv ==
  /\ PersonaTypeOK
  /\ \A c \in ConsentId : Covers(consents[c], latest[c]) /\ AsStrict(saved[c], consents[c])

LEMMA NoneIsNoManifest ==
  ASSUME NEW m \in Manifest
  PROVE  m # NoManifest /\ m # NothingYet /\ m # Withdrew
<1>1. DOMAIN m = {"persona", "consent", "revision", "active", "body"}
  BY DEF Manifest
<1>2. DOMAIN NoManifest = {"none"} /\ DOMAIN NothingYet = {"none"} /\ DOMAIN Withdrew = {"none"}
  BY DEF NoManifest, NothingYet, Withdrew
<1> QED BY <1>1, <1>2

LEMMA NoneIsNoEntry ==
  /\ \A e \in Entry : e # NoState
  /\ NothingYet # Withdrew
<1>1. ASSUME NEW e \in Entry PROVE e # NoState
  <2>1. DOMAIN e = {"revision", "digest", "persona", "withdrawn"}
    BY DEF Entry
  <2>2. DOMAIN NoState = {"none"}
    BY DEF NoState
  <2> QED BY <2>1, <2>2
<1>2. NothingYet.none # Withdrew.none
  BY DEF NothingYet, Withdrew
<1> QED BY <1>1, <1>2

\* _commit_active_state writes an entry for what it grants, and a strict one: nothing
\* that the old entry excluded is possible under the new one.
LEMMA ActiveIsStrict ==
  ASSUME PersonaTypeOK, NEW m \in Manifest, m.active, Allowed(m)
  PROVE  /\ Active(m) \in Entry /\ Covers(Active(m), m)
         /\ AsStrict(Active(m), consents[m.consent])
<1>1. m.consent \in ConsentId /\ m.persona \in PersonaId /\ m.revision \in 1 .. MaxRevision
  BY DEF Manifest
<1>2. Active(m) \in Entry /\ Active(m) # NoState
  BY <1>1, NoneIsNoEntry DEF Active, State, Entry
<1>3. Covers(Active(m), m)
  BY <1>1, <1>2 DEF Covers, Active, State
<1>4. ASSUME NEW did \in Manifest \cup {NothingYet, Withdrew}, Covers(consents[m.consent], did)
      PROVE  Covers(Active(m), did)
  <2>1. CASE did = NothingYet
    BY <2>1 DEF Covers
  <2>2. CASE did # NothingYet
    <3>1. consents[m.consent] \in Entry /\ consents[m.consent] # NoState
      BY <1>1, <1>4, <2>2 DEF Covers, PersonaTypeOK
    <3>2. did \in Manifest /\ did.revision \in 1 .. MaxRevision
      BY <1>4, <2>2, <3>1 DEF Covers, Allowed, Manifest
    <3> QED BY <1>1, <1>2, <1>4, <2>2, <3>1, <3>2, PersonaAssumption
            DEF Covers, Allowed, Active, State, Entry, PersonaAssumption
  <2> QED BY <2>1, <2>2
<1> QED BY <1>2, <1>3, <1>4 DEF AsStrict

\* _record_withdrawal does too.
LEMMA WithdrawnIsStrict ==
  ASSUME PersonaTypeOK, NEW m \in Manifest
  PROVE  /\ Withdrawn(m) \in Entry /\ Covers(Withdrawn(m), Withdrew)
         /\ AsStrict(Withdrawn(m), consents[m.consent])
<1>1. m.consent \in ConsentId /\ m.persona \in PersonaId /\ m.revision \in 1 .. MaxRevision
  BY DEF Manifest
<1>2. Withdrawn(m) \in Entry /\ Withdrawn(m).withdrawn /\ Withdrawn(m) # NoState
  BY <1>1, NoneIsNoEntry DEF Withdrawn, State, Entry, PersonaTypeOK
<1>3. Covers(Withdrawn(m), Withdrew)
  BY <1>2 DEF Covers
<1>4. ASSUME NEW did \in Manifest \cup {NothingYet, Withdrew}, Covers(consents[m.consent], did)
      PROVE  Covers(Withdrawn(m), did)
  <2>1. CASE did = NothingYet \/ did = Withdrew
    BY <1>3, <2>1 DEF Covers
  <2>2. CASE did \in Manifest /\ did # NothingYet /\ did # Withdrew
    <3>1. consents[m.consent] # NoState /\ consents[m.consent].persona = did.persona
      BY <1>4, <2>2 DEF Covers
    <3>2. Withdrawn(m).persona = did.persona
      BY <3>1 DEF Withdrawn, State
    <3> QED BY <1>2, <2>2, <3>2 DEF Covers
  <2> QED BY <2>1, <2>2
<1> QED BY <1>2, <1>3, <1>4 DEF AsStrict

\* _persist_state that works, or fails in its write or in the fsync after it
LEMMA KeepKeeps ==
  ASSUME PersonaIInv, "temp" \notin Faults,
         NEW c \in ConsentId, NEW entry \in Entry, AsStrict(entry, consents[c]),
         NEW result \in {"kept"} \cup Faults, Keep(c, entry, result),
         NEW did \in Manifest \cup {Withdrew}, Covers(entry, did),
         latest' = IF result = "kept" THEN [latest EXCEPT ![c] = did] ELSE latest
  PROVE  /\ consents' \in [ConsentId -> Entry \cup {NoState}]
         /\ saved' \in [ConsentId -> Entry \cup {NoState}]
         /\ latest' \in [ConsentId -> Manifest \cup {NothingYet, Withdrew}]
         /\ \A d \in ConsentId :
              Covers(consents'[d], latest'[d]) /\ AsStrict(saved'[d], consents'[d])
<1>0. result \in {"kept", "write", "sync"} /\ "kept" \notin Faults
  BY PersonaAssumption DEF PersonaAssumption, FaultKinds
<1> USE DEF PersonaIInv, PersonaTypeOK
<1>1. latest' \in [ConsentId -> Manifest \cup {NothingYet, Withdrew}]
  OBVIOUS
<1> DEFINE changed == [consents EXCEPT ![c] = entry]
<1>2. /\ consents' \in {consents, changed} /\ saved' \in {saved, changed}
      /\ consents' = changed => saved' = changed \/ (saved' = saved /\ changed = consents)
      /\ result = "kept" => consents' = changed
  <2>1. CASE consents[c] = entry
    <3>1. changed = consents
      BY <2>1
    <3> QED BY <2>1, <3>1 DEF Keep
  <2>2. CASE consents[c] # entry
    BY <1>0, <2>2 DEF Keep
  <2> QED BY <2>1, <2>2
<1>3. /\ changed \in [ConsentId -> Entry \cup {NoState}] /\ changed[c] = entry
      /\ \A d \in ConsentId \ {c} : changed[d] = consents[d]
  OBVIOUS
<1> HIDE DEF changed
<1>4. consents' \in [ConsentId -> Entry \cup {NoState}] /\ saved' \in [ConsentId -> Entry \cup {NoState}]
  BY <1>2, <1>3
<1>5. ASSUME NEW d \in ConsentId
      PROVE  Covers(consents'[d], latest'[d]) /\ AsStrict(saved'[d], consents'[d])
  <2>1. \A e : AsStrict(e, e)
    BY DEF AsStrict
  <2>2. AsStrict(changed[d], consents[d])
    BY <1>3, <2>1
  <2>3. AsStrict(saved'[d], consents'[d])
    BY <1>2, <2>1, <2>2
  <2>4. CASE d = c /\ result = "kept"
    <3>1. latest'[d] = did /\ consents'[d] = entry
      BY <1>2, <1>3, <2>4
    <3> QED BY <2>3, <3>1
  <2>5. CASE d # c \/ result # "kept"
    <3>1. latest'[d] = latest[d] /\ latest[d] \in Manifest \cup {NothingYet, Withdrew}
      BY <2>5
    <3>2. Covers(changed[d], latest[d])
      BY <2>2, <3>1 DEF AsStrict
    <3>3. Covers(consents'[d], latest[d])
      BY <1>2, <3>2
    <3> QED BY <2>3, <3>1, <3>3
  <2> QED BY <2>4, <2>5
<1> QED BY <1>1, <1>4, <1>5

LEMMA PersonaInitSound == PersonaInit => PersonaIInv
<1> SUFFICES ASSUME PersonaInit PROVE PersonaIInv
  OBVIOUS
<1> QED BY DEF PersonaInit, PersonaIInv, PersonaTypeOK, Covers, AsStrict

LEMMA PersonaStepSound ==
  ASSUME PersonaIInv, "temp" \notin Faults, [PersonaNext]_personaVars
  PROVE  PersonaIInv'
<1>1. ASSUME NEW s \in Session, NEW m \in Manifest \cup {NoManifest}, Withdraw(s, m)
      PROVE  PersonaIInv'
  <2>1. m \in Manifest
    BY <1>1 DEF Withdraw
  <2>2. m.consent \in ConsentId
    BY <2>1 DEF Manifest
  <2>3. PICK result \in {"kept"} \cup Faults :
          /\ Keep(m.consent, Withdrawn(m), result)
          /\ latest' = IF result = "kept" THEN [latest EXCEPT ![m.consent] = Withdrew]
                       ELSE latest
    BY <1>1 DEF Withdraw
  <2>4. /\ Withdrawn(m) \in Entry /\ Covers(Withdrawn(m), Withdrew)
        /\ AsStrict(Withdrawn(m), consents[m.consent])
    BY <2>1, WithdrawnIsStrict DEF PersonaIInv
  <2>5. /\ consents' \in [ConsentId -> Entry \cup {NoState}]
        /\ saved' \in [ConsentId -> Entry \cup {NoState}]
        /\ latest' \in [ConsentId -> Manifest \cup {NothingYet, Withdrew}]
        /\ \A d \in ConsentId :
             Covers(consents'[d], latest'[d]) /\ AsStrict(saved'[d], consents'[d])
    BY <2>2, <2>3, <2>4, KeepKeeps
  <2> QED BY <1>1, <2>5 DEF Withdraw, PersonaIInv, PersonaTypeOK
<1>2. ASSUME NEW s \in Session, NEW m \in Manifest \cup {NoManifest}, Grant(s, m)
      PROVE  PersonaIInv'
  <2>1. m \in Manifest /\ m.active /\ Allowed(m)
    BY <1>2 DEF Grant
  <2>2. m.consent \in ConsentId
    BY <2>1 DEF Manifest
  <2>3. PICK result \in {"kept"} \cup Faults :
          /\ Keep(m.consent, Active(m), result)
          /\ grants' = [grants EXCEPT ![s] = IF result = "kept" THEN m ELSE NoManifest]
          /\ latest' = IF result = "kept" THEN [latest EXCEPT ![m.consent] = m] ELSE latest
    BY <1>2 DEF Grant
  <2>4. /\ Active(m) \in Entry /\ Covers(Active(m), m)
        /\ AsStrict(Active(m), consents[m.consent])
    BY <2>1, ActiveIsStrict DEF PersonaIInv
  <2>5. /\ consents' \in [ConsentId -> Entry \cup {NoState}]
        /\ saved' \in [ConsentId -> Entry \cup {NoState}]
        /\ latest' \in [ConsentId -> Manifest \cup {NothingYet, Withdrew}]
        /\ \A d \in ConsentId :
             Covers(consents'[d], latest'[d]) /\ AsStrict(saved'[d], consents'[d])
    BY <2>1, <2>2, <2>3, <2>4, KeepKeeps
  <2> QED BY <1>2, <2>1, <2>3, <2>5 DEF Grant, PersonaIInv, PersonaTypeOK
<1>3. CASE Restart
  <2>1. file' = file /\ latest' = latest /\ consents' = saved'
        /\ grants' = [s \in Session |-> NoManifest]
    BY <1>3 DEF Restart
  <2>2. /\ saved' \in [ConsentId -> Entry \cup {NoState}]
        /\ \A d \in ConsentId : AsStrict(saved'[d], consents[d])
    <3>1. CASE saved' = saved
      BY <3>1 DEF PersonaIInv, PersonaTypeOK
    <3>2. ASSUME NEW p \in PersonaId, NEW m \in Manifest, NEW entry \in Entry,
                 AsStrict(entry, consents[m.consent]),
                 saved' = [consents EXCEPT ![m.consent] = entry]
          PROVE  /\ saved' \in [ConsentId -> Entry \cup {NoState}]
                 /\ \A d \in ConsentId : AsStrict(saved'[d], consents[d])
      <4>1. m.consent \in ConsentId /\ consents \in [ConsentId -> Entry \cup {NoState}]
        BY DEF Manifest, PersonaIInv, PersonaTypeOK
      <4>2. saved' \in [ConsentId -> Entry \cup {NoState}]
        BY <3>2, <4>1
      <4>3. ASSUME NEW d \in ConsentId PROVE AsStrict(saved'[d], consents[d])
        <5>1. AsStrict(consents[d], consents[d])
          BY DEF AsStrict
        <5> QED BY <3>2, <4>1, <5>1
      <4> QED BY <4>2, <4>3
    <3>3. CASE saved' # saved
      <4>1. PICK p \in PersonaId :
              /\ file[p] # NoManifest
              /\ \/ /\ file[p].active /\ Allowed(file[p])
                    /\ saved' = [consents EXCEPT ![file[p].consent] = Active(file[p])]
                 \/ saved' = [consents EXCEPT ![file[p].consent] = Withdrawn(file[p])]
        BY <1>3, <3>3 DEF Restart
      <4>2. file[p] \in Manifest
        BY <4>1 DEF PersonaIInv, PersonaTypeOK
      <4>3. PersonaTypeOK
        BY DEF PersonaIInv
      <4> QED BY <3>2, <4>1, <4>2, <4>3, ActiveIsStrict, WithdrawnIsStrict
    <3> QED BY <3>1, <3>3
  <2>3. ASSUME NEW d \in ConsentId
        PROVE  Covers(consents'[d], latest'[d]) /\ AsStrict(saved'[d], consents'[d])
    <3>1. latest[d] \in Manifest \cup {NothingYet, Withdrew} /\ Covers(consents[d], latest[d])
      BY DEF PersonaIInv, PersonaTypeOK
    <3>2. Covers(saved'[d], latest[d])
      BY <2>2, <3>1 DEF AsStrict
    <3> QED BY <2>1, <3>2 DEF AsStrict
  <2> QED BY <2>1, <2>2, <2>3 DEF PersonaIInv, PersonaTypeOK
<1>4. ASSUME UNCHANGED <<consents, saved, latest>>,
             file' \in [PersonaId -> Manifest \cup {NoManifest}],
             grants' \in [Session -> Manifest \cup {NoManifest}]
      PROVE  PersonaIInv'
  BY <1>4 DEF PersonaIInv, PersonaTypeOK, Covers, AsStrict
<1>5. ASSUME NEW p \in PersonaId, Install(p) PROVE PersonaIInv'
  <2>1. file' \in [PersonaId -> Manifest \cup {NoManifest}] /\ UNCHANGED <<consents, saved, grants, latest>>
    BY <1>5 DEF Install, PersonaIInv, PersonaTypeOK
  <2> QED BY <1>4, <2>1 DEF PersonaIInv, PersonaTypeOK
<1>6. ASSUME NEW s \in Session, Refused(s) \/ EndSession(s) PROVE PersonaIInv'
  <2>1. /\ grants' \in [Session -> Manifest \cup {NoManifest}]
        /\ UNCHANGED <<file, consents, saved, latest>>
    BY <1>6 DEF Refused, EndSession, PersonaIInv, PersonaTypeOK
  <2> QED BY <1>4, <2>1 DEF PersonaIInv, PersonaTypeOK
<1>7. ASSUME NEW s \in Session, Load(s) PROVE PersonaIInv'
  <2>1. \A p \in PersonaId : file[p] \in Manifest \cup {NoManifest}
    BY DEF PersonaIInv, PersonaTypeOK
  <2> QED BY <1>1, <1>2, <1>6, <1>7, <2>1 DEF Load
<1>8. ASSUME NEW s \in Session, Revalidate(s) PROVE PersonaIInv'
  <2>1. file[grants[s].persona] \in Manifest \cup {NoManifest}
    <3>1. grants[s] \in Manifest
      BY <1>8 DEF Revalidate, PersonaIInv, PersonaTypeOK
    <3> QED BY <3>1 DEF PersonaIInv, PersonaTypeOK, Manifest
  <2> QED BY <1>1, <1>2, <1>6, <1>8, <2>1 DEF Revalidate
<1>9. CASE UNCHANGED personaVars
  BY <1>4, <1>9 DEF personaVars, PersonaIInv, PersonaTypeOK
<1> QED BY <1>3, <1>5, <1>6, <1>7, <1>8, <1>9 DEF PersonaNext

\* The persona registry of persona.py, for any personas, consents and revisions, and
\* wherever a write fails or the process dies: what was granted or withdrawn is covered
\* by the memory and by the file, as long as the temporary file can be made.
THEOREM ConsentSurvives ==
  ASSUME "temp" \notin Faults
  PROVE  PersonaSpec => []ConsentIsDurable
<1>1. PersonaIInv /\ [PersonaNext]_personaVars => PersonaIInv'
  BY PersonaStepSound
<1>2. PersonaSpec => []PersonaIInv
  BY PersonaInitSound, <1>1, PTL DEF PersonaSpec
<1>3. PersonaIInv => ConsentIsDurable
  BY DEF PersonaIInv, PersonaTypeOK, AsStrict, ConsentIsDurable
<1> QED BY <1>2, <1>3, PTL

\* What a consent did last, and what it may do next
LEMMA ConsentStep ==
  ASSUME PersonaIInv, [PersonaNext]_personaVars, NEW c \in ConsentId, latest'[c] # latest[c]
  PROVE  \/ latest'[c] = Withdrew
         \/ \E m \in Manifest : m.consent = c /\ latest'[c] = m /\ Allowed(m)
<1>0. latest \in [ConsentId -> Manifest \cup {NothingYet, Withdrew}]
  BY DEF PersonaIInv, PersonaTypeOK
<1>1. ASSUME NEW s \in Session, NEW m \in Manifest \cup {NoManifest}, Withdraw(s, m)
      PROVE  latest'[c] = Withdrew
  BY <1>0, <1>1 DEF Withdraw
<1>2. ASSUME NEW s \in Session, NEW m \in Manifest \cup {NoManifest}, Grant(s, m)
      PROVE  \E n \in Manifest : n.consent = c /\ latest'[c] = n /\ Allowed(n)
  <2>1. m \in Manifest /\ Allowed(m)
    BY <1>2 DEF Grant
  <2>2. latest' = [latest EXCEPT ![m.consent] = m]
    BY <1>0, <1>2 DEF Grant
  <2>3. m.consent = c /\ latest'[c] = m
    BY <1>0, <2>2
  <2> QED BY <2>1, <2>3
<1>3. PICK s \in Session : Load(s) \/ Revalidate(s)
  BY DEF PersonaNext, Install, EndSession, Restart, personaVars
<1>4. \A p \in PersonaId : file[p] \in Manifest \cup {NoManifest}
  BY DEF PersonaIInv, PersonaTypeOK
<1>5. CASE Load(s)
  BY <1>1, <1>2, <1>4, <1>5 DEF Load, Refused
<1>6. CASE Revalidate(s)
  <2>1. grants[s] \in Manifest
    BY <1>6 DEF Revalidate, PersonaIInv, PersonaTypeOK
  <2>2. file[grants[s].persona] \in Manifest \cup {NoManifest}
    BY <1>4, <2>1 DEF Manifest
  <2> QED BY <1>1, <1>2, <1>6, <2>2 DEF Revalidate, Refused
<1> QED BY <1>3, <1>5, <1>6

\* "A withdrawn consent_id is never reusable" (docs/SECURITY.md) holds of persona.py with
\* the same exception: the run that lets mkstemp fail shows that it is needed.
THEOREM WithdrawalIsFinal ==
  ASSUME "temp" \notin Faults
  PROVE  PersonaSpec => WithdrawnIsNeverReusable
<1>1. PersonaIInv /\ [PersonaNext]_personaVars => PersonaIInv'
  BY PersonaStepSound
<1>2. PersonaSpec => []PersonaIInv
  BY PersonaInitSound, <1>1, PTL DEF PersonaSpec
<1>3. ASSUME PersonaIInv, [PersonaNext]_personaVars
      PROVE  [\A c \in ConsentId : latest[c] = Withdrew => latest'[c] = Withdrew]_personaVars
  <2>1. ASSUME NEW c \in ConsentId, latest[c] = Withdrew, latest'[c] # Withdrew PROVE FALSE
    <3>1. PICK m \in Manifest : m.consent = c /\ Allowed(m)
      BY <1>3, <2>1, ConsentStep
    <3>2. Covers(consents[c], Withdrew)
      BY <1>3, <2>1 DEF PersonaIInv
    <3>3. Withdrew \notin Manifest /\ Withdrew # NothingYet
      BY NoneIsNoManifest, NoneIsNoEntry
    <3> QED BY <3>1, <3>2, <3>3 DEF Covers, Allowed
  <2> QED BY <2>1
<1> QED BY <1>2, <1>3, PTL DEF PersonaSpec, WithdrawnIsNeverReusable

\* A consent keeps its persona and only goes to higher revisions, each with one content.
THEOREM ConsentTightens ==
  ASSUME "temp" \notin Faults
  PROVE  PersonaSpec => ConsentOnlyTightens
<1>1. PersonaIInv /\ [PersonaNext]_personaVars => PersonaIInv'
  BY PersonaStepSound
<1>2. PersonaSpec => []PersonaIInv
  BY PersonaInitSound, <1>1, PTL DEF PersonaSpec
<1> DEFINE Tightens == \A c \in ConsentId :
             latest[c] \in Manifest /\ latest'[c] \notin {latest[c], Withdrew} =>
               /\ latest'[c].persona = latest[c].persona
               /\ latest'[c].revision > latest[c].revision
<1>3. ASSUME PersonaIInv, [PersonaNext]_personaVars PROVE [Tightens]_personaVars
  <2>1. ASSUME NEW c \in ConsentId, latest[c] \in Manifest,
               latest'[c] \notin {latest[c], Withdrew}
        PROVE  /\ latest'[c].persona = latest[c].persona
               /\ latest'[c].revision > latest[c].revision
    <3>1. PICK m \in Manifest : m.consent = c /\ latest'[c] = m /\ Allowed(m)
      BY <1>3, <2>1, ConsentStep
    <3>2. Covers(consents[c], latest[c]) /\ consents[c] \in Entry \cup {NoState}
      BY <1>3 DEF PersonaIInv, PersonaTypeOK
    <3>3. latest[c] # NothingYet /\ latest[c] # Withdrew
      BY <2>1, NoneIsNoManifest
    <3>4. consents[c] \in Entry /\ consents[c] # NoState /\ ~consents[c].withdrawn
      BY <3>1, <3>2, <3>3 DEF Covers, Allowed
    <3>5. m.revision \in Int /\ latest[c].revision \in Int /\ consents[c].revision \in Int
      BY <2>1, <3>4, PersonaAssumption DEF Manifest, Entry, PersonaAssumption
    <3> QED BY <2>1, <3>1, <3>2, <3>3, <3>4, <3>5 DEF Covers, Allowed
  <2> QED BY <2>1 DEF Tightens
<1> QED BY <1>2, <1>3, PTL DEF PersonaSpec, ConsentOnlyTightens
=============================================================================
