--------------------------- MODULE RuntimeFactory ---------------------------
(***************************************************************************)
(* echoweave/runtime.py, class RuntimeFactory: adapters are built one set  *)
(* at a time by a task the factory owns, which callers share; one of them  *)
(* claims the result.                                                      *)
(*                                                                         *)
(* A section under _state_lock contains no await, so it is one step, and   *)
(* so is everything a coroutine does between two awaits.  A set of         *)
(* adapters is the number of its build; a number is drawn again once       *)
(* nothing refers to it, so that builds need no bound.                     *)
(***************************************************************************)
EXTENDS Naturals, FiniteSets

CONSTANTS Client,       \* callers of acquire(): the connections of the gateway
          Lifespan,     \* the caller of prepare() and aclose()
          MaxBuilds     \* numbers for builds: as many as there are callers are enough

Caller == Client \cup {Lifespan}

ASSUME FactoryAssumption == Lifespan \notin Client /\ MaxBuilds \in Nat

VARIABLES
  prepared,     \* _prepared: the published adapters that nobody has claimed, or 0
  build,        \* _build_task: its number and where it is
  outcome,      \* what the task of a build returned
  cleanup,      \* _adapter_cleanup_task: the adapters that aclose() is closing, or 0
  readiness,    \* _state
  closer,       \* the position of aclose(); _closing is that it has begun
  waiter,       \* the build a caller of create() awaits, or 0
  holds         \* the adapters a caller has been given and not closed yet, or 0

factoryVars == <<prepared, build, outcome, cleanup, readiness, closer, waiter, holds>>

Build == 1 .. MaxBuilds
Closing == closer # "none"
NoBuild == [id |-> 0, at |-> "none"]

FactoryTypeOK ==
  /\ prepared \in 0 .. MaxBuilds
  /\ build \in [id : 0 .. MaxBuilds, at : {"none", "building", "closing"}]
  /\ outcome \in [Build -> {"pending", "built", "failed"}]
  /\ cleanup \in 0 .. MaxBuilds
  /\ readiness \in {"starting", "ready", "unavailable", "closed"}
  /\ closer \in {"none", "sweeps", "waits", "done"}
  /\ waiter \in [Caller -> 0 .. MaxBuilds]
  /\ holds \in [Caller -> 0 .. MaxBuilds]

FactoryInit ==
  /\ prepared = 0
  /\ build = NoBuild
  /\ outcome = [b \in Build |-> "pending"]
  /\ cleanup = 0
  /\ readiness = "starting"
  /\ closer = "none"
  /\ waiter = [c \in Caller |-> 0]
  /\ holds = [c \in Caller |-> 0]

-----------------------------------------------------------------------------
(* Claims and waits                                                        *)

Unused(b) ==
  /\ b \notin {prepared, build.id, cleanup}
  /\ \A c \in Caller : waiter[c] # b /\ holds[c] # b

Awaits(c, b) == waiter' = [waiter EXCEPT ![c] = b]

\* What _claim_or_start_build hands out is the caller's; prepare() puts it back
\* before anybody else can run.
TakePrepared(c) ==
  /\ prepared # 0
  /\ Awaits(c, 0)
  /\ IF c = Lifespan
     THEN UNCHANGED <<prepared, holds>>
     ELSE prepared' = 0 /\ holds' = [holds EXCEPT ![c] = prepared]
  /\ UNCHANGED <<build, outcome, cleanup, readiness, closer>>

JoinBuild(c) ==
  /\ prepared = 0
  /\ build.at # "none"
  /\ Awaits(c, build.id)
  /\ UNCHANGED <<prepared, build, outcome, cleanup, readiness, closer, holds>>

StartBuild(c) ==
  /\ prepared = 0
  /\ build.at = "none"
  /\ \E b \in Build :
       /\ Unused(b)
       /\ \A k \in Build : Unused(k) => b <= k
       /\ build' = [id |-> b, at |-> "building"]
       /\ outcome' = [outcome EXCEPT ![b] = "pending"]
       /\ Awaits(c, b)
  /\ UNCHANGED <<prepared, cleanup, readiness, closer, holds>>

Claim(c) ==
  /\ ~Closing
  /\ TakePrepared(c) \/ JoinBuild(c) \/ StartBuild(c)

\* A caller that was overtaken by another one claims again.
ClaimAgain(c) ==
  /\ waiter[c] # 0 /\ outcome[waiter[c]] = "built"
  /\ Claim(c)

\* RuntimeUnavailable: the build failed, or the factory is closing.
Unavailable(c) ==
  /\ waiter[c] # 0
  /\ \/ outcome[waiter[c]] = "failed"
     \/ outcome[waiter[c]] = "built" /\ Closing
  /\ Awaits(c, 0)
  /\ UNCHANGED <<prepared, build, outcome, cleanup, readiness, closer, holds>>

\* The budget of create() ends, perhaps in the moment its build does.
WaitExpires(c) ==
  /\ waiter[c] # 0
  /\ Awaits(c, 0)
  /\ readiness' = IF Closing THEN readiness ELSE "unavailable"
  /\ UNCHANGED <<prepared, build, outcome, cleanup, closer, holds>>

\* The caller is cancelled; the task is shielded from it.
WaitCancelled(c) ==
  /\ waiter[c] # 0
  /\ Awaits(c, 0)
  /\ UNCHANGED <<prepared, build, outcome, cleanup, readiness, closer, holds>>

-----------------------------------------------------------------------------
(* The build task                                                          *)

BuildFails ==
  /\ build.at = "building"
  /\ outcome' = [outcome EXCEPT ![build.id] = "failed"]
  /\ build' = NoBuild
  /\ readiness' = IF Closing THEN "closed" ELSE "unavailable"
  /\ UNCHANGED <<prepared, cleanup, closer, waiter, holds>>

\* Mutant: the task publishes without asking whether the factory is closing.
BuildPublishesLate ==
  /\ build.at = "building" /\ prepared = 0
  /\ prepared' = build.id
  /\ outcome' = [outcome EXCEPT ![build.id] = "built"]
  /\ build' = NoBuild
  /\ readiness' = "ready"
  /\ UNCHANGED <<cleanup, closer, waiter, holds>>

BuildPublishes ==
  /\ build.at = "building" /\ ~Closing /\ prepared = 0
  /\ prepared' = build.id
  /\ outcome' = [outcome EXCEPT ![build.id] = "built"]
  /\ build' = NoBuild
  /\ readiness' = "ready"
  /\ UNCHANGED <<cleanup, closer, waiter, holds>>

\* Nobody may have the result any more: the task closes it itself.
BuildIsNotWanted ==
  /\ build.at = "building" /\ (Closing \/ prepared # 0)
  /\ build' = [build EXCEPT !.at = "closing"]
  /\ readiness' = IF Closing THEN "closed" ELSE readiness
  /\ UNCHANGED <<prepared, outcome, cleanup, closer, waiter, holds>>

BuildCloses ==
  /\ build.at = "closing"
  /\ outcome' = [outcome EXCEPT ![build.id] = "built"]
  /\ build' = NoBuild
  /\ UNCHANGED <<prepared, cleanup, readiness, closer, waiter, holds>>

BuildStep == BuildFails \/ BuildPublishes \/ BuildIsNotWanted \/ BuildCloses

-----------------------------------------------------------------------------
(* Release and shutdown                                                    *)

\* Whoever was given adapters has closed them.
Dispose(c) ==
  /\ holds[c] # 0
  /\ holds' = [holds EXCEPT ![c] = 0]
  /\ UNCHANGED <<prepared, build, outcome, cleanup, readiness, closer, waiter>>

HasOwnedResources == prepared # 0 \/ build.at # "none" \/ cleanup # 0

BeginClose ==
  /\ closer = "none"
  /\ closer' = IF HasOwnedResources THEN "sweeps" ELSE "done"
  /\ readiness' = "closed"
  /\ UNCHANGED <<prepared, build, outcome, cleanup, waiter, holds>>

\* _aclose_impl up to its wait
Sweep ==
  /\ closer = "sweeps"
  /\ IF cleanup = 0 THEN cleanup' = prepared /\ prepared' = 0
                    ELSE UNCHANGED <<cleanup, prepared>>
  /\ closer' = "waits"
  /\ UNCHANGED <<build, outcome, readiness, waiter, holds>>

CleanupEnds ==
  /\ cleanup # 0
  /\ cleanup' = 0
  /\ UNCHANGED <<prepared, build, outcome, readiness, closer, waiter, holds>>

CloserWakes ==
  /\ closer = "waits" /\ build.at = "none" /\ cleanup = 0
  /\ closer' = IF HasOwnedResources THEN "sweeps" ELSE "done"
  /\ UNCHANGED <<prepared, build, outcome, cleanup, readiness, waiter, holds>>

CloserExpires ==
  /\ closer = "waits" /\ (build.at # "none" \/ cleanup # 0)
  /\ closer' = "done"
  /\ UNCHANGED <<prepared, build, outcome, cleanup, readiness, waiter, holds>>

ShutdownStep == BeginClose \/ Sweep \/ CleanupEnds \/ CloserWakes \/ CloserExpires

\* create() is called: by the lifespan once, by a client that has none.
BeginCreate(c) ==
  /\ waiter[c] = 0 /\ holds[c] = 0
  /\ Claim(c)

WaiterStep(c) ==
  ClaimAgain(c) \/ Unavailable(c) \/ WaitExpires(c) \/ WaitCancelled(c)

FactoryNext ==
  \/ BuildStep
  \/ ShutdownStep
  \/ \E c \in Caller : BeginCreate(c) \/ WaiterStep(c) \/ Dispose(c)

FactorySpec == FactoryInit /\ [][FactoryNext]_factoryVars

-----------------------------------------------------------------------------
(* What the factory promises                                               *)

\* "Deterministic result ownership": a set of adapters is in one place, so no
\* two sessions share it and nobody closes what another one still uses
\* (_claim_or_start_build, _run_build, _aclose_impl).
SingleOwner ==
  /\ \A c \in Caller : holds[c] # 0 => holds[c] \notin {prepared, build.id, cleanup}
  /\ \A c, d \in Caller : holds[c] # 0 /\ holds[c] = holds[d] => c = d
  /\ prepared # 0 => prepared \notin {build.id, cleanup}
  /\ cleanup # 0 => cleanup # build.id

\* There is a published result or a build and never both, so the defensive
\* branches of _run_build and prepare() are dead, and a factory that is closing
\* publishes nothing that its sweep has missed.
OneResultOrBuild ==
  /\ prepared # 0 => build.at = "none"
  /\ closer \in {"waits", "done"} => prepared = 0
  /\ build.at = "closing" \/ cleanup # 0 => Closing

FactoryInv == SingleOwner /\ OneResultOrBuild

=============================================================================
