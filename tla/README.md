# Verification of EvoAgent OS in TLA+

EvoAgent OS is a Python monorepo: a Fleet orchestrator for DAG workflows, an
agent Runtime, a Realtime avatar service, a skill registry (Forge), a trace
laboratory (HarnessLab), and a control plane that puts an API over them. This
directory holds TLA+ modules translated from the source, TLC configurations that
check them on small instances, and proofs that TLAPS checks for every instance.

Run everything from this directory:

    tlc -workers 2 -config Fleet_serial.cfg MCFleet      # one run (see "Runs")
    tlapm FleetProofs.tla                                # one proof module

## Inventory

| Component | State | Operations | Interaction | What is hard |
|---|---|---|---|---|
| Fleet orchestrator (`services/fleet`, `orchestrator.py`, `store.py`) | SQLite tables workflows, nodes, workers, route_metrics, artifacts, events | submit, register, claim (with sweep_expired), heartbeat, complete (with _advance), fail, approve | called by HTTP routes, the worker loop and the control plane; one process, one event loop | one call is several commits; crashes between them; leases that expire while a result is on its way; retries; late and repeated calls |
| Workflow validation (`models.py`) | local sets of one call | validate_dag | guards submit | cycles, diamonds, unknown ids |
| Worker loop (`worker.py`) | position in the loop, the lease it holds | run_once, run_forever | calls the orchestrator around an awaited handler | handler outlives its lease; exceptions while reporting |
| Agent Runtime (`services/runtime`, `runtime.py`, `store.py`, `tools.py`) | runs, approvals, messages, events | accept, submit, run_once, _drive, decide_approval | awaits a model provider and tools; approvals resume runs | exceptions on the resume path, concurrent runs of a session, restarts |
| Scheduler (`scheduler.py`) | jobs, the loop task | create, _loop, start, stop | submits runs | crash between submit and the job's update; an exception ends the loop |
| Prompt evolution (`evolution.py`) | prompts, candidates | propose, evaluate, promote | awaits the provider; accept reads the active prompt | stale evaluations, three commits per promotion |
| Realtime session (`services/realtime`, `pipeline.py`) | session state, turn and generation ids, response task, speech queue | start, ingest_pcm, submit_text, cancel_response, close | VAD, ASR, LLM, TTS and avatar adapters; the WebSocket sender | barge-in at any await, stale generations, slow consumers, lock ordering |
| Realtime runtime factory (`runtime.py`) | prepared result, build task, state | create, prepare, acquire, release, aclose | sessions acquire adapters | single-flight builds, timeouts, close during a build |
| Realtime gateway (`app.py`, `auth.py`) | outbound queue, session and reservation counts, replay cache, rate buckets | receive loop, pump, admission, acquisition, finalizer | owns sessions, takes adapters from the factory | bounds, failure paths that must give back what they took, cancellations between two tasks |
| Realtime personas (`persona.py`) | consent states in memory and in a file, manifests, grants of sessions | load, revalidate, withdrawal, restart | the gateway asks before and during a session | writes that fail half way, an older manifest put back, restarts |
| GPU worker (`gpu_worker.py`) | job manifests, media, records, provenance: files | run, finalize, screening of a training set | separate processes that share a directory | hours between check and use; two runs of one job |
| Model services (`services/voxcpm_api.py`, `services/soulx_api.py`) | in-flight count, inference lock, private directories, threads or process groups, quarantine | admit, upload, generate, stream, finalize | the session's adapters call them | clients that leave, threads that cannot be killed, children that start helpers |
| Training data scripts (`services/realtime/scripts`) | media, ranges, transcript, evidence, queue, decisions, plan, dataset: files | acquire, segment, transcribe, bind, queue, review, export, prepare | read each other's files | nothing is locked, people edit files meanwhile |
| Forge (`services/forge`) | blob files, releases table | publish, search, package, sign, scan | CLI and API | file and row are two steps; kills; two publishers |
| HarnessLab (`services/observability`) | runs in memory, per-run event log, subscribers | run, publish, subscribe, compare | model adapters, read-only tools | order of events, terminal events, failures in a tool, readers that come late |
| Control plane (`apps/control-plane`) | workspaces, agents, run links, events, idempotency keys | create_run, create_workflow, decide_approval, launch_demo, event stream | calls Fleet and Runtime in process | await between key lookup and key store, crashes between writes |
| Reference worker, SDKs, contracts, consoles, deployment | none that is shared | HTTP clients, schemas, assets | | |

What makes each correct:

* **Fleet**: a node starts only after its dependencies and its approval, at most
  max_attempts times; only the holder of the current lease commits; settled rows
  are final; verdicts agree with nodes; workers stay within max_concurrency;
  nothing is stranded; work whose worker vanished is taken up again.
* **Validation**: accepts exactly the acyclic graphs over known nodes.
* **Worker loop**: every valid lease is in the hands of one loop; handlers
  cannot end the loop; workflows reach a verdict.
* **Runtime**: a risky tool runs at most once and only after its approval; a run
  is driven by one driver; every run settles or waits for a decision.
* **Evolution**: an active prompt always exists; only what passed is promoted.
* **Realtime session**: nothing of a cancelled generation reaches the client;
  transitions stay in the table; close ends everything.
* **Factory and gateway**: a set of adapters has one owner; counters are exact on
  every path; bytes and tokens are accounted for.
* **Personas**: what was granted or withdrawn survives failures and restarts.
* **GPU worker, model services, scripts**: a record binds what was used; private
  files live as long as their readers and no longer; a training set is what a person
  approved.
* **Forge**: releases are immutable; their bytes are whole unless a publisher of the
  same bytes was killed while it copied them.
* **Control plane**: requests with one key that do not overlap are answered the same, with
  what exists; a stream gets every event that the list still has, once.
* **HarnessLab**: recorded runs satisfy the trace contract; readers see every event.

## Plan

1. Fleet, its abstract specification, the worker loop, workflow validation, and
   their proofs. **Done.**
2. `AgentRuntime`, `PromptEvolution`, `Scheduler`, and their proofs. **Done.**
3. `RealtimeSession` and the proofs about its generations and its state. **Done.** Open:
   `PhraseMedia`, the order of audio and video inside one phrase, with the fallbacks
   between avatar and plain audio.
4. `RuntimeFactory`, `Gateway`, `OutboundPump`, `GatewayLimits`, `Persona`, and their
   proofs. **Done.**
5. `VoxWorker` and `SoulxWorker`, and their proofs. **Done.**
6. `DatasetPipeline`, `Transcription`, `Segmentation`, `TrainingManifest`, `GpuJob`, and
   their proofs. **Done.**
7. `Forge`, `ControlPlane`, `EventFeed`, `TraceContract`, `HarnessLab`, and their proofs.
   **Done.**
8. The proofs that were longest open: `DatasetIsReviewed` and `PublishedIsOneMoment` of
   `DatasetPipeline`, `StateIsSound` of `RealtimeSession`. **Done.** Every invariant that a
   passing run checks is now a theorem.

No module contains a RECURSIVE operator; parameters are CONSTANTS with named
assumptions.

## Modules

| Module | Models | Used by |
|---|---|---|
| `Fleet` | the orchestrator, one action per database commit | everything else about Fleet |
| `DagRun` | what Fleet promises to whoever submits a workflow | `Fleet!Promise`, a refinement |
| `FleetWorker` | the in-process worker loop around Fleet | `MCFleetWorker` |
| `WorkflowDag` | `validate_dag`, step by step | `MCServices` |
| `AgentRuntime` | runs, model turns, tool calls and approvals | `MCAgentRuntime`, `MCServing` |
| `PromptEvolution` | prompt versions, candidates, evaluations and promotions | `Scheduler` |
| `Scheduler` | the interval scheduler, composed with `PromptEvolution` | `MCServices` |
| `RealtimeSession` | the turn engine of the realtime service and the receive loop that drives it | one run of its own |
| `RuntimeFactory` | the factory of adapters | `Gateway` |
| `Gateway` | the WebSocket endpoint, composed with `RuntimeFactory` | `MCServing` |
| `OutboundPump`, `GatewayLimits` | the endpoint's writer; its limits that depend on time | `MCServing` |
| `Persona` | consent states and grants | `MCServing`, and a run of its own |
| `VoxWorker`, `SoulxWorker` | the model services | `MCModelServices` |
| `DatasetPipeline` | the training data programs and their files | `MCTraining`, and a run of its own |
| `Transcription`, `Segmentation` | two of these programs from the inside | `MCTraining` |
| `GpuJob`, `TrainingManifest` | the GPU worker's commands; its screening of a training set | `MCTraining` |
| `Forge` | package and publish over blobs and releases | `MCTraining` |
| `ControlPlane`, `EventFeed` | idempotency keys; the event list and its streams | `MCServices` |
| `TraceContract` | `_trace_violations` and what it should mean | `HarnessLab` |
| `HarnessLab` | a run, the event bus, its readers | `MCServices` |
| `MC*` | the instances TLC checks | the `.cfg` files |
| `*Proofs` | theorems about the modules they extend | |

A definition that starts with the comment "Mutant" is a plausible bug of the
definition it precedes. It is used by nobody: it documents which mistake the
properties notice.

### Fleet

`Store.execute` commits on its own, so `complete()` or `claim()` is a sequence of
commits. Each action of `Fleet` is one commit, or the read that opens a call.
What the Python call keeps in local variables between two commits (the row
`_lease` returned, the rows of `sweep_expired`, the statuses `_advance` read) is
`call[h]`, with the position in `call[h].at`:

| Code | Actions |
|---|---|
| `submit`, `register`, `heartbeat` | `Submit`, `Register`, `Heartbeat` |
| `claim` with `sweep_expired` | `BeginClaim`, `SweepRow`*, then `GrantLease` or `GrantNothing` |
| `complete` with `_advance` | `BeginComplete`, `RejectCompletion` or `CommitCompletion`, `ReadReady`, `Unblock`*, `ReadRemaining`, `CloseWorkflow` |
| `fail` | `BeginFail`, then `CommitRetry`, or `CommitFailure` and `AbortWorkflow` |
| `approve` | `Approve`, or `Deny` and `AbortWorkflow` |
| the clock | `Lapse` |
| the process dies and restarts | `Crash` |

`h` is an execution context. The handlers never await inside a call, so a process
with one event loop is one `Handler`; two Handlers are two threads that share a
store. A lease deadline is the flag `lease[n].expired`, a lease token is the
attempt it was drawn for. Payloads, artifacts, metrics and event rows are left
out, because no decision reads them.

`DagRun` has no leases, calls or workers. `Fleet!Promise` maps it onto the tables:
the phase of a node is computed from its status, `starts` is `attempts`, and
`allowed` are the approved nodes. Every claim, sweep, lapse and crash is a
stuttering step or the end of a run of a node.

### FleetWorker

`run_once` registers, claims, awaits its handler and reports; only the await lets
others run. `loop[k]` is the position of worker `k` in `run_forever`, `held[k]` the
node and token of the lease it holds. An exception of `complete` leads to `fail` in
the except block, whose own exception leaves `run_forever` (`LoseLease`,
`ResultRejectedLate`).

### WorkflowDag

The recursive `visit` is modelled by its stack; `visiting` is the set of the nodes
on it, and `pending[n]` holds the parents the loop of `visit(n)` has still to look
at. The initial states are all dependency relations, unknown ids included.

### AgentRuntime

A run is driven by `_execute`, named `<<r, 0>>`, and later by the `decide_approval`
call of each approval it asked for, named like the approval, `<<r, i>>`.
`drive[d].at` is the await (`model`, `tool`, `risky`) or the place between two
commits (`calls`, `asked`, `decided`) at which driver `d` stands. `loop` is the
driver that runs between two awaits: another coroutine can not come in there, a
crash can. So `Ask` and `Park`, the two commits behind an approval request, are two
actions, and the check and the update of `decide_approval` are one (`Decide`).

What the model answers and whether a tool raises is left open; `Action` is what
`ToolPolicy.decide` says of each tool, "unknown" where `ToolRegistry.get` raises.
Messages, memory, usage and event rows are left out. `MaxAsks` bounds the approvals
of a run: a turn with a risky call is only given while one is left.

### PromptEvolution and Scheduler

`evaluate` reads the candidate, awaits the model and then overwrites status and
scores (`BeginEvaluate`, `EndEvaluate`), so evaluations of one candidate overlap with
each other and with promotions. `promote` awaits nothing, but its three UPDATE and
INSERT statements are three commits (`Retire`, `Insert`, `MarkPromoted`), and a crash
may come between them. A prompt text is the candidate it comes from, a score the
evaluation that reported it; which verdict a set of scenarios gives is left open.

`Scheduler` extends it with the jobs. A scan holds the event loop from its SELECT to
its sleep (`TakeLoop`, `LeaveLoop`); `Submit` is `AgentRuntime.accept`, which needs an
active prompt, and `Move` the later UPDATE of `next_run_at`. Without an active prompt
`accept` raises and the loop's task is gone (`SubmitRaises`) until the process is
started again (`Restart`). The clock is the action `ComesDue`.

### RealtimeSession

One asyncio loop runs three kinds of tasks on a session, and each has its place in
the state, the `at` of the await it is suspended in:

| Code | State | Actions |
|---|---|---|
| the response task of turn `t` (`_transcribe_and_respond`, `_respond`) | `turns[t]` | `ResponseStep(t)` |
| its speech worker (`_speech_worker`, `_speak_phrase`) and the queue between them | `speech[t]` | `SpeechStep(t)` |
| the receive loop of `app.py`, and `close()` in its finalizer | `gateway` | `GatewayStep`, `Client` |
| the socket's consumer, the persona's authorization | `consumer`, `authorized` | `Environment` |

A step runs from one await to the next. `turn_lock` and `state_lock` are the two
asyncio locks with the task that holds them; a step that needs one waits for it. A
task that emits waits until `consumer` takes the message; consecutive emissions of one
task are one await.

`task.cancel()` is the hard part. The step that cancels moves the task at once to where
CancelledError leads it: `CancelledAt` says so for each await of a response (out of the
body into `turn.cancelled`, out of a handler into `finally`, out of `finally` to the
end) and `SpeechCancelledAt` for the worker. An adapter that ignores its cancellation
is the step `Stopped` that retires a task while it is still alive; such a task goes on
running, and may do whatever its code does.

Every await that has a budget may exceed it, every adapter may fail, the consumer may
stall, come back or go away, the authorization may be revoked, and the server may
cancel the receive loop: each kind happens at most once, `MaxFaults` kinds in one
behaviour. `cleared` and `heardLate` are history: the newest generation that a
delivered `playout.clear` has named, and the generations of which text or media was
delivered after that.

What is left out: phrases have no text, the frames and segments of a phrase are only
counted, so the order of audio and video inside it does not show; the closing of
adapters; the chat history. In the deployed gateway an emission only enqueues, so the
stalling consumer, whose path through `_quarantine_slow_consumer` is modelled, can only
occur with another transport behind `emit_json`.

### RuntimeFactory and Gateway

A section under `_state_lock` has no await and is one step. A set of adapters is the
number of its build, and every place that can own one is a variable: `prepared`,
`build` (the shared task), `cleanup` (what `aclose()` is closing) and `holds[c]` (what
caller `c` was given). `waiter[c]` is the build a caller waits for under its shield:
the wait may expire or be cancelled at the step at which the build ends. A number is drawn again once
nothing refers to it, so builds need no bound.

`Gateway` extends it with the endpoint. `conn[c]` is the await of connection `c`,
from admission (`Connect`) over the start message (`StartAcquires`, `AcquireContinues`,
`StartSucceeds`, `StartFails`) to the finalizer and the cleanup task (`Finalizes`,
`CleanupDone`). The hard part is the close of a candidate that did not start, a task of
its own: `shut[c]` says whether it was created, runs, or was cut off by a cancellation
before its first step (`AbandonCancelled`). Shutdown (`closer`) may begin at any time.
Every action of the gateway is an action of the factory or leaves it alone; that is the
theorem `GatewayUsesFactory`.

### OutboundPump and GatewayLimits

The pump is one queue of message sizes, the message in flight and the byte count. The
sender (`TakeMessage`, `Sent`, `SendFails`, `SenderCancelled`) and the cleanup task
(`BeginFlush`, `Joined` or `FlushExpires`, `BeginStop`, `Stopped`) interleave with
emissions. `queue.join()` also returns when a failure discards the queue; that is what
`Joined` has to see. `Total`, the bytes of a queue, is a recursive function of a length.

`GatewayLimits` has a clock. `ConsumeToken` is `ReplayCache.consume` behind the expiry
check of a session token, `Consume` is `consume_budget`, `EvictHost` forgets idle hosts.
A token is taken again when its `exp` has passed and the clock skew still admits it:
`TokenIsUsedOnce` says until when a token is used once. `admitted` is a history: for each
time, what a host was let through since. Forgetting a host is harmless
only because `Stale * Rate >= Burst`, which the defaults satisfy and nothing enforces.

### Persona

`load` and `revalidate` do not suspend, so each is one step that consists of the refusal
or the grant with all its writes. `consents` is memory, `saved` the state file, `latest`
the history of what was granted or answered as withdrawn. `Keep` is
`_persist_state`: it succeeds, raises before `os.replace` (memory is restored), raises
at the directory's fsync after it, raises the OSError of `mkdir` or `mkstemp` that
nobody expects, or the process dies. `Install` puts any manifest in place, older ones too.

### VoxWorker and SoulxWorker

`VoxWorker` has three actors per request: the request (`stage`), the thread that
generates (`producer`) and the bounded queue between them (`output`). A thread can not
be killed: `CloseExpires` quarantines the worker and leaves its directory to the reaper
(`Reap`). `SoulxWorker` generates in a child process. `child[c]` and `helper[c]` are the
process and what it starts, `pipe[c]` the messages it has sent; the group exists only
after `ChildReady`, and the parent signals the group only after it has read "ready".
`CloseStopped` is a close that has killed all, `CloseUnsafe` one that could not.

In both, a response that has yielded waits in `send()` (stage and place "sends") until the
client reads (`Delivered`, `SegmentDelivered`) or leaves. There is no timeout on that, and
nothing else is looked at meanwhile: `GenerationExpires` is possible only while the parent
waits for a process that has said nothing.

### DatasetPipeline

Eight programs share a directory without a lock. Each is a script, the sequence of its
single file accesses (`ExportScript` and the others), and `Access` does the next one. A
digest is the content itself. `how` says what is done with what was read: it is bound,
compared with what was bound, or used. `content` is what the files hold, `moments` the
history of all that the files held at once since the program began. `Publish`,
`CreatePlan` and `FillPlan` write the outputs, exclusively where the code does.
`Edit`, `Retranscribe` and `Made` are people and tools at work between any two accesses.
The review server is a program of its own with its audio and its decisions.

Two things are excluded. An edit never brings an old content back: a file that is
changed and restored between two hashes escapes every one of these programs. And one
review server runs at a time: two on one decisions file can lose a decision.

### Transcription, Segmentation, TrainingManifest, GpuJob

`Transcription` is the inside of one program: a worker binds the source, decodes
segment by segment, and replaces the whole transcript after each (`WriteAside`,
`CheckAgain`, `Replace`). It may die anywhere, and resumes from its checkpoint.
`Segmentation` runs the detector's hysteresis over every sequence of frames (`Frame`,
`EndOfAudio`), then the loop of the merge over its spans (`MergeSpan`, which may also find
them invalid), then the loops of the cut over the merged ones (`CutSpan`, `KeepRest`) and
writes the clips (`WriteCandidates`). `TrainingManifest` starts from every
training set over its clips and screens it. `GpuJob` has commands that stand between
two file accesses (`command[c].at`), a clock, and input versions. Signed records are
values that hold what they bind.

### Forge, ControlPlane, EventFeed, TraceContract, HarnessLab

`Forge`: each author packages in a directory of his own and publishes in three steps,
`OpenBlob`, `FillBlob`, `InsertRelease`; `PublishKilled` leaves a cut blob under the
name of its digest, which the history `cutBlobs` keeps, and two copies of the same bytes
may cut each other (`FillBlob`). `ControlPlane`: a request looks its key up, creates a run
and awaits it (`BeginRun`), and writes link, workflow and key (`FinishRun`); the history
`overlapped` keeps who awaited beside another request with the same key. The process dies
while handlers await (`ServerDies`) or keeps a prefix of what one writes (`WritesPart`,
`CrashInHandler`). `EventFeed`: the list is put together from three stores, of which the
control plane's gives its newest events and the other two their oldest, and is cut to its
newest; a connection polls it (`Poll`), and `event_stream` alone cuts its set of seen
events, to an arbitrary part. `TraceContract` has `_trace_violations` next to `WellFormed`, the
contract without dictionaries or counting. `HarnessLab` is a run that emits, is
cancelled and fails, with readers whose backlog is taken when they connect; the history
`executed` keeps where each handler that ran was approved.

### The composites

`MCServices`, `MCServing`, `MCTraining` and `MCModelServices` put components that share
no state into one run. `part` says which of them moves and never changes; the others
stand in their initial state. The states of such a run are the sum of those of its
parts, and a property about one part is checked on all behaviours of that part. What
does interact is composed: `Gateway` with `RuntimeFactory`, `FleetWorker` with `Fleet`,
`Scheduler` with `PromptEvolution`, `HarnessLab` with `TraceContract`.

## Runs

| Run | States | Shows |
|---|---|---|
| `Fleet_serial.cfg`, MCFleet | 133,675 | safety with one event loop, crashes between any two commits; the inductive invariant; refinement of `DagRun` |
| `Fleet_live.cfg`, MCFleet | 28,093 | liveness and `NothingStranded` while the process does not crash |
| `FleetWorker_loops.cfg`, MCFleetWorker | 9,048 | two real worker loops: no valid lease is orphaned, workflows get a verdict |
| `RealtimeSession.cfg`, RealtimeSession | 438,731 | nothing of a cleared generation is heard; one turn is current; the state a client was told is sound; no turn hangs; `close()` ends |
| `Services.cfg`, MCServices | 221,549 | prompts and jobs: the latest version is live unless a crash hit a promotion, promotions have evidence, no occurrence is lost, due jobs fire; `validate_dag` is right; requests with one key agree unless they overlapped, with what exists; the feed sends what its list still has, and repeats only after a cut; the trace contract is complete, recorded runs keep it, readers see the log and their streams end |
| `Serving.cfg`, MCServing | 320,079 | agent runs: one driver, governed effects, finality, verdicts; adapters have one owner and counters balance; bytes are accounted for and a flush is honest; tokens and rates; consent survives |
| `ModelServices.cfg`, MCModelServices | 35,593 | one generation has the model, a directory outlives its readers, caps are exact, private files are deleted in the end as long as clients read or leave |
| `Training.cfg`, MCTraining | 817,263 | what is published held at one moment; a training set is what was reviewed; transcripts are of their source; clips are sound; screening; records bind what was used; releases are immutable, their bytes whole unless a copy was killed |
| `Fleet_exhausted.cfg`, MCFleet | counterexample | a node failed by the sweep leaves its workflow running |
| `AgentRuntime_resume.cfg`, MCAgentRuntime | counterexample | a failure after a decision leaves the run without a verdict |
| `Persona_unsaved.cfg`, Persona | counterexample | a withdrawal that could not be written is forgotten by a restart |
| `DatasetPipeline_rejected.cfg`, DatasetPipeline | counterexample | a clip that is rejected during an export is exported |

**Fleet.** Workflow `w1` is `a -> b -> c` with the extra edge
`a -> c`: a node with two parents, so that one completion is not enough, and a
gated node in the middle that needs a capability not every worker has. `w2` is one
node, so that claims choose between workflows and by creation order. Nodes `a` and
`b` have two attempts, `c` and `d` one, so both sides of every comparison with
`max_attempts` occur. Two workers may re-register at any time with two slots and
all capabilities, or one slot and one capability. Attempts are bounded by the
code, and nothing else is unbounded.

**RealtimeSession.** `max_turns = 2` is a turn and the one that
interrupts it, and a third input is where the turn limit is met; `MaxEvents = 3` admits
three inputs (`MaxInputs`), or two inputs and one fault (`MaxFaults = 1`) of any of the
eight kinds, in any order and at any await. One phrase, one medium and a queue of one
make the response wait for the worker when it queues the end of the stream. The proofs
cover any number of each.

**Services.** One candidate with two evaluations and `MaxVersion = 3` give an evaluation
that overlaps a promotion and a second verdict on a promoted candidate; two jobs that
come due twice (`MaxDue`) put a crash (`MaxCrashes = 1`) before, between and after the
rows of a scan; the proofs cover any number. `validate_dag` starts from all 4,096
relations between three nodes and four ids, enough for a cycle reached from outside and
for a diamond's shared parent. Three requests (`Post`) with one key are two that overlap
and one that comes at any time, with one crash (`MaxDeaths`). The feed keeps two of three seen events (`SeenKept`,
`SeenLimit`) and asks each of the three stores for two (`Window`), so that with
`MaxEvents = 5` a store has more than it gives, and an event is cut off, forgotten and
pushed out. `MaxTrace = 4` with two call ids is every
log that has one whole call and a terminal event; a second, interleaved call of the
longer logs comes from `HarnessLab`, with two turns of one call (`MaxTurns`,
`MaxCalls`) and a reader that may come at any time.

**Serving.** Two agent runs interleave at the event loop; the four turns put a risky call
first, last and twice, next to a harmless, a denied and an unknown one. `MaxSteps = 1`
gives a drive one step beyond the first, and `MaxAsks = 2` a drive, a resumed drive and a
second resumed drive. Three clients for two connections, two sessions and two start
attempts (`MaxConnections`, `MaxSessions`, `MaxAttempts`) meet every limit with one
client too many; four build numbers are one for each of the three clients and the
application. Clients are interchangeable (`SYMMETRY Clients`; no liveness property of
the run is about them). Two messages of up to two bytes meet both limits of the pump's
queue (`MaxMessages`, `MaxBytes`). Two tokens that expire two ticks apart, one of
them within the skew of the other, meet a cache of one entry within `MaxTime = 4`. Two
personas that share one consent, two revisions and two bodies are what `Allowed` tells
apart. `Faults` leaves out the failure of the third finding.

**ModelServices.** Two requests, one with a private recording, for a cap of two
(`MaxInflight`, `AvatarCap`), so that one request can quarantine the worker at any stage
of the other, and one client that stops reading keeps the other request waiting; the cap is
met with `MaxInflight` requests inside, and a refused request then has no state of its own. A queue of one and two chunks make the thread wait;
one segment puts a message between "ready" and the end.

**Training.** One clip, two edits by hand (`MaxFileEdits`) and one decision
(`MaxSaves`): a publication is wrong if one file changes between two of its accesses,
and two edits are two files or one file twice. The server is not used after
the last decision, which only saves states. Two transcribers with one output, which may die
and resume, over three segments with two changes (`MaxSourceEdits`). Eleven frames with `MinSilence = 2`,
`Pad = 1`, `MaxGap = 1`, `MinClip = 3`, `MaxClip = 4` are long enough for a span that is cut
twice, and for two that are merged. Two clips per training set are an audio file and a
reference. Two runs and one `finalize` race for one job, with two edits
(`MaxInputEdits`) and the authorization ending during the run (`ValidUntil`,
`MaxClock`). Two authors, two versions and two skills, one of them blocked, with one
kill (`MaxKills`): two copies of the same bytes at once, one of which is killed.

Deadlock is checked in the Fleet runs, which never stop. Everything else ends: agent
runs and prompts in a verdict, jobs when they have come due as often as `MaxDue` says,
sessions and connections when they are closed, programs when they have published or
refused, and requests, logs, clocks and edits at their bounds.

### Fairness

* *Fleet*: a call that has begun ends, since nothing in it awaits (weak fairness of
  its steps). A worker polls for ever and asyncio serves requests in arrival order
  while other calls take the loop, so a claim of each worker begins again and again
  (strong fairness). Time passes (weak fairness of `Lapse`). Nothing is assumed of
  what workers do with their leases, nor of operators.
* *FleetWorker*: the same of calls and loops. That handlers return or raise and
  that the operator answers are assumptions about the environment, without which no
  workflow would have to end.
* *Scheduler*: the loop's task wakes from its sleep of a second and commits follow
  each other (weak fairness of its steps), and so do the commits of a promotion,
  which holds the event loop. Nothing is assumed of operators, evaluations or crashes.
* *RealtimeSession*: the event loop does not rest while some task can go on (weak
  fairness of all tasks together): every await of the engine has a budget, so an
  adapter answers or is timed out, and asyncio hands locks over in order. Nothing is
  assumed of the client: it may send nothing, and a stalled consumer may never recover.
  The tasks of one session do a bounded amount of work per input, so fairness of the
  loop as a whole is enough and none of a single task is needed.
* *AgentRuntime* (its counterexample run): a run that can take a step eventually does,
  although others use the loop in between (strong fairness). Nothing is assumed of
  operators or submitters.
* *HarnessLab*: the tasks of the event loop run (weak fairness of the run between two
  awaits and of each reader's stream); models and tools may take for ever. A reader that
  stays reads what it is sent: no send has a timeout, and one whose client does not read
  waits with it.
* *VoxWorker*: event loop and threads run. A thread gets the lock and puts into the
  queue although others do in between (strong fairness), which needs that the model's
  code returns, if late; a thread that never returned would be a worker that never frees
  its lock, and the code has no answer to that either. The response takes the next item
  only when the last one has been sent (weak fairness), and nothing is assumed of the
  clients: a send may never end. That it does is `ListenersRead`, the premise of
  `RecordingsAreDeleted`.
* *SoulxWorker*: the event loop runs, the deadline of a generation passes while the parent
  waits for its process (both weak), and asyncio's lock is first come, first served (strong
  fairness of `StartChild`). Nothing is assumed of the child, and nothing of the clients:
  during a send the deadline is not looked at, and that a client reads or leaves is
  `ViewersRead`, the premise of `UploadsAreDeleted`.

In a composite each part has the fairness of its module. The other modules have none:
their properties are safety.

## Proofs

| Theorem | For every | Says |
|---|---|---|
| `FleetProofs!TypeCorrect`, `LimitRespected` | number of handlers | types; a claim never exceeds `max_concurrency` |
| `FleetProofs!SerialCorrect` | instance with one handler | `SerialInv` is invariant |
| `FleetProofs!RowsConsistent`, `CommitNeedsToken`, `SettledRowsAreFinal` | the same | dependencies, verdicts and approval gate; commits need the current token; settled rows are final |
| `FleetProofs!FleetImplementsDagRun` | the same | Fleet implements `DagRun` |
| `FleetProofs!NothingStaysStranded` | the same, without crashes | between calls no released node is blocked and no finished workflow open |
| `FleetProofs!LeasesAreInHand` | the same, with any number of worker loops | a valid lease is in the hands of the worker it names, and in no others |
| `ServicesProofs!DagVerdictIsRight` | graph | `validate_dag` accepts exactly the acyclic ones |
| `AgentRuntimeProofs!TypeCorrect`, `RunCorrect` | number of runs, tools, turns, approvals | types; `RunInv` is invariant |
| `AgentRuntimeProofs!RunHasOneDriver`, `EffectsAreGoverned`, `SettledRunsAreFinal` | the same | one driver; an approved tool completes at most once; verdicts are final |
| `AgentRuntimeProofs!ExecutorsLeaveVerdicts` | the same | an executor that ends leaves a verdict or an open decision |
| `ServicesProofs!EvolutionCorrect`, `SchedulerCorrect` | number of candidates, evaluations, jobs, crashes | `EvolutionInv` and `SchedulerInv` are invariants |
| `ServicesProofs!LivePromptCorrect`, `EvidenceCorrect` | the same | the live prompt is the latest; promotions have evidence |
| `ServicesProofs!SchedulerTypeCorrect`, `OccurrencesCorrect`, `LoopSurvivalCorrect` | the same | types; no occurrence is lost; the loop survives unless a crash hits a promotion |
| `RealtimeSessionProofs!SessionTypeCorrect` | number of turns, phrases, inputs and faults, queue size | types |
| `RealtimeSessionProofs!NothingStaleCorrect`, `OneCurrentTurnCorrect` | the same | nothing of a cleared generation is heard; one turn is current, and the session can cancel it |
| `RealtimeSessionProofs!StateIsSoundCorrect` | the same | the table forbids no transition that a task asks for, unless a detector or an adapter failed under a worker; USER_SPEAKING has somebody who ends it |
| `ServingProofs!FactoryIsSound` | set of callers | a set of adapters has one owner; nothing is published beside a build or after the sweep |
| `ServingProofs!GatewayUsesFactory` | the same | the endpoint with its factory is a `RuntimeFactory` |
| `ServingProofs!GatewayIsSound` | finite set of clients, any limits | counters say what connections have taken; adapters are inside the budget or being closed |
| `ServingProofs!PumpIsHonest` | message sizes and limits | the byte count is what is queued and in flight; a flush that succeeds lost nothing |
| `ServingProofs!LimitsAreKept` | tokens, expiries, burst and rate | a token starts one session until it expires; no window lets through more than burst and refill |
| `ServingProofs!ConsentSurvives`, `WithdrawalIsFinal`, `ConsentTightens` | personas, consents, revisions, sessions; `"temp"` not among the faults | memory and file cover what was granted and withdrawn; a withdrawn consent stays so; revisions grow and keep their content |
| `ServicesProofs!ModelWorkersAreSafe` | number of requests, caps, queue sizes | caps count who is inside; one generation has the model; what still runs has its lock and its files |
| `ServicesProofs!RetriesAlwaysAgree` | number of requests, keys, crashes | requests with one key that did not overlap are answered the same, and with what exists |
| `ServicesProofs!FeedStaysHonest` | window, limit, number of events | new events that their store still gives are in the next poll unless more than a window came at once; nothing left out arrives later; only `event_stream` repeats, after its limit |
| `TrainingProofs!TranscriptsAreOfTheirSource` | number of processes, segments, edits | a transcript holds segments of the recording it names only |
| `TrainingProofs!ClipsAreSound` | recording, sequence of frames, settings | clips are in order, apart and in bounds, and hold exactly the speech that is long enough |
| `TrainingProofs!TrainingReadsTrainSplit` | training set | what passes the screening is read from pinned files of the train split only |
| `TrainingProofs!RecordsStayBound` | number of commands, edits, hours | a record binds media, input and authorization; named media are not replaced |
| `TrainingProofs!ReleasesStay` | authors, versions, skills, kills | releases are only added, and are unique by version and by digest; every blob is whole unless a copy of it is under way or was killed |
| `DatasetPipelineProofs!DatasetStaysReviewed` | number of clips, edits, decisions | a training set is the approved clips, in their reviewed wording, cut from the recording that the reviewed audio was cut from |
| `DatasetPipelineProofs!PublicationsAreOneMoment` | the same | what a command publishes names files that held that content all at once |
| `HarnessLabProofs!ChecksAreTheContract` | log | the checks of `_trace_violations` find nothing exactly when the log is well formed |
| `HarnessLabProofs!LabIsSound` | log length, number of readers, calls, turns | a handler runs once for each approval; a run breaks the contract exactly where a handler raised; a reader gets the log after its cursor, once and in order |

Assumptions. `FleetAssumption` is what `models.py` validates (a workflow has at least one
node, dependencies stay inside it), without acyclicity, which safety does not need. `OneHandler` is the deployment of the documentation, one
process per SQLite file; without it the safety properties of that group are false,
since `complete()` updates by row id what it checked earlier. The persona theorems
assume that a temporary file can be made; without it `Persona_unsaved.cfg` refutes
them. `LimitsAssumption` has `Stale * Rate >= Burst`, which the defaults satisfy. The
assumptions of the other modules only type the constants and keep the values that stand
for "nothing" (`None`, `NoKey`, `NoCaller`, `NoCall`) apart from the others.

Arguments:

* *Fleet.* The properties are not inductive: the UPDATEs of `complete`, `fail` and
  the sweep name only the row, so what keeps them right is that the row is still as
  the call remembers it. `CallsAreCurrent` says so (`RememberedLeaseIsCurrent` for
  lease checks and the sweep, `RememberedVerdictIsCurrent` for what `_advance` and
  the failing calls learned), and one handler makes it inductive: while a call is in
  progress no other call runs, and time and crashes change no row it relies on.
* *Refinement.* `SerialInv` gives the guards of the abstract steps: a grant is a
  `Start` since queued nodes are ready, allowed and have an attempt left.
* *WorkflowDag.* `WalkInv` says that the stack is a path, that visited nodes are
  closed under dependency and that no set of visited nodes is cyclic.
* *AgentRuntime.* Two decisions can not drive one run because a run never has two
  open approvals, and it never has two because a drive ends where it asks. That
  circle is `RunInv`: `OneDriver`, `OpenDecisionIsCurrent` and `LoopIsHeld` carry
  each other, and `DecisionComesFirst` ties effects to decisions.
  `DriverInv` and `ApprovalInv` in the proof module restate it driver by driver.
* *PromptEvolution and Scheduler.* `promote` reads before its first commit and writes
  after it; `PromotionIsCurrent` says that what it holds is still what the tables say,
  which is so because whoever is between commits holds the loop. A verdict names its
  report (`VerdictHasReport`), and versions have no gaps (`NoGaps`), so the version
  after the greatest one is new. `SchedulerInv` needs only `LivePrompt` of all that.
* *RealtimeSession.* `GenerationInv`: a cleared generation is older than
  `generation_id` (`ClearedIsPast`), generations grow with the turns and the session
  holds the response task of the turn that is current (`OneOwner`), and whatever runs
  has a generation above zero (`Begun`). Most actions move one task and leave
  generations alone (`TaskMoves`, `MovesKeepGenerations`); the others end a generation
  (`EndsKeepGenerations`) or begin one. No lock is needed for it: the awaits of a
  cancelled or aborted turn may be overtaken by anything.
* *The state of a session.* The receive loop, a response and its speech worker all ask
  for transitions, and none of them looks at what the others do. `StateInv` says why
  they agree, with `TypeInv` and `GenerationInv`. Where the session changes state
  without asking a turn, no turn that has begun is current (`Vacant`): `VacantInv` lists
  these places, and the turn lock keeps them apart (`LockInv`). While the current turn
  answers or its worker has something to say, the state is THINKING or SPEAKING
  (`AnswerInv`); while an utterance is collected, or waits in its turn to be transcribed,
  it is one that may go on to TRANSCRIBING (`QuietInv`). An `error` of the voice
  detector and one of an adapter set LISTENING under a worker that still speaks, which is
  the exception of the property. `UserTaken` names whoever takes the session out of
  USER_SPEAKING. Each of the three tasks has a lemma (`GatewayKeepsState`,
  `ResponseKeepsState`, `SpeechKeepsState`) with a step for each of its actions.
  `StateInv` was checked by TLC before it was proved, on instances of up to six million
  states.
* *RuntimeFactory.* `FactoryInv` needs `Custody`: a build without a task has no number,
  and while `aclose()` closes a set nothing is published beside it.
* *Gateway.* A sum is not inductive by itself. `Holdings(c)` says, connection by
  connection, that its place tells what it has taken: no path out of the endpoint has
  to remember anything, it gives back what its place implies. The counters are then
  the cardinalities of three sets of connections, and a step changes each set by at
  most the connection that moves (`CountMore`, `CountLess`, `MoveCounts`).
* *Stranded nodes and worker loops.* `NothingStranded` looks between two calls, the
  invariant into them: a blocked node whose parents are completed, or an open workflow
  whose nodes are, has a call in `_advance` that is about to see it (`StrandedAreSeen`).
  A crash would take that call away. For the loops `Hands` says which lease each loop
  holds or reports, and a step of another call only takes leases away (`OnlyLoses`).
* *OutboundPump.* Bytes are counted by messages that leave at the head and come in at the
  tail, so the proof needs what `Total` does then. That is an induction over the
  length of a queue; it goes through as a least counterexample (`WFMin` of the library's
  well-founded induction), where the library's induction schema can not be instantiated.
  `SenderInv` says who may have cancelled the sender.
* *GatewayLimits.* `ConsumedIsCached`: what was consumed in its time is in the cache for
  that time, whatever is purged. `RateIsEarned`: for every start of a window, what was
  let through since and what may still be let through now are within burst and refill.
* *Persona.* A call that finds its entry in memory does not write it. So the file must
  never be behind the memory: `PersonaIInv` says that it is as strict (`AsStrict`), and
  it may be stricter, after an fsync that failed.
* *Forge.* `PublishIsBacked`: a publication that has opened or found a blob still has
  it when it inserts its row, since nobody removes blobs. Every copy to one name has the
  same bytes, so a blob that is not whole has a copy under way or is in `cutBlobs`. The
  table's unique columns do the rest.
* *Model services.* `VoxIInv` and `SoulxIInv` say of each request what its stage, its
  thread or its process have: inside the cap or not (`VoxCounted`, `SoulxCounted`), the
  lock, the files. A thread outlives its request, so its directory is tied to the thread
  and not to the stage (`ThreadsFindFiles`); a child and its helper outlive the signal
  (`ProcessesAreHeld`).
* *Transcription and GpuJob.* A program holds the version it bound
  (`HoldsItsSource`, `EntryHolds`), versions only grow, and so what it finds unchanged at
  the end was unchanged in between. One run at a time is past the creation of the
  checkpoint directory (`OneTrains`).
* *Segmentation.* One invariant for each loop, which says what the part already done
  looks like: `SpansInOrder`, `MergedSound` (nothing of a raw span is lost, gaps are
  larger than the largest that is bridged) and `ClipsSound`.
* *DatasetPipeline.* A command reads the files that it will name one after the other and
  looks at each again after the last reading, its pivot (`ScriptsLookTwice`). The content
  of a file never comes back (`FilesGoOn`), a removed plan apart, so a file that is the
  same at both looks did not change in between, and the moment of the pivot held all
  of them. `OneMoment` says so access by access: past the pivot a moment agrees with the
  memory on every name, except on files that differ now and have not been looked at
  again. `PairAgrees`, `CutOnce` and `FollowsPlan` do the same for what the comparisons
  have established among the documents; `ServerSound` and `Genuine` say that what a
  reviewer heard was the queue's audio, or the audio differs from it for good.
  The scripts are unfolded once (`ExportSteps`, `DatasetSteps`, ...), as sequences of 22 and
  47 accesses that contain the same 17.
* *ControlPlane.* `ControlIInv`: a handler that awaits its run has the row of it
  (`AwaitedExists`), and what a request outside `overlapped` was answered is what its key
  has stored (`AnswerIsStored`). The latter needs `AwaitedAlone`: such a request is alone
  with its key while it awaits, and the key is not stored.
* *EventFeed.* `FeedIInv`: an old event that was not sent is not in the list any more, and
  no event returns to it. A new event of a store that gives its oldest can push out others
  but brings none in (`NoneReturns`, `OneIsDropped`). An event that was sent and is not in
  the set of seen ones was cut by `event_stream`.
* *HarnessLab.* `LogShape`: a request is followed by its decision at once, and a result
  comes at once after its approval, because the run does nothing else in between.
  `Handled` says where each handler was approved and what follows there, the last one
  being possibly still open. So a call that was requested once has at most three events,
  side by side, and of the ten checks one is left to fail. `ReadersInv` says that sent
  events, backlog and queue together are an interval of indices.

Only model-checked:

* all liveness properties (`QueuedNodeSettles`, `ReadyNodeIsReleased`, `WorkflowSettles`,
  `ActiveStateEnds`, `CloseCompletes`, `JobFires`, `StreamsEnd`,
  `PrivateFilesAreDeleted`): fairness and ENABLED are out of the prover's reach.

## Disagreements between code and documentation

Four runs end in a counterexample:

1. `orchestrator.py:262`: a node that runs out of attempts in the sweep is failed,
   its workflow is not; it stays `running` for ever (`FailedNodeFailsWorkflow`).
2. `runtime.py:178`: failures on the way from a decision to the next verdict are
   caught by nobody; the run keeps its status and can not be decided again
   (`EveryDriveLeavesVerdict`).
3. `persona.py:690`: a withdrawal whose temporary file can not be made stays in memory
   only. It is answered as withdrawn, and a restart grants the consent again
   (`WithdrawnIsNeverReusable`).
4. `export_voxcpm_dataset_plan.py:346`: the export reads the decisions twice and binds
   the second reading to the clips of the first (`RejectedIsNotExported`).

The following are stated as properties of their modules and in no run; a configuration
that names one finds its counterexample. The first three bound what a passing property
says: `RetriesAgree` excepts the requests that overlap, `ReleasesAreImmutable` the blobs
that a killed copy left, and `FeedIsHonest` the events that their store does not give.
`SameKeySameResponse` is refuted by two requests of kind "demo" under `ControlSpec` without
a crash, `StoredUnderItsDigest` by one kill under `ForgeSpec`, and `RuntimeEventsAppear` by
three events of the runtime under `FeedSpec` with a window of two.

| Property | Where | Against |
|---|---|---|
| `ControlPlane!SameKeySameResponse` | `api.py:807`, and `api.py:461` likewise: the key is looked up before the run is awaited and stored after it with `INSERT OR IGNORE`, and a handler returns its own response; two requests that overlap create two launches and are answered differently | `examples/market-research/README.md:21` |
| `Forge!StoredUnderItsDigest` | `registry.py:48`: a killed copy leaves a cut blob under the name of its digest; the next publication finds it, copies nothing and releases it | `docs/architecture.md:5` of the forge |
| `EventFeed!RuntimeEventsAppear` | `api.py:295`: the runtime's and the fleet's store are asked for `events(0, limit)`, their oldest; once a store has more, its new events are in no list and no stream | "Runtime events will appear here as work executes.", `static/app.js:484` |
| `FleetWorker!HandlersAreIsolated` | `worker.py:30`: `fail` raises inside the except block, and a handler that outlived its lease ends the loop | "handlers are an isolation boundary", `worker.py` |
| `RealtimeSession!EveryTaskIsObserved` | `pipeline.py:653`: a cancellation while `_respond` closes the model stream leaves its speech worker running, in no set | "quarantined and observed until completion", `docs/ARCHITECTURE.md` |
| `Gateway!PreparedMeansReady` | `echoweave/runtime.py:420`: a waiter that times out marks the factory unavailable beside a set that was just published | `docs/ARCHITECTURE.md:144` |
| `Segmentation!CandidatesFit` | `segment_silero_ranges.py:194`: with `MinClip` above half of `MaxClip` a clip is longer than `MaxClip` | `docs/VOXCPM2_PRIVATE_TRAINING.md:87` |
| `GpuJob!ManifestIsTheOneRun`, `MetricsAreOfTheMedia` | `gpu_worker.py`: the manifest and the metrics are hashed again after they were read | the GPU worker pack's README, the help of `finalize` |
| `VoxWorker!ExitIsUnexpected` | `voxcpm_api.py`: the queue is found empty, the thread delivers its last word and ends, and the stream reports an unexpected exit | the text of that error |
| `Transcription!CheckpointsGrow` | two processes with one output: the slower one takes back what the faster one reached | the checkpoint's purpose; holds with one process |

A heartbeat after the deadline and before the next sweep (`orchestrator.py:157`) makes
an expired token valid again, against `PAPER.md:9`; `Heartbeat` of `Fleet` does so, and
commits are safe all the same (`TokenIsCommitCapability`).

What the properties name as exceptions instead of hiding it:

* A crash between the commit of a completion and those of `_advance`
  (`orchestrator.py:199`) leaves the children blocked, since nothing repeats
  `_advance`: `NothingStranded` and `ReadyNodeIsReleased` are checked without crashes.
* An evaluation that ends after a promotion (`evolution.py:100`), or is asked for again,
  writes `rejected` over `promoted`: a property about the live prompt speaks of the
  evidence it was promoted with, not of the status of its candidate.
* A crash between the first two commits of `promote` (`evolution.py:126`) leaves no
  active prompt. Promoting a candidate that is still `passed` repairs the table, but a
  scan in between ends the scheduler's loop, and no job fires until the next restart
  (`LivePrompt`, `LoopSurvives`, `JobFires`).
* A failed voice detector sets a session to LISTENING while a response is thinking
  (`pipeline.py:251`), and a failed adapter while its worker may still go on to speak
  (`pipeline.py:644`): the worker's SPEAKING is then refused by the table.
* A HarnessLab tool that raises leaves its call without a completion, and a call id
  that the model uses again is a duplicate (`RunsKeepTheContract`). A cancelled run
  emits no terminal event. A reader whose stream ends during its backlog leaves its queue
  behind (`leaked`), and one that already has the last event waits for ever
  (`StreamsEnd`).
* A voice request that was still uploading when another one quarantined the worker is
  answered 503 and keeps its directory (`RecordingsAreDeleted`); a request may
  quarantine the worker only because its thread waits for `INFERENCE_LOCK`.
* A client of a model service that stays connected and stops reading keeps the worker's
  lock, its place and its private files for ever (`soulx_api.py:933`, `voxcpm_api.py:797`):
  no send has a timeout. `PrivateFilesAreDeleted` has as its premise that clients read or
  leave. A HarnessLab reader that stops reading likewise keeps its queue.
* A SoulX job whose last check fails leaves its unpublished media (`LeftoversAreKnown`).

## Not modelled

HTTP routes, CLIs, SDKs, consoles and schemas only forward to the operations above.
Model providers, tools, neural networks and graphics hosts are the environment: their
answers, failures and delays are the nondeterminism of the models. Forge's archives,
signatures and scan rules, the comparison of scores in its evaluation gate, and the file
formats and audio arithmetic of the training scripts are pure functions; so are the
static validations of manifests, uploads and configurations, which the models let fail at any
time. Metrics are counters no decision reads, and the benchmark script is a client.

Of what is modelled in part: the order of audio and video inside one phrase
(`PhraseMedia` of `pipeline.py`), chat and session histories, which only language models
read, and the review page, where saving re-renders the form and drops
edits that were not saved yet. `PROJECT.json` says the same component by component.
