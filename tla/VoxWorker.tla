----------------------------- MODULE VoxWorker -----------------------------
(***************************************************************************)
(* services/voxcpm_api.py: the streaming voice model service.  A request   *)
(* is admitted under a cap before its body is read, its reference          *)
(* recording goes to a private directory, a thread of its own generates    *)
(* audio under the one INFERENCE_LOCK into a bounded queue, the response   *)
(* polls that queue, and a finalizer stops the thread before it deletes    *)
(* the directory.  A thread that does not stop in time quarantines the     *)
(* worker until it is restarted, which the model leaves out.               *)
(***************************************************************************)
EXTENDS Integers, Sequences, FiniteSets

CONSTANTS Request,
          CloneRequest,     \* the requests that bring a reference recording
          MaxInflight,      \* MAX_INFLIGHT_REQUESTS
          QueueSize,        \* of output_queue
          MaxChunks         \* chunks of audio a generation produces

ASSUME VoxAssumption ==
  /\ CloneRequest \subseteq Request /\ MaxInflight \in Nat \ {0}
  /\ QueueSize \in Nat \ {0} /\ MaxChunks \in Nat \ {0}

VARIABLES
  stage,        \* of a request: where its task is
  outcome,      \* how its stream ended
  inflight,     \* _inflight
  quarantined,  \* WORKER_QUARANTINED
  workdir,      \* its private directory exists
  producer,     \* its thread of _produce_pcm
  chunks,       \* chunks of audio it has produced
  output,       \* output_queue
  stopEvent,
  reaper        \* its _reap_quarantined_producer runs

voxVars == <<stage, outcome, inflight, quarantined, workdir, producer, chunks,
             output, stopEvent, reaper>>
thread == <<producer, chunks>>
service == <<inflight, quarantined, reaper>>

\* The stages of a request that _inflight counts
Admitted == {"reads", "handles", "saves", "responds", "streams", "looks", "sends",
             "closes", "leaves"}

VoxTypeOK ==
  /\ stage \in [Request -> Admitted \cup {"new", "ended"}]
  /\ outcome \in [Request -> {"none", "complete", "error", "exited", "gone"}]
  /\ inflight \in Nat /\ quarantined \in BOOLEAN
  /\ workdir \in [Request -> BOOLEAN] /\ stopEvent \in [Request -> BOOLEAN]
  /\ reaper \in [Request -> BOOLEAN]
  /\ producer \in [Request -> {"none", "queues", "generates", "finishes", "fails", "exited"}]
  /\ chunks \in [Request -> 0 .. MaxChunks]
  /\ output \in [Request -> Seq({"audio", "done", "error"})]

VoxInit ==
  /\ stage = [q \in Request |-> "new"] /\ outcome = [q \in Request |-> "none"]
  /\ inflight = 0 /\ quarantined = FALSE
  /\ workdir = [q \in Request |-> FALSE] /\ stopEvent = [q \in Request |-> FALSE]
  /\ producer = [q \in Request |-> "none"] /\ chunks = [q \in Request |-> 0]
  /\ output = [q \in Request |-> <<>>] /\ reaper = [q \in Request |-> FALSE]

Goto(q, s) == stage' = [stage EXCEPT ![q] = s]

-----------------------------------------------------------------------------
(* The request's task                                                      *)

\* _admit.  A request that meets the cap is answered 429 and, its assertion not being
\* consumed, may try again.
Admit(q) ==
  /\ stage[q] = "new" /\ ~quarantined /\ inflight < MaxInflight
  /\ Goto(q, "reads")
  /\ inflight' = inflight + 1
  /\ UNCHANGED <<outcome, quarantined, workdir, thread, output, stopEvent, reaper>>

RefuseQuarantined(q) ==
  /\ stage[q] = "new" /\ quarantined
  /\ Goto(q, "ended")
  /\ UNCHANGED <<outcome, service, workdir, thread, output, stopEvent>>

\* _read_body under its deadline; _release follows on every path.
ReadBody(q) ==
  /\ stage[q] = "reads"
  /\ Goto(q, "handles") \/ Goto(q, "leaves")
  /\ UNCHANGED <<outcome, service, workdir, thread, output, stopEvent>>

Release(q) ==
  /\ stage[q] = "leaves"
  /\ Goto(q, "ended")
  /\ inflight' = IF inflight > 0 THEN inflight - 1 ELSE 0
  /\ UNCHANGED <<outcome, quarantined, workdir, thread, output, stopEvent, reaper>>

\* speech and clone_speech up to the directory; a request may be refused.
Handle(q) ==
  /\ stage[q] = "handles"
  /\ \/ Goto(q, "leaves") /\ UNCHANGED workdir
     \/ /\ q \in CloneRequest
        /\ workdir' = [workdir EXCEPT ![q] = TRUE] /\ Goto(q, "saves")
     \/ /\ q \notin CloneRequest
        /\ Goto(q, IF quarantined THEN "leaves" ELSE "responds") /\ UNCHANGED workdir
  /\ UNCHANGED <<outcome, service, thread, output, stopEvent>>

\* The reference is saved and compared with the assertion, or the directory is
\* removed; then _streaming_response, whose 503 leaves the directory behind.
SaveReference(q) ==
  /\ stage[q] = "saves"
  /\ \/ Goto(q, IF quarantined THEN "leaves" ELSE "responds") /\ UNCHANGED workdir
     \/ Goto(q, "leaves") /\ workdir' = [workdir EXCEPT ![q] = FALSE]
  /\ UNCHANGED <<outcome, service, thread, output, stopEvent>>

\* The head of the response is sent, and _pcm_stream starts its producer ...
BeginStream(q) ==
  /\ stage[q] = "responds"
  /\ Goto(q, "streams")
  /\ producer' = [producer EXCEPT ![q] = "queues"]
  /\ UNCHANGED <<outcome, service, workdir, chunks, output, stopEvent>>

\* ... or cannot be sent, and the finalizer runs without one.
StartFails(q) ==
  /\ stage[q] = "responds"
  /\ Goto(q, "closes")
  /\ outcome' = [outcome EXCEPT ![q] = "gone"]
  /\ UNCHANGED <<service, workdir, thread, output, stopEvent>>

\* The stream ends: the finally clause of _pcm_stream, then the finalizer
EndStream(q, how) ==
  /\ Goto(q, "closes")
  /\ outcome' = [outcome EXCEPT ![q] = how]
  /\ stopEvent' = [stopEvent EXCEPT ![q] = TRUE]

\* get_nowait returns an item; audio is yielded, and the task waits in send().
TakeItem(q) ==
  /\ stage[q] = "streams" /\ output[q] # <<>>
  /\ output' = [output EXCEPT ![q] = Tail(@)]
  /\ IF Head(output[q]) = "audio" THEN Goto(q, "sends") /\ UNCHANGED <<outcome, stopEvent>>
     ELSE EndStream(q, IF Head(output[q]) = "done" THEN "complete" ELSE "error")
  /\ UNCHANGED <<service, workdir, thread>>

\* The client reads.  Nothing limits the time that it takes.
Delivered(q) ==
  /\ stage[q] = "sends"
  /\ Goto(q, "streams")
  /\ UNCHANGED <<outcome, service, workdir, thread, output, stopEvent>>

\* get_nowait raises Empty; only then is the thread looked at.
FindEmpty(q) ==
  /\ stage[q] = "streams" /\ output[q] = <<>>
  /\ Goto(q, "looks")
  /\ UNCHANGED <<outcome, service, workdir, thread, output, stopEvent>>

LookAtProducer(q) ==
  /\ stage[q] = "looks"
  /\ IF producer[q] = "exited" THEN EndStream(q, "exited")
     ELSE Goto(q, "streams") /\ UNCHANGED <<outcome, stopEvent>>
  /\ UNCHANGED <<service, workdir, thread, output>>

Disconnect(q) ==
  /\ stage[q] \in {"streams", "looks", "sends"}
  /\ EndStream(q, "gone")
  /\ UNCHANGED <<service, workdir, thread, output>>

\* _VoxStreamLifecycle._close: the join returns, or its deadline passes.
CloseJoined(q) ==
  /\ stage[q] = "closes" /\ producer[q] \in {"none", "exited"}
  /\ workdir' = [workdir EXCEPT ![q] = FALSE]
  /\ Goto(q, "leaves")
  /\ UNCHANGED <<outcome, service, thread, output, stopEvent>>

\* Mutant: the directory is deleted under a thread that did not stop.
CloseExpiresDeleting(q) ==
  /\ stage[q] = "closes" /\ producer[q] \notin {"none", "exited"}
  /\ quarantined' = TRUE /\ reaper' = [reaper EXCEPT ![q] = TRUE]
  /\ workdir' = [workdir EXCEPT ![q] = FALSE]
  /\ Goto(q, "leaves")
  /\ UNCHANGED <<outcome, inflight, thread, output, stopEvent>>

CloseExpires(q) ==
  /\ stage[q] = "closes" /\ producer[q] \notin {"none", "exited"}
  /\ quarantined' = TRUE /\ reaper' = [reaper EXCEPT ![q] = TRUE]
  /\ Goto(q, "leaves")
  /\ UNCHANGED <<outcome, inflight, workdir, thread, output, stopEvent>>

\* Mutant: the reaper joins the thread and leaves the directory.
ReapOnly(q) ==
  /\ reaper[q] /\ producer[q] = "exited"
  /\ reaper' = [reaper EXCEPT ![q] = FALSE]
  /\ UNCHANGED <<stage, outcome, inflight, quarantined, workdir, thread, output, stopEvent>>

Reap(q) ==
  /\ reaper[q] /\ producer[q] = "exited"
  /\ reaper' = [reaper EXCEPT ![q] = FALSE]
  /\ workdir' = [workdir EXCEPT ![q] = FALSE]
  /\ UNCHANGED <<stage, outcome, inflight, quarantined, thread, output, stopEvent>>

-----------------------------------------------------------------------------
(* The producer's thread: _produce_pcm                                     *)

HoldsLock(q) == producer[q] \in {"generates", "finishes"}

Moves(q, to) == producer' = [producer EXCEPT ![q] = to]

\* Nothing looks at the stop event before the lock is acquired.
AcquireLock(q) ==
  /\ producer[q] = "queues" /\ ~\E r \in Request : HoldsLock(r)
  /\ Moves(q, "generates")
  /\ UNCHANGED <<stage, outcome, service, workdir, chunks, output, stopEvent>>

\* _queue_producer_item: it waits for room, and gives up when told to stop.
Puts(q, item) ==
  /\ ~stopEvent[q] /\ Len(output[q]) < QueueSize
  /\ output' = [output EXCEPT ![q] = Append(@, item)]

\* The model yields a chunk.
ProduceChunk(q) ==
  /\ producer[q] = "generates" /\ chunks[q] < MaxChunks
  /\ Puts(q, "audio")
  /\ chunks' = [chunks EXCEPT ![q] = @ + 1]
  /\ UNCHANGED <<stage, outcome, service, workdir, producer, stopEvent>>

ProduceDone(q) ==
  /\ producer[q] = "generates" /\ chunks[q] = MaxChunks
  /\ Puts(q, "done")
  /\ Moves(q, "finishes")
  /\ UNCHANGED <<stage, outcome, service, workdir, chunks, stopEvent>>

\* After a chunk, or while it waits for room, the thread sees the event.
SeesStop(q) ==
  /\ producer[q] = "generates" /\ stopEvent[q]
  /\ Moves(q, "finishes")
  /\ UNCHANGED <<stage, outcome, service, workdir, chunks, output, stopEvent>>

\* An exception closes the iterator, releases the lock, and is then reported.
GenerationFails(q) ==
  /\ producer[q] = "generates"
  /\ Moves(q, "fails")
  /\ UNCHANGED <<stage, outcome, service, workdir, chunks, output, stopEvent>>

ReportFailure(q) ==
  /\ producer[q] = "fails"
  /\ \/ Puts(q, "error")
     \/ stopEvent[q] /\ UNCHANGED output
  /\ Moves(q, "exited")
  /\ UNCHANGED <<stage, outcome, service, workdir, chunks, stopEvent>>

Finish(q) ==
  /\ producer[q] = "finishes"
  /\ Moves(q, "exited")
  /\ UNCHANGED <<stage, outcome, service, workdir, chunks, output, stopEvent>>

IteratorStep(q) == ProduceChunk(q) \/ ProduceDone(q) \/ SeesStop(q)

ThreadStep(q) == AcquireLock(q) \/ ReportFailure(q) \/ Finish(q)

ServiceStep(q) ==
  \/ ReadBody(q) \/ Handle(q) \/ SaveReference(q) \/ Release(q)
  \/ BeginStream(q) \/ TakeItem(q) \/ FindEmpty(q) \/ LookAtProducer(q)
  \/ CloseJoined(q) \/ CloseExpires(q) \/ Reap(q)

VoxNext ==
  \E q \in Request :
    \/ Admit(q) \/ RefuseQuarantined(q) \/ StartFails(q) \/ Disconnect(q) \/ Delivered(q)
    \/ ServiceStep(q) \/ ThreadStep(q) \/ IteratorStep(q) \/ GenerationFails(q)

\* The event loop and the threads run, and every thread gets the lock in its turn.  The
\* model's code does return, if late.  Nothing is assumed of the clients.
VoxFairness ==
  \A q \in Request :
    WF_voxVars(ServiceStep(q)) /\ SF_voxVars(ThreadStep(q)) /\ WF_voxVars(IteratorStep(q))

VoxSpec == VoxInit /\ [][VoxNext]_voxVars /\ VoxFairness

-----------------------------------------------------------------------------

\* The cap counts the requests that are inside it, at every exit of the middleware
\* (_admit, _release), one generation at a time has the model (INFERENCE_LOCK), and a
\* thread that may still read a private recording finds its directory, also after a
\* quarantine (_VoxStreamLifecycle, _reap_quarantined_producer).
WorkerIsSafe ==
  /\ VoxTypeOK
  /\ inflight = Cardinality({q \in Request : stage[q] \in Admitted})
  /\ inflight <= MaxInflight
  /\ \A q, r \in Request : HoldsLock(q) /\ HoldsLock(r) => q = r
  /\ \A q \in CloneRequest : producer[q] \notin {"none", "exited"} => workdir[q]

\* No client stays connected for ever without reading.
ListenersRead == \A q \in Request : []<>(stage[q] # "sends")

\* As long as clients read or leave, private recordings are deleted in the end, except
\* those whose request was still uploading when another one quarantined the worker
\* (speech, clone_speech, _streaming_response, _pcm_stream).
RecordingsAreDeleted ==
  ListenersRead =>
    \A q \in CloneRequest :
      workdir[q] ~> (~workdir[q] \/ (quarantined /\ producer[q] = "none"))

\* "VoxCPM2 producer exited unexpectedly.": a stream ends with this message only when
\* the thread has not delivered its last word (_pcm_stream, _produce_pcm).
ExitIsUnexpected ==
  \A q \in Request : outcome[q] = "exited" =>
    \A i \in 1 .. Len(output[q]) : output[q][i] = "audio"

=============================================================================
