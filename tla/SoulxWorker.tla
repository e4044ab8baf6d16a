---------------------------- MODULE SoulxWorker ----------------------------
(***************************************************************************)
(* services/soulx_api.py: the avatar model service.  It admits requests as *)
(* services/voxcpm_api.py does, stages an image and a recording in a       *)
(* private directory, and generates video in a child process that becomes  *)
(* the leader of a process group before it may start helpers.  A finalizer *)
(* kills the group, or quarantines the worker and keeps both the lock and  *)
(* the directory of a process that it cannot kill.                         *)
(***************************************************************************)
EXTENDS Integers, Sequences, FiniteSets

CONSTANTS Caller,           \* requests
          AvatarCap,        \* MAX_INFLIGHT_REQUESTS
          MaxSegments       \* segments of one generation

NoCaller == "no_caller"

ASSUME SoulxAssumption ==
  AvatarCap \in Nat \ {0} /\ MaxSegments \in Nat /\ NoCaller \notin Caller

VARIABLES
  place,        \* of a request: where its task is
  places,       \* _inflight
  unsafe,       \* WORKER_QUARANTINED
  uploads,      \* its private directory exists
  gpuLock,      \* who has acquired INFERENCE_LOCK, or NoCaller
  child,        \* its process
  helper,       \* a descendant of its process runs (ffmpeg)
  isolated,     \* lifecycle.isolated: the "ready" message has been received
  startEvent,
  segments,     \* segments sent by its process
  pipe          \* messages of its process

soulxVars == <<place, places, unsafe, uploads, gpuLock, child, helper, isolated,
               startEvent, segments, pipe>>
tree == <<child, helper, segments>>
guards == <<places, unsafe>>

Inside == {"reads", "handles", "saves", "responds", "locks", "streams", "sends", "closes",
           "leaves"}

SoulxTypeOK ==
  /\ place \in [Caller -> Inside \cup {"new", "ended"}]
  /\ places \in Nat /\ unsafe \in BOOLEAN /\ uploads \in [Caller -> BOOLEAN]
  /\ gpuLock \in Caller \cup {NoCaller}
  /\ child \in [Caller -> {"none", "starts", "ready", "generates", "exited"}]
  /\ helper \in [Caller -> BOOLEAN] /\ isolated \in [Caller -> BOOLEAN]
  /\ startEvent \in [Caller -> BOOLEAN] /\ segments \in [Caller -> 0 .. MaxSegments]
  /\ pipe \in [Caller -> Seq({"ready", "segment", "done", "error"})]

SoulxInit ==
  /\ place = [c \in Caller |-> "new"] /\ places = 0 /\ unsafe = FALSE
  /\ uploads = [c \in Caller |-> FALSE] /\ gpuLock = NoCaller
  /\ child = [c \in Caller |-> "none"] /\ helper = [c \in Caller |-> FALSE]
  /\ isolated = [c \in Caller |-> FALSE] /\ startEvent = [c \in Caller |-> FALSE]
  /\ segments = [c \in Caller |-> 0] /\ pipe = [c \in Caller |-> <<>>]

Enters(c, p) == place' = [place EXCEPT ![c] = p]

-----------------------------------------------------------------------------
(* The request's task                                                      *)

AdmitCaller(c) ==
  /\ place[c] = "new" /\ ~unsafe /\ places < AvatarCap
  /\ Enters(c, "reads") /\ places' = places + 1
  /\ UNCHANGED <<unsafe, uploads, gpuLock, tree, isolated, startEvent, pipe>>

RefuseCaller(c) ==
  /\ place[c] = "new" /\ unsafe
  /\ Enters(c, "ended")
  /\ UNCHANGED <<guards, uploads, gpuLock, tree, isolated, startEvent, pipe>>

ReadForm(c) ==
  /\ place[c] = "reads"
  /\ Enters(c, "handles") \/ Enters(c, "leaves")
  /\ UNCHANGED <<guards, uploads, gpuLock, tree, isolated, startEvent, pipe>>

ReleaseCaller(c) ==
  /\ place[c] = "leaves"
  /\ Enters(c, "ended")
  /\ places' = IF places > 0 THEN places - 1 ELSE 0
  /\ UNCHANGED <<unsafe, uploads, gpuLock, tree, isolated, startEvent, pipe>>

\* stream_avatar up to the directory
StageUploads(c) ==
  /\ place[c] = "handles"
  /\ \/ Enters(c, "leaves") /\ UNCHANGED uploads
     \/ ~unsafe /\ Enters(c, "saves") /\ uploads' = [uploads EXCEPT ![c] = TRUE]
  /\ UNCHANGED <<guards, gpuLock, tree, isolated, startEvent, pipe>>

\* The uploads are saved, validated and authorized, or removed again.
SaveUploads(c) ==
  /\ place[c] = "saves"
  /\ \/ Enters(c, "responds") /\ UNCHANGED uploads
     \/ Enters(c, "leaves") /\ uploads' = [uploads EXCEPT ![c] = FALSE]
  /\ UNCHANGED <<guards, gpuLock, tree, isolated, startEvent, pipe>>

BeginResponse(c) ==
  /\ place[c] = "responds"
  /\ Enters(c, "locks") \/ Enters(c, "closes")
  /\ UNCHANGED <<guards, uploads, gpuLock, tree, isolated, startEvent, pipe>>

\* generate() acquires the lock and starts its process.  It looks at the quarantine
\* once more, which is never set here: who sets it keeps the lock.
StartChild(c) ==
  /\ place[c] = "locks" /\ gpuLock = NoCaller
  /\ gpuLock' = c
  /\ IF unsafe THEN Enters(c, "closes") /\ UNCHANGED child
               ELSE Enters(c, "streams") /\ child' = [child EXCEPT ![c] = "starts"]
  /\ UNCHANGED <<guards, uploads, helper, segments, isolated, startEvent, pipe>>

\* _next_child_message looks into the pipe, once more after the process has ended; a
\* segment is yielded, and the task waits in send().
Receive(c) ==
  /\ place[c] = "streams" /\ pipe[c] # <<>>
  /\ pipe' = [pipe EXCEPT ![c] = Tail(@)]
  /\ LET message == Head(pipe[c])
     IN /\ isolated' = [isolated EXCEPT ![c] = @ \/ message = "ready"]
        /\ startEvent' = [startEvent EXCEPT ![c] = @ \/ message = "ready"]
        /\ \/ message = "ready" /\ UNCHANGED place
           \/ message = "segment" /\ Enters(c, "sends")
           \/ message \in {"done", "error"} /\ Enters(c, "closes")
  /\ UNCHANGED <<guards, uploads, gpuLock, tree>>

\* The client reads.  Neither the deadline nor the process is looked at meanwhile.
SegmentDelivered(c) ==
  /\ place[c] = "sends"
  /\ Enters(c, "streams")
  /\ UNCHANGED <<guards, uploads, gpuLock, tree, isolated, startEvent, pipe>>

ChildIsGone(c) ==
  /\ place[c] = "streams" /\ pipe[c] = <<>> /\ child[c] = "exited"
  /\ Enters(c, "closes")
  /\ UNCHANGED <<guards, uploads, gpuLock, tree, isolated, startEvent, pipe>>

\* INFERENCE_TIMEOUT_SECONDS, of a live process that has said nothing
GenerationExpires(c) ==
  /\ place[c] = "streams" /\ pipe[c] = <<>> /\ child[c] # "exited"
  /\ Enters(c, "closes")
  /\ UNCHANGED <<guards, uploads, gpuLock, tree, isolated, startEvent, pipe>>

CallerDisconnects(c) ==
  /\ place[c] \in {"locks", "streams", "sends"}
  /\ Enters(c, "closes")
  /\ UNCHANGED <<guards, uploads, gpuLock, tree, isolated, startEvent, pipe>>

\* _close_impl when _terminate_and_join_soulx_process reports that all has stopped:
\* the signals reach the group if the process is known to lead one, else the process.
CloseStopped(c) ==
  /\ place[c] = "closes"
  /\ child' = [child EXCEPT ![c] = IF @ = "none" THEN @ ELSE "exited"]
  /\ helper' = [helper EXCEPT ![c] = @ /\ ~isolated[c]]
  /\ uploads' = [uploads EXCEPT ![c] = FALSE]
  /\ gpuLock' = IF gpuLock = c THEN NoCaller ELSE gpuLock
  /\ Enters(c, "leaves")
  /\ UNCHANGED <<guards, segments, isolated, startEvent, pipe>>

\* ... and when the process, or its group, survives SIGKILL.
CloseUnsafe(c) ==
  /\ place[c] = "closes"
  /\ child[c] \notin {"none", "exited"} \/ (isolated[c] /\ helper[c])
  /\ unsafe' = TRUE
  /\ Enters(c, "leaves")
  /\ UNCHANGED <<places, uploads, gpuLock, tree, isolated, startEvent, pipe>>

-----------------------------------------------------------------------------
(* The child: _soulx_isolated_child                                        *)

Says(c, message) == pipe' = [pipe EXCEPT ![c] = Append(@, message)]

\* os.setsid() comes before the message.
ChildReady(c) ==
  /\ child[c] = "starts"
  /\ child' = [child EXCEPT ![c] = "ready"]
  /\ Says(c, "ready")
  /\ UNCHANGED <<place, guards, uploads, gpuLock, helper, isolated, startEvent, segments>>

ChildStarted(c) ==
  /\ child[c] = "ready" /\ startEvent[c]
  /\ child' = [child EXCEPT ![c] = "generates"]
  /\ UNCHANGED <<place, guards, uploads, gpuLock, helper, isolated, startEvent, segments, pipe>>

\* A segment is watermarked by a helper ...
StartHelper(c) ==
  /\ child[c] = "generates" /\ ~helper[c] /\ segments[c] < MaxSegments
  /\ helper' = [helper EXCEPT ![c] = TRUE]
  /\ UNCHANGED <<place, guards, uploads, gpuLock, child, isolated, startEvent, segments, pipe>>

\* ... and announced.
SendSegment(c) ==
  /\ child[c] = "generates" /\ helper[c]
  /\ helper' = [helper EXCEPT ![c] = FALSE]
  /\ segments' = [segments EXCEPT ![c] = @ + 1]
  /\ Says(c, "segment")
  /\ UNCHANGED <<place, guards, uploads, gpuLock, child, isolated, startEvent>>

ChildEnds(c) ==
  /\ child[c] = "generates" /\ ~helper[c]
  /\ child' = [child EXCEPT ![c] = "exited"]
  /\ Says(c, "done") \/ Says(c, "error")
  /\ UNCHANGED <<place, guards, uploads, gpuLock, helper, isolated, startEvent, segments>>

\* It dies without a word, or gives up waiting for the event; a helper lives on.
ChildDies(c) ==
  /\ child[c] \in {"starts", "ready", "generates"}
  /\ child' = [child EXCEPT ![c] = "exited"]
  /\ UNCHANGED <<place, guards, uploads, gpuLock, helper, isolated, startEvent, segments, pipe>>

CallerStep(c) ==
  \/ ReadForm(c) \/ ReleaseCaller(c) \/ StageUploads(c) \/ SaveUploads(c)
  \/ BeginResponse(c) \/ Receive(c) \/ ChildIsGone(c) \/ GenerationExpires(c)
  \/ CloseStopped(c) \/ CloseUnsafe(c)

ChildStep(c) ==
  ChildReady(c) \/ ChildStarted(c) \/ StartHelper(c) \/ SendSegment(c) \/ ChildEnds(c)
  \/ ChildDies(c)

SoulxNext ==
  \E c \in Caller :
    \/ AdmitCaller(c) \/ RefuseCaller(c) \/ StartChild(c) \/ SegmentDelivered(c)
    \/ CallerDisconnects(c) \/ CallerStep(c) \/ ChildStep(c)

\* The event loop runs, the deadline of a generation passes, and asyncio's lock is
\* first come, first served.  Nothing is assumed of the clients.
SoulxFairness ==
  \A c \in Caller : WF_soulxVars(CallerStep(c)) /\ SF_soulxVars(StartChild(c))

SoulxSpec == SoulxInit /\ [][SoulxNext]_soulxVars /\ SoulxFairness

-----------------------------------------------------------------------------

\* "Stop every descendant before reporting that request cleanup is safe": while the
\* process of a request or one of its helpers runs, the request has the GPU lock and
\* its directory, although the group is signalled only once the parent has read
\* "ready" (_terminate_and_join_soulx_process, _close_impl, _soulx_isolated_child).
CleanupIsSafe ==
  /\ SoulxTypeOK
  /\ \A c \in Caller : helper[c] \/ child[c] \notin {"none", "exited"} =>
       gpuLock = c /\ uploads[c]
  /\ places = Cardinality({c \in Caller : place[c] \in Inside}) /\ places <= AvatarCap

\* No client stays connected for ever without reading.
ViewersRead == \A c \in Caller : []<>(place[c] # "sends")

\* As long as clients read or leave, biometric uploads are deleted in the end unless the
\* worker is quarantined; so no request waits for ever for the lock, and a process that
\* says nothing is not waited for (generate, _next_child_message, _close_impl).
UploadsAreDeleted ==
  ViewersRead => \A c \in Caller : uploads[c] ~> (~uploads[c] \/ unsafe)

=============================================================================
