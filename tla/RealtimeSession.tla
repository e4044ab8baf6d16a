---------------------------- MODULE RealtimeSession ----------------------------
(***************************************************************************)
(* The turn engine of the realtime service: services/realtime,             *)
(* echoweave/pipeline.py, with the part of app.py that drives it.          *)
(*                                                                         *)
(* Three kinds of asyncio tasks share one session: the gateway's receive   *)
(* loop (one caller at a time), a response task per turn, and the speech   *)
(* worker each response starts.  A step runs from one await to the next;   *)
(* `at' names the await a task is suspended in.  Consecutive emissions by  *)
(* one task, and the wait for a lock that follows an emission, are one     *)
(* await.  CancelledError is raised in the step that cancels: `at' moves   *)
(* to where the handlers of the interrupted await lead, and the locks the  *)
(* task held come free.                                                    *)
(*                                                                         *)
(* Abstracted: what is said (a phrase is a count), which error code an     *)
(* event carries, the order of audio and video inside one phrase, metrics  *)
(* and the chat history.                                                   *)
(***************************************************************************)
EXTENDS Integers, FiniteSets

CONSTANTS max_turns,          \* turns a session may take
          speech_queue_size,  \* capacity of the queue from response to speech
          MaxPhrases,         \* bound: phrases the model answers with
          MaxMedia,           \* bound: media emissions of one phrase
          MaxInputs,          \* bound: what the user says, types or cancels
          MaxFaults,          \* bound: kinds of fault in one behaviour
          MaxEvents,          \* bound: inputs and faults together
          FaultKinds          \* the faults a run considers

ASSUME SessionAssumption ==
  /\ max_turns \in Nat /\ speech_queue_size \in Nat
  /\ MaxPhrases \in Nat /\ MaxMedia \in Nat /\ MaxInputs \in Nat
  /\ MaxEvents \in Nat

VARIABLES state, turn_id, generation_id, speech_active, response_task,
          turn_lock, state_lock,
          turns,        \* per turn: its response task, generation and event
          speech,       \* per turn: its speech worker and the queue to it
          retired,      \* _retired_tasks, and those of them that have ended
          gateway,      \* the receive loop: what it is doing, and where
          consumer,     \* the client's end of the socket: ok, slow or gone
          authorized,   \* what the persona's authorization check says
          inputs, faults,
          cleared,      \* history: newest generation playout.clear has named
          heardLate     \* history: generations heard after they were cleared

session == <<state, turn_id, generation_id, speech_active>>
locks == <<turn_lock, state_lock>>
responses == <<turns, response_task>>
environment == <<consumer, authorized, inputs>>
history == <<cleared, heardLate>>
vars == <<session, locks, responses, speech, retired, gateway, environment, faults, history>>

Turns == 1..max_turns
Nobody == <<"nobody", 0>>
Gateway == <<"gateway", 0>>
Response(t) == <<"response", t>>
Speech(t) == <<"speech", t>>

States == {"ready", "listening", "user_speaking", "transcribing", "thinking",
           "speaking", "closed"}

(* _ALLOWED_STATE_TRANSITIONS *)
Allowed ==
  [ready |-> {"listening", "closed"},
   listening |-> {"listening", "user_speaking", "transcribing", "thinking", "closed"},
   user_speaking |-> {"user_speaking", "listening", "transcribing", "thinking", "closed"},
   transcribing |-> {"transcribing", "listening", "user_speaking", "thinking", "closed"},
   thinking |-> {"thinking", "listening", "user_speaking", "speaking", "closed"},
   speaking |-> {"speaking", "listening", "user_speaking", "transcribing",
                 "thinking", "closed"},
   closed |-> {"closed"}]

(* The awaits of a response task, by what CancelledError does there. *)
TranscribingAt == {"new", "trSent", "asr", "asrSent"}
RespondingAt == {"think", "thinkSent", "llm", "deltaSent", "put", "end",
                 "finalSent", "join", "metricsSent", "idleSent"}
HandlerAt == {"cancelling", "failSent", "failedIdle", "abort", "abortSent",
              "abortIdle", "quarantine", "quarantineState"}
FinallyAwaits == {"closeStream", "stopSpeech", "stopWait"}
ResponseAt == {"none", "done"} \cup TranscribingAt \cup RespondingAt
                \cup HandlerAt \cup FinallyAwaits
SpeechAt == {"none", "get", "speak", "speakSent", "media", "mediaSent",
             "closing", "done"}
GatewayAt == {"ready", "startSent", "idle", "vad", "errSent", "lock", "stopping",
              "clearSent", "userState", "stateSent", "limitSent", "leaving",
              "retiring", "reaping", "closed"}
Operations == {"none", "frame", "barge_in", "text", "audio", "cancel",
               "revoked", "close"}

Init ==
  /\ state = "ready" /\ turn_id = 0 /\ generation_id = 0
  /\ speech_active = FALSE /\ response_task = 0
  /\ turn_lock = Nobody /\ state_lock = Nobody
  /\ turns = [t \in Turns |-> [kind |-> "text", gen |-> 0, cancel |-> FALSE,
                               at |-> "none", stream |-> FALSE, phrases |-> 0]]
  /\ speech = [t \in Turns |-> [at |-> "none", queued |-> 0, ended |-> FALSE,
                                media |-> 0, raised |-> "none"]]
  /\ retired = {}
  /\ gateway = [at |-> "ready", op |-> "none", task |-> 0]
  /\ consumer = "ok" /\ authorized = TRUE /\ inputs = 0 /\ faults = {}
  /\ cleared = 0 /\ heardLate = {}

-----------------------------------------------------------------------------
(* Helpers *)

(* Mutant: a turn is current for as long as the session is open. *)
IsCurrentWhileOpen(t) == state # "closed"

(* _is_current *)
IsCurrent(t) ==
  /\ state # "closed"
  /\ turns[t].gen = generation_id
  /\ ~turns[t].cancel

FaultsSeen == Cardinality(faults \ {"table"})

(* The environment does the wrong thing once per kind, MaxFaults kinds. *)
Fault(kind) ==
  /\ kind \in FaultKinds \ faults
  /\ FaultsSeen < MaxFaults /\ inputs + FaultsSeen < MaxEvents
  /\ faults' = faults \cup {kind}

(* A guarded emission of turn t's media or text reaches the client. *)
Heard(t) ==
  heardLate' = IF IsCurrent(t) /\ consumer = "ok" /\ turns[t].gen <= cleared
                 THEN heardLate \cup {turns[t].gen} ELSE heardLate

(* playout.clear names generation g. *)
Cleared(g) == cleared' = IF consumer = "ok" /\ g > cleared THEN g ELSE cleared

Free(lock, owners) == IF lock \in owners THEN Nobody ELSE lock

ResponseLive(t) == turns[t].at \notin {"none", "done"}
SpeechLive(t) == speech[t].at \notin {"none", "done"}

(* Where the finally clause of _respond begins; _transcribe_and_respond has
   none. *)
FinallyAt(t) ==
  IF speech[t].at = "none" THEN "done"
  ELSE IF turns[t].stream THEN "closeStream" ELSE "stopSpeech"

(* except Exception: report the failure if the turn is still current. *)
FailAt(t) == IF IsCurrent(t) THEN "failSent" ELSE FinallyAt(t)

(* Where an exception of the speech worker leads once the response sees it. *)
RaisedAt(t) ==
  CASE speech[t].raised \in {"auth", "timeout"} -> "abort"
    [] speech[t].raised = "slow" -> "quarantine"
    [] OTHER -> FailAt(t)

(* Where CancelledError leads the response task of turn t. *)
CancelledAt(t) ==
  CASE turns[t].at \in RespondingAt -> "cancelling"
    [] turns[t].at \in HandlerAt -> FinallyAt(t)
    [] turns[t].at \in {"none", "stopSpeech"} -> turns[t].at
    [] OTHER -> "done"

(* Where CancelledError leads the speech worker of turn t. *)
SpeechCancelledAt(t) ==
  CASE speech[t].at = "none" -> "none"
    [] speech[t].at \in {"media", "mediaSent"} -> "closing"
    [] OTHER -> "done"

(* The response tasks of the turns in R and the speech workers of those in S
   are cancelled.  _stop_task, interrupted, retires the worker it waits for. *)
TasksCancelled(R, S) ==
  /\ turns' = [t \in Turns |->
       IF t \in R THEN [turns[t] EXCEPT !.at = CancelledAt(t)] ELSE turns[t]]
  /\ speech' = [t \in Turns |->
       IF t \in S THEN [speech[t] EXCEPT !.at = SpeechCancelledAt(t)]
       ELSE speech[t]]

RetiredBy(R) == {Speech(t) : t \in {u \in R : turns[u].at = "stopWait" /\ SpeechLive(u)}}

(* Mutant: whichever response ends, the session forgets the one it has. *)
GoToForgets(t, p) ==
  /\ turns' = [turns EXCEPT ![t].at = p]
  /\ response_task' = IF p = "done" THEN 0 ELSE response_task

(* The response task of turn t goes on to await p, or ends (_response_done). *)
GoTo(t, p) ==
  /\ turns' = [turns EXCEPT ![t].at = p]
  /\ response_task' = IF p = "done" /\ response_task = t THEN 0 ELSE response_task

-----------------------------------------------------------------------------
(* The response task of turn t: _transcribe_and_respond and _respond *)

(* _set_state by a response: nothing if the turn is stale, RuntimeError if the
   table has no such transition, else the state changes and is emitted under
   the state lock. *)
ResponseEnters(t, s, next) ==
  /\ state_lock = Nobody
  /\ IF ~IsCurrent(t)
       THEN GoTo(t, FinallyAt(t)) /\ UNCHANGED <<state, state_lock, faults>>
     ELSE IF s \notin Allowed[state]
       THEN /\ GoTo(t, FailAt(t)) /\ faults' = faults \cup {"table"}
            /\ UNCHANGED <<state, state_lock>>
     ELSE /\ state' = s /\ state_lock' = Response(t)
          /\ GoTo(t, next) /\ UNCHANGED faults
  /\ UNCHANGED <<turn_id, generation_id, speech_active, turn_lock, speech,
                 retired, gateway, environment, history>>

(* An emission of the response returned: it goes on to await p. *)
ResponseSent(t, from, p) ==
  /\ turns[t].at = from /\ consumer = "ok"
  /\ state_lock' = Free(state_lock, {Response(t)})
  /\ GoTo(t, p)

TranscribeBegins(t) ==
  /\ turns[t].at = "new" /\ turns[t].kind = "audio"
  /\ ResponseEnters(t, "transcribing", "trSent")

TranscribingShown(t) ==
  /\ ResponseSent(t, "trSent", "asr")
  /\ UNCHANGED <<session, turn_lock, speech, retired, gateway, environment, faults, history>>

AsrReturns(t) ==
  /\ turns[t].at = "asr"
  /\ GoTo(t, IF IsCurrent(t) THEN "asrSent" ELSE "done")
  /\ Heard(t)
  /\ UNCHANGED <<session, locks, speech, retired, gateway, environment, faults, cleared>>

(* The adapter the response waits for fails, or its budget runs out; a response
   beyond its size limit aborts the generation like a timeout. *)
AdapterFails(t) ==
  /\ turns[t].at \in {"asr", "llm"}
  /\ Fault("adapter")
  /\ GoTo(t, FailAt(t))
  /\ UNCHANGED <<session, locks, speech, retired, gateway, environment, history>>

AdapterTimesOut(t) ==
  /\ turns[t].at \in {"asr", "llm", "put", "end"}
  /\ Fault("timeout")
  /\ GoTo(t, "abort")
  /\ UNCHANGED <<session, locks, speech, retired, gateway, environment, history>>

(* asr.final and the error were emitted: ASR returned no text. *)
EmptyTranscript(t) ==
  /\ turns[t].at = "asrSent" /\ consumer = "ok"
  /\ ResponseEnters(t, "listening", "failedIdle")

(* _respond starts the speech worker and authorizes the turn once more. *)
RespondBegins(t) ==
  /\ \/ turns[t].at = "new" /\ turns[t].kind = "text"
     \/ turns[t].at = "asrSent" /\ consumer = "ok"
  /\ speech' = [speech EXCEPT ![t].at = "get"]
  /\ GoTo(t, IF authorized THEN "think" ELSE "abort")
  /\ UNCHANGED <<session, locks, retired, gateway, environment, faults, history>>

Think(t) ==
  /\ turns[t].at = "think"
  /\ ResponseEnters(t, "thinking", "thinkSent")

ThinkingShown(t) ==
  /\ turns[t].at = "thinkSent" /\ consumer = "ok"
  /\ state_lock' = Free(state_lock, {Response(t)})
  /\ turns' = [turns EXCEPT ![t].at = "llm", ![t].stream = TRUE]
  /\ UNCHANGED <<session, turn_lock, response_task, speech, retired, gateway,
                 environment, faults, history>>

(* The stream yields the text of one more phrase.  _authorize may still go by
   its last answer (authorization_check_interval). *)
Delta(t) ==
  /\ turns[t].at = "llm" /\ turns[t].phrases < MaxPhrases
  /\ \/ /\ ~IsCurrent(t)
        /\ GoTo(t, FinallyAt(t)) /\ UNCHANGED heardLate
     \/ /\ IsCurrent(t) /\ ~authorized
        /\ GoTo(t, "abort") /\ UNCHANGED heardLate
     \/ /\ IsCurrent(t)
        /\ turns' = [turns EXCEPT ![t].at = "deltaSent", ![t].phrases = @ + 1]
        /\ Heard(t) /\ UNCHANGED response_task
  /\ UNCHANGED <<session, locks, speech, retired, gateway, environment, faults, cleared>>

DeltaShown(t) ==
  /\ ResponseSent(t, "deltaSent", "put")
  /\ UNCHANGED <<session, turn_lock, speech, retired, gateway, environment, faults, history>>

StreamEnds(t) ==
  /\ turns[t].at = "llm"
  /\ GoTo(t, "end")
  /\ UNCHANGED <<session, locks, speech, retired, gateway, environment, faults, history>>

(* _queue_speech with room in the queue, for a phrase or for _QUEUE_END; the
   end of the stream is followed by assistant.final. *)
QueueSpeech(t) ==
  LET last == turns[t].at = "end" IN
  /\ turns[t].at \in {"put", "end"}
  /\ IsCurrent(t) => speech[t].at # "done" /\ speech[t].queued < speech_queue_size
  /\ IF IsCurrent(t)
       THEN /\ speech' = [speech EXCEPT ![t].queued = @ + 1, ![t].ended = last]
            /\ GoTo(t, IF last THEN "finalSent" ELSE "llm")
            /\ IF last THEN Heard(t) ELSE UNCHANGED heardLate
       ELSE /\ GoTo(t, IF last THEN FinallyAt(t) ELSE "llm")
            /\ UNCHANGED <<speech, heardLate>>
  /\ UNCHANGED <<session, locks, retired, gateway, environment, faults, cleared>>

(* _queue_speech finds that the worker has stopped. *)
WorkerStopped(t) ==
  /\ turns[t].at \in {"put", "end"}
  /\ IsCurrent(t) /\ speech[t].at = "done"
  /\ GoTo(t, RaisedAt(t))
  /\ UNCHANGED <<session, locks, speech, retired, gateway, environment, faults, history>>

FinalShown(t) ==
  /\ ResponseSent(t, "finalSent", "join")
  /\ UNCHANGED <<session, turn_lock, speech, retired, gateway, environment, faults, history>>

(* _await_existing_task: the worker is done, and turn.metrics follows. *)
SpeechJoined(t) ==
  /\ turns[t].at = "join" /\ speech[t].at = "done"
  /\ GoTo(t, IF speech[t].raised # "none" THEN RaisedAt(t)
             ELSE IF IsCurrent(t) THEN "metricsSent" ELSE FinallyAt(t))
  /\ UNCHANGED <<session, locks, speech, retired, gateway, environment, faults, history>>

JoinTimesOut(t) ==
  /\ turns[t].at = "join" /\ SpeechLive(t)
  /\ Fault("timeout")
  /\ speech' = [speech EXCEPT ![t].at = SpeechCancelledAt(t)]
  /\ state_lock' = Free(state_lock, {Speech(t)})
  /\ retired' = retired \cup {Speech(t)}
  /\ GoTo(t, "abort")
  /\ UNCHANGED <<session, turn_lock, gateway, environment, history>>

(* turn.metrics, or the error a failure reports, was emitted. *)
Settle(t) ==
  /\ consumer = "ok"
  /\ \/ turns[t].at = "metricsSent" /\ ResponseEnters(t, "listening", "idleSent")
     \/ turns[t].at = "failSent" /\ ResponseEnters(t, "listening", "failedIdle")

Settled(t) ==
  /\ \E from \in {"idleSent", "failedIdle"} : ResponseSent(t, from, FinallyAt(t))
  /\ UNCHANGED <<session, turn_lock, speech, retired, gateway, environment, faults,
                 history>>

(* The generation of turn t ends on the session's initiative. *)
GenerationEnds(t) ==
  /\ generation_id' = generation_id + 1
  /\ response_task' = IF response_task = t THEN 0 ELSE response_task
  /\ turn_lock' = Response(t)

(* _abort_generation: authorization revoked, budget exceeded, answer too long. *)
Abort(t) ==
  /\ turns[t].at = "abort" /\ turn_lock = Nobody
  /\ IF ~IsCurrent(t)
       THEN GoTo(t, FinallyAt(t)) /\ UNCHANGED <<generation_id, turn_lock, cleared>>
       ELSE /\ GenerationEnds(t)
            /\ turns' = [turns EXCEPT ![t].cancel = TRUE, ![t].at = "abortSent"]
            /\ Cleared(turns[t].gen)
  /\ UNCHANGED <<state, turn_id, speech_active, state_lock, speech, retired, gateway,
                 environment, faults, heardLate>>

(* Mutant: the aborted turn leaves the state as it was. *)
AbortShownAsIs(t) ==
  /\ turns[t].at = "abortSent" /\ consumer = "ok"
  /\ GoTo(t, FinallyAt(t)) /\ turn_lock' = Nobody
  /\ UNCHANGED <<session, state_lock, speech, retired, gateway, environment, faults,
                 history>>

AbortShown(t) ==
  /\ turns[t].at = "abortSent" /\ consumer = "ok" /\ state_lock = Nobody
  /\ IF state = "closed"
       THEN /\ GoTo(t, FinallyAt(t)) /\ turn_lock' = Nobody
            /\ UNCHANGED <<state, state_lock>>
       ELSE /\ GoTo(t, "abortIdle") /\ state' = "listening"
            /\ state_lock' = Response(t) /\ UNCHANGED turn_lock
  /\ UNCHANGED <<turn_id, generation_id, speech_active, speech, retired, gateway,
                 environment, faults, history>>

(* Mutant: the turn lock is never given back. *)
AbortedLocked(t) ==
  /\ ResponseSent(t, "abortIdle", FinallyAt(t))
  /\ UNCHANGED <<session, turn_lock, speech, retired, gateway, environment, faults,
                 history>>

Aborted(t) ==
  /\ ResponseSent(t, "abortIdle", FinallyAt(t))
  /\ turn_lock' = Nobody
  /\ UNCHANGED <<session, speech, retired, gateway, environment, faults, history>>

(* _quarantine_slow_consumer *)
Quarantine(t) ==
  /\ turns[t].at = "quarantine" /\ turn_lock = Nobody
  /\ IF turns[t].gen # generation_id
       THEN GoTo(t, FinallyAt(t)) /\ UNCHANGED <<generation_id, turn_lock>>
       ELSE /\ GenerationEnds(t)
            /\ turns' = [turns EXCEPT ![t].cancel = TRUE, ![t].at = "quarantineState"]
  /\ UNCHANGED <<state, turn_id, speech_active, state_lock, speech, retired, gateway,
                 environment, faults, history>>

Quarantined(t) ==
  /\ turns[t].at = "quarantineState" /\ state_lock = Nobody
  /\ state' = "closed" /\ turn_lock' = Nobody
  /\ GoTo(t, FinallyAt(t))
  /\ UNCHANGED <<turn_id, generation_id, speech_active, state_lock, speech, retired,
                 gateway, environment, faults, history>>

(* An emission of the response does not come through.  A slow consumer
   (SlowConsumerError) is quarantined, except by the handlers that are already
   ending the generation; a closed transport raises again in every handler. *)
ResponseUnheard(t) ==
  /\ turns[t].at \in {"trSent", "asrSent", "thinkSent", "deltaSent", "finalSent",
                      "metricsSent", "idleSent", "failSent", "failedIdle",
                      "abortSent", "abortIdle", "cancelling"}
  /\ consumer # "ok"
  /\ turn_lock' = Free(turn_lock, {Response(t)})
  /\ state_lock' = Free(state_lock, {Response(t)})
  /\ GoTo(t, IF consumer = "slow"
                  /\ turns[t].at \notin {"abortSent", "abortIdle", "cancelling"}
                THEN "quarantine" ELSE FinallyAt(t))
  /\ UNCHANGED <<session, speech, retired, gateway, environment, faults, history>>

(* turn.cancelled was emitted. *)
CancelShown(t) ==
  /\ ResponseSent(t, "cancelling", FinallyAt(t))
  /\ UNCHANGED <<session, turn_lock, speech, retired, gateway, environment, faults,
                 history>>

(* finally: close the stream, then stop the worker (_stop_task). *)
StreamClosed(t) ==
  /\ turns[t].at = "closeStream"
  /\ GoTo(t, "stopSpeech")
  /\ UNCHANGED <<session, locks, speech, retired, gateway, environment, faults, history>>

StopSpeech(t) ==
  /\ turns[t].at = "stopSpeech"
  /\ IF SpeechLive(t)
       THEN /\ speech' = [speech EXCEPT ![t].at = SpeechCancelledAt(t)]
            /\ state_lock' = Free(state_lock, {Speech(t)})
            /\ GoTo(t, "stopWait")
       ELSE GoTo(t, "done") /\ UNCHANGED <<speech, state_lock>>
  /\ UNCHANGED <<session, turn_lock, retired, gateway, environment, faults, history>>

SpeechStopped(t) ==
  /\ turns[t].at = "stopWait"
  /\ IF SpeechLive(t) THEN Fault("cancel") /\ retired' = retired \cup {Speech(t)}
                      ELSE UNCHANGED <<faults, retired>>
  /\ GoTo(t, "done")
  /\ UNCHANGED <<session, locks, speech, gateway, environment, history>>

ResponseStep(t) ==
  \/ TranscribeBegins(t) \/ TranscribingShown(t) \/ AsrReturns(t)
  \/ AdapterFails(t) \/ AdapterTimesOut(t) \/ EmptyTranscript(t)
  \/ RespondBegins(t) \/ Think(t) \/ ThinkingShown(t) \/ Delta(t)
  \/ DeltaShown(t) \/ StreamEnds(t) \/ QueueSpeech(t) \/ WorkerStopped(t)
  \/ FinalShown(t) \/ SpeechJoined(t) \/ JoinTimesOut(t) \/ Settle(t)
  \/ Settled(t) \/ Abort(t) \/ AbortShown(t) \/ Aborted(t) \/ Quarantine(t)
  \/ Quarantined(t) \/ ResponseUnheard(t) \/ CancelShown(t) \/ StreamClosed(t)
  \/ StopSpeech(t) \/ SpeechStopped(t)

-----------------------------------------------------------------------------
(* The speech worker of turn t: _speech_worker, _speak_phrase, _animate_phrase *)

SpeechGoes(t, p) == speech' = [speech EXCEPT ![t].at = p]
SpeechRaises(t, p, exception) ==
  speech' = [speech EXCEPT ![t].at = p, ![t].raised = exception]

(* The loop goes round while the turn is current. *)
LoopAt(t) == IF IsCurrent(t) THEN "get" ELSE "done"

(* queue.get returns _QUEUE_END, or a phrase the turn may still speak. *)
GetPhrase(t) ==
  /\ speech[t].at = "get" /\ speech[t].queued > 0
  /\ IF speech[t].ended /\ speech[t].queued = 1
       THEN SpeechGoes(t, "done")
       ELSE \/ /\ ~IsCurrent(t) /\ SpeechGoes(t, "done")
            \/ /\ IsCurrent(t) /\ ~authorized /\ SpeechRaises(t, "done", "auth")
            \/ /\ IsCurrent(t)
               /\ speech' = [speech EXCEPT ![t].at = "speak", ![t].queued = @ - 1,
                                          ![t].media = 0]
  /\ UNCHANGED <<session, locks, responses, retired, gateway, environment, faults, history>>

(* Mutant: the worker asks for SPEAKING without asking whether it may. *)
SpeakUnasked(t) ==
  /\ speech[t].at = "speak" /\ state_lock = Nobody
  /\ IF "speaking" \notin Allowed[state]
       THEN /\ SpeechRaises(t, "done", "error") /\ faults' = faults \cup {"table"}
            /\ UNCHANGED <<state, state_lock>>
       ELSE /\ state' = "speaking" /\ state_lock' = Speech(t)
            /\ SpeechGoes(t, "speakSent") /\ UNCHANGED faults
  /\ UNCHANGED <<turn_id, generation_id, speech_active, turn_lock, responses, retired,
                 gateway, environment, history>>

(* _set_state(SPEAKING) by the worker. *)
Speak(t) ==
  /\ speech[t].at = "speak" /\ state_lock = Nobody
  /\ IF ~IsCurrent(t)
       THEN SpeechGoes(t, "done") /\ UNCHANGED <<state, state_lock, faults>>
     ELSE IF "speaking" \notin Allowed[state]
       THEN /\ SpeechRaises(t, "done", "error") /\ faults' = faults \cup {"table"}
            /\ UNCHANGED <<state, state_lock>>
     ELSE /\ state' = "speaking" /\ state_lock' = Speech(t)
          /\ SpeechGoes(t, "speakSent") /\ UNCHANGED faults
  /\ UNCHANGED <<turn_id, generation_id, speech_active, turn_lock, responses, retired,
                 gateway, environment, history>>

SpeakingShown(t) ==
  /\ speech[t].at = "speakSent" /\ consumer = "ok"
  /\ SpeechGoes(t, "media")
  /\ state_lock' = Free(state_lock, {Speech(t)})
  /\ UNCHANGED <<session, turn_lock, responses, retired, gateway, environment, faults,
                 history>>

(* The TTS or avatar adapter yields a frame or a segment, or fails and the
   worker falls back: one more emission of the phrase, the last of which is
   tts.phrase_end. *)
Media(t) ==
  /\ speech[t].at = "media"
  /\ \/ /\ ~IsCurrent(t) /\ SpeechGoes(t, "closing") /\ UNCHANGED heardLate
     \/ /\ IsCurrent(t) /\ ~authorized
        /\ SpeechRaises(t, "closing", "auth") /\ UNCHANGED heardLate
     \/ /\ IsCurrent(t)
        /\ speech' = [speech EXCEPT ![t].at = "mediaSent", ![t].media = @ + 1]
        /\ Heard(t)
  /\ UNCHANGED <<session, locks, responses, retired, gateway, environment, faults, cleared>>

MediaTimesOut(t) ==
  /\ speech[t].at = "media"
  /\ Fault("timeout")
  /\ SpeechRaises(t, "closing", "timeout")
  /\ UNCHANGED <<session, locks, responses, retired, gateway, environment, history>>

(* Another emission of the phrase, or the next phrase. *)
MediaShown(t) ==
  /\ speech[t].at = "mediaSent" /\ consumer = "ok"
  /\ \/ speech[t].media < MaxMedia /\ SpeechGoes(t, "media")
     \/ SpeechGoes(t, LoopAt(t))
  /\ UNCHANGED <<session, locks, responses, retired, gateway, environment, faults, history>>

SpeechUnheard(t) ==
  /\ speech[t].at \in {"speakSent", "mediaSent"} /\ consumer # "ok"
  /\ SpeechRaises(t, IF speech[t].at = "speakSent" THEN "done" ELSE "closing",
                  IF consumer = "slow" THEN "slow" ELSE "error")
  /\ state_lock' = Free(state_lock, {Speech(t)})
  /\ UNCHANGED <<session, turn_lock, responses, retired, gateway, environment, faults,
                 history>>

(* _close_async_iterator *)
MediaClosed(t) ==
  /\ speech[t].at = "closing"
  /\ SpeechGoes(t, "done")
  /\ UNCHANGED <<session, locks, responses, retired, gateway, environment, faults, history>>

SpeechStep(t) ==
  \/ GetPhrase(t) \/ Speak(t) \/ SpeakingShown(t) \/ Media(t) \/ MediaTimesOut(t)
  \/ MediaShown(t) \/ SpeechUnheard(t) \/ MediaClosed(t)

-----------------------------------------------------------------------------
(* The gateway's receive loop, and close() when it ends *)

GatewayGoes(p) == gateway' = [gateway EXCEPT !.at = p]
GatewayDoes(p, operation) == gateway' = [gateway EXCEPT !.at = p, !.op = operation]

(* The client's next message.  MaxInputs counts what starts something: the
   frame that goes on with an utterance is not an input of its own. *)
Input(p, operation) ==
  LET more == operation = "frame" /\ speech_active IN
  /\ gateway.at = "idle" /\ state # "closed"
  /\ more \/ (inputs < MaxInputs /\ inputs + FaultsSeen < MaxEvents)
  /\ inputs' = IF more THEN inputs ELSE inputs + 1
  /\ GatewayDoes(p, operation)
  /\ UNCHANGED <<session, locks, responses, speech, retired, consumer, authorized, faults,
                 history>>

(* start *)
Start ==
  /\ gateway.at = "ready" /\ state = "ready"
  /\ state' = "listening" /\ turn_lock' = Gateway /\ state_lock' = Gateway
  /\ GatewayGoes("startSent")
  /\ UNCHANGED <<turn_id, generation_id, speech_active, responses, speech, retired,
                 environment, faults, history>>

Started ==
  /\ gateway.at = "startSent" /\ consumer = "ok"
  /\ turn_lock' = Nobody /\ state_lock' = Nobody
  /\ GatewayGoes("idle")
  /\ UNCHANGED <<session, responses, speech, retired, environment, faults, history>>

(* ingest_pcm waits for the voice detector; submit_text and cancel_response
   wait for the turn lock. *)
Frame == Input("vad", "frame")
SubmitText == Input("lock", "text")
Cancel == Input("lock", "cancel")

(* The detector's decision.  speech_started is ignored while speech_active. *)
SpeechStarted ==
  /\ ~speech_active
  /\ speech_active' = TRUE /\ GatewayDoes("lock", "barge_in") /\ UNCHANGED faults

SpeechEnded ==
  /\ speech_active
  /\ speech_active' = FALSE /\ GatewayDoes("lock", "audio") /\ UNCHANGED faults

(* Mutant: the utterance is dropped and the state is left as it was. *)
SpeechTooLongQuiet ==
  /\ speech_active
  /\ speech_active' = FALSE /\ GatewayDoes("idle", "none") /\ UNCHANGED faults

SpeechTooLong ==
  /\ speech_active
  /\ speech_active' = FALSE /\ GatewayGoes("errSent") /\ UNCHANGED faults

VadFails ==
  /\ Fault("vad")
  /\ GatewayGoes("errSent") /\ UNCHANGED speech_active

FrameDecided ==
  /\ gateway.at = "vad" /\ consumer = "ok"
  /\ SpeechStarted \/ SpeechEnded \/ SpeechTooLong \/ VadFails
  /\ UNCHANGED <<state, turn_id, generation_id, locks, responses, speech, retired,
                 environment, history>>

(* _set_state by the gateway, which no generation guards. *)
GatewayEnters(s, next) ==
  /\ state_lock = Nobody
  /\ IF state = "closed" THEN UNCHANGED <<state, state_lock>>
                         ELSE state' = s /\ state_lock' = Gateway
  /\ GatewayGoes(next)

ErrorShown ==
  /\ gateway.at = "errSent" /\ consumer = "ok"
  /\ GatewayEnters("listening", "stateSent")
  /\ UNCHANGED <<turn_id, generation_id, speech_active, turn_lock, responses, speech,
                 retired, environment, faults, history>>

(* _cancel_active_locked up to its first await: the event is set, the
   generation advances, and the response task, if there is one, is cancelled. *)
CancelActive(operation) ==
  LET t == response_task
      R == {t} \ {0}
      marked == IF turn_id = 0 THEN turns ELSE [turns EXCEPT ![turn_id].cancel = TRUE] IN
  /\ generation_id' = IF generation_id = 0 THEN 0 ELSE generation_id + 1
  /\ response_task' = 0
  /\ turns' = [u \in Turns |->
        IF u \in R THEN [marked[u] EXCEPT !.at = CancelledAt(u)] ELSE marked[u]]
  /\ state_lock' = Free(state_lock, {Response(u) : u \in R})
  /\ retired' = retired \cup RetiredBy(R)
  /\ gateway' = [at |-> IF t = 0 THEN "clearSent" ELSE "stopping",
                 op |-> operation, task |-> t]
  /\ IF t = 0 THEN Cleared(generation_id) ELSE UNCHANGED cleared

(* The gateway gets the turn lock: cancel_response, _begin_turn, _close_impl. *)
TakeTurnLock ==
  /\ gateway.at \in {"lock", "leaving"} /\ turn_lock = Nobody
  /\ IF state = "closed"
       THEN /\ GatewayGoes(IF gateway.at = "leaving" THEN "retiring" ELSE "idle")
            /\ UNCHANGED <<generation_id, locks, responses, retired, cleared>>
     ELSE IF gateway.op \in {"text", "audio"} /\ turn_id >= max_turns
       THEN /\ GatewayGoes("limitSent") /\ turn_lock' = Gateway
            /\ UNCHANGED <<generation_id, state_lock, responses, retired, cleared>>
     ELSE /\ CancelActive(IF gateway.op \in {"text", "audio"} /\ ~authorized
                            THEN "revoked" ELSE gateway.op)
          /\ turn_lock' = Gateway
  /\ UNCHANGED <<state, turn_id, speech_active, speech, environment, faults, heardLate>>

(* The cancelled task is done, or its budget is spent and it is retired; then
   playout.clear is emitted. *)
Stopped ==
  /\ gateway.at = "stopping"
  /\ IF ResponseLive(gateway.task)
       THEN Fault("cancel") /\ retired' = retired \cup {Response(gateway.task)}
       ELSE UNCHANGED <<faults, retired>>
  /\ Cleared(generation_id - 1)
  /\ GatewayGoes("clearSent")
  /\ UNCHANGED <<session, locks, responses, speech, environment, heardLate>>

(* The first turn of a session has nothing to clear. *)
ClearReturned == consumer = "ok" \/ generation_id = 0

(* _begin_turn creates the next turn and its response task. *)
BeginTurn ==
  /\ gateway.at = "clearSent" /\ gateway.op \in {"text", "audio"} /\ ClearReturned
  /\ turn_id' = turn_id + 1 /\ generation_id' = generation_id + 1
  /\ speech_active' = IF gateway.op = "text" THEN FALSE ELSE speech_active
  /\ turns' = [turns EXCEPT ![turn_id + 1] =
        [kind |-> gateway.op, gen |-> generation_id + 1, cancel |-> FALSE,
         at |-> "new", stream |-> FALSE, phrases |-> 0]]
  /\ response_task' = turn_id + 1
  /\ turn_lock' = Nobody
  /\ GatewayDoes("idle", "none")
  /\ UNCHANGED <<state, state_lock, speech, retired, environment, faults, history>>

(* A barge-in releases the turn lock before the state changes; the others
   change it under the lock. *)
BargeIn ==
  /\ gateway.at = "clearSent" /\ gateway.op = "barge_in" /\ ClearReturned
  /\ turn_lock' = Nobody
  /\ GatewayGoes("userState")
  /\ UNCHANGED <<session, state_lock, responses, speech, retired, environment, faults,
                 history>>

UserSpeaks ==
  /\ gateway.at = "userState"
  /\ GatewayEnters("user_speaking", "stateSent")
  /\ UNCHANGED <<turn_id, generation_id, speech_active, turn_lock, responses, speech,
                 retired, environment, faults, history>>

CancelAnswered ==
  /\ gateway.at = "clearSent" /\ gateway.op \in {"cancel", "revoked", "close"}
  /\ ClearReturned
  /\ GatewayEnters(IF gateway.op = "close" THEN "closed" ELSE "listening", "stateSent")
  /\ speech_active' = IF gateway.op = "close" THEN FALSE ELSE speech_active
  /\ UNCHANGED <<turn_id, generation_id, turn_lock, responses, speech, retired,
                 environment, faults, history>>

(* The operation returns; close() goes on with the retired tasks. *)
Returned ==
  /\ gateway.at \in {"stateSent", "limitSent"} /\ consumer = "ok"
  /\ turn_lock' = Free(turn_lock, {Gateway}) /\ state_lock' = Free(state_lock, {Gateway})
  /\ IF gateway.op = "close" THEN GatewayGoes("retiring") ELSE GatewayDoes("idle", "none")
  /\ UNCHANGED <<session, responses, speech, retired, environment, faults, history>>

(* The receive loop ends: stop, disconnect, a deadline, or a failed transport. *)
Leave ==
  /\ gateway.at \in {"ready", "idle"}
  /\ GatewayDoes("leaving", "close")
  /\ UNCHANGED <<session, locks, responses, speech, retired, environment, faults, history>>

(* An emission fails, start runs out of time, or the server cancels the
   handler: the exception ends the loop, and the finalizer closes the session.
   An interrupted wait for the cancelled task retires it. *)
Interrupted ==
  /\ gateway.op # "close" /\ gateway.at \notin {"ready", "idle"}
  /\ \/ /\ consumer # "ok" /\ UNCHANGED <<faults, retired>>
        /\ gateway.at \in {"startSent", "vad", "errSent", "clearSent", "stateSent", "limitSent"}
        /\ gateway.at = "clearSent" => ~ClearReturned
     \/ /\ Fault("shutdown")
        /\ retired' = IF gateway.at = "stopping" /\ ResponseLive(gateway.task)
                        THEN retired \cup {Response(gateway.task)} ELSE retired
  /\ turn_lock' = Free(turn_lock, {Gateway}) /\ state_lock' = Free(state_lock, {Gateway})
  /\ GatewayDoes("leaving", "close")
  /\ UNCHANGED <<session, responses, speech, environment, history>>

(* close() when an emission of its own fails: closed all the same. *)
CloseUnheard ==
  /\ gateway.op = "close" /\ consumer # "ok"
  /\ \/ gateway.at = "clearSent" /\ ~ClearReturned /\ state_lock = Nobody
        /\ state' = "closed"
     \/ gateway.at = "stateSent" /\ UNCHANGED state
  /\ turn_lock' = Nobody /\ state_lock' = Free(state_lock, {Gateway})
  /\ GatewayGoes("retiring")
  /\ UNCHANGED <<turn_id, generation_id, speech_active, responses, speech, retired,
                 environment, faults, history>>

RetiredResponses == {t \in Turns : Response(t) \in retired /\ ResponseLive(t)}
RetiredSpeech == {t \in Turns : Speech(t) \in retired /\ SpeechLive(t)}

(* _cancel_retired_tasks: cancel them, wait, and look for new ones. *)
CancelRetired ==
  /\ gateway.at = "retiring"
  /\ IF RetiredResponses = {} /\ RetiredSpeech = {}
       THEN /\ GatewayGoes("closed")
            /\ UNCHANGED <<responses, speech, state_lock, retired>>
       ELSE /\ TasksCancelled(RetiredResponses, RetiredSpeech)
            /\ state_lock' = Free(state_lock, {Response(t) : t \in RetiredResponses}
                                                \cup {Speech(t) : t \in RetiredSpeech})
            /\ retired' = retired \cup RetiredBy(RetiredResponses)
            /\ GatewayGoes("reaping") /\ UNCHANGED response_task
  /\ UNCHANGED <<session, turn_lock, environment, faults, history>>

(* Then, or when the budget is spent, the adapters are closed. *)
Reaped ==
  /\ gateway.at = "reaping"
  /\ IF RetiredResponses = {} /\ RetiredSpeech = {}
       THEN GatewayGoes("retiring") /\ UNCHANGED faults
       ELSE GatewayGoes("closed") /\ Fault("cancel")
  /\ UNCHANGED <<session, locks, responses, speech, retired, environment, history>>

GatewayStep ==
  \/ Started \/ FrameDecided \/ ErrorShown \/ TakeTurnLock \/ Stopped \/ BeginTurn
  \/ BargeIn \/ UserSpeaks \/ CancelAnswered \/ Returned \/ Interrupted
  \/ CloseUnheard \/ CancelRetired \/ Reaped

Client == Start \/ Frame \/ SubmitText \/ Cancel \/ Leave

-----------------------------------------------------------------------------
(* The environment *)

(* The consumer stalls for longer than emit_timeout, and may come back; or the
   outbound pump fails, which is final. *)
ConsumerStalls ==
  /\ consumer = "ok" /\ Fault("slow") /\ consumer' = "slow"
  /\ UNCHANGED <<session, locks, responses, speech, retired, gateway, authorized, inputs,
                 history>>

ConsumerRecovers ==
  /\ consumer = "slow" /\ consumer' = "ok"
  /\ UNCHANGED <<session, locks, responses, speech, retired, gateway, authorized, inputs,
                 faults, history>>

ConsumerGone ==
  /\ consumer = "ok" /\ Fault("gone") /\ consumer' = "gone"
  /\ UNCHANGED <<session, locks, responses, speech, retired, gateway, authorized, inputs,
                 history>>

Revoke ==
  /\ authorized /\ Fault("revoked") /\ authorized' = FALSE
  /\ UNCHANGED <<session, locks, responses, speech, retired, gateway, consumer, inputs,
                 history>>

Environment == ConsumerStalls \/ ConsumerRecovers \/ ConsumerGone \/ Revoke

(* What the event loop runs by itself.  The gateway leaves a transport that has
   failed (_receive_or_transport_failure). *)
LeaveFailedTransport == Leave /\ consumer = "gone"

System ==
  \/ GatewayStep \/ LeaveFailedTransport
  \/ \E t \in Turns : ResponseStep(t) \/ SpeechStep(t)

Next == System \/ Client \/ Environment

Spec == Init /\ [][Next]_vars

(* The event loop does not rest while a task can go on: adapters answer or are
   timed out, and locks are handed over. *)
FairSpec == Spec /\ WF_vars(System)

-----------------------------------------------------------------------------
(* Correctness *)

TurnRecord == [kind : {"text", "audio"}, gen : Nat, cancel : BOOLEAN, at : ResponseAt,
               stream : BOOLEAN, phrases : 0..MaxPhrases]
SpeechRecord == [at : SpeechAt, queued : 0..speech_queue_size, ended : BOOLEAN,
                 media : Nat, raised : {"none", "auth", "timeout", "slow", "error"}]
GatewayRecord == [at : GatewayAt, op : Operations, task : 0..max_turns]
Owners == {Nobody, Gateway} \cup {Response(t) : t \in Turns} \cup {Speech(t) : t \in Turns}

(* Every variable holds what the code can put there: a queue no longer than its
   capacity, locks held by somebody, a response task of a turn taken. *)
TypeOK ==
  /\ state \in States /\ turn_id \in 0..max_turns /\ generation_id \in Nat
  /\ speech_active \in BOOLEAN /\ response_task \in 0..turn_id
  /\ turn_lock \in Owners /\ state_lock \in Owners
  /\ turns \in [Turns -> TurnRecord] /\ speech \in [Turns -> SpeechRecord]
  /\ retired \subseteq Owners
  /\ gateway \in GatewayRecord
  /\ consumer \in {"ok", "slow", "gone"} /\ authorized \in BOOLEAN
  /\ inputs \in 0..MaxInputs /\ faults \subseteq FaultKinds \cup {"table"}
  /\ cleared \in Nat /\ heardLate \subseteq Nat

(* "Media or events from an older generation_id must not become audible/visible
   after" playout.clear (PROTOCOL.md): no text or media of a generation reaches
   the client once a playout.clear has named it, whatever task emits it and
   however late it was cancelled. *)
NothingStaleIsHeard == heardLate = {}

(* At most one turn answers: the newest, by the response task the session can
   cancel.  A retired or aborted response is never current again. *)
OneCurrentTurn ==
  \A t \in Turns :
    IsCurrent(t) /\ ResponseLive(t) => t = turn_id /\ response_task = t

(* No task asks for a transition the table forbids (the RuntimeError of
   _set_state), unless something moved the session back to LISTENING while a
   worker was still speaking for the current turn: a failed voice detector
   (ingest_pcm), or a failed adapter whose response has yet to stop its worker. *)
TableIsRespected == "table" \in faults => faults \cap {"vad", "adapter"} # {}

(* Between two messages the session says the user is speaking only while it
   collects an utterance or a response is about to take over.  The exceptions:
   at the turn limit _begin_turn returns with the state as it was, and a response
   whose error cannot be delivered gives up. *)
UserSpeakingMeansSpeech ==
  gateway.at = "idle" /\ state = "user_speaking" /\ turn_lock = Nobody
    => speech_active \/ response_task # 0 \/ turn_id = max_turns
       \/ consumer = "gone" \/ "slow" \in faults

(* Both say that the state a client was last told is one the session may be in. *)
StateIsSound == TableIsRespected /\ UserSpeakingMeansSpeech

(* A session does not stay transcribing, thinking or speaking: some task always
   takes it on, unless an emission of that task's own cleanup timed out. *)
ActiveStateEnds ==
  state \in {"transcribing", "thinking", "speaking"}
    ~> state \notin {"transcribing", "thinking", "speaking"} \/ "slow" \in faults

(* close() comes to an end and leaves the session closed, whoever holds the
   locks when it begins. *)
CloseCompletes == gateway.at = "leaving" ~> gateway.at = "closed" /\ state = "closed"

(* "Cancelled tasks that do not stop inside the cancellation budget are
   quarantined and observed until completion" (ARCHITECTURE.md): a speech worker
   still running belongs to a response that is, or is retired. *)
EveryTaskIsObserved ==
  \A t \in Turns : SpeechLive(t) => ResponseLive(t) \/ Speech(t) \in retired

=============================================================================
