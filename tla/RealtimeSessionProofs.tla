------------------------- MODULE RealtimeSessionProofs -------------------------
(***************************************************************************)
(* RealtimeSession, for any number of turns, phrases, inputs and faults:   *)
(* the type invariant, that nothing of a cleared generation is heard, that *)
(* one turn at most is current, and that the state a client is told is one *)
(* the session may be in.                                                  *)
(***************************************************************************)
EXTENDS RealtimeSession, TLAPS

(* A turn begins only where there is one left to take, and the gateway waits
   only for a task that exists. *)
TurnsLeft ==
  /\ gateway.at \in {"stopping", "clearSent"} /\ gateway.op \in {"text", "audio"}
       => turn_id < max_turns
  /\ gateway.at = "stopping" => gateway.task \in Turns

TypeInv == TypeOK /\ TurnsLeft

(* A response runs in a generation of its own, and its worker runs for it. *)
Begun ==
  \A t \in Turns :
    /\ turns[t].at # "none" => turns[t].gen > 0 /\ t <= turn_id
    /\ speech[t].at # "none" => turns[t].at # "none"
    /\ turns[t].gen <= generation_id

(* The generation that playout.clear names is over when it is named. *)
ClearedIsPast == cleared = 0 \/ cleared < generation_id

(* Later turns have later generations, and the session holds the response task
   of the turn that is current. *)
OneOwner ==
  /\ response_task \in {0, turn_id}
  /\ \A t \in Turns : t < turn_id => turns[t].gen < turns[turn_id].gen
  /\ \A t \in Turns :
       t = turn_id /\ turns[t].gen = generation_id /\ ~turns[t].cancel /\ ResponseLive(t)
         => response_task = t

GenerationInv == Begun /\ ClearedIsPast /\ OneOwner /\ heardLate = {}

USE SessionAssumption

LEMMA InitType == Init => TypeInv
<1> SUFFICES ASSUME Init PROVE TypeInv
  OBVIOUS
<1> USE DEF Init
<1>1. turns \in [Turns -> TurnRecord]
  BY DEF TurnRecord, ResponseAt
<1>2. speech \in [Turns -> SpeechRecord]
  BY DEF SpeechRecord, SpeechAt
<1>3. gateway \in GatewayRecord
  BY DEF GatewayRecord, GatewayAt, Operations
<1>4. response_task \in 0..turn_id /\ turn_id \in 0..max_turns /\ inputs \in 0..MaxInputs
  OBVIOUS
<1>5. state \in States /\ turn_lock \in Owners /\ state_lock \in Owners
  BY DEF States, Owners
<1>6. TypeOK
  BY <1>1, <1>2, <1>3, <1>4, <1>5 DEF TypeOK
<1>7. TurnsLeft
  BY DEF TurnsLeft
<1> QED
  BY <1>6, <1>7 DEF TypeInv

(* The awaits that the helpers lead to exist. *)
LEMMA HelpersAreTyped ==
  ASSUME TypeOK, NEW t \in Turns
  PROVE  /\ FinallyAt(t) \in ResponseAt /\ FailAt(t) \in ResponseAt
         /\ RaisedAt(t) \in ResponseAt /\ CancelledAt(t) \in ResponseAt
         /\ SpeechCancelledAt(t) \in SpeechAt /\ LoopAt(t) \in SpeechAt
<1>1. FinallyAt(t) \in ResponseAt
  BY DEF FinallyAt, ResponseAt, FinallyAwaits
<1>2. FailAt(t) \in ResponseAt
  BY <1>1 DEF FailAt, ResponseAt, HandlerAt
<1>3. RaisedAt(t) \in ResponseAt
  BY <1>2 DEF RaisedAt, ResponseAt, HandlerAt
<1>4. CancelledAt(t) \in ResponseAt
  BY <1>1 DEF CancelledAt, TypeOK, TurnRecord, ResponseAt, HandlerAt, FinallyAwaits
<1>5. SpeechCancelledAt(t) \in SpeechAt
  BY DEF SpeechCancelledAt, SpeechAt
<1>6. LoopAt(t) \in SpeechAt
  BY DEF LoopAt, SpeechAt
<1> QED
  BY <1>1, <1>2, <1>3, <1>4, <1>5, <1>6

LEMMA GoToTyped ==
  ASSUME TypeOK, NEW t \in Turns, NEW p \in ResponseAt, GoTo(t, p), turn_id' = turn_id
  PROVE  turns' \in [Turns -> TurnRecord] /\ response_task' \in 0..turn_id'
<1>1. turns' \in [Turns -> TurnRecord]
  BY DEF GoTo, TypeOK, TurnRecord
<1>2. response_task' \in 0..turn_id'
  BY DEF GoTo, TypeOK
<1> QED
  BY <1>1, <1>2

LEMMA SpeechGoesTyped ==
  ASSUME TypeOK, NEW t \in Turns, NEW p \in SpeechAt,
         \/ SpeechGoes(t, p)
         \/ \E x \in {"none", "auth", "timeout", "slow", "error"} : SpeechRaises(t, p, x)
  PROVE  speech' \in [Turns -> SpeechRecord]
  BY DEF SpeechGoes, SpeechRaises, TypeOK, SpeechRecord

LEMMA ResponseEntersTyped ==
  ASSUME TypeInv, NEW t \in Turns, NEW s \in States, NEW p \in ResponseAt,
         ResponseEnters(t, s, p)
  PROVE  TypeInv'
<1> USE DEF ResponseEnters, environment, history
<1>1. GoTo(t, FinallyAt(t)) \/ GoTo(t, FailAt(t)) \/ GoTo(t, p)
  OBVIOUS
<1>2. turns' \in [Turns -> TurnRecord] /\ response_task' \in 0..turn_id'
  BY <1>1, HelpersAreTyped, GoToTyped DEF TypeInv
<1>3. state' \in States /\ state_lock' \in Owners /\ faults' \subseteq FaultKinds \cup {"table"}
  BY DEF TypeInv, TypeOK, Owners
<1> QED
  BY <1>2, <1>3 DEF TypeInv, TypeOK, TurnsLeft

(* What an action assigns with the other helpers has its type. *)
LEMMA EffectsAreTyped ==
  ASSUME TypeOK
  PROVE  /\ \A t \in Turns : Heard(t) => heardLate' \subseteq Nat
         /\ \A g \in Int : Cleared(g) => cleared' \in Nat
         /\ \A kind : Fault(kind) => faults' \subseteq FaultKinds \cup {"table"}
         /\ \A lock \in Owners : \A S : Free(lock, S) \in Owners
         /\ \A t \in Turns : Response(t) \in Owners /\ Speech(t) \in Owners
         /\ Gateway \in Owners /\ Nobody \in Owners
         /\ \A R \in SUBSET Turns : RetiredBy(R) \subseteq Owners
<1>1. \A t \in Turns : Heard(t) => heardLate' \subseteq Nat
  BY DEF Heard, TypeOK, TurnRecord
<1>2. \A g \in Int : Cleared(g) => cleared' \in Nat
  BY DEF Cleared, TypeOK
<1>3. \A kind : Fault(kind) => faults' \subseteq FaultKinds \cup {"table"}
  BY DEF Fault, TypeOK
<1>4. /\ \A lock \in Owners : \A S : Free(lock, S) \in Owners
      /\ \A t \in Turns : Response(t) \in Owners /\ Speech(t) \in Owners
      /\ Gateway \in Owners /\ Nobody \in Owners
  BY DEF Free, Owners
<1>5. \A R \in SUBSET Turns : RetiredBy(R) \subseteq Owners
  BY DEF RetiredBy, Owners
<1> QED
  BY <1>1, <1>2, <1>3, <1>4, <1>5

(* A step of a task leaves the gateway and the turn count alone. *)
LEMMA TaskFrame ==
  ASSUME TypeInv,
         turns' \in [Turns -> TurnRecord], response_task' \in 0..turn_id,
         speech' \in [Turns -> SpeechRecord],
         state' \in States, generation_id' \in Nat, cleared' \in Nat,
         turn_lock' \in Owners, state_lock' \in Owners, retired' \subseteq Owners,
         faults' \subseteq FaultKinds \cup {"table"}, heardLate' \subseteq Nat,
         UNCHANGED <<turn_id, speech_active, gateway, environment>>
  PROVE  TypeInv'
  BY DEF TypeInv, TypeOK, TurnsLeft, environment

LEMMA ResponseKeepsType ==
  ASSUME TypeInv, NEW t \in Turns, ResponseStep(t)
  PROVE  TypeInv'
<1> USE DEF session, locks, responses, environment, history
<1>1. CASE TranscribingShown(t)
  <2>1. turns' \in [Turns -> TurnRecord] /\ response_task' \in 0..turn_id
    BY <1>1, GoToTyped, HelpersAreTyped DEF TranscribingShown, ResponseSent, TypeInv, ResponseAt, HandlerAt, TranscribingAt, RespondingAt, FinallyAwaits
  <2>2. speech' \in [Turns -> SpeechRecord] /\ heardLate' \subseteq Nat
    BY <1>1, EffectsAreTyped DEF TranscribingShown, ResponseSent, TypeInv, TypeOK
  <2> QED
    BY <1>1, <2>1, <2>2, TaskFrame, EffectsAreTyped DEF TranscribingShown, ResponseSent, TypeInv, TypeOK
<1>2. CASE AsrReturns(t)
  <2>1. turns' \in [Turns -> TurnRecord] /\ response_task' \in 0..turn_id
    BY <1>2, GoToTyped, HelpersAreTyped DEF AsrReturns, TypeInv, ResponseAt, HandlerAt, TranscribingAt, RespondingAt, FinallyAwaits
  <2>2. speech' \in [Turns -> SpeechRecord] /\ heardLate' \subseteq Nat
    BY <1>2, EffectsAreTyped DEF AsrReturns, TypeInv, TypeOK
  <2> QED
    BY <1>2, <2>1, <2>2, TaskFrame, EffectsAreTyped DEF AsrReturns, TypeInv, TypeOK
<1>3. CASE AdapterFails(t)
  <2>1. turns' \in [Turns -> TurnRecord] /\ response_task' \in 0..turn_id
    BY <1>3, GoToTyped, HelpersAreTyped DEF AdapterFails, TypeInv, ResponseAt, HandlerAt, TranscribingAt, RespondingAt, FinallyAwaits
  <2>2. speech' \in [Turns -> SpeechRecord] /\ heardLate' \subseteq Nat
    BY <1>3, EffectsAreTyped DEF AdapterFails, TypeInv, TypeOK
  <2> QED
    BY <1>3, <2>1, <2>2, TaskFrame, EffectsAreTyped DEF AdapterFails, TypeInv, TypeOK
<1>4. CASE AdapterTimesOut(t)
  <2>1. turns' \in [Turns -> TurnRecord] /\ response_task' \in 0..turn_id
    BY <1>4, GoToTyped, HelpersAreTyped DEF AdapterTimesOut, TypeInv, ResponseAt, HandlerAt, TranscribingAt, RespondingAt, FinallyAwaits
  <2>2. speech' \in [Turns -> SpeechRecord] /\ heardLate' \subseteq Nat
    BY <1>4, EffectsAreTyped DEF AdapterTimesOut, TypeInv, TypeOK
  <2> QED
    BY <1>4, <2>1, <2>2, TaskFrame, EffectsAreTyped DEF AdapterTimesOut, TypeInv, TypeOK
<1>5. CASE RespondBegins(t)
  <2>1. turns' \in [Turns -> TurnRecord] /\ response_task' \in 0..turn_id
    BY <1>5, GoToTyped, HelpersAreTyped DEF RespondBegins, TypeInv, ResponseAt, HandlerAt, TranscribingAt, RespondingAt, FinallyAwaits
  <2>2. speech' \in [Turns -> SpeechRecord] /\ heardLate' \subseteq Nat
    BY <1>5, EffectsAreTyped, HelpersAreTyped DEF RespondBegins, TypeInv, TypeOK, SpeechRecord, SpeechAt
  <2> QED
    BY <1>5, <2>1, <2>2, TaskFrame, EffectsAreTyped DEF RespondBegins, TypeInv, TypeOK
<1>6. CASE ThinkingShown(t)
  <2>1. turns' \in [Turns -> TurnRecord] /\ response_task' \in 0..turn_id
    <3>1. "llm" \in ResponseAt
      BY DEF ResponseAt, RespondingAt
    <3>2. turns' = [turns EXCEPT ![t] = [turns[t] EXCEPT !.at = "llm", !.stream = TRUE]]
      BY <1>6 DEF ThinkingShown, TypeInv, TypeOK, TurnRecord
    <3>3. [turns[t] EXCEPT !.at = "llm", !.stream = TRUE] \in TurnRecord
      BY <3>1 DEF TypeInv, TypeOK, TurnRecord
    <3> QED
      BY <1>6, <3>2, <3>3 DEF ThinkingShown, TypeInv, TypeOK
  <2>2. speech' \in [Turns -> SpeechRecord] /\ heardLate' \subseteq Nat
    BY <1>6, EffectsAreTyped DEF ThinkingShown, TypeInv, TypeOK
  <2> QED
    BY <1>6, <2>1, <2>2, TaskFrame, EffectsAreTyped DEF ThinkingShown, TypeInv, TypeOK
<1>7. CASE Delta(t)
  <2>1. turns' \in [Turns -> TurnRecord] /\ response_task' \in 0..turn_id
    <3>1. CASE \E p \in ResponseAt : GoTo(t, p)
      BY <1>7, <3>1, GoToTyped DEF Delta, TypeInv
    <3>2. CASE ~\E p \in ResponseAt : GoTo(t, p)
      BY <1>7, <3>2, HelpersAreTyped DEF Delta, TypeInv, TypeOK, TurnRecord, ResponseAt,
         HandlerAt, TranscribingAt, RespondingAt, FinallyAwaits
    <3> QED
      BY <3>1, <3>2
  <2>2. speech' \in [Turns -> SpeechRecord] /\ heardLate' \subseteq Nat
    BY <1>7, EffectsAreTyped DEF Delta, TypeInv, TypeOK
  <2> QED
    BY <1>7, <2>1, <2>2, TaskFrame, EffectsAreTyped DEF Delta, TypeInv, TypeOK
<1>8. CASE DeltaShown(t)
  <2>1. turns' \in [Turns -> TurnRecord] /\ response_task' \in 0..turn_id
    BY <1>8, GoToTyped, HelpersAreTyped DEF DeltaShown, ResponseSent, TypeInv, ResponseAt, HandlerAt, TranscribingAt, RespondingAt, FinallyAwaits
  <2>2. speech' \in [Turns -> SpeechRecord] /\ heardLate' \subseteq Nat
    BY <1>8, EffectsAreTyped DEF DeltaShown, ResponseSent, TypeInv, TypeOK
  <2> QED
    BY <1>8, <2>1, <2>2, TaskFrame, EffectsAreTyped DEF DeltaShown, ResponseSent, TypeInv, TypeOK
<1>9. CASE StreamEnds(t)
  <2>1. turns' \in [Turns -> TurnRecord] /\ response_task' \in 0..turn_id
    BY <1>9, GoToTyped, HelpersAreTyped DEF StreamEnds, TypeInv, ResponseAt, HandlerAt, TranscribingAt, RespondingAt, FinallyAwaits
  <2>2. speech' \in [Turns -> SpeechRecord] /\ heardLate' \subseteq Nat
    BY <1>9, EffectsAreTyped DEF StreamEnds, TypeInv, TypeOK
  <2> QED
    BY <1>9, <2>1, <2>2, TaskFrame, EffectsAreTyped DEF StreamEnds, TypeInv, TypeOK
<1>10. CASE QueueSpeech(t)
  <2>1. turns' \in [Turns -> TurnRecord] /\ response_task' \in 0..turn_id
    BY <1>10, GoToTyped, HelpersAreTyped DEF QueueSpeech, TypeInv, ResponseAt, HandlerAt, TranscribingAt, RespondingAt, FinallyAwaits
  <2>2. speech' \in [Turns -> SpeechRecord] /\ heardLate' \subseteq Nat
    BY <1>10, EffectsAreTyped, HelpersAreTyped DEF QueueSpeech, TypeInv, TypeOK, SpeechRecord, SpeechAt
  <2> QED
    BY <1>10, <2>1, <2>2, TaskFrame, EffectsAreTyped DEF QueueSpeech, TypeInv, TypeOK
<1>11. CASE WorkerStopped(t)
  <2>1. turns' \in [Turns -> TurnRecord] /\ response_task' \in 0..turn_id
    BY <1>11, GoToTyped, HelpersAreTyped DEF WorkerStopped, TypeInv, ResponseAt, HandlerAt, TranscribingAt, RespondingAt, FinallyAwaits
  <2>2. speech' \in [Turns -> SpeechRecord] /\ heardLate' \subseteq Nat
    BY <1>11, EffectsAreTyped DEF WorkerStopped, TypeInv, TypeOK
  <2> QED
    BY <1>11, <2>1, <2>2, TaskFrame, EffectsAreTyped DEF WorkerStopped, TypeInv, TypeOK
<1>12. CASE FinalShown(t)
  <2>1. turns' \in [Turns -> TurnRecord] /\ response_task' \in 0..turn_id
    BY <1>12, GoToTyped, HelpersAreTyped DEF FinalShown, ResponseSent, TypeInv, ResponseAt, HandlerAt, TranscribingAt, RespondingAt, FinallyAwaits
  <2>2. speech' \in [Turns -> SpeechRecord] /\ heardLate' \subseteq Nat
    BY <1>12, EffectsAreTyped DEF FinalShown, ResponseSent, TypeInv, TypeOK
  <2> QED
    BY <1>12, <2>1, <2>2, TaskFrame, EffectsAreTyped DEF FinalShown, ResponseSent, TypeInv, TypeOK
<1>13. CASE SpeechJoined(t)
  <2>1. turns' \in [Turns -> TurnRecord] /\ response_task' \in 0..turn_id
    BY <1>13, GoToTyped, HelpersAreTyped DEF SpeechJoined, TypeInv, ResponseAt, HandlerAt, TranscribingAt, RespondingAt, FinallyAwaits
  <2>2. speech' \in [Turns -> SpeechRecord] /\ heardLate' \subseteq Nat
    BY <1>13, EffectsAreTyped DEF SpeechJoined, TypeInv, TypeOK
  <2> QED
    BY <1>13, <2>1, <2>2, TaskFrame, EffectsAreTyped DEF SpeechJoined, TypeInv, TypeOK
<1>14. CASE JoinTimesOut(t)
  <2>1. turns' \in [Turns -> TurnRecord] /\ response_task' \in 0..turn_id
    BY <1>14, GoToTyped, HelpersAreTyped DEF JoinTimesOut, TypeInv, ResponseAt, HandlerAt, TranscribingAt, RespondingAt, FinallyAwaits
  <2>2. speech' \in [Turns -> SpeechRecord] /\ heardLate' \subseteq Nat
    BY <1>14, EffectsAreTyped, HelpersAreTyped DEF JoinTimesOut, TypeInv, TypeOK, SpeechRecord, SpeechAt
  <2> QED
    BY <1>14, <2>1, <2>2, TaskFrame, EffectsAreTyped DEF JoinTimesOut, TypeInv, TypeOK
<1>15. CASE Settled(t)
  <2>1. turns' \in [Turns -> TurnRecord] /\ response_task' \in 0..turn_id
    BY <1>15, GoToTyped, HelpersAreTyped DEF Settled, ResponseSent, TypeInv, ResponseAt, HandlerAt, TranscribingAt, RespondingAt, FinallyAwaits
  <2>2. speech' \in [Turns -> SpeechRecord] /\ heardLate' \subseteq Nat
    BY <1>15, EffectsAreTyped DEF Settled, ResponseSent, TypeInv, TypeOK
  <2> QED
    BY <1>15, <2>1, <2>2, TaskFrame, EffectsAreTyped DEF Settled, ResponseSent, TypeInv, TypeOK
<1>16. CASE Abort(t)
  <2>1. turns' \in [Turns -> TurnRecord] /\ response_task' \in 0..turn_id
    <3>1. CASE \E p \in ResponseAt : GoTo(t, p)
      BY <1>16, <3>1, GoToTyped DEF Abort, GenerationEnds, TypeInv
    <3>2. CASE ~\E p \in ResponseAt : GoTo(t, p)
      BY <1>16, <3>2, HelpersAreTyped DEF Abort, GenerationEnds, TypeInv, TypeOK, TurnRecord, ResponseAt,
         HandlerAt, TranscribingAt, RespondingAt, FinallyAwaits
    <3> QED
      BY <3>1, <3>2
  <2>2. speech' \in [Turns -> SpeechRecord] /\ heardLate' \subseteq Nat
    BY <1>16, EffectsAreTyped DEF Abort, GenerationEnds, TypeInv, TypeOK
  <2> QED
    BY <1>16, <2>1, <2>2, TaskFrame, EffectsAreTyped DEF Abort, GenerationEnds, TypeInv, TypeOK, TurnRecord
<1>17. CASE AbortShown(t)
  <2>1. turns' \in [Turns -> TurnRecord] /\ response_task' \in 0..turn_id
    BY <1>17, GoToTyped, HelpersAreTyped DEF AbortShown, TypeInv, ResponseAt, HandlerAt, TranscribingAt, RespondingAt, FinallyAwaits
  <2>2. speech' \in [Turns -> SpeechRecord] /\ heardLate' \subseteq Nat
    BY <1>17, EffectsAreTyped DEF AbortShown, TypeInv, TypeOK
  <2> QED
    BY <1>17, <2>1, <2>2, TaskFrame, EffectsAreTyped DEF AbortShown, TypeInv, TypeOK, States
<1>18. CASE Aborted(t)
  <2>1. turns' \in [Turns -> TurnRecord] /\ response_task' \in 0..turn_id
    BY <1>18, GoToTyped, HelpersAreTyped DEF Aborted, ResponseSent, TypeInv, ResponseAt, HandlerAt, TranscribingAt, RespondingAt, FinallyAwaits
  <2>2. speech' \in [Turns -> SpeechRecord] /\ heardLate' \subseteq Nat
    BY <1>18, EffectsAreTyped DEF Aborted, ResponseSent, TypeInv, TypeOK
  <2> QED
    BY <1>18, <2>1, <2>2, TaskFrame, EffectsAreTyped DEF Aborted, ResponseSent, TypeInv, TypeOK
<1>19. CASE Quarantine(t)
  <2>1. turns' \in [Turns -> TurnRecord] /\ response_task' \in 0..turn_id
    <3>1. CASE \E p \in ResponseAt : GoTo(t, p)
      BY <1>19, <3>1, GoToTyped DEF Quarantine, GenerationEnds, TypeInv
    <3>2. CASE ~\E p \in ResponseAt : GoTo(t, p)
      BY <1>19, <3>2, HelpersAreTyped DEF Quarantine, GenerationEnds, TypeInv, TypeOK, TurnRecord, ResponseAt,
         HandlerAt, TranscribingAt, RespondingAt, FinallyAwaits
    <3> QED
      BY <3>1, <3>2
  <2>2. speech' \in [Turns -> SpeechRecord] /\ heardLate' \subseteq Nat
    BY <1>19, EffectsAreTyped DEF Quarantine, GenerationEnds, TypeInv, TypeOK
  <2> QED
    BY <1>19, <2>1, <2>2, TaskFrame, EffectsAreTyped DEF Quarantine, GenerationEnds, TypeInv, TypeOK
<1>20. CASE Quarantined(t)
  <2>1. turns' \in [Turns -> TurnRecord] /\ response_task' \in 0..turn_id
    BY <1>20, GoToTyped, HelpersAreTyped DEF Quarantined, TypeInv, ResponseAt, HandlerAt, TranscribingAt, RespondingAt, FinallyAwaits
  <2>2. speech' \in [Turns -> SpeechRecord] /\ heardLate' \subseteq Nat
    BY <1>20, EffectsAreTyped DEF Quarantined, TypeInv, TypeOK
  <2> QED
    BY <1>20, <2>1, <2>2, TaskFrame, EffectsAreTyped DEF Quarantined, TypeInv, TypeOK, States
<1>21. CASE ResponseUnheard(t)
  <2>1. turns' \in [Turns -> TurnRecord] /\ response_task' \in 0..turn_id
    BY <1>21, GoToTyped, HelpersAreTyped DEF ResponseUnheard, TypeInv, ResponseAt, HandlerAt, TranscribingAt, RespondingAt, FinallyAwaits
  <2>2. speech' \in [Turns -> SpeechRecord] /\ heardLate' \subseteq Nat
    BY <1>21, EffectsAreTyped DEF ResponseUnheard, TypeInv, TypeOK
  <2> QED
    BY <1>21, <2>1, <2>2, TaskFrame, EffectsAreTyped DEF ResponseUnheard, TypeInv, TypeOK
<1>22. CASE CancelShown(t)
  <2>1. turns' \in [Turns -> TurnRecord] /\ response_task' \in 0..turn_id
    BY <1>22, GoToTyped, HelpersAreTyped DEF CancelShown, ResponseSent, TypeInv, ResponseAt, HandlerAt, TranscribingAt, RespondingAt, FinallyAwaits
  <2>2. speech' \in [Turns -> SpeechRecord] /\ heardLate' \subseteq Nat
    BY <1>22, EffectsAreTyped DEF CancelShown, ResponseSent, TypeInv, TypeOK
  <2> QED
    BY <1>22, <2>1, <2>2, TaskFrame, EffectsAreTyped DEF CancelShown, ResponseSent, TypeInv, TypeOK
<1>23. CASE StreamClosed(t)
  <2>1. turns' \in [Turns -> TurnRecord] /\ response_task' \in 0..turn_id
    BY <1>23, GoToTyped, HelpersAreTyped DEF StreamClosed, TypeInv, ResponseAt, HandlerAt, TranscribingAt, RespondingAt, FinallyAwaits
  <2>2. speech' \in [Turns -> SpeechRecord] /\ heardLate' \subseteq Nat
    BY <1>23, EffectsAreTyped DEF StreamClosed, TypeInv, TypeOK
  <2> QED
    BY <1>23, <2>1, <2>2, TaskFrame, EffectsAreTyped DEF StreamClosed, TypeInv, TypeOK
<1>24. CASE StopSpeech(t)
  <2>1. turns' \in [Turns -> TurnRecord] /\ response_task' \in 0..turn_id
    BY <1>24, GoToTyped, HelpersAreTyped DEF StopSpeech, TypeInv, ResponseAt, HandlerAt, TranscribingAt, RespondingAt, FinallyAwaits
  <2>2. speech' \in [Turns -> SpeechRecord] /\ heardLate' \subseteq Nat
    BY <1>24, EffectsAreTyped, HelpersAreTyped DEF StopSpeech, TypeInv, TypeOK, SpeechRecord, SpeechAt
  <2> QED
    BY <1>24, <2>1, <2>2, TaskFrame, EffectsAreTyped DEF StopSpeech, TypeInv, TypeOK
<1>25. CASE SpeechStopped(t)
  <2>1. turns' \in [Turns -> TurnRecord] /\ response_task' \in 0..turn_id
    BY <1>25, GoToTyped, HelpersAreTyped DEF SpeechStopped, TypeInv, ResponseAt, HandlerAt, TranscribingAt, RespondingAt, FinallyAwaits
  <2>2. speech' \in [Turns -> SpeechRecord] /\ heardLate' \subseteq Nat
    BY <1>25, EffectsAreTyped DEF SpeechStopped, TypeInv, TypeOK
  <2> QED
    BY <1>25, <2>1, <2>2, TaskFrame, EffectsAreTyped DEF SpeechStopped, TypeInv, TypeOK
<1>26. CASE TranscribeBegins(t) \/ EmptyTranscript(t) \/ Think(t) \/ Settle(t)
  BY <1>26, ResponseEntersTyped
     DEF TranscribeBegins, EmptyTranscript, Think, Settle, States, ResponseAt, HandlerAt,
         TranscribingAt, RespondingAt
<1> QED
  BY <1>1, <1>2, <1>3, <1>4, <1>5, <1>6, <1>7, <1>8, <1>9, <1>10, <1>11, <1>12, <1>13, <1>14, <1>15, <1>16, <1>17, <1>18, <1>19, <1>20, <1>21, <1>22, <1>23, <1>24, <1>25, <1>26 DEF ResponseStep

LEMMA SpeechKeepsType ==
  ASSUME TypeInv, NEW t \in Turns, SpeechStep(t)
  PROVE  TypeInv'
<1> USE DEF session, locks, responses, environment, history
<1>1. CASE GetPhrase(t)
  <2>1. speech' \in [Turns -> SpeechRecord]
    BY <1>1, HelpersAreTyped DEF GetPhrase, SpeechGoes, SpeechRaises, TypeInv, TypeOK,
       SpeechRecord, SpeechAt
  <2> QED
    BY <1>1, <2>1, TaskFrame, EffectsAreTyped DEF GetPhrase, TypeInv, TypeOK, States
<1>2. CASE Speak(t)
  <2>1. speech' \in [Turns -> SpeechRecord]
    BY <1>2, HelpersAreTyped DEF Speak, SpeechGoes, SpeechRaises, TypeInv, TypeOK,
       SpeechRecord, SpeechAt
  <2> QED
    BY <1>2, <2>1, TaskFrame, EffectsAreTyped DEF Speak, TypeInv, TypeOK, States
<1>3. CASE SpeakingShown(t)
  <2>1. speech' \in [Turns -> SpeechRecord]
    BY <1>3, HelpersAreTyped DEF SpeakingShown, SpeechGoes, SpeechRaises, TypeInv, TypeOK,
       SpeechRecord, SpeechAt
  <2> QED
    BY <1>3, <2>1, TaskFrame, EffectsAreTyped DEF SpeakingShown, TypeInv, TypeOK, States
<1>4. CASE Media(t)
  <2>1. speech' \in [Turns -> SpeechRecord]
    BY <1>4, HelpersAreTyped DEF Media, SpeechGoes, SpeechRaises, TypeInv, TypeOK,
       SpeechRecord, SpeechAt
  <2> QED
    BY <1>4, <2>1, TaskFrame, EffectsAreTyped DEF Media, TypeInv, TypeOK, States
<1>5. CASE MediaTimesOut(t)
  <2>1. speech' \in [Turns -> SpeechRecord]
    BY <1>5, SpeechGoesTyped DEF MediaTimesOut, TypeInv, SpeechAt
  <2> QED
    BY <1>5, <2>1, TaskFrame, EffectsAreTyped DEF MediaTimesOut, TypeInv, TypeOK, States
<1>6. CASE MediaShown(t)
  <2>1. speech' \in [Turns -> SpeechRecord]
    BY <1>6, HelpersAreTyped DEF MediaShown, SpeechGoes, SpeechRaises, TypeInv, TypeOK,
       SpeechRecord, SpeechAt
  <2> QED
    BY <1>6, <2>1, TaskFrame, EffectsAreTyped DEF MediaShown, TypeInv, TypeOK, States
<1>7. CASE SpeechUnheard(t)
  <2>1. speech' \in [Turns -> SpeechRecord]
    BY <1>7, SpeechGoesTyped DEF SpeechUnheard, TypeInv, SpeechAt
  <2> QED
    BY <1>7, <2>1, TaskFrame, EffectsAreTyped DEF SpeechUnheard, TypeInv, TypeOK, States
<1>8. CASE MediaClosed(t)
  <2>1. speech' \in [Turns -> SpeechRecord]
    BY <1>8, HelpersAreTyped DEF MediaClosed, SpeechGoes, SpeechRaises, TypeInv, TypeOK,
       SpeechRecord, SpeechAt
  <2> QED
    BY <1>8, <2>1, TaskFrame, EffectsAreTyped DEF MediaClosed, TypeInv, TypeOK, States
<1> QED
  BY <1>1, <1>2, <1>3, <1>4, <1>5, <1>6, <1>7, <1>8 DEF SpeechStep

(* A step of the gateway that starts and cancels no task. *)
LEMMA GatewayFrame ==
  ASSUME TypeInv, TurnsLeft',
         state' \in States, turn_lock' \in Owners, state_lock' \in Owners,
         retired' \subseteq Owners, gateway' \in GatewayRecord, speech_active' \in BOOLEAN,
         inputs' \in 0..MaxInputs, cleared' \in Nat,
         faults' \subseteq FaultKinds \cup {"table"},
         UNCHANGED <<turn_id, generation_id, responses, speech, consumer, authorized,
                     heardLate>>
  PROVE  TypeInv'
  BY DEF TypeInv, TypeOK, responses

(* Cancelling the active response marks the newest turn cancelled, and sends the
   response that the session has to its handlers. *)
LEMMA CancelActiveTurns ==
  ASSUME TypeInv, NEW operation \in Operations, CancelActive(operation)
  PROVE  /\ \A u \in Turns :
              turns'[u] = [turns[u] EXCEPT
                 !.cancel = IF u = turn_id THEN TRUE ELSE @,
                 !.at = IF u = response_task THEN CancelledAt(u) ELSE @]
         /\ turns' \in [Turns -> TurnRecord]
         /\ retired' \subseteq Owners /\ gateway' \in GatewayRecord
         /\ gateway'.at = "stopping" => gateway'.task \in Turns
         /\ gateway'.op = operation
<1> DEFINE marked == IF turn_id = 0 THEN turns ELSE [turns EXCEPT ![turn_id].cancel = TRUE]
           R == {response_task} \ {0}
<1>1. response_task \in 0..max_turns /\ turn_id \in 0..max_turns /\ R \subseteq Turns
  BY DEF TypeInv, TypeOK, Turns
<1>2. turns' = [u \in Turns |->
         IF u \in R THEN [marked[u] EXCEPT !.at = CancelledAt(u)] ELSE marked[u]]
  BY DEF CancelActive
<1>3. \A u \in Turns : turns[u] \in TurnRecord /\ u # 0 /\ CancelledAt(u) \in ResponseAt
  BY HelpersAreTyped DEF TypeInv, TypeOK, Turns
<1>4. \A u \in Turns :
         marked[u] = [turns[u] EXCEPT !.cancel = IF u = turn_id THEN TRUE ELSE @]
  BY <1>1, <1>3 DEF TypeInv, TypeOK, TurnRecord
<1>5. \A u \in Turns :
         turns'[u] = [turns[u] EXCEPT
            !.cancel = IF u = turn_id THEN TRUE ELSE @,
            !.at = IF u = response_task THEN CancelledAt(u) ELSE @]
  <2> TAKE u \in Turns
  <2>1. u \in R <=> u = response_task
    BY <1>3
  <2> HIDE DEF marked, R
  <2>2. turns'[u] = IF u = response_task THEN [marked[u] EXCEPT !.at = CancelledAt(u)]
                                         ELSE marked[u]
    BY <1>2, <2>1
  <2>3. turns[u] \in TurnRecord
    BY <1>3
  <2>4. marked[u] = [turns[u] EXCEPT !.cancel = IF u = turn_id THEN TRUE ELSE @]
    BY <1>4
  <2>5. CASE u = response_task
    BY <2>2, <2>3, <2>4, <2>5 DEF TurnRecord
  <2>6. CASE u # response_task
    BY <2>2, <2>3, <2>4, <2>6 DEF TurnRecord
  <2> QED
    BY <2>5, <2>6
<1>6. turns' \in [Turns -> TurnRecord]
  <2>1. ASSUME NEW u \in Turns PROVE turns'[u] \in TurnRecord
    <3>1. turns[u] \in TurnRecord /\ CancelledAt(u) \in ResponseAt
      BY <1>3
    <3>2. turns'[u] = [turns[u] EXCEPT
            !.cancel = IF u = turn_id THEN TRUE ELSE @,
            !.at = IF u = response_task THEN CancelledAt(u) ELSE @]
      BY <1>5
    <3> QED
      BY <3>1, <3>2 DEF TurnRecord
  <2> HIDE DEF marked, R
  <2> QED
    BY <1>2, <2>1
<1>7. retired' \subseteq Owners
  <2>1. retired' = retired \cup RetiredBy(R)
    BY DEF CancelActive
  <2> QED
    BY <1>1, <2>1, EffectsAreTyped DEF TypeInv, TypeOK
<1>8. gateway' \in GatewayRecord /\ gateway'.op = operation
      /\ (gateway'.at = "stopping" => gateway'.task \in Turns)
  BY <1>1 DEF CancelActive, GatewayRecord, GatewayAt, Turns
<1> QED
  BY <1>5, <1>6, <1>7, <1>8

(* _cancel_retired_tasks keeps what the tasks are. *)
LEMMA TasksCancelledTurns ==
  ASSUME TypeInv, NEW R \in SUBSET Turns, NEW S \in SUBSET Turns, TasksCancelled(R, S)
  PROVE  /\ \A u \in Turns :
              turns'[u] = [turns[u] EXCEPT !.at = IF u \in R THEN CancelledAt(u) ELSE @]
         /\ \A u \in Turns :
              speech'[u] = [speech[u] EXCEPT
                              !.at = IF u \in S THEN SpeechCancelledAt(u) ELSE @]
         /\ turns' \in [Turns -> TurnRecord] /\ speech' \in [Turns -> SpeechRecord]
<1>1. \A u \in Turns : /\ turns[u] \in TurnRecord /\ CancelledAt(u) \in ResponseAt
                        /\ speech[u] \in SpeechRecord /\ SpeechCancelledAt(u) \in SpeechAt
  BY HelpersAreTyped DEF TypeInv, TypeOK
<1>2. \A u \in Turns :
         turns'[u] = [turns[u] EXCEPT !.at = IF u \in R THEN CancelledAt(u) ELSE @]
  BY <1>1 DEF TasksCancelled, TurnRecord
<1>3. \A u \in Turns :
         speech'[u] = [speech[u] EXCEPT !.at = IF u \in S THEN SpeechCancelledAt(u) ELSE @]
  BY <1>1 DEF TasksCancelled, SpeechRecord
<1>4. turns' \in [Turns -> TurnRecord]
  BY <1>1 DEF TasksCancelled, TurnRecord
<1>5. speech' \in [Turns -> SpeechRecord]
  BY <1>1 DEF TasksCancelled, SpeechRecord
<1> QED
  BY <1>2, <1>3, <1>4, <1>5

LEMMA GatewayKeepsType ==
  ASSUME TypeInv, GatewayStep
  PROVE  TypeInv'
<1> USE DEF session, locks, responses, environment, history, GatewayGoes, GatewayDoes
<1>1. CASE Started
  <2>1. gateway' \in GatewayRecord /\ TurnsLeft'
    BY <1>1 DEF Started, TypeInv, TypeOK, TurnsLeft, GatewayRecord, GatewayAt,
       Operations
  <2>2. /\ state' \in States /\ turn_lock' \in Owners /\ state_lock' \in Owners
        /\ speech_active' \in BOOLEAN /\ inputs' \in 0..MaxInputs
    BY <1>1, EffectsAreTyped DEF Started, TypeInv, TypeOK, States
  <2> QED
    BY <1>1, <2>1, <2>2, GatewayFrame, EffectsAreTyped DEF Started, TypeInv, TypeOK
<1>2. CASE FrameDecided
  <2>1. gateway' \in GatewayRecord /\ TurnsLeft'
    BY <1>2 DEF FrameDecided, SpeechStarted, SpeechEnded, SpeechTooLong, VadFails, TypeInv, TypeOK, TurnsLeft, GatewayRecord, GatewayAt,
       Operations
  <2>2. /\ state' \in States /\ turn_lock' \in Owners /\ state_lock' \in Owners
        /\ speech_active' \in BOOLEAN /\ inputs' \in 0..MaxInputs
    BY <1>2, EffectsAreTyped DEF FrameDecided, SpeechStarted, SpeechEnded, SpeechTooLong, VadFails, TypeInv, TypeOK, States
  <2> QED
    BY <1>2, <2>1, <2>2, GatewayFrame, EffectsAreTyped DEF FrameDecided, SpeechStarted, SpeechEnded, SpeechTooLong, VadFails, TypeInv, TypeOK
<1>3. CASE ErrorShown
  <2>1. gateway' \in GatewayRecord /\ TurnsLeft'
    BY <1>3 DEF ErrorShown, GatewayEnters, TypeInv, TypeOK, TurnsLeft, GatewayRecord, GatewayAt,
       Operations
  <2>2. /\ state' \in States /\ turn_lock' \in Owners /\ state_lock' \in Owners
        /\ speech_active' \in BOOLEAN /\ inputs' \in 0..MaxInputs
    BY <1>3, EffectsAreTyped DEF ErrorShown, GatewayEnters, TypeInv, TypeOK, States
  <2> QED
    BY <1>3, <2>1, <2>2, GatewayFrame, EffectsAreTyped DEF ErrorShown, GatewayEnters, TypeInv, TypeOK
<1>4. CASE Stopped
  <2>1. gateway' \in GatewayRecord /\ TurnsLeft'
    BY <1>4 DEF Stopped, TypeInv, TypeOK, TurnsLeft, GatewayRecord, GatewayAt,
       Operations
  <2>2. /\ state' \in States /\ turn_lock' \in Owners /\ state_lock' \in Owners
        /\ speech_active' \in BOOLEAN /\ inputs' \in 0..MaxInputs
    BY <1>4, EffectsAreTyped DEF Stopped, TypeInv, TypeOK, States
  <2> QED
    <3>1. /\ retired' \subseteq Owners /\ faults' \subseteq FaultKinds \cup {"table"}
          /\ cleared' \in Nat
      BY <1>4, EffectsAreTyped DEF Stopped, TypeInv, TypeOK, TurnsLeft
    <3> QED
      BY <1>4, <2>1, <2>2, <3>1, GatewayFrame DEF Stopped, TypeInv, TypeOK
<1>5. CASE BargeIn
  <2>1. gateway' \in GatewayRecord /\ TurnsLeft'
    BY <1>5 DEF BargeIn, TypeInv, TypeOK, TurnsLeft, GatewayRecord, GatewayAt,
       Operations
  <2>2. /\ state' \in States /\ turn_lock' \in Owners /\ state_lock' \in Owners
        /\ speech_active' \in BOOLEAN /\ inputs' \in 0..MaxInputs
    BY <1>5, EffectsAreTyped DEF BargeIn, TypeInv, TypeOK, States
  <2> QED
    BY <1>5, <2>1, <2>2, GatewayFrame, EffectsAreTyped DEF BargeIn, TypeInv, TypeOK
<1>6. CASE UserSpeaks
  <2>1. gateway' \in GatewayRecord /\ TurnsLeft'
    BY <1>6 DEF UserSpeaks, GatewayEnters, TypeInv, TypeOK, TurnsLeft, GatewayRecord, GatewayAt,
       Operations
  <2>2. /\ state' \in States /\ turn_lock' \in Owners /\ state_lock' \in Owners
        /\ speech_active' \in BOOLEAN /\ inputs' \in 0..MaxInputs
    BY <1>6, EffectsAreTyped DEF UserSpeaks, GatewayEnters, TypeInv, TypeOK, States
  <2> QED
    BY <1>6, <2>1, <2>2, GatewayFrame, EffectsAreTyped DEF UserSpeaks, GatewayEnters, TypeInv, TypeOK
<1>7. CASE CancelAnswered
  <2>1. gateway' \in GatewayRecord /\ TurnsLeft'
    BY <1>7 DEF CancelAnswered, GatewayEnters, TypeInv, TypeOK, TurnsLeft, GatewayRecord, GatewayAt,
       Operations
  <2>2. /\ state' \in States /\ turn_lock' \in Owners /\ state_lock' \in Owners
        /\ speech_active' \in BOOLEAN /\ inputs' \in 0..MaxInputs
    BY <1>7, EffectsAreTyped DEF CancelAnswered, GatewayEnters, TypeInv, TypeOK, States
  <2> QED
    BY <1>7, <2>1, <2>2, GatewayFrame, EffectsAreTyped DEF CancelAnswered, GatewayEnters, TypeInv, TypeOK
<1>8. CASE Returned
  <2>1. gateway' \in GatewayRecord /\ TurnsLeft'
    BY <1>8 DEF Returned, TypeInv, TypeOK, TurnsLeft, GatewayRecord, GatewayAt,
       Operations
  <2>2. /\ state' \in States /\ turn_lock' \in Owners /\ state_lock' \in Owners
        /\ speech_active' \in BOOLEAN /\ inputs' \in 0..MaxInputs
    BY <1>8, EffectsAreTyped DEF Returned, TypeInv, TypeOK, States
  <2> QED
    BY <1>8, <2>1, <2>2, GatewayFrame, EffectsAreTyped DEF Returned, TypeInv, TypeOK
<1>9. CASE Interrupted
  <2>1. gateway' \in GatewayRecord /\ TurnsLeft'
    BY <1>9 DEF Interrupted, TypeInv, TypeOK, TurnsLeft, GatewayRecord, GatewayAt,
       Operations
  <2>2. /\ state' \in States /\ turn_lock' \in Owners /\ state_lock' \in Owners
        /\ speech_active' \in BOOLEAN /\ inputs' \in 0..MaxInputs
    BY <1>9, EffectsAreTyped DEF Interrupted, TypeInv, TypeOK, States
  <2> QED
    <3>1. retired' \subseteq Owners /\ faults' \subseteq FaultKinds \cup {"table"}
      BY <1>9, EffectsAreTyped DEF Interrupted, TypeInv, TypeOK, TurnsLeft
    <3> QED
      BY <1>9, <2>1, <2>2, <3>1, GatewayFrame DEF Interrupted, TypeInv, TypeOK
<1>10. CASE CloseUnheard
  <2>1. gateway' \in GatewayRecord /\ TurnsLeft'
    BY <1>10 DEF CloseUnheard, TypeInv, TypeOK, TurnsLeft, GatewayRecord, GatewayAt,
       Operations
  <2>2. /\ state' \in States /\ turn_lock' \in Owners /\ state_lock' \in Owners
        /\ speech_active' \in BOOLEAN /\ inputs' \in 0..MaxInputs
    BY <1>10, EffectsAreTyped DEF CloseUnheard, TypeInv, TypeOK, States
  <2> QED
    BY <1>10, <2>1, <2>2, GatewayFrame, EffectsAreTyped DEF CloseUnheard, TypeInv, TypeOK
<1>11. CASE Reaped
  <2>1. gateway' \in GatewayRecord /\ TurnsLeft'
    BY <1>11 DEF Reaped, TypeInv, TypeOK, TurnsLeft, GatewayRecord, GatewayAt,
       Operations
  <2>2. /\ state' \in States /\ turn_lock' \in Owners /\ state_lock' \in Owners
        /\ speech_active' \in BOOLEAN /\ inputs' \in 0..MaxInputs
    BY <1>11, EffectsAreTyped DEF Reaped, TypeInv, TypeOK, States
  <2> QED
    BY <1>11, <2>1, <2>2, GatewayFrame, EffectsAreTyped DEF Reaped, TypeInv, TypeOK
<1>12. CASE TakeTurnLock
  <2>1. CASE state = "closed"
    BY <1>12, <2>1, GatewayFrame
       DEF TakeTurnLock, TypeInv, TypeOK, TurnsLeft, GatewayRecord, GatewayAt
  <2>2. CASE state # "closed" /\ gateway.op \in {"text", "audio"} /\ turn_id >= max_turns
    BY <1>12, <2>2, GatewayFrame, EffectsAreTyped
       DEF TakeTurnLock, TypeInv, TypeOK, TurnsLeft, GatewayRecord, GatewayAt
  <2>3. CASE state # "closed" /\ ~(gateway.op \in {"text", "audio"} /\ turn_id >= max_turns)
    <3>1. PICK operation \in Operations :
             /\ CancelActive(operation)
             /\ operation \in {"text", "audio"} => turn_id < max_turns
      BY <1>12, <2>3 DEF TakeTurnLock, Operations, TypeInv, TypeOK, GatewayRecord
    <3>2. TurnsLeft'
      BY <1>12, <2>3, <3>1, CancelActiveTurns DEF TakeTurnLock, TurnsLeft
    <3>3. /\ generation_id' \in Nat /\ response_task' \in 0..turn_id'
          /\ state_lock' \in Owners /\ turn_lock' \in Owners /\ cleared' \in Nat
      BY <1>12, <2>3, <3>1, EffectsAreTyped DEF TakeTurnLock, CancelActive, TypeInv, TypeOK
    <3> QED
      BY <1>12, <2>3, <3>1, <3>2, <3>3, CancelActiveTurns DEF TakeTurnLock, TypeInv, TypeOK
  <2> QED
    BY <2>1, <2>2, <2>3
<1>13. CASE BeginTurn
  <2>1. /\ turn_id < max_turns /\ turn_id' = turn_id + 1 /\ turn_id + 1 \in Turns
        /\ response_task' = turn_id + 1 /\ gateway.op \in {"text", "audio"}
    BY <1>13 DEF BeginTurn, TypeInv, TypeOK, TurnsLeft, Turns
  <2>2. [kind |-> gateway.op, gen |-> generation_id + 1, cancel |-> FALSE, at |-> "new",
         stream |-> FALSE, phrases |-> 0] \in TurnRecord
    BY <2>1 DEF TurnRecord, TypeInv, TypeOK, ResponseAt, TranscribingAt
  <2>3. turns' \in [Turns -> TurnRecord]
    BY <1>13, <2>1, <2>2 DEF BeginTurn, TypeInv, TypeOK
  <2>4. gateway' \in GatewayRecord /\ TurnsLeft'
    BY <1>13 DEF BeginTurn, TypeInv, TypeOK, TurnsLeft, GatewayRecord, GatewayAt, Operations
  <2> QED
    <3>1. /\ turn_id' \in 0..max_turns /\ response_task' \in 0..turn_id'
          /\ generation_id' \in Nat /\ speech_active' \in BOOLEAN /\ turn_lock' \in Owners
      <4>1. /\ turn_id \in Nat /\ generation_id \in Nat /\ speech_active \in BOOLEAN
            /\ Nobody \in Owners
        BY EffectsAreTyped DEF TypeInv, TypeOK
      <4>2. /\ generation_id' = generation_id + 1 /\ turn_lock' = Nobody
            /\ speech_active' \in {FALSE, speech_active}
        BY <1>13 DEF BeginTurn
      <4>3. turn_id' \in 0..max_turns /\ response_task' \in 0..turn_id'
        BY <2>1, <4>1
      <4>4. generation_id' \in Nat /\ turn_lock' \in Owners
        BY <4>1, <4>2
      <4>5. speech_active' \in BOOLEAN
        BY <4>1, <4>2
      <4> QED
        BY <4>3, <4>4, <4>5
    <3>2. UNCHANGED <<state, state_lock, speech, retired, environment, faults, history>>
      BY <1>13 DEF BeginTurn
    <3> QED
      BY <2>3, <2>4, <3>1, <3>2 DEF TypeInv, TypeOK
<1>14. CASE CancelRetired
  <2>1. gateway' \in GatewayRecord /\ TurnsLeft'
    BY <1>14 DEF CancelRetired, TypeInv, TypeOK, TurnsLeft, GatewayRecord, GatewayAt
  <2>2. CASE RetiredResponses = {} /\ RetiredSpeech = {}
    BY <1>14, <2>1, <2>2, GatewayFrame DEF CancelRetired, TypeInv, TypeOK
  <2>3. CASE ~(RetiredResponses = {} /\ RetiredSpeech = {})
    <3>1. RetiredResponses \subseteq Turns /\ RetiredSpeech \subseteq Turns
      BY DEF RetiredResponses, RetiredSpeech
    <3>2. turns' \in [Turns -> TurnRecord] /\ speech' \in [Turns -> SpeechRecord]
      BY <1>14, <2>3, <3>1, TasksCancelledTurns DEF CancelRetired
    <3>3. retired' \subseteq Owners
      BY <1>14, <2>3, <3>1, EffectsAreTyped DEF CancelRetired, TypeInv, TypeOK
    <3>4. state_lock' \in Owners
      BY <1>14, <2>3, EffectsAreTyped DEF CancelRetired, TypeInv, TypeOK
    <3> QED
      BY <1>14, <2>1, <2>3, <3>2, <3>3, <3>4 DEF CancelRetired, TypeInv, TypeOK
  <2> QED
    BY <2>2, <2>3
<1> QED
  BY <1>1, <1>2, <1>3, <1>4, <1>5, <1>6, <1>7, <1>8, <1>9, <1>10, <1>11, <1>12, <1>13, <1>14 DEF GatewayStep

LEMMA ClientKeepsType ==
  ASSUME TypeInv, Client
  PROVE  TypeInv'
<1> USE DEF session, locks, responses, environment, history, GatewayGoes, GatewayDoes
<1>1. CASE Start
  <2>1. gateway' \in GatewayRecord /\ TurnsLeft'
    BY <1>1 DEF Start, TypeInv, TypeOK, TurnsLeft, GatewayRecord, GatewayAt,
       Operations
  <2>2. /\ state' \in States /\ turn_lock' \in Owners /\ state_lock' \in Owners
        /\ speech_active' \in BOOLEAN /\ inputs' \in 0..MaxInputs
    BY <1>1, EffectsAreTyped DEF Start, TypeInv, TypeOK, States
  <2> QED
    BY <1>1, <2>1, <2>2, GatewayFrame, EffectsAreTyped DEF Start, TypeInv, TypeOK
<1>2. CASE Frame
  <2>1. gateway' \in GatewayRecord /\ TurnsLeft'
    BY <1>2 DEF Frame, Input, SubmitText, Cancel, TypeInv, TypeOK, TurnsLeft, GatewayRecord, GatewayAt,
       Operations
  <2>2. /\ state' \in States /\ turn_lock' \in Owners /\ state_lock' \in Owners
        /\ speech_active' \in BOOLEAN /\ inputs' \in 0..MaxInputs
    BY <1>2, EffectsAreTyped DEF Frame, Input, SubmitText, Cancel, TypeInv, TypeOK, States
  <2> QED
    BY <1>2, <2>1, <2>2, GatewayFrame, EffectsAreTyped DEF Frame, Input, SubmitText, Cancel, TypeInv, TypeOK
<1>3. CASE SubmitText
  <2>1. gateway' \in GatewayRecord /\ TurnsLeft'
    BY <1>3 DEF SubmitText, Input, Cancel, TypeInv, TypeOK, TurnsLeft, GatewayRecord, GatewayAt,
       Operations
  <2>2. /\ state' \in States /\ turn_lock' \in Owners /\ state_lock' \in Owners
        /\ speech_active' \in BOOLEAN /\ inputs' \in 0..MaxInputs
    BY <1>3, EffectsAreTyped DEF SubmitText, Input, Cancel, TypeInv, TypeOK, States
  <2> QED
    BY <1>3, <2>1, <2>2, GatewayFrame, EffectsAreTyped DEF SubmitText, Input, Cancel, TypeInv, TypeOK
<1>4. CASE Cancel
  <2>1. gateway' \in GatewayRecord /\ TurnsLeft'
    BY <1>4 DEF Cancel, Input, TypeInv, TypeOK, TurnsLeft, GatewayRecord, GatewayAt,
       Operations
  <2>2. /\ state' \in States /\ turn_lock' \in Owners /\ state_lock' \in Owners
        /\ speech_active' \in BOOLEAN /\ inputs' \in 0..MaxInputs
    BY <1>4, EffectsAreTyped DEF Cancel, Input, TypeInv, TypeOK, States
  <2> QED
    BY <1>4, <2>1, <2>2, GatewayFrame, EffectsAreTyped DEF Cancel, Input, TypeInv, TypeOK
<1>5. CASE Leave
  <2>1. gateway' \in GatewayRecord /\ TurnsLeft'
    BY <1>5 DEF Leave, TypeInv, TypeOK, TurnsLeft, GatewayRecord, GatewayAt,
       Operations
  <2>2. /\ state' \in States /\ turn_lock' \in Owners /\ state_lock' \in Owners
        /\ speech_active' \in BOOLEAN /\ inputs' \in 0..MaxInputs
    BY <1>5, EffectsAreTyped DEF Leave, TypeInv, TypeOK, States
  <2> QED
    BY <1>5, <2>1, <2>2, GatewayFrame, EffectsAreTyped DEF Leave, TypeInv, TypeOK
<1> QED
  BY <1>1, <1>2, <1>3, <1>4, <1>5 DEF Client

LEMMA EnvironmentKeepsType ==
  ASSUME TypeInv, Environment
  PROVE  TypeInv'
<1> USE DEF session, locks, responses, history
<1>1. consumer' \in {"ok", "slow", "gone"} /\ authorized' \in BOOLEAN
  BY DEF Environment, ConsumerStalls, ConsumerRecovers, ConsumerGone, Revoke, TypeInv, TypeOK
<1>2. faults' \subseteq FaultKinds \cup {"table"}
  BY EffectsAreTyped
     DEF Environment, ConsumerStalls, ConsumerRecovers, ConsumerGone, Revoke, TypeInv, TypeOK
<1> QED
  BY <1>1, <1>2
     DEF Environment, ConsumerStalls, ConsumerRecovers, ConsumerGone, Revoke, TypeInv, TypeOK,
         TurnsLeft

LEMMA StepKeepsType == TypeInv /\ [Next]_vars => TypeInv'
<1> SUFFICES ASSUME TypeInv, [Next]_vars PROVE TypeInv'
  OBVIOUS
<1>1. CASE UNCHANGED vars
  BY <1>1 DEF TypeInv, TypeOK, TurnsLeft, vars, session, locks, responses, environment, history
<1>2. CASE Client \/ LeaveFailedTransport
  BY <1>2, ClientKeepsType DEF LeaveFailedTransport, Client
<1>3. CASE System
  BY <1>2, <1>3, ResponseKeepsType, SpeechKeepsType, GatewayKeepsType DEF System
<1> QED
  BY <1>1, <1>2, <1>3, EnvironmentKeepsType DEF Next

(* The type invariant, for a session of any number of turns, with a speech queue of
   any size and any faults. *)
THEOREM SessionTypeCorrect == Spec => []TypeOK
<1>1. TypeInv => TypeOK
  BY DEF TypeInv
<1> QED
  BY <1>1, InitType, StepKeepsType, PTL DEF Spec

-----------------------------------------------------------------------------
(* The generations: an inductive invariant *)

LEMMA InitGenerations == Init => GenerationInv
  BY DEF Init, GenerationInv, Begun, ClearedIsPast, OneOwner, ResponseLive, Turns

(* A task that runs does not go back to what it was before it began. *)
LEMMA RunningTasksStay ==
  ASSUME NEW t \in Turns
  PROVE  /\ FinallyAt(t) # "none" /\ FailAt(t) # "none" /\ RaisedAt(t) # "none"
         /\ CancelledAt(t) = "none" <=> turns[t].at = "none"
         /\ SpeechCancelledAt(t) = "none" <=> speech[t].at = "none"
<1>1. FinallyAt(t) # "none"
  BY DEF FinallyAt
<1>2. FailAt(t) # "none" /\ RaisedAt(t) # "none"
  BY <1>1 DEF FailAt, RaisedAt
<1>3. CancelledAt(t) = "none" <=> turns[t].at = "none"
  BY <1>1 DEF CancelledAt, RespondingAt, HandlerAt
<1>4. SpeechCancelledAt(t) = "none" <=> speech[t].at = "none"
  BY DEF SpeechCancelledAt
<1> QED
  BY <1>1, <1>2, <1>3, <1>4

(* The response task of turn t moves, and its turn is what it was. *)
TaskMoves(t) ==
  /\ \A u \in Turns :
       /\ turns'[u].gen = turns[u].gen /\ turns'[u].cancel = turns[u].cancel
       /\ u # t => turns'[u].at = turns[u].at
  /\ turns'[t].at # "none"
  /\ response_task' = IF turns'[t].at = "done" /\ response_task = t THEN 0 ELSE response_task

LEMMA GoToMoves ==
  ASSUME TypeInv, NEW t \in Turns, NEW p, p # "none", GoTo(t, p)
  PROVE  TaskMoves(t)
<1>1. turns[t] \in TurnRecord /\ turns' = [turns EXCEPT ![t] = [turns[t] EXCEPT !.at = p]]
  BY DEF GoTo, TypeInv, TypeOK
<1>2. \A u \in Turns : turns'[u] = IF u = t THEN [turns[t] EXCEPT !.at = p] ELSE turns[u]
  BY <1>1 DEF TypeInv, TypeOK
<1>3. turns'[t].at = p /\ turns'[t].gen = turns[t].gen /\ turns'[t].cancel = turns[t].cancel
  BY <1>1, <1>2 DEF TurnRecord
<1> QED
  BY <1>2, <1>3 DEF TaskMoves, GoTo

(* A running turn that is current has not been cleared. *)
LEMMA NothingLate ==
  ASSUME TypeInv, GenerationInv, NEW t \in Turns, turns[t].at # "none", Heard(t)
  PROVE  heardLate' = {}
<1>1. turns[t].gen \in Nat /\ generation_id \in Nat /\ cleared \in Nat
  BY DEF TypeInv, TypeOK, TurnRecord
<1>2. ~(IsCurrent(t) /\ turns[t].gen <= cleared)
  BY <1>1 DEF IsCurrent, GenerationInv, Begun, ClearedIsPast
<1> QED
  BY <1>2 DEF Heard, GenerationInv

(* Steps of a task keep the invariant while they start no generation... *)
LEMMA MovesKeepGenerations ==
  ASSUME TypeInv, GenerationInv, NEW t \in Turns, ResponseLive(t), TaskMoves(t),
         \A u \in Turns : speech'[u].at # "none" => speech[u].at # "none" \/ u = t,
         heardLate' = {}, UNCHANGED <<turn_id, generation_id, cleared>>
  PROVE  GenerationInv'
<1>1. Begun'
  BY DEF Begun, GenerationInv, TaskMoves, ResponseLive
<1>2. ClearedIsPast'
  BY DEF ClearedIsPast, GenerationInv
<1>3. turn_id \in Turns \cup {0}
  BY DEF TypeInv, TypeOK, Turns
<1>4. OneOwner'
  <2>1. response_task' \in {0, turn_id'}
    BY DEF OneOwner, GenerationInv, TaskMoves
  <2>2. \A u \in Turns : u < turn_id' => turns'[u].gen < turns'[turn_id'].gen
    <3>1. ASSUME NEW u \in Turns, u < turn_id PROVE turn_id \in Turns
      BY <1>3, <3>1 DEF Turns
    <3> QED
      BY <3>1 DEF OneOwner, GenerationInv, TaskMoves
  <2>3. ASSUME NEW u \in Turns, u = turn_id', turns'[u].gen = generation_id',
               ~turns'[u].cancel, ResponseLive(u)'
        PROVE  response_task' = u
    <3>1. ResponseLive(u)
      BY <2>3 DEF TaskMoves, ResponseLive
    <3>2. response_task = u
      BY <2>3, <3>1 DEF OneOwner, GenerationInv, TaskMoves
    <3> QED
      BY <2>3, <3>2 DEF TaskMoves, ResponseLive
  <2> QED
    BY <2>1, <2>2, <2>3 DEF OneOwner
<1> QED
  BY <1>1, <1>2, <1>4 DEF GenerationInv

(* ... and when they end one. *)
LEMMA EndsKeepGenerations ==
  ASSUME TypeInv, GenerationInv, generation_id' = generation_id + 1,
         response_task' \in {0, response_task}, cleared' \in {cleared, generation_id},
         \A u \in Turns : turns'[u].gen = turns[u].gen
                            /\ (turns'[u].at = "none" <=> turns[u].at = "none"),
         heardLate' = {}, UNCHANGED <<turn_id, speech>>
  PROVE  GenerationInv'
<1>1. generation_id \in Nat /\ cleared \in Nat /\ \A u \in Turns : turns[u].gen \in Nat
  BY DEF TypeInv, TypeOK, TurnRecord
<1>2. Begun'
  BY <1>1 DEF Begun, GenerationInv
<1>3. ClearedIsPast'
  BY <1>1 DEF ClearedIsPast, GenerationInv
<1>4. turn_id \in Turns \cup {0}
  BY DEF TypeInv, TypeOK, Turns
<1>5. OneOwner'
  <2>1. response_task' \in {0, turn_id'}
    BY DEF OneOwner, GenerationInv
  <2>2. \A u \in Turns : u < turn_id' => turns'[u].gen < turns'[turn_id'].gen
    <3>1. ASSUME NEW u \in Turns, u < turn_id PROVE turn_id \in Turns
      BY <1>4, <3>1 DEF Turns
    <3> QED
      BY <3>1 DEF OneOwner, GenerationInv
  <2>3. \A u \in Turns : turns'[u].gen # generation_id'
    BY <1>1 DEF Begun, GenerationInv
  <2> QED
    BY <2>1, <2>2, <2>3 DEF OneOwner
<1> QED
  BY <1>2, <1>3, <1>5 DEF GenerationInv

LEMMA ResponseKeepsGenerations ==
  ASSUME TypeInv, GenerationInv, NEW t \in Turns, ResponseStep(t)
  PROVE  GenerationInv'
<1> USE DEF session, locks, responses, environment, history
<1>1. heardLate = {}
  BY DEF GenerationInv
<1>2. CASE TranscribeBegins(t)
  <2>1. TaskMoves(t) /\ ResponseLive(t)
    BY <1>2, GoToMoves, RunningTasksStay DEF TranscribeBegins, ResponseEnters, ResponseLive
  <2> QED
    BY <1>1, <1>2, <2>1, MovesKeepGenerations DEF TranscribeBegins, ResponseEnters
<1>3. CASE TranscribingShown(t)
  <2>1. TaskMoves(t) /\ ResponseLive(t)
    BY <1>3, GoToMoves, RunningTasksStay DEF TranscribingShown, ResponseSent, ResponseLive
  <2> QED
    BY <1>1, <1>3, <2>1, MovesKeepGenerations DEF TranscribingShown, ResponseSent
<1>4. CASE AsrReturns(t)
  <2>1. TaskMoves(t) /\ ResponseLive(t)
    BY <1>4, GoToMoves, RunningTasksStay DEF AsrReturns, ResponseLive
  <2>3. heardLate' = {}
    BY <1>1, <1>4, <2>1, NothingLate DEF AsrReturns, ResponseLive
  <2> QED
    BY <1>1, <1>4, <2>1, <2>3, MovesKeepGenerations DEF AsrReturns
<1>5. CASE AdapterFails(t)
  <2>1. TaskMoves(t) /\ ResponseLive(t)
    BY <1>5, GoToMoves, RunningTasksStay DEF AdapterFails, ResponseLive
  <2> QED
    BY <1>1, <1>5, <2>1, MovesKeepGenerations DEF AdapterFails
<1>6. CASE AdapterTimesOut(t)
  <2>1. TaskMoves(t) /\ ResponseLive(t)
    BY <1>6, GoToMoves, RunningTasksStay DEF AdapterTimesOut, ResponseLive
  <2> QED
    BY <1>1, <1>6, <2>1, MovesKeepGenerations DEF AdapterTimesOut
<1>7. CASE EmptyTranscript(t)
  <2>1. TaskMoves(t) /\ ResponseLive(t)
    BY <1>7, GoToMoves, RunningTasksStay DEF EmptyTranscript, ResponseEnters, ResponseLive
  <2> QED
    BY <1>1, <1>7, <2>1, MovesKeepGenerations DEF EmptyTranscript, ResponseEnters
<1>8. CASE RespondBegins(t)
  <2>1. TaskMoves(t) /\ ResponseLive(t)
    BY <1>8, GoToMoves, RunningTasksStay DEF RespondBegins, ResponseLive
  <2>2. \A u \in Turns : speech'[u].at # "none" => speech[u].at # "none" \/ u = t
    BY <1>8 DEF RespondBegins, TypeInv, TypeOK, SpeechRecord
  <2> QED
    BY <1>1, <1>8, <2>1, <2>2, MovesKeepGenerations DEF RespondBegins
<1>9. CASE Think(t)
  <2>1. TaskMoves(t) /\ ResponseLive(t)
    BY <1>9, GoToMoves, RunningTasksStay DEF Think, ResponseEnters, ResponseLive
  <2> QED
    BY <1>1, <1>9, <2>1, MovesKeepGenerations DEF Think, ResponseEnters
<1>10. CASE ThinkingShown(t)
  <2>1. TaskMoves(t) /\ ResponseLive(t)
    BY <1>10 DEF ThinkingShown, ResponseLive, TaskMoves, TypeInv, TypeOK, TurnRecord
  <2> QED
    BY <1>1, <1>10, <2>1, MovesKeepGenerations DEF ThinkingShown
<1>11. CASE Delta(t)
  <2>1. TaskMoves(t) /\ ResponseLive(t)
    <3>1. CASE \E p : p # "none" /\ GoTo(t, p)
      BY <1>11, <3>1, GoToMoves DEF Delta, ResponseLive
    <3>2. CASE ~\E p : p # "none" /\ GoTo(t, p)
      BY <1>11, <3>2, RunningTasksStay
         DEF Delta, ResponseLive, TaskMoves, TypeInv, TypeOK, TurnRecord
    <3> QED
      BY <3>1, <3>2
  <2>3. heardLate' = {}
    BY <1>1, <1>11, <2>1, NothingLate DEF Delta, ResponseLive
  <2> QED
    BY <1>1, <1>11, <2>1, <2>3, MovesKeepGenerations DEF Delta
<1>12. CASE DeltaShown(t)
  <2>1. TaskMoves(t) /\ ResponseLive(t)
    BY <1>12, GoToMoves, RunningTasksStay DEF DeltaShown, ResponseSent, ResponseLive
  <2> QED
    BY <1>1, <1>12, <2>1, MovesKeepGenerations DEF DeltaShown, ResponseSent
<1>13. CASE StreamEnds(t)
  <2>1. TaskMoves(t) /\ ResponseLive(t)
    BY <1>13, GoToMoves, RunningTasksStay DEF StreamEnds, ResponseLive
  <2> QED
    BY <1>1, <1>13, <2>1, MovesKeepGenerations DEF StreamEnds
<1>14. CASE QueueSpeech(t)
  <2>1. TaskMoves(t) /\ ResponseLive(t)
    BY <1>14, GoToMoves, RunningTasksStay DEF QueueSpeech, ResponseLive
  <2>2. \A u \in Turns : speech'[u].at # "none" => speech[u].at # "none" \/ u = t
    BY <1>14 DEF QueueSpeech, TypeInv, TypeOK, SpeechRecord
  <2>3. heardLate' = {}
    BY <1>1, <1>14, <2>1, NothingLate DEF QueueSpeech, ResponseLive
  <2> QED
    BY <1>1, <1>14, <2>1, <2>2, <2>3, MovesKeepGenerations DEF QueueSpeech
<1>15. CASE WorkerStopped(t)
  <2>1. TaskMoves(t) /\ ResponseLive(t)
    BY <1>15, GoToMoves, RunningTasksStay DEF WorkerStopped, ResponseLive
  <2> QED
    BY <1>1, <1>15, <2>1, MovesKeepGenerations DEF WorkerStopped
<1>16. CASE FinalShown(t)
  <2>1. TaskMoves(t) /\ ResponseLive(t)
    BY <1>16, GoToMoves, RunningTasksStay DEF FinalShown, ResponseSent, ResponseLive
  <2> QED
    BY <1>1, <1>16, <2>1, MovesKeepGenerations DEF FinalShown, ResponseSent
<1>17. CASE SpeechJoined(t)
  <2>1. TaskMoves(t) /\ ResponseLive(t)
    BY <1>17, GoToMoves, RunningTasksStay DEF SpeechJoined, ResponseLive
  <2> QED
    BY <1>1, <1>17, <2>1, MovesKeepGenerations DEF SpeechJoined
<1>18. CASE JoinTimesOut(t)
  <2>1. TaskMoves(t) /\ ResponseLive(t)
    BY <1>18, GoToMoves, RunningTasksStay DEF JoinTimesOut, ResponseLive
  <2>2. \A u \in Turns : speech'[u].at # "none" => speech[u].at # "none" \/ u = t
    BY <1>18 DEF JoinTimesOut, TypeInv, TypeOK, SpeechRecord
  <2> QED
    BY <1>1, <1>18, <2>1, <2>2, MovesKeepGenerations DEF JoinTimesOut
<1>19. CASE Settle(t)
  <2>1. TaskMoves(t) /\ ResponseLive(t)
    BY <1>19, GoToMoves, RunningTasksStay DEF Settle, ResponseEnters, ResponseLive
  <2> QED
    BY <1>1, <1>19, <2>1, MovesKeepGenerations DEF Settle, ResponseEnters
<1>20. CASE Settled(t)
  <2>1. TaskMoves(t) /\ ResponseLive(t)
    BY <1>20, GoToMoves, RunningTasksStay DEF Settled, ResponseSent, ResponseLive
  <2> QED
    BY <1>1, <1>20, <2>1, MovesKeepGenerations DEF Settled, ResponseSent
<1>21. CASE AbortShown(t)
  <2>1. TaskMoves(t) /\ ResponseLive(t)
    BY <1>21, GoToMoves, RunningTasksStay DEF AbortShown, ResponseLive
  <2> QED
    BY <1>1, <1>21, <2>1, MovesKeepGenerations DEF AbortShown
<1>22. CASE Aborted(t)
  <2>1. TaskMoves(t) /\ ResponseLive(t)
    BY <1>22, GoToMoves, RunningTasksStay DEF Aborted, ResponseSent, ResponseLive
  <2> QED
    BY <1>1, <1>22, <2>1, MovesKeepGenerations DEF Aborted, ResponseSent
<1>23. CASE Quarantined(t)
  <2>1. TaskMoves(t) /\ ResponseLive(t)
    BY <1>23, GoToMoves, RunningTasksStay DEF Quarantined, ResponseLive
  <2> QED
    BY <1>1, <1>23, <2>1, MovesKeepGenerations DEF Quarantined
<1>24. CASE ResponseUnheard(t)
  <2>1. TaskMoves(t) /\ ResponseLive(t)
    BY <1>24, GoToMoves, RunningTasksStay DEF ResponseUnheard, ResponseLive
  <2> QED
    BY <1>1, <1>24, <2>1, MovesKeepGenerations DEF ResponseUnheard
<1>25. CASE CancelShown(t)
  <2>1. TaskMoves(t) /\ ResponseLive(t)
    BY <1>25, GoToMoves, RunningTasksStay DEF CancelShown, ResponseSent, ResponseLive
  <2> QED
    BY <1>1, <1>25, <2>1, MovesKeepGenerations DEF CancelShown, ResponseSent
<1>26. CASE StreamClosed(t)
  <2>1. TaskMoves(t) /\ ResponseLive(t)
    BY <1>26, GoToMoves, RunningTasksStay DEF StreamClosed, ResponseLive
  <2> QED
    BY <1>1, <1>26, <2>1, MovesKeepGenerations DEF StreamClosed
<1>27. CASE StopSpeech(t)
  <2>1. TaskMoves(t) /\ ResponseLive(t)
    BY <1>27, GoToMoves, RunningTasksStay DEF StopSpeech, ResponseLive
  <2>2. \A u \in Turns : speech'[u].at # "none" => speech[u].at # "none" \/ u = t
    BY <1>27 DEF StopSpeech, TypeInv, TypeOK, SpeechRecord
  <2> QED
    BY <1>1, <1>27, <2>1, <2>2, MovesKeepGenerations DEF StopSpeech
<1>28. CASE SpeechStopped(t)
  <2>1. TaskMoves(t) /\ ResponseLive(t)
    BY <1>28, GoToMoves, RunningTasksStay DEF SpeechStopped, ResponseLive
  <2> QED
    BY <1>1, <1>28, <2>1, MovesKeepGenerations DEF SpeechStopped
<1>29. CASE Abort(t)
  <2>1. CASE GoTo(t, FinallyAt(t)) /\ UNCHANGED <<generation_id, cleared>>
    BY <1>1, <1>29, <2>1, GoToMoves, RunningTasksStay, MovesKeepGenerations
       DEF Abort, ResponseLive
  <2>2. CASE GenerationEnds(t)
    <3>1. /\ turns[t].gen = generation_id
          /\ \A u \in Turns : turns'[u].gen = turns[u].gen
                               /\ (turns'[u].at = "none" <=> turns[u].at = "none")
      BY <1>29, <2>2 DEF Abort, GenerationEnds, IsCurrent, TypeInv, TypeOK, TurnRecord
    <3> QED
      BY <1>1, <1>29, <2>2, <3>1, EndsKeepGenerations DEF Abort, GenerationEnds, Cleared
  <2> QED
    BY <1>29, <2>1, <2>2 DEF Abort
<1>30. CASE Quarantine(t)
  <2>1. CASE GoTo(t, FinallyAt(t)) /\ UNCHANGED <<generation_id, cleared>>
    BY <1>1, <1>30, <2>1, GoToMoves, RunningTasksStay, MovesKeepGenerations
       DEF Quarantine, ResponseLive
  <2>2. CASE GenerationEnds(t)
    <3>1. /\ turns[t].gen = generation_id
          /\ \A u \in Turns : turns'[u].gen = turns[u].gen
                               /\ (turns'[u].at = "none" <=> turns[u].at = "none")
      BY <1>30, <2>2 DEF Quarantine, GenerationEnds, IsCurrent, TypeInv, TypeOK, TurnRecord
    <3> QED
      BY <1>1, <1>30, <2>2, <3>1, EndsKeepGenerations DEF Quarantine, GenerationEnds, Cleared
  <2> QED
    BY <1>30, <2>1, <2>2 DEF Quarantine
<1> QED
  BY <1>2, <1>3, <1>4, <1>5, <1>6, <1>7, <1>8, <1>9, <1>10, <1>11, <1>12, <1>13, <1>14, <1>15, <1>16, <1>17, <1>18, <1>19, <1>20, <1>21, <1>22, <1>23, <1>24, <1>25, <1>26, <1>27, <1>28, <1>29, <1>30 DEF ResponseStep

LEMMA SpeechKeepsGenerations ==
  ASSUME TypeInv, GenerationInv, NEW t \in Turns, SpeechStep(t)
  PROVE  GenerationInv'
<1> USE DEF session, locks, responses, environment, history
<1>1. speech[t].at # "none" /\ \A u \in Turns : speech'[u].at # "none" => speech[u].at # "none"
  BY DEF SpeechStep, GetPhrase, Speak, SpeakingShown, Media, MediaTimesOut, MediaShown,
         SpeechUnheard, MediaClosed, SpeechGoes, SpeechRaises, LoopAt, TypeInv, TypeOK,
         SpeechRecord
<1>2. turns[t].at # "none"
  BY <1>1 DEF GenerationInv, Begun
<1>3. heardLate' = {}
  BY <1>2, NothingLate
     DEF SpeechStep, GetPhrase, Speak, SpeakingShown, Media, MediaTimesOut, MediaShown,
         SpeechUnheard, MediaClosed, GenerationInv
<1>4. UNCHANGED <<turns, response_task, turn_id, generation_id, cleared>>
  BY DEF SpeechStep, GetPhrase, Speak, SpeakingShown, Media, MediaTimesOut, MediaShown,
         SpeechUnheard, MediaClosed
<1> QED
  BY <1>1, <1>3, <1>4 DEF GenerationInv, Begun, ClearedIsPast, OneOwner, ResponseLive

(* Steps that leave the turns alone. *)
LEMMA OthersKeepGenerations ==
  ASSUME TypeInv, GenerationInv,
         cleared' = cleared \/ cleared' < generation_id,
         UNCHANGED <<turns, response_task, turn_id, generation_id, speech, heardLate>>
  PROVE  GenerationInv'
  BY DEF GenerationInv, Begun, ClearedIsPast, OneOwner, ResponseLive

LEMMA GatewayKeepsGenerations ==
  ASSUME TypeInv, GenerationInv, GatewayStep
  PROVE  GenerationInv'
<1> USE DEF session, locks, responses, environment, history
<1>1. CASE Started \/ FrameDecided \/ ErrorShown \/ BargeIn \/ UserSpeaks \/ CancelAnswered
            \/ Returned \/ Interrupted \/ CloseUnheard \/ Reaped
  BY <1>1, OthersKeepGenerations
     DEF Started, FrameDecided, ErrorShown, BargeIn, UserSpeaks, CancelAnswered, Returned,
         Interrupted, CloseUnheard, Reaped
<1>2. CASE Stopped
  <2>1. cleared' = cleared \/ cleared' < generation_id
    BY <1>2 DEF Stopped, Cleared, TypeInv, TypeOK
  <2> QED
    BY <1>2, <2>1, OthersKeepGenerations DEF Stopped
<1>3. CASE TakeTurnLock
  <2>1. CASE UNCHANGED <<generation_id, responses, cleared>>
    BY <1>3, <2>1, OthersKeepGenerations DEF TakeTurnLock
  <2>2. CASE \E operation \in Operations : CancelActive(operation)
    <3>1. \A u \in Turns : turns'[u].gen = turns[u].gen
                           /\ (turns'[u].at = "none" <=> turns[u].at = "none")
      <4> TAKE u \in Turns
      <4>1. turns'[u] = [turns[u] EXCEPT
               !.cancel = IF u = turn_id THEN TRUE ELSE @,
               !.at = IF u = response_task THEN CancelledAt(u) ELSE @]
        BY <2>2, CancelActiveTurns
      <4>2. turns[u] \in TurnRecord
        BY DEF TypeInv, TypeOK
      <4>3. turns'[u].at = IF u = response_task THEN CancelledAt(u) ELSE turns[u].at
        BY <4>1, <4>2 DEF TurnRecord
      <4>4. turns'[u].gen = turns[u].gen
        BY <4>1, <4>2 DEF TurnRecord
      <4> QED
        BY <4>3, <4>4, RunningTasksStay
    <3>2. CASE generation_id = 0
      <4>1. \A u \in Turns : turns[u].at = "none"
        BY <3>2 DEF GenerationInv, Begun, TypeInv, TypeOK, TurnRecord
      <4>2. generation_id' = generation_id /\ response_task' = 0 /\ cleared' = cleared
        BY <2>2, <3>2 DEF CancelActive, Cleared, TypeInv, TypeOK
      <4>3. \A u \in Turns : turns'[u].at = "none" /\ speech'[u].at = "none"
        BY <1>3, <3>1, <4>1 DEF TakeTurnLock, GenerationInv, Begun
      <4>4. Begun' /\ ClearedIsPast'
        BY <3>1, <4>2, <4>3 DEF GenerationInv, Begun, ClearedIsPast
      <4>5. \A u \in Turns : u < turn_id => turn_id \in Turns
        BY DEF TypeInv, TypeOK, Turns
      <4>6. OneOwner'
        BY <1>3, <3>1, <4>2, <4>3, <4>5 DEF TakeTurnLock, GenerationInv, OneOwner, ResponseLive
      <4> QED
        BY <1>3, <4>4, <4>6 DEF TakeTurnLock, GenerationInv
    <3>3. CASE generation_id # 0
      <4>1. /\ generation_id' = generation_id + 1 /\ response_task' = 0
            /\ cleared' \in {cleared, generation_id}
        BY <2>2, <3>3 DEF CancelActive, Cleared
      <4>2. response_task' \in {0, response_task} /\ heardLate' = {}
        BY <1>3, <4>1 DEF TakeTurnLock, GenerationInv
      <4> QED
        BY <1>3, <3>1, <4>1, <4>2, EndsKeepGenerations DEF TakeTurnLock
    <3> QED
      BY <3>2, <3>3
  <2>3. gateway.op \in Operations /\ "revoked" \in Operations
    BY DEF TypeInv, TypeOK, GatewayRecord, Operations
  <2> QED
    BY <1>3, <2>1, <2>2, <2>3 DEF TakeTurnLock
<1>4. CASE BeginTurn
  <2>1. turn_id + 1 \in Turns /\ turn_id \in Nat /\ generation_id \in Nat /\ cleared \in Nat
    BY <1>4 DEF BeginTurn, TypeInv, TypeOK, TurnsLeft, Turns
  <2>2. /\ \A u \in Turns : u # turn_id + 1 => turns'[u] = turns[u]
        /\ turns'[turn_id + 1].gen = generation_id + 1
        /\ turns'[turn_id + 1].at = "new"
    BY <1>4, <2>1 DEF BeginTurn, TypeInv, TypeOK
  <2>3. \A u \in Turns : turns[u].gen \in Nat /\ u \in Nat
    BY DEF TypeInv, TypeOK, TurnRecord, Turns
  <2>4. turn_id' = turn_id + 1 /\ generation_id' = generation_id + 1 /\ speech' = speech
        /\ response_task' = turn_id + 1 /\ cleared' = cleared /\ heardLate' = heardLate
    BY <1>4 DEF BeginTurn
  <2>5. Begun'
    BY <2>1, <2>2, <2>3, <2>4 DEF GenerationInv, Begun
  <2>6. ClearedIsPast'
    BY <2>1, <2>4 DEF GenerationInv, ClearedIsPast
  <2>7. OneOwner'
    BY <2>1, <2>2, <2>3, <2>4 DEF GenerationInv, Begun, OneOwner
  <2> QED
    BY <2>4, <2>5, <2>6, <2>7 DEF GenerationInv
<1>5. CASE CancelRetired
  <2>1. CASE UNCHANGED <<responses, speech>>
    BY <1>5, <2>1, OthersKeepGenerations DEF CancelRetired
  <2>2. CASE TasksCancelled(RetiredResponses, RetiredSpeech) /\ UNCHANGED response_task
    <3>1. RetiredResponses \subseteq Turns /\ RetiredSpeech \subseteq Turns
      BY DEF RetiredResponses, RetiredSpeech
    <3>2. \A u \in Turns :
            /\ turns'[u].gen = turns[u].gen /\ turns'[u].cancel = turns[u].cancel
            /\ turns'[u].at = "none" <=> turns[u].at = "none"
            /\ ResponseLive(u)' => ResponseLive(u)
      <4> TAKE u \in Turns
      <4>1. turns'[u] = [turns[u] EXCEPT
                            !.at = IF u \in RetiredResponses THEN CancelledAt(u) ELSE @]
        BY <2>2, <3>1, TasksCancelledTurns
      <4>2. turns[u] \in TurnRecord
        BY DEF TypeInv, TypeOK
      <4>3. /\ turns'[u].at = IF u \in RetiredResponses THEN CancelledAt(u) ELSE turns[u].at
            /\ turns'[u].gen = turns[u].gen /\ turns'[u].cancel = turns[u].cancel
        BY <4>1, <4>2 DEF TurnRecord
      <4>4. u \in RetiredResponses => ResponseLive(u)
        BY DEF RetiredResponses
      <4> QED
        BY <4>3, <4>4, RunningTasksStay DEF ResponseLive
    <3>3. \A u \in Turns : speech'[u].at = "none" <=> speech[u].at = "none"
      <4> TAKE u \in Turns
      <4>1. speech'[u] = [speech[u] EXCEPT
                             !.at = IF u \in RetiredSpeech THEN SpeechCancelledAt(u) ELSE @]
        BY <2>2, <3>1, TasksCancelledTurns
      <4>2. speech[u] \in SpeechRecord
        BY DEF TypeInv, TypeOK
      <4>3. speech'[u].at = IF u \in RetiredSpeech THEN SpeechCancelledAt(u) ELSE speech[u].at
        BY <4>1, <4>2 DEF SpeechRecord
      <4> QED
        BY <4>3, RunningTasksStay
    <3>4. \A u \in Turns : u < turn_id => turn_id \in Turns
      BY DEF TypeInv, TypeOK, Turns
    <3>5. UNCHANGED <<turn_id, generation_id, cleared, heardLate, response_task>>
      BY <1>5, <2>2 DEF CancelRetired
    <3>6. Begun' /\ ClearedIsPast'
      BY <3>2, <3>3, <3>5 DEF GenerationInv, Begun, ClearedIsPast
    <3>7. OneOwner'
      BY <3>2, <3>4, <3>5 DEF GenerationInv, OneOwner
    <3> QED
      BY <3>5, <3>6, <3>7 DEF GenerationInv
  <2> QED
    BY <1>5, <2>1, <2>2 DEF CancelRetired
<1> QED
  BY <1>1, <1>2, <1>3, <1>4, <1>5 DEF GatewayStep

LEMMA StepKeepsGenerations ==
  TypeInv /\ GenerationInv /\ [Next]_vars => GenerationInv'
<1> SUFFICES ASSUME TypeInv, GenerationInv, [Next]_vars PROVE GenerationInv'
  OBVIOUS
<1> USE DEF session, locks, responses, environment, history
<1>1. CASE UNCHANGED vars
  BY <1>1, OthersKeepGenerations DEF vars
<1>2. CASE Client \/ LeaveFailedTransport \/ Environment
  BY <1>2, OthersKeepGenerations
     DEF LeaveFailedTransport, Client, Start, Frame, SubmitText, Cancel, Input, Leave,
         Environment, ConsumerStalls, ConsumerRecovers, ConsumerGone, Revoke
<1>3. CASE System
  BY <1>2, <1>3, ResponseKeepsGenerations, SpeechKeepsGenerations, GatewayKeepsGenerations
     DEF System
<1> QED
  BY <1>1, <1>2, <1>3 DEF Next

LEMMA GenerationsAlways == Spec => [](TypeInv /\ GenerationInv)
<1>1. Init => TypeInv /\ GenerationInv
  BY InitType, InitGenerations
<1>2. TypeInv /\ GenerationInv /\ [Next]_vars => (TypeInv /\ GenerationInv)'
  BY StepKeepsType, StepKeepsGenerations
<1> QED
  BY <1>1, <1>2, PTL DEF Spec

(* No text or media of a generation reaches the client once playout.clear has named
   it, whatever task emits it and however late it was cancelled. *)
THEOREM NothingStaleCorrect == Spec => []NothingStaleIsHeard
<1>1. GenerationInv => NothingStaleIsHeard
  BY DEF GenerationInv, NothingStaleIsHeard
<1> QED
  BY <1>1, GenerationsAlways, PTL

(* At most one turn answers: the newest, by the response task the session can
   cancel. *)
THEOREM OneCurrentTurnCorrect == Spec => []OneCurrentTurn
<1>1. TypeInv /\ GenerationInv => OneCurrentTurn
  <2> SUFFICES ASSUME TypeInv, GenerationInv, NEW t \in Turns, IsCurrent(t), ResponseLive(t)
               PROVE  t = turn_id /\ response_task = t
    BY DEF OneCurrentTurn
  <2>1. t <= turn_id /\ turns[t].gen = generation_id /\ ~turns[t].cancel
    BY DEF GenerationInv, Begun, ResponseLive, IsCurrent
  <2>2. turn_id \in Turns /\ turns[turn_id].gen <= generation_id
    BY <2>1 DEF TypeInv, TypeOK, Turns, GenerationInv, Begun
  <2>3. ~(t < turn_id)
    BY <2>1, <2>2 DEF GenerationInv, OneOwner, TypeInv, TypeOK, TurnRecord
  <2>4. t = turn_id
    BY <2>1, <2>2, <2>3 DEF Turns
  <2> QED
    BY <2>1, <2>4 DEF GenerationInv, OneOwner
<1> QED
  BY <1>1, GenerationsAlways, PTL

-----------------------------------------------------------------------------
(* The state a client is told: an inductive invariant *)

(* No turn that has begun may still answer. *)
Vacant == \A t \in Turns : turns[t].at # "none" => ~IsCurrent(t)

(* The states in which an utterance is collected and its transcription begins,
   and those of an answer. *)
Quiet == state \in {"listening", "user_speaking", "closed"}
Answering == state \in {"thinking", "speaking"}

(* Nothing has moved the session back to LISTENING under a turn that answers. *)
Clean == faults \cap {"vad", "adapter"} = {}

AnsweringAt == {"thinkSent", "llm", "deltaSent", "put", "end", "finalSent", "join"}

(* The worker of turn t has a phrase, or one to get. *)
Speaks(t) ==
  \/ speech[t].at \in {"speak", "speakSent", "media", "mediaSent"}
  \/ speech[t].at = "get" /\ speech[t].queued > 0

(* Who holds the turn lock where the code gives it back without looking. *)
LockInv ==
  /\ gateway.at \in {"startSent", "stopping", "clearSent"} => turn_lock = Gateway
  /\ gateway.at = "stateSent" /\ gateway.op = "close"
       => turn_lock = Gateway /\ state = "closed"
  /\ \A u \in Turns :
       turns[u].at \in {"abortSent", "abortIdle", "quarantineState"}
         => turn_lock = Response(u)

(* What the receive loop may be doing in which phase of the session. *)
PhaseInv ==
  /\ consumer = "slow" => "slow" \in faults
  /\ gateway.op = "close" => gateway.at \in {"leaving", "stopping", "clearSent", "stateSent",
                                             "retiring", "reaping", "closed"}
  /\ gateway.at = "leaving" => gateway.op = "close"
  /\ gateway.at = "userState" => gateway.op = "barge_in"
  /\ gateway.at \in {"retiring", "reaping"} => state = "closed"
  /\ state = "ready" => turn_id = 0 /\ (gateway.at = "ready" \/ gateway.op = "close")
  /\ gateway.op = "audio" => ~speech_active
  /\ gateway.op = "barge_in" /\ gateway.at \in {"lock", "stopping", "clearSent", "userState"}
       => speech_active

(* Where the session changes its state whatever a turn is doing, no turn is. *)
VacantInv ==
  /\ gateway.at \in {"stopping", "clearSent", "userState"} => Vacant
  /\ gateway.op = "audio" /\ gateway.at = "lock" => Vacant
  /\ gateway.at = "errSent" /\ "vad" \notin faults => Vacant
  /\ \A u \in Turns : turn_lock = Response(u) => Vacant
  /\ speech_active /\ gateway.op # "close" /\ ~(gateway.op = "barge_in" /\ gateway.at = "lock")
       => Vacant

(* An utterance is collected, and handed to its turn, in a state that the table
   lets go on to TRANSCRIBING. *)
QuietInv ==
  /\ /\ speech_active /\ gateway.op # "close"
     /\ ~(gateway.op = "barge_in" /\ gateway.at \in {"lock", "stopping", "clearSent", "userState"})
     => Quiet
  /\ gateway.op = "audio" /\ gateway.at \in {"lock", "stopping", "clearSent"} => Quiet
  /\ \A t \in Turns : IsCurrent(t) /\ turns[t].at = "new" /\ turns[t].kind = "audio" => Quiet

(* While a turn answers, or its worker has something to say, the state is that of
   an answer; a response that reports its end has no worker left. *)
AnswerInv ==
  \A t \in Turns :
    /\ response_task = t => turns[t].at # "none" /\ turns[t].gen = generation_id
    /\ turns[t].at # "none" /\ turns[t].gen = generation_id => ~turns[t].cancel
    /\ turns[t].at \in TranscribingAt => speech[t].at = "none"
    /\ speech[t].at = "none" => speech[t].queued = 0 /\ turns[t].at \notin {"think"} \cup AnsweringAt
    /\ Clean /\ IsCurrent(t) /\ (turns[t].at \in AnsweringAt \/ Speaks(t)) => Answering
    /\ Clean /\ turns[t].at \in {"metricsSent", "failSent"} => speech[t].at \in {"none", "done"}

(* Somebody is about to take the session out of USER_SPEAKING. *)
UserTaken ==
  \/ speech_active \/ response_task # 0 \/ turn_id = max_turns
  \/ consumer = "gone" \/ "slow" \in faults
  \/ gateway.op = "close" \/ gateway.at \in {"errSent", "stopping", "clearSent"}
  \/ gateway.op = "audio" /\ gateway.at = "lock"
  \/ \E u \in Turns : turns[u].at \in {"abortSent", "quarantineState"} /\ turn_lock = Response(u)

UserInv ==
  /\ \A t \in Turns : response_task = t /\ state = "user_speaking"
                        => turns[t].at \in {"new", "think", "abort"}
  /\ state = "user_speaking" => UserTaken

StateInv ==
  LockInv /\ PhaseInv /\ VacantInv /\ QuietInv /\ AnswerInv /\ UserInv /\ TableIsRespected

(* A session that has just been constructed is in order. *)
LEMMA InitState == Init => StateInv
<1> SUFFICES ASSUME Init PROVE StateInv
  OBVIOUS
<1> USE DEF Init
<1>1. LockInv /\ PhaseInv
  BY DEF LockInv, PhaseInv
<1>2. VacantInv /\ QuietInv
  BY DEF VacantInv, QuietInv, Vacant, Nobody, Response
<1>3. AnswerInv
  BY DEF AnswerInv, TranscribingAt, AnsweringAt, Speaks, Turns
<1>4. UserInv /\ TableIsRespected
  BY DEF UserInv, TableIsRespected
<1> QED
  BY <1>1, <1>2, <1>3, <1>4 DEF StateInv

(* The owners of a lock are told apart. *)
LEMMA OwnersDiffer ==
  /\ Gateway # Nobody
  /\ \A t \in Turns : Response(t) # Nobody /\ Response(t) # Gateway
  /\ \A t, u \in Turns : Response(t) = Response(u) => t = u
  BY DEF Gateway, Nobody, Response

(* A turn of the present generation is the newest one, and the session has its
   response task while it runs. *)
LEMMA CurrentIsNewest ==
  ASSUME TypeInv, GenerationInv, NEW t \in Turns, turns[t].at # "none",
         turns[t].gen = generation_id
  PROVE  /\ t = turn_id
         /\ ~turns[t].cancel /\ ResponseLive(t) => response_task = t
<1>1. t <= turn_id /\ t \in Nat /\ turn_id \in Nat
  BY DEF GenerationInv, Begun, TypeInv, TypeOK, Turns
<1>2. turn_id \in Turns
  BY <1>1 DEF TypeInv, TypeOK, Turns
<1>3. turns[turn_id].gen <= generation_id /\ turns[turn_id].gen \in Nat /\ generation_id \in Nat
  BY <1>2 DEF GenerationInv, Begun, TypeInv, TypeOK, TurnRecord
<1>4. t < turn_id => turns[t].gen < turns[turn_id].gen
  BY DEF GenerationInv, OneOwner
<1>5. t = turn_id
  BY <1>1, <1>3, <1>4
<1> QED
  BY <1>5 DEF GenerationInv, OneOwner

(* A response's task moves on without a change of state: what the invariant asks
   of the place it moves to. *)
LEMMA MovesKeepState ==
  ASSUME TypeInv, GenerationInv, StateInv, NEW t \in Turns, ResponseLive(t), TaskMoves(t),
         \A u \in Turns : turns'[u].kind = turns[u].kind,
         \A u \in Turns : u # t => speech'[u] = speech[u],
         UNCHANGED <<state, turn_id, generation_id, speech_active, gateway, consumer>>,
         faults \subseteq faults', "table" \in faults' => "table" \in faults,
         turn_lock' = turn_lock \/ (turn_lock = Response(t) /\ turn_lock' = Nobody),
         turns'[t].at \notin {"none", "new", "abortSent", "abortIdle", "quarantineState"},
         turns[t].at \in {"abortSent", "quarantineState"} => consumer # "ok" \/ state = "closed",
         turns'[t].at \in TranscribingAt => speech'[t].at = "none",
         speech'[t].at = "none" => speech'[t].queued = 0
                                     /\ turns'[t].at \notin {"think"} \cup AnsweringAt,
         Clean' /\ IsCurrent(t) /\ (turns'[t].at \in AnsweringAt \/ Speaks(t)') => Answering,
         Clean' /\ turns'[t].at \in {"metricsSent", "failSent"}
           => speech'[t].at \in {"none", "done"},
         response_task = t /\ state = "user_speaking" => turns'[t].at \in {"think", "abort"}
  PROVE  StateInv'
<1>1. /\ \A u \in Turns : IsCurrent(u)' <=> IsCurrent(u)
      /\ \A u \in Turns : turns'[u].at # "none" <=> turns[u].at # "none"
      /\ \A u \in Turns : u # t => turns'[u].at = turns[u].at /\ (Speaks(u)' <=> Speaks(u))
  BY DEF TaskMoves, IsCurrent, ResponseLive, Speaks
<1>2. (Vacant' <=> Vacant) /\ (Quiet' <=> Quiet) /\ (Answering' <=> Answering)
  BY <1>1 DEF Vacant, Quiet, Answering
<1>3. Clean' => Clean
  BY DEF Clean
<1>4. LockInv'
  BY <1>1, OwnersDiffer DEF StateInv, LockInv
<1>5. PhaseInv'
  BY DEF StateInv, PhaseInv
<1>6. VacantInv'
  BY <1>2, OwnersDiffer DEF StateInv, VacantInv
<1>7. QuietInv'
  BY <1>1, <1>2 DEF StateInv, QuietInv
<1>8. AnswerInv'
  <2> SUFFICES ASSUME NEW u \in Turns
               PROVE  /\ response_task' = u => turns'[u].at # "none" /\ turns'[u].gen = generation_id'
                      /\ turns'[u].at # "none" /\ turns'[u].gen = generation_id' => ~turns'[u].cancel
                      /\ turns'[u].at \in TranscribingAt => speech'[u].at = "none"
                      /\ speech'[u].at = "none" => /\ speech'[u].queued = 0
                                                    /\ turns'[u].at \notin {"think"} \cup AnsweringAt
                      /\ Clean' /\ IsCurrent(u)' /\ (turns'[u].at \in AnsweringAt \/ Speaks(u)')
                           => Answering'
                      /\ Clean' /\ turns'[u].at \in {"metricsSent", "failSent"}
                           => speech'[u].at \in {"none", "done"}
    BY DEF AnswerInv
  <2>1. AnswerInv
    BY DEF StateInv
  <2>2. response_task' = u => response_task = u
    BY DEF TaskMoves, Turns
  <2>3. turns'[u].gen = turns[u].gen /\ turns'[u].cancel = turns[u].cancel
    BY DEF TaskMoves
  <2>4. CASE u = t
    BY <1>1, <1>2, <2>1, <2>2, <2>3, <2>4 DEF AnswerInv
  <2>5. CASE u # t
    BY <1>1, <1>2, <1>3, <2>1, <2>2, <2>3, <2>5 DEF AnswerInv
  <2> QED
    BY <2>4, <2>5
<1>9. UserInv'
  <2>1. \A u \in Turns : response_task' = u /\ state' = "user_speaking"
                           => turns'[u].at \in {"new", "think", "abort"}
    BY <1>1 DEF StateInv, UserInv, TaskMoves, Turns
  <2>2. ASSUME state = "user_speaking" PROVE UserTaken'
    <3>1. UserTaken
      BY <2>2 DEF StateInv, UserInv
    <3>2. response_task # 0 => response_task' # 0
      BY <2>2 DEF TaskMoves
    <3>3. consumer \in {"ok", "slow", "gone"} /\ (consumer = "slow" => "slow" \in faults)
      BY DEF TypeInv, TypeOK, StateInv, PhaseInv
    <3>4. ASSUME NEW u \in Turns, turns[u].at \in {"abortSent", "quarantineState"},
                 turn_lock = Response(u)
          PROVE  UserTaken'
      <4>1. CASE u = t
        BY <2>2, <3>3, <3>4, <4>1 DEF UserTaken
      <4>2. CASE u # t
        BY <1>1, <3>4, <4>2, OwnersDiffer DEF UserTaken
      <4> QED
        BY <4>1, <4>2
    <3> QED
      BY <3>1, <3>2, <3>4 DEF UserTaken
  <2> QED
    BY <2>1, <2>2 DEF UserInv
<1>10. TableIsRespected'
  BY DEF StateInv, TableIsRespected
<1> QED
  BY <1>4, <1>5, <1>6, <1>7, <1>8, <1>9, <1>10 DEF StateInv

(* A response enters a state of its turn, which is current. *)
LEMMA EntersKeepState ==
  ASSUME TypeInv, GenerationInv, StateInv, NEW t \in Turns, ResponseLive(t), TaskMoves(t),
         IsCurrent(t), state' \in {"transcribing", "thinking", "listening"},
         UNCHANGED <<turn_id, generation_id, speech_active, turn_lock, speech, gateway,
                     consumer, faults>>,
         \/ state' = "transcribing" /\ turns'[t].at = "trSent" /\ speech[t].at = "none"
         \/ state' = "thinking" /\ turns'[t].at = "thinkSent" /\ turns[t].at = "think"
         \/ /\ state' = "listening" /\ turns'[t].at \in {"failedIdle", "idleSent"}
            /\ Clean => speech[t].at \in {"none", "done"}
  PROVE  StateInv'
<1>1. /\ \A u \in Turns : turns'[u].at # "none" <=> turns[u].at # "none"
      /\ \A u \in Turns : u # t => turns'[u].at = turns[u].at
      /\ \A u \in Turns : turns'[u].gen = turns[u].gen /\ turns'[u].cancel = turns[u].cancel
  BY DEF TaskMoves, ResponseLive
<1>2. turns[t].at # "none" /\ ~Vacant /\ state # "closed"
  BY DEF ResponseLive, Vacant, IsCurrent
<1>3. \A u \in Turns : IsCurrent(u)' => IsCurrent(u)
  BY <1>1, <1>2 DEF IsCurrent
<1>4. ASSUME NEW u \in Turns, turns'[u].at # "none", IsCurrent(u)' PROVE u = t
  BY <1>1, <1>3, <1>4, CurrentIsNewest DEF IsCurrent, ResponseLive
<1>5. LockInv'
  BY <1>1, <1>2 DEF StateInv, LockInv
<1>6. PhaseInv'
  BY <1>2 DEF StateInv, PhaseInv
<1>7. VacantInv'
  BY <1>2 DEF StateInv, VacantInv
<1>8. QuietInv'
  <2>1. VacantInv
    BY DEF StateInv
  <2>2. \A u \in Turns : ~(IsCurrent(u)' /\ turns'[u].at = "new" /\ turns'[u].kind = "audio")
    BY <1>4
  <2> QED
    BY <1>2, <2>1, <2>2 DEF QuietInv, VacantInv
<1>9. AnswerInv'
  <2> SUFFICES ASSUME NEW u \in Turns
               PROVE  /\ response_task' = u => turns'[u].at # "none" /\ turns'[u].gen = generation_id'
                      /\ turns'[u].at # "none" /\ turns'[u].gen = generation_id' => ~turns'[u].cancel
                      /\ turns'[u].at \in TranscribingAt => speech'[u].at = "none"
                      /\ speech'[u].at = "none" => /\ speech'[u].queued = 0
                                                    /\ turns'[u].at \notin {"think"} \cup AnsweringAt
                      /\ Clean' /\ IsCurrent(u)' /\ (turns'[u].at \in AnsweringAt \/ Speaks(u)')
                           => Answering'
                      /\ Clean' /\ turns'[u].at \in {"metricsSent", "failSent"}
                           => speech'[u].at \in {"none", "done"}
    BY DEF AnswerInv
  <2>1. AnswerInv
    BY DEF StateInv
  <2>2. response_task' = u => response_task = u
    BY DEF TaskMoves, Turns
  <2>3. Clean' = Clean /\ Speaks(u)' = Speaks(u)
    BY DEF Clean, Speaks
  <2>4. CASE u = t
    <3>1. speech[u].at \in {"none", "done"} => ~Speaks(u)
      BY DEF Speaks
    <3>2. Clean' /\ IsCurrent(u)' /\ (turns'[u].at \in AnsweringAt \/ Speaks(u)') => Answering'
      BY <2>3, <2>4, <3>1 DEF Answering, AnsweringAt
    <3> QED
      BY <1>1, <2>1, <2>2, <2>4, <3>2 DEF AnswerInv, TranscribingAt, AnsweringAt
  <2>5. CASE u # t
    <3>1. Clean' /\ IsCurrent(u)' /\ (turns'[u].at \in AnsweringAt \/ Speaks(u)') => Answering'
      <4>1. Speaks(u) => speech[u].at # "none"
        BY DEF Speaks
      <4>2. Speaks(u) => turns[u].at # "none"
        BY <4>1 DEF GenerationInv, Begun
      <4> QED
        BY <1>1, <1>4, <2>3, <2>5, <4>2 DEF AnsweringAt
    <3> QED
      BY <1>1, <2>1, <2>2, <2>3, <2>5, <3>1 DEF AnswerInv
  <2> QED
    BY <2>4, <2>5
<1>10. UserInv'
  BY DEF UserInv
<1>11. TableIsRespected'
  BY DEF StateInv, TableIsRespected
<1> QED
  BY <1>5, <1>6, <1>7, <1>8, <1>9, <1>10, <1>11 DEF StateInv

(* The session ends the generation of a turn: nothing is current any more. *)
LEMMA EndKeepsState ==
  ASSUME TypeInv, GenerationInv, StateInv, NEW t \in Turns, ResponseLive(t),
         turns[t].gen = generation_id, turn_lock = Nobody, GenerationEnds(t),
         NEW p \in {"abortSent", "quarantineState"},
         turns' = [turns EXCEPT ![t].cancel = TRUE, ![t].at = p],
         UNCHANGED <<state, turn_id, speech_active, speech, gateway, consumer, faults>>
  PROVE  StateInv'
<1>1. turns[t].at # "none" /\ ~turns[t].cancel /\ t = turn_id /\ response_task = t
  BY CurrentIsNewest DEF ResponseLive, StateInv, AnswerInv
<1>2. response_task' = 0 /\ generation_id' = generation_id + 1 /\ turn_lock' = Response(t)
  BY <1>1 DEF GenerationEnds
<1>3. /\ \A u \in Turns : turns'[u].gen = turns[u].gen
      /\ \A u \in Turns : u # t => turns'[u] = turns[u]
      /\ turns'[t].at = p
  BY DEF TypeInv, TypeOK, TurnRecord
<1>4. \A u \in Turns : turns'[u].gen # generation_id'
  <2>1. \A u \in Turns : turns[u].gen \in Nat /\ generation_id \in Nat /\ turns[u].gen <= generation_id
    BY DEF TypeInv, TypeOK, TurnRecord, GenerationInv, Begun
  <2>2. ASSUME NEW u \in Turns, turns'[u].gen = generation_id' PROVE FALSE
    <3>1. turns[u].gen = generation_id + 1
      BY <1>2, <1>3, <2>2, Zenon
    <3> QED
      BY <2>1, <3>1
  <2> QED
    BY <2>2
<1>5. Vacant' /\ \A u \in Turns : ~IsCurrent(u)'
  BY <1>4 DEF Vacant, IsCurrent
<1>6. LockInv'
  BY <1>2, <1>3, OwnersDiffer DEF StateInv, LockInv
<1>7. PhaseInv'
  BY DEF StateInv, PhaseInv
<1>8. VacantInv'
  BY <1>5 DEF VacantInv
<1>9. QuietInv'
  BY <1>5 DEF StateInv, QuietInv, Quiet
<1>10. AnswerInv'
  <2>1. AnswerInv
    BY DEF StateInv
  <2>2. \A u \in Turns : response_task' # u
    BY <1>2 DEF Turns
  <2>3. Clean' = Clean
    BY DEF Clean
  <2>4. \A u \in Turns : /\ turns'[u].at \in TranscribingAt => turns[u].at \in TranscribingAt
                         /\ turns'[u].at \in {"metricsSent", "failSent"} => turns'[u].at = turns[u].at
                         /\ turns'[u].at \in {"think"} \cup AnsweringAt => turns'[u].at = turns[u].at
    BY <1>3 DEF TranscribingAt, AnsweringAt
  <2> QED
    BY <1>4, <1>5, <2>1, <2>2, <2>3, <2>4 DEF AnswerInv
<1>11. UserInv'
  <2>1. UserTaken'
    BY <1>2, <1>3 DEF UserTaken
  <2> QED
    BY <1>2, <2>1 DEF UserInv, Turns
<1>12. TableIsRespected'
  BY DEF StateInv, TableIsRespected
<1> QED
  BY <1>6, <1>7, <1>8, <1>9, <1>10, <1>11, <1>12 DEF StateInv

(* A response that ended its generation shows LISTENING, or closes the session. *)
LEMMA ShownKeepsState ==
  ASSUME TypeInv, GenerationInv, StateInv, NEW t \in Turns, ResponseLive(t), TaskMoves(t),
         turn_lock = Response(t),
         \/ state' = "listening" /\ state # "closed" /\ turns'[t].at = "abortIdle" /\ turn_lock' = turn_lock
         \/ /\ state' = "closed" /\ turn_lock' = Nobody
            /\ turns'[t].at \in {"done", "closeStream", "stopSpeech"},
         UNCHANGED <<turn_id, generation_id, speech_active, speech, gateway, consumer, faults>>
  PROVE  StateInv'
<1>1. /\ \A u \in Turns : turns'[u].at # "none" <=> turns[u].at # "none"
      /\ \A u \in Turns : u # t => turns'[u].at = turns[u].at
      /\ \A u \in Turns : turns'[u].gen = turns[u].gen /\ turns'[u].cancel = turns[u].cancel
  BY DEF TaskMoves, ResponseLive
<1>2. Vacant
  BY DEF StateInv, VacantInv
<1>3. Vacant'
  BY <1>1, <1>2 DEF Vacant, IsCurrent
<1>4. LockInv'
  <2>1. gateway.at \notin {"startSent", "stopping", "clearSent"}
        /\ ~(gateway.at = "stateSent" /\ gateway.op = "close")
    BY OwnersDiffer DEF StateInv, LockInv
  <2>2. \A u \in Turns : turns[u].at \in {"abortSent", "abortIdle", "quarantineState"} => u = t
    BY OwnersDiffer DEF StateInv, LockInv
  <2> QED
    BY <1>1, <2>1, <2>2 DEF LockInv
<1>5. PhaseInv'
  <2>1. state # "ready"
    BY DEF StateInv, PhaseInv, TypeInv, TypeOK, GenerationInv, Begun, ResponseLive, Turns
  <2>2. state = "closed" => state' = "closed"
    OBVIOUS
  <2> QED
    BY <2>1, <2>2 DEF StateInv, PhaseInv
<1>6. VacantInv'
  BY <1>3 DEF VacantInv
<1>7. QuietInv'
  BY DEF QuietInv, Quiet
<1>8. AnswerInv'
  <2>1. AnswerInv
    BY DEF StateInv
  <2>2. \A u \in Turns : response_task' = u => response_task = u
    BY DEF TaskMoves, Turns
  <2>3. \A u \in Turns : (turns'[u].at \in AnsweringAt \/ Speaks(u)') => turns'[u].at # "none"
    BY <1>1 DEF AnsweringAt, Speaks, GenerationInv, Begun
  <2>4. Clean' = Clean
    BY DEF Clean
  <2>5. turns'[t].at \notin TranscribingAt \cup AnsweringAt \cup {"think", "metricsSent", "failSent"}
    BY DEF TranscribingAt, AnsweringAt
  <2> QED
    BY <1>1, <1>3, <2>1, <2>2, <2>3, <2>4, <2>5 DEF AnswerInv, Vacant
<1>9. UserInv'
  BY DEF UserInv
<1>10. TableIsRespected'
  BY DEF StateInv, TableIsRespected
<1> QED
  BY <1>4, <1>5, <1>6, <1>7, <1>8, <1>9, <1>10 DEF StateInv

(* Where a response goes on to. *)
LEMMA GoToPlace ==
  ASSUME TypeInv, NEW t \in Turns, NEW p, p # "none", GoTo(t, p)
  PROVE  /\ TaskMoves(t) /\ turns'[t].at = p
         /\ \A u \in Turns : turns'[u].kind = turns[u].kind
<1>1. turns[t] \in TurnRecord /\ turns' = [turns EXCEPT ![t] = [turns[t] EXCEPT !.at = p]]
  BY DEF GoTo, TypeInv, TypeOK
<1>2. \A u \in Turns : turns'[u] = IF u = t THEN [turns[t] EXCEPT !.at = p] ELSE turns[u]
  BY <1>1 DEF TypeInv, TypeOK
<1>3. turns'[t].at = p /\ turns'[t].kind = turns[t].kind
  BY <1>1, <1>2 DEF TurnRecord
<1> QED
  BY <1>2, <1>3, GoToMoves

(* Where the handlers of an interrupted response lead. *)
LEMMA HandlersLeadOn ==
  ASSUME NEW t \in Turns
  PROVE  /\ FinallyAt(t) \in {"done", "closeStream", "stopSpeech"}
         /\ FailAt(t) \in {"failSent", "done", "closeStream", "stopSpeech"}
         /\ RaisedAt(t) \in {"abort", "quarantine", "failSent", "done", "closeStream", "stopSpeech"}
         /\ CancelledAt(t) \in {"cancelling", "none", "done", "closeStream", "stopSpeech"}
         /\ SpeechCancelledAt(t) \in {"none", "closing", "done"}
  BY DEF FinallyAt, FailAt, RaisedAt, CancelledAt, SpeechCancelledAt

(* A response goes on to p, and nothing else changes but the locks it gives back. *)
LEMMA GoToKeepsState ==
  ASSUME TypeInv, GenerationInv, StateInv, NEW t \in Turns, ResponseLive(t),
         NEW p, p \notin {"none", "new", "abortSent", "abortIdle", "quarantineState"}, GoTo(t, p),
         UNCHANGED <<state, turn_id, generation_id, speech_active, speech, gateway, consumer>>,
         faults \subseteq faults', "table" \in faults' => "table" \in faults,
         turn_lock' = turn_lock \/ (turn_lock = Response(t) /\ turn_lock' = Nobody),
         turns[t].at \in {"abortSent", "quarantineState"} => consumer # "ok" \/ state = "closed",
         p \in TranscribingAt => turns[t].at \in TranscribingAt,
         p \in {"think"} \cup AnsweringAt => turns[t].at \in AnsweringAt,
         Clean' /\ p \in {"metricsSent", "failSent"} => speech[t].at \in {"none", "done"},
         turns[t].at \in {"new", "think", "abort"} => p \in {"think", "abort"} \/ ~IsCurrent(t)
  PROVE  StateInv'
<1>1. /\ TaskMoves(t) /\ turns'[t].at = p
      /\ \A u \in Turns : turns'[u].kind = turns[u].kind
  BY GoToPlace
<1>2. AnswerInv /\ UserInv
  BY DEF StateInv
<1>3. speech[t].at = "none" => speech[t].queued = 0 /\ p \notin {"think"} \cup AnsweringAt
  BY <1>2 DEF AnswerInv
<1>4. p \in TranscribingAt => speech[t].at = "none"
  BY <1>2 DEF AnswerInv
<1>5. Clean' /\ IsCurrent(t) /\ (p \in AnsweringAt \/ Speaks(t)') => Answering
  <2>1. (Clean' => Clean) /\ (Speaks(t)' <=> Speaks(t))
    BY DEF Clean, Speaks
  <2> QED
    BY <1>2, <2>1 DEF AnswerInv
<1>6. response_task = t /\ state = "user_speaking" => p \in {"think", "abort"}
  <2>1. response_task = t /\ state = "user_speaking" => IsCurrent(t)
    BY <1>2 DEF AnswerInv, IsCurrent, ResponseLive
  <2> QED
    BY <1>2, <2>1 DEF UserInv
<1>7. UNCHANGED <<state, turn_id, generation_id, speech_active, gateway, consumer>> /\ speech' = speech
  OBVIOUS
<1> QED
  BY <1>1, <1>3, <1>4, <1>5, <1>6, <1>7, MovesKeepState

(* _set_state by a response: a stale turn ends, a current one enters a state that
   the table allows. *)
LEMMA ResponseEntersKeepsState ==
  ASSUME TypeInv, GenerationInv, StateInv, NEW t \in Turns, ResponseLive(t),
         NEW s, NEW p, ResponseEnters(t, s, p),
         turns[t].at \notin {"abortSent", "quarantineState"},
         \/ /\ s = "transcribing" /\ p = "trSent" /\ turns[t].at = "new"
            /\ turns[t].kind = "audio"
         \/ s = "thinking" /\ p = "thinkSent" /\ turns[t].at = "think"
         \/ s = "listening" /\ p = "failedIdle" /\ turns[t].at = "asrSent"
         \/ /\ s = "listening" /\ p \in {"failedIdle", "idleSent"}
            /\ turns[t].at \in {"metricsSent", "failSent"}
  PROVE  StateInv'
<1> USE DEF environment, history
<1>1. CASE ~IsCurrent(t)
  <2>1. GoTo(t, FinallyAt(t)) /\ UNCHANGED faults /\ UNCHANGED state
    BY <1>1 DEF ResponseEnters
  <2>2. UNCHANGED <<state, turn_id, generation_id, speech_active, speech, gateway, consumer>>
        /\ turn_lock' = turn_lock
    BY <2>1 DEF ResponseEnters
  <2>3. FinallyAt(t) \in {"done", "closeStream", "stopSpeech"}
    BY HandlersLeadOn
  <2>4. FinallyAt(t) \notin TranscribingAt \cup AnsweringAt
    BY <2>3 DEF TranscribingAt, AnsweringAt
  <2> QED
    BY <1>1, <2>1, <2>2, <2>3, <2>4, GoToKeepsState
<1>2. CASE IsCurrent(t)
  <2>1. AnswerInv /\ QuietInv /\ PhaseInv
    BY DEF StateInv
  <2>2. state # "closed" /\ state \in States
    BY <1>2 DEF IsCurrent, TypeInv, TypeOK
  <2>3. state # "ready"
    BY <2>1 DEF PhaseInv, TypeInv, TypeOK, GenerationInv, Begun, ResponseLive, Turns
  <2>4. s \in Allowed[state]
    <3>1. CASE s = "transcribing"
      <4>1. Quiet
        BY <1>2, <2>1, <3>1 DEF QuietInv
      <4> QED
        BY <2>2, <3>1, <4>1 DEF Quiet, Allowed
    <3>2. CASE s \in {"thinking", "listening"}
      BY <2>2, <2>3, <3>2 DEF Allowed, States
    <3> QED
      BY <3>1, <3>2
  <2>5. state' = s /\ GoTo(t, p) /\ UNCHANGED faults
    BY <1>2, <2>4 DEF ResponseEnters
  <2>6. TaskMoves(t) /\ turns'[t].at = p
    BY <2>5, GoToPlace
  <2>7. UNCHANGED <<turn_id, generation_id, speech_active, turn_lock, speech, gateway,
                    consumer, faults>>
    BY <2>5 DEF ResponseEnters
  <2>8. turns[t].at \in TranscribingAt => speech[t].at = "none"
    BY <2>1 DEF AnswerInv
  <2>9. Clean /\ turns[t].at \in {"metricsSent", "failSent"} => speech[t].at \in {"none", "done"}
    BY <2>1 DEF AnswerInv
  <2>10. /\ s = "transcribing" => p = "trSent" /\ speech[t].at = "none"
         /\ s = "thinking" => p = "thinkSent" /\ turns[t].at = "think"
         /\ s = "listening" => p \in {"failedIdle", "idleSent"}
                               /\ (Clean => speech[t].at \in {"none", "done"})
         /\ s \in {"transcribing", "thinking", "listening"}
    BY <2>8, <2>9 DEF TranscribingAt
  <2> QED
    BY <1>2, <2>5, <2>6, <2>7, <2>10, EntersKeepState
<1> QED
  BY <1>1, <1>2

(* A response that answers goes on answering. *)
LEMMA AnswersKeepState ==
  ASSUME TypeInv, GenerationInv, StateInv, NEW t \in Turns, ResponseLive(t), TaskMoves(t),
         \A u \in Turns : turns'[u].kind = turns[u].kind,
         turns[t].at \in AnsweringAt, turns'[t].at \in AnsweringAt,
         UNCHANGED <<state, turn_id, generation_id, speech_active, gateway, consumer, speech,
                     faults, turn_lock>>
  PROVE  StateInv'
<1>1. /\ Clean' = Clean /\ (Speaks(t)' <=> Speaks(t))
      /\ speech[t].at # "none"
      /\ Clean /\ IsCurrent(t) => Answering
  BY DEF Clean, Speaks, StateInv, AnswerInv
<1>2. turns'[t].at \notin TranscribingAt \cup {"metricsSent", "failSent", "none", "new", "abortSent",
                                              "abortIdle", "quarantineState"}
  BY DEF TranscribingAt, AnsweringAt
<1>3. turns[t].at \notin {"abortSent", "quarantineState"}
  BY DEF AnsweringAt
<1>4. ~(response_task = t /\ state = "user_speaking")
  BY DEF StateInv, UserInv, AnsweringAt
<1> QED
  BY <1>1, <1>2, <1>3, <1>4, MovesKeepState

(* A fault is counted, and is not the table's. *)
LEMMA FaultsGrow ==
  ASSUME NEW kind, kind # "table", Fault(kind)
  PROVE  /\ faults \subseteq faults' /\ kind \in faults'
         /\ "table" \in faults' => "table" \in faults
  BY DEF Fault

(* Every step of a response, its interruption and its failures included. *)
LEMMA ResponseKeepsState ==
  ASSUME TypeInv, GenerationInv, StateInv, NEW t \in Turns, ResponseStep(t)
  PROVE  StateInv'
<1> USE DEF session, locks, responses, environment, history
<1>0. turns[t].at \in TranscribingAt => speech[t].at = "none"
  BY DEF StateInv, AnswerInv
<1>1. /\ FinallyAt(t) \in {"done", "closeStream", "stopSpeech"}
      /\ FailAt(t) \in {"failSent", "done", "closeStream", "stopSpeech"}
      /\ RaisedAt(t) \in {"abort", "quarantine", "failSent", "done", "closeStream", "stopSpeech"}
  BY HandlersLeadOn
<1>2. CASE TranscribeBegins(t)
  BY <1>2, ResponseEntersKeepsState DEF TranscribeBegins, ResponseLive
<1>3. CASE EmptyTranscript(t)
  BY <1>3, ResponseEntersKeepsState DEF EmptyTranscript, ResponseLive
<1>4. CASE Think(t)
  BY <1>4, ResponseEntersKeepsState DEF Think, ResponseLive
<1>5. CASE Settle(t)
  BY <1>5, ResponseEntersKeepsState DEF Settle, ResponseLive
<1>6. CASE TranscribingShown(t)
  <2> DEFINE p == "asr"
  <2>1. GoTo(t, p) /\ ResponseLive(t)
    BY <1>6 DEF TranscribingShown, ResponseSent, ResponseLive
  <2>2. /\ p \notin {"none", "new", "abortSent", "abortIdle", "quarantineState",
                     "metricsSent", "failSent"}
        /\ p \in TranscribingAt => turns[t].at \in TranscribingAt
        /\ p \in {"think"} \cup AnsweringAt => turns[t].at \in AnsweringAt
    BY <1>1, <1>6 DEF TranscribingShown, ResponseSent, TranscribingAt, AnsweringAt
  <2>3. turns[t].at \notin {"abortSent", "quarantineState", "new", "think", "abort"}
    BY <1>6 DEF TranscribingShown, ResponseSent
  <2> HIDE DEF p
  <2> QED
    BY <1>6, <2>1, <2>2, <2>3, GoToKeepsState DEF TranscribingShown, ResponseSent
<1>7. CASE AsrReturns(t)
  <2> DEFINE p == IF IsCurrent(t) THEN "asrSent" ELSE "done"
  <2>1. GoTo(t, p) /\ ResponseLive(t)
    BY <1>7 DEF AsrReturns, ResponseLive
  <2>2. /\ p \notin {"none", "new", "abortSent", "abortIdle", "quarantineState",
                     "metricsSent", "failSent"}
        /\ p \in TranscribingAt => turns[t].at \in TranscribingAt
        /\ p \in {"think"} \cup AnsweringAt => turns[t].at \in AnsweringAt
    BY <1>1, <1>7 DEF AsrReturns, TranscribingAt, AnsweringAt
  <2>3. turns[t].at \notin {"abortSent", "quarantineState", "new", "think", "abort"}
    BY <1>7 DEF AsrReturns
  <2> HIDE DEF p
  <2> QED
    BY <1>7, <2>1, <2>2, <2>3, GoToKeepsState DEF AsrReturns
<1>8. CASE AdapterFails(t)
  <2> DEFINE p == FailAt(t)
  <2>1. GoTo(t, p) /\ ResponseLive(t)
    BY <1>8 DEF AdapterFails, ResponseLive
  <2>2. /\ p \notin {"none", "new", "abortSent", "abortIdle", "quarantineState"}
        /\ p \in TranscribingAt => turns[t].at \in TranscribingAt
        /\ p \in {"think"} \cup AnsweringAt => turns[t].at \in AnsweringAt
    BY <1>1, <1>8 DEF AdapterFails, TranscribingAt, AnsweringAt
  <2>3. turns[t].at \notin {"abortSent", "quarantineState", "new", "think", "abort"}
    BY <1>8 DEF AdapterFails
  <2>4. faults \subseteq faults' /\ ("table" \in faults' => "table" \in faults) /\ ~Clean'
    BY <1>8, FaultsGrow DEF AdapterFails, Clean
  <2> HIDE DEF p
  <2> QED
    BY <1>8, <2>1, <2>2, <2>3, <2>4, GoToKeepsState DEF AdapterFails
<1>9. CASE AdapterTimesOut(t)
  <2> DEFINE p == "abort"
  <2>1. GoTo(t, p) /\ ResponseLive(t)
    BY <1>9 DEF AdapterTimesOut, ResponseLive
  <2>2. /\ p \notin {"none", "new", "abortSent", "abortIdle", "quarantineState",
                     "metricsSent", "failSent"}
        /\ p \in TranscribingAt => turns[t].at \in TranscribingAt
        /\ p \in {"think"} \cup AnsweringAt => turns[t].at \in AnsweringAt
    BY <1>1, <1>9 DEF AdapterTimesOut, TranscribingAt, AnsweringAt
  <2>3. turns[t].at \notin {"abortSent", "quarantineState", "new", "think", "abort"}
    BY <1>9 DEF AdapterTimesOut
  <2>4. faults \subseteq faults' /\ ("table" \in faults' => "table" \in faults)
    BY <1>9, FaultsGrow DEF AdapterTimesOut
  <2> HIDE DEF p
  <2> QED
    BY <1>9, <2>1, <2>2, <2>3, <2>4, GoToKeepsState DEF AdapterTimesOut
<1>10. CASE DeltaShown(t)
  <2> DEFINE p == "put"
  <2>1. GoTo(t, p) /\ ResponseLive(t)
    BY <1>10 DEF DeltaShown, ResponseSent, ResponseLive
  <2>2. /\ p \notin {"none", "new", "abortSent", "abortIdle", "quarantineState",
                     "metricsSent", "failSent"}
        /\ p \in TranscribingAt => turns[t].at \in TranscribingAt
        /\ p \in {"think"} \cup AnsweringAt => turns[t].at \in AnsweringAt
    BY <1>1, <1>10 DEF DeltaShown, ResponseSent, TranscribingAt, AnsweringAt
  <2>3. turns[t].at \notin {"abortSent", "quarantineState", "new", "think", "abort"}
    BY <1>10 DEF DeltaShown, ResponseSent
  <2> HIDE DEF p
  <2> QED
    BY <1>10, <2>1, <2>2, <2>3, GoToKeepsState DEF DeltaShown, ResponseSent
<1>11. CASE StreamEnds(t)
  <2> DEFINE p == "end"
  <2>1. GoTo(t, p) /\ ResponseLive(t)
    BY <1>11 DEF StreamEnds, ResponseLive
  <2>2. /\ p \notin {"none", "new", "abortSent", "abortIdle", "quarantineState",
                     "metricsSent", "failSent"}
        /\ p \in TranscribingAt => turns[t].at \in TranscribingAt
        /\ p \in {"think"} \cup AnsweringAt => turns[t].at \in AnsweringAt
    BY <1>1, <1>11 DEF StreamEnds, TranscribingAt, AnsweringAt
  <2>3. turns[t].at \notin {"abortSent", "quarantineState", "new", "think", "abort"}
    BY <1>11 DEF StreamEnds
  <2> HIDE DEF p
  <2> QED
    BY <1>11, <2>1, <2>2, <2>3, GoToKeepsState DEF StreamEnds
<1>12. CASE FinalShown(t)
  <2> DEFINE p == "join"
  <2>1. GoTo(t, p) /\ ResponseLive(t)
    BY <1>12 DEF FinalShown, ResponseSent, ResponseLive
  <2>2. /\ p \notin {"none", "new", "abortSent", "abortIdle", "quarantineState",
                     "metricsSent", "failSent"}
        /\ p \in TranscribingAt => turns[t].at \in TranscribingAt
        /\ p \in {"think"} \cup AnsweringAt => turns[t].at \in AnsweringAt
    BY <1>1, <1>12 DEF FinalShown, ResponseSent, TranscribingAt, AnsweringAt
  <2>3. turns[t].at \notin {"abortSent", "quarantineState", "new", "think", "abort"}
    BY <1>12 DEF FinalShown, ResponseSent
  <2> HIDE DEF p
  <2> QED
    BY <1>12, <2>1, <2>2, <2>3, GoToKeepsState DEF FinalShown, ResponseSent
<1>13. CASE WorkerStopped(t)
  <2> DEFINE p == RaisedAt(t)
  <2>1. GoTo(t, p) /\ ResponseLive(t)
    BY <1>13 DEF WorkerStopped, ResponseLive
  <2>2. /\ p \notin {"none", "new", "abortSent", "abortIdle", "quarantineState"}
        /\ p \in TranscribingAt => turns[t].at \in TranscribingAt
        /\ p \in {"think"} \cup AnsweringAt => turns[t].at \in AnsweringAt
    BY <1>1, <1>13 DEF WorkerStopped, TranscribingAt, AnsweringAt
  <2>3. turns[t].at \notin {"abortSent", "quarantineState", "new", "think", "abort"}
    BY <1>13 DEF WorkerStopped
  <2>4. speech[t].at \in {"none", "done"}
    BY <1>13 DEF WorkerStopped
  <2> HIDE DEF p
  <2> QED
    BY <1>13, <2>1, <2>2, <2>3, <2>4, GoToKeepsState DEF WorkerStopped
<1>14. CASE SpeechJoined(t)
  <2> DEFINE p == IF speech[t].raised # "none" THEN RaisedAt(t)
                   ELSE IF IsCurrent(t) THEN "metricsSent" ELSE FinallyAt(t)
  <2>1. GoTo(t, p) /\ ResponseLive(t)
    BY <1>14 DEF SpeechJoined, ResponseLive
  <2>2. /\ p \notin {"none", "new", "abortSent", "abortIdle", "quarantineState"}
        /\ p \in TranscribingAt => turns[t].at \in TranscribingAt
        /\ p \in {"think"} \cup AnsweringAt => turns[t].at \in AnsweringAt
    BY <1>1, <1>14 DEF SpeechJoined, TranscribingAt, AnsweringAt
  <2>3. turns[t].at \notin {"abortSent", "quarantineState", "new", "think", "abort"}
    BY <1>14 DEF SpeechJoined
  <2>4. speech[t].at \in {"none", "done"}
    BY <1>14 DEF SpeechJoined
  <2> HIDE DEF p
  <2> QED
    BY <1>14, <2>1, <2>2, <2>3, <2>4, GoToKeepsState DEF SpeechJoined
<1>15. CASE CancelShown(t)
  <2> DEFINE p == FinallyAt(t)
  <2>1. GoTo(t, p) /\ ResponseLive(t)
    BY <1>15 DEF CancelShown, ResponseSent, ResponseLive
  <2>2. /\ p \notin {"none", "new", "abortSent", "abortIdle", "quarantineState",
                     "metricsSent", "failSent"}
        /\ p \in TranscribingAt => turns[t].at \in TranscribingAt
        /\ p \in {"think"} \cup AnsweringAt => turns[t].at \in AnsweringAt
    BY <1>1, <1>15 DEF CancelShown, ResponseSent, TranscribingAt, AnsweringAt
  <2>3. turns[t].at \notin {"abortSent", "quarantineState", "new", "think", "abort"}
    BY <1>15 DEF CancelShown, ResponseSent
  <2> HIDE DEF p
  <2> QED
    BY <1>15, <2>1, <2>2, <2>3, GoToKeepsState DEF CancelShown, ResponseSent
<1>16. CASE Settled(t)
  <2> DEFINE p == FinallyAt(t)
  <2>1. GoTo(t, p) /\ ResponseLive(t)
    BY <1>16 DEF Settled, ResponseSent, ResponseLive
  <2>2. /\ p \notin {"none", "new", "abortSent", "abortIdle", "quarantineState",
                     "metricsSent", "failSent"}
        /\ p \in TranscribingAt => turns[t].at \in TranscribingAt
        /\ p \in {"think"} \cup AnsweringAt => turns[t].at \in AnsweringAt
    BY <1>1, <1>16 DEF Settled, ResponseSent, TranscribingAt, AnsweringAt
  <2>3. turns[t].at \notin {"abortSent", "quarantineState", "new", "think", "abort"}
    BY <1>16 DEF Settled, ResponseSent
  <2> HIDE DEF p
  <2> QED
    BY <1>16, <2>1, <2>2, <2>3, GoToKeepsState DEF Settled, ResponseSent
<1>17. CASE Aborted(t)
  <2> DEFINE p == FinallyAt(t)
  <2>1. GoTo(t, p) /\ ResponseLive(t)
    BY <1>17 DEF Aborted, ResponseSent, ResponseLive
  <2>2. /\ p \notin {"none", "new", "abortSent", "abortIdle", "quarantineState",
                     "metricsSent", "failSent"}
        /\ p \in TranscribingAt => turns[t].at \in TranscribingAt
        /\ p \in {"think"} \cup AnsweringAt => turns[t].at \in AnsweringAt
    BY <1>1, <1>17 DEF Aborted, ResponseSent, TranscribingAt, AnsweringAt
  <2>3. turns[t].at \notin {"abortSent", "quarantineState", "new", "think", "abort"}
    BY <1>17 DEF Aborted, ResponseSent
  <2>4. turn_lock = Response(t) /\ turn_lock' = Nobody
    BY <1>17 DEF Aborted, ResponseSent, StateInv, LockInv
  <2> HIDE DEF p
  <2> QED
    BY <1>17, <2>1, <2>2, <2>3, <2>4, GoToKeepsState DEF Aborted, ResponseSent
<1>18. CASE StreamClosed(t)
  <2> DEFINE p == "stopSpeech"
  <2>1. GoTo(t, p) /\ ResponseLive(t)
    BY <1>18 DEF StreamClosed, ResponseLive
  <2>2. /\ p \notin {"none", "new", "abortSent", "abortIdle", "quarantineState",
                     "metricsSent", "failSent"}
        /\ p \in TranscribingAt => turns[t].at \in TranscribingAt
        /\ p \in {"think"} \cup AnsweringAt => turns[t].at \in AnsweringAt
    BY <1>1, <1>18 DEF StreamClosed, TranscribingAt, AnsweringAt
  <2>3. turns[t].at \notin {"abortSent", "quarantineState", "new", "think", "abort"}
    BY <1>18 DEF StreamClosed
  <2> HIDE DEF p
  <2> QED
    BY <1>18, <2>1, <2>2, <2>3, GoToKeepsState DEF StreamClosed
<1>19. CASE SpeechStopped(t)
  <2> DEFINE p == "done"
  <2>1. GoTo(t, p) /\ ResponseLive(t)
    BY <1>19 DEF SpeechStopped, ResponseLive
  <2>2. /\ p \notin {"none", "new", "abortSent", "abortIdle", "quarantineState",
                     "metricsSent", "failSent"}
        /\ p \in TranscribingAt => turns[t].at \in TranscribingAt
        /\ p \in {"think"} \cup AnsweringAt => turns[t].at \in AnsweringAt
    BY <1>1, <1>19 DEF SpeechStopped, TranscribingAt, AnsweringAt
  <2>3. turns[t].at \notin {"abortSent", "quarantineState", "new", "think", "abort"}
    BY <1>19 DEF SpeechStopped
  <2>4. faults \subseteq faults' /\ ("table" \in faults' => "table" \in faults)
    BY <1>19, FaultsGrow DEF SpeechStopped
  <2> HIDE DEF p
  <2> QED
    BY <1>19, <2>1, <2>2, <2>3, <2>4, GoToKeepsState DEF SpeechStopped
<1>20. CASE ResponseUnheard(t)
  <2> DEFINE p == IF consumer = "slow" /\ turns[t].at \notin {"abortSent", "abortIdle", "cancelling"}
                    THEN "quarantine" ELSE FinallyAt(t)
  <2>1. GoTo(t, p) /\ ResponseLive(t)
    BY <1>20 DEF ResponseUnheard, ResponseLive
  <2>2. p \in {"quarantine", "done", "closeStream", "stopSpeech"}
    BY <1>1
  <2>3. turns[t].at \notin {"new", "think", "abort"} /\ consumer # "ok"
    BY <1>20 DEF ResponseUnheard
  <2>4. turn_lock' = turn_lock \/ (turn_lock = Response(t) /\ turn_lock' = Nobody)
    BY <1>20 DEF ResponseUnheard, Free
  <2>5. p \notin TranscribingAt \cup AnsweringAt
    BY <2>2 DEF TranscribingAt, AnsweringAt
  <2>6. UNCHANGED <<state, turn_id, generation_id, speech_active, speech, gateway, consumer, faults>>
    BY <1>20 DEF ResponseUnheard
  <2> HIDE DEF p
  <2> QED
    BY <2>1, <2>2, <2>3, <2>4, <2>5, <2>6, GoToKeepsState
<1>21. CASE AbortShown(t)
  <2>1. turn_lock = Response(t) /\ ResponseLive(t) /\ turns[t].at = "abortSent"
    BY <1>21 DEF AbortShown, ResponseLive, StateInv, LockInv
  <2>2. UNCHANGED <<turn_id, generation_id, speech_active, speech, gateway, consumer, faults>>
    BY <1>21 DEF AbortShown
  <2>3. CASE state = "closed"
    <3>1. GoTo(t, FinallyAt(t)) /\ turn_lock' = Nobody /\ state' = state
      BY <1>21, <2>3 DEF AbortShown
    <3>2. FinallyAt(t) \notin TranscribingAt \cup AnsweringAt
      BY <1>1 DEF TranscribingAt, AnsweringAt
    <3> QED
      BY <1>1, <2>1, <2>2, <2>3, <3>1, <3>2, GoToKeepsState
  <2>4. CASE state # "closed"
    <3>1. GoTo(t, "abortIdle") /\ state' = "listening" /\ turn_lock' = turn_lock
      BY <1>21, <2>4 DEF AbortShown
    <3> QED
      BY <2>1, <2>2, <2>4, <3>1, GoToPlace, ShownKeepsState
  <2> QED
    BY <2>3, <2>4
<1>22. CASE Quarantined(t)
  <2>1. turn_lock = Response(t) /\ ResponseLive(t)
    BY <1>22 DEF Quarantined, ResponseLive, StateInv, LockInv
  <2>2. UNCHANGED <<turn_id, generation_id, speech_active, speech, gateway, consumer, faults>>
    BY <1>22 DEF Quarantined
  <2>3. GoTo(t, FinallyAt(t)) /\ state' = "closed" /\ turn_lock' = Nobody
    BY <1>22 DEF Quarantined
  <2> QED
    BY <1>1, <2>1, <2>2, <2>3, GoToPlace, ShownKeepsState
<1>23. CASE Abort(t)
  <2>1. ResponseLive(t) /\ UNCHANGED <<state, turn_id, speech_active, speech, gateway, consumer, faults>>
    BY <1>23 DEF Abort, ResponseLive
  <2>2. CASE ~IsCurrent(t)
    <3>1. GoTo(t, FinallyAt(t)) /\ UNCHANGED <<generation_id, turn_lock>>
      BY <1>23, <2>2 DEF Abort
    <3>2. FinallyAt(t) \notin TranscribingAt \cup AnsweringAt
      BY <1>1 DEF TranscribingAt, AnsweringAt
    <3>3. turns[t].at \notin {"abortSent", "quarantineState"} /\ ~IsCurrent(t)
      BY <1>23, <2>2 DEF Abort, IsCurrent
    <3> QED
      BY <1>1, <2>1, <3>1, <3>2, <3>3, GoToKeepsState
  <2>3. CASE ~(~IsCurrent(t))
    <3>1. /\ turns[t].gen = generation_id /\ turn_lock = Nobody /\ GenerationEnds(t)
          /\ turns' = [turns EXCEPT ![t].cancel = TRUE, ![t].at = "abortSent"]
      BY <1>23, <2>3 DEF Abort, IsCurrent
    <3> QED
      BY <2>1, <3>1, EndKeepsState
  <2> QED
    BY <2>2, <2>3
<1>24. CASE Quarantine(t)
  <2>1. ResponseLive(t) /\ UNCHANGED <<state, turn_id, speech_active, speech, gateway, consumer, faults>>
    BY <1>24 DEF Quarantine, ResponseLive
  <2>2. CASE turns[t].gen # generation_id
    <3>1. GoTo(t, FinallyAt(t)) /\ UNCHANGED <<generation_id, turn_lock>>
      BY <1>24, <2>2 DEF Quarantine
    <3>2. FinallyAt(t) \notin TranscribingAt \cup AnsweringAt
      BY <1>1 DEF TranscribingAt, AnsweringAt
    <3>3. turns[t].at \notin {"abortSent", "quarantineState"} /\ ~IsCurrent(t)
      BY <1>24, <2>2 DEF Quarantine, IsCurrent
    <3> QED
      BY <1>1, <2>1, <3>1, <3>2, <3>3, GoToKeepsState
  <2>3. CASE ~(turns[t].gen # generation_id)
    <3>1. /\ turns[t].gen = generation_id /\ turn_lock = Nobody /\ GenerationEnds(t)
          /\ turns' = [turns EXCEPT ![t].cancel = TRUE, ![t].at = "quarantineState"]
      BY <1>24, <2>3 DEF Quarantine, IsCurrent
    <3> QED
      BY <2>1, <3>1, EndKeepsState
  <2> QED
    BY <2>2, <2>3
<1>25. CASE ThinkingShown(t)
  <2>1. /\ TaskMoves(t) /\ ResponseLive(t) /\ turns[t].at = "thinkSent" /\ turns'[t].at = "llm"
        /\ \A u \in Turns : turns'[u].kind = turns[u].kind
    BY <1>25 DEF ThinkingShown, ResponseLive, TaskMoves, TypeInv, TypeOK, TurnRecord
  <2>2. UNCHANGED <<state, turn_id, generation_id, speech_active, gateway, consumer, speech,
                    faults, turn_lock>>
    BY <1>25 DEF ThinkingShown
  <2> QED
    BY <2>1, <2>2, AnswersKeepState DEF AnsweringAt
<1>26. CASE Delta(t)
  <2>1. ResponseLive(t) /\ turns[t].at = "llm"
        /\ UNCHANGED <<state, turn_id, generation_id, speech_active, gateway, consumer, speech,
                       faults, turn_lock>>
    BY <1>26 DEF Delta, ResponseLive
  <2>2. CASE \E p \in {"abort", FinallyAt(t)} : GoTo(t, p)
    <3>1. PICK p \in {"abort", FinallyAt(t)} : GoTo(t, p)
      BY <2>2
    <3>2. p \in {"abort", "done", "closeStream", "stopSpeech"}
      BY <1>1
    <3>3. p \notin TranscribingAt \cup AnsweringAt
      BY <3>2 DEF TranscribingAt, AnsweringAt
    <3> QED
      BY <2>1, <3>1, <3>2, <3>3, GoToKeepsState
  <2>3. CASE ~\E p \in {"abort", FinallyAt(t)} : GoTo(t, p)
    <3>1. /\ turns' = [turns EXCEPT ![t].at = "deltaSent", ![t].phrases = @ + 1]
          /\ UNCHANGED response_task
      BY <1>26, <2>3 DEF Delta
    <3>2. /\ TaskMoves(t) /\ turns'[t].at = "deltaSent"
          /\ \A u \in Turns : turns'[u].kind = turns[u].kind
      BY <2>1, <3>1 DEF TaskMoves, TypeInv, TypeOK, TurnRecord
    <3> QED
      BY <2>1, <3>2, AnswersKeepState DEF AnsweringAt
  <2> QED
    BY <2>2, <2>3
<1>27. CASE RespondBegins(t)
  <2> DEFINE p == IF authorized THEN "think" ELSE "abort"
  <2>1. GoTo(t, p) /\ ResponseLive(t) /\ turns[t].at \in TranscribingAt
    BY <1>27 DEF RespondBegins, ResponseLive, TranscribingAt
  <2>2. /\ TaskMoves(t) /\ turns'[t].at = p
        /\ \A u \in Turns : turns'[u].kind = turns[u].kind
    BY <2>1, GoToPlace
  <2>3. p \in {"think", "abort"} /\ p \notin TranscribingAt \cup AnsweringAt
    BY DEF TranscribingAt, AnsweringAt
  <2>4. speech[t].at = "none" /\ speech[t].queued = 0
    BY <2>1 DEF StateInv, AnswerInv
  <2>5. /\ \A u \in Turns : u # t => speech'[u] = speech[u]
        /\ speech'[t].at = "get" /\ speech'[t].queued = 0
    BY <1>27, <2>4 DEF RespondBegins, TypeInv, TypeOK, SpeechRecord
  <2>6. ~Speaks(t)'
    BY <2>5 DEF Speaks
  <2>7. UNCHANGED <<state, turn_id, generation_id, speech_active, gateway, consumer, faults,
                    turn_lock>>
    BY <1>27 DEF RespondBegins
  <2>8. turns[t].at \notin {"abortSent", "quarantineState"}
    BY <2>1 DEF TranscribingAt
  <2> HIDE DEF p
  <2> QED
    BY <2>1, <2>2, <2>3, <2>5, <2>6, <2>7, <2>8, MovesKeepState
<1>28. CASE QueueSpeech(t)
  <2>1. /\ ResponseLive(t) /\ turns[t].at \in {"put", "end"}
        /\ UNCHANGED <<state, turn_id, generation_id, speech_active, gateway, consumer, faults,
                       turn_lock>>
    BY <1>28 DEF QueueSpeech, ResponseLive
  <2>2. CASE IsCurrent(t)
    <3> DEFINE p == IF turns[t].at = "end" THEN "finalSent" ELSE "llm"
    <3>1. /\ GoTo(t, p)
          /\ speech' = [speech EXCEPT ![t].queued = @ + 1, ![t].ended = (turns[t].at = "end")]
      BY <1>28, <2>2 DEF QueueSpeech
    <3>2. /\ TaskMoves(t) /\ turns'[t].at = p
          /\ \A u \in Turns : turns'[u].kind = turns[u].kind
      BY <3>1, GoToPlace
    <3>3. p \in {"finalSent", "llm"} /\ p \notin TranscribingAt
      BY DEF TranscribingAt
    <3>4. /\ \A u \in Turns : u # t => speech'[u] = speech[u]
          /\ speech'[t].at = speech[t].at
      BY <3>1 DEF TypeInv, TypeOK, SpeechRecord
    <3>5. speech[t].at # "none" /\ Clean' = Clean
      BY <1>28, <2>1, <2>2 DEF Clean, StateInv, AnswerInv, AnsweringAt
    <3>6. Clean => Answering
      BY <2>1, <2>2 DEF StateInv, AnswerInv, AnsweringAt
    <3>7. ~(response_task = t /\ state = "user_speaking")
      BY <2>1 DEF StateInv, UserInv
    <3> HIDE DEF p
    <3> QED
      BY <2>1, <3>2, <3>3, <3>4, <3>5, <3>6, <3>7, MovesKeepState
  <2>3. CASE ~IsCurrent(t)
    <3> DEFINE p == IF turns[t].at = "end" THEN FinallyAt(t) ELSE "llm"
    <3>1. GoTo(t, p) /\ UNCHANGED speech
      BY <1>28, <2>3 DEF QueueSpeech
    <3>2. p \in {"llm", "done", "closeStream", "stopSpeech"} /\ p \notin TranscribingAt
      BY <1>1 DEF TranscribingAt
    <3>3. turns[t].at \in AnsweringAt
      BY <2>1 DEF AnsweringAt
    <3> HIDE DEF p
    <3> QED
      BY <2>1, <2>3, <3>1, <3>2, <3>3, GoToKeepsState
  <2> QED
    BY <2>2, <2>3
<1>29. CASE JoinTimesOut(t)
  <2>1. GoTo(t, "abort") /\ ResponseLive(t) /\ turns[t].at = "join"
    BY <1>29 DEF JoinTimesOut, ResponseLive
  <2>2. /\ TaskMoves(t) /\ turns'[t].at = "abort"
        /\ \A u \in Turns : turns'[u].kind = turns[u].kind
    BY <2>1, GoToPlace
  <2>3. /\ \A u \in Turns : u # t => speech'[u] = speech[u]
        /\ speech'[t].at = SpeechCancelledAt(t)
    BY <1>29 DEF JoinTimesOut, TypeInv, TypeOK, SpeechRecord
  <2>4. speech'[t].at \in {"closing", "done"} /\ ~Speaks(t)'
    BY <1>29, <2>3, HandlersLeadOn, RunningTasksStay DEF JoinTimesOut, SpeechLive, Speaks
  <2>5. ~(response_task = t /\ state = "user_speaking")
    BY <2>1 DEF StateInv, UserInv
  <2>6. UNCHANGED <<state, turn_id, generation_id, speech_active, gateway, consumer, turn_lock>>
    BY <1>29 DEF JoinTimesOut
  <2>7. faults \subseteq faults' /\ ("table" \in faults' => "table" \in faults)
    BY <1>29, FaultsGrow DEF JoinTimesOut
  <2>8. "abort" \notin TranscribingAt \cup AnsweringAt
    BY DEF TranscribingAt, AnsweringAt
  <2> QED
    BY <2>1, <2>2, <2>3, <2>4, <2>5, <2>6, <2>7, <2>8, MovesKeepState
<1>30. CASE StopSpeech(t)
  <2>1. CASE SpeechLive(t)
    <3>1. GoTo(t, "stopWait") /\ ResponseLive(t) /\ turns[t].at = "stopSpeech"
      BY <1>30, <2>1 DEF StopSpeech, ResponseLive
    <3>2. /\ TaskMoves(t) /\ turns'[t].at = "stopWait"
          /\ \A u \in Turns : turns'[u].kind = turns[u].kind
      BY <3>1, GoToPlace
    <3>3. /\ \A u \in Turns : u # t => speech'[u] = speech[u]
          /\ speech'[t].at = SpeechCancelledAt(t)
      BY <1>30, <2>1 DEF StopSpeech, TypeInv, TypeOK, SpeechRecord
    <3>4. speech'[t].at \in {"closing", "done"} /\ ~Speaks(t)'
      BY <1>30, <2>1, <3>3, HandlersLeadOn, RunningTasksStay DEF StopSpeech, SpeechLive, Speaks
    <3>5. ~(response_task = t /\ state = "user_speaking")
      BY <3>1 DEF StateInv, UserInv
    <3>6. UNCHANGED <<state, turn_id, generation_id, speech_active, gateway, consumer, turn_lock>>
      BY <1>30 DEF StopSpeech
    <3>7. faults \subseteq faults' /\ ("table" \in faults' => "table" \in faults)
      BY <1>30, FaultsGrow DEF StopSpeech
    <3>8. "stopWait" \notin TranscribingAt \cup AnsweringAt
      BY DEF TranscribingAt, AnsweringAt
    <3> QED
      BY <3>1, <3>2, <3>3, <3>4, <3>5, <3>6, <3>7, <3>8, MovesKeepState
  <2>2. CASE ~SpeechLive(t)
    <3>1. GoTo(t, "done") /\ ResponseLive(t) /\ turns[t].at = "stopSpeech"
          /\ UNCHANGED <<state, turn_id, generation_id, speech_active, speech, gateway, consumer,
                         turn_lock, faults>>
      BY <1>30, <2>2 DEF StopSpeech, ResponseLive
    <3>2. "done" \notin TranscribingAt \cup AnsweringAt
      BY DEF TranscribingAt, AnsweringAt
    <3> QED
      BY <3>1, <3>2, GoToKeepsState
  <2> QED
    BY <2>1, <2>2
<1> QED
  BY <1>2, <1>3, <1>4, <1>5, <1>6, <1>7, <1>8, <1>9, <1>10, <1>11, <1>12, <1>13, <1>14, <1>15,
     <1>16, <1>17, <1>18, <1>19, <1>20, <1>21, <1>22, <1>23, <1>24, <1>25, <1>26, <1>27, <1>28,
     <1>29, <1>30 DEF ResponseStep

(* A speech worker moves on without a change of state. *)
LEMMA WorkerKeepsState ==
  ASSUME TypeInv, GenerationInv, StateInv, NEW t \in Turns, SpeechLive(t),
         \A u \in Turns : u # t => speech'[u] = speech[u],
         speech'[t].at # "none",
         Clean /\ IsCurrent(t) /\ Speaks(t)' => Answering,
         UNCHANGED <<state, turn_id, generation_id, speech_active, gateway, consumer, turns,
                     response_task, turn_lock>>,
         faults \subseteq faults', TableIsRespected'
  PROVE  StateInv'
<1>1. \A u \in Turns : /\ IsCurrent(u)' <=> IsCurrent(u)
                       /\ u # t => (Speaks(u)' <=> Speaks(u))
  BY DEF IsCurrent, Speaks
<1>2. (Vacant' <=> Vacant) /\ (Quiet' <=> Quiet) /\ (Answering' <=> Answering)
  BY <1>1 DEF Vacant, Quiet, Answering
<1>3. Clean' => Clean
  BY DEF Clean
<1>4. LockInv' /\ PhaseInv'
  BY DEF StateInv, LockInv, PhaseInv
<1>5. VacantInv' /\ QuietInv'
  BY <1>1, <1>2 DEF StateInv, VacantInv, QuietInv
<1>6. AnswerInv'
  <2>1. AnswerInv /\ speech[t].at \notin {"none", "done"}
    BY DEF StateInv, SpeechLive
  <2>2. /\ turns[t].at \notin TranscribingAt
        /\ Clean' => turns[t].at \notin {"metricsSent", "failSent"}
    BY <1>3, <2>1 DEF AnswerInv
  <2> QED
    BY <1>1, <1>2, <1>3, <2>1, <2>2 DEF AnswerInv
<1>7. UserInv'
  BY DEF StateInv, UserInv, UserTaken
<1> QED
  BY <1>4, <1>5, <1>6, <1>7 DEF StateInv

(* The worker enters SPEAKING for its turn, which is current. *)
LEMMA SpeakingKeepsState ==
  ASSUME TypeInv, GenerationInv, StateInv, NEW t \in Turns, SpeechLive(t), IsCurrent(t),
         state' = "speaking", Answering,
         \A u \in Turns : u # t => speech'[u] = speech[u],
         speech'[t].at = "speakSent",
         UNCHANGED <<turn_id, generation_id, speech_active, gateway, consumer, turns,
                     response_task, turn_lock, faults>>
  PROVE  StateInv'
<1>1. turns[t].at # "none"
  BY DEF SpeechLive, GenerationInv, Begun
<1>2. ~Vacant /\ state # "closed"
  BY <1>1 DEF Vacant, IsCurrent
<1>3. \A u \in Turns : IsCurrent(u)' => IsCurrent(u)
  BY <1>2 DEF IsCurrent
<1>4. ASSUME NEW u \in Turns, turns[u].at # "none", IsCurrent(u) PROVE u = t
  BY <1>1, <1>4, CurrentIsNewest DEF IsCurrent
<1>5. LockInv' /\ PhaseInv'
  BY <1>2 DEF StateInv, LockInv, PhaseInv
<1>6. VacantInv'
  BY <1>2 DEF StateInv, VacantInv
<1>7. turns[t].at \notin TranscribingAt
  BY DEF StateInv, AnswerInv, SpeechLive
<1>8. QuietInv'
  <2>1. VacantInv
    BY DEF StateInv
  <2>2. \A u \in Turns : ~(IsCurrent(u) /\ turns[u].at = "new")
    BY <1>4, <1>7 DEF TranscribingAt
  <2> QED
    BY <1>2, <1>3, <2>1, <2>2 DEF QuietInv, VacantInv
<1>9. AnswerInv'
  <2>1. AnswerInv /\ speech[t].at \notin {"none", "done"} /\ Answering'
    BY DEF StateInv, SpeechLive, Answering
  <2>2. Clean' => turns[t].at \notin {"metricsSent", "failSent"}
    BY <2>1 DEF AnswerInv, Clean
  <2>3. Clean' = Clean
    BY DEF Clean
  <2> QED
    BY <1>7, <2>1, <2>2, <2>3 DEF AnswerInv
<1>10. UserInv' /\ TableIsRespected'
  BY DEF StateInv, UserInv, TableIsRespected
<1> QED
  BY <1>5, <1>6, <1>8, <1>9, <1>10 DEF StateInv

(* Every step of a speech worker. *)
LEMMA SpeechKeepsState ==
  ASSUME TypeInv, GenerationInv, StateInv, NEW t \in Turns, SpeechStep(t)
  PROVE  StateInv'
<1> USE DEF session, locks, responses, environment, history
<1>1. speech[t] \in SpeechRecord /\ AnswerInv /\ TableIsRespected
  BY DEF TypeInv, TypeOK, StateInv
<1>2. Clean /\ IsCurrent(t) /\ Speaks(t) => Answering
  BY <1>1 DEF AnswerInv
<1>3. SpeechLive(t) /\ UNCHANGED <<turn_id, generation_id, speech_active, gateway, consumer, turns,
                                  response_task, turn_lock>>
  BY DEF SpeechStep, GetPhrase, Speak, SpeakingShown, Media, MediaTimesOut, MediaShown,
         SpeechUnheard, MediaClosed, SpeechLive
<1>4. \A u \in Turns : u # t => speech'[u] = speech[u]
  BY DEF SpeechStep, GetPhrase, Speak, SpeakingShown, Media, MediaTimesOut, MediaShown,
         SpeechUnheard, MediaClosed, SpeechGoes, SpeechRaises, TypeInv, TypeOK
<1>5. CASE GetPhrase(t)
  <2>1. speech'[t].at \in {"speak", "done"} /\ Speaks(t) /\ UNCHANGED <<state, faults>>
    BY <1>1, <1>5 DEF GetPhrase, SpeechGoes, SpeechRaises, TypeInv, TypeOK, SpeechRecord, Speaks
  <2>2. TableIsRespected'
    BY <1>1, <2>1 DEF TableIsRespected
  <2> QED
    BY <1>2, <1>3, <1>4, <2>1, <2>2, WorkerKeepsState
<1>6. CASE Speak(t)
  <2>1. Speaks(t)
    BY <1>6 DEF Speak, Speaks
  <2>2. CASE ~IsCurrent(t)
    <3>1. speech'[t].at = "done" /\ UNCHANGED <<state, faults>>
      BY <1>6, <2>2 DEF Speak, SpeechGoes, TypeInv, TypeOK, SpeechRecord
    <3>2. TableIsRespected'
      BY <1>1, <3>1 DEF TableIsRespected
    <3> QED
      BY <1>3, <1>4, <2>2, <3>1, <3>2, WorkerKeepsState
  <2>3. CASE IsCurrent(t) /\ "speaking" \notin Allowed[state]
    <3>1. speech'[t].at = "done" /\ UNCHANGED state /\ faults' = faults \cup {"table"}
      BY <1>6, <2>3 DEF Speak, SpeechRaises, TypeInv, TypeOK, SpeechRecord
    <3>2. ~Answering
      BY <2>3 DEF Answering, Allowed
    <3>3. TableIsRespected'
      BY <1>2, <2>1, <2>3, <3>1, <3>2 DEF TableIsRespected, Clean
    <3>4. ~Speaks(t)'
      BY <3>1 DEF Speaks
    <3> QED
      BY <1>3, <1>4, <3>1, <3>3, <3>4, WorkerKeepsState
  <2>4. CASE IsCurrent(t) /\ "speaking" \in Allowed[state]
    <3>1. speech'[t].at = "speakSent" /\ state' = "speaking" /\ UNCHANGED faults
      BY <1>6, <2>4 DEF Speak, SpeechGoes, TypeInv, TypeOK, SpeechRecord
    <3>2. state \in States
      BY DEF TypeInv, TypeOK
    <3>3. Answering
      BY <2>4, <3>2 DEF Answering, Allowed, States
    <3> QED
      BY <1>3, <1>4, <2>4, <3>1, <3>3, SpeakingKeepsState
  <2> QED
    BY <2>2, <2>3, <2>4
<1>7. CASE SpeakingShown(t) \/ Media(t) \/ MediaShown(t)
  <2>1. Speaks(t)
    BY <1>7 DEF SpeakingShown, Media, MediaShown, Speaks
  <2>2. UNCHANGED <<state, faults>>
    BY <1>7 DEF SpeakingShown, Media, MediaShown
  <2>3. speech'[t].at # "none"
    BY <1>7 DEF SpeakingShown, Media, MediaShown, SpeechGoes, SpeechRaises, LoopAt, TypeInv,
       TypeOK, SpeechRecord
  <2>4. TableIsRespected'
    BY <1>1, <2>2 DEF TableIsRespected
  <2> QED
    BY <1>2, <1>3, <1>4, <2>1, <2>2, <2>3, <2>4, WorkerKeepsState
<1>8. CASE MediaTimesOut(t) \/ SpeechUnheard(t) \/ MediaClosed(t)
  <2>1. speech'[t].at \in {"closing", "done"} /\ UNCHANGED state
    BY <1>8 DEF MediaTimesOut, SpeechUnheard, MediaClosed, SpeechGoes, SpeechRaises, TypeInv,
       TypeOK, SpeechRecord
  <2>2. faults \subseteq faults' /\ ("table" \in faults' => "table" \in faults)
    BY <1>8, FaultsGrow DEF MediaTimesOut, SpeechUnheard, MediaClosed
  <2>3. TableIsRespected' /\ ~Speaks(t)'
    BY <1>1, <2>1, <2>2 DEF TableIsRespected, Speaks
  <2> QED
    BY <1>3, <1>4, <2>1, <2>2, <2>3, WorkerKeepsState
<1> QED
  BY <1>5, <1>6, <1>7, <1>8 DEF SpeechStep

(* Where the receive loop goes on to. *)
LEMMA GatewayMoves ==
  ASSUME TypeInv
  PROVE  /\ \A p : GatewayGoes(p) => gateway'.at = p /\ gateway'.op = gateway.op
         /\ \A p, o : GatewayDoes(p, o) => gateway'.at = p /\ gateway'.op = o
  BY DEF GatewayGoes, GatewayDoes, TypeInv, TypeOK, GatewayRecord

(* A step of the receive loop that leaves the state and the turns alone. *)
LEMMA GatewayKeepsTurns ==
  ASSUME StateInv,
         UNCHANGED <<state, turn_id, generation_id, turns, response_task, speech>>,
         faults \subseteq faults', "table" \in faults' => "table" \in faults,
         LockInv', PhaseInv', VacantInv', QuietInv', state = "user_speaking" => UserTaken'
  PROVE  StateInv'
<1>1. \A u \in Turns : (IsCurrent(u)' <=> IsCurrent(u)) /\ (Speaks(u)' <=> Speaks(u))
  BY DEF IsCurrent, Speaks
<1>2. (Clean' => Clean) /\ (Answering' <=> Answering)
  BY DEF Clean, Answering
<1>3. AnswerInv'
  BY <1>1, <1>2 DEF StateInv, AnswerInv
<1>4. UserInv' /\ TableIsRespected'
  BY DEF StateInv, UserInv, TableIsRespected
<1> QED
  BY <1>3, <1>4 DEF StateInv

(* The same, when the step gives a turn lock of its own back, or none. *)
LEMMA GatewayFreesLock ==
  ASSUME StateInv,
         UNCHANGED <<state, turn_id, generation_id, turns, response_task, speech, speech_active,
                     consumer>>,
         faults \subseteq faults', "table" \in faults' => "table" \in faults,
         \/ turn_lock' = turn_lock
         \/ turn_lock = Gateway /\ turn_lock' = Nobody,
         PhaseInv', QuietInv',
         gateway'.at \notin {"startSent", "stopping"},
         gateway'.at = "clearSent" => gateway.at = "stopping" /\ turn_lock' = turn_lock,
         gateway'.at = "stateSent" => gateway'.op # "close",
         gateway'.at = "userState" => Vacant,
         gateway'.at = "errSent" /\ "vad" \notin faults' => Vacant,
         gateway'.op = "audio" => gateway'.at # "lock",
         speech_active /\ gateway'.op # "close" /\ ~(gateway'.op = "barge_in" /\ gateway'.at = "lock")
           => Vacant,
         state = "user_speaking" => UserTaken'
  PROVE  StateInv'
<1>1. Vacant' <=> Vacant
  BY DEF Vacant, IsCurrent
<1>2. LockInv'
  BY OwnersDiffer DEF StateInv, LockInv
<1>3. VacantInv'
  <2>1. \A u \in Turns : turn_lock' = Response(u) => Vacant
    BY OwnersDiffer DEF StateInv, VacantInv
  <2>2. gateway'.at = "clearSent" => Vacant
    BY DEF StateInv, VacantInv
  <2> QED
    BY <1>1, <2>1, <2>2 DEF VacantInv
<1> QED
  BY <1>2, <1>3, GatewayKeepsTurns

(* The receive loop changes the state: to LISTENING or USER_SPEAKING, or closes. *)
LEMMA GatewayShows ==
  ASSUME TypeInv, GenerationInv, StateInv,
         state # "closed", state' \in {"listening", "user_speaking", "closed"},
         UNCHANGED <<turn_id, generation_id, turns, response_task, speech, faults>>,
         Vacant \/ ~Clean, LockInv', PhaseInv', VacantInv', UserInv'
  PROVE  StateInv'
<1>1. \A u \in Turns : (IsCurrent(u)' => IsCurrent(u)) /\ (Speaks(u)' <=> Speaks(u))
  BY DEF IsCurrent, Speaks
<1>2. \A u \in Turns : turns[u].at \in AnsweringAt \/ Speaks(u) => turns[u].at # "none"
  BY DEF AnsweringAt, Speaks, GenerationInv, Begun
<1>3. Clean' = Clean
  BY DEF Clean
<1>4. AnswerInv'
  BY <1>1, <1>2, <1>3 DEF StateInv, AnswerInv, Vacant
<1>5. QuietInv' /\ TableIsRespected'
  BY DEF StateInv, QuietInv, Quiet, TableIsRespected
<1> QED
  BY <1>4, <1>5 DEF StateInv

(* An active response is cancelled, and with it the generation. *)
LEMMA CancelKeepsState ==
  ASSUME TypeInv, GenerationInv, StateInv, NEW operation \in Operations,
         CancelActive(operation), gateway.at \in {"lock", "leaving"}, turn_lock = Nobody,
         operation = gateway.op \/ (operation = "revoked" /\ gateway.op \in {"text", "audio"}),
         turn_lock' = Gateway,
         UNCHANGED <<state, turn_id, speech_active, speech, consumer, faults>>
  PROVE  StateInv'
<1>1. /\ gateway'.at \in {"stopping", "clearSent"} /\ gateway'.op = operation
      /\ response_task' = 0
      /\ generation_id' = IF generation_id = 0 THEN 0 ELSE generation_id + 1
  BY DEF CancelActive
<1>2. \A u \in Turns : /\ turns'[u].gen = turns[u].gen
                       /\ \/ turns'[u].at = turns[u].at
                          \/ turns'[u].at \in {"cancelling", "none", "done", "closeStream", "stopSpeech"}
                       /\ turns'[u].at = "none" <=> turns[u].at = "none"
  <2> TAKE u \in Turns
  <2>1. turns'[u] = [turns[u] EXCEPT
           !.cancel = IF u = turn_id THEN TRUE ELSE @,
           !.at = IF u = response_task THEN CancelledAt(u) ELSE @]
    BY CancelActiveTurns
  <2>2. turns[u] \in TurnRecord
    BY DEF TypeInv, TypeOK
  <2>3. turns'[u].at = IF u = response_task THEN CancelledAt(u) ELSE turns[u].at
    BY <2>1, <2>2 DEF TurnRecord
  <2>4. turns'[u].gen = turns[u].gen
    BY <2>1, <2>2 DEF TurnRecord
  <2> QED
    BY <2>3, <2>4, HandlersLeadOn, RunningTasksStay
<1>3. ASSUME NEW u \in Turns, turns'[u].at # "none" PROVE turns'[u].gen # generation_id'
  <2>1. /\ turns[u].gen \in Nat /\ generation_id \in Nat
        /\ turns[u].gen > 0 /\ turns[u].gen <= generation_id
    BY <1>2, <1>3 DEF TypeInv, TypeOK, TurnRecord, GenerationInv, Begun
  <2>2. turns'[u].gen = turns[u].gen /\ generation_id' = generation_id + 1
    BY <1>1, <1>2, <2>1
  <2> QED
    BY <2>1, <2>2
<1>4. Vacant'
  BY <1>3 DEF Vacant, IsCurrent
<1>5. LockInv'
  <2>1. \A u \in Turns : turns[u].at \notin {"abortSent", "abortIdle", "quarantineState"}
    BY OwnersDiffer DEF StateInv, LockInv
  <2> QED
    BY <1>1, <1>2, <2>1 DEF LockInv
<1>6. PhaseInv'
  <2>1. gateway.at = "leaving" => gateway.op = "close"
    BY DEF StateInv, PhaseInv
  <2> QED
    BY <1>1, <2>1 DEF StateInv, PhaseInv
<1>7. VacantInv'
  BY <1>4 DEF VacantInv
<1>8. QuietInv'
  <2>1. gateway.at = "leaving" => gateway.op = "close"
    BY DEF StateInv, PhaseInv
  <2>2. QuietInv /\ PhaseInv /\ Quiet' = Quiet
    BY DEF StateInv, Quiet
  <2>3. gateway'.op = "audio" => gateway.op = "audio" /\ gateway.at = "lock" /\ Quiet
    BY <1>1, <2>1, <2>2 DEF QuietInv
  <2>4. \A u \in Turns : turns'[u].at = "new" => ~IsCurrent(u)'
    BY <1>4 DEF Vacant
  <2>5. ASSUME speech_active, operation # "close",
               ~(operation = "barge_in" /\ gateway'.at \in {"lock", "stopping", "clearSent", "userState"})
        PROVE  Quiet
    <3>1. gateway.op # "close"
      BY <2>5
    <3>2. gateway.op # "barge_in"
      BY <1>1, <2>5
    <3> QED
      BY <2>2, <2>5, <3>1, <3>2 DEF QuietInv
  <2> QED
    BY <1>1, <2>2, <2>3, <2>4, <2>5 DEF QuietInv
<1>9. AnswerInv'
  <2>1. AnswerInv
    BY DEF StateInv
  <2>2. \A u \in Turns : response_task' # u
    BY <1>1 DEF Turns
  <2>3. Clean' = Clean
    BY DEF Clean
  <2>4. \A u \in Turns : (turns'[u].at \in AnsweringAt \/ Speaks(u)') => turns'[u].at # "none"
    BY <1>2 DEF AnsweringAt, Speaks, GenerationInv, Begun
  <2>5. \A u \in Turns :
          turns'[u].at \in TranscribingAt \cup AnsweringAt \cup {"think", "metricsSent", "failSent"}
            => turns'[u].at = turns[u].at
    BY <1>2 DEF TranscribingAt, AnsweringAt
  <2> QED
    BY <1>3, <1>4, <2>1, <2>2, <2>3, <2>4, <2>5 DEF AnswerInv, Vacant
<1>10. UserInv'
  BY <1>1 DEF UserInv, UserTaken, Turns
<1>11. TableIsRespected'
  BY DEF StateInv, TableIsRespected
<1> QED
  BY <1>5, <1>6, <1>7, <1>8, <1>9, <1>10, <1>11 DEF StateInv

(* Every step of the receive loop. *)
LEMMA GatewayKeepsState ==
  ASSUME TypeInv, GenerationInv, StateInv, GatewayStep
  PROVE  StateInv'
<1> USE DEF session, locks, responses, environment, history
<1>1. /\ \A p : GatewayGoes(p) => gateway'.at = p /\ gateway'.op = gateway.op
      /\ \A p, o : GatewayDoes(p, o) => gateway'.at = p /\ gateway'.op = o
  BY GatewayMoves
<1>2. LockInv /\ PhaseInv /\ VacantInv /\ QuietInv /\ AnswerInv /\ UserInv
  BY DEF StateInv
<1>3. UNCHANGED <<state, turns, generation_id>> => (Quiet' <=> Quiet) /\ \A u \in Turns : IsCurrent(u)' <=> IsCurrent(u)
  BY DEF Quiet, IsCurrent
<1>4. ASSUME UNCHANGED <<state, turns, generation_id>>, PhaseInv',
             gateway'.op = "audio" /\ gateway'.at \in {"lock", "stopping", "clearSent"} => Quiet,
             /\ speech_active' /\ gateway'.op # "close"
             /\ ~(gateway'.op = "barge_in"
                   /\ gateway'.at \in {"lock", "stopping", "clearSent", "userState"})
             => Quiet
      PROVE  QuietInv'
  BY <1>2, <1>3, <1>4 DEF QuietInv
<1>5. CASE Started
  <2>1. /\ gateway.at = "startSent" /\ gateway'.at = "idle" /\ gateway'.op = gateway.op
        /\ turn_lock = Gateway /\ turn_lock' = Nobody
        /\ UNCHANGED <<state, turn_id, generation_id, turns, response_task, speech, speech_active,
                       consumer, faults>>
    BY <1>1, <1>2, <1>5 DEF Started, LockInv
  <2>2. gateway.op # "close"
    BY <1>2, <2>1 DEF PhaseInv
  <2>3. PhaseInv'
    BY <1>2, <2>1, <2>2 DEF PhaseInv
  <2>4. QuietInv'
    BY <1>2, <1>4, <2>1, <2>2, <2>3 DEF QuietInv
  <2>5. speech_active => Vacant
    BY <1>2, <2>1, <2>2 DEF VacantInv
  <2>6. state = "user_speaking" => UserTaken'
    BY <1>2, <2>1, OwnersDiffer DEF UserInv, UserTaken
  <2> QED
    BY <2>1, <2>2, <2>3, <2>4, <2>5, <2>6, GatewayFreesLock
<1>6. CASE FrameDecided
  <2>1. /\ gateway.at = "vad" /\ gateway.op # "close"
        /\ UNCHANGED <<state, turn_id, generation_id, turns, response_task, speech, turn_lock,
                       consumer>>
    BY <1>2, <1>6 DEF FrameDecided, PhaseInv
  <2>2. (speech_active => Vacant /\ Quiet) /\ (Vacant' <=> Vacant)
    BY <1>2, <2>1 DEF VacantInv, QuietInv, Vacant, IsCurrent
  <2>3. \/ ~speech_active /\ speech_active' /\ gateway'.at = "lock" /\ gateway'.op = "barge_in"
           /\ UNCHANGED faults
        \/ speech_active /\ ~speech_active' /\ gateway'.at = "lock" /\ gateway'.op = "audio"
           /\ UNCHANGED faults
        \/ speech_active /\ ~speech_active' /\ gateway'.at = "errSent" /\ gateway'.op = gateway.op
           /\ UNCHANGED faults
        \/ UNCHANGED speech_active /\ gateway'.at = "errSent" /\ gateway'.op = gateway.op
           /\ "vad" \in faults'
    BY <1>1, <1>6, FaultsGrow
       DEF FrameDecided, SpeechStarted, SpeechEnded, SpeechTooLong, VadFails
  <2>4. faults \subseteq faults' /\ ("table" \in faults' => "table" \in faults)
    BY <1>6, FaultsGrow DEF FrameDecided, SpeechStarted, SpeechEnded, SpeechTooLong, VadFails
  <2>5. LockInv'
    BY <1>2, <2>1, <2>3 DEF LockInv
  <2>6. PhaseInv'
    BY <1>2, <2>1, <2>3, <2>4 DEF PhaseInv
  <2>7. VacantInv'
    BY <1>2, <2>1, <2>2, <2>3 DEF VacantInv
  <2>8. QuietInv'
    BY <1>4, <2>1, <2>2, <2>3, <2>6
  <2>9. state = "user_speaking" => UserTaken'
    BY <1>2, <2>1, <2>3, <2>4 DEF UserInv, UserTaken
  <2> QED
    BY <2>1, <2>4, <2>5, <2>6, <2>7, <2>8, <2>9, GatewayKeepsTurns
<1>7. CASE Stopped
  <2>1. /\ gateway.at = "stopping" /\ gateway'.at = "clearSent" /\ gateway'.op = gateway.op
        /\ UNCHANGED <<state, turn_id, generation_id, turns, response_task, speech, speech_active,
                       turn_lock, consumer>>
    BY <1>1, <1>7 DEF Stopped
  <2>2. faults \subseteq faults' /\ ("table" \in faults' => "table" \in faults)
    BY <1>7, FaultsGrow DEF Stopped
  <2>3. PhaseInv'
    BY <1>2, <2>1, <2>2 DEF PhaseInv
  <2>4. QuietInv'
    BY <1>2, <1>4, <2>1, <2>3 DEF QuietInv
  <2>5. Vacant
    BY <1>2, <2>1 DEF VacantInv
  <2>6. state = "user_speaking" => UserTaken'
    BY <2>1 DEF UserTaken
  <2> QED
    BY <2>1, <2>2, <2>3, <2>4, <2>5, <2>6, GatewayFreesLock
<1>8. CASE BargeIn
  <2>1. /\ gateway.at = "clearSent" /\ gateway.op = "barge_in"
        /\ gateway'.at = "userState" /\ gateway'.op = gateway.op
        /\ turn_lock = Gateway /\ turn_lock' = Nobody /\ Vacant /\ speech_active
        /\ UNCHANGED <<state, turn_id, generation_id, turns, response_task, speech, speech_active,
                       consumer, faults>>
    BY <1>1, <1>2, <1>8 DEF BargeIn, LockInv, PhaseInv, VacantInv
  <2>2. PhaseInv'
    BY <1>2, <2>1 DEF PhaseInv
  <2>3. QuietInv'
    BY <1>4, <2>1, <2>2
  <2>4. UserTaken'
    BY <2>1 DEF UserTaken
  <2> QED
    BY <2>1, <2>2, <2>3, <2>4, GatewayFreesLock
<1>9. CASE Returned
  <2>1. /\ gateway.at \in {"stateSent", "limitSent"}
        /\ UNCHANGED <<state, turn_id, generation_id, turns, response_task, speech, speech_active,
                       consumer, faults>>
        /\ \/ turn_lock' = turn_lock
           \/ turn_lock = Gateway /\ turn_lock' = Nobody
    BY <1>9 DEF Returned, Free
  <2>2. \/ gateway.op = "close" /\ gateway'.at = "retiring" /\ gateway'.op = "close"
        \/ gateway.op # "close" /\ gateway'.at = "idle" /\ gateway'.op = "none"
    BY <1>1, <1>9 DEF Returned
  <2>3. gateway.op = "close" => state = "closed"
    BY <1>2, <2>1 DEF LockInv, PhaseInv
  <2>4. PhaseInv'
    BY <1>2, <2>1, <2>2, <2>3 DEF PhaseInv
  <2>5. gateway.op # "close" => (speech_active => Vacant /\ Quiet)
    BY <1>2, <2>1 DEF VacantInv, QuietInv
  <2>6. QuietInv'
    BY <1>4, <2>1, <2>2, <2>4, <2>5
  <2>7. state = "user_speaking" => UserTaken'
    BY <1>2, <2>1, <2>2, <2>3, OwnersDiffer DEF UserInv, UserTaken
  <2> QED
    BY <2>1, <2>2, <2>4, <2>5, <2>6, <2>7, GatewayFreesLock
<1>10. CASE Interrupted
  <2>1. /\ gateway'.at = "leaving" /\ gateway'.op = "close"
        /\ UNCHANGED <<state, turn_id, generation_id, turns, response_task, speech, speech_active,
                       consumer>>
        /\ \/ turn_lock' = turn_lock
           \/ turn_lock = Gateway /\ turn_lock' = Nobody
    BY <1>1, <1>10 DEF Interrupted, Free
  <2>2. faults \subseteq faults' /\ ("table" \in faults' => "table" \in faults)
    BY <1>10, FaultsGrow DEF Interrupted
  <2>3. PhaseInv'
    BY <1>2, <2>1, <2>2 DEF PhaseInv
  <2>4. QuietInv'
    BY <1>4, <2>1, <2>3
  <2>5. UserTaken'
    BY <2>1 DEF UserTaken
  <2> QED
    BY <2>1, <2>2, <2>3, <2>4, <2>5, GatewayFreesLock
<1>11. CASE Reaped
  <2>1. /\ gateway.at = "reaping" /\ gateway'.at \in {"retiring", "closed"} /\ gateway'.op = gateway.op
        /\ state = "closed"
        /\ UNCHANGED <<state, turn_id, generation_id, turns, response_task, speech, speech_active,
                       consumer, turn_lock>>
    BY <1>1, <1>2, <1>11 DEF Reaped, PhaseInv
  <2>2. faults \subseteq faults' /\ ("table" \in faults' => "table" \in faults)
    BY <1>11, FaultsGrow DEF Reaped
  <2>3. PhaseInv'
    BY <1>2, <2>1, <2>2 DEF PhaseInv
  <2>4. QuietInv' /\ Vacant
    BY <2>1 DEF QuietInv, Quiet, Vacant, IsCurrent
  <2> QED
    BY <2>1, <2>2, <2>3, <2>4, GatewayFreesLock
<1>12. CASE ErrorShown
  <2>1. /\ gateway.at = "errSent" /\ gateway'.at = "stateSent" /\ gateway'.op = gateway.op
        /\ gateway.op # "close"
        /\ UNCHANGED <<turn_id, generation_id, turns, response_task, speech, speech_active,
                       consumer, faults, turn_lock>>
        /\ \/ state = "closed" /\ state' = state
           \/ state # "closed" /\ state' = "listening"
    BY <1>1, <1>2, <1>12 DEF ErrorShown, GatewayEnters, PhaseInv
  <2>2. (Vacant \/ ~Clean) /\ (speech_active => Vacant)
    BY <1>2, <2>1 DEF VacantInv, Clean
  <2>3. CASE state = "closed"
    <3>1. QuietInv' /\ PhaseInv' /\ Vacant
      BY <1>2, <2>1, <2>3 DEF QuietInv, Quiet, PhaseInv, Vacant, IsCurrent
    <3> QED
      BY <2>1, <2>3, <3>1, GatewayFreesLock
  <2>4. CASE state # "closed"
    <3>1. LockInv' /\ PhaseInv' /\ UserInv'
      BY <1>2, <2>1, <2>4 DEF LockInv, PhaseInv, UserInv
    <3>2. Vacant => Vacant'
      BY <2>1, <2>4 DEF Vacant, IsCurrent
    <3>3. VacantInv'
      BY <1>2, <2>1, <2>2, <3>2 DEF VacantInv
    <3> QED
      BY <2>1, <2>2, <2>4, <3>1, <3>3, GatewayShows
  <2> QED
    BY <2>3, <2>4
<1>13. CASE UserSpeaks
  <2>1. /\ gateway.at = "userState" /\ gateway'.at = "stateSent" /\ gateway'.op = gateway.op
        /\ gateway.op # "close" /\ Vacant
        /\ UNCHANGED <<turn_id, generation_id, turns, response_task, speech, speech_active,
                       consumer, faults, turn_lock>>
        /\ \/ state = "closed" /\ state' = state
           \/ state # "closed" /\ state' = "user_speaking"
    BY <1>1, <1>2, <1>13 DEF UserSpeaks, GatewayEnters, PhaseInv, VacantInv
  <2>2. CASE state = "closed"
    <3>1. QuietInv' /\ PhaseInv'
      BY <1>2, <2>1, <2>2 DEF QuietInv, Quiet, PhaseInv
    <3> QED
      BY <2>1, <2>2, <3>1, GatewayFreesLock
  <2>3. CASE state # "closed"
    <3>1. LockInv' /\ PhaseInv'
      BY <1>2, <2>1, <2>3 DEF LockInv, PhaseInv
    <3>2. VacantInv'
      BY <2>1, <2>3 DEF VacantInv, Vacant, IsCurrent
    <3>3. \A u \in Turns : response_task # u
      BY <1>2, <2>1, <2>3 DEF AnswerInv, Vacant, IsCurrent
    <3>4. UserInv'
      <4>1. speech_active
        BY <1>2, <2>1 DEF PhaseInv
      <4>2. UserTaken'
        BY <2>1, <4>1 DEF UserTaken
      <4> QED
        BY <2>1, <3>3, <4>2 DEF UserInv
    <3> QED
      BY <2>1, <2>3, <3>1, <3>2, <3>4, GatewayShows
  <2> QED
    BY <2>2, <2>3
<1>14. CASE CancelAnswered
  <2>1. /\ gateway.at = "clearSent" /\ gateway'.at = "stateSent" /\ gateway'.op = gateway.op
        /\ gateway.op \in {"cancel", "revoked", "close"} /\ Vacant /\ turn_lock = Gateway
        /\ UNCHANGED <<turn_id, generation_id, turns, response_task, speech,
                       consumer, faults, turn_lock>>
        /\ speech_active' = IF gateway.op = "close" THEN FALSE ELSE speech_active
        /\ \/ state = "closed" /\ state' = state
           \/ /\ state # "closed"
              /\ state' = IF gateway.op = "close" THEN "closed" ELSE "listening"
    BY <1>1, <1>2, <1>14 DEF CancelAnswered, GatewayEnters, LockInv, VacantInv
  <2>2. LockInv'
    BY <1>2, <2>1 DEF LockInv
  <2>3. PhaseInv'
    BY <1>2, <2>1 DEF PhaseInv
  <2>4. VacantInv'
    BY <2>1 DEF VacantInv, Vacant, IsCurrent
  <2>5. CASE state = "closed"
    <3>1. QuietInv'
      BY <2>1, <2>5 DEF QuietInv, Quiet
    <3> QED
      BY <2>1, <2>2, <2>3, <2>4, <2>5, <3>1, GatewayKeepsTurns
  <2>6. CASE state # "closed"
    <3>1. UserInv'
      BY <2>1, <2>6 DEF UserInv
    <3> QED
      BY <2>1, <2>2, <2>3, <2>4, <2>6, <3>1, GatewayShows
  <2> QED
    BY <2>5, <2>6
<1>15. CASE CloseUnheard
  <2>1. /\ gateway.at \in {"clearSent", "stateSent"} /\ gateway.op = "close"
        /\ gateway'.at = "retiring" /\ gateway'.op = gateway.op
        /\ turn_lock = Gateway /\ turn_lock' = Nobody /\ state' = "closed"
        /\ UNCHANGED <<turn_id, generation_id, turns, response_task, speech, speech_active,
                       consumer, faults>>
    BY <1>1, <1>2, <1>15 DEF CloseUnheard, LockInv
  <2>2. Vacant \/ state = "closed"
    BY <1>2, <1>15 DEF CloseUnheard, VacantInv, LockInv
  <2>3. LockInv'
    BY <1>2, <2>1, OwnersDiffer DEF LockInv
  <2>4. PhaseInv'
    BY <1>2, <2>1 DEF PhaseInv
  <2>5. VacantInv'
    BY <2>1 DEF VacantInv, Vacant, IsCurrent
  <2>6. CASE state = "closed"
    <3>1. QuietInv'
      BY <2>1 DEF QuietInv, Quiet
    <3> QED
      BY <2>1, <2>3, <2>4, <2>5, <2>6, <3>1, GatewayKeepsTurns
  <2>7. CASE state # "closed"
    <3>1. UserInv'
      BY <2>1 DEF UserInv
    <3> QED
      BY <2>1, <2>2, <2>3, <2>4, <2>5, <2>7, <3>1, GatewayShows
  <2> QED
    BY <2>6, <2>7
<1>16. CASE TakeTurnLock
  <2>1. /\ gateway.at \in {"lock", "leaving"} /\ turn_lock = Nobody
        /\ gateway.at = "leaving" => gateway.op = "close"
        /\ UNCHANGED <<state, turn_id, speech_active, speech, consumer, faults>>
    BY <1>2, <1>16 DEF TakeTurnLock, PhaseInv
  <2>2. CASE state = "closed"
    <3>1. /\ gateway'.at = IF gateway.at = "leaving" THEN "retiring" ELSE "idle"
          /\ gateway'.op = gateway.op
          /\ UNCHANGED <<generation_id, turn_lock, turns, response_task>>
      BY <1>1, <1>16, <2>2 DEF TakeTurnLock
    <3>2. PhaseInv'
      BY <1>2, <2>1, <2>2, <3>1 DEF PhaseInv
    <3>3. QuietInv' /\ Vacant
      BY <2>1, <2>2 DEF QuietInv, Quiet, Vacant, IsCurrent
    <3> QED
      BY <2>1, <2>2, <3>1, <3>2, <3>3, GatewayFreesLock
  <2>3. CASE state # "closed" /\ gateway.op \in {"text", "audio"} /\ turn_id >= max_turns
    <3>1. /\ gateway'.at = "limitSent" /\ gateway'.op = gateway.op /\ turn_lock' = Gateway
          /\ UNCHANGED <<generation_id, turns, response_task>>
      BY <1>1, <1>16, <2>3 DEF TakeTurnLock
    <3>2. gateway.at = "lock"
      BY <2>1, <2>3
    <3>3. LockInv'
      BY <1>2, <2>1, <3>1, OwnersDiffer DEF LockInv
    <3>4. PhaseInv'
      BY <1>2, <2>1, <2>3, <3>1 DEF PhaseInv
    <3>5. speech_active => Vacant /\ Quiet
      BY <1>2, <2>3, <3>2 DEF VacantInv, QuietInv
    <3>6. Vacant => Vacant'
      BY <2>1, <3>1 DEF Vacant, IsCurrent
    <3>7. VacantInv'
      BY <2>1, <3>1, <3>5, <3>6, OwnersDiffer DEF VacantInv
    <3>8. QuietInv'
      BY <1>4, <2>1, <3>1, <3>4, <3>5
    <3>9. turn_id = max_turns
      BY <2>3 DEF TypeInv, TypeOK
    <3>10. UserTaken'
      BY <2>1, <3>9 DEF UserTaken
    <3> QED
      BY <2>1, <3>1, <3>3, <3>4, <3>7, <3>8, <3>10, GatewayKeepsTurns
  <2>4. CASE state # "closed" /\ ~(gateway.op \in {"text", "audio"} /\ turn_id >= max_turns)
    <3> DEFINE operation == IF gateway.op \in {"text", "audio"} /\ ~authorized
                              THEN "revoked" ELSE gateway.op
    <3>1. CancelActive(operation) /\ turn_lock' = Gateway
      BY <1>16, <2>4 DEF TakeTurnLock
    <3>2. operation \in Operations
      BY DEF TypeInv, TypeOK, GatewayRecord, Operations
    <3>3. operation = gateway.op \/ (operation = "revoked" /\ gateway.op \in {"text", "audio"})
      OBVIOUS
    <3> HIDE DEF operation
    <3> QED
      BY <2>1, <3>1, <3>2, <3>3, CancelKeepsState
  <2> QED
    BY <2>2, <2>3, <2>4
<1>17. CASE BeginTurn
  <2> DEFINE n == turn_id + 1
  <2>1. /\ gateway.at = "clearSent" /\ gateway.op \in {"text", "audio"}
        /\ gateway'.at = "idle" /\ gateway'.op = "none"
        /\ turn_lock = Gateway /\ turn_lock' = Nobody
        /\ UNCHANGED <<state, speech, consumer, faults>>
        /\ turn_id' = n /\ response_task' = n /\ generation_id' = generation_id + 1
        /\ gateway.op = "audio" => Quiet
    BY <1>1, <1>2, <1>17 DEF BeginTurn, LockInv, QuietInv
  <2>2. ~speech_active'
    BY <1>2, <1>17, <2>1 DEF BeginTurn, PhaseInv
  <2>3. n \in Turns /\ turn_id \in Nat /\ generation_id \in Nat
    BY <1>17 DEF BeginTurn, TypeInv, TypeOK, TurnsLeft, Turns
  <2>4. /\ \A u \in Turns : u # n => turns'[u] = turns[u]
        /\ turns'[n] = [kind |-> gateway.op, gen |-> generation_id + 1, cancel |-> FALSE,
                        at |-> "new", stream |-> FALSE, phrases |-> 0]
    BY <1>17, <2>3 DEF BeginTurn, TypeInv, TypeOK
  <2>5. turns[n].at = "none" /\ speech[n].at = "none"
    BY <2>3 DEF GenerationInv, Begun
  <2>6. turns'[n].at = "new" /\ turns'[n].gen = generation_id' /\ ~turns'[n].cancel
        /\ turns'[n].kind = gateway.op
    BY <2>1, <2>4
  <2>7. ASSUME NEW u \in Turns, u # n PROVE turns'[u].gen # generation_id'
    <3>1. turns[u].gen \in Nat /\ turns[u].gen <= generation_id
      BY DEF TypeInv, TypeOK, TurnRecord, GenerationInv, Begun
    <3>2. turns'[u].gen = turns[u].gen
      BY <2>4, <2>7
    <3> QED
      BY <2>1, <2>3, <3>1, <3>2
  <2> HIDE DEF n
  <2>8. LockInv'
    BY <1>2, <2>1, <2>4, <2>6, OwnersDiffer DEF LockInv
  <2>9. PhaseInv'
    BY <1>2, <2>1, <2>2 DEF PhaseInv
  <2>10. VacantInv'
    BY <2>1, <2>2, OwnersDiffer DEF VacantInv
  <2>11. QuietInv'
    <3>1. ASSUME NEW u \in Turns, IsCurrent(u)', turns'[u].kind = "audio" PROVE Quiet'
      <4>1. u = n
        BY <2>7, <3>1 DEF IsCurrent
      <4> QED
        BY <2>1, <2>6, <3>1, <4>1 DEF Quiet
    <3> QED
      BY <2>1, <2>2, <3>1 DEF QuietInv
  <2>12. AnswerInv'
    <3> SUFFICES ASSUME NEW u \in Turns
                 PROVE  /\ response_task' = u => turns'[u].at # "none" /\ turns'[u].gen = generation_id'
                        /\ turns'[u].at # "none" /\ turns'[u].gen = generation_id' => ~turns'[u].cancel
                        /\ turns'[u].at \in TranscribingAt => speech'[u].at = "none"
                        /\ speech'[u].at = "none" => /\ speech'[u].queued = 0
                                                     /\ turns'[u].at \notin {"think"} \cup AnsweringAt
                        /\ Clean' /\ IsCurrent(u)' /\ (turns'[u].at \in AnsweringAt \/ Speaks(u)')
                             => Answering'
                        /\ Clean' /\ turns'[u].at \in {"metricsSent", "failSent"}
                             => speech'[u].at \in {"none", "done"}
      BY DEF AnswerInv
    <3>1. Clean' = Clean /\ (Speaks(u)' <=> Speaks(u))
      BY <2>1 DEF Clean, Speaks
    <3>2. CASE u = n
      <4>1. speech'[u].at = "none" /\ speech'[u].queued = 0 /\ ~Speaks(u)
        BY <1>2, <2>1, <2>5, <3>2 DEF AnswerInv, Speaks
      <4> QED
        BY <2>6, <3>1, <3>2, <4>1 DEF AnsweringAt
    <3>3. CASE u # n
      <4>1. ~IsCurrent(u)' /\ turns'[u].gen # generation_id' /\ response_task' # u
        BY <2>1, <2>7, <3>3 DEF IsCurrent
      <4>2. turns'[u] = turns[u] /\ speech' = speech
        BY <2>1, <2>4, <3>3
      <4> QED
        BY <1>2, <3>1, <4>1, <4>2 DEF AnswerInv
    <3> QED
      BY <3>2, <3>3
  <2>13. UserInv'
    <3>1. response_task' # 0
      BY <2>1, <2>3 DEF Turns
    <3> QED
      BY <2>1, <2>6, <3>1 DEF UserInv, UserTaken
  <2>14. TableIsRespected'
    BY <2>1 DEF StateInv, TableIsRespected
  <2> QED
    BY <2>8, <2>9, <2>10, <2>11, <2>12, <2>13, <2>14 DEF StateInv
<1>18. CASE CancelRetired
  <2>1. /\ gateway.at = "retiring" /\ state = "closed"
        /\ gateway'.at \in {"closed", "reaping"} /\ gateway'.op = gateway.op
        /\ UNCHANGED <<state, turn_id, generation_id, speech_active, turn_lock, response_task,
                       consumer, faults>>
    BY <1>1, <1>2, <1>18 DEF CancelRetired, PhaseInv
  <2>2. CASE UNCHANGED <<turns, speech>>
    <3>1. PhaseInv'
      BY <1>2, <2>1 DEF PhaseInv
    <3>2. QuietInv' /\ Vacant
      BY <2>1 DEF QuietInv, Quiet, Vacant, IsCurrent
    <3> QED
      BY <2>1, <2>2, <3>1, <3>2, GatewayFreesLock
  <2>3. CASE TasksCancelled(RetiredResponses, RetiredSpeech)
    <3>1. RetiredResponses \subseteq Turns /\ RetiredSpeech \subseteq Turns
      BY DEF RetiredResponses, RetiredSpeech
    <3>2. \A u \in Turns :
            /\ turns'[u].gen = turns[u].gen /\ turns'[u].cancel = turns[u].cancel
            /\ turns'[u].at = "none" <=> turns[u].at = "none"
            /\ \/ turns'[u].at = turns[u].at
               \/ turns'[u].at \in {"cancelling", "none", "done", "closeStream", "stopSpeech"}
      <4> TAKE u \in Turns
      <4>1. turns'[u] = [turns[u] EXCEPT
                            !.at = IF u \in RetiredResponses THEN CancelledAt(u) ELSE @]
        BY <2>3, <3>1, TasksCancelledTurns
      <4>2. turns[u] \in TurnRecord
        BY DEF TypeInv, TypeOK
      <4>3. /\ turns'[u].at = IF u \in RetiredResponses THEN CancelledAt(u) ELSE turns[u].at
            /\ turns'[u].gen = turns[u].gen /\ turns'[u].cancel = turns[u].cancel
        BY <4>1, <4>2 DEF TurnRecord
      <4> QED
        BY <4>3, RunningTasksStay, HandlersLeadOn
    <3>3. \A u \in Turns :
            /\ speech'[u].queued = speech[u].queued
            /\ speech'[u].at = "none" <=> speech[u].at = "none"
            /\ speech[u].at = "done" => speech'[u].at = "done"
      <4> TAKE u \in Turns
      <4>1. speech'[u] = [speech[u] EXCEPT
                             !.at = IF u \in RetiredSpeech THEN SpeechCancelledAt(u) ELSE @]
        BY <2>3, <3>1, TasksCancelledTurns
      <4>2. speech[u] \in SpeechRecord
        BY DEF TypeInv, TypeOK
      <4>3. /\ speech'[u].at = IF u \in RetiredSpeech THEN SpeechCancelledAt(u) ELSE speech[u].at
            /\ speech'[u].queued = speech[u].queued
        BY <4>1, <4>2 DEF SpeechRecord
      <4> QED
        BY <4>3, RunningTasksStay DEF SpeechCancelledAt
    <3>4. LockInv'
      BY <1>2, <2>1, <3>2 DEF LockInv
    <3>5. PhaseInv'
      BY <1>2, <2>1 DEF PhaseInv
    <3>6. VacantInv' /\ QuietInv'
      BY <2>1 DEF VacantInv, Vacant, IsCurrent, QuietInv, Quiet
    <3>7. AnswerInv'
      <4>1. Clean' = Clean /\ \A u \in Turns : ~IsCurrent(u)'
        BY <2>1 DEF Clean, IsCurrent
      <4>2. \A u \in Turns :
              turns'[u].at \in TranscribingAt \cup AnsweringAt \cup {"think", "metricsSent", "failSent"}
                => turns'[u].at = turns[u].at
        BY <3>2 DEF TranscribingAt, AnsweringAt
      <4> QED
        BY <1>2, <2>1, <3>2, <3>3, <4>1, <4>2 DEF AnswerInv
    <3>8. UserInv' /\ TableIsRespected'
      BY <2>1 DEF UserInv, StateInv, TableIsRespected
    <3> QED
      BY <3>4, <3>5, <3>6, <3>7, <3>8 DEF StateInv
  <2> QED
    BY <1>18, <2>2, <2>3 DEF CancelRetired
<1> QED
  BY <1>5, <1>6, <1>7, <1>8, <1>9, <1>10, <1>11, <1>12, <1>13, <1>14, <1>15, <1>16, <1>17, <1>18
     DEF GatewayStep

(* The client, a transport that is gone, and what may fail outside the session. *)
LEMMA OthersKeepState ==
  ASSUME TypeInv, GenerationInv, StateInv, Client \/ LeaveFailedTransport \/ Environment
  PROVE  StateInv'
<1> USE DEF session, locks, responses, environment, history
<1>1. /\ \A p : GatewayGoes(p) => gateway'.at = p /\ gateway'.op = gateway.op
      /\ \A p, o : GatewayDoes(p, o) => gateway'.at = p /\ gateway'.op = o
  BY GatewayMoves
<1>2. LockInv /\ PhaseInv /\ VacantInv /\ QuietInv /\ AnswerInv /\ UserInv
  BY DEF StateInv
<1>3. CASE Start
  <2>1. /\ gateway.at = "ready" /\ gateway'.at = "startSent" /\ gateway'.op = gateway.op
        /\ state = "ready" /\ state' = "listening" /\ turn_lock' = Gateway /\ turn_id = 0
        /\ gateway.op # "close"
        /\ UNCHANGED <<turn_id, generation_id, turns, response_task, speech, speech_active,
                       consumer, faults>>
    BY <1>1, <1>2, <1>3 DEF Start, PhaseInv
  <2>2. \A u \in Turns : turns[u].at = "none"
    BY <2>1 DEF GenerationInv, Begun, Turns
  <2>3. Vacant /\ Vacant'
    BY <2>1, <2>2 DEF Vacant
  <2>4. LockInv' /\ VacantInv' /\ UserInv'
    BY <2>1, <2>2, <2>3 DEF LockInv, VacantInv, UserInv
  <2>5. PhaseInv'
    BY <1>2, <2>1 DEF PhaseInv
  <2> QED
    BY <2>1, <2>3, <2>4, <2>5, GatewayShows
<1>4. CASE Frame \/ SubmitText \/ Cancel
  <2>1. /\ gateway.at = "idle"
        /\ UNCHANGED <<state, turn_id, generation_id, turns, response_task, speech, speech_active,
                       turn_lock, consumer, faults>>
        /\ \/ gateway'.at = "vad" /\ gateway'.op = "frame"
           \/ gateway'.at = "lock" /\ gateway'.op \in {"text", "cancel"}
    BY <1>1, <1>4 DEF Frame, SubmitText, Cancel, Input
  <2>2. gateway.op # "close" /\ (speech_active => Vacant /\ Quiet)
    BY <1>2, <2>1 DEF PhaseInv, VacantInv, QuietInv
  <2>3. PhaseInv'
    BY <1>2, <2>1, <2>2 DEF PhaseInv
  <2>4. QuietInv'
    BY <1>2, <2>1, <2>2 DEF QuietInv, Quiet, IsCurrent
  <2>5. state = "user_speaking" => UserTaken'
    BY <1>2, <2>1, <2>2 DEF UserInv, UserTaken
  <2> QED
    BY <2>1, <2>2, <2>3, <2>4, <2>5, GatewayFreesLock
<1>5. CASE Leave
  <2>1. /\ gateway.at \in {"ready", "idle"} /\ gateway'.at = "leaving" /\ gateway'.op = "close"
        /\ UNCHANGED <<state, turn_id, generation_id, turns, response_task, speech, speech_active,
                       turn_lock, consumer, faults>>
    BY <1>1, <1>5 DEF Leave
  <2>2. PhaseInv'
    BY <1>2, <2>1 DEF PhaseInv
  <2>3. QuietInv'
    BY <1>2, <2>1 DEF QuietInv, Quiet, IsCurrent
  <2>4. UserTaken'
    BY <2>1 DEF UserTaken
  <2> QED
    BY <2>1, <2>2, <2>3, <2>4, GatewayFreesLock
<1>6. CASE Environment
  <2>1. /\ UNCHANGED <<state, turn_id, generation_id, turns, response_task, speech, speech_active,
                       turn_lock, gateway>>
        /\ faults \subseteq faults' /\ ("table" \in faults' => "table" \in faults)
        /\ consumer' = "slow" => "slow" \in faults'
        /\ consumer = "gone" => consumer' = "gone"
    BY <1>2, <1>6, FaultsGrow
       DEF Environment, ConsumerStalls, ConsumerRecovers, ConsumerGone, Revoke, PhaseInv
  <2>2. LockInv' /\ PhaseInv'
    BY <1>2, <2>1 DEF LockInv, PhaseInv
  <2>3. VacantInv'
    BY <1>2, <2>1 DEF VacantInv, Vacant, IsCurrent
  <2>4. QuietInv'
    BY <1>2, <2>1 DEF QuietInv, Quiet, IsCurrent
  <2>5. state = "user_speaking" => UserTaken'
    BY <1>2, <2>1 DEF UserInv, UserTaken
  <2> QED
    BY <2>1, <2>2, <2>3, <2>4, <2>5, GatewayKeepsTurns
<1> QED
  BY <1>3, <1>4, <1>5, <1>6 DEF Client, LeaveFailedTransport

(* The invariant is inductive, with the types and the generations. *)
LEMMA StepKeepsState ==
  TypeInv /\ GenerationInv /\ StateInv /\ [Next]_vars => StateInv'
<1> SUFFICES ASSUME TypeInv, GenerationInv, StateInv, [Next]_vars PROVE StateInv'
  OBVIOUS
<1>1. CASE UNCHANGED vars
  <2> USE DEF vars, session, locks, responses, environment, history
  <2>1. LockInv' /\ PhaseInv'
    BY <1>1 DEF StateInv, LockInv, PhaseInv
  <2>2. VacantInv' /\ QuietInv'
    BY <1>1 DEF StateInv, VacantInv, QuietInv, Vacant, Quiet, IsCurrent
  <2>3. state = "user_speaking" => UserTaken'
    BY <1>1 DEF StateInv, UserInv, UserTaken
  <2> QED
    BY <1>1, <2>1, <2>2, <2>3, GatewayKeepsTurns
<1>2. CASE Client \/ LeaveFailedTransport \/ Environment
  BY <1>2, OthersKeepState
<1>3. CASE System
  BY <1>2, <1>3, ResponseKeepsState, SpeechKeepsState, GatewayKeepsState DEF System
<1> QED
  BY <1>1, <1>2, <1>3 DEF Next

(* Whatever fails, and in whatever order the receive loop, the responses and their
   workers run: no task asks for a transition that the table forbids, unless the
   voice detector or an adapter failed under a worker that still spoke; and between
   two messages a session that says the user is speaking collects an utterance or
   has a response that is about to take over. *)
THEOREM StateIsSoundCorrect == Spec => []StateIsSound
<1>1. Init => TypeInv /\ GenerationInv /\ StateInv
  BY InitType, InitGenerations, InitState
<1>2. TypeInv /\ GenerationInv /\ StateInv /\ [Next]_vars
        => (TypeInv /\ GenerationInv /\ StateInv)'
  BY StepKeepsType, StepKeepsGenerations, StepKeepsState
<1>3. TypeInv /\ GenerationInv /\ StateInv => StateIsSound
  <2> SUFFICES ASSUME StateInv PROVE StateIsSound
    OBVIOUS
  <2>1. TableIsRespected
    BY DEF StateInv
  <2>2. UserSpeakingMeansSpeech
    BY OwnersDiffer DEF StateInv, UserInv, UserTaken, PhaseInv, UserSpeakingMeansSpeech
  <2> QED
    BY <2>1, <2>2 DEF StateIsSound
<1> QED
  BY <1>1, <1>2, <1>3, PTL DEF Spec
================================================================================
