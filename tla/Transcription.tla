---------------------------- MODULE Transcription ----------------------------
(***************************************************************************)
(* transcribe_qwen_ranges.py: the segments of a recording are decoded one   *)
(* by one, and after each the whole transcript is replaced (the checkpoint *)
(* a later run resumes from).  Nothing is locked: the source and the       *)
(* ranges are hashed again before and after every segment, the output      *)
(* before and after its new content is written aside.                      *)
(* A digest is the content; an edited file never regains an old content.   *)
(***************************************************************************)
EXTENDS Naturals, Sequences, SequencesExt

CONSTANTS
  Transcriber,  \* processes given the same output, at the same time or in turn
  Segments,     \* how many segments the ranges request
  MaxSourceEdits      \* bound: changes of the source or of the ranges

ASSUME TranscriptionAssumption == Segments \in Nat \ {0} /\ MaxSourceEdits \in Nat

VARIABLES
  recording,    \* the source and the ranges on disk, as versions; the
                \* ranges name the source they were made for
  transcript,   \* the output file
  worker        \* each process: where it is and what it holds

transcriptVars == <<recording, transcript, worker>>

NoTranscript == [bound |-> <<>>, segments |-> <<>>]
Ready == [at |-> "idle", bound |-> <<>>, expected |-> NoTranscript, done |-> <<>>,
          heard |-> 0]

TranscriptInit ==
  /\ recording = [source |-> 0, ranges |-> 0, of |-> 0]
  /\ transcript = NoTranscript
  /\ worker = [w \in Transcriber |-> Ready]

(* _identity: what a transcript is bound to. *)
Identity == <<recording.source, recording.ranges>>
Unchanged(w) == worker[w].bound = Identity

Put(w, entry) == worker' = [worker EXCEPT ![w] = entry]
OnlyWorker == UNCHANGED <<recording, transcript>>

(* transcribe_ranges binds its inputs, and accepts an existing output only  *)
(* when it names the same inputs and holds a prefix of the segments (a     *)
(* longer or a complete one ends the run).                                 *)
Bind(w) ==
  /\ worker[w].at = "idle" /\ recording.of = recording.source
  /\ Put(w, [Ready EXCEPT !.at = "resume", !.bound = Identity]) /\ OnlyWorker

Resume(w) ==
  /\ worker[w].at = "resume"
  /\ IF transcript = NoTranscript \/ transcript.bound = worker[w].bound
     THEN Put(w, IF Len(transcript.segments) = Segments THEN Ready
                 ELSE [worker[w] EXCEPT !.at = "verify", !.expected = transcript,
                                        !.done = transcript.segments])
     ELSE Put(w, Ready)
  /\ OnlyWorker

(* _verify_file_unchanged before a segment, and again after it. *)
VerifyBefore(w) ==
  /\ worker[w].at = "verify"
  /\ Put(w, IF Unchanged(w) THEN [worker[w] EXCEPT !.at = "read"] ELSE Ready)
  /\ OnlyWorker

(* _read_segment_pcm. *)
ReadSegment(w) ==
  /\ worker[w].at = "read"
  /\ Put(w, [worker[w] EXCEPT !.at = "decoded", !.heard = recording.source])
  /\ OnlyWorker

(* Mutant: the source is not hashed again. *)
KeepSegment(w) ==
  /\ worker[w].at = "decoded"
  /\ Put(w, [worker[w] EXCEPT !.at = "checkpoint", !.heard = 0,
                              !.done = Append(@, worker[w].heard)])
  /\ OnlyWorker

VerifyAfter(w) ==
  /\ worker[w].at = "decoded"
  /\ Put(w, IF Unchanged(w)
            THEN [worker[w] EXCEPT !.at = "checkpoint", !.heard = 0,
                                   !.done = Append(@, worker[w].heard)]
            ELSE Ready)
  /\ OnlyWorker

(* _atomic_checkpoint: the output is what this process last read or wrote,  *)
(* when its temporary file is begun and again when it is complete ...      *)
OutputIsExpected(w) == transcript = worker[w].expected

WriteAside(w) ==
  /\ worker[w].at = "checkpoint"
  /\ Put(w, IF OutputIsExpected(w) THEN [worker[w] EXCEPT !.at = "recheck"] ELSE Ready)
  /\ OnlyWorker

CheckAgain(w) ==
  /\ worker[w].at = "recheck"
  /\ Put(w, IF OutputIsExpected(w) THEN [worker[w] EXCEPT !.at = "replace"] ELSE Ready)
  /\ OnlyWorker

(* ... and os.replace. *)
Replace(w) ==
  /\ worker[w].at = "replace"
  /\ transcript' = [bound |-> worker[w].bound, segments |-> worker[w].done]
  /\ Put(w, IF Len(worker[w].done) = Segments THEN Ready
            ELSE [worker[w] EXCEPT !.at = "verify", !.expected = transcript'])
  /\ UNCHANGED recording

(* The model raises, or the process is killed: what was aside is lost.     *)
Die(w) == worker[w].at # "idle" /\ Put(w, Ready) /\ OnlyWorker

(* Somebody changes the recording, or makes ranges for the one there is.    *)
ChangeSource ==
  /\ recording.source < MaxSourceEdits
  /\ recording' = [recording EXCEPT !.source = @ + 1]
  /\ UNCHANGED <<transcript, worker>>

ChangeRanges ==
  /\ recording.ranges < MaxSourceEdits
  /\ recording' = [recording EXCEPT !.ranges = @ + 1, !.of = recording.source]
  /\ UNCHANGED <<transcript, worker>>

TranscriptNext ==
  \/ \E w \in Transcriber :
       \/ Bind(w) \/ Resume(w) \/ VerifyBefore(w) \/ ReadSegment(w) \/ VerifyAfter(w)
       \/ WriteAside(w) \/ CheckAgain(w) \/ Replace(w) \/ Die(w)
  \/ ChangeSource \/ ChangeRanges

TranscriptSpec == TranscriptInit /\ [][TranscriptNext]_transcriptVars

-----------------------------------------------------------------------------
(* Every segment of a transcript was decoded from the source the transcript *)
(* names, whatever was edited between two checkpoints or two runs, and it  *)
(* never has more segments than were asked for.                            *)
TranscriptIsOfItsSource ==
  /\ Len(transcript.segments) <= Segments
  /\ \A i \in DOMAIN transcript.segments :
       transcript.segments[i] = transcript.bound[1]

(* A checkpoint only adds to the one before.  Two processes with one output *)
(* break this: the output may change between CheckAgain and Replace, and   *)
(* the slower process then takes back what the faster one has reached.     *)
CheckpointsGrow ==
  [][ transcript' # transcript =>
        /\ transcript.bound \in {<<>>, transcript'.bound}
        /\ IsStrictPrefix(transcript.segments, transcript'.segments) ]_transcriptVars
=============================================================================
