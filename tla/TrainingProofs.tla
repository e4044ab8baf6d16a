--------------------------- MODULE TrainingProofs ---------------------------
(***************************************************************************)
(* Proofs about the commands that make models and skills: transcripts, the *)
(* clips of a recording, the dataset of a training job, the jobs of the    *)
(* GPU worker, and the registry of the forge.                              *)
(***************************************************************************)
EXTENDS Transcription, Segmentation, TrainingManifest, GpuJob, Forge, FiniteSetTheorems, TLAPS

(* Transcription                                                           *)

WorkerAts == {"idle", "resume", "verify", "read", "decoded", "checkpoint", "recheck", "replace"}
Bounds == {<<>>} \cup (Nat \X Nat)
Transcripts == [bound : Bounds, segments : Seq(Nat)]
Workers == [at : WorkerAts, bound : Bounds, expected : Transcripts, done : Seq(Nat), heard : Nat]

\* Every segment of s was decoded from the source that b names.
IsOf(s, b) == Len(s) <= Segments /\ \A i \in DOMAIN s : s[i] = b[1]

\* What a process holds is of the source it is bound to, with room for the segment it
\* decodes; what it has heard is no older than that source and no newer than the disk.
HoldsItsSource(e) ==
  /\ e.at # "idle" => e.bound \in Nat \X Nat /\ e.bound[1] <= recording.source
  /\ e.at \notin {"idle", "resume"} => IsOf(e.done, e.bound)
  /\ e.at \in {"verify", "read", "decoded"} => Len(e.done) < Segments
  /\ e.at = "decoded" => e.bound[1] <= e.heard /\ e.heard <= recording.source

TranscriptIInv ==
  /\ recording \in [source : Nat, ranges : Nat, of : Nat]
  /\ transcript \in Transcripts
  /\ worker \in [Transcriber -> Workers]
  /\ IsOf(transcript.segments, transcript.bound)
  /\ \A w \in Transcriber : HoldsItsSource(worker[w])

LEMMA TranscriptInitSound == TranscriptInit => TranscriptIInv
  BY TranscriptionAssumption
     DEF TranscriptInit, TranscriptIInv, NoTranscript, Ready, Transcripts, Workers, WorkerAts,
         Bounds, IsOf, HoldsItsSource

LEMMA ReadyHolds == Ready \in Workers /\ HoldsItsSource(Ready)
  BY DEF Ready, NoTranscript, Transcripts, Workers, WorkerAts, Bounds, HoldsItsSource

\* A step of one process that leaves the files alone.
LEMMA WorkerMoves ==
  ASSUME TranscriptIInv, NEW w \in Transcriber, NEW entry \in Workers,
         HoldsItsSource(entry), Put(w, entry), OnlyWorker
  PROVE  TranscriptIInv'
<1>1. recording' = recording /\ transcript' = transcript
  BY DEF OnlyWorker
<1>2. worker' \in [Transcriber -> Workers]
  BY DEF Put, TranscriptIInv
<1>3. \A v \in Transcriber : worker'[v] = IF v = w THEN entry ELSE worker[v]
  BY DEF Put, TranscriptIInv
<1> QED BY <1>1, <1>2, <1>3 DEF TranscriptIInv, HoldsItsSource

LEMMA TranscriptStepSound ==
  TranscriptIInv /\ [TranscriptNext]_transcriptVars => TranscriptIInv'
<1> SUFFICES ASSUME TranscriptIInv, [TranscriptNext]_transcriptVars PROVE TranscriptIInv'
  OBVIOUS
<1> USE TranscriptionAssumption
<1>1. ASSUME NEW w \in Transcriber PROVE worker[w] \in Workers /\ HoldsItsSource(worker[w])
  BY DEF TranscriptIInv
<1>2. ASSUME NEW w \in Transcriber, Bind(w) PROVE TranscriptIInv'
  <2> DEFINE entry == [Ready EXCEPT !.at = "resume", !.bound = Identity]
  <2>1. entry \in Workers /\ HoldsItsSource(entry)
    <3>1. /\ Identity \in Nat \X Nat /\ Identity \in Bounds /\ Identity[1] = recording.source
          /\ recording.source \in Nat
      BY DEF Identity, Bounds, TranscriptIInv
    <3>2. /\ entry \in Workers /\ entry.at = "resume" /\ entry.bound = Identity
      BY <3>1, ReadyHolds DEF Workers, WorkerAts
    <3> QED BY <3>1, <3>2 DEF HoldsItsSource
  <2> QED BY <1>2, <2>1, WorkerMoves DEF Bind
<1>3. ASSUME NEW w \in Transcriber, Resume(w) PROVE TranscriptIInv'
  <2> DEFINE entry == [worker[w] EXCEPT !.at = "verify", !.expected = transcript,
                                        !.done = transcript.segments]
  <2>1. CASE /\ transcript = NoTranscript \/ transcript.bound = worker[w].bound
             /\ Len(transcript.segments) # Segments
    <3>1. IsOf(transcript.segments, worker[w].bound)
      BY <2>1 DEF TranscriptIInv, IsOf, NoTranscript
    <3>2. Len(transcript.segments) < Segments
      BY <2>1 DEF TranscriptIInv, IsOf, Transcripts
    <3>3. entry \in Workers
      BY <1>1, <1>3 DEF TranscriptIInv, Workers, WorkerAts, Transcripts
    <3>4. /\ entry.at = "verify" /\ entry.bound = worker[w].bound
          /\ entry.done = transcript.segments
      BY <1>1 DEF Workers
    <3>5. HoldsItsSource(entry)
      BY <1>1, <1>3, <3>1, <3>2, <3>4 DEF HoldsItsSource, Resume
    <3> QED BY <1>3, <2>1, <3>3, <3>5, WorkerMoves DEF Resume
  <2> QED BY <1>3, <2>1, ReadyHolds, WorkerMoves DEF Resume
<1>4. ASSUME NEW w \in Transcriber, VerifyBefore(w) PROVE TranscriptIInv'
  <2> DEFINE entry == [worker[w] EXCEPT !.at = "read"]
  <2>1. entry \in Workers /\ HoldsItsSource(entry)
    BY <1>1, <1>4 DEF VerifyBefore, Workers, WorkerAts, HoldsItsSource
  <2> QED BY <1>4, <2>1, ReadyHolds, WorkerMoves DEF VerifyBefore
<1>5. ASSUME NEW w \in Transcriber, ReadSegment(w) PROVE TranscriptIInv'
  <2> DEFINE entry == [worker[w] EXCEPT !.at = "decoded", !.heard = recording.source]
  <2>1. entry \in Workers /\ HoldsItsSource(entry)
    <3>1. recording.source \in Nat
      BY DEF TranscriptIInv
    <3>2. /\ entry \in Workers /\ entry.at = "decoded" /\ entry.heard = recording.source
          /\ entry.bound = worker[w].bound /\ entry.done = worker[w].done
      BY <1>1, <3>1 DEF Workers, WorkerAts
    <3>3. worker[w].at = "read"
      BY <1>5 DEF ReadSegment
    <3> QED BY <1>1, <3>1, <3>2, <3>3 DEF HoldsItsSource
  <2> QED BY <1>5, <2>1, WorkerMoves DEF ReadSegment
<1>6. ASSUME NEW w \in Transcriber, VerifyAfter(w) PROVE TranscriptIInv'
  <2> DEFINE entry == [worker[w] EXCEPT !.at = "checkpoint", !.heard = 0,
                                        !.done = Append(@, worker[w].heard)]
  <2>1. CASE Unchanged(w)
    <3>1. worker[w].heard = worker[w].bound[1]
      BY <1>1, <1>6, <2>1 DEF VerifyAfter, Unchanged, Identity, HoldsItsSource, Workers,
                              TranscriptIInv
    <3>2. /\ worker[w].done \in Seq(Nat) /\ worker[w].heard \in Nat
          /\ Len(worker[w].done) < Segments /\ IsOf(worker[w].done, worker[w].bound)
      BY <1>1, <1>6 DEF VerifyAfter, HoldsItsSource, Workers
    <3>3. IsOf(Append(worker[w].done, worker[w].heard), worker[w].bound)
      BY <3>1, <3>2 DEF IsOf
    <3>4. entry \in Workers
      <4> DEFINE done == Append(worker[w].done, worker[w].heard)
      <4>1. done \in Seq(Nat)
        BY <3>2
      <4>2. entry = [worker[w] EXCEPT !.at = "checkpoint", !.heard = 0, !.done = done]
        BY <1>1 DEF Workers
      <4> HIDE DEF done
      <4> QED BY <1>1, <4>1, <4>2 DEF Workers, WorkerAts
    <3>5. /\ entry.at = "checkpoint" /\ entry.bound = worker[w].bound
          /\ entry.done = Append(worker[w].done, worker[w].heard)
      BY <1>1 DEF Workers
    <3>6. HoldsItsSource(entry)
      BY <1>1, <1>6, <3>3, <3>5 DEF HoldsItsSource, VerifyAfter
    <3> QED BY <1>6, <2>1, <3>4, <3>6, WorkerMoves DEF VerifyAfter
  <2> QED BY <1>6, <2>1, ReadyHolds, WorkerMoves DEF VerifyAfter
<1>7. ASSUME NEW w \in Transcriber, WriteAside(w) PROVE TranscriptIInv'
  <2> DEFINE entry == [worker[w] EXCEPT !.at = "recheck"]
  <2>1. entry \in Workers /\ HoldsItsSource(entry)
    BY <1>1, <1>7 DEF WriteAside, Workers, WorkerAts, HoldsItsSource
  <2> QED BY <1>7, <2>1, ReadyHolds, WorkerMoves DEF WriteAside
<1>8. ASSUME NEW w \in Transcriber, CheckAgain(w) PROVE TranscriptIInv'
  <2> DEFINE entry == [worker[w] EXCEPT !.at = "replace"]
  <2>1. entry \in Workers /\ HoldsItsSource(entry)
    BY <1>1, <1>8 DEF CheckAgain, Workers, WorkerAts, HoldsItsSource
  <2> QED BY <1>8, <2>1, ReadyHolds, WorkerMoves DEF CheckAgain
<1>9. ASSUME NEW w \in Transcriber, Replace(w) PROVE TranscriptIInv'
  <2> DEFINE entry == [worker[w] EXCEPT !.at = "verify", !.expected = transcript']
  <2>1. /\ transcript' = [bound |-> worker[w].bound, segments |-> worker[w].done]
        /\ recording' = recording
    BY <1>9 DEF Replace
  <2>2. IsOf(worker[w].done, worker[w].bound) /\ worker[w].done \in Seq(Nat)
    BY <1>1, <1>9 DEF Replace, HoldsItsSource, Workers
  <2>3. transcript' \in Transcripts
    BY <1>1, <2>1 DEF Transcripts, Workers
  <2>4. IsOf(transcript'.segments, transcript'.bound)
    BY <2>1, <2>2
  <2>5. PICK new \in Workers : HoldsItsSource(new) /\ Put(w, new)
    <3>1. CASE Len(worker[w].done) = Segments
      BY <1>9, <3>1, ReadyHolds DEF Replace
    <3>2. CASE Len(worker[w].done) # Segments
      <4>1. Len(worker[w].done) < Segments
        BY <2>2, <3>2 DEF IsOf
      <4>2. entry \in Workers
        BY <1>1, <2>3 DEF Workers, WorkerAts
      <4>3. entry.at = "verify" /\ entry.bound = worker[w].bound /\ entry.done = worker[w].done
        BY <1>1 DEF Workers
      <4>4. HoldsItsSource(entry)
        BY <1>1, <1>9, <2>2, <4>1, <4>3 DEF HoldsItsSource, Replace
      <4> QED BY <1>9, <3>2, <4>2, <4>4 DEF Replace
    <3> QED BY <3>1, <3>2
  <2>6. worker' \in [Transcriber -> Workers]
    BY <2>5 DEF Put, TranscriptIInv
  <2>7. \A v \in Transcriber : worker'[v] = IF v = w THEN new ELSE worker[v]
    BY <2>5 DEF Put, TranscriptIInv
  <2> QED BY <1>1, <2>1, <2>3, <2>4, <2>5, <2>6, <2>7 DEF TranscriptIInv, HoldsItsSource
<1>10. ASSUME NEW w \in Transcriber, Die(w) PROVE TranscriptIInv'
  BY <1>10, ReadyHolds, WorkerMoves DEF Die
<1>11. CASE ChangeSource \/ ChangeRanges
  <2>1. /\ recording' \in [source : Nat, ranges : Nat, of : Nat]
        /\ recording.source <= recording'.source /\ recording.source \in Nat
        /\ recording'.source \in Nat
    <3>1. recording \in [source : Nat, ranges : Nat, of : Nat]
      BY DEF TranscriptIInv
    <3>2. \/ recording' = [recording EXCEPT !.source = recording.source + 1]
          \/ recording' = [recording EXCEPT !.ranges = recording.ranges + 1,
                                          !.of = recording.source]
      BY <1>11, <3>1 DEF ChangeSource, ChangeRanges
    <3>3. CASE recording' = [recording EXCEPT !.source = recording.source + 1]
      BY <3>1, <3>3
    <3>4. CASE recording' = [recording EXCEPT !.ranges = recording.ranges + 1,
                                           !.of = recording.source]
      <4>1. recording.ranges + 1 \in Nat /\ recording.source \in Nat
        BY <3>1
      <4>2. recording' = [source |-> recording.source, ranges |-> recording.ranges + 1,
                          of |-> recording.source]
        BY <3>1, <3>4
      <4> QED BY <4>1, <4>2, <3>1
    <3> QED BY <3>2, <3>3, <3>4
  <2>2. transcript' = transcript /\ worker' = worker
    BY <1>11 DEF ChangeSource, ChangeRanges
  <2>3. ASSUME NEW w \in Transcriber PROVE HoldsItsSource(worker[w])'
    BY <1>1, <2>1, <2>2 DEF HoldsItsSource, Workers
  <2> QED BY <2>1, <2>2, <2>3 DEF TranscriptIInv
<1>12. CASE UNCHANGED transcriptVars
  BY <1>12 DEF transcriptVars, TranscriptIInv, HoldsItsSource
<1> QED BY <1>2, <1>3, <1>4, <1>5, <1>6, <1>7, <1>8, <1>9, <1>10, <1>11, <1>12
        DEF TranscriptNext

\* TranscriptIsOfItsSource: every segment of a transcript was decoded from the source
\* it names, for any number of processes, segments and edits (transcribe_ranges,
\* _verify_file_unchanged, _atomic_checkpoint).
THEOREM TranscriptsAreOfTheirSource == TranscriptSpec => []TranscriptIsOfItsSource
<1>1. TranscriptIInv => TranscriptIsOfItsSource
  BY DEF TranscriptIInv, TranscriptIsOfItsSource, IsOf
<1> QED BY <1>1, TranscriptInitSound, TranscriptStepSound, PTL DEF TranscriptSpec
-----------------------------------------------------------------------------
(* The dataset of a training job                                           *)

\* What gpu_worker.py trains on: whatever the manifests say, a validated job opens only
\* audio and references that are pinned and derived for the train split.
THEOREM TrainingReadsTrainSplit == DatasetSpec => []TrainsOnTrainSplit
<1> DEFINE Screened == screening = "valid" => TrainingManifestOK(trainingSet)
           DatasetIInv == trainingSet \in Dataset /\ Screened
<1>1. DatasetInit => DatasetIInv
  BY DEF DatasetInit
<1>2. DatasetIInv /\ [Validate]_datasetVars => DatasetIInv'
  BY DEF Validate, datasetVars, TrainingManifestOK
<1>3. DatasetIInv => TrainsOnTrainSplit
  <2> SUFFICES ASSUME DatasetIInv, screening = "valid",
                      NEW line \in trainingSet.lines, NEW clip \in ReadBy(line)
               PROVE  clip \in trainingSet.inventory /\ trainingSet.derivation[clip] = "train"
    BY DEF TrainsOnTrainSplit
  <2>1. clip \in trainingSet.inventory
    BY DEF ReadBy, TrainingManifestOK
  <2>2. PICK other \in trainingSet.lines : clip = other[1]
    BY <2>1 DEF TrainingManifestOK
  <2> QED BY <2>1, <2>2 DEF TrainingManifestOK
<1> QED BY <1>1, <1>2, <1>3, PTL DEF DatasetSpec
-----------------------------------------------------------------------------
(* The GPU worker's jobs                                                   *)

Jobs == [edition : Nat, pin : Nat]
Medias == [from : SUBSET Nat, madeAt : Nat, by : Run]
RunRecords == [edition : Nat, pin : Nat, ran : Nat, media : Medias]
Measurements == [of : Medias, passed : BOOLEAN]

CommandAts ==
  Ended \cup {"validates", "validated", "starts_training", "trains", "trained", "starts",
              "generates", "generated", "verified", "published", "loaded", "measured"}

Commands ==
  [at : CommandAts, job : Jobs \cup {NoFile}, sha : Nat, temp : Medias \cup {NoFile},
   record : RunRecords \cup {NoFile}, measured : Measurements \cup {NoFile}]

\* Where a LoRA run needs the checkpoint that it made.
Trains == {"trains", "trained", "starts", "generates"}

\* What the command c may rely on when its local state is e: the input that it pins
\* is not newer than the disk, what it made lies between the two, and after the last
\* verification, which found them equal, is of the pin.
EntryHolds(c, e) ==
  /\ e.at \notin Ended => e.job \in Jobs /\ e.job.pin <= inputVersion
  /\ c \in Run =>
       /\ mode = "lora" /\ e.at \in Trains => checkpoint \in [from : Nat]
       /\ mode = "lora" /\ e.at = "trained" =>
            e.job.pin <= checkpoint.from /\ checkpoint.from <= inputVersion
       /\ mode = "lora" /\ e.at \in {"starts", "generates"} => checkpoint.from = e.job.pin
       /\ e.at = "generated" =>
            /\ e.temp \in Medias /\ e.temp.by = c /\ e.temp.madeAt <= jobClock
            /\ e.temp.from # {}
            /\ \A v \in e.temp.from : e.job.pin <= v /\ v <= inputVersion
       /\ e.at = "verified" =>
            /\ e.temp \in Medias /\ e.temp.by = c /\ e.temp.madeAt < ValidUntil
            /\ e.temp.from = {e.job.pin}
       /\ e.at = "published" =>
            media \in Medias /\ media.by = c /\ media.from = {e.job.pin}
       /\ e.at \in {"done", "failed"} /\ e.temp # NoFile => mode = "soulx"
  /\ e.at \in {"loaded", "measured"} =>
       e.record \in RunRecords /\ e.record.media.from = {e.job.pin}

JobTypeOK ==
  /\ jobFile \in Jobs /\ jobFile.pin <= inputVersion /\ inputVersion \in Nat
  /\ jobClock \in Nat
  /\ media \in Medias \cup {NoFile} /\ checkpoint \in [from : Nat] \cup {NoFile}
  /\ runRecord \in [Run -> RunRecords \cup {NoFile}]
  /\ metrics \in Measurements \cup {NoFile}
  /\ command \in [Run \cup Final -> Commands]

\* Only the run that made the checkpoint directory is past the point where it is new.
OneTrains ==
  mode = "lora" =>
    \A r, s \in Run : command[r].at \in Trains /\ command[s].at \in Trains => r = s

JobIInv ==
  /\ JobTypeOK
  /\ OneTrains
  /\ \A c \in Run \cup Final : EntryHolds(c, command[c])
  /\ PinsWereUsed
  /\ RecordNamesTheMedia
  /\ \A r \in Run : runRecord[r] # NoFile => media # NoFile

LEMMA FreshHolds ==
  ASSUME NEW how \in Ended, NEW c
  PROVE  /\ [Fresh EXCEPT !.at = how] \in Commands
         /\ [Fresh EXCEPT !.at = how].at = how
         /\ [Fresh EXCEPT !.at = how].temp = NoFile
         /\ EntryHolds(c, [Fresh EXCEPT !.at = how])
<1> DEFINE e == [Fresh EXCEPT !.at = how]
<1>1. e \in Commands
  BY DEF Fresh, Commands, CommandAts
<1>2. e.at = how /\ e.temp = NoFile
  BY DEF Fresh
<1> HIDE DEF e
<1>3. EntryHolds(c, e)
  BY <1>2 DEF EntryHolds, Ended, Trains
<1> QED BY <1>1, <1>2, <1>3 DEF e

LEMMA JobInitSound == JobInit => JobIInv
<1> SUFFICES ASSUME JobInit PROVE JobIInv
  OBVIOUS
<1>1. Fresh = [Fresh EXCEPT !.at = "new"] /\ "new" \in Ended
  BY DEF Fresh, Ended
<1>2. JobTypeOK
  <2>1. Fresh \in Commands
    BY <1>1, FreshHolds
  <2>2. jobFile \in Jobs /\ jobFile.pin <= inputVersion /\ inputVersion \in Nat
    BY DEF JobInit, Jobs
  <2> QED BY <2>1, <2>2 DEF JobInit, JobTypeOK
<1>3. \A c \in Run \cup Final : EntryHolds(c, command[c]) /\ command[c].at = "new"
  BY <1>1, FreshHolds DEF JobInit
<1> QED BY <1>2, <1>3 DEF JobInit, JobIInv, OneTrains, Trains, PinsWereUsed, RecordNamesTheMedia

\* A step of one command that leaves the files alone.
LEMMA CommandMoves ==
  ASSUME JobIInv, NEW c \in Run \cup Final, NEW e \in Commands, EntryHolds(c, e),
         mode = "lora" /\ c \in Run /\ e.at \in Trains => command[c].at \in Trains,
         command' = [command EXCEPT ![c] = e], UNCHANGED <<world, disk>>
  PROVE  JobIInv'
<1>1. command' \in [Run \cup Final -> Commands]
  BY DEF JobIInv, JobTypeOK
<1>2. \A d \in Run \cup Final : command'[d] = IF d = c THEN e ELSE command[d]
  BY DEF JobIInv, JobTypeOK
<1>3. JobTypeOK'
  BY <1>1 DEF JobIInv, JobTypeOK, world, disk
<1>4. OneTrains'
  BY <1>2 DEF JobIInv, OneTrains, world
<1>5. \A d \in Run \cup Final : EntryHolds(d, command[d])'
  BY <1>2 DEF JobIInv, EntryHolds, world, disk
<1> QED BY <1>3, <1>4, <1>5 DEF JobIInv, PinsWereUsed, RecordNamesTheMedia, world, disk

\* A command that ends, wherever it was.
LEMMA CommandEnds ==
  ASSUME JobIInv, NEW c \in Run \cup Final, NEW how \in Ended, Ends(c, how),
         UNCHANGED <<world, disk>>
  PROVE  JobIInv'
<1>1. how \notin Trains
  BY DEF Ended, Trains
<1> QED BY <1>1, FreshHolds, CommandMoves DEF Ends

\* Time passes, and somebody edits the input or the job.
LEMMA WorldMoves ==
  ASSUME JobIInv, UNCHANGED <<mode, disk, command>>,
         inputVersion' \in Nat, jobClock' \in Nat, jobFile' \in Jobs,
         jobFile'.pin <= inputVersion', inputVersion <= inputVersion', jobClock <= jobClock'
  PROVE  JobIInv'
<1>1. JobTypeOK'
  BY DEF JobIInv, JobTypeOK, disk
<1>2. ASSUME NEW c \in Run \cup Final PROVE EntryHolds(c, command[c])'
  <2>1. EntryHolds(c, command[c]) /\ command[c] \in Commands
    BY DEF JobIInv, JobTypeOK
  <2> DEFINE e == command[c]
  <2>2. e' = e
    OBVIOUS
  <2>3. e.at \notin Ended => e.job \in Jobs /\ e.job.pin <= inputVersion'
    BY <2>1 DEF EntryHolds, JobIInv, JobTypeOK, Jobs
  <2>4. c \in Run /\ mode = "lora" /\ e.at = "trained" =>
          e.job.pin <= checkpoint.from /\ checkpoint.from <= inputVersion'
    BY <2>1 DEF EntryHolds, JobIInv, JobTypeOK, Trains
  <2>5. c \in Run /\ e.at = "generated" =>
          /\ e.temp.madeAt <= jobClock'
          /\ \A v \in e.temp.from : e.job.pin <= v /\ v <= inputVersion'
    BY <2>1 DEF EntryHolds, JobIInv, JobTypeOK, Medias
  <2> QED BY <2>1, <2>2, <2>3, <2>4, <2>5 DEF EntryHolds, disk
<1> QED BY <1>1, <1>2 DEF JobIInv, OneTrains, PinsWereUsed, RecordNamesTheMedia, disk

LEMMA JobStepSound == JobIInv /\ [JobNext]_jobVars => JobIInv'
<1> SUFFICES ASSUME JobIInv, [JobNext]_jobVars PROVE JobIInv'
  OBVIOUS
<1> USE JobAssumption
<1>1. ASSUME NEW c \in Run \cup Final
      PROVE  command[c] \in Commands /\ EntryHolds(c, command[c])
  BY DEF JobIInv, JobTypeOK
<1>2. command \in [Run \cup Final -> Commands]
  BY DEF JobIInv, JobTypeOK
<1>3. {"new", "done", "failed", "crashed"} \subseteq Ended
  BY DEF Ended
<1>4. ASSUME NEW c \in Run \cup Final, NEW l, Goto(c, l)
      PROVE  command' = [command EXCEPT ![c] = [command[c] EXCEPT !.at = l]]
  BY <1>2, <1>4 DEF Goto
<1>5. ASSUME NEW c \in Run \cup Final, Fails(c), UNCHANGED <<world, disk>>
      PROVE  JobIInv'
  BY <1>3, <1>5, CommandEnds DEF Fails
<1>6. ASSUME NEW c \in Run \cup Final, ReadJob(c) PROVE JobIInv'
  <2> DEFINE e == [command[c] EXCEPT !.at = "validates", !.job = jobFile]
  <2>1. e \in Commands /\ e.at = "validates" /\ e.job = jobFile
    BY <1>1 DEF Commands, CommandAts, JobIInv, JobTypeOK
  <2>2. EntryHolds(c, e)
    BY <2>1 DEF EntryHolds, Trains, JobIInv, JobTypeOK
  <2>3. command' = [command EXCEPT ![c] = e] /\ UNCHANGED <<world, disk>>
    BY <1>2, <1>6 DEF ReadJob
  <2> HIDE DEF e
  <2> QED BY <2>1, <2>2, <2>3, CommandMoves DEF Trains
<1>7. ASSUME NEW c \in Run \cup Final, ValidateJob(c) PROVE JobIInv'
  <2> DEFINE e == [command[c] EXCEPT !.at = "validated", !.sha = jobFile.edition]
  <2>1. e \in Commands /\ e.at = "validated" /\ e.job = command[c].job
    BY <1>1 DEF Commands, CommandAts, JobIInv, JobTypeOK, Jobs
  <2>2. EntryHolds(c, e)
    BY <1>1, <1>7, <2>1 DEF EntryHolds, Trains, Ended, ValidateJob
  <2>3. \/ command' = [command EXCEPT ![c] = e]
        \/ Fails(c)
    BY <1>2, <1>7 DEF ValidateJob
  <2>4. UNCHANGED <<world, disk>>
    BY <1>7 DEF ValidateJob
  <2> HIDE DEF e
  <2> QED BY <1>5, <2>1, <2>2, <2>3, <2>4, CommandMoves DEF Trains
<1>8. ASSUME NEW c \in Run \cup Final, Crash(c) PROVE JobIInv'
  BY <1>3, <1>8, CommandEnds DEF Crash
\* A step that only says where the command is.
<1>9. ASSUME NEW c \in Run \cup Final, NEW l \in CommandAts
      PROVE  LET e == [command[c] EXCEPT !.at = l]
             IN  e \in Commands /\ e.at = l /\ e.job = command[c].job /\ e.temp = command[c].temp
                 /\ e.record = command[c].record
  BY <1>1 DEF Commands
<1>10. ASSUME NEW r \in Run, Preflight(r) PROVE JobIInv'
  <2> DEFINE l == IF mode = "lora" THEN "starts_training" ELSE "starts"
             e == [command[r] EXCEPT !.at = l]
  <2>1. e \in Commands /\ e.at = l /\ e.job = command[r].job
    BY <1>9 DEF CommandAts
  <2>2. EntryHolds(r, e)
    BY <1>1, <1>10, <2>1 DEF EntryHolds, Trains, Ended, Preflight
  <2>3. \/ command' = [command EXCEPT ![r] = e]
        \/ Fails(r)
    BY <1>4, <1>10 DEF Preflight
  <2>4. UNCHANGED <<world, disk>>
    BY <1>10 DEF Preflight
  <2>5. ~(mode = "lora" /\ e.at \in Trains)
    BY <2>1 DEF Trains
  <2> HIDE DEF e
  <2> QED BY <1>5, <2>1, <2>2, <2>3, <2>4, <2>5, CommandMoves
<1>11. ASSUME NEW r \in Run, TrainingEnds(r) PROVE JobIInv'
  <2> DEFINE e == [command[r] EXCEPT !.at = "starts"]
  <2>1. e \in Commands /\ e.at = "starts" /\ e.job = command[r].job
    BY <1>9 DEF CommandAts
  <2>2. command[r].at = "trained" /\ UNCHANGED <<world, disk>>
    BY <1>11 DEF TrainingEnds, Verify
  <2>3. CASE BindingHolds(r)
    <3>1. command[r].job.pin = inputVersion /\ command[r].job \in Jobs
      BY <1>1, <2>2, <2>3 DEF BindingHolds, InputsAreAsPinned, EntryHolds, Ended
    <3>2. EntryHolds(r, e)
      BY <1>1, <2>1, <2>2, <3>1 DEF EntryHolds, Trains, Ended, Jobs
    <3>3. command' = [command EXCEPT ![r] = e]
      BY <1>4, <1>11, <2>3 DEF TrainingEnds, Verify
    <3> HIDE DEF e
    <3> QED BY <2>1, <2>2, <3>2, <3>3, CommandMoves DEF Trains
  <2> QED BY <1>5, <1>11, <2>2, <2>3 DEF TrainingEnds, Verify
<1>12. ASSUME NEW r \in Run, BeginInference(r) PROVE JobIInv'
  <2> DEFINE e == [command[r] EXCEPT !.at = "generates"]
  <2>1. e \in Commands /\ e.at = "generates" /\ e.job = command[r].job
    BY <1>9 DEF CommandAts
  <2>2. command[r].at = "starts" /\ UNCHANGED <<world, disk>>
    BY <1>12 DEF BeginInference, Verify
  <2>3. EntryHolds(r, e)
    BY <1>1, <2>1, <2>2 DEF EntryHolds, Trains, Ended
  <2>4. command' = [command EXCEPT ![r] = e] \/ Fails(r)
    BY <1>4, <1>12 DEF BeginInference, Verify
  <2> HIDE DEF e
  <2> QED BY <1>5, <2>1, <2>2, <2>3, <2>4, CommandMoves DEF Trains
<1>13. ASSUME NEW r \in Run, Generate(r) PROVE JobIInv'
  <2> DEFINE temp == [from |-> {inputVersion} \cup
                               (IF mode = "lora" THEN {checkpoint.from} ELSE {}),
                      madeAt |-> jobClock, by |-> r]
             e == [command[r] EXCEPT !.at = "generated", !.temp = temp]
  <2>1. command[r].at = "generates" /\ UNCHANGED <<world, disk>>
    BY <1>13 DEF Generate
  <2>2. /\ command[r].job \in Jobs /\ command[r].job.pin <= inputVersion
        /\ mode = "lora" => checkpoint \in [from : Nat] /\ checkpoint.from = command[r].job.pin
    BY <1>1, <2>1 DEF EntryHolds, Trains, Ended
  <2>3. /\ temp \in Medias /\ temp.by = r /\ temp.madeAt = jobClock
        /\ temp.from # {}
        /\ \A v \in temp.from : command[r].job.pin <= v /\ v <= inputVersion
    BY <2>2 DEF JobIInv, JobTypeOK, Medias, Jobs
  <2> HIDE DEF temp
  <2>4. e \in Commands /\ e.at = "generated" /\ e.job = command[r].job /\ e.temp = temp
    <3>1. temp \in Medias \cup {NoFile} /\ "generated" \in CommandAts
      BY <2>3 DEF CommandAts
    <3>2. command[r] \in Commands
      BY <1>1
    <3> QED BY <3>1, <3>2 DEF Commands
  <2>5. EntryHolds(r, e)
    BY <2>2, <2>3, <2>4 DEF EntryHolds, Trains, Ended, JobIInv, JobTypeOK
  <2>6. command' = [command EXCEPT ![r] = e] \/ Fails(r)
    BY <1>2, <1>13 DEF Generate, temp
  <2> HIDE DEF e
  <2> QED BY <1>5, <2>1, <2>4, <2>5, <2>6, CommandMoves DEF Trains
<1>14. ASSUME NEW r \in Run, InferenceEnds(r) PROVE JobIInv'
  <2>1. command[r].at = "generated" /\ UNCHANGED <<world, disk>>
    BY <1>14 DEF InferenceEnds
  <2>2. CASE BindingHolds(r)
    <3> DEFINE e == [command[r] EXCEPT !.at = "verified"]
    <3>1. /\ e \in Commands /\ e.at = "verified" /\ e.job = command[r].job
          /\ e.temp = command[r].temp
      BY <1>9 DEF CommandAts
    <3>2. command[r].job.pin = inputVersion /\ command[r].job \in Jobs /\ jobClock < ValidUntil
      BY <1>1, <2>1, <2>2
         DEF BindingHolds, InputsAreAsPinned, AuthorizationHolds, EntryHolds, Ended
    <3>3. /\ e.temp \in Medias /\ e.temp.by = r /\ e.temp.madeAt <= jobClock
          /\ e.temp.from # {}
          /\ \A v \in e.temp.from : e.job.pin <= v /\ v <= inputVersion
      BY <1>1, <2>1, <3>1 DEF EntryHolds
    <3>4. e.temp.from = {e.job.pin} /\ e.temp.madeAt < ValidUntil
      <4>1. ASSUME NEW v \in e.temp.from PROVE v = e.job.pin
        <5>1. v \in Nat
          BY <3>3, <4>1 DEF Medias
        <5> QED BY <3>1, <3>2, <3>3, <4>1, <5>1 DEF Jobs
      <4>2. e.temp.madeAt \in Nat
        BY <3>3 DEF Medias
      <4> QED BY <3>2, <3>3, <4>1, <4>2 DEF JobIInv, JobTypeOK
    <3>5. command' = [command EXCEPT ![r] = e]
      BY <1>4, <1>14, <2>2 DEF InferenceEnds
    <3>6. e.job \in Jobs /\ e.job.pin <= inputVersion
      BY <1>1, <2>1, <3>1 DEF EntryHolds, Ended
    <3> HIDE DEF e
    <3>7. EntryHolds(r, e)
      BY <3>1, <3>3, <3>4, <3>6 DEF EntryHolds, Trains, Ended
    <3> QED BY <2>1, <3>1, <3>5, <3>7, CommandMoves DEF Trains
  <2>3. CASE ~BindingHolds(r) /\ mode = "soulx"
    <3> DEFINE e == [Fresh EXCEPT !.at = "failed", !.temp = command[r].temp]
    <3>1. e \in Commands /\ e.at = "failed"
      BY <1>1 DEF Commands, CommandAts, Ended, Fresh
    <3>2. command' = [command EXCEPT ![r] = e]
      BY <1>14, <2>3 DEF InferenceEnds
    <3> HIDE DEF e
    <3>3. EntryHolds(r, e)
      BY <2>3, <3>1 DEF EntryHolds, Trains, Ended
    <3> QED BY <2>1, <3>1, <3>2, <3>3, CommandMoves DEF Trains
  <2>4. CASE ~BindingHolds(r) /\ mode # "soulx"
    BY <1>5, <1>14, <2>1, <2>4 DEF InferenceEnds
  <2> QED BY <2>2, <2>3, <2>4
<1>15. ASSUME NEW f \in Final, NEW r \in Run, LoadRecord(f, r) PROVE JobIInv'
  <2> DEFINE e == [command[f] EXCEPT !.at = "loaded", !.record = runRecord[r]]
  <2>1. /\ command[f].at = "validated" /\ runRecord[r] # NoFile /\ UNCHANGED <<world, disk>>
        /\ f \notin Run
    BY <1>15 DEF LoadRecord
  <2>2. CASE runRecord[r].pin = command[f].job.pin
    <3>1. runRecord[r] \in RunRecords /\ runRecord[r].media.from = {runRecord[r].pin}
      BY <2>1 DEF JobIInv, JobTypeOK, PinsWereUsed
    <3>2. /\ e \in Commands /\ e.at = "loaded" /\ e.job = command[f].job
          /\ e.record = runRecord[r]
      BY <1>1, <3>1 DEF Commands, CommandAts
    <3>3. command' = [command EXCEPT ![f] = e] \/ Fails(f)
      BY <1>2, <1>15 DEF LoadRecord
    <3> HIDE DEF e
    <3>4. EntryHolds(f, e)
      BY <1>1, <2>1, <2>2, <3>1, <3>2 DEF EntryHolds, Ended
    <3> QED BY <1>5, <2>1, <3>2, <3>3, <3>4, CommandMoves
  <2>3. CASE runRecord[r].pin # command[f].job.pin
    BY <1>5, <1>15, <2>1, <2>3 DEF LoadRecord
  <2> QED BY <2>2, <2>3
<1>16. ASSUME NEW f \in Final, NoRecord(f) PROVE JobIInv'
  BY <1>5, <1>16 DEF NoRecord
<1>17. ASSUME NEW f \in Final, ReadMetrics(f) PROVE JobIInv'
  <2> DEFINE e == [command[f] EXCEPT !.at = "measured", !.measured = metrics]
  <2>1. command[f].at = "loaded" /\ UNCHANGED <<world, disk>> /\ f \notin Run
    BY <1>17 DEF ReadMetrics
  <2>2. /\ e \in Commands /\ e.at = "measured" /\ e.job = command[f].job
        /\ e.record = command[f].record
    BY <1>1 DEF Commands, CommandAts, JobIInv, JobTypeOK
  <2>3. command' = [command EXCEPT ![f] = e] \/ Fails(f)
    BY <1>2, <1>17 DEF ReadMetrics
  <2> HIDE DEF e
  <2>4. EntryHolds(f, e)
    BY <1>1, <2>1, <2>2 DEF EntryHolds, Ended
  <2> QED BY <1>5, <2>1, <2>2, <2>3, <2>4, CommandMoves
<1>18. ASSUME NEW f \in Final, WriteProvenance(f) PROVE JobIInv'
  <2>1. /\ command[f].at = "measured" /\ f \notin Run
        /\ UNCHANGED <<world, media, checkpoint, runRecord, metrics>>
    BY <1>18 DEF WriteProvenance
  <2>2. PICK how \in Ended : Ends(f, how)
    BY <1>3, <1>18 DEF WriteProvenance, Fails
  <2>3. provenance' # NoFile => provenance'.record.media.from = {provenance'.pin}
    <3>1. CASE provenance' = provenance
      BY <3>1 DEF JobIInv, PinsWereUsed
    <3>2. CASE provenance' = [pin |-> command[f].job.pin, record |-> command[f].record,
                              accepted |-> command[f].measured.passed,
                              measured |-> command[f].measured.of]
      BY <1>1, <2>1, <3>2 DEF EntryHolds
    <3> QED BY <1>18, <3>1, <3>2 DEF WriteProvenance
  <2>4. command' \in [Run \cup Final -> Commands]
    BY <1>2, <2>2, FreshHolds DEF Ends
  <2>5. \A d \in Run \cup Final :
          command'[d] = IF d = f THEN [Fresh EXCEPT !.at = how] ELSE command[d]
    BY <1>2, <2>2 DEF Ends
  <2>6. ASSUME NEW d \in Run \cup Final PROVE EntryHolds(d, command[d])'
    <3>1. CASE d = f
      <4>1. command'[d].at = how
        BY <2>5, <3>1, FreshHolds
      <4>2. how \notin {"loaded", "measured"} /\ how \in Ended
        BY DEF Ended
      <4> QED BY <2>1, <3>1, <4>1, <4>2 DEF EntryHolds
    <3>2. CASE d # f
      BY <1>1, <2>1, <2>5, <3>2 DEF EntryHolds, world
    <3> QED BY <3>1, <3>2
  <2>7. OneTrains'
    BY <2>1, <2>5, FreshHolds DEF JobIInv, OneTrains, world, Trains
  <2> QED BY <2>1, <2>3, <2>4, <2>6, <2>7
          DEF JobIInv, JobTypeOK, PinsWereUsed, RecordNamesTheMedia, world
<1>19. ASSUME NEW r \in Run, BeginTraining(r) PROVE JobIInv'
  <2>1. command[r].at = "starts_training"
        /\ UNCHANGED <<world, media, runRecord, metrics, provenance>>
    BY <1>19 DEF BeginTraining
  <2>2. CASE checkpoint = NoFile /\ checkpoint' = [from |-> 0] /\ Goto(r, "trains")
    <3> DEFINE e == [command[r] EXCEPT !.at = "trains"]
    <3>1. e \in Commands /\ e.at = "trains" /\ e.job = command[r].job
      BY <1>9 DEF CommandAts
    <3>2. command' \in [Run \cup Final -> Commands]
      BY <1>2, <1>4, <2>2, <3>1
    <3>3. \A d \in Run \cup Final : command'[d] = IF d = r THEN e ELSE command[d]
      BY <1>2, <1>4, <2>2
    <3>4. [from |-> 0] # NoFile /\ checkpoint' \in [from : Nat]
      BY <2>2 DEF NoFile
    <3>5. mode = "lora" => \A s \in Run : command[s].at \notin Trains
      BY <1>1, <2>2 DEF EntryHolds, NoFile
    <3>6. command[r].job \in Jobs /\ command[r].job.pin <= inputVersion
      BY <1>1, <2>1 DEF EntryHolds, Ended
    <3> HIDE DEF e
    <3>7. ASSUME NEW d \in Run \cup Final PROVE EntryHolds(d, command[d])'
      <4>1. CASE d = r
        BY <2>1, <3>1, <3>3, <3>4, <3>6, <4>1 DEF EntryHolds, Ended, world, JobIInv, JobTypeOK
      <4>2. CASE d # r
        <5>1. command'[d] = command[d] /\ EntryHolds(d, command[d])
          BY <1>1, <3>3, <4>2
        <5>2. mode = "lora" /\ d \in Run => command[d].at \notin Trains
          BY <3>5, <4>2
        <5> QED BY <2>1, <5>1, <5>2 DEF EntryHolds, world, Trains
      <4> QED BY <4>1, <4>2
    <3>8. OneTrains'
      BY <2>1, <3>3, <3>5 DEF OneTrains, world
    <3> QED BY <2>1, <3>2, <3>4, <3>7, <3>8
            DEF JobIInv, JobTypeOK, PinsWereUsed, RecordNamesTheMedia, world
  <2>3. CASE checkpoint' = checkpoint /\ Fails(r)
    BY <1>5, <2>1, <2>3 DEF disk
  <2> QED BY <1>19, <2>2, <2>3 DEF BeginTraining
<1>20. ASSUME NEW r \in Run, Train(r) PROVE JobIInv'
  <2>1. command[r].at = "trains" /\ UNCHANGED <<world, media, runRecord, metrics, provenance>>
    BY <1>20 DEF Train
  <2>2. CASE checkpoint' = [from |-> inputVersion] /\ Goto(r, "trained")
    <3> DEFINE e == [command[r] EXCEPT !.at = "trained"]
    <3>1. e \in Commands /\ e.at = "trained" /\ e.job = command[r].job
      BY <1>9 DEF CommandAts
    <3>2. command' \in [Run \cup Final -> Commands]
      BY <1>2, <1>4, <2>2, <3>1
    <3>3. \A d \in Run \cup Final : command'[d] = IF d = r THEN e ELSE command[d]
      BY <1>2, <1>4, <2>2
    <3>4. checkpoint' \in [from : Nat] /\ checkpoint'.from = inputVersion /\ inputVersion \in Nat
      BY <2>2 DEF JobIInv, JobTypeOK
    <3>5. mode = "lora" => \A s \in Run : command[s].at \in Trains => s = r
      BY <2>1 DEF JobIInv, OneTrains, Trains
    <3>6. command[r].job \in Jobs /\ command[r].job.pin <= inputVersion
      BY <1>1, <2>1 DEF EntryHolds, Ended
    <3> HIDE DEF e
    <3>7. ASSUME NEW d \in Run \cup Final PROVE EntryHolds(d, command[d])'
      <4>1. CASE d = r
        BY <2>1, <3>1, <3>3, <3>4, <3>6, <4>1 DEF EntryHolds, Ended, world, JobIInv, JobTypeOK
      <4>2. CASE d # r
        <5>1. command'[d] = command[d] /\ EntryHolds(d, command[d])
          BY <1>1, <3>3, <4>2
        <5>2. mode = "lora" /\ d \in Run => command[d].at \notin Trains
          BY <3>5, <4>2
        <5> QED BY <2>1, <5>1, <5>2 DEF EntryHolds, world, Trains
      <4> QED BY <4>1, <4>2
    <3>8. OneTrains'
      BY <2>1, <3>3, <3>5 DEF OneTrains, world
    <3> QED BY <2>1, <3>2, <3>4, <3>7, <3>8
            DEF JobIInv, JobTypeOK, PinsWereUsed, RecordNamesTheMedia, world
  <2>3. CASE checkpoint' = checkpoint /\ Fails(r)
    BY <1>5, <2>1, <2>3 DEF disk
  <2> QED BY <1>20, <2>2, <2>3 DEF Train
<1>21. ASSUME NEW r \in Run, PublishMediaFile(r) PROVE JobIInv'
  <2>1. command[r].at = "verified" /\ UNCHANGED <<world, checkpoint, runRecord, metrics, provenance>>
    BY <1>21 DEF PublishMediaFile
  <2>2. CASE /\ media = NoFile /\ media' = command[r].temp
             /\ command' = [command EXCEPT ![r].at = "published", ![r].temp = NoFile]
    <3> DEFINE e == [command[r] EXCEPT !.at = "published", !.temp = NoFile]
    <3>1. e \in Commands /\ e.at = "published" /\ e.job = command[r].job /\ e.temp = NoFile
      BY <1>1 DEF Commands, CommandAts
    <3>2. command' = [command EXCEPT ![r] = e]
      BY <1>2, <2>2
    <3>3. \A d \in Run \cup Final : command'[d] = IF d = r THEN e ELSE command[d]
      BY <1>2, <3>2
    <3>4. command' \in [Run \cup Final -> Commands]
      BY <1>2, <3>1, <3>2
    <3>5. /\ media' \in Medias /\ media'.by = r /\ media'.madeAt < ValidUntil
          /\ media'.from = {command[r].job.pin}
      BY <1>1, <2>1, <2>2 DEF EntryHolds
    <3>6. \A s \in Run : runRecord[s] = NoFile
      BY <2>2 DEF JobIInv
    <3>7. \A s \in Run : command[s].at # "published"
      <4>1. NoFile \notin Medias
        BY DEF NoFile, Medias
      <4> QED BY <1>1, <2>2, <4>1 DEF EntryHolds
    <3>8. command[r].job \in Jobs /\ command[r].job.pin <= inputVersion
      BY <1>1, <2>1 DEF EntryHolds, Ended
    <3> HIDE DEF e
    <3>9. ASSUME NEW d \in Run \cup Final PROVE EntryHolds(d, command[d])'
      <4>1. CASE d = r
        BY <2>1, <3>1, <3>3, <3>5, <3>8, <4>1 DEF EntryHolds, Ended, Trains, world
      <4>2. CASE d # r
        BY <1>1, <2>1, <3>3, <3>7, <4>2 DEF EntryHolds, world
      <4> QED BY <4>1, <4>2
    <3>10. OneTrains'
      BY <2>1, <3>1, <3>3 DEF JobIInv, OneTrains, world, Trains
    <3> QED BY <2>1, <3>4, <3>5, <3>6, <3>9, <3>10
            DEF JobIInv, JobTypeOK, PinsWereUsed, RecordNamesTheMedia, world
  <2>3. CASE media' = media /\ Fails(r)
    BY <1>5, <2>1, <2>3 DEF disk
  <2> QED BY <1>21, <2>2, <2>3 DEF PublishMediaFile
<1>22. ASSUME NEW r \in Run, WriteRecord(r) PROVE JobIInv'
  <2>1. command[r].at = "published" /\ UNCHANGED <<world, media, checkpoint, metrics, provenance>>
    BY <1>22 DEF WriteRecord
  <2>2. CASE runRecord' = runRecord /\ Fails(r)
    BY <1>5, <2>1, <2>2 DEF disk
  <2>3. CASE /\ runRecord' = [runRecord EXCEPT ![r] =
                   [edition |-> command[r].sha, pin |-> command[r].job.pin,
                    ran |-> command[r].job.edition, media |-> media]]
             /\ Ends(r, "done")
    <3>1. /\ media \in Medias /\ media.by = r /\ media.from = {command[r].job.pin}
          /\ command[r].job \in Jobs /\ command[r].sha \in Nat
      BY <1>1, <2>1 DEF EntryHolds, Ended, Commands
    <3> DEFINE rec == [edition |-> command[r].sha, pin |-> command[r].job.pin,
                       ran |-> command[r].job.edition, media |-> media]
    <3>2. rec \in RunRecords /\ rec.media = media /\ rec.pin = command[r].job.pin
      BY <3>1 DEF RunRecords, Jobs
    <3> HIDE DEF rec
    <3>3. runRecord \in [Run -> RunRecords \cup {NoFile}]
      BY DEF JobIInv, JobTypeOK
    <3>4. runRecord' = [runRecord EXCEPT ![r] = rec]
      BY <2>3 DEF rec
    <3>5. /\ runRecord' \in [Run -> RunRecords \cup {NoFile}]
          /\ \A s \in Run : runRecord'[s] = IF s = r THEN rec ELSE runRecord[s]
      BY <3>2, <3>3, <3>4
    <3>6. command' \in [Run \cup Final -> Commands]
      BY <1>2, <1>3, <2>3, FreshHolds DEF Ends
    <3>7. \A d \in Run \cup Final :
            command'[d] = IF d = r THEN [Fresh EXCEPT !.at = "done"] ELSE command[d]
      BY <1>2, <2>3 DEF Ends
    <3>8. ASSUME NEW d \in Run \cup Final PROVE EntryHolds(d, command[d])'
      <4>1. CASE d = r
        <5>1. command'[d].at = "done" /\ command'[d].temp = NoFile
          BY <1>3, <3>7, <4>1, FreshHolds
        <5> QED BY <1>3, <5>1 DEF EntryHolds, Trains
      <4>2. CASE d # r
        BY <1>1, <2>1, <3>7, <4>2 DEF EntryHolds, world
      <4> QED BY <4>1, <4>2
    <3>9. OneTrains'
      <4>1. command'[r].at = "done"
        BY <1>3, <3>7, FreshHolds
      <4> QED BY <2>1, <3>7, <4>1 DEF JobIInv, OneTrains, world, Trains
    <3>10. NoFile \notin Medias
      BY DEF NoFile, Medias
    <3>11. \A s \in Run : runRecord'[s] # NoFile =>
             /\ runRecord'[s].media.from = {runRecord'[s].pin}
             /\ runRecord'[s].media = media /\ media.by = s
      BY <3>1, <3>2, <3>5 DEF JobIInv, PinsWereUsed, RecordNamesTheMedia
    <3> QED BY <2>1, <3>1, <3>5, <3>6, <3>8, <3>9, <3>10, <3>11
            DEF JobIInv, JobTypeOK, PinsWereUsed, RecordNamesTheMedia, world
  <2> QED BY <1>22, <2>2, <2>3 DEF WriteRecord
<1>23. CASE JobTick \/ EditInput \/ EditJob
  <2>1. jobFile \in Jobs /\ jobFile.pin <= inputVersion /\ inputVersion \in Nat /\ jobClock \in Nat
    BY DEF JobIInv, JobTypeOK
  <2>2. CASE JobTick
    BY <2>1, <2>2, WorldMoves DEF JobTick, Jobs
  <2>3. CASE EditInput
    BY <2>1, <2>3, WorldMoves DEF EditInput, Jobs
  <2>4. CASE EditJob
    <3>1. jobFile' \in Jobs /\ jobFile'.pin = inputVersion
      BY <2>1, <2>4 DEF EditJob, Jobs
    <3> QED BY <2>1, <2>4, <3>1, WorldMoves DEF EditJob
  <2> QED BY <1>23, <2>2, <2>3, <2>4
<1>24. CASE Evaluate
  <2>1. UNCHANGED <<world, media, checkpoint, runRecord, provenance, command>>
    BY <1>24 DEF Evaluate
  <2>2. metrics' \in Measurements \cup {NoFile}
    BY <1>24 DEF Evaluate, Measurements, JobIInv, JobTypeOK
  <2>3. \A c \in Run \cup Final : EntryHolds(c, command[c])'
    BY <1>1, <2>1 DEF EntryHolds, world
  <2> QED BY <2>1, <2>2, <2>3
          DEF JobIInv, JobTypeOK, OneTrains, PinsWereUsed, RecordNamesTheMedia, world
<1>25. CASE StartOver
  <2>1. /\ UNCHANGED <<world, metrics, provenance, command>>
        /\ media' = NoFile /\ checkpoint' = NoFile /\ runRecord' = [r \in Run |-> NoFile]
        /\ \A c \in Run \cup Final : command[c].at \in Ended
    BY <1>25 DEF StartOver
  <2>2. \A c \in Run \cup Final : EntryHolds(c, command[c])'
    BY <1>1, <2>1 DEF EntryHolds, world, Ended, Trains
  <2> QED BY <2>1, <2>2
          DEF JobIInv, JobTypeOK, OneTrains, PinsWereUsed, RecordNamesTheMedia, world
<1>26. CASE UNCHANGED jobVars
  <2>1. \A c \in Run \cup Final : EntryHolds(c, command[c])'
    BY <1>1, <1>26 DEF EntryHolds, jobVars
  <2> QED BY <1>26, <2>1
          DEF JobIInv, JobTypeOK, OneTrains, PinsWereUsed, RecordNamesTheMedia, jobVars
<1>27. ASSUME NEW r \in Run, RunStep(r) PROVE JobIInv'
  BY <1>10, <1>11, <1>12, <1>13, <1>14, <1>19, <1>20, <1>21, <1>22, <1>27 DEF RunStep
<1>28. ASSUME NEW f \in Final, FinalStep(f) PROVE JobIInv'
  BY <1>15, <1>16, <1>17, <1>18, <1>28 DEF FinalStep
<1> QED BY <1>6, <1>7, <1>8, <1>23, <1>24, <1>25, <1>26, <1>27, <1>28 DEF JobNext

\* RecordsAreBound: a signed record binds the media to the input it was made from and
\* to a time the authorization held, the media it names are not replaced, and what is
\* left unpublished is known, for any number of commands, edits and hours (run_job,
\* _run_lora_training, _publish_new_file, _load_run_record).
THEOREM RecordsStayBound == JobSpec => []RecordsAreBound
<1>1. JobIInv => RecordsAreBound
  BY DEF JobIInv, RecordsAreBound, EntryHolds, LeftoversAreKnown
<1> QED BY <1>1, JobInitSound, JobStepSound, PTL DEF JobSpec
-----------------------------------------------------------------------------
(* The registry of the forge                                               *)

Place == {"none", "copies", "fills", "inserts"}

ForgeTypeOK ==
  /\ skill \in [Author -> [version : SkillVersion, body : SkillBody]]
  /\ artifact \in [Author -> File \cup {Missing}]
  /\ publish \in [Author -> [at : Place, digest : File \cup {Missing},
                             version : SkillVersion \cup {"none"}]]
  /\ blobs \in [File -> File \cup {Missing}]
  /\ releases \subseteq [version : SkillVersion \cup {"none"}, digest : File]
  /\ cutBlobs \subseteq File

OneOfEach == \A r, s \in releases : r # s => r.version # s.version /\ r.digest # s.digest

\* A publish command that is under way keeps the artifact it took, and has a blob for it
\* once it has opened it or found it: what the insertion relies on.
PublishIsBacked ==
  \A a \in Author : ~NotPublishing(a) =>
    /\ publish[a].digest = artifact[a] /\ artifact[a] \in File
    /\ publish[a].at # "copies" => blobs[artifact[a]] # Missing

ForgeIInv == ForgeTypeOK /\ OneOfEach /\ BlobsAreWhole /\ PublishIsBacked

LEMMA FilesAreThere ==
  /\ \A f \in File : f # Missing /\ CutShort(f) \in File
  /\ \A v \in SkillVersion, b \in SkillBody : Whole(v, b) \in File
<1>1. ASSUME NEW f \in Artifact PROVE CutShort(f) \in File /\ CutShort(CutShort(f)) = CutShort(f)
  <2>1. PICK v \in SkillVersion, b \in SkillBody : f = [is |-> "whole", version |-> v, body |-> b]
    BY DEF Artifact, Whole
  <2> QED BY <2>1 DEF File, CutShort
<1>2. ASSUME NEW f \in File PROVE f.is # "missing"
  BY DEF File, Artifact, Whole, CutShort
<1>3. Missing.is = "missing"
  BY DEF Missing
<1>4. \A v \in SkillVersion, b \in SkillBody : Whole(v, b) \in File
  BY DEF File, Artifact
<1> QED BY <1>1, <1>2, <1>3, <1>4 DEF File

LEMMA ForgeInitSound == ForgeInit => ForgeIInv
<1> SUFFICES ASSUME ForgeInit PROVE ForgeIInv
  OBVIOUS
<1>1. ForgeTypeOK
  BY DEF ForgeInit, ForgeTypeOK, NoPublish, Place
<1>2. OneOfEach /\ BlobsAreWhole /\ PublishIsBacked
  BY DEF ForgeInit, OneOfEach, BlobsAreWhole, PublishIsBacked, NotPublishing, NoPublish
<1> QED BY <1>1, <1>2 DEF ForgeIInv

\* One step: the invariant, and no release is lost or exchanged.
LEMMA ForgeStepSound ==
  ASSUME ForgeIInv, [ForgeNext]_forgeVars
  PROVE  ForgeIInv' /\ releases \subseteq releases'
<1> USE DEF ForgeIInv, ForgeTypeOK
<1>1. CASE UNCHANGED forgeVars
  BY <1>1 DEF forgeVars, OneOfEach, BlobsAreWhole, PublishIsBacked, NotPublishing, Fills
<1>2. ASSUME NEW a \in Author, EditSkill(a) PROVE ForgeIInv' /\ releases \subseteq releases'
  BY <1>2 DEF EditSkill, OneOfEach, BlobsAreWhole, PublishIsBacked, NotPublishing, Fills
<1>3. ASSUME NEW a \in Author, Package(a) PROVE ForgeIInv' /\ releases \subseteq releases'
  <2>1. UNCHANGED <<publish, blobs, releases, cutBlobs>>
    BY <1>3 DEF Package
  <2> DEFINE built == Whole(skill[a].version, skill[a].body)
  <2>2. built \in File /\ CutShort(built) \in File
    <3>1. skill[a].version \in SkillVersion /\ skill[a].body \in SkillBody
      OBVIOUS
    <3> QED BY <3>1, FilesAreThere
  <2>3. artifact' = [artifact EXCEPT ![a] = built] \/ artifact' = [artifact EXCEPT ![a] = CutShort(built)]
    BY <1>3 DEF Package
  <2>4. UNCHANGED skill
    BY <1>3 DEF Package
  <2> HIDE DEF built
  <2>5. ForgeTypeOK'
    BY <2>1, <2>2, <2>3, <2>4
  <2>6. OneOfEach' /\ BlobsAreWhole'
    BY <2>1 DEF OneOfEach, BlobsAreWhole, Fills
  <2>7. PublishIsBacked'
    BY <1>3, <2>1, <2>3 DEF Package, PublishIsBacked, NotPublishing
  <2> QED BY <2>1, <2>5, <2>6, <2>7
<1>4. ASSUME NEW a \in Author, BeginPublish(a) PROVE ForgeIInv' /\ releases \subseteq releases'
  <2>1. UNCHANGED <<skill, artifact, blobs, releases, cutBlobs>> /\ artifact[a] \in File
    BY <1>4 DEF BeginPublish
  <2>2. PICK place \in {"copies", "inserts"}, v \in SkillVersion \cup {"none"} :
          /\ publish' = [publish EXCEPT ![a] =
                           [at |-> place, digest |-> artifact[a], version |-> v]]
          /\ place = "inserts" => blobs[artifact[a]] # Missing
    BY <1>4 DEF BeginPublish
  <2>3. ForgeTypeOK'
    BY <2>1, <2>2 DEF Place
  <2>4. OneOfEach'
    BY <2>1 DEF OneOfEach
  <2>5. BlobsAreWhole'
    BY <1>4, <2>1, <2>2 DEF BlobsAreWhole, Fills, BeginPublish, NotPublishing
  <2>6. PublishIsBacked'
    BY <2>1, <2>2 DEF PublishIsBacked, NotPublishing
  <2> QED BY <2>1, <2>3, <2>4, <2>5, <2>6
<1>5. ASSUME NEW a \in Author, OpenBlob(a) PROVE ForgeIInv' /\ releases \subseteq releases'
  <2> DEFINE digest == artifact[a]
  <2>1. /\ UNCHANGED <<skill, artifact, releases, cutBlobs>> /\ digest \in File
        /\ blobs' = [blobs EXCEPT ![digest] = CutShort(digest)]
        /\ publish' = [publish EXCEPT ![a].at = "fills"] /\ publish[a].digest = digest
    BY <1>5 DEF OpenBlob, PublishIsBacked, NotPublishing
  <2>2. CutShort(digest) \in File /\ CutShort(digest) # Missing
    BY <2>1, FilesAreThere
  <2> HIDE DEF digest
  <2>3. ForgeTypeOK'
    <3>1. publish' \in [Author -> [at : Place, digest : File \cup {Missing},
                                  version : SkillVersion \cup {"none"}]]
      BY <2>1 DEF Place
    <3>2. blobs' \in [File -> File \cup {Missing}]
      BY <2>1, <2>2
    <3> QED BY <2>1, <3>1, <3>2
  <2>4. OneOfEach'
    BY <2>1 DEF OneOfEach
  <2>5. BlobsAreWhole'
    BY <2>1, <2>2 DEF BlobsAreWhole, Fills
  <2>6. PublishIsBacked'
    BY <2>1, <2>2 DEF PublishIsBacked, NotPublishing, digest
  <2> QED BY <2>1, <2>3, <2>4, <2>5, <2>6
<1>6. ASSUME NEW a \in Author, FillBlob(a) PROVE ForgeIInv' /\ releases \subseteq releases'
  <2> DEFINE digest == artifact[a]
  <2>1. /\ UNCHANGED <<skill, artifact, releases>> /\ digest \in File
        /\ publish' = [publish EXCEPT ![a].at = "inserts"]
        /\ publish[a].digest = digest /\ publish[a].at = "fills" /\ blobs[digest] # Missing
    BY <1>6 DEF FillBlob, PublishIsBacked, NotPublishing
  <2>2. \/ /\ blobs' = [blobs EXCEPT ![digest] = digest]
           /\ cutBlobs' = cutBlobs \ {digest}
        \/ /\ digest \in cutBlobs \/ \E b \in Author \ {a} : Fills(b, digest)
           /\ UNCHANGED <<blobs, cutBlobs>>
    BY <1>6, <2>1 DEF FillBlob
  <2>3. digest # Missing
    BY <2>1, FilesAreThere
  <2> HIDE DEF digest
  <2>4. /\ \A b \in Author \ {a} : publish'[b] = publish[b]
        /\ publish'[a].digest = digest /\ publish'[a].at = "inserts"
    BY <2>1
  <2>5. ForgeTypeOK'
    <3>1. publish' \in [Author -> [at : Place, digest : File \cup {Missing},
                                  version : SkillVersion \cup {"none"}]]
      BY <2>1 DEF Place
    <3>2. blobs' \in [File -> File \cup {Missing}] /\ cutBlobs' \subseteq File
      BY <2>1, <2>2
    <3> QED BY <2>1, <3>1, <3>2
  <2>6. OneOfEach'
    BY <2>1 DEF OneOfEach
  <2>7. BlobsAreWhole'
    <3>1. CASE /\ blobs' = [blobs EXCEPT ![digest] = digest]
               /\ cutBlobs' = cutBlobs \ {digest}
      BY <2>1, <2>3, <2>4, <3>1 DEF BlobsAreWhole, Fills
    <3>2. CASE /\ digest \in cutBlobs \/ \E b \in Author \ {a} : Fills(b, digest)
               /\ UNCHANGED <<blobs, cutBlobs>>
      BY <2>1, <2>4, <3>2 DEF BlobsAreWhole, Fills
    <3> QED BY <2>2, <3>1, <3>2
  <2>8. PublishIsBacked'
    BY <2>1, <2>2, <2>3, <2>4 DEF PublishIsBacked, NotPublishing, digest
  <2> QED BY <2>1, <2>5, <2>6, <2>7, <2>8
<1>7. ASSUME NEW a \in Author, InsertRelease(a) PROVE ForgeIInv' /\ releases \subseteq releases'
  <2> DEFINE release == [version |-> publish[a].version, digest |-> publish[a].digest]
  <2>1. /\ publish' = [publish EXCEPT ![a] = NoPublish] /\ UNCHANGED <<skill, artifact, blobs, cutBlobs>>
        /\ publish[a].digest = artifact[a] /\ artifact[a] \in File
        /\ publish[a].at # "fills" /\ blobs[artifact[a]] # Missing
    BY <1>7 DEF InsertRelease, PublishIsBacked, NotPublishing
  <2>2. \/ releases' = releases
        \/ /\ releases' = releases \cup {release}
           /\ \A r \in releases : r.version # release.version /\ r.digest # release.digest
    BY <1>7 DEF InsertRelease, Taken
  <2>3. release \in [version : SkillVersion \cup {"none"}, digest : File]
        /\ release.digest = artifact[a]
    BY <2>1
  <2> HIDE DEF release
  <2>4. ForgeTypeOK'
    BY <2>1, <2>2, <2>3 DEF NoPublish, Place
  <2>5. OneOfEach'
    BY <2>2 DEF OneOfEach
  <2>6. BlobsAreWhole'
    BY <2>1, <2>2, <2>3 DEF BlobsAreWhole, Fills
  <2>7. PublishIsBacked'
    BY <2>1 DEF PublishIsBacked, NotPublishing, NoPublish
  <2> QED BY <2>2, <2>4, <2>5, <2>6, <2>7
<1>8. ASSUME NEW a \in Author, PublishKilled(a) PROVE ForgeIInv' /\ releases \subseteq releases'
  <2>1. /\ publish' = [publish EXCEPT ![a] = NoPublish] /\ UNCHANGED <<skill, artifact, blobs, releases>>
        /\ cutBlobs' = IF publish[a].at = "fills" THEN cutBlobs \cup {publish[a].digest}
                       ELSE cutBlobs
        /\ publish[a].digest \in File
    BY <1>8 DEF PublishKilled, PublishIsBacked
  <2>2. ForgeTypeOK' /\ OneOfEach'
    BY <2>1 DEF OneOfEach, NoPublish, Place
  <2>3. BlobsAreWhole'
    BY <2>1 DEF BlobsAreWhole, Fills, NoPublish
  <2>4. PublishIsBacked'
    BY <2>1 DEF PublishIsBacked, NotPublishing, NoPublish
  <2> QED BY <2>1, <2>2, <2>3, <2>4
<1> QED BY <1>1, <1>2, <1>3, <1>4, <1>5, <1>6, <1>7, <1>8 DEF ForgeNext

\* For any number of publishers, wherever they are killed: a release of the registry is
\* never replaced, its version and its digest are its own, and it has a blob, which is
\* whole unless a copy of its bytes was killed (publish).
THEOREM ReleasesStay == ForgeSpec => ReleasesAreImmutable
<1>1. ForgeSpec => []ForgeIInv
  BY ForgeInitSound, ForgeStepSound, PTL DEF ForgeSpec
<1>2. ASSUME ForgeIInv, [ForgeNext]_forgeVars
      PROVE  [/\ releases \subseteq releases'
              /\ \A r, s \in releases' : r # s => r.version # s.version /\ r.digest # s.digest
              /\ BlobsAreWhole']_forgeVars
  BY <1>2, ForgeStepSound DEF ForgeIInv, OneOfEach
<1> QED BY <1>1, <1>2, PTL DEF ForgeSpec, ReleasesAreImmutable
-----------------------------------------------------------------------------
(* The clips that are cut from a recording                                  *)

Pairs == Int \X Int

(* What one more element does to a list of spans.                           *)
LEMMA SpanAppended ==
  ASSUME NEW s \in Seq(Pairs), NEW p \in Pairs
  PROVE  /\ Append(s, p) \in Seq(Pairs)
         /\ Len(Append(s, p)) = Len(s) + 1 /\ Len(s) \in Nat
         /\ \A i \in 1 .. Len(s) : Append(s, p)[i] = s[i] /\ s[i] \in Pairs
         /\ Append(s, p)[Len(s) + 1] = p
OBVIOUS

LEMMA SpanReplaced ==
  ASSUME NEW s \in Seq(Pairs), NEW p \in Pairs, NEW n \in 1 .. Len(s)
  PROVE  /\ [s EXCEPT ![n] = p] \in Seq(Pairs)
         /\ Len([s EXCEPT ![n] = p]) = Len(s) /\ Len(s) \in Nat
         /\ \A i \in 1 .. Len(s) : [s EXCEPT ![n] = p][i] = IF i = n THEN p ELSE s[i]
OBVIOUS

LEMMA SpanValues ==
  /\ \A a, b \in Int : <<a, b>> \in Pairs /\ <<a, b>>[1] = a /\ <<a, b>>[2] = b
  /\ \A p \in Pairs : p[1] \in Int /\ p[2] \in Int
BY DEF Pairs

LEMMA LargerIsInt == \A a, b \in Int : Larger(a, b) \in Int
<1> SUFFICES ASSUME NEW a \in Int, NEW b \in Int PROVE Larger(a, b) \in Int
  OBVIOUS
<1>1. CASE a > b
  BY <1>1 DEF Larger
<1>2. CASE ~(a > b)
  BY <1>2 DEF Larger
<1>q. QED
  BY <1>1, <1>2

LEMMA EmptySpans == <<>> \in Seq(Pairs) /\ Len(<<>>) = 0
OBVIOUS

(* A span of the recording.                                                 *)
Within(span) == 0 <= span[1] /\ span[1] < span[2] /\ span[2] <= Frames

(* The detector's spans lie in the recording and begin in order: each       *)
(* begins Pad before a frame that has been heard.                           *)
SpansInOrder ==
  /\ position \in 0 .. Frames
  /\ speechStart \in Int
  /\ speechStart # -1 =>
       0 <= speechStart /\ speechStart < position /\ speechStart <= Larger(0, position - Pad)
  /\ spans \in Seq(Pairs)
  /\ \A j \in 1 .. Len(spans) :
       /\ Within(spans[j])
       /\ spans[j][1] <= Larger(0, position - Pad)
       /\ speechStart # -1 => spans[j][1] <= speechStart
       /\ j > 1 => spans[j - 1][1] <= spans[j][1]

(* The merged spans lie in the recording, apart, and contain each span that *)
(* has been looked at.                                                      *)
Contained(j) ==
  \E k \in 1 .. Len(merged) : merged[k][1] <= spans[j][1] /\ spans[j][2] <= merged[k][2]

MergedSound ==
  /\ merged \in Seq(Pairs)
  /\ \A k \in 1 .. Len(merged) : Within(merged[k])
  /\ \A k \in 1 .. Len(merged) - 1 : merged[k + 1][1] - merged[k][2] > MaxGap
  /\ phase \in {"hears", "merges", "cuts", "written", "empty"}
  /\ phase = "hears" => merged = <<>> /\ cursor = 1
  /\ phase = "merges" =>
       /\ cursor \in 1 .. Len(spans) + 1
       /\ \A j \in 1 .. cursor - 1 : Contained(j)
       /\ merged # <<>> => cursor > 1 /\ merged[Len(merged)][1] <= spans[cursor - 1][1]
  /\ phase \in {"cuts", "written", "empty"} => \A j \in 1 .. Len(spans) : Contained(j)

LEMMA SpansStep == SpansInOrder /\ [SegmentNext]_segmentVars /\ MergedSound => SpansInOrder'
<1> SUFFICES ASSUME SpansInOrder, [SegmentNext]_segmentVars, MergedSound PROVE SpansInOrder'
  OBVIOUS
<1>1. CASE UNCHANGED hearing
  BY <1>1, Zenon DEF hearing, SpansInOrder
<1>2. ASSUME NEW start \in Int, 0 <= start, NEW end \in Int, start < end, end <= Frames,
             \A j \in 1 .. Len(spans) : spans[j][1] <= start,
             start <= Larger(0, position' - Pad), position' \in 0 .. Frames,
             position' = position + 1 \/ position' = position,
             spans' = Append(spans, <<start, end>>),
             speechStart' = -1 \/ (speechStart' = start /\ start < position')
      PROVE  SpansInOrder'
  <2>1. <<start, end>> \in Pairs /\ <<start, end>>[1] = start /\ <<start, end>>[2] = end
    BY SpanValues
  <2>2. spans \in Seq(Pairs)
    BY DEF SpansInOrder
  <2>3. /\ spans' \in Seq(Pairs) /\ Len(spans') = Len(spans) + 1 /\ Len(spans) \in Nat
        /\ \A i \in 1 .. Len(spans) : spans'[i] = spans[i] /\ spans[i] \in Pairs
        /\ spans'[Len(spans) + 1][1] = start /\ spans'[Len(spans) + 1][2] = end
    BY <1>2, <2>1, <2>2, SpanAppended
  <2>4. \A i \in 1 .. Len(spans) : spans[i][1] \in Int /\ spans[i][2] \in Int
    BY <2>3, SpanValues
  <2>5. \A j \in 1 .. Len(spans') :
          /\ Within(spans'[j])
          /\ spans'[j][1] <= Larger(0, position' - Pad)
          /\ speechStart' # -1 => spans'[j][1] <= speechStart'
          /\ j > 1 => spans'[j - 1][1] <= spans'[j][1]
    <3> SUFFICES ASSUME NEW j \in 1 .. Len(spans')
                 PROVE  /\ Within(spans'[j])
                        /\ spans'[j][1] <= Larger(0, position' - Pad)
                        /\ speechStart' # -1 => spans'[j][1] <= speechStart'
                        /\ j > 1 => spans'[j - 1][1] <= spans'[j][1]
      OBVIOUS
    <3>1. CASE j = Len(spans) + 1
      BY <3>1, <1>2, <2>3, <2>4 DEF Within
    <3>2. CASE j \in 1 .. Len(spans)
      <4>1. Within(spans[j]) /\ (j > 1 => spans[j - 1][1] <= spans[j][1])
        BY <3>2 DEF SpansInOrder
      <4>2. spans[j][1] <= start /\ spans'[j] = spans[j] /\ spans[j][1] \in Int
        BY <3>2, <1>2, <2>3, <2>4
      <4>3. j > 1 => spans'[j - 1] = spans[j - 1]
        BY <3>2, <2>3
      <4>4. Larger(0, position' - Pad) \in Int
        <5>1. position' - Pad \in Int
          BY <1>2, SegmentationAssumption
        <5>q. QED
          BY <5>1, LargerIsInt
      <4>5. spans'[j][1] <= start
        BY <4>2
      <4>6. start <= Larger(0, position' - Pad) /\ (speechStart' # -1 => speechStart' = start)
        BY <1>2
      <4>7. spans'[j][1] <= Larger(0, position' - Pad)
        BY ONLY <4>2, <4>4, <4>5, <4>6, start \in Int
      <4>8. j > 1 => spans'[j - 1][1] <= spans'[j][1]
        BY <4>1, <4>2, <4>3
      <4>q. QED
        BY <4>1, <4>2, <4>5, <4>6, <4>7, <4>8, Zenon
    <3>q. QED
      BY <3>1, <3>2, <2>3
  <2>q. QED
    BY <1>2, <2>3, <2>5 DEF SpansInOrder
<1>3. ASSUME position < Frames, position' = position + 1, spans' = spans,
             \/ speechStart' \in {speechStart, -1}
             \/ speechStart = -1 /\ speechStart' = Larger(0, position - Pad)
      PROVE  SpansInOrder'
  <2>1. position \in 0 .. Frames /\ Frames \in Nat /\ Pad \in Nat /\ speechStart \in Int
    BY SegmentationAssumption DEF SpansInOrder
  <2>2. \A j \in 1 .. Len(spans) : spans[j][1] \in Int
    BY SpanValues DEF SpansInOrder
  <2>3. /\ Larger(0, position' - Pad) \in Int
        /\ Larger(0, position - Pad) <= Larger(0, position' - Pad)
    BY <1>3, <2>1 DEF Larger
  <2>4. speechStart' # -1 =>
          /\ speechStart' \in Int /\ 0 <= speechStart' /\ speechStart' < position'
          /\ speechStart' <= Larger(0, position - Pad)
          /\ speechStart' = speechStart \/ speechStart' = Larger(0, position - Pad)
    BY <1>3, <2>1 DEF SpansInOrder, Larger
  <2>5. \A j \in 1 .. Len(spans) :
          /\ spans[j][1] <= Larger(0, position - Pad)
          /\ speechStart' # -1 => spans[j][1] <= speechStart'
    BY <2>1, <2>2, <2>4 DEF SpansInOrder
  <2>6. Larger(0, position - Pad) \in Int
    BY <2>1, LargerIsInt
  <2>7. /\ position' \in 0 .. Frames /\ speechStart' \in Int /\ spans' \in Seq(Pairs)
        /\ speechStart' # -1 => speechStart' <= Larger(0, position' - Pad)
    BY <1>3, <2>1, <2>3, <2>4, <2>6 DEF SpansInOrder
  <2>8. \A j \in 1 .. Len(spans) : spans[j][1] <= Larger(0, position' - Pad)
    BY <2>2, <2>3, <2>5, <2>6
  <2>q. QED
    BY <1>3, <2>4, <2>5, <2>7, <2>8 DEF SpansInOrder, Within
<1>4. ASSUME NEW level, Frame(level) PROVE SpansInOrder'
  <2>1. position < Frames /\ position' = position + 1
    BY <1>4 DEF Frame
  <2>2. \/ spans' = spans /\ speechStart' = speechStart
        \/ spans' = spans /\ speechStart' = -1
        \/ spans' = spans /\ speechStart = -1 /\ speechStart' = Larger(0, position - Pad)
        \/ /\ speechStart # -1 /\ speechStart' = -1
           /\ Smaller(Frames, position + 1 - MinSilence + Pad) > speechStart
           /\ spans' = Append(spans, <<speechStart, Smaller(Frames, position + 1 - MinSilence + Pad)>>)
    BY <1>4, Zenon DEF Frame
  <2>3. CASE /\ speechStart # -1 /\ speechStart' = -1
             /\ Smaller(Frames, position + 1 - MinSilence + Pad) > speechStart
             /\ spans' = Append(spans, <<speechStart, Smaller(Frames, position + 1 - MinSilence + Pad)>>)
    <3> DEFINE end == Smaller(Frames, position + 1 - MinSilence + Pad)
    <3>1. position \in 0 .. Frames /\ Frames \in Nat /\ Pad \in Nat /\ MinSilence \in Nat
          /\ speechStart \in Int
      BY SegmentationAssumption DEF SpansInOrder
    <3>2. end \in Int /\ end <= Frames
      BY <3>1 DEF Smaller
    <3>3. position' \in 0 .. Frames /\ 0 <= speechStart /\ speechStart <= Larger(0, position' - Pad)
      BY <3>1, <2>1, <2>3 DEF SpansInOrder, Larger
    <3>4. \A j \in 1 .. Len(spans) : spans[j][1] <= speechStart
      BY <2>3 DEF SpansInOrder
    <3>5. end > speechStart /\ spans' = Append(spans, <<speechStart, end>>) /\ speechStart' = -1
      BY <2>3
    <3> HIDE DEF end
    <3>6. speechStart < end
      BY <3>1, <3>2, <3>5
    <3>q. QED
      BY <1>2, <2>1, <3>1, <3>2, <3>3, <3>4, <3>5, <3>6
  <2>q. QED
    BY <1>3, <2>1, <2>2, <2>3
<1>5. CASE EndOfAudio
  <2>1. CASE speechStart = -1
    BY <1>5, <2>1, <1>1 DEF EndOfAudio, hearing
  <2>2. CASE speechStart # -1
    <3>1. /\ position = Frames /\ position' = position /\ speechStart' = speechStart
          /\ spans' = Append(spans, <<speechStart, Frames>>)
      BY <1>5, <2>2 DEF EndOfAudio
    <3>2. /\ speechStart \in Int /\ Frames \in Int /\ 0 <= speechStart /\ speechStart < Frames
          /\ position \in 0 .. Frames /\ Frames <= Frames
          /\ speechStart <= Larger(0, position' - Pad)
      BY <2>2, <3>1, SegmentationAssumption DEF SpansInOrder
    <3>3. \A j \in 1 .. Len(spans) : spans[j][1] <= speechStart
      BY <2>2 DEF SpansInOrder
    <3>q. QED
      BY <1>2, <3>1, <3>2, <3>3
  <2>q. QED
    BY <2>1, <2>2
<1>6. CASE MergeSpan \/ BeginCutting \/ CutSpan \/ KeepRest \/ WriteCandidates
  BY <1>6, <1>1 DEF MergeSpan, BeginCutting, CutSpan, KeepRest, WriteCandidates
<1>7. CASE UNCHANGED segmentVars
  BY <1>7, <1>1 DEF segmentVars, hearing
<1>q. QED
  BY <1>4, <1>5, <1>6, <1>7 DEF SegmentNext

LEMMA MergedStep == SpansInOrder /\ MergedSound /\ [SegmentNext]_segmentVars => MergedSound'
<1> SUFFICES ASSUME SpansInOrder, MergedSound, [SegmentNext]_segmentVars PROVE MergedSound'
  OBVIOUS
<1>s. /\ spans \in Seq(Pairs) /\ Len(spans) \in Nat
      /\ \A j \in 1 .. Len(spans) : spans[j] \in Pairs /\ spans[j][1] \in Int /\ spans[j][2] \in Int
  BY SpanValues DEF SpansInOrder
<1>m. /\ merged \in Seq(Pairs) /\ Len(merged) \in Nat
      /\ \A k \in 1 .. Len(merged) : merged[k] \in Pairs /\ merged[k][1] \in Int /\ merged[k][2] \in Int
  BY SpanValues DEF MergedSound
<1>g. MaxGap \in Nat /\ Frames \in Nat
  BY SegmentationAssumption
<1>0. CASE UNCHANGED <<merged, spans, cursor, phase>>
  BY <1>0 DEF MergedSound, Contained
<1>1. ASSUME NEW level, Frame(level) PROVE MergedSound'
  <2>1. phase = "hears" /\ phase' = "hears" /\ merged' = merged /\ cursor' = cursor
    BY <1>1 DEF Frame
  <2>q. QED
    BY <2>1 DEF MergedSound
<1>2. CASE EndOfAudio
  <2>1. merged = <<>> /\ merged' = merged /\ cursor = 1 /\ cursor' = cursor /\ phase' = "merges"
    BY <1>2 DEF EndOfAudio, MergedSound
  <2>2. spans' \in Seq(Pairs)
    <3>1. SpansInOrder'
      BY SpansStep
    <3>q. QED
      BY <3>1 DEF SpansInOrder
  <2>q. QED
    BY <2>1, <2>2 DEF MergedSound
<1>3. CASE MergeSpan
  <2> PICK c : c = cursor
    OBVIOUS
  <2> DEFINE span == spans[c]
             last == merged[Len(merged)]
  <2>1. /\ phase = "merges" /\ c = cursor /\ c \in 1 .. Len(spans) /\ spans' = spans
    BY <1>3, <1>s DEF MergeSpan, hearing, MergedSound
  <2>2. /\ span \in Pairs /\ span[1] \in Int /\ span[2] \in Int /\ Within(span)
        /\ c > 1 => spans[c - 1][1] <= span[1]
    BY <1>s, <2>1 DEF SpansInOrder
  <2>3. /\ merged' = IF Joins(span) THEN [merged EXCEPT ![Len(merged)] = Extended(last, span)]
                     ELSE Append(merged, span)
        /\ cursor' = cursor + 1 /\ phase' = phase
    <3>1. ~(span[1] < 0 \/ span[2] <= span[1])
      BY <2>2, <1>g DEF Within
    <3>q. QED
      BY <1>3, <3>1 DEF MergeSpan
  <2>4. /\ merged # <<>> => c > 1 /\ last[1] <= spans[c - 1][1]
        /\ \A j \in 1 .. c - 1 : Contained(j)
        /\ \A k \in 1 .. Len(merged) : Within(merged[k])
        /\ \A k \in 1 .. Len(merged) - 1 : merged[k + 1][1] - merged[k][2] > MaxGap
    BY <2>1 DEF MergedSound
  <2> SUFFICES /\ merged' \in Seq(Pairs)
               /\ \A k \in 1 .. Len(merged') : Within(merged'[k])
               /\ \A k \in 1 .. Len(merged') - 1 : merged'[k + 1][1] - merged'[k][2] > MaxGap
               /\ \A j \in 1 .. c : Contained(j)'
               /\ merged' # <<>> /\ merged'[Len(merged')][1] <= span[1]
    <3>1. cursor' - 1 = c /\ cursor' \in 1 .. Len(spans') + 1 /\ cursor' > 1
      BY <2>1, <2>3, <1>s
    <3> HIDE DEF span, last
    <3>q. QED
      BY <2>1, <2>3, <3>1 DEF MergedSound, span
  <2>5. CASE ~Joins(span)
    <3>1. /\ merged' \in Seq(Pairs) /\ Len(merged') = Len(merged) + 1
          /\ \A k \in 1 .. Len(merged) : merged'[k] = merged[k]
          /\ merged'[Len(merged) + 1] = span
      BY <2>2, <2>3, <2>5, <1>m, SpanAppended
    <3>2. Len(merged) > 0 => span[1] - last[2] > MaxGap
      BY <2>5, <2>2, <1>m, <1>g DEF Joins
    <3>3. \A k \in 1 .. Len(merged') : Within(merged'[k])
      BY <3>1, <2>2, <2>4, <1>m
    <3>4. \A k \in 1 .. Len(merged') - 1 : merged'[k + 1][1] - merged'[k][2] > MaxGap
      BY <3>1, <3>2, <2>4, <1>m
    <3>5. \A j \in 1 .. c : Contained(j)'
      <4>1. ASSUME NEW j \in 1 .. c - 1 PROVE Contained(j)'
        <5>1. PICK k \in 1 .. Len(merged) :
                merged[k][1] <= spans[j][1] /\ spans[j][2] <= merged[k][2]
          BY <4>1, <2>4 DEF Contained
        <5>2. k \in 1 .. Len(merged') /\ merged'[k] = merged[k] /\ spans' = spans
          BY <5>1, <3>1, <2>1, <1>m
        <5>q. QED
          BY <5>1, <5>2, Zenon DEF Contained
      <4>2. Contained(c)'
        BY <3>1, <2>1, <2>2, <1>m DEF Contained
      <4>q. QED
        BY <4>1, <4>2, <2>1
    <3>6. merged' # <<>> /\ merged'[Len(merged')][1] <= span[1]
      BY <3>1, <2>2, <1>m
    <3>q. QED
      BY <3>1, <3>3, <3>4, <3>5, <3>6, Zenon
  <2>6. CASE Joins(span)
    <3> DEFINE n == Len(merged)
    <3>1. n \in 1 .. Len(merged) /\ n \in Nat /\ merged # <<>> /\ last \in Pairs
          /\ last[1] \in Int /\ last[2] \in Int /\ Within(last)
      BY <2>6, <2>4, <1>m DEF Joins
    <3>2. last[1] <= span[1]
      BY <2>4, <2>2, <3>1, <2>1, <1>s
    <3>3. /\ Extended(last, span) \in Pairs
          /\ Extended(last, span)[1] = last[1]
          /\ Extended(last, span)[2] = Larger(last[2], span[2])
          /\ Larger(last[2], span[2]) \in Int
          /\ Larger(last[2], span[2]) >= last[2] /\ Larger(last[2], span[2]) >= span[2]
          /\ Larger(last[2], span[2]) <= Frames
      BY <3>1, <2>2, <1>g, SpanValues DEF Extended, Larger, Within
    <3> DEFINE wide == Extended(last, span)
    <3>4. wide[1] = last[1] /\ wide[2] \in Int /\ last[2] <= wide[2] /\ span[2] <= wide[2]
          /\ Within(wide) /\ wide \in Pairs
      BY <3>1, <3>3, <1>g DEF Within
    <3>5. merged' = [merged EXCEPT ![n] = wide]
      BY <2>3, <2>6
    <3> HIDE DEF wide, n
    <3>6. /\ merged' \in Seq(Pairs) /\ Len(merged') = Len(merged)
          /\ \A k \in 1 .. Len(merged) : merged'[k] = IF k = n THEN wide ELSE merged[k]
      BY <3>1, <3>4, <3>5, <1>m, SpanReplaced
    <3>n. n = Len(merged)
      BY DEF n
    <3>7. \A k \in 1 .. Len(merged') : Within(merged'[k])
      BY <3>6, <3>4, <2>4
    <3>8. \A k \in 1 .. Len(merged') - 1 : merged'[k + 1][1] - merged'[k][2] > MaxGap
      BY <3>6, <3>4, <3>n, <2>4, <1>m
    <3>9. \A j \in 1 .. c : Contained(j)'
      <4>1. ASSUME NEW j \in 1 .. c - 1 PROVE Contained(j)'
        <5>1. PICK k \in 1 .. Len(merged) :
                merged[k][1] <= spans[j][1] /\ spans[j][2] <= merged[k][2]
          BY <4>1, <2>4 DEF Contained
        <5>2. merged'[k][1] = merged[k][1] /\ merged[k][2] <= merged'[k][2]
              /\ merged'[k][2] \in Int
          BY <3>6, <3>4, <3>n, <1>m
        <5>3. merged[k][2] \in Int /\ spans[j][2] \in Int
          BY <1>m, <1>s, <2>1
        <5>4. spans[j][2] <= merged'[k][2]
          BY <5>1, <5>2, <5>3
        <5>5. k \in 1 .. Len(merged') /\ spans' = spans
          BY <3>6, <2>1
        <5>6. merged'[k][1] <= spans'[j][1] /\ spans'[j][2] <= merged'[k][2]
          BY <5>1, <5>2, <5>4, <5>5
        <5>q. QED
          BY <5>5, <5>6, Zenon DEF Contained
      <4>2. Contained(c)'
        <5>1. merged'[n][1] <= span[1] /\ span[2] <= merged'[n][2]
          BY <3>1, <3>2, <3>4, <3>6
        <5>q. QED
          BY <5>1, <3>6, <3>1, <2>1 DEF Contained
      <4>q. QED
        BY <4>1, <4>2, <2>1
    <3>10. merged' # <<>> /\ merged'[Len(merged')][1] <= span[1]
      BY <3>1, <3>2, <3>4, <3>6, <3>n
    <3>q. QED
      BY <3>6, <3>7, <3>8, <3>9, <3>10
  <2>q. QED
    BY <2>5, <2>6
<1>4. CASE BeginCutting
  <2>1. phase = "merges" /\ phase' = "cuts" /\ merged' = merged /\ spans' = spans
    BY <1>4 DEF BeginCutting, hearing
  <2>2. \A j \in 1 .. Len(spans) : Contained(j)
    BY <1>4, <1>s DEF BeginCutting, MergedSound
  <2>q. QED
    BY <2>1, <2>2 DEF MergedSound, Contained
<1>5. CASE CutSpan \/ KeepRest \/ WriteCandidates
  BY <1>5, <1>s DEF CutSpan, KeepRest, WriteCandidates, hearing, MergedSound, Contained
<1>6. CASE UNCHANGED segmentVars
  BY <1>6, <1>0 DEF segmentVars
<1>q. QED
  BY <1>1, <1>2, <1>3, <1>4, <1>5, <1>6 DEF SegmentNext

(* The clips are cut in order; those of the span at cursor reach from its   *)
(* start to cutFrom, and what is left of it after a cut is long enough.     *)
GoodClip(c) ==
  /\ 0 <= c[1] /\ c[2] <= Frames
  /\ Length(c) >= MinClip
  /\ Length(c) <= MaxClip \/ Length(c) < 2 * MinClip

InClips(t) == \E i \in 1 .. Len(clips) : Hears(clips[i], t)

InLong(n, t) ==
  \E k \in 1 .. Len(merged) : k <= n /\ Length(merged[k]) >= MinClip /\ Hears(merged[k], t)

ClipsSound ==
  /\ clips \in Seq(Pairs)
  /\ \A i \in 1 .. Len(clips) :
       GoodClip(clips[i]) /\ (i > 1 => clips[i - 1][2] <= clips[i][1])
  /\ phase \in {"hears", "merges"} => clips = <<>>
  /\ phase = "cuts" =>
       /\ cursor \in 1 .. Len(merged) + 1 /\ cutFrom \in Int
       /\ cursor <= Len(merged) =>
            /\ merged[cursor][1] <= cutFrom /\ cutFrom <= merged[cursor][2]
            /\ cutFrom # merged[cursor][1] => merged[cursor][2] - cutFrom >= MinClip
       /\ cursor > Len(merged) => cutFrom = Frames
       /\ \A i \in 1 .. Len(clips) : clips[i][2] <= cutFrom
       /\ \A t \in Int :
            InClips(t) <=>
              \/ InLong(cursor - 1, t)
              \/ cursor <= Len(merged) /\ merged[cursor][1] <= t /\ t < cutFrom
  /\ phase \in {"written", "empty"} => \A t \in Int : InClips(t) <=> InLong(Len(merged), t)

(* Adding a clip that begins where the others have ended.                   *)
LEMMA ClipAdded ==
  ASSUME ClipsSound, NEW from \in Int, NEW to \in Int, GoodClip(<<from, to>>),
         \A i \in 1 .. Len(clips) : clips[i][2] <= from,
         clips' = Append(clips, <<from, to>>)
  PROVE  /\ clips' \in Seq(Pairs)
         /\ \A i \in 1 .. Len(clips') :
              /\ GoodClip(clips'[i]) /\ (i > 1 => clips'[i - 1][2] <= clips'[i][1])
              /\ clips'[i][2] <= to
         /\ \A t \in Int : InClips(t)' <=> InClips(t) \/ (from <= t /\ t < to)
<1>1. <<from, to>> \in Pairs /\ <<from, to>>[1] = from /\ <<from, to>>[2] = to
  BY SpanValues
<1>2. clips \in Seq(Pairs) /\ Len(clips) \in Nat
  BY DEF ClipsSound
<1>3. /\ clips' \in Seq(Pairs) /\ Len(clips') = Len(clips) + 1
      /\ \A i \in 1 .. Len(clips) : clips'[i] = clips[i] /\ clips[i] \in Pairs
      /\ clips'[Len(clips) + 1] = <<from, to>>
  BY <1>1, <1>2, SpanAppended
<1>4. \A i \in 1 .. Len(clips) : clips[i][1] \in Int /\ clips[i][2] \in Int
  BY <1>3, SpanValues
<1>5. from < to
  BY <1>1, SegmentationAssumption DEF GoodClip, Length
<1>6. \A i \in 1 .. Len(clips') :
        /\ GoodClip(clips'[i]) /\ (i > 1 => clips'[i - 1][2] <= clips'[i][1])
        /\ clips'[i][2] <= to
  <2> SUFFICES ASSUME NEW i \in 1 .. Len(clips')
               PROVE  /\ GoodClip(clips'[i]) /\ (i > 1 => clips'[i - 1][2] <= clips'[i][1])
                      /\ clips'[i][2] <= to
    OBVIOUS
  <2>1. CASE i = Len(clips) + 1
    <3>1. i > 1 => i - 1 \in 1 .. Len(clips)
      BY <2>1, <1>2
    <3>q. QED
      BY <2>1, <3>1, <1>1, <1>3, <1>4
  <2>2. CASE i \in 1 .. Len(clips)
    <3>1. GoodClip(clips[i]) /\ (i > 1 => clips[i - 1][2] <= clips[i][1]) /\ clips[i][2] <= from
      BY <2>2 DEF ClipsSound
    <3>2. clips'[i] = clips[i] /\ (i > 1 => clips'[i - 1] = clips[i - 1])
      BY <2>2, <1>2, <1>3
    <3>3. clips[i][2] <= to
      BY <2>2, <3>1, <1>4, <1>5
    <3>q. QED
      BY <3>1, <3>2, <3>3
  <2>q. QED
    BY <2>1, <2>2, <1>2, <1>3
<1>7. ASSUME NEW t \in Int PROVE InClips(t)' <=> InClips(t) \/ (from <= t /\ t < to)
  <2>1. \A i \in 1 .. Len(clips) : Hears(clips'[i], t) <=> Hears(clips[i], t)
    BY <1>3
  <2>2. Hears(clips'[Len(clips) + 1], t) <=> from <= t /\ t < to
    BY <1>1, <1>3 DEF Hears
  <2>3. \A i : i \in 1 .. Len(clips') <=> i \in 1 .. Len(clips) \/ i = Len(clips) + 1
    BY <1>2, <1>3
  <2>q. QED
    BY <2>1, <2>2, <2>3, Zenon DEF InClips
<1>q. QED
  BY <1>3, <1>6, <1>7

(* A cut leaves a piece within bounds and a rest that is long enough; a     *)
(* span is left whole when it is short or two clips would not fit.          *)
LEMMA CutIsGood ==
  ASSUME NEW start \in Int, NEW end \in Int, 0 <= start, end <= Frames
  PROVE  /\ CutAt(start, end) \in Int
         /\ Cuts(start, end) =>
              /\ GoodClip(<<start, CutAt(start, end)>>)
              /\ start < CutAt(start, end) /\ CutAt(start, end) <= end
              /\ end - CutAt(start, end) >= MinClip
         /\ ~Cuts(start, end) /\ end - start >= MinClip => GoodClip(<<start, end>>)
<1>1. MinClip \in Nat \ {0} /\ MaxClip \in Nat /\ MinClip <= MaxClip /\ Frames \in Nat
  BY SegmentationAssumption
<1>2. CASE end - (start + MaxClip) < MinClip
  BY <1>1, <1>2 DEF CutAt, Cuts, GoodClip, Length
<1>3. CASE ~(end - (start + MaxClip) < MinClip)
  BY <1>1, <1>3 DEF CutAt, Cuts, GoodClip, Length
<1>q. QED
  BY <1>2, <1>3

LEMMA ClipsStep == MergedSound /\ ClipsSound /\ [SegmentNext]_segmentVars => ClipsSound'
<1> SUFFICES ASSUME MergedSound, ClipsSound, [SegmentNext]_segmentVars PROVE ClipsSound'
  OBVIOUS
<1>m. /\ merged \in Seq(Pairs) /\ Len(merged) \in Nat
      /\ \A k \in 1 .. Len(merged) : merged[k][1] \in Int /\ merged[k][2] \in Int /\ Within(merged[k])
      /\ \A k \in 1 .. Len(merged) - 1 : merged[k + 1][1] - merged[k][2] > MaxGap
  BY SpanValues DEF MergedSound
<1>c. clips \in Seq(Pairs) /\ Len(clips) \in Nat
  BY DEF ClipsSound
<1>g. MaxGap \in Nat /\ Frames \in Nat /\ MinClip \in Nat \ {0}
  BY SegmentationAssumption
<1>0. CASE UNCHANGED <<merged, clips, cursor, phase, cutFrom>>
  BY <1>0, Zenon DEF ClipsSound, InClips, InLong
<1>1. CASE phase \in {"hears", "merges"} /\ phase' \in {"hears", "merges", "invalid"} /\ clips' = clips
  BY <1>1, <1>c, EmptySpans DEF ClipsSound
<1>2. CASE BeginCutting
  <2>1. /\ clips = <<>> /\ clips' = <<>> /\ phase' = "cuts" /\ cursor' = 1
        /\ merged' = merged /\ cutFrom' = RawStart(1)
    BY <1>2 DEF BeginCutting, ClipsSound
  <2>2. /\ cutFrom' \in Int
        /\ 1 <= Len(merged) => cutFrom' = merged[1][1] /\ cutFrom' <= merged[1][2]
        /\ 1 > Len(merged) => cutFrom' = Frames
    BY <2>1, <1>m, <1>g DEF RawStart, Within
  <2>3. ASSUME NEW t \in Int PROVE ~InClips(t)' /\ ~InLong(0, t)'
    BY <2>1, <1>m, EmptySpans DEF InClips, InLong
  <2>4. cursor' - 1 = 0 /\ cursor' \in 1 .. Len(merged') + 1
    BY <2>1, <1>m
  <2>5. \A t \in Int : ~(1 <= Len(merged) /\ merged[1][1] <= t /\ t < cutFrom')
    BY <2>2, <1>m
  <2>6. 1 <= Len(merged) => merged[1][1] <= cutFrom'
    BY <2>2, <1>m
  <2>7. clips' \in Seq(Pairs) /\ 1 .. Len(clips') = {}
    BY <2>1, EmptySpans
  <2>q. QED
    BY <2>1, <2>2, <2>3, <2>4, <2>5, <2>6, <2>7 DEF ClipsSound
<1>3. CASE WriteCandidates
  <2>1. /\ phase = "cuts" /\ cursor > Len(merged) /\ merged' = merged /\ clips' = clips
        /\ phase' \in {"written", "empty"}
    BY <1>3 DEF WriteCandidates
  <2>2. cursor - 1 = Len(merged) /\ ~(cursor <= Len(merged))
    BY <2>1, <1>m DEF ClipsSound
  <2>3. \A t \in Int : InClips(t) <=> InLong(Len(merged), t)
    BY <2>1, <2>2 DEF ClipsSound
  <2>4. \A t \in Int : InClips(t)' <=> InLong(Len(merged), t)'
    BY <2>1, <2>3 DEF InClips, InLong
  <2>q. QED
    BY <2>1, <2>4 DEF ClipsSound
<1>4. CASE CutSpan \/ KeepRest
  <2> PICK c, from : c = cursor /\ from = cutFrom
    OBVIOUS
  <2>1. /\ phase = "cuts" /\ phase' = "cuts" /\ c \in 1 .. Len(merged) /\ merged' = merged
        /\ c = cursor /\ from = cutFrom
    BY <1>4, <1>m DEF CutSpan, KeepRest, ClipsSound
  <2> DEFINE end == merged[c][2]
             first == merged[c][1]
  <2>2. /\ from \in Int /\ first <= from /\ from <= end
        /\ from # first => end - from >= MinClip
        /\ \A i \in 1 .. Len(clips) : clips[i][2] <= from
    BY <2>1, <1>m DEF ClipsSound
  <2>3. \A t \in Int : InClips(t) <=> InLong(c - 1, t) \/ (first <= t /\ t < from)
    BY <2>1, <1>m DEF ClipsSound
  <2>4. /\ first \in Int /\ end \in Int /\ 0 <= from /\ end <= Frames
        /\ 0 <= first /\ first < end
    BY <2>1, <2>2, <1>m, <1>g DEF Within
  <2>5. \A n, t : InLong(n, t)' <=> InLong(n, t)
    BY <2>1, Zenon DEF InLong
  <2>6. CASE CutSpan
    <3> DEFINE cut == CutAt(from, end)
    <3>1. /\ Cuts(from, end) /\ clips' = Append(clips, <<from, cut>>) /\ cutFrom' = cut
          /\ cursor' = cursor
      BY <2>1, <2>6 DEF CutSpan
    <3>2. /\ cut \in Int /\ GoodClip(<<from, cut>>) /\ from < cut /\ cut <= end
          /\ end - cut >= MinClip
      BY <3>1, <2>2, <2>4, CutIsGood
    <3> HIDE DEF cut, end, first
    <3>3. /\ clips' \in Seq(Pairs)
          /\ \A i \in 1 .. Len(clips') :
               /\ GoodClip(clips'[i]) /\ (i > 1 => clips'[i - 1][2] <= clips'[i][1])
               /\ clips'[i][2] <= cut
          /\ \A t \in Int : InClips(t)' <=> InClips(t) \/ (from <= t /\ t < cut)
      BY <3>1, <3>2, <2>2, ClipAdded
    <3>4. ASSUME NEW t \in Int
          PROVE  InClips(t)' <=> InLong(c - 1, t)' \/ (first <= t /\ t < cut)
      BY <3>2, <3>3, <2>2, <2>3, <2>4, <2>5
    <3>5. cursor' = c /\ c \in 1 .. Len(merged') + 1 /\ c <= Len(merged')
      BY <3>1, <2>1, <1>m
    <3>6. first = merged'[c][1] /\ end = merged'[c][2] /\ first <= cut
      BY <2>1, <2>2, <2>4, <3>2 DEF first, end
    <3>7. ~(c > Len(merged'))
      BY <3>5, <2>1, <1>m
    <3>q. QED
      BY <3>1, <3>2, <3>3, <3>4, <3>5, <3>6, <3>7, <2>1 DEF ClipsSound
  <2>7. CASE KeepRest
    <3>1. /\ ~Cuts(from, end) /\ cursor' = c + 1 /\ cutFrom' = RawStart(c + 1)
          /\ clips' = IF end - from >= MinClip THEN Append(clips, <<from, end>>) ELSE clips
      BY <2>1, <2>7 DEF KeepRest
    <3>2. /\ cutFrom' \in Int /\ end <= cutFrom'
          /\ c + 1 <= Len(merged) => cutFrom' = merged[c + 1][1]
          /\ c + 1 > Len(merged) => cutFrom' = Frames
      BY <3>1, <2>1, <2>4, <1>m, <1>g DEF RawStart
    <3>3. /\ clips' \in Seq(Pairs)
          /\ \A i \in 1 .. Len(clips') :
               /\ GoodClip(clips'[i]) /\ (i > 1 => clips'[i - 1][2] <= clips'[i][1])
               /\ clips'[i][2] <= end
          /\ \A t \in Int :
               InClips(t)' <=> InLong(c - 1, t) \/ (Length(merged[c]) >= MinClip /\ Hears(merged[c], t))
      <4>1. CASE end - from >= MinClip
        <5>1. GoodClip(<<from, end>>) /\ clips' = Append(clips, <<from, end>>)
          BY <4>1, <3>1, <2>2, <2>4, CutIsGood
        <5>2. Length(merged[c]) >= MinClip
          BY <4>1, <2>2, <2>4, <1>g DEF Length
        <5>3. \A t \in Int : Hears(merged[c], t) <=> first <= t /\ t < end
          BY DEF Hears
        <5> HIDE DEF end, first
        <5>4. /\ clips' \in Seq(Pairs)
              /\ \A i \in 1 .. Len(clips') :
                   /\ GoodClip(clips'[i]) /\ (i > 1 => clips'[i - 1][2] <= clips'[i][1])
                   /\ clips'[i][2] <= end
              /\ \A t \in Int : InClips(t)' <=> InClips(t) \/ (from <= t /\ t < end)
          BY <5>1, <2>2, <2>4, ClipAdded
        <5>5. ASSUME NEW t \in Int
              PROVE  InClips(t)' <=> InLong(c - 1, t) \/ (first <= t /\ t < end)
          BY <5>4, <2>2, <2>3, <2>4
        <5>q. QED
          BY <5>2, <5>3, <5>4, <5>5
      <4>2. CASE ~(end - from >= MinClip)
        <5>1. clips' = clips /\ from = first
          BY <4>2, <3>1, <2>2
        <5>2. ~(Length(merged[c]) >= MinClip)
          BY <4>2, <5>1 DEF Length
        <5>3. \A i \in 1 .. Len(clips) : clips[i][2] \in Int
          BY <1>c, SpanValues
        <5>4. \A i \in 1 .. Len(clips) : clips[i][2] <= end
          BY <5>3, <2>2, <2>4
        <5>5. \A t \in Int : InClips(t)' <=> InLong(c - 1, t)
          <6>1. \A t : InClips(t)' <=> InClips(t)
            BY <5>1, Zenon DEF InClips
          <6>2. \A t \in Int : ~(first <= t /\ t < from)
            BY <5>1, <2>4
          <6>q. QED
            BY <6>1, <6>2, <2>3, Zenon
        <5>6. \A i \in 1 .. Len(clips) :
                GoodClip(clips[i]) /\ (i > 1 => clips[i - 1][2] <= clips[i][1])
          BY DEF ClipsSound
        <5>q. QED
          BY <5>1, <5>2, <5>4, <5>5, <5>6, <1>c, Zenon
      <4>q. QED
        BY <4>1, <4>2
    <3>4. ASSUME NEW t \in Int PROVE InClips(t)' <=> InLong(c, t)'
      <4>1. \A k \in 1 .. Len(merged) : k <= c <=> k <= c - 1 \/ k = c
        BY <2>1, <1>m
      <4>2. InLong(c, t) <=> InLong(c - 1, t) \/ (Length(merged[c]) >= MinClip /\ Hears(merged[c], t))
        BY <4>1, <2>1, Zenon DEF InLong
      <4>q. QED
        BY <4>2, <3>3, <2>5, Zenon
    <3>5. /\ cursor' = c + 1 /\ cursor' \in 1 .. Len(merged') + 1 /\ cursor' - 1 = c
          /\ c + 1 \in Int
      BY <3>1, <2>1, <1>m
    <3>6. \A i \in 1 .. Len(clips') : clips'[i][2] <= cutFrom'
      <4>1. \A i \in 1 .. Len(clips') : clips'[i][2] \in Int
        BY <3>3, SpanValues
      <4>q. QED
        BY <4>1, <3>2, <3>3, <2>4
    <3>7. c + 1 <= Len(merged) =>
            /\ merged[c + 1][1] = cutFrom' /\ cutFrom' <= merged[c + 1][2]
      <4>1. c + 1 <= Len(merged) => c + 1 \in 1 .. Len(merged)
        BY <2>1, <1>m
      <4>q. QED
        BY <4>1, <3>2, <1>m DEF Within
    <3>8. \A t \in Int : ~(c + 1 <= Len(merged) /\ merged[c + 1][1] <= t /\ t < cutFrom')
      BY <3>7, <3>2
    <3>9. /\ \A i \in 1 .. Len(clips') :
               GoodClip(clips'[i]) /\ (i > 1 => clips'[i - 1][2] <= clips'[i][1])
          /\ clips' \in Seq(Pairs)
      BY <3>3
    <3> HIDE DEF end, first
    <3>q. QED
      BY <3>2, <3>4, <3>5, <3>6, <3>7, <3>8, <3>9, <2>1 DEF ClipsSound
  <2>q. QED
    BY <1>4, <2>6, <2>7
<1>5. ASSUME NEW level, Frame(level) PROVE ClipsSound'
  BY <1>5, <1>1 DEF Frame
<1>6. CASE EndOfAudio \/ MergeSpan
  BY <1>6, <1>1 DEF EndOfAudio, MergeSpan
<1>7. CASE UNCHANGED segmentVars
  BY <1>7, <1>0 DEF segmentVars
<1>q. QED
  BY <1>2, <1>3, <1>4, <1>5, <1>6, <1>7 DEF SegmentNext

(* The clips of every recording, whatever the settings, are sound.          *)
THEOREM ClipsAreSound == SegmentSpec => []CandidatesAreSound
<1> DEFINE Inv == SpansInOrder /\ MergedSound /\ ClipsSound
<1>1. SegmentInit => Inv
  <2> SUFFICES ASSUME SegmentInit PROVE Inv
    OBVIOUS
  <2>1. SpansInOrder
    BY EmptySpans, SegmentationAssumption DEF SegmentInit, SpansInOrder
  <2>2. MergedSound
    BY EmptySpans DEF SegmentInit, MergedSound
  <2>3. ClipsSound
    BY EmptySpans DEF SegmentInit, ClipsSound
  <2>q. QED
    BY <2>1, <2>2, <2>3
<1>2. Inv /\ [SegmentNext]_segmentVars => Inv'
  BY SpansStep, MergedStep, ClipsStep
<1>3. Inv => CandidatesAreSound
  <2> SUFFICES ASSUME Inv PROVE CandidatesAreSound
    OBVIOUS
  <2>1. phase # "invalid"
    BY DEF MergedSound
  <2> SUFFICES ASSUME phase \in {"written", "empty"}
               PROVE  /\ \A i \in 1 .. Len(clips) : GoodClip(clips[i]) /\ (i > 1 => clips[i - 1][2] <= clips[i][1])
                      /\ \A t \in 0 .. Frames - 1 : InClips(t) <=> InLong(Len(merged), t)
                      /\ \A k \in 1 .. Len(merged) - 1 : merged[k + 1][1] - merged[k][2] > MaxGap
                      /\ \A j \in 1 .. Len(spans), t \in 0 .. Frames - 1 :
                           Hears(spans[j], t) => \E k \in 1 .. Len(merged) : Hears(merged[k], t)
    <3>1. Len(merged) \in Nat
      BY DEF MergedSound
    <3>2. \A k \in 1 .. Len(merged) : k <= Len(merged)
      BY <3>1
    <3>q. QED
      BY <2>1, <3>2, Zenon DEF CandidatesAreSound, GoodClip, InClips, InLong
  <2>2. \A i \in 1 .. Len(clips) : GoodClip(clips[i]) /\ (i > 1 => clips[i - 1][2] <= clips[i][1])
    BY DEF ClipsSound
  <2>3. \A t \in 0 .. Frames - 1 : InClips(t) <=> InLong(Len(merged), t)
    BY DEF ClipsSound
  <2>4. \A k \in 1 .. Len(merged) - 1 : merged[k + 1][1] - merged[k][2] > MaxGap
    BY DEF MergedSound
  <2>5. ASSUME NEW j \in 1 .. Len(spans), NEW t \in 0 .. Frames - 1, Hears(spans[j], t)
        PROVE  \E k \in 1 .. Len(merged) : Hears(merged[k], t)
    <3>1. PICK k \in 1 .. Len(merged) : merged[k][1] <= spans[j][1] /\ spans[j][2] <= merged[k][2]
      BY DEF MergedSound, Contained
    <3>2. spans[j][1] \in Int /\ spans[j][2] \in Int /\ merged[k][1] \in Int /\ merged[k][2] \in Int
      BY SpanValues DEF SpansInOrder, MergedSound
    <3>3. Hears(merged[k], t)
      BY <2>5, <3>1, <3>2 DEF Hears
    <3>q. QED
      BY <3>3
  <2>q. QED
    BY <2>2, <2>3, <2>4, <2>5
<1> HIDE DEF Inv
<1>q. QED
  BY <1>1, <1>2, <1>3, PTL DEF SegmentSpec

=============================================================================
