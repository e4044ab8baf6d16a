------------------------------- MODULE GpuJob -------------------------------
(***************************************************************************)
(* echoweave/gpu_worker.py: the commands `run` and `finalize` of the       *)
(* remote GPU worker, processes that share nothing but files.  A job       *)
(* manifest pins what the job reads by digest; run makes the media and     *)
(* signs a record of it, an evaluator measures the media, and finalize     *)
(* binds job, record, media and metrics in a provenance file.              *)
(*                                                                         *)
(* The artifacts, models and checkouts a job pins are one input with a     *)
(* version; whoever edits it never brings an old version back.  A digest   *)
(* is the content it is of.  Only an operator removes files, and only      *)
(* while no command runs.                                                  *)
(***************************************************************************)
EXTENDS Integers, FiniteSets

CONSTANTS Run, Final,       \* commands, each started once, with a record path per run
          Modes,            \* modes of jobs
          ValidUntil,       \* when the authorization ends
          MaxClock, MaxInputEdits

ASSUME JobAssumption ==
  /\ Modes \subseteq {"zero", "lora", "soulx"} /\ Run \cap Final = {}
  /\ ValidUntil \in Nat /\ MaxClock \in Nat /\ MaxInputEdits \in Nat

VARIABLES
  mode,             \* of the job, which its editions share
  jobFile,          \* the manifest: its edition and the input version it pins
  inputVersion,
  jobClock,
  media,            \* output file: what it was made from and when, or NoFile
  checkpoint,       \* checkpoint_dir, with the version it was trained on
  runRecord,        \* files of --record, one for each run
  metrics,          \* the evaluator's file: the media it measured, the outcome
  provenance,       \* file of --output of the finalizers
  command           \* the local state of each command

jobVars == <<mode, jobFile, inputVersion, jobClock, media, checkpoint,
             runRecord, metrics, provenance, command>>
disk == <<media, checkpoint, runRecord, metrics, provenance>>
world == <<mode, jobFile, inputVersion, jobClock>>

NoFile == [absent |-> TRUE]
Fresh == [at |-> "new", job |-> NoFile, sha |-> 0, temp |-> NoFile,
          record |-> NoFile, measured |-> NoFile]

Ended == {"new", "done", "failed", "crashed"}

-----------------------------------------------------------------------------

JobInit ==
  /\ mode \in Modes
  /\ jobFile = [edition |-> 1, pin |-> 1] /\ inputVersion = 1
  /\ jobClock = 0
  /\ media = NoFile /\ checkpoint = NoFile /\ metrics = NoFile /\ provenance = NoFile
  /\ runRecord = [r \in Run |-> NoFile]
  /\ command = [c \in Run \cup Final |-> Fresh]

Goto(c, l) == command' = [command EXCEPT ![c].at = l]

\* A command ends, and with it its local state.
Ends(c, how) == command' = [command EXCEPT ![c] = [Fresh EXCEPT !.at = how]]

\* It ends with WorkerPackError; its temporary file is removed.
Fails(c) == Ends(c, "failed")

\* validate_job reads the manifest first ...
ReadJob(c) ==
  /\ command[c].at = "new"
  /\ command' = [command EXCEPT ![c].at = "validates", ![c].job = jobFile]
  /\ UNCHANGED <<world, disk>>

\* The files, models and repositories the job names have the digests it names.
InputsAreAsPinned(c) == command[c].job.pin = inputVersion

\* _validate_authorization, as far as it depends on the state
AuthorizationHolds == jobClock < ValidUntil

JobValid(c) == InputsAreAsPinned(c) /\ AuthorizationHolds

\* ... checks all that it names, and hashes it at the end.  Checks that do not
\* depend on the state fail at any time.
ValidateJob(c) ==
  /\ command[c].at = "validates"
  /\ \/ /\ JobValid(c)
        /\ command' = [command EXCEPT ![c].at = "validated", ![c].sha = jobFile.edition]
     \/ Fails(c)
  /\ UNCHANGED <<world, disk>>

\* _verify_validated_binding
BindingHolds(c) ==
  /\ jobFile.edition = command[c].sha
  /\ AuthorizationHolds
  /\ InputsAreAsPinned(c)

Verify(c, from, to) ==
  /\ command[c].at = from
  /\ IF BindingHolds(c) THEN Goto(c, to) ELSE Fails(c)
  /\ UNCHANGED <<world, disk>>

\* run_job up to the run of the mode: the binding and preflight_job, which the
\* machine may fail as well.
Preflight(r) ==
  /\ command[r].at = "validated"
  /\ \/ /\ BindingHolds(r) /\ media = NoFile /\ checkpoint = NoFile
        /\ Goto(r, IF mode = "lora" THEN "starts_training" ELSE "starts")
     \/ Fails(r)
  /\ UNCHANGED <<world, disk>>

\* _run_lora_training: the directory must be new, and stays if training fails.
BeginTraining(r) ==
  /\ command[r].at = "starts_training"
  /\ IF BindingHolds(r) /\ checkpoint = NoFile
     THEN checkpoint' = [from |-> 0] /\ Goto(r, "trains")
     ELSE checkpoint' = checkpoint /\ Fails(r)
  /\ UNCHANGED <<world, media, runRecord, metrics, provenance>>

Train(r) ==
  /\ command[r].at = "trains"
  /\ \/ checkpoint' = [from |-> inputVersion] /\ Goto(r, "trained")
     \/ checkpoint' = checkpoint /\ Fails(r)
  /\ UNCHANGED <<world, media, runRecord, metrics, provenance>>

TrainingEnds(r) == Verify(r, "trained", "starts")

\* _run_voxcpm and _run_soulx verify, generate into a temporary file ...
BeginInference(r) == Verify(r, "starts", "generates")

Generate(r) ==
  /\ command[r].at = "generates"
  /\ \/ command' = [command EXCEPT
           ![r].at = "generated",
           ![r].temp = [from |-> {inputVersion} \cup
                          (IF mode = "lora" THEN {checkpoint.from} ELSE {}),
                        madeAt |-> jobClock, by |-> r]]
     \/ Fails(r)
  /\ UNCHANGED <<world, disk>>

\* ... and verify again.  _run_soulx, whose failures before this one are cleaned
\* up after, has no finally clause for the file here.
InferenceEnds(r) ==
  /\ command[r].at = "generated"
  /\ IF BindingHolds(r) THEN Goto(r, "verified")
     ELSE IF mode = "soulx"
          THEN command' = [command EXCEPT
                 ![r] = [Fresh EXCEPT !.at = "failed", !.temp = command[r].temp]]
          ELSE Fails(r)
  /\ UNCHANGED <<world, disk>>

\* Mutant: os.replace instead of os.link.
ReplaceMediaFile(r) ==
  /\ command[r].at = "verified"
  /\ media' = command[r].temp
  /\ command' = [command EXCEPT ![r].at = "published", ![r].temp = NoFile]
  /\ UNCHANGED <<world, checkpoint, runRecord, metrics, provenance>>

\* _publish_new_file: os.link refuses a name that exists
PublishMediaFile(r) ==
  /\ command[r].at = "verified"
  /\ IF media = NoFile
     THEN /\ media' = command[r].temp
          /\ command' = [command EXCEPT ![r].at = "published", ![r].temp = NoFile]
     ELSE media' = media /\ Fails(r)
  /\ UNCHANGED <<world, checkpoint, runRecord, metrics, provenance>>

\* The rest of run_job: hash the output, sign, write the record
WriteRecord(r) ==
  /\ command[r].at = "published"
  /\ IF runRecord[r] = NoFile
     THEN /\ runRecord' = [runRecord EXCEPT ![r] =
               [edition |-> command[r].sha, pin |-> command[r].job.pin,
                ran |-> command[r].job.edition, media |-> media]]
          /\ Ends(r, "done")
     ELSE runRecord' = runRecord /\ Fails(r)
  /\ UNCHANGED <<world, media, checkpoint, metrics, provenance>>

-----------------------------------------------------------------------------

\* _load_run_record of the record of r
LoadRecord(f, r) ==
  /\ command[f].at = "validated" /\ runRecord[r] # NoFile
  /\ LET rec == runRecord[r]
     IN IF /\ rec.edition = command[f].sha
           /\ BindingHolds(f) /\ rec.pin = command[f].job.pin
           /\ media = rec.media
        THEN command' = [command EXCEPT ![f].at = "loaded", ![f].record = rec]
        ELSE Fails(f)
  /\ UNCHANGED <<world, disk>>

NoRecord(f) ==
  /\ command[f].at = "validated" /\ \E r \in Run : runRecord[r] = NoFile
  /\ Fails(f)
  /\ UNCHANGED <<world, disk>>

\* finalize_provenance reads the metrics, whose run_id is the job's, ...
ReadMetrics(f) ==
  /\ command[f].at = "loaded"
  /\ IF metrics = NoFile THEN Fails(f)
     ELSE command' = [command EXCEPT ![f].at = "measured", ![f].measured = metrics]
  /\ UNCHANGED <<world, disk>>

\* ... and publishes: _write_private_json does not replace a file.
WriteProvenance(f) ==
  /\ command[f].at = "measured"
  /\ IF provenance = NoFile
     THEN /\ provenance' = [pin |-> command[f].job.pin, record |-> command[f].record,
                            accepted |-> command[f].measured.passed,
                            measured |-> command[f].measured.of]
          /\ Ends(f, "done")
     ELSE provenance' = provenance /\ Fails(f)
  /\ UNCHANGED <<world, media, checkpoint, runRecord, metrics>>

-----------------------------------------------------------------------------
(* Everything else                                                         *)

\* A temporary file that it leaves is never read.
Crash(c) ==
  /\ command[c].at \notin Ended
  /\ Ends(c, "crashed")
  /\ UNCHANGED <<world, disk>>

JobTick ==
  /\ jobClock < MaxClock
  /\ jobClock' = jobClock + 1
  /\ UNCHANGED <<mode, jobFile, inputVersion, disk, command>>

EditInput ==
  /\ inputVersion < MaxInputEdits
  /\ inputVersion' = inputVersion + 1
  /\ UNCHANGED <<mode, jobFile, jobClock, disk, command>>

\* A new edition of the job, with the same run_id, pins what is there.
EditJob ==
  /\ jobFile.edition < MaxInputEdits
  /\ jobFile' = [edition |-> jobFile.edition + 1, pin |-> inputVersion]
  /\ UNCHANGED <<mode, inputVersion, jobClock, disk, command>>

Evaluate ==
  /\ media # NoFile
  /\ \E passed \in BOOLEAN : metrics' = [of |-> media, passed |-> passed]
  /\ UNCHANGED <<world, media, checkpoint, runRecord, provenance, command>>

\* The operator makes room for another attempt.
StartOver ==
  /\ \A c \in Run \cup Final : command[c].at \in Ended
  /\ media # NoFile \/ checkpoint # NoFile
  /\ media' = NoFile /\ checkpoint' = NoFile
  /\ runRecord' = [r \in Run |-> NoFile]
  /\ UNCHANGED <<world, metrics, provenance, command>>

RunStep(r) ==
  \/ Preflight(r) \/ BeginTraining(r) \/ Train(r) \/ TrainingEnds(r)
  \/ BeginInference(r) \/ Generate(r) \/ InferenceEnds(r) \/ PublishMediaFile(r) \/ WriteRecord(r)

FinalStep(f) ==
  (\E r \in Run : LoadRecord(f, r)) \/ NoRecord(f) \/ ReadMetrics(f) \/ WriteProvenance(f)

JobNext ==
  \/ \E c \in Run \cup Final : ReadJob(c) \/ ValidateJob(c) \/ Crash(c)
  \/ \E r \in Run : RunStep(r)
  \/ \E f \in Final : FinalStep(f)
  \/ JobTick \/ EditInput \/ EditJob \/ Evaluate \/ StartOver

JobSpec == JobInit /\ [][JobNext]_jobVars

-----------------------------------------------------------------------------

\* A signed record binds the media to the very input it was made from, checkpoint
\* included, and to a time at which the authorization held, however the input, the
\* manifest and the clock moved while a model ran (run_job, _run_lora_training,
\* _run_voxcpm, _run_soulx); a provenance file inherits this (_load_run_record).
PinsWereUsed ==
  /\ \A r \in Run : runRecord[r] # NoFile =>
       runRecord[r].media.from = {runRecord[r].pin}
  /\ provenance # NoFile => provenance.record.media.from = {provenance.pin}
  /\ media # NoFile => media.madeAt < ValidUntil

\* Two runs of one job may both have passed the preflight: one of them gets the
\* output name, and the media that a record names is never replaced by that of the
\* other (_publish_new_file, run_job).
RecordNamesTheMedia ==
  \A r \in Run : runRecord[r] # NoFile => runRecord[r].media = media /\ media.by = r

\* Synthetic media that were not published stay on the disk only after a crash or
\* when the last check of a SoulX job fails (_run_voxcpm, _run_soulx).
LeftoversAreKnown ==
  \A r \in Run : command[r].at \in {"done", "failed"} /\ command[r].temp # NoFile =>
    mode = "soulx"

RecordsAreBound == PinsWereUsed /\ RecordNamesTheMedia /\ LeftoversAreKnown

\* "HMAC-signs the exact input binding" (gpu_worker_pack/README.md): the manifest a
\* record names by its digest is the one that was validated and run.
ManifestIsTheOneRun ==
  \A r \in Run : runRecord[r] # NoFile => runRecord[r].edition = runRecord[r].ran

\* "bind independent metrics" (help of `finalize`): what an accepted provenance
\* names is what was measured.
MetricsAreOfTheMedia ==
  provenance # NoFile /\ provenance.accepted =>
    provenance.measured = provenance.record.media

=============================================================================
