--------------------------- MODULE DatasetPipeline ---------------------------
(***************************************************************************)
(* The private training data of services/realtime/scripts, from a video to  *)
(* a training set: acquire_bilibili_video.py downloads the video,           *)
(* segment_silero_ranges.py proposes ranges (Segmentation),                 *)
(* transcribe_qwen_ranges.py transcribes them (Transcription),              *)
(* prepare_audio_only_review_evidence.py binds both together,               *)
(* prepare_voxcpm_review_queue.py cuts the clips a person is to hear,       *)
(* review_voxcpm_queue.py stores that person's decisions,                   *)
(* export_voxcpm_dataset_plan.py turns the approved clips into a plan and   *)
(* prepare_voxcpm_dataset.py cuts the training clips.                       *)
(*                                                                         *)
(* No program locks a file: each hashes what it reads, reads it again, and *)
(* refuses to publish when a digest has changed.  A program is therefore a *)
(* script of single file accesses, and anything may be edited between two  *)
(* of them.  A digest is the content itself; an edit never brings an old   *)
(* content back (a file that is changed and restored between two hashes    *)
(* escapes every one of these programs).                                   *)
(***************************************************************************)
EXTENDS Naturals, Sequences, SequencesExt

CONSTANTS
  Clip,         \* the clips of the one source
  MaxFileEdits, \* bound: hand-made changes of files
  MaxSaves      \* bound: decisions stored

ASSUME PipelineAssumption == MaxFileEdits \in Nat /\ MaxSaves \in Nat /\ Clip # {}

VARIABLES
  content,      \* the file system: what each file holds
  server,       \* the review server: its snapshot, the decisions it has
                \* loaded for the request in hand, the audio being sent
  program,      \* the command that runs: its name, its next access, what it has seen
  dataset,      \* the published training set
  moments,      \* history: the file systems the running command has lived through
  edits, saves  \* bounded counters: they make every new content fresh

pipelineVars == <<content, server, program, dataset, moments, edits, saves>>

Absent == [none |-> "file"]
Torn == [none |-> "torn"]            \* a plan whose writer stopped half-way
Inputs == <<"transcript", "evidence", "source", "authorization">>
Hosts == <<"authorization", "tools", "video">>   \* what an acquisition depends on
FileName == ToSet(Inputs) \cup ToSet(Hosts)
              \cup {"media", "ranges", "queue", "audio", "decisions", "plan"}
NoDecision == [ok |-> FALSE, revision |-> 0, heard |-> Absent]
Idle == [name |-> "idle", at |-> 0, seen |-> [f \in {} |-> Absent]]
NoServer == [queue |-> Absent, loaded |-> Absent, sending |-> FALSE, heard |-> Absent]

PipelineInit ==
  /\ content = [f \in FileName |->
                  CASE f = "authorization" -> [version |-> 0, allowed |-> TRUE]
                    [] f \in ToSet(Hosts) -> [version |-> 0]
                    [] OTHER -> Absent]
  /\ server = NoServer /\ program = Idle /\ dataset = Absent
  /\ moments = {} /\ edits = 0 /\ saves = 0

(* The function seen, with x at f. *)
With(seen, f, x) == [g \in DOMAIN seen \cup {f} |-> IF g = f THEN x ELSE seen[g]]

-----------------------------------------------------------------------------
(* The scripts: what each command reads, in order, and what it compares    *)
(* the reading with.  "bind" takes the digest, "seen" compares with the    *)
(* digest taken, "queue" and "plan" with the digest that document names.   *)

Each(files, how) == [i \in DOMAIN files |-> <<files[i], how>>]

(* acquire_bilibili_video: the identity of the video is probed, and comes   *)
(* again with the download.                                                *)
AcquireScript ==
  Each(Hosts, "bind")
    \o << <<"video", "seen">>, <<"authorization", "seen">>, <<"tools", "seen">> >>

(* segment_audio. *)
SegmentScript == << <<"source", "bind">>, <<"source", "heard">>, <<"source", "seen">> >>

(* prepare_audio_only_evidence. *)
EvidenceFileScript ==
  << <<"source", "bind">>, <<"transcript", "bind">>, <<"transcript", "seen">>,
     <<"source", "seen">>, <<"transcript", "seen">> >>

(* Mutant: nothing is looked at again after the clips were cut. *)
QueueScriptOnce ==
  Each(Inputs, "bind") \o << <<"transcript", "seen">>, <<"evidence", "seen">>,
                             <<"source", "cut">> >>

(* build_review_queue. *)
QueueScript ==
  Each(Inputs, "bind") \o << <<"transcript", "seen">>, <<"evidence", "seen">>,
                             <<"source", "cut">> >> \o Each(Inputs, "seen")

(* _load_review_pair: the decisions are loaded by the store, when it is    *)
(* made and again, and then read once more for the digest that is bound.   *)
PairScript ==
  << <<"queue", "bind">>, <<"audio", "queue">>, <<"queue", "seen">> >>
    \o Each(Inputs, "queue")
    \o << <<"decisions", "load">>, <<"decisions", "load">>, <<"decisions", "bind">>,
          <<"queue", "seen">>, <<"audio", "seen">> >>
    \o Each(Inputs, "seen") \o << <<"decisions", "seen">> >>

(* export_dataset_plan. *)
ExportScript ==
  << <<"authorization", "bind">>, <<"authorization", "seen">> >> \o PairScript
    \o << <<"queue", "seen">>, <<"decisions", "seen">>, <<"authorization", "seen">> >>

(* validate_plan_review_evidence. *)
EvidenceScript ==
  << <<"authorization", "plan">>, <<"queue", "plan">>, <<"decisions", "plan">> >>
    \o PairScript \o << <<"plan", "check">> >>

(* Mutant: nothing is looked at again after the clips were cut. *)
DatasetScriptOnce ==
  << <<"plan", "bind">>, <<"authorization", "plan">>, <<"source", "plan">> >>
    \o EvidenceScript \o << <<"source", "cut">> >>

(* load_and_validate_plan, then build_dataset. *)
DatasetScript ==
  << <<"plan", "bind">>, <<"authorization", "plan">>, <<"source", "plan">> >>
    \o EvidenceScript \o << <<"source", "cut">>, <<"source", "plan">> >> \o EvidenceScript

Script(name) == CASE name = "acquire" -> AcquireScript
                  [] name = "segment" -> SegmentScript
                  [] name = "evidence" -> EvidenceFileScript
                  [] name = "queue" -> QueueScript
                  [] name = "export" -> ExportScript
                  [] name = "dataset" -> DatasetScript

-----------------------------------------------------------------------------
(* The clips a set of stored decisions approves, with their revisions:     *)
(* corrected text and updated_at.                                          *)
Approved(decisions) ==
  [c \in {c \in Clip : decisions.of[c].ok} |-> decisions.of[c].revision]

(* The comparisons at the end of one round of evidence: the snapshot is    *)
(* the one the plan names, its clips are the plan's clips.                 *)
EvidenceAgrees(seen) ==
  /\ \A f \in {"queue", "decisions"} : seen[f] = seen["plan"].names[f]
  /\ \A f \in {"source", "authorization"} :
       seen["queue"].names[f] = seen["plan"].names[f]
  /\ Approved(seen["loaded"]) = seen["plan"].clips

(* What one access accepts.                                                *)
Accepts(seen, f, how) ==
  /\ content[f] \notin {Absent, Torn}
  /\ CASE how = "seen" -> content[f] = seen[f]
       [] how = "queue" -> content[f] = seen["queue"].names[f]
       [] how = "plan" -> content[f] = seen["plan"].names[f]
       [] how = "load" -> /\ content[f].queue = seen["queue"]
                          /\ \A c \in Clip : content[f].of[c].revision > 0
       [] how = "check" -> EvidenceAgrees(seen)
       [] OTHER -> TRUE
  /\ f = "authorization" /\ program.name \in {"export", "dataset"} => content[f].allowed

(* What an access leaves in the command's memory. *)
Remember(seen, f, how) ==
  CASE how = "cut" -> With(seen, "cut", content[f])
    [] how = "load" -> With(seen, "loaded", content[f])
    [] how \in {"heard", "check"} -> seen
    [] OTHER -> With(seen, f, content[f])

Output(name) == CASE name = "acquire" -> content["media"]
                  [] name = "segment" -> content["ranges"]
                  [] name = "export" -> content["plan"]
                  [] name = "dataset" -> dataset
                  [] OTHER -> content[name]

(* A command starts: its output must not exist.                            *)
Begin(name) ==
  /\ program.name = "idle" /\ Output(name) = Absent
  /\ program' = [name |-> name, at |-> 1, seen |-> Idle.seen]
  /\ moments' = {content}
  /\ UNCHANGED <<content, server, dataset, edits, saves>>

(* One access of the running command. *)
Access ==
  /\ program.name # "idle" /\ program.at \in DOMAIN Script(program.name)
  /\ LET f == Script(program.name)[program.at][1]
         how == Script(program.name)[program.at][2] IN
       /\ Accepts(program.seen, f, how)
       /\ program' = [program EXCEPT !.at = @ + 1, !.seen = Remember(@, f, how)]
  /\ UNCHANGED <<content, server, dataset, moments, edits, saves>>

(* An access is refused, or the command is killed: the staging directory   *)
(* goes (or stays behind under a name nobody reads).                       *)
Abandon ==
  /\ program.name # "idle"
  /\ program' = Idle /\ moments' = {}
  /\ UNCHANGED <<content, server, dataset, edits, saves>>

Done(name) == program.name = name /\ program.at = Len(Script(name)) + 1
Names(files) == [f \in files |-> program.seen[f]]

(* The first four commands end with one rename: _publish_directory,          *)
(* _write_atomic (twice) and build_review_queue; each looks once more       *)
(* whether its output has appeared.                                        *)
Publish(name, file, value) ==
  /\ Done(name) /\ content[file] = Absent
  /\ content' = [content EXCEPT ![file] = value]
  /\ program' = Idle /\ moments' = {}
  /\ UNCHANGED <<server, dataset, edits, saves>>

PublishMedia == Publish("acquire", "media", [version |-> 0, names |-> Names(ToSet(Hosts))])

PublishRanges ==
  Publish("segment", "ranges", [version |-> 0, names |-> Names({"source"})])

(* The transcript must name the source, the evidence will name both. *)
PublishEvidence ==
  /\ Done("evidence")
  /\ program.seen["transcript"].names["source"] = program.seen["source"]
  /\ Publish("evidence", "evidence",
             [version |-> 0, names |-> Names({"source", "transcript"})])

(* The transcript must name the source, and the evidence the transcript. *)
PublishQueue ==
  /\ Done("queue") /\ content["queue"] = Absent
  /\ program.seen["transcript"].names["source"] = program.seen["source"]
  /\ program.seen["evidence"].names = Names({"source", "transcript"})
  /\ LET audio == [version |-> 0, cut |-> program.seen["cut"]] IN
       content' = [content EXCEPT
         !["audio"] = audio,
         !["queue"] = [version |-> 0,
                       names |-> With(Names(ToSet(Inputs)), "audio", audio)]]
  /\ program' = Idle /\ moments' = {}
  /\ UNCHANGED <<server, dataset, edits, saves>>

(* _write_new_file creates the plan exclusively and then fills it. *)
CreatePlan ==
  /\ Done("export") /\ content["plan"] = Absent
  /\ program.seen["queue"].names["authorization"] = program.seen["authorization"]
  /\ Approved(program.seen["loaded"]) # [c \in {} |-> 0]
  /\ content' = [content EXCEPT !["plan"] = Torn]
  /\ program' = [program EXCEPT !.at = @ + 1]
  /\ UNCHANGED <<server, dataset, moments, edits, saves>>

FillPlan ==
  /\ program.name = "export" /\ program.at = Len(ExportScript) + 2
  /\ content["plan"] = Torn
  /\ content' = [content EXCEPT !["plan"] =
       [names |-> With(Names({"authorization", "queue", "decisions"}),
                       "source", program.seen["queue"].names["source"]),
        clips |-> Approved(program.seen["loaded"])]]
  /\ program' = Idle /\ moments' = {}
  /\ UNCHANGED <<server, dataset, edits, saves>>

(* build_dataset replaces its staging directory into place. *)
PublishDataset ==
  /\ Done("dataset") /\ dataset = Absent
  /\ dataset' = [names |-> program.seen["plan"].names, cut |-> program.seen["cut"],
                 clips |-> program.seen["plan"].clips]
  /\ program' = Idle /\ moments' = {}
  /\ UNCHANGED <<content, server, edits, saves>>

-----------------------------------------------------------------------------
(* The review server.  It is not used after the last decision (a bound).   *)

Lived(files) == IF program.name = "idle" THEN moments ELSE moments \cup {files}
ServerOnly == UNCHANGED <<content, program, dataset, moments, edits, saves>>

(* QueueSnapshot.load: every clip must be the one the manifest names. *)
StartServer ==
  /\ saves < MaxSaves /\ server.queue = Absent /\ content["queue"] # Absent
  /\ content["audio"] = content["queue"].names["audio"]
  /\ server' = [NoServer EXCEPT !.queue = content["queue"]] /\ ServerOnly

StopServer == server # NoServer /\ server' = NoServer /\ ServerOnly

(* verify_manifest, and for a clip verify_audio. *)
ManifestIsSame == server.queue # Absent /\ content["queue"] = server.queue

(* _send_audio: the file is hashed, and then opened again and sent.  A     *)
(* reviewer listens once (a bound).                                        *)
CheckAudio ==
  /\ ManifestIsSame /\ ~server.sending /\ server.heard = Absent
  /\ content["audio"] = server.queue.names["audio"]
  /\ server' = [server EXCEPT !.sending = TRUE] /\ ServerOnly

SendAudio ==
  /\ server.sending
  /\ server' = [server EXCEPT !.sending = FALSE, !.heard = content["audio"]]
  /\ ServerOnly

(* DecisionStore.record, under its lock: verify and load ... *)
LoadDecisions ==
  /\ ManifestIsSame /\ server.loaded = Absent
  /\ content["decisions"] # Absent => content["decisions"].queue = server.queue
  /\ server' = [server EXCEPT !.loaded =
       IF content["decisions"] = Absent
       THEN [queue |-> server.queue, of |-> [c \in Clip |-> NoDecision]]
       ELSE content["decisions"]]
  /\ ServerOnly

(* ... and _write: the whole file is replaced. *)
StoreDecision(c, ok) ==
  /\ server.loaded # Absent /\ saves < MaxSaves
  /\ content' = [content EXCEPT !["decisions"] =
       [server.loaded EXCEPT !.of[c] =
          [ok |-> ok, revision |-> saves + 1, heard |-> server.heard]]]
  /\ server' = IF saves + 1 = MaxSaves THEN NoServer ELSE [server EXCEPT !.loaded = Absent]
  /\ saves' = saves + 1 /\ moments' = Lived(content')
  /\ UNCHANGED <<program, dataset, edits>>

Made(file, value) ==
  /\ content[file] = Absent
  /\ content' = [content EXCEPT ![file] = value] /\ moments' = Lived(content')
  /\ UNCHANGED <<server, program, dataset, edits, saves>>

(* The operator converts the video to the WAV source by hand. *)
Convert ==
  content["media"] # Absent /\ Made("source", [version |-> 0])

(* transcribe_ranges, as its module describes it. *)
Transcribe ==
  /\ content["ranges"] # Absent /\ content["ranges"].names["source"] = content["source"]
  /\ Made("transcript", [version |-> 0, names |-> [f \in {"source"} |-> content["source"]]])

(* The operator, another tool or an accident changes a file: the bytes are  *)
(* new, what a document names is what it named before.  The authorization  *)
(* may be withdrawn; a plan is only ever removed.                          *)
Edit(f) ==
  /\ edits < MaxFileEdits /\ content[f] # Absent /\ f # "decisions"
  /\ \E allowed \in BOOLEAN :
       content' = [content EXCEPT ![f] =
         CASE f = "authorization" -> [version |-> edits + 1, allowed |-> allowed]
           [] f = "plan" -> Absent
           [] OTHER -> [@ EXCEPT !.version = edits + 1]]
  /\ edits' = edits + 1 /\ moments' = Lived(content')
  /\ UNCHANGED <<server, program, dataset, saves>>

(* A new recording is put in place of the old one, and transcribed again:   *)
(* what was made of the old one stays behind.                              *)
Retranscribe ==
  /\ edits < MaxFileEdits /\ content["transcript"] # Absent
  /\ content' = [content EXCEPT !["transcript"] =
       [version |-> edits + 1, names |-> [f \in {"source"} |-> content["source"]]]]
  /\ edits' = edits + 1 /\ moments' = Lived(content')
  /\ UNCHANGED <<server, program, dataset, saves>>

PipelineNext ==
  \/ \E name \in {"acquire", "segment", "evidence", "queue", "export", "dataset"} :
       Begin(name)
  \/ Access \/ Abandon
  \/ PublishMedia \/ PublishRanges \/ PublishEvidence \/ PublishQueue
  \/ CreatePlan \/ FillPlan \/ PublishDataset
  \/ StartServer \/ StopServer \/ CheckAudio \/ SendAudio \/ LoadDecisions
  \/ \E c \in Clip, ok \in BOOLEAN : StoreDecision(c, ok)
  \/ Convert \/ Transcribe \/ Retranscribe
  \/ \E f \in FileName : Edit(f)

PipelineSpec == PipelineInit /\ [][PipelineNext]_pipelineVars

-----------------------------------------------------------------------------
(* Whatever a command publishes describes one moment: every file it names  *)
(* held what it says, all at once, while the command ran - although the    *)
(* command read them one after the other, without a lock.                  *)
Publishing(f) ==
  content[f] \in {Absent, Torn} /\ content'[f] \notin {Absent, Torn}
    /\ program.name # "idle" /\ program'.name = "idle"

WasSo(names) ==
  \E m \in moments : \A f \in DOMAIN names \ {"audio"} : m[f] = names[f]

PublishedIsOneMoment ==
  [][ /\ \A f \in {"media", "ranges", "evidence", "queue", "plan"} :
           Publishing(f) => WasSo(content'[f].names)
      /\ dataset # dataset' => WasSo(dataset'.names) ]_pipelineVars

(* A training set holds exactly the clips the decisions it names approve,  *)
(* in the reviewed wording, cut from the recording the reviewed audio was  *)
(* cut from, and a reviewer who listened heard that audio.                 *)
DatasetIsReviewed ==
  dataset # Absent =>
    LET decisions == dataset.names["decisions"]
        queue == dataset.names["queue"] IN
    /\ dataset.clips = Approved(decisions)
    /\ decisions.queue = queue /\ queue.names["source"] = dataset.names["source"]
    /\ dataset.cut = queue.names["audio"].cut /\ dataset.names["authorization"].allowed
    /\ \A c \in DOMAIN dataset.clips :
         decisions.of[c].heard \in {Absent, queue.names["audio"]}

(* Not so: "Saving a rejected decision is valid; it will not be exported." *)
(* The plan's clips come from one reading of the decisions and its binding *)
(* from a later one; a rejection stored in between is bound and ignored.   *)
RejectedIsNotExported ==
  content["plan"] \notin {Absent, Torn} =>
    \A c \in DOMAIN content["plan"].clips :
      content["plan"].names["decisions"].of[c].ok
=============================================================================
