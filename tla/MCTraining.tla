----------------------------- MODULE MCTraining -----------------------------
(***************************************************************************)
(* The commands that make models and skills, in one run: the training      *)
(* data, the GPU jobs and the forge.  `part` says which of them moves, and *)
(* the others stand where they start.                                      *)
(***************************************************************************)
EXTENDS DatasetPipeline, Transcription, Segmentation, TrainingManifest, GpuJob, Forge

CONSTANTS v1, s1           \* a version of a skill, what it holds

VARIABLE part

Parts == {"pipeline", "transcription", "segmentation", "manifest", "gpu", "forge"}

\* A part that does not move has one initial state.
Stands ==
  /\ part # "manifest" =>
       trainingSet = [lines |-> {}, inventory |-> {},
                      derivation |-> [c \in TrainClip |-> "none"]]
  /\ part # "gpu" => mode = "soulx"
  /\ part # "forge" => skill = [a \in Author |-> [version |-> v1, body |-> s1]]

TrainingInit ==
  /\ part \in Parts
  /\ Stands
  /\ PipelineInit /\ TranscriptInit /\ SegmentInit /\ DatasetInit /\ JobInit /\ ForgeInit

dataVars == <<pipelineVars, transcriptVars, segmentVars>>
modelVars == <<datasetVars, jobVars, forgeVars>>
trainingVars == <<part, dataVars, modelVars>>

PipelineMoves ==
  /\ part = "pipeline" /\ PipelineNext
  /\ UNCHANGED <<part, transcriptVars, segmentVars, modelVars>>

TranscriptionMoves ==
  /\ part = "transcription" /\ TranscriptNext
  /\ UNCHANGED <<part, pipelineVars, segmentVars, modelVars>>

SegmentationMoves ==
  /\ part = "segmentation" /\ SegmentNext
  /\ UNCHANGED <<part, pipelineVars, transcriptVars, modelVars>>

ManifestIsScreened ==
  /\ part = "manifest" /\ Validate
  /\ UNCHANGED <<part, jobVars, forgeVars, dataVars>>

GpuMoves ==
  /\ part = "gpu" /\ JobNext
  /\ UNCHANGED <<part, datasetVars, forgeVars, dataVars>>

ForgeMoves ==
  /\ part = "forge" /\ ForgeNext
  /\ UNCHANGED <<part, datasetVars, jobVars, dataVars>>

TrainingNext ==
  \/ PipelineMoves \/ TranscriptionMoves \/ SegmentationMoves \/ ManifestIsScreened
  \/ GpuMoves \/ ForgeMoves

TrainingSpec == TrainingInit /\ [][TrainingNext]_trainingVars

=============================================================================
