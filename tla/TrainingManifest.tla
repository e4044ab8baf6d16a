-------------------------- MODULE TrainingManifest --------------------------
(***************************************************************************)
(* The dataset of a LoRA job as echoweave/gpu_worker.py validates it.  A   *)
(* line of the training manifest names an audio file and maybe a           *)
(* reference; the inventory holds the files whose digests the job pins;    *)
(* the dataset manifest derives files from sources, for a split.           *)
(***************************************************************************)
EXTENDS Integers, FiniteSets

CONSTANTS TrainClip, NoRef, MinClips

ASSUME ManifestAssumption == NoRef \notin TrainClip /\ MinClips \in Nat

VARIABLES trainingSet, screening

datasetVars == <<trainingSet, screening>>

\* How the dataset manifest derives a file: for the train split with the digest and
\* the size of the inventory, for another split, with another digest, not at all.
Derivation == {"train", "eval", "differs", "none"}

Dataset == [lines : SUBSET (TrainClip \X (TrainClip \cup {NoRef})),
            inventory : SUBSET TrainClip,
            derivation : [TrainClip -> Derivation]]

\* Mutant: the inventory may hold files that no line names as its audio.
InventoryMayBeLarger(d) ==
  LET audio == {line[1] : line \in d.lines}
  IN /\ \A line \in d.lines :
          /\ line[1] \in d.inventory
          /\ d.derivation[line[1]] = "train"
          /\ line[2] \in d.inventory \cup {NoRef}
     /\ \A l1, l2 \in d.lines : l1[1] = l2[1] => l1 = l2
     /\ Cardinality(d.lines) >= MinClips

\* _validate_training_manifest
TrainingManifestOK(d) ==
  LET audio == {line[1] : line \in d.lines}
  IN /\ \A line \in d.lines :
          /\ line[1] \in d.inventory
          /\ d.derivation[line[1]] = "train"
          /\ line[2] \in d.inventory \cup {NoRef}
     /\ \A l1, l2 \in d.lines : l1[1] = l2[1] => l1 = l2
     /\ Cardinality(d.lines) >= MinClips
     /\ audio = d.inventory

DatasetInit == trainingSet \in Dataset /\ screening = "none"

Validate ==
  /\ screening = "none"
  /\ screening' = IF TrainingManifestOK(trainingSet) THEN "valid" ELSE "refused"
  /\ UNCHANGED trainingSet

DatasetSpec == DatasetInit /\ [][Validate]_datasetVars

-----------------------------------------------------------------------------

\* What the upstream training script opens for a line
ReadBy(line) == {line[1], line[2]} \ {NoRef}

\* Training reads only files with a pinned digest and a derivation in the train
\* split.  The latter is not asked of references, but as the inventory has no unused
\* file each of them is the audio of a line too (_validate_training_manifest).
TrainsOnTrainSplit ==
  screening = "valid" =>
    \A line \in trainingSet.lines : \A clip \in ReadBy(line) :
      clip \in trainingSet.inventory /\ trainingSet.derivation[clip] = "train"

=============================================================================
