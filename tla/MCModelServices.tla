-------------------------- MODULE MCModelServices --------------------------
(***************************************************************************)
(* The two model workers in one run: `part` says which of them moves.      *)
(***************************************************************************)
EXTENDS VoxWorker, SoulxWorker

VARIABLE part

Parts == {"voice", "avatar"}

WorkersInit == part \in Parts /\ VoxInit /\ SoulxInit

VoiceMoves == part = "voice" /\ VoxNext /\ UNCHANGED <<part, soulxVars>>
AvatarMoves == part = "avatar" /\ SoulxNext /\ UNCHANGED <<part, voxVars>>

\* The fairness of each part is that of its module.
WorkersSpec ==
  /\ WorkersInit /\ [][VoiceMoves \/ AvatarMoves]_<<part, voxVars, soulxVars>>
  /\ part = "voice" => VoxFairness
  /\ part = "avatar" => SoulxFairness

-----------------------------------------------------------------------------

\* What both workers promise while they serve (services/voxcpm_api.py and
\* services/soulx_api.py): WorkerIsSafe of the one and CleanupIsSafe of the other.
ModelServicesAreSafe == WorkerIsSafe /\ CleanupIsSafe

\* Private recordings and biometric uploads are deleted in the end
\* (RecordingsAreDeleted, UploadsAreDeleted).
PrivateFilesAreDeleted == RecordingsAreDeleted /\ UploadsAreDeleted

=============================================================================
