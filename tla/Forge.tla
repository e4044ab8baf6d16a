------------------------------- MODULE Forge -------------------------------
(***************************************************************************)
(* The forge's supply chain: the commands package and publish of           *)
(* evoagent_forge/cli.py, and the registry they publish to (registry.py).  *)
(*                                                                         *)
(* An author works in a directory of his own: the skill and the artifact.  *)
(* All share one registry and one skill name.  Building is reproducible,   *)
(* so an artifact is what it was built from, and its digest is itself.  A  *)
(* command can be killed anywhere.  Signatures are not modelled: publish   *)
(* stores the signature file as it is and nothing else reads it.           *)
(***************************************************************************)
EXTENDS Integers, FiniteSets

CONSTANTS Author,
          SkillVersion,
          SkillBody,             \* what a skill directory can hold beside its version
          BlockedBody,      \* those on which scan has a high or critical finding
          MaxKills

ASSUME ForgeAssumption == BlockedBody \subseteq SkillBody /\ MaxKills \in Nat

\* A file of this system: missing, cut short by a killed writer, or an artifact
Missing == [is |-> "missing"]
Whole(v, b) == [is |-> "whole", version |-> v, body |-> b]
CutShort(file) == [file EXCEPT !.is = "cut"]
Artifact == {Whole(v, b) : v \in SkillVersion, b \in SkillBody}
File == Artifact \cup {CutShort(a) : a \in Artifact}

VARIABLES
  skill,        \* the skill directory: its version and body
  artifact,     \* the .evoskill file of an author
  publish,      \* a publish command: where it is, the digest and the version it took
  blobs,        \* blobs/sha256-<digest>.evoskill
  releases,     \* rows of releases
  cutBlobs,     \* history: the digests a killed publisher was copying, if not copied since
  kills

forgeVars == <<skill, artifact, publish, blobs, releases, cutBlobs, kills>>

NoPublish == [at |-> "none", digest |-> Missing, version |-> "none"]

ForgeInit ==
  /\ \E s \in [version : SkillVersion, body : SkillBody] : skill = [a \in Author |-> s]
  /\ artifact = [a \in Author |-> Missing]
  /\ publish = [a \in Author |-> NoPublish]
  /\ blobs = [d \in File |-> Missing]
  /\ releases = {} /\ cutBlobs = {}
  /\ kills = 0

NotPublishing(a) == publish[a].at = "none"

Kill == kills < MaxKills /\ kills' = kills + 1

EditSkill(a) ==
  /\ NotPublishing(a)
  /\ skill' \in {[skill EXCEPT ![a] = s] : s \in [version : SkillVersion, body : SkillBody]}
  /\ UNCHANGED <<artifact, publish, blobs, releases, cutBlobs, kills>>

\* package: load_skill, scan, blocking, build; a killed build leaves a cut zip file.
Package(a) ==
  /\ NotPublishing(a) /\ skill[a].body \notin BlockedBody
  /\ LET built == Whole(skill[a].version, skill[a].body)
     IN \/ artifact' = [artifact EXCEPT ![a] = built] /\ UNCHANGED kills
        \/ artifact' = [artifact EXCEPT ![a] = CutShort(built)] /\ Kill
  /\ UNCHANGED <<skill, publish, blobs, releases, cutBlobs>>

\* publish, up to the test whether the blob exists.  The version is that of the
\* directory, not of the artifact.
BeginPublish(a) ==
  /\ NotPublishing(a) /\ artifact[a] # Missing
  /\ publish' = [publish EXCEPT ![a] =
       [at |-> IF blobs[artifact[a]] = Missing THEN "copies" ELSE "inserts",
        digest |-> artifact[a], version |-> skill[a].version]]
  /\ UNCHANGED <<skill, artifact, blobs, releases, cutBlobs, kills>>

Fills(a, digest) == publish[a].at = "fills" /\ publish[a].digest = digest

\* shutil.copyfile opens the destination, which cuts it, and then fills it.
OpenBlob(a) ==
  /\ publish[a].at = "copies"
  /\ blobs' = [blobs EXCEPT ![publish[a].digest] = CutShort(artifact[a])]
  /\ publish' = [publish EXCEPT ![a].at = "fills"]
  /\ UNCHANGED <<skill, artifact, releases, cutBlobs, kills>>

\* Another copy of the same bytes may have cut what this one had written, if it is
\* still under way or was killed.
FillBlob(a) ==
  /\ publish[a].at = "fills"
  /\ LET digest == publish[a].digest
     IN \/ /\ blobs' = [blobs EXCEPT ![digest] = artifact[a]]
           /\ cutBlobs' = cutBlobs \ {digest}
        \/ /\ digest \in cutBlobs \/ \E b \in Author \ {a} : Fills(b, digest)
           /\ UNCHANGED <<blobs, cutBlobs>>
  /\ publish' = [publish EXCEPT ![a].at = "inserts"]
  /\ UNCHANGED <<skill, artifact, releases, kills>>

\* Mutant: PRIMARY KEY(name, version) is missing.
TakenDigest(version, digest) == \E r \in releases : r.digest = digest

\* PRIMARY KEY(name, version), UNIQUE(digest)
Taken(version, digest) ==
  \E r \in releases : r.version = version \/ r.digest = digest

\* INSERT and commit, or IntegrityError
InsertRelease(a) ==
  /\ publish[a].at = "inserts"
  /\ releases' =
       IF Taken(publish[a].version, publish[a].digest) THEN releases
       ELSE releases \cup {[version |-> publish[a].version, digest |-> publish[a].digest]}
  /\ publish' = [publish EXCEPT ![a] = NoPublish]
  /\ UNCHANGED <<skill, artifact, blobs, cutBlobs, kills>>

PublishKilled(a) ==
  /\ ~NotPublishing(a) /\ Kill
  /\ publish' = [publish EXCEPT ![a] = NoPublish]
  /\ cutBlobs' = IF publish[a].at = "fills" THEN cutBlobs \cup {publish[a].digest} ELSE cutBlobs
  /\ UNCHANGED <<skill, artifact, blobs, releases>>

ForgeNext ==
  \E a \in Author : \/ EditSkill(a) \/ Package(a) \/ BeginPublish(a)
                    \/ OpenBlob(a) \/ FillBlob(a) \/ InsertRelease(a) \/ PublishKilled(a)

ForgeSpec == ForgeInit /\ [][ForgeNext]_forgeVars

-----------------------------------------------------------------------------

\* A release has a blob, and the bytes of a blob are those of its digest, except where
\* the copy of these very bytes is under way or was killed (publish).
BlobsAreWhole ==
  /\ \A r \in releases : blobs[r.digest] # Missing
  /\ \A d \in File :
       blobs[d] \in {Missing, d} \/ d \in cutBlobs \/ \E a \in Author : Fills(a, d)

\* A release, once there, stays what it is: neither another release of its version nor
\* one of its digest replaces it, however two publishers interleave.  Its bytes are whole
\* unless a publisher of the same bytes, before it or beside it, was killed while it
\* copied them (publish).
ReleasesAreImmutable ==
  [][/\ releases \subseteq releases'
     /\ \A r, s \in releases' : r # s => r.version # s.version /\ r.digest # s.digest
     /\ BlobsAreWhole']_forgeVars

\* "Registry releases are immutable by (name, version) and stored under their content
\* digest" (docs/architecture.md): while nothing is being published, the blob of a
\* release has the digest of its name.
StoredUnderItsDigest ==
  (\A a \in Author : NotPublishing(a)) => \A r \in releases : blobs[r.digest] = r.digest

=============================================================================
