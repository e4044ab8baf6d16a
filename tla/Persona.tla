------------------------------ MODULE Persona ------------------------------
(***************************************************************************)
(* Persona grants and consent state: PersonaRegistry of persona.py with a  *)
(* state_path.  The gateway calls load and revalidate without suspending,  *)
(* so each is one step; the process can die inside it.                     *)
(*                                                                         *)
(* A manifest carries a valid signature, and its digest is itself.  Only   *)
(* consent and its revision decide; every other refusal (a hash, an asset, *)
(* a scope, an expiry) is Refused, which may happen to any manifest.       *)
(***************************************************************************)
EXTENDS Integers

CONSTANTS PersonaId, ConsentId,
          MaxRevision,
          Body,             \* what two manifests of one revision may differ in
          Session,
          Faults            \* how _persist_state may fail

\* mkdir or mkstemp raise OSError; the write does, before os.replace; the directory's
\* fsync does, after it.
FaultKinds == {"temp", "write", "sync"}

ASSUME PersonaAssumption ==
  /\ MaxRevision \in Nat \ {0}
  /\ Faults \subseteq FaultKinds

NoManifest == [none |-> "manifest"]
NoState == [none |-> "state"]
NothingYet == [none |-> "unused"]
Withdrew == [none |-> "withdrawn"]
Manifest == [persona : PersonaId, consent : ConsentId, revision : 1 .. MaxRevision,
             active : BOOLEAN, body : Body]

\* _ConsentState
State(revision, digest, persona, withdrawn) ==
  [revision |-> revision, digest |-> digest, persona |-> persona, withdrawn |-> withdrawn]

VARIABLES
  file,         \* <persona>/consent.json
  consents,     \* _consent_states
  saved,        \* the state file
  grants,       \* the PersonaGrant of a session
  latest        \* history: what each consent last did: the manifest granted, or Withdrew

personaVars == <<file, consents, saved, grants, latest>>

PersonaInit ==
  /\ file = [p \in PersonaId |-> NoManifest]
  /\ consents = [c \in ConsentId |-> NoState]
  /\ saved = consents
  /\ grants = [s \in Session |-> NoManifest]
  /\ latest = [c \in ConsentId |-> NothingYet]

\* The operator installs or removes a manifest, also an older one.
Install(p) ==
  /\ \E m \in {n \in Manifest : n.persona = p} \cup {NoManifest} :
       file' = [file EXCEPT ![p] = m]
  /\ UNCHANGED <<consents, saved, grants, latest>>

\* _check_active_state
Allowed(m) ==
  LET previous == consents[m.consent]
  IN previous # NoState =>
       /\ ~previous.withdrawn
       /\ previous.persona = m.persona
       /\ m.revision >= previous.revision
       /\ m.revision = previous.revision => m = previous.digest

Active(m) == State(m.revision, m, m.persona, FALSE)

\* _record_withdrawal
Withdrawn(m) ==
  LET previous == consents[m.consent]
  IN IF previous = NoState THEN State(m.revision, m, m.persona, TRUE)
     ELSE State(IF m.revision > previous.revision THEN m.revision ELSE previous.revision,
                m, previous.persona, TRUE)

\* Mutant: only a new revision is written.
KeepRevisions(c, entry, result) ==
  LET changed == [consents EXCEPT ![c] = entry]
      same == consents[c] # NoState /\ consents[c].revision = entry.revision
  IN \/ /\ result = "kept"
        /\ consents' = changed /\ saved' = IF same THEN saved ELSE changed
     \/ result \in Faults /\ UNCHANGED <<consents, saved>>

\* The new entry for a consent, and _persist_state: result is how it went.
Keep(c, entry, result) ==
  IF consents[c] = entry THEN result = "kept" /\ UNCHANGED <<consents, saved>>
  ELSE LET changed == [consents EXCEPT ![c] = entry]
       IN \/ /\ result = "kept"
             /\ consents' = changed /\ saved' = changed
          \/ /\ result \in Faults
             /\ consents' = IF result = "temp" THEN changed ELSE consents
             /\ saved' = IF result = "sync" THEN changed ELSE saved

\* _validate_manifest of an inactive manifest, in load (s has no grant) or revalidate
\* (s loses its own)
Withdraw(s, m) ==
  /\ m # NoManifest /\ ~m.active
  /\ \E result \in {"kept"} \cup Faults :
       /\ Keep(m.consent, Withdrawn(m), result)
       /\ latest' = IF result = "kept" THEN [latest EXCEPT ![m.consent] = Withdrew]
                    ELSE latest
  /\ grants' = [grants EXCEPT ![s] = NoManifest]
  /\ UNCHANGED file

\* load and revalidate of an active manifest, up to _commit_active_state
Grant(s, m) ==
  /\ m # NoManifest /\ m.active /\ Allowed(m)
  /\ \E result \in {"kept"} \cup Faults :
       /\ Keep(m.consent, Active(m), result)
       /\ grants' = [grants EXCEPT ![s] = IF result = "kept" THEN m ELSE NoManifest]
       /\ latest' = IF result = "kept" THEN [latest EXCEPT ![m.consent] = m] ELSE latest
  /\ UNCHANGED file

\* Every other end of load and revalidate
Refused(s) ==
  /\ grants' = [grants EXCEPT ![s] = NoManifest]
  /\ UNCHANGED <<file, consents, saved, latest>>

Load(s) ==
  /\ grants[s] = NoManifest
  /\ \/ \E p \in PersonaId : Withdraw(s, file[p]) \/ Grant(s, file[p])
     \/ Refused(s)

\* revalidate: the manifest must still be the one of the grant.
Revalidate(s) ==
  /\ grants[s] # NoManifest
  /\ LET m == file[grants[s].persona]
     IN \/ Withdraw(s, m)
        \/ m = grants[s] /\ Grant(s, m)
        \/ Refused(s)

EndSession(s) ==
  /\ grants[s] # NoManifest
  /\ grants' = [grants EXCEPT ![s] = NoManifest]
  /\ UNCHANGED <<file, consents, saved, latest>>

\* The process dies, between two calls or around the os.replace of a Keep, and starts
\* again (_load_persistent_state).
Restart ==
  /\ \/ saved' = saved
     \/ \E p \in PersonaId :
          LET m == file[p]
          IN /\ m # NoManifest
             /\ \/ m.active /\ Allowed(m) /\ saved' = [consents EXCEPT ![m.consent] = Active(m)]
                \/ ~m.active /\ saved' = [consents EXCEPT ![m.consent] = Withdrawn(m)]
  /\ consents' = saved'
  /\ grants' = [s \in Session |-> NoManifest]
  /\ UNCHANGED <<file, latest>>

PersonaNext ==
  \/ \E p \in PersonaId : Install(p)
  \/ \E s \in Session : Load(s) \/ Revalidate(s) \/ EndSession(s)
  \/ Restart

PersonaSpec == PersonaInit /\ [][PersonaNext]_personaVars

-----------------------------------------------------------------------------

\* entry covers what the consent last did: it is withdrawn if that was, and else its
\* revision is as high, with the same content if it is the same.
Covers(entry, did) ==
  \/ did = NothingYet
  \/ did = Withdrew /\ entry # NoState /\ entry.withdrawn
  \/ /\ did \in Manifest /\ entry # NoState
     /\ entry.persona = did.persona
     /\ \/ entry.withdrawn
        \/ entry.revision > did.revision
        \/ entry.revision = did.revision /\ entry.digest = did

\* What was granted and what was withdrawn is covered by the memory and by the file,
\* whatever fails and wherever the process dies: a rollback of the manifest alone can
\* undo neither, before or after a restart (_commit_active_state, _record_withdrawal).
ConsentIsDurable ==
  \A c \in ConsentId : Covers(consents[c], latest[c]) /\ Covers(saved[c], latest[c])

\* A consent only tightens: one persona for ever, higher revisions, and one content for
\* each revision (load, revalidate).
ConsentOnlyTightens ==
  [][\A c \in ConsentId :
       latest[c] \in Manifest /\ latest'[c] \notin {latest[c], Withdrew} =>
         /\ latest'[c].persona = latest[c].persona
         /\ latest'[c].revision > latest[c].revision]_personaVars

\* "A withdrawn consent_id is never reusable" (docs/SECURITY.md): what was answered as
\* withdrawn is not granted again.
WithdrawnIsNeverReusable ==
  [][\A c \in ConsentId : latest[c] = Withdrew => latest'[c] = Withdrew]_personaVars

=============================================================================
