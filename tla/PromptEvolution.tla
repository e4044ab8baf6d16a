--------------------------- MODULE PromptEvolution ---------------------------
(***************************************************************************)
(* Prompt versions, candidates and their gate (services/runtime,           *)
(* evolution.py over store.py).                                            *)
(*                                                                         *)
(* evaluate awaits the model between the row it reads and the row it       *)
(* writes; promote awaits nothing, but writes three commits, and a crash   *)
(* can come between them.  Texts and scores are abstracted to where they   *)
(* come from: a candidate, and the evaluation that reported them.  What a  *)
(* model answers in an evaluation, hence its verdict, is arbitrary.        *)
(***************************************************************************)
EXTENDS Integers

CONSTANTS
  Candidate,   (* candidate ids                                             *)
  Evaluation,  (* calls of evaluate                                         *)
  MaxVersion,  (* bound of the model: versions of the prompt                *)
  MaxCrashes,  (* bound of the model                                        *)
  None

ASSUME EvolutionAssumption ==
  /\ MaxVersion \in Nat \ {0}
  /\ MaxCrashes \in Nat
  /\ None \notin Candidate \cup Evaluation

Version == 1..MaxVersion

VARIABLES
  prompts,     (* the prompts table                                         *)
  candidates,  (* the evolution_candidates table                            *)
  evaluation,  (* what each call of evaluate is doing, or has reported      *)
  promotion,   (* the promote call that is between two commits, or None     *)
  loop,        (* who is between two commits, or None                       *)
  crashes      (* how often the process was killed                          *)

evolutionVars == <<prompts, candidates, evaluation, promotion>>
vars == <<evolutionVars, loop, crashes>>

Prompt ==
  [state : {"absent", "active", "retired"},
   of : Candidate \cup {None},        (* whose text it is                   *)
   parent : Version \cup {0},
   score : Evaluation \cup {None}]    (* which report it cites              *)

CandidateRow ==
  [status : {"absent", "proposed", "passed", "rejected", "promoted"},
   parent : Version \cup {0},
   report : Evaluation \cup {None}]   (* the evaluation that wrote the row  *)

EvaluationCall ==
  [at : {"off", "awaiting", "passed", "rejected", "lost"},
   of : Candidate \cup {None}]

PromotionCall ==
  [of : Candidate, version : Version, score : Evaluation \cup {None},
   at : {"retired", "inserted"}]

ASSUME NoneAssumption == None \notin PromotionCall

TypeOK ==
  /\ prompts \in [Version -> Prompt]
  /\ candidates \in [Candidate -> CandidateRow]
  /\ evaluation \in [Evaluation -> EvaluationCall]
  /\ promotion \in PromotionCall \cup {None}
  /\ loop \in {"free", "promote", "scheduler"}
  /\ crashes \in 0..MaxCrashes

NoPrompt == [state |-> "absent", of |-> None, parent |-> 0, score |-> None]

(* Store.__init__ on an empty database inserts version 1.                   *)
Init ==
  /\ prompts = [v \in Version |->
       IF v = 1 THEN [NoPrompt EXCEPT !.state = "active"] ELSE NoPrompt]
  /\ candidates =
       [c \in Candidate |-> [status |-> "absent", parent |-> 0, report |-> None]]
  /\ evaluation = [e \in Evaluation |-> [at |-> "off", of |-> None]]
  /\ promotion = None
  /\ loop = "free"
  /\ crashes = 0

Written == {v \in Version : prompts[v].state # "absent"}

Active == {v \in Version : prompts[v].state = "active"}

Passed(e, c) == evaluation[e].at = "passed" /\ evaluation[e].of = c

IsLatest(v, versions) == v \in versions /\ \A w \in versions : w <= v
-----------------------------------------------------------------------------
(* propose: without an active prompt, active_prompt raises.                 *)
Propose(c) ==
  /\ loop = "free"
  /\ candidates[c].status = "absent"
  /\ \E v \in Active :
       /\ IsLatest(v, Active)
       /\ candidates' = [candidates EXCEPT ![c] =
            [status |-> "proposed", parent |-> v, report |-> None]]
  /\ UNCHANGED <<prompts, evaluation, promotion, loop, crashes>>

(* evaluate up to its first await: the row and the parent's text are read.  *)
BeginEvaluate(e, c) ==
  /\ loop = "free"
  /\ evaluation[e].at = "off"
  /\ candidates[c].status # "absent"
  /\ evaluation' = [evaluation EXCEPT ![e] = [at |-> "awaiting", of |-> c]]
  /\ UNCHANGED <<prompts, candidates, promotion, loop, crashes>>

(* evaluate after its awaits: the UPDATE names the candidate only.          *)
EndEvaluate(e, verdict) ==
  /\ loop = "free"
  /\ evaluation[e].at = "awaiting"
  /\ evaluation' = [evaluation EXCEPT ![e].at = verdict]
  /\ candidates' = [candidates EXCEPT ![evaluation[e].of] =
       [@ EXCEPT !.status = verdict, !.report = e]]
  /\ UNCHANGED <<prompts, promotion, loop, crashes>>

(* The provider raises.                                                     *)
EvaluateRaises(e) ==
  /\ loop = "free"
  /\ evaluation[e].at = "awaiting"
  /\ evaluation' = [evaluation EXCEPT ![e].at = "lost"]
  /\ UNCHANGED <<prompts, candidates, promotion, loop, crashes>>

(* The row read by promote, and the version after the greatest one.         *)
Promotes(c, version) ==
  /\ version \in Version
  /\ IsLatest(version - 1, Written)
  /\ promotion' = [of |-> c, version |-> version,
                   score |-> candidates[c].report, at |-> "retired"]

Retired(versions) ==
  [v \in Version |-> IF v \in versions THEN [prompts[v] EXCEPT !.state = "retired"]
                     ELSE prompts[v]]

(* Mutant: a candidate may be promoted whatever its verdict is.             *)
RetireUngated(c, version) ==
  /\ loop = "free"
  /\ candidates[c].status # "absent"
  /\ Promotes(c, version)
  /\ prompts' = Retired(Active)
  /\ loop' = "promote"
  /\ UNCHANGED <<candidates, evaluation, crashes>>

(* promote up to its first commit, which retires the active version.        *)
Retire(c, version) ==
  /\ loop = "free"
  /\ candidates[c].status = "passed"
  /\ Promotes(c, version)
  /\ prompts' = Retired(Active)
  /\ loop' = "promote"
  /\ UNCHANGED <<candidates, evaluation, crashes>>

(* The second commit of promote.                                            *)
Insert ==
  /\ loop = "promote"
  /\ promotion.at = "retired"
  /\ prompts' = [prompts EXCEPT ![promotion.version] =
       [state |-> "active", of |-> promotion.of,
        parent |-> candidates[promotion.of].parent, score |-> promotion.score]]
  /\ promotion' = [promotion EXCEPT !.at = "inserted"]
  /\ UNCHANGED <<candidates, evaluation, loop, crashes>>

(* The third commit of promote.                                             *)
MarkPromoted ==
  /\ loop = "promote"
  /\ promotion.at = "inserted"
  /\ candidates' = [candidates EXCEPT ![promotion.of].status = "promoted"]
  /\ promotion' = None
  /\ loop' = "free"
  /\ UNCHANGED <<prompts, evaluation, crashes>>

(* The process is killed and started again: the tables are what is left.    *)
Crash ==
  /\ crashes < MaxCrashes
  /\ crashes' = crashes + 1
  /\ evaluation' = [e \in Evaluation |->
       IF evaluation[e].at = "awaiting"
       THEN [evaluation[e] EXCEPT !.at = "lost"] ELSE evaluation[e]]
  /\ promotion' = None
  /\ loop' = "free"
  /\ UNCHANGED <<prompts, candidates>>

(* Others take the event loop, and give it back, without touching prompts.  *)
TakeLoop ==
  /\ loop = "free"
  /\ loop' = "scheduler"
  /\ UNCHANGED <<evolutionVars, crashes>>

LeaveLoop ==
  /\ loop = "scheduler"
  /\ loop' = "free"
  /\ UNCHANGED <<evolutionVars, crashes>>

EvolutionStep ==
  \/ \E c \in Candidate : Propose(c)
  \/ \E e \in Evaluation, c \in Candidate : BeginEvaluate(e, c)
  \/ \E e \in Evaluation, verdict \in {"passed", "rejected"} :
       EndEvaluate(e, verdict)
  \/ \E e \in Evaluation : EvaluateRaises(e)
  \/ \E c \in Candidate, version \in Version : Retire(c, version)
  \/ Insert
  \/ MarkPromoted

Next == EvolutionStep \/ TakeLoop \/ LeaveLoop \/ Crash

Spec == Init /\ [][Next]_vars
-----------------------------------------------------------------------------
(* What is live (evolution.py, promote; store.py, active_prompt): only the  *)
(* latest version is ever active, and unless a crash hit a promotion, there *)
(* is one whenever anybody but the promotion itself can ask for it.         *)
LivePrompt ==
  /\ \A v \in Active : IsLatest(v, Written)
  /\ crashes = 0 /\ loop # "promote" => Active # {}

(* "Only a passed candidate can be promoted" (promote): every version after *)
(* the first cites an evaluation of its own candidate that passed, against  *)
(* an older version that exists, whatever was evaluated since.              *)
PromotionHasEvidence ==
  \A v \in Written \ {1} :
    /\ prompts[v].score # None
    /\ Passed(prompts[v].score, prompts[v].of)
    /\ prompts[v].parent \in Written
    /\ prompts[v].parent < v

(***************************************************************************)
(* The inductive invariant.                                                *)
(***************************************************************************)

(* A candidate is a child of a written version, and a verdict is the one of *)
(* the report it names.                                                     *)
VerdictHasReport ==
  \A c \in Candidate :
    /\ candidates[c].status # "absent" => candidates[c].parent \in Written
    /\ candidates[c].status = "passed" =>
         /\ candidates[c].report # None
         /\ Passed(candidates[c].report, c)

(* An awaiting evaluation has a candidate.                                  *)
EvaluationHasCandidate ==
  \A e \in Evaluation :
    evaluation[e].at = "awaiting" =>
      evaluation[e].of # None /\ candidates[evaluation[e].of].status # "absent"

(* What promote holds between its commits is still what the tables say.     *)
PromotionIsCurrent ==
  /\ loop = "promote" <=> promotion # None
  /\ promotion # None =>
       /\ candidates[promotion.of].status = "passed"
       /\ candidates[promotion.of].report = promotion.score
       /\ promotion.at = "retired" =>
            Active = {} /\ IsLatest(promotion.version - 1, Written)
       /\ promotion.at = "inserted" => promotion.version \in Active

(* The versions are numbered without gaps from 1.                           *)
NoGaps == 1 \in Written /\ \A v \in Written : 1..v \subseteq Written

EvolutionInv ==
  /\ TypeOK
  /\ LivePrompt
  /\ PromotionHasEvidence
  /\ VerdictHasReport
  /\ EvaluationHasCandidate
  /\ PromotionIsCurrent
  /\ NoGaps
=============================================================================
