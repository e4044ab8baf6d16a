---------------------------- MODULE ControlPlane ----------------------------
(***************************************************************************)
(* Idempotency keys of the control plane: create_run, create_workflow and  *)
(* launch_demo of evoagent_os/api.py over evoagent_os/store.py.            *)
(*                                                                         *)
(* The handlers run on one event loop and interleave at an await.  What    *)
(* they create lives in databases of their own (runs, workflows) and so    *)
(* does the record of a key, so that a crash keeps a prefix of the writes. *)
(***************************************************************************)
EXTENDS Integers

CONSTANTS Post,             \* requests
          Key,              \* values of the Idempotency-Key header
          MaxDeaths

Kinds == {"runs", "workflows", "demo"}
NoKey == "no_key"
NoResponse == [none |-> TRUE]

ASSUME ControlAssumption == NoKey \notin Key /\ MaxDeaths \in Nat

VARIABLES
  post,         \* a request: its kind and key, where it is, the run it awaits, its answer
  runs,         \* rows of runs, by who created them
  links,        \* rows of run_links
  workflows,    \* rows of workflows, by who created them
  idempotency,  \* idempotency_keys: a response, or NoResponse, for each kind and key
  overlapped,   \* history: requests that awaited their run beside another with their key
  deaths

controlVars == <<post, runs, links, workflows, idempotency, overlapped, deaths>>

ControlInit ==
  /\ post \in [Post -> [kind : Kinds, key : Key \cup {NoKey}, at : {"new"}, answer : {NoResponse}]]
  /\ runs = {} /\ links = {} /\ workflows = {}
  /\ idempotency = [k \in Kinds \X Key |-> NoResponse]
  /\ overlapped = {} /\ deaths = 0

Slot(q) == <<post[q].kind, post[q].key>>

\* idempotent_get
Cached(q) == IF post[q].key = NoKey THEN NoResponse ELSE idempotency[Slot(q)]

\* idempotent_put: INSERT OR IGNORE
Remember(q, response) ==
  idempotency' = IF post[q].key = NoKey \/ idempotency[Slot(q)] # NoResponse THEN idempotency
                 ELSE [idempotency EXCEPT ![Slot(q)] = response]

Answers(q, response) ==
  post' = [post EXCEPT ![q].at = "answered", ![q].answer = response]

Repeat(q) ==
  /\ post[q].at = "new" /\ Cached(q) # NoResponse
  /\ Answers(q, Cached(q))
  /\ UNCHANGED <<runs, links, workflows, idempotency, overlapped, deaths>>

\* A request is not valid, or its agent is unknown.
Reject(q) ==
  /\ post[q].at = "new" /\ Cached(q) = NoResponse
  /\ Answers(q, [status |-> "rejected"])
  /\ UNCHANGED <<runs, links, workflows, idempotency, overlapped, deaths>>

\* create_workflow has no await.
CreateWorkflow(q) ==
  /\ post[q].at = "new" /\ post[q].kind = "workflows" /\ Cached(q) = NoResponse
  /\ workflows' = workflows \cup {q}
  /\ LET response == [status |-> "created", run |-> {}, workflow |-> {q}]
     IN Remember(q, response) /\ Answers(q, response)
  /\ UNCHANGED <<runs, links, overlapped, deaths>>

\* Those of the same key that have looked it up and not yet stored it
Beside(q) == {r \in Post : post[r].at = "awaits" /\ Slot(r) = Slot(q) /\ post[q].key # NoKey}

Awaits(q) ==
  /\ runs' = runs \cup {q}
  /\ post' = [post EXCEPT ![q].at = "awaits"]
  /\ overlapped' = IF Beside(q) = {} THEN overlapped ELSE overlapped \cup Beside(q) \cup {q}
  /\ UNCHANGED <<links, workflows, idempotency, deaths>>

\* Mutant: the key is not looked up.
BeginRunAnew(q) == post[q].at = "new" /\ post[q].kind # "workflows" /\ Awaits(q)

\* create_run and launch_demo create a run and await it.
BeginRun(q) ==
  post[q].at = "new" /\ post[q].kind # "workflows" /\ Cached(q) = NoResponse /\ Awaits(q)

CreatedBy(q) ==
  [status |-> "created", run |-> {q}, workflow |-> IF post[q].kind = "demo" THEN {q} ELSE {}]

\* The rest of either: link_run, the demo's workflow, the key, the response
FinishRun(q) ==
  /\ post[q].at = "awaits"
  /\ links' = links \cup {q} /\ workflows' = workflows \cup CreatedBy(q).workflow
  /\ Remember(q, CreatedBy(q)) /\ Answers(q, CreatedBy(q))
  /\ UNCHANGED <<runs, overlapped, deaths>>

\* A handler writes in the order link, workflow, key; the process dies after any of them.
WritesPart(q) ==
  \/ /\ post[q].at = "awaits" /\ links' = links \cup {q}
     /\ \/ UNCHANGED <<workflows, idempotency>>
        \/ workflows' = workflows \cup CreatedBy(q).workflow /\ UNCHANGED idempotency
        \/ workflows' = workflows \cup CreatedBy(q).workflow /\ Remember(q, CreatedBy(q))
  \/ /\ post[q].at = "new" /\ post[q].kind = "workflows" /\ Cached(q) = NoResponse
     /\ workflows' = workflows \cup {q} /\ UNCHANGED links
     /\ UNCHANGED idempotency
        \/ Remember(q, [status |-> "created", run |-> {}, workflow |-> {q}])

Loses(lost) ==
  /\ deaths < MaxDeaths /\ deaths' = deaths + 1
  /\ post' = [r \in Post |-> IF r \in lost \/ post[r].at = "awaits"
                             THEN [post[r] EXCEPT !.at = "lost"] ELSE post[r]]
  /\ UNCHANGED <<runs, overlapped>>

\* The process dies while its handlers await ...
ServerDies == Loses({}) /\ UNCHANGED <<links, workflows, idempotency>>

\* ... or in the middle of one.
CrashInHandler(q) == WritesPart(q) /\ Loses({q})

ControlNext ==
  \/ \E q \in Post : Repeat(q) \/ Reject(q) \/ CreateWorkflow(q) \/ BeginRun(q)
                     \/ FinishRun(q) \/ CrashInHandler(q)
  \/ ServerDies

ControlSpec == ControlInit /\ [][ControlNext]_controlVars

-----------------------------------------------------------------------------

\* What a key answers with was created, linked and is still there, whichever write a
\* crash came after: the key is stored last (create_run, launch_demo, create_workflow).
KeysAnswerWithWhatExists ==
  \A k \in Kinds \X Key : idempotency[k] # NoResponse =>
    /\ idempotency[k].run \subseteq runs \cap links
    /\ idempotency[k].workflow \subseteq workflows

\* Requests with one key agree unless they overlapped: what one was answered every
\* other one is answered, whenever it comes, whatever a crash came after, and whatever
\* requests that did overlap have stored meanwhile.  And no key answers with a promise
\* (create_run, launch_demo, create_workflow, idempotent_get, idempotent_put).
RetriesAgree ==
  /\ \A p, q \in Post \ overlapped :
       /\ Slot(p) = Slot(q) /\ post[p].key # NoKey
       /\ post[p].at = "answered" /\ post[q].at = "answered"
       /\ post[p].answer.status = "created" /\ post[q].answer.status = "created"
       => post[p].answer = post[q].answer
  /\ KeysAnswerWithWhatExists

\* "The Idempotency-Key intentionally returns the same launch response on repeated
\* requests against the same state" (examples/market-research/README.md).
SameKeySameResponse ==
  \A p, q \in Post :
    /\ post[p].key = post[q].key /\ post[p].key # NoKey
    /\ post[p].kind = "demo" /\ post[q].kind = "demo"
    /\ post[p].at = "answered" /\ post[q].at = "answered"
    /\ post[p].answer.status = "created" /\ post[q].answer.status = "created"
    => post[p].answer = post[q].answer

=============================================================================
