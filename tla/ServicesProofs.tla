--------------------------- MODULE ServicesProofs ---------------------------
(***************************************************************************)
(* Proofs about the services of the platform: the validation of workflow   *)
(* graphs, the idempotency keys of the control plane, its event feed, the  *)
(* two model workers, and prompt evolution with its scheduler.             *)
(***************************************************************************)
EXTENDS WorkflowDag, ControlPlane, EventFeed, MCModelServices, Scheduler, FiniteSetTheorems,
        TLAPS

(* validate_dag gives the right verdict on every graph: WalkInv is inductive *)

(* Pushing a node on the stack.                                             *)
LEMMA Pushed ==
  ASSUME NEW s \in Seq(Node), NEW n \in Node
  PROVE  /\ Append(s, n) \in Seq(Node)
         /\ Len(Append(s, n)) = Len(s) + 1
         /\ \A i \in 1..Len(s) : Append(s, n)[i] = s[i]
         /\ Append(s, n)[Len(s) + 1] = n
OBVIOUS

(* Popping a node off the stack.                                            *)
LEMMA Popped ==
  ASSUME NEW s \in Seq(Node), s # <<>>
  PROVE  /\ Len(s) \in Nat \ {0}
         /\ SubSeq(s, 1, Len(s) - 1) \in Seq(Node)
         /\ Len(SubSeq(s, 1, Len(s) - 1)) = Len(s) - 1
         /\ \A i \in 1..(Len(s) - 1) : SubSeq(s, 1, Len(s) - 1)[i] = s[i]
<1>1. \A n \in 0..Len(s) : /\ SubSeq(s, 1, n) \in Seq(Node)
                          /\ Len(SubSeq(s, 1, n)) = n
                          /\ \A i \in 1..n : SubSeq(s, 1, n)[i] = s[i]
  OBVIOUS
<1>2. Len(s) \in Nat \ {0} /\ Len(s) - 1 \in 0..Len(s)
  OBVIOUS
<1> QED
  BY <1>1, <1>2

(* What a visit does to the stack, with the pending set of its caller       *)
(* already reduced to less.                                                 *)
LEMMA VisitKeeps ==
  ASSUME WalkInv, verdict = "walk", NEW n \in Node, NEW less \in [Node -> SUBSET Id],
         Visit(n, less), UNCHANGED <<edges, visited>>,
         roots' \subseteq Node, Node \ roots' \subseteq (Node \ roots) \cup {n},
         \A m \in Node : less[m] \subseteq pending[m],
         \A i \in 1..Len(stack) : i < Len(stack) => less[stack[i]] = pending[stack[i]],
         stack # <<>> => n \in edges[Top] /\ less[Top] = pending[Top] \ {n}
  PROVE  WalkInv'
<1> USE DEF WalkInv, DagTypeOK, visiting, Top
<1>1. CASE n \in visiting
  <2>1. stack' = stack /\ verdict' = "rejected" /\ pending' = less
    BY <1>1 DEF Visit
  <2>2. ~Acyclic
    <3>1. PICK i \in 1..Len(stack) : stack[i] = n
      BY <1>1
    <3> DEFINE S == {stack[j] : j \in i..Len(stack)}
    <3>2. Len(stack) \in Nat /\ stack # <<>>
      BY <3>1
    <3>3. S \in SUBSET Node /\ n \in S
      BY <3>1
    <3>4. ASSUME NEW m \in S
          PROVE  edges[m] \cap S # {}
      <4>1. PICK j \in i..Len(stack) : m = stack[j]
        OBVIOUS
      <4>2. CASE j = Len(stack)
        BY <3>2, <3>3, <4>1, <4>2
      <4>3. CASE j < Len(stack)
        <5>1. stack[j + 1] \in edges[stack[j]]
          BY <3>1, <4>1, <4>3 DEF StackIsPath
        <5>2. stack[j + 1] \in S
          BY <3>1, <4>1, <4>3
        <5> QED
          BY <4>1, <5>1, <5>2
      <4> QED
        BY <3>1, <4>1, <4>2, <4>3
    <3> QED
      BY <3>3, <3>4 DEF Acyclic
  <2>3. StackIsPath' /\ VisitedIsSettled' /\ WorkIsAccounted' /\ NothingStarted'
    BY <2>1 DEF StackIsPath, VisitedIsSettled, WorkIsAccounted, NothingStarted
  <2>4. VerdictIsRight'
    BY <2>1, <2>2 DEF VerdictIsRight, Acyclic, Screened
  <2> QED
    BY <2>1, <2>3, <2>4
<1>2. CASE n \in visited \ visiting
  <2>1. stack' = stack /\ verdict' = verdict /\ pending' = less
    BY <1>2 DEF Visit
  <2>2. WorkIsAccounted'
    <3>1. ASSUME NEW i \in 1..Len(stack)
          PROVE  edges[stack[i]] \ less[stack[i]] \subseteq
                   IF i < Len(stack) THEN visited \cup {stack[i + 1]} ELSE visited
      <4>1. CASE i < Len(stack)
        BY <4>1 DEF WorkIsAccounted
      <4>2. CASE i = Len(stack)
        BY <1>2, <4>2 DEF WorkIsAccounted
      <4> QED
        BY <4>1, <4>2
    <3> QED
      BY <1>2, <2>1, <3>1 DEF WorkIsAccounted, Screened
  <2> QED
    BY <2>1, <2>2 DEF NothingStarted, StackIsPath, VisitedIsSettled, VerdictIsRight, Acyclic, Screened
<1>3. CASE n \notin visited \cup visiting
  <2>1. stack' = Append(stack, n) /\ verdict' = verdict /\ pending' = [less EXCEPT ![n] = edges[n]]
    BY <1>3 DEF Visit
  <2>2. /\ stack' \in Seq(Node) /\ Len(stack) \in Nat /\ Len(stack') = Len(stack) + 1
        /\ \A i \in 1..Len(stack) : stack'[i] = stack[i]
        /\ stack'[Len(stack) + 1] = n
    BY <2>1, Pushed
  <2>3. StackIsPath'
    <3>1. \A i \in 1..(Len(stack') - 1) : stack'[i + 1] \in edges'[stack'[i]]
      <4>1. ASSUME NEW i \in 1..(Len(stack') - 1)
            PROVE  stack'[i + 1] \in edges[stack'[i]]
        <5>1. CASE i < Len(stack)
          BY <2>2, <5>1 DEF StackIsPath
        <5>2. CASE i = Len(stack)
          BY <2>2, <5>2
        <5> QED
          BY <2>2, <5>1, <5>2
      <4> QED
        BY <4>1
    <3>2. \A i, j \in 1..Len(stack') : stack'[i] = stack'[j] => i = j
      BY <1>3, <2>2 DEF StackIsPath
    <3>3. \A i \in 1..Len(stack') : stack'[i] \notin visited'
      BY <1>3, <2>2 DEF StackIsPath
    <3> QED
      BY <3>1, <3>2, <3>3 DEF StackIsPath
  <2>4. WorkIsAccounted'
    <3>1. \A m \in visiting \cup {n} : \E j \in 1..Len(stack') : stack'[j] = m
      <4>1. \A j \in 1..Len(stack) : j \in 1..Len(stack') /\ stack'[j] = stack[j]
        BY <2>2
      <4>2. Len(stack) + 1 \in 1..Len(stack') /\ stack'[Len(stack) + 1] = n
        BY <2>2
      <4> QED
        BY <4>1, <4>2
    <3>2. ASSUME NEW i \in 1..Len(stack')
          PROVE  edges[stack'[i]] \ pending'[stack'[i]] \subseteq
                   IF i < Len(stack') THEN visited \cup {stack'[i + 1]} ELSE visited
      <4>1. CASE i < Len(stack)
        <5>1. stack'[i] = stack[i] /\ stack'[i + 1] = stack[i + 1] /\ stack[i] # n
          BY <1>3, <2>2, <4>1
        <5>2. pending'[stack'[i]] = pending[stack[i]]
          BY <2>1, <2>2, <4>1, <5>1
        <5> QED
          BY <2>2, <4>1, <5>1, <5>2 DEF WorkIsAccounted
      <4>2. CASE i = Len(stack)
        <5>1. stack'[i] = Top /\ stack'[i + 1] = n /\ Top # n /\ stack # <<>>
          BY <1>3, <2>2, <4>2
        <5>2. pending'[Top] = pending[Top] \ {n}
          BY <2>1, <2>2, <4>2, <5>1
        <5>3. edges[Top] \ pending[Top] \subseteq visited
          BY <4>2 DEF WorkIsAccounted
        <5> QED
          BY <2>2, <4>2, <5>1, <5>2, <5>3
      <4>3. CASE i = Len(stack) + 1
        <5>1. pending'[n] = edges[n]
          BY <2>1
        <5> QED
          BY <2>2, <4>3, <5>1
      <4> QED
        BY <2>2, <4>1, <4>2, <4>3
    <3>3. \A i \in 1..Len(stack') : pending'[stack'[i]] \subseteq edges[stack'[i]]
      <4>1. \A i \in 1..Len(stack) : stack[i] # n /\ pending'[stack[i]] \subseteq edges[stack[i]]
        BY <1>3, <2>1, <2>2 DEF WorkIsAccounted
      <4>2. pending'[n] = edges[n]
        BY <2>1
      <4> QED
        BY <2>2, <4>1, <4>2
    <3>4. Node \ roots' \subseteq visited' \cup visiting'
      <4>1. Node \ roots' \subseteq visited \cup (visiting \cup {n})
        BY DEF WorkIsAccounted
      <4>2. visiting \cup {n} \subseteq visiting'
        BY <3>1
      <4> QED
        BY <4>1, <4>2
    <3> QED
      BY <2>1, <3>2, <3>3, <3>4 DEF WorkIsAccounted, Screened
  <2> QED
    BY <2>1, <2>2, <2>3, <2>4 DEF NothingStarted, VisitedIsSettled, VerdictIsRight, Acyclic, Screened
<1> QED
  BY <1>1, <1>2, <1>3

(* Screening rejects only what is not screened.                             *)
LEMMA ScreenKeeps == WalkInv /\ Screen => WalkInv'
<1> SUFFICES ASSUME WalkInv, Screen
             PROVE  WalkInv'
  OBVIOUS
<1>1. /\ verdict = "screen" /\ verdict' = IF Screened THEN "walk" ELSE "rejected"
      /\ UNCHANGED <<edges, roots, stack, pending, visited>>
  BY DEF Screen
<1>2. Node \ roots = {} /\ stack = <<>>
  BY <1>1 DEF WalkInv, NothingStarted
<1>3. WorkIsAccounted'
  BY <1>1, <1>2 DEF WorkIsAccounted, Screened
<1>4. VerdictIsRight'
  BY <1>1 DEF VerdictIsRight, Screened
<1> QED
  BY <1>1, <1>3, <1>4 DEF WalkInv, DagTypeOK, NothingStarted, StackIsPath, VisitedIsSettled, visiting

(* A node whose parents are all visited joins them; it closes no cycle.     *)
LEMMA LeaveKeeps == WalkInv /\ Leave => WalkInv'
<1> SUFFICES ASSUME WalkInv, Leave
             PROVE  WalkInv'
  OBVIOUS
<1> USE DEF WalkInv, DagTypeOK, visiting, Top
<1>1. /\ verdict = "walk" /\ stack \in Seq(Node) /\ stack # <<>> /\ pending[Top] = {}
      /\ visited' = visited \cup {Top}
      /\ stack' = SubSeq(stack, 1, Len(stack) - 1)
      /\ UNCHANGED <<edges, roots, pending, verdict>>
  BY DEF Leave
<1>2. /\ Len(stack) \in Nat \ {0} /\ stack' \in Seq(Node) /\ Len(stack') = Len(stack) - 1
      /\ \A i \in 1..(Len(stack) - 1) : stack'[i] = stack[i]
  BY <1>1, Popped
<1>3. Top \in Node /\ Top \notin visited /\ edges[Top] \subseteq visited
  BY <1>1, <1>2 DEF StackIsPath, WorkIsAccounted
<1>4. StackIsPath'
  <2>1. \A i, j \in 1..Len(stack') : stack'[i] = stack'[j] => i = j
    BY <1>2 DEF StackIsPath
  <2>2. \A i \in 1..(Len(stack') - 1) : stack'[i + 1] \in edges'[stack'[i]]
    BY <1>1, <1>2 DEF StackIsPath
  <2>3. ASSUME NEW i \in 1..Len(stack')
        PROVE  stack'[i] \notin visited'
    <3>1. i \in 1..Len(stack) /\ i # Len(stack) /\ Len(stack) \in 1..Len(stack)
      BY <1>2
    <3>2. stack[i] # Top /\ stack[i] \notin visited
      BY <3>1, Zenon DEF StackIsPath
    <3>3. stack'[i] = stack[i]
      BY <1>2
    <3> QED
      BY <1>1, <3>2, <3>3, Zenon
  <2>4. (visiting \cap visited)' = {}
    BY <2>3
  <2> QED
    BY <2>1, <2>2, <2>4, Zenon DEF StackIsPath
<1>5. VisitedIsSettled'
  <2>1. \A n \in visited' : edges'[n] \subseteq visited'
    BY <1>1, <1>3 DEF VisitedIsSettled
  <2>2. ASSUME NEW S \in SUBSET visited', S # {}
        PROVE  \E n \in S : edges[n] \cap S = {}
    <3>1. CASE S \ {Top} = {}
      <4>1. S = {Top}
        BY <2>2, <3>1
      <4> QED
        BY <1>3, <4>1
    <3>2. CASE S \ {Top} # {}
      <4>1. S \ {Top} \in SUBSET visited
        BY <1>1
      <4>2. PICK n \in S \ {Top} : edges[n] \cap (S \ {Top}) = {}
        BY <3>2, <4>1 DEF VisitedIsSettled
      <4>3. edges[n] \subseteq visited
        BY <4>1, <4>2 DEF VisitedIsSettled
      <4> QED
        BY <1>3, <4>2, <4>3
    <3> QED
      BY <3>1, <3>2
  <2> QED
    BY <1>1, <2>1, <2>2 DEF VisitedIsSettled
<1>6. WorkIsAccounted'
  <2>1. Node \ roots' \subseteq visited' \cup visiting'
    <3>1. ASSUME NEW n \in Node \ roots, n \notin visited'
          PROVE  n \in visiting'
      <4>1. PICK i \in 1..Len(stack) : stack[i] = n
        BY <1>1, <3>1 DEF WorkIsAccounted
      <4>2. i # Len(stack)
        BY <1>1, <3>1, <4>1
      <4> QED
        BY <1>2, <4>1, <4>2
    <3> QED
      BY <1>1, <3>1
  <2>2. ASSUME NEW i \in 1..Len(stack')
        PROVE  edges[stack'[i]] \ pending[stack'[i]] \subseteq
                 IF i < Len(stack') THEN visited' \cup {stack'[i + 1]} ELSE visited'
    <3>1. edges[stack[i]] \ pending[stack[i]] \subseteq visited \cup {stack[i + 1]}
      BY <1>1, <1>2 DEF WorkIsAccounted
    <3>2. CASE i < Len(stack')
      BY <1>1, <1>2, <3>1, <3>2
    <3>3. CASE i = Len(stack')
      BY <1>1, <1>2, <3>1, <3>3
    <3> QED
      BY <1>2, <3>2, <3>3
  <2> QED
    BY <1>1, <2>1, <2>2 DEF WorkIsAccounted, Screened
<1> QED
  BY <1>1, <1>2, <1>3, <1>4, <1>5, <1>6 DEF VerdictIsRight, NothingStarted

(* When every root is visited and nothing is in progress, the whole graph   *)
(* is visited, hence acyclic.                                               *)
LEMMA AcceptKeeps == WalkInv /\ Accept => WalkInv'
<1> SUFFICES ASSUME WalkInv, Accept
             PROVE  WalkInv'
  OBVIOUS
<1> USE DEF WalkInv, DagTypeOK
<1>1. visiting = {}
  BY DEF Accept, visiting
<1>2. Screened /\ visited = Node
  BY <1>1 DEF Accept, WorkIsAccounted
<1>3. Acyclic
  BY <1>2 DEF Acyclic, VisitedIsSettled
<1> QED
  BY <1>2, <1>3 DEF Accept, NothingStarted, StackIsPath, VisitedIsSettled, WorkIsAccounted, VerdictIsRight,
                    visiting, Screened, Acyclic

(* validate_dag accepts exactly the acyclic graphs over known nodes.        *)
THEOREM DagVerdictIsRight == DagSpec => []VerdictIsRight
<1>1. DagInit => WalkInv
  BY DEF DagInit, WalkInv, DagTypeOK, NothingStarted, StackIsPath, VisitedIsSettled, WorkIsAccounted, VerdictIsRight, visiting
<1>2. WalkInv /\ [DagNext]_dagVars => WalkInv'
  <2> SUFFICES ASSUME WalkInv, [DagNext]_dagVars
               PROVE  WalkInv'
    OBVIOUS
  <2>1. ASSUME NEW n \in Node, VisitRoot(n)
        PROVE  WalkInv'
    <3>1. Len(stack) = 0
      BY <2>1 DEF VisitRoot
    <3> QED
      BY <2>1, <3>1, VisitKeeps DEF VisitRoot, WalkInv, DagTypeOK
  <2>2. ASSUME NEW p \in Id, VisitParent(p)
        PROVE  WalkInv'
    <3> DEFINE less == [pending EXCEPT ![Top] = pending[Top] \ {p}]
    <3>1. /\ stack \in Seq(Node) /\ stack # <<>> /\ Len(stack) \in Nat \ {0} /\ Top \in Node
      BY <2>2 DEF VisitParent, WalkInv, DagTypeOK, Top
    <3>2. less \in [Node -> SUBSET Id] /\ \A m \in Node : less[m] \subseteq pending[m]
      BY <3>1 DEF WalkInv, DagTypeOK
    <3>3. \A i \in 1..Len(stack) : i < Len(stack) => less[stack[i]] = pending[stack[i]]
      BY <3>1 DEF WalkInv, DagTypeOK, StackIsPath, Top
    <3>4. less[Top] = pending[Top] \ {p} /\ p \in edges[Top] /\ p \in Node
      BY <2>2, <3>1 DEF VisitParent, WalkInv, DagTypeOK, WorkIsAccounted, Screened, Top
    <3>5. Node \ roots' \subseteq (Node \ roots) \cup {p} /\ roots' \subseteq Node
      BY <2>2 DEF VisitParent, WalkInv, DagTypeOK
    <3> QED
      BY <2>2, <3>2, <3>3, <3>4, <3>5, VisitKeeps DEF VisitParent
  <2>3. CASE UNCHANGED dagVars
    BY <2>3 DEF dagVars, WalkInv, DagTypeOK, NothingStarted, StackIsPath, VisitedIsSettled, WorkIsAccounted,
                VerdictIsRight, visiting, Screened, Acyclic
  <2> QED
    BY <2>1, <2>2, <2>3, ScreenKeeps, LeaveKeeps, AcceptKeeps DEF DagNext
<1>3. WalkInv => VerdictIsRight
  BY DEF WalkInv
<1> QED
  BY <1>1, <1>2, <1>3, PTL DEF DagSpec
-----------------------------------------------------------------------------
(* The idempotency keys of the control plane                               *)

Response == [status : {"created"}, run : SUBSET Post, workflow : SUBSET Post]

Places == {"new", "awaits", "answered", "lost"}

Answer == Response \cup {NoResponse, [status |-> "rejected"]}

Requests == [kind : Kinds, key : Key \cup {NoKey}, at : Places, answer : Answer]

ControlTypeOK ==
  /\ post \in [Post -> Requests]
  /\ idempotency \in [Kinds \X Key -> Response \cup {NoResponse}]
  /\ overlapped \subseteq Post

\* A handler that awaits its run has a row of it, so that what it remembers exists.
AwaitedExists == \A q \in Post : post[q].at = "awaits" => q \in runs /\ post[q].kind # "workflows"

\* What a request was answered is what its key has stored ...
AnswerIsStored ==
  \A q \in Post \ overlapped :
    post[q].at = "answered" /\ post[q].key # NoKey /\ post[q].answer.status = "created" =>
      post[q].answer # NoResponse /\ idempotency[Slot(q)] = post[q].answer

\* ... and nothing is stored while it awaits its run: it is alone with its key.
AwaitedAlone ==
  \A q \in Post : post[q].at = "awaits" /\ post[q].key # NoKey /\ q \notin overlapped =>
    /\ idempotency[Slot(q)] = NoResponse
    /\ \A r \in Post : post[r].at = "awaits" /\ Slot(r) = Slot(q) => r = q

ControlIInv ==
  /\ ControlTypeOK
  /\ KeysAnswerWithWhatExists
  /\ AwaitedExists /\ AnswerIsStored /\ AwaitedAlone

LEMMA ControlInitSound == ControlInit => ControlIInv
<1> SUFFICES ASSUME ControlInit PROVE ControlIInv
  OBVIOUS
<1>1. NoResponse \in Answer
  BY DEF Answer
<1>2. ControlTypeOK
  BY <1>1 DEF ControlInit, ControlTypeOK, Requests, Places
<1>3. \A q \in Post : post[q].at = "new"
  BY DEF ControlInit
<1>4. AwaitedExists /\ AnswerIsStored /\ AwaitedAlone
  BY <1>3 DEF AwaitedExists, AnswerIsStored, AwaitedAlone
<1> QED BY <1>2, <1>4 DEF ControlInit, ControlIInv, KeysAnswerWithWhatExists

\* A request is answered: its record changes where it is and what it was answered.
LEMMA AnswersTyped ==
  ASSUME ControlTypeOK, NEW q \in Post, NEW answer \in Answer, Answers(q, answer)
  PROVE  /\ post' \in [Post -> Requests]
         /\ post'[q].at = "answered" /\ post'[q].answer = answer
         /\ post'[q].kind = post[q].kind /\ post'[q].key = post[q].key
         /\ \A r \in Post \ {q} : post'[r] = post[r]
<1>1. post' = [post EXCEPT ![q].at = "answered", ![q].answer = answer]
  BY DEF Answers
<1>2. post[q] \in Requests /\ post \in [Post -> Requests]
  BY DEF ControlTypeOK
<1>3. post' = [post EXCEPT ![q] = [[post[q] EXCEPT !.at = "answered"] EXCEPT !.answer = answer]]
  BY <1>1, <1>2 DEF Requests
<1>4. [[post[q] EXCEPT !.at = "answered"] EXCEPT !.answer = answer] \in Requests
  BY <1>2 DEF Requests, Places
<1> QED BY <1>2, <1>3, <1>4 DEF Requests

\* idempotent_put never overwrites, and what it stores exists by then.
LEMMA RememberKeeps ==
  ASSUME ControlIInv, NEW q \in Post, NEW response \in Response, Remember(q, response),
         runs \subseteq runs', links \subseteq links', workflows \subseteq workflows',
         response.run \subseteq runs' \cap links', response.workflow \subseteq workflows'
  PROVE  /\ idempotency' \in [Kinds \X Key -> Response \cup {NoResponse}]
         /\ KeysAnswerWithWhatExists'
         /\ \A k \in Kinds \X Key :
              k # Slot(q) \/ idempotency[k] # NoResponse => idempotency'[k] = idempotency[k]
         /\ post[q].key # NoKey /\ idempotency[Slot(q)] = NoResponse =>
              idempotency'[Slot(q)] = response
<1>1. CASE idempotency' = idempotency /\ (post[q].key = NoKey \/ idempotency[Slot(q)] # NoResponse)
  BY <1>1 DEF ControlIInv, ControlTypeOK, KeysAnswerWithWhatExists
<1>2. CASE /\ post[q].key # NoKey /\ idempotency[Slot(q)] = NoResponse
           /\ idempotency' = [idempotency EXCEPT ![Slot(q)] = response]
  <2>1. Slot(q) \in Kinds \X Key
    BY <1>2 DEF ControlIInv, ControlTypeOK, Requests, Slot
  <2>2. \A k \in Kinds \X Key :
          idempotency'[k] = IF k = Slot(q) THEN response ELSE idempotency[k]
    BY <1>2 DEF ControlIInv, ControlTypeOK
  <2>3. idempotency' \in [Kinds \X Key -> Response \cup {NoResponse}]
    BY <1>2 DEF ControlIInv, ControlTypeOK
  <2> QED BY <1>2, <2>1, <2>2, <2>3 DEF ControlIInv, KeysAnswerWithWhatExists
<1> QED BY <1>1, <1>2 DEF Remember

\* A request is answered with what its key has from now on, or with a rejection; what
\* it may have stored it stored for its own key.
LEMMA AnswerKeeps ==
  ASSUME ControlIInv, NEW q \in Post, NEW answer \in Answer \ {NoResponse},
         Answers(q, answer),
         idempotency' \in [Kinds \X Key -> Response \cup {NoResponse}],
         KeysAnswerWithWhatExists', runs' = runs, overlapped' = overlapped,
         \A k \in Kinds \X Key :
           k # Slot(q) \/ idempotency[k] # NoResponse => idempotency'[k] = idempotency[k],
         q \in overlapped \/ post[q].key = NoKey \/ answer.status # "created"
           \/ idempotency'[Slot(q)] = answer,
         idempotency' = idempotency \/ post[q].at = "awaits" \/ post[q].kind = "workflows"
  PROVE  ControlIInv'
<1> USE DEF ControlIInv
<1>1. /\ post' \in [Post -> Requests]
      /\ post'[q].at = "answered" /\ post'[q].answer = answer
      /\ post'[q].kind = post[q].kind /\ post'[q].key = post[q].key
      /\ \A r \in Post \ {q} : post'[r] = post[r]
  BY AnswersTyped
<1>2. \A r \in Post : Slot(r)' = Slot(r) /\ (post[r].key # NoKey => Slot(r) \in Kinds \X Key)
  BY <1>1 DEF Slot, ControlTypeOK, Requests
<1>3. ControlTypeOK'
  BY <1>1 DEF ControlTypeOK
<1>4. AwaitedExists'
  BY <1>1 DEF AwaitedExists
<1>5. AnswerIsStored'
  <2> SUFFICES ASSUME NEW r \in Post \ overlapped, post'[r].at = "answered",
                      post'[r].key # NoKey, post'[r].answer.status = "created"
               PROVE  post'[r].answer # NoResponse /\ idempotency'[Slot(r)] = post'[r].answer
    BY <1>2 DEF AnswerIsStored
  <2>1. CASE r = q
    BY <1>1, <2>1
  <2>2. CASE r # q
    <3>1. /\ post[r].answer # NoResponse /\ idempotency[Slot(r)] = post[r].answer
          /\ Slot(r) \in Kinds \X Key
      BY <1>1, <1>2, <2>2 DEF AnswerIsStored
    <3> QED BY <1>1, <2>2, <3>1
  <2> QED BY <2>1, <2>2
<1>6. AwaitedAlone'
  <2> SUFFICES ASSUME NEW r \in Post, post'[r].at = "awaits", post'[r].key # NoKey,
                      r \notin overlapped
               PROVE  /\ idempotency'[Slot(r)] = NoResponse
                      /\ \A s \in Post : post'[s].at = "awaits" /\ Slot(s) = Slot(r) => s = r
    BY <1>2 DEF AwaitedAlone
  <2>1. r # q /\ post'[r] = post[r]
    BY <1>1
  <2>2. /\ idempotency[Slot(r)] = NoResponse
        /\ \A s \in Post : post[s].at = "awaits" /\ Slot(s) = Slot(r) => s = r
    BY <2>1 DEF AwaitedAlone
  <2>3. Slot(q) # Slot(r) \/ idempotency' = idempotency
    BY <2>1, <2>2 DEF AwaitedExists, Slot
  <2> QED BY <1>1, <1>2, <2>1, <2>2, <2>3
<1> QED BY <1>3, <1>4, <1>5, <1>6

\* What a handler creates is a response, and not the absence of one.
LEMMA Created ==
  /\ \A r \in Response : r \in Answer \ {NoResponse}
  /\ [status |-> "rejected"] \in Answer \ {NoResponse}
  /\ \A q \in Post : /\ CreatedBy(q) \in Response
                     /\ [status |-> "created", run |-> {}, workflow |-> {q}] \in Response
<1>1. \A r \in Response : DOMAIN r = {"status", "run", "workflow"}
  BY DEF Response
<1>2. DOMAIN NoResponse = {"none"}
  BY DEF NoResponse
<1>3. DOMAIN [status |-> "rejected"] = {"status"}
  OBVIOUS
<1> QED BY <1>1, <1>2, <1>3 DEF Answer, Response, CreatedBy

LEMMA ControlStepSound == ControlIInv /\ [ControlNext]_controlVars => ControlIInv'
<1> SUFFICES ASSUME ControlIInv, [ControlNext]_controlVars PROVE ControlIInv'
  OBVIOUS
<1>1. ASSUME NEW q \in Post, Repeat(q) \/ Reject(q) PROVE ControlIInv'
  <2>1. UNCHANGED <<runs, links, workflows, idempotency, overlapped>>
    BY <1>1 DEF Repeat, Reject
  <2>2. KeysAnswerWithWhatExists' /\ idempotency' \in [Kinds \X Key -> Response \cup {NoResponse}]
    BY <2>1 DEF ControlIInv, ControlTypeOK, KeysAnswerWithWhatExists
  <2>3. CASE Repeat(q)
    <3>1. Cached(q) = idempotency[Slot(q)] /\ Cached(q) \in Response /\ Answers(q, Cached(q))
      BY <2>3 DEF Repeat, Cached, Slot, ControlIInv, ControlTypeOK, Requests
    <3> QED BY <2>1, <2>2, <3>1, Created, AnswerKeeps
  <2>4. CASE Reject(q)
    BY <2>1, <2>2, <2>4, Created, AnswerKeeps DEF Reject
  <2> QED BY <1>1, <2>3, <2>4
<1>2. ASSUME NEW q \in Post, CreateWorkflow(q) PROVE ControlIInv'
  <2> DEFINE response == [status |-> "created", run |-> {}, workflow |-> {q}]
  <2>1. response \in Response /\ response.run = {} /\ response.workflow = {q}
    BY Created
  <2>2. /\ Remember(q, response) /\ Answers(q, response)
        /\ runs' = runs /\ links' = links /\ workflows' = workflows \cup {q}
        /\ overlapped' = overlapped /\ post[q].kind = "workflows" /\ Cached(q) = NoResponse
    BY <1>2 DEF CreateWorkflow
  <2> HIDE DEF response
  <2>3. /\ idempotency' \in [Kinds \X Key -> Response \cup {NoResponse}]
        /\ KeysAnswerWithWhatExists'
        /\ \A k \in Kinds \X Key :
             k # Slot(q) \/ idempotency[k] # NoResponse => idempotency'[k] = idempotency[k]
        /\ post[q].key # NoKey /\ idempotency[Slot(q)] = NoResponse =>
             idempotency'[Slot(q)] = response
    BY <2>1, <2>2, RememberKeeps
  <2>4. post[q].key # NoKey => idempotency[Slot(q)] = NoResponse
    BY <2>2 DEF Cached
  <2> QED BY <2>1, <2>2, <2>3, <2>4, Created, AnswerKeeps
<1>3. ASSUME NEW q \in Post, BeginRun(q) PROVE ControlIInv'
  <2>1. /\ post' = [post EXCEPT ![q].at = "awaits"] /\ runs' = runs \cup {q}
        /\ overlapped' = IF Beside(q) = {} THEN overlapped ELSE overlapped \cup Beside(q) \cup {q}
        /\ UNCHANGED <<links, workflows, idempotency>>
        /\ post[q].at = "new" /\ post[q].kind # "workflows" /\ Cached(q) = NoResponse
    BY <1>3 DEF BeginRun, Awaits
  <2>2. /\ post' \in [Post -> Requests] /\ post'[q].at = "awaits"
        /\ \A r \in Post \ {q} : post'[r] = post[r]
        /\ \A r \in Post : post'[r].kind = post[r].kind /\ post'[r].key = post[r].key
    BY <2>1 DEF ControlIInv, ControlTypeOK, Requests, Places
  <2>3. \A r \in Post : Slot(r)' = Slot(r)
    BY <2>2 DEF Slot
  <2>4. overlapped \subseteq overlapped' /\ overlapped' \subseteq Post
    BY <2>1 DEF Beside, ControlIInv, ControlTypeOK
  <2>5. ControlTypeOK' /\ KeysAnswerWithWhatExists'
    BY <2>1, <2>2, <2>4 DEF ControlIInv, ControlTypeOK, KeysAnswerWithWhatExists
  <2>6. AwaitedExists'
    BY <2>1, <2>2 DEF ControlIInv, AwaitedExists
  <2>7. AnswerIsStored'
    BY <2>1, <2>2, <2>3, <2>4 DEF ControlIInv, AnswerIsStored
  <2>8. AwaitedAlone'
    <3> SUFFICES ASSUME NEW r \in Post, post'[r].at = "awaits", post[r].key # NoKey,
                        r \notin overlapped'
                 PROVE  /\ idempotency[Slot(r)] = NoResponse
                        /\ \A s \in Post : post'[s].at = "awaits" /\ Slot(s) = Slot(r) => s = r
      BY <2>1, <2>2, <2>3 DEF AwaitedAlone
    <3>1. CASE r = q
      <4>1. Beside(q) = {}
        BY <2>1, <3>1
      <4>2. \A s \in Post : post[s].at = "awaits" => Slot(s) # Slot(q)
        BY <3>1, <4>1 DEF Beside
      <4> QED BY <2>1, <2>2, <3>1, <4>2 DEF Cached
    <3>2. CASE r # q
      <4>1. /\ post[r].at = "awaits" /\ r \notin overlapped
            /\ idempotency[Slot(r)] = NoResponse
            /\ \A s \in Post : post[s].at = "awaits" /\ Slot(s) = Slot(r) => s = r
        BY <2>2, <2>4, <3>2 DEF ControlIInv, AwaitedAlone
      <4>2. Slot(q) # Slot(r)
        <5>1. r \notin Beside(q)
          BY <2>1
        <5>2. Slot(q) = Slot(r) => post[q].key = post[r].key
          BY DEF Slot
        <5> QED BY <4>1, <5>1, <5>2 DEF Beside
      <4> QED BY <2>2, <4>1, <4>2
    <3> QED BY <3>1, <3>2
  <2> QED BY <2>5, <2>6, <2>7, <2>8 DEF ControlIInv
<1>4. ASSUME NEW q \in Post, FinishRun(q) PROVE ControlIInv'
  <2>1. /\ Remember(q, CreatedBy(q)) /\ Answers(q, CreatedBy(q)) /\ post[q].at = "awaits"
        /\ runs' = runs /\ links' = links \cup {q} /\ overlapped' = overlapped
        /\ workflows' = workflows \cup CreatedBy(q).workflow
    BY <1>4 DEF FinishRun
  <2>2. CreatedBy(q) \in Response /\ CreatedBy(q).run = {q} /\ q \in runs
    BY <2>1, Created DEF CreatedBy, ControlIInv, AwaitedExists
  <2>3. /\ idempotency' \in [Kinds \X Key -> Response \cup {NoResponse}]
        /\ KeysAnswerWithWhatExists'
        /\ \A k \in Kinds \X Key :
             k # Slot(q) \/ idempotency[k] # NoResponse => idempotency'[k] = idempotency[k]
        /\ post[q].key # NoKey /\ idempotency[Slot(q)] = NoResponse =>
             idempotency'[Slot(q)] = CreatedBy(q)
    BY <2>1, <2>2, RememberKeeps
  <2>4. q \in overlapped \/ post[q].key = NoKey \/ idempotency[Slot(q)] = NoResponse
    BY <2>1 DEF ControlIInv, AwaitedAlone
  <2> QED BY <2>1, <2>2, <2>3, <2>4, Created, AnswerKeeps
<1>5. ASSUME NEW lost \in SUBSET Post, Loses(lost),
             idempotency' \in [Kinds \X Key -> Response \cup {NoResponse}],
             KeysAnswerWithWhatExists',
             \A k \in Kinds \X Key :
               idempotency[k] # NoResponse => idempotency'[k] = idempotency[k]
      PROVE  ControlIInv'
  <2>1. /\ post' \in [Post -> Requests] /\ overlapped' = overlapped
        /\ \A r \in Post : /\ post'[r].at # "awaits"
                           /\ post'[r].at = "answered" => post'[r] = post[r]
                           /\ Slot(r)' = Slot(r)
    BY <1>5 DEF Loses, Slot, ControlIInv, ControlTypeOK, Requests, Places
  <2>2. ControlTypeOK' /\ AwaitedExists' /\ AwaitedAlone'
    BY <1>5, <2>1 DEF ControlIInv, ControlTypeOK, AwaitedExists, AwaitedAlone
  <2>3. AnswerIsStored'
    <3> SUFFICES ASSUME NEW r \in Post \ overlapped, post'[r].at = "answered",
                        post'[r].key # NoKey, post'[r].answer.status = "created"
                 PROVE  post'[r].answer # NoResponse /\ idempotency'[Slot(r)] = post'[r].answer
      BY <2>1 DEF AnswerIsStored
    <3>1. /\ post'[r] = post[r] /\ post[r].answer # NoResponse
          /\ idempotency[Slot(r)] = post[r].answer
      BY <2>1 DEF ControlIInv, AnswerIsStored
    <3>2. Slot(r) \in Kinds \X Key
      BY <3>1 DEF Slot, ControlIInv, ControlTypeOK, Requests
    <3> QED BY <1>5, <3>1, <3>2
  <2> QED BY <1>5, <2>2, <2>3 DEF ControlIInv
<1>6. ASSUME NEW q \in Post, CrashInHandler(q) PROVE ControlIInv'
  <2>1. WritesPart(q) /\ Loses({q}) /\ runs' = runs
    BY <1>6 DEF CrashInHandler, Loses
  <2>2. /\ idempotency' \in [Kinds \X Key -> Response \cup {NoResponse}]
        /\ KeysAnswerWithWhatExists'
        /\ \A k \in Kinds \X Key :
             idempotency[k] # NoResponse => idempotency'[k] = idempotency[k]
    <3>1. CASE /\ idempotency' = idempotency
               /\ links \subseteq links' /\ workflows \subseteq workflows'
      BY <2>1, <3>1 DEF ControlIInv, ControlTypeOK, KeysAnswerWithWhatExists
    <3>2. CASE /\ post[q].at = "awaits" /\ links' = links \cup {q}
               /\ workflows' = workflows \cup CreatedBy(q).workflow
               /\ Remember(q, CreatedBy(q))
      <4>1. CreatedBy(q) \in Response /\ CreatedBy(q).run = {q} /\ q \in runs
        BY <3>2, Created DEF CreatedBy, ControlIInv, AwaitedExists
      <4> QED BY <2>1, <3>2, <4>1, RememberKeeps
    <3>3. CASE /\ links' = links /\ workflows' = workflows \cup {q}
               /\ Remember(q, [status |-> "created", run |-> {}, workflow |-> {q}])
      <4> DEFINE response == [status |-> "created", run |-> {}, workflow |-> {q}]
      <4>1. response \in Response /\ response.run = {} /\ response.workflow = {q}
        BY Created
      <4>2. Remember(q, response)
        BY <3>3
      <4> HIDE DEF response
      <4> QED BY <2>1, <3>3, <4>1, <4>2, RememberKeeps
    <3> QED BY <2>1, <3>1, <3>2, <3>3 DEF WritesPart
  <2> QED BY <1>5, <2>1, <2>2
<1>7. CASE ServerDies
  <2>1. Loses({}) /\ UNCHANGED <<runs, links, workflows, idempotency>>
    BY <1>7 DEF ServerDies, Loses
  <2> QED BY <1>5, <2>1 DEF ControlIInv, ControlTypeOK, KeysAnswerWithWhatExists
<1>8. CASE UNCHANGED controlVars
  BY <1>8 DEF controlVars, ControlIInv, ControlTypeOK, KeysAnswerWithWhatExists,
              AwaitedExists, AnswerIsStored, AwaitedAlone, Slot
<1> QED BY <1>1, <1>2, <1>3, <1>4, <1>6, <1>7, <1>8 DEF ControlNext

\* RetriesAgree: requests with one key that did not overlap are answered the same, and
\* with what exists, for any number of requests, keys and crashes (create_run,
\* create_workflow, launch_demo, idempotent_get, idempotent_put).
THEOREM RetriesAlwaysAgree == ControlSpec => []RetriesAgree
<1>1. ControlIInv => RetriesAgree
  BY DEF ControlIInv, AnswerIsStored, RetriesAgree, Slot
<1> QED BY <1>1, ControlInitSound, ControlStepSound, PTL DEF ControlSpec

-----------------------------------------------------------------------------
(* The event stream                                                        *)

\* The connection was sent what it has seen, and nothing later than its last poll.
\* An event of an earlier poll that it was not sent is not listed any more, and one it
\* was sent and has not seen was cut from the set of event_stream.
FeedIInv ==
  /\ stored \in Seq(Stores) /\ polled \in 0 .. Len(stored)
  /\ seen \subseteq sent /\ sent \subseteq 1 .. polled
  /\ \A e \in 1 .. polled : e \notin sent => e \notin Latest
  /\ \A e \in sent \ seen : transport = "sse" /\ Cardinality(sent) > SeenLimit

FeedStep ==
  /\ FeedIInv'
  /\ polled' # polled /\ polled' - polled <= Window =>
       \A e \in polled + 1 .. polled' : Given(e)' => e \in batch'
  /\ \A e \in batch' : e <= polled =>
       e \in sent /\ transport = "sse" /\ Cardinality(sent) > SeenLimit

\* A later event takes at most one from the newest ones.
LEMMA OneIsDropped ==
  ASSUME NEW n \in Nat, NEW C \in SUBSET (1 .. n), NEW g \in Newest(Window, C),
         NEW h \in Newest(Window, C), g < h, h \notin Newest(Window, C \cup {n + 1})
  PROVE  FALSE
<1> USE FeedAssumption
<1> DEFINE Above(f) == {k \in C : k > f}
<1>1. /\ g \in C /\ h \in C /\ Cardinality(Above(g)) < Window
      /\ g \in 1 .. n /\ h \in 1 .. n
  BY DEF Newest
<1>2. \A f \in C : {k \in C \cup {n + 1} : k > f} = Above(f) \cup {n + 1}
  OBVIOUS
<1>3. ~(Cardinality(Above(h) \cup {n + 1}) < Window)
  BY <1>1, <1>2 DEF Newest
<1>4. /\ IsFiniteSet(Above(g)) /\ Cardinality(Above(g)) \in Nat
      /\ IsFiniteSet(Above(h)) /\ Cardinality(Above(h)) \in Nat
  <2>1. IsFiniteSet(1 .. n)
    BY FS_Interval
  <2>2. Above(g) \in SUBSET (1 .. n) /\ Above(h) \in SUBSET (1 .. n)
    OBVIOUS
  <2> QED BY <2>1, <2>2, FS_Subset, FS_CardinalityType
<1>5. n + 1 \notin Above(h) /\ h \notin Above(h)
  BY <1>1
<1>6. /\ Cardinality(Above(h) \cup {n + 1}) = Cardinality(Above(h)) + 1
      /\ Cardinality(Above(h) \cup {h}) = Cardinality(Above(h)) + 1
  BY <1>4, <1>5, FS_AddElement
<1>7. Above(h) \cup {h} \subseteq Above(g)
  <2>1. \A k \in 1 .. n : k > h => k > g
    BY <1>1
  <2>2. h > g
    BY <1>1
  <2> QED BY <1>1, <2>1, <2>2
<1>8. Cardinality(Above(h) \cup {h}) <= Cardinality(Above(g))
  BY <1>4, <1>7, FS_Subset
<1> QED BY <1>1, <1>3, <1>4, <1>6, <1>8

\* What is later than a listed event is not less once another event has happened.
LEMMA NoneReturns ==
  ASSUME stored \in Seq(Stores), NEW s \in Stores, stored' = Append(stored, s),
         NEW e \in 1 .. Len(stored), e \in Latest'
  PROVE  e \in Latest
<1> USE FeedAssumption
<1> DEFINE n == Len(stored)
           C == Of("control")
           G == {f \in Listed : f > e}
           Later == {f \in Listed' : f > e}
<1>1. n \in Nat /\ n + 1 \notin 1 .. n
  OBVIOUS
<1>2. /\ \A t \in Stores : Of(t) \subseteq 1 .. n
      /\ \A t \in Stores : Of(t)' = IF t = s THEN Of(t) \cup {n + 1} ELSE Of(t)
  BY DEF Of
<1>3. \A t \in Stores : Oldest(Window, Of(t)) \subseteq Oldest(Window, Of(t))'
  <2> SUFFICES ASSUME NEW t \in Stores, NEW f \in Oldest(Window, Of(t))
               PROVE  f \in Oldest(Window, Of(t))'
    OBVIOUS
  <2>1. f \in Of(t) /\ f \in 1 .. n /\ f \in Of(t)'
    BY <1>2 DEF Oldest
  <2>2. {k \in Of(t)' : k < f} = {k \in Of(t) : k < f}
    BY <1>2, <2>1
  <2> QED BY <2>1, <2>2 DEF Oldest
<1>4. \A t \in Stores : e \in Oldest(Window, Of(t))' => e \in Oldest(Window, Of(t))
  <2> SUFFICES ASSUME NEW t \in Stores, e \in Oldest(Window, Of(t))'
               PROVE  e \in Oldest(Window, Of(t))
    OBVIOUS
  <2>1. {k \in Of(t)' : k < e} = {k \in Of(t) : k < e}
    BY <1>2
  <2>2. e \in Of(t)
    BY <1>1, <1>2 DEF Oldest
  <2> QED BY <2>1, <2>2 DEF Oldest
<1>5. e \in Newest(Window, C)' => e \in Newest(Window, C)
  <2> SUFFICES ASSUME e \in Newest(Window, C)' PROVE e \in Newest(Window, C)
    OBVIOUS
  <2>1. e \in C /\ C \subseteq C' /\ C' \subseteq 1 .. (n + 1) /\ C \subseteq 1 .. n
    BY <1>1, <1>2 DEF Newest, Stores
  <2>2. Cardinality({f \in C' : f > e}) < Window
    BY DEF Newest
  <2>3. IsFiniteSet({f \in C' : f > e}) /\ {f \in C : f > e} \subseteq {f \in C' : f > e}
    <3>1. IsFiniteSet(1 .. (n + 1))
      BY <1>1, FS_Interval
    <3>2. {f \in C' : f > e} \in SUBSET (1 .. (n + 1))
      BY <2>1
    <3> QED BY <2>1, <3>1, <3>2, FS_Subset
  <2>4. /\ Cardinality({f \in C : f > e}) <= Cardinality({f \in C' : f > e})
        /\ Cardinality({f \in C : f > e}) \in Nat /\ Cardinality({f \in C' : f > e}) \in Nat
    BY <2>3, FS_Subset, FS_CardinalityType
  <2> QED BY <2>1, <2>2, <2>4 DEF Newest
<1>6. e \in Listed
  BY <1>4, <1>5 DEF Latest, Listed, Newest, Stores
<1>7. Cardinality(Later) < Window
  BY DEF Latest, Newest
<1>8. Listed \subseteq 1 .. n /\ Listed' \subseteq 1 .. (n + 1)
  BY <1>1, <1>2 DEF Listed, Newest, Oldest, Stores
<1>9. /\ IsFiniteSet(G) /\ Cardinality(G) \in Nat
      /\ IsFiniteSet(Later) /\ Cardinality(Later) \in Nat
  <2>1. IsFiniteSet(1 .. n) /\ IsFiniteSet(1 .. (n + 1))
    BY <1>1, FS_Interval
  <2>2. G \subseteq 1 .. n /\ Later \subseteq 1 .. (n + 1)
    BY <1>8
  <2> QED BY <2>1, <2>2, FS_Subset, FS_CardinalityType
<1>10. Cardinality(G) <= Cardinality(Later)
  <2>1. CASE s # "control"
    <3>1. Newest(Window, C)' = Newest(Window, C)
      BY <1>2, <2>1 DEF Newest, Stores
    <3>2. G \subseteq Later
      BY <1>3, <3>1 DEF Listed, Stores
    <3> QED BY <1>9, <3>2, FS_Subset
  <2>2. CASE s = "control"
    <3>1. C' = C \cup {n + 1} /\ C \subseteq 1 .. n
      BY <1>2, <2>2 DEF Stores
    <3>2. n + 1 \in Newest(Window, C)'
      <4>1. {f \in C' : f > n + 1} = {}
        BY <1>1, <3>1
      <4>2. Cardinality({f \in C' : f > n + 1}) = 0
        BY <4>1, FS_EmptySet, Zenon
      <4> QED BY <3>1, <4>2 DEF Newest
    <3>3. \A g, h \in Newest(Window, C) \ Newest(Window, C)' : g = h
      <4> SUFFICES ASSUME NEW g \in Newest(Window, C) \ Newest(Window, C)',
                          NEW h \in Newest(Window, C) \ Newest(Window, C)', g < h
                   PROVE  FALSE
        <5>1. Newest(Window, C) \subseteq 1 .. n
          BY <3>1 DEF Newest
        <5>2. \A g, h \in 1 .. n : g < h \/ h < g \/ g = h
          BY <1>1
        <5> QED BY <5>1, <5>2
      <4>1. Newest(Window, C)' = Newest(Window, C \cup {n + 1})
        BY <3>1 DEF Newest
      <4> QED BY <1>1, <3>1, <4>1, OneIsDropped
    <3>4. PICK c : Newest(Window, C) \ Newest(Window, C)' \subseteq {c}
      BY <3>3
    <3>5. (G \ {c}) \cup {n + 1} \subseteq Later
      <4>1. G \ {c} \subseteq Later
        BY <1>3, <3>4 DEF Listed, Stores
      <4>2. n + 1 \in Later
        BY <1>1, <3>2 DEF Listed
      <4> QED BY <4>1, <4>2
    <3>6. n + 1 \notin G
      BY <1>1, <1>8
    <3> HIDE DEF G, Later
    <3>7. /\ IsFiniteSet(G \ {c}) /\ Cardinality(G \ {c}) \in Nat
          /\ Cardinality(G) <= Cardinality(G \ {c}) + 1
      <4>1. IsFiniteSet(G \ {c}) /\ Cardinality(G \ {c}) \in Nat
        BY <1>9, FS_Subset, FS_CardinalityType
      <4>2. CASE c \in G
        BY <1>9, <4>1, <4>2, FS_RemoveElement
      <4>3. CASE c \notin G
        <5>1. G \ {c} = G
          BY <4>3
        <5>2. Cardinality(G \ {c}) = Cardinality(G)
          BY <5>1
        <5> QED BY <1>9, <4>1, <5>2
      <4> QED BY <4>1, <4>2, <4>3
    <3>8. Cardinality((G \ {c}) \cup {n + 1}) = Cardinality(G \ {c}) + 1
      BY <3>6, <3>7, FS_AddElement
    <3>9. Cardinality((G \ {c}) \cup {n + 1}) <= Cardinality(Later)
      BY <1>9, <3>5, FS_Subset
    <3> QED BY <1>9, <3>7, <3>8, <3>9
  <2> QED BY <2>1, <2>2
<1> QED BY <1>6, <1>7, <1>9, <1>10 DEF Latest, Newest

LEMMA FeedInitSound == FeedInit => FeedIInv
  BY FeedAssumption DEF FeedInit, FeedIInv

LEMMA HappenSound == FeedIInv /\ Happen => FeedStep
<1> SUFFICES ASSUME FeedIInv, Happen PROVE FeedStep
  OBVIOUS
<1>1. PICK s \in Stores : stored' = Append(stored, s)
  BY DEF Happen
<1>2. batch' = {} /\ UNCHANGED <<transport, seen, sent, polled>>
  BY DEF Happen
<1>3. stored' \in Seq(Stores) /\ polled' \in 0 .. Len(stored')
  BY <1>1, <1>2 DEF FeedIInv
<1>4. \A e \in 1 .. polled' : e \notin sent' => e \notin Latest'
  <2> SUFFICES ASSUME NEW e \in 1 .. polled, e \notin sent, e \in Latest'
               PROVE  FALSE
    BY <1>2
  <2>1. e \in 1 .. Len(stored) /\ e \notin Latest
    BY DEF FeedIInv
  <2> QED BY <1>1, <2>1, NoneReturns DEF FeedIInv
<1>5. FeedIInv'
  BY <1>2, <1>3, <1>4 DEF FeedIInv
<1> QED BY <1>2, <1>5 DEF FeedStep

LEMMA PollSound == FeedIInv /\ Poll => FeedStep
<1> SUFFICES ASSUME FeedIInv, Poll PROVE FeedStep
  OBVIOUS
<1> USE FeedAssumption
<1> DEFINE n == Len(stored)
           all == seen \cup Latest
<1>1. /\ batch' = Latest \ seen /\ sent' = sent \cup (Latest \ seen)
      /\ polled' = n /\ stored' = stored /\ transport' = transport /\ Latest' = Latest
  BY DEF Poll, Latest, Listed, Of
<1>2. n \in Nat /\ polled \in 0 .. n /\ seen \subseteq sent /\ sent \subseteq 1 .. polled
  BY DEF FeedIInv
<1>3. Latest \subseteq 1 .. n
  BY DEF Latest, Listed, Newest, Oldest, Of
<1>4. /\ all \subseteq sent' /\ sent \subseteq sent' /\ sent' \subseteq 1 .. n
      /\ \A e \in 1 .. n : e \notin sent' => e \notin Latest
  BY <1>1, <1>2, <1>3
<1>5. /\ IsFiniteSet(sent') /\ Cardinality(sent') \in Nat
      /\ Cardinality(sent) \in Nat /\ Cardinality(sent) <= Cardinality(sent')
      /\ Cardinality(all) \in Nat /\ Cardinality(all) <= Cardinality(sent')
  <2>1. IsFiniteSet(sent')
    <3>1. IsFiniteSet(1 .. n)
      BY <1>2, FS_Interval
    <3> QED BY <1>4, <3>1, FS_Subset
  <2> QED BY <1>4, <2>1, FS_Subset, FS_CardinalityType
<1>6. /\ seen' \subseteq sent'
      /\ \A e \in sent' \ seen' : transport = "sse" /\ Cardinality(sent') > SeenLimit
  <2>1. CASE seen' = all
    <3>1. sent' \ seen' \subseteq sent \ seen
      BY <1>1, <2>1
    <3>2. \A e \in sent \ seen : transport = "sse" /\ Cardinality(sent) > SeenLimit
      BY DEF FeedIInv
    <3> QED BY <1>4, <1>5, <2>1, <3>1, <3>2
  <2>2. CASE /\ transport = "sse" /\ Cardinality(all) > SeenLimit
             /\ seen' \in kSubset(SeenKept, all)
    <3>1. seen' \subseteq all
      BY <2>2 DEF kSubset
    <3> QED BY <1>4, <1>5, <2>2, <3>1
  <2> QED BY <2>1, <2>2 DEF Poll
<1>7. FeedIInv'
  <2>1. stored' \in Seq(Stores) /\ polled' \in 0 .. Len(stored') /\ sent' \subseteq 1 .. polled'
    BY <1>1, <1>2, <1>4 DEF FeedIInv
  <2>2. \A e \in 1 .. polled' : e \notin sent' => e \notin Latest'
    BY <1>1, <1>4
  <2>3. \A e \in sent' \ seen' : transport' = "sse" /\ Cardinality(sent') > SeenLimit
    BY <1>1, <1>6
  <2> QED BY <1>6, <2>1, <2>2, <2>3, Zenon DEF FeedIInv
<1>8. ASSUME polled' - polled <= Window, NEW e \in polled + 1 .. n, Given(e)'
      PROVE  e \in batch'
  <2>0. e \in Int /\ e + 1 \in Int /\ n \in Int /\ e <= n /\ e > polled /\ polled \in Nat
    BY <1>2
  <2>1. e \in 1 .. n /\ e \notin seen /\ Given(e)
    BY <1>1, <1>2, <1>8 DEF Given
  <2>2. \A S \in SUBSET (1 .. n) : Cardinality({f \in S : f > e}) < Window
    <3> SUFFICES ASSUME NEW S \in SUBSET (1 .. n)
                 PROVE  Cardinality({f \in S : f > e}) < Window
      OBVIOUS
    <3>1. {f \in S : f > e} \subseteq (e + 1) .. n
      <4>1. \A f \in 1 .. n : f > e => f \in (e + 1) .. n
        BY <2>0
      <4> QED BY <4>1
    <3>2. IsFiniteSet((e + 1) .. n) /\ Cardinality((e + 1) .. n) <= n - e
      <4>1. /\ IsFiniteSet((e + 1) .. n)
            /\ Cardinality((e + 1) .. n) = IF e + 1 > n THEN 0 ELSE n - (e + 1) + 1
        BY <2>0, FS_Interval
      <4> QED BY <2>0, <4>1
    <3>3. /\ Cardinality({f \in S : f > e}) <= Cardinality((e + 1) .. n)
          /\ Cardinality({f \in S : f > e}) \in Nat /\ Cardinality((e + 1) .. n) \in Nat
      BY <3>1, <3>2, FS_Subset, FS_CardinalityType
    <3> QED BY <1>1, <1>2, <1>8, <2>1, <3>2, <3>3
  <2>3. /\ stored[e] \in Stores /\ e \in Of(stored[e]) /\ \A t : Of(t) \subseteq 1 .. n
        /\ Listed \subseteq 1 .. n
    BY <2>1 DEF FeedIInv, Of, Listed, Newest, Oldest
  <2>4. e \in Listed
    <3>1. CASE stored[e] = "control"
      BY <2>2, <2>3, <3>1 DEF Listed, Newest
    <3>2. CASE stored[e] # "control"
      <4>1. Cardinality({f \in 1 .. e - 1 : stored[f] = stored[e]}) < Window
        BY <2>1, <3>2 DEF Given
      <4>2. {f \in Of(stored[e]) : f < e} = {f \in 1 .. e - 1 : stored[f] = stored[e]}
        BY <1>2, <2>1 DEF Of
      <4>3. e \in Oldest(Window, Of(stored[e]))
        BY <2>3, <4>1, <4>2 DEF Oldest
      <4> QED BY <2>3, <3>2, <4>3 DEF Listed, Stores
    <3> QED BY <3>1, <3>2
  <2>5. e \in Latest
    BY <2>2, <2>3, <2>4 DEF Latest, Newest
  <2> QED BY <1>1, <2>1, <2>5
<1>9. ASSUME NEW e \in batch', e <= polled
      PROVE  e \in sent /\ transport = "sse" /\ Cardinality(sent) > SeenLimit
  <2>1. e \in 1 .. polled /\ e \in Latest /\ e \notin seen
    BY <1>1, <1>2, <1>3, <1>9
  <2>2. e \in sent
    BY <2>1 DEF FeedIInv
  <2> QED BY <2>1, <2>2 DEF FeedIInv
<1> QED BY <1>1, <1>7, <1>8, <1>9 DEF FeedStep

LEMMA FeedStepSound == FeedIInv /\ [FeedNext]_feedVars => FeedIInv' /\ [FeedStep]_feedVars
<1>1. FeedIInv /\ UNCHANGED feedVars => FeedIInv'
  BY DEF feedVars, FeedIInv, Latest, Listed, Of
<1> QED BY <1>1, HappenSound, PollSound DEF FeedNext, FeedStep

\* FeedIsHonest: a poll sends every new event that its store still gives, and nothing
\* late but repetitions of event_stream, for every window, limit and number of events
\* (unified_events, event_stream, websocket_events).
THEOREM FeedStaysHonest == FeedSpec => FeedIsHonest
<1>1. FeedStep =>
        [/\ polled' # polled /\ polled' - polled <= Window =>
              \A e \in polled + 1 .. polled' : Given(e)' => e \in batch'
         /\ \A e \in batch' : e <= polled =>
              e \in sent /\ transport = "sse" /\ Cardinality(sent) > SeenLimit]_feedVars
  BY DEF FeedStep
<1> QED BY <1>1, FeedInitSound, FeedStepSound, PTL DEF FeedSpec, FeedIsHonest

-----------------------------------------------------------------------------
(* The model workers: the caps, the locks and the private files            *)

(* A counter that follows one entry into, or one exit from, a finite set.   *)
LEMMA CountFollows ==
  ASSUME NEW S, NEW T, NEW x, NEW n \in Nat, NEW m \in Nat,
         IsFiniteSet(S), n = Cardinality(S),
         \/ T = S /\ m = n
         \/ T = S \cup {x} /\ x \notin S /\ m = n + 1
         \/ T = S \ {x} /\ x \in S /\ m = IF n > 0 THEN n - 1 ELSE 0
  PROVE  IsFiniteSet(T) /\ m = Cardinality(T)
<1>1. CASE T = S /\ m = n
  BY <1>1
<1>2. CASE T = S \cup {x} /\ x \notin S /\ m = n + 1
  BY <1>2, FS_AddElement
<1>3. CASE T = S \ {x} /\ x \in S /\ m = IF n > 0 THEN n - 1 ELSE 0
  <2>1. IsFiniteSet(T) /\ Cardinality(T) = n - 1
    BY <1>3, FS_RemoveElement
  <2>2. Cardinality(T) \in Nat
    BY <2>1, FS_CardinalityType
  <2>q. QED
    BY <2>1, <2>2, <1>3
<1>q. QED
  BY <1>1, <1>2, <1>3

-----------------------------------------------------------------------------

(* The cap counts the requests that are inside it.                          *)
VoxCounted ==
  /\ IsFiniteSet({q \in Request : stage[q] \in Admitted})
  /\ inflight = Cardinality({q \in Request : stage[q] \in Admitted})
  /\ inflight <= MaxInflight

OneGeneration == \A q, r \in Request : HoldsLock(q) /\ HoldsLock(r) => q = r

(* A request has no thread before its stream begins, and the directory of   *)
(* one that may get a thread or has one exists.                             *)
ThreadsFindFiles ==
  /\ \A q \in Request :
       stage[q] \in {"new", "reads", "handles", "saves", "responds"} => producer[q] = "none"
  /\ \A q \in CloneRequest :
       producer[q] \notin {"none", "exited"} \/ stage[q] \in {"saves", "responds"} => workdir[q]

VoxIInv == VoxTypeOK /\ VoxCounted /\ OneGeneration /\ ThreadsFindFiles

LEMMA VoxStarts == VoxInit => VoxIInv
<1> SUFFICES ASSUME VoxInit PROVE VoxIInv
  OBVIOUS
<1>1. VoxTypeOK
  <2>1. output \in [Request -> Seq({"audio", "done", "error"})]
    BY DEF VoxInit
  <2>2. chunks \in [Request -> 0 .. MaxChunks] /\ inflight \in Nat
    BY VoxAssumption DEF VoxInit
  <2>q. QED
    BY <2>1, <2>2, Zenon DEF VoxInit, VoxTypeOK, Admitted
<1>2. {q \in Request : stage[q] \in Admitted} = {}
  BY DEF VoxInit, Admitted
<1>3. VoxCounted
  <2>1. 0 <= MaxInflight
    BY VoxAssumption
  <2>q. QED
    BY <1>2, <2>1, FS_EmptySet, Zenon DEF VoxCounted, VoxInit
<1>4. OneGeneration /\ ThreadsFindFiles
  BY VoxAssumption DEF OneGeneration, ThreadsFindFiles, HoldsLock, VoxInit
<1>q. QED
  BY <1>1, <1>3, <1>4 DEF VoxIInv

(* The stages a request may move between.                                   *)
LEMMA VoxTypeStep == VoxTypeOK /\ [VoxNext]_voxVars => VoxTypeOK'
<1> SUFFICES ASSUME VoxTypeOK, VoxNext PROVE VoxTypeOK'
  BY DEF VoxTypeOK, voxVars
<1> PICK q \in Request :
      \/ Admit(q) \/ RefuseQuarantined(q) \/ StartFails(q) \/ Disconnect(q) \/ Delivered(q)
      \/ ServiceStep(q) \/ ThreadStep(q) \/ IteratorStep(q) \/ GenerationFails(q)
  BY DEF VoxNext
<1> USE DEF VoxTypeOK, Goto, EndStream, thread, service, Moves, Puts, ServiceStep, ThreadStep,
        IteratorStep, Admit, RefuseQuarantined, ReadBody, Release, Handle, SaveReference,
        BeginStream, StartFails, TakeItem, Delivered, FindEmpty, LookAtProducer, Disconnect,
        CloseJoined, CloseExpires, Reap, AcquireLock, ProduceChunk, ProduceDone, SeesStop,
        GenerationFails, ReportFailure, Finish
<1>1. stage' \in [Request -> Admitted \cup {"new", "ended"}]
  <2>1. \/ stage' = stage
        \/ \E to \in Admitted \cup {"ended"} : stage' = [stage EXCEPT ![q] = to]
    BY SMTT(30) DEF Admitted
  <2>2. stage \in [Request -> Admitted \cup {"new", "ended"}]
    OBVIOUS
  <2>q. QED
    BY ONLY <2>1, <2>2
<1>2. outcome' \in [Request -> {"none", "complete", "error", "exited", "gone"}]
  OBVIOUS
<1>3. inflight' \in Nat
  <2>1. \/ inflight' \in {inflight, inflight + 1, 0}
        \/ inflight > 0 /\ inflight' = inflight - 1
    OBVIOUS
  <2>2. inflight \in Nat
    OBVIOUS
  <2>q. QED
    BY ONLY <2>1, <2>2
<1>0. quarantined' \in BOOLEAN
  <2>1. quarantined' = quarantined \/ quarantined' = TRUE
    OBVIOUS
  <2>q. QED
    BY <2>1, Zenon
<1>4. workdir' \in [Request -> BOOLEAN] /\ stopEvent' \in [Request -> BOOLEAN]
  OBVIOUS
<1>5. reaper' \in [Request -> BOOLEAN]
  OBVIOUS
<1>6. producer' \in [Request -> {"none", "queues", "generates", "finishes", "fails", "exited"}]
  <2>1. \/ producer' = producer
        \/ \E to \in {"queues", "generates", "finishes", "fails", "exited"} :
             producer' = [producer EXCEPT ![q] = to]
    BY SMTT(30)
  <2>2. producer \in [Request -> {"none", "queues", "generates", "finishes", "fails", "exited"}]
    OBVIOUS
  <2>q. QED
    BY ONLY <2>1, <2>2
<1>7. chunks' \in [Request -> 0 .. MaxChunks]
  <2>1. \/ chunks' = chunks
        \/ chunks[q] < MaxChunks /\ chunks' = [chunks EXCEPT ![q] = chunks[q] + 1]
    OBVIOUS
  <2>2. chunks \in [Request -> 0 .. MaxChunks] /\ MaxChunks \in Nat
    BY VoxAssumption
  <2>q. QED
    BY ONLY <2>1, <2>2
<1>8. output' \in [Request -> Seq({"audio", "done", "error"})]
  <2> DEFINE Items == {"audio", "done", "error"}
  <2>1. \/ output' = output
        \/ output[q] # <<>> /\ output' = [output EXCEPT ![q] = Tail(@)]
        \/ \E item \in Items : output' = [output EXCEPT ![q] = Append(@, item)]
    OBVIOUS
  <2>2. output \in [Request -> Seq(Items)]
    OBVIOUS
  <2> HIDE DEF Items
  <2>3. \A s \in Seq(Items) : s # <<>> => Tail(s) \in Seq(Items)
    BY ONLY TRUE
  <2>4. \A s \in Seq(Items), item \in Items : Append(s, item) \in Seq(Items)
    BY ONLY TRUE
  <2>q. QED
    BY ONLY <2>1, <2>2, <2>3, <2>4, Zenon DEF Items
<1>q. QED
  BY <1>0, <1>1, <1>2, <1>3, <1>4, <1>5, <1>6, <1>7, <1>8

(* One generation at a time: who acquires the lock finds it free, and the   *)
(* other steps of a thread do not take it.                                  *)
LEMMA OneGenerationStep == VoxTypeOK /\ OneGeneration /\ [VoxNext]_voxVars => OneGeneration'
<1> SUFFICES ASSUME VoxTypeOK, OneGeneration, [VoxNext]_voxVars PROVE OneGeneration'
  OBVIOUS
<1> USE DEF OneGeneration, HoldsLock
<1>1. CASE producer' = producer
  BY <1>1
<1>2. ASSUME NEW q \in Request, NEW to, producer' = [producer EXCEPT ![q] = to],
             to \in {"generates", "finishes"} => HoldsLock(q) \/ ~\E r \in Request : HoldsLock(r)
      PROVE  OneGeneration'
  BY <1>2 DEF VoxTypeOK
<1>3. \/ producer' = producer
      \/ \E q \in Request :
           \/ \E to \in {"queues", "fails", "exited"} : producer' = [producer EXCEPT ![q] = to]
           \/ HoldsLock(q) /\ producer' = [producer EXCEPT ![q] = "finishes"]
           \/ /\ ~\E r \in Request : HoldsLock(r)
              /\ producer' = [producer EXCEPT ![q] = "generates"]
  BY DEF VoxNext, voxVars, thread, service, Moves, ServiceStep, ThreadStep,
        IteratorStep, Admit, RefuseQuarantined, ReadBody, Release, Handle, SaveReference,
        BeginStream, StartFails, TakeItem, Delivered, FindEmpty, LookAtProducer, Disconnect,
        CloseJoined, CloseExpires, Reap, AcquireLock, ProduceChunk, ProduceDone, SeesStop,
        GenerationFails, ReportFailure, Finish
<1>q. QED
  BY <1>1, <1>2, <1>3

(* The directory outlives the thread.                                       *)
LEMMA ThreadsFindFilesStep ==
  VoxTypeOK /\ ThreadsFindFiles /\ [VoxNext]_voxVars => ThreadsFindFiles'
<1> SUFFICES ASSUME VoxTypeOK, ThreadsFindFiles, [VoxNext]_voxVars PROVE ThreadsFindFiles'
  OBVIOUS
<1> USE VoxAssumption DEF VoxTypeOK, ThreadsFindFiles, Goto, EndStream, thread, service, Moves, Puts
<1>0. CASE UNCHANGED voxVars
  BY <1>0 DEF voxVars
<1>1. ASSUME NEW q \in Request,
             Admit(q) \/ RefuseQuarantined(q) \/ ReadBody(q) \/ Release(q)
      PROVE ThreadsFindFiles'
  BY <1>1 DEF Admit, RefuseQuarantined, ReadBody, Release
<1>2. ASSUME NEW q \in Request, Handle(q) \/ SaveReference(q)
      PROVE ThreadsFindFiles'
  BY <1>2 DEF Handle, SaveReference
<1>3. ASSUME NEW q \in Request, BeginStream(q) PROVE ThreadsFindFiles'
  BY <1>3, SMTT(30) DEF BeginStream
<1>7. ASSUME NEW q \in Request, StartFails(q) PROVE ThreadsFindFiles'
  BY <1>7 DEF StartFails
<1>4. ASSUME NEW q \in Request,
             \/ TakeItem(q) \/ Delivered(q) \/ FindEmpty(q) \/ LookAtProducer(q)
             \/ Disconnect(q)
      PROVE ThreadsFindFiles'
  BY <1>4 DEF TakeItem, Delivered, FindEmpty, LookAtProducer, Disconnect
<1>5. ASSUME NEW q \in Request, CloseJoined(q) \/ CloseExpires(q) \/ Reap(q)
      PROVE ThreadsFindFiles'
  BY <1>5 DEF CloseJoined, CloseExpires, Reap
<1>6. ASSUME NEW q \in Request, ThreadStep(q) \/ IteratorStep(q) \/ GenerationFails(q)
      PROVE  ThreadsFindFiles'
  BY <1>6 DEF ThreadStep, IteratorStep, AcquireLock, ProduceChunk, ProduceDone, SeesStop,
              GenerationFails, ReportFailure, Finish
<1>q. QED
  BY <1>0, <1>1, <1>2, <1>3, <1>4, <1>5, <1>6, <1>7 DEF VoxNext, ServiceStep

(* The cap counts: a request enters or leaves the counted stages only in    *)
(* Admit and Release.                                                       *)
LEMMA VoxCountedStep == VoxTypeOK /\ VoxCounted /\ [VoxNext]_voxVars => VoxCounted'
<1> SUFFICES ASSUME VoxTypeOK, VoxCounted, [VoxNext]_voxVars PROVE VoxCounted'
  OBVIOUS
<1> DEFINE Stages == Admitted \cup {"new", "ended"}
<1>1. CASE stage' = stage /\ inflight' = inflight
  BY <1>1 DEF VoxCounted
<1>2. ASSUME NEW q \in Request, NEW to \in Stages, stage' = [stage EXCEPT ![q] = to],
             \/ (stage[q] \in Admitted <=> to \in Admitted) /\ inflight' = inflight
             \/ /\ stage[q] \notin Admitted /\ to \in Admitted
                /\ inflight < MaxInflight /\ inflight' = inflight + 1
             \/ /\ stage[q] \in Admitted /\ to \notin Admitted
                /\ inflight' = IF inflight > 0 THEN inflight - 1 ELSE 0
      PROVE  VoxCounted'
  <2>1. stage \in [Request -> Stages] /\ inflight \in Nat /\ inflight' \in Nat
    BY <1>2 DEF VoxTypeOK
  <2> DEFINE S == {r \in Request : stage[r] \in Admitted}
             T == {r \in Request : stage'[r] \in Admitted}
  <2>2. IsFiniteSet(S) /\ inflight = Cardinality(S)
    BY DEF VoxCounted
  <2>3. IsFiniteSet(T) /\ inflight' = Cardinality(T)
    <3>1. \/ T = S /\ inflight' = inflight
          \/ T = S \cup {q} /\ q \notin S /\ inflight' = inflight + 1
          \/ T = S \ {q} /\ q \in S /\ inflight' = IF inflight > 0 THEN inflight - 1 ELSE 0
      <4> HIDE DEF Stages
      <4>1. \A r \in Request : stage'[r] = IF r = q THEN to ELSE stage[r]
        BY <1>2, <2>1
      <4>2. CASE (stage[q] \in Admitted <=> to \in Admitted) /\ inflight' = inflight
        BY <4>1, <4>2
      <4>3. CASE stage[q] \notin Admitted /\ to \in Admitted /\ inflight' = inflight + 1
        BY <4>1, <4>3
      <4>4. CASE /\ stage[q] \in Admitted /\ to \notin Admitted
                 /\ inflight' = IF inflight > 0 THEN inflight - 1 ELSE 0
        BY <4>1, <4>4
      <4>q. QED
        BY <1>2, <4>2, <4>3, <4>4
    <3> HIDE DEF S, T
    <3>q. QED
      BY <3>1, <2>1, <2>2, CountFollows
  <2>4. inflight' <= MaxInflight
    BY <1>2, <2>1, VoxAssumption DEF VoxCounted
  <2>q. QED
    BY <1>2, <2>3, <2>4, Zenon DEF VoxCounted
<1>3. \/ stage' = stage /\ inflight' = inflight
      \/ \E q \in Request, to \in Stages :
           /\ stage' = [stage EXCEPT ![q] = to]
           /\ \/ (stage[q] \in Admitted <=> to \in Admitted) /\ inflight' = inflight
              \/ /\ stage[q] \notin Admitted /\ to \in Admitted
                 /\ inflight < MaxInflight /\ inflight' = inflight + 1
              \/ /\ stage[q] \in Admitted /\ to \notin Admitted
                 /\ inflight' = IF inflight > 0 THEN inflight - 1 ELSE 0
  <2> USE DEF Goto, EndStream, service, Admitted
  <2>0. CASE UNCHANGED voxVars
    BY <2>0 DEF voxVars
  <2>1. ASSUME NEW q \in Request,
               ThreadStep(q) \/ IteratorStep(q) \/ GenerationFails(q) \/ Reap(q)
        PROVE stage' = stage /\ inflight' = inflight
    BY <2>1 DEF ThreadStep, IteratorStep, AcquireLock, ProduceChunk, ProduceDone, SeesStop,
                GenerationFails, ReportFailure, Finish, Reap
  <2>2. ASSUME NEW q \in Request, Admit(q)
        PROVE  /\ stage' = [stage EXCEPT ![q] = "reads"] /\ stage[q] = "new"
               /\ inflight < MaxInflight /\ inflight' = inflight + 1
    BY <2>2 DEF Admit
  <2>3. ASSUME NEW q \in Request, Release(q)
        PROVE  /\ stage' = [stage EXCEPT ![q] = "ended"] /\ stage[q] = "leaves"
               /\ inflight' = IF inflight > 0 THEN inflight - 1 ELSE 0
    BY <2>3 DEF Release
  <2>4. ASSUME NEW q \in Request, RefuseQuarantined(q)
        PROVE  /\ stage' = [stage EXCEPT ![q] = "ended"] /\ stage[q] = "new"
               /\ inflight' = inflight
    BY <2>4 DEF RefuseQuarantined
  <2>5. ASSUME NEW q \in Request,
               \/ ReadBody(q) \/ Handle(q) \/ SaveReference(q) \/ BeginStream(q) \/ StartFails(q)
               \/ TakeItem(q) \/ Delivered(q) \/ FindEmpty(q) \/ LookAtProducer(q) \/ Disconnect(q)
               \/ CloseJoined(q) \/ CloseExpires(q)
        PROVE  /\ inflight' = inflight
               /\ \/ stage' = stage
                  \/ \E to \in Admitted : stage' = [stage EXCEPT ![q] = to] /\ stage[q] \in Admitted
    BY <2>5 DEF ReadBody, Handle, SaveReference, BeginStream, StartFails, TakeItem, Delivered, FindEmpty,
                LookAtProducer, Disconnect, CloseJoined, CloseExpires
  <2>q. QED
    BY <2>0, <2>1, <2>2, <2>3, <2>4, <2>5 DEF VoxNext, ServiceStep
<1> HIDE DEF Stages
<1>q. QED
  BY <1>1, <1>2, <1>3

-----------------------------------------------------------------------------

SoulxCounted ==
  /\ IsFiniteSet({c \in Caller : place[c] \in Inside})
  /\ places = Cardinality({c \in Caller : place[c] \in Inside})
  /\ places <= AvatarCap

(* A request has no process before it streams and has its directory until   *)
(* it closes; a process generates only after the parent has read "ready",   *)
(* so that the finalizer reaches every helper by the group; and what runs   *)
(* has the lock and the directory.  A helper works on a segment yet to come. *)
ProcessesAreHeld ==
  \A c \in Caller :
    /\ place[c] \in {"new", "reads", "handles", "saves", "responds", "locks"} =>
         child[c] = "none" /\ ~helper[c]
    /\ place[c] \in {"saves", "responds", "locks"} => uploads[c]
    /\ startEvent[c] => isolated[c]
    /\ child[c] = "generates" => startEvent[c]
    /\ helper[c] => isolated[c] /\ segments[c] < MaxSegments
    /\ helper[c] \/ child[c] \notin {"none", "exited"} => gpuLock = c /\ uploads[c]

SoulxIInv == SoulxTypeOK /\ SoulxCounted /\ ProcessesAreHeld

LEMMA SoulxStarts == SoulxInit => SoulxIInv
<1> SUFFICES ASSUME SoulxInit PROVE SoulxIInv
  OBVIOUS
<1>1. SoulxTypeOK
  <2>1. pipe \in [Caller -> Seq({"ready", "segment", "done", "error"})]
    BY DEF SoulxInit
  <2>2. segments \in [Caller -> 0 .. MaxSegments] /\ places \in Nat
    BY SoulxAssumption DEF SoulxInit
  <2>q. QED
    BY <2>1, <2>2, Zenon DEF SoulxInit, SoulxTypeOK, Inside
<1>2. {c \in Caller : place[c] \in Inside} = {}
  BY DEF SoulxInit, Inside
<1>3. SoulxCounted
  <2>1. 0 <= AvatarCap
    BY SoulxAssumption
  <2>q. QED
    BY <1>2, <2>1, FS_EmptySet, Zenon DEF SoulxCounted, SoulxInit
<1>4. ProcessesAreHeld
  BY DEF ProcessesAreHeld, SoulxInit
<1>q. QED
  BY <1>1, <1>3, <1>4 DEF SoulxIInv

LEMMA SoulxTypeStep ==
  SoulxTypeOK /\ ProcessesAreHeld /\ [SoulxNext]_soulxVars => SoulxTypeOK'
<1> SUFFICES ASSUME SoulxTypeOK, ProcessesAreHeld, SoulxNext PROVE SoulxTypeOK'
  BY DEF SoulxTypeOK, soulxVars
<1> PICK c \in Caller :
      \/ AdmitCaller(c) \/ RefuseCaller(c) \/ StartChild(c) \/ SegmentDelivered(c)
      \/ CallerDisconnects(c) \/ CallerStep(c) \/ ChildStep(c)
  BY DEF SoulxNext
<1> USE DEF SoulxTypeOK, Enters, tree, guards, Says, CallerStep, ChildStep,
        AdmitCaller, RefuseCaller, ReadForm, ReleaseCaller, StageUploads, SaveUploads,
        BeginResponse, StartChild, Receive, SegmentDelivered, ChildIsGone, GenerationExpires,
        CallerDisconnects, CloseStopped, CloseUnsafe, ChildReady, ChildStarted, StartHelper,
        SendSegment, ChildEnds, ChildDies
<1>1. place' \in [Caller -> Inside \cup {"new", "ended"}]
  <2>1. \/ place' = place
        \/ \E to \in Inside \cup {"ended"} : place' = [place EXCEPT ![c] = to]
    BY SMTT(30) DEF Inside
  <2>2. place \in [Caller -> Inside \cup {"new", "ended"}]
    OBVIOUS
  <2>q. QED
    BY ONLY <2>1, <2>2
<1>2. places' \in Nat
  <2>1. \/ places' \in {places, places + 1, 0}
        \/ places > 0 /\ places' = places - 1
    OBVIOUS
  <2>2. places \in Nat
    OBVIOUS
  <2>q. QED
    BY ONLY <2>1, <2>2
<1>3. unsafe' \in BOOLEAN
  <2>1. unsafe' = unsafe \/ unsafe' = TRUE
    OBVIOUS
  <2>q. QED
    BY <2>1, Zenon
<1>4. uploads' \in [Caller -> BOOLEAN]
  OBVIOUS
<1>5. gpuLock' \in Caller \cup {NoCaller}
  OBVIOUS
<1>6. child' \in [Caller -> {"none", "starts", "ready", "generates", "exited"}]
  OBVIOUS
<1>7. helper' \in [Caller -> BOOLEAN]
  <2>1. \/ helper' = helper
        \/ helper' = [helper EXCEPT ![c] = TRUE]
        \/ helper' = [helper EXCEPT ![c] = FALSE]
        \/ helper' = [helper EXCEPT ![c] = @ /\ ~isolated[c]]
    OBVIOUS
  <2>q. QED
    BY <2>1, Zenon
<1>8. isolated' \in [Caller -> BOOLEAN] /\ startEvent' \in [Caller -> BOOLEAN]
  <2>1. \/ isolated' = isolated /\ startEvent' = startEvent
        \/ /\ isolated' = [isolated EXCEPT ![c] = @ \/ Head(pipe[c]) = "ready"]
           /\ startEvent' = [startEvent EXCEPT ![c] = @ \/ Head(pipe[c]) = "ready"]
    OBVIOUS
  <2>q. QED
    BY <2>1, Zenon
<1>9. segments' \in [Caller -> 0 .. MaxSegments]
  <2>1. \/ segments' = segments
        \/ helper[c] /\ segments' = [segments EXCEPT ![c] = segments[c] + 1]
    OBVIOUS
  <2>2. helper[c] => segments[c] < MaxSegments
    BY DEF ProcessesAreHeld
  <2>3. segments \in [Caller -> 0 .. MaxSegments] /\ MaxSegments \in Nat /\ c \in Caller
    BY SoulxAssumption
  <2>q. QED
    BY ONLY <2>1, <2>2, <2>3
<1>10. pipe' \in [Caller -> Seq({"ready", "segment", "done", "error"})]
  <2> DEFINE Messages == {"ready", "segment", "done", "error"}
  <2>1. \/ pipe' = pipe
        \/ pipe[c] # <<>> /\ pipe' = [pipe EXCEPT ![c] = Tail(@)]
        \/ \E message \in Messages : pipe' = [pipe EXCEPT ![c] = Append(@, message)]
    OBVIOUS
  <2>2. pipe \in [Caller -> Seq(Messages)]
    OBVIOUS
  <2> HIDE DEF Messages
  <2>3. \A s \in Seq(Messages) : s # <<>> => Tail(s) \in Seq(Messages)
    BY ONLY TRUE
  <2>4. \A s \in Seq(Messages), m \in Messages : Append(s, m) \in Seq(Messages)
    BY ONLY TRUE
  <2>q. QED
    BY ONLY <2>1, <2>2, <2>3, <2>4, Zenon DEF Messages
<1>q. QED
  BY <1>1, <1>2, <1>3, <1>4, <1>5, <1>6, <1>7, <1>8, <1>9, <1>10

(* The finalizer stops what it releases.                                    *)
LEMMA ProcessesAreHeldStep ==
  SoulxTypeOK /\ ProcessesAreHeld /\ [SoulxNext]_soulxVars => ProcessesAreHeld'
<1> SUFFICES ASSUME SoulxTypeOK, ProcessesAreHeld, [SoulxNext]_soulxVars PROVE ProcessesAreHeld'
  OBVIOUS
<1> USE SoulxAssumption DEF SoulxTypeOK, ProcessesAreHeld, Enters, tree, guards
<1>0. CASE UNCHANGED soulxVars
  BY <1>0 DEF soulxVars
<1>1. ASSUME NEW c \in Caller,
             AdmitCaller(c) \/ RefuseCaller(c) \/ ReadForm(c) \/ ReleaseCaller(c)
      PROVE  ProcessesAreHeld'
  BY <1>1 DEF AdmitCaller, RefuseCaller, ReadForm, ReleaseCaller
<1>2. ASSUME NEW c \in Caller, StageUploads(c) \/ SaveUploads(c) \/ BeginResponse(c)
      PROVE  ProcessesAreHeld'
  BY <1>2 DEF StageUploads, SaveUploads, BeginResponse
<1>3. ASSUME NEW c \in Caller, StartChild(c) PROVE ProcessesAreHeld'
  BY <1>3 DEF StartChild
<1>4. ASSUME NEW c \in Caller, Receive(c) \/ SegmentDelivered(c) PROVE ProcessesAreHeld'
  BY <1>4 DEF Receive, SegmentDelivered
<1>5. ASSUME NEW c \in Caller,
             ChildIsGone(c) \/ GenerationExpires(c) \/ CallerDisconnects(c) \/ CloseUnsafe(c)
      PROVE  ProcessesAreHeld'
  BY <1>5 DEF ChildIsGone, GenerationExpires, CallerDisconnects, CloseUnsafe
<1>6. ASSUME NEW c \in Caller, CloseStopped(c) PROVE ProcessesAreHeld'
  BY <1>6 DEF CloseStopped
<1>7. ASSUME NEW c \in Caller, ChildStep(c) PROVE ProcessesAreHeld'
  BY <1>7 DEF ChildStep, ChildReady, ChildStarted, StartHelper, SendSegment, ChildEnds, ChildDies
<1>q. QED
  BY <1>0, <1>1, <1>2, <1>3, <1>4, <1>5, <1>6, <1>7 DEF SoulxNext, CallerStep

LEMMA SoulxCountedStep == SoulxTypeOK /\ SoulxCounted /\ [SoulxNext]_soulxVars => SoulxCounted'
<1> SUFFICES ASSUME SoulxTypeOK, SoulxCounted, [SoulxNext]_soulxVars PROVE SoulxCounted'
  OBVIOUS
<1> DEFINE Stops == Inside \cup {"new", "ended"}
<1>1. CASE place' = place /\ places' = places
  BY <1>1 DEF SoulxCounted
<1>2. ASSUME NEW c \in Caller, NEW to \in Stops, place' = [place EXCEPT ![c] = to],
             \/ (place[c] \in Inside <=> to \in Inside) /\ places' = places
             \/ /\ place[c] \notin Inside /\ to \in Inside
                /\ places < AvatarCap /\ places' = places + 1
             \/ /\ place[c] \in Inside /\ to \notin Inside
                /\ places' = IF places > 0 THEN places - 1 ELSE 0
      PROVE  SoulxCounted'
  <2>1. place \in [Caller -> Stops] /\ places \in Nat /\ places' \in Nat
    BY <1>2 DEF SoulxTypeOK
  <2> DEFINE S == {r \in Caller : place[r] \in Inside}
             T == {r \in Caller : place'[r] \in Inside}
  <2>2. IsFiniteSet(S) /\ places = Cardinality(S)
    BY DEF SoulxCounted
  <2>3. IsFiniteSet(T) /\ places' = Cardinality(T)
    <3>1. \/ T = S /\ places' = places
          \/ T = S \cup {c} /\ c \notin S /\ places' = places + 1
          \/ T = S \ {c} /\ c \in S /\ places' = IF places > 0 THEN places - 1 ELSE 0
      <4> HIDE DEF Stops
      <4>1. \A r \in Caller : place'[r] = IF r = c THEN to ELSE place[r]
        BY <1>2, <2>1
      <4>2. CASE (place[c] \in Inside <=> to \in Inside) /\ places' = places
        BY <4>1, <4>2
      <4>3. CASE place[c] \notin Inside /\ to \in Inside /\ places' = places + 1
        BY <4>1, <4>3
      <4>4. CASE /\ place[c] \in Inside /\ to \notin Inside
                 /\ places' = IF places > 0 THEN places - 1 ELSE 0
        BY <4>1, <4>4
      <4>q. QED
        BY <1>2, <4>2, <4>3, <4>4
    <3> HIDE DEF S, T
    <3>q. QED
      BY <3>1, <2>1, <2>2, CountFollows
  <2>4. places' <= AvatarCap
    BY <1>2, <2>1, SoulxAssumption DEF SoulxCounted
  <2>q. QED
    BY <1>2, <2>3, <2>4, Zenon DEF SoulxCounted
<1>3. \/ place' = place /\ places' = places
      \/ \E c \in Caller, to \in Stops :
           /\ place' = [place EXCEPT ![c] = to]
           /\ \/ (place[c] \in Inside <=> to \in Inside) /\ places' = places
              \/ /\ place[c] \notin Inside /\ to \in Inside
                 /\ places < AvatarCap /\ places' = places + 1
              \/ /\ place[c] \in Inside /\ to \notin Inside
                 /\ places' = IF places > 0 THEN places - 1 ELSE 0
  <2> USE DEF Enters, guards, Inside
  <2>0. CASE UNCHANGED soulxVars
    BY <2>0 DEF soulxVars
  <2>1. ASSUME NEW c \in Caller, ChildStep(c)
        PROVE  place' = place /\ places' = places
    BY <2>1 DEF ChildStep, ChildReady, ChildStarted, StartHelper, SendSegment, ChildEnds, ChildDies
  <2>2. ASSUME NEW c \in Caller, AdmitCaller(c)
        PROVE  /\ place' = [place EXCEPT ![c] = "reads"] /\ place[c] = "new"
               /\ places < AvatarCap /\ places' = places + 1
    BY <2>2 DEF AdmitCaller
  <2>3. ASSUME NEW c \in Caller, ReleaseCaller(c)
        PROVE  /\ place' = [place EXCEPT ![c] = "ended"] /\ place[c] = "leaves"
               /\ places' = IF places > 0 THEN places - 1 ELSE 0
    BY <2>3 DEF ReleaseCaller
  <2>4. ASSUME NEW c \in Caller, RefuseCaller(c)
        PROVE  /\ place' = [place EXCEPT ![c] = "ended"] /\ place[c] = "new"
               /\ places' = places
    BY <2>4 DEF RefuseCaller
  <2>5. ASSUME NEW c \in Caller,
               \/ ReadForm(c) \/ StageUploads(c) \/ SaveUploads(c) \/ BeginResponse(c)
               \/ StartChild(c) \/ Receive(c) \/ SegmentDelivered(c) \/ ChildIsGone(c)
               \/ GenerationExpires(c) \/ CallerDisconnects(c) \/ CloseStopped(c) \/ CloseUnsafe(c)
        PROVE  /\ places' = places
               /\ \/ place' = place
                  \/ \E to \in Inside : place' = [place EXCEPT ![c] = to] /\ place[c] \in Inside
    BY <2>5 DEF ReadForm, StageUploads, SaveUploads, BeginResponse, StartChild, Receive,
                SegmentDelivered, ChildIsGone, GenerationExpires, CallerDisconnects,
                CloseStopped, CloseUnsafe
  <2>q. QED
    BY <2>0, <2>1, <2>2, <2>3, <2>4, <2>5 DEF SoulxNext, CallerStep
<1> HIDE DEF Stops
<1>q. QED
  BY <1>1, <1>2, <1>3

(* What both model workers promise while they serve: each keeps its cap,    *)
(* its lock and the files of whatever still runs.                           *)
THEOREM ModelWorkersAreSafe == WorkersSpec => []ModelServicesAreSafe
<1>1. WorkersInit => VoxIInv /\ SoulxIInv
  BY VoxStarts, SoulxStarts DEF WorkersInit
<1>2. /\ VoxIInv /\ SoulxIInv
      /\ [VoiceMoves \/ AvatarMoves]_<<part, voxVars, soulxVars>>
      => VoxIInv' /\ SoulxIInv'
  <2> SUFFICES ASSUME VoxIInv, SoulxIInv,
                      [VoiceMoves \/ AvatarMoves]_<<part, voxVars, soulxVars>>
               PROVE  VoxIInv' /\ SoulxIInv'
    OBVIOUS
  <2>1. [VoxNext]_voxVars /\ [SoulxNext]_soulxVars
    BY DEF VoiceMoves, AvatarMoves
  <2>2. VoxIInv'
    BY <2>1, VoxTypeStep, VoxCountedStep, OneGenerationStep, ThreadsFindFilesStep DEF VoxIInv
  <2>3. SoulxIInv'
    BY <2>1, SoulxTypeStep, SoulxCountedStep, ProcessesAreHeldStep DEF SoulxIInv
  <2>q. QED
    BY <2>2, <2>3
<1>3. VoxIInv /\ SoulxIInv => ModelServicesAreSafe
  BY DEF VoxIInv, SoulxIInv, ModelServicesAreSafe, WorkerIsSafe, CleanupIsSafe, VoxCounted,
         SoulxCounted, OneGeneration, ThreadsFindFiles, ProcessesAreHeld
<1>q. QED
  BY <1>1, <1>2, <1>3, PTL DEF WorkersSpec

-----------------------------------------------------------------------------
(* Prompt evolution and its scheduler: the service with its scheduler is a *)
(* PromptEvolution, EvolutionInv is inductive for the latter, and          *)
(* SchedulerInv is inductive next to it.                                   *)

USE EvolutionAssumption, SchedulerAssumption, NoneAssumption

LEMMA InitEvolution == Init => EvolutionInv
<1> SUFFICES ASSUME Init PROVE EvolutionInv
  OBVIOUS
<1> USE DEF Init
<1>1. TypeOK
  BY DEF TypeOK, Version, Prompt, CandidateRow, EvaluationCall, NoPrompt
<1>2. Written = {1} /\ Active = {1}
  BY DEF Written, Active, NoPrompt, Version
<1>3. LivePrompt
  BY <1>2 DEF LivePrompt, IsLatest
<1>4. PromotionHasEvidence
  BY <1>2 DEF PromotionHasEvidence
<1>5. VerdictHasReport /\ EvaluationHasCandidate
  BY DEF VerdictHasReport, EvaluationHasCandidate
<1>6. PromotionIsCurrent
  BY DEF PromotionIsCurrent
<1>7. NoGaps
  BY <1>2 DEF NoGaps
<1> QED
  BY <1>1, <1>3, <1>4, <1>5, <1>6, <1>7 DEF EvolutionInv

(* One lemma for each action of evolution.py: it keeps EvolutionInv.        *)
LEMMA ProposeKeeps ==
  ASSUME EvolutionInv, NEW c \in Candidate, Propose(c)
  PROVE  EvolutionInv'
<1> USE DEF EvolutionInv, Propose
<1>0. PICK v \in Active :
        /\ IsLatest(v, Active)
        /\ candidates' = [candidates EXCEPT ![c] =
             [status |-> "proposed", parent |-> v, report |-> None]]
  OBVIOUS
<1>1. Written' = Written /\ Active' = Active /\ v \in Written
  BY DEF Written, Active
<1>2. TypeOK'
  BY <1>0, <1>1 DEF TypeOK, Written, CandidateRow
<1>3. LivePrompt'
  BY <1>1 DEF LivePrompt, IsLatest
<1>4. /\ candidates'[c].parent = v
      /\ candidates'[c].status = "proposed"
      /\ \A d \in Candidate \ {c} : candidates'[d] = candidates[d]
  BY <1>0 DEF TypeOK, CandidateRow
<1>5. PromotionHasEvidence'
  BY <1>1 DEF PromotionHasEvidence, Passed
<1>6. VerdictHasReport'
  BY <1>1, <1>4 DEF VerdictHasReport, Passed
<1>7. EvaluationHasCandidate'
  BY <1>4 DEF EvaluationHasCandidate, TypeOK, EvaluationCall
<1>8. PromotionIsCurrent'
  BY <1>1, <1>4 DEF PromotionIsCurrent, IsLatest
<1>9. NoGaps'
  BY <1>1 DEF NoGaps
<1> QED
  BY <1>2, <1>3, <1>5, <1>6, <1>7, <1>8, <1>9

LEMMA BeginEvaluateKeeps ==
  ASSUME EvolutionInv, NEW e \in Evaluation, NEW c \in Candidate, BeginEvaluate(e, c)
  PROVE  EvolutionInv'
<1> USE DEF EvolutionInv, BeginEvaluate
<1>1. Written' = Written /\ Active' = Active
  BY DEF Written, Active
<1>2. TypeOK'
  BY DEF TypeOK, EvaluationCall
<1>3. /\ evaluation'[e] = [at |-> "awaiting", of |-> c]
      /\ \A f \in Evaluation \ {e} : evaluation'[f] = evaluation[f]
      /\ \A f \in Evaluation, d \in Candidate : Passed(f, d) => Passed(f, d)'
  BY DEF TypeOK, Passed
<1>4. LivePrompt' /\ NoGaps'
  BY <1>1 DEF LivePrompt, IsLatest, NoGaps
<1>5. PromotionHasEvidence'
  BY <1>1, <1>3 DEF PromotionHasEvidence, TypeOK, Prompt, Written, Passed
<1>6. VerdictHasReport'
  BY <1>1, <1>3 DEF VerdictHasReport, TypeOK, CandidateRow
<1>7. EvaluationHasCandidate'
  BY <1>3 DEF EvaluationHasCandidate
<1>8. PromotionIsCurrent'
  BY <1>1 DEF PromotionIsCurrent, IsLatest
<1> QED
  BY <1>2, <1>4, <1>5, <1>6, <1>7, <1>8

LEMMA EndEvaluateKeeps ==
  ASSUME EvolutionInv, NEW e \in Evaluation, NEW ruling \in {"passed", "rejected"},
         EndEvaluate(e, ruling)
  PROVE  EvolutionInv'
<1> USE DEF EvolutionInv, EndEvaluate
<1> DEFINE c == evaluation[e].of
<1>1. Written' = Written /\ Active' = Active
  BY DEF Written, Active
<1>2. c \in Candidate /\ candidates[c].status # "absent"
  BY DEF EvaluationHasCandidate, TypeOK, EvaluationCall
<1>3. TypeOK'
  <2>1. candidates[c] \in CandidateRow
    BY <1>2 DEF TypeOK
  <2>2. [candidates[c] EXCEPT !.status = ruling, !.report = e] \in CandidateRow
    BY <2>1 DEF CandidateRow
  <2>3. candidates' \in [Candidate -> CandidateRow]
    BY <1>2, <2>2 DEF TypeOK
  <2>4. evaluation' \in [Evaluation -> EvaluationCall]
    BY DEF TypeOK, EvaluationCall
  <2> QED
    BY <2>3, <2>4 DEF TypeOK
<1>4. /\ evaluation'[e].at = ruling /\ evaluation'[e].of = c
      /\ \A f \in Evaluation \ {e} : evaluation'[f] = evaluation[f]
      /\ \A f \in Evaluation, d \in Candidate : Passed(f, d) => Passed(f, d)'
  <2>1. evaluation[e] \in EvaluationCall
    BY DEF TypeOK
  <2>2. evaluation' = [evaluation EXCEPT ![e] = [evaluation[e] EXCEPT !.at = ruling]]
    OBVIOUS
  <2>3. evaluation'[e] = [evaluation[e] EXCEPT !.at = ruling]
    BY <2>2 DEF TypeOK
  <2>4. \A f \in Evaluation \ {e} : evaluation'[f] = evaluation[f]
    BY <2>2 DEF TypeOK
  <2>5. evaluation'[e].at = ruling /\ evaluation'[e].of = c
    BY <2>1, <2>3 DEF EvaluationCall
  <2> QED
    BY <2>4, <2>5 DEF Passed
<1>5. /\ candidates'[c].status = ruling
      /\ candidates'[c].report = e
      /\ candidates'[c].parent = candidates[c].parent
      /\ \A d \in Candidate \ {c} : candidates'[d] = candidates[d]
  BY <1>2 DEF TypeOK, CandidateRow
<1>6. LivePrompt' /\ NoGaps'
  BY <1>1 DEF LivePrompt, IsLatest, NoGaps
<1>7. PromotionHasEvidence'
  BY <1>1, <1>4 DEF PromotionHasEvidence, TypeOK, Prompt, Written, Passed
<1>8. VerdictHasReport'
  BY <1>1, <1>2, <1>4, <1>5 DEF VerdictHasReport, TypeOK, CandidateRow, Passed
<1>9. EvaluationHasCandidate'
  BY <1>2, <1>4, <1>5 DEF EvaluationHasCandidate, TypeOK, EvaluationCall
<1>10. PromotionIsCurrent'
  BY <1>1 DEF PromotionIsCurrent, IsLatest
<1> QED
  BY <1>3, <1>6, <1>7, <1>8, <1>9, <1>10

LEMMA EvaluateRaisesKeeps ==
  ASSUME EvolutionInv, NEW e \in Evaluation, EvaluateRaises(e)
  PROVE  EvolutionInv'
<1> USE DEF EvolutionInv, EvaluateRaises
<1>1. Written' = Written /\ Active' = Active
  BY DEF Written, Active
<1>2. TypeOK'
  BY DEF TypeOK, EvaluationCall
<1>3. /\ evaluation'[e].at = "lost"
      /\ \A f \in Evaluation \ {e} : evaluation'[f] = evaluation[f]
      /\ \A f \in Evaluation, d \in Candidate : Passed(f, d) => Passed(f, d)'
  BY DEF TypeOK, EvaluationCall, Passed
<1>4. LivePrompt' /\ NoGaps'
  BY <1>1 DEF LivePrompt, IsLatest, NoGaps
<1>5. PromotionHasEvidence'
  BY <1>1, <1>3 DEF PromotionHasEvidence, TypeOK, Prompt, Written, Passed
<1>6. VerdictHasReport'
  BY <1>1, <1>3 DEF VerdictHasReport, TypeOK, CandidateRow
<1>7. EvaluationHasCandidate'
  BY <1>3 DEF EvaluationHasCandidate
<1>8. PromotionIsCurrent'
  BY <1>1 DEF PromotionIsCurrent, IsLatest
<1> QED
  BY <1>2, <1>4, <1>5, <1>6, <1>7, <1>8

LEMMA RetireKeeps ==
  ASSUME EvolutionInv, NEW c \in Candidate, NEW version \in Version, Retire(c, version)
  PROVE  EvolutionInv'
<1> USE DEF EvolutionInv, Retire
<1>1. promotion' = [of |-> c, version |-> version,
                    score |-> candidates[c].report, at |-> "retired"]
  BY DEF Promotes
<1>2. candidates[c].report \in Evaluation \cup {None}
  BY DEF TypeOK, CandidateRow
<1>3. \A v \in Version :
        /\ prompts'[v].state =
             IF v \in Active THEN "retired" ELSE prompts[v].state
        /\ prompts'[v].of = prompts[v].of
        /\ prompts'[v].parent = prompts[v].parent
        /\ prompts'[v].score = prompts[v].score
  BY DEF Retired, TypeOK, Prompt
<1>4. Written' = Written /\ Active' = {}
  BY <1>3 DEF Written, Active, TypeOK, Prompt
<1>5. prompts' \in [Version -> Prompt]
  BY DEF Retired, TypeOK, Prompt
<1>6. promotion' \in PromotionCall
  BY <1>1, <1>2 DEF PromotionCall
<1>7. TypeOK'
  BY <1>5, <1>6 DEF TypeOK
<1>8. LivePrompt' /\ NoGaps'
  BY <1>4 DEF LivePrompt, NoGaps
<1>9. PromotionHasEvidence'
  BY <1>3, <1>4 DEF PromotionHasEvidence, Passed, Written
<1>10. VerdictHasReport' /\ EvaluationHasCandidate'
  BY <1>4 DEF VerdictHasReport, EvaluationHasCandidate, Passed
<1>11. promotion' # None
  BY <1>6
<1>12. PromotionIsCurrent'
  BY <1>1, <1>4, <1>11 DEF PromotionIsCurrent, Promotes, IsLatest
<1> QED
  BY <1>7, <1>8, <1>9, <1>10, <1>12

LEMMA InsertKeeps ==
  ASSUME EvolutionInv, Insert
  PROVE  EvolutionInv'
<1> USE DEF EvolutionInv, Insert
<1> DEFINE new == promotion.version
           row == [state |-> "active", of |-> promotion.of,
                   parent |-> candidates[promotion.of].parent,
                   score |-> promotion.score]
<1>1. /\ promotion \in PromotionCall
      /\ candidates[promotion.of].status = "passed"
      /\ candidates[promotion.of].report = promotion.score
      /\ Active = {}
      /\ IsLatest(new - 1, Written)
  BY DEF PromotionIsCurrent, TypeOK
<1>2. /\ new \in Version
      /\ promotion.of \in Candidate
      /\ promotion.score \in Evaluation \cup {None}
  BY <1>1 DEF PromotionCall
<1>3. promotion' = [promotion EXCEPT !.at = "inserted"]
  OBVIOUS
<1>4. /\ promotion' \in PromotionCall
      /\ promotion'.of = promotion.of
      /\ promotion'.version = new
      /\ promotion'.score = promotion.score
      /\ promotion'.at = "inserted"
  BY <1>1, <1>3 DEF PromotionCall
<1>5. candidates[promotion.of].parent \in Written
  BY <1>1, <1>2 DEF VerdictHasReport
<1>6. row \in Prompt
  BY <1>2, <1>5 DEF Prompt, Written
<1>7. /\ prompts' \in [Version -> Prompt]
      /\ prompts'[new] = row
      /\ \A v \in Version \ {new} : prompts'[v] = prompts[v]
  BY <1>2, <1>6 DEF TypeOK
<1>8. Written' = Written \cup {new} /\ Active' = {new}
  BY <1>1, <1>2, <1>7 DEF Written, Active
<1>9. /\ \A v \in Written : v \in Version /\ v <= new - 1
      /\ new - 1 \in Written
  BY <1>1 DEF Written, IsLatest
<1>10. TypeOK'
  BY <1>4, <1>7 DEF TypeOK
<1>11. LivePrompt'
  BY <1>2, <1>8, <1>9 DEF LivePrompt, IsLatest, Version
<1>12. NoGaps'
  BY <1>2, <1>8, <1>9 DEF NoGaps, Version
<1>13. PromotionHasEvidence'
  <2>1. /\ prompts'[new].score # None
        /\ evaluation'[prompts'[new].score].at = "passed"
        /\ evaluation'[prompts'[new].score].of = prompts'[new].of
        /\ prompts'[new].parent \in Written'
        /\ prompts'[new].parent < new
    <3>1. /\ prompts'[new].score = promotion.score
          /\ prompts'[new].of = promotion.of
          /\ prompts'[new].parent = candidates[promotion.of].parent
      BY <1>7
    <3>2. promotion.score # None /\ Passed(promotion.score, promotion.of)
      BY <1>1, <1>2 DEF VerdictHasReport
    <3>3. candidates[promotion.of].parent < new
      BY <1>2, <1>5, <1>9 DEF Version
    <3> QED
      BY <3>1, <3>2, <3>3, <1>5, <1>8 DEF Passed
  <2>2. ASSUME NEW v \in Written \ {1}, v # new
        PROVE  /\ prompts'[v].score # None
               /\ evaluation'[prompts'[v].score].at = "passed"
               /\ evaluation'[prompts'[v].score].of = prompts'[v].of
               /\ prompts'[v].parent \in Written'
               /\ prompts'[v].parent < v
    <3>1. prompts'[v] = prompts[v]
      BY <2>2, <1>7 DEF Written
    <3> QED
      BY <3>1, <1>8 DEF PromotionHasEvidence, Passed
  <2> QED
    BY <2>1, <2>2, <1>8 DEF PromotionHasEvidence, Passed
<1>14. VerdictHasReport' /\ EvaluationHasCandidate'
  BY <1>8 DEF VerdictHasReport, EvaluationHasCandidate, Passed
<1>15. promotion # None /\ promotion' # None
  BY <1>1, <1>4
<1>16. PromotionIsCurrent'
  BY <1>1, <1>4, <1>8, <1>15 DEF PromotionIsCurrent
<1> QED
  BY <1>10, <1>11, <1>12, <1>13, <1>14, <1>16

LEMMA MarkPromotedKeeps ==
  ASSUME EvolutionInv, MarkPromoted
  PROVE  EvolutionInv'
<1> USE DEF EvolutionInv, MarkPromoted
<1> DEFINE c == promotion.of
<1>1. promotion \in PromotionCall /\ c \in Candidate
  BY DEF PromotionIsCurrent, TypeOK, PromotionCall
<1>2. Written' = Written /\ Active' = Active
  BY DEF Written, Active
<1>3. promotion.version \in Active
  BY DEF PromotionIsCurrent
<1>4. /\ candidates'[c].status = "promoted"
      /\ candidates'[c].parent = candidates[c].parent
      /\ candidates[c].status = "passed"
      /\ \A d \in Candidate \ {c} : candidates'[d] = candidates[d]
  BY <1>1 DEF TypeOK, CandidateRow, PromotionIsCurrent
<1>5. TypeOK'
  BY <1>1 DEF TypeOK, CandidateRow
<1>6. LivePrompt' /\ NoGaps'
  BY <1>2, <1>3 DEF LivePrompt, NoGaps, IsLatest
<1>7. PromotionHasEvidence'
  BY <1>2 DEF PromotionHasEvidence, Passed
<1>8. VerdictHasReport'
  BY <1>1, <1>2, <1>4 DEF VerdictHasReport, Passed
<1>9. EvaluationHasCandidate'
  BY <1>4 DEF EvaluationHasCandidate, TypeOK, EvaluationCall
<1>10. PromotionIsCurrent'
  BY DEF PromotionIsCurrent
<1> QED
  BY <1>5, <1>6, <1>7, <1>8, <1>9, <1>10

LEMMA CrashKeeps ==
  ASSUME EvolutionInv, Crash
  PROVE  EvolutionInv'
<1> USE DEF EvolutionInv, Crash
<1>1. Written' = Written /\ Active' = Active
  BY DEF Written, Active
<1>2. /\ \A e \in Evaluation : evaluation'[e].at # "awaiting"
      /\ \A e \in Evaluation, c \in Candidate : Passed(e, c) => Passed(e, c)'
  BY DEF TypeOK, EvaluationCall, Passed
<1>3. evaluation' \in [Evaluation -> EvaluationCall]
  BY DEF TypeOK, EvaluationCall
<1>4. TypeOK'
  BY <1>3 DEF TypeOK
<1>5. LivePrompt' /\ NoGaps'
  BY <1>1 DEF LivePrompt, NoGaps, IsLatest, TypeOK
<1>6. PromotionHasEvidence'
  <2> SUFFICES ASSUME NEW v \in Written \ {1}
               PROVE  Passed(prompts[v].score, prompts[v].of)'
    BY <1>1 DEF PromotionHasEvidence
  <2>1. /\ prompts[v].score \in Evaluation
        /\ Passed(prompts[v].score, prompts[v].of)
    BY DEF PromotionHasEvidence, TypeOK, Prompt, Written
  <2> QED
    BY <2>1 DEF Passed, TypeOK
<1>7. VerdictHasReport'
  BY <1>1, <1>2 DEF VerdictHasReport, TypeOK, CandidateRow
<1>8. EvaluationHasCandidate'
  BY <1>2 DEF EvaluationHasCandidate
<1>9. PromotionIsCurrent'
  BY DEF PromotionIsCurrent
<1> QED
  BY <1>4, <1>5, <1>6, <1>7, <1>8, <1>9

(* A step that leaves the tables, evaluations and promotions alone, and     *)
(* takes the loop from no promotion and gives it to none.                   *)
LEMMA OthersKeep ==
  ASSUME EvolutionInv, UNCHANGED <<evolutionVars, crashes>>,
         loop' \in {"free", "promote", "scheduler"},
         loop' = "promote" <=> loop = "promote"
  PROVE  EvolutionInv'
<1> USE DEF EvolutionInv, evolutionVars
<1>1. Written' = Written /\ Active' = Active
  BY DEF Written, Active
<1>2. TypeOK' /\ LivePrompt' /\ NoGaps'
  BY <1>1 DEF TypeOK, LivePrompt, NoGaps, IsLatest
<1>3. PromotionHasEvidence' /\ VerdictHasReport' /\ EvaluationHasCandidate'
  BY <1>1 DEF PromotionHasEvidence, VerdictHasReport, EvaluationHasCandidate, Passed
<1>4. PromotionIsCurrent'
  BY <1>1 DEF PromotionIsCurrent, IsLatest
<1> QED
  BY <1>2, <1>3, <1>4

LEMMA NextKeepsEvolutionInv == EvolutionInv /\ [Next]_vars => EvolutionInv'
<1> SUFFICES ASSUME EvolutionInv, [Next]_vars
             PROVE  EvolutionInv'
  OBVIOUS
<1>1. CASE EvolutionStep
  BY <1>1, ProposeKeeps, BeginEvaluateKeeps, EndEvaluateKeeps, EvaluateRaisesKeeps,
     RetireKeeps, InsertKeeps, MarkPromotedKeeps DEF EvolutionStep
<1>2. CASE TakeLoop \/ LeaveLoop
  BY <1>2, OthersKeep DEF TakeLoop, LeaveLoop
<1>3. CASE Crash
  BY <1>3, CrashKeeps
<1>4. CASE UNCHANGED vars
  BY <1>4, OthersKeep DEF vars, EvolutionInv, TypeOK
<1> QED
  BY <1>1, <1>2, <1>3, <1>4 DEF Next

(* The inductive invariant of evolution.py over store.py, for any number of *)
(* candidates and evaluations and a crash between any two commits.          *)
THEOREM EvolutionCorrect == Spec => []EvolutionInv
  BY InitEvolution, NextKeepsEvolutionInv, PTL DEF Spec
-----------------------------------------------------------------------------
(* What the scheduler does is a step of PromptEvolution or leaves it alone. *)
LEMMA SchedulerStepsEvolve ==
  ASSUME [SchedulerNext]_allVars
  PROVE  [Next]_vars
<1> USE DEF Next
<1>1. CASE EvolutionStep /\ UNCHANGED schedulerVars
  BY <1>1
<1>2. CASE \E j \in Job : CreateJob(j) \/ ComesDue(j)
  BY <1>2 DEF CreateJob, ComesDue
<1>3. CASE SchedulerStep
  BY <1>3 DEF SchedulerStep, Scan, Submit, SubmitRaises, Move
<1>4. CASE Restart
  BY <1>4 DEF Restart
<1>5. CASE UNCHANGED allVars
  BY <1>5 DEF allVars
<1> QED
  BY <1>1, <1>2, <1>3, <1>4, <1>5 DEF SchedulerNext

(* The service with its scheduler implements PromptEvolution.               *)
THEOREM SchedulerEvolves == SchedulerSpec => Spec
<1>1. SchedulerInit => Init
  BY DEF SchedulerInit
<1>2. [SchedulerNext]_allVars => [Next]_vars
  BY SchedulerStepsEvolve
<1> QED
  BY <1>1, <1>2, PTL DEF SchedulerSpec, Spec

(* Only the latest version is live, and one is unless a crash hit a         *)
(* promotion (evolution.py, promote), next to scans of the scheduler.       *)
THEOREM LivePromptCorrect == SchedulerSpec => []LivePrompt
<1>1. EvolutionInv => LivePrompt
  BY DEF EvolutionInv
<1> QED
  BY <1>1, SchedulerEvolves, EvolutionCorrect, PTL

(* Every promoted version cites an evaluation that passed (evolution.py,    *)
(* promote), however evaluations, promotions and crashes interleave.        *)
THEOREM EvidenceCorrect == SchedulerSpec => []PromotionHasEvidence
<1>1. EvolutionInv => PromotionHasEvidence
  BY DEF EvolutionInv
<1> QED
  BY <1>1, SchedulerEvolves, EvolutionCorrect, PTL

LEMMA SchedulerInitInv == SchedulerInit => SchedulerInv
<1> SUFFICES ASSUME SchedulerInit PROVE SchedulerInv
  OBVIOUS
<1>1. TypeOK
  BY InitEvolution DEF SchedulerInit, EvolutionInv
<1>2. SchedulerTypeOK
  BY <1>1 DEF SchedulerInit, SchedulerTypeOK
<1>3. ScanIsCurrent /\ OccurrencesAreKept /\ LoopSurvives
  BY DEF SchedulerInit, Init, ScanIsCurrent, OccurrencesAreKept, LoopSurvives
<1> QED
  BY <1>2, <1>3 DEF SchedulerInv

(* A step that leaves the scheduler alone: it does not take its loop.       *)
LEMMA OthersKeepScheduler ==
  ASSUME SchedulerInv, TypeOK', UNCHANGED schedulerVars, crashes' = crashes,
         loop' = "scheduler" <=> loop = "scheduler"
  PROVE  SchedulerInv'
BY DEF SchedulerInv, SchedulerTypeOK, ScanIsCurrent, OccurrencesAreKept,
       LoopSurvives, schedulerVars

LEMMA EvolutionStepKeepsScheduler ==
  ASSUME SchedulerInv, TypeOK', EvolutionStep, UNCHANGED schedulerVars
  PROVE  SchedulerInv'
<1>1. /\ crashes' = crashes
      /\ \/ loop' = loop
         \/ loop = "free" /\ loop' = "promote"
         \/ loop = "promote" /\ loop' = "free"
  <2>1. CASE \/ \E c \in Candidate : Propose(c)
             \/ \E e \in Evaluation, c \in Candidate : BeginEvaluate(e, c)
    BY <2>1 DEF Propose, BeginEvaluate
  <2>2. CASE \/ \E e \in Evaluation, passes \in {"passed", "rejected"} : EndEvaluate(e, passes)
             \/ \E e \in Evaluation : EvaluateRaises(e)
    BY <2>2 DEF EndEvaluate, EvaluateRaises
  <2>3. CASE \E c \in Candidate, version \in Version : Retire(c, version)
    BY <2>3 DEF Retire
  <2>4. CASE Insert \/ MarkPromoted
    BY <2>4 DEF Insert, MarkPromoted
  <2> QED
    BY <2>1, <2>2, <2>3, <2>4 DEF EvolutionStep
<1>2. loop' = "scheduler" <=> loop = "scheduler"
  BY <1>1
<1> QED
  BY <1>1, <1>2, OthersKeepScheduler

LEMMA SchedulerNextInv ==
  ASSUME SchedulerInv, LivePrompt, TypeOK', [SchedulerNext]_allVars
  PROVE  SchedulerInv'
<1> USE DEF SchedulerInv, SchedulerTypeOK
<1>0. /\ crashes \in Nat /\ MaxDue \in Nat /\ MaxCrashes \in Nat
      /\ \A j \in Job : moved[j] \in Nat /\ submitted[j] \in Nat
  BY DEF TypeOK
<1>1. CASE EvolutionStep /\ UNCHANGED schedulerVars
  BY <1>1, EvolutionStepKeepsScheduler
<1>2. ASSUME NEW j \in Job, CreateJob(j)
      PROVE  SchedulerInv'
  BY <1>0, <1>2
  DEF CreateJob, vars, ScanIsCurrent, OccurrencesAreKept, LoopSurvives
<1>3. ASSUME NEW j \in Job, ComesDue(j)
      PROVE  SchedulerInv'
  BY <1>0, <1>3
  DEF ComesDue, vars, ScanIsCurrent, OccurrencesAreKept, LoopSurvives
<1>4. CASE Scan
  BY <1>0, <1>4
  DEF Scan, TakeLoop, Due, ScanIsCurrent, OccurrencesAreKept, LoopSurvives
<1>5. ASSUME NEW j \in Job, Submit(j)
      PROVE  SchedulerInv'
  <2> USE DEF Submit, vars, evolutionVars
  <2>1. job[j] = "due" /\ moved[j] < MaxDue
    BY <1>5 DEF ScanIsCurrent
  <2>2. submitted[j] \in moved[j]..(moved[j] + crashes)
    BY <1>0, <1>5 DEF OccurrencesAreKept
  <2>3. /\ submitted'[j] = submitted[j] + 1
        /\ \A k \in Job \ {j} : submitted'[k] = submitted[k]
    BY <1>5
  <2>4. submitted' \in [Job -> 0..(MaxDue + MaxCrashes)]
    BY <1>0, <1>5, <2>1, <2>2 DEF TypeOK
  <2>5. SchedulerTypeOK'
    BY <1>5, <2>4
  <2>6. ScanIsCurrent' /\ LoopSurvives'
    BY <1>5 DEF ScanIsCurrent, LoopSurvives
  <2>7. OccurrencesAreKept'
    BY <1>0, <1>5, <2>2, <2>3 DEF OccurrencesAreKept
  <2> QED
    BY <2>5, <2>6, <2>7
<1>6. ASSUME NEW j \in Job, SubmitRaises(j)
      PROVE  SchedulerInv'
  BY <1>0, <1>6
  DEF SubmitRaises, LeaveLoop, LivePrompt, ScanIsCurrent, OccurrencesAreKept,
      LoopSurvives
<1>7. ASSUME NEW j \in Job, Move(j)
      PROVE  SchedulerInv'
  <2> USE DEF Move, LeaveLoop, vars, evolutionVars
  <2>1. current \in Job /\ current = j /\ current # None
    BY <1>7
  <2>2. job[j] = "due" /\ j \notin left /\ moved[j] < MaxDue
    BY <2>1 DEF ScanIsCurrent
  <2>3. /\ moved'[j] = moved[j] + 1 /\ job'[j] = "waiting"
        /\ \A k \in Job \ {j} : moved'[k] = moved[k] /\ job'[k] = job[k]
    BY <1>7
  <2>4. SchedulerTypeOK'
    BY <1>0, <1>7, <2>2
  <2>5. ScanIsCurrent'
    BY <1>7, <2>2, <2>3 DEF ScanIsCurrent
  <2>6. submitted[j] \in (moved[j] + 1)..(moved[j] + 1 + crashes)
    BY <2>1 DEF OccurrencesAreKept
  <2>7. OccurrencesAreKept'
    BY <1>0, <1>7, <2>1, <2>3, <2>6 DEF OccurrencesAreKept
  <2>8. LoopSurvives'
    BY <1>7 DEF LoopSurvives
  <2> QED
    BY <2>4, <2>5, <2>7, <2>8
<1>8. CASE Restart
  BY <1>0, <1>8
  DEF Restart, Crash, ScanIsCurrent, OccurrencesAreKept, LoopSurvives
<1>9. CASE UNCHANGED allVars
  BY <1>9, OthersKeepScheduler DEF allVars, vars, schedulerVars
<1> QED
  BY <1>1, <1>2, <1>3, <1>4, <1>5, <1>6, <1>7, <1>8, <1>9
  DEF SchedulerNext, SchedulerStep

(* What scheduler.py keeps of its jobs, with crashes and promotions around. *)
THEOREM SchedulerCorrect == SchedulerSpec => []SchedulerInv
<1>1. EvolutionInv => LivePrompt /\ TypeOK
  BY DEF EvolutionInv
<1>2. SchedulerInv /\ LivePrompt /\ TypeOK' /\ [SchedulerNext]_allVars => SchedulerInv'
  BY SchedulerNextInv
<1> QED
  BY <1>1, <1>2, SchedulerInitInv, SchedulerEvolves, EvolutionCorrect, PTL
  DEF SchedulerSpec

(* Every variable of the service keeps its type.                            *)
THEOREM SchedulerTypeCorrect == SchedulerSpec => []SchedulerTypeOK
<1>1. SchedulerInv => SchedulerTypeOK
  BY DEF SchedulerInv
<1> QED
  BY <1>1, SchedulerCorrect, PTL

(* No occurrence of a job is lost (scheduler.py, _loop).                    *)
THEOREM OccurrencesCorrect == SchedulerSpec => []OccurrencesAreKept
<1>1. SchedulerInv => OccurrencesAreKept
  BY DEF SchedulerInv
<1> QED
  BY <1>1, SchedulerCorrect, PTL

(* The loop of the scheduler ends only after a crash has hit a promotion.   *)
THEOREM LoopSurvivalCorrect == SchedulerSpec => []LoopSurvives
<1>1. SchedulerInv => LoopSurvives
  BY DEF SchedulerInv
<1> QED
  BY <1>1, SchedulerCorrect, PTL

=============================================================================
