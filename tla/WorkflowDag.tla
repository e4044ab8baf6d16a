----------------------------- MODULE WorkflowDag -----------------------------
(***************************************************************************)
(* WorkflowSpec.validate_dag (services/fleet, models.py): what stands      *)
(* between a submitted workflow and Fleet's tables.  The recursive visit   *)
(* is modelled by its stack: visiting is the set of the nodes on it, and   *)
(* pending[n] holds the parents that the loop of visit(n) has still to     *)
(* visit.  The order of ids and of depends_on is left open.                *)
(***************************************************************************)
EXTENDS Integers, Sequences

CONSTANTS
  Id,     (* node ids that a depends_on list may mention                    *)
  Node    (* the ids of the submitted nodes, known to be unique             *)

ASSUME DagAssumption == Node \subseteq Id

VARIABLES
  edges,     (* node -> its depends_on                                      *)
  roots,     (* ids the outer loop has still to visit                       *)
  stack,     (* the nodes whose visit is in progress                        *)
  pending,   (* node -> parents its visit has still to visit                *)
  visited,
  verdict    (* "screen", then "walk", then "accepted" or "rejected"        *)

dagVars == <<edges, roots, stack, pending, visited, verdict>>

visiting == {stack[i] : i \in 1..Len(stack)}

Top == stack[Len(stack)]

DagTypeOK ==
  /\ edges \in [Node -> SUBSET Id]
  /\ roots \subseteq Node
  /\ stack \in Seq(Node)
  /\ pending \in [Node -> SUBSET Id]
  /\ visited \subseteq Node
  /\ verdict \in {"screen", "walk", "accepted", "rejected"}

DagInit ==
  /\ edges \in [Node -> SUBSET Id]
  /\ roots = Node
  /\ stack = <<>>
  /\ pending = [n \in Node |-> {}]
  /\ visited = {}
  /\ verdict = "screen"

(* No unknown and no immediate self dependency.                             *)
Screened == \A n \in Node : edges[n] \subseteq Node /\ n \notin edges[n]

Screen ==
  /\ verdict = "screen"
  /\ verdict' = IF Screened THEN "walk" ELSE "rejected"
  /\ UNCHANGED <<edges, roots, stack, pending, visited>>

(* Mutant: a node in progress is taken for a visited one.                   *)
VisitWithoutVisiting(n, left) ==
  \/ /\ n \in visited \cup visiting
     /\ pending' = left
     /\ UNCHANGED <<stack, verdict>>
  \/ /\ n \notin visited \cup visiting
     /\ stack' = Append(stack, n)
     /\ pending' = [left EXCEPT ![n] = edges[n]]
     /\ UNCHANGED verdict

(* visit(n), called with the loops' remaining work already recorded in      *)
(* left: raise on a node in progress, return on a visited one, or descend.  *)
Visit(n, left) ==
  \/ /\ n \in visiting
     /\ verdict' = "rejected"
     /\ pending' = left
     /\ UNCHANGED stack
  \/ /\ n \in visited \ visiting
     /\ pending' = left
     /\ UNCHANGED <<stack, verdict>>
  \/ /\ n \notin visited \cup visiting
     /\ stack' = Append(stack, n)
     /\ pending' = [left EXCEPT ![n] = edges[n]]
     /\ UNCHANGED verdict

VisitRoot(n) ==
  /\ verdict = "walk"
  /\ stack = <<>>
  /\ n \in roots
  /\ roots' = roots \ {n}
  /\ Visit(n, pending)
  /\ UNCHANGED <<edges, visited>>

VisitParent(p) ==
  /\ verdict = "walk"
  /\ stack # <<>>
  /\ p \in pending[Top]
  /\ Visit(p, [pending EXCEPT ![Top] = @ \ {p}])
  /\ UNCHANGED <<edges, roots, visited>>

Leave ==
  /\ verdict = "walk"
  /\ stack # <<>>
  /\ pending[Top] = {}
  /\ visited' = visited \cup {Top}
  /\ stack' = SubSeq(stack, 1, Len(stack) - 1)
  /\ UNCHANGED <<edges, roots, pending, verdict>>

Accept ==
  /\ verdict = "walk"
  /\ stack = <<>>
  /\ roots = {}
  /\ verdict' = "accepted"
  /\ UNCHANGED <<edges, roots, stack, pending, visited>>

DagNext ==
  \/ Screen
  \/ \E n \in Node : VisitRoot(n)
  \/ \E p \in Id : VisitParent(p)
  \/ Leave
  \/ Accept

DagSpec == DagInit /\ [][DagNext]_dagVars
-----------------------------------------------------------------------------
(* Reference: every set of nodes has one that depends on none of the set.   *)
Acyclic ==
  \A S \in SUBSET Node : S # {} => \E n \in S : edges[n] \cap S = {}

(* The walk accepts exactly the dependency graphs over known nodes that can *)
(* be run in some order, whatever the order of the lists.                   *)
VerdictIsRight ==
  /\ verdict = "accepted" => Screened /\ Acyclic
  /\ verdict = "rejected" => ~(Screened /\ Acyclic)

(* What makes it so: the stack is a dependency path without repetition,     *)
(* visited is closed under dependencies and acyclic, and a node whose loop  *)
(* is done has only visited parents, or the next one is on top of it.       *)
NothingStarted == verdict = "screen" => roots = Node /\ stack = <<>>

StackIsPath ==
  /\ \A i, j \in 1..Len(stack) : stack[i] = stack[j] => i = j
  /\ \A i \in 1..(Len(stack) - 1) : stack[i + 1] \in edges[stack[i]]
  /\ visiting \cap visited = {}

VisitedIsSettled ==
  /\ \A n \in visited : edges[n] \subseteq visited
  /\ \A S \in SUBSET visited : S # {} => \E n \in S : edges[n] \cap S = {}

WorkIsAccounted ==
  verdict = "walk" =>
    /\ Screened
    /\ Node \ roots \subseteq visited \cup visiting
    /\ \A i \in 1..Len(stack) :
         /\ pending[stack[i]] \subseteq edges[stack[i]]
         /\ edges[stack[i]] \ pending[stack[i]] \subseteq
              IF i < Len(stack) THEN visited \cup {stack[i + 1]} ELSE visited

WalkInv ==
  /\ DagTypeOK
  /\ NothingStarted
  /\ StackIsPath
  /\ VisitedIsSettled
  /\ WorkIsAccounted
  /\ VerdictIsRight
=============================================================================
