------------------------------- MODULE MCFleet -------------------------------
(***************************************************************************)
(* Instances of Fleet for TLC.  Workflow w1 is a three-node DAG whose      *)
(* middle node is approval_required and whose last node has two parents;   *)
(* w2 is a single node that competes with it for the same workers.         *)
(***************************************************************************)
EXTENDS Fleet

CONSTANTS w1, w2, a, b, c, d, k1, k2, h1, h2, text, code

(* w1 and w2 together. *)
WorkflowOfAll == [n \in Node |-> IF n = d THEN w2 ELSE w1]
DepsAll == [n \in Node |-> CASE n = b -> {a} [] n = c -> {a, b} [] OTHER -> {}]
NeedsAll == [n \in Node |-> IF n = b THEN {code} ELSE {}]
OneOrTwoAttempts == [n \in Node |-> IF n \in {a, b} THEN 2 ELSE 1]
RankAll == [n \in Node |-> CASE n = a -> 1 [] n = b -> 2 [] OTHER -> 3]

(* A worker with every capability and two slots, one with one slot and no   *)
(* capability: a worker may register as either, in any order.               *)
MixedRegistrations ==
  {[capabilities |-> {text, code}, max_concurrency |-> 2],
   [capabilities |-> {text}, max_concurrency |-> 1]}

CapableRegistrations == {[capabilities |-> {text, code}, max_concurrency |-> 1]}
=============================================================================
