---------------------------- MODULE MCFleetWorker ----------------------------
(***************************************************************************)
(* FleetWorker on the workflows of MCFleet: two worker loops, one capable  *)
(* of everything with two slots (a loop uses one), one of text alone.      *)
(***************************************************************************)
EXTENDS FleetWorker, MCFleet

Profiles ==
  [k \in Worker |->
     IF k = k1 THEN [capabilities |-> {text, code}, max_concurrency |-> 2]
     ELSE [capabilities |-> {text}, max_concurrency |-> 1]]
=============================================================================
