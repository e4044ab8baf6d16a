---------------------------- MODULE MCAgentRuntime ----------------------------
(***************************************************************************)
(* Two runs, one tool of each policy action, and turns that put a risky    *)
(* call before, after and between others.                                  *)
(***************************************************************************)
EXTENDS AgentRuntime

CONSTANTS r1, r2, clock, write, banned, ghost

Policy ==
  [t \in Tool |-> CASE t = clock -> "execute" [] t = write -> "approve"
                    [] t = banned -> "deny" [] OTHER -> "unknown"]

MCTurns ==
  {<<clock, ghost>>, <<write, write>>, <<banned, write>>, <<clock>>}
=============================================================================
