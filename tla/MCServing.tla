----------------------------- MODULE MCServing ------------------------------
(***************************************************************************)
(* What stands between a client and a model, in one run: the runs of the   *)
(* agent runtime and the entry to the realtime service.  `part` says which *)
(* of the components moves, and the others stand where they start: the     *)
(* states of the run are the sum, not the product, of those of the parts.  *)
(***************************************************************************)
EXTENDS MCAgentRuntime, Gateway, OutboundPump, GatewayLimits, Persona, TLC

CONSTANTS c1, c2, c3

VARIABLE part

Parts == {"runtime", "gateway", "pump", "limits", "persona"}

\* Token 2 expires after token 1, within the clock skew.
MCExpiry == [t \in Token |-> 2 * t - 1]

\* Clients are interchangeable: nothing chooses among them.
Clients == Permutations(Client)

ServingInit ==
  /\ part \in Parts
  /\ Init /\ GatewayInit /\ PumpInit /\ LimitsInit /\ PersonaInit

coreVars == <<vars, entryVars>>
edgeVars == <<pumpVars, limitVars, personaVars>>
servingVars == <<part, coreVars, edgeVars>>

RuntimeMoves ==
  /\ part = "runtime" /\ Next
  /\ UNCHANGED <<part, entryVars, edgeVars>>

GatewayMoves ==
  /\ part = "gateway" /\ GatewayNext
  /\ UNCHANGED <<part, vars, edgeVars>>

PumpMoves ==
  /\ part = "pump" /\ PumpNext
  /\ UNCHANGED <<part, limitVars, personaVars, coreVars>>

LimitsMove ==
  /\ part = "limits" /\ LimitsNext
  /\ UNCHANGED <<part, pumpVars, personaVars, coreVars>>

PersonaMoves ==
  /\ part = "persona" /\ PersonaNext
  /\ UNCHANGED <<part, pumpVars, limitVars, coreVars>>

ServingNext ==
  \/ RuntimeMoves \/ GatewayMoves \/ PumpMoves \/ LimitsMove
  \/ PersonaMoves

ServingSpec == ServingInit /\ [][ServingNext]_servingVars

=============================================================================
