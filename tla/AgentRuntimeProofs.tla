-------------------------- MODULE AgentRuntimeProofs --------------------------
(***************************************************************************)
(* Proofs about module AgentRuntime: for any number of runs, tools, model  *)
(* turns and approvals, and with crashes anywhere, a run has one driver,   *)
(* and the tool of an approval completes at most once and only after it    *)
(* was approved.                                                           *)
(***************************************************************************)
EXTENDS AgentRuntime, TLAPS

(* How approvals, drivers and runs are named.                               *)
LEMMA Names ==
  /\ \A a \in Approval : a \in Driver /\ RunOf(a) \in Run /\ a # Executor(RunOf(a))
  /\ \A d \in Driver : RunOf(d) \in Run
  /\ \A r \in Run : Executor(r) \in Driver /\ RunOf(Executor(r)) = r
  /\ \A r \in Run : Executor(r) \notin Approval
BY RuntimeAssumption DEF Approval, Driver, RunOf, Executor

(* What a step of Next is, with every bound variable in its set.            *)
LEMMA StepCases ==
  ASSUME [Next]_vars
  PROVE \/ \E r \in Run : Accept(r) \/ Start(r)
        \/ \E d \in Driver :
             \/ ModelFinishes(d) \/ ModelRaises(d)
             \/ \E turn \in Turns : ModelCalls(d, turn)
             \/ CallUnknown(d) \/ CallDenied(d) \/ CallTool(d)
             \/ ToolReturns(d) \/ ToolRaises(d)
             \/ \E a \in Approval : Ask(d, a)
             \/ Park(d) \/ Step(d) \/ OverBudget(d)
        \/ \E a \in Approval :
             \/ RiskyReturns(a) \/ RiskyRaises(a) \/ Resume(a)
             \/ \E verdict \in {"approved", "denied"} : Decide(a, verdict)
        \/ Crash
        \/ UNCHANGED vars
BY DEF Next, Operation, Progress, DriverStep, ApprovalStep, Decision, DriversOf, ApprovalsOf

(* A drive that goes on moves as it says, and no other drive moves.         *)
LEMMA GoesOn ==
  ASSUME TypeOK, NEW d \in Driver, NEW at \in Position,
         NEW step \in 0..MaxSteps, NEW calls \in Seq(Tool),
         Goes(d, at, step, calls)
  PROVE  /\ drive' \in [Driver -> Drive]
         /\ drive'[d].at = at
         /\ \A e \in Driver \ {d} : drive'[e] = drive[e]
<1>1. [at |-> at, step |-> step, calls |-> calls] \in Drive
  BY Zenon DEF Drive
<1> HIDE DEF Drive
<1> QED
  BY <1>1 DEF TypeOK, Goes

LEMMA DrivesTyped ==
  ASSUME TypeOK
  PROVE  \A d \in Driver : drive[d].step \in 0..MaxSteps /\ drive[d].calls \in Seq(Tool)
<1>1. \A d \in Driver : drive[d] \in Drive
  BY DEF TypeOK
<1> QED
  BY <1>1, Zenon DEF Drive

LEMMA TailOfCalls == \A s \in Seq(Tool) : s # <<>> => Tail(s) \in Seq(Tool)
OBVIOUS

LEMMA MovesOn ==
  ASSUME TypeOK, NEW d \in Driver, NEW at \in Position, Moves(d, at)
  PROVE  /\ drive' \in [Driver -> Drive]
         /\ drive'[d].at = at
         /\ \A e \in Driver \ {d} : drive'[e] = drive[e]
BY DrivesTyped, GoesOn, Zenon DEF Moves

LEMMA OffIsDrive == Off \in Drive /\ Off.at = "off"
<1>1. <<>> \in Seq(Tool) /\ 0 \in 0..MaxSteps
  BY RuntimeAssumption
<1>2. "off" \in Position
  BY DEF Position
<1>3. Off.at = "off"
  BY DEF Off
<1>4. Off \in Drive
  BY <1>1, <1>2, Zenon DEF Off, Drive
<1> QED
  BY <1>3, <1>4

LEMMA EndsThere ==
  ASSUME TypeOK, NEW d \in Driver, Ends(d)
  PROVE  /\ drive' \in [Driver -> Drive]
         /\ drive'[d].at = "off"
         /\ \A e \in Driver \ {d} : drive'[e] = drive[e]
BY OffIsDrive DEF TypeOK, Ends

(* No step takes a variable out of its type: the step counter of a drive in *)
(* particular never passes max_tool_steps.                                  *)
LEMMA TypeStep ==
  ASSUME TypeOK, [Next]_vars
  PROVE  TypeOK'
<1>0. \A d \in Driver : drive[d].step \in 0..MaxSteps /\ drive[d].calls \in Seq(Tool)
  BY DrivesTyped
<1> DEFINE Rest == /\ status' \in [Run -> {"absent", "accepted", "running",
                                    "awaiting_approval", "completed", "failed"}]
                   /\ approval' \in [Approval -> {"absent", "pending", "approved", "denied"}]
                   /\ effects' \in [Approval -> Nat]
                   /\ loop' \in Driver \cup {None}
<1>1. ASSUME NEW r \in Run, Accept(r) \/ Start(r)
      PROVE  TypeOK'
  <2>1. Moves(Executor(r), "created") \/ Moves(Executor(r), "model")
    BY <1>1 DEF Accept, Start
  <2>2. drive' \in [Driver -> Drive]
    BY <2>1, Names, MovesOn, Zenon DEF Position
  <2>3. Rest
    BY <1>1 DEF Accept, Start, TypeOK
  <2> QED
    BY <2>2, <2>3 DEF TypeOK
<1>2. ASSUME NEW d \in Driver,
             \/ ModelFinishes(d) \/ ModelRaises(d) \/ CallUnknown(d)
             \/ ToolRaises(d) \/ OverBudget(d) \/ Park(d)
      PROVE  TypeOK'
  <2>1. Ends(d)
    BY <1>2, Zenon DEF ModelFinishes, ModelRaises, CallUnknown, ToolRaises, OverBudget, Park, Stop
  <2>2. drive' \in [Driver -> Drive]
    BY <2>1, EndsThere
  <2>3. Rest
    BY <1>2, Names DEF ModelFinishes, ModelRaises, CallUnknown, ToolRaises, OverBudget,
                       Park, Stop, TypeOK
  <2> QED
    BY <2>2, <2>3 DEF TypeOK
<1>3. ASSUME NEW d \in Driver,
             \/ \E turn \in Turns : ModelCalls(d, turn)
             \/ CallDenied(d) \/ CallTool(d)
      PROVE  TypeOK'
  <2>1. \A turn \in Turns : turn \in Seq(Tool)
    BY RuntimeAssumption
  <2>2. CallDenied(d) \/ CallTool(d) => Tail(drive[d].calls) \in Seq(Tool)
    BY <1>0, TailOfCalls, Zenon DEF CallDenied, CallTool, Handles
  <2>3. \E calls \in Seq(Tool), at \in Position : Goes(d, at, drive[d].step, calls)
    <3>1. "calls" \in Position /\ "tool" \in Position
      BY DEF Position
    <3> QED
      BY <1>3, <2>1, <2>2, <3>1, Zenon DEF ModelCalls, CallDenied, CallTool
  <2>4. drive' \in [Driver -> Drive]
    BY <1>0, <2>3, GoesOn, Zenon
  <2>5. Rest
    <3>1. CASE \E turn \in Turns : ModelCalls(d, turn)
      BY <3>1 DEF ModelCalls, TypeOK
    <3>2. CASE CallDenied(d) \/ CallTool(d)
      BY <3>2 DEF CallDenied, CallTool, TypeOK
    <3> QED
      BY <1>3, <3>1, <3>2
  <2> QED
    BY <2>4, <2>5 DEF TypeOK
<1>4. ASSUME NEW d \in Driver,
             ToolReturns(d) \/ (\E a \in Approval : Ask(d, a))
      PROVE  TypeOK'
  <2>1. Moves(d, "calls") \/ Moves(d, "asked")
    BY <1>4, Zenon DEF ToolReturns, Ask
  <2>2. drive' \in [Driver -> Drive]
    BY <2>1, MovesOn, Zenon DEF Position
  <2>3. Rest
    BY <1>4 DEF ToolReturns, Ask, TypeOK
  <2> QED
    BY <2>2, <2>3 DEF TypeOK
<1>5. ASSUME NEW d \in Driver, Step(d)
      PROVE  TypeOK'
  <2>1. drive[d].step + 1 \in 0..MaxSteps /\ <<>> \in Seq(Tool)
    BY <1>0, <1>5, RuntimeAssumption DEF Step
  <2>2. Goes(d, "model", drive[d].step + 1, <<>>)
    BY <1>5 DEF Step
  <2>3. drive' \in [Driver -> Drive]
    BY <2>1, <2>2, GoesOn, Zenon DEF Position
  <2>4. Rest
    BY <1>5 DEF Step, TypeOK
  <2> QED
    BY <2>3, <2>4 DEF TypeOK
<1>6. ASSUME NEW a \in Approval,
             \/ RiskyReturns(a) \/ Resume(a)
             \/ \E verdict \in {"approved", "denied"} : Decide(a, verdict)
      PROVE  TypeOK'
  <2>1. Moves(a, "decided") \/ Moves(a, "model") \/ Moves(a, "risky")
    BY <1>6, Zenon DEF RiskyReturns, Resume, Decide
  <2>2. drive' \in [Driver -> Drive]
    BY <2>1, Names, MovesOn, Zenon DEF Position
  <2>3. Rest
    BY <1>6, Names DEF RiskyReturns, Resume, Decide, TypeOK
  <2> QED
    BY <2>2, <2>3 DEF TypeOK
<1>7. ASSUME NEW a \in Approval, RiskyRaises(a)
      PROVE  TypeOK'
  <2>1. drive' \in [Driver -> Drive]
    BY <1>7, Names, EndsThere, Zenon DEF RiskyRaises
  <2> QED
    BY <1>7, <2>1 DEF RiskyRaises, TypeOK
<1>8. CASE Crash
  <2>1. drive' \in [Driver -> Drive]
    BY <1>8, OffIsDrive, Zenon DEF Crash
  <2> QED
    BY <1>8, <2>1 DEF Crash, TypeOK
<1>9. CASE UNCHANGED vars
  BY <1>9 DEF vars, TypeOK
<1> QED
  BY StepCases, <1>1, <1>2, <1>3, <1>4, <1>5, <1>6, <1>7, <1>8, <1>9

(* Every variable of AgentRuntime keeps its type: no drive takes more steps *)
(* than max_tool_steps in one _drive (runtime.py).                          *)
THEOREM TypeCorrect == Spec => []TypeOK
<1>1. Init => TypeOK
  BY OffIsDrive DEF Init, TypeOK
<1> QED
  BY <1>1, TypeStep, PTL DEF Spec
-----------------------------------------------------------------------------
(* The inductive invariant without its sets: what holds of every driver and *)
(* every approval.                                                          *)
DriverInv ==
  \A d \in Driver :
    /\ drive[d].at \in {"calls", "asked", "decided"} <=> loop = d
    /\ drive[d].at # "off" =>
         /\ status[RunOf(d)] \notin {"absent", "completed", "failed"}
         /\ status[RunOf(d)] = "accepted" <=> drive[d].at = "created"
         /\ \A e \in Driver : RunOf(e) = RunOf(d) /\ drive[e].at # "off" => e = d

ApprovalInv ==
  \A a \in Approval :
    /\ approval[a] # "absent" => status[RunOf(a)] \notin {"absent", "accepted"}
    /\ approval[a] \in {"absent", "pending"} => drive[a].at = "off"
    /\ effects[a] <= 1
    /\ approval[a] # "approved" => effects[a] = 0
    /\ drive[a].at = "risky" => approval[a] = "approved" /\ effects[a] = 0
    /\ drive[a].at # "created"
    /\ approval[a] = "pending" =>
         /\ status[RunOf(a)] \in {"running", "awaiting_approval"}
         /\ \A d \in Driver :
              RunOf(d) = RunOf(a) => drive[d].at \in {"off", "asked"}
         /\ \A b \in Approval :
              RunOf(b) = RunOf(a) /\ approval[b] = "pending" => b = a

LEMMA Flattened ==
  /\ RunInv => TypeOK /\ DriverInv /\ ApprovalInv
  /\ TypeOK' /\ DriverInv' /\ ApprovalInv' => RunInv'
<1> USE Names DEF DriverInv, ApprovalInv, OneDriver, GovernedEffect, OpenDecisionIsCurrent,
          LoopIsHeld, DecisionComesFirst, StatusMatchesDrive, Driven, Pending, Asked,
          DriversOf, ApprovalsOf
<1>1. RunInv => TypeOK /\ DriverInv
  BY DEF RunInv
<1>2. RunInv => ApprovalInv
  BY DEF RunInv, TypeOK
<1>3. TypeOK' /\ DriverInv' /\ ApprovalInv' => RunInv'
  BY DEF RunInv, TypeOK
<1> QED
  BY <1>1, <1>2, <1>3

(* Each step keeps both.  An action is replaced by what it does to the      *)
(* positions: "d is now there, and nobody else moved".                      *)
LEMMA InvStep ==
  ASSUME RunInv, [Next]_vars
  PROVE  RunInv'
<1> DEFINE Now(d, at) == /\ drive'[d].at = at
                         /\ \A e \in Driver \ {d} : drive'[e] = drive[e]
<1>1. TypeOK /\ DriverInv /\ ApprovalInv
  BY Flattened
<1>2. TypeOK'
  BY <1>1, TypeStep
<1>3. SUFFICES DriverInv' /\ ApprovalInv'
  BY <1>2, Flattened
<1>4. \A d \in Driver : /\ \A at \in Position : Moves(d, at) => Now(d, at)
                        /\ Ends(d) => Now(d, "off")
  BY <1>1, MovesOn, EndsThere, Zenon
<1>5. \A d \in Driver, at \in Position, step \in 0..MaxSteps, calls \in Seq(Tool) :
        Goes(d, at, step, calls) => Now(d, at)
  BY <1>1, GoesOn, Zenon
<1>6. {"off", "created", "model", "tool", "risky", "calls", "asked", "decided"}
        \subseteq Position
  BY DEF Position
<1>7. \A d \in Driver : drive[d].step \in 0..MaxSteps /\ drive[d].calls \in Seq(Tool)
  BY <1>1, DrivesTyped
<1> USE <1>1, Names, NoneAssumption
<1>10. ASSUME NEW r \in Run, Accept(r)
      PROVE  DriverInv' /\ ApprovalInv'
  <2>1. Now(Executor(r), "created")
    BY <1>4, <1>6, <1>10, Zenon DEF Accept
  <2>2. DriverInv'
    BY <1>10, <2>1 DEF Accept, DriverInv, ApprovalInv, TypeOK
  <2>3. \A a \in Approval : drive'[a] = drive[a] /\ drive[a].at # "created"
    BY <2>1 DEF ApprovalInv
  <2>4. \A a \in Approval : RunOf(a) = r => approval[a] = "absent"
    BY <1>10 DEF Accept, ApprovalInv, TypeOK
  <2>5. \A a \in Approval : RunOf(a) # r => status'[RunOf(a)] = status[RunOf(a)]
    BY <1>10 DEF Accept, TypeOK
  <2>6. \A a \in Approval, d \in Driver :
          RunOf(a) # r /\ RunOf(d) = RunOf(a) => drive'[d] = drive[d]
    BY <2>1
  <2>7. ApprovalInv'
    BY <1>10, <2>3, <2>4, <2>5, <2>6 DEF Accept, ApprovalInv
  <2> QED
    BY <2>2, <2>7
<1>11. ASSUME NEW r \in Run, Start(r)
      PROVE  DriverInv' /\ ApprovalInv'
  <2>1. Now(Executor(r), "model")
    BY <1>4, <1>6, <1>11, Zenon DEF Start
  <2>2. DriverInv'
    BY <1>11, <2>1 DEF Start, DriverInv, ApprovalInv, TypeOK
  <2>3. ApprovalInv'
    BY <1>11, <2>1 DEF Start, DriverInv, ApprovalInv, TypeOK
  <2> QED
    BY <2>2, <2>3
<1>12. ASSUME NEW d \in Driver, ModelFinishes(d)
      PROVE  DriverInv' /\ ApprovalInv'
  <2>1. Now(d, "off")
    BY <1>4, <1>12, Zenon DEF ModelFinishes
  <2>2. DriverInv'
    BY <1>12, <2>1 DEF ModelFinishes, DriverInv, ApprovalInv, TypeOK
  <2>3. ApprovalInv'
    BY <1>12, <2>1 DEF ModelFinishes, DriverInv, ApprovalInv, TypeOK
  <2> QED
    BY <2>2, <2>3
<1>13. ASSUME NEW d \in Driver, ModelRaises(d)
      PROVE  DriverInv' /\ ApprovalInv'
  <2>1. Now(d, "off")
    BY <1>4, <1>13, Zenon DEF ModelRaises, Stop
  <2>2. DriverInv'
    BY <1>13, <2>1 DEF ModelRaises, Stop, DriverInv, ApprovalInv, TypeOK
  <2>3. ApprovalInv'
    BY <1>13, <2>1 DEF ModelRaises, Stop, DriverInv, ApprovalInv, TypeOK
  <2> QED
    BY <2>2, <2>3
<1>14. ASSUME NEW d \in Driver, CallUnknown(d)
      PROVE  DriverInv' /\ ApprovalInv'
  <2>1. Now(d, "off")
    BY <1>4, <1>14, Zenon DEF CallUnknown, Stop
  <2>2. DriverInv'
    BY <1>14, <2>1 DEF CallUnknown, Stop, Handles, DriverInv, ApprovalInv, TypeOK
  <2>3. ApprovalInv'
    BY <1>14, <2>1 DEF CallUnknown, Stop, Handles, DriverInv, ApprovalInv, TypeOK
  <2> QED
    BY <2>2, <2>3
<1>15. ASSUME NEW d \in Driver, ToolRaises(d)
      PROVE  DriverInv' /\ ApprovalInv'
  <2>1. Now(d, "off")
    BY <1>4, <1>15, Zenon DEF ToolRaises, Stop
  <2>2. DriverInv'
    BY <1>15, <2>1 DEF ToolRaises, Stop, DriverInv, ApprovalInv, TypeOK
  <2>3. ApprovalInv'
    BY <1>15, <2>1 DEF ToolRaises, Stop, DriverInv, ApprovalInv, TypeOK
  <2> QED
    BY <2>2, <2>3
<1>16. ASSUME NEW d \in Driver, OverBudget(d)
      PROVE  DriverInv' /\ ApprovalInv'
  <2>1. Now(d, "off")
    BY <1>4, <1>16, Zenon DEF OverBudget, Stop
  <2>2. DriverInv'
    BY <1>16, <2>1 DEF OverBudget, Stop, DriverInv, ApprovalInv, TypeOK
  <2>3. ApprovalInv'
    BY <1>16, <2>1 DEF OverBudget, Stop, DriverInv, ApprovalInv, TypeOK
  <2> QED
    BY <2>2, <2>3
<1>17. ASSUME NEW d \in Driver, Park(d)
      PROVE  DriverInv' /\ ApprovalInv'
  <2>1. Now(d, "off")
    BY <1>4, <1>17, Zenon DEF Park
  <2>2. DriverInv'
    BY <1>17, <2>1 DEF Park, DriverInv, ApprovalInv, TypeOK
  <2>3. ApprovalInv'
    BY <1>17, <2>1 DEF Park, DriverInv, ApprovalInv, TypeOK
  <2> QED
    BY <2>2, <2>3
<1>18. ASSUME NEW d \in Driver, ToolReturns(d)
      PROVE  DriverInv' /\ ApprovalInv'
  <2>1. Now(d, "calls")
    BY <1>4, <1>6, <1>18, Zenon DEF ToolReturns
  <2>2. DriverInv'
    BY <1>18, <2>1 DEF ToolReturns, DriverInv, ApprovalInv, TypeOK
  <2>3. ApprovalInv'
    BY <1>18, <2>1 DEF ToolReturns, DriverInv, ApprovalInv, TypeOK
  <2> QED
    BY <2>2, <2>3
<1>19. ASSUME NEW a \in Approval, RiskyReturns(a)
      PROVE  DriverInv' /\ ApprovalInv'
  <2>1. Now(a, "decided")
    BY <1>4, <1>6, <1>19, Zenon DEF RiskyReturns
  <2>2. DriverInv'
    <3>1. drive[a].at = "risky" /\ loop = None /\ loop' = a /\ status' = status
      BY <1>19 DEF RiskyReturns
    <3> QED
      BY <2>1, <3>1 DEF DriverInv, ApprovalInv
  <2>3. /\ effects[a] = 0 /\ approval[a] = "approved" /\ effects'[a] = effects[a] + 1
        /\ \A b \in Approval \ {a} : effects'[b] = effects[b]
    BY <1>19 DEF RiskyReturns, ApprovalInv, TypeOK
  <2>4. \A b \in Approval : RunOf(b) = RunOf(a) => approval[b] # "pending"
    BY <1>19 DEF RiskyReturns, ApprovalInv
  <2>5. ApprovalInv'
    BY <1>19, <2>1, <2>3, <2>4 DEF RiskyReturns, ApprovalInv
  <2> QED
    BY <2>2, <2>5
<1>20. ASSUME NEW a \in Approval, RiskyRaises(a)
      PROVE  DriverInv' /\ ApprovalInv'
  <2>1. Now(a, "off")
    BY <1>4, <1>20, Zenon DEF RiskyRaises
  <2>2. DriverInv'
    BY <1>20, <2>1 DEF RiskyRaises, DriverInv, ApprovalInv, TypeOK
  <2>3. ApprovalInv'
    BY <1>20, <2>1 DEF RiskyRaises, DriverInv, ApprovalInv, TypeOK
  <2> QED
    BY <2>2, <2>3
<1>21. ASSUME NEW a \in Approval, Resume(a)
      PROVE  DriverInv' /\ ApprovalInv'
  <2>1. Now(a, "model")
    BY <1>4, <1>6, <1>21, Zenon DEF Resume
  <2>2. DriverInv'
    BY <1>21, <2>1 DEF Resume, DriverInv, ApprovalInv, TypeOK
  <2>3. ApprovalInv'
    BY <1>21, <2>1 DEF Resume, DriverInv, ApprovalInv, TypeOK
  <2> QED
    BY <2>2, <2>3
<1>22. ASSUME NEW d \in Driver, NEW turn \in Turns, ModelCalls(d, turn)
       PROVE  DriverInv' /\ ApprovalInv'
  <2>1. turn \in Seq(Tool)
    BY RuntimeAssumption
  <2>2. Now(d, "calls")
    BY <1>5, <1>6, <1>7, <1>22, <2>1, Zenon DEF ModelCalls
  <2>3. /\ loop = None /\ drive[d].at = "model" /\ loop' = d
        /\ UNCHANGED <<status, approval, effects>>
    BY <1>22 DEF ModelCalls
  <2>4. DriverInv'
    BY <2>2, <2>3 DEF DriverInv, ApprovalInv, TypeOK
  <2>5. ApprovalInv'
    BY <2>2, <2>3 DEF DriverInv, ApprovalInv, TypeOK
  <2> QED
    BY <2>4, <2>5
<1>23. ASSUME NEW d \in Driver, CallDenied(d) \/ CallTool(d)
       PROVE  DriverInv' /\ ApprovalInv'
  <2>1. Tail(drive[d].calls) \in Seq(Tool)
    BY <1>7, <1>23, TailOfCalls, Zenon DEF CallDenied, CallTool, Handles
  <2>2. \/ Now(d, "calls") /\ loop' = d
        \/ Now(d, "tool") /\ loop' = None
    BY <1>5, <1>6, <1>7, <1>23, <2>1, Zenon DEF CallDenied, CallTool, Handles
  <2>3. /\ loop = d /\ drive[d].at = "calls"
        /\ UNCHANGED <<status, approval, effects>>
    BY <1>23 DEF CallDenied, CallTool, Handles
  <2>4. DriverInv'
    BY <2>2, <2>3 DEF DriverInv, ApprovalInv, TypeOK
  <2>5. ApprovalInv'
    BY <2>2, <2>3 DEF DriverInv, ApprovalInv, TypeOK
  <2> QED
    BY <2>4, <2>5
<1>24. ASSUME NEW d \in Driver, Step(d)
       PROVE  DriverInv' /\ ApprovalInv'
  <2>1. drive[d].step + 1 \in 0..MaxSteps /\ <<>> \in Seq(Tool)
    BY <1>7, <1>24, RuntimeAssumption DEF Step
  <2>2. Now(d, "model")
    BY <1>5, <1>6, <1>24, <2>1, Zenon DEF Step
  <2>3. DriverInv'
    BY <1>24, <2>2 DEF Step, DriverInv, ApprovalInv, TypeOK
  <2>4. ApprovalInv'
    BY <1>24, <2>2 DEF Step, DriverInv, ApprovalInv, TypeOK
  <2> QED
    BY <2>3, <2>4
<1>25. ASSUME NEW d \in Driver, NEW a \in Approval, Ask(d, a)
       PROVE  DriverInv' /\ ApprovalInv'
  <2>1. Now(d, "asked")
    BY <1>4, <1>6, <1>25, Zenon DEF Ask
  <2>2. /\ loop = d /\ drive[d].at = "calls" /\ RunOf(a) = RunOf(d)
        /\ drive[a].at = "off" /\ effects[a] = 0
        /\ UNCHANGED <<status, effects, loop>>
        /\ approval'[a] = "pending"
        /\ \A b \in Approval \ {a} : approval'[b] = approval[b]
    BY <1>25 DEF Ask, Handles, ApprovalInv, TypeOK
  <2>3. status[RunOf(d)] \in {"running", "awaiting_approval"}
    BY <2>2 DEF DriverInv, TypeOK
  <2>4. \A b \in Approval : RunOf(b) = RunOf(a) => approval[b] # "pending"
    BY <2>2 DEF ApprovalInv
  <2>5. \A e \in Driver : RunOf(e) = RunOf(a) => drive'[e].at \in {"off", "asked"}
    BY <2>1, <2>2 DEF DriverInv
  <2>6. DriverInv'
    BY <2>1, <2>2, <2>3 DEF DriverInv
  <2>7. ApprovalInv'
    BY <2>1, <2>2, <2>3, <2>4, <2>5 DEF ApprovalInv
  <2> QED
    BY <2>6, <2>7
<1>26. ASSUME NEW a \in Approval, NEW verdict \in {"approved", "denied"}, Decide(a, verdict)
       PROVE  DriverInv' /\ ApprovalInv'
  <2>1. \/ Now(a, "risky") /\ verdict = "approved" /\ loop' = None
        \/ Now(a, "decided") /\ loop' = a
    BY <1>4, <1>6, <1>26, Zenon DEF Decide
  <2>2. /\ loop = None /\ approval[a] = "pending" /\ drive[a].at = "off" /\ effects[a] = 0
        /\ UNCHANGED <<status, effects>>
        /\ approval'[a] = verdict
        /\ \A b \in Approval \ {a} : approval'[b] = approval[b]
    BY <1>26 DEF Decide, ApprovalInv, TypeOK
  <2>3. /\ status[RunOf(a)] \in {"running", "awaiting_approval"}
        /\ \A b \in Approval : RunOf(b) = RunOf(a) => approval'[b] # "pending"
    BY <2>2 DEF ApprovalInv
  <2>4. \A d \in Driver : RunOf(d) = RunOf(a) => drive[d].at = "off"
    BY <2>2 DEF DriverInv, ApprovalInv
  <2>5. DriverInv'
    BY <2>1, <2>2, <2>3, <2>4 DEF DriverInv
  <2>6. ApprovalInv'
    BY <2>1, <2>2, <2>3, <2>4 DEF ApprovalInv
  <2> QED
    BY <2>5, <2>6
<1>27. CASE Crash
  <2>1. \A d \in Driver : drive'[d].at = "off"
    BY <1>27, OffIsDrive DEF Crash
  <2> QED
    BY <1>27, <2>1 DEF Crash, DriverInv, ApprovalInv
<1>28. CASE UNCHANGED vars
  BY <1>28 DEF vars, DriverInv, ApprovalInv
<1> QED
  BY StepCases, <1>10, <1>11, <1>12, <1>13, <1>14, <1>15, <1>16, <1>17, <1>18, <1>19,
     <1>20, <1>21, <1>22, <1>23, <1>24, <1>25, <1>26, <1>27, <1>28

(* Every reachable state satisfies the inductive invariant.                 *)
THEOREM RunCorrect == Spec => []RunInv
<1>1. Init => RunInv
  <2> SUFFICES ASSUME Init PROVE RunInv
    OBVIOUS
  <2>1. TypeOK
    BY OffIsDrive DEF Init, TypeOK
  <2>2. \A d \in Driver : drive[d].at = "off"
    BY OffIsDrive DEF Init
  <2>3. OneDriver /\ LoopIsHeld /\ StatusMatchesDrive
    BY <2>2, NoneAssumption DEF Init, OneDriver, LoopIsHeld, StatusMatchesDrive, Driven,
       DriversOf, Asked, ApprovalsOf
  <2>4. GovernedEffect /\ OpenDecisionIsCurrent /\ DecisionComesFirst
    BY <2>2, Names DEF Init, GovernedEffect, OpenDecisionIsCurrent, DecisionComesFirst,
       Driven, DriversOf, Pending, ApprovalsOf
  <2> QED
    BY <2>1, <2>3, <2>4 DEF RunInv
<1> QED
  BY <1>1, InvStep, PTL DEF Spec

(* decide_approval: a run is driven by one call at a time, and no decision  *)
(* is open while something else drives it.                                  *)
THEOREM RunHasOneDriver == Spec => [](OneDriver /\ OpenDecisionIsCurrent)
<1>1. RunInv => OneDriver /\ OpenDecisionIsCurrent
  BY DEF RunInv
<1> QED
  BY <1>1, RunCorrect, PTL

(* store.decide_approval: the tool of an approval completes at most once,   *)
(* and only after the operator approved it, whatever crashes in between.    *)
THEOREM EffectsAreGoverned == Spec => []GovernedEffect
<1>1. RunInv => GovernedEffect
  BY DEF RunInv
<1> QED
  BY <1>1, RunCorrect, PTL

(* A run that was completed or failed is touched by no later step.          *)
THEOREM SettledRunsAreFinal == Spec => SettledIsFinal
<1> DEFINE Final(r) == status[r] \in {"completed", "failed"} =>
                         /\ status'[r] = status[r]
                         /\ Asked(r)' = Asked(r)
                         /\ \A a \in ApprovalsOf(r) : effects'[a] = effects[a]
<1>1. ASSUME RunInv, [Next]_vars PROVE \A r \in Run : Final(r)
  <2> SUFFICES ASSUME NEW r \in Run, status[r] \in {"completed", "failed"}
               PROVE  /\ status'[r] = status[r]
                      /\ \A a \in ApprovalsOf(r) :
                            effects'[a] = effects[a] /\ approval'[a] = approval[a]
    BY DEF Asked
  <2>1. TypeOK /\ DriverInv /\ ApprovalInv
    BY <1>1, Flattened
  <2>2. /\ \A d \in Driver : RunOf(d) = r => drive[d].at = "off"
        /\ \A a \in Approval : RunOf(a) = r => approval[a] # "pending"
    BY <2>1 DEF DriverInv, ApprovalInv
  <2> USE <2>1, <2>2, Names DEF TypeOK, ApprovalsOf
  <2> DEFINE Untouched == /\ status'[r] = status[r]
                          /\ \A a \in ApprovalsOf(r) :
                                effects'[a] = effects[a] /\ approval'[a] = approval[a]
  <2>3. ASSUME NEW q \in Run, Accept(q) \/ Start(q) PROVE Untouched
    BY <2>3 DEF Accept, Start
  <2>4. ASSUME NEW d \in Driver, ModelFinishes(d) \/ ModelRaises(d) \/ ToolRaises(d)
        PROVE  Untouched
    BY <2>4 DEF ModelFinishes, ModelRaises, ToolRaises, Stop
  <2>5. ASSUME NEW d \in Driver, CallUnknown(d) \/ OverBudget(d) \/ Park(d)
        PROVE  Untouched
    BY <2>5 DEF CallUnknown, OverBudget, Park, Handles, Stop
  <2>6. ASSUME NEW d \in Driver,
               \/ \E turn \in Turns : ModelCalls(d, turn)
               \/ CallDenied(d) \/ CallTool(d) \/ ToolReturns(d) \/ Step(d)
        PROVE  Untouched
    BY <2>6 DEF ModelCalls, CallDenied, CallTool, ToolReturns, Step
  <2>7. ASSUME NEW d \in Driver, NEW a \in Approval, Ask(d, a) PROVE Untouched
    BY <2>7 DEF Ask, Handles
  <2>8. ASSUME NEW a \in Approval, RiskyReturns(a) \/ RiskyRaises(a) \/ Resume(a)
        PROVE  Untouched
    BY <2>8 DEF RiskyReturns, RiskyRaises, Resume
  <2>9. ASSUME NEW a \in Approval, NEW verdict \in {"approved", "denied"},
               Decide(a, verdict)
        PROVE  Untouched
    BY <2>9 DEF Decide
  <2>10. Crash \/ UNCHANGED vars => Untouched
    BY DEF Crash, vars
  <2> QED
    BY <1>1, StepCases, <2>3, <2>4, <2>5, <2>6, <2>7, <2>8, <2>9, <2>10
<1> QED
  BY <1>1, RunCorrect, PTL DEF Spec, SettledIsFinal
-----------------------------------------------------------------------------
(* Between create_approval and update_run(AWAITING_APPROVAL) the row is     *)
(* open: there is no await in between at which it could be decided.         *)
AskedIsPending ==
  \A d \in Driver : drive[d].at = "asked" =>
    \E a \in Approval : RunOf(a) = RunOf(d) /\ approval[a] = "pending"

(* d, which holds the loop or finds it free, is driven to "at"; no other    *)
(* drive moves.                                                             *)
Driving(d, at) ==
  /\ loop \in {None, d}
  /\ drive'[d].at = at
  /\ \A e \in Driver \ {d} : drive'[e] = drive[e]

(* The steps of _drive that end it.                                         *)
Finishes(d) ==
  \/ ModelFinishes(d) \/ ModelRaises(d) \/ CallUnknown(d)
  \/ ToolRaises(d) \/ OverBudget(d) \/ Park(d)

(* What a step does to the drives.                                          *)
LEMMA DriveCases ==
  ASSUME TypeOK, [Next]_vars
  PROVE  \/ \E d \in Driver, at \in Position \ {"off", "asked"} : Driving(d, at)
         \/ \E d \in Driver : Finishes(d) /\ Driving(d, "off")
         \/ \E a \in Approval : RiskyRaises(a) /\ Driving(a, "off")
         \/ \E d \in Driver, a \in Approval : Ask(d, a) /\ Driving(d, "asked")
         \/ Crash
         \/ UNCHANGED vars
<1> DEFINE Now(d, at) == /\ drive'[d].at = at
                         /\ \A e \in Driver \ {d} : drive'[e] = drive[e]
           Along(d) == \E at \in Position \ {"off", "asked"} : Driving(d, at)
<1>1. \A d \in Driver : /\ \A at \in Position : Moves(d, at) => Now(d, at)
                        /\ Ends(d) => Now(d, "off")
  BY MovesOn, EndsThere, Zenon
<1>2. \A d \in Driver, at \in Position, step \in 0..MaxSteps, calls \in Seq(Tool) :
        Goes(d, at, step, calls) => Now(d, at)
  BY GoesOn, Zenon
<1>3. {"created", "model", "tool", "risky", "calls", "decided"}
        \subseteq Position \ {"off", "asked"} /\ "asked" \in Position
  BY DEF Position
<1>4. \A d \in Driver : drive[d].step \in 0..MaxSteps /\ drive[d].calls \in Seq(Tool)
  BY DrivesTyped
<1>5. ASSUME NEW d \in Driver, loop \in {None, d},
             NEW at \in {"created", "model", "tool", "risky", "calls", "decided"}, Now(d, at)
      PROVE  Along(d)
  BY <1>3, <1>5, Zenon DEF Driving
<1>10. ASSUME NEW r \in Run, Accept(r) \/ Start(r)
       PROVE  Along(Executor(r))
  <2>1. loop = None
    BY <1>10 DEF Accept, Start
  <2>2. Now(Executor(r), "created") \/ Now(Executor(r), "model")
    BY <1>1, <1>3, <1>10, Names, Zenon DEF Accept, Start
  <2> QED
    BY <1>5, <2>1, <2>2, Names
<1>11. ASSUME NEW d \in Driver, Finishes(d)
       PROVE  Driving(d, "off")
  <2>1. Ends(d)
    BY <1>11, Zenon DEF Finishes, ModelFinishes, ModelRaises, CallUnknown, ToolRaises,
       OverBudget, Park, Stop
  <2>2. loop \in {None, d}
    BY <1>11 DEF Finishes, ModelFinishes, ModelRaises, CallUnknown, ToolRaises,
       OverBudget, Park, Handles
  <2> QED
    BY <1>1, <2>1, <2>2 DEF Driving
<1>12. ASSUME NEW d \in Driver,
              \/ \E turn \in Turns : ModelCalls(d, turn)
              \/ CallDenied(d) \/ CallTool(d) \/ Step(d)
       PROVE  Along(d)
  <2>1. \A turn \in Turns : turn \in Seq(Tool)
    BY RuntimeAssumption
  <2>2. CallDenied(d) \/ CallTool(d) => Tail(drive[d].calls) \in Seq(Tool)
    BY <1>4, TailOfCalls, Zenon DEF CallDenied, CallTool, Handles
  <2>3. Step(d) => drive[d].step + 1 \in 0..MaxSteps /\ <<>> \in Seq(Tool)
    BY <1>4, RuntimeAssumption DEF Step
  <2>4. Now(d, "calls") \/ Now(d, "tool") \/ Now(d, "model")
    <3>1. CASE \E turn \in Turns : ModelCalls(d, turn)
      BY <1>2, <1>3, <1>4, <2>1, <3>1, Zenon DEF ModelCalls
    <3>2. CASE CallDenied(d) \/ CallTool(d)
      BY <1>2, <1>3, <1>4, <2>2, <3>2, Zenon DEF CallDenied, CallTool
    <3>3. CASE Step(d)
      BY <1>2, <1>3, <1>4, <2>3, <3>3, Zenon DEF Step
    <3> QED
      BY <1>12, <3>1, <3>2, <3>3
  <2>5. loop \in {None, d}
    BY <1>12 DEF ModelCalls, CallDenied, CallTool, Step, Handles
  <2> QED
    BY <1>5, <2>4, <2>5
<1>13. ASSUME NEW d \in Driver, ToolReturns(d)
       PROVE  Along(d)
  <2>1. Now(d, "calls") /\ loop = None
    BY <1>1, <1>3, <1>13, Zenon DEF ToolReturns
  <2> QED
    BY <1>5, <2>1
<1>14. ASSUME NEW d \in Driver, NEW a \in Approval, Ask(d, a)
       PROVE  Driving(d, "asked")
  BY <1>1, <1>3, <1>14 DEF Ask, Handles, Driving
<1>15. ASSUME NEW a \in Approval,
              \/ RiskyReturns(a) \/ Resume(a)
              \/ \E verdict \in {"approved", "denied"} : Decide(a, verdict)
       PROVE  Along(a)
  <2>1. Now(a, "decided") \/ Now(a, "model") \/ Now(a, "risky")
    BY <1>1, <1>3, <1>15, Names, Zenon DEF RiskyReturns, Resume, Decide
  <2>2. loop \in {None, a}
    BY <1>15 DEF RiskyReturns, Resume, Decide
  <2> QED
    BY <1>5, <2>1, <2>2, Names
<1>16. ASSUME NEW a \in Approval, RiskyRaises(a)
       PROVE  Driving(a, "off")
  BY <1>1, <1>16, Names DEF RiskyRaises, Driving
<1> HIDE DEF Along
<1>20. \/ \E d \in Driver : Along(d)
       \/ \E d \in Driver : Finishes(d)
       \/ \E a \in Approval : RiskyRaises(a)
       \/ \E d \in Driver, a \in Approval : Ask(d, a)
       \/ Crash \/ UNCHANGED vars
  BY StepCases, <1>10, <1>12, <1>13, <1>15, Names, Zenon DEF Finishes
<1> QED
  BY <1>20, <1>11, <1>14, <1>16, Zenon DEF Along

LEMMA AskedStep ==
  ASSUME RunInv, AskedIsPending, [Next]_vars
  PROVE  AskedIsPending'
<1>1. TypeOK /\ DriverInv
  BY Flattened
<1>2. ASSUME NEW d \in Driver, NEW a \in Approval, Ask(d, a), Driving(d, "asked")
      PROVE  AskedIsPending'
  <2>1. loop = d /\ RunOf(a) = RunOf(d) /\ approval'[a] = "pending"
    BY <1>1, <1>2 DEF Ask, Handles, TypeOK
  <2> QED
    BY <1>1, <1>2, <2>1 DEF AskedIsPending, DriverInv, Driving
<1>3. CASE Crash
  BY <1>3, OffIsDrive DEF Crash, AskedIsPending
<1>4. CASE UNCHANGED vars
  BY <1>4 DEF vars, AskedIsPending
<1>5. ASSUME NEW d \in Driver, NEW at, at # "asked", Driving(d, at)
      PROVE  AskedIsPending'
  BY <1>1, <1>5, NoneAssumption DEF DriverInv, AskedIsPending, Driving
<1>6. \A at \in Position \ {"off", "asked"} : at # "asked"
  OBVIOUS
<1> QED
  BY <1>1, DriveCases, <1>2, <1>3, <1>4, <1>5, <1>6, Names

(* runtime.py _execute: an executor that ends completes the run, fails it,  *)
(* or leaves it to a decision that is still open.                           *)
THEOREM ExecutorsLeaveVerdicts == Spec => ExecutorLeavesVerdict
<1>1. Init => AskedIsPending
  BY OffIsDrive DEF Init, AskedIsPending
<1>2. Spec => []AskedIsPending
  BY <1>1, AskedStep, RunCorrect, PTL DEF Spec
<1>3. ASSUME RunInv, AskedIsPending, [Next]_vars
      PROVE  Crash \/ \A r \in Run : LeavesVerdict(Executor(r))
  <2> SUFFICES ASSUME ~ Crash, NEW r \in Run,
                      drive[Executor(r)].at # "off", drive'[Executor(r)].at = "off"
               PROVE  \/ status'[r] \in {"completed", "failed"}
                      \/ status'[r] = "awaiting_approval" /\ Pending(r)' # {}
    BY Names DEF LeavesVerdict
  <2>1. TypeOK
    BY <1>3 DEF RunInv
  <2>2. Executor(r) \in Driver /\ RunOf(Executor(r)) = r /\ Executor(r) \notin Approval
    BY Names
  <2>3. ~ UNCHANGED vars
    BY DEF vars
  <2>4. ASSUME NEW d \in Driver, NEW at, Driving(d, at)
        PROVE  d = Executor(r) /\ at = "off"
    BY <2>2, <2>4 DEF Driving
  <2>5. Finishes(Executor(r))
    <3>1. \A at \in Position \ {"off", "asked"} : at # "off"
      OBVIOUS
    <3> QED
      BY <1>3, <2>1, <2>2, <2>3, <2>4, <3>1, DriveCases, Names
  <2>6. CASE ModelFinishes(Executor(r))
    BY <2>1, <2>2, <2>6 DEF ModelFinishes, TypeOK
  <2>7. CASE Park(Executor(r))
    <3>1. /\ drive[Executor(r)].at = "asked"
          /\ status'[r] = "awaiting_approval"
          /\ approval' = approval
      BY <2>1, <2>2, <2>7 DEF Park, TypeOK
    <3>2. \E a \in Approval : RunOf(a) = r /\ approval'[a] = "pending"
      BY <1>3, <2>2, <3>1 DEF AskedIsPending
    <3> QED
      BY <3>1, <3>2 DEF Pending, ApprovalsOf
  <2>8. ASSUME Stop(Executor(r))
        PROVE  status'[r] = "failed"
    BY <2>1, <2>2, <2>8 DEF Stop, TypeOK
  <2> QED
    BY <2>5, <2>6, <2>7, <2>8 DEF Finishes, ModelRaises, CallUnknown, ToolRaises, OverBudget
<1> QED
  BY <1>2, <1>3, RunCorrect, PTL DEF Spec, ExecutorLeavesVerdict
=============================================================================
