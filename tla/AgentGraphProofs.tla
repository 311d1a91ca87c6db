--------------------------- MODULE AgentGraphProofs ---------------------------
(***************************************************************************)
(* Theorems about AgentGraph, for every iteration cap and every setting of *)
(* the loops.                                                              *)
(***************************************************************************)
EXTENDS AgentGraph, TLAPS

-----------------------------------------------------------------------------
(***************************************************************************)
(* Types.                                                                  *)
(***************************************************************************)
LEMMA BoundsType ==
    /\ MaxIterations \in Nat /\ MaxIterations >= 1
    /\ MaxPlanSteps \in Nat /\ MaxPlanSteps >= 1
    /\ Basis \in Nat /\ LimitFloor \in Nat /\ VerifyMaxCycles \in Nat
    /\ OscillationRepeat \in Nat /\ OscillationRepeat >= 1
    /\ StableThreshold \in Nat /\ MaxFolds \in Nat
    /\ CapBreakThreshold \in Nat /\ CapBreakThreshold >= 1
BY GraphAssumption

LEMMA LimitType == RecursionLimit \in Nat /\ RecursionLimit >= LimitFloor
BY GraphAssumption DEF RecursionLimit, Most

\* A router names a node or the end, whatever the limit makes of it.
LEMMA GotoType ==
    ASSUME NEW next \in Nodes \cup {"END"}, hops \in Nat, Goto(next)
    PROVE  /\ hops' \in Nat /\ node' \in Nodes \cup {"END", "raised"}
           /\ misled' \in BOOLEAN /\ reopened' \in BOOLEAN
<1>1. hops' \in Nat /\ node' \in Nodes \cup {"END", "raised"}
  BY DEF Goto
<1>2. misled' \in BOOLEAN
  BY DEF Goto
<1>3. reopened' \in BOOLEAN
  BY DEF Goto
<1> QED
  BY <1>1, <1>2, <1>3

ProgressOK == iteration_count \in Nat /\ left \in Nat
ResultsOK == completed \in BOOLEAN /\ toolFailed \in BOOLEAN
ErrorOK == lastError \in {{}} \cup Texts
ReflectedOK == /\ hasReflection \in BOOLEAN
               /\ shouldReplan \in BOOLEAN /\ lowConfidence \in BOOLEAN
CapabilityOK == /\ agentGaps \in BOOLEAN /\ toolGaps \in BOOLEAN
                /\ spawned \in BOOLEAN /\ created \in BOOLEAN
BlocksOK == capBlocks \in 0 .. CapBreakThreshold
CyclesOK == /\ verifyCycle \in 0 .. VerifyMaxCycles + 1
            /\ sameFailure \in 0 .. OscillationRepeat
            /\ stableVerifies \in 0 .. StableThreshold
VerdictOK == isComplete \in BOOLEAN /\ judged \in {"no", "partial", "complete"}
GuardsOK == structured \in BOOLEAN /\ clarified \in BOOLEAN /\ researched \in BOOLEAN
FoldingOK == folds \in 0 .. MaxFolds /\ lastFold \in 0 .. iteration_count
EvolutionOK == offered \in BOOLEAN /\ reexecuted \in BOOLEAN

DataOK == /\ ProgressOK /\ ResultsOK /\ ErrorOK /\ ReflectedOK /\ CapabilityOK
          /\ BlocksOK /\ CyclesOK /\ VerdictOK /\ GuardsOK /\ FoldingOK
          /\ EvolutionOK

WhereOK == /\ node \in Nodes \cup {"END", "raised"} /\ hops \in Nat
           /\ misled \in BOOLEAN /\ reopened \in BOOLEAN

LEMMA TypeParts == TypeOK <=> WhereOK /\ DataOK
BY DEF TypeOK, WhereOK, DataOK, ProgressOK, ResultsOK, ErrorOK, ReflectedOK,
       CapabilityOK, BlocksOK, CyclesOK, VerdictOK, GuardsOK, FoldingOK, EvolutionOK

LEMMA TypeInit == Init => TypeOK
<1> SUFFICES ASSUME Init PROVE WhereOK /\ DataOK
  BY TypeParts
<1>1. WhereOK /\ ProgressOK /\ ErrorOK
  BY DEF Init, WhereOK, Nodes, ProgressOK, ErrorOK
<1>2. ResultsOK /\ ReflectedOK /\ CapabilityOK /\ GuardsOK /\ EvolutionOK /\ VerdictOK
  BY DEF Init, ResultsOK, ReflectedOK, CapabilityOK, GuardsOK, EvolutionOK, VerdictOK
<1>3. BlocksOK /\ CyclesOK /\ FoldingOK
  BY BoundsType DEF Init, BlocksOK, CyclesOK, FoldingOK
<1> QED
  BY <1>1, <1>2, <1>3 DEF DataOK

\* A part that a step leaves alone.
LEMMA DataKept ==
    /\ ProgressOK /\ UNCHANGED progress => ProgressOK'
    /\ ResultsOK /\ UNCHANGED progress => ResultsOK'
    /\ ErrorOK /\ UNCHANGED lastError => ErrorOK'
    /\ ReflectedOK /\ UNCHANGED reflected => ReflectedOK'
    /\ CapabilityOK /\ UNCHANGED capability => CapabilityOK'
    /\ BlocksOK /\ UNCHANGED capability => BlocksOK'
    /\ CyclesOK /\ UNCHANGED verdict => CyclesOK'
    /\ VerdictOK /\ UNCHANGED verdict => VerdictOK'
    /\ GuardsOK /\ UNCHANGED guards => GuardsOK'
    /\ FoldingOK /\ UNCHANGED <<progress, folding>> => FoldingOK'
    /\ EvolutionOK /\ UNCHANGED evolution => EvolutionOK'
<1>1. ProgressOK /\ UNCHANGED progress => ProgressOK'
  BY DEF ProgressOK, progress
<1>2. ResultsOK /\ UNCHANGED progress => ResultsOK'
  BY DEF ResultsOK, progress
<1>3. ErrorOK /\ UNCHANGED lastError => ErrorOK'
  BY DEF ErrorOK
<1>4. ReflectedOK /\ UNCHANGED reflected => ReflectedOK'
  BY DEF ReflectedOK, reflected
<1>5. CapabilityOK /\ UNCHANGED capability => CapabilityOK'
  BY DEF CapabilityOK, capability
<1>6. BlocksOK /\ UNCHANGED capability => BlocksOK'
  BY DEF BlocksOK, capability
<1>7. CyclesOK /\ UNCHANGED verdict => CyclesOK'
  BY DEF CyclesOK, verdict
<1>8. VerdictOK /\ UNCHANGED verdict => VerdictOK'
  BY DEF VerdictOK, verdict
<1>9. GuardsOK /\ UNCHANGED guards => GuardsOK'
  BY DEF GuardsOK, guards
<1>10. FoldingOK /\ UNCHANGED <<progress, folding>> => FoldingOK'
  BY DEF FoldingOK, progress, folding
<1>11. EvolutionOK /\ UNCHANGED evolution => EvolutionOK'
  BY DEF EvolutionOK, evolution
<1> QED
  BY <1>1, <1>2, <1>3, <1>4, <1>5, <1>6, <1>7, <1>8, <1>9, <1>10, <1>11

LEMMA DataType ==
    ASSUME DataOK, [Next]_vars
    PROVE  DataOK'
<1> USE DEF DataOK
<1>1. CASE Classify
  <2>1. ReflectedOK'
    BY <1>1 DEF Classify, ReflectedOK, reflected
  <2> QED
    BY <1>1, <2>1, DataKept DEF Classify
<1>2. CASE Disambiguate
  <2>1. GuardsOK'
    BY <1>2 DEF Disambiguate, GuardsOK, guards
  <2> QED
    BY <1>2, <2>1, DataKept DEF Disambiguate
<1>3. CASE Plan
  <2>1. ProgressOK'
    BY <1>3, BoundsType DEF Plan, ProgressOK, progress
  <2>2. ResultsOK'
    BY <1>3 DEF Plan, ResultsOK, progress
  <2>3. FoldingOK'
    BY <1>3, BoundsType DEF Plan, FoldingOK, folding, ProgressOK, progress
  <2> QED
    BY <1>3, <2>1, <2>2, <2>3, DataKept DEF Plan
<1>4. CASE RetrieveMemory
  BY <1>4, DataKept DEF RetrieveMemory, data
<1>5. CASE Research
  <2>1. GuardsOK'
    BY <1>5 DEF Research, GuardsOK, guards
  <2> QED
    BY <1>5, <2>1, DataKept DEF Research
<1>6. CASE StructureAnalysis
  <2>1. CapabilityOK'
    BY <1>6 DEF StructureAnalysis, CapabilityOK, capability
  <2>2. BlocksOK'
    BY <1>6, BoundsType DEF StructureAnalysis, BlocksOK, capability
  <2>3. GuardsOK'
    BY <1>6 DEF StructureAnalysis, GuardsOK, guards
  <2> QED
    BY <1>6, <2>1, <2>2, <2>3, DataKept DEF StructureAnalysis
<1>7. CASE Execute
  <2>1. ProgressOK'
    <3>1. (left > 0 /\ left' = left - 1) \/ left' = left
      BY <1>7, Zenon DEF Execute, StepEnds, StepFails, NoStepLeft, RemainingSteps
    <3> QED
      BY <1>7, <3>1 DEF Execute, ProgressOK
  <2>2. ResultsOK'
    BY <1>7 DEF Execute, ResultsOK, StepEnds, StepFails, NoStepLeft, RemainingSteps, progress
  <2>3. CyclesOK'
    BY <1>7, BoundsType DEF Execute, CyclesOK, StepEnds, StepFails, NoStepLeft, RemainingSteps, verdict
  <2>4. VerdictOK'
    BY <1>7 DEF Execute, VerdictOK, verdict
  <2>5. FoldingOK'
    BY <1>7, BoundsType DEF Execute, FoldingOK, StepEnds, StepFails, NoStepLeft, RemainingSteps, folding, ProgressOK, progress
  <2> QED
    BY <1>7, <2>1, <2>2, <2>3, <2>4, <2>5, DataKept DEF Execute
<1>8. CASE Reflect
  <2>1. ReflectedOK'
    BY <1>8 DEF Reflect, ReflectedOK, Fold, Judge, reflected
  <2>2. CapabilityOK'
    BY <1>8 DEF Reflect, CapabilityOK, Fold, Judge, capability
  <2>3. BlocksOK'
    BY <1>8, BoundsType DEF Reflect, BlocksOK, Fold, Judge, capability
  <2>4. FoldingOK'
    <3>1. CASE Fold
      BY <1>8, <3>1, BoundsType DEF Reflect, FoldingOK, Fold, ProgressOK, progress
    <3>2. CASE Judge
      BY <1>8, <3>2, DataKept, Zenon DEF Reflect, Judge
    <3> QED
      BY <1>8, <3>1, <3>2 DEF Reflect
  <2> QED
    BY <1>8, <2>1, <2>2, <2>3, <2>4, DataKept DEF Reflect
<1>9. CASE LatsSearch
  BY <1>9, DataKept DEF LatsSearch, data
<1>10. CASE AgentSpawn
  <2>1. CapabilityOK'
    BY <1>10 DEF AgentSpawn, CapabilityOK, CapBlocked, Least, capability
  <2>2. BlocksOK'
    <3>1. capBlocks' = 0 \/ CapBlocked \/ capBlocks' = capBlocks
      BY <1>10, Zenon DEF AgentSpawn
    <3> QED
      BY <3>1, BoundsType DEF BlocksOK, CapBlocked, Least
  <2> QED
    BY <1>10, <2>1, <2>2, DataKept DEF AgentSpawn
<1>11. CASE Delegate
  <2>1. ProgressOK'
    BY <1>11, BoundsType DEF Delegate, ProgressOK, progress
  <2>2. ResultsOK'
    BY <1>11 DEF Delegate, ResultsOK, progress
  <2>3. CapabilityOK'
    BY <1>11 DEF Delegate, CapabilityOK, capability
  <2>4. BlocksOK'
    BY <1>11, BoundsType DEF Delegate, BlocksOK, capability
  <2>5. CyclesOK'
    BY <1>11, BoundsType DEF Delegate, CyclesOK, verdict
  <2>6. VerdictOK'
    BY <1>11 DEF Delegate, VerdictOK, verdict
  <2>7. FoldingOK'
    BY <1>11, BoundsType DEF Delegate, FoldingOK, folding, ProgressOK, progress
  <2> QED
    BY <1>11, <2>1, <2>2, <2>3, <2>4, <2>5, <2>6, <2>7, DataKept DEF Delegate
<1>12. CASE ToolCreate
  <2>1. CapabilityOK'
    BY <1>12 DEF ToolCreate, CapabilityOK, CapBlocked, Least, capability
  <2>2. BlocksOK'
    <3>1. capBlocks' = 0 \/ CapBlocked \/ capBlocks' = capBlocks
      BY <1>12, Zenon DEF ToolCreate
    <3> QED
      BY <3>1, BoundsType DEF BlocksOK, CapBlocked, Least
  <2> QED
    BY <1>12, <2>1, <2>2, DataKept DEF ToolCreate
<1>13. CASE Verify
  <2>1. ErrorOK'
    BY <1>13 DEF Verify, ErrorOK, Texts
  <2>2. CyclesOK'
    BY <1>13, BoundsType DEF Verify, CyclesOK, Least, verdict
  <2>3. VerdictOK'
    BY <1>13 DEF Verify, VerdictOK, verdict
  <2> QED
    BY <1>13, <2>1, <2>2, <2>3, DataKept DEF Verify
<1>14. CASE Evolve
  <2>1. EvolutionOK'
    BY <1>14 DEF Evolve, EvolutionOK, evolution
  <2> QED
    BY <1>14, <2>1, DataKept DEF Evolve
<1>15. CASE StoreMemory
  BY <1>15, DataKept DEF StoreMemory, data
<1>16. CASE HitlGate
  <2>1. ErrorOK'
    BY <1>16 DEF HitlGate, ErrorOK, Texts
  <2>2. CyclesOK'
    BY <1>16, BoundsType DEF HitlGate, CyclesOK, verdict
  <2>3. VerdictOK'
    BY <1>16 DEF HitlGate, VerdictOK, verdict
  <2> QED
    BY <1>16, <2>1, <2>2, <2>3, DataKept DEF HitlGate
<1>17. CASE ErrorHandler
  <2>1. CyclesOK'
    BY <1>17, BoundsType DEF ErrorHandler, CyclesOK, verdict
  <2>2. VerdictOK'
    BY <1>17 DEF ErrorHandler, VerdictOK, verdict
  <2> QED
    BY <1>17, <2>1, <2>2, DataKept DEF ErrorHandler
<1>18. CASE UNCHANGED vars
  BY <1>18, DataKept DEF vars, data
<1> QED
  BY <1>1, <1>2, <1>3, <1>4, <1>5, <1>6, <1>7, <1>8, <1>9, <1>10, <1>11, <1>12, <1>13, <1>14, <1>15, <1>16, <1>17, <1>18 DEF Next

\* A step leaves the graph where a router names a node or the end.
Proceeds == \E next \in Nodes \cup {"END"} : Goto(next)

LEMMA Routed ==
    ASSUME Next
    PROVE  Proceeds
<1>1. CASE Classify
  <2>1. PICK ambiguous \in BOOLEAN : Goto(RouteAfterClassify(ambiguous))
    BY <1>1 DEF Classify
  <2> QED
    BY <2>1 DEF Nodes, Proceeds, RouteAfterClassify
<1>2. CASE Disambiguate
  BY <1>2 DEF Disambiguate, Nodes, Proceeds
<1>3. CASE Plan
  BY <1>3 DEF Plan, Nodes, Proceeds
<1>4. CASE RetrieveMemory
  BY <1>4 DEF RetrieveMemory, Nodes, Proceeds
<1>5. CASE Research
  BY <1>5 DEF Research, Nodes, Proceeds
<1>6. CASE StructureAnalysis
  BY <1>6 DEF StructureAnalysis, Nodes, Proceeds, RouteAfterStructureAnalysis
<1>7. CASE Execute
  <2>1. PICK longHistory \in BOOLEAN : Goto(RouteAfterExecute(longHistory)')
    BY <1>7 DEF Execute
  <2> QED
    BY <2>1 DEF Nodes, Proceeds, RouteAfterExecute
<1>8. CASE Reflect
  <2>1. PICK search \in BOOLEAN : Goto(RouteAfterReflect(search)')
    BY <1>8 DEF Reflect
  <2> QED
    BY <2>1 DEF Nodes, Proceeds, RouteAfterReflect
<1>9. CASE LatsSearch
  BY <1>9 DEF LatsSearch, Nodes, Proceeds
<1>10. CASE AgentSpawn
  BY <1>10 DEF AgentSpawn, Nodes, Proceeds, RouteAfterAgentSpawn
<1>11. CASE Delegate
  <2>1. PICK failed \in BOOLEAN : Goto(RouteAfterDelegate(failed))
    BY <1>11 DEF Delegate
  <2> QED
    BY <2>1 DEF Nodes, Proceeds, RouteAfterDelegate
<1>12. CASE ToolCreate
  BY <1>12 DEF ToolCreate, Nodes, Proceeds, RouteAfterToolCreate
<1>13. CASE Verify
  <2>1. PICK worthEvolving \in BOOLEAN : Goto(RouteAfterVerify(worthEvolving)')
    BY <1>13 DEF Verify
  <2> QED
    BY <2>1 DEF Nodes, Proceeds, RouteAfterVerify
<1>14. CASE Evolve
  BY <1>14 DEF Evolve, Nodes, Proceeds, RouteAfterEvolve
<1>15. CASE StoreMemory
  BY <1>15 DEF StoreMemory, Nodes, Proceeds, RouteAfterStore
<1>16. CASE HitlGate
  BY <1>16 DEF HitlGate, Nodes, Proceeds, RouteAfterHitl
<1>17. CASE ErrorHandler
  BY <1>17 DEF ErrorHandler, Nodes, Proceeds, RouteAfterError
<1> QED
  BY <1>1, <1>2, <1>3, <1>4, <1>5, <1>6, <1>7, <1>8, <1>9, <1>10, <1>11, <1>12, <1>13, <1>14, <1>15, <1>16, <1>17 DEF Next

LEMMA WhereType ==
    ASSUME TypeOK, [Next]_vars
    PROVE  WhereOK'
<1>1. CASE UNCHANGED vars
  BY <1>1 DEF vars, TypeOK, WhereOK
<1>2. CASE Next
  <2>1. PICK next \in Nodes \cup {"END"} : Goto(next)
    BY <1>2, Routed DEF Proceeds
  <2> QED
    BY <2>1, GotoType DEF TypeOK, WhereOK
<1> QED
  BY <1>1, <1>2

\* The state of a run keeps its type (graph/state.py), for every iteration cap.
THEOREM GraphTypeCorrect == Spec => []TypeOK
<1>1. TypeOK /\ [Next]_vars => WhereOK' /\ DataOK'
  BY TypeParts, DataType, WhereType
<1> QED
  BY TypeInit, TypeParts, <1>1, PTL DEF Spec

-----------------------------------------------------------------------------
(***************************************************************************)
(* Where the routers lead, a run that goes astray apart: what is said of   *)
(* execute and the error handler holds of a step that does not mislead, of *)
(* the reviewer and evolution of one that does not reopen the run.         *)
(***************************************************************************)
\* A run that has gone astray has done so for good.
LEMMA AstrayStays ==
    ASSUME [Next]_vars
    PROVE  (misled => misled') /\ (reopened => reopened')
<1>1. CASE UNCHANGED vars
  BY <1>1 DEF vars
<1>2. CASE Next
  BY <1>2, Routed DEF Proceeds, Goto
<1> QED
  BY <1>1, <1>2

\* A step into one of these nodes, unless it was one too many.
Hop(S) ==
    /\ hops' = hops + 1
    /\ \/ node' \in S
       \/ node' = "raised" /\ hops' >= RecursionLimit

LEMMA HopBy ==
    ASSUME NEW S, NEW next \in S, Goto(next)
    PROVE  Hop(S)
BY DEF Goto, Hop

LEMMA GotoNode ==
    ASSUME NEW next, Goto(next), node' # "raised"
    PROVE  node' = next
BY DEF Goto

LEMMA StartRoutes ==
    /\ Classify => Hop({"disambiguate", "plan"})
    /\ Classify /\ node' = "disambiguate" => ~clarified
    /\ Disambiguate => Hop({"plan"})
    /\ Plan => Hop({"retrieve_memory"})
    /\ RetrieveMemory => Hop({"research", "structure_analysis"})
    /\ RetrieveMemory /\ node' = "research" => ~researched
    /\ Research => Hop({"structure_analysis"})
    /\ StructureAnalysis => Hop({"agent_spawn", "tool_create", "execute"})
    /\ StructureAnalysis /\ node' = "agent_spawn" => agentGaps' /\ ~spawned'
    /\ StructureAnalysis /\ node' = "tool_create" => toolGaps' /\ (agentGaps' => spawned')
<1>1. /\ Classify => Hop({"disambiguate", "plan"})
      /\ Classify /\ node' = "disambiguate" => ~clarified
  <2>1. SUFFICES ASSUME Classify
                 PROVE  /\ Hop({"disambiguate", "plan"})
                        /\ node' = "disambiguate" => ~clarified
    OBVIOUS
  <2>2. PICK ambiguous \in BOOLEAN : Goto(RouteAfterClassify(ambiguous))
    BY <2>1 DEF Classify
  <2>3. /\ RouteAfterClassify(ambiguous) \in {"disambiguate", "plan"}
        /\ RouteAfterClassify(ambiguous) = "disambiguate" => ~clarified
    BY DEF RouteAfterClassify
  <2> QED
    BY <2>2, <2>3, HopBy, GotoNode
<1>2. Disambiguate => Hop({"plan"})
  BY HopBy DEF Disambiguate
<1>3. Plan => Hop({"retrieve_memory"})
  BY HopBy DEF Plan
<1>4. RetrieveMemory => Hop({"research", "structure_analysis"})
  BY HopBy DEF RetrieveMemory
<1>5. RetrieveMemory /\ node' = "research" => ~researched
  BY DEF RetrieveMemory, Goto
<1>6. Research => Hop({"structure_analysis"})
  BY HopBy DEF Research
<1>7. StructureAnalysis => Hop({"agent_spawn", "tool_create", "execute"})
  <2>1. RouteAfterStructureAnalysis' \in {"agent_spawn", "tool_create", "execute"}
    BY DEF RouteAfterStructureAnalysis
  <2> QED
    BY <2>1, HopBy DEF StructureAnalysis
<1>8. /\ StructureAnalysis /\ node' = "agent_spawn" => agentGaps' /\ ~spawned'
      /\ StructureAnalysis /\ node' = "tool_create" => toolGaps' /\ (agentGaps' => spawned')
  BY DEF StructureAnalysis, Goto, RouteAfterStructureAnalysis
<1> QED
  BY <1>1, <1>2, <1>3, <1>4, <1>5, <1>6, <1>7, <1>8

LEMMA ExecuteRoutes ==
    ASSUME Execute, ~misled'
    PROVE  /\ Hop({"execute", "reflect"})
           /\ node' = "execute" => ~AtCap'
<1>1. PICK longHistory \in BOOLEAN : Goto(RouteAfterExecute(longHistory)')
  BY DEF Execute
<1>2. "authentication" \notin lastError'
  BY <1>1 DEF Execute, Goto, Misleads
<1>3. /\ RouteAfterExecute(longHistory)' \in {"execute", "reflect"}
      /\ RouteAfterExecute(longHistory)' = "execute" => ~AtCap'
  BY <1>2 DEF RouteAfterExecute
<1> QED
  BY <1>1, <1>3, HopBy, GotoNode

ReflectTargets == {"verify", "agent_spawn", "tool_create", "lats_search", "execute", "plan"}

LEMMA ReflectRoutes ==
    ASSUME Reflect
    PROVE  /\ Hop(ReflectTargets)
           /\ node' \in ReflectTargets \ {"verify"} => ~AtCap'
           /\ node' = "agent_spawn" => ~spawned'
<1>1. PICK search \in BOOLEAN : Goto(RouteAfterReflect(search)')
  BY DEF Reflect
<1>2. /\ RouteAfterReflect(search)' \in ReflectTargets
      /\ RouteAfterReflect(search)' # "verify" => ~AtCap'
      /\ RouteAfterReflect(search)' = "agent_spawn" => ~spawned'
  BY DEF RouteAfterReflect, ReflectTargets
<1> QED
  BY <1>1, <1>2, HopBy, GotoNode DEF ReflectTargets

LEMMA CapabilityRoutes ==
    /\ LatsSearch => Hop({"execute"})
    /\ AgentSpawn => Hop({"delegate", "tool_create", "plan"})
    /\ AgentSpawn /\ node' = "delegate" => spawned'
    /\ AgentSpawn /\ node' = "plan" => ~toolGaps'
    /\ Delegate => Hop({"execute", "verify"})
    /\ ToolCreate => Hop({"plan", "execute"})
<1>1. LatsSearch => Hop({"execute"})
  BY HopBy DEF LatsSearch
<1>2. AgentSpawn => Hop({"delegate", "tool_create", "plan"})
  <2>1. RouteAfterAgentSpawn' \in {"delegate", "tool_create", "plan"}
    BY DEF RouteAfterAgentSpawn
  <2> QED
    BY <2>1, HopBy DEF AgentSpawn
<1>3. /\ AgentSpawn /\ node' = "delegate" => spawned'
      /\ AgentSpawn /\ node' = "plan" => ~toolGaps'
  BY DEF AgentSpawn, Goto, RouteAfterAgentSpawn
<1>4. Delegate => Hop({"execute", "verify"})
  <2>1. SUFFICES ASSUME Delegate PROVE Hop({"execute", "verify"})
    OBVIOUS
  <2>2. PICK failed \in BOOLEAN : Goto(RouteAfterDelegate(failed))
    BY <2>1 DEF Delegate
  <2>3. RouteAfterDelegate(failed) \in {"execute", "verify"}
    BY DEF RouteAfterDelegate
  <2> QED
    BY <2>2, <2>3, HopBy
<1>5. ToolCreate => Hop({"plan", "execute"})
  <2>1. RouteAfterToolCreate' \in {"plan", "execute"}
    BY DEF RouteAfterToolCreate
  <2> QED
    BY <2>1, HopBy DEF ToolCreate
<1> QED
  BY <1>1, <1>2, <1>3, <1>4, <1>5

VerifyTargets == {"evolve", "store_memory", "execute", "plan"}

LEMMA VerifyRoutes ==
    ASSUME Verify
    PROVE  /\ Hop(VerifyTargets)
           /\ node' = "evolve" => isComplete'
           /\ node' \in {"execute", "plan"} => ~AtCap'
<1>1. PICK worthEvolving \in BOOLEAN : Goto(RouteAfterVerify(worthEvolving)')
  BY DEF Verify
<1>2. /\ RouteAfterVerify(worthEvolving)' \in VerifyTargets
      /\ RouteAfterVerify(worthEvolving)' = "evolve" => isComplete'
      /\ RouteAfterVerify(worthEvolving)' \in {"execute", "plan"} => ~AtCap'
  BY DEF RouteAfterVerify, VerifyTargets
<1> QED
  BY <1>1, <1>2, HopBy, GotoNode DEF VerifyTargets

LEMMA EndRoutes ==
    /\ Evolve => Hop({"error_handler", "execute", "store_memory"})
    /\ Evolve /\ node' = "error_handler" => "evolution" \in lastError'
    /\ Evolve /\ node' = "execute" => offered'
    /\ StoreMemory => Hop({"END", "execute"})
    /\ StoreMemory /\ node' = "execute" => ~AtCap
    /\ HitlGate => Hop({"END", "execute"})
    /\ HitlGate /\ node' = "execute" => ~isComplete'
    /\ HitlGate /\ node' = "END" => isComplete'
    /\ HitlGate /\ node' = "execute" => reopened' \/ ~(ReviewWords \subseteq lastError')
    /\ Evolve /\ node' = "execute" => reopened' \/ ~offered
<1>1. Evolve => Hop({"error_handler", "execute", "store_memory"})
  <2>1. RouteAfterEvolve' \in {"error_handler", "execute", "store_memory"}
    BY DEF RouteAfterEvolve
  <2> QED
    BY <2>1, HopBy DEF Evolve
<1>2. /\ Evolve /\ node' = "error_handler" => "evolution" \in lastError'
      /\ Evolve /\ node' = "execute" => offered'
  BY DEF Evolve, Goto, RouteAfterEvolve
<1>3. StoreMemory => Hop({"END", "execute"})
  <2>1. RouteAfterStore \in {"END", "execute"}
    BY DEF RouteAfterStore
  <2> QED
    BY <2>1, HopBy DEF StoreMemory
<1>4. StoreMemory /\ node' = "execute" => ~AtCap
  BY DEF StoreMemory, Goto, RouteAfterStore
<1>5. HitlGate => Hop({"END", "execute"})
  <2>1. RouteAfterHitl' \in {"END", "execute"}
    BY DEF RouteAfterHitl
  <2> QED
    BY <2>1, HopBy DEF HitlGate
<1>6. /\ HitlGate /\ node' = "execute" => ~isComplete'
      /\ HitlGate /\ node' = "END" => isComplete'
  BY DEF HitlGate, Goto, RouteAfterHitl
<1>7. HitlGate /\ node' = "execute" => reopened' \/ ~(ReviewWords \subseteq lastError')
  BY DEF HitlGate, Goto, Reopens, RouteAfterHitl
<1>8. Evolve /\ node' = "execute" => reopened' \/ ~offered
  BY DEF Evolve, Goto, Reopens, RouteAfterEvolve
<1> QED
  BY <1>1, <1>2, <1>3, <1>4, <1>5, <1>6, <1>7, <1>8

LEMMA ErrorRoutes ==
    ASSUME ErrorHandler, ~misled', "evolution" \in lastError
    PROVE  /\ Hop({"hitl_gate", "execute", "END"})
           /\ node' = "execute" => ~AtCap
           /\ node' = "hitl_gate" => ReviewWords \subseteq lastError
<1>1. RouteAfterError # "classify"
  BY DEF ErrorHandler, Goto, Misleads
<1>2. /\ RouteAfterError \in {"hitl_gate", "execute", "END"}
      /\ RouteAfterError = "execute" => ~AtCap
      /\ RouteAfterError = "hitl_gate" => ReviewWords \subseteq lastError
  BY <1>1 DEF RouteAfterError, ReviewWords
<1> QED
  BY <1>2, HopBy, GotoNode DEF ErrorHandler

-----------------------------------------------------------------------------
(***************************************************************************)
(* The verdict.  Whatever lies between a verify that found the work        *)
(* complete and the end leaves both the work and the verdict alone, and    *)
(* what lies there is only entered by way of such a verify.                *)
(***************************************************************************)
Concluding == {"evolve", "error_handler", "hitl_gate", "store_memory", "END"}

VerdictInv ==
    /\ node \in {"evolve", "error_handler", "hitl_gate"} => isComplete /\ judged = "complete"
    /\ node \in {"error_handler", "hitl_gate"} => "evolution" \in lastError
    /\ node \in {"store_memory", "END"} =>
           judged = IF isComplete THEN "complete" ELSE "partial"

LEMMA Unconcluded ==
    ASSUME NEW S, Hop(S), S \cap Concluding = {}
    PROVE  VerdictInv'
<1>1. node' \notin Concluding
  BY DEF Hop, Concluding
<1> QED
  BY <1>1 DEF VerdictInv, Concluding

LEMMA VerdictStep ==
    ASSUME VerdictInv, [Next]_vars, ~misled'
    PROVE  VerdictInv'
<1>1. CASE Classify \/ Disambiguate \/ Plan \/ RetrieveMemory \/ Research
           \/ StructureAnalysis
  BY <1>1, StartRoutes, Unconcluded DEF Concluding
<1>2. CASE Execute
  BY <1>2, ExecuteRoutes, Unconcluded DEF Concluding
<1>3. CASE Reflect
  BY <1>3, ReflectRoutes, Unconcluded DEF Concluding, ReflectTargets
<1>4. CASE LatsSearch \/ AgentSpawn \/ Delegate \/ ToolCreate
  BY <1>4, CapabilityRoutes, Unconcluded DEF Concluding
<1>5. CASE Verify
  <2>1. judged' = IF isComplete' THEN "complete" ELSE "partial"
    BY <1>5 DEF Verify
  <2>2. node' \in VerifyTargets \cup {"raised"} /\ (node' = "evolve" => isComplete')
    BY <1>5, VerifyRoutes DEF Hop
  <2> QED
    BY <2>1, <2>2 DEF VerdictInv, VerifyTargets
<1>6. CASE Evolve
  <2>1. isComplete' /\ judged' = "complete"
    BY <1>6 DEF VerdictInv, Evolve, verdict
  <2>2. /\ node' \in {"error_handler", "execute", "store_memory", "raised"}
        /\ node' = "error_handler" => "evolution" \in lastError'
    BY <1>6, EndRoutes DEF Hop
  <2> QED
    BY <2>1, <2>2 DEF VerdictInv
<1>7. CASE StoreMemory
  <2>1. judged' = IF isComplete' THEN "complete" ELSE "partial"
    BY <1>7 DEF VerdictInv, StoreMemory, data, verdict
  <2>2. node' \in {"END", "execute", "raised"}
    BY <1>7, EndRoutes DEF Hop
  <2> QED
    BY <2>1, <2>2 DEF VerdictInv
<1>8. CASE HitlGate
  <2>1. isComplete' => judged' = "complete"
    BY <1>8 DEF VerdictInv, HitlGate
  <2>2. node' \in {"END", "execute", "raised"} /\ (node' = "END" => isComplete')
    BY <1>8, EndRoutes DEF Hop
  <2> QED
    BY <2>1, <2>2 DEF VerdictInv
<1>9. CASE ErrorHandler
  <2>1. isComplete' /\ judged' = "complete" /\ "evolution" \in lastError'
    BY <1>9 DEF VerdictInv, ErrorHandler
  <2>2. node' \in {"hitl_gate", "execute", "END", "raised"}
    BY <1>9, ErrorRoutes DEF Hop, VerdictInv, ErrorHandler
  <2> QED
    BY <2>1, <2>2 DEF VerdictInv
<1>10. CASE UNCHANGED vars
  BY <1>10 DEF VerdictInv, vars, data, verdict
<1> QED
  BY <1>1, <1>2, <1>3, <1>4, <1>5, <1>6, <1>7, <1>8, <1>9, <1>10 DEF Next

\* No run ends on work that was not judged, or with a verdict other than the one
\* verify or a reviewer gave it (verify_node, hitl_gate_node, error_handler_node),
\* for every iteration cap and limit and all texts: also when the cap is reached, and
\* unless an authentication word has misled the run.
THEOREM ConcludesOnVerdict == Spec => []EndsOnVerdict
<1>1. Init => misled \/ VerdictInv
  BY DEF Init, VerdictInv
<1>2. (misled \/ VerdictInv) /\ [Next]_vars => (misled \/ VerdictInv)'
  BY VerdictStep, AstrayStays
<1>3. misled \/ VerdictInv => EndsOnVerdict
  BY DEF VerdictInv, EndsOnVerdict
<1> QED
  BY <1>1, <1>2, <1>3, PTL DEF Spec

-----------------------------------------------------------------------------
(***************************************************************************)
(* The end.  Every pass through execute costs an iteration, and the        *)
(* routers stop the loops at the cap; what they do not stop there are four *)
(* passes that happen once each, or take an iteration less.  CountInv says *)
(* how far past the cap each node can be entered, HopsInv how many super-  *)
(* steps the iterations so far can have taken, and the limit has room for  *)
(* the product.                                                            *)
(***************************************************************************)
\* The last error does not lead a complete run to the reviewer: so it is when the
\* reviewer has sent a complete run back, unless it was reopened.
Rejected == IF lastError # {} /\ ~(ReviewWords \subseteq lastError) THEN 1 ELSE 0
Again    == IF reexecuted THEN 1 ELSE 0
Detours  == (IF spawned THEN 2 ELSE 0) + (IF clarified THEN 1 ELSE 0)
                                       + (IF researched THEN 1 ELSE 0)
GapsFilled == ~toolGaps /\ (agentGaps => spawned)

BeforeStructure == {"classify", "disambiguate", "plan", "retrieve_memory", "research",
                    "structure_analysis"}

LoopInv ==
    /\ node \notin BeforeStructure => structured
    /\ node \in {"classify", "disambiguate"} => iteration_count = 0
    /\ node = "plan" /\ iteration_count >= 1 => structured
    /\ node \in {"retrieve_memory", "research", "structure_analysis"}
            /\ iteration_count >= 2 => structured
    /\ node = "disambiguate" => ~clarified
    /\ node = "research" => ~researched
    /\ node = "agent_spawn" => ~spawned
    /\ node = "error_handler" => "evolution" \in lastError
    /\ node = "hitl_gate" => ReviewWords \subseteq lastError
    /\ offered => reexecuted
    /\ reexecuted => ReexecuteTool

CountInv ==
    /\ node \in {"plan", "agent_spawn", "delegate", "tool_create", "lats_search"} =>
           iteration_count <= MaxIterations
    /\ node = "plan" /\ iteration_count = MaxIterations => GapsFilled
    /\ node = "tool_create" /\ iteration_count = MaxIterations => (agentGaps => spawned)
    /\ node \in {"retrieve_memory", "research", "structure_analysis"} =>
           /\ iteration_count <= MaxIterations + 1
           /\ iteration_count = MaxIterations + 1 => GapsFilled
    /\ node = "execute" => iteration_count <= MaxIterations + 1 + Again + Rejected
    /\ node \in {"reflect", "verify", "evolve", "error_handler", "hitl_gate"} =>
           iteration_count <= MaxIterations + 2 + Again + Rejected
    /\ node \in {"store_memory", "END"} => iteration_count <= MaxIterations + 4

Taken(n) == hops <= 5 * iteration_count + n + Rejected + Detours

HopsInv ==
    /\ node = "retrieve_memory" => Taken(-3)
    /\ node \in {"reflect", "delegate", "research", "structure_analysis"} => Taken(-2)
    /\ node \in {"verify", "lats_search", "agent_spawn"} => Taken(-1)
    /\ node \in {"classify", "evolve", "tool_create"} => Taken(0)
    /\ node \in {"disambiguate", "plan", "store_memory", "error_handler"} => Taken(1)
    /\ node \in {"execute", "hitl_gate"} => Taken(2)

GraphInv == TypeOK /\ LoopInv /\ CountInv /\ HopsInv /\ node # "raised"

LEMMA AmountTypes == Rejected \in 0..1 /\ Again \in 0..1 /\ Detours \in 0..4
BY DEF Rejected, Again, Detours

LEMMA AmountTypesNext == Rejected' \in 0..1 /\ Again' \in 0..1 /\ Detours' \in 0..4
BY DEF Rejected, Again, Detours

LEMMA AmountsKept ==
    /\ UNCHANGED lastError => Rejected' = Rejected
    /\ UNCHANGED reexecuted => Again' = Again
    /\ UNCHANGED <<spawned, clarified, researched>> => Detours' = Detours
    /\ UNCHANGED <<agentGaps, toolGaps, spawned>> => GapsFilled' = GapsFilled
BY DEF Rejected, Again, Detours, GapsFilled

\* No node is entered more than four iterations past the cap.
LEMMA Overshoot ==
    ASSUME GraphInv
    PROVE  iteration_count \in Nat /\ hops \in Nat /\ iteration_count <= MaxIterations + 4
<1>1. iteration_count \in Nat /\ hops \in Nat /\ node \in Nodes \cup {"END"}
  BY DEF GraphInv, TypeOK
<1> QED
  BY <1>1, BoundsType, AmountTypes
     DEF GraphInv, LoopInv, CountInv, Nodes

LEMMA Room ==
    ASSUME LimitFloor >= 76, GraphInv, node # "END"
    PROVE  hops + 1 < RecursionLimit
<1>1. /\ iteration_count \in Nat /\ hops \in Nat
      /\ iteration_count <= MaxIterations + 4
  BY Overshoot
<1>2. hops <= 5 * iteration_count + 7
  <2>1. node \in Nodes
    BY DEF GraphInv, TypeOK
  <2> QED
    BY <1>1, <2>1, AmountTypes DEF GraphInv, HopsInv, Taken, Nodes
<1>3. RecursionLimit >= 8 * Basis /\ RecursionLimit >= 76 /\ Basis >= MaxIterations
  BY GraphAssumption DEF RecursionLimit, Most
<1> QED
  BY <1>1, <1>2, <1>3, BoundsType, LimitType

\* So a hop leads where the router said.
LEMMA HopInRoom ==
    ASSUME LimitFloor >= 76, GraphInv, node # "END", NEW S, Hop(S)
    PROVE  node' \in S /\ hops' = hops + 1
BY Room, Overshoot, LimitType DEF Hop

Kept == LoopInv' /\ CountInv' /\ HopsInv' /\ node' # "raised"

LEMMA StartKept ==
    ASSUME LimitFloor >= 76, ~Astray', GraphInv,
           Classify \/ Disambiguate \/ Plan \/ RetrieveMemory \/ Research
    PROVE  Kept
<1> USE Overshoot, BoundsType, AmountTypes, AmountTypesNext, AmountsKept
    DEF GraphInv, LoopInv, CountInv, HopsInv, Taken, Kept,
        BeforeStructure
<1>1. CASE Classify
  <2>1. node' \in {"disambiguate", "plan"} /\ hops' = hops + 1
    BY <1>1, StartRoutes, HopInRoom DEF Classify
  <2>2. /\ UNCHANGED <<iteration_count, lastError, spawned, clarified, researched,
                       offered, reexecuted>>
        /\ node = "classify" /\ (node' = "disambiguate" => ~clarified')
    BY <1>1, StartRoutes DEF Classify, progress, capability, guards, evolution
  <2> QED
    BY <2>1, <2>2
<1>2. CASE Disambiguate
  <2>1. node' = "plan" /\ hops' = hops + 1
    BY <1>2, StartRoutes, HopInRoom DEF Disambiguate
  <2>2. /\ UNCHANGED <<iteration_count, lastError, offered, reexecuted>>
        /\ node = "disambiguate"
    BY <1>2 DEF Disambiguate, progress, evolution
  <2>3. Detours' = Detours + 1
    BY <1>2 DEF Disambiguate, Detours, capability, guards
  <2> QED
    BY <2>1, <2>2, <2>3
<1>3. CASE Plan
  <2>1. node' = "retrieve_memory" /\ hops' = hops + 1
    BY <1>3, StartRoutes, HopInRoom DEF Plan
  <2>2. /\ UNCHANGED <<agentGaps, toolGaps, lastError, spawned, structured, clarified,
                       researched, offered, reexecuted>>
        /\ node = "plan" /\ iteration_count' = iteration_count + 1
    BY <1>3 DEF Plan, capability, guards, evolution
  <2> QED
    BY <2>1, <2>2
<1>4. CASE RetrieveMemory
  <2>1. node' \in {"research", "structure_analysis"} /\ hops' = hops + 1
    BY <1>4, StartRoutes, HopInRoom DEF RetrieveMemory
  <2>2. /\ UNCHANGED <<iteration_count, agentGaps, toolGaps, lastError, spawned,
                       structured, clarified, researched, offered, reexecuted>>
        /\ node = "retrieve_memory" /\ (node' = "research" => ~researched')
    BY <1>4, StartRoutes DEF RetrieveMemory, data, progress, capability, guards, evolution
  <2> QED
    BY <2>1, <2>2
<1>5. CASE Research
  <2>1. node' = "structure_analysis" /\ hops' = hops + 1
    BY <1>5, StartRoutes, HopInRoom DEF Research
  <2>2. /\ UNCHANGED <<iteration_count, agentGaps, toolGaps, lastError, spawned,
                       structured, clarified, offered, reexecuted>>
        /\ node = "research"
    BY <1>5 DEF Research, progress, capability, guards, evolution
  <2>3. Detours' = Detours + 1
    BY <1>5 DEF Research, Detours, capability, guards
  <2> QED
    BY <2>1, <2>2, <2>3
<1> QED
  BY <1>1, <1>2, <1>3, <1>4, <1>5

\* Once structured, the analysis passes the gaps on as they are.
LEMMA StructureKept ==
    ASSUME LimitFloor >= 76, ~Astray', GraphInv, StructureAnalysis
    PROVE  Kept
<1>1. /\ node' \in {"agent_spawn", "tool_create", "execute"} /\ hops' = hops + 1
      /\ node' = "agent_spawn" => agentGaps' /\ ~spawned'
      /\ node' = "tool_create" => toolGaps' /\ (agentGaps' => spawned')
  BY StartRoutes, HopInRoom DEF StructureAnalysis
<1>2. /\ UNCHANGED <<iteration_count, lastError, spawned, clarified, researched, offered,
                     reexecuted>>
      /\ node = "structure_analysis" /\ structured'
      /\ structured => UNCHANGED <<agentGaps, toolGaps>>
  <2>1. agentGaps \in BOOLEAN /\ toolGaps \in BOOLEAN
    BY TypeParts DEF GraphInv, DataOK, CapabilityOK
  <2>2. structured => UNCHANGED <<agentGaps, toolGaps>>
    BY <2>1 DEF StructureAnalysis
  <2> QED
    BY <2>2 DEF StructureAnalysis, progress, evolution
<1>3. LoopInv' /\ node' # "raised"
  BY <1>1, <1>2 DEF GraphInv, LoopInv, BeforeStructure
<1>4. structured /\ GapsFilled => node' = "execute"
  BY <1>1, <1>2 DEF GapsFilled
<1>5. iteration_count = MaxIterations + 1 => node' = "execute"
  BY <1>2, <1>4, BoundsType DEF GraphInv, LoopInv, CountInv
<1>6. CountInv'
  BY <1>1, <1>2, <1>5, Overshoot, BoundsType, AmountTypes, AmountTypesNext, AmountsKept
     DEF GraphInv, CountInv
<1>7. HopsInv'
  BY <1>1, <1>2, Overshoot, AmountTypes, AmountTypesNext, AmountsKept
     DEF GraphInv, HopsInv, Taken
<1> QED
  BY <1>3, <1>6, <1>7 DEF Kept

LEMMA LoopKept ==
    ASSUME LimitFloor >= 76, ~Astray', GraphInv, Execute \/ Reflect \/ LatsSearch
    PROVE  Kept
<1> USE DEF GraphInv, LoopInv, CountInv, HopsInv, Taken, Kept,
            BeforeStructure
<1>1. CASE Execute
  <2>1. /\ node' \in {"execute", "reflect"} /\ hops' = hops + 1
        /\ node' = "execute" => ~AtCap'
    BY <1>1, ExecuteRoutes, HopInRoom DEF Execute, Astray
  <2>2. /\ UNCHANGED <<lastError, spawned, structured, clarified, researched, offered,
                       reexecuted>>
        /\ node = "execute" /\ iteration_count' = iteration_count + 1
    BY <1>1 DEF Execute, capability, guards, evolution
  <2> QED
    BY <2>1, <2>2, Overshoot, BoundsType, AmountTypes, AmountTypesNext, AmountsKept
       DEF AtCap
<1>2. CASE Reflect
  <2>1. /\ node' \in ReflectTargets /\ hops' = hops + 1
        /\ node' # "verify" => ~AtCap'
        /\ node' = "agent_spawn" => ~spawned'
    BY <1>2, ReflectRoutes, HopInRoom DEF Reflect, ReflectTargets
  <2>2. /\ UNCHANGED <<iteration_count, lastError, spawned, structured, clarified,
                       researched, offered, reexecuted>>
        /\ node = "reflect"
    BY <1>2 DEF Reflect, progress, guards, evolution
  <2> QED
    BY <2>1, <2>2, Overshoot, BoundsType, AmountTypes, AmountTypesNext, AmountsKept
       DEF AtCap, ReflectTargets
<1>3. CASE LatsSearch
  <2>1. node' = "execute" /\ hops' = hops + 1
    BY <1>3, CapabilityRoutes, HopInRoom DEF LatsSearch
  <2>2. /\ UNCHANGED <<iteration_count, lastError, spawned, structured, clarified,
                       researched, offered, reexecuted>>
        /\ node = "lats_search"
    BY <1>3 DEF LatsSearch, data, progress, capability, guards, evolution
  <2> QED
    BY <2>1, <2>2, Overshoot, BoundsType, AmountTypes, AmountTypesNext, AmountsKept
<1> QED
  BY <1>1, <1>2, <1>3

LEMMA CapabilityKept ==
    ASSUME LimitFloor >= 76, ~Astray', GraphInv, AgentSpawn \/ Delegate \/ ToolCreate
    PROVE  Kept
<1> USE DEF GraphInv, LoopInv, CountInv, HopsInv, Taken, Kept,
            BeforeStructure
<1>1. CASE AgentSpawn
  <2>1. /\ node' \in {"delegate", "tool_create", "plan"} /\ hops' = hops + 1
        /\ node' = "delegate" => spawned'
        /\ node' = "plan" => ~toolGaps'
    BY <1>1, CapabilityRoutes, HopInRoom DEF AgentSpawn
  <2>2. /\ UNCHANGED <<iteration_count, lastError, structured, clarified, researched,
                       offered, reexecuted>>
        /\ node = "agent_spawn" /\ ~agentGaps' /\ (spawned' \/ UNCHANGED spawned)
    BY <1>1 DEF AgentSpawn, progress, guards, evolution
  <2>3. node' = "plan" => GapsFilled'
    BY <2>1, <2>2 DEF GapsFilled
  <2>4. ~spawned /\ IF spawned' THEN Detours' = Detours + 2 ELSE Detours' = Detours
    BY <1>1, <2>2 DEF Detours
  <2>5. LoopInv' /\ node' # "raised"
    BY <2>1, <2>2
  <2>6. CountInv'
    BY <2>1, <2>2, <2>3, Overshoot, BoundsType, AmountsKept
  <2>7. HopsInv'
    BY <2>1, <2>2, <2>4, Overshoot, AmountTypes, AmountTypesNext, AmountsKept
  <2> QED
    BY <2>5, <2>6, <2>7
<1>2. CASE Delegate
  <2>1. node' \in {"execute", "verify"} /\ hops' = hops + 1
    BY <1>2, CapabilityRoutes, HopInRoom DEF Delegate
  <2>2. /\ UNCHANGED <<iteration_count, lastError, spawned, structured, clarified,
                       researched, offered, reexecuted>>
        /\ node = "delegate"
    BY <1>2 DEF Delegate, guards, evolution
  <2> QED
    BY <2>1, <2>2, Overshoot, BoundsType, AmountTypes, AmountTypesNext, AmountsKept
<1>3. CASE ToolCreate
  <2>1. node' \in {"plan", "execute"} /\ hops' = hops + 1
    BY <1>3, CapabilityRoutes, HopInRoom DEF ToolCreate
  <2>2. /\ UNCHANGED <<iteration_count, lastError, agentGaps, spawned, structured,
                       clarified, researched, offered, reexecuted>>
        /\ node = "tool_create" /\ ~toolGaps'
    BY <1>3 DEF ToolCreate, progress, guards, evolution
  <2>3. iteration_count = MaxIterations => GapsFilled'
    BY <2>2 DEF GapsFilled
  <2> QED
    BY <2>1, <2>2, <2>3, Overshoot, BoundsType, AmountTypes, AmountTypesNext, AmountsKept
<1> QED
  BY <1>1, <1>2, <1>3

\* An incomplete verify may change the last error, but then evolution is not next.
LEMMA VerifyKept ==
    ASSUME LimitFloor >= 76, ~Astray', GraphInv, Verify
    PROVE  Kept
<1>1. /\ node' \in VerifyTargets /\ hops' = hops + 1
      /\ node' = "evolve" => isComplete'
      /\ node' \in {"execute", "plan"} => ~AtCap'
  BY VerifyRoutes, HopInRoom DEF Verify
<1>2. /\ UNCHANGED <<iteration_count, spawned, structured, clarified, researched, offered,
                     reexecuted>>
      /\ node = "verify"
  BY DEF Verify, progress, capability, guards, evolution
<1>3. node' = "evolve" => UNCHANGED lastError
  BY <1>1 DEF Verify
<1>4. LoopInv' /\ node' # "raised"
  BY <1>1, <1>2 DEF GraphInv, LoopInv, VerifyTargets, BeforeStructure
<1>5. CountInv' /\ HopsInv'
  BY <1>1, <1>2, <1>3, Overshoot, BoundsType, AmountTypes, AmountTypesNext, AmountsKept
     DEF GraphInv, CountInv, HopsInv, Taken, VerifyTargets, AtCap
<1> QED
  BY <1>4, <1>5 DEF Kept

\* The pass over a registered tool happens once, unless the run is reopened.
LEMMA EvolveOnce ==
    ASSUME LoopInv, EvolutionOK, Evolve, ~reopened'
    PROVE  /\ offered' => reexecuted'
           /\ reexecuted => reexecuted'
           /\ reexecuted' => ReexecuteTool
           /\ node' = "execute" => ~reexecuted /\ reexecuted'
<1>1. PICK outcome \in Outcomes :
          /\ offered' = IF outcome = "raised" THEN offered ELSE outcome = "registered"
          /\ reexecuted' = (reexecuted \/ outcome = "registered")
  BY DEF Evolve
<1>2. outcome = "registered" => ReexecuteTool /\ ~reexecuted
  BY DEF Outcomes
<1>3. node' = "execute" => offered' /\ ~offered
  BY EndRoutes
<1> QED
  BY <1>1, <1>2, <1>3 DEF LoopInv, EvolutionOK

LEMMA EvolveKept ==
    ASSUME LimitFloor >= 76, ~Astray', GraphInv, Evolve
    PROVE  Kept
<1>1. /\ node' \in {"error_handler", "execute", "store_memory"} /\ hops' = hops + 1
      /\ node' = "error_handler" => "evolution" \in lastError'
  BY EndRoutes, HopInRoom DEF Evolve
<1>2. /\ UNCHANGED <<iteration_count, lastError, spawned, structured, clarified, researched>>
      /\ node = "evolve"
  BY DEF Evolve, progress, capability, guards
<1>3. /\ offered' => reexecuted'
      /\ reexecuted => reexecuted'
      /\ reexecuted' => ReexecuteTool
      /\ node' = "execute" => ~reexecuted /\ reexecuted'
  BY EvolveOnce, TypeParts DEF GraphInv, DataOK, Astray
<1>4. /\ Again' >= Again
      /\ node' = "execute" => Again' = Again + 1
  BY <1>3 DEF Again
<1>5. LoopInv' /\ node' # "raised"
  BY <1>1, <1>2, <1>3 DEF GraphInv, LoopInv, BeforeStructure
<1>6. CountInv' /\ HopsInv'
  BY <1>1, <1>2, <1>4, Overshoot, BoundsType, AmountTypes, AmountTypesNext, AmountsKept
     DEF GraphInv, CountInv, HopsInv, Taken
<1> QED
  BY <1>5, <1>6 DEF Kept

LEMMA EndKept ==
    ASSUME LimitFloor >= 76, ~Astray', GraphInv, StoreMemory \/ HitlGate \/ ErrorHandler
    PROVE  Kept
<1> USE DEF GraphInv, LoopInv, CountInv, HopsInv, Taken, Kept,
            BeforeStructure
<1>1. CASE StoreMemory
  <2>1. /\ node' \in {"END", "execute"} /\ hops' = hops + 1
        /\ node' = "execute" => ~AtCap
    BY <1>1, EndRoutes, HopInRoom DEF StoreMemory
  <2>2. /\ UNCHANGED <<iteration_count, lastError, spawned, structured, clarified,
                       researched, offered, reexecuted>>
        /\ node = "store_memory"
    BY <1>1 DEF StoreMemory, data, progress, capability, guards, evolution
  <2> QED
    BY <2>1, <2>2, Overshoot, BoundsType, AmountTypes, AmountTypesNext, AmountsKept
       DEF AtCap
<1>2. CASE HitlGate
  <2>1. /\ node' \in {"END", "execute"} /\ hops' = hops + 1
        /\ node' = "execute" => ~isComplete'
    BY <1>2, EndRoutes, HopInRoom DEF HitlGate
  <2>2. /\ UNCHANGED <<iteration_count, spawned, structured, clarified, researched,
                       offered, reexecuted>>
        /\ node = "hitl_gate" /\ ReviewWords \subseteq lastError
    BY <1>2 DEF HitlGate, progress, capability, guards, evolution
  <2>3. Rejected = 0
    BY <2>2 DEF Rejected
  <2>4. node' = "execute" => Rejected' = 1
    <3>1. node' = "execute" => lastError' \in ReviewTexts
      BY <1>2, <2>1 DEF HitlGate
    <3>2. \A t \in ReviewTexts : t # {}
      BY GraphAssumption DEF Texts
    <3>3. node' = "execute" => ~(ReviewWords \subseteq lastError')
      BY <1>2, EndRoutes DEF Astray
    <3> QED
      BY <3>1, <3>2, <3>3 DEF Rejected
  <2> QED
    BY <2>1, <2>2, <2>3, <2>4, Overshoot, BoundsType, AmountTypes, AmountTypesNext,
       AmountsKept
<1>3. CASE ErrorHandler
  <2>1. "evolution" \in lastError /\ node = "error_handler"
    BY <1>3 DEF ErrorHandler
  <2>2. /\ node' \in {"hitl_gate", "execute", "END"} /\ hops' = hops + 1
        /\ node' = "execute" => ~AtCap
        /\ node' = "hitl_gate" => ReviewWords \subseteq lastError
    BY <1>3, <2>1, ErrorRoutes, HopInRoom DEF Astray
  <2>3. UNCHANGED <<iteration_count, lastError, spawned, structured, clarified,
                    researched, offered, reexecuted>>
    BY <1>3 DEF ErrorHandler, progress, capability, guards, evolution
  <2> QED
    BY <2>1, <2>2, <2>3, Overshoot, BoundsType, AmountTypes, AmountTypesNext, AmountsKept
       DEF AtCap
<1> QED
  BY <1>1, <1>2, <1>3

LEMMA GraphInit == Init => GraphInv
<1>1. Init => LoopInv /\ CountInv /\ node # "raised"
  BY DEF Init, LoopInv, CountInv, BeforeStructure
<1>2. Init => HopsInv
  BY AmountTypes DEF Init, HopsInv, Taken
<1> QED
  BY <1>1, <1>2, TypeInit DEF GraphInv

LEMMA GraphStep ==
    ASSUME LimitFloor >= 76, ~Astray', GraphInv, [Next]_vars
    PROVE  Kept
<1>1. CASE UNCHANGED vars
  BY <1>1, AmountsKept
     DEF vars, data, progress, capability, guards, evolution, GraphInv, LoopInv, CountInv,
         HopsInv, Taken, Kept, AtCap
<1>2. CASE Next
  BY <1>2, StartKept, StructureKept, LoopKept, CapabilityKept, VerifyKept, EvolveKept,
     EndKept DEF Next
<1> QED
  BY <1>1, <1>2

\* The routers keep a run within its bounds until it goes astray.  Of the limit's two
\* terms the floor is the one that carries the small caps.
LEMMA GraphInvariant ==
    ASSUME LimitFloor >= 76
    PROVE  Spec => [](Astray \/ GraphInv)
<1>1. Init => Astray \/ GraphInv
  BY GraphInit
<1>2. (Astray \/ GraphInv) /\ [Next]_vars /\ TypeOK' => (Astray \/ GraphInv)'
  <2>1. SUFFICES ASSUME Astray \/ GraphInv, [Next]_vars, TypeOK', ~Astray'
                 PROVE  GraphInv'
    OBVIOUS
  <2>2. ~Astray
    BY <2>1, AstrayStays DEF Astray
  <2> QED
    BY <2>1, <2>2, GraphStep DEF GraphInv, Kept
<1> QED
  BY <1>1, <1>2, GraphTypeCorrect, PTL DEF Spec

\* The routers bring every run to END within the limit of super-steps that execute_run
\* passes to LangGraph, for every iteration cap and all texts, until an authentication
\* word misleads it or it is reopened.  The floor of the limit is 100 in the code; the
\* theorem needs 76 (execute_run, task_graph.py).
THEOREM WithinRecursionLimit ==
    ASSUME LimitFloor >= 76
    PROVE  Spec => []NoRecursionError
<1>1. Astray \/ GraphInv => NoRecursionError
  BY DEF GraphInv, NoRecursionError
<1> QED
  BY <1>1, GraphInvariant, PTL

\* Until an authentication word misleads it or it is reopened, a run takes at most four
\* iterations more than its cap, whatever its other loops do (route_after_execute,
\* route_after_reflect, route_after_verify).
THEOREM IterationCapHolds ==
    ASSUME LimitFloor >= 76
    PROVE  Spec => []OvershootBounded
<1>1. Astray \/ GraphInv => OvershootBounded
  BY Overshoot, BoundsType DEF OvershootBounded
<1> QED
  BY <1>1, GraphInvariant, PTL
=============================================================================
