------------------------------ MODULE AgentGraph ------------------------------
(***************************************************************************)
(* The task graph of a run (graph/task_graph.py): nodes that write the     *)
(* agent state and routers that read it back and name the next node.       *)
(* Whether a run stops, and on what verdict, is decided by their loops     *)
(* together: execute -> reflect -> verify -> plan -> execute, the detours  *)
(* over spawned agents, created tools, search and evolution, and the error *)
(* handler.                                                                *)
(*                                                                         *)
(* An action is a super-step of LangGraph: a node and the router after it. *)
(* What a model answers is a choice of the node; the state keeps what the  *)
(* routers tell apart.  The error handler and its router classify the last *)
(* entry of `errors' by the words in its text, and the texts quote paths   *)
(* and reasons, so that an error is the set of those words it contains.    *)
(***************************************************************************)
EXTENDS Integers, FiniteSets

CONSTANTS
    MaxIterations,      \* effective_max_iterations of the run
    Basis,              \* its own max_iterations, or the one of the settings
    LimitFloor,         \* the 100 of recursion_limit
    MaxPlanSteps,       \* planning_max_steps
    VerifyMaxCycles, OscillationRepeat, StableThreshold, CapBreakThreshold,
    MaxFolds, FoldInterval,
    CheckpointInterval, \* the 6 iterations of route_after_execute
    ErrorTexts,         \* what an error message of verify can contain
    ReviewTexts,        \* what the rejection of a reviewer can contain
    ClarifyingGate, ResearchLoop, Lats, NoEvolution, ReexecuteTool,
    EngineMayFail       \* whether the evolution engine may raise

Words == {"authentication", "auth", "budget", "rate", "evolution", "other"}

Texts == ErrorTexts \cup ReviewTexts

ASSUME GraphAssumption ==
    /\ MaxIterations \in Nat \ {0} /\ Basis \in Nat /\ Basis >= MaxIterations
    /\ LimitFloor \in Nat
    /\ MaxPlanSteps \in Nat \ {0}
    /\ VerifyMaxCycles \in Nat /\ OscillationRepeat \in Nat \ {0}
    /\ StableThreshold \in Nat /\ CapBreakThreshold \in Nat \ {0}
    /\ MaxFolds \in Nat /\ FoldInterval \in Nat /\ CheckpointInterval \in Nat
    /\ Texts \subseteq (SUBSET Words) \ {{}}
    /\ \A t \in Texts : "authentication" \in t => "auth" \in t
    /\ {ClarifyingGate, ResearchLoop, Lats, NoEvolution, ReexecuteTool, EngineMayFail}
           \subseteq BOOLEAN

VARIABLES
    node,               \* the node to run next, "END", or "raised"
    hops,               \* super-steps so far
    iteration_count,
    left,               \* steps of plan_steps from current_step_index on
    completed,          \* completed_steps is not empty
    toolFailed,         \* tool_results[-1] is a failure
    lastError,          \* errors[-1]; {} when there is none
    hasReflection,      \* reflection is not None
    shouldReplan,       \* reflection.should_replan
    lowConfidence,      \* confidence is LOW or VERY_LOW
    agentGaps,          \* pending_agent_gaps is not empty
    toolGaps,           \* pending_tool_gaps is not empty
    spawned,            \* sub_agents_spawned is not empty
    created,            \* tools_created is not empty
    capBlocks,          \* consecutive_cap_blocks, up to its threshold
    verifyCycle,        \* verify_cycle, up to one above its cap
    sameFailure,        \* equal entries at the end of recent_verify_failures
    stableVerifies,     \* consecutive_stable_verifies, up to its threshold
    isComplete,
    structured, clarified, researched,  \* the *_done guards of three nodes
    folds, lastFold,    \* length of fold_history; last_fold_iteration
    offered, reexecuted, \* evolve_reexecute_offered and _done
    judged,             \* what was last found of the work done: "no" verdict since
                        \* execute or delegate ran, or "partial", or "complete"
    misled,             \* an authentication word in the last error has led the run
                        \* out of the execute loop, or back to the start
    reopened            \* a complete run has been sent back by a way no cap closes

progress   == <<iteration_count, left, completed, toolFailed>>
reflected  == <<hasReflection, shouldReplan, lowConfidence>>
capability == <<agentGaps, toolGaps, spawned, created, capBlocks>>
verdict    == <<verifyCycle, sameFailure, stableVerifies, isComplete, judged>>
guards     == <<structured, clarified, researched>>
folding    == <<folds, lastFold>>
evolution  == <<offered, reexecuted>>
data == <<progress, lastError, reflected, capability, verdict, guards, folding, evolution>>
vars == <<node, hops, misled, reopened, data>>

Nodes == {"classify", "disambiguate", "plan", "retrieve_memory", "research",
          "structure_analysis", "agent_spawn", "delegate", "tool_create", "execute",
          "reflect", "lats_search", "verify", "evolve", "store_memory", "hitl_gate",
          "error_handler"}

Least(m, n) == IF m < n THEN m ELSE n
Most(m, n)  == IF m < n THEN n ELSE m

AtCap == iteration_count >= MaxIterations

\* no floor under the limit
M_RecursionLimit == 8 * Basis

\* execute_run gives LangGraph a limit of super-steps, and LangGraph raises
\* GraphRecursionError when a run needs more.
RecursionLimit == Most(8 * Basis, LimitFloor)

\* The ways that the iteration cap does not close.  They are kept apart, so that the
\* properties can say what holds of a run until it takes one.
Misleads(next) ==
    \/ node = "execute" /\ "authentication" \in lastError
    \/ node = "error_handler" /\ next = "classify"

\* Words that lead a complete run from evolve to the error handler, and on to the
\* reviewer.
ReviewWords == {"evolution", "budget"}

\* A reviewer writes these words, so that the run comes back to the reviewer; the
\* engine raises, and an offer that was taken before stands.
Reopens(next) ==
    \/ node = "hitl_gate" /\ next = "execute" /\ ReviewWords \subseteq lastError'
    \/ node = "evolve" /\ next = "execute" /\ offered

Goto(next) ==
    /\ hops' = hops + 1
    /\ node' = IF next # "END" /\ hops' >= RecursionLimit THEN "raised" ELSE next
    /\ misled' = (misled \/ Misleads(next))
    /\ reopened' = (reopened \/ Reopens(next))

Init ==
    /\ node = "classify" /\ hops = 0
    /\ iteration_count = 0 /\ left = 0 /\ completed = FALSE /\ toolFailed = FALSE
    /\ lastError = {}
    /\ hasReflection = FALSE /\ shouldReplan = FALSE /\ lowConfidence = FALSE
    /\ agentGaps = FALSE /\ toolGaps = FALSE /\ spawned = FALSE /\ created = FALSE
    /\ capBlocks = 0
    /\ verifyCycle = 0 /\ sameFailure = 0 /\ stableVerifies = 0
    /\ isComplete = FALSE /\ judged = "no"
    /\ structured = FALSE /\ clarified = FALSE /\ researched = FALSE
    /\ folds = 0 /\ lastFold = 0
    /\ offered = FALSE /\ reexecuted = FALSE
    /\ misled = FALSE /\ reopened = FALSE

-----------------------------------------------------------------------------
(***************************************************************************)
(* From the start to the execute loop.                                     *)
(***************************************************************************)
RouteAfterClassify(ambiguous) ==
    IF ClarifyingGate /\ ~clarified /\ ambiguous THEN "disambiguate" ELSE "plan"

Classify ==
    /\ node = "classify"
    /\ lowConfidence' \in BOOLEAN
    /\ UNCHANGED <<progress, lastError, hasReflection, shouldReplan, capability, verdict,
                   guards, folding, evolution>>
    /\ \E ambiguous \in BOOLEAN : Goto(RouteAfterClassify(ambiguous))

Disambiguate ==
    /\ node = "disambiguate"
    /\ clarified' = TRUE
    /\ UNCHANGED <<progress, lastError, reflected, capability, verdict, structured,
                   researched, folding, evolution>>
    /\ Goto("plan")

\* A plan is not empty, and no longer than the iterations that remain, or one step.
Plan ==
    /\ node = "plan"
    /\ left' \in 1 .. Least(MaxPlanSteps, Most(1, Basis - iteration_count))
    /\ iteration_count' = iteration_count + 1
    /\ UNCHANGED <<completed, toolFailed, lastError, reflected, capability, verdict,
                   guards, folding, evolution>>
    /\ Goto("retrieve_memory")

RetrieveMemory ==
    /\ node = "retrieve_memory"
    /\ UNCHANGED data
    /\ Goto(IF ResearchLoop /\ ~researched THEN "research" ELSE "structure_analysis")

Research ==
    /\ node = "research"
    /\ researched' = TRUE
    /\ UNCHANGED <<progress, lastError, reflected, capability, verdict, structured,
                   clarified, folding, evolution>>
    /\ Goto("structure_analysis")

RouteAfterStructureAnalysis ==
    IF agentGaps /\ ~spawned THEN "agent_spawn"
    ELSE IF toolGaps THEN "tool_create"
    ELSE "execute"

\* It seeds gaps once per run, but the router sends every pass on by what is pending.
StructureAnalysis ==
    /\ node = "structure_analysis"
    /\ structured' = TRUE
    /\ agentGaps' \in {agentGaps, agentGaps \/ ~(structured \/ spawned)}
    /\ toolGaps' \in {toolGaps, toolGaps \/ ~(structured \/ spawned)}
    /\ UNCHANGED <<progress, lastError, reflected, spawned, created, capBlocks,
                   verdict, clarified, researched, folding, evolution>>
    /\ Goto(RouteAfterStructureAnalysis')

-----------------------------------------------------------------------------
(***************************************************************************)
(* The execute loop.                                                       *)
(***************************************************************************)
RemainingSteps == left > 0

\* The folding checkpoint interrupts a plan when the history has grown long.
FoldingCheckpoint(longHistory) ==
    /\ longHistory /\ RemainingSteps
    /\ folds < MaxFolds /\ iteration_count - lastFold >= CheckpointInterval

\* a failed tool call goes to the error handler
M_RouteAfterExecute(longHistory) ==
    IF "authentication" \in lastError \/ toolFailed THEN "error_handler"
    ELSE IF AtCap THEN "reflect"
    ELSE IF ~RemainingSteps \/ FoldingCheckpoint(longHistory) THEN "reflect"
    ELSE "execute"

RouteAfterExecute(longHistory) ==
    IF "authentication" \in lastError THEN "error_handler"
    ELSE IF AtCap THEN "reflect"
    ELSE IF toolFailed THEN "execute"
    ELSE IF ~RemainingSteps \/ FoldingCheckpoint(longHistory) THEN "reflect"
    ELSE "execute"

\* The current step ends, perhaps with tool results, and then all of them are
\* successes; or one of them is a failure and the step is to be tried again; or no
\* step is left.
StepEnds ==
    /\ RemainingSteps
    /\ left' = left - 1 /\ completed' = TRUE
    /\ toolFailed' \in {toolFailed, FALSE}

StepFails ==
    /\ RemainingSteps
    /\ toolFailed' \in BOOLEAN
    /\ UNCHANGED <<left, completed>>

NoStepLeft ==
    /\ ~RemainingSteps
    /\ UNCHANGED <<left, completed, toolFailed>>

Execute ==
    /\ node = "execute"
    /\ StepEnds \/ StepFails \/ NoStepLeft
    /\ iteration_count' = iteration_count + 1
    /\ judged' = "no"
    /\ UNCHANGED <<lastError, reflected, capability, verifyCycle, sameFailure,
                   stableVerifies, isComplete, guards, folding, evolution>>
    /\ \E longHistory \in BOOLEAN : Goto(RouteAfterExecute(longHistory)')

\* no guard at the cap
M_RouteAfterReflect(search) ==
    LET Retry == IF Lats /\ search THEN "lats_search" ELSE "execute"
    IN  IF capBlocks >= CapBreakThreshold THEN "verify"
        ELSE IF agentGaps /\ ~spawned THEN "agent_spawn"
        ELSE IF toolGaps THEN "tool_create"
        ELSE IF ~hasReflection \/ ~RemainingSteps THEN "verify"
        ELSE IF shouldReplan
             THEN IF completed /\ lastError = {} THEN Retry ELSE "plan"
        ELSE IF lowConfidence THEN Retry
        ELSE "verify"

RouteAfterReflect(search) ==
    LET Retry == IF Lats /\ search THEN "lats_search" ELSE "execute"
    IN  IF AtCap \/ capBlocks >= CapBreakThreshold THEN "verify"
        ELSE IF agentGaps /\ ~spawned THEN "agent_spawn"
        ELSE IF toolGaps THEN "tool_create"
        ELSE IF ~hasReflection \/ ~RemainingSteps THEN "verify"
        ELSE IF shouldReplan
             THEN IF completed /\ lastError = {} THEN Retry ELSE "plan"
        ELSE IF lowConfidence THEN Retry
        ELSE "verify"

\* no cap on the folds
M_Fold ==
    /\ iteration_count >= 2
    /\ lastFold # 0 => iteration_count - lastFold >= FoldInterval
    /\ folds' = folds + 1 /\ lastFold' = iteration_count
    /\ UNCHANGED <<reflected, agentGaps, toolGaps>>

\* _check_and_fold: nothing else is reflected upon in this pass.
Fold ==
    /\ folds < MaxFolds /\ iteration_count >= 2
    /\ lastFold # 0 => iteration_count - lastFold >= FoldInterval
    /\ folds' = folds + 1 /\ lastFold' = iteration_count
    /\ UNCHANGED <<reflected, agentGaps, toolGaps>>

\* Gaps are only those not attempted before, which a model can always name anew.
Judge ==
    /\ hasReflection' = TRUE /\ shouldReplan' \in BOOLEAN /\ lowConfidence' \in BOOLEAN
    /\ agentGaps' \in {agentGaps, TRUE} /\ toolGaps' \in {toolGaps, TRUE}
    /\ UNCHANGED folding

Reflect ==
    /\ node = "reflect"
    /\ Fold \/ Judge
    /\ UNCHANGED <<progress, lastError, spawned, created, capBlocks, verdict, guards,
                   evolution>>
    /\ \E search \in BOOLEAN : Goto(RouteAfterReflect(search)')

\* The search may put another step in the place of the current one.
LatsSearch ==
    /\ node = "lats_search"
    /\ UNCHANGED data
    /\ Goto("execute")

-----------------------------------------------------------------------------
(***************************************************************************)
(* Missing capabilities.                                                   *)
(***************************************************************************)
CapBlocked == capBlocks' = Least(capBlocks + 1, CapBreakThreshold)

RouteAfterAgentSpawn ==
    IF spawned THEN "delegate" ELSE IF toolGaps THEN "tool_create" ELSE "plan"

\* Some agents, and perhaps tool gaps for the rest; none because of a cap; none for
\* another reason; no registry to spawn them from.
AgentSpawn ==
    /\ node = "agent_spawn"
    /\ agentGaps' = FALSE
    /\ \/ spawned' = TRUE /\ toolGaps' \in {toolGaps, TRUE} /\ capBlocks' = 0
       \/ toolGaps' = TRUE /\ CapBlocked /\ UNCHANGED spawned
       \/ toolGaps' = TRUE /\ UNCHANGED <<spawned, capBlocks>>
       \/ UNCHANGED <<toolGaps, spawned, capBlocks>>
    /\ UNCHANGED <<progress, lastError, reflected, created, verdict, guards, folding,
                   evolution>>
    /\ Goto(RouteAfterAgentSpawn')

RouteAfterDelegate(failed) == IF failed THEN "execute" ELSE "verify"

\* Runs once: agent_spawn is not entered again after it.  The tool results of the
\* sub-agents join those of the run.
Delegate ==
    /\ node = "delegate"
    /\ toolFailed' \in BOOLEAN
    /\ created' \in {created, TRUE}
    /\ judged' = "no"
    /\ UNCHANGED <<iteration_count, left, completed, lastError, reflected, agentGaps,
                   toolGaps, spawned, capBlocks, verifyCycle, sameFailure,
                   stableVerifies, isComplete, guards, folding, evolution>>
    /\ \E failed \in BOOLEAN : Goto(RouteAfterDelegate(failed))

RouteAfterToolCreate == IF created THEN "plan" ELSE "execute"

\* Tools; none because of the cap; none for another reason, or no gap is new.
ToolCreate ==
    /\ node = "tool_create"
    /\ toolGaps' = FALSE
    /\ \/ created' = TRUE /\ capBlocks' = 0
       \/ CapBlocked /\ UNCHANGED created
       \/ UNCHANGED <<created, capBlocks>>
    /\ UNCHANGED <<progress, lastError, reflected, agentGaps, spawned, verdict, guards,
                   folding, evolution>>
    /\ Goto(RouteAfterToolCreate')

-----------------------------------------------------------------------------
(***************************************************************************)
(* The verdict and the end.                                                *)
(***************************************************************************)
VerifyCapped ==
    \/ verifyCycle >= VerifyMaxCycles
    \/ sameFailure >= OscillationRepeat
    \/ ~RemainingSteps /\ stableVerifies >= StableThreshold

RouteAfterVerify(worthEvolving) ==
    IF isComplete
    THEN IF worthEvolving /\ ~NoEvolution THEN "evolve" ELSE "store_memory"
    ELSE IF AtCap \/ VerifyCapped THEN "store_memory"
    ELSE IF RemainingSteps THEN "execute" ELSE "plan"

Verify ==
    /\ node = "verify"
    /\ verifyCycle' = Least(verifyCycle + 1, VerifyMaxCycles + 1)
    /\ stableVerifies' \in {0, Least(stableVerifies + 1, StableThreshold)}
    /\ \/ isComplete' = TRUE
          /\ UNCHANGED <<lastError, sameFailure>>
       \/ isComplete' = FALSE
          /\ lastError' \in {lastError} \cup ErrorTexts
          /\ sameFailure' \in {1, Least(sameFailure + 1, OscillationRepeat)}
    /\ judged' = IF isComplete' THEN "complete" ELSE "partial"
    /\ UNCHANGED <<progress, reflected, capability, guards, folding, evolution>>
    /\ \E worthEvolving \in BOOLEAN : Goto(RouteAfterVerify(worthEvolving)')

RouteAfterEvolve ==
    IF "evolution" \in lastError THEN "error_handler"
    ELSE IF offered THEN "execute"
    ELSE "store_memory"

\* What becomes of a cycle: nothing to reach in this run, a tool registered, or an
\* exception, after which the node records the attempt alone.
Outcomes ==
    {"kept"} \cup (IF ReexecuteTool /\ ~reexecuted THEN {"registered"} ELSE {})
             \cup (IF EngineMayFail THEN {"raised"} ELSE {})

Evolve ==
    /\ node = "evolve"
    /\ \E outcome \in Outcomes :
          /\ offered' = IF outcome = "raised" THEN offered ELSE outcome = "registered"
          /\ reexecuted' = (reexecuted \/ outcome = "registered")
    /\ UNCHANGED <<progress, lastError, reflected, capability, verdict, guards, folding>>
    /\ Goto(RouteAfterEvolve')

RouteAfterStore == IF isComplete \/ AtCap THEN "END" ELSE "execute"

StoreMemory ==
    /\ node = "store_memory"
    /\ UNCHANGED data
    /\ Goto(RouteAfterStore)

RouteAfterHitl == IF isComplete THEN "END" ELSE "execute"

\* A rejection is an error with the words of the reviewer.
HitlGate ==
    /\ node = "hitl_gate"
    /\ \/ isComplete' = TRUE /\ judged' = "complete" /\ UNCHANGED lastError
       \/ isComplete' = FALSE /\ lastError' \in ReviewTexts /\ UNCHANGED judged
    /\ UNCHANGED <<progress, reflected, capability, verifyCycle, sameFailure,
                   stableVerifies, guards, folding, evolution>>
    /\ Goto(RouteAfterHitl')

RouteAfterError ==
    IF lastError = {} THEN "verify"
    ELSE IF "budget" \in lastError THEN "hitl_gate"
    ELSE IF "rate" \in lastError THEN IF AtCap THEN "END" ELSE "execute"
    ELSE IF "auth" \in lastError THEN "classify"
    ELSE IF AtCap THEN "END" ELSE "execute"

ErrorHandler ==
    /\ node = "error_handler"
    /\ isComplete' = (isComplete \/ (AtCap /\ lastError # {} /\ "budget" \notin lastError))
    /\ UNCHANGED <<progress, lastError, reflected, capability, verifyCycle, sameFailure,
                   stableVerifies, judged, guards, folding, evolution>>
    /\ Goto(RouteAfterError)

Next ==
    \/ Classify \/ Disambiguate \/ Plan \/ RetrieveMemory \/ Research
    \/ StructureAnalysis \/ Execute \/ Reflect \/ LatsSearch
    \/ AgentSpawn \/ Delegate \/ ToolCreate
    \/ Verify \/ Evolve \/ StoreMemory \/ HitlGate \/ ErrorHandler

Spec == Init /\ [][Next]_vars

-----------------------------------------------------------------------------
(***************************************************************************)
(* Properties                                                              *)
(***************************************************************************)
\* The type invariant of the routing state.
TypeOK ==
    /\ node \in Nodes \cup {"END", "raised"}
    /\ hops \in Nat /\ iteration_count \in Nat /\ left \in Nat
    /\ lastError \in {{}} \cup Texts
    /\ {completed, toolFailed, hasReflection, shouldReplan, lowConfidence, agentGaps,
        toolGaps, spawned, created, isComplete, structured, clarified, researched,
        offered, reexecuted, misled, reopened} \subseteq BOOLEAN
    /\ judged \in {"no", "partial", "complete"}
    /\ capBlocks \in 0 .. CapBreakThreshold
    /\ verifyCycle \in 0 .. VerifyMaxCycles + 1
    /\ sameFailure \in 0 .. OscillationRepeat
    /\ stableVerifies \in 0 .. StableThreshold
    /\ folds \in 0 .. MaxFolds /\ lastFold \in 0 .. iteration_count

\* The three ways on which a run goes round without a cap: section 6 of the README.
Astray == misled \/ reopened

\* "a COMPLEX run never hits GraphRecursionError before its complexity cap"
\* (execute_run): the loops of the graph reach END within the limit of super-steps,
\* unless the run has gone astray.
NoRecursionError == node = "raised" => Astray

\* The iteration cap ends a run that has not gone astray: what may still go on when it
\* is reached is the plan of a tool created in the last iteration, one pass over a
\* tool that evolution registered, and one that a reviewer asks for.
OvershootBounded == iteration_count > MaxIterations + 4 => Astray

\* A run ends on the verdict of a verify that saw all its work, or of a reviewer, and
\* reports that verdict ("do NOT declare the task complete: that reports a false
\* success for a run that may have produced nothing", error_handler_node), unless an
\* authentication word has led it to the error handler with its work unseen.
EndsOnVerdict ==
    node = "END" /\ ~misled => judged = IF isComplete THEN "complete" ELSE "partial"
=============================================================================
